-------------------------------- MODULE Repair --------------------------------
(***************************************************************************)
(* RepairCoordinator of crates/bran-core/src/repair/mod.rs, as the command *)
(* line runs it (do_maintain_propose and do_maintain_apply of              *)
(* crates/bran-cli/src/main.rs): a maintainer proposes the replacement of  *)
(* a target, and applies the proposal under the digest it was shown.       *)
(*                                                                         *)
(* apply compares the target with the proposal's snapshot, stages the      *)
(* replacement beside it, renames the target to a backup and the staged    *)
(* file to the target, validates, and then removes the backup or rolls     *)
(* back.  Between these system calls the process may crash, any of them    *)
(* may fail, and an editor may change the target; no lock is taken.        *)
(***************************************************************************)
EXTENDS Naturals

CONSTANTS
  Maintainers,
  Replacement,    \* Replacement[m]: the bytes m proposes
  Original,       \* the target's bytes at first, or Absent
  Edits,          \* the bytes an editor may write
  Absent, Torn,   \* no file; a file not yet fully written
  MaxApplies,     \* bound: applies per maintainer
  MaxEdits, MaxFaults

VARIABLES
  target,      \* the target's bytes, or Absent
  staged,      \* staged[m, n]: the staged file of the nth apply of m
  backup,      \* backup[m, n]: its backup
  proc,        \* proc[m]: [pc, snap, shown, hasBackup, n]
  edits, faults,
  outcome,     \* how the last apply ended: [m, ret, snap, left]
  known,       \* history: what was last written by an editor or validated
  raced        \* history: an edit fell between a compare and the end of its apply

repairFiles == <<target, staged, backup>>
repairVars == <<repairFiles, proc, edits, faults, outcome, known, raced>>

Contents == {Replacement[m] : m \in Maintainers} \cup Edits \cup {Original, Absent}
Applies == Maintainers \X (0..MaxApplies)
Window == {"stage", "write", "look", "move", "install", "restore", "create", "cleanup",
           "validate", "commit", "rollback", "put back"}

RepairTypeOK ==
  /\ target \in Contents
  /\ staged \in [Applies -> Contents \cup {Torn}]
  /\ backup \in [Applies -> Contents]
  /\ proc \in [Maintainers -> [pc : {"idle", "reconstruct", "compare"} \cup Window,
                               snap : Contents \cup {Torn}, shown : Contents \cup {Torn},
                               hasBackup : BOOLEAN, n : 0..MaxApplies]]
  /\ known \in Contents

\* shown is the source part of the digest a maintainer was shown, snap the snapshot
\* of a proposal a program holds; Torn: none
RepairInit ==
  /\ target = Original
  /\ staged = [a \in Applies |-> Absent]
  /\ backup = [a \in Applies |-> Absent]
  /\ proc = [m \in Maintainers |->
       [pc |-> "idle", snap |-> Torn, shown |-> Torn, hasBackup |-> FALSE, n |-> 0]]
  /\ edits = 0 /\ faults = 0
  /\ outcome = [m |-> "none", ret |-> "none", snap |-> Absent, left |-> Absent]
  /\ known = Original
  /\ raced = FALSE

InStep(m, pc) == proc[m].pc = pc
GoesTo(m, pc) == proc' = [proc EXCEPT ![m].pc = pc]
This(m) == <<m, proc[m].n>>
CallFails == faults < MaxFaults /\ faults' = faults + 1
CallWorks == UNCHANGED faults

\* apply returns; left is what it leaves at the target
Return(m, ret, left) ==
  /\ GoesTo(m, "idle")
  /\ outcome' = [m |-> m, ret |-> ret, snap |-> proc[m].snap, left |-> left]

\* maintain propose: reads the target, and shows a digest of it
Propose(m) ==
  /\ InStep(m, "idle")
  /\ proc' = [proc EXCEPT ![m].shown = target, ![m].snap = target]
  /\ UNCHANGED <<repairFiles, edits, faults, outcome, known, raced>>

\* apply is called with authority: by a program that kept its proposal, or by
\* maintain apply, which reconstructs it
Apply(m) ==
  /\ InStep(m, "idle")
  /\ proc[m].shown # Torn
  /\ proc[m].n < MaxApplies
  /\ \E pc \in {"reconstruct", "compare"} :
       /\ pc = "compare" => proc[m].snap # Torn
       /\ proc' = [proc EXCEPT ![m].pc = pc, ![m].n = @ + 1, ![m].hasBackup = FALSE]
  /\ UNCHANGED <<repairFiles, edits, faults, outcome, known, raced>>

\* do_maintain_apply proposes anew; another digest than the one shown is refused
Reconstruct(m) ==
  /\ InStep(m, "reconstruct")
  /\ CallWorks
  /\ IF target = proc[m].shown
     THEN proc' = [proc EXCEPT ![m].pc = "compare", ![m].snap = target] /\ UNCHANGED outcome
     ELSE Return(m, "DigestMismatch", target)
  /\ UNCHANGED <<repairFiles, edits, known, raced>>

\* Mutant of Compare: the target is not compared with the snapshot.
CompareNothing(m) ==
  /\ InStep(m, "compare")
  /\ GoesTo(m, "stage")
  /\ CallWorks
  /\ UNCHANGED <<repairFiles, outcome, edits, known, raced>>

\* the target is read again and compared with the snapshot byte for byte
Compare(m) ==
  /\ InStep(m, "compare")
  /\ \/ target = proc[m].snap /\ GoesTo(m, "stage") /\ CallWorks /\ UNCHANGED outcome
     \/ target # proc[m].snap /\ Return(m, "StaleSource", target) /\ CallWorks
     \/ CallFails /\ Return(m, "IoPartialWrite", target)
  /\ UNCHANGED <<repairFiles, edits, known, raced>>

(***************************************************************************)
(* staged_replace                                                          *)
(***************************************************************************)
\* the staged file is created, written and synced
Stage(m) ==
  /\ InStep(m, "stage")
  /\ \/ staged' = [staged EXCEPT ![This(m)] = Torn] /\ GoesTo(m, "write") /\ CallWorks
     \/ CallFails /\ GoesTo(m, "cleanup") /\ UNCHANGED staged
  /\ UNCHANGED <<target, backup, edits, outcome, known, raced>>

WriteStaged(m) ==
  /\ InStep(m, "write")
  /\ \/ staged' = [staged EXCEPT ![This(m)] = Replacement[m]] /\ GoesTo(m, "look") /\ CallWorks
     \/ CallFails /\ GoesTo(m, "cleanup") /\ UNCHANGED staged
  /\ UNCHANGED <<target, backup, edits, outcome, known, raced>>

\* symlink_metadata(target): whether there is something to back up
Look(m) ==
  /\ InStep(m, "look")
  /\ \/ GoesTo(m, IF target = Absent THEN "create" ELSE "move") /\ CallWorks
     \/ CallFails /\ GoesTo(m, "cleanup")
  /\ UNCHANGED <<repairFiles, edits, outcome, known, raced>>

\* rename(target, backup)
MoveAway(m) ==
  /\ InStep(m, "move")
  /\ \/ /\ target # Absent
        /\ backup' = [backup EXCEPT ![This(m)] = target]
        /\ target' = Absent
        /\ proc' = [proc EXCEPT ![m].pc = "install", ![m].hasBackup = TRUE]
        /\ CallWorks
     \/ target = Absent /\ GoesTo(m, "cleanup") /\ CallWorks /\ UNCHANGED <<target, backup>>
     \/ CallFails /\ GoesTo(m, "cleanup") /\ UNCHANGED <<target, backup>>
  /\ UNCHANGED <<staged, edits, outcome, known, raced>>

\* rename(tmp, target), over a backup or for a target that is new
Install(m) ==
  /\ InStep(m, "install") \/ InStep(m, "create")
  /\ \/ /\ target' = staged[This(m)]
        /\ staged' = [staged EXCEPT ![This(m)] = Absent]
        /\ GoesTo(m, "validate")
        /\ CallWorks
     \/ /\ CallFails
        /\ GoesTo(m, IF InStep(m, "install") THEN "restore" ELSE "cleanup")
        /\ UNCHANGED <<target, staged>>
  /\ UNCHANGED <<backup, edits, outcome, known, raced>>

\* Mutant of Restore: the backup is copied back only after the cleanup.
RestoreForgotten(m) ==
  /\ InStep(m, "restore")
  /\ backup' = [backup EXCEPT ![This(m)] = Absent]
  /\ GoesTo(m, "cleanup")
  /\ CallWorks
  /\ UNCHANGED <<target, staged, edits, outcome, known, raced>>

\* the staged file could not be installed: rename(backup, target)
Restore(m) ==
  /\ InStep(m, "restore")
  /\ \/ target' = backup[This(m)] /\ backup' = [backup EXCEPT ![This(m)] = Absent] /\ CallWorks
     \/ CallFails /\ UNCHANGED <<target, backup>>
  /\ GoesTo(m, "cleanup")
  /\ UNCHANGED <<staged, edits, outcome, known, raced>>

\* staged_replace fails: the staged file is removed, or stays
Cleanup(m) ==
  /\ InStep(m, "cleanup")
  /\ \/ staged' = [staged EXCEPT ![This(m)] = Absent] /\ CallWorks
     \/ CallFails /\ UNCHANGED staged
  /\ Return(m, "IoPartialWrite", target)
  /\ UNCHANGED <<target, backup, edits, known, raced>>

(***************************************************************************)
(* Validation, and its two ends                                            *)
(***************************************************************************)
\* the validator runs
Validate(m) ==
  /\ InStep(m, "validate")
  /\ CallWorks
  /\ \/ /\ known' = Replacement[m]
        /\ \/ proc[m].hasBackup /\ GoesTo(m, "commit") /\ UNCHANGED outcome
           \/ ~ proc[m].hasBackup /\ Return(m, "ValidationPassed", target)
     \/ GoesTo(m, "rollback") /\ UNCHANGED <<known, outcome>>
  /\ UNCHANGED <<repairFiles, edits, raced>>

\* the backup is removed
Commit(m) ==
  /\ InStep(m, "commit")
  /\ \/ /\ backup' = [backup EXCEPT ![This(m)] = Absent]
        /\ Return(m, "ValidationPassed", target)
        /\ CallWorks
     \/ CallFails /\ Return(m, "IoPartialWrite", target) /\ UNCHANGED backup
  /\ UNCHANGED <<target, staged, edits, known, raced>>

\* rollback: the target is removed
Rollback(m) ==
  /\ InStep(m, "rollback")
  /\ \/ /\ target' = Absent
        /\ CallWorks
        /\ \/ proc[m].hasBackup /\ GoesTo(m, "put back") /\ UNCHANGED outcome
           \/ ~ proc[m].hasBackup /\ Return(m, "ValidationFailed", Absent)
     \/ CallFails /\ Return(m, "IoPartialWrite", target) /\ UNCHANGED target
  /\ UNCHANGED <<staged, backup, edits, known, raced>>

\* rollback: rename(backup, target)
PutBack(m) ==
  /\ InStep(m, "put back")
  /\ \/ /\ target' = backup[This(m)]
        /\ backup' = [backup EXCEPT ![This(m)] = Absent]
        /\ Return(m, "ValidationFailed", backup[This(m)])
        /\ CallWorks
     \/ CallFails /\ Return(m, "IoPartialWrite", target) /\ UNCHANGED <<target, backup>>
  /\ UNCHANGED <<staged, edits, known, raced>>

(***************************************************************************)
(* The surroundings                                                        *)
(***************************************************************************)
\* the process ends, and its proposal with it; the maintainer still has the digest
CrashApply(m) ==
  /\ ~ InStep(m, "idle")
  /\ CallFails
  /\ proc' = [proc EXCEPT ![m].pc = "idle", ![m].snap = Torn]
  /\ UNCHANGED <<repairFiles, edits, outcome, known, raced>>

\* an editor writes the target, or removes it
Edit ==
  /\ edits < MaxEdits
  /\ edits' = edits + 1
  /\ \E bytes \in Edits \cup {Absent} : target' = bytes /\ known' = bytes
  /\ raced' = (raced \/ \E m \in Maintainers : proc[m].pc \in Window)
  /\ UNCHANGED <<staged, backup, proc, faults, outcome>>

RepairNext ==
  \/ \E m \in Maintainers :
       \/ Propose(m) \/ Apply(m) \/ Reconstruct(m) \/ Compare(m)
       \/ Stage(m) \/ WriteStaged(m) \/ Look(m) \/ MoveAway(m) \/ Install(m) \/ Restore(m) \/ Cleanup(m)
       \/ Validate(m) \/ Commit(m) \/ Rollback(m) \/ PutBack(m) \/ CrashApply(m)
  \/ Edit

RepairSpec == RepairInit /\ [][RepairNext]_repairVars

(***************************************************************************)
(* Properties                                                              *)
(***************************************************************************)
\* What was last edited or validated is never lost: wherever an apply crashes or
\* fails, it is at the target or in a backup.
KnownSurvives ==
  ~ raced /\ known # Absent => target = known \/ \E a \in Applies : backup[a] = known

\* An apply says what it did.  ValidationPassed: the replacement is at the target;
\* ValidationFailed: the target is as it was found.
OutcomeAgrees ==
  ~ raced =>
    /\ outcome.ret = "ValidationPassed" => outcome.left = Replacement[outcome.m]
    /\ outcome.ret = "ValidationFailed" => outcome.left = outcome.snap

\* RepairCoordinator::apply: what was known is at the target or in a backup, and the
\* outcome that is reported is what was done.
RepairIsHonest == KnownSurvives /\ OutcomeAgrees

\* Only the bytes the maintainer saw are replaced; an edit made since the proposal
\* is replaced only if it falls between compare and rename.
OnlySnapshotReplaced ==
  [][\A m \in Maintainers :
       InStep(m, "move") /\ proc'[m].pc = "install" => raced \/ target = proc[m].snap]_repairVars
=============================================================================
