--------------------------- MODULE IndexTransaction ---------------------------
(***************************************************************************)
(* IndexTransaction::refresh of crates/bran-core/src/scan/transaction.rs   *)
(* over RepositoryScanner::scan_changed of scan/mod.rs.                    *)
(*                                                                         *)
(* The index is a scan of the repository, the parse of every entry and the *)
(* published graph.  A caller names the paths it saw change; refresh reads *)
(* those again, one file after the other, or walks the whole repository    *)
(* when the ignore file changed, and replaces all three or none of them.   *)
(* Editors go on changing files meanwhile, between any two reads.          *)
(*                                                                         *)
(* A path is its rank in the order in which paths are read.  A file's      *)
(* bytes are a model value, of which the parser and the graph only know    *)
(* whether they accept it.                                                 *)
(***************************************************************************)
EXTENDS Naturals, FiniteSets, FiniteSetsExt

CONSTANTS
  Paths,            \* repository-relative paths the scanner accepts, numbers
  Evidence,         \* Evidence[p]: source type and provenance of what is parsed at p
  Texts,            \* bytes of a readable file
  Size,             \* Size[t], its length
  Rejected,         \* the texts parse_structural rejects
  Ungraphable,      \* the texts graph_candidate or the builder refuse
  Absent,           \* no file
  Opaque,           \* a file that only gives a diagnostic: symlink, too large, not UTF-8
  Directory,
  IgnoreFiles,      \* contents of the ignore file
  Ignored,          \* Ignored[i]: the paths it ignores
  MaxFiles, MaxTotalBytes,
  MaxEdits, MaxRefreshes, MaxFailures  \* bounds

\* What is not a readable file has no text.
ASSUME IndexAssumption ==
  /\ Paths \subseteq Nat /\ IsFiniteSet(Paths)
  /\ Size \in [Texts -> Nat]
  /\ Ignored \in [IgnoreFiles -> SUBSET Paths]
  /\ MaxFiles \in Nat /\ MaxTotalBytes \in Nat
  /\ Texts \cap {Absent, Opaque, Directory} = {}

VARIABLES
  file,        \* file[p]: what is at p
  ignore,      \* what the ignore file says
  scan,        \* IndexTransaction::scan: [inputs, entries, count, bytes, diagnosed]
  parsed,      \* IndexTransaction::parsed: path |-> the text that was parsed
  published,   \* IndexTransaction::published: [nodes, facts, inputs], the bytes of every
               \* node and the parse its facts and edges come from
  refresh,     \* the refresh that runs: [pc, named, work, todo, read]; work is the
               \* candidate scan, todo what it has yet to read, read (history) what it
               \* read and nobody edited since
  edits, refreshes, failures,
  pending,     \* history: paths edited since a successful refresh read them
  replica      \* history: path |-> text, kept up to date from receipts alone

index == <<scan, parsed, published>>
vars == <<file, ignore, index, refresh, edits, refreshes, failures, pending, replica>>

Without(f, p) == [q \in DOMAIN f \ {p} |-> f[q]]
With(f, p, v) == [q \in DOMAIN f \cup {p} |-> IF q = p THEN v ELSE f[q]]
Minus(a, b) == IF a > b THEN a - b ELSE 0

\* the bytes of all entries, each by its place in its file
Places(entries) == UNION {{p} \X (1..Size[entries[p]]) : p \in DOMAIN entries}
Bytes(entries) == Cardinality(Places(entries))

Nothing == [p \in {} |-> 0]
Snapshot(inputs) == [inputs |-> inputs, entries |-> Nothing, count |-> 0, bytes |-> 0, diagnosed |-> {}]
NoRefresh == [pc |-> "idle", named |-> {}, work |-> Snapshot(CHOOSE i \in IgnoreFiles : TRUE), todo |-> {}, read |-> {}]

(***************************************************************************)
(* What one file contributes to a snapshot                                 *)
(***************************************************************************)
\* entries.remove and remove_observed
Removed(snapshot, p) ==
  IF p \in DOMAIN snapshot.entries
  THEN [snapshot EXCEPT !.entries = Without(@, p),
                        !.count = Minus(@, 1),
                        !.bytes = Minus(@, Size[snapshot.entries[p]])]
  ELSE snapshot

\* replace_observed and entries.insert
Inserted(snapshot, p, text) ==
  [snapshot EXCEPT !.entries = With(@, p, text), !.count = @ + 1, !.bytes = @ + Size[text]]

Diagnosed(snapshot, p) == [snapshot EXCEPT !.diagnosed = @ \cup {p}]

\* check_bytes
BytesFit(snapshot, text) == Size[text] <= Minus(MaxTotalBytes, snapshot.bytes)

(***************************************************************************)
(* classify_deltas                                                         *)
(***************************************************************************)
\* removed and added paths of equal bytes and evidence
Eligible(old, new, removed, added) ==
  {pair \in removed \X added :
     /\ old[pair[1]] = new[pair[2]]
     /\ Evidence[pair[1]] = Evidence[pair[2]]}

\* renames are the pairs without an alternative
Unique(pairs) ==
  {pair \in pairs : /\ Cardinality({q \in pairs : q[1] = pair[1]}) = 1
                    /\ Cardinality({q \in pairs : q[2] = pair[2]}) = 1}

\* Mutant of Changes: under the same inputs what was not named is reused.
ChangesNamed(old, new, inputsDiffer, named) ==
  LET kept == DOMAIN old \cap DOMAIN new
      reused == {p \in kept : ~ inputsDiffer /\ p \notin named}
  IN [reused |-> reused, changed |-> kept \ reused,
      added |-> DOMAIN new \ DOMAIN old, removed |-> DOMAIN old \ DOMAIN new]

\* how scan_changed compares the snapshot with the one before
Changes(old, new, inputsDiffer, named) ==
  LET kept == DOMAIN old \cap DOMAIN new
      reused == {p \in kept : ~ inputsDiffer /\ p \notin named /\ old[p] = new[p]}
  IN [reused |-> reused, changed |-> kept \ reused,
      added |-> DOMAIN new \ DOMAIN old, removed |-> DOMAIN old \ DOMAIN new]

(***************************************************************************)
(* The initial states                                                      *)
(***************************************************************************)
Readable(p, inputs) == p \notin Ignored[inputs] /\ file[p] \in Texts

\* a repository, and an index that was built from it
Init ==
  /\ file \in [Paths -> (Texts \ (Rejected \cup Ungraphable)) \cup {Absent}]
  /\ ignore \in IgnoreFiles
  /\ scan = LET found == [p \in {q \in Paths : Readable(q, ignore)} |-> file[p]]
            IN [Snapshot(ignore) EXCEPT !.entries = found,
                                        !.count = Cardinality(DOMAIN found),
                                        !.bytes = Bytes(found)]
  /\ scan.count <= MaxFiles /\ scan.bytes <= MaxTotalBytes
  /\ parsed = scan.entries
  /\ published = [nodes |-> scan.entries, facts |-> parsed, inputs |-> ignore]
  /\ refresh = NoRefresh
  /\ edits = 0 /\ refreshes = 0 /\ failures = 0
  /\ pending = {}
  /\ replica = scan.entries

Fault == failures < MaxFailures /\ failures' = failures + 1
NoFault == UNCHANGED failures
Outside == UNCHANGED <<file, ignore, edits, pending>>

\* refresh returns Err
Fails ==
  /\ refresh' = NoRefresh
  /\ UNCHANGED <<index, replica>>

(***************************************************************************)
(* RepositoryScanner::scan_changed                                         *)
(***************************************************************************)
\* the snapshot to work on: the last one, without the diagnostics of what is read anew
Retained(named) == [scan EXCEPT !.diagnosed = @ \ named]

\* refresh is called; the ignore file decides between the named paths and a walk
Begin ==
  /\ refresh.pc = "idle"
  /\ refreshes < MaxRefreshes
  /\ refreshes' = refreshes + 1
  /\ \/ \E named \in SUBSET Paths :
          /\ refresh' = IF ignore = scan.inputs
                        THEN [NoRefresh EXCEPT !.pc = "paths", !.named = named,
                                               !.work = Retained(named), !.todo = named]
                        ELSE [NoRefresh EXCEPT !.pc = "collect", !.named = named]
          /\ NoFault
     \/ Fault /\ refresh' = NoRefresh
  /\ UNCHANGED <<index, replica>>
  /\ Outside

\* collect: the ignore file is read again, and the directory listed
Collect ==
  /\ refresh.pc = "collect"
  /\ \/ LET listed == {p \in Paths \ Ignored[ignore] : file[p] \notin {Absent, Directory}}
        IN /\ refresh' = [refresh EXCEPT !.pc = "walk", !.work = Snapshot(ignore),
                                         !.todo = listed, !.read = Paths \ listed]
           /\ UNCHANGED <<index, replica>>
           /\ NoFault
     \/ Fault /\ Fails
  /\ UNCHANGED refreshes /\ Outside

\* one path was read: work is the candidate with it
Proceed(p, work) ==
  /\ refresh' = [refresh EXCEPT !.work = work, !.todo = @ \ {p}, !.read = @ \cup {p}]
  /\ UNCHANGED <<index, replica>>

\* apply_changed_path, for the paths named, in order
ReadNamed ==
  /\ refresh.pc = "paths"
  /\ refresh.todo # {}
  /\ LET p == Min(refresh.todo)
         work == Removed(refresh.work, p)
     IN \/ /\ p \in Ignored[work.inputs] \/ file[p] = Absent
           /\ Proceed(p, work) /\ NoFault
        \/ /\ p \notin Ignored[work.inputs]
           /\ \/ file[p] = Opaque /\ Proceed(p, Diagnosed(work, p)) /\ NoFault
              \/ file[p] # Absent /\ Proceed(p, Diagnosed(work, p)) /\ Fault
              \/ file[p] = Directory /\ Fails /\ NoFault
              \/ /\ file[p] \in Texts
                 /\ NoFault
                 /\ IF BytesFit(work, file[p]) THEN Proceed(p, Inserted(work, p, file[p])) ELSE Fails
  /\ UNCHANGED refreshes /\ Outside

\* read_file, for the files that were listed; one that is gone is unreadable
Walk ==
  /\ refresh.pc = "walk"
  /\ refresh.todo # {}
  /\ LET p == Min(refresh.todo)
         work == refresh.work
     IN \/ file[p] \notin Texts /\ Proceed(p, Diagnosed(work, p)) /\ NoFault
        \/ Proceed(p, Diagnosed(work, p)) /\ Fault
        \/ /\ file[p] \in Texts
           /\ NoFault
           /\ IF work.count < MaxFiles /\ BytesFit(work, file[p])
              THEN Proceed(p, Inserted(work, p, file[p]))
              ELSE Fails
  /\ UNCHANGED refreshes /\ Outside

(***************************************************************************)
(* The rest of refresh, which touches memory only                          *)
(***************************************************************************)
\* the limits of a snapshot that was not walked
FilesFit(work) == work.count <= MaxFiles /\ work.bytes <= MaxTotalBytes

\* Mutant of Parse: of the changed paths only those named are parsed again.
ParseNamed(work, changes) ==
  [p \in DOMAIN work.entries |->
     IF p \in changes.added \cup (changes.changed \cap refresh.named) THEN work.entries[p] ELSE parsed[p]]

\* parse_paths: what is new or changed is parsed, the rest kept
Parse(work, changes) ==
  [p \in DOMAIN work.entries |->
     IF p \in changes.added \cup changes.changed THEN work.entries[p] ELSE parsed[p]]

\* a consumer applies a receipt: it copies what was renamed, reads what was created
\* or changed, and keeps what was reused
Replayed(changes, renamed, entries) ==
  LET copies == {pair[2] : pair \in renamed}
  IN [p \in changes.reused \cup changes.changed \cup changes.added |->
        IF p \in copies THEN replica[(CHOOSE pair \in renamed : pair[2] = p)[1]]
        ELSE IF p \in changes.reused THEN replica[p]
        ELSE entries[p]]

Finish ==
  /\ refresh.pc \in {"paths", "walk"}
  /\ refresh.todo = {}
  /\ LET work == refresh.work
         changes == Changes(scan.entries, work.entries, work.inputs # scan.inputs, refresh.named)
         reparsed == changes.added \cup changes.changed
         candidate == Parse(work, changes)
         renamed == Unique(Eligible(scan.entries, work.entries, changes.removed, changes.added))
     IN IF /\ refresh.pc = "walk" \/ FilesFit(work)
           /\ \A p \in reparsed : work.entries[p] \notin Rejected
           /\ \A p \in DOMAIN candidate : candidate[p] \notin Ungraphable
        THEN /\ scan' = work
             /\ parsed' = candidate
             /\ published' = [nodes |-> work.entries, facts |-> candidate, inputs |-> work.inputs]
             /\ replica' = Replayed(changes, renamed, work.entries)
             /\ pending' = pending \ refresh.read
             /\ refresh' = NoRefresh
        ELSE Fails /\ UNCHANGED pending
  /\ NoFault
  /\ UNCHANGED <<file, ignore, edits, refreshes>>

(***************************************************************************)
(* Editors                                                                 *)
(***************************************************************************)
Edit(p) ==
  /\ edits < MaxEdits
  /\ edits' = edits + 1
  /\ \E to \in (Texts \cup {Absent, Opaque, Directory}) \ {file[p]} : file' = [file EXCEPT ![p] = to]
  /\ pending' = pending \cup {p}
  /\ refresh' = [refresh EXCEPT !.read = @ \ {p}]
  /\ UNCHANGED <<ignore, index, refreshes, failures, replica>>

EditIgnore ==
  /\ edits < MaxEdits
  /\ edits' = edits + 1
  /\ ignore' \in IgnoreFiles \ {ignore}
  /\ UNCHANGED <<file, index, refresh, refreshes, failures, pending, replica>>

Next ==
  \/ Begin \/ Collect \/ ReadNamed \/ Walk \/ Finish
  \/ \E p \in Paths : Edit(p)
  \/ EditIgnore

Spec == Init /\ [][Next]_vars

(***************************************************************************)
(* Properties                                                              *)
(***************************************************************************)
Entries == UNION {[some -> Texts] : some \in SUBSET Paths}

Snapshots == [inputs : IgnoreFiles, entries : Entries, count : 0..MaxFiles + Cardinality(Paths),
              bytes : 0..MaxTotalBytes, diagnosed : SUBSET Paths]

TypeOK ==
  /\ file \in [Paths -> Texts \cup {Absent, Opaque, Directory}]
  /\ scan \in Snapshots /\ refresh.work \in Snapshots
  /\ parsed \in Entries
  /\ published \in [nodes : Entries, facts : Entries, inputs : IgnoreFiles]
  /\ refresh.pc \in {"idle", "collect", "paths", "walk"}
  /\ refresh.todo \subseteq Paths /\ refresh.read \subseteq Paths
  /\ pending \subseteq Paths

\* The scan, the parse and the published graph are of one moment: nothing is
\* published that was parsed from other bytes, and a refresh that fails late keeps
\* all three.  file_count and total_bytes, which are kept incrementally and decide
\* the limits of the next refresh, are those of the entries.
IndexAgrees ==
  /\ parsed = scan.entries
  /\ published = [nodes |-> scan.entries, facts |-> scan.entries, inputs |-> scan.inputs]
  /\ scan.count = Cardinality(DOMAIN scan.entries) /\ scan.count <= MaxFiles
  /\ scan.bytes = Bytes(scan.entries) /\ scan.bytes <= MaxTotalBytes

\* What nobody edited since it was named, or walked, is in the index as it is in the
\* repository, or has a diagnostic; files that were read before an edit during the
\* same refresh included.
UpToDate ==
  \A p \in Paths \ (pending \cup scan.diagnosed) :
    IF Readable(p, scan.inputs)
    THEN p \in DOMAIN scan.entries /\ scan.entries[p] = file[p]
    ELSE p \notin DOMAIN scan.entries

\* A consumer that follows the receipts alone has what is published: the deltas and
\* the reused paths cover every path once, and a rename has the bytes it had.
ReplicaAgrees == replica = published.nodes

\* The index is what the repository is: of one moment in all its parts, and of the
\* present one for every path whose edits were named.
IndexIsCurrent == IndexAgrees /\ UpToDate
=============================================================================
