---------------------------- MODULE FileStateStore ----------------------------
(***************************************************************************)
(* FileStateStore of crates/bran-core/src/database/state.rs: one namespace *)
(* of the durable state store, a directory                                 *)
(*                                                                         *)
(*     VERSION, objects/<sha256>, tmp/<sha256>.<n>                         *)
(*                                                                         *)
(* put stages an object in tmp/ and renames it; open initialises the       *)
(* namespace and removes what crashed writers left in tmp/.  Nothing locks *)
(* the namespace.  A namespace is meant for one writer at a time; with     *)
(* Handles of one element the model is that writer, crashing and opening   *)
(* again, and with more it is several open handles at once.                *)
(*                                                                         *)
(* A file is [writer, of, len]: the handle that has it open for writing,   *)
(* the object whose bytes it holds, and its length.  A write goes to the   *)
(* file that was created, wherever a rename has taken it since.            *)
(***************************************************************************)
EXTENDS Integers, FiniteSets

CONSTANTS
  Handles,      \* FileStateStore values, one after the other or at once
  NoWriter,
  Objects,      \* the byte strings put; each is its own identifier
  Damaged,      \* bytes that are those of no object
  Size,         \* Size[id]: the length of an object
  Quota,        \* quota_bytes of the descriptor
  MaxTemps,     \* bound: next_temp of a handle
  MaxDamages,   \* bound: objects damaged from outside
  MaxFailures   \* bound: crashes and failed system calls

ASSUME StateAssumption ==
  /\ Quota \in Nat
  /\ Size \in [Objects -> Nat \ {0}]
  /\ NoWriter \notin Handles
  /\ Damaged \notin Objects

VARIABLES
  version,    \* VERSION: "absent", "torn" (created, not written), "1", or "2"
  dirs,       \* which of "objects" and "tmp" exist
  objects,    \* objects/: identifier |-> file
  tmp,        \* tmp/: <<identifier, n>> |-> file
  handle,     \* handle[h]: [pc, used, next, id, total, staged], and as history
              \* exact (used is what objects/ holds) and recounted (total is)
  damages, failures,
  acked       \* history: objects a put acknowledged and nothing damaged since

disk == <<version, dirs, objects, tmp>>
vars == <<disk, handle, damages, failures, acked>>

Without(f, keys) == [k \in DOMAIN f \ keys |-> f[k]]
With(f, key, value) == [k \in DOMAIN f \cup {key} |-> IF k = key THEN value ELSE f[k]]

\* the lengths of all files in objects/
Bytes(files) == Cardinality(UNION {{<<id, i>> : i \in 1..files[id].len} : id \in DOMAIN files})

\* ResultId::sha256(&bytes) == id
Matches(id, file) == file.of = id /\ file.len = Size[id]

Empty == [k \in {} |-> 0]

Closed == [pc |-> "closed", used |-> 0, next |-> 0, id |-> Damaged, total |-> 0,
           staged |-> {}, exact |-> TRUE, recounted |-> FALSE]

Files == [writer : Handles \cup {NoWriter}, of : Objects \cup {Damaged}, len : Nat]

TypeOK ==
  /\ version \in {"absent", "torn", "1", "2"}
  /\ dirs \subseteq {"objects", "tmp"}
  /\ DOMAIN objects \subseteq Objects /\ \A id \in DOMAIN objects : objects[id] \in Files
  /\ DOMAIN tmp \subseteq Objects \X Nat /\ \A name \in DOMAIN tmp : tmp[name] \in Files
  /\ \A h \in Handles :
       /\ handle[h].pc \in {"closed", "version", "write version", "dirs", "clean", "idle",
                            "create", "write", "rename", "remove"}
       /\ handle[h].used \in 0..Quota /\ handle[h].total \in 0..Quota
  /\ acked \subseteq Objects

\* a fresh state root, or a namespace of a later build
Init ==
  /\ \/ version = "absent" /\ dirs = {} /\ objects = Empty
     \/ /\ version = "2" /\ dirs = {"objects", "tmp"}
        /\ \E id \in Objects : objects = [o \in {id} |-> [writer |-> NoWriter, of |-> Damaged, len |-> 1]]
  /\ tmp = Empty
  /\ handle = [h \in Handles |-> Closed]
  /\ damages = 0 /\ failures = 0
  /\ acked = {}

At(h, pc) == handle[h].pc = pc
Goto(h, pc) == handle' = [handle EXCEPT ![h].pc = pc]
Fault == failures < MaxFailures /\ failures' = failures + 1
NoFault == UNCHANGED failures
Rest == UNCHANGED <<damages, acked>>

\* the handle no longer has a file open
Released(h, files) ==
  [k \in DOMAIN files |-> IF files[k].writer = h THEN [files[k] EXCEPT !.writer = NoWriter] ELSE files[k]]

(***************************************************************************)
(* FileStateStore::open                                                    *)
(***************************************************************************)
\* Everything is looked at before anything is written, and a layout that is not
\* "1" is refused: MigrationFailed, or Corrupt when it cannot be read.
Open(h) ==
  /\ At(h, "closed")
  /\ version \in {"absent", "1"}
  /\ handle' = [handle EXCEPT ![h] =
       [Closed EXCEPT !.pc = IF version = "absent" THEN "version" ELSE "dirs",
                      !.used = Bytes(objects),
                      !.staged = DOMAIN tmp]]
  /\ NoFault
  /\ UNCHANGED disk /\ Rest

\* a step of open fails, and with it open
OpenFails(h) ==
  /\ handle[h].pc \in {"version", "write version", "dirs", "clean"}
  /\ Fault
  /\ handle' = [handle EXCEPT ![h] = Closed]
  /\ UNCHANGED disk /\ Rest

\* fs::write(VERSION) creates the file, or empties it, and then writes it
WriteVersion(h) ==
  /\ \/ At(h, "version") /\ version' = "torn" /\ Goto(h, "write version")
     \/ At(h, "write version") /\ version' = "1" /\ Goto(h, "dirs")
  /\ NoFault
  /\ UNCHANGED <<dirs, objects, tmp>> /\ Rest

\* objects/ and then tmp/ are created if they were absent
CreateDirs(h) ==
  /\ At(h, "dirs")
  /\ IF "objects" \notin dirs
     THEN dirs' = dirs \cup {"objects"} /\ UNCHANGED handle
     ELSE dirs' = dirs \cup {"tmp"} /\ Goto(h, "clean")
  /\ NoFault
  /\ UNCHANGED <<version, objects, tmp>> /\ Rest

\* the staged files it found are removed, one after the other
Clean(h) ==
  /\ At(h, "clean")
  /\ \/ \E name \in handle[h].staged :
          IF name \in DOMAIN tmp
          THEN /\ tmp' = Without(tmp, {name})
               /\ handle' = [handle EXCEPT ![h].staged = @ \ {name}]
          ELSE handle' = [handle EXCEPT ![h] = Closed] /\ UNCHANGED tmp
     \/ handle[h].staged = {} /\ Goto(h, "idle") /\ UNCHANGED tmp
  /\ NoFault
  /\ UNCHANGED <<version, dirs, objects>> /\ Rest

\* the handle is dropped
Close(h) ==
  /\ At(h, "idle")
  /\ handle' = [handle EXCEPT ![h] = Closed]
  /\ NoFault
  /\ UNCHANGED disk /\ Rest

(***************************************************************************)
(* put                                                                     *)
(***************************************************************************)
Minus(a, b) == IF a > b THEN a - b ELSE 0

\* Mutant of PutTotal: the length of the repaired object is not added.
PutTotalRepairFree(h, id) ==
  IF id \in DOMAIN objects THEN Bytes(objects) ELSE handle[h].used + Size[id]

\* The usage after a put of id.  When a damaged object is replaced, it is
\* recounted from disk.
PutTotal(h, id) ==
  IF id \in DOMAIN objects THEN Minus(Bytes(objects), objects[id].len) + Size[id]
  ELSE handle[h].used + Size[id]

\* put up to the staging: an object that is there already is acknowledged, one
\* that exceeds the quota refused, and the counter of temp names advances
Put(h, id) ==
  /\ At(h, "idle")
  /\ NoFault
  /\ \/ /\ id \in DOMAIN objects /\ Matches(id, objects[id])
        /\ acked' = acked \cup {id}
        /\ UNCHANGED handle
     \/ /\ ~ (id \in DOMAIN objects /\ Matches(id, objects[id]))
        /\ PutTotal(h, id) <= Quota
        /\ handle[h].next < MaxTemps
        /\ handle' = [handle EXCEPT ![h].pc = "create", ![h].id = id, ![h].total = PutTotal(h, id),
                                    ![h].recounted = id \in DOMAIN objects]
        /\ UNCHANGED acked
  /\ UNCHANGED <<disk, damages>>

Temp(h) == <<handle[h].id, handle[h].next>>

\* put returns an error: the temp name is used up, the usage as it was
PutFailed(h) ==
  /\ handle' = [handle EXCEPT ![h].pc = "idle", ![h].next = @ + 1]
  /\ objects' = Released(h, objects)

\* File::create_new
Create(h) ==
  /\ At(h, "create")
  /\ \/ /\ Temp(h) \notin DOMAIN tmp
        /\ tmp' = With(tmp, Temp(h), [writer |-> h, of |-> handle[h].id, len |-> 0])
        /\ Goto(h, "write")
        /\ NoFault
     \/ Temp(h) \in DOMAIN tmp /\ Goto(h, "remove") /\ NoFault /\ UNCHANGED tmp
     \/ Fault /\ Goto(h, "remove") /\ UNCHANGED tmp
  /\ UNCHANGED <<version, dirs, objects>> /\ Rest

\* what write_all and sync_all make of the files h has open
Written(h, files) ==
  [k \in DOMAIN files |->
     IF files[k].writer = h THEN [files[k] EXCEPT !.len = Size[handle[h].id]] ELSE files[k]]

\* write_all and sync_all
Write(h) ==
  /\ At(h, "write")
  /\ \/ tmp' = Written(h, tmp) /\ objects' = Written(h, objects) /\ Goto(h, "rename") /\ NoFault
     \/ Fault /\ Goto(h, "remove") /\ UNCHANGED <<tmp, objects>>
  /\ UNCHANGED <<version, dirs>> /\ Rest

\* Mutant of Rename: the file is renamed before it is written.
RenameEarly(h) ==
  /\ At(h, "write")
  /\ Temp(h) \in DOMAIN tmp
  /\ objects' = With(objects, handle[h].id, tmp[Temp(h)])
  /\ tmp' = Without(tmp, {Temp(h)})
  /\ handle' = [handle EXCEPT ![h].pc = "idle", ![h].next = @ + 1, ![h].used = handle[h].total]
  /\ NoFault
  /\ acked' = acked \cup {handle[h].id}
  /\ UNCHANGED <<version, dirs, damages>>

\* fs::rename into objects/, and the usage
Rename(h) ==
  /\ At(h, "rename")
  /\ \/ /\ Temp(h) \in DOMAIN tmp
        /\ objects' = Released(h, With(objects, handle[h].id, tmp[Temp(h)]))
        /\ tmp' = Without(tmp, {Temp(h)})
        /\ handle' = [handle EXCEPT ![h].pc = "idle", ![h].next = @ + 1, ![h].used = handle[h].total,
                                    ![h].exact = @ \/ handle[h].recounted]
        /\ NoFault
        /\ acked' = acked \cup {handle[h].id}
     \/ Temp(h) \notin DOMAIN tmp /\ Goto(h, "remove") /\ NoFault /\ UNCHANGED <<objects, tmp, acked>>
     \/ Fault /\ Goto(h, "remove") /\ UNCHANGED <<objects, tmp, acked>>
  /\ UNCHANGED <<version, dirs, damages>>

\* written is Err: the temp file is removed, whoever made it, or stays
RemoveTemp(h) ==
  /\ At(h, "remove")
  /\ PutFailed(h)
  /\ \/ tmp' = Released(h, Without(tmp, {Temp(h)})) /\ NoFault
     \/ tmp' = Released(h, tmp) /\ Fault
  /\ UNCHANGED <<version, dirs>> /\ Rest

(***************************************************************************)
(* What happens to a store from outside                                   *)
(***************************************************************************)
\* the process ends: what it has open is closed, and tmp/ stays as it is
Crash(h) ==
  /\ ~ At(h, "closed")
  /\ Fault
  /\ handle' = [handle EXCEPT ![h] = Closed]
  /\ objects' = Released(h, objects) /\ tmp' = Released(h, tmp)
  /\ UNCHANGED <<version, dirs>> /\ Rest

\* an object is modified, or truncated, by something else
Damage(id) ==
  /\ version # "2"
  /\ damages < MaxDamages
  /\ id \in DOMAIN objects
  /\ \E len \in 0..objects[id].len : objects' = [objects EXCEPT ![id].of = Damaged, ![id].len = len]
  /\ damages' = damages + 1
  /\ acked' = acked \ {id}
  /\ handle' = [h \in Handles |-> IF At(h, "closed") THEN Closed
                                  ELSE [handle[h] EXCEPT !.exact = FALSE, !.recounted = FALSE]]
  /\ UNCHANGED <<version, dirs, tmp, failures>>

Next ==
  \/ \E h \in Handles :
       \/ Open(h) \/ OpenFails(h) \/ WriteVersion(h) \/ CreateDirs(h) \/ Clean(h) \/ Close(h)
       \/ Create(h) \/ Write(h) \/ Rename(h) \/ RemoveTemp(h) \/ Crash(h)
       \/ \E id \in Objects : Put(h, id)
  \/ \E id \in Objects : Damage(id)

Spec == Init /\ [][Next]_vars

(***************************************************************************)
(* Properties of one writer at a time                                      *)
(***************************************************************************)
\* An object is whole or was damaged from outside, whenever a put is cut short
\* ("A crash leaves a temp file, never a partial object").
NoPartialObject == \A id \in DOMAIN objects : objects[id].of # Damaged => Matches(id, objects[id])

\* What put acknowledged stays, through crashes, failures and open's cleaning,
\* until something damages it.
AckedObjectsStay == \A id \in acked : id \in DOMAIN objects /\ Matches(id, objects[id])

\* objects/ never holds more than the quota, whatever was damaged and repaired, and
\* used_bytes is what objects/ holds, failed puts and repairs included, as far as
\* nothing changed behind the handle's back.
QuotaKept ==
  /\ version # "2" => Bytes(objects) <= Quota
  /\ \A h \in Handles : At(h, "idle") /\ handle[h].exact => handle[h].used = Bytes(objects)

\* A namespace that can never be opened again, because a crash tore VERSION, holds
\* nothing yet.
TornNamespaceIsEmpty == version = "torn" => objects = Empty

\* Durable state: what put wrote is whole and stays, a store that a crash tore
\* holds nothing, and no object takes a namespace over its quota, whatever was
\* damaged behind the handle (FileStateStore::put, open).
ObjectsSurvive == NoPartialObject /\ AckedObjectsStay /\ TornNamespaceIsEmpty /\ QuotaKept

=============================================================================
