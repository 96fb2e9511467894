----------------------------- MODULE StorageProofs -----------------------------
(***************************************************************************)
(* Proofs about what writes files beside other programs: FileStateStore    *)
(* with one writer at a time, Repair with one maintainer, the export gate  *)
(* of DocumentEvidence and the evidence store of QueryEvidence with any    *)
(* number of calls.                                                        *)
(*                                                                         *)
(* FileStateStore: whatever the objects and the quota, and wherever a      *)
(* writer crashes, fails or is followed by another, what put acknowledged  *)
(* survives and the quota is kept.  A file that a rename makes an object   *)
(* has been written: the invariant follows the file a handle has open from *)
(* create to rename, and says that no object is ever open for writing.     *)
(* The usage a handle carries is a bound on what objects/ holds, and exact *)
(* unless something was damaged; between put's look at the directory and   *)
(* its rename the same holds of the total, for the objects other than the  *)
(* one that is put.                                                        *)
(*                                                                         *)
(* Repair: wherever an apply crashes or fails, and whatever an editor      *)
(* writes outside the window between a compare and the end of its apply.   *)
(* The invariant follows an apply: up to the first rename the target is    *)
(* what was compared, then nothing is there until the staged file is, and  *)
(* from the first rename to the end what was known is in a backup.  The    *)
(* backup of an apply has a name of its own, so that no later one writes   *)
(* over it.                                                                *)
(*                                                                         *)
(* The export gate: whatever the calls of two processes, the user's        *)
(* changes and a query do in between, and wherever a call fails or dies.   *)
(* A temporary file belongs to one call from create_new to its removal, is *)
(* whole before it is linked, and its name is no destination's, since no   *)
(* format has its extension; nothing takes a linked destination away.      *)
(*                                                                         *)
(* The evidence store: whatever the processes of the CLI record, clear and *)
(* leave behind.  While they take turns, what the one that records will    *)
(* rename holds all that was acknowledged, and the temporary file is its   *)
(* own.  When they overlap, a file that is not whole has a process that    *)
(* goes on writing it, whatever its name is by now.                        *)
(***************************************************************************)
EXTENDS FileStateStore, Repair, DocumentEvidence, QueryEvidence, FiniteSetTheorems, TLAPS

OneWriter == \A g, h \in Handles : g = h

Opening == {"version", "write version", "dirs", "clean"}
Putting == {"create", "write", "rename"}
Pcs == {"closed", "idle", "remove"} \cup Opening \cup Putting

HandleStates ==
  [pc : Pcs, used : 0..Quota, next : Nat, id : Objects \cup {Damaged}, total : 0..Quota,
   staged : SUBSET (Objects \X Nat), exact : BOOLEAN, recounted : BOOLEAN]

Types ==
  /\ version \in {"absent", "torn", "1", "2"} /\ dirs \subseteq {"objects", "tmp"}
  /\ DOMAIN objects \subseteq Objects /\ IsFiniteSet(DOMAIN objects)
  /\ \A id \in DOMAIN objects : objects[id] \in Files
  /\ DOMAIN tmp \subseteq Objects \X Nat
  /\ \A name \in DOMAIN tmp : tmp[name] \in Files
  /\ handle \in [Handles -> HandleStates]
  /\ acked \subseteq Objects

\* Which layout a handle at work has found or written
VersionInv ==
  /\ version \in {"absent", "torn"} => objects = Empty
  /\ \A h \in Handles :
       /\ At(h, "version") => version = "absent"
       /\ At(h, "write version") => version = "torn"
       /\ handle[h].pc \notin {"closed", "version", "write version"} => version = "1"

\* The file that a put has open, and no other
StageInv ==
  \A h \in Handles :
    /\ \A id \in DOMAIN objects : objects[id].writer # h
    /\ \A name \in DOMAIN tmp :
         tmp[name].writer = h => handle[h].pc \in {"write", "rename", "remove"} /\ name = Temp(h)
    /\ handle[h].pc \in Putting => handle[h].id \in Objects
    /\ At(h, "write") /\ Temp(h) \in DOMAIN tmp =>
         tmp[Temp(h)].writer = h /\ tmp[Temp(h)].of = handle[h].id
    /\ At(h, "rename") /\ Temp(h) \in DOMAIN tmp => Matches(handle[h].id, tmp[Temp(h)])

\* What objects/ holds beside the object that is put
Others(h) == Bytes(Without(objects, {handle[h].id}))

UsageInv ==
  /\ version # "2" => Bytes(objects) <= Quota
  /\ \A h \in Handles :
       /\ ~ At(h, "closed") =>
            Bytes(objects) <= handle[h].used /\ (handle[h].exact => handle[h].used = Bytes(objects))
       /\ handle[h].pc \in Putting =>
            /\ Others(h) + Size[handle[h].id] <= handle[h].total
            /\ handle[h].exact \/ handle[h].recounted =>
                 handle[h].total = Others(h) + Size[handle[h].id]

IInv == Types /\ VersionInv /\ StageInv /\ UsageInv /\ NoPartialObject /\ AckedObjectsStay

(***************************************************************************)
(* The lengths of files                                                    *)
(***************************************************************************)
Sized(files) == IsFiniteSet(DOMAIN files) /\ \A id \in DOMAIN files : files[id].len \in Nat

Positions(files) == UNION {{<<id, i>> : i \in 1..files[id].len} : id \in DOMAIN files}

LEMMA BytesIsCardinality ==
  ASSUME NEW files
  PROVE  Bytes(files) = Cardinality(Positions(files))
BY DEF Bytes, Positions

\* One file has as many positions as bytes.
LEMMA PositionsOfOne ==
  ASSUME NEW id, NEW n \in Nat
  PROVE  /\ IsFiniteSet({<<id, i>> : i \in 1..n})
         /\ Cardinality({<<id, i>> : i \in 1..n}) = n
<1> DEFINE f == [i \in 1..n |-> <<id, i>>]
           T == {<<id, i>> : i \in 1..n}
<1>1. f \in Bijection(1..n, T)
  BY DEF Bijection, Injection, Surjection, IsInjective
<1>2. IsFiniteSet(1..n) /\ Cardinality(1..n) = n
  BY FS_Interval
<1> QED
  BY <1>1, <1>2, FS_Bijection DEF ExistsBijection

\* Finitely many files have finitely many bytes.
LEMMA BytesFinite ==
  ASSUME NEW files, Sized(files)
  PROVE  IsFiniteSet(Positions(files)) /\ Bytes(files) \in Nat
<1> DEFINE One(id) == {<<id, i>> : i \in 1..files[id].len}
           T == {One(id) : id \in DOMAIN files}
           f == [id \in DOMAIN files |-> One(id)]
<1>1. IsFiniteSet(T)
  <2>1. f \in Surjection(DOMAIN files, T)
    BY DEF Surjection
  <2> QED
    BY <2>1, FS_Surjection DEF Sized
<1>2. \A U \in T : IsFiniteSet(U)
  BY PositionsOfOne DEF Sized
<1>3. IsFiniteSet(UNION T)
  BY <1>1, <1>2, FS_UNION
<1> QED
  BY <1>3, FS_CardinalityType, BytesIsCardinality DEF Positions

\* Fewer and shorter files have no more bytes.
LEMMA BytesLess ==
  ASSUME NEW files, Sized(files), NEW part, DOMAIN part \subseteq DOMAIN files,
         \A id \in DOMAIN part : part[id].len \in Nat /\ part[id].len <= files[id].len
  PROVE  Sized(part) /\ Bytes(part) <= Bytes(files)
<1>1. Sized(part)
  BY FS_Subset DEF Sized
<1>2. Positions(part) \subseteq Positions(files)
  <2> SUFFICES ASSUME NEW id \in DOMAIN part, NEW i \in 1..part[id].len
               PROVE  <<id, i>> \in Positions(files)
    BY DEF Positions
  <2>1. id \in DOMAIN files /\ i \in 1..files[id].len
    BY DEF Sized
  <2> QED
    BY <2>1 DEF Positions
<1> QED
  BY <1>1, <1>2, BytesFinite, FS_Subset, BytesIsCardinality

\* Only the lengths count.
LEMMA BytesSame ==
  ASSUME NEW files, NEW other, DOMAIN other = DOMAIN files,
         \A id \in DOMAIN files : other[id].len = files[id].len
  PROVE  Bytes(other) = Bytes(files)
<1>1. Positions(other) = Positions(files)
  BY DEF Positions
<1> QED
  BY <1>1, BytesIsCardinality

\* A file that is added, or replaces another, adds its length to the others.
LEMMA BytesWith ==
  ASSUME NEW files, Sized(files), NEW id, NEW file, file.len \in Nat
  PROVE  /\ Sized(With(files, id, file)) /\ Sized(Without(files, {id}))
         /\ Bytes(With(files, id, file)) = Bytes(Without(files, {id})) + file.len
<1> DEFINE rest == Without(files, {id})
           all == With(files, id, file)
           one == {<<id, i>> : i \in 1..file.len}
<1>1. /\ DOMAIN rest = DOMAIN files \ {id} /\ DOMAIN all = DOMAIN files \cup {id}
      /\ \A k \in DOMAIN rest : rest[k] = files[k] /\ all[k] = files[k]
      /\ all[id] = file
  BY DEF Without, With
<1>2. Sized(rest) /\ Sized(all)
  <2>1. IsFiniteSet(DOMAIN files \ {id}) /\ IsFiniteSet(DOMAIN files \cup {id})
    BY FS_AddElement, FS_RemoveElement DEF Sized
  <2> QED
    BY <1>1, <2>1 DEF Sized
<1> HIDE DEF rest, all
<1>3. Positions(all) = Positions(rest) \cup one
  BY <1>1 DEF Positions
<1>4. Positions(rest) \cap one = {}
  BY <1>1 DEF Positions
<1>5. IsFiniteSet(one) /\ Cardinality(one) = file.len
  BY PositionsOfOne
<1>6. IsFiniteSet(Positions(rest)) /\ Bytes(rest) \in Nat
  BY <1>2, BytesFinite
<1>7. Cardinality(Positions(all)) = Cardinality(Positions(rest)) + Cardinality(one) - Cardinality({})
  BY <1>3, <1>4, <1>5, <1>6, FS_Union
<1>8. Cardinality({}) = 0
  BY FS_EmptySet
<1> QED
  BY <1>2, <1>5, <1>6, <1>7, <1>8, BytesIsCardinality DEF rest, all

\* The bytes of the others, with and without the file they are counted beside
LEMMA BytesWithout ==
  ASSUME NEW files, Sized(files), NEW id
  PROVE  /\ Bytes(Without(files, {id})) \in Nat
         /\ id \in DOMAIN files => Bytes(files) = Bytes(Without(files, {id})) + files[id].len
         /\ id \notin DOMAIN files => Bytes(files) = Bytes(Without(files, {id}))
<1>1. CASE id \in DOMAIN files
  <2>1. files[id].len \in Nat
    BY <1>1 DEF Sized
  <2>2. Bytes(With(files, id, files[id])) = Bytes(files)
    <3>1. /\ DOMAIN With(files, id, files[id]) = DOMAIN files
          /\ \A k \in DOMAIN files : With(files, id, files[id])[k].len = files[k].len
      BY <1>1 DEF With
    <3> QED
      BY <3>1, BytesSame
  <2> QED
    BY <1>1, <2>1, <2>2, BytesWith, BytesFinite
<1>2. CASE id \notin DOMAIN files
  <2>1. /\ DOMAIN Without(files, {id}) = DOMAIN files
        /\ \A k \in DOMAIN files : Without(files, {id})[k].len = files[k].len
    BY <1>2 DEF Without
  <2> QED
    BY <1>2, <2>1, BytesSame, BytesFinite
<1> QED
  BY <1>1, <1>2
(***************************************************************************)
(* The invariant, step by step                                             *)
(***************************************************************************)
LEMMA ObjectsSized == Types => Sized(objects)
BY DEF Types, Sized, Files

LEMMA ClosedIsState == Closed \in HandleStates
BY StateAssumption DEF Closed, HandleStates, Pcs

LEMMA InitEstablishes == Init => IInv
<1> SUFFICES ASSUME Init PROVE IInv
  OBVIOUS
<1>1. handle \in [Handles -> HandleStates] /\ \A h \in Handles : handle[h].pc = "closed"
  BY ClosedIsState DEF Init, Closed
<1>2. tmp = Empty /\ DOMAIN Empty = {} /\ acked = {}
  BY DEF Init, Empty
<1>3. /\ version \in {"absent", "2"} /\ dirs \subseteq {"objects", "tmp"}
      /\ version = "absent" => objects = Empty
      /\ DOMAIN objects \subseteq Objects /\ IsFiniteSet(DOMAIN objects)
      /\ \A id \in DOMAIN objects : objects[id] = [writer |-> NoWriter, of |-> Damaged, len |-> 1]
  <2>1. CASE version = "absent" /\ dirs = {} /\ objects = Empty
    BY <2>1, <1>2, FS_EmptySet
  <2>2. CASE /\ version = "2" /\ dirs = {"objects", "tmp"}
             /\ \E id \in Objects : objects = [o \in {id} |-> [writer |-> NoWriter, of |-> Damaged, len |-> 1]]
    BY <2>2, FS_Singleton
  <2> QED
    BY <2>1, <2>2 DEF Init
<1>4. Types
  <2>1. \A id \in DOMAIN objects : objects[id] \in Files
    BY <1>3 DEF Files
  <2> QED
    BY <1>1, <1>2, <1>3, <2>1 DEF Types
<1>5. VersionInv
  BY <1>1, <1>3 DEF VersionInv, At
<1>6. StageInv
  BY <1>1, <1>2, <1>3, StateAssumption DEF StageInv, At, Putting
<1>7. UsageInv
  <2>1. Bytes(Empty) = 0
    <3>1. Positions(Empty) = {}
      BY <1>2 DEF Positions
    <3> QED
      BY <3>1, BytesIsCardinality, FS_EmptySet
  <2> QED
    BY <1>1, <1>3, <2>1, StateAssumption DEF UsageInv, At, Putting
<1>8. NoPartialObject /\ AckedObjectsStay
  BY <1>2, <1>3 DEF NoPartialObject, AckedObjectsStay
<1> QED
  BY <1>4, <1>5, <1>6, <1>7, <1>8 DEF IInv

\* A step of one handle that leaves the files alone keeps the invariant, when the
\* place it goes to agrees with the layout, with the file it has open and with the
\* usage.
LEMMA HandleMoves ==
  ASSUME OneWriter, IInv, NEW h \in Handles, NEW r \in HandleStates,
         handle' = [handle EXCEPT ![h] = r], UNCHANGED <<objects, tmp>>,
         acked' \subseteq Objects, AckedObjectsStay',
         dirs' \subseteq {"objects", "tmp"}, version' \in {"absent", "torn", "1", "2"},
         version' \in {"absent", "torn"} => version \in {"absent", "torn"},
         version = "2" => version' = "2",
         r.pc = "version" => version' = "absent",
         r.pc = "write version" => version' = "torn",
         r.pc \notin {"closed", "version", "write version"} => version' = "1",
         \A name \in DOMAIN tmp : tmp[name].writer = h =>
           r.pc = "remove" /\ r.id = handle[h].id /\ r.next = handle[h].next,
         r.pc \notin {"write", "rename"}, r.pc \in Putting => r.id \in Objects,
         r.pc # "closed" => Bytes(objects) <= r.used /\ (r.exact => r.used = Bytes(objects)),
         r.pc \in Putting => /\ Bytes(Without(objects, {r.id})) + Size[r.id] <= r.total
                             /\ r.exact \/ r.recounted => r.total = Bytes(Without(objects, {r.id})) + Size[r.id]
  PROVE  IInv'
<1>1. /\ \A g \in Handles : g = h
      /\ handle'[h] = r
  BY DEF OneWriter, IInv, Types
<1>2. Types'
  BY DEF IInv, Types
<1>3. VersionInv'
  BY <1>1 DEF IInv, VersionInv, At
<1>4. StageInv'
  <2>1. \A id \in DOMAIN objects : objects[id].writer # h
    BY DEF IInv, StageInv
  <2>2. ASSUME NEW name \in DOMAIN tmp, tmp[name].writer = h
        PROVE  handle'[h].pc = "remove" /\ name = Temp(h)'
    <3>1. name = Temp(h)
      BY <2>2, ZenonT(60) DEF IInv, StageInv
    <3>2. r.pc = "remove" /\ r.id = handle[h].id /\ r.next = handle[h].next
      BY <2>2
    <3>3. Temp(h)' = <<r.id, r.next>> /\ Temp(h) = <<handle[h].id, handle[h].next>>
      BY <1>1 DEF Temp
    <3> QED
      BY <1>1, <3>1, <3>2, <3>3
  <2> QED
    BY <1>1, <2>1, <2>2 DEF StageInv, At
<1>5. UsageInv'
  BY <1>1 DEF IInv, UsageInv, At, Others
<1>6. NoPartialObject'
  BY DEF IInv, NoPartialObject
<1> QED
  BY <1>2, <1>3, <1>4, <1>5, <1>6 DEF IInv

\* Nobody has a file open but in a put.
LEMMA NothingOpen ==
  ASSUME IInv, NEW h \in Handles, handle[h].pc \notin {"write", "rename", "remove"}
  PROVE  \A name \in DOMAIN tmp : tmp[name].writer # h
BY DEF IInv, StageInv

LEMMA OpenKeeps ==
  ASSUME OneWriter, IInv, NEW h \in Handles, Open(h)
  PROVE  IInv'
<1> DEFINE r == [Closed EXCEPT !.pc = IF version = "absent" THEN "version" ELSE "dirs",
                               !.used = Bytes(objects), !.staged = DOMAIN tmp]
<1>1. /\ handle' = [handle EXCEPT ![h] = r] /\ version \in {"absent", "1"} /\ handle[h].pc = "closed"
      /\ UNCHANGED <<version, dirs, objects, tmp, acked>>
  BY DEF Open, disk, At, Rest
<1>2. Bytes(objects) \in 0..Quota
  BY <1>1, ObjectsSized, BytesFinite, StateAssumption DEF IInv, UsageInv
<1>3. r \in HandleStates /\ r.pc \in {"version", "dirs"} /\ r.used = Bytes(objects)
      /\ (r.pc = "version" <=> version = "absent")
  BY <1>1, <1>2, ClosedIsState DEF HandleStates, Pcs, Opening, IInv, Types, Closed
<1> HIDE DEF r
<1>4. AckedObjectsStay' /\ acked' \subseteq Objects
  BY <1>1 DEF IInv, AckedObjectsStay, Types
<1>5. r.pc \notin Putting
  BY <1>3 DEF Putting
<1>6. \A name \in DOMAIN tmp : tmp[name].writer # h
  BY <1>1, NothingOpen
<1>7. dirs' \subseteq {"objects", "tmp"} /\ Bytes(objects) <= r.used
      /\ version' \in {"absent", "torn", "1", "2"} /\ version # "2"
  BY <1>1, <1>2, <1>3 DEF IInv, Types
<1>8. /\ r.pc = "version" => version' = "absent"
      /\ r.pc \notin {"closed", "version", "write version"} => version' = "1"
      /\ version' \in {"absent", "torn"} => version \in {"absent", "torn"}
      /\ r.pc \notin {"write version", "write", "rename"}
  BY <1>1, <1>3
<1> QED
  BY <1>1, <1>3, <1>4, <1>5, <1>6, <1>7, <1>8, HandleMoves, ZenonT(60)

\* Going on with the rest of the state as it is
LEMMA CloseKeeps ==
  ASSUME OneWriter, IInv, NEW h \in Handles, OpenFails(h) \/ Close(h)
  PROVE  IInv'
<1>1. /\ handle' = [handle EXCEPT ![h] = Closed] /\ UNCHANGED <<version, dirs, objects, tmp, acked>>
      /\ handle[h].pc \in {"version", "write version", "dirs", "clean", "idle"}
  BY DEF OpenFails, Close, disk, At, Rest
<1>2. Closed.pc = "closed" /\ Closed \in HandleStates
  BY ClosedIsState DEF Closed
<1>3. AckedObjectsStay' /\ acked' \subseteq Objects /\ dirs' \subseteq {"objects", "tmp"}
      /\ version' \in {"absent", "torn", "1", "2"}
  BY <1>1 DEF IInv, AckedObjectsStay, Types
<1>4. \A name \in DOMAIN tmp : tmp[name].writer # h
  BY <1>1, NothingOpen
<1>5. Closed.pc \notin Putting
  BY <1>2 DEF Putting
<1> QED
  BY <1>1, <1>2, <1>3, <1>4, <1>5, HandleMoves

\* What a step from one place to another leaves of a handle
LEMMA GotoMoves ==
  ASSUME IInv, NEW h \in Handles, NEW pc \in Pcs, Goto(h, pc)
  PROVE  LET r == [handle[h] EXCEPT !.pc = pc]
         IN  /\ handle' = [handle EXCEPT ![h] = r] /\ r \in HandleStates /\ r.pc = pc
             /\ r.id = handle[h].id /\ r.next = handle[h].next /\ r.used = handle[h].used
             /\ r.exact = handle[h].exact /\ r.total = handle[h].total /\ r.recounted = handle[h].recounted
BY DEF IInv, Types, Goto, HandleStates

\* From one place of open to the next, or to idle
LEMMA OpeningMoves ==
  ASSUME OneWriter, IInv, NEW h \in Handles, NEW pc \in Opening \cup {"idle"}, Goto(h, pc),
         handle[h].pc \in Opening, UNCHANGED <<objects, tmp, acked>>,
         dirs' \subseteq {"objects", "tmp"}, version' \in {"absent", "torn", "1"},
         version' \in {"absent", "torn"} => version \in {"absent", "torn"}, version # "2",
         pc # "version", pc = "write version" => version' = "torn",
         pc # "write version" => version' = "1"
  PROVE  IInv'
<1> DEFINE r == [handle[h] EXCEPT !.pc = pc]
<1>1. pc \in Pcs
  BY DEF Pcs
<1>2. /\ handle' = [handle EXCEPT ![h] = r] /\ r \in HandleStates /\ r.pc = pc
      /\ r.id = handle[h].id /\ r.next = handle[h].next /\ r.used = handle[h].used /\ r.exact = handle[h].exact
  BY <1>1, GotoMoves
<1> HIDE DEF r
<1>3. AckedObjectsStay' /\ acked' \subseteq Objects
  BY DEF IInv, AckedObjectsStay, Types
<1>4. \A name \in DOMAIN tmp : tmp[name].writer # h
  BY NothingOpen DEF Opening
<1>5. r.pc \notin Putting /\ r.pc # "closed"
  BY <1>2 DEF Putting, Opening
<1>6. Bytes(objects) <= r.used /\ (r.exact => r.used = Bytes(objects))
  BY <1>2 DEF IInv, UsageInv, At, Opening
<1>7. r.pc \notin {"write", "rename", "version"}
  BY <1>2 DEF Opening
<1> QED
  BY <1>2, <1>3, <1>4, <1>5, <1>6, <1>7, HandleMoves, ZenonT(60)

LEMMA WriteVersionKeeps ==
  ASSUME OneWriter, IInv, NEW h \in Handles, WriteVersion(h)
  PROVE  IInv'
<1>1. UNCHANGED <<dirs, objects, tmp, acked>> /\ dirs' \subseteq {"objects", "tmp"}
  BY DEF WriteVersion, Rest, IInv, Types
<1>2. CASE At(h, "version") /\ version' = "torn" /\ Goto(h, "write version")
  <2>1. version = "absent" /\ handle[h].pc \in Opening /\ "write version" \in Opening
    BY <1>2 DEF IInv, VersionInv, At, Opening
  <2> QED
    BY <1>1, <1>2, <2>1, OpeningMoves
<1>3. CASE At(h, "write version") /\ version' = "1" /\ Goto(h, "dirs")
  <2>1. version = "torn" /\ handle[h].pc \in Opening /\ "dirs" \in Opening
    BY <1>3 DEF IInv, VersionInv, At, Opening
  <2> QED
    BY <1>1, <1>3, <2>1, OpeningMoves
<1> QED
  BY <1>2, <1>3 DEF WriteVersion

LEMMA CreateDirsKeeps ==
  ASSUME OneWriter, IInv, NEW h \in Handles, CreateDirs(h)
  PROVE  IInv'
<1>1. UNCHANGED <<version, objects, tmp, acked>> /\ handle[h].pc = "dirs" /\ version = "1"
  BY DEF CreateDirs, Rest, At, IInv, VersionInv
<1>2. dirs' \subseteq {"objects", "tmp"}
  BY DEF CreateDirs, IInv, Types
<1>3. CASE Goto(h, "clean")
  BY <1>1, <1>2, <1>3, OpeningMoves DEF Opening
<1>4. CASE UNCHANGED handle
  <2>1. Goto(h, "dirs")
    BY <1>1, <1>4 DEF Goto, IInv, Types, HandleStates
  <2> QED
    BY <1>1, <1>2, <2>1, OpeningMoves DEF Opening
<1> QED
  BY <1>3, <1>4 DEF CreateDirs
\* Files that are closed or written keep their names; a closed one keeps its bytes.
LEMMA ReleasedFiles ==
  ASSUME NEW h \in Handles, NEW files, \A k \in DOMAIN files : files[k] \in Files
  PROVE  /\ DOMAIN Released(h, files) = DOMAIN files
         /\ \A k \in DOMAIN files :
              /\ Released(h, files)[k] \in Files /\ Released(h, files)[k].writer # h
              /\ Released(h, files)[k].of = files[k].of /\ Released(h, files)[k].len = files[k].len
         /\ files = Empty => Released(h, files) = Empty
<1>1. DOMAIN Released(h, files) = DOMAIN files
  BY DEF Released
<1>2. ASSUME NEW k \in DOMAIN files
      PROVE  /\ Released(h, files)[k] \in Files /\ Released(h, files)[k].writer # h
             /\ Released(h, files)[k].of = files[k].of /\ Released(h, files)[k].len = files[k].len
  BY StateAssumption DEF Released, Files
<1>3. files = Empty => Released(h, files) = Empty
  BY DEF Released, Empty
<1> QED
  BY <1>1, <1>2, <1>3

LEMMA WrittenFiles ==
  ASSUME Types, NEW h \in Handles, handle[h].id \in Objects, NEW files, \A k \in DOMAIN files : files[k] \in Files
  PROVE  /\ DOMAIN Written(h, files) = DOMAIN files
         /\ \A k \in DOMAIN files :
              /\ Written(h, files)[k] \in Files /\ Written(h, files)[k].writer = files[k].writer
              /\ Written(h, files)[k].of = files[k].of
              /\ files[k].writer = h => Written(h, files)[k].len = Size[handle[h].id]
              /\ files[k].writer # h => Written(h, files)[k] = files[k]
         /\ files = Empty => Written(h, files) = Empty
<1>1. DOMAIN Written(h, files) = DOMAIN files
  BY DEF Written
<1>2. Size[handle[h].id] \in Nat
  BY StateAssumption
<1>3. ASSUME NEW k \in DOMAIN files
      PROVE  /\ Written(h, files)[k] \in Files /\ Written(h, files)[k].writer = files[k].writer
             /\ Written(h, files)[k].of = files[k].of
             /\ files[k].writer = h => Written(h, files)[k].len = Size[handle[h].id]
             /\ files[k].writer # h => Written(h, files)[k] = files[k]
  BY <1>2 DEF Written, Files
<1>4. files = Empty => Written(h, files) = Empty
  BY DEF Written, Empty
<1> QED
  BY <1>1, <1>3, <1>4

\* The lengths stay, and with them the sums.
LEMMA OthersSame ==
  ASSUME DOMAIN objects' = DOMAIN objects, \A id \in DOMAIN objects : objects'[id].len = objects[id].len, NEW id
  PROVE  Bytes(objects') = Bytes(objects) /\ Bytes(Without(objects', {id})) = Bytes(Without(objects, {id}))
<1>1. /\ DOMAIN Without(objects', {id}) = DOMAIN Without(objects, {id})
      /\ \A k \in DOMAIN Without(objects, {id}) : Without(objects', {id})[k].len = Without(objects, {id})[k].len
  BY DEF Without
<1> QED
  BY <1>1, BytesSame

\* A step of one handle on tmp/ keeps the invariant, when it keeps the objects' bytes
\* and goes on with the put it is in.
LEMMA FilesMove ==
  ASSUME OneWriter, IInv, NEW h \in Handles, NEW r \in HandleStates,
         handle' = [handle EXCEPT ![h] = r], UNCHANGED <<version, dirs, acked>>,
         DOMAIN objects' = DOMAIN objects,
         \A id \in DOMAIN objects : /\ objects'[id] \in Files /\ objects'[id].of = objects[id].of
                                    /\ objects'[id].len = objects[id].len,
         objects = Empty => objects' = Empty,
         DOMAIN tmp' \subseteq Objects \X Nat, \A name \in DOMAIN tmp' : tmp'[name] \in Files,
         StageInv',
         r.pc \notin {"version", "write version"},
         r.pc # "closed" => /\ version = "1" /\ handle[h].pc # "closed"
                            /\ r.used = handle[h].used /\ r.exact = handle[h].exact,
         r.pc \in Putting => /\ handle[h].pc \in Putting /\ r.id = handle[h].id
                             /\ r.total = handle[h].total /\ r.recounted = handle[h].recounted
  PROVE  IInv'
<1>1. (\A g \in Handles : g = h) /\ handle'[h] = r
  BY DEF OneWriter, IInv, Types
<1>2. Types'
  BY DEF IInv, Types
<1>3. VersionInv'
  BY <1>1 DEF IInv, VersionInv, At
<1>4. Bytes(objects') = Bytes(objects) /\ (r.pc \in Putting => Others(h)' = Others(h))
  BY <1>1, OthersSame DEF Others
<1>5. UsageInv'
  <2>1. version' # "2" => Bytes(objects)' <= Quota
    BY <1>4 DEF IInv, UsageInv
  <2>2. r.pc # "closed" => Bytes(objects)' <= r.used /\ (r.exact => r.used = Bytes(objects)')
    BY <1>4 DEF IInv, UsageInv, At
  <2>3. r.pc \in Putting => /\ Others(h) + Size[r.id] <= r.total
                            /\ r.exact \/ r.recounted => r.total = Others(h) + Size[r.id]
    <3>1. CASE r.pc \in Putting
      <4>1. r.pc # "closed"
        BY <3>1 DEF Putting
      <4> QED
        BY <3>1, <4>1 DEF IInv, UsageInv
    <3> QED
      BY <3>1
  <2>4. ASSUME NEW g \in Handles
        PROVE  /\ ~ At(g, "closed")' =>
                    Bytes(objects)' <= handle'[g].used /\ (handle'[g].exact => handle'[g].used = Bytes(objects)')
               /\ handle'[g].pc \in Putting =>
                    /\ Others(g)' + Size[handle'[g].id] <= handle'[g].total
                    /\ handle'[g].exact \/ handle'[g].recounted =>
                         handle'[g].total = Others(g)' + Size[handle'[g].id]
    <3>1. g = h /\ handle'[g] = r
      BY <1>1, Zenon
    <3>2. CASE r.pc \in Putting
      <4>1. Others(g)' = Others(h)
        BY <1>4, <3>1, <3>2
      <4> QED
        BY <2>2, <2>3, <3>1, <3>2, <4>1, Zenon DEF At
    <3>3. CASE r.pc \notin Putting
      BY <2>2, <3>1, <3>3, Zenon DEF At
    <3> QED
      BY <3>2, <3>3
  <2> QED
    BY <2>1, <2>4, Zenon DEF UsageInv
<1>6. NoPartialObject'
  BY DEF IInv, NoPartialObject, Matches
<1>7. AckedObjectsStay'
  BY DEF IInv, AckedObjectsStay, Matches
<1> QED
  BY <1>2, <1>3, <1>5, <1>6, <1>7 DEF IInv

\* A handle that goes on does so in a namespace that it can open.
LEMMA AtWork ==
  ASSUME IInv, NEW h \in Handles, handle[h].pc \notin {"closed", "version", "write version"}
  PROVE  version = "1" /\ (handle[h].pc \in Putting => Temp(h) \in Objects \X Nat /\ handle[h].id \in Objects)
<1>1. version = "1"
  BY DEF IInv, VersionInv
<1>2. handle[h].next \in Nat /\ (handle[h].pc \in Putting => handle[h].id \in Objects)
  BY DEF IInv, Types, HandleStates, StageInv
<1> QED
  BY <1>1, <1>2 DEF Temp

LEMMA CleanKeeps ==
  ASSUME OneWriter, IInv, NEW h \in Handles, Clean(h)
  PROVE  IInv'
<1>1. handle[h].pc = "clean" /\ UNCHANGED <<version, dirs, objects, acked>> /\ version = "1"
  BY AtWork DEF Clean, At, Rest
<1>2. ASSUME NEW name \in handle[h].staged, name \in DOMAIN tmp, tmp' = Without(tmp, {name}),
             handle' = [handle EXCEPT ![h].staged = @ \ {name}]
      PROVE  IInv'
  <2> DEFINE r == [handle[h] EXCEPT !.staged = @ \ {name}]
  <2>1. handle' = [handle EXCEPT ![h] = r] /\ r \in HandleStates /\ r.pc = "clean"
        /\ r.used = handle[h].used /\ r.exact = handle[h].exact
    BY <1>1, <1>2 DEF IInv, Types, HandleStates
  <2> HIDE DEF r
  <2>2. (\A g \in Handles : g = h) /\ handle'[h] = r
    BY <2>1 DEF OneWriter, IInv, Types
  <2>3. DOMAIN tmp' \subseteq DOMAIN tmp /\ \A k \in DOMAIN tmp' : tmp'[k] = tmp[k]
    BY <1>2 DEF Without
  <2>4. \A k \in DOMAIN tmp : tmp[k].writer # h
    BY <1>1, NothingOpen
  <2>5. StageInv'
    BY <1>1, <2>1, <2>2, <2>3, <2>4 DEF IInv, StageInv, At, Putting
  <2>6. DOMAIN tmp' \subseteq Objects \X Nat /\ \A k \in DOMAIN tmp' : tmp'[k] \in Files
    BY <2>3 DEF IInv, Types
  <2>7. \A id \in DOMAIN objects : objects[id] \in Files
    BY DEF IInv, Types
  <2>8. r.pc \notin Putting
    BY <2>1 DEF Putting
  <2> QED
    BY <1>1, <2>1, <2>5, <2>6, <2>7, <2>8, FilesMove
<1>3. CASE handle' = [handle EXCEPT ![h] = Closed] /\ UNCHANGED tmp
  <2>1. Closed.pc = "closed" /\ Closed \in HandleStates
    BY ClosedIsState DEF Closed
  <2>2. AckedObjectsStay' /\ acked' \subseteq Objects /\ dirs' \subseteq {"objects", "tmp"}
        /\ version' \in {"absent", "torn", "1", "2"}
    BY <1>1 DEF IInv, AckedObjectsStay, Types
  <2>3. \A name \in DOMAIN tmp : tmp[name].writer # h
    BY <1>1, NothingOpen
  <2>4. Closed.pc \notin Putting
    BY <2>1 DEF Putting
  <2> QED
    BY <1>1, <1>3, <2>1, <2>2, <2>3, <2>4, HandleMoves
<1>4. CASE Goto(h, "idle") /\ UNCHANGED tmp
  <2>1. dirs' \subseteq {"objects", "tmp"} /\ handle[h].pc \in Opening
    BY <1>1 DEF IInv, Types, Opening
  <2> QED
    BY <1>1, <1>4, <2>1, OpeningMoves
<1> QED
  BY <1>2, <1>3, <1>4 DEF Clean

\* What put counts before it stages
LEMMA PutTotalIs ==
  ASSUME IInv, NEW h \in Handles, NEW id \in Objects, handle[h].pc = "idle"
  PROVE  /\ PutTotal(h, id) \in Nat
         /\ Bytes(Without(objects, {id})) + Size[id] <= PutTotal(h, id)
         /\ handle[h].exact \/ id \in DOMAIN objects =>
              PutTotal(h, id) = Bytes(Without(objects, {id})) + Size[id]
<1>1. Sized(objects) /\ Size[id] \in Nat
  BY ObjectsSized, StateAssumption DEF IInv
<1>2. /\ Bytes(Without(objects, {id})) \in Nat /\ Bytes(objects) \in Nat
      /\ id \in DOMAIN objects => Bytes(objects) = Bytes(Without(objects, {id})) + objects[id].len
      /\ id \notin DOMAIN objects => Bytes(objects) = Bytes(Without(objects, {id}))
  BY <1>1, BytesWithout, BytesFinite
<1>3. /\ handle[h].used \in Nat /\ Bytes(objects) <= handle[h].used
      /\ handle[h].exact => handle[h].used = Bytes(objects)
  BY StateAssumption DEF IInv, Types, HandleStates, UsageInv, At
<1>4. CASE id \in DOMAIN objects
  <2>1. objects[id].len \in Nat
    BY <1>1, <1>4 DEF Sized
  <2>2. Minus(Bytes(objects), objects[id].len) = Bytes(Without(objects, {id}))
    BY <1>2, <1>4, <2>1 DEF Minus
  <2> QED
    BY <1>1, <1>2, <1>4, <2>2 DEF PutTotal
<1>5. CASE id \notin DOMAIN objects
  BY <1>1, <1>2, <1>3, <1>5 DEF PutTotal
<1> QED
  BY <1>4, <1>5

LEMMA PutKeeps ==
  ASSUME OneWriter, IInv, NEW h \in Handles, NEW id \in Objects, Put(h, id)
  PROVE  IInv'
<1>1. handle[h].pc = "idle" /\ UNCHANGED <<version, dirs, objects, tmp>> /\ version = "1"
  BY AtWork DEF Put, At, disk
<1>2. /\ \A name \in DOMAIN tmp : tmp[name].writer # h
      /\ dirs' \subseteq {"objects", "tmp"} /\ version' = "1"
  BY <1>1, NothingOpen DEF IInv, Types
<1>3. CASE id \in DOMAIN objects /\ Matches(id, objects[id]) /\ acked' = acked \cup {id} /\ UNCHANGED handle
  <2>1. handle' = [handle EXCEPT ![h] = handle[h]] /\ handle[h] \in HandleStates
    BY <1>3 DEF IInv, Types
  <2>2. AckedObjectsStay' /\ acked' \subseteq Objects
    BY <1>1, <1>3 DEF IInv, AckedObjectsStay, Types
  <2>3. Bytes(objects) <= handle[h].used /\ (handle[h].exact => handle[h].used = Bytes(objects))
    BY <1>1 DEF IInv, UsageInv, At
  <2>4. handle[h].pc \notin Putting
    BY <1>1 DEF Putting
  <2> DEFINE r == handle[h]
  <2>5. /\ handle' = [handle EXCEPT ![h] = r] /\ r \in HandleStates /\ r.pc = "idle" /\ r.pc \notin Putting
        /\ Bytes(objects) <= r.used /\ (r.exact => r.used = Bytes(objects))
    BY <1>1, <2>1, <2>3, <2>4
  <2> HIDE DEF r
  <2> QED
    BY <1>1, <1>2, <2>2, <2>5, HandleMoves
<1>4. CASE /\ PutTotal(h, id) <= Quota /\ UNCHANGED acked
           /\ handle' = [handle EXCEPT ![h].pc = "create", ![h].id = id, ![h].total = PutTotal(h, id),
                                       ![h].recounted = id \in DOMAIN objects]
  <2> DEFINE r == [handle[h] EXCEPT !.pc = "create", !.id = id, !.total = PutTotal(h, id),
                                    !.recounted = id \in DOMAIN objects]
  <2> HIDE DEF r
  <2>1. PutTotal(h, id) \in 0..Quota
    <3>1. PutTotal(h, id) \in Nat
      BY <1>1, PutTotalIs
    <3> QED
      BY <1>4, <3>1, StateAssumption
  <2>2. /\ handle' = [handle EXCEPT ![h] = r] /\ r \in HandleStates
        /\ r.pc = "create" /\ r.id = id /\ r.total = PutTotal(h, id) /\ r.recounted = (id \in DOMAIN objects)
        /\ r.used = handle[h].used /\ r.exact = handle[h].exact
    <3>1. handle \in [Handles -> HandleStates] /\ handle[h] \in HandleStates
      BY DEF IInv, Types
    <3>2. handle' = [handle EXCEPT ![h] = r]
      BY <1>4, <3>1 DEF r
    <3>3. "create" \in Pcs /\ id \in Objects \cup {Damaged} /\ (id \in DOMAIN objects) \in BOOLEAN
      BY DEF Pcs, Putting
    <3>4. r \in HandleStates
      BY <2>1, <3>1, <3>3 DEF HandleStates, r
    <3> QED
      BY <3>1, <3>2, <3>4 DEF HandleStates, r
  <2>3. AckedObjectsStay' /\ acked' \subseteq Objects
    BY <1>1, <1>4 DEF IInv, AckedObjectsStay, Types
  <2>4. Bytes(objects) <= r.used /\ (r.exact => r.used = Bytes(objects))
    BY <1>1, <2>2 DEF IInv, UsageInv, At
  <2>5. /\ Bytes(Without(objects, {r.id})) + Size[r.id] <= r.total
        /\ r.exact \/ r.recounted => r.total = Bytes(Without(objects, {r.id})) + Size[r.id]
    BY <1>1, <2>2, PutTotalIs
  <2>6. /\ UNCHANGED <<objects, tmp>> /\ dirs' \subseteq {"objects", "tmp"}
        /\ version' \in {"absent", "torn", "1", "2"} /\ version' \notin {"absent", "torn"} /\ version # "2"
    BY <1>1, <1>2
  <2>7. /\ r.pc \notin {"closed", "version", "write version", "write", "rename"}
        /\ version' = "1" /\ r.id \in Objects
    BY <1>2, <2>2
  <2>8. \A name \in DOMAIN tmp : tmp[name].writer # h
    BY <1>2
  <2> QED
    BY <2>2, <2>3, <2>4, <2>5, <2>6, <2>7, <2>8, HandleMoves
<1> QED
  BY <1>3, <1>4 DEF Put
\* The state of a handle that a step of put only moves
LEMMA PutMoves ==
  ASSUME OneWriter, IInv, NEW h \in Handles, NEW pc, Goto(h, pc), pc \in {"write", "rename", "remove"},
         handle[h].pc \in Putting
  PROVE  \E r \in HandleStates :
           /\ handle' = [handle EXCEPT ![h] = r] /\ handle'[h] = r /\ r.pc = pc
           /\ r.id = handle[h].id /\ r.next = handle[h].next /\ r.used = handle[h].used
           /\ r.exact = handle[h].exact /\ r.total = handle[h].total /\ r.recounted = handle[h].recounted
<1> DEFINE r == [handle[h] EXCEPT !.pc = pc]
<1>1. pc \in Pcs
  BY DEF Pcs, Putting
<1>2. /\ handle' = [handle EXCEPT ![h] = r] /\ r \in HandleStates /\ r.pc = pc
      /\ r.id = handle[h].id /\ r.next = handle[h].next /\ r.used = handle[h].used /\ r.exact = handle[h].exact
      /\ r.total = handle[h].total /\ r.recounted = handle[h].recounted
  BY <1>1, GotoMoves
<1>3. handle'[h] = r
  BY <1>2 DEF IInv, Types
<1> HIDE DEF r
<1> QED
  BY <1>2, <1>3

\* A step of put that does nothing but give up
LEMMA GivingUpKeeps ==
  ASSUME OneWriter, IInv, NEW h \in Handles, Goto(h, "remove"), handle[h].pc \in Putting,
         UNCHANGED <<version, dirs, objects, tmp, acked>>
  PROVE  IInv'
<1>1. PICK r \in HandleStates :
           /\ handle' = [handle EXCEPT ![h] = r] /\ handle'[h] = r /\ r.pc = "remove"
           /\ r.id = handle[h].id /\ r.next = handle[h].next /\ r.used = handle[h].used
           /\ r.exact = handle[h].exact
  BY PutMoves
<1>2. \A g \in Handles : g = h
  BY DEF OneWriter
<1>3. Temp(h)' = Temp(h)
  BY <1>1 DEF Temp
<1>4. StageInv'
  <2>1. /\ \A id \in DOMAIN objects : objects[id].writer # h
        /\ \A name \in DOMAIN tmp : tmp[name].writer = h => name = Temp(h)
    BY DEF IInv, StageInv
  <2>2. handle'[h].pc = "remove" /\ "remove" \notin Putting
    BY <1>1 DEF Putting
  <2> QED
    BY <1>2, <1>3, <2>1, <2>2 DEF StageInv, At
<1>5. /\ version = "1" /\ handle[h].pc # "closed" /\ r.pc \notin Putting
  BY <1>1, AtWork DEF Putting
<1>6. /\ DOMAIN tmp' \subseteq Objects \X Nat /\ \A k \in DOMAIN tmp' : tmp'[k] \in Files
      /\ \A id \in DOMAIN objects : objects[id] \in Files
  BY DEF IInv, Types
<1> QED
  BY <1>1, <1>4, <1>5, <1>6, FilesMove

LEMMA CreateKeeps ==
  ASSUME OneWriter, IInv, NEW h \in Handles, Create(h)
  PROVE  IInv'
<1>1. handle[h].pc = "create" /\ handle[h].pc \in Putting /\ UNCHANGED <<version, dirs, objects, acked>>
  BY DEF Create, At, Putting, Rest
<1>2. CASE Goto(h, "remove") /\ UNCHANGED tmp
  BY <1>1, <1>2, GivingUpKeeps
<1>3. CASE /\ Temp(h) \notin DOMAIN tmp /\ Goto(h, "write")
           /\ tmp' = With(tmp, Temp(h), [writer |-> h, of |-> handle[h].id, len |-> 0])
  <2> DEFINE file == [writer |-> h, of |-> handle[h].id, len |-> 0]
  <2>1. PICK r \in HandleStates :
           /\ handle' = [handle EXCEPT ![h] = r] /\ handle'[h] = r /\ r.pc = "write"
           /\ r.id = handle[h].id /\ r.next = handle[h].next /\ r.used = handle[h].used
           /\ r.exact = handle[h].exact /\ r.total = handle[h].total /\ r.recounted = handle[h].recounted
    BY <1>1, <1>3, PutMoves
  <2>2. (\A g \in Handles : g = h) /\ Temp(h)' = Temp(h)
    BY <2>1 DEF OneWriter, Temp
  <2>3. /\ version = "1" /\ Temp(h) \in Objects \X Nat /\ handle[h].id \in Objects
        /\ \A k \in DOMAIN tmp : tmp[k].writer # h
    BY <1>1, AtWork, NothingOpen
  <2>4. file \in Files /\ file.writer = h /\ file.of = handle[h].id
    BY <2>3 DEF Files
  <2> HIDE DEF file
  <2>5. DOMAIN tmp' = DOMAIN tmp \cup {Temp(h)} /\ \A k \in DOMAIN tmp' : tmp'[k] = IF k = Temp(h) THEN file ELSE tmp[k]
    BY <1>3 DEF With, file
  <2>6. DOMAIN tmp' \subseteq Objects \X Nat /\ \A k \in DOMAIN tmp' : tmp'[k] \in Files
    BY <2>3, <2>4, <2>5 DEF IInv, Types
  <2>7. StageInv'
    <3>1. \A id \in DOMAIN objects : objects[id].writer # h
      BY DEF IInv, StageInv
    <3>2. \A k \in DOMAIN tmp' : tmp'[k].writer = h => k = Temp(h)
      BY <2>3, <2>5
    <3>3. tmp'[Temp(h)].writer = h /\ tmp'[Temp(h)].of = handle[h].id
      BY <2>4, <2>5
    <3> QED
      BY <1>1, <2>1, <2>2, <2>3, <3>1, <3>2, <3>3 DEF StageInv, At
  <2>8. (\A id \in DOMAIN objects : objects[id] \in Files) /\ handle[h].pc # "closed"
    BY <1>1 DEF IInv, Types
  <2> QED
    BY <1>1, <2>1, <2>3, <2>6, <2>7, <2>8, FilesMove
<1> QED
  BY <1>2, <1>3 DEF Create

LEMMA WriteKeeps ==
  ASSUME OneWriter, IInv, NEW h \in Handles, Write(h)
  PROVE  IInv'
<1>1. handle[h].pc = "write" /\ handle[h].pc \in Putting /\ UNCHANGED <<version, dirs, acked>>
  BY DEF Write, At, Putting, Rest
<1>2. CASE Goto(h, "remove") /\ UNCHANGED <<tmp, objects>>
  BY <1>1, <1>2, GivingUpKeeps
<1>3. CASE tmp' = Written(h, tmp) /\ objects' = Written(h, objects) /\ Goto(h, "rename")
  <2>1. PICK r \in HandleStates :
           /\ handle' = [handle EXCEPT ![h] = r] /\ handle'[h] = r /\ r.pc = "rename"
           /\ r.id = handle[h].id /\ r.next = handle[h].next /\ r.used = handle[h].used
           /\ r.exact = handle[h].exact /\ r.total = handle[h].total /\ r.recounted = handle[h].recounted
    BY <1>1, <1>3, PutMoves
  <2>2. (\A g \in Handles : g = h) /\ Temp(h)' = Temp(h)
    BY <2>1 DEF OneWriter, Temp
  <2>3. version = "1" /\ Temp(h) \in Objects \X Nat /\ handle[h].id \in Objects
    BY <1>1, AtWork
  <2>4. /\ Types /\ \A k \in DOMAIN tmp : tmp[k] \in Files
        /\ \A id \in DOMAIN objects : objects[id] \in Files /\ objects[id].writer # h
    BY DEF IInv, Types, StageInv
  <2>5. /\ DOMAIN tmp' = DOMAIN tmp
        /\ \A k \in DOMAIN tmp :
             /\ tmp'[k] \in Files /\ tmp'[k].writer = tmp[k].writer /\ tmp'[k].of = tmp[k].of
             /\ tmp[k].writer = h => tmp'[k].len = Size[handle[h].id]
    BY <1>3, <2>3, <2>4, WrittenFiles
  <2>6. /\ DOMAIN objects' = DOMAIN objects /\ \A id \in DOMAIN objects : objects'[id] = objects[id]
        /\ objects = Empty => objects' = Empty
    BY <1>3, <2>3, <2>4, WrittenFiles
  <2>7. StageInv'
    <3>1. \A id \in DOMAIN objects' : objects'[id].writer # h
      BY <2>4, <2>6
    <3>2. \A k \in DOMAIN tmp' : tmp'[k].writer = h => k = Temp(h)
      BY <2>5 DEF IInv, StageInv
    <3>3. Temp(h) \in DOMAIN tmp' => Matches(handle[h].id, tmp'[Temp(h)])
      BY <1>1, <2>5 DEF IInv, StageInv, At, Matches
    <3> QED
      BY <2>1, <2>2, <2>3, <3>1, <3>2, <3>3 DEF StageInv, At
  <2>8. DOMAIN tmp' \subseteq Objects \X Nat /\ \A k \in DOMAIN tmp' : tmp'[k] \in Files
    BY <2>5 DEF IInv, Types
  <2>9. /\ \A id \in DOMAIN objects : /\ objects'[id] \in Files /\ objects'[id].of = objects[id].of
                                      /\ objects'[id].len = objects[id].len
        /\ handle[h].pc # "closed" /\ r.pc \notin {"version", "write version"}
    BY <1>1, <2>1, <2>4, <2>6
  <2> QED
    BY <1>1, <2>1, <2>3, <2>6, <2>7, <2>8, <2>9, FilesMove
<1> QED
  BY <1>2, <1>3 DEF Write
\* A rename makes an object of the file that has been written, and the usage is the
\* total that put had counted.
LEMMA RenameKeeps ==
  ASSUME OneWriter, IInv, NEW h \in Handles, Rename(h)
  PROVE  IInv'
<1>1. handle[h].pc = "rename" /\ handle[h].pc \in Putting /\ UNCHANGED <<version, dirs>>
  BY DEF Rename, At, Putting
<1>2. CASE Goto(h, "remove") /\ UNCHANGED <<objects, tmp, acked>>
  BY <1>1, <1>2, GivingUpKeeps
<1>3. CASE /\ Temp(h) \in DOMAIN tmp
           /\ objects' = Released(h, With(objects, handle[h].id, tmp[Temp(h)]))
           /\ tmp' = Without(tmp, {Temp(h)})
           /\ handle' = [handle EXCEPT ![h].pc = "idle", ![h].next = @ + 1, ![h].used = handle[h].total,
                                       ![h].exact = @ \/ handle[h].recounted]
           /\ acked' = acked \cup {handle[h].id}
  <2> DEFINE id == handle[h].id
             file == tmp[Temp(h)]
             more == With(objects, id, file)
             r == [handle[h] EXCEPT !.pc = "idle", !.next = @ + 1, !.used = handle[h].total,
                                    !.exact = @ \/ handle[h].recounted]
  <2>1. handle \in [Handles -> HandleStates] /\ handle[h] \in HandleStates
    BY DEF IInv, Types
  <2>2. /\ handle' = [handle EXCEPT ![h] = r] /\ handle'[h] = r /\ r \in HandleStates
        /\ r.pc = "idle" /\ r.used = handle[h].total /\ (r.exact <=> handle[h].exact \/ handle[h].recounted)
    <3>1. "idle" \in Pcs /\ handle[h].next + 1 \in Nat /\ (handle[h].exact \/ handle[h].recounted) \in BOOLEAN
      BY <2>1 DEF Pcs, HandleStates
    <3>2. handle' = [handle EXCEPT ![h] = r]
      BY <1>3, <2>1
    <3>3. r \in HandleStates
      BY <2>1, <3>1 DEF HandleStates
    <3>4. r.pc = "idle" /\ r.used = handle[h].total /\ r.exact = (handle[h].exact \/ handle[h].recounted)
      BY <2>1 DEF HandleStates
    <3>5. handle'[h] = r
      BY <2>1, <3>2
    <3> HIDE DEF r
    <3> QED
      BY <3>2, <3>3, <3>4, <3>5
  <2> HIDE DEF r
  <2>3. /\ (\A g \in Handles : g = h) /\ version = "1" /\ version' = "1" /\ id \in Objects
        /\ Matches(id, file) /\ file \in Files
    <3>1. (\A g \in Handles : g = h) /\ version = "1" /\ version' = "1" /\ id \in Objects
      BY <1>1, AtWork DEF OneWriter
    <3>2. Matches(id, file)
      BY <1>1, <1>3, Zenon DEF IInv, StageInv, At
    <3>3. file \in Files
      BY <1>3 DEF IInv, Types
    <3> QED
      BY <3>1, <3>2, <3>3
  <2>4. file.len = Size[id] /\ file.len \in Nat /\ file.of = id
    BY <2>3, StateAssumption DEF Matches
  <2>5. /\ DOMAIN more = DOMAIN objects \cup {id} /\ more[id] = file
        /\ \A k \in DOMAIN objects : k # id => more[k] = objects[k]
        /\ \A k \in DOMAIN more : more[k] \in Files
    <3>1. /\ DOMAIN more = DOMAIN objects \cup {id} /\ more[id] = file
          /\ \A k \in DOMAIN objects : k # id => more[k] = objects[k]
      BY DEF With
    <3> QED
      BY <2>3, <3>1, Zenon DEF IInv, Types
  <2>6. Sized(more) /\ Bytes(more) = Others(h) + Size[id] /\ Sized(objects)
    BY <2>4, ObjectsSized, BytesWith DEF Others, IInv
  <2> HIDE DEF more, file
  <2>7. /\ DOMAIN objects' = DOMAIN more
        /\ \A k \in DOMAIN more : /\ objects'[k] \in Files /\ objects'[k].writer # h
                                  /\ objects'[k].of = more[k].of /\ objects'[k].len = more[k].len
    BY <1>3, <2>5, ReleasedFiles DEF more, file
  <2>8. Bytes(objects') = Others(h) + Size[id]
    BY <2>6, <2>7, BytesSame
  <2>9. DOMAIN tmp' \subseteq DOMAIN tmp \ {Temp(h)} /\ \A k \in DOMAIN tmp' : tmp'[k] = tmp[k]
    BY <1>3 DEF Without
  <2>10. Types'
    <3>1. DOMAIN objects' \subseteq Objects /\ IsFiniteSet(DOMAIN objects')
      BY <2>3, <2>5, <2>6, <2>7 DEF IInv, Types, Sized
    <3>2. \A k \in DOMAIN objects' : objects'[k] \in Files
      BY <2>7
    <3>3. DOMAIN tmp' \subseteq Objects \X Nat /\ \A k \in DOMAIN tmp' : tmp'[k] \in Files
      BY <2>9 DEF IInv, Types
    <3>4. handle' \in [Handles -> HandleStates] /\ acked' \subseteq Objects
      BY <1>3, <2>2, <2>3 DEF IInv, Types
    <3> QED
      BY <1>1, <3>1, <3>2, <3>3, <3>4 DEF IInv, Types
  <2>11. VersionInv'
    BY <2>2, <2>3 DEF VersionInv, At
  <2>12. StageInv'
    <3>1. \A k \in DOMAIN objects' : objects'[k].writer # h
      BY <2>7
    <3>2. \A k \in DOMAIN tmp' : tmp'[k].writer # h
      BY <2>9 DEF IInv, StageInv
    <3>3. handle'[h].pc \notin Putting
      BY <2>2 DEF Putting
    <3> QED
      BY <2>2, <2>3, <3>1, <3>2, <3>3 DEF StageInv, At
  <2>13. UsageInv'
    <3>1. /\ Others(h) + Size[id] <= handle[h].total
          /\ handle[h].exact \/ handle[h].recounted => handle[h].total = Others(h) + Size[id]
      BY <1>1, Zenon DEF IInv, UsageInv
    <3>2. Bytes(objects') <= r.used /\ (r.exact => r.used = Bytes(objects'))
      BY <2>2, <2>8, <3>1
    <3>3. r.used \in 0..Quota /\ Bytes(objects') \in Nat
      <4>1. Sized(objects')
        BY <2>10 DEF Types, Sized, Files
      <4>2. r.used \in 0..Quota
        BY <2>2 DEF HandleStates
      <4> QED
        BY <4>1, <4>2, BytesFinite
    <3>4. Bytes(objects') <= Quota
      BY <3>2, <3>3, StateAssumption
    <3>5. r.pc \notin Putting
      BY <2>2 DEF Putting
    <3> QED
      BY <2>2, <2>3, <3>2, <3>4, <3>5, Zenon DEF UsageInv, At
  <2>14. NoPartialObject'
    <3> SUFFICES ASSUME NEW k \in DOMAIN objects', objects'[k].of # Damaged
                 PROVE  Matches(k, objects'[k])
      BY DEF NoPartialObject
    <3>1. CASE k = id
      BY <2>4, <2>5, <2>7, <3>1 DEF Matches
    <3>2. CASE k # id
      BY <2>5, <2>7, <3>2 DEF IInv, NoPartialObject, Matches
    <3> QED
      BY <3>1, <3>2
  <2>15. AckedObjectsStay'
    <3> SUFFICES ASSUME NEW k \in acked'
                 PROVE  k \in DOMAIN objects' /\ Matches(k, objects'[k])
      BY DEF AckedObjectsStay
    <3>1. CASE k = id
      BY <2>4, <2>5, <2>7, <3>1 DEF Matches
    <3>2. CASE k # id
      BY <1>3, <2>5, <2>7, <3>2 DEF IInv, AckedObjectsStay, Matches
    <3> QED
      BY <3>1, <3>2
  <2> QED
    BY <2>10, <2>11, <2>12, <2>13, <2>14, <2>15 DEF IInv
<1> QED
  BY <1>2, <1>3 DEF Rename

\* Closing what the handle has open
LEMMA ReleasedStage ==
  ASSUME OneWriter, IInv, NEW h \in Handles, NEW part, DOMAIN part \subseteq DOMAIN tmp,
         \A k \in DOMAIN part : part[k] = tmp[k],
         objects' = Released(h, objects), tmp' = Released(h, part), handle'[h].pc \in {"closed", "idle"}
  PROVE  /\ StageInv'
         /\ DOMAIN objects' = DOMAIN objects
         /\ \A id \in DOMAIN objects : /\ objects'[id] \in Files /\ objects'[id].of = objects[id].of
                                       /\ objects'[id].len = objects[id].len
         /\ objects = Empty => objects' = Empty
         /\ DOMAIN tmp' \subseteq Objects \X Nat /\ \A name \in DOMAIN tmp' : tmp'[name] \in Files
<1>1. /\ \A id \in DOMAIN objects : objects[id] \in Files
      /\ \A k \in DOMAIN part : part[k] \in Files
      /\ DOMAIN part \subseteq Objects \X Nat
  BY DEF IInv, Types
<1>2. /\ DOMAIN objects' = DOMAIN objects
      /\ \A id \in DOMAIN objects : /\ objects'[id] \in Files /\ objects'[id].of = objects[id].of
                                    /\ objects'[id].len = objects[id].len /\ objects'[id].writer # h
      /\ objects = Empty => objects' = Empty
  BY <1>1, ReleasedFiles
<1>3. /\ DOMAIN tmp' = DOMAIN part
      /\ \A k \in DOMAIN part : tmp'[k] \in Files /\ tmp'[k].writer # h
  BY <1>1, ReleasedFiles
<1>4. StageInv'
  BY <1>2, <1>3 DEF StageInv, OneWriter, At, Putting
<1> QED
  BY <1>1, <1>2, <1>3, <1>4

LEMMA RemoveTempKeeps ==
  ASSUME OneWriter, IInv, NEW h \in Handles, RemoveTemp(h)
  PROVE  IInv'
<1> DEFINE r == [handle[h] EXCEPT !.pc = "idle", !.next = @ + 1]
<1>1. handle[h].pc = "remove" /\ UNCHANGED <<version, dirs, acked>> /\ version = "1"
      /\ objects' = Released(h, objects)
  BY AtWork DEF RemoveTemp, At, Rest, PutFailed
<1>2. handle \in [Handles -> HandleStates] /\ handle[h] \in HandleStates
  BY DEF IInv, Types
<1>3. /\ handle' = [handle EXCEPT ![h] = r] /\ handle'[h] = r /\ r \in HandleStates
      /\ r.pc = "idle" /\ r.used = handle[h].used /\ r.exact = handle[h].exact
  <2>1. "idle" \in Pcs /\ handle[h].next + 1 \in Nat
    BY <1>2 DEF Pcs, HandleStates
  <2>2. handle' = [handle EXCEPT ![h] = r] /\ handle'[h] = r
    BY <1>2 DEF RemoveTemp, PutFailed
  <2>3. r \in HandleStates /\ r.pc = "idle" /\ r.used = handle[h].used /\ r.exact = handle[h].exact
    BY <1>2, <2>1 DEF HandleStates
  <2> HIDE DEF r
  <2> QED
    BY <2>2, <2>3
<1> HIDE DEF r
<1>4. PICK part : /\ DOMAIN part \subseteq DOMAIN tmp /\ \A k \in DOMAIN part : part[k] = tmp[k]
                  /\ tmp' = Released(h, part)
  <2>1. CASE tmp' = Released(h, Without(tmp, {Temp(h)}))
    <3>1. /\ DOMAIN Without(tmp, {Temp(h)}) \subseteq DOMAIN tmp
          /\ \A k \in DOMAIN Without(tmp, {Temp(h)}) : Without(tmp, {Temp(h)})[k] = tmp[k]
      BY DEF Without
    <3> QED
      BY <2>1, <3>1
  <2>2. CASE tmp' = Released(h, tmp)
    BY <2>2
  <2> QED
    BY <2>1, <2>2 DEF RemoveTemp
<1>5. /\ StageInv' /\ DOMAIN objects' = DOMAIN objects
      /\ \A id \in DOMAIN objects : /\ objects'[id] \in Files /\ objects'[id].of = objects[id].of
                                    /\ objects'[id].len = objects[id].len
      /\ objects = Empty => objects' = Empty
      /\ DOMAIN tmp' \subseteq Objects \X Nat /\ \A name \in DOMAIN tmp' : tmp'[name] \in Files
  BY <1>1, <1>3, <1>4, ReleasedStage
<1>6. r.pc \notin Putting
  BY <1>3 DEF Putting
<1> QED
  BY <1>1, <1>3, <1>5, <1>6, FilesMove

LEMMA CrashKeeps ==
  ASSUME OneWriter, IInv, NEW h \in Handles, Crash(h)
  PROVE  IInv'
<1>1. /\ UNCHANGED <<version, dirs, acked>> /\ handle' = [handle EXCEPT ![h] = Closed]
      /\ objects' = Released(h, objects) /\ tmp' = Released(h, tmp)
  BY DEF Crash, Rest
<1>2. Closed \in HandleStates /\ Closed.pc = "closed" /\ "closed" \notin Putting
  BY ClosedIsState DEF Closed, Putting
<1>3. handle'[h] = Closed
  BY <1>1 DEF IInv, Types
<1>4. /\ StageInv' /\ DOMAIN objects' = DOMAIN objects
      /\ \A id \in DOMAIN objects : /\ objects'[id] \in Files /\ objects'[id].of = objects[id].of
                                    /\ objects'[id].len = objects[id].len
      /\ objects = Empty => objects' = Empty
      /\ DOMAIN tmp' \subseteq Objects \X Nat /\ \A name \in DOMAIN tmp' : tmp'[name] \in Files
  BY <1>1, <1>2, <1>3, ReleasedStage
<1> QED
  BY <1>1, <1>2, <1>4, FilesMove
\* Damage from outside only takes bytes away, and nobody counts on its object.
LEMMA DamageKeeps ==
  ASSUME IInv, NEW id \in Objects, Damage(id)
  PROVE  IInv'
<1>1. /\ version # "2" /\ id \in DOMAIN objects /\ acked' = acked \ {id} /\ UNCHANGED <<version, dirs, tmp>>
  BY DEF Damage
<1>2. \A k \in DOMAIN objects : objects[k] \in Files
  BY DEF IInv, Types
<1>3. PICK len \in 0..objects[id].len : objects' = [objects EXCEPT ![id].of = Damaged, ![id].len = len]
  BY DEF Damage
<1>4. /\ DOMAIN objects' = DOMAIN objects
      /\ \A k \in DOMAIN objects : k # id => objects'[k] = objects[k]
      /\ objects'[id] = [objects[id] EXCEPT !.of = Damaged, !.len = len]
  BY <1>1, <1>3
<1>5. /\ objects'[id] \in Files /\ objects'[id].of = Damaged /\ objects'[id].writer = objects[id].writer
      /\ objects'[id].len \in Nat /\ objects'[id].len <= objects[id].len
  <2>1. objects[id] \in Files /\ objects[id].len \in Nat
    BY <1>1, <1>2 DEF Files
  <2>2. objects'[id] = [writer |-> objects[id].writer, of |-> Damaged, len |-> len]
    BY <1>4, <2>1 DEF Files
  <2>3. len \in Nat /\ len <= objects[id].len /\ objects[id].writer \in Handles \cup {NoWriter}
    BY <2>1 DEF Files
  <2> QED
    BY <2>2, <2>3 DEF Files
<1>6. \A k \in DOMAIN objects' :
        objects'[k] \in Files /\ objects'[k].len \in Nat /\ objects'[k].len <= objects[k].len
  <2> SUFFICES ASSUME NEW k \in DOMAIN objects
               PROVE  objects'[k] \in Files /\ objects'[k].len \in Nat /\ objects'[k].len <= objects[k].len
    BY <1>4
  <2>1. CASE k = id
    BY <1>5, <2>1
  <2>2. CASE k # id
    BY <1>2, <1>4, <2>2 DEF Files
  <2> QED
    BY <2>1, <2>2
<1>7. \A h \in Handles :
        /\ handle'[h].pc = handle[h].pc /\ handle'[h] \in HandleStates
        /\ ~ At(h, "closed") =>
             /\ handle'[h].used = handle[h].used /\ handle'[h].id = handle[h].id
             /\ handle'[h].next = handle[h].next /\ handle'[h].total = handle[h].total
             /\ ~ handle'[h].exact /\ ~ handle'[h].recounted
  <2> SUFFICES ASSUME NEW h \in Handles
               PROVE  /\ handle'[h].pc = handle[h].pc /\ handle'[h] \in HandleStates
                      /\ ~ At(h, "closed") =>
                           /\ handle'[h].used = handle[h].used /\ handle'[h].id = handle[h].id
                           /\ handle'[h].next = handle[h].next /\ handle'[h].total = handle[h].total
                           /\ ~ handle'[h].exact /\ ~ handle'[h].recounted
    BY Zenon
  <2>1. handle[h] \in HandleStates
    BY DEF IInv, Types
  <2>2. CASE At(h, "closed")
    <3>1. handle'[h] = Closed
      BY <2>2 DEF Damage
    <3> QED
      BY <2>2, <3>1, ClosedIsState DEF At, Closed
  <2>3. CASE ~ At(h, "closed")
    <3>1. handle'[h] = [handle[h] EXCEPT !.exact = FALSE, !.recounted = FALSE]
      BY <2>3 DEF Damage
    <3> QED
      BY <2>1, <3>1 DEF HandleStates
  <2> QED
    BY <2>2, <2>3
<1>8. Sized(objects) /\ Sized(objects')
  BY <1>4, <1>6, ObjectsSized DEF IInv, Sized
<1>9. Types'
  <2>1. handle' \in [Handles -> HandleStates]
    <3>1. DOMAIN handle' = Handles /\ handle' = [h \in Handles |-> handle'[h]]
      BY DEF Damage
    <3> QED
      BY <1>7, <3>1
  <2> QED
    BY <1>1, <1>4, <1>6, <2>1 DEF IInv, Types
<1>10. VersionInv'
  <2>1. objects # Empty
    BY <1>1 DEF Empty
  <2>2. version \notin {"absent", "torn"}
    BY <2>1 DEF IInv, VersionInv
  <2> QED
    BY <1>1, <1>7, <2>2 DEF IInv, VersionInv, At
<1>11. StageInv'
  <2> SUFFICES ASSUME NEW h \in Handles
               PROVE  /\ \A k \in DOMAIN objects' : objects'[k].writer # h
                      /\ \A name \in DOMAIN tmp' :
                           tmp'[name].writer = h => handle'[h].pc \in {"write", "rename", "remove"} /\ name = Temp(h)'
                      /\ handle'[h].pc \in Putting => handle'[h].id \in Objects
                      /\ At(h, "write")' /\ Temp(h)' \in DOMAIN tmp' =>
                           tmp'[Temp(h)'].writer = h /\ tmp'[Temp(h)'].of = handle'[h].id
                      /\ At(h, "rename")' /\ Temp(h)' \in DOMAIN tmp' => Matches(handle'[h].id, tmp'[Temp(h)'])
    BY Zenon DEF StageInv
  <2>1. \A k \in DOMAIN objects' : objects'[k].writer # h
    BY <1>4, <1>5 DEF IInv, StageInv
  <2>2. CASE At(h, "closed")
    <3>1. handle'[h].pc = "closed" /\ \A name \in DOMAIN tmp : tmp[name].writer # h
      BY <1>7, <2>2, NothingOpen DEF At
    <3> QED
      BY <1>1, <2>1, <3>1 DEF At, Putting
  <2>3. CASE ~ At(h, "closed")
    <3>1. Temp(h)' = Temp(h) /\ handle'[h].pc = handle[h].pc /\ handle'[h].id = handle[h].id
      BY <1>7, <2>3 DEF Temp
    <3> QED
      BY <1>1, <2>1, <3>1 DEF IInv, StageInv, At
  <2> QED
    BY <2>2, <2>3
<1>12. UsageInv'
  <2>1. Bytes(objects') <= Bytes(objects) /\ Bytes(objects') \in Nat /\ Bytes(objects) \in Nat
    BY <1>4, <1>6, <1>8, BytesLess, BytesFinite
  <2>2. Bytes(objects') <= Quota
    BY <1>1, <2>1, StateAssumption DEF IInv, UsageInv
  <2>3. ASSUME NEW h \in Handles, ~ At(h, "closed")
        PROVE  Bytes(objects') <= handle'[h].used
    <3>1. handle'[h].used = handle[h].used /\ handle[h].used \in Nat
      BY <1>7, <2>3, StateAssumption DEF IInv, Types, HandleStates
    <3> QED
      BY <2>1, <2>3, <3>1 DEF IInv, UsageInv
  <2>4. ASSUME NEW h \in Handles, handle[h].pc \in Putting
        PROVE  Others(h)' + Size[handle'[h].id] <= handle'[h].total
    <3>1. ~ At(h, "closed") /\ handle[h].id \in Objects
      BY <2>4 DEF At, Putting, IInv, StageInv
    <3>2. handle'[h].id = handle[h].id /\ handle'[h].total = handle[h].total
      BY <1>7, <3>1
    <3>3. Others(h)' <= Others(h) /\ Others(h)' \in Nat /\ Others(h) \in Nat
      <4> DEFINE old == Without(objects, {handle[h].id})
                 new == Without(objects', {handle[h].id})
      <4>1. /\ DOMAIN new = DOMAIN old /\ DOMAIN old \subseteq DOMAIN objects
            /\ \A k \in DOMAIN old : old[k] = objects[k] /\ new[k] = objects'[k]
        BY <1>4 DEF Without
      <4>2. \A k \in DOMAIN old : old[k].len \in Nat /\ new[k].len \in Nat /\ new[k].len <= old[k].len
        BY <1>4, <1>6, <1>8, <4>1 DEF Sized
      <4>3. Others(h)' = Bytes(new) /\ Others(h) = Bytes(old)
        BY <3>2 DEF Others
      <4> HIDE DEF old, new
      <4>4. Sized(old)
        BY <1>8, <4>1, <4>2, FS_Subset DEF Sized
      <4>5. Sized(new) /\ Bytes(new) <= Bytes(old)
        BY <4>1, <4>2, <4>4, BytesLess
      <4> QED
        BY <4>3, <4>4, <4>5, BytesFinite
    <3>4. Size[handle[h].id] \in Nat /\ handle[h].total \in Nat
      BY <3>1, StateAssumption DEF IInv, Types, HandleStates
    <3>5. Others(h) + Size[handle[h].id] <= handle[h].total
      BY <2>4 DEF IInv, UsageInv
    <3> QED
      BY <3>2, <3>3, <3>4, <3>5
  <2>5. \A h \in Handles : /\ handle'[h].pc = handle[h].pc
                           /\ ~ At(h, "closed") => ~ handle'[h].exact /\ ~ handle'[h].recounted
    BY <1>7, Zenon
  <2> QED
    BY <2>2, <2>3, <2>4, <2>5, Zenon DEF UsageInv, At, Putting
<1>13. NoPartialObject'
  BY <1>4, <1>5 DEF IInv, NoPartialObject, Matches
<1>14. AckedObjectsStay'
  BY <1>1, <1>4 DEF IInv, AckedObjectsStay, Matches
<1> QED
  BY <1>9, <1>10, <1>11, <1>12, <1>13, <1>14 DEF IInv
LEMMA NextPreserves ==
  ASSUME OneWriter, IInv, [Next]_vars
  PROVE  IInv'
<1>1. CASE UNCHANGED vars
  <2>1. UNCHANGED <<version, dirs, objects, tmp, handle, acked>>
    BY <1>1 DEF vars, disk
  <2>2. Types' /\ VersionInv'
    BY <2>1 DEF IInv, Types, VersionInv, At
  <2>3. StageInv' /\ UsageInv'
    BY <2>1, Zenon DEF IInv, StageInv, UsageInv, Others, Temp, At, Matches
  <2>4. NoPartialObject' /\ AckedObjectsStay'
    BY <2>1 DEF IInv, NoPartialObject, AckedObjectsStay, Matches
  <2> QED
    BY <2>2, <2>3, <2>4 DEF IInv
<1>2. ASSUME NEW h \in Handles,
             \/ Open(h) \/ OpenFails(h) \/ WriteVersion(h) \/ CreateDirs(h) \/ Clean(h) \/ Close(h)
             \/ Create(h) \/ Write(h) \/ Rename(h) \/ RemoveTemp(h) \/ Crash(h)
             \/ \E id \in Objects : Put(h, id)
      PROVE  IInv'
  BY <1>2, OpenKeeps, CloseKeeps, WriteVersionKeeps, CreateDirsKeeps, CleanKeeps, CreateKeeps, WriteKeeps,
     RenameKeeps, RemoveTempKeeps, CrashKeeps, PutKeeps
<1>3. ASSUME NEW id \in Objects, Damage(id)
      PROVE  IInv'
  BY <1>3, DamageKeeps
<1> QED
  BY <1>1, <1>2, <1>3 DEF Next

(***************************************************************************)
(* What follows                                                            *)
(***************************************************************************)
\* The invariant holds of every behaviour of one writer, whatever its objects, the
\* quota, the crashes, the failed system calls and the damage.
THEOREM Invariant == ASSUME OneWriter PROVE Spec => []IInv
<1>1. Init => IInv
  BY InitEstablishes
<1>2. IInv /\ [Next]_vars => IInv'
  BY NextPreserves
<1> QED
  BY <1>1, <1>2, PTL DEF Spec

\* FileStateStore keeps its state within its types: a file is written by a handle
\* or by nobody, and the usage of a handle stays within the quota (put refuses what
\* exceeds it before anything is staged).
THEOREM TypeCorrect == ASSUME OneWriter PROVE Spec => []TypeOK
<1>1. IInv => TypeOK
  BY DEF IInv, Types, TypeOK, HandleStates, Pcs, Opening, Putting
<1> QED
  BY <1>1, Invariant, PTL

\* Durable state: what put wrote is whole and what it acknowledged stays, a store
\* that a crash tore holds nothing, and no put takes a namespace over its quota,
\* whatever was damaged behind the handle (FileStateStore::put, open).
THEOREM ObjectsAlwaysSurvive == ASSUME OneWriter PROVE Spec => []ObjectsSurvive
<1>1. IInv => TornNamespaceIsEmpty
  BY DEF IInv, VersionInv, TornNamespaceIsEmpty
<1>2. IInv => QuotaKept
  BY Zenon DEF IInv, UsageInv, QuotaKept, At
<1>3. IInv => ObjectsSurvive
  BY <1>1, <1>2 DEF IInv, ObjectsSurvive
<1> QED
  BY <1>3, Invariant, PTL

(***************************************************************************)
(* Repair                                                                  *)
(***************************************************************************)
OneMaintainer == (\A l, m \in Maintainers : l = m) /\ MaxApplies \in Nat

Untouched == {"stage", "write", "look", "move"}
Moved == {"install", "restore", "create", "put back"}
Installed == {"validate", "commit", "rollback"}
Places == {"idle", "reconstruct", "compare"} \cup Window

Processes == [pc : Places, snap : Contents \cup {Torn}, shown : Contents \cup {Torn},
              hasBackup : BOOLEAN, n : 0..MaxApplies]

\* The staged file is whole before it is renamed; an apply has a backup once it has
\* moved the target away, and the names of its successors are free.
ApplyOf(m) ==
  /\ proc[m].pc \in {"look", "move", "install", "create"} => staged[This(m)] = Replacement[m]
  /\ proc[m].pc \in Untouched \cup {"reconstruct", "compare", "create"} => ~ proc[m].hasBackup
  /\ proc[m].pc \in {"install", "restore", "commit", "put back"} => proc[m].hasBackup
  /\ \A k \in 0..MaxApplies : k > proc[m].n => backup[<<m, k>>] = Absent
  /\ proc[m].pc \in {"reconstruct", "compare"} \cup Untouched => backup[This(m)] = Absent

BackedUp == known # Absent => \E a \in Applies : backup[a] = known

\* What is at the target, and where what was known is
TargetOf(m) ==
  /\ proc[m].pc \in Untouched => target = proc[m].snap
  /\ proc[m].pc \in Moved => target = Absent
  /\ proc[m].pc \in Installed => target = Replacement[m]
  /\ proc[m].pc \in Moved \cup {"validate", "rollback"} => BackedUp
  /\ proc[m].pc = "commit" => known = Replacement[m]
  /\ proc[m].pc \in {"create", "validate", "rollback"} /\ ~ proc[m].hasBackup => proc[m].snap = Absent
  /\ proc[m].pc \in Moved \cup {"validate", "rollback"} /\ proc[m].hasBackup => backup[This(m)] = proc[m].snap

RepairInv ==
  /\ RepairTypeOK
  /\ \A m \in Maintainers : ApplyOf(m) /\ (~ raced => TargetOf(m))
  /\ RepairIsHonest

LEMMA RepairInitEstablishes == ASSUME OneMaintainer, RepairInit PROVE RepairInv
<1>1. \A m \in Maintainers : proc[m].pc = "idle"
  BY DEF RepairInit
<1>2. RepairTypeOK
  BY DEF RepairInit, RepairTypeOK, Contents, OneMaintainer
<1>3. \A m \in Maintainers : ApplyOf(m) /\ (~ raced => TargetOf(m))
  <2>1. \A a \in Applies : backup[a] = Absent
    BY DEF RepairInit
  <2> QED
    BY <1>1, <2>1 DEF ApplyOf, TargetOf, Untouched, Moved, Installed, Applies
<1>4. RepairIsHonest
  BY DEF RepairInit, RepairIsHonest, KnownSurvives, OutcomeAgrees
<1> QED
  BY <1>2, <1>3, <1>4 DEF RepairInv

\* The state of the one maintainer is the whole of proc.
LEMMA Assembled ==
  ASSUME OneMaintainer, NEW m \in Maintainers,
         RepairTypeOK', ApplyOf(m)', ~ raced' => TargetOf(m)', KnownSurvives', OutcomeAgrees'
  PROVE  RepairInv'
<1>1. \A l \in Maintainers : l = m
  BY DEF OneMaintainer
<1> QED
  BY <1>1 DEF RepairInv, RepairIsHonest

\* What there is to know before a step
LEMMA Before ==
  ASSUME RepairInv, NEW m \in Maintainers
  PROVE  /\ RepairTypeOK /\ ApplyOf(m) /\ (~ raced => TargetOf(m)) /\ KnownSurvives /\ OutcomeAgrees
         /\ proc \in [Maintainers -> Processes] /\ proc[m] \in Processes
         /\ This(m) \in Applies
<1>1. proc \in [Maintainers -> Processes]
  BY DEF RepairInv, RepairTypeOK, Processes, Places
<1>2. proc[m] \in Processes
  BY <1>1
<1>3. This(m) \in Applies
  BY <1>2 DEF This, Applies, Processes
<1> QED
  BY <1>1, <1>2, <1>3 DEF RepairInv, RepairIsHonest

\* Going from one place to another
LEMMA GoesToMoves ==
  ASSUME RepairInv, NEW m \in Maintainers, NEW pc \in Places, GoesTo(m, pc)
  PROVE  /\ proc' \in [Maintainers -> Processes] /\ This(m)' = This(m)
         /\ proc'[m].pc = pc /\ proc'[m].snap = proc[m].snap
         /\ proc'[m].hasBackup = proc[m].hasBackup /\ proc'[m].n = proc[m].n
<1>1. proc \in [Maintainers -> Processes] /\ proc[m] \in Processes
  BY Before
<1>2. proc' = [proc EXCEPT ![m] = [proc[m] EXCEPT !.pc = pc]] /\ [proc[m] EXCEPT !.pc = pc] \in Processes
  BY <1>1 DEF GoesTo, Processes
<1>3. proc'[m] = [proc[m] EXCEPT !.pc = pc] /\ proc' \in [Maintainers -> Processes]
  BY <1>1, <1>2
<1>4. proc'[m].pc = pc /\ proc'[m].snap = proc[m].snap
      /\ proc'[m].hasBackup = proc[m].hasBackup /\ proc'[m].n = proc[m].n
  BY <1>1, <1>3 DEF Processes
<1> QED
  BY <1>3, <1>4 DEF This

\* A step that leaves the files and what is known alone and goes where nothing
\* is claimed of the target
LEMMA LeavesFiles ==
  ASSUME OneMaintainer, RepairInv, NEW m \in Maintainers, UNCHANGED <<repairFiles, known, raced>>,
         proc' \in [Maintainers -> Processes], OutcomeAgrees',
         \/ proc'[m].n = proc[m].n /\ proc'[m].pc \in {"idle", "cleanup"}
         \/ /\ proc'[m].pc \in {"reconstruct", "compare"} /\ ~ proc'[m].hasBackup
            /\ \/ proc[m].pc = "reconstruct" /\ proc'[m].n = proc[m].n
               \/ proc'[m].n = proc[m].n + 1
  PROVE  RepairInv'
<1>1. /\ RepairTypeOK /\ ApplyOf(m) /\ (~ raced => TargetOf(m)) /\ KnownSurvives /\ OutcomeAgrees
      /\ proc \in [Maintainers -> Processes] /\ proc[m] \in Processes
  BY Before
<1>2. RepairTypeOK'
  BY <1>1 DEF RepairTypeOK, repairFiles, Processes, Places
<1>3. ApplyOf(m)'
  <2>1. proc[m].n \in Nat /\ proc'[m].n \in 0..MaxApplies /\ MaxApplies \in Nat
    BY <1>1 DEF Processes, OneMaintainer
  <2>2. backup' = backup /\ proc'[m].n \in Nat /\ proc[m].n <= proc'[m].n
    BY <2>1 DEF repairFiles
  <2>3. \A k \in 0..MaxApplies : k > proc[m].n => backup[<<m, k>>] = Absent
    BY <1>1 DEF ApplyOf
  <2>4. \A k \in 0..MaxApplies : k > proc'[m].n => backup'[<<m, k>>] = Absent
    BY <2>1, <2>2, <2>3
  <2>5. ASSUME proc'[m].pc \in {"reconstruct", "compare"}
        PROVE  backup'[This(m)'] = Absent
    <3>1. CASE proc[m].pc = "reconstruct" /\ proc'[m].n = proc[m].n
      BY <1>1, <2>2, <3>1 DEF ApplyOf, This
    <3>2. CASE proc'[m].n = proc[m].n + 1
      <4>1. backup[<<m, proc'[m].n>>] = Absent
        BY <2>1, <2>3, <3>2
      <4> QED
        BY <2>2, <4>1 DEF This
    <3> QED
      BY <2>5, <3>1, <3>2
  <2> QED
    BY <2>4, <2>5 DEF ApplyOf, Untouched
<1>4. TargetOf(m)'
  BY DEF TargetOf, Untouched, Moved, Installed
<1>5. KnownSurvives'
  BY <1>1 DEF KnownSurvives, repairFiles
<1> QED
  BY <1>2, <1>3, <1>4, <1>5, Assembled

LEMMA ProposeKeeps ==
  ASSUME OneMaintainer, RepairInv, NEW m \in Maintainers, Propose(m)
  PROVE  RepairInv'
<1> DEFINE r == [proc[m] EXCEPT !.shown = target, !.snap = target]
<1>1. RepairTypeOK /\ OutcomeAgrees /\ proc \in [Maintainers -> Processes] /\ proc[m] \in Processes
  BY Before
<1>2. proc' = [proc EXCEPT ![m] = r] /\ proc[m].pc = "idle" /\ UNCHANGED <<repairFiles, known, raced, outcome>>
  BY <1>1 DEF Propose, InStep, Processes
<1>3. r \in Processes /\ r.pc = "idle" /\ r.n = proc[m].n
  BY <1>1, <1>2 DEF Processes, RepairTypeOK
<1>4. proc' \in [Maintainers -> Processes] /\ proc'[m] = r
  BY <1>1, <1>2, <1>3
<1>5. OutcomeAgrees'
  BY <1>1, <1>2 DEF OutcomeAgrees
<1> HIDE DEF r
<1> QED
  BY <1>2, <1>3, <1>4, <1>5, LeavesFiles

LEMMA ApplyKeeps ==
  ASSUME OneMaintainer, RepairInv, NEW m \in Maintainers, Apply(m)
  PROVE  RepairInv'
<1>1. RepairTypeOK /\ OutcomeAgrees /\ proc \in [Maintainers -> Processes] /\ proc[m] \in Processes
  BY Before
<1>2. PICK pc \in {"reconstruct", "compare"} :
        proc' = [proc EXCEPT ![m].pc = pc, ![m].n = @ + 1, ![m].hasBackup = FALSE]
  BY DEF Apply
<1> DEFINE r == [proc[m] EXCEPT !.pc = pc, !.n = @ + 1, !.hasBackup = FALSE]
<1>3. proc' = [proc EXCEPT ![m] = r] /\ UNCHANGED <<repairFiles, known, raced, outcome>>
  BY <1>1, <1>2 DEF Apply
<1>4. r \in Processes /\ r.pc = pc /\ r.n = proc[m].n + 1 /\ r.hasBackup = FALSE
  <2>1. proc[m].n + 1 \in 0..MaxApplies /\ pc \in Places
    BY <1>1 DEF Apply, Processes, OneMaintainer, Places
  <2> QED
    BY <1>1, <2>1 DEF Processes
<1>5. proc' \in [Maintainers -> Processes] /\ proc'[m] = r
  BY <1>1, <1>3, <1>4
<1>6. OutcomeAgrees'
  BY <1>1, <1>3 DEF OutcomeAgrees
<1> HIDE DEF r
<1> QED
  BY <1>3, <1>4, <1>5, <1>6, LeavesFiles

\* apply returns early: its outcome is neither of the two that promise something.
LEMMA ReturnKeeps ==
  ASSUME OneMaintainer, RepairInv, NEW m \in Maintainers, NEW ret, NEW left, Return(m, ret, left),
         ret \notin {"ValidationPassed", "ValidationFailed"}, UNCHANGED <<repairFiles, known, raced>>
  PROVE  RepairInv'
<1>1. /\ proc' \in [Maintainers -> Processes] /\ proc'[m].pc = "idle" /\ proc'[m].n = proc[m].n
  BY GoesToMoves DEF Return, Places
<1>2. OutcomeAgrees'
  BY DEF Return, OutcomeAgrees
<1> QED
  BY <1>1, <1>2, LeavesFiles

LEMMA ReconstructKeeps ==
  ASSUME OneMaintainer, RepairInv, NEW m \in Maintainers, Reconstruct(m)
  PROVE  RepairInv'
<1>1. CASE Return(m, "DigestMismatch", target)
  BY <1>1, ReturnKeeps DEF Reconstruct
<1>2. CASE proc' = [proc EXCEPT ![m].pc = "compare", ![m].snap = target] /\ UNCHANGED outcome
  <2> DEFINE r == [proc[m] EXCEPT !.pc = "compare", !.snap = target]
  <2>1. RepairTypeOK /\ ApplyOf(m) /\ OutcomeAgrees /\ proc \in [Maintainers -> Processes] /\ proc[m] \in Processes
    BY Before
  <2>2. proc' = [proc EXCEPT ![m] = r] /\ proc[m].pc = "reconstruct" /\ UNCHANGED <<repairFiles, known, raced, outcome>>
    BY <1>2, <2>1 DEF Reconstruct, InStep
  <2>3. r \in Processes /\ r.pc = "compare" /\ r.n = proc[m].n /\ r.hasBackup = proc[m].hasBackup
    BY <2>1 DEF Processes, RepairTypeOK, Places
  <2>4. proc' \in [Maintainers -> Processes] /\ proc'[m] = r
    BY <2>1, <2>2, <2>3
  <2>5. OutcomeAgrees'
    BY <2>1, <2>2 DEF OutcomeAgrees
  <2>6. ~ proc[m].hasBackup
    BY <2>1, <2>2 DEF ApplyOf
  <2> HIDE DEF r
  <2> QED
    BY <2>2, <2>3, <2>4, <2>5, <2>6, LeavesFiles
<1> QED
  BY <1>1, <1>2 DEF Reconstruct
\* A failed system call before the target is touched: on to the cleanup
LEMMA FailsOver ==
  ASSUME OneMaintainer, RepairInv, NEW m \in Maintainers, GoesTo(m, "cleanup"), UNCHANGED <<repairFiles, known, raced, outcome>>
  PROVE  RepairInv'
<1>1. proc' \in [Maintainers -> Processes] /\ proc'[m].pc = "cleanup" /\ proc'[m].n = proc[m].n
  BY GoesToMoves DEF Places, Window
<1>2. OutcomeAgrees'
  BY Before DEF OutcomeAgrees
<1> QED
  BY <1>1, <1>2, LeavesFiles

LEMMA CompareKeeps ==
  ASSUME OneMaintainer, RepairInv, NEW m \in Maintainers, Compare(m)
  PROVE  RepairInv'
<1>1. /\ RepairTypeOK /\ ApplyOf(m) /\ (~ raced => TargetOf(m)) /\ KnownSurvives /\ OutcomeAgrees
      /\ proc \in [Maintainers -> Processes] /\ proc[m] \in Processes /\ This(m) \in Applies
  BY Before
<1>2. proc[m].pc = "compare" /\ UNCHANGED <<repairFiles, known, raced>>
  BY DEF Compare, InStep
<1>3. CASE target = proc[m].snap /\ GoesTo(m, "stage") /\ UNCHANGED outcome
  <2>1. /\ proc' \in [Maintainers -> Processes] /\ This(m)' = This(m)
        /\ proc'[m].pc = "stage" /\ proc'[m].snap = proc[m].snap
        /\ proc'[m].hasBackup = proc[m].hasBackup /\ proc'[m].n = proc[m].n
    BY <1>3, GoesToMoves DEF Places, Window
  <2>2. RepairTypeOK' /\ KnownSurvives' /\ OutcomeAgrees'
    BY <1>1, <1>2, <1>3, <2>1 DEF RepairTypeOK, repairFiles, Processes, Places, KnownSurvives, OutcomeAgrees
  <2>3. ApplyOf(m)'
    BY <1>1, <1>2, <2>1 DEF ApplyOf, Untouched, repairFiles
  <2>4. TargetOf(m)'
    BY <1>2, <1>3, <2>1 DEF TargetOf, Untouched, Moved, Installed, repairFiles
  <2> QED
    BY <2>2, <2>3, <2>4, Assembled
<1>4. CASE Return(m, "StaleSource", target) \/ Return(m, "IoPartialWrite", target)
  BY <1>2, <1>4, ReturnKeeps
<1> QED
  BY <1>3, <1>4 DEF Compare

LEMMA StageKeeps ==
  ASSUME OneMaintainer, RepairInv, NEW m \in Maintainers, Stage(m)
  PROVE  RepairInv'
<1>1. /\ RepairTypeOK /\ ApplyOf(m) /\ (~ raced => TargetOf(m)) /\ KnownSurvives /\ OutcomeAgrees
      /\ proc \in [Maintainers -> Processes] /\ proc[m] \in Processes /\ This(m) \in Applies
  BY Before
<1>2. proc[m].pc = "stage" /\ UNCHANGED <<target, backup, known, raced, outcome>>
  BY DEF Stage, InStep
<1>3. CASE staged' = [staged EXCEPT ![This(m)] = Torn] /\ GoesTo(m, "write")
  <2>1. /\ proc' \in [Maintainers -> Processes] /\ This(m)' = This(m)
        /\ proc'[m].pc = "write" /\ proc'[m].snap = proc[m].snap
        /\ proc'[m].hasBackup = proc[m].hasBackup /\ proc'[m].n = proc[m].n
    BY <1>3, GoesToMoves DEF Places, Window
  <2>2. RepairTypeOK' /\ KnownSurvives' /\ OutcomeAgrees'
    BY <1>1, <1>2, <1>3, <2>1 DEF RepairTypeOK, Processes, Places, KnownSurvives, OutcomeAgrees
  <2>3. ApplyOf(m)'
    BY <1>1, <1>2, <2>1 DEF ApplyOf, Untouched
  <2>4. ~ raced' => TargetOf(m)'
    BY <1>1, <1>2, <2>1 DEF TargetOf, Untouched, Moved, Installed
  <2> QED
    BY <2>2, <2>3, <2>4, Assembled
<1>4. CASE GoesTo(m, "cleanup") /\ UNCHANGED staged
  BY <1>2, <1>4, FailsOver DEF repairFiles
<1> QED
  BY <1>3, <1>4 DEF Stage

LEMMA WriteStagedKeeps ==
  ASSUME OneMaintainer, RepairInv, NEW m \in Maintainers, WriteStaged(m)
  PROVE  RepairInv'
<1>1. /\ RepairTypeOK /\ ApplyOf(m) /\ (~ raced => TargetOf(m)) /\ KnownSurvives /\ OutcomeAgrees
      /\ proc \in [Maintainers -> Processes] /\ proc[m] \in Processes /\ This(m) \in Applies
  BY Before
<1>2. proc[m].pc = "write" /\ UNCHANGED <<target, backup, known, raced, outcome>>
  BY DEF WriteStaged, InStep
<1>3. CASE staged' = [staged EXCEPT ![This(m)] = Replacement[m]] /\ GoesTo(m, "look")
  <2>1. /\ proc' \in [Maintainers -> Processes] /\ This(m)' = This(m)
        /\ proc'[m].pc = "look" /\ proc'[m].snap = proc[m].snap
        /\ proc'[m].hasBackup = proc[m].hasBackup /\ proc'[m].n = proc[m].n
    BY <1>3, GoesToMoves DEF Places, Window
  <2>2. RepairTypeOK' /\ KnownSurvives' /\ OutcomeAgrees'
    <3>1. Replacement[m] \in Contents
      BY DEF Contents
    <3> QED
      BY <1>1, <1>2, <1>3, <2>1, <3>1 DEF RepairTypeOK, Processes, Places, KnownSurvives, OutcomeAgrees
  <2>3. ApplyOf(m)'
    <3>1. staged'[This(m)'] = Replacement[m]
      BY <1>1, <1>3, <2>1 DEF RepairTypeOK
    <3> QED
      BY <1>1, <1>2, <2>1, <3>1 DEF ApplyOf, Untouched
  <2>4. ~ raced' => TargetOf(m)'
    BY <1>1, <1>2, <2>1 DEF TargetOf, Untouched, Moved, Installed
  <2> QED
    BY <2>2, <2>3, <2>4, Assembled
<1>4. CASE GoesTo(m, "cleanup") /\ UNCHANGED staged
  BY <1>2, <1>4, FailsOver DEF repairFiles
<1> QED
  BY <1>3, <1>4 DEF WriteStaged

LEMMA LookKeeps ==
  ASSUME OneMaintainer, RepairInv, NEW m \in Maintainers, Look(m)
  PROVE  RepairInv'
<1>1. /\ RepairTypeOK /\ ApplyOf(m) /\ (~ raced => TargetOf(m)) /\ KnownSurvives /\ OutcomeAgrees
      /\ proc \in [Maintainers -> Processes] /\ proc[m] \in Processes /\ This(m) \in Applies
  BY Before
<1>2. proc[m].pc = "look" /\ UNCHANGED <<repairFiles, known, raced, outcome>>
  BY DEF Look, InStep
<1>3. CASE GoesTo(m, IF target = Absent THEN "create" ELSE "move")
  <2> DEFINE pc == IF target = Absent THEN "create" ELSE "move"
  <2>1. /\ proc' \in [Maintainers -> Processes] /\ This(m)' = This(m)
        /\ proc'[m].pc = pc /\ proc'[m].snap = proc[m].snap
        /\ proc'[m].hasBackup = proc[m].hasBackup /\ proc'[m].n = proc[m].n
    BY <1>3, GoesToMoves DEF Places, Window
  <2>2. RepairTypeOK' /\ KnownSurvives' /\ OutcomeAgrees'
    BY <1>1, <1>2, <2>1 DEF RepairTypeOK, repairFiles, Processes, Places, KnownSurvives, OutcomeAgrees
  <2>3. ApplyOf(m)'
    BY <1>1, <1>2, <2>1 DEF ApplyOf, Untouched, repairFiles
  <2>4. ~ raced' => TargetOf(m)'
    <3> SUFFICES ASSUME ~ raced' PROVE TargetOf(m)'
      OBVIOUS
    <3>1. target = proc[m].snap /\ ~ proc[m].hasBackup
      BY <1>1, <1>2 DEF TargetOf, Untouched, ApplyOf
    <3>2. target = Absent => BackedUp'
      BY <1>1, <1>2 DEF KnownSurvives, BackedUp, repairFiles
    <3> QED
      BY <1>2, <2>1, <3>1, <3>2 DEF TargetOf, Untouched, Moved, Installed, repairFiles
  <2> QED
    BY <2>2, <2>3, <2>4, Assembled
<1>4. CASE GoesTo(m, "cleanup")
  BY <1>2, <1>4, FailsOver DEF repairFiles
<1> QED
  BY <1>3, <1>4 DEF Look

\* The first rename: what is moved to the backup is what was compared.
LEMMA MoveAwayKeeps ==
  ASSUME OneMaintainer, RepairInv, NEW m \in Maintainers, MoveAway(m)
  PROVE  RepairInv'
<1>1. /\ RepairTypeOK /\ ApplyOf(m) /\ (~ raced => TargetOf(m)) /\ KnownSurvives /\ OutcomeAgrees
      /\ proc \in [Maintainers -> Processes] /\ proc[m] \in Processes /\ This(m) \in Applies
  BY Before
<1>2. proc[m].pc = "move" /\ UNCHANGED <<staged, known, raced, outcome>>
  BY DEF MoveAway, InStep
<1>3. CASE /\ target # Absent /\ backup' = [backup EXCEPT ![This(m)] = target] /\ target' = Absent
           /\ proc' = [proc EXCEPT ![m].pc = "install", ![m].hasBackup = TRUE]
  <2>1. /\ proc' \in [Maintainers -> Processes] /\ This(m)' = This(m)
        /\ proc'[m].pc = "install" /\ proc'[m].snap = proc[m].snap
        /\ proc'[m].hasBackup = TRUE /\ proc'[m].n = proc[m].n
    <3> DEFINE r == [proc[m] EXCEPT !.pc = "install", !.hasBackup = TRUE]
    <3>1. proc' = [proc EXCEPT ![m] = r] /\ proc'[m] = r
      BY <1>1, <1>3
    <3>2. r \in Processes /\ r.pc = "install" /\ r.snap = proc[m].snap /\ r.hasBackup = TRUE /\ r.n = proc[m].n
      BY <1>1 DEF Processes, Places, Window
    <3> HIDE DEF r
    <3> QED
      BY <1>1, <3>1, <3>2 DEF This
  <2>2. backup'[This(m)] = target /\ \A a \in Applies : a # This(m) => backup'[a] = backup[a]
    BY <1>1, <1>3 DEF RepairTypeOK
  <2>3. known # Absent /\ ~ raced => BackedUp'
    BY <1>1, <1>2, <2>2 DEF KnownSurvives, BackedUp, ApplyOf, Untouched
  <2>4. RepairTypeOK' /\ OutcomeAgrees'
    <3>1. Absent \in Contents
      BY DEF Contents
    <3> QED
      BY <1>1, <1>2, <1>3, <2>1, <3>1 DEF RepairTypeOK, Processes, Places, OutcomeAgrees
  <2>5. KnownSurvives'
    BY <1>2, <2>3 DEF KnownSurvives, BackedUp
  <2>6. ApplyOf(m)'
    <3>1. \A k \in 0..MaxApplies : k > proc[m].n => backup'[<<m, k>>] = Absent
      <4> SUFFICES ASSUME NEW k \in 0..MaxApplies, k > proc[m].n PROVE backup'[<<m, k>>] = Absent
        OBVIOUS
      <4>1. proc[m].n \in Nat /\ k \in Nat
        BY <1>1 DEF Processes, OneMaintainer
      <4>2. k # proc[m].n
        BY <4>1
      <4>3. <<m, k>> \in Applies /\ <<m, k>> # This(m)
        BY <4>2 DEF Applies, This
      <4>4. backup[<<m, k>>] = Absent
        BY <1>1 DEF ApplyOf
      <4> QED
        BY <2>2, <4>3, <4>4
    <3> QED
      BY <1>1, <1>2, <2>1, <3>1 DEF ApplyOf, Untouched
  <2>7. ~ raced' => TargetOf(m)'
    <3> SUFFICES ASSUME ~ raced' PROVE TargetOf(m)'
      OBVIOUS
    <3>1. target = proc[m].snap /\ BackedUp'
      BY <1>1, <1>2, <2>3 DEF TargetOf, Untouched, BackedUp
    <3> QED
      BY <1>3, <2>1, <2>2, <3>1 DEF TargetOf, Untouched, Moved, Installed
  <2> QED
    BY <2>4, <2>5, <2>6, <2>7, Assembled
<1>4. CASE GoesTo(m, "cleanup") /\ UNCHANGED <<target, backup>>
  BY <1>2, <1>4, FailsOver DEF repairFiles
<1> QED
  BY <1>3, <1>4 DEF MoveAway

LEMMA InstallKeeps ==
  ASSUME OneMaintainer, RepairInv, NEW m \in Maintainers, Install(m)
  PROVE  RepairInv'
<1>1. /\ RepairTypeOK /\ ApplyOf(m) /\ (~ raced => TargetOf(m)) /\ KnownSurvives /\ OutcomeAgrees
      /\ proc \in [Maintainers -> Processes] /\ proc[m] \in Processes /\ This(m) \in Applies
  BY Before
<1>2. proc[m].pc \in {"install", "create"} /\ UNCHANGED <<backup, known, raced, outcome>>
  BY DEF Install, InStep
<1>3. CASE target' = staged[This(m)] /\ staged' = [staged EXCEPT ![This(m)] = Absent] /\ GoesTo(m, "validate")
  <2>1. /\ proc' \in [Maintainers -> Processes] /\ This(m)' = This(m)
        /\ proc'[m].pc = "validate" /\ proc'[m].snap = proc[m].snap
        /\ proc'[m].hasBackup = proc[m].hasBackup /\ proc'[m].n = proc[m].n
    BY <1>3, GoesToMoves DEF Places, Window
  <2>2. target' = Replacement[m] /\ Replacement[m] \in Contents /\ Absent \in Contents
    BY <1>1, <1>2, <1>3 DEF ApplyOf, Contents
  <2>3. RepairTypeOK' /\ OutcomeAgrees'
    BY <1>1, <1>2, <1>3, <2>1, <2>2 DEF RepairTypeOK, Processes, Places, OutcomeAgrees
  <2>4. ~ raced => BackedUp'
    BY <1>1, <1>2 DEF TargetOf, Moved, BackedUp
  <2>5. KnownSurvives'
    BY <1>2, <2>4 DEF KnownSurvives, BackedUp
  <2>6. ApplyOf(m)'
    BY <1>1, <1>2, <2>1 DEF ApplyOf, Untouched
  <2>7. ~ raced' => TargetOf(m)'
    BY <1>1, <1>2, <2>1, <2>2, <2>4 DEF TargetOf, Untouched, Moved, Installed, ApplyOf
  <2> QED
    BY <2>3, <2>5, <2>6, <2>7, Assembled
<1>4. CASE GoesTo(m, IF InStep(m, "install") THEN "restore" ELSE "cleanup") /\ UNCHANGED <<target, staged>>
  <2>1. CASE GoesTo(m, "cleanup")
    BY <1>2, <1>4, <2>1, FailsOver DEF repairFiles
  <2>2. CASE proc[m].pc = "install" /\ GoesTo(m, "restore")
    <3>1. /\ proc' \in [Maintainers -> Processes] /\ This(m)' = This(m)
          /\ proc'[m].pc = "restore" /\ proc'[m].snap = proc[m].snap
          /\ proc'[m].hasBackup = proc[m].hasBackup /\ proc'[m].n = proc[m].n
      BY <2>2, GoesToMoves DEF Places, Window
    <3>2. RepairTypeOK' /\ OutcomeAgrees' /\ KnownSurvives'
      BY <1>1, <1>2, <1>4, <3>1 DEF RepairTypeOK, Processes, Places, OutcomeAgrees, KnownSurvives
    <3>3. ApplyOf(m)'
      BY <1>1, <1>2, <2>2, <3>1 DEF ApplyOf, Untouched
    <3>4. ~ raced' => TargetOf(m)'
      BY <1>1, <1>2, <1>4, <2>2, <3>1 DEF TargetOf, Untouched, Moved, Installed, BackedUp
    <3> QED
      BY <3>2, <3>3, <3>4, Assembled
  <2> QED
    BY <1>4, <2>1, <2>2 DEF InStep
<1> QED
  BY <1>3, <1>4 DEF Install
\* The backup that is put back is the only one that a step of Restore or PutBack takes.
LEMMA BackupTaken ==
  ASSUME RepairInv, NEW m \in Maintainers, backup' = [backup EXCEPT ![This(m)] = Absent], UNCHANGED known,
         target' = backup[This(m)], proc'[m].n = proc[m].n
  PROVE  /\ backup' \in [Applies -> Contents] /\ target' \in Contents
         /\ \A k \in 0..MaxApplies : k > proc'[m].n => backup'[<<m, k>>] = Absent
         /\ BackedUp => (known' # Absent => target' = known' \/ \E a \in Applies : backup'[a] = known')
<1>1. /\ RepairTypeOK /\ ApplyOf(m) /\ (~ raced => TargetOf(m)) /\ KnownSurvives /\ OutcomeAgrees
      /\ proc \in [Maintainers -> Processes] /\ proc[m] \in Processes /\ This(m) \in Applies
  BY Before
<1>2. /\ backup'[This(m)] = Absent /\ \A a \in Applies : a # This(m) => backup'[a] = backup[a]
      /\ backup' \in [Applies -> Contents] /\ target' \in Contents
  BY <1>1 DEF RepairTypeOK, Contents
<1>3. ASSUME NEW k \in 0..MaxApplies, k > proc'[m].n
      PROVE  backup'[<<m, k>>] = Absent
  <2>1. backup[<<m, k>>] = Absent /\ <<m, k>> \in Applies
    BY <1>1, <1>3 DEF ApplyOf, Applies
  <2> QED
    BY <1>2, <2>1
<1>4. BackedUp => (known' # Absent => target' = known' \/ \E a \in Applies : backup'[a] = known')
  BY <1>1, <1>2 DEF BackedUp
<1> QED
  BY <1>2, <1>3, <1>4

LEMMA RestoreKeeps ==
  ASSUME OneMaintainer, RepairInv, NEW m \in Maintainers, Restore(m)
  PROVE  RepairInv'
<1>1. /\ RepairTypeOK /\ ApplyOf(m) /\ (~ raced => TargetOf(m)) /\ KnownSurvives /\ OutcomeAgrees
      /\ proc \in [Maintainers -> Processes] /\ proc[m] \in Processes /\ This(m) \in Applies
  BY Before
<1>2. proc[m].pc = "restore" /\ GoesTo(m, "cleanup") /\ UNCHANGED <<staged, known, raced, outcome>>
  BY DEF Restore, InStep
<1>3. CASE target' = backup[This(m)] /\ backup' = [backup EXCEPT ![This(m)] = Absent]
  <2>1. /\ proc' \in [Maintainers -> Processes] /\ This(m)' = This(m)
        /\ proc'[m].pc = "cleanup" /\ proc'[m].snap = proc[m].snap
        /\ proc'[m].hasBackup = proc[m].hasBackup /\ proc'[m].n = proc[m].n
    BY <1>2, GoesToMoves DEF Places, Window
  <2>2. /\ backup' \in [Applies -> Contents] /\ target' \in Contents
        /\ \A k \in 0..MaxApplies : k > proc'[m].n => backup'[<<m, k>>] = Absent
        /\ BackedUp => (known' # Absent => target' = known' \/ \E a \in Applies : backup'[a] = known')
    BY <1>2, <1>3, <2>1, BackupTaken
  <2>3. RepairTypeOK' /\ OutcomeAgrees'
    BY <1>1, <1>2, <2>1, <2>2 DEF RepairTypeOK, Processes, Places, OutcomeAgrees
  <2>4. KnownSurvives'
    BY <1>1, <1>2, <2>2 DEF KnownSurvives, TargetOf, Moved
  <2>5. ApplyOf(m)' /\ TargetOf(m)'
    BY <2>1, <2>2 DEF ApplyOf, TargetOf, Untouched, Moved, Installed
  <2> QED
    BY <2>3, <2>4, <2>5, Assembled
<1>4. CASE UNCHANGED <<target, backup>>
  BY <1>2, <1>4, FailsOver DEF repairFiles
<1> QED
  BY <1>3, <1>4 DEF Restore

LEMMA CleanupKeeps ==
  ASSUME OneMaintainer, RepairInv, NEW m \in Maintainers, Cleanup(m)
  PROVE  RepairInv'
<1>1. /\ RepairTypeOK /\ ApplyOf(m) /\ (~ raced => TargetOf(m)) /\ KnownSurvives /\ OutcomeAgrees
      /\ proc \in [Maintainers -> Processes] /\ proc[m] \in Processes /\ This(m) \in Applies
  BY Before
<1>2. /\ Return(m, "IoPartialWrite", target) /\ GoesTo(m, "idle") /\ UNCHANGED <<target, backup, known, raced>>
      /\ staged' = staged \/ staged' = [staged EXCEPT ![This(m)] = Absent]
  BY DEF Cleanup, Return
<1>3. /\ proc' \in [Maintainers -> Processes] /\ proc'[m].pc = "idle" /\ proc'[m].n = proc[m].n
  BY <1>2, GoesToMoves DEF Places
<1>4. RepairTypeOK'
  <2>1. staged' \in [Applies -> Contents \cup {Torn}]
    BY <1>1, <1>2 DEF RepairTypeOK, Contents
  <2> QED
    BY <1>1, <1>2, <1>3, <2>1 DEF RepairTypeOK, Processes, Places
<1>5. OutcomeAgrees' /\ KnownSurvives'
  BY <1>1, <1>2 DEF Return, OutcomeAgrees, KnownSurvives
<1>6. ApplyOf(m)' /\ TargetOf(m)'
  BY <1>1, <1>2, <1>3 DEF ApplyOf, TargetOf, Untouched, Moved, Installed
<1> QED
  BY <1>4, <1>5, <1>6, Assembled

\* The validator accepts what is at the target, and it is known from then on.
LEMMA ValidateKeeps ==
  ASSUME OneMaintainer, RepairInv, NEW m \in Maintainers, Validate(m)
  PROVE  RepairInv'
<1>1. /\ RepairTypeOK /\ ApplyOf(m) /\ (~ raced => TargetOf(m)) /\ KnownSurvives /\ OutcomeAgrees
      /\ proc \in [Maintainers -> Processes] /\ proc[m] \in Processes /\ This(m) \in Applies
  BY Before
<1>2. proc[m].pc = "validate" /\ UNCHANGED <<repairFiles, raced>> /\ (~ raced => target = Replacement[m])
  BY <1>1 DEF Validate, InStep, TargetOf, Installed
<1>3. CASE /\ known' = Replacement[m]
           /\ \/ proc[m].hasBackup /\ GoesTo(m, "commit") /\ UNCHANGED outcome
              \/ ~ proc[m].hasBackup /\ Return(m, "ValidationPassed", target)
  <2>1. PICK pc \in {"commit", "idle"} :
          /\ GoesTo(m, pc) /\ (pc = "commit" => proc[m].hasBackup /\ UNCHANGED outcome)
          /\ pc = "idle" => Return(m, "ValidationPassed", target)
    BY <1>3 DEF Return
  <2>2. /\ proc' \in [Maintainers -> Processes] /\ This(m)' = This(m)
        /\ proc'[m].pc = pc /\ proc'[m].snap = proc[m].snap
        /\ proc'[m].hasBackup = proc[m].hasBackup /\ proc'[m].n = proc[m].n
    BY <2>1, GoesToMoves DEF Places, Window
  <2>3. RepairTypeOK'
    BY <1>1, <1>2, <1>3, <2>2 DEF RepairTypeOK, repairFiles, Processes, Places, Contents
  <2>4. OutcomeAgrees'
    BY <1>1, <1>2, <2>1 DEF OutcomeAgrees, Return
  <2>5. KnownSurvives'
    BY <1>2, <1>3 DEF KnownSurvives, repairFiles
  <2>6. ApplyOf(m)'
    BY <1>1, <1>2, <2>1, <2>2 DEF ApplyOf, Untouched, repairFiles
  <2>7. ~ raced' => TargetOf(m)'
    BY <1>2, <1>3, <2>1, <2>2 DEF TargetOf, Untouched, Moved, Installed, repairFiles
  <2> QED
    BY <2>3, <2>4, <2>5, <2>6, <2>7, Assembled
<1>4. CASE GoesTo(m, "rollback") /\ UNCHANGED <<known, outcome>>
  <2>1. /\ proc' \in [Maintainers -> Processes] /\ This(m)' = This(m)
        /\ proc'[m].pc = "rollback" /\ proc'[m].snap = proc[m].snap
        /\ proc'[m].hasBackup = proc[m].hasBackup /\ proc'[m].n = proc[m].n
    BY <1>4, GoesToMoves DEF Places, Window
  <2>2. RepairTypeOK' /\ KnownSurvives' /\ OutcomeAgrees'
    BY <1>1, <1>2, <1>4, <2>1 DEF RepairTypeOK, repairFiles, Processes, Places, KnownSurvives, OutcomeAgrees
  <2>3. ApplyOf(m)'
    BY <1>1, <1>2, <2>1 DEF ApplyOf, Untouched, repairFiles
  <2>4. ~ raced' => TargetOf(m)'
    BY <1>1, <1>2, <1>4, <2>1 DEF TargetOf, Untouched, Moved, Installed, repairFiles, BackedUp
  <2> QED
    BY <2>2, <2>3, <2>4, Assembled
<1> QED
  BY <1>3, <1>4 DEF Validate

\* The backup is removed only when what it held is no longer what is known.
LEMMA CommitKeeps ==
  ASSUME OneMaintainer, RepairInv, NEW m \in Maintainers, Commit(m)
  PROVE  RepairInv'
<1>1. /\ RepairTypeOK /\ ApplyOf(m) /\ (~ raced => TargetOf(m)) /\ KnownSurvives /\ OutcomeAgrees
      /\ proc \in [Maintainers -> Processes] /\ proc[m] \in Processes /\ This(m) \in Applies
  BY Before
<1>2. proc[m].pc = "commit" /\ UNCHANGED <<target, staged, known, raced>>
  BY DEF Commit, InStep
<1>3. CASE backup' = [backup EXCEPT ![This(m)] = Absent] /\ Return(m, "ValidationPassed", target)
  <2>1. /\ proc' \in [Maintainers -> Processes] /\ proc'[m].pc = "idle" /\ proc'[m].n = proc[m].n
    BY <1>3, GoesToMoves DEF Places, Return
  <2>2. ~ raced => target = Replacement[m] /\ known = Replacement[m]
    BY <1>1, <1>2 DEF TargetOf, Installed
  <2>3. RepairTypeOK'
    <3>1. backup' \in [Applies -> Contents]
      BY <1>1, <1>3 DEF RepairTypeOK, Contents
    <3> QED
      BY <1>1, <1>2, <2>1, <3>1 DEF RepairTypeOK, Processes, Places
  <2>4. OutcomeAgrees' /\ KnownSurvives'
    BY <1>2, <1>3, <2>2 DEF OutcomeAgrees, KnownSurvives, Return
  <2>5. ApplyOf(m)' /\ TargetOf(m)'
    <3>1. \A k \in 0..MaxApplies : k > proc'[m].n => backup'[<<m, k>>] = Absent
      <4> SUFFICES ASSUME NEW k \in 0..MaxApplies, k > proc'[m].n PROVE backup'[<<m, k>>] = Absent
        OBVIOUS
      <4>1. backup[<<m, k>>] = Absent /\ <<m, k>> \in Applies
        BY <1>1, <2>1 DEF ApplyOf, Applies
      <4> QED
        BY <1>1, <1>3, <4>1 DEF RepairTypeOK
    <3> QED
      BY <2>1, <3>1 DEF ApplyOf, TargetOf, Untouched, Moved, Installed
  <2> QED
    BY <2>3, <2>4, <2>5, Assembled
<1>4. CASE Return(m, "IoPartialWrite", target) /\ UNCHANGED backup
  BY <1>2, <1>4, ReturnKeeps DEF repairFiles
<1> QED
  BY <1>3, <1>4 DEF Commit

LEMMA RollbackKeeps ==
  ASSUME OneMaintainer, RepairInv, NEW m \in Maintainers, Rollback(m)
  PROVE  RepairInv'
<1>1. /\ RepairTypeOK /\ ApplyOf(m) /\ (~ raced => TargetOf(m)) /\ KnownSurvives /\ OutcomeAgrees
      /\ proc \in [Maintainers -> Processes] /\ proc[m] \in Processes /\ This(m) \in Applies
  BY Before
<1>2. proc[m].pc = "rollback" /\ UNCHANGED <<staged, backup, known, raced>>
  BY DEF Rollback, InStep
<1>3. ASSUME target' = Absent, NEW pc \in {"put back", "idle"}, GoesTo(m, pc), OutcomeAgrees',
             pc = "put back" => proc[m].hasBackup
      PROVE  RepairInv'
  <2>1. /\ proc' \in [Maintainers -> Processes] /\ This(m)' = This(m)
        /\ proc'[m].pc = pc /\ proc'[m].snap = proc[m].snap
        /\ proc'[m].hasBackup = proc[m].hasBackup /\ proc'[m].n = proc[m].n
    BY <1>3, GoesToMoves DEF Places, Window
  <2>2. RepairTypeOK'
    BY <1>1, <1>2, <1>3, <2>1 DEF RepairTypeOK, Processes, Places, Contents
  <2>3. KnownSurvives' /\ (~ raced => BackedUp')
    BY <1>1, <1>2 DEF KnownSurvives, BackedUp, TargetOf
  <2>4. ApplyOf(m)'
    BY <1>1, <1>2, <1>3, <2>1 DEF ApplyOf, Untouched
  <2>5. ~ raced' => TargetOf(m)'
    BY <1>1, <1>2, <1>3, <2>1, <2>3 DEF TargetOf, Untouched, Moved, Installed
  <2> QED
    BY <1>3, <2>2, <2>3, <2>4, <2>5, Assembled
<1>4. CASE target' = Absent /\ proc[m].hasBackup /\ GoesTo(m, "put back") /\ UNCHANGED outcome
  <2>1. OutcomeAgrees'
    BY <1>1, <1>2, <1>4 DEF OutcomeAgrees
  <2> QED
    BY <1>3, <1>4, <2>1
<1>5. CASE target' = Absent /\ ~ proc[m].hasBackup /\ Return(m, "ValidationFailed", Absent)
  <2>1. OutcomeAgrees'
    BY <1>1, <1>2, <1>5 DEF OutcomeAgrees, Return, TargetOf
  <2> QED
    BY <1>3, <1>5, <2>1 DEF Return
<1>6. CASE Return(m, "IoPartialWrite", target) /\ UNCHANGED target
  BY <1>2, <1>6, ReturnKeeps DEF repairFiles
<1> QED
  BY <1>4, <1>5, <1>6 DEF Rollback

LEMMA PutBackKeeps ==
  ASSUME OneMaintainer, RepairInv, NEW m \in Maintainers, PutBack(m)
  PROVE  RepairInv'
<1>1. /\ RepairTypeOK /\ ApplyOf(m) /\ (~ raced => TargetOf(m)) /\ KnownSurvives /\ OutcomeAgrees
      /\ proc \in [Maintainers -> Processes] /\ proc[m] \in Processes /\ This(m) \in Applies
  BY Before
<1>2. proc[m].pc = "put back" /\ UNCHANGED <<staged, known, raced>>
  BY DEF PutBack, InStep
<1>3. CASE /\ target' = backup[This(m)] /\ backup' = [backup EXCEPT ![This(m)] = Absent]
           /\ Return(m, "ValidationFailed", backup[This(m)])
  <2>1. /\ proc' \in [Maintainers -> Processes] /\ proc'[m].pc = "idle" /\ proc'[m].n = proc[m].n
    BY <1>3, GoesToMoves DEF Places, Return
  <2>2. /\ backup' \in [Applies -> Contents] /\ target' \in Contents
        /\ \A k \in 0..MaxApplies : k > proc'[m].n => backup'[<<m, k>>] = Absent
        /\ BackedUp => (known' # Absent => target' = known' \/ \E a \in Applies : backup'[a] = known')
    BY <1>2, <1>3, <2>1, BackupTaken
  <2>3. RepairTypeOK'
    BY <1>1, <1>2, <2>1, <2>2 DEF RepairTypeOK, Processes, Places
  <2>4. OutcomeAgrees'
    BY <1>1, <1>2, <1>3 DEF OutcomeAgrees, Return, TargetOf, Moved, ApplyOf
  <2>5. KnownSurvives'
    BY <1>1, <1>2, <2>2 DEF KnownSurvives, TargetOf, Moved
  <2>6. ApplyOf(m)' /\ TargetOf(m)'
    BY <2>1, <2>2 DEF ApplyOf, TargetOf, Untouched, Moved, Installed
  <2> QED
    BY <2>3, <2>4, <2>5, <2>6, Assembled
<1>4. CASE Return(m, "IoPartialWrite", target) /\ UNCHANGED <<target, backup>>
  BY <1>2, <1>4, ReturnKeeps DEF repairFiles
<1> QED
  BY <1>3, <1>4 DEF PutBack

\* Wherever the process ends, what was known is where KnownSurvives says.
LEMMA CrashApplyKeeps ==
  ASSUME OneMaintainer, RepairInv, NEW m \in Maintainers, CrashApply(m)
  PROVE  RepairInv'
<1> DEFINE r == [proc[m] EXCEPT !.pc = "idle", !.snap = Torn]
<1>1. OutcomeAgrees /\ proc \in [Maintainers -> Processes] /\ proc[m] \in Processes
  BY Before
<1>2. proc' = [proc EXCEPT ![m] = r] /\ UNCHANGED <<repairFiles, known, raced, outcome>>
  BY <1>1 DEF CrashApply
<1>3. r \in Processes /\ r.pc = "idle" /\ r.n = proc[m].n
  BY <1>1 DEF Processes, Places
<1>4. proc' \in [Maintainers -> Processes] /\ proc'[m] = r /\ OutcomeAgrees'
  BY <1>1, <1>2, <1>3 DEF OutcomeAgrees
<1> HIDE DEF r
<1> QED
  BY <1>2, <1>3, <1>4, LeavesFiles

\* An edit is known from then on; one that falls into the window is excepted.
LEMMA EditKeeps ==
  ASSUME OneMaintainer, RepairInv, Edit
  PROVE  RepairInv'
<1>1. PICK bytes \in Edits \cup {Absent} : target' = bytes /\ known' = bytes
  BY DEF Edit
<1>2. UNCHANGED <<staged, backup, proc, outcome>> /\ raced' = (raced \/ \E m \in Maintainers : proc[m].pc \in Window)
  BY DEF Edit
<1>3. RepairTypeOK'
  BY <1>1, <1>2 DEF RepairInv, RepairTypeOK, Contents
<1>4. ASSUME NEW m \in Maintainers
      PROVE  ApplyOf(m)' /\ (~ raced' => TargetOf(m)')
  <2>1. ApplyOf(m)'
    BY <1>2 DEF RepairInv, ApplyOf, This
  <2>2. ~ raced' => TargetOf(m)'
    BY <1>2 DEF TargetOf, Untouched, Moved, Installed, Window
  <2> QED
    BY <2>1, <2>2
<1>5. KnownSurvives'
  BY <1>1 DEF KnownSurvives
<1>6. OutcomeAgrees'
  BY <1>2 DEF RepairInv, RepairIsHonest, OutcomeAgrees
<1> QED
  BY <1>3, <1>4, <1>5, <1>6 DEF RepairInv, RepairIsHonest

LEMMA RepairNextPreserves ==
  ASSUME OneMaintainer, RepairInv, [RepairNext]_repairVars
  PROVE  RepairInv'
<1>1. CASE UNCHANGED repairVars
  BY <1>1 DEF repairVars, repairFiles, RepairInv, RepairTypeOK, ApplyOf, TargetOf, This, BackedUp, RepairIsHonest, KnownSurvives, OutcomeAgrees
<1>2. ASSUME NEW m \in Maintainers,
             \/ Propose(m) \/ Apply(m) \/ Reconstruct(m) \/ Compare(m)
             \/ Stage(m) \/ WriteStaged(m) \/ Look(m) \/ MoveAway(m) \/ Install(m) \/ Restore(m) \/ Cleanup(m)
             \/ Validate(m) \/ Commit(m) \/ Rollback(m) \/ PutBack(m) \/ CrashApply(m)
      PROVE  RepairInv'
  BY <1>2, ProposeKeeps, ApplyKeeps, ReconstructKeeps, CompareKeeps, StageKeeps, WriteStagedKeeps, LookKeeps,
     MoveAwayKeeps, InstallKeeps, RestoreKeeps, CleanupKeeps, ValidateKeeps, CommitKeeps, RollbackKeeps,
     PutBackKeeps, CrashApplyKeeps
<1>3. CASE Edit
  BY <1>3, EditKeeps
<1> QED
  BY <1>1, <1>2, <1>3 DEF RepairNext

(***************************************************************************)
(* What follows                                                            *)
(***************************************************************************)
\* The invariant holds of every behaviour of one maintainer, whatever the bytes,
\* the edits, the crashes and the failed system calls.
THEOREM RepairInvariant == ASSUME OneMaintainer PROVE RepairSpec => []RepairInv
<1>1. RepairInit => RepairInv
  BY RepairInitEstablishes
<1>2. RepairInv /\ [RepairNext]_repairVars => RepairInv'
  BY RepairNextPreserves
<1> QED
  BY <1>1, <1>2, PTL DEF RepairSpec

\* RepairCoordinator keeps its state within its types: what a rename puts at the
\* target is never a torn file.
THEOREM RepairTypeCorrect == ASSUME OneMaintainer PROVE RepairSpec => []RepairTypeOK
<1>1. RepairInv => RepairTypeOK
  BY DEF RepairInv
<1> QED
  BY <1>1, RepairInvariant, PTL

\* RepairCoordinator::apply: what was last edited or validated is at the target or
\* in a backup wherever an apply crashes or fails, and the outcome that is reported
\* is what was done.
THEOREM RepairAlwaysHonest == ASSUME OneMaintainer PROVE RepairSpec => []RepairIsHonest
<1>1. RepairInv => RepairIsHonest
  BY DEF RepairInv
<1> QED
  BY <1>1, RepairInvariant, PTL

\* staged_replace: the bytes that an apply moves away are the ones its maintainer
\* saw, except for an edit that falls between the compare and the rename.
THEOREM SnapshotOnly == ASSUME OneMaintainer PROVE RepairSpec => OnlySnapshotReplaced
<1>1. RepairInv => \A m \in Maintainers : InStep(m, "move") => raced \/ target = proc[m].snap
  BY DEF RepairInv, TargetOf, InStep, Untouched
<1>2. RepairInv /\ [RepairNext]_repairVars =>
        [\A m \in Maintainers : InStep(m, "move") /\ proc'[m].pc = "install" => raced \/ target = proc[m].snap]_repairVars
  BY <1>1
<1> QED
  BY <1>2, RepairInvariant, PTL DEF RepairSpec, OnlySnapshotReplaced

(***************************************************************************)
(* The export gate: DocumentEvidence.                                      *)
(***************************************************************************)

\* A name that write_new makes for a temporary file, and no document's name
Stroked(p) == Len(p) > 0 /\ p[Len(p)] \in {".bran-export-", "I"}

\* What names are made of
Tokens == STRING \cup {".", ".bran-export-", "I"}

Owning == {"write", "link", "remove"}
ExportPcs == {"gate", "create", "done"} \cup Owning
GateRefusals == {"DlpFindings", "PublicBoundary", "ExportContainment", "ExportFormatMismatch"}
ExportResults == {None, "ExportIo", "ExportExists", "ok", "crashed"} \cup GateRefusals
ExporterStates ==
  [pc : ExportPcs, tries : Nat, temporary : Seq(Tokens), result : ExportResults, left : BOOLEAN]
QueryFields == DOMAIN NoQuery("begin")

\* The files that nobody may replace
Kept == DOMAIN scenario.files \ {c.path : c \in scenario.changes}
Passed(x) == GateRefusal(Calls[x]) = None

ExportTypes ==
  /\ scenario \in Scenarios
  /\ exporters \in [DOMAIN Calls -> ExporterStates]
  /\ serial \in [{"p", "q"} -> Nat]

\* What is known of a call wherever the others are: it has a temporary name from the
\* moment the file is made, and no file of the user's has that name
NameInv ==
  \A x \in DOMAIN exporters :
    LET e == exporters[x]
    IN /\ e.temporary # Root => Stroked(e.temporary) /\ e.temporary \in touched
       /\ e.pc \in {"gate", "create"} => e.temporary = Root
       /\ e.pc \in Owning => e.temporary # Root /\ e.temporary \notin Kept
       /\ e.pc \in Owning \cup {"create"} => Passed(x)
       /\ e.result = "ok" => Passed(x) /\ e.pc \in {"remove", "done"} /\ Calls[x].dest \in touched

\* The file under a temporary name is there while its call is at work, belongs to one
\* call, and is whole when it is linked
OwnerInv ==
  \A x \in DOMAIN exporters :
    exporters[x].pc \in Owning =>
      /\ NodeAt(exporters[x].temporary) # Missing
      /\ exporters[x].pc = "link" => NodeAt(exporters[x].temporary) = Document(Calls[x].doc)
      /\ \A y \in DOMAIN exporters :
           exporters[y].pc \in Owning /\ exporters[y].temporary = exporters[x].temporary => x = y

\* A destination that was linked stays
LinkedStays == \A x \in DOMAIN exporters : exporters[x].result = "ok" => NodeAt(Calls[x].dest) # Missing

\* The query that runs beside the exports
QueryInv ==
  /\ query = [f \in QueryFields |-> query[f]]
  /\ query.sources \in Seq(Range(query.sources))
  /\ NoHalfCited

FilesInv == NothingReplaced /\ WholeOrNothing /\ LinkedStays
ExportInv == ExportTypes /\ NameInv /\ OwnerInv /\ FilesInv /\ OneSucceeds /\ NothingLeft /\ QueryInv

-----------------------------------------------------------------------------
\* Two sequences, one after the other.
LEMMA JoinedSeqs ==
  ASSUME NEW S, NEW a \in Seq(S), NEW b \in Seq(S)
  PROVE  /\ a \o b \in Seq(S) /\ Len(a \o b) = Len(a) + Len(b) /\ Len(a) \in Nat /\ Len(b) \in Nat
         /\ \A i \in 1..Len(a) : (a \o b)[i] = a[i]
         /\ \A i \in 1..Len(b) : (a \o b)[Len(a) + i] = b[i]
  OBVIOUS

\* The name of a temporary file ends in a stroke or in the mark itself.
LEMMA TemporaryIs ==
  ASSUME NEW dest \in Seq(Tokens), NEW n \in Nat
  PROVE  Temporary(dest, n) \in Seq(Tokens) /\ Stroked(Temporary(dest, n)) /\ Temporary(dest, n) # Root
<1> DEFINE tail == {i \in DOMAIN dest : \A j \in i..Len(dest) : dest[j] # "/"}
           parent == Len(dest) - FileNameLen(dest)
           name == SubSeq(dest, 1, parent) \o <<".">> \o SubSeq(dest, parent + 1, Len(dest))
           marked == name \o <<".bran-export-">>
           strokes == [i \in 1..n |-> "I"]
<1>1. FileNameLen(dest) \in Nat /\ FileNameLen(dest) <= Len(dest) /\ Len(dest) \in Nat
  <2>1. Len(dest) \in Nat /\ DOMAIN dest = 1..Len(dest)
    OBVIOUS
  <2>2. tail \in SUBSET (1..Len(dest))
    BY <2>1
  <2> HIDE DEF tail
  <2>3. IsFiniteSet(1..Len(dest)) /\ Cardinality(1..Len(dest)) = Len(dest)
    BY <2>1, FS_Interval
  <2>4. IsFiniteSet(tail) /\ Cardinality(tail) <= Len(dest)
    BY <2>2, <2>3, FS_Subset
  <2>5. Cardinality(tail) \in Nat
    BY <2>4, FS_CardinalityType
  <2> QED
    BY <2>1, <2>4, <2>5 DEF FileNameLen, tail
<1>2. parent \in 0..Len(dest)
  BY <1>1
<1> HIDE DEF parent
<1>3. SubSeq(dest, 1, parent) \in Seq(Tokens) /\ SubSeq(dest, parent + 1, Len(dest)) \in Seq(Tokens)
  BY <1>1, <1>2
<1>4. name \in Seq(Tokens)
  <2>1. <<".">> \in Seq(Tokens)
    <3>1. "." \in Tokens
      BY DEF Tokens
    <3> QED
      BY <3>1
  <2>2. SubSeq(dest, 1, parent) \o <<".">> \in Seq(Tokens)
    BY <1>3, <2>1, JoinedSeqs
  <2> QED
    BY <1>3, <2>2, JoinedSeqs
<1> HIDE DEF name
<1>5. marked \in Seq(Tokens) /\ Len(marked) = Len(name) + 1 /\ marked[Len(name) + 1] = ".bran-export-"
      /\ Len(name) \in Nat
  <2> DEFINE mark == <<".bran-export-">>
  <2>1. mark \in Seq(Tokens) /\ Len(mark) = 1 /\ mark[1] = ".bran-export-" /\ 1 \in 1..Len(mark)
    <3>1. ".bran-export-" \in Tokens
      BY DEF Tokens
    <3> QED
      BY <3>1
  <2> HIDE DEF mark
  <2> QED
    BY <1>4, <2>1, JoinedSeqs DEF mark
<1> HIDE DEF marked
<1>6. strokes \in Seq(Tokens) /\ Len(strokes) = n /\ \A i \in 1..n : strokes[i] = "I"
  <2>1. strokes \in [1..n -> Tokens] /\ \A i \in 1..n : strokes[i] = "I"
    <3>1. "I" \in Tokens
      BY DEF Tokens
    <3> QED
      BY <3>1
  <2> HIDE DEF strokes
  <2> QED
    BY <2>1
<1> HIDE DEF strokes
<1>7. Temporary(dest, n) = marked \o strokes
  BY DEF Temporary, marked, strokes, name, parent
<1>8. /\ marked \o strokes \in Seq(Tokens) /\ Len(marked \o strokes) = Len(marked) + n
      /\ n = 0 => (marked \o strokes)[Len(marked)] = marked[Len(marked)]
      /\ n > 0 => (marked \o strokes)[Len(marked) + n] = strokes[n]
  BY <1>5, <1>6
<1>9. Stroked(marked \o strokes)
  <2>1. CASE n = 0
    BY <1>5, <1>8, <2>1 DEF Stroked
  <2>2. CASE n > 0
    BY <1>5, <1>6, <1>8, <2>2 DEF Stroked
  <2> QED
    BY <2>1, <2>2
<1>10. marked \o strokes # Root
  BY <1>5, <1>8 DEF Root
<1> QED
  BY <1>7, <1>8, <1>9, <1>10

\* What the gate lets pass is no temporary name.
LEMMA PassedIs ==
  ASSUME ExportTypes, NEW x \in DOMAIN exporters, Passed(x)
  PROVE  ~Stroked(Calls[x].dest)
<1>1. x \in DOMAIN Calls /\ Calls[x].format \in DOMAIN Formats
  BY DocumentsAssumption DEF ExportTypes, Calls
<1>2. Formats[Calls[x].format] \in {".docx", ".xlsx", ".pptx", ".pdf"}
  BY <1>1 DEF Formats
<1>3. Last(Calls[x].dest) = Formats[Calls[x].format]
  BY DEF Passed, GateRefusal, None
<1>4. Calls[x].dest[Len(Calls[x].dest)] \in {".docx", ".xlsx", ".pptx", ".pdf"}
  BY <1>2, <1>3 DEF Last
<1> QED
  BY <1>4 DEF Stroked

\* What a refusal of the gate is.
LEMMA RefusalIs ==
  ASSUME NEW c
  PROVE  GateRefusal(c) \in {None} \cup GateRefusals
  BY DEF GateRefusals, GateRefusal, TextRefusal, None, NoRefusal

\* What a write does to each path.
LEMMA PlacedIs ==
  ASSUME NEW q, NEW node, fs' = Placed(q, node)
  PROVE  \A p : NodeAt(p)' = IF p = q THEN node ELSE NodeAt(p)
  BY DEF Placed, NodeAt

\* Documents are told apart by what they hold.
LEMMA NodesDiffer ==
  ASSUME NEW a, NEW b
  PROVE  Document(a) # Missing /\ (Document(a) = Document(b) => a = b)
<1>1. Document(a).kind = "document" /\ Missing.kind = "absent" /\ Document(a).doc = a /\ Document(b).doc = b
  BY DEF Document, Missing
<1> QED
  BY <1>1

\* What a scenario is.
LEMMA ScenarioIs ==
  ASSUME ExportTypes
  PROVE  /\ DOMAIN exporters = DOMAIN Calls
         /\ \A p \in DOMAIN scenario.files : scenario.files[p] # Missing
         /\ \A x \in DOMAIN exporters :
              /\ exporters[x] \in ExporterStates
              /\ Calls[x].process \in {"p", "q"} /\ Calls[x].dest \in Seq(Tokens) /\ Calls[x].doc # Partial
              /\ Calls[x].dest \in DOMAIN scenario.files =>
                   scenario.files[Calls[x].dest] # Document(Partial)
              /\ \A change \in scenario.changes : change.path = Calls[x].dest => change.to # Document(Partial)
<1>1. scenario \in Scenarios /\ exporters \in [DOMAIN Calls -> ExporterStates]
  BY DEF ExportTypes
<1>2. \A dest \in Seq(STRING) : dest \in Seq(Tokens)
  <2>1. STRING \subseteq Tokens
    BY DEF Tokens
  <2>2. ASSUME NEW dest \in Seq(STRING)
        PROVE  dest \in Seq(Tokens)
    <3>1. Len(dest) \in Nat /\ dest \in [1..Len(dest) -> STRING]
      OBVIOUS
    <3>2. dest \in [1..Len(dest) -> Tokens]
      BY <2>1, <3>1, Zenon
    <3> QED
      BY <3>1, <3>2
  <2> QED
    BY <2>2
<1> QED
  BY <1>1, <1>2, DocumentsAssumption DEF Calls


\* One call moves, in the scenario it began in.
LEMMA CallMoves ==
  ASSUME ExportTypes, NEW x \in DOMAIN exporters, NEW e \in ExporterStates,
         exporters' = [exporters EXCEPT ![x] = e], scenario' = scenario, serial' \in [{"p", "q"} -> Nat]
  PROVE  /\ ExportTypes'
         /\ DOMAIN exporters' = DOMAIN exporters /\ exporters'[x] = e
         /\ \A y \in DOMAIN exporters : y # x => exporters'[y] = exporters[y]
         /\ Calls' = Calls /\ Kept' = Kept /\ \A y : Passed(y)' <=> Passed(y)
  BY DEF ExportTypes, Calls, Kept, Passed

\* A call that moves on, fails or dies without a change of a file.
LEMMA QuietMove ==
  ASSUME ExportInv, NEW x \in DOMAIN exporters, NEW e \in ExporterStates,
         exporters' = [exporters EXCEPT ![x] = e], serial' \in [{"p", "q"} -> Nat],
         UNCHANGED <<scenario, fs, touched, query>>,
         e.temporary = exporters[x].temporary,
         e.result = "ok" => exporters[x].result = "ok" /\ e.pc \in {"remove", "done"},
         e.pc \in {"gate", "create"} => exporters[x].pc \in {"gate", "create"},
         e.pc = "create" => Passed(x),
         e.pc \in Owning => exporters[x].pc \in Owning,
         e.pc = "link" => exporters[x].pc = "link",
         e.pc = "done" => e.result = "crashed" \/ e.left = TRUE \/ e.temporary = Root
  PROVE  ExportInv'
<1>1. /\ ExportTypes' /\ scenario' = scenario /\ touched' = touched /\ query' = query
      /\ DOMAIN exporters' = DOMAIN exporters /\ exporters'[x] = e
      /\ \A y \in DOMAIN exporters : y # x => exporters'[y] = exporters[y]
      /\ Calls' = Calls /\ Kept' = Kept /\ \A y : Passed(y)' <=> Passed(y)
  BY CallMoves DEF ExportInv
<1>2. \A p : NodeAt(p)' = NodeAt(p)
  BY DEF NodeAt
<1>3. \A y \in DOMAIN exporters :
        /\ exporters'[y].temporary = exporters[y].temporary
        /\ exporters'[y].pc \in Owning => exporters[y].pc \in Owning
        /\ exporters'[y].result = "ok" => exporters[y].result = "ok"
  BY <1>1
<1>4. NameInv'
  BY <1>1, <1>3 DEF ExportInv, NameInv
<1>5. OwnerInv'
  <2>1. \A y \in DOMAIN exporters : exporters'[y].pc = "link" => exporters[y].pc = "link"
    BY <1>1
  <2> QED
    BY <1>1, <1>2, <1>3, <2>1 DEF ExportInv, OwnerInv
<1>6. FilesInv'
  BY <1>1, <1>2, <1>3 DEF ExportInv, FilesInv, NothingReplaced, WholeOrNothing, LinkedStays, Passed
<1>7. OneSucceeds'
  BY <1>1, <1>3 DEF ExportInv, OneSucceeds
<1>8. NothingLeft'
  <2>1. ASSUME NEW y \in DOMAIN exporters, Ended(y)', exporters'[y].result # "crashed",
               exporters'[y].temporary # Root, ~exporters'[y].left
        PROVE  \/ NodeAt(exporters[y].temporary) = Missing
               \/ \E z \in DOMAIN exporters \ {y} : exporters[z].temporary = exporters[y].temporary
    <3>1. y # x
      BY <1>1, <2>1 DEF Ended
    <3> QED
      BY <1>1, <2>1, <3>1 DEF ExportInv, NothingLeft, Ended
  <2> QED
    BY <1>1, <1>2, <1>3, <2>1 DEF NothingLeft
<1>9. QueryInv'
  BY <1>1 DEF ExportInv, QueryInv, NoHalfCited
<1> QED
  BY <1>1, <1>4, <1>5, <1>6, <1>7, <1>8, <1>9 DEF ExportInv

\* Gate: passed on, or refused.
LEMMA GateStep ==
  ASSUME ExportInv, NEW x \in DOMAIN exporters, Gate(x)
  PROVE  ExportInv'
<1>1. exporters[x] \in ExporterStates /\ exporters[x].pc = "gate" /\ exporters[x].temporary = Root
      /\ serial' \in [{"p", "q"} -> Nat] /\ UNCHANGED <<scenario, fs, touched, query>>
      /\ DOMAIN exporters = DOMAIN Calls /\ exporters \in [DOMAIN Calls -> ExporterStates]
  BY ScenarioIs DEF ExportInv, Gate, NameInv, ExportTypes
<1>2. CASE GateRefusal(Calls[x]) = None
  <2> DEFINE e == [exporters[x] EXCEPT !.pc = "create"]
  <2>1. exporters' = [exporters EXCEPT ![x] = e]
    BY <1>1, <1>2 DEF Gate, ExportAt
  <2>2. e \in ExporterStates /\ e.pc = "create" /\ e.temporary = Root /\ e.result = exporters[x].result
    BY <1>1 DEF ExporterStates, ExportPcs
  <2>3. exporters[x].result # "ok"
    BY <1>1 DEF ExportInv, NameInv
  <2> HIDE DEF e
  <2> QED
    BY <1>1, <1>2, <2>1, <2>2, <2>3, QuietMove DEF Passed, Owning
<1>3. CASE GateRefusal(Calls[x]) # None
  <2> DEFINE why == GateRefusal(Calls[x])
             e == [exporters[x] EXCEPT !.pc = "done", !.result = why]
  <2>1. why \in GateRefusals
    BY <1>3, RefusalIs
  <2>2. exporters' = [exporters EXCEPT ![x] = e]
    BY <1>1, <1>3 DEF Gate, Finish
  <2> HIDE DEF why
  <2>3. e \in ExporterStates /\ e.pc = "done" /\ e.temporary = Root /\ e.result = why
    BY <1>1, <2>1 DEF ExporterStates, ExportPcs, ExportResults
  <2>4. why # "ok"
    BY <2>1 DEF GateRefusals
  <2> HIDE DEF e
  <2> QED
    BY <1>1, <2>2, <2>3, <2>4, QuietMove DEF Owning
<1> QED
  BY <1>2, <1>3

\* create_new makes the file.
LEMMA MakeMove ==
  ASSUME ExportInv, NEW x \in DOMAIN exporters, NEW e \in ExporterStates, NEW name \in Seq(Tokens),
         Stroked(name), name # Root, NodeAt(name) = Missing, exporters[x].pc = "create",
         e.pc = "write", e.temporary = name, e.result = exporters[x].result,
         exporters' = [exporters EXCEPT ![x] = e], serial' \in [{"p", "q"} -> Nat],
         fs' = Placed(name, Document(Partial)), touched' = touched \cup {name},
         UNCHANGED <<scenario, query>>
  PROVE  ExportInv'
<1>1. exporters[x].temporary = Root /\ exporters[x].result # "ok" /\ Passed(x)
  BY DEF ExportInv, NameInv
<1>2. /\ ExportTypes'
      /\ DOMAIN exporters' = DOMAIN exporters /\ exporters'[x] = e
      /\ \A y \in DOMAIN exporters : y # x => exporters'[y] = exporters[y]
      /\ Calls' = Calls /\ Kept' = Kept /\ \A y : Passed(y)' <=> Passed(y)
  BY CallMoves DEF ExportInv
<1>3. \A q : NodeAt(q)' = IF q = name THEN Document(Partial) ELSE NodeAt(q)
  BY PlacedIs
<1>4. name \notin Kept
  BY ScenarioIs DEF ExportInv, FilesInv, NothingReplaced, Kept
<1>5. \A y \in DOMAIN exporters : Passed(y) => Calls[y].dest # name
  BY PassedIs DEF ExportInv
<1>6. NameInv'
  BY <1>2, <1>4 DEF ExportInv, NameInv, Owning
<1>7. \A y \in DOMAIN exporters : y # x /\ exporters[y].pc \in Owning => exporters[y].temporary # name
  BY DEF ExportInv, OwnerInv
<1>8. OwnerInv'
  <2>1. ASSUME NEW y \in DOMAIN exporters, y # x, exporters[y].pc \in Owning
        PROVE  /\ NodeAt(exporters[y].temporary)' # Missing
               /\ exporters[y].pc = "link" => NodeAt(exporters[y].temporary)' = Document(Calls[y].doc)
               /\ exporters[y].temporary # name
    BY <1>2, <1>3, <1>7, <2>1 DEF ExportInv, OwnerInv
  <2>2. NodeAt(e.temporary)' # Missing
    BY <1>2, <1>3, NodesDiffer
  <2>3. \A y \in DOMAIN exporters :
          exporters'[y].pc \in Owning /\ y # x => exporters[y].pc \in Owning /\ exporters'[y] = exporters[y]
    BY <1>2
  <2> QED
    BY <1>2, <2>1, <2>2, <2>3 DEF ExportInv, OwnerInv
<1>9. FilesInv'
  <2>1. NothingReplaced'
    BY <1>3, <1>4 DEF ExportInv, FilesInv, NothingReplaced, Kept
  <2>2. WholeOrNothing'
    BY <1>2, <1>3, <1>5 DEF ExportInv, FilesInv, WholeOrNothing, Passed
  <2>3. LinkedStays'
    BY <1>2, <1>3, NodesDiffer DEF ExportInv, FilesInv, LinkedStays
  <2> QED
    BY <2>1, <2>2, <2>3 DEF FilesInv
<1>10. OneSucceeds'
  BY <1>2 DEF ExportInv, OneSucceeds
<1>11. NothingLeft'
  <2>1. ASSUME NEW y \in DOMAIN exporters, Ended(y)', exporters'[y].result # "crashed",
               exporters'[y].temporary # Root, ~exporters'[y].left, NodeAt(exporters[y].temporary)' # Missing
        PROVE  \E z \in DOMAIN exporters' \ {y} : exporters'[z].temporary = exporters'[y].temporary
    <3>1. y # x /\ exporters'[y] = exporters[y]
      BY <1>2, <2>1 DEF Ended
    <3>2. CASE exporters[y].temporary = name
      BY <1>2, <3>1, <3>2
    <3>3. CASE exporters[y].temporary # name
      <4>1. PICK z \in DOMAIN exporters \ {y} : exporters[z].temporary = exporters[y].temporary
        BY <1>3, <2>1, <3>1, <3>3 DEF ExportInv, NothingLeft, Ended
      <4>2. z # x
        BY <1>1, <2>1, <3>1, <4>1
      <4> QED
        BY <1>2, <3>1, <4>1, <4>2
    <3> QED
      BY <3>2, <3>3
  <2> QED
    BY <2>1 DEF NothingLeft
<1>12. QueryInv'
  BY DEF ExportInv, QueryInv, NoHalfCited
<1> QED
  BY <1>2, <1>6, <1>8, <1>9, <1>10, <1>11, <1>12 DEF ExportInv

\* create_new: the name was taken, the file is made, or the call fails.
LEMMA CreateStep ==
  ASSUME ExportInv, NEW x \in DOMAIN exporters, CreateTemporary(x)
  PROVE  ExportInv'
<1> DEFINE p == Calls[x].process
           name == Temporary(Calls[x].dest, serial[p])
<1>1. /\ exporters[x] \in ExporterStates /\ exporters[x].pc = "create" /\ exporters[x].temporary = Root
      /\ exporters[x].result # "ok" /\ Passed(x)
      /\ DOMAIN exporters = DOMAIN Calls /\ exporters \in [DOMAIN Calls -> ExporterStates]
  BY ScenarioIs DEF ExportInv, CreateTemporary, NameInv, ExportTypes
<1>2. /\ p \in {"p", "q"} /\ serial[p] \in Nat /\ serial' \in [{"p", "q"} -> Nat]
      /\ name \in Seq(Tokens) /\ Stroked(name) /\ name # Root
  <2>1. p \in {"p", "q"} /\ Calls[x].dest \in Seq(Tokens) /\ serial \in [{"p", "q"} -> Nat]
    BY ScenarioIs DEF ExportInv, ExportTypes
  <2>2. serial' = [serial EXCEPT ![p] = @ + 1]
    BY DEF CreateTemporary
  <2> HIDE DEF p
  <2>3. serial[p] \in Nat /\ serial' \in [{"p", "q"} -> Nat]
    BY <2>1, <2>2
  <2> QED
    BY <2>1, <2>3, TemporaryIs
<1>3. scenario' = scenario /\ query' = query
  BY DEF CreateTemporary
<1>4. CASE /\ NodeAt(name) # Missing
           /\ exporters' = [exporters EXCEPT ![x].tries = @ + 1,
                               ![x].pc = IF exporters[x].tries + 1 = MaxTries THEN "done" ELSE @,
                               ![x].result = IF exporters[x].tries + 1 = MaxTries THEN "ExportIo" ELSE @]
           /\ UNCHANGED <<fs, touched>>
  <2> DEFINE last == exporters[x].tries + 1 = MaxTries
             tried == exporters[x].tries + 1
             pc == IF last THEN "done" ELSE exporters[x].pc
             result == IF last THEN "ExportIo" ELSE exporters[x].result
             e == [exporters[x] EXCEPT !.tries = tried, !.pc = pc, !.result = result]
  <2>1. exporters' = [exporters EXCEPT ![x] = e]
    BY <1>1, <1>4
  <2>2. /\ e \in ExporterStates /\ e.temporary = Root /\ e.result # "ok"
        /\ e.pc \in {"create", "done"}
    <3>1. exporters[x].tries \in Nat /\ exporters[x].result \in ExportResults
      BY <1>1 DEF ExporterStates
    <3>2. "ExportIo" \in ExportResults /\ "done" \in ExportPcs /\ "create" \in ExportPcs
      BY DEF ExportResults, ExportPcs
    <3>3. tried \in Nat /\ pc \in {"create", "done"} /\ pc \in ExportPcs
          /\ result \in ExportResults /\ result # "ok"
      BY <1>1, <3>1, <3>2
    <3> HIDE DEF tried, pc, result
    <3> QED
      BY <1>1, <3>3 DEF ExporterStates
  <2>3. UNCHANGED <<scenario, fs, touched, query>>
    BY <1>3, <1>4
  <2> HIDE DEF e, p, name
  <2> QED
    BY <1>1, <1>2, <2>1, <2>2, <2>3, QuietMove DEF Owning
<1>5. CASE /\ NodeAt(name) = Missing
           /\ fs' = Placed(name, Document(Partial))
           /\ exporters' = [exporters EXCEPT ![x].pc = "write", ![x].temporary = name]
           /\ touched' = touched \cup {name}
  <2> DEFINE e == [exporters[x] EXCEPT !.pc = "write", !.temporary = name]
  <2>1. exporters' = [exporters EXCEPT ![x] = e]
    BY <1>1, <1>5
  <2> HIDE DEF name
  <2>2. e \in ExporterStates /\ e.pc = "write" /\ e.temporary = name /\ e.result = exporters[x].result
    BY <1>1, <1>2 DEF ExporterStates, ExportPcs, Owning
  <2> HIDE DEF e, p
  <2> QED
    BY <1>1, <1>2, <1>3, <1>5, <2>1, <2>2, MakeMove
<1>6. CASE Finish(x, "ExportIo") /\ UNCHANGED <<fs, touched>>
  <2> DEFINE e == [exporters[x] EXCEPT !.pc = "done", !.result = "ExportIo"]
  <2>1. exporters' = [exporters EXCEPT ![x] = e]
    BY <1>1, <1>6 DEF Finish
  <2>2. e \in ExporterStates /\ e.temporary = Root /\ e.result # "ok" /\ e.pc = "done"
    BY <1>1 DEF ExporterStates, ExportPcs, ExportResults
  <2> HIDE DEF e
  <2> QED
    BY <1>1, <1>2, <1>3, <1>6, <2>1, <2>2, QuietMove DEF Owning
<1> QED
  BY <1>4, <1>5, <1>6 DEF CreateTemporary

\* What a call knows of its temporary file and of the destinations.
LEMMA OwnedIs ==
  ASSUME ExportInv, NEW x \in DOMAIN exporters, exporters[x].pc \in Owning
  PROVE  /\ exporters[x].temporary # Root /\ exporters[x].temporary \notin Kept
         /\ exporters[x].temporary \in touched /\ Passed(x)
         /\ NodeAt(exporters[x].temporary) # Missing
         /\ \A y \in DOMAIN exporters : Passed(y) => Calls[y].dest # exporters[x].temporary
         /\ \A y \in DOMAIN exporters :
              exporters[y].pc \in Owning /\ exporters[y].temporary = exporters[x].temporary => y = x
<1>1. Stroked(exporters[x].temporary) /\ exporters[x].temporary # Root
      /\ exporters[x].temporary \notin Kept /\ exporters[x].temporary \in touched /\ Passed(x)
  BY DEF ExportInv, NameInv
<1>2. \A y \in DOMAIN exporters : Passed(y) => ~Stroked(Calls[y].dest)
  BY PassedIs DEF ExportInv
<1> QED
  BY <1>1, <1>2 DEF ExportInv, OwnerInv

\* A call writes its temporary file, or removes it and ends.
LEMMA OwnFileMove ==
  ASSUME ExportInv, NEW x \in DOMAIN exporters, NEW e \in ExporterStates, NEW name, NEW node,
         exporters[x].pc \in Owning, name = exporters[x].temporary,
         e.temporary = name, e.result = exporters[x].result,
         exporters' = [exporters EXCEPT ![x] = e], fs' = Placed(name, node),
         UNCHANGED <<scenario, serial, touched, query>>,
         \/ exporters[x].pc = "write" /\ e.pc = "link" /\ node = Document(Calls[x].doc)
         \/ e.pc = "done" /\ node = Missing
  PROVE  ExportInv'
<1>1. /\ ExportTypes'
      /\ DOMAIN exporters' = DOMAIN exporters /\ exporters'[x] = e
      /\ \A y \in DOMAIN exporters : y # x => exporters'[y] = exporters[y]
      /\ Calls' = Calls /\ Kept' = Kept /\ \A y : Passed(y)' <=> Passed(y)
  BY CallMoves DEF ExportInv, ExportTypes
<1>2. \A p : NodeAt(p)' = IF p = name THEN node ELSE NodeAt(p)
  BY PlacedIs
<1>3. \A y \in DOMAIN exporters :
        /\ exporters'[y].temporary = exporters[y].temporary /\ exporters'[y].result = exporters[y].result
        /\ exporters'[y].pc \in Owning => exporters[y].pc \in Owning
        /\ exporters'[y].pc \notin {"gate", "create"} \/ exporters'[y].pc = exporters[y].pc
        /\ exporters[y].pc \in {"remove", "done"} => exporters'[y].pc \in {"remove", "done"}
  BY <1>1 DEF Owning
<1>4. /\ name \notin Kept /\ \A y \in DOMAIN exporters : Passed(y) => Calls[y].dest # name
      /\ \A y \in DOMAIN exporters : exporters[y].pc \in Owning /\ exporters[y].temporary = name => y = x
  BY OwnedIs
<1>5. NameInv'
  BY <1>1, <1>3 DEF ExportInv, NameInv, Owning
<1>6. OwnerInv'
  <2>1. ASSUME NEW y \in DOMAIN exporters, exporters'[y].pc \in Owning
        PROVE  /\ NodeAt(exporters[y].temporary)' # Missing
               /\ exporters'[y].pc = "link" => NodeAt(exporters[y].temporary)' = Document(Calls[y].doc)
    <3>1. CASE y = x
      BY <1>1, <1>2, <1>3, <2>1, <3>1, NodesDiffer DEF Owning
    <3>2. CASE y # x
      BY <1>1, <1>2, <1>3, <1>4, <2>1, <3>2 DEF ExportInv, OwnerInv
    <3> QED
      BY <3>1, <3>2
  <2> QED
    BY <1>1, <1>3, <2>1 DEF ExportInv, OwnerInv
<1>7. FilesInv'
  <2>1. NothingReplaced'
    BY <1>2, <1>4 DEF ExportInv, FilesInv, NothingReplaced, Kept
  <2>2. WholeOrNothing'
    BY <1>1, <1>2, <1>4 DEF ExportInv, FilesInv, WholeOrNothing, Passed
  <2>3. LinkedStays'
    BY <1>1, <1>2, <1>3, <1>4 DEF ExportInv, FilesInv, LinkedStays, NameInv
  <2> QED
    BY <2>1, <2>2, <2>3 DEF FilesInv
<1>8. OneSucceeds'
  BY <1>1, <1>3 DEF ExportInv, OneSucceeds
<1>9. NothingLeft'
  <2>1. ASSUME NEW y \in DOMAIN exporters, Ended(y)', exporters'[y].result # "crashed",
               exporters'[y].temporary # Root, ~exporters'[y].left, NodeAt(exporters[y].temporary)' # Missing
        PROVE  \E z \in DOMAIN exporters \ {y} : exporters[z].temporary = exporters[y].temporary
    <3>1. y # x /\ exporters'[y] = exporters[y]
      BY <1>1, <1>2, <1>3, <2>1 DEF Ended
    <3>2. CASE exporters[y].temporary = name
      BY <3>1, <3>2
    <3>3. CASE exporters[y].temporary # name
      BY <1>2, <2>1, <3>1, <3>3 DEF ExportInv, NothingLeft, Ended
    <3> QED
      BY <3>2, <3>3
  <2> QED
    BY <1>1, <1>3, <2>1 DEF NothingLeft
<1>10. QueryInv'
  BY DEF ExportInv, QueryInv, NoHalfCited
<1> QED
  BY <1>1, <1>5, <1>6, <1>7, <1>8, <1>9, <1>10 DEF ExportInv

\* A call links its destination, where nothing is.
LEMMA LinkMove ==
  ASSUME ExportInv, NEW x \in DOMAIN exporters, NEW e \in ExporterStates, NEW dest,
         exporters[x].pc = "link", dest = Calls[x].dest, NodeAt(dest) = Missing,
         e.temporary = exporters[x].temporary, e.pc = "remove", e.result = "ok",
         exporters' = [exporters EXCEPT ![x] = e],
         fs' = Placed(dest, NodeAt(exporters[x].temporary)), touched' = touched \cup {dest},
         UNCHANGED <<scenario, serial, query>>
  PROVE  ExportInv'
<1>1. /\ ExportTypes'
      /\ DOMAIN exporters' = DOMAIN exporters /\ exporters'[x] = e
      /\ \A y \in DOMAIN exporters : y # x => exporters'[y] = exporters[y]
      /\ Calls' = Calls /\ Kept' = Kept /\ \A y : Passed(y)' <=> Passed(y)
  BY CallMoves DEF ExportInv, ExportTypes
<1> DEFINE node == Document(Calls[x].doc)
<1>2. /\ node # Missing /\ node # Document(Partial)
      /\ \A p : NodeAt(p)' = IF p = dest THEN node ELSE NodeAt(p)
  <2>1. NodeAt(exporters[x].temporary) = node
    BY DEF ExportInv, OwnerInv, Owning
  <2>2. \A p : NodeAt(p)' = IF p = dest THEN NodeAt(exporters[x].temporary) ELSE NodeAt(p)
    BY PlacedIs
  <2>3. Calls[x].doc # Partial
    BY ScenarioIs DEF ExportInv
  <2> QED
    BY <2>1, <2>2, <2>3, NodesDiffer
<1> HIDE DEF node
<1>3. \A y \in DOMAIN exporters :
        /\ exporters'[y].temporary = exporters[y].temporary
        /\ exporters'[y].pc \in Owning => exporters[y].pc \in Owning
        /\ exporters'[y].pc \notin {"gate", "create", "link"} \/ exporters'[y].pc = exporters[y].pc
        /\ exporters'[y].result = "ok" => y = x \/ exporters[y].result = "ok"
  BY <1>1 DEF Owning
<1>4. Passed(x) /\ \A y \in DOMAIN exporters : exporters[y].result = "ok" => Calls[y].dest # dest
  <2>1. Passed(x)
    BY DEF ExportInv, NameInv, Owning
  <2> QED
    BY <2>1 DEF ExportInv, FilesInv, LinkedStays
<1>5. NameInv'
  <2>1. ASSUME NEW y \in DOMAIN exporters, y # x
        PROVE  LET f == exporters[y]
               IN /\ f.temporary # Root => Stroked(f.temporary) /\ f.temporary \in touched'
                  /\ f.pc \in {"gate", "create"} => f.temporary = Root
                  /\ f.pc \in Owning => f.temporary # Root /\ f.temporary \notin Kept
                  /\ f.pc \in Owning \cup {"create"} => Passed(y)
                  /\ f.result = "ok" => Passed(y) /\ f.pc \in {"remove", "done"} /\ Calls[y].dest \in touched'
    BY DEF ExportInv, NameInv
  <2>2. e.temporary # Root /\ Stroked(e.temporary) /\ e.temporary \in touched' /\ e.temporary \notin Kept
    BY DEF ExportInv, NameInv, Owning
  <2> QED
    BY <1>1, <1>4, <2>1, <2>2 DEF NameInv, Owning
<1>6. OwnerInv'
  <2>1. ASSUME NEW y \in DOMAIN exporters, exporters'[y].pc \in Owning
        PROVE  NodeAt(exporters[y].temporary)' # Missing
    BY <1>2, <1>3, <2>1 DEF ExportInv, OwnerInv
  <2>2. ASSUME NEW y \in DOMAIN exporters, exporters'[y].pc = "link"
        PROVE  NodeAt(exporters[y].temporary)' = Document(Calls[y].doc)
    <3>1. exporters[y].pc = "link" /\ exporters[y].pc \in Owning
      BY <1>3, <2>2 DEF Owning
    <3>2. exporters[y].temporary # dest
      BY <1>4, <3>1, OwnedIs
    <3> QED
      BY <1>2, <3>1, <3>2 DEF ExportInv, OwnerInv
  <2> QED
    BY <1>1, <1>3, <2>1, <2>2 DEF ExportInv, OwnerInv
<1>7. FilesInv'
  <2>1. dest \notin Kept
    BY ScenarioIs DEF ExportInv, FilesInv, NothingReplaced, Kept
  <2>2. NothingReplaced'
    BY <1>2, <2>1 DEF ExportInv, FilesInv, NothingReplaced, Kept
  <2>3. WholeOrNothing'
    BY <1>1, <1>2 DEF ExportInv, FilesInv, WholeOrNothing, Passed
  <2>4. LinkedStays'
    BY <1>1, <1>2, <1>3 DEF ExportInv, FilesInv, LinkedStays
  <2> QED
    BY <2>2, <2>3, <2>4 DEF FilesInv
<1>8. OneSucceeds'
  BY <1>1, <1>3, <1>4 DEF ExportInv, OneSucceeds
<1>9. NothingLeft'
  <2>1. ASSUME NEW y \in DOMAIN exporters, Ended(y)', exporters'[y].result # "crashed",
               exporters'[y].temporary # Root, ~exporters'[y].left, NodeAt(exporters[y].temporary)' # Missing
        PROVE  \E z \in DOMAIN exporters \ {y} : exporters[z].temporary = exporters[y].temporary
    <3>1. y # x /\ exporters'[y] = exporters[y]
      BY <1>1, <2>1 DEF Ended
    <3>2. Stroked(exporters[y].temporary) /\ ~Stroked(dest)
      BY <1>4, <2>1, <3>1, PassedIs DEF ExportInv, NameInv
    <3> QED
      BY <1>2, <2>1, <3>1, <3>2 DEF ExportInv, NothingLeft, Ended
  <2> QED
    BY <1>1, <1>3, <2>1 DEF NothingLeft
<1>10. QueryInv'
  BY DEF ExportInv, QueryInv, NoHalfCited
<1> QED
  BY <1>1, <1>5, <1>6, <1>7, <1>8, <1>9, <1>10 DEF ExportInv


\* write_all and sync_all.
LEMMA WriteStep ==
  ASSUME ExportInv, NEW x \in DOMAIN exporters, WriteTemporary(x)
  PROVE  ExportInv'
<1>1. /\ exporters[x] \in ExporterStates /\ exporters[x].pc = "write"
      /\ serial' \in [{"p", "q"} -> Nat] /\ UNCHANGED <<scenario, serial, touched, query>>
      /\ DOMAIN exporters = DOMAIN Calls /\ exporters \in [DOMAIN Calls -> ExporterStates]
  BY ScenarioIs DEF ExportInv, WriteTemporary, ExportTypes
<1>2. exporters[x].result # "ok"
  BY <1>1 DEF ExportInv, NameInv
<1>3. CASE fs' = Placed(exporters[x].temporary, Document(Calls[x].doc)) /\ ExportAt(x, "link")
  <2> DEFINE e == [exporters[x] EXCEPT !.pc = "link"]
  <2>1. exporters' = [exporters EXCEPT ![x] = e]
    BY <1>1, <1>3 DEF ExportAt
  <2>2. /\ e \in ExporterStates /\ e.pc = "link" /\ e.temporary = exporters[x].temporary
        /\ e.result = exporters[x].result
    BY <1>1 DEF ExporterStates, ExportPcs, Owning
  <2> HIDE DEF e
  <2> QED
    <3> DEFINE name == exporters[x].temporary
               node == Document(Calls[x].doc)
    <3>1. exporters[x].pc \in Owning /\ name = exporters[x].temporary /\ fs' = Placed(name, node)
          /\ node = Document(Calls[x].doc) /\ e.temporary = name
      BY <1>1, <1>3, <2>2 DEF Owning
    <3> HIDE DEF name, node
    <3> QED
      BY <1>1, <2>1, <2>2, <3>1, OwnFileMove
<1>4. CASE /\ exporters' = [exporters EXCEPT ![x].pc = "remove", ![x].result = "ExportIo"]
           /\ UNCHANGED fs
  <2> DEFINE e == [exporters[x] EXCEPT !.pc = "remove", !.result = "ExportIo"]
  <2>1. exporters' = [exporters EXCEPT ![x] = e]
    BY <1>1, <1>4
  <2>2. /\ e \in ExporterStates /\ e.pc = "remove" /\ e.temporary = exporters[x].temporary
        /\ e.result = "ExportIo"
    BY <1>1 DEF ExporterStates, ExportPcs, ExportResults, Owning
  <2> HIDE DEF e
  <2> QED
    BY <1>1, <1>4, <2>1, <2>2, QuietMove DEF Owning
<1> QED
  BY <1>3, <1>4 DEF WriteTemporary

\* hard_link: the destination is free, or taken, or the call fails.
LEMMA LinkStep ==
  ASSUME ExportInv, NEW x \in DOMAIN exporters, LinkDestination(x)
  PROVE  ExportInv'
<1>1. /\ exporters[x] \in ExporterStates /\ exporters[x].pc = "link"
      /\ serial' \in [{"p", "q"} -> Nat] /\ UNCHANGED <<scenario, serial, query>>
      /\ DOMAIN exporters = DOMAIN Calls /\ exporters \in [DOMAIN Calls -> ExporterStates]
  BY ScenarioIs DEF ExportInv, LinkDestination, ExportTypes
<1>2. CASE /\ NodeAt(Calls[x].dest) = Missing
           /\ fs' = Placed(Calls[x].dest, NodeAt(exporters[x].temporary))
           /\ exporters' = [exporters EXCEPT ![x].pc = "remove", ![x].result = "ok"]
           /\ touched' = touched \cup {Calls[x].dest}
  <2> DEFINE e == [exporters[x] EXCEPT !.pc = "remove", !.result = "ok"]
  <2>1. exporters' = [exporters EXCEPT ![x] = e]
    BY <1>1, <1>2
  <2>2. e \in ExporterStates /\ e.pc = "remove" /\ e.temporary = exporters[x].temporary /\ e.result = "ok"
    BY <1>1 DEF ExporterStates, ExportPcs, ExportResults, Owning
  <2> HIDE DEF e
  <2> QED
    BY <1>1, <1>2, <2>1, <2>2, LinkMove
<1>3. ASSUME NEW why \in {"ExportExists", "ExportIo"},
             exporters' = [exporters EXCEPT ![x].pc = "remove", ![x].result = why],
             UNCHANGED <<fs, touched>>
      PROVE  ExportInv'
  <2> DEFINE e == [exporters[x] EXCEPT !.pc = "remove", !.result = why]
  <2>1. exporters' = [exporters EXCEPT ![x] = e]
    BY <1>1, <1>3
  <2>2. /\ e \in ExporterStates /\ e.pc = "remove" /\ e.temporary = exporters[x].temporary
        /\ e.result # "ok"
    BY <1>1, <1>3 DEF ExporterStates, ExportPcs, ExportResults, Owning
  <2> HIDE DEF e
  <2> QED
    BY <1>1, <1>3, <2>1, <2>2, QuietMove DEF Owning
<1> QED
  BY <1>2, <1>3 DEF LinkDestination

\* remove_file, which may fail.
LEMMA RemoveStep ==
  ASSUME ExportInv, NEW x \in DOMAIN exporters, RemoveTemporary(x)
  PROVE  ExportInv'
<1>1. /\ exporters[x] \in ExporterStates /\ exporters[x].pc = "remove"
      /\ serial' \in [{"p", "q"} -> Nat] /\ UNCHANGED <<scenario, serial, touched, query>>
      /\ DOMAIN exporters = DOMAIN Calls /\ exporters \in [DOMAIN Calls -> ExporterStates]
  BY ScenarioIs DEF ExportInv, RemoveTemporary, ExportTypes
<1>2. CASE fs' = Placed(exporters[x].temporary, Missing) /\ ExportAt(x, "done")
  <2> DEFINE e == [exporters[x] EXCEPT !.pc = "done"]
  <2>1. exporters' = [exporters EXCEPT ![x] = e]
    BY <1>1, <1>2 DEF ExportAt
  <2>2. /\ e \in ExporterStates /\ e.pc = "done" /\ e.temporary = exporters[x].temporary
        /\ e.result = exporters[x].result
    BY <1>1 DEF ExporterStates, ExportPcs
  <2> HIDE DEF e
  <2> QED
    <3> DEFINE name == exporters[x].temporary
               node == Missing
    <3>1. exporters[x].pc \in Owning /\ name = exporters[x].temporary /\ fs' = Placed(name, node)
          /\ node = Missing /\ e.temporary = name
      BY <1>1, <1>2, <2>2 DEF Owning
    <3> HIDE DEF name, node
    <3> QED
      BY <1>1, <2>1, <2>2, <3>1, OwnFileMove
<1>3. CASE exporters' = [exporters EXCEPT ![x].pc = "done", ![x].left = TRUE] /\ UNCHANGED fs
  <2> DEFINE e == [exporters[x] EXCEPT !.pc = "done", !.left = TRUE]
  <2>1. exporters' = [exporters EXCEPT ![x] = e]
    BY <1>1, <1>3
  <2>2. /\ e \in ExporterStates /\ e.pc = "done" /\ e.temporary = exporters[x].temporary
        /\ e.result = exporters[x].result /\ e.left = TRUE
    BY <1>1 DEF ExporterStates, ExportPcs
  <2> HIDE DEF e
  <2> QED
    <3>1. UNCHANGED <<scenario, fs, touched, query>>
      BY <1>1, <1>3
    <3>2. exporters[x].pc \in Owning /\ e.pc \notin {"gate", "create", "link"} /\ e.pc \notin Owning
      BY <1>1, <2>2 DEF Owning
    <3> QED
      BY <1>1, <2>1, <2>2, <3>1, <3>2, QuietMove
<1> QED
  BY <1>2, <1>3 DEF RemoveTemporary

\* The process of a call dies.
LEMMA CrashStep ==
  ASSUME ExportInv, NEW x \in DOMAIN exporters, CrashExport(x)
  PROVE  ExportInv'
<1>1. /\ exporters[x] \in ExporterStates
      /\ serial' \in [{"p", "q"} -> Nat] /\ UNCHANGED <<scenario, fs, touched, query>>
      /\ DOMAIN exporters = DOMAIN Calls /\ exporters \in [DOMAIN Calls -> ExporterStates]
  BY ScenarioIs DEF ExportInv, CrashExport, ExportTypes
<1> DEFINE e == [exporters[x] EXCEPT !.pc = "done", !.result = "crashed"]
<1>2. exporters' = [exporters EXCEPT ![x] = e]
  BY <1>1 DEF CrashExport, Finish
<1>3. e \in ExporterStates /\ e.pc = "done" /\ e.temporary = exporters[x].temporary /\ e.result = "crashed"
  BY <1>1 DEF ExporterStates, ExportPcs, ExportResults
<1> HIDE DEF e
<1> QED
  BY <1>1, <1>2, <1>3, QuietMove DEF Owning

\* The user changes a file that nobody touched yet, so none of a call's.
LEMMA ChangeStep ==
  ASSUME ExportInv, Change
  PROVE  ExportInv'
<1>1. PICK change \in scenario.changes :
        /\ change.path \notin touched
        /\ fs' = Placed(change.path, change.to)
        /\ touched' = touched \cup {change.path}
        /\ UNCHANGED <<scenario, exporters, serial, query>>
  BY DEF Change
<1>2. \A p : NodeAt(p)' = IF p = change.path THEN change.to ELSE NodeAt(p)
  BY <1>1, PlacedIs
<1>3. Calls' = Calls /\ Kept' = Kept /\ (\A y : Passed(y)' <=> Passed(y)) /\ ExportTypes' /\ OneSucceeds' /\ QueryInv'
  BY <1>1 DEF ExportInv, Calls, Kept, Passed, ExportTypes, OneSucceeds, QueryInv, NoHalfCited
<1>4. \A y \in DOMAIN exporters :
        /\ exporters[y].temporary # Root => exporters[y].temporary # change.path
        /\ exporters[y].result = "ok" => Calls[y].dest # change.path
        /\ Calls[y].dest = change.path => change.to # Document(Partial)
  BY <1>1, ScenarioIs DEF ExportInv, NameInv
<1>5. NameInv'
  BY <1>1, <1>3 DEF ExportInv, NameInv
<1>6. OwnerInv'
  <2>1. \A y \in DOMAIN exporters : exporters[y].pc \in Owning => exporters[y].temporary # change.path
    BY <1>4 DEF ExportInv, NameInv
  <2> QED
    BY <1>1, <1>2, <1>3, <2>1 DEF ExportInv, OwnerInv
<1>7. FilesInv'
  <2>1. NothingReplaced'
    BY <1>1, <1>2 DEF ExportInv, FilesInv, NothingReplaced
  <2>2. WholeOrNothing'
    BY <1>1, <1>2, <1>3, <1>4 DEF ExportInv, FilesInv, WholeOrNothing, Passed
  <2>3. LinkedStays'
    BY <1>1, <1>2, <1>3, <1>4 DEF ExportInv, FilesInv, LinkedStays
  <2> QED
    BY <2>1, <2>2, <2>3 DEF FilesInv
<1>8. NothingLeft'
  BY <1>1, <1>2, <1>4 DEF ExportInv, NothingLeft, Ended
<1> QED
  BY <1>3, <1>5, <1>6, <1>7, <1>8 DEF ExportInv

\* A step of the query changes nothing of the calls.
LEMMA QueryMove ==
  ASSUME ExportInv, UNCHANGED <<scenario, fs, exporters, serial, touched>>, QueryInv'
  PROVE  ExportInv'
<1>1. Calls' = Calls /\ Kept' = Kept /\ (\A y : Passed(y)' <=> Passed(y)) /\ ExportTypes' /\ \A p : NodeAt(p)' = NodeAt(p)
  BY DEF ExportInv, Calls, Kept, Passed, ExportTypes, NodeAt
<1>2. NameInv' /\ OwnerInv' /\ OneSucceeds'
  BY <1>1 DEF ExportInv, NameInv, OwnerInv, OneSucceeds
<1>3. FilesInv'
  BY <1>1 DEF ExportInv, FilesInv, NothingReplaced, WholeOrNothing, LinkedStays, Passed
<1>4. NothingLeft'
  BY <1>1 DEF ExportInv, NothingLeft, Ended
<1> QED
  BY <1>1, <1>2, <1>3, <1>4 DEF ExportInv

\* A query that cites nothing new.
LEMMA QuietQuery ==
  ASSUME QueryInv, query' = [f \in QueryFields |-> query'[f]], query'.sources = query.sources
  PROVE  QueryInv'
  BY DEF QueryInv, NoHalfCited

\* The fields of a query.
LEMMA FieldsAre ==
  QueryFields = {"pc", "matcher", "todo", "found", "passed", "files", "at", "omittedFiles", "sources", "refusals",
                 "matches", "omittedMatches", "excerpts", "some"}
  BY DEF QueryFields, NoQuery

\* A file refused is a file not cited.
LEMMA RefuseIs ==
  ASSUME QueryInv, NEW code
  PROVE  Refuse(code) = [f \in QueryFields |-> Refuse(code)[f]] /\ Refuse(code).sources = query.sources
  BY FieldsAre DEF QueryInv, Refuse

\* The steps of the query before and after the reading.
LEMMA QueryQuiet ==
  ASSUME ExportInv, BeginQuery \/ WalkDirectory \/ Discovered \/ StatDocument \/ RankAndReport
  PROVE  ExportInv'
<1>1. QueryInv /\ query = [f \in QueryFields |-> query[f]]
  BY DEF ExportInv, QueryInv
<1>2. CASE BeginQuery
  <2>1. PICK matcher : query' = [query EXCEPT !.pc = "walk", !.matcher = matcher, !.todo = {Root}]
    BY <1>2 DEF BeginQuery
  <2>2. query' = [f \in QueryFields |-> query'[f]] /\ query'.sources = query.sources
    BY <1>1, <2>1, FieldsAre
  <2>3. QueryInv'
    BY <1>1, <2>2, QuietQuery
  <2> QED
    BY <1>2, <2>3, QueryMove DEF BeginQuery
<1>3. CASE WalkDirectory
  <2>1. PICK todo, found, passed : query' = [query EXCEPT !.todo = todo, !.found = found, !.passed = passed]
    BY <1>3 DEF WalkDirectory
  <2>2. query' = [f \in QueryFields |-> query'[f]] /\ query'.sources = query.sources
    BY <1>1, <2>1, FieldsAre
  <2>3. QueryInv'
    BY <1>1, <2>2, QuietQuery
  <2> QED
    BY <1>3, <2>3, QueryMove DEF WalkDirectory
<1>4. CASE Discovered
  <2>1. PICK files, omitted : query' = [query EXCEPT !.pc = "stat", !.files = files, !.omittedFiles = omitted]
    BY <1>4 DEF Discovered
  <2>2. query' = [f \in QueryFields |-> query'[f]] /\ query'.sources = query.sources
    BY <1>1, <2>1, FieldsAre
  <2>3. QueryInv'
    BY <1>1, <2>2, QuietQuery
  <2> QED
    BY <1>4, <2>3, QueryMove DEF Discovered
<1>5. CASE StatDocument
  <2>1. \/ \E code : query' = Refuse(code)
        \/ \E at : query' = [query EXCEPT !.pc = "read", !.at = at]
    <3> DEFINE place == IF NodeAt(Current).kind = "link" THEN NodeAt(Current).path ELSE Current
    <3>1. \/ query' = Refuse(TextRefusal(Current)) \/ query' = Refuse("unreadable") \/ query' = Refuse("oversized")
          \/ query' = [query EXCEPT !.pc = "read", !.at = place]
      BY <1>5 DEF StatDocument
    <3> QED
      BY <3>1
  <2>2. QueryInv'
    <3>1. ASSUME NEW code, query' = Refuse(code)
          PROVE  QueryInv'
      BY <1>1, <3>1, RefuseIs, QuietQuery
    <3>2. ASSUME NEW at, query' = [query EXCEPT !.pc = "read", !.at = at]
          PROVE  QueryInv'
      <4>1. query' = [f \in QueryFields |-> query'[f]] /\ query'.sources = query.sources
        BY <1>1, <3>2, FieldsAre
      <4> QED
        BY <1>1, <4>1, QuietQuery
    <3> QED
      BY <2>1, <3>1, <3>2
  <2> QED
    BY <1>5, <2>2, QueryMove DEF StatDocument
<1>6. CASE RankAndReport
  <2>1. PICK shown, omitted, excerpts, some :
          query' = [query EXCEPT !.pc = "done", !.matches = shown, !.omittedMatches = omitted,
                                 !.excerpts = excerpts, !.some = some]
    BY <1>6 DEF RankAndReport
  <2>2. query' = [f \in QueryFields |-> query'[f]] /\ query'.sources = query.sources
    BY <1>1, <2>1, FieldsAre
  <2>3. QueryInv'
    BY <1>1, <2>2, QuietQuery
  <2> QED
    BY <1>6, <2>3, QueryMove DEF RankAndReport
<1> QED
  BY <1>2, <1>3, <1>4, <1>5, <1>6


\* A document that was cut short is never admitted.
LEMMA PartialIsRefused ==
  ASSUME NEW format, NEW locator
  PROVE  Admit(format, Imported(Partial), locator).refusal # None
<1> DEFINE document == Imported(Partial)
<1>1. document.refusal # NoRefusal
  BY DocumentsAssumption DEF Imported, None, NoRefusal
<1> HIDE DEF document
<1>2. \A why : Refused(why).refusal = why
  BY DEF Refused
<1>3. \/ Admit(format, document, locator) = Refused("MalformedContainer")
      \/ /\ Admit(format, document, locator) = Refused(TextRefusal(locator))
         /\ TextRefusal(locator) # NoRefusal
      \/ Admit(format, document, locator) = Refused(document.refusal)
  BY <1>1 DEF Admit
<1>4. Admit(format, document, locator).refusal # NoRefusal
  BY <1>1, <1>2, <1>3 DEF NoRefusal
<1> QED
  BY <1>4 DEF document, None, NoRefusal

\* The reading of a file: refused, or cited whole.
LEMMA ReadStep ==
  ASSUME ExportInv, ReadDocument
  PROVE  ExportInv'
<1>1. QueryInv /\ query = [f \in QueryFields |-> query[f]]
  BY DEF ExportInv, QueryInv
<1> DEFINE node == NodeAt(query.at)
           admitted == Admit(FormatOf(Current), Imported(node.doc), Current)
           source == [path |-> Current, doc |-> node.doc, envelope |-> admitted.envelope]
<1>2. \/ \E code : query' = Refuse(code)
      \/ /\ admitted.refusal = None
         /\ query' = [query EXCEPT !.pc = "stat", !.files = Tail(@), !.sources = Append(@, source)]
  <2>1. \/ query' = Refuse("unreadable") \/ query' = Refuse(admitted.refusal)
        \/ /\ admitted.refusal = None
           /\ query' = [query EXCEPT !.pc = "stat", !.files = Tail(@), !.sources = Append(@, source)]
    BY DEF ReadDocument
  <2> QED
    BY <2>1
<1>3. QueryInv'
  <2>1. ASSUME NEW code, query' = Refuse(code)
        PROVE  QueryInv'
    BY <1>1, <2>1, RefuseIs, QuietQuery
  <2>2. CASE /\ admitted.refusal = None
             /\ query' = [query EXCEPT !.pc = "stat", !.files = Tail(@), !.sources = Append(@, source)]
    <3>1. source.doc # Partial
      <4>1. ASSUME node.doc = Partial
            PROVE  FALSE
        BY <2>2, <4>1, PartialIsRefused
      <4> QED
        BY <4>1
    <3> HIDE DEF source
    <3>2. query' = [f \in QueryFields |-> query'[f]] /\ query'.sources = Append(query.sources, source)
      BY <1>1, <2>2, FieldsAre
    <3>3. query.sources \in Seq(Range(query.sources)) /\ \A i \in DOMAIN query.sources : query.sources[i].doc # Partial
      BY <1>1 DEF QueryInv, NoHalfCited
    <3> DEFINE sources == query.sources
               longer == Append(sources, source)
    <3>4. longer \in Seq(Range(longer)) /\ \A i \in DOMAIN longer : longer[i].doc # Partial
      <4> HIDE DEF sources
      <4>1. sources \in Seq(Range(sources)) /\ \A i \in DOMAIN sources : sources[i].doc # Partial
        BY <3>3 DEF sources
      <4>2. /\ DOMAIN longer = 1..Len(sources) + 1 /\ Len(longer) = Len(sources) + 1 /\ Len(sources) \in Nat
            /\ \A i \in 1..Len(sources) + 1 :
                  longer[i] = IF i = Len(sources) + 1 THEN source ELSE sources[i]
            /\ DOMAIN sources = 1..Len(sources)
            /\ longer \in Seq(Range(sources) \cup {source})
        BY <4>1
      <4>3. \A i \in DOMAIN longer : longer[i].doc # Partial
        BY <3>1, <4>1, <4>2
      <4>4. longer \in Seq(Range(longer))
        <5> HIDE DEF longer
        <5>1. longer \in [1..Len(longer) -> Range(sources) \cup {source}] /\ Len(longer) \in Nat
          BY <4>2
        <5>2. longer \in [1..Len(longer) -> Range(longer)]
          BY <5>1 DEF Range
        <5> QED
          BY <5>1, <5>2
      <4> QED
        BY <4>3, <4>4
    <3> QED
      BY <3>2, <3>4 DEF QueryInv, NoHalfCited
  <2> QED
    BY <1>2, <2>1, <2>2
<1> QED
  BY <1>3, QueryMove DEF ReadDocument

\* Every step of the system keeps the invariant.
LEMMA ExportStep ==
  ASSUME ExportInv, [DocumentsNext]_documentVars
  PROVE  ExportInv'
<1>1. ASSUME NEW x \in DOMAIN exporters, Export(x)
      PROVE  ExportInv'
  BY <1>1, GateStep, CreateStep, WriteStep, LinkStep, RemoveStep, CrashStep DEF Export
<1>2. CASE Change
  BY <1>2, ChangeStep
<1>3. CASE Query
  BY <1>3, QueryQuiet, ReadStep DEF Query
<1>4. CASE Cancel \/ StepIntake \/ Done \/ UNCHANGED documentVars
  <2>1. UNCHANGED <<scenario, fs, exporters, serial, query, touched>>
    BY <1>4 DEF Cancel, StepIntake, Done, documentVars
  <2>2. QueryInv'
    BY <2>1 DEF ExportInv, QueryInv, NoHalfCited
  <2> QED
    BY <2>1, <2>2, QueryMove
<1> QED
  BY <1>1, <1>2, <1>3, <1>4 DEF DocumentsNext

\* No call has begun.
LEMMA ExportInit ==
  ASSUME DocumentsInit
  PROVE  ExportInv
<1>1. /\ scenario \in Scenarios /\ touched = {} /\ serial = [p \in {"p", "q"} |-> 0]
      /\ fs = [p \in Paths |-> IF p \in DOMAIN scenario.files THEN scenario.files[p] ELSE Missing]
      /\ exporters = [x \in DOMAIN Calls |->
                        [pc |-> "gate", tries |-> 0, temporary |-> Root, result |-> None, left |-> FALSE]]
  BY DEF DocumentsInit, Calls
<1>2. \A x \in DOMAIN exporters :
        /\ exporters[x] \in ExporterStates
        /\ exporters[x].pc = "gate" /\ exporters[x].temporary = Root /\ exporters[x].result = None
  <2>1. [pc |-> "gate", tries |-> 0, temporary |-> Root, result |-> None, left |-> FALSE] \in ExporterStates
    BY DEF ExporterStates, ExportPcs, ExportResults, Root
  <2> QED
    BY <1>1, <2>1
<1>3. ExportTypes
  BY <1>1, <1>2 DEF ExportTypes
<1>4. NameInv /\ OwnerInv /\ OneSucceeds /\ NothingLeft
  BY <1>2 DEF NameInv, OwnerInv, OneSucceeds, NothingLeft, Owning, None, Ended
<1>5. FilesInv
  <2>1. \A p \in DOMAIN scenario.files : NodeAt(p) = scenario.files[p]
    BY <1>1, DocumentsAssumption DEF NodeAt, Paths
  <2>2. \A p : p \notin DOMAIN scenario.files => NodeAt(p) = Missing
    BY <1>1 DEF NodeAt
  <2>3. WholeOrNothing
    BY <1>3, <2>1, <2>2, ScenarioIs, NodesDiffer DEF WholeOrNothing
  <2>4. LinkedStays
    BY <1>2 DEF LinkedStays, None
  <2> QED
    BY <2>1, <2>3, <2>4 DEF FilesInv, NothingReplaced
<1>6. QueryInv
  <2>1. PICK pc : query = NoQuery(pc)
    BY DEF DocumentsInit
  <2>2. query.sources = <<>> /\ query = [f \in QueryFields |-> query[f]]
    BY <2>1 DEF NoQuery, QueryFields
  <2>3. <<>> \in Seq(Range(<<>>))
    OBVIOUS
  <2> QED
    BY <2>2, <2>3 DEF QueryInv, NoHalfCited
<1> QED
  BY <1>3, <1>4, <1>5, <1>6 DEF ExportInv

\* What write_new of export.rs promises, for any number of calls of two processes, any
\* destinations and any files: no file that was there is replaced or removed, a
\* destination holds its document or none of it, one of the calls for it succeeds, a
\* call that ends cleans up, and no query cites a half-written document.
THEOREM ExportHolds == DocumentsSpec => []ExportIsAtomic
<1>1. ExportInv => ExportIsAtomic
  BY DEF ExportInv, FilesInv, QueryInv, ExportIsAtomic
<1> QED
  BY <1>1, ExportInit, ExportStep, PTL DEF DocumentsSpec

(***************************************************************************)
(* The evidence store of query --record: QueryEvidence.                    *)
(***************************************************************************)

RecorderPcs == {"idle", "load", "clear_tmp", "create", "write", "rename"}
IsRecorder(s) == s = [pc |-> s.pc, record |-> s.record, records |-> s.records] /\ s.pc \in RecorderPcs
IsFile(f) ==
  /\ f = [there |-> f.there, writer |-> f.writer, whole |-> f.whole, records |-> f.records]
  /\ f.there \in BOOLEAN /\ f.whole \in BOOLEAN

RecordTypes ==
  /\ procs = [p \in Procs |-> procs[p]] /\ \A p \in Procs : IsRecorder(procs[p])
  /\ IsFile(store) /\ IsFile(storeTmp)
  /\ shared \in BOOLEAN /\ broken \in BOOLEAN

\* What a store may hold: one record of each request, and not too many
GoodRecords(set) ==
  /\ IsFiniteSet(set) /\ Cardinality(set) <= MaxRecords
  /\ \A a, b \in set : Key(a) = Key(b) => a = b

\* A file that is not whole, the store or its temporary, has a process that goes on
\* writing it, under whatever name it has by now
IsWritten(whole, writer) == whole = TRUE \/ (writer \in Procs /\ procs[writer].pc = "write")
UnfinishedInv ==
  ~broken => IsWritten(store.whole, store.writer) /\ IsWritten(storeTmp.whole, storeTmp.writer)

Holding == {"clear_tmp", "create", "write", "rename"}

\* Where the process is that records: what it is going to store holds all that was
\* acknowledged but the record it replaces, and the temporary file is its own
RecorderAt(p) ==
  LET s == procs[p]
  IN /\ s.pc \in Holding =>
          /\ GoodRecords(s.records) /\ s.record \in s.records
          /\ \A r \in ackedRecords : Key(r) # Key(s.record) => r \in s.records
     /\ s.pc = "create" => ~storeTmp.there
     /\ s.pc \in {"write", "rename"} => storeTmp.there /\ storeTmp.records = s.records
     /\ s.pc = "write" => storeTmp.writer = p
     /\ s.pc = "rename" => storeTmp.whole

TurnInv ==
  ~shared =>
    /\ \A p, q \in Procs : procs[p].pc # "idle" /\ procs[q].pc # "idle" => p = q
    /\ store.whole /\ GoodRecords(store.records) /\ ackedRecords \subseteq store.records
    /\ \A p \in Procs : RecorderAt(p)

RecordInv == RecordTypes /\ UnfinishedInv /\ TurnInv

-----------------------------------------------------------------------------
\* One process moves.
LEMMA RecorderMoves ==
  ASSUME RecordTypes, NEW p \in Procs, NEW s, IsRecorder(s), procs' = [procs EXCEPT ![p] = s]
  PROVE  /\ procs' = [q \in Procs |-> procs'[q]] /\ \A q \in Procs : IsRecorder(procs'[q])
         /\ procs'[p] = s /\ \A q \in Procs : q # p => procs'[q] = procs[q]
  BY DEF RecordTypes

\* A process that moves within its states, or stops.
LEMMA RecorderIs ==
  ASSUME RecordTypes, NEW p \in Procs
  PROVE  /\ IsRecorder(Idle) /\ Idle.pc = "idle"
         /\ \A pc \in RecorderPcs :
              LET s == [procs[p] EXCEPT !.pc = pc]
              IN IsRecorder(s) /\ s.pc = pc /\ s.record = procs[p].record /\ s.records = procs[p].records
  BY DEF RecordTypes, IsRecorder, Idle, RecorderPcs

\* A process that moves on with another record, or with the records to store.
WithRecord(s, pc, v) == [s EXCEPT !.pc = pc, !.record = v]
WithRecords(s, pc, v) == [s EXCEPT !.pc = pc, !.records = v]
LEMMA RecorderGets ==
  ASSUME NEW s, IsRecorder(s), NEW pc \in RecorderPcs, NEW v
  PROVE  /\ LET e == WithRecord(s, pc, v)
            IN IsRecorder(e) /\ e.pc = pc /\ e.record = v /\ e.records = s.records
         /\ LET e == WithRecords(s, pc, v)
            IN IsRecorder(e) /\ e.pc = pc /\ e.record = s.record /\ e.records = v
<1> DEFINE moved == [s EXCEPT !.pc = pc]
<1>1. moved = [pc |-> pc, record |-> s.record, records |-> s.records]
  BY DEF IsRecorder
<1>2. /\ [s EXCEPT !.pc = pc, !.record = v] = [moved EXCEPT !.record = v]
      /\ [s EXCEPT !.pc = pc, !.records = v] = [moved EXCEPT !.records = v]
  BY DEF IsRecorder
<1>3. WithRecord(s, pc, v) = [moved EXCEPT !.record = v] /\ WithRecords(s, pc, v) = [moved EXCEPT !.records = v]
  BY <1>2 DEF WithRecord, WithRecords
<1> HIDE DEF moved
<1>4. /\ [moved EXCEPT !.record = v] = [pc |-> pc, record |-> v, records |-> s.records]
      /\ [moved EXCEPT !.records = v] = [pc |-> pc, record |-> s.record, records |-> v]
  BY <1>1
<1>5. \A a, b : IsRecorder([pc |-> pc, record |-> a, records |-> b])
  BY DEF IsRecorder
<1> QED
  BY <1>3, <1>4, <1>5

\* No file, and a file that its writer leaves.
LEMMA FileIs ==
  ASSUME NEW f, IsFile(f), NEW p
  PROVE  /\ IsFile(NoFile) /\ NoFile.whole /\ ~NoFile.there /\ NoFile.records = {}
         /\ IsFile(Left(f, p)) /\ Left(f, p).whole = f.whole /\ Left(f, p).records = f.records
         /\ IsFile(Whole(f, p)) /\ Whole(f, p).records = f.records /\ Whole(f, p).there = f.there
         /\ f.whole => Whole(f, p).whole
         /\ f.writer = p => Whole(f, p).whole
         /\ f.writer # p => Whole(f, p) = f
  BY DEF IsFile, NoFile, Left, Whole

\* Nothing is stored.
LEMMA NoRecords == GoodRecords({})
  BY RecordsAssumption, FS_EmptySet DEF GoodRecords

\* A new record takes the place of the one of its request.
LEMMA ReplacedIs ==
  ASSUME NEW set, GoodRecords(set), NEW record,
         ~(Cardinality(Unreplaced(set, record)) >= MaxRecords)
  PROVE  GoodRecords(Unreplaced(set, record) \cup {record})
<1> DEFINE kept == Unreplaced(set, record)
<1>1. kept \subseteq set /\ \A r \in kept : Key(r) # Key(record)
  BY DEF Unreplaced
<1> HIDE DEF kept
<1>2. IsFiniteSet(kept)
  BY <1>1, FS_Subset DEF GoodRecords
<1>3. IsFiniteSet(kept \cup {record}) /\ Cardinality(kept \cup {record}) <= Cardinality(kept) + 1
      /\ Cardinality(kept) \in Nat /\ Cardinality(kept \cup {record}) \in Nat
  <2>1. IsFiniteSet(kept \cup {record})
        /\ Cardinality(kept \cup {record}) = IF record \in kept THEN Cardinality(kept) ELSE Cardinality(kept) + 1
    BY <1>2, FS_AddElement
  <2> QED
    BY <1>2, <2>1, FS_CardinalityType
<1>4. Cardinality(kept \cup {record}) <= MaxRecords
  BY <1>3, RecordsAssumption DEF kept
<1>5. \A a, b \in kept \cup {record} : Key(a) = Key(b) => a = b
  BY <1>1 DEF GoodRecords
<1> QED
  BY <1>3, <1>4, <1>5 DEF GoodRecords, kept

\* The documents change, or the store is cleared.
LEMMA OthersStep ==
  ASSUME RecordInv, EditTree \/ Clear
  PROVE  RecordInv'
<1>1. CASE EditTree
  <2>1. UNCHANGED <<procs, store, storeTmp, ackedRecords, shared, broken>>
    BY <1>1 DEF EditTree, recordFiles
  <2> QED
    BY <2>1 DEF RecordInv, RecordTypes, UnfinishedInv, IsWritten, TurnInv, RecorderAt
<1>2. CASE Clear
  <2>1. store' = NoFile /\ ackedRecords' = {} /\ UNCHANGED <<storeTmp, procs, shared, broken>>
    BY <1>2 DEF Clear
  <2>2. IsFile(NoFile) /\ NoFile.whole /\ NoFile.records = {}
    BY FileIs DEF RecordInv, RecordTypes
  <2>3. RecordTypes'
    BY <2>1, <2>2 DEF RecordInv, RecordTypes
  <2>4. UnfinishedInv'
    BY <2>1, <2>2 DEF RecordInv, UnfinishedInv, IsWritten
  <2>5. TurnInv'
    BY <2>1, <2>2, NoRecords DEF RecordInv, TurnInv, RecorderAt
  <2> QED
    BY <2>3, <2>4, <2>5 DEF RecordInv
<1> QED
  BY <1>1, <1>2

\* A command begins; from now on processes take turns no more, or all others rest.
LEMMA RunQueryStep ==
  ASSUME RecordInv, NEW p \in Procs, RunQuery(p)
  PROVE  RecordInv'
<1>1. PICK record : procs' = [procs EXCEPT ![p] = [Idle EXCEPT !.pc = "load", !.record = record]]
  BY DEF RunQuery
<1> DEFINE s == WithRecord(Idle, "load", record)
<1>2. IsRecorder(s) /\ s.pc = "load"
  <2>1. IsRecorder(Idle) /\ "load" \in RecorderPcs
    BY RecorderIs DEF RecordInv, RecorderPcs
  <2> QED
    BY <2>1, RecorderGets
<1> HIDE DEF s
<1>3. /\ procs' = [q \in Procs |-> procs'[q]] /\ \A q \in Procs : IsRecorder(procs'[q])
      /\ procs'[p] = s /\ \A q \in Procs : q # p => procs'[q] = procs[q]
  BY <1>1, <1>2, RecorderMoves DEF s, WithRecord, RecordInv
<1>4. /\ UNCHANGED <<store, storeTmp, ackedRecords, broken>> /\ procs[p].pc = "idle"
      /\ shared' = (shared \/ \E q \in Procs : procs[q].pc # "idle")
  BY DEF RunQuery, recordFiles
<1>5. RecordTypes'
  BY <1>3, <1>4 DEF RecordInv, RecordTypes
<1>6. UnfinishedInv'
  BY <1>3, <1>4 DEF RecordInv, UnfinishedInv, IsWritten
<1>7. TurnInv'
  BY <1>2, <1>3, <1>4 DEF RecordInv, TurnInv, RecorderAt, Holding
<1> QED
  BY <1>5, <1>6, <1>7 DEF RecordInv

\* A command that ends without having renamed anything, or its process dies: its
\* files are left as they are, or the temporary one is removed.
LEMMA StopMove ==
  ASSUME RecordInv, NEW p \in Procs, procs[p].pc # "idle", Fail(p), UNCHANGED <<ackedRecords, shared>>,
         store' = Left(store, p) \/ store' = store,
         storeTmp' = NoFile \/ storeTmp' = Left(storeTmp, p) \/ storeTmp' = storeTmp,
         \/ broken' = TRUE
         \/ broken' = broken /\ procs[p].pc # "write" /\ store' = store /\ storeTmp' \in {NoFile, storeTmp}
  PROVE  RecordInv'
<1>1. /\ procs' = [q \in Procs |-> procs'[q]] /\ \A q \in Procs : IsRecorder(procs'[q])
      /\ procs'[p].pc = "idle" /\ \A q \in Procs : q # p => procs'[q] = procs[q]
  BY RecorderMoves, RecorderIs DEF Fail, RecordInv
<1>2. /\ IsFile(store') /\ IsFile(storeTmp') /\ store'.whole = store.whole /\ store'.records = store.records
      /\ NoFile.whole
  BY FileIs DEF RecordInv, RecordTypes
<1>3. RecordTypes'
  BY <1>1, <1>2 DEF RecordInv, RecordTypes
<1>4. UnfinishedInv'
  BY <1>1, <1>2 DEF RecordInv, UnfinishedInv, IsWritten
<1>5. TurnInv'
  BY <1>1, <1>2 DEF RecordInv, TurnInv, RecorderAt, Holding
<1> QED
  BY <1>3, <1>4, <1>5 DEF RecordInv

\* The store is read; while processes take turns it is whole.
LEMMA LoadStep ==
  ASSUME RecordInv, NEW p \in Procs, Load(p)
  PROVE  RecordInv'
<1>1. procs[p].pc = "load" /\ UNCHANGED <<store, storeTmp, ackedRecords, shared, broken>>
  BY DEF Load, recordFiles, history
<1>2. CASE Fail(p)
  BY <1>1, <1>2, StopMove
<1>3. ASSUME NEW read \in (IF store.whole THEN {store.records} ELSE SUBSET store.records),
             ~(Cardinality(Unreplaced(read, procs[p].record)) >= MaxRecords),
             procs' = [procs EXCEPT ![p].pc = "clear_tmp",
                                    ![p].records = Unreplaced(read, procs[p].record) \cup {procs[p].record}]
      PROVE  RecordInv'
  <2> DEFINE record == procs[p].record
             records == Unreplaced(read, record) \cup {record}
             s == WithRecords(procs[p], "clear_tmp", records)
  <2>1. p \in DOMAIN procs /\ IsRecorder(procs[p])
    BY DEF RecordInv, RecordTypes
  <2>2. procs' = [procs EXCEPT ![p] = s]
    BY <1>3, <2>1 DEF WithRecords
  <2>3. IsRecorder(s) /\ s.pc = "clear_tmp" /\ s.record = record /\ s.records = records
    <3> HIDE DEF record, records
    <3>1. "clear_tmp" \in RecorderPcs
      BY DEF RecorderPcs
    <3> QED
      BY <2>1, <3>1, RecorderGets DEF record
  <2> HIDE DEF s
  <2>4. /\ procs' = [q \in Procs |-> procs'[q]] /\ \A q \in Procs : IsRecorder(procs'[q])
        /\ procs'[p] = s /\ \A q \in Procs : q # p => procs'[q] = procs[q]
    BY <2>2, <2>3, RecorderMoves DEF RecordInv
  <2>5. RecordTypes' /\ UnfinishedInv'
    <3>1. RecordTypes'
      BY <1>1, <2>4 DEF RecordInv, RecordTypes
    <3>2. UnfinishedInv'
      BY <1>1, <2>4 DEF RecordInv, UnfinishedInv, IsWritten
    <3> QED
      BY <3>1, <3>2
  <2>6. TurnInv'
    <3>1. ASSUME ~shared
          PROVE  RecorderAt(p)'
      <4>1. read = store.records /\ GoodRecords(read) /\ ackedRecords \subseteq read
        BY <1>3, <3>1 DEF RecordInv, TurnInv
      <4>2. GoodRecords(records)
        BY <1>3, <4>1, ReplacedIs
      <4>3. \A r \in ackedRecords : Key(r) # Key(record) => r \in records
        BY <4>1 DEF Unreplaced
      <4>4. record \in records
        OBVIOUS
      <4> HIDE DEF record, records
      <4> QED
        BY <1>1, <2>3, <2>4, <4>2, <4>3, <4>4 DEF RecorderAt
    <3>2. \A q \in Procs : q # p /\ ~shared => RecorderAt(q)'
      BY <1>1, <2>4 DEF RecordInv, TurnInv, RecorderAt
    <3> QED
      BY <1>1, <2>4, <3>1, <3>2 DEF RecordInv, TurnInv
  <2> QED
    BY <2>5, <2>6 DEF RecordInv
<1> QED
  BY <1>2, <1>3 DEF Load

\* A step of one process within its states, and what it does to the two files.
LEMMA ForthMove ==
  ASSUME RecordInv, NEW p \in Procs, NEW pc \in RecorderPcs, Go(p, pc), pc \in Holding,
         procs[p].pc \in Holding, UNCHANGED <<ackedRecords, shared, broken>>,
         \/ procs[p].pc # "write" /\ pc = "create" /\ storeTmp' = NoFile /\ store' = store
         \/ /\ procs[p].pc # "write" /\ pc = "write" /\ store' = store
            /\ storeTmp' = [there |-> TRUE, writer |-> p, whole |-> FALSE, records |-> procs[p].records]
         \/ /\ procs[p].pc = "write" /\ pc = "rename"
            /\ storeTmp' = Whole(storeTmp, p) /\ store' = Whole(store, p)
  PROVE  RecordInv'
<1>1. /\ procs' = [q \in Procs |-> procs'[q]] /\ \A q \in Procs : IsRecorder(procs'[q])
      /\ procs'[p].pc = pc /\ procs'[p].record = procs[p].record /\ procs'[p].records = procs[p].records
      /\ \A q \in Procs : q # p => procs'[q] = procs[q]
  <2> DEFINE s == [procs[p] EXCEPT !.pc = pc]
  <2>1. procs' = [procs EXCEPT ![p] = s]
    BY DEF Go, RecordInv, RecordTypes
  <2>2. IsRecorder(s) /\ s.pc = pc /\ s.record = procs[p].record /\ s.records = procs[p].records
    BY RecorderIs DEF RecordInv
  <2> HIDE DEF s
  <2> QED
    BY <2>1, <2>2, RecorderMoves DEF RecordInv
<1>2. /\ IsFile(NoFile) /\ NoFile.whole /\ ~NoFile.there
      /\ IsFile(store') /\ IsFile(storeTmp')
      /\ storeTmp' = Whole(storeTmp, p) =>
           /\ storeTmp'.records = storeTmp.records /\ storeTmp'.there = storeTmp.there
           /\ storeTmp.whole \/ storeTmp.writer = p => storeTmp'.whole = TRUE
           /\ storeTmp.writer # p => storeTmp' = storeTmp
      /\ store' = Whole(store, p) =>
           /\ store'.records = store.records
           /\ store.whole \/ store.writer = p => store'.whole = TRUE
           /\ store.writer # p => store' = store
  <2>1. IsFile(store) /\ IsFile(storeTmp)
    BY DEF RecordInv, RecordTypes
  <2>2. IsFile(NoFile) /\ NoFile.whole /\ ~NoFile.there
    BY <2>1, FileIs
  <2>3. ASSUME NEW f, IsFile(f)
        PROVE  /\ IsFile(Whole(f, p)) /\ Whole(f, p).records = f.records /\ Whole(f, p).there = f.there
               /\ f.whole \/ f.writer = p => Whole(f, p).whole = TRUE
               /\ f.writer # p => Whole(f, p) = f
    BY <2>3, FileIs DEF IsFile
  <2>4. IsFile([there |-> TRUE, writer |-> p, whole |-> FALSE, records |-> procs[p].records])
    BY DEF IsFile
  <2> QED
    BY <2>1, <2>2, <2>3, <2>4
<1>3. RecordTypes'
  BY <1>1, <1>2 DEF RecordInv, RecordTypes
<1>4. UnfinishedInv'
  <2> SUFFICES ASSUME ~broken
               PROVE  IsWritten(store.whole, store.writer)' /\ IsWritten(storeTmp.whole, storeTmp.writer)'
    BY DEF UnfinishedInv
  <2>1. IsWritten(store.whole, store.writer) /\ IsWritten(storeTmp.whole, storeTmp.writer)
    BY DEF RecordInv, UnfinishedInv
  <2>2. CASE procs[p].pc = "write" /\ pc = "rename" /\ storeTmp' = Whole(storeTmp, p) /\ store' = Whole(store, p)
    <3>1. IsWritten(store.whole, store.writer)'
      BY <1>1, <1>2, <2>1, <2>2 DEF IsWritten
    <3>2. IsWritten(storeTmp.whole, storeTmp.writer)'
      BY <1>1, <1>2, <2>1, <2>2 DEF IsWritten
    <3> QED
      BY <3>1, <3>2
  <2>3. CASE procs[p].pc # "write" /\ pc = "create" /\ storeTmp' = NoFile /\ store' = store
    BY <1>1, <1>2, <2>1, <2>3 DEF IsWritten
  <2>4. CASE /\ procs[p].pc # "write" /\ pc = "write" /\ store' = store
             /\ storeTmp' = [there |-> TRUE, writer |-> p, whole |-> FALSE, records |-> procs[p].records]
    BY <1>1, <1>2, <2>1, <2>4 DEF IsWritten
  <2> QED
    BY <2>2, <2>3, <2>4
<1>5. TurnInv'
  <2> SUFFICES ASSUME ~shared
               PROVE  /\ \A q \in Procs : q # p => procs'[q].pc = "idle"
                      /\ store'.whole /\ store'.records = store.records
                      /\ RecorderAt(p)'
    BY <1>1 DEF RecordInv, TurnInv, RecorderAt, Holding
  <2>1. \A q \in Procs : q # p => procs'[q].pc = "idle"
    BY <1>1 DEF RecordInv, TurnInv, Holding
  <2>2. store'.whole /\ store'.records = store.records
    BY <1>2 DEF RecordInv, TurnInv
  <2>3. RecorderAt(p)'
    BY <1>1, <1>2 DEF RecordInv, TurnInv, RecorderAt, Holding
  <2> QED
    BY <2>1, <2>2, <2>3
<1> QED
  BY <1>3, <1>4, <1>5 DEF RecordInv

\* The steps up to the rename.
LEMMA ForthStep ==
  ASSUME RecordInv, NEW p \in Procs, ClearTmp(p) \/ CreateTmp(p) \/ WriteTmp(p) \/ WriteTmpFails(p) \/ CrashRecorder(p)
  PROVE  RecordInv'
<1>1. CASE ClearTmp(p)
  BY <1>1, ForthMove DEF ClearTmp, Holding, RecorderPcs, history
<1>2. CASE CreateTmp(p)
  BY <1>2, ForthMove, StopMove DEF CreateTmp, Holding, RecorderPcs, history
<1>3. CASE WriteTmp(p)
  BY <1>3, ForthMove DEF WriteTmp, Holding, RecorderPcs, history
<1>4. CASE WriteTmpFails(p)
  BY <1>4, StopMove DEF WriteTmpFails, world
<1>5. CASE CrashRecorder(p)
  BY <1>5, StopMove DEF CrashRecorder, world
<1> QED
  BY <1>1, <1>2, <1>3, <1>4, <1>5

\* The rename: while processes take turns, the file is the process's own and whole.
LEMMA RenameStep ==
  ASSUME RecordInv, NEW p \in Procs, RenameTmp(p)
  PROVE  RecordInv'
<1>1. procs[p].pc = "rename" /\ Fail(p) /\ UNCHANGED <<shared, broken>>
  BY DEF RenameTmp, MayRename
<1>2. CASE ~storeTmp.there
  BY <1>1, <1>2, StopMove DEF RenameTmp
<1>3. CASE storeTmp.there
  <2>1. /\ store' = storeTmp /\ storeTmp' = NoFile
        /\ ackedRecords' = {r \in ackedRecords : Key(r) # Key(procs[p].record)} \cup {procs[p].record}
    BY <1>3 DEF RenameTmp
  <2>2. /\ procs' = [q \in Procs |-> procs'[q]] /\ \A q \in Procs : IsRecorder(procs'[q])
        /\ procs'[p].pc = "idle" /\ \A q \in Procs : q # p => procs'[q] = procs[q]
    BY <1>1, RecorderMoves, RecorderIs DEF Fail, RecordInv
  <2>3. IsFile(NoFile) /\ NoFile.whole
    BY FileIs DEF RecordInv, RecordTypes
  <2>4. RecordTypes'
    BY <1>1, <2>1, <2>2, <2>3 DEF RecordInv, RecordTypes
  <2>5. UnfinishedInv'
    BY <1>1, <2>1, <2>2, <2>3 DEF RecordInv, UnfinishedInv, IsWritten
  <2>6. TurnInv'
    BY <1>1, <2>1, <2>2 DEF RecordInv, TurnInv, RecorderAt, Holding
  <2> QED
    BY <2>4, <2>5, <2>6 DEF RecordInv
<1> QED
  BY <1>2, <1>3

\* Nothing is recorded yet.
LEMMA RecordsBegin ==
  ASSUME RecordsInit
  PROVE  RecordInv
<1>1. /\ procs = [p \in Procs |-> Idle] /\ store = NoFile /\ storeTmp = NoFile /\ ackedRecords = {}
      /\ shared = FALSE /\ broken = FALSE
  BY DEF RecordsInit
<1>2. IsRecorder(Idle) /\ Idle.pc = "idle" /\ IsFile(NoFile) /\ NoFile.whole /\ NoFile.records = {}
  BY DEF IsRecorder, Idle, RecorderPcs, IsFile, NoFile
<1> QED
  BY <1>1, <1>2, NoRecords DEF RecordInv, RecordTypes, UnfinishedInv, IsWritten, TurnInv, RecorderAt, Holding

\* persist_query_evidence, for any number of processes, requests and records: while
\* processes take turns, wherever one dies or fails, the store is whole, holds what was
\* acknowledged, one record of a request and no more than the limit; and if processes
\* overlap and all of them get through, it is whole again when they have.
THEOREM RecordsHold == RecordsSpec => []RecordsSurvive
<1>1. RecordInv /\ [RecordsNext]_recordVars => RecordInv'
  <2> SUFFICES ASSUME RecordInv, [RecordsNext]_recordVars
               PROVE  RecordInv'
    OBVIOUS
  <2>1. CASE RecordsNext
    BY <2>1, OthersStep, RunQueryStep, LoadStep, ForthStep, RenameStep DEF RecordsNext
  <2>2. CASE UNCHANGED recordVars
    BY <2>2 DEF recordVars, RecordInv, RecordTypes, UnfinishedInv, IsWritten, TurnInv, RecorderAt
  <2> QED
    BY <2>1, <2>2
<1>2. RecordInv => RecordsSurvive
  BY DEF RecordInv, UnfinishedInv, IsWritten, TurnInv, GoodRecords, RecordsSurvive, StoreSurvives, AckedRecordsStay, Stored, Quiet
<1> QED
  BY <1>1, <1>2, RecordsBegin, PTL DEF RecordsSpec
=============================================================================
