---------------------- MODULE FilesystemResultStoreProofs ----------------------
(***************************************************************************)
(* Proofs about FilesystemResultStore: any number of processes, whatever   *)
(* the batches, the clock and the limits.                                  *)
(*                                                                         *)
(* Everything rests on the lock: of the processes in a call only its       *)
(* holder is past the wait for it.  With any number of crashes and failed  *)
(* system calls, the directories of the holder's transaction are its own   *)
(* (Transactions).  With one of them, the batch directories are at every   *)
(* point of the call what the call has made of those it found when it took *)
(* the lock (Progress), and from that follow the promises of put_batch.    *)
(***************************************************************************)
EXTENDS FilesystemResultStore, FiniteSetTheorems, WellFoundedInduction, TLAPS

OneFailure == MaxFailures \in 0..1

Getting == {"lock", "sweep", "read"}
Undoing == {"restore", "unpublish"}
Putting == {"lock", "check", "sweep", "stage", "write", "discard", "quarantine", "move"} \cup Undoing
Places == Getting \cup Putting

CallStates ==
  [pc : Places, op : {"get", "put_batch"}, ids : Seq(Payloads), now : Ticks, todo : Seq(Payloads),
   evict : SUBSET BatchNames, moved : SUBSET BatchNames]

\* A set of batch directories
Tidy(dirs) ==
  /\ DOMAIN dirs \subseteq BatchNames /\ IsFiniteSet(DOMAIN dirs)
  /\ \A n \in DOMAIN dirs : dirs[n] \subseteq Range(n.ids)

Fits(ids) == ids # <<>> /\ Len(ids) <= MaxEntries /\ PayloadBytes(ids) <= MaxTotalBytes

DiskTypes ==
  /\ Tidy(batches)
  /\ DOMAIN staging \subseteq Procs
  /\ DOMAIN quarantine \subseteq Procs
  /\ \A p \in DOMAIN quarantine : Tidy(quarantine[p])

\* A call has got no further than its operation goes, and until it writes its
\* first file it has all of them before it
Proper(r, tick) ==
  /\ r.pc \in IF r.op = "get" THEN Getting ELSE Putting
  /\ r.now <= tick
  /\ r.op = "put_batch" => r.ids \in Batches /\ Fits(r.ids)
  /\ r.pc = "lock" => r.todo = IF r.op = "get" THEN <<>> ELSE r.ids
  /\ r.op = "put_batch" /\ r.pc \in {"check", "sweep", "stage"} => r.todo = r.ids
  /\ r.pc \in {"lock", "check", "sweep", "stage", "write", "quarantine"} => r.moved = {}

Types ==
  /\ DiskTypes
  /\ lock \in Procs \cup {NoProc}
  /\ proc \in [Procs -> {Idle} \cup CallStates]
  /\ failures \in 0..MaxFailures
  /\ latest \in Nat
  /\ \A p \in Procs : proc[p] # Idle => Proper(proc[p], latest)

Exclusive == \A p \in Procs : lock = p <=> proc[p].pc \notin {"idle", "lock"}

\* The files a call has written, and what it has yet to write
Written(p) == Len(proc[p].ids) - Len(proc[p].todo)
StagingInv(p) ==
  At(p, "write") =>
    /\ p \in DOMAIN staging
    /\ Written(p) \in 0..Len(proc[p].ids)
    /\ staging[p] = {proc[p].ids[i] : i \in 1..Written(p)}
    /\ \A i \in 1..Len(proc[p].todo) : proc[p].todo[i] = proc[p].ids[Written(p) + i]
    /\ \A i, j \in 1..Written(p) : proc[p].ids[i] = proc[p].ids[j] => i = j

\* The batches a call will move, and those it has moved: all of these are in
\* quarantine, some with more that a roll back could not rename back
QuarantineInv(p) ==
  /\ proc[p].pc \in {"write", "quarantine", "move"} => proc[p].evict \subseteq DOMAIN batches
  /\ At(p, "move") => p \in DOMAIN quarantine /\ DOMAIN quarantine[p] = proc[p].moved
  /\ At(p, "restore") => p \in DOMAIN quarantine /\ proc[p].moved \subseteq DOMAIN quarantine[p]

Transactions ==
  /\ Types /\ Exclusive
  /\ \A p \in Procs : StagingInv(p) /\ QuarantineInv(p)

(***************************************************************************)
(* One crash or failed system call                                         *)
(***************************************************************************)
Live(p) == Keep(prior, {n \in DOMAIN prior : ~ Expired(n.tick, proc[p].now)})
Evicted(p) == {n \in DOMAIN Live(p) : Overflows(FromOn(Live(p), n), proc[p].ids)}
Published(p) == Put(Live(p), Target(p), Range(proc[p].ids))

\* What the holder of the lock has made of prior
Progress(p) ==
  /\ proc[p].op = "put_batch" /\ ~ At(p, "check") => Target(p) \notin DOMAIN prior
  /\ proc[p].pc \in {"check", "sweep"} => batches = prior
  /\ proc[p].pc \in {"read", "stage", "write", "discard"} => batches = Live(p)
  /\ proc[p].pc \in {"write", "quarantine"} => proc[p].evict = Evicted(p)
  /\ proc[p].pc \in {"quarantine", "unpublish"} => batches = Published(p)
  /\ proc[p].pc \in {"move", "restore"} =>
       /\ batches = Drop(Published(p), proc[p].moved)
       /\ proc[p].moved \subseteq Evicted(p)
       /\ \A n \in proc[p].moved : n \in DOMAIN quarantine[p] /\ quarantine[p][n] = prior[n]
  /\ At(p, "move") =>
       /\ proc[p].evict = Evicted(p) \ proc[p].moved
       /\ \A n \in proc[p].moved, m \in proc[p].evict : ~ Older(m, n)
  /\ proc[p].pc \in Undoing => failures > 0

Whole(dirs) == \A n \in DOMAIN dirs : dirs[n] = Range(n.ids) \/ Expired(n.tick, latest)

IInv ==
  /\ Transactions
  /\ Whole(batches) /\ Whole(prior) /\ Tidy(prior)
  /\ \A p \in Procs : lock = p => Progress(p)

(***************************************************************************)
(* Directories and what is counted in them                                 *)
(***************************************************************************)
Entries(dirs) == UNION {{<<n, f>> : f \in dirs[n]} : n \in DOMAIN dirs}
FileBytes(n, f) == {<<n, f, i>> : i \in 1..Size[f]}
BytesOf(dirs) == UNION {UNION {FileBytes(n, f) : f \in dirs[n]} : n \in DOMAIN dirs}
Positions(ids) == UNION {{<<i, j>> : j \in 1..Size[ids[i]]} : i \in DOMAIN ids}

LEMMA CountsAreCardinalities ==
  ASSUME NEW dirs, NEW ids
  PROVE  /\ EntryCount(dirs) = Cardinality(Entries(dirs)) /\ ByteCount(dirs) = Cardinality(BytesOf(dirs))
         /\ PayloadBytes(ids) = Cardinality(Positions(ids))
BY DEF EntryCount, ByteCount, PayloadBytes, Entries, BytesOf, Positions, FileBytes

LEMMA RangeFinite ==
  ASSUME NEW ids \in Seq(Payloads)
  PROVE  /\ IsFiniteSet(Range(ids)) /\ Cardinality(Range(ids)) <= Len(ids) /\ Range(ids) \subseteq Payloads
<1>1. DOMAIN ids = 1..Len(ids) /\ Len(ids) \in Nat
  OBVIOUS
<1>2. IsFiniteSet(1..Len(ids)) /\ Cardinality(1..Len(ids)) = Len(ids)
  BY <1>1, FS_Interval
<1>3. ids \in Surjection(1..Len(ids), Range(ids))
  BY <1>1 DEF Surjection, Range
<1>4. IsFiniteSet(Range(ids)) /\ Cardinality(Range(ids)) <= Len(ids)
  BY <1>2, <1>3, FS_Surjection
<1>5. Range(ids) \subseteq Payloads
  BY <1>1 DEF Range
<1> QED
  BY <1>4, <1>5

\* Tidy directories are finite sets of finite sets of payloads.
LEMMA TidyFinite ==
  ASSUME NEW dirs, Tidy(dirs)
  PROVE  \A n \in DOMAIN dirs : n \in BatchNames /\ IsFiniteSet(dirs[n]) /\ dirs[n] \subseteq Payloads
<1> SUFFICES ASSUME NEW n \in DOMAIN dirs
             PROVE  n \in BatchNames /\ IsFiniteSet(dirs[n]) /\ dirs[n] \subseteq Payloads
  OBVIOUS
<1>1. n \in BatchNames /\ n.ids \in Seq(Payloads) /\ dirs[n] \subseteq Range(n.ids)
  BY InputAssumption DEF Tidy, BatchNames
<1>2. IsFiniteSet(Range(n.ids)) /\ Range(n.ids) \subseteq Payloads
  BY <1>1, RangeFinite
<1> QED
  BY <1>1, <1>2, FS_Subset

LEMMA CountsFinite ==
  ASSUME NEW dirs, Tidy(dirs)
  PROVE  /\ IsFiniteSet(Entries(dirs)) /\ IsFiniteSet(BytesOf(dirs))
         /\ EntryCount(dirs) \in Nat /\ ByteCount(dirs) \in Nat
<1> DEFINE E(n) == {<<n, f>> : f \in dirs[n]}
           B(n) == UNION {FileBytes(n, f) : f \in dirs[n]}
<1>1. IsFiniteSet(DOMAIN dirs) /\ \A n \in DOMAIN dirs : IsFiniteSet(dirs[n]) /\ dirs[n] \subseteq Payloads
  BY TidyFinite DEF Tidy
<1>2. ASSUME NEW n \in DOMAIN dirs PROVE IsFiniteSet(E(n)) /\ IsFiniteSet(B(n))
  <2>1. IsFiniteSet(E(n))
    <3> DEFINE g == [f \in dirs[n] |-> <<n, f>>]
    <3>1. g \in Surjection(dirs[n], E(n))
      BY DEF Surjection
    <3> QED
      BY <1>1, <3>1, FS_Surjection
  <2>2. ASSUME NEW f \in dirs[n] PROVE IsFiniteSet(FileBytes(n, f))
    <3> DEFINE g == [i \in 1..Size[f] |-> <<n, f, i>>]
    <3>1. g \in Surjection(1..Size[f], FileBytes(n, f))
      BY DEF Surjection, FileBytes
    <3>2. Size[f] \in Nat
      BY <1>1, InputAssumption
    <3> QED
      BY <3>1, <3>2, FS_Interval, FS_Surjection
  <2>3. IsFiniteSet({FileBytes(n, f) : f \in dirs[n]})
    <3> DEFINE g == [f \in dirs[n] |-> FileBytes(n, f)]
    <3>1. g \in Surjection(dirs[n], {FileBytes(n, f) : f \in dirs[n]})
      BY DEF Surjection
    <3> QED
      BY <1>1, <3>1, FS_Surjection
  <2>4. IsFiniteSet(B(n))
    BY <2>2, <2>3, FS_UNION
  <2> QED
    BY <2>1, <2>4
<1>3. IsFiniteSet({E(n) : n \in DOMAIN dirs}) /\ IsFiniteSet({B(n) : n \in DOMAIN dirs})
  <2> DEFINE g == [n \in DOMAIN dirs |-> E(n)]
             h == [n \in DOMAIN dirs |-> B(n)]
  <2>1. g \in Surjection(DOMAIN dirs, {E(n) : n \in DOMAIN dirs})
    BY DEF Surjection
  <2>2. h \in Surjection(DOMAIN dirs, {B(n) : n \in DOMAIN dirs})
    BY DEF Surjection
  <2> HIDE DEF g, h
  <2> QED
    BY <1>1, <2>1, <2>2, FS_Surjection
<1>4. IsFiniteSet(UNION {E(n) : n \in DOMAIN dirs})
  BY <1>2, <1>3, FS_UNION
<1>5. IsFiniteSet(UNION {B(n) : n \in DOMAIN dirs})
  BY <1>2, <1>3, FS_UNION
<1> QED
  BY <1>4, <1>5, CountsAreCardinalities, FS_CardinalityType DEF Entries, BytesOf

LEMMA PositionsFinite ==
  ASSUME NEW ids \in Seq(Payloads)
  PROVE  IsFiniteSet(Positions(ids)) /\ PayloadBytes(ids) \in Nat
<1> DEFINE P(i) == {<<i, j>> : j \in 1..Size[ids[i]]}
<1>1. DOMAIN ids = 1..Len(ids) /\ IsFiniteSet(DOMAIN ids)
  BY FS_Interval
<1>2. ASSUME NEW i \in DOMAIN ids PROVE IsFiniteSet(P(i))
  <2> DEFINE g == [j \in 1..Size[ids[i]] |-> <<i, j>>]
  <2>1. g \in Surjection(1..Size[ids[i]], P(i))
    BY DEF Surjection
  <2>2. Size[ids[i]] \in Nat
    BY <1>1, InputAssumption
  <2> QED
    BY <2>1, <2>2, FS_Interval, FS_Surjection
<1>3. IsFiniteSet({P(i) : i \in DOMAIN ids})
  <2> DEFINE g == [i \in DOMAIN ids |-> P(i)]
  <2>1. g \in Surjection(DOMAIN ids, {P(i) : i \in DOMAIN ids})
    BY DEF Surjection
  <2> HIDE DEF g
  <2> QED
    BY <1>1, <2>1, FS_Surjection
<1>4. IsFiniteSet(UNION {P(i) : i \in DOMAIN ids})
  BY <1>2, <1>3, FS_UNION
<1> QED
  BY <1>4, CountsAreCardinalities, FS_CardinalityType DEF Positions

\* A part of the directories
PartOf(part, dirs) == DOMAIN part \subseteq DOMAIN dirs /\ \A n \in DOMAIN part : part[n] \subseteq dirs[n]

LEMMA PartCounts ==
  ASSUME NEW dirs, Tidy(dirs), NEW part, PartOf(part, dirs)
  PROVE  /\ Tidy(part) /\ EntryCount(part) <= EntryCount(dirs) /\ ByteCount(part) <= ByteCount(dirs)
<1>1. Tidy(part)
  BY FS_Subset DEF Tidy, PartOf
<1>2. Entries(part) \subseteq Entries(dirs) /\ BytesOf(part) \subseteq BytesOf(dirs)
  BY DEF PartOf, Entries, BytesOf
<1>3. IsFiniteSet(Entries(dirs)) /\ IsFiniteSet(BytesOf(dirs))
  BY CountsFinite
<1> QED
  BY <1>1, <1>2, <1>3, FS_Subset, CountsAreCardinalities

LEMMA UnionBound ==
  ASSUME NEW A, NEW S, NEW T, A \subseteq S \cup T, IsFiniteSet(S), IsFiniteSet(T), NEW k \in Nat, Cardinality(T) <= k
  PROVE  IsFiniteSet(A) /\ Cardinality(A) <= Cardinality(S) + k
<1>1. IsFiniteSet(S \cup T) /\ Cardinality(S \cup T) = Cardinality(S) + Cardinality(T) - Cardinality(S \cap T)
  BY FS_Union
<1>2. IsFiniteSet(A) /\ Cardinality(A) <= Cardinality(S \cup T)
  BY <1>1, FS_Subset
<1>3. IsFiniteSet(S \cap T)
  BY FS_Subset
<1>4. Cardinality(S) \in Nat /\ Cardinality(T) \in Nat /\ Cardinality(S \cap T) \in Nat
      /\ Cardinality(A) \in Nat /\ Cardinality(S \cup T) \in Nat
  BY <1>1, <1>2, <1>3, FS_CardinalityType
<1> QED
  BY <1>1, <1>2, <1>4

\* A batch adds at most its length, and at most the bytes of its payloads.
LEMMA PutCounts ==
  ASSUME NEW dirs, Tidy(dirs), NEW n \in BatchNames, n.ids \in Batches
  PROVE  LET all == Put(dirs, n, Range(n.ids))
         IN  /\ Tidy(all)
             /\ EntryCount(all) <= EntryCount(dirs) + Len(n.ids)
             /\ ByteCount(all) <= ByteCount(dirs) + PayloadBytes(n.ids)
<1> DEFINE ids == n.ids
           all == Put(dirs, n, Range(ids))
           new == {<<n, f>> : f \in Range(ids)}
           bytes == UNION {FileBytes(n, f) : f \in Range(ids)}
<1>1. ids \in Seq(Payloads) /\ Len(ids) \in Nat
  BY InputAssumption
<1>2. /\ DOMAIN all = DOMAIN dirs \cup {n} /\ all[n] = Range(ids)
      /\ \A m \in DOMAIN dirs : m # n => all[m] = dirs[m]
  BY DEF Put
<1> HIDE DEF all
<1>3. Tidy(all)
  <2>1. IsFiniteSet(DOMAIN dirs \cup {n})
    BY FS_AddElement DEF Tidy
  <2> QED
    BY <1>2, <2>1 DEF Tidy
<1>4. Entries(all) \subseteq Entries(dirs) \cup new /\ BytesOf(all) \subseteq BytesOf(dirs) \cup bytes
  BY <1>2 DEF Entries, BytesOf
<1>5. IsFiniteSet(new) /\ Cardinality(new) <= Len(ids)
  <2> DEFINE g == [f \in Range(ids) |-> <<n, f>>]
  <2>1. g \in Surjection(Range(ids), new)
    BY DEF Surjection
  <2>2. IsFiniteSet(Range(ids)) /\ Cardinality(Range(ids)) <= Len(ids) /\ Cardinality(Range(ids)) \in Nat
    BY <1>1, RangeFinite, FS_CardinalityType
  <2>3. IsFiniteSet(new) /\ Cardinality(new) <= Cardinality(Range(ids))
    BY <2>1, <2>2, FS_Surjection
  <2>4. Cardinality(new) \in Nat
    BY <2>3, FS_CardinalityType
  <2> HIDE DEF new, g
  <2> QED
    BY <1>1, <2>2, <2>3, <2>4
<1>6. IsFiniteSet(bytes) /\ Cardinality(bytes) <= PayloadBytes(ids)
  <2> DEFINE g == [x \in Positions(ids) |-> <<n, ids[x[1]], x[2]>>]
  <2>1. bytes \subseteq {g[x] : x \in Positions(ids)}
    <3> SUFFICES ASSUME NEW i \in DOMAIN ids, NEW j \in 1..Size[ids[i]]
                 PROVE  <<n, ids[i], j>> \in {g[x] : x \in Positions(ids)}
      BY DEF Range, FileBytes
    <3>1. <<i, j>> \in Positions(ids) /\ g[<<i, j>>] = <<n, ids[i], j>>
      BY DEF Positions
    <3> QED
      BY <3>1
  <2>2. IsFiniteSet(Positions(ids)) /\ PayloadBytes(ids) = Cardinality(Positions(ids))
    BY <1>1, PositionsFinite, CountsAreCardinalities
  <2>3. IsFiniteSet({g[x] : x \in Positions(ids)}) /\ Cardinality({g[x] : x \in Positions(ids)}) <= Cardinality(Positions(ids))
    <3>1. g \in Surjection(Positions(ids), {g[x] : x \in Positions(ids)})
      BY DEF Surjection
    <3> QED
      BY <2>2, <3>1, FS_Surjection
  <2>4. IsFiniteSet(bytes) /\ Cardinality(bytes) <= Cardinality({g[x] : x \in Positions(ids)})
    BY <2>1, <2>3, FS_Subset
  <2>5. Cardinality(bytes) \in Nat /\ Cardinality({g[x] : x \in Positions(ids)}) \in Nat /\ Cardinality(Positions(ids)) \in Nat
    BY <2>2, <2>3, <2>4, FS_CardinalityType
  <2> HIDE DEF bytes, g
  <2> QED
    BY <2>2, <2>3, <2>4, <2>5
<1>7. IsFiniteSet(Entries(dirs)) /\ IsFiniteSet(BytesOf(dirs))
  BY CountsFinite
<1> HIDE DEF new, bytes, ids
<1>8. Cardinality(Entries(all)) <= Cardinality(Entries(dirs)) + Len(ids)
  BY <1>1, <1>4, <1>5, <1>7, UnionBound
<1>9. Cardinality(BytesOf(all)) <= Cardinality(BytesOf(dirs)) + PayloadBytes(ids)
  BY <1>1, <1>4, <1>6, <1>7, UnionBound, PositionsFinite
<1> QED
  BY <1>3, <1>8, <1>9, CountsAreCardinalities DEF all, ids
(***************************************************************************)
(* The order of batches, and what put_batch evicts                         *)
(***************************************************************************)
LEMMA OlderOrders ==
  /\ \A m \in BatchNames : ~ Older(m, m)
  /\ \A l, m, n \in BatchNames : Older(l, m) /\ Older(m, n) => Older(l, n)
  /\ \A m, n \in BatchNames : Older(m, n) \/ Older(n, m) \/ m = n
<1>1. \A m \in BatchNames : m.tick \in Nat /\ DigestOrder[m.ids] \in Nat /\ m.ids \in Batches
  BY InputAssumption DEF BatchNames
<1>2. ASSUME NEW m \in BatchNames, NEW n \in BatchNames, ~ Older(m, n), ~ Older(n, m)
      PROVE  m = n
  <2>1. m.tick = n.tick /\ DigestOrder[m.ids] = DigestOrder[n.ids]
    BY <1>1, <1>2 DEF Older
  <2>2. m.ids = n.ids
    BY <1>1, <2>1, InputAssumption
  <2> QED
    BY <2>1, <2>2 DEF BatchNames
<1>3. ASSUME NEW l \in BatchNames, NEW m \in BatchNames, NEW n \in BatchNames, Older(l, m), Older(m, n)
      PROVE  Older(l, n)
  BY <1>1, <1>3 DEF Older
<1>4. ASSUME NEW m \in BatchNames PROVE ~ Older(m, m)
  BY <1>1 DEF Older
<1> QED
  BY <1>2, <1>3, <1>4

\* Every non-empty set of naturals has a least element.
LEMMA LeastNatural ==
  ASSUME NEW N \in SUBSET Nat, N # {}
  PROVE  \E n \in N : \A m \in N : n <= m
<1> DEFINE less == {mn \in Nat \X Nat : mn[1] < mn[2]}
<1>1. IsWellFoundedOn(less, Nat)
  BY NatLessThanWellFounded DEF OpToRel
<1> HIDE DEF less
<1>2. PICK n \in N : \A m \in N : ~ (<<m, n>> \in less)
  BY <1>1, WFMin, Zenon
<1>3. \A m, n_1 \in Nat : <<m, n_1>> \in less <=> m < n_1
  BY DEF less
<1>4. \A m \in N : ~ (m < n)
  BY <1>2, <1>3, Zenon
<1> QED
  BY <1>4

\* Of finitely many batches one is the oldest.
LEMMA OldestExists ==
  ASSUME NEW S \in SUBSET BatchNames, IsFiniteSet(S), S # {}
  PROVE  \E n \in S : \A m \in S : ~ Older(m, n)
<1> DEFINE Before(n) == {m \in S : Older(m, n)}
           N == {Cardinality(Before(n)) : n \in S}
<1>1. \A n \in S : IsFiniteSet(Before(n)) /\ Cardinality(Before(n)) \in Nat
  BY FS_Subset, FS_CardinalityType
<1>2. N \in SUBSET Nat /\ N # {}
  BY <1>1
<1>3. PICK k \in N : \A l \in N : k <= l
  BY <1>2, LeastNatural
<1>4. PICK n \in S : k = Cardinality(Before(n))
  BY <1>3
<1>5. ASSUME NEW m \in S, Older(m, n)
      PROVE  FALSE
  <2>1. Before(m) \subseteq Before(n) /\ m \in Before(n) /\ m \notin Before(m)
    BY <1>5, OlderOrders
  <2>2. Cardinality(Before(m)) < Cardinality(Before(n))
    <3> HIDE DEF Before
    <3>1. Cardinality(Before(m)) <= Cardinality(Before(n))
          /\ (Cardinality(Before(m)) = Cardinality(Before(n)) => Before(m) = Before(n))
      BY <1>1, <2>1, FS_Subset
    <3> QED
      BY <1>1, <2>1, <3>1
  <2>3. k <= Cardinality(Before(m))
    BY <1>3
  <2> QED
    BY <1>1, <1>4, <2>2, <2>3
<1> QED
  BY <1>5

LEMMA FromOnParts ==
  ASSUME NEW dirs, NEW n
  PROVE  /\ DOMAIN FromOn(dirs, n) = {m \in DOMAIN dirs : ~ Older(m, n)}
         /\ \A m \in DOMAIN FromOn(dirs, n) : FromOn(dirs, n)[m] = dirs[m]
         /\ PartOf(FromOn(dirs, n), dirs)
BY DEF FromOn, Keep, PartOf

\* More directories overflow sooner.
LEMMA OverflowsMore ==
  ASSUME NEW dirs, Tidy(dirs), NEW part, PartOf(part, dirs), NEW ids \in Batches, Overflows(part, ids)
  PROVE  Overflows(dirs, ids)
<1>1. /\ Tidy(part) /\ EntryCount(part) <= EntryCount(dirs) /\ ByteCount(part) <= ByteCount(dirs)
      /\ EntryCount(dirs) \in Nat /\ ByteCount(dirs) \in Nat
  BY PartCounts, CountsFinite
<1>2. /\ EntryCount(part) \in Nat /\ ByteCount(part) \in Nat
      /\ Len(ids) \in Nat /\ PayloadBytes(ids) \in Nat
  BY <1>1, CountsFinite, PositionsFinite, InputAssumption
<1> QED
  BY <1>1, <1>2, LimitsAssumption DEF Overflows

EvictedOf(dirs, ids) == {n \in DOMAIN dirs : Overflows(FromOn(dirs, n), ids)}

\* What is evicted is older than what is not.
LEMMA EvictedAreOldest ==
  ASSUME NEW dirs, Tidy(dirs), NEW ids \in Batches,
         NEW n \in EvictedOf(dirs, ids), NEW m \in DOMAIN dirs \ EvictedOf(dirs, ids)
  PROVE  Older(n, m)
<1> SUFFICES ASSUME ~ Older(n, m) PROVE FALSE
  OBVIOUS
<1>1. n \in DOMAIN dirs /\ DOMAIN dirs \subseteq BatchNames /\ m # n
  BY DEF EvictedOf, Tidy
<1>2. Older(m, n)
  BY <1>1, OlderOrders
<1>3. PartOf(FromOn(dirs, n), FromOn(dirs, m))
  <2>1. \A k \in DOMAIN dirs : Older(k, m) => Older(k, n)
    BY <1>1, <1>2, OlderOrders
  <2>2. DOMAIN FromOn(dirs, n) \subseteq DOMAIN FromOn(dirs, m)
    BY <2>1 DEF FromOn, Keep
  <2>3. \A k \in DOMAIN FromOn(dirs, n) : FromOn(dirs, n)[k] = dirs[k] /\ FromOn(dirs, m)[k] = dirs[k]
    BY <2>1 DEF FromOn, Keep
  <2> QED
    BY <2>2, <2>3 DEF PartOf
<1>4. Tidy(FromOn(dirs, m))
  BY FromOnParts, PartCounts
<1>5. Overflows(FromOn(dirs, m), ids)
  BY <1>3, <1>4, OverflowsMore DEF EvictedOf
<1> QED
  BY <1>5 DEF EvictedOf

\* Without them the batch fits.
LEMMA RoomIsMade ==
  ASSUME NEW dirs, Tidy(dirs), NEW n \in BatchNames, Fits(n.ids),
         NEW left, DOMAIN left = DOMAIN dirs \ EvictedOf(dirs, n.ids), \A m \in DOMAIN left : left[m] = dirs[m]
  PROVE  Within(Put(left, n, Range(n.ids)))
<1> DEFINE ids == n.ids
<1>1. ids \in Batches /\ ids \in Seq(Payloads) /\ Len(ids) \in Nat /\ PayloadBytes(ids) \in Nat
  BY PositionsFinite, InputAssumption DEF BatchNames
<1>2. PartOf(left, dirs)
  BY DEF PartOf
<1>3. Tidy(left) /\ EntryCount(left) \in Nat /\ ByteCount(left) \in Nat
  BY <1>2, PartCounts, CountsFinite
<1>4. EntryCount(left) + Len(ids) <= MaxEntries /\ ByteCount(left) + PayloadBytes(ids) <= MaxTotalBytes
  <2>1. CASE DOMAIN left = {}
    <3>1. Entries(left) = {} /\ BytesOf(left) = {}
      BY <2>1 DEF Entries, BytesOf
    <3>2. EntryCount(left) = 0 /\ ByteCount(left) = 0
      BY <3>1, FS_EmptySet, CountsAreCardinalities
    <3> QED
      BY <1>1, <3>2 DEF Fits
  <2>2. CASE DOMAIN left # {}
    <3>1. PICK m \in DOMAIN left : \A k \in DOMAIN left : ~ Older(k, m)
      BY <1>3, <2>2, OldestExists DEF Tidy
    <3>2. ~ Overflows(FromOn(dirs, m), ids) /\ m \in DOMAIN dirs
      BY <3>1 DEF EvictedOf
    <3>3. PartOf(left, FromOn(dirs, m))
      <4>1. DOMAIN left \subseteq DOMAIN FromOn(dirs, m)
        BY <3>1 DEF FromOn, Keep
      <4>2. \A k \in DOMAIN left : FromOn(dirs, m)[k] = dirs[k]
        BY <3>1 DEF FromOn, Keep
      <4> QED
        BY <4>1, <4>2 DEF PartOf
    <3>4. Tidy(FromOn(dirs, m))
      BY FromOnParts, PartCounts
    <3>5. ~ Overflows(left, ids)
      BY <1>1, <3>2, <3>3, <3>4, OverflowsMore
    <3> QED
      BY <1>1, <1>3, <3>5, LimitsAssumption DEF Overflows
  <2> QED
    BY <2>1, <2>2
<1>5. /\ Tidy(Put(left, n, Range(ids)))
      /\ EntryCount(Put(left, n, Range(ids))) <= EntryCount(left) + Len(ids)
      /\ ByteCount(Put(left, n, Range(ids))) <= ByteCount(left) + PayloadBytes(ids)
  BY <1>1, <1>3, PutCounts
<1>6. EntryCount(Put(left, n, Range(ids))) \in Nat /\ ByteCount(Put(left, n, Range(ids))) \in Nat
  BY <1>5, CountsFinite
<1> HIDE DEF ids
<1>7. EntryCount(Put(left, n, Range(ids))) <= MaxEntries /\ ByteCount(Put(left, n, Range(ids))) <= MaxTotalBytes
  BY <1>1, <1>3, <1>4, <1>5, <1>6, LimitsAssumption
<1> QED
  BY <1>7 DEF Within, ids

(***************************************************************************)
(* Steps of a call, whatever fails                                         *)
(***************************************************************************)
LEMMA DropTidy ==
  ASSUME NEW dirs, Tidy(dirs), NEW S
  PROVE  Tidy(Drop(dirs, S))
<1>1. IsFiniteSet(DOMAIN dirs \ S)
  BY FS_Subset DEF Tidy
<1> QED
  BY <1>1 DEF Tidy, Drop

LEMMA PutTidy ==
  ASSUME NEW dirs, Tidy(dirs), NEW n \in BatchNames, NEW files \in SUBSET Range(n.ids)
  PROVE  Tidy(Put(dirs, n, files))
<1>1. IsFiniteSet(DOMAIN dirs \cup {n})
  BY FS_AddElement DEF Tidy
<1>2. DOMAIN Put(dirs, n, files) = DOMAIN dirs \cup {n}
  BY DEF Put
<1>3. \A m \in DOMAIN Put(dirs, n, files) : Put(dirs, n, files)[m] = IF m = n THEN files ELSE dirs[m]
  BY DEF Put
<1> QED
  BY <1>1, <1>2, <1>3 DEF Tidy

\* What a removal cut short leaves is tidy, and the batches it was not about
\* are as they were.
LEMMA PartlyRemovedKeeps ==
  ASSUME Tidy(batches), NEW names, PartlyRemoved(names)
  PROVE  /\ Tidy(batches')
         /\ DOMAIN batches' \subseteq DOMAIN batches
         /\ \A n \in DOMAIN batches \ names : n \in DOMAIN batches' /\ batches'[n] = batches[n]
<1>1. PICK gone \in SUBSET names :
        \/ batches' = Drop(batches, gone)
        \/ \E n \in names \ gone : \E left \in SUBSET batches[n] :
             batches' = [Drop(batches, gone) EXCEPT ![n] = left]
  BY DEF PartlyRemoved
<1>2. CASE batches' = Drop(batches, gone)
  BY <1>2, DropTidy DEF Drop
<1>3. CASE \E n \in names \ gone : \E left \in SUBSET batches[n] :
             batches' = [Drop(batches, gone) EXCEPT ![n] = left]
  <2>0. PICK n \in names \ gone : \E left \in SUBSET batches[n] : batches' = [Drop(batches, gone) EXCEPT ![n] = left]
    BY <1>3
  <2>1. PICK left \in SUBSET batches[n] : batches' = [Drop(batches, gone) EXCEPT ![n] = left]
    BY <2>0
  <2>2. DOMAIN batches' = DOMAIN batches \ gone
    BY <2>1 DEF Drop
  <2>3. \A m \in DOMAIN batches' : batches'[m] = IF m = n THEN left ELSE batches[m]
    BY <2>1, <2>2 DEF Drop
  <2>4. IsFiniteSet(DOMAIN batches')
    BY <2>2, FS_Subset DEF Tidy
  <2> QED
    BY <2>2, <2>3, <2>4 DEF Tidy
<1> QED
  BY <1>1, <1>2, <1>3

LEMMA InCall ==
  ASSUME Transactions, NEW p \in Procs, ~ At(p, "idle")
  PROVE  proc[p] # Idle /\ proc[p] \in CallStates /\ Proper(proc[p], latest) /\ proc[p].pc \in Places
<1>1. proc[p] # Idle
  BY DEF At, Idle
<1> QED
  BY <1>1 DEF Transactions, Types, CallStates

LEMMA IdleProc ==
  ASSUME Transactions, NEW p \in Procs
  PROVE  /\ proc[p] = Idle <=> At(p, "idle")
         /\ At(p, "idle") \/ At(p, "lock") => lock # p
         /\ ~ At(p, "idle") /\ ~ At(p, "lock") => lock = p
<1>1. "idle" \notin Places
  BY DEF Places, Getting, Putting, Undoing
<1>2. proc[p] = Idle \/ proc[p].pc \in Places
  BY DEF Transactions, Types, CallStates
<1>3. proc[p] = Idle <=> At(p, "idle")
  BY <1>1, <1>2 DEF At, Idle
<1> QED
  BY <1>3 DEF Transactions, Exclusive, At

LEMMA SameTransaction ==
  ASSUME NEW q \in Procs, StagingInv(q), QuarantineInv(q), UNCHANGED disk, proc'[q] = proc[q]
  PROVE  StagingInv(q)' /\ QuarantineInv(q)'
<1>1. batches' = batches /\ staging' = staging /\ quarantine' = quarantine
  BY DEF disk
<1>2. StagingInv(q)'
  <2>1. Written(q)' = Written(q) /\ (At(q, "write")' <=> At(q, "write"))
    BY DEF Written, At
  <2>2. SUFFICES ASSUME At(q, "write") PROVE StagingInv(q)'
    BY <2>1 DEF StagingInv
  <2> DEFINE w == Written(q)
  <2>3. Written(q)' = w /\ staging'[q] = staging[q] /\ DOMAIN staging' = DOMAIN staging
    BY <1>1, <2>1
  <2>4. /\ q \in DOMAIN staging /\ w \in 0..Len(proc[q].ids)
        /\ staging[q] = {proc[q].ids[i] : i \in 1..w}
        /\ \A i \in 1..Len(proc[q].todo) : proc[q].todo[i] = proc[q].ids[w + i]
        /\ \A i, j \in 1..w : proc[q].ids[i] = proc[q].ids[j] => i = j
    BY <2>2 DEF StagingInv
  <2> HIDE DEF w
  <2> QED
    BY <2>3, <2>4 DEF StagingInv
<1>3. QuarantineInv(q)'
  <2>1. proc'[q].pc = proc[q].pc /\ proc'[q].evict = proc[q].evict /\ proc'[q].moved = proc[q].moved
    OBVIOUS
  <2>2. DOMAIN batches' = DOMAIN batches /\ DOMAIN quarantine' = DOMAIN quarantine
        /\ DOMAIN quarantine'[q] = DOMAIN quarantine[q]
    BY <1>1
  <2> QED
    BY <2>1, <2>2 DEF QuarantineInv, At
<1> QED
  BY <1>2, <1>3

\* The directories of other calls are not disturbed: none of them has any.
LEMMA OthersKept ==
  ASSUME Transactions, NEW p \in Procs, lock \in {p, NoProc} \/ UNCHANGED disk,
         NEW q \in Procs, q # p, proc'[q] = proc[q]
  PROVE  StagingInv(q)' /\ QuarantineInv(q)'
<1>1. CASE lock \in {p, NoProc}
  <2>1. proc[q].pc \in {"idle", "lock"}
    BY <1>1, LimitsAssumption DEF Transactions, Exclusive
  <2> QED
    BY <2>1 DEF StagingInv, QuarantineInv, At
<1>2. CASE UNCHANGED disk
  <2>1. StagingInv(q) /\ QuarantineInv(q)
    BY DEF Transactions
  <2> QED
    BY <1>2, <2>1, SameTransaction
<1> QED
  BY <1>1, <1>2

LEMMA Returns ==
  ASSUME Transactions, NEW p \in Procs, lock = p \/ UNCHANGED disk,
         proc' = [proc EXCEPT ![p] = Idle], Unlock(p), DiskTypes',
         failures' \in 0..MaxFailures, latest' = latest
  PROVE  Transactions'
<1>1. /\ proc' \in [Procs -> {Idle} \cup CallStates] /\ proc'[p] = Idle
      /\ \A q \in Procs \ {p} : proc'[q] = proc[q]
  BY DEF Transactions, Types
<1>2. lock' \in Procs \cup {NoProc} /\ lock' # p
  BY LimitsAssumption DEF Transactions, Types, Unlock
<1>3. Types'
  BY <1>1, <1>2 DEF Transactions, Types
<1>4. Exclusive'
  <2> SUFFICES ASSUME NEW q \in Procs PROVE (lock = q)' <=> (proc[q].pc \notin {"idle", "lock"})'
    BY DEF Exclusive
  <2>1. CASE q = p
    BY <1>1, <1>2, <2>1 DEF Idle
  <2>2. CASE q # p
    BY <1>1, <2>2, LimitsAssumption DEF Unlock, Transactions, Exclusive
  <2> QED
    BY <2>1, <2>2
<1>5. ASSUME NEW q \in Procs PROVE StagingInv(q)' /\ QuarantineInv(q)'
  <2>1. CASE q = p
    BY <1>1, <2>1 DEF StagingInv, QuarantineInv, At, Idle
  <2>2. CASE q # p
    BY <1>1, <2>2, OthersKept
  <2> QED
    BY <2>1, <2>2
<1> QED
  BY <1>3, <1>4, <1>5 DEF Transactions

LEMMA Continues ==
  ASSUME Transactions, NEW p \in Procs, lock \in {p, NoProc}, lock' = p,
         NEW r \in CallStates, proc' = [proc EXCEPT ![p] = r], r.pc \notin {"idle", "lock"}, Proper(r, latest), DiskTypes',
         StagingInv(p)', QuarantineInv(p)', failures' \in 0..MaxFailures, latest' = latest
  PROVE  Transactions'
<1>1. /\ proc' \in [Procs -> {Idle} \cup CallStates] /\ proc'[p] = r
      /\ \A q \in Procs \ {p} : proc'[q] = proc[q]
  BY DEF Transactions, Types
<1>2. Types'
  BY <1>1 DEF Transactions, Types
<1>3. Exclusive'
  <2> SUFFICES ASSUME NEW q \in Procs PROVE (lock = q)' <=> (proc[q].pc \notin {"idle", "lock"})'
    BY DEF Exclusive
  <2>1. CASE q = p
    BY <1>1, <2>1
  <2>2. CASE q # p
    BY <1>1, <2>2, LimitsAssumption DEF Transactions, Exclusive
  <2> QED
    BY <2>1, <2>2
<1>4. ASSUME NEW q \in Procs PROVE StagingInv(q)' /\ QuarantineInv(q)'
  BY <1>1, OthersKept
<1> QED
  BY <1>2, <1>3, <1>4 DEF Transactions

\* A call that goes on, with nothing new but its place
LEMMA GotoCall ==
  ASSUME Transactions, NEW p \in Procs, ~ At(p, "idle"), NEW pc \in Places, Goto(p, pc)
  PROVE  LET r == [proc[p] EXCEPT !.pc = pc]
         IN  /\ r \in CallStates /\ proc' = [proc EXCEPT ![p] = r] /\ proc'[p] = r
             /\ r.pc = pc /\ r.op = proc[p].op /\ r.ids = proc[p].ids /\ r.now = proc[p].now
             /\ r.todo = proc[p].todo /\ r.evict = proc[p].evict /\ r.moved = proc[p].moved
<1>1. proc[p] \in CallStates
  BY InCall
<1>2. proc' = [proc EXCEPT ![p] = [proc[p] EXCEPT !.pc = pc]]
  BY DEF Goto
<1>3. proc \in [Procs -> {Idle} \cup CallStates]
  BY DEF Transactions, Types
<1> QED
  BY <1>1, <1>2, <1>3 DEF CallStates

LEMMA GotoFields ==
  ASSUME Transactions, NEW p \in Procs, ~ At(p, "idle"), NEW pc \in Places, Goto(p, pc)
  PROVE  /\ proc'[p].pc = pc /\ proc'[p].op = proc[p].op /\ proc'[p].ids = proc[p].ids
         /\ proc'[p].now = proc[p].now /\ proc'[p].evict = proc[p].evict /\ proc'[p].moved = proc[p].moved
<1> DEFINE r == [proc[p] EXCEPT !.pc = pc]
<1>1. /\ proc'[p] = r /\ r.pc = pc /\ r.op = proc[p].op /\ r.ids = proc[p].ids /\ r.now = proc[p].now
      /\ r.evict = proc[p].evict /\ r.moved = proc[p].moved
  BY GotoCall
<1> HIDE DEF r
<1> QED
  BY <1>1

LEMMA FailureCount ==
  ASSUME Transactions, Fault \/ NoFault
  PROVE  failures' \in 0..MaxFailures
BY InputAssumption DEF Transactions, Types, Fault, NoFault

LEMMA SameDisk ==
  ASSUME Transactions, UNCHANGED disk
  PROVE  DiskTypes'
<1>1. batches' = batches /\ staging' = staging /\ quarantine' = quarantine
  BY DEF disk
<1> QED
  BY <1>1 DEF Transactions, Types, DiskTypes, Tidy

LEMMA GotoKeeps ==
  ASSUME Transactions, NEW p \in Procs, ~ At(p, "idle"), lock \in {p, NoProc}, lock' = p,
         NEW pc \in Places \ {"lock", "write"}, Goto(p, pc),
         pc \in IF proc[p].op = "get" THEN Getting ELSE Putting,
         proc[p].op = "put_batch" /\ pc \in {"check", "sweep", "stage"} => proc[p].todo = proc[p].ids,
         pc \in {"check", "sweep", "stage", "quarantine"} => proc[p].moved = {},
         pc \in {"quarantine", "move"} => proc[p].evict \subseteq DOMAIN batches',
         pc = "move" => p \in DOMAIN quarantine' /\ DOMAIN quarantine'[p] = proc[p].moved,
         pc = "restore" => p \in DOMAIN quarantine' /\ proc[p].moved \subseteq DOMAIN quarantine'[p],
         DiskTypes', failures' \in 0..MaxFailures, latest' = latest
  PROVE  Transactions'
<1> DEFINE r == [proc[p] EXCEPT !.pc = pc]
<1>1. /\ r \in CallStates /\ proc' = [proc EXCEPT ![p] = r] /\ proc'[p] = r
      /\ r.pc = pc /\ r.op = proc[p].op /\ r.ids = proc[p].ids /\ r.now = proc[p].now
      /\ r.todo = proc[p].todo /\ r.evict = proc[p].evict /\ r.moved = proc[p].moved
  BY GotoCall
<1> HIDE DEF r
<1>2. Proper(proc[p], latest)
  BY InCall
<1>3. Proper(r, latest)
  BY <1>1, <1>2 DEF Proper
<1>4. StagingInv(p)' /\ QuarantineInv(p)'
  BY <1>1 DEF StagingInv, QuarantineInv, At
<1>5. pc \notin {"idle", "lock"}
  BY DEF Places, Getting, Putting, Undoing
<1> QED
  BY <1>1, <1>3, <1>4, <1>5, Continues

\* A new call, which waits for the lock
LEMMA Waits ==
  ASSUME Transactions, NEW p \in Procs, NEW now \in Ticks, At(p, "idle"),
         latest' = IF now > latest THEN now ELSE latest,
         UNCHANGED <<disk, lock, failures>>,
         \/ UNCHANGED proc
         \/ \E r \in CallStates : /\ proc' = [proc EXCEPT ![p] = r] /\ r.pc = "lock" /\ r.now = now
                                  /\ \A t \in Nat : now <= t => Proper(r, t)
  PROVE  Transactions'
<1>1. latest' \in Nat /\ latest <= latest' /\ now <= latest'
  BY InputAssumption DEF Transactions, Types
<1>2. ASSUME NEW q \in Procs, proc'[q] = proc[q], proc[q] # Idle PROVE Proper(proc[q], latest)'
  <2>1. Proper(proc[q], latest) /\ proc[q].now \in Nat
    BY <1>2, InputAssumption DEF Transactions, Types, CallStates
  <2>2. proc[q].now <= latest'
    BY <1>1, <2>1 DEF Proper, Transactions, Types
  <2> QED
    BY <1>2, <2>1, <2>2 DEF Proper
<1>3. DiskTypes' /\ lock' = lock /\ failures' = failures
  BY SameDisk
<1>4. CASE UNCHANGED proc
  <2>1. Types'
    BY <1>1, <1>2, <1>3, <1>4 DEF Transactions, Types
  <2>2. Exclusive'
    BY <1>3, <1>4 DEF Transactions, Exclusive
  <2>3. ASSUME NEW q \in Procs PROVE StagingInv(q)' /\ QuarantineInv(q)'
    <3>1. CASE q = p
      BY <1>4, <3>1 DEF StagingInv, QuarantineInv, At
    <3>2. CASE q # p
      BY <1>4, <3>2, OthersKept
    <3> QED
      BY <3>1, <3>2
  <2> QED
    BY <2>1, <2>2, <2>3 DEF Transactions
<1>5. ASSUME NEW r \in CallStates, proc' = [proc EXCEPT ![p] = r], r.pc = "lock",
             \A t \in Nat : now <= t => Proper(r, t)
      PROVE  Transactions'
  <2>1. /\ proc' \in [Procs -> {Idle} \cup CallStates] /\ proc'[p] = r
        /\ \A q \in Procs \ {p} : proc'[q] = proc[q]
    BY <1>5 DEF Transactions, Types
  <2>2. Proper(r, latest)'
    BY <1>1, <1>5 DEF Proper
  <2>3. Types'
    BY <1>1, <1>2, <1>3, <2>1, <2>2 DEF Transactions, Types
  <2>4. Exclusive'
    BY <1>3, <1>5, <2>1, IdleProc DEF Transactions, Exclusive, At
  <2>5. ASSUME NEW q \in Procs PROVE StagingInv(q)' /\ QuarantineInv(q)'
    <3>1. CASE q = p
      BY <1>5, <2>1, <3>1 DEF StagingInv, QuarantineInv, At
    <3>2. CASE q # p
      BY <2>1, <3>2, OthersKept
    <3> QED
      BY <3>1, <3>2
  <2> QED
    BY <2>3, <2>4, <2>5 DEF Transactions
<1> QED
  BY <1>4, <1>5

LEMMA InitTransactions ==
  ASSUME Init
  PROVE  Transactions
<1>1. DOMAIN NoBatches = {} /\ DOMAIN staging = {} /\ DOMAIN quarantine = {}
  BY DEF Init, NoBatches
<1>2. DiskTypes
  BY <1>1, FS_EmptySet DEF Init, DiskTypes, Tidy
<1>3. Types
  BY <1>2, InputAssumption DEF Init, Types
<1>4. \A p \in Procs : proc[p].pc = "idle"
  BY DEF Init, Idle
<1>5. Exclusive
  BY <1>4, LimitsAssumption DEF Init, Exclusive
<1> QED
  BY <1>3, <1>4, <1>5 DEF Transactions, StagingInv, QuarantineInv, At

LEMMA CallsKeepTransactions ==
  ASSUME Transactions, NEW p \in Procs, NEW now \in Ticks,
         \/ \E ids \in Batches : PutBatch(p, ids, now)
         \/ \E id \in Payloads : Get(p, id, now)
  PROVE  Transactions'
<1>1. ASSUME NEW ids \in Batches, PutBatch(p, ids, now) PROVE Transactions'
  <2>1. CASE UNCHANGED proc
    BY <1>1, <2>1, Waits DEF PutBatch, Begin
  <2>2. CASE ~ UNCHANGED proc
    <3> DEFINE r == [pc |-> "lock", op |-> "put_batch", ids |-> ids, now |-> now,
                     todo |-> ids, evict |-> {}, moved |-> {}]
    <3>1. Refusal(ids) = "None" /\ proc' = [proc EXCEPT ![p] = r]
      BY <1>1, <2>2 DEF PutBatch
    <3> HIDE DEF r
    <3>2. Fits(ids)
      <4>1. Len(ids) \in Nat /\ PayloadBytes(ids) \in Nat /\ MaxEntries \in Nat /\ MaxTotalBytes \in Nat
        BY PositionsFinite, LimitsAssumption, InputAssumption
      <4>2. ids # <<>>
        BY <3>1 DEF Refusal
      <4>3. \A i \in DOMAIN ids : Size[ids[i]] \in 1..MaxItemBytes
        BY <3>1, <4>2 DEF Refusal
      <4>4. ~ (Len(ids) > MaxEntries \/ PayloadBytes(ids) > MaxTotalBytes)
        BY <3>1, <4>2, <4>3 DEF Refusal
      <4> QED
        BY <4>1, <4>2, <4>4 DEF Fits
    <3> USE DEF r
    <3>3. r \in CallStates
      BY InputAssumption DEF CallStates, Places, Getting
    <3>4. \A t \in Nat : now <= t => Proper(r, t)
      BY <3>2 DEF Proper, Putting
    <3>5. r.pc = "lock" /\ r.now = now
      OBVIOUS
    <3> HIDE DEF r
    <3>6. At(p, "idle") /\ latest' = (IF now > latest THEN now ELSE latest) /\ UNCHANGED <<disk, lock, failures>>
      BY <1>1 DEF PutBatch, Begin
    <3> QED
      BY <3>1, <3>3, <3>4, <3>5, <3>6, Waits
  <2> QED
    BY <2>1, <2>2
<1>2. ASSUME NEW id \in Payloads, Get(p, id, now) PROVE Transactions'
  <2> DEFINE r == [pc |-> "lock", op |-> "get", ids |-> <<id>>, now |-> now,
                   todo |-> <<>>, evict |-> {}, moved |-> {}]
  <2>1. proc' = [proc EXCEPT ![p] = r]
    BY <1>2 DEF Get
  <2>2. r \in CallStates
    BY InputAssumption DEF CallStates, Places, Getting
  <2>3. \A t \in Nat : now <= t => Proper(r, t)
    BY DEF Proper, Getting
  <2>4. r.pc = "lock" /\ r.now = now
    OBVIOUS
  <2> HIDE DEF r
  <2>5. At(p, "idle") /\ latest' = (IF now > latest THEN now ELSE latest) /\ UNCHANGED <<disk, lock, failures>>
    BY <1>2 DEF Get, Begin
  <2> QED
    BY <2>1, <2>2, <2>3, <2>4, <2>5, Waits
<1> QED
  BY <1>1, <1>2

LEMMA LockKeepsTransactions ==
  ASSUME Transactions, NEW p \in Procs, Lock(p) \/ CheckTarget(p)
  PROVE  Transactions'
<1>1. ~ At(p, "idle") /\ DiskTypes' /\ latest' = latest /\ UNCHANGED disk
  BY SameDisk DEF Lock, CheckTarget, At
<1>2. failures' \in 0..MaxFailures
  BY FailureCount DEF Lock, CheckTarget
<1>3. Proper(proc[p], latest) /\ proc[p].op \in {"get", "put_batch"}
  BY <1>1, InCall DEF CallStates
<1>4. ASSUME NEW ret, Return(p, ret) PROVE Transactions'
  BY <1>1, <1>2, <1>4, Returns DEF Return
<1>5. ASSUME Lock(p), lock' = p, Goto(p, IF proc[p].op = "get" THEN "sweep" ELSE "check") PROVE Transactions'
  <2>1. lock = NoProc /\ At(p, "lock")
    BY <1>5 DEF Lock
  <2>2. proc[p].moved = {} /\ (proc[p].op = "put_batch" => proc[p].todo = proc[p].ids)
    BY <1>3, <2>1 DEF Proper, At
  <2>3. CASE proc[p].op = "get"
    <3>1. Goto(p, "sweep") /\ "sweep" \in Places \ {"lock", "write"} /\ "sweep" \in Getting
      BY <1>5, <2>3 DEF Places, Getting
    <3> QED
      BY <1>1, <1>2, <1>5, <2>1, <2>2, <2>3, <3>1, GotoKeeps
  <2>4. CASE proc[p].op # "get"
    <3>1. Goto(p, "check") /\ "check" \in Places \ {"lock", "write"} /\ "check" \in Putting
      BY <1>5, <2>4 DEF Places, Putting
    <3> QED
      BY <1>1, <1>2, <1>5, <2>1, <2>2, <2>4, <3>1, GotoKeeps
  <2> QED
    BY <2>3, <2>4
<1>6. ASSUME CheckTarget(p), Goto(p, "sweep"), lock' = lock PROVE Transactions'
  <2>1. At(p, "check") /\ lock = p
    BY <1>6, IdleProc DEF CheckTarget, At
  <2>2. proc[p].moved = {} /\ proc[p].op = "put_batch" /\ proc[p].todo = proc[p].ids
    BY <1>3, <2>1 DEF Proper, At, Getting
  <2>3. "sweep" \in Places \ {"lock", "write"} /\ "sweep" \in Putting
    BY DEF Places, Putting
  <2> QED
    BY <1>1, <1>2, <1>6, <2>1, <2>2, <2>3, GotoKeeps
<1>7. CASE Lock(p)
  BY <1>4, <1>5, <1>7 DEF Lock
<1>8. CASE CheckTarget(p)
  <2>1. (\E ret : Return(p, ret)) \/ (Goto(p, "sweep") /\ lock' = lock)
    BY <1>8 DEF CheckTarget
  <2> QED
    BY <1>4, <1>6, <1>8, <2>1
<1> QED
  BY <1>7, <1>8

LEMMA SweepKeepsTransactions ==
  ASSUME Transactions, NEW p \in Procs, Sweep(p)
  PROVE  Transactions'
<1>1. ~ At(p, "idle") /\ lock = p /\ lock' = p /\ latest' = latest /\ At(p, "sweep")
  BY IdleProc DEF Sweep, At
<1>2. failures' \in 0..MaxFailures
  BY FailureCount DEF Sweep
<1>3. Proper(proc[p], latest) /\ proc[p].op \in {"get", "put_batch"}
  BY <1>1, InCall DEF CallStates
<1>4. DiskTypes'
  <2>1. Tidy(batches')
    BY DropTidy DEF Sweep, Transactions, Types, DiskTypes
  <2>2. DOMAIN staging' = {} /\ DOMAIN quarantine' = {}
    BY DEF Sweep, Drop
  <2> QED
    BY <2>1, <2>2 DEF DiskTypes, Tidy
<1>5. proc[p].moved = {} /\ (proc[p].op = "put_batch" => proc[p].todo = proc[p].ids)
  BY <1>1, <1>3 DEF Proper, At
<1>6. CASE proc[p].op = "get"
  <2>1. Goto(p, "read") /\ "read" \in Places \ {"lock", "write"} /\ "read" \in Getting
    BY <1>6 DEF Sweep, Places, Getting
  <2> QED
    BY <1>1, <1>2, <1>4, <1>5, <1>6, <2>1, GotoKeeps
<1>7. CASE proc[p].op # "get"
  <2>1. Goto(p, "stage") /\ "stage" \in Places \ {"lock", "write"} /\ "stage" \in Putting
    BY <1>7 DEF Sweep, Places, Putting
  <2> QED
    BY <1>1, <1>2, <1>4, <1>5, <1>7, <2>1, GotoKeeps
<1> QED
  BY <1>6, <1>7

LEMMA PartlySweptTypes ==
  ASSUME Transactions, NEW p \in Procs, PartlySwept(p)
  PROVE  DiskTypes'
<1>1. Tidy(batches) /\ DOMAIN staging \subseteq Procs /\ DOMAIN quarantine \subseteq Procs
      /\ \A q \in DOMAIN quarantine : Tidy(quarantine[q])
  BY DEF Transactions, Types, DiskTypes
<1>2. Tidy(batches')
  BY <1>1, PartlyRemovedKeeps DEF PartlySwept, ExpiredBatches
<1>3. DOMAIN staging' \subseteq DOMAIN staging
  BY DEF PartlySwept, Drop
<1>4. DOMAIN quarantine' \subseteq DOMAIN quarantine /\ \A q \in DOMAIN quarantine' : quarantine'[q] = quarantine[q]
  BY DEF PartlySwept, Drop
<1>5. \A q \in DOMAIN quarantine' : Tidy(quarantine'[q])
  BY <1>1, <1>4
<1> QED
  BY <1>1, <1>2, <1>3, <1>4, <1>5 DEF DiskTypes, Tidy

LEMMA ReadKeepsTransactions ==
  ASSUME Transactions, NEW p \in Procs, Read(p) \/ SweepFails(p) \/ Crash(p)
  PROVE  Transactions'
<1>1. latest' = latest /\ failures' \in 0..MaxFailures /\ proc' = [proc EXCEPT ![p] = Idle] /\ Unlock(p)
  BY FailureCount DEF Read, SweepFails, Crash, Return
<1>2. CASE UNCHANGED disk
  BY <1>1, <1>2, SameDisk, Returns
<1>3. CASE (SweepFails(p) \/ Crash(p)) /\ At(p, "sweep") /\ PartlySwept(p)
  <2>1. lock = p
    BY <1>3, IdleProc DEF At
  <2> QED
    BY <1>1, <1>3, <2>1, PartlySweptTypes, Returns
<1>4. CASE At(p, "unpublish") /\ PartlyRemoved({Target(p)}) /\ UNCHANGED <<staging, quarantine>>
  <2>1. lock = p
    BY <1>4, IdleProc DEF At
  <2>2. Tidy(batches)
    BY DEF Transactions, Types, DiskTypes
  <2>3. Tidy(batches')
    BY <1>4, <2>2, PartlyRemovedKeeps
  <2>4. DiskTypes'
    BY <1>4, <2>3 DEF Transactions, Types, DiskTypes, Tidy
  <2> QED
    BY <1>1, <2>1, <2>4, Returns
<1> QED
  BY <1>2, <1>3, <1>4 DEF Read, SweepFails, Crash, disk

\* A call of put_batch after its sweep has the lock, and its batch is one of them.
LEMMA InPut ==
  ASSUME Transactions, NEW p \in Procs,
         proc[p].pc \in {"check", "stage", "write", "discard", "quarantine", "move", "restore", "unpublish"}
  PROVE  /\ lock = p /\ ~ At(p, "idle") /\ proc[p] \in CallStates /\ proc[p].op = "put_batch"
         /\ proc[p].ids \in Batches /\ proc[p].ids \in Seq(Payloads) /\ Fits(proc[p].ids)
         /\ Target(p) \in BatchNames /\ Target(p).ids = proc[p].ids /\ Target(p).tick = proc[p].now
         /\ proc[p].now \in Nat /\ proc[p].now <= latest
<1>1. lock = p /\ ~ At(p, "idle")
  BY IdleProc DEF At
<1>2. proc[p] \in CallStates /\ Proper(proc[p], latest)
  BY <1>1, InCall
<1>3. proc[p].op = "put_batch"
  BY <1>2 DEF Proper, CallStates, Getting
<1>4. proc[p].now \in Ticks
  BY <1>2 DEF CallStates
<1> QED
  BY <1>1, <1>2, <1>3, <1>4, InputAssumption DEF Proper, Target, BatchNames

LEMMA ReturnKeeps ==
  ASSUME Transactions, NEW p \in Procs, lock = p, NEW ret, Return(p, ret), DiskTypes', Fault \/ NoFault, latest' = latest
  PROVE  Transactions'
BY FailureCount, Returns DEF Return

LEMMA StageKeepsTransactions ==
  ASSUME Transactions, NEW p \in Procs, Stage(p)
  PROVE  Transactions'
<1>1. /\ lock = p /\ ~ At(p, "idle") /\ proc[p] \in CallStates /\ proc[p].op = "put_batch"
      /\ proc[p].ids \in Seq(Payloads) /\ latest' = latest /\ At(p, "stage")
  BY InPut DEF Stage, At
<1>2. Fault \/ NoFault
  BY DEF Stage
<1>3. CASE \E ret : Return(p, ret) /\ UNCHANGED staging
  <2>1. DiskTypes'
    BY <1>3, SameDisk DEF Stage, disk
  <2> QED
    BY <1>1, <1>2, <1>3, <2>1, ReturnKeeps
<1>4. ASSUME staging' = Put(staging, p, {}),
             proc' = [proc EXCEPT ![p].pc = "write", ![p].evict = Evictions(proc[p].ids)],
             lock' = lock
      PROVE  Transactions'
  <2> DEFINE r == [proc[p] EXCEPT !.pc = "write", !.evict = Evictions(proc[p].ids)]
  <2>1. Proper(proc[p], latest)
    BY <1>1, InCall
  <2>2. Evictions(proc[p].ids) \in SUBSET BatchNames
    BY DEF Evictions, Transactions, Types, DiskTypes, Tidy
  <2>3. "write" \in Places /\ "write" \in Putting
    BY DEF Places, Putting
  <2>4. /\ r \in CallStates /\ r.pc = "write" /\ r.op = proc[p].op /\ r.ids = proc[p].ids /\ r.now = proc[p].now
        /\ r.todo = proc[p].todo /\ r.moved = proc[p].moved /\ r.evict = Evictions(proc[p].ids)
    BY <1>1, <2>2, <2>3 DEF CallStates
  <2>5. proc' = [proc EXCEPT ![p] = r]
    BY <1>4
  <2> HIDE DEF r
  <2>6. proc'[p] = r
    BY <2>5 DEF Transactions, Types
  <2>7. r.moved = {} /\ r.todo = r.ids
    BY <1>1, <2>1, <2>4 DEF Proper, At
  <2>8. Proper(r, latest)
    BY <1>1, <2>1, <2>3, <2>4, <2>7 DEF Proper
  <2>9. DOMAIN staging' = DOMAIN staging \cup {p} /\ staging'[p] = {}
    BY <1>4 DEF Put
  <2>10. DiskTypes'
    BY <2>9 DEF Stage, Transactions, Types, DiskTypes, Tidy
  <2>11. StagingInv(p)'
    <3>1. r.ids \in Seq(Payloads) /\ Len(r.ids) \in Nat /\ Len(r.ids) - Len(r.todo) = 0
      BY <1>1, <2>4, <2>7
    <3>2. Written(p)' = 0
      BY <2>6, <3>1 DEF Written
    <3> QED
      BY <2>6, <2>7, <2>9, <3>1, <3>2 DEF StagingInv
  <2>12. QuarantineInv(p)'
    <3>1. r.evict \subseteq DOMAIN batches'
      BY <2>4 DEF Stage, Evictions
    <3> QED
      BY <2>4, <2>6, <3>1 DEF QuarantineInv, At
  <2>13. failures' \in 0..MaxFailures
    BY <1>2, FailureCount
  <2> QED
    BY <1>1, <1>4, <2>4, <2>5, <2>8, <2>10, <2>11, <2>12, <2>13, Continues
<1> QED
  BY <1>3, <1>4 DEF Stage

LEMMA WriteKeepsTransactions ==
  ASSUME Transactions, NEW p \in Procs, WriteFile(p)
  PROVE  Transactions'
<1> DEFINE f == Head(proc[p].todo)
<1>1. /\ lock = p /\ ~ At(p, "idle") /\ proc[p] \in CallStates /\ proc[p].op = "put_batch"
      /\ proc[p].ids \in Seq(Payloads) /\ latest' = latest /\ At(p, "write") /\ lock' = lock
      /\ proc[p].todo \in Seq(Payloads) /\ proc[p].todo # <<>>
  BY InPut DEF WriteFile, At, CallStates
<1>2. failures' \in 0..MaxFailures
  BY FailureCount DEF WriteFile
<1>3. StagingInv(p) /\ Proper(proc[p], latest)
  BY <1>1, InCall DEF Transactions
<1>4. ASSUME Goto(p, "discard"), UNCHANGED staging PROVE Transactions'
  <2>1. DiskTypes'
    BY <1>4, SameDisk DEF WriteFile, disk
  <2>2. "discard" \in Places \ {"lock", "write"} /\ "discard" \in Putting
    BY DEF Places, Putting
  <2> QED
    BY <1>1, <1>2, <1>4, <2>1, <2>2, GotoKeeps
<1>5. ASSUME f \notin staging[p], staging' = [staging EXCEPT ![p] = @ \cup {f}],
             proc' = [proc EXCEPT ![p].todo = Tail(@)]
      PROVE  Transactions'
  <2> DEFINE r == [proc[p] EXCEPT !.todo = Tail(proc[p].todo)]
             k == Len(proc[p].ids) - Len(proc[p].todo)
  <2>1. /\ r \in CallStates /\ r.pc = "write" /\ r.op = proc[p].op /\ r.ids = proc[p].ids /\ r.now = proc[p].now
        /\ r.todo = Tail(proc[p].todo) /\ r.moved = proc[p].moved /\ r.evict = proc[p].evict
    <3>1. Tail(proc[p].todo) \in Seq(Payloads)
      BY <1>1
    <3> QED
      BY <1>1, <3>1 DEF CallStates, At
  <2>2. proc' = [proc EXCEPT ![p] = r]
    BY <1>5
  <2> HIDE DEF r
  <2>3. proc'[p] = r
    BY <2>2 DEF Transactions, Types
  <2>4. Proper(r, latest)
    BY <1>1, <1>3, <2>1 DEF Proper, At
  <2>5. DOMAIN staging' = DOMAIN staging /\ staging'[p] = staging[p] \cup {f}
    BY <1>1, <1>3, <1>5 DEF StagingInv
  <2>6. DiskTypes'
    BY <2>5 DEF WriteFile, Transactions, Types, DiskTypes, Tidy
  <2>7. /\ p \in DOMAIN staging /\ k \in 0..Len(proc[p].ids)
        /\ staging[p] = {proc[p].ids[i] : i \in 1..k}
        /\ \A i \in 1..Len(proc[p].todo) : proc[p].todo[i] = proc[p].ids[k + i]
        /\ \A i, j \in 1..k : proc[p].ids[i] = proc[p].ids[j] => i = j
    BY <1>1, <1>3 DEF StagingInv, Written
  <2>8. /\ Len(proc[p].todo) \in Nat \ {0} /\ Len(r.todo) = Len(proc[p].todo) - 1 /\ Len(proc[p].ids) \in Nat
        /\ \A i \in 1..Len(r.todo) : r.todo[i] = proc[p].todo[i + 1]
    BY <1>1, <2>1
  <2>9. Len(r.ids) - Len(r.todo) = k + 1 /\ k + 1 \in 0..Len(r.ids) /\ k \in Nat
    <3> DEFINE m == Len(proc[p].ids)
               n == Len(proc[p].todo)
    <3>1. Len(r.ids) = m /\ Len(r.todo) = n - 1 /\ m \in Nat /\ n \in Nat \ {0} /\ k = m - n /\ k \in 0..m
      BY <2>1, <2>7, <2>8
    <3> HIDE DEF m, n, k
    <3> QED
      BY <3>1
  <2>10. f = proc[p].ids[k + 1]
    <3>1. f = proc[p].todo[1] /\ 1 \in 1..Len(proc[p].todo)
      BY <1>1, <2>8
    <3> HIDE DEF f, k
    <3> QED
      BY <2>7, <3>1
  <2> HIDE DEF k, f
  <2>11. \A i \in 1..Len(r.todo) : r.todo[i] = r.ids[(k + 1) + i]
    <3> SUFFICES ASSUME NEW i \in 1..Len(r.todo) PROVE r.todo[i] = r.ids[(k + 1) + i]
      OBVIOUS
    <3>1. i + 1 \in 1..Len(proc[p].todo) /\ k + (i + 1) = (k + 1) + i
      BY <2>8, <2>9
    <3> QED
      BY <2>1, <2>7, <2>8, <3>1
  <2>12. staging'[p] = {r.ids[i] : i \in 1..(k + 1)}
    <3>1. 1..(k + 1) = (1..k) \cup {k + 1}
      BY <2>9
    <3> QED
      BY <2>1, <2>5, <2>7, <2>10, <3>1
  <2>13. ASSUME NEW i \in 1..(k + 1), NEW j \in 1..(k + 1), r.ids[i] = r.ids[j] PROVE i = j
    <3>1. \A m \in 1..k : r.ids[m] # r.ids[k + 1]
      BY <1>5, <2>1, <2>7, <2>10
    <3>2. i \in 1..k \/ i = k + 1
      BY <2>9
    <3>3. j \in 1..k \/ j = k + 1
      BY <2>9
    <3> QED
      BY <2>1, <2>7, <2>13, <3>1, <3>2, <3>3
  <2>14. StagingInv(p)'
    <3> DEFINE w == k + 1
    <3>1. Written(p)' = w
      BY <2>3, <2>9 DEF Written
    <3>2. /\ p \in DOMAIN staging' /\ w \in 0..Len(r.ids)
          /\ staging'[p] = {r.ids[i] : i \in 1..w}
          /\ \A i \in 1..Len(r.todo) : r.todo[i] = r.ids[w + i]
          /\ \A i, j \in 1..w : r.ids[i] = r.ids[j] => i = j
      BY <2>5, <2>7, <2>9, <2>11, <2>12, <2>13
    <3> HIDE DEF w
    <3> QED
      BY <2>3, <3>1, <3>2 DEF StagingInv
  <2>15. QuarantineInv(p)'
    <3>1. r.evict \subseteq DOMAIN batches'
      BY <1>1, <2>1 DEF WriteFile, Transactions, QuarantineInv, At
    <3> QED
      BY <2>1, <2>3, <3>1 DEF QuarantineInv, At
  <2> QED
    BY <1>1, <1>2, <2>1, <2>2, <2>4, <2>6, <2>14, <2>15, Continues
<1> QED
  BY <1>4, <1>5 DEF WriteFile

\* At the rename the staging directory holds the whole batch.
LEMMA StagedWhole ==
  ASSUME Transactions, NEW p \in Procs, At(p, "write"), proc[p].todo = <<>>
  PROVE  p \in DOMAIN staging /\ staging[p] = Range(proc[p].ids)
<1>1. proc[p].ids \in Seq(Payloads) /\ StagingInv(p)
  BY InPut DEF At, Transactions
<1>2. Written(p) = Len(proc[p].ids) /\ DOMAIN proc[p].ids = 1..Len(proc[p].ids)
  BY <1>1 DEF Written
<1> QED
  BY <1>1, <1>2 DEF StagingInv, Range

LEMMA PublishKeepsTransactions ==
  ASSUME Transactions, NEW p \in Procs, Publish(p) \/ Discard(p)
  PROVE  Transactions'
<1>1. /\ lock = p /\ ~ At(p, "idle") /\ proc[p].op = "put_batch" /\ latest' = latest
      /\ Target(p) \in BatchNames /\ Target(p).ids = proc[p].ids
  BY InPut DEF Publish, Discard, At
<1>2. (Fault \/ NoFault) /\ failures' \in 0..MaxFailures
  BY FailureCount DEF Publish, Discard
<1>3. "discard" \in Places \ {"lock", "write"} /\ "discard" \in Putting
      /\ "quarantine" \in Places \ {"lock", "write"} /\ "quarantine" \in Putting
  BY DEF Places, Putting
<1>4. CASE Discard(p)
  <2>1. DOMAIN staging' \subseteq DOMAIN staging
    BY <1>4 DEF Discard, Drop
  <2>2. DiskTypes'
    BY <1>4, <2>1 DEF Discard, Transactions, Types, DiskTypes, Tidy
  <2> QED
    BY <1>1, <1>2, <1>4, <2>2, ReturnKeeps DEF Discard
<1>5. CASE Publish(p) /\ Goto(p, "discard") /\ UNCHANGED <<batches, staging, lock>>
  <2>1. DiskTypes'
    BY <1>5, SameDisk DEF Publish, disk
  <2> QED
    BY <1>1, <1>2, <1>3, <1>5, <2>1, GotoKeeps
<1>6. CASE Publish(p) /\ batches' = Put(batches, Target(p), staging[p]) /\ staging' = Drop(staging, {p})
  <2>1. staging[p] = Range(proc[p].ids)
    BY <1>6, StagedWhole DEF Publish
  <2>2. Tidy(batches')
    BY <1>1, <1>6, <2>1, PutTidy DEF Transactions, Types, DiskTypes
  <2>3. DiskTypes'
    BY <1>6, <2>2 DEF Publish, Drop, Transactions, Types, DiskTypes, Tidy
  <2>4. CASE Return(p, "Ok")
    BY <1>1, <1>2, <2>3, <2>4, ReturnKeeps
  <2>5. CASE Goto(p, "quarantine") /\ lock' = lock
    <3>1. proc[p].moved = {} /\ proc[p].evict \subseteq DOMAIN batches
      BY <1>1, <1>6, InCall DEF Publish, At, Proper, Transactions, QuarantineInv
    <3>2. proc[p].evict \subseteq DOMAIN batches'
      BY <1>6, <3>1 DEF Put
    <3> QED
      BY <1>1, <1>2, <1>3, <2>3, <2>5, <3>1, <3>2, GotoKeeps
  <2> QED
    BY <1>6, <2>4, <2>5, <1>5 DEF Publish
<1> QED
  BY <1>4, <1>5, <1>6 DEF Publish

LEMMA EvictKeepsTransactions ==
  ASSUME Transactions, NEW p \in Procs,
         CreateQuarantine(p) \/ DropQuarantine(p) \/ RemoveQuarantine(p) \/ Unpublish(p)
  PROVE  Transactions'
<1>1. lock = p /\ ~ At(p, "idle") /\ proc[p].op = "put_batch" /\ latest' = latest
  BY InPut DEF CreateQuarantine, DropQuarantine, RemoveQuarantine, Unpublish, At
<1>2. (Fault \/ NoFault) /\ failures' \in 0..MaxFailures
  BY FailureCount DEF CreateQuarantine, DropQuarantine, RemoveQuarantine, Unpublish
<1>3. "move" \in Places \ {"lock", "write"} /\ "move" \in Putting
      /\ "unpublish" \in Places \ {"lock", "write"} /\ "unpublish" \in Putting
  BY DEF Places, Putting, Undoing
<1>4. DiskTypes
  BY DEF Transactions, Types
<1>5. CASE CreateQuarantine(p) /\ quarantine' = Put(quarantine, p, <<>>) /\ Goto(p, "move")
  <2>1. At(p, "quarantine") /\ lock' = lock /\ UNCHANGED <<batches, staging>>
    BY <1>5 DEF CreateQuarantine
  <2>2. DOMAIN quarantine' = DOMAIN quarantine \cup {p} /\ quarantine'[p] = <<>>
        /\ \A q \in DOMAIN quarantine : q # p => quarantine'[q] = quarantine[q]
    BY <1>5 DEF Put
  <2>3. DOMAIN quarantine'[p] = {}
    BY <2>2
  <2>4. Tidy(quarantine'[p])
    BY <2>3, FS_EmptySet DEF Tidy
  <2>5. DiskTypes'
    BY <1>4, <2>1, <2>2, <2>4 DEF DiskTypes, Tidy
  <2>6. proc[p].moved = {} /\ proc[p].evict \subseteq DOMAIN batches
    BY <1>1, <2>1, InCall DEF At, Proper, Transactions, QuarantineInv
  <2> QED
    BY <1>1, <1>2, <1>3, <1>5, <2>1, <2>2, <2>3, <2>5, <2>6, GotoKeeps
<1>6. CASE CreateQuarantine(p) /\ Goto(p, "unpublish") /\ UNCHANGED quarantine
  <2>1. DiskTypes' /\ lock' = lock
    BY <1>6, SameDisk DEF CreateQuarantine, disk
  <2> QED
    BY <1>1, <1>2, <1>3, <1>6, <2>1, GotoKeeps
<1>7. CASE DropQuarantine(p)
  <2>1. DOMAIN quarantine' \subseteq DOMAIN quarantine /\ \A q \in DOMAIN quarantine' : quarantine'[q] = quarantine[q]
    BY <1>7 DEF DropQuarantine, Drop
  <2>2. DiskTypes'
    BY <1>4, <1>7, <2>1 DEF DropQuarantine, DiskTypes, Tidy
  <2> QED
    BY <1>1, <1>2, <1>7, <2>2, ReturnKeeps DEF DropQuarantine
<1>8. CASE RemoveQuarantine(p)
  <2>1. DOMAIN quarantine' \subseteq DOMAIN quarantine /\ \A q \in DOMAIN quarantine' : quarantine'[q] = quarantine[q]
    BY <1>8 DEF RemoveQuarantine, Drop
  <2>2. DiskTypes'
    BY <1>4, <1>8, <2>1 DEF RemoveQuarantine, DiskTypes, Tidy
  <2>3. Goto(p, "unpublish") /\ lock' = lock
    BY <1>8 DEF RemoveQuarantine
  <2> QED
    BY <1>1, <1>2, <1>3, <2>2, <2>3, GotoKeeps
<1>9. CASE Unpublish(p)
  <2>1. Tidy(batches')
    BY <1>4, <1>9, DropTidy, PartlyRemovedKeeps DEF Unpublish, DiskTypes
  <2>2. DiskTypes'
    BY <1>4, <1>9, <2>1 DEF Unpublish, DiskTypes, Tidy
  <2> QED
    BY <1>1, <1>2, <1>9, <2>2, ReturnKeeps DEF Unpublish
<1> QED
  BY <1>5, <1>6, <1>7, <1>8, <1>9 DEF CreateQuarantine

LEMMA MoveKeepsTransactions ==
  ASSUME Transactions, NEW p \in Procs, MoveBatch(p)
  PROVE  Transactions'
<1>1. /\ lock = p /\ ~ At(p, "idle") /\ proc[p].op = "put_batch" /\ latest' = latest /\ lock' = lock
      /\ At(p, "move") /\ proc[p] \in CallStates /\ proc[p].pc = "move" /\ UNCHANGED staging
  BY InPut DEF MoveBatch, At
<1>2. (Fault \/ NoFault) /\ failures' \in 0..MaxFailures
  BY FailureCount DEF MoveBatch
<1>3. p \in DOMAIN quarantine /\ DOMAIN quarantine[p] = proc[p].moved /\ proc[p].evict \subseteq DOMAIN batches /\ DiskTypes
  BY <1>1 DEF Transactions, Types, QuarantineInv
<1>4. CASE Goto(p, "restore") /\ UNCHANGED <<batches, quarantine>>
  <2>1. DiskTypes'
    BY <1>1, <1>4, SameDisk DEF disk
  <2>2. "restore" \in Places \ {"lock", "write"} /\ "restore" \in Putting
    BY DEF Places, Putting, Undoing
  <2> QED
    BY <1>1, <1>2, <1>3, <1>4, <2>1, <2>2, GotoKeeps
<1>5. ASSUME NEW n \in proc[p].evict, batches' = Drop(batches, {n}),
             quarantine' = [quarantine EXCEPT ![p] = Put(@, n, batches[n])],
             proc' = [proc EXCEPT ![p].evict = @ \ {n}, ![p].moved = @ \cup {n}]
      PROVE  Transactions'
  <2> DEFINE r == [proc[p] EXCEPT !.evict = proc[p].evict \ {n}, !.moved = proc[p].moved \cup {n}]
  <2>1. proc[p].evict \ {n} \in SUBSET BatchNames /\ proc[p].moved \cup {n} \in SUBSET BatchNames /\ n \in BatchNames
    BY <1>1 DEF CallStates
  <2>2. /\ r \in CallStates /\ r.pc = "move" /\ r.op = proc[p].op /\ r.ids = proc[p].ids /\ r.now = proc[p].now
        /\ r.todo = proc[p].todo /\ r.moved = proc[p].moved \cup {n} /\ r.evict = proc[p].evict \ {n}
    BY <1>1, <2>1 DEF CallStates
  <2>3. proc' = [proc EXCEPT ![p] = r]
    BY <1>5
  <2> HIDE DEF r
  <2>4. proc'[p] = r
    BY <2>3 DEF Transactions, Types
  <2>5. Proper(proc[p], latest)
    BY <1>1, InCall
  <2>6. Proper(r, latest)
    BY <1>1, <2>2, <2>5 DEF Proper
  <2>7. DOMAIN quarantine' = DOMAIN quarantine /\ quarantine'[p] = Put(quarantine[p], n, batches[n])
        /\ \A q \in DOMAIN quarantine : q # p => quarantine'[q] = quarantine[q]
    BY <1>3, <1>5
  <2>8. DOMAIN quarantine'[p] = proc[p].moved \cup {n}
    BY <1>3, <2>7 DEF Put
  <2>9. Tidy(quarantine'[p])
    <3>1. batches[n] \in SUBSET Range(n.ids)
      BY <1>3 DEF DiskTypes, Tidy
    <3> QED
      BY <1>3, <2>1, <2>7, <3>1, PutTidy DEF DiskTypes
  <2>10. Tidy(batches')
    BY <1>3, <1>5, DropTidy DEF DiskTypes
  <2>11. DiskTypes'
    BY <1>1, <1>3, <2>7, <2>9, <2>10 DEF DiskTypes, Tidy
  <2>12. StagingInv(p)' /\ QuarantineInv(p)'
    <3>1. r.evict \subseteq DOMAIN batches'
      BY <1>3, <1>5, <2>2 DEF Drop
    <3> QED
      BY <1>3, <2>2, <2>4, <2>7, <2>8, <3>1 DEF StagingInv, QuarantineInv, At
  <2> QED
    BY <1>1, <1>2, <2>2, <2>3, <2>6, <2>11, <2>12, Continues
<1> QED
  BY <1>4, <1>5 DEF MoveBatch

LEMMA RestoreKeepsTransactions ==
  ASSUME Transactions, NEW p \in Procs, RestoreBatch(p)
  PROVE  Transactions'
<1>1. /\ lock = p /\ ~ At(p, "idle") /\ proc[p].op = "put_batch" /\ latest' = latest /\ lock' = lock
      /\ At(p, "restore") /\ proc[p] \in CallStates /\ proc[p].pc = "restore" /\ UNCHANGED staging
  BY InPut DEF RestoreBatch, At
<1>2. failures' \in 0..MaxFailures
  BY FailureCount DEF RestoreBatch
<1>3. p \in DOMAIN quarantine /\ proc[p].moved \subseteq DOMAIN quarantine[p] /\ DiskTypes
  BY <1>1 DEF Transactions, Types, QuarantineInv
<1>4. PICK n \in proc[p].moved :
        /\ proc' = [proc EXCEPT ![p].moved = @ \ {n}]
        /\ \/ /\ batches' = Put(batches, n, quarantine[p][n])
              /\ quarantine' = [quarantine EXCEPT ![p] = Drop(@, {n})]
           \/ UNCHANGED <<batches, quarantine>>
  BY DEF RestoreBatch
<1> DEFINE r == [proc[p] EXCEPT !.moved = proc[p].moved \ {n}]
<1>5. proc[p].moved \ {n} \in SUBSET BatchNames /\ n \in BatchNames
  BY <1>1 DEF CallStates
<1>6. /\ r \in CallStates /\ r.pc = "restore" /\ r.op = proc[p].op /\ r.ids = proc[p].ids /\ r.now = proc[p].now
      /\ r.todo = proc[p].todo /\ r.moved = proc[p].moved \ {n}
  BY <1>1, <1>5 DEF CallStates
<1>7. proc' = [proc EXCEPT ![p] = r]
  BY <1>4
<1> HIDE DEF r
<1>8. proc'[p] = r
  BY <1>7 DEF Transactions, Types
<1>9. Proper(proc[p], latest)
  BY <1>1, InCall
<1>10. Proper(r, latest)
  BY <1>1, <1>6, <1>9 DEF Proper
<1>11. DiskTypes' /\ p \in DOMAIN quarantine' /\ DOMAIN quarantine[p] \ {n} \subseteq DOMAIN quarantine'[p]
  <2>1. CASE UNCHANGED <<batches, quarantine>>
    BY <1>1, <1>3, <2>1, SameDisk DEF disk
  <2>2. CASE batches' = Put(batches, n, quarantine[p][n]) /\ quarantine' = [quarantine EXCEPT ![p] = Drop(@, {n})]
    <3>1. quarantine[p][n] \in SUBSET Range(n.ids) /\ Tidy(quarantine[p])
      BY <1>3 DEF DiskTypes, Tidy
    <3>2. Tidy(batches')
      BY <1>3, <1>5, <2>2, <3>1, PutTidy DEF DiskTypes
    <3>3. DOMAIN quarantine' = DOMAIN quarantine /\ quarantine'[p] = Drop(quarantine[p], {n})
          /\ \A q \in DOMAIN quarantine : q # p => quarantine'[q] = quarantine[q]
      BY <1>3, <2>2
    <3>4. Tidy(quarantine'[p])
      BY <3>1, <3>3, DropTidy
    <3>5. DOMAIN quarantine'[p] = DOMAIN quarantine[p] \ {n}
      BY <3>3 DEF Drop
    <3>6. DiskTypes'
      BY <1>1, <1>3, <3>2, <3>3, <3>4 DEF DiskTypes, Tidy
    <3> QED
      BY <1>3, <3>3, <3>5, <3>6
  <2> QED
    BY <1>4, <2>1, <2>2
<1>12. StagingInv(p)' /\ QuarantineInv(p)'
  BY <1>3, <1>6, <1>8, <1>11 DEF StagingInv, QuarantineInv, At
<1> QED
  BY <1>1, <1>2, <1>6, <1>7, <1>10, <1>11, <1>12, Continues

LEMMA StutterTransactions ==
  ASSUME Transactions, UNCHANGED vars
  PROVE  Transactions'
<1>1. /\ batches' = batches /\ staging' = staging /\ quarantine' = quarantine /\ lock' = lock
      /\ proc' = proc /\ failures' = failures /\ latest' = latest
  BY DEF vars, disk
<1>2. DiskTypes'
  BY <1>1, SameDisk DEF disk
<1>3. Types'
  BY <1>1, <1>2 DEF Transactions, Types
<1>4. Exclusive'
  BY <1>1 DEF Transactions, Exclusive
<1>5. ASSUME NEW p \in Procs PROVE StagingInv(p)' /\ QuarantineInv(p)'
  BY <1>1, SameTransaction DEF Transactions, disk
<1> QED
  BY <1>3, <1>4, <1>5 DEF Transactions

LEMMA NextKeepsTransactions ==
  ASSUME Transactions, [Next]_vars
  PROVE  Transactions'
<1>1. CASE UNCHANGED vars
  BY <1>1, StutterTransactions
<1>2. CASE Next
  <2>1. PICK p \in Procs :
          \/ \E ids \in Batches, now \in Ticks : PutBatch(p, ids, now)
          \/ \E id \in Payloads, now \in Ticks : Get(p, id, now)
          \/ Step(p)
          \/ Crash(p)
    BY <1>2 DEF Next
  <2>2. CASE \E ids \in Batches, now \in Ticks : PutBatch(p, ids, now)
    BY <2>2, CallsKeepTransactions
  <2>3. CASE \E id \in Payloads, now \in Ticks : Get(p, id, now)
    BY <2>3, CallsKeepTransactions
  <2>4. CASE Step(p)
    BY <2>4, LockKeepsTransactions, SweepKeepsTransactions, ReadKeepsTransactions, StageKeepsTransactions,
       WriteKeepsTransactions, PublishKeepsTransactions, EvictKeepsTransactions, MoveKeepsTransactions,
       RestoreKeepsTransactions DEF Step
  <2>5. CASE Crash(p)
    BY <2>5, ReadKeepsTransactions
  <2> QED
    BY <2>1, <2>2, <2>3, <2>4, <2>5
<1> QED
  BY <1>1, <1>2

\* The transactions of a call are its own after every step of every process,
\* with any number of crashes and failed system calls.
THEOREM TransactionsInvariant ==
  Spec => []Transactions
<1>1. Init => Transactions
  BY InitTransactions
<1>2. Transactions /\ [Next]_vars => Transactions'
  BY NextKeepsTransactions
<1> QED
  BY <1>1, <1>2, PTL DEF Spec

\* Every variable has its type: one holder of .txn-lock, and it is the one
\* process past operation_lock.
THEOREM TypeCorrect ==
  Spec => []TypeOK
<1>1. Transactions => TypeOK
  BY DEF Transactions, Types, DiskTypes, Tidy, Exclusive, TypeOK
<1> QED
  BY <1>1, TransactionsInvariant, PTL

\* While a call stages, its staging directory holds exactly the files it wrote,
\* and the batches it has moved are in its quarantine, whatever other processes
\* sweep and however many calls crash or fail.
THEOREM LiveTransactionsKept ==
  Spec => []LiveTransactionKept
<1>1. ASSUME Transactions, NEW p \in Procs, At(p, "write"),
             \A i, j \in DOMAIN proc[p].ids : proc[p].ids[i] = proc[p].ids[j] => i = j
      PROVE  staging[p] = Range(proc[p].ids) \ Range(proc[p].todo)
  <2> DEFINE ids == proc[p].ids
             todo == proc[p].todo
             k == Len(ids) - Len(todo)
  <2>1. ids \in Seq(Payloads) /\ todo \in Seq(Payloads) /\ DOMAIN ids = 1..Len(ids) /\ DOMAIN todo = 1..Len(todo)
        /\ Len(ids) \in Nat /\ Len(todo) \in Nat
    BY <1>1, InPut DEF At, CallStates
  <2>2. /\ k \in 0..Len(ids) /\ staging[p] = {ids[i] : i \in 1..k}
        /\ \A i \in 1..Len(todo) : todo[i] = ids[k + i]
    BY <1>1 DEF Transactions, StagingInv, Written
  <2>3. k + Len(todo) = Len(ids) /\ k \in Nat
    <3> DEFINE m == Len(ids)
               n == Len(todo)
    <3>1. m \in Nat /\ n \in Nat /\ k = m - n /\ k \in 0..m
      BY <2>1, <2>2
    <3> HIDE DEF m, n, k
    <3>2. k + n = m /\ k \in Nat
      BY <3>1
    <3> QED
      BY <3>2 DEF m, n
  <2>4. \A i, j \in 1..Len(ids) : ids[i] = ids[j] => i = j
    BY <1>1, <2>1
  <2> HIDE DEF k, ids, todo
  <2>5. Range(todo) = {ids[i] : i \in (k + 1)..Len(ids)}
    <3>1. ASSUME NEW i \in 1..Len(todo) PROVE k + i \in (k + 1)..Len(ids)
      BY <2>1, <2>3
    <3>2. ASSUME NEW i \in (k + 1)..Len(ids) PROVE i - k \in 1..Len(todo) /\ k + (i - k) = i
      BY <2>1, <2>3
    <3>3. Range(todo) = {todo[i] : i \in 1..Len(todo)}
      BY <2>1 DEF Range
    <3>4. ASSUME NEW i \in 1..Len(todo) PROVE todo[i] \in {ids[j] : j \in (k + 1)..Len(ids)}
      BY <2>2, <3>1
    <3>5. ASSUME NEW i \in (k + 1)..Len(ids) PROVE ids[i] \in {todo[j] : j \in 1..Len(todo)}
      <4>1. todo[i - k] = ids[k + (i - k)]
        BY <2>2, <3>2
      <4> QED
        BY <3>2, <4>1
    <3> QED
      BY <3>3, <3>4, <3>5
  <2>6. Range(ids) = {ids[i] : i \in 1..Len(ids)}
    BY <2>1 DEF Range
  <2>7. 1..k \subseteq 1..Len(ids) /\ (k + 1)..Len(ids) \subseteq 1..Len(ids)
        /\ \A i \in 1..Len(ids) : i \in 1..k <=> i \notin (k + 1)..Len(ids)
    BY <2>1, <2>3
  <2>8. {ids[i] : i \in 1..k} = Range(ids) \ Range(todo)
    BY <2>4, <2>5, <2>6, <2>7
  <2> QED
    BY <2>2, <2>8 DEF ids, todo
<1>2. Transactions => LiveTransactionKept
  BY <1>1 DEF LiveTransactionKept, Transactions, StagingInv, QuarantineInv
<1> QED
  BY <1>2, TransactionsInvariant, PTL

(***************************************************************************)
(* Steps of a call, with one crash or failed system call                   *)
(***************************************************************************)
LEMMA ExpiredLater ==
  ASSUME NEW n \in BatchNames, NEW now \in Nat, NEW later \in Nat, now <= later, Expired(n.tick, now)
  PROVE  Expired(n.tick, later)
<1>1. n.tick \in Nat /\ MaxAgeTicks \in Nat \ {0}
  BY LimitsAssumption, InputAssumption DEF BatchNames
<1>2. now > n.tick /\ now - n.tick >= MaxAgeTicks
  BY <1>1 DEF Expired
<1> QED
  BY <1>1, <1>2 DEF Expired

LEMMA WholeAfter ==
  ASSUME Whole(batches), Whole(prior), latest' = latest,
         \A n \in DOMAIN batches' :
           \/ batches'[n] = Range(n.ids) \/ Expired(n.tick, latest)
           \/ n \in DOMAIN batches /\ batches'[n] = batches[n]
           \/ n \in DOMAIN prior /\ batches'[n] = prior[n]
  PROVE  Whole(batches)'
BY DEF Whole

LEMMA SameCall ==
  ASSUME NEW p \in Procs, proc'[p].ids = proc[p].ids, proc'[p].now = proc[p].now, prior' = prior
  PROVE  Target(p)' = Target(p) /\ Live(p)' = Live(p) /\ Evicted(p)' = Evicted(p) /\ Published(p)' = Published(p)
<1>1. Target(p)' = Target(p)
  BY DEF Target
<1>2. Live(p)' = Live(p)
  BY DEF Live
<1>3. Evicted(p)' = Evicted(p)
  BY <1>2 DEF Evicted
<1>4. Published(p)' = Published(p)
  BY <1>1, <1>2 DEF Published
<1> QED
  BY <1>1, <1>2, <1>3, <1>4

\* The batches of Live, Evicted and Published
LEMMA LiveParts ==
  ASSUME NEW p \in Procs
  PROVE  /\ DOMAIN Live(p) = {n \in DOMAIN prior : ~ Expired(n.tick, proc[p].now)}
         /\ \A n \in DOMAIN Live(p) : Live(p)[n] = prior[n]
         /\ Evicted(p) \subseteq DOMAIN Live(p)
         /\ DOMAIN Published(p) = DOMAIN Live(p) \cup {Target(p)}
         /\ Published(p)[Target(p)] = Range(proc[p].ids)
         /\ \A n \in DOMAIN Live(p) : n # Target(p) => Published(p)[n] = prior[n]
BY DEF Live, Evicted, Published, Keep, Put

LEMMA SameProgress ==
  ASSUME NEW p \in Procs, Progress(p), proc'[p] = proc[p], UNCHANGED <<batches, prior>>,
         quarantine'[p] = quarantine[p], failures' >= failures, failures \in Nat, failures' \in Nat
  PROVE  Progress(p)'
<1>1. Target(p)' = Target(p) /\ Live(p)' = Live(p) /\ Evicted(p)' = Evicted(p) /\ Published(p)' = Published(p)
  BY SameCall
<1>2. failures > 0 => failures' > 0
  OBVIOUS
<1>3. batches' = batches /\ prior' = prior
  OBVIOUS
<1> QED
  BY <1>1, <1>2, <1>3 DEF Progress, At

LEMMA ReturnsWhole ==
  ASSUME IInv, Transactions', NEW p \in Procs, lock = p \/ UNCHANGED disk,
         proc' = [proc EXCEPT ![p] = Idle], Unlock(p), Whole(batches)',
         Fault \/ NoFault, latest' = latest
  PROVE  IInv'
<1>1. \A q \in Procs \ {p} : proc'[q] = proc[q]
  BY DEF IInv, Transactions, Types
<1>2. CASE lock = p
  <2>1. lock' = NoProc /\ prior' = NoBatches /\ DOMAIN NoBatches = {}
    BY <1>2 DEF Unlock, NoBatches
  <2>2. Whole(prior)' /\ Tidy(prior')
    BY <2>1, FS_EmptySet DEF Whole, Tidy
  <2>3. \A q \in Procs : lock' # q
    BY <2>1, LimitsAssumption
  <2> QED
    BY <2>2, <2>3 DEF IInv, Tidy
<1>3. CASE lock # p
  <2>1. lock' = lock /\ prior' = prior /\ batches' = batches /\ quarantine' = quarantine
    BY <1>3 DEF Unlock, disk
  <2>2. Whole(prior)' /\ Tidy(prior')
    BY <2>1 DEF IInv, Whole, Tidy
  <2>3. failures' >= failures /\ failures \in Nat /\ failures' \in Nat
    BY DEF Fault, NoFault, IInv, Transactions, Types
  <2>4. ASSUME NEW q \in Procs, lock' = q PROVE Progress(q)'
    <3>1. q # p /\ Progress(q)
      BY <1>3, <2>1, <2>4 DEF IInv
    <3> QED
      BY <1>1, <2>1, <2>3, <3>1, SameProgress
  <2> QED
    BY <2>2, <2>4 DEF IInv, Tidy
<1> QED
  BY <1>2, <1>3

LEMMA ContinuesWhole ==
  ASSUME Transactions', NEW p \in Procs, lock' = p,
         Whole(batches)', Whole(prior)', Tidy(prior'), Progress(p)'
  PROVE  IInv'
BY DEF IInv, Tidy

\* The calls that wait disturb nothing.
LEMMA WaitsWhole ==
  ASSUME IInv, Transactions', NEW p \in Procs, lock # p, UNCHANGED <<disk, lock, prior, failures>>,
         \A q \in Procs \ {p} : proc'[q] = proc[q], latest' >= latest
  PROVE  IInv'
<1>1. batches' = batches /\ quarantine' = quarantine /\ lock' = lock /\ prior' = prior /\ failures' = failures
  BY DEF disk
<1>2. latest \in Nat /\ latest' \in Nat /\ failures \in Nat /\ Tidy(batches) /\ Tidy(prior)
  BY DEF IInv, Transactions, Types, DiskTypes
<1>3. \A n \in BatchNames : Expired(n.tick, latest) => Expired(n.tick, latest')
  BY <1>2, ExpiredLater
<1>4. Whole(batches)' /\ Whole(prior)'
  BY <1>1, <1>2, <1>3 DEF IInv, Whole, Tidy
<1>5. Tidy(prior')
  BY <1>1, <1>2
<1>6. ASSUME NEW q \in Procs, lock' = q PROVE Progress(q)'
  <2>1. q # p /\ Progress(q)
    BY <1>1, <1>6 DEF IInv
  <2> QED
    BY <1>1, <1>2, <2>1, SameProgress
<1> QED
  BY <1>4, <1>5, <1>6 DEF IInv, Tidy

\* Nothing fails any more once something has.
LEMMA NoSecondFault ==
  ASSUME OneFailure, IInv, failures > 0
  PROVE  ~ Fault
BY DEF OneFailure, IInv, Transactions, Types, Fault

LEMMA Holder ==
  ASSUME IInv, NEW p \in Procs, ~ At(p, "idle"), ~ At(p, "lock")
  PROVE  /\ lock = p /\ Progress(p) /\ proc[p] \in CallStates /\ proc[p].now \in Nat /\ proc[p].now <= latest /\ latest \in Nat
         /\ Transactions /\ Whole(batches) /\ Whole(prior) /\ Tidy(batches) /\ Tidy(prior)
         /\ Proper(proc[p], latest)
<1>1. Transactions /\ Whole(batches) /\ Whole(prior) /\ Tidy(batches) /\ Tidy(prior) /\ latest \in Nat
  BY DEF IInv, Transactions, Types, DiskTypes
<1>2. lock = p /\ proc[p] \in CallStates /\ Proper(proc[p], latest)
  BY <1>1, IdleProc, InCall
<1>3. Progress(p)
  BY <1>2 DEF IInv
<1>4. proc[p].now \in Nat /\ proc[p].now <= latest
  BY <1>2, InputAssumption DEF CallStates, Proper
<1> QED
  BY <1>1, <1>2, <1>3, <1>4

LEMMA LockKeepsWhole ==
  ASSUME OneFailure, IInv, Transactions', NEW p \in Procs, Lock(p) \/ CheckTarget(p)
  PROVE  IInv'
<1>1. ~ At(p, "idle") /\ latest' = latest /\ UNCHANGED disk /\ (Fault \/ NoFault) /\ batches' = batches
  BY DEF Lock, CheckTarget, At, disk
<1>2. Whole(batches) /\ Whole(prior) /\ Tidy(batches) /\ Tidy(prior) /\ Transactions
  BY DEF IInv, Transactions, Types, DiskTypes
<1>3. Whole(batches)'
  BY <1>1, <1>2 DEF Whole
<1>4. ASSUME NEW ret, Return(p, ret) PROVE IInv'
  BY <1>1, <1>3, <1>4, ReturnsWhole DEF Return
<1>5. ASSUME Lock(p), lock' = p, prior' = batches, Goto(p, IF proc[p].op = "get" THEN "sweep" ELSE "check") PROVE IInv'
  <2>1. Whole(prior)' /\ Tidy(prior')
    BY <1>1, <1>2, <1>5 DEF Whole
  <2>2. proc'[p].pc = (IF proc[p].op = "get" THEN "sweep" ELSE "check") /\ proc'[p].op = proc[p].op
    <3>1. proc[p] \in CallStates
      BY <1>1, <1>2, InCall
    <3>2. proc \in [Procs -> {Idle} \cup CallStates]
      BY <1>2 DEF Transactions, Types
    <3> QED
      BY <1>5, <3>1, <3>2 DEF Goto, CallStates
  <2>3. Progress(p)'
    BY <1>1, <1>5, <2>2 DEF Progress, At, Undoing
  <2> QED
    BY <1>3, <1>5, <2>1, <2>3, ContinuesWhole
<1>6. ASSUME CheckTarget(p), Goto(p, "sweep"), lock' = lock, prior' = prior, Target(p) \notin DOMAIN batches PROVE IInv'
  <2>1. At(p, "check") /\ lock = p /\ Progress(p)
    BY <1>6, Holder DEF CheckTarget, At
  <2>2. proc'[p].pc = "sweep" /\ proc'[p].op = proc[p].op /\ proc'[p].ids = proc[p].ids /\ proc'[p].now = proc[p].now
    <3>1. "sweep" \in Places
      BY DEF Places, Getting
    <3> QED
      BY <1>1, <1>2, <1>6, <3>1, GotoFields
  <2>3. Target(p)' = Target(p)
    BY <1>6, <2>2, SameCall
  <2>4. Progress(p)'
    BY <1>1, <1>6, <2>1, <2>2, <2>3 DEF Progress, At, Undoing
  <2>5. Whole(prior)' /\ Tidy(prior')
    BY <1>1, <1>2, <1>6 DEF Whole
  <2> QED
    BY <1>3, <1>6, <2>1, <2>4, <2>5, ContinuesWhole
<1>7. CASE Lock(p)
  BY <1>4, <1>5, <1>7 DEF Lock
<1>8. CASE CheckTarget(p)
  <2>1. (\E ret : Return(p, ret)) \/ (Goto(p, "sweep") /\ lock' = lock /\ prior' = prior /\ Target(p) \notin DOMAIN batches)
    BY <1>8 DEF CheckTarget
  <2> QED
    BY <1>4, <1>6, <1>8, <2>1
<1> QED
  BY <1>7, <1>8

LEMMA SweepKeepsWhole ==
  ASSUME OneFailure, IInv, Transactions', NEW p \in Procs, Sweep(p)
  PROVE  IInv'
<1>1. At(p, "sweep") /\ ~ At(p, "idle") /\ ~ At(p, "lock") /\ latest' = latest /\ prior' = prior /\ lock' = lock
  BY DEF Sweep, At
<1>2. lock = p /\ Progress(p) /\ Whole(batches) /\ Whole(prior) /\ Tidy(prior) /\ Transactions
  BY <1>1, Holder
<1>3. batches = prior
  BY <1>1, <1>2 DEF Progress, At
<1>4. batches' = Live(p)
  <2>1. batches' = Drop(prior, {n \in DOMAIN prior : Expired(n.tick, proc[p].now)})
    BY <1>3 DEF Sweep, ExpiredBatches
  <2>2. DOMAIN prior \ {n \in DOMAIN prior : Expired(n.tick, proc[p].now)} = {n \in DOMAIN prior : ~ Expired(n.tick, proc[p].now)}
    OBVIOUS
  <2> QED
    BY <2>1, <2>2 DEF Drop, Keep, Live
<1>5. Whole(batches)' /\ Whole(prior)' /\ Tidy(prior')
  <2>1. \A n \in DOMAIN batches' : n \in DOMAIN prior /\ batches'[n] = prior[n]
    BY <1>4, LiveParts
  <2> QED
    BY <1>1, <1>2, <2>1, WholeAfter DEF Whole
<1>6. /\ proc'[p].pc = (IF proc[p].op = "get" THEN "read" ELSE "stage") /\ proc'[p].op = proc[p].op
      /\ proc'[p].ids = proc[p].ids /\ proc'[p].now = proc[p].now
  <2>1. CASE proc[p].op = "get"
    <3>1. Goto(p, "read") /\ "read" \in Places
      BY <2>1 DEF Sweep, Places, Getting
    <3> QED
      BY <1>1, <1>2, <2>1, <3>1, GotoFields
  <2>2. CASE proc[p].op # "get"
    <3>1. Goto(p, "stage") /\ "stage" \in Places
      BY <2>2 DEF Sweep, Places, Putting
    <3> QED
      BY <1>1, <1>2, <2>2, <3>1, GotoFields
  <2> QED
    BY <2>1, <2>2
<1>7. Target(p)' = Target(p) /\ Live(p)' = Live(p)
  BY <1>1, <1>6, SameCall
<1>8. proc[p].op = "put_batch" => Target(p) \notin DOMAIN prior
  BY <1>1, <1>2 DEF Progress, At
<1>9. Progress(p)'
  BY <1>1, <1>4, <1>6, <1>7, <1>8 DEF Progress, At, Undoing
<1> QED
  BY <1>1, <1>2, <1>5, <1>9, ContinuesWhole

\* A sweep cut short leaves no live batch partial.
LEMMA PartlySweptWhole ==
  ASSUME IInv, NEW p \in Procs, At(p, "sweep"), PartlySwept(p), latest' = latest
  PROVE  Whole(batches)'
<1>1. /\ proc[p].now \in Nat /\ proc[p].now <= latest /\ latest \in Nat
      /\ Whole(batches) /\ Whole(prior) /\ Tidy(batches)
  BY Holder DEF At
<1>2. /\ DOMAIN batches' \subseteq DOMAIN batches
      /\ \A n \in DOMAIN batches \ ExpiredBatches(proc[p].now) : batches'[n] = batches[n]
  BY <1>1, PartlyRemovedKeeps DEF PartlySwept
<1>3. \A n \in ExpiredBatches(proc[p].now) : Expired(n.tick, latest)
  BY <1>1, ExpiredLater DEF ExpiredBatches, Tidy
<1> QED
  BY <1>1, <1>2, <1>3, WholeAfter

LEMMA ReadKeepsWhole ==
  ASSUME OneFailure, IInv, Transactions', NEW p \in Procs, Read(p) \/ SweepFails(p) \/ Crash(p)
  PROVE  IInv'
<1>1. latest' = latest /\ proc' = [proc EXCEPT ![p] = Idle] /\ Unlock(p) /\ (Fault \/ NoFault)
  BY DEF Read, SweepFails, Crash, Return
<1>2. CASE UNCHANGED disk
  <2>1. Whole(batches)'
    BY <1>1, <1>2 DEF Whole, IInv, disk
  <2> QED
    BY <1>1, <1>2, <2>1, ReturnsWhole
<1>3. CASE (SweepFails(p) \/ Crash(p)) /\ At(p, "sweep") /\ PartlySwept(p)
  <2>1. lock = p
    BY <1>3, Holder DEF At
  <2> QED
    BY <1>1, <1>3, <2>1, PartlySweptWhole, ReturnsWhole
<1>4. CASE Crash(p) /\ At(p, "unpublish")
  <2>1. Progress(p)
    BY <1>4, Holder DEF At
  <2>2. failures > 0
    BY <1>4, <2>1 DEF Progress, At, Undoing
  <2> QED
    BY <1>4, <2>2, NoSecondFault DEF Crash
<1> QED
  BY <1>2, <1>3, <1>4 DEF Read, SweepFails, Crash, disk

\* A return that leaves the batches as they are
LEMMA ReturnSameWhole ==
  ASSUME IInv, Transactions', NEW p \in Procs, lock = p, NEW ret, Return(p, ret), UNCHANGED batches,
         Fault \/ NoFault, latest' = latest
  PROVE  IInv'
<1>1. Whole(batches)'
  BY DEF Whole, IInv
<1> QED
  BY <1>1, ReturnsWhole DEF Return

\* A step within the call that leaves the batches as they are
LEMMA StaysWhole ==
  ASSUME IInv, Transactions', NEW p \in Procs, lock' = p, UNCHANGED <<batches, prior>>, latest' = latest, Progress(p)'
  PROVE  IInv'
<1>1. Whole(batches)' /\ Whole(prior)' /\ Tidy(prior')
  BY DEF Whole, IInv
<1> QED
  BY <1>1, ContinuesWhole

LEMMA StageKeepsWhole ==
  ASSUME OneFailure, IInv, Transactions', NEW p \in Procs, Stage(p) \/ WriteFile(p)
  PROVE  IInv'
<1>1. /\ ~ At(p, "idle") /\ ~ At(p, "lock") /\ latest' = latest /\ batches' = batches /\ (Fault \/ NoFault)
      /\ (At(p, "stage") \/ At(p, "write"))
  BY DEF Stage, WriteFile, At
<1>2. lock = p /\ Progress(p) /\ Transactions /\ proc[p] \in CallStates
  BY <1>1, Holder
<1>3. batches = Live(p) /\ (proc[p].op = "put_batch" => Target(p) \notin DOMAIN prior)
      /\ (At(p, "write") => proc[p].evict = Evicted(p))
  BY <1>1, <1>2 DEF Progress, At
<1>4. ASSUME NEW ret, Return(p, ret) PROVE IInv'
  BY <1>1, <1>2, <1>4, ReturnSameWhole
<1>5. ASSUME lock' = lock, prior' = prior, proc'[p].op = proc[p].op, proc'[p].ids = proc[p].ids, proc'[p].now = proc[p].now,
             proc'[p].pc \in {"write", "discard"}, proc'[p].pc = "write" => proc'[p].evict = Evicted(p)
      PROVE  IInv'
  <2>1. Target(p)' = Target(p) /\ Live(p)' = Live(p) /\ Evicted(p)' = Evicted(p)
    BY <1>5, SameCall
  <2>2. Progress(p)'
    BY <1>1, <1>3, <1>5, <2>1 DEF Progress, At, Undoing
  <2> QED
    BY <1>1, <1>2, <1>5, <2>2, StaysWhole
<1>6. CASE Stage(p) /\ proc' = [proc EXCEPT ![p].pc = "write", ![p].evict = Evictions(proc[p].ids)] /\ UNCHANGED <<lock, prior>>
  <2> DEFINE r == [proc[p] EXCEPT !.pc = "write", !.evict = Evictions(proc[p].ids)]
  <2>1. proc'[p] = r
    BY <1>6 DEF IInv, Transactions, Types
  <2>2. r.pc = "write" /\ r.op = proc[p].op /\ r.ids = proc[p].ids /\ r.now = proc[p].now /\ r.evict = Evictions(proc[p].ids)
    BY <1>2 DEF CallStates
  <2> HIDE DEF r
  <2>3. Evictions(proc[p].ids) = Evicted(p)
    BY <1>3 DEF Evictions, Evicted
  <2> QED
    BY <1>5, <1>6, <2>1, <2>2, <2>3
<1>7. CASE WriteFile(p) /\ Goto(p, "discard")
  <2>1. "discard" \in Places
    BY DEF Places, Putting
  <2> QED
    BY <1>1, <1>2, <1>5, <1>7, <2>1, GotoFields DEF WriteFile
<1>8. CASE WriteFile(p) /\ proc' = [proc EXCEPT ![p].todo = Tail(@)]
  <2> DEFINE r == [proc[p] EXCEPT !.todo = Tail(proc[p].todo)]
  <2>1. proc'[p] = r
    BY <1>8 DEF IInv, Transactions, Types
  <2>2. r.pc = proc[p].pc /\ r.op = proc[p].op /\ r.ids = proc[p].ids /\ r.now = proc[p].now /\ r.evict = proc[p].evict
    BY <1>2 DEF CallStates
  <2> HIDE DEF r
  <2>3. At(p, "write")
    BY <1>8 DEF WriteFile
  <2> QED
    BY <1>3, <1>5, <1>8, <2>1, <2>2, <2>3 DEF WriteFile, At
<1> QED
  BY <1>4, <1>6, <1>7, <1>8 DEF Stage, WriteFile

LEMMA PublishKeepsWhole ==
  ASSUME OneFailure, IInv, Transactions', NEW p \in Procs, Publish(p) \/ Discard(p)
  PROVE  IInv'
<1>1. /\ ~ At(p, "idle") /\ ~ At(p, "lock") /\ latest' = latest /\ (Fault \/ NoFault)
      /\ (At(p, "discard") \/ At(p, "write"))
  BY DEF Publish, Discard, At
<1>2. lock = p /\ Progress(p) /\ Transactions /\ Whole(batches) /\ Whole(prior) /\ Tidy(prior)
  BY <1>1, Holder
<1>3. /\ batches = Live(p) /\ (proc[p].op = "put_batch" => Target(p) \notin DOMAIN prior)
      /\ (At(p, "write") => proc[p].evict = Evicted(p))
  BY <1>1, <1>2 DEF Progress, At
<1>4. CASE Discard(p)
  BY <1>1, <1>2, <1>4, ReturnSameWhole DEF Discard
<1>5. CASE Publish(p) /\ Goto(p, "discard") /\ UNCHANGED <<batches, lock, prior>>
  <2>1. "discard" \in Places
    BY DEF Places, Putting
  <2>2. /\ proc'[p].pc = "discard" /\ proc'[p].op = proc[p].op /\ proc'[p].ids = proc[p].ids
        /\ proc'[p].now = proc[p].now
    BY <1>1, <1>2, <1>5, <2>1, GotoFields
  <2>3. Target(p)' = Target(p) /\ Live(p)' = Live(p)
    BY <1>5, <2>2, SameCall
  <2>4. Progress(p)'
    BY <1>1, <1>3, <1>5, <2>2, <2>3 DEF Progress, At, Undoing
  <2> QED
    BY <1>1, <1>2, <1>5, <2>4, StaysWhole
<1>6. CASE Publish(p) /\ batches' = Put(batches, Target(p), staging[p])
  <2>1. staging[p] = Range(proc[p].ids) /\ At(p, "write")
    BY <1>2, <1>6, StagedWhole DEF Publish
  <2>2. batches' = Published(p)
    BY <1>3, <1>6, <2>1 DEF Published
  <2>3. Target(p).ids = proc[p].ids
    BY DEF Target
  <2>4. Whole(batches)'
    <3>1. \A n \in DOMAIN batches' : batches'[n] = Range(n.ids) \/ (n \in DOMAIN prior /\ batches'[n] = prior[n])
      BY <2>2, <2>3, LiveParts, ZenonT(60)
    <3> QED
      BY <1>1, <1>2, <3>1, WholeAfter
  <2>5. CASE Return(p, "Ok")
    BY <1>1, <1>2, <2>4, <2>5, ReturnsWhole DEF Return
  <2>6. CASE Goto(p, "quarantine") /\ UNCHANGED <<lock, prior>>
    <3>1. "quarantine" \in Places
      BY DEF Places, Putting
    <3>2. /\ proc'[p].pc = "quarantine" /\ proc'[p].op = proc[p].op /\ proc'[p].ids = proc[p].ids
          /\ proc'[p].now = proc[p].now /\ proc'[p].evict = proc[p].evict
      BY <1>1, <1>2, <2>6, <3>1, GotoFields
    <3>3. Target(p)' = Target(p) /\ Live(p)' = Live(p) /\ Evicted(p)' = Evicted(p) /\ Published(p)' = Published(p)
      BY <2>6, <3>2, SameCall
    <3>4. Progress(p)'
      BY <1>1, <1>3, <2>1, <2>2, <2>6, <3>2, <3>3 DEF Progress, At, Undoing
    <3>5. Whole(prior)' /\ Tidy(prior')
      BY <1>1, <1>2, <2>6 DEF Whole
    <3> QED
      BY <1>2, <2>4, <2>6, <3>4, <3>5, ContinuesWhole
  <2> QED
    BY <1>5, <1>6, <2>5, <2>6 DEF Publish
<1> QED
  BY <1>4, <1>5, <1>6 DEF Publish

LEMMA DropNothing ==
  ASSUME NEW n, NEW files, NEW dirs
  PROVE  Drop(Put(dirs, n, files), {}) = Put(dirs, n, files)
BY DEF Drop, Put

LEMMA CreateKeepsWhole ==
  ASSUME OneFailure, IInv, Transactions', NEW p \in Procs, CreateQuarantine(p)
  PROVE  IInv'
<1>1. /\ ~ At(p, "idle") /\ ~ At(p, "lock") /\ latest' = latest /\ (Fault \/ NoFault)
      /\ At(p, "quarantine") /\ UNCHANGED <<batches, lock, prior>>
  BY DEF CreateQuarantine, At
<1>2. lock = p /\ Progress(p) /\ Transactions /\ Proper(proc[p], latest) /\ proc[p] \in CallStates
  BY <1>1, Holder
<1>3. /\ batches = Published(p) /\ Target(p) \notin DOMAIN prior /\ proc[p].op = "put_batch"
      /\ proc[p].evict = Evicted(p) /\ proc[p].moved = {}
  BY <1>1, <1>2 DEF Progress, At, Proper, CallStates, Getting
<1>4. CASE Goto(p, "move")
  <2>1. "move" \in Places
    BY DEF Places, Putting
  <2>2. /\ proc'[p].pc = "move" /\ proc'[p].op = proc[p].op /\ proc'[p].ids = proc[p].ids
        /\ proc'[p].now = proc[p].now /\ proc'[p].evict = proc[p].evict /\ proc'[p].moved = {}
    BY <1>1, <1>2, <1>3, <1>4, <2>1, GotoFields
  <2>3. Target(p)' = Target(p) /\ Evicted(p)' = Evicted(p) /\ Published(p)' = Published(p)
    BY <1>1, <2>2, SameCall
  <2>4. batches' = Drop(Published(p), {})
    BY <1>1, <1>3, DropNothing DEF Published
  <2>5. Progress(p)'
    BY <1>1, <1>3, <2>2, <2>3, <2>4 DEF Progress, At, Undoing
  <2> QED
    BY <1>1, <1>2, <2>5, StaysWhole
<1>5. CASE Fault /\ Goto(p, "unpublish")
  <2>1. "unpublish" \in Places
    BY DEF Places, Putting, Undoing
  <2>2. /\ proc'[p].pc = "unpublish" /\ proc'[p].op = proc[p].op /\ proc'[p].ids = proc[p].ids
        /\ proc'[p].now = proc[p].now
    BY <1>1, <1>2, <1>5, <2>1, GotoFields
  <2>3. Target(p)' = Target(p) /\ Published(p)' = Published(p)
    BY <1>1, <2>2, SameCall
  <2>4. failures' > 0
    BY <1>2, <1>5 DEF Fault, Transactions, Types
  <2>5. Progress(p)'
    BY <1>1, <1>3, <2>2, <2>3, <2>4 DEF Progress, At
  <2> QED
    BY <1>1, <1>2, <2>5, StaysWhole
<1> QED
  BY <1>4, <1>5 DEF CreateQuarantine

LEMMA MoveKeepsWhole ==
  ASSUME OneFailure, IInv, Transactions', NEW p \in Procs, MoveBatch(p)
  PROVE  IInv'
<1>1. /\ ~ At(p, "idle") /\ ~ At(p, "lock") /\ latest' = latest /\ At(p, "move") /\ lock' = lock /\ prior' = prior
  BY DEF MoveBatch, At
<1>2. /\ lock = p /\ Progress(p) /\ Transactions /\ proc[p] \in CallStates /\ Tidy(prior)
      /\ Whole(batches) /\ Whole(prior) /\ proc[p].op = "put_batch"
  BY <1>1, Holder, InPut DEF At
<1>3. /\ batches = Drop(Published(p), proc[p].moved) /\ Target(p) \notin DOMAIN prior
      /\ proc[p].moved \subseteq Evicted(p) /\ proc[p].evict = Evicted(p) \ proc[p].moved
      /\ \A n \in proc[p].moved : n \in DOMAIN quarantine[p] /\ quarantine[p][n] = prior[n]
      /\ \A n \in proc[p].moved, m \in proc[p].evict : ~ Older(m, n)
  BY <1>1, <1>2 DEF Progress, At
<1>4. CASE Fault /\ Goto(p, "restore") /\ UNCHANGED <<batches, quarantine>>
  <2>1. "restore" \in Places
    BY DEF Places, Putting, Undoing
  <2>2. /\ proc'[p].pc = "restore" /\ proc'[p].op = proc[p].op /\ proc'[p].ids = proc[p].ids
        /\ proc'[p].now = proc[p].now /\ proc'[p].moved = proc[p].moved
    BY <1>1, <1>2, <1>4, <2>1, GotoFields
  <2>3. Target(p)' = Target(p) /\ Evicted(p)' = Evicted(p) /\ Published(p)' = Published(p)
    BY <1>1, <2>2, SameCall
  <2>4. failures' > 0
    BY <1>2, <1>4 DEF Fault, Transactions, Types
  <2>5. Progress(p)'
    BY <1>1, <1>3, <1>4, <2>2, <2>3, <2>4 DEF Progress, At
  <2> QED
    BY <1>1, <1>2, <1>4, <2>5, StaysWhole
<1>5. ASSUME NEW n \in proc[p].evict, \A m \in proc[p].evict : ~ Older(m, n), batches' = Drop(batches, {n}),
             quarantine' = [quarantine EXCEPT ![p] = Put(@, n, batches[n])],
             proc' = [proc EXCEPT ![p].evict = @ \ {n}, ![p].moved = @ \cup {n}]
      PROVE  IInv'
  <2> DEFINE r == [proc[p] EXCEPT !.evict = proc[p].evict \ {n}, !.moved = proc[p].moved \cup {n}]
  <2>1. proc'[p] = r
    BY <1>2, <1>5 DEF Transactions, Types
  <2>2. /\ r.pc = "move" /\ r.op = proc[p].op /\ r.ids = proc[p].ids /\ r.now = proc[p].now
        /\ r.evict = proc[p].evict \ {n} /\ r.moved = proc[p].moved \cup {n}
    BY <1>1, <1>2 DEF CallStates, At
  <2> HIDE DEF r
  <2>3. Target(p)' = Target(p) /\ Evicted(p)' = Evicted(p) /\ Published(p)' = Published(p)
    BY <1>1, <2>1, <2>2, SameCall
  <2>4. n \in Evicted(p) /\ n \notin proc[p].moved /\ n \in DOMAIN prior /\ n # Target(p)
    BY <1>3, LiveParts
  <2>5. batches[n] = prior[n]
    BY <1>3, <2>4, LiveParts DEF Drop
  <2>6. batches' = Drop(Published(p), r.moved)
    <3>1. (DOMAIN Published(p) \ proc[p].moved) \ {n} = DOMAIN Published(p) \ r.moved
      BY <2>2
    <3> QED
      BY <1>3, <1>5, <3>1 DEF Drop
  <2>7. quarantine'[p] = Put(quarantine[p], n, batches[n])
    BY <1>1, <1>2, <1>5 DEF Transactions, QuarantineInv
  <2>8. \A m \in r.moved : m \in DOMAIN quarantine'[p] /\ quarantine'[p][m] = prior[m]
    BY <1>3, <2>2, <2>5, <2>7 DEF Put
  <2>9. \A k \in r.moved, m \in r.evict : ~ Older(m, k)
    BY <1>3, <1>5, <2>2
  <2>10. r.evict = Evicted(p) \ r.moved /\ r.moved \subseteq Evicted(p)
    BY <1>3, <2>2, <2>4
  <2>11. Progress(p)'
    BY <1>1, <1>3, <2>1, <2>2, <2>3, <2>6, <2>8, <2>9, <2>10 DEF Progress, At, Undoing
  <2>12. Whole(batches)' /\ Whole(prior)' /\ Tidy(prior')
    <3>1. \A m \in DOMAIN batches' : m \in DOMAIN batches /\ batches'[m] = batches[m]
      BY <1>5 DEF Drop
    <3> QED
      BY <1>1, <1>2, <3>1, WholeAfter DEF Whole
  <2> QED
    BY <1>1, <1>2, <2>11, <2>12, ContinuesWhole
<1> QED
  BY <1>4, <1>5 DEF MoveBatch

LEMMA RestoreKeepsWhole ==
  ASSUME OneFailure, IInv, Transactions', NEW p \in Procs, RestoreBatch(p)
  PROVE  IInv'
<1>1. /\ ~ At(p, "idle") /\ ~ At(p, "lock") /\ latest' = latest /\ At(p, "restore") /\ lock' = lock /\ prior' = prior
  BY DEF RestoreBatch, At
<1>2. /\ lock = p /\ Progress(p) /\ Transactions /\ proc[p] \in CallStates /\ Tidy(prior)
      /\ Whole(batches) /\ Whole(prior) /\ proc[p].op = "put_batch"
  BY <1>1, Holder, InPut DEF At
<1>3. /\ batches = Drop(Published(p), proc[p].moved) /\ Target(p) \notin DOMAIN prior
      /\ proc[p].moved \subseteq Evicted(p) /\ failures > 0
      /\ \A n \in proc[p].moved : n \in DOMAIN quarantine[p] /\ quarantine[p][n] = prior[n]
  BY <1>1, <1>2 DEF Progress, At, Undoing
<1>4. PICK n \in proc[p].moved :
        /\ proc' = [proc EXCEPT ![p].moved = @ \ {n}]
        /\ batches' = Put(batches, n, quarantine[p][n])
        /\ quarantine' = [quarantine EXCEPT ![p] = Drop(@, {n})]
        /\ NoFault
  BY <1>3, NoSecondFault DEF RestoreBatch
<1> DEFINE r == [proc[p] EXCEPT !.moved = proc[p].moved \ {n}]
<1>5. proc'[p] = r
  BY <1>2, <1>4 DEF Transactions, Types
<1>6. /\ r.pc = "restore" /\ r.op = proc[p].op /\ r.ids = proc[p].ids /\ r.now = proc[p].now
      /\ r.moved = proc[p].moved \ {n}
  BY <1>1, <1>2 DEF CallStates, At
<1> HIDE DEF r
<1>7. Target(p)' = Target(p) /\ Evicted(p)' = Evicted(p) /\ Published(p)' = Published(p)
  BY <1>1, <1>5, <1>6, SameCall
<1>8. n \in DOMAIN prior /\ n # Target(p) /\ n \in DOMAIN Published(p) /\ Published(p)[n] = prior[n] /\ quarantine[p][n] = prior[n]
  BY <1>3, <1>4, LiveParts
<1>9. batches' = Drop(Published(p), r.moved)
  <2>1. (DOMAIN Published(p) \ proc[p].moved) \cup {n} = DOMAIN Published(p) \ r.moved
    BY <1>4, <1>6, <1>8
  <2>2. DOMAIN batches = DOMAIN Published(p) \ proc[p].moved
        /\ \A m \in DOMAIN batches : batches[m] = Published(p)[m]
    BY <1>3 DEF Drop
  <2>3. batches' = [m \in DOMAIN Published(p) \ r.moved |-> IF m = n THEN prior[n] ELSE batches[m]]
    BY <1>4, <1>8, <2>1, <2>2 DEF Put
  <2>4. \A m \in DOMAIN Published(p) \ r.moved : (IF m = n THEN prior[n] ELSE batches[m]) = Published(p)[m]
    BY <1>8, <2>1, <2>2
  <2> QED
    BY <2>3, <2>4 DEF Drop
<1>10. quarantine'[p] = Drop(quarantine[p], {n})
  BY <1>1, <1>2, <1>4 DEF Transactions, QuarantineInv
<1>11. \A m \in r.moved : m \in DOMAIN quarantine'[p] /\ quarantine'[p][m] = prior[m]
  BY <1>3, <1>6, <1>10 DEF Drop
<1>12. failures' > 0
  BY <1>3, <1>4 DEF NoFault
<1>13. Progress(p)'
  BY <1>1, <1>3, <1>5, <1>6, <1>7, <1>9, <1>11, <1>12 DEF Progress, At
<1>14. Whole(batches)' /\ Whole(prior)' /\ Tidy(prior')
  <2>1. \A m \in DOMAIN batches' : \/ m \in DOMAIN batches /\ batches'[m] = batches[m]
                                   \/ m \in DOMAIN prior /\ batches'[m] = prior[m]
    BY <1>4, <1>8 DEF Put
  <2> QED
    BY <1>1, <1>2, <2>1, WholeAfter DEF Whole
<1> QED
  BY <1>1, <1>2, <1>13, <1>14, ContinuesWhole

LEMMA UndoKeepsWhole ==
  ASSUME OneFailure, IInv, Transactions', NEW p \in Procs,
         DropQuarantine(p) \/ RemoveQuarantine(p) \/ Unpublish(p)
  PROVE  IInv'
<1>1. /\ ~ At(p, "idle") /\ ~ At(p, "lock") /\ latest' = latest /\ (Fault \/ NoFault)
      /\ proc[p].pc \in {"move", "restore", "unpublish"}
  BY DEF DropQuarantine, RemoveQuarantine, Unpublish, At
<1>2. /\ lock = p /\ Progress(p) /\ Transactions /\ Whole(batches) /\ Whole(prior) /\ Tidy(prior) /\ proc[p].op = "put_batch"
  BY <1>1, Holder, InPut
<1>3. CASE DropQuarantine(p)
  BY <1>1, <1>2, <1>3, ReturnSameWhole DEF DropQuarantine
<1>4. CASE RemoveQuarantine(p)
  <2>1. At(p, "restore") /\ proc[p].moved = {} /\ Goto(p, "unpublish") /\ UNCHANGED <<batches, lock, prior>> /\ "unpublish" \in Places
    BY <1>4 DEF RemoveQuarantine, Places, Putting, Undoing
  <2>2. /\ proc'[p].pc = "unpublish" /\ proc'[p].op = proc[p].op /\ proc'[p].ids = proc[p].ids
        /\ proc'[p].now = proc[p].now
    BY <1>1, <1>2, <2>1, GotoFields
  <2>3. Target(p)' = Target(p) /\ Published(p)' = Published(p)
    BY <2>1, <2>2, SameCall
  <2>4. batches = Published(p) /\ failures > 0 /\ Target(p) \notin DOMAIN prior
    BY <1>2, <2>1, DropNothing DEF Progress, At, Undoing, Published
  <2>5. failures' > 0
    BY <1>1, <1>2, <2>4 DEF Fault, NoFault, Transactions, Types
  <2>6. Progress(p)'
    BY <2>1, <2>2, <2>3, <2>4, <2>5 DEF Progress, At
  <2> QED
    BY <1>1, <1>2, <2>1, <2>6, StaysWhole
<1>5. CASE Unpublish(p)
  <2>1. failures > 0
    BY <1>2, <1>5 DEF Unpublish, Progress, At, Undoing
  <2>2. batches' = Drop(batches, {Target(p)})
    BY <1>5, <2>1, NoSecondFault DEF Unpublish
  <2>3. Whole(batches)'
    BY <1>1, <1>2, <2>2, WholeAfter DEF Drop
  <2> QED
    BY <1>1, <1>2, <1>5, <2>3, ReturnsWhole DEF Unpublish, Return
<1> QED
  BY <1>3, <1>4, <1>5

LEMMA NextKeepsWhole ==
  ASSUME OneFailure, IInv, [Next]_vars
  PROVE  IInv'
<1>0. Transactions'
  BY NextKeepsTransactions DEF IInv
<1>1. CASE UNCHANGED vars
  <2>1. /\ batches' = batches /\ quarantine' = quarantine /\ lock' = lock /\ proc' = proc
        /\ failures' = failures /\ latest' = latest /\ prior' = prior
    BY <1>1 DEF vars, disk
  <2>2. Whole(batches)' /\ Whole(prior)' /\ Tidy(prior')
    BY <2>1 DEF IInv, Whole
  <2>3. failures \in Nat /\ failures >= failures
    BY DEF IInv, Transactions, Types
  <2>4. ASSUME NEW p \in Procs, lock' = p PROVE Progress(p)'
    <3>1. Progress(p)
      BY <2>1, <2>4 DEF IInv
    <3> QED
      BY <2>1, <2>3, <3>1, SameProgress
  <2> QED
    BY <1>0, <2>2, <2>4 DEF IInv, Tidy
<1>2. CASE Next
  <2>1. PICK p \in Procs :
          \/ \E ids \in Batches, now \in Ticks : PutBatch(p, ids, now)
          \/ \E id \in Payloads, now \in Ticks : Get(p, id, now)
          \/ Step(p)
          \/ Crash(p)
    BY <1>2 DEF Next
  <2>2. CASE \E now \in Ticks : (\E ids \in Batches : PutBatch(p, ids, now)) \/ (\E id \in Payloads : Get(p, id, now))
    <3>1. PICK now \in Ticks : (\E ids \in Batches : PutBatch(p, ids, now)) \/ (\E id \in Payloads : Get(p, id, now))
      BY <2>2
    <3>2. /\ At(p, "idle") /\ UNCHANGED <<disk, lock, prior, failures>>
          /\ latest' = IF now > latest THEN now ELSE latest
      BY <3>1 DEF PutBatch, Get, Begin
    <3>3. lock # p /\ proc \in [Procs -> {Idle} \cup CallStates]
      BY <3>2, IdleProc DEF IInv, Transactions, Types
    <3>4. \A q \in Procs \ {p} : proc'[q] = proc[q]
      BY <3>1, <3>3 DEF PutBatch, Get
    <3>5. latest' >= latest
      BY <3>2, InputAssumption DEF IInv, Transactions, Types
    <3> QED
      BY <1>0, <3>2, <3>3, <3>4, <3>5, WaitsWhole
  <2>3. CASE Step(p)
    BY <1>0, <2>3, LockKeepsWhole, SweepKeepsWhole, ReadKeepsWhole, StageKeepsWhole, PublishKeepsWhole,
       CreateKeepsWhole, MoveKeepsWhole, RestoreKeepsWhole, UndoKeepsWhole DEF Step
  <2>4. CASE Crash(p)
    BY <1>0, <2>4, ReadKeepsWhole
  <2> QED
    BY <2>1, <2>2, <2>3, <2>4
<1> QED
  BY <1>1, <1>2

\* At every point of a call the batch directories are what the call has made of
\* those it found, and all of those a reader may open are whole.
THEOREM Invariant ==
  ASSUME OneFailure
  PROVE  Spec => []IInv
<1>1. Init => IInv
  <2> SUFFICES ASSUME Init PROVE IInv
    OBVIOUS
  <2>1. Transactions
    BY InitTransactions
  <2>2. batches = NoBatches /\ prior = NoBatches /\ DOMAIN NoBatches = {} /\ lock = NoProc
    BY DEF Init, NoBatches
  <2>3. Whole(batches) /\ Whole(prior) /\ Tidy(prior)
    BY <2>2, FS_EmptySet DEF Whole, Tidy
  <2> QED
    BY <2>1, <2>2, <2>3, LimitsAssumption DEF IInv
<1>2. IInv /\ [Next]_vars => IInv'
  BY NextKeepsWhole
<1> QED
  BY <1>1, <1>2, PTL DEF Spec

\* What is on disk is whole, whatever calls overlap and wherever one of them
\* crashes or fails: the staging and eviction directories of put_batch, and the
\* batches get may open.
THEOREM LiveBatchesAlwaysWhole ==
  ASSUME OneFailure
  PROVE  Spec => []LiveBatchesWhole
<1>1. IInv => NoPartialBatch
  BY DEF IInv, Whole, NoPartialBatch
<1>2. Spec => []NoPartialBatch
  BY <1>1, Invariant, PTL
<1> QED
  BY <1>2, LiveTransactionsKept, PTL DEF LiveBatchesWhole

(***************************************************************************)
(* What a call has done when it returns                                    *)
(***************************************************************************)
\* The step that releases the lock of p is a step of p.
LEMMA OwnReturn ==
  ASSUME Transactions, NEW p \in Procs, lock = p, lock' = NoProc, Next
  PROVE  /\ ~ At(p, "idle") /\ ~ At(p, "lock")
         /\ \/ CheckTarget(p) \/ SweepFails(p) \/ Read(p) \/ Stage(p) \/ Publish(p) \/ Discard(p)
            \/ DropQuarantine(p) \/ Unpublish(p) \/ Crash(p)
<1>1. PICK q \in Procs :
        \/ \E ids \in Batches, now \in Ticks : PutBatch(q, ids, now)
        \/ \E id \in Payloads, now \in Ticks : Get(q, id, now)
        \/ Step(q)
        \/ Crash(q)
  BY DEF Next
<1>2. p # NoProc
  BY LimitsAssumption
<1>3. ASSUME lock' = lock PROVE FALSE
  BY <1>2, <1>3
<1>4. CASE (\E ids \in Batches, now \in Ticks : PutBatch(q, ids, now)) \/ (\E id \in Payloads, now \in Ticks : Get(q, id, now))
  BY <1>3, <1>4 DEF PutBatch, Get, Begin
<1>5. CASE Crash(q)
  <2>1. q = p
    BY <1>2, <1>5 DEF Crash, Unlock
  <2> QED
    BY <1>5, <2>1, IdleProc
<1>6. CASE Step(q)
  <2>1. ~ Lock(q)
    BY <1>2 DEF Lock
  <2>2. ~ At(q, "idle") /\ ~ At(q, "lock")
    BY <1>6, <2>1 DEF Step, CheckTarget, Sweep, SweepFails, Read, Stage, WriteFile, Publish, Discard,
       CreateQuarantine, MoveBatch, DropQuarantine, RestoreBatch, RemoveQuarantine, Unpublish, At
  <2>3. q = p
    BY <2>2, IdleProc
  <2>4. ~ Sweep(p) /\ ~ WriteFile(p) /\ ~ CreateQuarantine(p) /\ ~ MoveBatch(p) /\ ~ RestoreBatch(p) /\ ~ RemoveQuarantine(p)
    BY <1>3 DEF Sweep, WriteFile, CreateQuarantine, MoveBatch, RestoreBatch, RemoveQuarantine
  <2> QED
    BY <1>6, <2>1, <2>2, <2>3, <2>4 DEF Step
<1> QED
  BY <1>1, <1>4, <1>5, <1>6

LEMMA Answer ==
  ASSUME NEW p \in Procs, NEW ret, Return(p, ret)
  PROVE  result'.ret = ret
BY DEF Return, Returned

\* The batches after the step: those that were live when the call took the
\* lock are as it found them, or it evicts them.
LEMMA AfterReturn ==
  ASSUME OneFailure, IInv, NEW p \in Procs, lock = p, lock' = NoProc, Next
  PROVE  \/ /\ At(p, "move") /\ UNCHANGED batches /\ (DropQuarantine(p) \/ Crash(p))
         \/ \A n \in DOMAIN Live(p) : n \in DOMAIN batches' /\ batches'[n] = prior[n]
<1>1. ~ At(p, "idle") /\ ~ At(p, "lock")
  BY OwnReturn DEF IInv
<1>2. Progress(p) /\ Tidy(batches) /\ Transactions
  BY <1>1, Holder
<1>3. ASSUME NEW n \in DOMAIN Live(p) PROVE n \in DOMAIN prior /\ Live(p)[n] = prior[n] /\ ~ Expired(n.tick, proc[p].now)
  BY LiveParts
<1>4. CASE At(p, "check") /\ UNCHANGED batches
  BY <1>2, <1>3, <1>4 DEF Progress, At
<1>5. CASE At(p, "sweep") /\ (PartlySwept(p) \/ UNCHANGED batches)
  <2>1. batches = prior
    BY <1>2, <1>5 DEF Progress, At
  <2>2. CASE PartlySwept(p)
    <3>1. \A n \in DOMAIN batches \ ExpiredBatches(proc[p].now) : n \in DOMAIN batches' /\ batches'[n] = batches[n]
      BY <1>2, <2>2, PartlyRemovedKeeps DEF PartlySwept
    <3> QED
      BY <1>3, <2>1, <3>1 DEF ExpiredBatches
  <2>3. CASE UNCHANGED batches
    BY <1>3, <2>1, <2>3
  <2> QED
    BY <1>5, <2>2, <2>3
<1>6. CASE (At(p, "read") \/ At(p, "stage") \/ At(p, "write") \/ At(p, "discard")) /\ UNCHANGED batches
  BY <1>2, <1>3, <1>6 DEF Progress, At
<1>7. CASE Publish(p) /\ batches' = Put(batches, Target(p), staging[p])
  <2>1. batches = Live(p) /\ Target(p) \notin DOMAIN prior
    BY <1>2, <1>7, InPut DEF Publish, Progress, At
  <2> QED
    BY <1>3, <1>7, <2>1 DEF Put
<1>8. CASE At(p, "quarantine") /\ UNCHANGED batches
  <2>1. batches = Published(p) /\ Target(p) \notin DOMAIN prior
    BY <1>2, <1>8, InPut DEF Progress, At
  <2> QED
    BY <1>3, <1>8, <2>1, LiveParts
<1>9. CASE Unpublish(p) \/ (Crash(p) /\ proc[p].pc \in Undoing)
  <2>1. failures > 0
    BY <1>2, <1>9 DEF Unpublish, Progress, At, Undoing
  <2>2. At(p, "unpublish") /\ batches' = Drop(batches, {Target(p)})
    BY <1>9, <2>1, NoSecondFault DEF Unpublish, Crash
  <2>3. batches = Published(p) /\ Target(p) \notin DOMAIN prior
    BY <1>2, <2>2, InPut DEF Progress, At
  <2> QED
    BY <1>3, <2>2, <2>3, LiveParts DEF Drop
<1>10. CASE Crash(p)
  <2>1. proc[p].pc \in {"check", "sweep", "read", "stage", "write", "discard", "quarantine", "move"} \cup Undoing
    BY <1>1, <1>2, InCall DEF Places, Getting, Putting, At
  <2>2. CASE proc[p].pc \in Undoing
    BY <1>9, <1>10, <2>2
  <2>3. CASE proc[p].pc \notin Undoing
    <3>1. (At(p, "sweep") /\ PartlySwept(p)) \/ UNCHANGED batches
      BY <1>10, <2>3 DEF Crash, At, Undoing, disk
    <3> QED
      BY <1>4, <1>5, <1>6, <1>8, <1>10, <2>1, <2>3, <3>1 DEF At
  <2> QED
    BY <2>2, <2>3
<1>11. CASE CheckTarget(p) \/ Read(p) \/ Stage(p) \/ Discard(p)
  <2>1. UNCHANGED batches /\ (At(p, "check") \/ At(p, "read") \/ At(p, "stage") \/ At(p, "discard"))
    BY <1>11 DEF CheckTarget, Read, Stage, Discard, disk
  <2> QED
    BY <1>4, <1>6, <2>1
<1>12. CASE SweepFails(p)
  BY <1>5, <1>12 DEF SweepFails
<1>13. CASE DropQuarantine(p)
  BY <1>13 DEF DropQuarantine
<1>14. CASE Publish(p) /\ UNCHANGED batches
  BY <1>6, <1>14 DEF Publish
<1> QED
  BY <1>7, <1>9, <1>10, <1>11, <1>12, <1>13, <1>14, OwnReturn DEF IInv, Publish

\* A live batch is lost only when put_batch needs its room, oldest first, also
\* when the call crashes on the way.
THEOREM LostOnlyForRoom ==
  ASSUME OneFailure
  PROVE  Spec => LiveBatchLostOnlyForRoom
<1> DEFINE Loses(p) ==
      LET live == Keep(prior, {n \in DOMAIN prior : ~ Expired(n.tick, proc[p].now)})
      IN  \A n \in DOMAIN live \ DOMAIN batches' :
            /\ proc[p].op = "put_batch"
            /\ Overflows(FromOn(live, n), proc[p].ids)
            /\ \A m \in DOMAIN live \cap DOMAIN batches' : Older(n, m)
<1>1. ASSUME IInv, [Next]_vars, NEW p \in Procs, lock = p, lock' = NoProc PROVE Loses(p)
  <2>0. Next
    BY <1>1, LimitsAssumption DEF vars
  <2>1. Loses(p) <=> \A n \in DOMAIN Live(p) \ DOMAIN batches' :
            /\ proc[p].op = "put_batch"
            /\ Overflows(FromOn(Live(p), n), proc[p].ids)
            /\ \A m \in DOMAIN Live(p) \cap DOMAIN batches' : Older(n, m)
    BY DEF Live
  <2> HIDE DEF Loses
  <2>2. CASE \A n \in DOMAIN Live(p) : n \in DOMAIN batches'
    BY <2>1, <2>2
  <2>3. CASE At(p, "move") /\ UNCHANGED batches
    <3>1. Progress(p) /\ Tidy(prior) /\ Transactions
      BY <1>1, <2>3, Holder DEF At
    <3>2. /\ proc[p].op = "put_batch" /\ proc[p].ids \in Batches
      BY <2>3, <3>1, InPut DEF At
    <3>3. /\ batches' = Drop(Published(p), proc[p].moved) /\ proc[p].moved \subseteq Evicted(p)
          /\ proc[p].evict = Evicted(p) \ proc[p].moved
          /\ \A n \in proc[p].moved, m \in proc[p].evict : ~ Older(m, n)
      BY <2>3, <3>1 DEF Progress, At
    <3>4. \A n \in DOMAIN Live(p) : n \in DOMAIN batches' <=> n \notin proc[p].moved
      BY <3>3, LiveParts DEF Drop
    <3>5. Tidy(Live(p)) /\ Evicted(p) = EvictedOf(Live(p), proc[p].ids)
      <4>1. PartOf(Live(p), prior)
        BY LiveParts DEF PartOf
      <4> QED
        BY <3>1, <4>1, PartCounts DEF Evicted, EvictedOf
    <3>6. ASSUME NEW n \in proc[p].moved, NEW m \in DOMAIN Live(p) \ proc[p].moved PROVE Older(n, m)
      <4>1. n \in BatchNames /\ m \in BatchNames /\ n # m
        BY <3>3, <3>5, LiveParts DEF Tidy
      <4>2. CASE m \in Evicted(p)
        BY <3>3, <4>1, <4>2, OlderOrders
      <4>3. CASE m \notin Evicted(p)
        BY <3>2, <3>3, <3>5, <4>3, EvictedAreOldest
      <4> QED
        BY <4>2, <4>3
    <3>7. \A n \in proc[p].moved : Overflows(FromOn(Live(p), n), proc[p].ids)
      BY <3>3 DEF Evicted
    <3> QED
      BY <2>1, <3>2, <3>4, <3>6, <3>7
  <2> QED
    BY <1>1, <2>0, <2>2, <2>3, AfterReturn
<1>2. IInv /\ [Next]_vars => [ \A p \in Procs : (lock = p /\ lock' = NoProc) => Loses(p) ]_vars
  BY <1>1
<1> QED
  BY <1>2, Invariant, PTL DEF Spec, LiveBatchLostOnlyForRoom

\* A put_batch that succeeds has its whole batch readable and the store within
\* its limits; one that fails leaves the live batches as they were and publishes
\* nothing: the roll back of the eviction undoes it.
THEOREM AllOrNothing ==
  ASSUME OneFailure
  PROVE  Spec => PutAllOrNothing
<1> DEFINE Complete(p) == /\ Target(p) \in DOMAIN batches'
                          /\ batches'[Target(p)] = Range(proc[p].ids)
                          /\ Within(batches)'
<1>1. ASSUME IInv, Next, NEW p \in Procs, PutBatchReturns(p)
      PROVE  /\ lock = p /\ lock' = NoProc /\ ~ At(p, "idle") /\ ~ At(p, "lock") /\ Transactions /\ Progress(p) /\ Tidy(prior)
             /\ SweepFails(p) \/ Stage(p) \/ Publish(p) \/ Discard(p) \/ DropQuarantine(p) \/ Unpublish(p)
  <2>1. lock = p /\ lock' = NoProc /\ proc[p].op = "put_batch" /\ ~ At(p, "check") /\ result'.op # "crash"
    BY <1>1 DEF PutBatchReturns
  <2>2. ~ At(p, "idle") /\ ~ At(p, "lock")
    BY <1>1, <2>1, OwnReturn DEF IInv
  <2>3. Progress(p) /\ Tidy(prior) /\ Transactions /\ Proper(proc[p], latest)
    BY <1>1, <2>2, Holder
  <2>4. ~ CheckTarget(p) /\ ~ Crash(p) /\ ~ Read(p)
    BY <2>1, <2>3 DEF CheckTarget, Crash, Returned, Read, Proper, At, Putting, Undoing
  <2> QED
    BY <1>1, <2>1, <2>2, <2>3, <2>4, OwnReturn
<1>2. ASSUME IInv, Next, NEW p \in Procs, PutBatchReturns(p), result'.ret = "Ok" PROVE Complete(p)
  <2>1. Publish(p) \/ DropQuarantine(p)
    <3>1. lock' # lock /\ result'.ret # "Unavailable"
      BY <1>1, <1>2, LimitsAssumption
    <3>2. SweepFails(p) \/ Stage(p) \/ Discard(p) \/ Unpublish(p) => Return(p, "Unavailable")
      BY <3>1 DEF SweepFails, Stage, Discard, Unpublish
    <3> QED
      BY <1>1, <1>2, <3>1, <3>2, Answer
  <2>2. /\ lock = p /\ lock' = NoProc /\ Transactions /\ Progress(p) /\ Tidy(prior) /\ p # NoProc
    BY <1>1, <1>2, LimitsAssumption
  <2>3. /\ Target(p) \in BatchNames /\ Target(p).ids = proc[p].ids /\ Fits(proc[p].ids) /\ proc[p].op = "put_batch"
        /\ (At(p, "write") \/ At(p, "move"))
    BY <2>1, <2>2, InPut DEF Publish, DropQuarantine, At
  <2>4. Target(p) \notin DOMAIN prior
    BY <2>2, <2>3 DEF Progress, At
  <2> DEFINE left == Drop(Live(p), Evicted(p))
  <2>5. batches' = Put(left, Target(p), Range(proc[p].ids))
    <3>1. CASE Publish(p)
      <4>1. At(p, "write") /\ proc[p].todo = <<>> /\ batches' = Put(batches, Target(p), staging[p]) /\ proc[p].evict = {}
        BY <2>2, <3>1 DEF Publish
      <4>2. batches = Live(p) /\ Evicted(p) = {} /\ staging[p] = Range(proc[p].ids)
        BY <2>2, <4>1, StagedWhole DEF Progress, At
      <4>3. left = Live(p)
        BY <4>2 DEF Drop, Live, Keep
      <4> QED
        BY <4>1, <4>2, <4>3
    <3>2. CASE DropQuarantine(p)
      <4>1. At(p, "move") /\ proc[p].evict = {} /\ batches' = batches
        BY <3>2 DEF DropQuarantine
      <4>2. batches' = Drop(Published(p), Evicted(p))
        BY <2>2, <4>1 DEF Progress, At
      <4>3. DOMAIN Published(p) \ Evicted(p) = (DOMAIN Live(p) \ Evicted(p)) \cup {Target(p)}
        BY <2>4, LiveParts
      <4>4. \A n \in (DOMAIN Live(p) \ Evicted(p)) \cup {Target(p)} :
              Published(p)[n] = IF n = Target(p) THEN Range(proc[p].ids) ELSE left[n]
        BY <2>4, LiveParts DEF Drop
      <4>5. DOMAIN left = DOMAIN Live(p) \ Evicted(p)
        BY DEF Drop
      <4> HIDE DEF left
      <4> QED
        BY <4>2, <4>3, <4>4, <4>5 DEF Drop, Put
    <3> QED
      BY <2>1, <3>1, <3>2
  <2>6. Tidy(Live(p)) /\ Evicted(p) = EvictedOf(Live(p), Target(p).ids)
    <3>1. PartOf(Live(p), prior)
      BY LiveParts DEF PartOf
    <3> QED
      BY <2>2, <2>3, <3>1, PartCounts DEF Evicted, EvictedOf
  <2>7. DOMAIN left = DOMAIN Live(p) \ EvictedOf(Live(p), Target(p).ids) /\ \A m \in DOMAIN left : left[m] = Live(p)[m]
    BY <2>6 DEF Drop
  <2> HIDE DEF left
  <2>8. Within(Put(left, Target(p), Range(Target(p).ids)))
    BY <2>3, <2>6, <2>7, RoomIsMade
  <2>9. Within(batches)'
    BY <2>3, <2>5, <2>8 DEF Within, EntryCount, ByteCount
  <2> QED
    BY <2>5, <2>9 DEF Put
<1>3. ASSUME IInv, Next, NEW p \in Procs, PutBatchReturns(p), result'.ret # "Ok"
      PROVE  Keeps(p) /\ DOMAIN batches' \subseteq DOMAIN prior
  <2>1. /\ lock = p /\ lock' = NoProc /\ Transactions /\ Progress(p) /\ Tidy(prior) /\ p # NoProc
        /\ ~ At(p, "idle") /\ ~ At(p, "lock")
    BY <1>1, <1>3, LimitsAssumption
  <2>2. SweepFails(p) \/ Stage(p) \/ Discard(p) \/ Unpublish(p)
    <3>1. Publish(p) \/ DropQuarantine(p) => Return(p, "Ok")
      BY <2>1 DEF Publish, DropQuarantine
    <3> QED
      BY <1>1, <1>3, <3>1, Answer
  <2>3. ~ At(p, "move")
    BY <2>2 DEF SweepFails, Stage, Discard, Unpublish, At
  <2>4. \A n \in DOMAIN Live(p) : n \in DOMAIN batches' /\ batches'[n] = prior[n]
    BY <1>3, <2>1, <2>3, AfterReturn
  <2>5. Keeps(p)
    BY <2>4, LiveParts DEF Keeps
  <2>6. DOMAIN batches' \subseteq DOMAIN prior
    <3>1. CASE SweepFails(p)
      <4>1. batches = prior /\ Tidy(batches)
        BY <2>1, <3>1 DEF SweepFails, Progress, At, Transactions, Types, DiskTypes
      <4> QED
        BY <3>1, <4>1, PartlyRemovedKeeps DEF SweepFails, PartlySwept
    <3>2. CASE Stage(p) \/ Discard(p)
      <4>1. batches = Live(p) /\ batches' = batches
        BY <2>1, <3>2 DEF Stage, Discard, Progress, At
      <4> QED
        BY <4>1, LiveParts
    <3>3. CASE Unpublish(p)
      <4>1. At(p, "unpublish") /\ failures > 0
        BY <2>1, <3>3 DEF Unpublish, Progress, At, Undoing
      <4>2. batches' = Drop(batches, {Target(p)}) /\ batches = Published(p)
        BY <1>3, <2>1, <3>3, <4>1, NoSecondFault DEF Unpublish, Progress, At
      <4> QED
        BY <4>2, LiveParts DEF Drop
    <3> QED
      BY <2>2, <3>1, <3>2, <3>3
  <2> QED
    BY <2>5, <2>6
<1>4. ASSUME NEW p \in Procs, UNCHANGED vars PROVE ~ PutBatchReturns(p)
  BY <1>4, LimitsAssumption DEF PutBatchReturns, vars
<1> HIDE DEF Complete
<1>5. IInv /\ [Next]_vars => [ \A p \in Procs : (PutBatchReturns(p) /\ result'.ret = "Ok") => Complete(p) ]_vars
  BY <1>2, <1>4
<1>6. IInv /\ [Next]_vars => [ \A p \in Procs : (PutBatchReturns(p) /\ result'.ret # "Ok")
                                 => Keeps(p) /\ DOMAIN batches' \subseteq DOMAIN prior ]_vars
  BY <1>3, <1>4
<1>7. Spec => SuccessIsComplete
  BY <1>5, Invariant, PTL DEF Spec, SuccessIsComplete, Complete
<1>8. Spec => FailureKeepsPrior
  BY <1>6, Invariant, PTL DEF Spec, FailureKeepsPrior
<1> QED
  BY <1>7, <1>8, PTL DEF PutAllOrNothing
=============================================================================
