------------------------ MODULE IndexTransactionProofs ------------------------
(***************************************************************************)
(* Proofs about IndexTransaction: for every repository, index and limits,  *)
(* any number of edits, refreshes and failures.                            *)
(*                                                                         *)
(* The index is replaced in one step, so what has to hold is what the      *)
(* candidate is while it is being built: a path that was read and not      *)
(* edited since is in it as it is in the repository (Seen), a path that    *)
(* was not named is in it as it is in the index (Kept), every path the     *)
(* refresh must look at is still to be read, was read, or is pending       *)
(* (Covered), and its counters are those of its entries (Accurate).        *)
(***************************************************************************)
EXTENDS IndexTransaction, FiniteSetTheorems, WellFoundedInduction, TLAPS

\* Counters are those of the entries.
Accurate(s) ==
  /\ s.count = Cardinality(DOMAIN s.entries)
  /\ s.bytes = Bytes(s.entries) /\ s.bytes <= MaxTotalBytes

\* What a snapshot says of p is what the repository says.
Seen(s, p) ==
  p \notin s.diagnosed =>
    IF Readable(p, s.inputs)
    THEN p \in DOMAIN s.entries /\ s.entries[p] = file[p]
    ELSE p \notin DOMAIN s.entries

\* What a snapshot says of p is what the index says.
SameEntry(s, p) ==
  /\ p \in DOMAIN s.entries <=> p \in DOMAIN scan.entries
  /\ p \in DOMAIN scan.entries => s.entries[p] = scan.entries[p]

Kept ==
  /\ refresh.work.inputs = scan.inputs
  /\ refresh.todo \subseteq refresh.named /\ refresh.read \subseteq refresh.named
  /\ \A p \in Paths \ refresh.named :
        SameEntry(refresh.work, p) /\ (p \in refresh.work.diagnosed <=> p \in scan.diagnosed)

Fresh ==
  /\ refresh.todo \cap (DOMAIN refresh.work.entries \cup Ignored[refresh.work.inputs]) = {}
  /\ refresh.work.count <= MaxFiles

Covered(some) == some \subseteq refresh.todo \cup refresh.read \cup pending

Building ==
  /\ Accurate(refresh.work)
  /\ refresh.todo \cap refresh.read = {}
  /\ \A p \in refresh.read : Seen(refresh.work, p)

Refreshes == [pc : {"idle", "collect", "paths", "walk"}, named : SUBSET Paths, work : Snapshots,
              todo : SUBSET Paths, read : SUBSET Paths]

IInv ==
  /\ TypeOK
  /\ ignore \in IgnoreFiles /\ refresh \in Refreshes
  /\ IndexAgrees /\ UpToDate /\ ReplicaAgrees
  /\ refresh.pc \in {"paths", "walk"} => Building
  /\ refresh.pc = "paths" => Kept /\ Covered(refresh.named)
  /\ refresh.pc = "walk" => Fresh /\ Covered(Paths)

(***************************************************************************)
(* Numbers and sets                                                        *)
(***************************************************************************)
LEMMA LeastNatural ==
  ASSUME NEW N \in SUBSET Nat, N # {}
  PROVE  \E n \in N : \A m \in N : n <= m
<1> DEFINE less == {mn \in Nat \X Nat : mn[1] < mn[2]}
<1>1. IsWellFoundedOn(less, Nat)
  BY NatLessThanWellFounded DEF OpToRel
<1> HIDE DEF less
<1>2. PICK n \in N : \A m \in N : ~ (<<m, n>> \in less)
  BY <1>1, WFMin, Zenon
<1>3. \A m, k \in Nat : <<m, k>> \in less <=> m < k
  BY DEF less
<1>4. \A m \in N : ~ (m < n)
  BY <1>2, <1>3, Zenon
<1> QED
  BY <1>4

\* The next path to read is one of those to read.
LEMMA MinIs ==
  ASSUME NEW N \in SUBSET Nat, N # {}
  PROVE  Min(N) \in N
BY LeastNatural DEF Min

(***************************************************************************)
(* Entries and their bytes                                                 *)
(***************************************************************************)
LEMMA EntriesAre ==
  /\ \A e \in Entries : DOMAIN e \subseteq Paths /\ e \in [DOMAIN e -> Texts] /\ IsFiniteSet(DOMAIN e)
  /\ \A some \in SUBSET Paths : [some -> Texts] \subseteq Entries
<1>1. \A e \in Entries : DOMAIN e \subseteq Paths /\ e \in [DOMAIN e -> Texts]
  BY DEF Entries
<1>2. \A some \in SUBSET Paths : IsFiniteSet(some)
  BY IndexAssumption, FS_Subset
<1>3. \A some \in SUBSET Paths : [some -> Texts] \subseteq Entries
  BY DEF Entries
<1> QED
  BY <1>1, <1>2, <1>3

LEMMA WithIs ==
  ASSUME NEW e \in Entries, NEW p \in Paths, NEW text \in Texts
  PROVE  /\ With(e, p, text) \in Entries
         /\ DOMAIN With(e, p, text) = DOMAIN e \cup {p}
         /\ With(e, p, text)[p] = text
         /\ \A q \in DOMAIN e \ {p} : With(e, p, text)[q] = e[q]
<1>1. DOMAIN e \in SUBSET Paths /\ e \in [DOMAIN e -> Texts]
  BY EntriesAre
<1>2. DOMAIN e \cup {p} \in SUBSET Paths /\ With(e, p, text) \in [DOMAIN e \cup {p} -> Texts]
  BY <1>1 DEF With
<1>3. With(e, p, text) \in Entries
  BY <1>2, EntriesAre
<1> QED
  BY <1>3 DEF With

LEMMA WithoutIs ==
  ASSUME NEW e \in Entries, NEW p \in Paths
  PROVE  /\ Without(e, p) \in Entries
         /\ DOMAIN Without(e, p) = DOMAIN e \ {p}
         /\ \A q \in DOMAIN e \ {p} : Without(e, p)[q] = e[q]
<1>1. DOMAIN e \in SUBSET Paths /\ e \in [DOMAIN e -> Texts]
  BY EntriesAre
<1>2. DOMAIN e \ {p} \in SUBSET Paths /\ Without(e, p) \in [DOMAIN e \ {p} -> Texts]
  BY <1>1 DEF Without
<1>3. Without(e, p) \in Entries
  BY <1>2, EntriesAre
<1> QED
  BY <1>3 DEF Without

\* The places of one file, and that they are as many as its bytes
LEMMA PlacesOfOne ==
  ASSUME NEW p, NEW text \in Texts
  PROVE  IsFiniteSet({p} \X (1..Size[text])) /\ Cardinality({p} \X (1..Size[text])) = Size[text]
<1>1. Size[text] \in Nat
  BY IndexAssumption
<1>2. IsFiniteSet(1..Size[text]) /\ Cardinality(1..Size[text]) = Size[text]
  BY <1>1, FS_Interval, SMTT(60)
<1>3. IsFiniteSet({p}) /\ Cardinality({p}) = 1
  BY FS_Singleton
<1> DEFINE one == {p}
           places == 1..Size[text]
<1> HIDE DEF one, places
<1>4. IsFiniteSet(one \X places) /\ Cardinality(one \X places) = Cardinality(one) * Cardinality(places)
  BY <1>2, <1>3, FS_Product DEF one, places
<1> QED
  BY <1>1, <1>2, <1>3, <1>4 DEF one, places

LEMMA PlacesFinite ==
  ASSUME NEW e \in Entries
  PROVE  IsFiniteSet(Places(e)) /\ Bytes(e) \in Nat
<1> DEFINE of == [p \in DOMAIN e |-> {p} \X (1..Size[e[p]])]
           all == {{p} \X (1..Size[e[p]]) : p \in DOMAIN e}
<1>1. IsFiniteSet(DOMAIN e) /\ \A p \in DOMAIN e : e[p] \in Texts
  BY EntriesAre
<1>2. \A x \in all : IsFiniteSet(x)
  BY <1>1, PlacesOfOne
<1>3. of \in Surjection(DOMAIN e, all)
  BY DEF Surjection
<1> HIDE DEF of, all
<1>4. IsFiniteSet(all)
  BY <1>1, <1>3, FS_Surjection
<1>5. IsFiniteSet(UNION all)
  BY <1>2, <1>4, FS_UNION
<1>6. Places(e) = UNION all
  BY DEF Places, all
<1> QED
  BY <1>5, <1>6, FS_CardinalityType DEF Bytes

\* A new entry adds its bytes.
LEMMA BytesWith ==
  ASSUME NEW e \in Entries, NEW p \in Paths \ DOMAIN e, NEW text \in Texts
  PROVE  Bytes(With(e, p, text)) = Bytes(e) + Size[text]
<1> DEFINE one == {p} \X (1..Size[text])
           f == With(e, p, text)
<1>1. /\ f \in Entries /\ DOMAIN f = DOMAIN e \cup {p} /\ f[p] = text
      /\ \A q \in DOMAIN e : f[q] = e[q]
  <2>1. p \in Paths /\ DOMAIN e \ {p} = DOMAIN e
    OBVIOUS
  <2> QED
    BY <2>1, WithIs
<1>2. Places(f) = Places(e) \cup one
  <2> HIDE DEF f
  <2>1. ASSUME NEW x PROVE x \in Places(f) <=> \E q \in DOMAIN f : x \in {q} \X (1..Size[f[q]])
    BY DEF Places
  <2>2. ASSUME NEW x PROVE x \in Places(e) <=> \E q \in DOMAIN e : x \in {q} \X (1..Size[e[q]])
    BY DEF Places
  <2>3. ASSUME NEW x PROVE (\E q \in DOMAIN f : x \in {q} \X (1..Size[f[q]]))
                             <=> (\E q \in DOMAIN e : x \in {q} \X (1..Size[e[q]])) \/ x \in one
    BY <1>1
  <2> QED
    BY <2>1, <2>2, <2>3
<1>3. Places(e) \cap one = {}
  BY DEF Places
<1> HIDE DEF one, f
<1>4. IsFiniteSet(Places(e)) /\ Bytes(e) \in Nat
  BY PlacesFinite
<1>5. IsFiniteSet(one) /\ Cardinality(one) = Size[text] /\ Size[text] \in Nat
  BY PlacesOfOne, IndexAssumption DEF one
<1>6. Cardinality(Places(e) \cup one) = Cardinality(Places(e)) + Cardinality(one) - Cardinality(Places(e) \cap one)
  BY <1>4, <1>5, FS_Union
<1>7. Cardinality({}) = 0
  BY FS_EmptySet
<1> QED
  BY <1>2, <1>3, <1>4, <1>5, <1>6, <1>7 DEF Bytes, f

LEMMA BytesWithout ==
  ASSUME NEW e \in Entries, NEW p \in DOMAIN e
  PROVE  Bytes(e) = Bytes(Without(e, p)) + Size[e[p]]
<1>1. p \in Paths /\ e[p] \in Texts /\ DOMAIN e \in SUBSET Paths /\ e \in [DOMAIN e -> Texts]
  BY EntriesAre
<1>2. Without(e, p) \in Entries /\ p \notin DOMAIN Without(e, p)
  BY <1>1, WithoutIs
<1>3. With(Without(e, p), p, e[p]) = e
  BY <1>1 DEF With, Without
<1> QED
  BY <1>1, <1>2, <1>3, BytesWith

(***************************************************************************)
(* What reading one path does to a snapshot                                *)
(***************************************************************************)

\* A snapshot that differs from another at p at most.
Elsewhere(s, t, p) ==
  /\ t.inputs = s.inputs
  /\ \A q \in Paths \ {p} :
       /\ q \in DOMAIN t.entries <=> q \in DOMAIN s.entries
       /\ q \in DOMAIN s.entries => t.entries[q] = s.entries[q]
       /\ q \in t.diagnosed <=> q \in s.diagnosed

LEMMA Counters ==
  /\ MaxFiles \in Nat /\ MaxTotalBytes \in Nat /\ Cardinality(Paths) \in Nat
  /\ \A e \in Entries : Cardinality(DOMAIN e) \in 0..Cardinality(Paths)
<1>1. MaxFiles \in Nat /\ MaxTotalBytes \in Nat /\ Cardinality(Paths) \in Nat
  BY IndexAssumption, FS_CardinalityType
<1>2. ASSUME NEW e \in Entries PROVE Cardinality(DOMAIN e) \in 0..Cardinality(Paths)
  <2>1. DOMAIN e \subseteq Paths /\ IsFiniteSet(DOMAIN e)
    BY EntriesAre
  <2>2. Cardinality(DOMAIN e) \in Nat /\ Cardinality(DOMAIN e) <= Cardinality(Paths)
    BY <2>1, IndexAssumption, FS_Subset, FS_CardinalityType
  <2> QED
    BY <1>1, <2>2
<1> QED
  BY <1>1, <1>2

LEMMA SnapshotWith ==
  ASSUME NEW s \in Snapshots, NEW e \in Entries,
         NEW count \in 0..(MaxFiles + Cardinality(Paths)), NEW bytes \in 0..MaxTotalBytes
  PROVE  [s EXCEPT !.entries = e, !.count = count, !.bytes = bytes] \in Snapshots
BY DEF Snapshots

LEMMA RemovedIs ==
  ASSUME NEW s \in Snapshots, Accurate(s), NEW p \in Paths
  PROVE  /\ Removed(s, p) \in Snapshots /\ Accurate(Removed(s, p)) /\ Elsewhere(s, Removed(s, p), p)
         /\ p \notin DOMAIN Removed(s, p).entries
<1>1. s.entries \in Entries /\ s.count \in Nat /\ s.bytes \in Nat /\ s.inputs \in IgnoreFiles /\ s.diagnosed \in SUBSET Paths
      /\ s.bytes <= MaxTotalBytes
  BY Counters DEF Snapshots, Accurate
<1>2. CASE p \notin DOMAIN s.entries
  <2>1. Removed(s, p) = s
    BY <1>2 DEF Removed
  <2> QED
    BY <1>2, <2>1 DEF Elsewhere
<1>3. CASE p \in DOMAIN s.entries
  <2> DEFINE e == s.entries
             f == Without(e, p)
             r == [s EXCEPT !.entries = f, !.count = Minus(@, 1), !.bytes = Minus(@, Size[e[p]])]
  <2>1. Removed(s, p) = r
    BY <1>3 DEF Removed
  <2>2. /\ r.entries = f /\ r.count = Minus(s.count, 1) /\ r.bytes = Minus(s.bytes, Size[e[p]])
        /\ r.inputs = s.inputs /\ r.diagnosed = s.diagnosed
    BY DEF Snapshots
  <2>3. /\ f \in Entries /\ DOMAIN f = DOMAIN e \ {p} /\ (\A q \in DOMAIN e \ {p} : f[q] = e[q])
        /\ Bytes(e) = Bytes(f) + Size[e[p]] /\ Bytes(f) \in Nat /\ Bytes(e) \in Nat /\ Size[e[p]] \in Nat
    <3>1. e[p] \in Texts
      BY <1>1, <1>3, EntriesAre
    <3>2. Size[e[p]] \in Nat
      BY <3>1, IndexAssumption
    <3>3. Bytes(e) = Bytes(f) + Size[e[p]]
      BY <1>1, <1>3, BytesWithout
    <3>4. f \in Entries /\ DOMAIN f = DOMAIN e \ {p} /\ (\A q \in DOMAIN e \ {p} : f[q] = e[q])
      BY <1>1, WithoutIs
    <3> HIDE DEF f
    <3> QED
      BY <1>1, <3>2, <3>3, <3>4, PlacesFinite
  <2>4. Cardinality(DOMAIN f) = Cardinality(DOMAIN e) - 1
    <3>1. IsFiniteSet(DOMAIN e)
      BY <1>1, EntriesAre
    <3> HIDE DEF f
    <3> QED
      BY <1>3, <2>3, <3>1, FS_RemoveElement
  <2>5. Cardinality(DOMAIN f) \in Nat /\ Cardinality(DOMAIN e) \in Nat
    <3> HIDE DEF f
    <3> QED
      BY <1>1, <2>3, Counters
  <2>6. r.count = Cardinality(DOMAIN f) /\ r.bytes = Bytes(f) /\ r.bytes <= MaxTotalBytes
    <3>1. s.count = Cardinality(DOMAIN e) /\ s.bytes = Bytes(e)
      BY DEF Accurate
    <3> HIDE DEF f, e, r
    <3>2. r.count = Cardinality(DOMAIN f)
      BY <2>2, <2>4, <2>5, <3>1 DEF Minus
    <3>3. r.bytes = Bytes(f) /\ r.bytes <= MaxTotalBytes
      BY <1>1, <2>2, <2>3, <3>1, IndexAssumption DEF Minus
    <3> QED
      BY <3>2, <3>3
  <2>7. r \in Snapshots
    <3>1. r.count \in 0..(MaxFiles + Cardinality(Paths)) /\ r.bytes \in 0..MaxTotalBytes
      <4> HIDE DEF f, r
      <4> QED
        BY <2>3, <2>6, Counters
    <3> DEFINE count == Minus(s.count, 1)
               bytes == Minus(s.bytes, Size[e[p]])
    <3>2. count \in 0..(MaxFiles + Cardinality(Paths)) /\ bytes \in 0..MaxTotalBytes
      <4> HIDE DEF f, r
      <4> QED
        BY <2>2, <3>1
    <3>3. r = [s EXCEPT !.entries = f, !.count = count, !.bytes = bytes]
      OBVIOUS
    <3> HIDE DEF f, r, count, bytes
    <3> QED
      BY <2>3, <3>2, <3>3, SnapshotWith
  <2> HIDE DEF r, f
  <2> QED
    BY <2>1, <2>2, <2>3, <2>6, <2>7 DEF Accurate, Elsewhere, e
<1> QED
  BY <1>2, <1>3

LEMMA InsertedIs ==
  ASSUME NEW s \in Snapshots, Accurate(s), NEW p \in Paths, p \notin DOMAIN s.entries, NEW text \in Texts, BytesFit(s, text)
  PROVE  /\ Inserted(s, p, text) \in Snapshots /\ Accurate(Inserted(s, p, text)) /\ Elsewhere(s, Inserted(s, p, text), p)
         /\ p \in DOMAIN Inserted(s, p, text).entries /\ Inserted(s, p, text).entries[p] = text
         /\ Inserted(s, p, text).count = s.count + 1
<1>1. s.entries \in Entries /\ s.count \in Nat /\ s.bytes \in Nat /\ s.inputs \in IgnoreFiles /\ s.diagnosed \in SUBSET Paths
      /\ s.bytes <= MaxTotalBytes
  BY Counters DEF Snapshots, Accurate
<1> DEFINE e == s.entries
           f == With(e, p, text)
           r == [s EXCEPT !.entries = f, !.count = @ + 1, !.bytes = @ + Size[text]]
<1>2. Inserted(s, p, text) = r
  BY DEF Inserted
<1>3. /\ r.entries = f /\ r.count = s.count + 1 /\ r.bytes = s.bytes + Size[text]
      /\ r.inputs = s.inputs /\ r.diagnosed = s.diagnosed
  BY DEF Snapshots
<1>4. /\ f \in Entries /\ DOMAIN f = DOMAIN e \cup {p} /\ f[p] = text /\ (\A q \in DOMAIN e \ {p} : f[q] = e[q])
  BY <1>1, WithIs, ZenonT(60)
<1>5. Bytes(f) = Bytes(e) + Size[text] /\ Bytes(e) \in Nat /\ Size[text] \in Nat
  <2>1. Size[text] \in Nat
    BY IndexAssumption
  <2>2. Bytes(f) = Bytes(e) + Size[text]
    BY <1>1, BytesWith
  <2> QED
    BY <1>1, <2>1, <2>2, PlacesFinite
<1>6. Cardinality(DOMAIN f) = Cardinality(DOMAIN e) + 1
  <2>1. IsFiniteSet(DOMAIN e)
    BY <1>1, EntriesAre
  <2> HIDE DEF f
  <2> QED
    BY <1>4, <2>1, FS_AddElement
<1>7. Cardinality(DOMAIN f) \in 0..Cardinality(Paths)
  BY <1>4, Counters
<1>8. r.count = Cardinality(DOMAIN f) /\ r.bytes = Bytes(f) /\ r.bytes <= MaxTotalBytes
  <2>1. s.count = Cardinality(DOMAIN e) /\ s.bytes = Bytes(e)
    BY DEF Accurate
  <2>2. Size[text] <= Minus(MaxTotalBytes, s.bytes)
    BY DEF BytesFit
  <2> HIDE DEF f, e, r
  <2>3. r.bytes <= MaxTotalBytes
    BY <1>1, <1>3, <1>5, <2>2, IndexAssumption DEF Minus
  <2> QED
    BY <1>3, <1>5, <1>6, <2>1, <2>3
<1>9. r \in Snapshots
  <2>1. r.count \in 0..(MaxFiles + Cardinality(Paths)) /\ r.bytes \in 0..MaxTotalBytes
    <3> HIDE DEF f, r, e
    <3> QED
      BY <1>1, <1>3, <1>5, <1>7, <1>8, Counters
  <2> DEFINE count == s.count + 1
             bytes == s.bytes + Size[text]
  <2>2. count \in 0..(MaxFiles + Cardinality(Paths)) /\ bytes \in 0..MaxTotalBytes
    <3> HIDE DEF f, r
    <3> QED
      BY <1>3, <2>1
  <2>3. r = [s EXCEPT !.entries = f, !.count = count, !.bytes = bytes]
    OBVIOUS
  <2> HIDE DEF f, r, count, bytes
  <2> QED
    BY <1>4, <2>2, <2>3, SnapshotWith
<1> HIDE DEF r, f
<1> QED
  BY <1>2, <1>3, <1>4, <1>8, <1>9 DEF Accurate, Elsewhere, e

LEMMA DiagnosedIs ==
  ASSUME NEW s \in Snapshots, NEW p \in Paths
  PROVE  /\ Diagnosed(s, p) \in Snapshots /\ (Accurate(s) => Accurate(Diagnosed(s, p)))
         /\ Diagnosed(s, p).inputs = s.inputs /\ Diagnosed(s, p).entries = s.entries
         /\ Diagnosed(s, p).count = s.count /\ Diagnosed(s, p).diagnosed = s.diagnosed \cup {p}
BY DEF Diagnosed, Snapshots, Accurate

(***************************************************************************)
(* What a step leaves alone                                                *)
(***************************************************************************)
LEMMA SameIndex ==
  ASSUME IInv, UNCHANGED <<file, index, replica, pending>>
  PROVE  IndexAgrees' /\ ReplicaAgrees' /\ UpToDate'
BY DEF IInv, index, IndexAgrees, ReplicaAgrees, UpToDate, Readable

LEMMA SameTypes ==
  ASSUME IInv, UNCHANGED <<file, index, pending>>, refresh' \in Refreshes
  PROVE  TypeOK'
BY DEF IInv, TypeOK, index, Refreshes

LEMMA SameSeen ==
  ASSUME UNCHANGED file, NEW s, NEW p
  PROVE  (Readable(p, s.inputs)' <=> Readable(p, s.inputs)) /\ (Seen(s, p)' <=> Seen(s, p))
BY DEF Seen, Readable

LEMMA EmptySnapshot ==
  ASSUME NEW inputs \in IgnoreFiles
  PROVE  /\ Snapshot(inputs) \in Snapshots /\ Accurate(Snapshot(inputs))
         /\ DOMAIN Snapshot(inputs).entries = {} /\ Snapshot(inputs).count = 0 /\ Snapshot(inputs).inputs = inputs
         /\ Snapshot(inputs).diagnosed = {}
<1>1. Nothing \in Entries /\ DOMAIN Nothing = {}
  <2>1. Nothing \in [{} -> Texts] /\ DOMAIN Nothing = {}
    BY DEF Nothing
  <2> QED
    BY <2>1, EntriesAre
<1>2. Places(Nothing) = {}
  BY <1>1 DEF Places
<1>3. Bytes(Nothing) = 0 /\ Cardinality(DOMAIN Nothing) = 0
  BY <1>1, <1>2, FS_EmptySet DEF Bytes
<1>4. Snapshot(inputs) \in Snapshots
  BY <1>1, Counters DEF Snapshot, Snapshots
<1> QED
  BY <1>1, <1>3, <1>4, Counters DEF Snapshot, Accurate

LEMMA IdleIs ==
  ASSUME IgnoreFiles # {}
  PROVE  NoRefresh \in Refreshes /\ NoRefresh.pc = "idle" /\ NoRefresh.todo = {} /\ NoRefresh.read = {}
<1>1. (CHOOSE i \in IgnoreFiles : TRUE) \in IgnoreFiles
  OBVIOUS
<1>2. Snapshot(CHOOSE i \in IgnoreFiles : TRUE) \in Snapshots
  BY <1>1, EmptySnapshot
<1> QED
  BY <1>2 DEF NoRefresh, Refreshes

LEMMA FailsKeeps ==
  ASSUME IInv, Fails, UNCHANGED <<file, ignore, pending>>
  PROVE  IInv'
<1>1. refresh' = NoRefresh /\ NoRefresh \in Refreshes /\ NoRefresh.pc = "idle" /\ UNCHANGED <<index, replica>>
  BY IdleIs DEF Fails, IInv
<1>2. TypeOK' /\ IndexAgrees' /\ ReplicaAgrees' /\ UpToDate' /\ ignore' \in IgnoreFiles
  BY <1>1, SameIndex, SameTypes DEF IInv
<1> QED
  BY <1>1, <1>2 DEF IInv

(***************************************************************************)
(* The steps of a refresh                                                  *)
(***************************************************************************)
LEMMA BeginKeeps ==
  ASSUME IInv, Begin
  PROVE  IInv'
<1>1. UNCHANGED <<file, ignore, pending, index, replica>> /\ scan \in Snapshots /\ ignore \in IgnoreFiles
  BY DEF Begin, Outside, IInv, TypeOK
<1>2. IndexAgrees' /\ ReplicaAgrees' /\ UpToDate'
  BY <1>1, SameIndex
<1>i. NoRefresh \in Refreshes /\ NoRefresh.pc = "idle" /\ NoRefresh.todo = {} /\ NoRefresh.read = {}
  BY <1>1, IdleIs
<1>3. CASE refresh' = NoRefresh
  BY <1>1, <1>3, FailsKeeps DEF Fails
<1>4. ASSUME NEW named \in SUBSET Paths, ignore = scan.inputs,
             refresh' = [NoRefresh EXCEPT !.pc = "paths", !.named = named, !.work = Retained(named), !.todo = named]
      PROVE  IInv'
  <2> DEFINE w == Retained(named)
  <2>1. /\ w \in Snapshots /\ w.inputs = scan.inputs /\ w.entries = scan.entries /\ w.count = scan.count /\ w.bytes = scan.bytes
        /\ w.diagnosed = scan.diagnosed \ named
    BY <1>1 DEF Retained, Snapshots
  <2>2. Accurate(w)
    BY <2>1 DEF Accurate, IInv, IndexAgrees
  <2> HIDE DEF w
  <2>3. /\ refresh' \in Refreshes /\ refresh'.pc = "paths" /\ refresh'.named = named /\ refresh'.work = w
        /\ refresh'.todo = named /\ refresh'.read = {}
    BY <1>4, <1>i, <2>1 DEF Refreshes, w
  <2>4. TypeOK'
    BY <1>1, <2>3, SameTypes
  <2>5. Building'
    <3>1. Accurate(refresh.work)'
      BY <2>2, <2>3 DEF Accurate
    <3> QED
      BY <2>3, <3>1 DEF Building
  <2>6. scan' = scan
    BY <1>1 DEF index
  <2>7. Kept'
    BY <2>1, <2>3, <2>6 DEF Kept, SameEntry
  <2>8. Covered(refresh.named)'
    BY <2>3 DEF Covered
  <2> QED
    BY <1>1, <1>2, <2>3, <2>4, <2>5, <2>7, <2>8 DEF IInv
<1>5. ASSUME NEW named \in SUBSET Paths, refresh' = [NoRefresh EXCEPT !.pc = "collect", !.named = named]
      PROVE  IInv'
  <2>1. refresh' \in Refreshes /\ refresh'.pc = "collect"
    BY <1>5, <1>i DEF Refreshes
  <2>2. TypeOK'
    BY <1>1, <2>1, SameTypes
  <2> QED
    BY <1>1, <1>2, <2>1, <2>2 DEF IInv
<1>6. \/ refresh' = NoRefresh
      \/ \E named \in SUBSET Paths :
           \/ /\ ignore = scan.inputs
              /\ refresh' = [NoRefresh EXCEPT !.pc = "paths", !.named = named, !.work = Retained(named), !.todo = named]
           \/ refresh' = [NoRefresh EXCEPT !.pc = "collect", !.named = named]
  BY DEF Begin
<1> QED
  BY <1>3, <1>4, <1>5, <1>6

LEMMA CollectKeeps ==
  ASSUME IInv, Collect
  PROVE  IInv'
<1>1. UNCHANGED <<file, ignore, pending, index, replica>> /\ ignore \in IgnoreFiles /\ refresh \in Refreshes
  BY DEF Collect, Outside, IInv, Fails
<1>2. CASE Fails
  BY <1>1, <1>2, FailsKeeps
<1> DEFINE listed == {p \in Paths \ Ignored[ignore] : file[p] \notin {Absent, Directory}}
           w == Snapshot(ignore)
<1>3. CASE refresh' = [refresh EXCEPT !.pc = "walk", !.work = w, !.todo = listed, !.read = Paths \ listed]
  <2>1. /\ w \in Snapshots /\ Accurate(w) /\ DOMAIN w.entries = {} /\ w.count = 0 /\ w.inputs = ignore /\ w.diagnosed = {}
    BY <1>1, EmptySnapshot
  <2>2. /\ refresh' \in Refreshes /\ refresh'.pc = "walk" /\ refresh'.work = w
        /\ refresh'.todo = listed /\ refresh'.read = Paths \ listed
    BY <1>1, <1>3, <2>1 DEF Refreshes
  <2>3. \A p \in Paths \ listed : ~ Readable(p, ignore)
    BY IndexAssumption DEF Readable
  <2>4. listed \cap Ignored[ignore] = {} /\ listed \subseteq Paths
    OBVIOUS
  <2> HIDE DEF w, listed
  <2>5. \A p \in Paths \ listed : Seen(w, p)
    BY <2>1, <2>3 DEF Seen
  <2>6. Building'
    <3>1. Accurate(refresh.work)'
      BY <2>1, <2>2 DEF Accurate
    <3>2. \A p \in Paths \ listed : Seen(refresh.work, p)'
      BY <1>1, <2>2, <2>5 DEF Seen, Readable
    <3> QED
      BY <2>2, <3>1, <3>2 DEF Building
  <2>7. Fresh'
    BY <2>1, <2>2, <2>4, IndexAssumption DEF Fresh
  <2>8. Covered(Paths)'
    BY <2>2, <2>4 DEF Covered
  <2>9. TypeOK' /\ IndexAgrees' /\ ReplicaAgrees' /\ UpToDate'
    BY <1>1, <2>2, SameTypes, SameIndex
  <2> QED
    BY <1>1, <2>2, <2>6, <2>7, <2>8, <2>9 DEF IInv
<1> QED
  BY <1>2, <1>3 DEF Collect

\* One path was read, and the candidate says of it what the repository says.
LEMMA ReadKeeps ==
  ASSUME IInv, refresh.pc \in {"paths", "walk"}, NEW p \in refresh.todo,
         NEW w \in Snapshots, Accurate(w), Elsewhere(refresh.work, w, p), Seen(w, p),
         refresh.pc = "walk" => w.count <= MaxFiles,
         Proceed(p, w), UNCHANGED <<file, ignore, pending>>
  PROVE  IInv'
<1>1. /\ UNCHANGED <<index, replica>> /\ refresh \in Refreshes /\ p \in Paths /\ refresh.todo \subseteq Paths
      /\ refresh.read \subseteq Paths /\ refresh.named \subseteq Paths
  BY DEF Proceed, IInv, Refreshes
<1>2. /\ refresh' \in Refreshes /\ refresh'.pc = refresh.pc /\ refresh'.named = refresh.named /\ refresh'.work = w
      /\ refresh'.todo = refresh.todo \ {p} /\ refresh'.read = refresh.read \cup {p}
  BY <1>1 DEF Proceed, Refreshes
<1>3. TypeOK' /\ IndexAgrees' /\ ReplicaAgrees' /\ UpToDate'
  BY <1>1, <1>2, SameTypes, SameIndex
<1>4. Building /\ (refresh.pc = "paths" => Kept /\ Covered(refresh.named)) /\ (refresh.pc = "walk" => Fresh /\ Covered(Paths))
  BY DEF IInv
<1>5. w.inputs = refresh.work.inputs
  BY DEF Elsewhere
<1>6. Building'
  <2>1. Accurate(refresh.work)'
    BY <1>2 DEF Accurate
  <2>2. \A q \in refresh.read \ {p} : Seen(w, q)
    BY <1>1, <1>4 DEF Building, Elsewhere, Seen
  <2>3. \A q \in refresh'.read : Seen(w, q)
    BY <1>2, <2>2
  <2>4. \A q \in refresh'.read : Seen(refresh.work, q)'
    BY <1>2, <2>3 DEF Seen, Readable
  <2> QED
    BY <1>2, <1>4, <2>1, <2>4 DEF Building
<1>7. refresh.pc = "paths" => Kept'
  <2>1. CASE refresh.pc = "paths"
    <3>1. Kept /\ p \in refresh.named
      BY <1>4, <2>1 DEF Kept
    <3>2. \A q \in Paths \ refresh.named : SameEntry(w, q) /\ (q \in w.diagnosed <=> q \in scan.diagnosed)
      BY <3>1 DEF Kept, Elsewhere, SameEntry
    <3>3. scan' = scan
      BY <1>1 DEF index
    <3>4. \A q \in Paths \ refresh.named : SameEntry(refresh.work, q)' /\ (q \in w.diagnosed <=> q \in scan.diagnosed)
      BY <1>2, <3>2, <3>3 DEF SameEntry
    <3>5. refresh'.todo \subseteq refresh'.named /\ refresh'.read \subseteq refresh'.named /\ refresh'.work.inputs = scan'.inputs
      BY <1>2, <1>5, <3>1, <3>3 DEF Kept
    <3> QED
      BY <1>2, <3>3, <3>4, <3>5 DEF Kept
  <2> QED
    BY <2>1
<1>8. refresh.pc = "walk" => Fresh'
  <2>1. CASE refresh.pc = "walk"
    <3>1. Fresh /\ w.count <= MaxFiles
      BY <1>4, <2>1
    <3>2. \A q \in refresh.todo \ {p} : q \notin DOMAIN w.entries /\ q \notin Ignored[w.inputs]
      BY <1>1, <1>5, <3>1 DEF Fresh, Elsewhere
    <3> QED
      BY <1>2, <3>1, <3>2 DEF Fresh
  <2> QED
    BY <2>1
<1>9. (refresh.pc = "paths" => Covered(refresh.named)') /\ (refresh.pc = "walk" => Covered(Paths)')
  BY <1>2, <1>4 DEF Covered
<1> QED
  BY <1>1, <1>2, <1>3, <1>6, <1>7, <1>8, <1>9 DEF IInv

LEMMA ReadNamedKeeps ==
  ASSUME IInv, ReadNamed
  PROVE  IInv'
<1> DEFINE p == Min(refresh.todo)
           w == Removed(refresh.work, p)
<1>1. /\ UNCHANGED <<file, ignore, pending>> /\ refresh \in Refreshes /\ refresh.pc = "paths" /\ refresh.todo # {}
      /\ refresh.todo \subseteq Paths /\ refresh.work \in Snapshots /\ Accurate(refresh.work)
  BY DEF ReadNamed, Outside, IInv, Refreshes, Building
<1>2. p \in refresh.todo
  BY <1>1, MinIs, IndexAssumption
<1> HIDE DEF p
<1>3. /\ w \in Snapshots /\ Accurate(w) /\ Elsewhere(refresh.work, w, p) /\ p \notin DOMAIN w.entries
  BY <1>1, <1>2, RemovedIs
<1>4. \/ Fails
      \/ /\ p \in Ignored[w.inputs] \/ file[p] = Absent
         /\ Proceed(p, w)
      \/ p \notin Ignored[w.inputs] /\ Proceed(p, Diagnosed(w, p))
      \/ p \notin Ignored[w.inputs] /\ file[p] \in Texts /\ BytesFit(w, file[p]) /\ Proceed(p, Inserted(w, p, file[p]))
  BY DEF ReadNamed, p
<1> HIDE DEF w
<1>5. CASE Fails
  BY <1>1, <1>5, FailsKeeps
<1>6. CASE (p \in Ignored[w.inputs] \/ file[p] = Absent) /\ Proceed(p, w)
  <2>1. Seen(w, p)
    BY <1>3, <1>6, IndexAssumption DEF Seen, Readable
  <2> QED
    BY <1>1, <1>2, <1>3, <1>6, <2>1, ReadKeeps
<1>7. CASE Proceed(p, Diagnosed(w, p))
  <2> DEFINE d == Diagnosed(w, p)
  <2>1. /\ d \in Snapshots /\ Accurate(d) /\ d.inputs = w.inputs /\ d.entries = w.entries /\ d.count = w.count
        /\ d.diagnosed = w.diagnosed \cup {p}
    BY <1>1, <1>2, <1>3, DiagnosedIs
  <2>2. Proceed(p, d)
    BY <1>7
  <2> HIDE DEF d
  <2>3. Elsewhere(refresh.work, d, p) /\ Seen(d, p)
    BY <1>3, <2>1 DEF Elsewhere, Seen
  <2> QED
    BY <1>1, <1>2, <2>1, <2>2, <2>3, ReadKeeps
<1>8. CASE p \notin Ignored[w.inputs] /\ file[p] \in Texts /\ BytesFit(w, file[p]) /\ Proceed(p, Inserted(w, p, file[p]))
  <2> DEFINE n == Inserted(w, p, file[p])
  <2>1. /\ n \in Snapshots /\ Accurate(n) /\ Elsewhere(w, n, p) /\ p \in DOMAIN n.entries /\ n.entries[p] = file[p]
    BY <1>1, <1>2, <1>3, <1>8, InsertedIs
  <2>2. Proceed(p, n)
    BY <1>8
  <2> HIDE DEF n
  <2>3. Elsewhere(refresh.work, n, p)
    BY <1>3, <2>1 DEF Elsewhere
  <2>4. Readable(p, n.inputs)
    BY <1>8, <2>1 DEF Readable, Elsewhere
  <2>5. Seen(n, p)
    BY <2>1, <2>4 DEF Seen
  <2> QED
    BY <1>1, <1>2, <2>1, <2>2, <2>3, <2>5, ReadKeeps
<1> QED
  BY <1>4, <1>5, <1>6, <1>7, <1>8

LEMMA WalkKeeps ==
  ASSUME IInv, Walk
  PROVE  IInv'
<1> DEFINE p == Min(refresh.todo)
           w == refresh.work
<1>1. /\ UNCHANGED <<file, ignore, pending>> /\ refresh \in Refreshes /\ refresh.pc = "walk" /\ refresh.todo # {}
      /\ refresh.todo \subseteq Paths /\ w \in Snapshots /\ Accurate(w) /\ Fresh
  BY DEF Walk, Outside, IInv, Refreshes, Building
<1>2. p \in refresh.todo
  BY <1>1, MinIs, IndexAssumption
<1> HIDE DEF p
<1>3. p \notin DOMAIN w.entries /\ p \notin Ignored[w.inputs] /\ w.count <= MaxFiles
  BY <1>1, <1>2 DEF Fresh
<1>4. \/ Fails
      \/ Proceed(p, Diagnosed(w, p))
      \/ file[p] \in Texts /\ w.count < MaxFiles /\ BytesFit(w, file[p]) /\ Proceed(p, Inserted(w, p, file[p]))
  BY DEF Walk, p
<1>5. CASE Fails
  BY <1>1, <1>5, FailsKeeps
<1>6. CASE Proceed(p, Diagnosed(w, p))
  <2> DEFINE d == Diagnosed(w, p)
  <2>1. /\ d \in Snapshots /\ Accurate(d) /\ d.inputs = w.inputs /\ d.entries = w.entries /\ d.count = w.count
        /\ d.diagnosed = w.diagnosed \cup {p}
    BY <1>1, <1>2, DiagnosedIs
  <2>2. Proceed(p, d)
    BY <1>6
  <2> HIDE DEF d
  <2>3. Elsewhere(w, d, p) /\ Seen(d, p)
    BY <2>1 DEF Elsewhere, Seen
  <2> QED
    BY <1>1, <1>2, <1>3, <2>1, <2>2, <2>3, ReadKeeps
<1>7. CASE file[p] \in Texts /\ w.count < MaxFiles /\ BytesFit(w, file[p]) /\ Proceed(p, Inserted(w, p, file[p]))
  <2> DEFINE n == Inserted(w, p, file[p])
  <2>1. /\ n \in Snapshots /\ Accurate(n) /\ Elsewhere(w, n, p) /\ p \in DOMAIN n.entries /\ n.entries[p] = file[p]
        /\ n.count = w.count + 1
    BY <1>1, <1>2, <1>3, <1>7, InsertedIs
  <2>2. Proceed(p, n)
    BY <1>7
  <2> HIDE DEF n
  <2>3. Readable(p, n.inputs)
    BY <1>3, <1>7, <2>1 DEF Readable, Elsewhere
  <2>4. Seen(n, p)
    BY <2>1, <2>3 DEF Seen
  <2>5. n.count <= MaxFiles
    <3>1. w.count \in Nat
      BY <1>1, Counters DEF Snapshots
    <3> QED
      BY <1>7, <2>1, <3>1, IndexAssumption
  <2> QED
    BY <1>1, <1>2, <2>1, <2>2, <2>4, <2>5, ReadKeeps
<1> QED
  BY <1>4, <1>5, <1>6, <1>7

(***************************************************************************)
(* The end of a refresh                                                    *)
(***************************************************************************)
\* What is kept of the last parse is the parse of the same bytes.
LEMMA ParseIs ==
  ASSUME NEW work \in Snapshots, parsed = scan.entries, NEW differ, NEW named
  PROVE  Parse(work, Changes(scan.entries, work.entries, differ, named)) = work.entries
<1> DEFINE c == Changes(scan.entries, work.entries, differ, named)
<1>1. /\ c.reused \cup c.changed \cup c.added = DOMAIN work.entries
      /\ \A p \in c.reused : scan.entries[p] = work.entries[p]
  BY DEF Changes
<1>2. work.entries \in [DOMAIN work.entries -> Texts]
  BY EntriesAre DEF Snapshots
<1> HIDE DEF c
<1>3. Parse(work, c) = [p \in DOMAIN work.entries |-> work.entries[p]]
  BY <1>1 DEF Parse
<1> QED
  BY <1>2, <1>3 DEF c

\* A receipt that is applied to what was published before gives what is
\* published now.
LEMMA ReplayedIs ==
  ASSUME NEW work \in Snapshots, replica = scan.entries, NEW differ, NEW named
  PROVE  LET c == Changes(scan.entries, work.entries, differ, named)
             renamed == Unique(Eligible(scan.entries, work.entries, c.removed, c.added))
         IN  Replayed(c, renamed, work.entries) = work.entries
<1> DEFINE c == Changes(scan.entries, work.entries, differ, named)
           renamed == Unique(Eligible(scan.entries, work.entries, c.removed, c.added))
           copies == {pair[2] : pair \in renamed}
<1>1. /\ c.reused \cup c.changed \cup c.added = DOMAIN work.entries
      /\ \A p \in c.reused : scan.entries[p] = work.entries[p]
  BY DEF Changes
<1>2. work.entries \in [DOMAIN work.entries -> Texts]
  BY EntriesAre DEF Snapshots
<1>3. \A pair \in renamed : scan.entries[pair[1]] = work.entries[pair[2]]
  BY DEF Unique, Eligible
<1> HIDE DEF c, renamed
<1>4. \A p \in copies : replica[(CHOOSE pair \in renamed : pair[2] = p)[1]] = work.entries[p]
  <2>1. ASSUME NEW p \in copies PROVE replica[(CHOOSE pair \in renamed : pair[2] = p)[1]] = work.entries[p]
    <3>1. \E pair \in renamed : pair[2] = p
      BY <2>1
    <3>2. (CHOOSE pair \in renamed : pair[2] = p) \in renamed /\ (CHOOSE pair \in renamed : pair[2] = p)[2] = p
      BY <3>1
    <3> QED
      BY <1>3, <3>2
  <2> QED
    BY <2>1
<1>5. Replayed(c, renamed, work.entries) = [p \in DOMAIN work.entries |-> work.entries[p]]
  <2>1. Replayed(c, renamed, work.entries) =
          [p \in DOMAIN work.entries |->
             IF p \in copies THEN replica[(CHOOSE pair \in renamed : pair[2] = p)[1]]
             ELSE IF p \in c.reused THEN replica[p]
             ELSE work.entries[p]]
    BY <1>1, Zenon DEF Replayed
  <2> HIDE DEF copies
  <2>2. \A p \in DOMAIN work.entries :
          (IF p \in copies THEN replica[(CHOOSE pair \in renamed : pair[2] = p)[1]]
           ELSE IF p \in c.reused THEN replica[p]
           ELSE work.entries[p]) = work.entries[p]
    BY <1>1, <1>4
  <2> QED
    BY <2>1, <2>2
<1> QED
  BY <1>2, <1>5 DEF c, renamed

LEMMA FinishKeeps ==
  ASSUME IInv, Finish
  PROVE  IInv'
<1> DEFINE work == refresh.work
           changes == Changes(scan.entries, work.entries, work.inputs # scan.inputs, refresh.named)
           candidate == Parse(work, changes)
           renamed == Unique(Eligible(scan.entries, work.entries, changes.removed, changes.added))
<1>1. /\ UNCHANGED <<file, ignore>> /\ refresh \in Refreshes /\ refresh.pc \in {"paths", "walk"} /\ refresh.todo = {}
      /\ work \in Snapshots /\ Building /\ scan \in Snapshots
      /\ parsed = scan.entries /\ replica = scan.entries
      /\ refresh.pc = "paths" => Kept /\ Covered(refresh.named)
      /\ refresh.pc = "walk" => Fresh /\ Covered(Paths)
  BY DEF Finish, IInv, Refreshes, IndexAgrees, ReplicaAgrees, TypeOK
<1>2. candidate = work.entries /\ Replayed(changes, renamed, work.entries) = work.entries
  BY <1>1, ParseIs, ReplayedIs
<1>3. \/ Fails /\ UNCHANGED pending
      \/ /\ refresh.pc = "walk" \/ FilesFit(work)
         /\ scan' = work
         /\ parsed' = candidate
         /\ published' = [nodes |-> work.entries, facts |-> candidate, inputs |-> work.inputs]
         /\ replica' = Replayed(changes, renamed, work.entries)
         /\ pending' = pending \ refresh.read
         /\ refresh' = NoRefresh
  BY DEF Finish
<1> HIDE DEF candidate, changes, renamed
<1>4. CASE Fails /\ UNCHANGED pending
  BY <1>1, <1>4, FailsKeeps
<1>5. CASE /\ refresh.pc = "walk" \/ FilesFit(work)
           /\ scan' = work
           /\ parsed' = candidate
           /\ published' = [nodes |-> work.entries, facts |-> candidate, inputs |-> work.inputs]
           /\ replica' = Replayed(changes, renamed, work.entries)
           /\ pending' = pending \ refresh.read
           /\ refresh' = NoRefresh
  <2>1. /\ scan' = work /\ parsed' = work.entries /\ replica' = work.entries
        /\ published' = [nodes |-> work.entries, facts |-> work.entries, inputs |-> work.inputs]
    BY <1>2, <1>5
  <2>2. work.count <= MaxFiles /\ Accurate(work)
    BY <1>1, <1>5 DEF FilesFit, Fresh, Building
  <2> HIDE DEF work
  <2>3. IndexAgrees' /\ ReplicaAgrees'
    <3>1. published'.nodes = work.entries
      BY <2>1
    <3>2. ReplicaAgrees'
      BY <2>1, <3>1 DEF ReplicaAgrees
    <3>3. Bytes(scan.entries)' = Bytes(work.entries)
      BY <2>1 DEF Bytes, Places
    <3> QED
      BY <2>1, <2>2, <3>2, <3>3 DEF IndexAgrees, Accurate
  <2>4. UpToDate'
    <3>1. ASSUME NEW p \in Paths, p \notin pending', p \notin work.diagnosed PROVE Seen(work, p)
      <4>1. CASE p \in refresh.read
        BY <1>1, <4>1 DEF Building, work
      <4>2. CASE p \notin refresh.read
        <5>1. p \notin pending
          BY <1>5, <3>1, <4>2
        <5>2. refresh.pc = "paths" /\ p \notin refresh.named
          BY <1>1, <4>2, <5>1 DEF Covered
        <5>3. Kept /\ UpToDate
          BY <1>1, <5>2 DEF IInv
        <5>4. p \notin scan.diagnosed /\ SameEntry(work, p) /\ work.inputs = scan.inputs
          BY <3>1, <5>2, <5>3 DEF Kept, work
        <5> QED
          BY <5>1, <5>3, <5>4 DEF UpToDate, Seen, SameEntry
      <4> QED
        BY <4>1, <4>2
    <3> QED
      BY <1>1, <2>1, <3>1 DEF UpToDate, Seen, Readable
  <2>5. /\ refresh' \in Refreshes /\ refresh'.pc = "idle"
    BY <1>5, IdleIs DEF IInv
  <2>6. TypeOK' /\ ignore' \in IgnoreFiles
    <3>1. work.entries \in Entries /\ work.inputs \in IgnoreFiles
      BY <1>1 DEF Snapshots, work
    <3>2. published' \in [nodes : Entries, facts : Entries, inputs : IgnoreFiles]
      BY <2>1, <3>1
    <3>3. pending' \subseteq Paths
      BY <1>5 DEF IInv, TypeOK
    <3> QED
      BY <1>1, <2>1, <2>5, <3>1, <3>2, <3>3 DEF IInv, TypeOK, Refreshes, work
  <2> QED
    BY <2>3, <2>4, <2>5, <2>6 DEF IInv
<1> QED
  BY <1>3, <1>4, <1>5

(***************************************************************************)
(* Editors                                                                 *)
(***************************************************************************)

\* A file changes: it is pending, and no longer counts as read.
LEMMA EditKeeps ==
  ASSUME IInv, NEW p \in Paths, Edit(p)
  PROVE  IInv'
<1>1. /\ UNCHANGED <<ignore, index, replica>> /\ refresh \in Refreshes
      /\ file' \in [Paths -> Texts \cup {Absent, Opaque, Directory}] /\ (\A q \in Paths \ {p} : file'[q] = file[q])
      /\ pending' = pending \cup {p} /\ refresh' = [refresh EXCEPT !.read = @ \ {p}]
  BY DEF Edit, IInv, TypeOK
<1>2. /\ refresh' \in Refreshes /\ refresh'.pc = refresh.pc /\ refresh'.named = refresh.named
      /\ refresh'.work = refresh.work /\ refresh'.todo = refresh.todo /\ refresh'.read = refresh.read \ {p}
  BY <1>1 DEF Refreshes
<1>3. TypeOK' /\ IndexAgrees' /\ ReplicaAgrees' /\ ignore' \in IgnoreFiles
  <2>1. IndexAgrees' /\ ReplicaAgrees'
    BY <1>1 DEF IInv, index, IndexAgrees, ReplicaAgrees
  <2> QED
    BY <1>1, <1>2, <2>1 DEF IInv, TypeOK, index, Refreshes
<1>4. UpToDate'
  BY <1>1 DEF IInv, UpToDate, Readable, index
<1>5. Building => Building'
  <2>1. Accurate(refresh.work) => Accurate(refresh.work)'
    BY <1>2 DEF Accurate
  <2>2. refresh.read \subseteq Paths
    BY <1>1 DEF Refreshes
  <2>3. ASSUME NEW q \in refresh'.read, Seen(refresh.work, q) PROVE Seen(refresh.work, q)'
    BY <1>1, <1>2, <2>2, <2>3 DEF Seen, Readable
  <2> QED
    BY <1>2, <2>1, <2>3 DEF Building
<1>6. scan' = scan
  BY <1>1 DEF index
<1>7. Kept => Kept'
  BY <1>2, <1>6 DEF Kept, SameEntry
<1>8. Fresh => Fresh'
  BY <1>2 DEF Fresh
<1>9. (Covered(refresh.named) => Covered(refresh.named)') /\ (Covered(Paths) => Covered(Paths)')
  BY <1>1, <1>2 DEF Covered
<1> QED
  BY <1>2, <1>3, <1>4, <1>5, <1>7, <1>8, <1>9 DEF IInv

\* Neither a new ignore file nor a step of nobody changes what the index says.
LEMMA OthersKeep ==
  ASSUME IInv, UNCHANGED <<file, index, refresh, pending, replica>>, ignore' \in IgnoreFiles
  PROVE  IInv'
<1>1. TypeOK' /\ IndexAgrees' /\ ReplicaAgrees' /\ UpToDate' /\ refresh' \in Refreshes
  BY SameIndex, SameTypes DEF IInv
<1>2. scan' = scan
  BY DEF index
<1>3. Building => Building'
  BY DEF Building, Accurate, Seen, Readable
<1>4. (Kept => Kept') /\ (Fresh => Fresh')
  BY <1>2 DEF Kept, SameEntry, Fresh
<1>5. (Covered(refresh.named) => Covered(refresh.named)') /\ (Covered(Paths) => Covered(Paths)')
  BY DEF Covered
<1> QED
  BY <1>1, <1>3, <1>4, <1>5 DEF IInv

LEMMA InitIs ==
  ASSUME Init
  PROVE  IInv
<1> DEFINE found == [p \in {q \in Paths : Readable(q, ignore)} |-> file[p]]
<1>1. scan = [Snapshot(ignore) EXCEPT !.entries = found, !.count = Cardinality(DOMAIN found), !.bytes = Bytes(found)]
  BY DEF Init
<1>2. /\ found \in Entries /\ DOMAIN found = {q \in Paths : Readable(q, ignore)} /\ \A p \in DOMAIN found : found[p] = file[p]
  <2>1. found \in [{q \in Paths : Readable(q, ignore)} -> Texts]
    BY DEF Readable
  <2> QED
    BY <2>1, EntriesAre
<1> HIDE DEF found
<1>3. ignore \in IgnoreFiles /\ scan.count <= MaxFiles /\ scan.bytes <= MaxTotalBytes
  BY DEF Init
<1>4. /\ scan.inputs = ignore /\ scan.entries = found /\ scan.count = Cardinality(DOMAIN found) /\ scan.bytes = Bytes(found)
      /\ scan.diagnosed = {}
      /\ scan = [inputs |-> ignore, entries |-> found, count |-> Cardinality(DOMAIN found), bytes |-> Bytes(found), diagnosed |-> {}]
  BY <1>1 DEF Snapshot
<1>5. Cardinality(DOMAIN found) \in 0..(MaxFiles + Cardinality(Paths)) /\ Bytes(found) \in 0..MaxTotalBytes
  BY <1>2, <1>3, <1>4, Counters, PlacesFinite
<1>6. scan \in Snapshots
  BY <1>2, <1>3, <1>4, <1>5 DEF Snapshots
<1>7. /\ parsed = found /\ replica = found /\ published = [nodes |-> found, facts |-> found, inputs |-> ignore]
      /\ refresh = NoRefresh /\ pending = {} /\ file \in [Paths -> Texts \cup {Absent, Opaque, Directory}]
  BY <1>4 DEF Init
<1>8. refresh \in Refreshes /\ refresh.pc = "idle"
  BY <1>3, <1>7, IdleIs
<1>9. TypeOK
  BY <1>2, <1>3, <1>6, <1>7, <1>8 DEF TypeOK, Refreshes
<1>10. IndexAgrees /\ ReplicaAgrees
  BY <1>3, <1>4, <1>7 DEF IndexAgrees, ReplicaAgrees
<1>11. UpToDate
  BY <1>2, <1>4 DEF UpToDate
<1> QED
  BY <1>3, <1>8, <1>9, <1>10, <1>11 DEF IInv

LEMMA NextKeeps ==
  ASSUME IInv, [Next]_vars
  PROVE  IInv'
<1>1. CASE EditIgnore
  BY <1>1, OthersKeep DEF EditIgnore
<1>2. CASE UNCHANGED vars
  BY <1>2, OthersKeep DEF vars, IInv
<1>3. CASE \E p \in Paths : Edit(p)
  BY <1>3, EditKeeps
<1> QED
  BY <1>1, <1>2, <1>3, BeginKeeps, CollectKeeps, ReadNamedKeeps, WalkKeeps, FinishKeeps DEF Next

(***************************************************************************)
(* The theorems                                                            *)
(***************************************************************************)

\* The index and the candidate a refresh builds, through every edit and failure.
THEOREM Invariant ==
  Spec => []IInv
<1>1. Init => IInv
  BY InitIs
<1>2. IInv /\ [Next]_vars => IInv'
  BY NextKeeps
<1> QED
  BY <1>1, <1>2, PTL DEF Spec

\* Snapshots, parses and graphs are of the paths and texts of the repository, and
\* their counters in bounds (scan/mod.rs, transaction.rs).
THEOREM TypeCorrect ==
  Spec => []TypeOK
<1>1. IInv => TypeOK
  BY DEF IInv
<1> QED
  BY <1>1, Invariant, PTL

\* IndexTransaction::refresh replaces the scan, the parse and the graph together
\* or not at all, its counters are those of its entries, and what nobody edited
\* since a refresh read it is in the index as it is in the repository.
THEOREM IndexAlwaysCurrent ==
  Spec => []IndexIsCurrent
<1>1. IInv => IndexIsCurrent
  BY DEF IInv, IndexIsCurrent
<1> QED
  BY <1>1, Invariant, PTL

\* A consumer that follows the receipts alone has what is published: the deltas,
\* renames and reused paths of a receipt cover every path once.
THEOREM ReplicaAlwaysAgrees ==
  Spec => []ReplicaAgrees
<1>1. IInv => ReplicaAgrees
  BY DEF IInv
<1> QED
  BY <1>1, Invariant, PTL
=============================================================================
