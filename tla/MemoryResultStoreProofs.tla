---------------------- MODULE MemoryResultStoreProofs ----------------------
(***************************************************************************)
(* What MemoryResultStore guarantees for every set of payloads, every      *)
(* size, every limit ResultStoreLimits::new admits, and every sequence of  *)
(* ticks: its indexes agree, its limits hold, and it keeps the contract of *)
(* the ResultStore trait.                                                  *)
(***************************************************************************)
EXTENDS MemoryResultStore, FiniteSetTheorems, TLAPS

(***************************************************************************)
(* Byte counts                                                             *)
(***************************************************************************)
\* Bytes counts with the contract's copy of Cardinality, which is the same one.
LEMMA BytesIsCardinality ==
  ASSUME NEW S
  PROVE  Bytes(S) = Cardinality(Contract!Positions(S))
BY DEF Bytes, Contract!Bytes, Contract!Cardinality, Cardinality

\* The positions of one payload are finite, and there are Size[p] of them.
LEMMA PositionsOfOne ==
  ASSUME NEW p \in Payloads
  PROVE  /\ IsFiniteSet({<<p, i>> : i \in 1..Size[p]})
         /\ Cardinality({<<p, i>> : i \in 1..Size[p]}) = Size[p]
<1> DEFINE f == [i \in 1..Size[p] |-> <<p, i>>]
           T == {<<p, i>> : i \in 1..Size[p]}
<1>1. Size[p] \in Nat
  BY InputAssumption
<1>2. f \in Bijection(1..Size[p], T)
  BY DEF Bijection, Injection, Surjection, IsInjective
<1>3. IsFiniteSet(1..Size[p]) /\ Cardinality(1..Size[p]) = Size[p]
  BY <1>1, FS_Interval
<1>4. QED
  BY <1>2, <1>3, FS_Bijection DEF ExistsBijection

\* The positions of a finite set of payloads are finite.
LEMMA PositionsFinite ==
  ASSUME NEW S \in SUBSET Payloads, IsFiniteSet(S)
  PROVE  IsFiniteSet(Contract!Positions(S)) /\ Bytes(S) \in Nat
<1> DEFINE T == {{<<p, i>> : i \in 1..Size[p]} : p \in S}
<1> DEFINE f == [p \in S |-> {<<p, i>> : i \in 1..Size[p]}]
<1>1. IsFiniteSet(T)
  <2>1. f \in Surjection(S, T)
    BY DEF Surjection
  <2>2. QED
    BY <2>1, FS_Surjection
<1>2. \A U \in T : IsFiniteSet(U)
  BY PositionsOfOne
<1>3. IsFiniteSet(UNION T)
  BY <1>1, <1>2, FS_UNION
<1>4. QED
  BY <1>3, FS_CardinalityType, BytesIsCardinality DEF Contract!Positions

\* The bytes of disjoint sets add up.
LEMMA BytesAdd ==
  ASSUME NEW S \in SUBSET Payloads, NEW T \in SUBSET Payloads,
         IsFiniteSet(S), IsFiniteSet(T), S \cap T = {}
  PROVE  Bytes(S \cup T) = Bytes(S) + Bytes(T)
<1> DEFINE P(U) == Contract!Positions(U)
<1>1. IsFiniteSet(P(S)) /\ IsFiniteSet(P(T))
  BY PositionsFinite
<1>2. P(S \cup T) = P(S) \cup P(T)
  BY DEF Contract!Positions
<1>3. P(S) \cap P(T) = {}
  BY DEF Contract!Positions
<1>4. Cardinality(P(S) \cup P(T)) = Cardinality(P(S)) + Cardinality(P(T)) - Cardinality({})
  BY <1>1, <1>3, FS_Union
<1>5. /\ Bytes(S \cup T) = Cardinality(P(S) \cup P(T))
      /\ Bytes(S) = Cardinality(P(S))
      /\ Bytes(T) = Cardinality(P(T))
  BY <1>2, BytesIsCardinality, Zenon
<1>6. Bytes(S) \in Nat /\ Bytes(T) \in Nat
  BY PositionsFinite
<1>7. Cardinality({}) = 0
  BY FS_EmptySet
<1> HIDE DEF P
<1>8. QED
  BY <1>4, <1>5, <1>6, <1>7

\* The bytes of a single payload are its length.
LEMMA BytesOfOne ==
  ASSUME NEW p \in Payloads
  PROVE  Bytes({p}) = Size[p]
<1>1. Contract!Positions({p}) = {<<p, i>> : i \in 1..Size[p]}
  BY DEF Contract!Positions
<1>2. QED
  BY <1>1, PositionsOfOne, BytesIsCardinality

\* No payloads, no bytes.
LEMMA BytesOfNone == Bytes({}) = 0
<1>1. Contract!Positions({}) = {}
  BY DEF Contract!Positions
<1>2. QED
  BY <1>1, FS_EmptySet, BytesIsCardinality

\* A part of a finite set has no more bytes, and no more elements.
LEMMA PartIsSmaller ==
  ASSUME NEW S \in SUBSET Payloads, IsFiniteSet(S), NEW T \in SUBSET S
  PROVE  /\ IsFiniteSet(T)
         /\ Cardinality(T) <= Cardinality(S)
         /\ Bytes(T) <= Bytes(S)
         /\ Bytes(S \ T) = Bytes(S) - Bytes(T)
<1>1. /\ IsFiniteSet(T) /\ IsFiniteSet(S \ T)
      /\ Cardinality(T) <= Cardinality(S)
  BY FS_Subset
<1>2. Bytes(T \cup (S \ T)) = Bytes(T) + Bytes(S \ T)
  BY <1>1, BytesAdd
<1>3. T \cup (S \ T) = S
  OBVIOUS
<1>4. Bytes(S) \in Nat /\ Bytes(T) \in Nat /\ Bytes(S \ T) \in Nat
  BY <1>1, PositionsFinite
<1>5. QED
  BY <1>1, <1>2, <1>3, <1>4

\* The contract's limits, in terms of this module's operators.
LEMMA WithinIsBound ==
  ASSUME NEW S
  PROVE  Contract!Within(S) <=> Cardinality(S) <= MaxEntries /\ Bytes(S) <= MaxTotalBytes
<1>1. Contract!Cardinality(S) = Cardinality(S)
  BY DEF Contract!Cardinality, Cardinality
<1>2. QED
  BY <1>1 DEF Contract!Within, Bytes

(***************************************************************************)
(* The private operations of the store                                     *)
(***************************************************************************)
Sound(s) == StoreOK(s) /\ IsFiniteSet(Stored(s)) /\ Indexed(s)

\* Removing entries keeps both indexes and the byte count in step.
LEMMA WithoutSound ==
  ASSUME NEW s, NEW gone, Sound(s)
  PROVE  /\ Sound(Without(s, gone))
         /\ Stored(Without(s, gone)) = Stored(s) \ gone
         /\ \A id \in Stored(s) \ gone : Without(s, gone).entries[id] = s.entries[id]
         /\ Without(s, gone).nextOrder = s.nextOrder
<1> DEFINE w == Without(s, gone)
           left == Stored(s) \ gone
           lost == Stored(s) \cap gone
<1>1. /\ w.entries = [id \in left |-> s.entries[id]]
      /\ w.ageOrder = s.ageOrder \ {Key(s, id) : id \in lost}
      /\ w.totalBytes = s.totalBytes - Bytes(lost)
      /\ w.nextOrder = s.nextOrder
  BY DEF Without
<1> HIDE DEF w
<1>2. Stored(w) = left
  BY <1>1 DEF Stored
<1>3. \A id \in left : w.entries[id] = s.entries[id] /\ Key(w, id) = Key(s, id)
  BY <1>1 DEF Key
<1>4. /\ IsFiniteSet(left)
      /\ Bytes(Stored(s) \ lost) = Bytes(Stored(s)) - Bytes(lost)
      /\ Stored(s) \ lost = left
      /\ Bytes(left) \in Nat
  <2>1. Stored(s) \in SUBSET Payloads /\ IsFiniteSet(Stored(s))
    BY DEF Sound, StoreOK
  <2>2. lost \in SUBSET Stored(s) /\ left \in SUBSET Stored(s) /\ Stored(s) \ lost = left
    OBVIOUS
  <2>3. IsFiniteSet(left) /\ Bytes(Stored(s) \ lost) = Bytes(Stored(s)) - Bytes(lost)
    BY <2>1, <2>2, PartIsSmaller
  <2>4. QED
    BY <2>1, <2>2, <2>3, PositionsFinite
<1>5. w.totalBytes = Bytes(left) /\ w.totalBytes \in Nat
  BY <1>1, <1>4 DEF Sound, Indexed
<1>6. StoreOK(w)
  <2>1. Stored(w) \subseteq Payloads
    BY <1>2 DEF Sound, StoreOK
  <2>2. w.entries \in [left -> [created : Ticks, order : Nat]]
    BY <1>1 DEF Sound, StoreOK
  <2>3. w.ageOrder \subseteq Ticks \X Nat \X Payloads
    BY <1>1 DEF Sound, StoreOK
  <2>4. QED
    BY <1>1, <1>2, <1>5, <2>1, <2>2, <2>3 DEF Sound, StoreOK
<1>7. Indexed(w)
  <2>1. \A id, other \in Stored(s) : Key(s, id) = Key(s, other) => id = other
    BY DEF Key
  <2>2. s.ageOrder \ {Key(s, id) : id \in lost} = {Key(s, id) : id \in left}
    BY <2>1 DEF Sound, Indexed
  <2>3. w.ageOrder = {Key(w, id) : id \in left}
    BY <1>1, <1>3, <2>2
  <2>4. QED
    BY <1>1, <1>2, <1>3, <1>5, <2>3 DEF Sound, Indexed
<1>8. QED
  BY <1>1, <1>2, <1>3, <1>4, <1>6, <1>7 DEF Sound, w

\* evict_expired removes exactly the expired entries.
LEMMA EvictExpiredSound ==
  ASSUME NEW s, NEW now \in Nat, Sound(s)
  PROVE  /\ Sound(EvictExpired(s, now))
         /\ Stored(EvictExpired(s, now)) =
              {id \in Stored(s) : ~ Expired(s.entries[id].created, now)}
         /\ \A id \in Stored(EvictExpired(s, now)) :
              EvictExpired(s, now).entries[id] = s.entries[id]
<1> DEFINE gone == {k[3] : k \in {l \in s.ageOrder : Expired(l[1], now)}}
<1>1. \A id \in Stored(s) : id \in gone <=> Expired(s.entries[id].created, now)
  <2>1. s.ageOrder = {Key(s, id) : id \in Stored(s)}
    BY DEF Sound, Indexed
  <2>2. gone = {k[3] : k \in {l \in {Key(s, id) : id \in Stored(s)} : Expired(l[1], now)}}
    BY <2>1
  <2>3. \A id \in Stored(s) : Key(s, id)[1] = s.entries[id].created /\ Key(s, id)[3] = id
    BY DEF Key
  <2>4. QED
    BY <2>2, <2>3
<1> HIDE DEF gone
<1>2. EvictExpired(s, now) = Without(s, gone)
  BY DEF EvictExpired, gone
<1>3. QED
  BY <1>1, <1>2, WithoutSound

\* Every non-empty set of naturals has a least element.
LEMMA LeastNatural ==
  ASSUME NEW N \in SUBSET Nat, N # {}
  PROVE  \E n \in N : \A m \in N : n <= m
<1> DEFINE less == {mn \in Nat \X Nat : mn[1] < mn[2]}
<1>1. IsWellFoundedOn(less, Nat)
  BY NatLessThanWellFounded DEF OpToRel
<1> HIDE DEF less
<1>2. \E n \in N : \A m \in N : ~ (<<m, n>> \in less)
  BY <1>1, WFMin, Zenon
<1>3. \A m, n \in Nat : <<m, n>> \in less <=> m < n
  BY DEF less
<1>4. PICK n \in N : \A m \in N : ~ (<<m, n>> \in less)
  BY <1>2
<1>5. \A m \in N : ~ (m < n)
  BY <1>3, <1>4, Zenon
<1>6. QED
  BY <1>5

\* Among any stored entries one is oldest: age_order has a first key.
LEMMA OldestExists ==
  ASSUME NEW s, Sound(s), NEW K \in SUBSET Stored(s), K # {}
  PROVE  \E id \in K : \A other \in K : ~ Before(Key(s, other), Key(s, id))
<1> DEFINE created(id) == s.entries[id].created
           order(id) == s.entries[id].order
<1>1. \A id \in K : created(id) \in Nat /\ order(id) \in Nat
  BY InputAssumption DEF Sound, StoreOK
<1>2. PICK c \in {created(id) : id \in K} : \A m \in {created(id) : id \in K} : c <= m
  <2>1. {created(id) : id \in K} # {} /\ {created(id) : id \in K} \in SUBSET Nat
    BY <1>1
  <2> HIDE DEF created
  <2>2. QED
    BY <2>1, LeastNatural
<1>3. PICK o \in {order(id) : id \in {k \in K : created(k) = c}} :
        \A m \in {order(id) : id \in {k \in K : created(k) = c}} : o <= m
  <2>1. /\ {order(id) : id \in {k \in K : created(k) = c}} # {}
        /\ {order(id) : id \in {k \in K : created(k) = c}} \in SUBSET Nat
    BY <1>1, <1>2
  <2> HIDE DEF created, order
  <2>2. QED
    BY <2>1, LeastNatural
<1>4. PICK id \in K : created(id) = c /\ order(id) = o
  BY <1>3
<1>5. \A other \in K : c <= created(other) /\ (created(other) = c => o <= order(other))
  BY <1>2, <1>3
<1>6. \A other \in K : ~ Before(Key(s, other), Key(s, id))
  <2> SUFFICES ASSUME NEW other \in K
               PROVE  ~ Before(Key(s, other), Key(s, id))
    OBVIOUS
  <2>1. /\ Key(s, other)[1] = created(other) /\ Key(s, other)[2] = order(other)
        /\ Key(s, id)[1] = c /\ Key(s, id)[2] = o
    BY <1>4 DEF Key
  <2>2. /\ c \in Nat /\ o \in Nat
        /\ created(other) \in Nat /\ order(other) \in Nat
    BY <1>1, <1>4
  <2> HIDE DEF created, order
  <2>3. QED
    BY <1>5, <2>1, <2>2 DEF Before
<1>7. QED
  BY <1>6

\* The remove_oldest loop leaves room for size more bytes and one more entry.
LEMMA MakeRoomSound ==
  ASSUME NEW s, Sound(s), NEW size \in 1..MaxItemBytes
  PROVE  /\ Sound(MakeRoom(s, size))
         /\ Stored(MakeRoom(s, size)) \subseteq Stored(s)
         /\ \A id \in Stored(MakeRoom(s, size)) :
              MakeRoom(s, size).entries[id] = s.entries[id]
         /\ Cardinality(Stored(MakeRoom(s, size))) < MaxEntries
         /\ Bytes(Stored(MakeRoom(s, size))) + size <= MaxTotalBytes
<1> DEFINE K == {id \in Stored(s) : Fits(s, NotOlder(s, id), size)}
           gone == {id \in Stored(s) : ~ Fits(s, NotOlder(s, id), size)}
<1>1. MakeRoom(s, size) = Without(s, gone) /\ Stored(s) \ gone = K
  BY DEF MakeRoom
<1> HIDE DEF K, gone
<1>2. /\ Sound(MakeRoom(s, size)) /\ Stored(MakeRoom(s, size)) = K
      /\ \A id \in K : MakeRoom(s, size).entries[id] = s.entries[id]
  BY <1>1, WithoutSound
<1>3. Stored(s) \in SUBSET Payloads /\ IsFiniteSet(Stored(s))
  BY DEF Sound, StoreOK
<1>4. Cardinality(K) < MaxEntries /\ Bytes(K) + size <= MaxTotalBytes
  <2>1. CASE K = {}
    <3>1. Cardinality(K) = 0 /\ Bytes(K) = 0
      BY <2>1, FS_EmptySet, BytesOfNone
    <3>2. QED
      BY <3>1, LimitsAssumption
  <2>2. CASE K # {}
    <3>1. K \in SUBSET Stored(s)
      BY DEF K
    <3>2. PICK m \in K : \A k \in K : ~ Before(Key(s, k), Key(s, m))
      BY <2>2, <3>1, OldestExists
    <3> DEFINE Y == NotOlder(s, m)
    <3>3. K \in SUBSET Y /\ Y \in SUBSET Stored(s)
      BY <3>1, <3>2 DEF NotOlder
    <3>4. Fits(s, Y, size)
      BY DEF K
    <3> HIDE DEF Y
    <3>5. IsFiniteSet(Y) /\ Bytes(Stored(s) \ Y) = Bytes(Stored(s)) - Bytes(Y)
      BY <1>3, <3>3, PartIsSmaller
    <3>6. Cardinality(K) <= Cardinality(Y) /\ Bytes(K) <= Bytes(Y) /\ IsFiniteSet(K)
      BY <1>3, <3>3, <3>5, PartIsSmaller
    <3>7. /\ Bytes(K) \in Nat /\ Bytes(Y) \in Nat /\ Bytes(Stored(s)) \in Nat
          /\ Cardinality(K) \in Nat /\ Cardinality(Y) \in Nat
      BY <1>3, <3>1, <3>3, <3>5, <3>6, PositionsFinite, FS_CardinalityType
    <3>8. s.totalBytes - Bytes(Stored(s) \ Y) = Bytes(Y)
      BY <3>5, <3>7 DEF Sound, Indexed
    <3>9. size <= Monus(MaxTotalBytes, Bytes(Y)) /\ Cardinality(Y) < MaxEntries
      BY <3>4, <3>8 DEF Fits
    <3>10. QED
      BY <3>6, <3>7, <3>9, LimitsAssumption DEF Monus
  <2>3. QED
    BY <2>1, <2>2
<1>5. QED
  BY <1>2, <1>4 DEF K

\* Inserting a new payload under an unused order number.
LEMMA InsertSound ==
  ASSUME NEW s, Sound(s), NEW p \in Payloads, p \notin Stored(s), NEW now \in Ticks,
         s.nextOrder < MaxOrder
  PROVE  /\ Sound(Insert(s, p, now))
         /\ Stored(Insert(s, p, now)) = Stored(s) \cup {p}
         /\ \A id \in Stored(s) : Insert(s, p, now).entries[id] = s.entries[id]
         /\ Insert(s, p, now).entries[p].created = now
<1> DEFINE w == Insert(s, p, now)
           new == [created |-> now, order |-> s.nextOrder]
           all == Stored(s) \cup {p}
<1>1. /\ w.entries = [id \in all |-> IF id = p THEN new ELSE s.entries[id]]
      /\ w.ageOrder = s.ageOrder \cup {<<now, s.nextOrder, p>>}
      /\ w.totalBytes = s.totalBytes + Size[p]
      /\ w.nextOrder = s.nextOrder + 1
  BY DEF Insert
<1> HIDE DEF w
<1>2. Stored(w) = all
  BY <1>1 DEF Stored
<1>3. /\ \A id \in Stored(s) : w.entries[id] = s.entries[id] /\ Key(w, id) = Key(s, id)
      /\ w.entries[p] = new /\ Key(w, p) = <<now, s.nextOrder, p>>
  BY <1>1 DEF Key
<1>4. /\ Stored(s) \in SUBSET Payloads /\ IsFiniteSet(Stored(s))
      /\ s.nextOrder \in Nat /\ Size[p] \in Nat
  BY InputAssumption DEF Sound, StoreOK
<1>5. IsFiniteSet(all) /\ w.totalBytes = Bytes(all) /\ w.totalBytes \in Nat
  <2>1. IsFiniteSet({p}) /\ {p} \in SUBSET Payloads /\ Stored(s) \cap {p} = {}
    BY FS_Singleton
  <2>2. Bytes(all) = Bytes(Stored(s)) + Bytes({p})
    BY <1>4, <2>1, BytesAdd
  <2>3. s.totalBytes = Bytes(Stored(s)) /\ Bytes({p}) = Size[p]
    BY BytesOfOne DEF Sound, Indexed
  <2>4. IsFiniteSet(all)
    BY <1>4, FS_AddElement
  <2>5. all \in SUBSET Payloads
    BY <1>4
  <2>6. Bytes(all) \in Nat
    BY <2>4, <2>5, PositionsFinite
  <2>7. QED
    BY <1>1, <2>2, <2>3, <2>4, <2>6
<1>6. StoreOK(w)
  <2>1. w.entries \in [all -> [created : Ticks, order : Nat]]
    BY <1>1, <1>4 DEF Sound, StoreOK
  <2>2. w.ageOrder \subseteq Ticks \X Nat \X Payloads
    BY <1>1, <1>4 DEF Sound, StoreOK
  <2>3. w.nextOrder \in 0..MaxOrder
    BY <1>1, <1>4, InputAssumption DEF Sound, StoreOK
  <2>4. all \subseteq Payloads
    BY <1>4
  <2>5. QED
    BY <1>2, <1>5, <2>1, <2>2, <2>3, <2>4 DEF StoreOK
<1>7. Indexed(w)
  <2>1. w.ageOrder = {Key(w, id) : id \in all}
    <3>1. s.ageOrder = {Key(s, id) : id \in Stored(s)}
      BY DEF Sound, Indexed
    <3>2. w.ageOrder = {Key(w, id) : id \in Stored(s)} \cup {Key(w, p)}
      BY <1>1, <1>3, <3>1
    <3>3. QED
      BY <3>2
  <2>2. \A id \in Stored(s) : s.entries[id].order \in Nat /\ s.entries[id].order < s.nextOrder
    BY DEF Sound, StoreOK, Indexed
  <2>3. \A id \in all : w.entries[id].order < w.nextOrder
    BY <1>1, <1>3, <1>4, <2>2
  <2>4. \A id, other \in all : w.entries[id].order = w.entries[other].order => id = other
    <3>1. \A id \in Stored(s) : w.entries[id].order # w.entries[p].order
      BY <1>3, <1>4, <2>2
    <3>2. \A id, other \in Stored(s) :
            w.entries[id].order = w.entries[other].order => id = other
      BY <1>3 DEF Sound, Indexed
    <3>3. QED
      BY <3>1, <3>2
  <2>5. QED
    BY <1>2, <1>5, <2>1, <2>3, <2>4 DEF Indexed
<1>8. QED
  BY <1>2, <1>3, <1>5, <1>6, <1>7 DEF Sound, w

(***************************************************************************)
(* put                                                                     *)
(***************************************************************************)
Good(s) == Sound(s) /\ Contract!Within(Stored(s))

Fresh(s, now) ==
  \A id \in Stored(s) : s.entries[id].created \in Ticks /\ ~ Expired(s.entries[id].created, now)

\* A part of a store that is within the limits is within them.
LEMMA PartIsWithin ==
  ASSUME NEW s, Good(s), NEW T \in SUBSET Stored(s)
  PROVE  Contract!Within(T)
<1>1. Stored(s) \in SUBSET Payloads /\ IsFiniteSet(Stored(s))
  BY DEF Good, Sound, StoreOK
<1>2. Cardinality(T) <= Cardinality(Stored(s)) /\ Bytes(T) <= Bytes(Stored(s)) /\ IsFiniteSet(T)
  BY <1>1, PartIsSmaller
<1>3. Cardinality(Stored(s)) <= MaxEntries /\ Bytes(Stored(s)) <= MaxTotalBytes
  BY WithinIsBound DEF Good
<1>4. /\ Cardinality(T) \in Nat /\ Cardinality(Stored(s)) \in Nat
      /\ Bytes(T) \in Nat /\ Bytes(Stored(s)) \in Nat
  BY <1>1, <1>2, PositionsFinite, FS_CardinalityType
<1>5. Cardinality(T) <= MaxEntries /\ Bytes(T) <= MaxTotalBytes
  BY <1>2, <1>3, <1>4, LimitsAssumption
<1>6. QED
  BY <1>5, WithinIsBound

\* What every call that only evicts the expired leaves behind.
LEMMA EvictExpiredGood ==
  ASSUME NEW s, NEW now \in Ticks, Good(s)
  PROVE  /\ Good(EvictExpired(s, now))
         /\ Stored(EvictExpired(s, now)) \subseteq Stored(s)
         /\ Fresh(EvictExpired(s, now), now)
<1>1. now \in Nat /\ Sound(s)
  BY InputAssumption DEF Good
<1>2. /\ Sound(EvictExpired(s, now))
      /\ Stored(EvictExpired(s, now)) = {id \in Stored(s) : ~ Expired(s.entries[id].created, now)}
      /\ \A id \in Stored(EvictExpired(s, now)) : EvictExpired(s, now).entries[id] = s.entries[id]
  BY <1>1, EvictExpiredSound
<1>3. \A id \in Stored(s) : s.entries[id].created \in Ticks
  BY <1>1 DEF Sound, StoreOK
<1>4. Stored(EvictExpired(s, now)) \in SUBSET Stored(s)
  BY <1>2
<1>5. Contract!Within(Stored(EvictExpired(s, now)))
  BY <1>4, PartIsWithin
<1>6. Fresh(EvictExpired(s, now), now)
  BY <1>2, <1>3 DEF Fresh
<1>7. QED
  BY <1>2, <1>4, <1>5, <1>6 DEF Good

\* put of a payload that is not stored.
LEMMA PutNewGood ==
  ASSUME NEW s, Good(s), NEW p \in Payloads, p \notin Stored(s), Storable(p),
         NEW now \in Ticks, Fresh(s, now)
  PROVE  /\ Good(PutNew(s, p, now))
         /\ Stored(PutNew(s, p, now)) \subseteq Stored(s) \cup {p}
         /\ Fresh(PutNew(s, p, now), now)
<1> DEFINE room == MakeRoom(s, Size[p])
<1>1. Size[p] \in 1..MaxItemBytes /\ Sound(s)
  BY DEF Storable, Good
<1>2. /\ Sound(room)
      /\ Stored(room) \in SUBSET Stored(s)
      /\ \A id \in Stored(room) : room.entries[id] = s.entries[id]
      /\ Cardinality(Stored(room)) < MaxEntries
      /\ Bytes(Stored(room)) + Size[p] <= MaxTotalBytes
  BY <1>1, MakeRoomSound
<1>3. Fresh(room, now)
  BY <1>2 DEF Fresh
<1>4. Good(room)
  BY <1>2, PartIsWithin DEF Good
<1> HIDE DEF room
<1>5. CASE room.nextOrder < MaxOrder
  <2> DEFINE w == Insert(room, p, now)
  <2>1. PutNew(s, p, now) = w
    BY <1>5 DEF PutNew, room
  <2>2. /\ Sound(w)
        /\ Stored(w) = Stored(room) \cup {p}
        /\ \A id \in Stored(room) : w.entries[id] = room.entries[id]
        /\ w.entries[p].created = now
    BY <1>2, <1>5, InsertSound
  <2> HIDE DEF w
  <2>3. Contract!Within(Stored(w))
    <3>1. Stored(room) \in SUBSET Payloads /\ IsFiniteSet(Stored(room))
      BY <1>2 DEF Sound, StoreOK
    <3>2. {p} \in SUBSET Payloads /\ IsFiniteSet({p}) /\ Stored(room) \cap {p} = {}
      BY <1>2, FS_Singleton
    <3>3. Bytes(Stored(w)) = Bytes(Stored(room)) + Size[p]
      BY <2>2, <3>1, <3>2, BytesAdd, BytesOfOne
    <3>4. Cardinality(Stored(w)) = Cardinality(Stored(room)) + 1
      BY <2>2, <3>1, <3>2, FS_AddElement
    <3>5. Cardinality(Stored(room)) \in Nat /\ Bytes(Stored(room)) \in Nat /\ Size[p] \in Nat
      BY <3>1, PositionsFinite, FS_CardinalityType, InputAssumption
    <3>6. Cardinality(Stored(w)) <= MaxEntries /\ Bytes(Stored(w)) <= MaxTotalBytes
      BY <1>2, <3>3, <3>4, <3>5, LimitsAssumption
    <3>7. QED
      BY <3>6, WithinIsBound
  <2>4. ~ Expired(now, now) /\ now \in Ticks
    BY InputAssumption, LimitsAssumption DEF Expired, Monus
  <2>5. Fresh(w, now)
    BY <1>3, <2>2, <2>4 DEF Fresh
  <2>6. QED
    BY <1>2, <2>1, <2>2, <2>3, <2>5 DEF Good
<1>6. CASE ~ (room.nextOrder < MaxOrder)
  BY <1>2, <1>3, <1>4, <1>6 DEF PutNew, room
<1>7. QED
  BY <1>5, <1>6

\* put keeps the store good, adds no other payload, and, when it succeeds, has
\* stored its payload and leaves nothing expired.
LEMMA PutStoreGood ==
  ASSUME NEW s, Good(s), NEW p \in Payloads, NEW now \in Ticks
  PROVE  /\ Good(PutStore(s, p, now))
         /\ Stored(PutStore(s, p, now)) \subseteq Stored(s) \cup {p}
         /\ Storable(p) => Fresh(PutStore(s, p, now), now)
         /\ PutRet(s, p, now) = "Ok" => Storable(p) /\ p \in Stored(PutStore(s, p, now))
         /\ PutRet(s, p, now) # "Ok" => Stored(PutStore(s, p, now)) \subseteq Stored(s)
         /\ PutRet(s, p, now) # "NotFound"
<1> DEFINE fresh == EvictExpired(s, now)
           w == PutStore(s, p, now)
<1>1. Good(fresh) /\ Stored(fresh) \subseteq Stored(s) /\ Fresh(fresh, now)
  BY EvictExpiredGood
<1> HIDE DEF fresh
<1>2. Size[p] \in Nat
  BY InputAssumption
<1>3. CASE ~ Storable(p)
  <2>1. w = s
    BY <1>3 DEF PutStore
  <2>2. PutRet(s, p, now) \in {"EmptyInput", "ItemTooLarge"}
    BY <1>2, <1>3, LimitsAssumption DEF PutRet, Storable
  <2>3. QED
    BY <1>3, <2>1, <2>2
<1>4. CASE Storable(p)
  <2>1. Size[p] # 0 /\ ~ (Size[p] > MaxItemBytes)
    BY <1>4, LimitsAssumption DEF Storable
  <2>2. PutRet(s, p, now) = IF p \in Stored(w) THEN "Ok" ELSE "ArithmeticOverflow"
    BY <1>4, <2>1 DEF PutRet
  <2>3. /\ Good(w)
        /\ Stored(w) \subseteq Stored(s) \cup {p}
        /\ Fresh(w, now)
    <3>1. CASE p \in Stored(fresh)
      <4>1. w = fresh
        BY <1>4, <3>1 DEF PutStore, fresh
      <4>2. QED
        BY <1>1, <4>1
    <3>2. CASE p \notin Stored(fresh)
      <4>1. w = PutNew(fresh, p, now)
        BY <1>4, <3>2 DEF PutStore, fresh
      <4>2. QED
        BY <1>1, <1>4, <3>2, <4>1, PutNewGood
    <3>3. QED
      BY <3>1, <3>2
  <2> HIDE DEF w
  <2>4. QED
    BY <1>4, <2>2, <2>3 DEF w
<1>5. QED
  BY <1>3, <1>4

(***************************************************************************)
(* The inductive invariant                                                 *)
(*                                                                         *)
(* A batch in progress adds two facts to the goodness of the two stores:   *)
(* the trial holds nothing but what was stored and the payloads already    *)
(* put, which makes its publication a step of the contract.                *)
(***************************************************************************)
GoodBatch ==
  /\ batch.active
  /\ batch.todo \in Seq(Payloads)
  /\ batch.now \in Ticks
  /\ batch.ids \subseteq Payloads
  /\ Good(batch.trial)
  /\ Stored(batch.trial) \subseteq Stored(store) \cup batch.ids

IInv ==
  /\ Good(store)
  /\ batch = NoBatch \/ GoodBatch
  /\ result.ids \subseteq Payloads
  /\ NothingExpiredSurvives

LEMMA InitIInv == Init => IInv
<1> SUFFICES ASSUME Init PROVE IInv
  OBVIOUS
<1>1. /\ Stored(store) = {} /\ store.ageOrder = {} /\ store.totalBytes = 0
      /\ store.nextOrder = 0 /\ store.entries = [p \in {} |-> 0]
  BY DEF Init, EmptyStore, Stored
<1>2. IsFiniteSet({}) /\ Cardinality({}) = 0 /\ Bytes({}) = 0
  BY FS_EmptySet, BytesOfNone
<1>3. Sound(store)
  BY <1>1, <1>2, InputAssumption DEF Sound, StoreOK, Indexed
<1>4. Contract!Within(Stored(store))
  BY <1>1, <1>2, LimitsAssumption, WithinIsBound
<1>5. QED
  BY <1>3, <1>4 DEF Init, IInv, Good, NothingExpiredSurvives, Returned

\* A call that only touches the store, between batches.
LEMMA PutStep ==
  ASSUME IInv, NEW p \in Payloads, NEW now \in Ticks, Put(p, now)
  PROVE  IInv' /\ Contract!CNext
<1>1. /\ store' = PutStore(store, p, now)
      /\ result' = Returned("put", PutRet(store, p, now), {p}, now)
      /\ batch' = batch /\ ~ batch.active
  BY DEF Put
<1>2. /\ Good(store')
      /\ Stored(store') \subseteq Stored(store) \cup {p}
      /\ Storable(p) => Fresh(store', now)
      /\ PutRet(store, p, now) = "Ok" => Storable(p) /\ p \in Stored(store')
      /\ PutRet(store, p, now) # "Ok" => Stored(store') \subseteq Stored(store)
      /\ PutRet(store, p, now) # "NotFound"
  BY <1>1, PutStoreGood DEF IInv
<1>3. batch = NoBatch
  BY <1>1 DEF IInv, GoodBatch
<1>4. NothingExpiredSurvives'
  BY <1>1, <1>2 DEF NothingExpiredSurvives, Returned, Fresh
<1>5. IInv'
  BY <1>1, <1>2, <1>3, <1>4 DEF IInv, Returned
<1>6. Contract!CNext
  <2>1. CASE PutRet(store, p, now) = "Ok"
    <3>1. Contract!Publish
      BY <1>1, <1>2, <2>1 DEF Contract!Publish, Contract!Published, Returned, Good, Stored
    <3>2. QED
      BY <3>1 DEF Contract!CNext
  <2>2. CASE PutRet(store, p, now) # "Ok"
    <3>1. Contract!RejectPut
      BY <1>1, <1>2, <2>2 DEF Contract!RejectPut, Returned, Stored
    <3>2. QED
      BY <3>1 DEF Contract!CNext
  <2>3. QED
    BY <2>1, <2>2
<1>7. QED
  BY <1>5, <1>6

LEMMA GetStep ==
  ASSUME IInv, NEW id \in Payloads, NEW now \in Ticks, Get(id, now)
  PROVE  IInv' /\ Contract!CNext
<1>1. /\ store' = EvictExpired(store, now)
      /\ result' = Returned("get", IF id \in Stored(store') THEN "Ok" ELSE "NotFound", {id}, now)
      /\ batch' = batch /\ ~ batch.active
  BY DEF Get
<1>2. Good(store') /\ Stored(store') \subseteq Stored(store) /\ Fresh(store', now)
  BY <1>1, EvictExpiredGood DEF IInv
<1>3. batch = NoBatch
  BY <1>1 DEF IInv, GoodBatch
<1>4. NothingExpiredSurvives'
  BY <1>1, <1>2 DEF NothingExpiredSurvives, Returned, Fresh
<1>5. IInv'
  BY <1>1, <1>2, <1>3, <1>4 DEF IInv, Returned
<1>6. Contract!Answer
  BY <1>1, <1>2 DEF Contract!Answer, Returned, Stored
<1>7. QED
  BY <1>5, <1>6 DEF Contract!CNext

LEMMA RemoveStep ==
  ASSUME IInv, NEW id \in Payloads, Remove(id)
  PROVE  IInv' /\ Contract!CNext
<1>1. /\ store' = Without(store, {id})
      /\ result' = Returned("remove", IF id \in Stored(store) THEN "Ok" ELSE "NotFound", {id}, 0)
      /\ batch' = batch /\ ~ batch.active
  BY DEF Remove
<1>2. Sound(store') /\ Stored(store') \in SUBSET Stored(store)
  BY <1>1, WithoutSound DEF IInv, Good
<1>3. Good(store')
  BY <1>2, PartIsWithin DEF IInv, Good
<1>4. batch = NoBatch
  BY <1>1 DEF IInv, GoodBatch
<1>5. NothingExpiredSurvives'
  BY <1>1 DEF NothingExpiredSurvives, Returned
<1>6. IInv'
  BY <1>1, <1>3, <1>4, <1>5 DEF IInv, Returned
<1>7. Contract!Forget
  BY <1>1, <1>2 DEF Contract!Forget, Returned, Stored
<1>8. QED
  BY <1>6, <1>7 DEF Contract!CNext

LEMMA ClearStep ==
  ASSUME IInv, Clear
  PROVE  IInv' /\ Contract!CNext
<1>1. /\ store' = [EmptyStore EXCEPT !.nextOrder = store.nextOrder]
      /\ result' = Returned("clear", "Ok", {}, 0)
      /\ batch' = batch /\ ~ batch.active
  BY DEF Clear
<1>2. /\ Stored(store') = {} /\ store'.ageOrder = {} /\ store'.totalBytes = 0
      /\ store'.nextOrder = store.nextOrder /\ store'.entries = [p \in {} |-> 0]
  BY <1>1 DEF EmptyStore, Stored
<1>3. IsFiniteSet({}) /\ Cardinality({}) = 0 /\ Bytes({}) = 0
  BY FS_EmptySet, BytesOfNone
<1>4. Sound(store')
  BY <1>2, <1>3 DEF Sound, StoreOK, Indexed, IInv, Good
<1>5. Contract!Within(Stored(store'))
  BY <1>2, <1>3, LimitsAssumption, WithinIsBound
<1>6. batch = NoBatch
  BY <1>1 DEF IInv, GoodBatch
<1>7. NothingExpiredSurvives'
  BY <1>1 DEF NothingExpiredSurvives, Returned
<1>8. IInv'
  BY <1>1, <1>4, <1>5, <1>6, <1>7 DEF IInv, Returned, Good
<1>9. Contract!Forget
  BY <1>1, <1>2 DEF Contract!Forget, Returned, Stored
<1>10. QED
  BY <1>8, <1>9 DEF Contract!CNext

LEMMA BeginBatchStep ==
  ASSUME IInv, NEW ps \in Batches, NEW now \in Ticks, BeginBatch(ps, now)
  PROVE  IInv' /\ UNCHANGED <<store, result>>
<1>1. /\ batch' = InBatch(ps, now, {}, store)
      /\ store' = store /\ result' = result
  BY DEF BeginBatch
<1>2. ps \in Seq(Payloads)
  BY InputAssumption
<1>3. GoodBatch'
  BY <1>1, <1>2 DEF GoodBatch, InBatch, IInv
<1>4. QED
  BY <1>1, <1>3 DEF IInv, NothingExpiredSurvives

\* A batch that is given up changes nothing.
LEMMA AbandonStep ==
  ASSUME IInv, batch.active, NEW ret, ret \notin {"Ok", "NotFound"}, Abandon(ret)
  PROVE  IInv' /\ Contract!CNext
<1>1. /\ result' = Returned("put_batch", ret, batch.ids, batch.now)
      /\ batch' = NoBatch /\ store' = store
  BY DEF Abandon
<1>2. GoodBatch
  BY DEF IInv, NoBatch
<1>3. IInv'
  BY <1>1, <1>2 DEF IInv, GoodBatch, NothingExpiredSurvives, Returned
<1>4. Contract!RejectBatch
  BY <1>1 DEF Contract!RejectBatch, Returned
<1>5. QED
  BY <1>3, <1>4 DEF Contract!CNext

LEMMA BatchPutStep ==
  ASSUME IInv, BatchPut
  PROVE  IInv' /\ (Contract!CNext \/ UNCHANGED <<store, result>>)
<1> DEFINE p == Head(batch.todo)
           ret == PutRet(batch.trial, p, batch.now)
           trial == PutStore(batch.trial, p, batch.now)
<1>1. GoodBatch /\ batch.active
  BY DEF BatchPut, IInv, NoBatch
<1>2. p \in Payloads /\ Tail(batch.todo) \in Seq(Payloads)
  BY <1>1 DEF GoodBatch, BatchPut
<1>3. /\ Good(trial)
      /\ Stored(trial) \subseteq Stored(batch.trial) \cup {p}
      /\ ret # "NotFound"
  BY <1>1, <1>2, PutStoreGood DEF GoodBatch
<1>4. CASE ret = "Ok"
  <2>1. /\ batch' = InBatch(Tail(batch.todo), batch.now, batch.ids \cup {p}, trial)
        /\ store' = store /\ result' = result
    BY <1>4 DEF BatchPut
  <2> HIDE DEF p, ret, trial
  <2>2. GoodBatch'
    BY <1>1, <1>2, <1>3, <2>1 DEF GoodBatch, InBatch
  <2>3. QED
    BY <2>1, <2>2 DEF IInv, NothingExpiredSurvives
<1>5. CASE ret # "Ok"
  <2>1. Abandon(ret)
    BY <1>5 DEF BatchPut
  <2> HIDE DEF p, ret, trial
  <2>2. QED
    BY <1>1, <1>3, <1>5, <2>1, AbandonStep
<1>6. QED
  BY <1>4, <1>5

LEMMA EndBatchStep ==
  ASSUME IInv, EndBatch
  PROVE  IInv' /\ Contract!CNext
<1>1. GoodBatch /\ batch.active
  BY DEF EndBatch, IInv, NoBatch
<1>2. CASE Abandon("EmptyInput") \/ Abandon("BatchCapacityExceeded")
  BY <1>1, <1>2, AbandonStep
<1>3. CASE /\ batch.ids # {}
           /\ batch.ids \subseteq Stored(batch.trial)
           /\ store' = batch.trial
           /\ result' = Returned("put_batch", "Ok", batch.ids, batch.now)
           /\ batch' = NoBatch
  <2>1. IInv'
    BY <1>1, <1>3 DEF IInv, GoodBatch, NothingExpiredSurvives, Returned
  <2>2. Contract!Publish
    BY <1>1, <1>3 DEF Contract!Publish, Contract!Published, GoodBatch, Good, Returned, Stored
  <2>3. QED
    BY <2>1, <2>2 DEF Contract!CNext
<1>4. QED
  BY <1>2, <1>3 DEF EndBatch

\* Every step keeps the invariant, and is a step of the contract or invisible.
LEMMA NextStep ==
  ASSUME IInv, [Next]_vars
  PROVE  IInv' /\ [Contract!CNext]_<<DOMAIN store.entries, result>>
<1>1. ASSUME NEW p \in Payloads, NEW now \in Ticks, Put(p, now)
      PROVE  IInv' /\ Contract!CNext
  BY <1>1, PutStep
<1>2. ASSUME NEW ps \in Batches, NEW now \in Ticks, BeginBatch(ps, now)
      PROVE  IInv' /\ UNCHANGED <<store, result>>
  BY <1>2, BeginBatchStep
<1>3. CASE BatchPut
  BY <1>3, BatchPutStep
<1>4. CASE EndBatch
  BY <1>4, EndBatchStep
<1>5. ASSUME NEW id \in Payloads, NEW now \in Ticks, Get(id, now)
      PROVE  IInv' /\ Contract!CNext
  BY <1>5, GetStep
<1>6. ASSUME NEW id \in Payloads, Remove(id)
      PROVE  IInv' /\ Contract!CNext
  BY <1>6, RemoveStep
<1>7. CASE Clear
  BY <1>7, ClearStep
<1>8. CASE UNCHANGED vars
  BY <1>8 DEF vars, IInv, GoodBatch, NothingExpiredSurvives
<1>9. QED
  BY <1>1, <1>2, <1>3, <1>4, <1>5, <1>6, <1>7, <1>8 DEF Next

(***************************************************************************)
(* A fresh batch: none of its payloads was stored before, and its tick is  *)
(* behind no entry's.  Its payloads are younger than everything else in    *)
(* the trial, so making room for one takes no other of them while they are *)
(* within the limits together.                                             *)
(***************************************************************************)
FreshIds(base, ids, now) ==
  /\ ids \cap Stored(base) = {}
  /\ \A id \in Stored(base) : ~ (base.entries[id].created > now)

Ahead(s, base, ids, now) ==
  /\ s.nextOrder >= base.nextOrder
  /\ \A id \in Stored(s) \cap ids : s.entries[id].created = now /\ s.entries[id].order >= base.nextOrder
  /\ \A id \in Stored(s) \ ids : id \in Stored(base) /\ s.entries[id] = base.entries[id]
  /\ Contract!Within(ids) => ids \subseteq Stored(s)

\* What is within the limits stays so without some of it.
LEMMA PartOfWithin ==
  ASSUME NEW S \in SUBSET Payloads, IsFiniteSet(S), Contract!Within(S), NEW T \in SUBSET S
  PROVE  Contract!Within(T)
<1>1. IsFiniteSet(T) /\ Cardinality(T) <= Cardinality(S) /\ Bytes(T) <= Bytes(S)
  BY PartIsSmaller
<1>2. Cardinality(S) <= MaxEntries /\ Bytes(S) <= MaxTotalBytes
  BY WithinIsBound
<1>3. Cardinality(T) \in Nat /\ Cardinality(S) \in Nat /\ Bytes(T) \in Nat /\ Bytes(S) \in Nat
  BY <1>1, PositionsFinite, FS_CardinalityType
<1>4. Cardinality(T) <= MaxEntries /\ Bytes(T) <= MaxTotalBytes
  BY <1>1, <1>2, <1>3, LimitsAssumption
<1>5. QED
  BY <1>4, WithinIsBound

\* Making room for p keeps an entry when p fits beside it and what is not older.
LEMMA MakeRoomKeeps ==
  ASSUME NEW s, Sound(s), NEW p \in Payloads, NEW id \in Stored(s), NEW S \in SUBSET Payloads,
         NotOlder(s, id) \subseteq S, p \notin S, IsFiniteSet(S), Contract!Within(S \cup {p})
  PROVE  id \in Stored(MakeRoom(s, Size[p]))
<1> DEFINE Y == NotOlder(s, id)
<1>1. Stored(MakeRoom(s, Size[p])) = {x \in Stored(s) : Fits(s, NotOlder(s, x), Size[p])}
  <2> DEFINE gone == {x \in Stored(s) : ~ Fits(s, NotOlder(s, x), Size[p])}
  <2>1. MakeRoom(s, Size[p]) = Without(s, gone)
    BY DEF MakeRoom
  <2>2. Stored(Without(s, gone)) = Stored(s) \ gone
    BY WithoutSound
  <2>3. QED
    BY <2>1, <2>2
<1>2. Stored(s) \in SUBSET Payloads /\ IsFiniteSet(Stored(s)) /\ Y \in SUBSET Stored(s) /\ Y \in SUBSET S
  BY DEF Sound, StoreOK, NotOlder
<1> HIDE DEF Y
<1>3. IsFiniteSet(Y) /\ Bytes(Stored(s) \ Y) = Bytes(Stored(s)) - Bytes(Y)
  BY <1>2, PartIsSmaller
<1>4. Cardinality(Y) <= Cardinality(S) /\ Bytes(Y) <= Bytes(S)
  BY <1>2, PartIsSmaller
<1>5. Bytes(S \cup {p}) = Bytes(S) + Size[p] /\ Cardinality(S \cup {p}) = Cardinality(S) + 1
  <2>1. {p} \in SUBSET Payloads /\ IsFiniteSet({p}) /\ S \cap {p} = {}
    BY FS_Singleton
  <2>2. Bytes(S \cup {p}) = Bytes(S) + Bytes({p})
    BY <2>1, BytesAdd
  <2>3. Bytes({p}) = Size[p]
    BY BytesOfOne
  <2>4. Cardinality(S \cup {p}) = Cardinality(S) + 1
    BY FS_AddElement
  <2>5. QED
    BY <2>2, <2>3, <2>4
<1>6. Cardinality(S \cup {p}) <= MaxEntries /\ Bytes(S \cup {p}) <= MaxTotalBytes
  BY WithinIsBound
<1>7. /\ Cardinality(S) \in Nat /\ Cardinality(Y) \in Nat /\ Size[p] \in Nat
      /\ Bytes(S) \in Nat /\ Bytes(Y) \in Nat /\ Bytes(Stored(s)) \in Nat
  BY <1>2, <1>3, PositionsFinite, FS_CardinalityType, InputAssumption
<1>8. s.totalBytes - Bytes(Stored(s) \ Y) = Bytes(Y)
  BY <1>3, <1>7 DEF Sound, Indexed
<1>9. Cardinality(Y) < MaxEntries /\ Size[p] <= Monus(MaxTotalBytes, Bytes(Y))
  BY <1>4, <1>5, <1>6, <1>7, LimitsAssumption DEF Monus
<1>10. Fits(s, Y, Size[p])
  BY <1>8, <1>9 DEF Fits
<1>11. QED
  BY <1>1, <1>10 DEF Y

\* Expiry takes nothing of the batch, whose entries are of the current tick.
LEMMA ExpiryAhead ==
  ASSUME NEW s, Good(s), NEW base, NEW ids \in SUBSET Payloads, NEW now \in Ticks, Ahead(s, base, ids, now)
  PROVE  /\ Ahead(EvictExpired(s, now), base, ids, now)
         /\ Stored(s) \cap ids \subseteq Stored(EvictExpired(s, now))
<1> DEFINE f == EvictExpired(s, now)
<1>1. now \in Nat /\ Sound(s) /\ ~ Expired(now, now)
  BY InputAssumption, LimitsAssumption DEF Good, Expired, Monus
<1>2. /\ Stored(f) = {id \in Stored(s) : ~ Expired(s.entries[id].created, now)}
      /\ \A id \in Stored(f) : f.entries[id] = s.entries[id]
  BY <1>1, EvictExpiredSound
<1>3. f.nextOrder = s.nextOrder
  BY DEF EvictExpired, Without
<1> HIDE DEF f
<1>4. Stored(s) \cap ids \subseteq Stored(f)
  BY <1>1, <1>2 DEF Ahead
<1>5. Ahead(f, base, ids, now)
  BY <1>2, <1>3, <1>4 DEF Ahead
<1>6. QED
  BY <1>4, <1>5 DEF f

\* One payload more of a fresh batch
LEMMA PutAhead ==
  ASSUME NEW base, Good(base), NEW s, Good(s), NEW now \in Ticks, NEW ids \in SUBSET Payloads, IsFiniteSet(ids),
         NEW p \in Payloads, Ahead(s, base, ids, now), FreshIds(base, ids \cup {p}, now), PutRet(s, p, now) = "Ok"
  PROVE  Ahead(PutStore(s, p, now), base, ids \cup {p}, now)
<1> DEFINE f == EvictExpired(s, now)
           w == PutStore(s, p, now)
           room == MakeRoom(f, Size[p])
<1>1. Storable(p) /\ p \in Stored(w) /\ Size[p] \in 1..MaxItemBytes
  BY PutStoreGood DEF Storable
<1>2. Good(f) /\ Sound(f) /\ Ahead(f, base, ids, now)
  BY EvictExpiredGood, ExpiryAhead DEF Good
<1>3. p \notin Stored(base) /\ ids \cap Stored(base) = {}
  BY DEF FreshIds
<1>4. Contract!Within(ids \cup {p}) => Contract!Within(ids)
  <2>1. IsFiniteSet(ids \cup {p}) /\ ids \cup {p} \in SUBSET Payloads
    BY FS_AddElement
  <2>2. QED
    BY <2>1, PartOfWithin
<1> HIDE DEF f
<1>5. CASE p \in Stored(f)
  <2>1. w = f
    BY <1>1, <1>5 DEF PutStore, f
  <2>2. p \in ids
    BY <1>2, <1>3, <1>5 DEF Ahead
  <2>3. ids \cup {p} = ids
    BY <2>2
  <2>4. QED
    BY <1>2, <2>1, <2>3
<1>6. CASE p \notin Stored(f)
  <2>1. w = PutNew(f, p, now)
    BY <1>1, <1>6 DEF PutStore, f
  <2>2. /\ Sound(room) /\ Stored(room) \subseteq Stored(f)
        /\ \A id \in Stored(room) : room.entries[id] = f.entries[id]
    BY <1>1, <1>2, MakeRoomSound
  <2>3. room.nextOrder = f.nextOrder
    BY DEF MakeRoom, Without
  <2> HIDE DEF room
  <2>4. room.nextOrder < MaxOrder /\ w = Insert(room, p, now)
    <3>1. p \notin Stored(room)
      BY <1>6, <2>2
    <3>2. QED
      BY <1>1, <2>1, <3>1 DEF PutNew, room
  <2>5. /\ Stored(w) = Stored(room) \cup {p} /\ w.nextOrder = room.nextOrder + 1
        /\ w.entries[p] = [created |-> now, order |-> room.nextOrder]
        /\ \A id \in Stored(room) : w.entries[id] = room.entries[id]
    <3>1. p \notin Stored(room)
      BY <1>6, <2>2
    <3>2. w.entries = [x \in Stored(room) \cup {p} |-> IF x = p THEN [created |-> now, order |-> room.nextOrder]
                                                      ELSE room.entries[x]]
          /\ w.nextOrder = room.nextOrder + 1
      BY <2>4 DEF Insert
    <3> HIDE DEF w
    <3>3. Stored(w) = Stored(room) \cup {p}
      BY <3>2 DEF Stored
    <3>4. QED
      BY <3>1, <3>2, <3>3
  <2>6. f.nextOrder \in Nat /\ base.nextOrder \in Nat
    BY <1>2 DEF Good, Sound, StoreOK
  <2> HIDE DEF w
  <2>7. w.nextOrder >= base.nextOrder /\ w.entries[p].created = now /\ w.entries[p].order >= base.nextOrder
    BY <1>2, <2>3, <2>5, <2>6 DEF Ahead
  <2>8. \A id \in Stored(w) \cap (ids \cup {p}) : w.entries[id].created = now /\ w.entries[id].order >= base.nextOrder
    BY <1>2, <2>2, <2>5, <2>7 DEF Ahead
  <2>9. \A id \in Stored(w) \ (ids \cup {p}) : id \in Stored(base) /\ w.entries[id] = base.entries[id]
    BY <1>2, <2>2, <2>5 DEF Ahead
  <2>10. ASSUME Contract!Within(ids \cup {p}) PROVE ids \cup {p} \subseteq Stored(w)
    <3>1. ids \subseteq Stored(f) /\ p \notin ids
      BY <1>2, <1>4, <1>6, <2>10 DEF Ahead
    <3>2. ASSUME NEW id \in ids PROVE NotOlder(f, id) \subseteq ids
      <4>1. ASSUME NEW other \in Stored(f), other \notin ids PROVE Before(Key(f, other), Key(f, id))
        <5>1. f.entries[id].created = now /\ f.entries[id].order >= base.nextOrder /\ f.entries[id].order \in Nat
          BY <1>2, <3>1, <3>2 DEF Ahead, Sound, StoreOK
        <5>2. other \in Stored(base) /\ f.entries[other] = base.entries[other]
          BY <1>2, <4>1 DEF Ahead
        <5>3. base.entries[other].order < base.nextOrder /\ base.entries[other].order \in Nat
              /\ base.entries[other].created \in Nat /\ ~ (base.entries[other].created > now)
          BY <5>2, InputAssumption DEF Good, Sound, StoreOK, Indexed, FreshIds
        <5>4. now \in Nat
          BY InputAssumption
        <5>5. /\ Key(f, other)[1] = base.entries[other].created /\ Key(f, other)[2] = base.entries[other].order
              /\ Key(f, id)[1] = now /\ Key(f, id)[2] = f.entries[id].order
          BY <5>1, <5>2 DEF Key
        <5>6. QED
          BY <2>6, <5>1, <5>3, <5>4, <5>5 DEF Before
      <4>2. QED
        BY <4>1 DEF NotOlder
    <3>3. \A id \in ids : id \in Stored(room)
      BY <1>2, <2>10, <3>1, <3>2, MakeRoomKeeps DEF room
    <3>4. QED
      BY <2>5, <3>3
  <2>11. QED
    BY <2>7, <2>8, <2>9, <2>10 DEF Ahead, w
<1>7. QED
  BY <1>5, <1>6

\* What a batch in progress has achieved, if it is fresh.
BatchAhead ==
  batch.active =>
    /\ IsFiniteSet(batch.ids)
    /\ FreshIds(store, batch.ids, batch.now) => Ahead(batch.trial, store, batch.ids, batch.now)

FInv == IInv /\ BatchAhead

LEMMA BeginAhead ==
  ASSUME FInv, NEW ps \in Batches, NEW now \in Ticks, BeginBatch(ps, now)
  PROVE  BatchAhead'
<1>1. batch' = InBatch(ps, now, {}, store) /\ store' = store
  BY DEF BeginBatch
<1>2. batch'.ids = {} /\ batch'.now = now /\ batch'.trial = store'
  BY <1>1 DEF InBatch
<1>3. store'.nextOrder \in Nat
  BY <1>1 DEF FInv, IInv, Good, Sound, StoreOK
<1>4. Ahead(store, store, {}, now)'
  BY <1>3 DEF Ahead
<1>5. Ahead(batch.trial, store, batch.ids, batch.now)'
  BY <1>2, <1>4
<1>6. QED
  BY <1>2, <1>5, FS_EmptySet DEF BatchAhead

LEMMA BatchPutAhead ==
  ASSUME FInv, BatchPut, batch'.active
  PROVE  BatchAhead'
<1> DEFINE p == Head(batch.todo)
           trial == PutStore(batch.trial, p, batch.now)
<1>1. GoodBatch /\ batch.active /\ BatchAhead /\ Good(store)
  BY DEF BatchPut, FInv, IInv, NoBatch
<1>2. p \in Payloads
  BY <1>1 DEF GoodBatch, BatchPut
<1>3. PutRet(batch.trial, p, batch.now) = "Ok"
      /\ batch' = InBatch(Tail(batch.todo), batch.now, batch.ids \cup {p}, trial) /\ store' = store
  BY DEF BatchPut, Abandon, NoBatch
<1> HIDE DEF p, trial
<1>4. batch'.ids = batch.ids \cup {p} /\ batch'.now = batch.now /\ batch'.trial = trial /\ store' = store
  BY <1>3 DEF InBatch
<1>5. IsFiniteSet(batch'.ids)
  BY <1>1, <1>4, FS_AddElement DEF BatchAhead
<1>6. ASSUME FreshIds(store, batch.ids \cup {p}, batch.now)
      PROVE  Ahead(trial, store, batch.ids \cup {p}, batch.now)
  <2>1. FreshIds(store, batch.ids, batch.now)
    BY <1>6 DEF FreshIds
  <2>2. Ahead(batch.trial, store, batch.ids, batch.now) /\ IsFiniteSet(batch.ids)
    BY <1>1, <2>1 DEF BatchAhead
  <2>3. Good(batch.trial) /\ batch.now \in Ticks /\ batch.ids \in SUBSET Payloads
    BY <1>1 DEF GoodBatch
  <2>4. QED
    BY <1>1, <1>2, <1>3, <1>6, <2>2, <2>3, PutAhead DEF trial
<1>7. FreshIds(store, batch.ids, batch.now)' => Ahead(batch.trial, store, batch.ids, batch.now)'
  BY <1>4, <1>6 DEF FreshIds, Ahead, Stored
<1>8. QED
  BY <1>5, <1>7 DEF BatchAhead

LEMMA NextAhead ==
  ASSUME FInv, [Next]_vars
  PROVE  FInv'
<1>1. IInv'
  BY NextStep DEF FInv
<1>2. CASE ~ batch'.active
  BY <1>1, <1>2 DEF FInv, BatchAhead
<1>3. CASE batch'.active
  <2> SUFFICES BatchAhead'
    BY <1>1 DEF FInv
  <2>1. ASSUME batch' = batch, ~ batch.active PROVE FALSE
    BY <1>3, <2>1
  <2>2. CASE UNCHANGED vars
    BY <2>2 DEF FInv, BatchAhead, FreshIds, Ahead, Stored, vars
  <2>3. CASE \E ps \in Batches, now \in Ticks : BeginBatch(ps, now)
    BY <2>3, BeginAhead
  <2>4. CASE BatchPut
    BY <1>3, <2>4, BatchPutAhead
  <2>5. CASE EndBatch
    BY <1>3, <2>5 DEF EndBatch, Abandon, NoBatch
  <2>6. QED
    BY <2>1, <2>2, <2>3, <2>4, <2>5 DEF Next, Put, Get, Remove, Clear
<1>4. QED
  BY <1>2, <1>3

\* put itself never answers BatchCapacityExceeded.
LEMMA PutRetIs ==
  ASSUME NEW s, NEW p \in Payloads, NEW now
  PROVE  PutRet(s, p, now) # "BatchCapacityExceeded"
<1>1. Size[p] \in Nat /\ MaxItemBytes \in Nat
  BY InputAssumption, LimitsAssumption
<1>2. Size[p] = 0 \/ Size[p] > MaxItemBytes \/ (Storable(p) /\ Size[p] # 0 /\ ~ (Size[p] > MaxItemBytes))
  BY <1>1 DEF Storable
<1>3. QED
  BY <1>1, <1>2, LimitsAssumption DEF PutRet, Storable

LEMMA Refused ==
  ASSUME FInv, [Next]_vars, batch.active, ~ batch'.active, result'.ret = "BatchCapacityExceeded"
  PROVE  \/ ~ Contract!Within(batch.ids)
         \/ \E id \in batch.ids : id \in Stored(store)
         \/ \E id \in Stored(store) : store.entries[id].created > batch.now
<1>1. BatchPut \/ EndBatch
  BY DEF Next, Put, Get, Remove, Clear, BeginBatch, vars
<1>2. ~ BatchPut
  <2>1. SUFFICES ASSUME BatchPut PROVE FALSE
    OBVIOUS
  <2>2. Head(batch.todo) \in Payloads
    BY <2>1 DEF FInv, IInv, NoBatch, GoodBatch, BatchPut
  <2>3. Abandon(PutRet(batch.trial, Head(batch.todo), batch.now))
    BY <2>1 DEF BatchPut, InBatch
  <2>4. result'.ret = PutRet(batch.trial, Head(batch.todo), batch.now)
    BY <2>3 DEF Abandon, Returned
  <2>5. QED
    BY <2>2, <2>4, PutRetIs
<1>3. ~ batch.ids \subseteq Stored(batch.trial)
  BY <1>1, <1>2 DEF EndBatch, Abandon, Returned
<1>4. ~ (Contract!Within(batch.ids) /\ FreshIds(store, batch.ids, batch.now))
  BY <1>3 DEF FInv, BatchAhead, Ahead
<1>5. QED
  BY <1>4 DEF FreshIds

(***************************************************************************)
(* Theorems                                                                *)
(***************************************************************************)
LEMMA Invariance == Spec => []IInv
<1>1. IInv /\ [Next]_vars => IInv'
  BY NextStep
<1>2. QED
  BY InitIInv, <1>1, PTL DEF Spec

\* The state of the store and of a batch in progress has its type: ticks,
\* order numbers and identifiers stay in range, and next_order never passes
\* its largest value.
THEOREM TypeCorrect == Spec => []TypeOK
<1>1. IInv => TypeOK
  BY DEF IInv, GoodBatch, Good, Sound, TypeOK
<1>2. QED
  BY Invariance, <1>1, PTL

\* entries, age_order and total_bytes describe the same entries at all times.
THEOREM IndexesAlwaysAgree == Spec => []IndexesAgree
<1>1. IInv => IndexesAgree
  BY DEF IInv, GoodBatch, Good, Sound, IndexesAgree, NoBatch
<1>2. QED
  BY Invariance, <1>1, PTL

\* No call, whatever it stores and in whatever order its eviction works, leaves
\* the store above max_entries or max_total_bytes.
THEOREM LimitsAlwaysHold == Spec => []WithinLimits
<1>1. IInv => WithinLimits
  BY DEF IInv, GoodBatch, Good, WithinLimits, NoBatch
<1>2. QED
  BY Invariance, <1>1, PTL

\* After a put or a get that succeeds nothing expired is stored, even when the
\* ticks callers pass go backwards.
THEOREM ExpiryIsComplete == Spec => []NothingExpiredSurvives
<1>1. IInv => NothingExpiredSurvives
  BY DEF IInv
<1>2. QED
  BY Invariance, <1>1, PTL

\* The limits on size, number and age hold together.
THEOREM LimitsAlwaysKept == Spec => []LimitsKept
  BY LimitsAlwaysHold, ExpiryIsComplete, PTL DEF LimitsKept

\* MemoryResultStore implements the contract of the ResultStore trait: a batch
\* appears at once and whole, or not at all.
THEOREM Implements == Spec => ImplementsContract
<1>1. Init => Contract!CInit
  BY DEF Init, EmptyStore, Contract!CInit
<1>2. IInv /\ [Next]_vars => [Contract!CNext]_(Contract!cvars)
  BY NextStep DEF Contract!cvars
<1>3. QED
  BY Invariance, <1>1, <1>2, PTL DEF Spec, ImplementsContract, Contract!CSpec

\* put_batch refuses a batch with BatchCapacityExceeded only when it has to: a
\* batch of new payloads that are within the limits together, called with a tick
\* behind no entry's, is never evicted by itself, in whatever order its payloads
\* come and however full the store is.
THEOREM FreshBatchIsAccepted == Spec => FreshBatchAccepted
<1>1. Init => FInv
  BY InitIInv DEF FInv, BatchAhead, Init, NoBatch
<1>2. FInv /\ [Next]_vars => FInv'
  BY NextAhead
<1>3. FInv /\ [Next]_vars =>
        [ (batch.active /\ ~ batch'.active /\ result'.ret = "BatchCapacityExceeded") =>
            \/ ~ Contract!Within(batch.ids)
            \/ \E id \in batch.ids : id \in Stored(store)
            \/ \E id \in Stored(store) : store.entries[id].created > batch.now ]_vars
  BY Refused
<1>4. QED
  BY <1>1, <1>2, <1>3, PTL DEF Spec, FreshBatchAccepted
=============================================================================
