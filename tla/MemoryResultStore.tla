------------------------- MODULE MemoryResultStore -------------------------
(***************************************************************************)
(* MemoryResultStore of crates/bran-core/src/agent/result_store.rs: a      *)
(* process-local content-addressed store bounded in entries, bytes and     *)
(* age, which evicts oldest first.  Entries are indexed twice, by          *)
(* identifier (entries) and by age (ageOrder), and their bytes are counted *)
(* in totalBytes.                                                          *)
(*                                                                         *)
(* The store is used through &mut self, so calls never interleave; a call  *)
(* of put_batch is still modelled one payload at a time, on the clone it   *)
(* works on, because what it publishes at the end depends on the order in  *)
(* which its payloads evict older entries.                                 *)
(***************************************************************************)
EXTENDS Integers, FiniteSets, Sequences

CONSTANTS
  Payloads,        \* the byte strings callers store; a payload is its own SHA-256 identifier
  Size,            \* Size[p]: its length; 0 for the empty payload
  MaxEntries, MaxTotalBytes, MaxItemBytes, MaxAgeTicks,   \* ResultStoreLimits
  Ticks,           \* the values of now_tick; callers pass them in any order
  MaxOrder,        \* the largest value of next_order (u64::MAX in the code)
  Batches          \* the payload sequences passed to put_batch

\* ResultStoreLimits::new refuses anything else.
ASSUME LimitsAssumption ==
  /\ MaxEntries \in Nat \ {0}
  /\ MaxTotalBytes \in Nat \ {0}
  /\ MaxItemBytes \in 1..MaxTotalBytes
  /\ MaxAgeTicks \in Nat \ {0}

ASSUME InputAssumption ==
  /\ Size \in [Payloads -> Nat]
  /\ Ticks \subseteq Nat
  /\ MaxOrder \in Nat
  /\ Batches \subseteq Seq(Payloads)

VARIABLES
  store,     \* the MemoryResultStore
  batch,     \* the put_batch call in progress, or NoBatch
  result     \* the last completed call: [op, ret, ids, now]

vars == <<store, batch, result>>

Contract == INSTANCE ResultStoreContract WITH visible <- DOMAIN store.entries

Bytes(S) == Contract!Bytes(S)

Monus(a, b) == IF a > b THEN a - b ELSE 0     \* saturating_sub

(***************************************************************************)
(* The store's private operations, as functions of the store.              *)
(***************************************************************************)
Stored(s) == DOMAIN s.entries

EmptyStore == [entries |-> [p \in {} |-> 0], ageOrder |-> {}, totalBytes |-> 0, nextOrder |-> 0]

Key(s, id) == <<s.entries[id].created, s.entries[id].order, id>>

\* BTreeMap order of (created_tick, order, id); order numbers are never reused.
Before(k, l) == k[1] < l[1] \/ (k[1] = l[1] /\ k[2] < l[2])

\* Mutant of Without: the key in age_order is left behind.
WithoutKeepingKey(s, gone) ==
  [entries |-> [id \in Stored(s) \ gone |-> s.entries[id]],
   ageOrder |-> s.ageOrder,
   totalBytes |-> s.totalBytes - Bytes(Stored(s) \cap gone),
   nextOrder |-> s.nextOrder]

\* remove_id for every identifier in gone
Without(s, gone) ==
  [entries |-> [id \in Stored(s) \ gone |-> s.entries[id]],
   ageOrder |-> s.ageOrder \ {Key(s, id) : id \in Stored(s) \cap gone},
   totalBytes |-> s.totalBytes - Bytes(Stored(s) \cap gone),
   nextOrder |-> s.nextOrder]

Expired(created, now) == Monus(now, created) >= MaxAgeTicks

\* Mutant of EvictExpired: an entry may live for max_age_ticks, and no longer.
EvictExpiredLate(s, now) ==
  Without(s, {k[3] : k \in {l \in s.ageOrder : Monus(now, l[1]) > MaxAgeTicks}})

\* evict_expired: from the front of ageOrder while the front is expired; the
\* front is the smallest created_tick, so exactly the expired keys go
EvictExpired(s, now) ==
  Without(s, {k[3] : k \in {l \in s.ageOrder : Expired(l[1], now)}})

\* Mutant of NotOlder: the youngest entry goes first.
NotYounger(s, id) == {other \in Stored(s) : ~ Before(Key(s, id), Key(s, other))}

\* the identifiers that are still stored when id is the oldest one
NotOlder(s, id) == {other \in Stored(s) : ~ Before(Key(s, other), Key(s, id))}

\* the negated loop condition of put, once only kept is left of the store
Fits(s, kept, size) ==
  /\ Cardinality(kept) < MaxEntries
  /\ size <= Monus(MaxTotalBytes, s.totalBytes - Bytes(Stored(s) \ kept))

\* the remove_oldest loop of put: it stops at the oldest entry from which on
\* everything fits
MakeRoom(s, size) ==
  Without(s, {id \in Stored(s) : ~ Fits(s, NotOlder(s, id), size)})

Insert(s, id, now) ==
  [entries |-> [other \in Stored(s) \cup {id} |->
                  IF other = id THEN [created |-> now, order |-> s.nextOrder]
                                ELSE s.entries[other]],
   ageOrder |-> s.ageOrder \cup {<<now, s.nextOrder, id>>},
   totalBytes |-> s.totalBytes + Size[id],
   nextOrder |-> s.nextOrder + 1]

Storable(p) == Size[p] \in 1..MaxItemBytes

\* put: the store it leaves behind and what it returns.  The eviction it did is
\* kept when next_order is exhausted.
PutNew(s, p, now) ==
  LET room == MakeRoom(s, Size[p])
  IN  IF room.nextOrder < MaxOrder THEN Insert(room, p, now) ELSE room

PutStore(s, p, now) ==
  LET fresh == EvictExpired(s, now)
  IN  CASE ~ Storable(p) -> s
        [] Storable(p) /\ p \in Stored(fresh) -> fresh
        [] Storable(p) /\ p \notin Stored(fresh) -> PutNew(fresh, p, now)

PutRet(s, p, now) ==
  CASE Size[p] = 0 -> "EmptyInput"
    [] Size[p] > MaxItemBytes -> "ItemTooLarge"
    [] Storable(p) ->
         IF p \in Stored(PutStore(s, p, now)) THEN "Ok" ELSE "ArithmeticOverflow"

(***************************************************************************)
(* Calls                                                                   *)
(***************************************************************************)
NoBatch == [active |-> FALSE]

InBatch(todo, now, ids, trial) ==
  [active |-> TRUE, todo |-> todo, now |-> now, ids |-> ids, trial |-> trial]

Returned(op, ret, ids, now) == [op |-> op, ret |-> ret, ids |-> ids, now |-> now]

Init ==
  /\ store = EmptyStore
  /\ batch = NoBatch
  /\ result = Returned("new", "Ok", {}, 0)

Put(p, now) ==
  /\ ~ batch.active
  /\ store' = PutStore(store, p, now)
  /\ result' = Returned("put", PutRet(store, p, now), {p}, now)
  /\ UNCHANGED batch

\* put_batch: let mut trial = self.clone()
BeginBatch(ps, now) ==
  /\ ~ batch.active
  /\ batch' = InBatch(ps, now, {}, store)
  /\ UNCHANGED <<store, result>>

Abandon(ret) ==
  /\ result' = Returned("put_batch", ret, batch.ids, batch.now)
  /\ batch' = NoBatch
  /\ UNCHANGED store

\* trial.put(payload, now_tick)?
BatchPut ==
  /\ batch.active
  /\ batch.todo # <<>>
  /\ LET p == Head(batch.todo)
         ret == PutRet(batch.trial, p, batch.now)
     IN  \/ /\ ret = "Ok"
            /\ batch' = InBatch(Tail(batch.todo), batch.now, batch.ids \cup {p},
                                PutStore(batch.trial, p, batch.now))
            /\ UNCHANGED <<store, result>>
         \/ ret # "Ok" /\ Abandon(ret)

\* Mutant of EndBatch: the trial replaces the store without a look at whether all
\* of the batch is in it.
EndBatchUnchecked ==
  /\ batch.active
  /\ batch.todo = <<>>
  /\ \/ batch.ids = {} /\ Abandon("EmptyInput")
     \/ /\ batch.ids # {}
        /\ store' = batch.trial
        /\ result' = Returned("put_batch", "Ok", batch.ids, batch.now)
        /\ batch' = NoBatch

\* the checks after the loop, then *self = trial
EndBatch ==
  /\ batch.active
  /\ batch.todo = <<>>
  /\ \/ batch.ids = {} /\ Abandon("EmptyInput")
     \/ /\ batch.ids # {}
        /\ ~ batch.ids \subseteq Stored(batch.trial)
        /\ Abandon("BatchCapacityExceeded")
     \/ /\ batch.ids # {}
        /\ batch.ids \subseteq Stored(batch.trial)
        /\ store' = batch.trial
        /\ result' = Returned("put_batch", "Ok", batch.ids, batch.now)
        /\ batch' = NoBatch

Get(id, now) ==
  /\ ~ batch.active
  /\ store' = EvictExpired(store, now)
  /\ result' = Returned("get", IF id \in Stored(store') THEN "Ok" ELSE "NotFound", {id}, now)
  /\ UNCHANGED batch

Remove(id) ==
  /\ ~ batch.active
  /\ store' = Without(store, {id})
  /\ result' = Returned("remove", IF id \in Stored(store) THEN "Ok" ELSE "NotFound", {id}, 0)
  /\ UNCHANGED batch

\* clear keeps next_order
Clear ==
  /\ ~ batch.active
  /\ store' = [EmptyStore EXCEPT !.nextOrder = store.nextOrder]
  /\ result' = Returned("clear", "Ok", {}, 0)
  /\ UNCHANGED batch

Next ==
  \/ \E p \in Payloads, now \in Ticks : Put(p, now)
  \/ \E ps \in Batches, now \in Ticks : BeginBatch(ps, now)
  \/ BatchPut
  \/ EndBatch
  \/ \E id \in Payloads, now \in Ticks : Get(id, now)
  \/ \E id \in Payloads : Remove(id)
  \/ Clear

Spec == Init /\ [][Next]_vars

(***************************************************************************)
(* Properties                                                              *)
(***************************************************************************)
StoreOK(s) ==
  /\ Stored(s) \subseteq Payloads
  /\ s.entries \in [Stored(s) -> [created : Ticks, order : Nat]]
  /\ s.ageOrder \subseteq Ticks \X Nat \X Payloads
  /\ s.totalBytes \in Nat
  /\ s.nextOrder \in 0..MaxOrder

TypeOK ==
  /\ StoreOK(store)
  /\ batch = NoBatch \/ ( /\ batch.active
                          /\ batch.todo \in Seq(Payloads)
                          /\ batch.now \in Ticks
                          /\ batch.ids \subseteq Payloads
                          /\ StoreOK(batch.trial) )
  /\ result.ids \subseteq Payloads

\* The two indexes of s and its byte count describe the same entries, and no
\* two entries share an order number: put, remove_id and evict_expired keep
\* entries, age_order and total_bytes in step.
Indexed(s) ==
  /\ s.ageOrder = {Key(s, id) : id \in Stored(s)}
  /\ s.totalBytes = Bytes(Stored(s))
  /\ \A id \in Stored(s) : s.entries[id].order < s.nextOrder
  /\ \A id, other \in Stored(s) :
       s.entries[id].order = s.entries[other].order => id = other

\* entries, age_order and total_bytes agree, in the store and in the clone a
\* batch works on; a disagreement would make evict_expired spin on a key whose
\* entry is gone, or let the byte limit drift.
IndexesAgree == Indexed(store) /\ (batch.active => Indexed(batch.trial))

\* The capacity limits hold between calls, and in the clone as well.
WithinLimits ==
  /\ Contract!Within(Stored(store))
  /\ batch.active => Contract!Within(Stored(batch.trial))

\* put and get leave no entry whose age, at the tick they were called with, has
\* reached max_age_ticks, whatever ticks earlier callers passed.
NothingExpiredSurvives ==
  (result.op \in {"put", "get"} /\ result.ret \in {"Ok", "NotFound"}) =>
     \A id \in Stored(store) :
        store.entries[id].created \in Ticks /\ ~ Expired(store.entries[id].created, result.now)

\* What the store retains is bounded in size and in age: evict_for and
\* evict_expired leave neither an entry too many nor one too old.
LimitsKept == WithinLimits /\ NothingExpiredSurvives

\* put_batch reports BatchCapacityExceeded only when it has to: if the payloads
\* are within the limits together, one of them must be stored already (its age
\* is not renewed, so it may be evicted by the rest of its own batch) or the
\* caller's tick must lie behind an entry's (then the batch itself is oldest).
FreshBatchAccepted ==
  [][ (batch.active /\ ~ batch'.active /\ result'.ret = "BatchCapacityExceeded") =>
        \/ ~ Contract!Within(batch.ids)
        \/ \E id \in batch.ids : id \in Stored(store)
        \/ \E id \in Stored(store) : store.entries[id].created > batch.now ]_vars

\* MemoryResultStore keeps the promises of the ResultStore trait.
ImplementsContract == Contract!CSpec
=============================================================================
