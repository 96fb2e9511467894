----------------------- MODULE FilesystemResultStore -----------------------
(***************************************************************************)
(* FilesystemResultStore of crates/bran-cli/src/main.rs: the result store  *)
(* of the command line, a directory .bran/results shared by every bran     *)
(* process of the repository.                                              *)
(*                                                                         *)
(* A published batch is a directory batch-<tick>-<digest> with one file    *)
(* per payload.  put_batch writes a staging directory .txn-*, renames it   *)
(* to the batch's name, and then moves the batches it evicts into a        *)
(* quarantine directory .txn-evict-*, which it removes.  Each call holds   *)
(* an advisory lock on .txn-lock from its first look at the directory to   *)
(* its return, and starts by sweeping what crashed calls left behind.      *)
(*                                                                         *)
(* A process may crash between any two system calls, and any system call   *)
(* may fail; MaxFailures bounds how many of these a behaviour has.         *)
(***************************************************************************)
EXTENDS Integers, Sequences, FiniteSets, Functions

CONSTANTS
  Procs,           \* bran processes
  NoProc,          \* the lock is free
  Payloads,        \* the byte strings stored; a payload is its own SHA-256 identifier
  Size,            \* Size[p]: its length in bytes
  DigestOrder,     \* DigestOrder[ids]: the place of a batch digest in the order of path names
  MaxEntries, MaxTotalBytes, MaxItemBytes, MaxAgeTicks,   \* RESULT_STORE_LIMITS
  Ticks,           \* wall_tick() values; each call reads the clock before it waits for the lock
  Batches,         \* the payload sequences passed to put_batch
  MaxCalls,        \* bound: calls per process
  MaxFailures      \* bound: crashes and failed system calls in a behaviour

ASSUME LimitsAssumption ==
  /\ MaxEntries \in Nat \ {0}
  /\ MaxTotalBytes \in Nat \ {0}
  /\ MaxItemBytes \in 1..MaxTotalBytes
  /\ MaxAgeTicks \in Nat \ {0}
  /\ NoProc \notin Procs

ASSUME InputAssumption ==
  /\ MaxFailures \in Nat
  /\ Batches \subseteq Seq(Payloads)
  /\ Size \in [Payloads -> Nat]
  /\ Ticks \subseteq Nat
  /\ DigestOrder \in [Batches -> Nat]
  /\ \A i, j \in Batches : DigestOrder[i] = DigestOrder[j] => i = j

VARIABLES
  batches,      \* the batch directories: name |-> the payload files in it
  staging,      \* the staging directories: process |-> the payload files in it
  quarantine,   \* the eviction directories: process |-> (batch name |-> its files)
  lock,         \* the holder of .txn-lock
  proc,         \* proc[p]: the call p is in
  calls,        \* calls[p]: how many calls p has made
  failures,     \* crashes and failed system calls so far
  result,       \* how the last call ended: [op, ret, ids, now]; op is "crash" for a crash
  latest,       \* history: the latest tick any call was made with
  prior         \* history: the batches when the lock was acquired

disk == <<batches, staging, quarantine>>
vars == <<disk, lock, proc, calls, failures, result, latest, prior>>

BatchNames == [tick : Ticks, ids : Batches]

Expired(tick, now) == (IF now > tick THEN now - tick ELSE 0) >= MaxAgeTicks

\* what batches_unlocked counts in the directories dirs: files, and their bytes
EntryCount(dirs) ==
  Cardinality(UNION {{<<n, f>> : f \in dirs[n]} : n \in DOMAIN dirs})
ByteCount(dirs) ==
  Cardinality(UNION {UNION {{<<n, f, i>> : i \in 1..Size[f]} : f \in dirs[n]} : n \in DOMAIN dirs})
PayloadBytes(ids) ==
  Cardinality(UNION {{<<i, j>> : j \in 1..Size[ids[i]]} : i \in DOMAIN ids})

Within(dirs) == EntryCount(dirs) <= MaxEntries /\ ByteCount(dirs) <= MaxTotalBytes

\* the loop condition of put_batch
Overflows(dirs, ids) ==
  \/ EntryCount(dirs) + Len(ids) > MaxEntries
  \/ ByteCount(dirs) + PayloadBytes(ids) > MaxTotalBytes

\* batches.sort_by_key(|(tick, path, ..)| ..)
Older(m, n) ==
  m.tick < n.tick \/ (m.tick = n.tick /\ DigestOrder[m.ids] < DigestOrder[n.ids])

Keep(f, keys) == [k \in keys |-> f[k]]
Drop(f, keys) == [k \in DOMAIN f \ keys |-> f[k]]
\* n and the younger ones of dirs
FromOn(dirs, n) == Keep(dirs, {m \in DOMAIN dirs : ~ Older(m, n)})

\* the batches put_batch evicts for ids: from the oldest on, until the others
\* fit together with it
Evictions(ids) == {n \in DOMAIN batches : Overflows(FromOn(batches, n), ids)}

Put(f, key, value) == [k \in DOMAIN f \cup {key} |-> IF k = key THEN value ELSE f[k]]

(***************************************************************************)
(* A process and its call                                                  *)
(***************************************************************************)
NoBatches == [n \in {} |-> {}]

Idle == [pc |-> "idle"]

Target(p) == [tick |-> proc[p].now, ids |-> proc[p].ids]

Returned(op, ret, ids, now) == [op |-> op, ret |-> ret, ids |-> ids, now |-> now]

At(p, pc) == proc[p].pc = pc

\* Mutant of Unlock: the lock of a call that was refused is not released.
UnlockOnSuccess(p) ==
  /\ lock' = IF lock = p /\ ~ At(p, "check") THEN NoProc ELSE lock
  /\ prior' = IF lock = p THEN NoBatches ELSE prior

Unlock(p) ==
  /\ lock' = IF lock = p THEN NoProc ELSE lock
  /\ prior' = IF lock = p THEN NoBatches ELSE prior

\* the call of p returns, releasing the lock if p has it
Return(p, ret) ==
  /\ proc' = [proc EXCEPT ![p] = Idle]
  /\ Unlock(p)
  /\ result' = Returned(proc[p].op, ret, proc[p].ids, proc[p].now)

Goto(p, pc) == proc' = [proc EXCEPT ![p].pc = pc]

\* a system call of p fails
Fault == failures < MaxFailures /\ failures' = failures + 1

NoFault == UNCHANGED failures

Init ==
  /\ batches = NoBatches
  /\ staging = [p \in {} |-> {}]
  /\ quarantine = [p \in {} |-> <<>>]
  /\ lock = NoProc
  /\ proc = [p \in Procs |-> Idle]
  /\ calls = [p \in Procs |-> 0]
  /\ failures = 0
  /\ result = Returned("none", "Ok", <<>>, 0)
  /\ latest = 0
  /\ prior = NoBatches

\* put_batch and get up to file.lock(): put_batch first refuses what could
\* never be stored
Begin(p, op, ids, now) ==
  /\ At(p, "idle")
  /\ calls[p] < MaxCalls
  /\ calls' = [calls EXCEPT ![p] = @ + 1]
  /\ latest' = IF now > latest THEN now ELSE latest
  /\ UNCHANGED <<disk, lock, failures, prior>>

Refusal(ids) ==
  CASE ids = <<>> -> "EmptyInput"
    [] \E i \in DOMAIN ids : Size[ids[i]] \notin 1..MaxItemBytes -> "ItemTooLarge"
    [] /\ \A i \in DOMAIN ids : Size[ids[i]] \in 1..MaxItemBytes
       /\ Len(ids) > MaxEntries \/ PayloadBytes(ids) > MaxTotalBytes -> "BatchCapacityExceeded"
    [] OTHER -> "None"

PutBatch(p, ids, now) ==
  /\ Begin(p, "put_batch", ids, now)
  /\ \/ /\ Refusal(ids) # "None"
        /\ result' = Returned("put_batch", Refusal(ids), ids, now)
        /\ UNCHANGED proc
     \/ /\ Refusal(ids) = "None"
        /\ proc' = [proc EXCEPT ![p] =
             [pc |-> "lock", op |-> "put_batch", ids |-> ids, now |-> now,
              todo |-> ids, evict |-> {}, moved |-> {}]]
        /\ UNCHANGED result

Get(p, id, now) ==
  /\ Begin(p, "get", <<id>>, now)
  /\ proc' = [proc EXCEPT ![p] =
       [pc |-> "lock", op |-> "get", ids |-> <<id>>, now |-> now,
        todo |-> <<>>, evict |-> {}, moved |-> {}]]
  /\ UNCHANGED result

\* operation_lock: waits for the lock
Lock(p) ==
  /\ At(p, "lock")
  /\ lock = NoProc
  /\ \/ /\ lock' = p
        /\ prior' = batches
        /\ Goto(p, IF proc[p].op = "get" THEN "sweep" ELSE "check")
        /\ NoFault
        /\ UNCHANGED result
     \/ Fault /\ Return(p, "Unavailable")
  /\ UNCHANGED <<disk, calls, latest>>

\* put_batch: a batch of that name is there already; its files are compared
CheckTarget(p) ==
  /\ At(p, "check")
  /\ \/ /\ Target(p) \in DOMAIN batches
        /\ Return(p, IF Range(proc[p].ids) \subseteq batches[Target(p)] THEN "Ok" ELSE "NotFound")
        /\ NoFault
     \/ Target(p) \notin DOMAIN batches /\ Goto(p, "sweep") /\ NoFault /\ UNCHANGED <<lock, result, prior>>
     \/ Fault /\ Return(p, "Unavailable")
  /\ UNCHANGED <<disk, calls, latest>>

\* Mutant of ExpiredBatches: a batch expires one tick early.
ExpiredBatchesEarly(now) == {n \in DOMAIN batches : Expired(n.tick, now + 1)}

ExpiredBatches(now) == {n \in DOMAIN batches : Expired(n.tick, now)}

\* batches_unlocked: every .txn-* directory and every expired batch is removed
Sweep(p) ==
  /\ At(p, "sweep")
  /\ batches' = Drop(batches, ExpiredBatches(proc[p].now))
  /\ staging' = Drop(staging, DOMAIN staging)
  /\ quarantine' = Drop(quarantine, DOMAIN quarantine)
  /\ Goto(p, IF proc[p].op = "get" THEN "read" ELSE "stage")
  /\ NoFault
  /\ UNCHANGED <<lock, calls, result, latest, prior>>

\* What a sweep, or the removal of one batch directory, leaves behind when it is
\* cut short: some are gone, and one has lost some of its files.
PartlyRemoved(names) ==
  \E gone \in SUBSET names :
    \/ batches' = Drop(batches, gone)
    \/ \E n \in names \ gone : \E left \in SUBSET batches[n] :
         batches' = [Drop(batches, gone) EXCEPT ![n] = left]

PartlySwept(p) ==
  /\ PartlyRemoved(ExpiredBatches(proc[p].now))
  /\ \E kept \in SUBSET DOMAIN staging : staging' = Drop(staging, kept)
  /\ \E kept \in SUBSET DOMAIN quarantine : quarantine' = Drop(quarantine, kept)

SweepFails(p) ==
  /\ At(p, "sweep")
  /\ Fault
  /\ PartlySwept(p)
  /\ Return(p, "Unavailable")
  /\ UNCHANGED <<calls, latest>>

\* get: the batches from the newest on
Read(p) ==
  /\ At(p, "read")
  /\ LET id == Head(proc[p].ids)
     IN  \/ /\ Return(p, IF \E n \in DOMAIN batches : id \in batches[n] THEN "Ok" ELSE "NotFound")
            /\ NoFault
         \/ Fault /\ Return(p, "Unavailable")
  /\ UNCHANGED <<disk, calls, latest>>

(***************************************************************************)
(* put_batch after the sweep                                               *)
(***************************************************************************)
\* the evictions are chosen and the staging directory created
Stage(p) ==
  /\ At(p, "stage")
  /\ \/ /\ staging' = Put(staging, p, {})
        /\ proc' = [proc EXCEPT ![p].pc = "write", ![p].evict = Evictions(proc[p].ids)]
        /\ NoFault
        /\ UNCHANGED <<lock, result, prior>>
     \/ Fault /\ Return(p, "Unavailable") /\ UNCHANGED staging
  /\ UNCHANGED <<batches, quarantine, calls, latest>>

\* write_private_file opens with create_new: a payload that occurs twice in a
\* batch fails like an I/O error
WriteFile(p) ==
  /\ At(p, "write")
  /\ proc[p].todo # <<>>
  /\ LET f == Head(proc[p].todo)
     IN  \/ /\ f \notin staging[p]
            /\ staging' = [staging EXCEPT ![p] = @ \cup {f}]
            /\ proc' = [proc EXCEPT ![p].todo = Tail(@)]
            /\ NoFault
         \/ f \in staging[p] /\ Goto(p, "discard") /\ NoFault /\ UNCHANGED staging
         \/ Fault /\ Goto(p, "discard") /\ UNCHANGED staging
  /\ UNCHANGED <<batches, quarantine, lock, calls, result, latest, prior>>

\* Mutant of Publish: the files are written after the rename.
PublishEarly(p) ==
  /\ At(p, "write")
  /\ batches' = Put(batches, Target(p), staging[p])
  /\ staging' = Drop(staging, {p})
  /\ NoFault
  /\ Return(p, "Ok")
  /\ UNCHANGED <<quarantine, calls, latest>>

\* fs::rename(&staging, &target)
Publish(p) ==
  /\ At(p, "write")
  /\ proc[p].todo = <<>>
  /\ \/ /\ batches' = Put(batches, Target(p), staging[p])
        /\ staging' = Drop(staging, {p})
        /\ NoFault
        /\ \/ proc[p].evict = {} /\ Return(p, "Ok")
           \/ proc[p].evict # {} /\ Goto(p, "quarantine") /\ UNCHANGED <<lock, result, prior>>
     \/ Fault /\ Goto(p, "discard") /\ UNCHANGED <<batches, staging, lock, result, prior>>
  /\ UNCHANGED <<quarantine, calls, latest>>

\* publish.is_err(): the staging directory is removed, or left to the next sweep
Discard(p) ==
  /\ At(p, "discard")
  /\ \/ staging' = Drop(staging, {p}) /\ NoFault
     \/ Fault /\ UNCHANGED staging
  /\ Return(p, "Unavailable")
  /\ UNCHANGED <<batches, quarantine, calls, latest>>

\* evict_after_publish
CreateQuarantine(p) ==
  /\ At(p, "quarantine")
  /\ \/ /\ quarantine' = Put(quarantine, p, <<>>)
        /\ Goto(p, "move")
        /\ NoFault
     \/ Fault /\ Goto(p, "unpublish") /\ UNCHANGED quarantine
  /\ UNCHANGED <<batches, staging, lock, calls, result, latest, prior>>

MoveBatch(p) ==
  /\ At(p, "move")
  /\ proc[p].evict # {}
  /\ \/ \E n \in proc[p].evict :
          /\ \A m \in proc[p].evict : ~ Older(m, n)
          /\ batches' = Drop(batches, {n})
          /\ quarantine' = [quarantine EXCEPT ![p] = Put(@, n, batches[n])]
          /\ proc' = [proc EXCEPT ![p].evict = @ \ {n}, ![p].moved = @ \cup {n}]
          /\ NoFault
     \/ Fault /\ Goto(p, "restore") /\ UNCHANGED <<batches, quarantine>>
  /\ UNCHANGED <<staging, lock, calls, result, latest, prior>>

\* let _ = fs::remove_dir_all(quarantine): what it leaves is for the next sweep
DropQuarantine(p) ==
  /\ At(p, "move")
  /\ proc[p].evict = {}
  /\ \/ quarantine' = Drop(quarantine, {p}) /\ NoFault
     \/ Fault /\ UNCHANGED quarantine
  /\ Return(p, "Ok")
  /\ UNCHANGED <<batches, staging, calls, latest>>

\* rollback_eviction: the moved batches are renamed back, youngest first, and
\* the result of each rename is ignored
RestoreBatch(p) ==
  /\ At(p, "restore")
  /\ proc[p].moved # {}
  /\ \E n \in proc[p].moved :
       /\ \A m \in proc[p].moved : ~ Older(n, m)
       /\ proc' = [proc EXCEPT ![p].moved = @ \ {n}]
       /\ \/ /\ batches' = Put(batches, n, quarantine[p][n])
             /\ quarantine' = [quarantine EXCEPT ![p] = Drop(@, {n})]
             /\ NoFault
          \/ Fault /\ UNCHANGED <<batches, quarantine>>
  /\ UNCHANGED <<staging, lock, calls, result, latest, prior>>

\* Mutant of RemoveQuarantine: the quarantine goes before the batches are back.
RemoveQuarantineFirst(p) ==
  /\ At(p, "restore")
  /\ Goto(p, "unpublish")
  /\ quarantine' = Drop(quarantine, {p})
  /\ NoFault
  /\ UNCHANGED <<batches, staging, lock, calls, result, latest, prior>>

\* let _ = fs::remove_dir_all(quarantine)
RemoveQuarantine(p) ==
  /\ At(p, "restore")
  /\ proc[p].moved = {}
  /\ Goto(p, "unpublish")
  /\ \/ quarantine' = Drop(quarantine, {p}) /\ NoFault
     \/ Fault /\ UNCHANGED quarantine
  /\ UNCHANGED <<batches, staging, lock, calls, result, latest, prior>>

\* let _ = fs::remove_dir_all(published)
Unpublish(p) ==
  /\ At(p, "unpublish")
  /\ \/ batches' = Drop(batches, {Target(p)}) /\ NoFault
     \/ Fault /\ PartlyRemoved({Target(p)})
  /\ Return(p, "Unavailable")
  /\ UNCHANGED <<staging, quarantine, calls, latest>>

\* The process dies; the kernel releases its lock and the directory stays as it
\* is, with a removal that was under way cut short.
Crash(p) ==
  /\ ~ At(p, "idle")
  /\ Fault
  /\ proc' = [proc EXCEPT ![p] = Idle]
  /\ Unlock(p)
  /\ result' = Returned("crash", "None", <<>>, 0)
  /\ \/ At(p, "sweep") /\ PartlySwept(p)
     \/ At(p, "unpublish") /\ PartlyRemoved({Target(p)}) /\ UNCHANGED <<staging, quarantine>>
     \/ ~ At(p, "sweep") /\ ~ At(p, "unpublish") /\ UNCHANGED disk
  /\ UNCHANGED <<calls, latest>>

Step(p) ==
  \/ Lock(p) \/ CheckTarget(p) \/ Sweep(p) \/ SweepFails(p) \/ Read(p)
  \/ Stage(p) \/ WriteFile(p) \/ Publish(p) \/ Discard(p)
  \/ CreateQuarantine(p) \/ MoveBatch(p) \/ DropQuarantine(p)
  \/ RestoreBatch(p) \/ RemoveQuarantine(p) \/ Unpublish(p)

Next ==
  \E p \in Procs :
    \/ \E ids \in Batches, now \in Ticks : PutBatch(p, ids, now)
    \/ \E id \in Payloads, now \in Ticks : Get(p, id, now)
    \/ Step(p)
    \/ Crash(p)

Spec == Init /\ [][Next]_vars

\* A process in a call is scheduled until the call returns.
FairSpec == Spec /\ \A p \in Procs : WF_vars(Step(p))

(***************************************************************************)
(* Properties                                                              *)
(***************************************************************************)
TypeOK ==
  /\ DOMAIN batches \subseteq BatchNames
  /\ \A n \in DOMAIN batches : batches[n] \subseteq Range(n.ids)
  /\ DOMAIN staging \subseteq Procs
  /\ DOMAIN quarantine \subseteq Procs
  /\ lock \in Procs \cup {NoProc}
  /\ \A p \in Procs : lock = p <=> proc[p].pc \notin {"idle", "lock"}
  /\ failures \in 0..MaxFailures

\* The directories of a live transaction are its own: while a call is staging,
\* exactly the files it wrote are in its staging directory, and the batches it
\* has moved are in its quarantine, whatever other processes sweep.
LiveTransactionKept ==
  \A p \in Procs :
    /\ At(p, "write") =>
         /\ p \in DOMAIN staging
         /\ staging[p] = Range(proc[p].ids) \ Range(proc[p].todo)
              \/ \E i, j \in DOMAIN proc[p].ids : i # j /\ proc[p].ids[i] = proc[p].ids[j]
    /\ At(p, "move") => p \in DOMAIN quarantine /\ DOMAIN quarantine[p] = proc[p].moved

\* A batch directory holds all files of its batch, unless the batch had expired
\* for some call, whose sweep was cut short.  (One failure; a second one can cut
\* the removal of a rolled back batch short, which this run excludes.)
NoPartialBatch ==
  \A n \in DOMAIN batches : batches[n] = Range(n.ids) \/ Expired(n.tick, latest)

\* What is on disk is whole: the directories of a transaction under way, and the
\* batches a reader may open.
LiveBatchesWhole == LiveTransactionKept /\ NoPartialBatch

\* a put_batch of p returns after the check of its target
PutBatchReturns(p) ==
  /\ lock = p /\ lock' = NoProc
  /\ proc[p].op = "put_batch"
  /\ ~ At(p, "check")
  /\ result'.op # "crash"

\* every batch that was live when p took the lock is there, with all its files
Keeps(p) ==
  \A n \in DOMAIN prior :
    Expired(n.tick, proc[p].now) \/ (n \in DOMAIN batches' /\ batches'[n] = prior[n])

\* A put_batch that succeeds leaves its whole batch readable and the store
\* within its limits, also when earlier crashes had left it above them.
SuccessIsComplete ==
  [][ \A p \in Procs :
        (PutBatchReturns(p) /\ result'.ret = "Ok")
        => /\ Target(p) \in DOMAIN batches'
           /\ batches'[Target(p)] = Range(proc[p].ids)
           /\ Within(batches)' ]_vars

\* A put_batch that fails leaves every batch that was live for it as it found
\* it, and publishes nothing, when one thing went wrong: the roll back of the
\* eviction and the removal of the published batch undo what was done.
FailureKeepsPrior ==
  [][ \A p \in Procs :
        (PutBatchReturns(p) /\ result'.ret # "Ok")
        => Keeps(p) /\ DOMAIN batches' \subseteq DOMAIN prior ]_vars

\* put_batch is all or nothing: a success is a whole batch within the limits, a
\* failure leaves the live batches as they were.
PutAllOrNothing == SuccessIsComplete /\ FailureKeepsPrior

\* A live batch is only lost to a put_batch that needs its room: the live ones
\* that stay are younger, and together with it they would exceed a limit.
LiveBatchLostOnlyForRoom ==
  [][ \A p \in Procs : (lock = p /\ lock' = NoProc) =>
        LET live == Keep(prior, {n \in DOMAIN prior : ~ Expired(n.tick, proc[p].now)})
        IN  \A n \in DOMAIN live \ DOMAIN batches' :
              /\ proc[p].op = "put_batch"
              /\ Overflows(FromOn(live, n), proc[p].ids)
              /\ \A m \in DOMAIN live \cap DOMAIN batches' : Older(n, m) ]_vars

\* Every call returns (or its process crashes): the lock is released on every
\* path, so a waiting call gets its turn once the calls ahead of it are done.
EveryCallReturns == \A p \in Procs : ~ At(p, "idle") ~> At(p, "idle")
=============================================================================
