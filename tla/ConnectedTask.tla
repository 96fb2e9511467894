---------------------------- MODULE ConnectedTask ----------------------------
(***************************************************************************)
(* A connected request of the terminal UI (crates/bran-cli/src/main.rs):   *)
(* run_tui starts a ConnectedTuiTask, whose worker thread runs             *)
(* do_tui_connected_query while the UI loop keeps reading keys.            *)
(*                                                                         *)
(* The two threads race for one decision, whether the request is cancelled *)
(* or its result is published.  ConnectedCancellation arbitrates: cancel   *)
(* sets flag unless published is set, CancellableResultStore::put_batch    *)
(* publishes unless flag is set, and both hold the mutex `publication`.    *)
(*                                                                         *)
(* The worker keeps the mutex while it waits for the store's file lock,    *)
(* which other bran processes hold at times.  The store is abstracted to   *)
(* what FilesystemResultStore shows of a call: a batch that was            *)
(* acknowledged is stored, and a failed put_batch may leave one behind.    *)
(***************************************************************************)
EXTENDS Naturals

CONSTANTS
  SourceLimit,   \* ExperimentalControls::max_sources of a new request (QUERY_RESULT_LIMIT)
  MaxTasks,      \* bound: requests started in a behaviour
  MaxHolds       \* bound: how often other processes take the file lock

ASSUME LimitAssumption == SourceLimit \in Nat \ {0}

ASSUME BoundsAssumption == MaxTasks \in Nat /\ MaxHolds \in Nat

VARIABLES
  ui,          \* the UI loop: [pc, quit, status], quit being quit_after_cancel
  task,        \* connected_task is Some(_)
  started,     \* how many requests were started
  flag,        \* ConnectedCancellation of the task
  published,
  mutex,       \* the holder of `publication`: "free" or "worker"; cancel takes one step
  worker,      \* the worker thread: [pc, limit, receipt]
  channel,     \* "empty", "closed" (the sender is gone), or the result sent
  stored,      \* what the task has in the store: "nothing", "acknowledged", "leftover"
  fileLock,    \* the holder of .txn-lock: "free", "worker", "other"
  holds,       \* how often other processes took it
  asked,       \* history: cancel was called on the task
  late,        \* history: invocations of the task that began with flag set
  writes       \* history: put_batch calls of the task that succeeded

cancellation == <<flag, published, mutex>>
store == <<stored, fileLock, holds, writes>>
vars == <<ui, task, started, cancellation, worker, channel, store, asked, late>>

Receipts == {"Refused", "MissingAnchors", "Failed", "Cancelled", "ResultStoreFailed", "Complete"}
Reports == Receipts \cup {"SetupFailed", "WorkerFailed"}

WorkerPc == {"none", "setup", "invoke", "provider", "validate", "publish", "lock", "put",
             "mark", "readback", "check", "retry", "send", "done"}

Workers == [pc : WorkerPc, limit : 1..SourceLimit, receipt : {"none"} \cup Reports]

UiStates == [pc : {"top", "input", "cancel", "drop", "join", "exited"}, quit : BOOLEAN,
             status : {"idle", "running", "cancelling"} \cup Reports]

TypeOK ==
  /\ ui \in UiStates
  /\ task \in BOOLEAN
  /\ started \in 0..MaxTasks
  /\ flag \in BOOLEAN /\ published \in BOOLEAN /\ asked \in BOOLEAN
  /\ mutex \in {"free", "worker"}
  /\ worker \in Workers
  /\ channel \in {"empty", "closed"} \cup Reports
  /\ stored \in {"nothing", "acknowledged", "leftover"}
  /\ fileLock \in {"free", "worker", "other"}
  /\ holds \in 0..MaxHolds
  /\ writes \in Nat /\ late \in Nat

Init ==
  /\ ui = [pc |-> "top", quit |-> FALSE, status |-> "idle"]
  /\ task = FALSE
  /\ started = 0
  /\ flag = FALSE /\ published = FALSE /\ asked = FALSE
  /\ mutex = "free"
  /\ worker = [pc |-> "none", limit |-> SourceLimit, receipt |-> "none"]
  /\ channel = "empty"
  /\ stored = "nothing"
  /\ fileLock = "free"
  /\ holds = 0
  /\ writes = 0 /\ late = 0

(***************************************************************************)
(* The UI thread                                                           *)
(***************************************************************************)
UiAt(pc) == ui.pc = pc
UiGoto(pc) == ui' = [ui EXCEPT !.pc = pc]

\* the top of the loop: ConnectedTuiTask::finished polls the channel, and joins
\* the worker when it has a result or the sender is gone
Finished ==
  /\ UiAt("top")
  /\ \/ /\ task /\ channel # "empty"
        /\ ui' = [ui EXCEPT !.pc = IF ui.quit THEN "exited" ELSE "input",
                            !.status = IF channel = "closed" THEN "WorkerFailed" ELSE channel]
        /\ task' = FALSE
     \/ ~ (task /\ channel # "empty") /\ UiGoto("input") /\ UNCHANGED task
  /\ UNCHANGED <<started, cancellation, worker, channel, store, asked, late>>

\* event::poll times out, or the event is none the loop cares for
NoInput ==
  /\ UiAt("input")
  /\ UiGoto("top")
  /\ UNCHANGED <<task, started, cancellation, worker, channel, store, asked, late>>

\* TuiAction::Query: ConnectedTuiTask::start_with
StartTask ==
  /\ UiAt("input") /\ ~ task /\ started < MaxTasks
  /\ ui' = [ui EXCEPT !.pc = "top", !.status = "running"]
  /\ task' = TRUE
  /\ started' = started + 1
  /\ flag' = FALSE /\ published' = FALSE /\ mutex' = "free"
  /\ worker' = [pc |-> "setup", limit |-> SourceLimit, receipt |-> "none"]
  /\ channel' = "empty"
  /\ stored' = "nothing" /\ writes' = 0 /\ late' = 0 /\ asked' = FALSE
  /\ UNCHANGED <<fileLock, holds>>

\* Escape, or Ctrl-C, while a task runs: cancel() waits for the mutex.  It is
\* called before quit_after_cancel and status are set.
PressCancel ==
  /\ UiAt("input") /\ task
  /\ \E quit \in {ui.quit, TRUE} :
       ui' = [pc |-> "cancel", quit |-> quit, status |-> "cancelling"]
  /\ asked' = TRUE
  /\ UNCHANGED <<task, started, cancellation, worker, channel, store, late>>

\* TuiAction::Quit
Quit ==
  /\ UiAt("input") /\ ~ task
  /\ UiGoto("exited")
  /\ UNCHANGED <<task, started, cancellation, worker, channel, store, asked, late>>

\* drawing, polling or reading fails: run_tui returns, and drops the task
UiError ==
  /\ UiAt("input")
  /\ IF task THEN UiGoto("drop") /\ asked' = TRUE ELSE UiGoto("exited") /\ UNCHANGED asked
  /\ UNCHANGED <<task, started, cancellation, worker, channel, store, late>>

\* Mutant of Cancel: the flag is set whether the result is published or not.
CancelAlways ==
  /\ ui.pc \in {"cancel", "drop"}
  /\ mutex = "free"
  /\ flag' = TRUE
  /\ UiGoto(IF UiAt("drop") THEN "join" ELSE "top")
  /\ UNCHANGED <<task, started, published, mutex, worker, channel, store, asked, late>>

\* Mutant of Cancel: Drop does not join the worker.
CancelWithoutJoin ==
  /\ ui.pc \in {"cancel", "drop"}
  /\ mutex = "free"
  /\ flag' = (flag \/ ~ published)
  /\ UiGoto(IF UiAt("drop") THEN "exited" ELSE "top")
  /\ UNCHANGED <<task, started, published, mutex, worker, channel, store, asked, late>>

\* ConnectedCancellation::cancel, from the key or from Drop
Cancel ==
  /\ ui.pc \in {"cancel", "drop"}
  /\ mutex = "free"
  /\ flag' = (flag \/ ~ published)
  /\ UiGoto(IF UiAt("drop") THEN "join" ELSE "top")
  /\ UNCHANGED <<task, started, published, mutex, worker, channel, store, asked, late>>

\* Drop: worker.join()
Join ==
  /\ UiAt("join")
  /\ worker.pc = "done"
  /\ UiGoto("exited")
  /\ task' = FALSE
  /\ UNCHANGED <<started, cancellation, worker, channel, store, asked, late>>

(***************************************************************************)
(* The worker thread                                                       *)
(***************************************************************************)
At(pc) == worker.pc = pc
Goto(pc) == worker' = [worker EXCEPT !.pc = pc]
Answer(pc, receipt) == worker' = [worker EXCEPT !.pc = pc, !.receipt = receipt]

WorkerOnly == UNCHANGED <<ui, task, started, channel, asked, late>>

\* the descriptor, the settings, the store and grounded_request_with.  A
\* failure here is reported as such, cancelled or not.
Setup ==
  /\ At("setup")
  /\ Goto("invoke") \/ Answer("send", "SetupFailed")
  /\ WorkerOnly /\ UNCHANGED <<cancellation, store>>

\* AgentRuntime::invoke up to the provider: a gate refuses, or the SQZ input
\* stage fails, losing source anchors or otherwise
Gate ==
  /\ At("invoke")
  /\ \/ Goto("provider")
     \/ \E r \in {"Refused", "MissingAnchors", "Failed"} : Answer("check", r)
  /\ late' = IF flag THEN late + 1 ELSE late
  /\ UNCHANGED <<ui, task, started, channel, cancellation, store, asked>>

\* ports.provider_port.invoke: Cancelled once the host adapter sees the flag,
\* which it may look at for the last time before the flag is set
Provider ==
  /\ At("provider")
  /\ \/ Goto("validate")
     \/ Answer("check", "Failed")
     \/ flag /\ Answer("check", "Cancelled")
  /\ WorkerOnly /\ UNCHANGED <<cancellation, store>>

\* the checks of the answer, the SQZ output stage, and store_output's own limits
Validate ==
  /\ At("validate")
  /\ Goto("publish") \/ \E r \in {"Failed", "ResultStoreFailed"} : Answer("check", r)
  /\ WorkerOnly /\ UNCHANGED <<cancellation, store>>

\* Mutant of Publish: the flag is not looked at.
PublishUnchecked ==
  /\ At("publish")
  /\ mutex = "free"
  /\ mutex' = "worker"
  /\ Goto("lock")
  /\ WorkerOnly /\ UNCHANGED <<flag, published, store>>

\* CancellableResultStore::put_batch: takes the mutex and looks at the flag
Publish ==
  /\ At("publish")
  /\ mutex = "free"
  /\ \/ flag /\ Answer("check", "ResultStoreFailed") /\ UNCHANGED mutex
     \/ ~ flag /\ mutex' = "worker" /\ Goto("lock")
  /\ WorkerOnly /\ UNCHANGED <<flag, published, store>>

\* FilesystemResultStore::put_batch waits for the file lock
LockFile ==
  /\ At("lock")
  /\ fileLock = "free"
  /\ fileLock' = "worker"
  /\ Goto("put")
  /\ WorkerOnly /\ UNCHANGED <<cancellation, stored, holds, writes>>

\* Mutant of PutBatch: the mutex is released on success only.
PutBatchKeepsMutex ==
  /\ At("put")
  /\ fileLock' = "free"
  /\ \/ stored' = "acknowledged" /\ writes' = writes + 1 /\ Goto("mark")
     \/ /\ stored' \in {stored, "leftover"}
        /\ Answer("check", "ResultStoreFailed")
        /\ UNCHANGED writes
  /\ WorkerOnly /\ UNCHANGED <<cancellation, holds>>

\* inner.put_batch ends.  One that fails may have published its batch: an
\* eviction failed, and undoing the publication failed too.
PutBatch ==
  /\ At("put")
  /\ fileLock' = "free"
  /\ \/ stored' = "acknowledged" /\ writes' = writes + 1 /\ Goto("mark") /\ UNCHANGED mutex
     \/ /\ stored' \in {stored, "leftover"}
        /\ Answer("check", "ResultStoreFailed")
        /\ mutex' = "free"
        /\ UNCHANGED writes
  /\ WorkerOnly /\ UNCHANGED <<flag, published, holds>>

\* published.store(true), and the mutex is released
Mark ==
  /\ At("mark")
  /\ published' = TRUE
  /\ mutex' = "free"
  /\ Goto("readback")
  /\ WorkerOnly /\ UNCHANGED <<flag, store>>

\* store_output reads each payload back.  Another process may have evicted it.
ReadBack ==
  /\ At("readback")
  /\ fileLock = "free"
  /\ \E r \in {"Complete", "ResultStoreFailed"} : Answer("check", r)
  /\ WorkerOnly /\ UNCHANGED <<cancellation, store>>

\* production_headless_receipt_at after invoke: cancelled_receipt runs the
\* gates again, which refuse what they refused before
AfterInvoke ==
  /\ At("check")
  /\ \/ /\ flag
        /\ Answer("send", IF worker.receipt = "Refused" THEN "Refused" ELSE "Cancelled")
     \/ ~ flag /\ Goto(IF worker.receipt = "MissingAnchors" THEN "retry" ELSE "send")
  /\ WorkerOnly /\ UNCHANGED <<cancellation, store>>

\* next_changed_grounded_request, one pass of its loop: the source limit is
\* halved; grounded_request_with fails, changes the prompt, or does not
Retry ==
  /\ At("retry")
  /\ \/ worker.limit = 1 /\ Goto("send")
     \/ worker.limit > 1
        /\ \/ worker' = [worker EXCEPT !.limit = @ \div 2, !.pc = "invoke", !.receipt = "none"]
           \/ worker' = [worker EXCEPT !.limit = @ \div 2]
           \/ Answer("send", "SetupFailed")
  /\ WorkerOnly /\ UNCHANGED <<cancellation, store>>

\* sender.send(output), and the thread ends
Send ==
  /\ At("send")
  /\ channel' = worker.receipt
  /\ Goto("done")
  /\ UNCHANGED <<ui, task, started, cancellation, store, asked, late>>

\* The worker panics: its locks are released, and the mutex is poisoned, which
\* every user of it ignores.  A put_batch it interrupts may have published.
\* Nothing panics between a put_batch that returned and published.store.
Panic ==
  /\ worker.pc \notin {"none", "mark", "send", "done"}
  /\ channel' = "closed"
  /\ Goto("done")
  /\ mutex' = "free"
  /\ fileLock' = IF fileLock = "worker" THEN "free" ELSE fileLock
  /\ stored' \in IF At("put") THEN {stored, "leftover"} ELSE {stored}
  /\ UNCHANGED <<ui, task, started, flag, published, holds, asked, late, writes>>

(***************************************************************************)
(* Other bran processes of the repository                                  *)
(***************************************************************************)
OtherLocks ==
  /\ fileLock = "free"
  /\ holds < MaxHolds
  /\ fileLock' = "other"
  /\ holds' = holds + 1
  /\ UNCHANGED <<ui, task, started, cancellation, worker, channel, stored, asked, late, writes>>

OtherUnlocks ==
  /\ fileLock = "other"
  /\ fileLock' = "free"
  /\ UNCHANGED <<ui, task, started, cancellation, worker, channel, stored, holds, asked, late, writes>>

UiStep == Finished \/ NoInput \/ StartTask \/ PressCancel \/ Quit \/ UiError \/ Cancel \/ Join

WorkerStep ==
  \/ Setup \/ Gate \/ Provider \/ Validate \/ Publish \/ LockFile \/ PutBatch \/ Mark
  \/ ReadBack \/ AfterInvoke \/ Retry \/ Send

Next == UiStep \/ WorkerStep \/ Panic \/ OtherLocks \/ OtherUnlocks

Spec == Init /\ [][Next]_vars

(***************************************************************************)
(* The UI loop turns (a poll lasts 50 ms), the worker's calls return (the  *)
(* host adapter has a deadline), and other processes release the file      *)
(* lock.  No key is ever pressed of necessity.                             *)
(***************************************************************************)
FairSpec ==
  /\ Spec
  /\ WF_vars(Finished) /\ WF_vars(NoInput) /\ WF_vars(Cancel) /\ WF_vars(Join)
  /\ WF_vars(WorkerStep)
  /\ WF_vars(OtherUnlocks)

(***************************************************************************)
(* Properties                                                              *)
(***************************************************************************)
\* What the task says when it has ended.
Says(report) == worker.pc = "done" /\ channel = report

\* Cancellation and publication exclude each other: once cancel has set flag the
\* store never acknowledges a batch of the task, and once it has, cancel leaves
\* the task alone (ConnectedCancellation::cancel, CancellableResultStore::put_batch).
OneWinner == ~ (flag /\ (published \/ stored = "acknowledged"))

\* The receipt agrees with the store: Complete is reported only for an acknowledged
\* result that cancel did not get at, and Cancelled only when none was acknowledged
\* (production_headless_receipt_at, after invoke).
ReportsAgree ==
  /\ Says("Complete") => published /\ ~ flag /\ stored = "acknowledged"
  /\ Says("Cancelled") => flag /\ stored # "acknowledged"

\* A task nobody cancelled never says it was: start_with makes a new
\* ConnectedCancellation, so that the cancelled task before it does not matter.
CancelledOnlyWhenAsked == (flag \/ Says("Cancelled")) => asked

\* The retries of production_headless_receipt_at publish one result at the most.
PublishedOnce == writes <= 1

\* When run_tui has returned, no worker is left that could still write to the
\* store (ConnectedTuiTask::finished and drop join it).
NoOrphan == UiAt("exited") => worker.pc \in {"none", "done"}

\* A cancelled request is given up: however the cancellation falls between the
\* attempts, at most one of them begins after it (the loop of
\* production_headless_receipt_at looks at the flag after each).
AtMostOneLateAttempt == late <= 1

\* The UI thread never stays in cancel(): it waits for a mutex the worker keeps
\* over the file lock of other processes.
CancelReturns == ui.pc \in {"cancel", "drop"} ~> ui.pc \notin {"cancel", "drop"}

\* Each task ends, halving included, and its end is seen.
TaskEnds == task ~> ~ task

\* After Ctrl-C the program ends.
QuitExits == ui.quit ~> UiAt("exited")

\* Nobody waits for ever: a key that cancels, a task and Ctrl-C each have their
\* end, whatever the other processes that take the file lock do.
EveryTaskEnds == CancelReturns /\ TaskEnds /\ QuitExits
=============================================================================
