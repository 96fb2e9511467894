------------------------- MODULE ConnectedTaskProofs -------------------------
(***************************************************************************)
(* Proofs about ConnectedTask: what the runs show for a few requests and a *)
(* few source limits holds for any number of them.                         *)
(*                                                                         *)
(* None of the properties is inductive.  The invariant says where each     *)
(* fact is decided: the mutex is the worker's exactly in its critical      *)
(* section, which it enters with flag clear; the store's acknowledgement   *)
(* and published differ only inside it; and a request that was published   *)
(* is past the only place where a retry can start.                         *)
(***************************************************************************)
EXTENDS ConnectedTask, TLAPS

Critical == {"lock", "put", "mark"}

\* the mutex is held in the critical section, and flag is clear there
MutexInv ==
  /\ mutex = "worker" <=> worker.pc \in Critical
  /\ worker.pc \in Critical => ~ flag

\* what is stored is marked as published, and marked only when it is stored
StoreInv ==
  /\ stored = "acknowledged" <=> (published \/ worker.pc = "mark")
  /\ writes = IF stored = "acknowledged" THEN 1 ELSE 0
  /\ published => /\ ~ flag
                  /\ worker.pc \in {"readback", "check", "send", "done"}
                  /\ worker.pc \in {"check", "send"} =>
                       worker.receipt \in {"Complete", "ResultStoreFailed"}
  /\ worker.pc = "readback" => published

\* what the worker is about to report, or has reported
ReceiptInv ==
  /\ worker.receipt = "Complete" => published
  /\ worker.receipt = "Cancelled" => flag
  /\ worker.pc \notin {"check", "retry", "send", "done"} => worker.receipt = "none"
  /\ worker.pc \in {"check", "send"} => worker.receipt # "none"
  /\ worker.pc = "retry" => worker.receipt = "MissingAnchors"
  /\ channel # "empty" => worker.pc = "done"
  /\ channel \notin {"empty", "closed"} => channel = worker.receipt

\* at most one invocation begins after the cancellation
LateInv ==
  /\ ~ flag => late = 0
  /\ late = 0 \/ (late = 1 /\ worker.pc \notin {"setup", "invoke", "retry"})

\* who has a task, and who asked for its end
TaskInv ==
  /\ ~ task => worker.pc \in {"none", "done"}
  /\ UiAt("exited") => ~ task
  /\ ui.pc \in {"cancel", "drop"} => task /\ asked
  /\ UiAt("join") => task
  /\ flag => asked

IInv == TypeOK /\ MutexInv /\ StoreInv /\ ReceiptInv /\ LateInv /\ TaskInv

LEMMA InitEstablishes == Init => IInv
<1> SUFFICES ASSUME Init PROVE IInv
  OBVIOUS
<1> USE LimitAssumption, BoundsAssumption DEF Init
<1>1. ui \in UiStates /\ worker \in Workers
  BY DEF UiStates, Workers, WorkerPc
<1>2. TypeOK
  <2>1. channel \in {"empty", "closed"} \cup Reports /\ mutex \in {"free", "worker"}
    OBVIOUS
  <2>2. flag \in BOOLEAN /\ published \in BOOLEAN /\ asked \in BOOLEAN /\ task \in BOOLEAN
    OBVIOUS
  <2>3. stored \in {"nothing", "acknowledged", "leftover"} /\ fileLock \in {"free", "worker", "other"}
    OBVIOUS
  <2>4. started \in 0..MaxTasks /\ holds \in 0..MaxHolds /\ writes \in Nat /\ late \in Nat
    OBVIOUS
  <2> QED
    BY <1>1, <2>1, <2>2, <2>3, <2>4 DEF TypeOK
<1>3. MutexInv /\ StoreInv /\ ReceiptInv
  BY DEF MutexInv, StoreInv, ReceiptInv, Critical
<1>4. LateInv /\ TaskInv
  BY DEF LateInv, TaskInv, UiAt
<1> QED
  BY <1>2, <1>3, <1>4 DEF IInv

\* Every action keeps the types.
LEMMA NextPreservesType == TypeOK /\ ReceiptInv /\ [Next]_vars => TypeOK'
<1> SUFFICES ASSUME TypeOK, ReceiptInv, [Next]_vars PROVE TypeOK'
  OBVIOUS
<1> USE LimitAssumption, BoundsAssumption
    DEF UiAt, UiGoto, At, Goto, Answer, cancellation, store
<1>a. ui \in UiStates /\ worker \in Workers
  BY DEF TypeOK
<1>1. CASE Finished
  <2>1. ui' \in UiStates
    BY <1>1, <1>a DEF Finished, TypeOK, UiStates, Reports, Receipts
  <2>2. worker' \in Workers
    BY <1>1, <1>a DEF Finished
  <2> QED
    BY <1>1, <2>1, <2>2 DEF TypeOK, Finished
<1>2. CASE NoInput
  <2>1. ui' \in UiStates
    BY <1>2, <1>a DEF NoInput, TypeOK, UiStates, Reports, Receipts
  <2>2. worker' \in Workers
    BY <1>2, <1>a DEF NoInput
  <2> QED
    BY <1>2, <2>1, <2>2 DEF TypeOK, NoInput
<1>3. CASE StartTask
  <2>1. ui' \in UiStates
    BY <1>3, <1>a DEF StartTask, TypeOK, UiStates, Reports, Receipts
  <2>2. worker' \in Workers
    BY <1>3, <1>a DEF StartTask, Workers, WorkerPc, Reports, Receipts
  <2>3. started' \in 0..MaxTasks
    BY <1>3 DEF TypeOK, StartTask
  <2>4. /\ flag' \in BOOLEAN /\ published' \in BOOLEAN /\ asked' \in BOOLEAN /\ task' \in BOOLEAN
        /\ mutex' \in {"free", "worker"} /\ channel' \in {"empty", "closed"} \cup Reports
    BY <1>3 DEF StartTask
  <2>5. /\ stored' \in {"nothing", "acknowledged", "leftover"} /\ writes' \in Nat /\ late' \in Nat
        /\ fileLock' = fileLock /\ holds' = holds
    BY <1>3 DEF StartTask
  <2> QED
    BY <2>1, <2>2, <2>3, <2>4, <2>5 DEF TypeOK
<1>4. CASE PressCancel
  <2>1. ui' \in UiStates
    <3>1. PICK quit \in {ui.quit, TRUE} : ui' = [pc |-> "cancel", quit |-> quit, status |-> "cancelling"]
      BY <1>4 DEF PressCancel
    <3>2. quit \in BOOLEAN
      BY <3>1, <1>a DEF UiStates
    <3> QED
      BY <3>1, <3>2 DEF UiStates
  <2>2. worker' \in Workers
    BY <1>4, <1>a DEF PressCancel
  <2> QED
    BY <1>4, <2>1, <2>2 DEF TypeOK, PressCancel
<1>5. CASE Quit
  <2>1. ui' \in UiStates
    BY <1>5, <1>a DEF Quit, TypeOK, UiStates, Reports, Receipts
  <2>2. worker' \in Workers
    BY <1>5, <1>a DEF Quit
  <2> QED
    BY <1>5, <2>1, <2>2 DEF TypeOK, Quit
<1>6. CASE UiError
  <2>1. ui' \in UiStates
    BY <1>6, <1>a DEF UiError, TypeOK, UiStates, Reports, Receipts
  <2>2. worker' \in Workers
    BY <1>6, <1>a DEF UiError
  <2> QED
    BY <1>6, <2>1, <2>2 DEF TypeOK, UiError
<1>7. CASE Cancel
  <2>1. ui' \in UiStates
    BY <1>7, <1>a DEF Cancel, TypeOK, UiStates, Reports, Receipts
  <2>2. worker' \in Workers
    BY <1>7, <1>a DEF Cancel
  <2> QED
    BY <1>7, <2>1, <2>2 DEF TypeOK, Cancel
<1>8. CASE Join
  <2>1. ui' \in UiStates
    BY <1>8, <1>a DEF Join, TypeOK, UiStates, Reports, Receipts
  <2>2. worker' \in Workers
    BY <1>8, <1>a DEF Join
  <2> QED
    BY <1>8, <2>1, <2>2 DEF TypeOK, Join
<1>9. CASE Setup
  <2>1. ui' \in UiStates
    BY <1>9, <1>a DEF Setup, WorkerOnly
  <2>2. worker' \in Workers
    BY <1>9, <1>a DEF Setup, WorkerOnly, Workers, WorkerPc, Reports, Receipts
  <2> QED
    BY <1>9, <2>1, <2>2 DEF TypeOK, Setup, WorkerOnly
<1>10. CASE Gate
  <2>1. ui' \in UiStates
    BY <1>10, <1>a DEF Gate
  <2>2. worker' \in Workers
    BY <1>10, <1>a DEF Gate, Workers, WorkerPc, Reports, Receipts
  <2> QED
    BY <1>10, <2>1, <2>2 DEF TypeOK, Gate
<1>11. CASE Provider
  <2>1. ui' \in UiStates
    BY <1>11, <1>a DEF Provider, WorkerOnly
  <2>2. worker' \in Workers
    BY <1>11, <1>a DEF Provider, WorkerOnly, Workers, WorkerPc, Reports, Receipts
  <2> QED
    BY <1>11, <2>1, <2>2 DEF TypeOK, Provider, WorkerOnly
<1>12. CASE Validate
  <2>1. ui' \in UiStates
    BY <1>12, <1>a DEF Validate, WorkerOnly
  <2>2. worker' \in Workers
    BY <1>12, <1>a DEF Validate, WorkerOnly, Workers, WorkerPc, Reports, Receipts
  <2> QED
    BY <1>12, <2>1, <2>2 DEF TypeOK, Validate, WorkerOnly
<1>13. CASE Publish
  <2>1. ui' \in UiStates
    BY <1>13, <1>a DEF Publish, WorkerOnly
  <2>2. worker' \in Workers
    BY <1>13, <1>a DEF Publish, WorkerOnly, Workers, WorkerPc, Reports, Receipts
  <2> QED
    BY <1>13, <2>1, <2>2 DEF TypeOK, Publish, WorkerOnly
<1>14. CASE LockFile
  <2>1. ui' \in UiStates
    BY <1>14, <1>a DEF LockFile, WorkerOnly
  <2>2. worker' \in Workers
    BY <1>14, <1>a DEF LockFile, WorkerOnly, Workers, WorkerPc, Reports, Receipts
  <2> QED
    BY <1>14, <2>1, <2>2 DEF TypeOK, LockFile, WorkerOnly
<1>15. CASE PutBatch
  <2>1. ui' \in UiStates
    BY <1>15, <1>a DEF PutBatch, WorkerOnly
  <2>2. worker' \in Workers
    BY <1>15, <1>a DEF PutBatch, WorkerOnly, Workers, WorkerPc, Reports, Receipts
  <2> QED
    BY <1>15, <2>1, <2>2 DEF TypeOK, PutBatch, WorkerOnly
<1>16. CASE Mark
  <2>1. ui' \in UiStates
    BY <1>16, <1>a DEF Mark, WorkerOnly
  <2>2. worker' \in Workers
    BY <1>16, <1>a DEF Mark, WorkerOnly, Workers, WorkerPc, Reports, Receipts
  <2> QED
    BY <1>16, <2>1, <2>2 DEF TypeOK, Mark, WorkerOnly
<1>17. CASE ReadBack
  <2>1. ui' \in UiStates
    BY <1>17, <1>a DEF ReadBack, WorkerOnly
  <2>2. worker' \in Workers
    BY <1>17, <1>a DEF ReadBack, WorkerOnly, Workers, WorkerPc, Reports, Receipts
  <2> QED
    BY <1>17, <2>1, <2>2 DEF TypeOK, ReadBack, WorkerOnly
<1>18. CASE AfterInvoke
  <2>1. ui' \in UiStates
    BY <1>18, <1>a DEF AfterInvoke, WorkerOnly
  <2>2. worker' \in Workers
    BY <1>18, <1>a DEF AfterInvoke, WorkerOnly, Workers, WorkerPc, Reports, Receipts
  <2> QED
    BY <1>18, <2>1, <2>2 DEF TypeOK, AfterInvoke, WorkerOnly
<1>19. CASE Retry
  <2>1. ui' \in UiStates
    BY <1>19, <1>a DEF Retry, WorkerOnly
  <2>2. worker' \in Workers
    <3>1. worker.limit > 1 => worker.limit \div 2 \in 1..SourceLimit
      BY <1>a, LimitAssumption DEF Workers
    <3> HIDE LimitAssumption, BoundsAssumption
    <3>2. ASSUME NEW h \in 1..SourceLimit
          PROVE  /\ [worker EXCEPT !.limit = h] \in Workers
                 /\ [worker EXCEPT !.limit = h, !.pc = "invoke", !.receipt = "none"] \in Workers
      BY <1>a DEF Workers, WorkerPc
    <3>3. /\ [worker EXCEPT !.pc = "send"] \in Workers
          /\ [worker EXCEPT !.pc = "send", !.receipt = "SetupFailed"] \in Workers
      BY <1>a DEF Workers, WorkerPc, Reports
    <3> QED
      BY <1>19, <3>1, <3>2, <3>3 DEF Retry
  <2> QED
    BY <1>19, <2>1, <2>2 DEF TypeOK, Retry, WorkerOnly
<1>20. CASE Send
  <2>1. ui' \in UiStates
    BY <1>20, <1>a DEF Send
  <2>2. worker' \in Workers
    BY <1>20, <1>a DEF Send, Workers, WorkerPc, Reports, Receipts
  <2>3. channel' \in Reports
    BY <1>20, <1>a DEF Send, Workers, ReceiptInv
  <2> QED
    BY <1>20, <2>1, <2>2, <2>3 DEF TypeOK, Send
<1>21. CASE Panic
  <2>1. ui' \in UiStates
    BY <1>21, <1>a DEF Panic
  <2>2. worker' \in Workers
    BY <1>21, <1>a DEF Panic, Workers, WorkerPc, Reports, Receipts
  <2> QED
    BY <1>21, <2>1, <2>2 DEF TypeOK, Panic
<1>22. CASE OtherLocks
  <2>1. ui' \in UiStates
    BY <1>22, <1>a DEF OtherLocks
  <2>2. worker' \in Workers
    BY <1>22, <1>a DEF OtherLocks
  <2> QED
    BY <1>22, <2>1, <2>2 DEF TypeOK, OtherLocks
<1>23. CASE OtherUnlocks
  <2>1. ui' \in UiStates
    BY <1>23, <1>a DEF OtherUnlocks
  <2>2. worker' \in Workers
    BY <1>23, <1>a DEF OtherUnlocks
  <2> QED
    BY <1>23, <2>1, <2>2 DEF TypeOK, OtherUnlocks
<1>24. CASE UNCHANGED vars
  BY <1>24 DEF vars, TypeOK
<1> QED
  BY <1>1, <1>2, <1>3, <1>4, <1>5, <1>6, <1>7, <1>8, <1>9, <1>10, <1>11, <1>12, <1>13, <1>14, <1>15, <1>16, <1>17, <1>18, <1>19, <1>20, <1>21, <1>22, <1>23, <1>24 DEF Next, UiStep, WorkerStep

\* Every action keeps the invariant.
LEMMA NextPreserves == IInv /\ [Next]_vars => IInv'
<1> SUFFICES ASSUME IInv, [Next]_vars PROVE IInv'
  OBVIOUS
<1>a. TypeOK'
  BY NextPreservesType DEF IInv
<1> USE DEF IInv, TypeOK, Workers, UiStates, MutexInv, StoreInv, ReceiptInv, LateInv, TaskInv,
        Critical, UiAt, UiGoto, At, Goto, Answer, cancellation, store
<1>1. CASE Finished
  <2>1. MutexInv'
    BY <1>1 DEF Finished
  <2>2. StoreInv'
    BY <1>1 DEF Finished
  <2>3. ReceiptInv'
    BY <1>1 DEF Finished
  <2>4. LateInv'
    BY <1>1 DEF Finished
  <2>5. TaskInv'
    BY <1>1 DEF Finished
  <2> QED
    BY <1>a, <2>1, <2>2, <2>3, <2>4, <2>5
<1>2. CASE NoInput
  <2>1. MutexInv'
    BY <1>2 DEF NoInput
  <2>2. StoreInv'
    BY <1>2 DEF NoInput
  <2>3. ReceiptInv'
    BY <1>2 DEF NoInput
  <2>4. LateInv'
    BY <1>2 DEF NoInput
  <2>5. TaskInv'
    BY <1>2 DEF NoInput
  <2> QED
    BY <1>a, <2>1, <2>2, <2>3, <2>4, <2>5
<1>3. CASE StartTask
  <2>1. MutexInv'
    BY <1>3 DEF StartTask
  <2>2. StoreInv'
    BY <1>3 DEF StartTask
  <2>3. ReceiptInv'
    BY <1>3 DEF StartTask
  <2>4. LateInv'
    BY <1>3 DEF StartTask
  <2>5. TaskInv'
    BY <1>3 DEF StartTask
  <2> QED
    BY <1>a, <2>1, <2>2, <2>3, <2>4, <2>5
<1>4. CASE PressCancel
  <2>1. MutexInv'
    BY <1>4 DEF PressCancel
  <2>2. StoreInv'
    BY <1>4 DEF PressCancel
  <2>3. ReceiptInv'
    BY <1>4 DEF PressCancel
  <2>4. LateInv'
    BY <1>4 DEF PressCancel
  <2>5. TaskInv'
    BY <1>4 DEF PressCancel
  <2> QED
    BY <1>a, <2>1, <2>2, <2>3, <2>4, <2>5
<1>5. CASE Quit
  <2>1. MutexInv'
    BY <1>5 DEF Quit
  <2>2. StoreInv'
    BY <1>5 DEF Quit
  <2>3. ReceiptInv'
    BY <1>5 DEF Quit
  <2>4. LateInv'
    BY <1>5 DEF Quit
  <2>5. TaskInv'
    BY <1>5 DEF Quit
  <2> QED
    BY <1>a, <2>1, <2>2, <2>3, <2>4, <2>5
<1>6. CASE UiError
  <2>1. MutexInv'
    BY <1>6 DEF UiError
  <2>2. StoreInv'
    BY <1>6 DEF UiError
  <2>3. ReceiptInv'
    BY <1>6 DEF UiError
  <2>4. LateInv'
    BY <1>6 DEF UiError
  <2>5. TaskInv'
    BY <1>6 DEF UiError
  <2> QED
    BY <1>a, <2>1, <2>2, <2>3, <2>4, <2>5
<1>7. CASE Cancel
  <2>1. MutexInv'
    BY <1>7 DEF Cancel
  <2>2. StoreInv'
    BY <1>7 DEF Cancel
  <2>3. ReceiptInv'
    BY <1>7 DEF Cancel
  <2>4. LateInv'
    BY <1>7 DEF Cancel
  <2>5. TaskInv'
    BY <1>7 DEF Cancel
  <2> QED
    BY <1>a, <2>1, <2>2, <2>3, <2>4, <2>5
<1>8. CASE Join
  <2>1. MutexInv'
    BY <1>8 DEF Join
  <2>2. StoreInv'
    BY <1>8 DEF Join
  <2>3. ReceiptInv'
    BY <1>8 DEF Join
  <2>4. LateInv'
    BY <1>8 DEF Join
  <2>5. TaskInv'
    BY <1>8 DEF Join
  <2> QED
    BY <1>a, <2>1, <2>2, <2>3, <2>4, <2>5
<1>9. CASE Setup
  <2>1. MutexInv'
    BY <1>9 DEF Setup, WorkerOnly
  <2>2. StoreInv'
    BY <1>9 DEF Setup, WorkerOnly
  <2>3. ReceiptInv'
    BY <1>9 DEF Setup, WorkerOnly
  <2>4. LateInv'
    BY <1>9 DEF Setup, WorkerOnly
  <2>5. TaskInv'
    BY <1>9 DEF Setup, WorkerOnly
  <2> QED
    BY <1>a, <2>1, <2>2, <2>3, <2>4, <2>5
<1>10. CASE Gate
  <2>1. MutexInv'
    BY <1>10 DEF Gate
  <2>2. StoreInv'
    BY <1>10 DEF Gate
  <2>3. ReceiptInv'
    BY <1>10 DEF Gate
  <2>4. LateInv'
    <3>1. flag' = flag /\ late = 0 /\ worker'.pc \in {"provider", "check"}
      BY <1>10 DEF Gate
    <3>2. CASE flag
      BY <1>10, <3>1, <3>2 DEF Gate
    <3>3. CASE ~ flag
      BY <1>10, <3>1, <3>3 DEF Gate
    <3> QED
      BY <3>2, <3>3
  <2>5. TaskInv'
    BY <1>10 DEF Gate
  <2> QED
    BY <1>a, <2>1, <2>2, <2>3, <2>4, <2>5
<1>11. CASE Provider
  <2>1. MutexInv'
    BY <1>11 DEF Provider, WorkerOnly
  <2>2. StoreInv'
    BY <1>11 DEF Provider, WorkerOnly
  <2>3. ReceiptInv'
    BY <1>11 DEF Provider, WorkerOnly
  <2>4. LateInv'
    BY <1>11 DEF Provider, WorkerOnly
  <2>5. TaskInv'
    BY <1>11 DEF Provider, WorkerOnly
  <2> QED
    BY <1>a, <2>1, <2>2, <2>3, <2>4, <2>5
<1>12. CASE Validate
  <2>1. MutexInv'
    BY <1>12 DEF Validate, WorkerOnly
  <2>2. StoreInv'
    BY <1>12 DEF Validate, WorkerOnly
  <2>3. ReceiptInv'
    BY <1>12 DEF Validate, WorkerOnly
  <2>4. LateInv'
    BY <1>12 DEF Validate, WorkerOnly
  <2>5. TaskInv'
    BY <1>12 DEF Validate, WorkerOnly
  <2> QED
    BY <1>a, <2>1, <2>2, <2>3, <2>4, <2>5
<1>13. CASE Publish
  <2>1. MutexInv'
    BY <1>13 DEF Publish, WorkerOnly
  <2>2. StoreInv'
    BY <1>13 DEF Publish, WorkerOnly
  <2>3. ReceiptInv'
    BY <1>13 DEF Publish, WorkerOnly
  <2>4. LateInv'
    BY <1>13 DEF Publish, WorkerOnly
  <2>5. TaskInv'
    BY <1>13 DEF Publish, WorkerOnly
  <2> QED
    BY <1>a, <2>1, <2>2, <2>3, <2>4, <2>5
<1>14. CASE LockFile
  <2>1. MutexInv'
    BY <1>14 DEF LockFile, WorkerOnly
  <2>2. StoreInv'
    BY <1>14 DEF LockFile, WorkerOnly
  <2>3. ReceiptInv'
    BY <1>14 DEF LockFile, WorkerOnly
  <2>4. LateInv'
    BY <1>14 DEF LockFile, WorkerOnly
  <2>5. TaskInv'
    BY <1>14 DEF LockFile, WorkerOnly
  <2> QED
    BY <1>a, <2>1, <2>2, <2>3, <2>4, <2>5
<1>15. CASE PutBatch
  <2>1. MutexInv'
    BY <1>15 DEF PutBatch, WorkerOnly
  <2>2. StoreInv'
    <3>1. ~ published /\ published' = published /\ stored # "acknowledged" /\ writes = 0
      BY <1>15 DEF PutBatch, WorkerOnly
    <3>2. CASE stored' = "acknowledged" /\ writes' = writes + 1 /\ Goto("mark")
      BY <3>1, <3>2
    <3>3. CASE stored' \in {stored, "leftover"} /\ Answer("check", "ResultStoreFailed") /\ UNCHANGED writes
      BY <3>1, <3>3
    <3> QED
      BY <1>15, <3>2, <3>3 DEF PutBatch
  <2>3. ReceiptInv'
    BY <1>15 DEF PutBatch, WorkerOnly
  <2>4. LateInv'
    BY <1>15 DEF PutBatch, WorkerOnly
  <2>5. TaskInv'
    BY <1>15 DEF PutBatch, WorkerOnly
  <2> QED
    BY <1>a, <2>1, <2>2, <2>3, <2>4, <2>5
<1>16. CASE Mark
  <2>1. MutexInv'
    BY <1>16 DEF Mark, WorkerOnly
  <2>2. StoreInv'
    BY <1>16 DEF Mark, WorkerOnly
  <2>3. ReceiptInv'
    BY <1>16 DEF Mark, WorkerOnly
  <2>4. LateInv'
    BY <1>16 DEF Mark, WorkerOnly
  <2>5. TaskInv'
    BY <1>16 DEF Mark, WorkerOnly
  <2> QED
    BY <1>a, <2>1, <2>2, <2>3, <2>4, <2>5
<1>17. CASE ReadBack
  <2>1. MutexInv'
    BY <1>17 DEF ReadBack, WorkerOnly
  <2>2. StoreInv'
    BY <1>17 DEF ReadBack, WorkerOnly
  <2>3. ReceiptInv'
    BY <1>17 DEF ReadBack, WorkerOnly
  <2>4. LateInv'
    BY <1>17 DEF ReadBack, WorkerOnly
  <2>5. TaskInv'
    BY <1>17 DEF ReadBack, WorkerOnly
  <2> QED
    BY <1>a, <2>1, <2>2, <2>3, <2>4, <2>5
<1>18. CASE AfterInvoke
  <2>1. MutexInv'
    BY <1>18 DEF AfterInvoke, WorkerOnly
  <2>2. StoreInv'
    BY <1>18 DEF AfterInvoke, WorkerOnly
  <2>3. ReceiptInv'
    BY <1>18 DEF AfterInvoke, WorkerOnly
  <2>4. LateInv'
    BY <1>18 DEF AfterInvoke, WorkerOnly
  <2>5. TaskInv'
    BY <1>18 DEF AfterInvoke, WorkerOnly
  <2> QED
    BY <1>a, <2>1, <2>2, <2>3, <2>4, <2>5
<1>19. CASE Retry
  <2>1. MutexInv'
    BY <1>19 DEF Retry, WorkerOnly
  <2>2. StoreInv'
    BY <1>19 DEF Retry, WorkerOnly
  <2>3. ReceiptInv'
    BY <1>19 DEF Retry, WorkerOnly
  <2>4. LateInv'
    BY <1>19 DEF Retry, WorkerOnly
  <2>5. TaskInv'
    BY <1>19 DEF Retry, WorkerOnly
  <2> QED
    BY <1>a, <2>1, <2>2, <2>3, <2>4, <2>5
<1>20. CASE Send
  <2>1. MutexInv'
    BY <1>20 DEF Send
  <2>2. StoreInv'
    BY <1>20 DEF Send
  <2>3. ReceiptInv'
    BY <1>20 DEF Send
  <2>4. LateInv'
    BY <1>20 DEF Send
  <2>5. TaskInv'
    BY <1>20 DEF Send
  <2> QED
    BY <1>a, <2>1, <2>2, <2>3, <2>4, <2>5
<1>21. CASE Panic
  <2>1. MutexInv'
    BY <1>21 DEF Panic
  <2>2. StoreInv'
    BY <1>21 DEF Panic
  <2>3. ReceiptInv'
    BY <1>21 DEF Panic
  <2>4. LateInv'
    BY <1>21 DEF Panic
  <2>5. TaskInv'
    BY <1>21 DEF Panic
  <2> QED
    BY <1>a, <2>1, <2>2, <2>3, <2>4, <2>5
<1>22. CASE OtherLocks
  <2>1. MutexInv'
    BY <1>22 DEF OtherLocks
  <2>2. StoreInv'
    BY <1>22 DEF OtherLocks
  <2>3. ReceiptInv'
    BY <1>22 DEF OtherLocks
  <2>4. LateInv'
    BY <1>22 DEF OtherLocks
  <2>5. TaskInv'
    BY <1>22 DEF OtherLocks
  <2> QED
    BY <1>a, <2>1, <2>2, <2>3, <2>4, <2>5
<1>23. CASE OtherUnlocks
  <2>1. MutexInv'
    BY <1>23 DEF OtherUnlocks
  <2>2. StoreInv'
    BY <1>23 DEF OtherUnlocks
  <2>3. ReceiptInv'
    BY <1>23 DEF OtherUnlocks
  <2>4. LateInv'
    BY <1>23 DEF OtherUnlocks
  <2>5. TaskInv'
    BY <1>23 DEF OtherUnlocks
  <2> QED
    BY <1>a, <2>1, <2>2, <2>3, <2>4, <2>5
<1>24. CASE UNCHANGED vars
  BY <1>24 DEF vars
<1> QED
  BY <1>1, <1>2, <1>3, <1>4, <1>5, <1>6, <1>7, <1>8, <1>9, <1>10, <1>11, <1>12, <1>13, <1>14, <1>15, <1>16, <1>17, <1>18, <1>19, <1>20, <1>21, <1>22, <1>23, <1>24 DEF Next, UiStep, WorkerStep

LEMMA InvariantHolds == Spec => []IInv
BY InitEstablishes, NextPreserves, PTL DEF Spec

\* Every variable has its type.
THEOREM TypeCorrect == Spec => []TypeOK
<1>1. IInv => TypeOK
  BY DEF IInv
<1> QED
  BY <1>1, InvariantHolds, PTL

\* Cancellation and publication exclude each other, however the UI thread and the
\* worker interleave (ConnectedCancellation::cancel, CancellableResultStore).
THEOREM OneWinnerHolds == Spec => []OneWinner
<1>1. IInv => OneWinner
  BY DEF IInv, MutexInv, StoreInv, Critical, OneWinner
<1> QED
  BY <1>1, InvariantHolds, PTL

\* The report of a request agrees with what the store acknowledged.
THEOREM ReportsAlwaysAgree == Spec => []ReportsAgree
<1>1. IInv => ReportsAgree
  BY DEF IInv, MutexInv, StoreInv, ReceiptInv, Critical, ReportsAgree, Says
<1> QED
  BY <1>1, InvariantHolds, PTL

\* A request nobody cancelled never says it was.
THEOREM NeverCancelledUnasked == Spec => []CancelledOnlyWhenAsked
<1>1. IInv => CancelledOnlyWhenAsked
  BY DEF IInv, ReceiptInv, TaskInv, CancelledOnlyWhenAsked, Says
<1> QED
  BY <1>1, InvariantHolds, PTL

\* A request publishes once at the most, retries included, and no attempt but one
\* begins after it was cancelled.
THEOREM RetriesAreBounded == Spec => [](PublishedOnce /\ AtMostOneLateAttempt)
<1>1. IInv => PublishedOnce /\ AtMostOneLateAttempt
  BY DEF IInv, StoreInv, LateInv, PublishedOnce, AtMostOneLateAttempt
<1> QED
  BY <1>1, InvariantHolds, PTL

\* No worker outlives run_tui.
THEOREM NoOrphanEver == Spec => []NoOrphan
<1>1. IInv => NoOrphan
  BY DEF IInv, TaskInv, NoOrphan
<1> QED
  BY <1>1, InvariantHolds, PTL
=============================================================================
