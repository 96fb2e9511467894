-------------------------- MODULE ExternalHostProofs --------------------------
(***************************************************************************)
(* Proofs about ExternalHost: whatever the capacity of the pipe and the    *)
(* number of frames, and whatever the host does with them, what invoke     *)
(* answers is true of the host.                                            *)
(*                                                                         *)
(* OkIsWhole relates the caller's answer to what the host wrote, and these *)
(* are three buffers apart.  The invariant follows each frame: those the   *)
(* caller has taken, those in the reader's channel and those in the pipe   *)
(* are, in this order, what was written, until the reader refuses one, and *)
(* after that the error it sent is there to be found.                      *)
(***************************************************************************)
EXTENDS ExternalHost, SequenceTheorems, TLAPS

BeforeHost == {"verify", "spawn"}
BeforeThreads == {"verify", "spawn", "verify again"}
Conversation == {"request", "request written", "preflight", "execute", "execute written", "result"}
Draining == {"drain stdout", "drain stderr"}
Places == BeforeThreads \cup Conversation \cup {"wait"} \cup Draining \cup {"done"}
Answers == {"Ok", "Cancelled", "Timeout", "Unavailable", "Failed", "InvalidOutput"}
Passed == Kinds \cup {"Err"}

Calls == [pc : Places, step : {"check", "receive", "streams", "exit"}, ret : Answers \cup {"none"}]
Hosts == {"none", "running", "exited", "failed", "killed"}
Stdins == [full : Nat, ended : BOOLEAN]
Writers == [jobs : Nat, hungup : BOOLEAN, results : Seq({"Ok", "Failed"}), alive : BOOLEAN]
Readers == [count : 0..2, frames : Seq(Passed), alive : BOOLEAN]
Stderrs == [alive : BOOLEAN, result : {"none", "Ok", "Err"}]

TypeOK ==
  /\ call \in Calls
  /\ late \in BOOLEAN /\ flag \in BOOLEAN /\ early \in BOOLEAN
  /\ host \in Hosts /\ descendant \in BOOLEAN
  /\ stdin \in Stdins
  /\ stdout \in Seq(Kinds) /\ wrote \in Seq(Kinds)
  /\ writer \in Writers
  /\ reader \in Readers
  /\ stderr \in Stderrs

\* The host is there from spawn on; it is gone when its streams are drained and when
\* the call is over.
HostInv ==
  /\ call.pc \in BeforeHost => host = "none" /\ ~ descendant /\ wrote = <<>>
  /\ call.pc \in Draining \cup {"done"} => host # "running"
  /\ call.pc # "done" => call.ret = "none"

\* The frames the caller has taken from the channel.
Taken ==
  IF call.pc \in {"execute", "execute written", "result"} THEN 1
  ELSE IF call.pc \in {"wait"} \cup Draining THEN 2 ELSE 0

\* The reader has refused nothing.
Clean == \A i \in 1..Len(reader.frames) : reader.frames[i] # "Err"

TakenInv ==
  /\ Taken >= 1 => Len(wrote) >= 1 /\ wrote[1] = "preflight"
  /\ Taken = 2 => Len(wrote) >= 2 /\ wrote[2] = "result"

ChannelInv ==
  \A i \in 1..Len(reader.frames) :
    reader.frames[i] # "Err" => Taken + i <= Len(wrote) /\ reader.frames[i] = wrote[Taken + i]

PipeInv ==
  Clean => /\ Len(reader.frames) + Taken = reader.count
           /\ Len(wrote) = reader.count + Len(stdout)
           /\ \A i \in 1..Len(stdout) : stdout[i] = wrote[reader.count + i]

\* The threads start together; the reader ends with an error, or at the end of a
\* stream that nobody can write to any more.
ReaderInv ==
  /\ call.pc \in BeforeThreads => reader = [count |-> 0, frames |-> <<>>, alive |-> FALSE]
  /\ call.pc \notin BeforeThreads /\ ~ reader.alive =>
       ~ Clean \/ (reader.count = 2 /\ stdout = <<>> /\ ~ HoldsPipes)
  /\ ~ Clean => ~ reader.alive
  /\ call.pc = "drain stderr" => reader.frames = <<>> /\ ~ reader.alive

\* Until the call is over
FrameInv == call.pc # "done" => TakenInv /\ ChannelInv /\ PipeInv /\ ReaderInv

\* A cancellation that came before the result stops the caller at its next look.
EarlyInv ==
  /\ early => flag /\ call.ret # "Ok"
  /\ early => call.pc \notin Draining /\ (call.pc = "wait" => call.step = "check")

IInv == TypeOK /\ HostInv /\ FrameInv /\ EarlyInv /\ OkIsWhole

LEMMA InitEstablishes == Init => IInv
<1> SUFFICES ASSUME Init PROVE IInv
  OBVIOUS
<1> USE DEF Init
<1>1. TypeOK
  <2>1. <<>> \in Seq(Kinds) /\ <<>> \in Seq(Passed) /\ <<>> \in Seq({"Ok", "Failed"})
    BY EmptySeq
  <2>2. call \in Calls /\ host \in Hosts
    BY DEF Calls, Hosts, Places, BeforeThreads
  <2>3. stderr \in Stderrs /\ stdin \in Stdins
    BY DEF Stderrs, Stdins
  <2>4. writer \in Writers /\ reader \in Readers
    BY <2>1 DEF Writers, Readers
  <2>5. late \in BOOLEAN /\ flag \in BOOLEAN /\ early \in BOOLEAN /\ descendant \in BOOLEAN
    OBVIOUS
  <2> QED
    BY <2>1, <2>2, <2>3, <2>4, <2>5, Zenon DEF TypeOK
<1>2. HostInv /\ EarlyInv /\ OkIsWhole
  BY DEF HostInv, EarlyInv, OkIsWhole, BeforeHost, Draining
<1>3. Taken = 0 /\ Len(reader.frames) = 0
  BY EmptySeq DEF Taken, Draining
<1>4. TakenInv /\ ChannelInv /\ PipeInv /\ ReaderInv
  <2>1. TakenInv /\ ChannelInv
    BY <1>3 DEF TakenInv, ChannelInv
  <2>2. PipeInv
    BY <1>3, EmptySeq DEF PipeInv
  <2>3. ReaderInv
    BY DEF ReaderInv, BeforeThreads
  <2> QED
    BY <2>1, <2>2, <2>3
<1> QED
  BY <1>1, <1>2, <1>4 DEF IInv, FrameInv

\* Giving the conversation up keeps the types.
LEMMA AbortKeepsTypes ==
  ASSUME TypeOK, NEW ret \in Answers, Abort(ret)
  PROVE  /\ call' = [pc |-> "done", step |-> "check", ret |-> ret] /\ call' \in Calls
         /\ host' = Killed /\ host' \in Hosts /\ descendant' = descendant
         /\ writer' \in Writers
BY DEF TypeOK, Abort, Return, Killed, Places, Calls, Hosts, Writers

\* An interruption is an answer, and not Ok.
LEMMA InterruptionIsAnswer == Interruption \in Answers \ {"Ok"}
BY DEF Interruption, Answers

LEMMA GotoKeepsTypes ==
  ASSUME TypeOK, NEW pc \in Places, NEW step \in {"check", "receive", "streams", "exit"}, Goto(pc, step)
  PROVE  call' = [pc |-> pc, step |-> step, ret |-> call.ret] /\ call' \in Calls
BY DEF TypeOK, Goto, Calls

\* The reader after a frame that it passes on or refuses
Refuses == [reader EXCEPT !.alive = FALSE, !.frames = Append(@, "Err")]
Passes(frame) == [reader EXCEPT !.count = @ + 1, !.frames = Append(@, frame)]

LEMMA FramesIsEither ==
  ASSUME NEW frame
  PROVE  Frames(frame) = IF reader.count = 2 THEN Refuses ELSE Passes(frame)
BY DEF Frames, Refuses, Passes

LEMMA RefusesType ==
  ASSUME TypeOK
  PROVE  /\ Refuses \in Readers /\ ~ Refuses.alive /\ Refuses.count = reader.count
         /\ Refuses.frames = Append(reader.frames, "Err")
<1>1. reader \in Readers
  BY DEF TypeOK
<1>2. Append(reader.frames, "Err") \in Seq(Passed)
  BY <1>1, AppendProperties DEF Readers, Passed
<1> QED
  BY <1>1, <1>2 DEF Readers, Refuses

LEMMA PassesType ==
  ASSUME TypeOK, NEW frame \in Kinds, reader.count # 2
  PROVE  /\ Passes(frame) \in Readers /\ Passes(frame).count = reader.count + 1
         /\ Passes(frame).alive = reader.alive
         /\ Passes(frame).frames = Append(reader.frames, frame)
<1>1. reader \in Readers
  BY DEF TypeOK
<1>2. Append(reader.frames, frame) \in Seq(Passed)
  BY <1>1, AppendProperties DEF Readers, Passed
<1>3. reader.count + 1 \in 0..2
  BY <1>1 DEF Readers
<1> QED
  BY <1>1, <1>2, <1>3 DEF Readers, Passes
Steps == {"check", "receive", "streams", "exit"}

\* A step of the caller keeps the types of what only others write.
LEMMA CallerTypes ==
  ASSUME TypeOK, UNCHANGED <<outside, pipes>>, call' \in Calls, host' \in Hosts, descendant' \in BOOLEAN,
         writer' \in Writers, reader' \in Readers, stderr' \in Stderrs
  PROVE  TypeOK'
BY DEF TypeOK, outside, pipes

\* Every action keeps the types.
LEMMA NextPreservesType == TypeOK /\ [Next]_vars => TypeOK'
<1> SUFFICES ASSUME TypeOK, [Next]_vars PROVE TypeOK'
  OBVIOUS
<1>a. /\ call \in Calls /\ host \in Hosts /\ descendant \in BOOLEAN /\ writer \in Writers
      /\ reader \in Readers /\ stderr \in Stderrs /\ stdin \in Stdins
      /\ stdout \in Seq(Kinds) /\ wrote \in Seq(Kinds)
  BY DEF TypeOK
<1>b. /\ {"Unavailable", "Failed", "InvalidOutput", "Timeout"} \subseteq Answers
      /\ Interruption \in Answers
  BY InterruptionIsAnswer DEF Answers
<1>c. call.pc \in Places
  BY <1>a DEF Calls
<1>d. \A ret \in Answers : Return(ret) => call' \in Calls
  BY DEF Return, Calls, Places
<1>e. \A ret \in Answers : Abort(ret) =>
         call' \in Calls /\ host' \in Hosts /\ descendant' = descendant /\ writer' \in Writers
  BY AbortKeepsTypes
<1>f. \A pc \in Places, step \in {"check", "receive", "streams", "exit"} : Goto(pc, step) => call' \in Calls
  BY GotoKeepsTypes
<1>1. CASE Verify
  <2>1. call' \in Calls
    BY <1>1, <1>b, <1>d, <1>f DEF Verify, Places, BeforeThreads
  <2> QED
    BY <1>1, <1>a, <2>1, CallerTypes DEF Verify, process
<1>2. CASE Spawn
  <2>1. call' \in Calls
    BY <1>2, <1>b, <1>d, <1>f DEF Spawn, Places, BeforeThreads
  <2>2. host' \in Hosts
    BY <1>2, <1>a DEF Spawn, Hosts
  <2> QED
    BY <1>2, <1>a, <2>1, <2>2, CallerTypes DEF Spawn
<1>3. CASE VerifyAgain
  <2>1. CASE (Abort(Interruption) \/ Abort("Unavailable")) /\ UNCHANGED <<reader, stderr>>
    BY <1>3, <1>a, <1>b, <1>e, <2>1, CallerTypes DEF VerifyAgain
  <2>2. CASE Start
    <3>1. call' \in Calls
      BY <2>2, <1>f DEF Start, Places, Conversation
    <3>2. writer' \in Writers /\ reader' \in Readers /\ stderr' \in Stderrs
      BY <2>2, <1>a DEF Start, Writers, Readers, Stderrs
    <3>3. UNCHANGED <<outside, pipes, process>>
      BY <1>3, <2>2 DEF VerifyAgain, Start
    <3> QED
      BY <1>a, <3>1, <3>2, <3>3, CallerTypes DEF process
  <2> QED
    BY <1>3, <2>1, <2>2 DEF VerifyAgain
<1>4. CASE Write("request", "request written")
  <2>1. CASE Abort(Interruption) \/ Abort("Failed")
    BY <1>4, <1>a, <1>b, <1>e, <2>1, CallerTypes DEF Write
  <2>2. CASE writer' = [writer EXCEPT !.jobs = @ + 1] /\ Goto("request written", "check") /\ UNCHANGED process
    <3>1. call' \in Calls
      BY <2>2, <1>f DEF Places, Conversation
    <3>2. writer' \in Writers
      <4>1. writer.jobs + 1 \in Nat
        BY <1>a DEF Writers
      <4> QED
        BY <2>2, <1>a, <4>1 DEF Writers
    <3> QED
      BY <1>4, <1>a, <2>2, <3>1, <3>2, CallerTypes DEF Write, process
  <2> QED
    BY <1>4, <2>1, <2>2 DEF Write
<1>5. CASE Written("request written", "preflight")
  <2>1. CASE Abort("Failed")
    BY <1>5, <1>a, <1>b, <1>e, <2>1, CallerTypes DEF Written
  <2>2. CASE /\ Goto("preflight", "check") /\ UNCHANGED process
             /\ writer' = [writer EXCEPT !.results = <<>>, !.hungup = ("request written" = "execute written")]
    <3>1. call' \in Calls
      BY <2>2, <1>f DEF Places, Conversation
    <3>2. writer' \in Writers
      <4>1. <<>> \in Seq({"Ok", "Failed"})
        BY EmptySeq
      <4> QED
        BY <2>2, <1>a, <4>1 DEF Writers
    <3> QED
      BY <1>5, <1>a, <2>2, <3>1, <3>2, CallerTypes DEF Written, process
  <2> QED
    BY <1>5, <2>1, <2>2 DEF Written
<1>6. CASE Received("preflight", "preflight", "execute")
  <2>1. CASE Abort("InvalidOutput") /\ UNCHANGED reader
    BY <1>6, <1>a, <1>b, <1>e, <2>1, CallerTypes DEF Received
  <2>2. CASE /\ Goto("execute", "check") /\ reader.frames # <<>>
             /\ reader' = [reader EXCEPT !.frames = Tail(@)] /\ UNCHANGED <<process, writer>>
    <3>1. call' \in Calls
      BY <2>2, <1>f DEF Places, Conversation
    <3>2. reader' \in Readers
      <4>1. Tail(reader.frames) \in Seq(Passed)
        BY <2>2, <1>a, HeadTailProperties DEF Readers
      <4> QED
        BY <2>2, <1>a, <4>1 DEF Readers
    <3> QED
      BY <1>6, <1>a, <2>2, <3>1, <3>2, CallerTypes DEF Received, process
  <2> QED
    BY <1>6, <2>1, <2>2 DEF Received
<1>7. CASE Write("execute", "execute written")
  <2>1. CASE Abort(Interruption) \/ Abort("Failed")
    BY <1>7, <1>a, <1>b, <1>e, <2>1, CallerTypes DEF Write
  <2>2. CASE writer' = [writer EXCEPT !.jobs = @ + 1] /\ Goto("execute written", "check") /\ UNCHANGED process
    <3>1. call' \in Calls
      BY <2>2, <1>f DEF Places, Conversation
    <3>2. writer' \in Writers
      <4>1. writer.jobs + 1 \in Nat
        BY <1>a DEF Writers
      <4> QED
        BY <2>2, <1>a, <4>1 DEF Writers
    <3> QED
      BY <1>7, <1>a, <2>2, <3>1, <3>2, CallerTypes DEF Write, process
  <2> QED
    BY <1>7, <2>1, <2>2 DEF Write
<1>8. CASE Written("execute written", "result")
  <2>1. CASE Abort("Failed")
    BY <1>8, <1>a, <1>b, <1>e, <2>1, CallerTypes DEF Written
  <2>2. CASE /\ Goto("result", "check") /\ UNCHANGED process
             /\ writer' = [writer EXCEPT !.results = <<>>, !.hungup = ("execute written" = "execute written")]
    <3>1. call' \in Calls
      BY <2>2, <1>f DEF Places, Conversation
    <3>2. writer' \in Writers
      <4>1. <<>> \in Seq({"Ok", "Failed"})
        BY EmptySeq
      <4> QED
        BY <2>2, <1>a, <4>1 DEF Writers
    <3> QED
      BY <1>8, <1>a, <2>2, <3>1, <3>2, CallerTypes DEF Written, process
  <2> QED
    BY <1>8, <2>1, <2>2 DEF Written
<1>9. CASE Received("result", "result", "wait")
  <2>1. CASE Abort("InvalidOutput") /\ UNCHANGED reader
    BY <1>9, <1>a, <1>b, <1>e, <2>1, CallerTypes DEF Received
  <2>2. CASE /\ Goto("wait", "check") /\ reader.frames # <<>>
             /\ reader' = [reader EXCEPT !.frames = Tail(@)] /\ UNCHANGED <<process, writer>>
    <3>1. call' \in Calls
      BY <2>2, <1>f DEF Places, Conversation
    <3>2. reader' \in Readers
      <4>1. Tail(reader.frames) \in Seq(Passed)
        BY <2>2, <1>a, HeadTailProperties DEF Readers
      <4> QED
        BY <2>2, <1>a, <4>1 DEF Readers
    <3> QED
      BY <1>9, <1>a, <2>2, <3>1, <3>2, CallerTypes DEF Received, process
  <2> QED
    BY <1>9, <2>1, <2>2 DEF Received
<1>10. CASE Poll
  <2>1. CASE Abort(Interruption)
    BY <1>10, <1>a, <1>b, <1>e, <2>1, CallerTypes DEF Poll
  <2>2. CASE Goto(call.pc, "receive") /\ UNCHANGED <<process, writer>>
    <3>1. call' \in Calls
      BY <1>10, <2>2, <1>c, <1>f DEF Places, Conversation, Draining
    <3> QED
      BY <1>10, <1>a, <2>2, <3>1, CallerTypes DEF Poll, process
  <2> QED
    BY <1>10, <2>1, <2>2 DEF Poll
<1>11. CASE PollAgain
  <2>1. call' \in Calls
    BY <1>11, <1>c, <1>f DEF PollAgain
  <2> QED
    BY <1>11, <1>a, <2>1, CallerTypes DEF PollAgain, process
<1>12. CASE Wait
  <2>1. CASE Abort(Interruption)
    BY <1>12, <1>a, <1>b, <1>e, <2>1, CallerTypes DEF Wait
  <2>2. CASE Goto("wait", "streams") /\ UNCHANGED <<process, writer>>
    <3>1. call' \in Calls
      BY <1>12, <2>2, <1>c, <1>f DEF Places, Conversation, Draining
    <3> QED
      BY <1>12, <1>a, <2>2, <3>1, CallerTypes DEF Wait, process
  <2> QED
    BY <1>12, <2>1, <2>2 DEF Wait
<1>13. CASE CheckStreams
  <2>1. CASE Abort("InvalidOutput") /\ UNCHANGED stderr
    BY <1>13, <1>a, <1>b, <1>e, <2>1, CallerTypes DEF CheckStreams
  <2>2. CASE /\ Goto("wait", "exit") /\ stderr' = [stderr EXCEPT !.result = "none"]
             /\ UNCHANGED <<process, writer>>
    <3>1. call' \in Calls
      BY <2>2, <1>f DEF Places
    <3>2. stderr' \in Stderrs
      BY <2>2, <1>a DEF Stderrs
    <3> QED
      BY <1>13, <1>a, <2>2, <3>1, <3>2, CallerTypes DEF CheckStreams, process
  <2> QED
    BY <1>13, <2>1, <2>2 DEF CheckStreams
<1>14. CASE TryWait
  <2>1. CASE Abort("Failed")
    BY <1>14, <1>a, <1>b, <1>e, <2>1, CallerTypes DEF TryWait
  <2>2. CASE Goto(IF host = "running" THEN "wait" ELSE "drain stdout", "check") /\ UNCHANGED <<process, writer>>
    <3>1. call' \in Calls
      BY <1>14, <2>2, <1>c, <1>f DEF Places, Conversation, Draining
    <3> QED
      BY <1>14, <1>a, <2>2, <3>1, CallerTypes DEF TryWait, process
  <2> QED
    BY <1>14, <2>1, <2>2 DEF TryWait
<1>15. CASE DrainStdout
  <2>1. CASE Abort("Timeout") \/ Abort("InvalidOutput")
    BY <1>15, <1>a, <1>b, <1>e, <2>1, CallerTypes DEF DrainStdout
  <2>2. CASE Goto("drain stderr", "check") /\ UNCHANGED <<process, writer>>
    <3>1. call' \in Calls
      BY <1>15, <2>2, <1>c, <1>f DEF Places, Conversation, Draining
    <3> QED
      BY <1>15, <1>a, <2>2, <3>1, CallerTypes DEF DrainStdout, process
  <2> QED
    BY <1>15, <2>1, <2>2 DEF DrainStdout
<1>16. CASE DrainStderr
  <2>1. CASE Abort("Timeout") \/ Abort("InvalidOutput")
    BY <1>16, <1>a, <1>b, <1>e, <2>1, CallerTypes DEF DrainStderr
  <2>2. CASE Return(IF host = "exited" THEN "Ok" ELSE "Failed") /\ UNCHANGED <<process, writer>>
    <3>1. call' \in Calls
      BY <2>2, <1>d DEF Answers
    <3> QED
      BY <1>16, <1>a, <2>2, <3>1, CallerTypes DEF DrainStderr, process
  <2> QED
    BY <1>16, <2>1, <2>2 DEF DrainStderr
<1>17. CASE WriterStep
  <2>1. /\ Append(writer.results, "Ok") \in Seq({"Ok", "Failed"})
        /\ Append(writer.results, "Failed") \in Seq({"Ok", "Failed"})
    BY <1>a, AppendProperties DEF Writers
  <2>2. UNCHANGED <<call, outside, process, stdout, wrote, reader, stderr>>
    BY <1>17 DEF WriterStep
  <2>3. stdin' \in Stdins /\ writer' \in Writers
    <3>1. CASE /\ stdin' = [stdin EXCEPT !.full = @ + 1] /\ writer.jobs > 0
               /\ writer' = [writer EXCEPT !.jobs = @ - 1, !.results = Append(@, "Ok")]
      <4>1. stdin' \in Stdins
        BY <3>1, <1>a DEF Stdins
      <4>2. writer.jobs - 1 \in Nat
        BY <3>1, <1>a DEF Writers
      <4>3. writer' \in Writers
        BY <3>1, <4>2, <2>1, <1>a DEF Writers
      <4> QED
        BY <4>1, <4>3
    <3>2. CASE /\ stdin' = [stdin EXCEPT !.ended = TRUE]
               /\ \/ writer' = [writer EXCEPT !.alive = FALSE]
                  \/ writer' = [writer EXCEPT !.alive = FALSE, !.results = Append(@, "Failed")]
      <4>1. stdin' \in Stdins
        BY <3>2, <1>a DEF Stdins
      <4>2. writer' \in Writers
        BY <3>2, <2>1, <1>a DEF Writers
      <4> QED
        BY <4>1, <4>2
    <3> QED
      BY <1>17, <3>1, <3>2, Zenon DEF WriterStep
  <2> QED
    BY <2>2, <2>3 DEF TypeOK, outside, process
<1>18. CASE ReaderStep
  <2>1. reader' \in Readers /\ stdout' \in Seq(Kinds)
    <3>1. CASE stdout # <<>> /\ stdout' = Tail(stdout)
      <4>1. Head(stdout) \in Kinds /\ Tail(stdout) \in Seq(Kinds)
        BY <1>a, <3>1, HeadTailProperties
      <4>2. Refuses \in Readers /\ (reader.count # 2 => Passes(Head(stdout)) \in Readers)
        BY <4>1, RefusesType, PassesType
      <4>3. Frames(Head(stdout)) \in Readers
        BY <4>2, FramesIsEither
      <4>4. [reader EXCEPT !.alive = FALSE] \in Readers
        BY <1>a DEF Readers
      <4> QED
        BY <1>18, <3>1, <4>1, <4>2, <4>3, <4>4 DEF ReaderStep, Refuses
    <3>2. CASE UNCHANGED stdout
      <4>1. [reader EXCEPT !.alive = FALSE] \in Readers
        BY <1>a DEF Readers
      <4>2. Refuses \in Readers
        BY RefusesType
      <4>3. \/ reader' = [reader EXCEPT !.alive = FALSE]
            \/ reader' = [reader EXCEPT !.alive = FALSE, !.frames = IF reader.count = 2 THEN @ ELSE Append(@, "Err")]
        BY <1>18, <1>a, <3>2 DEF ReaderStep
      <4>4. [reader EXCEPT !.alive = FALSE, !.frames = IF reader.count = 2 THEN @ ELSE Append(@, "Err")] \in Readers
        BY <1>a, <4>1, <4>2 DEF Refuses
      <4> QED
        BY <1>a, <3>2, <4>1, <4>3, <4>4
    <3> QED
      BY <1>18, <3>1, <3>2 DEF ReaderStep
  <2> QED
    BY <1>18, <2>1 DEF ReaderStep, TypeOK, outside, process
<1>19. CASE StderrStep \/ StderrOverflows
  <2>1. stderr' = [alive |-> FALSE, result |-> "Ok"] \/ stderr' = [alive |-> FALSE, result |-> "Err"]
    BY <1>19 DEF StderrStep, StderrOverflows
  <2>2. /\ [alive |-> FALSE, result |-> "Ok"] \in Stderrs
        /\ [alive |-> FALSE, result |-> "Err"] \in Stderrs
    BY DEF Stderrs
  <2>3. stderr' \in Stderrs
    BY <2>1, <2>2
  <2> QED
    BY <1>19, <2>3 DEF StderrStep, StderrOverflows, TypeOK, outside, process, pipes
<1>20. CASE HostReads
  <2>1. stdin' \in Stdins
    BY <1>20, <1>a DEF HostReads, Stdins
  <2> QED
    BY <1>20, <2>1 DEF HostReads, TypeOK, outside, process
<1>21. ASSUME NEW kind \in Kinds, HostWrites(kind) PROVE TypeOK'
  <2>1. stdout' \in Seq(Kinds) /\ wrote' \in Seq(Kinds)
    BY <1>21, <1>a, AppendProperties DEF HostWrites
  <2> QED
    BY <1>21, <2>1 DEF HostWrites, TypeOK, outside, process
<1>22. CASE HostForks \/ HostExits \/ DescendantExits
  <2>1. host' \in Hosts /\ descendant' \in BOOLEAN
    BY <1>22, <1>a DEF HostForks, HostExits, DescendantExits, Hosts
  <2> QED
    BY <1>22, <2>1 DEF HostForks, HostExits, DescendantExits, TypeOK, outside, pipes
<1>23. CASE Deadline \/ Cancel
  BY <1>23 DEF Deadline, Cancel, TypeOK, process, pipes
<1>24. CASE UNCHANGED vars
  BY <1>24 DEF vars, TypeOK, outside, process, pipes
<1> QED
  BY <1>1, <1>2, <1>3, <1>4, <1>5, <1>6, <1>7, <1>8, <1>9, <1>10, <1>11, <1>12, <1>13, <1>14, <1>15, <1>16, <1>17, <1>18, <1>19, <1>20, <1>21, <1>22, <1>23, <1>24 DEF Next, Caller
(***************************************************************************)
(* Every action keeps the invariant                                        *)
(***************************************************************************)
\* Giving the conversation up keeps the invariant, wherever the caller was.
LEMMA AbortKeeps ==
  ASSUME IInv, TypeOK', NEW ret \in Answers \ {"Ok"}, Abort(ret), UNCHANGED outside
  PROVE  IInv'
<1>1. call' = [pc |-> "done", step |-> "check", ret |-> ret] /\ host' = Killed
  BY AbortKeepsTypes DEF IInv
<1>2. HostInv'
  BY <1>1 DEF HostInv, Killed, BeforeHost
<1>3. EarlyInv' /\ OkIsWhole' /\ FrameInv'
  BY <1>1 DEF IInv, EarlyInv, OkIsWhole, FrameInv, outside, Draining
<1> QED
  BY <1>2, <1>3 DEF IInv

\* The frames stay in order while nobody touches them.
LEMMA FramesUntouched ==
  ASSUME TakenInv, ChannelInv, PipeInv, Taken' = Taken, UNCHANGED <<stdout, wrote, reader>>
  PROVE  TakenInv' /\ ChannelInv' /\ PipeInv'
<1>1. TakenInv'
  BY DEF TakenInv
<1>2. ChannelInv'
  BY DEF ChannelInv
<1>3. PipeInv'
  BY DEF PipeInv, Clean
<1> QED
  BY <1>1, <1>2, <1>3

\* The caller goes from one place of the conversation to another.
LEMMA GotoKeeps ==
  ASSUME IInv, TypeOK', NEW pc \in Conversation \cup {"wait"}, NEW step \in Steps, Goto(pc, step),
         call.pc \in Conversation \cup {"wait"}, Taken' = Taken,
         early /\ pc = "wait" => step = "check",
         UNCHANGED <<outside, process, pipes, reader>>
  PROVE  IInv'
<1>1. pc \in Places
  BY DEF Places
<1>2. call' = [pc |-> pc, step |-> step, ret |-> call.ret]
  BY <1>1, GotoKeepsTypes DEF IInv, Steps
<1>3. /\ call.pc \notin BeforeThreads \cup Draining \cup {"done"}
      /\ pc \notin BeforeThreads \cup Draining \cup {"done"}
  BY DEF Conversation, BeforeThreads, Draining
<1>4. call.ret = "none"
  BY <1>3 DEF IInv, HostInv
<1>5. TakenInv' /\ ChannelInv' /\ PipeInv'
  BY <1>3, FramesUntouched DEF IInv, FrameInv, pipes
<1>6. ReaderInv'
  BY <1>2, <1>3 DEF IInv, FrameInv, ReaderInv, Clean, HoldsPipes, process, pipes, Draining
<1>7. HostInv'
  BY <1>2, <1>3, <1>4 DEF HostInv, BeforeHost, BeforeThreads
<1>8. EarlyInv' /\ OkIsWhole'
  BY <1>2, <1>3, <1>4 DEF IInv, EarlyInv, OkIsWhole, outside
<1> QED
  BY <1>5, <1>6, <1>7, <1>8 DEF IInv, FrameInv

\* The caller takes the frame it was waiting for.
LEMMA TakeKeeps ==
  ASSUME IInv, TypeOK', NEW kind, NEW pc,
         \/ call.pc = "preflight" /\ kind = "preflight" /\ pc = "execute"
         \/ call.pc = "result" /\ kind = "result" /\ pc = "wait",
         reader.frames # <<>>, Head(reader.frames) = kind, Goto(pc, "check"),
         reader' = [reader EXCEPT !.frames = Tail(@)],
         UNCHANGED <<outside, process, pipes>>
  PROVE  IInv'
<1>1. pc \in Places /\ pc \in Conversation \cup {"wait"} /\ call.pc \in Conversation /\ kind \in Kinds
  BY DEF Places, Conversation, Kinds
<1>2. call' = [pc |-> pc, step |-> "check", ret |-> call.ret]
  BY <1>1, GotoKeepsTypes DEF IInv
<1>3. /\ call.pc \notin BeforeThreads \cup Draining \cup {"done"}
      /\ pc \notin BeforeThreads \cup Draining \cup {"done"}
  BY DEF Conversation, BeforeThreads, Draining
<1>4. call.ret = "none"
  BY <1>3 DEF IInv, HostInv
<1>5. reader.frames \in Seq(Passed) /\ reader.count \in 0..2 /\ wrote \in Seq(Kinds)
  BY DEF IInv, TypeOK, Readers
<1>6. /\ reader'.frames = Tail(reader.frames) /\ reader'.count = reader.count /\ reader'.alive = reader.alive
  BY DEF IInv, TypeOK, Readers
<1>7. /\ Len(reader.frames) \in Nat \ {0} /\ Len(reader'.frames) = Len(reader.frames) - 1
      /\ \A i \in 1..Len(reader'.frames) : reader'.frames[i] = reader.frames[i + 1]
  BY <1>5, <1>6, HeadTailProperties, EmptySeq
<1>8. reader.frames[1] = kind /\ kind # "Err"
  BY <1>5 DEF Kinds
<1>9. Taken' = Taken + 1 /\ Taken \in {0, 1} /\ (kind = IF Taken = 0 THEN "preflight" ELSE "result")
  <2>1. CASE call.pc = "preflight" /\ kind = "preflight" /\ pc = "execute"
    <3>1. Taken = 0 /\ Taken' = 1
      BY <2>1, <1>2 DEF Taken, Draining
    <3> QED
      BY <2>1, <3>1
  <2>2. CASE call.pc = "result" /\ kind = "result" /\ pc = "wait"
    <3>1. Taken = 1 /\ Taken' = 2
      BY <2>2, <1>2 DEF Taken, Draining
    <3> QED
      BY <2>2, <3>1
  <2> QED
    BY <2>1, <2>2
<1>10. TakenInv /\ ChannelInv /\ PipeInv /\ ReaderInv
  BY <1>3 DEF IInv, FrameInv
<1>11. Len(wrote) \in Nat /\ UNCHANGED <<wrote, stdout>>
  BY <1>5, LenProperties DEF pipes
<1>12. TakenInv'
  <2>1. Taken + 1 <= Len(wrote) /\ wrote[Taken + 1] = kind
    BY <1>7, <1>8, <1>10 DEF ChannelInv
  <2> QED
    BY <2>1, <1>9, <1>10, <1>11 DEF TakenInv
<1>13. ChannelInv'
  <2>1. SUFFICES ASSUME NEW i \in 1..Len(reader'.frames), reader'.frames[i] # "Err"
                 PROVE  Taken' + i <= Len(wrote) /\ reader'.frames[i] = wrote[Taken' + i]
    BY <1>11 DEF ChannelInv
  <2>2. i + 1 \in 1..Len(reader.frames) /\ reader'.frames[i] = reader.frames[i + 1]
    BY <1>7
  <2>3. Taken + (i + 1) <= Len(wrote) /\ reader.frames[i + 1] = wrote[Taken + (i + 1)]
    BY <2>1, <2>2, <1>10 DEF ChannelInv
  <2>4. Taken + (i + 1) = Taken' + i
    BY <1>9
  <2> QED
    BY <2>2, <2>3, <2>4
<1>14. Clean' => Clean
  <2>1. SUFFICES ASSUME Clean', NEW i \in 1..Len(reader.frames) PROVE reader.frames[i] # "Err"
    BY DEF Clean
  <2>2. CASE i = 1
    BY <2>2, <1>8
  <2>3. CASE i # 1
    <3>1. i - 1 \in 1..Len(reader'.frames) /\ (i - 1) + 1 = i
      BY <2>3, <1>7
    <3>2. reader'.frames[i - 1] # "Err"
      BY <2>1, <3>1 DEF Clean
    <3> QED
      BY <3>1, <3>2, <1>7
  <2> QED
    BY <2>2, <2>3
<1>15. PipeInv'
  BY <1>6, <1>7, <1>9, <1>10, <1>11, <1>14 DEF PipeInv
<1>16. Clean => Clean'
  BY <1>7 DEF Clean
<1>17. ReaderInv'
  <2>1. ~ reader.alive => ~ Clean \/ (reader.count = 2 /\ stdout = <<>> /\ ~ HoldsPipes)
    BY <1>3, <1>10 DEF ReaderInv
  <2>2. HoldsPipes' = HoldsPipes
    BY DEF HoldsPipes, process
  <2> QED
    BY <1>2, <1>3, <1>6, <1>10, <1>11, <1>14, <1>16, <2>1, <2>2 DEF ReaderInv, Draining
<1>18. HostInv'
  BY <1>2, <1>3, <1>4 DEF HostInv, BeforeHost, BeforeThreads
<1>19. EarlyInv' /\ OkIsWhole'
  BY <1>2, <1>3, <1>4 DEF IInv, EarlyInv, OkIsWhole, outside
<1> QED
  BY <1>12, <1>13, <1>15, <1>17, <1>18, <1>19 DEF IInv, FrameInv
\* A longer channel
LEMMA Longer ==
  ASSUME NEW S, NEW seq \in Seq(S), NEW e \in S
  PROVE  /\ Len(seq) \in Nat /\ Len(Append(seq, e)) = Len(seq) + 1
         /\ \A i \in 1..Len(seq) : Append(seq, e)[i] = seq[i]
         /\ Append(seq, e)[Len(seq) + 1] = e
         /\ Len(seq) + 1 \in 1..Len(Append(seq, e))
         /\ \A i \in 1..Len(Append(seq, e)) : i \in 1..Len(seq) \/ i = Len(seq) + 1
<1>1. Len(seq) \in Nat /\ Len(Append(seq, e)) = Len(seq) + 1
  BY AppendProperties, LenProperties
<1>2. (\A i \in 1..Len(seq) : Append(seq, e)[i] = seq[i]) /\ Append(seq, e)[Len(seq) + 1] = e
  BY AppendProperties
<1> QED
  BY <1>1, <1>2

\* One more was taken from the pipe and passed on: the sums stay.
LEMMA SumsStay ==
  ASSUME NEW frames \in Nat, NEW taken \in Nat, NEW count \in Nat, NEW rest \in Nat,
         NEW written, frames + taken = count, written = count + rest
  PROVE  (frames + 1) + taken = count + 1 /\ written = (count + 1) + (rest - 1)
OBVIOUS

\* The reader refuses a frame, or finds the end too early.
LEMMA RefusesKeeps ==
  ASSUME TypeOK, TakenInv, ChannelInv, call.pc \notin BeforeThreads, call.pc # "drain stderr",
         UNCHANGED <<call, wrote>>, reader' = Refuses
  PROVE  TakenInv' /\ ChannelInv' /\ PipeInv' /\ ReaderInv'
<1>1. /\ reader' \in Readers /\ reader'.count = reader.count
      /\ reader'.frames = Append(reader.frames, "Err")
  BY RefusesType
<1>2. reader.frames \in Seq(Passed) /\ "Err" \in Passed
  BY DEF TypeOK, Readers, Passed
<1>3. /\ Len(reader.frames) \in Nat /\ Len(reader'.frames) = Len(reader.frames) + 1
      /\ \A i \in 1..Len(reader.frames) : reader'.frames[i] = reader.frames[i]
      /\ reader'.frames[Len(reader.frames) + 1] = "Err"
      /\ Len(reader.frames) + 1 \in 1..Len(reader'.frames)
      /\ \A i \in 1..Len(reader'.frames) : i \in 1..Len(reader.frames) \/ i = Len(reader.frames) + 1
  <2>1. ASSUME NEW err \in Passed
        PROVE  LET longer == Append(reader.frames, err)
               IN  /\ Len(reader.frames) \in Nat /\ Len(longer) = Len(reader.frames) + 1
                   /\ \A i \in 1..Len(reader.frames) : longer[i] = reader.frames[i]
                   /\ longer[Len(reader.frames) + 1] = err
                   /\ Len(reader.frames) + 1 \in 1..Len(longer)
                   /\ \A i \in 1..Len(longer) : i \in 1..Len(reader.frames) \/ i = Len(reader.frames) + 1
    BY <1>2, Longer
  <2>2. LET longer == Append(reader.frames, "Err")
        IN  /\ Len(reader.frames) \in Nat /\ Len(longer) = Len(reader.frames) + 1
            /\ \A i \in 1..Len(reader.frames) : longer[i] = reader.frames[i]
            /\ longer[Len(reader.frames) + 1] = "Err"
            /\ Len(reader.frames) + 1 \in 1..Len(longer)
            /\ \A i \in 1..Len(longer) : i \in 1..Len(reader.frames) \/ i = Len(reader.frames) + 1
    BY <1>2, <2>1, Zenon
  <2>3. reader'.frames = Append(reader.frames, "Err")
    BY <1>1
  <2> QED
    BY <2>2, <2>3, Zenon
<1>4. Taken' = Taken
  BY DEF Taken
<1>5. ~ Clean'
  BY <1>3, Zenon DEF Clean
<1>6. TakenInv'
  BY <1>4 DEF TakenInv
<1>7. ChannelInv'
  <2>1. SUFFICES ASSUME NEW i \in 1..Len(reader'.frames), reader'.frames[i] # "Err"
                 PROVE  Taken' + i <= Len(wrote) /\ reader'.frames[i] = wrote[Taken' + i]
    BY DEF ChannelInv
  <2>3. i \in 1..Len(reader.frames)
    BY <1>3, <2>1, Zenon
  <2> QED
    BY <2>1, <2>3, <1>3, <1>4 DEF ChannelInv
<1>8. PipeInv' /\ ReaderInv'
  BY <1>5, RefusesType DEF PipeInv, ReaderInv
<1> QED
  BY <1>6, <1>7, <1>8

\* The reader passes the first frame of the pipe on.
LEMMA PassesKeeps ==
  ASSUME TypeOK, TakenInv, ChannelInv, PipeInv, ReaderInv, call.pc \notin BeforeThreads,
         reader.alive, reader.count # 2, stdout # <<>>, stdout' = Tail(stdout),
         UNCHANGED <<call, wrote>>, reader' = Passes(Head(stdout))
  PROVE  TakenInv' /\ ChannelInv' /\ PipeInv' /\ ReaderInv'
<1>0. stdout \in Seq(Kinds) /\ Head(stdout) \in Kinds
  BY HeadTailProperties DEF TypeOK
<1>1. /\ reader' \in Readers /\ reader'.count = reader.count + 1 /\ reader'.alive = reader.alive
      /\ reader'.frames = Append(reader.frames, Head(stdout))
  BY <1>0, PassesType
<1>2. reader.frames \in Seq(Passed) /\ Head(stdout) \in Passed /\ reader.count \in 0..1
  BY <1>0 DEF TypeOK, Readers, Passed
<1>3. /\ Len(reader.frames) \in Nat /\ Len(reader'.frames) = Len(reader.frames) + 1
      /\ \A i \in 1..Len(reader.frames) : reader'.frames[i] = reader.frames[i]
      /\ reader'.frames[Len(reader.frames) + 1] = Head(stdout)
  BY <1>1, <1>2, AppendProperties, LenProperties, SMTT(60)
<1>4. /\ Len(stdout) \in Nat \ {0} /\ Len(stdout') = Len(stdout) - 1 /\ Head(stdout) = stdout[1]
      /\ \A i \in 1..Len(stdout') : stdout'[i] = stdout[i + 1]
  BY <1>0, HeadTailProperties, EmptySeq
<1>5. Taken' = Taken /\ Taken \in 0..2
  BY DEF Taken
<1>6. TakenInv'
  BY <1>5 DEF TakenInv
<1>7. Clean' => Clean
  BY <1>3 DEF Clean
<1>8. ChannelInv'
  <2>1. SUFFICES ASSUME NEW i \in 1..Len(reader'.frames), reader'.frames[i] # "Err"
                 PROVE  Taken + i <= Len(wrote) /\ reader'.frames[i] = wrote[Taken + i]
    BY <1>5 DEF ChannelInv
  <2>2. CASE i \in 1..Len(reader.frames)
    BY <2>1, <2>2, <1>3 DEF ChannelInv
  <2>3. CASE i = Len(reader.frames) + 1 /\ Clean
    <3>1. Taken + i = reader.count + 1 /\ Len(wrote) = reader.count + Len(stdout)
      BY <2>3, <1>2, <1>3, <1>5 DEF PipeInv
    <3>2. stdout[1] = wrote[reader.count + 1]
      BY <2>3, <1>4 DEF PipeInv
    <3> QED
      BY <2>3, <3>1, <3>2, <1>2, <1>3, <1>4
  <2>4. i \in 1..Len(reader.frames) \/ i = Len(reader.frames) + 1
    BY <1>3
  <2> QED
    BY <2>2, <2>3, <2>4 DEF ReaderInv
<1>9. PipeInv'
  <2>1. SUFFICES ASSUME Clean
                 PROVE  /\ Len(reader'.frames) + Taken = reader.count + 1
                        /\ Len(wrote) = (reader.count + 1) + Len(stdout')
                        /\ \A i \in 1..Len(stdout') : stdout'[i] = wrote[(reader.count + 1) + i]
    BY <1>1, <1>5, <1>7 DEF PipeInv
  <2>2. Len(reader'.frames) + Taken = reader.count + 1 /\ Len(wrote) = (reader.count + 1) + Len(stdout')
    <3>1. Len(reader.frames) + Taken = reader.count /\ Len(wrote) = reader.count + Len(stdout)
      BY <2>1 DEF PipeInv
    <3>2. reader.count \in Nat /\ Len(stdout) \in Nat /\ Len(reader.frames) \in Nat /\ Taken \in Nat
      BY <1>2, <1>3, <1>4, <1>5
    <3>3. Len(reader'.frames) = Len(reader.frames) + 1 /\ Len(stdout') = Len(stdout) - 1
      BY <1>3, <1>4
    <3>4. /\ (Len(reader.frames) + 1) + Taken = reader.count + 1
          /\ Len(wrote) = (reader.count + 1) + (Len(stdout) - 1)
      BY <3>1, <3>2, SumsStay
    <3> QED
      BY <3>3, <3>4, Zenon
  <2>3. ASSUME NEW i \in 1..Len(stdout') PROVE stdout'[i] = wrote[(reader.count + 1) + i]
    <3>1. i + 1 \in 1..Len(stdout) /\ reader.count + (i + 1) = (reader.count + 1) + i
      BY <1>2, <1>4
    <3> QED
      BY <2>1, <3>1, <1>4 DEF PipeInv
  <2> QED
    BY <2>2, <2>3
<1>10. Clean'
  <2>1. ASSUME NEW i \in 1..Len(reader'.frames) PROVE reader'.frames[i] # "Err"
    <3>1. Head(stdout) # "Err"
      BY <1>0 DEF Kinds
    <3>2. i \in 1..Len(reader.frames) \/ i = Len(reader.frames) + 1
      BY <1>3
    <3>3. i \in 1..Len(reader.frames) => reader.frames[i] # "Err"
      BY DEF ReaderInv, Clean
    <3> QED
      BY <3>1, <3>2, <3>3, <1>3
  <2> QED
    BY <2>1 DEF Clean
<1>11. ReaderInv'
  BY <1>1, <1>10 DEF ReaderInv
<1> QED
  BY <1>6, <1>8, <1>9, <1>11
LEMMA ReaderStepKeeps == IInv /\ TypeOK' /\ ReaderStep => IInv'
<1> SUFFICES ASSUME IInv, TypeOK', ReaderStep PROVE IInv'
  OBVIOUS
<1>1. UNCHANGED <<call, outside, process, wrote, stderr>> /\ reader.alive
  BY DEF ReaderStep
<1>2. HostInv' /\ EarlyInv'
  BY <1>1 DEF IInv, HostInv, EarlyInv, outside, process
<1>3. OkIsWhole'
  BY <1>1 DEF IInv, OkIsWhole
<1>4. FrameInv'
  <2>1. CASE call.pc = "done"
    BY <1>1, <2>1 DEF FrameInv
  <2>2. CASE call.pc # "done"
    <3>0. TypeOK /\ TakenInv /\ ChannelInv /\ PipeInv /\ ReaderInv
      BY <2>2 DEF IInv, FrameInv
    <3>1. call.pc \notin BeforeThreads /\ call.pc # "drain stderr"
      <4>1. [count |-> 0, frames |-> <<>>, alive |-> FALSE].alive = FALSE
        OBVIOUS
      <4>2. call.pc \in BeforeThreads => ~ reader.alive
        BY <3>0, <4>1, Zenon DEF ReaderInv
      <4> QED
        BY <1>1, <3>0, <4>2, Zenon DEF ReaderInv
    <3>2. CASE reader' = Refuses
      BY <1>1, <3>0, <3>1, <3>2, RefusesKeeps DEF FrameInv
    <3>3. CASE stdout # <<>> /\ reader' = Frames(Head(stdout)) /\ stdout' = Tail(stdout) /\ reader.count # 2
      <4>1. reader' = Passes(Head(stdout))
        BY <3>3, FramesIsEither
      <4> QED
        BY <1>1, <3>0, <3>1, <3>3, <4>1, PassesKeeps DEF FrameInv
    <3>4. CASE /\ stdout = <<>> /\ ~ HoldsPipes /\ reader.count = 2 /\ UNCHANGED stdout
               /\ reader' = [reader EXCEPT !.alive = FALSE,
                                           !.frames = IF reader.count = 2 THEN @ ELSE Append(@, "Err")]
      <4>1. reader \in Readers
        BY <3>0 DEF TypeOK
      <4>2. reader'.frames = reader.frames /\ reader'.count = reader.count /\ ~ reader'.alive
        BY <3>4, <4>1 DEF Readers
      <4>3. Taken' = Taken /\ Clean' = Clean /\ HoldsPipes' = HoldsPipes
        BY <1>1, <4>2 DEF Taken, Clean, HoldsPipes, process
      <4>4. TakenInv' /\ ChannelInv' /\ PipeInv'
        BY <1>1, <3>0, <3>4, <4>2, <4>3, ZenonT(60) DEF TakenInv, ChannelInv, PipeInv
      <4>5. ReaderInv'
        BY <1>1, <3>1, <3>4, <4>2, <4>3 DEF ReaderInv
      <4> QED
        BY <4>4, <4>5 DEF FrameInv
    <3>5. \/ reader' = Refuses
          \/ stdout # <<>> /\ reader' = Frames(Head(stdout)) /\ stdout' = Tail(stdout) /\ reader.count # 2
          \/ /\ stdout = <<>> /\ ~ HoldsPipes /\ reader.count = 2 /\ UNCHANGED stdout
             /\ reader' = [reader EXCEPT !.alive = FALSE,
                                         !.frames = IF reader.count = 2 THEN @ ELSE Append(@, "Err")]
      <4>1. reader.count = 2 => Frames(Head(stdout)) = Refuses
        BY FramesIsEither
      <4>2. CASE stdout # <<>>
        BY <2>2, <4>1, <4>2 DEF ReaderStep, Refuses
      <4>3. CASE stdout = <<>>
        BY <2>2, <4>3 DEF ReaderStep, Refuses
      <4> QED
        BY <4>2, <4>3
    <3> QED
      BY <3>2, <3>3, <3>4, <3>5
  <2> QED
    BY <2>1, <2>2
<1> QED
  BY <1>2, <1>3, <1>4 DEF IInv

LEMMA HostWritesKeeps ==
  ASSUME IInv, TypeOK', NEW kind \in Kinds, HostWrites(kind)
  PROVE  IInv'
<1>1. /\ UNCHANGED <<call, outside, process, reader, stderr>> /\ HoldsPipes
      /\ stdout' = Append(stdout, kind) /\ wrote' = Append(wrote, kind)
  BY DEF HostWrites
<1>2. call.pc \notin BeforeHost
  BY <1>1 DEF IInv, HostInv, HoldsPipes
<1>3. HostInv' /\ EarlyInv'
  BY <1>1, <1>2 DEF IInv, HostInv, EarlyInv, outside, process
<1>4. OkIsWhole'
  BY <1>1 DEF IInv, OkIsWhole, HoldsPipes
<1>5. FrameInv'
  <2>1. CASE call.pc = "done"
    BY <1>1, <2>1 DEF FrameInv
  <2>2. CASE call.pc # "done"
    <3>0. TakenInv /\ ChannelInv /\ PipeInv /\ ReaderInv
      BY <2>2 DEF IInv, FrameInv
    <3>1. wrote \in Seq(Kinds) /\ stdout \in Seq(Kinds) /\ reader.count \in 0..2
      BY DEF IInv, TypeOK, Readers
    <3>2. /\ Len(wrote) \in Nat /\ Len(wrote') = Len(wrote) + 1 /\ wrote'[Len(wrote) + 1] = kind
          /\ \A i \in 1..Len(wrote) : wrote'[i] = wrote[i]
      BY <1>1, <3>1, Longer
    <3>3. /\ Len(stdout) \in Nat /\ Len(stdout') = Len(stdout) + 1 /\ stdout'[Len(stdout) + 1] = kind
          /\ \A i \in 1..Len(stdout) : stdout'[i] = stdout[i]
      BY <1>1, <3>1, Longer
    <3>4. Taken' = Taken /\ Taken \in 0..2 /\ Clean' = Clean
      BY <1>1 DEF Taken, Clean
    <3>5. TakenInv'
      BY <3>0, <3>2, <3>4 DEF TakenInv
    <3>6. ChannelInv'
      <4>1. SUFFICES ASSUME NEW i \in 1..Len(reader.frames), reader.frames[i] # "Err"
                     PROVE  Taken + i <= Len(wrote') /\ reader.frames[i] = wrote'[Taken + i]
        BY <1>1, <3>4 DEF ChannelInv
      <4>2. Taken + i <= Len(wrote) /\ reader.frames[i] = wrote[Taken + i]
        BY <4>1, <3>0 DEF ChannelInv
      <4>3. Taken + i \in 1..Len(wrote)
        BY <4>2, <3>2, <3>4
      <4> QED
        BY <4>2, <4>3, <3>2
    <3>7. PipeInv'
      <4>1. SUFFICES ASSUME Clean
                     PROVE  /\ Len(reader.frames) + Taken = reader.count
                            /\ Len(wrote') = reader.count + Len(stdout')
                            /\ \A i \in 1..Len(stdout') : stdout'[i] = wrote'[reader.count + i]
        BY <1>1, <3>4 DEF PipeInv
      <4>2. /\ Len(reader.frames) + Taken = reader.count /\ Len(wrote) = reader.count + Len(stdout)
            /\ \A i \in 1..Len(stdout) : stdout[i] = wrote[reader.count + i]
        BY <4>1, <3>0 DEF PipeInv
      <4>3. Len(wrote') = reader.count + Len(stdout')
        BY <4>2, <3>1, <3>2, <3>3
      <4>4. ASSUME NEW i \in 1..Len(stdout') PROVE stdout'[i] = wrote'[reader.count + i]
        <5>1. CASE i \in 1..Len(stdout)
          <6>1. reader.count + i \in 1..Len(wrote)
            BY <5>1, <4>2, <3>1, <3>3
          <6> QED
            BY <5>1, <6>1, <4>2, <3>2, <3>3
        <5>2. CASE i = Len(stdout) + 1
          <6>1. reader.count + i = Len(wrote) + 1
            BY <5>2, <4>2, <3>1, <3>3
          <6> QED
            BY <5>2, <6>1, <3>2, <3>3
        <5> QED
          BY <5>1, <5>2, <3>3
      <4> QED
        BY <4>2, <4>3, <4>4
    <3>8. ReaderInv'
      BY <1>1, <3>0, <3>4 DEF ReaderInv, HoldsPipes, process
    <3> QED
      BY <3>5, <3>6, <3>7, <3>8 DEF FrameInv
  <2> QED
    BY <2>1, <2>2
<1> QED
  BY <1>3, <1>4, <1>5 DEF IInv
\* Every action keeps the invariant.
LEMMA NextPreserves == IInv /\ [Next]_vars => IInv'
<1> SUFFICES ASSUME IInv, [Next]_vars PROVE IInv'
  OBVIOUS
<1>0. TypeOK'
  BY NextPreservesType DEF IInv
<1>a. /\ TypeOK /\ HostInv /\ EarlyInv /\ OkIsWhole
      /\ (call.pc # "done" => TakenInv /\ ChannelInv /\ PipeInv /\ ReaderInv)
  BY DEF IInv, FrameInv
<1>b. /\ {"Unavailable", "Failed", "InvalidOutput", "Timeout"} \subseteq Answers \ {"Ok"}
      /\ Interruption \in Answers \ {"Ok"}
  BY InterruptionIsAnswer DEF Answers
<1>c. \A ret \in Answers \ {"Ok"} : Abort(ret) /\ UNCHANGED outside => IInv'
  BY <1>0, AbortKeeps
<1>d. \A ret \in Answers \ {"Ok"} :
        call.pc \in BeforeThreads /\ Return(ret) /\ host # "running" /\
          UNCHANGED <<outside, process, pipes, writer, reader, stderr>> => IInv'
  <2> SUFFICES ASSUME NEW ret \in Answers \ {"Ok"}, Return(ret), host # "running",
                      UNCHANGED <<outside, process, pipes, writer, reader, stderr>>
               PROVE  IInv'
    OBVIOUS
  <2>1. call' = [pc |-> "done", step |-> "check", ret |-> ret]
    BY DEF Return
  <2>2. HostInv' /\ EarlyInv' /\ OkIsWhole' /\ FrameInv'
    BY <1>a, <2>1 DEF HostInv, EarlyInv, OkIsWhole, FrameInv, outside, process, BeforeHost, Draining
  <2> QED
    BY <1>0, <2>2 DEF IInv
<1>f. call \in Calls /\ stdout \in Seq(Kinds) /\ wrote \in Seq(Kinds)
  BY <1>a DEF TypeOK
\* before the threads, nothing was written
<1>e. ASSUME NEW pc \in BeforeThreads, Goto(pc, "check"), call.pc \in BeforeHost, call.pc # "done",
             host' \in {"none", "running"}, host' = "running" => pc = "verify again",
             UNCHANGED <<outside, descendant, pipes, writer, reader, stderr>>
      PROVE  IInv'
  <2>1. call' = [pc |-> pc, step |-> "check", ret |-> call.ret] /\ pc \notin Draining \cup {"done", "wait"}
    BY <1>e, <1>a, GotoKeepsTypes DEF Places, BeforeThreads, Draining
  <2>2. Taken' = 0 /\ Taken = 0
    BY <1>e, <2>1 DEF Taken, BeforeThreads, BeforeHost, Draining
  <2>3. TakenInv' /\ ChannelInv' /\ PipeInv'
    BY <1>e, <1>a, <2>2, FramesUntouched DEF pipes
  <2>4. call.ret = "none" /\ host = "none" /\ ~ descendant /\ wrote = <<>>
    BY <1>e, <1>a DEF HostInv
  <2>5. ReaderInv'
    BY <1>e, <1>a, <2>1, Zenon DEF ReaderInv, Clean, BeforeThreads, BeforeHost, Draining
  <2>6. HostInv'
    BY <1>e, <2>1, <2>4 DEF HostInv, pipes, BeforeHost
  <2>7. EarlyInv' /\ OkIsWhole'
    BY <1>e, <1>a, <2>1, <2>4 DEF EarlyInv, OkIsWhole, outside, Draining
  <2> QED
    BY <1>0, <2>3, <2>5, <2>6, <2>7 DEF IInv, FrameInv
<1>1. CASE Verify
  <2>1. CASE Return(Interruption) \/ Return("Unavailable")
    BY <1>1, <1>a, <1>b, <1>d, <2>1 DEF Verify, At, HostInv, BeforeHost, BeforeThreads
  <2>2. CASE Goto("spawn", "check")
    <3>1. host = "none"
      BY <1>1, <1>a DEF Verify, At, HostInv, BeforeHost
    <3> QED
      BY <1>1, <1>e, <2>2, <3>1 DEF Verify, At, BeforeHost, BeforeThreads, process
  <2> QED
    BY <1>1, <2>1, <2>2 DEF Verify
<1>2. CASE Spawn
  <2>1. CASE (Return(Interruption) \/ Return("Unavailable")) /\ UNCHANGED host
    BY <1>2, <1>a, <1>b, <1>d, <2>1 DEF Spawn, At, HostInv, BeforeHost, BeforeThreads, process
  <2>2. CASE Goto("verify again", "check") /\ host' = "running"
    BY <1>2, <1>e, <2>2 DEF Spawn, At, BeforeHost, BeforeThreads
  <2> QED
    BY <1>2, <2>1, <2>2 DEF Spawn
<1>3. CASE VerifyAgain
  <2>1. CASE Abort(Interruption) \/ Abort("Unavailable")
    BY <1>3, <1>b, <1>c, <2>1 DEF VerifyAgain
  <2>2. CASE Start
    <3>1. call.pc = "verify again" /\ UNCHANGED <<outside, process, pipes>>
      BY <1>3, <2>2 DEF VerifyAgain, At, Start
    <3>2. call' = [pc |-> "request", step |-> "check", ret |-> call.ret]
      BY <1>a, <2>2, GotoKeepsTypes DEF Start, Places, Conversation
    <3>3. reader = [count |-> 0, frames |-> <<>>, alive |-> FALSE] /\ call.ret = "none"
      BY <1>a, <3>1 DEF ReaderInv, HostInv, BeforeThreads
    <3>4. reader'.frames = <<>> /\ reader'.count = 0 /\ reader'.alive
      BY <2>2, <3>3 DEF Start
    <3>5. Taken = 0 /\ Taken' = 0 /\ Clean' = Clean
      BY <3>1, <3>2, <3>3, <3>4 DEF Taken, Draining, Clean
    <3>6. TakenInv' /\ ChannelInv' /\ PipeInv'
      <4>1. TakenInv /\ ChannelInv /\ PipeInv
        BY <1>a, <3>1
      <4>2. reader.frames = <<>> /\ reader.count = 0
        BY <3>3
      <4>3. UNCHANGED <<stdout, wrote>>
        BY <3>1 DEF pipes
      <4>4. Taken' = Taken
        BY <3>5
      <4>5. TakenInv'
        BY <4>1, <4>3, <4>4 DEF TakenInv
      <4>6. ChannelInv'
        BY <3>4, <4>1, <4>2, <4>3, <4>4 DEF ChannelInv
      <4>7. PipeInv'
        BY <3>4, <3>5, <4>1, <4>2, <4>3, <4>4 DEF PipeInv
      <4> QED
        BY <4>5, <4>6, <4>7
    <3>7. Clean'
      BY <3>4, EmptySeq DEF Clean
    <3>8. ReaderInv'
      BY <3>2, <3>4, <3>7 DEF ReaderInv, BeforeThreads
    <3>9. HostInv' /\ EarlyInv' /\ OkIsWhole'
      BY <1>a, <3>1, <3>2, <3>3 DEF HostInv, EarlyInv, OkIsWhole, outside, BeforeHost, Draining
    <3> QED
      BY <1>0, <3>6, <3>8, <3>9 DEF IInv, FrameInv
  <2> QED
    BY <1>3, <2>1, <2>2 DEF VerifyAgain
<1>4. CASE Write("request", "request written")
  <2>1. CASE Abort(Interruption) \/ Abort("Failed")
    BY <1>4, <1>b, <1>c, <2>1 DEF Write
  <2>2. CASE Goto("request written", "check") /\ UNCHANGED process
    <3>0. call.pc = "request"
      BY <1>4 DEF Write, At
    <3>a. call'.pc = "request written"
      BY <1>f, <2>2 DEF Goto, Calls
    <3>1. Taken' = Taken
      BY <3>0, <3>a DEF Taken, Draining
    <3> QED
      BY <1>4, <1>0, <2>2, <3>0, <3>1, GotoKeeps DEF Write, Conversation, Steps
  <2> QED
    BY <1>4, <2>1, <2>2 DEF Write
<1>5. CASE Written("request written", "preflight")
  <2>1. CASE Abort("Failed")
    BY <1>5, <1>b, <1>c, <2>1 DEF Written
  <2>2. CASE Goto("preflight", "check") /\ UNCHANGED process
    <3>0. call.pc = "request written"
      BY <1>5 DEF Written, At
    <3>a. call'.pc = "preflight"
      BY <1>f, <2>2 DEF Goto, Calls
    <3>1. Taken' = Taken
      BY <3>0, <3>a DEF Taken, Draining
    <3> QED
      BY <1>5, <1>0, <2>2, <3>0, <3>1, GotoKeeps DEF Written, Conversation, Steps
  <2> QED
    BY <1>5, <2>1, <2>2 DEF Written
<1>6. CASE Received("preflight", "preflight", "execute")
  <2>1. CASE Abort("InvalidOutput")
    BY <1>6, <1>b, <1>c, <2>1 DEF Received
  <2>2. CASE /\ reader.frames # <<>> /\ Head(reader.frames) = "preflight" /\ Goto("execute", "check")
             /\ reader' = [reader EXCEPT !.frames = Tail(@)] /\ UNCHANGED <<process, writer>>
    BY <1>6, <1>0, <2>2, TakeKeeps DEF Received, At
  <2> QED
    BY <1>6, <2>1, <2>2 DEF Received
<1>7. CASE Write("execute", "execute written")
  <2>1. CASE Abort(Interruption) \/ Abort("Failed")
    BY <1>7, <1>b, <1>c, <2>1 DEF Write
  <2>2. CASE Goto("execute written", "check") /\ UNCHANGED process
    <3>0. call.pc = "execute"
      BY <1>7 DEF Write, At
    <3>a. call'.pc = "execute written"
      BY <1>f, <2>2 DEF Goto, Calls
    <3>1. Taken' = Taken
      BY <3>0, <3>a DEF Taken, Draining
    <3> QED
      BY <1>7, <1>0, <2>2, <3>0, <3>1, GotoKeeps DEF Write, Conversation, Steps
  <2> QED
    BY <1>7, <2>1, <2>2 DEF Write
<1>8. CASE Written("execute written", "result")
  <2>1. CASE Abort("Failed")
    BY <1>8, <1>b, <1>c, <2>1 DEF Written
  <2>2. CASE Goto("result", "check") /\ UNCHANGED process
    <3>0. call.pc = "execute written"
      BY <1>8 DEF Written, At
    <3>a. call'.pc = "result"
      BY <1>f, <2>2 DEF Goto, Calls
    <3>1. Taken' = Taken
      BY <3>0, <3>a DEF Taken, Draining
    <3> QED
      BY <1>8, <1>0, <2>2, <3>0, <3>1, GotoKeeps DEF Written, Conversation, Steps
  <2> QED
    BY <1>8, <2>1, <2>2 DEF Written
<1>9. CASE Received("result", "result", "wait")
  <2>1. CASE Abort("InvalidOutput")
    BY <1>9, <1>b, <1>c, <2>1 DEF Received
  <2>2. CASE /\ reader.frames # <<>> /\ Head(reader.frames) = "result" /\ Goto("wait", "check")
             /\ reader' = [reader EXCEPT !.frames = Tail(@)] /\ UNCHANGED <<process, writer>>
    BY <1>9, <1>0, <2>2, TakeKeeps DEF Received, At
  <2> QED
    BY <1>9, <2>1, <2>2 DEF Received
<1>10. CASE Poll
  <2>1. CASE Abort(Interruption)
    BY <1>10, <1>b, <1>c, <2>1 DEF Poll
  <2>2. CASE Goto(call.pc, "receive") /\ UNCHANGED <<process, writer>>
    <3>1. call.pc \in Conversation /\ call.pc # "wait" /\ call.pc \in Places
      BY <1>10 DEF Poll, Conversation, Places
    <3>2. call'.pc = call.pc
      BY <1>f, <2>2 DEF Goto, Calls
    <3>3. Taken' = Taken
      BY <3>2 DEF Taken
    <3> QED
      BY <1>10, <1>0, <2>2, <3>1, <3>3, GotoKeeps DEF Poll, Steps
  <2> QED
    BY <1>10, <2>1, <2>2 DEF Poll
<1>11. CASE PollAgain
  <2>1. call.pc \in Places /\ Goto(call.pc, "check") /\ call.step = "receive"
    BY <1>11, <1>a DEF PollAgain, TypeOK, Calls
  <2>2. call' = [pc |-> call.pc, step |-> "check", ret |-> call.ret]
    BY <1>a, <2>1, GotoKeepsTypes
  <2>3. Taken' = Taken /\ UNCHANGED <<outside, process, pipes, reader, stderr>>
    BY <1>11, <2>2 DEF Taken, PollAgain
  <2>4. HostInv' /\ EarlyInv' /\ OkIsWhole'
    BY <1>a, <2>2, <2>3 DEF HostInv, EarlyInv, OkIsWhole, outside, process, pipes
  <2>5. FrameInv'
    <3>1. CASE call.pc = "done"
      BY <2>2, <3>1 DEF FrameInv
    <3>2. CASE call.pc # "done"
      <4>1. TakenInv' /\ ChannelInv' /\ PipeInv'
        BY <1>a, <2>3, <3>2, FramesUntouched DEF pipes
      <4>2. ReaderInv'
        BY <1>a, <2>2, <2>3, <3>2 DEF ReaderInv, Clean, HoldsPipes, process, pipes
      <4> QED
        BY <4>1, <4>2 DEF FrameInv
    <3> QED
      BY <3>1, <3>2
  <2> QED
    BY <1>0, <2>4, <2>5 DEF IInv
<1>12. CASE Wait
  <2>1. CASE Abort(Interruption)
    BY <1>12, <1>b, <1>c, <2>1 DEF Wait
  <2>2. CASE ~ Interrupted /\ Goto("wait", "streams") /\ UNCHANGED <<process, writer>>
    <3>0. call.pc = "wait"
      BY <1>12 DEF Wait, At
    <3>a. call'.pc = "wait"
      BY <1>f, <2>2 DEF Goto, Calls
    <3>1. Taken' = Taken
      BY <3>0, <3>a DEF Taken, Draining
    <3>2. ~ early
      BY <1>a, <2>2 DEF Interrupted, EarlyInv
    <3> QED
      BY <1>12, <1>0, <2>2, <3>0, <3>1, <3>2, GotoKeeps DEF Wait, Steps
  <2> QED
    BY <1>12, <2>1, <2>2 DEF Wait
<1>13. CASE CheckStreams
  <2>1. CASE Abort("InvalidOutput")
    BY <1>13, <1>b, <1>c, <2>1 DEF CheckStreams
  <2>2. CASE Goto("wait", "exit") /\ UNCHANGED <<process, writer>>
    <3>0. call.pc = "wait" /\ call.step = "streams"
      BY <1>13 DEF CheckStreams, At
    <3>a. call'.pc = "wait"
      BY <1>f, <2>2 DEF Goto, Calls
    <3>1. Taken' = Taken
      BY <3>0, <3>a DEF Taken, Draining
    <3>2. ~ early
      BY <1>a, <3>0 DEF EarlyInv
    <3> QED
      BY <1>13, <1>0, <2>2, <3>0, <3>1, <3>2, GotoKeeps DEF CheckStreams, Steps
  <2> QED
    BY <1>13, <2>1, <2>2 DEF CheckStreams
<1>14. CASE TryWait
  <2>1. CASE Abort("Failed")
    BY <1>14, <1>b, <1>c, <2>1 DEF TryWait
  <2>2. CASE host = "running" /\ Goto("wait", "check") /\ UNCHANGED <<process, writer>>
    <3>0. call.pc = "wait"
      BY <1>14 DEF TryWait, At
    <3>a. call'.pc = "wait"
      BY <1>f, <2>2 DEF Goto, Calls
    <3>1. Taken' = Taken
      BY <3>0, <3>a DEF Taken, Draining
    <3> QED
      BY <1>14, <1>0, <2>2, <3>0, <3>1, GotoKeeps DEF TryWait, Steps
  <2>3. CASE host # "running" /\ Goto("drain stdout", "check") /\ UNCHANGED <<process, writer>>
    <3>1. call.pc = "wait" /\ call.step = "exit" /\ UNCHANGED <<outside, process, pipes, reader, stderr>>
      BY <1>14, <2>3 DEF TryWait, At
    <3>2. call' = [pc |-> "drain stdout", step |-> "check", ret |-> call.ret] /\ call.ret = "none"
      BY <1>a, <2>3, <3>1, GotoKeepsTypes DEF Places, Draining, HostInv
    <3>3. Taken' = Taken /\ ~ early
      BY <1>a, <3>1, <3>2 DEF Taken, Draining, EarlyInv
    <3>4. TakenInv' /\ ChannelInv' /\ PipeInv'
      BY <1>a, <3>1, <3>3, FramesUntouched DEF pipes
    <3>5. ReaderInv'
      BY <1>a, <3>1, <3>2 DEF ReaderInv, Clean, HoldsPipes, process, pipes, BeforeThreads
    <3>6. HostInv' /\ EarlyInv' /\ OkIsWhole'
      BY <1>a, <2>3, <3>1, <3>2, <3>3 DEF HostInv, EarlyInv, OkIsWhole, outside, process, BeforeHost
    <3> QED
      BY <1>0, <3>4, <3>5, <3>6 DEF IInv, FrameInv
  <2> QED
    BY <1>14, <2>1, <2>2, <2>3 DEF TryWait
<1>15. CASE DrainStdout
  <2>1. CASE Abort("Timeout") \/ Abort("InvalidOutput")
    BY <1>15, <1>b, <1>c, <2>1 DEF DrainStdout
  <2>2. CASE reader.frames = <<>> /\ ~ reader.alive /\ Goto("drain stderr", "check") /\ UNCHANGED <<process, writer>>
    <3>1. call.pc = "drain stdout" /\ UNCHANGED <<outside, process, pipes, reader, stderr>>
      BY <1>15, <2>2 DEF DrainStdout, At
    <3>2. call' = [pc |-> "drain stderr", step |-> "check", ret |-> call.ret] /\ call.ret = "none"
      BY <1>a, <2>2, <3>1, GotoKeepsTypes DEF Places, Draining, HostInv
    <3>3. Taken' = Taken /\ ~ early
      BY <1>a, <3>1, <3>2 DEF Taken, Draining, EarlyInv
    <3>4. TakenInv' /\ ChannelInv' /\ PipeInv'
      BY <1>a, <3>1, <3>3, FramesUntouched DEF pipes
    <3>5. ReaderInv'
      <4>1. ReaderInv /\ call.pc \notin BeforeThreads
        BY <1>a, <3>1 DEF BeforeThreads
      <4>2. call'.pc = "drain stderr" /\ call'.pc \notin BeforeThreads
        BY <3>2 DEF BeforeThreads
      <4>3. Clean' = Clean /\ HoldsPipes' = HoldsPipes /\ UNCHANGED <<reader, stdout>>
        BY <3>1 DEF Clean, HoldsPipes, process, pipes
      <4>4. reader.frames = <<>> /\ ~ reader.alive
        BY <2>2
      <4> QED
        BY <4>1, <4>2, <4>3, <4>4 DEF ReaderInv
    <3>6. HostInv' /\ EarlyInv' /\ OkIsWhole'
      BY <1>a, <2>2, <3>1, <3>2, <3>3 DEF HostInv, EarlyInv, OkIsWhole, outside, process, BeforeHost, Draining
    <3> QED
      BY <1>0, <3>4, <3>5, <3>6 DEF IInv, FrameInv
  <2> QED
    BY <1>15, <2>1, <2>2 DEF DrainStdout
<1>16. CASE DrainStderr
  <2>1. CASE Abort("Timeout") \/ Abort("InvalidOutput")
    BY <1>16, <1>b, <1>c, <2>1 DEF DrainStderr
  <2>2. CASE /\ ~ stderr.alive /\ Return(IF host = "exited" THEN "Ok" ELSE "Failed")
             /\ UNCHANGED <<process, writer>>
    <3>1. call.pc = "drain stderr" /\ UNCHANGED <<outside, process, pipes, reader, stderr>>
      BY <1>16, <2>2 DEF DrainStderr, At
    <3>2. call' = [pc |-> "done", step |-> "check", ret |-> IF host = "exited" THEN "Ok" ELSE "Failed"]
      BY <2>2 DEF Return
    <3>3. ~ early /\ host # "running"
      BY <1>a, <3>1 DEF EarlyInv, HostInv, Draining
    \* the reader found the end of the stream after two frames, and both were taken
    <3>4. reader.frames = <<>> /\ ~ reader.alive /\ Taken = 2
      BY <1>a, <3>1 DEF ReaderInv, Taken, Draining
    <3>5. Clean
      BY <3>4, EmptySeq DEF Clean
    <3>6. reader.count = 2 /\ stdout = <<>> /\ ~ HoldsPipes
      BY <1>a, <3>1, <3>4, <3>5 DEF ReaderInv, BeforeThreads
    <3>7. Len(wrote) = 2
      <4>1. PipeInv
        BY <1>a, <3>1
      <4>2. Len(stdout) = 0
        BY <3>6, EmptySeq
      <4> QED
        BY <3>5, <3>6, <4>1, <4>2 DEF PipeInv
    <3>8. wrote[1] = "preflight" /\ wrote[2] = "result"
      <4>1. TakenInv
        BY <1>a, <3>1
      <4> QED
        BY <3>4, <4>1 DEF TakenInv
    <3>9. wrote = <<"preflight", "result">>
      BY <1>f, <3>7, <3>8
    <3>10. OkIsWhole'
      <4>1. wrote' = <<"preflight", "result">> /\ stdout' = <<>>
        BY <3>1, <3>6, <3>9, Zenon DEF pipes
      <4>2. ~ reader'.alive /\ ~ stderr'.alive
        BY <2>2, <3>1, <3>4, Zenon
      <4>3. ~ descendant'
        BY <3>1, <3>6 DEF HoldsPipes, process
      <4>4. call'.ret = "Ok" => host' = "exited"
        BY <3>1, <3>2 DEF process
      <4> QED
        BY <4>1, <4>2, <4>3, <4>4, Zenon DEF OkIsWhole
    <3>11. HostInv' /\ EarlyInv' /\ FrameInv'
      BY <1>a, <3>1, <3>2, <3>3 DEF HostInv, EarlyInv, FrameInv, outside, process, BeforeHost
    <3> QED
      BY <1>0, <3>10, <3>11 DEF IInv
  <2> QED
    BY <1>16, <2>1, <2>2 DEF DrainStderr
\* what none of these is about stays as it is
<1>17. CASE /\ UNCHANGED <<call, outside, stdout, wrote, reader>>
            /\ HoldsPipes' => HoldsPipes
            /\ \/ UNCHANGED stderr
               \/ ~ stderr'.alive
            /\ HostInv'
            /\ call.ret = "Ok" => UNCHANGED process
  <2>1. EarlyInv' /\ OkIsWhole'
    BY <1>17, <1>a DEF EarlyInv, OkIsWhole, outside, process
  <2>2. FrameInv'
    <3>1. CASE call.pc = "done"
      BY <1>17, <3>1 DEF FrameInv
    <3>2. CASE call.pc # "done"
      <4>1. Taken' = Taken
        BY <1>17 DEF Taken
      <4>2. TakenInv' /\ ChannelInv' /\ PipeInv'
        BY <1>17, <1>a, <3>2, <4>1, FramesUntouched
      <4>3. ReaderInv'
        BY <1>17, <1>a, <3>2 DEF ReaderInv, Clean
      <4> QED
        BY <4>2, <4>3 DEF FrameInv
    <3> QED
      BY <3>1, <3>2
  <2> QED
    BY <1>0, <1>17, <2>1, <2>2 DEF IInv
<1>18. CASE WriterStep \/ HostReads \/ StderrStep \/ StderrOverflows
  <2>1. UNCHANGED <<call, outside, process, stdout, wrote, reader>>
    BY <1>18 DEF WriterStep, HostReads, StderrStep, StderrOverflows, pipes
  <2>2. UNCHANGED stderr \/ ~ stderr'.alive
    BY <1>18 DEF WriterStep, HostReads, StderrStep, StderrOverflows
  <2>3. HoldsPipes' = HoldsPipes /\ HostInv'
    BY <1>a, <2>1 DEF HoldsPipes, HostInv, process
  <2> QED
    BY <1>17, <2>1, <2>2, <2>3
<1>19. CASE ReaderStep
  BY <1>0, <1>19, ReaderStepKeeps
<1>20. ASSUME NEW kind \in Kinds, HostWrites(kind) PROVE IInv'
  BY <1>0, <1>20, HostWritesKeeps
<1>21. CASE HostForks \/ HostExits \/ DescendantExits
  <2>1. UNCHANGED <<call, outside, pipes, reader, stderr>>
    BY <1>21 DEF HostForks, HostExits, DescendantExits
  <2>2. HoldsPipes' => HoldsPipes
    BY <1>21 DEF HostForks, HostExits, DescendantExits, HoldsPipes
  <2>3. HostInv'
    BY <1>21, <1>a, <2>1 DEF HostForks, HostExits, DescendantExits, HostInv, pipes
  <2>4. call.ret # "Ok"
    BY <1>21, <1>a DEF HostForks, HostExits, DescendantExits, OkIsWhole
  <2> QED
    BY <1>17, <2>1, <2>2, <2>3, <2>4 DEF pipes
<1>22. CASE Deadline \/ Cancel
  <2>1. UNCHANGED <<call, process, pipes, writer, reader, stderr>>
    BY <1>22 DEF Deadline, Cancel
  <2>2. HostInv' /\ OkIsWhole'
    BY <1>a, <2>1 DEF HostInv, OkIsWhole, process, pipes
  <2>3. EarlyInv'
    <3>1. CASE Deadline
      BY <1>a, <3>1 DEF Deadline, EarlyInv
    <3>2. CASE Cancel
      <4>1. call.pc # "done" => call.ret = "none"
        BY <1>a DEF HostInv
      <4> QED
        BY <3>2, <4>1 DEF Cancel, EarlyInv, Draining
    <3> QED
      BY <1>22, <3>1, <3>2
  <2>4. FrameInv'
    <3>1. CASE call.pc = "done"
      BY <2>1, <3>1 DEF FrameInv
    <3>2. CASE call.pc # "done"
      <4>1. Taken' = Taken
        BY <2>1 DEF Taken
      <4>2. TakenInv' /\ ChannelInv' /\ PipeInv'
        BY <1>a, <2>1, <3>2, <4>1, FramesUntouched DEF pipes
      <4>3. ReaderInv'
        BY <1>a, <2>1, <3>2 DEF ReaderInv, Clean, HoldsPipes, process, pipes
      <4> QED
        BY <4>2, <4>3 DEF FrameInv
    <3> QED
      BY <3>1, <3>2
  <2> QED
    BY <1>0, <2>2, <2>3, <2>4 DEF IInv
<1>23. CASE UNCHANGED vars
  <2>1. UNCHANGED <<call, outside, process, stdout, wrote, reader, stderr>>
    BY <1>23 DEF vars, pipes
  <2>2. HoldsPipes' = HoldsPipes /\ HostInv'
    BY <1>a, <2>1 DEF HoldsPipes, HostInv, process
  <2> QED
    BY <1>17, <2>1, <2>2
<1> QED
  BY <1>1, <1>2, <1>3, <1>4, <1>5, <1>6, <1>7, <1>8, <1>9, <1>10, <1>11, <1>12, <1>13, <1>14, <1>15, <1>16,
     <1>18, <1>19, <1>20, <1>21, <1>22, <1>23 DEF Next, Caller

(***************************************************************************)
(* The theorems                                                            *)
(***************************************************************************)
\* The invariant holds in every state: invoke, its threads and the host stay within
\* their types, and every frame is accounted for.
THEOREM Invariant == Spec => []IInv
BY InitEstablishes, NextPreserves, PTL DEF Spec

\* The variables keep their types, for every capacity and number of frames.
THEOREM TypeCorrect == Spec => []TypeOK
<1>1. IInv => TypeOK
  BY DEF IInv
<1> QED
  BY <1>1, Invariant, PTL

\* invoke leaves no host behind, answers Ok only for a whole conversation, and never
\* overruns a cancellation that came before the result.
THEOREM HostAlwaysAnswers == Spec => []HostAnswers
<1>1. IInv => HostAnswers
  BY DEF IInv, HostInv, EarlyInv, HostAnswers, HostNotLeft, EarlyCancelWins
<1> QED
  BY <1>1, Invariant, PTL
=============================================================================
