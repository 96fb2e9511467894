----------------------------- MODULE ExternalHost -----------------------------
(***************************************************************************)
(* ExternalHostAdapter::invoke of                                          *)
(* crates/bran-core/src/adapters/provider/mod.rs: one conversation with a  *)
(* host process over its pipes, under a deadline and a cancellation flag.  *)
(*                                                                         *)
(* The caller writes a request, reads a preflight, writes execute, reads a *)
(* result and waits for the host to exit.  Three detached threads serve    *)
(* it: the writer of the host's stdin, the reader of its stdout            *)
(* (drain_frames) and the reader of its stderr, each with a channel.  The  *)
(* host does what it likes; it may start a descendant that inherits the    *)
(* pipes and outlives it.                                                  *)
(***************************************************************************)
EXTENDS Naturals, Sequences

CONSTANTS
  StdinCapacity,   \* frames the pipe to the host holds before a write blocks
  MaxFrames        \* bound: frames written to stdout

ASSUME HostAssumption == StdinCapacity \in Nat /\ MaxFrames \in Nat

VARIABLES
  call,        \* the caller: [pc, step, ret]; step is the one within a polling loop
  late, flag,  \* the deadline has passed; cancellation was asked for
  host,        \* "none", "running", "exited", "failed" (exit status), "killed"
  descendant,  \* one is alive
  stdin,       \* [full, ended]: frames in the pipe; the writer has closed it
  stdout,      \* frames in the pipe
  wrote,       \* history: every frame written to stdout
  early,       \* history: cancelled before the caller had the result
  writer,      \* [jobs, hungup, results, alive]: payloads sent to it, writes_tx was
               \* dropped, what it answered
  reader,      \* [count, frames, alive]: frames is its channel
  stderr       \* [alive, result]: result is what is in its channel

outside == <<late, flag, early>>
process == <<host, descendant>>
pipes == <<stdin, stdout, wrote>>
vars == <<call, outside, process, pipes, writer, reader, stderr>>

Kinds == {"preflight", "result", "junk"}

Init ==
  /\ call = [pc |-> "verify", step |-> "check", ret |-> "none"]
  /\ late = FALSE /\ flag = FALSE /\ early = FALSE
  /\ host = "none" /\ descendant = FALSE
  /\ stdin = [full |-> 0, ended |-> FALSE]
  /\ stdout = <<>> /\ wrote = <<>>
  /\ writer = [jobs |-> 0, hungup |-> FALSE, results |-> <<>>, alive |-> FALSE]
  /\ reader = [count |-> 0, frames |-> <<>>, alive |-> FALSE]
  /\ stderr = [alive |-> FALSE, result |-> "none"]

At(pc, step) == call.pc = pc /\ call.step = step
Goto(pc, step) == call' = [call EXCEPT !.pc = pc, !.step = step]
Return(ret) == call' = [pc |-> "done", step |-> "check", ret |-> ret]

\* terminate: the direct host is killed; nobody waits for it
Killed == IF host = "running" THEN "killed" ELSE host

\* the conversation is given up, and writes_tx dropped
Abort(ret) ==
  /\ Return(ret)
  /\ host' = Killed
  /\ writer' = [writer EXCEPT !.hungup = TRUE]
  /\ UNCHANGED descendant

\* before_cancel
Interrupted == flag \/ late
Interruption == IF flag THEN "Cancelled" ELSE "Timeout"

(***************************************************************************)
(* The caller                                                              *)
(***************************************************************************)
\* the executable is verified, before there is a host
Verify ==
  /\ At("verify", "check")
  /\ \/ Interrupted /\ Return(Interruption)
     \/ ~ Interrupted /\ Goto("spawn", "check")
     \/ Return("Unavailable")
  /\ UNCHANGED <<outside, process, pipes, writer, reader, stderr>>

Spawn ==
  /\ At("spawn", "check")
  /\ \/ Interrupted /\ Return(Interruption) /\ UNCHANGED host
     \/ ~ Interrupted /\ Goto("verify again", "check") /\ host' = "running"
     \/ Return("Unavailable") /\ UNCHANGED host
  /\ UNCHANGED <<outside, descendant, pipes, writer, reader, stderr>>

\* the three threads
Start ==
  /\ Goto("request", "check")
  /\ writer' = [writer EXCEPT !.alive = TRUE]
  /\ reader' = [reader EXCEPT !.alive = TRUE]
  /\ stderr' = [stderr EXCEPT !.alive = TRUE]
  /\ UNCHANGED process

\* it is verified again while the host runs
VerifyAgain ==
  /\ At("verify again", "check")
  /\ \/ Interrupted /\ Abort(Interruption) /\ UNCHANGED <<reader, stderr>>
     \/ Abort("Unavailable") /\ UNCHANGED <<reader, stderr>>
     \/ ~ Interrupted /\ Start
  /\ UNCHANGED <<outside, pipes>>

\* write_by: the payload is handed to the writer
Write(pc, next) ==
  /\ At(pc, "check")
  /\ \/ Interrupted /\ Abort(Interruption)
     \/ ~ Interrupted /\ ~ writer.alive /\ Abort("Failed")
     \/ /\ ~ Interrupted /\ writer.alive
        /\ writer' = [writer EXCEPT !.jobs = @ + 1]
        /\ Goto(next, "check")
        /\ UNCHANGED process
  /\ UNCHANGED <<outside, pipes, reader, stderr>>

\* receive_cancellable: the flag and the deadline, then ten milliseconds of waiting
Poll ==
  /\ call.pc \in {"request written", "preflight", "execute written", "result"}
  /\ call.step = "check"
  /\ \/ Interrupted /\ Abort(Interruption)
     \/ ~ Interrupted /\ Goto(call.pc, "receive") /\ UNCHANGED <<process, writer>>
  /\ UNCHANGED <<outside, pipes, reader, stderr>>

\* nothing came, and somebody may still send
PollAgain ==
  /\ call.step = "receive"
  /\ IF call.pc \in {"preflight", "result"}
     THEN reader.frames = <<>> /\ reader.alive
     ELSE writer.results = <<>> /\ writer.alive
  /\ Goto(call.pc, "check")
  /\ UNCHANGED <<outside, process, pipes, writer, reader, stderr>>

\* the writer's answer arrives; after execute, writes_tx is dropped
Written(pc, next) ==
  /\ At(pc, "receive")
  /\ \/ /\ writer.results = <<"Ok">>
        /\ Goto(next, "check")
        /\ writer' = [writer EXCEPT !.results = <<>>, !.hungup = (pc = "execute written")]
        /\ UNCHANGED process
     \/ writer.results = <<"Failed">> /\ Abort("Failed")
     \/ writer.results = <<>> /\ ~ writer.alive /\ Abort("Failed")
  /\ UNCHANGED <<outside, pipes, reader, stderr>>

\* a frame arrives; parse_preflight and parse_result refuse every other kind
Received(pc, kind, next) ==
  /\ At(pc, "receive")
  /\ \/ /\ reader.frames # <<>> /\ Head(reader.frames) = kind
        /\ Goto(next, "check")
        /\ reader' = [reader EXCEPT !.frames = Tail(@)]
        /\ UNCHANGED <<process, writer>>
     \/ /\ IF reader.frames = <<>> THEN ~ reader.alive ELSE Head(reader.frames) # kind
        /\ Abort("InvalidOutput")
        /\ UNCHANGED reader
  /\ UNCHANGED <<outside, pipes, stderr>>

\* wait_until: the flag and the deadline
Wait ==
  /\ At("wait", "check")
  /\ \/ Interrupted /\ Abort(Interruption)
     \/ ~ Interrupted /\ Goto("wait", "streams") /\ UNCHANGED <<process, writer>>
  /\ UNCHANGED <<outside, pipes, reader, stderr>>

\* check_streams: anything more on stdout, and an error of stderr, end it
CheckStreams ==
  /\ At("wait", "streams")
  /\ IF reader.frames # <<>> \/ stderr.result = "Err"
     THEN Abort("InvalidOutput") /\ UNCHANGED stderr
     ELSE /\ Goto("wait", "exit")
          /\ stderr' = [stderr EXCEPT !.result = "none"]
          /\ UNCHANGED <<process, writer>>
  /\ UNCHANGED <<outside, pipes, reader>>

\* try_wait
TryWait ==
  /\ At("wait", "exit")
  /\ \/ /\ Goto(IF host = "running" THEN "wait" ELSE "drain stdout", "check")
        /\ UNCHANGED <<process, writer>>
     \/ Abort("Failed")
  /\ UNCHANGED <<outside, pipes, reader, stderr>>

\* Mutant of DrainStdout: the reader's end is not awaited.
DrainStdoutOnce ==
  /\ At("drain stdout", "check")
  /\ \/ reader.frames # <<>> /\ Abort("InvalidOutput")
     \/ reader.frames = <<>> /\ Goto("drain stderr", "check") /\ UNCHANGED <<process, writer>>
  /\ UNCHANGED <<outside, pipes, reader, stderr>>

\* Mutant of DrainStdout: the end of stdout is awaited without a deadline.
DrainStdoutForever ==
  /\ At("drain stdout", "check")
  /\ \/ reader.frames # <<>> /\ Abort("InvalidOutput")
     \/ /\ reader.frames = <<>> /\ ~ reader.alive
        /\ Goto("drain stderr", "check")
        /\ UNCHANGED <<process, writer>>
  /\ UNCHANGED <<outside, pipes, reader, stderr>>

\* finish_streams waits for the end of stdout, until the deadline and no longer
DrainStdout ==
  /\ At("drain stdout", "check")
  /\ \/ late /\ Abort("Timeout")
     \/ ~ late /\ reader.frames # <<>> /\ Abort("InvalidOutput")
     \/ /\ ~ late /\ reader.frames = <<>> /\ ~ reader.alive
        /\ Goto("drain stderr", "check")
        /\ UNCHANGED <<process, writer>>
  /\ UNCHANGED <<outside, pipes, reader, stderr>>

\* and of stderr; then the host's exit status decides
DrainStderr ==
  /\ At("drain stderr", "check")
  /\ \/ late /\ Abort("Timeout")
     \/ ~ late /\ stderr.result = "Err" /\ Abort("InvalidOutput")
     \/ /\ ~ late /\ stderr.result # "Err" /\ ~ stderr.alive
        /\ Return(IF host = "exited" THEN "Ok" ELSE "Failed")
        /\ UNCHANGED <<process, writer>>
  /\ UNCHANGED <<outside, pipes, reader, stderr>>

Caller ==
  \/ Verify \/ Spawn \/ VerifyAgain
  \/ Write("request", "request written") \/ Written("request written", "preflight")
  \/ Received("preflight", "preflight", "execute")
  \/ Write("execute", "execute written") \/ Written("execute written", "result")
  \/ Received("result", "result", "wait")
  \/ Poll \/ PollAgain \/ Wait \/ CheckStreams \/ TryWait \/ DrainStdout \/ DrainStderr

(***************************************************************************)
(* The threads                                                             *)
(***************************************************************************)
HoldsPipes == host = "running" \/ descendant

\* write_frame, when the pipe has room or nobody can read it any more
WriterStep ==
  /\ writer.alive
  /\ \/ /\ writer.jobs > 0
        /\ \/ /\ HoldsPipes /\ stdin.full < StdinCapacity
              /\ stdin' = [stdin EXCEPT !.full = @ + 1]
              /\ writer' = [writer EXCEPT !.jobs = @ - 1, !.results = Append(@, "Ok")]
           \/ /\ ~ HoldsPipes
              /\ writer' = [writer EXCEPT !.alive = FALSE, !.results = Append(@, "Failed")]
              /\ stdin' = [stdin EXCEPT !.ended = TRUE]
     \/ /\ writer.jobs = 0 /\ writer.hungup
        /\ writer' = [writer EXCEPT !.alive = FALSE]
        /\ stdin' = [stdin EXCEPT !.ended = TRUE]
  /\ UNCHANGED <<call, outside, process, stdout, wrote, reader, stderr>>

\* drain_frames passes two frames on
Frames(frame) ==
  IF reader.count = 2 THEN [reader EXCEPT !.alive = FALSE, !.frames = Append(@, "Err")]
  ELSE [reader EXCEPT !.count = @ + 1, !.frames = Append(@, frame)]

\* drain_frames: a frame, one that read_frame refuses, or the end of the stream
ReaderStep ==
  /\ reader.alive
  /\ \/ /\ stdout # <<>> /\ call.pc # "done"
        /\ \/ reader' = Frames(Head(stdout))
           \/ Head(stdout) = "junk" /\ reader' = [reader EXCEPT !.alive = FALSE, !.frames = Append(@, "Err")]
        /\ stdout' = Tail(stdout)
     \/ /\ stdout = <<>> /\ ~ HoldsPipes
        /\ reader' = [reader EXCEPT !.alive = FALSE,
                                    !.frames = IF reader.count = 2 THEN @ ELSE Append(@, "Err")]
        /\ UNCHANGED stdout
     \/ /\ stdout # <<>> /\ call.pc = "done"
        /\ reader' = [reader EXCEPT !.alive = FALSE]
        /\ UNCHANGED stdout
  /\ UNCHANGED <<call, outside, process, stdin, wrote, writer, stderr>>

\* drain of stderr: its end, or more than it may hold
StderrStep ==
  /\ stderr.alive
  /\ ~ HoldsPipes
  /\ stderr' = [alive |-> FALSE, result |-> "Ok"]
  /\ UNCHANGED <<call, outside, process, pipes, writer, reader>>

StderrOverflows ==
  /\ stderr.alive
  /\ stderr' = [alive |-> FALSE, result |-> "Err"]
  /\ UNCHANGED <<call, outside, process, pipes, writer, reader>>

(***************************************************************************)
(* The host, its descendant, the user and the clock                        *)
(***************************************************************************)
HostReads ==
  /\ HoldsPipes /\ stdin.full > 0
  /\ stdin' = [stdin EXCEPT !.full = @ - 1]
  /\ UNCHANGED <<call, outside, process, stdout, wrote, writer, reader, stderr>>

HostWrites(kind) ==
  /\ HoldsPipes /\ Len(wrote) < MaxFrames
  /\ stdout' = Append(stdout, kind) /\ wrote' = Append(wrote, kind)
  /\ UNCHANGED <<call, outside, process, stdin, writer, reader, stderr>>

HostForks ==
  /\ host = "running" /\ ~ descendant
  /\ descendant' = TRUE
  /\ UNCHANGED <<call, outside, host, pipes, writer, reader, stderr>>

HostExits ==
  /\ host = "running"
  /\ host' \in {"exited", "failed"}
  /\ UNCHANGED <<call, outside, descendant, pipes, writer, reader, stderr>>

DescendantExits ==
  /\ descendant
  /\ descendant' = FALSE
  /\ UNCHANGED <<call, outside, host, pipes, writer, reader, stderr>>

Deadline ==
  /\ ~ late
  /\ late' = TRUE
  /\ UNCHANGED <<call, flag, early, process, pipes, writer, reader, stderr>>

Cancel ==
  /\ ~ flag
  /\ flag' = TRUE
  /\ early' = (call.pc \notin {"wait", "drain stdout", "drain stderr", "done"})
  /\ UNCHANGED <<call, late, process, pipes, writer, reader, stderr>>

Next ==
  \/ Caller \/ WriterStep \/ ReaderStep \/ StderrStep \/ StderrOverflows
  \/ HostReads \/ (\E kind \in Kinds : HostWrites(kind)) \/ HostForks \/ HostExits \/ DescendantExits
  \/ Deadline \/ Cancel

Spec == Init /\ [][Next]_vars

\* Threads run and time passes.  Nothing is assumed of the host, of its descendant
\* or of the user.
FairSpec ==
  /\ Spec
  /\ WF_vars(Caller) /\ WF_vars(WriterStep) /\ WF_vars(ReaderStep) /\ WF_vars(StderrStep)
  /\ WF_vars(Deadline)

(***************************************************************************)
(* Properties                                                              *)
(***************************************************************************)
\* invoke returns, whatever the host does: when it neither reads nor writes, and when
\* a descendant keeps its pipes open for ever.
InvokeReturns == <>(call.pc = "done")

\* The direct host never outlives the call: it has exited or been killed.
HostNotLeft == call.pc = "done" => host # "running"

\* Ok is returned only for a whole conversation: a preflight and a result, nothing
\* after them from anybody who had the pipe, both streams at their end, and a host
\* that exited with success.
OkIsWhole ==
  call.ret = "Ok" =>
    /\ wrote = <<"preflight", "result">>
    /\ stdout = <<>> /\ ~ reader.alive /\ ~ stderr.alive
    /\ host = "exited" /\ ~ descendant

\* A request cancelled before its result was there never succeeds, wherever the
\* caller was.
EarlyCancelWins == early => call.ret # "Ok"

\* What invoke answers is true of the host: it left nobody behind, was Ok only for
\* a whole conversation, and did not overrun a cancellation that came first.
HostAnswers == HostNotLeft /\ OkIsWhole /\ EarlyCancelWins
=============================================================================
