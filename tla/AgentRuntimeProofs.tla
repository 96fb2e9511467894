-------------------------- MODULE AgentRuntimeProofs --------------------------
(***************************************************************************)
(* Proofs about AgentRuntime: whatever the requests, the files, the        *)
(* provider and the compressor are.                                        *)
(*                                                                         *)
(* The call is a pipeline, and the invariant says what each stage has left *)
(* proven when the call is past it: the prompt passed its evaluation, the  *)
(* output its surface checks, each claim up to the one at hand occurs in   *)
(* its file as admitted, the answer passed its evaluation.  What the store *)
(* holds and the receipt returns has earned all of it (Earned).            *)
(***************************************************************************)
EXTENDS AgentRuntime, WellFoundedInduction, TLAPS

Validated == {"claims", "answer", "store", "readback"}
Answered == {"validate"} \cup Validated
Stages == {"start", "input", "provider", "returned"} \cup Answered

InputPassed ==
  /\ AcceptedSqz(input.receipt, input.payload)
  /\ ~ Unsafe(input.payload) /\ Anchors(request) \subseteq input.payload.has

OutputCame == output \in Outputs /\ ValidOutput(output) /\ output.answer.text.bytes <= request.maxOutput

SurfacePassed == ~ output.unsafe /\ (request.grounding # "none" => ClaimsAccepted)

\* The support of claim i occurs in the file the request admitted.
ClaimKept(i) ==
  /\ output.claims[i].locator \in DOMAIN admitted
  /\ output.claims[i].support \in admitted[output.claims[i].locator]

OutputPassed ==
  /\ OutputCame /\ SurfacePassed
  /\ request.ceiling # 0 => output.enforced = request.ceiling /\ output.tokens <= request.ceiling
  /\ request.grounding # "none" => \A i \in 1..Len(output.claims) : ClaimKept(i)

AnswerPassed ==
  /\ AcceptedSqz(answer.receipt, answer.payload)
  /\ ~ Unsafe(answer.payload) /\ answer.payload # NoPayload /\ answer.payload.bytes <= request.maxOutput
  /\ request.grounding # "none" => answer.payload = output.answer.text

Earned == InputPassed /\ OutputPassed /\ AnswerPassed

IInv ==
  /\ pc \in Stages
  /\ pc # "start" => request \in Requests
  /\ pc # "returned" => receipt = NoCall
  /\ NoInternalError
  /\ lifecycle # "Configured" => InputPassed
  /\ pc \in {"start", "input"} => lifecycle = "Configured"
  /\ pc = "provider" => lifecycle = "Running"
  /\ pc \in {"start", "input", "provider", "validate"} => claim = 1
  /\ pc \in Answered => lifecycle = "Validating" /\ OutputCame
  /\ pc \in Validated => SurfacePassed
  /\ pc = "claims" => /\ request.grounding # "none"
                      /\ claim \in 1..Len(output.claims) /\ \A i \in 1..(claim - 1) : ClaimKept(i)
  /\ pc \in {"answer", "store", "readback"} => OutputPassed
  /\ pc \in {"store", "readback"} => AnswerPassed
  /\ \A result \in Results : pc \in {"readback", "returned"} /\ Earned /\ result = Inline

(***************************************************************************)
(* Lists of gates and checks, of which the first that fails counts         *)
(***************************************************************************)
FirstFailing(list) == SelectInSeq(list, LAMBDA g : g.fails)

LEMMA LeastNatural ==
  ASSUME NEW N \in SUBSET Nat, N # {}
  PROVE  \E n \in N : \A m \in N : n <= m
<1> DEFINE less == {mn \in Nat \X Nat : mn[1] < mn[2]}
<1>1. IsWellFoundedOn(less, Nat)
  BY NatLessThanWellFounded DEF OpToRel
<1> HIDE DEF less
<1>2. PICK n \in N : \A m \in N : ~ (<<m, n>> \in less)
  BY <1>1, WFMin, Zenon
<1>3. \A m, k \in Nat : <<m, k>> \in less <=> m < k
  BY DEF less
<1>4. \A m \in N : ~ (m < n)
  BY <1>2, <1>3, Zenon
<1> QED
  BY <1>4

LEMMA FirstFailingIs ==
  ASSUME NEW list, Len(list) \in Nat
  PROVE  /\ FirstFailing(list) = 0 => \A i \in 1..Len(list) : ~ list[i].fails
         /\ FirstFailing(list) # 0 => FirstFailing(list) \in 1..Len(list) /\ list[FirstFailing(list)].fails
<1> DEFINE I == {i \in 1..Len(list) : list[i].fails}
<1>1. FirstFailing(list) = IF I # {} THEN CHOOSE x \in I : \A y \in I : x <= y ELSE 0
  BY DEF FirstFailing, SelectInSeq, Min
<1>2. I \in SUBSET Nat /\ I \subseteq 1..Len(list) /\ 0 \notin 1..Len(list)
  OBVIOUS
<1>3. ASSUME NEW i \in 1..Len(list) PROVE list[i].fails <=> i \in I
  BY Zenon
<1> HIDE DEF I
<1>4. I # {} => \E x \in I : \A y \in I : x <= y
  BY <1>2, LeastNatural
<1>5. I # {} => FirstFailing(list) \in I
  BY <1>1, <1>4
<1>6. FirstFailing(list) = 0 => I = {}
  BY <1>2, <1>5
<1>7. FirstFailing(list) # 0 => FirstFailing(list) \in I
  BY <1>1, <1>5
<1>8. FirstFailing(list) = 0 => \A i \in 1..Len(list) : ~ list[i].fails
  BY <1>3, <1>6, Zenon
<1>9. FirstFailing(list) # 0 => FirstFailing(list) \in 1..Len(list) /\ list[FirstFailing(list)].fails
  BY <1>2, <1>3, <1>7, Zenon
<1> QED
  BY <1>8, <1>9, Zenon

LEMMA FirstFailureIs ==
  ASSUME NEW checks, Len(checks) \in Nat
  PROVE  \/ FirstFailure(checks) = Passed /\ \A i \in 1..Len(checks) : ~ checks[i].fails
         \/ \E i \in 1..Len(checks) : FirstFailure(checks) = checks[i] /\ checks[i].fails
<1>1. FirstFailure(checks) = IF FirstFailing(checks) = 0 THEN Passed ELSE checks[FirstFailing(checks)]
  BY DEF FirstFailure, FirstFailing
<1> QED
  BY <1>1, FirstFailingIs

\* A check that fails names its reason.
LEMMA ChecksNameReason ==
  ASSUME NEW raw, NEW anchors, NEW max, NEW port
  PROVE  /\ LET off == FirstFailure(OffChecks(raw, anchors))
            IN  \/ off.fails /\ off.reason # "None"
                \/ off = Passed /\ anchors \subseteq raw.has /\ ~ Unsafe(raw)
         /\ LET before == FirstFailure(InputChecks(raw, anchors))
            IN  \/ before.fails /\ before.reason # "None"
                \/ before = Passed /\ anchors \subseteq raw.has /\ ~ Unsafe(raw)
         /\ LET after == FirstFailure(AnswerChecks(anchors, max, port))
            IN  \/ after.fails /\ after.reason # "None"
                \/ /\ after = Passed /\ anchors \subseteq port.payload.has /\ ~ Unsafe(port.payload)
                   /\ anchors # {} /\ port.ok /\ ~ (port.payload.bytes > max)
<1>1. LET off == FirstFailure(OffChecks(raw, anchors))
      IN  \/ off.fails /\ off.reason # "None"
          \/ off = Passed /\ anchors \subseteq raw.has /\ ~ Unsafe(raw)
  <2> DEFINE checks == OffChecks(raw, anchors)
  <2>1. /\ Len(checks) = 2 /\ checks[1].reason # "None" /\ checks[2].reason # "None"
        /\ checks[1].fails = (anchors \ raw.has # {}) /\ checks[2].fails = Unsafe(raw)
    BY DEF OffChecks, Check
  <2> HIDE DEF checks
  <2>2. 1..Len(checks) = {1, 2} /\ Len(checks) \in Nat
    BY <2>1
  <2> QED
    BY <2>1, <2>2, FirstFailureIs DEF checks
<1>2. LET before == FirstFailure(InputChecks(raw, anchors))
      IN  \/ before.fails /\ before.reason # "None"
          \/ before = Passed /\ anchors \subseteq raw.has /\ ~ Unsafe(raw)
  <2> DEFINE checks == InputChecks(raw, anchors)
  <2>1. /\ Len(checks) = 2 /\ checks[1].reason # "None" /\ checks[2].reason # "None"
        /\ checks[1].fails = (anchors \ raw.has # {}) /\ checks[2].fails = Unsafe(raw)
    BY DEF InputChecks, Check
  <2> HIDE DEF checks
  <2>2. 1..Len(checks) = {1, 2} /\ Len(checks) \in Nat
    BY <2>1
  <2> QED
    BY <2>1, <2>2, FirstFailureIs DEF checks
<1>3. LET after == FirstFailure(AnswerChecks(anchors, max, port))
      IN  \/ after.fails /\ after.reason # "None"
          \/ /\ after = Passed /\ anchors \subseteq port.payload.has /\ ~ Unsafe(port.payload)
             /\ anchors # {} /\ port.ok /\ ~ (port.payload.bytes > max)
  <2> DEFINE checks == AnswerChecks(anchors, max, port)
  <2>1. /\ Len(checks) = 6 /\ \A i \in {1, 2, 3, 4, 5, 6} : checks[i].reason # "None"
        /\ checks[1].fails = ~ port.ok /\ checks[3].fails = (port.payload.bytes > max) /\ checks[4].fails = (anchors = {})
        /\ checks[5].fails = (anchors \ port.payload.has # {}) /\ checks[6].fails = Unsafe(port.payload)
    BY DEF AnswerChecks, Check
  <2> HIDE DEF checks
  <2>2. 1..Len(checks) = {1, 2, 3, 4, 5, 6} /\ Len(checks) \in Nat
    BY <2>1
  <2>3. CASE \E i \in 1..Len(checks) : FirstFailure(checks) = checks[i] /\ checks[i].fails
    <3>1. PICK i \in {1, 2, 3, 4, 5, 6} : FirstFailure(checks) = checks[i] /\ checks[i].fails
      BY <2>2, <2>3, Zenon
    <3>2. FirstFailure(checks).fails /\ FirstFailure(checks).reason # "None"
      BY <2>1, <3>1, Zenon
    <3> QED
      BY <3>2, Zenon DEF checks
  <2>4. CASE FirstFailure(checks) = Passed /\ \A i \in 1..Len(checks) : ~ checks[i].fails
    <3>1. ~ checks[1].fails /\ ~ checks[3].fails /\ ~ checks[4].fails /\ ~ checks[5].fails /\ ~ checks[6].fails
      BY <2>2, <2>4
    <3>2. /\ anchors \subseteq port.payload.has /\ ~ Unsafe(port.payload)
          /\ anchors # {} /\ port.ok /\ ~ (port.payload.bytes > max)
      BY <2>1, <3>1
    <3> QED
      BY <2>4, <3>2 DEF checks
  <2> QED
    BY <2>2, <2>3, <2>4, FirstFailureIs
<1> QED
  BY <1>1, <1>2, <1>3

\* An evaluation whose receipt is accepted hands on a payload without findings
\* that has every anchor: the one it was given, or a shorter one within the
\* bound.
LEMMA AcceptedIsHonest ==
  ASSUME NEW policy, NEW raw, NEW anchors, NEW max, NEW port,
         EvaluateStage(policy, raw, anchors, max, port).ok,
         AcceptedSqz(EvaluateStage(policy, raw, anchors, max, port).receipt, EvaluateStage(policy, raw, anchors, max, port).payload)
  PROVE  LET payload == EvaluateStage(policy, raw, anchors, max, port).payload
         IN  /\ ~ Unsafe(payload) /\ anchors \subseteq payload.has
             /\ \/ payload = raw
                \/ payload = port.payload /\ port.ok /\ payload.has # {} /\ ~ (payload.bytes > max)
<1> DEFINE e == EvaluateStage(policy, raw, anchors, max, port)
           all == StageAnchors(policy, anchors)
           off == FirstFailure(OffChecks(raw, all))
           before == FirstFailure(InputChecks(raw, all))
           after == FirstFailure(AnswerChecks(all, max, port))
<1>1. e.ok /\ e.receipt.reason = "None"
  BY DEF AcceptedSqz
<1>2. e = Evaluate(policy, raw, all, max, port)
  BY <1>1 DEF EvaluateStage, Error
<1>3. ASSUME NEW check, check.reason # "None", NEW candidate PROVE Failed(policy, check, all, raw, candidate).receipt.reason # "None"
  BY <1>3 DEF Failed, Receipt, Error, HandedOn
<1>4. anchors \subseteq all /\ (policy # "PublicOff" => all # {})
  BY DEF StageAnchors
<1>p. ~ Passed.fails
  BY DEF Passed, Check
<1>o. off.fails => off.reason # "None"
  BY <1>p, ChecksNameReason
<1>b. before.fails => before.reason # "None"
  BY <1>p, ChecksNameReason
<1>a. after.fails => after.reason # "None"
  BY <1>p, ChecksNameReason
<1>5. CASE policy = "PublicOff"
  <2>1. ~ off.fails
    <3>1. CASE off.fails
      <4>1. off.reason # "None"
        BY <1>o, <3>1
      <4>2. e = Failed(policy, off, all, raw, NoPayload)
        BY <1>2, <1>5, <3>1 DEF Evaluate
      <4> QED
        BY <1>1, <1>3, <4>1, <4>2
    <3> QED
      BY <3>1
  <2>2. all \subseteq raw.has /\ ~ Unsafe(raw)
    BY <2>1, ChecksNameReason
  <2>3. e.payload = raw
    BY <1>2, <1>5, <2>1 DEF Evaluate, HandedOn
  <2> QED
    BY <1>4, <2>2, <2>3
<1>6. CASE policy # "PublicOff"
  <2>1. ~ before.fails
    <3>1. CASE before.fails
      <4>1. before.reason # "None"
        BY <1>b, <3>1
      <4>2. e = Failed(policy, before, all, raw, NoPayload)
        BY <1>2, <1>6, <3>1 DEF Evaluate
      <4> QED
        BY <1>1, <1>3, <4>1, <4>2
    <3> QED
      BY <3>1
  <2>2. ~ after.fails
    <3>1. CASE after.fails
      <4>1. after.reason # "None"
        BY <1>a, <3>1
      <4>2. e = Failed(policy, after, all, raw, port.payload)
        BY <1>2, <1>6, <2>1, <3>1 DEF Evaluate
      <4> QED
        BY <1>1, <1>3, <4>1, <4>2
    <3> QED
      BY <3>1
  <2>3. all \subseteq raw.has /\ ~ Unsafe(raw)
    BY <2>1, ChecksNameReason
  <2>4. all \subseteq port.payload.has /\ ~ Unsafe(port.payload) /\ port.ok /\ ~ (port.payload.bytes > max)
    BY <2>2, ChecksNameReason
  <2>5. e = Compressed(policy, all, raw, port.payload)
    BY <1>2, <1>6, <2>1, <2>2 DEF Evaluate
  <2>6. e.payload = raw \/ e.payload = port.payload
    BY <2>5 DEF Compressed, HandedOn
  <2> QED
    BY <1>4, <1>6, <2>3, <2>4, <2>6
<1> QED
  BY <1>5, <1>6

(***************************************************************************)
(* Receipts                                                                *)
(***************************************************************************)
LEMMA IncompleteIsValid ==
  ASSUME NEW failure, failure # "none", NEW sqzInput, NEW sqzAnswer
  PROVE  Incomplete(failure, sqzInput, sqzAnswer).state = "incomplete"
<1> DEFINE r == [state |-> "incomplete", failure |-> failure, input |-> sqzInput, answer |-> sqzAnswer,
                 inline |-> NoResult, ref |-> NoResult, grounded |-> FALSE]
<1>1. r.state = "incomplete" /\ r.failure = failure /\ r.ref = NoResult
  OBVIOUS
<1> HIDE DEF r
<1>2. ValidReceipt(r)
  BY <1>1 DEF ValidReceipt
<1> QED
  BY <1>1, <1>2 DEF Incomplete, Built, r

LEMMA AcceptedReceipt ==
  ASSUME NEW sqz, NEW payload, AcceptedSqz(sqz, payload)
  PROVE  /\ sqz.policy # "none" /\ sqz.reason = "None" /\ sqz.fidelity = "Passed" /\ sqz.dlp = "Passed"
         /\ (sqz.policy = "PublicOff") = (sqz.status = "Off")
         /\ sqz.status # "Off" => sqz.id = payload
BY DEF AcceptedSqz

\* The receipt of a call that has earned its result is one DelegationReceipt::new
\* accepts.
LEMMA CompleteIsValid ==
  ASSUME lifecycle = "Validating", InputPassed, AnswerPassed
  PROVE  Complete(Inline, Inline).state = "complete" /\ Complete(Inline, Inline).inline = Inline
<1> DEFINE r == [state |-> "complete", failure |-> "none", input |-> input.receipt, answer |-> answer.receipt,
                 inline |-> Inline, ref |-> Inline, grounded |-> request.grounding # "none"]
<1>1. r.state = "complete" /\ r.failure = "none" /\ r.inline = Inline /\ r.ref = Inline
      /\ r.input = input.receipt /\ r.answer = answer.receipt
  OBVIOUS
<1>2. Inline.answer.text = answer.payload /\ Inline # NoResult
  BY DEF Inline, NoResult, AnswerPassed
<1>3. /\ \A sqz \in {r.input, r.answer} :
            /\ sqz.policy # "none" /\ sqz.reason = "None"
            /\ sqz.fidelity = "Passed" /\ sqz.dlp = "Passed"
            /\ (sqz.policy = "PublicOff") = (sqz.status = "Off")
      /\ r.answer.status # "Off" => r.answer.id = answer.payload
  BY <1>1, AcceptedReceipt DEF InputPassed, AnswerPassed
<1> HIDE DEF r
<1>4. ValidReceipt(r)
  BY <1>1, <1>2, <1>3 DEF ValidReceipt
<1> QED
  BY <1>1, <1>4 DEF Complete, Built, r

(***************************************************************************)
(* What a step leaves alone                                                *)
(***************************************************************************)
LEMMA SameInput ==
  ASSUME UNCHANGED <<request, input>>
  PROVE  InputPassed' <=> InputPassed
BY DEF InputPassed, Anchors

LEMMA SameOutput ==
  ASSUME UNCHANGED <<request, output>>
  PROVE  (OutputCame' <=> OutputCame) /\ (SurfacePassed' <=> SurfacePassed)
BY DEF OutputCame, SurfacePassed, ClaimsAccepted

LEMMA SameClaims ==
  ASSUME UNCHANGED <<request, admitted, output>>
  PROVE  (OutputPassed' <=> OutputPassed) /\ \A i : ClaimKept(i)' <=> ClaimKept(i)
<1>1. \A i : ClaimKept(i)' <=> ClaimKept(i)
  BY DEF ClaimKept
<1>2. (OutputCame' <=> OutputCame) /\ (SurfacePassed' <=> SurfacePassed)
  BY SameOutput
<1>3. request' = request /\ output' = output
  OBVIOUS
<1> QED
  BY <1>1, <1>2, <1>3 DEF OutputPassed

LEMMA SameAnswer ==
  ASSUME UNCHANGED <<request, output, answer>>
  PROVE  (AnswerPassed' <=> AnswerPassed) /\ Inline' = Inline
BY DEF AnswerPassed, Inline

\* Before the store there is no result.
LEMMA NoResultYet ==
  ASSUME IInv, pc \notin {"readback", "returned"}
  PROVE  Results = {} /\ stored = {} /\ receipt = NoCall
BY DEF IInv, Results

\* A call that returns without a result
LEMMA FailsKeeps ==
  ASSUME IInv, NEW failure, failure # "none", NEW sqzInput, NEW sqzAnswer,
         Return(Incomplete(failure, sqzInput, sqzAnswer)), stored' = {},
         request' \in Requests, lifecycle' # "Configured" => InputPassed'
  PROVE  IInv'
<1>1. receipt'.state = "incomplete" /\ pc' = "returned"
  BY IncompleteIsValid DEF Return
<1>2. Results' = {}
  BY <1>1 DEF Results
<1>3. NoInternalError'
  BY <1>1 DEF NoInternalError
<1> QED
  BY <1>1, <1>2, <1>3 DEF IInv, Stages, Answered, Validated

\* The same, from a stage that leaves request, input and lifecycle alone
LEMMA FailKeeps ==
  ASSUME IInv, pc \notin {"start", "returned"}, NEW failure, failure # "none", NEW sqzInput, NEW sqzAnswer,
         Return(Incomplete(failure, sqzInput, sqzAnswer)), stored' = {}, UNCHANGED <<request, input, lifecycle>>
  PROVE  IInv'
<1>1. request' \in Requests /\ (lifecycle' # "Configured" => InputPassed')
  BY SameInput DEF IInv
<1> QED
  BY <1>1, FailsKeeps

\* A gate that fails names its failure.
LEMMA GatesName ==
  ASSUME NEW list, Len(list) \in Nat, \A i \in 1..Len(list) : list[i].failure # "none", FirstFailing(list) # 0
  PROVE  list[FirstFailing(list)].failure # "none"
BY FirstFailingIs

LEMMA InvokeKeeps ==
  ASSUME IInv, NEW r \in Requests, Invoke(r)
  PROVE  IInv'
<1>1. /\ pc = "start" /\ request' = r /\ stored = {} /\ receipt = NoCall /\ lifecycle = "Configured" /\ claim = 1
      /\ UNCHANGED <<lifecycle, claim, stored>>
  BY NoResultYet DEF Invoke, IInv
<1> DEFINE list == Gates(r)
<1>2. Len(list) \in Nat /\ \A i \in 1..Len(list) : list[i].failure # "none"
  <2>1. Len(list) = 10
    BY DEF Gates
  <2>2. 1..Len(list) = {1, 2, 3, 4, 5, 6, 7, 8, 9, 10}
    BY <2>1
  <2>3. \A i \in {1, 2, 3, 4, 5, 6, 7, 8, 9, 10} : list[i].failure # "none"
    BY DEF Gates, Gate
  <2> QED
    BY <2>1, <2>2, <2>3
<1>3. FirstGate(r) = FirstFailing(list)
  BY DEF FirstGate, FirstFailing
<1> HIDE DEF list
<1>4. CASE FirstGate(r) = 0
  <2>1. pc' = "input" /\ receipt' = receipt
    BY <1>4 DEF Invoke
  <2>2. Results' = {} /\ NoInternalError'
    BY <1>1, <2>1 DEF Results, NoCall, NoInternalError
  <2> QED
    BY <1>1, <2>1, <2>2 DEF IInv, Stages, Answered, Validated
<1>5. CASE FirstGate(r) # 0
  <2>1. Return(Incomplete(list[FirstGate(r)].failure, NoReceipt, NoReceipt))
    BY <1>5 DEF Invoke, list
  <2>2. list[FirstGate(r)].failure # "none"
    BY <1>2, <1>3, <1>5, GatesName
  <2> QED
    BY <1>1, <2>1, <2>2, FailsKeeps
<1> QED
  BY <1>4, <1>5

LEMMA EvaluateInputKeeps ==
  ASSUME IInv, NEW port \in PortAnswers, EvaluateInput(port)
  PROVE  IInv'
<1> DEFINE e == EvaluateStage(request.policy, request.prompt, Anchors(request), request.maxOutput, port)
           list == InputFailures(e)
           i == FirstFailing(list)
<1>1. /\ pc = "input" /\ stored = {} /\ receipt = NoCall /\ claim = 1 /\ request \in Requests
      /\ input' = e /\ UNCHANGED <<request, claim, stored>> /\ lifecycle = "Configured"
  BY NoResultYet DEF EvaluateInput, IInv
<1>2. i = SelectInSeq(list, LAMBDA g : g.fails)
  BY DEF FirstFailing
<1>3. CASE i = 0
  <2>1. pc' = "provider" /\ lifecycle' = "Running" /\ receipt' = receipt
    BY <1>2, <1>3 DEF EvaluateInput
  <2>2. Len(list) \in Nat
    BY DEF InputFailures
  <2>3. e.ok
    <3>1. ASSUME ~ e.ok PROVE FALSE
      <4>1. list = <<Gate(TRUE, InputError)>>
        BY <3>1 DEF InputFailures
      <4>2. Len(list) = 1 /\ list[1].fails
        BY <4>1 DEF Gate
      <4> QED
        BY <1>3, <2>2, <4>2, FirstFailingIs
    <3> QED
      BY <3>1
  <2>4. AcceptedSqz(e.receipt, e.payload)
    <3>1. Len(list) = 3 /\ (list[2].fails = ~ AcceptedSqz(e.receipt, e.payload))
      BY <2>3 DEF InputFailures, Gate
    <3>2. ~ list[2].fails
      BY <1>3, <2>2, <3>1, FirstFailingIs
    <3> QED
      BY <3>1, <3>2
  <2>5. ~ Unsafe(e.payload) /\ Anchors(request) \subseteq e.payload.has
    BY <2>3, <2>4, AcceptedIsHonest
  <2>6. InputPassed'
    <3> HIDE DEF e
    <3>1. Anchors(request)' = Anchors(request)
      BY <1>1
    <3> QED
      BY <1>1, <2>4, <2>5, <3>1 DEF InputPassed
  <2>7. Results' = {} /\ NoInternalError'
    BY <1>1, <2>1 DEF Results, NoCall, NoInternalError
  <2> QED
    BY <1>1, <2>1, <2>6, <2>7 DEF IInv, Stages, Answered, Validated
<1>4. CASE i # 0
  <2>1. Return(Incomplete(list[i].failure, e.receipt, NoReceipt)) /\ lifecycle' = lifecycle
    BY <1>2, <1>4 DEF EvaluateInput
  <2>2. Len(list) \in Nat /\ \A j \in 1..Len(list) : list[j].failure # "none"
    <3>1. CASE e.ok
      <4>1. Len(list) = 3 /\ \A j \in {1, 2, 3} : list[j].failure # "none"
        BY <3>1 DEF InputFailures, Gate
      <4> HIDE DEF list
      <4> QED
        BY <4>1
    <3>2. CASE ~ e.ok
      <4>1. Len(list) = 1 /\ list[1].failure # "none"
        BY <3>2 DEF InputFailures, Gate, InputError
      <4> HIDE DEF list
      <4> QED
        BY <4>1
    <3> QED
      BY <3>1, <3>2
  <2>3. list[i].failure # "none"
    BY <1>4, <2>2, GatesName
  <2> QED
    BY <1>1, <2>1, <2>3, FailsKeeps
<1> QED
  BY <1>3, <1>4

LEMMA ProviderKeeps ==
  ASSUME IInv, ProviderFails \/ \E o \in Outputs : ProviderAnswers(o)
  PROVE  IInv'
<1>1. pc = "provider" /\ stored = {} /\ receipt = NoCall /\ UNCHANGED <<request, input, claim, stored>>
      /\ lifecycle = "Running" /\ claim = 1 /\ InputPassed
  BY NoResultYet DEF ProviderFails, ProviderAnswers, IInv
<1>2. CASE ProviderFails
  <2>1. PICK failure \in ProviderErrors : Fail(failure)
    BY <1>2 DEF ProviderFails
  <2>2. failure # "none"
    BY DEF ProviderErrors
  <2> QED
    BY <1>1, <1>2, <2>1, <2>2, FailKeeps DEF Fail, ProviderFails
<1>3. ASSUME NEW o \in Outputs, ProviderAnswers(o) PROVE IInv'
  <2>1. output' = o /\ ValidOutput(o) /\ o.answer.text.bytes <= request.maxOutput /\ lifecycle' = "Validating"
        /\ pc' = "validate" /\ receipt' = receipt
    BY <1>3 DEF ProviderAnswers
  <2>2. OutputCame'
    BY <1>1, <2>1 DEF OutputCame, ValidOutput
  <2>3. InputPassed'
    BY <1>1, SameInput
  <2>4. Results' = {} /\ NoInternalError'
    BY <1>1, <2>1 DEF Results, NoCall, NoInternalError
  <2> QED
    BY <1>1, <2>1, <2>2, <2>3, <2>4 DEF IInv, Stages, Answered, Validated
<1> QED
  BY <1>2, <1>3

\* Two lists of gates passed one after the other: passing both is passing each,
\* and the failure is one of theirs.
LEMMA JoinedGates ==
  ASSUME NEW S, NEW a \in Seq(S), NEW b \in Seq(S),
         \A i \in 1..Len(a) : a[i].failure # "none", \A i \in 1..Len(b) : b[i].failure # "none"
  PROVE  /\ FirstFailing(a \o b) = 0 => /\ \A i \in 1..Len(a) : ~ a[i].fails
                                        /\ \A i \in 1..Len(b) : ~ b[i].fails
         /\ FirstFailing(a \o b) # 0 => (a \o b)[FirstFailing(a \o b)].failure # "none"
<1> DEFINE c == a \o b
           m == Len(a)
           n == Len(b)
<1>1. /\ m \in Nat /\ n \in Nat /\ Len(c) = m + n
      /\ \A i \in 1..(m + n) : c[i] = IF i <= m THEN a[i] ELSE b[i - m]
  OBVIOUS
<1>2. (\A i \in 1..m : a[i].failure # "none") /\ (\A i \in 1..n : b[i].failure # "none")
  OBVIOUS
<1> HIDE DEF c, m, n
<1>3. \A i \in 1..m : i \in 1..(m + n) /\ c[i] = a[i]
  BY <1>1
<1>4. \A i \in 1..n : m + i \in 1..(m + n) /\ c[m + i] = b[i]
  <2>1. ASSUME NEW i \in 1..n PROVE m + i \in 1..(m + n) /\ c[m + i] = b[i]
    <3>1. m + i \in 1..(m + n) /\ ~ (m + i <= m) /\ (m + i) - m = i
      BY <1>1
    <3> QED
      BY <1>1, <3>1
  <2> QED
    BY <2>1
<1>5. \A i \in 1..(m + n) : c[i].failure # "none"
  <2>1. ASSUME NEW i \in 1..(m + n), ~ (i <= m) PROVE i - m \in 1..n
    BY <1>1, <2>1
  <2>2. ASSUME NEW i \in 1..(m + n), i <= m PROVE i \in 1..m
    BY <1>1, <2>2
  <2> QED
    BY <1>1, <1>2, <2>1, <2>2
<1>6. Len(c) \in Nat
  BY <1>1
<1>7. FirstFailing(c) = 0 => (\A i \in 1..m : ~ a[i].fails) /\ (\A i \in 1..n : ~ b[i].fails)
  BY <1>1, <1>3, <1>4, <1>6, FirstFailingIs
<1>8. FirstFailing(c) # 0 => c[FirstFailing(c)].failure # "none"
  BY <1>1, <1>5, <1>6, GatesName
<1> QED
  BY <1>7, <1>8 DEF c, m, n

\* The gates of the budget: a call with a ceiling gets past them only when the
\* provider enforced it and kept it.
LEMMA BudgetGates ==
  ASSUME request \in Requests, OutputCame
  PROVE  /\ BudgetFailures \in Seq({BudgetFailures[1], BudgetFailures[2]}) /\ Len(BudgetFailures) \in Nat
         /\ \A i \in 1..Len(BudgetFailures) : BudgetFailures[i].failure # "none"
         /\ (\A i \in 1..Len(BudgetFailures) : ~ BudgetFailures[i].fails)
              => (request.ceiling # 0 => output.enforced = request.ceiling /\ output.tokens <= request.ceiling)
<1> DEFINE b == BudgetFailures
<1>1. CASE request.ceiling = 0
  <2>1. b = <<>>
    BY <1>1 DEF BudgetFailures
  <2> QED
    BY <1>1, <2>1
<1>2. CASE request.ceiling # 0
  <2>1. b = <<Gate(output.enforced # request.ceiling, "TokenBudgetUnattested"),
              Gate(output.tokens > request.ceiling, "TokenCeilingExceeded")>>
    BY <1>2 DEF BudgetFailures
  <2>2. Len(b) = 2 /\ b \in Seq({b[1], b[2]}) /\ b[1].failure # "none" /\ b[2].failure # "none"
        /\ b[1].fails = (output.enforced # request.ceiling) /\ b[2].fails = (output.tokens > request.ceiling)
    BY <2>1 DEF Gate
  <2>3. request.ceiling \in Nat /\ output.tokens \in Nat
    BY InputAssumption DEF OutputCame
  <2> HIDE DEF b
  <2>4. 1..Len(b) = {1, 2} /\ Len(b) \in Nat
    BY <2>2
  <2>5. (\A i \in 1..Len(b) : ~ b[i].fails) => output.enforced = request.ceiling /\ output.tokens <= request.ceiling
    <3>1. ASSUME \A i \in 1..Len(b) : ~ b[i].fails PROVE ~ b[1].fails /\ ~ b[2].fails
      BY <2>4, <3>1
    <3>2. ASSUME \A i \in 1..Len(b) : ~ b[i].fails PROVE ~ (output.enforced # request.ceiling) /\ ~ (output.tokens > request.ceiling)
      BY <2>2, <3>1, <3>2, Zenon
    <3> QED
      BY <2>3, <3>2
  <2>6. \A i \in 1..Len(b) : b[i].failure # "none"
    BY <2>2, <2>4
  <2> QED
    BY <2>2, <2>4, <2>5, <2>6 DEF b
<1> QED
  BY <1>1, <1>2

\* The gates of the output's surface
LEMMA SurfaceGates ==
  /\ Surfaces \in Seq({Surfaces[1], Surfaces[2], Surfaces[3], Surfaces[4]}) /\ Len(Surfaces) \in Nat
  /\ \A i \in 1..Len(Surfaces) : Surfaces[i].failure # "none"
  /\ (\A i \in 1..Len(Surfaces) : ~ Surfaces[i].fails) => SurfacePassed
<1> DEFINE s == Surfaces
<1>1. /\ Len(s) = 4 /\ s \in Seq({s[1], s[2], s[3], s[4]})
      /\ s[1].failure # "none" /\ s[2].failure # "none" /\ s[3].failure # "none" /\ s[4].failure # "none"
      /\ s[1].fails = output.unsafe
      /\ s[4].fails = (request.grounding # "none" /\ ~ ClaimsAccepted)
  BY DEF Surfaces, Gate
<1> HIDE DEF s
<1>2. 1..Len(s) = {1, 2, 3, 4} /\ Len(s) \in Nat
  BY <1>1
<1>3. \A i \in 1..Len(s) : s[i].failure # "none"
  BY <1>1, <1>2
<1>4. (\A i \in 1..Len(s) : ~ s[i].fails) => SurfacePassed
  <2>1. ASSUME \A i \in 1..Len(s) : ~ s[i].fails PROVE ~ s[1].fails /\ ~ s[4].fails
    BY <1>2, <2>1
  <2> QED
    BY <1>1, <2>1 DEF SurfacePassed
<1> QED
  BY <1>1, <1>2, <1>3, <1>4 DEF s

LEMMA ValidateKeeps ==
  ASSUME IInv, Validate
  PROVE  IInv'
<1> DEFINE budget == IF request.grounding = "none" THEN BudgetFailures ELSE <<>>
           list == Surfaces \o budget
           i == FirstFailing(list)
<1>1. /\ pc = "validate" /\ stored = {} /\ receipt = NoCall /\ claim = 1 /\ request \in Requests
      /\ lifecycle = "Validating" /\ OutputCame /\ InputPassed
      /\ UNCHANGED <<request, admitted, input, output, claim, lifecycle, stored>>
  BY NoResultYet DEF Validate, IInv, Answered
<1>2. i = SelectInSeq(list, LAMBDA g : g.fails)
  BY DEF FirstFailing
<1>3. /\ \E S : budget \in Seq(S) /\ Surfaces \in Seq(S)
      /\ \A j \in 1..Len(budget) : budget[j].failure # "none"
      /\ \A j \in 1..Len(Surfaces) : Surfaces[j].failure # "none"
  <2> DEFINE S == {Surfaces[1], Surfaces[2], Surfaces[3], Surfaces[4], BudgetFailures[1], BudgetFailures[2]}
  <2>1. Surfaces \in Seq(S)
    BY SurfaceGates
  <2>2. CASE request.grounding = "none"
    <3>1. budget = BudgetFailures
      BY <2>2
    <3>2. BudgetFailures \in Seq(S)
      BY <1>1, BudgetGates
    <3> HIDE DEF budget, S
    <3> QED
      BY <1>1, <2>1, <3>1, <3>2, BudgetGates, SurfaceGates
  <2>3. CASE request.grounding # "none"
    <3>1. budget = <<>>
      BY <2>3
    <3> HIDE DEF budget, S
    <3>2. budget \in Seq(S) /\ Len(budget) = 0
      BY <3>1
    <3> QED
      BY <2>1, <3>2, SurfaceGates
  <2> QED
    BY <2>2, <2>3
<1>4. PICK S : budget \in Seq(S) /\ Surfaces \in Seq(S)
  BY <1>3
<1>5. /\ i = 0 => /\ \A j \in 1..Len(Surfaces) : ~ Surfaces[j].fails
                  /\ \A j \in 1..Len(budget) : ~ budget[j].fails
      /\ i # 0 => list[i].failure # "none"
  <2> HIDE DEF budget
  <2> QED
    BY <1>3, <1>4, JoinedGates
<1>6. CASE i = 0
  <2>1. pc' = (IF request.grounding = "none" THEN "answer" ELSE "claims") /\ receipt' = receipt
    BY <1>2, <1>6 DEF Validate
  <2>2. SurfacePassed
    BY <1>5, <1>6, SurfaceGates
  <2>3. request.grounding = "none" => OutputPassed
    <3>1. CASE request.grounding = "none"
      <4>1. \A j \in 1..Len(BudgetFailures) : ~ BudgetFailures[j].fails
        BY <1>5, <1>6, <3>1
      <4>2. request.ceiling # 0 => output.enforced = request.ceiling /\ output.tokens <= request.ceiling
        BY <1>1, <4>1, BudgetGates
      <4> QED
        BY <1>1, <2>2, <3>1, <4>2 DEF OutputPassed
    <3> QED
      BY <3>1
  <2>4. request.grounding # "none" => 1 \in 1..Len(output.claims)
    <3>1. request.grounding # "none" => output.claims # <<>>
      BY <2>2 DEF SurfacePassed, ClaimsAccepted
    <3>2. Len(output.claims) \in Nat /\ (output.claims # <<>> => Len(output.claims) > 0)
      BY <1>1, InputAssumption DEF OutputCame
    <3> QED
      BY <3>1, <3>2
  <2>5. OutputCame' /\ SurfacePassed' /\ InputPassed' /\ (request.grounding = "none" => OutputPassed')
    BY <1>1, <2>2, <2>3, SameInput, SameOutput, SameClaims
  <2>6. Results' = {} /\ NoInternalError'
    BY <1>1, <2>1 DEF Results, NoCall, NoInternalError
  <2>7. CASE request.grounding = "none"
    <3>1. pc' = "answer"
      BY <2>1, <2>7
    <3> QED
      BY <1>1, <2>1, <2>5, <2>6, <2>7, <3>1 DEF IInv, Stages, Answered, Validated
  <2>8. CASE request.grounding # "none"
    <3>1. pc' = "claims" /\ claim' = 1 /\ output' = output /\ request' = request
      BY <1>1, <2>1, <2>8
    <3>2. (claim \in 1..Len(output.claims) /\ \A j \in 1..(claim - 1) : ClaimKept(j))'
      <4>1. 1..(claim' - 1) = {}
        BY <3>1
      <4> QED
        BY <2>4, <2>8, <3>1, <4>1
    <3> QED
      BY <1>1, <2>1, <2>5, <2>6, <2>8, <3>1, <3>2 DEF IInv, Stages, Answered, Validated
  <2> QED
    BY <2>7, <2>8
<1>7. CASE i # 0
  <2>1. Fail(list[i].failure)
    BY <1>2, <1>7 DEF Validate
  <2> QED
    BY <1>1, <1>5, <1>7, <2>1, FailKeeps DEF Fail
<1> QED
  BY <1>6, <1>7

LEMMA VerifyClaimKeeps ==
  ASSUME IInv, VerifyClaim
  PROVE  IInv'
<1> DEFINE c == output.claims[claim]
           i == FirstFailing(BudgetFailures)
<1>1. /\ pc = "claims" /\ stored = {} /\ receipt = NoCall /\ request \in Requests
      /\ lifecycle = "Validating" /\ OutputCame /\ InputPassed /\ SurfacePassed /\ request.grounding # "none"
      /\ claim \in 1..Len(output.claims) /\ (\A j \in 1..(claim - 1) : ClaimKept(j))
      /\ UNCHANGED <<request, admitted, input, output, lifecycle, stored>>
  BY NoResultYet DEF VerifyClaim, IInv, Validated, Answered
<1>2. i = SelectInSeq(BudgetFailures, LAMBDA g : g.fails)
  BY DEF FirstFailing
<1>3. Len(output.claims) \in Nat
  BY <1>1, InputAssumption DEF OutputCame
<1>4. OutputCame' /\ SurfacePassed' /\ InputPassed' /\ (OutputPassed' <=> OutputPassed) /\ \A j : ClaimKept(j)' <=> ClaimKept(j)
  BY <1>1, SameInput, SameOutput, SameClaims
<1>5. CASE ~ ClaimVerified(c)
  <2>1. Fail("ClaimUnsupported")
    BY <1>5 DEF VerifyClaim
  <2> QED
    BY <1>1, <2>1, FailKeeps DEF Fail
<1>6. CASE ClaimVerified(c)
  <2>1. ClaimKept(claim)
    BY <1>6 DEF ClaimVerified, ClaimKept
  <2>2. \A j \in 1..claim : ClaimKept(j)
    <3>1. \A j \in 1..claim : j = claim \/ j \in 1..(claim - 1)
      BY <1>1, <1>3
    <3> QED
      BY <1>1, <2>1, <3>1
  <2>3. CASE claim # Len(output.claims)
    <3>1. claim' = claim + 1 /\ pc' = pc /\ receipt' = receipt
      BY <1>6, <2>3 DEF VerifyClaim
    <3>2. (claim \in 1..Len(output.claims) /\ \A j \in 1..(claim - 1) : ClaimKept(j))'
      <4>1. claim' \in 1..Len(output.claims) /\ claim' - 1 = claim
        BY <1>1, <1>3, <2>3, <3>1
      <4> QED
        BY <1>1, <1>4, <2>2, <4>1
    <3>3. Results' = {} /\ NoInternalError'
      BY <1>1, <3>1 DEF Results, NoCall, NoInternalError
    <3> QED
      BY <1>1, <1>4, <3>1, <3>2, <3>3 DEF IInv, Stages, Answered, Validated
  <2>4. CASE claim = Len(output.claims)
    <3>1. CASE i = 0
      <4>1. pc' = "answer" /\ receipt' = receipt
        BY <1>2, <1>6, <2>4, <3>1 DEF VerifyClaim
      <4>2. \A j \in 1..Len(BudgetFailures) : ~ BudgetFailures[j].fails
        BY <1>1, <3>1, BudgetGates, FirstFailingIs
      <4>3. request.ceiling # 0 => output.enforced = request.ceiling /\ output.tokens <= request.ceiling
        BY <1>1, <4>2, BudgetGates
      <4>4. OutputPassed
        BY <1>1, <2>2, <2>4, <4>3 DEF OutputPassed
      <4>5. Results' = {} /\ NoInternalError'
        BY <1>1, <4>1 DEF Results, NoCall, NoInternalError
      <4> QED
        BY <1>1, <1>4, <4>1, <4>4, <4>5 DEF IInv, Stages, Answered, Validated
    <3>2. CASE i # 0
      <4>1. Fail(BudgetFailures[i].failure)
        BY <1>2, <1>6, <2>4, <3>2 DEF VerifyClaim
      <4>2. BudgetFailures[i].failure # "none"
        BY <1>1, <3>2, BudgetGates, GatesName
      <4> QED
        BY <1>1, <4>1, <4>2, FailKeeps DEF Fail
    <3> QED
      BY <3>1, <3>2
  <2> QED
    BY <2>3, <2>4
<1> QED
  BY <1>5, <1>6

LEMMA EvaluateAnswerKeeps ==
  ASSUME IInv, NEW port \in PortAnswers, EvaluateAnswer(port)
  PROVE  IInv'
<1> DEFINE e == EvaluateStage(request.policy, output.answer.text, {}, request.maxOutput, port)
           list == AnswerFailures(e)
           i == FirstFailing(list)
<1>1. /\ pc = "answer" /\ stored = {} /\ receipt = NoCall /\ request \in Requests
      /\ lifecycle = "Validating" /\ OutputCame /\ InputPassed /\ SurfacePassed /\ OutputPassed
      /\ answer' = e /\ UNCHANGED <<request, admitted, input, output, lifecycle, stored>>
  BY NoResultYet DEF EvaluateAnswer, IInv, Validated, Answered
<1>2. i = SelectInSeq(list, LAMBDA g : g.fails)
  BY DEF FirstFailing
<1>3. CASE i = 0
  <2>1. pc' = "store" /\ receipt' = receipt
    BY <1>2, <1>3 DEF EvaluateAnswer
  <2>2. Len(list) \in Nat
    BY DEF AnswerFailures
  <2>3. e.ok
    <3>1. ASSUME ~ e.ok PROVE FALSE
      <4>1. list = <<Gate(TRUE, OutputError(e))>>
        BY <3>1 DEF AnswerFailures
      <4>2. Len(list) = 1 /\ list[1].fails
        BY <4>1 DEF Gate
      <4> QED
        BY <1>3, <2>2, <4>2, FirstFailingIs
    <3> QED
      BY <3>1
  <2>4. AcceptedSqz(e.receipt, e.payload) /\ (request.grounding # "none" => e.payload = output.answer.text)
    <3>1. Len(list) = 2 /\ (list[1].fails = ~ AcceptedSqz(e.receipt, e.payload))
          /\ (list[2].fails = (request.grounding # "none" /\ e.payload # output.answer.text))
      BY <2>3 DEF AnswerFailures, Gate
    <3>2. ~ list[1].fails /\ ~ list[2].fails
      BY <1>3, <2>2, <3>1, FirstFailingIs
    <3> QED
      BY <3>1, <3>2
  <2>5. ~ Unsafe(e.payload) /\ \/ e.payload = output.answer.text
                               \/ e.payload = port.payload /\ port.ok /\ e.payload.has # {} /\ ~ (e.payload.bytes > request.maxOutput)
    BY <2>3, <2>4, AcceptedIsHonest
  <2> HIDE DEF e
  <2>6. e.payload # NoPayload /\ e.payload.bytes <= request.maxOutput
    <3>1. CASE e.payload = output.answer.text
      <4>1. output.answer.text.bytes >= 1 /\ output.answer.text.bytes <= request.maxOutput
        BY <1>1 DEF OutputCame, ValidOutput
      <4>2. NoPayload.bytes = 0
        BY DEF NoPayload
      <4>3. output.answer.text # NoPayload
        BY <4>1, <4>2
      <4> QED
        BY <3>1, <4>1, <4>3
    <3>2. CASE e.payload = port.payload /\ port.ok /\ e.payload.has # {} /\ ~ (e.payload.bytes > request.maxOutput)
      <4>1. port.payload \in Candidates
        BY <3>2 DEF PortAnswers, PortAnswer, PortError
      <4>2. e.payload.bytes \in Nat /\ request.maxOutput \in Nat
        BY <1>1, <3>2, <4>1, InputAssumption
      <4>3. NoPayload.has = {}
        BY DEF NoPayload
      <4> QED
        BY <3>2, <4>2, <4>3
    <3> QED
      BY <2>5, <3>1, <3>2
  <2>7. AnswerPassed'
    BY <1>1, <2>4, <2>5, <2>6 DEF AnswerPassed
  <2>8. OutputCame' /\ SurfacePassed' /\ InputPassed' /\ OutputPassed'
    BY <1>1, SameInput, SameOutput, SameClaims
  <2>9. Results' = {} /\ NoInternalError'
    BY <1>1, <2>1 DEF Results, NoCall, NoInternalError
  <2> QED
    BY <1>1, <2>1, <2>7, <2>8, <2>9 DEF IInv, Stages, Answered, Validated
<1>4. CASE i # 0
  <2>1. Return(Incomplete(list[i].failure, input.receipt, e.receipt))
    BY <1>2, <1>4 DEF EvaluateAnswer
  <2>2. Len(list) \in Nat /\ \A j \in 1..Len(list) : list[j].failure # "none"
    <3>1. CASE e.ok
      <4>1. Len(list) = 2 /\ \A j \in {1, 2} : list[j].failure # "none"
        BY <3>1 DEF AnswerFailures, Gate
      <4> HIDE DEF list
      <4> QED
        BY <4>1
    <3>2. CASE ~ e.ok
      <4>1. Len(list) = 1 /\ list[1].failure # "none"
        BY <3>2 DEF AnswerFailures, Gate, OutputError
      <4> HIDE DEF list
      <4> QED
        BY <4>1
    <3> QED
      BY <3>1, <3>2
  <2>3. list[i].failure # "none"
    BY <1>4, <2>2, GatesName
  <2> QED
    BY <1>1, <2>1, <2>3, FailKeeps
<1> QED
  BY <1>3, <1>4

LEMMA StoreKeeps ==
  ASSUME IInv, StoreRefuses \/ PutBatch
  PROVE  IInv'
<1>1. /\ pc = "store" /\ stored = {} /\ receipt = NoCall /\ request \in Requests
      /\ lifecycle = "Validating" /\ OutputCame /\ InputPassed /\ SurfacePassed /\ OutputPassed /\ AnswerPassed
      /\ UNCHANGED <<request, admitted, input, output, answer, lifecycle>>
  BY NoResultYet DEF StoreRefuses, PutBatch, IInv, Validated, Answered
<1>2. CASE StoreRefuses
  <2>1. Fail("ResultStoreFailed") /\ stored' = stored
    BY <1>2 DEF StoreRefuses
  <2> QED
    BY <1>1, <2>1, FailKeeps DEF Fail
<1>3. CASE PutBatch
  <2>1. stored' = {Inline} /\ pc' = "readback" /\ receipt' = receipt
    BY <1>3 DEF PutBatch
  <2>2. OutputCame' /\ SurfacePassed' /\ InputPassed' /\ OutputPassed' /\ AnswerPassed' /\ Inline' = Inline
    BY <1>1, SameInput, SameOutput, SameClaims, SameAnswer
  <2>3. Results' = {Inline'} /\ NoInternalError' /\ Earned'
    BY <1>1, <2>1, <2>2 DEF Results, NoCall, NoInternalError, Earned
  <2> QED
    BY <1>1, <2>1, <2>2, <2>3 DEF IInv, Stages, Answered, Validated
<1> QED
  BY <1>2, <1>3

LEMMA ReadBackKeeps ==
  ASSUME IInv, ReadBack
  PROVE  IInv'
<1>1. /\ pc = "readback" /\ receipt = NoCall /\ request \in Requests
      /\ lifecycle = "Validating" /\ OutputCame /\ InputPassed /\ SurfacePassed /\ OutputPassed /\ AnswerPassed
      /\ stored \subseteq {Inline}
      /\ UNCHANGED <<request, admitted, input, output, answer, stored>>
  BY DEF ReadBack, IInv, Validated, Answered, Results
<1>2. CASE Inline \in stored
  <2>1. pc' = "returned" /\ receipt' = Complete(Inline, Inline)
    BY <1>2 DEF ReadBack, Return
  <2>2. receipt'.state = "complete" /\ receipt'.inline = Inline
    BY <1>1, <2>1, CompleteIsValid
  <2>3. OutputCame' /\ SurfacePassed' /\ InputPassed' /\ OutputPassed' /\ AnswerPassed' /\ Inline' = Inline
    BY <1>1, SameInput, SameOutput, SameClaims, SameAnswer
  <2>4. Results' \subseteq {Inline'} /\ NoInternalError' /\ Earned'
    BY <1>1, <2>2, <2>3 DEF Results, NoInternalError, Earned
  <2> QED
    BY <1>1, <2>1, <2>3, <2>4 DEF IInv, Stages, Answered, Validated
<1>3. CASE Inline \notin stored
  <2>1. Fail("ResultStoreFailed") /\ lifecycle' = lifecycle /\ stored' = {}
    BY <1>1, <1>3 DEF ReadBack
  <2> QED
    BY <1>1, <2>1, FailKeeps DEF Fail
<1> QED
  BY <1>2, <1>3

\* Other programs, and steps that change nothing: no stage is passed, and a
\* result can only go.
LEMMA OthersKeep ==
  ASSUME IInv, UNCHANGED <<pc, request, admitted, input, output, claim, answer, lifecycle, receipt>>,
         stored' = stored \/ stored' = {}
  PROVE  IInv'
<1>1. /\ (OutputCame' <=> OutputCame) /\ (SurfacePassed' <=> SurfacePassed) /\ (InputPassed' <=> InputPassed)
      /\ (OutputPassed' <=> OutputPassed) /\ (AnswerPassed' <=> AnswerPassed) /\ Inline' = Inline
      /\ \A i : ClaimKept(i)' <=> ClaimKept(i)
  BY SameInput, SameOutput, SameClaims, SameAnswer
<1>2. Results' \subseteq Results /\ (NoInternalError' <=> NoInternalError) /\ (Earned' <=> Earned)
  BY <1>1 DEF Results, NoInternalError, Earned
<1> QED
  BY <1>1, <1>2 DEF IInv

LEMMA NextKeeps ==
  ASSUME IInv, [Next]_vars
  PROVE  IInv'
<1>1. CASE \E r \in Requests : Invoke(r)
  BY <1>1, InvokeKeeps
<1>2. CASE \E port \in PortAnswers : EvaluateInput(port) \/ EvaluateAnswer(port)
  BY <1>2, EvaluateInputKeeps, EvaluateAnswerKeeps
<1>3. CASE ProviderFails \/ \E o \in Outputs : ProviderAnswers(o)
  BY <1>3, ProviderKeeps
<1>4. CASE Validate
  BY <1>4, ValidateKeeps
<1>5. CASE VerifyClaim
  BY <1>5, VerifyClaimKeeps
<1>6. CASE StoreRefuses \/ PutBatch
  BY <1>6, StoreKeeps
<1>7. CASE ReadBack
  BY <1>7, ReadBackKeeps
<1>8. CASE \E l \in Locators, content \in Contents : EditFile(l, content)
  BY <1>8, OthersKeep DEF EditFile
<1>9. CASE \E l \in DOMAIN files : RemoveFile(l)
  BY <1>9, OthersKeep DEF RemoveFile
<1>10. CASE Evict
  BY <1>10, OthersKeep DEF Evict
<1>11. CASE UNCHANGED vars
  BY <1>11, OthersKeep DEF vars
<1> QED
  BY <1>1, <1>2, <1>3, <1>4, <1>5, <1>6, <1>7, <1>8, <1>9, <1>10, <1>11 DEF Next

(***************************************************************************)
(* The theorems                                                            *)
(***************************************************************************)

\* Every stage of a call rests on what the stages before it have established,
\* and only a call that has passed all of them has a result.
THEOREM Invariant ==
  Spec => []IInv
<1>1. Init => IInv
  <2>1. ASSUME Init PROVE Results = {} /\ NoInternalError
    BY <2>1 DEF Init, Results, NoCall, NoInternalError
  <2> QED
    BY <2>1 DEF Init, IInv, Stages, Answered, Validated
<1>2. IInv /\ [Next]_vars => IInv'
  BY NextKeeps
<1> QED
  BY <1>1, <1>2, PTL DEF Spec

\* AgentRuntimeInternalError "should be unreachable" (coordinator.rs): whatever
\* the compressor, the provider, the files and the store do, the receipt a call
\* builds is one DelegationReceipt::new accepts.
THEOREM NeverInternalError ==
  Spec => []NoInternalError
<1>1. IInv => NoInternalError
  BY DEF IInv
<1> QED
  BY <1>1, Invariant, PTL

LEMMA GroundedFollows ==
  ASSUME IInv
  PROVE  ResultIsGrounded
<1>1. ASSUME NEW result \in Results PROVE Earned /\ result = Inline
  BY DEF IInv
<1>2. GroundedResult
  <2>1. SUFFICES ASSUME request.grounding # "none", NEW result \in Results
                 PROVE  /\ result.claims # <<>>
                        /\ result.answer.says = [i \in 1..Len(result.claims) |-> result.claims[i].support]
                        /\ \A i \in 1..Len(result.claims) :
                              LET c == result.claims[i]
                              IN  /\ c.locator \in result.citations
                                  /\ c.locator \in DOMAIN admitted
                                  /\ c.support \in admitted[c.locator]
    BY DEF GroundedResult
  <2>2. ClaimsAccepted /\ answer.payload = output.answer.text /\ \A i \in 1..Len(output.claims) : ClaimKept(i)
    BY <1>1, <2>1 DEF Earned, OutputPassed, SurfacePassed, AnswerPassed
  <2>3. result.claims = output.claims /\ result.citations = output.citations /\ result.answer.says = output.answer.says
    BY <1>1, <2>2 DEF Inline
  <2>4. result.claims # <<>> /\ result.answer.says = [i \in 1..Len(result.claims) |-> result.claims[i].support]
    BY <2>2, <2>3 DEF ClaimsAccepted
  <2>5. ASSUME NEW i \in 1..Len(output.claims)
        PROVE  /\ output.claims[i].locator \in output.citations
               /\ output.claims[i].locator \in DOMAIN admitted
               /\ output.claims[i].support \in admitted[output.claims[i].locator]
    BY <2>2 DEF ClaimsAccepted, ClaimKept
  <2> QED
    BY <2>3, <2>4, <2>5
<1>3. OnlyCheckedTextsPass
  <2>1. lifecycle # "Configured" => ~ Unsafe(input.payload) /\ Anchors(request) \subseteq input.payload.has
    BY DEF IInv, InputPassed
  <2>2. ASSUME NEW result \in Results
        PROVE  /\ ~ Unsafe(result.answer.text) /\ ~ output.unsafe
               /\ result.answer.text.bytes <= request.maxOutput
               /\ request.ceiling # 0 => output.enforced = request.ceiling /\ output.tokens <= request.ceiling
    <3>1. result.answer.text = answer.payload
      BY <1>1 DEF Inline
    <3> QED
      BY <1>1, <3>1 DEF Earned, OutputPassed, SurfacePassed, AnswerPassed
  <2> QED
    BY <2>1, <2>2 DEF OnlyCheckedTextsPass
<1> QED
  BY <1>2, <1>3 DEF ResultIsGrounded

\* What a call stores or returns is grounded and checked: a grounded answer is
\* its claims and nothing else, each cited and in its file as the request
\* admitted it, however the files change while the call runs; and under every
\* compression policy no text with findings and no answer past its limits
\* passes.
THEOREM ResultsAlwaysGrounded ==
  Spec => []ResultIsGrounded
<1>1. IInv => ResultIsGrounded
  BY GroundedFollows
<1> QED
  BY <1>1, Invariant, PTL
=============================================================================
