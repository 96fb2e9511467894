---------------------------- MODULE AgentRuntime ----------------------------
(***************************************************************************)
(* One agent call, AgentRuntime::invoke (bran-core/agent/coordinator.rs):  *)
(* the gates of the request, the compression of the prompt, the provider,  *)
(* the validation of its answer against the grounding contract, the        *)
(* compression of the answer, the result store and the receipt.  While the *)
(* call runs, other programs edit the files the answer may cite and evict  *)
(* what the store holds.                                                   *)
(*                                                                         *)
(* Texts are payloads of SqzAdapter.  An answer's text is the claims it    *)
(* consists of (says), so that "the answer is the claims' texts joined" is *)
(* an equation.  A file's content is the set of spans that occur in it,    *)
(* and a digest is the content it is the digest of.  A call shares nothing *)
(* with the next one but the store, so a behaviour is one call.            *)
(***************************************************************************)
EXTENDS SqzAdapter

CONSTANTS
    Requests,      \* the delegation requests, with the authority they come with
    Locators,      \* the files of the repository
    Contents,      \* what a file may contain: sets of spans
    Outputs,       \* what the provider port may return when it does not fail
    Candidates,    \* what the compressor may return when it does not fail
    MaxPromptBytes,\* the longest prompt of a request, 65536 in the code
    MaxEntries,    \* ResultStoreLimits::max_entries
    MaxItemBytes   \* ResultStoreLimits::max_item_bytes

ASSUME LimitsArePositive == {MaxPromptBytes, MaxEntries, MaxItemBytes} \subseteq Nat \ {0}

\* Lengths, ceilings and tokens are numbers, and the claims of an answer a sequence.
ASSUME InputAssumption ==
  /\ \A c \in Candidates : c.bytes \in Nat
  /\ \A r \in Requests : r.maxOutput \in Nat /\ r.ceiling \in Nat /\ r.prompt.bytes \in Nat
  /\ \A o \in Outputs : /\ o.answer.text.bytes \in Nat /\ o.tokens \in Nat
                        /\ o.claims \in Seq(ToSet(o.claims))

VARIABLES
    pc,        \* where the call is
    request,   \* the request of the call
    admitted,  \* the grounding contract's evidence: the digest of each admitted file
    files,     \* what the files contain now
    input,     \* the compression of the prompt
    output,    \* what the provider returned
    verified,  \* the files verifies_support has read, as it read them
    claim,     \* the claim verifies_support is at
    answer,    \* the compression of the provider's answer
    lifecycle, \* InvocationLifecycle
    stored,    \* the batches the store got from this call and still holds
    receipt    \* what the call returned

vars == <<pc, request, admitted, files, input, output, verified, claim, answer, lifecycle, stored, receipt>>

\* No file, no evidence.
Nothing == [l \in {} |-> {}]

NoEvaluation == Error(NoReceipt)

NoOutput == [answer |-> [text |-> NoPayload, says |-> <<>>]]

NoResult == [answer |-> [text |-> NoPayload, says |-> <<>>], citations |-> {}, claims |-> <<>>]

NoCall == [state |-> "none"]

(***************************************************************************)
(* Receipts                                                                *)
(***************************************************************************)

\* Receipts that DelegationReceipt::new accepts: a complete one has a result
\* under the digest it is stored under and two accepted compressions, and the
\* compression of the answer names that answer; an incomplete one has no
\* reference into the store.
ValidReceipt(r) ==
    \/ r.state = "incomplete" /\ r.failure # "none" /\ r.ref = NoResult
    \/ /\ r.state = "complete" /\ r.failure = "none"
       /\ r.inline # NoResult /\ r.ref = r.inline
       /\ \A sqz \in {r.input, r.answer} :
             /\ sqz.policy # "none" /\ sqz.reason = "None"
             /\ sqz.fidelity = "Passed" /\ sqz.dlp = "Passed"
             /\ (sqz.policy = "PublicOff") = (sqz.status = "Off")
       /\ r.answer.status # "Off" => r.answer.id = r.inline.answer.text

\* The only error of a call: a receipt that cannot be built.
Built(r) == IF ValidReceipt(r) THEN r ELSE [state |-> "ReceiptInvariant"]

\* incomplete(..): a receipt without content.
Incomplete(failure, sqzInput, sqzAnswer) ==
    Built([state |-> "incomplete", failure |-> failure, input |-> sqzInput, answer |-> sqzAnswer,
           inline |-> NoResult, ref |-> NoResult, grounded |-> FALSE])

\* complete(..): the lifecycle must have come to Validating.
Complete(inline, ref) ==
    IF lifecycle # "Validating" THEN [state |-> "ReceiptInvariant"]
    ELSE Built([state |-> "complete", failure |-> "none", input |-> input.receipt, answer |-> answer.receipt,
                inline |-> inline, ref |-> ref, grounded |-> request.grounding # "none"])

\* The call ends with receipt r.
Return(r) ==
    /\ pc' = "returned"
    /\ receipt' = r

Fail(failure) == Return(Incomplete(failure, input.receipt, answer.receipt))

(***************************************************************************)
(* The gates, in the order in which they are passed                        *)
(***************************************************************************)

Mutating == {"write", "edit", "shell", "network"}

Gate(fails, failure) == [fails |-> fails, failure |-> failure]

Gates(r) ==
    <<Gate(~r.enabled, "AgentDisabled"),
      Gate(r.offline, "ExplicitOffline"),
      Gate(~r.trusted, "ProjectUntrusted"),
      Gate(r.depth > r.maxDepth, "DepthExceeded"),
      Gate(~r.profileKnown, "UnknownProfile"),
      Gate(~(r.tools \subseteq r.profileTools), "DeniedTool"),
      Gate(~r.mutation /\ r.tools \intersect Mutating # {}, "DeniedTool"),
      Gate(~r.providerKnown, "UnknownProvider"),
      Gate(~r.modelKnown, "UnknownModel"),
      Gate(~r.credential, "MissingAuth")>>

FirstGate(r) == SelectInSeq(Gates(r), LAMBDA g : g.fails)

\* What DelegationRequest::new and GroundingContract::new let through.
DepthLimit == 8

ValidRequest(r) ==
    /\ r.prompt.bytes \in 1..MaxPromptBytes
    /\ r.maxOutput >= 1
    /\ r.depth <= DepthLimit
    /\ r.grounding # "none" => r.locators # {} /\ r.anchors # {}

Anchors(r) == IF r.grounding = "none" THEN {} ELSE r.anchors

Init ==
    /\ pc = "start"
    /\ request = NoCall /\ receipt = NoCall
    /\ files \in UNION {[present -> Contents] : present \in SUBSET Locators}
    /\ admitted = Nothing
    /\ input = NoEvaluation /\ answer = NoEvaluation /\ output = NoOutput
    /\ verified = Nothing /\ claim = 1
    /\ lifecycle = "Configured"
    /\ stored = {}

\* A request is built with a contract for the files as they are, and the call
\* is made: the gates need no port, and the credential is the last of them.
Invoke(r) ==
    /\ pc = "start"
    /\ ValidRequest(r)
    /\ request' = r
    /\ admitted' = IF r.grounding = "evidence"
                   THEN [l \in r.locators \intersect DOMAIN files |-> files[l]]
                   ELSE Nothing
    /\ r.grounding = "evidence" => DOMAIN admitted' # {}
    /\ IF FirstGate(r) = 0
       THEN pc' = "input" /\ UNCHANGED receipt
       ELSE Return(Incomplete(Gates(r)[FirstGate(r)].failure, NoReceipt, NoReceipt))
    /\ UNCHANGED <<files, input, output, verified, claim, answer, lifecycle, stored>>

(***************************************************************************)
(* The prompt                                                              *)
(***************************************************************************)

\* The compressor's possible answers to a payload.
PortAnswers == {PortError} \union {PortAnswer(c, a) : c \in Candidates, a \in BOOLEAN}

\* sqz_failure: an error without a payload, of the stage it happened in.
InputError == "SqzInputFailed"

OutputError(evaluation) ==
    IF evaluation.receipt = NoReceipt THEN "InvalidOutput" ELSE "SqzOutputFailed"

\* grounding_input_accepted: the compressed prompt still has every anchor of
\* the contract.
GroundingInputAccepted(evaluation) ==
    \A a \in Anchors(request) :
        /\ a \in evaluation.payload.has
        /\ a \in evaluation.receipt.required
        /\ a \notin evaluation.receipt.missing

\* The first thing wrong with the compressed prompt: its anchors, its
\* evaluation, or (ProviderRequest::new) its length.
InputFailures(evaluation) ==
    IF ~evaluation.ok
    THEN <<Gate(TRUE, InputError)>>
    ELSE <<Gate(~GroundingInputAccepted(evaluation), "GroundingFailed"),
           Gate(~AcceptedSqz(evaluation.receipt, evaluation.payload), "SqzInputFailed"),
           Gate(evaluation.payload.bytes > MaxPromptBytes, "SqzInputFailed")>>

EvaluateInput(port) ==
    LET evaluation == EvaluateStage(request.policy, request.prompt, Anchors(request), request.maxOutput, port)
        failures   == InputFailures(evaluation)
        i          == SelectInSeq(failures, LAMBDA g : g.fails)
    IN  /\ pc = "input"
        /\ input' = evaluation
        /\ IF i = 0
           THEN /\ pc' = "provider"
                /\ lifecycle' = "Running"
                /\ UNCHANGED receipt
           ELSE /\ Return(Incomplete(failures[i].failure, evaluation.receipt, NoReceipt))
                /\ UNCHANGED lifecycle
        /\ UNCHANGED <<request, admitted, files, output, verified, claim, answer, stored>>

(***************************************************************************)
(* The provider (external) and what is checked of its output               *)
(***************************************************************************)

ProviderErrors == {"Timeout", "Cancelled", "InvalidOutput", "ProviderUnavailable", "ProviderFailed"}

ProviderFails ==
    /\ pc = "provider"
    /\ \E failure \in ProviderErrors : Fail(failure)
    /\ UNCHANGED <<request, admitted, files, input, output, verified, claim, answer, lifecycle, stored>>

\* What ProviderOutput::new and with_claims let through.
ClaimLimit == 128

ArtifactLimit == 64

ValidOutput(o) ==
    /\ o.answer.text.bytes >= 1
    /\ Cardinality(o.citations) <= ClaimLimit /\ Len(o.claims) <= ClaimLimit
    /\ o.artifacts <= ArtifactLimit

\* The adapter lets no answer through that is longer than the request allows;
\* token counts it does not report count as zero.
ProviderAnswers(o) ==
    /\ pc = "provider"
    /\ ValidOutput(o)
    /\ o.answer.text.bytes <= request.maxOutput
    /\ output' = o
    /\ lifecycle' = "Validating"
    /\ pc' = "validate"
    /\ UNCHANGED <<request, admitted, files, input, verified, claim, answer, stored, receipt>>

\* grounded_citations_accepted.
CitationsAccepted ==
    request.grounding = "none" \/ (output.citations # {} /\ output.citations \subseteq request.locators)

\* grounded_claims_accepted up to the reading of the files: every claim is
\* material, says no more than its support and is cited, and the answer is the
\* claims and nothing else.
ClaimsAccepted ==
    /\ request.grounding = "evidence"
    /\ output.claims # <<>>
    /\ output.answer.says = [i \in 1..Len(output.claims) |-> output.claims[i].support]
    /\ \A i \in 1..Len(output.claims) :
          /\ output.claims[i].material
          /\ output.claims[i].verbatim
          /\ output.claims[i].locator \in output.citations

\* enforced_token_budget.
BudgetFailures ==
    IF request.ceiling = 0 THEN <<>>
    ELSE <<Gate(output.enforced # request.ceiling, "TokenBudgetUnattested"),
           Gate(output.tokens > request.ceiling, "TokenCeilingExceeded")>>

Surfaces ==
    <<Gate(output.unsafe, "DlpRejected"),
      Gate(~CitationsAccepted, "GroundingFailed"),
      Gate(request.grounding # "none" /\ ~output.attested, "InvalidOutput"),
      Gate(request.grounding # "none" /\ ~ClaimsAccepted, "ClaimUnsupported")>>

\* The checks of the output that read no file; a grounded call goes on to its
\* claims, another to its budget.
Validate ==
    LET failures == Surfaces \o (IF request.grounding = "none" THEN BudgetFailures ELSE <<>>)
        i        == SelectInSeq(failures, LAMBDA g : g.fails)
    IN  /\ pc = "validate"
        /\ IF i = 0
           THEN pc' = (IF request.grounding = "none" THEN "answer" ELSE "claims") /\ UNCHANGED receipt
           ELSE Fail(failures[i].failure)
        /\ UNCHANGED <<request, admitted, files, input, output, verified, claim, answer, lifecycle, stored>>

\* The bytes verifies_support checks a claim against: a file is read once, at
\* the first claim that cites it.
Current == verified @@ files

\* Mutant of ClaimVerified: the file is read, its digest is not compared.
ClaimVerifiedInChangedFile(c) ==
    /\ c.locator \in DOMAIN admitted
    /\ c.digest = admitted[c.locator]
    /\ c.locator \in DOMAIN Current
    /\ c.support \in Current[c.locator]

\* verifies_support for one claim: the digest it claims is the admitted one,
\* the file has that digest still, and the support occurs in it.
ClaimVerified(c) ==
    /\ c.locator \in DOMAIN admitted
    /\ c.digest = admitted[c.locator]
    /\ c.locator \in DOMAIN Current
    /\ Current[c.locator] = admitted[c.locator]
    /\ c.support \in Current[c.locator]

\* One claim is verified; after the last one the budget is checked.
VerifyClaim ==
    LET c    == output.claims[claim]
        last == claim = Len(output.claims)
        i    == SelectInSeq(BudgetFailures, LAMBDA g : g.fails)
    IN  /\ pc = "claims"
        /\ IF ~ClaimVerified(c)
           THEN Fail("ClaimUnsupported") /\ UNCHANGED <<verified, claim>>
           ELSE /\ verified' = verified @@ (c.locator :> Current[c.locator])
                /\ IF ~last THEN claim' = claim + 1 /\ UNCHANGED <<pc, receipt>>
                   ELSE /\ UNCHANGED claim
                        /\ IF i = 0 THEN pc' = "answer" /\ UNCHANGED receipt
                           ELSE Fail(BudgetFailures[i].failure)
        /\ UNCHANGED <<request, admitted, files, input, output, answer, lifecycle, stored>>

(***************************************************************************)
(* The answer and the store                                                *)
(***************************************************************************)

\* Mutant of AnswerFailures: a failed evaluation that hands the answer on is
\* not told from an accepted one.
AnswerFailuresHandedOn(evaluation) ==
    IF ~evaluation.ok
    THEN <<Gate(TRUE, OutputError(evaluation))>>
    ELSE <<Gate(request.grounding # "none" /\ evaluation.payload # output.answer.text, "ClaimUnsupported")>>

\* A grounded answer must survive its compression unchanged.
AnswerFailures(evaluation) ==
    IF ~evaluation.ok
    THEN <<Gate(TRUE, OutputError(evaluation))>>
    ELSE <<Gate(~AcceptedSqz(evaluation.receipt, evaluation.payload), "SqzOutputFailed"),
           Gate(request.grounding # "none" /\ evaluation.payload # output.answer.text, "ClaimUnsupported")>>

EvaluateAnswer(port) ==
    LET evaluation == EvaluateStage(request.policy, output.answer.text, {}, request.maxOutput, port)
        failures   == AnswerFailures(evaluation)
        i          == SelectInSeq(failures, LAMBDA g : g.fails)
    IN  /\ pc = "answer"
        /\ answer' = evaluation
        /\ IF i = 0
           THEN pc' = "store" /\ UNCHANGED receipt
           ELSE Return(Incomplete(failures[i].failure, input.receipt, evaluation.receipt))
        /\ UNCHANGED <<request, admitted, files, input, output, verified, claim, lifecycle, stored>>

\* InlineResult::with_claims: what is stored and returned.  A compressed answer
\* is another text.
Inline ==
    [answer |-> [text |-> answer.payload,
                 says |-> IF answer.payload = output.answer.text THEN output.answer.says ELSE <<>>],
     citations |-> output.citations, claims |-> output.claims]

\* store_output asks the store's limits before it stores anything.
Storable ==
    /\ 1 + output.artifacts <= MaxEntries
    /\ Inline.answer.text.bytes <= MaxItemBytes

StoreRefuses ==
    /\ pc = "store"
    /\ Fail("ResultStoreFailed")
    /\ UNCHANGED <<request, admitted, files, input, output, verified, claim, answer, lifecycle, stored>>

PutBatch ==
    /\ pc = "store"
    /\ Storable
    /\ stored' = {Inline}
    /\ pc' = "readback"
    /\ UNCHANGED <<request, admitted, files, input, output, verified, claim, answer, lifecycle, receipt>>

\* The result is read back before the call returns a reference to it.
ReadBack ==
    /\ pc = "readback"
    /\ IF Inline \in stored
       THEN Return(Complete(Inline, Inline)) /\ lifecycle' = "Complete"
       ELSE Fail("ResultStoreFailed") /\ UNCHANGED lifecycle
    /\ UNCHANGED <<request, admitted, files, input, output, verified, claim, answer, stored>>

(***************************************************************************)
(* Other programs                                                          *)
(***************************************************************************)

\* A file is edited, created or removed while the call runs.
EditFile(l, content) ==
    /\ pc \notin {"start", "returned"}
    /\ files' = (l :> content) @@ files
    /\ UNCHANGED <<pc, request, admitted, input, output, verified, claim, answer, lifecycle, stored, receipt>>

RemoveFile(l) ==
    /\ pc \notin {"start", "returned"}
    /\ files' = [m \in DOMAIN files \ {l} |-> files[m]]
    /\ UNCHANGED <<pc, request, admitted, input, output, verified, claim, answer, lifecycle, stored, receipt>>

\* Another process makes room in the store.
Evict ==
    /\ stored # {}
    /\ stored' = {}
    /\ UNCHANGED <<pc, request, admitted, files, input, output, verified, claim, answer, lifecycle, receipt>>

Next ==
    \/ \E r \in Requests : Invoke(r)
    \/ \E port \in PortAnswers : EvaluateInput(port) \/ EvaluateAnswer(port)
    \/ ProviderFails
    \/ \E o \in Outputs : ProviderAnswers(o)
    \/ Validate
    \/ VerifyClaim
    \/ StoreRefuses
    \/ PutBatch
    \/ ReadBack
    \/ \E l \in Locators, content \in Contents : EditFile(l, content)
    \/ \E l \in DOMAIN files : RemoveFile(l)
    \/ Evict

Spec == Init /\ [][Next]_vars

(***************************************************************************)
(* Properties                                                              *)
(***************************************************************************)

\* The results of a grounded or other call that anybody can see: in the store
\* or in the receipt.
Results == stored \union (IF receipt.state = "complete" THEN {receipt.inline} ELSE {})

\* AgentRuntimeInternalError "should be unreachable": whatever the compressor,
\* the provider, the files and the store do, the receipt the call builds is
\* one DelegationReceipt::new accepts.
NoInternalError == receipt.state # "ReceiptInvariant"

\* A result of a grounded call rests on the evidence the request admitted: its
\* answer is its claims and nothing else, also after compression, and every
\* claim is cited and occurs in its file as it was admitted, however the files
\* changed in between.
GroundedResult ==
    request # NoCall /\ request.grounding # "none" =>
        \A result \in Results :
            /\ result.claims # <<>>
            /\ result.answer.says = [i \in 1..Len(result.claims) |-> result.claims[i].support]
            /\ \A i \in 1..Len(result.claims) :
                  LET c == result.claims[i]
                  IN  /\ c.locator \in result.citations
                      /\ c.locator \in DOMAIN admitted
                      /\ c.support \in admitted[c.locator]

\* Under every policy, also those that hand a payload on after a failed
\* evaluation, no prompt with findings or without its anchors reaches the
\* provider, and no result with findings is stored or returned.  A result keeps the
\* limits of its request: the answer's length, and the token ceiling, which the
\* provider must have enforced.
OnlyCheckedTextsPass ==
    /\ lifecycle # "Configured" => ~Unsafe(input.payload) /\ Anchors(request) \subseteq input.payload.has
    /\ \A result \in Results :
        /\ ~Unsafe(result.answer.text) /\ ~output.unsafe
        /\ result.answer.text.bytes <= request.maxOutput
        /\ request.ceiling # 0 => output.enforced = request.ceiling /\ output.tokens <= request.ceiling

\* What a call returns or stores is grounded and checked, whatever the policy
\* hands on.
ResultIsGrounded == GroundedResult /\ OnlyCheckedTextsPass
=============================================================================
