----------------------------- MODULE SqzAdapter -----------------------------
(***************************************************************************)
(* The policy evaluation of SqzAdapter (bran-core/adapters/sqz.rs): one    *)
(* payload is checked, handed to the compressor and checked again, and a   *)
(* receipt says how far that went.                                         *)
(*                                                                         *)
(* A payload is [bytes, has, kind]: its length, the preservation anchors   *)
(* it contains, and what the deterministic scans see in it: "unsafe" when  *)
(* dlp_findings is not empty, "blank_lead" when its first 128 characters   *)
(* are blank, "plain" otherwise.  Payloads are equal when their records    *)
(* are, and a payload is its own digest.                                   *)
(*                                                                         *)
(* The compressor is external: it fails, answers with another identity     *)
(* than the approved one, or answers with some payload.  Anchor ids are    *)
(* unique and anchors are free of findings here, as GroundingContract::new *)
(* makes them; latencies and token estimates, functions of the byte        *)
(* counts, are left out.                                                   *)
(***************************************************************************)
EXTENDS Integers, SequencesExt

Policies == {"PublicOff", "PublicOn", "InternalLocked"}

NoPayload == [bytes |-> 0, has |-> {}, kind |-> "none"]

Unsafe(payload) == payload.kind = "unsafe"

\* What SqzPort::compress returns: an error, or a payload and whether the
\* identity that comes with it is the approved one.
PortError == [ok |-> FALSE, approved |-> FALSE, payload |-> NoPayload]

PortAnswer(payload, approved) == [ok |-> TRUE, approved |-> approved, payload |-> payload]

\* One check of an evaluation: whether it fails, and what the receipt then says.
Check(fails, reason, fidelity, missing, findings) ==
    [fails |-> fails, reason |-> reason, fidelity |-> fidelity, missing |-> missing, findings |-> findings]

Passed == Check(FALSE, "None", "Passed", {}, FALSE)

\* The checks are made in order, and the first that fails ends the evaluation.
FirstFailure(checks) ==
    LET i == SelectInSeq(checks, LAMBDA c : c.fails)
    IN  IF i = 0 THEN Passed ELSE checks[i]

\* With the compressor off: nothing is compressed and no length is checked.
OffChecks(raw, anchors) ==
    <<Check(anchors \ raw.has # {}, "FidelityAnchorMissingFromInput", "Missing", anchors \ raw.has, FALSE),
      Check(Unsafe(raw), "DlpFindings", "Passed", {}, TRUE)>>

\* Before the compressor sees the payload.
InputChecks(raw, anchors) ==
    <<Check(anchors \ raw.has # {}, "FidelityAnchorMissingFromInput", "Missing", anchors \ raw.has, FALSE),
      Check(Unsafe(raw), "DlpFindings", "NotEvaluated", {}, TRUE)>>

\* Of the compressor's answer.
AnswerChecks(anchors, max, answer) ==
    LET candidate == answer.payload
        missing   == anchors \ candidate.has
    IN  <<Check(~answer.ok, "PortUnavailable", "NotEvaluated", {}, FALSE),
          Check(~answer.approved, "ReturnedIdentityMismatch", "NotEvaluated", {}, FALSE),
          Check(candidate.bytes > max, "OutputExceedsBound", "NotEvaluated", {}, FALSE),
          Check(anchors = {}, "FidelityAnchorsUnavailable", "RequiredButUnavailable", {}, Unsafe(candidate)),
          Check(missing # {}, "MissingFidelityAnchors", "Missing", missing, Unsafe(candidate)),
          Check(Unsafe(candidate), "DlpFindings", "Passed", {}, TRUE)>>

\* How far the DLP scan went follows from what ended the evaluation.
DlpStatus(check) ==
    CASE check.findings -> "Findings"
      [] ~check.findings /\ check.reason \in {"PortUnavailable", "ReturnedIdentityMismatch", "OutputExceedsBound"} -> "InputPassed"
      [] OTHER -> "Passed"

\* The receipt of an evaluation of raw that hands on returned; only an accepted
\* compression names the content it returned.
Receipt(policy, status, check, anchors, raw, returned, candidate) ==
    [policy |-> policy, status |-> status, reason |-> check.reason,
     fidelity |-> check.fidelity, required |-> anchors, missing |-> check.missing,
     dlp |-> DlpStatus(check), raw |-> raw.bytes, returned |-> returned.bytes,
     candidate |-> candidate.bytes,
     id |-> IF status \in {"Applied", "NotBeneficial"} THEN returned ELSE NoPayload]

\* An evaluation hands on a payload with its receipt, or ends in an error that
\* carries the receipt only.
HandedOn(payload, receipt) == [ok |-> TRUE, payload |-> payload, receipt |-> receipt]

Error(receipt) == [ok |-> FALSE, payload |-> NoPayload, receipt |-> receipt]

\* A failed check is an error under the locked policy; otherwise the original
\* payload is handed on with a receipt that says Failed.
Failed(policy, check, anchors, raw, candidate) ==
    LET receipt == Receipt(policy, "Failed", check, anchors, raw, raw, candidate)
    IN  IF policy = "InternalLocked" THEN Error(receipt) ELSE HandedOn(raw, receipt)

\* A compression that does not save a byte is dropped for the original.
Compressed(policy, anchors, raw, candidate) ==
    IF candidate.bytes >= raw.bytes
    THEN HandedOn(raw, Receipt(policy, "NotBeneficial", Passed, anchors, raw, raw, candidate))
    ELSE HandedOn(candidate, Receipt(policy, "Applied", Passed, anchors, raw, candidate, candidate))

Evaluate(policy, raw, anchors, max, answer) ==
    LET off    == FirstFailure(OffChecks(raw, anchors))
        before == FirstFailure(InputChecks(raw, anchors))
        after  == FirstFailure(AnswerChecks(anchors, max, answer))
    IN  CASE policy = "PublicOff" /\ off.fails -> Failed(policy, off, anchors, raw, NoPayload)
          [] policy = "PublicOff" /\ ~off.fails ->
               HandedOn(raw, Receipt(policy, "Off", Passed, anchors, raw, raw, NoPayload))
          [] policy # "PublicOff" /\ before.fails -> Failed(policy, before, anchors, raw, NoPayload)
          [] policy # "PublicOff" /\ ~before.fails /\ after.fails ->
               Failed(policy, after, anchors, raw, answer.payload)
          [] OTHER -> Compressed(policy, anchors, raw, answer.payload)

\* A stage of an agent call without anchors of its own is anchored in the first
\* characters of the payload (every payload contains them), unless the
\* compressor is off.
LeadAnchor == "lead"

StageAnchors(policy, anchors) ==
    IF anchors = {} /\ policy # "PublicOff" THEN {LeadAnchor} ELSE anchors

\* A blank beginning is no anchor, and a blank payload no result: an error
\* without a receipt.
NoReceipt == [policy |-> "none"]

EvaluateStage(policy, raw, anchors, max, answer) ==
    IF LeadAnchor \in StageAnchors(policy, anchors) /\ raw.kind = "blank_lead"
    THEN Error(NoReceipt)
    ELSE Evaluate(policy, raw, StageAnchors(policy, anchors), max, answer)

\* accepted_sqz: a receipt whose payload may be used.
AcceptedSqz(receipt, payload) ==
    /\ receipt.reason = "None"
    /\ receipt.fidelity = "Passed"
    /\ receipt.dlp = "Passed"
    /\ receipt.returned = payload.bytes
    /\ \/ /\ receipt.policy = "PublicOff" /\ receipt.status = "Off"
          /\ receipt.raw = receipt.returned
          /\ receipt.candidate = 0 /\ receipt.id = NoPayload
       \/ /\ receipt.policy \in {"PublicOn", "InternalLocked"}
          /\ receipt.status \in {"Applied", "NotBeneficial"}
          /\ receipt.id = payload
=============================================================================
