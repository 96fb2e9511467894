------------------------ MODULE ResultStoreContract ------------------------
(***************************************************************************)
(* What the ResultStore trait promises its callers                         *)
(* (crates/bran-core/src/agent/result_store.rs): batches are published     *)
(* atomically, every identifier returned is readable, and capacity limits  *)
(* hold after every call.  Which payloads are forgotten, and when, is left *)
(* open; a rejected batch, however, forgets nothing.                       *)
(***************************************************************************)
EXTENDS Integers, FiniteSets

CONSTANTS
  Payloads,       \* the byte strings callers store; a payload is its own SHA-256 identifier
  Size,           \* Size[p] is the length of p in bytes
  MaxEntries,     \* ResultStoreLimits::max_entries
  MaxTotalBytes   \* ResultStoreLimits::max_total_bytes

VARIABLES
  visible,        \* the payloads stored
  result          \* the last completed call: [op, ret, ids, now]

cvars == <<visible, result>>

\* The byte positions the payloads of S occupy, and how many there are: the
\* sum of their lengths, as the cardinality of a set.
Positions(S) == UNION {{<<p, i>> : i \in 1..Size[p]} : p \in S}
Bytes(S) == Cardinality(Positions(S))

Within(S) == Cardinality(S) <= MaxEntries /\ Bytes(S) <= MaxTotalBytes

Published(r) == r.op \in {"put", "put_batch"} /\ r.ret = "Ok"

Publish ==
  /\ Published(result')
  /\ result'.ids # {}
  /\ result'.ids \subseteq visible'
  /\ visible' \subseteq visible \cup result'.ids
  /\ Within(visible')

RejectBatch ==
  /\ result'.op = "put_batch"
  /\ result'.ret # "Ok"
  /\ visible' = visible

RejectPut ==
  /\ result'.op = "put"
  /\ result'.ret # "Ok"
  /\ visible' \subseteq visible

Answer ==
  /\ result'.op = "get"
  /\ result'.ret = "Ok" => result'.ids \subseteq visible'
  /\ visible' \subseteq visible

Forget ==
  /\ result'.op \in {"remove", "clear"}
  /\ visible' \subseteq visible

CInit == visible = {}
CNext == Publish \/ RejectBatch \/ RejectPut \/ Answer \/ Forget
CSpec == CInit /\ [][CNext]_cvars
=============================================================================
