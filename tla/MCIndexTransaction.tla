-------------------------- MODULE MCIndexTransaction --------------------------
(* IndexTransaction for TLC: three paths, the third of another source type. *)
EXTENDS IndexTransaction, TLC

CONSTANTS a, b, bad, none, second

MCEvidence == <<"markdown", "markdown", "text">>
MCSize == a :> 1 @@ b :> 2 @@ bad :> 1
MCIgnored == none :> {} @@ second :> {2}
=============================================================================
