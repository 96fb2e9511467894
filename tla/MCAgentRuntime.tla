--------------------------- MODULE MCAgentRuntime ---------------------------
(* AgentRuntime with one file and a citation of another, two contents, a   *)
(* required anchor, and a compressor that shortens, keeps, lengthens or     *)
(* damages what it is given.                                                *)
EXTENDS AgentRuntime

MCLocators == {"admitted"}

MCContents == {{"s"}, {"s", "t"}}

Payload(bytes, has, kind) == [bytes |-> bytes, has |-> has, kind |-> kind]

\* A prompt or an answer contains its own beginning.
Prompts == {Payload(2, {LeadAnchor} \union has, kind) : has \in SUBSET {"a"}, kind \in {"plain", "unsafe", "blank_lead"}}

MCCandidates == {Payload(bytes, has, kind) : bytes \in 1..3, has \in {{}, {LeadAnchor, "a"}}, kind \in {"plain", "unsafe"}}

Base == [enabled |-> TRUE, offline |-> FALSE, trusted |-> TRUE, depth |-> 0, maxDepth |-> 1,
         profileKnown |-> TRUE, tools |-> {"read"}, profileTools |-> {"read", "write"}, mutation |-> FALSE,
         providerKnown |-> TRUE, modelKnown |-> TRUE, credential |-> TRUE,
         grounding |-> "none", locators |-> {"admitted"}, anchors |-> {"a"}, policy |-> "PublicOn",
         prompt |-> Payload(2, {LeadAnchor, "a"}, "plain"), maxOutput |-> 2, ceiling |-> 0]

\* Requests with one thing wrong, and all combinations of what a request that
\* passes the gates may ask for.
MCRequests ==
    {[Base EXCEPT !.enabled = FALSE], [Base EXCEPT !.offline = TRUE], [Base EXCEPT !.trusted = FALSE],
     [Base EXCEPT !.depth = 2], [Base EXCEPT !.profileKnown = FALSE], [Base EXCEPT !.tools = {"shell"}],
     [Base EXCEPT !.tools = {"write"}], [Base EXCEPT !.providerKnown = FALSE],
     [Base EXCEPT !.modelKnown = FALSE], [Base EXCEPT !.credential = FALSE]}
    \union
    {[Base EXCEPT !.tools = {"read", "write"}, !.mutation = TRUE]}
    \union
    {[Base EXCEPT !.grounding = g, !.policy = p, !.prompt = t, !.ceiling = c] :
        g \in {"none", "citations", "evidence"}, p \in Policies, t \in Prompts, c \in {0, 2}}

Claims == {[locator |-> "admitted", digest |-> d, support |-> s, material |-> TRUE, verbatim |-> v] :
              d \in MCContents, s \in {"s", "t"}, v \in BOOLEAN}

ClaimLists == {<<>>} \union {<<c>> : c \in Claims} \union {<<c, d>> : c, d \in {e \in Claims : e.verbatim}}

Output(text, joined, cs, citations, unsafe, attested, budget, artifacts) ==
    [answer |-> [text |-> text, says |-> IF joined THEN [i \in 1..Len(cs) |-> cs[i].support] ELSE <<"other">>],
     citations |-> citations, claims |-> cs, unsafe |-> unsafe, attested |-> attested,
     enforced |-> budget[1], tokens |-> budget[2], artifacts |-> artifacts]

Texts == {Payload(2, {LeadAnchor}, k) : k \in {"plain", "unsafe", "blank_lead"}} \union {Payload(3, {LeadAnchor}, "plain")}

\* Every combination of answer, claims, citations and attestation, and every
\* combination of texts, findings, budgets and artifacts.
MCOutputs ==
    {Output(Payload(2, {LeadAnchor}, "plain"), joined, cs, citations, FALSE, attested, <<2, 2>>, 0) :
        joined \in BOOLEAN, cs \in ClaimLists, citations \in SUBSET {"admitted", "foreign"}, attested \in BOOLEAN}
    \union
    {Output(text, TRUE, <<c>>, {"admitted"}, unsafe, TRUE, budget, artifacts) :
        text \in Texts, c \in {d \in Claims : d.verbatim /\ d.support = "s"}, unsafe \in BOOLEAN,
        budget \in {<<0, 1>>, <<2, 2>>, <<2, 3>>}, artifacts \in {0, 1}}
=============================================================================
