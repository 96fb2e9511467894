---------------------------- MODULE PacketAssembly ----------------------------
(***************************************************************************)
(* From a knowledge view to a context packet: ViewCompiler::compile of     *)
(* crates/bran-core/src/view/mod.rs, and dependency_closure,               *)
(* index_evidence, effective_limits and PacketAssembler::assemble of       *)
(* crates/bran-core/src/packet/mod.rs, over the graph of GraphQuery.       *)
(*                                                                         *)
(* A call is [op |-> "packet", wanted, view_items, view_bytes, max_depth,  *)
(* max_nodes, max_items, max_bytes, max_tokens].  wanted are the nodes     *)
(* that source and filter of a valid view match.  items are the admitted   *)
(* dependencies.                                                           *)
(***************************************************************************)
EXTENDS GraphQuery

CONSTANTS
  RenderedBytes,   \* size of a node in a view
  Evidence,        \* what a caller may know of a node: [priority, authority, bytes, anchors]
  NoCeiling        \* max_tokens of a call without runtime_token_ceiling

ASSUME PacketAssumption ==
  /\ RenderedBytes \in [Nodes -> Nat]
  /\ \A e \in Evidence :
       /\ e.priority \in 0 .. 2 /\ e.authority \in Nat /\ e.bytes \in Nat
       /\ e.anchors \in {"none", "kept", "lost"}
  /\ \A g \in Graphs : \A c \in Calls(g) : c.op = "packet" =>
       /\ c.wanted \subseteq Nodes
       /\ {c.view_items, c.view_bytes, c.max_nodes, c.max_items, c.max_bytes} \subseteq Nat
       /\ c.max_tokens \in Nat \cup {NoCeiling}

VARIABLES
  view,      \* the compiled view: [items, truncated], items are node ids
  evidence,  \* content by node id
  waiting,   \* the candidates not yet considered, in their order
  selected, omitted,
  raw_bytes

packetVars == <<view, evidence, waiting, selected, omitted, raw_bytes>>
allVars == <<vars, packetVars>>

PacketInit ==
  /\ Init
  /\ view = [items |-> <<>>, truncated |-> FALSE]
  /\ evidence = <<>> /\ waiting = <<>>
  /\ selected = <<>> /\ omitted = <<>> /\ raw_bytes = 0

Lesser(m, n) == IF m < n THEN m ELSE n
Rendered(s) == FoldSeq(LAMBDA n, sum : RenderedBytes[n] + sum, 0, s)

\* The view ends at the first candidate that does not fit.  By role, source,
\* confidence or field, stable_sort may put the nodes in any order.
CompileView ==
  /\ pc = "start" /\ call.op = "packet"
  /\ \E candidates \in SetToSeqs(call.wanted) :
     LET fitting == {p \in Prefixes(candidates) :
                       Len(p) <= call.view_items /\ Rendered(p) <= call.view_bytes}
     IN \E chosen \in fitting :
        /\ \A p \in fitting : Len(p) <= Len(chosen)
        /\ view' = [items |-> chosen, truncated |-> chosen # candidates]
        /\ \E order \in Ascending(Range(chosen)) : queue' = Entries(order, 0, NoEdge)
        /\ seen' = Range(chosen)
  /\ pc' = "closure"
  /\ UNCHANGED <<graph, call, node, bounded, items, answer, evidence, waiting, selected, omitted, raw_bytes>>

(***************************************************************************)
(* dependency_closure                                                      *)
(***************************************************************************)
PositiveRelationships ==
  {"Dependency", "Implementation", "Replacement", "Supersedes", "Validation", "Reachability"}
PositiveFrom(n) ==
  {e.target : e \in {e \in KnownEdges : e.source = n /\ e.relationship \in PositiveRelationships}}

\* Mutant of ClosureRoom: the node limit counts the seeds.
ClosureRoomWithSeeds(current) ==
  IF current.depth = call.max_depth \/ call.max_nodes < Cardinality(seen)
  THEN 0 ELSE call.max_nodes - Cardinality(seen)

ClosureRoom(current) ==
  IF current.depth = call.max_depth THEN 0 ELSE call.max_nodes - Len(items)

ClosureVisit ==
  /\ pc = "closure" /\ queue # <<>>
  /\ LET current == Head(queue) IN
     \E order \in SetToSeqs(PositiveFrom(current.node) \ seen) :
       LET taken == AtMost(order, ClosureRoom(current)) IN
       /\ items' = items \o Found(taken, current.node, current.depth + 1)
       /\ seen' = seen \cup Range(taken)
       /\ queue' = Tail(queue) \o Entries(taken, current.depth + 1, NoEdge)
       /\ bounded' = (bounded \/ CutOff(taken, order))
  /\ UNCHANGED <<graph, call, pc, node, answer, packetVars>>

(***************************************************************************)
(* index_evidence.  The caller looks up what evidence_ids names and        *)
(* provides the content; it may have too little, too much, or something    *)
(* twice.                                                                  *)
(***************************************************************************)
Candidates == Range(view.items) \cup {i.node : i \in Range(items)}

Required(ev) == {n \in DOMAIN ev : ev[n].priority = 0}

\* what is provided are the ids; their content is not looked at before
WrongEvidence ==
  /\ pc = "closure" /\ queue = <<>>
  /\ \/ Return("DuplicateSelectedEvidence", FALSE)
     \/ Candidates # {} /\ Return("MissingSelectedEvidence", FALSE)
     \/ Return("UnrelatedEvidence", FALSE)
  /\ UNCHANGED <<graph, call, node, search, items, packetVars>>

AnchorError(ev) ==
  IF \E n \in Required(ev) : ev[n].anchors = "none"
  THEN "RequiredEvidenceMissingPreservationAnchors"
  ELSE IF \E n \in DOMAIN ev : ev[n].anchors = "lost" THEN "PreservationAnchorNotInEvidence"
  ELSE "none"

\* candidate_order; freshness ranks after authority in the same way and is
\* left out
Precedes(ev, m, n) ==
  \/ ev[m].priority < ev[n].priority
  \/ ev[m].priority = ev[n].priority /\ ev[m].authority > ev[n].authority
  \/ ev[m].priority = ev[n].priority /\ ev[m].authority = ev[n].authority /\ m < n

\* sort_by candidate_order: the ids of the candidates in the only order there is
InOrder(ev) ==
  {s \in SetToSeqs(DOMAIN ev) : \A i, j \in DOMAIN s : i < j => Precedes(ev, s[i], s[j])}

IndexEvidence ==
  /\ pc = "closure" /\ queue = <<>>
  /\ \E ev \in [Candidates -> Evidence] :
       /\ evidence' = ev
       /\ IF AnchorError(ev) # "none"
          THEN Return(AnchorError(ev), FALSE) /\ UNCHANGED waiting
          ELSE /\ \E order \in InOrder(ev) : waiting' = order
               /\ pc' = "select"
               /\ UNCHANGED answer
  /\ UNCHANGED <<graph, call, node, search, items, view, selected, omitted, raw_bytes>>

(***************************************************************************)
(* assemble                                                                *)
(***************************************************************************)
\* effective_limits
EffectiveItems == Lesser(call.max_items, call.view_items + Len(items))
EffectiveBytes == Lesser(call.max_bytes, call.view_bytes)
EstimateTokens(bytes) == (bytes \div 4) + (IF bytes % 4 = 0 THEN 0 ELSE 1)

Fits(count, bytes) ==
  /\ count <= EffectiveItems
  /\ bytes <= EffectiveBytes
  /\ call.max_tokens # NoCeiling => EstimateTokens(bytes) <= call.max_tokens

SelectNext ==
  /\ pc = "select" /\ waiting # <<>>
  /\ LET n == Head(waiting)
         next_bytes == raw_bytes + evidence[n].bytes
         fits == Fits(Len(selected) + 1, next_bytes)
     IN \/ /\ fits
           /\ selected' = Append(selected, n)
           /\ raw_bytes' = next_bytes
           /\ UNCHANGED <<omitted, pc, answer>>
        \/ /\ ~fits /\ evidence[n].priority # 0
           /\ omitted' = Append(omitted, n)
           /\ UNCHANGED <<selected, raw_bytes, pc, answer>>
        \/ /\ ~fits /\ evidence[n].priority = 0
           /\ Return("RequiredEvidenceDoesNotFit", FALSE)
           /\ UNCHANGED <<selected, raw_bytes, omitted>>
  /\ waiting' = Tail(waiting)
  /\ UNCHANGED <<graph, call, node, search, items, view, evidence>>

PacketTruncated == view.truncated \/ bounded \/ omitted # <<>>

SelectDone ==
  /\ pc = "select" /\ waiting = <<>>
  /\ Return("Packet", PacketTruncated)
  /\ UNCHANGED <<graph, call, node, search, items, packetVars>>

PacketNext ==
  \/ CompileView \/ ClosureVisit
  \/ WrongEvidence \/ IndexEvidence
  \/ SelectNext \/ SelectDone

Next == PacketNext \/ (QueryNext /\ UNCHANGED packetVars)

PacketSpec == PacketInit /\ [][Next]_allVars

-----------------------------------------------------------------------------
PositiveForward == [n \in Nodes |-> PositiveFrom(n)]
Dependencies == Closure(PositiveForward, Range(view.items)) \ Range(view.items)

(***************************************************************************)
(* The dependency closure stays within its bounds, takes nearer            *)
(* dependencies first, and says truncated exactly if it leaves one out     *)
(* (packet/mod.rs:1252-1304).                                              *)
(***************************************************************************)
ClosureIsExact ==
  call.op = "packet" /\ pc \notin {"start", "closure"} =>
    LET admitted == {i.node : i \in Range(items)} IN
    /\ admitted \subseteq Dependencies
    /\ Cardinality(admitted) <= call.max_nodes
    /\ bounded <=> admitted # Dependencies
    /\ bounded => \/ Cardinality(admitted) = call.max_nodes
                  \/ \A n \in Dependencies \ admitted :
                       Distance(PositiveForward, Range(view.items), n) > call.max_depth

\* the bytes of the evidence of some nodes, counted one by one
BytesOf(S) == Cardinality(UNION {{n} \X (1 .. evidence[n].bytes) : n \in S})

(***************************************************************************)
(* Required evidence is never crowded out: a packet has all of it, and     *)
(* assembly fails for want of room only if the required evidence alone     *)
(* does not fit (packet/mod.rs:502-510).                                   *)
(***************************************************************************)
RequiredIsKept ==
  call.op = "packet" =>
    /\ answer.kind = "Packet" => Required(evidence) \subseteq Range(selected)
    /\ answer.kind = "RequiredEvidenceDoesNotFit" =>
         ~Fits(Cardinality(Required(evidence)), BytesOf(Required(evidence)))

(***************************************************************************)
(* A packet accounts for every candidate, is within all limits, and is not *)
(* called truncated only if it holds everything the view wanted and all it *)
(* depends on (packet/mod.rs:529-557).                                     *)
(***************************************************************************)
TruncationIsTold ==
  call.op = "packet" /\ answer.kind = "Packet" =>
    /\ Range(selected) \cup Range(omitted) = Candidates
    /\ Len(selected) + Len(omitted) = Cardinality(Candidates)
    /\ selected # <<>> => Fits(Len(selected), raw_bytes)
    /\ ~answer.truncated =>
         call.wanted \cup Closure(PositiveForward, call.wanted) \subseteq Range(selected)

\* Packets made from views: the closure takes the nearest dependencies, required
\* evidence is kept, and what is left out is told (PacketAssembler::assemble).
PackingIsExact == ClosureIsExact /\ RequiredIsKept /\ TruncationIsTold
=============================================================================
