------------------------------ MODULE GraphQuery ------------------------------
(***************************************************************************)
(* The bounded searches of KnowledgeGraph, crates/bran-core/src/graph/     *)
(* query.rs: impact, reachability (with its two searches, over what is     *)
(* known and over what is uncertain), zombies and trail.                   *)
(*                                                                         *)
(* The graph is immutable.  One behaviour is one call on one graph; a step *)
(* takes one entry from the queue and does the whole loop over its edges.  *)
(* Nodes are numbered in the order of their ids.  Edge ids are in no       *)
(* relation to the nodes they join, so a loop in the order of edge ids     *)
(* meets the neighbours in any order.                                      *)
(***************************************************************************)
EXTENDS Integers, Sequences, FiniteSets, SequencesExt

CONSTANTS
  NodeCount,   \* the nodes are 1..NodeCount
  Graphs,      \* the graphs of interest
  Calls(_)     \* the calls to make on a graph

Nodes == 1 .. NodeCount
NoNode == 0
Certainties == {"Known", "Dynamic", "Unknown", "MissingTarget"}
NoEdge == [source |-> NoNode, target |-> NoNode, certainty |-> "Known", relationship |-> "Unspecified"]

\* KnowledgeGraph::build: sources exist, and a target is missing exactly if
\* the edge says so
Accepted(g) ==
  \A e \in g.edges :
    /\ e.source \in Nodes /\ e.certainty \in Certainties
    /\ e.target \in Nodes <=> e.certainty # "MissingTarget"

\* on an empty graph every query answers at once
ASSUME GraphAssumption ==
  /\ NodeCount \in Nat \ {0}
  /\ \A g \in Graphs : Accepted(g)

\* the limits of a call are usize
ASSUME CallAssumption ==
  \A g \in Graphs : \A c \in Calls(g) :
    /\ c.max_depth \in Nat
    /\ c.op # "packet" => c.max_results \in Nat

VARIABLES
  graph,    \* [role, partial, edges]: partial are the nodes with coverage: partial
  call,     \* [op, start, target, max_depth, max_results]
  pc,       \* the search that runs
  node,     \* the node being classified
  queue,    \* entries [node, depth, via]
  seen,
  bounded,  \* the search met its depth limit
  items,    \* [node, parent, depth]: results, or the map prior of trail
  answer    \* [kind, why, depth, via, path, truncated]

search == <<queue, seen, bounded>>
vars == <<graph, call, pc, node, search, items, answer>>

Pending == [kind |-> "pending", why |-> "none", depth |-> 0, via |-> NoEdge,
            path |-> <<>>, truncated |-> FALSE]

Init ==
  /\ graph \in Graphs
  /\ call \in Calls(graph)
  /\ pc = "start" /\ node = NoNode
  /\ queue = <<>> /\ seen = {} /\ bounded = FALSE
  /\ items = <<>> /\ answer = Pending

KnownEdges == {e \in graph.edges : e.certainty = "Known"}
UncertainEdges == {e \in graph.edges : e.certainty # "Known"}
KnownFrom(n) == {e.target : e \in {e \in KnownEdges : e.source = n}}
KnownInto(n) == {e.source : e \in {e \in KnownEdges : e.target = n}}

Entry(n, depth, via) == [node |-> n, depth |-> depth, via |-> via]
Entries(order, depth, via) == [i \in DOMAIN order |-> Entry(order[i], depth, via)]
Found(order, parent, depth) ==
  [i \in DOMAIN order |-> [node |-> order[i], parent |-> parent, depth |-> depth]]
\* the sequence of S in the order of ids, the only element of this set
Ascending(S) == {s \in SetToSeqs(S) : \A i, j \in DOMAIN s : i < j => s[i] < s[j]}
AtMost(s, n) == SubSeq(s, 1, IF n < Len(s) THEN n ELSE Len(s))

\* a bound keeps some of what was met out of the answer
CutOff(taken, order) == Len(taken) < Len(order)

\* Mutant of Room: the limit on depth is not applied.
RoomAtAnyDepth(current) == call.max_results - Len(items)

\* how many of the neighbours of an entry the bounds admit
Room(current) ==
  IF current.depth = call.max_depth THEN 0 ELSE call.max_results - Len(items)

Return(kind, truncated) ==
  /\ answer' = [Pending EXCEPT !.kind = kind, !.truncated = truncated]
  /\ pc' = "done"

StartMissing ==
  /\ pc = "start" /\ call.op \in {"impact", "trail", "reachability"}
  /\ \/ call.start \notin Nodes /\ Return("Missing", FALSE)
     \/ /\ call.op = "trail" /\ call.start \in Nodes /\ call.target \notin Nodes
        /\ Return("MissingTarget", FALSE)
  /\ UNCHANGED <<graph, call, node, search, items>>

\* impact and trail search from the node they are given
StartSearch ==
  /\ pc = "start" /\ call.op \in {"impact", "trail"} /\ call.start \in Nodes
  /\ call.op = "trail" => call.target \in Nodes \ {call.start}
  /\ queue' = <<Entry(call.start, 0, NoEdge)>>
  /\ seen' = {call.start}
  /\ pc' = call.op
  /\ UNCHANGED <<graph, call, node, bounded, items, answer>>

(***************************************************************************)
(* impact                                                                  *)
(***************************************************************************)
ImpactVisit ==
  /\ pc = "impact" /\ queue # <<>>
  /\ LET current == Head(queue)
         sources == KnownInto(current.node) \ seen
     IN \E order \in SetToSeqs(sources) :
          LET taken == AtMost(order, Room(current)) IN
          /\ items' = items \o Found(taken, current.node, current.depth + 1)
          /\ seen' = seen \cup Range(taken)
          /\ queue' = Tail(queue) \o Entries(taken, current.depth + 1, NoEdge)
          /\ IF CutOff(taken, order) THEN Return("Found", TRUE) ELSE UNCHANGED <<pc, answer>>
  /\ UNCHANGED <<graph, call, node, bounded>>

ImpactDone ==
  /\ pc = "impact" /\ queue = <<>>
  /\ Return("Found", FALSE)
  /\ UNCHANGED <<graph, call, node, search, items>>

(***************************************************************************)
(* trail                                                                   *)
(***************************************************************************)
Parent(its, n) == (CHOOSE i \in Range(its) : i.node = n).parent

\* rebuild_trail: from the target back to the start, and turned round
RebuildTrail(its) ==
  LET back[k \in 0 .. Len(its)] ==
        IF k = 0 THEN call.target
        ELSE IF back[k-1] = call.start THEN call.start ELSE Parent(its, back[k-1])
      steps == CHOOSE k \in 0 .. Len(its) :
                 back[k] = call.start /\ \A j \in 0 .. k-1 : back[j] # call.start
  IN [i \in 1 .. steps + 1 |-> back[steps + 1 - i]]

TrailAtStart ==
  /\ pc = "start" /\ call.op = "trail" /\ call.start \in Nodes /\ call.target = call.start
  /\ answer' = [Pending EXCEPT !.kind = "Found", !.path = <<call.start>>]
  /\ pc' = "done"
  /\ UNCHANGED <<graph, call, node, search, items>>

\* bounded is the local truncated of trail; neighbours come in node order
TrailVisit ==
  /\ pc = "trail" /\ queue # <<>>
  /\ LET current == Head(queue) IN
     \E order \in Ascending(KnownFrom(current.node) \ seen) :
       LET taken == AtMost(order, Room(current))
           prior == items \o Found(taken, current.node, current.depth + 1)
       IN \/ /\ call.target \in Range(taken)
             /\ items' = prior
             /\ answer' = [Pending EXCEPT !.kind = "Found", !.path = RebuildTrail(prior),
                                          !.truncated = bounded]
             /\ pc' = "done"
             /\ UNCHANGED search
          \/ /\ call.target \notin Range(taken)
             /\ items' = prior
             /\ seen' = seen \cup Range(taken)
             /\ queue' = Tail(queue) \o Entries(taken, current.depth + 1, NoEdge)
             /\ bounded' = (bounded \/ CutOff(taken, order))
             /\ UNCHANGED <<pc, answer>>
  /\ UNCHANGED <<graph, call, node>>

TrailDone ==
  /\ pc = "trail" /\ queue = <<>>
  /\ Return("Unreachable", bounded)
  /\ UNCHANGED <<graph, call, node, search, items>>

(***************************************************************************)
(* reachability, and zombies, which classifies all nodes one by one        *)
(***************************************************************************)
StartClassify ==
  /\ pc = "start" /\ call.op \in {"reachability", "zombies"}
  /\ IF call.op = "zombies" THEN node' = 1 ELSE call.start \in Nodes /\ node' = call.start
  /\ pc' = "classify"
  /\ UNCHANGED <<graph, call, search, items, answer>>

\* zombies goes on to the next node
NextNode ==
  IF node < NodeCount
  THEN node' = node + 1 /\ pc' = "classify" /\ UNCHANGED answer
  ELSE Return("Found", FALSE) /\ UNCHANGED node

\* The node is classified: reachability returns it, zombies keeps what is
\* unreachable
Classified(kind, why, depth, via, truncated) ==
  \/ /\ call.op = "reachability"
     /\ answer' = [Pending EXCEPT !.kind = kind, !.why = why, !.depth = depth,
                                  !.via = via, !.truncated = truncated]
     /\ pc' = "done"
     /\ UNCHANGED <<node, items>>
  \/ /\ call.op = "zombies" /\ (kind # "Unreachable" \/ truncated)
     /\ NextNode /\ UNCHANGED items
  \/ /\ call.op = "zombies" /\ kind = "Unreachable" /\ ~truncated
     /\ IF Len(items) = call.max_results
        THEN Return("Found", TRUE) /\ UNCHANGED <<node, items>>
        ELSE NextNode /\ items' = items \o Found(<<node>>, NoNode, 0)

ByRole == [Entrypoint |-> "Active", Test |-> "TestOnly", Generated |-> "Generated"]

ClassifyByFacts ==
  /\ pc = "classify"
  /\ \/ node \in graph.partial /\ Classified("Unknown", "PartialCoverage", 0, NoEdge, FALSE)
     \/ /\ node \notin graph.partial /\ graph.role[node] \in DOMAIN ByRole
        /\ Classified(ByRole[graph.role[node]], "Role", 0, NoEdge, FALSE)
  /\ UNCHANGED <<graph, call, search>>

Entrypoints == {n \in Nodes : graph.role[n] = "Entrypoint"}

\* known_distance_to begins at the entrypoints
StartKnown ==
  /\ pc = "classify" /\ node \notin graph.partial /\ graph.role[node] \notin DOMAIN ByRole
  /\ \E order \in Ascending(Entrypoints) : queue' = Entries(order, 0, NoEdge)
  /\ seen' = Entrypoints
  /\ bounded' = FALSE
  /\ pc' = "known"
  /\ UNCHANGED <<graph, call, node, items, answer>>

\* The loop over the forward edges of the first entry
Advance ==
  LET current == Head(queue)
      targets == KnownFrom(current.node) \ seen
  IN IF current.depth = call.max_depth
     THEN /\ queue' = Tail(queue)
          /\ bounded' = (bounded \/ targets # {})
          /\ UNCHANGED seen
     ELSE \E order \in SetToSeqs(targets) :
            /\ queue' = Tail(queue) \o Entries(order, current.depth + 1, current.via)
            /\ seen' = seen \cup targets
            /\ UNCHANGED bounded

Reaches(current) ==
  current.depth # call.max_depth /\ node \in KnownFrom(current.node) \ seen

KnownVisit ==
  /\ pc = "known" /\ queue # <<>>
  /\ \/ /\ Reaches(Head(queue))
        /\ Classified("Supporting", "KnownPath", Head(queue).depth + 1, NoEdge, FALSE)
        /\ UNCHANGED search
     \/ /\ ~Reaches(Head(queue))
        /\ Advance
        /\ UNCHANGED <<pc, node, items, answer>>
  /\ UNCHANGED <<graph, call>>

KnownBounded ==
  /\ pc = "known" /\ queue = <<>> /\ bounded
  /\ Classified("Unknown", "DepthBound", 0, NoEdge, TRUE)
  /\ UNCHANGED <<graph, call, search>>

\* both ends of an uncertain edge, if they are present
Tainted(e) == {e.source, e.target} \cap Nodes

\* uncertain_path_to begins at both ends of the uncertain edges; an end of
\* several carries the one with the smallest id
StartUncertain ==
  /\ pc = "known" /\ queue = <<>> /\ ~bounded
  /\ LET ends == UNION {Tainted(e) : e \in UncertainEdges} IN
     /\ \E order \in SetToSeqs(ends), via \in [ends -> UncertainEdges] :
          /\ \A n \in ends : n \in Tainted(via[n])
          /\ queue' = [i \in DOMAIN order |-> Entry(order[i], 0, via[order[i]])]
     /\ seen' = ends
  /\ pc' = "uncertain"
  /\ UNCHANGED <<graph, call, node, bounded, items, answer>>

UncertainVisit ==
  /\ pc = "uncertain" /\ queue # <<>>
  /\ \/ /\ Head(queue).node = node
        /\ Classified("Unknown", "Uncertain", 0, Head(queue).via, bounded)
        /\ UNCHANGED search
     \/ /\ Head(queue).node # node
        /\ Advance
        /\ UNCHANGED <<pc, node, items, answer>>
  /\ UNCHANGED <<graph, call>>

UncertainDone ==
  /\ pc = "uncertain" /\ queue = <<>>
  /\ \/ bounded /\ Classified("Unknown", "DepthBound", 0, NoEdge, TRUE)
     \/ ~bounded /\ Classified("Unreachable", "NoKnownPath", 0, NoEdge, FALSE)
  /\ UNCHANGED <<graph, call, search>>

QueryNext ==
  \/ StartMissing \/ StartSearch \/ TrailAtStart
  \/ ImpactVisit \/ ImpactDone
  \/ TrailVisit \/ TrailDone
  \/ StartClassify \/ ClassifyByFacts
  \/ StartKnown \/ KnownVisit \/ KnownBounded
  \/ StartUncertain \/ UncertainVisit \/ UncertainDone

Spec == Init /\ [][QueryNext]_vars

(***************************************************************************)
(* What the answers are measured against                                   *)
(***************************************************************************)
\* the nodes within k steps of from
Ball(next, from) ==
  LET ball[k \in 0 .. NodeCount] ==
        IF k = 0 THEN from ELSE ball[k-1] \cup UNION {next[n] : n \in ball[k-1]}
  IN ball
Closure(next, from) == Ball(next, from)[NodeCount]
Distance(next, from, n) ==
  CHOOSE k \in 0 .. NodeCount :
    n \in Ball(next, from)[k] /\ \A j \in 0 .. k-1 : n \notin Ball(next, from)[j]

Forward == [n \in Nodes |-> KnownFrom(n)]
Backward == [n \in Nodes |-> KnownInto(n)]
AnyForward == [n \in Nodes |-> {e.target : e \in {e \in graph.edges : e.source = n}} \cap Nodes]

TypeOK ==
  /\ graph \in Graphs /\ call \in Calls(graph)
  /\ pc \in {"start", "impact", "trail", "classify", "known", "uncertain", "done",
            "closure", "select"}   \* of PacketAssembly
  /\ node \in Nodes \cup {NoNode}
  /\ queue \in Seq([node : Nodes, depth : 0 .. NodeCount, via : graph.edges \cup {NoEdge}])
  /\ seen \subseteq Nodes /\ bounded \in BOOLEAN
  /\ items \in Seq([node : Nodes, parent : Nodes \cup {NoNode}, depth : 0 .. NodeCount])

DoneWith(op) == pc = "done" /\ call.op = op

(***************************************************************************)
(* A node is called unreachable, by reachability or in the list of         *)
(* zombies, only if nothing leads to it from an entrypoint, over edges     *)
(* known or uncertain, and nothing known leads to it from an end of an     *)
(* uncertain edge: uncertain candidates are no verified absence            *)
(* (query.rs:1283).                                                        *)
(***************************************************************************)
SafelyDead(n) ==
  /\ n \notin Closure(AnyForward, Entrypoints)
  /\ n \notin Closure(Forward, UNION {{e.source, e.target} \cap Nodes : e \in UncertainEdges})
NegativesAreSafe ==
  /\ answer.kind = "Unreachable" /\ call.op = "reachability" => SafelyDead(call.start)
  /\ call.op = "zombies" => \A i \in Range(items) : SafelyDead(i.node)

(***************************************************************************)
(* A trail that is found is a known path, a shortest one, and is never     *)
(* truncated; none is reported without truncation only if there is none    *)
(* (query.rs:1373-1421).                                                   *)
(***************************************************************************)
TrailIsShortest ==
  DoneWith("trail") /\ call.start \in Nodes /\ call.target \in Nodes =>
    /\ answer.kind = "Found" =>
         /\ ~answer.truncated
         /\ answer.path[1] = call.start /\ Last(answer.path) = call.target
         /\ \A i \in 1 .. Len(answer.path) - 1 : answer.path[i+1] \in KnownFrom(answer.path[i])
         /\ Len(answer.path) - 1 = Distance(Forward, {call.start}, call.target)
         /\ Len(answer.path) - 1 <= call.max_depth
    /\ answer.kind = "Unreachable" /\ ~answer.truncated =>
         call.target \notin Closure(Forward, {call.start})

(***************************************************************************)
(* impact lists every node once and with its distance, nearer ones first;  *)
(* it says truncated exactly if it leaves one out, and then only for one   *)
(* of its bounds (query.rs:1246-1282).                                     *)
(***************************************************************************)
ImpactIsHonest ==
  DoneWith("impact") /\ call.start \in Nodes =>
    LET listed == {i.node : i \in Range(items)}
        all == Closure(Backward, {call.start}) \ {call.start}
    IN /\ Cardinality(listed) = Len(items) /\ listed \subseteq all
       /\ \A i \in Range(items) : i.depth = Distance(Backward, {call.start}, i.node)
       /\ \A m \in all \ listed, i \in Range(items) :
            i.depth <= Distance(Backward, {call.start}, m)
       /\ answer.truncated <=> listed # all
       /\ answer.truncated =>
            Len(items) = call.max_results \/
            \A m \in all \ listed : Distance(Backward, {call.start}, m) > call.max_depth

\* Answers about the knowledge graph: nothing is called absent that may be there,
\* a trail is a shortest one, and impact says what a bound cut off
\* (GraphQuery::classify, trail and impact).
AnswersAreExact == NegativesAreSafe /\ TrailIsShortest /\ ImpactIsHonest
=============================================================================
