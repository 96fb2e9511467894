----------------------------- MODULE MCKnowledge -----------------------------
(***************************************************************************)
(* The two graphs of the repository for TLC: the knowledge graph, with its *)
(* bounded queries and the packets made from views of it (GraphQuery,      *)
(* PacketAssembly), and the structural graph, with the packets made from   *)
(* receipts of walks over it (StructuralPacket).  A behaviour asks one of  *)
(* them.                                                                   *)
(***************************************************************************)
EXTENDS PacketAssembly, StructuralPacket

CONSTANTS Depths, Results

VARIABLE asks   \* which of the two graphs

(***************************************************************************)
(* The knowledge graph: four nodes and a few edges.                        *)
(***************************************************************************)

Edge(s, t, c) == [source |-> s, target |-> t, certainty |-> c, relationship |-> "Dependency"]
EdgeSpace ==
  {Edge(s, t, c) : s \in 1 .. NodeCount, t \in 1 .. NodeCount, c \in {"Known", "Dynamic"}}
  \cup {Edge(2, NodeCount + 1, "MissingTarget")}
  \cup {[Edge(1, 3, "Known") EXCEPT !.relationship = "Conflict"]}
EdgeSets == {{f[i] : i \in 1 .. MaxEdges} : f \in [1 .. MaxEdges -> EdgeSpace]} \cup {{}}
Roles == {[n \in 1 .. NodeCount |-> IF n \in E THEN "Entrypoint" ELSE "Document"] :
            E \in {{}, {1}, {1, 2}}}
\* the roles and facts that decide by themselves, on graphs with one edge
RolesDecided == [n \in 1 .. NodeCount |-> IF n = 1 THEN "Test" ELSE IF n = 2 THEN "Generated" ELSE "Document"]
MCGraphs == [role : Roles, partial : {{}}, edges : EdgeSets]
            \cup [role : {RolesDecided}, partial : {{NodeCount}}, edges : {{e} : e \in EdgeSpace}]

Call(op, start, target, depth, results) ==
  [op |-> op, start |-> start, target |-> target, max_depth |-> depth, max_results |-> results]

\* roles and uncertain edges matter to classification only
Plain(g) == /\ \A n \in 1 .. NodeCount : g.role[n] = "Document"
            /\ \A e \in g.edges : e.certainty # "Dynamic"

PacketCalls ==
  {c \in [op : {"packet"}, wanted : {{1, 2}}, view_items : {1, 2}, view_bytes : {8, 20},
          max_depth : {0, 1, 2}, max_nodes : {1, 2}, max_items : {2, 4}, max_bytes : {8, 20},
          max_tokens : {NoCeiling, 3}] : 
     /\ c.view_bytes = 8 => c.view_items = 2
     /\ c.max_bytes = 8 <=> c.max_tokens = NoCeiling}

MCCalls(g) ==
  {Call("reachability", NodeCount, NoNode, d, 0) : d \in Depths}
  \cup (IF Cardinality(g.edges) < MaxEdges
        THEN {Call("zombies", NoNode, NoNode, d, r) : d \in Depths, r \in {0, 1, 4}}
        ELSE {})
  \cup (IF Plain(g)
        THEN {Call("impact", s, NoNode, d, r) : s \in {NoNode, 1}, d \in Depths, r \in Results}
             \cup {Call("trail", 2, t, d, r) : t \in 0 .. NodeCount, d \in Depths, r \in Results}
        ELSE {})
  \cup (IF Plain(g) /\ Cardinality(g.edges) < MaxEdges THEN PacketCalls ELSE {})

MCRenderedBytes == [n \in 1 .. NodeCount |-> 4 * n]
MCEvidence ==
  {[priority |-> p, authority |-> p, bytes |-> b, anchors |-> "kept"] : p \in {0, 1}, b \in {3, 5}}
  \cup {[priority |-> 0, authority |-> 1, bytes |-> 3, anchors |-> "none"],
        [priority |-> 2, authority |-> 1, bytes |-> 3, anchors |-> "lost"]}

(***************************************************************************)
(* The structural graph.                                                   *)
(***************************************************************************)

\* Snapshots of three nodes and a few edges, and the requests made of them.
Attr(path, domains, owned, life, auth, gen) ==
  [path |-> path, domains |-> domains, owned |-> owned, life |-> life, auth |-> auth, gen |-> gen]
Link(k, s, t, c) == [kind |-> k, source |-> s, target |-> t, certainty |-> c]

\* node 1 is where walks start; 2 and 3 vary; 3 and 4 share a path
Seconds == {Attr(2, {"a"}, TRUE, "Current", "Canonical", "Source"),
            Attr(2, {"a"}, FALSE, "Superseded", "Approved", "Source"),
            Attr(2, {"a"}, FALSE, "Current", "Supporting", "Generated")}
Thirds == {Attr(3, {"b"}, FALSE, "Current", "Supporting", "Source"),
           Attr(3, {"a", "b"}, FALSE, "Archive", "Canonical", "Source"),
           Attr(3, {}, TRUE, "Current", "Approved", "Source")}
Attrs == {<<Attr(1, {"b"}, TRUE, "Current", "Approved", "Source"), x, y>> : x \in Seconds, y \in Thirds}

StructuralEdges ==
  {{Link("Dependency", 1, 2, c), Link(k, 2, 3, "Known")} : c \in {"Known", "Dynamic"}, k \in {"Design", "Lifecycle"}}
  \cup {{Link("Design", 1, 1, "Known"), Link("Design", 1, 2, "Known"), Link("Design", 3, 1, "Known")},
        {Link("Dependency", 1, 2, "Known"), Link("Dependency", 2, 3, "Known"), Link("Design", 3, 1, "Unknown")},
        {Link("Supersedes", 1, 2, "Known"), Link("Predecessor", 1, 2, "Known"), Link("Design", 1, 3, "Known")},
        {Link("Design", 2, 9, "MissingTarget"), Link("Design", 1, 2, "Known")}}
RefusedEdges ==
  {{Link("Supersedes", 1, 2, "Known")}, {Link("Design", 1, 9, "Known")},
   {Link("Lifecycle", 1, 2, "Known"), Link("Lifecycle", 2, 1, "Known")},
   {Link("Design", 1, 2, "Known"), Link("Design", 1, 2, "Dynamic")},
   {Link("GeneratedFrom", 1, 9, "MissingTarget")},
   {Link("Design", i, j, "Known") : i \in 1 .. 2, j \in 1 .. 2}}

SnapshotCandidate(a, e, o) == [attr |-> a, edges |-> e, operation |-> o, frequency_of |-> "frozen"]
MCCandidates ==
  {SnapshotCandidate(a, e, "op") : a \in Attrs, e \in StructuralEdges}
  \cup {SnapshotCandidate(a, e, "op") : a \in {CHOOSE a \in Attrs : TRUE}, e \in RefusedEdges}
  \cup {SnapshotCandidate(CHOOSE a \in Attrs : TRUE, {}, "blank")}

MCLater ==
  {SnapshotCandidate(<<Attr(1, {"b"}, TRUE, "Current", "Approved", "Source"),
               Attr(2, {"a"}, TRUE, l, "Canonical", "Source"),
               Attr(3, {"b"}, FALSE, "Current", "Supporting", "Source")>>,
             {Link("Design", 1, 2, "Known"), Link("Dependency", 1, 3, "Known")}, "op") :
     l \in {"Current", "Archive"}}

SeedId(n) == [text |-> "id", value |-> n]
WalkRequest(seed, kinds, d, n, e) ==
  [seed |-> seed, relationships |-> kinds, depth |-> d, nodes |-> n, edges |-> e]
BaseRequest ==
  [seed |-> SeedId(1), selection |-> 2, domains |-> <<"a", "b">>, classes |-> <<"Design">>, stage |-> "Design",
   mentions |-> {2}, named |-> {}, frequency |-> (2 :> 7 @@ 3 :> 1), frequency_of |-> "frozen",
   walk |-> WalkRequest(SeedId(1), <<"Dependency", "Design">>, 2, 3, 6),
   excerpts |-> <<>>, packet |-> [items |-> 3, bytes |-> 20, excerpt |-> 5]]
Excerpt(n, path, content) ==
  [node |-> n, of |-> path, relative |-> TRUE, locator |-> 2, content |-> content, complete |-> FALSE]

WalkRequests == {[BaseRequest.walk EXCEPT !.depth = d, !.nodes = n, !.edges = e] : d \in {1, 2}, n \in {1, 2, 3}, e \in {1, 2, 6}}
         \cup {WalkRequest(SeedId(1), <<>>, 2, 3, 6), WalkRequest(SeedId(7), <<"Design">>, 2, 3, 6), WalkRequest(SeedId(2), <<"Design">>, 2, 3, 6),
               WalkRequest(SeedId(1), <<"Design", "Design">>, 2, 3, 6), WalkRequest(SeedId(1), <<"Lifecycle">>, 2, 3, 6),
               WalkRequest(SeedId(1), <<"Design">>, 0, 3, 6)}
MCRequests ==
  {[BaseRequest EXCEPT !.walk = w] : w \in WalkRequests \cup {NoValue}}
  \cup {[BaseRequest EXCEPT !.packet = p, !.excerpts = <<Excerpt(2, 2, 4), Excerpt(3, 3, 5)>>] :
          p \in [items : {0, 1, 2, 3}, bytes : {7, 20}, excerpt : {5}]}
  \cup {[BaseRequest EXCEPT !.selection = n, !.classes = c] : n \in {0, 1, 3, 9}, c \in {<<>>, <<"Design", "Design">>}}
  \cup {[BaseRequest EXCEPT !.domains = d] : d \in {<<"a", "a">>, <<"">>, <<"a", "b", "c", "d">>, <<"c">>}}
  \cup {[BaseRequest EXCEPT !.seed = [text |-> t, value |-> 3], !.walk = NoValue, !.named = {3}] :
          t \in {"path", "name", "empty"}}
  \cup {[BaseRequest EXCEPT !.frequency = f] : f \in {9 :> 1, 2 :> -1}} \cup {[BaseRequest EXCEPT !.frequency_of = "other"]}
  \cup {[BaseRequest EXCEPT !.excerpts = x] :
          x \in {<<Excerpt(7, 2, 1)>>, <<Excerpt(2, 2, 1), Excerpt(2, 2, 1)>>, <<Excerpt(2, 3, 1)>>,
                 <<[Excerpt(2, 2, 1) EXCEPT !.relative = FALSE]>>, <<Excerpt(2, 2, 6)>>,
                 <<[Excerpt(2, 2, 1) EXCEPT !.complete = TRUE]>>}}

MCLocatorBytes == [p \in 1 .. 3 |-> 3]

\* What the graph that is not asked is like.
StructuralIdle ==
  /\ state = "idle" /\ request = NoValue /\ snapshot = NoValue /\ ranking = NoValue /\ walk = NoValue
  /\ leaving = <<>> /\ todo = <<>> /\ result = "none"
  /\ edited = FALSE /\ admitted = <<>> /\ omissions = <<>> /\ covered = {} /\ due = <<>>
QueryIdle ==
  /\ graph = NoValue /\ call = [op |-> "none"] /\ pc = "idle" /\ node = NoNode
  /\ queue = <<>> /\ seen = {} /\ bounded = FALSE /\ items = <<>> /\ answer = Pending
  /\ view = NoValue /\ evidence = <<>> /\ waiting = <<>> /\ selected = <<>> /\ omitted = <<>> /\ raw_bytes = 0

MCInit == \/ asks = "knowledge" /\ PacketInit /\ StructuralIdle
          \/ asks = "structural" /\ StructuralInit /\ QueryIdle

KnowledgeStep == asks = "knowledge" /\ Next /\ UNCHANGED <<asks, structuralVars>>
StructuralStep == asks = "structural" /\ StructuralNext /\ UNCHANGED <<asks, allVars>>

MCSpec == MCInit /\ [][KnowledgeStep \/ StructuralStep]_<<asks, allVars, structuralVars>>
=============================================================================
