--------------------------- MODULE StructuralPacket ---------------------------
(***************************************************************************)
(* PacketAssembler::assemble_structural, crates/bran-core/src/packet/      *)
(* mod.rs: a packet made from a snapshot, a ranking receipt and a          *)
(* traversal receipt that a caller hands in.  The fields of the receipts   *)
(* are public.  The caller may have edited them, and may have published    *)
(* another snapshot since they were written; the assembler has to notice.  *)
(* One step validates everything, then one step admits or omits one item.  *)
(* The graph, the ranking and the walk behind the receipts come first.     *)
(***************************************************************************)
EXTENDS Integers, Sequences, FiniteSets, SequencesExt

(***************************************************************************)
(* The structural graph of crates/bran-core/src/graph: GraphBuilder makes  *)
(* a snapshot out of a candidate, StageRanker ranks its nodes, Traversal   *)
(* walks its edges.  Each writes a receipt.                                *)
(*                                                                         *)
(* A node is its id, a number, in the order of the ids.  A digest stands   *)
(* for what it is the digest of: two snapshots have the same digest if     *)
(* they have the same content and lineage.  Builder and ranker are         *)
(* functions of their input and take one step; the walk takes one step per *)
(* node it leaves the queue and one per edge.                              *)
(***************************************************************************)

CONSTANTS
  SnapshotCandidates,   \* candidates for a snapshot: [attr, edges, operation, frequency_of]
  Later,        \* candidates published after the receipts were written
  Requests,     \* what a caller asks for: ranking, walk and packet
  MaxNodes,     \* the limits of the builder
  MaxEdges,
  MaxSelection, \* MAX_RANKING_SELECTION
  MaxDomains,   \* MAX_REQUIRED_DOMAINS
  FrequencyCap, \* FREQUENCY_CAP_BASIS_POINTS
  WalkDepth,    \* Traversal::MAX_DEPTH, MAX_NODES, MAX_EDGES
  WalkNodes,
  WalkEdges,
  NoValue       \* None

Lifecycles == <<"Current", "Predecessor", "Superseded", "Draft", "Archive", "Rejected">>
Authorities == <<"Canonical", "Approved", "Supporting", "Unknown">>
EvidenceKinds ==
  {"Requirement", "Design", "Implementation", "Validation", "Architecture", "BusinessFlow"}
TraversableKinds == {"Dependency", "Impact", "Domain"} \cup EvidenceKinds
LineageKinds == {"Lifecycle", "Supersedes", "Predecessor"}
\* the order of the enum StructuralEdgeKind
KindOrder ==
  <<"Ownership", "Lifecycle", "Supersedes", "Predecessor", "Dependency", "Impact", "Requirement",
    "Design", "Implementation", "Validation", "Domain", "Architecture", "BusinessFlow",
    "GeneratedFrom", "SourceLink">>
Position(s, v) == CHOOSE i \in DOMAIN s : s[i] = v

Ids(s) == DOMAIN s.attr

\* What the constants are.
ASSUME StructuralAssumption ==
  /\ {MaxNodes, MaxEdges, MaxSelection, MaxDomains, FrequencyCap, WalkDepth, WalkNodes, WalkEdges}
       \subseteq Nat \ {0}
  /\ \A c \in SnapshotCandidates \cup Later :
       /\ IsFiniteSet(Ids(c)) /\ IsFiniteSet(c.edges)
       /\ \A n \in Ids(c) : /\ c.attr[n].life \in Range(Lifecycles) \ {"Predecessor"}
                           /\ c.attr[n].auth \in Range(Authorities)
  /\ \A r \in Requests : r.walk # NoValue => r.walk.relationships \in Seq(Range(KindOrder))

VARIABLES
  state,
  request,   \* what the caller asks for
  snapshot,  \* the published snapshot: [attr, edges, operation]
  ranking,   \* RankingReceipt
  walk,      \* StructuralTraversalReceipt
  leaving,     \* the walk: entries [node, steps] to leave
  todo,      \* the walk: edges of the node that was left
  result     \* how the request ended

walkVars == <<walk, leaving, todo>>
graphVars == <<state, request, snapshot, ranking, walkVars, result>>

Known(s) == {e \in s.edges : e.certainty = "Known"}
Incident(s, n) == {e \in s.edges : n \in {e.source, e.target}}
Other(e, n) == IF e.source = n THEN e.target ELSE e.source

(***************************************************************************)
(* GraphBuilder::build                                                     *)
(***************************************************************************)
\* structural_indexes: identities are unique and a target is missing
\* exactly if its edge says so
Indexed(c) ==
  /\ \A e \in c.edges : /\ e.source \in Ids(c)
                        /\ e.target \in Ids(c) <=> e.certainty # "MissingTarget"
  /\ \A e, f \in c.edges :
       <<e.kind, e.source, e.target>> = <<f.kind, f.source, f.target>> => e = f

\* directed_cycle and visit_lineage: a node is found again below itself
LineageCycle(c) ==
  LET next(S) == {e.target : e \in {x \in c.edges : x.kind \in LineageKinds /\ x.source \in S}}
      below[k \in 0 .. Cardinality(Ids(c))] ==
        IF k = 0 THEN [n \in Ids(c) |-> next({n})]
        ELSE [n \in Ids(c) |-> below[k - 1][n] \cup next(below[k - 1][n])]
  IN \E n \in Ids(c) : n \in below[Cardinality(Ids(c))][n]

\* validate_structural_candidate
LineageValid(c) ==
  /\ \A e \in c.edges :
       /\ e.kind = "GeneratedFrom" => e.target \in Ids(c) /\ c.attr[e.target].gen = "Source"
       /\ e.kind \in {"Supersedes", "Predecessor"} /\ e.target \in Ids(c) =>
            \E f \in c.edges : /\ f.source = e.source /\ f.target = e.target
                               /\ f.kind \in {"Supersedes", "Predecessor"} \ {e.kind}
  /\ ~LineageCycle(c)

BuildFailure(c) ==
  IF Cardinality(Ids(c)) > MaxNodes \/ Cardinality(c.edges) > MaxEdges THEN "Limit"
  ELSE IF c.operation = "blank" THEN "Receipt"
  ELSE IF ~Indexed(c) \/ ~LineageValid(c) THEN "Validation"
  ELSE "none"

(***************************************************************************)
(* StageRankingRequest::new, FrozenHistoricalFrequency::new and            *)
(* StageRanker::new                                                        *)
(***************************************************************************)
RankingError(s, r) ==
  IF r.selection \notin 1 .. MaxSelection THEN "InvalidSelectionLimit"
  ELSE IF r.seed.text \in {"empty", "long"} THEN "InvalidSeed"
  ELSE IF Len(r.domains) > MaxDomains THEN "TooManyRequiredDomains"
  ELSE IF "" \in Range(r.domains) THEN "InvalidRequiredDomain"
  ELSE IF ~IsInjective(r.domains) THEN "DuplicateRequiredDomain"
  ELSE IF ~IsInjective(r.classes) THEN "DuplicateEvidenceClass"
  ELSE IF \E n \in DOMAIN r.frequency : r.frequency[n] < 0 THEN "InvalidFrequencyValue"
  ELSE IF r.frequency_of # s.frequency_of THEN "FrequencyDigestMismatch"
  ELSE IF ~(DOMAIN r.frequency \subseteq Ids(s)) THEN "UnknownFrequencyNode"
  ELSE "none"

(***************************************************************************)
(* StageRanker::rank                                                       *)
(***************************************************************************)
IsSeed(s, n, seed) ==
  seed = [text |-> "id", value |-> n] \/ seed = [text |-> "path", value |-> s.attr[n].path]
SeedIds(s, seed) == {n \in Ids(s) : IsSeed(s, n, seed)}

\* direct_edge_kinds
DirectKinds(s, seeds, n) ==
  {e.kind : e \in {x \in Known(s) \cap Incident(s, n) : n \in seeds \/ Other(x, n) \in seeds}}

\* revision_key: a superseded node with a current neighbour in its lineage
\* is a predecessor
Revision(s, n) ==
  IF /\ s.attr[n].life = "Superseded"
     /\ \E e \in Known(s) \cap Incident(s, n) :
          /\ e.kind \in {"Predecessor", "Supersedes"}
          /\ s.attr[Other(e, n)].life = "Current"
  THEN "Predecessor" ELSE s.attr[n].life

AuthorityKey(a) ==
  LET order == << <<"Canonical", TRUE>>, <<"Approved", TRUE>>, <<"Canonical", FALSE>>,
                  <<"Approved", FALSE>>, <<"Supporting", TRUE>>, <<"Supporting", FALSE>>,
                  <<"Unknown", TRUE>>, <<"Unknown", FALSE>> >>
  IN Position(order, <<a.auth, a.owned>>)

ArtifactKey(a) ==
  CASE a.life = "Archive" -> 3 [] a.life = "Rejected" -> 4
    [] OTHER -> IF a.gen = "Source" THEN 1 ELSE 2

\* relevance_key: which nodes have the seed as owner or domain (named), and
\* which only contain it somewhere (mentions), are facts of the request
Relevance(s, r, n) ==
  IF IsSeed(s, n, r.seed) \/ n \in r.named THEN 2
  ELSE IF n \in r.mentions THEN 1 ELSE 0

Contribution(s, r, n, kinds) ==
  Cardinality(Range(r.domains) \cap s.attr[n].domains) + Cardinality(Range(r.classes) \cap kinds)
  + (IF r.stage \in kinds THEN 1 ELSE 0)

Frequency(r, n) ==
  LET raw == IF n \in DOMAIN r.frequency THEN r.frequency[n] ELSE 0
  IN IF raw < FrequencyCap THEN raw ELSE FrequencyCap

Eligible(s, n) == s.attr[n].life = "Current"

\* candidate_receipt: the ten parts of StageRankKey, smaller is better
RankKey(s, r, n) ==
  LET seeds == SeedIds(s, r.seed)
      kinds == DirectKinds(s, seeds, n)
  IN << IF Eligible(s, n) THEN 0 ELSE 1, AuthorityKey(s.attr[n]),
        Position(Lifecycles, Revision(s, n)), ArtifactKey(s.attr[n]),
        IF n \in seeds THEN 0 ELSE IF kinds # {} THEN 1 ELSE 2,
        -Relevance(s, r, n), -Contribution(s, r, n, kinds), -Frequency(r, n),
        s.attr[n].path, n >>

\* Ord for StageRankKey
Before(a, b) ==
  \E i \in 1 .. 10 : a[i] < b[i] /\ \A j \in 1 .. i - 1 : a[j] = b[j]

\* missing_evidence_decision
MissingEvidence(s, r, selected) ==
  LET seeds == SeedIds(s, r.seed) IN
  [domains |-> Range(r.domains) \ UNION {s.attr[n].domains : n \in Range(selected)},
   classes |-> Range(r.classes) \ UNION {DirectKinds(s, seeds, n) : n \in Range(selected)}]

OmissionReason(s, n) == IF Eligible(s, n) THEN "SelectionLimit" ELSE "LifecycleConflict"

\* the entries of a sequence that are in a set
Filtered(seq, keep) ==
  LET first[i \in 0 .. Len(seq)] ==
        IF i = 0 THEN <<>>
        ELSE IF seq[i] \in keep THEN Append(first[i - 1], seq[i]) ELSE first[i - 1]
  IN first[Len(seq)]

\* the sort by key: the nodes in the only order there is, since no two keys
\* are equal
RankOrders(s, r) ==
  {order \in SetToSeqs(Ids(s)) :
     \A i, j \in DOMAIN order : i < j => Before(RankKey(s, r, order[i]), RankKey(s, r, order[j]))}

RankReceipt(s, r, order) ==
  LET eligible == Filtered(order, {n \in Ids(s) : Eligible(s, n)})
      selected == SubSeq(eligible, 1, IF Len(eligible) < r.selection THEN Len(eligible) ELSE r.selection)
      omitted == Filtered(order, Ids(s) \ Range(selected))
  IN [of |-> s, seed |-> r.seed, count |-> Cardinality(Ids(s)), limit |-> r.selection,
      selected |-> selected, omitted |-> omitted,
      reason |-> [n \in Range(omitted) |-> OmissionReason(s, n)],
      conflicts |-> Filtered(omitted, {n \in Range(omitted) : OmissionReason(s, n) = "LifecycleConflict"}),
      missing |-> MissingEvidence(s, r, selected)]

(***************************************************************************)
(* Traversal::run                                                          *)
(***************************************************************************)
LimitsValid(w) ==
  w.depth \in 1 .. WalkDepth /\ w.nodes \in 1 .. WalkNodes /\ w.edges \in 1 .. WalkEdges

\* relationships are looked at one by one
TraversalError(s, w) ==
  LET kinds == w.relationships
      unsupported(i) == kinds[i] \notin TraversableKinds
      repeated(i) == kinds[i] \in {kinds[j] : j \in 1 .. i - 1}
      bad == {i \in DOMAIN kinds : unsupported(i) \/ repeated(i)}
      first == CHOOSE i \in bad : \A j \in bad : i <= j
  IN IF w.seed.text # "id" \/ w.seed.value \notin Ids(s) THEN "MissingSeed"
     ELSE IF kinds = <<>> THEN "EmptyRelationships"
     ELSE IF ~LimitsValid(w) THEN "InvalidLimits"
     ELSE IF bad = {} THEN "none"
     ELSE IF unsupported(first) THEN "UnsupportedRelationship" ELSE "DuplicateRelationship"

NewWalk(s, w) ==
  [of |-> s, seed |-> w.seed, bounds |-> w, visited |-> <<w.seed.value>>,
   steps |-> << <<>> >>, inspected |-> 0, accepted |-> 0, skipped |-> <<>>, terminal |-> "Running"]

Allowed(w) == Range(w.bounds.relationships)
Stop(terminal) ==
  /\ walk' = [walk EXCEPT !.terminal = terminal]
  /\ leaving' = <<>> /\ todo' = <<>>

\* the edges of a node, forward and reverse: one that joins the node to itself
\* is met from both sides
Sides(w, n) ==
  {[edge |-> e, way |-> "forward"] : e \in {x \in w.of.edges : x.source = n /\ x.kind \in Allowed(w)}}
  \cup {[edge |-> e, way |-> "reverse"] : e \in {x \in w.of.edges : x.target = n /\ x.kind \in Allowed(w)}}

\* the sort of the edges by kind, source and target
Earlier(a, b) ==
  LET key(x) == <<Position(KindOrder, x.edge.kind), x.edge.source, x.edge.target,
                  IF x.way = "forward" THEN 0 ELSE 1>>
  IN \E i \in 1 .. 4 : key(a)[i] < key(b)[i] /\ \A j \in 1 .. i - 1 : key(a)[j] = key(b)[j]
EdgeOrders(w, n) ==
  {order \in SetToSeqs(Sides(w, n)) : \A i, j \in DOMAIN order : i < j => Earlier(order[i], order[j])}

\* has_traversable_neighbor
HasNeighbour(w, n) ==
  \E e \in Known(w.of) \cap Incident(w.of, n) :
    e.kind \in Allowed(w) /\ Other(e, n) \notin Range(w.visited)

\* Mutant of AtDepthLimit: a node at the limit is left without a word.
AtDepthLimitSilently ==
  /\ leaving' = Tail(leaving) /\ UNCHANGED <<walk, todo>>

AtDepthLimit ==
  IF HasNeighbour(walk, Head(leaving).node) THEN Stop("DepthLimit")
  ELSE leaving' = Tail(leaving) /\ UNCHANGED <<walk, todo>>

\* the head of the queue is left; its edges are in todo, and it is removed
\* with the last of them
LeaveNode ==
  /\ state = "walk" /\ walk.terminal = "Running" /\ todo = <<>> /\ leaving # <<>>
  /\ LET current == Head(leaving) IN
     \/ Len(current.steps) = walk.bounds.depth /\ AtDepthLimit
     \/ /\ Len(current.steps) # walk.bounds.depth /\ UNCHANGED walk
        /\ \E edges \in EdgeOrders(walk, current.node) : todo' = edges
        /\ leaving' = IF todo' = <<>> THEN Tail(leaving) ELSE leaving
  /\ UNCHANGED <<state, request, snapshot, ranking, result>>

InspectEdge ==
  /\ state = "walk" /\ todo # <<>>
  /\ LET current == Head(leaving)
         edge == Head(todo).edge
         next == Other(edge, current.node)
         path == Append(current.steps, edge)
         rest == IF Len(todo) = 1 THEN Tail(leaving) ELSE leaving
         seen == [walk EXCEPT !.inspected = @ + 1]
     IN \/ walk.inspected = walk.bounds.edges /\ Stop("EdgeLimit")
        \/ /\ walk.inspected < walk.bounds.edges /\ edge.certainty # "Known"
           /\ walk' = [seen EXCEPT !.skipped = Append(@, edge)]
           /\ leaving' = rest /\ todo' = Tail(todo)
        \/ /\ walk.inspected < walk.bounds.edges /\ edge.certainty = "Known"
           /\ \/ /\ next \in Range(walk.visited)
                 /\ walk' = seen /\ leaving' = rest /\ todo' = Tail(todo)
              \/ /\ next \notin Range(walk.visited) /\ Len(walk.visited) = walk.bounds.nodes
                 /\ walk' = [seen EXCEPT !.terminal = "NodeLimit"]
                 /\ leaving' = <<>> /\ todo' = <<>>
              \/ /\ next \notin Range(walk.visited) /\ Len(walk.visited) < walk.bounds.nodes
                 /\ walk' = [seen EXCEPT !.accepted = @ + 1, !.visited = Append(@, next),
                                         !.steps = Append(@, path)]
                 /\ leaving' = Append(rest, [node |-> next, steps |-> path])
                 /\ todo' = Tail(todo)
  /\ UNCHANGED <<state, request, snapshot, ranking, result>>

WalkComplete ==
  /\ state = "walk" /\ walk.terminal = "Running" /\ leaving = <<>> /\ todo = <<>>
  /\ Stop("Complete")
  /\ UNCHANGED <<state, request, snapshot, ranking, result>>

(***************************************************************************)
(* A caller: build, rank, walk.  A refusal ends the request.               *)
(***************************************************************************)
Done(r) == state' = "done" /\ result' = r

BuildSnapshot ==
  /\ state = "build"
  /\ \E c \in SnapshotCandidates :
       \/ BuildFailure(c) # "none" /\ Done(BuildFailure(c)) /\ UNCHANGED snapshot
       \/ BuildFailure(c) = "none" /\ snapshot' = c /\ state' = "rank" /\ UNCHANGED result
  /\ UNCHANGED <<request, ranking, walkVars>>

Rank ==
  /\ state = "rank"
  /\ LET why == RankingError(snapshot, request) IN
     \/ why # "none" /\ Done(why) /\ UNCHANGED ranking
     \/ /\ why = "none" /\ state' = "start" /\ UNCHANGED result
        /\ \E order \in RankOrders(snapshot, request) : ranking' = RankReceipt(snapshot, request, order)
  /\ UNCHANGED <<request, snapshot, walkVars>>

StartWalk ==
  /\ state = "start" /\ request.walk # NoValue
  /\ LET why == TraversalError(snapshot, request.walk) IN
     \/ why # "none" /\ Done(why) /\ UNCHANGED <<walk, leaving>>
     \/ /\ why = "none" /\ state' = "walk" /\ UNCHANGED result
        /\ walk' = NewWalk(snapshot, request.walk)
        /\ leaving' = <<[node |-> request.walk.seed.value, steps |-> <<>>]>>
  /\ UNCHANGED <<request, snapshot, ranking, todo>>

CONSTANTS
  LocatorBytes,  \* [path of a node |-> length of the path]
  Edits          \* edits of the receipts the caller may make

VARIABLES
  edited,    \* the caller changed a receipt
  admitted,     \* [node, tier, trail, non_authoritative, bytes]
  omissions, \* bounded_omissions
  covered,   \* [domains, classes]
  due       \* what assemble_structural still has to look at: [node, tier, trail]

assemblyVars == <<edited, admitted, omissions, covered, due>>
structuralVars == <<graphVars, assemblyVars>>

StructuralInit ==
  /\ state = "build" /\ request \in Requests
  /\ snapshot = NoValue /\ ranking = NoValue /\ walk = NoValue
  /\ leaving = <<>> /\ todo = <<>> /\ result = "pending"
  /\ edited = FALSE /\ admitted = <<>> /\ omissions = <<>>
  /\ covered = [domains |-> {}, classes |-> {}] /\ due = <<>>

(***************************************************************************)
(* The validators                                                          *)
(***************************************************************************)
\* validate_ranking_receipt; canonical paths and rank identity go with the
\* node
RankingAccepted(s, k) ==
  LET all == k.selected \o k.omitted IN
  /\ k.count = Cardinality(Ids(s)) /\ Len(all) = k.count /\ Len(k.selected) <= k.limit
  /\ IsInjective(all) /\ Range(all) \subseteq Ids(s)
  /\ \A n \in Range(k.selected) : Eligible(s, n)
  /\ \A n \in Range(k.omitted) :
       k.reason[n] = IF Eligible(s, n) THEN "SelectionLimit" ELSE "LifecycleConflict"
  /\ k.conflicts = Filtered(k.omitted, {n \in Range(k.omitted) : k.reason[n] = "LifecycleConflict"})

\* the nodes that a path passes, from the seed on
PathNodes(seed, steps) ==
  LET at[i \in 0 .. Len(steps)] == IF i = 0 THEN seed ELSE Other(steps[i], at[i - 1]) IN at

\* Mutant of PathAccepted: the last step need not end at the node.
PathAcceptedOpen(s, w, i) ==
  LET steps == w.steps[i]
      at == PathNodes(w.seed.value, steps)
  IN /\ w.visited[i] \in Ids(s) /\ Len(steps) <= w.bounds.depth
     /\ \A j \in DOMAIN steps :
          /\ steps[j] \in Known(s) /\ steps[j].kind \in Range(w.bounds.relationships)
          /\ at[j - 1] \in {steps[j].source, steps[j].target} /\ at[j] \in Ids(s)
     /\ IsInjective(at)

\* the loop over the paths: known edges of the snapshot, one after the
\* other from the seed to the node, and no node twice
PathAccepted(s, w, i) ==
  LET steps == w.steps[i]
      at == PathNodes(w.seed.value, steps)
  IN /\ w.visited[i] \in Ids(s) /\ Len(steps) <= w.bounds.depth
     /\ \A j \in DOMAIN steps :
          /\ steps[j] \in Known(s) /\ steps[j].kind \in Range(w.bounds.relationships)
          /\ at[j - 1] \in {steps[j].source, steps[j].target} /\ at[j] \in Ids(s)
     /\ IsInjective(at) /\ at[Len(steps)] = w.visited[i]

TerminalBound(w) ==
  CASE w.terminal = "Complete" -> TRUE
    [] w.terminal = "DepthLimit" -> \E i \in DOMAIN w.steps : Len(w.steps[i]) = w.bounds.depth
    [] w.terminal = "NodeLimit" -> Len(w.visited) = w.bounds.nodes
    [] w.terminal = "EdgeLimit" -> w.inspected = w.bounds.edges

\* validate_traversal_receipt after the digest and the seed
TraversalAccepted(s, w) ==
  /\ LimitsValid(w.bounds) /\ w.visited # <<>> /\ Len(w.visited) <= w.bounds.nodes
  /\ Len(w.steps) = Len(w.visited) /\ w.inspected <= w.bounds.edges
  /\ LET kinds == w.bounds.relationships
     IN kinds # <<>> /\ IsInjective(kinds) /\ Range(kinds) \subseteq TraversableKinds
  /\ IsInjective(w.visited) /\ \A i \in DOMAIN w.visited : PathAccepted(s, w, i)
  /\ w.visited[1] = w.seed.value /\ w.steps[1] = <<>>
  /\ w.accepted = Len(w.visited) - 1 /\ w.inspected >= w.accepted
  /\ \A e \in Range(w.skipped) : /\ e \in s.edges /\ e.certainty # "Known"
                                 /\ e.kind \in Range(w.bounds.relationships)
  /\ TerminalBound(w)

\* the loop over the excerpts stops at the first that is refused
ExcerptError(s, r, related) ==
  LET x == r.excerpts
      why(i) ==
        IF x[i].node \notin related THEN "UnrelatedExcerpt"
        ELSE IF \E j \in 1 .. i - 1 : x[j].node = x[i].node THEN "DuplicateExcerpt"
        ELSE IF x[i].of # s.attr[x[i].node].path THEN "ExcerptDigestMismatch"
        ELSE IF ~x[i].relative \/ x[i].locator > r.packet.bytes THEN "InvalidExcerptLocator"
        ELSE IF x[i].content > r.packet.excerpt THEN "ExcerptTooLarge"
        ELSE IF x[i].complete THEN "CompleteFileRejected" ELSE "none"
      bad == {i \in DOMAIN x : why(i) # "none"}
  IN IF bad = {} THEN "none" ELSE why(CHOOSE i \in bad : \A j \in bad : i <= j)

OtherSnapshot(receipt, s) == receipt # NoValue /\ receipt.of # s

PacketError(s, r, k, w) ==
  IF OtherSnapshot(k, s) THEN "SnapshotDigestMismatch"
  ELSE IF 0 \in {r.packet.items, r.packet.bytes, r.packet.excerpt} THEN "InvalidLimits"
  ELSE IF ~RankingAccepted(s, k) THEN "InvalidRankingReceipt"
  ELSE IF OtherSnapshot(w, s) THEN "SnapshotDigestMismatch"
  ELSE IF w # NoValue /\ w.seed # k.seed THEN "TraversalSeedMismatch"
  ELSE IF w # NoValue /\ ~TraversalAccepted(s, w) THEN "InvalidTraversalReceipt"
  ELSE ExcerptError(s, r, Range(k.selected) \cup Range(k.omitted)
                          \cup (IF w = NoValue THEN {} ELSE Range(w.visited)))

(***************************************************************************)
(* The tiers                                                               *)
(***************************************************************************)
Authoritative(a) == a.life = "Current" /\ a.gen = "Source" /\ a.auth \in {"Canonical", "Approved"}

TrailOf(n) ==
  IF walk # NoValue /\ n \in Range(walk.visited) THEN walk.steps[Position(walk.visited, n)] ELSE <<>>
TierEntries(order, tier) ==
  [i \in DOMAIN order |-> [node |-> order[i], tier |-> tier,
                          trail |-> IF tier = "Conflict" THEN <<>> ELSE TrailOf(order[i])]]

\* the loops of assemble_structural one after the other
Agenda ==
  LET visited == IF walk = NoValue THEN <<>> ELSE walk.visited
  IN TierEntries(ranking.selected, "Primary") \o TierEntries(visited, "Dependency")
     \o TierEntries(ranking.conflicts, "Conflict") \o TierEntries(ranking.selected, "Ranked")
     \o TierEntries(visited, "Reached")

Decided == {admitted[i].node : i \in DOMAIN admitted} \cup {omissions[i].node : i \in DOMAIN omissions}

ClassOf(trail) ==
  IF trail = <<>> THEN {} ELSE {trail[Len(trail)].kind} \cap EvidenceKinds
Helps(entry) ==
  \/ snapshot.attr[entry.node].domains \cap (Range(request.domains) \ covered.domains) # {}
  \/ ClassOf(entry.trail) \cap (Range(request.classes) \ covered.classes) # {}

\* which entries a loop does not pass over
Considered(entry) ==
  LET a == snapshot.attr[entry.node] IN
  /\ entry.node \notin Decided
  /\ entry.tier = "Primary" => Authoritative(a)
  /\ entry.tier = "Dependency" =>
       /\ entry.node \notin Range(ranking.selected)
       /\ a.life = "Current" /\ a.gen = "Source" /\ Helps(entry)

NonAuthoritative(entry) ==
  \/ entry.tier \in {"Conflict", "Ranked"}
  \/ entry.tier = "Reached" /\ ~Authoritative(snapshot.attr[entry.node])

ExcerptOf(n) == {x \in Range(request.excerpts) : x.node = n}
\* the bytes that add_structural_item counts: a follow-up has no content
Bytes(entry) ==
  LET own == ExcerptOf(entry.node)
      x == CHOOSE x \in own : TRUE
  IN IF own = {} THEN LocatorBytes[snapshot.attr[entry.node].path]
     ELSE x.locator + (IF entry.tier \in {"Ranked", "Reached"} THEN 0 ELSE x.content)

PacketBytes == FoldSeq(LAMBDA i, b : i.bytes + b, 0, admitted)
Bound(entry) ==
  IF Len(admitted) = request.packet.items THEN "ItemLimit"
  ELSE IF PacketBytes + Bytes(entry) > request.packet.bytes THEN "PacketByteLimit" ELSE "none"

\* the caller holds the receipts it asked for
Receipts ==
  \/ state = "start" /\ request.walk = NoValue
  \/ state = "walk" /\ walk.terminal # "Running"

Assemble ==
  /\ Receipts
  /\ LET why == PacketError(snapshot, request, ranking, walk) IN
     \/ why # "none" /\ Done(why) /\ UNCHANGED due
     \/ why = "none" /\ state' = "tiers" /\ due' = Agenda /\ UNCHANGED result
  /\ UNCHANGED <<request, snapshot, ranking, walkVars, edited, admitted, omissions, covered>>

PassOver ==
  /\ state = "tiers" /\ due # <<>> /\ ~Considered(Head(due))
  /\ due' = Tail(due)
  /\ UNCHANGED <<graphVars, edited, admitted, omissions, covered>>

\* add_structural_item
AddItem ==
  /\ state = "tiers" /\ due # <<>> /\ Considered(Head(due))
  /\ LET entry == Head(due)
         apart == NonAuthoritative(entry)
     IN \/ /\ Bound(entry) = "none"
           /\ admitted' = Append(admitted, [node |-> entry.node, tier |-> entry.tier, trail |-> entry.trail,
                                      non_authoritative |-> apart, bytes |-> Bytes(entry)])
           /\ covered' = IF apart THEN covered
                         ELSE [domains |-> covered.domains \cup snapshot.attr[entry.node].domains,
                               classes |-> covered.classes \cup ClassOf(entry.trail)]
           /\ due' = Tail(due) /\ UNCHANGED <<state, result, omissions>>
        \/ /\ Bound(entry) # "none" /\ entry.tier \in {"Primary", "Dependency"}
           /\ Done("RequiredItemDoesNotFit")
           /\ UNCHANGED <<admitted, covered, due, omissions>>
        \/ /\ Bound(entry) # "none" /\ entry.tier \notin {"Primary", "Dependency"}
           /\ omissions' = Append(omissions, [node |-> entry.node, tier |-> entry.tier,
                                              reason |-> Bound(entry)])
           /\ due' = Tail(due) /\ UNCHANGED <<state, result, admitted, covered>>
  /\ UNCHANGED <<request, snapshot, ranking, walkVars, edited>>

MissingDomains == Range(request.domains) \ covered.domains
MissingClasses == Range(request.classes) \ covered.classes
Finish ==
  /\ state = "tiers" /\ due = <<>>
  /\ Done(IF MissingDomains = {} /\ MissingClasses = {} THEN "sufficient" ELSE "insufficient")
  /\ UNCHANGED <<request, snapshot, ranking, walkVars, assemblyVars>>

(***************************************************************************)
(* The caller between the receipts and the packet                          *)
(***************************************************************************)
Rebuild ==
  /\ Receipts /\ ranking.of = snapshot
  /\ \E c \in Later : BuildFailure(c) = "none" /\ c # snapshot /\ snapshot' = c
  /\ UNCHANGED <<state, request, ranking, walkVars, result, assemblyVars>>

Edit ==
  /\ Receipts /\ ~edited
  /\ \E edit \in Edits :
       \/ /\ edit = "select omitted" /\ ranking.omitted # <<>>
          /\ ranking' = [ranking EXCEPT !.selected = Append(@, Head(ranking.omitted)),
                                        !.omitted = Tail(@)]
          /\ UNCHANGED walk
       \/ /\ edit = "hide conflicts" /\ ranking.conflicts # <<>>
          /\ ranking' = [ranking EXCEPT !.conflicts = <<>>]
          /\ UNCHANGED walk
       \/ /\ edit = "swap paths" /\ walk # NoValue /\ Len(walk.steps) > 2
          /\ walk' = [walk EXCEPT !.steps[2] = walk.steps[3], !.steps[3] = walk.steps[2]]
          /\ UNCHANGED ranking
       \/ /\ edit = "claim visit" /\ walk # NoValue /\ Len(walk.visited) < walk.bounds.nodes
          /\ \E n \in Ids(snapshot) \ Range(walk.visited) :
               walk' = [walk EXCEPT !.visited = Append(@, n), !.steps = Append(@, walk.steps[Len(@)]),
                                    !.accepted = @ + 1]
          /\ UNCHANGED ranking
  /\ edited' = TRUE
  /\ UNCHANGED <<state, request, snapshot, leaving, todo, result, admitted, omissions, covered, due>>

Terminated == state = "done" /\ UNCHANGED structuralVars

StructuralNext ==
  \/ (BuildSnapshot \/ Rank \/ StartWalk \/ LeaveNode \/ InspectEdge \/ WalkComplete) /\ UNCHANGED assemblyVars
  \/ Rebuild \/ Edit \/ Assemble \/ PassOver \/ AddItem \/ Finish \/ Terminated
StructuralSpec == StructuralInit /\ [][StructuralNext]_structuralVars

(***************************************************************************)
(* Properties                                                              *)
(***************************************************************************)
\* nodes by their distance from the seed, over edges that the walk may take
Within(s, seed, kinds, d) ==
  LET edges == {e \in Known(s) : e.kind \in kinds}
      reach[k \in 0 .. d] ==
        IF k = 0 THEN {seed}
        ELSE reach[k - 1] \cup UNION {{e.source, e.target} :
                                      e \in {f \in edges : {f.source, f.target} \cap reach[k - 1] # {}}}
  IN reach[d]

\* A walk that ends says what it left out: a complete one has found everything
\* the relationships lead to, one stopped at its depth or its nodes has not,
\* and every node was reached by a shortest path (Traversal::run).
WalkIsHonest ==
  ~edited /\ walk # NoValue /\ walk.terminal # "Running" =>
    LET seed == walk.seed.value
        all == Within(walk.of, seed, Allowed(walk), Cardinality(Ids(walk.of)))
    IN /\ walk.terminal = "Complete" => Range(walk.visited) = all
       /\ walk.terminal \in {"DepthLimit", "NodeLimit"} => Range(walk.visited) # all
       /\ \A i \in DOMAIN walk.visited : Len(walk.steps[i]) > 0 =>
            walk.visited[i] \notin Within(walk.of, seed, Allowed(walk), Len(walk.steps[i]) - 1)

\* What StageRanker::rank and Traversal::run write about a snapshot, the
\* validators of assemble_structural accept for that snapshot: an unedited
\* receipt is never called invalid.
OwnReceiptsAccepted ==
  ~edited /\ ranking # NoValue /\ ranking.of = snapshot =>
    result \notin {"InvalidRankingReceipt", "InvalidTraversalReceipt"}

Finished == result \in {"sufficient", "insufficient"}

\* The packet is about the snapshot it is made for, whatever the caller did to
\* the receipts: every trail leads from the seed to its item over known edges
\* of that snapshot, what is not current is marked as non-authoritative, and no
\* node is there twice.
PacketIsBound ==
  state = "tiers" \/ Finished =>
    /\ IsInjective([i \in DOMAIN admitted |-> admitted[i].node])
    /\ \A i \in DOMAIN admitted :
         LET item == admitted[i]
             at == PathNodes(walk.seed.value, item.trail)
         IN /\ item.node \in Ids(snapshot)
            /\ item.non_authoritative \/ snapshot.attr[item.node].life = "Current"
            /\ item.trail # <<>> =>
                 /\ Range(item.trail) \subseteq Known(snapshot)
                 /\ at[Len(item.trail)] = item.node

\* A packet that calls itself sufficient holds, for every required domain, an
\* item of current source text in that domain; and nothing it was bound to
\* hold fell to the limits: every selected authoritative node is an item, and
\* every lifecycle conflict is an item or a recorded omission.
SufficiencyIsEarned ==
  Finished =>
    /\ result = "sufficient" => \A d \in Range(request.domains) : \E i \in DOMAIN admitted :
         LET a == snapshot.attr[admitted[i].node] IN d \in a.domains /\ a.life = "Current" /\ a.gen = "Source"
    /\ \A n \in Ids(snapshot) :
         /\ n \in Range(ranking.selected) /\ Authoritative(snapshot.attr[n]) =>
              \E i \in DOMAIN admitted : admitted[i].node = n /\ admitted[i].tier = "Primary"
         /\ snapshot.attr[n].life # "Current" => n \in Decided

\* Packets made from receipts: receipts are accepted while they are true, the
\* packet is about its own snapshot, and it is called sufficient only when it is
\* (PacketAssembler::assemble_structural).
PacketIsEarned == OwnReceiptsAccepted /\ PacketIsBound /\ SufficiencyIsEarned
=============================================================================
