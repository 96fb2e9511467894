---------------------------- MODULE KnowledgeProofs ----------------------------
EXTENDS PacketAssembly, StructuralPacket, FiniteSetTheorems, WellFoundedInduction, TLAPS

(***************************************************************************)
(* Proofs about GraphQuery, PacketAssembly and StructuralPacket, for every *)
(* graph, every call, every request and every bound that GraphAssumption,  *)
(* CallAssumption, PacketAssumption and StructuralAssumption admit.        *)
(*                                                                         *)
(* The breadth-first searches of query.rs and packet/mod.rs are one search *)
(* here: Frontier says what it has in its queue, has seen and has found,   *)
(* FrontierStep that taking one entry keeps it so, and FrontierSeen,       *)
(* FrontierEnds and FrontierCut what it comes to.  Balls and distances are *)
(* recursive functions; that they exist is IterationExists, and inductions *)
(* go by the least counterexample (LeastNatural).  KnowledgeInv says how   *)
(* far each call has come, one lemma per action that the action keeps it,  *)
(* and its theorems what that says of the answers.                         *)
(*                                                                         *)
(* The second half is about the other graph.  StructuralInv says what the  *)
(* receipts of a request, the queue of its walk and the packet made from   *)
(* them are at every step; Recursion plays the part of Iterate for the     *)
(* recursive functions that look at their place as well.                   *)
(***************************************************************************)

(***************************************************************************)
(* Counting and recursion                                                  *)
(***************************************************************************)
LEMMA LeastNatural ==
  ASSUME NEW P \in SUBSET Nat, P # {}
  PROVE  \E p \in P : \A q \in P : p <= q
<1> DEFINE less == {mn \in Nat \X Nat : mn[1] < mn[2]}
<1>1. IsWellFoundedOn(less, Nat)
  BY NatLessThanWellFounded DEF OpToRel
<1> HIDE DEF less
<1>2. PICK p \in P : \A q \in P : ~ (<<q, p>> \in less)
  BY <1>1, WFMin, Zenon
<1>3. \A m, k \in Nat : <<m, k>> \in less <=> m < k
  BY DEF less
<1>4. \A q \in P : ~ (q < p)
  BY <1>2, <1>3, Zenon
<1> QED
  BY <1>4

\* What is applied again and again, N times, to a first value.
Iterate(S, b, F, N, f) ==
  f \in [0 .. N -> S] /\ \A k \in 0 .. N : f[k] = IF k = 0 THEN b ELSE F[f[k - 1]]

\* A recursive function over 0 .. N has a value.
LEMMA IterationExists ==
  ASSUME NEW S, NEW b \in S, NEW F \in [S -> S], NEW N \in Nat
  PROVE  \E f : Iterate(S, b, F, N, f)
<1> DEFINE Bad == {m \in Nat : ~ \E f : Iterate(S, b, F, m, f)}
<1>1. SUFFICES ASSUME Bad # {} PROVE FALSE
  OBVIOUS
<1>2. PICK m \in Bad : \A q \in Bad : m <= q
  <2> Bad \in SUBSET Nat
    OBVIOUS
  <2> HIDE DEF Bad
  <2> QED
    BY <1>1, LeastNatural
<1>3. CASE m = 0
  <2>1. Iterate(S, b, F, 0, [k \in 0 .. 0 |-> b])
    BY DEF Iterate
  <2> QED
    BY <2>1, <1>3, <1>2
<1>4. CASE m # 0
  <2>1. m \in Nat /\ m - 1 \in Nat /\ m - 1 \notin Bad
    BY <1>2, <1>4
  <2>2. PICK g : Iterate(S, b, F, m - 1, g)
    BY <2>1
  <2> DEFINE f == [k \in 0 .. m |-> IF k < m THEN g[k] ELSE F[g[m - 1]]]
  <2>3. Iterate(S, b, F, m, f)
    BY <2>1, <2>2 DEF Iterate
  <2> QED
    BY <2>3, <1>2
<1> QED
  BY <1>3, <1>4

(***************************************************************************)
(* The nodes within some steps, and how far a node is                      *)
(***************************************************************************)
Neighbours == [Nodes -> SUBSET Nodes]
Grown(next) == [A \in SUBSET Nodes |-> A \cup UNION {next[n] : n \in A}]

\* There is a node.
LEMMA NodeCountIs == NodeCount \in Nat /\ NodeCount > 0
BY GraphAssumption

\* A ball is what the recursion of Ball says: one step more adds the neighbours.
LEMMA BallIs ==
  ASSUME NEW next \in Neighbours, NEW from \in SUBSET Nodes
  PROVE  /\ \A k \in 0 .. NodeCount : Ball(next, from)[k] \in SUBSET Nodes
         /\ Ball(next, from)[0] = from
         /\ \A k \in 0 .. NodeCount - 1 :
              Ball(next, from)[k + 1] = Ball(next, from)[k] \cup UNION {next[n] : n \in Ball(next, from)[k]}
<1> DEFINE Is(ball) == ball = [k \in 0 .. NodeCount |->
             IF k = 0 THEN from ELSE ball[k-1] \cup UNION {next[n] : n \in ball[k-1]}]
<1>1. Grown(next) \in [SUBSET Nodes -> SUBSET Nodes]
  BY DEF Grown, Neighbours
<1>2. PICK f : Iterate(SUBSET Nodes, from, Grown(next), NodeCount, f)
  BY <1>1, IterationExists, NodeCountIs
<1>3. Is(f)
  <2>1. \A k \in 0 .. NodeCount : k # 0 => k - 1 \in 0 .. NodeCount
    BY NodeCountIs
  <2>2. \A k \in 0 .. NodeCount : k # 0 => f[k] = f[k-1] \cup UNION {next[n] : n \in f[k-1]}
    BY <1>2, <2>1 DEF Iterate, Grown
  <2> QED
    BY <1>2, <2>2 DEF Iterate
<1>4. Ball(next, from) = CHOOSE ball : Is(ball)
  BY DEF Ball
<1>5. Is(Ball(next, from))
  <2> HIDE DEF Is
  <2> QED
    BY <1>3, <1>4, Zenon
<1> HIDE DEF Is
<1> DEFINE b == Ball(next, from)
<1>6. \A k \in 0 .. NodeCount : b[k] = IF k = 0 THEN from ELSE b[k-1] \cup UNION {next[n] : n \in b[k-1]}
  BY <1>5 DEF Is
<1> HIDE DEF b
<1>8. b[0] = from /\ \A k \in 0 .. NodeCount - 1 : b[k + 1] = b[k] \cup UNION {next[n] : n \in b[k]}
  <2>1. b[0] = from
    <3>1. 0 \in 0 .. NodeCount
      BY NodeCountIs
    <3> QED
      BY <1>6, <3>1, Zenon
  <2>2. ASSUME NEW k \in 0 .. NodeCount - 1
        PROVE  b[k + 1] = b[k] \cup UNION {next[n] : n \in b[k]}
    <3>1. k + 1 \in 0 .. NodeCount /\ k + 1 # 0 /\ (k + 1) - 1 = k
      BY NodeCountIs
    <3>2. b[k + 1] = b[(k + 1) - 1] \cup UNION {next[n] : n \in b[(k + 1) - 1]}
      BY <1>6, <3>1, Zenon
    <3> QED
      BY <3>1, <3>2, Zenon
  <2> QED
    BY <2>1, <2>2
<1>9. \A k \in 0 .. NodeCount : b[k] \in SUBSET Nodes
  <2> DEFINE Bad == {k \in 0 .. NodeCount : b[k] \notin SUBSET Nodes}
  <2>1. SUFFICES ASSUME Bad # {} PROVE FALSE
    OBVIOUS
  <2>2. Bad \in SUBSET Nat
    OBVIOUS
  <2>3. PICK k \in Bad : \A j \in Bad : k <= j
    <3> HIDE DEF Bad
    <3> QED
      BY <2>1, <2>2, LeastNatural
  <2>4. k # 0
    BY <1>8, <2>3
  <2>5. k - 1 \in 0 .. NodeCount - 1 /\ k - 1 \in 0 .. NodeCount /\ k - 1 \notin Bad /\ (k - 1) + 1 = k
    BY <2>3, <2>4, NodeCountIs
  <2>6. b[k - 1] \in SUBSET Nodes
    BY <2>5
  <2>7. b[(k - 1) + 1] \in SUBSET Nodes
    BY <1>8, <2>5, <2>6 DEF Neighbours
  <2> QED
    BY <2>3, <2>7
<1> QED
  BY <1>8, <1>9 DEF b

\* A ball contains the smaller ones.
LEMMA BallGrows ==
  ASSUME NEW next \in Neighbours, NEW from \in SUBSET Nodes,
         NEW k \in 0 .. NodeCount, NEW j \in 0 .. k
  PROVE  Ball(next, from)[j] \subseteq Ball(next, from)[k]
<1> DEFINE b == Ball(next, from)
           Bad == {i \in j .. NodeCount : ~ (b[j] \subseteq b[i])}
<1>1. SUFFICES ASSUME Bad # {} PROVE FALSE
  BY NodeCountIs
<1>2. \A i \in 0 .. NodeCount - 1 : b[i + 1] = b[i] \cup UNION {next[n] : n \in b[i]}
  BY BallIs
<1> HIDE DEF b
<1>3. Bad \in SUBSET Nat
  OBVIOUS
<1>4. PICK i \in Bad : \A m \in Bad : i <= m
  <2> HIDE DEF Bad
  <2> QED
    BY <1>1, <1>3, LeastNatural
<1>5. i # j
  BY <1>4
<1>6. i - 1 \in 0 .. NodeCount - 1 /\ i - 1 \in j .. NodeCount /\ (i - 1) + 1 = i /\ ~ (i <= i - 1)
  BY <1>4, <1>5, NodeCountIs
<1>7. i - 1 \notin Bad
  BY <1>4, <1>6
<1>8. b[j] \subseteq b[i - 1]
  BY <1>6, <1>7
<1>9. b[i - 1] \subseteq b[i]
  BY <1>2, <1>6
<1> QED
  BY <1>4, <1>8, <1>9

\* What holds the first nodes and the neighbours of its own holds every ball.
LEMMA ClosureIsLeast ==
  ASSUME NEW next \in Neighbours, NEW from \in SUBSET Nodes, NEW S,
         from \subseteq S, \A n \in S \cap Nodes : next[n] \subseteq S
  PROVE  /\ \A k \in 0 .. NodeCount : Ball(next, from)[k] \subseteq S
         /\ Closure(next, from) \subseteq S
<1> DEFINE b == Ball(next, from)
           Bad == {i \in 0 .. NodeCount : ~ (b[i] \subseteq S)}
<1>1. b[0] = from /\ \A i \in 0 .. NodeCount - 1 : b[i + 1] = b[i] \cup UNION {next[n] : n \in b[i]}
  BY BallIs
<1>2. \A i \in 0 .. NodeCount : b[i] \subseteq Nodes
  BY BallIs
<1>3. Closure(next, from) = b[NodeCount]
  BY DEF Closure
<1> HIDE DEF b
<1>4. SUFFICES ASSUME Bad # {} PROVE FALSE
  BY <1>3, NodeCountIs DEF b
<1>5. Bad \in SUBSET Nat
  OBVIOUS
<1>6. PICK i \in Bad : \A m \in Bad : i <= m
  <2> HIDE DEF Bad
  <2> QED
    BY <1>4, <1>5, LeastNatural
<1>7. i # 0
  BY <1>1, <1>6
<1>8. i - 1 \in 0 .. NodeCount - 1 /\ i - 1 \in 0 .. NodeCount /\ (i - 1) + 1 = i /\ ~ (i <= i - 1)
  BY <1>6, <1>7, NodeCountIs
<1>9. i - 1 \notin Bad
  BY <1>6, <1>8
<1>10. b[i - 1] \subseteq S /\ b[i - 1] \subseteq Nodes
  BY <1>2, <1>8, <1>9
<1>11. b[i] \subseteq S
  BY <1>1, <1>8, <1>10
<1> QED
  BY <1>6, <1>11

\* A ball that does not grow in one step never grows again.
LEMMA BallStable ==
  ASSUME NEW next \in Neighbours, NEW from \in SUBSET Nodes,
         NEW j \in 0 .. NodeCount - 1, Ball(next, from)[j + 1] = Ball(next, from)[j],
         NEW k \in j .. NodeCount
  PROVE  Ball(next, from)[k] = Ball(next, from)[j]
<1> DEFINE b == Ball(next, from)
           Bad == {i \in j .. NodeCount : b[i] # b[j]}
<1>1. SUFFICES ASSUME Bad # {} PROVE FALSE
  OBVIOUS
<1>2. \A i \in 0 .. NodeCount - 1 : b[i + 1] = b[i] \cup UNION {next[n] : n \in b[i]}
  BY BallIs
<1>3. b[j + 1] = b[j]
  OBVIOUS
<1> HIDE DEF b
<1>4. Bad \in SUBSET Nat
  OBVIOUS
<1>5. PICK i \in Bad : \A m \in Bad : i <= m
  <2> HIDE DEF Bad
  <2> QED
    BY <1>1, <1>4, LeastNatural
<1>6. i # j
  BY <1>5
<1>7. i - 1 \in 0 .. NodeCount - 1 /\ i - 1 \in j .. NodeCount /\ (i - 1) + 1 = i /\ ~ (i <= i - 1)
  BY <1>5, <1>6, NodeCountIs
<1>8. i - 1 \notin Bad
  BY <1>5, <1>7
<1>9. b[i - 1] = b[j]
  BY <1>7, <1>8
<1>10. b[i] = b[i - 1] \cup UNION {next[n] : n \in b[i - 1]}
  BY <1>2, <1>7
<1>11. b[j + 1] = b[j] \cup UNION {next[n] : n \in b[j]}
  BY <1>2
<1>12. b[i] = b[j]
  BY <1>3, <1>9, <1>10, <1>11, Zenon
<1> QED
  BY <1>5, <1>12

\* Some nodes are finitely many.
LEMMA NodesFinite ==
  ASSUME NEW S \in SUBSET Nodes
  PROVE  IsFiniteSet(S) /\ Cardinality(S) \in Nat /\ Cardinality(S) <= NodeCount
<1>1. IsFiniteSet(Nodes) /\ Cardinality(Nodes) = NodeCount
  BY FS_Interval, NodeCountIs DEF Nodes
<1> QED
  BY <1>1, FS_Subset, FS_CardinalityType

\* As long as a ball grows, it has a node more with every step.
LEMMA BallCounts ==
  ASSUME NEW next \in Neighbours, NEW from \in SUBSET Nodes,
         NEW k \in 0 .. NodeCount,
         \A j \in 0 .. k - 1 : Ball(next, from)[j + 1] # Ball(next, from)[j]
  PROVE  Cardinality(Ball(next, from)[k]) >= k + Cardinality(from)
<1> DEFINE b == Ball(next, from)
           Bad == {i \in 0 .. k : ~ (Cardinality(b[i]) >= i + Cardinality(from))}
<1>1. SUFFICES ASSUME Bad # {} PROVE FALSE
  BY NodeCountIs
<1>2. b[0] = from
  BY BallIs
<1>3. \A i \in 0 .. NodeCount : b[i] \in SUBSET Nodes
  BY BallIs
<1>4. \A j \in 0 .. k - 1 : b[j + 1] # b[j]
  OBVIOUS
<1>5. \A j \in 0 .. k - 1 : b[j] \subseteq b[j + 1]
  BY BallGrows, NodeCountIs
<1> HIDE DEF b
<1>6. Bad \in SUBSET Nat
  OBVIOUS
<1>7. PICK i \in Bad : \A m \in Bad : i <= m
  <2> HIDE DEF Bad
  <2> QED
    BY <1>1, <1>6, LeastNatural
<1>8. i # 0
  BY <1>2, <1>7, NodesFinite
<1>9. i - 1 \in 0 .. k - 1 /\ i - 1 \in 0 .. k /\ (i - 1) + 1 = i /\ ~ (i <= i - 1) /\ i \in 0 .. NodeCount
      /\ i - 1 \in 0 .. NodeCount
  BY <1>7, <1>8, NodeCountIs
<1>10. i - 1 \notin Bad
  BY <1>7, <1>9
<1>11. Cardinality(b[i - 1]) >= (i - 1) + Cardinality(from)
  BY <1>9, <1>10
<1>12. b[i - 1] \subseteq b[i] /\ b[i - 1] # b[i]
  BY <1>4, <1>5, <1>9
<1>13. Cardinality(b[i - 1]) < Cardinality(b[i])
  <2>1. IsFiniteSet(b[i]) /\ Cardinality(b[i]) \in Nat /\ Cardinality(b[i - 1]) \in Nat
    BY <1>3, <1>9, NodesFinite
  <2>2. Cardinality(b[i - 1]) <= Cardinality(b[i]) /\ Cardinality(b[i - 1]) # Cardinality(b[i])
    BY <1>12, <2>1, FS_Subset
  <2> QED
    BY <2>1, <2>2
<1>14. Cardinality(b[i]) \in Nat /\ Cardinality(b[i - 1]) \in Nat /\ Cardinality(from) \in Nat
  BY <1>3, <1>9, NodesFinite
<1> QED
  BY <1>7, <1>9, <1>11, <1>13, <1>14

\* Nothing leads out of a closure.
LEMMA ClosureIsClosed ==
  ASSUME NEW next \in Neighbours, NEW from \in SUBSET Nodes
  PROVE  /\ Closure(next, from) \in SUBSET Nodes
         /\ from \subseteq Closure(next, from)
         /\ \A n \in Closure(next, from) : next[n] \subseteq Closure(next, from)
         /\ \A k \in 0 .. NodeCount : Ball(next, from)[k] \subseteq Closure(next, from)
<1> DEFINE b == Ball(next, from)
<1>1. Closure(next, from) = b[NodeCount]
  BY DEF Closure
<1>2. b[0] = from /\ \A i \in 0 .. NodeCount - 1 : b[i + 1] = b[i] \cup UNION {next[n] : n \in b[i]}
  BY BallIs
<1>3. \A i \in 0 .. NodeCount : b[i] \in SUBSET Nodes
  BY BallIs
<1>4. \A k \in 0 .. NodeCount : b[k] \subseteq b[NodeCount]
  BY BallGrows, NodeCountIs
<1>5. \A n \in b[NodeCount] : next[n] \subseteq b[NodeCount]
  <2>1. CASE \E j \in 0 .. NodeCount - 1 : b[j + 1] = b[j]
    <3>1. PICK j \in 0 .. NodeCount - 1 : b[j + 1] = b[j]
      BY <2>1
    <3>2. b[NodeCount] = b[j]
      BY <3>1, BallStable, NodeCountIs
    <3> HIDE DEF b
    <3>3. \A n \in b[j] : next[n] \subseteq b[j + 1]
      BY <1>2, <3>1
    <3> QED
      BY <3>1, <3>2, <3>3
  <2>2. CASE \A j \in 0 .. NodeCount - 1 : b[j + 1] # b[j]
    <3>1. Cardinality(b[NodeCount]) >= NodeCount + Cardinality(from)
      BY <2>2, BallCounts, NodeCountIs
    <3>2. b[NodeCount] \in SUBSET Nodes
      BY <1>3, NodeCountIs
    <3>3. IsFiniteSet(Nodes) /\ Cardinality(Nodes) = NodeCount
      BY FS_Interval, NodeCountIs DEF Nodes
    <3>4. Cardinality(from) \in Nat /\ Cardinality(b[NodeCount]) \in Nat
      BY <3>2, NodesFinite
    <3> HIDE DEF b
    <3>5. Cardinality(b[NodeCount]) <= NodeCount
      BY <3>2, NodesFinite
    <3>6. Cardinality(b[NodeCount]) = Cardinality(Nodes)
      BY <3>1, <3>3, <3>4, <3>5, NodeCountIs
    <3>7. b[NodeCount] = Nodes
      BY <3>2, <3>3, <3>6, FS_Subset
    <3> QED
      BY <3>7 DEF Neighbours
  <2> QED
    BY <2>1, <2>2
<1> QED
  BY <1>1, <1>2, <1>3, <1>4, <1>5, NodeCountIs

\* A node is exactly k steps away.
Exact(next, from, n, k) == n \in Ball(next, from)[k] /\ (k > 0 => n \notin Ball(next, from)[k - 1])

\* The distance is the first ball that has the node.
LEMMA DistanceIs ==
  ASSUME NEW next \in Neighbours, NEW from \in SUBSET Nodes,
         NEW n, NEW k \in 0 .. NodeCount, Exact(next, from, n, k)
  PROVE  Distance(next, from, n) = k
<1> DEFINE b == Ball(next, from)
           At(i) == n \in b[i] /\ \A j \in 0 .. i - 1 : n \notin b[j]
<1>1. \A j \in 0 .. k - 1 : n \notin b[j]
  <2>1. ASSUME NEW j \in 0 .. k - 1
        PROVE  n \notin b[j]
    <3>1. k > 0 /\ k - 1 \in 0 .. NodeCount /\ j \in 0 .. (k - 1)
      BY NodeCountIs
    <3>2. b[j] \subseteq b[k - 1]
      BY <3>1, BallGrows
    <3> QED
      BY <3>1, <3>2 DEF Exact
  <2> QED
    BY <2>1
<1>2. At(k)
  BY <1>1 DEF Exact
<1>3. \A i \in 0 .. NodeCount : At(i) => i = k
  BY <1>2, NodeCountIs
<1>4. Distance(next, from, n) = CHOOSE i \in 0 .. NodeCount : At(i)
  BY DEF Distance
<1> HIDE DEF At
<1> QED
  BY <1>2, <1>3, <1>4

\* What a closure holds has a distance, and what is not within some steps is
\* farther away than they are.
LEMMA DistanceExists ==
  ASSUME NEW next \in Neighbours, NEW from \in SUBSET Nodes, NEW n \in Closure(next, from)
  PROVE  /\ Distance(next, from, n) \in 0 .. NodeCount
         /\ Exact(next, from, n, Distance(next, from, n))
         /\ \A k \in 0 .. NodeCount : n \notin Ball(next, from)[k] => Distance(next, from, n) > k
<1> DEFINE b == Ball(next, from)
           Radii == {i \in 0 .. NodeCount : n \in b[i]}
<1>1. NodeCount \in Radii
  BY NodeCountIs DEF Closure
<1>2. Radii \in SUBSET Nat
  OBVIOUS
<1>3. PICK k \in Radii : \A m \in Radii : k <= m
  <2> HIDE DEF Radii
  <2> QED
    BY <1>1, <1>2, LeastNatural
<1>4. k > 0 => k - 1 \notin Radii /\ k - 1 \in 0 .. NodeCount
  <2>1. k \in 0 .. NodeCount /\ ~ (k <= k - 1)
    BY <1>3
  <2>2. k - 1 \notin Radii
    BY <1>3, <2>1
  <2>3. k > 0 => k - 1 \in 0 .. NodeCount
    BY <2>1, NodeCountIs
  <2> QED
    BY <2>2, <2>3
<1>5. k \in 0 .. NodeCount /\ Exact(next, from, n, k)
  BY <1>3, <1>4 DEF Exact
<1>6. Distance(next, from, n) = k
  BY <1>5, DistanceIs
<1>7. ASSUME NEW j \in 0 .. NodeCount, n \notin b[j]
      PROVE  k > j
  <2>1. SUFFICES ASSUME k <= j PROVE FALSE
    BY <1>5
  <2>2. b[k] \subseteq b[j]
    BY <1>5, <2>1, BallGrows
  <2> QED
    BY <1>3, <1>7, <2>2
<1> QED
  BY <1>5, <1>6, <1>7

\* A node that is exactly k steps away has k nodes before it.
LEMMA ExactIsNear ==
  ASSUME NEW next \in Neighbours, NEW from \in SUBSET Nodes,
         NEW n, NEW k \in 0 .. NodeCount, Exact(next, from, n, k)
  PROVE  k < NodeCount
<1> DEFINE b == Ball(next, from)
<1>1. from # {}
  <2>1. SUFFICES ASSUME from = {} PROVE FALSE
    OBVIOUS
  <2>2. b[k] \subseteq {}
    BY <2>1, ClosureIsLeast
  <2> QED
    BY <2>2 DEF Exact
<1>2. ASSUME NEW j \in 0 .. k - 1
      PROVE  b[j + 1] # b[j]
  <2>1. SUFFICES ASSUME b[j + 1] = b[j] PROVE FALSE
    OBVIOUS
  <2>2. k > 0 /\ j \in 0 .. NodeCount - 1 /\ k \in j .. NodeCount /\ k - 1 \in j .. NodeCount
    BY NodeCountIs
  <2>3. b[k] = b[j] /\ b[k - 1] = b[j]
    BY <2>1, <2>2, BallStable
  <2> QED
    BY <2>2, <2>3 DEF Exact
<1>3. Cardinality(b[k]) >= k + Cardinality(from)
  BY <1>2, BallCounts
<1>4. b[k] \in SUBSET Nodes
  BY BallIs
<1>5. Cardinality(from) \in Nat /\ Cardinality(from) # 0
  BY <1>1, NodesFinite, FS_EmptySet
<1> HIDE DEF b
<1>6. Cardinality(b[k]) \in Nat /\ Cardinality(b[k]) <= NodeCount
  BY <1>4, NodesFinite
<1> QED
  BY <1>3, <1>5, <1>6, NodeCountIs

\* A neighbour of a node that is k steps away, not met within k steps, is k + 1
\* steps away.
LEMMA NeighbourIsNext ==
  ASSUME NEW next \in Neighbours, NEW from \in SUBSET Nodes,
         NEW n \in Nodes, NEW k \in 0 .. NodeCount, Exact(next, from, n, k),
         NEW m \in next[n], m \notin Ball(next, from)[k]
  PROVE  k + 1 \in 1 .. NodeCount - 1 /\ Exact(next, from, m, k + 1)
<1>1. k < NodeCount
  BY ExactIsNear
<1>2. k \in 0 .. NodeCount - 1 /\ k + 1 \in 0 .. NodeCount /\ k + 1 > 0 /\ (k + 1) - 1 = k
  BY <1>1, NodeCountIs
<1>3. m \in Ball(next, from)[k + 1]
  <2>1. Ball(next, from)[k + 1] = Ball(next, from)[k] \cup UNION {next[x] : x \in Ball(next, from)[k]}
    BY <1>2, BallIs
  <2>2. n \in Ball(next, from)[k]
    BY DEF Exact
  <2> QED
    BY <2>1, <2>2
<1>4. Exact(next, from, m, k + 1)
  BY <1>2, <1>3 DEF Exact
<1>5. k + 1 < NodeCount
  BY <1>2, <1>4, ExactIsNear
<1> QED
  BY <1>2, <1>4, <1>5, NodeCountIs

(***************************************************************************)
(* The sequences of a search                                               *)
(***************************************************************************)
LEMMA PermutationIs ==
  ASSUME NEW S, IsFiniteSet(S), NEW s \in SetToSeqs(S)
  PROVE  /\ s \in Seq(S) /\ Len(s) = Cardinality(S) /\ DOMAIN s = 1 .. Len(s)
         /\ \A i, j \in DOMAIN s : s[i] = s[j] => i = j
         /\ Range(s) = S
<1> DEFINE D == 1 .. Cardinality(S)
<1>1. s \in [D -> S] /\ \A i, j \in D : i # j => s[i] # s[j]
  BY DEF SetToSeqs
<1>2. Cardinality(S) \in Nat
  BY FS_CardinalityType
<1>3. s \in Injection(D, S)
  <2>1. \A i, j \in D : s[i] = s[j] => i = j
    BY <1>1, Zenon
  <2> QED
    BY <1>1, <2>1 DEF Injection, IsInjective
<1>4. Cardinality(D) = Cardinality(S)
  BY <1>2, FS_Interval
<1>5. s \in Surjection(D, S)
  BY <1>3, <1>4, FS_Injection
<1>6. Range(s) = S
  BY <1>1, <1>5 DEF Surjection, Range
<1>7. s \in Seq(S) /\ Len(s) = Cardinality(S)
  BY <1>1, <1>2
<1> QED
  BY <1>1, <1>6, <1>7

\* What AtMost takes of an order of S, and what it cuts off.
LEMMA AtMostIs ==
  ASSUME NEW S, IsFiniteSet(S), NEW s \in SetToSeqs(S), NEW n \in Nat
  PROVE  LET t == AtMost(s, n) IN
         /\ t \in Seq(S) /\ Len(t) <= n /\ Range(t) \subseteq S
         /\ \A i, j \in DOMAIN t : t[i] = t[j] => i = j
         /\ CutOff(t, s) => Len(t) = n /\ \E x \in S : x \notin Range(t)
         /\ ~ CutOff(t, s) => Range(t) = S
<1> DEFINE t == AtMost(s, n)
           k == IF n < Len(s) THEN n ELSE Len(s)
<1>1. /\ s \in Seq(S) /\ Len(s) \in Nat /\ DOMAIN s = 1 .. Len(s)
      /\ \A i, j \in DOMAIN s : s[i] = s[j] => i = j
      /\ Range(s) = S
  BY PermutationIs
<1>2. k \in Nat /\ k <= n /\ k <= Len(s)
  BY <1>1
<1>3. t \in Seq(S) /\ Len(t) = k /\ DOMAIN t = 1 .. k /\ \A i \in 1 .. k : t[i] = s[i]
  BY <1>1, <1>2 DEF AtMost
<1>4. CutOff(t, s) <=> k < Len(s)
  BY <1>3 DEF CutOff
<1>8. (k < Len(s) => k = n) /\ (~ (k < Len(s)) => k = Len(s))
  <2>1. Len(s) \in Nat /\ n \in Nat
    BY <1>1
  <2> QED
    BY <2>1
<1> HIDE DEF t, k
<1>5. Range(t) \subseteq S /\ \A i, j \in DOMAIN t : t[i] = t[j] => i = j
  BY <1>1, <1>2, <1>3 DEF Range
<1>6. ASSUME CutOff(t, s)
      PROVE  Len(t) = n /\ \E x \in S : x \notin Range(t)
  <2>1. k < Len(s) /\ k = n
    BY <1>4, <1>6, <1>8, Zenon
  <2>2. s[k + 1] \in S /\ k + 1 \in DOMAIN s
    BY <1>1, <1>2, <2>1
  <2>3. \A i \in 1 .. k : t[i] # s[k + 1]
    BY <1>1, <1>2, <1>3, <2>1, <2>2
  <2> QED
    BY <1>3, <2>1, <2>2, <2>3 DEF Range
<1>7. ASSUME ~ CutOff(t, s)
      PROVE  Range(t) = S
  <2>1. k = Len(s)
    BY <1>4, <1>7, <1>8, Zenon
  <2> QED
    BY <1>1, <1>3, <2>1 DEF Range
<1> QED
  BY <1>2, <1>3, <1>5, <1>6, <1>7 DEF t
QueueEntries(V) == [node : Nodes, depth : 0 .. NodeCount, via : V]
FoundItems == [node : Nodes, parent : Nodes \cup {NoNode}, depth : 0 .. NodeCount]
ItemNodes(its) == {its[i].node : i \in 1 .. Len(its)}

\* Two sequences, one behind the other.
LEMMA ConcatIs ==
  ASSUME NEW S, NEW a \in Seq(S), NEW b \in Seq(S)
  PROVE  /\ a \o b \in Seq(S) /\ Len(a \o b) = Len(a) + Len(b)
         /\ \A i \in 1 .. Len(a) : (a \o b)[i] = a[i]
         /\ \A i \in 1 .. Len(b) : (a \o b)[Len(a) + i] = b[i]
         /\ Len(a) \in Nat /\ Len(b) \in Nat /\ DOMAIN a = 1 .. Len(a)
OBVIOUS

\* The queue after its first entry was taken and some nodes were put behind.
LEMMA QueueAfter ==
  ASSUME NEW V, NEW via \in V, NEW q \in Seq(QueueEntries(V)), q # <<>>,
         NEW t \in Seq(Nodes), NEW d \in 0 .. NodeCount
  PROVE  LET r == Tail(q) \o Entries(t, d, via) IN
         /\ r \in Seq(QueueEntries(V))
         /\ Len(r) = Len(q) - 1 + Len(t)
         /\ \A i \in 1 .. Len(q) - 1 : r[i] = q[i + 1]
         /\ \A i \in 1 .. Len(t) : r[Len(q) - 1 + i] = Entry(t[i], d, via)
<1> DEFINE e == Entries(t, d, via)
<1>1. Len(t) \in Nat /\ DOMAIN t = 1 .. Len(t) /\ \A i \in 1 .. Len(t) : t[i] \in Nodes
  OBVIOUS
<1>2. \A i \in 1 .. Len(t) : Entry(t[i], d, via) \in QueueEntries(V)
  BY <1>1 DEF Entry, QueueEntries
<1>3. e = [i \in 1 .. Len(t) |-> Entry(t[i], d, via)]
  BY <1>1 DEF Entries
<1> HIDE DEF e
<1>4. e \in Seq(QueueEntries(V)) /\ Len(e) = Len(t) /\ \A i \in 1 .. Len(t) : e[i] = Entry(t[i], d, via)
  BY <1>1, <1>2, <1>3
<1>5. Tail(q) \in Seq(QueueEntries(V)) /\ Len(Tail(q)) = Len(q) - 1
      /\ \A i \in 1 .. Len(q) - 1 : Tail(q)[i] = q[i + 1]
  OBVIOUS
<1> DEFINE h == Tail(q)
<1> HIDE DEF h
<1>6. h \in Seq(QueueEntries(V)) /\ Len(h) = Len(q) - 1 /\ \A i \in 1 .. Len(q) - 1 : h[i] = q[i + 1]
  BY <1>5 DEF h
<1>7. /\ h \o e \in Seq(QueueEntries(V)) /\ Len(h \o e) = Len(h) + Len(e)
      /\ \A i \in 1 .. Len(h) : (h \o e)[i] = h[i]
      /\ \A i \in 1 .. Len(e) : (h \o e)[Len(h) + i] = e[i]
  <2>1. h \in Seq(QueueEntries(V)) /\ e \in Seq(QueueEntries(V))
    BY <1>4, <1>6
  <2> QED
    BY <2>1, ConcatIs
<1> QED
  BY <1>4, <1>6, <1>7 DEF e, h

\* The items after some nodes were found.
LEMMA ItemsAfter ==
  ASSUME NEW its \in Seq(FoundItems), NEW t \in Seq(Nodes), NEW p \in Nodes \cup {NoNode},
         NEW d \in 0 .. NodeCount
  PROVE  LET r == its \o Found(t, p, d) IN
         /\ r \in Seq(FoundItems)
         /\ Len(r) = Len(its) + Len(t)
         /\ \A i \in 1 .. Len(its) : r[i] = its[i]
         /\ \A i \in 1 .. Len(t) : r[Len(its) + i] = [node |-> t[i], parent |-> p, depth |-> d]
         /\ ItemNodes(r) = ItemNodes(its) \cup Range(t)
<1> DEFINE e == Found(t, p, d)
<1>1. Len(t) \in Nat /\ DOMAIN t = 1 .. Len(t) /\ \A i \in 1 .. Len(t) : t[i] \in Nodes
  OBVIOUS
<1>2. e = [i \in 1 .. Len(t) |-> [node |-> t[i], parent |-> p, depth |-> d]]
  BY <1>1 DEF Found
<1> HIDE DEF e
<1>3. /\ e \in Seq(FoundItems) /\ Len(e) = Len(t)
      /\ \A i \in 1 .. Len(t) : e[i] = [node |-> t[i], parent |-> p, depth |-> d]
  BY <1>1, <1>2 DEF FoundItems
<1> DEFINE r == its \o e
<1>4. /\ r \in Seq(FoundItems) /\ Len(r) = Len(its) + Len(e)
      /\ \A i \in 1 .. Len(its) : r[i] = its[i]
      /\ \A i \in 1 .. Len(e) : r[Len(its) + i] = e[i]
  <2>1. e \in Seq(FoundItems)
    BY <1>3
  <2> QED
    BY <2>1, ConcatIs
<1> HIDE DEF r
<1>5. \A i \in 1 .. Len(t) : r[Len(its) + i].node = t[i]
  <2>1. ASSUME NEW i \in 1 .. Len(t)
        PROVE  r[Len(its) + i].node = t[i]
    <3>1. i \in 1 .. Len(e)
      BY <1>3
    <3>2. r[Len(its) + i] = [node |-> t[i], parent |-> p, depth |-> d]
      BY <1>3, <1>4, <3>1, Zenon
    <3> QED
      BY <3>2
  <2> QED
    BY <2>1
<1>6. ItemNodes(its) \subseteq ItemNodes(r)
  BY <1>1, <1>3, <1>4 DEF ItemNodes
<1>7. Range(t) \subseteq ItemNodes(r)
  <2>1. ASSUME NEW i \in 1 .. Len(t)
        PROVE  t[i] \in ItemNodes(r)
    <3>1. Len(its) + i \in 1 .. Len(r)
      BY <1>1, <1>3, <1>4
    <3> QED
      BY <1>5, <3>1 DEF ItemNodes
  <2> QED
    BY <1>1, <2>1 DEF Range
<1>8. ItemNodes(r) \subseteq ItemNodes(its) \cup Range(t)
  <2>1. ASSUME NEW i \in 1 .. Len(r)
        PROVE  r[i].node \in ItemNodes(its) \cup Range(t)
    <3>1. CASE i \in 1 .. Len(its)
      BY <1>4, <3>1 DEF ItemNodes
    <3>2. CASE i \notin 1 .. Len(its)
      <4>1. i - Len(its) \in 1 .. Len(t) /\ Len(its) + (i - Len(its)) = i
        BY <1>1, <1>3, <1>4, <3>2
      <4>2. r[i].node = t[i - Len(its)]
        BY <1>5, <4>1
      <4> QED
        BY <1>1, <4>1, <4>2 DEF Range
    <3> QED
      BY <3>1, <3>2
  <2> QED
    BY <2>1 DEF ItemNodes
<1> QED
  BY <1>3, <1>4, <1>6, <1>7, <1>8 DEF r, e

(***************************************************************************)
(* A search over next from the nodes of from: what it has in its queue q,  *)
(* has seen in s and has found in its                                      *)
(***************************************************************************)
\* The queue holds nodes that are seen, each with its distance, and two levels
\* at most, the nearer one first.
InLevels(next, from, q, s, maxd) ==
  /\ \A i \in 1 .. Len(q) :
       /\ q[i].node \in s /\ q[i].depth <= maxd
       /\ Exact(next, from, q[i].node, q[i].depth)
  /\ \A i, j \in 1 .. Len(q) : i < j => q[i].depth <= q[j].depth /\ q[j].depth <= q[i].depth + 1

\* The items are a tree of nearest nodes, rooted in from, nearer ones first.
IsTree(next, from, s, its, maxd) ==
  /\ s = from \cup ItemNodes(its)
  /\ \A i, j \in 1 .. Len(its) : its[i].node = its[j].node => i = j
  /\ \A i \in 1 .. Len(its) :
       /\ its[i].node \notin from
       /\ its[i].depth \in 1 .. maxd
       /\ Exact(next, from, its[i].node, its[i].depth)
       /\ its[i].parent \in s /\ its[i].parent \in Ball(next, from)[its[i].depth - 1]
       /\ its[i].node \in next[its[i].parent]
       /\ Ball(next, from)[its[i].depth - 1] \subseteq s

\* Nothing was left out so far.
IsThorough(next, from, q, s) ==
  /\ q # <<>> => Ball(next, from)[q[1].depth] \subseteq s
  /\ \A n \in s : next[n] \subseteq s \/ \E i \in 1 .. Len(q) : q[i].node = n

\* A node was left out, and the search finds nothing more.
IsCutOff(next, from, q, s, its, limit, maxd) ==
  /\ \E n \in Closure(next, from) : n \notin s
  /\ \/ Len(its) = limit
     \/ /\ maxd <= NodeCount /\ Ball(next, from)[maxd] \subseteq s
        /\ \A i \in 1 .. Len(q) : q[i].depth = maxd

Frontier(next, from, q, s, its, bnd, limit, maxd) ==
  /\ s \in SUBSET Nodes /\ its \in Seq(FoundItems) /\ Len(its) <= limit
  /\ InLevels(next, from, q, s, maxd)
  /\ IsTree(next, from, s, its, maxd)
  /\ ~ bnd => IsThorough(next, from, q, s)
  /\ bnd => IsCutOff(next, from, q, s, its, limit, maxd)

\* A search begins with the nodes of from in its queue, and nothing found.
LEMMA FrontierStart ==
  ASSUME NEW next \in Neighbours, NEW from \in SUBSET Nodes, NEW V, NEW q \in Seq(QueueEntries(V)),
         NEW limit \in Nat, NEW maxd \in Nat,
         \A i \in 1 .. Len(q) : q[i].depth = 0 /\ q[i].node \in from,
         \A n \in from : \E i \in 1 .. Len(q) : q[i].node = n
  PROVE  Frontier(next, from, q, from, <<>>, FALSE, limit, maxd)
<1>1. Ball(next, from)[0] = from
  BY BallIs
<1>2. InLevels(next, from, q, from, maxd)
  BY <1>1 DEF InLevels, Exact
<1>3. IsTree(next, from, from, <<>>, maxd)
  BY DEF IsTree, ItemNodes
<1>4. IsThorough(next, from, q, from)
  BY <1>1 DEF IsThorough
<1> QED
  BY <1>2, <1>3, <1>4 DEF Frontier
\* What something positive fits in is positive.
LEMMA Positive == \A a, b \in Nat : a > 0 /\ a <= b => b > 0
OBVIOUS

\* One step of a search: the first entry is taken, and as many of its new
\* neighbours as the bounds admit.
StepTaken(q, its, order, limit, maxd) ==
  AtMost(order, IF q[1].depth = maxd THEN 0 ELSE limit - Len(its))
StepQueue(q, taken, via) == Tail(q) \o Entries(taken, q[1].depth + 1, via)
StepItems(q, its, taken) == its \o Found(taken, q[1].node, q[1].depth + 1)
StepCut(bnd, taken, order) == bnd \/ CutOff(taken, order)

\* Taking the first entry, and as many of its new neighbours as the bounds
\* admit, keeps the search in this state.
LEMMA FrontierStep ==
  ASSUME NEW next \in Neighbours, NEW from \in SUBSET Nodes, NEW V, NEW via \in V,
         NEW q \in Seq(QueueEntries(V)), q # <<>>,
         NEW s, NEW its, NEW bnd \in BOOLEAN, NEW limit \in Nat, NEW maxd \in Nat,
         Frontier(next, from, q, s, its, bnd, limit, maxd),
         NEW order \in SetToSeqs(next[q[1].node] \ s)
  PROVE  LET t == StepTaken(q, its, order, limit, maxd) IN
         /\ StepQueue(q, t, via) \in Seq(QueueEntries(V))
         /\ Frontier(next, from, StepQueue(q, t, via), s \cup Range(t), StepItems(q, its, t),
                     StepCut(bnd, t, order), limit, maxd)
         /\ t # <<>> => ~ bnd
<1> DEFINE n == q[1].node
           d == q[1].depth
           room == IF d = maxd THEN 0 ELSE limit - Len(its)
           new == next[n] \ s
           taken == AtMost(order, room)
           rest == Tail(q) \o Entries(taken, d + 1, via)
           found == its \o Found(taken, n, d + 1)
           seen2 == s \cup Range(taken)
           b == Ball(next, from)
           cut == bnd \/ CutOff(taken, order)
<1>22. Len(q) \in Nat /\ Len(q) >= 1 /\ \A i \in 1 .. Len(q) : q[i] \in QueueEntries(V)
  OBVIOUS
<1>23. \A i \in 1 .. Len(q) : q[i].node \in Nodes /\ q[i].depth \in 0 .. NodeCount
  BY <1>22 DEF QueueEntries
<1>1. Len(q) \in Nat /\ Len(q) >= 1 /\ 1 \in 1 .. Len(q) /\ n \in Nodes /\ d \in 0 .. NodeCount
  BY <1>22, <1>23
<1>2. /\ s \in SUBSET Nodes /\ its \in Seq(FoundItems) /\ Len(its) \in Nat /\ Len(its) <= limit
      /\ InLevels(next, from, q, s, maxd) /\ IsTree(next, from, s, its, maxd)
  BY DEF Frontier
<1>3. room \in Nat /\ (d = maxd => room = 0) /\ (d # maxd => room = limit - Len(its))
  BY <1>1, <1>2
<1>4. new \in SUBSET Nodes /\ IsFiniteSet(new)
  BY <1>1, NodesFinite DEF Neighbours
<1>24. new = next[n] \ s
  OBVIOUS
<1> HIDE DEF room, new
<1>5. /\ taken \in Seq(new) /\ Len(taken) <= room /\ Range(taken) \subseteq new
      /\ \A i, j \in DOMAIN taken : taken[i] = taken[j] => i = j
      /\ CutOff(taken, order) => Len(taken) = room /\ \E x \in new : x \notin Range(taken)
      /\ ~ CutOff(taken, order) => Range(taken) = new
  <2>1. order \in SetToSeqs(new)
    BY DEF new
  <2> QED
    BY <1>3, <1>4, <2>1, AtMostIs
<1> HIDE DEF taken
<1>6. /\ taken \in Seq(Nodes) /\ Len(taken) \in Nat /\ DOMAIN taken = 1 .. Len(taken)
      /\ \A i \in 1 .. Len(taken) : taken[i] \in new
      /\ Range(taken) = {taken[i] : i \in 1 .. Len(taken)}
  BY <1>4, <1>5 DEF Range
<1>7. /\ n \in s /\ d <= maxd /\ Exact(next, from, n, d)
      /\ \A i \in 1 .. Len(q) : d <= q[i].depth /\ q[i].depth <= d + 1 /\ q[i].depth <= maxd
  <2>1. n \in s /\ d <= maxd /\ Exact(next, from, n, d) /\ \A i \in 1 .. Len(q) : q[i].depth <= maxd
    BY <1>1, <1>2 DEF InLevels
  <2>2. ASSUME NEW i \in 1 .. Len(q)
        PROVE  d <= q[i].depth /\ q[i].depth <= d + 1
    <3>1. i = 1 \/ 1 < i
      BY <1>1
    <3>2. 1 < i => d <= q[i].depth /\ q[i].depth <= d + 1
      BY <1>1, <1>2 DEF InLevels
    <3> QED
      BY <1>1, <3>1, <3>2
  <2> QED
    BY <2>1, <2>2
<1>8. d < NodeCount /\ d + 1 \in 0 .. NodeCount
  BY <1>1, <1>7, ExactIsNear, NodeCountIs
<1>9. taken # <<>> => ~ bnd /\ d # maxd /\ d + 1 <= maxd
  <2>1. SUFFICES ASSUME taken # <<>> PROVE ~ bnd /\ d # maxd /\ d + 1 <= maxd
    OBVIOUS
  <2>2. Len(taken) > 0
    BY <2>1, <1>5
  <2>3. room > 0 /\ d # maxd /\ Len(its) # limit
    <3>1. room > 0
      <4>1. room \in Nat /\ Len(taken) \in Nat /\ Len(taken) <= room
        BY <1>3, <1>5, <1>6
      <4> QED
        BY <2>2, <4>1, Positive, Zenon
    <3> QED
      BY <1>2, <1>3, <3>1
  <2>4. ~ bnd
    <3>1. SUFFICES ASSUME bnd PROVE FALSE
      OBVIOUS
    <3>2. IsCutOff(next, from, q, s, its, limit, maxd)
      BY <3>1 DEF Frontier
    <3> QED
      BY <1>1, <2>3, <3>2 DEF IsCutOff
  <2>5. d + 1 <= maxd
    BY <1>1, <1>7, <2>3
  <2> QED
    BY <2>3, <2>4, <2>5
<1>10. ~ bnd => b[d] \subseteq s
  BY <1>1 DEF Frontier, IsThorough
<1>11. \A i \in 1 .. Len(taken) : Exact(next, from, taken[i], d + 1) /\ taken[i] \notin s /\ taken[i] \in next[n]
  <2>1. ASSUME NEW i \in 1 .. Len(taken)
        PROVE  Exact(next, from, taken[i], d + 1) /\ taken[i] \notin s /\ taken[i] \in next[n]
    <3>1. taken # <<>>
      BY <1>6
    <3>2. taken[i] \in next[n] /\ taken[i] \notin s /\ taken[i] \notin b[d]
      BY <1>6, <1>9, <1>10, <1>24, <3>1
    <3> QED
      BY <1>1, <1>7, <3>2, NeighbourIsNext
  <2> QED
    BY <2>1
<1>12. /\ rest \in Seq(QueueEntries(V))
       /\ Len(rest) = Len(q) - 1 + Len(taken)
       /\ \A i \in 1 .. Len(q) - 1 : rest[i] = q[i + 1]
       /\ \A i \in 1 .. Len(taken) : rest[Len(q) - 1 + i] = Entry(taken[i], d + 1, via)
  <2> DEFINE e == d + 1
  <2>1. taken \in Seq(Nodes) /\ e \in 0 .. NodeCount
    BY <1>6, <1>8
  <2> HIDE DEF e
  <2>2. LET r == Tail(q) \o Entries(taken, e, via) IN
         /\ r \in Seq(QueueEntries(V))
         /\ Len(r) = Len(q) - 1 + Len(taken)
         /\ \A i \in 1 .. Len(q) - 1 : r[i] = q[i + 1]
         /\ \A i \in 1 .. Len(taken) : r[Len(q) - 1 + i] = Entry(taken[i], e, via)
    BY <2>1, QueueAfter
  <2> QED
    BY <2>2 DEF e
<1>13. /\ found \in Seq(FoundItems)
       /\ Len(found) = Len(its) + Len(taken)
       /\ \A i \in 1 .. Len(its) : found[i] = its[i]
       /\ \A i \in 1 .. Len(taken) : found[Len(its) + i] = [node |-> taken[i], parent |-> n, depth |-> d + 1]
       /\ ItemNodes(found) = ItemNodes(its) \cup Range(taken)
  BY <1>1, <1>2, <1>6, <1>8, ItemsAfter
<1> HIDE DEF rest, found
\* what the entries and the items are
<1>14. \A i \in 1 .. Len(rest) :
         \/ i \in 1 .. Len(q) - 1 /\ i + 1 \in 1 .. Len(q) /\ rest[i] = q[i + 1]
         \/ /\ i - (Len(q) - 1) \in 1 .. Len(taken) /\ rest[i].node = taken[i - (Len(q) - 1)]
            /\ rest[i].depth = d + 1 /\ taken # <<>>
  <2>1. ASSUME NEW i \in 1 .. Len(rest), i \notin 1 .. Len(q) - 1
        PROVE  /\ i - (Len(q) - 1) \in 1 .. Len(taken) /\ rest[i].node = taken[i - (Len(q) - 1)]
               /\ rest[i].depth = d + 1 /\ taken # <<>>
    <3> DEFINE j == i - (Len(q) - 1)
    <3>1. j \in 1 .. Len(taken) /\ Len(q) - 1 + j = i
      BY <1>1, <1>6, <1>12, <2>1
    <3> HIDE DEF j
    <3>2. rest[i] = Entry(taken[j], d + 1, via)
      BY <1>12, <3>1, Zenon
    <3> QED
      BY <1>6, <3>1, <3>2 DEF j, Entry
  <2>2. ASSUME NEW i \in 1 .. Len(rest), i \in 1 .. Len(q) - 1
        PROVE  i + 1 \in 1 .. Len(q) /\ rest[i] = q[i + 1]
    BY <1>1, <1>12, <2>2
  <2> QED
    BY <2>1, <2>2
<1>15. \A i \in 1 .. Len(found) :
         \/ i \in 1 .. Len(its) /\ found[i] = its[i]
         \/ /\ i - Len(its) \in 1 .. Len(taken) /\ taken # <<>>
            /\ found[i].node = taken[i - Len(its)] /\ found[i].parent = n /\ found[i].depth = d + 1
  <2>1. ASSUME NEW i \in 1 .. Len(found), i \notin 1 .. Len(its)
        PROVE  /\ i - Len(its) \in 1 .. Len(taken) /\ taken # <<>>
               /\ found[i].node = taken[i - Len(its)] /\ found[i].parent = n /\ found[i].depth = d + 1
    <3> DEFINE j == i - Len(its)
    <3>1. j \in 1 .. Len(taken) /\ Len(its) + j = i
      BY <1>2, <1>6, <1>13, <2>1
    <3> HIDE DEF j
    <3>2. found[i] = [node |-> taken[j], parent |-> n, depth |-> d + 1]
      BY <1>13, <3>1, Zenon
    <3> QED
      BY <1>6, <3>1, <3>2 DEF j
  <2> QED
    BY <1>13, <2>1
<1>25. \A i \in 1 .. Len(rest) : rest[i].depth \in 0 .. NodeCount
  <2>1. \A i \in 1 .. Len(rest) : rest[i] \in QueueEntries(V)
    BY <1>12
  <2> QED
    BY <2>1 DEF QueueEntries
<1>16. InLevels(next, from, rest, seen2, maxd)
  <2>1. ASSUME NEW i \in 1 .. Len(rest)
        PROVE  /\ rest[i].node \in seen2 /\ rest[i].depth <= maxd
               /\ Exact(next, from, rest[i].node, rest[i].depth)
    <3>1. CASE i \in 1 .. Len(q) - 1 /\ i + 1 \in 1 .. Len(q) /\ rest[i] = q[i + 1]
      BY <1>2, <3>1 DEF InLevels
    <3>2. CASE /\ i - (Len(q) - 1) \in 1 .. Len(taken) /\ rest[i].node = taken[i - (Len(q) - 1)]
               /\ rest[i].depth = d + 1 /\ taken # <<>>
      BY <1>6, <1>9, <1>11, <3>2
    <3> QED
      BY <1>14, <3>1, <3>2
  <2>2. ASSUME NEW i \in 1 .. Len(rest), NEW j \in 1 .. Len(rest), i < j
        PROVE  rest[i].depth <= rest[j].depth /\ rest[j].depth <= rest[i].depth + 1
    <3> DEFINE Old(k) == k \in 1 .. Len(q) - 1 /\ k + 1 \in 1 .. Len(q) /\ rest[k] = q[k + 1]
               New(k) == k - (Len(q) - 1) \in 1 .. Len(taken) /\ rest[k].depth = d + 1
    <3>1. (Old(i) \/ New(i)) /\ (Old(j) \/ New(j))
      BY <1>14
    <3>2. CASE Old(i) /\ Old(j)
      BY <1>2, <2>2, <3>2 DEF InLevels
    <3>3. CASE Old(i) /\ New(j)
      <4>1. q[i + 1].depth \in 0 .. NodeCount
        BY <1>23, <3>3
      <4>2. d <= q[i + 1].depth /\ q[i + 1].depth <= d + 1
        BY <1>7, <3>3
      <4>3. rest[i].depth = q[i + 1].depth /\ rest[j].depth = d + 1
        BY <3>3
      <4> HIDE DEF d
      <4> QED
        BY <1>1, <4>1, <4>2, <4>3
    <3>4. CASE New(i) /\ New(j)
      BY <1>1, <3>4
    <3>5. ~ (New(i) /\ Old(j))
      BY <1>1, <2>2
    <3> QED
      BY <3>1, <3>2, <3>3, <3>4, <3>5
  <2> QED
    BY <2>1, <2>2 DEF InLevels
<1>17. IsTree(next, from, seen2, found, maxd)
  <2>1. seen2 = from \cup ItemNodes(found)
    BY <1>2, <1>13 DEF IsTree
  <2>2. ASSUME NEW i \in 1 .. Len(found), NEW j \in 1 .. Len(found), found[i].node = found[j].node
        PROVE  i = j
    <3> DEFINE Old(k) == k \in 1 .. Len(its) /\ found[k] = its[k]
               New(k) == k - Len(its) \in 1 .. Len(taken) /\ found[k].node = taken[k - Len(its)]
    <3>1. (Old(i) \/ New(i)) /\ (Old(j) \/ New(j))
      BY <1>15
    <3>2. \A k \in 1 .. Len(its) : its[k].node \in s
      BY <1>2 DEF IsTree, ItemNodes
    <3>3. ~ (Old(i) /\ New(j)) /\ ~ (New(i) /\ Old(j))
      BY <1>11, <2>2, <3>2
    <3>4. CASE Old(i) /\ Old(j)
      BY <1>2, <2>2, <3>4 DEF IsTree
    <3>5. CASE New(i) /\ New(j)
      <4>1. i - Len(its) = j - Len(its)
        BY <1>5, <1>6, <2>2, <3>5
      <4> QED
        BY <1>2, <1>13, <1>6, <4>1
    <3> QED
      BY <3>1, <3>3, <3>4, <3>5
  <2>3. ASSUME NEW i \in 1 .. Len(found)
        PROVE  /\ found[i].node \notin from
               /\ found[i].depth \in 1 .. maxd
               /\ Exact(next, from, found[i].node, found[i].depth)
               /\ found[i].parent \in seen2 /\ found[i].parent \in b[found[i].depth - 1]
               /\ found[i].node \in next[found[i].parent]
               /\ b[found[i].depth - 1] \subseteq seen2
    <3>1. CASE i \in 1 .. Len(its) /\ found[i] = its[i]
      BY <1>2, <3>1 DEF IsTree
    <3>2. CASE /\ i - Len(its) \in 1 .. Len(taken) /\ taken # <<>>
               /\ found[i].node = taken[i - Len(its)] /\ found[i].parent = n /\ found[i].depth = d + 1
      <4>1. /\ Exact(next, from, found[i].node, d + 1) /\ found[i].node \notin s
            /\ found[i].node \in next[n]
        BY <1>11, <3>2
      <4>2. from \subseteq s
        BY <1>2 DEF IsTree
      <4>3. d + 1 \in 1 .. maxd /\ (d + 1) - 1 = d
        <5> d + 1 <= maxd /\ d \in Nat
          BY <1>1, <1>9, <3>2
        <5> HIDE DEF d
        <5> QED
          OBVIOUS
      <4>4. n \in b[d] /\ b[d] \subseteq s
        BY <1>7, <1>9, <1>10, <3>2 DEF Exact
      <4> HIDE DEF b, n, d
      <4> QED
        BY <1>7, <3>2, <4>1, <4>2, <4>3, <4>4
    <3> QED
      BY <1>15, <3>1, <3>2
  <2> HIDE DEF seen2
  <2> QED
    BY <2>1, <2>2, <2>3 DEF IsTree
<1>18. ~ cut => IsThorough(next, from, rest, seen2)
  <2>1. SUFFICES ASSUME ~ cut PROVE IsThorough(next, from, rest, seen2)
    OBVIOUS
  <2>2. /\ Range(taken) = new /\ IsThorough(next, from, q, s)
    BY <1>5, <2>1 DEF Frontier
  <2>3. next[n] \subseteq seen2
    BY <1>24, <2>2
  <2>4. ASSUME NEW m \in seen2
        PROVE  next[m] \subseteq seen2 \/ \E i \in 1 .. Len(rest) : rest[i].node = m
    <3>1. CASE m \in Range(taken)
      <4>1. PICK i \in 1 .. Len(taken) : taken[i] = m
        BY <1>6, <3>1
      <4>2. Len(q) - 1 + i \in 1 .. Len(rest)
        BY <1>1, <1>6, <1>12
      <4>3. rest[Len(q) - 1 + i].node = m
        <5>1. rest[Len(q) - 1 + i] = Entry(taken[i], d + 1, via)
          BY <1>12, <4>1, Zenon
        <5> QED
          BY <4>1, <5>1 DEF Entry
      <4> QED
        BY <4>2, <4>3
    <3>2. CASE m \in s /\ next[m] \subseteq s
      BY <3>2
    <3>3. CASE m \in s /\ \E i \in 1 .. Len(q) : q[i].node = m
      <4>1. PICK i \in 1 .. Len(q) : q[i].node = m
        BY <3>3
      <4>2. CASE i = 1
        BY <2>3, <4>1, <4>2
      <4>3. CASE i # 1
        <5>1. i - 1 \in 1 .. Len(q) - 1 /\ i - 1 \in 1 .. Len(rest) /\ (i - 1) + 1 = i
          BY <1>1, <1>6, <1>12, <4>3
        <5>2. rest[i - 1] = q[(i - 1) + 1]
          BY <1>12, <5>1
        <5> QED
          BY <4>1, <5>1, <5>2
      <4> QED
        BY <4>2, <4>3
    <3> QED
      BY <2>2, <3>1, <3>2, <3>3 DEF IsThorough
  <2>5. ASSUME rest # <<>>
        PROVE  b[rest[1].depth] \subseteq seen2
    <3>1. 1 \in 1 .. Len(rest)
      BY <1>12, <2>5
    <3>2. rest[1].depth = d \/ rest[1].depth = d + 1
      <4>1. CASE 1 \in 1 .. Len(q) - 1 /\ 1 + 1 \in 1 .. Len(q) /\ rest[1] = q[1 + 1]
        <5>1. q[1 + 1].depth \in 0 .. NodeCount
          BY <1>23, <4>1
        <5> QED
          BY <1>1, <1>7, <4>1, <5>1
      <4> QED
        BY <1>14, <3>1, <4>1
    <3>3. CASE rest[1].depth = d
      BY <1>10, <2>1, <3>3
    <3>4. CASE rest[1].depth = d + 1
      <4>1. \A i \in 1 .. Len(rest) : rest[i].depth >= d + 1 /\ Exact(next, from, rest[i].node, rest[i].depth)
        <5>1. ASSUME NEW i \in 1 .. Len(rest)
              PROVE  rest[i].depth >= d + 1
          <6>1. rest[i].depth \in 0 .. NodeCount
            BY <1>25
          <6>2. i = 1 \/ 1 < i
            BY <1>12
          <6> QED
            BY <1>1, <1>16, <3>1, <3>4, <6>1, <6>2 DEF InLevels
        <5> QED
          BY <1>16, <5>1 DEF InLevels
      <4>2. \A m \in b[d] : next[m] \subseteq seen2
        <5>1. ASSUME NEW m \in b[d], NEW i \in 1 .. Len(rest), rest[i].node = m
              PROVE  FALSE
          <6> DEFINE e == rest[i].depth
          <6>1. e \in 0 .. NodeCount /\ e > 0 /\ e >= d + 1
            <7>1. e \in 0 .. NodeCount /\ e >= d + 1
              BY <1>25, <4>1
            <7> HIDE DEF e, d
            <7> QED
              BY <1>1, <7>1
          <6>2. m \notin b[e - 1]
            BY <4>1, <5>1, <6>1 DEF Exact
          <6>3. b[d] \subseteq b[e - 1]
            <7>1. e - 1 \in 0 .. NodeCount /\ d \in 0 .. e - 1
              BY <1>1, <6>1, NodeCountIs, SMTT(60)
            <7> HIDE DEF e, d
            <7> QED
              BY <7>1, BallGrows
          <6> QED
            BY <5>1, <6>2, <6>3
        <5> QED
          BY <1>10, <2>1, <2>4, <5>1
      <4>3. b[d + 1] = b[d] \cup UNION {next[m] : m \in b[d]}
        <5>1. d \in 0 .. NodeCount - 1
          BY <1>1, <1>8, NodeCountIs
        <5> HIDE DEF d
        <5> QED
          BY <5>1, BallIs
      <4> HIDE DEF b, d
      <4> QED
        BY <1>10, <2>1, <3>4, <4>2, <4>3
    <3> QED
      BY <3>2, <3>3, <3>4
  <2> HIDE DEF b, seen2
  <2> QED
    BY <2>4, <2>5 DEF IsThorough, b
<1>19. cut => IsCutOff(next, from, rest, seen2, found, limit, maxd)
  <2>1. CASE bnd
    <3>1. taken = <<>> /\ Range(taken) = {}
      BY <1>6, <1>9, <2>1
    <3>2. Len(taken) = 0
      BY <3>1
    <3>3. IsCutOff(next, from, q, s, its, limit, maxd)
      BY <2>1 DEF Frontier
    <3>4. Len(found) = Len(its) /\ seen2 = s
      BY <1>2, <1>13, <3>1, <3>2
    <3>5. \A i \in 1 .. Len(rest) : i + 1 \in 1 .. Len(q) /\ rest[i] = q[i + 1]
      BY <1>14, <3>1
    <3> HIDE DEF seen2
    <3> QED
      BY <3>3, <3>4, <3>5 DEF IsCutOff
  <2>2. CASE ~ bnd /\ CutOff(taken, order)
    <3>1. PICK x \in new : x \notin Range(taken)
      BY <1>5, <2>2
    <3>2. x \in Closure(next, from) /\ x \notin seen2
      <4>1. n \in Closure(next, from)
        BY <1>1, <1>7, ClosureIsClosed DEF Exact
      <4> QED
        BY <1>24, <3>1, <4>1, ClosureIsClosed
    <3>3. Len(taken) = room
      BY <1>5, <2>2
    <3>4. CASE d # maxd
      <4>1. Len(found) = limit
        BY <1>2, <1>3, <1>13, <3>3, <3>4
      <4> QED
        BY <3>2, <4>1 DEF IsCutOff
    <3>5. CASE d = maxd
      <4>1. Len(taken) = 0 /\ taken = <<>>
        BY <1>3, <1>5, <3>3, <3>5
      <4>2. maxd <= NodeCount /\ b[maxd] \subseteq seen2
        BY <1>1, <1>10, <2>2, <3>5
      <4>3. \A i \in 1 .. Len(rest) : rest[i].depth = maxd
        <5>1. ASSUME NEW i \in 1 .. Len(rest)
              PROVE  rest[i].depth = maxd
          <6>1. i + 1 \in 1 .. Len(q) /\ rest[i] = q[i + 1]
            BY <1>14, <4>1
          <6>2. q[i + 1].depth \in 0 .. NodeCount
            BY <1>23, <6>1
          <6> QED
            BY <1>1, <1>7, <3>5, <6>1, <6>2
        <5> QED
          BY <5>1
      <4> HIDE DEF seen2
      <4> QED
        BY <3>2, <4>2, <4>3 DEF IsCutOff
    <3> QED
      BY <3>4, <3>5
  <2> QED
    BY <2>1, <2>2
<1>20. seen2 \in SUBSET Nodes /\ Len(found) <= limit
  <2>1. seen2 \in SUBSET Nodes
    BY <1>2, <1>4, <1>5
  <2>2. CASE taken = <<>>
    <3>1. Len(taken) = 0
      BY <2>2
    <3> QED
      BY <1>2, <1>13, <2>1, <3>1
  <2>3. CASE taken # <<>>
    <3>1. room = limit - Len(its)
      BY <1>3, <1>9, <2>3
    <3>2. Len(found) <= limit
      BY <1>2, <1>5, <1>6, <1>13, <3>1
    <3> QED
      BY <2>1, <3>2
  <2> QED
    BY <2>1, <2>2, <2>3
<1>21. Frontier(next, from, rest, seen2, found, cut, limit, maxd)
  <2> HIDE DEF seen2, cut
  <2> QED
    BY <1>13, <1>16, <1>17, <1>18, <1>19, <1>20 DEF Frontier
<1> QED
  BY <1>9, <1>12, <1>21 DEF rest, found, taken, room, StepTaken, StepQueue, StepItems, StepCut

\* A finite set can be put in an order.
LEMMA OrderExists ==
  ASSUME NEW S, IsFiniteSet(S)
  PROVE  \E order : order \in SetToSeqs(S)
<1>1. PICK f : f \in Bijection(1 .. Cardinality(S), S)
  BY FS_CardinalityType DEF ExistsBijection
<1>2. f \in [1 .. Cardinality(S) -> S] /\ IsInjective(f)
  BY <1>1 DEF Bijection, Injection
<1>3. f \in SetToSeqs(S)
  BY <1>2 DEF SetToSeqs, IsInjective
<1> QED
  BY <1>3

\* 1 .. n has n elements.
LEMMA UpTo ==
  ASSUME NEW n \in Nat
  PROVE  IsFiniteSet(1 .. n) /\ Cardinality(1 .. n) = n
<1>1. 1 \in Int /\ n \in Int
  OBVIOUS
<1>2. IsFiniteSet(1 .. n) /\ Cardinality(1 .. n) = IF 1 > n THEN 0 ELSE n - 1 + 1
  BY <1>1, FS_Interval
<1>3. CASE n = 0
  BY <1>2, <1>3
<1>4. CASE n # 0
  <2>1. ~ (1 > n) /\ n - 1 + 1 = n
    BY <1>4
  <2> QED
    BY <1>2, <2>1
<1> QED
  BY <1>3, <1>4

\* What is found is not found twice.
LEMMA ItemsCounted ==
  ASSUME NEW its \in Seq(FoundItems),
         \A i, j \in 1 .. Len(its) : its[i].node = its[j].node => i = j
  PROVE  ItemNodes(its) \in SUBSET Nodes /\ Cardinality(ItemNodes(its)) = Len(its)
<1> DEFINE f == [i \in 1 .. Len(its) |-> its[i].node]
<1>1. f \in Bijection(1 .. Len(its), ItemNodes(its))
  BY DEF Bijection, Injection, IsInjective, Surjection, ItemNodes
<1>2. IsFiniteSet(1 .. Len(its)) /\ Cardinality(1 .. Len(its)) = Len(its)
  <2>1. Len(its) \in Nat
    OBVIOUS
  <2> QED
    BY <2>1, UpTo
<1>3. ExistsBijection(1 .. Len(its), ItemNodes(its))
  BY <1>1 DEF ExistsBijection
<1>4. Cardinality(ItemNodes(its)) = Len(its)
  BY <1>2, <1>3, FS_Bijection
<1>5. \A i \in 1 .. Len(its) : its[i] \in FoundItems
  OBVIOUS
<1>6. \A i \in 1 .. Len(its) : its[i].node \in Nodes
  BY <1>5 DEF FoundItems
<1> QED
  BY <1>4, <1>6 DEF ItemNodes

\* What is seen and found.
LEMMA FrontierSeen ==
  ASSUME NEW next \in Neighbours, NEW from \in SUBSET Nodes, NEW q, NEW s, NEW its,
         NEW bnd, NEW limit \in Nat, NEW maxd \in Nat,
         Frontier(next, from, q, s, its, bnd, limit, maxd)
  PROVE  /\ from \subseteq s /\ s \subseteq Closure(next, from)
         /\ ItemNodes(its) = s \ from /\ Cardinality(ItemNodes(its)) = Len(its)
         /\ Len(its) \in Nat /\ Len(its) <= limit
         /\ \A i \in 1 .. Len(its) :
              /\ its[i].depth = Distance(next, from, its[i].node)
              /\ \A m \in Closure(next, from) \ s : its[i].depth <= Distance(next, from, m)
<1>1. /\ s \in SUBSET Nodes /\ its \in Seq(FoundItems) /\ IsTree(next, from, s, its, maxd)
      /\ Len(its) <= limit
  BY DEF Frontier
<1>2. \A i \in 1 .. Len(its) : its[i].node \in Nodes /\ its[i].depth \in 0 .. NodeCount
  <2>1. \A i \in 1 .. Len(its) : its[i] \in FoundItems
    BY <1>1
  <2> QED
    BY <2>1 DEF FoundItems
<1>3. \A i \in 1 .. Len(its) : Exact(next, from, its[i].node, its[i].depth)
  BY <1>1 DEF IsTree
<1>4. \A i \in 1 .. Len(its) : its[i].node \in Closure(next, from)
  BY <1>2, <1>3, ClosureIsClosed DEF Exact
<1>5. from \subseteq s /\ s \subseteq Closure(next, from) /\ ItemNodes(its) = s \ from
  <2>1. from \subseteq Closure(next, from)
    BY ClosureIsClosed
  <2>2. s = from \cup ItemNodes(its) /\ \A i \in 1 .. Len(its) : its[i].node \notin from
    BY <1>1 DEF IsTree
  <2>3. ItemNodes(its) \subseteq Closure(next, from) /\ ItemNodes(its) \cap from = {}
    BY <1>4, <2>2 DEF ItemNodes
  <2> QED
    BY <2>1, <2>2, <2>3
<1>6. Cardinality(ItemNodes(its)) = Len(its) /\ Len(its) \in Nat
  BY <1>1, ItemsCounted DEF IsTree
<1>9. \A i \in 1 .. Len(its) : its[i].depth = Distance(next, from, its[i].node)
  BY <1>2, <1>3, DistanceIs
<1>10. ASSUME NEW i \in 1 .. Len(its), NEW m \in Closure(next, from) \ s
       PROVE  its[i].depth <= Distance(next, from, m)
  <2> DEFINE k == its[i].depth - 1
  <2>1. k \in 0 .. NodeCount /\ k + 1 = its[i].depth /\ m \notin Ball(next, from)[k]
    <3>1. its[i].depth \in 1 .. maxd /\ Ball(next, from)[its[i].depth - 1] \subseteq s
      BY <1>1 DEF IsTree
    <3>2. its[i].depth \in 0 .. NodeCount /\ its[i].depth \in 1 .. maxd
      BY <1>2, <3>1
    <3>4. its[i].depth \in Nat /\ its[i].depth >= 1 /\ its[i].depth <= NodeCount
      BY <3>2, NodeCountIs
    <3>3. k \in 0 .. NodeCount /\ k + 1 = its[i].depth
      <4> DEFINE e == its[i].depth
      <4> HIDE DEF e
      <4>1. e - 1 \in 0 .. NodeCount /\ (e - 1) + 1 = e
        BY <3>4, NodeCountIs DEF e
      <4> QED
        BY <4>1 DEF e
    <3> QED
      BY <1>10, <3>1, <3>3
  <2> HIDE DEF k
  <2>2. Distance(next, from, m) \in 0 .. NodeCount /\ Distance(next, from, m) > k
    BY <2>1, DistanceExists
  <2> QED
    BY <2>1, <2>2
<1> QED
  BY <1>1, <1>5, <1>6, <1>9, <1>10

\* A search that ends and left nothing out has seen everything.
LEMMA FrontierEnds ==
  ASSUME NEW next \in Neighbours, NEW from \in SUBSET Nodes, NEW s, NEW its,
         NEW limit \in Nat, NEW maxd \in Nat,
         Frontier(next, from, <<>>, s, its, FALSE, limit, maxd)
  PROVE  s = Closure(next, from)
<1>1. \A n \in s : next[n] \subseteq s
  BY DEF Frontier, IsThorough
<1>2. from \subseteq s /\ s \subseteq Closure(next, from)
  BY FrontierSeen
<1>3. Closure(next, from) \subseteq s
  BY <1>1, <1>2, ClosureIsLeast
<1> QED
  BY <1>2, <1>3

\* A search that left something out did so for one of its bounds.
LEMMA FrontierCut ==
  ASSUME NEW next \in Neighbours, NEW from \in SUBSET Nodes, NEW q, NEW s, NEW its,
         NEW limit \in Nat, NEW maxd \in Nat,
         Frontier(next, from, q, s, its, TRUE, limit, maxd)
  PROVE  /\ s # Closure(next, from)
         /\ \/ Len(its) = limit
            \/ \A m \in Closure(next, from) \ s : Distance(next, from, m) > maxd
<1>1. IsCutOff(next, from, q, s, its, limit, maxd)
  BY DEF Frontier
<1>2. s # Closure(next, from)
  BY <1>1 DEF IsCutOff
<1>3. ASSUME Len(its) # limit, NEW m \in Closure(next, from) \ s
      PROVE  Distance(next, from, m) > maxd
  <2>1. maxd \in 0 .. NodeCount /\ m \notin Ball(next, from)[maxd]
    BY <1>1, <1>3, NodeCountIs DEF IsCutOff
  <2> QED
    BY <2>1, DistanceExists
<1> QED
  BY <1>2, <1>3

(***************************************************************************)
(* The searches that classify a node: no items, and no limit but the depth *)
(***************************************************************************)
SearchesFrom(next, from, q, s, bnd, maxd) ==
  \E its : Frontier(next, from, q, s, its, bnd, NodeCount, maxd)

\* A limit that is not reached cuts nothing off.
LEMMA AtMostAll ==
  ASSUME NEW S, NEW s \in Seq(S), NEW n \in Nat, Len(s) <= n
  PROVE  AtMost(s, n) = s /\ ~ CutOff(s, s)
<1>1. (IF n < Len(s) THEN n ELSE Len(s)) = Len(s)
  OBVIOUS
<1>2. SubSeq(s, 1, Len(s)) = s /\ Len(s) \in Nat
  OBVIOUS
<1>3. AtMost(s, n) = s
  BY <1>1, <1>2, Zenon DEF AtMost
<1> QED
  BY <1>2, <1>3 DEF CutOff

\* the depth limit keeps new nodes out
CutBy(bnd, new) == bnd \/ new # {}
\* all new nodes are put behind the others
GoesOn(next, from, V, q, s, order, bnd, maxd) ==
  LET r == Tail(q) \o Entries(order, q[1].depth + 1, q[1].via) IN
  /\ r \in Seq(QueueEntries(V))
  /\ SearchesFrom(next, from, r, s \cup (next[q[1].node] \ s), bnd, maxd)

\* One entry of such a search: at the depth limit its new neighbours are cut
\* off, else all are taken.
LEMMA SearchStep ==
  ASSUME NEW next \in Neighbours, NEW from \in SUBSET Nodes, NEW V,
         NEW q \in Seq(QueueEntries(V)), q # <<>>, NEW s, NEW bnd \in BOOLEAN, NEW maxd \in Nat,
         SearchesFrom(next, from, q, s, bnd, maxd)
  PROVE  LET new == next[q[1].node] \ s IN
         /\ q[1].depth = maxd => SearchesFrom(next, from, Tail(q), s, CutBy(bnd, new), maxd)
         /\ \A order \in SetToSeqs(new) :
              q[1].depth # maxd => GoesOn(next, from, V, q, s, order, bnd, maxd)
<1> DEFINE new == next[q[1].node] \ s
           d == q[1].depth
           via == q[1].via
<1>1. PICK its : Frontier(next, from, q, s, its, bnd, NodeCount, maxd)
  BY DEF SearchesFrom
<1>2. q[1] \in QueueEntries(V)
  OBVIOUS
<1>3. q[1].node \in Nodes /\ d \in 0 .. NodeCount /\ via \in V
  BY <1>2 DEF QueueEntries
<1>4. new \in SUBSET Nodes /\ IsFiniteSet(new) /\ Cardinality(new) \in Nat
  BY <1>3, NodesFinite DEF Neighbours
<1>5. s \in SUBSET Nodes /\ its \in Seq(FoundItems) /\ IsTree(next, from, s, its, maxd)
  BY <1>1 DEF Frontier
<1>6. ASSUME NEW order \in SetToSeqs(new)
      PROVE  LET t == StepTaken(q, its, order, NodeCount, maxd) IN
             /\ StepQueue(q, t, via) \in Seq(QueueEntries(V))
             /\ SearchesFrom(next, from, StepQueue(q, t, via), s \cup Range(t), StepCut(bnd, t, order), maxd)
  <2>1. NodeCount \in Nat
    BY NodeCountIs
  <2>2. LET t == StepTaken(q, its, order, NodeCount, maxd) IN
        /\ StepQueue(q, t, via) \in Seq(QueueEntries(V))
        /\ Frontier(next, from, StepQueue(q, t, via), s \cup Range(t), StepItems(q, its, t),
                     StepCut(bnd, t, order), NodeCount, maxd)
    BY <1>1, <1>3, <1>6, <2>1, FrontierStep, ZenonT(60)
  <2> QED
    BY <2>2 DEF SearchesFrom
<1>7. ASSUME d = maxd
      PROVE  SearchesFrom(next, from, Tail(q), s, CutBy(bnd, new), maxd)
  <2>1. PICK order : order \in SetToSeqs(new)
    BY <1>4, OrderExists
  <2> HIDE DEF new
  <2>2. order \in Seq(new) /\ Len(order) = Cardinality(new)
    BY <1>4, <2>1, PermutationIs
  <2>3. AtMost(order, 0) = <<>>
    BY <1>4, <2>2 DEF AtMost
  <2>4. CutOff(<<>>, order) <=> new # {}
    BY <1>4, <2>2, FS_EmptySet DEF CutOff
  <2>6. Tail(q) \o <<>> = Tail(q)
    OBVIOUS
  <2>5. StepQueue(q, <<>>, via) = Tail(q)
    <3>1. Entries(<<>>, d + 1, via) = <<>>
      BY DEF Entries
    <3> QED
      BY <2>6, <3>1 DEF StepQueue
  <2>7. s \cup Range(<<>>) = s
    BY DEF Range
  <2>8. StepTaken(q, its, order, NodeCount, maxd) = <<>>
    BY <1>7, <2>3 DEF StepTaken
  <2>9. StepCut(bnd, <<>>, order) = (bnd \/ new # {})
    BY <2>4 DEF StepCut
  <2> QED
    BY <1>6, <2>1, <2>5, <2>7, <2>8, <2>9 DEF CutBy
<1>8. ASSUME NEW order \in SetToSeqs(new), d # maxd
      PROVE  LET r == Tail(q) \o Entries(order, d + 1, via) IN
             r \in Seq(QueueEntries(V)) /\ SearchesFrom(next, from, r, s \cup new, bnd, maxd)
  <2>1. ItemNodes(its) \in SUBSET Nodes /\ Cardinality(ItemNodes(its)) = Len(its)
    BY <1>5, ItemsCounted DEF IsTree
  <2>2. ItemNodes(its) \cap new = {}
    BY <1>5 DEF IsTree
  <2> HIDE DEF new
  <2>3. order \in Seq(new) /\ Len(order) = Cardinality(new) /\ Range(order) = new
    BY <1>4, <1>8, PermutationIs
  <2>4. Len(its) \in Nat /\ Cardinality(new) + Len(its) <= NodeCount
    <3>1. IsFiniteSet(ItemNodes(its)) /\ Cardinality(ItemNodes(its)) \in Nat
      BY <2>1, NodesFinite
    <3>2. Cardinality(ItemNodes(its) \cup new) = Cardinality(ItemNodes(its)) + Cardinality(new) - Cardinality({})
      BY <1>4, <2>2, <3>1, FS_Union
    <3>3. Cardinality(ItemNodes(its) \cup new) <= NodeCount
      BY <1>4, <2>1, NodesFinite
    <3> QED
      BY <1>4, <2>1, <3>1, <3>2, <3>3, FS_EmptySet, NodeCountIs
  <2>5. AtMost(order, NodeCount - Len(its)) = order /\ ~ CutOff(order, order)
    <3>1. NodeCount - Len(its) \in Nat /\ Len(order) <= NodeCount - Len(its)
      BY <1>4, <2>3, <2>4, NodeCountIs
    <3> QED
      BY <2>3, <3>1, AtMostAll
  <2>6. StepTaken(q, its, order, NodeCount, maxd) = order
    BY <1>8, <2>5 DEF StepTaken
  <2>7. StepQueue(q, order, via) = Tail(q) \o Entries(order, d + 1, via)
    BY DEF StepQueue
  <2>8. StepCut(bnd, order, order) = bnd
    BY <2>5 DEF StepCut
  <2> QED
    BY <1>6, <1>8, <2>3, <2>6, <2>7, <2>8
<1> QED
  BY <1>7, <1>8 DEF GoesOn

(***************************************************************************)
(* A trail, from the tree of its search                                    *)
(***************************************************************************)
\* The nodes before one that is k + 1 steps away are k steps away.
LEMMA ParentIsNearer ==
  ASSUME NEW next \in Neighbours, NEW from \in SUBSET Nodes,
         NEW k \in 0 .. NodeCount - 1, NEW n, Exact(next, from, n, k + 1),
         NEW p, p \in Ball(next, from)[k], n \in next[p]
  PROVE  Exact(next, from, p, k)
<1> DEFINE b == Ball(next, from)
<1>1. SUFFICES ASSUME k > 0, p \in b[k - 1] PROVE FALSE
  BY DEF Exact
<1>2. k - 1 \in 0 .. NodeCount - 1 /\ (k - 1) + 1 = k
  BY <1>1, NodeCountIs
<1>3. b[(k - 1) + 1] = b[k - 1] \cup UNION {next[m] : m \in b[k - 1]}
  BY <1>2, BallIs
<1>4. n \in b[k]
  BY <1>1, <1>2, <1>3
<1>5. k + 1 > 0 /\ (k + 1) - 1 = k
  BY NodeCountIs
<1> QED
  BY <1>4, <1>5 DEF Exact

\* rebuild_trail walks the tree from the target to the start: a shortest path.
LEMMA TrailIsPath ==
  ASSUME NEW next \in Neighbours, NEW its \in Seq(FoundItems), NEW s, NEW maxd \in Nat,
         call.start \in Nodes, IsTree(next, {call.start}, s, its, maxd),
         call.target \in ItemNodes(its)
  PROVE  LET path == RebuildTrail(its) IN
         /\ path[1] = call.start /\ Last(path) = call.target
         /\ \A i \in 1 .. Len(path) - 1 : path[i] \in Nodes /\ path[i + 1] \in next[path[i]]
         /\ Len(path) - 1 = Distance(next, {call.start}, call.target)
         /\ Len(path) - 1 <= maxd
<1> DEFINE start == call.start
           target == call.target
           N == Len(its)
           b == Ball(next, {start})
           F == [n \in s |-> IF n = start THEN start ELSE Parent(its, n)]
<1>1. {start} \in SUBSET Nodes /\ N \in Nat
  OBVIOUS
<1>2. s = {start} \cup ItemNodes(its) /\ start \notin ItemNodes(its)
  BY DEF IsTree, ItemNodes
<1>3. ItemNodes(its) \in SUBSET Nodes /\ Cardinality(ItemNodes(its)) = N
  BY ItemsCounted DEF IsTree
\* an item, by its node
<1>4. \A n \in ItemNodes(its) : \E i \in 1 .. N : its[i].node = n /\ Parent(its, n) = its[i].parent
  <2>1. ASSUME NEW n \in ItemNodes(its)
        PROVE  \E i \in 1 .. N : its[i].node = n /\ Parent(its, n) = its[i].parent
    <3> DEFINE P(x) == x.node = n
               c == CHOOSE x \in Range(its) : P(x)
    <3>1. Range(its) = {its[i] : i \in 1 .. N}
      BY DEF Range
    <3>2. \E x \in Range(its) : P(x)
      BY <2>1, <3>1 DEF ItemNodes
    <3>3. Parent(its, n) = c.parent
      BY DEF Parent
    <3>4. c \in Range(its) /\ P(c)
      <4> HIDE DEF P
      <4> QED
        BY <3>2
    <3> HIDE DEF c
    <3>5. PICK i \in 1 .. N : its[i] = c
      BY <3>1, <3>4
    <3> QED
      BY <3>3, <3>4, <3>5
  <2> QED
    BY <2>1
<1>5. \A i \in 1 .. N : /\ its[i].depth \in 1 .. maxd /\ its[i].depth \in 0 .. NodeCount
                        /\ Exact(next, {start}, its[i].node, its[i].depth)
                        /\ its[i].parent \in s /\ its[i].parent \in b[its[i].depth - 1]
                        /\ its[i].node \in next[its[i].parent]
  <2>1. \A i \in 1 .. N : its[i] \in FoundItems
    OBVIOUS
  <2>2. \A i \in 1 .. N : its[i].depth \in 0 .. NodeCount
    BY <2>1 DEF FoundItems
  <2> QED
    BY <2>2 DEF IsTree
<1>6. F \in [s -> s]
  BY <1>2, <1>4, <1>5
<1>7. PICK i0 \in 1 .. N : its[i0].node = target
  BY DEF ItemNodes
<1> DEFINE D == its[i0].depth
<1>8. D \in Nat /\ D >= 1 /\ D <= maxd /\ D <= NodeCount /\ Exact(next, {start}, target, D)
  <2>1. D \in 1 .. maxd /\ D \in 0 .. NodeCount /\ Exact(next, {start}, target, D)
    BY <1>5, <1>7
  <2> HIDE DEF D
  <2> QED
    BY <2>1, NodeCountIs
<1>9. Distance(next, {start}, target) = D
  BY <1>1, <1>8, DistanceIs
<1> HIDE DEF D
\* the way back
<1> DEFINE Is(back) == back = [k \in 0 .. N |-> IF k = 0 THEN target
                         ELSE IF back[k-1] = start THEN start ELSE Parent(its, back[k-1])]
           back == CHOOSE f : Is(f)
           steps == CHOOSE k \in 0 .. N : back[k] = start /\ \A j \in 0 .. k-1 : back[j] # start
<1>10. RebuildTrail(its) = [i \in 1 .. steps + 1 |-> back[steps + 1 - i]]
  BY DEF RebuildTrail
<1>11. Is(back)
  <2>1. PICK f : Iterate(s, target, F, N, f)
    BY <1>1, <1>2, <1>6, IterationExists
  <2>2. \A k \in 0 .. N : k # 0 => k - 1 \in 0 .. N
    BY <1>1
  <2>3. \A k \in 0 .. N : f[k] \in s
    BY <2>1 DEF Iterate
  <2>4. \A k \in 0 .. N : k # 0 => f[k] = IF f[k-1] = start THEN start ELSE Parent(its, f[k-1])
    BY <2>1, <2>2, <2>3 DEF Iterate
  <2>5. Is(f)
    <3>1. \A k \in 0 .. N : f[k] = IF k = 0 THEN target
             ELSE IF f[k-1] = start THEN start ELSE Parent(its, f[k-1])
      BY <2>1, <2>4 DEF Iterate
    <3>2. f = [k \in 0 .. N |-> f[k]]
      BY <2>1 DEF Iterate
    <3> HIDE DEF N, start, target
    <3> QED
      BY <3>1, <3>2
  <2> HIDE DEF Is
  <2> QED
    BY <2>5
<1> HIDE DEF Is, back
<1>12. /\ back[0] = target
       /\ \A k \in 1 .. N : back[k] = IF back[k-1] = start THEN start ELSE Parent(its, back[k-1])
  <2>1. \A k \in 0 .. N : back[k] = IF k = 0 THEN target
             ELSE IF back[k-1] = start THEN start ELSE Parent(its, back[k-1])
    BY <1>11 DEF Is
  <2>2. 0 \in 0 .. N /\ \A k \in 1 .. N : k \in 0 .. N /\ k # 0
    BY <1>1
  <2> HIDE DEF start, target, N
  <2> QED
    BY <2>1, <2>2
<1>13. \A k \in 0 .. N : back[k] \in s /\ (k <= D => Exact(next, {start}, back[k], D - k))
  <2> DEFINE Good(k) == back[k] \in s /\ (k <= D => Exact(next, {start}, back[k], D - k))
             Bad == {k \in 0 .. N : ~ Good(k)}
  <2>1. SUFFICES ASSUME Bad # {} PROVE FALSE
    OBVIOUS
  <2>2. Bad \in SUBSET Nat
    OBVIOUS
  <2>3. PICK k \in Bad : \A j \in Bad : k <= j
    <3> HIDE DEF Bad
    <3> QED
      BY <2>1, <2>2, LeastNatural
  <2>4. k # 0
    <3>1. D - 0 = D
      BY <1>8
    <3> QED
      BY <1>2, <1>8, <1>12, <2>3, <3>1
  <2>5. k \in 1 .. N /\ k - 1 \in 0 .. N /\ ~ (k <= k - 1) /\ k - 1 <= k
    BY <1>1, <2>3, <2>4
  <2>6. Good(k - 1)
    BY <2>3, <2>5
  <2> DEFINE m == back[k - 1]
  <2> HIDE DEF Good
  <2>7. m \in s /\ (k <= D => Exact(next, {start}, m, (D - k) + 1))
    <3>1. k <= D => k - 1 <= D /\ D - (k - 1) = (D - k) + 1
      BY <1>8, <2>5
    <3> QED
      BY <2>6, <3>1 DEF Good
  <2>8. CASE m = start
    <3>1. back[k] = start /\ back[k] \in s
      BY <1>2, <1>12, <2>5, <2>8
    <3>2. ~ (k <= D)
      <4>1. SUFFICES ASSUME k <= D PROVE FALSE
        OBVIOUS
      <4>2. D - k \in 0 .. NodeCount /\ (D - k) + 1 > 0 /\ ((D - k) + 1) - 1 = D - k /\ 0 \in 0 .. D - k
        BY <1>8, <2>5, <4>1, NodeCountIs
      <4>3. start \notin b[D - k]
        BY <2>7, <2>8, <4>1, <4>2 DEF Exact
      <4>4. b[0] = {start} /\ b[0] \subseteq b[D - k]
        BY <1>1, <4>2, BallIs, BallGrows
      <4> QED
        BY <4>3, <4>4
    <3> QED
      BY <2>3, <3>1, <3>2 DEF Good
  <2>9. CASE m # start
    <3>1. back[k] = Parent(its, m) /\ m \in ItemNodes(its)
      BY <1>2, <1>12, <2>5, <2>7, <2>9
    <3>2. PICK i \in 1 .. N : its[i].node = m /\ back[k] = its[i].parent
      BY <1>4, <3>1
    <3>3. back[k] \in s
      BY <1>5, <3>2
    <3>4. ASSUME k <= D
          PROVE  Exact(next, {start}, back[k], D - k)
      <4>1. D - k \in 0 .. NodeCount - 1 /\ (D - k) + 1 \in 0 .. NodeCount /\ ((D - k) + 1) - 1 = D - k
        BY <1>8, <2>5, <3>4, NodeCountIs
      <4>2. Exact(next, {start}, m, its[i].depth) /\ its[i].depth \in 0 .. NodeCount
            /\ back[k] \in b[its[i].depth - 1] /\ m \in next[back[k]]
        BY <1>5, <3>2
      <4>3. Exact(next, {start}, m, (D - k) + 1)
        BY <2>7, <3>4
      <4> HIDE DEF m
      <4>4. its[i].depth = (D - k) + 1
        <5>1. Distance(next, {start}, m) = its[i].depth
          BY <1>1, <4>2, DistanceIs
        <5>2. Distance(next, {start}, m) = (D - k) + 1
          BY <1>1, <4>1, <4>3, DistanceIs
        <5> QED
          BY <5>1, <5>2
      <4>5. back[k] \in b[D - k]
        BY <4>1, <4>2, <4>4
      <4> QED
        BY <1>1, <4>1, <4>2, <4>3, <4>5, ParentIsNearer
    <3> QED
      BY <2>3, <3>3, <3>4 DEF Good
  <2> QED
    BY <2>8, <2>9
\* start is met after D steps, and not before
<1>14. \A k \in 0 .. N : k < D => back[k] # start
  <2>1. ASSUME NEW k \in 0 .. N, k < D, back[k] = start
        PROVE  FALSE
    <3>1. D - k > 0 /\ (D - k) - 1 \in 0 .. NodeCount /\ 0 \in 0 .. (D - k) - 1 /\ k <= D
      BY <1>8, <2>1, NodeCountIs
    <3>2. start \notin b[(D - k) - 1]
      BY <1>13, <2>1, <3>1 DEF Exact
    <3>3. b[0] = {start} /\ b[0] \subseteq b[(D - k) - 1]
      BY <1>1, <3>1, BallIs, BallGrows
    <3> QED
      BY <3>2, <3>3
  <2> QED
    BY <2>1
<1>15. D <= N
  <2>1. SUFFICES ASSUME N < D PROVE FALSE
    BY <1>1, <1>8
  <2> DEFINE f == [k \in 0 .. N |-> back[k]]
  <2>2. \A k \in 0 .. N : back[k] \in ItemNodes(its) /\ Exact(next, {start}, back[k], D - k)
        /\ D - k \in 0 .. NodeCount
    <3>1. ASSUME NEW k \in 0 .. N
          PROVE  /\ back[k] \in ItemNodes(its) /\ Exact(next, {start}, back[k], D - k)
                 /\ D - k \in 0 .. NodeCount
      <4>1. k <= D /\ k < D /\ D - k \in 0 .. NodeCount
        BY <1>1, <1>8, <2>1, NodeCountIs
      <4> HIDE DEF start
      <4> QED
        BY <1>2, <1>13, <1>14, <4>1
    <3> QED
      BY <3>1
  <2>3. ASSUME NEW i \in 0 .. N, NEW j \in 0 .. N, back[i] = back[j]
        PROVE  i = j
    <3>1. Distance(next, {start}, back[i]) = D - i /\ Distance(next, {start}, back[j]) = D - j
      BY <1>1, <2>2, DistanceIs
    <3> QED
      BY <1>8, <2>3, <3>1
  <2>4. f \in Injection(0 .. N, ItemNodes(its))
    BY <2>2, <2>3 DEF Injection, IsInjective
  <2>5. IsFiniteSet(ItemNodes(its))
    BY <1>3, NodesFinite
  <2>6. Cardinality(0 .. N) <= N
    BY <1>3, <2>4, <2>5, FS_Injection
  <2>7. Cardinality(0 .. N) = N + 1
    BY <1>1, FS_Interval
  <2> QED
    BY <1>1, <2>6, <2>7
<1>16. back[D] = start
  <2>1. D \in 0 .. N /\ D <= D /\ D - D = 0
    BY <1>1, <1>8, <1>15
  <2>2. Exact(next, {start}, back[D], 0)
    BY <1>13, <2>1
  <2>3. b[0] = {start}
    BY <1>1, BallIs
  <2> QED
    BY <2>2, <2>3 DEF Exact
<1>17. steps = D
  <2> DEFINE At(k) == back[k] = start /\ \A j \in 0 .. k-1 : back[j] # start
  <2>1. D \in 0 .. N /\ At(D)
    BY <1>1, <1>8, <1>14, <1>15, <1>16
  <2>2. \A k \in 0 .. N : At(k) => k = D
    <3>1. ASSUME NEW k \in 0 .. N, At(k), k # D
          PROVE  FALSE
      <4>1. k < D \/ D \in 0 .. k - 1
        BY <1>8, <3>1
      <4> QED
        BY <1>14, <1>16, <3>1, <4>1
    <3> QED
      BY <3>1
  <2>3. steps = CHOOSE k \in 0 .. N : At(k)
    OBVIOUS
  <2> HIDE DEF At, steps
  <2> QED
    BY <2>1, <2>2, <2>3
<1> HIDE DEF steps
<1> DEFINE path == RebuildTrail(its)
<1>18. path = [i \in 1 .. D + 1 |-> back[D + 1 - i]]
  BY <1>10, <1>17
<1>19. Len(path) = D + 1
  <2>1. DOMAIN path = 1 .. D + 1 /\ D + 1 \in Nat
    BY <1>8, <1>18
  <2>2. path \in Seq(s)
    <3>1. \A i \in 1 .. D + 1 : D + 1 - i \in 0 .. N
      BY <1>1, <1>8, <1>15
    <3>2. \A i \in 1 .. D + 1 : back[D + 1 - i] \in s
      BY <1>13, <3>1
    <3> QED
      BY <1>18, <2>1, <3>2
  <2> HIDE DEF path
  <2> QED
    BY <2>1, <2>2
<1>20. path[1] = start /\ Last(path) = target
  <2>1. 1 \in 1 .. D + 1 /\ D + 1 \in 1 .. D + 1 /\ (D + 1) - 1 = D /\ (D + 1) - (D + 1) = 0
    BY <1>8
  <2>2. path[1] = back[(D + 1) - 1] /\ path[D + 1] = back[(D + 1) - (D + 1)]
    BY <1>18, <2>1
  <2>3. path[1] = back[D] /\ path[D + 1] = back[0]
    BY <2>1, <2>2
  <2> HIDE DEF path
  <2> QED
    BY <1>12, <1>16, <1>19, <2>3 DEF Last
<1>21. ASSUME NEW i \in 1 .. D
       PROVE  path[i] \in Nodes /\ path[i + 1] \in next[path[i]]
  <2> DEFINE k == (D + 1) - i
  <2>1. /\ k \in 1 .. N /\ k - 1 \in 0 .. N /\ k - 1 < D /\ i \in 1 .. D + 1 /\ i + 1 \in 1 .. D + 1
        /\ D + 1 - i = k /\ D + 1 - (i + 1) = k - 1
    BY <1>1, <1>8, <1>15
  <2>2. path[i] = back[k] /\ path[i + 1] = back[k - 1]
    <3>1. path[i] = back[D + 1 - i] /\ path[i + 1] = back[D + 1 - (i + 1)]
      BY <1>18, <2>1
    <3> QED
      BY <2>1, <3>1
  <2> HIDE DEF k, path
  <2>3. back[k - 1] # start /\ back[k - 1] \in s
    BY <1>13, <1>14, <2>1
  <2>4. back[k] = Parent(its, back[k - 1]) /\ back[k - 1] \in ItemNodes(its)
    BY <1>2, <1>12, <2>1, <2>3
  <2>5. PICK j \in 1 .. N : its[j].node = back[k - 1] /\ back[k] = its[j].parent
    BY <1>4, <2>4
  <2>6. back[k] \in Nodes
    BY <1>1, <1>2, <1>3, <1>5, <2>5
  <2> QED
    BY <1>5, <2>2, <2>5, <2>6
<1>22. Len(path) - 1 = D /\ D <= maxd
  BY <1>8, <1>19
<1> HIDE DEF path
<1> QED
  BY <1>9, <1>20, <1>21, <1>22 DEF path
(***************************************************************************)
(* The invariant of a call, by what is asked                               *)
(***************************************************************************)
Via == graph.edges \cup {NoEdge}
UncertainEnds == UNION {Tainted(e) : e \in UncertainEdges}

CallInv ==
  /\ graph \in Graphs /\ call \in Calls(graph)
  /\ queue \in Seq(QueueEntries(Via)) /\ seen \in SUBSET Nodes /\ bounded \in BOOLEAN
  /\ items \in Seq(FoundItems) /\ node \in Nodes \cup {NoNode}
  /\ pc \in {"start", "impact", "trail", "classify", "known", "uncertain", "done", "closure", "select"}
  /\ pc = "start" => items = <<>> /\ ~ bounded
  /\ pc # "done" => answer = Pending
  /\ pc \in {"impact", "trail"} => call.op = pc /\ call.start \in Nodes
  /\ pc = "trail" => call.target \in Nodes
  /\ pc \in {"classify", "known", "uncertain"} => call.op \in {"reachability", "zombies"}
  /\ pc \in {"closure", "select"} => call.op = "packet"

ImpactInv ==
  call.op = "impact" /\ call.start \in Nodes =>
    /\ pc = "impact" =>
         Frontier(Backward, {call.start}, queue, seen, items, FALSE, call.max_results, call.max_depth)
    /\ pc = "done" =>
         /\ answer.truncated \in BOOLEAN
         /\ Frontier(Backward, {call.start}, queue, seen, items, answer.truncated, call.max_results, call.max_depth)
         /\ ~ answer.truncated => queue = <<>>

TrailInv ==
  call.op = "trail" /\ call.start \in Nodes /\ call.target \in Nodes =>
    /\ pc = "trail" =>
         /\ call.target \notin seen
         /\ Frontier(Forward, {call.start}, queue, seen, items, bounded, call.max_results, call.max_depth)
    /\ TrailIsShortest

ClassifyInv ==
  call.op \in {"reachability", "zombies"} =>
    /\ pc \in {"classify", "known", "uncertain"} =>
         node \in Nodes /\ (call.op = "reachability" => node = call.start)
    /\ pc = "known" =>
         /\ node \notin seen
         /\ SearchesFrom(Forward, Entrypoints, queue, seen, bounded, call.max_depth)
    /\ pc = "uncertain" =>
         /\ node \notin Closure(Forward, Entrypoints)
         /\ node \in seen => \E i \in 1 .. Len(queue) : queue[i].node = node
         /\ SearchesFrom(Forward, UncertainEnds, queue, seen, bounded, call.max_depth)
    /\ NegativesAreSafe

\* the candidates are kept, left out or still waiting, and what waits is of no
\* higher priority than what is kept
SelectionInv ==
  /\ evidence \in [Candidates -> Evidence]
  /\ waiting \in Seq(Candidates) /\ selected \in Seq(Candidates) /\ omitted \in Seq(Candidates)
  /\ Range(selected) \cup Range(omitted) \cup Range(waiting) = Candidates
  /\ Range(selected) \cap Range(omitted) = {}
  /\ (Range(selected) \cup Range(omitted)) \cap Range(waiting) = {}
  /\ Cardinality(Range(selected)) = Len(selected) /\ Cardinality(Range(omitted)) = Len(omitted)
  /\ \A i, j \in 1 .. Len(waiting) :
       i < j => /\ waiting[i] # waiting[j]
                /\ evidence[waiting[i]].priority <= evidence[waiting[j]].priority
  /\ \A n \in Range(selected), i \in 1 .. Len(waiting) :
       evidence[n].priority <= evidence[waiting[i]].priority
  /\ \A n \in Range(omitted) : evidence[n].priority # 0
  /\ raw_bytes = BytesOf(Range(selected))
  /\ selected # <<>> => Fits(Len(selected), raw_bytes)

PacketInv ==
  call.op = "packet" =>
    /\ pc \in {"start", "closure"} => selected = <<>> /\ omitted = <<>> /\ raw_bytes = 0
    /\ pc # "start" =>
         /\ view \in [items : Seq(Nodes), truncated : BOOLEAN]
         /\ ~ view.truncated => Range(view.items) = call.wanted
         /\ Frontier(PositiveForward, Range(view.items), queue, seen, items, bounded,
                     call.max_nodes, call.max_depth)
         /\ pc # "closure" => queue = <<>>
    /\ pc = "select" => SelectionInv
    /\ answer.kind = "Packet" =>
         SelectionInv /\ waiting = <<>> /\ (answer.truncated <=> PacketTruncated)
    /\ answer.kind = "RequiredEvidenceDoesNotFit" =>
         ~ Fits(Cardinality(Required(evidence)), BytesOf(Required(evidence)))

KnowledgeInv == CallInv /\ ImpactInv /\ TrailInv /\ ClassifyInv /\ PacketInv

(***************************************************************************)
(* What every step of the invariant needs                                  *)
(***************************************************************************)
LEMMA EdgesLead ==
  ASSUME graph \in Graphs
  PROVE  /\ Forward \in Neighbours /\ Backward \in Neighbours
         /\ PositiveForward \in Neighbours /\ AnyForward \in Neighbours
         /\ \A n \in Nodes : /\ Forward[n] = KnownFrom(n) /\ Backward[n] = KnownInto(n)
                             /\ PositiveForward[n] = PositiveFrom(n)
<1>1. \A e \in KnownEdges : e.source \in Nodes /\ e.target \in Nodes
  BY GraphAssumption DEF Accepted, KnownEdges
<1>2. \A n \in Nodes : KnownFrom(n) \in SUBSET Nodes /\ KnownInto(n) \in SUBSET Nodes /\ PositiveFrom(n) \in SUBSET Nodes
  BY <1>1 DEF KnownFrom, KnownInto, PositiveFrom
<1> QED
  BY <1>2 DEF Forward, Backward, PositiveForward, AnyForward, Neighbours

\* What is read off the graph stays, for the graph does.
LEMMA SameGraph ==
  ASSUME graph' = graph
  PROVE  /\ Forward' = Forward /\ Backward' = Backward /\ PositiveForward' = PositiveForward
         /\ AnyForward' = AnyForward /\ Entrypoints' = Entrypoints /\ UncertainEnds' = UncertainEnds
         /\ Via' = Via /\ UncertainEdges' = UncertainEdges
<1>1. KnownEdges' = KnownEdges /\ UncertainEdges' = UncertainEdges
  BY DEF KnownEdges, UncertainEdges
<1>2. Forward' = Forward /\ Backward' = Backward
  BY <1>1 DEF Forward, Backward, KnownFrom, KnownInto
<1>3. PositiveForward' = PositiveForward
  BY <1>1 DEF PositiveForward, PositiveFrom
<1>4. AnyForward' = AnyForward /\ Entrypoints' = Entrypoints /\ Via' = Via
  BY DEF AnyForward, Entrypoints, Via
<1>5. UncertainEnds' = UncertainEnds
  BY <1>1 DEF UncertainEnds, Tainted
<1> QED
  BY <1>1, <1>2, <1>3, <1>4, <1>5

\* The bounds of a call are numbers, the wanted nodes of a view are nodes.
LEMMA CallFacts ==
  ASSUME CallInv
  PROVE  /\ call.max_depth \in Nat
         /\ call.op # "packet" => call.max_results \in Nat
         /\ call.op = "packet" =>
              /\ call.wanted \subseteq Nodes /\ call.max_nodes \in Nat
              /\ call.view_items \in Nat /\ call.view_bytes \in Nat
              /\ call.max_items \in Nat /\ call.max_bytes \in Nat
              /\ call.max_tokens \in Nat \cup {NoCeiling}
BY CallAssumption, PacketAssumption DEF CallInv

\* Searches begin at nodes.
LEMMA EntrypointsAreNodes ==
  ASSUME CallInv
  PROVE  Entrypoints \in SUBSET Nodes /\ UncertainEnds \in SUBSET Nodes
BY DEF Entrypoints, UncertainEnds, Tainted

\* A step in a call of one operation leaves the invariants of the others alone.
LEMMA OtherCalls ==
  ASSUME call' = call, pc' # "start"
  PROVE  /\ call.op # "impact" => ImpactInv'
         /\ call.op # "trail" => TrailInv'
         /\ call.op \notin {"reachability", "zombies"} => ClassifyInv'
         /\ call.op # "packet" => PacketInv'
BY DEF ImpactInv, TrailInv, ClassifyInv, PacketInv

\* impact ends with an empty queue: nothing was left out.
LEMMA ImpactDoneKeeps ==
  ASSUME KnowledgeInv, ImpactDone
  PROVE  KnowledgeInv'
<1>1. /\ pc = "impact" /\ pc' = "done" /\ queue = <<>> /\ call.op = "impact"
      /\ UNCHANGED <<graph, call, node, queue, seen, bounded, items>> /\ answer'.truncated = FALSE
  BY DEF ImpactDone, Return, search, Pending, KnowledgeInv, CallInv
<1>2. CallInv'
  BY <1>1, SameGraph DEF KnowledgeInv, CallInv
<1>3. ImpactInv'
  BY <1>1, SameGraph DEF KnowledgeInv, ImpactInv
<1> QED
  BY <1>1, <1>2, <1>3, OtherCalls DEF KnowledgeInv

\* A call for a node that is missing answers at once.
LEMMA StartMissingKeeps ==
  ASSUME KnowledgeInv, StartMissing
  PROVE  KnowledgeInv'
<1>1. /\ pc = "start" /\ pc' = "done" /\ call.op \in {"impact", "trail", "reachability"}
      /\ UNCHANGED <<graph, call, node, queue, seen, bounded, items>>
      /\ \/ call.start \notin Nodes /\ answer'.kind = "Missing"
         \/ call.op = "trail" /\ call.target \notin Nodes /\ answer'.kind = "MissingTarget"
  BY DEF StartMissing, Return, search, Pending, KnowledgeInv, CallInv
<1>2. CallInv'
  BY <1>1, SameGraph DEF KnowledgeInv, CallInv
<1>3. ImpactInv' /\ TrailInv'
  BY <1>1 DEF ImpactInv, TrailInv
<1>4. ClassifyInv'
  BY <1>1 DEF ClassifyInv, NegativesAreSafe
<1> QED
  BY <1>1, <1>2, <1>3, <1>4, OtherCalls DEF KnowledgeInv

\* The queue of a search that begins at one node.
LEMMA QueueOfOne ==
  ASSUME NEW next \in Neighbours, NEW n \in Nodes, NEW limit \in Nat, NEW maxd \in Nat
  PROVE  /\ <<Entry(n, 0, NoEdge)>> \in Seq(QueueEntries(Via))
         /\ Frontier(next, {n}, <<Entry(n, 0, NoEdge)>>, {n}, <<>>, FALSE, limit, maxd)
<1> DEFINE q == <<Entry(n, 0, NoEdge)>>
<1>1. Entry(n, 0, NoEdge) \in QueueEntries(Via)
  BY NodeCountIs DEF Entry, QueueEntries, Via
<1>2. q \in Seq(QueueEntries(Via)) /\ Len(q) = 1 /\ q[1] = Entry(n, 0, NoEdge)
  BY <1>1
<1>3. q[1].depth = 0 /\ q[1].node = n
  BY DEF Entry
<1> HIDE DEF q
<1>4. Frontier(next, {n}, q, {n}, <<>>, FALSE, limit, maxd)
  <2>1. {n} \in SUBSET Nodes /\ \A i \in 1 .. Len(q) : q[i].depth = 0 /\ q[i].node \in {n}
    BY <1>2, <1>3
  <2>2. \A m \in {n} : \E i \in 1 .. Len(q) : q[i].node = m
    BY <1>2, <1>3
  <2> QED
    BY <1>2, <2>1, <2>2, FrontierStart
<1> QED
  BY <1>2, <1>4 DEF q

\* impact and trail begin their search.
LEMMA StartSearchKeeps ==
  ASSUME KnowledgeInv, StartSearch
  PROVE  KnowledgeInv'
<1> DEFINE q == <<Entry(call.start, 0, NoEdge)>>
<1>1. /\ pc = "start" /\ pc' = call.op /\ call.op \in {"impact", "trail"} /\ call.start \in Nodes
      /\ call.op = "trail" => call.target \in Nodes \ {call.start}
      /\ UNCHANGED <<graph, call, node, bounded, items, answer>>
      /\ queue' = q /\ seen' = {call.start} /\ items = <<>> /\ bounded = FALSE /\ answer = Pending
  BY DEF StartSearch, KnowledgeInv, CallInv
<1>2. Forward \in Neighbours /\ Backward \in Neighbours /\ call.max_depth \in Nat /\ call.max_results \in Nat
  BY <1>1, EdgesLead, CallFacts DEF KnowledgeInv, CallInv
<1>3. /\ q \in Seq(QueueEntries(Via))
      /\ Frontier(Forward, {call.start}, q, {call.start}, <<>>, FALSE, call.max_results, call.max_depth)
      /\ Frontier(Backward, {call.start}, q, {call.start}, <<>>, FALSE, call.max_results, call.max_depth)
  BY <1>1, <1>2, QueueOfOne
<1> HIDE DEF q
<1>4. CallInv'
  BY <1>1, <1>3, SameGraph DEF KnowledgeInv, CallInv
<1>5. ImpactInv'
  BY <1>1, <1>3, SameGraph DEF ImpactInv
<1>6. TrailInv'
  BY <1>1, <1>3, SameGraph DEF TrailInv, TrailIsShortest, DoneWith
<1> QED
  BY <1>1, <1>4, <1>5, <1>6, OtherCalls DEF KnowledgeInv

\* impact takes an entry, and ends if a bound cuts something off.
LEMMA ImpactVisitKeeps ==
  ASSUME KnowledgeInv, ImpactVisit
  PROVE  KnowledgeInv'
<1> DEFINE n == queue[1].node
<1>1. /\ pc = "impact" /\ queue # <<>> /\ call.op = "impact" /\ answer = Pending
      /\ UNCHANGED <<graph, call, node, bounded>>
      /\ queue \in Seq(QueueEntries(Via)) /\ Head(queue) = queue[1] /\ n \in Nodes
  <2>1. queue[1] \in QueueEntries(Via)
    BY DEF ImpactVisit, KnowledgeInv, CallInv
  <2>2. n \in Nodes
    BY <2>1 DEF QueueEntries
  <2> QED
    BY <2>2 DEF ImpactVisit, KnowledgeInv, CallInv
<1>2. Backward \in Neighbours /\ Backward[n] = KnownInto(n)
      /\ call.max_depth \in Nat /\ call.max_results \in Nat
  BY <1>1, EdgesLead, CallFacts DEF KnowledgeInv, CallInv
<1>3. PICK order \in SetToSeqs(Backward[n] \ seen) :
        LET taken == StepTaken(queue, items, order, call.max_results, call.max_depth) IN
        /\ items' = StepItems(queue, items, taken)
        /\ seen' = seen \cup Range(taken)
        /\ queue' = StepQueue(queue, taken, NoEdge)
        /\ IF CutOff(taken, order) THEN Return("Found", TRUE) ELSE UNCHANGED <<pc, answer>>
  BY <1>1, <1>2 DEF ImpactVisit, Room, StepTaken, StepItems, StepQueue
<1> DEFINE taken == StepTaken(queue, items, order, call.max_results, call.max_depth)
<1>4. call.start \in Nodes
  BY <1>1 DEF KnowledgeInv, CallInv
<1>5. QED
  <2>1. Frontier(Backward, {call.start}, queue, seen, items, FALSE, call.max_results, call.max_depth)
    BY <1>1, <1>4 DEF KnowledgeInv, ImpactInv
  <2>2. NoEdge \in Via
    BY DEF Via
  <2>3. /\ queue' \in Seq(QueueEntries(Via))
        /\ Frontier(Backward, {call.start}, queue', seen', items', StepCut(FALSE, taken, order),
                    call.max_results, call.max_depth)
    BY <1>1, <1>2, <1>3, <1>4, <2>1, <2>2, FrontierStep
  <2>4. seen' \in SUBSET Nodes /\ items' \in Seq(FoundItems)
    BY <2>3 DEF Frontier
  <2> HIDE DEF taken
  <2>5. CASE CutOff(taken, order)
    <3>1. pc' = "done" /\ answer'.truncated = TRUE /\ StepCut(FALSE, taken, order) = TRUE
      BY <1>3, <2>5 DEF taken, Return, Pending, StepCut
    <3>2. CallInv'
      BY <1>1, <2>3, <2>4, <3>1, SameGraph DEF KnowledgeInv, CallInv
    <3>3. ImpactInv'
      BY <1>1, <2>3, <3>1, SameGraph DEF ImpactInv
    <3> QED
      BY <1>1, <3>1, <3>2, <3>3, OtherCalls DEF KnowledgeInv
  <2>6. CASE ~ CutOff(taken, order)
    <3>1. pc' = pc /\ answer' = answer /\ StepCut(FALSE, taken, order) = FALSE
      BY <1>3, <2>6 DEF taken, StepCut
    <3>2. CallInv'
      BY <1>1, <2>3, <2>4, <3>1, SameGraph DEF KnowledgeInv, CallInv
    <3>3. ImpactInv'
      BY <1>1, <2>3, <3>1, SameGraph DEF ImpactInv
    <3> QED
      BY <1>1, <3>1, <3>2, <3>3, OtherCalls DEF KnowledgeInv
  <2> QED
    BY <2>5, <2>6

\* The trail to the start is the start.
LEMMA TrailAtStartKeeps ==
  ASSUME KnowledgeInv, TrailAtStart
  PROVE  KnowledgeInv'
<1>1. /\ pc = "start" /\ pc' = "done" /\ call.op = "trail"
      /\ call.start \in Nodes /\ call.target = call.start
      /\ UNCHANGED <<graph, call, node, queue, seen, bounded, items>>
      /\ answer'.kind = "Found" /\ answer'.truncated = FALSE /\ answer'.path = <<call.start>>
  BY DEF TrailAtStart, search, Pending, KnowledgeInv, CallInv
<1>2. CallInv'
  BY <1>1, SameGraph DEF KnowledgeInv, CallInv
<1>3. Distance(Forward, {call.start}, call.start) = 0
  <2>1. Forward \in Neighbours /\ {call.start} \in SUBSET Nodes /\ 0 \in 0 .. NodeCount
    BY <1>1, EdgesLead, NodeCountIs DEF KnowledgeInv, CallInv
  <2>2. Exact(Forward, {call.start}, call.start, 0)
    BY <2>1, BallIs DEF Exact
  <2> QED
    BY <2>1, <2>2, DistanceIs
<1>4. call.max_depth \in Nat
  BY CallFacts DEF KnowledgeInv
<1>5. Len(<<call.start>>) = 1 /\ Last(<<call.start>>) = call.start /\ <<call.start>>[1] = call.start
  BY DEF Last
<1>6. TrailIsShortest'
  BY <1>1, <1>3, <1>4, <1>5, SameGraph DEF TrailIsShortest
<1>7. TrailInv'
  BY <1>1, <1>6 DEF TrailInv
<1> QED
  BY <1>1, <1>2, <1>7, OtherCalls DEF KnowledgeInv

\* No trail was found, and unless a bound cut something off there is none.
LEMMA TrailDoneKeeps ==
  ASSUME KnowledgeInv, TrailDone
  PROVE  KnowledgeInv'
<1>1. /\ pc = "trail" /\ pc' = "done" /\ queue = <<>> /\ call.op = "trail" /\ call.start \in Nodes
      /\ UNCHANGED <<graph, call, node, queue, seen, bounded, items>>
      /\ call.target \in Nodes
  BY DEF TrailDone, Return, search, KnowledgeInv, CallInv
<1>2. answer'.kind = "Unreachable" /\ answer'.truncated = bounded
  BY DEF TrailDone, Return, Pending
<1>3. CallInv'
  BY <1>1, SameGraph DEF KnowledgeInv, CallInv
<1>4. call.target \notin seen
      /\ Frontier(Forward, {call.start}, queue, seen, items, bounded, call.max_results, call.max_depth)
  BY <1>1 DEF KnowledgeInv, TrailInv
<1>5. ~ bounded => call.target \notin Closure(Forward, {call.start})
  <2>1. /\ Forward \in Neighbours /\ {call.start} \in SUBSET Nodes /\ bounded \in BOOLEAN
        /\ call.max_depth \in Nat /\ call.max_results \in Nat
    BY <1>1, EdgesLead, CallFacts DEF KnowledgeInv, CallInv
  <2>2. SUFFICES ASSUME ~ bounded PROVE seen = Closure(Forward, {call.start})
    BY <1>4
  <2>3. Frontier(Forward, {call.start}, <<>>, seen, items, FALSE, call.max_results, call.max_depth)
    <3>1. bounded = FALSE
      BY <2>1, <2>2
    <3> QED
      BY <1>1, <1>4, <3>1
  <2> QED
    BY <2>1, <2>3, FrontierEnds
<1>6. TrailIsShortest'
  BY <1>1, <1>2, <1>5, SameGraph DEF TrailIsShortest
<1>7. TrailInv'
  BY <1>1, <1>6 DEF TrailInv
<1> QED
  BY <1>1, <1>3, <1>7, OtherCalls DEF KnowledgeInv

\* trail takes an entry, and answers with the path if the target is among its
\* neighbours.
LEMMA TrailVisitKeeps ==
  ASSUME KnowledgeInv, TrailVisit
  PROVE  KnowledgeInv'
<1> DEFINE n == queue[1].node
<1>1. /\ pc = "trail" /\ queue # <<>> /\ call.op = "trail"
      /\ call.start \in Nodes /\ call.target \in Nodes
      /\ UNCHANGED <<graph, call, node>>
      /\ queue \in Seq(QueueEntries(Via)) /\ Head(queue) = queue[1] /\ n \in Nodes
      /\ bounded \in BOOLEAN
  <2>1. queue[1] \in QueueEntries(Via)
    BY DEF TrailVisit, KnowledgeInv, CallInv
  <2>2. n \in Nodes
    BY <2>1 DEF QueueEntries
  <2>3. pc = "trail" /\ queue # <<>> /\ UNCHANGED <<graph, call, node>>
    BY DEF TrailVisit
  <2>4. /\ call.op = "trail" /\ call.start \in Nodes /\ call.target \in Nodes
        /\ queue \in Seq(QueueEntries(Via)) /\ bounded \in BOOLEAN
    BY <2>3 DEF KnowledgeInv, CallInv
  <2>5. Head(queue) = queue[1]
    BY <2>3, <2>4
  <2> QED
    BY <2>2, <2>3, <2>4, <2>5
<1>2. Forward \in Neighbours /\ Forward[n] = KnownFrom(n) /\ {call.start} \in SUBSET Nodes
      /\ call.max_depth \in Nat /\ call.max_results \in Nat
  <2>1. CallInv /\ graph \in Graphs
    BY DEF KnowledgeInv, CallInv
  <2>2. call.max_depth \in Nat /\ call.max_results \in Nat
    BY <1>1, <2>1, CallFacts
  <2>3. Forward \in Neighbours /\ Forward[n] = KnownFrom(n)
    BY <1>1, <2>1, EdgesLead
  <2> QED
    BY <1>1, <2>2, <2>3
<1>3. PICK order \in SetToSeqs(Forward[n] \ seen) :
        LET taken == StepTaken(queue, items, order, call.max_results, call.max_depth)
            prior == StepItems(queue, items, taken)
        IN /\ items' = prior
           /\ \/ /\ call.target \in Range(taken)
                 /\ answer' = [Pending EXCEPT !.kind = "Found", !.path = RebuildTrail(prior),
                                              !.truncated = bounded]
                 /\ pc' = "done" /\ UNCHANGED search
              \/ /\ call.target \notin Range(taken)
                 /\ seen' = seen \cup Range(taken)
                 /\ queue' = StepQueue(queue, taken, NoEdge)
                 /\ bounded' = StepCut(bounded, taken, order)
                 /\ UNCHANGED <<pc, answer>>
  BY <1>1, <1>2 DEF TrailVisit, Room, StepTaken, StepItems, StepQueue, StepCut, Ascending
<1> DEFINE taken == StepTaken(queue, items, order, call.max_results, call.max_depth)
           rest == StepQueue(queue, taken, NoEdge)
<1>4. call.target \notin seen
      /\ Frontier(Forward, {call.start}, queue, seen, items, bounded, call.max_results, call.max_depth)
  BY <1>1 DEF KnowledgeInv, TrailInv
<1>5. /\ rest \in Seq(QueueEntries(Via))
      /\ Frontier(Forward, {call.start}, rest, seen \cup Range(taken), StepItems(queue, items, taken),
                  StepCut(bounded, taken, order), call.max_results, call.max_depth)
      /\ taken # <<>> => ~ bounded
  <2>1. NoEdge \in Via
    BY DEF Via
  <2> QED
    BY <1>1, <1>2, <1>4, <2>1, FrontierStep
<1>6. /\ items' = StepItems(queue, items, taken)
      /\ \/ /\ call.target \in Range(taken)
            /\ answer' = [Pending EXCEPT !.kind = "Found", !.path = RebuildTrail(items'),
                                         !.truncated = bounded]
            /\ pc' = "done" /\ UNCHANGED search
         \/ /\ call.target \notin Range(taken)
            /\ seen' = seen \cup Range(taken) /\ queue' = rest
            /\ bounded' = StepCut(bounded, taken, order)
            /\ UNCHANGED <<pc, answer>>
  BY <1>3
<1> HIDE DEF taken, rest
<1>7. /\ seen \cup Range(taken) \in SUBSET Nodes /\ items' \in Seq(FoundItems)
      /\ IsTree(Forward, {call.start}, seen \cup Range(taken), items', call.max_depth)
  BY <1>5, <1>6 DEF Frontier
<1>8. CASE call.target \in Range(taken)
  <2>1. /\ answer'.kind = "Found" /\ answer'.path = RebuildTrail(items') /\ answer'.truncated = bounded
        /\ pc' = "done" /\ UNCHANGED <<queue, seen, bounded>>
    BY <1>6, <1>8 DEF search, Pending
  <2>2. ~ bounded
    BY <1>5, <1>8 DEF Range
  <2>3. call.target \in ItemNodes(items')
    <3>1. call.start \in seen
      BY <1>4 DEF Frontier, IsTree
    <3> QED
      BY <1>4, <1>7, <1>8, <3>1 DEF IsTree
  <2>4. LET path == RebuildTrail(items') IN
         /\ path[1] = call.start /\ Last(path) = call.target
         /\ \A i \in 1 .. Len(path) - 1 : path[i] \in Nodes /\ path[i + 1] \in Forward[path[i]]
         /\ Len(path) - 1 = Distance(Forward, {call.start}, call.target)
         /\ Len(path) - 1 <= call.max_depth
    BY <1>1, <1>2, <1>7, <2>3, TrailIsPath
  <2>5. CallInv'
    BY <1>1, <1>7, <2>1, SameGraph DEF KnowledgeInv, CallInv
  <2>6. \A i \in 1 .. Len(answer'.path) - 1 : answer'.path[i + 1] \in KnownFrom(answer'.path[i])
    BY <2>1, <2>4, EdgesLead DEF KnowledgeInv, CallInv
  <2>7. (\A i \in 1 .. Len(answer.path) - 1 : answer.path[i + 1] \in KnownFrom(answer.path[i]))'
    BY <1>1, <2>6 DEF KnownFrom, KnownEdges
  <2>8. TrailIsShortest'
    BY <1>1, <2>1, <2>2, <2>4, <2>7, SameGraph DEF TrailIsShortest
  <2>9. TrailInv'
    BY <2>1, <2>8 DEF TrailInv
  <2> QED
    BY <1>1, <2>1, <2>5, <2>9, OtherCalls DEF KnowledgeInv
<1>9. CASE call.target \notin Range(taken)
  <2>1. /\ seen' = seen \cup Range(taken) /\ queue' = rest
        /\ bounded' = StepCut(bounded, taken, order)
        /\ pc' = pc /\ answer' = answer
    BY <1>6, <1>9
  <2>2. bounded' \in BOOLEAN
    BY <2>1 DEF StepCut
  <2>3. CallInv'
    BY <1>1, <1>5, <1>7, <2>1, <2>2, SameGraph DEF KnowledgeInv, CallInv
  <2>4. TrailIsShortest'
    BY <1>1, <2>1 DEF TrailIsShortest, DoneWith
  <2>5. TrailInv'
    BY <1>1, <1>4, <1>5, <1>6, <1>9, <2>1, <2>4, SameGraph DEF TrailInv
  <2> QED
    BY <1>1, <2>1, <2>3, <2>5, OtherCalls DEF KnowledgeInv
<1> QED
  BY <1>8, <1>9
(***************************************************************************)
(* Classification                                                          *)
(***************************************************************************)
\* The queue of a search that begins at several nodes.
QueueFrom(order, vias) == [i \in DOMAIN order |-> Entry(order[i], 0, vias[order[i]])]

\* Such a queue is the frontier of its nodes.
LEMMA QueueOfMany ==
  ASSUME NEW next \in Neighbours, NEW from \in SUBSET Nodes, NEW order \in SetToSeqs(from),
         NEW vias \in [from -> Via], NEW limit \in Nat, NEW maxd \in Nat,
         NEW q, q = QueueFrom(order, vias)
  PROVE  /\ q \in Seq(QueueEntries(Via))
         /\ Frontier(next, from, q, from, <<>>, FALSE, limit, maxd)
<1>1. /\ order \in Seq(from) /\ Len(order) \in Nat /\ DOMAIN order = 1 .. Len(order)
      /\ Range(order) = from
  BY NodesFinite, PermutationIs
<1>2. \A i \in 1 .. Len(order) : order[i] \in from
  BY <1>1
<1>3. \A i \in 1 .. Len(order) : Entry(order[i], 0, vias[order[i]]) \in QueueEntries(Via)
  BY <1>2, NodeCountIs DEF Entry, QueueEntries
<1>4. q \in Seq(QueueEntries(Via)) /\ Len(q) = Len(order)
      /\ \A i \in 1 .. Len(q) : q[i] = Entry(order[i], 0, vias[order[i]])
  BY <1>1, <1>3 DEF QueueFrom
<1>5. \A i \in 1 .. Len(q) : q[i].depth = 0 /\ q[i].node = order[i]
  <2>1. ASSUME NEW i \in 1 .. Len(q)
        PROVE  q[i].depth = 0 /\ q[i].node = order[i]
    <3>1. q[i] = Entry(order[i], 0, vias[order[i]])
      BY <1>4
    <3> QED
      BY <3>1 DEF Entry
  <2> QED
    BY <2>1
<1>6. \A n \in from : \E i \in 1 .. Len(q) : q[i].node = n
  BY <1>1, <1>4, <1>5 DEF Range
<1>7. \A i \in 1 .. Len(q) : q[i].depth = 0 /\ q[i].node \in from
  BY <1>2, <1>4, <1>5
<1>8. Frontier(next, from, q, from, <<>>, FALSE, limit, maxd)
  BY <1>4, <1>6, <1>7, FrontierStart
<1> QED
  BY <1>4, <1>6, <1>8

\* Every node it begins at is queued.
LEMMA QueueHolds ==
  ASSUME NEW from \in SUBSET Nodes, NEW order \in SetToSeqs(from), NEW vias, NEW n \in from
  PROVE  \E i \in 1 .. Len(QueueFrom(order, vias)) : QueueFrom(order, vias)[i].node = n
<1>1. DOMAIN order = 1 .. Len(order) /\ Len(order) \in Nat /\ Range(order) = from
  BY NodesFinite, PermutationIs
<1>2. PICK i \in 1 .. Len(order) : order[i] = n
  BY <1>1 DEF Range
<1>3. Len(QueueFrom(order, vias)) = Len(order)
  BY <1>1 DEF QueueFrom
<1>4. QueueFrom(order, vias)[i] = Entry(order[i], 0, vias[order[i]])
  BY <1>1, <1>2 DEF QueueFrom
<1>5. QueueFrom(order, vias)[i].node = n
  BY <1>2, <1>4 DEF Entry
<1> QED
  BY <1>2, <1>3, <1>5

\* What is safely dead stays so.
LEMMA SameDead ==
  ASSUME graph' = graph
  PROVE  \A n : SafelyDead(n)' <=> SafelyDead(n)
BY SameGraph DEF SafelyDead

\* A node is classified: only as unreachable if it is safely dead.
LEMMA ClassifiedKeeps ==
  ASSUME KnowledgeInv, pc \in {"classify", "known", "uncertain"},
         NEW kind, NEW why, NEW depth, NEW via, NEW truncated,
         Classified(kind, why, depth, via, truncated),
         UNCHANGED <<graph, call, queue, seen, bounded>>,
         kind = "Unreachable" => SafelyDead(node)
  PROVE  KnowledgeInv'
<1>1. /\ call.op \in {"reachability", "zombies"} /\ node \in Nodes /\ answer = Pending
      /\ call.op = "reachability" => node = call.start
      /\ call.op = "zombies" => \A i \in Range(items) : SafelyDead(i.node)
      /\ items \in Seq(FoundItems)
  BY DEF KnowledgeInv, CallInv, ClassifyInv, NegativesAreSafe
<1>2. CASE call.op = "reachability"
  <2>1. pc' = "done" /\ UNCHANGED <<node, items>> /\ answer'.kind = kind
    BY <1>2 DEF Classified, Pending
  <2>2. CallInv'
    BY <2>1, SameGraph DEF KnowledgeInv, CallInv
  <2>3. kind = "Unreachable" => SafelyDead(call.start)
    BY <1>1, <1>2
  <2>4. NegativesAreSafe'
    BY <1>2, <2>1, <2>3, SameGraph DEF NegativesAreSafe, SafelyDead
  <2>5. ClassifyInv'
    BY <2>1, <2>4 DEF ClassifyInv
  <2> QED
    BY <1>2, <2>1, <2>2, <2>5, OtherCalls DEF KnowledgeInv
<1>3. CASE call.op = "zombies"
  <2>1. \/ pc' = "classify" /\ node' \in Nodes /\ answer' = answer
        \/ pc' = "done" /\ node' = node
    <3>1. NextNode \/ (Return("Found", TRUE) /\ UNCHANGED node)
      BY <1>3 DEF Classified
    <3>2. CASE NextNode
      <4>1. node < NodeCount => node + 1 \in Nodes
        BY <1>1, NodeCountIs DEF Nodes
      <4> QED
        BY <3>2, <4>1 DEF NextNode, Return
    <3> QED
      BY <3>1, <3>2 DEF Return
  <2>2. \/ items' = items
        \/ kind = "Unreachable" /\ items' = items \o Found(<<node>>, NoNode, 0)
    BY <1>3 DEF Classified
  <2>3. items' \in Seq(FoundItems) /\ \A i \in Range(items') : SafelyDead(i.node)
    <3>1. CASE items' = items
      BY <1>1, <1>3, <3>1
    <3>2. CASE kind = "Unreachable" /\ items' = items \o Found(<<node>>, NoNode, 0)
      <4> DEFINE t == <<node>>
      <4>1. t \in Seq(Nodes) /\ Len(t) = 1 /\ t[1] = node
        BY <1>1
      <4> DEFINE z == 0
      <4>2. z \in 0 .. NodeCount /\ NoNode \in Nodes \cup {NoNode}
        BY NodeCountIs
      <4> HIDE DEF t, z
      <4>3. /\ items' \in Seq(FoundItems) /\ Len(items') = Len(items) + Len(t)
            /\ \A i \in 1 .. Len(items) : items'[i] = items[i]
            /\ \A i \in 1 .. Len(t) : items'[Len(items) + i] = [node |-> t[i], parent |-> NoNode, depth |-> 0]
        <5> DEFINE p == NoNode
        <5>3. items \in Seq(FoundItems) /\ t \in Seq(Nodes) /\ p \in Nodes \cup {NoNode} /\ z \in 0 .. NodeCount
          BY <1>1, <4>1, <4>2
        <5> HIDE DEF p
        <5>1. LET r == items \o Found(t, p, z) IN
                /\ r \in Seq(FoundItems)
                /\ Len(r) = Len(items) + Len(t)
                /\ \A i \in 1 .. Len(items) : r[i] = items[i]
                /\ \A i \in 1 .. Len(t) : r[Len(items) + i] = [node |-> t[i], parent |-> p, depth |-> z]
                /\ ItemNodes(r) = ItemNodes(items) \cup Range(t)
          BY <5>3, ItemsAfter
        <5>2. items' = items \o Found(t, p, z)
          BY <3>2 DEF t, z, p
        <5> QED
          BY <5>1, <5>2 DEF z, p
      <4>4. Len(items) \in Nat /\ DOMAIN items = 1 .. Len(items) /\ DOMAIN items' = 1 .. Len(items')
        BY <1>1, <4>3
      <4>5. ASSUME NEW i \in 1 .. Len(items')
            PROVE  SafelyDead(items'[i].node)
        <5>1. CASE i \in 1 .. Len(items)
          <6>1. items'[i] = items[i] /\ items[i] \in Range(items)
            BY <4>3, <4>4, <5>1 DEF Range
          <6> QED
            BY <1>1, <1>3, <6>1
        <5>2. CASE i \notin 1 .. Len(items)
          <6>1. i = Len(items) + 1 /\ 1 \in 1 .. Len(t)
            BY <4>1, <4>3, <4>4, <5>2
          <6>2. items'[i] = [node |-> t[1], parent |-> NoNode, depth |-> 0]
            BY <4>3, <6>1
          <6>3. items'[i].node = node
            BY <4>1, <6>2
          <6> QED
            BY <3>2, <6>3
        <5> QED
          BY <5>1, <5>2
      <4> QED
        BY <4>3, <4>4, <4>5 DEF Range
    <3> QED
      BY <2>2, <3>1, <3>2
  <2>4. CallInv'
    BY <1>1, <1>3, <2>1, <2>3, SameGraph DEF KnowledgeInv, CallInv
  <2>5. NegativesAreSafe'
    BY <1>3, <2>3, SameDead DEF NegativesAreSafe
  <2>6. ClassifyInv'
    BY <1>3, <2>1, <2>5 DEF ClassifyInv
  <2>7. pc' # "start"
    BY <2>1
  <2> QED
    BY <1>3, <2>4, <2>6, <2>7, OtherCalls DEF KnowledgeInv
<1> QED
  BY <1>1, <1>2, <1>3

\* One entry more of the search that classifies a node.
LEMMA AdvanceStep ==
  ASSUME graph \in Graphs, queue \in Seq(QueueEntries(Via)), queue # <<>>,
         bounded \in BOOLEAN, seen \in SUBSET Nodes, call.max_depth \in Nat,
         NEW from \in SUBSET Nodes,
         SearchesFrom(Forward, from, queue, seen, bounded, call.max_depth), Advance
  PROVE  /\ queue' \in Seq(QueueEntries(Via)) /\ bounded' \in BOOLEAN /\ seen' \in SUBSET Nodes
         /\ SearchesFrom(Forward, from, queue', seen', bounded', call.max_depth)
         /\ \A i \in 2 .. Len(queue) : \E j \in 1 .. Len(queue') : queue'[j] = queue[i]
         /\ \A n \in seen' \ seen :
              /\ queue[1].depth # call.max_depth /\ n \in KnownFrom(queue[1].node)
              /\ \E j \in 1 .. Len(queue') : queue'[j].node = n
<1> DEFINE n1 == queue[1].node
           new == Forward[n1] \ seen
           d == queue[1].depth
           via == queue[1].via
           maxd == call.max_depth
<1>1. queue[1] \in QueueEntries(Via) /\ Head(queue) = queue[1] /\ Len(queue) \in Nat /\ Len(queue) >= 1
  OBVIOUS
<1>2. n1 \in Nodes /\ d \in 0 .. NodeCount /\ via \in Via
  BY <1>1 DEF QueueEntries
<1>3. Forward \in Neighbours /\ Forward[n1] = KnownFrom(n1)
  BY <1>2, EdgesLead
<1>4. new \in SUBSET Nodes /\ IsFiniteSet(new)
  BY <1>2, <1>3, NodesFinite DEF Neighbours
<1>5. LET new2 == Forward[queue[1].node] \ seen IN
      /\ queue[1].depth = maxd => SearchesFrom(Forward, from, Tail(queue), seen, CutBy(bounded, new2), maxd)
      /\ \A order \in SetToSeqs(new2) :
           queue[1].depth # maxd => GoesOn(Forward, from, Via, queue, seen, order, bounded, maxd)
  <2>1. /\ Forward \in Neighbours /\ from \in SUBSET Nodes /\ queue \in Seq(QueueEntries(Via)) /\ queue # <<>>
        /\ bounded \in BOOLEAN /\ maxd \in Nat /\ SearchesFrom(Forward, from, queue, seen, bounded, maxd)
    BY <1>3
  <2> HIDE DEF maxd, n1, new, d, via
  <2> QED
    BY <2>1, SearchStep
<1>6. /\ d = maxd =>
           queue' = Tail(queue) /\ bounded' = (bounded \/ new # {}) /\ seen' = seen
      /\ d # maxd => \E order \in SetToSeqs(new) :
           /\ queue' = Tail(queue) \o Entries(order, d + 1, via)
           /\ seen' = seen \cup new /\ bounded' = bounded
  BY <1>1, <1>3 DEF Advance
<1>7. Len(Tail(queue)) = Len(queue) - 1 /\ Tail(queue) \in Seq(QueueEntries(Via))
      /\ \A i \in 1 .. Len(queue) - 1 : Tail(queue)[i] = queue[i + 1]
  OBVIOUS
<1>8. new \subseteq KnownFrom(n1)
  BY <1>3
<1> HIDE DEF n1, new, d, via, maxd
<1>9. CASE d = maxd
  <2>1. queue' = Tail(queue) /\ bounded' \in BOOLEAN /\ seen' = seen
        /\ SearchesFrom(Forward, from, queue', seen', bounded', maxd)
    BY <1>5, <1>6, <1>9 DEF CutBy, n1, new, d
  <2>2. ASSUME NEW i \in 2 .. Len(queue)
        PROVE  \E j \in 1 .. Len(queue') : queue'[j] = queue[i]
    <3>1. i - 1 \in 1 .. Len(queue) - 1 /\ (i - 1) + 1 = i
      BY <1>1
    <3> QED
      BY <1>7, <2>1, <3>1
  <2> QED
    BY <1>7, <2>1, <2>2 DEF maxd
<1>10. CASE d # maxd
  <2>1. PICK order \in SetToSeqs(new) :
           /\ queue' = Tail(queue) \o Entries(order, d + 1, via)
           /\ seen' = seen \cup new /\ bounded' = bounded
    BY <1>6, <1>10
  <2>2. queue' \in Seq(QueueEntries(Via)) /\ SearchesFrom(Forward, from, queue', seen', bounded', maxd)
    BY <1>5, <1>10, <2>1 DEF n1, new, d, via, GoesOn
  <2>3. order \in Seq(new) /\ DOMAIN order = 1 .. Len(order) /\ Range(order) = new /\ Len(order) \in Nat
    BY <1>4, PermutationIs
  <2>4. /\ Len(Entries(order, d + 1, via)) = Len(order)
        /\ \A j \in 1 .. Len(order) : Entries(order, d + 1, via)[j].node = order[j]
    BY <2>3 DEF Entries, Entry
  <2> DEFINE e == Entries(order, d + 1, via)
             h == Tail(queue)
  <2>5. e = [j \in 1 .. Len(order) |-> Entry(order[j], d + 1, via)]
    BY <2>3 DEF Entries
  <2> HIDE DEF e, h
  <2>6. /\ Len(queue') = Len(h) + Len(order)
        /\ \A j \in 1 .. Len(h) : queue'[j] = h[j]
        /\ \A j \in 1 .. Len(order) : queue'[Len(h) + j] = e[j]
    <3>1. e \in Seq(Range(e)) /\ h \in Seq(QueueEntries(Via)) /\ Len(e) = Len(order)
      BY <1>7, <2>3, <2>5 DEF h, Range
    <3>2. queue' = h \o e
      BY <2>1 DEF e, h
    <3> QED
      BY <3>1, <3>2
  <2>7. ASSUME NEW i \in 2 .. Len(queue)
        PROVE  \E j \in 1 .. Len(queue') : queue'[j] = queue[i]
    <3>1. i - 1 \in 1 .. Len(queue) - 1 /\ (i - 1) + 1 = i
      BY <1>1
    <3>2. i - 1 \in 1 .. Len(h) /\ h[i - 1] = queue[i] /\ i - 1 \in 1 .. Len(queue')
      BY <1>7, <2>3, <2>6, <3>1 DEF h
    <3> QED
      BY <2>6, <3>2
  <2>8. ASSUME NEW n \in new
        PROVE  \E j \in 1 .. Len(queue') : queue'[j].node = n
    <3>1. PICK k \in 1 .. Len(order) : order[k] = n
      BY <2>3 DEF Range
    <3>2. Len(h) + k \in 1 .. Len(queue') /\ queue'[Len(h) + k] = e[k] /\ e[k].node = n
      BY <1>1, <1>7, <2>3, <2>4, <2>6, <3>1 DEF e, h
    <3> QED
      BY <3>2
  <2> QED
    BY <1>4, <1>8, <1>10, <2>1, <2>2, <2>7, <2>8 DEF maxd, d, n1
<1> QED
  BY <1>9, <1>10

\* reachability and zombies begin with a node.
LEMMA StartClassifyKeeps ==
  ASSUME KnowledgeInv, StartClassify
  PROVE  KnowledgeInv'
<1>1. /\ pc = "start" /\ pc' = "classify" /\ call.op \in {"reachability", "zombies"}
      /\ UNCHANGED <<graph, call, queue, seen, bounded, items, answer>>
      /\ items = <<>> /\ answer = Pending
  BY DEF StartClassify, search, KnowledgeInv, CallInv
<1>2. node' \in Nodes /\ (call.op = "reachability" => node' = call.start)
  BY NodeCountIs DEF StartClassify, Nodes
<1>3. CallInv'
  BY <1>1, <1>2, SameGraph DEF KnowledgeInv, CallInv
<1>4. NegativesAreSafe'
  BY <1>1 DEF NegativesAreSafe, Pending, Range
<1>5. ClassifyInv'
  BY <1>1, <1>2, <1>4 DEF ClassifyInv
<1> QED
  BY <1>1, <1>3, <1>5, OtherCalls DEF KnowledgeInv

\* A node of partial coverage or of a role needs no search.
LEMMA ClassifyByFactsKeeps ==
  ASSUME KnowledgeInv, ClassifyByFacts
  PROVE  KnowledgeInv'
<1>1. pc = "classify" /\ UNCHANGED <<graph, call, queue, seen, bounded>>
  BY DEF ClassifyByFacts, search
<1>2. \A role \in DOMAIN ByRole : ByRole[role] # "Unreachable"
  BY DEF ByRole
<1>3. \/ Classified("Unknown", "PartialCoverage", 0, NoEdge, FALSE)
      \/ \E kind : kind # "Unreachable" /\ Classified(kind, "Role", 0, NoEdge, FALSE)
  BY <1>2 DEF ClassifyByFacts
<1> QED
  BY <1>1, <1>3, ClassifiedKeeps

\* What was said before still holds while the next node is searched for.
LEMMA StillSafe ==
  ASSUME graph' = graph, call' = call, items' = items, answer' = answer, NegativesAreSafe
  PROVE  NegativesAreSafe'
BY SameDead DEF NegativesAreSafe

\* known_distance_to begins at the entrypoints, and the node is none.
LEMMA StartKnownKeeps ==
  ASSUME KnowledgeInv, StartKnown
  PROVE  KnowledgeInv'
<1>1. /\ pc = "classify" /\ pc' = "known" /\ seen' = Entrypoints /\ bounded' = FALSE
      /\ UNCHANGED <<graph, call, node, items, answer>>
      /\ call.op \in {"reachability", "zombies"}
      /\ graph.role[node] \notin DOMAIN ByRole
  BY DEF StartKnown, KnowledgeInv, CallInv
<1>2. node \notin Entrypoints
  BY <1>1 DEF Entrypoints, ByRole
<1>3. PICK order \in SetToSeqs(Entrypoints) : queue' = Entries(order, 0, NoEdge)
  BY DEF StartKnown, Ascending
<1> DEFINE vias == [n \in Entrypoints |-> NoEdge]
           q == Entries(order, 0, NoEdge)
<1>4. Forward \in Neighbours /\ Entrypoints \in SUBSET Nodes /\ call.max_depth \in Nat /\ NodeCount \in Nat
  BY EdgesLead, EntrypointsAreNodes, CallFacts, NodeCountIs DEF KnowledgeInv, CallInv
<1>5. vias \in [Entrypoints -> Via] /\ IsFiniteSet(Entrypoints)
  BY <1>4, NodesFinite DEF Via
<1>6. q = QueueFrom(order, vias)
  <2>1. \A i \in DOMAIN order : order[i] \in Entrypoints
    BY <1>5, PermutationIs DEF Range
  <2> QED
    BY <2>1 DEF Entries, QueueFrom
<1> HIDE DEF vias, q
<1>7. /\ q \in Seq(QueueEntries(Via))
      /\ Frontier(Forward, Entrypoints, q, Entrypoints, <<>>, FALSE, NodeCount, call.max_depth)
  <2> DEFINE maxd == call.max_depth
             from == Entrypoints
             o == order
  <2>1. Forward \in Neighbours /\ from \in SUBSET Nodes /\ o \in SetToSeqs(from)
    BY <1>4
  <2>2. vias \in [from -> Via] /\ NodeCount \in Nat /\ maxd \in Nat
    BY <1>4, <1>5
  <2>3. q = QueueFrom(o, vias)
    BY <1>6
  <2> HIDE DEF maxd, from, o
  <2>4. q \in Seq(QueueEntries(Via)) /\ Frontier(Forward, from, q, from, <<>>, FALSE, NodeCount, maxd)
    BY <2>1, <2>2, <2>3, QueueOfMany
  <2> QED
    BY <2>4 DEF from, maxd
<1>8. queue' = q
  BY <1>3 DEF q
<1>9. SearchesFrom(Forward, Entrypoints, queue', seen', bounded', call.max_depth)
  BY <1>1, <1>7, <1>8 DEF SearchesFrom
<1>10. CallInv'
  BY <1>1, <1>4, <1>7, <1>8, SameGraph DEF KnowledgeInv, CallInv
<1>11. ClassifyInv'
  <2>1. node' \in Nodes /\ (call'.op = "reachability" => node' = call'.start) /\ NegativesAreSafe'
    BY <1>1, StillSafe DEF KnowledgeInv, ClassifyInv
  <2>2. node' \notin seen' /\ SearchesFrom(Forward, Entrypoints, queue, seen, bounded, call.max_depth)'
    BY <1>1, <1>2, <1>9, SameGraph
  <2> QED
    BY <1>1, <2>1, <2>2 DEF ClassifyInv
<1> QED
  BY <1>1, <1>10, <1>11, OtherCalls DEF KnowledgeInv

\* known_distance_to takes an entry: the node is reached, or was not seen.
LEMMA KnownVisitKeeps ==
  ASSUME KnowledgeInv, KnownVisit
  PROVE  KnowledgeInv'
<1>1. /\ pc = "known" /\ queue # <<>> /\ UNCHANGED <<graph, call>>
      /\ call.op \in {"reachability", "zombies"}
  BY DEF KnownVisit, KnowledgeInv, CallInv
<1>2. CASE Reaches(Head(queue))
  <2>1. Classified("Supporting", "KnownPath", Head(queue).depth + 1, NoEdge, FALSE) /\ UNCHANGED <<queue, seen, bounded>>
    BY <1>2 DEF KnownVisit, search
  <2> QED
    BY <1>1, <2>1, ClassifiedKeeps
<1>3. CASE ~ Reaches(Head(queue))
  <2>1. Advance /\ UNCHANGED <<pc, node, items, answer>>
    BY <1>3 DEF KnownVisit
  <2>2. /\ graph \in Graphs /\ queue \in Seq(QueueEntries(Via)) /\ bounded \in BOOLEAN /\ seen \in SUBSET Nodes
        /\ call.max_depth \in Nat /\ Entrypoints \in SUBSET Nodes
        /\ SearchesFrom(Forward, Entrypoints, queue, seen, bounded, call.max_depth)
    BY <1>1, CallFacts, EntrypointsAreNodes DEF KnowledgeInv, CallInv, ClassifyInv
  <2>3. /\ queue' \in Seq(QueueEntries(Via)) /\ bounded' \in BOOLEAN /\ seen' \in SUBSET Nodes
        /\ SearchesFrom(Forward, Entrypoints, queue', seen', bounded', call.max_depth)
        /\ \A n \in seen' \ seen : queue[1].depth # call.max_depth /\ n \in KnownFrom(queue[1].node)
    BY <1>1, <2>1, <2>2, AdvanceStep
  <2>4. node \notin seen /\ Head(queue) = queue[1]
    BY <1>1, <2>2 DEF KnowledgeInv, ClassifyInv
  <2>5. node' \notin seen'
    BY <1>3, <2>1, <2>3, <2>4 DEF Reaches
  <2>6. CallInv'
    BY <1>1, <2>1, <2>3, SameGraph DEF KnowledgeInv, CallInv
  <2>7. ClassifyInv'
    <3>1. node' \in Nodes /\ (call'.op = "reachability" => node' = call'.start) /\ NegativesAreSafe'
      BY <1>1, <2>1, StillSafe DEF KnowledgeInv, ClassifyInv
    <3>2. SearchesFrom(Forward, Entrypoints, queue, seen, bounded, call.max_depth)'
      BY <1>1, <2>3, SameGraph
    <3> QED
      BY <1>1, <2>1, <2>5, <3>1, <3>2 DEF ClassifyInv
  <2> QED
    BY <1>1, <2>1, <2>6, <2>7, OtherCalls DEF KnowledgeInv
<1> QED
  BY <1>2, <1>3

\* A search that was cut off says nothing is known.
LEMMA KnownBoundedKeeps ==
  ASSUME KnowledgeInv, KnownBounded
  PROVE  KnowledgeInv'
<1>1. /\ pc = "known" /\ UNCHANGED <<graph, call, queue, seen, bounded>>
      /\ Classified("Unknown", "DepthBound", 0, NoEdge, TRUE)
  BY DEF KnownBounded, search
<1> QED
  BY <1>1, ClassifiedKeeps

\* uncertain_path_to begins: what is known does not reach the node.
LEMMA StartUncertainKeeps ==
  ASSUME KnowledgeInv, StartUncertain
  PROVE  KnowledgeInv'
<1>1. /\ pc = "known" /\ pc' = "uncertain" /\ seen' = UncertainEnds /\ queue = <<>> /\ ~ bounded
      /\ UNCHANGED <<graph, call, node, bounded, items, answer>>
      /\ call.op \in {"reachability", "zombies"} /\ bounded = FALSE
  BY DEF StartUncertain, UncertainEnds, KnowledgeInv, CallInv
<1>2. PICK order \in SetToSeqs(UncertainEnds), vias \in [UncertainEnds -> UncertainEdges] :
        queue' = QueueFrom(order, vias)
  BY DEF StartUncertain, UncertainEnds, QueueFrom
<1>3. /\ Forward \in Neighbours /\ Entrypoints \in SUBSET Nodes /\ UncertainEnds \in SUBSET Nodes
      /\ call.max_depth \in Nat /\ NodeCount \in Nat
  BY EdgesLead, EntrypointsAreNodes, CallFacts, NodeCountIs DEF KnowledgeInv, CallInv
<1>4. node \notin Closure(Forward, Entrypoints)
  <2>1. PICK its : Frontier(Forward, Entrypoints, <<>>, seen, its, FALSE, NodeCount, call.max_depth)
    BY <1>1 DEF KnowledgeInv, ClassifyInv, SearchesFrom
  <2>2. seen = Closure(Forward, Entrypoints)
    BY <1>3, <2>1, FrontierEnds
  <2> QED
    BY <1>1, <2>2 DEF KnowledgeInv, ClassifyInv
<1>5. vias \in [UncertainEnds -> Via]
  BY DEF Via, UncertainEdges
<1>6. /\ queue' \in Seq(QueueEntries(Via))
      /\ Frontier(Forward, UncertainEnds, queue', UncertainEnds, <<>>, FALSE, NodeCount, call.max_depth)
      /\ \A n \in UncertainEnds : \E i \in 1 .. Len(queue') : queue'[i].node = n
  <2> DEFINE maxd == call.max_depth
             from == UncertainEnds
             o == order
             v == vias
             q == queue'
  <2>1. Forward \in Neighbours /\ from \in SUBSET Nodes /\ o \in SetToSeqs(from)
    BY <1>3
  <2>2. v \in [from -> Via] /\ NodeCount \in Nat /\ maxd \in Nat
    BY <1>3, <1>5
  <2>3. q = QueueFrom(o, v)
    BY <1>2
  <2> HIDE DEF maxd, from, o, v, q
  <2>4. q \in Seq(QueueEntries(Via)) /\ Frontier(Forward, from, q, from, <<>>, FALSE, NodeCount, maxd)
    BY <2>1, <2>2, <2>3, QueueOfMany
  <2>5. \A n \in from : \E i \in 1 .. Len(q) : q[i].node = n
    BY <2>1, <2>3, QueueHolds
  <2> QED
    BY <2>4, <2>5 DEF from, maxd, q
<1>7. SearchesFrom(Forward, UncertainEnds, queue', seen', bounded', call.max_depth)
  BY <1>1, <1>6 DEF SearchesFrom
<1>8. CallInv'
  BY <1>1, <1>3, <1>6, SameGraph DEF KnowledgeInv, CallInv
<1>9. ClassifyInv'
  <2>1. node' \in Nodes /\ (call'.op = "reachability" => node' = call'.start) /\ NegativesAreSafe'
    BY <1>1, StillSafe DEF KnowledgeInv, ClassifyInv
  <2>2. /\ (node \notin Closure(Forward, Entrypoints))'
        /\ node' \in seen' => \E i \in 1 .. Len(queue') : queue'[i].node = node'
        /\ SearchesFrom(Forward, UncertainEnds, queue, seen, bounded, call.max_depth)'
    BY <1>1, <1>4, <1>6, <1>7, SameGraph
  <2> QED
    BY <1>1, <2>1, <2>2 DEF ClassifyInv
<1> QED
  BY <1>1, <1>8, <1>9, OtherCalls DEF KnowledgeInv

\* uncertain_path_to takes an entry, the node itself only while it is queued.
LEMMA UncertainVisitKeeps ==
  ASSUME KnowledgeInv, UncertainVisit
  PROVE  KnowledgeInv'
<1>1. /\ pc = "uncertain" /\ queue # <<>> /\ UNCHANGED <<graph, call>>
      /\ call.op \in {"reachability", "zombies"}
  BY DEF UncertainVisit, KnowledgeInv, CallInv
<1>2. CASE Head(queue).node = node
  <2>1. Classified("Unknown", "Uncertain", 0, Head(queue).via, bounded) /\ UNCHANGED <<queue, seen, bounded>>
    BY <1>2 DEF UncertainVisit, search
  <2> QED
    BY <1>1, <2>1, ClassifiedKeeps
<1>3. CASE Head(queue).node # node
  <2>1. Advance /\ UNCHANGED <<pc, node, items, answer>>
    BY <1>3 DEF UncertainVisit
  <2>2. /\ graph \in Graphs /\ queue \in Seq(QueueEntries(Via)) /\ bounded \in BOOLEAN /\ seen \in SUBSET Nodes
        /\ call.max_depth \in Nat /\ UncertainEnds \in SUBSET Nodes
        /\ SearchesFrom(Forward, UncertainEnds, queue, seen, bounded, call.max_depth)
    BY <1>1, CallFacts, EntrypointsAreNodes DEF KnowledgeInv, CallInv, ClassifyInv
  <2>3. /\ queue' \in Seq(QueueEntries(Via)) /\ bounded' \in BOOLEAN /\ seen' \in SUBSET Nodes
        /\ SearchesFrom(Forward, UncertainEnds, queue', seen', bounded', call.max_depth)
        /\ \A i \in 2 .. Len(queue) : \E j \in 1 .. Len(queue') : queue'[j] = queue[i]
        /\ \A n \in seen' \ seen : \E j \in 1 .. Len(queue') : queue'[j].node = n
    BY <1>1, <2>1, <2>2, AdvanceStep
  <2>4. node \in seen' => \E j \in 1 .. Len(queue') : queue'[j].node = node
    <3>1. CASE node \in seen
      <4>1. PICK i \in 1 .. Len(queue) : queue[i].node = node
        BY <1>1, <3>1 DEF KnowledgeInv, ClassifyInv
      <4>2. i \in 2 .. Len(queue)
        BY <1>3, <2>2, <4>1
      <4> QED
        BY <2>3, <4>1, <4>2
    <3> QED
      BY <2>3, <3>1
  <2>6. CallInv'
    BY <1>1, <2>1, <2>3, SameGraph DEF KnowledgeInv, CallInv
  <2>7. ClassifyInv'
    <3>1. node' \in Nodes /\ (call'.op = "reachability" => node' = call'.start) /\ NegativesAreSafe'
      BY <1>1, <2>1, StillSafe DEF KnowledgeInv, ClassifyInv
    <3>2. /\ SearchesFrom(Forward, UncertainEnds, queue, seen, bounded, call.max_depth)'
          /\ (node \notin Closure(Forward, Entrypoints))'
      BY <1>1, <2>1, <2>3, SameGraph DEF KnowledgeInv, ClassifyInv
    <3> QED
      BY <1>1, <2>1, <2>4, <3>1, <3>2 DEF ClassifyInv
  <2> QED
    BY <1>1, <2>1, <2>6, <2>7, OtherCalls DEF KnowledgeInv
<1> QED
  BY <1>2, <1>3

\* What neither search has seen is safely dead: what an uncertain edge leads to
\* is one of its ends.
LEMMA UnseenIsDead ==
  ASSUME graph \in Graphs, NEW n, n \notin Closure(Forward, Entrypoints), n \notin Closure(Forward, UncertainEnds)
  PROVE  SafelyDead(n)
<1> DEFINE active == Closure(Forward, Entrypoints)
           tainted == Closure(Forward, UncertainEnds)
<1>1. /\ Forward \in Neighbours /\ AnyForward \in Neighbours /\ \A m \in Nodes : Forward[m] = KnownFrom(m)
      /\ Entrypoints \in SUBSET Nodes /\ UncertainEnds \in SUBSET Nodes
  BY EdgesLead DEF Entrypoints, UncertainEnds, Tainted
<1>2. /\ active \in SUBSET Nodes /\ Entrypoints \subseteq active
      /\ \A m \in active : Forward[m] \subseteq active
      /\ tainted \in SUBSET Nodes /\ UncertainEnds \subseteq tainted
      /\ \A m \in tainted : Forward[m] \subseteq tainted
  <2>1. Forward \in Neighbours /\ Entrypoints \in SUBSET Nodes /\ UncertainEnds \in SUBSET Nodes
    BY <1>1
  <2>2. /\ active \in SUBSET Nodes /\ Entrypoints \subseteq active
        /\ \A m \in active : Forward[m] \subseteq active
    BY <2>1, ClosureIsClosed
  <2>3. /\ tainted \in SUBSET Nodes /\ UncertainEnds \subseteq tainted
        /\ \A m \in tainted : Forward[m] \subseteq tainted
    BY <2>1, ClosureIsClosed
  <2> QED
    BY <2>2, <2>3
<1> HIDE DEF active, tainted
<1>3. ASSUME NEW m \in (active \cup tainted) \cap Nodes
      PROVE  AnyForward[m] \subseteq active \cup tainted
  <2>1. SUFFICES ASSUME NEW e \in graph.edges, e.source = m, e.target \in Nodes
                 PROVE  e.target \in active \cup tainted
    BY DEF AnyForward
  <2>2. CASE e.certainty = "Known"
    <3>1. e.target \in Forward[m]
      BY <1>1, <2>1, <2>2 DEF KnownFrom, KnownEdges
    <3> QED
      BY <1>2, <1>3, <3>1
  <2>3. CASE e.certainty # "Known"
    BY <1>2, <2>1, <2>3 DEF UncertainEnds, UncertainEdges, Tainted
  <2> QED
    BY <2>2, <2>3
<1>4. Closure(AnyForward, Entrypoints) \subseteq active \cup tainted
  <2> DEFINE S == active \cup tainted
  <2>1. /\ AnyForward \in Neighbours /\ Entrypoints \in SUBSET Nodes
        /\ Entrypoints \subseteq S /\ \A m \in S \cap Nodes : AnyForward[m] \subseteq S
    BY <1>1, <1>2, <1>3
  <2> HIDE DEF S
  <2>2. Closure(AnyForward, Entrypoints) \subseteq S
    BY <2>1, ClosureIsLeast
  <2> QED
    BY <2>2 DEF S
<1> QED
  BY <1>4 DEF active, tainted, SafelyDead, UncertainEnds, Tainted

\* Both searches ended without the node: it is unreachable unless a bound cut
\* something off.
LEMMA UncertainDoneKeeps ==
  ASSUME KnowledgeInv, UncertainDone
  PROVE  KnowledgeInv'
<1>1. /\ pc = "uncertain" /\ queue = <<>> /\ UNCHANGED <<graph, call, queue, seen, bounded>>
      /\ call.op \in {"reachability", "zombies"} /\ bounded \in BOOLEAN
  BY DEF UncertainDone, search, KnowledgeInv, CallInv
<1>2. CASE Classified("Unknown", "DepthBound", 0, NoEdge, TRUE)
  BY <1>1, <1>2, ClassifiedKeeps
<1>3. CASE bounded = FALSE /\ Classified("Unreachable", "NoKnownPath", 0, NoEdge, FALSE)
  <2>1. Forward \in Neighbours /\ UncertainEnds \in SUBSET Nodes /\ call.max_depth \in Nat /\ NodeCount \in Nat
    BY EdgesLead, EntrypointsAreNodes, CallFacts, NodeCountIs DEF KnowledgeInv, CallInv
  <2>2. PICK its : Frontier(Forward, UncertainEnds, <<>>, seen, its, FALSE, NodeCount, call.max_depth)
    BY <1>1, <1>3 DEF KnowledgeInv, ClassifyInv, SearchesFrom
  <2>3. seen = Closure(Forward, UncertainEnds)
    BY <2>1, <2>2, FrontierEnds
  <2>4. node \notin seen /\ node \notin Closure(Forward, Entrypoints) /\ graph \in Graphs
    BY <1>1 DEF KnowledgeInv, CallInv, ClassifyInv
  <2>5. SafelyDead(node)
    BY <2>3, <2>4, UnseenIsDead
  <2> QED
    BY <1>1, <1>3, <2>5, ClassifiedKeeps
<1> QED
  BY <1>1, <1>2, <1>3 DEF UncertainDone

(***************************************************************************)
(* What is packed                                                          *)
(***************************************************************************)
LEMMA CandidatesAre ==
  ASSUME CallInv, view \in [items : Seq(Nodes), truncated : BOOLEAN]
  PROVE  /\ Candidates = Range(view.items) \cup ItemNodes(items)
         /\ Candidates \in SUBSET Nodes /\ Range(view.items) \in SUBSET Nodes
         /\ IsFiniteSet(Candidates)
<1>1. items \in Seq(FoundItems) /\ DOMAIN items = 1 .. Len(items)
  BY DEF CallInv
<1>2. \A i \in 1 .. Len(items) : items[i] \in FoundItems
  BY <1>1
<1>3. \A i \in 1 .. Len(items) : items[i].node \in Nodes
  BY <1>2 DEF FoundItems
<1>4. {i.node : i \in Range(items)} = ItemNodes(items)
  BY <1>1 DEF ItemNodes, Range
<1>5. Range(view.items) \in SUBSET Nodes
  <2>1. view.items \in Seq(Nodes)
    OBVIOUS
  <2> QED
    BY <2>1 DEF Range
<1>6. Candidates = Range(view.items) \cup ItemNodes(items)
  BY <1>4 DEF Candidates
<1>7. ItemNodes(items) \in SUBSET Nodes
  BY <1>3 DEF ItemNodes
<1>8. Candidates \in SUBSET Nodes
  BY <1>5, <1>6, <1>7
<1> QED
  BY <1>5, <1>6, <1>8, NodesFinite

\* the bytes of the evidence of the nodes of S, one by one
Places(S) == UNION {{n} \X (1 .. evidence[n].bytes) : n \in S}

\* Places can be counted.
LEMMA BytesFinite ==
  ASSUME NEW C, evidence \in [C -> Evidence], NEW S \in SUBSET C, IsFiniteSet(S)
  PROVE  IsFiniteSet(Places(S)) /\ BytesOf(S) = Cardinality(Places(S)) /\ BytesOf(S) \in Nat
<1> DEFINE f == [n \in S |-> {n} \X (1 .. evidence[n].bytes)]
           T == {f[n] : n \in S}
<1>1. IsFiniteSet(T)
  <2>1. f \in Surjection(S, T)
    BY DEF Surjection
  <2> HIDE DEF f, T
  <2> QED
    BY <2>1, FS_Surjection DEF ExistsSurjection
<1>2. \A n \in S : IsFiniteSet(f[n])
  <2>1. ASSUME NEW n \in S
        PROVE  IsFiniteSet({n} \X (1 .. evidence[n].bytes))
    <3>1. evidence[n].bytes \in Nat
      BY PacketAssumption
    <3>2. IsFiniteSet({n}) /\ IsFiniteSet(1 .. evidence[n].bytes)
      BY <3>1, FS_Singleton, UpTo
    <3> QED
      BY <3>2, FS_Product
  <2> QED
    BY <2>1
<1>3. UNION T = Places(S)
  BY DEF Places
<1>4. IsFiniteSet(UNION T)
  <2>1. \A t \in T : IsFiniteSet(t)
    BY <1>2
  <2> HIDE DEF T
  <2> QED
    BY <1>1, <2>1, FS_UNION
<1>5. BytesOf(S) = Cardinality(Places(S))
  BY DEF Places, BytesOf
<1> QED
  BY <1>3, <1>4, <1>5, FS_CardinalityType

\* One node more costs its bytes, and more nodes cost no less.
LEMMA BytesAdd ==
  ASSUME NEW C, evidence \in [C -> Evidence], NEW S \in SUBSET C, IsFiniteSet(S),
         NEW n \in C \ S
  PROVE  BytesOf(S \cup {n}) = BytesOf(S) + evidence[n].bytes
<1> DEFINE size == evidence[n].bytes
           one == {n} \X (1 .. size)
<1>1. size \in Nat
  BY PacketAssumption
<1>2. IsFiniteSet(Places(S)) /\ BytesOf(S) = Cardinality(Places(S)) /\ BytesOf(S) \in Nat
  BY BytesFinite
<1>3. Places(S \cup {n}) = Places(S) \cup one /\ Places(S) \cap one = {}
  BY DEF Places
<1>4. BytesOf(S \cup {n}) = Cardinality(Places(S \cup {n}))
  BY DEF Places, BytesOf
<1> HIDE DEF size
<1>5. IsFiniteSet(one) /\ Cardinality(one) = size
  <2>1. IsFiniteSet({n}) /\ Cardinality({n}) = 1 /\ IsFiniteSet(1 .. size) /\ Cardinality(1 .. size) = size
    BY <1>1, FS_Singleton, UpTo
  <2>2. IsFiniteSet(one) /\ Cardinality(one) = Cardinality({n}) * Cardinality(1 .. size)
    BY <2>1, FS_Product
  <2> QED
    BY <1>1, <2>1, <2>2
<1> HIDE DEF one
<1>6. Cardinality(Places(S) \cup one) = Cardinality(Places(S)) + Cardinality(one) - Cardinality({})
  BY <1>2, <1>3, <1>5, FS_Union
<1>7. Cardinality({}) = 0
  BY FS_EmptySet
<1>8. Cardinality(Places(S) \cup one) = BytesOf(S) + size
  BY <1>1, <1>2, <1>5, <1>6, <1>7
<1>9. BytesOf(S \cup {n}) = BytesOf(S) + size
  BY <1>3, <1>4, <1>8
<1> QED
  BY <1>9 DEF size

\* More nodes have no fewer bytes.
LEMMA BytesMore ==
  ASSUME NEW C, evidence \in [C -> Evidence], NEW R \in SUBSET C, IsFiniteSet(R),
         NEW S \in SUBSET R
  PROVE  BytesOf(S) <= BytesOf(R)
<1>1. IsFiniteSet(S)
  BY FS_Subset
<1>2. IsFiniteSet(Places(R)) /\ BytesOf(R) = Cardinality(Places(R)) /\ BytesOf(S) = Cardinality(Places(S))
  BY <1>1, BytesFinite
<1>3. Places(S) \in SUBSET Places(R)
  BY DEF Places
<1> QED
  BY <1>2, <1>3, FS_Subset

\* What fits still fits if there is less of it.
LEMMA FitsLess ==
  ASSUME CallInv, call.op = "packet", NEW c \in Nat, NEW c2 \in Nat, c <= c2,
         NEW b \in Nat, NEW b2 \in Nat, b <= b2, Fits(c2, b2)
  PROVE  Fits(c, b)
<1>1. /\ EffectiveItems \in Nat /\ EffectiveBytes \in Nat
      /\ call.max_tokens # NoCeiling => call.max_tokens \in Nat
  <2>1. items \in Seq(FoundItems)
    BY DEF CallInv
  <2>2. Len(items) \in Nat
    BY <2>1
  <2>3. /\ call.view_items \in Nat /\ call.view_bytes \in Nat /\ call.max_items \in Nat
        /\ call.max_bytes \in Nat /\ call.max_tokens \in Nat \cup {NoCeiling}
    BY CallFacts
  <2> QED
    BY <2>2, <2>3 DEF EffectiveItems, EffectiveBytes, Lesser
<1>2. EstimateTokens(b) \in Nat /\ EstimateTokens(b2) \in Nat /\ EstimateTokens(b) <= EstimateTokens(b2)
  BY DEF EstimateTokens
<1> QED
  BY <1>1, <1>2 DEF Fits

\* The view's nodes are where the dependency closure begins.
LEMMA CompileViewKeeps ==
  ASSUME KnowledgeInv, CompileView
  PROVE  KnowledgeInv'
<1>1. /\ pc = "start" /\ pc' = "closure" /\ call.op = "packet" /\ items = <<>> /\ bounded = FALSE
      /\ UNCHANGED <<graph, call, node, bounded, items, answer, evidence, waiting, selected, omitted, raw_bytes>>
      /\ answer = Pending /\ bounded \in BOOLEAN
  BY DEF CompileView, KnowledgeInv, CallInv
<1>2. PICK candidates \in SetToSeqs(call.wanted) :
        \E chosen \in Prefixes(candidates) :
          /\ view' = [items |-> chosen, truncated |-> chosen # candidates]
          /\ \E order \in SetToSeqs(Range(chosen)) : queue' = Entries(order, 0, NoEdge)
          /\ seen' = Range(chosen)
  BY DEF CompileView, Ascending
<1>3. PICK chosen \in Prefixes(candidates) :
          /\ view' = [items |-> chosen, truncated |-> chosen # candidates]
          /\ \E order \in SetToSeqs(Range(chosen)) : queue' = Entries(order, 0, NoEdge)
          /\ seen' = Range(chosen)
  BY <1>2
<1>4. PICK order \in SetToSeqs(Range(chosen)) : queue' = Entries(order, 0, NoEdge)
  BY <1>3
<1>5. call.wanted \in SUBSET Nodes /\ call.max_nodes \in Nat /\ call.max_depth \in Nat
  BY <1>1, CallFacts DEF KnowledgeInv
<1>6. candidates \in Seq(call.wanted) /\ Range(candidates) = call.wanted /\ Len(candidates) \in Nat
  BY <1>5, NodesFinite, PermutationIs
<1>7. chosen \in Seq(Nodes) /\ Range(chosen) \in SUBSET Nodes
  <2>1. PICK l \in 0 .. Len(candidates) : chosen = SubSeq(candidates, 1, l)
    BY <1>3 DEF Prefixes
  <2>2. candidates \in Seq(Nodes)
    BY <1>5, <1>6
  <2>3. chosen \in Seq(Nodes)
    BY <1>6, <2>1, <2>2
  <2> QED
    BY <2>3 DEF Range
<1>8. /\ view' \in [items : Seq(Nodes), truncated : BOOLEAN]
      /\ ~ view'.truncated => Range(view'.items) = call.wanted
      /\ view'.items = chosen
  BY <1>3, <1>6, <1>7
<1> DEFINE from == Range(chosen)
           vias == [n \in from |-> NoEdge]
<1>9. PositiveForward \in Neighbours /\ vias \in [from -> Via] /\ from \in SUBSET Nodes
  BY <1>7, EdgesLead DEF Via, KnowledgeInv, CallInv
<1>10. queue' = QueueFrom(order, vias)
  <2>1. \A i \in DOMAIN order : order[i] \in from
    BY <1>9, NodesFinite, PermutationIs DEF Range
  <2> QED
    BY <1>4, <2>1 DEF Entries, QueueFrom
<1>11. /\ queue' \in Seq(QueueEntries(Via))
       /\ Frontier(PositiveForward, from, queue', from, <<>>, FALSE, call.max_nodes, call.max_depth)
  <2> DEFINE maxd == call.max_depth
             limit == call.max_nodes
             o == order
             q == queue'
             v == vias
  <2> HIDE DEF from, vias
  <2>1. PositiveForward \in Neighbours /\ from \in SUBSET Nodes
    BY <1>9
  <2>2. o \in SetToSeqs(from)
    BY <1>4 DEF from
  <2>3. v \in [from -> Via] /\ limit \in Nat /\ maxd \in Nat /\ q = QueueFrom(o, v)
    BY <1>5, <1>9, <1>10
  <2> HIDE DEF maxd, limit, o, q, v
  <2>4. q \in Seq(QueueEntries(Via)) /\ Frontier(PositiveForward, from, q, from, <<>>, FALSE, limit, maxd)
    BY <2>1, <2>2, <2>3, QueueOfMany
  <2> QED
    BY <2>4 DEF maxd, limit, q
<1> HIDE DEF vias
<1>12. CallInv'
  BY <1>1, <1>3, <1>9, <1>11, SameGraph DEF KnowledgeInv, CallInv
<1>13. Frontier(PositiveForward, Range(view'.items), queue', seen', items', bounded',
                call.max_nodes, call.max_depth)
  BY <1>1, <1>3, <1>8, <1>11
<1>14. PacketInv'
  <2>1. selected = <<>> /\ omitted = <<>> /\ raw_bytes = 0
    BY <1>1 DEF KnowledgeInv, PacketInv
  <2>2. Frontier(PositiveForward, Range(view.items), queue, seen, items, bounded,
                     call.max_nodes, call.max_depth)'
    BY <1>1, <1>13, SameGraph
  <2> QED
    BY <1>1, <1>8, <2>1, <2>2 DEF PacketInv, Pending
<1> QED
  BY <1>1, <1>12, <1>14, OtherCalls DEF KnowledgeInv

\* dependency_closure takes an entry.
LEMMA ClosureVisitKeeps ==
  ASSUME KnowledgeInv, ClosureVisit
  PROVE  KnowledgeInv'
<1> DEFINE n == queue[1].node
           from == Range(view.items)
<1>1. /\ pc = "closure" /\ queue # <<>> /\ call.op = "packet" /\ answer = Pending
      /\ UNCHANGED <<graph, call, pc, node, answer, view, evidence, waiting, selected, omitted, raw_bytes>>
      /\ queue \in Seq(QueueEntries(Via)) /\ Head(queue) = queue[1] /\ n \in Nodes /\ bounded \in BOOLEAN
  <2>1. queue[1] \in QueueEntries(Via)
    BY DEF ClosureVisit, KnowledgeInv, CallInv
  <2>2. n \in Nodes
    BY <2>1 DEF QueueEntries
  <2> QED
    BY <2>2 DEF ClosureVisit, packetVars, KnowledgeInv, CallInv
<1>2. /\ PositiveForward \in Neighbours /\ PositiveForward[n] = PositiveFrom(n)
      /\ call.max_depth \in Nat /\ call.max_nodes \in Nat
  BY <1>1, EdgesLead, CallFacts DEF KnowledgeInv, CallInv
<1>3. /\ view \in [items : Seq(Nodes), truncated : BOOLEAN]
      /\ ~ view.truncated => Range(view.items) = call.wanted
      /\ Frontier(PositiveForward, from, queue, seen, items, bounded, call.max_nodes, call.max_depth)
      /\ selected = <<>> /\ omitted = <<>> /\ raw_bytes = 0
  BY <1>1 DEF KnowledgeInv, PacketInv
<1>4. from \in SUBSET Nodes
  <2>1. view.items \in Seq(Nodes)
    BY <1>3
  <2> QED
    BY <2>1 DEF Range
<1>5. PICK order \in SetToSeqs(PositiveForward[n] \ seen) :
        LET taken == StepTaken(queue, items, order, call.max_nodes, call.max_depth) IN
        /\ items' = StepItems(queue, items, taken)
        /\ seen' = seen \cup Range(taken)
        /\ queue' = StepQueue(queue, taken, NoEdge)
        /\ bounded' = StepCut(bounded, taken, order)
  BY <1>1, <1>2 DEF ClosureVisit, ClosureRoom, StepTaken, StepItems, StepQueue, StepCut
<1> DEFINE taken == StepTaken(queue, items, order, call.max_nodes, call.max_depth)
<1> HIDE DEF from
<1>6. /\ queue' \in Seq(QueueEntries(Via))
      /\ Frontier(PositiveForward, from, queue', seen', items', StepCut(bounded, taken, order),
                  call.max_nodes, call.max_depth)
  <2>1. NoEdge \in Via
    BY DEF Via
  <2> DEFINE limit == call.max_nodes
             maxd == call.max_depth
             next == PositiveForward
  <2>2. /\ next \in Neighbours /\ from \in SUBSET Nodes /\ NoEdge \in Via
        /\ queue \in Seq(QueueEntries(Via)) /\ queue # <<>> /\ bounded \in BOOLEAN
        /\ limit \in Nat /\ maxd \in Nat
        /\ Frontier(next, from, queue, seen, items, bounded, limit, maxd)
        /\ order \in SetToSeqs(next[queue[1].node] \ seen)
    BY <1>1, <1>2, <1>3, <1>4, <2>1
  <2> HIDE DEF limit, maxd, next
  <2>3. LET t == StepTaken(queue, items, order, limit, maxd) IN
        /\ StepQueue(queue, t, NoEdge) \in Seq(QueueEntries(Via))
        /\ Frontier(next, from, StepQueue(queue, t, NoEdge), seen \cup Range(t), StepItems(queue, items, t),
                     StepCut(bounded, t, order), limit, maxd)
    BY <2>2, FrontierStep, ZenonT(60)
  <2> QED
    BY <1>5, <2>3 DEF limit, maxd, next
<1>7. bounded' = StepCut(bounded, taken, order)
  BY <1>5
<1> HIDE DEF taken
<1>8. seen' \in SUBSET Nodes /\ items' \in Seq(FoundItems) /\ bounded' \in BOOLEAN
  BY <1>6, <1>7 DEF Frontier, StepCut
<1>9. CallInv'
  BY <1>1, <1>6, <1>8, SameGraph DEF KnowledgeInv, CallInv
<1>10. Frontier(PositiveForward, Range(view.items), queue, seen, items, bounded,
                     call.max_nodes, call.max_depth)'
  BY <1>1, <1>6, <1>7, SameGraph DEF from
<1>11. PacketInv'
  BY <1>1, <1>3, <1>10 DEF PacketInv, Pending
<1> QED
  BY <1>1, <1>9, <1>11, OtherCalls DEF KnowledgeInv

\* Evidence that is not what evidence_ids named is refused.
LEMMA WrongEvidenceKeeps ==
  ASSUME KnowledgeInv, WrongEvidence
  PROVE  KnowledgeInv'
<1>1. /\ pc = "closure" /\ pc' = "done" /\ queue = <<>> /\ call.op = "packet"
      /\ UNCHANGED <<graph, call, node, queue, seen, bounded, items>>
      /\ UNCHANGED <<view, evidence, waiting, selected, omitted, raw_bytes>>
      /\ answer'.kind \in {"DuplicateSelectedEvidence", "MissingSelectedEvidence", "UnrelatedEvidence"}
  BY DEF WrongEvidence, Return, Pending, search, packetVars, KnowledgeInv, CallInv
<1>2. CallInv'
  BY <1>1, SameGraph DEF KnowledgeInv, CallInv
<1>3. PacketInv'
  BY <1>1, SameGraph DEF KnowledgeInv, PacketInv
<1> QED
  BY <1>1, <1>2, <1>3, OtherCalls DEF KnowledgeInv

\* The candidates are sorted: required ones first.
LEMMA IndexEvidenceKeeps ==
  ASSUME KnowledgeInv, IndexEvidence
  PROVE  KnowledgeInv'
<1>1. /\ pc = "closure" /\ queue = <<>> /\ call.op = "packet" /\ answer = Pending
      /\ UNCHANGED <<graph, call, node, queue, seen, bounded, items, view, selected, omitted, raw_bytes>>
  BY DEF IndexEvidence, search, KnowledgeInv, CallInv
<1>2. /\ view \in [items : Seq(Nodes), truncated : BOOLEAN]
      /\ ~ view.truncated => Range(view.items) = call.wanted
      /\ Frontier(PositiveForward, Range(view.items), queue, seen, items, bounded,
                  call.max_nodes, call.max_depth)
      /\ selected = <<>> /\ omitted = <<>> /\ raw_bytes = 0
  BY <1>1 DEF KnowledgeInv, PacketInv
<1>3. PICK ev \in [Candidates -> Evidence] :
        /\ evidence' = ev
        /\ \/ /\ AnchorError(ev) # "none" /\ pc' = "done"
              /\ answer'.kind = AnchorError(ev)
           \/ pc' = "select" /\ answer' = answer /\ \E order \in InOrder(ev) : waiting' = order
  BY DEF IndexEvidence, Return, Pending
<1>4. Candidates \in SUBSET Nodes /\ IsFiniteSet(Candidates) /\ Candidates' = Candidates
  BY <1>1, <1>2, CandidatesAre DEF KnowledgeInv, Candidates
<1>5. Frontier(PositiveForward, Range(view.items), queue, seen, items, bounded,
                     call.max_nodes, call.max_depth)'
  BY <1>1, <1>2, SameGraph
<1>6. CASE AnchorError(ev) # "none" /\ pc' = "done" /\ answer'.kind = AnchorError(ev)
  <2>1. answer'.kind \in {"RequiredEvidenceMissingPreservationAnchors", "PreservationAnchorNotInEvidence"}
    BY <1>6 DEF AnchorError
  <2>2. CallInv'
    BY <1>1, <1>6, SameGraph DEF KnowledgeInv, CallInv
  <2>3. PacketInv'
    BY <1>1, <1>2, <1>5, <1>6, <2>1 DEF PacketInv
  <2> QED
    BY <1>1, <1>6, <2>2, <2>3, OtherCalls DEF KnowledgeInv
<1>7. CASE pc' = "select" /\ answer' = answer /\ \E order \in InOrder(ev) : waiting' = order
  <2>1. PICK order \in InOrder(ev) : waiting' = order
    BY <1>7
  <2>2. /\ order \in SetToSeqs(Candidates)
        /\ \A i, j \in DOMAIN order : i < j => Precedes(ev, order[i], order[j])
    BY <2>1 DEF InOrder
  <2>3. /\ order \in Seq(Candidates) /\ Range(order) = Candidates /\ DOMAIN order = 1 .. Len(order)
        /\ \A i, j \in DOMAIN order : order[i] = order[j] => i = j
        /\ Len(order) \in Nat
    BY <1>4, <2>2, PermutationIs
  <2>4. \A n \in Candidates : ev[n].priority \in Nat
    BY PacketAssumption
  <2>5. ASSUME NEW i \in 1 .. Len(order), NEW j \in 1 .. Len(order), i < j
        PROVE  order[i] # order[j] /\ ev[order[i]].priority <= ev[order[j]].priority
    <3>1. order[i] \in Candidates /\ order[j] \in Candidates /\ Precedes(ev, order[i], order[j])
      BY <2>2, <2>3, <2>5
    <3>2. ev[order[i]].priority <= ev[order[j]].priority
      BY <2>4, <3>1 DEF Precedes
    <3>3. order[i] # order[j]
      BY <2>3, <2>5
    <3> QED
      BY <3>2, <3>3
  <2>6. Range(selected') = {} /\ Range(omitted') = {}
    BY <1>1, <1>2 DEF Range
  <2>7. raw_bytes' = BytesOf(Range(selected))'
    BY <1>1, <1>2, <2>6, FS_EmptySet DEF BytesOf
  <2>8. SelectionInv'
    <3>1. selected' = <<>> /\ omitted' = <<>> /\ evidence' = ev /\ waiting' = order
      BY <1>1, <1>2, <1>3, <2>1
    <3>2. Cardinality(Range(selected')) = Len(selected') /\ Cardinality(Range(omitted')) = Len(omitted')
      BY <2>6, <3>1, FS_EmptySet
    <3> QED
      BY <1>4, <2>3, <2>5, <2>6, <2>7, <3>1, <3>2 DEF SelectionInv
  <2>9. CallInv'
    BY <1>1, <1>7, SameGraph DEF KnowledgeInv, CallInv
  <2>10. PacketInv'
    BY <1>1, <1>2, <1>5, <1>7, <2>8 DEF PacketInv, Pending
  <2> QED
    BY <1>1, <1>7, <2>9, <2>10, OtherCalls DEF KnowledgeInv
<1> QED
  BY <1>3, <1>6, <1>7

\* The packet is made when nothing waits.
LEMMA SelectDoneKeeps ==
  ASSUME KnowledgeInv, SelectDone
  PROVE  KnowledgeInv'
<1>1. /\ pc = "select" /\ pc' = "done" /\ queue = <<>> /\ call.op = "packet" /\ waiting = <<>>
      /\ UNCHANGED <<graph, call, node, queue, seen, bounded, items>>
      /\ UNCHANGED <<view, evidence, waiting, selected, omitted, raw_bytes>>
      /\ answer'.kind = "Packet" /\ answer'.truncated = PacketTruncated
  BY DEF SelectDone, Return, Pending, search, packetVars, KnowledgeInv, CallInv, PacketInv
<1>2. CallInv'
  BY <1>1, SameGraph DEF KnowledgeInv, CallInv
<1>3. SelectionInv'
  <2>1. SelectionInv
    BY <1>1 DEF KnowledgeInv, PacketInv
  <2>2. UNCHANGED <<Candidates, BytesOf(Range(selected)), Fits(Len(selected), raw_bytes)>>
    BY <1>1 DEF Candidates, BytesOf, Fits, EffectiveItems, EffectiveBytes
  <2> QED
    BY <1>1, <2>1, <2>2 DEF SelectionInv
<1>4. PacketTruncated' = PacketTruncated
  BY <1>1 DEF PacketTruncated
<1>5. PacketInv'
  BY <1>1, <1>3, <1>4, SameGraph DEF KnowledgeInv, PacketInv
<1> QED
  BY <1>1, <1>2, <1>5, OtherCalls DEF KnowledgeInv

\* The first of some candidates and the others.
LEMMA FirstAndRest ==
  ASSUME NEW C, NEW w \in Seq(C), w # <<>>,
         \A i, j \in 1 .. Len(w) : i < j => w[i] # w[j]
  PROVE  /\ Tail(w) \in Seq(C) /\ Len(Tail(w)) = Len(w) - 1 /\ Len(w) \in Nat /\ Len(w) >= 1
         /\ \A i \in 1 .. Len(Tail(w)) : Tail(w)[i] = w[i + 1] /\ i + 1 \in 1 .. Len(w)
         /\ Head(w) = w[1] /\ w[1] \in C
         /\ Range(w) = {w[1]} \cup Range(Tail(w)) /\ w[1] \notin Range(Tail(w))
<1>1. /\ Tail(w) \in Seq(C) /\ Len(Tail(w)) = Len(w) - 1 /\ Len(w) \in Nat /\ Len(w) >= 1
      /\ \A i \in 1 .. Len(Tail(w)) : Tail(w)[i] = w[i + 1] /\ i + 1 \in 1 .. Len(w)
      /\ Head(w) = w[1] /\ w[1] \in C /\ DOMAIN w = 1 .. Len(w) /\ DOMAIN Tail(w) = 1 .. Len(Tail(w))
  OBVIOUS
<1> DEFINE t == Tail(w)
<1> HIDE DEF t
<1>2. /\ Len(t) = Len(w) - 1 /\ DOMAIN t = 1 .. Len(t)
      /\ \A i \in 1 .. Len(t) : t[i] = w[i + 1] /\ i + 1 \in 1 .. Len(w)
  BY <1>1 DEF t
<1>3. Range(w) \subseteq {w[1]} \cup Range(t)
  <2>1. ASSUME NEW i \in 1 .. Len(w), i # 1
        PROVE  w[i] \in Range(t)
    <3>1. i - 1 \in 1 .. Len(t) /\ (i - 1) + 1 = i
      BY <1>1, <1>2, <2>1
    <3>2. t[i - 1] = w[i]
      BY <1>2, <3>1
    <3> QED
      BY <1>2, <3>1, <3>2 DEF Range
  <2> QED
    BY <1>1, <2>1 DEF Range
<1>4. Range(t) \subseteq Range(w) /\ w[1] \in Range(w)
  BY <1>1, <1>2 DEF Range
<1>5. w[1] \notin Range(t)
  <2>1. SUFFICES ASSUME NEW i \in 1 .. Len(t), t[i] = w[1] PROVE FALSE
    BY <1>2 DEF Range
  <2>2. i + 1 \in 1 .. Len(w) /\ 1 \in 1 .. Len(w) /\ 1 < i + 1
    BY <1>1, <1>2
  <2> QED
    BY <1>2, <2>1, <2>2
<1> QED
  BY <1>1, <1>3, <1>4, <1>5 DEF t

\* One element more, that was not there before.
LEMMA OneMore ==
  ASSUME NEW C, IsFiniteSet(C), NEW s \in Seq(C), NEW n \in C, n \notin Range(s),
         Cardinality(Range(s)) = Len(s)
  PROVE  /\ Append(s, n) \in Seq(C) /\ Len(Append(s, n)) = Len(s) + 1 /\ Append(s, n) # <<>>
         /\ Range(Append(s, n)) = Range(s) \cup {n} /\ Len(s) \in Nat
         /\ Cardinality(Range(Append(s, n))) = Len(Append(s, n))
         /\ Range(s) \in SUBSET C /\ IsFiniteSet(Range(s))
<1>1. /\ Append(s, n) \in Seq(C) /\ Len(Append(s, n)) = Len(s) + 1 /\ Append(s, n) # <<>>
      /\ Len(s) \in Nat /\ DOMAIN s = 1 .. Len(s)
      /\ DOMAIN Append(s, n) = 1 .. Len(s) + 1
      /\ \A i \in 1 .. Len(s) : Append(s, n)[i] = s[i]
      /\ Append(s, n)[Len(s) + 1] = n
  OBVIOUS
<1>2. Range(Append(s, n)) = Range(s) \cup {n}
  <2> DEFINE a == Append(s, n)
             k == Len(s)
  <2>1. /\ k \in Nat /\ DOMAIN s = 1 .. k /\ DOMAIN a = 1 .. k + 1
        /\ \A i \in 1 .. k : a[i] = s[i]
        /\ a[k + 1] = n
    BY <1>1
  <2> HIDE DEF a, k
  <2> DEFINE m == k + 1
  <2>2. m \in 1 .. m /\ (\A i \in 1 .. m : i \in 1 .. k \/ i = m) /\ \A i \in 1 .. k : i \in 1 .. m
    BY <2>1
  <2>3. DOMAIN a = 1 .. m /\ a[m] = n
    BY <2>1
  <2> HIDE DEF m
  <2>4. \A i \in 1 .. m : a[i] \in Range(s) \/ a[i] = n
    <3>1. \A i \in 1 .. k : a[i] \in Range(s)
      BY <2>1 DEF Range
    <3> QED
      BY <2>2, <2>3, <3>1
  <2>5. Range(a) \subseteq Range(s) \cup {n}
    BY <2>3, <2>4 DEF Range
  <2>6. \A i \in 1 .. k : s[i] \in Range(a)
    <3>1. \A i \in 1 .. m : a[i] \in Range(a)
      BY <2>3 DEF Range
    <3> QED
      BY <2>1, <2>2, <3>1
  <2>7. n \in Range(a)
    BY <2>2, <2>3 DEF Range
  <2>8. Range(s) \subseteq Range(a)
    BY <2>1, <2>6 DEF Range
  <2> QED
    BY <2>5, <2>7, <2>8 DEF a
<1>3. Range(s) \in SUBSET C
  <2>1. \A i \in DOMAIN s : s[i] \in C
    OBVIOUS
  <2> QED
    BY <2>1 DEF Range
<1>4. IsFiniteSet(Range(s))
  BY <1>3, FS_Subset
<1>5. Cardinality(Range(s) \cup {n}) = Cardinality(Range(s)) + 1
  BY <1>4, FS_AddElement
<1> QED
  BY <1>1, <1>2, <1>3, <1>4, <1>5

\* A candidate is kept, left out, or required and without room: then the
\* required ones alone do not fit.
LEMMA SelectNextKeeps ==
  ASSUME KnowledgeInv, SelectNext
  PROVE  KnowledgeInv'
<1> DEFINE C == Candidates
           n == waiting[1]
           rest == Tail(waiting)
           size == evidence[n].bytes
<1>1. /\ pc = "select" /\ waiting # <<>> /\ queue = <<>> /\ call.op = "packet" /\ answer = Pending
      /\ UNCHANGED <<graph, call, node, queue, seen, bounded, items, view, evidence>>
      /\ waiting' = rest /\ SelectionInv
  BY DEF SelectNext, search, KnowledgeInv, CallInv, PacketInv
<1>2. /\ view \in [items : Seq(Nodes), truncated : BOOLEAN]
      /\ ~ view.truncated => Range(view.items) = call.wanted
      /\ Frontier(PositiveForward, Range(view.items), queue, seen, items, bounded,
                  call.max_nodes, call.max_depth)
  BY <1>1 DEF KnowledgeInv, PacketInv
<1>3. IsFiniteSet(C) /\ C' = C
  BY <1>1, <1>2, CandidatesAre DEF KnowledgeInv, Candidates
<1> HIDE DEF C
<1>4. /\ evidence \in [C -> Evidence]
      /\ waiting \in Seq(C) /\ selected \in Seq(C) /\ omitted \in Seq(C)
      /\ Range(selected) \cup Range(omitted) \cup Range(waiting) = C
      /\ Range(selected) \cap Range(omitted) = {}
      /\ (Range(selected) \cup Range(omitted)) \cap Range(waiting) = {}
      /\ Cardinality(Range(selected)) = Len(selected) /\ Cardinality(Range(omitted)) = Len(omitted)
      /\ \A i, j \in 1 .. Len(waiting) :
           i < j => /\ waiting[i] # waiting[j]
                    /\ evidence[waiting[i]].priority <= evidence[waiting[j]].priority
      /\ \A m \in Range(selected), i \in 1 .. Len(waiting) :
           evidence[m].priority <= evidence[waiting[i]].priority
      /\ \A m \in Range(omitted) : evidence[m].priority # 0
      /\ raw_bytes = BytesOf(Range(selected))
      /\ selected # <<>> => Fits(Len(selected), raw_bytes)
  BY <1>1 DEF SelectionInv, C
<1>5. /\ rest \in Seq(C) /\ Len(rest) = Len(waiting) - 1 /\ Len(waiting) \in Nat /\ Len(waiting) >= 1
      /\ \A i \in 1 .. Len(rest) : rest[i] = waiting[i + 1] /\ i + 1 \in 1 .. Len(waiting)
      /\ Head(waiting) = n /\ n \in C
      /\ Range(waiting) = {n} \cup Range(rest) /\ n \notin Range(rest)
  <2>1. \A i, j \in 1 .. Len(waiting) : i < j => waiting[i] # waiting[j]
    BY <1>4
  <2>2. waiting \in Seq(C) /\ waiting # <<>>
    BY <1>1, <1>4
  <2> QED
    BY <2>1, <2>2, FirstAndRest
<1> HIDE DEF n, rest
<1>6. n \notin Range(selected) /\ n \notin Range(omitted)
  BY <1>4, <1>5
<1>7. size \in Nat /\ \A m \in C : evidence[m].priority \in 0 .. 2
  BY <1>4, <1>5, PacketAssumption
<1>8. \/ /\ Fits(Len(selected) + 1, raw_bytes + size)
         /\ selected' = Append(selected, n) /\ raw_bytes' = raw_bytes + size
         /\ UNCHANGED <<omitted, pc, answer>>
      \/ /\ evidence[n].priority # 0
         /\ omitted' = Append(omitted, n)
         /\ UNCHANGED <<selected, raw_bytes, pc, answer>>
      \/ /\ ~ Fits(Len(selected) + 1, raw_bytes + size) /\ evidence[n].priority = 0
         /\ pc' = "done" /\ answer'.kind = "RequiredEvidenceDoesNotFit"
         /\ UNCHANGED <<selected, raw_bytes, omitted>>
  BY <1>5 DEF SelectNext, Return, Pending
<1> HIDE DEF size
<1>9. Frontier(PositiveForward, Range(view.items), queue, seen, items, bounded,
                     call.max_nodes, call.max_depth)'
  BY <1>1, <1>2, SameGraph
<1>10. \A c, b : Fits(c, b)' = Fits(c, b)
  BY <1>1 DEF Fits, EffectiveItems, EffectiveBytes
<1>11. \A i, j \in 1 .. Len(rest) :
         i < j => /\ rest[i] # rest[j]
                  /\ evidence[rest[i]].priority <= evidence[rest[j]].priority
  <2>1. ASSUME NEW i \in 1 .. Len(rest), NEW j \in 1 .. Len(rest), i < j
        PROVE  /\ rest[i] # rest[j]
               /\ evidence[rest[i]].priority <= evidence[rest[j]].priority
    <3>1. /\ i + 1 \in 1 .. Len(waiting) /\ j + 1 \in 1 .. Len(waiting) /\ i + 1 < j + 1
          /\ rest[i] = waiting[i + 1] /\ rest[j] = waiting[j + 1]
      BY <1>5, <2>1
    <3> QED
      BY <1>4, <3>1
  <2> QED
    BY <2>1
<1>12. ASSUME NEW i \in 1 .. Len(rest)
       PROVE  /\ evidence[n].priority <= evidence[rest[i]].priority
              /\ \A m \in Range(selected) : evidence[m].priority <= evidence[rest[i]].priority
  <2>1. /\ i + 1 \in 1 .. Len(waiting) /\ 1 \in 1 .. Len(waiting) /\ 1 < i + 1
        /\ rest[i] = waiting[i + 1]
    BY <1>5
  <2>2. evidence[waiting[1]].priority <= evidence[waiting[i + 1]].priority
    BY <1>4, <2>1
  <2> QED
    BY <1>4, <2>1, <2>2 DEF n
<1>13. CASE /\ Fits(Len(selected) + 1, raw_bytes + size)
            /\ selected' = Append(selected, n) /\ raw_bytes' = raw_bytes + size
            /\ UNCHANGED <<omitted, pc, answer>>
  <2>1. /\ Append(selected, n) \in Seq(C) /\ Len(Append(selected, n)) = Len(selected) + 1
        /\ Range(Append(selected, n)) = Range(selected) \cup {n}
        /\ Cardinality(Range(Append(selected, n))) = Len(Append(selected, n))
        /\ Range(selected) \in SUBSET C /\ IsFiniteSet(Range(selected))
    <3>1. IsFiniteSet(C) /\ selected \in Seq(C) /\ n \in C /\ n \notin Range(selected)
          /\ Cardinality(Range(selected)) = Len(selected)
      BY <1>3, <1>4, <1>5, <1>6
    <3> QED
      BY <3>1, OneMore
  <2>2. BytesOf(Range(selected) \cup {n}) = BytesOf(Range(selected)) + size
    <3> DEFINE S == Range(selected)
    <3>1. S \in SUBSET C /\ IsFiniteSet(S) /\ n \in C \ S
      BY <1>5, <1>6, <2>1
    <3> HIDE DEF S
    <3>2. BytesOf(S \cup {n}) = BytesOf(S) + evidence[n].bytes
      BY <1>4, <3>1, BytesAdd
    <3> QED
      BY <3>2 DEF S, size
  <2>3. BytesOf(Range(selected))' = BytesOf(Range(selected'))
    BY <1>1 DEF BytesOf
  <2>4. raw_bytes' = BytesOf(Range(selected))'
    BY <1>4, <1>13, <2>1, <2>2, <2>3
  <2>5. \A m \in Range(selected'), i \in 1 .. Len(rest) :
           evidence[m].priority <= evidence[rest[i]].priority
    BY <1>12, <1>13, <2>1
  <2>6. Fits(Len(selected), raw_bytes)'
    BY <1>10, <1>13, <2>1
  <2>7. /\ Range(selected') \cup Range(omitted') \cup Range(waiting') = C
        /\ Range(selected') \cap Range(omitted') = {}
        /\ (Range(selected') \cup Range(omitted')) \cap Range(waiting') = {}
    BY <1>1, <1>4, <1>5, <1>6, <1>13, <2>1
  <2>8. SelectionInv'
    BY <1>1, <1>3, <1>4, <1>5, <1>11, <1>13, <2>1, <2>4, <2>5, <2>6, <2>7 DEF SelectionInv, C
  <2>9. CallInv'
    BY <1>1, <1>13, SameGraph DEF KnowledgeInv, CallInv
  <2>10. PacketInv'
    BY <1>1, <1>2, <1>9, <1>13, <2>8 DEF PacketInv, Pending
  <2> QED
    BY <1>1, <1>13, <2>9, <2>10, OtherCalls DEF KnowledgeInv
<1>14. CASE /\ evidence[n].priority # 0
            /\ omitted' = Append(omitted, n)
            /\ UNCHANGED <<selected, raw_bytes, pc, answer>>
  <2>1. /\ Append(omitted, n) \in Seq(C) /\ Len(Append(omitted, n)) = Len(omitted) + 1
        /\ Range(Append(omitted, n)) = Range(omitted) \cup {n}
        /\ Cardinality(Range(Append(omitted, n))) = Len(Append(omitted, n))
    <3>1. IsFiniteSet(C) /\ omitted \in Seq(C) /\ n \in C /\ n \notin Range(omitted)
          /\ Cardinality(Range(omitted)) = Len(omitted)
      BY <1>3, <1>4, <1>5, <1>6
    <3> QED
      BY <3>1, OneMore
  <2>2. BytesOf(Range(selected))' = BytesOf(Range(selected))
    BY <1>1, <1>14 DEF BytesOf
  <2>3. selected' # <<>> => Fits(Len(selected), raw_bytes)'
    BY <1>4, <1>10, <1>14
  <2>7. /\ Range(selected') \cup Range(omitted') \cup Range(waiting') = C
        /\ Range(selected') \cap Range(omitted') = {}
        /\ (Range(selected') \cup Range(omitted')) \cap Range(waiting') = {}
    BY <1>1, <1>4, <1>5, <1>6, <1>14, <2>1
  <2>8. SelectionInv'
    BY <1>1, <1>3, <1>4, <1>5, <1>11, <1>12, <1>14, <2>1, <2>2, <2>3, <2>7 DEF SelectionInv, C
  <2>9. CallInv'
    BY <1>1, <1>14, SameGraph DEF KnowledgeInv, CallInv
  <2>10. PacketInv'
    BY <1>1, <1>2, <1>9, <1>14, <2>8 DEF PacketInv, Pending
  <2> QED
    BY <1>1, <1>14, <2>9, <2>10, OtherCalls DEF KnowledgeInv
<1>15. CASE /\ ~ Fits(Len(selected) + 1, raw_bytes + size) /\ evidence[n].priority = 0
            /\ pc' = "done" /\ answer'.kind = "RequiredEvidenceDoesNotFit"
            /\ UNCHANGED <<selected, raw_bytes, omitted>>
  <2> DEFINE S == Range(selected)
             R == Required(evidence)
  <2>1. /\ S \in SUBSET C /\ IsFiniteSet(S) /\ Len(selected) \in Nat /\ n \in C \ S
    <3>1. IsFiniteSet(C) /\ selected \in Seq(C) /\ n \in C /\ n \notin Range(selected)
          /\ Cardinality(Range(selected)) = Len(selected)
      BY <1>3, <1>4, <1>5, <1>6
    <3> QED
      BY <3>1, OneMore
  <2>2. R \in SUBSET C /\ S \cup {n} \in SUBSET R
    <3>1. 1 \in 1 .. Len(waiting)
      BY <1>5
    <3>2. \A m \in S : evidence[m].priority <= evidence[n].priority
      BY <1>4, <3>1 DEF n
    <3>3. \A m \in S : evidence[m].priority = 0
      BY <1>7, <1>15, <2>1, <3>2
    <3> QED
      BY <1>4, <1>15, <2>1, <3>3 DEF Required
  <2> HIDE DEF S, R
  <2>3. IsFiniteSet(R)
    BY <1>3, <2>2, FS_Subset
  <2>4. Cardinality(S \cup {n}) = Len(selected) + 1
    <3>1. Cardinality(S \cup {n}) = Cardinality(S) + 1
      BY <2>1, FS_AddElement
    <3> QED
      BY <1>4, <3>1 DEF S
  <2>5. Cardinality(R) \in Nat /\ Len(selected) + 1 <= Cardinality(R)
    BY <2>2, <2>3, <2>4, FS_Subset, FS_CardinalityType
  <2>6. BytesOf(S \cup {n}) = raw_bytes + size /\ raw_bytes \in Nat
    <3>1. BytesOf(S \cup {n}) = BytesOf(S) + evidence[n].bytes
      BY <1>4, <2>1, BytesAdd
    <3>2. BytesOf(S) \in Nat
      BY <1>4, <2>1, BytesFinite
    <3> QED
      BY <1>4, <3>1, <3>2 DEF S, size
  <2>7. BytesOf(R) \in Nat /\ raw_bytes + size <= BytesOf(R)
    <3>1. BytesOf(R) \in Nat
      BY <1>4, <2>2, <2>3, BytesFinite
    <3> DEFINE T == S \cup {n}
    <3>3. T \in SUBSET R
      BY <2>2
    <3> HIDE DEF T
    <3>2. BytesOf(T) <= BytesOf(R)
      BY <1>4, <2>2, <2>3, <3>3, BytesMore
    <3> QED
      BY <2>6, <3>1, <3>2 DEF T
  <2>8. ~ Fits(Cardinality(R), BytesOf(R))
    <3> DEFINE c == Len(selected) + 1
               b == raw_bytes + size
               c2 == Cardinality(R)
               b2 == BytesOf(R)
    <3>1. c \in Nat /\ c2 \in Nat /\ c <= c2 /\ b \in Nat /\ b2 \in Nat /\ b <= b2
      BY <1>7, <2>1, <2>5, <2>6, <2>7
    <3>2. ~ Fits(c, b) /\ CallInv /\ call.op = "packet"
      BY <1>1, <1>15 DEF KnowledgeInv
    <3> HIDE DEF c, b, c2, b2
    <3>3. ~ Fits(c2, b2)
      BY <3>1, <3>2, FitsLess
    <3> QED
      BY <3>3 DEF c2, b2
  <2>9. R' = R /\ BytesOf(Required(evidence))' = BytesOf(R)
    BY <1>1 DEF R, Required, BytesOf
  <2>10. (~ Fits(Cardinality(Required(evidence)), BytesOf(Required(evidence))))'
    BY <1>1, <2>8, <2>9 DEF R, Fits, EffectiveItems, EffectiveBytes
  <2>11. CallInv'
    BY <1>1, <1>15, SameGraph DEF KnowledgeInv, CallInv
  <2>12. PacketInv'
    BY <1>1, <1>2, <1>9, <1>15, <2>10 DEF PacketInv
  <2> QED
    BY <1>1, <1>15, <2>11, <2>12, OtherCalls DEF KnowledgeInv
<1> QED
  BY <1>8, <1>13, <1>14, <1>15

\* A call begins in this state.
LEMMA KnowledgeInitially ==
  ASSUME PacketInit
  PROVE  KnowledgeInv
<1>1. /\ graph \in Graphs /\ call \in Calls(graph) /\ pc = "start" /\ node = NoNode
      /\ queue = <<>> /\ seen = {} /\ bounded = FALSE /\ items = <<>> /\ answer = Pending
      /\ selected = <<>> /\ omitted = <<>> /\ raw_bytes = 0
  BY DEF PacketInit, Init
<1>2. CallInv
  <2>1. <<>> \in Seq(QueueEntries(Via)) /\ <<>> \in Seq(FoundItems)
    OBVIOUS
  <2> QED
    BY <1>1, <2>1 DEF CallInv
<1>3. ImpactInv
  BY <1>1 DEF ImpactInv
<1>4. TrailInv
  BY <1>1 DEF TrailInv, TrailIsShortest, DoneWith
<1>5. ClassifyInv
  BY <1>1 DEF ClassifyInv, NegativesAreSafe, Pending, Range
<1>6. PacketInv
  BY <1>1 DEF PacketInv, Pending
<1> QED
  BY <1>2, <1>3, <1>4, <1>5, <1>6 DEF KnowledgeInv

\* A step that changes nothing keeps it.
LEMMA KnowledgeStutters ==
  ASSUME KnowledgeInv, UNCHANGED allVars
  PROVE  KnowledgeInv'
<1>1. /\ UNCHANGED <<graph, call, pc, node, queue, seen, bounded, items, answer>>
      /\ UNCHANGED <<view, evidence, waiting, selected, omitted, raw_bytes>>
  BY DEF allVars, vars, search, packetVars
<1>2. CallInv'
  BY <1>1, SameGraph DEF KnowledgeInv, CallInv
<1>3. ImpactInv'
  BY <1>1, SameGraph DEF KnowledgeInv, ImpactInv
<1>4. TrailInv'
  <2>1. \A n : KnownFrom(n)' = KnownFrom(n)
    BY <1>1 DEF KnownFrom, KnownEdges
  <2>2. TrailIsShortest' <=> TrailIsShortest
    BY <1>1, <2>1, SameGraph DEF TrailIsShortest, DoneWith
  <2> QED
    BY <1>1, <2>2, SameGraph DEF KnowledgeInv, TrailInv
<1>5. ClassifyInv'
  <2>1. NegativesAreSafe => NegativesAreSafe'
    BY <1>1, StillSafe
  <2> QED
    BY <1>1, <2>1, SameGraph DEF KnowledgeInv, ClassifyInv
<1>6. PacketInv'
  <2>1. UNCHANGED <<Candidates, PacketTruncated>> /\ \A S : BytesOf(S)' = BytesOf(S)
    BY <1>1 DEF Candidates, BytesOf, PacketTruncated
  <2>2. \A c, b : Fits(c, b)' <=> Fits(c, b)
    BY <1>1 DEF Fits, EffectiveItems, EffectiveBytes
  <2>3. Required(evidence)' = Required(evidence)
    BY <1>1 DEF Required
  <2>4. SelectionInv => SelectionInv'
    BY <1>1, <2>1, <2>2 DEF SelectionInv
  <2> QED
    BY <1>1, <2>1, <2>2, <2>3, <2>4, SameGraph DEF KnowledgeInv, PacketInv
<1> QED
  BY <1>2, <1>3, <1>4, <1>5, <1>6 DEF KnowledgeInv

\* Every step keeps it.
LEMMA KnowledgeKeeps ==
  ASSUME KnowledgeInv, [Next]_allVars
  PROVE  KnowledgeInv'
<1>1. CASE CompileView
  BY <1>1, CompileViewKeeps
<1>2. CASE ClosureVisit
  BY <1>2, ClosureVisitKeeps
<1>3. CASE WrongEvidence
  BY <1>3, WrongEvidenceKeeps
<1>4. CASE IndexEvidence
  BY <1>4, IndexEvidenceKeeps
<1>5. CASE SelectNext
  BY <1>5, SelectNextKeeps
<1>6. CASE SelectDone
  BY <1>6, SelectDoneKeeps
<1>7. CASE StartMissing
  BY <1>7, StartMissingKeeps
<1>8. CASE StartSearch
  BY <1>8, StartSearchKeeps
<1>9. CASE TrailAtStart
  BY <1>9, TrailAtStartKeeps
<1>10. CASE ImpactVisit
  BY <1>10, ImpactVisitKeeps
<1>11. CASE ImpactDone
  BY <1>11, ImpactDoneKeeps
<1>12. CASE TrailVisit
  BY <1>12, TrailVisitKeeps
<1>13. CASE TrailDone
  BY <1>13, TrailDoneKeeps
<1>14. CASE StartClassify
  BY <1>14, StartClassifyKeeps
<1>15. CASE ClassifyByFacts
  BY <1>15, ClassifyByFactsKeeps
<1>16. CASE StartKnown
  BY <1>16, StartKnownKeeps
<1>17. CASE KnownVisit
  BY <1>17, KnownVisitKeeps
<1>18. CASE KnownBounded
  BY <1>18, KnownBoundedKeeps
<1>19. CASE StartUncertain
  BY <1>19, StartUncertainKeeps
<1>20. CASE UncertainVisit
  BY <1>20, UncertainVisitKeeps
<1>21. CASE UncertainDone
  BY <1>21, UncertainDoneKeeps
<1>22. CASE UNCHANGED allVars
  BY <1>22, KnowledgeStutters
<1> QED
  BY <1>1, <1>2, <1>3, <1>4, <1>5, <1>6, <1>7, <1>8, <1>9, <1>10, <1>11, <1>12, <1>13, <1>14, <1>15,
     <1>16, <1>17, <1>18, <1>19, <1>20, <1>21, <1>22 DEF Next, PacketNext, QueryNext

\* In every state of every call, on every graph, the searches of GraphQuery and the
\* assembly of a packet are in the state the invariant describes: what a search has
\* seen is its frontier, and what a packet holds is counted.
THEOREM KnowledgeHolds == PacketSpec => []KnowledgeInv
<1>1. PacketInit => KnowledgeInv
  BY KnowledgeInitially
<1>2. KnowledgeInv /\ [Next]_allVars => KnowledgeInv'
  BY KnowledgeKeeps
<1> QED
  BY <1>1, <1>2, PTL DEF PacketSpec

(***************************************************************************)
(* What the invariant says of the answers                                  *)
(***************************************************************************)
LEMMA ItemNodesAre ==
  ASSUME items \in Seq(FoundItems)
  PROVE  /\ {i.node : i \in Range(items)} = ItemNodes(items)
         /\ \A i \in Range(items) : \E k \in 1 .. Len(items) : i = items[k]
<1>1. DOMAIN items = 1 .. Len(items)
  OBVIOUS
<1> QED
  BY <1>1 DEF ItemNodes, Range

\* The answer of impact, from its frontier.
LEMMA ImpactExact ==
  ASSUME KnowledgeInv
  PROVE  ImpactIsHonest
<1>1. SUFFICES ASSUME pc = "done", call.op = "impact", call.start \in Nodes
               PROVE  ImpactIsHonest
  BY DEF ImpactIsHonest, DoneWith
<1> DEFINE from == {call.start}
           trunc == answer.truncated
           limit == call.max_results
           maxd == call.max_depth
           closure == Closure(Backward, from)
           listed == {i.node : i \in Range(items)}
           all == closure \ from
<1>2. /\ Backward \in Neighbours /\ from \in SUBSET Nodes /\ limit \in Nat /\ maxd \in Nat
      /\ items \in Seq(FoundItems)
  BY <1>1, EdgesLead, CallFacts DEF KnowledgeInv, CallInv
<1>3. /\ trunc \in BOOLEAN /\ (~ trunc => queue = <<>>)
      /\ Frontier(Backward, from, queue, seen, items, trunc, limit, maxd)
  BY <1>1 DEF KnowledgeInv, ImpactInv
<1>4. /\ from \subseteq seen /\ seen \subseteq closure
      /\ ItemNodes(items) = seen \ from /\ Cardinality(ItemNodes(items)) = Len(items)
      /\ \A k \in 1 .. Len(items) :
           /\ items[k].depth = Distance(Backward, from, items[k].node)
           /\ \A m \in closure \ seen : items[k].depth <= Distance(Backward, from, m)
  <2> DEFINE next == Backward
             its == items
  <2>1. /\ next \in Neighbours /\ from \in SUBSET Nodes /\ limit \in Nat /\ maxd \in Nat
        /\ Frontier(next, from, queue, seen, its, trunc, limit, maxd)
    BY <1>2, <1>3
  <2> HIDE DEF from, trunc, limit, maxd, next, its
  <2>2. from \subseteq seen
    BY <2>1, FrontierSeen
  <2>4. seen \subseteq Closure(next, from)
    BY <2>1, FrontierSeen
  <2>7. IsTree(next, from, seen, its, maxd) /\ its \in Seq(FoundItems)
    BY <2>1 DEF Frontier
  <2>5. ItemNodes(its) = seen \ from
    BY <2>7 DEF IsTree, ItemNodes
  <2>6. Cardinality(ItemNodes(its)) = Len(its)
    BY <2>7, ItemsCounted DEF IsTree
  <2>3. \A k \in 1 .. Len(its) :
           /\ its[k].depth = Distance(next, from, its[k].node)
           /\ \A m \in Closure(next, from) \ seen : its[k].depth <= Distance(next, from, m)
    BY <2>1, FrontierSeen
  <2> QED
    BY <2>2, <2>3, <2>4, <2>5, <2>6 DEF next, its
<1>5. listed = seen \ from /\ \A i \in Range(items) : \E k \in 1 .. Len(items) : i = items[k]
  BY <1>2, <1>4, ItemNodesAre
<1>6. CASE trunc = FALSE
  <2>1. Frontier(Backward, from, <<>>, seen, items, FALSE, limit, maxd)
    BY <1>3, <1>6
  <2> HIDE DEF from, trunc, limit, maxd
  <2>2. seen = closure
    BY <1>2, <2>1, FrontierEnds
  <2>3. listed = all
    BY <1>5, <2>2
  <2> HIDE DEF listed, closure, all
  <2> USE DEF all
  <2>4. /\ Cardinality(listed) = Len(items) /\ listed \subseteq all
        /\ \A i \in Range(items) : i.depth = Distance(Backward, from, i.node)
        /\ \A m \in all \ listed, i \in Range(items) : i.depth <= Distance(Backward, from, m)
        /\ trunc = FALSE /\ listed = all
    BY <1>4, <1>5, <1>6, <2>3
  <2> QED
    BY <2>4 DEF ImpactIsHonest, listed, closure, from, trunc
<1>7. CASE trunc = TRUE
  <2>1. Frontier(Backward, from, queue, seen, items, TRUE, limit, maxd)
    BY <1>3, <1>7
  <2> HIDE DEF from, trunc, limit, maxd
  <2>2. /\ seen # closure
        /\ \/ Len(items) = limit
           \/ \A m \in closure \ seen : Distance(Backward, from, m) > maxd
    BY <1>2, <2>1, FrontierCut
  <2> HIDE DEF listed, closure
  <2>3. listed # all /\ all \ listed = closure \ seen
    BY <1>4, <1>5, <2>2
  <2>4. /\ Cardinality(listed) = Len(items) /\ listed \subseteq all
        /\ \A i \in Range(items) : i.depth = Distance(Backward, from, i.node)
        /\ \A m \in all \ listed, i \in Range(items) : i.depth <= Distance(Backward, from, m)
        /\ trunc = TRUE /\ listed # all
        /\ Len(items) = limit \/ \A m \in all \ listed : Distance(Backward, from, m) > maxd
    BY <1>4, <1>5, <1>7, <2>2, <2>3
  <2> QED
    BY <2>4 DEF ImpactIsHonest, listed, closure, from, trunc, limit, maxd
<1> QED
  BY <1>3, <1>6, <1>7

\* The answers of the queries.
LEMMA AnswersExact ==
  ASSUME KnowledgeInv
  PROVE  AnswersAreExact
<1>1. NegativesAreSafe
  BY DEF KnowledgeInv, ClassifyInv, NegativesAreSafe
<1>2. TrailIsShortest
  BY DEF KnowledgeInv, TrailInv, TrailIsShortest, DoneWith
<1> QED
  BY <1>1, <1>2, ImpactExact DEF AnswersAreExact

\* The dependency closure, from its frontier.
LEMMA ClosureExact ==
  ASSUME KnowledgeInv
  PROVE  ClosureIsExact
<1>1. SUFFICES ASSUME call.op = "packet", pc \notin {"start", "closure"}
               PROVE  ClosureIsExact
  BY DEF ClosureIsExact
<1> DEFINE from == Range(view.items)
           next == PositiveForward
           limit == call.max_nodes
           maxd == call.max_depth
           accepted == {i.node : i \in Range(items)}
           closure == Closure(next, from)
<1>2. /\ next \in Neighbours /\ limit \in Nat /\ maxd \in Nat /\ bounded \in BOOLEAN
      /\ items \in Seq(FoundItems) /\ from \in SUBSET Nodes
  BY <1>1, EdgesLead, CallFacts, CandidatesAre DEF KnowledgeInv, CallInv, PacketInv
<1>3. queue = <<>> /\ Frontier(next, from, queue, seen, items, bounded, limit, maxd)
  BY <1>1 DEF KnowledgeInv, PacketInv
<1>4. accepted = ItemNodes(items)
  BY <1>2, ItemNodesAre
<1>5. Dependencies = closure \ from
  BY DEF Dependencies
<1> HIDE DEF from, next, limit, maxd, accepted, closure
<1>6. from \subseteq seen /\ seen \subseteq closure
  <2>1. from \subseteq seen
    BY <1>2, <1>3, FrontierSeen
  <2>2. seen \subseteq Closure(next, from)
    BY <1>2, <1>3, FrontierSeen
  <2> QED
    BY <2>1, <2>2 DEF closure
<1>7. /\ ItemNodes(items) = seen \ from
      /\ Cardinality(ItemNodes(items)) = Len(items) /\ Len(items) <= limit
  <2>1. IsTree(next, from, seen, items, maxd) /\ Len(items) <= limit
    BY <1>3 DEF Frontier
  <2>2. ItemNodes(items) = seen \ from
    BY <2>1 DEF IsTree, ItemNodes
  <2>3. Cardinality(ItemNodes(items)) = Len(items)
    BY <1>2, <2>1, ItemsCounted DEF IsTree
  <2> QED
    BY <2>1, <2>2, <2>3
<1>8. CASE bounded = FALSE
  <2>1. Frontier(next, from, <<>>, seen, items, FALSE, limit, maxd)
    BY <1>3, <1>8
  <2>2. seen = closure
    BY <1>2, <2>1, FrontierEnds DEF closure
  <2>3. /\ accepted \subseteq Dependencies /\ Cardinality(accepted) <= limit
        /\ accepted = Dependencies
    BY <1>4, <1>5, <1>7, <2>2
  <2> QED
    BY <1>8, <2>3 DEF ClosureIsExact, accepted, limit
<1>9. CASE bounded = TRUE
  <2>1. Frontier(next, from, queue, seen, items, TRUE, limit, maxd)
    BY <1>3, <1>9
  <2>2. /\ seen # closure
        /\ \/ Len(items) = limit
           \/ \A m \in closure \ seen : Distance(next, from, m) > maxd
    BY <1>2, <2>1, FrontierCut DEF closure
  <2>3. Dependencies \ accepted = closure \ seen
    BY <1>4, <1>5, <1>6, <1>7
  <2>4. /\ accepted \subseteq Dependencies /\ Cardinality(accepted) <= limit
        /\ accepted # Dependencies
    BY <1>4, <1>5, <1>6, <1>7, <2>2
  <2>5. \/ Cardinality(accepted) = limit
        \/ \A m \in Dependencies \ accepted : Distance(next, from, m) > maxd
    BY <1>4, <1>7, <2>2, <2>3
  <2> QED
    BY <1>9, <2>4, <2>5 DEF ClosureIsExact, accepted, limit, next, from, maxd
<1> QED
  BY <1>2, <1>8, <1>9

\* The packets, from what was selected and what the closure found.
LEMMA PackingExact ==
  ASSUME KnowledgeInv
  PROVE  PackingIsExact
<1>1. ClosureIsExact
  BY ClosureExact
<1>2. ASSUME call.op = "packet", answer.kind = "Packet"
      PROVE  pc = "done" /\ SelectionInv /\ waiting = <<>> /\ (answer.truncated <=> PacketTruncated)
  BY <1>2 DEF KnowledgeInv, CallInv, PacketInv, Pending
<1>3. RequiredIsKept
  <2>1. ASSUME call.op = "packet", answer.kind = "Packet"
        PROVE  Required(evidence) \subseteq Range(selected)
    <3>1. Range(waiting) = {}
      BY <1>2, <2>1 DEF Range
    <3> QED
      BY <1>2, <2>1, <3>1 DEF SelectionInv, Required
  <2>2. call.op = "packet" /\ answer.kind = "RequiredEvidenceDoesNotFit" =>
          ~ Fits(Cardinality(Required(evidence)), BytesOf(Required(evidence)))
    BY DEF KnowledgeInv, PacketInv
  <2> QED
    BY <2>1, <2>2 DEF RequiredIsKept
<1>4. TruncationIsTold
  <2>1. SUFFICES ASSUME call.op = "packet", answer.kind = "Packet"
                 PROVE  TruncationIsTold
    BY DEF TruncationIsTold
  <2>2. /\ pc = "done" /\ SelectionInv /\ waiting = <<>> /\ Range(waiting) = {}
        /\ answer.truncated <=> PacketTruncated
    BY <1>2, <2>1 DEF Range
  <2>3. /\ view \in [items : Seq(Nodes), truncated : BOOLEAN]
        /\ ~ view.truncated => Range(view.items) = call.wanted
        /\ queue = <<>> /\ bounded \in BOOLEAN /\ CallInv
        /\ Frontier(PositiveForward, Range(view.items), queue, seen, items, bounded,
                    call.max_nodes, call.max_depth)
    BY <2>1, <2>2 DEF KnowledgeInv, CallInv, PacketInv
  <2>4. /\ Candidates = Range(view.items) \cup ItemNodes(items) /\ IsFiniteSet(Candidates)
        /\ Range(view.items) \in SUBSET Nodes
    BY <2>3, CandidatesAre
  <2>5. /\ Range(selected) \cup Range(omitted) = Candidates
        /\ Range(selected) \cap Range(omitted) = {}
        /\ Cardinality(Range(selected)) = Len(selected) /\ Cardinality(Range(omitted)) = Len(omitted)
        /\ selected # <<>> => Fits(Len(selected), raw_bytes)
    BY <2>2 DEF SelectionInv
  <2>6. Len(selected) + Len(omitted) = Cardinality(Candidates)
    <3>1. IsFiniteSet(Range(selected)) /\ IsFiniteSet(Range(omitted))
      <4>1. Range(selected) \in SUBSET Candidates /\ Range(omitted) \in SUBSET Candidates
        BY <2>5
      <4> QED
        BY <2>4, <4>1, FS_Subset
    <3>2. Cardinality(Range(selected) \cup Range(omitted))
            = Cardinality(Range(selected)) + Cardinality(Range(omitted)) - Cardinality({})
      BY <2>5, <3>1, FS_Union
    <3>3. Cardinality({}) = 0
      BY FS_EmptySet
    <3>4. Cardinality(Range(selected)) \in Nat /\ Cardinality(Range(omitted)) \in Nat
      BY <3>1, FS_CardinalityType
    <3>5. Cardinality(Range(selected) \cup Range(omitted))
            = Cardinality(Range(selected)) + Cardinality(Range(omitted))
      BY <3>2, <3>3, <3>4
    <3> QED
      BY <2>5, <3>5
  <2>7. ASSUME ~ answer.truncated
        PROVE  call.wanted \cup Closure(PositiveForward, call.wanted) \subseteq Range(selected)
    <3> DEFINE from == call.wanted
               next == PositiveForward
               limit == call.max_nodes
               maxd == call.max_depth
    <3>1. ~ view.truncated /\ bounded = FALSE /\ omitted = <<>>
      BY <2>2, <2>3, <2>7 DEF PacketTruncated
    <3>2. Range(selected) = Candidates
      BY <2>5, <3>1 DEF Range
    <3>3. Range(view.items) = from /\ from \in SUBSET Nodes
      BY <2>3, <2>4, <3>1
    <3>4. Frontier(next, from, <<>>, seen, items, FALSE, limit, maxd)
      BY <2>3, <3>1, <3>3
    <3>5. next \in Neighbours /\ limit \in Nat /\ maxd \in Nat
      BY <2>1, <2>3, EdgesLead, CallFacts DEF CallInv
    <3> HIDE DEF from, next, limit, maxd
    <3>6. seen = Closure(next, from)
      BY <3>3, <3>4, <3>5, FrontierEnds
    <3>7. seen = from \cup ItemNodes(items)
      BY <3>4 DEF Frontier, IsTree
    <3>8. from \cup Closure(next, from) \subseteq Range(selected)
      BY <2>4, <3>2, <3>3, <3>6, <3>7
    <3> QED
      BY <3>8 DEF from, next
  <2> QED
    BY <2>5, <2>6, <2>7 DEF TruncationIsTold
<1> QED
  BY <1>1, <1>3, <1>4 DEF PackingIsExact

\* Whatever the graph, the call and its bounds: what is called unreachable is
\* safely dead, a trail is a shortest known path, and impact lists nearest nodes
\* and says what it left out (GraphQuery::classify, trail and impact).
THEOREM AnswersHold == PacketSpec => []AnswersAreExact
<1>1. KnowledgeInv => AnswersAreExact
  BY AnswersExact
<1> QED
  BY <1>1, KnowledgeHolds, PTL

\* Whatever the graph, the evidence and the limits: the dependency closure says
\* exactly what it left out, required evidence is in every packet, and a packet
\* that is not truncated has all that was wanted (PacketAssembler::assemble).
THEOREM PackingHolds == PacketSpec => []PackingIsExact
<1>1. KnowledgeInv => PackingIsExact
  BY PackingExact
<1> QED
  BY <1>1, KnowledgeHolds, PTL

(***************************************************************************)
(* The invariant of a structural request                                   *)
(***************************************************************************)
Links(s, kinds) == {e \in Known(s) : e.kind \in kinds}
IsSeq(x) == x \in Seq(Range(x))
GoodSnapshot(s) == s \in SnapshotCandidates \cup Later /\ BuildFailure(s) = "none"

RankTyped(k) ==
  /\ k = [of |-> k.of, seed |-> k.seed, count |-> k.count, limit |-> k.limit,
          selected |-> k.selected, omitted |-> k.omitted, reason |-> k.reason,
          conflicts |-> k.conflicts, missing |-> k.missing]
  /\ IsSeq(k.selected) /\ IsSeq(k.omitted) /\ IsSeq(k.conflicts)
WalkTyped(w) ==
  /\ w = [of |-> w.of, seed |-> w.seed, bounds |-> w.bounds, visited |-> w.visited,
          steps |-> w.steps, inspected |-> w.inspected, accepted |-> w.accepted,
          skipped |-> w.skipped, terminal |-> w.terminal]
  /\ IsSeq(w.visited) /\ IsSeq(w.steps)

SnapshotInv ==
  /\ request \in Requests
  /\ state \in {"build", "rank", "start", "walk", "tiers", "done"}
  /\ state \in {"rank", "start", "walk", "tiers"} => GoodSnapshot(snapshot)
  /\ state # "done" => result = "pending"

\* before a packet is made of them
IdleInv ==
  /\ state \in {"build", "rank"} => ~ edited
  /\ state \in {"build", "rank", "start", "walk"} =>
       admitted = <<>> /\ omissions = <<>> /\ covered.domains = {}

RankInv ==
  /\ state \in {"start", "walk", "tiers"} => RankTyped(ranking)
  /\ state \in {"start", "walk"} /\ ~ edited =>
       GoodSnapshot(ranking.of) /\ RankingAccepted(ranking.of, ranking)
  /\ result \in {"InvalidRankingReceipt", "InvalidTraversalReceipt"} =>
       edited \/ ranking.of # snapshot

\* a node of the walk: its path is one of the code's, leads over visited nodes
\* and is a shortest one
PathGood(w, i) ==
  LET near(d) == Within(w.of, w.seed.value, Allowed(w), d)
      length == Len(w.steps[i])
  IN /\ PathAccepted(w.of, w, i)
     /\ Range(PathNodes(w.seed.value, w.steps[i])) \subseteq Range(w.visited)
     /\ w.visited[i] \in near(length)
     /\ length > 0 => w.visited[i] \notin near(length - 1)

\* what the receipt says, wherever the walk is
WalkSound(w) ==
  /\ WalkTyped(w)
  /\ GoodSnapshot(w.of) /\ LimitsValid(w.bounds)
  /\ LET kinds == w.bounds.relationships
     IN kinds # <<>> /\ IsInjective(kinds) /\ Range(kinds) \subseteq TraversableKinds
  /\ w.visited \in Seq(Ids(w.of)) /\ w.steps \in Seq(Seq(w.of.edges))
  /\ Len(w.steps) = Len(w.visited) /\ Len(w.visited) \in 1 .. w.bounds.nodes
  /\ w.visited[1] = w.seed.value /\ w.steps[1] = <<>> /\ IsInjective(w.visited)
  /\ w.accepted = Len(w.visited) - 1 /\ w.inspected \in w.accepted .. w.bounds.edges
  /\ w.skipped \in Seq({e \in w.of.edges : e.certainty # "Known" /\ e.kind \in Allowed(w)})
  /\ \A i \in 1 .. Len(w.visited) : PathGood(w, i)

\* every allowed edge of the node leads to a node that was visited
LinksFound(w, n) ==
  \A e \in Links(w.of, Allowed(w)) : n \in {e.source, e.target} => Other(e, n) \in Range(w.visited)

\* the queue of a walk: visited nodes in the order of their distance, up to
\* which everything has been visited; the others have been left
WalkSearch(w, q) ==
  /\ q \in Seq([node : Ids(w.of), steps : Seq(w.of.edges)])
  /\ \A i \in 1 .. Len(q) : \E j \in 1 .. Len(w.visited) : q[i] = [node |-> w.visited[j], steps |-> w.steps[j]]
  /\ \A i, j \in 1 .. Len(q) : i <= j =>
       Len(q[i].steps) <= Len(q[j].steps) /\ Len(q[j].steps) <= Len(q[i].steps) + 1
  /\ q # <<>> =>
       Within(w.of, w.seed.value, Allowed(w), Len(q[1].steps)) \subseteq Range(w.visited)
  /\ \A n \in Range(w.visited) : LinksFound(w, n) \/ \E i \in 1 .. Len(q) : q[i].node = n

\* the node that is being left: what its edges lead to was visited, or they
\* are still to be inspected
WalkTodo(w, q, t) ==
  t # <<>> =>
    /\ q # <<>> /\ Len(q[1].steps) < w.bounds.depth
    /\ t \in Seq(Sides(w, q[1].node))
    /\ \A e \in Links(w.of, Allowed(w)) : q[1].node \in {e.source, e.target} =>
         Other(e, q[1].node) \in Range(w.visited) \/ \E i \in 1 .. Len(t) : t[i].edge = e

\* what WalkIsHonest says of a walk that has ended
Honest(w) ==
  LET far == Within(w.of, w.seed.value, Allowed(w), Cardinality(Ids(w.of)))
  IN /\ w.terminal = "Complete" => Range(w.visited) = far
     /\ w.terminal \in {"DepthLimit", "NodeLimit"} => Range(w.visited) # far
     /\ \A i \in DOMAIN w.visited : Len(w.steps[i]) > 0 =>
          w.visited[i] \notin Within(w.of, w.seed.value, Allowed(w), Len(w.steps[i]) - 1)

\* a walk with its queue and the edges of the node that is being left
Walking(w, q, t) ==
  /\ WalkSound(w)
  /\ w.terminal = "Running" => WalkSearch(w, q) /\ WalkTodo(w, q, t)
  /\ w.terminal # "Running" => TerminalBound(w) /\ Honest(w)

WalkInv ==
  /\ state \in {"build", "rank", "start"} => walk = NoValue /\ leaving = <<>> /\ todo = <<>>
  /\ state = "start" /\ edited => request.walk = NoValue
  /\ state = "walk" => WalkTyped(walk)
  /\ state = "tiers" => walk = NoValue \/ WalkTyped(walk)
  /\ state = "walk" /\ edited => walk.terminal # "Running"
  /\ state = "walk" /\ walk.terminal # "Running" => todo = <<>>
  /\ state = "walk" /\ ~ edited => Walking(walk, leaving, todo)
  /\ WalkIsHonest

\* an item, as it was admitted
ItemGood(s, w, item) ==
  /\ item.node \in Ids(s)
  /\ ~ item.non_authoritative => s.attr[item.node].life = "Current" /\ s.attr[item.node].gen = "Source"
  /\ item.trail # <<>> =>
       w # NoValue /\ \E j \in DOMAIN w.visited : item.node = w.visited[j] /\ item.trail = w.steps[j]

\* what has become of an entry of the agenda
Handled(s, packed, dropped, entry) ==
  /\ entry.tier = "Primary" /\ Authoritative(s.attr[entry.node]) =>
       \E i \in DOMAIN packed : packed[i].node = entry.node /\ packed[i].tier = "Primary"
  /\ entry.tier = "Conflict" =>
       \/ \E i \in DOMAIN packed : packed[i].node = entry.node
       \/ \E i \in DOMAIN dropped : dropped[i].node = entry.node

\* a packet that is being made from an agenda, of which ahead is still to come;
\* the first primary entries are the selected nodes
Packed(s, w, agenda, primary, packed, dropped, domains, ahead) ==
  /\ IsSeq(packed) /\ IsSeq(dropped) /\ IsSeq(ahead) /\ Len(ahead) <= Len(agenda)
  /\ \A i \in 1 .. Len(ahead) : ahead[i] = agenda[Len(agenda) - Len(ahead) + i]
  /\ \A i \in 1 .. Len(agenda) - Len(ahead) : Handled(s, packed, dropped, agenda[i])
  /\ Len(agenda) - Len(ahead) < primary =>
       dropped = <<>> /\ \A i \in 1 .. Len(packed) : packed[i].tier = "Primary"
  /\ \A i, j \in 1 .. Len(packed) : packed[i].node = packed[j].node => i = j
  /\ \A i \in 1 .. Len(packed) : ItemGood(s, w, packed[i])
  /\ \A d \in domains : \E i \in 1 .. Len(packed) :
       d \in s.attr[packed[i].node].domains /\ ~ packed[i].non_authoritative

\* the receipts a packet is made from
Received ==
  /\ GoodSnapshot(snapshot) /\ RankTyped(ranking) /\ (walk = NoValue \/ WalkTyped(walk))
  /\ PacketError(snapshot, request, ranking, walk) = "none"

TierInv ==
  /\ state = "tiers" \/ Finished =>
       /\ Received
       /\ Packed(snapshot, walk, Agenda, Len(ranking.selected), admitted, omissions, covered.domains, due)
  /\ Finished => state = "done" /\ due = <<>> /\ (result = "sufficient" => MissingDomains = {})

StructuralInv == SnapshotInv /\ IdleInv /\ RankInv /\ WalkInv /\ TierInv

\* A recursion over 0 .. N, each value made from its place and the one before.
Recursion(S, b, G, N, f) ==
  f \in [0 .. N -> S] /\ \A k \in 0 .. N : f[k] = IF k = 0 THEN b ELSE G[<<k, f[k - 1]>>]

\* Such a recursion has a value.
LEMMA RecursionExists ==
  ASSUME NEW S, NEW b \in S, NEW N \in Nat, NEW G \in [(1 .. N) \X S -> S]
  PROVE  \E f : Recursion(S, b, G, N, f)
<1> DEFINE Bad == {m \in 0 .. N : ~ \E f : Recursion(S, b, G, m, f)}
<1>1. SUFFICES ASSUME Bad # {} PROVE FALSE
  OBVIOUS
<1>2. PICK m \in Bad : \A q \in Bad : m <= q
  <2> Bad \in SUBSET Nat
    OBVIOUS
  <2> HIDE DEF Bad
  <2> QED
    BY <1>1, LeastNatural
<1>3. CASE m = 0
  <2>1. Recursion(S, b, G, 0, [k \in 0 .. 0 |-> b])
    BY DEF Recursion
  <2> QED
    BY <2>1, <1>3, <1>2
<1>4. CASE m # 0
  <2>1. m \in 1 .. N /\ m - 1 \in 0 .. N /\ m - 1 \notin Bad
    BY <1>2, <1>4
  <2>2. PICK g : Recursion(S, b, G, m - 1, g)
    BY <2>1
  <2>3. g[m - 1] \in S /\ <<m, g[m - 1]>> \in (1 .. N) \X S
    BY <2>1, <2>2 DEF Recursion
  <2>4. G[<<m, g[m - 1]>>] \in S
    BY <2>3
  <2> DEFINE f == [k \in 0 .. m |-> IF k < m THEN g[k] ELSE G[<<m, g[m - 1]>>]]
  <2>5. f \in [0 .. m -> S]
    BY <2>1, <2>2, <2>4 DEF Recursion
  <2>6. ASSUME NEW k \in 0 .. m
        PROVE  f[k] = IF k = 0 THEN b ELSE G[<<k, f[k - 1]>>]
    <3>1. CASE k = m
      BY <2>1, <3>1
    <3>2. CASE k # m
      <4>1. k \in 0 .. m - 1 /\ (k # 0 => k - 1 \in 0 .. m - 1)
        BY <3>2, <2>1
      <4>2. f[k] = g[k] /\ (k # 0 => f[k - 1] = g[k - 1])
        BY <2>1, <4>1
      <4> QED
        BY <2>2, <4>1, <4>2 DEF Recursion
    <3> QED
      BY <3>1, <3>2
  <2>7. Recursion(S, b, G, m, f)
    BY <2>5, <2>6 DEF Recursion
  <2> QED
    BY <2>7, <1>2
<1> QED
  BY <1>3, <1>4

\* What holds of 0 and of each number after one of which it holds, up to N.
LEMMA UpwardsTo ==
  ASSUME NEW N \in Nat, NEW H \in SUBSET Nat, 0 \in H,
         \A k \in 1 .. N : k - 1 \in H => k \in H
  PROVE  0 .. N \subseteq H
<1> DEFINE Bad == {k \in 0 .. N : k \notin H}
<1>1. SUFFICES ASSUME Bad # {} PROVE FALSE
  OBVIOUS
<1>2. Bad \in SUBSET Nat
  OBVIOUS
<1>3. PICK k \in Bad : \A q \in Bad : k <= q
  <2> HIDE DEF Bad
  <2> QED
    BY <1>1, <1>2, LeastNatural
<1>4. k \in 1 .. N /\ k - 1 \in 0 .. N /\ k - 1 \notin Bad
  BY <1>3
<1> QED
  BY <1>3, <1>4
(***************************************************************************)
(* The structural packet: sequences                                        *)
(***************************************************************************)
\* A sequence without repetitions is as long as the set of its entries.
LEMMA InjectiveCounts ==
  ASSUME NEW S, NEW seq \in Seq(S), IsInjective(seq)
  PROVE  IsFiniteSet(Range(seq)) /\ Cardinality(Range(seq)) = Len(seq)
<1>1. Len(seq) \in Nat /\ DOMAIN seq = 1 .. Len(seq)
  OBVIOUS
<1>2. seq \in Bijection(1 .. Len(seq), Range(seq))
  BY <1>1 DEF Bijection, Injection, IsInjective, Surjection, Range
<1>3. ExistsBijection(1 .. Len(seq), Range(seq))
  BY <1>2 DEF ExistsBijection
<1> QED
  BY <1>1, <1>3, UpTo, FS_Bijection

\* What Filtered makes of the first entries of a sequence.
FilteredOf(S, seq, keep, k, t) ==
  /\ t \in Seq(S)
  /\ Range(t) = {seq[i] : i \in 1 .. k} \cap keep
  /\ IsInjective(seq) => IsInjective(t)

\* One entry more is kept or passed over.
LEMMA FilteredStep ==
  ASSUME NEW S, NEW seq \in Seq(S), NEW keep, NEW k \in 1 .. Len(seq), NEW t,
         FilteredOf(S, seq, keep, k - 1, t)
  PROVE  FilteredOf(S, seq, keep, k, IF seq[k] \in keep THEN Append(t, seq[k]) ELSE t)
<1> DEFINE u == IF seq[k] \in keep THEN Append(t, seq[k]) ELSE t
<1>1. /\ t \in Seq(S) /\ Range(t) = {seq[i] : i \in 1 .. k - 1} \cap keep
      /\ Len(seq) \in Nat /\ DOMAIN seq = 1 .. Len(seq) /\ seq[k] \in S
  BY DEF FilteredOf
<1>2. {seq[i] : i \in 1 .. k} = {seq[i] : i \in 1 .. k - 1} \cup {seq[k]}
  <2>1. k \in Nat /\ 1 .. k = (1 .. k - 1) \cup {k}
    BY <1>1
  <2> QED
    BY <2>1, Zenon
<1>3. CASE seq[k] \in keep
  <2>1. u = Append(t, seq[k])
    BY <1>3
  <2>2. Append(t, seq[k]) \in Seq(S) /\ Range(Append(t, seq[k])) = Range(t) \cup {seq[k]}
    <3>1. Len(t) \in Nat /\ DOMAIN t = 1 .. Len(t) /\ DOMAIN Append(t, seq[k]) = 1 .. Len(t) + 1
          /\ \A i \in 1 .. Len(t) : Append(t, seq[k])[i] = t[i]
          /\ Append(t, seq[k])[Len(t) + 1] = seq[k] /\ Append(t, seq[k]) \in Seq(S)
      BY <1>1
    <3>2. 1 .. Len(t) + 1 = (1 .. Len(t)) \cup {Len(t) + 1}
      BY <3>1
    <3>3. {Append(t, seq[k])[i] : i \in 1 .. Len(t) + 1}
            = {Append(t, seq[k])[i] : i \in 1 .. Len(t)} \cup {Append(t, seq[k])[Len(t) + 1]}
      BY <3>2, Zenon
    <3>4. {Append(t, seq[k])[i] : i \in 1 .. Len(t)} = {t[i] : i \in 1 .. Len(t)}
      BY <3>1, Zenon
    <3>5. Range(t) = {t[i] : i \in 1 .. Len(t)}
          /\ Range(Append(t, seq[k])) = {Append(t, seq[k])[i] : i \in 1 .. Len(t) + 1}
      BY <3>1, Zenon DEF Range
    <3>6. Range(Append(t, seq[k])) = {t[i] : i \in 1 .. Len(t)} \cup {Append(t, seq[k])[Len(t) + 1]}
      BY <3>3, <3>4, <3>5, Zenon
    <3>7. Append(t, seq[k])[Len(t) + 1] = seq[k] /\ Append(t, seq[k]) \in Seq(S)
      BY <1>1
    <3>8. Range(Append(t, seq[k])) = Range(t) \cup {seq[k]}
      BY <3>5, <3>6, <3>7, Zenon
    <3> QED
      BY <3>7, <3>8
  <2>3. ASSUME IsInjective(seq)
        PROVE  IsInjective(Append(t, seq[k]))
    <3>1. seq[k] \notin Range(t)
      BY <1>1, <2>3 DEF IsInjective
    <3>2. IsInjective(t)
      BY <2>3 DEF FilteredOf
    <3>3. /\ Len(t) \in Nat /\ DOMAIN t = 1 .. Len(t) /\ DOMAIN Append(t, seq[k]) = 1 .. Len(t) + 1
          /\ \A i \in 1 .. Len(t) : Append(t, seq[k])[i] = t[i] /\ t[i] \in Range(t)
          /\ Append(t, seq[k])[Len(t) + 1] = seq[k]
      BY <1>1 DEF Range
    <3>4. \A i, j \in 1 .. Len(t) : t[i] = t[j] => i = j
      BY <3>2, <3>3 DEF IsInjective
    <3>5. ASSUME NEW i \in 1 .. Len(t) + 1, NEW j \in 1 .. Len(t) + 1,
                 Append(t, seq[k])[i] = Append(t, seq[k])[j]
          PROVE  i = j
      <4>1. (i \in 1 .. Len(t) \/ i = Len(t) + 1) /\ (j \in 1 .. Len(t) \/ j = Len(t) + 1)
        BY <3>3
      <4> QED
        BY <4>1, <3>1, <3>3, <3>4, <3>5, Zenon
    <3> QED
      BY <3>3, <3>5 DEF IsInjective
  <2> QED
    BY <1>1, <1>2, <1>3, <2>1, <2>2, <2>3 DEF FilteredOf
<1>4. CASE seq[k] \notin keep
  <2>1. u = t /\ {seq[i] : i \in 1 .. k} \cap keep = {seq[i] : i \in 1 .. k - 1} \cap keep
    BY <1>2, <1>4
  <2> QED
    BY <2>1, Zenon DEF FilteredOf
<1> QED
  BY <1>3, <1>4

\* Filtered keeps the entries that are in the set, each as often as it was there.
LEMMA FilteredIs ==
  ASSUME NEW S, NEW seq \in Seq(S), NEW keep
  PROVE  /\ Filtered(seq, keep) \in Seq(S)
         /\ Range(Filtered(seq, keep)) = Range(seq) \cap keep
         /\ IsInjective(seq) => IsInjective(Filtered(seq, keep))
<1> DEFINE N == Len(seq)
           Taken(k, t) == IF seq[k] \in keep THEN Append(t, seq[k]) ELSE t
           G == [p \in (1 .. N) \X Seq(S) |-> Taken(p[1], p[2])]
           Is(f) == f = [i \in 0 .. N |-> IF i = 0 THEN <<>> ELSE
                           IF seq[i] \in keep THEN Append(f[i - 1], seq[i]) ELSE f[i - 1]]
<1>1. N \in Nat /\ DOMAIN seq = 1 .. N /\ \A i \in 1 .. N : seq[i] \in S
  OBVIOUS
<1>2. G \in [(1 .. N) \X Seq(S) -> Seq(S)]
  BY <1>1
<1>3. PICK f : Recursion(Seq(S), <<>>, G, N, f)
  <2>1. <<>> \in Seq(S)
    OBVIOUS
  <2> HIDE DEF G
  <2> QED
    BY <1>1, <1>2, <2>1, RecursionExists
<1>4. \A k \in 1 .. N : G[<<k, f[k - 1]>>] = Taken(k, f[k - 1])
  <2>1. \A k \in 1 .. N : f[k - 1] \in Seq(S)
    BY <1>3, <1>1 DEF Recursion
  <2> QED
    BY <2>1
<1>5. Is(f)
  <2>1. \A k \in 0 .. N : f[k] = IF k = 0 THEN <<>> ELSE Taken(k, f[k - 1])
    <3>1. \A k \in 0 .. N : k = 0 \/ k \in 1 .. N
      BY <1>1
    <3> HIDE DEF G, Taken
    <3> QED
      BY <3>1, <1>3, <1>4, Zenon DEF Recursion
  <2>2. f \in [0 .. N -> Seq(S)]
    BY <1>3 DEF Recursion
  <2> HIDE DEF G
  <2> QED
    BY <1>1, <2>1, <2>2
<1>6. PICK g : Is(g) /\ Filtered(seq, keep) = g[N]
  <2> DEFINE g == CHOOSE h : Is(h)
  <2>1. Filtered(seq, keep) = g[N]
    BY DEF Filtered
  <2>2. Is(g)
    <3> HIDE DEF Is
    <3> QED
      BY <1>5, Zenon
  <2> QED
    BY <2>1, <2>2
<1>7. g[0] = <<>> /\ \A k \in 1 .. N : g[k] = Taken(k, g[k - 1])
  <2>1. \A k \in 0 .. N : g[k] = IF k = 0 THEN <<>> ELSE
           IF seq[k] \in keep THEN Append(g[k - 1], seq[k]) ELSE g[k - 1]
    BY <1>6, Zenon
  <2>2. 0 \in 0 .. N /\ \A k \in 1 .. N : k \in 0 .. N /\ k # 0
    BY <1>1
  <2> QED
    BY <2>1, <2>2, Zenon
<1> DEFINE H == {k \in 0 .. N : FilteredOf(S, seq, keep, k, g[k])}
<1>8. 0 \in H
  <2>1. {seq[i] : i \in 1 .. 0} = {} /\ Range(<<>>) = {} /\ IsInjective(<<>>) /\ <<>> \in Seq(S)
    BY DEF Range, IsInjective
  <2>2. FilteredOf(S, seq, keep, 0, <<>>)
    BY <2>1, Zenon DEF FilteredOf
  <2> QED
    BY <1>1, <1>7, <2>2
<1>9. ASSUME NEW k \in 1 .. N, k - 1 \in H
      PROVE  k \in H
  <2>1. FilteredOf(S, seq, keep, k, Taken(k, g[k - 1]))
    BY <1>9, FilteredStep
  <2> QED
    BY <1>1, <1>7, <2>1
<1>10. N \in H
  <2>1. H \in SUBSET Nat /\ N \in 0 .. N
    BY <1>1
  <2> HIDE DEF H
  <2>2. 0 .. N \subseteq H
    BY <1>1, <2>1, <1>8, <1>9, UpwardsTo
  <2> QED
    BY <2>1, <2>2
<1>11. FilteredOf(S, seq, keep, N, Filtered(seq, keep))
  BY <1>6, <1>10
<1> QED
  BY <1>1, <1>11 DEF FilteredOf, Range

(***************************************************************************)
(* The structural packet: paths and distances                              *)
(***************************************************************************)
\* A path goes from node to node, each step from one end of its edge to the other.
LEMMA PathNodesIs ==
  ASSUME NEW seed, NEW E, NEW steps \in Seq(E)
  PROVE  LET at == PathNodes(seed, steps) IN
         /\ DOMAIN at = 0 .. Len(steps) /\ at[0] = seed
         /\ \A k \in 1 .. Len(steps) : at[k] = Other(steps[k], at[k - 1])
<1> DEFINE N == Len(steps)
           S == {seed} \cup UNION {{steps[i].source, steps[i].target} : i \in 1 .. N}
           G == [p \in (1 .. N) \X S |-> Other(steps[p[1]], p[2])]
           Is(f) == f = [i \in 0 .. N |-> IF i = 0 THEN seed ELSE Other(steps[i], f[i - 1])]
<1>1. N \in Nat
  OBVIOUS
<1>2. G \in [(1 .. N) \X S -> S]
  <2>1. \A i \in 1 .. N, n \in S : Other(steps[i], n) \in S
    BY DEF Other
  <2> HIDE DEF S
  <2> QED
    BY <2>1
<1>3. PICK f : Recursion(S, seed, G, N, f)
  <2>1. seed \in S
    OBVIOUS
  <2> HIDE DEF G, S
  <2> QED
    BY <1>1, <1>2, <2>1, RecursionExists
<1>4. \A k \in 1 .. N : G[<<k, f[k - 1]>>] = Other(steps[k], f[k - 1])
  <2> HIDE DEF S
  <2>1. \A k \in 1 .. N : f[k - 1] \in S
    BY <1>3, <1>1 DEF Recursion
  <2> QED
    BY <2>1
<1>5. Is(f)
  <2>1. \A k \in 0 .. N : k = 0 \/ k \in 1 .. N
    BY <1>1
  <2>2. \A k \in 0 .. N : f[k] = IF k = 0 THEN seed ELSE Other(steps[k], f[k - 1])
    <3> HIDE DEF G, S
    <3> QED
      BY <2>1, <1>3, <1>4, Zenon DEF Recursion
  <2>3. f \in [0 .. N -> S]
    BY <1>3 DEF Recursion
  <2> HIDE DEF G, S
  <2> QED
    BY <1>1, <2>2, <2>3
<1>6. PICK g : Is(g) /\ PathNodes(seed, steps) = g
  <2> DEFINE g == CHOOSE h : Is(h)
  <2>1. PathNodes(seed, steps) = g
    BY DEF PathNodes
  <2>2. Is(g)
    <3> HIDE DEF Is
    <3> QED
      BY <1>5, Zenon
  <2> QED
    BY <2>1, <2>2
<1>7. \A k \in 0 .. N : g[k] = IF k = 0 THEN seed ELSE Other(steps[k], g[k - 1])
  BY <1>6, Zenon
<1>8. 0 \in 0 .. N /\ \A k \in 1 .. N : k \in 0 .. N /\ k # 0
  BY <1>1
<1>9. g[0] = seed /\ \A k \in 1 .. N : g[k] = Other(steps[k], g[k - 1])
  BY <1>7, <1>8, Zenon
<1>10. DOMAIN g = 0 .. N
  BY <1>6
<1> QED
  BY <1>6, <1>9, <1>10

\* A step more leaves the path as it was and adds a node.
LEMMA PathNodesGrow ==
  ASSUME NEW seed, NEW E, NEW steps \in Seq(E), NEW e \in E
  PROVE  LET at == PathNodes(seed, steps)
             on == PathNodes(seed, Append(steps, e))
         IN /\ DOMAIN on = 0 .. Len(steps) + 1
            /\ \A k \in 0 .. Len(steps) : on[k] = at[k]
            /\ on[Len(steps) + 1] = Other(e, at[Len(steps)])
<1> DEFINE N == Len(steps)
           longer == Append(steps, e)
           at == PathNodes(seed, steps)
           on == PathNodes(seed, longer)
<1>1. /\ N \in Nat /\ longer \in Seq(E) /\ Len(longer) = N + 1 /\ longer[N + 1] = e
      /\ \A k \in 1 .. N : longer[k] = steps[k]
  OBVIOUS
<1>2. /\ DOMAIN at = 0 .. N /\ at[0] = seed
      /\ \A k \in 1 .. N : at[k] = Other(steps[k], at[k - 1])
  BY PathNodesIs
<1>3. /\ DOMAIN on = 0 .. Len(longer) /\ on[0] = seed
      /\ \A k \in 1 .. Len(longer) : on[k] = Other(longer[k], on[k - 1])
  <2> HIDE DEF longer
  <2> QED
    BY <1>1, PathNodesIs
<1> HIDE DEF at, on, longer
<1> DEFINE H == {k \in 0 .. N : on[k] = at[k]}
<1>4. 0 \in H
  BY <1>1, <1>2, <1>3
<1>5. ASSUME NEW k \in 1 .. N, k - 1 \in H
      PROVE  k \in H
  <2>1. on[k] = Other(longer[k], on[k - 1]) /\ at[k] = Other(steps[k], at[k - 1]) /\ longer[k] = steps[k]
    BY <1>1, <1>2, <1>3
  <2>2. on[k - 1] = at[k - 1]
    BY <1>5
  <2> QED
    BY <1>1, <2>1, <2>2
<1>6. 0 .. N \subseteq H
  <2>1. H \in SUBSET Nat
    OBVIOUS
  <2> HIDE DEF H
  <2> QED
    BY <1>1, <1>4, <1>5, <2>1, UpwardsTo
<1>7. \A k \in 0 .. N : on[k] = at[k]
  BY <1>6
<1>8. N + 1 \in 1 .. Len(longer) /\ (N + 1) - 1 = N /\ N \in 0 .. N
  BY <1>1
<1>9. on[N + 1] = Other(longer[N + 1], on[(N + 1) - 1])
  BY <1>3, <1>8, Zenon
<1>10. on[N + 1] = Other(e, at[N])
  BY <1>1, <1>7, <1>8, <1>9, Zenon
<1> QED
  BY <1>1, <1>3, <1>7, <1>10 DEF at, on, longer

Meeting(s, kinds, A) ==
  A \cup UNION {{e.source, e.target} : e \in {f \in Links(s, kinds) : {f.source, f.target} \cap A # {}}}
ReachedBy(s, seed, kinds, N, g) ==
  g[0] = {seed} /\ \A k \in 1 .. N : g[k] = Meeting(s, kinds, g[k - 1])

\* The recursion of Within has a value.
LEMMA WithinBy ==
  ASSUME NEW s, NEW seed, NEW kinds, NEW N \in Nat
  PROVE  \E g : ReachedBy(s, seed, kinds, N, g) /\ Within(s, seed, kinds, N) = g[N]
<1> DEFINE X == {seed} \cup UNION {{e.source, e.target} : e \in Links(s, kinds)}
           F == [A \in SUBSET X |-> Meeting(s, kinds, A)]
           Met(A) == A \cup UNION {{e.source, e.target} :
                       e \in {f \in {e \in Known(s) : e.kind \in kinds} : {f.source, f.target} \cap A # {}}}
           Is(f) == f = [k \in 0 .. N |-> IF k = 0 THEN {seed} ELSE Met(f[k - 1])]
<1>1. \A A : Met(A) = Meeting(s, kinds, A)
  BY DEF Meeting, Links
<1>2. F \in [SUBSET X -> SUBSET X]
  BY DEF Meeting
<1>3. {seed} \in SUBSET X
  OBVIOUS
<1>4. PICK f : Iterate(SUBSET X, {seed}, F, N, f)
  <2> HIDE DEF F, X
  <2> QED
    BY <1>2, <1>3, IterationExists
<1>5. Is(f)
  <2>1. \A k \in 0 .. N : k # 0 => f[k - 1] \in SUBSET X
    <3> HIDE DEF F, X
    <3> QED
      BY <1>4 DEF Iterate
  <2>2. \A k \in 0 .. N : k # 0 => F[f[k - 1]] = Met(f[k - 1])
    <3> HIDE DEF X, Met
    <3> QED
      BY <2>1, <1>1
  <2>3. \A k \in 0 .. N : f[k] = IF k = 0 THEN {seed} ELSE Met(f[k - 1])
    <3> HIDE DEF X, Met, F
    <3> QED
      BY <1>4, <2>2, Zenon DEF Iterate
  <2>4. f \in [0 .. N -> SUBSET X]
    BY <1>4 DEF Iterate
  <2> HIDE DEF X, Met, F
  <2> QED
    BY <2>3, <2>4
<1>6. PICK g : Is(g) /\ Within(s, seed, kinds, N) = g[N]
  <2> DEFINE g == CHOOSE h : Is(h)
  <2>1. Within(s, seed, kinds, N) = g[N]
    BY DEF Within
  <2>2. Is(g)
    <3> HIDE DEF Is
    <3> QED
      BY <1>5, Zenon
  <2> QED
    BY <2>1, <2>2
<1> HIDE DEF Met
<1>7. \A k \in 0 .. N : g[k] = IF k = 0 THEN {seed} ELSE Met(g[k - 1])
  BY <1>6, Zenon
<1>8. 0 \in 0 .. N /\ \A k \in 1 .. N : k \in 0 .. N /\ k # 0
  OBVIOUS
<1>9. ReachedBy(s, seed, kinds, N, g)
  BY <1>1, <1>7, <1>8, Zenon DEF ReachedBy
<1> QED
  BY <1>6, <1>9, Zenon

\* Within no step is the seed.
LEMMA WithinNone ==
  ASSUME NEW s, NEW seed, NEW kinds
  PROVE  Within(s, seed, kinds, 0) = {seed}
<1>1. PICK g : ReachedBy(s, seed, kinds, 0, g) /\ Within(s, seed, kinds, 0) = g[0]
  BY WithinBy
<1> QED
  BY <1>1 DEF ReachedBy

\* The nodes within a step more are those that meet an edge of one of them.
LEMMA WithinNext ==
  ASSUME NEW s, NEW seed, NEW kinds, NEW d \in Nat
  PROVE  Within(s, seed, kinds, d + 1) = Meeting(s, kinds, Within(s, seed, kinds, d))
<1>1. PICK g : ReachedBy(s, seed, kinds, d, g) /\ Within(s, seed, kinds, d) = g[d]
  BY WithinBy
<1>2. PICK h : ReachedBy(s, seed, kinds, d + 1, h) /\ Within(s, seed, kinds, d + 1) = h[d + 1]
  <2>1. d + 1 \in Nat
    OBVIOUS
  <2> QED
    BY <2>1, WithinBy
<1> DEFINE H == {k \in 0 .. d : g[k] = h[k]}
<1>3. 0 \in H
  BY <1>1, <1>2 DEF ReachedBy
<1>4. ASSUME NEW k \in 1 .. d, k - 1 \in H
      PROVE  k \in H
  <2>1. k \in 1 .. d + 1 /\ k \in 0 .. d
    OBVIOUS
  <2>2. g[k] = Meeting(s, kinds, g[k - 1]) /\ h[k] = Meeting(s, kinds, h[k - 1])
    BY <1>1, <1>2, <2>1, Zenon DEF ReachedBy
  <2>3. g[k - 1] = h[k - 1]
    BY <1>4
  <2> QED
    BY <2>1, <2>2, <2>3
<1>5. 0 .. d \subseteq H
  <2>1. H \in SUBSET Nat
    OBVIOUS
  <2> HIDE DEF H
  <2> QED
    BY <1>3, <1>4, <2>1, UpwardsTo
<1>6. g[d] = h[d]
  BY <1>5
<1>7. d + 1 \in 1 .. d + 1 /\ (d + 1) - 1 = d
  OBVIOUS
<1>8. h[d + 1] = Meeting(s, kinds, h[d])
  BY <1>2, <1>7 DEF ReachedBy
<1> QED
  BY <1>1, <1>2, <1>6, <1>8

\* A step over an allowed edge leads one further.
LEMMA WithinStep ==
  ASSUME NEW s, NEW seed, NEW kinds, NEW d \in Nat, NEW n \in Within(s, seed, kinds, d),
         NEW e \in Links(s, kinds), n \in {e.source, e.target}
  PROVE  Other(e, n) \in Within(s, seed, kinds, d + 1)
<1>1. Other(e, n) \in {e.source, e.target}
  BY DEF Other
<1>2. {e.source, e.target} \cap Within(s, seed, kinds, d) # {}
  OBVIOUS
<1>3. Other(e, n) \in Meeting(s, kinds, Within(s, seed, kinds, d))
  BY <1>1, <1>2 DEF Meeting
<1>4. Within(s, seed, kinds, d + 1) = Meeting(s, kinds, Within(s, seed, kinds, d))
  BY WithinNext
<1> QED
  BY <1>3, <1>4

\* What is one step further was reached over an allowed edge.
LEMMA WithinBack ==
  ASSUME NEW s, NEW seed, NEW kinds, NEW d \in Nat,
         NEW m \in Within(s, seed, kinds, d + 1) \ Within(s, seed, kinds, d)
  PROVE  \E n \in Within(s, seed, kinds, d), e \in Links(s, kinds) :
           n \in {e.source, e.target} /\ m = Other(e, n)
<1>5. Within(s, seed, kinds, d + 1) = Meeting(s, kinds, Within(s, seed, kinds, d))
  BY WithinNext
<1>1. m \in Meeting(s, kinds, Within(s, seed, kinds, d))
  BY <1>5
<1>2. PICK e \in Links(s, kinds) : {e.source, e.target} \cap Within(s, seed, kinds, d) # {} /\ m \in {e.source, e.target}
  BY <1>1 DEF Meeting
<1>3. PICK n \in Within(s, seed, kinds, d) : n \in {e.source, e.target}
  BY <1>2
<1>4. m = Other(e, n)
  BY <1>2, <1>3 DEF Other
<1> QED
  BY <1>3, <1>4

\* Nearer nodes are among those within more steps.
LEMMA WithinGrows ==
  ASSUME NEW s, NEW seed, NEW kinds, NEW d \in Nat, NEW c \in 0 .. d
  PROVE  Within(s, seed, kinds, c) \subseteq Within(s, seed, kinds, d)
<1> DEFINE w(k) == Within(s, seed, kinds, k)
           H == {k \in Nat : w(c) \subseteq w(c + k)}
<1>1. \A k \in Nat : w(k) \subseteq w(k + 1)
  <2>1. \A k \in Nat : w(k + 1) = Meeting(s, kinds, w(k))
    BY WithinNext
  <2> HIDE DEF w
  <2> QED
    BY <2>1 DEF Meeting
<1> HIDE DEF w
<1>2. 0 \in H
  OBVIOUS
<1>3. ASSUME NEW k \in 1 .. d - c, k - 1 \in H
      PROVE  k \in H
  <2>1. k \in Nat /\ c + (k - 1) \in Nat /\ (c + (k - 1)) + 1 = c + k
    OBVIOUS
  <2>2. w(c + (k - 1)) \subseteq w(c + k)
    BY <1>1, <2>1
  <2>3. w(c) \subseteq w(c + (k - 1))
    BY <1>3
  <2> QED
    BY <2>1, <2>2, <2>3
<1>4. 0 .. d - c \subseteq H
  <2>1. H \in SUBSET Nat /\ d - c \in Nat
    OBVIOUS
  <2> HIDE DEF H
  <2> QED
    BY <1>2, <1>3, <2>1, UpwardsTo
<1>5. d - c \in H /\ c + (d - c) = d
  BY <1>4
<1> QED
  BY <1>5 DEF w

\* What holds the seed and is closed under allowed edges holds all that can be reached.
LEMMA WithinLeast ==
  ASSUME NEW s, NEW seed, NEW kinds, NEW S, seed \in S, NEW d \in Nat,
         \A n \in S, e \in Links(s, kinds) : n \in {e.source, e.target} => Other(e, n) \in S
  PROVE  Within(s, seed, kinds, d) \subseteq S
<1> DEFINE w(k) == Within(s, seed, kinds, k)
           H == {k \in Nat : w(k) \subseteq S}
<1>1. w(0) = {seed}
  BY WithinNone
<1>2. 0 \in H
  BY <1>1
<1>3. ASSUME NEW k \in 1 .. d, k - 1 \in H
      PROVE  k \in H
  <2>1. k \in Nat /\ k - 1 \in Nat /\ (k - 1) + 1 = k
    OBVIOUS
  <2>2. w(k - 1) \subseteq S
    BY <1>3
  <2>3. ASSUME NEW m \in w((k - 1) + 1) \ w(k - 1)
        PROVE  m \in S
    <3>1. \E n \in w(k - 1), e \in Links(s, kinds) : n \in {e.source, e.target} /\ m = Other(e, n)
      BY <2>1, <2>3, WithinBack
    <3> QED
      BY <2>2, <3>1
  <2> QED
    BY <2>1, <2>2, <2>3
<1>4. 0 .. d \subseteq H
  <2>1. H \in SUBSET Nat
    OBVIOUS
  <2> HIDE DEF H
  <2> QED
    BY <1>2, <1>3, <2>1, UpwardsTo
<1> QED
  BY <1>4

(***************************************************************************)
(* The structural packet: receipts of the ranker                           *)
(***************************************************************************)
\* A snapshot that was built is finite, and known edges lead from node to node.
LEMMA SnapshotIs ==
  ASSUME NEW s, GoodSnapshot(s)
  PROVE  /\ IsFiniteSet(Ids(s)) /\ IsFiniteSet(s.edges) /\ Cardinality(Ids(s)) \in Nat
         /\ \A e \in Known(s) : e \in s.edges /\ e.source \in Ids(s) /\ e.target \in Ids(s)
<1>1. IsFiniteSet(Ids(s)) /\ IsFiniteSet(s.edges)
  BY StructuralAssumption DEF GoodSnapshot
<1>2. Cardinality(Ids(s)) \in Nat
  BY <1>1, FS_CardinalityType
<1>3. Indexed(s)
  BY DEF GoodSnapshot, BuildFailure
<1>4. \A e \in Known(s) : e \in s.edges /\ e.source \in Ids(s) /\ e.target \in Ids(s)
  BY <1>3 DEF Indexed, Known
<1> QED
  BY <1>1, <1>2, <1>4

\* A sequence is one over its own entries.
LEMMA OwnEntries ==
  ASSUME NEW S, NEW seq \in Seq(S)
  PROVE  /\ seq \in Seq(Range(seq)) /\ Range(seq) \subseteq S
         /\ DOMAIN seq = 1 .. Len(seq) /\ Len(seq) \in Nat
         /\ \A i \in 1 .. Len(seq) : seq[i] \in Range(seq)
<1>1. /\ DOMAIN seq = 1 .. Len(seq) /\ Len(seq) \in Nat
      /\ \A i \in 1 .. Len(seq) : seq[i] \in S
  OBVIOUS
<1>2. /\ Range(seq) \subseteq S
      /\ \A i \in 1 .. Len(seq) : seq[i] \in Range(seq)
  BY <1>1 DEF Range
<1>3. seq \in Seq(Range(seq))
  <2> DEFINE R == Range(seq)
  <2>1. \A i \in 1 .. Len(seq) : seq[i] \in R
    BY <1>2
  <2> HIDE DEF R
  <2>2. seq \in Seq(R)
    BY <1>1, <2>1
  <2> QED
    BY <2>2 DEF R
<1> QED
  BY <1>1, <1>2, <1>3

\* The first entries of a sequence and what they leave of it.
LEMMA PrefixIs ==
  ASSUME NEW S, NEW seq \in Seq(S), NEW n \in 0 .. Len(seq)
  PROVE  LET t == SubSeq(seq, 1, n) IN
         /\ t \in Seq(S) /\ Len(t) = n /\ Range(t) \subseteq Range(seq)
         /\ IsInjective(seq) => IsInjective(t)
<1> DEFINE t == SubSeq(seq, 1, n)
<1>1. t \in Seq(S) /\ Len(t) = n /\ \A i \in 1 .. n : t[i] = seq[i]
  OBVIOUS
<1> HIDE DEF t
<1>2. DOMAIN t = 1 .. n /\ DOMAIN seq = 1 .. Len(seq) /\ 1 .. n \subseteq 1 .. Len(seq)
  BY <1>1
<1>3. Range(t) \subseteq Range(seq)
  BY <1>1, <1>2 DEF Range
<1>4. IsInjective(seq) => IsInjective(t)
  BY <1>1, <1>2 DEF IsInjective
<1> QED
  BY <1>1, <1>3, <1>4 DEF t

\* Two sequences without repetitions that share nothing make one without.
LEMMA JoinedIs ==
  ASSUME NEW S, NEW a \in Seq(S), NEW b \in Seq(S)
  PROVE  /\ a \o b \in Seq(S) /\ Range(a \o b) = Range(a) \cup Range(b) /\ Len(a \o b) = Len(a) + Len(b)
         /\ IsInjective(a) /\ IsInjective(b) /\ Range(a) \cap Range(b) = {} => IsInjective(a \o b)
<1> DEFINE c == a \o b
<1>1. /\ Len(a) \in Nat /\ DOMAIN a = 1 .. Len(a) /\ Len(b) \in Nat /\ DOMAIN b = 1 .. Len(b)
      /\ c \in Seq(S) /\ Len(c) = Len(a) + Len(b) /\ DOMAIN c = 1 .. Len(a) + Len(b)
      /\ \A i \in 1 .. Len(a) : c[i] = a[i]
      /\ \A i \in 1 .. Len(b) : c[Len(a) + i] = b[i]
  OBVIOUS
<1> HIDE DEF c
<1>2. ASSUME NEW i \in 1 .. Len(a) + Len(b), ~ i \in 1 .. Len(a)
      PROVE  i - Len(a) \in 1 .. Len(b) /\ c[i] = b[i - Len(a)]
  <2>1. i - Len(a) \in 1 .. Len(b) /\ Len(a) + (i - Len(a)) = i
    BY <1>1, <1>2
  <2> QED
    BY <1>1, <2>1
<1>3. Range(c) = Range(a) \cup Range(b)
  <2>1. Range(c) \subseteq Range(a) \cup Range(b)
    BY <1>1, <1>2 DEF Range
  <2>2. Range(a) \subseteq Range(c)
    BY <1>1 DEF Range
  <2>3. \A i \in 1 .. Len(b) : Len(a) + i \in 1 .. Len(a) + Len(b)
    BY <1>1
  <2>4. Range(b) \subseteq Range(c)
    BY <1>1, <2>3 DEF Range
  <2> QED
    BY <2>1, <2>2, <2>4
<1>4. ASSUME IsInjective(a), IsInjective(b), Range(a) \cap Range(b) = {}
      PROVE  IsInjective(c)
  <2>1. ASSUME NEW i \in 1 .. Len(a) + Len(b), NEW j \in 1 .. Len(a) + Len(b), c[i] = c[j]
        PROVE  i = j
    <3>1. CASE i \in 1 .. Len(a) /\ j \in 1 .. Len(a)
      BY <1>1, <1>4, <2>1, <3>1 DEF IsInjective
    <3>2. CASE i \notin 1 .. Len(a) /\ j \notin 1 .. Len(a)
      <4>2. /\ i - Len(a) \in 1 .. Len(b) /\ c[i] = b[i - Len(a)]
            /\ j - Len(a) \in 1 .. Len(b) /\ c[j] = b[j - Len(a)]
        BY <1>2, <3>2
      <4>3. \A x, y \in 1 .. Len(b) : b[x] = b[y] => x = y
        BY <1>1, <1>4 DEF IsInjective
      <4>1. i - Len(a) = j - Len(a)
        BY <2>1, <4>2, <4>3, Zenon
      <4> QED
        BY <1>1, <4>1
    <3>3. CASE i \in 1 .. Len(a) /\ j \notin 1 .. Len(a)
      <4>1. c[i] \in Range(a) /\ c[j] \in Range(b)
        BY <1>1, <1>2, <3>3 DEF Range
      <4> QED
        BY <1>4, <2>1, <4>1
    <3>4. CASE i \notin 1 .. Len(a) /\ j \in 1 .. Len(a)
      <4>1. c[i] \in Range(b) /\ c[j] \in Range(a)
        BY <1>1, <1>2, <3>4 DEF Range
      <4> QED
        BY <1>4, <2>1, <4>1
    <3> QED
      BY <3>1, <3>2, <3>3, <3>4
  <2> QED
    BY <1>1, <2>1 DEF IsInjective
<1> QED
  BY <1>1, <1>3, <1>4 DEF c

\* What the ranker writes, the validator accepts.
LEMMA OwnRankingAccepted ==
  ASSUME NEW s, GoodSnapshot(s), NEW r, r.selection \in Nat, NEW order \in RankOrders(s, r)
  PROVE  LET k == RankReceipt(s, r, order) IN RankTyped(k) /\ k.of = s /\ RankingAccepted(s, k)
<1> DEFINE eligible == Filtered(order, {n \in Ids(s) : Eligible(s, n)})
           taken == IF Len(eligible) < r.selection THEN Len(eligible) ELSE r.selection
           chosen == SubSeq(eligible, 1, taken)
           left == Filtered(order, Ids(s) \ Range(chosen))
           against == {n \in Range(left) : OmissionReason(s, n) = "LifecycleConflict"}
           k == RankReceipt(s, r, order)
<1>1. order \in Seq(Ids(s)) /\ IsInjective(order) /\ Range(order) = Ids(s)
  BY SnapshotIs, PermutationIs DEF RankOrders, IsInjective
<1>2. eligible \in Seq(Ids(s)) /\ IsInjective(eligible) /\ Range(eligible) = {n \in Ids(s) : Eligible(s, n)}
  <2> DEFINE keep == {n \in Ids(s) : Eligible(s, n)}
  <2>1. Range(order) \cap keep = keep
    BY <1>1
  <2> HIDE DEF keep
  <2> QED
    BY <1>1, <2>1, FilteredIs DEF keep
<1>3. taken \in 0 .. Len(eligible) /\ taken <= r.selection
  <2> HIDE DEF eligible
  <2>1. Len(eligible) \in Nat
    BY <1>2
  <2> QED
    BY <2>1
<1>4. chosen \in Seq(Ids(s)) /\ Len(chosen) <= r.selection /\ IsInjective(chosen)
      /\ Range(chosen) \subseteq {n \in Ids(s) : Eligible(s, n)}
  <2> HIDE DEF eligible, taken
  <2> QED
    BY <1>2, <1>3, PrefixIs
<1>5. left \in Seq(Ids(s)) /\ IsInjective(left) /\ Range(left) = Ids(s) \ Range(chosen)
  <2> DEFINE keep == Ids(s) \ Range(chosen)
  <2>1. Range(order) \cap keep = keep
    BY <1>1
  <2> HIDE DEF keep
  <2> QED
    BY <1>1, <2>1, FilteredIs DEF keep
<1>6. Filtered(left, against) \in Seq(Ids(s))
  <2> HIDE DEF left, against
  <2> QED
    BY <1>5, FilteredIs
<1>7. k = [of |-> s, seed |-> r.seed, count |-> Cardinality(Ids(s)), limit |-> r.selection,
           selected |-> chosen, omitted |-> left,
           reason |-> [n \in Range(left) |-> OmissionReason(s, n)],
           conflicts |-> Filtered(left, against),
           missing |-> MissingEvidence(s, r, chosen)]
  BY DEF RankReceipt
<1> HIDE DEF k, chosen, left, against
<1>8. RankTyped(k)
  BY <1>4, <1>5, <1>6, <1>7, OwnEntries DEF RankTyped, IsSeq
<1>9. /\ chosen \o left \in Seq(Ids(s)) /\ Range(chosen \o left) = Ids(s) /\ IsInjective(chosen \o left)
  <2>1. Range(chosen) \cup Range(left) = Ids(s) /\ Range(chosen) \cap Range(left) = {}
    BY <1>4, <1>5
  <2> QED
    BY <1>4, <1>5, <2>1, JoinedIs, ZenonT(60)
<1>10. Len(chosen \o left) = Cardinality(Ids(s))
  BY <1>9, InjectiveCounts
<1>11. against = {n \in Range(left) : k.reason[n] = "LifecycleConflict"}
  BY <1>7 DEF against
<1>12. \A n \in Range(left) : k.reason[n] = IF Eligible(s, n) THEN "SelectionLimit" ELSE "LifecycleConflict"
  BY <1>7 DEF OmissionReason
<1>13. \A n \in Range(chosen) : Eligible(s, n)
  BY <1>4
<1>14. k.count = Cardinality(Ids(s)) /\ k.limit = r.selection /\ k.selected = chosen /\ k.omitted = left
       /\ k.of = s /\ k.conflicts = Filtered(k.omitted, {n \in Range(k.omitted) : k.reason[n] = "LifecycleConflict"})
  BY <1>7, <1>11
<1>15. RankingAccepted(s, k)
  BY <1>4, <1>9, <1>10, <1>12, <1>13, <1>14 DEF RankingAccepted
<1> QED
  BY <1>8, <1>14, <1>15 DEF k
\* What an added entry does to a sequence.
LEMMA AppendIs ==
  ASSUME NEW S, NEW seq \in Seq(S), NEW x
  PROVE  /\ Append(seq, x) \in Seq(S \cup {x}) /\ Len(Append(seq, x)) = Len(seq) + 1
         /\ DOMAIN Append(seq, x) = 1 .. Len(seq) + 1 /\ Append(seq, x)[Len(seq) + 1] = x
         /\ Range(Append(seq, x)) = Range(seq) \cup {x}
         /\ \A i \in 1 .. Len(seq) : Append(seq, x)[i] = seq[i]
         /\ IsInjective(seq) /\ x \notin Range(seq) => IsInjective(Append(seq, x))
<1> DEFINE t == Append(seq, x)
<1>1. seq \in Seq(S \cup {x}) /\ Len(seq) \in Nat /\ DOMAIN seq = 1 .. Len(seq)
  OBVIOUS
<1>2. /\ t \in Seq(S \cup {x}) /\ Len(t) = Len(seq) + 1 /\ DOMAIN t = 1 .. Len(seq) + 1
      /\ t[Len(seq) + 1] = x /\ \A i \in 1 .. Len(seq) : t[i] = seq[i]
  BY <1>1
<1> HIDE DEF t
<1>3. \A i \in 1 .. Len(seq) + 1 : i \in 1 .. Len(seq) \/ i = Len(seq) + 1
  BY <1>1
<1>4. Range(t) \subseteq Range(seq) \cup {x}
  BY <1>1, <1>2, <1>3 DEF Range
<1>5. Range(seq) \cup {x} \subseteq Range(t)
  <2>1. Len(seq) + 1 \in 1 .. Len(seq) + 1 /\ 1 .. Len(seq) \subseteq 1 .. Len(seq) + 1
    BY <1>1
  <2> QED
    BY <1>1, <1>2, <2>1 DEF Range
<1>6. ASSUME IsInjective(seq), x \notin Range(seq)
      PROVE  IsInjective(t)
  <2>1. \A i \in 1 .. Len(seq) : seq[i] # x
    BY <1>1, <1>6 DEF Range
  <2>2. \A i, j \in 1 .. Len(seq) : seq[i] = seq[j] => i = j
    BY <1>1, <1>6 DEF IsInjective
  <2>3. \A i, j \in 1 .. Len(seq) + 1 : t[i] = t[j] => i = j
    BY <1>2, <1>3, <2>1, <2>2, Zenon
  <2> QED
    BY <1>2, <2>3 DEF IsInjective
<1> QED
  BY <1>2, <1>4, <1>5, <1>6 DEF t

(***************************************************************************)
(* The structural packet: the walk                                         *)
(***************************************************************************)
\* The limits of a walk are numbers.
LEMMA LimitsAre ==
  ASSUME NEW b, LimitsValid(b)
  PROVE  b.depth \in Nat /\ b.nodes \in Nat /\ b.edges \in Nat /\ b.nodes >= 1
BY StructuralAssumption DEF LimitsValid

\* The edges of a node, each met from one side, are as finite as the edges are.
LEMMA OneSideIs ==
  ASSUME NEW A, IsFiniteSet(A), NEW way
  PROVE  IsFiniteSet({[edge |-> e, way |-> way] : e \in A})
<1> DEFINE T == {[edge |-> e, way |-> way] : e \in A}
           f == [e \in A |-> [edge |-> e, way |-> way]]
<1>1. f \in Surjection(A, T)
  BY DEF Surjection
<1> HIDE DEF T, f
<1>2. IsFiniteSet(T)
  BY <1>1, FS_Surjection
<1> QED
  BY <1>2 DEF T

\* What Traversal::run has checked when it starts.
LEMMA WalkAllowed ==
  ASSUME NEW s, NEW r \in Requests, r.walk # NoValue, TraversalError(s, r.walk) = "none"
  PROVE  /\ LimitsValid(r.walk) /\ r.walk.seed.value \in Ids(s)
         /\ r.walk.relationships # <<>> /\ IsInjective(r.walk.relationships)
         /\ Range(r.walk.relationships) \subseteq TraversableKinds
<1> DEFINE w == r.walk
           kinds == w.relationships
           Unsupported(i) == kinds[i] \notin TraversableKinds
           Repeated(i) == kinds[i] \in {kinds[j] : j \in 1 .. i - 1}
           bad == {i \in DOMAIN kinds : Unsupported(i) \/ Repeated(i)}
<1>1. LimitsValid(w) /\ w.seed.value \in Ids(s) /\ kinds # <<>> /\ bad = {}
  BY DEF TraversalError
<1>2. kinds \in Seq(Range(KindOrder))
  BY StructuralAssumption
<1>3. DOMAIN kinds = 1 .. Len(kinds) /\ Len(kinds) \in Nat
  BY <1>2
<1>4. Range(kinds) \subseteq TraversableKinds
  BY <1>1 DEF Range
<1>5. ASSUME NEW i \in 1 .. Len(kinds), NEW j \in 1 .. Len(kinds), kinds[i] = kinds[j], i < j
      PROVE  FALSE
  <2>1. i \in 1 .. j - 1
    BY <1>3, <1>5
  <2>2. Repeated(j)
    BY <1>5, <2>1
  <2> QED
    BY <1>1, <1>3, <2>2
<1>6. IsInjective(kinds)
  <2>1. \A i, j \in 1 .. Len(kinds) : i < j \/ j < i \/ i = j
    BY <1>3
  <2> QED
    BY <1>3, <1>5, <2>1 DEF IsInjective
<1> QED
  BY <1>1, <1>4, <1>6
\* A walk begins at its seed.
LEMMA NewWalkIs ==
  ASSUME NEW s, GoodSnapshot(s), NEW b, LimitsValid(b), b.seed.value \in Ids(s),
         b.relationships # <<>>, IsInjective(b.relationships), Range(b.relationships) \subseteq TraversableKinds
  PROVE  LET w == NewWalk(s, b) IN
         /\ WalkSound(w) /\ w.terminal = "Running"
         /\ WalkSearch(w, <<[node |-> b.seed.value, steps |-> <<>>]>>)
<1> DEFINE w == NewWalk(s, b)
           n == b.seed.value
           q == <<[node |-> n, steps |-> <<>>]>>
           empty == <<>>
<1>1. w = [of |-> s, seed |-> b.seed, bounds |-> b, visited |-> <<n>>,
           steps |-> <<empty>>, inspected |-> 0, accepted |-> 0, skipped |-> empty, terminal |-> "Running"]
  BY DEF NewWalk
<1> HIDE DEF w
<1>2. /\ w.of = s /\ w.seed = b.seed /\ w.bounds = b /\ w.visited = <<n>> /\ w.steps = <<empty>>
      /\ w.inspected = 0 /\ w.accepted = 0 /\ w.skipped = empty /\ w.terminal = "Running"
  BY <1>1
<1>3. /\ <<n>> \in Seq(Ids(s)) /\ Len(<<n>>) = 1 /\ Range(<<n>>) = {n} /\ <<n>>[1] = n /\ IsInjective(<<n>>)
      /\ DOMAIN <<n>> = {1}
  BY DEF Range, IsInjective
<1>4. empty \in Seq(s.edges) /\ Len(empty) = 0 /\ DOMAIN empty = {} /\ empty \in Seq({})
  OBVIOUS
<1>5. <<empty>> \in Seq(Seq(s.edges)) /\ Len(<<empty>>) = 1 /\ <<empty>>[1] = empty /\ Range(<<empty>>) = {empty}
  <2> HIDE DEF empty
  <2>1. \A T, x : x \in T => <<x>> \in Seq(T) /\ Len(<<x>>) = 1 /\ <<x>>[1] = x /\ DOMAIN <<x>> = {1}
    OBVIOUS
  <2>2. Range(<<empty>>) = {empty}
    BY <2>1, <1>4 DEF Range
  <2> QED
    BY <2>1, <2>2, <1>4
<1>6. WalkTyped(w)
  <2>1. w.visited \in Seq(Range(w.visited)) /\ w.steps \in Seq(Range(w.steps))
    BY <1>2, <1>3, <1>5, OwnEntries
  <2> QED
    BY <1>1, <1>2, <2>1 DEF WalkTyped, IsSeq
<1>7. /\ b.nodes \in Nat /\ b.nodes >= 1 /\ b.depth \in Nat /\ b.edges \in Nat
  BY StructuralAssumption DEF LimitsValid
<1> DEFINE at == PathNodes(n, empty)
<1>8. at[0] = n /\ DOMAIN at = {0}
  <2>1. DOMAIN at = 0 .. Len(empty) /\ at[0] = n
    <3>1. empty \in Seq(s.edges)
      BY <1>4
    <3> HIDE DEF empty
    <3> QED
      BY <3>1, PathNodesIs
  <2>2. 0 .. Len(empty) = {0}
    BY <1>4
  <2> QED
    BY <2>1, <2>2
<1>9. PathAccepted(s, w, 1)
  <2>1. at[Len(empty)] = n /\ IsInjective(at)
    BY <1>4, <1>8 DEF IsInjective
  <2> HIDE DEF at
  <2>2. Len(empty) <= b.depth
    BY <1>4, <1>7
  <2>3. w.steps[1] = empty /\ w.visited[1] = n
    BY <1>2, <1>3, <1>5
  <2>4. w.seed.value = n /\ w.bounds.depth = b.depth
    BY <1>2
  <2> HIDE DEF empty
  <2> QED
    BY <2>1, <2>2, <2>3, <2>4, <1>4 DEF PathAccepted, at
<1>10. PathGood(w, 1)
  <2>1. Range(at) = {n}
    BY <1>8 DEF Range
  <2>2. Within(s, n, Allowed(w), 0) = {n}
    BY WithinNone
  <2>3. w.steps[1] = empty /\ w.visited[1] = n /\ w.of = s /\ w.seed.value = n /\ Range(w.visited) = {n}
    BY <1>2, <1>3, <1>5
  <2> HIDE DEF at
  <2> QED
    BY <1>4, <1>9, <2>1, <2>2, <2>3 DEF PathGood, at
<1>11. WalkSound(w)
  <2>1. \A i \in 1 .. Len(w.visited) : PathGood(w, i)
    <3>1. \A i \in 1 .. Len(w.visited) : i = 1
      BY <1>2, <1>3
    <3> QED
      BY <3>1, <1>10
  <2>2. w.skipped \in Seq({e \in w.of.edges : e.certainty # "Known" /\ e.kind \in Allowed(w)})
    BY <1>2
  <2>3. 0 \in 0 .. b.edges /\ 0 = Len(<<n>>) - 1 /\ 1 \in 1 .. b.nodes
    BY <1>3, <1>7
  <2> QED
    BY <1>2, <1>3, <1>5, <1>6, <2>1, <2>2, <2>3 DEF WalkSound
<1>12. WalkSearch(w, q)
  <2> DEFINE x == [node |-> n, steps |-> empty]
  <2>1. x \in [node : Ids(s), steps : Seq(s.edges)] /\ x.node = n /\ x.steps = empty
    BY <1>4
  <2>2. q = <<x>>
    OBVIOUS
  <2> HIDE DEF x, q
  <2>3. q \in Seq([node : Ids(s), steps : Seq(s.edges)]) /\ Len(q) = 1 /\ q[1] = x
    BY <2>1, <2>2
  <2>4. \A i \in 1 .. Len(q) : i = 1
    BY <2>3
  <2>5. x = [node |-> w.visited[1], steps |-> w.steps[1]] /\ 1 \in 1 .. Len(w.visited)
    BY <1>2, <1>3, <1>5 DEF x
  <2>6. Within(s, n, Allowed(w), 0) = {n}
    BY WithinNone
  <2>7. Len(q[1].steps) = 0 /\ q[1].node = n
    BY <2>1, <2>3, <1>4
  <2>8. Within(w.of, w.seed.value, Allowed(w), Len(q[1].steps)) \subseteq Range(w.visited)
    BY <2>6, <2>7, <1>2, <1>3
  <2>9. \A i, j \in 1 .. Len(q) : i <= j =>
          Len(q[i].steps) <= Len(q[j].steps) /\ Len(q[j].steps) <= Len(q[i].steps) + 1
    BY <2>4, <2>7
  <2>10. \A i \in 1 .. Len(q) : \E j \in 1 .. Len(w.visited) : q[i] = [node |-> w.visited[j], steps |-> w.steps[j]]
    BY <2>3, <2>4, <2>5
  <2>11. \A m \in Range(w.visited) : \E i \in 1 .. Len(q) : q[i].node = m
    <3>1. 1 \in 1 .. Len(q) /\ Range(w.visited) = {n}
      BY <2>3, <1>2, <1>3
    <3> QED
      BY <3>1, <2>7
  <2>12. q \in Seq([node : Ids(w.of), steps : Seq(w.of.edges)])
    BY <2>3, <1>2
  <2> QED
    BY <2>8, <2>9, <2>10, <2>11, <2>12 DEF WalkSearch
<1> QED
  BY <1>2, <1>11, <1>12 DEF w

\* A path of the walk is shorter than the snapshot has nodes: it passes none twice.
LEMMA PathShort ==
  ASSUME NEW w, WalkSound(w), NEW i \in 1 .. Len(w.visited)
  PROVE  /\ Len(w.steps[i]) \in Nat /\ w.steps[i] \in Seq(w.of.edges) /\ w.visited[i] \in Ids(w.of)
         /\ Len(w.steps[i]) + 1 <= Cardinality(Ids(w.of))
<1> DEFINE steps == w.steps[i]
           at == PathNodes(w.seed.value, steps)
           L == Len(steps)
           S == Ids(w.of)
<1>1. /\ w.visited \in Seq(S) /\ w.steps \in Seq(Seq(w.of.edges)) /\ Len(w.steps) = Len(w.visited)
      /\ Len(w.visited) \in 1 .. w.bounds.nodes /\ w.visited[1] = w.seed.value /\ PathGood(w, i)
  BY DEF WalkSound
<1>2. steps \in Seq(w.of.edges) /\ L \in Nat /\ w.visited[i] \in S
  <2>1. i \in 1 .. Len(w.steps)
    BY <1>1
  <2>2. steps \in Seq(w.of.edges)
    BY <1>1, <2>1
  <2> QED
    BY <1>1, <2>2
<1>3. w.seed.value \in S
  <2>1. 1 \in 1 .. Len(w.visited)
    OBVIOUS
  <2> QED
    BY <1>1, <2>1
<1> HIDE DEF steps
<1>4. DOMAIN at = 0 .. L /\ at[0] = w.seed.value
  BY <1>2, PathNodesIs
<1>5. IsInjective(at) /\ \A j \in DOMAIN steps : at[j] \in S
  BY <1>1 DEF PathGood, PathAccepted, steps
<1>6. DOMAIN steps = 1 .. L
  BY <1>2
<1> HIDE DEF at, S
<1> DEFINE seq == [k \in 1 .. L + 1 |-> at[k - 1]]
<1>7. \A k \in 1 .. L + 1 : k - 1 \in 0 .. L /\ at[k - 1] \in S
  <2>1. \A k \in 0 .. L : k = 0 \/ k \in 1 .. L
    BY <1>2
  <2>2. \A k \in 0 .. L : at[k] \in S
    BY <2>1, <1>3, <1>4, <1>5, <1>6
  <2>3. \A k \in 1 .. L + 1 : k - 1 \in 0 .. L
    BY <1>2
  <2> QED
    BY <2>2, <2>3
<1>8. seq \in Seq(S) /\ Len(seq) = L + 1
  <2>1. L + 1 \in Nat
    BY <1>2
  <2> QED
    BY <1>7, <2>1
<1>9. IsInjective(seq)
  <2>1. \A k, m \in 1 .. L + 1 : seq[k] = seq[m] => k - 1 = m - 1
    BY <1>4, <1>5, <1>7 DEF IsInjective
  <2>2. \A k, m \in 1 .. L + 1 : k - 1 = m - 1 => k = m
    BY <1>2
  <2> QED
    BY <2>1, <2>2 DEF IsInjective
<1> HIDE DEF seq, L
<1>10. IsFiniteSet(Range(seq)) /\ Cardinality(Range(seq)) = L + 1 /\ Range(seq) \subseteq S
  BY <1>8, <1>9, InjectiveCounts, OwnEntries
<1>11. IsFiniteSet(S)
  <2>1. GoodSnapshot(w.of)
    BY DEF WalkSound
  <2> QED
    BY <2>1, SnapshotIs DEF S
<1>12. Cardinality(Range(seq)) <= Cardinality(S)
  BY <1>10, <1>11, FS_Subset
<1> QED
  BY <1>2, <1>10, <1>12 DEF steps, S, L

\* What was visited, and what an edge of it leads to, is within reach.
LEMMA VisitedWithin ==
  ASSUME NEW w, WalkSound(w), NEW n \in Range(w.visited)
  PROVE  LET far == Within(w.of, w.seed.value, Allowed(w), Cardinality(Ids(w.of))) IN
         /\ n \in far
         /\ \A e \in Links(w.of, Allowed(w)) : n \in {e.source, e.target} => Other(e, n) \in far
<1> DEFINE near(d) == Within(w.of, w.seed.value, Allowed(w), d)
           C == Cardinality(Ids(w.of))
<1>1. /\ w.visited \in Seq(Ids(w.of)) /\ \A j \in 1 .. Len(w.visited) : PathGood(w, j)
      /\ GoodSnapshot(w.of)
  BY DEF WalkSound
<1>2. PICK i \in 1 .. Len(w.visited) : n = w.visited[i]
  BY <1>1 DEF Range
<1> DEFINE L == Len(w.steps[i])
<1>3. L \in Nat /\ L + 1 <= C /\ C \in Nat
  BY <1>1, PathShort, SnapshotIs
<1>4. n \in near(L)
  BY <1>1, <1>2 DEF PathGood
<1> HIDE DEF L, C
<1>5. near(L) \subseteq near(C) /\ near(L + 1) \subseteq near(C)
  <2>1. L \in 0 .. C /\ L + 1 \in 0 .. C
    BY <1>3
  <2> QED
    BY <1>3, <2>1, WithinGrows
<1>6. ASSUME NEW e \in Links(w.of, Allowed(w)), n \in {e.source, e.target}
      PROVE  Other(e, n) \in near(L + 1)
  BY <1>3, <1>4, <1>6, WithinStep
<1> QED
  BY <1>4, <1>5, <1>6 DEF C

\* A walk whose queue is empty has found everything.
LEMMA CompleteIs ==
  ASSUME NEW w, WalkSound(w), WalkSearch(w, <<>>)
  PROVE  Range(w.visited) = Within(w.of, w.seed.value, Allowed(w), Cardinality(Ids(w.of)))
<1> DEFINE far == Within(w.of, w.seed.value, Allowed(w), Cardinality(Ids(w.of)))
<1>1. Range(w.visited) \subseteq far
  BY VisitedWithin
<1>2. \A n \in Range(w.visited) : LinksFound(w, n)
  <2>1. Len(<<>>) = 0 /\ 1 .. 0 = {}
    OBVIOUS
  <2> QED
    BY <2>1 DEF WalkSearch
<1>3. w.seed.value \in Range(w.visited)
  <2>1. /\ w.visited \in Seq(Ids(w.of)) /\ Len(w.visited) \in 1 .. w.bounds.nodes
        /\ w.visited[1] = w.seed.value
    BY DEF WalkSound
  <2>2. 1 \in 1 .. Len(w.visited)
    BY <2>1
  <2> QED
    BY <2>1, <2>2 DEF Range
<1>4. Cardinality(Ids(w.of)) \in Nat
  BY SnapshotIs DEF WalkSound
<1>5. \A n \in Range(w.visited), e \in Links(w.of, Allowed(w)) :
        n \in {e.source, e.target} => Other(e, n) \in Range(w.visited)
  BY <1>2 DEF LinksFound
<1>6. far \subseteq Range(w.visited)
  BY <1>3, <1>4, <1>5, WithinLeast
<1> QED
  BY <1>1, <1>6

\* A walk that was stopped before a node it could have visited has not.
LEMMA CutShort ==
  ASSUME NEW w, WalkSound(w), NEW n \in Range(w.visited), NEW e \in Links(w.of, Allowed(w)),
         n \in {e.source, e.target}, Other(e, n) \notin Range(w.visited)
  PROVE  Range(w.visited) # Within(w.of, w.seed.value, Allowed(w), Cardinality(Ids(w.of)))
BY VisitedWithin

\* Every path of the walk is a shortest one.
LEMMA ShortestPaths ==
  ASSUME NEW w, WalkSound(w)
  PROVE  \A i \in DOMAIN w.visited : Len(w.steps[i]) > 0 =>
           w.visited[i] \notin Within(w.of, w.seed.value, Allowed(w), Len(w.steps[i]) - 1)
<1>1. w.visited \in Seq(Ids(w.of)) /\ \A i \in 1 .. Len(w.visited) : PathGood(w, i)
  BY DEF WalkSound
<1>2. DOMAIN w.visited = 1 .. Len(w.visited)
  BY <1>1
<1> QED
  BY <1>1, <1>2 DEF PathGood

\* Two walks that visited the same nodes of the same snapshot.
SameVisits(w, v) ==
  v.of = w.of /\ v.seed = w.seed /\ v.bounds = w.bounds /\ v.visited = w.visited /\ v.steps = w.steps

\* What is said of the nodes and of the queue depends on the visits only.
LEMMA SameVisitsIs ==
  ASSUME NEW w, NEW v, SameVisits(w, v)
  PROVE  /\ \A i : PathGood(w, i) => PathGood(v, i)
         /\ \A n : LinksFound(w, n) => LinksFound(v, n)
         /\ \A q : WalkSearch(w, q) => WalkSearch(v, q)
         /\ \A q, t : WalkTodo(w, q, t) => WalkTodo(v, q, t)
<1>1. /\ v.of = w.of /\ v.seed = w.seed /\ v.bounds = w.bounds /\ v.visited = w.visited /\ v.steps = w.steps
      /\ Allowed(v) = Allowed(w)
  BY DEF SameVisits, Allowed
<1>2. \A i : PathAccepted(w.of, w, i) => PathAccepted(v.of, v, i)
  BY <1>1, Zenon DEF PathAccepted
<1>3. \A i : PathGood(w, i) => PathGood(v, i)
  BY <1>1, <1>2, Zenon DEF PathGood
<1>4. \A n : LinksFound(w, n) <=> LinksFound(v, n)
  BY <1>1, Zenon DEF LinksFound
<1>5. ASSUME NEW q, WalkSearch(w, q)
      PROVE  WalkSearch(v, q)
  <2>1. q \in Seq([node : Ids(v.of), steps : Seq(v.of.edges)])
    BY <1>1, <1>5, Zenon DEF WalkSearch
  <2>2. \A i \in 1 .. Len(q) : \E j \in 1 .. Len(v.visited) : q[i] = [node |-> v.visited[j], steps |-> v.steps[j]]
    <3>1. \A i \in 1 .. Len(q) : \E j \in 1 .. Len(w.visited) : q[i] = [node |-> w.visited[j], steps |-> w.steps[j]]
      BY <1>5 DEF WalkSearch
    <3> QED
      BY <3>1, <1>1
  <2>3. \A i, j \in 1 .. Len(q) : i <= j =>
          Len(q[i].steps) <= Len(q[j].steps) /\ Len(q[j].steps) <= Len(q[i].steps) + 1
    BY <1>5, Zenon DEF WalkSearch
  <2>4. q # <<>> => Within(v.of, v.seed.value, Allowed(v), Len(q[1].steps)) \subseteq Range(v.visited)
    BY <1>1, <1>5, Zenon DEF WalkSearch
  <2>5. \A n \in Range(v.visited) : LinksFound(v, n) \/ \E i \in 1 .. Len(q) : q[i].node = n
    BY <1>1, <1>4, <1>5, Zenon DEF WalkSearch
  <2> QED
    BY <2>1, <2>2, <2>3, <2>4, <2>5 DEF WalkSearch
<1>6. \A n : Sides(w, n) = Sides(v, n)
  BY <1>1, Zenon DEF Sides
<1>7. \A q, t : WalkTodo(w, q, t) => WalkTodo(v, q, t)
  BY <1>1, <1>6, Zenon DEF WalkTodo
<1> QED
  BY <1>3, <1>4, <1>5, <1>7

\* A walk that only looked at an edge or ended stays sound.
LEMMA SoundAgain ==
  ASSUME NEW w, WalkSound(w), NEW v, WalkTyped(v), SameVisits(w, v), v.accepted = w.accepted,
         v.inspected \in w.inspected .. w.bounds.edges,
         v.skipped \in Seq({e \in w.of.edges : e.certainty # "Known" /\ e.kind \in Allowed(w)})
  PROVE  WalkSound(v)
<1>1. /\ v.of = w.of /\ v.seed = w.seed /\ v.bounds = w.bounds /\ v.visited = w.visited /\ v.steps = w.steps
      /\ Allowed(v) = Allowed(w)
  BY DEF SameVisits, Allowed
<1>2. \A i \in 1 .. Len(v.visited) : PathGood(v, i)
  BY <1>1, SameVisitsIs DEF WalkSound
<1>3. v.inspected \in v.accepted .. v.bounds.edges
  <2>1. w.inspected \in w.accepted .. w.bounds.edges /\ w.accepted = Len(w.visited) - 1
        /\ w.visited \in Seq(Ids(w.of)) /\ LimitsValid(w.bounds)
    BY DEF WalkSound
  <2>2. w.accepted \in Int /\ w.bounds.edges \in Int
    BY <2>1, StructuralAssumption DEF LimitsValid
  <2> QED
    BY <1>1, <2>1, <2>2
<1>4. v.skipped \in Seq({e \in v.of.edges : e.certainty # "Known" /\ e.kind \in Allowed(v)})
  BY <1>1
<1>5. /\ GoodSnapshot(v.of) /\ LimitsValid(v.bounds)
      /\ LET kinds == v.bounds.relationships
         IN kinds # <<>> /\ IsInjective(kinds) /\ Range(kinds) \subseteq TraversableKinds
      /\ v.visited \in Seq(Ids(v.of)) /\ v.steps \in Seq(Seq(v.of.edges))
      /\ Len(v.steps) = Len(v.visited) /\ Len(v.visited) \in 1 .. v.bounds.nodes
      /\ v.visited[1] = v.seed.value /\ v.steps[1] = <<>> /\ IsInjective(v.visited)
      /\ v.accepted = Len(v.visited) - 1
  BY <1>1, Zenon DEF WalkSound
<1> QED
  BY <1>2, <1>3, <1>4, <1>5 DEF WalkSound

\* A walk that ends is as sound as it was.
LEMMA StoppedIs ==
  ASSUME NEW w, WalkSound(w), NEW t, NEW v, v = [w EXCEPT !.terminal = t]
  PROVE  WalkSound(v) /\ SameVisits(w, v) /\ v.terminal = t /\ v.inspected = w.inspected
<1>1. WalkTyped(w)
  BY DEF WalkSound
<1>2. v = [of |-> w.of, seed |-> w.seed, bounds |-> w.bounds, visited |-> w.visited,
           steps |-> w.steps, inspected |-> w.inspected, accepted |-> w.accepted,
           skipped |-> w.skipped, terminal |-> t]
  BY <1>1 DEF WalkTyped
<1>3. /\ SameVisits(w, v) /\ v.terminal = t /\ v.inspected = w.inspected /\ v.accepted = w.accepted
      /\ v.skipped = w.skipped
  BY <1>2 DEF SameVisits
<1>4. WalkTyped(v)
  BY <1>1, <1>2 DEF WalkTyped
<1>5. w.inspected \in w.inspected .. w.bounds.edges
  <2>1. w.inspected \in w.accepted .. w.bounds.edges /\ w.accepted = Len(w.visited) - 1
        /\ w.visited \in Seq(Ids(w.of)) /\ LimitsValid(w.bounds)
    BY DEF WalkSound
  <2>2. w.accepted \in Int /\ w.bounds.edges \in Int
    BY <2>1, StructuralAssumption DEF LimitsValid
  <2> QED
    BY <2>1, <2>2
<1>6. WalkSound(v)
  BY <1>3, <1>4, <1>5, SoundAgain DEF WalkSound
<1> QED
  BY <1>3, <1>6

\* An edge more is inspected.
LEMMA SeenIs ==
  ASSUME NEW w, WalkSound(w), w.inspected # w.bounds.edges, NEW v, v = [w EXCEPT !.inspected = @ + 1]
  PROVE  /\ WalkSound(v) /\ SameVisits(w, v) /\ v.terminal = w.terminal /\ v.skipped = w.skipped
         /\ v.inspected = w.inspected + 1 /\ v.accepted = w.accepted
<1>1. WalkTyped(w)
  BY DEF WalkSound
<1>2. v = [of |-> w.of, seed |-> w.seed, bounds |-> w.bounds, visited |-> w.visited,
           steps |-> w.steps, inspected |-> w.inspected + 1, accepted |-> w.accepted,
           skipped |-> w.skipped, terminal |-> w.terminal]
  BY <1>1 DEF WalkTyped
<1>3. /\ SameVisits(w, v) /\ v.terminal = w.terminal /\ v.inspected = w.inspected + 1
      /\ v.accepted = w.accepted /\ v.skipped = w.skipped
  BY <1>2 DEF SameVisits
<1>4. WalkTyped(v)
  BY <1>1, <1>2 DEF WalkTyped
<1>5. w.inspected + 1 \in w.inspected .. w.bounds.edges
  <2>1. w.inspected \in w.accepted .. w.bounds.edges /\ w.accepted = Len(w.visited) - 1
        /\ w.visited \in Seq(Ids(w.of)) /\ LimitsValid(w.bounds)
    BY DEF WalkSound
  <2>2. w.accepted \in Int /\ w.bounds.edges \in Int
    BY <2>1, StructuralAssumption DEF LimitsValid
  <2> QED
    BY <2>1, <2>2
<1>6. WalkSound(v)
  BY <1>3, <1>4, <1>5, SoundAgain DEF WalkSound
<1> QED
  BY <1>3, <1>6

\* An edge whose end is not known is skipped.
LEMMA SkippedIs ==
  ASSUME NEW w, WalkSound(w), NEW e \in w.of.edges, e.certainty # "Known", e.kind \in Allowed(w),
         NEW v, v = [w EXCEPT !.skipped = Append(@, e)]
  PROVE  WalkSound(v) /\ SameVisits(w, v) /\ v.terminal = w.terminal
<1> DEFINE S == {x \in w.of.edges : x.certainty # "Known" /\ x.kind \in Allowed(w)}
           more == Append(w.skipped, e)
<1>1. WalkTyped(w) /\ w.skipped \in Seq(S)
  BY DEF WalkSound
<1>2. more \in Seq(S)
  <2>1. e \in S
    OBVIOUS
  <2> HIDE DEF S
  <2> QED
    BY <1>1, <2>1
<1> HIDE DEF more
<1>3. v = [of |-> w.of, seed |-> w.seed, bounds |-> w.bounds, visited |-> w.visited,
           steps |-> w.steps, inspected |-> w.inspected, accepted |-> w.accepted,
           skipped |-> more, terminal |-> w.terminal]
  BY <1>1 DEF WalkTyped, more
<1>4. /\ SameVisits(w, v) /\ v.terminal = w.terminal /\ v.inspected = w.inspected
      /\ v.accepted = w.accepted /\ v.skipped = more
  BY <1>3 DEF SameVisits
<1>5. WalkTyped(v)
  BY <1>1, <1>3 DEF WalkTyped
<1>6. w.inspected \in w.inspected .. w.bounds.edges
  <2>1. w.inspected \in w.accepted .. w.bounds.edges /\ w.accepted = Len(w.visited) - 1
        /\ w.visited \in Seq(Ids(w.of)) /\ LimitsValid(w.bounds)
    BY DEF WalkSound
  <2>2. w.accepted \in Int /\ w.bounds.edges \in Int
    BY <2>1, StructuralAssumption DEF LimitsValid
  <2> QED
    BY <2>1, <2>2
<1>7. WalkSound(v)
  BY <1>2, <1>4, <1>5, <1>6, SoundAgain
<1> QED
  BY <1>4, <1>7

\* The head of the queue is a node of the walk.
LEMMA HeadIs ==
  ASSUME NEW w, WalkSound(w), NEW q, WalkSearch(w, q), q # <<>>
  PROVE  /\ Len(q) \in Nat /\ 1 \in 1 .. Len(q) /\ Head(q) = q[1]
         /\ \E j \in 1 .. Len(w.visited) : q[1] = [node |-> w.visited[j], steps |-> w.steps[j]]
         /\ q[1].node \in Range(w.visited) /\ q[1].node \in Ids(w.of)
         /\ q[1].steps \in Seq(w.of.edges) /\ Len(q[1].steps) \in Nat
         /\ \E j \in 1 .. Len(w.visited) : w.steps[j] = q[1].steps /\ w.visited[j] = q[1].node
<1>1. /\ q \in Seq([node : Ids(w.of), steps : Seq(w.of.edges)])
      /\ \A i \in 1 .. Len(q) : \E j \in 1 .. Len(w.visited) : q[i] = [node |-> w.visited[j], steps |-> w.steps[j]]
  BY DEF WalkSearch
<1>2. Len(q) \in Nat /\ 1 \in 1 .. Len(q) /\ Head(q) = q[1] /\ q[1] \in [node : Ids(w.of), steps : Seq(w.of.edges)]
  <2> DEFINE Q == [node : Ids(w.of), steps : Seq(w.of.edges)]
  <2>1. q \in Seq(Q)
    BY <1>1
  <2> HIDE DEF Q
  <2>2. Len(q) \in Nat /\ 1 \in 1 .. Len(q) /\ Head(q) = q[1] /\ q[1] \in Q
    BY <2>1
  <2> QED
    BY <2>2 DEF Q
<1>3. q[1].node \in Ids(w.of) /\ q[1].steps \in Seq(w.of.edges) /\ Len(q[1].steps) \in Nat
  BY <1>2
<1>4. PICK j \in 1 .. Len(w.visited) : q[1] = [node |-> w.visited[j], steps |-> w.steps[j]]
  BY <1>1, <1>2
<1>5. w.steps[j] = q[1].steps /\ w.visited[j] = q[1].node
  BY <1>4
<1>6. q[1].node \in Range(w.visited)
  <2>1. w.visited \in Seq(Ids(w.of))
    BY DEF WalkSound
  <2> QED
    BY <1>5, <2>1 DEF Range
<1> QED
  BY <1>2, <1>3, <1>4, <1>5, <1>6

\* A node all of whose edges lead to visited nodes leaves the queue.  The next
\* node may be one step further from the seed: by then everything as near as
\* the last one has left the queue, so what is one step further was visited.
LEMMA HeadLeaves ==
  ASSUME NEW w, WalkSound(w), NEW q, WalkSearch(w, q), q # <<>>, LinksFound(w, q[1].node)
  PROVE  WalkSearch(w, Tail(q))
<1> DEFINE rest == Tail(q)
           near(d) == Within(w.of, w.seed.value, Allowed(w), d)
           Q == [node : Ids(w.of), steps : Seq(w.of.edges)]
<1>1. /\ q \in Seq(Q)
      /\ \A i \in 1 .. Len(q) : \E j \in 1 .. Len(w.visited) : q[i] = [node |-> w.visited[j], steps |-> w.steps[j]]
      /\ \A i, j \in 1 .. Len(q) : i <= j =>
           Len(q[i].steps) <= Len(q[j].steps) /\ Len(q[j].steps) <= Len(q[i].steps) + 1
      /\ near(Len(q[1].steps)) \subseteq Range(w.visited)
      /\ \A n \in Range(w.visited) : LinksFound(w, n) \/ \E i \in 1 .. Len(q) : q[i].node = n
  BY DEF WalkSearch
<1> HIDE DEF Q
<1>2. /\ rest \in Seq(Q) /\ Len(q) \in Nat /\ Len(rest) = Len(q) - 1 /\ Len(rest) \in Nat
      /\ \A i \in 1 .. Len(rest) : rest[i] = q[i + 1] /\ i + 1 \in 1 .. Len(q)
      /\ \A i \in 1 .. Len(q) : i = 1 \/ (i - 1 \in 1 .. Len(rest) /\ q[i] = rest[i - 1])
      /\ rest # <<>> => 1 \in 1 .. Len(rest)
  <2>1. rest \in Seq(Q) /\ Len(q) \in Nat /\ Len(rest) = Len(q) - 1 /\ Len(rest) \in Nat /\ Len(q) >= 1
    BY <1>1
  <2>2. \A i \in 1 .. Len(rest) : rest[i] = q[i + 1] /\ i + 1 \in 1 .. Len(q)
    BY <1>1, <2>1
  <2>3. ASSUME NEW i \in 1 .. Len(q), i # 1
        PROVE  i - 1 \in 1 .. Len(rest) /\ q[i] = rest[i - 1]
    <3>1. i - 1 \in 1 .. Len(rest) /\ (i - 1) + 1 = i
      BY <2>1, <2>3
    <3> QED
      BY <2>2, <3>1
  <2>4. rest # <<>> => 1 \in 1 .. Len(rest)
    BY <2>1
  <2> QED
    BY <2>1, <2>2, <2>3, <2>4
<1>3. \A i \in 1 .. Len(q) : Len(q[i].steps) \in Nat
  BY <1>1 DEF Q
<1>4. /\ w.visited \in Seq(Ids(w.of)) /\ \A j \in 1 .. Len(w.visited) : PathGood(w, j)
  BY DEF WalkSound
<1> HIDE DEF rest
<1>5. \A i \in 1 .. Len(rest) : \E j \in 1 .. Len(w.visited) : rest[i] = [node |-> w.visited[j], steps |-> w.steps[j]]
  <2>1. SUFFICES ASSUME NEW i \in 1 .. Len(rest)
                 PROVE  \E j \in 1 .. Len(w.visited) : rest[i] = [node |-> w.visited[j], steps |-> w.steps[j]]
    OBVIOUS
  <2>2. rest[i] = q[i + 1] /\ i + 1 \in 1 .. Len(q)
    BY <1>2
  <2>3. \E j \in 1 .. Len(w.visited) : q[i + 1] = [node |-> w.visited[j], steps |-> w.steps[j]]
    BY <1>1, <2>2
  <2> QED
    BY <2>2, <2>3
<1>6. ASSUME NEW i \in 1 .. Len(rest), NEW j \in 1 .. Len(rest), i <= j
      PROVE  Len(rest[i].steps) <= Len(rest[j].steps) /\ Len(rest[j].steps) <= Len(rest[i].steps) + 1
  <2>1. i + 1 \in 1 .. Len(q) /\ j + 1 \in 1 .. Len(q) /\ i + 1 <= j + 1
    BY <1>2, <1>6
  <2>2. Len(q[i + 1].steps) <= Len(q[j + 1].steps) /\ Len(q[j + 1].steps) <= Len(q[i + 1].steps) + 1
    BY <1>1, <2>1
  <2> QED
    BY <1>2, <2>2
<1>7. ASSUME NEW n \in Range(w.visited)
      PROVE  LinksFound(w, n) \/ \E i \in 1 .. Len(rest) : rest[i].node = n
  <2>1. CASE LinksFound(w, n)
    BY <2>1
  <2>2. CASE ~ LinksFound(w, n)
    <3>1. PICK i \in 1 .. Len(q) : q[i].node = n
      BY <1>1, <1>7, <2>2
    <3>2. i # 1
      BY <3>1, <2>2
    <3>3. i - 1 \in 1 .. Len(rest) /\ q[i] = rest[i - 1]
      BY <1>2, <3>2
    <3> QED
      BY <3>1, <3>3
  <2> QED
    BY <2>1, <2>2
<1>8. ASSUME rest # <<>>
      PROVE  near(Len(rest[1].steps)) \subseteq Range(w.visited)
  <2> DEFINE d == Len(q[1].steps)
  <2>1. rest[1] = q[2] /\ 1 \in 1 .. Len(q) /\ 2 \in 1 .. Len(q)
    <3>1. 1 \in 1 .. Len(rest) /\ 1 + 1 = 2
      BY <1>2, <1>8
    <3>2. rest[1] = q[1 + 1] /\ 1 + 1 \in 1 .. Len(q)
      BY <1>2, <3>1
    <3> QED
      BY <1>2, <3>1, <3>2
  <2>2. d \in Nat /\ Len(q[2].steps) \in Nat /\ d <= Len(q[2].steps) /\ Len(q[2].steps) <= d + 1
    BY <1>1, <1>3, <2>1
  <2>3. CASE Len(q[2].steps) = d
    BY <1>1, <2>1, <2>3
  <2>4. CASE Len(q[2].steps) = d + 1
    <3>1. SUFFICES ASSUME NEW m \in near(d + 1), m \notin near(d)
                   PROVE  m \in Range(w.visited)
      BY <1>1, <2>1, <2>4
    <3>2. PICK n \in near(d), e \in Links(w.of, Allowed(w)) : n \in {e.source, e.target} /\ m = Other(e, n)
      <4>1. m \in near(d + 1) \ near(d)
        BY <3>1
      <4> HIDE DEF d
      <4> QED
        BY <2>2, <4>1, WithinBack
    <3>3. n \in Range(w.visited)
      BY <1>1, <3>2
    <3>4. LinksFound(w, n)
      <4>1. SUFFICES ASSUME ~ LinksFound(w, n) PROVE FALSE
        OBVIOUS
      <4>2. PICK i \in 1 .. Len(q) : q[i].node = n
        BY <1>1, <3>3, <4>1
      <4>3. i # 1
        BY <4>1, <4>2
      <4>4. Len(q[i].steps) >= d + 1
        <5>1. 2 <= i
          BY <4>3
        <5> QED
          BY <1>1, <2>1, <2>4, <5>1
      <4>5. PICK j \in 1 .. Len(w.visited) : q[i] = [node |-> w.visited[j], steps |-> w.steps[j]]
        BY <1>1
      <4> DEFINE L == Len(w.steps[j])
      <4>6. n = w.visited[j] /\ L = Len(q[i].steps) /\ L \in Nat /\ L >= d + 1
        BY <4>2, <4>4, <4>5, <1>3
      <4>7. n \notin near(L - 1)
        <5>1. PathGood(w, j)
          BY <1>4
        <5>2. Len(w.steps[j]) > 0 => w.visited[j] \notin near(Len(w.steps[j]) - 1)
          BY <5>1 DEF PathGood
        <5>3. L > 0
          BY <2>2, <4>6
        <5> QED
          BY <4>6, <5>2, <5>3
      <4>8. L - 1 \in Nat /\ d \in 0 .. L - 1
        BY <2>2, <4>6
      <4> HIDE DEF L, d
      <4>9. near(d) \subseteq near(L - 1)
        BY <4>8, WithinGrows
      <4> QED
        BY <3>2, <4>7, <4>9
    <3> QED
      BY <3>2, <3>4 DEF LinksFound
  <2> QED
    BY <2>2, <2>3, <2>4
<1>9. rest \in Seq([node : Ids(w.of), steps : Seq(w.of.edges)])
  BY <1>2 DEF Q
<1>10. WalkSearch(w, rest)
  BY <1>5, <1>6, <1>7, <1>8, <1>9 DEF WalkSearch
<1> QED
  BY <1>10 DEF rest

\* The edge that is inspected next is an allowed one of the node that is left.
LEMMA NextEdgeIs ==
  ASSUME NEW w, NEW q, NEW t, WalkTodo(w, q, t), t # <<>>
  PROVE  /\ q # <<>> /\ Len(q[1].steps) < w.bounds.depth
         /\ Len(t) \in Nat /\ Len(t) >= 1 /\ Head(t) = t[1]
         /\ t[1].edge \in w.of.edges /\ t[1].edge.kind \in Allowed(w)
         /\ q[1].node \in {t[1].edge.source, t[1].edge.target}
         /\ t[1].edge.certainty = "Known" => t[1].edge \in Links(w.of, Allowed(w))
<1> DEFINE S == Sides(w, q[1].node)
<1>1. q # <<>> /\ Len(q[1].steps) < w.bounds.depth /\ t \in Seq(S)
  BY DEF WalkTodo
<1>2. \A x \in S : /\ x.edge \in w.of.edges /\ x.edge.kind \in Allowed(w)
                   /\ q[1].node \in {x.edge.source, x.edge.target}
  <2>1. ASSUME NEW e \in w.of.edges, NEW way, NEW x, x = [edge |-> e, way |-> way]
        PROVE  x.edge = e
    BY <2>1
  <2> QED
    BY <2>1 DEF Sides
<1> HIDE DEF S
<1>3. Len(t) \in Nat /\ Len(t) >= 1 /\ Head(t) = t[1] /\ t[1] \in S
  BY <1>1
<1>4. t[1].edge.certainty = "Known" => t[1].edge \in Links(w.of, Allowed(w))
  BY <1>2, <1>3 DEF Links, Known
<1> QED
  BY <1>1, <1>2, <1>3, <1>4

\* An edge that leads nowhere new is done with; the last one takes the node
\* from the queue.
LEMMA EdgeDone ==
  ASSUME NEW w, WalkSound(w), NEW q, WalkSearch(w, q), NEW t, WalkTodo(w, q, t), t # <<>>,
         t[1].edge.certainty = "Known" => Other(t[1].edge, q[1].node) \in Range(w.visited)
  PROVE  LET rest == IF Len(t) = 1 THEN Tail(q) ELSE q
         IN WalkSearch(w, rest) /\ WalkTodo(w, rest, Tail(t))
<1> DEFINE S == Sides(w, q[1].node)
<1>1. /\ q # <<>> /\ Len(q[1].steps) < w.bounds.depth /\ t \in Seq(S)
      /\ \A e \in Links(w.of, Allowed(w)) : q[1].node \in {e.source, e.target} =>
           Other(e, q[1].node) \in Range(w.visited) \/ \E i \in 1 .. Len(t) : t[i].edge = e
  BY DEF WalkTodo
<1> HIDE DEF S
<1>2. /\ Len(t) \in Nat /\ Len(t) >= 1 /\ Tail(t) \in Seq(S) /\ Len(Tail(t)) = Len(t) - 1
      /\ \A i \in 1 .. Len(t) - 1 : Tail(t)[i] = t[i + 1]
  BY <1>1
<1>3. ASSUME NEW e \in Links(w.of, Allowed(w)), q[1].node \in {e.source, e.target},
             Other(e, q[1].node) \notin Range(w.visited)
      PROVE  \E i \in 1 .. Len(t) - 1 : Tail(t)[i].edge = e
  <2>1. PICK i \in 1 .. Len(t) : t[i].edge = e
    BY <1>1, <1>3
  <2>2. e.certainty = "Known"
    BY DEF Links, Known
  <2>3. i # 1
    BY <1>3, <2>1, <2>2
  <2>4. i - 1 \in 1 .. Len(t) - 1 /\ (i - 1) + 1 = i
    BY <1>2, <2>3
  <2>5. Tail(t)[i - 1] = t[i]
    BY <1>2, <2>4
  <2> QED
    BY <2>1, <2>4, <2>5
<1>4. CASE Len(t) = 1
  <2>1. LinksFound(w, q[1].node)
    <3>1. 1 .. Len(t) - 1 = {}
      BY <1>4
    <3> QED
      BY <1>3, <3>1 DEF LinksFound
  <2>2. WalkSearch(w, Tail(q))
    BY <1>1, <2>1, HeadLeaves
  <2>3. Tail(t) = <<>>
    <3>1. Len(Tail(t)) = 0 /\ Tail(t) \in Seq(S)
      BY <1>2, <1>4
    <3>2. \A u \in Seq(S) : Len(u) = 0 => u = <<>>
      OBVIOUS
    <3> QED
      BY <3>1, <3>2, Zenon
  <2> QED
    BY <1>4, <2>2, <2>3 DEF WalkTodo
<1>5. CASE Len(t) # 1
  <2>1. WalkTodo(w, q, Tail(t))
    BY <1>1, <1>2, <1>3 DEF WalkTodo, S
  <2> QED
    BY <1>5, <2>1
<1> QED
  BY <1>4, <1>5

\* The receipt of a walk that has taken an edge to a node.
Visited(w, next, path) ==
  [w EXCEPT !.inspected = @ + 1, !.accepted = @ + 1, !.visited = Append(@, next), !.steps = Append(@, path)]

\* Its parts.
LEMMA VisitedIs ==
  ASSUME NEW w, WalkSound(w), NEW next \in Ids(w.of), NEW path \in Seq(w.of.edges)
  PROVE  LET v == Visited(w, next, path)
             N == Len(w.visited)
         IN /\ WalkTyped(v) /\ v.of = w.of /\ v.seed = w.seed /\ v.bounds = w.bounds /\ Allowed(v) = Allowed(w)
            /\ v.visited = Append(w.visited, next) /\ v.steps = Append(w.steps, path)
            /\ v.inspected = w.inspected + 1 /\ v.accepted = w.accepted + 1
            /\ v.skipped = w.skipped /\ v.terminal = w.terminal
            /\ v.visited \in Seq(Ids(w.of)) /\ v.steps \in Seq(Seq(w.of.edges))
            /\ N \in Nat /\ N >= 1 /\ Len(v.visited) = N + 1 /\ Len(v.steps) = N + 1
            /\ v.visited[N + 1] = next /\ v.steps[N + 1] = path
            /\ \A i \in 1 .. N : v.visited[i] = w.visited[i] /\ v.steps[i] = w.steps[i]
            /\ Range(v.visited) = Range(w.visited) \cup {next}
            /\ next \notin Range(w.visited) => IsInjective(v.visited)
<1> DEFINE v == Visited(w, next, path)
           N == Len(w.visited)
           V == Append(w.visited, next)
           T == Append(w.steps, path)
<1>1. /\ WalkTyped(w) /\ w.visited \in Seq(Ids(w.of)) /\ w.steps \in Seq(Seq(w.of.edges))
      /\ Len(w.steps) = N /\ N \in 1 .. w.bounds.nodes /\ IsInjective(w.visited)
  BY DEF WalkSound
<1>2. v = [of |-> w.of, seed |-> w.seed, bounds |-> w.bounds, visited |-> V,
           steps |-> T, inspected |-> w.inspected + 1, accepted |-> w.accepted + 1,
           skipped |-> w.skipped, terminal |-> w.terminal]
  <2> DEFINE a == w.inspected + 1
             b == w.accepted + 1
  <2>1. v = [w EXCEPT !.inspected = a, !.accepted = b, !.visited = V, !.steps = T]
    BY DEF Visited
  <2>2. w = [of |-> w.of, seed |-> w.seed, bounds |-> w.bounds, visited |-> w.visited,
             steps |-> w.steps, inspected |-> w.inspected, accepted |-> w.accepted,
             skipped |-> w.skipped, terminal |-> w.terminal]
    BY <1>1, Zenon DEF WalkTyped
  <2> HIDE DEF v, V, T, a, b
  <2>3. v = [of |-> w.of, seed |-> w.seed, bounds |-> w.bounds, visited |-> V,
             steps |-> T, inspected |-> a, accepted |-> b,
             skipped |-> w.skipped, terminal |-> w.terminal]
    BY <2>1, <2>2
  <2> QED
    BY <2>3 DEF a, b
<1>3. V \in Seq(Ids(w.of)) /\ T \in Seq(Seq(w.of.edges))
  <2> DEFINE E == Seq(w.of.edges)
             I == Ids(w.of)
  <2>1. w.visited \in Seq(I) /\ w.steps \in Seq(E) /\ next \in I /\ path \in E
    BY <1>1
  <2> HIDE DEF E, I
  <2>2. V \in Seq(I)
    BY <2>1
  <2>3. T \in Seq(E)
    BY <2>1
  <2> QED
    BY <2>2, <2>3 DEF E, I
<1>4. /\ Len(V) = N + 1 /\ V[N + 1] = next /\ Range(V) = Range(w.visited) \cup {next}
      /\ \A i \in 1 .. N : V[i] = w.visited[i]
      /\ next \notin Range(w.visited) => IsInjective(V)
  BY <1>1, AppendIs
<1>5. /\ Len(T) = N + 1 /\ T[N + 1] = path
      /\ \A i \in 1 .. N : T[i] = w.steps[i]
  BY <1>1, AppendIs
<1>6. N \in Nat /\ N >= 1
  BY <1>1
<1> HIDE DEF v, V, T, N
<1>7. /\ v.of = w.of /\ v.seed = w.seed /\ v.bounds = w.bounds /\ v.visited = V /\ v.steps = T
      /\ v.inspected = w.inspected + 1 /\ v.accepted = w.accepted + 1
      /\ v.skipped = w.skipped /\ v.terminal = w.terminal
  BY <1>2
<1>8. WalkTyped(v)
  <2>1. V \in Seq(Range(V)) /\ T \in Seq(Range(T))
    BY <1>3, OwnEntries
  <2> QED
    BY <1>2, <1>7, <2>1 DEF WalkTyped, IsSeq
<1>9. Allowed(v) = Allowed(w)
  BY <1>7 DEF Allowed
<1> QED
  BY <1>3, <1>4, <1>5, <1>6, <1>7, <1>8, <1>9 DEF v, V, T, N

\* The path to a new node goes on from the path to the node that is left.
LEMMA NewPathIs ==
  ASSUME NEW w, WalkSound(w), NEW q, WalkSearch(w, q), q # <<>>, Len(q[1].steps) < w.bounds.depth,
         NEW e \in Links(w.of, Allowed(w)), q[1].node \in {e.source, e.target},
         Other(e, q[1].node) \notin Range(w.visited)
  PROVE  LET next == Other(e, q[1].node)
             path == Append(q[1].steps, e)
             at == PathNodes(w.seed.value, path)
         IN /\ next \in Ids(w.of) /\ path \in Seq(w.of.edges) /\ Len(path) = Len(q[1].steps) + 1
            /\ Len(path) <= w.bounds.depth
            /\ \A j \in DOMAIN path :
                 /\ path[j] \in Known(w.of) /\ path[j].kind \in Range(w.bounds.relationships)
                 /\ at[j - 1] \in {path[j].source, path[j].target} /\ at[j] \in Ids(w.of)
            /\ IsInjective(at) /\ at[Len(path)] = next
            /\ Range(at) \subseteq Range(w.visited) \cup {next}
<1> DEFINE n == q[1].node
           steps == q[1].steps
           L == Len(steps)
           next == Other(e, n)
           path == Append(steps, e)
           at == PathNodes(w.seed.value, steps)
           on == PathNodes(w.seed.value, path)
<1>1. steps \in Seq(w.of.edges) /\ L \in Nat /\ L < w.bounds.depth
  BY HeadIs
<1>2. PICK j \in 1 .. Len(w.visited) : w.steps[j] = steps /\ w.visited[j] = n
  BY HeadIs
<1>3. PathGood(w, j)
  BY DEF WalkSound
<1>4. /\ \A i \in DOMAIN steps :
           /\ steps[i] \in Known(w.of) /\ steps[i].kind \in Range(w.bounds.relationships)
           /\ at[i - 1] \in {steps[i].source, steps[i].target} /\ at[i] \in Ids(w.of)
      /\ IsInjective(at) /\ at[L] = n /\ Range(at) \subseteq Range(w.visited)
  BY <1>2, <1>3 DEF PathGood, PathAccepted
<1>5. /\ e \in w.of.edges /\ e \in Known(w.of) /\ e.kind \in Range(w.bounds.relationships)
      /\ next \in Ids(w.of)
  <2>1. e \in Known(w.of) /\ e.kind \in Allowed(w)
    BY DEF Links
  <2>2. e \in w.of.edges /\ e.source \in Ids(w.of) /\ e.target \in Ids(w.of)
    BY <2>1, SnapshotIs DEF WalkSound
  <2> QED
    BY <2>1, <2>2 DEF Other, Allowed
<1>6. /\ path \in Seq(w.of.edges) /\ Len(path) = L + 1 /\ DOMAIN path = 1 .. L + 1 /\ path[L + 1] = e
      /\ \A i \in 1 .. L : path[i] = steps[i]
      /\ DOMAIN steps = 1 .. L
  <2>1. steps \in Seq(w.of.edges) /\ e \in w.of.edges
    BY <1>1, <1>5
  <2> HIDE DEF steps
  <2> QED
    BY <2>1
<1>7. DOMAIN at = 0 .. L
  BY <1>1, PathNodesIs
<1>8. /\ DOMAIN on = 0 .. L + 1
      /\ \A k \in 0 .. L : on[k] = at[k]
      /\ on[L + 1] = Other(e, at[L])
  BY <1>1, <1>5, PathNodesGrow
<1>9. w.bounds.depth \in Nat
  BY StructuralAssumption DEF WalkSound, LimitsValid
<1>10. next \notin Range(w.visited) /\ n \in {e.source, e.target}
  OBVIOUS
<1> HIDE DEF at, on, path, L, next, n, steps
<1>11. on[L + 1] = next
  BY <1>4, <1>8 DEF next
<1>12. \A k \in 0 .. L : at[k] \in Range(at)
  BY <1>7 DEF Range
<1>13. \A k \in 0 .. L + 1 : k \in 0 .. L \/ k = L + 1
  BY <1>1
<1>14. IsInjective(on)
  <2>1. ASSUME NEW i \in 0 .. L + 1, NEW k \in 0 .. L + 1, on[i] = on[k]
        PROVE  i = k
    <3>1. CASE i \in 0 .. L /\ k \in 0 .. L
      BY <1>4, <1>7, <1>8, <2>1, <3>1 DEF IsInjective
    <3>2. CASE i \in 0 .. L /\ k = L + 1
      <4>1. on[i] \in Range(w.visited) /\ on[k] = next
        BY <1>4, <1>8, <1>11, <1>12, <3>2
      <4> QED
        BY <4>1, <1>10, <2>1
    <3>3. CASE i = L + 1 /\ k \in 0 .. L
      <4>1. on[k] \in Range(w.visited) /\ on[i] = next
        BY <1>4, <1>8, <1>11, <1>12, <3>3
      <4> QED
        BY <4>1, <1>10, <2>1
    <3> QED
      BY <1>13, <3>1, <3>2, <3>3
  <2> QED
    BY <1>8, <2>1 DEF IsInjective
<1>15. Range(on) \subseteq Range(w.visited) \cup {next}
  <2>1. \A k \in 0 .. L + 1 : on[k] \in Range(w.visited) \cup {next}
    BY <1>4, <1>8, <1>11, <1>12, <1>13
  <2> QED
    BY <1>8, <2>1 DEF Range
<1>16. ASSUME NEW i \in DOMAIN path
       PROVE  /\ path[i] \in Known(w.of) /\ path[i].kind \in Range(w.bounds.relationships)
              /\ on[i - 1] \in {path[i].source, path[i].target} /\ on[i] \in Ids(w.of)
  <2>1. CASE i \in 1 .. L
    <3>1. i \in 0 .. L /\ i - 1 \in 0 .. L
      BY <1>1, <2>1
    <3>2. path[i] = steps[i] /\ on[i] = at[i] /\ on[i - 1] = at[i - 1] /\ i \in DOMAIN steps
      BY <1>6, <1>8, <2>1, <3>1
    <3> QED
      BY <1>4, <3>2
  <2>2. CASE i = L + 1
    <3>1. (L + 1) - 1 = L /\ L \in 0 .. L
      BY <1>1
    <3>2. on[i - 1] = n /\ on[i] = next /\ path[i] = e
      BY <1>4, <1>6, <1>8, <1>11, <2>2, <3>1
    <3> QED
      BY <1>5, <1>10, <3>2
  <2>3. i \in 1 .. L \/ i = L + 1
    BY <1>1, <1>6
  <2> QED
    BY <2>1, <2>2, <2>3
<1>17. Len(path) <= w.bounds.depth
  BY <1>1, <1>6, <1>9
<1>18. /\ next \in Ids(w.of) /\ path \in Seq(w.of.edges) /\ Len(path) = L + 1
       /\ on[Len(path)] = next
  BY <1>5, <1>6, <1>11
<1> QED
  BY <1>14, <1>15, <1>16, <1>17, <1>18 DEF at, on, path, L, next, n, steps

\* A walk that visits a new node stays sound: what it had visited holds
\* everything nearer, so the new path is a shortest one.
LEMMA VisitSound ==
  ASSUME NEW w, WalkSound(w), NEW q, WalkSearch(w, q), q # <<>>, Len(q[1].steps) < w.bounds.depth,
         NEW e \in Links(w.of, Allowed(w)), q[1].node \in {e.source, e.target},
         Other(e, q[1].node) \notin Range(w.visited), w.inspected # w.bounds.edges,
         Len(w.visited) < w.bounds.nodes
  PROVE  WalkSound(Visited(w, Other(e, q[1].node), Append(q[1].steps, e)))
<1> DEFINE next == Other(e, q[1].node)
           path == Append(q[1].steps, e)
           v == Visited(w, next, path)
           N == Len(w.visited)
           L == Len(q[1].steps)
           at == PathNodes(w.seed.value, path)
           near(d) == Within(w.of, w.seed.value, Allowed(w), d)
<1>1. /\ next \in Ids(w.of) /\ path \in Seq(w.of.edges) /\ Len(path) = L + 1
      /\ Len(path) <= w.bounds.depth
      /\ \A j \in DOMAIN path :
           /\ path[j] \in Known(w.of) /\ path[j].kind \in Range(w.bounds.relationships)
           /\ at[j - 1] \in {path[j].source, path[j].target} /\ at[j] \in Ids(w.of)
      /\ IsInjective(at) /\ at[Len(path)] = next
      /\ Range(at) \subseteq Range(w.visited) \cup {next}
  BY NewPathIs
<1>2. next \notin Range(w.visited) /\ L \in Nat
  BY HeadIs
<1>3. next \in near(L + 1) /\ next \notin near(L)
  <2>1. near(L) \subseteq Range(w.visited)
    BY DEF WalkSearch
  <2>2. PICK j \in 1 .. Len(w.visited) : w.steps[j] = q[1].steps /\ w.visited[j] = q[1].node
    BY HeadIs
  <2>3. q[1].node \in near(L)
    BY <2>2 DEF WalkSound, PathGood
  <2> HIDE DEF L
  <2>4. next \in near(L + 1)
    BY <1>2, <2>3, WithinStep
  <2> QED
    BY <1>2, <2>1, <2>4
<1> HIDE DEF path, next, at
<1>4. /\ WalkTyped(v) /\ v.of = w.of /\ v.seed = w.seed /\ v.bounds = w.bounds /\ Allowed(v) = Allowed(w)
      /\ v.visited = Append(w.visited, next) /\ v.steps = Append(w.steps, path)
      /\ v.inspected = w.inspected + 1 /\ v.accepted = w.accepted + 1
      /\ v.skipped = w.skipped /\ v.terminal = w.terminal
      /\ v.visited \in Seq(Ids(w.of)) /\ v.steps \in Seq(Seq(w.of.edges))
      /\ N \in Nat /\ N >= 1 /\ Len(v.visited) = N + 1 /\ Len(v.steps) = N + 1
      /\ v.visited[N + 1] = next /\ v.steps[N + 1] = path
      /\ \A i \in 1 .. N : v.visited[i] = w.visited[i] /\ v.steps[i] = w.steps[i]
      /\ Range(v.visited) = Range(w.visited) \cup {next}
      /\ next \notin Range(w.visited) => IsInjective(v.visited)
  <2>1. next \in Ids(w.of) /\ path \in Seq(w.of.edges)
    BY <1>1
  <2> HIDE DEF N
  <2> QED
    BY <2>1, VisitedIs DEF N
<1> HIDE DEF v
<1>5. PathGood(v, N + 1)
  <2>1. PathAccepted(v.of, v, N + 1)
    BY <1>1, <1>4 DEF PathAccepted, at
  <2>2. Range(at) \subseteq Range(v.visited)
    BY <1>1, <1>4
  <2>3. Len(path) - 1 = L
    BY <1>1, <1>2
  <2>4. v.visited[N + 1] \in Within(v.of, v.seed.value, Allowed(v), Len(v.steps[N + 1]))
    BY <1>1, <1>3, <1>4
  <2>5. v.visited[N + 1] \notin Within(v.of, v.seed.value, Allowed(v), Len(v.steps[N + 1]) - 1)
    BY <1>3, <1>4, <2>3
  <2>6. Range(PathNodes(v.seed.value, v.steps[N + 1])) \subseteq Range(v.visited)
    BY <1>4, <2>2 DEF at
  <2> QED
    BY <2>1, <2>4, <2>5, <2>6 DEF PathGood
<1>6. ASSUME NEW i \in 1 .. N
      PROVE  PathGood(v, i)
  <2>1. PathGood(w, i)
    BY DEF WalkSound
  <2>2. v.visited[i] = w.visited[i] /\ v.steps[i] = w.steps[i] /\ Range(w.visited) \subseteq Range(v.visited)
    BY <1>4
  <2>3. PathAccepted(v.of, v, i)
    BY <1>4, <2>1, <2>2, Zenon DEF PathGood, PathAccepted
  <2>4. Range(PathNodes(v.seed.value, v.steps[i])) \subseteq Range(v.visited)
    BY <1>4, <2>1, <2>2 DEF PathGood
  <2>5. /\ v.visited[i] \in Within(v.of, v.seed.value, Allowed(v), Len(v.steps[i]))
        /\ Len(v.steps[i]) > 0 => v.visited[i] \notin Within(v.of, v.seed.value, Allowed(v), Len(v.steps[i]) - 1)
    BY <1>4, <2>1, <2>2, Zenon DEF PathGood
  <2> QED
    BY <2>3, <2>4, <2>5 DEF PathGood
<1>7. \A i \in 1 .. Len(v.visited) : PathGood(v, i)
  <2>1. \A i \in 1 .. N + 1 : i \in 1 .. N \/ i = N + 1
    BY <1>4
  <2> QED
    BY <1>4, <1>5, <1>6, <2>1
<1>8. /\ GoodSnapshot(w.of) /\ LimitsValid(w.bounds) /\ w.visited[1] = w.seed.value /\ w.steps[1] = <<>>
      /\ w.accepted = N - 1 /\ w.inspected \in w.accepted .. w.bounds.edges
      /\ w.skipped \in Seq({x \in w.of.edges : x.certainty # "Known" /\ x.kind \in Allowed(w)})
      /\ LET kinds == w.bounds.relationships
         IN kinds # <<>> /\ IsInjective(kinds) /\ Range(kinds) \subseteq TraversableKinds
  BY DEF WalkSound
<1>9. w.bounds.nodes \in Nat /\ w.bounds.edges \in Nat
  BY <1>8, StructuralAssumption, SMTT(60) DEF LimitsValid
<1>10. /\ N + 1 \in 1 .. w.bounds.nodes /\ w.accepted + 1 = (N + 1) - 1
       /\ w.inspected + 1 \in w.accepted + 1 .. w.bounds.edges
  <2>1. w.accepted \in Int /\ w.inspected \in Int /\ w.inspected >= w.accepted /\ w.inspected <= w.bounds.edges
    BY <1>4, <1>8, <1>9
  <2>2. w.inspected + 1 \in w.accepted + 1 .. w.bounds.edges
    BY <1>9, <2>1
  <2>3. w.accepted + 1 = (N + 1) - 1
    BY <1>4, <1>8
  <2>4. N + 1 \in 1 .. w.bounds.nodes
    BY <1>4, <1>9
  <2> QED
    BY <2>2, <2>3, <2>4
<1>11. v.visited[1] = v.seed.value /\ v.steps[1] = <<>>
  <2>1. 1 \in 1 .. N
    BY <1>4
  <2> QED
    BY <1>4, <1>8, <2>1
<1>12. Len(v.steps) = Len(v.visited) /\ Len(v.visited) \in 1 .. v.bounds.nodes
       /\ v.accepted = Len(v.visited) - 1 /\ v.inspected \in v.accepted .. v.bounds.edges
  BY <1>4, <1>10
<1>13. /\ v.visited \in Seq(Ids(v.of)) /\ v.steps \in Seq(Seq(v.of.edges)) /\ IsInjective(v.visited)
       /\ v.skipped \in Seq({x \in v.of.edges : x.certainty # "Known" /\ x.kind \in Allowed(v)})
       /\ GoodSnapshot(v.of) /\ LimitsValid(v.bounds)
       /\ LET kinds == v.bounds.relationships
          IN kinds # <<>> /\ IsInjective(kinds) /\ Range(kinds) \subseteq TraversableKinds
  BY <1>2, <1>4, <1>8
<1>14. WalkSound(v)
  BY <1>4, <1>7, <1>11, <1>12, <1>13 DEF WalkSound
<1> QED
  BY <1>14 DEF v, next, path

\* The new node goes to the end of the queue.
LEMMA VisitSearch ==
  ASSUME NEW w, WalkSound(w), NEW q, WalkSearch(w, q), q # <<>>, NEW next \in Ids(w.of),
         NEW path \in Seq(w.of.edges), Len(path) = Len(q[1].steps) + 1
  PROVE  LET v == Visited(w, next, path)
             longer == Append(q, [node |-> next, steps |-> path])
         IN /\ WalkSearch(v, longer) /\ v.terminal = w.terminal /\ next \in Range(v.visited)
            /\ \A t : WalkTodo(w, q, t) => WalkTodo(v, longer, t)
<1> DEFINE v == Visited(w, next, path)
           N == Len(w.visited)
           x == [node |-> next, steps |-> path]
           Q == [node : Ids(w.of), steps : Seq(w.of.edges)]
           longer == Append(q, x)
           M == Len(q)
<1>1. /\ v.of = w.of /\ v.seed = w.seed /\ v.bounds = w.bounds /\ Allowed(v) = Allowed(w)
      /\ N \in Nat /\ N >= 1 /\ Len(v.visited) = N + 1
      /\ v.visited[N + 1] = next /\ v.steps[N + 1] = path
      /\ \A i \in 1 .. N : v.visited[i] = w.visited[i] /\ v.steps[i] = w.steps[i]
      /\ Range(v.visited) = Range(w.visited) \cup {next} /\ v.terminal = w.terminal
  <2> HIDE DEF N
  <2>1. /\ WalkTyped(v) /\ v.of = w.of /\ v.seed = w.seed /\ v.bounds = w.bounds /\ Allowed(v) = Allowed(w)
        /\ v.visited = Append(w.visited, next) /\ v.steps = Append(w.steps, path)
        /\ v.inspected = w.inspected + 1 /\ v.accepted = w.accepted + 1
        /\ v.skipped = w.skipped /\ v.terminal = w.terminal
        /\ v.visited \in Seq(Ids(w.of)) /\ v.steps \in Seq(Seq(w.of.edges))
        /\ N \in Nat /\ N >= 1 /\ Len(v.visited) = N + 1 /\ Len(v.steps) = N + 1
        /\ v.visited[N + 1] = next /\ v.steps[N + 1] = path
        /\ \A i \in 1 .. N : v.visited[i] = w.visited[i] /\ v.steps[i] = w.steps[i]
        /\ Range(v.visited) = Range(w.visited) \cup {next}
        /\ next \notin Range(w.visited) => IsInjective(v.visited)
    BY VisitedIs DEF N
  <2> HIDE DEF v
  <2> QED
    BY <2>1
<1>2. /\ q \in Seq(Q)
      /\ \A i \in 1 .. M : \E j \in 1 .. N : q[i] = [node |-> w.visited[j], steps |-> w.steps[j]]
      /\ \A i, j \in 1 .. M : i <= j =>
           Len(q[i].steps) <= Len(q[j].steps) /\ Len(q[j].steps) <= Len(q[i].steps) + 1
      /\ Within(w.of, w.seed.value, Allowed(w), Len(q[1].steps)) \subseteq Range(w.visited)
      /\ \A n \in Range(w.visited) : LinksFound(w, n) \/ \E i \in 1 .. M : q[i].node = n
  BY DEF WalkSearch
<1>3. x \in Q /\ x.node = next /\ x.steps = path
  OBVIOUS
<1> HIDE DEF v, N, x
<1>4. \A i \in 1 .. M : q[i] \in Q /\ Len(q[i].steps) \in Nat
  <2>1. \A y \in Q : Len(y.steps) \in Nat
    OBVIOUS
  <2> HIDE DEF Q
  <2>2. \A i \in 1 .. M : q[i] \in Q
    BY <1>2
  <2> QED
    BY <2>1, <2>2
<1> HIDE DEF Q
<1>5. /\ longer \in Seq(Q) /\ Len(longer) = M + 1 /\ longer[M + 1] = x /\ M \in Nat /\ M >= 1
      /\ \A i \in 1 .. M : longer[i] = q[i]
  BY <1>2, <1>3
<1> HIDE DEF longer, M
<1>6. (\A i \in 1 .. M + 1 : i \in 1 .. M \/ i = M + 1) /\ 1 \in 1 .. M /\ M + 1 \in 1 .. M + 1
      /\ \A i \in 1 .. M : i \in 1 .. M + 1
  BY <1>5
<1>7. (\A i \in 1 .. N : i \in 1 .. N + 1) /\ N + 1 \in 1 .. N + 1
  BY <1>1
<1>8. longer[1] = q[1] /\ longer # <<>>
  BY <1>5, <1>6
<1>9. \A i \in 1 .. M + 1 : \E j \in 1 .. N + 1 : longer[i] = [node |-> v.visited[j], steps |-> v.steps[j]]
  <2>1. SUFFICES ASSUME NEW i \in 1 .. M + 1
                 PROVE  \E j \in 1 .. N + 1 : longer[i] = [node |-> v.visited[j], steps |-> v.steps[j]]
    OBVIOUS
  <2>2. CASE i = M + 1
    BY <1>1, <1>5, <1>7, <2>2 DEF x
  <2>3. CASE i \in 1 .. M
    <3>1. PICK j \in 1 .. N : q[i] = [node |-> w.visited[j], steps |-> w.steps[j]]
      BY <1>2, <2>3
    <3>2. longer[i] = q[i] /\ v.visited[j] = w.visited[j] /\ v.steps[j] = w.steps[j] /\ j \in 1 .. N + 1
      BY <1>1, <1>5, <1>7, <2>3
    <3> QED
      BY <3>1, <3>2
  <2> QED
    BY <1>6, <2>2, <2>3
<1>10. ASSUME NEW i \in 1 .. M + 1, NEW j \in 1 .. M + 1, i <= j
       PROVE  Len(longer[i].steps) <= Len(longer[j].steps) /\ Len(longer[j].steps) <= Len(longer[i].steps) + 1
  <2>1. CASE j \in 1 .. M
    <3>1. i \in 1 .. M
      BY <1>5, <1>10, <2>1
    <3>2. Len(q[i].steps) <= Len(q[j].steps) /\ Len(q[j].steps) <= Len(q[i].steps) + 1
      BY <1>2, <1>10, <2>1, <3>1
    <3> QED
      BY <1>5, <2>1, <3>1, <3>2
  <2>2. CASE i \in 1 .. M /\ j = M + 1
    <3>1. 1 <= i
      BY <2>2
    <3>2. Len(q[1].steps) <= Len(q[i].steps) /\ Len(q[i].steps) <= Len(q[1].steps) + 1
      BY <1>2, <1>6, <2>2, <3>1
    <3>3. Len(longer[j].steps) = Len(q[1].steps) + 1 /\ longer[i] = q[i]
      BY <1>3, <1>5, <2>2
    <3>4. Len(q[1].steps) \in Nat /\ Len(q[i].steps) \in Nat
      BY <1>4, <1>6, <2>2
    <3> QED
      BY <3>2, <3>3, <3>4
  <2>3. CASE i = M + 1 /\ j = M + 1
    <3>1. Len(longer[i].steps) \in Nat /\ longer[i] = longer[j]
      BY <1>3, <1>4, <1>5, <1>6, <2>3
    <3> QED
      BY <3>1
  <2>4. i = M + 1 => j = M + 1
    BY <1>5, <1>10
  <2> QED
    BY <1>6, <2>1, <2>2, <2>3, <2>4
<1>11. \A n : LinksFound(w, n) => LinksFound(v, n)
  BY <1>1 DEF LinksFound
<1>12. ASSUME NEW n \in Range(v.visited)
       PROVE  LinksFound(v, n) \/ \E i \in 1 .. M + 1 : longer[i].node = n
  <2>1. CASE n = next
    BY <1>3, <1>5, <1>6, <2>1
  <2>2. CASE n \in Range(w.visited)
    <3>1. LinksFound(w, n) \/ \E i \in 1 .. M : q[i].node = n
      BY <1>2, <2>2
    <3> QED
      BY <1>5, <1>6, <1>11, <3>1
  <2> QED
    BY <1>1, <2>1, <2>2
<1>13. WalkSearch(v, longer)
  <2>1. longer \in Seq([node : Ids(v.of), steps : Seq(v.of.edges)])
    BY <1>1, <1>5 DEF Q
  <2>2. Within(v.of, v.seed.value, Allowed(v), Len(longer[1].steps)) \subseteq Range(v.visited)
    BY <1>1, <1>2, <1>8
  <2>3. \A i \in 1 .. Len(longer) : \E j \in 1 .. Len(v.visited) : longer[i] = [node |-> v.visited[j], steps |-> v.steps[j]]
    BY <1>1, <1>5, <1>9
  <2>4. \A i, j \in 1 .. Len(longer) : i <= j =>
          Len(longer[i].steps) <= Len(longer[j].steps) /\ Len(longer[j].steps) <= Len(longer[i].steps) + 1
    BY <1>5, <1>10
  <2>5. \A n \in Range(v.visited) : LinksFound(v, n) \/ \E i \in 1 .. Len(longer) : longer[i].node = n
    BY <1>5, <1>12
  <2> QED
    BY <2>1, <2>2, <2>3, <2>4, <2>5 DEF WalkSearch
<1>14. ASSUME NEW t, WalkTodo(w, q, t), t # <<>>
       PROVE  WalkTodo(v, longer, t)
  <2>1. /\ Len(q[1].steps) < w.bounds.depth /\ t \in Seq(Sides(w, q[1].node))
        /\ \A e \in Links(w.of, Allowed(w)) : q[1].node \in {e.source, e.target} =>
             Other(e, q[1].node) \in Range(w.visited) \/ \E i \in 1 .. Len(t) : t[i].edge = e
    BY <1>14 DEF WalkTodo
  <2>2. Sides(v, q[1].node) = Sides(w, q[1].node)
    BY <1>1, Zenon DEF Sides
  <2>3. \A e \in Links(v.of, Allowed(v)) : longer[1].node \in {e.source, e.target} =>
          Other(e, longer[1].node) \in Range(v.visited) \/ \E i \in 1 .. Len(t) : t[i].edge = e
    BY <1>1, <1>8, <2>1
  <2>4. Len(longer[1].steps) < v.bounds.depth /\ t \in Seq(Sides(v, longer[1].node))
    BY <1>1, <1>8, <2>1, <2>2
  <2> QED
    BY <1>8, <2>3, <2>4 DEF WalkTodo
<1>15. \A t : WalkTodo(w, q, t) => WalkTodo(v, longer, t)
  <2>1. \A t : t = <<>> => WalkTodo(v, longer, t)
    BY DEF WalkTodo
  <2> QED
    BY <1>14, <2>1
<1>16. v.terminal = w.terminal /\ next \in Range(v.visited)
  BY <1>1
<1> QED
  BY <1>13, <1>15, <1>16 DEF v, longer, x

\* What the walk writes, the validator accepts.
LEMMA OwnWalkAccepted ==
  ASSUME NEW w, WalkSound(w), TerminalBound(w)
  PROVE  TraversalAccepted(w.of, w)
<1>1. /\ LimitsValid(w.bounds) /\ w.visited \in Seq(Ids(w.of)) /\ w.steps \in Seq(Seq(w.of.edges))
      /\ LET kinds == w.bounds.relationships
         IN kinds # <<>> /\ IsInjective(kinds) /\ Range(kinds) \subseteq TraversableKinds
      /\ Len(w.steps) = Len(w.visited) /\ Len(w.visited) \in 1 .. w.bounds.nodes
      /\ w.visited[1] = w.seed.value /\ w.steps[1] = <<>> /\ IsInjective(w.visited)
      /\ w.accepted = Len(w.visited) - 1 /\ w.inspected \in w.accepted .. w.bounds.edges
      /\ w.skipped \in Seq({e \in w.of.edges : e.certainty # "Known" /\ e.kind \in Allowed(w)})
      /\ \A i \in 1 .. Len(w.visited) : PathGood(w, i)
  BY DEF WalkSound
<1>2. \A i \in DOMAIN w.visited : PathAccepted(w.of, w, i)
  BY <1>1 DEF PathGood
<1>3. \A e \in Range(w.skipped) : e \in w.of.edges /\ e.certainty # "Known" /\ e.kind \in Range(w.bounds.relationships)
  <2> DEFINE S == {e \in w.of.edges : e.certainty # "Known" /\ e.kind \in Allowed(w)}
  <2>1. w.skipped \in Seq(S)
    BY <1>1
  <2> HIDE DEF S
  <2>2. Range(w.skipped) \subseteq S
    BY <2>1, OwnEntries
  <2> QED
    BY <2>2 DEF S, Allowed
<1>4. /\ w.visited # <<>> /\ Len(w.visited) <= w.bounds.nodes
      /\ w.inspected <= w.bounds.edges /\ w.inspected >= w.accepted
  <2>1. w.bounds.nodes \in Nat /\ w.bounds.edges \in Nat /\ Len(w.visited) \in Nat /\ w.accepted \in Int
    <3>1. w.bounds.nodes \in Nat /\ w.bounds.edges \in Nat
      BY <1>1, LimitsAre
    <3>2. Len(w.visited) \in Nat
      BY <1>1
    <3> QED
      BY <1>1, <3>1, <3>2
  <2>2. Len(w.visited) >= 1
    BY <1>1, <2>1
  <2>3. w.visited # <<>>
    BY <2>2
  <2> QED
    BY <1>1, <2>1, <2>3
<1> QED
  BY <1>1, <1>2, <1>3, <1>4 DEF TraversalAccepted

\* A walk that stops is in order if its last word is true.
LEMMA StopWalks ==
  ASSUME NEW w, WalkSound(w), NEW t, t # "Running", NEW v, v = [w EXCEPT !.terminal = t],
         TerminalBound(v),
         t = "Complete" => Range(w.visited) = Within(w.of, w.seed.value, Allowed(w), Cardinality(Ids(w.of))),
         t \in {"DepthLimit", "NodeLimit"} =>
           Range(w.visited) # Within(w.of, w.seed.value, Allowed(w), Cardinality(Ids(w.of)))
  PROVE  Walking(v, <<>>, <<>>)
<1>1. WalkSound(v) /\ SameVisits(w, v) /\ v.terminal = t
  BY StoppedIs
<1>2. v.of = w.of /\ v.seed = w.seed /\ v.visited = w.visited /\ Allowed(v) = Allowed(w)
  BY <1>1 DEF SameVisits, Allowed
<1>3. \A i \in DOMAIN v.visited : Len(v.steps[i]) > 0 =>
        v.visited[i] \notin Within(v.of, v.seed.value, Allowed(v), Len(v.steps[i]) - 1)
  BY <1>1, ShortestPaths
<1>4. Honest(v)
  BY <1>1, <1>2, <1>3 DEF Honest
<1> QED
  BY <1>1, <1>4 DEF Walking

\* Leaving a node: at the limit of the depth, or with its edges to inspect.
LEMMA LeaveNodeWalks ==
  ASSUME Walking(walk, leaving, todo), LeaveNode
  PROVE  Walking(walk', leaving', todo') /\ (walk'.terminal # "Running" => todo' = <<>>)
<1> DEFINE n == Head(leaving).node
           head == Head(leaving)
<1>1. /\ walk.terminal = "Running" /\ todo = <<>> /\ leaving # <<>>
      /\ WalkSound(walk) /\ WalkSearch(walk, leaving)
  BY DEF LeaveNode, Walking
<1>2. /\ head = leaving[1] /\ n = leaving[1].node /\ n \in Range(walk.visited)
      /\ Len(head.steps) \in Nat
      /\ \E j \in 1 .. Len(walk.visited) : walk.steps[j] = head.steps /\ walk.visited[j] = n
  BY <1>1, HeadIs
<1>3. PICK j \in 1 .. Len(walk.visited) : walk.steps[j] = head.steps /\ walk.visited[j] = n
  BY <1>2
<1>4. Len(head.steps) <= walk.bounds.depth /\ walk.bounds.depth \in Nat /\ j \in DOMAIN walk.steps
  <2>1. PathAccepted(walk.of, walk, j)
    BY <1>1 DEF WalkSound, PathGood
  <2>2. Len(walk.steps[j]) <= walk.bounds.depth
    BY <2>1 DEF PathAccepted
  <2>3. walk.bounds.depth \in Nat
    BY <1>1, LimitsAre DEF WalkSound
  <2>4. walk.steps \in Seq(Seq(walk.of.edges)) /\ Len(walk.steps) = Len(walk.visited)
    BY <1>1 DEF WalkSound
  <2>5. j \in DOMAIN walk.steps
    BY <2>4
  <2> QED
    BY <1>3, <2>2, <2>3, <2>5
<1>5. CASE Len(head.steps) = walk.bounds.depth /\ HasNeighbour(walk, n)
  <2>1. Stop("DepthLimit")
    BY <1>5 DEF LeaveNode, AtDepthLimit
  <2>2. PICK e \in Known(walk.of) \cap Incident(walk.of, n) :
          e.kind \in Allowed(walk) /\ Other(e, n) \notin Range(walk.visited)
    BY <1>5 DEF HasNeighbour
  <2>3. e \in Links(walk.of, Allowed(walk)) /\ n \in {e.source, e.target}
    BY <2>2 DEF Links, Incident
  <2>4. Range(walk.visited) # Within(walk.of, walk.seed.value, Allowed(walk), Cardinality(Ids(walk.of)))
    BY <1>1, <1>2, <2>2, <2>3, CutShort
  <2>5. walk' = [walk EXCEPT !.terminal = "DepthLimit"] /\ leaving' = <<>> /\ todo' = <<>>
    BY <2>1 DEF Stop
  <2>6. SameVisits(walk, walk') /\ walk'.terminal = "DepthLimit"
    BY <1>1, <2>5, StoppedIs
  <2>7. TerminalBound(walk')
    BY <1>3, <1>4, <1>5, <2>6 DEF TerminalBound, SameVisits
  <2>8. Walking(walk', <<>>, <<>>)
    BY <1>1, <2>4, <2>5, <2>7, StopWalks
  <2> QED
    BY <2>5, <2>8
<1>6. CASE Len(head.steps) = walk.bounds.depth /\ ~ HasNeighbour(walk, n)
  <2>1. leaving' = Tail(leaving) /\ walk' = walk /\ todo' = todo
    BY <1>6 DEF LeaveNode, AtDepthLimit
  <2>2. LinksFound(walk, n)
    BY <1>6 DEF HasNeighbour, LinksFound, Links, Incident, Known
  <2>3. WalkSearch(walk, Tail(leaving))
    BY <1>1, <1>2, <2>2, HeadLeaves
  <2>4. WalkTodo(walk, Tail(leaving), <<>>)
    BY DEF WalkTodo
  <2> QED
    BY <1>1, <2>1, <2>3, <2>4 DEF Walking
<1>7. CASE Len(head.steps) # walk.bounds.depth
  <2>1. PICK order \in EdgeOrders(walk, n) : todo' = order
    BY <1>7 DEF LeaveNode
  <2>2. walk' = walk /\ leaving' = IF todo' = <<>> THEN Tail(leaving) ELSE leaving
    BY <1>7 DEF LeaveNode
  <2>3. IsFiniteSet(Sides(walk, n))
    <3>1. IsFiniteSet(walk.of.edges)
      BY <1>1, SnapshotIs DEF WalkSound
    <3> DEFINE A == {x \in walk.of.edges : x.source = n /\ x.kind \in Allowed(walk)}
               B == {x \in walk.of.edges : x.target = n /\ x.kind \in Allowed(walk)}
    <3>2. IsFiniteSet(A) /\ IsFiniteSet(B)
      BY <3>1, FS_Subset
    <3> HIDE DEF A, B
    <3>3. /\ IsFiniteSet({[edge |-> e, way |-> "forward"] : e \in A})
          /\ IsFiniteSet({[edge |-> e, way |-> "reverse"] : e \in B})
      BY <3>2, OneSideIs
    <3>4. IsFiniteSet({[edge |-> e, way |-> "forward"] : e \in A} \cup {[edge |-> e, way |-> "reverse"] : e \in B})
      BY <3>3, FS_Union
    <3> QED
      BY <3>4 DEF Sides, A, B
  <2>4. order \in Seq(Sides(walk, n)) /\ DOMAIN order = 1 .. Len(order) /\ Range(order) = Sides(walk, n)
    <3>1. order \in SetToSeqs(Sides(walk, n))
      BY DEF EdgeOrders
    <3> QED
      BY <2>3, <3>1, PermutationIs
  <2>5. ASSUME NEW e \in Links(walk.of, Allowed(walk)), n \in {e.source, e.target}
        PROVE  \E i \in 1 .. Len(order) : order[i].edge = e
    <3>1. e \in walk.of.edges /\ e.kind \in Allowed(walk)
      BY DEF Links, Known
    <3>2. \E x \in Sides(walk, n) : x.edge = e
      <4>1. CASE e.source = n
        <5>1. [edge |-> e, way |-> "forward"] \in Sides(walk, n)
          BY <3>1, <4>1 DEF Sides
        <5> QED
          BY <5>1
      <4>2. CASE e.target = n
        <5>1. [edge |-> e, way |-> "reverse"] \in Sides(walk, n)
          BY <3>1, <4>2 DEF Sides
        <5> QED
          BY <5>1
      <4> QED
        BY <2>5, <4>1, <4>2
    <3>3. \E x \in Range(order) : x.edge = e
      BY <2>4, <3>2
    <3> QED
      BY <2>4, <3>3 DEF Range
  <2>6. Len(head.steps) < walk.bounds.depth
    BY <1>2, <1>4, <1>7
  <2>7. CASE todo' = <<>>
    <3>1. 1 .. Len(order) = {}
      BY <2>1, <2>7
    <3>2. LinksFound(walk, n)
      BY <2>5, <3>1 DEF LinksFound
    <3>3. WalkSearch(walk, Tail(leaving))
      BY <1>1, <1>2, <3>2, HeadLeaves
    <3> QED
      BY <1>1, <2>2, <2>7, <3>3 DEF Walking, WalkTodo
  <2>8. CASE todo' # <<>>
    <3>1. WalkTodo(walk, leaving, order)
      BY <1>1, <1>2, <2>4, <2>5, <2>6 DEF WalkTodo
    <3> QED
      BY <1>1, <2>1, <2>2, <2>8, <3>1 DEF Walking
  <2> QED
    BY <2>7, <2>8
<1> QED
  BY <1>5, <1>6, <1>7

\* Inspecting an edge of the node that is being left.
LEMMA InspectEdgeWalks ==
  ASSUME Walking(walk, leaving, todo), walk.terminal = "Running", InspectEdge
  PROVE  Walking(walk', leaving', todo') /\ (walk'.terminal # "Running" => todo' = <<>>)
<1> DEFINE edge == Head(todo).edge
           n == Head(leaving).node
           next == Other(edge, n)
           path == Append(Head(leaving).steps, edge)
           rest == IF Len(todo) = 1 THEN Tail(leaving) ELSE leaving
           looked == [walk EXCEPT !.inspected = @ + 1]
<1>1. /\ todo # <<>> /\ WalkSound(walk) /\ WalkSearch(walk, leaving) /\ WalkTodo(walk, leaving, todo)
  BY DEF InspectEdge, Walking
<1>2. /\ leaving # <<>> /\ Len(leaving[1].steps) < walk.bounds.depth
      /\ Head(todo) = todo[1] /\ edge \in walk.of.edges /\ edge.kind \in Allowed(walk)
      /\ leaving[1].node \in {edge.source, edge.target}
      /\ edge.certainty = "Known" => edge \in Links(walk.of, Allowed(walk))
  BY <1>1, NextEdgeIs
<1>3. Head(leaving) = leaving[1] /\ n \in Range(walk.visited) /\ n = leaving[1].node
  BY <1>1, <1>2, HeadIs
<1>4. \/ walk.inspected = walk.bounds.edges /\ Stop("EdgeLimit")
      \/ /\ walk.inspected < walk.bounds.edges /\ edge.certainty # "Known"
         /\ walk' = [looked EXCEPT !.skipped = Append(@, edge)]
         /\ leaving' = rest /\ todo' = Tail(todo)
      \/ /\ walk.inspected < walk.bounds.edges /\ edge.certainty = "Known"
         /\ next \in Range(walk.visited)
         /\ walk' = looked /\ leaving' = rest /\ todo' = Tail(todo)
      \/ /\ walk.inspected < walk.bounds.edges /\ edge.certainty = "Known"
         /\ next \notin Range(walk.visited) /\ Len(walk.visited) = walk.bounds.nodes
         /\ walk' = [looked EXCEPT !.terminal = "NodeLimit"]
         /\ leaving' = <<>> /\ todo' = <<>>
      \/ /\ walk.inspected < walk.bounds.edges /\ edge.certainty = "Known"
         /\ next \notin Range(walk.visited) /\ Len(walk.visited) < walk.bounds.nodes
         /\ walk' = [looked EXCEPT !.accepted = @ + 1, !.visited = Append(@, next), !.steps = Append(@, path)]
         /\ leaving' = Append(rest, [node |-> next, steps |-> path])
         /\ todo' = Tail(todo)
  BY DEF InspectEdge
<1> HIDE DEF edge, n, next, path, rest, looked
<1>5. ASSUME walk.inspected < walk.bounds.edges
      PROVE  /\ WalkSound(looked) /\ SameVisits(walk, looked) /\ looked.terminal = walk.terminal
             /\ looked.inspected = walk.inspected + 1 /\ looked.accepted = walk.accepted
             /\ walk.inspected # walk.bounds.edges
  <2>1. walk.inspected # walk.bounds.edges
    <3>1. walk.bounds.edges \in Nat
      BY <1>1, LimitsAre DEF WalkSound
    <3> QED
      BY <1>5, <3>1
  <2> QED
    BY <1>1, <2>1, SeenIs DEF looked
<1>6. CASE walk.inspected = walk.bounds.edges /\ Stop("EdgeLimit")
  <2>1. walk' = [walk EXCEPT !.terminal = "EdgeLimit"] /\ leaving' = <<>> /\ todo' = <<>>
    BY <1>6 DEF Stop
  <2>2. SameVisits(walk, walk') /\ walk'.terminal = "EdgeLimit" /\ walk'.inspected = walk.inspected
    BY <1>1, <2>1, StoppedIs
  <2>3. TerminalBound(walk')
    BY <1>6, <2>2 DEF TerminalBound, SameVisits
  <2>4. Walking(walk', <<>>, <<>>)
    BY <1>1, <2>1, <2>3, StopWalks
  <2> QED
    BY <2>1, <2>4
<1>7. CASE /\ walk.inspected < walk.bounds.edges /\ edge.certainty # "Known"
           /\ walk' = [looked EXCEPT !.skipped = Append(@, edge)]
           /\ leaving' = rest /\ todo' = Tail(todo)
  <2>1. edge \in looked.of.edges /\ edge.kind \in Allowed(looked)
    BY <1>2, <1>5, <1>7 DEF SameVisits, Allowed
  <2>2. WalkSound(walk') /\ SameVisits(looked, walk') /\ walk'.terminal = looked.terminal
    BY <1>5, <1>7, <2>1, SkippedIs
  <2>3. SameVisits(walk, walk') /\ walk'.terminal = "Running"
    BY <1>5, <1>7, <2>2 DEF SameVisits
  <2>4. WalkSearch(walk, rest) /\ WalkTodo(walk, rest, Tail(todo))
    <3>1. todo[1].edge.certainty # "Known"
      BY <1>2, <1>7 DEF edge
    <3> QED
      BY <1>1, <3>1, EdgeDone DEF rest
  <2>5. WalkSearch(walk', rest) /\ WalkTodo(walk', rest, Tail(todo))
    BY <2>3, <2>4, SameVisitsIs
  <2> QED
    BY <1>7, <2>2, <2>3, <2>5 DEF Walking
<1>8. CASE /\ walk.inspected < walk.bounds.edges /\ edge.certainty = "Known"
           /\ next \in Range(walk.visited)
           /\ walk' = looked /\ leaving' = rest /\ todo' = Tail(todo)
  <2>1. WalkSearch(walk, rest) /\ WalkTodo(walk, rest, Tail(todo))
    <3>1. Other(todo[1].edge, leaving[1].node) \in Range(walk.visited)
      BY <1>2, <1>3, <1>8 DEF next, edge
    <3> QED
      BY <1>1, <3>1, EdgeDone DEF rest
  <2>2. WalkSearch(looked, rest) /\ WalkTodo(looked, rest, Tail(todo))
    BY <1>5, <1>8, <2>1, SameVisitsIs
  <2> QED
    BY <1>5, <1>8, <2>2 DEF Walking
<1>9. CASE /\ walk.inspected < walk.bounds.edges /\ edge.certainty = "Known"
           /\ next \notin Range(walk.visited) /\ Len(walk.visited) = walk.bounds.nodes
           /\ walk' = [looked EXCEPT !.terminal = "NodeLimit"]
           /\ leaving' = <<>> /\ todo' = <<>>
  <2>1. looked.visited = walk.visited /\ looked.of = walk.of /\ looked.seed = walk.seed
        /\ Allowed(looked) = Allowed(walk) /\ looked.bounds = walk.bounds
    BY <1>5, <1>9 DEF SameVisits, Allowed
  <2>2. SameVisits(looked, walk') /\ walk'.terminal = "NodeLimit"
    BY <1>5, <1>9, StoppedIs
  <2>3. TerminalBound(walk')
    BY <1>9, <2>1, <2>2 DEF TerminalBound, SameVisits
  <2>4. Range(walk.visited) # Within(walk.of, walk.seed.value, Allowed(walk), Cardinality(Ids(walk.of)))
    <3>1. edge \in Links(walk.of, Allowed(walk)) /\ n \in {edge.source, edge.target}
      BY <1>2, <1>3, <1>9
    <3>2. Other(edge, n) \notin Range(walk.visited)
      BY <1>9 DEF next
    <3> QED
      BY <1>1, <1>3, <3>1, <3>2, CutShort
  <2>5. Walking(walk', <<>>, <<>>)
    <3>1. Range(looked.visited) # Within(looked.of, looked.seed.value, Allowed(looked), Cardinality(Ids(looked.of)))
      BY <2>1, <2>4
    <3> QED
      BY <1>5, <1>9, <2>3, <3>1, StopWalks
  <2> QED
    BY <1>9, <2>5
<1>10. CASE /\ walk.inspected < walk.bounds.edges /\ edge.certainty = "Known"
            /\ next \notin Range(walk.visited) /\ Len(walk.visited) < walk.bounds.nodes
            /\ walk' = [looked EXCEPT !.accepted = @ + 1, !.visited = Append(@, next), !.steps = Append(@, path)]
            /\ leaving' = Append(rest, [node |-> next, steps |-> path])
            /\ todo' = Tail(todo)
  <2> DEFINE x == [node |-> next, steps |-> path]
             longer == Append(leaving, x)
             v == Visited(walk, next, path)
  <2>1. edge \in Links(walk.of, Allowed(walk)) /\ next = Other(edge, leaving[1].node)
        /\ path = Append(leaving[1].steps, edge)
    BY <1>2, <1>3, <1>10 DEF next, path
  <2>2. next \in Ids(walk.of) /\ path \in Seq(walk.of.edges) /\ Len(path) = Len(leaving[1].steps) + 1
    BY <1>1, <1>2, <1>10, <2>1, NewPathIs
  <2>3. walk' = v
    <3>1. walk = [of |-> walk.of, seed |-> walk.seed, bounds |-> walk.bounds, visited |-> walk.visited,
                  steps |-> walk.steps, inspected |-> walk.inspected, accepted |-> walk.accepted,
                  skipped |-> walk.skipped, terminal |-> walk.terminal]
      BY <1>1, Zenon DEF WalkSound, WalkTyped
    <3> QED
      BY <1>10, <3>1 DEF looked, Visited
  <2>4. WalkSound(v)
    BY <1>1, <1>2, <1>5, <1>10, <2>1, VisitSound
  <2>5. /\ WalkSearch(v, longer) /\ v.terminal = walk.terminal /\ next \in Range(v.visited)
        /\ WalkTodo(v, longer, todo)
    BY <1>1, <1>2, <2>2, VisitSearch
  <2>7. longer[1] = leaving[1] /\ Append(rest, x) = IF Len(todo) = 1 THEN Tail(longer) ELSE longer
    <3> DEFINE Q == [node : Ids(walk.of), steps : Seq(walk.of.edges)]
    <3>1. leaving \in Seq(Q) /\ x \in Q
      BY <1>1, <2>2 DEF WalkSearch
    <3> HIDE DEF x, Q
    <3>2. longer[1] = leaving[1]
      BY <1>2, <3>1
    <3>3. Append(Tail(leaving), x) = Tail(Append(leaving, x))
      BY <1>2, <3>1
    <3> QED
      BY <3>2, <3>3 DEF rest
  <2> HIDE DEF v, longer, x
  <2>8. Other(todo[1].edge, longer[1].node) \in Range(v.visited)
    BY <1>2, <1>3, <2>5, <2>7 DEF next, edge
  <2>9. WalkSearch(v, Append(rest, x)) /\ WalkTodo(v, Append(rest, x), Tail(todo))
    BY <1>1, <2>4, <2>5, <2>7, <2>8, EdgeDone
  <2>10. leaving' = Append(rest, x) /\ todo' = Tail(todo)
    BY <1>10 DEF x
  <2> QED
    BY <2>3, <2>4, <2>5, <2>9, <2>10 DEF Walking
<1> QED
  BY <1>4, <1>6, <1>7, <1>8, <1>9, <1>10

\* The queue is empty.
LEMMA WalkCompleteWalks ==
  ASSUME Walking(walk, leaving, todo), WalkComplete
  PROVE  Walking(walk', leaving', todo') /\ todo' = <<>>
<1>1. walk.terminal = "Running" /\ leaving = <<>> /\ Stop("Complete")
  BY DEF WalkComplete
<1>2. WalkSound(walk) /\ WalkSearch(walk, <<>>)
  BY <1>1 DEF Walking
<1>3. walk' = [walk EXCEPT !.terminal = "Complete"] /\ leaving' = <<>> /\ todo' = <<>>
  BY <1>1 DEF Stop
<1>4. walk'.terminal = "Complete"
  BY <1>2, <1>3, StoppedIs
<1>5. TerminalBound(walk')
  BY <1>4 DEF TerminalBound
<1>6. Walking(walk', <<>>, <<>>)
  BY <1>2, <1>3, <1>5, CompleteIs, StopWalks
<1> QED
  BY <1>3, <1>6

(***************************************************************************)
(* The structural packet: tiers                                            *)
(***************************************************************************)
\* Receipts from which a packet is made were accepted.
LEMMA AcceptedIs ==
  ASSUME NEW s, NEW r, NEW k, NEW w, PacketError(s, r, k, w) = "none"
  PROVE  RankingAccepted(s, k) /\ (w # NoValue => TraversalAccepted(s, w))
BY DEF PacketError

\* An accepted ranking names every node of the snapshot, and as conflicts all
\* those that are not current.
LEMMA RankedAll ==
  ASSUME NEW s, IsFiniteSet(Ids(s)), NEW k, RankTyped(k), RankingAccepted(s, k)
  PROVE  /\ Range(k.selected) \subseteq Ids(s) /\ Range(k.conflicts) \subseteq Ids(s)
         /\ \A n \in Ids(s) : ~ Eligible(s, n) => n \in Range(k.conflicts)
<1> DEFINE all == k.selected \o k.omitted
           against == {n \in Range(k.omitted) : k.reason[n] = "LifecycleConflict"}
<1>1. /\ k.selected \in Seq(Range(k.selected)) /\ k.omitted \in Seq(Range(k.omitted))
  BY DEF RankTyped, IsSeq
<1>2. /\ k.count = Cardinality(Ids(s)) /\ Len(all) = k.count
      /\ IsInjective(all) /\ Range(all) \subseteq Ids(s)
      /\ \A n \in Range(k.selected) : Eligible(s, n)
      /\ \A n \in Range(k.omitted) :
           k.reason[n] = IF Eligible(s, n) THEN "SelectionLimit" ELSE "LifecycleConflict"
      /\ k.conflicts = Filtered(k.omitted, against)
  BY DEF RankingAccepted
<1> DEFINE S == Range(k.selected) \cup Range(k.omitted)
<1>3. k.selected \in Seq(S) /\ k.omitted \in Seq(S)
  <2> DEFINE A == Range(k.selected)
             B == Range(k.omitted)
  <2>1. \A x : x \in Seq(A) => x \in Seq(A \cup B)
    OBVIOUS
  <2>2. \A x : x \in Seq(B) => x \in Seq(A \cup B)
    OBVIOUS
  <2> QED
    BY <1>1, <2>1, <2>2
<1>4. all \in Seq(S) /\ Range(all) = S
  <2> HIDE DEF S
  <2>1. all \in Seq(S) /\ Range(all) = Range(k.selected) \cup Range(k.omitted)
    BY <1>3, JoinedIs
  <2> QED
    BY <2>1 DEF S
<1> HIDE DEF all, S
<1>5. IsFiniteSet(Range(all)) /\ Cardinality(Range(all)) = Cardinality(Ids(s))
  BY <1>2, <1>4, InjectiveCounts
<1>6. Range(all) = Ids(s)
  BY <1>2, <1>5, FS_Subset
<1>7. Range(k.conflicts) = Range(k.omitted) \cap against
  <2> HIDE DEF against
  <2> QED
    BY <1>1, <1>2, FilteredIs
<1>8. Range(k.selected) \subseteq Ids(s) /\ Range(k.conflicts) \subseteq Ids(s)
  BY <1>4, <1>6, <1>7 DEF S
<1>9. ASSUME NEW n \in Ids(s), ~ Eligible(s, n)
      PROVE  n \in Range(k.conflicts)
  <2>1. n \in Range(k.omitted)
    BY <1>2, <1>4, <1>6, <1>9 DEF S
  <2>2. n \in against
    BY <1>2, <1>9, <2>1
  <2> QED
    BY <1>7, <2>1, <2>2
<1> QED
  BY <1>8, <1>9

\* The places of two sequences one after the other.
LEMMA JoinedAt ==
  ASSUME NEW S, NEW a \in Seq(S), NEW b \in Seq(S)
  PROVE  /\ Len(a) \in Nat /\ Len(b) \in Nat /\ Len(a \o b) = Len(a) + Len(b) /\ a \o b \in Seq(S)
         /\ \A i \in 1 .. Len(a) : (a \o b)[i] = a[i]
         /\ \A i \in 1 .. Len(a) + Len(b) : i \in 1 .. Len(a) \/ (i > Len(a) /\ (a \o b)[i] \in Range(b))
         /\ Range(a \o b) = Range(a) \cup Range(b)
<1>1. /\ Len(a) \in Nat /\ Len(b) \in Nat /\ Len(a \o b) = Len(a) + Len(b)
      /\ \A i \in 1 .. Len(a) : (a \o b)[i] = a[i]
      /\ \A i \in 1 .. Len(b) : (a \o b)[Len(a) + i] = b[i]
      /\ a \o b \in Seq(S) /\ DOMAIN b = 1 .. Len(b)
  OBVIOUS
<1>2. ASSUME NEW i \in 1 .. Len(a) + Len(b), i \notin 1 .. Len(a)
      PROVE  i > Len(a) /\ (a \o b)[i] \in Range(b)
  <2>1. i - Len(a) \in 1 .. Len(b) /\ Len(a) + (i - Len(a)) = i /\ i > Len(a)
    BY <1>1, <1>2
  <2>2. (a \o b)[i] = b[i - Len(a)]
    BY <1>1, <2>1
  <2> QED
    BY <1>1, <2>1, <2>2 DEF Range
<1>3. Range(a \o b) = Range(a) \cup Range(b)
  BY JoinedIs
<1> QED
  BY <1>1, <1>2, <1>3

\* The entries there can be on the agenda.
Tiers == {"Primary", "Dependency", "Conflict", "Ranked", "Reached"}
EntryOf(n, tier) == [node |-> n, tier |-> tier, trail |-> IF tier = "Conflict" THEN <<>> ELSE TrailOf(n)]
Listed == {EntryOf(n, tier) : n \in Ids(snapshot), tier \in Tiers}

\* A trail that is not empty is the path to the node.
LEMMA TrailIs ==
  ASSUME NEW n, NEW tier, EntryOf(n, tier).trail # <<>>
  PROVE  walk # NoValue /\ \E j \in DOMAIN walk.visited :
           n = walk.visited[j] /\ EntryOf(n, tier).trail = walk.steps[j]
<1>1. EntryOf(n, tier).trail = TrailOf(n) /\ TrailOf(n) # <<>>
  BY DEF EntryOf
<1>2. walk # NoValue /\ n \in Range(walk.visited) /\ TrailOf(n) = walk.steps[Position(walk.visited, n)]
  BY <1>1 DEF TrailOf
<1>3. \E j \in DOMAIN walk.visited : walk.visited[j] = n
  BY <1>2 DEF Range
<1>4. Position(walk.visited, n) \in DOMAIN walk.visited /\ walk.visited[Position(walk.visited, n)] = n
  BY <1>3, Zenon DEF Position
<1> QED
  BY <1>1, <1>2, <1>4

\* One loop of assemble_structural.
LEMMA TierIs ==
  ASSUME NEW order \in Seq(Ids(snapshot)), NEW tier \in Tiers
  PROVE  LET t == TierEntries(order, tier) IN
         /\ t \in Seq(Listed) /\ Len(t) = Len(order)
         /\ \A i \in 1 .. Len(order) : t[i] = EntryOf(order[i], tier)
         /\ Range(t) = {EntryOf(n, tier) : n \in Range(order)}
<1> DEFINE t == TierEntries(order, tier)
<1>1. DOMAIN order = 1 .. Len(order) /\ Len(order) \in Nat /\ \A i \in 1 .. Len(order) : order[i] \in Ids(snapshot)
  <2> DEFINE S == Ids(snapshot)
  <2>1. order \in Seq(S)
    OBVIOUS
  <2> HIDE DEF S
  <2>2. DOMAIN order = 1 .. Len(order) /\ Len(order) \in Nat /\ \A i \in 1 .. Len(order) : order[i] \in S
    BY <2>1
  <2> QED
    BY <2>2 DEF S
<1>2. t = [i \in 1 .. Len(order) |-> EntryOf(order[i], tier)]
  BY <1>1 DEF TierEntries, EntryOf
<1>3. \A i \in 1 .. Len(order) : EntryOf(order[i], tier) \in Listed
  BY <1>1 DEF Listed
<1> HIDE DEF t
<1>4. t \in Seq(Listed) /\ Len(t) = Len(order) /\ DOMAIN t = 1 .. Len(order)
      /\ \A i \in 1 .. Len(order) : t[i] = EntryOf(order[i], tier)
  BY <1>1, <1>2, <1>3
<1>5. Range(t) = {EntryOf(n, tier) : n \in Range(order)}
  BY <1>1, <1>4 DEF Range
<1> QED
  BY <1>4, <1>5 DEF t

\* What a packet is made from, once its receipts were accepted.
LEMMA AgendaIs ==
  ASSUME GoodSnapshot(snapshot), RankTyped(ranking), walk = NoValue \/ WalkTyped(walk),
         PacketError(snapshot, request, ranking, walk) = "none"
  PROVE  /\ Agenda \in Seq(Listed) /\ Len(ranking.selected) \in Nat
         /\ \A i \in 1 .. Len(ranking.selected) :
              i \in 1 .. Len(Agenda) /\ Agenda[i] = EntryOf(ranking.selected[i], "Primary")
         /\ \A i \in 1 .. Len(Agenda) : i > Len(ranking.selected) => Agenda[i].tier # "Primary"
         /\ \A n \in Ids(snapshot) : ~ Eligible(snapshot, n) =>
              \E i \in 1 .. Len(Agenda) : Agenda[i] = EntryOf(n, "Conflict")
<1> DEFINE visited == IF walk = NoValue THEN <<>> ELSE walk.visited
           S == Ids(snapshot)
           a == TierEntries(ranking.selected, "Primary")
           b == TierEntries(visited, "Dependency")
           c == TierEntries(ranking.conflicts, "Conflict")
           d == TierEntries(ranking.selected, "Ranked")
           e == TierEntries(visited, "Reached")
<1>1. RankingAccepted(snapshot, ranking) /\ (walk # NoValue => TraversalAccepted(snapshot, walk))
  BY AcceptedIs
<1>2. /\ Range(ranking.selected) \subseteq S /\ Range(ranking.conflicts) \subseteq S
      /\ \A n \in S : ~ Eligible(snapshot, n) => n \in Range(ranking.conflicts)
  <2>1. IsFiniteSet(S)
    BY SnapshotIs
  <2> QED
    BY <1>1, <2>1, RankedAll
<1>3. \A A, seq : seq \in Seq(A) /\ A \subseteq S => seq \in Seq(S)
  <2> HIDE DEF S
  <2> QED
    OBVIOUS
<1>4. ranking.selected \in Seq(S) /\ ranking.conflicts \in Seq(S) /\ Len(ranking.selected) \in Nat
  <2>1. ranking.selected \in Seq(Range(ranking.selected)) /\ ranking.conflicts \in Seq(Range(ranking.conflicts))
    BY DEF RankTyped, IsSeq
  <2> HIDE DEF S
  <2>2. ranking.selected \in Seq(S) /\ ranking.conflicts \in Seq(S)
    BY <1>2, <1>3, <2>1
  <2> QED
    BY <2>2
<1>5. visited \in Seq(S)
  <2>1. CASE walk = NoValue
    BY <2>1
  <2>2. CASE walk # NoValue
    <3>1. walk.visited \in Seq(Range(walk.visited))
      BY <2>2 DEF WalkTyped, IsSeq
    <3>2. Range(walk.visited) \subseteq S
      BY <1>1, <2>2 DEF TraversalAccepted, PathAccepted, Range
    <3> QED
      BY <1>3, <2>2, <3>1, <3>2
  <2> QED
    BY <2>1, <2>2
<1> HIDE DEF visited, S
<1>6. /\ a \in Seq(Listed) /\ Len(a) = Len(ranking.selected)
      /\ \A i \in 1 .. Len(ranking.selected) : a[i] = EntryOf(ranking.selected[i], "Primary")
  <2>1. "Primary" \in Tiers
    BY DEF Tiers
  <2> QED
    BY <1>4, <2>1, TierIs DEF S
<1>7. b \in Seq(Listed) /\ Range(b) = {EntryOf(n, "Dependency") : n \in Range(visited)}
  <2>1. "Dependency" \in Tiers
    BY DEF Tiers
  <2> QED
    BY <1>5, <2>1, TierIs DEF S
<1>8. c \in Seq(Listed) /\ Range(c) = {EntryOf(n, "Conflict") : n \in Range(ranking.conflicts)}
  <2>1. "Conflict" \in Tiers
    BY DEF Tiers
  <2> QED
    BY <1>4, <2>1, TierIs DEF S
<1>9. d \in Seq(Listed) /\ Range(d) = {EntryOf(n, "Ranked") : n \in Range(ranking.selected)}
  <2>1. "Ranked" \in Tiers
    BY DEF Tiers
  <2> QED
    BY <1>4, <2>1, TierIs DEF S
<1>10. e \in Seq(Listed) /\ Range(e) = {EntryOf(n, "Reached") : n \in Range(visited)}
  <2>1. "Reached" \in Tiers
    BY DEF Tiers
  <2> QED
    BY <1>5, <2>1, TierIs DEF S
<1>11. Agenda = (((a \o b) \o c) \o d) \o e
  BY DEF Agenda, visited
<1> HIDE DEF a, b, c, d, e
<1> DEFINE Others == {x \in Listed : x.tier # "Primary"}
<1>12. Range(b) \subseteq Others /\ Range(c) \subseteq Others /\ Range(d) \subseteq Others /\ Range(e) \subseteq Others
  <2>1. \A n, tier : EntryOf(n, tier).tier = tier
    BY DEF EntryOf
  <2>2. Range(b) \subseteq Listed /\ Range(c) \subseteq Listed /\ Range(d) \subseteq Listed /\ Range(e) \subseteq Listed
    BY <1>7, <1>8, <1>9, <1>10, OwnEntries
  <2> QED
    BY <1>7, <1>8, <1>9, <1>10, <2>1, <2>2
<1> HIDE DEF Others
<1> DEFINE N == Len(a)
           Good(t) == /\ t \in Seq(Listed) /\ Len(t) \in Nat /\ N \in Nat /\ N <= Len(t)
                      /\ \A i \in 1 .. N : t[i] = a[i]
                      /\ \A i \in 1 .. Len(t) : i > N => t[i] \in Others
<1>13. ASSUME NEW t, Good(t), NEW u \in Seq(Listed), Range(u) \subseteq Others
       PROVE  Good(t \o u) /\ Range(t \o u) = Range(t) \cup Range(u)
  <2>1. /\ Len(t) \in Nat /\ Len(u) \in Nat /\ Len(t \o u) = Len(t) + Len(u) /\ t \o u \in Seq(Listed)
        /\ \A i \in 1 .. Len(t) : (t \o u)[i] = t[i]
        /\ \A i \in 1 .. Len(t) + Len(u) : i \in 1 .. Len(t) \/ (i > Len(t) /\ (t \o u)[i] \in Range(u))
        /\ Range(t \o u) = Range(t) \cup Range(u)
    BY <1>13, JoinedAt
  <2> HIDE DEF N
  <2>2. \A i \in 1 .. N : (t \o u)[i] = a[i]
    <3>1. \A i \in 1 .. N : i \in 1 .. Len(t)
      BY <1>13
    <3> QED
      BY <1>13, <2>1, <3>1
  <2>3. \A i \in 1 .. Len(t \o u) : i > N => (t \o u)[i] \in Others
    BY <1>13, <2>1
  <2>4. N <= Len(t \o u) /\ Len(t \o u) \in Nat /\ N \in Nat
    BY <1>13, <2>1
  <2> QED
    BY <2>1, <2>2, <2>3, <2>4
<1>14. Good(a)
  <2>1. N \in Nat
    BY <1>6
  <2>2. \A i \in 1 .. N : ~ i > N
    BY <2>1
  <2> QED
    BY <1>6, <2>1, <2>2
<1> HIDE DEF Good
<1>15. Good(a \o b)
  BY <1>7, <1>12, <1>13, <1>14
<1>16. Good((a \o b) \o c) /\ Range(c) \subseteq Range((a \o b) \o c)
  BY <1>8, <1>12, <1>13, <1>15
<1>17. Good(((a \o b) \o c) \o d) /\ Range(c) \subseteq Range(((a \o b) \o c) \o d)
  BY <1>9, <1>12, <1>13, <1>16
<1>18. Good(Agenda) /\ Range(c) \subseteq Range(Agenda)
  BY <1>10, <1>11, <1>12, <1>13, <1>17
<1>19. Agenda \in Seq(Listed) /\ DOMAIN Agenda = 1 .. Len(Agenda)
  <2>1. Agenda \in Seq(Listed)
    BY <1>18 DEF Good
  <2> QED
    BY <2>1
<1>20. \A i \in 1 .. Len(ranking.selected) :
         i \in 1 .. Len(Agenda) /\ Agenda[i] = EntryOf(ranking.selected[i], "Primary")
  <2>1. N = Len(ranking.selected) /\ N \in Nat /\ Len(Agenda) \in Nat /\ N <= Len(Agenda)
        /\ \A i \in 1 .. N : Agenda[i] = a[i]
    BY <1>6, <1>18 DEF Good
  <2>2. \A i \in 1 .. N : i \in 1 .. Len(Agenda)
    BY <2>1
  <2> QED
    BY <1>6, <2>1, <2>2
<1>21. \A i \in 1 .. Len(Agenda) : i > Len(ranking.selected) => Agenda[i].tier # "Primary"
  BY <1>6, <1>18 DEF Good, Others
<1>22. ASSUME NEW n \in Ids(snapshot), ~ Eligible(snapshot, n)
       PROVE  \E i \in 1 .. Len(Agenda) : Agenda[i] = EntryOf(n, "Conflict")
  <2>1. EntryOf(n, "Conflict") \in Range(c)
    BY <1>2, <1>8, <1>22 DEF S
  <2>2. EntryOf(n, "Conflict") \in Range(Agenda)
    BY <1>18, <2>1
  <2> QED
    BY <1>19, <2>2 DEF Range
<1> QED
  BY <1>4, <1>19, <1>20, <1>21, <1>22

\* The entry that is looked at next.
LEMMA NextEntryIs ==
  ASSUME NEW L, NEW agenda \in Seq(L), NEW ahead, IsSeq(ahead), ahead # <<>>, Len(ahead) <= Len(agenda),
         \A i \in 1 .. Len(ahead) : ahead[i] = agenda[Len(agenda) - Len(ahead) + i]
  PROVE  LET k == Len(agenda) - Len(ahead) + 1 IN
         /\ k \in 1 .. Len(agenda) /\ Head(ahead) = agenda[k] /\ Head(ahead) \in L
         /\ IsSeq(Tail(ahead)) /\ Len(Tail(ahead)) <= Len(agenda)
         /\ \A i \in 1 .. Len(Tail(ahead)) : Tail(ahead)[i] = agenda[Len(agenda) - Len(Tail(ahead)) + i]
         /\ Len(agenda) - Len(Tail(ahead)) = k
         /\ \A i \in 1 .. k : i = k \/ i \in 1 .. Len(agenda) - Len(ahead)
<1> DEFINE R == Range(ahead)
           rest == Tail(ahead)
           A == Len(agenda)
           k == A - Len(ahead) + 1
<1>1. ahead \in Seq(R)
  BY DEF IsSeq
<1> HIDE DEF R
<1>2. /\ Len(ahead) \in Nat /\ Len(ahead) >= 1 /\ A \in Nat /\ Len(ahead) <= A /\ Head(ahead) = ahead[1]
      /\ rest \in Seq(R) /\ Len(rest) = Len(ahead) - 1
      /\ \A i \in 1 .. Len(ahead) - 1 : rest[i] = ahead[i + 1]
  BY <1>1
<1>3. IsSeq(rest)
  BY <1>2, OwnEntries DEF IsSeq
<1> HIDE DEF rest
<1>4. k \in 1 .. A /\ A - Len(rest) = k /\ Len(rest) <= A /\ 1 \in 1 .. Len(ahead)
  BY <1>2
<1>5. Head(ahead) = agenda[k]
  <2>1. ahead[1] = agenda[A - Len(ahead) + 1]
    BY <1>4
  <2> QED
    BY <1>2, <2>1
<1>6. agenda[k] \in L
  <2>1. \A i \in 1 .. A : agenda[i] \in L
    OBVIOUS
  <2> QED
    BY <1>4, <2>1
<1>7. ASSUME NEW i \in 1 .. Len(rest)
      PROVE  rest[i] = agenda[A - Len(rest) + i]
  <2>1. i + 1 \in 1 .. Len(ahead) /\ i \in 1 .. Len(ahead) - 1 /\ A - Len(ahead) + (i + 1) = A - Len(rest) + i
    BY <1>2
  <2>2. rest[i] = ahead[i + 1] /\ ahead[i + 1] = agenda[A - Len(ahead) + (i + 1)]
    BY <1>2, <2>1
  <2> QED
    BY <2>1, <2>2
<1>8. \A i \in 1 .. k : i = k \/ i \in 1 .. A - Len(ahead)
  <2> DEFINE m == A - Len(ahead)
  <2>1. m \in Int /\ k = m + 1
    BY <1>2
  <2> HIDE DEF m, k
  <2>2. \A i \in 1 .. k : i = k \/ i \in 1 .. m
    BY <2>1
  <2> QED
    BY <2>2 DEF m
<1> QED
  BY <1>3, <1>4, <1>5, <1>6, <1>7, <1>8 DEF rest

\* What was handled stays handled.
LEMMA HandledStays ==
  ASSUME NEW s, NEW p, NEW d, IsSeq(p), IsSeq(d), NEW entry, Handled(s, p, d, entry), NEW x
  PROVE  Handled(s, Append(p, x), d, entry) /\ Handled(s, p, Append(d, x), entry)
<1>1. p \in Seq(Range(p)) /\ d \in Seq(Range(d))
  BY DEF IsSeq
<1>2. /\ DOMAIN p = 1 .. Len(p) /\ DOMAIN Append(p, x) = 1 .. Len(p) + 1 /\ Len(p) \in Nat
      /\ \A i \in 1 .. Len(p) : Append(p, x)[i] = p[i]
  BY <1>1, AppendIs, OwnEntries
<1>3. /\ DOMAIN d = 1 .. Len(d) /\ DOMAIN Append(d, x) = 1 .. Len(d) + 1 /\ Len(d) \in Nat
      /\ \A i \in 1 .. Len(d) : Append(d, x)[i] = d[i]
  BY <1>1, AppendIs, OwnEntries
<1>4. /\ \A i \in DOMAIN p : i \in DOMAIN Append(p, x) /\ Append(p, x)[i] = p[i]
      /\ \A i \in DOMAIN d : i \in DOMAIN Append(d, x) /\ Append(d, x)[i] = d[i]
  BY <1>2, <1>3
<1> QED
  BY <1>4 DEF Handled

\* An entry that is done with.
LEMMA PassedOver ==
  ASSUME NEW L, NEW s, NEW w, NEW agenda \in Seq(L), NEW primary \in Nat, NEW p, NEW d, NEW domains, NEW ahead,
         Packed(s, w, agenda, primary, p, d, domains, ahead), ahead # <<>>,
         Handled(s, p, d, Head(ahead))
  PROVE  Packed(s, w, agenda, primary, p, d, domains, Tail(ahead))
<1> DEFINE k == Len(agenda) - Len(ahead) + 1
<1>1. /\ IsSeq(p) /\ IsSeq(d) /\ IsSeq(ahead) /\ Len(ahead) <= Len(agenda)
      /\ \A i \in 1 .. Len(ahead) : ahead[i] = agenda[Len(agenda) - Len(ahead) + i]
      /\ \A i \in 1 .. Len(agenda) - Len(ahead) : Handled(s, p, d, agenda[i])
      /\ Len(agenda) - Len(ahead) < primary =>
           d = <<>> /\ \A i \in 1 .. Len(p) : p[i].tier = "Primary"
      /\ \A i, j \in 1 .. Len(p) : p[i].node = p[j].node => i = j
      /\ \A i \in 1 .. Len(p) : ItemGood(s, w, p[i])
      /\ \A x \in domains : \E i \in 1 .. Len(p) : x \in s.attr[p[i].node].domains /\ ~ p[i].non_authoritative
  BY DEF Packed
<1>2. /\ k \in 1 .. Len(agenda) /\ Head(ahead) = agenda[k]
      /\ IsSeq(Tail(ahead)) /\ Len(Tail(ahead)) <= Len(agenda)
      /\ \A i \in 1 .. Len(Tail(ahead)) : Tail(ahead)[i] = agenda[Len(agenda) - Len(Tail(ahead)) + i]
      /\ Len(agenda) - Len(Tail(ahead)) = k
      /\ \A i \in 1 .. k : i = k \/ i \in 1 .. Len(agenda) - Len(ahead)
  <2>1. /\ IsSeq(ahead) /\ Len(ahead) <= Len(agenda)
        /\ \A i \in 1 .. Len(ahead) : ahead[i] = agenda[Len(agenda) - Len(ahead) + i]
    BY <1>1
  <2> QED
    BY <2>1, NextEntryIs, SMTT(60)
<1>3. k < primary => Len(agenda) - Len(ahead) < primary
  <2>1. Len(agenda) - Len(ahead) \in Int
    <3>1. ahead \in Seq(Range(ahead))
      BY <1>1 DEF IsSeq
    <3>2. Len(ahead) \in Nat /\ Len(agenda) \in Nat
      BY <3>1
    <3> QED
      BY <3>2
  <2> QED
    BY <2>1
<1> HIDE DEF k
<1>4. \A i \in 1 .. Len(agenda) - Len(Tail(ahead)) : Handled(s, p, d, agenda[i])
  BY <1>1, <1>2
<1>5. Len(agenda) - Len(Tail(ahead)) < primary =>
        d = <<>> /\ \A i \in 1 .. Len(p) : p[i].tier = "Primary"
  BY <1>1, <1>2, <1>3
<1> QED
  BY <1>1, <1>2, <1>4, <1>5 DEF Packed

\* An entry that becomes an item.
LEMMA EntryAdmitted ==
  ASSUME NEW L, NEW s, NEW w, NEW agenda \in Seq(L), NEW primary \in Nat, NEW p, NEW d, NEW domains, NEW ahead,
         Packed(s, w, agenda, primary, p, d, domains, ahead), ahead # <<>>,
         NEW x, x.node = Head(ahead).node, x.tier = Head(ahead).tier, ItemGood(s, w, x),
         \A i \in 1 .. Len(p) : p[i].node # x.node,
         Len(agenda) - Len(ahead) < primary => x.tier = "Primary",
         NEW wider, \A y \in wider : y \in domains \/ (y \in s.attr[x.node].domains /\ ~ x.non_authoritative)
  PROVE  Packed(s, w, agenda, primary, Append(p, x), d, wider, Tail(ahead))
<1> DEFINE more == Append(p, x)
           N == Len(p)
<1>1. /\ IsSeq(p) /\ IsSeq(d) /\ IsSeq(ahead) /\ Len(ahead) <= Len(agenda)
      /\ \A i \in 1 .. Len(ahead) : ahead[i] = agenda[Len(agenda) - Len(ahead) + i]
      /\ \A i \in 1 .. Len(agenda) - Len(ahead) : Handled(s, p, d, agenda[i])
      /\ Len(agenda) - Len(ahead) < primary =>
           d = <<>> /\ \A i \in 1 .. N : p[i].tier = "Primary"
      /\ \A i, j \in 1 .. N : p[i].node = p[j].node => i = j
      /\ \A i \in 1 .. N : ItemGood(s, w, p[i])
      /\ \A y \in domains : \E i \in 1 .. N : y \in s.attr[p[i].node].domains /\ ~ p[i].non_authoritative
  BY DEF Packed
<1>2. /\ more \in Seq(Range(p) \cup {x}) /\ Len(more) = N + 1 /\ more[N + 1] = x
      /\ DOMAIN more = 1 .. N + 1 /\ N \in Nat /\ \A i \in 1 .. N : more[i] = p[i]
  <2>1. p \in Seq(Range(p))
    BY <1>1 DEF IsSeq
  <2> QED
    BY <2>1, AppendIs, OwnEntries
<1>3. IsSeq(more)
  BY <1>2, OwnEntries DEF IsSeq
<1> HIDE DEF more, N
<1>4. /\ \A i \in 1 .. N + 1 : i \in 1 .. N \/ i = N + 1
      /\ \A i \in 1 .. N : i \in 1 .. N + 1
      /\ N + 1 \in 1 .. N + 1
  BY <1>2
<1>5. /\ \A i, j \in 1 .. N + 1 : more[i].node = more[j].node => i = j
      /\ \A i \in 1 .. N + 1 : ItemGood(s, w, more[i])
      /\ \A y \in wider : \E i \in 1 .. N + 1 : y \in s.attr[more[i].node].domains /\ ~ more[i].non_authoritative
  <2>1. \A i, j \in 1 .. N + 1 : more[i].node = more[j].node => i = j
    BY <1>1, <1>2, <1>4, Zenon DEF N
  <2>2. \A i \in 1 .. N + 1 : ItemGood(s, w, more[i])
    BY <1>1, <1>2, <1>4, Zenon
  <2>3. ASSUME NEW y \in wider
        PROVE  \E i \in 1 .. N + 1 : y \in s.attr[more[i].node].domains /\ ~ more[i].non_authoritative
    <3>1. CASE y \in domains
      <4>1. PICK i \in 1 .. N : y \in s.attr[p[i].node].domains /\ ~ p[i].non_authoritative
        BY <1>1, <3>1
      <4> QED
        BY <1>2, <1>4, <4>1
    <3>2. CASE y \in s.attr[x.node].domains /\ ~ x.non_authoritative
      BY <1>2, <1>4, <3>2
    <3> QED
      BY <2>3, <3>1, <3>2
  <2> QED
    BY <2>1, <2>2, <2>3
<1>6. Handled(s, more, d, Head(ahead))
  <2>1. N + 1 \in DOMAIN more /\ more[N + 1].node = Head(ahead).node /\ more[N + 1].tier = Head(ahead).tier
    BY <1>2, <1>4
  <2> QED
    BY <2>1 DEF Handled
<1>7. \A i \in 1 .. Len(agenda) - Len(ahead) : Handled(s, more, d, agenda[i])
  BY <1>1, HandledStays DEF more
<1>8. Packed(s, w, agenda, primary, more, d, wider, ahead)
  <2>1. Len(agenda) - Len(ahead) < primary =>
          d = <<>> /\ \A i \in 1 .. N + 1 : more[i].tier = "Primary"
    BY <1>1, <1>2, <1>4
  <2> QED
    BY <1>1, <1>2, <1>3, <1>5, <1>7, <2>1 DEF Packed
<1>9. Packed(s, w, agenda, primary, more, d, wider, Tail(ahead))
  BY <1>6, <1>8, PassedOver
<1> QED
  BY <1>9 DEF more

\* An entry that is recorded as left out.
LEMMA EntryOmitted ==
  ASSUME NEW L, NEW s, NEW w, NEW agenda \in Seq(L), NEW primary \in Nat, NEW p, NEW d, NEW domains, NEW ahead,
         Packed(s, w, agenda, primary, p, d, domains, ahead), ahead # <<>>,
         NEW x, x.node = Head(ahead).node, Head(ahead).tier # "Primary",
         ~ Len(agenda) - Len(ahead) < primary
  PROVE  Packed(s, w, agenda, primary, p, Append(d, x), domains, Tail(ahead))
<1> DEFINE more == Append(d, x)
           N == Len(d)
<1>1. /\ IsSeq(p) /\ IsSeq(d) /\ IsSeq(ahead) /\ Len(ahead) <= Len(agenda)
      /\ \A i \in 1 .. Len(ahead) : ahead[i] = agenda[Len(agenda) - Len(ahead) + i]
      /\ \A i \in 1 .. Len(agenda) - Len(ahead) : Handled(s, p, d, agenda[i])
      /\ \A i, j \in 1 .. Len(p) : p[i].node = p[j].node => i = j
      /\ \A i \in 1 .. Len(p) : ItemGood(s, w, p[i])
      /\ \A y \in domains : \E i \in 1 .. Len(p) : y \in s.attr[p[i].node].domains /\ ~ p[i].non_authoritative
  BY DEF Packed
<1>2. /\ more \in Seq(Range(d) \cup {x}) /\ more[N + 1] = x /\ DOMAIN more = 1 .. N + 1 /\ N \in Nat
  <2>1. d \in Seq(Range(d))
    BY <1>1 DEF IsSeq
  <2> QED
    BY <2>1, AppendIs, OwnEntries
<1>3. IsSeq(more)
  BY <1>2, OwnEntries DEF IsSeq
<1> HIDE DEF more, N
<1>4. Handled(s, p, more, Head(ahead))
  <2>1. N + 1 \in DOMAIN more /\ more[N + 1].node = Head(ahead).node
    BY <1>2
  <2> QED
    BY <2>1 DEF Handled
<1>5. \A i \in 1 .. Len(agenda) - Len(ahead) : Handled(s, p, more, agenda[i])
  BY <1>1, HandledStays DEF more
<1>6. Packed(s, w, agenda, primary, p, more, domains, ahead)
  BY <1>1, <1>3, <1>5 DEF Packed
<1>7. Packed(s, w, agenda, primary, p, more, domains, Tail(ahead))
  BY <1>4, <1>6, PassedOver
<1> QED
  BY <1>7 DEF more

(***************************************************************************)
(* The structural packet: every step keeps the invariant                   *)
(***************************************************************************)
Verdicts == {"sufficient", "insufficient", "InvalidRankingReceipt", "InvalidTraversalReceipt"}

\* How a request can be refused.
LEMMA RefusalsAre ==
  /\ \A c : BuildFailure(c) \notin Verdicts
  /\ \A s, r : RankingError(s, r) \notin Verdicts
  /\ \A s, w : TraversalError(s, w) \notin Verdicts
  /\ \A s, r, k, w : /\ PacketError(s, r, k, w) \notin {"sufficient", "insufficient"}
                     /\ PacketError(s, r, k, w) = "InvalidRankingReceipt" => ~ RankingAccepted(s, k)
                     /\ PacketError(s, r, k, w) = "InvalidTraversalReceipt" =>
                          w # NoValue /\ ~ TraversalAccepted(s, w) /\ w.of = s
<1>1. \A c : BuildFailure(c) \notin Verdicts
  BY DEF BuildFailure, Verdicts
<1>2. \A s, r : RankingError(s, r) \notin Verdicts
  BY DEF RankingError, Verdicts
<1>3. \A s, w : TraversalError(s, w) \notin Verdicts
  BY DEF TraversalError, Verdicts
<1>4. \A s, r, rel : ExcerptError(s, r, rel) \notin Verdicts
  <2> TAKE s, r, rel
  <2> DEFINE x == r.excerpts
             Why(i) ==
               IF x[i].node \notin rel THEN "UnrelatedExcerpt"
               ELSE IF \E j \in 1 .. i - 1 : x[j].node = x[i].node THEN "DuplicateExcerpt"
               ELSE IF x[i].of # s.attr[x[i].node].path THEN "ExcerptDigestMismatch"
               ELSE IF ~x[i].relative \/ x[i].locator > r.packet.bytes THEN "InvalidExcerptLocator"
               ELSE IF x[i].content > r.packet.excerpt THEN "ExcerptTooLarge"
               ELSE IF x[i].complete THEN "CompleteFileRejected" ELSE "none"
             bad == {i \in DOMAIN x : Why(i) # "none"}
             first == CHOOSE i \in bad : \A j \in bad : i <= j
  <2>1. ExcerptError(s, r, rel) = IF bad = {} THEN "none" ELSE Why(first)
    BY DEF ExcerptError
  <2>2. \A i : Why(i) \notin Verdicts
    BY DEF Verdicts
  <2> HIDE DEF Why, bad, first
  <2> QED
    BY <2>1, <2>2 DEF Verdicts
<1>5. \A s, r, k, w : /\ PacketError(s, r, k, w) \notin {"sufficient", "insufficient"}
                      /\ PacketError(s, r, k, w) = "InvalidRankingReceipt" => ~ RankingAccepted(s, k)
                      /\ PacketError(s, r, k, w) = "InvalidTraversalReceipt" =>
                           w # NoValue /\ ~ TraversalAccepted(s, w) /\ w.of = s
  BY <1>4 DEF PacketError, OtherSnapshot, Verdicts
<1> QED
  BY <1>1, <1>2, <1>3, <1>5

\* Nothing that the packet depends on has changed.
LEMMA TierStays ==
  ASSUME TierInv, UNCHANGED structuralVars
  PROVE  TierInv'
<1>1. /\ state' = state /\ request' = request /\ snapshot' = snapshot /\ ranking' = ranking
      /\ walk' = walk /\ result' = result /\ admitted' = admitted /\ omissions' = omissions
      /\ covered' = covered /\ due' = due
  BY DEF structuralVars, graphVars, walkVars, assemblyVars
<1>2. Agenda' = Agenda
  BY <1>1 DEF Agenda, TierEntries, TrailOf
<1> QED
  BY <1>1, <1>2 DEF TierInv, Received, Finished, MissingDomains

\* Before there is a packet.
LEMMA NoTierYet ==
  ASSUME state' \notin {"tiers"}, result' \notin {"sufficient", "insufficient"}
  PROVE  TierInv'
BY DEF TierInv, Finished

\* A request begins.
LEMMA StructuralStart ==
  StructuralInit => StructuralInv
<1> SUFFICES ASSUME StructuralInit PROVE StructuralInv
  OBVIOUS
<1> USE DEF StructuralInit
<1>1. SnapshotInv /\ IdleInv
  BY DEF SnapshotInv, IdleInv
<1>2. RankInv /\ WalkInv
  BY DEF RankInv, WalkInv, WalkIsHonest
<1>3. TierInv
  BY DEF TierInv, Finished
<1> QED
  BY <1>1, <1>2, <1>3 DEF StructuralInv

\* GraphBuilder::build.
LEMMA BuildSnapshotKeeps ==
  ASSUME StructuralInv, BuildSnapshot, UNCHANGED assemblyVars
  PROVE  StructuralInv'
<1>1. /\ state = "build" /\ request' = request /\ ranking' = ranking /\ walk' = walk /\ leaving' = leaving
      /\ todo' = todo /\ edited' = edited /\ admitted' = admitted /\ omissions' = omissions /\ covered' = covered
  BY DEF BuildSnapshot, walkVars, assemblyVars
<1>2. PICK c \in SnapshotCandidates :
        \/ BuildFailure(c) # "none" /\ state' = "done" /\ result' = BuildFailure(c) /\ snapshot' = snapshot
        \/ BuildFailure(c) = "none" /\ snapshot' = c /\ state' = "rank" /\ result' = result
  BY DEF BuildSnapshot, Done
<1>3. /\ request \in Requests /\ result = "pending" /\ ~ edited
      /\ admitted = <<>> /\ omissions = <<>> /\ covered.domains = {}
      /\ walk = NoValue /\ leaving = <<>> /\ todo = <<>>
  BY <1>1 DEF StructuralInv, SnapshotInv, IdleInv, WalkInv
<1>4. result' \notin Verdicts
  BY <1>2, <1>3, RefusalsAre DEF Verdicts
<1>5. SnapshotInv'
  BY <1>1, <1>2, <1>3 DEF SnapshotInv, GoodSnapshot
<1>6. IdleInv' /\ WalkInv'
  BY <1>1, <1>2, <1>3 DEF IdleInv, WalkInv, WalkIsHonest
<1>7. RankInv'
  BY <1>2, <1>4 DEF RankInv, Verdicts
<1>8. TierInv'
  BY <1>2, <1>4, NoTierYet DEF Verdicts
<1> QED
  BY <1>5, <1>6, <1>7, <1>8 DEF StructuralInv

\* StageRanker::rank.
LEMMA RankKeeps ==
  ASSUME StructuralInv, Rank, UNCHANGED assemblyVars
  PROVE  StructuralInv'
<1>1. /\ state = "rank" /\ request' = request /\ snapshot' = snapshot /\ walk' = walk /\ leaving' = leaving
      /\ todo' = todo /\ edited' = edited /\ admitted' = admitted /\ omissions' = omissions /\ covered' = covered
  BY DEF Rank, walkVars, assemblyVars
<1>2. \/ state' = "done" /\ result' = RankingError(snapshot, request) /\ ranking' = ranking
      \/ /\ RankingError(snapshot, request) = "none" /\ state' = "start" /\ result' = result
         /\ \E order \in RankOrders(snapshot, request) : ranking' = RankReceipt(snapshot, request, order)
  BY DEF Rank, Done
<1>3. /\ request \in Requests /\ result = "pending" /\ ~ edited /\ GoodSnapshot(snapshot)
      /\ admitted = <<>> /\ omissions = <<>> /\ covered.domains = {}
      /\ walk = NoValue /\ leaving = <<>> /\ todo = <<>>
  BY <1>1 DEF StructuralInv, SnapshotInv, IdleInv, WalkInv
<1>4. result' \notin Verdicts
  BY <1>2, <1>3, RefusalsAre DEF Verdicts
<1>5. SnapshotInv'
  BY <1>1, <1>2, <1>3 DEF SnapshotInv
<1>6. IdleInv' /\ WalkInv'
  BY <1>1, <1>2, <1>3 DEF IdleInv, WalkInv, WalkIsHonest
<1>7. RankInv'
  <2>1. CASE state' = "done"
    BY <1>4, <2>1 DEF RankInv, Verdicts
  <2>2. CASE state' = "start"
    <3>1. RankingError(snapshot, request) = "none"
      BY <1>2, <2>2
    <3>2. request.selection \in Nat
      <4>1. request.selection \in 1 .. MaxSelection
        BY <3>1 DEF RankingError
      <4> QED
        BY <4>1, StructuralAssumption
    <3>3. PICK order \in RankOrders(snapshot, request) : ranking' = RankReceipt(snapshot, request, order)
      BY <1>2, <2>2
    <3>4. RankTyped(ranking') /\ ranking'.of = snapshot /\ RankingAccepted(snapshot, ranking')
      BY <1>3, <3>2, <3>3, OwnRankingAccepted
    <3> QED
      BY <1>3, <1>4, <2>2, <3>4 DEF RankInv, Verdicts
  <2> QED
    BY <1>2, <2>1, <2>2
<1>8. TierInv'
  BY <1>2, <1>4, NoTierYet DEF Verdicts
<1> QED
  BY <1>5, <1>6, <1>7, <1>8 DEF StructuralInv

\* Traversal::run begins.
LEMMA StartWalkKeeps ==
  ASSUME StructuralInv, StartWalk, UNCHANGED assemblyVars
  PROVE  StructuralInv'
<1>1. /\ state = "start" /\ request' = request /\ snapshot' = snapshot /\ ranking' = ranking /\ todo' = todo
      /\ request.walk # NoValue
      /\ edited' = edited /\ admitted' = admitted /\ omissions' = omissions /\ covered' = covered
  BY DEF StartWalk, assemblyVars
<1>2. \/ state' = "done" /\ result' = TraversalError(snapshot, request.walk) /\ walk' = walk /\ leaving' = leaving
      \/ /\ TraversalError(snapshot, request.walk) = "none" /\ state' = "walk" /\ result' = result
         /\ walk' = NewWalk(snapshot, request.walk)
         /\ leaving' = <<[node |-> request.walk.seed.value, steps |-> <<>>]>>
  BY DEF StartWalk, Done
<1>3. /\ request \in Requests /\ result = "pending" /\ GoodSnapshot(snapshot)
      /\ admitted = <<>> /\ omissions = <<>> /\ covered.domains = {}
      /\ walk = NoValue /\ leaving = <<>> /\ todo = <<>> /\ ~ edited
  BY <1>1 DEF StructuralInv, SnapshotInv, IdleInv, WalkInv
<1>4. result' \notin Verdicts
  BY <1>2, <1>3, RefusalsAre DEF Verdicts
<1>5. SnapshotInv' /\ IdleInv'
  BY <1>1, <1>2, <1>3 DEF SnapshotInv, IdleInv
<1>6. WalkInv'
  <2>1. CASE state' = "done"
    BY <1>1, <1>2, <1>3, <2>1 DEF WalkInv, WalkIsHonest
  <2>2. CASE state' = "walk"
    <3> DEFINE b == request.walk
    <3>1. /\ LimitsValid(b) /\ b.seed.value \in Ids(snapshot)
          /\ b.relationships # <<>> /\ IsInjective(b.relationships)
          /\ Range(b.relationships) \subseteq TraversableKinds
      BY <1>1, <1>2, <1>3, <2>2, WalkAllowed
    <3>2. WalkSound(walk') /\ walk'.terminal = "Running" /\ WalkSearch(walk', leaving')
      <4> HIDE DEF b
      <4> QED
        BY <1>2, <1>3, <2>2, <3>1, NewWalkIs DEF b
    <3>3. todo' = <<>>
      BY <1>1, <1>3
    <3>4. Walking(walk', leaving', todo')
      BY <3>2, <3>3 DEF Walking, WalkTodo
    <3>5. WalkTyped(walk')
      BY <3>2 DEF WalkSound
    <3> QED
      BY <1>1, <1>3, <2>2, <3>2, <3>3, <3>4, <3>5 DEF WalkInv, WalkIsHonest
  <2> QED
    BY <1>2, <2>1, <2>2
<1>7. RankInv'
  BY <1>1, <1>2, <1>4 DEF StructuralInv, RankInv, Verdicts
<1>8. TierInv'
  BY <1>2, <1>4, NoTierYet DEF Verdicts
<1> QED
  BY <1>5, <1>6, <1>7, <1>8 DEF StructuralInv

\* A walk that is in order says the truth when it has ended.
LEMMA WalkingIsHonest ==
  ASSUME Walking(walk, leaving, todo)
  PROVE  WalkIsHonest
<1>1. walk.terminal # "Running" => Honest(walk)
  BY DEF Walking
<1> QED
  BY <1>1 DEF WalkIsHonest, Honest

\* Traversal::run.
LEMMA WalkStepKeeps ==
  ASSUME StructuralInv, LeaveNode \/ InspectEdge \/ WalkComplete, UNCHANGED assemblyVars
  PROVE  StructuralInv'
<1>1. /\ state = "walk" /\ state' = state /\ request' = request /\ snapshot' = snapshot /\ ranking' = ranking
      /\ result' = result /\ edited' = edited /\ admitted' = admitted /\ omissions' = omissions
      /\ covered' = covered
  BY DEF LeaveNode, InspectEdge, WalkComplete, assemblyVars
<1>2. /\ request \in Requests /\ result = "pending" /\ GoodSnapshot(snapshot)
      /\ admitted = <<>> /\ omissions = <<>> /\ covered.domains = {}
      /\ walk.terminal # "Running" => todo = <<>>
      /\ edited => walk.terminal # "Running"
      /\ ~ edited => Walking(walk, leaving, todo)
  BY <1>1 DEF StructuralInv, SnapshotInv, IdleInv, WalkInv
<1>3. walk.terminal = "Running"
  BY <1>2 DEF LeaveNode, InspectEdge, WalkComplete
<1>4. ~ edited /\ Walking(walk, leaving, todo)
  BY <1>2, <1>3
<1>5. Walking(walk', leaving', todo') /\ (walk'.terminal # "Running" => todo' = <<>>)
  BY <1>3, <1>4, LeaveNodeWalks, InspectEdgeWalks, WalkCompleteWalks
<1>6. WalkTyped(walk')
  BY <1>5 DEF Walking, WalkSound
<1>7. WalkIsHonest'
  <2>1. walk'.terminal # "Running" => Honest(walk')
    BY <1>5 DEF Walking
  <2> QED
    BY <2>1 DEF WalkIsHonest, Honest
<1>8. WalkInv'
  BY <1>1, <1>4, <1>5, <1>6, <1>7 DEF WalkInv
<1>9. SnapshotInv' /\ IdleInv'
  BY <1>1, <1>2 DEF SnapshotInv, IdleInv
<1>10. RankInv'
  BY <1>1, <1>2 DEF StructuralInv, RankInv
<1>11. TierInv'
  BY <1>1, <1>2, NoTierYet
<1> QED
  BY <1>8, <1>9, <1>10, <1>11 DEF StructuralInv

\* The caller holds receipts and publishes another snapshot.
LEMMA RebuildKeeps ==
  ASSUME StructuralInv, Rebuild
  PROVE  StructuralInv'
<1>1. /\ state \in {"start", "walk"} /\ state' = state /\ request' = request /\ ranking' = ranking
      /\ walk' = walk /\ leaving' = leaving /\ todo' = todo /\ result' = result
      /\ edited' = edited /\ admitted' = admitted /\ omissions' = omissions /\ covered' = covered
  BY DEF Rebuild, Receipts, walkVars, assemblyVars
<1>2. PICK c \in SnapshotCandidates \cup Later : BuildFailure(c) = "none" /\ snapshot' = c
  BY DEF Rebuild
<1>3. result = "pending" /\ result' = "pending"
  BY <1>1 DEF StructuralInv, SnapshotInv
<1>4. SnapshotInv'
  BY <1>1, <1>2, <1>3 DEF StructuralInv, SnapshotInv, GoodSnapshot
<1>5. IdleInv'
  BY <1>1 DEF StructuralInv, IdleInv
<1>6. RankInv'
  BY <1>1, <1>3 DEF StructuralInv, RankInv
<1>7. WalkInv'
  <2>1. WalkInv
    BY DEF StructuralInv
  <2>2. WalkIsHonest' <=> WalkIsHonest
    BY <1>1 DEF WalkIsHonest, Allowed
  <2> QED
    BY <1>1, <2>1, <2>2 DEF WalkInv
<1>8. TierInv'
  BY <1>1, <1>3, NoTierYet
<1> QED
  BY <1>4, <1>5, <1>6, <1>7, <1>8 DEF StructuralInv

\* An edited ranking receipt still has its parts.
LEMMA EditedRanking ==
  ASSUME RankTyped(ranking)
  PROVE  /\ ranking.omitted # <<>> =>
              RankTyped([ranking EXCEPT !.selected = Append(@, Head(ranking.omitted)), !.omitted = Tail(@)])
         /\ RankTyped([ranking EXCEPT !.conflicts = <<>>])
<1> DEFINE k == ranking
<1>1. /\ k = [of |-> k.of, seed |-> k.seed, count |-> k.count, limit |-> k.limit,
              selected |-> k.selected, omitted |-> k.omitted, reason |-> k.reason,
              conflicts |-> k.conflicts, missing |-> k.missing]
      /\ k.selected \in Seq(Range(k.selected)) /\ k.omitted \in Seq(Range(k.omitted))
      /\ k.conflicts \in Seq(Range(k.conflicts))
  BY DEF RankTyped, IsSeq
<1>2. ASSUME NEW a, NEW b, NEW c, IsSeq(a), IsSeq(b), IsSeq(c)
      PROVE  RankTyped([of |-> k.of, seed |-> k.seed, count |-> k.count, limit |-> k.limit,
                        selected |-> a, omitted |-> b, reason |-> k.reason,
                        conflicts |-> c, missing |-> k.missing])
  BY <1>2 DEF RankTyped
<1>3. ASSUME k.omitted # <<>>
      PROVE  RankTyped([k EXCEPT !.selected = Append(@, Head(k.omitted)), !.omitted = Tail(@)])
  <2> DEFINE a == Append(k.selected, Head(k.omitted))
             b == Tail(k.omitted)
  <2>1. [k EXCEPT !.selected = Append(@, Head(k.omitted)), !.omitted = Tail(@)]
          = [of |-> k.of, seed |-> k.seed, count |-> k.count, limit |-> k.limit,
             selected |-> a, omitted |-> b, reason |-> k.reason,
             conflicts |-> k.conflicts, missing |-> k.missing]
    <3> DEFINE h == Head(k.omitted)
               t == Tail(k.omitted)
    <3>1. k = [of |-> k.of, seed |-> k.seed, count |-> k.count, limit |-> k.limit,
               selected |-> k.selected, omitted |-> k.omitted, reason |-> k.reason,
               conflicts |-> k.conflicts, missing |-> k.missing]
      BY <1>1
    <3> HIDE DEF h, t
    <3> DEFINE g == Append(k.selected, h)
               v == [k EXCEPT !.selected = g, !.omitted = t]
    <3>2. v = [k EXCEPT !.selected = g, !.omitted = t]
      OBVIOUS
    <3> HIDE DEF g, v
    <3>3. v = [of |-> k.of, seed |-> k.seed, count |-> k.count, limit |-> k.limit,
               selected |-> g, omitted |-> t, reason |-> k.reason,
               conflicts |-> k.conflicts, missing |-> k.missing]
      BY <3>1, <3>2
    <3> QED
      BY <3>3 DEF v, g, h, t
  <2>2. IsSeq(a)
    <3>1. a \in Seq(Range(k.selected) \cup {Head(k.omitted)})
      BY <1>1, AppendIs
    <3> HIDE DEF a
    <3> QED
      BY <3>1, OwnEntries DEF IsSeq
  <2>3. IsSeq(b)
    <3>1. b \in Seq(Range(k.omitted))
      <4> DEFINE R == Range(k.omitted)
      <4>1. k.omitted \in Seq(R)
        BY <1>1
      <4> HIDE DEF R
      <4>2. b \in Seq(R)
        BY <1>3, <4>1
      <4> QED
        BY <4>2 DEF R
    <3> QED
      BY <3>1, OwnEntries DEF IsSeq
  <2>4. IsSeq(k.conflicts)
    BY <1>1 DEF IsSeq
  <2> HIDE DEF a, b
  <2> QED
    BY <1>2, <2>1, <2>2, <2>3, <2>4
<1>4. RankTyped([k EXCEPT !.conflicts = <<>>])
  <2>1. [k EXCEPT !.conflicts = <<>>]
          = [of |-> k.of, seed |-> k.seed, count |-> k.count, limit |-> k.limit,
             selected |-> k.selected, omitted |-> k.omitted, reason |-> k.reason,
             conflicts |-> <<>>, missing |-> k.missing]
    <3>1. k = [of |-> k.of, seed |-> k.seed, count |-> k.count, limit |-> k.limit,
               selected |-> k.selected, omitted |-> k.omitted, reason |-> k.reason,
               conflicts |-> k.conflicts, missing |-> k.missing]
      BY <1>1
    <3> QED
      BY <3>1
  <2>2. IsSeq(k.selected) /\ IsSeq(k.omitted) /\ IsSeq(<<>>)
    BY <1>1 DEF IsSeq
  <2> QED
    BY <1>2, <2>1, <2>2
<1> QED
  BY <1>3, <1>4

\* What an edit leaves of a traversal receipt.
WalkEdited(v) == WalkTyped(v) /\ v.terminal = walk.terminal

\* An edited traversal receipt still has its parts and its end.
LEMMA EditedWalk ==
  ASSUME WalkTyped(walk)
  PROVE  /\ Len(walk.steps) > 2 =>
              WalkEdited([walk EXCEPT !.steps[2] = walk.steps[3], !.steps[3] = walk.steps[2]])
         /\ \A n : WalkEdited([walk EXCEPT !.visited = Append(@, n), !.steps = Append(@, walk.steps[Len(@)]),
                                           !.accepted = @ + 1])
<1> DEFINE w == walk
<1>1. /\ w = [of |-> w.of, seed |-> w.seed, bounds |-> w.bounds, visited |-> w.visited,
              steps |-> w.steps, inspected |-> w.inspected, accepted |-> w.accepted,
              skipped |-> w.skipped, terminal |-> w.terminal]
      /\ w.visited \in Seq(Range(w.visited)) /\ w.steps \in Seq(Range(w.steps))
  BY DEF WalkTyped, IsSeq
<1>2. ASSUME NEW a, NEW b, NEW c, IsSeq(a), IsSeq(b)
      PROVE  WalkEdited([of |-> w.of, seed |-> w.seed, bounds |-> w.bounds, visited |-> a,
                        steps |-> b, inspected |-> w.inspected, accepted |-> c,
                        skipped |-> w.skipped, terminal |-> w.terminal])
  BY <1>2 DEF WalkTyped, WalkEdited
<1>3. ASSUME Len(w.steps) > 2
      PROVE  WalkEdited([w EXCEPT !.steps[2] = w.steps[3], !.steps[3] = w.steps[2]])
  <2> DEFINE b == [w.steps EXCEPT ![2] = w.steps[3], ![3] = w.steps[2]]
  <2>1. [w EXCEPT !.steps[2] = w.steps[3], !.steps[3] = w.steps[2]]
          = [of |-> w.of, seed |-> w.seed, bounds |-> w.bounds, visited |-> w.visited,
             steps |-> b, inspected |-> w.inspected, accepted |-> w.accepted,
             skipped |-> w.skipped, terminal |-> w.terminal]
    <3>1. w = [of |-> w.of, seed |-> w.seed, bounds |-> w.bounds, visited |-> w.visited,
               steps |-> w.steps, inspected |-> w.inspected, accepted |-> w.accepted,
               skipped |-> w.skipped, terminal |-> w.terminal]
      BY <1>1
    <3> DEFINE x == w.steps[3]
               y == w.steps[2]
    <3> HIDE DEF x, y
    <3> DEFINE u == [w EXCEPT !.steps[2] = x]
               v == [u EXCEPT !.steps[3] = y]
               g == [w.steps EXCEPT ![2] = x]
               h == [g EXCEPT ![3] = y]
    <3>2. u = [w EXCEPT !.steps = g] /\ v = [u EXCEPT !.steps = [u.steps EXCEPT ![3] = y]]
          /\ h = [g EXCEPT ![3] = y]
      OBVIOUS
    <3> HIDE DEF u, v, g, h
    <3>3. u = [of |-> w.of, seed |-> w.seed, bounds |-> w.bounds, visited |-> w.visited,
               steps |-> g, inspected |-> w.inspected,
               accepted |-> w.accepted, skipped |-> w.skipped, terminal |-> w.terminal]
      BY <3>1, <3>2
    <3>4. u.steps = g
      BY <3>3
    <3>5. v = [u EXCEPT !.steps = h]
      BY <3>2, <3>4, Zenon
    <3>6. v = [of |-> w.of, seed |-> w.seed, bounds |-> w.bounds, visited |-> w.visited,
               steps |-> h, inspected |-> w.inspected,
               accepted |-> w.accepted, skipped |-> w.skipped, terminal |-> w.terminal]
      BY <3>3, <3>5
    <3> QED
      BY <3>6 DEF v, u, h, g, x, y
  <2>2. IsSeq(b)
    <3> DEFINE R == Range(w.steps)
    <3>1. w.steps \in Seq(R) /\ Len(w.steps) \in Nat /\ 2 \in 1 .. Len(w.steps) /\ 3 \in 1 .. Len(w.steps)
      BY <1>1, <1>3
    <3> HIDE DEF R
    <3>2. w.steps[2] \in R /\ w.steps[3] \in R
      BY <3>1
    <3>3. b \in Seq(R)
      BY <3>1, <3>2
    <3> QED
      BY <3>3, OwnEntries DEF IsSeq
  <2>3. IsSeq(w.visited)
    BY <1>1 DEF IsSeq
  <2> HIDE DEF b
  <2> QED
    BY <1>2, <2>1, <2>2, <2>3
<1>4. ASSUME NEW n
      PROVE  WalkEdited([w EXCEPT !.visited = Append(@, n), !.steps = Append(@, w.steps[Len(@)]),
                                  !.accepted = @ + 1])
  <2> DEFINE a == Append(w.visited, n)
             b == Append(w.steps, w.steps[Len(w.steps)])
             c == w.accepted + 1
  <2>1. [w EXCEPT !.visited = Append(@, n), !.steps = Append(@, w.steps[Len(@)]), !.accepted = @ + 1]
          = [of |-> w.of, seed |-> w.seed, bounds |-> w.bounds, visited |-> a,
             steps |-> b, inspected |-> w.inspected, accepted |-> c,
             skipped |-> w.skipped, terminal |-> w.terminal]
    <3>1. w = [of |-> w.of, seed |-> w.seed, bounds |-> w.bounds, visited |-> w.visited,
               steps |-> w.steps, inspected |-> w.inspected, accepted |-> w.accepted,
               skipped |-> w.skipped, terminal |-> w.terminal]
      BY <1>1
    <3> HIDE DEF a, b, c
    <3> DEFINE v == [w EXCEPT !.visited = a, !.steps = b, !.accepted = c]
    <3>2. v = [w EXCEPT !.visited = a, !.steps = b, !.accepted = c]
      OBVIOUS
    <3> HIDE DEF v
    <3>3. v = [of |-> w.of, seed |-> w.seed, bounds |-> w.bounds, visited |-> a,
               steps |-> b, inspected |-> w.inspected, accepted |-> c,
               skipped |-> w.skipped, terminal |-> w.terminal]
      BY <3>1, <3>2
    <3> QED
      BY <3>3 DEF v, a, b, c
  <2>2. IsSeq(a)
    <3>1. a \in Seq(Range(w.visited) \cup {n})
      BY <1>1, AppendIs
    <3> HIDE DEF a
    <3> QED
      BY <3>1, OwnEntries DEF IsSeq
  <2>3. IsSeq(b)
    <3>1. b \in Seq(Range(w.steps) \cup {w.steps[Len(w.steps)]})
      BY <1>1, AppendIs
    <3> HIDE DEF b
    <3> QED
      BY <3>1, OwnEntries DEF IsSeq
  <2> HIDE DEF a, b, c
  <2> QED
    BY <1>2, <2>1, <2>2, <2>3
<1> QED
  BY <1>3, <1>4

\* The caller edits a receipt.
LEMMA EditKeeps ==
  ASSUME StructuralInv, Edit
  PROVE  StructuralInv'
<1>1. /\ Receipts /\ ~ edited /\ edited' = TRUE /\ state' = state /\ request' = request
      /\ snapshot' = snapshot /\ leaving' = leaving /\ todo' = todo /\ result' = result
      /\ admitted' = admitted /\ omissions' = omissions /\ covered' = covered
  BY DEF Edit
<1>2. /\ state \in {"start", "walk"}
      /\ state = "start" => request.walk = NoValue
      /\ state = "walk" => walk.terminal # "Running"
  BY <1>1 DEF Receipts
<1>3. /\ result = "pending" /\ RankTyped(ranking)
      /\ state = "start" => walk = NoValue /\ leaving = <<>> /\ todo = <<>>
      /\ state = "walk" => WalkTyped(walk) /\ todo = <<>>
  BY <1>2 DEF StructuralInv, SnapshotInv, RankInv, WalkInv
<1>4. /\ RankTyped(ranking')
      /\ state = "start" => walk' = NoValue
      /\ state = "walk" => WalkEdited(walk')
  <2>1. PICK edit \in Edits :
       \/ /\ edit = "select omitted" /\ ranking.omitted # <<>>
          /\ ranking' = [ranking EXCEPT !.selected = Append(@, Head(ranking.omitted)),
                                        !.omitted = Tail(@)]
          /\ UNCHANGED walk
       \/ /\ edit = "hide conflicts" /\ ranking.conflicts # <<>>
          /\ ranking' = [ranking EXCEPT !.conflicts = <<>>]
          /\ UNCHANGED walk
       \/ /\ edit = "swap paths" /\ walk # NoValue /\ Len(walk.steps) > 2
          /\ walk' = [walk EXCEPT !.steps[2] = walk.steps[3], !.steps[3] = walk.steps[2]]
          /\ UNCHANGED ranking
       \/ /\ edit = "claim visit" /\ walk # NoValue /\ Len(walk.visited) < walk.bounds.nodes
          /\ \E n \in Ids(snapshot) \ Range(walk.visited) :
               walk' = [walk EXCEPT !.visited = Append(@, n), !.steps = Append(@, walk.steps[Len(@)]),
                                    !.accepted = @ + 1]
          /\ UNCHANGED ranking
    BY DEF Edit
  <2>2. state = "walk" /\ walk' = walk => WalkEdited(walk')
    BY <1>3 DEF WalkEdited
  <2>3. CASE /\ ranking.omitted # <<>>
             /\ ranking' = [ranking EXCEPT !.selected = Append(@, Head(ranking.omitted)), !.omitted = Tail(@)]
             /\ walk' = walk
    <3>1. RankTyped(ranking')
      BY <1>3, <2>3, EditedRanking, Zenon
    <3> QED
      BY <1>3, <2>2, <2>3, <3>1
  <2>4. CASE ranking' = [ranking EXCEPT !.conflicts = <<>>] /\ walk' = walk
    <3>1. RankTyped(ranking')
      BY <1>3, <2>4, EditedRanking, Zenon
    <3> QED
      BY <1>3, <2>2, <2>4, <3>1
  <2>5. CASE /\ walk # NoValue /\ Len(walk.steps) > 2 /\ ranking' = ranking
             /\ walk' = [walk EXCEPT !.steps[2] = walk.steps[3], !.steps[3] = walk.steps[2]]
    <3>1. state = "walk" /\ WalkTyped(walk)
      BY <1>2, <1>3, <2>5
    <3>2. WalkEdited(walk')
      BY <3>1, <2>5, EditedWalk, Zenon
    <3> QED
      BY <1>3, <2>5, <3>1, <3>2
  <2>6. CASE /\ walk # NoValue /\ ranking' = ranking
             /\ \E n \in Ids(snapshot) \ Range(walk.visited) :
                  walk' = [walk EXCEPT !.visited = Append(@, n), !.steps = Append(@, walk.steps[Len(@)]),
                                       !.accepted = @ + 1]
    <3>1. state = "walk" /\ WalkTyped(walk)
      BY <1>2, <1>3, <2>6
    <3>2. WalkEdited(walk')
      BY <3>1, <2>6, EditedWalk, Zenon
    <3> QED
      BY <1>3, <2>6, <3>1, <3>2
  <2> QED
    BY <2>1, <2>3, <2>4, <2>5, <2>6, Zenon
<1>5. state = "walk" => WalkTyped(walk') /\ walk'.terminal # "Running"
  BY <1>2, <1>4 DEF WalkEdited
<1>6. SnapshotInv' /\ IdleInv'
  BY <1>1, <1>2 DEF StructuralInv, SnapshotInv, IdleInv
<1>7. RankInv'
  BY <1>1, <1>2, <1>3, <1>4 DEF RankInv
<1>8. WalkInv'
  <2>1. WalkIsHonest'
    BY <1>1 DEF WalkIsHonest
  <2> QED
    BY <1>1, <1>2, <1>3, <1>4, <1>5, <2>1 DEF WalkInv
<1>9. TierInv'
  BY <1>1, <1>2, <1>3, NoTierYet
<1> QED
  BY <1>6, <1>7, <1>8, <1>9 DEF StructuralInv

\* A packet is begun.
LEMMA PackedAtFirst ==
  ASSUME NEW L, NEW s, NEW w, NEW agenda \in Seq(L), NEW primary
  PROVE  Packed(s, w, agenda, primary, <<>>, <<>>, {}, agenda)
<1>1. IsSeq(agenda) /\ Len(agenda) \in Nat
  BY OwnEntries DEF IsSeq
<1>2. IsSeq(<<>>) /\ Len(<<>>) = 0
  BY DEF IsSeq
<1>3. Len(agenda) - Len(agenda) = 0 /\ \A i \in 1 .. Len(agenda) : Len(agenda) - Len(agenda) + i = i
  BY <1>1
<1> QED
  BY <1>1, <1>2, <1>3 DEF Packed

\* The receipts are validated.
LEMMA AssembleKeeps ==
  ASSUME StructuralInv, Assemble
  PROVE  StructuralInv'
<1> DEFINE why == PacketError(snapshot, request, ranking, walk)
<1>1. /\ Receipts /\ request' = request /\ snapshot' = snapshot /\ ranking' = ranking /\ walk' = walk
      /\ leaving' = leaving /\ todo' = todo
      /\ edited' = edited /\ admitted' = admitted /\ omissions' = omissions /\ covered' = covered
      /\ \/ why # "none" /\ state' = "done" /\ result' = why
         \/ why = "none" /\ state' = "tiers" /\ due' = Agenda /\ result' = result
  BY DEF Assemble, Done, walkVars
<1>2. /\ state \in {"start", "walk"} /\ state' \in {"tiers", "done"}
      /\ state = "walk" => walk.terminal # "Running"
  BY <1>1 DEF Receipts
<1>3. /\ request \in Requests /\ GoodSnapshot(snapshot) /\ result = "pending"
      /\ admitted = <<>> /\ omissions = <<>> /\ covered.domains = {} /\ RankTyped(ranking)
      /\ ~ edited => RankingAccepted(ranking.of, ranking)
      /\ state = "start" => walk = NoValue
      /\ walk = NoValue \/ WalkTyped(walk)
      /\ state = "walk" /\ ~ edited => Walking(walk, leaving, todo)
      /\ WalkIsHonest
  BY <1>2 DEF StructuralInv, SnapshotInv, IdleInv, RankInv, WalkInv
<1>4. why \notin {"sufficient", "insufficient"}
  BY RefusalsAre
<1>5. ASSUME why \in {"InvalidRankingReceipt", "InvalidTraversalReceipt"}, ~ edited, ranking.of = snapshot
      PROVE  FALSE
  <2>1. RankingAccepted(snapshot, ranking)
    BY <1>3, <1>5
  <2>2. why = "InvalidTraversalReceipt"
    BY <1>5, <2>1, RefusalsAre
  <2>3. walk # NoValue /\ ~ TraversalAccepted(snapshot, walk) /\ walk.of = snapshot
    BY <2>2, RefusalsAre
  <2>4. WalkSound(walk) /\ TerminalBound(walk)
    BY <1>2, <1>3, <1>5, <2>3 DEF Walking
  <2>5. TraversalAccepted(walk.of, walk)
    BY <2>4, OwnWalkAccepted
  <2> QED
    BY <2>3, <2>5
<1>6. SnapshotInv'
  BY <1>1, <1>2, <1>3 DEF SnapshotInv
<1>7. IdleInv'
  BY <1>2 DEF IdleInv
<1>8. RankInv'
  BY <1>1, <1>2, <1>3, <1>5 DEF RankInv
<1>9. WalkInv'
  <2>1. WalkIsHonest' <=> WalkIsHonest
    BY <1>1 DEF WalkIsHonest, Allowed
  <2> QED
    BY <1>1, <1>2, <1>3, <2>1 DEF WalkInv
<1>10. TierInv'
  <2>1. CASE why # "none"
    BY <1>1, <1>4, <2>1, NoTierYet
  <2>2. CASE why = "none"
    <3>1. state' = "tiers" /\ due' = Agenda /\ result' = "pending"
      BY <1>1, <1>3, <2>2
    <3>2. Agenda \in Seq(Listed)
      BY <1>3, <2>2, AgendaIs
    <3>3. Packed(snapshot, walk, Agenda, Len(ranking.selected), admitted, omissions, covered.domains, Agenda)
      BY <1>3, <3>2, PackedAtFirst
    <3>4. Agenda' = Agenda
      BY <1>1 DEF Agenda, TierEntries, TrailOf
    <3>5. Received
      BY <1>3, <2>2 DEF Received
    <3>6. Received'
      BY <1>1, <3>5 DEF Received
    <3>7. Packed(snapshot, walk, Agenda, Len(ranking.selected), admitted, omissions, covered.domains, due)'
      BY <1>1, <3>1, <3>3, <3>4
    <3> QED
      BY <3>1, <3>6, <3>7 DEF TierInv, Finished
  <2> QED
    BY <2>1, <2>2
<1> QED
  BY <1>6, <1>7, <1>8, <1>9, <1>10 DEF StructuralInv

\* While a packet is made, its receipts stay.
LEMMA PackingFrame ==
  ASSUME StructuralInv, state = "tiers", state' \in {"tiers", "done"},
         request' = request, snapshot' = snapshot, ranking' = ranking, walk' = walk,
         leaving' = leaving, todo' = todo, edited' = edited,
         state' = "tiers" => result' = result,
         result' \notin {"InvalidRankingReceipt", "InvalidTraversalReceipt"}
  PROVE  /\ SnapshotInv' /\ IdleInv' /\ RankInv' /\ WalkInv'
         /\ Received /\ Received' /\ Agenda' = Agenda
         /\ Agenda \in Seq(Listed) /\ Len(ranking.selected) \in Nat
         /\ Packed(snapshot, walk, Agenda, Len(ranking.selected), admitted, omissions, covered.domains, due)
         /\ result = "pending"
<1>1. /\ request \in Requests /\ GoodSnapshot(snapshot) /\ result = "pending" /\ RankTyped(ranking)
      /\ walk = NoValue \/ WalkTyped(walk)
      /\ WalkIsHonest
  BY DEF StructuralInv, SnapshotInv, RankInv, WalkInv
<1>2. SnapshotInv' /\ IdleInv' /\ RankInv'
  BY <1>1 DEF SnapshotInv, IdleInv, RankInv
<1>3. WalkIsHonest' <=> WalkIsHonest
  BY DEF WalkIsHonest, Allowed
<1>4. WalkInv'
  BY <1>1, <1>3 DEF WalkInv
<1>5. /\ Received
      /\ Packed(snapshot, walk, Agenda, Len(ranking.selected), admitted, omissions, covered.domains, due)
  BY DEF StructuralInv, TierInv
<1>6. Received'
  BY <1>5 DEF Received
<1>7. Agenda' = Agenda
  BY DEF Agenda, TierEntries, TrailOf
<1>8. Agenda \in Seq(Listed) /\ Len(ranking.selected) \in Nat
  BY <1>5, AgendaIs DEF Received
<1> QED
  BY <1>1, <1>2, <1>4, <1>5, <1>6, <1>7, <1>8

\* The entry at the head of the agenda: the selected nodes come first.
LEMMA EntryAhead ==
  ASSUME Received, due # <<>>,
         Packed(snapshot, walk, Agenda, Len(ranking.selected), admitted, omissions, covered.domains, due)
  PROVE  LET entry == Head(due) IN
         /\ entry.node \in Ids(snapshot) /\ entry.tier \in Tiers
         /\ entry = EntryOf(entry.node, entry.tier)
         /\ entry.tier = "Primary" <=> Len(Agenda) - Len(due) < Len(ranking.selected)
<1> DEFINE entry == Head(due)
           k == Len(Agenda) - Len(due) + 1
           top == Len(ranking.selected)
<1>1. Agenda \in Seq(Listed) /\ top \in Nat
  BY AgendaIs DEF Received
<1>2. /\ IsSeq(due) /\ Len(due) <= Len(Agenda)
      /\ \A i \in 1 .. Len(due) : due[i] = Agenda[Len(Agenda) - Len(due) + i]
  BY DEF Packed
<1>3. k \in 1 .. Len(Agenda) /\ entry = Agenda[k] /\ entry \in Listed
  BY <1>1, <1>2, NextEntryIs, SMTT(60)
<1>4. PICK n \in Ids(snapshot), tier \in Tiers : entry = EntryOf(n, tier)
  BY <1>3 DEF Listed
<1>5. entry.node = n /\ entry.tier = tier
  BY <1>4 DEF EntryOf
<1>6. /\ \A i \in 1 .. top : Agenda[i] = EntryOf(ranking.selected[i], "Primary")
      /\ \A i \in 1 .. Len(Agenda) : i > top => Agenda[i].tier # "Primary"
  BY AgendaIs DEF Received
<1>7. Len(Agenda) \in Nat /\ Len(due) \in Nat
  BY <1>1, <1>2, OwnEntries DEF IsSeq
<1>8. k <= top => entry.tier = "Primary"
  <2> SUFFICES ASSUME k <= top PROVE entry.tier = "Primary"
    OBVIOUS
  <2>1. k \in 1 .. top
    BY <1>1, <1>3, <1>7
  <2>2. entry = EntryOf(ranking.selected[k], "Primary")
    BY <1>3, <1>6, <2>1, Zenon
  <2> QED
    BY <2>2 DEF EntryOf
<1>9. k > top => entry.tier # "Primary"
  BY <1>3, <1>6
<1>10. Len(Agenda) - Len(due) < top <=> k <= top
  BY <1>1, <1>7
<1>11. k <= top \/ k > top
  BY <1>1, <1>7
<1> HIDE DEF k, top, entry
<1>12. entry.tier = "Primary" <=> Len(Agenda) - Len(due) < top
  BY <1>8, <1>9, <1>10, <1>11
<1> QED
  BY <1>4, <1>5, <1>12, Zenon DEF entry, top

\* A node that has an item or an omission.
LEMMA DecidedIs ==
  ASSUME IsSeq(admitted), IsSeq(omissions), NEW n
  PROVE  n \in Decided <=> \/ \E i \in 1 .. Len(admitted) : admitted[i].node = n
                           \/ \E i \in 1 .. Len(omissions) : omissions[i].node = n
<1>1. DOMAIN admitted = 1 .. Len(admitted) /\ DOMAIN omissions = 1 .. Len(omissions)
  BY OwnEntries DEF IsSeq
<1> QED
  BY <1>1, Zenon DEF Decided

\* An entry that a loop passes over.
LEMMA PassOverKeeps ==
  ASSUME StructuralInv, PassOver
  PROVE  StructuralInv'
<1> DEFINE entry == Head(due)
<1>1. /\ state = "tiers" /\ due # <<>> /\ ~ Considered(entry) /\ due' = Tail(due)
      /\ state' = state /\ request' = request /\ snapshot' = snapshot /\ ranking' = ranking
      /\ walk' = walk /\ leaving' = leaving /\ todo' = todo /\ result' = result
      /\ edited' = edited /\ admitted' = admitted /\ omissions' = omissions /\ covered' = covered
  BY DEF PassOver, graphVars, walkVars
<1>2. result = "pending"
  BY <1>1 DEF StructuralInv, SnapshotInv
<1>3. /\ SnapshotInv' /\ IdleInv' /\ RankInv' /\ WalkInv'
      /\ Received /\ Received' /\ Agenda' = Agenda
      /\ Agenda \in Seq(Listed) /\ Len(ranking.selected) \in Nat
      /\ Packed(snapshot, walk, Agenda, Len(ranking.selected), admitted, omissions, covered.domains, due)
  BY <1>1, <1>2, PackingFrame
<1>4. /\ entry.tier \in Tiers
      /\ entry.tier = "Primary" <=> Len(Agenda) - Len(due) < Len(ranking.selected)
  BY <1>1, <1>3, EntryAhead
<1>5. /\ IsSeq(admitted) /\ IsSeq(omissions)
      /\ Len(Agenda) - Len(due) < Len(ranking.selected) =>
           omissions = <<>> /\ \A i \in 1 .. Len(admitted) : admitted[i].tier = "Primary"
  BY <1>3 DEF Packed
<1>6. DOMAIN admitted = 1 .. Len(admitted) /\ DOMAIN omissions = 1 .. Len(omissions)
  BY <1>5, OwnEntries DEF IsSeq
<1>7. Handled(snapshot, admitted, omissions, entry)
  <2>1. ASSUME entry.tier = "Primary", Authoritative(snapshot.attr[entry.node])
        PROVE  \E i \in DOMAIN admitted : admitted[i].node = entry.node /\ admitted[i].tier = "Primary"
    <3>1. entry.node \in Decided
      BY <1>1, <2>1 DEF Considered
    <3>2. omissions = <<>> /\ \A i \in 1 .. Len(admitted) : admitted[i].tier = "Primary"
      BY <1>4, <1>5, <2>1
    <3>3. Len(omissions) = 0
      BY <3>2
    <3>4. \E i \in 1 .. Len(admitted) : admitted[i].node = entry.node
      BY <1>5, <3>1, <3>3, DecidedIs
    <3> QED
      BY <1>6, <3>2, <3>4
  <2>2. ASSUME entry.tier = "Conflict"
        PROVE  \/ \E i \in DOMAIN admitted : admitted[i].node = entry.node
               \/ \E i \in DOMAIN omissions : omissions[i].node = entry.node
    <3>1. entry.node \in Decided
      BY <1>1, <2>2 DEF Considered
    <3> QED
      BY <1>5, <1>6, <3>1, DecidedIs
  <2> QED
    BY <2>1, <2>2 DEF Handled
<1>8. Packed(snapshot, walk, Agenda, Len(ranking.selected), admitted, omissions, covered.domains, Tail(due))
  BY <1>1, <1>3, <1>7, PassedOver
<1>9. Packed(snapshot, walk, Agenda, Len(ranking.selected), admitted, omissions, covered.domains, due)'
  BY <1>1, <1>3, <1>8
<1>10. TierInv'
  BY <1>1, <1>2, <1>3, <1>9 DEF TierInv, Finished
<1> QED
  BY <1>3, <1>10 DEF StructuralInv

\* add_structural_item.
LEMMA AddItemKeeps ==
  ASSUME StructuralInv, AddItem
  PROVE  StructuralInv'
<1> DEFINE entry == Head(due)
           apart == NonAuthoritative(entry)
           item == [node |-> entry.node, tier |-> entry.tier, trail |-> entry.trail,
                    non_authoritative |-> apart, bytes |-> Bytes(entry)]
           fields == [domains |-> covered.domains \cup snapshot.attr[entry.node].domains,
                      classes |-> covered.classes \cup ClassOf(entry.trail)]
           omission == [node |-> entry.node, tier |-> entry.tier, reason |-> Bound(entry)]
           top == Len(ranking.selected)
<1>1. /\ state = "tiers" /\ due # <<>> /\ Considered(entry)
      /\ request' = request /\ snapshot' = snapshot /\ ranking' = ranking
      /\ walk' = walk /\ leaving' = leaving /\ todo' = todo /\ edited' = edited
      /\ \/ /\ admitted' = Append(admitted, item)
            /\ covered' = IF apart THEN covered ELSE fields
            /\ due' = Tail(due) /\ state' = state /\ result' = result /\ omissions' = omissions
         \/ state' = "done" /\ result' = "RequiredItemDoesNotFit"
         \/ /\ entry.tier \notin {"Primary", "Dependency"}
            /\ omissions' = Append(omissions, omission)
            /\ due' = Tail(due) /\ state' = state /\ result' = result /\ admitted' = admitted
            /\ covered' = covered
  BY Zenon DEF AddItem, Done, walkVars
<1>2. result = "pending"
  BY <1>1 DEF StructuralInv, SnapshotInv
<1>3. /\ SnapshotInv' /\ IdleInv' /\ RankInv' /\ WalkInv'
      /\ Received /\ Received' /\ Agenda' = Agenda
      /\ Agenda \in Seq(Listed) /\ top \in Nat
      /\ Packed(snapshot, walk, Agenda, top, admitted, omissions, covered.domains, due)
  <2>1. /\ state' \in {"tiers", "done"} /\ (state' = "tiers" => result' = result)
        /\ result' \notin {"InvalidRankingReceipt", "InvalidTraversalReceipt"}
    BY <1>1, <1>2
  <2> QED
    BY <1>1, <2>1, PackingFrame
<1>4. /\ entry.node \in Ids(snapshot) /\ entry.tier \in Tiers
      /\ entry = EntryOf(entry.node, entry.tier)
      /\ entry.tier = "Primary" <=> Len(Agenda) - Len(due) < top
  BY <1>1, <1>3, EntryAhead
<1>5. IsSeq(admitted) /\ IsSeq(omissions)
  BY <1>3 DEF Packed
<1>6. \A i \in 1 .. Len(admitted) : admitted[i].node # entry.node
  BY <1>1, <1>5, DecidedIs DEF Considered
<1>7. CASE /\ admitted' = Append(admitted, item)
           /\ covered' = IF apart THEN covered ELSE fields
           /\ due' = Tail(due) /\ state' = state /\ result' = result /\ omissions' = omissions
  <2>1. /\ item.node = entry.node /\ item.tier = entry.tier /\ item.trail = entry.trail
        /\ item.non_authoritative = apart
    OBVIOUS
  <2>2. ItemGood(snapshot, walk, item)
    <3>1. ~ apart => snapshot.attr[entry.node].life = "Current" /\ snapshot.attr[entry.node].gen = "Source"
      BY <1>1, <1>4 DEF NonAuthoritative, Considered, Authoritative, Tiers
    <3>2. entry.trail # <<>> => walk # NoValue /\ \E j \in DOMAIN walk.visited :
                                  entry.node = walk.visited[j] /\ entry.trail = walk.steps[j]
      BY <1>4, TrailIs
    <3> HIDE DEF item, apart, entry
    <3> QED
      BY <1>4, <2>1, <3>1, <3>2 DEF ItemGood
  <2>3. \A y \in covered'.domains :
          y \in covered.domains \/ (y \in snapshot.attr[item.node].domains /\ ~ item.non_authoritative)
    <3>1. CASE apart
      BY <1>7, <3>1
    <3>2. CASE ~ apart
      <4>1. covered'.domains = covered.domains \cup snapshot.attr[entry.node].domains
        BY <1>7, <3>2
      <4> HIDE DEF item, apart, entry
      <4> QED
        BY <2>1, <3>2, <4>1
    <3> QED
      BY <3>1, <3>2
  <2> HIDE DEF item, apart, entry, fields, omission
  <2>4. Len(Agenda) - Len(due) < top => item.tier = "Primary"
    BY <1>4, <2>1
  <2>5. \A i \in 1 .. Len(admitted) : admitted[i].node # item.node
    BY <1>6, <2>1
  <2>6. item.node = Head(due).node /\ item.tier = Head(due).tier
    BY <2>1 DEF entry
  <2>7. Packed(snapshot, walk, Agenda, top, Append(admitted, item), omissions, covered'.domains, Tail(due))
    BY <1>1, <1>3, <2>2, <2>3, <2>4, <2>5, <2>6, EntryAdmitted
  <2>8. Packed(snapshot, walk, Agenda, top, admitted, omissions, covered.domains, due)'
    BY <1>1, <1>3, <1>7, <2>7
  <2>9. TierInv'
    BY <1>1, <1>2, <1>3, <1>7, <2>8 DEF TierInv, Finished
  <2> QED
    BY <1>3, <2>9 DEF StructuralInv
<1>8. CASE state' = "done" /\ result' = "RequiredItemDoesNotFit"
  <2>1. TierInv'
    BY <1>8, NoTierYet
  <2> QED
    BY <1>3, <2>1 DEF StructuralInv
<1>9. CASE /\ entry.tier \notin {"Primary", "Dependency"}
           /\ omissions' = Append(omissions, omission)
           /\ due' = Tail(due) /\ state' = state /\ result' = result /\ admitted' = admitted
           /\ covered' = covered
  <2>1. omission.node = entry.node
    OBVIOUS
  <2> HIDE DEF item, apart, entry, fields, omission
  <2>2. ~ Len(Agenda) - Len(due) < top /\ entry.tier # "Primary"
    BY <1>4, <1>9
  <2>3. omission.node = Head(due).node /\ Head(due).tier # "Primary"
    BY <2>1, <2>2 DEF entry
  <2>4. Packed(snapshot, walk, Agenda, top, admitted, Append(omissions, omission), covered.domains, Tail(due))
    BY <1>1, <1>3, <2>2, <2>3, EntryOmitted
  <2>5. Packed(snapshot, walk, Agenda, top, admitted, omissions, covered.domains, due)'
    BY <1>1, <1>3, <1>9, <2>4
  <2>6. TierInv'
    BY <1>1, <1>2, <1>3, <1>9, <2>5 DEF TierInv, Finished
  <2> QED
    BY <1>3, <2>6 DEF StructuralInv
<1> QED
  BY <1>1, <1>7, <1>8, <1>9, Zenon

\* The packet is finished.
LEMMA FinishKeeps ==
  ASSUME StructuralInv, Finish
  PROVE  StructuralInv'
<1>1. /\ state = "tiers" /\ due = <<>> /\ state' = "done"
      /\ result' = IF MissingDomains = {} /\ MissingClasses = {} THEN "sufficient" ELSE "insufficient"
      /\ request' = request /\ snapshot' = snapshot /\ ranking' = ranking
      /\ walk' = walk /\ leaving' = leaving /\ todo' = todo /\ edited' = edited
      /\ admitted' = admitted /\ omissions' = omissions /\ covered' = covered /\ due' = due
  BY DEF Finish, Done, walkVars, assemblyVars
<1>2. result' \in {"sufficient", "insufficient"} /\ (result' = "sufficient" => MissingDomains = {})
  BY <1>1
<1>3. result' \notin {"InvalidRankingReceipt", "InvalidTraversalReceipt"}
  BY <1>2
<1>4. /\ SnapshotInv' /\ IdleInv' /\ RankInv' /\ WalkInv'
      /\ Received /\ Received' /\ Agenda' = Agenda
      /\ Packed(snapshot, walk, Agenda, Len(ranking.selected), admitted, omissions, covered.domains, due)
  BY <1>1, <1>3, PackingFrame
<1>5. Packed(snapshot, walk, Agenda, Len(ranking.selected), admitted, omissions, covered.domains, due)'
  BY <1>1, <1>4
<1>6. MissingDomains' = MissingDomains
  BY <1>1 DEF MissingDomains
<1>7. TierInv'
  BY <1>1, <1>2, <1>4, <1>5, <1>6 DEF TierInv
<1> QED
  BY <1>4, <1>7 DEF StructuralInv

\* A step that changes nothing.
LEMMA StructuralStays ==
  ASSUME StructuralInv, UNCHANGED structuralVars
  PROVE  StructuralInv'
<1>1. /\ state' = state /\ request' = request /\ snapshot' = snapshot /\ ranking' = ranking
      /\ walk' = walk /\ leaving' = leaving /\ todo' = todo /\ result' = result /\ edited' = edited
      /\ admitted' = admitted /\ omissions' = omissions /\ covered' = covered /\ due' = due
  BY DEF structuralVars, graphVars, walkVars, assemblyVars
<1>2. SnapshotInv' /\ IdleInv' /\ RankInv'
  BY <1>1 DEF StructuralInv, SnapshotInv, IdleInv, RankInv
<1>3. WalkInv'
  <2>1. WalkIsHonest' <=> WalkIsHonest
    BY <1>1 DEF WalkIsHonest, Allowed
  <2>2. WalkInv
    BY DEF StructuralInv
  <2> QED
    BY <1>1, <2>1, <2>2 DEF WalkInv
<1>4. TierInv'
  BY TierStays DEF StructuralInv
<1> QED
  BY <1>2, <1>3, <1>4 DEF StructuralInv

(***************************************************************************)
(* The structural packet: theorems                                         *)
(***************************************************************************)
\* Every packet that is begun is about its snapshot.
LEMMA PacketIsBoundThen ==
  ASSUME StructuralInv
  PROVE  PacketIsBound
<1> SUFFICES ASSUME state = "tiers" \/ Finished
             PROVE  /\ IsInjective([i \in DOMAIN admitted |-> admitted[i].node])
                    /\ \A i \in DOMAIN admitted :
                         LET item == admitted[i]
                             at == PathNodes(walk.seed.value, item.trail)
                         IN /\ item.node \in Ids(snapshot)
                            /\ item.non_authoritative \/ snapshot.attr[item.node].life = "Current"
                            /\ item.trail # <<>> =>
                                 /\ Range(item.trail) \subseteq Known(snapshot)
                                 /\ at[Len(item.trail)] = item.node
  BY Zenon DEF PacketIsBound
<1>1. /\ Received
      /\ IsSeq(admitted) /\ \A i \in 1 .. Len(admitted) : ItemGood(snapshot, walk, admitted[i])
      /\ \A i, j \in 1 .. Len(admitted) : admitted[i].node = admitted[j].node => i = j
  BY DEF StructuralInv, TierInv, Packed
<1>2. DOMAIN admitted = 1 .. Len(admitted)
  BY <1>1, OwnEntries DEF IsSeq
<1>3. IsInjective([i \in DOMAIN admitted |-> admitted[i].node])
  BY <1>1, <1>2 DEF IsInjective
<1>4. ASSUME NEW i \in DOMAIN admitted
      PROVE  LET item == admitted[i]
                 at == PathNodes(walk.seed.value, item.trail)
             IN /\ item.node \in Ids(snapshot)
                /\ item.non_authoritative \/ snapshot.attr[item.node].life = "Current"
                /\ item.trail # <<>> =>
                     /\ Range(item.trail) \subseteq Known(snapshot)
                     /\ at[Len(item.trail)] = item.node
  <2> DEFINE item == admitted[i]
             at == PathNodes(walk.seed.value, item.trail)
  <2>1. ItemGood(snapshot, walk, item)
    BY <1>1, <1>2, <1>4
  <2> HIDE DEF item
  <2>2. item.node \in Ids(snapshot) /\ (item.non_authoritative \/ snapshot.attr[item.node].life = "Current")
    BY <2>1 DEF ItemGood
  <2>3. ASSUME item.trail # <<>>
        PROVE  Range(item.trail) \subseteq Known(snapshot) /\ at[Len(item.trail)] = item.node
    <3>1. PICK j \in DOMAIN walk.visited : item.node = walk.visited[j] /\ item.trail = walk.steps[j]
      BY <2>1, <2>3 DEF ItemGood
    <3>2. walk # NoValue
      BY <2>1, <2>3 DEF ItemGood
    <3>3. TraversalAccepted(snapshot, walk)
      BY <1>1, <3>2, AcceptedIs DEF Received
    <3>4. PathAccepted(snapshot, walk, j)
      BY <3>3, Zenon DEF TraversalAccepted
    <3>5. /\ \A x \in DOMAIN item.trail : item.trail[x] \in Known(snapshot)
          /\ at[Len(item.trail)] = walk.visited[j]
      BY <3>1, <3>4, Zenon DEF PathAccepted
    <3>6. Range(item.trail) \subseteq Known(snapshot)
      BY <3>5 DEF Range
    <3> QED
      BY <3>1, <3>5, <3>6
  <2> QED
    BY <2>2, <2>3, Zenon DEF item
<1> QED
  BY <1>3, <1>4, Zenon

\* A finished packet has looked at its whole agenda.
LEMMA SufficiencyIsEarnedThen ==
  ASSUME StructuralInv
  PROVE  SufficiencyIsEarned
<1> SUFFICES ASSUME Finished
             PROVE  /\ result = "sufficient" => \A d \in Range(request.domains) : \E i \in DOMAIN admitted :
                         LET a == snapshot.attr[admitted[i].node]
                         IN d \in a.domains /\ a.life = "Current" /\ a.gen = "Source"
                    /\ \A n \in Ids(snapshot) :
                         /\ n \in Range(ranking.selected) /\ Authoritative(snapshot.attr[n]) =>
                              \E i \in DOMAIN admitted : admitted[i].node = n /\ admitted[i].tier = "Primary"
                         /\ snapshot.attr[n].life # "Current" => n \in Decided
  BY Zenon DEF SufficiencyIsEarned
<1> DEFINE top == Len(ranking.selected)
<1>1. /\ Received /\ due = <<>> /\ (result = "sufficient" => MissingDomains = {})
      /\ IsSeq(admitted) /\ IsSeq(omissions)
      /\ \A i \in 1 .. Len(admitted) : ItemGood(snapshot, walk, admitted[i])
      /\ \A i \in 1 .. Len(Agenda) - Len(due) : Handled(snapshot, admitted, omissions, Agenda[i])
      /\ \A d \in covered.domains : \E i \in 1 .. Len(admitted) :
           d \in snapshot.attr[admitted[i].node].domains /\ ~ admitted[i].non_authoritative
  BY DEF StructuralInv, TierInv, Packed
<1>2. DOMAIN admitted = 1 .. Len(admitted) /\ DOMAIN omissions = 1 .. Len(omissions)
  BY <1>1, OwnEntries DEF IsSeq
<1>3. /\ Agenda \in Seq(Listed) /\ top \in Nat
      /\ \A i \in 1 .. top : i \in 1 .. Len(Agenda) /\ Agenda[i] = EntryOf(ranking.selected[i], "Primary")
      /\ \A n \in Ids(snapshot) : ~ Eligible(snapshot, n) =>
           \E i \in 1 .. Len(Agenda) : Agenda[i] = EntryOf(n, "Conflict")
  BY <1>1, AgendaIs DEF Received
<1>4. \A i \in 1 .. Len(Agenda) : Handled(snapshot, admitted, omissions, Agenda[i])
  <2>1. Len(Agenda) - Len(due) = Len(Agenda)
    <3>1. Len(due) = 0 /\ Len(Agenda) \in Nat
      BY <1>1, <1>3
    <3> QED
      BY <3>1
  <2> QED
    BY <1>1, <2>1
<1>5. ASSUME result = "sufficient", NEW d \in Range(request.domains)
      PROVE  \E i \in DOMAIN admitted : LET a == snapshot.attr[admitted[i].node]
                                        IN d \in a.domains /\ a.life = "Current" /\ a.gen = "Source"
  <2>1. d \in covered.domains
    BY <1>1, <1>5 DEF MissingDomains
  <2>2. PICK i \in 1 .. Len(admitted) :
          d \in snapshot.attr[admitted[i].node].domains /\ ~ admitted[i].non_authoritative
    BY <1>1, <2>1
  <2>3. snapshot.attr[admitted[i].node].life = "Current" /\ snapshot.attr[admitted[i].node].gen = "Source"
    BY <1>1, <2>2 DEF ItemGood
  <2> QED
    BY <1>2, <2>2, <2>3
<1>6. ASSUME NEW n \in Ids(snapshot), n \in Range(ranking.selected), Authoritative(snapshot.attr[n])
      PROVE  \E i \in DOMAIN admitted : admitted[i].node = n /\ admitted[i].tier = "Primary"
  <2>1. DOMAIN ranking.selected = 1 .. top
    <3>1. ranking.selected \in Seq(Range(ranking.selected))
      BY <1>1 DEF Received, RankTyped, IsSeq
    <3> QED
      BY <3>1, OwnEntries
  <2>2. PICK i \in 1 .. top : ranking.selected[i] = n
    BY <1>6, <2>1 DEF Range
  <2>3. i \in 1 .. Len(Agenda) /\ Agenda[i] = EntryOf(n, "Primary")
    BY <1>3, <2>2
  <2>4. Handled(snapshot, admitted, omissions, EntryOf(n, "Primary"))
    BY <1>4, <2>3
  <2>5. EntryOf(n, "Primary").node = n /\ EntryOf(n, "Primary").tier = "Primary"
    BY DEF EntryOf
  <2> QED
    BY <1>6, <2>4, <2>5 DEF Handled
<1>7. ASSUME NEW n \in Ids(snapshot), snapshot.attr[n].life # "Current"
      PROVE  n \in Decided
  <2>1. ~ Eligible(snapshot, n)
    BY <1>7 DEF Eligible
  <2>2. PICK i \in 1 .. Len(Agenda) : Agenda[i] = EntryOf(n, "Conflict")
    BY <1>3, <2>1
  <2>3. Handled(snapshot, admitted, omissions, EntryOf(n, "Conflict"))
    BY <1>4, <2>2
  <2>4. EntryOf(n, "Conflict").node = n /\ EntryOf(n, "Conflict").tier = "Conflict"
    BY DEF EntryOf
  <2>5. \/ \E j \in DOMAIN admitted : admitted[j].node = n
        \/ \E j \in DOMAIN omissions : omissions[j].node = n
    BY <2>3, <2>4 DEF Handled
  <2> QED
    BY <1>1, <1>2, <2>5, DecidedIs
<1> QED
  BY <1>5, <1>6, <1>7

\* The inductive invariant of a structural request: while it ranks and walks,
\* its receipts are true; the queue of the walk is in the order of distance;
\* what a packet holds comes from the part of its agenda that is done with.
THEOREM StructuralHolds ==
  StructuralSpec => []StructuralInv
<1>1. StructuralInv /\ [StructuralNext]_structuralVars => StructuralInv'
  <2> SUFFICES ASSUME StructuralInv, [StructuralNext]_structuralVars
               PROVE  StructuralInv'
    OBVIOUS
  <2>1. CASE BuildSnapshot /\ UNCHANGED assemblyVars
    BY <2>1, BuildSnapshotKeeps
  <2>2. CASE Rank /\ UNCHANGED assemblyVars
    BY <2>2, RankKeeps
  <2>3. CASE StartWalk /\ UNCHANGED assemblyVars
    BY <2>3, StartWalkKeeps
  <2>4. CASE (LeaveNode \/ InspectEdge \/ WalkComplete) /\ UNCHANGED assemblyVars
    BY <2>4, WalkStepKeeps
  <2>5. CASE Rebuild
    BY <2>5, RebuildKeeps
  <2>6. CASE Edit
    BY <2>6, EditKeeps
  <2>7. CASE Assemble
    BY <2>7, AssembleKeeps
  <2>8. CASE PassOver
    BY <2>8, PassOverKeeps
  <2>9. CASE AddItem
    BY <2>9, AddItemKeeps
  <2>10. CASE Finish
    BY <2>10, FinishKeeps
  <2>11. CASE Terminated \/ UNCHANGED structuralVars
    BY <2>11, StructuralStays DEF Terminated
  <2> QED
    BY <2>1, <2>2, <2>3, <2>4, <2>5, <2>6, <2>7, <2>8, <2>9, <2>10, <2>11 DEF StructuralNext
<1> QED
  BY <1>1, StructuralStart, PTL DEF StructuralSpec

\* Whatever the graph, the limits and the relationships, a walk that has ended
\* says what it left out and reached every node by a shortest path
\* (Traversal::run).
THEOREM WalkHolds ==
  StructuralSpec => []WalkIsHonest
<1>1. StructuralInv => WalkIsHonest
  BY DEF StructuralInv, WalkInv
<1> QED
  BY <1>1, StructuralHolds, PTL

\* Whatever the caller edited or rebuilt, true receipts are accepted, a packet
\* is about its own snapshot and it is called sufficient only when it is
\* (PacketAssembler::assemble_structural).
THEOREM PacketHolds ==
  StructuralSpec => []PacketIsEarned
<1>1. StructuralInv => PacketIsEarned
  <2> SUFFICES ASSUME StructuralInv
               PROVE  PacketIsEarned
    OBVIOUS
  <2>1. OwnReceiptsAccepted
    BY DEF StructuralInv, RankInv, OwnReceiptsAccepted
  <2> QED
    BY <2>1, PacketIsBoundThen, SufficiencyIsEarnedThen DEF PacketIsEarned
<1> QED
  BY <1>1, StructuralHolds, PTL
================================================================================
