----------------------- MODULE HelixScheduler_proofs -----------------------
(***************************************************************************)
(* What the build scheduler guarantees for any number of jobs, workers and *)
(* slots: sort orders exactly the graphs that have an order, a dispatch    *)
(* takes one copy of the most urgent job that is counted, and no worker is *)
(* given a second job before its first is done.                            *)
(***************************************************************************)
EXTENDS HelixScheduler, FiniteSetTheorems, SequenceTheorems, TLAPS

-----------------------------------------------------------------------------
(* Minima and maxima of finite sets of numbers                                   *)

(* A set of naturals has a least element: of the intervals that end in a member, *)
(* one contains no other.                                                        *)
LEMMA LeastNat ==
  ASSUME NEW S \in SUBSET Nat, S # {}
  PROVE  \E i \in S : \A j \in S : i <= j
<1> DEFINE Below == {0..i : i \in S}
<1>1. PICK i \in S : \A s \in Below : <<s, 0..i>> \notin StrictSubsetOrdering(Nat)
  <2>1. \A j \in Nat : 0..j \in FiniteSubsetsOf(Nat)
    BY FS_Interval DEF FiniteSubsetsOf
  <2>2. Below \subseteq FiniteSubsetsOf(Nat) /\ Below # {}
    BY <2>1
  <2>3. IsWellFoundedOn(StrictSubsetOrdering(Nat), FiniteSubsetsOf(Nat))
    BY FS_StrictSubsetOrderingWellFounded
  <2> HIDE DEF Below
  <2>4. \E x \in Below : \A s \in Below : <<s, x>> \notin StrictSubsetOrdering(Nat)
    BY <2>2, <2>3, WFMin
  <2> QED BY <2>4 DEF Below
<1>2. \A j \in S : i <= j
  <2> SUFFICES ASSUME NEW j \in S, j < i PROVE FALSE
    OBVIOUS
  <2>1. 0..j \subseteq 0..i /\ i \in 0..i /\ i \notin 0..j /\ 0..i \subseteq Nat
    OBVIOUS
  <2>2. <<0..j, 0..i>> \in StrictSubsetOrdering(Nat)
    BY <2>1 DEF StrictSubsetOrdering
  <2> QED BY <1>1, <2>2
<1> QED BY <1>2

(* Of the numbers that finitely many indices have, one is the greatest: the one  *)
(* that the fewest indices exceed.                                               *)
LEMMA GreatestValue ==
  ASSUME NEW D, IsFiniteSet(D), D # {}, NEW f \in [D -> Int]
  PROVE  \E i \in D : \A j \in D : f[j] <= f[i]
<1> DEFINE Above(i) == {j \in D : f[j] > f[i]}
           Sizes == {Cardinality(Above(i)) : i \in D}
<1>1. \A i \in D : IsFiniteSet(Above(i)) /\ Cardinality(Above(i)) \in Nat
  BY FS_Subset, FS_CardinalityType
<1>2. Sizes \in SUBSET Nat /\ Sizes # {}
  BY <1>1
<1>3. PICK n \in Sizes : \A m \in Sizes : n <= m
  <2> HIDE DEF Sizes
  <2> QED BY <1>2, LeastNat
<1>4. PICK i \in D : n = Cardinality(Above(i))
  BY <1>3
<1>5. \A j \in D : Cardinality(Above(i)) <= Cardinality(Above(j))
  BY <1>3, <1>4
<1>6. ASSUME NEW j \in D, f[j] > f[i] PROVE FALSE
  <2>1. Above(j) \subseteq Above(i) /\ j \in Above(i) /\ j \notin Above(j)
    BY <1>6
  <2>2. Cardinality(Above(j)) <= Cardinality(Above(i)) /\ Cardinality(Above(j)) # Cardinality(Above(i))
    <3> HIDE DEF Above
    <3> QED BY <1>1, <2>1, FS_Subset
  <2> HIDE DEF Above
  <2> QED BY <1>1, <1>5, <2>2
<1> HIDE DEF Above
<1> QED BY <1>6

(* An interval from 1 has as many elements as its end says.                      *)
LEMMA UpTo ==
  ASSUME NEW n \in Nat
  PROVE  IsFiniteSet(1..n) /\ Cardinality(1..n) = n
BY FS_Interval

-----------------------------------------------------------------------------
(* TopoSorter                                                                    *)

(* InIndexOrder lists a set of packages, each once.                              *)
LEMMA IndexOrderLists ==
  ASSUME NEW S \in SUBSET Nat, IsFiniteSet(S)
  PROVE  /\ InIndexOrder(S) \in [1..Cardinality(S) -> S]
         /\ InIndexOrder(S) \in Seq(S)
         /\ Cardinality(S) \in Nat
         /\ Len(InIndexOrder(S)) = Cardinality(S)
         /\ \A j, k \in 1..Cardinality(S) :
              InIndexOrder(S)[j] = InIndexOrder(S)[k] => j = k
         /\ \A x \in S : \E k \in 1..Cardinality(S) : InIndexOrder(S)[k] = x
<1> DEFINE Lower(x) == {y \in S : y <= x}
           Rank(x) == Cardinality(Lower(x))
           n == Cardinality(S)
           rank == [x \in S |-> Rank(x)]
           f == InIndexOrder(S)
<1>1. n \in Nat /\ IsFiniteSet(1..n) /\ Cardinality(1..n) = n
  BY FS_CardinalityType, FS_Interval
<1>2. ASSUME NEW x \in S
      PROVE  Rank(x) \in 1..n /\ IsFiniteSet(Lower(x))
  <2>1. IsFiniteSet(Lower(x)) /\ Rank(x) <= n /\ Rank(x) \in Nat
    BY FS_Subset, FS_CardinalityType
  <2>2. Lower(x) # {}
    OBVIOUS
  <2>3. Rank(x) # 0
    <3> HIDE DEF Lower
    <3> QED BY <2>1, <2>2, FS_EmptySet
  <2> HIDE DEF Lower
  <2> QED BY <1>1, <2>1, <2>3
<1>3. ASSUME NEW x \in S, NEW y \in S, x < y
      PROVE  Rank(x) # Rank(y)
  <2>1. x \in Nat /\ y \in Nat /\ \A z \in S : z \in Nat
    OBVIOUS
  <2>2. \A z \in S : z <= x => z <= y
    BY <1>3, <2>1
  <2>3. Lower(x) \subseteq Lower(y)
    BY <2>2
  <2>4. y <= y /\ ~(y <= x)
    BY <1>3, <2>1
  <2>5. y \in Lower(y) /\ y \notin Lower(x)
    BY <2>4
  <2> HIDE DEF Lower
  <2> QED BY <1>2, <2>3, <2>5, FS_Subset
<1>4. rank \in Injection(S, 1..n)
  <2>1. rank \in [S -> 1..n]
    BY <1>2
  <2>2. \A x, y \in S : Rank(x) = Rank(y) => x = y
    <3> HIDE DEF Rank
    <3> QED BY <1>3
  <2>3. \A x \in S : rank[x] = Rank(x)
    OBVIOUS
  <2> HIDE DEF rank, Rank
  <2> QED BY <2>1, <2>2, <2>3 DEF Injection, IsInjective
<1>5. \A k \in 1..n : \E x \in S : Rank(x) = k
  <2>1. rank \in Surjection(S, 1..n)
    <3> HIDE DEF rank
    <3> QED BY <1>1, <1>4, FS_Injection
  <2> QED BY <2>1 DEF Surjection
<1>6. f = [k \in 1..n |-> CHOOSE x \in S : Rank(x) = k]
  BY DEF InIndexOrder
<1> HIDE DEF Rank, f, n
<1>7. \A k \in 1..n : f[k] \in S /\ Rank(f[k]) = k
  BY <1>5, <1>6
<1>8. f \in [1..n -> S]
  BY <1>6, <1>7
<1>9. \A j, k \in 1..n : f[j] = f[k] => j = k
  BY <1>7
<1>10. \A x \in S : \E k \in 1..n : f[k] = x
  <2> SUFFICES ASSUME NEW x \in S PROVE \E k \in 1..n : f[k] = x
    OBVIOUS
  <2>1. Rank(x) \in 1..n /\ Rank(f[Rank(x)]) = Rank(x) /\ f[Rank(x)] \in S
    BY <1>2, <1>7 DEF Rank, n
  <2>2. \A y, z \in S : Rank(y) = Rank(z) => y = z
    BY <1>3
  <2> QED BY <2>1, <2>2
<1>11. f \in Seq(S) /\ Len(f) = n
  BY <1>1, <1>8
<1> QED BY <1>1, <1>8, <1>9, <1>10, <1>11 DEF f, n

(* The parts of a graph that sort was called with.                               *)
LEMMA GraphParts ==
  ASSUME NEW g \in Graph
  PROVE  /\ g.n \in Nat /\ g.deps \in [0..g.n - 1 -> Seq(Nat)]
         /\ Nodes(g) \in SUBSET Nat /\ IsFiniteSet(Nodes(g)) /\ Cardinality(Nodes(g)) = g.n
         /\ \A i \in Nodes(g) : /\ IsFiniteSet(DOMAIN g.deps[i])
                                /\ Cardinality(DOMAIN g.deps[i]) = Len(g.deps[i])
                                /\ DOMAIN g.deps[i] = 1..Len(g.deps[i])
<1>1. g.n \in Nat /\ g.deps \in [0..g.n - 1 -> Seq(Nat)]
  BY OrderAssumption
<1>2. IsFiniteSet(0..g.n - 1) /\ Cardinality(0..g.n - 1) = g.n
  BY <1>1, FS_Interval
<1>3. ASSUME NEW i \in Nodes(g)
      PROVE  /\ IsFiniteSet(DOMAIN g.deps[i])
             /\ Cardinality(DOMAIN g.deps[i]) = Len(g.deps[i])
             /\ DOMAIN g.deps[i] = 1..Len(g.deps[i])
  <2>1. g.deps[i] \in Seq(Nat)
    BY <1>1 DEF Nodes
  <2>2. Len(g.deps[i]) \in Nat /\ DOMAIN g.deps[i] = 1..Len(g.deps[i])
    BY <2>1
  <2> QED BY <2>2, FS_Interval
<1> QED BY <1>1, <1>2, <1>3 DEF Nodes

LEMMA InitOrder == OrderInit => OrderInv
BY DEF OrderInit, OrderInv

(* The packages without dependencies are queued first.                           *)
LEMMA StartOrder == OrderInv /\ Start => OrderInv'
<1> SUFFICES ASSUME OrderInv, Start PROVE OrderInv'
  OBVIOUS
<1> DEFINE N == Nodes(graph)
           Free0 == {i \in N : graph.deps[i] = <<>>}
<1>1. /\ graph \in Graph /\ graph' = graph /\ WellFormed(graph) /\ sorting' = "running"
      /\ order = <<>> /\ visited = 0 /\ visited' = 0
      /\ degree' = [i \in N |-> Len(graph.deps[i])]
      /\ order' = InIndexOrder(Free0)
  BY DEF Start, OrderInv
<1>2. /\ graph.n \in Nat /\ N \in SUBSET Nat /\ IsFiniteSet(N)
      /\ graph.deps \in [N -> Seq(Nat)]
      /\ \A i \in N : /\ Cardinality(DOMAIN graph.deps[i]) = Len(graph.deps[i])
                      /\ DOMAIN graph.deps[i] = 1..Len(graph.deps[i])
  BY <1>1, GraphParts DEF Nodes
<1>3. Free0 \in SUBSET Nat /\ IsFiniteSet(Free0)
  BY <1>2, FS_Subset
<1>4. /\ order' \in [1..Cardinality(Free0) -> Free0] /\ order' \in Seq(Free0)
      /\ Cardinality(Free0) \in Nat /\ Len(order') = Cardinality(Free0)
      /\ \A j, k \in 1..Cardinality(Free0) : order'[j] = order'[k] => j = k
      /\ \A x \in Free0 : \E k \in 1..Cardinality(Free0) : order'[k] = x
  <2> HIDE DEF Free0
  <2> QED BY <1>1, <1>3, IndexOrderLists
<1>5. order' \in Seq(N) /\ DOMAIN order' = 1..Cardinality(Free0) /\ Range(order') = Free0
  <2>1. Free0 \subseteq N
    OBVIOUS
  <2> HIDE DEF Free0, N
  <2> QED BY <1>4, <2>1 DEF Range
<1>6. N \subseteq 0..MaxJobs - 1
  BY <1>1, <1>2, OrderAssumption DEF WellFormed, Nodes
<1>7. order' \in Seq(0..MaxJobs - 1)
  <2> HIDE DEF N
  <2> QED BY <1>5, <1>6, SeqMonotonic
<1>8. \A i \in N : Unmet(i)' = DOMAIN graph.deps[i]
  BY <1>1 DEF Unmet, Done
<1>9. \A i \in N : degree'[i] = Cardinality(Unmet(i)') /\ (degree'[i] = 0 <=> i \in Free0)
  <2> SUFFICES ASSUME NEW i \in N
               PROVE  degree'[i] = Cardinality(Unmet(i)') /\ (degree'[i] = 0 <=> i \in Free0)
    OBVIOUS
  <2>1. graph.deps[i] \in Seq(Nat)
    BY <1>2
  <2>2. Len(graph.deps[i]) = 0 <=> graph.deps[i] = <<>>
    BY <2>1
  <2> QED BY <1>1, <1>2, <1>8, <2>2
<1>10. degree' \in [N -> Int]
  <2>1. \A i \in N : Len(graph.deps[i]) \in Int
    BY <1>2
  <2> HIDE DEF N
  <2> QED BY <1>1, <2>1
<1>11. \A k \in DOMAIN order' : DependenciesOf(graph, order'[k]) = {}
  <2> SUFFICES ASSUME NEW k \in DOMAIN order' PROVE DependenciesOf(graph, order'[k]) = {}
    OBVIOUS
  <2>1. order'[k] \in Free0
    <3> HIDE DEF Free0
    <3> QED BY <1>4, <1>5
  <2>2. graph.deps[order'[k]] = <<>>
    BY <2>1
  <2> QED BY <2>2 DEF DependenciesOf, Range
<1>12. Nodes(graph)' = N
  BY <1>1 DEF Nodes
<1>13. Queued'
  <2> HIDE DEF N, Free0
  <2>1. \A i : DependenciesOf(graph, i)' = DependenciesOf(graph, i)
    BY <1>1 DEF DependenciesOf
  <2> QED BY <1>1, <1>5, <1>9, <1>10, <1>11, <1>12, <2>1 DEF Queued, DependenciesOf
<1>14. WellFormed(graph')
  BY <1>1
<1>15. visited' \in 0..Len(order')
  BY <1>1, <1>4
<1> HIDE DEF N, Free0
<1> QED BY <1>1, <1>4, <1>5, <1>7, <1>13, <1>14, <1>15 DEF OrderInv

(* A visit takes one more dependency off the packages that list it.              *)
LEMMA VisitDegrees ==
  ASSUME OrderInv, Visit, NEW i \in Nodes(graph)
  PROVE  /\ order[visited + 1] \notin Done
         /\ Done' = Done \cup {order[visited + 1]}
         /\ graph' = graph
         /\ degree' = Relaxed(order[visited + 1])
         /\ Unmet(i)' \subseteq Unmet(i)
         /\ IsFiniteSet(Unmet(i)) /\ IsFiniteSet(Unmet(i)')
         /\ degree'[i] = Cardinality(Unmet(i)')
         /\ Edges(i, order[visited + 1]) > 0 <=> Unmet(i)' # Unmet(i)
         /\ Unmet(i)' = {k \in DOMAIN graph.deps[i] : graph.deps[i][k] \notin Done'}
<1> DEFINE d == order[visited + 1]
           E == {k \in DOMAIN graph.deps[i] : graph.deps[i][k] = d}
<1>1. /\ graph \in Graph /\ graph' = graph /\ visited \in Nat /\ visited < Len(order)
      /\ visited' = visited + 1 /\ Queued /\ order \in Seq(0..MaxJobs - 1)
      /\ \A j, k \in DOMAIN order : order[j] = order[k] => j = k
      /\ degree' = Relaxed(d)
      /\ order' = order \o InIndexOrder({j \in Nodes(graph) : Edges(j, d) > 0 /\ degree'[j] = 0})
  BY DEF Visit, OrderInv
<1>2. \A k \in 1..visited + 1 : k \in DOMAIN order
  BY <1>1
<1>3. d \notin Done
  BY <1>1, <1>2 DEF Done
<1>4. \A k \in 1..visited + 1 : order'[k] = order[k]
  <2>1. order \in Seq(0..MaxJobs - 1) /\ \A k \in 1..visited + 1 : k \in 1..Len(order)
    BY <1>1
  <2> QED BY <1>1, <2>1
<1>5. Done' = Done \cup {d}
  <2>1. Done' = {order[k] : k \in 1..visited + 1}
    BY <1>1, <1>4 DEF Done
  <2> QED BY <1>1, <2>1 DEF Done
<1>6. Unmet(i)' = {k \in DOMAIN graph.deps[i] : graph.deps[i][k] \notin Done'}
  BY <1>1 DEF Unmet
<1>7. Unmet(i)' = Unmet(i) \ E /\ E \subseteq Unmet(i) /\ E \subseteq DOMAIN graph.deps[i]
  BY <1>3, <1>5, <1>6 DEF Unmet
<1>8. IsFiniteSet(Unmet(i)) /\ IsFiniteSet(E)
  <2>1. IsFiniteSet(DOMAIN graph.deps[i])
    BY <1>1, GraphParts
  <2>2. Unmet(i) \subseteq DOMAIN graph.deps[i]
    BY DEF Unmet
  <2> HIDE DEF E
  <2> QED BY <1>7, <2>1, <2>2, FS_Subset
<1>9. Edges(i, d) = Cardinality(E)
  BY DEF Edges
<1>10. IsFiniteSet(Unmet(i)') /\ Cardinality(Unmet(i)') = Cardinality(Unmet(i)) - Cardinality(E)
  <2> HIDE DEF E
  <2>1. Unmet(i) \cap E = E
    BY <1>7
  <2> QED BY <1>7, <1>8, <2>1, FS_Difference
<1>11. degree'[i] = Cardinality(Unmet(i)')
  <2>1. degree'[i] = degree[i] - Edges(i, d)
    BY <1>1 DEF Relaxed
  <2>2. degree[i] = Cardinality(Unmet(i))
    BY <1>1 DEF Queued
  <2> QED BY <1>9, <1>10, <2>1, <2>2
<1>12. Edges(i, d) > 0 <=> Unmet(i)' # Unmet(i)
  <2>1. Cardinality(E) \in Nat /\ (Cardinality(E) = 0 <=> E = {})
    <3> HIDE DEF E
    <3> QED BY <1>8, FS_EmptySet, FS_CardinalityType
  <2> HIDE DEF E
  <2>2. Cardinality(E) > 0 <=> E # {}
    BY <2>1
  <2> QED BY <1>7, <1>9, <2>2
<1> HIDE DEF d, E
<1> QED BY <1>1, <1>3, <1>5, <1>6, <1>7, <1>8, <1>10, <1>11, <1>12 DEF d

(* The packages that a visit queues are new, and behind all they depend on.      *)
LEMMA VisitOrder == OrderInv /\ Visit => OrderInv'
<1> SUFFICES ASSUME OrderInv, Visit PROVE OrderInv'
  OBVIOUS
<1> DEFINE N == Nodes(graph)
           d == order[visited + 1]
           Fresh == {i \in N : Edges(i, d) > 0 /\ degree'[i] = 0}
           n == Len(order)
           m == Cardinality(Fresh)
           more == InIndexOrder(Fresh)
<1>1. /\ graph \in Graph /\ graph' = graph /\ WellFormed(graph)
      /\ sorting = "running" /\ sorting' = "running"
      /\ visited \in Nat /\ visited < n /\ visited' = visited + 1 /\ Queued
      /\ order' = order \o more /\ degree' = Relaxed(d)
      /\ \A j, k \in DOMAIN order : order[j] = order[k] => j = k
  BY DEF Visit, OrderInv
<1>2. /\ N \in SUBSET Nat /\ IsFiniteSet(N) /\ N \subseteq 0..MaxJobs - 1
      /\ order \in Seq(N) /\ n \in Nat /\ DOMAIN order = 1..n
  <2>1. N \in SUBSET Nat /\ IsFiniteSet(N) /\ graph.n \in Nat
    BY <1>1, GraphParts
  <2>2. N \subseteq 0..MaxJobs - 1
    BY <1>1, <2>1, OrderAssumption DEF WellFormed, Nodes
  <2> QED BY <1>1, <2>1, <2>2 DEF Queued
<1>3. Fresh \in SUBSET Nat /\ IsFiniteSet(Fresh) /\ Fresh \subseteq N
  BY <1>2, FS_Subset
<1>4. /\ more \in [1..m -> Fresh] /\ more \in Seq(Fresh) /\ m \in Nat /\ Len(more) = m
      /\ \A j, k \in 1..m : more[j] = more[k] => j = k
      /\ \A x \in Fresh : \E k \in 1..m : more[k] = x
  <2> HIDE DEF Fresh
  <2> QED BY <1>3, IndexOrderLists
<1> HIDE DEF N, Fresh, n, m, more
<1>5. more \in Seq(N)
  BY <1>3, <1>4, SeqMonotonic
<1>6. /\ order' \in Seq(N) /\ Len(order') = n + m
      /\ \A k \in 1..n : order'[k] = order[k]
      /\ \A k \in n + 1..n + m : order'[k] = more[k - n] /\ k - n \in 1..m
  <2>1. /\ order \o more \in Seq(N) /\ Len(order \o more) = Len(order) + Len(more)
        /\ \A k \in 1..Len(order) + Len(more) :
             (order \o more)[k] = IF k <= Len(order) THEN order[k] ELSE more[k - Len(order)]
    BY <1>2, <1>5, ConcatProperties
  <2>2. Len(order) = n
    BY DEF n
  <2>3. \A k \in 1..n : k \in 1..n + m /\ k <= n
    BY <1>2, <1>4
  <2>4. \A k \in n + 1..n + m : k \in 1..n + m /\ ~(k <= n) /\ k - n \in 1..m
    BY <1>2, <1>4
  <2> QED BY <1>1, <1>4, <2>1, <2>2, <2>3, <2>4
<1>7. order' \in Seq(0..MaxJobs - 1)
  BY <1>2, <1>6, SeqMonotonic
<1>8. \A i \in N : /\ d \notin Done /\ Done' = Done \cup {d}
                   /\ Unmet(i)' \subseteq Unmet(i) /\ IsFiniteSet(Unmet(i)) /\ IsFiniteSet(Unmet(i)')
                   /\ degree[i] = Cardinality(Unmet(i)) /\ degree'[i] = Cardinality(Unmet(i)')
                   /\ (Edges(i, d) > 0 <=> Unmet(i)' # Unmet(i))
                   /\ Unmet(i)' = {k \in DOMAIN graph.deps[i] : graph.deps[i][k] \notin Done'}
                   /\ (degree[i] = 0 <=> i \in Range(order))
  BY <1>1, VisitDegrees DEF Queued, N
<1>9. \A i \in N : /\ (degree[i] = 0 <=> Unmet(i) = {}) /\ (degree'[i] = 0 <=> Unmet(i)' = {})
                   /\ degree'[i] \in Int
  BY <1>8, FS_EmptySet, FS_CardinalityType
<1>10. \A i \in Fresh : i \in N /\ i \notin Range(order) /\ Unmet(i)' = {}
  BY <1>3, <1>8, <1>9 DEF Fresh
<1>11. \A i \in N : degree'[i] = 0 <=> i \in Range(order) \/ i \in Fresh
  BY <1>8, <1>9 DEF Fresh
<1>12. Range(order') = Range(order) \cup Fresh
  <2>1. DOMAIN order' = 1..n + m
    BY <1>6
  <2>2. \A x \in Range(order) : \E k \in 1..n : order[k] = x
    BY <1>2 DEF Range
  <2>3. \A x \in Range(order) \cup Fresh : \E k \in 1..n + m : order'[k] = x
    <3>1. ASSUME NEW x \in Range(order) PROVE \E k \in 1..n + m : order'[k] = x
      <4>1. PICK k \in 1..n : order[k] = x
        BY <2>2
      <4>2. k \in 1..n + m
        BY <1>2, <1>4
      <4> QED BY <1>6, <4>1, <4>2
    <3>2. ASSUME NEW x \in Fresh PROVE \E k \in 1..n + m : order'[k] = x
      <4>1. PICK k \in 1..m : more[k] = x
        BY <1>4
      <4>2. n + k \in n + 1..n + m /\ n + k \in 1..n + m /\ (n + k) - n = k
        BY <1>2, <1>4
      <4> QED BY <1>6, <4>1, <4>2
    <3> QED BY <3>1, <3>2
  <2>4. \A k \in 1..n + m : order'[k] \in Range(order) \cup Fresh
    <3> SUFFICES ASSUME NEW k \in 1..n + m PROVE order'[k] \in Range(order) \cup Fresh
      OBVIOUS
    <3>1. CASE k \in 1..n
      BY <1>2, <1>6, <3>1 DEF Range
    <3>2. CASE k \in n + 1..n + m
      BY <1>4, <1>6, <3>2
    <3> QED BY <1>2, <1>4, <3>1, <3>2
  <2> QED BY <2>1, <2>3, <2>4 DEF Range
<1>13. \A j, k \in DOMAIN order' : order'[j] = order'[k] => j = k
  <2> SUFFICES ASSUME NEW j \in 1..n + m, NEW k \in 1..n + m, order'[j] = order'[k]
               PROVE  j = k
    BY <1>6
  <2>1. CASE j \in 1..n /\ k \in 1..n
    BY <1>1, <1>2, <1>6, <2>1
  <2>2. CASE j \in n + 1..n + m /\ k \in n + 1..n + m
    <3>1. j - n = k - n
      BY <1>4, <1>6, <2>2
    <3> QED BY <1>2, <1>4, <3>1
  <2>3. CASE j \in 1..n /\ k \in n + 1..n + m
    <3>1. order'[j] \in Range(order) /\ order'[k] \in Fresh
      BY <1>2, <1>4, <1>6, <2>3 DEF Range
    <3> QED BY <1>10, <3>1
  <2>4. CASE j \in n + 1..n + m /\ k \in 1..n
    <3>1. order'[k] \in Range(order) /\ order'[j] \in Fresh
      BY <1>2, <1>4, <1>6, <2>4 DEF Range
    <3> QED BY <1>10, <3>1
  <2> QED BY <1>2, <1>4, <2>1, <2>2, <2>3, <2>4
<1>14. Done' \subseteq {order'[j] : j \in 1..n}
  <2>1. Done' = {order'[j] : j \in 1..visited + 1}
    BY <1>1 DEF Done
  <2> QED BY <1>1, <1>2, <2>1
<1>15. ASSUME NEW k \in DOMAIN order'
       PROVE  DependenciesOf(graph, order'[k]) \subseteq {order'[j] : j \in 1..k - 1}
  <2>1. CASE k \in 1..n
    <3>1. DependenciesOf(graph, order[k]) \subseteq {order[j] : j \in 1..k - 1}
      BY <1>1, <1>2, <2>1 DEF Queued
    <3>2. \A j \in 1..k - 1 : j \in 1..n
      BY <1>2, <2>1
    <3> QED BY <1>6, <2>1, <3>1, <3>2
  <2>2. CASE k \in n + 1..n + m
    <3>1. order'[k] \in Fresh
      BY <1>4, <1>6, <2>2
    <3>2. \A l \in DOMAIN graph.deps[order'[k]] : graph.deps[order'[k]][l] \in Done'
      BY <1>8, <1>10, <3>1
    <3>3. DependenciesOf(graph, order'[k]) \subseteq Done'
      BY <3>2 DEF DependenciesOf, Range
    <3>4. \A j \in 1..n : j \in 1..k - 1
      BY <1>2, <1>4, <2>2
    <3> QED BY <1>14, <3>3, <3>4
  <2> QED BY <1>2, <1>4, <1>6, <2>1, <2>2
<1>16. degree' \in [N -> Int]
  <2>1. degree' = [i \in N |-> degree[i] - Edges(i, d)]
    BY <1>1 DEF Relaxed, N
  <2> QED BY <1>9, <2>1
<1>17. Nodes(graph)' = N
  BY <1>1 DEF N, Nodes
<1>18. Queued'
  <2>1. \A x : DependenciesOf(graph, x)' = DependenciesOf(graph, x)
    BY <1>1 DEF DependenciesOf
  <2> HIDE DEF d
  <2> QED BY <1>1, <1>6, <1>8, <1>11, <1>12, <1>15, <1>16, <1>17, <2>1
       DEF Queued, DependenciesOf
<1>19. visited' \in 0..Len(order')
  BY <1>1, <1>2, <1>4, <1>6
<1> QED BY <1>1, <1>7, <1>13, <1>18, <1>19 DEF OrderInv

(* sort leaves its order as it is when it returns.                               *)
LEMMA OrderKept == OrderInv /\ (Sort \/ UNCHANGED sorter) => OrderInv'
<1> SUFFICES ASSUME OrderInv, Sort \/ UNCHANGED sorter PROVE OrderInv'
  OBVIOUS
<1>1. CASE Refuse
  BY <1>1 DEF Refuse, OrderInv
<1>2. CASE FinishSort
  BY <1>2 DEF FinishSort, OrderInv
<1>3. CASE UNCHANGED sorter
  <2>1. /\ graph' = graph /\ sorting' = sorting /\ degree' = degree /\ order' = order
        /\ visited' = visited
    BY <1>3 DEF sorter
  <2>2. /\ Nodes(graph)' = Nodes(graph) /\ Range(order)' = Range(order)
        /\ \A x : DependenciesOf(graph, x)' = DependenciesOf(graph, x) /\ Unmet(x)' = Unmet(x)
    BY <2>1 DEF Unmet, Done, Nodes, DependenciesOf
  <2>3. ASSUME Queued PROVE Queued'
    <3>1. order' \in Seq(Nodes(graph)') /\ degree' \in [Nodes(graph)' -> Int]
      BY <2>1, <2>2, <2>3 DEF Queued
    <3>2. \A i \in Nodes(graph) : degree[i] = Cardinality(Unmet(i)')
      BY <2>2, <2>3 DEF Queued
    <3>3. \A i \in Nodes(graph) : degree[i] = 0 <=> i \in Range(order)'
      BY <2>2, <2>3 DEF Queued
    <3>4. \A k \in DOMAIN order : DependenciesOf(graph, order[k]) \subseteq {order[j] : j \in 1..k - 1}
      BY <2>3 DEF Queued
    <3>5. \A x : DependenciesOf(graph', x) = DependenciesOf(graph, x)
      BY <2>1 DEF DependenciesOf
    <3> QED BY <2>1, <2>2, <3>1, <3>2, <3>3, <3>4, <3>5 DEF Queued
  <2> QED BY <2>1, <2>3 DEF OrderInv
<1> QED BY <1>1, <1>2, <1>3, StartOrder, VisitOrder DEF Sort

(* When nothing is left to visit, either every package is in the order, or the    *)
(* packages that are not in it wait for each other.                              *)
LEMMA FinishCorrect ==
  ASSUME OrderInv, FinishSort
  PROVE  /\ sorting' = "sorted" => Builds(graph, order')
         /\ sorting' = "refused" => ~Acyclic(graph)
<1> DEFINE N == Nodes(graph)
<1>1. /\ graph \in Graph /\ WellFormed(graph) /\ Queued
      /\ visited = Len(order) /\ order' = order
      /\ sorting' = IF visited = graph.n THEN "sorted" ELSE "refused"
      /\ \A j, k \in DOMAIN order : order[j] = order[k] => j = k
  BY DEF FinishSort, OrderInv
<1>2. /\ IsFiniteSet(N) /\ Cardinality(N) = graph.n /\ order \in Seq(N)
      /\ Len(order) \in Nat /\ DOMAIN order = 1..Len(order)
      /\ IsFiniteSet(1..Len(order)) /\ Cardinality(1..Len(order)) = Len(order)
  <2>1. IsFiniteSet(N) /\ Cardinality(N) = graph.n
    BY <1>1, GraphParts
  <2>2. order \in Seq(N)
    BY <1>1 DEF Queued
  <2>3. Len(order) \in Nat /\ DOMAIN order = 1..Len(order)
    BY <2>2
  <2>4. IsFiniteSet(1..Len(order)) /\ Cardinality(1..Len(order)) = Len(order)
    BY <2>3, UpTo
  <2> QED BY <2>1, <2>2, <2>3, <2>4
<1>3. order \in Injection(1..Len(order), N)
  BY <1>1, <1>2 DEF Injection, IsInjective
<1>4. Range(order) \subseteq N
  BY <1>2 DEF Range
<1> HIDE DEF N
<1>5. Len(order) = graph.n <=> Range(order) = N
  <2>1. Len(order) = graph.n <=> order \in Surjection(1..Len(order), N)
    BY <1>2, <1>3, FS_Injection
  <2>2. order \in Surjection(1..Len(order), N) <=> Range(order) = N
    BY <1>2, <1>4 DEF Surjection, Range
  <2> QED BY <2>1, <2>2
<1>6. ASSUME sorting' = "sorted" PROVE Builds(graph, order')
  BY <1>1, <1>5, <1>6 DEF Builds, Queued, N
<1>7. ASSUME sorting' = "refused" PROVE ~Acyclic(graph)
  <2> DEFINE S == N \ Range(order)
  <2>1. S # {} /\ S \subseteq N
    BY <1>1, <1>4, <1>5, <1>7
  <2>2. ASSUME NEW i \in S PROVE DependenciesOf(graph, i) \cap S # {}
    <3>1. i \in N /\ degree[i] # 0 /\ degree[i] = Cardinality(Unmet(i))
      BY <1>1 DEF Queued, N
    <3>2. Unmet(i) # {}
      BY <3>1, FS_EmptySet
    <3>3. PICK k \in DOMAIN graph.deps[i] : graph.deps[i][k] \notin Done
      BY <3>2 DEF Unmet
    <3>4. Done = Range(order)
      BY <1>1, <1>2 DEF Done, Range
    <3>5. graph.deps[i][k] \in DependenciesOf(graph, i)
      BY DEF DependenciesOf, Range
    <3>6. DependenciesOf(graph, i) \subseteq N
      BY <1>1, <3>1 DEF WellFormed, N
    <3> QED BY <3>3, <3>4, <3>5, <3>6
  <2> HIDE DEF S
  <2>3. N = Nodes(graph)
    BY DEF N
  <2>4. S \in (SUBSET Nodes(graph)) \ {{}}
    BY <2>1, <2>3
  <2> QED BY <2>2, <2>4 DEF Acyclic
<1> QED BY <1>6, <1>7

-----------------------------------------------------------------------------
(* WorkQueue                                                                     *)

(* A position of the ring is a slot, no later than itself.                       *)
LEMMA SlotOf ==
  ASSUME NEW a \in Nat
  PROVE  a % Capacity \in 0..Capacity - 1 /\ a % Capacity <= a
BY HelixAssumption

(* Positions less than a round apart share no slot.                              *)
LEMMA SlotsDiffer ==
  ASSUME NEW a \in Nat, NEW b \in Nat, a < b, b < a + Capacity
  PROVE  a % Capacity # b % Capacity
<1> SUFFICES ASSUME a % Capacity = b % Capacity PROVE FALSE
  OBVIOUS
<1> DEFINE p == a \div Capacity
           q == b \div Capacity
<1>1. Capacity \in Nat /\ Capacity > 0
  BY HelixAssumption
<1>2. /\ p \in Int /\ q \in Int
      /\ a = (Capacity * p) + (a % Capacity) /\ b = (Capacity * q) + (b % Capacity)
      /\ a % Capacity \in Int
  BY <1>1
<1> HIDE DEF p, q
<1>3. b - a = Capacity * (q - p)
  BY <1>1, <1>2
<1>4. CASE q - p >= 1
  <2>1. Capacity * (q - p) >= Capacity
    BY <1>1, <1>2, <1>4
  <2> QED BY <1>1, <1>3, <2>1
<1>5. CASE q - p <= 0
  <2>1. Capacity * (q - p) <= 0
    BY <1>1, <1>2, <1>5
  <2> QED BY <1>1, <1>3, <2>1
<1> QED BY <1>2, <1>4, <1>5

(* The parts of HelixInv and RingInv that are about the ring.                    *)
RingPart ==
  /\ jobs \in [0..Capacity - 1 -> Job \cup {Empty}]
  /\ head \in Nat /\ count \in 0..Capacity /\ tail \in Nat /\ head + count <= tail
  /\ \A s \in 0..Capacity - 1 : s < tail => jobs[s] \in Put

(* The other parts.                                                              *)
WorkPart ==
  /\ enqueued \in 0..Len(order) /\ (sorting # "sorted" => enqueued = 0)
  /\ jobCount \in 0..MaxJobs
  /\ deque \in [Worker -> Seq(Job)] /\ building \in [Worker -> Seq(Job)]
  /\ \A w \in Worker : Len(deque[w]) <= 1 /\ Range(deque[w]) \subseteq given
  /\ activeWorkers \in 1..Started
  /\ given \subseteq Put /\ given \subseteq Job

LEMMA RingParts ==
  /\ RingInv <=> OrderInv /\ RingPart /\ WorkPart
  /\ OrderInv' /\ RingPart' /\ WorkPart' => RingInv'
<1>1. RingInv <=> OrderInv /\ RingPart /\ WorkPart
  BY DEF RingInv, HelixInv, RingPart, WorkPart, OrderInv
<1>2. OrderInv' /\ RingPart' /\ WorkPart' => RingInv'
  BY DEF RingInv, HelixInv, RingPart, WorkPart, OrderInv
<1> QED BY <1>1, <1>2

(* What was put in are jobs.                                                     *)
LEMMA PutAreJobs ==
  ASSUME OrderInv, enqueued \in 0..Len(order)
  PROVE  /\ Put \subseteq Job /\ Job = 0..MaxJobs - 1 /\ Job \subseteq Int
         /\ order \in Seq(Job) /\ Len(order) \in Nat /\ DOMAIN order = 1..Len(order)
         /\ \A j, k \in 1..Len(order) : order[j] = order[k] => j = k
<1>1. Job = 0..MaxJobs - 1 /\ MaxJobs \in Nat
  BY HelixAssumption, OrderAssumption DEF Job
<1>2. order \in Seq(Job)
  BY <1>1 DEF OrderInv
<1>3. Len(order) \in Nat /\ DOMAIN order = 1..Len(order)
  BY <1>2
<1>4. Put \subseteq Job
  BY <1>2, <1>3 DEF Put
<1>5. Job \subseteq Int
  BY <1>1
<1> QED BY <1>1, <1>2, <1>3, <1>4, <1>5 DEF OrderInv

(* The counted part of the ring was written, in slots of its own.                *)
LEMMA WindowWritten ==
  ASSUME RingPart
  PROVE  /\ \A i \in 0..count - 1 :
              Slot(i) \in 0..Capacity - 1 /\ Window[i] = jobs[Slot(i)] /\ Window[i] \in Put
         /\ \A i, k \in 0..count - 1 : Slot(i) = Slot(k) => i = k
         /\ Waiting = {Window[i] : i \in 0..count - 1}
         /\ Waiting \subseteq Put
<1>1. ASSUME NEW i \in 0..count - 1
      PROVE  Slot(i) \in 0..Capacity - 1 /\ Window[i] = jobs[Slot(i)] /\ Window[i] \in Put
  <2>1. head + i \in Nat /\ head + i < tail
    BY DEF RingPart
  <2>2. Slot(i) \in 0..Capacity - 1 /\ Slot(i) <= head + i /\ Slot(i) \in Int
    BY <2>1, SlotOf DEF Slot
  <2>3. Slot(i) < tail
    BY <2>1, <2>2 DEF RingPart
  <2> QED BY <2>2, <2>3 DEF RingPart, Window
<1>2. ASSUME NEW i \in 0..count - 1, NEW k \in 0..count - 1, i < k
      PROVE  Slot(i) # Slot(k)
  <2>1. head + i \in Nat /\ head + k \in Nat /\ head + i < head + k /\ head + k < head + i + Capacity
    BY <1>2, HelixAssumption DEF RingPart
  <2> QED BY <2>1, SlotsDiffer DEF Slot
<1>3. \A i, k \in 0..count - 1 : Slot(i) = Slot(k) => i = k
  BY <1>2 DEF RingPart
<1>4. Waiting = {Window[i] : i \in 0..count - 1}
  BY DEF Waiting, Window, Range
<1> QED BY <1>1, <1>3, <1>4

(* pop_priority finds a job that no waiting one precedes.                        *)
LEMMA BestIsBest ==
  ASSUME OrderInv, RingPart, WorkPart, count > 0
  PROVE  /\ Best \in 0..count - 1
         /\ \A k \in 0..count - 1 : Priority[Window[k]] <= Priority[Window[Best]]
<1> DEFINE D == 0..count - 1
           f == [k \in D |-> Priority[Window[k]]]
<1>1. count \in Nat /\ D # {} /\ IsFiniteSet(D)
  <2>1. count \in Nat /\ 0 \in D /\ count - 1 \in Int
    BY HelixAssumption DEF RingPart
  <2>2. IsFiniteSet(0..count - 1)
    <3> DEFINE c == count - 1
    <3>1. c \in Int
      BY <2>1
    <3> HIDE DEF c
    <3>2. IsFiniteSet(0..c)
      BY <3>1, FS_Interval
    <3> QED BY <3>2 DEF c
  <2> QED BY <2>1, <2>2
<1>2. f \in [D -> Int]
  <2>1. \A k \in D : Window[k] \in Job
    BY WindowWritten, PutAreJobs DEF WorkPart
  <2> QED BY <2>1, HelixAssumption DEF Job
<1>3. PICK m \in D : \A k \in D : f[k] <= f[m]
  <2> HIDE DEF D, f
  <2> QED BY <1>1, <1>2, GreatestValue
<1> DEFINE T == {k \in D : f[k] = f[m]}
<1>4. T \in SUBSET Nat /\ T # {}
  BY <1>1
<1>5. PICK i \in T : \A k \in T : i <= k
  <2> HIDE DEF T
  <2> QED BY <1>4, LeastNat
<1>6. i \in D /\ f[i] = f[m]
  BY <1>5
<1>7. ASSUME NEW k \in D
      PROVE  f[k] <= f[i] /\ (k < i => f[k] < f[i])
  <2>1. f[k] \in Int /\ f[i] \in Int /\ f[k] <= f[i]
    <3> HIDE DEF f
    <3> QED BY <1>2, <1>3, <1>6
  <2>2. ASSUME k < i, f[k] = f[i] PROVE FALSE
    <3>1. k \in T
      BY <1>6, <2>2
    <3>2. i <= k /\ i \in Nat /\ k \in Nat
      BY <1>1, <1>5, <1>6, <3>1
    <3> QED BY <2>2, <3>2
  <2> HIDE DEF f
  <2> QED BY <2>1, <2>2
<1>8. \A k \in D :
        /\ Priority[Window[k]] <= Priority[Window[i]]
        /\ k < i => Priority[Window[k]] < Priority[Window[i]]
  BY <1>6, <1>7
<1>9. \E x \in 0..count - 1 : \A k \in 0..count - 1 :
        /\ Priority[Window[k]] <= Priority[Window[x]]
        /\ k < x => Priority[Window[k]] < Priority[Window[x]]
  BY <1>6, <1>8
<1>10. Best \in 0..count - 1 /\ \A k \in 0..count - 1 :
         /\ Priority[Window[k]] <= Priority[Window[Best]]
         /\ k < Best => Priority[Window[k]] < Priority[Window[Best]]
  BY <1>9 DEF Best
<1> QED BY <1>10

(* A job that is pushed is new.                                                  *)
LEMMA PushKeeps ==
  ASSUME OrderInv, RingPart, WorkPart, MayPush, ~Full, Push(NextJob),
         enqueued' = enqueued + 1, order' = order, given' = given
  PROVE  /\ RingPart' /\ enqueued' \in 0..Len(order) /\ NextJob \in Job
         /\ NextJob \notin Put /\ Put' = Put \cup {NextJob}
<1>1. /\ order \in Seq(Job) /\ Put \subseteq Job /\ Len(order) \in Nat
      /\ enqueued \in Nat /\ enqueued < Len(order) /\ given \subseteq Put
      /\ \A j, k \in 1..Len(order) : order[j] = order[k] => j = k
  BY PutAreJobs DEF WorkPart, MayPush
<1>2. NextJob = order[enqueued + 1] /\ NextJob \in Job
  BY <1>1 DEF NextJob
<1>3. NextJob \notin Put /\ Put' = Put \cup {NextJob}
  <2>1. Put' = {order[k] : k \in 1..enqueued + 1}
    BY DEF Put
  <2> QED BY <1>1, <1>2, <2>1 DEF Put
<1>4. /\ head \in Nat /\ count \in Nat /\ count < Capacity /\ Capacity \in Nat /\ tail \in Nat
      /\ head + count <= tail
      /\ head' = head /\ count' = count + 1 /\ tail' = tail + 1
      /\ jobs' = [jobs EXCEPT ![tail % Capacity] = NextJob]
      /\ jobs \in [0..Capacity - 1 -> Job \cup {Empty}]
      /\ tail % Capacity \in 0..Capacity - 1 /\ tail % Capacity <= tail
  <2>1. /\ head \in Nat /\ count \in Nat /\ count < Capacity /\ Capacity \in Nat /\ tail \in Nat
        /\ head + count <= tail
        /\ jobs \in [0..Capacity - 1 -> Job \cup {Empty}]
    BY HelixAssumption DEF RingPart, Full
  <2>2. tail % Capacity \in 0..Capacity - 1 /\ tail % Capacity <= tail
    BY <2>1, SlotOf
  <2> QED BY <2>1, <2>2 DEF Push
<1>5. jobs' \in [0..Capacity - 1 -> Job \cup {Empty}]
  BY <1>2, <1>4
<1>6. \A s \in 0..Capacity - 1 : s < tail' => jobs'[s] \in Put'
  <2> SUFFICES ASSUME NEW s \in 0..Capacity - 1, s < tail + 1 PROVE jobs'[s] \in Put'
    BY <1>4
  <2>1. CASE s = tail % Capacity
    BY <1>3, <1>4, <2>1
  <2>2. CASE s # tail % Capacity
    <3>1. s < tail
      <4>1. ASSUME s = tail PROVE FALSE
        BY <1>4, <2>2, <4>1
      <4> QED BY <1>4, <4>1
    <3> QED BY <1>3, <1>4, <2>2, <3>1 DEF RingPart
  <2> QED BY <2>1, <2>2
<1>7. head' + count' <= tail' /\ count' \in 0..Capacity /\ enqueued' \in 0..Len(order)
  BY <1>1, <1>4
<1> QED BY <1>2, <1>3, <1>4, <1>5, <1>6, <1>7 DEF RingPart

(* A client that pops takes the first job.                                       *)
LEMMA PopKeeps ==
  ASSUME OrderInv, RingPart, WorkPart, PopDirectly
  PROVE  RingPart'
<1>1. /\ head \in Nat /\ count \in Nat /\ count > 0 /\ tail \in Nat /\ head + count <= tail
      /\ count <= Capacity /\ Capacity \in Nat
      /\ head' = head + 1 /\ count' = count - 1 /\ tail' = tail /\ jobs' = jobs
      /\ enqueued' = enqueued /\ order' = order /\ given' = given
  BY HelixAssumption DEF RingPart, PopDirectly, sorter, client
<1>2. Put' = Put
  BY <1>1 DEF Put
<1>3. head' + count' <= tail' /\ count' \in 0..Capacity /\ head' \in Nat
  BY <1>1
<1> QED BY <1>1, <1>2, <1>3 DEF RingPart

(* pop_priority takes the best job, whatever fills its place.                    *)
LEMMA PopPriorityKeeps ==
  ASSUME OrderInv, RingPart, WorkPart, count > 0, PopPriority,
         enqueued' = enqueued, order' = order, given' = given \cup {Window[Best]}
  PROVE  RingPart' /\ Window[Best] \in Put
<1>1. /\ head \in Nat /\ count \in Nat /\ count > 0 /\ tail \in Nat /\ head + count <= tail
      /\ count <= Capacity /\ Capacity \in Nat
      /\ head' = head /\ count' = count - 1 /\ tail' = tail
      /\ jobs' = [jobs EXCEPT ![Slot(Best)] = jobs[Slot(count - 1)]]
      /\ jobs \in [0..Capacity - 1 -> Job \cup {Empty}]
      /\ count - 1 \in 0..count - 1
  BY HelixAssumption DEF RingPart, PopPriority
<1>2. Put' = Put
  BY DEF Put
<1>3. Best \in 0..count - 1
  BY BestIsBest
<1>4. /\ \A i \in 0..count - 1 :
           Slot(i) \in 0..Capacity - 1 /\ Window[i] = jobs[Slot(i)] /\ Window[i] \in Put
      /\ \A i, k \in 0..count - 1 : Slot(i) = Slot(k) => i = k
      /\ Waiting = {Window[i] : i \in 0..count - 1}
  BY WindowWritten
<1>5. Window[Best] \in Put
  BY <1>3, <1>4
<1>6. jobs' \in [0..Capacity - 1 -> Job \cup {Empty}]
  BY <1>1, <1>3, <1>4
<1>7. \A s \in 0..Capacity - 1 : s < tail' => jobs'[s] \in Put'
  BY <1>1, <1>2, <1>4 DEF RingPart
<1>8. head' + count' <= tail' /\ count' \in 0..Capacity
  BY <1>1
<1> QED BY <1>1, <1>5, <1>6, <1>7, <1>8 DEF RingPart

(* pop_priority takes one copy of a job that no counted one precedes: the last    *)
(* counted slot stands in for the one it took, the others stay as they are.       *)
LEMMA PopPriorityTakesOne ==
  ASSUME OrderInv, RingPart, WorkPart, count > 0, PopPriority
  PROVE  /\ Window[Best] \in Waiting
         /\ \A k \in Waiting : Priority[k] <= Priority[Window[Best]]
         /\ \A k \in Job :
              CopiesOf(k)' = IF k = Window[Best] THEN CopiesOf(k) - 1 ELSE CopiesOf(k)
<1>1. /\ count \in Nat /\ count > 0
      /\ head' = head /\ count' = count - 1
      /\ jobs' = [jobs EXCEPT ![Slot(Best)] = jobs[Slot(count - 1)]]
      /\ jobs \in [0..Capacity - 1 -> Job \cup {Empty}]
      /\ count - 1 \in 0..count - 1
  BY HelixAssumption DEF RingPart, PopPriority
<1>2. /\ Best \in 0..count - 1
      /\ \A k \in 0..count - 1 : Priority[Window[k]] <= Priority[Window[Best]]
  BY BestIsBest
<1>3. /\ \A i \in 0..count - 1 :
           Slot(i) \in 0..Capacity - 1 /\ Window[i] = jobs[Slot(i)] /\ Window[i] \in Put
      /\ \A i, k \in 0..count - 1 : Slot(i) = Slot(k) => i = k
      /\ Waiting = {Window[i] : i \in 0..count - 1}
  BY WindowWritten
<1>4. ASSUME NEW i \in 0..count' - 1
      PROVE  /\ i \in 0..count - 1 /\ i # count - 1
             /\ Window'[i] = IF i = Best THEN Window[count - 1] ELSE Window[i]
  <2>1. i \in 0..count - 1 /\ i # count - 1
    BY <1>1
  <2>2. Window'[i] = jobs'[Slot(i)]
    BY <1>1 DEF Window, Slot
  <2> QED BY <1>1, <1>2, <1>3, <2>1, <2>2
<1>5. \A i \in 0..count - 1 : i # count - 1 => i \in 0..count' - 1
  BY <1>1
<1>6. ASSUME NEW k \in Job
      PROVE  CopiesOf(k)' = IF k = Window[Best] THEN CopiesOf(k) - 1 ELSE CopiesOf(k)
  <2> DEFINE A == {i \in 0..count - 1 : Window[i] = k}
             B == {i \in 0..count' - 1 : Window'[i] = k}
             C == A \ {Best}
             g == [i \in C |-> IF i = count - 1 THEN Best ELSE i]
  <2>1. CopiesOf(k) = Cardinality(A) /\ CopiesOf(k)' = Cardinality(B)
    BY DEF CopiesOf
  <2>2. IsFiniteSet(A)
    <3>1. IsFiniteSet(0..count - 1)
      <4> DEFINE c == count - 1
      <4>1. c \in Int
        BY <1>1
      <4> HIDE DEF c
      <4>2. IsFiniteSet(0..c)
        BY <4>1, FS_Interval
      <4> QED BY <4>2 DEF c
    <3> QED BY <3>1, FS_Subset
  <2>3. g \in [C -> B]
    <3> SUFFICES ASSUME NEW i \in C PROVE (IF i = count - 1 THEN Best ELSE i) \in B
      OBVIOUS
    <3>1. CASE i = count - 1
      <4>1. Best \in 0..count' - 1
        BY <1>2, <1>5, <3>1
      <4> QED BY <1>4, <3>1, <4>1
    <3>2. CASE i # count - 1
      <4>1. i \in 0..count' - 1
        BY <1>5, <3>2
      <4> QED BY <1>4, <3>2, <4>1
    <3> QED BY <3>1, <3>2
  <2>4. \A i, j \in C : g[i] = g[j] => i = j
    OBVIOUS
  <2>5. \A m \in B : \E i \in C : g[i] = m
    <3> SUFFICES ASSUME NEW m \in B PROVE \E i \in C : g[i] = m
      OBVIOUS
    <3>1. /\ m \in 0..count - 1 /\ m # count - 1 /\ Window'[m] = k
          /\ Window'[m] = IF m = Best THEN Window[count - 1] ELSE Window[m]
      BY <1>4
    <3>2. CASE m = Best
      <4>1. count - 1 \in C
        BY <1>1, <3>1, <3>2
      <4>2. g[count - 1] = m
        BY <3>2, <4>1
      <4> QED BY <4>1, <4>2
    <3>3. CASE m # Best
      <4>1. m \in C
        BY <3>1, <3>3
      <4>2. g[m] = m
        BY <3>1, <4>1
      <4> QED BY <4>1, <4>2
    <3> QED BY <3>2, <3>3
  <2>6. IsFiniteSet(C)
    BY <2>2, FS_Difference
  <2> HIDE DEF g, B
  <2>7. Cardinality(B) = Cardinality(C)
    <3> HIDE DEF C
    <3>1. g \in Bijection(C, B)
      BY <2>3, <2>4, <2>5 DEF Bijection, Injection, Surjection, IsInjective
    <3>2. ExistsBijection(C, B)
      BY <3>1 DEF ExistsBijection
    <3> QED BY <2>6, <3>2, FS_Bijection
  <2>8. Cardinality(C) = IF Best \in A THEN Cardinality(A) - 1 ELSE Cardinality(A)
    <3> HIDE DEF A
    <3> QED BY <2>2, FS_RemoveElement
  <2>9. Best \in A <=> k = Window[Best]
    BY <1>2
  <2> HIDE DEF A, C
  <2> QED BY <2>1, <2>7, <2>8, <2>9
<1> QED BY <1>2, <1>3, <1>6

-----------------------------------------------------------------------------
(* The workers                                                                   *)

(* The free worker of a dispatch is one.                                         *)
LEMMA FreeWorkerIsFree ==
  ASSUME WorkPart, Free # {}
  PROVE  FreeWorker \in Worker /\ FreeWorker \in 0..activeWorkers - 1 /\ deque[FreeWorker] = <<>>
<1>1. activeWorkers \in Nat /\ activeWorkers <= Started /\ Started \in Nat
  BY HelixAssumption DEF WorkPart
<1>2. Free \in SUBSET Nat /\ Free \subseteq 0..activeWorkers - 1
  BY DEF Free
<1>3. \E w \in Free : \A v \in Free : w <= v
  BY <1>2, LeastNat
<1>4. FreeWorker \in Free
  BY <1>3 DEF FreeWorker
<1>5. FreeWorker \in 0..activeWorkers - 1 /\ deque[FreeWorker] = <<>>
  BY <1>4 DEF Free
<1> QED BY <1>1, <1>5 DEF Worker

(* The busiest of the other workers is one of them.                              *)
LEMMA BusiestIsWorker ==
  ASSUME WorkPart, Free # {}, activeWorkers > 1
  PROVE  Busiest \in Worker /\ Busiest # FreeWorker
<1> DEFINE D == (0..activeWorkers - 1) \ {FreeWorker}
           f == [w \in D |-> Len(deque[w])]
<1>1. activeWorkers \in Nat /\ activeWorkers <= Started /\ Started \in Nat
  BY HelixAssumption DEF WorkPart
<1>2. D \subseteq Worker /\ D \subseteq Nat
  BY <1>1 DEF Worker
<1>3. D # {}
  <2>1. 0 \in 0..activeWorkers - 1 /\ 1 \in 0..activeWorkers - 1
    BY <1>1
  <2> QED BY <2>1
<1>4. IsFiniteSet(D)
  <2> DEFINE c == activeWorkers - 1
  <2>1. c \in Int
    BY <1>1
  <2> HIDE DEF c
  <2>2. IsFiniteSet(0..c)
    BY <2>1, FS_Interval
  <2>3. IsFiniteSet(0..activeWorkers - 1)
    BY <2>2 DEF c
  <2> QED BY <2>3, FS_Difference
<1>5. f \in [D -> Int]
  <2>1. \A w \in D : deque[w] \in Seq(Job)
    BY <1>2 DEF WorkPart
  <2> HIDE DEF D
  <2> QED BY <2>1
<1>6. PICK m \in D : \A w \in D : f[w] <= f[m]
  <2> HIDE DEF D, f
  <2> QED BY <1>3, <1>4, <1>5, GreatestValue
<1> DEFINE T == {w \in D : f[w] = f[m]}
           g == [w \in T |-> w]
<1>7. IsFiniteSet(T) /\ T # {} /\ T \subseteq D
  <2> HIDE DEF D, f
  <2> QED BY <1>4, <1>6, FS_Subset
<1>8. PICK i \in T : \A w \in T : w <= i
  <2>1. g \in [T -> Int]
    <3> HIDE DEF T, D
    <3> QED BY <1>2, <1>7
  <2>2. \E i \in T : \A w \in T : g[w] <= g[i]
    <3> HIDE DEF T, g
    <3> QED BY <1>7, <2>1, GreatestValue
  <2> HIDE DEF T
  <2> QED BY <2>2
<1>9. i \in D /\ f[i] = f[m]
  BY <1>8
<1>10. ASSUME NEW w \in D
       PROVE  f[w] <= f[i] /\ (w > i => f[w] < f[i])
  <2>1. f[w] \in Int /\ f[i] \in Int /\ f[w] <= f[i]
    <3> HIDE DEF f
    <3> QED BY <1>5, <1>6, <1>9
  <2>2. ASSUME w > i, f[w] = f[i] PROVE FALSE
    <3>1. w \in T
      BY <1>9, <2>2
    <3>2. w <= i /\ i \in Nat /\ w \in Nat
      <4> HIDE DEF D, T
      <4> QED BY <1>2, <1>8, <1>9, <3>1
    <3> QED BY <2>2, <3>2
  <2> HIDE DEF f
  <2> QED BY <2>1, <2>2
<1>11. \E x \in D : \A v \in D :
         Len(deque[v]) <= Len(deque[x]) /\ (v > x => Len(deque[v]) < Len(deque[x]))
  <2> HIDE DEF D, T
  <2> QED BY <1>9, <1>10
<1>12. Busiest \in D
  BY <1>11 DEF Busiest
<1> QED BY <1>2, <1>12

(* A job that is assigned goes to a worker that has none.                        *)
LEMMA AssignedKeeps ==
  ASSUME WorkPart, Free # {}, NEW d \in [Worker -> Seq(Job)], NEW j \in Job,
         d[FreeWorker] = <<>>,
         \A w \in Worker : Len(d[w]) <= 1 /\ Range(d[w]) \subseteq given,
         Assigned(d, j)
  PROVE  /\ deque' \in [Worker -> Seq(Job)] /\ building' \in [Worker -> Seq(Job)]
         /\ \A w \in Worker : Len(deque'[w]) <= 1 /\ Range(deque'[w]) \subseteq given'
         /\ given' = given \cup {j}
<1>1. FreeWorker \in Worker
  BY FreeWorkerIsFree
<1>2. /\ deque' = [d EXCEPT ![FreeWorker] = Append(d[FreeWorker], j)]
      /\ building' = [building EXCEPT ![FreeWorker] = Append(building[FreeWorker], j)]
      /\ given' = given \cup {j}
  BY DEF Assigned
<1>3. Append(d[FreeWorker], j) = <<j>> /\ building[FreeWorker] \in Seq(Job)
  BY <1>1 DEF WorkPart
<1>4. Append(building[FreeWorker], j) \in Seq(Job)
  BY <1>3
<1>5. deque' \in [Worker -> Seq(Job)] /\ building' \in [Worker -> Seq(Job)]
  <2>1. <<j>> \in Seq(Job)
    OBVIOUS
  <2>2. deque' \in [Worker -> Seq(Job)]
    BY <1>2, <1>3, <2>1
  <2>3. building \in [Worker -> Seq(Job)]
    BY DEF WorkPart
  <2>4. building' \in [Worker -> Seq(Job)]
    BY <1>2, <1>4, <2>3
  <2> QED BY <2>2, <2>4
<1>6. ASSUME NEW w \in Worker
      PROVE  Len(deque'[w]) <= 1 /\ Range(deque'[w]) \subseteq given'
  <2>1. CASE w = FreeWorker
    <3>1. deque'[w] = <<j>>
      BY <1>1, <1>2, <1>3, <2>1
    <3>2. Len(<<j>>) = 1 /\ Range(<<j>>) = {j}
      BY DEF Range
    <3> QED BY <1>2, <3>1, <3>2
  <2>2. CASE w # FreeWorker
    <3>1. deque'[w] = d[w]
      BY <1>2, <2>2
    <3> QED BY <1>2, <3>1
  <2> QED BY <2>1, <2>2
<1> QED BY <1>2, <1>5, <1>6

-----------------------------------------------------------------------------
(* The steps                                                                     *)

LEMMA InitRing == HelixInit => RingInv
<1> SUFFICES ASSUME HelixInit PROVE RingInv
  OBVIOUS
<1>1. OrderInv /\ order = <<>> /\ sorting = "ready"
  BY InitOrder DEF HelixInit, OrderInit
<1>2. /\ jobs = [s \in 0..Capacity - 1 |-> Empty]
      /\ head = 0 /\ tail = 0 /\ count = 0 /\ enqueued = 0 /\ jobCount = 0
      /\ deque = [w \in Worker |-> <<>>] /\ building = [w \in Worker |-> <<>>]
      /\ activeWorkers = Started /\ given = {}
  BY DEF HelixInit
<1>3. Put = {} /\ Waiting = {}
  BY <1>2 DEF Put, Waiting, Window, Range
<1>4. RingPart
  BY <1>2, <1>3, HelixAssumption DEF RingPart
<1>5. WorkPart
  <2>1. \A w \in Worker : Len(deque[w]) <= 1 /\ Range(deque[w]) \subseteq given
    BY <1>2 DEF Range
  <2>2. deque \in [Worker -> Seq(Job)] /\ building \in [Worker -> Seq(Job)]
    BY <1>2
  <2>3. activeWorkers \in 1..Started /\ jobCount \in 0..MaxJobs
    BY <1>2, HelixAssumption, OrderAssumption
  <2> QED BY <1>1, <1>2, <1>3, <2>1, <2>2, <2>3 DEF WorkPart
<1> QED BY <1>1, <1>4, <1>5, RingParts

(* A step that leaves the ring and what was put in alone keeps its part.          *)
LEMMA RingUntouched ==
  ASSUME RingPart, UNCHANGED workQueue, Put' = Put, given' = given
  PROVE  RingPart' /\ Waiting' = Waiting
<1>1. jobs' = jobs /\ head' = head /\ tail' = tail /\ count' = count
  BY DEF workQueue
<1>2. Window' = Window
  BY <1>1 DEF Window, Slot
<1>3. Waiting' = Waiting
  BY <1>2 DEF Waiting
<1> QED BY <1>1, <1>2, <1>3 DEF RingPart

LEMMA SortKeeps ==
  ASSUME RingInv, Sort, UNCHANGED <<workQueue, governor, client, jobCount, deque>>
  PROVE  RingInv'
<1>1. OrderInv /\ RingPart /\ WorkPart
  BY RingParts
<1>2. sorting # "sorted" /\ enqueued = 0 /\ enqueued' = 0 /\ given' = given
  BY <1>1 DEF Sort, Refuse, Start, Visit, FinishSort, client, WorkPart
<1>3. Put = {} /\ Put' = {}
  BY <1>2 DEF Put
<1>4. OrderInv'
  BY <1>1, OrderKept
<1>5. RingPart' /\ Waiting' = Waiting
  BY <1>1, <1>2, <1>3, RingUntouched
<1>6. WorkPart'
  <2>1. 0 \in 0..Len(order')
    BY <1>4 DEF OrderInv
  <2>2. /\ jobCount' = jobCount /\ deque' = deque /\ building' = building /\ activeWorkers' = activeWorkers
    BY DEF client, governor
  <2> QED BY <1>1, <1>2, <1>3, <2>1, <2>2 DEF WorkPart
<1> QED BY <1>2, <1>3, <1>4, <1>5, <1>6, RingParts

(* enqueue and the ring's own push put a job in, or refuse it.                   *)
LEMMA EnqueueKeeps ==
  ASSUME RingInv, Enqueue \/ PushDirectly
  PROVE  RingInv'
<1>1. OrderInv /\ RingPart /\ WorkPart
  BY RingParts
<1>2. /\ MayPush /\ UNCHANGED sorter /\ order' = order /\ sorting' = sorting
      /\ deque' = deque /\ building' = building /\ activeWorkers' = activeWorkers /\ given' = given
      /\ jobCount' \in {jobCount, jobCount + 1} /\ (jobCount' # jobCount => jobCount < MaxJobs)
      /\ \/ UNCHANGED <<workQueue, enqueued>>
         \/ ~Full /\ Push(NextJob) /\ enqueued' = enqueued + 1
  BY DEF Enqueue, PushDirectly, sorter, governor
<1>3. OrderInv'
  BY <1>1, <1>2, OrderKept
<1>4. jobCount' \in 0..MaxJobs
  BY <1>1, <1>2, OrderAssumption DEF WorkPart
<1>5. CASE UNCHANGED <<workQueue, enqueued>>
  <2>1. Put' = Put
    BY <1>2, <1>5 DEF Put
  <2>2. RingPart' /\ Waiting' = Waiting
    BY <1>1, <1>2, <1>5, <2>1, RingUntouched
  <2>3. WorkPart'
    BY <1>1, <1>2, <1>4, <1>5, <2>1 DEF WorkPart
  <2> QED BY <1>2, <1>3, <2>1, <2>2, <2>3, RingParts
<1>6. CASE ~Full /\ Push(NextJob) /\ enqueued' = enqueued + 1
  <2>1. /\ RingPart' /\ enqueued' \in 0..Len(order) /\ NextJob \in Job
        /\ NextJob \notin Put /\ Put' = Put \cup {NextJob}
    BY <1>1, <1>2, <1>6, PushKeeps
  <2>2. WorkPart'
    BY <1>1, <1>2, <1>4, <2>1 DEF WorkPart, MayPush
  <2> QED BY <1>3, <2>1, <2>2, RingParts
<1> QED BY <1>2, <1>5, <1>6

LEMMA PopDirectlyKeeps ==
  ASSUME RingInv, PopDirectly
  PROVE  RingInv'
<1>1. OrderInv /\ RingPart /\ WorkPart
  BY RingParts
<1>2. /\ UNCHANGED sorter /\ order' = order /\ sorting' = sorting /\ enqueued' = enqueued
      /\ deque' = deque /\ building' = building /\ activeWorkers' = activeWorkers /\ given' = given
      /\ jobCount' = jobCount
  BY DEF PopDirectly, sorter, governor, client
<1>3. OrderInv' /\ Put' = Put
  BY <1>1, <1>2, OrderKept DEF Put
<1>4. RingPart'
  BY <1>1, PopKeeps
<1>5. WorkPart'
  BY <1>1, <1>2, <1>3 DEF WorkPart
<1> QED BY <1>3, <1>4, <1>5, RingParts

LEMMA DispatchQueuedKeeps ==
  ASSUME RingInv, DispatchQueued
  PROVE  RingInv'
<1> DEFINE j == Window[Best]
<1>1. OrderInv /\ RingPart /\ WorkPart
  BY RingParts
<1>2. /\ UNCHANGED sorter /\ order' = order /\ sorting' = sorting /\ enqueued' = enqueued
      /\ activeWorkers' = activeWorkers /\ jobCount' = jobCount
      /\ Free # {} /\ count > 0 /\ PopPriority /\ Assigned(deque, j)
      /\ given' = given \cup {j}
  BY DEF DispatchQueued, sorter, governor, Assigned
<1>3. OrderInv' /\ Put' = Put
  BY <1>1, <1>2, OrderKept DEF Put
<1>4. RingPart' /\ j \in Put
  BY <1>1, <1>2, PopPriorityKeeps
<1>5. j \in Job
  BY <1>1, <1>4, PutAreJobs DEF WorkPart
<1> HIDE DEF j
<1>6. /\ deque' \in [Worker -> Seq(Job)] /\ building' \in [Worker -> Seq(Job)]
      /\ \A w \in Worker : Len(deque'[w]) <= 1 /\ Range(deque'[w]) \subseteq given'
  BY <1>1, <1>2, <1>5, FreeWorkerIsFree, AssignedKeeps DEF WorkPart
<1>7. WorkPart'
  BY <1>1, <1>2, <1>3, <1>4, <1>5, <1>6 DEF WorkPart
<1> QED BY <1>3, <1>4, <1>7, RingParts

(* A stolen job was handed out before.                                           *)
LEMMA DispatchStolenKeeps ==
  ASSUME RingInv, DispatchStolen
  PROVE  RingInv'
<1> DEFINE j == Head(deque[Busiest])
<1>1. OrderInv /\ RingPart /\ WorkPart
  BY RingParts
<1>2. /\ UNCHANGED sorter /\ order' = order /\ sorting' = sorting /\ enqueued' = enqueued
      /\ activeWorkers' = activeWorkers /\ jobCount' = jobCount /\ UNCHANGED workQueue
      /\ Free # {} /\ activeWorkers > 1 /\ deque[Busiest] # <<>> /\ Assigned(Robbed, j)
  BY DEF DispatchStolen, sorter, governor
<1>3. OrderInv' /\ Put' = Put
  BY <1>1, <1>2, OrderKept DEF Put
<1>4. Busiest \in Worker /\ Busiest # FreeWorker /\ FreeWorker \in Worker /\ deque[FreeWorker] = <<>>
  BY <1>1, <1>2, BusiestIsWorker, FreeWorkerIsFree
<1>5. deque \in [Worker -> Seq(Job)] /\ deque[Busiest] \in Seq(Job)
  BY <1>1, <1>4 DEF WorkPart
<1>6. /\ j \in Job /\ j \in Range(deque[Busiest]) /\ Tail(deque[Busiest]) \in Seq(Job)
      /\ Len(Tail(deque[Busiest])) = Len(deque[Busiest]) - 1
      /\ Len(deque[Busiest]) \in Nat
  <2>1. Len(deque[Busiest]) \in Nat /\ Len(deque[Busiest]) # 0 /\ j = deque[Busiest][1]
    BY <1>2, <1>5
  <2>2. 1 \in DOMAIN deque[Busiest]
    BY <1>5, <2>1
  <2>3. j \in Range(deque[Busiest])
    BY <2>1, <2>2 DEF Range
  <2> QED BY <1>2, <1>5, <2>1, <2>3, HeadTailProperties
<1>7. j \in given
  BY <1>1, <1>4, <1>6 DEF WorkPart
<1>8. Robbed \in [Worker -> Seq(Job)] /\ Robbed[FreeWorker] = <<>>
  BY <1>4, <1>5, <1>6 DEF Robbed
<1>9. \A w \in Worker : Len(Robbed[w]) <= 1 /\ Range(Robbed[w]) \subseteq given
  <2> SUFFICES ASSUME NEW w \in Worker PROVE Len(Robbed[w]) <= 1 /\ Range(Robbed[w]) \subseteq given
    OBVIOUS
  <2>1. CASE w # Busiest
    BY <1>1, <1>5, <2>1 DEF Robbed, WorkPart
  <2>2. CASE w = Busiest
    <3>1. Robbed[w] = Tail(deque[Busiest])
      BY <1>5, <2>2 DEF Robbed
    <3>2. Len(deque[Busiest]) <= 1
      BY <1>1, <1>4 DEF WorkPart
    <3>3. Len(Robbed[w]) = 0 /\ Robbed[w] \in Seq(Job)
      <4> DEFINE n == Len(deque[Busiest])
      <4>1. n \in Nat /\ n # 0 /\ n <= 1
        BY <1>2, <1>5, <3>2
      <4>2. Len(Robbed[w]) = n - 1 /\ Robbed[w] \in Seq(Job)
        BY <1>6, <3>1
      <4> HIDE DEF n
      <4>3. n - 1 = 0
        BY <4>1
      <4> QED BY <4>2, <4>3
    <3>4. Range(Robbed[w]) = {}
      BY <3>3 DEF Range
    <3> QED BY <3>3, <3>4
  <2> QED BY <2>1, <2>2
<1> HIDE DEF j
<1>10. /\ deque' \in [Worker -> Seq(Job)] /\ building' \in [Worker -> Seq(Job)]
       /\ \A w \in Worker : Len(deque'[w]) <= 1 /\ Range(deque'[w]) \subseteq given'
       /\ given' = given \cup {j}
  BY <1>1, <1>2, <1>6, <1>8, <1>9, AssignedKeeps
<1>11. given' = given
  BY <1>7, <1>10
<1>12. WorkPart'
  BY <1>1, <1>2, <1>3, <1>10, <1>11 DEF WorkPart
<1>13. RingPart' /\ Waiting' = Waiting
  BY <1>1, <1>2, <1>3, <1>11, RingUntouched
<1> QED BY <1>3, <1>11, <1>12, <1>13, RingParts

LEMMA CompleteKeeps ==
  ASSUME RingInv, NEW w \in Worker, Complete(w)
  PROVE  RingInv'
<1>1. OrderInv /\ RingPart /\ WorkPart
  BY RingParts
<1>2. /\ UNCHANGED sorter /\ order' = order /\ sorting' = sorting /\ enqueued' = enqueued
      /\ activeWorkers' = activeWorkers /\ jobCount' = jobCount /\ UNCHANGED workQueue /\ given' = given
      /\ building[w] # <<>>
      /\ building' = [building EXCEPT ![w] = Tail(building[w])]
      /\ deque' = [deque EXCEPT ![w] = Popped(deque[w])]
  BY DEF Complete, sorter, governor
<1>3. OrderInv' /\ Put' = Put
  BY <1>1, <1>2, OrderKept DEF Put
<1>4. /\ deque \in [Worker -> Seq(Job)] /\ deque[w] \in Seq(Job) /\ Len(deque[w]) <= 1
      /\ building \in [Worker -> Seq(Job)] /\ building[w] \in Seq(Job)
  BY <1>1 DEF WorkPart
<1>5. Popped(deque[w]) = <<>>
  <2>1. CASE deque[w] = <<>>
    BY <2>1 DEF Popped
  <2>2. CASE deque[w] # <<>>
    <3>1. Len(deque[w]) = 1
      <4> DEFINE n == Len(deque[w])
      <4>1. n \in Nat /\ n # 0 /\ n <= 1
        BY <1>4, <2>2
      <4> HIDE DEF n
      <4>2. n = 1
        BY <4>1
      <4> QED BY <4>2 DEF n
    <3>2. Front(deque[w]) = <<>>
      BY <3>1, SubSeqEmpty DEF Front
    <3> QED BY <2>2, <3>2 DEF Popped
  <2> QED BY <2>1, <2>2
<1>6. Tail(building[w]) \in Seq(Job)
  BY <1>2, <1>4, HeadTailProperties
<1>7. deque' \in [Worker -> Seq(Job)] /\ building' \in [Worker -> Seq(Job)]
  BY <1>2, <1>4, <1>5, <1>6
<1>8. \A v \in Worker : Len(deque'[v]) <= 1 /\ Range(deque'[v]) \subseteq given'
  <2> SUFFICES ASSUME NEW v \in Worker PROVE Len(deque'[v]) <= 1 /\ Range(deque'[v]) \subseteq given'
    OBVIOUS
  <2>1. CASE v = w
    <3>1. deque'[v] = <<>>
      BY <1>2, <1>4, <1>5, <2>1
    <3>2. Len(<<>>) = 0 /\ Range(<<>>) = {}
      BY DEF Range
    <3> QED BY <3>1, <3>2
  <2>2. CASE v # w
    BY <1>1, <1>2, <1>4, <2>2 DEF WorkPart
  <2> QED BY <2>1, <2>2
<1>9. WorkPart'
  BY <1>1, <1>2, <1>3, <1>7, <1>8 DEF WorkPart
<1>10. RingPart' /\ Waiting' = Waiting
  BY <1>1, <1>2, <1>3, RingUntouched
<1> QED BY <1>2, <1>3, <1>9, <1>10, RingParts

(* The governor never stops the last worker.                                     *)
LEMMA ReportThermalKeeps ==
  ASSUME RingInv, ReportThermal
  PROVE  RingInv'
<1>1. OrderInv /\ RingPart /\ WorkPart
  BY RingParts
<1>2. /\ UNCHANGED sorter /\ order' = order /\ sorting' = sorting /\ enqueued' = enqueued
      /\ building' = building /\ deque' = deque /\ jobCount' = jobCount /\ UNCHANGED workQueue
      /\ given' = given
      /\ activeWorkers' \in {1, Halved(activeWorkers), activeWorkers}
  BY DEF ReportThermal, sorter, client
<1>3. OrderInv' /\ Put' = Put
  BY <1>1, <1>2, OrderKept DEF Put
<1>4. activeWorkers' \in 1..Started
  BY <1>1, <1>2, HelixAssumption DEF WorkPart, Halved
<1>5. WorkPart'
  BY <1>1, <1>2, <1>3, <1>4 DEF WorkPart
<1>6. RingPart' /\ Waiting' = Waiting
  BY <1>1, <1>2, <1>3, RingUntouched
<1> QED BY <1>2, <1>3, <1>5, <1>6, RingParts

LEMMA NextRing == RingInv /\ [HelixNext]_helixVars => RingInv'
<1> SUFFICES ASSUME RingInv, [HelixNext]_helixVars PROVE RingInv'
  OBVIOUS
<1>1. CASE Sort /\ UNCHANGED <<workQueue, governor, client, jobCount, deque>>
  BY <1>1, SortKeeps
<1>2. CASE Enqueue \/ PushDirectly
  BY <1>2, EnqueueKeeps
<1>3. CASE PopDirectly
  BY <1>3, PopDirectlyKeeps
<1>4. CASE DispatchQueued
  BY <1>4, DispatchQueuedKeeps
<1>5. CASE DispatchStolen
  BY <1>5, DispatchStolenKeeps
<1>6. CASE \E w \in Worker : Complete(w)
  BY <1>6, CompleteKeeps
<1>7. CASE ReportThermal
  BY <1>7, ReportThermalKeeps
<1>8. CASE UNCHANGED helixVars
  <2>1. OrderInv /\ RingPart /\ WorkPart
    BY RingParts
  <2>2. /\ UNCHANGED sorter /\ order' = order /\ sorting' = sorting /\ enqueued' = enqueued
        /\ building' = building /\ deque' = deque /\ jobCount' = jobCount /\ UNCHANGED workQueue
        /\ given' = given /\ activeWorkers' = activeWorkers
    BY <1>8 DEF helixVars, sorter, governor, client
  <2>3. OrderInv' /\ Put' = Put
    BY <2>1, <2>2, OrderKept DEF Put
  <2>4. RingPart' /\ Waiting' = Waiting
    BY <2>1, <2>2, <2>3, RingUntouched
  <2>5. WorkPart'
    BY <2>1, <2>2, <2>3 DEF WorkPart
  <2> QED BY <2>2, <2>3, <2>4, <2>5, RingParts
<1> QED BY <1>1, <1>2, <1>3, <1>4, <1>5, <1>6, <1>7, <1>8 DEF HelixNext

-----------------------------------------------------------------------------
(* The theorems                                                                  *)

(* Every slot of the ring that was written holds a job that was put in, and every *)
(* job in a deque was handed out (WorkQueue and WorkStealingDeque, helix.rs 63).  *)
THEOREM HelixKeepsRing == HelixSpec => []RingInv
<1>1. HelixInit => RingInv
  BY InitRing
<1>2. RingInv /\ [HelixNext]_helixVars => RingInv'
  BY NextRing
<1> QED BY <1>1, <1>2, PTL DEF HelixSpec

(* The ring, the deques and the governor keep their bounds, and only jobs that    *)
(* were put in are handed out (helix.rs 63, 127, 160).                           *)
THEOREM HelixKeeps == HelixSpec => []HelixInv
<1>1. RingInv => HelixInv
  BY DEF RingInv
<1> QED BY <1>1, HelixKeepsRing, PTL

(* Whatever was pushed, taken and overwritten before, pop_priority hands out a    *)
(* job that no counted one precedes and takes exactly one copy of it from the     *)
(* counted part of the ring (helix.rs 119).                                      *)
THEOREM HelixPopsBest == HelixSpec => PopsBest
<1>1. RingInv /\ [HelixNext]_helixVars
        => [head' = head /\ count' < count => \E j \in Waiting : HandsOut(j)]_helixVars
  <2> SUFFICES ASSUME RingInv, HelixNext, head' = head, count' < count
               PROVE  \E j \in Waiting : HandsOut(j)
    OBVIOUS
  <2>1. OrderInv /\ RingPart /\ WorkPart
    BY RingParts
  <2>2. count \in Nat /\ head \in Nat
    BY <2>1, HelixAssumption DEF RingPart
  <2>3. DispatchQueued
    <3>1. ~UNCHANGED workQueue
      BY <2>2 DEF workQueue
    <3>2. ~(Enqueue \/ PushDirectly \/ PopDirectly)
      BY <2>2, <3>1 DEF Enqueue, PushDirectly, PopDirectly, Push, workQueue
    <3> QED BY <3>1, <3>2 DEF HelixNext, DispatchStolen, Complete, ReportThermal
  <2>4. /\ Free # {} /\ count > 0 /\ PopPriority
        /\ building' = [building EXCEPT ![FreeWorker] = Append(@, Window[Best])]
    BY <2>3 DEF DispatchQueued, Assigned
  <2>5. FreeWorker \in Worker
    BY <2>1, <2>4, FreeWorkerIsFree
  <2>6. /\ Window[Best] \in Waiting
        /\ \A k \in Waiting : Priority[k] <= Priority[Window[Best]]
        /\ \A k \in Job :
             CopiesOf(k)' = IF k = Window[Best] THEN CopiesOf(k) - 1 ELSE CopiesOf(k)
    BY <2>1, <2>4, PopPriorityTakesOne
  <2>7. HandsOut(Window[Best])
    <3> DEFINE j == Window[Best]
    <3>1. \E w \in Worker : building' = [building EXCEPT ![w] = Append(@, j)]
      BY <2>4, <2>5
    <3> QED BY <2>6, <3>1 DEF HandsOut
  <2> QED BY <2>6, <2>7
<1> QED BY <1>1, HelixKeepsRing, PTL DEF HelixSpec, PopsBest

(* sort succeeds on exactly the graphs that have a build order, and finds one    *)
(* (helix.rs 268).                                                               *)
THEOREM HelixSorts == HelixSpec => SortCorrect
<1> DEFINE Right ==
      /\ sorting' = "sorted" /\ sorting # "sorted" => Builds(graph, order')
      /\ sorting' = "refused" /\ sorting # "refused" => ~WellFormed(graph) \/ ~Acyclic(graph)
<1>1. RingInv /\ [HelixNext]_helixVars => [Right]_helixVars
  <2> SUFFICES ASSUME RingInv, HelixNext PROVE Right
    OBVIOUS
  <2>1. OrderInv
    BY DEF RingInv
  <2>2. CASE Sort
    <3>1. CASE Refuse
      BY <3>1 DEF Refuse
    <3>2. CASE FinishSort
      BY <2>1, <3>2, FinishCorrect
    <3>3. CASE Start \/ Visit
      BY <3>3 DEF Start, Visit
    <3> QED BY <2>2, <3>1, <3>2, <3>3 DEF Sort
  <2>3. CASE sorting' = sorting
    BY <2>3
  <2> QED BY <2>2, <2>3 DEF HelixNext, Enqueue, PushDirectly, PopDirectly, DispatchQueued,
                            DispatchStolen, Complete, ReportThermal, sorter
<1> QED BY <1>1, HelixKeepsRing, PTL DEF HelixSpec, SortCorrect
=============================================================================
