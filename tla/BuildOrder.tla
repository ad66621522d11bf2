----------------------------- MODULE BuildOrder -----------------------------
(***************************************************************************)
(* TopoSorter::sort of helix.rs: Kahn's algorithm over fixed arrays turns  *)
(* a selection of packages and their dependencies into a build order, or   *)
(* finds that there is none.  The queue of the code is the order itself:   *)
(* what is queued is put in the order when it is visited, and nothing else *)
(* is.                                                                     *)
(***************************************************************************)
EXTENDS Integers, Sequences, FiniteSets, SequencesExt

CONSTANTS
  Graph,      \* inputs: [n |-> packages, deps |-> package -> list of packages]
  MaxJobs,    \* MAX_BUILD_JOBS
  MaxEdges    \* room for dependencies of one package

ASSUME OrderAssumption ==
  /\ MaxJobs \in Nat /\ MaxEdges \in Nat
  /\ \A g \in Graph : g.n \in Nat /\ g.deps \in [0..g.n - 1 -> Seq(Nat)]

VARIABLES
  graph,     \* the caller's n, edges and edge_lens
  sorting,   \* "ready", "running", or what sort returned: "sorted", "refused"
  degree,    \* in_degree: dependencies of a package that are not visited
  order,     \* packages queued, in their order; the visited ones first
  visited    \* how many of them were visited

sorter == <<graph, sorting, degree, order, visited>>

NoGraph == [n |-> 0, deps |-> <<>>]

Nodes(g) == 0..g.n - 1
DependenciesOf(g, i) == Range(g.deps[i])

OrderInit ==
  /\ graph \in Graph
  /\ sorting = "ready"
  /\ degree = <<>> /\ order = <<>> /\ visited = 0

(* The checks before the first visit: sizes, and dependencies within bounds. *)
WellFormed(g) ==
  /\ g.n <= MaxJobs
  /\ \A i \in Nodes(g) : Len(g.deps[i]) <= MaxEdges /\ DependenciesOf(g, i) \subseteq Nodes(g)

(* The k-th smallest package of S in place k. *)
InIndexOrder(S) ==
  [k \in 1..Cardinality(S) |-> CHOOSE x \in S : Cardinality({y \in S : y <= x}) = k]

Refuse ==
  /\ sorting = "ready"
  /\ ~WellFormed(graph)
  /\ sorting' = "refused"
  /\ UNCHANGED <<graph, degree, order, visited>>

Start ==
  /\ sorting = "ready"
  /\ WellFormed(graph)
  /\ sorting' = "running"
  /\ degree' = [i \in Nodes(graph) |-> Len(graph.deps[i])]
  /\ order' = InIndexOrder({i \in Nodes(graph) : graph.deps[i] = <<>>})
  /\ UNCHANGED <<graph, visited>>

(* How often package i lists d: a duplicate counts twice, here and in degree.   *)
Edges(i, d) == Cardinality({k \in DOMAIN graph.deps[i] : graph.deps[i][k] = d})

(* Mutant of Relaxed: a package that lists a dependency twice is relaxed once.  *)
RelaxedOnce(d) ==
  [i \in Nodes(graph) |-> IF Edges(i, d) > 0 THEN degree[i] - 1 ELSE degree[i]]

(* The visit of d takes it off the packages that depend on it ... *)
Relaxed(d) == [i \in Nodes(graph) |-> degree[i] - Edges(i, d)]

(* ... and queues those that then depend on nothing else. *)
Visit ==
  /\ sorting = "running"
  /\ visited < Len(order)
  /\ LET d == order[visited + 1] IN
     /\ degree' = Relaxed(d)
     /\ order' = order \o InIndexOrder({i \in Nodes(graph) : Edges(i, d) > 0 /\ degree'[i] = 0})
  /\ visited' = visited + 1
  /\ UNCHANGED <<graph, sorting>>

(* sort returns order_len == n; the caller is done with its graph. *)
FinishSort ==
  /\ sorting = "running"
  /\ visited = Len(order)
  /\ sorting' = IF visited = graph.n THEN "sorted" ELSE "refused"
  /\ graph' = NoGraph
  /\ degree' = <<>>
  /\ UNCHANGED <<order, visited>>

Sort == Refuse \/ Start \/ Visit \/ FinishSort

(* A graph has a build order when no set of packages waits for itself. *)
Acyclic(g) ==
  \A S \in (SUBSET Nodes(g)) \ {{}} : \E i \in S : DependenciesOf(g, i) \cap S = {}

Builds(g, s) ==
  /\ Len(s) = g.n /\ Range(s) = Nodes(g)
  /\ \A k \in DOMAIN s : DependenciesOf(g, s[k]) \subseteq {s[j] : j \in 1..k - 1}

(* Kahn's invariant: the degree of a package counts its dependencies that are    *)
(* not visited, the packages of degree 0 are the ones queued, each once, and     *)
(* each behind its dependencies.                                                 *)
Done == {order[k] : k \in 1..visited}
Unmet(i) == {k \in DOMAIN graph.deps[i] : graph.deps[i][k] \notin Done}

Queued ==
  /\ order \in Seq(Nodes(graph))
  /\ degree \in [Nodes(graph) -> Int]
  /\ \A i \in Nodes(graph) :
       degree[i] = Cardinality(Unmet(i)) /\ (degree[i] = 0 <=> i \in Range(order))
  /\ \A k \in DOMAIN order : DependenciesOf(graph, order[k]) \subseteq {order[j] : j \in 1..k - 1}

OrderInv ==
  /\ sorting \in {"ready", "running", "sorted", "refused"}
  /\ sorting \in {"ready", "running"} => graph \in Graph
  /\ order \in Seq(0..MaxJobs - 1) /\ visited \in 0..Len(order)
  /\ \A j, k \in DOMAIN order : order[j] = order[k] => j = k
  /\ sorting = "ready" => order = <<>>
  /\ sorting = "running" => WellFormed(graph) /\ Queued
=============================================================================
