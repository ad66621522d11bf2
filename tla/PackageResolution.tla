-------------------------- MODULE PackageResolution --------------------------
(***************************************************************************)
(* How the package service finds what to install: it opens its signed      *)
(* configuration, fetches the repository documents, resolves the selector, *)
(* gathers the candidates that requirements lead to, has the solver select *)
(* among them, orders the selection, and prepares each new package; one    *)
(* that is built from source first gets a root of native packages, planned *)
(* the same way.  The transaction that then changes the database is        *)
(* PackageService's and one step here.  The solver's other client is a     *)
(* program that uses the constraint builder.                               *)
(***************************************************************************)
EXTENDS RepositoryDomain, ConstraintBuilder

CONSTANTS
  Config,      \* the configurations that may be presented
  Selector,    \* the selectors that may be asked for: [namespace, name, version]
  Package,     \* package names
  BuildRoot,   \* the reserved name of a build's own requirements
  Served,      \* digests of the remote documents that a server answers with
  Offline,     \* whether the service is told to stay offline
  MaxCalls,    \* bound: calls of the service in a behaviour
  MaxOps       \* bound: calls of the constraint builder

(* What the documents, and the calls of the builder, are made of. *)
IsSequence(s) == s \in Seq(Range(s))

Shaped(p) ==
  /\ p.name \in DOMAIN Rank /\ p.version \in DOMAIN Rank /\ p.sequence \in Int
  /\ IsSequence(p.requirements) /\ IsSequence(p.conflicts)
  /\ \A r \in Range(p.requirements) : IsFiniteSet(r)

ConfigShaped(cfg) ==
  /\ IsSequence(cfg.natives) /\ IsSequence(cfg.sources)
  /\ \A repo \in Range(cfg.natives) \cup Range(cfg.sources) :
       IsSequence(repo.document.packages) /\ \A p \in Range(repo.document.packages) : Shaped(p)
  /\ \A repo \in Range(cfg.sources) : \A p \in Range(repo.document.packages) :
       IsSequence(p.ingress.recipe.depends)

ASSUME ResolutionAssumption ==
  /\ \A n, m \in DOMAIN Rank : Rank[n] \in Int /\ (Rank[n] = Rank[m] => n = m)
  /\ MaxGraph \in Nat /\ MaxGraph <= MaxPackages /\ MaxPackages <= MaxTrail
  /\ IsFiniteSet(Package) /\ Package \subseteq DOMAIN Rank /\ BuildRoot \in DOMAIN Rank
  /\ \A cfg \in Config : ConfigShaped(cfg)
  /\ \A o \in Ops : /\ o.op \in {"require", "dependency", "conflict", "at most one"}
                    /\ IsSequence(o.versions)

VARIABLES
  client,   \* who uses the solver in this behaviour: "service" or "builder"
  objects,  \* digests of the documents in the object cache
  db,       \* package -> its receipt, or None
  job,      \* the running call
  calls

serviceVars == <<objects, db, job>>
vars == <<solverVars, builderVars, serviceVars, client, calls>>

Idle == [phase |-> "idle"]
In(phase) == job.phase = phase
Installed == {db[p] : p \in Package} \ {None}

Init ==
  /\ SolverInit /\ BuilderInit
  /\ client \in {"service", "builder"}
  /\ objects = {} /\ db = [p \in Package |-> None]
  /\ job = Idle /\ calls = 0

(* A plan in the making, for a call or for the root of a source build. *)
NewPlan(verb, cfg, selector, wants, outer) ==
  [phase |-> "fetch", verb |-> verb, cfg |-> cfg, selector |-> selector, outer |-> outer,
   wants |-> wants, universe |-> <<>>, fixed |-> <<>>, root |-> 1, cursor |-> 0,
   selected |-> {}, marks |-> <<>>, stack |-> <<>>, roots |-> <<>>, order |-> <<>>,
   next |-> 1, deps |-> None, receipts |-> <<>>]

ServiceIdle == client = "service" /\ In("idle") /\ calls < MaxCalls

(* install and update: what is asked for is, or is not, installed. *)
Begin ==
  /\ ServiceIdle
  /\ \E cfg \in Config, s \in Selector, verb \in {"install", "update"} :
       LET old == db[s.name] IN
       /\ ConfigValid(cfg)
       /\ (verb = "update") = (old # None)
       /\ old # None => SelectorMatches(s, old, FALSE)
       /\ job' = NewPlan(verb, cfg, s, <<>>, None)
  /\ calls' = calls + 1
  /\ UNCHANGED <<solverVars, builderVars, objects, db, client>>

(* remove: refused while another package needs it. *)
RemoveInstalled ==
  /\ ServiceIdle
  /\ \E cfg \in Config, s \in Selector :
       LET old == db[s.name]
           left == {AsCandidate(r) : r \in Installed \ {old}} IN
       /\ ConfigValid(cfg) /\ old # None
       /\ SelectorMatches(s, old, TRUE)
       /\ \A c \in left : \A r \in Range(c.requirements) : \E d \in left : MeetsOne(d, r)
       /\ JournalValid([action |-> "remove", package |-> s.name, old |-> old, new |-> None])
       /\ db' = [db EXCEPT ![s.name] = None]
  /\ calls' = calls + 1
  /\ UNCHANGED <<solverVars, builderVars, objects, job, client>>

(* A call ends with an error: an input fails its checks, or an operation  *)
(* on the way fails.  Solving and ordering do neither.                    *)
Fail ==
  /\ job.phase \notin {"idle", "solve", "order"}
  /\ job' = Idle
  /\ UNCHANGED <<solverVars, builderVars, objects, db, client, calls>>

(***************************************************************************)
(* Documents.  A remote one is fetched once, verified, and cached under    *)
(* the digest that the configuration pins.                                 *)
(***************************************************************************)
Network == job.cfg.network /\ ~Offline
Missing(cfg) ==
  {r.document.digest : r \in {q \in Range(Repositories(cfg)) : q.remote}} \ objects

FetchResource ==
  /\ In("fetch") /\ Network
  /\ \E d \in Missing(job.cfg) \cap Served : objects' = objects \cup {d}
  /\ UNCHANGED <<solverVars, builderVars, db, job, client, calls>>

(***************************************************************************)
(* Resolving the selector, and what is installed already.                  *)
(***************************************************************************)
CollectBy(selector) == {c \in Collect(job.cfg) : Selects(selector, c)}
CollectFor(k) == {c \in Collect(job.cfg) : Meets(c, k)}

(* The domain of a constraint: its candidates at the provider that is *)
(* chosen for it.                                                     *)
DomainFor(k) == Kept(Domain(CollectFor(k), None, None), LAMBDA c : Meets(c, k))

RetainedFor(r) ==
  LET s == [namespace |-> None, name |-> r.package, version |-> r.version] IN
  Retained(Range(Domain(CollectBy(s), None, r)), r)

(* Candidates join the universe, once each. *)
JoinedAll(u, q) ==
  LET known(c) == \E i \in DOMAIN u : GraphKey(u[i]) = GraphKey(c)
      fresh == {i \in DOMAIN q : ~known(q[i]) /\ \A j \in 1 .. i - 1 : GraphKey(q[j]) # GraphKey(q[i])}
      at == Listed(fresh, <) IN
  u \o [n \in DOMAIN at |-> q[at[n]]]
IndexIn(u, c) == CHOOSE i \in DOMAIN u : GraphKey(u[i]) = GraphKey(c)

(* The newest admissible candidate becomes the root of the plan; whatever  *)
(* else is installed is fixed, as the candidate its provider retains.      *)
Resolve ==
  /\ In("fetch") /\ job.verb # "build" /\ Missing(job.cfg) = {} /\ Readable(job.cfg)
  /\ LET s == job.selector
         old == db[s.name]
         C == CollectBy(s)
         domain == Domain(C, s.namespace, old)
         top == domain[Len(domain)]
         kept == {r \in Installed : r.package # s.name}
         byName == Listed(kept, LAMBDA r, t : Rank[r.package] < Rank[t.package])
         stay == [n \in DOMAIN byName |-> CHOOSE c \in RetainedFor(byName[n]) : TRUE]
         all == JoinedAll(<<top>>, stay) IN
     /\ domain # <<>> /\ ~Ambiguous(C, s.namespace, old)
     /\ old # None => FloorKept(old, top, job.cfg)
     /\ \A r \in kept : RetainedFor(r) # {}
     /\ job' = [job EXCEPT !.phase = "expand", !.cursor = 1, !.universe = all,
                           !.fixed = [n \in DOMAIN stay |-> IndexIn(all, stay[n])]]
  /\ UNCHANGED <<solverVars, builderVars, objects, db, client, calls>>

(* The plan of a build root starts from the requirements of the build. *)
ResolveBuild ==
  /\ In("fetch") /\ job.verb = "build" /\ Missing(job.cfg) = {} /\ Readable(job.cfg)
  /\ job' = [job EXCEPT !.phase = "expand"]
  /\ UNCHANGED <<solverVars, builderVars, objects, db, client, calls>>

(***************************************************************************)
(* Gathering candidates.  A requirement that a fixed package meets leads   *)
(* nowhere; a build root takes native packages only.                       *)
(***************************************************************************)
Due == IF job.cursor = 0 THEN job.wants ELSE job.universe[job.cursor].requirements
MetByFixed(r) == \E i \in Range(job.fixed) : MeetsOne(job.universe[i], r)

Eligible(k) ==
  IF job.verb = "build" THEN Kept(DomainFor(k), LAMBDA c : c.route = "native") ELSE DomainFor(k)
Alternatives(r) == LET q == SetToSeq(r) IN Flat([n \in DOMAIN q |-> Eligible(q[n])])
Gathered == LET q == Kept(Due, LAMBDA r : ~MetByFixed(r)) IN
            Flat([n \in DOMAIN q |-> Alternatives(q[n])])

(* Mutant: Only the requirements of the root are followed. *)
ExpandRoot ==
  /\ In("expand") /\ job.cursor <= Len(job.universe)
  /\ \A r \in Range(Due) : ~MetByFixed(r) => \A k \in r :
       /\ ~Ambiguous(CollectFor(k), None, None)
       /\ job.verb = "build" => k.name # BuildRoot
  /\ LET all == IF job.cursor > 1 THEN job.universe ELSE JoinedAll(job.universe, Gathered) IN
     /\ Len(all) <= IF job.verb = "build" THEN MaxGraph - 1 ELSE MaxGraph
     /\ job' = [job EXCEPT !.universe = all, !.cursor = @ + 1]
  /\ UNCHANGED <<solverVars, builderVars, objects, db, client, calls>>

Expand ==
  /\ In("expand") /\ job.cursor <= Len(job.universe)
  /\ \A r \in Range(Due) : ~MetByFixed(r) => \A k \in r :
       /\ ~Ambiguous(CollectFor(k), None, None)
       /\ job.verb = "build" => k.name # BuildRoot
  /\ LET all == JoinedAll(job.universe, Gathered) IN
     /\ Len(all) <= IF job.verb = "build" THEN MaxGraph - 1 ELSE MaxGraph
     /\ job' = [job EXCEPT !.universe = all, !.cursor = @ + 1]
  /\ UNCHANGED <<solverVars, builderVars, objects, db, client, calls>>

(* What a build asks for, as a package of its own. *)
BuildClosure(wants) ==
  [route |-> "closure", name |-> BuildRoot, version |-> "1", sequence |-> 1,
   requirements |-> wants, provides |-> <<>>, conflicts |-> <<>>]

(* The graph is put into clauses for a new solver. *)
Compile ==
  /\ In("expand") /\ job.cursor > Len(job.universe)
  /\ LET all == IF job.verb = "build" THEN Append(job.universe, BuildClosure(job.wants))
                ELSE job.universe
         root == IF job.verb = "build" THEN Len(all) ELSE 1
         cs == GraphClauses(all, root, job.fixed) IN
     /\ CandidatesValid(all, root, job.fixed)
     /\ \A c \in Range(cs) : Len(c) <= MaxClauseLen
     /\ Len(cs) <= MaxClauses
     /\ job' = [job EXCEPT !.phase = "solve", !.universe = all, !.root = root]
     /\ clauses' = cs /\ active' = VarsOf(cs)
  /\ StartSearch
  /\ UNCHANGED <<builderVars, objects, db, client, calls>>

(***************************************************************************)
(* Solving and ordering.                                                   *)
(***************************************************************************)
(* The solver searches, for whoever called it. *)
Search ==
  /\ SearchStep
  /\ UNCHANGED <<builderVars, serviceVars, client, calls>>

Unsatisfiable ==
  /\ In("solve") /\ search = "unsat"
  /\ job' = Idle /\ DropSolver
  /\ UNCHANGED <<builderVars, objects, db, client, calls>>

Selected == {CandidateOf(job.universe, v) : v \in Chosen}

BeginOrder ==
  /\ In("solve") /\ search = "sat"
  /\ job' = [job EXCEPT !.phase = "order",
               !.marks = [i \in DOMAIN job.universe |-> 0],
               !.roots = InKeyOrder(job.universe, Selected), !.selected = Selected]
  /\ DropSolver
  /\ UNCHANGED <<builderVars, objects, db, client, calls>>

(* visit_candidate: a candidate is entered, and left after its edges. *)
EdgesOf(i) == InKeyOrder(job.universe, Edges(job.universe, job.selected, i))
Enter(j, i) ==
  [j EXCEPT !.marks[i] = 1, !.stack = Append(@, [at |-> i, left |-> EdgesOf(i)])]
Top == job.stack[Len(job.stack)]
DropEdge(j) == [j EXCEPT !.stack[Len(j.stack)].left = Tail(@)]

VisitRoot ==
  /\ In("order") /\ job.stack = <<>> /\ job.roots # <<>>
  /\ LET i == Head(job.roots)
         j == [job EXCEPT !.roots = Tail(@)] IN
     job' = IF job.marks[i] = 2 THEN j ELSE Enter(j, i)
  /\ UNCHANGED <<solverVars, builderVars, objects, db, client, calls>>

VisitEdge ==
  /\ In("order") /\ job.stack # <<>> /\ Top.left # <<>>
  /\ LET i == Head(Top.left) IN
     job' = CASE job.marks[i] = 0 -> Enter(DropEdge(job), i)
              [] job.marks[i] = 1 -> Idle             \* a cycle: the call fails
              [] job.marks[i] = 2 -> DropEdge(job)
  /\ UNCHANGED <<solverVars, builderVars, objects, db, client, calls>>

(* Mutant: A candidate is put in order when it is entered. *)
LeaveReversed ==
  /\ In("order") /\ job.stack # <<>> /\ Top.left = <<>>
  /\ job' = [job EXCEPT !.marks[Top.at] = 2, !.order = <<Top.at>> \o @,
                        !.stack = SubSeq(@, 1, Len(@) - 1)]
  /\ UNCHANGED <<solverVars, builderVars, objects, db, client, calls>>

Leave ==
  /\ In("order") /\ job.stack # <<>> /\ Top.left = <<>>
  /\ job' = [job EXCEPT !.marks[Top.at] = 2, !.order = Append(@, Top.at),
                        !.stack = SubSeq(@, 1, Len(@) - 1)]
  /\ UNCHANGED <<solverVars, builderVars, objects, db, client, calls>>

Ordered ==
  /\ In("order") /\ job.stack = <<>> /\ job.roots = <<>>
  /\ job' = [job EXCEPT !.phase = "prepare"]
  /\ UNCHANGED <<solverVars, builderVars, objects, db, client, calls>>

(***************************************************************************)
(* Preparing the packages of a plan, in order.                             *)
(***************************************************************************)
Plan(n) == job.universe[job.order[n]]
RootPackage == job.universe[job.root].name
More == In("prepare") /\ job.verb # "build" /\ job.next <= Len(job.order)
Here == Plan(job.next)

(* What is installed and not the root stays as it is. *)
Skip ==
  /\ More /\ Here.name # RootPackage /\ db[Here.name] # None
  /\ job' = [job EXCEPT !.next = @ + 1]
  /\ UNCHANGED <<solverVars, builderVars, objects, db, client, calls>>

IsNew == More /\ (Here.name = RootPackage \/ db[Here.name] = None)
Prepared(r) ==
  /\ ReceiptValid(r)
  /\ job' = [job EXCEPT !.next = @ + 1, !.deps = None, !.receipts = Append(@, r)]

PrepareNative ==
  /\ IsNew /\ Here.route = "native"
  /\ Prepared(ReceiptFor(Here, job.cfg, Here.record.artifact, {}))
  /\ UNCHANGED <<solverVars, builderVars, objects, db, client, calls>>

BuildNeeds == Here.record.ingress.recipe.depends   \* names of native packages

(* A build with dependencies first has its root planned. *)
BeginBuildRoot ==
  /\ IsNew /\ Here.route = "source"
  /\ Translated(Here.record, job.cfg.compiler.arch)
  /\ BuildNeeds # <<>> /\ job.deps = None
  /\ Distinct(BuildNeeds)
  /\ job' = NewPlan("build", job.cfg, job.selector,
              [n \in DOMAIN BuildNeeds |-> {[name |-> BuildNeeds[n], versions |-> {}]}], job)
  /\ UNCHANGED <<solverVars, builderVars, objects, db, client, calls>>

(* The planned packages are unpacked into the root; the build gets it. *)
EndBuildRoot ==
  /\ In("prepare") /\ job.verb = "build"
  /\ LET deps == {BuildDependency(job.universe[i]) : i \in Range(job.order) \ {job.root}} IN
     /\ BuildDependenciesValid(deps)
     /\ job' = [job.outer EXCEPT !.deps = deps]
  /\ UNCHANGED <<solverVars, builderVars, objects, db, client, calls>>

(* The artifact of a source build is what the build makes. *)
PrepareSource ==
  /\ IsNew /\ Here.route = "source"
  /\ Translated(Here.record, job.cfg.compiler.arch)
  /\ BuildNeeds = <<>> \/ job.deps # None
  /\ CompilerReady(job.cfg.compiler)
  /\ Prepared(ReceiptFor(Here, job.cfg, <<"built", Here.content>>,
                         IF job.deps = None THEN {} ELSE job.deps))
  /\ UNCHANGED <<solverVars, builderVars, objects, db, client, calls>>

(* The new packages go into the journal, the root last, and the whole *)
(* transaction is applied, unless nothing changes.                    *)
Entry(r) == [package |-> r.package, old |-> db[r.package], new |-> r]
Entries ==
  LET others == Kept(job.receipts, LAMBDA r : r.package # RootPackage)
      root == Kept(job.receipts, LAMBDA r : r.package = RootPackage)
      q == others \o root IN
  [n \in DOMAIN q |-> Entry(q[n])]

Commit ==
  /\ In("prepare") /\ job.verb # "build" /\ job.next > Len(job.order)
  /\ GraphJournalValid([action |-> job.verb, root |-> RootPackage, entries |-> Entries])
  /\ db' = [p \in Package |->
              IF \E e \in Range(Entries) : e.package = p
              THEN (CHOOSE e \in Range(Entries) : e.package = p).new ELSE db[p]]
  /\ job' = Idle
  /\ UNCHANGED <<solverVars, builderVars, objects, client, calls>>

ServiceStep ==
  \/ Fail \/ FetchResource \/ Resolve \/ ResolveBuild \/ Expand \/ Compile
  \/ Unsatisfiable \/ BeginOrder \/ VisitRoot \/ VisitEdge \/ Leave \/ Ordered
  \/ Skip \/ PrepareNative \/ BeginBuildRoot \/ EndBuildRoot \/ PrepareSource \/ Commit

(* The other client: calls of the constraint builder, and searches. *)
BeginBuilderCall ==
  /\ client = "builder" /\ calls < MaxOps
  /\ \E o \in Ops : BeginCall(o)
  /\ calls' = calls + 1
  /\ UNCHANGED <<serviceVars, client>>

BuilderStep ==
  /\ client = "builder"
  /\ BuilderCall \/ BeginSolve
  /\ UNCHANGED <<serviceVars, client, calls>>

RunningStep == ServiceStep \/ BuilderStep \/ Search
Next == Begin \/ RemoveInstalled \/ BeginBuilderCall \/ RunningStep

Spec == Init /\ [][Next]_vars

(* A call runs on once it has begun: nothing in it waits for anyone else. *)
FairSpec == Spec /\ WF_vars(RunningStep)

-----------------------------------------------------------------------------
(***************************************************************************)
(* Properties.                                                             *)
(***************************************************************************)
Pinned == {job.root} \cup Range(job.fixed)

(***************************************************************************)
(* A plan that is carried out is a sound one: it holds the root and all    *)
(* that is installed, one version of each package, meets every             *)
(* requirement, contains no conflict, has each package once and after a    *)
(* member for each of its requirements, and takes only native packages     *)
(* into a build root (solve_dependency_graph, order_dependency_solution,   *)
(* resolve_build_root).                                                    *)
(***************************************************************************)
PlanSound ==
  In("prepare") =>
    LET u == job.universe
        S == Range(job.order) IN
    /\ Pinned \subseteq S /\ Coherent(u, S) /\ Distinct(job.order)
    /\ \A n \in DOMAIN job.order : \A r \in Range(u[job.order[n]].requirements) :
         \E m \in 1 .. n : MeetsOne(u[job.order[m]], r)
    /\ job.verb = "build" => \A i \in S \ {job.root} : u[i].route = "native"

(***************************************************************************)
(* Of all selections that would do, the plan is the one that, package by   *)
(* package in canonical order and oldest version first, leaves out         *)
(* whenever it can: nothing is installed that could be left out alone, and *)
(* an older version yields to a newer one (pick_branch_var, decide).       *)
(***************************************************************************)
PlanLeast ==
  In("prepare") =>
    LET u == job.universe
        S == Range(job.order) IN
    \A T \in SUBSET (DOMAIN u) :
      Pinned \subseteq T /\ T # S /\ Coherent(u, T) =>
        \E i \in T \ S : \A j \in S \ T : Before(u[i], u[j])

(* All candidates that a plan could reach: the least set that holds those  *)
(* it begins with and the alternatives for every requirement of a member.  *)
Reach ==
  LET all == Collect(job.cfg)
      needs(c) == {r \in Range(c.requirements) : ~MetByFixed(r)}
      offers(R) == UNION {Range(Eligible(k)) : k \in UNION R}
      start == IF job.verb = "build" THEN offers(Range(job.wants))
               ELSE {job.universe[i] : i \in Pinned}
      leads == [c \in all |-> offers(needs(c))]
      closed == {C \in SUBSET all : start \subseteq C /\ \A c \in C : leads[c] \subseteq C} IN
  {c \in all : \A C \in closed : c \in C}

(***************************************************************************)
(* "Unsatisfiable" is never a wrong answer: when the search gives up, no   *)
(* choice among the candidates that the repositories offer would have been *)
(* coherent with the root and with all that is installed                   *)
(* (expand_dependency_universe, Alchemist::solve).                         *)
(***************************************************************************)
RefusalJustified ==
  In("solve") /\ search = "unsat" =>
    LET must == {job.universe[i] : i \in Pinned}
        all == Reach \cup must IN
    \A S \in SUBSET all : must \subseteq S => ~Coherent([c \in all |-> c], S)

(***************************************************************************)
(* Every call comes to an end, with a result or an error: no search, no    *)
(* gathering of candidates and no ordering of a cyclic graph goes on       *)
(* forever, and neither does a call of the constraint builder.             *)
(***************************************************************************)
Busy == ~In("idle") \/ call.running \/ search \notin {"idle", "sat", "unsat"}
Resolves == Busy ~> ~Busy
=============================================================================
