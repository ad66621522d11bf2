--------------------------- MODULE DependencyGraph ---------------------------
(***************************************************************************)
(* The dependency metadata of package versions, and how a graph of         *)
(* candidates is put into clauses for the solver.  A candidate has a name, *)
(* a version, a sequence number and three lists: requirements (each a set  *)
(* of alternative constraints), the capabilities it provides, and the      *)
(* constraints it conflicts with.  A constraint names a package or         *)
(* capability and the versions it accepts, all of them when it lists none. *)
(***************************************************************************)
EXTENDS Integers, Sequences, FiniteSets, SequencesExt

CONSTANTS
  None,
  Rank,           \* name -> its place in the order of names
  MaxGraph,       \* MAX_PACKAGES
  MaxRelations,   \* MAX_PACKAGE_REQUIREMENTS, _CAPABILITIES and _CONSTRAINTS
  MaxOptions      \* MAX_REQUIREMENT_ALTERNATIVES; a clause holds as many literals

Distinct(s) == \A i, j \in DOMAIN s : i # j => s[i] # s[j]

(* A set as a sequence, in the order that Less says. *)
Listed(S, Less(_, _)) ==
  [n \in 1 .. Cardinality(S) |-> CHOOSE x \in S : Cardinality({y \in S : Less(y, x)}) = n - 1]

(* Pairs in order, by their first components and then by their second. *)
Earlier(p, q) == p[1] < q[1] \/ (p[1] = q[1] /\ p[2] < q[2])

(* The elements of a sequence that pass a test, and the sequences of a *)
(* sequence put end to end.                                            *)
Kept(s, Test(_)) ==
  LET at == Listed({i \in DOMAIN s : Test(s[i])}, <) IN [n \in DOMAIN at |-> s[at[n]]]
Flat(s) ==
  LET at == Listed(UNION {{<<i, n>> : n \in DOMAIN s[i]} : i \in DOMAIN s}, Earlier) IN
  [n \in DOMAIN at |-> s[at[n][1]][at[n][2]]]

(* package_satisfies_constraint *)
Meets(c, k) ==
  LET versions == (IF c.name = k.name THEN {c.version} ELSE {})
        \cup {IF p.version = None THEN c.version ELSE p.version : p \in {q \in Range(c.provides) : q.name = k.name}} IN
  versions # {} /\ (k.versions = {} \/ versions \cap k.versions # {})

MeetsOne(c, requirement) == \E k \in requirement : Meets(c, k)

(* validate_dependency_metadata; names and versions are taken to be well *)
(* formed.                                                               *)
MetadataValid(m) ==
  /\ Len(m.requirements) <= MaxRelations
  /\ Len(m.provides) <= MaxRelations
  /\ Len(m.conflicts) <= MaxRelations
  /\ \A r \in Range(m.requirements) : r # {} /\ Cardinality(r) <= MaxOptions
  /\ Distinct(m.requirements) /\ Distinct(m.provides) /\ Distinct(m.conflicts)

(* validate_candidates, and the bounds of solve_dependency_graph. *)
CandidatesValid(c, required, fixed) ==
  /\ required \in DOMAIN c
  /\ Len(c) <= MaxGraph
  /\ \A i, j \in DOMAIN c : i # j /\ c[i].name = c[j].name =>
       c[i].version # c[j].version /\ c[i].sequence # c[j].sequence
  /\ \A i \in DOMAIN c : MetadataValid(c[i])
  /\ Distinct(fixed) /\ Range(fixed) \subseteq DOMAIN c

(* The order in which variables are numbered. *)
Before(a, b) ==
  \/ Rank[a.name] < Rank[b.name]
  \/ a.name = b.name /\ a.sequence < b.sequence
VarOf(c, i) == 1 + Cardinality({j \in DOMAIN c : Before(c[j], c[i])})
CandidateOf(c, v) == CHOOSE i \in DOMAIN c : VarOf(c, i) = v

(* candidate_key: a set of candidates in the order of their variables. *)
InKeyOrder(c, S) == Listed(S, LAMBDA i, j : Before(c[i], c[j]))

On(v) == [var |-> v, sign |-> 1]
Off(v) == [var |-> v, sign |-> 0]

Exclude(c, i, j) == <<Off(VarOf(c, i)), Off(VarOf(c, j))>>

(* The candidates that meet a requirement, by variable. *)
Options(c, requirement) == InKeyOrder(c, {i \in DOMAIN c : MeetsOne(c[i], requirement)})

RequirementClause(c, i, requirement) ==
  LET options == Options(c, requirement) IN
  <<Off(VarOf(c, i))>> \o [n \in DOMAIN options |-> On(VarOf(c, options[n]))]

(* No two versions of one package: for each two of them, in order. *)
Rivals(c) ==
  LET named(v) == c[CandidateOf(c, v)].name
      q == Listed({p \in (DOMAIN c) \X (DOMAIN c) : p[1] < p[2] /\ named(p[1]) = named(p[2])},
                  Earlier) IN
  [n \in DOMAIN q |-> <<Off(q[n][1]), Off(q[n][2])>>]

ConflictClauses(c, i, k) ==
  LET others == InKeyOrder(c, {j \in DOMAIN c \ {i} : Meets(c[j], k)}) IN
  [n \in DOMAIN others |-> Exclude(c, i, others[n])]

(* What one candidate says of the others. *)
ClausesOf(c, i) ==
  [n \in DOMAIN c[i].requirements |-> RequirementClause(c, i, c[i].requirements[n])]
  \o Flat([n \in DOMAIN c[i].conflicts |-> ConflictClauses(c, i, c[i].conflicts[n])])

(* The clauses of solve_dependency_graph. *)
GraphClauses(c, required, fixed) ==
  <<<<On(VarOf(c, required))>>>>
  \o [n \in DOMAIN fixed |-> <<On(VarOf(c, fixed[n]))>>]
  \o Rivals(c)
  \o Flat([i \in DOMAIN c |-> ClausesOf(c, i)])

(***************************************************************************)
(* The order of a selection.  A requirement is tied to the member with the *)
(* highest sequence that meets it, of equals to the one first by name.     *)
(***************************************************************************)
Preferred(c, i, j) ==
  \/ c[i].sequence > c[j].sequence
  \/ c[i].sequence = c[j].sequence /\ Rank[c[i].name] <= Rank[c[j].name]

ProviderOf(c, S, requirement) ==
  CHOOSE i \in S : /\ MeetsOne(c[i], requirement)
                   /\ \A j \in S : MeetsOne(c[j], requirement) => Preferred(c, i, j)

Edges(c, S, i) == {ProviderOf(c, S, r) : r \in Range(c[i].requirements)} \ {i}

(***************************************************************************)
(* What a selection must be, said without clauses.                         *)
(***************************************************************************)
Coherent(c, S) ==
  /\ \A i, j \in S : i # j => c[i].name # c[j].name
  /\ \A i \in S : \A r \in Range(c[i].requirements) : \E j \in S : MeetsOne(c[j], r)
  /\ \A i \in S : \A k \in Range(c[i].conflicts) : \A j \in S \ {i} : ~Meets(c[j], k)
=============================================================================
