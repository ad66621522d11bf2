-------------------------- MODULE ConstraintBuilder --------------------------
(***************************************************************************)
(* The builder through which a client states constraints on (name,         *)
(* version) pairs: each call numbers the pairs it meets and adds its       *)
(* clauses one by one, and a call that runs out of room takes back what it *)
(* did.  The hash that stands for a name in the code is taken to be        *)
(* without collisions.                                                     *)
(***************************************************************************)
EXTENDS DpllSolver, SequencesExt

CONSTANTS Ops   \* the calls a client may make: [op, a, va, b, versions]

VARIABLES
  registry,  \* the pairs that have a variable, in the order of their numbers
  call       \* the running call: what is left to add, and where it began

builderVars == <<registry, call>>

NoCall == [todo |-> <<>>, running |-> FALSE, registry |-> <<>>, clauses |-> <<>>, failed |-> FALSE]

BuilderInit == registry = <<>> /\ call = NoCall

Pair(name, version) == <<name, version>>
Numbered(p) == \E i \in DOMAIN registry : registry[i] = p
IdOf(reg, p) == CHOOSE i \in DOMAIN reg : reg[i] = p

StrictlyIncreasing(s) == \A i \in 1 .. Len(s) - 1 : s[i] < s[i + 1]

(* A clause before its pairs have numbers. *)
Term(p, sign) == [pair |-> p, sign |-> sign]

(* require *)
Required(o) == <<<<Term(Pair(o.a, o.va), 1)>>>>

(* dependency: the newest acceptable version is numbered first. *)
Dependency(o) ==
  LET n == Len(o.versions) IN
  <<<<Term(Pair(o.a, o.va), 0)>>
    \o [i \in 1 .. n |-> Term(Pair(o.b, o.versions[n + 1 - i]), 1)]>>

(* conflict *)
Excluded(o) == <<<<Term(Pair(o.a, o.va), 0), Term(Pair(o.b, o.versions[1]), 0)>>>>

(* at_most_one_version: one clause for each two versions, in order. *)
Twos(n) == {p \in (1 .. n) \X (1 .. n) : p[1] < p[2]}
Place(p, n) ==
  1 + Cardinality({q \in Twos(n) : q[1] < p[1] \/ (q[1] = p[1] /\ q[2] < p[2])})
AtMostOne(o) ==
  LET n == Len(o.versions)
      twos == [k \in 1 .. Cardinality(Twos(n)) |-> CHOOSE p \in Twos(n) : Place(p, n) = k] IN
  [k \in DOMAIN twos |->
     <<Term(Pair(o.a, o.versions[twos[k][1]]), 0), Term(Pair(o.a, o.versions[twos[k][2]]), 0)>>]

WellFormed(o) ==
  CASE o.op = "dependency" ->
         o.versions # <<>> /\ Len(o.versions) < MaxClauseLen /\ StrictlyIncreasing(o.versions)
    [] o.op = "at most one" -> StrictlyIncreasing(o.versions)
    [] OTHER -> TRUE

Templates(o) ==
  CASE o.op = "require" -> Required(o)
    [] o.op = "dependency" -> Dependency(o)
    [] o.op = "conflict" -> Excluded(o)
    [] o.op = "at most one" -> AtMostOne(o)

(* A call begins with a checkpoint; one that is malformed does nothing. *)
BeginCall(o) ==
  /\ ~call.running /\ search \in {"idle", "sat", "unsat"}
  /\ WellFormed(o)
  /\ call' = [todo |-> Templates(o), running |-> TRUE, failed |-> FALSE,
              registry |-> registry, clauses |-> clauses]
  /\ search' = "idle"
  /\ UNCHANGED <<clauses, active, assignment, trail, frames, scan, forced, registry>>

(* intern: the pairs of a clause in order, those without a number. *)
NewPairs(t) ==
  LET fresh == {i \in DOMAIN t : ~Numbered(t[i].pair) /\ \A j \in 1 .. i - 1 : t[j].pair # t[i].pair}
      nth(k) == CHOOSE i \in fresh : Cardinality({j \in fresh : j < i}) = k - 1 IN
  [k \in 1 .. Cardinality(fresh) |-> t[nth(k)].pair]

(* The next clause is numbered and added; pairs stay numbered if it fails. *)
AddConstraint ==
  /\ call.running /\ ~call.failed /\ call.todo # <<>>
  /\ LET t == Head(call.todo)
         all == registry \o NewPairs(t)
         fits == Len(all) <= MaxPackages
         c == [i \in DOMAIN t |-> [var |-> IdOf(all, t[i].pair), sign |-> t[i].sign]]
         added == fits /\ Addable(clauses, c) IN
     /\ registry' = IF fits THEN all ELSE SubSeq(all, 1, MaxPackages)
     /\ clauses' = IF added THEN Append(clauses, c) ELSE clauses
     /\ active' = IF added THEN active \cup VarsOf(<<c>>) ELSE active
     /\ call' = [call EXCEPT !.todo = Tail(@), !.failed = ~added]
  /\ UNCHANGED searchVars

CallSucceeds ==
  /\ call.running /\ ~call.failed /\ call.todo = <<>>
  /\ call' = NoCall
  /\ UNCHANGED <<solverVars, registry>>

(* Mutant: The variables of the clauses taken back stay in use. *)
CallFailsButActive ==
  /\ call.running /\ call.failed
  /\ clauses' = SubSeq(clauses, 1, Len(call.clauses))
  /\ UNCHANGED active
  /\ registry' = SubSeq(registry, 1, Len(call.registry))
  /\ call' = NoCall
  /\ UNCHANGED searchVars

(* finish: back to the checkpoint; the variables in use are found anew. *)
CallFails ==
  /\ call.running /\ call.failed
  /\ clauses' = SubSeq(clauses, 1, Len(call.clauses))
  /\ active' = VarsOf(clauses')
  /\ registry' = SubSeq(registry, 1, Len(call.registry))
  /\ call' = NoCall
  /\ UNCHANGED searchVars

BeginSolve ==
  /\ ~call.running /\ search = "idle" /\ clauses # <<>>
  /\ StartSearch
  /\ UNCHANGED <<clauses, active, registry, call>>

BuilderCall == AddConstraint \/ CallSucceeds \/ CallFails

(* The packages a client reads from the assignment (extract_selection). *)
Selection == {registry[v] : v \in Chosen \cap DOMAIN registry}

(***************************************************************************)
(* Between calls the clauses, and the variables in use, are those of the   *)
(* calls that succeeded: a call that fails leaves no trace, in no table    *)
(* (checkpoint, finish, truncate_clauses).                                 *)
(***************************************************************************)
CallsAtomic ==
  [][call.running /\ ~call'.running =>
       /\ active' = VarsOf(clauses')
       /\ call.failed => clauses' = call.clauses /\ registry' = call.registry
       /\ \A i \in DOMAIN clauses' : \A l \in Literals(clauses'[i]) : l.var <= Len(registry')]_<<solverVars, builderVars>>
=============================================================================
