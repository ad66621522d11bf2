----------------------------- MODULE DpllSolver -----------------------------
(***************************************************************************)
(* ALCHEMIST, the satisfiability solver of the dependency resolver: one    *)
(* variable for each version of each package, a list of clauses, and a     *)
(* search that propagates unit clauses, decides the first undecided        *)
(* variable to be absent, and on a conflict turns the latest such decision *)
(* around.  The statistics and the recorded reasons and levels, which no   *)
(* step reads, are left out.                                               *)
(***************************************************************************)
EXTENDS Integers, Sequences, FiniteSets

CONSTANTS MaxPackages, MaxClauses, MaxClauseLen, MaxTrail

ASSUME SolverAssumption ==
  /\ MaxPackages \in Nat \ {0} /\ MaxClauses \in Nat
  /\ MaxClauseLen \in Nat /\ MaxTrail \in Nat

Unset == -1
Var == 1 .. MaxPackages
Lit == [var : Var, sign : {0, 1}]
Pos(v) == [var |-> v, sign |-> 1]
Neg(v) == [var |-> v, sign |-> 0]

VARIABLES
  clauses,     \* the clauses, in the order they were added
  active,      \* the variables that occur in them
  assignment,  \* variable -> Unset, 0 (absent) or 1 (present)
  trail,       \* the literals assigned, in order
  frames,      \* the open decisions: [var, start, positive]
  scan,        \* the next clause that propagation looks at
  forced,      \* whether this pass over the clauses has forced a literal
  search       \* what the search does next

solverVars == <<clauses, active, assignment, trail, frames, scan, forced, search>>
searchVars == <<assignment, trail, frames, scan, forced, search>>

Literals(c) == {c[i] : i \in DOMAIN c}
VarsOf(cs) == {l.var : l \in UNION {Literals(cs[i]) : i \in DOMAIN cs}}

(* Clause::status under an assignment. *)
Satisfied(c, a) == \E l \in Literals(c) : a[l.var] = l.sign
Open(c, a) == {i \in DOMAIN c : a[c[i].var] = Unset}
Conflicting(c, a) == ~Satisfied(c, a) /\ Open(c, a) = {}
Unit(c, a) == ~Satisfied(c, a) /\ Cardinality(Open(c, a)) = 1

(* Whether add_clause takes a clause that a list of clauses is to grow by. *)
Addable(cs, c) ==
  Len(cs) < MaxClauses /\ Len(c) <= MaxClauseLen /\ \A l \in Literals(c) : l.var \in Var

SolverInit ==
  /\ clauses = <<>> /\ active = {}
  /\ assignment = [v \in Var |-> Unset]
  /\ trail = <<>> /\ frames = <<>>
  /\ scan = 1 /\ forced = FALSE /\ search = "idle"

(* solve starts from nothing, whatever an earlier search left behind. *)
StartSearch ==
  /\ assignment' = [v \in Var |-> Unset]
  /\ trail' = <<>> /\ frames' = <<>>
  /\ scan' = 1 /\ forced' = FALSE /\ search' = "propagate"

(* A client that is done with the solver drops it. *)
DropSolver ==
  /\ clauses' = <<>> /\ active' = {}
  /\ assignment' = [v \in Var |-> Unset]
  /\ trail' = <<>> /\ frames' = <<>>
  /\ scan' = 1 /\ forced' = FALSE /\ search' = "idle"

Assigned(a, l) == [a EXCEPT ![l.var] = l.sign]
Trailed(t, l) == IF Len(t) < MaxTrail THEN Append(t, l) ELSE t

(* The first clause at or after `scan` that is unit or in conflict. *)
Pending(i) ==
  /\ i \in DOMAIN clauses /\ i >= scan
  /\ Unit(clauses[i], assignment) \/ Conflicting(clauses[i], assignment)
FirstPending(i) == Pending(i) /\ \A j \in scan .. i - 1 : ~Pending(j)

ForceUnit ==
  /\ search = "propagate"
  /\ \E i \in DOMAIN clauses :
       /\ FirstPending(i) /\ Unit(clauses[i], assignment)
       /\ \E k \in Open(clauses[i], assignment) :
            /\ assignment' = Assigned(assignment, clauses[i][k])
            /\ trail' = Trailed(trail, clauses[i][k])
       /\ scan' = i + 1 /\ forced' = TRUE
  /\ UNCHANGED <<clauses, active, frames, search>>

Conflict ==
  /\ search = "propagate"
  /\ \E i \in DOMAIN clauses : FirstPending(i) /\ Conflicting(clauses[i], assignment)
  /\ search' = "backtrack"
  /\ UNCHANGED <<clauses, active, assignment, trail, frames, scan, forced>>

(* A pass over all clauses ends: another one, unless it forced nothing. *)
PassEnds ==
  /\ search = "propagate"
  /\ ~\E i \in DOMAIN clauses : Pending(i)
  /\ scan' = 1 /\ forced' = FALSE
  /\ search' = IF forced THEN "propagate" ELSE "decide"
  /\ UNCHANGED <<clauses, active, assignment, trail, frames>>

(* pick_branch_var: the first variable in use that has no value.  There is *)
(* room for a decision about every variable.                               *)
Branch(v) ==
  /\ v \in active /\ assignment[v] = Unset
  /\ \A w \in active : w < v => assignment[w] # Unset

(* Mutant: The first variable is decided to be present. *)
DecidePresent ==
  /\ search = "decide"
  /\ \E v \in Var :
       /\ Branch(v) /\ Len(frames) < MaxPackages
       /\ frames' = Append(frames, [var |-> v, start |-> Len(trail), positive |-> FALSE])
       /\ assignment' = Assigned(assignment, Pos(v))
       /\ trail' = Trailed(trail, Pos(v))
  /\ search' = "propagate"
  /\ UNCHANGED <<clauses, active, scan, forced>>

Decide ==
  /\ search = "decide"
  /\ \E v \in Var :
       /\ Branch(v) /\ Len(frames) < MaxPackages
       /\ frames' = Append(frames, [var |-> v, start |-> Len(trail), positive |-> FALSE])
       /\ assignment' = Assigned(assignment, Neg(v))
       /\ trail' = Trailed(trail, Neg(v))
  /\ search' = "propagate"
  /\ UNCHANGED <<clauses, active, scan, forced>>

AllDecided ==
  /\ search = "decide"
  /\ ~\E v \in Var : Branch(v)
  /\ search' = "sat"
  /\ UNCHANGED <<clauses, active, assignment, trail, frames, scan, forced>>

(* unassign_back_to: the literals that go are unset, the others stay. *)
Unwound(n) ==
  [v \in Var |-> IF \E i \in n + 1 .. Len(trail) : trail[i].var = v THEN Unset ELSE assignment[v]]

(* Mutant: A decision turned around is not marked as such. *)
TurnAroundForever ==
  /\ search = "backtrack" /\ frames # <<>>
  /\ LET f == frames[Len(frames)]
         kept == SubSeq(trail, 1, f.start) IN
     IF ~f.positive
     THEN /\ UNCHANGED frames
          /\ assignment' = Assigned(Unwound(f.start), Pos(f.var))
          /\ trail' = Trailed(kept, Pos(f.var))
          /\ search' = "propagate"
     ELSE /\ frames' = SubSeq(frames, 1, Len(frames) - 1)
          /\ assignment' = Unwound(f.start)
          /\ trail' = kept
          /\ UNCHANGED search
  /\ scan' = 1 /\ forced' = FALSE
  /\ UNCHANGED <<clauses, active>>

(* The latest decision is turned around, or given up when it was already. *)
TurnAround ==
  /\ search = "backtrack" /\ frames # <<>>
  /\ LET f == frames[Len(frames)]
         kept == SubSeq(trail, 1, f.start) IN
     IF ~f.positive
     THEN /\ frames' = [frames EXCEPT ![Len(frames)].positive = TRUE]
          /\ assignment' = Assigned(Unwound(f.start), Pos(f.var))
          /\ trail' = Trailed(kept, Pos(f.var))
          /\ search' = "propagate"
     ELSE /\ frames' = SubSeq(frames, 1, Len(frames) - 1)
          /\ assignment' = Unwound(f.start)
          /\ trail' = kept
          /\ UNCHANGED search
  /\ scan' = 1 /\ forced' = FALSE
  /\ UNCHANGED <<clauses, active>>

Refute ==
  /\ search = "backtrack" /\ frames = <<>>
  /\ search' = "unsat"
  /\ UNCHANGED <<clauses, active, assignment, trail, frames, scan, forced>>

SearchStep ==
  ForceUnit \/ Conflict \/ PassEnds \/ Decide \/ AllDecided \/ TurnAround \/ Refute

(* The variables that a satisfying assignment selects. *)
Chosen == {v \in Var : assignment[v] = 1}
=============================================================================
