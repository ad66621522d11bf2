------------------------------ MODULE Crucible ------------------------------
(***************************************************************************)
(* CrucibleEngine of crucible.rs: a program of fixed-size instructions     *)
(* goes through the passes its focus asks for.  An instruction is          *)
(* [op, a]: what of its operands the passes read.  All the straight-line   *)
(* opcodes (MOV, ADD, CALL) are "op", told apart by a.                     *)
(***************************************************************************)
EXTENDS Integers, Sequences, SequencesExt

CONSTANTS
  Program,    \* programs that callers pass
  Table,      \* function tables: sequences of [id, start, len]
  Bodies,     \* the shared buffer that entries point into
  MaxIr,      \* MAX_IR_INSTRUCTIONS
  MaxUnroll,  \* MAX_UNROLL_FACTOR
  MaxBody     \* 256, the size of the buffer a loop body is captured in

Ops == {"nop", "op", "jmp", "jz", "ret", "begin", "end", "site", "dead"}
Instr == [op : Ops, a : Int]
Nop == [op |-> "nop", a |-> 0]
Dead == [op |-> "dead", a |-> 0]

ASSUME CrucibleAssumption ==
  /\ MaxIr \in Nat /\ MaxUnroll \in Nat /\ MaxBody \in Nat
  /\ Program \subseteq Seq(Instr) /\ Bodies \in Seq(Instr)
  /\ \A t \in Table : t \in Seq([id : Nat, start : Nat, len : Nat])
  /\ \A t \in Table : \A k \in DOMAIN t : t[k].start + t[k].len <= Len(Bodies)

VARIABLES
  pass,     \* "idle", "inline", "unroll", "dce", "mark", "compact" or "done"
  source,   \* what decode_from made of the input
  goal,     \* OptimizationFocus
  table,    \* FunctionTable
  code,     \* IrBuffer
  at,       \* the index (from 1) the inliner or the unroller has reached
  reached,  \* DcePass: the indices marked reachable
  queue,    \* DcePass: those still to be followed
  linear    \* the program as DcePass found it

engine == <<pass, source, goal, table, code, at, reached, queue, linear>>

EngineInit ==
  /\ pass = "idle" /\ source = <<>> /\ goal = "none" /\ table = <<>>
  /\ code = <<>> /\ at = 1 /\ reached = {} /\ queue = <<>> /\ linear = <<>>

(* ---- the rewriting of a buffer ---- *)

(* decode_from: what does not fit is not read. *)
Decoded(p) == SubSeq(p, 1, IF Len(p) < MaxIr THEN Len(p) ELSE MaxIr)

(* The entry of the function that is called, the first of its id. *)
Entries(id) == {k \in DOMAIN table : table[k].id = id}
Entry(id) == table[CHOOSE k \in Entries(id) : \A j \in Entries(id) : k <= j]

(* The body stands where the site was; an empty one leaves the site there. *)
Inlined(i, e) ==
  IF e.len = 0 THEN code
  ELSE SubSeq(code, 1, i - 1) \o SubSeq(Bodies, e.start + 1, e.start + e.len)
         \o SubSeq(code, i + 1, Len(code))

(* Mutant of LoopEnds: the nearest LOOP_END, whatever begins in between.         *)
NearestEnds(c, i) == {j \in i + 1..Len(c) : c[j].op = "end"}

(* find_loop_end: where as many loops were ended as were begun.                  *)
LoopEnds(c, i) ==
  {j \in i + 1..Len(c) :
     /\ c[j].op = "end"
     /\ Cardinality({k \in i..j : c[k].op = "begin"}) = Cardinality({k \in i..j : c[k].op = "end"})}

LoopEnd(c, i) == CHOOSE j \in LoopEnds(c, i) : \A k \in LoopEnds(c, i) : j <= k

Trips(i) == IF code[i].a < MaxUnroll THEN code[i].a ELSE MaxUnroll
Body(c, i) == SubSeq(c, i + 1, LoopEnd(c, i) - 1)

Copies(body, n) == FlattenSeq([k \in 1..n |-> body])

(* The copies come behind the LOOP_END, which like the LOOP_BEGIN becomes a NOP. *)
Unrolled(c, i) ==
  SubSeq(c, 1, i - 1) \o <<Nop>> \o Body(c, i) \o <<Nop>>
    \o Copies(Body(c, i), Trips(i) - 1) \o SubSeq(c, LoopEnd(c, i) + 1, Len(c))

(* ---- the passes ---- *)

Mutate(p, t, f) ==
  /\ source' = Decoded(p) /\ code' = Decoded(p)
  /\ goal' = f /\ table' = t /\ at' = 1
  /\ pass' = IF f = "MaximumThroughput" THEN "inline" ELSE "dce"
  /\ UNCHANGED <<reached, queue, linear>>

(* Mutant of Advance: the scan starts over.                                       *)
StartOver == at' = 1 /\ UNCHANGED code

Advance == at' = at + 1 /\ UNCHANGED code

(* Code that was inlined is scanned again.  The depth counter is raised and      *)
(* lowered around the whole pass and never stops it.                             *)
Inline ==
  /\ pass = "inline" /\ at <= Len(code)
  /\ LET c == code[at] IN
     IF c.op = "site" /\ Entries(c.a) # {} /\ Len(code) + Entry(c.a).len <= MaxIr
     THEN code' = Inlined(at, Entry(c.a)) /\ UNCHANGED at
     ELSE Advance
  /\ UNCHANGED <<pass, source, goal, table, reached, queue, linear>>

Inlining == pass = "inline" /\ at > Len(code) /\ pass' = "unroll" /\ at' = 1
            /\ UNCHANGED <<source, goal, table, code, reached, queue, linear>>

Unrolls ==
  /\ code[at].op = "begin" /\ Trips(at) >= 2 /\ LoopEnds(code, at) # {}
  /\ LET n == Len(Body(code, at)) IN
     n # 0 /\ n <= MaxBody /\ n * Trips(at) + Len(code) <= MaxIr

Unroll ==
  /\ pass = "unroll" /\ at <= Len(code)
  /\ IF Unrolls
     THEN /\ code' = Unrolled(code, at)
          /\ at' = LoopEnd(code, at) + 1 + Len(Body(code, at)) * (Trips(at) - 1)
     ELSE Advance
  /\ UNCHANGED <<pass, source, goal, table, reached, queue, linear>>

Unrolling == pass = "unroll" /\ at > Len(code) /\ pass' = "dce"
             /\ UNCHANGED <<source, goal, table, code, at, reached, queue, linear>>

(* DcePass::run: an empty program is left alone. *)
Enter ==
  /\ pass = "dce"
  /\ linear' = code
  /\ IF code = <<>> THEN pass' = "compact" /\ UNCHANGED <<reached, queue>>
     ELSE pass' = "mark" /\ reached' = {1} /\ queue' = <<1>>
  /\ UNCHANGED <<source, goal, table, code, at>>

(* Mutant of Follows: a conditional jump is taken for one that always jumps.     *)
FollowsAsJump(c, i) == c[i].op \notin {"jmp", "jz", "ret", "dead"}

(* May control go on to the next instruction?                                    *)
Follows(c, i) == c[i].op \notin {"jmp", "ret", "dead"}

(* Where it goes from i; a target outside of the program is not followed. *)
Successors(c, i) ==
  {j \in DOMAIN c : \/ Follows(c, i) /\ j = i + 1
                    \/ c[i].op \in {"jmp", "jz"} /\ j = i + c[i].a}

Mark ==
  /\ pass = "mark" /\ queue # <<>>
  /\ LET next == Head(queue) + 1
         new  == Successors(code, Head(queue)) \ reached IN
     /\ reached' = reached \cup new
     /\ queue' = Tail(queue) \o SetToSeq(new \cap {next}) \o SetToSeq(new \ {next})
  /\ UNCHANGED <<pass, source, goal, table, code, at, linear>>

Bury ==
  /\ pass = "mark" /\ queue = <<>>
  /\ code' = [i \in DOMAIN code |-> IF i \in reached THEN code[i] ELSE Dead]
  /\ pass' = "compact"
  /\ UNCHANGED <<source, goal, table, at, reached, queue, linear>>

Compact ==
  /\ pass = "compact"
  /\ pass' = "done"
  /\ code' = IF goal = "MemoryCompression"
             THEN SelectSeq(code, LAMBDA c : c.op \notin {"dead", "nop"}) ELSE code
  /\ UNCHANGED <<source, goal, table, at, reached, queue, linear>>

EngineStep == Inline \/ Inlining \/ Unroll \/ Unrolling \/ Enter \/ Mark \/ Bury \/ Compact

Goals == {"MaximumThroughput", "ThermalEfficiency", "MemoryCompression"}

EngineNext ==
  \/ pass = "idle" /\ \E p \in Program, t \in Table, f \in Goals : Mutate(p, t, f)
  \/ EngineStep

-----------------------------------------------------------------------------
HasBody(t, id) == \E k \in DOMAIN t : t[k].id = id
BodyOf(t, id) ==
  LET e == t[CHOOSE k \in DOMAIN t : t[k].id = id /\ \A j \in 1..k - 1 : t[j].id # id] IN
  SubSeq(Bodies, e.start + 1, e.start + e.len)

(* Where control can go from an instruction, and the least set of instructions    *)
(* that holds the first one and where control goes from its members.              *)
Goes(c, i) ==
  {i + d : d \in CASE c[i].op = "jmp" -> {c[i].a}
                    [] c[i].op = "jz" -> {1, c[i].a}
                    [] c[i].op \in {"ret", "dead"} -> {}
                    [] OTHER -> {1}} \cap DOMAIN c
Closed(c, s) == 1 \in s /\ \A i \in s : Goes(c, i) \subseteq s
Least(c, s) == Closed(c, s) /\ \A v \in SUBSET s : Closed(c, v) => v = s

(* A table is productive when no site can be replaced for ever by code that is no *)
(* longer than the site.                                                          *)
Replaces(t, id) == HasBody(t, id) /\ Len(BodyOf(t, id)) = 1 /\ BodyOf(t, id)[1].op = "site"
Ids(t) == {t[k].id : k \in DOMAIN t}
Productive(t) ==
  \E rank \in [Ids(t) -> 0..Len(t)] : \A id \in Ids(t) :
    /\ Len(BodyOf(t, id)) # 0
    /\ Replaces(t, id) /\ BodyOf(t, id)[1].a \in Ids(t) => rank[BodyOf(t, id)[1].a] < rank[id]

(* DcePass buries exactly what no control flow reaches, in whatever order its     *)
(* queue finds it, and leaves the rest of the program as it was.                  *)
BuriesDead ==
  [][pass = "mark" /\ pass' = "compact" =>
          /\ Least(linear, reached)
          /\ \A i \in DOMAIN linear : code'[i] = linear[i] \/ i \notin reached]_engine

(* The inliner goes on behind the code it has put in once that holds no site any  *)
(* more or the buffer is full (crucible.rs 222): with a productive table every    *)
(* mutation ends.                                                                 *)
MutationEnds == pass # "idle" /\ Productive(table) ~> pass = "done"

(* "Prevents recursive infinite inlining via depth counter." (crucible.rs 145):   *)
(* every mutation ends, whatever the table.                                       *)
EveryMutationEnds == pass # "idle" ~> pass = "done"
=============================================================================
