---------------------------- MODULE CrucibleRuns ----------------------------
(***************************************************************************)
(* What a program does, independently of the passes of Crucible: the       *)
(* straight-line instructions it runs, with the bodies of functions in the *)
(* place of their sites and loops as often as they count.                  *)
(***************************************************************************)
EXTENDS Crucible

(* loops is the stack of <<where, how often>>.                                   *)
RECURSIVE Runs(_, _, _, _)
Runs(c, t, i, loops) ==
  IF i > Len(c) \/ c[i].op = "ret" THEN <<>>
  ELSE CASE c[i].op = "op" -> <<c[i].a>> \o Runs(c, t, i + 1, loops)
         [] c[i].op = "site" ->
              (IF HasBody(t, c[i].a) THEN Runs(BodyOf(t, c[i].a), t, 1, <<>>) ELSE <<c[i]>>)
                \o Runs(c, t, i + 1, loops)
         [] c[i].op = "begin" ->
              Runs(c, t, i + 1, <<<<i, c[i].a>>>> \o loops)
         [] c[i].op = "end" ->
              IF loops[1][2] > 1
              THEN Runs(c, t, loops[1][1] + 1, [loops EXCEPT ![1][2] = @ - 1])
              ELSE Runs(c, t, i + 1, Tail(loops))
         [] OTHER -> Runs(c, t, i + 1, loops)

Trace(c, t) == Runs(c, t, 1, <<>>)

Depth(c, i) == Cardinality({k \in 1..i : c[k].op = "begin"}) - Cardinality({k \in 1..i : c[k].op = "end"})

(* A program for which the passes must not change what is run: no jumps, whose    *)
(* offsets they do not adjust, and loops that end, and count no more than the     *)
(* unroller copies.                                                               *)
Plain(c) ==
  /\ \A i \in DOMAIN c :
       /\ c[i].op \notin {"jmp", "jz", "dead"}
       /\ c[i].op = "begin" => c[i].a \in 1..MaxUnroll
       /\ Depth(c, i) >= 0
  /\ c # <<>> => Depth(c, Len(c)) = 0

(* A function body of a table: straight, without a return and without an end.     *)
PlainTable(t) ==
  \A k \in DOMAIN t : \A i \in DOMAIN BodyOf(t, t[k].id) :
    BodyOf(t, t[k].id)[i].op \in {"op", "nop"}

(* DcePass keeps what control reaches, and on a plain program all passes together *)
(* change nothing of what is run, wherever the room for inlining or unrolling     *)
(* runs out.                                                                      *)
MutationSound ==
  /\ BuriesDead
  /\ [][pass' = "done" /\ Plain(source) /\ PlainTable(table) =>
          Trace(code', table) = Trace(source, table)]_engine
=============================================================================
