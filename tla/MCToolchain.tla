---------------------------- MODULE MCToolchain ----------------------------
(***************************************************************************)
(* Two honest peers, one that lies and one that never answers, some nodes  *)
(* with the address of another or none; every program of up to two         *)
(* instructions, those of three that jump or call, and some longer ones;   *)
(* and worker requests with one and with two outputs.                      *)
(***************************************************************************)
EXTENDS Toolchain, CrucibleRuns

Node1(address, id, trust, latency) ==
  [address |-> address, id |-> id, trust |-> trust, latency |-> latency]
MCNode == {Node1(1, 1, 0, 1), Node1(2, 2, 1, 0), Node1(3, 3, 1, 1),
           Node1(1, 4, 1, 0), Node1(0, 5, 1, 0), Node1(4, 6, 1, 0)}
MCAuthentic == MCNode \ {Node1(4, 6, 1, 0)}

Fragment(index, length, depth, carries) ==
  [index |-> index, length |-> length, depth |-> depth, carries |-> carries]
MCLies == [i \in 0..1 |->
  {Fragment(i, Expected(i), 0, Unset), Fragment(i, 1, 0, i), Fragment(i, Expected(i), 9, i),
   Fragment(1 - i, Expected(i), 0, 1 - i), Genuine(i)}]

MCHash == [n \in {"corinth", "net", "arach"} |-> CASE n = "corinth" -> 1 [] n = "net" -> 2 [] OTHER -> 3]
Manifest1(name, depends, allowed) == [name |-> name, depends |-> depends, allowed |-> allowed]
MCManifest ==
  {Manifest1("corinth", <<"net", "arach">>, <<"MemoryCompression">>),
   Manifest1("corinth", <<>>, <<"ThermalEfficiency", "MaximumThroughput">>),
   Manifest1("arach", <<"net">>, <<>>),
   Manifest1("arach", <<"net", "net">>, <<"MaximumThroughput">>)}

I(op, a) == [op |-> op, a |-> a]
MCBodies == <<I("op", 7), I("site", 2), I("op", 8), I("site", 1), I("site", 2)>>
Fn(id, start, len) == [id |-> id, start |-> start, len |-> len]
(* Straight bodies; a function that calls another and one that grows for ever;    *)
(* two that replace each other; an empty body.                                    *)
MCTable ==
  {<<Fn(1, 0, 1), Fn(2, 2, 1), Fn(1, 4, 1)>>, <<Fn(1, 0, 2), Fn(2, 2, 2)>>,
   <<Fn(1, 1, 1), Fn(2, 3, 1)>>, <<Fn(1, 0, 0)>>}

Alphabet == {I("nop", 0), I("op", 1), I("jmp", 2), I("jz", 2), I("jz", -1), I("ret", 0),
             I("begin", 2), I("end", 0), I("site", 1)}
Turning == {I("op", 1), I("jmp", 2), I("jz", 2), I("jz", -1), I("site", 1)}
b == I("begin", 2)
e == I("end", 0)
x == I("op", 1)
y == I("op", 2)
MCProgram ==
  UNION {[1..n -> Alphabet] : n \in 0..2} \cup [1..3 -> Turning]
    \cup {<<b, x, e>> \o p : p \in [1..2 -> {b, e, y}]}
    \cup {<<b, b, x, e, y, e, y>>, <<b, x, b, y, e, e>>, <<b, x, e, b, y, y, e>>,
          <<I("begin", 3), x, y, e>>, <<I("begin", 5), x, e>>, <<b, I("site", 1), e, I("site", 2)>>,
          <<I("site", 1), I("site", 1), I("site", 1), x, y, x, y, x>>,
          <<I("jmp", 3), x, I("jz", 2), I("jmp", -2), I("ret", 0), y>>,
          <<I("jz", -5), I("site", 3), I("dead", 0), x>>,
          <<b, x, x, y, y, x, e>>, [k \in 1..15 |-> IF k < 14 THEN x ELSE y]}

Req(clean, capabilities, outputs, network, n) ==
  [clean |-> clean, capabilities |-> {"ReadInputs", "ExecuteTools"} \cup capabilities,
   inputs |-> <<"in">>, tools |-> <<"tool">>, outputs |-> outputs, network |-> network, runs |-> n]
To(path, max) == [path |-> path, max |-> max]
MCRequest ==
  {Req(TRUE, {"WriteOutputs"}, <<To("out", 1)>>, Denied, 2),
   Req(TRUE, {"WriteOutputs", "FixedOutputNetwork"}, <<To("out", 2), To("log", 2)>>, <<"https">>, 3),
   Req(TRUE, {"WriteOutputs"}, <<To("in", 2)>>, Denied, 2),
   Req(TRUE, {"WriteOutputs"}, <<To("out", 1)>>, Denied, 1),
   Req(FALSE, {"WriteOutputs"}, <<To("out", 1)>>, Denied, 2)}
MCFile == {[digest |-> 1, size |-> 1], [digest |-> 2, size |-> 2]}

(* One of the tools alone. *)
OnlyEngine == FairSpec /\ tool = "engine"
OnlyWorker == Spec /\ tool = "worker"
=============================================================================
