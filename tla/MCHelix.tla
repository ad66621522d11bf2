------------------------------- MODULE MCHelix -------------------------------
(***************************************************************************)
(* Up to three packages with every list of up to two dependencies, also    *)
(* dependencies on themselves, twice on the same one and on one that is    *)
(* not there, for a ring of two slots, so that three jobs wrap.            *)
(***************************************************************************)
EXTENDS HelixScheduler

Lists(S) == UNION {[1..l -> S] : l \in 0..2}

MCGraph ==
  UNION {[n : {n}, deps : [0..n - 1 -> Lists(0..n)]] : n \in 0..2}
    \cup [n : {3}, deps : [0..2 -> Lists(0..2)]]
    \cup {[n |-> 4, deps |-> [i \in 0..3 |-> <<>>]],
          [n |-> 1, deps |-> [i \in {0} |-> <<0, 0, 0>>]]}

MCPriority == [j \in 0..2 |-> IF j = 1 THEN 2 ELSE 1]
=============================================================================
