------------------------------ MODULE BuildPool ------------------------------
(***************************************************************************)
(* What a build queue promises: a job that was put in waits until it is    *)
(* handed out or withdrawn, once; the next job handed out is one that no   *)
(* waiting job precedes in priority.                                       *)
(***************************************************************************)
EXTENDS Integers

CONSTANTS Job, Priority

VARIABLES
  waiting,   \* jobs put in and not taken out
  given,     \* jobs handed out
  left       \* jobs taken out in another way

vars == <<waiting, given, left>>

Init == waiting = {} /\ given = {} /\ left = {}

Put(j) ==
  /\ j \notin waiting \cup given \cup left
  /\ waiting' = waiting \cup {j}
  /\ UNCHANGED <<given, left>>

HandOut(j) ==
  /\ j \in waiting
  /\ \A k \in waiting : Priority[k] <= Priority[j]
  /\ waiting' = waiting \ {j}
  /\ given' = given \cup {j}
  /\ UNCHANGED left

Withdraw(j) ==
  /\ j \in waiting
  /\ waiting' = waiting \ {j}
  /\ left' = left \cup {j}
  /\ UNCHANGED given

Next == \E j \in Job : Put(j) \/ HandOut(j) \/ Withdraw(j)

Spec == Init /\ [][Next]_vars
=============================================================================
