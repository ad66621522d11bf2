------------------------- MODULE GenerationHistory -------------------------
(***************************************************************************)
(* What the generation store promises its publishers: the active           *)
(* generation moves to a newer child of itself, or back to its own parent. *)
(***************************************************************************)
EXTENDS Naturals

CONSTANTS
  Image,    \* generation images, identified by their digest
  None,     \* NO_GENERATION
  Parent,   \* image -> the image it names as its parent, or None
  Number    \* image -> its generation number

VARIABLE active

Init == active = None

Newer(x) == IF active = None THEN Number[x] > 0 ELSE Number[x] > Number[active]

Publish(x) ==
  /\ Parent[x] = active
  /\ Newer(x)
  /\ active' = x

Rollback ==
  /\ active # None
  /\ active' = Parent[active]

Next == (\E x \in Image : Publish(x)) \/ Rollback

Spec == Init /\ [][Next]_active
=============================================================================
