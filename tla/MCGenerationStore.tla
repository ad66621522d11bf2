-------------------------- MODULE MCGenerationStore --------------------------
(***************************************************************************)
(* A first generation, two children that race for it, a grandchild, and    *)
(* two images that publish must refuse for their numbers.                  *)
(***************************************************************************)
EXTENDS GenerationStore

CONSTANTS none

MCImage == {"first", "zero", "left", "right", "late", "third"}
MCParent ==
  [x \in MCImage |-> CASE x \in {"first", "zero"} -> none
                       [] x = "third" -> "left"
                       [] OTHER -> "first"]
MCNumber ==
  [x \in MCImage |-> CASE x = "zero" -> 0
                       [] x \in {"first", "late"} -> 1
                       [] x \in {"left", "right"} -> 2
                       [] OTHER -> 3]
=============================================================================
