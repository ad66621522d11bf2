----------------------------- MODULE UndoHistory -----------------------------
(***************************************************************************)
(* What the package ledger promises: a sequence of images, each published  *)
(* as a whole, in which the last Depth changes can be undone one by one,   *)
(* the latest first.  A restart goes back to the saved image and forgets   *)
(* what could be undone.                                                   *)
(***************************************************************************)
EXTENDS Naturals, Sequences

CONSTANTS Image, Empty, Depth

VARIABLES
  image,   \* the installed packages
  past,    \* the images that undoing leads back to, the latest last
  saved    \* the image that survives a restart

Init == image = Empty /\ past = << >> /\ saved = Empty

Change(new) ==
  /\ new # image
  /\ image' = new
  /\ LET longer == Append(past, image) IN
     past' = IF Len(past) < Depth THEN longer ELSE Tail(longer)
  /\ UNCHANGED saved

Undo ==
  /\ past # << >>
  /\ image' = past[Len(past)]
  /\ past' = SubSeq(past, 1, Len(past) - 1)
  /\ UNCHANGED saved

Save == saved' = image /\ UNCHANGED <<image, past>>

Restart == image' = saved /\ past' = << >> /\ UNCHANGED saved

Next == (\E new \in Image : Change(new)) \/ Undo \/ Save \/ Restart

Spec == Init /\ [][Next]_<<image, past, saved>>
=============================================================================
