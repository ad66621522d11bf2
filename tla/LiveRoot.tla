------------------------------ MODULE LiveRoot ------------------------------
(***************************************************************************)
(* What the owner of a target root promises: an install, an update or a    *)
(* removal changes all the files of one package and its ownership receipt  *)
(* in one step, only over files that nobody else has put there or changed. *)
(***************************************************************************)
EXTENDS Naturals

CONSTANTS
  Package, Release, Path,
  Content,     \* what a file may hold
  Edited,      \* the part of Content that only users write
  Absent,      \* no file, no receipt
  PackageOf,   \* release -> package
  Payload      \* release -> path -> Content, or Absent: not part of the payload

VARIABLES
  owned,   \* package -> the release its ownership receipt records, or Absent
  files,   \* path -> content, or Absent
  edits    \* how often users wrote: nothing else may change a file of theirs

vars == <<owned, files, edits>>

Files(r) == {x \in Path : Payload[r][x] # Absent}
OldFiles(p) == IF owned[p] = Absent THEN {} ELSE Files(owned[p])

Unmodified(p) == \A x \in OldFiles(p) : files[x] \in {Absent, Payload[owned[p]][x]}

Init ==
  /\ owned = [p \in Package |-> Absent]
  /\ files \in [Path -> Edited \cup {Absent}]
  /\ edits = 0

(* Install or replace: no file of the release is in the way. *)
Deploy(r) ==
  LET p == PackageOf[r] IN
  /\ Unmodified(p)
  /\ \A x \in Files(r) \ OldFiles(p) : files[x] = Absent
  /\ owned' = [owned EXCEPT ![p] = r]
  /\ files' = [x \in Path |->
       IF x \in Files(r) THEN Payload[r][x]
       ELSE IF x \in OldFiles(p) THEN Absent ELSE files[x]]
  /\ UNCHANGED edits

Remove(p) ==
  /\ owned[p] # Absent
  /\ Unmodified(p)
  /\ owned' = [owned EXCEPT ![p] = Absent]
  /\ files' = [x \in Path |-> IF x \in OldFiles(p) THEN Absent ELSE files[x]]
  /\ UNCHANGED edits

(* Users write and delete files as they like. *)
Edit(x, c) ==
  /\ edits' = edits + 1
  /\ files' = [files EXCEPT ![x] = c]
  /\ UNCHANGED owned

Next ==
  \/ \E r \in Release : Deploy(r)
  \/ \E p \in Package : Remove(p)
  \/ \E x \in Path : \E c \in Edited \cup {Absent} : Edit(x, c)

Spec == Init /\ [][Next]_vars

-----------------------------------------------------------------------------
(* Correctness *)

(* While users leave the files alone, every owned package has its files, every   *)
(* file an install brought has an owner, and no path has two.                    *)
Receipts ==
  edits = 0 =>
    /\ \A p \in Package : \A x \in OldFiles(p) : files[x] = Payload[owned[p]][x]
    /\ \A x \in Path : files[x] \in Content \ Edited =>
         \E p \in Package : owned[p] # Absent /\ Payload[owned[p]][x] = files[x]
    /\ \A p, q \in Package : p # q => OldFiles(p) \cap OldFiles(q) = {}
=============================================================================
