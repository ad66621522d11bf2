-------------------------- MODULE PackageDatabase --------------------------
(***************************************************************************)
(* What the package service promises, without saying how: one database of  *)
(* installed receipts that whole transactions change atomically.  An       *)
(* install or update replaces at most the requested root and adds missing  *)
(* packages; a removal takes one package away; the installed set is        *)
(* consistent after each.                                                  *)
(***************************************************************************)
EXTENDS PackageGraph

VARIABLE db   \* package -> the receipt it is installed with, or Absent

Contents(d) == {d[p] : p \in Package} \ {Absent}

Init == db = [p \in Package |-> Absent]

(* Install or update `root`; of the other packages, none that is installed     *)
(* changes, and any that is missing may be brought in.                         *)
Transact(root) ==
  LET target == PackageOf[root] IN
  /\ db[target] # Absent => UpdateAllowed(db[target], root)
  /\ db' \in [Package -> Receipt \cup {Absent}]
  /\ db'[target] = root
  /\ \A p \in Package \ {target} : db[p] # Absent => db'[p] = db[p]
  /\ \A p \in Package : db'[p] # Absent => PackageOf[db'[p]] = p
  /\ Consistent(Contents(db'))

Remove(p) ==
  /\ db[p] # Absent
  /\ db' = [db EXCEPT ![p] = Absent]
  /\ Consistent(Contents(db'))

Next ==
  \/ \E root \in Receipt : Transact(root)
  \/ \E p \in Package : Remove(p)

Spec == Init /\ [][Next]_db
=============================================================================
