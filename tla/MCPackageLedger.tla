--------------------------- MODULE MCPackageLedger ---------------------------
(* The digest is as weak as can be: the number of installed packages. *)
EXTENDS PackageLedger

CONSTANTS writer, core, net, shell

MCBuiltin == [n \in PackageName |-> IF n = core THEN 2 ELSE 1]
MCDigest(i) == Cardinality(Contents(i))
=============================================================================
