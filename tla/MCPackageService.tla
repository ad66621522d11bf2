-------------------------- MODULE MCPackageService --------------------------
(* A catalog with the shapes that make transactions interesting: a chain of   *)
(* new dependencies (app2, lib1, base1), an alternative that conflicts with    *)
(* the first choice (virt1), a new provenance for the same binary (app2b), and *)
(* a tool that needs what app2 drops, so that updating app brings in glue1,    *)
(* which itself needs the new root.                                           *)
EXTENDS PackageService

CONSTANTS app, lib, base, virt, tool, glue,
          app1, app2, app2b, lib1, base1, virt1, tool1, glue1,
          bApp1, bApp2, bLib1, bBase1, bVirt1, bTool1, bGlue1,
          none

MCReceiptAll == {app1, app2, app2b, lib1, base1, virt1, tool1, glue1}
MCPackageAll == {app, lib, base, virt, tool, glue}
MCArtifact == {bApp1, bApp2, bLib1, bBase1, bVirt1, bTool1, bGlue1}

MCPackageOfAll == [r \in MCReceiptAll |->
  CASE r \in {app1, app2, app2b} -> app
    [] r = lib1 -> lib
    [] r = base1 -> base
    [] r = virt1 -> virt
    [] r = tool1 -> tool
    [] r = glue1 -> glue]

MCIdentityAll == [r \in MCReceiptAll |->
  CASE r = app1 -> bApp1
    [] r \in {app2, app2b} -> bApp2
    [] r = lib1 -> bLib1
    [] r = base1 -> bBase1
    [] r = virt1 -> bVirt1
    [] r = tool1 -> bTool1
    [] r = glue1 -> bGlue1]

MCSequenceAll == [r \in MCReceiptAll |-> IF r \in {app2, app2b} THEN 2 ELSE 1]

MCRequiresAll == [r \in MCReceiptAll |->
  CASE r \in {app2, app2b} -> {{lib1, virt1}}
    [] r = lib1 -> {{base1}}
    [] r = tool1 -> {{app1, glue1}}
    [] r = glue1 -> {{app2, app2b}}
    [] OTHER -> {}]

MCConflictsAll == [r \in MCReceiptAll |-> IF r = virt1 THEN {lib1} ELSE {}]

(* The part of the catalog on the packages of P. *)
MCReceiptFor(P) == {r \in MCReceiptAll : MCPackageOfAll[r] \in P}

MCRestrict(f, P) == [r \in MCReceiptFor(P) |-> f[r]]

(* Every package. *)
MCPackage == MCPackageAll
MCReceipt == MCReceiptAll
MCPackageOf == MCPackageOfAll
MCIdentity == MCIdentityAll
MCSequence == MCSequenceAll
MCRequires == MCRequiresAll
MCConflicts == MCConflictsAll

(* app with either library. *)
SmallPackage == {app, lib, base, virt}
SmallReceipt == MCReceiptFor(SmallPackage)
SmallPackageOf == MCRestrict(MCPackageOfAll, SmallPackage)
SmallIdentity == MCRestrict(MCIdentityAll, SmallPackage)
SmallSequence == MCRestrict(MCSequenceAll, SmallPackage)
SmallRequires == MCRestrict(MCRequiresAll, SmallPackage)
SmallConflicts == MCRestrict(MCConflictsAll, SmallPackage)
=============================================================================
