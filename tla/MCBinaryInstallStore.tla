------------------------ MODULE MCBinaryInstallStore ------------------------
(***************************************************************************)
(* Two packages over three paths.  tool1 and tool2 are releases of "tool": *)
(* the update changes one file, drops one and adds one that "data" also    *)
(* wants, so that conflicts, shared paths and replacements all occur.      *)
(***************************************************************************)
EXTENDS BinaryInstallStore

CONSTANTS none

MCPackage == {"tool", "data"}
MCRelease == {"tool1", "tool2", "data1"}
MCPath == {"bin", "lib", "share"}
MCContent == {"tool1-bin", "tool1-lib", "tool2-bin", "tool2-share", "data1-share", "user"}
MCEdited == {"user"}
MCPackageOf == [r \in MCRelease |-> IF r = "data1" THEN "data" ELSE "tool"]
MCPayload ==
  [r \in MCRelease |-> [x \in MCPath |->
     CASE r = "tool1" /\ x = "bin" -> "tool1-bin"
       [] r = "tool1" /\ x = "lib" -> "tool1-lib"
       [] r = "tool2" /\ x = "bin" -> "tool2-bin"
       [] r = "tool2" /\ x = "share" -> "tool2-share"
       [] r = "data1" /\ x = "share" -> "data1-share"
       [] OTHER -> none]]
=============================================================================
