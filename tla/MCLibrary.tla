----------------------------- MODULE MCLibrary -----------------------------
(* Each part on the instance that is made for it. *)
EXTENDS Library, MCToolchain, MCGenerationStore, MCPackageLedger, MCHelix
=============================================================================
