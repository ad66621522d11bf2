------------------------------ MODULE Library ------------------------------
(***************************************************************************)
(* The parts of the library that no program of the repository composes,    *)
(* each with its own state: the tools, the store of generations, the       *)
(* ledger of packages and the scheduler of builds.  They share nothing, so *)
(* a behaviour is that of one of them.                                     *)
(***************************************************************************)
EXTENDS Toolchain, GenerationStore, PackageLedger, HelixScheduler

VARIABLE part

libraryVars == <<toolVars, storeVars, ledgerVars, helixVars, part>>

LibraryInit ==
  /\ part \in {"tools", "generations", "ledger", "helix"}
  /\ Init /\ (part # "tools" => tool = "gene")
  /\ StoreInit /\ LedgerInit
  /\ HelixInit /\ (part # "helix" => graph = NoGraph)

LibraryNext ==
  /\ UNCHANGED part
  /\ \/ part = "tools" /\ Next /\ UNCHANGED <<storeVars, ledgerVars, helixVars>>
     \/ part = "generations" /\ StoreNext /\ UNCHANGED <<toolVars, ledgerVars, helixVars>>
     \/ part = "ledger" /\ LedgerNext /\ UNCHANGED <<toolVars, storeVars, helixVars>>
     \/ part = "helix" /\ HelixNext /\ UNCHANGED <<toolVars, storeVars, ledgerVars>>

LibrarySpec == LibraryInit /\ [][LibraryNext]_libraryVars

(* Each part is scheduled as it is on its own. *)
LibraryFairSpec == LibrarySpec /\ Fairness /\ HelixFairness
=============================================================================
