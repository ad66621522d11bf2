----------------------------- MODULE Toolchain -----------------------------
(***************************************************************************)
(* The tools of the library that no program of the repository composes:    *)
(* the chain from fragments to a service, the engine that mutates a        *)
(* program, and the execution of worker requests.  They share no state, so *)
(* a behaviour is that of one of them.                                     *)
(***************************************************************************)
EXTENDS GenePipeline, Crucible, WorkerExecution

VARIABLE tool

toolVars == <<geneVars, engine, worker, tool>>

Init == GeneInit /\ EngineInit /\ WorkerInit /\ tool \in {"gene", "engine", "worker"}

Next ==
  /\ UNCHANGED tool
  /\ \/ tool = "gene" /\ GeneNext /\ UNCHANGED <<engine, worker>>
     \/ tool = "engine" /\ EngineNext /\ UNCHANGED <<geneVars, worker>>
     \/ tool = "worker" /\ WorkerNext /\ UNCHANGED <<geneVars, engine>>

Spec == Init /\ [][Next]_toolVars

(* The client polls as long as fragments are missing, and a peer that is asked   *)
(* again and again and is not silent answers at last, genuinely or not; calls of *)
(* the integrator and of the engine that were begun go on; and PID 1 takes       *)
(* commands from its ring.  Nothing is assumed of workers: run_once waits for    *)
(* the tool as long as it takes (executor.rs 121).                               *)
Fairness ==
  /\ WF_toolVars(tool = "gene" /\ Answered /\ UNCHANGED <<engine, worker, tool>>)
  /\ WF_toolVars(tool = "gene" /\ Commands /\ UNCHANGED <<engine, worker, tool>>)
  /\ WF_toolVars(tool = "engine" /\ EngineStep /\ UNCHANGED <<geneVars, worker, tool>>)

FairSpec == Spec /\ Fairness

-----------------------------------------------------------------------------
(* What the tools promise in every state: the chain from peers to PID 1 carries   *)
(* only what is genuine and whole, and evidence is only given for what was seen   *)
(* at each of the runs.                                                           *)
ToolsSound == GeneInv /\ EvidenceReproduced

(* What was begun ends, unless somebody outside who is never given up keeps it    *)
(* waiting: an artifact is assembled once an honest peer is admitted, whatever    *)
(* the others send, or the peer that is asked never answers; a call of the        *)
(* integrator returns and PID 1 empties its ring; and a mutation with a           *)
(* productive table ends (mycelium.rs 192, integrator.rs 33, crucible.rs 222).    *)
ToolsEnd ==
  /\ Assembles
  /\ IntegrationEnds
  /\ MutationEnds
=============================================================================
