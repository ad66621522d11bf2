---------------------------- MODULE GenePipeline ----------------------------
(***************************************************************************)
(* From fragments to a service: finish and validate of mycelium.rs and     *)
(* dna.rs make a gene of the assembled artifact, synthesize of             *)
(* synthesizer.rs lowers and publishes it, and integrate_into_matrix hands *)
(* it to PID 1.  The lowering backend and the publisher are traits the     *)
(* caller supplies.  The types let a gene only come from validate, so the  *)
(* client's calls are these, in this order.                                *)
(***************************************************************************)
EXTENDS FragmentSwarm, MatrixIntegrator

CONSTANTS
  Manifest,        \* what callers pass to finish: [name, depends, allowed]
  MaxDependencies, MaxFoci,
  EmptyName, LongName,
  Version,         \* the leading bytes of the Merkle root as an integer
  Temperature, ThermalLimit,
  NoGene

ASSUME PipelineAssumption ==
  /\ EmptyName \notin Name /\ LongName \notin Name
  /\ Version \in Nat /\ MaxDependencies \in Nat /\ MaxFoci \in Nat
  /\ Temperature \subseteq Nat /\ ThermalLimit \in Nat
  /\ \A m \in Manifest :
       m.allowed \in Seq(STRING) /\ m.depends \in Seq(Name \cup {EmptyName, LongName})

VARIABLES
  sequence,   \* the validated gene
  focus,      \* the mutation that the backend was asked for
  inode,      \* what the publisher returned
  published   \* what it was given: [name, version, code]

pipeline == <<sequence, focus, inode, published>>
geneVars == <<swarm, integrator, pipeline>>

GeneInit ==
  /\ SwarmInit /\ IntegratorInit
  /\ sequence = NoGene /\ focus = "none" /\ inode = 0 /\ published = {}

Distinct(s) == \A j, k \in DOMAIN s : s[j] = s[k] => j = k

(* GeneSequence::validate. *)
ValidGene(m) ==
  /\ m.name \in Name /\ Version # 0
  /\ Len(m.depends) <= MaxDependencies /\ Len(m.allowed) <= MaxFoci
  /\ \A k \in DOMAIN m.depends : m.depends[k] \in Name
  /\ Distinct(m.depends)

(* finish: the payload is what the buffer holds, when the call passes all of it. *)
Finish(m) ==
  /\ sequence = NoGene
  /\ \/ answer' = "Incomplete" /\ UNCHANGED sequence
     \/ /\ IsComplete /\ ValidGene(m)
        /\ answer' = "gene"
        /\ sequence' = [name |-> m.name, depends |-> m.depends, allowed |-> m.allowed, payload |-> output]
     \/ IsComplete /\ ~ValidGene(m) /\ answer' = "GeneError" /\ UNCHANGED sequence
  /\ UNCHANGED <<peers, received, output, integrator, focus, inode, published>>

(* ---- synthesize ---- *)

Preferred(t) == IF t >= ThermalLimit THEN "ThermalEfficiency" ELSE "MaximumThroughput"

Focus(allowed, t) == IF \E k \in DOMAIN allowed : allowed[k] = Preferred(t) THEN Preferred(t) ELSE allowed[1]

Code == [payload |-> sequence.payload, focus |-> focus']

(* The backend fails, or writes nothing, or more than there is room for: nothing *)
(* is published.                                                                 *)
Synthesize(t) ==
  /\ sequence # NoGene /\ inode = 0
  /\ IF sequence.allowed = <<>>
     THEN answer' = "NoAllowedMutation" /\ UNCHANGED <<focus, inode, published>>
     ELSE /\ focus' = Focus(sequence.allowed, t)
          /\ \/ answer' \in {"BackendUnavailable", "InvalidMachineCodeLength", "PublicationUnavailable"}
                /\ UNCHANGED <<inode, published>>
             \/ /\ inode' \in Inode
                /\ published' = published \cup
                     {[name |-> sequence.name, version |-> Version, code |-> Code]}
                /\ answer' = "published"
  /\ UNCHANGED <<peers, received, output, integrator, sequence>>

IntegrateGene ==
  /\ published # {}
  /\ Integrate(inode, sequence.name, sequence.depends)
  /\ UNCHANGED <<swarm, pipeline>>

(* What the environment does not put off for ever: the answer of a peer that is  *)
(* asked again and again and is not silent, and the next command of a call and   *)
(* of PID 1.                                                                     *)
Answered == Asks /\ (\E f \in Answers : PollAnswered(f)) /\ UNCHANGED <<integrator, pipeline>>
Commands == (Submit \/ MatrixApply) /\ UNCHANGED <<swarm, pipeline>>

GeneNext ==
  \/ \E n \in Node : AdmitPeer(n) /\ UNCHANGED <<integrator, pipeline>>
  \/ Poll /\ UNCHANGED <<integrator, pipeline>>
  \/ \E m \in Manifest : Finish(m)
  \/ \E t \in Temperature : Synthesize(t)
  \/ IntegrateGene
  \/ Commands

GeneSpec == GeneInit /\ [][GeneNext]_geneVars

-----------------------------------------------------------------------------
(* What is published was made of the whole genuine artifact, for a focus its      *)
(* manifest allows ("publishes only the initialized machine-code prefix").        *)
PublishedGenuine ==
  \A p \in published :
    /\ \A i \in Index : p.code.payload[i] = i
    /\ \E k \in DOMAIN sequence.allowed : sequence.allowed[k] = p.code.focus

(* The chain from peers to PID 1, none of which is trusted on its own: the buffer *)
(* is genuine as far as it is filled, what is published is made of all of it, and *)
(* PID 1 has only services a call said were integrated, whole, and is left in a   *)
(* transaction only when the caller was told.                                     *)
GeneInv ==
  /\ SwarmTypes /\ IntegratorTypes
  /\ FragmentsGenuine
  /\ PeersKept
  /\ PublishedGenuine
  /\ ServicesTaken
  /\ LeftOpenIsTold

(* Once an honest peer is admitted the artifact is assembled, whatever the others *)
(* send: a liar is asked once (mycelium.rs 206).  Only a peer that has the best   *)
(* score and never answers keeps the others from being asked (mycelium.rs 192).   *)
Assembles == (\E k \in Active : peers[k].id \in Honest) ~> IsComplete \/ Starved

(* A call of the integrator returns, and its transaction is no secret to PID 1.   *)
IntegrationEnds == stage # "idle" ~> Settled
=============================================================================
