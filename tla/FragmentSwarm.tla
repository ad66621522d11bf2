--------------------------- MODULE FragmentSwarm ---------------------------
(***************************************************************************)
(* MyceliumSwarm and Assimilation of mycelium.rs: an artifact arrives in   *)
(* fragments from peers that may lie or never answer.  Authentication,     *)
(* transport and verification are traits the caller supplies: their        *)
(* answers are inputs.  A genuine fragment is named by its index; a        *)
(* fragment [index, length, depth, carries] verifies when what it carries  *)
(* is the genuine fragment of the index it claims.                         *)
(***************************************************************************)
EXTENDS Integers, Sequences

CONSTANTS
  Node,        \* what callers admit: [address, id, trust, latency], zero for an unset one
  Authentic,   \* the nodes the authenticator lets through
  Honest,      \* ids of the peers that answer with the genuine fragment
  Silent,      \* ids of the peers that never answer
  MaxPeers,    \* MAXIMUM_PEERS
  LastIndex,        \* index of the last fragment of the artifact: expected_fragments - 1
  FragmentBytes, FinalBytes, MaxDepth,
  MinTrust, MaxTrust,  \* i32::MIN, i32::MAX
  Lies,        \* index asked for -> what a dishonest peer may send
  Unset        \* a part of the buffer not written yet

Index == 0..LastIndex
Expected(i) == IF i = LastIndex THEN FinalBytes ELSE FragmentBytes
Genuine(i) == [index |-> i, length |-> Expected(i), depth |-> 0, carries |-> i]

ASSUME SwarmAssumption ==
  /\ MaxPeers \in Nat /\ LastIndex \in Nat
  /\ MinTrust \in Int /\ MaxTrust \in Int /\ MinTrust <= MaxTrust
  /\ Node \subseteq [address : Nat, id : Nat, trust : MinTrust..MaxTrust, latency : Nat]
  /\ Authentic \subseteq Node
  /\ Honest \subseteq Nat /\ Silent \subseteq Nat /\ Honest \cap Silent = {}
  /\ Lies \in [Index -> SUBSET [index : Nat, length : Nat, depth : Nat, carries : Index \cup {Unset}]]
  /\ MaxDepth \in Nat /\ Unset \notin Index

VARIABLES
  peers,     \* MyceliumSwarm: the admitted nodes, in order, with their active flag
  received,  \* Assimilation: the indices whose fragments are in the buffer
  output,    \* the caller's buffer: index -> which genuine fragment is there
  answer     \* what the last call returned to the client

swarm == <<peers, received, output, answer>>

SwarmInit ==
  /\ peers = <<>>
  /\ received = {}
  /\ output = [i \in Index |-> Unset]
  /\ answer = "none"

Admitted == [address : Nat, id : Nat, trust : MinTrust..MaxTrust, latency : Nat, active : BOOLEAN]

(* ---- admit_peer ---- *)

Known(n) == \E k \in DOMAIN peers : peers[k].address = n.address \/ peers[k].id = n.id

AdmitAnswer(n) ==
  IF n.address = 0 \/ n.id = 0 \/ Known(n) THEN "InvalidPeer"
  ELSE IF n \notin Authentic THEN "UnauthenticatedPeer"
  ELSE IF Len(peers) = MaxPeers THEN "PeerCapacityExceeded" ELSE "admitted"

AsPeer(n) == [address |-> n.address, id |-> n.id, trust |-> n.trust, latency |-> n.latency,
              active |-> TRUE]

(* A peer that lied keeps its slot: its address and its id stay refused. *)
AdmitPeer(n) ==
  /\ answer' = AdmitAnswer(n)
  /\ peers' = IF answer' = "admitted" THEN Append(peers, AsPeer(n)) ELSE peers
  /\ UNCHANGED <<received, output>>

(* ---- poll ---- *)

IsComplete == received = Index
Missing == Index \ received
FirstMissing == CHOOSE i \in Missing : \A j \in Missing : i <= j

Active == {k \in DOMAIN peers : peers[k].active}
Score(k) == peers[k].trust - peers[k].latency
(* select_apex_peer: the first of the best score. *)
Apex ==
  CHOOSE k \in Active : \A j \in Active :
    Score(j) <= Score(k) /\ (j < k => Score(j) < Score(k))

Asks == ~IsComplete /\ Active # {}

(* The checks before the request, of the buffer a call passes first: nothing     *)
(* changes.                                                                      *)
PollRefused ==
  /\ answer' \in {"OutputTooSmall"}
        \cup (IF IsComplete THEN {"Complete"} ELSE IF Active = {} THEN {"NoActivePeer"} ELSE {})
  /\ UNCHANGED <<peers, received, output>>

(* A failed fetch is no mark against the peer: it will be asked again, and no    *)
(* other one in its place.                                                       *)
PollUnanswered ==
  /\ Asks
  /\ answer' = "TransportUnavailable"
  /\ UNCHANGED <<peers, received, output>>

Verified(f) == f.carries = f.index

(* Mutant of Acceptable: a proof that verifies is enough.                        *)
AcceptableAnyIndex(f, i) == f.length = Expected(i) /\ f.depth <= MaxDepth /\ Verified(f)

Acceptable(f, i) ==
  /\ f.index = i
  /\ f.length = Expected(i)
  /\ f.depth <= MaxDepth
  /\ Verified(f)

Trusted(t) == IF t < MaxTrust THEN t + 1 ELSE MaxTrust

(* Mutant of Banish: the trust sinks, but the peer stays among the active ones.  *)
DistrustOnly(k) ==
  /\ peers' = [peers EXCEPT ![k].trust = MinTrust]
  /\ answer' = "ByzantineFragment"
  /\ UNCHANGED <<received, output>>

Banish(k) ==
  /\ peers' = [peers EXCEPT ![k] = [@ EXCEPT !.trust = MinTrust, !.active = FALSE]]
  /\ answer' = "ByzantineFragment"
  /\ UNCHANGED <<received, output>>

Accept(k, f) ==
  /\ output' = [output EXCEPT ![FirstMissing] = f.carries]
  /\ received' = received \cup {FirstMissing}
  /\ peers' = [peers EXCEPT ![k] = [@ EXCEPT !.trust = Trusted(peers[k].trust)]]
  /\ answer' = IF IsComplete' THEN "Complete" ELSE "FragmentAccepted"

PollAnswered(f) ==
  /\ Asks
  /\ IF Acceptable(f, FirstMissing) THEN Accept(Apex, f) ELSE Banish(Apex)

(* What the peer that is asked may send. *)
Answers ==
  IF peers[Apex].id \in Honest THEN {Genuine(FirstMissing)}
  ELSE IF peers[Apex].id \in Silent THEN {} ELSE Lies[FirstMissing]

(* The best of the peers never answers: poll asks nobody else. *)
Starved == Asks /\ peers[Apex].id \in Silent

Poll == PollRefused \/ PollUnanswered \/ (Asks /\ \E f \in Answers : PollAnswered(f))

-----------------------------------------------------------------------------
SwarmTypes ==
  /\ peers \in Seq(Admitted) /\ Len(peers) <= MaxPeers
  /\ received \subseteq Index
  /\ output \in [Index -> Index \cup {Unset}]

(* Whatever peers send, the buffer holds the genuine artifact as far as it is     *)
(* filled ("Fetches and verifies at most one missing fragment", mycelium.rs 175). *)
FragmentsGenuine == \A i \in received : output[i] = i

(* Peers are told apart by address and by id, and one that answers genuinely is   *)
(* never shut out.                                                                *)
PeersKept ==
  /\ \A j, k \in DOMAIN peers : j # k => peers[j].address # peers[k].address /\ peers[j].id # peers[k].id
  /\ \A k \in DOMAIN peers : peers[k].id \in Honest => peers[k].active
=============================================================================
