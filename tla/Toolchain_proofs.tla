-------------------------- MODULE Toolchain_proofs --------------------------
(***************************************************************************)
(* What the tools guarantee for any peers, lies, number of fragments,      *)
(* manifests, dependencies, ring, requests and writers: the buffer is      *)
(* genuine as far as it is filled, only the whole genuine artifact is      *)
(* published, PID 1 has only services that a call said were integrated,    *)
(* dead code is all that the engine buries, and evidence is given only for *)
(* what lay in the directory at each of the runs.                          *)
(***************************************************************************)
EXTENDS Toolchain, FiniteSetTheorems, SequenceTheorems, TLAPS

(* The inductive invariant: beside what is promised, a gene is only made of a     *)
(* complete buffer, and only a gene is published.                                 *)
SwarmInv == SwarmTypes /\ FragmentsGenuine /\ PeersKept

GeneKept ==
  /\ sequence # NoGene =>
       /\ \A i \in Index : sequence.payload[i] = i
       /\ sequence.allowed \in Seq(STRING)
  /\ published # {} => sequence # NoGene

Assembled == SwarmInv /\ GeneKept /\ PublishedGenuine

(* The first missing fragment is one of the artifact: of the intervals that end   *)
(* in a missing fragment, one contains no other.                                  *)
LEMMA FirstMissingIsMissing ==
  ASSUME received \subseteq Index, ~IsComplete
  PROVE  FirstMissing \in Missing
<1> DEFINE Below == {0..i : i \in Missing}
<1>1. Missing \subseteq Nat /\ Missing # {}
  <2>1. Index \subseteq Nat
    BY SwarmAssumption DEF Index
  <2>2. Missing \subseteq Index
    BY DEF Missing
  <2>3. Missing # {}
    <3>1. PICK i \in Index : i \notin received
      BY DEF IsComplete
    <3> QED BY <3>1 DEF Missing
  <2> QED BY <2>1, <2>2, <2>3
<1>2. PICK i \in Missing : \A s \in Below : <<s, 0..i>> \notin StrictSubsetOrdering(Nat)
  <2>1. \A j \in Nat : 0..j \in FiniteSubsetsOf(Nat)
    BY FS_Interval DEF FiniteSubsetsOf
  <2>2. Below \subseteq FiniteSubsetsOf(Nat) /\ Below # {}
    BY <1>1, <2>1
  <2>3. IsWellFoundedOn(StrictSubsetOrdering(Nat), FiniteSubsetsOf(Nat))
    BY FS_StrictSubsetOrderingWellFounded
  <2> HIDE DEF Below
  <2>4. \E x \in Below : \A s \in Below : <<s, x>> \notin StrictSubsetOrdering(Nat)
    BY <2>2, <2>3, WFMin
  <2> QED BY <2>4 DEF Below
<1>3. \A j \in Missing : i <= j
  <2> SUFFICES ASSUME NEW j \in Missing, j < i PROVE FALSE
    BY <1>1
  <2>1. 0..j \subseteq 0..i /\ i \in 0..i /\ i \notin 0..j /\ 0..i \subseteq Nat
    BY <1>1
  <2>2. <<0..j, 0..i>> \in StrictSubsetOrdering(Nat)
    BY <2>1 DEF StrictSubsetOrdering
  <2> QED BY <1>2, <2>2
<1> QED BY <1>3 DEF FirstMissing

(* No peer is admitted and nothing is received at first.                          *)
LEMMA SwarmStart == GeneInit => Assembled
<1> SUFFICES ASSUME GeneInit PROVE Assembled
  OBVIOUS
<1> USE SwarmAssumption DEF GeneInit, SwarmInit
<1>1. SwarmTypes
  BY DEF SwarmTypes
<1>2. FragmentsGenuine /\ PeersKept
  BY DEF FragmentsGenuine, PeersKept
<1>3. GeneKept /\ PublishedGenuine
  BY DEF GeneKept, PublishedGenuine
<1> QED BY <1>1, <1>2, <1>3 DEF Assembled, SwarmInv

(* An admitted peer has an address and an id that no other one has.               *)
LEMMA AdmitKeeps ==
  ASSUME SwarmInv, NEW n \in Node, AdmitPeer(n)
  PROVE  SwarmInv'
<1> USE SwarmAssumption DEF SwarmInv, AdmitPeer
<1>1. CASE answer' # "admitted"
  BY <1>1 DEF SwarmTypes, FragmentsGenuine, PeersKept
<1>2. CASE answer' = "admitted"
  <2>1. ~Known(n) /\ Len(peers) # MaxPeers /\ peers' = Append(peers, AsPeer(n))
    BY <1>2 DEF AdmitAnswer
  <2>2. AsPeer(n) \in Admitted /\ AsPeer(n).active
    BY DEF AsPeer, Admitted
  <2>3. SwarmTypes'
    BY <2>1, <2>2 DEF SwarmTypes
  <2>4. PeersKept'
    <3>1. /\ DOMAIN peers = 1..Len(peers) /\ DOMAIN peers' = 1..Len(peers) + 1
          /\ \A k \in DOMAIN peers : peers'[k] = peers[k]
          /\ peers'[Len(peers) + 1] = AsPeer(n)
      BY <2>1, <2>2 DEF SwarmTypes
    <3>2. \A k \in DOMAIN peers :
            peers[k].address # AsPeer(n).address /\ peers[k].id # AsPeer(n).id
      BY <2>1 DEF Known, AsPeer
    <3> QED BY <2>2, <3>1, <3>2 DEF PeersKept, SwarmTypes
  <2> QED BY <2>3, <2>4 DEF FragmentsGenuine
<1> QED BY <1>1, <1>2

(* A peer is replaced by one that differs in nothing but trust and activity.      *)
LEMMA PeersReplaced ==
  ASSUME SwarmTypes, PeersKept, NEW k, NEW p \in Admitted,
         peers' = [peers EXCEPT ![k] = p],
         k \in DOMAIN peers =>
           /\ p.address = peers[k].address /\ p.id = peers[k].id
           /\ p.id \in Honest => p.active
  PROVE  peers' \in Seq(Admitted) /\ Len(peers') = Len(peers) /\ PeersKept'
<1>1. peers \in [1..Len(peers) -> Admitted] /\ Len(peers) \in Nat
  BY DEF SwarmTypes
<1>2. peers' \in [1..Len(peers) -> Admitted]
  BY <1>1
<1>3. peers' \in Seq(Admitted) /\ Len(peers') = Len(peers)
  BY <1>1, <1>2
<1>4. \A j \in DOMAIN peers : peers'[j] = IF j = k THEN p ELSE peers[j]
  BY <1>1
<1>5. PeersKept'
  BY <1>1, <1>2, <1>4 DEF PeersKept
<1> QED BY <1>3, <1>5

(* A fragment is only put in its own place.                                       *)
LEMMA AcceptKeeps ==
  ASSUME SwarmInv, ~IsComplete, NEW k, NEW f, Acceptable(f, FirstMissing), Accept(k, f)
  PROVE  SwarmInv'
<1> USE DEF SwarmInv, Accept
<1>1. FirstMissing \in Index
  BY FirstMissingIsMissing DEF SwarmTypes, Missing
<1>2. f.carries = FirstMissing
  BY DEF Acceptable, Verified
<1>3. peers' \in Seq(Admitted) /\ Len(peers') = Len(peers) /\ PeersKept'
  <2>1. CASE k \in DOMAIN peers
    <3> DEFINE p == [peers[k] EXCEPT !.trust = Trusted(peers[k].trust)]
    <3>1. peers[k] \in Admitted
      BY <2>1 DEF SwarmTypes
    <3>2. p \in Admitted /\ p.address = peers[k].address /\ p.id = peers[k].id
            /\ p.active = peers[k].active
      BY <3>1, SwarmAssumption DEF Admitted, Trusted
    <3>3. peers' = [peers EXCEPT ![k] = p]
      OBVIOUS
    <3>4. p.id \in Honest => p.active
      BY <2>1, <3>2 DEF PeersKept
    <3> HIDE DEF p
    <3> QED BY <2>1, <3>2, <3>3, <3>4, PeersReplaced
  <2>2. CASE k \notin DOMAIN peers
    <3>1. peers' = peers
      BY <2>2 DEF SwarmTypes
    <3>2. PeersKept'
      BY <3>1 DEF PeersKept
    <3> QED BY <3>1, <3>2 DEF SwarmTypes
  <2> QED BY <2>1, <2>2
<1>4. SwarmTypes'
  BY <1>1, <1>2, <1>3 DEF SwarmTypes
<1>5. FragmentsGenuine'
  BY <1>1, <1>2 DEF FragmentsGenuine, SwarmTypes
<1> QED BY <1>3, <1>4, <1>5

(* Only a peer that sent something else is shut out.                              *)
LEMMA BanishKeeps ==
  ASSUME SwarmInv, NEW k, k \in DOMAIN peers => peers[k].id \notin Honest, Banish(k)
  PROVE  SwarmInv'
<1> USE DEF SwarmInv, Banish
<1>1. peers' \in Seq(Admitted) /\ Len(peers') = Len(peers) /\ PeersKept'
  <2>1. CASE k \in DOMAIN peers
    <3> DEFINE p == [peers[k] EXCEPT !.trust = MinTrust, !.active = FALSE]
    <3>1. peers[k] \in Admitted
      BY <2>1 DEF SwarmTypes
    <3>2. p = [address |-> peers[k].address, id |-> peers[k].id, trust |-> MinTrust,
               latency |-> peers[k].latency, active |-> FALSE]
      <4> DEFINE q == [peers[k] EXCEPT !.trust = MinTrust]
      <4>1. q = [address |-> peers[k].address, id |-> peers[k].id, trust |-> MinTrust,
                 latency |-> peers[k].latency, active |-> peers[k].active]
        BY <3>1 DEF Admitted
      <4>2. p = [q EXCEPT !.active = FALSE]
        BY <3>1 DEF Admitted
      <4> HIDE DEF p, q
      <4> QED BY <4>1, <4>2
    <3>3. peers' = [peers EXCEPT ![k] = p]
      OBVIOUS
    <3> HIDE DEF p
    <3>4. p \in Admitted /\ p.address = peers[k].address /\ p.id = peers[k].id
      BY <3>1, <3>2, SwarmAssumption DEF Admitted
    <3> QED BY <2>1, <3>3, <3>4, PeersReplaced
  <2>2. CASE k \notin DOMAIN peers
    <3>1. peers' = peers
      BY <2>2 DEF SwarmTypes
    <3>2. PeersKept'
      BY <3>1 DEF PeersKept
    <3> QED BY <3>1, <3>2 DEF SwarmTypes
  <2> QED BY <2>1, <2>2
<1>2. SwarmTypes'
  BY <1>1 DEF SwarmTypes
<1>3. FragmentsGenuine'
  BY DEF FragmentsGenuine
<1> QED BY <1>1, <1>2, <1>3

(* A poll, whatever the peer that is asked sends.                                 *)
LEMMA PollKeeps ==
  ASSUME SwarmInv, Poll
  PROVE  SwarmInv'
<1>1. CASE PollRefused \/ PollUnanswered
  BY <1>1 DEF SwarmInv, SwarmTypes, FragmentsGenuine, PeersKept, PollRefused, PollUnanswered
<1>2. CASE Asks /\ \E f \in Answers : PollAnswered(f)
  <2> PICK f \in Answers : PollAnswered(f)
    BY <1>2
  <2>1. CASE Acceptable(f, FirstMissing)
    BY <1>2, <2>1, AcceptKeeps DEF Asks, PollAnswered
  <2>2. CASE ~Acceptable(f, FirstMissing)
    <3>1. Acceptable(Genuine(FirstMissing), FirstMissing)
      BY SwarmAssumption DEF Acceptable, Genuine, Verified
    <3>2. peers[Apex].id \notin Honest
      BY <2>2, <3>1 DEF Answers
    <3> QED BY <2>2, <3>2, BanishKeeps DEF PollAnswered
  <2> QED BY <2>1, <2>2
<1> QED BY <1>1, <1>2 DEF Poll

(* The focus of a mutation is one of those allowed.                               *)
LEMMA FocusAllowed ==
  ASSUME NEW allowed \in Seq(STRING), allowed # <<>>, NEW t
  PROVE  \E k \in DOMAIN allowed : allowed[k] = Focus(allowed, t)
BY DEF Focus

(* A gene is made of a complete buffer; nothing was published before it.          *)
LEMMA FinishKeeps ==
  ASSUME SwarmInv, GeneKept, PublishedGenuine, NEW m \in Manifest, Finish(m)
  PROVE  GeneKept' /\ PublishedGenuine'
<1> USE PipelineAssumption DEF Finish
<1>1. published = {}
  BY DEF GeneKept
<1>2. CASE UNCHANGED sequence
  BY <1>1, <1>2 DEF GeneKept, PublishedGenuine
<1>3. CASE IsComplete /\ sequence' = [name |-> m.name, depends |-> m.depends,
                                    allowed |-> m.allowed, payload |-> output]
  BY <1>1, <1>3 DEF GeneKept, PublishedGenuine, SwarmInv, FragmentsGenuine, IsComplete
<1> QED BY <1>2, <1>3

(* What is published is the payload of the gene, for a focus it allows.           *)
LEMMA SynthesizeKeeps ==
  ASSUME GeneKept, PublishedGenuine, NEW t \in Temperature, Synthesize(t)
  PROVE  GeneKept' /\ PublishedGenuine'
<1> USE DEF Synthesize
<1>1. sequence # NoGene /\ sequence' = sequence
  OBVIOUS
<1>2. GeneKept'
  BY <1>1 DEF GeneKept
<1>3. PublishedGenuine'
  <2>1. CASE UNCHANGED published
    BY <1>1, <2>1 DEF PublishedGenuine
  <2>2. CASE /\ sequence.allowed # <<>>
             /\ focus' = Focus(sequence.allowed, t)
             /\ published' = published \cup {[name |-> sequence.name, version |-> Version, code |-> Code]}
    <3>1. /\ \A i \in Index : Code.payload[i] = i
          /\ \E k \in DOMAIN sequence.allowed : sequence.allowed[k] = Code.focus
      BY <1>1, <2>2, FocusAllowed DEF GeneKept, Code
    <3> QED BY <1>1, <2>2, <3>1 DEF PublishedGenuine
  <2> QED BY <2>1, <2>2
<1> QED BY <1>2, <1>3

(* Every step of the pipeline keeps the invariant; the integrator touches none of *)
(* it.                                                                            *)
LEMMA PipelineStep ==
  ASSUME Assembled, [GeneNext]_geneVars
  PROVE  Assembled'
<1> USE DEF Assembled
<1> DEFINE SwarmSame == UNCHANGED <<peers, received, output>>
           GeneSame == UNCHANGED <<sequence, published>>
<1>1. SwarmSame => SwarmInv'
  BY DEF SwarmInv, SwarmTypes, FragmentsGenuine, PeersKept
<1>2. GeneSame => GeneKept' /\ PublishedGenuine'
  BY DEF GeneKept, PublishedGenuine
<1>3. CASE \E n \in Node : AdmitPeer(n) /\ UNCHANGED <<integrator, pipeline>>
  BY <1>2, <1>3, AdmitKeeps DEF pipeline
<1>4. CASE Poll /\ UNCHANGED <<integrator, pipeline>>
  BY <1>2, <1>4, PollKeeps DEF pipeline
<1>5. CASE \E m \in Manifest : Finish(m)
  BY <1>1, <1>5, FinishKeeps DEF Finish
<1>6. CASE \E t \in Temperature : Synthesize(t)
  BY <1>1, <1>6, SynthesizeKeeps DEF Synthesize
<1>7. CASE IntegrateGene \/ Commands
  BY <1>1, <1>2, <1>7 DEF IntegrateGene, Commands, swarm, pipeline
<1>8. CASE UNCHANGED geneVars
  BY <1>1, <1>2, <1>8 DEF geneVars, swarm, pipeline
<1> QED BY <1>3, <1>4, <1>5, <1>6, <1>7, <1>8 DEF GeneNext

-----------------------------------------------------------------------------
(* The wire to PID 1                                                             *)

LEMMA MadeTransaction ==
  ASSUME NEW i \in Nat, NEW s \in Nat, NEW a \in Nat, NEW e \in Seq(Nat)
  PROVE  /\ [inode |-> i, subject |-> s, announced |-> a, edges |-> e] \in Transaction
         /\ [inode |-> i, subject |-> s, announced |-> a, edges |-> e] # NoneOpen
<1>1. [inode |-> i, subject |-> s, announced |-> a, edges |-> e] \in Transaction
  BY DEF Transaction
<1>2. NoneOpen \notin Transaction
  BY IntegratorAssumption
<1> QED BY <1>1, <1>2

LEMMA OpenedShape ==
  ASSUME NEW o \in Transaction \cup {NoneOpen}
  PROVE  /\ Opened(o) \in Seq(Command)
         /\ o = NoneOpen => Opened(o) = <<>> /\ Len(Opened(o)) = 0
         /\ o # NoneOpen => /\ Len(Opened(o)) = Len(o.edges) + 1
                            /\ \A k \in 1..Len(o.edges) + 1 :
                                 Opened(o)[k] = [kind |-> IF k = 1 THEN "begin" ELSE "edge",
                                                 inode |-> o.inode, subject |-> o.subject,
                                                 object |-> IF k = 1 THEN o.announced ELSE o.edges[k - 1]]
<1>1. CASE o = NoneOpen
  BY <1>1 DEF Opened
<1>2. CASE o # NoneOpen
  <2>1. o.inode \in Nat /\ o.subject \in Nat /\ o.announced \in Nat /\ o.edges \in Seq(Nat)
    BY <1>2 DEF Transaction
  <2> DEFINE n == Len(o.edges) + 1
  <2>2. n \in Nat /\ \A k \in 1..n : k = 1 \/ k - 1 \in 1..Len(o.edges)
    BY <2>1
  <2>3. \A k \in 1..n : [kind |-> IF k = 1 THEN "begin" ELSE "edge", inode |-> o.inode,
                         subject |-> o.subject,
                         object |-> IF k = 1 THEN o.announced ELSE o.edges[k - 1]] \in Command
    BY <2>1, <2>2 DEF Command
  <2>4. Opened(o) = [k \in 1..n |-> [kind |-> IF k = 1 THEN "begin" ELSE "edge", inode |-> o.inode,
                                     subject |-> o.subject,
                                     object |-> IF k = 1 THEN o.announced ELSE o.edges[k - 1]]]
    BY <1>2 DEF Opened
  <2> HIDE DEF n
  <2>5. Opened(o) \in Seq(Command)
    BY <2>2, <2>3, <2>4
  <2>6. Len(Opened(o)) = n
    BY <2>2, <2>4
  <2> QED BY <1>2, <2>4, <2>5, <2>6 DEF n
<1> QED BY <1>1, <1>2

LEMMA WireShape ==
  ASSUME NEW o \in Transaction \cup {NoneOpen}, NEW r \in Seq(Command)
  PROVE  /\ Opened(o) \o r \in Seq(Command)
         /\ Len(Opened(o)) \in Nat /\ Len(r) \in Nat
         /\ Len(Opened(o) \o r) = Len(Opened(o)) + Len(r)
         /\ \A k \in 1..Len(Opened(o)) : (Opened(o) \o r)[k] = Opened(o)[k]
         /\ \A k \in 1..Len(r) : (Opened(o) \o r)[Len(Opened(o)) + k] = r[k]
<1>1. Opened(o) \in Seq(Command)
  BY OpenedShape
<1> HIDE DEF Opened
<1> QED BY <1>1

(* What is dropped from the front of the wire: nothing, or what comes before a    *)
(* begin, or everything up to the end of a transaction.                           *)
Cut(w, v, d) ==
  /\ w \in Seq(Command) /\ v \in Seq(Command) /\ d \in 0..Len(w) /\ Len(v) = Len(w) - d
  /\ \A k \in 1..Len(v) : v[k] = w[d + k]
  /\ \/ d = 0
     \/ d < Len(w) /\ w[d + 1].kind = "begin"
     \/ d >= 1 /\ w[d].kind \in {"commit", "abort"}

(* A transaction that reaches behind the cut begins behind it.                   *)
LEMMA CutOutside ==
  ASSUME NEW w, NEW v, NEW d, Cut(w, v, d), NEW n \in 1..Len(v), NEW j \in 1..(d + n) - 1,
         w[j].kind = "begin", \A k \in j + 1..(d + n) - 1 : w[k].kind = "edge",
         w[d + n].kind # "begin"
  PROVE  j > d
<1> SUFFICES ASSUME j <= d PROVE FALSE
  BY DEF Cut
<1>1. d \in Nat /\ Len(w) \in Nat /\ n \in Nat /\ j \in Nat
  BY DEF Cut
<1>2. CASE d < Len(w) /\ w[d + 1].kind = "begin"
  <2>1. CASE n = 1
    BY <1>2, <2>1
  <2>2. CASE n # 1
    <3>1. d + 1 \in j + 1..(d + n) - 1
      BY <1>1, <2>2
    <3> QED BY <1>2, <3>1
  <2> QED BY <2>1, <2>2
<1>3. CASE d >= 1 /\ w[d].kind \in {"commit", "abort"}
  <2>1. CASE j = d
    BY <1>3, <2>1
  <2>2. CASE j # d
    <3>1. d \in j + 1..(d + n) - 1
      BY <1>1, <2>2
    <3> QED BY <1>3, <3>1
  <2> QED BY <2>1, <2>2
<1>4. CASE d = 0
  BY <1>1, <1>4
<1> QED BY <1>2, <1>3, <1>4 DEF Cut

LEMMA CutKeeps ==
  ASSUME NEW w, NEW v, NEW d, Cut(w, v, d), NEW known,
         NEW i \in 1..Len(v), NEW j \in 1..(d + i) - 1, j > d, Within(w, j, d + i)
  PROVE  /\ j - d \in 1..i - 1 /\ Within(v, j - d, i)
         /\ Whole(w, j, d + i, known) => Whole(v, j - d, i, known)
<1> DEFINE b == j - d
<1>1. /\ d \in Nat /\ Len(w) \in Nat /\ Len(v) \in Nat /\ i \in Nat /\ j \in Nat /\ b \in 1..i - 1
      /\ d + b = j /\ (d + i) - j = i - b /\ b \in 1..Len(v)
  <2>1. d \in Nat /\ Len(w) \in Nat /\ Len(v) \in Nat
    BY DEF Cut
  <2>2. i \in Nat /\ j \in Nat /\ j <= (d + i) - 1 /\ i <= Len(v)
    BY <2>1
  <2> QED BY <2>1, <2>2
<1>2. v[b] = w[j] /\ \A k \in b + 1..i : v[k] = w[d + k] /\ d + k \in j + 1..d + i
  <2>1. \A k \in b + 1..i : k \in 1..Len(v) /\ d + k \in j + 1..d + i
    BY <1>1
  <2> HIDE DEF b
  <2> QED BY <1>1, <2>1 DEF Cut
<1>3. \A k \in b + 1..i - 1 : k \in b + 1..i /\ d + k \in j + 1..(d + i) - 1
  BY <1>1
<1>4. \A k \in 1..(i - b) - 1 : b + k \in b + 1..i /\ d + (b + k) = j + k
  BY <1>1
<1> HIDE DEF b
<1>5. Within(v, b, i)
  BY <1>2, <1>3 DEF Within
<1>6. ASSUME Whole(w, j, d + i, known) PROVE Whole(v, b, i, known)
  <2>1. ((d + i) - j) - 1 = (i - b) - 1
    BY <1>1
  <2>2. \A k \in 1..(i - b) - 1 : v[b + k].object = w[j + k].object
    BY <1>2, <1>4
  <2>3. [k \in 1..(i - b) - 1 |-> v[b + k].object] = [k \in 1..((d + i) - j) - 1 |-> w[j + k].object]
    BY <2>1, <2>2
  <2> QED BY <1>2, <1>6, <2>1, <2>3 DEF Whole
<1> QED BY <1>1, <1>5, <1>6 DEF b

LEMMA CutOrdered ==
  ASSUME NEW w, NEW v, NEW d, Cut(w, v, d), NEW known, Ordered(w, known)
  PROVE  Ordered(v, known)
<1> SUFFICES ASSUME NEW i \in DOMAIN v, v[i].kind # "begin"
             PROVE  \E j \in 1..i - 1 :
                      Within(v, j, i) /\ (v[i].kind = "commit" => Whole(v, j, i, known))
  BY DEF Ordered
<1>1. /\ i \in 1..Len(v) /\ d + i \in DOMAIN w /\ w[d + i] = v[i] /\ i \in Nat /\ d \in Nat
      /\ Len(v) \in Nat
  BY DEF Cut
<1>2. PICK j \in 1..(d + i) - 1 :
        Within(w, j, d + i) /\ (w[d + i].kind = "commit" => Whole(w, j, d + i, known))
  BY <1>1 DEF Ordered
<1>3. j > d
  BY <1>1, <1>2, CutOutside DEF Within
<1>4. /\ j - d \in 1..i - 1 /\ Within(v, j - d, i)
      /\ Whole(w, j, d + i, known) => Whole(v, j - d, i, known)
  BY <1>1, <1>2, <1>3, CutKeeps
<1> QED BY <1>1, <1>2, <1>4

LEMMA CutUnfinished ==
  ASSUME NEW w, NEW v, NEW d, Cut(w, v, d)
  PROVE  Unfinished(v) <=> Unfinished(w)
<1>1. d \in Nat /\ Len(w) \in Nat /\ Len(v) = Len(w) - d /\ w \in Seq(Command) /\ v \in Seq(Command)
  BY DEF Cut
<1>2. CASE Len(v) = 0
  <2>1. v = <<>> /\ d = Len(w)
    BY <1>1, <1>2
  <2>2. w = <<>> \/ w[Len(w)].kind \in {"commit", "abort"}
    BY <1>1, <2>1 DEF Cut
  <2> QED BY <2>1, <2>2 DEF Unfinished
<1>3. CASE Len(v) # 0
  <2>1. v # <<>> /\ w # <<>> /\ d + Len(v) = Len(w) /\ Len(v) \in 1..Len(v)
    BY <1>1, <1>3
  <2>2. v[Len(v)] = w[Len(w)]
    BY <2>1 DEF Cut
  <2> QED BY <2>1, <2>2 DEF Unfinished
<1> QED BY <1>2, <1>3

LEMMA AppendWire ==
  ASSUME NEW s \in Seq(Command), NEW r \in Seq(Command), NEW c \in Command
  PROVE  s \o Append(r, c) = Append(s \o r, c)
OBVIOUS

LEMMA TakeWire ==
  ASSUME NEW s \in Seq(Command), NEW r \in Seq(Command), r # <<>>
  PROVE  Append(s, Head(r)) \o Tail(r) = s \o r
<1>1. /\ Head(r) \in Command /\ Tail(r) \in Seq(Command) /\ Len(r) \in Nat /\ Len(s) \in Nat
      /\ Len(Tail(r)) = Len(r) - 1 /\ Len(r) >= 1
      /\ \A k \in 1..Len(r) - 1 : Tail(r)[k] = r[k + 1] /\ r[1] = Head(r)
  OBVIOUS
<1> DEFINE left1 == Append(s, Head(r)) \o Tail(r)
           right == s \o r
<1>2. /\ left1 \in Seq(Command) /\ right \in Seq(Command)
      /\ Len(left1) = (Len(s) + 1) + (Len(r) - 1) /\ Len(right) = Len(s) + Len(r)
  BY <1>1
<1>3. ASSUME NEW k \in 1..Len(s) + Len(r) PROVE left1[k] = right[k]
  <2>1. CASE k <= Len(s)
    BY <1>1, <2>1
  <2>2. CASE k = Len(s) + 1
    BY <1>1, <2>2
  <2>3. CASE k > Len(s) + 1
    <3>1. /\ k - (Len(s) + 1) \in 1..Len(Tail(r)) /\ (k - (Len(s) + 1)) + 1 = k - Len(s)
          /\ k - Len(s) \in 1..Len(r)
      BY <1>1, <2>3
    <3>2. left1[k] = Tail(r)[k - (Len(s) + 1)]
      BY <1>1, <2>3, <3>1
    <3>3. right[k] = r[k - Len(s)]
      BY <1>1, <2>3, <3>1
    <3> QED BY <1>1, <3>1, <3>2, <3>3
  <2> QED BY <1>1, <2>1, <2>2, <2>3
<1> HIDE DEF left1, right
<1>4. left1 = right
  <2>1. Len(left1) = Len(s) + Len(r) /\ Len(right) = Len(s) + Len(r)
    BY <1>1, <1>2
  <2> QED BY <1>2, <1>3, <2>1, SeqEqual
<1> QED BY <1>4 DEF left1, right

(* The head of the ring, when it is no begin, is of the open transaction.        *)
LEMMA HeadBelongs ==
  ASSUME NEW o \in Transaction \cup {NoneOpen}, NEW r \in Seq(Command), r # <<>>,
         NEW j \in 1..Len(Opened(o)), Within(Opened(o) \o r, j, Len(Opened(o)) + 1), NEW known
  PROVE  /\ j = 1 /\ o # NoneOpen
         /\ o.inode = Head(r).inode /\ o.subject = Head(r).subject
         /\ Whole(Opened(o) \o r, j, Len(Opened(o)) + 1, known) <=>
              /\ o.announced = Len(o.edges)
              /\ [inode |-> Head(r).inode, subject |-> Head(r).subject, edges |-> o.edges] \in known
<1> DEFINE w == Opened(o) \o r
           m == Len(Opened(o))
<1>1. /\ w \in Seq(Command) /\ m \in Nat /\ Len(r) >= 1 /\ Len(w) = m + Len(r) /\ Len(r) \in Nat
      /\ \A k \in 1..m : w[k] = Opened(o)[k]
      /\ w[m + 1] = Head(r)
  <2>1. Len(r) \in Nat /\ Len(r) >= 1 /\ r[1] = Head(r) /\ 1 \in 1..Len(r)
    OBVIOUS
  <2> QED BY <2>1, WireShape
<1>2. o # NoneOpen /\ o \in Transaction
  <2>1. o = NoneOpen => m = 0
    BY OpenedShape
  <2> QED BY <2>1, <1>1
<1>3. /\ m = Len(o.edges) + 1 /\ o.edges \in Seq(Nat) /\ Len(o.edges) \in Nat
      /\ \A k \in 1..m : w[k] = [kind |-> IF k = 1 THEN "begin" ELSE "edge",
                                 inode |-> o.inode, subject |-> o.subject,
                                 object |-> IF k = 1 THEN o.announced ELSE o.edges[k - 1]]
  <2>1. o.edges \in Seq(Nat)
    BY <1>2 DEF Transaction
  <2> QED BY <1>1, <1>2, <2>1, OpenedShape
<1>4. \A k \in 1..m : w[k].kind = (IF k = 1 THEN "begin" ELSE "edge") /\ w[k].inode = o.inode
                      /\ w[k].subject = o.subject /\ w[k].object = (IF k = 1 THEN o.announced ELSE o.edges[k - 1])
  <2> SUFFICES ASSUME NEW k \in 1..m
               PROVE  /\ w[k].kind = (IF k = 1 THEN "begin" ELSE "edge") /\ w[k].inode = o.inode
                      /\ w[k].subject = o.subject
                      /\ w[k].object = (IF k = 1 THEN o.announced ELSE o.edges[k - 1])
    OBVIOUS
  <2>1. w[k] = [kind |-> IF k = 1 THEN "begin" ELSE "edge", inode |-> o.inode, subject |-> o.subject,
                object |-> IF k = 1 THEN o.announced ELSE o.edges[k - 1]]
    BY <1>3
  <2> HIDE DEF w, m
  <2> QED BY <2>1
<1>5. /\ w[j].kind = "begin" /\ j \in 1..m
      /\ \A k \in j + 1..(m + 1) : w[k].inode = w[j].inode /\ w[k].subject = w[j].subject
  BY DEF Within
<1> HIDE DEF w, m
<1>6. j = 1
  BY <1>4, <1>5
<1>7. o.inode = Head(r).inode /\ o.subject = Head(r).subject
  <2>1. m + 1 \in j + 1..(m + 1) /\ 1 \in 1..m
    BY <1>1, <1>5, <1>6
  <2> QED BY <1>1, <1>4, <1>5, <1>6, <2>1
<1>8. Whole(w, 1, m + 1, known) <=>
              /\ o.announced = Len(o.edges)
              /\ [inode |-> Head(r).inode, subject |-> Head(r).subject, edges |-> o.edges] \in known
  <2>1. (((m + 1) - 1) - 1) = Len(o.edges) /\ 1 \in 1..m
    BY <1>3, <1>5
  <2>2. \A k \in 1..Len(o.edges) : w[1 + k].object = o.edges[k]
    <3> SUFFICES ASSUME NEW k \in 1..Len(o.edges) PROVE w[1 + k].object = o.edges[k]
      OBVIOUS
    <3>1. 1 + k \in 1..m /\ 1 + k # 1 /\ (1 + k) - 1 = k
      BY <1>3
    <3> QED BY <1>4, <3>1
  <2>3. [k \in 1..Len(o.edges) |-> w[1 + k].object] = o.edges
    <3> DEFINE e == [k \in 1..Len(o.edges) |-> w[1 + k].object]
    <3>1. \A k \in 1..Len(o.edges) : e[k] = o.edges[k] /\ o.edges[k] \in Nat
      <4> SUFFICES ASSUME NEW k \in 1..Len(o.edges) PROVE e[k] = o.edges[k] /\ o.edges[k] \in Nat
        OBVIOUS
      <4>1. e[k] = w[1 + k].object
        OBVIOUS
      <4>2. o.edges[k] \in Nat
        BY <1>3
      <4> HIDE DEF e
      <4> QED BY <2>2, <4>1, <4>2
    <3>2. e \in Seq(Nat) /\ Len(e) = Len(o.edges)
      <4> DEFINE n == Len(o.edges)
      <4>1. n \in Nat /\ e = [k \in 1..n |-> e[k]] /\ \A k \in 1..n : e[k] \in Nat
        BY <1>3, <3>1
      <4> HIDE DEF e, n
      <4>2. e \in Seq(Nat) /\ Len(e) = n
        BY <4>1
      <4> QED BY <4>2 DEF n
    <3> HIDE DEF e
    <3>3. e = o.edges
      BY <1>3, <3>1, <3>2, SeqEqual
    <3> QED BY <3>3 DEF e
  <2>4. w[1].object = o.announced /\ w[1].inode = o.inode /\ w[1].subject = o.subject
    BY <1>4, <2>1
  <2> QED BY <1>7, <2>1, <2>3, <2>4 DEF Whole
<1> QED BY <1>2, <1>6, <1>7, <1>8 DEF w, m

(* What PID 1 does with the head of the ring.                                    *)
SameOpen == open # NoneOpen /\ open.inode = Head(ring).inode /\ open.subject = Head(ring).subject
Committed == [inode |-> Head(ring).inode, subject |-> Head(ring).subject, edges |-> open.edges]

LEMMA HeadCases ==
  ASSUME WireInv, ring # <<>>, NEW known, Ordered(Wire, known), Head(ring).kind # "begin"
  PROVE  /\ SameOpen
         /\ Head(ring).kind = "commit" => Len(open.edges) = open.announced /\ Committed \in known
<1> DEFINE m == Len(Opened(open))
<1>1. /\ ring \in Seq(Command) /\ open \in Transaction \cup {NoneOpen}
      /\ Wire = Opened(open) \o ring
  BY DEF WireInv, IntegratorTypes, Wire
<1>2. /\ m \in Nat /\ Len(ring) \in Nat /\ Len(ring) >= 1 /\ Len(Wire) = m + Len(ring)
      /\ Wire \in Seq(Command) /\ Wire[m + 1] = Head(ring)
  <2>1. Len(ring) \in Nat /\ Len(ring) >= 1 /\ ring[1] = Head(ring) /\ 1 \in 1..Len(ring)
    BY <1>1
  <2> QED BY <1>1, <2>1, WireShape
<1> HIDE DEF m
<1>3. PICK j \in 1..(m + 1) - 1 : Within(Wire, j, m + 1) /\ (Wire[m + 1].kind = "commit" => Whole(Wire, j, m + 1, known))
  <2>1. m + 1 \in DOMAIN Wire
    BY <1>2
  <2> QED BY <1>2, <2>1 DEF Ordered
<1>4. j \in 1..m
  BY <1>2, <1>3
<1>5. /\ j = 1 /\ open # NoneOpen
      /\ open.inode = Head(ring).inode /\ open.subject = Head(ring).subject
      /\ Whole(Wire, j, m + 1, known) <=>
           /\ open.announced = Len(open.edges)
           /\ [inode |-> Head(ring).inode, subject |-> Head(ring).subject, edges |-> open.edges] \in known
  BY <1>1, <1>3, <1>4, HeadBelongs DEF m
<1> QED BY <1>2, <1>3, <1>5 DEF SameOpen, Committed

LEMMA ApplyCases ==
  ASSUME WireInv, MatrixApply
  PROVE  /\ ring # <<>> /\ ring' = Tail(ring) /\ ring' \in Seq(Command) /\ Head(ring) \in Command
         /\ \/ /\ Head(ring).kind = "begin"
               /\ open' = [inode |-> Head(ring).inode, subject |-> Head(ring).subject,
                           announced |-> Head(ring).object, edges |-> <<>>]
               /\ services' = services
            \/ /\ Head(ring).kind = "edge" /\ SameOpen
               /\ open' = [open EXCEPT !.edges = Append(open.edges, Head(ring).object)]
               /\ services' = services
            \/ /\ Head(ring).kind \in {"commit", "abort"} /\ SameOpen
               /\ open' = NoneOpen
               /\ services' = services \/ (Head(ring).kind = "commit" /\ Committed \in taken)
               /\ Head(ring).kind = "commit" =>
                    services' = {s \in services : s.subject # Head(ring).subject} \cup {Committed}
<1>1. ring \in Seq(Command) /\ ring # <<>> /\ ring' = Tail(ring)
  BY DEF WireInv, IntegratorTypes, MatrixApply
<1>2. Head(ring) \in Command /\ Tail(ring) \in Seq(Command)
  BY <1>1
<1>3. Head(ring).kind \in {"begin", "edge", "commit", "abort"}
  BY <1>2 DEF Command
<1>4. Ordered(Wire, taken)
  BY DEF WireInv
<1>5. Head(ring).kind # "begin" =>
        /\ SameOpen
        /\ Head(ring).kind = "commit" => Len(open.edges) = open.announced /\ Committed \in taken
  BY <1>1, <1>4, HeadCases
<1>6. CASE Head(ring).kind = "begin"
  BY <1>1, <1>2, <1>6 DEF MatrixApply
<1>7. CASE Head(ring).kind = "edge"
  BY <1>1, <1>2, <1>5, <1>7 DEF MatrixApply, SameOpen
<1>8. CASE Head(ring).kind = "commit"
  BY <1>1, <1>2, <1>5, <1>8 DEF MatrixApply, SameOpen, Committed
<1>9. CASE Head(ring).kind = "abort"
  BY <1>1, <1>2, <1>5, <1>9 DEF MatrixApply, SameOpen
<1> QED BY <1>3, <1>6, <1>7, <1>8, <1>9

LEMMA ApplyCuts ==
  ASSUME WireInv, MatrixApply
  PROVE  /\ open' \in Transaction \cup {NoneOpen}
         /\ \E d : Cut(Wire, Wire', d)
<1> DEFINE m == Len(Opened(open))
<1>1. /\ ring # <<>> /\ ring' = Tail(ring) /\ ring' \in Seq(Command) /\ Head(ring) \in Command
      /\ ring \in Seq(Command) /\ open \in Transaction \cup {NoneOpen}
      /\ Wire = Opened(open) \o ring /\ Wire' = Opened(open') \o ring'
  BY ApplyCases DEF WireInv, IntegratorTypes, Wire
<1>2. /\ Len(ring) \in Nat /\ Len(ring) >= 1 /\ ring[1] = Head(ring) /\ 1 \in 1..Len(ring)
      /\ Len(ring') = Len(ring) - 1 /\ \A k \in 1..Len(ring) - 1 : ring'[k] = ring[k + 1]
  BY <1>1
<1>3. /\ m \in Nat /\ Len(Wire) = m + Len(ring) /\ Wire \in Seq(Command) /\ Wire[m + 1] = Head(ring)
      /\ \A k \in 1..Len(ring) : Wire[m + k] = ring[k]
  BY <1>1, <1>2, WireShape
<1>4. /\ Head(ring).kind \in {"begin", "edge", "commit", "abort"}
      /\ Head(ring).inode \in Nat /\ Head(ring).subject \in Nat /\ Head(ring).object \in Nat
  BY <1>1 DEF Command
<1> HIDE DEF m
<1>5. CASE /\ Head(ring).kind = "begin"
           /\ open' = [inode |-> Head(ring).inode, subject |-> Head(ring).subject,
                       announced |-> Head(ring).object, edges |-> <<>>]
  <2>1. open' \in Transaction /\ open' # NoneOpen /\ open'.edges = <<>>
    <3>1. <<>> \in Seq(Nat)
      OBVIOUS
    <3> QED BY <1>4, <1>5, <3>1, MadeTransaction
  <2>2. /\ Len(Opened(open')) = 1
        /\ Opened(open')[1] = [kind |-> "begin", inode |-> Head(ring).inode,
                               subject |-> Head(ring).subject, object |-> Head(ring).object]
    <3>1. /\ open'.inode = Head(ring).inode /\ open'.subject = Head(ring).subject
          /\ open'.announced = Head(ring).object /\ Len(open'.edges) = 0
      BY <1>5
    <3>2. /\ Len(Opened(open')) = Len(open'.edges) + 1
          /\ \A k \in 1..Len(open'.edges) + 1 :
               Opened(open')[k] = [kind |-> IF k = 1 THEN "begin" ELSE "edge",
                                   inode |-> open'.inode, subject |-> open'.subject,
                                   object |-> IF k = 1 THEN open'.announced ELSE open'.edges[k - 1]]
      BY <2>1, OpenedShape
    <3>3. 1 \in 1..Len(open'.edges) + 1
      BY <3>1
    <3> QED BY <3>1, <3>2, <3>3
  <2>3. Opened(open')[1] = Head(ring)
    BY <1>1, <1>5, <2>2 DEF Command
  <2>4. /\ Wire' \in Seq(Command) /\ Len(Wire') = 1 + Len(ring')
        /\ Wire'[1] = Head(ring) /\ \A k \in 1..Len(ring') : Wire'[1 + k] = ring'[k]
    <3>1. open' \in Transaction \cup {NoneOpen}
      BY <2>1
    <3>2. /\ Wire' \in Seq(Command) /\ Len(Wire') = Len(Opened(open')) + Len(ring')
          /\ \A k \in 1..Len(Opened(open')) : Wire'[k] = Opened(open')[k]
          /\ \A k \in 1..Len(ring') : Wire'[Len(Opened(open')) + k] = ring'[k]
      BY <1>1, <3>1, WireShape
    <3> QED BY <2>2, <2>3, <3>2
  <2>5. \A k \in 1..Len(Wire') : Wire'[k] = Wire[m + k]
    <3> SUFFICES ASSUME NEW k \in 1..Len(Wire') PROVE Wire'[k] = Wire[m + k]
      OBVIOUS
    <3>1. CASE k = 1
      BY <3>1, <1>3, <2>4
    <3>2. CASE k # 1
      <4>1. k - 1 \in 1..Len(ring') /\ 1 + (k - 1) = k /\ (k - 1) + 1 = k /\ k - 1 \in 1..Len(ring) - 1
            /\ k \in 1..Len(ring)
        BY <1>2, <2>4, <3>2
      <4>2. Wire'[k] = ring'[k - 1]
        BY <2>4, <4>1
      <4>3. ring'[k - 1] = ring[k]
        BY <1>2, <4>1
      <4>4. Wire[m + k] = ring[k]
        BY <1>3, <4>1
      <4> QED BY <4>2, <4>3, <4>4
    <3> QED BY <3>1, <3>2
  <2>6. m \in 0..Len(Wire) /\ Len(Wire') = Len(Wire) - m /\ m < Len(Wire)
    BY <1>2, <1>3, <2>4
  <2>7. Cut(Wire, Wire', m)
    BY <1>3, <1>5, <2>4, <2>5, <2>6 DEF Cut
  <2> QED BY <2>1, <2>7
<1>6. CASE /\ Head(ring).kind = "edge" /\ SameOpen
           /\ open' = [open EXCEPT !.edges = Append(open.edges, Head(ring).object)]
  <2>1. open \in Transaction /\ open # NoneOpen /\ open.edges \in Seq(Nat) /\ Len(open.edges) \in Nat
    BY <1>1, <1>6 DEF SameOpen, Transaction
  <2> DEFINE n == Len(open.edges)
  <2>2. open' \in Transaction /\ open' # NoneOpen
    <3>1. Append(open.edges, Head(ring).object) \in Seq(Nat)
      BY <1>4, <2>1
    <3>2. /\ open.inode \in Nat /\ open.subject \in Nat /\ open.announced \in Nat
          /\ open' = [inode |-> open.inode, subject |-> open.subject, announced |-> open.announced,
                      edges |-> Append(open.edges, Head(ring).object)]
      BY <1>6, <2>1 DEF Transaction
    <3> QED BY <3>1, <3>2, MadeTransaction
  <2>3. /\ open'.edges = Append(open.edges, Head(ring).object) /\ open'.inode = open.inode
        /\ open'.subject = open.subject /\ open'.announced = open.announced
    BY <1>6, <2>1 DEF Transaction
  <2>4. /\ Len(open'.edges) = n + 1 /\ open'.edges[n + 1] = Head(ring).object
        /\ \A k \in 1..n : open'.edges[k] = open.edges[k]
    BY <1>4, <2>1, <2>3
  <2>5. Opened(open') = Append(Opened(open), Head(ring))
    <3>1. /\ Opened(open) \in Seq(Command) /\ Len(Opened(open)) = n + 1
          /\ \A k \in 1..n + 1 :
               Opened(open)[k] = [kind |-> IF k = 1 THEN "begin" ELSE "edge",
                                  inode |-> open.inode, subject |-> open.subject,
                                  object |-> IF k = 1 THEN open.announced ELSE open.edges[k - 1]]
      BY <1>1, <2>1, OpenedShape
    <3>2. /\ Opened(open') \in Seq(Command) /\ Len(Opened(open')) = (n + 1) + 1
          /\ \A k \in 1..(n + 1) + 1 :
               Opened(open')[k] = [kind |-> IF k = 1 THEN "begin" ELSE "edge",
                                   inode |-> open.inode, subject |-> open.subject,
                                   object |-> IF k = 1 THEN open.announced ELSE open'.edges[k - 1]]
      <4>1. /\ Opened(open') \in Seq(Command) /\ Len(Opened(open')) = Len(open'.edges) + 1
            /\ \A k \in 1..Len(open'.edges) + 1 :
                 Opened(open')[k] = [kind |-> IF k = 1 THEN "begin" ELSE "edge",
                                     inode |-> open'.inode, subject |-> open'.subject,
                                     object |-> IF k = 1 THEN open'.announced ELSE open'.edges[k - 1]]
        BY <2>2, OpenedShape
      <4> QED BY <2>3, <2>4, <4>1
    <3>3. /\ Append(Opened(open), Head(ring)) \in Seq(Command)
          /\ Len(Append(Opened(open), Head(ring))) = (n + 1) + 1
          /\ Append(Opened(open), Head(ring))[(n + 1) + 1] = Head(ring)
          /\ \A k \in 1..n + 1 : Append(Opened(open), Head(ring))[k] = Opened(open)[k]
      BY <1>1, <2>1, <3>1
    <3> HIDE DEF n
    <3>4. n \in Nat
      BY <2>1 DEF n
    <3>5. Opened(open')[(n + 1) + 1] = Head(ring)
      <4>1. (n + 1) + 1 \in 1..(n + 1) + 1 /\ (n + 1) + 1 # 1 /\ ((n + 1) + 1) - 1 = n + 1
        BY <3>4
      <4>2. Opened(open')[(n + 1) + 1] = [kind |-> "edge", inode |-> open.inode,
                                          subject |-> open.subject, object |-> open'.edges[n + 1]]
        BY <3>2, <4>1
      <4> QED BY <1>1, <1>6, <2>4, <4>2 DEF SameOpen, Command
    <3>6. \A k \in 1..n + 1 : Opened(open')[k] = Opened(open)[k]
      <4> SUFFICES ASSUME NEW k \in 1..n + 1 PROVE Opened(open')[k] = Opened(open)[k]
        OBVIOUS
      <4>1. k \in 1..(n + 1) + 1 /\ (k # 1 => k - 1 \in 1..n)
        BY <3>4
      <4>2. k # 1 => open'.edges[k - 1] = open.edges[k - 1]
        BY <2>4, <4>1
      <4> QED BY <3>1, <3>2, <4>1, <4>2
    <3>7. \A k \in 1..(n + 1) + 1 : k \in 1..n + 1 \/ k = (n + 1) + 1
      BY <3>4
    <3>8. \A k \in 1..(n + 1) + 1 : Opened(open')[k] = Append(Opened(open), Head(ring))[k]
      BY <3>3, <3>5, <3>6, <3>7
    <3> QED BY <3>2, <3>3, <3>8, SeqEqual
  <2>6. Wire' = Wire
    <3>1. Opened(open) \in Seq(Command)
      BY <1>1, OpenedShape
    <3> QED BY <1>1, <2>5, <3>1, TakeWire
  <2>7. Cut(Wire, Wire', 0)
    <3>1. Len(Wire) \in Nat
      BY <1>3
    <3> QED BY <1>3, <2>6, <3>1 DEF Cut
  <2> QED BY <2>2, <2>7
<1>7. CASE /\ Head(ring).kind \in {"commit", "abort"} /\ SameOpen
           /\ open' = NoneOpen
  <2>1. Opened(open') = <<>>
    BY <1>7, OpenedShape
  <2>2. Wire' = ring'
    BY <1>1, <2>1
  <2>3. \A k \in 1..Len(ring') : ring'[k] = Wire[(m + 1) + k]
    <3> SUFFICES ASSUME NEW k \in 1..Len(ring') PROVE ring'[k] = Wire[(m + 1) + k]
      OBVIOUS
    <3>1. k \in 1..Len(ring) - 1 /\ k + 1 \in 1..Len(ring) /\ (m + 1) + k = m + (k + 1)
      BY <1>2, <1>3
    <3> QED BY <1>2, <1>3, <3>1
  <2>4. m + 1 \in 0..Len(Wire) /\ Len(ring') = Len(Wire) - (m + 1) /\ m + 1 >= 1
    BY <1>2, <1>3
  <2>5. Cut(Wire, Wire', m + 1)
    BY <1>1, <1>3, <1>7, <2>2, <2>3, <2>4 DEF Cut
  <2> QED BY <1>7, <2>5
<1> QED BY <1>5, <1>6, <1>7, ApplyCases

(* A command is put on the wire behind what is there.                            *)
LEMMA TakesAppends ==
  ASSUME WireInv, NEW c \in Command, Takes(c), UNCHANGED open
  PROVE  /\ ring' = Append(ring, c) /\ ring' # <<>> /\ ring' \in Seq(Command) /\ Len(ring') <= RingCapacity
         /\ Wire \in Seq(Command) /\ Wire' = Append(Wire, c) /\ Wire' \in Seq(Command)
         /\ Len(Wire) \in Nat /\ Len(Wire') = Len(Wire) + 1 /\ Wire'[Len(Wire) + 1] = c
         /\ \A k \in 1..Len(Wire) : Wire'[k] = Wire[k]
<1>1. /\ ring \in Seq(Command) /\ open \in Transaction \cup {NoneOpen}
      /\ ring' = Append(ring, c) /\ Len(ring) < RingCapacity
  BY DEF WireInv, IntegratorTypes, Takes
<1>2. Opened(open) \in Seq(Command) /\ Opened(open') = Opened(open)
  BY <1>1, OpenedShape
<1>3. Wire' = Append(Wire, c) /\ Wire \in Seq(Command)
  BY <1>1, <1>2, AppendWire DEF Wire
<1>4. /\ ring' # <<>> /\ ring' \in Seq(Command) /\ Len(ring') = Len(ring) + 1 /\ Len(ring) \in Nat
  BY <1>1
<1>5. Len(ring') <= RingCapacity
  BY <1>1, <1>4, IntegratorAssumption
<1>6. /\ Append(Wire, c) \in Seq(Command) /\ Len(Wire) \in Nat /\ Len(Append(Wire, c)) = Len(Wire) + 1
      /\ Append(Wire, c)[Len(Wire) + 1] = c
      /\ \A k \in 1..Len(Wire) : Append(Wire, c)[k] = Wire[k]
  BY <1>3
<1> QED BY <1>1, <1>3, <1>4, <1>5, <1>6

LEMMA ExtendOrdered ==
  ASSUME NEW w \in Seq(Command), NEW v \in Seq(Command), Len(v) = Len(w) + 1,
         \A k \in 1..Len(w) : v[k] = w[k],
         NEW known, NEW more, known \subseteq more, Ordered(w, known),
         v[Len(v)].kind # "begin" =>
           \E j \in 1..Len(v) - 1 : Within(v, j, Len(v)) /\ (v[Len(v)].kind = "commit" => Whole(v, j, Len(v), more))
  PROVE  Ordered(v, more)
<1> SUFFICES ASSUME NEW i \in DOMAIN v, v[i].kind # "begin"
             PROVE  \E j \in 1..i - 1 : Within(v, j, i) /\ (v[i].kind = "commit" => Whole(v, j, i, more))
  BY DEF Ordered
<1>1. Len(w) \in Nat /\ i \in 1..Len(w) + 1
  OBVIOUS
<1>2. CASE i = Len(v)
  BY <1>2
<1>3. CASE i \in 1..Len(w)
  <2>1. PICK j \in 1..i - 1 : Within(w, j, i) /\ (w[i].kind = "commit" => Whole(w, j, i, known))
    BY <1>3 DEF Ordered
  <2>2. \A k \in j..i : v[k] = w[k]
    BY <1>1, <1>3
  <2>3. /\ j \in j..i /\ \A k \in j + 1..i : k \in j..i
        /\ i \in Nat /\ j \in Nat
    BY <1>1, <1>3
  <2>4. (\A k \in j + 1..i - 1 : k \in j..i) /\ (\A k \in 1..i - j - 1 : j + k \in j..i)
    BY <2>3
  <2>5. Within(v, j, i)
    BY <2>1, <2>2, <2>3, <2>4 DEF Within
  <2>6. Whole(w, j, i, known) => Whole(v, j, i, more)
    <3>1. [k \in 1..i - j - 1 |-> v[j + k].object] = [k \in 1..i - j - 1 |-> w[j + k].object]
      BY <2>2, <2>4
    <3> QED BY <2>2, <2>3, <3>1 DEF Whole
  <2> QED BY <1>3, <2>1, <2>2, <2>3, <2>5, <2>6
<1> QED BY <1>1, <1>2, <1>3

LEMMA CmdParts ==
  ASSUME NEW kind, NEW object
  PROVE  /\ Cmd(kind, object).kind = kind /\ Cmd(kind, object).object = object
         /\ Cmd(kind, object).inode = gene.inode /\ Cmd(kind, object).subject = gene.subject
BY DEF Cmd

(* The next command of the running call is of its transaction.                   *)
LEMMA BegunWithin ==
  ASSUME WireInv, stage \in {"edges", "commit", "abort"}, NEW kind \in {"edge", "commit", "abort"},
         NEW object \in Nat, Takes(Cmd(kind, object)), UNCHANGED open
  PROVE  LET n == Len(Wire')
             j == Len(Wire) - edge IN
         /\ Cmd(kind, object) \in Command
         /\ j \in 1..n - 1 /\ Within(Wire', j, n) /\ Wire'[n] = Cmd(kind, object)
         /\ Wire'[j] = Cmd("begin", Len(gene.depends))
         /\ \A k \in 1..edge : Wire'[j + k] = Cmd("edge", gene.depends[k])
<1> DEFINE n == Len(Wire')
           j == Len(Wire) - edge
<1>1. Cmd(kind, object) \in Command
  BY DEF Cmd, Command, WireInv, IntegratorTypes
<1>2. /\ Wire \in Seq(Command) /\ Len(Wire) \in Nat /\ n = Len(Wire) + 1 /\ Wire'[n] = Cmd(kind, object)
      /\ \A k \in 1..Len(Wire) : Wire'[k] = Wire[k]
  BY <1>1, TakesAppends
<1>3. /\ j >= 1 /\ Wire[j] = Cmd("begin", Len(gene.depends))
      /\ \A k \in 1..edge : Wire[j + k] = Cmd("edge", gene.depends[k])
  BY DEF WireInv, Begun
<1>4. edge \in Nat /\ gene.depends \in Seq(Nat)
  BY DEF WireInv, IntegratorTypes
<1>5. /\ j \in 1..n - 1 /\ j \in 1..Len(Wire) /\ \A k \in 1..edge : j + k \in 1..Len(Wire)
      /\ \A k \in j + 1..n - 1 : k - j \in 1..edge /\ j + (k - j) = k
      /\ \A k \in j + 1..n : k = n \/ k \in j + 1..n - 1
      /\ n \notin j + 1..n - 1
  <2> DEFINE m == Len(Wire)
  <2>1. m \in Nat /\ edge \in Nat /\ n = m + 1 /\ j = m - edge /\ j >= 1
    BY <1>2, <1>3, <1>4
  <2> HIDE DEF m, n, j
  <2>2. /\ j \in 1..n - 1 /\ j \in 1..m
        /\ \A k \in j + 1..n : k = n \/ k \in j + 1..n - 1
        /\ n \notin j + 1..n - 1
    BY <2>1
  <2>3. /\ \A k \in 1..edge : j + k \in 1..m
        /\ \A k \in j + 1..n - 1 : k - j \in 1..edge /\ j + (k - j) = k
    BY <2>1
  <2> QED BY <2>2, <2>3 DEF m
<1> HIDE DEF n, j
<1>6. /\ Wire'[j] = Cmd("begin", Len(gene.depends))
      /\ \A k \in 1..edge : Wire'[j + k] = Cmd("edge", gene.depends[k])
  BY <1>2, <1>3, <1>5
<1>7. \A k \in j + 1..n - 1 : Wire'[k] = Cmd("edge", gene.depends[k - j])
  BY <1>5, <1>6
<1>8. Within(Wire', j, n)
  <2>1. \A k \in j + 1..n : Wire'[k].inode = gene.inode /\ Wire'[k].subject = gene.subject
    <3>1. \A k \in j + 1..n - 1 : Wire'[k].inode = gene.inode /\ Wire'[k].subject = gene.subject
      BY <1>7, CmdParts
    <3>2. Wire'[n].inode = gene.inode /\ Wire'[n].subject = gene.subject
      BY <1>2 DEF Cmd
    <3> QED BY <1>5, <3>1, <3>2
  <2>2. \A k \in j + 1..n - 1 : Wire'[k].kind = "edge"
    BY <1>7, CmdParts
  <2>3. Wire'[j].kind = "begin" /\ Wire'[j].inode = gene.inode /\ Wire'[j].subject = gene.subject
    BY <1>6 DEF Cmd
  <2> QED BY <2>1, <2>2, <2>3 DEF Within
<1> QED BY <1>1, <1>2, <1>5, <1>6, <1>8 DEF n, j

LEMMA SameWire == UNCHANGED <<ring, open>> => Wire' = Wire
BY DEF Wire

LEMMA BeginKeeps ==
  ASSUME WireInv, SubmitBegin
  PROVE  WireInv'
<1>1. /\ stage = "begin" /\ edge = 0 /\ edge' = 0 /\ gene' = gene /\ gene.depends \in Seq(Nat)
      /\ open' = open /\ services' = services /\ taken' = taken /\ failure' = failure /\ outcome # "Ok"
      /\ integrations' = integrations
  BY DEF SubmitBegin, WireInv, IntegratorTypes
<1> DEFINE c == Cmd("begin", Len(gene.depends))
<1>2. CASE /\ Takes(c)
           /\ stage' = IF gene.depends = <<>> THEN "commit" ELSE "edges"
           /\ left' = FALSE
           /\ UNCHANGED outcome
  <2>1. c \in Command
    BY <1>1 DEF Cmd, Command, WireInv, IntegratorTypes
  <2>2. /\ ring' \in Seq(Command) /\ Len(ring') <= RingCapacity
        /\ Wire \in Seq(Command) /\ Wire' \in Seq(Command) /\ Len(Wire) \in Nat
        /\ Len(Wire') = Len(Wire) + 1 /\ Wire'[Len(Wire) + 1] = c
        /\ \A k \in 1..Len(Wire) : Wire'[k] = Wire[k]
    BY <1>1, <1>2, <2>1, TakesAppends
  <2>3. Ordered(Wire', taken)
    <3>1. c.kind = "begin"
      BY DEF Cmd
    <3> HIDE DEF c
    <3> QED BY <2>2, <3>1, ExtendOrdered DEF WireInv
  <2>4. Begun(Wire)'
    <3>1. c' = c /\ edge' = 0
      BY <1>1 DEF Cmd
    <3>2. Len(Wire') - edge' = Len(Wire) + 1
      BY <1>1, <2>2
    <3> QED BY <1>1, <2>2, <3>1, <3>2 DEF Begun
  <2>5. IntegratorTypes'
    BY <1>1, <1>2, <2>2 DEF WireInv, IntegratorTypes
  <2>6. /\ stage' = "edges" => 0 < Len(gene.depends)
        /\ stage' = "commit" => Len(gene.depends) = 0
        /\ stage' \in {"edges", "commit"}
    BY <1>1, <1>2
  <2> QED BY <1>1, <1>2, <2>3, <2>4, <2>5, <2>6 DEF WireInv
<1>3. CASE \E r \in Refusal : Returns(r) /\ UNCHANGED <<ring, left>>
  <2>1. Wire' = Wire /\ stage' = "idle" /\ outcome' \in {"Rejected", "QueueFull"} /\ left' = left /\ ring' = ring
    BY <1>1, <1>3, SameWire DEF Returns, Refusal
  <2>2. Unfinished(Wire') <=> Unfinished(Wire)
    BY <2>1
  <2> QED BY <1>1, <2>1, <2>2 DEF WireInv, IntegratorTypes
<1> QED BY <1>2, <1>3 DEF SubmitBegin

LEMMA AbortsKeeps ==
  ASSUME WireInv, stage \in {"edges", "commit"}, Aborts,
         UNCHANGED <<gene, outcome, open, services, taken, left, integrations>>
  PROVE  WireInv'
<1>1. /\ Wire' = Wire /\ stage' = "abort" /\ edge' = edge /\ ring' = ring
      /\ failure' \in {"Rejected", "QueueFull"}
  BY SameWire DEF Aborts, Refusal
<1>2. Begun(Wire)'
  BY <1>1 DEF WireInv, Begun, Cmd
<1> QED BY <1>1, <1>2 DEF WireInv, IntegratorTypes

LEMMA EdgeKeeps ==
  ASSUME WireInv, SubmitEdge
  PROVE  WireInv'
<1>1. /\ stage = "edges" /\ edge < Len(gene.depends) /\ edge \in Nat /\ gene.depends \in Seq(Nat)
      /\ gene' = gene /\ outcome' = outcome /\ outcome # "Ok" /\ open' = open /\ services' = services
      /\ taken' = taken /\ left' = left /\ integrations' = integrations /\ ~left
  BY DEF SubmitEdge, WireInv, IntegratorTypes
<1>2. CASE /\ Takes(Cmd("edge", gene.depends[edge + 1]))
           /\ edge' = edge + 1
           /\ stage' = IF edge' = Len(gene.depends) THEN "commit" ELSE stage
           /\ UNCHANGED failure
  <2> DEFINE e == gene.depends[edge + 1]
             j == Len(Wire) - edge
             n == Len(Wire')
  <2>1. e \in Nat
    BY <1>1
  <2>2. /\ Cmd("edge", e) \in Command
        /\ j \in 1..n - 1 /\ Within(Wire', j, n) /\ Wire'[n] = Cmd("edge", e)
        /\ Wire'[j] = Cmd("begin", Len(gene.depends))
        /\ \A k \in 1..edge : Wire'[j + k] = Cmd("edge", gene.depends[k])
    BY <1>1, <1>2, <2>1, BegunWithin
  <2>3. /\ ring' \in Seq(Command) /\ Len(ring') <= RingCapacity
        /\ Wire \in Seq(Command) /\ Wire' \in Seq(Command) /\ Len(Wire) \in Nat
        /\ n = Len(Wire) + 1
        /\ \A k \in 1..Len(Wire) : Wire'[k] = Wire[k]
    BY <1>1, <1>2, <2>2, TakesAppends
  <2>4. Ordered(Wire', taken)
    <3>1. Wire'[n].kind = "edge"
      BY <2>2 DEF Cmd
    <3> QED BY <2>2, <2>3, <3>1, ExtendOrdered DEF WireInv
  <2>5. Begun(Wire)'
    <3>1. n - edge' = j /\ j >= 1 /\ j + (edge + 1) = n /\ \A k \in 1..edge' : k \in 1..edge \/ k = edge + 1
      <4> DEFINE m == Len(Wire)
      <4>1. m \in Nat /\ n = m + 1 /\ j = m - edge /\ j \in 1..n - 1 /\ edge' = edge + 1
        BY <1>2, <2>2, <2>3
      <4> HIDE DEF m, n, j
      <4> QED BY <1>1, <4>1
    <3>2. \A k \in 1..edge' : Wire'[j + k] = Cmd("edge", gene.depends[k])
      BY <2>2, <3>1
    <3>3. \A kind, object : Cmd(kind, object)' = Cmd(kind, object)
      BY <1>1 DEF Cmd
    <3> HIDE DEF j, n, e
    <3>4. /\ Len(Wire') - edge' = j /\ Wire'[j] = Cmd("begin", Len(gene.depends))
      BY <2>2, <3>1 DEF n
    <3> QED BY <1>1, <3>1, <3>2, <3>4 DEF Begun, Cmd
  <2>6. IntegratorTypes' /\ edge' \in 0..Len(gene.depends) /\ stage' \in {"edges", "commit"}
    BY <1>1, <1>2, <2>3 DEF WireInv, IntegratorTypes
  <2>7. /\ stage' = "edges" => edge' < Len(gene.depends)
        /\ stage' = "commit" => edge' = Len(gene.depends)
    BY <1>1, <1>2
  <2> QED BY <1>1, <1>2, <2>4, <2>5, <2>6, <2>7 DEF WireInv
<1>3. CASE Aborts
  BY <1>1, <1>3, AbortsKeeps
<1> QED BY <1>2, <1>3 DEF SubmitEdge

LEMMA CommitKeeps ==
  ASSUME WireInv, SubmitCommit
  PROVE  WireInv'
<1>1. /\ stage = "commit" /\ edge = Len(gene.depends) /\ edge \in Nat /\ gene.depends \in Seq(Nat)
      /\ gene' = gene /\ outcome # "Ok" /\ open' = open /\ services' = services
      /\ left' = left /\ integrations' = integrations /\ ~left
      /\ gene \in [inode : Nat, subject : Nat, depends : Seq(Nat)]
  BY DEF SubmitCommit, WireInv, IntegratorTypes
<1>2. CASE /\ Takes(Cmd("commit", 0))
           /\ Returns("Ok")
           /\ taken' = taken \cup {Wanted}
           /\ UNCHANGED <<edge, failure>>
  <2> DEFINE j == Len(Wire) - edge
             n == Len(Wire')
  <2>2. /\ Cmd("commit", 0) \in Command
        /\ j \in 1..n - 1 /\ Within(Wire', j, n) /\ Wire'[n] = Cmd("commit", 0)
        /\ Wire'[j] = Cmd("begin", Len(gene.depends))
        /\ \A k \in 1..edge : Wire'[j + k] = Cmd("edge", gene.depends[k])
    BY <1>1, <1>2, BegunWithin
  <2>3. /\ ring' \in Seq(Command) /\ Len(ring') <= RingCapacity /\ ring' # <<>>
        /\ Wire \in Seq(Command) /\ Wire' \in Seq(Command) /\ Len(Wire) \in Nat
        /\ n = Len(Wire) + 1
        /\ \A k \in 1..Len(Wire) : Wire'[k] = Wire[k]
    BY <1>1, <1>2, <2>2, TakesAppends
  <2>4. n - j - 1 = edge
    <3> DEFINE m == Len(Wire)
    <3>1. m \in Nat /\ n = m + 1 /\ j = m - edge
      BY <2>3
    <3> HIDE DEF m, n, j
    <3> QED BY <1>1, <3>1
  <2>5. Whole(Wire', j, n, {Wanted})
    <3>1. [k \in 1..edge |-> Wire'[j + k].object] = gene.depends
      <4> DEFINE e == [k \in 1..edge |-> Wire'[j + k].object]
      <4>1. \A k \in 1..edge : e[k] = gene.depends[k] /\ e[k] \in Nat
        <5>1. \A k \in 1..edge : Cmd("edge", gene.depends[k]).object = gene.depends[k]
          BY CmdParts
        <5>2. \A k \in 1..edge : gene.depends[k] \in Nat
          BY <1>1
        <5> HIDE DEF j, n
        <5> QED BY <2>2, <5>1, <5>2
      <4>2. e = [k \in 1..edge |-> e[k]]
        OBVIOUS
      <4> HIDE DEF e, n, j
      <4>3. e \in Seq(Nat) /\ Len(e) = edge
        BY <1>1, <4>1, <4>2
      <4>4. e = gene.depends
        BY <1>1, <4>1, <4>3, SeqEqual
      <4> QED BY <4>4 DEF e
    <3>2. /\ Wire'[j].object = Len(gene.depends) /\ Wire'[j].inode = gene.inode
          /\ Wire'[j].subject = gene.subject
      BY <2>2, CmdParts
    <3> HIDE DEF n, j
    <3> QED BY <1>1, <2>4, <3>1, <3>2 DEF Whole, Wanted
  <2>6. Whole(Wire', j, n, taken \cup {Wanted})
    BY <2>5 DEF Whole
  <2>7. Wire'[n].kind = "commit"
    BY <2>2, CmdParts
  <2>8. Ordered(Wire', taken')
    <3>1. Ordered(Wire, taken)
      BY DEF WireInv
    <3>2. taken \subseteq taken'
      BY <1>2
    <3> HIDE DEF j
    <3> QED BY <1>2, <2>2, <2>3, <2>6, <3>1, <3>2, ExtendOrdered
  <2>9. Sent(Wire)'
    <3>1. Wanted' = Wanted
      BY <1>1 DEF Wanted
    <3> QED BY <2>2, <2>3, <2>5, <2>7, <3>1 DEF Sent
  <2>10. ~Unfinished(Wire')
    BY <2>7 DEF Unfinished
  <2>11. Wanted \in Service
    BY <1>1 DEF Wanted, Service
  <2>12. IntegratorTypes' /\ stage' = "idle" /\ services' \subseteq taken' /\ failure' = failure
    BY <1>1, <1>2, <2>3, <2>11 DEF WireInv, IntegratorTypes, Returns
  <2> QED BY <1>1, <2>8, <2>9, <2>10, <2>12 DEF WireInv
<1>3. CASE Aborts /\ UNCHANGED <<outcome, taken>>
  BY <1>1, <1>3, AbortsKeeps
<1> QED BY <1>2, <1>3 DEF SubmitCommit

LEMMA AbortKeeps ==
  ASSUME WireInv, SubmitAbort
  PROVE  WireInv'
<1>1. /\ stage = "abort" /\ edge' = edge /\ failure' = failure /\ stage' = "idle"
      /\ gene' = gene /\ open' = open /\ services' = services /\ taken' = taken
      /\ integrations' = integrations /\ ~left /\ Begun(Wire) /\ failure # "Ok"
  BY DEF SubmitAbort, Returns, WireInv
<1>2. CASE Takes(Cmd("abort", 0)) /\ Returns(failure) /\ UNCHANGED left
  <2> DEFINE j == Len(Wire) - edge
             n == Len(Wire')
  <2>1. /\ Cmd("abort", 0) \in Command
        /\ j \in 1..n - 1 /\ Within(Wire', j, n) /\ Wire'[n] = Cmd("abort", 0)
    BY <1>1, <1>2, BegunWithin
  <2>2. /\ ring' \in Seq(Command) /\ Len(ring') <= RingCapacity
        /\ Wire \in Seq(Command) /\ Wire' \in Seq(Command) /\ n = Len(Wire) + 1
        /\ \A k \in 1..Len(Wire) : Wire'[k] = Wire[k]
    BY <1>1, <1>2, <2>1, TakesAppends
  <2>3. Wire'[n].kind = "abort"
    BY <2>1, CmdParts
  <2>4. Ordered(Wire', taken)
    <3>1. Ordered(Wire, taken)
      BY DEF WireInv
    <3> HIDE DEF j
    <3> QED BY <2>1, <2>2, <2>3, <3>1, ExtendOrdered
  <2>5. ~Unfinished(Wire')
    BY <2>3 DEF Unfinished
  <2>6. outcome' # "Ok" /\ left' = left
    BY <1>1, <1>2 DEF Returns
  <2> QED BY <1>1, <2>2, <2>4, <2>5, <2>6 DEF WireInv, IntegratorTypes
<1>3. CASE UNCHANGED ring /\ Returns("RollbackFailed") /\ left' = TRUE
  <2>1. Wire' = Wire /\ outcome' # "Ok" /\ ring' = ring
    BY <1>1, <1>3, SameWire DEF Returns
  <2>2. Unfinished(Wire)
    <3> DEFINE j == Len(Wire) - edge
    <3>1. Wire \in Seq(Command) /\ edge \in Nat
      <4>1. ring \in Seq(Command) /\ open \in Transaction \cup {NoneOpen} /\ edge \in Nat
        BY DEF WireInv, IntegratorTypes
      <4> QED BY <4>1, WireShape DEF Wire
    <3>2. /\ j >= 1 /\ Wire[j] = Cmd("begin", Len(gene.depends))
          /\ \A k \in 1..edge : Wire[j + k] = Cmd("edge", gene.depends[k])
      BY <1>1 DEF Begun
    <3>3. Len(Wire) \in Nat /\ Len(Wire) >= 1 /\ j + edge = Len(Wire)
      BY <3>1, <3>2
    <3>4. CASE edge = 0
      BY <3>2, <3>3, <3>4, CmdParts DEF Unfinished
    <3>5. CASE edge # 0
      <4>1. edge \in 1..edge
        BY <3>1, <3>5
      <4> QED BY <3>2, <3>3, <4>1, CmdParts DEF Unfinished
    <3> QED BY <3>4, <3>5
  <2> QED BY <1>1, <1>3, <2>1, <2>2 DEF WireInv, IntegratorTypes
<1> QED BY <1>2, <1>3 DEF SubmitAbort

LEMMA ApplyKeeps ==
  ASSUME WireInv, MatrixApply
  PROVE  WireInv'
<1>1. /\ stage' = stage /\ gene' = gene /\ edge' = edge /\ failure' = failure /\ outcome' = outcome
      /\ taken' = taken /\ left' = left /\ integrations' = integrations
  BY DEF MatrixApply
<1>2. PICK d : Cut(Wire, Wire', d)
  BY ApplyCuts
<1>3. /\ open' \in Transaction \cup {NoneOpen} /\ ring' \in Seq(Command) /\ ring' = Tail(ring)
      /\ ring # <<>> /\ ring \in Seq(Command)
  BY ApplyCuts, ApplyCases DEF WireInv, IntegratorTypes
<1>4. IntegratorTypes' /\ services' \subseteq taken
  <2>1. Len(ring') <= RingCapacity
    <3>1. Len(ring') = Len(ring) - 1 /\ Len(ring) \in Nat /\ Len(ring) <= RingCapacity
      BY <1>3 DEF WireInv, IntegratorTypes
    <3> QED BY <3>1, IntegratorAssumption
  <2>2. services' \subseteq services \cup taken
    BY ApplyCases
  <2> QED BY <1>1, <1>3, <2>1, <2>2 DEF WireInv, IntegratorTypes
<1>5. Ordered(Wire', taken)
  BY <1>2, CutOrdered DEF WireInv
<1>6. Unfinished(Wire') <=> Unfinished(Wire)
  BY <1>2, CutUnfinished
<1>7. /\ d \in Nat /\ Len(Wire) \in Nat /\ Len(Wire') = Len(Wire) - d /\ d <= Len(Wire)
      /\ Wire \in Seq(Command) /\ Wire' \in Seq(Command) /\ Len(Wire') \in Nat
  BY <1>2 DEF Cut
<1>8. ASSUME stage \in {"edges", "commit", "abort"} PROVE Begun(Wire)'
  <2> DEFINE j == Len(Wire) - edge
  <2>1. /\ j >= 1 /\ Wire[j] = Cmd("begin", Len(gene.depends)) /\ edge \in Nat
        /\ \A k \in 1..edge : Wire[j + k] = Cmd("edge", gene.depends[k])
    BY <1>8 DEF WireInv, Begun, IntegratorTypes
  <2>2. j > d
    <3> SUFFICES ASSUME j <= d PROVE FALSE
      BY <1>7, <2>1
    <3>1. \A k \in j + 1..Len(Wire) : k - j \in 1..edge /\ j + (k - j) = k
      BY <1>7, <2>1
    <3>2. \A k \in j + 1..Len(Wire) : Wire[k].kind = "edge"
      <4>1. \A k \in 1..edge : Cmd("edge", gene.depends[k]).kind = "edge"
        BY CmdParts
      <4> HIDE DEF j
      <4>2. \A k \in 1..edge : Wire[j + k].kind = "edge"
        BY <2>1, <4>1
      <4> QED BY <3>1, <4>2
    <3>3. Wire[j].kind = "begin"
      BY <2>1, CmdParts
    <3>4. CASE d < Len(Wire) /\ Wire[d + 1].kind = "begin"
      <4>1. d + 1 \in j + 1..Len(Wire)
        BY <1>7, <2>1, <3>4
      <4> QED BY <3>2, <3>4, <4>1
    <3>5. CASE d >= 1 /\ Wire[d].kind \in {"commit", "abort"}
      <4>1. d = j \/ d \in j + 1..Len(Wire)
        <5> DEFINE m == Len(Wire)
        <5>1. m \in Nat /\ d \in Nat /\ d <= m /\ j = m - edge /\ edge \in Nat
          BY <1>7, <2>1
        <5> HIDE DEF m, j
        <5> QED BY <5>1 DEF m
      <4> QED BY <3>2, <3>3, <3>5, <4>1
    <3>6. d # 0
      BY <1>7, <2>1
    <3> QED BY <1>2, <3>4, <3>5, <3>6 DEF Cut
  <2>3. /\ Len(Wire') - edge = j - d /\ j - d >= 1 /\ j - d \in 1..Len(Wire') /\ d + (j - d) = j
        /\ \A k \in 1..edge : (j - d) + k \in 1..Len(Wire') /\ d + ((j - d) + k) = j + k
    BY <1>7, <2>1, <2>2
  <2> DEFINE b == j - d
  <2>4. b \in 1..Len(Wire') /\ d + b = j /\ \A k \in 1..edge : b + k \in 1..Len(Wire') /\ d + (b + k) = j + k
    BY <2>3
  <2>5. /\ Len(Wire') - edge = b /\ b >= 1
    BY <2>3
  <2> HIDE DEF b, j
  <2>6. /\ Wire'[b] = Cmd("begin", Len(gene.depends))
        /\ \A k \in 1..edge : Wire'[b + k] = Cmd("edge", gene.depends[k])
    BY <1>2, <2>1, <2>4 DEF Cut
  <2> QED BY <1>1, <2>5, <2>6 DEF Begun, Cmd
<1>9. ASSUME stage = "idle", outcome = "Ok" PROVE Sent(Wire)'
  <2> DEFINE n == Len(Wire)
  <2>1. /\ Wire[n].kind = "commit"
        /\ \E j \in 1..n - 1 : Within(Wire, j, n) /\ Whole(Wire, j, n, {Wanted})
    BY <1>3, <1>9 DEF WireInv, Sent
  <2>2. PICK j \in 1..n - 1 : Within(Wire, j, n) /\ Whole(Wire, j, n, {Wanted})
    BY <2>1
  <2>3. Wanted' = Wanted
    BY <1>1 DEF Wanted
  <2>4. CASE ring' = <<>>
    <3> DEFINE m == Len(Opened(open))
    <3>1. /\ m \in Nat /\ n = m + 1 /\ Wire[m + 1] = Head(ring) /\ open \in Transaction \cup {NoneOpen}
          /\ Wire = Opened(open) \o ring
      <4>1. open \in Transaction \cup {NoneOpen} /\ Wire = Opened(open) \o ring
        BY DEF WireInv, Wire
      <4>2. Len(ring) = 1 /\ ring[1] = Head(ring) /\ 1 \in 1..Len(ring)
        <5>1. Len(Tail(ring)) = Len(ring) - 1 /\ Len(ring) \in Nat /\ ring[1] = Head(ring)
          BY <1>3
        <5>2. Len(Tail(ring)) = 0
          <6>1. Tail(ring) = <<>>
            BY <1>3, <2>4
          <6>2. Len(<<>>) = 0
            OBVIOUS
          <6> QED BY <6>1, <6>2
        <5> QED BY <5>1, <5>2
      <4>3. /\ m \in Nat /\ Len(Wire) = m + Len(ring)
            /\ \A k \in 1..Len(ring) : Wire[m + k] = ring[k]
        BY <1>3, <4>1, WireShape
      <4> HIDE DEF m
      <4> QED BY <4>1, <4>2, <4>3
    <3>2. j \in 1..m /\ n - 1 = m
      BY <3>1
    <3>3. /\ open.announced = Len(open.edges)
          /\ Committed \in {Wanted}
      <4> HIDE DEF m, n
      <4>1. Within(Opened(open) \o ring, j, m + 1) /\ Whole(Opened(open) \o ring, j, m + 1, {Wanted})
        BY <2>2, <3>1
      <4> QED BY <1>3, <3>1, <3>2, <4>1, HeadBelongs DEF Committed, m
    <3>4. Head(ring).kind = "commit"
      BY <2>1, <3>1
    <3>5. Wanted \in services'
      BY <3>3, <3>4, ApplyCases
    <3> QED BY <2>3, <2>4, <3>5 DEF Sent
  <2>5. CASE ring' # <<>>
    <3> DEFINE i == Len(Wire')
    <3>1. i >= 1 /\ i \in 1..i /\ d + i = n
      <4>1. Len(ring') \in Nat /\ Len(ring') >= 1
        BY <1>3, <2>5
      <4>2. Len(Wire') = Len(Opened(open')) + Len(ring') /\ Len(Opened(open')) \in Nat
        BY <1>3, WireShape DEF Wire
      <4> QED BY <1>7, <4>1, <4>2
    <3>2. Wire'[i] = Wire[n]
      BY <1>2, <3>1 DEF Cut
    <3>3. j > d
      <4> HIDE DEF i, n
      <4>1. i \in 1..Len(Wire') /\ j \in 1..(d + i) - 1
        BY <3>1 DEF i
      <4> QED BY <1>2, <2>1, <2>2, <3>1, <4>1, CutOutside DEF Within
    <3>4. j - d \in 1..i - 1 /\ Within(Wire', j - d, i) /\ Whole(Wire', j - d, i, {Wanted})
      <4> HIDE DEF i, n
      <4>1. i \in 1..Len(Wire') /\ j \in 1..(d + i) - 1
        BY <3>1 DEF i
      <4> QED BY <1>2, <2>2, <3>1, <3>3, <4>1, CutKeeps
    <3> QED BY <2>1, <2>3, <2>5, <3>2, <3>4 DEF Sent
  <2> QED BY <2>4, <2>5
<1> QED BY <1>1, <1>3, <1>4, <1>5, <1>6, <1>8, <1>9 DEF WireInv

LEMMA IntegrateKeeps ==
  ASSUME WireInv, NEW i \in Nat, NEW name \in Name, NEW depends \in Seq(Name), Integrate(i, name, depends)
  PROVE  WireInv'
<1>1. /\ stage = "idle" /\ ring' = ring /\ open' = open /\ services' = services /\ taken' = taken
      /\ left' = left /\ edge' = 0 /\ failure' = "none" /\ integrations' = integrations + 1
      /\ integrations < MaxIntegrations
      /\ gene' = [inode |-> i, subject |-> Hash[name],
                  depends |-> [k \in DOMAIN depends |-> Hash[depends[k]]]]
      /\ stage' \in {"idle", "begin"} /\ outcome' # "Ok"
  BY DEF Integrate, Returns
<1>2. Wire' = Wire
  BY <1>1, SameWire
<1>3. gene' \in [inode : Nat, subject : Nat, depends : Seq(Nat)] /\ Len(gene'.depends) \in Nat
  <2>1. \A k \in 1..Len(depends) : Hash[depends[k]] \in Nat
    BY IntegratorAssumption
  <2>2. [k \in DOMAIN depends |-> Hash[depends[k]]] \in Seq(Nat)
    <3> DEFINE n == Len(depends)
    <3>1. n \in Nat /\ DOMAIN depends = 1..n
      OBVIOUS
    <3>2. \A k \in 1..n : Hash[depends[k]] \in Nat
      BY <2>1
    <3> HIDE DEF n
    <3>3. [k \in 1..n |-> Hash[depends[k]]] \in Seq(Nat)
      BY <3>1, <3>2
    <3> QED BY <3>1, <3>3
  <2>3. Hash[name] \in Nat
    BY IntegratorAssumption
  <2> QED BY <1>1, <2>2, <2>3
<1>4. IntegratorTypes'
  <2>1. integrations' \in 0..MaxIntegrations
    BY <1>1, IntegratorAssumption DEF WireInv, IntegratorTypes
  <2>2. edge' \in 0..Len(gene'.depends)
    BY <1>1, <1>3
  <2> QED BY <1>1, <1>3, <2>1, <2>2 DEF WireInv, IntegratorTypes
<1>5. Unfinished(Wire') <=> Unfinished(Wire)
  BY <1>2
<1> QED BY <1>1, <1>2, <1>4, <1>5 DEF WireInv

LEMMA WireStart == IntegratorInit => WireInv
<1> SUFFICES ASSUME IntegratorInit PROVE WireInv
  OBVIOUS
<1>1. Wire = <<>>
  BY OpenedShape DEF Wire, IntegratorInit
<1>2. Ordered(Wire, taken) /\ ~Unfinished(Wire)
  BY <1>1 DEF Ordered, Unfinished
<1>3. IntegratorTypes
  <2>1. <<>> \in Seq(Nat) /\ Len(<<>>) = 0 /\ <<>> \in Seq(Command)
    OBVIOUS
  <2>2. gene \in [inode : Nat, subject : Nat, depends : Seq(Nat)] /\ edge \in 0..Len(gene.depends)
    BY <2>1 DEF IntegratorInit
  <2>3. Len(ring) <= RingCapacity /\ integrations \in 0..MaxIntegrations
    BY <2>1, IntegratorAssumption DEF IntegratorInit
  <2> QED BY <2>1, <2>2, <2>3 DEF IntegratorInit, IntegratorTypes
<1> QED BY <1>2, <1>3 DEF IntegratorInit, WireInv

(* A wire that is empty shows what PID 1 is in, and what it has.                 *)
LEMMA WireSettled == WireInv => ServicesTaken /\ LeftOpenIsTold
<1> SUFFICES ASSUME WireInv PROVE ServicesTaken /\ LeftOpenIsTold
  OBVIOUS
<1>1. ServicesTaken
  BY DEF WireInv, ServicesTaken, Settled, Sent
<1>2. LeftOpenIsTold
  <2> SUFFICES ASSUME Settled PROVE open # NoneOpen <=> left
    BY DEF LeftOpenIsTold
  <2>1. Wire = Opened(open) /\ open \in Transaction \cup {NoneOpen} /\ (left <=> Unfinished(Wire))
    <3>1. Opened(open) \in Seq(Command)
      BY OpenedShape DEF WireInv
    <3> QED BY <3>1 DEF WireInv, Settled, Wire
  <2>2. CASE open = NoneOpen
    BY <2>1, <2>2, OpenedShape DEF Unfinished
  <2>3. CASE open # NoneOpen
    <3>1. open.edges \in Seq(Nat) /\ Len(open.edges) \in Nat
      BY <2>1, <2>3 DEF Transaction
    <3>2. /\ Len(Wire) = Len(open.edges) + 1 /\ Wire \in Seq(Command)
          /\ \A k \in 1..Len(open.edges) + 1 :
               Wire[k] = [kind |-> IF k = 1 THEN "begin" ELSE "edge",
                          inode |-> open.inode, subject |-> open.subject,
                          object |-> IF k = 1 THEN open.announced ELSE open.edges[k - 1]]
      BY <2>1, <2>3, OpenedShape
    <3>3. Len(Wire) \in 1..Len(open.edges) + 1 /\ Wire # <<>>
      BY <3>1, <3>2
    <3>4. Wire[Len(Wire)].kind \in {"begin", "edge"}
      <4>1. ASSUME NEW k \in 1..Len(open.edges) + 1
            PROVE  Wire[k].kind = (IF k = 1 THEN "begin" ELSE "edge")
        <5>1. Wire[k] = [kind |-> IF k = 1 THEN "begin" ELSE "edge",
                         inode |-> open.inode, subject |-> open.subject,
                         object |-> IF k = 1 THEN open.announced ELSE open.edges[k - 1]]
          BY <3>2
        <5> QED BY <5>1
      <4> DEFINE k == Len(Wire)
      <4>2. Wire[k].kind = (IF k = 1 THEN "begin" ELSE "edge")
        BY <3>3, <4>1
      <4> HIDE DEF k
      <4>3. Wire[k].kind \in {"begin", "edge"}
        BY <4>2
      <4> QED BY <4>3 DEF k
    <3> QED BY <2>1, <2>3, <3>3, <3>4 DEF Unfinished
  <2> QED BY <2>2, <2>3
<1> QED BY <1>1, <1>2

-----------------------------------------------------------------------------
(* The engine                                                                    *)

LEMMA ListsAtMostOne ==
  ASSUME NEW x, NEW S, S \subseteq {x}
  PROVE  SetToSeq(S) \in Seq(S) /\ \A y \in S : \E k \in DOMAIN SetToSeq(S) : SetToSeq(S)[k] = y
<1>1. CASE S = {}
  <2>1. Cardinality(S) = 0
    BY <1>1, FS_EmptySet
  <2>2. \E f \in [1..0 -> S] : IsInjective(f)
    <3>1. <<>> \in [1..0 -> S] /\ IsInjective(<<>>)
      BY DEF IsInjective
    <3> QED BY <3>1
  <2>3. SetToSeq(S) \in [1..0 -> S]
    BY <2>1, <2>2 DEF SetToSeq
  <2> QED BY <1>1, <2>3
<1>2. CASE S = {x}
  <2>1. Cardinality(S) = 1
    BY <1>2, FS_Singleton
  <2>2. \E f \in [1..1 -> S] : IsInjective(f)
    <3>1. [k \in 1..1 |-> x] \in [1..1 -> S] /\ IsInjective([k \in 1..1 |-> x])
      BY <1>2 DEF IsInjective
    <3> QED BY <3>1
  <2> DEFINE q == SetToSeq(S)
  <2>3. q \in [1..1 -> S]
    BY <2>1, <2>2 DEF SetToSeq
  <2> HIDE DEF q
  <2>4. q \in Seq(S) /\ DOMAIN q = 1..1 /\ q[1] = x
    <3>1. 1 \in 1..1 /\ 1 \in Nat
      OBVIOUS
    <3>2. DOMAIN q = 1..1 /\ q[1] \in S
      BY <2>3, <3>1
    <3>3. q \in Seq(S)
      <4>1. [1..1 -> S] \in {[1..n -> S] : n \in Nat}
        BY ONLY <3>1
      <4> QED BY ONLY <2>3, <4>1, SeqDef
    <3> QED BY <1>2, <3>2, <3>3
  <2>5. \A y \in S : y = q[1] /\ 1 \in DOMAIN q
    BY <1>2, <2>4
  <2>6. q \in Seq(S) /\ \A y \in S : \E k \in DOMAIN q : q[k] = y
    BY <2>4, <2>5
  <2> QED BY <2>6 DEF q
<1> QED BY <1>1, <1>2

LEMMA SuccessorsGo ==
  ASSUME NEW c, NEW i
  PROVE  Successors(c, i) = Goes(c, i)
<1>1. CASE c[i].op = "jmp"
  BY <1>1 DEF Successors, Goes, Follows
<1>2. CASE c[i].op = "jz"
  BY <1>2 DEF Successors, Goes, Follows
<1>3. CASE c[i].op \in {"ret", "dead"}
  BY <1>3 DEF Successors, Goes, Follows
<1>4. CASE c[i].op \notin {"jmp", "jz", "ret", "dead"}
  BY <1>4 DEF Successors, Goes, Follows
<1> QED BY <1>1, <1>2, <1>3, <1>4

(* The inductive invariant of the marking: what control reaches from a marked    *)
(* instruction is marked, or the instruction is still in the queue, and nothing   *)
(* is marked that is not in every closed set.                                     *)
DceSound ==
  pass = "mark" =>
    /\ code = linear /\ 1 \in reached /\ queue \in Seq(reached)
    /\ \A i \in reached : Goes(linear, i) \subseteq reached \/ \E k \in DOMAIN queue : queue[k] = i
    /\ \A v : Closed(linear, v) => reached \subseteq v

LEMMA MarkKeeps ==
  ASSUME DceSound, Mark
  PROVE  DceSound'
<1> DEFINE i == Head(queue)
           next == i + 1
           new == Successors(code, i) \ reached
           near == SetToSeq(new \cap {next})
           far == SetToSeq(new \ {next})
<1>1. /\ code' = code /\ linear' = linear /\ code = linear /\ 1 \in reached /\ queue \in Seq(reached)
      /\ queue # <<>> /\ reached' = reached \cup new /\ queue' = Tail(queue) \o near \o far
      /\ \A v : Closed(linear, v) => reached \subseteq v
      /\ \A n \in reached : Goes(linear, n) \subseteq reached \/ \E k \in DOMAIN queue : queue[k] = n
  BY DEF DceSound, Mark
<1>2. i \in reached /\ new = Goes(linear, i) \ reached
  BY <1>1, SuccessorsGo
<1>3. new \ {next} \subseteq {i + code[i].a}
  BY DEF Successors
<1> HIDE DEF i, next, new
<1>4. near \in Seq(new \cap {next}) /\ \A y \in new \cap {next} : \E k \in DOMAIN near : near[k] = y
  <2> DEFINE t == new \cap {next}
  <2>1. t \subseteq {next}
    OBVIOUS
  <2> HIDE DEF t
  <2>2. SetToSeq(t) \in Seq(t) /\ \A y \in t : \E k \in DOMAIN SetToSeq(t) : SetToSeq(t)[k] = y
    BY <2>1, ListsAtMostOne
  <2> QED BY <2>2 DEF t
<1>5. far \in Seq(new \ {next}) /\ \A y \in new \ {next} : \E k \in DOMAIN far : far[k] = y
  <2> DEFINE t == new \ {next}
             x == i + code[i].a
  <2>1. t \subseteq {x}
    BY <1>3
  <2> HIDE DEF t, x
  <2>2. SetToSeq(t) \in Seq(t) /\ \A y \in t : \E k \in DOMAIN SetToSeq(t) : SetToSeq(t)[k] = y
    BY <2>1, ListsAtMostOne
  <2> QED BY <2>2 DEF t
<1>6. Tail(queue) \in Seq(reached) /\ \A k \in DOMAIN queue : queue[k] = i \/ \E m \in DOMAIN Tail(queue) : Tail(queue)[m] = queue[k]
  <2>1. Len(queue) \in Nat /\ Len(queue) >= 1 /\ Tail(queue) \in Seq(reached) /\ Len(Tail(queue)) = Len(queue) - 1
        /\ \A m \in 1..Len(queue) - 1 : Tail(queue)[m] = queue[m + 1]
    BY <1>1
  <2>2. ASSUME NEW k \in DOMAIN queue
        PROVE  queue[k] = i \/ \E m \in DOMAIN Tail(queue) : Tail(queue)[m] = queue[k]
    <3>1. CASE k = 1
      BY <1>1, <3>1 DEF i
    <3>2. CASE k # 1
      <4>1. k - 1 \in 1..Len(queue) - 1 /\ k - 1 \in DOMAIN Tail(queue) /\ (k - 1) + 1 = k
        BY <1>1, <2>1, <3>2
      <4> QED BY <2>1, <4>1
    <3> QED BY <3>1, <3>2
  <2> QED BY <2>1, <2>2
<1> HIDE DEF near, far
<1>7. near \in Seq(reached') /\ far \in Seq(reached') /\ Tail(queue) \in Seq(reached')
  <2>1. new \cap {next} \subseteq reached' /\ new \ {next} \subseteq reached' /\ reached \subseteq reached'
    BY <1>1
  <2> QED BY <1>4, <1>5, <1>6, <2>1, SeqMonotonic
<1>8. /\ queue' \in Seq(reached')
      /\ \A m \in DOMAIN Tail(queue) : \E k \in DOMAIN queue' : queue'[k] = Tail(queue)[m]
      /\ \A m \in DOMAIN near : \E k \in DOMAIN queue' : queue'[k] = near[m]
      /\ \A m \in DOMAIN far : \E k \in DOMAIN queue' : queue'[k] = far[m]
  <2> DEFINE s == Tail(queue)
  <2>1. /\ s \in Seq(reached') /\ near \in Seq(reached') /\ far \in Seq(reached')
        /\ queue' = (s \o near) \o far
    BY <1>1, <1>7
  <2> HIDE DEF s
  <2>2. /\ s \o near \in Seq(reached') /\ queue' \in Seq(reached')
        /\ Len(s) \in Nat /\ Len(near) \in Nat /\ Len(far) \in Nat
        /\ Len(s \o near) = Len(s) + Len(near) /\ Len(queue') = (Len(s) + Len(near)) + Len(far)
        /\ DOMAIN s = 1..Len(s) /\ DOMAIN near = 1..Len(near) /\ DOMAIN far = 1..Len(far)
        /\ DOMAIN queue' = 1..Len(queue')
    BY <2>1
  <2>3. ASSUME NEW m \in DOMAIN s PROVE \E k \in DOMAIN queue' : queue'[k] = s[m]
    <3>1. m \in DOMAIN queue' /\ m \in 1..Len(s \o near)
      BY <2>2
    <3>2. queue'[m] = s[m]
      BY <2>1, <2>2, <3>1
    <3> QED BY <3>1, <3>2
  <2>4. ASSUME NEW m \in DOMAIN near PROVE \E k \in DOMAIN queue' : queue'[k] = near[m]
    <3>1. Len(s) + m \in DOMAIN queue' /\ Len(s) + m \in 1..Len(s \o near) /\ Len(s) + m > Len(s)
          /\ (Len(s) + m) - Len(s) = m
      BY <2>2
    <3>2. (s \o near)[Len(s) + m] = near[m]
      BY <2>1, <2>2, <3>1
    <3>3. queue'[Len(s) + m] = near[m]
      BY <2>1, <2>2, <3>1, <3>2
    <3> QED BY <3>1, <3>3
  <2>5. ASSUME NEW m \in DOMAIN far PROVE \E k \in DOMAIN queue' : queue'[k] = far[m]
    <3>1. Len(s \o near) + m \in DOMAIN queue' /\ (Len(s \o near) + m) - Len(s \o near) = m
          /\ Len(s \o near) + m > Len(s \o near)
      BY <2>2
    <3>2. queue'[Len(s \o near) + m] = far[m]
      BY <2>1, <2>2, <3>1
    <3> QED BY <3>1, <3>2
  <2> QED BY <2>2, <2>3, <2>4, <2>5 DEF s
<1>9. ASSUME NEW n \in reached'
      PROVE  Goes(linear, n) \subseteq reached' \/ \E k \in DOMAIN queue' : queue'[k] = n
  <2>1. CASE n = i
    BY <1>1, <1>2, <2>1
  <2>2. CASE n \in reached /\ n # i
    <3>1. CASE Goes(linear, n) \subseteq reached
      BY <1>1, <3>1
    <3>2. CASE \E k \in DOMAIN queue : queue[k] = n
      <4>1. PICK k \in DOMAIN queue : queue[k] = n
        BY <3>2
      <4>2. PICK m \in DOMAIN Tail(queue) : Tail(queue)[m] = n
        BY <1>6, <2>2, <4>1
      <4> QED BY <1>8, <4>2
    <3> QED BY <1>1, <2>2, <3>1, <3>2
  <2>3. CASE n \in new
    BY <1>4, <1>5, <1>8, <2>3
  <2> QED BY <1>1, <2>1, <2>2, <2>3
<1>10. ASSUME NEW v, Closed(linear, v) PROVE reached' \subseteq v
  BY <1>1, <1>2, <1>10 DEF Closed
<1> QED BY <1>1, <1>8, <1>9, <1>10 DEF DceSound

LEMMA EngineKeeps ==
  ASSUME DceSound, EngineNext \/ UNCHANGED engine
  PROVE  DceSound'
<1>1. CASE \E p \in Program, t \in Table, f \in Goals : Mutate(p, t, f)
  BY <1>1 DEF Mutate, DceSound
<1>2. CASE Inline \/ Inlining \/ Unroll \/ Unrolling
  BY <1>2 DEF Inline, Inlining, Unroll, Unrolling, DceSound
<1>3. CASE Enter
  <2>1. CASE pass' = "compact"
    BY <2>1 DEF DceSound
  <2>2. CASE pass' = "mark" /\ reached' = {1} /\ queue' = <<1>>
    <3>1. <<1>> \in Seq({1}) /\ \E k \in DOMAIN <<1>> : <<1>>[k] = 1
      OBVIOUS
    <3>2. code' = linear'
      BY <1>3 DEF Enter
    <3> QED BY <2>2, <3>1, <3>2 DEF DceSound, Closed
  <2> QED BY <1>3, <2>1, <2>2 DEF Enter
<1>4. CASE Mark
  BY <1>4, MarkKeeps
<1>5. CASE Bury \/ Compact
  BY <1>5 DEF Bury, Compact, DceSound
<1>6. CASE UNCHANGED engine
  BY <1>6 DEF engine, DceSound
<1> QED BY <1>1, <1>2, <1>3, <1>4, <1>5, <1>6 DEF EngineNext, EngineStep

LEMMA EngineBuries ==
  ASSUME DceSound, EngineNext, pass = "mark", pass' = "compact"
  PROVE  /\ Least(linear, reached)
         /\ \A i \in DOMAIN linear : code'[i] = linear[i] \/ i \notin reached
<1>1. Bury
  BY DEF EngineNext, EngineStep, Inline, Inlining, Unroll, Unrolling, Enter, Mark, Compact
<1>2. /\ queue = <<>> /\ code' = [i \in DOMAIN code |-> IF i \in reached THEN code[i] ELSE Dead]
      /\ code = linear /\ 1 \in reached
      /\ \A v : Closed(linear, v) => reached \subseteq v
      /\ \A n \in reached : Goes(linear, n) \subseteq reached \/ \E k \in DOMAIN queue : queue[k] = n
  BY <1>1 DEF Bury, DceSound
<1>3. DOMAIN queue = {}
  BY <1>2
<1>4. Closed(linear, reached)
  BY <1>2, <1>3 DEF Closed
<1>5. Least(linear, reached)
  BY <1>2, <1>4 DEF Least
<1> QED BY <1>2, <1>5

-----------------------------------------------------------------------------
(* The worker                                                                    *)

(* A run that has evidence of as many outputs as are declared has read them all. *)
LEMMA MeasuredAll ==
  ASSUME NEW r \in Request, NEW l \in Seq(Look), Len(l) = Len(r.outputs),
         Cardinality(Measured(l, r)) = Len(r.outputs)
  PROVE  \A o \in DOMAIN r.outputs : l[o].read # NoFile
<1> SUFFICES ASSUME NEW o \in DOMAIN r.outputs, l[o].read = NoFile PROVE FALSE
  OBVIOUS
<1> DEFINE n == Len(r.outputs)
           There == {k \in DOMAIN l : l[k].read # NoFile}
           f == [k \in There |-> [path |-> r.outputs[k].path, digest |-> l[k].read.digest,
                                  size |-> l[k].sized.size]]
<1>1. n \in Nat /\ DOMAIN r.outputs = 1..n /\ DOMAIN l = 1..n
  BY WorkerAssumption
<1>2. IsFiniteSet(1..n) /\ Cardinality(1..n) = n
  <2> HIDE DEF n
  <2>1. 1 \in Int /\ n \in Int
    BY <1>1
  <2>2. IsFiniteSet(1..n) /\ Cardinality(1..n) = IF 1 > n THEN 0 ELSE n - 1 + 1
    BY <2>1, FS_Interval
  <2> QED BY <1>1, <2>2
<1>3. There \subseteq (1..n) \ {o} /\ o \in 1..n
  BY <1>1
<1>4. IsFiniteSet((1..n) \ {o}) /\ Cardinality((1..n) \ {o}) = n - 1
  BY <1>2, <1>3, FS_RemoveElement
<1>5. IsFiniteSet(There) /\ Cardinality(There) <= n - 1
  <2>1. IsFiniteSet(There) /\ Cardinality(There) <= Cardinality((1..n) \ {o})
    BY <1>3, <1>4, FS_Subset
  <2> QED BY <1>4, <2>1
<1>6. f \in Surjection(There, Measured(l, r))
  <2>1. Measured(l, r) = {f[k] : k \in There}
    BY DEF Measured
  <2> HIDE DEF There
  <2>2. f \in [There -> Measured(l, r)]
    BY <2>1
  <2>3. \A t \in Measured(l, r) : \E k \in There : f[k] = t
    BY <2>1
  <2> HIDE DEF f
  <2> QED BY <2>2, <2>3 DEF Surjection
<1> HIDE DEF f, There
<1>7. IsFiniteSet(Measured(l, r)) /\ Cardinality(Measured(l, r)) <= Cardinality(There)
  BY <1>5, <1>6, FS_Surjection
<1>8. Cardinality(There) \in Nat
  BY <1>5, FS_CardinalityType
<1> HIDE DEF n
<1> QED BY <1>1, <1>5, <1>7, <1>8 DEF n

(* The bound of an output is the one declared for its path.                      *)
LEMMA MaximumOfOutput ==
  ASSUME NEW r \in Request, Listed1(OutputPaths(r)), NEW o \in DOMAIN r.outputs
  PROVE  Maximum(r, r.outputs[o].path) = r.outputs[o].max
<1>1. /\ DOMAIN OutputPaths(r) = DOMAIN r.outputs
      /\ \A k \in DOMAIN r.outputs : OutputPaths(r)[k] = r.outputs[k].path
  BY DEF OutputPaths
<1>2. \A k \in DOMAIN r.outputs : r.outputs[k].path = r.outputs[o].path => k = o
  BY <1>1 DEF Listed1, Once
<1> QED BY <1>2 DEF Maximum

LEMMA JudgeKeeps ==
  ASSUME WorkerInv, Judge
  PROVE  WorkerInv'
<1>1. /\ verdict = "running" /\ Len(runs) = request.runs /\ request \in Request /\ ValidRequest(request)
      /\ dir' = dir /\ request' = request /\ runs' = runs /\ seen' = seen
      /\ said' = said /\ looks' = looks /\ sized' = sized /\ said = NotRun
      /\ verdict' \in {"evidence", "OutputMismatch", "NonReproducible"}
  BY DEF Judge, WorkerInv, run
<1>2. /\ seen \in Seq(Seq(Look)) /\ Len(seen) = Len(runs)
      /\ runs \in Seq([said : Said, outputs : SUBSET Output])
      /\ \A k \in DOMAIN runs :
           runs[k].outputs = Measured(seen[k], request) /\ Len(seen[k]) = Len(request.outputs)
  BY DEF WorkerInv
<1>3. EvidenceReproduced'
  <2> SUFFICES ASSUME verdict' = "evidence" PROVE EvidenceReproduced'
    BY DEF EvidenceReproduced
  <2>1. \A k \in DOMAIN runs : Matches(runs[k]) /\ Same(runs[k])
    BY <1>1 DEF Judge, Wrong
  <2>2. Len(seen) >= MinRuns /\ Len(seen) \in Nat \ {0}
    BY <1>1, <1>2, WorkerAssumption DEF ValidRequest
  <2>3. Listed1(OutputPaths(request)) /\ Paths(OutputPaths(request)) \cap Paths(request.inputs) = {}
    BY <1>1 DEF ValidRequest
  <2>4. \A o, q \in DOMAIN request.outputs :
          request.outputs[o].path = request.outputs[q].path => o = q
    <3>1. /\ DOMAIN OutputPaths(request) = DOMAIN request.outputs
          /\ \A o \in DOMAIN request.outputs : OutputPaths(request)[o] = request.outputs[o].path
      BY DEF OutputPaths
    <3> QED BY <2>3, <3>1 DEF Listed1, Once
  <2>5. ASSUME NEW k \in DOMAIN seen, NEW o \in DOMAIN request.outputs
        PROVE  /\ o \in DOMAIN seen[k] /\ seen[k][o].read # NoFile
               /\ seen[k][o].read.digest = seen[1][o].read.digest
               /\ seen[k][o].sized.size = seen[1][o].sized.size
               /\ seen[k][o].sized.size <= request.outputs[o].max
               /\ request.outputs[o].path \notin Paths(request.inputs)
    <3> DEFINE x == request.outputs[o].path
               e == [path |-> x, digest |-> seen[k][o].read.digest, size |-> seen[k][o].sized.size]
    <3>1. k \in DOMAIN runs /\ 1 \in DOMAIN runs /\ 1 \in DOMAIN seen
      BY <1>2, <2>2
    <3>2. /\ runs[k].outputs = Measured(seen[k], request)
          /\ runs[1].outputs = Measured(seen[1], request)
          /\ seen[k] \in Seq(Look) /\ Len(seen[k]) = Len(request.outputs)
          /\ seen[1] \in Seq(Look) /\ Len(seen[1]) = Len(request.outputs)
      <4>1. \A m \in DOMAIN seen : seen[m] \in Seq(Look)
        <5> DEFINE L == Seq(Look)
        <5>1. seen \in Seq(L)
          BY <1>2
        <5> HIDE DEF L
        <5>2. \A m \in DOMAIN seen : seen[m] \in L
          BY <5>1
        <5> QED BY <5>2 DEF L
      <4> QED BY <1>2, <3>1, <4>1
    <3>3. DOMAIN seen[k] = DOMAIN request.outputs /\ DOMAIN seen[1] = DOMAIN request.outputs
      BY <1>1, <3>2, WorkerAssumption
    <3>4. Cardinality(Measured(seen[k], request)) = Len(request.outputs)
      BY <2>1, <3>1, <3>2 DEF Matches
    <3>5. seen[k][o].read # NoFile
      BY <1>1, <3>2, <3>4, MeasuredAll
    <3>6. e \in Measured(seen[k], request)
      BY <3>3, <3>5 DEF Measured
    <3>7. e \in Measured(seen[1], request)
      BY <2>1, <3>1, <3>2, <3>6 DEF Same
    <3>8. /\ seen[k][o].read.digest = seen[1][o].read.digest
          /\ seen[k][o].sized.size = seen[1][o].sized.size
      <4>1. PICK q \in DOMAIN seen[1] :
              e = [path |-> request.outputs[q].path, digest |-> seen[1][q].read.digest,
                   size |-> seen[1][q].sized.size]
        BY <3>7 DEF Measured
      <4>2. /\ x = request.outputs[q].path
            /\ seen[k][o].read.digest = seen[1][q].read.digest
            /\ seen[k][o].sized.size = seen[1][q].sized.size
        BY <4>1
      <4>3. q = o
        BY <2>4, <3>3, <4>2
      <4> QED BY <4>2, <4>3
    <3>9. seen[k][o].sized.size <= request.outputs[o].max
      <4>1. e.size <= Maximum(request, e.path)
        BY <2>1, <3>1, <3>2, <3>6 DEF Matches
      <4>2. Maximum(request, x) = request.outputs[o].max
        BY <1>1, <2>3, MaximumOfOutput
      <4> QED BY <4>1, <4>2
    <3>10. x \in Paths(OutputPaths(request))
      BY DEF Paths, OutputPaths
    <3> QED BY <2>3, <3>3, <3>5, <3>8, <3>9, <3>10
  <2> QED BY <1>1, <2>2, <2>5 DEF EvidenceReproduced
<1> QED BY <1>1, <1>2, <1>3 DEF WorkerInv

(* A run that has looked at all outputs leaves what it has seen as its evidence. *)
LEMMA EndRunKeeps ==
  ASSUME WorkerInv, EndRun
  PROVE  WorkerInv'
<1> DEFINE E == [said : Said, outputs : SUBSET Output]
           e == [said |-> said, outputs |-> Measured(looks, request)]
<1>1. /\ verdict = "running" /\ said \in Said /\ Len(looks) = Len(request.outputs)
      /\ looks \in Seq(Look) /\ seen \in Seq(Seq(Look)) /\ runs \in Seq(E) /\ Len(seen) = Len(runs)
      /\ \A k \in DOMAIN runs :
           runs[k].outputs = Measured(seen[k], request) /\ Len(seen[k]) = Len(request.outputs)
      /\ request \in Request /\ ValidRequest(request) /\ dir \in [Path -> File \cup {NoFile}]
      /\ sized \in File \cup {NoFile}
  BY DEF EndRun, WorkerInv
<1>2. /\ runs' = Append(runs, e) /\ seen' = Append(seen, looks)
      /\ said' = NotRun /\ looks' = <<>>
      /\ dir' = dir /\ request' = request /\ sized' = sized /\ verdict' = verdict
  BY DEF EndRun
<1>3. e \in E
  <2> SUFFICES ASSUME NEW k \in DOMAIN looks, looks[k].read # NoFile
               PROVE  [path |-> request.outputs[k].path, digest |-> looks[k].read.digest,
                       size |-> looks[k].sized.size] \in Output
    BY <1>1 DEF Measured
  <2>1. looks[k] \in Look
    BY <1>1
  <2>2. looks[k].read \in File /\ looks[k].sized \in File
    BY <2>1 DEF Look, Nothing
  <2>3. request.outputs[k].path \in Path
    <3>1. request.outputs \in Seq([path : Path, max : Nat])
      BY <1>1, WorkerAssumption
    <3>2. k \in DOMAIN request.outputs
      BY <1>1, <3>1
    <3>3. request.outputs[k] \in [path : Path, max : Nat]
      <4> DEFINE D == [path : Path, max : Nat]
      <4> HIDE DEF D
      <4>1. request.outputs \in Seq(D)
        BY <3>1 DEF D
      <4>2. request.outputs[k] \in D
        BY <3>2, <4>1
      <4> QED BY <4>2 DEF D
    <3> QED BY <3>3
  <2> QED BY <2>2, <2>3 DEF Output
<1> HIDE DEF E
<1>4. runs' \in Seq(E) /\ seen' \in Seq(Seq(Look)) /\ Len(runs') = Len(seen')
  <2> HIDE DEF e
  <2> QED BY <1>1, <1>2, <1>3
<1>5. ASSUME NEW k \in DOMAIN runs'
      PROVE  runs'[k].outputs = Measured(seen'[k], request) /\ Len(seen'[k]) = Len(request.outputs)
  <2> DEFINE n == Len(runs)
  <2>1. /\ n \in Nat /\ DOMAIN runs = 1..n /\ DOMAIN runs' = 1..(n + 1)
        /\ runs'[n + 1] = e /\ seen'[n + 1] = looks
        /\ \A m \in 1..n : runs'[m] = runs[m] /\ seen'[m] = seen[m]
    <3> HIDE DEF e
    <3> QED BY <1>1, <1>2, <1>3
  <2>2. e.outputs = Measured(looks, request)
    OBVIOUS
  <2> HIDE DEF e, n
  <2>3. CASE k = n + 1
    BY <1>1, <2>1, <2>2, <2>3
  <2>4. CASE k # n + 1
    <3>1. k \in 1..n
      BY <2>1, <2>4
    <3> QED BY <1>1, <2>1, <3>1
  <2> QED BY <2>3, <2>4
<1>6. EvidenceReproduced'
  BY <1>1, <1>2 DEF EvidenceReproduced
<1>7. <<>> \in Seq(Look)
  OBVIOUS
<1> QED BY <1>1, <1>2, <1>4, <1>5, <1>6, <1>7 DEF WorkerInv, E

LEMMA WorkerKeeps ==
  ASSUME WorkerInv, WorkerNext \/ UNCHANGED worker
  PROVE  WorkerInv'
<1>1. ASSUME NEW r \in Request, Execute(r) PROVE WorkerInv'
  <2>1. <<>> \in Seq(Seq(Look)) /\ <<>> \in Seq([said : Said, outputs : SUBSET Output])
    OBVIOUS
  <2>2. UNCHANGED <<dir, said, looks, sized>> /\ said = NotRun
    BY <1>1 DEF Execute, WorkerInv, run
  <2> QED BY <1>1, <2>1, <2>2 DEF Execute, WorkerInv, EvidenceReproduced
<1>2. CASE RunTool
  <2>1. /\ UNCHANGED <<dir, request, looks, sized, runs, seen>>
        /\ \/ said' \in Said /\ verdict' = verdict
           \/ verdict' = "InvalidTool" /\ said' = said
        /\ verdict = "running" /\ said = NotRun
    BY <1>2 DEF RunTool
  <2>2. EvidenceReproduced'
    BY <2>1 DEF EvidenceReproduced
  <2> QED BY <2>1, <2>2, WorkerAssumption DEF WorkerInv
<1>3. CASE TakeSize \/ ReadContent
  <2>1. /\ UNCHANGED <<dir, request, said, runs, seen, verdict>>
        /\ verdict = "running" /\ said # NotRun /\ Looking
        /\ \/ looks' = Append(looks, Nothing) /\ sized' = sized
           \/ sized' = dir[Looked] /\ sized' # NoFile /\ looks' = looks
           \/ /\ sized # NoFile
              /\ looks' = Append(looks, [sized |-> sized, read |-> dir[Looked]])
              /\ sized' = NoFile
    BY <1>3 DEF TakeSize, ReadContent, Looking
  <2>2. dir[Looked] \in File \cup {NoFile}
    <3>1. request.outputs \in Seq([path : Path, max : Nat]) /\ looks \in Seq(Look)
      BY <2>1, WorkerAssumption DEF WorkerInv
    <3>2. Len(looks) + 1 \in DOMAIN request.outputs
      BY <2>1, <3>1 DEF Looking
    <3>3. Looked \in Path
      <4> DEFINE D == [path : Path, max : Nat]
                 q == Len(looks) + 1
      <4>1. request.outputs \in Seq(D) /\ q \in DOMAIN request.outputs
        BY <3>1, <3>2
      <4> HIDE DEF D, q
      <4>2. request.outputs[q] \in D
        BY <4>1
      <4> QED BY <4>2 DEF D, q, Looked
    <3> QED BY <3>3 DEF WorkerInv
  <2>3. Nothing \in Look
    BY DEF Look
  <2>4. sized # NoFile => [sized |-> sized, read |-> dir[Looked]] \in Look
    BY <2>2 DEF Look, WorkerInv
  <2>5. looks' \in Seq(Look)
    <3>1. looks \in Seq(Look)
      BY DEF WorkerInv
    <3>2. \A t \in Look : Append(looks, t) \in Seq(Look)
      BY <3>1
    <3> QED BY <2>1, <2>3, <2>4, <3>1, <3>2
  <2>6. sized' \in File \cup {NoFile}
    BY <2>1, <2>2 DEF WorkerInv
  <2>7. EvidenceReproduced'
    BY <2>1 DEF EvidenceReproduced
  <2> QED BY <2>1, <2>5, <2>6, <2>7 DEF WorkerInv
<1>4. CASE EndRun
  BY <1>4, EndRunKeeps
<1>5. CASE Judge
  BY <1>5, JudgeKeeps
<1>6. CASE OthersWrite
  <2>1. dir' \in [Path -> File \cup {NoFile}]
    BY <1>6, WorkerAssumption DEF OthersWrite, WorkerInv
  <2>2. UNCHANGED <<request, said, looks, sized, runs, seen, verdict>>
    BY <1>6 DEF OthersWrite, run
  <2> QED BY <2>1, <2>2 DEF WorkerInv, EvidenceReproduced
<1>7. CASE UNCHANGED worker
  <2>1. UNCHANGED <<dir, request, said, looks, sized, runs, seen, verdict>>
    BY <1>7 DEF worker, run
  <2> QED BY <2>1 DEF WorkerInv, EvidenceReproduced
<1> QED BY <1>1, <1>2, <1>3, <1>4, <1>5, <1>6, <1>7 DEF WorkerNext

LEMMA WorkerStart == WorkerInit => WorkerInv
<1> SUFFICES ASSUME WorkerInit PROVE WorkerInv
  OBVIOUS
<1>1. /\ <<>> \in Seq(Look) /\ <<>> \in Seq(Seq(Look))
      /\ <<>> \in Seq([said : Said, outputs : SUBSET Output])
  OBVIOUS
<1>2. dir \in [Path -> File \cup {NoFile}]
  BY DEF WorkerInit
<1> QED BY <1>1, <1>2 DEF WorkerInit, WorkerInv, EvidenceReproduced

-----------------------------------------------------------------------------
(* The pipeline and the tools                                                    *)

(* A gene names what the integrator can hash, and the publisher returned an inode. *)
GeneNamed ==
  /\ sequence # NoGene => sequence.name \in Name /\ sequence.depends \in Seq(Name)
  /\ inode \in Nat

LEMMA ValidNames ==
  ASSUME NEW m \in Manifest, ValidGene(m)
  PROVE  m.name \in Name /\ m.depends \in Seq(Name)
<1>1. m.depends \in Seq(Name \cup {EmptyName, LongName})
  BY PipelineAssumption
<1>2. \A k \in 1..Len(m.depends) : m.depends[k] \in Name
  BY <1>1 DEF ValidGene
<1> DEFINE n == Len(m.depends)
<1>3. n \in Nat /\ m.depends = [k \in 1..n |-> m.depends[k]]
  BY <1>1
<1> HIDE DEF n
<1>4. m.depends \in [1..n -> Name]
  BY <1>2, <1>3 DEF n
<1>5. m.depends \in Seq(Name)
  BY <1>3, <1>4, SeqDef
<1> QED BY <1>5 DEF ValidGene

GeneWhole == Assembled /\ GeneNamed /\ WireInv

LEMMA GeneStart == GeneInit => GeneWhole
<1> SUFFICES ASSUME GeneInit PROVE GeneWhole
  OBVIOUS
<1>1. Assembled /\ WireInv
  BY SwarmStart, WireStart DEF GeneInit
<1> QED BY <1>1 DEF GeneInit, GeneWhole, GeneNamed

LEMMA WireUntouched == WireInv /\ UNCHANGED integrator => WireInv'
<1> SUFFICES ASSUME WireInv, UNCHANGED integrator PROVE WireInv'
  OBVIOUS
<1>1. /\ stage' = stage /\ gene' = gene /\ edge' = edge /\ failure' = failure /\ outcome' = outcome
      /\ ring' = ring /\ open' = open /\ services' = services /\ taken' = taken /\ left' = left
      /\ integrations' = integrations
  BY DEF integrator
<1>2. Wire' = Wire /\ Wanted' = Wanted
  BY <1>1, SameWire DEF Wanted
<1>3. Begun(Wire) => Begun(Wire)'
  BY <1>1, <1>2 DEF Begun, Cmd
<1>4. Sent(Wire) => Sent(Wire)'
  BY <1>1, <1>2 DEF Sent
<1>5. Unfinished(Wire') <=> Unfinished(Wire)
  BY <1>2
<1> QED BY <1>1, <1>2, <1>3, <1>4, <1>5 DEF WireInv, IntegratorTypes

LEMMA GeneStep ==
  ASSUME GeneWhole, [GeneNext]_geneVars
  PROVE  GeneWhole'
<1> USE DEF GeneWhole
<1>1. Assembled'
  BY PipelineStep
<1> DEFINE Alone == UNCHANGED <<integrator, sequence, inode>>
<1>2. Alone => GeneNamed' /\ WireInv'
  BY WireUntouched DEF GeneNamed
<1>3. CASE \E n \in Node : AdmitPeer(n) /\ UNCHANGED <<integrator, pipeline>>
  BY <1>1, <1>2, <1>3 DEF pipeline
<1>4. CASE Poll /\ UNCHANGED <<integrator, pipeline>>
  BY <1>1, <1>2, <1>4 DEF pipeline
<1>5. ASSUME NEW m \in Manifest, Finish(m) PROVE GeneNamed' /\ WireInv'
  <2>1. UNCHANGED <<integrator, inode>>
    BY <1>5 DEF Finish
  <2>2. CASE UNCHANGED sequence
    BY <1>2, <2>1, <2>2
  <2>3. CASE ValidGene(m) /\ sequence' = [name |-> m.name, depends |-> m.depends,
                                          allowed |-> m.allowed, payload |-> output]
    <3>1. sequence'.name \in Name /\ sequence'.depends \in Seq(Name)
      BY <2>3, ValidNames
    <3> QED BY <2>1, <3>1, WireUntouched DEF GeneNamed
  <2> QED BY <1>5, <2>2, <2>3 DEF Finish
<1>6. ASSUME NEW t \in Temperature, Synthesize(t) PROVE GeneNamed' /\ WireInv'
  <2>1. UNCHANGED <<integrator, sequence>> /\ (UNCHANGED inode \/ inode' \in Inode)
    BY <1>6 DEF Synthesize
  <2> QED BY <2>1, WireUntouched, IntegratorAssumption DEF GeneNamed
<1>7. CASE IntegrateGene
  <2>1. /\ published # {} /\ Integrate(inode, sequence.name, sequence.depends)
        /\ UNCHANGED <<sequence, inode>>
    BY <1>7 DEF IntegrateGene, pipeline
  <2>2. sequence # NoGene
    BY <2>1 DEF Assembled, GeneKept
  <2>3. inode \in Nat /\ sequence.name \in Name /\ sequence.depends \in Seq(Name)
    BY <2>2 DEF GeneNamed
  <2>4. WireInv'
    BY <2>1, <2>3, IntegrateKeeps
  <2> QED BY <1>1, <2>1, <2>4 DEF GeneNamed
<1>8. CASE Commands
  <2>1. WireInv'
    BY <1>8, BeginKeeps, EdgeKeeps, CommitKeeps, AbortKeeps, ApplyKeeps DEF Commands, Submit
  <2> QED BY <1>1, <1>8, <2>1 DEF Commands, pipeline, GeneNamed
<1>9. CASE UNCHANGED geneVars
  BY <1>1, <1>2, <1>9 DEF geneVars, pipeline
<1> QED BY <1>1, <1>3, <1>4, <1>5, <1>6, <1>7, <1>8, <1>9 DEF GeneNext

LEMMA GeneSound == GeneWhole => GeneInv
BY WireSettled DEF GeneWhole, GeneInv, Assembled, SwarmInv, WireInv

(* From untrusted peers to PID 1 (mycelium.rs 175, synthesizer.rs, integrator.rs  *)
(* 33): with any number of peers, fragments, manifests and integrations, and a    *)
(* ring of any capacity, only the whole genuine artifact is published, PID 1 has  *)
(* only services a call said were integrated, and is left in a transaction only   *)
(* when the caller was told.                                                      *)
THEOREM PipelineSound == GeneSpec => []GeneInv
<1>1. GeneInit => GeneWhole
  BY GeneStart
<1>2. GeneWhole /\ [GeneNext]_geneVars => GeneWhole'
  BY GeneStep
<1> QED BY <1>1, <1>2, GeneSound, PTL DEF GeneSpec

ToolsWhole == GeneWhole /\ DceSound /\ WorkerInv

LEMMA ToolsStart == Init => ToolsWhole
<1> SUFFICES ASSUME Init PROVE ToolsWhole
  OBVIOUS
<1>1. DceSound
  BY DEF Init, EngineInit, DceSound
<1> QED BY <1>1, GeneStart, WorkerStart DEF Init, ToolsWhole

LEMMA ToolsStep == ToolsWhole /\ [Next]_toolVars => ToolsWhole'
<1> SUFFICES ASSUME ToolsWhole, [Next]_toolVars PROVE ToolsWhole'
  OBVIOUS
<1>1. [GeneNext]_geneVars /\ (EngineNext \/ UNCHANGED engine) /\ (WorkerNext \/ UNCHANGED worker)
  BY DEF Next, toolVars
<1> QED BY <1>1, GeneStep, EngineKeeps, WorkerKeeps DEF ToolsWhole

(* The tools keep what they promise for any inputs of any of them: also evidence  *)
(* is only given when every declared output lay in the directory at each run with *)
(* the same content (executor.rs, worker.rs 1).                                   *)
THEOREM ToolsAreSound == Spec => []ToolsSound
<1>1. Init => ToolsWhole
  BY ToolsStart
<1>2. ToolsWhole /\ [Next]_toolVars => ToolsWhole'
  BY ToolsStep
<1>3. ToolsWhole => ToolsSound
  BY GeneSound DEF ToolsWhole, ToolsSound, WorkerInv
<1> QED BY <1>1, <1>2, <1>3, PTL DEF Spec

(* DcePass (crucible.rs) buries exactly what no control flow reaches, for         *)
(* programs of any length with jumps of any kind.                                 *)
THEOREM EngineBuriesDead == Spec => BuriesDead
<1> DEFINE Buries ==
      pass = "mark" /\ pass' = "compact" =>
        /\ Least(linear, reached)
        /\ \A i \in DOMAIN linear : code'[i] = linear[i] \/ i \notin reached
<1>1. Init => ToolsWhole
  BY ToolsStart
<1>2. ToolsWhole /\ [Next]_toolVars => ToolsWhole'
  BY ToolsStep
<1>3. ToolsWhole /\ [Next]_toolVars => [Buries]_engine
  <2> SUFFICES ASSUME ToolsWhole, [Next]_toolVars, engine' # engine PROVE Buries
    OBVIOUS
  <2>1. EngineNext
    BY DEF Next, toolVars
  <2> QED BY <2>1, EngineBuries DEF ToolsWhole
<1> QED BY <1>1, <1>2, <1>3, PTL DEF Spec, BuriesDead
=============================================================================
