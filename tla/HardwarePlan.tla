---------------------------- MODULE HardwarePlan ----------------------------
(***************************************************************************)
(* What lets a package into the hardware commands: the plan against the    *)
(* signed profile and the local CPU, the union of several device plans,    *)
(* and the signed binary index a plan is checked against.  Pure operators. *)
(***************************************************************************)
EXTENDS Naturals, Sequences, FiniteSets, SequencesExt

CONSTANTS
  None,       \* an optional field that is not there
  Malformed,  \* a name, version or digest that its format check refuses
  Supports    \* architecture -> the CPU features it can have

ScopeAuthority == [system |-> "arach-native", driver |-> "arach-hardware", firmware |-> "arach-hardware"]

(* The fields of an intent that a signed profile fixes. *)
BoundFields == {"name", "version", "scope", "repository", "metadata", "artifact", "lock"}

IntentMatches(i, p) == i.verb = "install" /\ \A f \in BoundFields : i[f] = p[f]

WellFormed(r) == \A f \in {"name", "version", "metadata", "artifact", "lock"} : r[f] # Malformed

IntentValid(i) == WellFormed(i) /\ i.repository = ScopeAuthority[i.scope]

(* The compiler target describes this CPU, and its features are exactly *)
(* what the signed policy allows and the CPU has.                       *)
CompilerAuthorised(t, policy, cpu) ==
  /\ t.arch = cpu.arch /\ t.model = cpu.model
  /\ policy # None => policy.arch = t.arch /\ policy.required \subseteq cpu.features
  /\ t.features = IF policy = None THEN {} ELSE policy.allowed \cap cpu.features
  /\ t.features \subseteq Supports[t.arch]

(* Device packages need a range of Driver ABIs that holds the running one. *)
AbiAuthorised(running, profile) ==
  IF profile.abi = None THEN \A p \in Range(profile.package) : p.scope = "system"
  ELSE profile.abi[1] <= running /\ running <= profile.abi[2]

(* Mutant: the intents of the plan are not compared with the profile. *)
PlanVerifiedByDigest(plan, doc, cpu) ==
  /\ plan.schema /\ plan.device # Malformed
  /\ doc.trusted
  /\ plan.profile = doc.id /\ plan.key = doc.key /\ plan.digest = doc.digest
  /\ CompilerAuthorised(plan.compiler, doc.compiler, cpu)
  /\ \A n \in 1 .. Len(plan.package) : IntentValid(plan.package[n])

PlanVerified(plan, doc, cpu) ==
  /\ plan.schema /\ plan.device # Malformed
  /\ doc.trusted
  /\ plan.profile = doc.id /\ plan.key = doc.key /\ plan.digest = doc.digest
  /\ Len(plan.package) = Len(doc.package)
  /\ \A n \in 1 .. Len(plan.package) : IntentMatches(plan.package[n], doc.package[n])
  /\ AbiAuthorised(plan.abi, doc)
  /\ plan.policy = doc.policy
  /\ CompilerAuthorised(plan.compiler, doc.compiler, cpu)
  /\ \A n \in 1 .. Len(plan.package) : IntentValid(plan.package[n])

(* The documents a plan names, among those the keyring verifies; the first *)
(* one decides.                                                            *)
TrustedFor(plan, docs) == {k \in DOMAIN docs : docs[k].trusted /\ docs[k].id = plan.profile}

PlanSetVerified(plans, docs, cpu) ==
  /\ plans # <<>>
  /\ \A m, n \in 1 .. Len(plans) : m # n => plans[m].device # plans[n].device
  /\ \A n \in 1 .. Len(plans) :
       \E k \in TrustedFor(plans[n], docs) :
         /\ \A m \in TrustedFor(plans[n], docs) : k <= m
         /\ PlanVerified(plans[n], docs[k], cpu)

(***************************************************************************)
(* The union of the plans: one intent per name and version, and two plans  *)
(* that name it agree on it (the builder also wants the compiler the same).*)
(***************************************************************************)
Intents(plans) == UNION {Range(plan.package) : plan \in Range(plans)}

Key(i) == <<i.name, i.version>>

Agree(i, j) == i.metadata = j.metadata /\ i.artifact = j.artifact /\ i.lock = j.lock

InstallUnionValid(plans) == \A i, j \in Intents(plans) : Key(i) = Key(j) => Agree(i, j)

BuildUnionValid(plans) ==
  /\ InstallUnionValid(plans)
  /\ \A p, q \in Range(plans) : \A i \in Range(p.package), j \in Range(q.package) :
       Key(i) = Key(j) => p.compiler = q.compiler

(***************************************************************************)
(* The signed binary index.  Format 1 holds one record per name, the later *)
(* formats one per name and version, ordered by the publisher's sequence;  *)
(* only format 3 carries dependencies.                                     *)
(***************************************************************************)
UniqueRecords(ix) ==
  \A m, n \in 1 .. Len(ix.packages) :
    LET p == ix.packages[m] q == ix.packages[n] IN
    IF ix.format = 1
    THEN p.sequence = 0 /\ (m # n => p.name # q.name)
    ELSE /\ p.sequence # 0
         /\ m # n /\ p.name = q.name => p.version # q.version /\ p.sequence # q.sequence

RecordValid(p, ix) ==
  /\ WellFormed(p) /\ p.release > 0
  /\ p.https /\ p.fits
  /\ ix.format # 3 => p.graph = {}
  /\ p.repository = ScopeAuthority[p.scope] /\ p.repository = ix.repository

IndexVerified(ix) ==
  /\ ix.trusted /\ ix.key = ix.signer
  /\ ix.format \in 1 .. 3
  /\ UniqueRecords(ix)
  /\ \A p \in Range(ix.packages) : RecordValid(p, ix)

(* The records of a name (and a version, when one is asked for). *)
Matching(ix, name, version) ==
  {p \in Range(ix.packages) : p.name = name /\ (version = None \/ p.version = version)}

Select(ix, name, version) ==
  CHOOSE p \in Matching(ix, name, version) :
    \A q \in Matching(ix, name, version) : q.sequence <= p.sequence

DependencyFree(p) == p.graph = {}

(* Every intent of the plans is, field by field, a record of the index. *)
IndexCovers(ix, plans) ==
  \A i \in Intents(plans) :
    /\ i.verb = "install"
    /\ Matching(ix, i.name, i.version) # {}
    /\ LET p == Select(ix, i.name, i.version) IN
       /\ p.scope = i.scope /\ p.repository = i.repository
       /\ Agree(p, i) /\ DependencyFree(p)

(* What the target root takes: device intents, one version per name. *)
BinarySetValid(ix, plans) ==
  /\ plans # <<>>
  /\ \A i \in Intents(plans) : i.scope \in {"driver", "firmware"}
  /\ IndexCovers(ix, plans)
  /\ \A i, j \in Intents(plans) : i.name = j.name => i.version = j.version /\ Agree(i, j)
=============================================================================
