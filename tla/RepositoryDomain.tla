-------------------------- MODULE RepositoryDomain --------------------------
(***************************************************************************)
(* What the package service is configured with and what it admits: the     *)
(* signed configuration, its repositories, the source catalogs, and the    *)
(* receipts and journals it keeps; and the domain of candidates that a     *)
(* selector or a constraint is resolved in.  A document comes with the     *)
(* digest that the configuration pins it by.                               *)
(***************************************************************************)
EXTENDS DependencyGraph

CONSTANTS
  Now,         \* the time, in steps that expiry dates count
  Key,         \* the key the keyring admits for package indexes
  Supports,    \* architecture -> the features it may have
  HostCpu,     \* [arch, features] of this machine
  MaxProviders

Architectures == {"any", "x86-64", "aarch64", "riscv64"}

(***************************************************************************)
(* The configuration (open_at, validate_service_config).                   *)
(***************************************************************************)
(* A path is the sequence of its components; the root is <<>>. *)
StorePathsValid(cfg) ==
  LET stores == <<cfg.state, cfg.work, cfg.artifacts>> IN
  /\ \A p \in Range(stores) : p # <<>>
  /\ \A i, j \in DOMAIN stores : i # j => ~IsPrefix(stores[i], stores[j])

CompilerPolicyValid(policy) ==
  /\ policy.arch # "unknown"
  /\ policy.allowed # {} /\ policy.allowed \subseteq Supports[policy.arch]
  /\ policy.required \subseteq policy.allowed

(* host_compiler_target *)
CompilerReady(policy) ==
  /\ CompilerPolicyValid(policy)
  /\ HostCpu.arch = policy.arch
  /\ policy.required \subseteq HostCpu.features
CompilerTarget(policy) == [arch |-> HostCpu.arch, features |-> policy.allowed \cap HostCpu.features]

ArchitectureFits(set, arch) == set \cap {"any", arch} # {}

RepositoryValid(repo, cfg) ==
  /\ repo.clean            \* its names, locations and digests are well formed
  /\ repo.name \notin {"native", "source"}
  /\ repo.generation > 0
  /\ repo.channel = cfg.channel
  /\ repo.architectures # {} /\ repo.architectures \subseteq Architectures
  /\ ArchitectureFits(repo.architectures, cfg.compiler.arch)

Repositories(cfg) == cfg.natives \o cfg.sources

ConfigValid(cfg) ==
  /\ cfg.authentic /\ cfg.signer = Key /\ cfg.key = cfg.signer
  /\ cfg.format = 1 /\ cfg.generation > 0
  /\ cfg.expires > Now
  /\ StorePathsValid(cfg)
  /\ CompilerPolicyValid(cfg.compiler)
  /\ Repositories(cfg) # <<>> /\ Len(Repositories(cfg)) <= MaxProviders
  /\ \A r \in Range(Repositories(cfg)) : RepositoryValid(r, cfg)
  /\ Distinct([n \in DOMAIN Repositories(cfg) |-> Repositories(cfg)[n].name])

(***************************************************************************)
(* Source catalogs, and the bond between a catalog entry and its recipe.   *)
(***************************************************************************)
NoMetadata(p) == p.requirements = <<>> /\ p.provides = <<>> /\ p.conflicts = <<>>

(* Two records of one package differ in version and sequence. *)
NoTwins(packages) ==
  \A i, j \in DOMAIN packages : i # j /\ packages[i].name = packages[j].name =>
    packages[i].version # packages[j].version /\ packages[i].sequence # packages[j].sequence

CatalogPackageValid(p, format) ==
  /\ p.clean /\ p.release > 0 /\ p.sequence > 0
  /\ p.architectures # {} /\ p.architectures \subseteq Architectures
  /\ IF format = 1 THEN NoMetadata(p) ELSE MetadataValid(p)

CatalogValid(doc, repo) ==
  /\ doc.authentic /\ doc.signer = Key /\ doc.key = doc.signer
  /\ doc.format \in {1, 2}
  /\ doc.name = repo.name /\ doc.channel = repo.channel /\ doc.generation = repo.generation
  /\ doc.expires > Now
  /\ \A p \in Range(doc.packages) : CatalogPackageValid(p, doc.format)
  /\ NoTwins(doc.packages)

(* verify_binary_index, as far as this service sees it. *)
IndexValid(doc) ==
  /\ doc.authentic /\ doc.signer = Key /\ doc.authority = "arach-native"
  /\ NoTwins(doc.packages)

(* validate_service_target *)
TargetValid(target, p, arch) ==
  /\ target.package = p.name /\ target.arch = arch
  /\ target.scope = "system" /\ target.authority = "arach-native" /\ ~target.hardware
  /\ target.installTree
  /\ ~target.network /\ target.sandbox /\ target.reproducible

(* validate_source_dependency_binding: catalog and recipe say the same. *)
NamesOf(requirement) == {k.name : k \in requirement}
BindingValid(p, runtime) ==
  /\ \A d \in runtime.depends : \E r \in Range(p.requirements) : d \in NamesOf(r)
  /\ \A r \in Range(p.requirements) : NamesOf(r) \cap runtime.depends # {}
  /\ {k.name : k \in Range(p.provides)} = runtime.provides
  /\ {k.name : k \in Range(p.conflicts)} = runtime.conflicts

(* What prepare_source_candidate demands of a catalog package before it  *)
(* builds: its lock and target are authentic and of this package, and    *)
(* the translated recipe is the one the catalog names.                   *)
Translated(p, arch) ==
  LET i == p.ingress IN
  /\ i.lock.authentic /\ i.target.authentic
  /\ i.lock.package = p.name /\ i.lock.ecosystem = p.ecosystem
  /\ TargetValid(i.target, p, arch)
  /\ i.recipe.package = p.name /\ i.recipe.version = p.version /\ i.recipe.release = p.release
  /\ i.recipe.digest = p.recipe /\ i.recipe.lock = p.lock
  /\ BindingValid(p, i.recipe.runtime)

(***************************************************************************)
(* Candidates.                                                             *)
(***************************************************************************)
Candidate(repo, route, n) ==
  LET p == repo.document.packages[n] IN
  [route |-> route, place |-> n, provider |-> repo.name, channel |-> repo.channel, priority |-> repo.priority,
   generation |-> repo.generation, authority |-> repo.document.digest, ecosystem |-> p.ecosystem,
   name |-> p.name, version |-> p.version, release |-> p.release, sequence |-> p.sequence,
   requirements |-> p.requirements, provides |-> p.provides, conflicts |-> p.conflicts,
   content |-> p.content, record |-> p]

(* ResolvedPackage::identity: it leaves the name out. *)
Identity(c) ==
  <<c.route, c.ecosystem, c.version, c.release, c.sequence, c.content,
    c.requirements, c.provides, c.conflicts>>

GraphKey(c) == <<c.route, c.provider, c.name, c.version, c.sequence>>

NamespaceMatches(c, namespace) ==
  c.provider = namespace \/ c.route = namespace \/ (c.route = "source" /\ c.ecosystem = namespace)

(* What collect_candidate_query asks of a record. *)
Selects(selector, p) ==
  p.name = selector.name /\ (selector.version = None \/ p.version = selector.version)

NativeRecords(repo) ==
  {Candidate(repo, "native", n) : n \in {m \in DOMAIN repo.document.packages :
                                           repo.document.packages[m].scope = "system"}}

SourceRecords(repo, arch) ==
  {Candidate(repo, "source", n) : n \in {m \in DOMAIN repo.document.packages :
                       ArchitectureFits(repo.document.packages[m].architectures, arch)}}

(* Every repository is read; one that is not in order fails the query. *)
Readable(cfg) ==
  /\ \A repo \in Range(cfg.natives) : IndexValid(repo.document)
  /\ \A repo \in Range(cfg.sources) : CatalogValid(repo.document, repo)

(* Everything there is; a query takes what it asks for out of it. *)
Collect(cfg) ==
  (UNION {NativeRecords(repo) : repo \in Range(cfg.natives)})
  \cup (UNION {SourceRecords(repo, cfg.compiler.arch) : repo \in Range(cfg.sources)})

(***************************************************************************)
(* choose_domain: what is installed stays with its provider, channel and   *)
(* route; a namespace is obeyed; otherwise native records push out source  *)
(* ones.  Of the rest, those of the highest priority; providers that offer *)
(* different things there are an ambiguity.                                *)
(***************************************************************************)
Sticks(c, receipt) ==
  /\ c.name = receipt.package /\ c.provider = receipt.provider
  /\ c.channel = receipt.channel /\ c.route = receipt.route

Admissible(C, namespace, installed) ==
  IF installed # None THEN {c \in C : Sticks(c, installed)}
  ELSE IF namespace # None THEN {c \in C : NamespaceMatches(c, namespace)}
  ELSE IF \E c \in C : c.route = "native" THEN {c \in C : c.route = "native"}
  ELSE C

Highest(C) == {c \in C : \A d \in C : d.priority <= c.priority}
Providers(C) == {c.provider : c \in C}

(* The identities one provider offers, each as often as it does. *)
Offer(C, provider) ==
  LET own == {c \in C : c.provider = provider} IN
  [id \in {Identity(c) : c \in own} |-> Cardinality({c \in own : Identity(c) = id})]
Unambiguous(C) == Cardinality({Offer(C, p) : p \in Providers(C)}) = 1

FirstProvider(C) == CHOOSE p \in Providers(C) : \A q \in Providers(C) : Rank[p] <= Rank[q]

(* By sequence, then by version; the sort leaves equals as it finds them. *)
Sooner(c, d) ==
  \/ c.sequence < d.sequence
  \/ c.sequence = d.sequence /\ Rank[c.version] < Rank[d.version]
  \/ c.sequence = d.sequence /\ c.version = d.version /\ c.place < d.place

(* The domain, oldest first; empty when there is no candidate. *)
Domain(C, namespace, installed) ==
  LET top == Highest(Admissible(C, namespace, installed)) IN
  IF top = {} THEN <<>>
  ELSE Listed({c \in top : c.provider = FirstProvider(top)}, Sooner)
Ambiguous(C, namespace, installed) ==
  LET top == Highest(Admissible(C, namespace, installed)) IN top # {} /\ ~Unambiguous(top)

(***************************************************************************)
(* Receipts.                                                               *)
(***************************************************************************)
ReceiptFor(c, cfg, artifact, buildDeps) ==
  [format |-> 2, package |-> c.name, version |-> c.version, release |-> c.release,
   provider |-> c.provider, channel |-> c.channel, route |-> c.route,
   generation |-> cfg.generation, config |-> cfg.digest,
   providerGeneration |-> c.generation, sequence |-> c.sequence,
   requirements |-> c.requirements, provides |-> c.provides, conflicts |-> c.conflicts,
   artifact |-> artifact, authority |-> c.authority, ecosystem |-> c.ecosystem,
   content |-> c.content, buildDeps |-> buildDeps]

(* What a receipt keeps of a package that a build was given. *)
BuildDependency(c) ==
  [package |-> c.name, version |-> c.version, release |-> c.release, provider |-> c.provider,
   channel |-> c.channel, generation |-> c.generation, sequence |-> c.sequence,
   content |-> c.content, authority |-> c.authority]

BuildDependenciesValid(S) ==
  /\ Cardinality(S) < MaxGraph
  /\ \A a, b \in S : a # b => a.package # b.package
  /\ \A a \in S : a.release > 0 /\ a.generation > 0

ReceiptValid(r) ==
  /\ r.format \in {1, 2} /\ r.release > 0 /\ r.generation > 0 /\ r.providerGeneration > 0
  /\ IF r.format = 1 THEN NoMetadata(r) ELSE MetadataValid(r)
  /\ r.route = "source" =>
       /\ r.sequence > 0
       /\ r.format = 1 => r.buildDeps = {}
       /\ BuildDependenciesValid(r.buildDeps)

(* A receipt as a candidate among others. *)
AsCandidate(r) ==
  [name |-> r.package, version |-> r.version, sequence |-> r.sequence,
   requirements |-> r.requirements, provides |-> r.provides, conflicts |-> r.conflicts]

SameMetadata(a, b) ==
  a.requirements = b.requirements /\ a.provides = b.provides /\ a.conflicts = b.conflicts

(* selector_matches_receipt *)
SelectorMatches(selector, r, withVersion) ==
  /\ selector.name = r.package
  /\ withVersion => selector.version \in {None, r.version}
  /\ selector.namespace \in {None, r.provider, r.route}
       \cup IF r.route = "source" THEN {r.ecosystem} ELSE {}

(* candidate_record_matches_receipt *)
SameRecord(c, r) ==
  /\ c.name = r.package /\ c.version = r.version /\ c.release = r.release
  /\ c.sequence = r.sequence /\ SameMetadata(c, r)
  /\ c.route = r.route /\ c.ecosystem = r.ecosystem /\ c.content = r.content

(* enforce_update_floor *)
FloorKept(old, c, cfg) ==
  /\ c.provider = old.provider /\ c.channel = old.channel /\ c.route = old.route
  /\ cfg.generation >= old.generation
  /\ c.generation >= old.providerGeneration
  /\ c.sequence >= old.sequence
  /\ cfg.generation = old.generation => cfg.digest = old.config
  /\ c.sequence = old.sequence => SameRecord(c, old)
  /\ c.generation = old.providerGeneration => c.authority = old.authority

(* The retained candidate that an installed package stands for. *)
Retained(C, r) ==
  {c \in C : /\ c.sequence = r.sequence /\ c.release = r.release
             /\ Sticks(c, r) /\ SameMetadata(c, r)}

(***************************************************************************)
(* Journals.                                                               *)
(***************************************************************************)
(* validate_journal *)
JournalValid(j) ==
  /\ \A r \in {j.old, j.new} \ {None} : ReceiptValid(r) /\ r.package = j.package
  /\ (j.old = None) = (j.action = "install")
  /\ (j.new = None) = (j.action = "remove")

(* validate_graph_journal: the root comes last, and only it may be updated. *)
GraphJournalValid(j) ==
  /\ j.entries # <<>> /\ Len(j.entries) <= MaxGraph
  /\ j.action \in {"install", "update"}
  /\ Distinct([n \in DOMAIN j.entries |-> j.entries[n].package])
  /\ j.entries[Len(j.entries)].package = j.root
  /\ \A n \in DOMAIN j.entries :
       LET e == j.entries[n] IN
       /\ ReceiptValid(e.new) /\ e.new.package = e.package
       /\ e.old # None => ReceiptValid(e.old) /\ e.old.package = e.package
       /\ (e.old # None) = (j.action = "update" /\ n = Len(j.entries))
=============================================================================
