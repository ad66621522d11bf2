-------------------------- MODULE ProvisionedBuild --------------------------
(***************************************************************************)
(* The hardware commands of one host: verified plans are built from locked *)
(* sources in disposable trees, or fetched through a signed index, and the *)
(* measured artifacts are recorded in the artifact store or installed into *)
(* a target root.  One command runs at a time; it may fail at any step and *)
(* its process may be killed between any two.  The target root is the one  *)
(* LiveRoot promises: a package is installed or removed in one step.       *)
(***************************************************************************)
EXTENDS HardwarePlan

CONSTANTS
  InstallTree, KernelImage, KernelRepo, PushRepo, Escaping,
  Recipe,        \* every recipe text that may be met
  Repository,    \* the checked-out recipes: [base, elsewhere], by package name
  Submission,    \* what a caller may submit: [plans, docs, index]
  Admitted,      \* the recipes the package index admits for a local build
  Overlap,       \* pairs of sources with a file path in common
  Cpu, Host, Arch,
  AllowNetwork,  \* --allow-network
  Torn, Other,   \* a half-written artifact; the digest of any other content
  MaxCalls, MaxKills, MaxFaults

R == INSTANCE BuildRecipe

VARIABLES
  cache,     \* locked source -> None or [marker, whole]
  tree,      \* source lock -> the build tree: None or [sources, built]
  artifact,  \* output directory or file -> None, Torn or the digest of its content
  records,   \* package -> the receipt of the artifact store, or None
  owned,     \* package -> [version, digest] in the target root, or None
  blocked,   \* packages whose target paths hold files of somebody else
  cmd,       \* the running command
  broken,    \* packages whose last call on their artifacts failed or was killed
  calls, kills, faults

vars == <<cache, tree, artifact, records, owned, blocked, cmd, broken, calls, kills, faults>>

Name == {r.name : r \in Recipe}

(* What names a locked source in the cache: everything it says. *)
CacheKey(s) == <<s.base, s.destination>>
SourceKeys(r) == LET q == R!MaterializedSources(r) IN [n \in DOMAIN q |-> CacheKey(q[n])]
Source == UNION {Range(SourceKeys(r)) : r \in Recipe}
Lock == {r.lock : r \in Recipe}
Digest == {r.artifact : r \in Recipe} \cup {Other}

(* Where the content of a package version lies: a directory of built files *)
(* or one fetched package file.                                            *)
Out(kind, i) == [kind |-> kind, name |-> i.name, version |-> i.version]
Outs == {Out(kind, r) : kind \in {"tree", "file"}, r \in Recipe}

Receipt(i, kind, digest) ==
  [name |-> i.name, version |-> i.version, metadata |-> i.metadata, lock |-> i.lock,
   artifact |-> digest, out |-> Out(kind, i)]

(* What a profile whose signature holds, or a verified index, names. *)
Profiled == UNION {Range(d.package) : d \in UNION {{e \in Range(s.docs) : e.trusted} : s \in Submission}}
Indexed == UNION {IF s.index # None /\ s.index.trusted THEN Range(s.index.packages) ELSE {} : s \in Submission}
Signed == Profiled \cup Indexed

Owned == [version : {r.version : r \in Recipe}, digest : Digest]
Cached == [marker : BOOLEAN, whole : BOOLEAN]
IsSeq(q) == q \in Seq(Range(q))

(* Recipes are told apart by their digest; what is submitted is well formed, *)
(* no profile is empty, and what is signed was made from some recipe.  The   *)
(* toolchains of the user are no part of the system or of a build tree.      *)
ASSUME ProvisionAssumption ==
  /\ Admitted \subseteq Recipe
  /\ \A p \in Name : R!FindRecipe(Repository, p) \subseteq Recipe
  /\ \A r, q \in Recipe : r.metadata = q.metadata => r = q
  /\ \A r \in Recipe : IsSeq(r.source) /\ IsSeq(r.commands)
  /\ \A s \in Submission :
       /\ IsSeq(s.plans) /\ IsSeq(s.docs)
       /\ \A d \in Range(s.plans) \cup Range(s.docs) : IsSeq(d.package) /\ d.package # <<>>
       /\ s.index # None => IsSeq(s.index.packages)
       /\ s.index # None => \A p \in Range(s.index.packages) : p.sequence \in Nat
  /\ \A i \in Signed : Out("tree", i) \in Outs /\ i.artifact \in Digest
  /\ None \notin Digest \cup Owned \cup Cached /\ Torn \notin Digest
  /\ ({"/usr", "build-dependencies"} \cup Host.etc \cup Lock) \cap (Host.tools \cup Host.caches) = {}
  /\ {MaxCalls, MaxKills, MaxFaults} \subseteq Nat

Idle == [pc |-> "idle"]
Run(pc) == cmd.pc = pc
MayStart == Run("idle") /\ calls < MaxCalls
Cur == cmd.intents[cmd.n]      \* the intent being worked on
AtEnd == cmd.n = Len(cmd.intents)
Names(c) == {i.name : i \in Range(c.intents)}

Init ==
  /\ cache = [s \in Source |-> None]
  /\ tree = [l \in Lock |-> None]
  /\ artifact = [o \in Outs |-> None]
  /\ records = [p \in Name |-> None]
  /\ owned = [p \in Name |-> None]
  /\ blocked \in {{}} \cup {{p} : p \in Name}
  /\ cmd = Idle /\ broken = {} /\ calls = 0 /\ kills = 0 /\ faults = 0

(***************************************************************************)
(* The commands.  Nothing is written before these checks are through.      *)
(***************************************************************************)
OnePerKey(S) == {CHOOSE i \in S : Key(i) = k : k \in {Key(i) : i \in S}}
InOrder(S) == SetToSeq(OnePerKey(S))   \* the order of the map of intents

Start(pc, route, verb, to, intents) ==
  /\ calls' = calls + 1
  /\ cmd' = [pc |-> pc, route |-> route, verb |-> verb, to |-> to, intents |-> intents,
             n |-> 1, recipe |-> None, k |-> 1, phase |-> 1,
             receipts |-> <<>>, before |-> owned]
  /\ UNCHANGED <<cache, tree, artifact, records, owned, blocked, broken, kills, faults>>

(* install or update --plan: build the union of the plans.  An update of *)
(* a target root from source is refused.                                 *)
BeginBuild ==
  MayStart /\
  \E s \in Submission : \E verb \in {"install", "update"}, to \in {"store", "root"} :
    /\ s.index = None
    /\ ~(verb = "update" /\ to = "root")
    /\ PlanSetVerified(s.plans, s.docs, Cpu)
    /\ BuildUnionValid(s.plans)
    /\ Start("recipe", "build", verb, to, InOrder(Intents(s.plans)))

(* A locally built package of the package service: the recipe is its own *)
(* authority, and the artifact digest is found by the build.             *)
AdmittedIntent(r) ==
  [verb |-> "install", name |-> r.name, version |-> r.version, scope |-> "system",
   repository |-> "arach-native", metadata |-> r.metadata, artifact |-> None, lock |-> r.lock]

BeginAdmitted ==
  MayStart /\
  \E r \in Admitted : Start("recipe", "admitted", "install", "root", <<AdmittedIntent(r)>>)

(* The intent of one package named on the command line. *)
IntentOf(p) ==
  [verb |-> "install", name |-> p.name, version |-> p.version, scope |-> p.scope,
   repository |-> p.repository, metadata |-> p.metadata, artifact |-> p.artifact, lock |-> p.lock]

(* install or update --index: one system package without dependencies. *)
BeginBinary ==
  MayStart /\
  \E s \in Submission, name \in Name :
  \E verb \in {"install", "update"}, to \in {"store", "root"} :
    /\ s.index # None /\ IndexVerified(s.index)
    /\ Matching(s.index, name, None) # {}
    /\ LET p == Select(s.index, name, None) IN
       /\ p.scope = "system" /\ DependencyFree(p)
       /\ Start("fetch", "binary", verb, to, <<IntentOf(p)>>)

(* The binary records of verified plans.  Those of device packages go into *)
(* the target root, when the index covers the whole set.  Those of one     *)
(* plan go into the artifact store, each checked before it is fetched: at  *)
(* one the index does not cover the call fails, with those before fetched. *)
Leading(plan, n) == <<[package |-> SubSeq(plan.package, 1, n)]>>

BeginBinaryPlans ==
  MayStart /\
  \E s \in Submission :
    /\ s.index # None /\ IndexVerified(s.index)
    /\ PlanSetVerified(s.plans, s.docs, Cpu)
    /\ \/ BinarySetValid(s.index, s.plans)
          /\ Start("fetch", "plans", "install", "root", InOrder(Intents(s.plans)))
       \/ /\ Len(s.plans) = 1
          /\ LET plan == s.plans[1]  all == Len(plan.package) IN
             \E n \in 1 .. all :
               /\ IndexCovers(s.index, Leading(plan, n))
               /\ n < all => ~IndexCovers(s.index, Leading(plan, n + 1))
               /\ Start("fetch", "plans", "install", IF n = all THEN "store" ELSE "none",
                        SubSeq(plan.package, 1, n))

(* An update that builds two versions of a package may delete the output of *)
(* one of them when it retires the old record for the other.               *)
Twice(c) == {i.name : i \in {j \in Range(c.intents) :
              \E k \in Range(c.intents) : j.name = k.name /\ j.version # k.version}}

(* The command ends: at its end, with an error, or with its process.  One *)
(* that installs into a target root leaves the recorded artifacts alone.  *)
Return ==
  /\ cmd' = Idle
  /\ broken' = (IF cmd.to = "store" THEN broken \ Names(cmd) ELSE broken) \cup Twice(cmd)
Abort  == cmd' = Idle /\ broken' = broken \cup Names(cmd)

(* A step fails and the command returns its error, or its process is      *)
(* killed there: nothing is cleaned up, so the two leave the same behind. *)
Fail ==
  /\ cmd.pc \notin {"idle", "rollback"}
  /\ Abort
  /\ UNCHANGED <<cache, tree, artifact, records, owned, blocked, calls, kills, faults>>

(* While it rolls back, a command can only be killed. *)
Kill ==
  /\ Run("rollback") /\ kills < MaxKills
  /\ kills' = kills + 1 /\ Abort
  /\ UNCHANGED <<cache, tree, artifact, records, owned, blocked, calls, faults>>

(***************************************************************************)
(* Building one intent.                                                    *)
(***************************************************************************)
Go(pc) == cmd' = [cmd EXCEPT !.pc = pc]

RecipeAdmitted(r) ==
  /\ r.metadata = Cur.metadata
  /\ R!RecipeValid(r, Cur, Arch) /\ Cpu.arch = Arch
  /\ r.lock = Cur.lock
  /\ r.sandboxed /\ r.reproducible
  /\ r.network => AllowNetwork
  /\ cmd.route = "admitted" => r.outputs = <<InstallTree>>

(* Mutant: The tree of an earlier build with the same lock is built upon. *)
ReadRecipeOverOldTree ==
  /\ Run("recipe")
  /\ \E r \in IF cmd.route = "admitted" THEN Admitted ELSE R!FindRecipe(Repository, Cur.name) :
       /\ RecipeAdmitted(r)
       /\ cmd' = [cmd EXCEPT !.pc = "sources", !.recipe = r.metadata, !.k = 1, !.phase = 1]
       /\ tree' = [tree EXCEPT ![r.lock] =
            [sources |-> <<>>, built |-> IF tree[r.lock] = None THEN {} ELSE tree[r.lock].built]]
  /\ UNCHANGED <<cache, artifact, records, owned, blocked, broken, calls, kills, faults>>

(* The recipe is read and checked; only then is the tree of its lock made *)
(* anew, without what an earlier build left there.                        *)
ReadRecipe ==
  /\ Run("recipe")
  /\ \E r \in IF cmd.route = "admitted" THEN Admitted ELSE R!FindRecipe(Repository, Cur.name) :
       /\ RecipeAdmitted(r)
       /\ cmd' = [cmd EXCEPT !.pc = "sources", !.recipe = r.metadata, !.k = 1, !.phase = 1]
       /\ tree' = [tree EXCEPT ![r.lock] = [sources |-> <<>>, built |-> {}]]
  /\ UNCHANGED <<cache, artifact, records, owned, blocked, broken, calls, kills, faults>>

(* The recipe being built, by its metadata digest; the sources of its tree. *)
Now == CHOOSE r \in Recipe : r.metadata = cmd.recipe
Sources == SourceKeys(Now)
Here == Sources[cmd.k]
Tree == tree[Now.lock]

Ready(s) == cache[s] # None /\ cache[s].marker

(* A fetch makes the cache directory first and its marker last; whatever  *)
(* is there without a marker is an error now and at every later attempt.  *)
BeginFetch ==
  /\ Run("sources") /\ cmd.k <= Len(Sources)
  /\ cache[Here] = None
  /\ R!Fetchable(R!MaterializedSources(Now)[cmd.k], AllowNetwork, Host)
  /\ cache' = [cache EXCEPT ![Here] = [marker |-> FALSE, whole |-> FALSE]]
  /\ Go("fetching")
  /\ UNCHANGED <<tree, artifact, records, owned, blocked, broken, calls, kills, faults>>

(* The locked revision or checksum is verified before the content counts. *)
FetchContent ==
  /\ Run("fetching") /\ ~cache[Here].whole
  /\ cache' = [cache EXCEPT ![Here].whole = TRUE]
  /\ UNCHANGED <<tree, artifact, records, owned, blocked, cmd, broken, calls, kills, faults>>

MarkReady ==
  /\ Run("fetching") /\ cache[Here].whole
  /\ cache' = [cache EXCEPT ![Here].marker = TRUE]
  /\ Go("sources")
  /\ UNCHANGED <<tree, artifact, records, owned, blocked, broken, calls, kills, faults>>

(* Two sources that want one path (a file, or a whole destination) are *)
(* refused.                                                            *)
Collides(s) == \E t \in Range(Tree.sources) : {s, t} \in Overlap

MergeSource ==
  /\ Run("sources") /\ cmd.k <= Len(Sources)
  /\ Ready(Here) /\ ~Collides(Here)
  /\ tree' = [tree EXCEPT ![Now.lock].sources = Append(@, Here)]
  /\ cmd' = [cmd EXCEPT !.k = @ + 1]
  /\ UNCHANGED <<cache, artifact, records, owned, blocked, broken, calls, kills, faults>>

(* The closure is checked once more and written into the tree. *)
PrepareClosure ==
  /\ Run("sources") /\ cmd.k > Len(Sources)
  /\ R!ClosureValid(Now)
  /\ Go("build")
  /\ UNCHANGED <<cache, tree, artifact, records, owned, blocked, broken, calls, kills, faults>>

HostTools == cmd.route # "admitted"
DepRoot == IF cmd.route = "admitted" THEN "build-dependencies" ELSE None

(* What the running build sees of the host. *)
Sandbox == R!Boundary(Now.lock, Now.network, HostTools, DepRoot, Host)

CommandOk ==
  Now.system # "cosmic" /\ ~R!IsKernel(Now)
    => R!CommandAllowed(Now, Now.commands[cmd.phase])

(* One phase of the build runs in its sandbox and succeeds. *)
RunPhase ==
  /\ Run("build") /\ cmd.phase <= Len(R!Phases(Now))
  /\ R!SandboxReady(DepRoot, Host, Cpu, Supports)
  /\ CommandOk
  /\ tree' = [tree EXCEPT ![Now.lock].built = @ \cup {<<Now.metadata, cmd.phase>>}]
  /\ cmd' = [cmd EXCEPT !.phase = @ + 1]
  /\ UNCHANGED <<cache, artifact, records, owned, blocked, broken, calls, kills, faults>>

(* The outputs are measured: a build that is not reproducible gives another *)
(* digest.  The directory of the last build goes when the digest is right.  *)
Measure ==
  /\ Run("build") /\ cmd.phase > Len(R!Phases(Now))
  /\ \E d \in {Now.artifact, Other} :
       /\ cmd.route # "admitted" => d = Cur.artifact
       /\ cmd' = [cmd EXCEPT !.pc = "copy",
                             !.receipts = Append(@, Receipt(Now, "tree", d))]
  /\ artifact' = [artifact EXCEPT ![Out("tree", Now)] = Torn]
  /\ UNCHANGED <<cache, tree, records, owned, blocked, broken, calls, kills, faults>>

(* What comes after the last intent has its receipt. *)
AfterReceipts ==
  CASE cmd.to = "root" -> "deploy"
    [] cmd.to = "none" -> "refused"
    [] OTHER -> IF cmd.verb = "update" THEN "retire" ELSE "record"

NextIntent(c, pc) ==
  IF AtEnd THEN [c EXCEPT !.pc = AfterReceipts, !.n = 1] ELSE [c EXCEPT !.pc = pc, !.n = @ + 1]

CopyOutputs ==
  /\ Run("copy")
  /\ artifact' = [artifact EXCEPT ![Out("tree", Cur)] = cmd.receipts[cmd.n].artifact]
  /\ cmd' = NextIntent(cmd, "recipe")
  /\ UNCHANGED <<cache, tree, records, owned, blocked, broken, calls, kills, faults>>

(***************************************************************************)
(* Fetching one record of the index: a file that is there is only checked, *)
(* never downloaded again; a download is checked before it gets its name.  *)
(***************************************************************************)
FetchPackage ==
  /\ Run("fetch")
  /\ LET o == Out("file", Cur) IN
     /\ artifact[o] = None => AllowNetwork
     /\ artifact[o] \in {None, Cur.artifact}
     /\ artifact' = [artifact EXCEPT ![o] = Cur.artifact]
  /\ cmd' = LET c == [cmd EXCEPT !.receipts = Append(@, Receipt(Cur, "file", Cur.artifact))] IN
            IF cmd.to = "root" THEN [c EXCEPT !.pc = "deploy"] ELSE NextIntent(c, "fetch")
  /\ UNCHANGED <<cache, tree, records, owned, blocked, broken, calls, kills, faults>>

(***************************************************************************)
(* The artifact store.  An update first takes away, package by package,    *)
(* the outputs that the new receipt does not keep, and the old record.     *)
(***************************************************************************)
Due == cmd.receipts[cmd.n]

(* Mutant: An update deletes the old outputs, those it has just written too. *)
RetireAll ==
  /\ Run("retire")
  /\ LET old == records[Due.name] IN
     IF old = None THEN UNCHANGED <<artifact, records>>
     ELSE /\ artifact' = [artifact EXCEPT ![old.out] = None]
          /\ records' = [records EXCEPT ![Due.name] = None]
  /\ cmd' = IF AtEnd THEN [cmd EXCEPT !.pc = "record", !.n = 1] ELSE [cmd EXCEPT !.n = @ + 1]
  /\ UNCHANGED <<cache, tree, owned, blocked, broken, calls, kills, faults>>

Retire ==
  /\ Run("retire")
  /\ LET old == records[Due.name] IN
     IF old = None THEN UNCHANGED <<artifact, records>>
     ELSE /\ artifact' = IF old.out = Due.out THEN artifact ELSE [artifact EXCEPT ![old.out] = None]
          /\ records' = [records EXCEPT ![Due.name] = None]
  /\ cmd' = IF AtEnd THEN [cmd EXCEPT !.pc = "record", !.n = 1] ELSE [cmd EXCEPT !.n = @ + 1]
  /\ UNCHANGED <<cache, tree, owned, blocked, broken, calls, kills, faults>>

Record ==
  /\ Run("record")
  /\ records' = [records EXCEPT ![Due.name] = Due]
  /\ IF AtEnd THEN Return ELSE cmd' = [cmd EXCEPT !.n = @ + 1] /\ UNCHANGED broken
  /\ UNCHANGED <<cache, tree, artifact, owned, blocked, calls, kills, faults>>

(* remove: the recorded output and the record go. *)
RemoveRecorded(p) ==
  /\ MayStart
  /\ records[p] # None
  /\ artifact' = [artifact EXCEPT ![records[p].out] = None]
  /\ records' = [records EXCEPT ![p] = None]
  /\ calls' = calls + 1
  /\ UNCHANGED <<cache, tree, owned, blocked, cmd, broken, kills, faults>>

(***************************************************************************)
(* The target root.                                                        *)
(***************************************************************************)
ReceiptOf(i) == CHOOSE r \in Range(cmd.receipts) : r.name = i.name /\ r.version = i.version

(* An admitted build is measured once more before it is installed. *)
Remeasured(r) == artifact[r.out] = r.artifact

(* The payload of an intent can be read: its receipt says what the intent *)
(* says and its output is there, whole.                                   *)
PayloadReadable ==
  LET r == ReceiptOf(Cur) IN
  /\ r.metadata = Cur.metadata /\ r.lock = Cur.lock
  /\ artifact[r.out] \notin {None, Torn}
  /\ IF cmd.route = "admitted" THEN Remeasured(r) ELSE r.artifact = Cur.artifact

Installable ==
  /\ Cur.name \notin blocked
  /\ (owned[Cur.name] = None) = (cmd.verb = "install")

Deploy ==
  /\ Run("deploy")
  /\ PayloadReadable /\ Installable
  /\ owned' = [owned EXCEPT ![Cur.name] =
                [version |-> Cur.version, digest |-> artifact[ReceiptOf(Cur).out]]]
  /\ IF AtEnd THEN Return
     ELSE /\ cmd' = [cmd EXCEPT !.n = @ + 1, !.pc = IF cmd.route = "plans" THEN "fetch" ELSE "deploy"]
          /\ UNCHANGED broken
  /\ UNCHANGED <<cache, tree, artifact, records, blocked, calls, kills, faults>>

(* The root refuses a package, or fails on it without a trace: what this   *)
(* call has installed is removed again, latest first.                      *)
DeployRefused ==
  /\ Run("deploy") /\ PayloadReadable
  /\ cmd' = [cmd EXCEPT !.pc = "rollback", !.n = @ - 1]
  /\ UNCHANGED <<cache, tree, artifact, records, owned, blocked, broken, calls, kills, faults>>

(* Mutant: The package installed first is not taken back. *)
RollbackButOne ==
  /\ Run("rollback")
  /\ IF cmd.n <= 1 THEN Abort /\ UNCHANGED <<owned, faults>>
     ELSE /\ owned' = [owned EXCEPT ![Cur.name] = None] /\ UNCHANGED faults
          /\ cmd' = [cmd EXCEPT !.n = @ - 1]
          /\ UNCHANGED broken
  /\ UNCHANGED <<cache, tree, artifact, records, blocked, calls, kills>>

(* A removal that fails is passed over. *)
Rollback ==
  /\ Run("rollback")
  /\ IF cmd.n = 0 THEN Abort /\ UNCHANGED <<owned, faults>>
     ELSE /\ \/ owned' = [owned EXCEPT ![Cur.name] = None] /\ UNCHANGED faults
             \/ faults < MaxFaults /\ faults' = faults + 1 /\ UNCHANGED owned
          /\ cmd' = [cmd EXCEPT !.n = @ - 1]
          /\ UNCHANGED broken
  /\ UNCHANGED <<cache, tree, artifact, records, blocked, calls, kills>>

RemoveOwned(p) ==
  /\ MayStart
  /\ owned[p] # None
  /\ owned' = [owned EXCEPT ![p] = None]
  /\ calls' = calls + 1
  /\ UNCHANGED <<cache, tree, artifact, records, blocked, cmd, broken, kills, faults>>

Next ==
  \/ BeginBuild \/ BeginAdmitted \/ BeginBinary \/ BeginBinaryPlans
  \/ ReadRecipe \/ BeginFetch \/ FetchContent \/ MarkReady \/ MergeSource \/ PrepareClosure
  \/ RunPhase \/ Measure \/ CopyOutputs \/ FetchPackage
  \/ Retire \/ Record \/ Deploy \/ DeployRefused \/ Rollback
  \/ \E p \in Name : RemoveRecorded(p) \/ RemoveOwned(p)
  \/ Fail \/ Kill

Spec == Init /\ [][Next]_vars

-----------------------------------------------------------------------------
Pcs == {"idle", "recipe", "sources", "fetching", "build", "copy", "fetch", "retire", "record",
        "deploy", "rollback", "refused"}

TypeOK ==
  /\ cache \in [Source -> {None} \cup Cached]
  /\ DOMAIN tree = Lock /\ \A l \in Lock : tree[l] = None \/ Range(tree[l].sources) \subseteq Source
  /\ artifact \in [Outs -> {None, Torn} \cup Digest]
  /\ DOMAIN records = Name /\ DOMAIN owned = Name /\ broken \subseteq Name
  /\ cmd.pc \in Pcs

(***************************************************************************)
(* A build runs, and is measured, in a tree of exactly the locked sources  *)
(* of its recipe, each fetched whole, with nothing of another build in it, *)
(* whatever failed or was killed before; and it sees no writable path but  *)
(* that tree, and the network only when the recipe asks for it             *)
(* (materialize_sources, acquire_source, append_sandbox_boundary).         *)
(***************************************************************************)
BuiltFromLock ==
  TypeOK /\
  (Run("build") =>
     /\ Tree.sources = Sources
     /\ \A s \in Range(Tree.sources) : cache[s].whole
     /\ Tree.built = {<<Now.metadata, n>> : n \in 1 .. cmd.phase - 1}
     /\ {m \in Sandbox.mounts : m.writable} = {[path |-> Now.lock, writable |-> TRUE]}
     /\ Sandbox.network => Now.network /\ AllowNetwork
     /\ ~Sandbox.network => "CARGO_NET_OFFLINE" \in Sandbox.environment
     /\ cmd.route = "admitted" => \A m \in Sandbox.mounts : m.path \notin Host.tools \cup Host.caches)

(***************************************************************************)
(* What is recorded or installed was named, with this digest, by a profile *)
(* whose signature holds or by a verified index, or was built from a       *)
(* recipe the package index admits (verify_plan, build_intent,             *)
(* install_hardware_plan_set_to_root).                                     *)
(***************************************************************************)

Authorised(p, version, digest) ==
  \/ \E i \in Signed : i.name = p /\ i.version = version /\ i.artifact = digest
  \/ \E r \in Admitted : r.name = p /\ r.version = version

OnlyAuthorised ==
  \A p \in Name :
    /\ records[p] # None => Authorised(p, records[p].version, records[p].artifact)
    /\ owned[p] # None => Authorised(p, owned[p].version, owned[p].digest)

(***************************************************************************)
(* A recorded package has its artifact, whole and with the recorded        *)
(* digest, unless its own last call failed or was killed or is still       *)
(* running: no call spoils the artifact of a package it is not about       *)
(* (HostPackageStore::update, remove_recorded_except, measure_outputs).    *)
(***************************************************************************)
RecordsBacked ==
  \A p \in Name :
    records[p] # None /\ p \notin broken /\ (Run("idle") \/ p \notin Names(cmd))
    => artifact[records[p].out] = records[p].artifact

(***************************************************************************)
(* A call that returns has put every package it names into the target      *)
(* root, with its own digest; one the root refused a package has left the  *)
(* root as it was before the call, unless a removal failed; and whoever    *)
(* was there before is there still (install_plan_set_to_root,              *)
(* install_hardware_plan_set_to_root).                                     *)
(***************************************************************************)
RefusalUndone ==
  [][~Run("idle") /\ cmd'.pc = "idle" =>
       /\ \A p \in Name \ Names(cmd) : owned'[p] = cmd.before[p]
       /\ \A p \in Names(cmd) : cmd.before[p] # None => owned'[p] # None
       /\ Run("rollback") /\ kills' + faults' = 0 => owned' = cmd.before
       /\ cmd.to = "root" /\ broken' \cap Names(cmd) = {} =>
            \A i \in Range(cmd.intents) : owned'[i.name].version = i.version]_vars

(***************************************************************************)
(* What the binary store says of a plan set: a failure rolls back what the *)
(* call installed before it (install_hardware_plan_set_to_root).           *)
(***************************************************************************)
PlanSetAtomic ==
  [][~Run("idle") /\ cmd.route = "plans" /\ cmd.to = "root" /\ cmd'.pc = "idle" /\ kills' = kills =>
       owned' = cmd.before \/ \A p \in Names(cmd) : owned'[p] # None]_vars

-----------------------------------------------------------------------------
(* What the invariants above rest on, at every step of a command. *)
Asked ==
  (UNION {Intents(s.plans) : s \in Submission})
  \cup {IntentOf(p) : p \in Indexed} \cup {AdmittedIntent(r) : r \in Admitted}
Receipts == {Receipt(i, kind, d) : i \in Asked, kind \in {"tree", "file"}, d \in Digest}

Working ==
  [pc : Pcs \ {"idle"}, route : {"build", "admitted", "binary", "plans"},
   verb : {"install", "update"}, to : {"store", "root", "none"}, intents : Seq(Asked), n : Nat,
   recipe : {None} \cup {r.metadata : r \in Recipe}, k : Nat, phase : Nat,
   receipts : Seq(Receipts), before : [Name -> {None} \cup Owned]]

Says(S, i) == \E j \in S : j.name = i.name /\ j.version = i.version /\ j.artifact = i.artifact

Warranted(route, i) ==
  CASE route = "admitted" -> \E r \in Admitted : i = AdmittedIntent(r)
    [] route = "binary" -> Says(Indexed, i)
    [] OTHER -> Says(Profiled, i)

Building == cmd.route \in {"build", "admitted"}
BuildPcs == {"recipe", "sources", "fetching", "build", "copy"}
Kind == IF Building THEN "tree" ELSE "file"

(* The command: its intents agree with one another and are warranted, and *)
(* each of its steps is one of its route and target.                      *)
CommandInv ==
  Run("idle") \/
  /\ cmd \in Working
  /\ cmd.intents # <<>> /\ cmd.n <= Len(cmd.intents)
  /\ cmd.n = 0 => Run("rollback")
  /\ \A i \in Range(cmd.intents) : Warranted(cmd.route, i)
  /\ \A i, j \in Range(cmd.intents) : Key(i) = Key(j) => Agree(i, j)
  /\ cmd.pc \in BuildPcs => Building
  /\ Run("fetch") => ~Building
  /\ cmd.pc \in {"retire", "record"} => cmd.to = "store"
  /\ cmd.pc \in {"deploy", "rollback"} => cmd.to = "root"
  /\ cmd.route = "admitted" => cmd.to = "root"
  /\ cmd.route \in {"admitted", "binary"} \/ (cmd.verb = "update" /\ cmd.to = "root") =>
       Len(cmd.intents) = 1

(* The build tree holds the first sources of the recipe, and what the build *)
(* has made so far; the cache only counts as ready what is whole.           *)
BuildInv ==
  /\ \A s \in Source : cache[s] # None /\ cache[s].marker => cache[s].whole
  /\ cmd.pc \in {"sources", "fetching", "build"} =>
       /\ cmd.recipe \in {r.metadata : r \in Recipe} /\ RecipeAdmitted(Now)
       /\ cmd.route = "admitted" => Now \in Admitted
       /\ Tree \in [sources : Seq(Source), built : SUBSET ({Now.metadata} \X Nat)]
       /\ cmd.k = Len(Tree.sources) + 1 /\ Len(Tree.sources) <= Len(Sources)
       /\ \A n \in 1 .. Len(Tree.sources) :
            Tree.sources[n] = Sources[n] /\ cache[Sources[n]] # None /\ cache[Sources[n]].whole
       /\ cmd.phase >= 1
       /\ Tree.built = {<<Now.metadata, n>> : n \in 1 .. cmd.phase - 1}
  /\ Run("fetching") => cmd.k <= Len(Sources) /\ cache[Here] # None
  /\ Run("build") => cmd.k > Len(Sources)
  /\ cmd.pc \in {"sources", "fetching"} => cmd.phase = 1

(* The receipts are those of the first intents, in order. *)
ReceiptInv ==
  ~Run("idle") =>
    /\ Len(cmd.receipts) <= Len(cmd.intents)
    /\ cmd.pc \in {"recipe", "sources", "fetching", "build", "fetch"} => Len(cmd.receipts) = cmd.n - 1
    /\ Run("copy") => Len(cmd.receipts) = cmd.n
    /\ Run("deploy") => Len(cmd.receipts) = IF Building THEN Len(cmd.intents) ELSE cmd.n
    /\ cmd.pc \in {"retire", "record"} => Len(cmd.receipts) = Len(cmd.intents)
    /\ \A n \in 1 .. Len(cmd.receipts) :
         /\ cmd.receipts[n] = Receipt(cmd.intents[n], Kind, cmd.receipts[n].artifact)
         /\ cmd.route # "admitted" => cmd.receipts[n].artifact = cmd.intents[n].artifact

(* An output that is being copied is torn. *)
BeingCopied(o) == Run("copy") /\ o = Out("tree", Cur)

(* What the command has made is there until it is recorded or installed. *)
OutputInv ==
  cmd.pc \in BuildPcs \cup {"fetch", "retire", "record", "deploy"} =>
    \A n \in 1 .. Len(cmd.receipts) :
      LET r == cmd.receipts[n] IN
      \/ artifact[r.out] = r.artifact
      \/ BeingCopied(r.out)
      \/ cmd.pc \in {"retire", "record"} /\ r.name \in Twice(cmd)

(* The records, and those that the running command has written. *)
RecordInv ==
  /\ \A p \in Name : LET r == records[p] IN r # None =>
       /\ r \in Receipts /\ r.name = p /\ r.out \in Outs
       /\ r.out.name = p /\ r.out.version = r.version
       /\ Says(Signed, r) /\ (r.out.kind = "tree" => Says(Profiled, r))
  /\ Run("record") => \A n \in 1 .. cmd.n - 1 :
       LET r == cmd.receipts[n] IN
       r.name \notin Twice(cmd) =>
         records[r.name].out = r.out /\ records[r.name].artifact = r.artifact

(* A command that installs into a target root leaves the records backed *)
(* when the versions it builds have one digest each.                    *)
DigestsAgree ==
  /\ \A i, j \in Profiled : Key(i) = Key(j) => i.artifact = j.artifact
  /\ \A r \in Admitted, i \in Profiled : Key(i) # Key(r)

RootBackedInv ==
  ~Run("idle") /\ cmd.to = "root" =>
    \A p \in Names(cmd) \ broken :
      records[p] # None =>
        artifact[records[p].out] = records[p].artifact \/ BeingCopied(records[p].out)

(* How many of its intents the command has installed. *)
Placed ==
  CASE Run("deploy") \/ (Run("fetch") /\ cmd.to = "root") -> cmd.n - 1
    [] Run("rollback") -> cmd.n
    [] OTHER -> 0

(* The target root is what it was but for the packages installed so far, *)
(* and those whose removal failed.                                       *)
OwnedInv ==
  /\ owned \in [Name -> {None} \cup Owned] /\ kills \in Nat /\ faults \in Nat
  /\ \A p \in Name : owned[p] # None => Authorised(p, owned[p].version, owned[p].digest)
  /\ ~Run("idle") =>
       /\ \A n \in 1 .. Placed :
            LET p == cmd.intents[n].name IN
            /\ cmd.verb = "install" /\ cmd.before[p] = None
            /\ ~Run("rollback") => owned[p] # None /\ owned[p].version = cmd.intents[n].version
       /\ \A p \in Name :
            \/ owned[p] = cmd.before[p]
            \/ /\ cmd.before[p] = None /\ p \in Names(cmd) /\ cmd.verb = "install"
               /\ \/ \E n \in 1 .. Placed : cmd.intents[n].name = p
                  \/ Run("rollback") /\ faults > 0

ProvisionInv ==
  TypeOK /\ CommandInv /\ BuildInv /\ ReceiptInv /\ OutputInv /\ RecordInv /\ OwnedInv
=============================================================================
