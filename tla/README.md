# Corinth in TLA+

A formal model of Corinth, the package manager of this repository: TLA+ modules
translated from its Rust source, TLC configurations that check them on small
instances, and TLAPS proofs of the theorems that matter most for every instance.

Source lines are given as `file:line`, for the files of the crate's `src`.

## Inventory

### The package manager proper

**Package service** (`service.rs`, with `dependency.rs`). Keeps two directories
of receipts that no file-system operation can change together:
`service-installed/P.toml` (the provenance of an installed release) and
`binary-installed/P.toml` (who owns which files of the target root). `install`,
`update` and `remove` take `service.lock`, run `recover_pending`, resolve a
plan, write a journal, change both directories package by package and clear the
journal. It calls the candidate resolution, the solver and the binary install
store. Hard: failure of any call at any point, death of the process between any
two durable effects, recovery that dies as well, rollback in reverse order, and
`corinth install --root` and `remove --root`, which change ownership without
the lock. Correct when: both directories agree whenever no journal is pending,
the installed set satisfies its requirements and conflicts, recovery can always
decide, each operation takes effect as a whole or not at all, and a pending
journal is eventually resolved.

**Binary install store** (`binary.rs`). Owns the files of a target root: moves
files out of the way one rename at a time, puts staged files in place one
rename at a time, then writes the receipt; on an error it undoes the renames,
best effort. It has no journal and no lock. Hard: errors between renames, errors
of the undo, kills, users who write files. Correct when: receipts describe the
root, files users wrote survive, no path has two owners.

**Filesystem generation store** (`store.rs`). Immutable generation files and a
pointer file `active`, changed by `publish` and `rollback` under a lock, with
directory synchronization after each change. Hard: power losses between
synchronizations, retries after failures, stale publishers. Correct when: the
pointer always names a loadable generation, moves only along the history, and
what was acknowledged survives.

**Package ledger** (`pkg.rs`) and **generation images** (`generation.rs`). An
in-memory image of installed packages changed by optimistic transactions
(`begin` with an authority, intents, `commit`), with a rollback history of four
checkpoints; images are encoded, stored and restored. The native shell
(`command.rs`, `shell/`) runs transactions of one intent. Hard: transactions and
authorities are copies that may be used late or again after other commits and
rollbacks; the digest in an authority has 64 bits; the history is bounded.
Correct when: no update is lost, rollback restores exactly what was there, the
fixed arrays never overflow.

### Finding what to install

**Candidate resolution and update floor** (`service.rs`). Opens a signed
configuration, fetches and caches the documents it pins, resolves a selector to
a root package, gathers the candidates that requirements, capabilities and
alternatives lead to, asks the solver, orders the selection, and refuses
candidates below the floor of an update. Hard: installed packages are pinned and
must be found again at their provider, a provider is chosen per name and per
capability, packages from source need a build root that is planned the same way,
every table is bounded. Correct when: the plan meets every requirement, is the
least the solver can choose and comes in an order in which it can be installed;
a refusal is justified; a call that fails changes nothing.

**Solver** (`alchemist.rs`, `dependency.rs`). A DPLL search with an explicit
trail in fixed arrays, a constraint builder that takes back a call that runs out
of room, and the ordering of a selection. Hard: phases, trail and queue must
agree after each turned decision; tables may fill at any insertion. Correct
when: it finds a model if there is one, the least one, and stops.

### Building

| Part | Files | State and operations | Hard |
|---|---|---|---|
| Hardware plans, host package store, source builds | `hardware.rs`, `binary.rs` | plans signed for a host, recipes, a cache of locked sources, build trees, measured artifacts, their records | a failure or kill after any step; trees and caches shared by builds; plan sets with rollback |
| Helix scheduler | `helix.rs` | a ring of jobs, a deque per worker, a thermal governor | a ring filled and popped by priority, stealing, workers taken away |
| Crucible passes | `crucible.rs` | a buffer of instructions rewritten in place: inlining, unrolling, dead code, compaction | rewriting while scanning, nested loops, no room; termination |
| Mycelium swarm | `mycelium.rs` | peers with trust, an artifact assembled from fragments | peers that lie, or do not answer |
| Gene checks, synthesizer, integrator | `dna.rs`, `synthesizer.rs`, `integrator.rs` | a gene, its lowering, a transaction of commands to PID 1 over a bounded ring | refusal of any command, of the abort too |
| Worker and executor | `worker.rs`, `executor.rs` | a request run several times in one directory; evidence | others write to that directory |

### Around these

| Part | Files | |
|---|---|---|
| Registry, routes, sources, policy, semantics, corpus, index, discovery, importers | `registry.rs`, `route.rs`, `source.rs`, `policy.rs`, `semantics.rs`, `corpus.rs`, `indexer.rs`, `universal_*.rs`, `*_import.rs` | parsing, validation, scoring: pure |
| Programs | `main.rs`, `bin/` | arguments and output around the above |

`PROJECT.json` lists every part with what is modelled of it, and every hazard
with the line where it bites and the properties that would show it.

How the parts interact: `main.rs` opens the package service, which owns the
lock; the service resolves (`service.rs`) with the solver, prepares packages
with the source builds of `hardware.rs`, and applies them through the binary
install store. `hardware.rs` also installs plan sets into a target root through
the same store. Ledger, images and generation store form the native package
state. The Helix scheduler, the Crucible engine, the swarm, synthesizer and
integrator and the worker are libraries with callers outside the crate; they
share no state.

## Modules

| Module | What it is |
|---|---|
| `PackageGraph` | the release data all parts of the service share: requirements, conflicts, sequences, and what the solver and `ensure_removal_safe` demand of a set of releases |
| `PackageDatabase` | abstract: one database changed by whole transactions |
| `PackageService` | the lifecycle transactions with their journals, rollback and recovery |
| `LiveRoot` | abstract: files and owner of a package change in one step |
| `BinaryInstallStore` | the renames of `install_payload` and `remove`, and their undo |
| `GenerationHistory` | abstract: the active generation moves to a child or to its parent |
| `GenerationStore` | `publish` and `rollback` with synchronizations and power losses |
| `UndoHistory` | abstract: images whose last changes can be undone one by one |
| `PackageLedger` | authorities, transactions, commits, rollbacks, shell commands, restarts |
| `BuildOrder` | the topological sort of build jobs |
| `BuildPool` | abstract: a bounded pool of jobs from which the greatest priority leaves |
| `HelixScheduler` | ring, deques, dispatch, stealing, governor; extends `BuildOrder` |
| `HardwarePlan` | verification of plans, profiles, capabilities and indexes |
| `BuildRecipe` | admission of recipes, their sources, closures, commands and sandbox |
| `ProvisionedBuild` | the hardware commands over cache, trees, artifacts, records and target root; extends `HardwarePlan`, instantiates `BuildRecipe` |
| `DpllSolver` | the search of `alchemist.rs`, one step of its loop at a time |
| `ConstraintBuilder` | the clauses, and the builder calls that fit or change nothing |
| `DependencyGraph` | the candidate graph, its clauses and the order of a selection |
| `RepositoryDomain` | configuration, documents, candidates, domains, update floor |
| `PackageResolution` | a call of the service from its documents to its plan; composes the four above |
| `FragmentSwarm` | admission of peers and assembly of an artifact |
| `MatrixIntegrator` | a transaction of commands to PID 1 |
| `GenePipeline` | from fragments to an integrated service; extends both |
| `Crucible` | the engine's passes, and what a program does |
| `WorkerExecution` | requests, their runs and evidence |
| `CrucibleRuns` | what a program does, and that a mutation keeps it; only TLC's runs reach it |
| `Toolchain` | gene pipeline, engine and worker, which no program of the repository composes: a behaviour is that of one of them |
| `Library` | the same for the tools, the generation store, the ledger and the scheduler |
| `*_proofs` | theorems of the modules they are named after |
| `MC*` | the instances TLC checks |

### PackageService

`svc` and `bin` are the two directories, `journal` and `graph` the two journal
files, `litter` the temporaries a dead or failed `atomic_write` leaves in
`service-installed`. A receipt is a model value with a package, an identity
(what the ownership receipt holds), a sequence, requirements and conflicts; two
receipts may have one identity, as two provenances of one binary do. flock
admits one process, which its death releases, so one record of volatile state
(`phase`, `step`, `applied`, `recovering`, `mine`) stands for whoever holds it.

| Action | Code |
|---|---|
| `OpenClean`, `RecoverSingle`, `RecoverGraph`, `Refuse` | `ServiceLock::acquire` and the decision of `recover_pending` |
| `InstallOrUpdate`, `Decline` | resolution, checks and `write_graph_journal` |
| `Record`, `Deploy` | the loop of `lifecycle_dependency_graph`, one durable effect each |
| `Undo`, `UndoDone`, `Restore` | `rollback_graph_entries` and the same loops of recovery |
| `RollForward` | recovery of a graph that is fully owned |
| `Remove`, `Withdraw`, `Erase`, `Reinstate` | `remove`, and `recover_single_pending` |
| `Clear` | `clear_journal`, `clear_graph_journal` |
| `Kill` | death between two effects |
| `ForeignWrite` | `corinth install --root`, `remove --root` on the same state, between any two steps of the above |

A failing call takes effect or not, wherever the code cannot tell: a rename whose
directory sync fails has happened. The solver appears by what it guarantees, a
consistent and minimal selection around what is installed (`PackageResolution` is
where it is modelled); the order is any that `dependency_order` may return, with
the root moved last as `lifecycle_dependency_graph` does. Of
`enforce_update_floor`, the sequence and the identity are modelled here. The
ownership receipt stands for the package's files; what happens below it is
`BinaryInstallStore`.

### BinaryInstallStore

`target` and `owned` are on disk; `phase`, `pkg`, `new`, `todo`, `saved`,
`placed`, `retired` belong to the running operation. `Save`, `Place`, `Own`,
`Retire` and `Discard` are one rename, write or unlink each; a file's
content is a model value, and a payload gives each path its content. `Error`
makes any call fail; `Unplace`, `Restore` and `Undone` are the undo, whose own
failures are ignored as in the code. `Kill` leaves the disk as it is.
`UserWrite` is everybody else. Reading, hashing, staging and permissions are
left out: they precede the first rename.

### GenerationStore

`generations` and `active` are what processes see; `synced` and `stable` what a
power loss may leave. `Link`, `Sync`, `Point`, `Settle`, `Unlink` are the steps
of `publish_immutable` and `replace_pointer`; a generation that is already there
is compared and `publish` goes on to the pointer at once, as `store.rs:86` does.
`Fail` is a call that failed or a process that died; the visible effect of the
call may have happened, which the interleaving with the step itself covers.
`Mixed` says whether power losses and failures may occur in one behaviour: the
store guarantees less then, see *Findings*.

### PackageLedger

`image`, `generation` and `checkpoints` are the ledger; `held` and `txn` the
copies a client has, used at any later time and any number of times. The digest
is a constant operator, so a theorem holds for every digest, and the instance
uses one that collides almost always. Sorted arrays with binary search become
functions from names to versions with 0 for absent; the capacity remains.
`version_idx` and `name_hash` are positive and 0 means none, as in the code.
`Save` and `Restart` stand for a generation image that is stored and restored.
Errors that leave the transaction as it was (a wrong expected version, an unsorted
selection, an identity of zero) are stuttering steps. A `commit` of an unchanged
image returns Ok and changes nothing, which is a stuttering step.

### HelixScheduler

`graph`, `degree`, `order` and `visited` of `BuildOrder` are `TopoSorter::sort`, one
visit of its loop per step. `jobs`, `head`, `tail` and
`count` are the `WorkQueue` with its modular arithmetic; `deque` a deque per
worker; `activeWorkers` and `readings` the governor. `Enqueue`, `PushDirectly`,
`PopDirectly`, `DispatchQueued` (the job of the greatest priority goes to the
first active worker with an empty deque), `DispatchStolen`, `Complete` and
`ReportThermal` are one call each, in any order. `building` and `given` are what the
client knows. `pop_priority` fills its hole with the last counted job and leaves
`tail` (`helix.rs:119`), so a job that is pushed later lies outside of the counted
part: `helix_refill` shows it.

### HardwarePlan, BuildRecipe, ProvisionedBuild

`HardwarePlan` translates `verify_plan`, `verify_profile`, the checks of
capabilities against the host's processor, and the index; `BuildRecipe` the checks
of a recipe: sources of each kind and where they go, closures against the lock
file, the commands of each build system, and the boundary of the sandbox. Both
are operators over submissions and recipes. `ProvisionedBuild` has the disk
(`cache` of locked sources with their markers, `tree` per lock, `artifact`s,
`record`s, `root`) and one running command `cmd` with its program counter.

| Action | Code |
|---|---|
| `BeginBuild`, `BeginAdmitted`, `BeginBinary`, `BeginBinaryPlans` | the four entries and their checks before the first write |
| `ReadRecipe`, `BeginFetch`, `FetchContent`, `MarkReady`, `MergeSource`, `PrepareClosure` | `build_intent`, `acquire_source`, `materialize_sources` |
| `RunPhase`, `Measure`, `CopyOutputs` | the phases in their sandbox, `measure_outputs` |
| `FetchPackage` | `fetch_bytes`, which never downloads over a file that is there |
| `Retire`, `Record`, `RemoveRecorded` | `HostPackageStore::update`, `install`, `remove` |
| `Deploy`, `DeployRefused`, `Rollback`, `RemoveOwned` | `install_plan_set_to_root` and the set of the binary store |
| `Fail`, `Kill` | any call fails and the command returns its error; the process dies |

`install_plan` checks a record of the index, fetches it and goes to the next: where
the index covers a plan only in part, `BeginBinaryPlans` starts a command over the
records before the one that does not match, which fetches them and can then only
fail.

The target root is what `LiveRoot` promises: one package goes in or out in one
step. Digests are identities: a build that is not reproducible gives `Other`.

### DpllSolver, ConstraintBuilder, DependencyGraph

The state of the search is that of the solver in `alchemist.rs`: `assignment`,
`trail`, the open decisions `frames`, and the place `scan` of propagation in the
list of clauses. A step forces one unit clause, meets one conflict, ends a pass,
decides a variable (absent first), or turns the latest decision around. The
calls of `ConstraintBuilder` are `require`, `dependency`, `conflict` and
`at_most_one_version`; each adds its clauses one by one to bounded tables, and
one that does not fit goes back to its checkpoint. `DependencyGraph` checks a
graph of candidates and makes its clauses; its edges are what
`PackageResolution` orders a selection by.

### RepositoryDomain, PackageResolution

`RepositoryDomain` is what `open_at` admits, native indexes, source catalogs with
their ingress receipts, the documents fetched and cached by digest,
`choose_domain`, capability providers, candidates and `enforce_update_floor`.
Versions and names are ranked by a constant, constraints are sets of versions.
`PackageResolution` runs a `job` through the phases `fetch`, `expand`, `solve`,
`order` and `prepare`; a source build has a nested plan for its root, whose `outer`
is the plan it is for. `db` is the database; applying is one step (`Commit`), since
the transaction is `PackageService`'s. `Fail` ends a call wherever an input or an
operation may fail. The other client of the builder, a program with its own calls,
is `client = "builder"`. The filters and concatenations of the code's vectors are
`Kept` and `Flat`, and a set in the order of `candidate_key` is `InKeyOrder`.

### FragmentSwarm, MatrixIntegrator, GenePipeline

`peers`, `received` and `output` are `MyceliumSwarm` and `Assimilation`. A
genuine fragment is named by its index; a fragment claims an index and carries
one, and its proof verifies when the two agree, which is what makes a genuine
fragment sent for another index a lie. Authentication, transport, verification,
the lowering backend and the publisher are traits, so their answers are inputs.
In `MatrixIntegrator` a step submits one command; the ring refuses when it is
full and the sink whenever it likes. `MatrixApply` is PID 1, which is outside
this repository: it takes commands in order and a service when its edges are
complete. The hash of names is any function.

### Crucible

A step handles one instruction of one pass. `Mutate` begins a call of
`mutate` on a program from a set; the instance has one call in a
behaviour, since between calls the engine keeps only statistics. `Runs` is what a
program does, defined on programs alone: its straight-line instructions with
bodies in the place of sites and loops as often as they count. It is recursive
and therefore in a module of its own, `CrucibleRuns`, which only modules for
TLC reach; nothing about it is a theorem.

### WorkerExecution

`Execute` validates a request; `RunTool` starts the sandbox; then each declared
output is looked at in turn, its size by `TakeSize` and its content by
`ReadContent`, and `EndRun` keeps both as evidence; `Judge` compares the runs. The
sandbox of `executor.rs` binds nothing of the host writable, so a run changes
nothing in the work directory: what is measured there was put there by others
(`OthersWrite`), who may write between any two of these steps. `seen` records what
each run has seen of each output, as the size was taken and as it was read.

### Toolchain, Library

The tools, the generation store, the ledger and the scheduler have callers outside
of the crate only and share no state. `Toolchain` and `Library` put them next to each other: a
variable that never changes says which one a behaviour is about, and the
others stay as they are. One run checks them all.

## What is checked

| Run | Bounds | Shows |
|---|---|---|
| `service` | six packages, eight releases, four failures or kills, fair | types; receipts agree; the installed set is consistent; recovery is never refused; the root commits last; owned packages can run during installs; the inductive invariant; `PackageDatabase` is implemented; a pending journal is resolved |
| `service_foreign` | four packages, two failures, two foreign writes at any time, unreadable receipts | what the service records is consistent whoever else writes ownership |
| `service_litter` | the same, no foreign write | **violation**: a killed write makes later enumerations fail |
| `binary_store` | two packages, three releases, three paths, two failures, a kill, an edit | receipts describe the root; no path has two owners; `LiveRoot` is implemented; what users wrote survives; its inductive invariant |
| `generations_retry` | one failure | **violation**: a retried publish moves the pointer before its generation is synchronized |
| `provision` | six recipes, two calls, one failure of the root, one kill in a rollback, a failure or kill at every other step | builds see their lock and nothing else; only what is authorised is recorded; records have their artifact; a refused plan set is taken back |
| `provision_partial` | the same | **violation**: a plan set whose second package cannot be fetched leaves the first installed |
| `resolution` | two generations of a configuration, nine packages, six selectors, three calls; or four builder calls | plans are sound and least; refusals justified; builder calls are atomic; every call ends |
| `library`: generations | six images, three failures or three power losses | the pointer names a loadable generation; the inductive invariant; `GenerationHistory` is implemented; what was acknowledged survives |
| `library`: ledger | three names, two versions, one installed package, depth two, three generations | no lost update; intents fit; the history is usable; the inductive invariant; `UndoHistory` is implemented |
| `library`: scheduler | every graph of up to three packages with up to two listed dependencies each, a ring of two, two workers, two reports | the sort finds an order exactly when there is one; what leaves by priority is the best of the counted jobs; the invariant of ring and deques; every job leaves the ring |
| `library`: tools | four of six nodes admissible, two at a time, one of them silent, two fragments, a ring of two, two integrations; every program of up to two instructions of nine kinds, those of three that jump or call, and longer ones, 14 instructions of room, four tables; up to four runs of a request, two foreign writes | the chain from peers to PID 1 and the evidence are sound; a mutation keeps what a program does; what was begun ends |
| `helix_refill` | the scheduler of `library`, with three workers | **violation**: a job that is pushed after a dispatch is not in the pool |
| `mutation_endless` | the tools of `library` | **violation**: two bodies that stand for each other are inlined for ever |
| `worker_bound` | the tools of `library`, four foreign writes | **violation**: a content that is larger than its bound is accepted |

The bounds are chosen for the cases, not for size.

- The catalog of `service` has a chain of new dependencies, an alternative that
  conflicts with the first choice, two provenances of one binary, and a tool whose
  requirement an update of another package would break unless a package comes in
  that itself needs the new root. Four failures are one that fails an operation,
  one in its rollback and two in recoveries after that, each of which may be a
  kill.
- The paths of `binary_store` include one that an update changes, one that it
  drops and one that another package wants.
- The images of the generation store are two children of one parent, which race, a
  grandchild, and two whose numbers are refused.
- In the ledger the capacity is one, so that a full ledger, a removal before an
  install and a second intent for a name occur within two intents, and the depth
  is two with three commits, so that a checkpoint is dropped; one client is enough
  since the commands of the shell commit between any two of its steps, and the
  proofs are for any number.
- In the scheduler three jobs go through a ring of two, so its ends wrap and a
  slot is filled again after a dispatch, and graphs contain self-loops, duplicate
  edges, an edge to a package that is not there, and one package too many. One hot
  report takes one of the two workers away; before it there is a free one to steal
  and a busy one to steal from.
- In `provision` two packages share a lock, one has two versions, one recipe was
  edited after it was signed, plans, profiles and an index are forged, and sources
  of the kernel want the same path. A run of three calls was checked too and
  showed nothing else. One plan is covered by its index up to its second record.
- The catalog of `resolution` has a capability with two providers, a conflict
  that rules the older version out, a cycle, a package without a solution and one
  from source with a dependency of its build. The builder's tables (eight
  variables, 24 clauses of five literals) overflow within four calls.
- Among the tools, nodes share an address or an id, so a second admission is
  refused; lies are a fragment of another index, a wrong length, a proof that is
  too deep and one that does not verify; one peer never answers; a ring of two is
  full in the middle of each transaction of a gene with dependencies; both
  temperatures lead to a preference. Tables include one of bodies that call each
  other, one of bodies that replace each other and one of an empty body. One
  foreign write creates a file and a second one replaces it in any later moment,
  also between the two looks at it; `worker_bound` has four, to do so in two runs.

Bounds on counters are constants: `MaxFaults`, `MaxForeign`, `MaxKills`,
`MaxEdits`, `MaxLosses`, `MaxGeneration`, `MaxReports`, `MaxCalls`, `MaxOps`,
`MaxIntegrations` and `MaxWrites`. They count the environment's moves and the
clients' calls, and `MaxGeneration` stands for `u64::MAX`, at which the code
refuses as well. Capacities of the code's tables (`MAX_PACKAGES`, `QUEUE_CAPACITY`
and so on) are constants too, and small, so that they are met.

Deadlock is checked except where the system stops: in `binary_store`, a root on
which a user changed a file of each package refuses every operation, as the code
is meant to; in `provision`, `resolution` and `library` the jobs, calls or requests of a
behaviour are used up. In `PackageService` the only state without
an operation would be one whose recovery fails closed; `Refuse` is that outcome.

**Fairness.** All of it is weak: of steps that the code takes without waiting for
anybody, of calls a client is assumed to repeat, and of two parties outside that
are named below.

- `PackageService`: the steps of a running process, which is sequential code that
  either returns or dies; `Decline`, the return of an operation that has nothing
  to do; and that somebody starts another operation while a journal is pending.
  The last is an assumption on users: nothing in the code recovers by itself.
- `HelixScheduler`: the client keeps asking for jobs (`DispatchQueued`) and every
  build it was given ends (`Complete`).
- `PackageResolution`: the steps of a running call (`RunningStep`).
- `Toolchain`: the next step of an engine and of an integrator; that PID 1 takes
  commands; and that a client goes on polling and a peer that is not in `Silent` and
  is asked again and again answers at last, genuinely or not. Nothing is assumed of
  silent peers: `poll` has no timeout and no penalty for one that does not answer
  (`mycelium.rs:192`), so a silent peer that is rated best starves the honest ones.
  That is an outcome of `Assembles` (`Starved`), not something it assumes away.
  Nothing is assumed of workers either: `run_once` waits for its tool as long as it
  takes (`executor.rs:121`), and no property says that a request ends.

Failures, kills, refusals and reports have no fairness, and the bound on them
says that they stop.

### Assumptions in properties

- `ReceiptsDescribeTarget` and `ExclusivePaths` hold while users leave
  installed files alone (`edits = 0`), no process was killed, and for one failure
  in a behaviour. With two failures the undo itself may fail, its error is ignored
  and the backup is deleted (`binary.rs:998`).
- `OwnedAlwaysRunnable` is about installs and removals. In an update, a new
  dependency that needs the new root is owned before it, since the root is moved
  last.
- `UserFilesKept` holds when users write between operations; a file that is
  written between its check and its rename is lost (`binary.rs:966`).
- `AcknowledgedSurvives` and `StoreInv` hold when power losses and failures do
  not mix.
- `RecordsBacked` leaves out packages whose own last call failed (`broken`), and
  one whose update built two versions of it.
- `RefusalUndone` is about packages the target root refuses. A failure before that
  is `provision_partial`.
- The part of `MutationSound` about what a program does is stated for programs
  without jumps, whose loops end and count no more than the unroller copies, and
  tables of straight bodies; the part about dead code holds for all of them. The
  mutation part of `ToolsEnd` is stated for productive tables, in which no site
  can be replaced for ever by code that is no longer than itself; for the others
  the code does not end (`mutation_endless`).
- `EvidenceReproduced` says that all runs saw the same sizes and the same contents,
  not that an output ever had both or that the outputs lay there together: the code
  looks at them one after the other. That the content is within the bound is false
  (`worker_bound`).

## What is proved

**Package service** (`PackageService_proofs`), for every catalog and every
number of failures and kills. `TypeCorrect` and `ServiceStaysConsistent` hold with
foreign writes at any time and unreadable receipts too; the others assume
`Undisturbed`: no foreign writes and readable receipts. The inductive invariant `TransactionInv`
says, phase by phase, which entries of the pending journal are on their old or
new side in either directory; nothing weaker is preserved, since what recovery
does depends on all of `bin`, and what the end of recovery leaves on all of
`svc`. From it follow `ReceiptsAgree`, `InstalledConsistent`,
`RecoveryNeverRefused` and `RootCommitsLast`. Installing and removing keep the
set consistent because the journal records a solution of the solver, and both
what was there before and what will be there after are consistent.

- `OwnedAlwaysRunnable`: each entry of an install is supplied by the entries
  before it and what stays (`Supplied`), and entries are owned in that order
  (`OwnedInOrder`). That an install has such an order, with the root last, rests
  on the selection being minimal: without the packages that nothing else needs
  there would be a smaller one.
- `AtomicTransactions`, the implementation of `PackageDatabase`: a graph counts as
  `Committed` from the step on after which no rollback can reverse it. Every step
  of the protocol leaves what is `Recorded` alone but for that one, which is the
  whole transaction, and what is committed stays so until the journal is cleared.
- `InstalledConsistent` with foreign writes rests on an invariant about the
  receipts of the service alone (`RecordedInv`): whatever stops a walk over the
  journal's graph, each entry has its old or its new receipt; the journal is only
  cleared when all have the same side, and both sides are consistent; no step takes
  a decision from ownership that leads anywhere else.

**Binary install store** (`BinaryInstallStore_proofs`), for every set of payloads
and any number of failures, kills and edits. `StoreTypes` holds as it is; the
others assume that users write only between operations (`~EditsAnytime`).
`KeptInv` says that no path which a running operation is still to move, to fill,
to empty or to restore holds a file of a user: the checks before the first rename
establish it, and each step puts into these paths nothing but payload or what it
saved there. `RootInv` relates the disk to what `LiveRoot` would hold: the
operation has moved away what was in its way, put in place a part of what is new
(`Progress`), and an undo puts back exactly what was saved, so that nothing else
is touched (`Unharmed`). From it follow the implementation of `LiveRoot`
(`AtomicOnTarget`), `ExclusivePaths` and `ReceiptsDescribeTarget`, as long as no
more than one call failed and nobody was killed or edited an installed file, which
is what these properties say.

**Generation store** (`GenerationStore_proofs`), for every set of images and any
number of failures and losses that do not mix (`~Mixed`). `StoreInv` says what
the pointer names on disk and in memory in each phase: the disk is one step
behind at most (`Durable`), and the step is between parent and child. From it
follow `StoreActiveLoadable`, `StoreAcknowledgedSurvives` and
`StoreLinearHistory`, the implementation of `GenerationHistory`: also a power
loss is a step along the history.

**Package ledger** (`PackageLedger_proofs`), for every set of clients and names,
every capacity and depth, and every digest, without further assumptions.
`LedgerInv` strengthens `NoLostUpdate` to a statement about generation numbers
alone: since every commit and rollback raises the generation, and a restart
forgets transactions, a transaction of the current generation was opened on the
current image. So digests may collide. For `LedgerIntentsFit`, the invariant
bounds the packages that a transaction removed or left alone (`Inherited`) by the
capacity; those it installed fit as well, so twice the capacity is enough for
`touched_names`. `LedgerUndoesExactly` is the implementation of `UndoHistory`.

**Build scheduler** (`HelixScheduler_proofs`), for every ring, every number of
workers, packages and reports, and every graph of them. `RingInv` says where the
counted jobs lie between head and tail, that the deques hold disjoint parts of what
was enqueued, and how far the sort is. `HelixInv` follows from it, and `PopsBest`,
that a dispatch takes one copy of a job of the greatest priority out of the counted
ones and keeps the rest, however the ring was filled: moving the last counted job
into the hole of the popped one permutes what is left. `SortCorrect`,
that the sort ends with an order exactly when the graph has no cycle, has no
induction over the graph: if some nodes were left, each would have a predecessor
among them, and a shrinking sequence of sets of nodes contradicts the
well-foundedness of inclusion.

**Source builds** (`ProvisionedBuild_proofs`), for every set of recipes, plans,
profiles and indexes, any number of calls, failures and kills. `ProvisionInv` is a
conjunction: the intents of a command are warranted and agree with one another
(`CommandInv`); the tree holds the first sources of the recipe and what the phases
so far have made, and a marked cache entry is whole (`BuildInv`); the receipts are
those of the first intents (`ReceiptInv`), whose outputs are torn only while they
are copied (`OutputInv`); each record is of what was signed or admitted
(`RecordInv`); and the target root differs from what it was by the packages
installed so far (`OwnedInv`). `BuiltFromLock`, `OnlyAuthorised` and
`RefusalUndone` follow for all inputs that satisfy `ProvisionAssumption`, which
says what documents are: lists are sequences, plans name at least one package, a
recipe is identified by its signed metadata, and a sandbox binds neither `/usr` nor
the lock writable. `RecordsBacked` is proved under `DigestsAgree`, that two profiles
give a version the same digest and none gives one to an admitted recipe's: a plan
installed into a root builds in the tree that a record of the same version points
to, so with another digest it would replace what is recorded. The instance of
`provision` has such documents.

**Resolution** (`PackageResolution_proofs`), for all repositories, selectors and
calls that satisfy `ResolutionAssumption`: names and versions are ordered, documents
are finite lists, and a graph has no more candidates than the solver has variables
and the trail has entries, as `dependency.rs` and `alchemist.rs` fix it. Nothing is
assumed about what repositories offer. `ResolutionInv` is a conjunction:

- `SolverInv`: the trail and the open decisions leave out no model. A literal that
  was not decided follows from those before it (`Implied`), and a decision is turned
  around only when no model takes its first side (`Refuted`), so a search that gives
  up has no model, and a model that is found is below every other one
  (`LeastModel`): where another first differs, it has a variable that the found one
  leaves out. That propagation stops with no clause in conflict is `QuietInv`; it is
  what makes an assignment of every variable a model.
- The clauses of a graph hold of exactly its coherent selections (`GraphMeaning`).
  That the variables number the candidates is a fact about finite orders
  (`Numbering`), where the library's induction principle cannot be used; it is
  proved from the cardinalities of what lies below each member.
- `JobInv`: what was gathered is closed up to the cursor (`GatherOK`), so a graph
  that is put into clauses has all that its requirements lead to (`Closed`); the
  selection is the first coherent one (`Picked`); and the walk of
  `order_dependency_solution` has on its stack what is marked 1 and in order what is
  marked 2, after all it needs (`Walk`).
- `BuilderInv`: during a call of the constraint builder both tables have grown from
  what the call found, so that cutting them back restores them.

`PlanSound`, `PlanLeast` and `RefusalJustified` follow, and `CallsAtomic` from
`BuilderInv` alone. For `RefusalJustified` the candidates within reach of a request
are the least closed set: the gathered universe is closed, so it contains them.

**Tools** (`Toolchain_proofs`), for any peers and lies, any number of fragments,
polls, manifests, programs and requests. `PipelineSound`: the buffer is genuine as
far as it is filled, an honest peer is never shut out, and only the whole genuine
artifact is published, for a focus that its manifest allows; that the first missing
fragment exists rests on the well-foundedness of inclusion among finite sets of
indices. `ToolsAreSound` is `ToolsSound`, which adds the worker. For the integrator,
`WireInv` is about one sequence, the transaction PID 1 has open followed by the
commands in the ring: it consists of transactions whose edges go to services that
were taken or are committed earlier on the wire, and only the last may be
unfinished, which a client left that could not even abort. So PID 1 has only
services that were asked for, whole, and a caller whose transaction is left open is
told. For the worker, evidence is what was seen at the runs, output by output, with other
processes writing in between (`WorkerInv`).
`EngineBuriesDead`: when the marking pass of the engine ends, what it has marked is
dead, and compaction drops nothing else. The assumptions are about names: no
transaction is the model value for none, and manifests name what they allow. `Library`
has no theorem of its own: its parts share no variable, so what is proved of each
holds of its behaviours there.

Only model-checked: all liveness (`PendingResolved`, `EveryJobLeaves`, `Resolves`,
`ToolsEnd`); the part of `MutationSound` about what a program does, which is
compared with a recursive definition. Liveness and ENABLED are out of the prover's
reach, and so is induction over data where it cannot be put as the well-foundedness
of inclusion or of the numbers.

## Findings

Each is shown by a run that ends in a counterexample.

1. `service_litter`: a process that dies in `atomic_write` leaves `P.tmp-PID` in
   `service-installed`. `recover_pending` does not remove it, and
   `read_all_service_receipts` rejects the directory from then on, so no install,
   update or removal is possible until somebody deletes the file.
2. `generations_retry`: a `publish` that failed between the link of a
   generation and the directory synchronization, and is retried, finds the file,
   compares it and replaces the pointer without synchronizing the directory. A
   power loss may then leave a pointer to a generation that is not there.
3. `provision_partial`: `install_hardware_plan_set_to_root` fetches and decodes
   each package between the installations and returns at once when that fails
   (`binary.rs:836`); its comment says that failures roll back what the call
   installed before (`binary.rs:780`).
4. `helix_refill`: `pop_priority` fills the hole with the last counted job but
   leaves `tail` behind it (`helix.rs:119`). A job that is pushed afterwards lies
   outside of the counted part, where no dispatch finds it, and the slot counted in
   its place still holds a job that was handed out or moved.
5. `mutation_endless`: the depth counter that "prevents recursive infinite
   inlining" (`crucible.rs:145`) is raised and lowered once around the whole pass
   (`crucible.rs:220`, `273`) while the scan stays at the site it has replaced
   (`crucible.rs:270`). Two functions that consist of a site of the other, or one
   with an empty body, keep `mutate` busy for ever.
6. `worker_bound`: `run_once` takes the size of an output from `fs::metadata`
   and its content from a later `fs::read` (`executor.rs:133`). A file replaced in
   between, at each of the runs, is accepted with the size of the one before, though
   it is larger than the output may be; `worker.rs:1` calls the contract fail-closed.

Observed while modelling and not stated as findings:

- *Service.* When the ownership receipt of the root was written but
  `install_payload` failed and reading the receipt fails too (`service.rs:812`),
  the same process rolls a fully owned graph back. Recovery after a kill takes away
  ownership that a direct `corinth install` gave a dependency with the same
  identity meanwhile (`service.rs:1888`).
- *Binary store.* A process that dies between the renames of an operation leaves
  files no receipt owns, or a package without its files; its backup directory is
  never looked at again, and recovery of the service puts receipts right, not
  files. Conflicts are found by the existence of files, so after a user deletes a
  file a second package may come to own its path.
- *Helix.* Stealing hands out a job the client was given already, and does not happen when
  the busiest worker has the lower index (`helix.rs:418`). The comment "Cool:
  restore max workers" (`helix.rs:197`) has no code. `job_count` never decreases.
- *Source builds.* An interrupted fetch leaves a cache directory without a marker,
  which is an error at every later attempt (`hardware.rs:1119`). `fetch_bytes` never
  replaces a file with a wrong digest (`binary.rs:602`). `HostPackageStore::install`
  over an older record forgets its outputs. An update that builds two versions of a
  package may delete the output of one. The artifact directory
  `{name}-{version}-{release}` does not tell apart all releases.
- *Resolution.* The least solution takes the newest version where the comment
  prefers the older (`alchemist.rs:18`, `309`; the test at `dependency.rs:541` wants
  the newest), and pure literals, which another comment
  mentions, are not eliminated (`alchemist.rs:12`). Installed packages are pinned,
  so an update cannot bring in an update of a dependency, and one that its
  provider no longer offers blocks every install and update; so does one repository
  that cannot be read. A damaged object of the document cache is never replaced
  (`service.rs:2837`). Cycles are refused always. A removal forgets the floor of
  updates.
- *Crucible.* Inlining and unrolling do not adjust relative
  jumps; an inlined return ends its caller; loops that count beyond the unroller's
  limit are cut to it.
- *Swarm and integrator.* `poll` asks the best-rated peer again and again, without
  timeout or penalty while it does not answer (`mycelium.rs:192`), so one silent peer
  keeps an artifact from being assembled. A banished peer keeps its slot, its address
  and its id, so liars may use up the capacity. A ring that is full in the middle of a
  transaction refuses the abort as well: PID 1 stays in it until the next begin, and the
  caller is told (`RollbackFailed`).
- *Worker.* A tool may run for ever (`executor.rs:121`). Evidence is about files that
  lay in the work directory, since the sandbox can write to none of them, and the
  outputs of a run need not have lain there at one time; exit codes and the digests of
  inputs are not looked at.

## Plan

Done: the components above, and a theorem for every safety property that a run
checks but `MutationSound`, whose part about dead code is proved. Left:

1. Compositions: `PackageService` on `BinaryInstallStore`, where modified files
   refuse the removal that recovery needs; `PackageLedger` on `GenerationStore`.
2. What a mutation of the engine keeps, by induction over its steps rather than
   over the program.

## Not modelled, and why

Parsing, formatting, hashing, signatures, network and the processes inside of
sandboxes are input and output; digests appear as identities, and hashes as
constants that may collide where the code would not notice (`PackageLedger`,
`MatrixIntegrator`) or as injective (the solver's names). Scores in floating
point (`policy.rs`, `native/`) are out of TLC's reach. The registry, route
selection, source admission, semantics, corpus, index, discovery and importers
are pure functions of one document, without state that later calls depend on.
The Idris and Agda files under `formal/` are proofs about source authority in
other systems. Statistics, `job_status` of the scheduler, which nothing sets to
`InProgress`, and the truncation of the engine's output are left out. Power
losses are modelled for the generation store only. The service synchronizes the
directories of its own receipts and journals, but the binary store none of its
renames and ownership receipts (`binary.rs:1305`, `hardware.rs:3160`), so the
properties of both are about kills and failures. Two processes in one
`BinaryInstallStore`, which takes no lock, are not modelled.
