--------------------------- MODULE PackageService ---------------------------
(***************************************************************************)
(* The lifecycle transactions of corinth's PackageService: install, update *)
(* and remove over two independent receipt directories.                    *)
(*                                                                         *)
(*   service-installed/P.toml   the provenance receipt  (variable svc)     *)
(*   binary-installed/P.toml    the ownership receipt   (variable bin)     *)
(*                                                                         *)
(* No file system operation changes both, so an operation first writes a   *)
(* journal that names both sides of every package it is going to change.   *)
(* Each step below is one durable effect of the process that holds         *)
(* service.lock.  Any of them may fail, and the process may be killed      *)
(* between any two of them: the journal it leaves is resolved by           *)
(* recover_pending at the start of the next operation.                     *)
(*                                                                         *)
(* flock admits one process and is released by its death, so one record of *)
(* volatile state (phase, step, applied, recovering, mine) stands for      *)
(* whichever process holds the lock; phase "idle" means that nobody does.  *)
(***************************************************************************)
EXTENDS PackageGraph, Sequences, FiniteSets

CONSTANTS
  MaxFaults,          \* bound: failed system calls and kills in a behaviour
  MaxForeign,         \* bound: writes to binary-installed that bypass the service
  UnreadableReceipts  \* may an ownership receipt be unreadable just after its write?

ASSUME ServiceAssumption ==
  /\ MaxFaults \in Nat
  /\ MaxForeign \in Nat
  /\ UnreadableReceipts \in BOOLEAN

VARIABLES
  svc,         \* package -> its service receipt, or Absent
  bin,         \* package -> the identity in its binary receipt, or Absent
  journal,     \* service-transaction.toml: the receipt a removal takes away
  graph,       \* service-graph-transaction.toml: entries [old, new], root last
  litter,      \* packages with a leftover P.tmp-PID in service-installed
  phase,       \* what the lock holder does next
  step,        \* the graph entry it is at
  applied,     \* graph entries whose ownership it has to undo
  recovering,  \* it is inside recover_pending
  mine,        \* the part of litter that carries its own PID
  faults,      \* failures so far
  foreign      \* foreign writes so far

durable == <<svc, bin, journal, graph, litter>>
volatile == <<phase, step, applied, recovering, mine>>
vars == <<durable, volatile, faults, foreign>>

Phases == {"idle", "ready", "record", "deploy", "undo", "restore", "forward",
           "withdraw", "erase", "reinstate", "clear"}

Entry == [old : Receipt \cup {Absent}, new : Receipt]

-----------------------------------------------------------------------------
(* Receipts and plans *)

IdentityOf(r) == IF r = Absent THEN Absent ELSE Identity[r]

Installed == {svc[p] : p \in Package} \ {Absent}

(* binary_matches_service for package p, absence included. *)
Agree(p) == bin[p] = IdentityOf(svc[p])

Pkg(e) == PackageOf[e.new]

(* mutate_binary: the entry changes the binary identity. *)
Mutates(e) == e.old = Absent \/ Identity[e.old] # Identity[e.new]

Root == graph[Len(graph)]

(* Mutant of Fixed: the release an update replaces still counts.                 *)
FixedWithOldRoot(root) == Installed

(* Every installed package but the one the operation is about stays as it is. *)
Fixed(root) == Installed \ {svc[PackageOf[root]]}

(* New candidates: releases of packages that are not installed.                *)
Missing(root) ==
  {r \in Receipt : svc[PackageOf[r]] = Absent /\ PackageOf[r] # PackageOf[root]}

Feasible(root, new) ==
  /\ \A r, s \in new : PackageOf[r] = PackageOf[s] => r = s
  /\ Consistent(Fixed(root) \cup new \cup {root})

(* The solver prefers absence, so it selects nothing it can do without. *)
Selected(root, new) ==
  /\ Feasible(root, new)
  /\ \A fewer \in SUBSET new : Feasible(root, fewer) => fewer = new

Orders(S) ==
  {o \in [1..Cardinality(S) -> S] :
     /\ \A i, j \in DOMAIN o : o[i] = o[j] => i = j
     /\ \A r \in S : \E i \in DOMAIN o : o[i] = r}

(* Mutant of DependencyOrder: the root stays where the sort put it.             *)
OrderWithoutRootLast(root, o) ==
  \A i \in 1..Len(o) : \A q \in Requires[o[i]] :
    q \cap (Fixed(root) \cup {o[j] : j \in 1..i}) # {}

(* dependency_order sorts the selection so that what meets a requirement comes *)
(* first (a cycle is an error); the root, found at position k, then moves last. *)
DependencyOrder(root, o) ==
  LET n == Len(o)
      Before(i) == Fixed(root) \cup {o[j] : j \in 1..i}
  IN  /\ o[n] = root
      /\ \E k \in 1..n :
           /\ \A q \in Requires[root] : q \cap (Before(k - 1) \cup {root}) # {}
           /\ \A i \in 1..(n - 1) : \A q \in Requires[o[i]] :
                q \cap (Before(i) \cup IF i >= k THEN {root} ELSE {}) # {}

-----------------------------------------------------------------------------
(* Effects and failures *)

Goto(ph, i) ==
  /\ phase' = ph
  /\ step' = i

(* Mutant of Exit: the applied entries outlive the operation.                  *)
ExitKeepsApplied ==
  /\ Goto("idle", 0)
  /\ recovering' = FALSE
  /\ mine' = {}
  /\ UNCHANGED applied

(* The process returns or dies: the lock is free, what it knew is gone. *)
Exit ==
  /\ Goto("idle", 0)
  /\ applied' = {}
  /\ recovering' = FALSE
  /\ mine' = {}

Spend == faults < MaxFaults /\ faults' = faults + 1

(* write_service_receipt: atomic_write creates P.tmp-PID exclusively. *)
WriteReceipt(p, r) ==
  /\ p \notin mine
  /\ svc' = [svc EXCEPT ![p] = r]
  /\ UNCHANGED <<litter, faults>>

(* It fails on the directory sync, before the temporary exists, with the      *)
(* temporary left behind, or because this process left one there already.     *)
WriteReceiptFails(p, r) ==
  \/ /\ Spend
     /\ p \notin mine
     /\ svc' = [svc EXCEPT ![p] = r]
     /\ UNCHANGED litter
  \/ /\ Spend
     /\ litter' \in {litter, litter \cup {p}}
     /\ UNCHANGED svc
  \/ /\ p \in mine
     /\ UNCHANGED <<svc, litter, faults>>

(* remove_service_receipt: a missing file is fine. *)
RemoveReceipt(p) ==
  /\ svc' = [svc EXCEPT ![p] = Absent]
  /\ UNCHANGED <<litter, faults>>

RemoveReceiptFails(p) ==
  /\ Spend
  /\ svc' \in {svc, [svc EXCEPT ![p] = Absent]}
  /\ UNCHANGED litter

(* Mutant of PutBack: only replaced receipts are restored, new ones stay.       *)
PutBackKeepsNew(e) ==
  IF e.old = Absent THEN UNCHANGED <<svc, litter, faults>> ELSE WriteReceipt(Pkg(e), e.old)

(* Mutant of PutBack: what is owned in its new release by now stays recorded.   *)
PutBackUnlessOwned(e) ==
  IF bin[Pkg(e)] = Identity[e.new] THEN WriteReceipt(Pkg(e), e.new)
  ELSE IF e.old = Absent THEN RemoveReceipt(Pkg(e)) ELSE WriteReceipt(Pkg(e), e.old)

(* The receipt of entry e on the side it had before the transaction. *)
PutBack(e) == IF e.old = Absent THEN RemoveReceipt(Pkg(e)) ELSE WriteReceipt(Pkg(e), e.old)
PutBackFails(e) ==
  IF e.old = Absent THEN RemoveReceiptFails(Pkg(e)) ELSE WriteReceiptFails(Pkg(e), e.old)

NextEntry(ph, then) ==
  IF step < Len(graph) THEN Goto(ph, step + 1) ELSE Goto(then, 0)

-----------------------------------------------------------------------------
Init ==
  /\ svc = [p \in Package |-> Absent]
  /\ bin = [p \in Package |-> Absent]
  /\ journal = Absent
  /\ graph = << >>
  /\ litter = {}
  /\ phase = "idle" /\ step = 0 /\ applied = {} /\ recovering = FALSE /\ mine = {}
  /\ faults = 0 /\ foreign = 0

(* ---- recover_pending, once the lock is held ---- *)

Open(ph, i, undo) ==
  /\ Goto(ph, i)
  /\ applied' = undo
  /\ recovering' = TRUE
  /\ UNCHANGED <<durable, mine, faults, foreign>>

OpenClean ==
  /\ phase = "idle"
  /\ journal = Absent /\ graph = << >>
  /\ Goto("ready", 0)
  /\ UNCHANGED <<durable, applied, recovering, mine, faults, foreign>>

(* recover_single_pending on a removal journal: the ownership receipt decides. *)
RecoverSingle ==
  /\ phase = "idle"
  /\ journal # Absent /\ graph = << >>
  /\ \/ /\ bin[PackageOf[journal]] = Identity[journal]
        /\ Open("reinstate", 0, {})
     \/ /\ bin[PackageOf[journal]] = Absent
        /\ Open("withdraw", 0, {})

(* Mutant of NewSide: any ownership receipt counts as the new one.             *)
NewSideIfOwned(i) == bin[Pkg(graph[i])] # Absent

NewSide(i) == bin[Pkg(graph[i])] = Identity[graph[i].new]

AllNew == \A i \in DOMAIN graph : NewSide(i)

(* Mutant of Reversible: an entry that was never reached counts as foreign.     *)
ReversibleIfReached ==
  \A i \in DOMAIN graph :
    IF i = Len(graph) /\ graph[i].old # Absent
      THEN bin[Pkg(graph[i])] = Identity[graph[i].old]
      ELSE NewSide(i)

(* The per-entry check of recover_graph_pending. *)
Reversible ==
  \A i \in DOMAIN graph :
    IF i = Len(graph) /\ graph[i].old # Absent
      THEN bin[Pkg(graph[i])] = Identity[graph[i].old]
      ELSE NewSide(i) \/ bin[Pkg(graph[i])] = Absent

RecoverGraph ==
  /\ phase = "idle"
  /\ graph # << >> /\ journal = Absent
  /\ \/ /\ AllNew
        /\ Open("forward", 1, {})
     \/ /\ ~AllNew /\ Reversible
        /\ Open("undo", 0, {i \in DOMAIN graph : graph[i].old = Absent /\ NewSide(i)})

(* Fail closed: two journals, or ownership that is on neither side. *)
RecoverRefused ==
  \/ journal # Absent /\ graph # << >>
  \/ /\ journal # Absent
     /\ bin[PackageOf[journal]] \notin {Absent, Identity[journal]}
  \/ /\ graph # << >>
     /\ ~AllNew /\ ~Reversible

Refuse ==
  /\ phase = "idle"
  /\ RecoverRefused
  /\ UNCHANGED vars

RollForward ==
  /\ phase = "forward"
  /\ LET e == graph[step] IN
     \/ /\ WriteReceipt(Pkg(e), e.new)
        /\ NextEntry("forward", "clear")
        /\ UNCHANGED <<applied, recovering, mine>>
     \/ WriteReceiptFails(Pkg(e), e.new) /\ Exit
  /\ UNCHANGED <<bin, journal, graph, foreign>>

(* ---- install and update: lifecycle_dependency_graph ---- *)

(* Any refusal before the journal: nothing to do, no plan, no payload. *)
Decline ==
  /\ phase = "ready"
  /\ Exit
  /\ UNCHANGED <<durable, faults, foreign>>

(* read_all_service_receipts rejects a directory with a leftover temporary. *)
Enumerable == litter = {}

(* write_graph_journal, then the first entry; its failure is returned as it is. *)
BeginGraph(root, o) ==
  /\ \A p \in Package : svc[p] # Absent \/ p = PackageOf[root] => Agree(p)
  /\ svc[PackageOf[root]] # Absent => UpdateAllowed(svc[PackageOf[root]], root)
  /\ svc[PackageOf[root]] # root \/ Len(o) > 1
  /\ LET n == Len(o)
         entries == [i \in 1..n |->
           [old |-> svc[PackageOf[o[i]]], new |-> o[i]]]
     IN \/ /\ graph' = entries
           /\ Goto("record", 1)
           /\ recovering' = FALSE
           /\ UNCHANGED <<applied, mine, faults>>
        \/ /\ Spend
           /\ graph' \in {graph, entries}
           /\ Exit
  /\ UNCHANGED <<svc, bin, journal, litter, foreign>>

InstallOrUpdate ==
  /\ phase = "ready"
  /\ Enumerable
  /\ \E root \in Receipt : \E new \in SUBSET Missing(root) :
       /\ Selected(root, new)
       /\ \E o \in Orders(new \cup {root}) :
            DependencyOrder(root, o) /\ BeginGraph(root, o)

(* A failed entry is rolled back by the same process. *)
Abort == Goto("undo", 0)

Record ==
  /\ phase = "record"
  /\ LET e == graph[step] IN
     \/ /\ WriteReceipt(Pkg(e), e.new)
        /\ IF Mutates(e) THEN Goto("deploy", step) ELSE NextEntry("record", "clear")
        /\ UNCHANGED mine
     \/ /\ WriteReceiptFails(Pkg(e), e.new)
        /\ mine' = mine \cup (litter' \ litter)
        /\ Abort
  /\ UNCHANGED <<bin, journal, graph, applied, recovering, foreign>>

(* install_payload wants an owner exactly when it replaces one. *)
Replaceable(e) == (bin[Pkg(e)] = Absent) <=> (e.old = Absent)

NextDeployed == applied' = applied \cup {step} /\ NextEntry("record", "clear")

(* A write of another process between that check and the write is lost: the       *)
(* states are those of one before the check.  After an error the entry still      *)
(* counts as applied if its ownership receipt reads as the new identity, whoever  *)
(* wrote it; a failed read ends the loop without that.                            *)
Deploy ==
  /\ phase = "deploy"
  /\ LET e == graph[step]
         owned == [bin EXCEPT ![Pkg(e)] = Identity[e.new]] IN
     \/ /\ Replaceable(e)
        /\ bin' = owned
        /\ NextDeployed
        /\ UNCHANGED faults
     \/ /\ Spend \/ (~Replaceable(e) /\ UNCHANGED faults)
        /\ UNCHANGED bin
        /\ IF NewSide(step) THEN NextDeployed ELSE UNCHANGED applied /\ Abort
     \/ /\ UnreadableReceipts
        /\ Spend
        /\ bin' = bin \/ (Replaceable(e) /\ bin' = owned)
        /\ UNCHANGED applied
        /\ Abort
  /\ UNCHANGED <<svc, journal, graph, litter, recovering, mine, foreign>>

(* ---- rollback_graph_entries, and the same loops of recover_graph_pending ---- *)

(* Mutant of Latest: dependencies are removed before their dependents.         *)
Earliest(i) == \A j \in applied : j >= i

Latest(i) == \A j \in applied : j <= i

(* BinaryInstallStore::remove, whatever the package is owned as by then.  It     *)
(* fails when nothing owns it, and may fail after the receipt is gone: recovery  *)
(* accepts both, the rollback of a live operation reports them.                  *)
Undo ==
  /\ phase = "undo"
  /\ \E last \in applied :
       LET e == graph[last]
           gone == [bin EXCEPT ![Pkg(e)] = Absent]
       IN /\ Latest(last)
          /\ \/ /\ e.old = Absent
                /\ bin[Pkg(e)] # Absent \/ recovering
                /\ bin' = gone
                /\ applied' = applied \ {last}
                /\ UNCHANGED <<phase, step, recovering, mine, faults>>
             \/ /\ e.old = Absent
                /\ Spend
                /\ \/ bin' = bin
                   \/ bin' = gone /\ (recovering => UnreadableReceipts)
                /\ Exit
             \/ /\ e.old # Absent \/ (bin[Pkg(e)] = Absent /\ ~recovering)
                /\ UNCHANGED <<bin, faults>>
                /\ Exit
  /\ UNCHANGED <<svc, journal, graph, litter, foreign>>

UndoDone ==
  /\ phase = "undo" /\ applied = {}
  /\ Goto("restore", 1)
  /\ UNCHANGED <<durable, applied, recovering, mine, faults, foreign>>

Restore ==
  /\ phase = "restore"
  /\ \/ /\ PutBack(graph[step])
        /\ NextEntry("restore", "clear")
        /\ UNCHANGED <<applied, recovering, mine>>
     \/ PutBackFails(graph[step]) /\ Exit
  /\ UNCHANGED <<bin, journal, graph, foreign>>

(* ---- remove ---- *)

BeginRemove(p) ==
  /\ phase = "ready"
  /\ Enumerable
  /\ svc[p] # Absent /\ Agree(p)
  /\ Supported(Installed \ {svc[p]})
  /\ \/ /\ journal' = svc[p]
        /\ Goto("withdraw", 0)
        /\ recovering' = FALSE
        /\ UNCHANGED <<applied, mine, faults>>
     \/ /\ Spend
        /\ journal' \in {journal, svc[p]}
        /\ Exit
  /\ UNCHANGED <<svc, bin, graph, litter, foreign>>

(* remove_service_receipt, in remove and in recover_single_pending. *)
Withdraw ==
  /\ phase = "withdraw"
  /\ \/ /\ RemoveReceipt(PackageOf[journal])
        /\ Goto(IF recovering THEN "clear" ELSE "erase", 0)
        /\ UNCHANGED <<applied, recovering, mine>>
     \/ RemoveReceiptFails(PackageOf[journal]) /\ Exit
  /\ UNCHANGED <<bin, journal, graph, foreign>>

(* binary_store.remove: a failure that left the owner is undone, one that did   *)
(* not is a committed removal (so is one that finds no owner any more), one     *)
(* that left another owner or cannot be inspected ends the process.             *)
Erase ==
  /\ phase = "erase"
  /\ LET gone == [bin EXCEPT ![PackageOf[journal]] = Absent] IN
     \/ /\ bin' = gone
        /\ Goto("clear", 0)
        /\ UNCHANGED <<applied, recovering, mine, faults>>
     \/ /\ Spend
        /\ bin[PackageOf[journal]] = Identity[journal]
        /\ Goto("reinstate", 0)
        /\ UNCHANGED <<bin, applied, recovering, mine>>
     \/ /\ Spend
        /\ bin[PackageOf[journal]] \notin {Absent, Identity[journal]}
        /\ UNCHANGED bin
        /\ Exit
     \/ /\ UnreadableReceipts
        /\ Spend
        /\ bin' \in {bin, gone}
        /\ Exit
  /\ UNCHANGED <<svc, journal, graph, litter, foreign>>

Reinstate ==
  /\ phase = "reinstate"
  /\ \/ /\ WriteReceipt(PackageOf[journal], journal)
        /\ Goto("clear", 0)
        /\ UNCHANGED <<applied, recovering, mine>>
     \/ WriteReceiptFails(PackageOf[journal], journal) /\ Exit
  /\ UNCHANGED <<bin, journal, graph, foreign>>

(* ---- clear_journal and clear_graph_journal: unlink, then sync ---- *)

Clear ==
  /\ phase = "clear"
  /\ \/ /\ journal' = Absent /\ graph' = << >>
        /\ UNCHANGED faults
        /\ IF recovering
             THEN /\ Goto("ready", 0)
                  /\ applied' = {} /\ recovering' = FALSE
                  /\ UNCHANGED mine
             ELSE Exit
     \/ /\ Spend
        /\ \/ journal' = Absent /\ graph' = << >>
           \/ UNCHANGED <<journal, graph>>
        /\ Exit
  /\ UNCHANGED <<svc, bin, litter, foreign>>

(* ---- the environment ---- *)

(* The process dies between two of its durable effects. *)
Kill ==
  /\ phase # "idle"
  /\ Spend
  /\ Exit
  /\ UNCHANGED <<durable, foreign>>

(* `corinth install --root --state` and `corinth remove --root --state` on the   *)
(* service's state directory: they use BinaryInstallStore directly and take no   *)
(* lock, so they write between any two steps of a service process.  Between two  *)
(* of the receipts that one step above reads, a write to a package commutes with *)
(* the reading of another, so it is a write before the step or one after it.     *)
ForeignWrite ==
  /\ foreign < MaxForeign
  /\ \E p \in Package :
       \E a \in {Absent} \cup {Identity[r] : r \in {s \in Receipt : PackageOf[s] = p}} :
         bin' = [bin EXCEPT ![p] = a]
  /\ foreign' = foreign + 1
  /\ UNCHANGED <<svc, journal, graph, litter, volatile, faults>>

Recover == RecoverSingle \/ RecoverGraph

Step ==
  \/ RollForward
  \/ Record
  \/ Deploy
  \/ Undo
  \/ UndoDone
  \/ Restore
  \/ Withdraw
  \/ Erase
  \/ Reinstate
  \/ Clear

Remove == \E p \in Package : BeginRemove(p)

Next ==
  \/ OpenClean
  \/ Recover
  \/ Refuse
  \/ Decline
  \/ InstallOrUpdate
  \/ Remove
  \/ Step
  \/ Kill
  \/ ForeignWrite

Spec == Init /\ [][Next]_vars

(* A process keeps running until it returns, and somebody starts another one    *)
(* when a journal is pending: without a next operation nothing recovers.        *)
FairSpec == Spec /\ WF_vars(Recover) /\ WF_vars(Step) /\ WF_vars(Decline)

-----------------------------------------------------------------------------
(* Correctness *)

TypeOK ==
  /\ svc \in [Package -> Receipt \cup {Absent}]
  /\ bin \in [Package -> Artifact \cup {Absent}]
  /\ journal \in Receipt \cup {Absent}
  /\ graph \in Seq(Entry)
  /\ litter \in SUBSET Package /\ mine \in SUBSET Package
  /\ phase \in Phases /\ step \in Nat
  /\ applied \in SUBSET (DOMAIN graph) /\ recovering \in BOOLEAN
  /\ faults \in Nat /\ foreign \in Nat

Pending == journal # Absent \/ graph # << >>

(* The two receipt directories agree on every package whenever no journal is   *)
(* pending, whatever failed or died before: service.rs keeps them in step only *)
(* through the journals (write_graph_journal, recover_pending).                *)
ReceiptsAgree == ~Pending => \A p \in Package : Agree(p)

(* Whenever no journal is pending, every requirement of an installed package   *)
(* is met by an installed package and no two installed packages conflict: the  *)
(* solver and ensure_removal_safe see to it, rollback and recovery must too,   *)
(* even while foreign writers change the ownership that recovery decides by,   *)
(* and though an ownership receipt may be unreadable when it is looked at.     *)
InstalledConsistent == ~Pending => Consistent(Installed)

(* However a service process fails or dies, recover_pending finds ownership on *)
(* one side of the one journal it left: its fail-closed errors are for foreign *)
(* writers only.                                                               *)
RecoveryNeverRefused == ~RecoverRefused

(* lifecycle_dependency_graph moves the root last, so its new ownership is     *)
(* written only when every dependency is owned, and a rollback never meets the *)
(* "committed graph update cannot be reversed" error.                          *)
RootCommitsLast ==
  graph # << >> =>
    /\ Mutates(Root) /\ NewSide(Len(graph)) => AllNew
    /\ phase = "undo" => \A i \in applied : graph[i].old = Absent

(* During an install, at every moment, also during its rollback and recovery,  *)
(* what is owned in the target root can run: the packages whose ownership      *)
(* receipt is on the new side meet each other's requirements, together with    *)
(* the packages that were there before.  A removal keeps this as well.         *)
Owned ==
  {svc[p] : p \in {q \in Package : svc[q] # Absent /\ bin[q] = Identity[svc[q]]}}
    \cup {graph[i].new : i \in {j \in DOMAIN graph : NewSide(j)}}

OwnedAlwaysRunnable ==
  (graph = << >> \/ Root.old = Absent) =>
    \A r \in Owned : \A q \in Requires[r] : q \cap Owned # {}

(* A journal left by a failed or killed process is resolved, if processes keep *)
(* being started and failures stop.                                            *)
PendingResolved == Pending ~> ~Pending

(* The abstract database: a graph counts as committed once no rollback can     *)
(* reverse it, a removal once the ownership receipt is gone.                   *)
Committed ==
  /\ AllNew
  /\ \/ phase \in {"idle", "forward"}
     \/ phase = "clear" /\ svc[Pkg(Root)] = Root.new

Recorded(p) ==
  LET named == {i \in DOMAIN graph : Pkg(graph[i]) = p}
      e == graph[CHOOSE i \in named : TRUE]
  IN  IF named # {} THEN IF Committed THEN e.new ELSE e.old
      ELSE IF journal # Absent /\ PackageOf[journal] = p
        THEN IF bin[p] = Absent THEN Absent ELSE journal
      ELSE svc[p]

Database == INSTANCE PackageDatabase WITH db <- [p \in Package |-> Recorded(p)]

(* Every lifecycle operation takes effect as a whole or not at all: through    *)
(* crashes, failures, rollback and recovery the installed database moves only  *)
(* by complete transactions of PackageDatabase.                                *)
AtomicTransactions == Database!Spec

(* Stated by the recovery tests (service.rs 4120): once recover_pending is done *)
(* read_all_service_receipts succeeds.                                         *)
EnumerableAfterRecovery == phase = "ready" => Enumerable

-----------------------------------------------------------------------------
(* The inductive invariant: what is on disk while a transaction is under way,  *)
(* phase by phase.                                                             *)

OldSide(i) == bin[Pkg(graph[i])] = IdentityOf(graph[i].old)
WroteNew(i) == svc[Pkg(graph[i])] = graph[i].new
WroteOld(i) == svc[Pkg(graph[i])] = graph[i].old

InGraph(p) == \E i \in DOMAIN graph : Pkg(graph[i]) = p

(* The installed sets before and after the pending graph. *)
Untouched == {svc[p] : p \in {q \in Package : ~InGraph(q)}} \ {Absent}
BeforeGraph == Untouched \cup ({graph[i].old : i \in DOMAIN graph} \ {Absent})
AfterGraph == Untouched \cup {graph[i].new : i \in DOMAIN graph}

(* What entry i requires is there before the graph or comes no later than it.  *)
Supplied(i) ==
  \A q \in Requires[graph[i].new] :
    q \cap (Untouched \cup {graph[j].new : j \in {k \in DOMAIN graph : k <= i}}) # {}

(* An install owns its packages in the order of the graph, and gives them up   *)
(* in the reverse order.                                                       *)
OwnedInOrder ==
  graph[Len(graph)].old = Absent =>
    \A i, j \in DOMAIN graph : j < i /\ NewSide(i) => NewSide(j)

GraphShape ==
  /\ \A i, j \in DOMAIN graph : Pkg(graph[i]) = Pkg(graph[j]) => i = j
  /\ \A i \in DOMAIN graph : graph[i].old # Absent =>
       /\ i = Len(graph) /\ PackageOf[graph[i].old] = Pkg(graph[i])
       /\ UpdateAllowed(graph[i].old, graph[i].new)
  /\ Consistent(BeforeGraph) /\ Consistent(AfterGraph)
  /\ graph[Len(graph)].old = Absent => \A i \in DOMAIN graph : Supplied(i)

GraphPhase ==
  /\ phase \in {"idle", "record", "deploy", "undo", "restore", "forward", "clear"}
  /\ phase \in {"record", "deploy", "restore", "forward"} => step \in DOMAIN graph
  /\ phase \in {"record", "deploy"} =>
       /\ \A i \in DOMAIN graph : i < step => NewSide(i) /\ WroteNew(i)
       /\ \A i \in DOMAIN graph : i >= step => OldSide(i)
       /\ \A i \in applied : i < step /\ Mutates(graph[i])
       /\ \A i \in DOMAIN graph : i < step /\ Mutates(graph[i]) => i \in applied
  /\ phase = "deploy" => WroteNew(step) /\ Mutates(graph[step])
  /\ phase = "undo" =>
       /\ \A i \in applied : NewSide(i) /\ graph[i].old = Absent
       /\ \A i \in DOMAIN graph \ applied : OldSide(i)
  /\ phase = "restore" =>
       /\ \A i \in DOMAIN graph : OldSide(i)
       /\ \A i \in DOMAIN graph : i < step => WroteOld(i)
  /\ phase = "forward" =>
       /\ AllNew
       /\ \A i \in DOMAIN graph : i < step => WroteNew(i)
  /\ phase = "clear" =>
       \/ AllNew /\ \A i \in DOMAIN graph : WroteNew(i)
       \/ \A i \in DOMAIN graph : OldSide(i) /\ WroteOld(i)

GraphInv ==
  graph # << >> =>
    /\ GraphShape
    /\ GraphPhase
    /\ \A i \in DOMAIN graph : OldSide(i) \/ NewSide(i)
    /\ \A i \in DOMAIN graph : WroteOld(i) \/ WroteNew(i)
    /\ Mutates(Root) /\ NewSide(Len(graph)) => AllNew
    /\ OwnedInOrder

Others == {svc[p] : p \in Package \ {PackageOf[journal]}} \ {Absent}

JournalInv ==
  journal # Absent =>
    LET p == PackageOf[journal] IN
    /\ Consistent(Others) /\ Consistent(Others \cup {journal})
    /\ bin[p] \in {Absent, Identity[journal]}
    /\ svc[p] \in {Absent, journal}
    /\ phase \in {"idle", "withdraw", "erase", "reinstate", "clear"}
    /\ phase = "withdraw" =>
         bin[p] = IF recovering THEN Absent ELSE Identity[journal]
    /\ phase = "erase" => ~recovering /\ svc[p] = Absent /\ bin[p] = Identity[journal]
    /\ phase = "reinstate" => bin[p] = Identity[journal]
    /\ phase = "clear" => Agree(p)

Touched(p) == InGraph(p) \/ (journal # Absent /\ PackageOf[journal] = p)

TransactionInv ==
  /\ \A p \in Package : svc[p] # Absent => PackageOf[svc[p]] = p
  /\ journal = Absent \/ graph = << >>
  /\ \A p \in Package : ~Touched(p) => Agree(p)
  /\ GraphInv
  /\ JournalInv
  /\ ~Pending => phase \in {"idle", "ready"} /\ Consistent(Installed)
=============================================================================
