--------------------------- MODULE HelixScheduler ---------------------------
(***************************************************************************)
(* HelixScheduler of helix.rs: a ring of build jobs, workers with a deque  *)
(* each, and a thermal governor.  A client sorts its selection, enqueues   *)
(* the jobs in that order, asks for dispatches, and reports temperatures   *)
(* and completed builds.  The methods take &mut self: they do not overlap, *)
(* but come in any order.                                                  *)
(*                                                                         *)
(* pop_priority fills the hole it makes with the last job that is counted  *)
(* and leaves tail where it was: the next push lands behind the counted    *)
(* part of the ring, and what lay there before is counted in its place.    *)
(***************************************************************************)
EXTENDS BuildOrder

CONSTANTS
  Capacity,      \* QUEUE_CAPACITY
  MaxWorkers,    \* MAX_WORKERS
  Started,       \* the max_workers that new was called with
  Priority,      \* priority of a job
  MinPriority,   \* i32::MIN
  Reading,       \* temperatures that workers report
  ThrottleTemp, CriticalTemp,
  MaxReports,    \* bound: temperature reports
  Empty          \* a slot of the ring never written

ASSUME HelixAssumption ==
  /\ Capacity \in Nat \ {0} /\ MaxReports \in Nat
  /\ MaxWorkers \in Nat /\ Started \in 1..MaxWorkers
  /\ Priority \in [0..MaxJobs - 1 -> Int] /\ MinPriority \in Int
  /\ \A j \in DOMAIN Priority : Priority[j] > MinPriority
  /\ Reading \subseteq Nat /\ ThrottleTemp \in Nat /\ CriticalTemp \in Nat
  /\ Empty \notin DOMAIN Priority

Job == DOMAIN Priority
Worker == 0..Started - 1

VARIABLES
  jobs, head, tail, count,   \* WorkQueue
  enqueued,    \* how many jobs of the order the client has put in
  jobCount,    \* job_count: calls of enqueue that were let through
  deque,       \* worker -> local_deque
  activeWorkers,      \* active_workers of the governor
  readings,    \* worker -> its last temperature
  building,    \* client: worker -> jobs it was given and has not completed
  given,       \* client: jobs that ever came from dispatch
  reports

workQueue == <<jobs, head, tail, count>>
governor == <<activeWorkers, readings, reports>>
client == <<enqueued, building, given>>
helixVars == <<sorter, workQueue, governor, client, jobCount, deque>>

HelixInit ==
  /\ OrderInit
  /\ jobs = [s \in 0..Capacity - 1 |-> Empty]
  /\ head = 0 /\ tail = 0 /\ count = 0
  /\ enqueued = 0 /\ jobCount = 0
  /\ deque = [w \in Worker |-> <<>>]
  /\ activeWorkers = Started
  /\ readings = [w \in 0..MaxWorkers - 1 |-> 0]
  /\ building = [w \in Worker |-> <<>>]
  /\ given = {}
  /\ reports = 0

(* ---- WorkQueue ---- *)

Slot(i) == (head + i) % Capacity
Window == [i \in 0..count - 1 |-> jobs[Slot(i)]]
Waiting == Range(Window)

Full == count >= Capacity

Push(j) ==
  /\ jobs' = [jobs EXCEPT ![tail % Capacity] = j]
  /\ tail' = tail + 1
  /\ count' = count + 1
  /\ UNCHANGED head

(* The client's next job. *)
NextJob == order[enqueued + 1]

MayPush ==
  /\ sorting = "sorted"
  /\ enqueued < Len(order)

(* enqueue counts the call before the ring refuses the job; the client keeps it. *)
Enqueue ==
  /\ MayPush
  /\ jobCount < MaxJobs
  /\ jobCount' = jobCount + 1
  /\ IF Full THEN UNCHANGED <<workQueue, enqueued>> ELSE Push(NextJob) /\ enqueued' = enqueued + 1
  /\ UNCHANGED <<sorter, governor, building, given, deque>>

(* The ring is a public field: a client may push and pop without the scheduler. *)
PushDirectly ==
  /\ MayPush
  /\ ~Full
  /\ Push(NextJob)
  /\ enqueued' = enqueued + 1
  /\ UNCHANGED <<sorter, governor, building, given, jobCount, deque>>

PopDirectly ==
  /\ count > 0
  /\ head' = head + 1
  /\ count' = count - 1
  /\ UNCHANGED <<sorter, jobs, tail, governor, client, jobCount, deque>>

(* The first job of the greatest priority. *)
Best ==
  CHOOSE i \in 0..count - 1 :
    \A k \in 0..count - 1 :
      /\ Priority[Window[k]] <= Priority[Window[i]]
      /\ k < i => Priority[Window[k]] < Priority[Window[i]]

(* Mutant of PopPriority: the hole is filled with the first job of the ring.     *)
PopPriorityFillsFirst ==
  /\ jobs' = [jobs EXCEPT ![Slot(Best)] = jobs[Slot(0)]]
  /\ count' = count - 1
  /\ UNCHANGED <<head, tail>>

(* pop_priority: the last job that is counted moves into the hole. *)
PopPriority ==
  /\ jobs' = [jobs EXCEPT ![Slot(Best)] = jobs[Slot(count - 1)]]
  /\ count' = count - 1
  /\ UNCHANGED <<head, tail>>

(* ---- dispatch ---- *)

(* Mutant of Free: any active worker will do.                                    *)
FreeOrBusy == 0..activeWorkers - 1

Free == {w \in 0..activeWorkers - 1 : deque[w] = <<>>}
FreeWorker == CHOOSE w \in Free : \A v \in Free : w <= v

(* max_by_key: the last of the longest deques of the other active workers. *)
Busiest ==
  LET others == (0..activeWorkers - 1) \ {FreeWorker} IN
  CHOOSE w \in others : \A v \in others :
    Len(deque[v]) <= Len(deque[w]) /\ (v > w => Len(deque[v]) < Len(deque[w]))

(* The job goes to the deque of the worker and to the client, which builds it.   *)
Assigned(d, j) ==
  /\ deque' = [d EXCEPT ![FreeWorker] = Append(@, j)]
  /\ building' = [building EXCEPT ![FreeWorker] = Append(@, j)]
  /\ given' = given \cup {j}

DispatchQueued ==
  /\ Free # {} /\ count > 0
  /\ PopPriority
  /\ Assigned(deque, Window[Best])
  /\ UNCHANGED <<sorter, governor, enqueued, jobCount>>

(* steal_from: the victim's deque shifts. *)
Robbed == [deque EXCEPT ![Busiest] = Tail(@)]

(* With an empty ring the free worker steals the first job of the busiest one,   *)
(* which the client was given already.  For a busiest worker before the free one *)
(* the roles are the wrong way around and nothing is stolen.                     *)
DispatchStolen ==
  /\ Free # {} /\ count = 0
  /\ activeWorkers > 1
  /\ FreeWorker < Busiest /\ deque[Busiest] # <<>>
  /\ Assigned(Robbed, Head(deque[Busiest]))
  /\ UNCHANGED <<sorter, workQueue, governor, enqueued, jobCount>>

(* pop_local: from the end. *)
Popped(d) == IF d = <<>> THEN d ELSE Front(d)

(* complete pops the worker's deque whatever job was built. *)
Complete(w) ==
  /\ building[w] # <<>>
  /\ building' = [building EXCEPT ![w] = Tail(@)]
  /\ deque' = [deque EXCEPT ![w] = Popped(@)]
  /\ UNCHANGED <<sorter, workQueue, governor, enqueued, given, jobCount>>

(* ---- ThermalGovernor ---- *)

Peak(t) == CHOOSE x \in Range(t) : \A y \in Range(t) : y <= x

(* Mutant of Halved: without the floor.                                          *)
HalvedToZero(n) == n \div 2

Halved(n) == IF n \div 2 > 1 THEN n \div 2 ELSE 1

(* report_thermal: each hot report halves the workers again, whoever sent it; a  *)
(* cool one raises nothing.  Workers report once there is something to build.    *)
ReportThermal ==
  /\ sorting = "sorted"
  /\ reports < MaxReports
  /\ reports' = reports + 1
  /\ \E w \in DOMAIN readings, t \in Reading : readings' = [readings EXCEPT ![w] = t]
  /\ LET peak == Peak(readings') IN
     activeWorkers' = IF peak >= CriticalTemp THEN 1
               ELSE IF peak >= ThrottleTemp THEN Halved(activeWorkers) ELSE activeWorkers
  /\ UNCHANGED <<sorter, workQueue, client, jobCount, deque>>

HelixNext ==
  \/ Sort /\ UNCHANGED <<workQueue, governor, client, jobCount, deque>>
  \/ Enqueue
  \/ PushDirectly
  \/ PopDirectly
  \/ DispatchQueued
  \/ DispatchStolen
  \/ \E w \in Worker : Complete(w)
  \/ ReportThermal

HelixSpec == HelixInit /\ [][HelixNext]_helixVars

(* The client keeps asking for jobs, and every build it starts ends. *)
HelixFairness ==
  /\ WF_helixVars(DispatchQueued)
  /\ \A w \in Worker : WF_helixVars(Complete(w))

HelixFairSpec == HelixSpec /\ HelixFairness

-----------------------------------------------------------------------------
(* Correctness *)

(* What was put in the ring so far. *)
Put == {order[k] : k \in 1..enqueued}

(* Types, and what the methods keep between them: nothing but what was written   *)
(* to the ring is ever read, only jobs that were put in are handed out, and       *)
(* dispatch, which ignores the result of push_local, never meets a deque with a   *)
(* job in it.                                                                    *)
HelixInv ==
  /\ sorting \in {"ready", "running", "sorted", "refused"}
  /\ enqueued \in 0..Len(order) /\ (sorting # "sorted" => enqueued = 0)
  /\ jobs \in [0..Capacity - 1 -> Job \cup {Empty}]
  /\ head \in Nat /\ count \in 0..Capacity /\ tail \in Nat /\ head + count <= tail
  /\ jobCount \in 0..MaxJobs
  /\ deque \in [Worker -> Seq(Job)] /\ building \in [Worker -> Seq(Job)]
  /\ \A w \in Worker : Len(deque[w]) <= 1
  /\ activeWorkers \in 1..Started
  /\ given \subseteq Put /\ given \subseteq Job

(* "Pop highest-priority job" (helix.rs 118), promised to a client that never     *)
(* puts in a job twice: each one waits until it is handed out, once and in the     *)
(* order of priorities.  A push that follows a dispatch breaks it: it lands on a   *)
(* job that waits, or counts a slot whose job has been handed out.                *)
Pool == INSTANCE BuildPool WITH
  waiting <- Waiting, left <- Put \ (Waiting \cup given)

QueueIsPool == Pool!Spec

(* What pop_priority does keep, however the ring was filled (helix.rs 119): the    *)
(* job that is handed out is one that no counted job precedes, exactly one copy    *)
(* of it leaves the counted part of the ring, whatever slot it lay in, and every   *)
(* other job keeps its copies.                                                   *)
CopiesOf(j) == Cardinality({i \in 0..count - 1 : Window[i] = j})

HandsOut(j) ==
  /\ \A k \in Waiting : Priority[k] <= Priority[j]
  /\ \E w \in Worker : building' = [building EXCEPT ![w] = Append(@, j)]
  /\ \A k \in Job : CopiesOf(k)' = IF k = j THEN CopiesOf(k) - 1 ELSE CopiesOf(k)

PopsBest == [][head' = head /\ count' < count => \E j \in Waiting : HandsOut(j)]_helixVars

(* "Turns Alchemist's selection into a build order where every package is built  *)
(* after all its deps", and false for a cycle (helix.rs 268 and 347): sort        *)
(* succeeds on exactly the graphs that have an order, and finds one.              *)
SortCorrect ==
  [][/\ sorting' = "sorted" /\ sorting # "sorted" => Builds(graph, order')
     /\ sorting' = "refused" /\ sorting # "refused" => ~WellFormed(graph) \/ ~Acyclic(graph)]_helixVars

(* Every job in the ring leaves it, even when the governor has halved the workers *)
(* down to one and jobs of a higher priority are still put in before it.          *)
EveryJobLeaves == \A j \in Job : j \in Waiting ~> j \notin Waiting

-----------------------------------------------------------------------------
(* The inductive invariant behind HelixInv and PopsBest: what was ever written     *)
(* to a slot of the ring was put in, and workers only hold what was handed out.   *)
RingInv ==
  /\ HelixInv
  /\ OrderInv
  /\ \A s \in 0..Capacity - 1 : s < tail => jobs[s] \in Put
  /\ \A w \in Worker : Range(deque[w]) \subseteq given
=============================================================================
