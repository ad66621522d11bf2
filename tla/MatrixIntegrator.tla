-------------------------- MODULE MatrixIntegrator --------------------------
(***************************************************************************)
(* integrate_into_matrix of integrator.rs: a service and its dependencies  *)
(* go to PID 1 as a transaction of fixed-size commands over a bounded      *)
(* ring.  A submission may be refused at any command, for a full ring or   *)
(* by the sink; what comes after BeginService is then taken back by an     *)
(* AbortService, which may be refused as well.                             *)
(***************************************************************************)
EXTENDS Integers, Sequences, FiniteSets

CONSTANTS
  RingCapacity,  \* commands the control ring holds
  Name,          \* names of packages and dependencies
  Hash,          \* stable_name_hash
  Inode,         \* inodes that publishers return
  NoneOpen,
  MaxIntegrations \* bound: calls of integrate_into_matrix

Transaction == [inode : Nat, subject : Nat, announced : Nat, edges : Seq(Nat)]

ASSUME IntegratorAssumption ==
  /\ RingCapacity \in Nat \ {0} /\ MaxIntegrations \in Nat
  /\ Hash \in [Name -> Nat] /\ Inode \subseteq Nat
  /\ NoneOpen \notin Transaction

VARIABLES
  stage,     \* the next command of the running call: "begin", "edges", "commit", "abort"; "idle"
  gene,      \* the package and dependencies of that call: [inode, subject, depends]
  edge,      \* how many of its dependencies were submitted
  failure,   \* the error that the abort is for
  outcome,   \* what the last call returned
  ring,      \* commands submitted and not yet taken by PID 1
  open,      \* PID 1: the transaction it is in
  services,  \* PID 1: the services of its matrix
  taken,     \* every service whose call returned Ok
  left,      \* did the call that began the last transaction return RollbackFailed?
  integrations

integrator == <<stage, gene, edge, failure, outcome, ring, open, services, taken, left,
                integrations>>

Command == [kind : {"begin", "edge", "commit", "abort"}, inode : Nat, subject : Nat, object : Nat]
Service == [inode : Nat, subject : Nat, edges : Seq(Nat)]

IntegratorInit ==
  /\ stage = "idle" /\ outcome = "none" /\ failure = "none"
  /\ gene = [inode |-> 0, subject |-> 0, depends |-> <<>>] /\ edge = 0
  /\ ring = <<>> /\ open = NoneOpen /\ services = {}
  /\ taken = {} /\ left = FALSE /\ integrations = 0

(* The service that the running call is about. *)
Wanted == [inode |-> gene.inode, subject |-> gene.subject, edges |-> gene.depends]

Cmd(kind, object) == [kind |-> kind, inode |-> gene.inode, subject |-> gene.subject, object |-> object]

(* ---- MatrixCommandSink, supplied by the caller: a ring that PID 1 empties ---- *)

Takes(c) == Len(ring) < RingCapacity /\ ring' = Append(ring, c)

(* What a refused submission returns: the ring is full, or the sink says no.     *)
Refusal == {"Rejected"} \cup (IF Len(ring) < RingCapacity THEN {} ELSE {"QueueFull"})

(* PID 1 forgets a transaction that is begun over, and takes a service when it   *)
(* has as many edges as BeginService announced.                                  *)
MatrixApply ==
  /\ ring # <<>>
  /\ ring' = Tail(ring)
  /\ LET c == Head(ring)
         same == open # NoneOpen /\ open.inode = c.inode /\ open.subject = c.subject IN
     /\ open' = CASE c.kind = "begin" ->
                       [inode |-> c.inode, subject |-> c.subject, announced |-> c.object, edges |-> <<>>]
                  [] c.kind = "edge" /\ same -> [open EXCEPT !.edges = Append(@, c.object)]
                  [] c.kind \in {"commit", "abort"} /\ same -> NoneOpen
                  [] OTHER -> open
     /\ services' =
          IF c.kind = "commit" /\ same /\ Len(open.edges) = open.announced
          THEN {s \in services : s.subject # c.subject}
                 \cup {[inode |-> c.inode, subject |-> c.subject, edges |-> open.edges]}
          ELSE services
  /\ UNCHANGED <<stage, gene, edge, failure, outcome, taken, left, integrations>>

(* ---- integrate_into_matrix ---- *)

Returns(result) == stage' = "idle" /\ outcome' = result

(* The call: a gene that was validated, and any inode. *)
Integrate(inode, name, depends) ==
  /\ stage = "idle" /\ integrations < MaxIntegrations
  /\ integrations' = integrations + 1
  /\ gene' = [inode |-> inode, subject |-> Hash[name],
              depends |-> [k \in DOMAIN depends |-> Hash[depends[k]]]]
  /\ edge' = 0 /\ failure' = "none"
  /\ IF inode = 0 THEN Returns("InvalidInode") ELSE stage' = "begin" /\ outcome' = "none"
  /\ UNCHANGED <<ring, open, services, taken, left>>

SubmitBegin ==
  /\ stage = "begin"
  /\ \/ /\ Takes(Cmd("begin", Len(gene.depends)))
        /\ stage' = IF gene.depends = <<>> THEN "commit" ELSE "edges"
        /\ left' = FALSE
        /\ UNCHANGED outcome
     \/ \E r \in Refusal : Returns(r) /\ UNCHANGED <<ring, left>>
  /\ UNCHANGED <<gene, edge, failure, open, services, taken, integrations>>

(* The error is kept and the transaction is aborted. *)
Aborts == failure' \in Refusal /\ stage' = "abort" /\ UNCHANGED <<ring, edge>>

SubmitEdge ==
  /\ stage = "edges"
  /\ \/ /\ Takes(Cmd("edge", gene.depends[edge + 1]))
        /\ edge' = edge + 1
        /\ stage' = IF edge' = Len(gene.depends) THEN "commit" ELSE stage
        /\ UNCHANGED failure
     \/ Aborts
  /\ UNCHANGED <<gene, outcome, open, services, taken, left, integrations>>

SubmitCommit ==
  /\ stage = "commit"
  /\ \/ /\ Takes(Cmd("commit", 0))
        /\ Returns("Ok")
        /\ taken' = taken \cup {Wanted}
        /\ UNCHANGED <<edge, failure>>
     \/ Aborts /\ UNCHANGED <<outcome, taken>>
  /\ UNCHANGED <<gene, open, services, left, integrations>>

(* Mutant of SubmitAbort: its own failure is not looked at.                       *)
SubmitAbortUnchecked ==
  /\ stage = "abort"
  /\ \/ Takes(Cmd("abort", 0))
     \/ UNCHANGED ring
  /\ Returns(failure)
  /\ UNCHANGED <<gene, edge, failure, open, services, taken, left, integrations>>

(* abort_after_failure: when the abort is refused too, PID 1 stays in the        *)
(* transaction, and the caller is told.                                          *)
SubmitAbort ==
  /\ stage = "abort"
  /\ \/ Takes(Cmd("abort", 0)) /\ Returns(failure) /\ UNCHANGED left
     \/ /\ UNCHANGED ring
        /\ Returns("RollbackFailed")
        /\ left' = TRUE
  /\ UNCHANGED <<gene, edge, failure, open, services, taken, integrations>>

Submit == SubmitBegin \/ SubmitEdge \/ SubmitCommit \/ SubmitAbort

-----------------------------------------------------------------------------
IntegratorTypes ==
  /\ stage \in {"idle", "begin", "edges", "commit", "abort"}
  /\ gene \in [inode : Nat, subject : Nat, depends : Seq(Nat)]
  /\ edge \in 0..Len(gene.depends)
  /\ ring \in Seq(Command) /\ Len(ring) <= RingCapacity
  /\ services \subseteq Service /\ taken \subseteq Service /\ left \in BOOLEAN
  /\ integrations \in 0..MaxIntegrations

Settled == stage = "idle" /\ ring = <<>>

(* "Emits an atomic Arachne update protocol" (integrator.rs 33): PID 1 only ever  *)
(* has services that a call said it had integrated, with all their dependencies,  *)
(* and it has the last one once it has emptied the ring.                          *)
ServicesTaken ==
  /\ services \subseteq taken
  /\ Settled /\ outcome = "Ok" => Wanted \in services

(* "rollback failure is not reported as successful cleanup" (integrator.rs 210):  *)
(* once PID 1 has emptied the ring and no call is running, it is in a transaction *)
(* exactly when the caller that began it was told so.                             *)
LeftOpenIsTold == Settled => (open # NoneOpen <=> left)

-----------------------------------------------------------------------------
(* The inductive invariant behind ServicesTaken and LeftOpenIsTold.  Wire is what *)
(* PID 1 has yet to finish: the commands of the transaction it is in, and those   *)
(* of the ring.                                                                   *)
Opened(o) ==
  IF o = NoneOpen THEN <<>>
  ELSE [k \in 1..Len(o.edges) + 1 |->
          [kind |-> IF k = 1 THEN "begin" ELSE "edge", inode |-> o.inode, subject |-> o.subject,
           object |-> IF k = 1 THEN o.announced ELSE o.edges[k - 1]]]

Wire == Opened(open) \o ring

(* The command at i belongs to the transaction that begins at j.                 *)
Within(w, j, i) ==
  /\ w[j].kind = "begin"
  /\ \A k \in j + 1..i - 1 : w[k].kind = "edge"
  /\ \A k \in j + 1..i : w[k].inode = w[j].inode /\ w[k].subject = w[j].subject

(* The commit at i has every edge that was announced, of a service in known.      *)
Whole(w, j, i, known) ==
  /\ w[j].object = i - j - 1
  /\ [inode |-> w[j].inode, subject |-> w[j].subject,
      edges |-> [k \in 1..i - j - 1 |-> w[j + k].object]] \in known

Ordered(w, known) ==
  \A i \in DOMAIN w : w[i].kind # "begin" =>
    \E j \in 1..i - 1 : Within(w, j, i) /\ (w[i].kind = "commit" => Whole(w, j, i, known))

(* The wire ends in the commands of the running call.                             *)
Begun(w) ==
  LET j == Len(w) - edge IN
  /\ j >= 1
  /\ w[j] = Cmd("begin", Len(gene.depends))
  /\ \A k \in 1..edge : w[j + k] = Cmd("edge", gene.depends[k])

Unfinished(w) == w # <<>> /\ w[Len(w)].kind \in {"begin", "edge"}

(* The last call that returned Ok is at the end of the wire, or done.             *)
Sent(w) ==
  IF ring = <<>> THEN Wanted \in services
  ELSE LET n == Len(w) IN
       w[n].kind = "commit" /\ \E j \in 1..n - 1 : Within(w, j, n) /\ Whole(w, j, n, {Wanted})

WireInv ==
  /\ IntegratorTypes
  /\ open \in Transaction \cup {NoneOpen}
  /\ services \subseteq taken
  /\ Ordered(Wire, taken)
  /\ stage \in {"edges", "commit", "abort"} => Begun(Wire) /\ ~left
  /\ stage = "edges" => edge < Len(gene.depends)
  /\ stage = "begin" => edge = 0
  /\ stage = "commit" => edge = Len(gene.depends)
  /\ stage \in {"idle", "begin"} => (left <=> Unfinished(Wire))
  /\ stage = "idle" /\ outcome = "Ok" => Sent(Wire)
  /\ stage # "idle" => outcome # "Ok"
  /\ failure \in {"none", "Rejected", "QueueFull"}
=============================================================================
