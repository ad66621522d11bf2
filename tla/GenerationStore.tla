-------------------------- MODULE GenerationStore --------------------------
(***************************************************************************)
(* corinth's FilesystemGenerationStore: immutable generation files and the *)
(* pointer file "active".  publish and rollback hold the store's flock, so *)
(* one record of volatile state stands for whoever holds it.               *)
(*                                                                         *)
(* A directory entry that was created, replaced or removed survives a      *)
(* power loss for certain only once the directory has been synchronized:   *)
(* synced and stable say what the disk is known to hold.  The bytes of a   *)
(* file are synchronized before it gets its name (atomic_create).          *)
(***************************************************************************)
EXTENDS Naturals

CONSTANTS
  Image, None, Parent, Number,
  MaxFaults,   \* bound: failed system calls and killed processes
  MaxLosses,   \* bound: power losses
  Mixed        \* may power fail after a call failed, or the reverse?

ASSUME StoreAssumption ==
  /\ None \notin Image
  /\ Parent \in [Image -> Image \cup {None}]
  /\ Number \in [Image -> Nat]
  /\ MaxFaults \in Nat /\ MaxLosses \in Nat /\ Mixed \in BOOLEAN

VARIABLES
  generations,   \* images that have a file in generations/
  synced,        \* the part of them whose entry is on disk
  active,        \* the image the pointer names, or None: no pointer
  stable,        \* the pointers that a power loss may leave
  phase,         \* what the lock holder does next
  next,          \* the image it is about to make active, or None
  acknowledged,  \* did the last operation on the pointer return Ok?
  faults, losses

storeVars == <<generations, synced, active, stable, phase, next, acknowledged, faults, losses>>

Phases == {"idle", "link", "sync", "point", "settle", "unlink"}

Spend ==
  /\ faults < MaxFaults /\ (losses = 0 \/ Mixed)
  /\ faults' = faults + 1

StoreInit ==
  /\ generations = {} /\ synced = {}
  /\ active = None /\ stable = {None}
  /\ phase = "idle" /\ next = None /\ acknowledged = TRUE
  /\ faults = 0 /\ losses = 0

Goto(ph) == phase' = ph

(* ---- publish ---- *)

(* Mutant of Succeeds: the parent is not compared with the active generation.  *)
SucceedsByNumber(x) ==
  IF active = None THEN Number[x] > 0
  ELSE active \in generations /\ Number[active] < Number[x]

(* The image names the active generation as its parent, which can be loaded, and *)
(* has a greater number.                                                         *)
Succeeds(x) ==
  /\ Parent[x] = active
  /\ IF active = None THEN Number[x] > 0
     ELSE active \in generations /\ Number[active] < Number[x]

(* A file that is already there is compared, and nothing else. *)
Publish ==
  /\ phase = "idle"
  /\ \E x \in Image :
       /\ Succeeds(x)
       /\ next' = x
       /\ Goto(IF x \in generations THEN "point" ELSE "link")
  /\ acknowledged' = FALSE
  /\ UNCHANGED <<generations, synced, active, stable, faults, losses>>

(* publish_immutable gives the synchronized temporary its name. *)
Link ==
  /\ phase = "link"
  /\ generations' = generations \cup {next}
  /\ Goto("sync")
  /\ UNCHANGED <<synced, active, stable, next, acknowledged, faults, losses>>

(* Mutant of Sync: the directory of generations is not synchronized.           *)
SyncNothing ==
  /\ phase = "sync"
  /\ Goto("point")
  /\ UNCHANGED <<generations, synced, active, stable, next, acknowledged, faults, losses>>

(* sync_directory(generations), in publish_immutable and again in publish. *)
Sync ==
  /\ phase = "sync"
  /\ synced' = generations
  /\ Goto("point")
  /\ UNCHANGED <<generations, active, stable, next, acknowledged, faults, losses>>

(* ---- replace_pointer ---- *)

(* atomic_replace renames a new pointer over the old one; without a generation   *)
(* the old pointer is renamed away.                                              *)
Point ==
  /\ phase = "point"
  /\ active' = next
  /\ stable' = stable \cup {next}
  /\ Goto("settle")
  /\ UNCHANGED <<generations, synced, next, acknowledged, faults, losses>>

Return ==
  /\ Goto("idle")
  /\ next' = None

(* Mutant of Settle: Ok is returned before the pointer's directory is synced.   *)
SettleWithoutSync ==
  /\ phase = "settle"
  /\ Return /\ acknowledged' = TRUE
  /\ UNCHANGED <<generations, synced, active, stable, faults, losses>>

(* sync_directory(root); a retired pointer is unlinked and synchronized after it. *)
Settle ==
  /\ phase = "settle"
  /\ stable' = {active}
  /\ IF next = None
       THEN Goto("unlink") /\ UNCHANGED <<next, acknowledged>>
       ELSE Return /\ acknowledged' = TRUE
  /\ UNCHANGED <<generations, synced, active, faults, losses>>

Unlink ==
  /\ phase = "unlink"
  /\ Return /\ acknowledged' = TRUE
  /\ UNCHANGED <<generations, synced, active, stable, faults, losses>>

(* ---- rollback ---- *)

Loadable(x) == x \in generations

(* A stale caller, whose expected digest is not the active one, is refused. *)
Rollback ==
  /\ phase = "idle"
  /\ active # None /\ Loadable(active)
  /\ Parent[active] = None \/ Loadable(Parent[active])
  /\ next' = Parent[active]
  /\ Goto("point")
  /\ acknowledged' = FALSE
  /\ UNCHANGED <<generations, synced, active, stable, faults, losses>>

(* ---- failures ---- *)

(* A system call fails, with or without its effect on the visible directories,   *)
(* or the process is killed: the lock is free again.                             *)
Fail ==
  /\ phase # "idle"
  /\ Spend
  /\ Return
  /\ UNCHANGED <<generations, synced, active, stable, acknowledged, losses>>

(* What was not synchronized may be there after a power loss, or not. *)
PowerLoss ==
  /\ losses < MaxLosses /\ (faults = 0 \/ Mixed)
  /\ losses' = losses + 1
  /\ generations' \in {synced \cup more : more \in SUBSET (generations \ synced)}
  /\ synced' = generations'
  /\ active' \in stable
  /\ stable' = {active'}
  /\ Return
  /\ UNCHANGED <<acknowledged, faults>>

StoreNext ==
  \/ Publish
  \/ Link
  \/ Sync
  \/ Point
  \/ Settle
  \/ Unlink
  \/ Rollback
  \/ Fail
  \/ PowerLoss

StoreSpec == StoreInit /\ [][StoreNext]_storeVars

-----------------------------------------------------------------------------
(* Correctness *)

(* Types, and what the phase of the lock holder says of the store.               *)
TypeOK ==
  /\ generations \in SUBSET Image /\ synced \in SUBSET generations
  /\ active \in Image \cup {None} /\ stable \in SUBSET (Image \cup {None})
  /\ active \in stable
  /\ phase \in Phases /\ next \in Image \cup {None}
  /\ acknowledged \in BOOLEAN
  /\ faults \in Nat /\ losses \in Nat
  /\ phase \in {"link", "sync"} => next # None
  /\ phase = "sync" => next \in generations
  /\ phase = "settle" => active = next
  /\ phase = "unlink" => active = None
  /\ phase = "idle" => next = None

(* The pointer names a generation whose file is there, and so is the file of     *)
(* every generation in it names as a parent: it can be loaded, and rolled back   *)
(* step by step to the first.                                                    *)
ActiveLoadable ==
  /\ active # None => active \in generations
  /\ \A x \in generations : Parent[x] # None => Parent[x] \in generations

(* What an acknowledged publish or rollback made active is active after a power  *)
(* loss.                                                                         *)
AcknowledgedSurvives ==
  [][acknowledged /\ losses' # losses => active' = active]_storeVars

(* "The active pointer is replaced only after the generation is written and      *)
(* synchronized" (README.md 42).                                                 *)
PointerAfterSync ==
  [][active' # active /\ active' # None /\ losses' = losses => active' \in synced]_storeVars

(* Publishers and rollbacks, stale ones and retried ones included, move the      *)
(* active generation only along its history.                                     *)
History == INSTANCE GenerationHistory

LinearHistory == History!Spec

-----------------------------------------------------------------------------
(* The inductive invariant, for behaviours in which power fails or calls fail,   *)
(* not both.                                                                     *)

Descends(x) ==
  IF Parent[x] = None THEN Number[x] > 0 ELSE Number[x] > Number[Parent[x]]

Adjacent(x, y) ==
  \/ x # None /\ y = Parent[x]
  \/ y # None /\ x = Parent[y] /\ y \in generations

(* As long as no call has failed, the disk is one step behind at most. *)
Durable ==
  /\ generations = IF phase = "sync" THEN synced \cup {next} ELSE synced
  /\ \A x \in synced : Parent[x] \in synced \cup {None}
  /\ stable \subseteq synced \cup {None}
  /\ phase = "point" => next \in synced \cup {None}
  /\ IF phase = "settle" THEN \A y \in stable \ {active} : Adjacent(active, y)
     ELSE stable = {active}

StoreInv ==
  /\ TypeOK
  /\ ActiveLoadable
  /\ \A x \in generations : Descends(x)
  /\ acknowledged => phase = "idle"
  /\ phase = "link" => Parent[next] = active /\ Descends(next)
  /\ phase = "sync" => Parent[next] = active
  /\ phase = "point" => next # active /\ Adjacent(active, next)
  /\ phase = "point" /\ next # None => next \in generations
  /\ faults = 0 \/ losses = 0
  /\ faults = 0 => Durable
=============================================================================
