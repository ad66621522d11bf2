------------------------ MODULE GenerationStore_proofs ------------------------
(***************************************************************************)
(* StoreInv is an inductive invariant of GenerationStore, for all images   *)
(* and any number of failed calls or of power losses, but not both in one  *)
(* behaviour (Mixed = FALSE): the store's pointer can always be loaded and *)
(* follows the history of its generations.                                 *)
(***************************************************************************)
EXTENDS GenerationStore, TLAPS

(* Nothing is stored at first.                                                   *)
LEMMA InitInv == StoreInit => StoreInv
BY StoreAssumption DEF StoreInit, StoreInv, TypeOK, ActiveLoadable, Durable, Phases

(* A publisher has compared its image with the active generation.                *)
LEMMA PublishInv == StoreInv /\ Publish => StoreInv'
<1> SUFFICES ASSUME StoreInv, Publish PROVE StoreInv'
  OBVIOUS
<1> USE StoreAssumption DEF StoreInv, TypeOK, Publish, Goto, Phases
<1>1. PICK x \in Image : /\ Succeeds(x) /\ next' = x
                         /\ phase' = IF x \in generations THEN "point" ELSE "link"
  OBVIOUS
<1>2. Parent[x] = active /\ x # active /\ Descends(x)
  BY <1>1 DEF Succeeds, Descends
<1>3. TypeOK'
  BY <1>1
<1>4. ActiveLoadable'
  BY DEF ActiveLoadable
<1>5. faults' = 0 => Durable'
  BY <1>1 DEF Durable
<1> QED BY <1>1, <1>2, <1>3, <1>4, <1>5 DEF Descends, Adjacent

(* The file of a new generation gets its name.                                   *)
LEMMA LinkInv == StoreInv /\ Link => StoreInv'
<1> SUFFICES ASSUME StoreInv, Link PROVE StoreInv'
  OBVIOUS
<1> USE StoreAssumption DEF StoreInv, TypeOK, Link, Goto, Phases
<1>1. next \in Image /\ next # None
  OBVIOUS
<1>2. TypeOK'
  BY <1>1
<1>3. ActiveLoadable'
  BY <1>1 DEF ActiveLoadable
<1>4. faults' = 0 => Durable'
  BY <1>1 DEF Durable
<1> QED BY <1>1, <1>2, <1>3, <1>4 DEF Descends

(* The directory of the generations is synchronized.                             *)
LEMMA SyncInv == StoreInv /\ Sync => StoreInv'
<1> SUFFICES ASSUME StoreInv, Sync PROVE StoreInv'
  OBVIOUS
<1> USE StoreAssumption DEF StoreInv, TypeOK, Sync, Goto, Phases
<1>1. next \in generations /\ next # None
  OBVIOUS
<1>2. TypeOK'
  OBVIOUS
<1>3. ActiveLoadable'
  BY DEF ActiveLoadable
<1>4. faults' = 0 => Durable'
  BY <1>1 DEF Durable
<1>5. next # active
  BY <1>1 DEF Descends
<1> QED BY <1>1, <1>2, <1>3, <1>4, <1>5 DEF Descends, Adjacent

(* The pointer is replaced.                                                      *)
LEMMA PointInv == StoreInv /\ Point => StoreInv'
<1> SUFFICES ASSUME StoreInv, Point PROVE StoreInv'
  OBVIOUS
<1> USE StoreAssumption DEF StoreInv, TypeOK, Point, Goto, Phases
<1>1. TypeOK'
  OBVIOUS
<1>2. ActiveLoadable'
  BY DEF ActiveLoadable
<1>3. faults' = 0 => Durable'
  <2> SUFFICES ASSUME faults = 0 PROVE Durable'
    OBVIOUS
  <2>1. stable = {active} /\ generations = synced /\ next \in synced \cup {None}
    BY DEF Durable
  <2>2. stable' = {active, next} /\ active' = next /\ stable' \subseteq synced' \cup {None}
    BY <2>1 DEF Durable
  <2>3. Adjacent(next, active)
    BY DEF Adjacent, ActiveLoadable
  <2> QED BY <2>1, <2>2, <2>3 DEF Durable, Adjacent
<1> QED BY <1>1, <1>2, <1>3 DEF Descends

(* The root directory is synchronized.                                           *)
LEMMA SettleInv == StoreInv /\ Settle => StoreInv'
<1> SUFFICES ASSUME StoreInv, Settle PROVE StoreInv'
  OBVIOUS
<1> USE StoreAssumption DEF StoreInv, TypeOK, Settle, Return, Goto, Phases
<1>1. TypeOK'
  OBVIOUS
<1>2. ActiveLoadable'
  BY DEF ActiveLoadable
<1>3. faults' = 0 => Durable'
  BY DEF Durable
<1> QED BY <1>1, <1>2, <1>3 DEF Descends

(* The retired pointer is unlinked.                                              *)
LEMMA UnlinkInv == StoreInv /\ Unlink => StoreInv'
<1> SUFFICES ASSUME StoreInv, Unlink PROVE StoreInv'
  OBVIOUS
<1> USE StoreAssumption DEF StoreInv, TypeOK, Unlink, Return, Goto, Phases
<1>1. TypeOK' /\ ActiveLoadable'
  BY DEF ActiveLoadable
<1>2. faults' = 0 => Durable'
  BY DEF Durable
<1> QED BY <1>1, <1>2 DEF Descends

(* A rollback leads to the parent of the active generation, which is there.      *)
LEMMA RollbackInv == StoreInv /\ Rollback => StoreInv'
<1> SUFFICES ASSUME StoreInv, Rollback PROVE StoreInv'
  OBVIOUS
<1> USE StoreAssumption DEF StoreInv, TypeOK, Rollback, Goto, Phases
<1>1. active \in Image /\ active \in generations /\ next' = Parent[active]
  BY DEF Loadable
<1>2. TypeOK' /\ ActiveLoadable'
  BY <1>1 DEF ActiveLoadable
<1>3. next' # active
  BY <1>1 DEF Descends
<1>4. next' # None => next' \in generations
  BY <1>1 DEF ActiveLoadable
<1>5. faults' = 0 => Durable'
  BY <1>1, <1>4 DEF Durable
<1> QED BY <1>1, <1>2, <1>3, <1>4, <1>5 DEF Descends, Adjacent

(* A call fails or the process is killed: no power was lost so far.              *)
LEMMA FailInv == ~Mixed /\ StoreInv /\ Fail => StoreInv'
<1> SUFFICES ASSUME ~Mixed, StoreInv, Fail PROVE StoreInv'
  OBVIOUS
<1> USE StoreAssumption DEF StoreInv, TypeOK, Fail, Spend, Return, Goto, Phases
<1>1. losses = 0 /\ faults' # 0 /\ faults' \in Nat
  OBVIOUS
<1>2. TypeOK' /\ ActiveLoadable'
  BY <1>1 DEF ActiveLoadable
<1> QED BY <1>1, <1>2 DEF Descends

(* Power is lost: no call failed so far, so the disk is one step behind at most. *)
LEMMA PowerLossInv == ~Mixed /\ StoreInv /\ PowerLoss => StoreInv'
<1> SUFFICES ASSUME ~Mixed, StoreInv, PowerLoss PROVE StoreInv'
  OBVIOUS
<1> USE StoreAssumption DEF StoreInv, TypeOK, PowerLoss, Return, Goto, Phases
<1>1. faults = 0 /\ Durable /\ losses' \in Nat
  OBVIOUS
<1>2. generations' = synced \/ generations' = generations
  <2>1. PICK more \in SUBSET (generations \ synced) : generations' = synced \cup more
    OBVIOUS
  <2>2. CASE phase = "sync"
    <3>1. more \subseteq {next}
      BY <2>1, <2>2, <1>1 DEF Durable
    <3>2. more = {} \/ more = {next}
      BY <3>1
    <3> QED BY <2>1, <2>2, <3>2, <1>1 DEF Durable
  <2>3. CASE phase # "sync"
    BY <2>1, <2>3, <1>1 DEF Durable
  <2> QED BY <2>2, <2>3
<1>3. active' \in synced \cup {None}
  BY <1>1 DEF Durable
<1>4. TypeOK'
  BY <1>1, <1>2, <1>3
<1>5. \A x \in synced : Parent[x] # None => Parent[x] \in synced
  BY <1>1 DEF Durable
<1>6. ActiveLoadable'
  BY <1>2, <1>3, <1>5 DEF ActiveLoadable
<1>7. Durable'
  BY <1>3, <1>2 DEF Durable
<1> QED BY <1>1, <1>2, <1>4, <1>6, <1>7 DEF Descends

(* Every step preserves the invariant.                                           *)
LEMMA NextInv == ~Mixed /\ StoreInv /\ [StoreNext]_storeVars => StoreInv'
<1> SUFFICES ASSUME ~Mixed, StoreInv, [StoreNext]_storeVars PROVE StoreInv'
  OBVIOUS
<1>1. CASE UNCHANGED storeVars
  BY <1>1 DEF storeVars, StoreInv, TypeOK, ActiveLoadable, Durable, Adjacent
<1> QED BY <1>1, PublishInv, LinkInv, SyncInv, PointInv, SettleInv, UnlinkInv,
           RollbackInv, FailInv, PowerLossInv DEF StoreNext

(* What the phases of a publish and a rollback leave on disk.                    *)
THEOREM StoreInvariant == ASSUME ~Mixed PROVE StoreSpec => []StoreInv
BY InitInv, NextInv, PTL DEF StoreSpec

(* The pointer names a generation that can be loaded, and so do the parents      *)
(* (FilesystemGenerationStore::load_active, load_generation).                    *)
THEOREM StoreActiveLoadable == ASSUME ~Mixed PROVE StoreSpec => []ActiveLoadable
<1>1. StoreInv => ActiveLoadable
  BY DEF StoreInv
<1> QED BY <1>1, StoreInvariant, PTL

(* What an acknowledged publish or rollback made active survives a power loss:   *)
(* its last step synchronized the pointer's directory.                           *)
THEOREM StoreAcknowledgedSurvives == ASSUME ~Mixed PROVE StoreSpec => AcknowledgedSurvives
<1>1. StoreInv /\ [StoreNext]_storeVars => (acknowledged /\ losses' # losses => active' = active)
  <2> SUFFICES ASSUME StoreInv, StoreNext, acknowledged, losses' # losses PROVE active' = active
    BY DEF storeVars
  <2>1. PowerLoss
    BY DEF StoreNext, Publish, Link, Sync, Point, Settle, Unlink, Rollback, Fail
  <2>2. faults = 0
    BY <2>1 DEF PowerLoss, StoreInv, TypeOK
  <2>3. stable = {active}
    BY <2>2 DEF StoreInv, Durable
  <2> QED BY <2>1, <2>3 DEF PowerLoss
<1> QED BY <1>1, StoreInvariant, PTL DEF StoreSpec, AcknowledgedSurvives

-----------------------------------------------------------------------------
(* The pointer follows the history of its generations.                           *)
THEOREM StoreLinearHistory == ASSUME ~Mixed PROVE StoreSpec => LinearHistory
<1>1. StoreInit => History!Init
  BY DEF StoreInit, History!Init
<1>2. ASSUME StoreInv, NEW x \in Image \cup {None}, NEW y \in Image \cup {None},
             Adjacent(x, y), active = x, active' = y, y # None => Descends(y)
      PROVE  History!Next
  <2>1. CASE x # None /\ y = Parent[x]
    BY <2>1, <1>2 DEF History!Next, History!Rollback
  <2>2. CASE y # None /\ x = Parent[y]
    BY <2>2, <1>2 DEF History!Next, History!Publish, History!Newer, Descends
  <2> QED BY <2>1, <2>2, <1>2 DEF Adjacent
<1>3. ~Mixed /\ StoreInv /\ [StoreNext]_storeVars => [History!Next]_active
  <2> SUFFICES ASSUME ~Mixed, StoreInv, [StoreNext]_storeVars, active' # active PROVE History!Next
    OBVIOUS
  <2>1. CASE Point
    <3>1. active' = next /\ Adjacent(active, next) /\ next \in Image \cup {None}
          /\ active \in Image \cup {None}
      BY <2>1 DEF Point, StoreInv, TypeOK
    <3>2. next # None => Descends(next)
      BY <2>1 DEF Point, StoreInv
    <3> QED BY <3>1, <3>2, <1>2
  <2>2. CASE PowerLoss
    <3>1. faults = 0 /\ Durable /\ active' \in stable \ {active}
      BY <2>2 DEF PowerLoss, StoreInv
    <3>2. Adjacent(active, active')
      BY <3>1 DEF Durable
    <3>3. active' \in Image \cup {None} /\ active \in Image \cup {None}
      BY <3>1 DEF StoreInv, TypeOK
    <3>4. active' # None => Descends(active')
      BY <3>1 DEF Durable, StoreInv, TypeOK
    <3> QED BY <3>2, <3>3, <3>4, <1>2
  <2> QED BY <2>1, <2>2 DEF StoreNext, storeVars, Publish, Link, Sync, Settle, Unlink, Rollback, Fail
<1> QED BY <1>1, <1>3, StoreInvariant, PTL DEF StoreSpec, LinearHistory, History!Spec
=============================================================================
