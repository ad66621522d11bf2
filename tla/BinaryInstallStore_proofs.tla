---------------------- MODULE BinaryInstallStore_proofs ----------------------
(***************************************************************************)
(* Theorems about BinaryInstallStore: its types, and that no operation,    *)
(* rollback or kill touches a file that a user wrote between operations.   *)
(***************************************************************************)
EXTENDS BinaryInstallStore, TLAPS

(* What only users write is neither part of a payload nor absent.               *)
LEMMA PayloadNotEdited ==
  ASSUME NEW r \in Release, NEW x \in Path
  PROVE  Payload[r][x] \in Content \cup {Absent} /\ Payload[r][x] \notin Edited
BY StoreAssumption

(* The paths of a release, and of what a package owns, are paths.                *)
LEMMA FilesArePaths ==
  /\ \A r : Files(r) \subseteq Path
  /\ \A p : OldFiles(p) \subseteq Path
BY DEF Files, OldFiles

(* An operation that returns leaves nothing in hand.                             *)
LEMMA ReturnClears ==
  ASSUME Return
  PROVE  /\ phase' = "idle" /\ pkg' = Absent /\ new' = Absent /\ todo' = {}
         /\ saved' = Nothing /\ placed' = {} /\ retired' = Absent
         /\ saved' \in [Path -> Content \cup {Absent}]
BY DEF Return, Nothing

(* The initial states are typed.                                                 *)
LEMMA InitTypes == Init => TypeOK
<1> SUFFICES ASSUME Init PROVE TypeOK
  OBVIOUS
<1>1. target \in [Path -> Content \cup {Absent}]
  <2>1. PICK t \in [Path -> Edited \cup {Absent}] : target = t
    BY DEF Init
  <2> QED BY <2>1, StoreAssumption
<1> QED BY <1>1, StoreAssumption DEF Init, TypeOK, Nothing, Phases

(* The checks of validate_targets lead to an operation that is typed.            *)
LEMMA BeginTypes ==
  ASSUME TypeOK, NEW p \in Package, NEW r \in Release \cup {Absent}, Begin(p, r),
         todo' \in SUBSET Path
  PROVE  TypeOK'
BY DEF TypeOK, Begin, disk, Phases, Nothing

(* Every step keeps the types.                                                   *)
LEMMA NextTypes == TypeOK /\ [Next]_vars => TypeOK'
<1> SUFFICES ASSUME TypeOK, [Next]_vars PROVE TypeOK'
  OBVIOUS
<1>1. ASSUME InstallPayload PROVE TypeOK'
  <2>1. PICK r \in Release :
          /\ Begin(PackageOf[r], r)
          /\ todo' = OldFiles(PackageOf[r]) \cup Files(r)
    BY <1>1 DEF InstallPayload
  <2>2. PackageOf[r] \in Package /\ todo' \in SUBSET Path
    BY <2>1, FilesArePaths, StoreAssumption
  <2> QED BY <2>1, <2>2, BeginTypes
<1>2. ASSUME Remove PROVE TypeOK'
  <2>1. PICK p \in Package : Begin(p, Absent) /\ todo' = OldFiles(p)
    BY <1>2 DEF Remove
  <2> QED BY <2>1, FilesArePaths, BeginTypes
<1>3. ASSUME Save PROVE TypeOK'
  BY <1>3 DEF Save, TypeOK
<1>4. ASSUME Saved PROVE TypeOK'
  BY <1>4, FilesArePaths DEF Saved, TypeOK, disk, Phases
<1>5. ASSUME Place PROVE TypeOK'
  <2>1. new \in Release
    BY <1>5 DEF Place, TypeOK
  <2>2. PICK x \in todo : /\ todo' = todo \ {x} /\ placed' = placed \cup {x}
                          /\ target' = [target EXCEPT ![x] = Payload[new][x]]
    BY <1>5 DEF Place
  <2>3. x \in Path /\ Payload[new][x] \in Content \cup {Absent}
    BY <2>1, <2>2, PayloadNotEdited DEF TypeOK
  <2> QED BY <1>5, <2>2, <2>3 DEF Place, TypeOK
<1>6. ASSUME Own PROVE TypeOK'
  BY <1>6, ReturnClears, StoreAssumption DEF Own, TypeOK, Phases
<1>7. ASSUME Retire PROVE TypeOK'
  BY <1>7 DEF Retire, TypeOK, Phases
<1>8. ASSUME Discard PROVE TypeOK'
  BY <1>8, ReturnClears, StoreAssumption DEF Discard, TypeOK, disk, Phases
<1>9. ASSUME Error PROVE TypeOK'
  BY <1>9, StoreAssumption DEF Error, Fail, Spend, TypeOK, disk, Phases
<1>10. ASSUME Unplace PROVE TypeOK'
  BY <1>10, StoreAssumption DEF Unplace, Spend, TypeOK
<1>11. ASSUME Restore PROVE TypeOK'
  BY <1>11, StoreAssumption DEF Restore, Spend, TypeOK
<1>12. ASSUME Undone PROVE TypeOK'
  BY <1>12, ReturnClears, StoreAssumption DEF Undone, Spend, TypeOK, Phases
<1>13. ASSUME Kill PROVE TypeOK'
  BY <1>13, ReturnClears, StoreAssumption DEF Kill, TypeOK, disk, Phases
<1>14. ASSUME UserWrite PROVE TypeOK'
  BY <1>14, StoreAssumption DEF UserWrite, TypeOK, operation
<1>15. CASE UNCHANGED vars
  BY <1>15 DEF vars, disk, operation, TypeOK
<1> QED
  BY <1>1, <1>2, <1>3, <1>4, <1>5, <1>6, <1>7, <1>8, <1>9, <1>10, <1>11, <1>12, <1>13,
     <1>14, <1>15 DEF Next

(* The store keeps its types (BinaryInstallStore, binary.rs 860).                *)
THEOREM StoreTypes == Spec => []TypeOK
BY InitTypes, NextTypes, PTL DEF Spec

-----------------------------------------------------------------------------
(* The invariant behind UserFilesKept                                            *)

(* An operation begins with files that are gone or as their receipt says, and    *)
(* with paths where nothing is.                                                  *)
LEMMA InstallKept == KeptInv /\ InstallPayload => KeptInv'
<1> SUFFICES ASSUME KeptInv, InstallPayload PROVE KeptInv'
  OBVIOUS
<1>1. PICK r \in Release :
        /\ Unclaimed(PackageOf[r], r)
        /\ Begin(PackageOf[r], r)
        /\ todo' = OldFiles(PackageOf[r]) \cup Files(r)
  BY DEF InstallPayload
<1> DEFINE p == PackageOf[r]
<1>2. p \in Package /\ r # Absent /\ TypeOK
  BY StoreAssumption DEF KeptInv
<1>3. TypeOK'
  BY <1>1, <1>2, FilesArePaths, BeginTypes
<1>4. phase = "idle" /\ saved = Nothing /\ placed = {} /\ Unmodified(p)
  BY <1>1, <1>2 DEF Begin, TypeOK
<1>5. new' = r /\ target' = target /\ saved' = saved /\ placed' = placed
  BY <1>1 DEF Begin, disk
<1>6. \A x \in OldFiles(p) : target[x] \notin Edited
  <2>1. SUFFICES ASSUME NEW x \in OldFiles(p) PROVE target[x] \notin Edited
    OBVIOUS
  <2>2. owned[p] \in Release /\ x \in Path
    BY <1>2, <2>1 DEF OldFiles, TypeOK, Files
  <2> QED BY <1>4, <2>1, <2>2, PayloadNotEdited, StoreAssumption DEF Unmodified
<1>7. \A x \in Files(r) : target[x] \notin Edited
  BY <1>1, <1>6, StoreAssumption DEF Unclaimed
<1>8. InHand' = OldFiles(p) \cup Files(r)
  BY <1>1, <1>2, <1>4, <1>5 DEF InHand, Nothing, Files
<1>9. \A x \in Path : saved'[x] \notin Edited
  BY <1>4, <1>5, StoreAssumption DEF Nothing
<1> QED BY <1>3, <1>5, <1>6, <1>7, <1>8, <1>9 DEF KeptInv

(* So does a removal.                                                            *)
LEMMA RemoveKept == KeptInv /\ Remove => KeptInv'
<1> SUFFICES ASSUME KeptInv, Remove PROVE KeptInv'
  OBVIOUS
<1>1. PICK p \in Package : Begin(p, Absent) /\ todo' = OldFiles(p)
  BY DEF Remove
<1>2. TypeOK /\ TypeOK'
  BY <1>1, FilesArePaths, BeginTypes DEF KeptInv
<1>3. phase = "idle" /\ saved = Nothing /\ placed = {} /\ Unmodified(p)
  BY <1>1, <1>2 DEF Begin, TypeOK
<1>4. new' = Absent /\ target' = target /\ saved' = saved /\ placed' = placed
  BY <1>1 DEF Begin, disk
<1>5. \A x \in OldFiles(p) : target[x] \notin Edited
  <2>1. SUFFICES ASSUME NEW x \in OldFiles(p) PROVE target[x] \notin Edited
    OBVIOUS
  <2>2. owned[p] \in Release /\ x \in Path
    BY <1>2, <2>1 DEF OldFiles, TypeOK, Files
  <2> QED BY <1>3, <2>1, <2>2, PayloadNotEdited, StoreAssumption DEF Unmodified
<1>6. InHand' = OldFiles(p)
  BY <1>1, <1>3, <1>4 DEF InHand, Nothing
<1>7. \A x \in Path : saved'[x] \notin Edited
  BY <1>3, <1>4, StoreAssumption DEF Nothing
<1> QED BY <1>2, <1>4, <1>5, <1>6, <1>7 DEF KeptInv

(* What the steps of an operation do to the files: each one is in hand, and what *)
(* it gets is no file of a user.                                                 *)
Handles ==
  /\ target' \in [Path -> Content \cup {Absent}]
  /\ \A x \in Path : target'[x] # target[x] => x \in InHand /\ target'[x] \notin Edited

LEMMA StepHandles ==
  ASSUME KeptInv, Save \/ Saved \/ Place \/ Own \/ Retire \/ Discard \/ Error
                  \/ Unplace \/ Restore \/ Undone \/ Kill
  PROVE  Handles
<1>1. TypeOK /\ TypeOK'
  BY NextTypes DEF KeptInv, Next
<1>2. target \in [Path -> Content \cup {Absent}] /\ target' \in [Path -> Content \cup {Absent}]
  BY <1>1 DEF TypeOK
<1>3. CASE Save
  BY <1>1, <1>2, <1>3, StoreAssumption DEF Save, TypeOK, InHand, Handles
<1>4. CASE Place
  <2>1. new \in Release
    BY <1>1, <1>4 DEF Place, TypeOK
  <2>2. PICK x \in todo : target' = [target EXCEPT ![x] = Payload[new][x]]
    BY <1>4 DEF Place
  <2>3. x \in Path /\ Payload[new][x] \notin Edited /\ x \in InHand
    BY <1>1, <2>1, <2>2, PayloadNotEdited DEF TypeOK, InHand
  <2> QED BY <1>2, <2>2, <2>3 DEF Handles
<1>5. CASE Unplace
  BY <1>1, <1>2, <1>5, StoreAssumption DEF Unplace, TypeOK, InHand, Handles
<1>6. CASE Restore
  <2>1. phase # "idle"
    BY <1>6 DEF Restore
  <2>2. PICK x \in {y \in Path : saved[y] # Absent} :
          target' = [target EXCEPT ![x] = saved[x]] \/ target' = target
    BY <1>6 DEF Restore
  <2>3. x \in Path /\ x \in InHand /\ saved[x] \notin Edited
    BY <2>1, <2>2 DEF InHand, KeptInv
  <2> QED BY <1>2, <2>2, <2>3 DEF Handles
<1>7. CASE target' = target
  BY <1>2, <1>7 DEF Handles
<1> QED
  BY <1>3, <1>4, <1>5, <1>6, <1>7
     DEF Saved, Own, Retire, Discard, Error, Fail, Undone, Kill, disk

(* Whatever changed of what is in hand was in hand before, and no step of an     *)
(* operation takes more in hand.                                                 *)
LEMMA OperationKept ==
  ASSUME KeptInv, Save \/ Saved \/ Place \/ Own \/ Retire \/ Discard \/ Error
                  \/ Unplace \/ Restore \/ Undone \/ Kill
  PROVE  KeptInv'
<1>1. TypeOK /\ TypeOK'
  BY NextTypes DEF KeptInv, Next
<1>2. phase # "idle"
  BY DEF Save, Saved, Place, Own, Retire, Discard, Error, Unplace, Restore, Undone, Kill
<1>3. /\ \A x \in Path : x \in InHand => target[x] \notin Edited
      /\ \A x \in Path : saved[x] \notin Edited
  BY <1>2 DEF KeptInv
<1>4. \A x \in Path : target[x] \notin Edited => target'[x] \notin Edited
  BY StepHandles DEF Handles
<1>5. CASE phase' = "idle"
  BY <1>1, <1>5 DEF KeptInv
<1>6. CASE InHand' \subseteq InHand /\ \A x \in Path : saved'[x] \notin Edited
  BY <1>1, <1>3, <1>4, <1>6 DEF KeptInv
<1>7. CASE Save
  <2>1. PICK x \in todo : /\ todo' = todo \ {x} /\ placed' = placed /\ new' = new
                          /\ saved' = [saved EXCEPT ![x] = target[x]]
    BY <1>7 DEF Save
  <2>2. x \in Path /\ x \in InHand /\ target[x] \notin Edited
    BY <1>1, <1>3, <2>1 DEF TypeOK, InHand
  <2>3. \A y \in Path : saved'[y] \notin Edited /\ (saved'[y] # Absent => y = x \/ saved[y] # Absent)
    BY <1>1, <1>3, <2>1, <2>2 DEF TypeOK
  <2>4. InHand' \subseteq InHand
    BY <2>1, <2>2, <2>3 DEF InHand, Files
  <2> QED BY <1>6, <2>3, <2>4
<1>8. CASE Saved
  BY <1>3, <1>6, <1>8 DEF Saved, InHand, Files
<1>9. CASE Place \/ Unplace
  BY <1>3, <1>6, <1>9 DEF Place, Unplace, InHand, Files
<1>10. CASE Retire \/ Error
  BY <1>3, <1>6, <1>10 DEF Retire, Error, Fail, InHand, Files
<1>11. CASE Restore
  <2>1. PICK x \in {y \in Path : saved[y] # Absent} :
          /\ saved' = [saved EXCEPT ![x] = Absent]
          /\ todo' = todo /\ placed' = placed /\ new' = new
    BY <1>11 DEF Restore
  <2>2. \A y \in Path : saved'[y] = Absent \/ saved'[y] = saved[y]
    BY <1>1, <2>1 DEF TypeOK
  <2>3. InHand' \subseteq InHand
    BY <2>1, <2>2 DEF InHand, Files
  <2> QED BY <1>3, <1>6, <2>2, <2>3, StoreAssumption
<1>12. CASE Own \/ Discard \/ Undone \/ Kill
  BY <1>5, <1>12, ReturnClears DEF Own, Discard, Undone, Kill
<1> QED BY <1>7, <1>8, <1>9, <1>10, <1>11, <1>12

(* Every step preserves the invariant while users write only between operations. *)
LEMMA NextKept == ~EditsAnytime /\ KeptInv /\ [Next]_vars => KeptInv'
<1> SUFFICES ASSUME ~EditsAnytime, KeptInv, [Next]_vars PROVE KeptInv'
  OBVIOUS
<1>1. CASE UserWrite
  <2>1. TypeOK'
    BY <1>1, NextTypes DEF KeptInv, Next
  <2> QED BY <1>1, <2>1 DEF UserWrite, operation, KeptInv
<1>2. CASE UNCHANGED vars
  <2>1. TypeOK'
    BY <1>2, NextTypes DEF KeptInv
  <2> QED BY <1>2, <2>1 DEF vars, disk, operation, KeptInv, InHand, Files
<1> QED BY <1>1, <1>2, InstallKept, RemoveKept, OperationKept DEF Next

(* The invariant holds however many calls fail and processes die, if users do    *)
(* not write while an operation runs (binary.rs 1115).                           *)
THEOREM StoreKeeps ==
  ASSUME ~EditsAnytime
  PROVE  Spec => []KeptInv
<1>1. Init => KeptInv
  BY InitTypes DEF Init, KeptInv
<1>2. KeptInv /\ [Next]_vars => KeptInv'
  BY NextKept
<1> QED BY <1>1, <1>2, PTL DEF Spec

(* A file that a user wrote between operations stays until a user changes it,    *)
(* through installs, updates, removals, their rollbacks and kills                *)
(* (BINARY_REPOSITORY.md 116).                                                   *)
THEOREM StoreKeepsUserFiles ==
  ASSUME ~EditsAnytime
  PROVE  Spec => UserFilesKept
<1> DEFINE Kept == \A x \in Path :
                     target[x] \in Edited /\ target'[x] # target[x] => edits' # edits
<1>1. KeptInv /\ [Next]_vars => [Kept]_vars
  <2> SUFFICES ASSUME KeptInv, Next PROVE Kept
    OBVIOUS
  <2>1. CASE UserWrite
    BY <2>1 DEF UserWrite, KeptInv, TypeOK
  <2>2. CASE InstallPayload \/ Remove
    BY <2>2 DEF InstallPayload, Remove, Begin, disk
  <2>3. CASE Save \/ Saved \/ Place \/ Own \/ Retire \/ Discard \/ Error
             \/ Unplace \/ Restore \/ Undone \/ Kill
    <3>1. phase # "idle"
      BY <2>3 DEF Save, Saved, Place, Own, Retire, Discard, Error, Unplace, Restore,
                  Undone, Kill
    <3> QED BY <2>3, <3>1, StepHandles DEF Handles, KeptInv
  <2> QED BY <2>1, <2>2, <2>3 DEF Next
<1> QED BY <1>1, StoreKeeps, PTL DEF Spec, UserFilesKept

-----------------------------------------------------------------------------
(* The refinement of LiveRoot                                                    *)

(* The counters only grow, so what holds in sound states is not lost by a step.  *)
LEMMA SoundBefore ==
  ASSUME TypeOK, [Next]_vars, Sound'
  PROVE  Sound
<1>1. faults \in Nat /\ kills \in Nat
  BY DEF TypeOK
<1>2. faults' \in {faults, faults + 1} /\ kills' \in {kills, kills + 1}
  BY DEF Next, InstallPayload, Remove, Begin, Save, Saved, Place, Own, Retire, Discard,
         Error, Fail, Spend, Unplace, Restore, Undone, Kill, UserWrite, vars
<1> QED BY <1>1, <1>2 DEF Sound

(* What LiveRoot sees of a typed state is typed.                                 *)
LEMMA RootTypes ==
  ASSUME TypeOK
  PROVE  /\ Recorded \in [Package -> Release \cup {Absent}]
         /\ Visible \in [Path -> Content \cup {Absent}]
         /\ phase = "idle" => Visible = target
<1>1. Recorded \in [Package -> Release \cup {Absent}]
  BY DEF TypeOK, Recorded
<1>2. Visible \in [Path -> Content \cup {Absent}]
  BY DEF TypeOK, Visible
<1>3. ASSUME phase = "idle" PROVE Visible = target
  BY <1>2, <1>3 DEF TypeOK, Visible, Nothing
<1> QED BY <1>1, <1>2, <1>3

(* An operation that returned leaves to LiveRoot what it leaves in the target.   *)
LEMMA RootWhenIdle ==
  ASSUME TypeOK', phase' = "idle"
  PROVE  Visible' = target'
<1>1. target' \in [Path -> Content \cup {Absent}] /\ placed' = {} /\ saved' = Nothing
  BY DEF TypeOK, Nothing
<1>2. \A x \in Path : saved'[x] = Absent
  BY <1>1 DEF Nothing
<1> QED BY <1>1, <1>2 DEF Visible

(* What is in the way is a set of paths.                                         *)
LEMMA RootPaths ==
  /\ \A p : Root!OldFiles(p) \subseteq Path
  /\ InTheWay \subseteq Path
BY DEF Root!OldFiles, Root!Files, InTheWay, Files

(* A step of LiveRoot keeps the receipts true of the files, whatever it does.    *)
LEMMA DeployKeepsReceipts ==
  ASSUME TypeOK, TypeOK', Root!Receipts, NEW r \in Release, Root!Deploy(r)
  PROVE  Root!Receipts'
<1> DEFINE p == PackageOf[r]
           old == Root!OldFiles(p)
<1>1. p \in Package /\ r # Absent
  BY StoreAssumption
<1>2. /\ Recorded' = [Recorded EXCEPT ![p] = r]
      /\ Visible' = [x \in Path |->
           IF x \in Files(r) THEN Payload[r][x] ELSE IF x \in old THEN Absent ELSE Visible[x]]
      /\ \A x \in Files(r) \ old : Visible[x] = Absent
      /\ Root!Unmodified(p)
      /\ edits' = edits
  BY DEF Root!Deploy, Root!Files, Files
<1>3. /\ Recorded \in [Package -> Release \cup {Absent}]
      /\ Visible \in [Path -> Content \cup {Absent}]
  BY RootTypes
<1> SUFFICES ASSUME edits = 0
             PROVE  Root!Receipts'
  BY <1>2 DEF Root!Receipts
<1>4. /\ \A q \in Package : \A x \in Root!OldFiles(q) : Visible[x] = Payload[Recorded[q]][x]
      /\ \A x \in Path : Visible[x] \in Content \ Edited =>
           \E q \in Package : Recorded[q] # Absent /\ Payload[Recorded[q]][x] = Visible[x]
      /\ \A q, s \in Package : q # s => Root!OldFiles(q) \cap Root!OldFiles(s) = {}
  BY DEF Root!Receipts
<1>5. Recorded'[p] = r /\ \A q \in Package \ {p} : Recorded'[q] = Recorded[q]
  BY <1>1, <1>2, <1>3
<1>6. Root!OldFiles(p)' = Files(r)
  BY <1>1, <1>5 DEF Root!OldFiles, Root!Files, Files
<1>7. \A q \in Package \ {p} : Root!OldFiles(q)' = Root!OldFiles(q)
  BY <1>5 DEF Root!OldFiles, Root!Files
<1>8. ASSUME NEW q \in Package \ {p}, NEW x \in Root!OldFiles(q)
      PROVE  x \in Path /\ Visible[x] # Absent /\ x \notin Files(r) /\ x \notin old
  <2>1. x \in Path /\ Recorded[q] # Absent /\ Payload[Recorded[q]][x] # Absent
    BY DEF Root!OldFiles, Root!Files
  <2>2. Visible[x] # Absent
    BY <1>4, <2>1
  <2>3. x \notin old
    BY <1>1, <1>4
  <2> QED BY <1>2, <2>1, <2>2, <2>3
<1>9. ASSUME NEW q \in Package, NEW x \in Root!OldFiles(q)'
      PROVE  Visible'[x] = Payload[Recorded'[q]][x]
  <2>1. CASE q = p
    BY <1>2, <1>5, <1>6, <2>1 DEF Files
  <2>2. CASE q # p
    <3>1. x \in Root!OldFiles(q) /\ q \in Package \ {p}
      BY <1>7, <2>2
    <3>2. x \in Path /\ x \notin Files(r) /\ x \notin old
      BY <1>8, <3>1
    <3>3. Visible'[x] = Visible[x]
      BY <1>2, <3>2
    <3> QED BY <1>4, <1>5, <3>1, <3>3
  <2> QED BY <2>1, <2>2
<1>10. ASSUME NEW x \in Path, Visible'[x] \in Content \ Edited
       PROVE  \E q \in Package : Recorded'[q] # Absent /\ Payload[Recorded'[q]][x] = Visible'[x]
  <2>1. CASE x \in Files(r)
    BY <1>1, <1>2, <1>5, <2>1
  <2>2. CASE x \notin Files(r)
    <3>1. x \notin old /\ Visible'[x] = Visible[x]
      BY <1>2, <1>10, <2>2, StoreAssumption
    <3>2. PICK q \in Package : Recorded[q] # Absent /\ Payload[Recorded[q]][x] = Visible[x]
      BY <1>4, <1>10, <3>1
    <3>3. Payload[Recorded[q]][x] # Absent
      BY <1>10, <3>1, <3>2, StoreAssumption
    <3>4. q # p
      BY <3>1, <3>2, <3>3 DEF Root!OldFiles, Root!Files
    <3> QED BY <1>5, <3>1, <3>2, <3>4
  <2> QED BY <2>1, <2>2
<1>11. ASSUME NEW q \in Package, NEW s \in Package, q # s
       PROVE  Root!OldFiles(q)' \cap Root!OldFiles(s)' = {}
  <2>1. CASE q # p /\ s # p
    BY <1>4, <1>7, <1>11, <2>1
  <2>2. CASE q = p \/ s = p
    BY <1>6, <1>7, <1>8, <1>11, <2>2
  <2> QED BY <2>1, <2>2
<1> HIDE DEF p, old
<1> QED BY <1>9, <1>10, <1>11 DEF Root!Receipts

LEMMA RemoveKeepsReceipts ==
  ASSUME TypeOK, TypeOK', Root!Receipts, NEW p \in Package, Root!Remove(p)
  PROVE  Root!Receipts'
<1> DEFINE old == Root!OldFiles(p)
<1>1. /\ Recorded' = [Recorded EXCEPT ![p] = Absent]
      /\ Visible' = [x \in Path |-> IF x \in old THEN Absent ELSE Visible[x]]
      /\ edits' = edits
  BY DEF Root!Remove
<1>2. Recorded \in [Package -> Release \cup {Absent}]
  BY RootTypes
<1>3. Recorded'[p] = Absent /\ \A q \in Package \ {p} : Recorded'[q] = Recorded[q]
  BY <1>1, <1>2
<1> SUFFICES ASSUME edits = 0
             PROVE  Root!Receipts'
  BY <1>1 DEF Root!Receipts
<1>4. /\ \A q \in Package : \A x \in Root!OldFiles(q) : Visible[x] = Payload[Recorded[q]][x]
      /\ \A x \in Path : Visible[x] \in Content \ Edited =>
           \E q \in Package : Recorded[q] # Absent /\ Payload[Recorded[q]][x] = Visible[x]
      /\ \A q, s \in Package : q # s => Root!OldFiles(q) \cap Root!OldFiles(s) = {}
  BY DEF Root!Receipts
<1>5. Root!OldFiles(p)' = {} /\ \A q \in Package \ {p} : Root!OldFiles(q)' = Root!OldFiles(q)
  BY <1>3 DEF Root!OldFiles, Root!Files
<1>6. ASSUME NEW q \in Package, NEW x \in Root!OldFiles(q)'
      PROVE  Visible'[x] = Payload[Recorded'[q]][x]
  <2>1. q # p /\ x \in Root!OldFiles(q)
    BY <1>5
  <2>2. x \in Path /\ x \notin old
    BY <1>4, <2>1, RootPaths
  <2> QED BY <1>1, <1>3, <1>4, <2>1, <2>2
<1>7. ASSUME NEW x \in Path, Visible'[x] \in Content \ Edited
      PROVE  \E q \in Package : Recorded'[q] # Absent /\ Payload[Recorded'[q]][x] = Visible'[x]
  <2>1. x \notin old /\ Visible'[x] = Visible[x]
    BY <1>1, <1>7, StoreAssumption
  <2>2. PICK q \in Package : Recorded[q] # Absent /\ Payload[Recorded[q]][x] = Visible[x]
    BY <1>4, <1>7, <2>1
  <2>3. Payload[Recorded[q]][x] # Absent
    BY <1>7, <2>1, <2>2, StoreAssumption
  <2>4. q # p
    BY <2>1, <2>2, <2>3 DEF Root!OldFiles, Root!Files
  <2> QED BY <1>3, <2>1, <2>2, <2>4
<1>8. \A q, s \in Package : q # s => Root!OldFiles(q)' \cap Root!OldFiles(s)' = {}
  BY <1>4, <1>5
<1> HIDE DEF old
<1> QED BY <1>6, <1>7, <1>8 DEF Root!Receipts

LEMMA RootKeepsReceipts ==
  ASSUME TypeOK, TypeOK', Root!Receipts, Root!Next \/ UNCHANGED Root!vars
  PROVE  Root!Receipts'
<1>1. CASE \E r \in Release : Root!Deploy(r)
  BY <1>1, DeployKeepsReceipts
<1>2. CASE \E p \in Package : Root!Remove(p)
  BY <1>2, RemoveKeepsReceipts
<1>3. CASE \E x \in Path : \E c \in Edited \cup {Absent} : Root!Edit(x, c)
  BY <1>3 DEF Root!Edit, Root!Receipts, TypeOK
<1>4. CASE UNCHANGED Root!vars
  BY <1>4 DEF Root!vars, Root!Receipts, Root!OldFiles, Root!Files
<1> QED BY <1>1, <1>2, <1>3, <1>4 DEF Root!Next

(* An operation begins only where LiveRoot may deploy or remove, and changes     *)
(* nothing that LiveRoot sees.                                                   *)
SameRoot == Recorded' = Recorded /\ Visible' = Visible /\ edits' = edits

LEMMA SameRootStutters == SameRoot => UNCHANGED Root!vars
BY DEF SameRoot, Root!vars

LEMMA BeginUnharmed ==
  ASSUME RootInv, NEW p \in Package, NEW r \in Release \cup {Absent}, Begin(p, r),
         todo' = OldFiles(p) \cup IF r = Absent THEN {} ELSE Files(r),
         r # Absent => PackageOf[r] = p /\ Unclaimed(p, r),
         r = Absent => owned[p] # Absent
  PROVE  RootInv' /\ SameRoot
<1>1. TypeOK /\ TypeOK'
  <2>1. todo' \in SUBSET Path
    BY FilesArePaths
  <2> QED BY <2>1, BeginTypes DEF RootInv
<1>2. /\ phase = "idle" /\ saved = Nothing /\ placed = {} /\ retired = Absent
      /\ phase' = "save" /\ pkg' = p /\ new' = r
      /\ target' = target /\ owned' = owned /\ saved' = saved /\ placed' = placed
      /\ retired' = retired /\ faults' = faults /\ kills' = kills /\ edits' = edits
      /\ Unmodified(p)
  BY <1>1 DEF Begin, disk, TypeOK, RootInv
<1>3. SameRoot
  BY <1>2 DEF SameRoot, Recorded, Visible
<1>4. Visible = target /\ Recorded = owned
  BY <1>1, <1>2, RootTypes DEF Recorded
<1>5. Root!OldFiles(p)' = OldFiles(p)
  BY <1>3, <1>4 DEF SameRoot, Root!OldFiles, Root!Files, OldFiles, Files
<1>6. InTheWay' = todo'
  BY <1>2, <1>5 DEF InTheWay, Files
<1>7. Unharmed'
  <2>1. Root!Unmodified(pkg)'
    BY <1>2, <1>3, <1>4, <1>5 DEF SameRoot, Root!Unmodified, Unmodified
  <2>2. new' # Absent => \A x \in Files(new') \ Root!OldFiles(pkg)' : Visible'[x] = Absent
    BY <1>2, <1>3, <1>4, <1>5 DEF SameRoot, Unclaimed
  <2>3. \A x \in Path : saved'[x] = Absent
    BY <1>2 DEF Nothing
  <2> QED BY <2>1, <2>2, <2>3 DEF Unharmed, Files
<1>8. Progress'
  <2>1. \A x \in todo' : saved'[x] = Absent
    BY <1>1, <1>2 DEF Nothing, TypeOK
  <2> QED BY <1>2, <1>6, <2>1 DEF Progress
<1>9. Sound' => Root!Receipts'
  <2>1. Sound' => Root!Receipts
    BY <1>2 DEF Sound, RootInv
  <2> QED BY <1>1, <1>3, <2>1, SameRootStutters, RootKeepsReceipts
<1>10. Recorded' = owned /\ (r = Absent => Recorded'[p] # Absent)
  BY <1>3, <1>4 DEF SameRoot
<1> QED BY <1>1, <1>2, <1>3, <1>7, <1>8, <1>9, <1>10 DEF RootInv

LEMMA BeginRoot ==
  ASSUME RootInv, InstallPayload \/ Remove
  PROVE  RootInv' /\ SameRoot
<1>1. CASE InstallPayload
  <2>1. PICK r \in Release :
          /\ Unclaimed(PackageOf[r], r)
          /\ Begin(PackageOf[r], r)
          /\ todo' = OldFiles(PackageOf[r]) \cup Files(r)
    BY <1>1 DEF InstallPayload
  <2>2. PackageOf[r] \in Package /\ r # Absent
    BY StoreAssumption
  <2> QED BY <2>1, <2>2, BeginUnharmed
<1>2. CASE Remove
  <2>1. PICK p \in Package : owned[p] # Absent /\ Begin(p, Absent) /\ todo' = OldFiles(p)
    BY <1>2 DEF Remove
  <2> QED BY <2>1, BeginUnharmed
<1> QED BY <1>1, <1>2

(* What a step of a sound operation before its commit has to keep.               *)
LEMMA OnTheWay ==
  ASSUME RootInv, TypeOK', SameRoot, phase # "idle",
         pkg' = pkg, new' = new, faults' = faults, kills' = kills,
         phase' \notin {"idle", "undo"}, phase # "undo",
         retired' # Absent => phase' = "discard" /\ owned'[pkg] = Absent,
         Sound /\ Unharmed /\ Progress =>
           Progress' /\ \A x \in Path : saved'[x] # Absent => x \in InTheWay
  PROVE  RootInv'
<1>1. TypeOK /\ pkg' = pkg /\ Recorded' = Recorded /\ Visible' = Visible
  BY DEF RootInv, SameRoot
<1>2. Root!OldFiles(pkg)' = Root!OldFiles(pkg)
  BY <1>1 DEF Root!OldFiles, Root!Files
<1>3. InTheWay' = InTheWay
  BY <1>2 DEF InTheWay, Files
<1>4. Sound' => Sound
  BY DEF Sound
<1>5. Sound' => Root!Receipts'
  BY <1>1, <1>4, SameRootStutters, RootKeepsReceipts DEF RootInv
<1>6. Sound' => Unharmed' /\ Progress'
  <2> SUFFICES ASSUME Sound' PROVE Unharmed' /\ Progress'
    OBVIOUS
  <2>1. Unharmed /\ Progress' /\ \A x \in Path : saved'[x] # Absent => x \in InTheWay
    BY <1>4 DEF RootInv
  <2>2. Root!Unmodified(pkg)'
    BY <1>1, <1>2, <2>1 DEF Unharmed, Root!Unmodified
  <2>3. new' # Absent => \A x \in Files(new') \ Root!OldFiles(pkg)' : Visible'[x] = Absent
    BY <1>1, <1>2, <2>1 DEF Unharmed, Files
  <2> QED BY <1>3, <2>1, <2>2, <2>3 DEF Unharmed, Files
<1> QED BY <1>1, <1>5, <1>6 DEF RootInv

(* Moving files out of the way changes nothing that LiveRoot sees.               *)
LEMMA SaveRoot ==
  ASSUME RootInv, Save, Sound
  PROVE  RootInv' /\ SameRoot
<1>1. TypeOK /\ TypeOK' /\ Unharmed /\ Progress
  BY NextTypes DEF RootInv, Next, Save
<1>2. PICK x \in todo :
        /\ todo' = todo \ {x}
        /\ saved' = [saved EXCEPT ![x] = target[x]]
        /\ target' = [target EXCEPT ![x] = Absent]
  BY DEF Save
<1>3. /\ phase = "save" /\ phase' = phase /\ pkg' = pkg /\ new' = new /\ placed' = placed
      /\ retired' = retired /\ retired = Absent /\ owned' = owned /\ faults' = faults
      /\ kills' = kills /\ edits' = edits
  BY DEF Save, RootInv
<1>4. placed = {} /\ x \in Path /\ x \in InTheWay /\ saved[x] = Absent
  BY <1>1, <1>3, RootPaths DEF Progress
<1>5. ASSUME NEW y \in Path
      PROVE  /\ y # x => saved'[y] = saved[y] /\ target'[y] = target[y]
             /\ y = x => saved'[y] = target[y] /\ target'[y] = Absent
  BY <1>1, <1>2 DEF TypeOK
<1>6. SameRoot
  <2>1. Recorded' = Recorded
    BY <1>3 DEF Recorded
  <2>2. \A y \in Path : (IF saved'[y] # Absent THEN saved'[y] ELSE target'[y])
                        = (IF saved[y] # Absent THEN saved[y] ELSE target[y])
    BY <1>4, <1>5
  <2>3. Visible' = Visible
    BY <1>3, <1>4, <2>2 DEF Visible
  <2> QED BY <1>3, <2>1, <2>3 DEF SameRoot
<1>7. InTheWay' = InTheWay
  BY <1>3, <1>6 DEF InTheWay, SameRoot, Root!OldFiles, Root!Files, Files
<1>8. Progress'
  <2>1. todo' \subseteq InTheWay /\ \A y \in todo' : saved'[y] = Absent
    BY <1>1, <1>2, <1>3, <1>5, RootPaths DEF Progress
  <2>2. \A y \in InTheWay \ todo' : target'[y] = Absent
    BY <1>1, <1>2, <1>3, <1>5, RootPaths DEF Progress
  <2> QED BY <1>3, <1>4, <1>7, <2>1, <2>2 DEF Progress
<1>9. \A y \in Path : saved'[y] # Absent => y \in InTheWay
  BY <1>1, <1>4, <1>5 DEF Unharmed
<1>10. RootInv'
  BY <1>1, <1>3, <1>6, <1>8, <1>9, OnTheWay
<1> QED BY <1>6, <1>10

LEMMA SavedRoot ==
  ASSUME RootInv, Saved, Sound
  PROVE  RootInv' /\ SameRoot
<1>1. TypeOK /\ TypeOK' /\ Unharmed /\ Progress
  BY NextTypes DEF RootInv, Next, Saved
<1>2. /\ phase = "save" /\ phase' = "place" /\ todo = {} /\ todo' = Files(new) /\ new # Absent
      /\ pkg' = pkg /\ new' = new /\ placed' = placed /\ saved' = saved /\ target' = target
      /\ retired' = retired /\ retired = Absent /\ owned' = owned /\ faults' = faults
      /\ kills' = kills /\ edits' = edits
  BY DEF Saved, RootInv, disk
<1>3. SameRoot
  BY <1>2 DEF SameRoot, Recorded, Visible
<1>4. InTheWay' = InTheWay
  BY <1>2, <1>3 DEF InTheWay, SameRoot, Root!OldFiles, Root!Files, Files
<1>5. Progress'
  BY <1>1, <1>2, <1>4 DEF Progress, Files
<1>6. RootInv'
  BY <1>1, <1>2, <1>3, <1>5, OnTheWay DEF Unharmed
<1> QED BY <1>3, <1>6

(* So does putting the staged files in place.                                    *)
LEMMA PlaceRoot ==
  ASSUME RootInv, Place, Sound
  PROVE  RootInv' /\ SameRoot
<1>1. TypeOK /\ TypeOK' /\ Unharmed /\ Progress
  BY NextTypes DEF RootInv, Next, Place
<1>2. PICK x \in todo :
        /\ todo' = todo \ {x}
        /\ placed' = placed \cup {x}
        /\ target' = [target EXCEPT ![x] = Payload[new][x]]
  BY DEF Place
<1>3. /\ phase = "place" /\ phase' = phase /\ pkg' = pkg /\ new' = new /\ saved' = saved
      /\ retired' = retired /\ retired = Absent /\ owned' = owned /\ faults' = faults
      /\ kills' = kills /\ edits' = edits /\ new # Absent
  BY <1>1 DEF Place, RootInv, TypeOK
<1>4. x \in Path /\ x \in InTheWay \ placed /\ target[x] = Absent
  BY <1>1, <1>2, <1>3, RootPaths DEF Progress, InTheWay
<1>5. \A y \in Path \ {x} : target'[y] = target[y]
  BY <1>1, <1>2 DEF TypeOK
<1>6. target'[x] = Payload[new][x]
  BY <1>1, <1>2, <1>4 DEF TypeOK
<1>7. SameRoot
  <2>1. Recorded' = Recorded
    BY <1>3 DEF Recorded
  <2>2. \A y \in Path : (IF y \in placed' THEN Absent ELSE target'[y])
                        = (IF y \in placed THEN Absent ELSE target[y])
    BY <1>2, <1>4, <1>5
  <2>3. Visible' = Visible
    BY <1>3, <2>2 DEF Visible
  <2> QED BY <1>3, <2>1, <2>3 DEF SameRoot
<1>8. InTheWay' = InTheWay
  BY <1>3, <1>7 DEF InTheWay, SameRoot, Root!OldFiles, Root!Files, Files
<1>9. Progress'
  <2>1. placed' \cup todo' = Files(new) /\ placed' \cap todo' = {}
    BY <1>1, <1>2, <1>3 DEF Progress
  <2>2. \A y \in InTheWay \ placed' : target'[y] = Absent
    BY <1>1, <1>2, <1>3, <1>5, RootPaths DEF Progress
  <2>3. \A y \in placed' : target'[y] = Payload[new][y]
    <3>1. placed \subseteq Path
      BY <1>1 DEF TypeOK
    <3> QED BY <1>1, <1>2, <1>3, <1>4, <1>5, <1>6, <3>1 DEF Progress
  <2> QED BY <1>3, <1>8, <2>1, <2>2, <2>3 DEF Progress, Files
<1>10. RootInv'
  BY <1>1, <1>3, <1>7, <1>9, OnTheWay DEF Unharmed
<1> QED BY <1>7, <1>10

(* The receipt that a removal renames away still counts.                         *)
LEMMA RetireRoot ==
  ASSUME RootInv, Retire, Sound
  PROVE  RootInv' /\ SameRoot
<1>1. TypeOK /\ TypeOK' /\ Unharmed /\ Progress
  BY NextTypes DEF RootInv, Next, Retire
<1>2. /\ phase = "save" /\ phase' = "discard" /\ todo = {} /\ new = Absent /\ retired = Absent
      /\ retired' = owned[pkg] /\ owned' = [owned EXCEPT ![pkg] = Absent]
      /\ pkg' = pkg /\ new' = new /\ placed' = placed /\ saved' = saved /\ target' = target
      /\ faults' = faults /\ kills' = kills /\ edits' = edits
  BY DEF Retire, RootInv
<1>3. pkg \in Package /\ Recorded = owned /\ owned[pkg] # Absent
  BY <1>1, <1>2 DEF RootInv, Recorded, TypeOK
<1>4. SameRoot
  <2>1. Recorded' = Recorded
    BY <1>1, <1>2, <1>3 DEF Recorded, TypeOK
  <2> QED BY <1>2, <2>1 DEF SameRoot, Visible
<1>5. InTheWay' = InTheWay
  BY <1>2, <1>4 DEF InTheWay, SameRoot, Root!OldFiles, Root!Files, Files
<1>6. Progress'
  BY <1>1, <1>2, <1>3, <1>5 DEF Progress
<1>7. owned'[pkg] = Absent
  BY <1>1, <1>2, <1>3 DEF TypeOK
<1>8. RootInv'
  BY <1>1, <1>2, <1>4, <1>6, <1>7, OnTheWay DEF Unharmed
<1> QED BY <1>4, <1>8

(* write_receipt is the Deploy of the release that was installed.                *)
LEMMA OwnDeploys ==
  ASSUME RootInv, Own, Sound
  PROVE  Root!Deploy(new)
<1>1. TypeOK /\ TypeOK' /\ Unharmed /\ Progress
  BY NextTypes DEF RootInv, Next, Own
<1>2. /\ phase = "place" /\ todo = {} /\ new # Absent /\ retired = Absent /\ PackageOf[new] = pkg
      /\ owned' = [owned EXCEPT ![pkg] = new] /\ target' = target /\ edits' = edits
  BY <1>1 DEF Own, RootInv, TypeOK
<1>3. phase' = "idle" /\ retired' = Absent
  BY ReturnClears DEF Own
<1>4. Recorded = owned /\ Recorded' = owned'
  BY <1>2, <1>3 DEF Recorded
<1>5. Visible' = target'
  BY <1>1, <1>3, RootWhenIdle
<1>6. placed = Files(new) /\ InTheWay = Root!OldFiles(pkg) \cup Files(new)
  BY <1>1, <1>2 DEF Progress, InTheWay
<1>7. ASSUME NEW x \in Path
      PROVE  target[x] = IF x \in Files(new) THEN Payload[new][x]
                         ELSE IF x \in Root!OldFiles(pkg) THEN Absent ELSE Visible[x]
  <2>1. x \in Files(new) => target[x] = Payload[new][x]
    BY <1>1, <1>2, <1>6 DEF Progress
  <2>2. x \in Root!OldFiles(pkg) \ Files(new) => target[x] = Absent
    BY <1>1, <1>2, <1>6 DEF Progress
  <2>3. x \notin InTheWay => target[x] = Visible[x]
    BY <1>1, <1>6 DEF Unharmed, Visible
  <2> QED BY <1>6, <2>1, <2>2, <2>3
<1>8. Visible' = [x \in Path |-> IF x \in Files(new) THEN Payload[new][x]
                                 ELSE IF x \in Root!OldFiles(pkg) THEN Absent ELSE Visible[x]]
  <2>1. Visible' \in [Path -> Content \cup {Absent}]
    BY <1>1, <1>2, <1>5 DEF TypeOK
  <2> QED BY <1>2, <1>5, <1>7, <2>1
<1> QED
  BY <1>1, <1>2, <1>4, <1>8 DEF Root!Deploy, Root!Files, Files, Unharmed

(* The unlink of the retired receipt is the Remove of the package.               *)
LEMMA DiscardRemoves ==
  ASSUME RootInv, Discard, Sound
  PROVE  Root!Remove(pkg)
<1>1. TypeOK /\ TypeOK' /\ Unharmed /\ Progress
  BY NextTypes DEF RootInv, Next, Discard
<1>2. /\ phase = "discard" /\ retired # Absent /\ new = Absent /\ placed = {}
      /\ owned' = owned /\ target' = target /\ edits' = edits
      /\ owned[pkg] = Absent /\ pkg \in Package
  BY <1>1 DEF Discard, disk, RootInv, Progress, TypeOK
<1>3. phase' = "idle" /\ retired' = Absent
  BY ReturnClears DEF Discard
<1>4. Recorded = [owned EXCEPT ![pkg] = retired] /\ Recorded' = owned
  BY <1>2, <1>3 DEF Recorded
<1>5. Recorded' = [Recorded EXCEPT ![pkg] = Absent] /\ Recorded[pkg] # Absent
  BY <1>1, <1>2, <1>4 DEF TypeOK
<1>6. Visible' = target'
  BY <1>1, <1>3, RootWhenIdle
<1>7. InTheWay = Root!OldFiles(pkg)
  BY <1>2 DEF InTheWay
<1>8. ASSUME NEW x \in Path
      PROVE  target[x] = IF x \in Root!OldFiles(pkg) THEN Absent ELSE Visible[x]
  <2>1. x \in Root!OldFiles(pkg) => target[x] = Absent
    BY <1>1, <1>2, <1>7 DEF Progress
  <2>2. x \notin InTheWay => target[x] = Visible[x]
    BY <1>1, <1>2 DEF Unharmed, Visible
  <2> QED BY <1>7, <2>1, <2>2
<1>9. Visible' = [x \in Path |-> IF x \in Root!OldFiles(pkg) THEN Absent ELSE Visible[x]]
  <2>1. Visible' \in [Path -> Content \cup {Absent}]
    BY <1>1, <1>2, <1>6 DEF TypeOK
  <2> QED BY <1>2, <1>6, <1>8, <2>1
<1> QED
  BY <1>1, <1>2, <1>5, <1>9 DEF Root!Remove, Unharmed

(* An error only turns the operation back, and neither a rollback whose calls    *)
(* succeed nor its end changes what LiveRoot sees.                               *)
LEMMA UndoRoot ==
  ASSUME RootInv, Error \/ Unplace \/ Restore \/ Undone, Sound'
  PROVE  SameRoot
<1>1. TypeOK /\ TypeOK' /\ (phase = "undo" => faults >= 1) /\ faults \in Nat
  BY NextTypes DEF RootInv, Next, TypeOK
<1>2. CASE Error
  BY <1>2 DEF Error, Fail, disk, SameRoot, Recorded, Visible
<1>3. ASSUME phase = "undo", Spend PROVE FALSE
  BY <1>1, <1>3 DEF Spend, Sound
<1>4. CASE Unplace
  <2>1. PICK x \in placed : placed' = placed \ {x} /\ target' = [target EXCEPT ![x] = Absent]
    BY <1>3, <1>4 DEF Unplace
  <2>2. /\ saved' = saved /\ owned' = owned /\ retired' = retired /\ pkg' = pkg
        /\ edits' = edits
    BY <1>4 DEF Unplace
  <2>3. \A y \in Path : (IF y \in placed' THEN Absent ELSE target'[y])
                        = (IF y \in placed THEN Absent ELSE target[y])
    BY <1>1, <2>1 DEF TypeOK
  <2>4. Visible' = Visible
    BY <2>2, <2>3 DEF Visible
  <2> QED BY <2>2, <2>4 DEF SameRoot, Recorded
<1>5. CASE Restore
  <2>1. PICK x \in {y \in Path : saved[y] # Absent} :
          saved' = [saved EXCEPT ![x] = Absent] /\ target' = [target EXCEPT ![x] = saved[x]]
    BY <1>3, <1>5 DEF Restore
  <2>2. /\ placed' = {} /\ placed = {} /\ owned' = owned /\ retired' = retired /\ pkg' = pkg
        /\ edits' = edits
    BY <1>5 DEF Restore
  <2>3. \A y \in Path : (IF saved'[y] # Absent THEN saved'[y] ELSE target'[y])
                        = (IF saved[y] # Absent THEN saved[y] ELSE target[y])
    BY <1>1, <2>1 DEF TypeOK
  <2>4. Visible' = Visible
    BY <2>2, <2>3 DEF Visible
  <2> QED BY <2>2, <2>4 DEF SameRoot, Recorded
<1>6. CASE Undone
  <2>1. /\ phase = "undo" /\ placed = {} /\ saved = Nothing /\ target' = target
        /\ edits' = edits /\ Return
        /\ owned' = IF retired # Absent THEN [owned EXCEPT ![pkg] = retired] ELSE owned
    BY <1>3, <1>6 DEF Undone
  <2>2. Visible = target
    BY <1>1, <2>1 DEF Visible, Nothing, TypeOK
  <2>3. Visible' = target' /\ Recorded' = owned'
    BY <1>1, <2>1, ReturnClears, RootWhenIdle DEF Recorded
  <2> QED BY <2>1, <2>2, <2>3 DEF SameRoot, Recorded
<1> QED BY <1>2, <1>4, <1>5, <1>6

(* What RootInv says of every state, sound or not.                               *)
Books ==
  /\ TypeOK
  /\ phase = "idle" => retired = Absent
  /\ phase = "undo" => faults >= 1
  /\ retired # Absent => phase \in {"discard", "undo"} /\ owned[pkg] = Absent
  /\ new # Absent => PackageOf[new] = pkg
  /\ phase # "idle" /\ new = Absent => Recorded[pkg] # Absent

LEMMA BooksKept ==
  ASSUME RootInv, [Next]_vars
  PROVE  Books'
<1>1. TypeOK /\ TypeOK' /\ Books
  BY NextTypes DEF RootInv, Books
<1>2. CASE InstallPayload \/ Remove
  BY <1>2, BeginRoot DEF RootInv, Books
<1>3. CASE Save \/ Saved \/ Place
  BY <1>1, <1>3 DEF Save, Saved, Place, disk, Books, Recorded
<1>4. CASE Retire
  BY <1>1, <1>4, StoreAssumption DEF Retire, Books, Recorded, TypeOK
<1>5. CASE Error
  BY <1>1, <1>5 DEF Error, Fail, Spend, disk, Books, Recorded, TypeOK
<1>6. CASE Unplace \/ Restore
  BY <1>1, <1>6 DEF Unplace, Restore, Spend, Books, Recorded, TypeOK
<1>7. CASE Own \/ Discard \/ Undone \/ Kill
  BY <1>1, <1>7, ReturnClears DEF Own, Discard, Undone, Kill, Books
<1>8. CASE UserWrite \/ UNCHANGED vars
  BY <1>1, <1>8 DEF UserWrite, vars, disk, operation, Books, Recorded
<1> QED BY <1>2, <1>3, <1>4, <1>5, <1>6, <1>7, <1>8 DEF Next

(* Every step of the store that stays sound is a step of LiveRoot or none.       *)
LEMMA NextRoot ==
  ASSUME ~EditsAnytime, RootInv, [Next]_vars, Sound'
  PROVE  Root!Next \/ UNCHANGED Root!vars
<1>1. TypeOK /\ TypeOK' /\ Sound
  BY NextTypes, SoundBefore DEF RootInv
<1>2. CASE InstallPayload \/ Remove
  BY <1>2, BeginRoot, SameRootStutters
<1>3. CASE Save \/ Saved \/ Place \/ Retire
  BY <1>1, <1>3, SaveRoot, SavedRoot, PlaceRoot, RetireRoot, SameRootStutters
<1>4. CASE Own
  <2>1. new \in Release
    BY <1>1, <1>4 DEF Own, TypeOK
  <2> QED BY <1>1, <1>4, <2>1, OwnDeploys DEF Root!Next
<1>5. CASE Discard
  <2>1. pkg \in Package
    BY <1>1, <1>5 DEF Discard, TypeOK
  <2> QED BY <1>1, <1>5, <2>1, DiscardRemoves DEF Root!Next
<1>6. CASE Error \/ Unplace \/ Restore \/ Undone
  BY <1>6, UndoRoot, SameRootStutters
<1>7. CASE Kill
  BY <1>1, <1>7 DEF Kill, Sound, TypeOK
<1>8. CASE UserWrite
  <2>1. PICK x \in Path, c \in Edited \cup {Absent} : target' = [target EXCEPT ![x] = c]
    BY <1>8 DEF UserWrite
  <2>2. /\ phase = "idle" /\ phase' = "idle" /\ edits' = edits + 1 /\ owned' = owned
        /\ retired' = retired /\ pkg' = pkg
    BY <1>8 DEF UserWrite, operation
  <2>3. Visible' = [Visible EXCEPT ![x] = c] /\ Recorded' = Recorded
    BY <1>1, <2>1, <2>2, RootTypes, RootWhenIdle DEF Recorded
  <2>4. Root!Edit(x, c)
    BY <2>2, <2>3 DEF Root!Edit
  <2> QED BY <2>4 DEF Root!Next
<1>9. CASE UNCHANGED vars
  BY <1>9 DEF vars, disk, operation, Root!vars, Recorded, Visible
<1> QED BY <1>2, <1>3, <1>4, <1>5, <1>6, <1>7, <1>8, <1>9 DEF Next

LEMMA RootInvKept == ~EditsAnytime /\ RootInv /\ [Next]_vars => RootInv'
<1> SUFFICES ASSUME ~EditsAnytime, RootInv, [Next]_vars PROVE RootInv'
  OBVIOUS
<1>1. Books' /\ TypeOK /\ TypeOK'
  BY BooksKept DEF Books, RootInv
<1>2. CASE ~Sound'
  BY <1>1, <1>2 DEF Books, RootInv
<1>3. CASE Sound'
  <2>1. Sound
    BY <1>1, <1>3, SoundBefore
  <2>2. Root!Receipts'
    BY <1>1, <1>3, <2>1, NextRoot, RootKeepsReceipts DEF RootInv
  <2>3. CASE phase' \in {"idle", "undo"}
    BY <1>1, <2>2, <2>3 DEF Books, RootInv
  <2>4. CASE InstallPayload \/ Remove \/ Save \/ Saved \/ Place \/ Retire
    BY <2>1, <2>4, BeginRoot, SaveRoot, SavedRoot, PlaceRoot, RetireRoot
  <2>5. CASE Own \/ Discard \/ Undone \/ Kill
    BY <2>3, <2>5, ReturnClears DEF Own, Discard, Undone, Kill
  <2>6. CASE Error \/ Unplace \/ Restore
    BY <2>3, <2>6 DEF Error, Fail, Unplace, Restore
  <2>7. CASE UserWrite
    BY <2>3, <2>7 DEF UserWrite, operation
  <2>8. CASE UNCHANGED vars
    <3>1. /\ target' = target /\ owned' = owned /\ phase' = phase /\ pkg' = pkg /\ new' = new
          /\ todo' = todo /\ saved' = saved /\ placed' = placed /\ retired' = retired
          /\ faults' = faults /\ kills' = kills /\ edits' = edits
      BY <2>8 DEF vars, disk, operation
    <3>2. SameRoot
      BY <3>1 DEF SameRoot, Recorded, Visible
    <3>3. InTheWay' = InTheWay
      BY <3>1, <3>2 DEF SameRoot, InTheWay, Root!OldFiles, Root!Files, Files
    <3>4. Progress => Progress'
      BY <3>1, <3>3 DEF Progress, Files
    <3> QED BY <1>1, <2>3, <3>1, <3>2, <3>4, OnTheWay DEF RootInv, Unharmed
  <2> QED BY <2>3, <2>4, <2>5, <2>6, <2>7, <2>8 DEF Next
<1> QED BY <1>2, <1>3

LEMMA InitRoot == Init => RootInv /\ Root!Init
<1> SUFFICES ASSUME Init PROVE RootInv /\ Root!Init
  OBVIOUS
<1>1. TypeOK
  BY InitTypes
<1>2. /\ target \in [Path -> Edited \cup {Absent}] /\ owned = [p \in Package |-> Absent]
      /\ phase = "idle" /\ new = Absent /\ retired = Absent /\ edits = 0
  BY DEF Init
<1>3. Recorded = owned /\ Visible = target
  BY <1>1, <1>2, RootTypes DEF Recorded
<1>4. Root!Init
  BY <1>2, <1>3 DEF Root!Init
<1>5. Root!Receipts
  <2>1. \A p \in Package : Recorded[p] = Absent
    BY <1>2, <1>3
  <2>2. \A x \in Path : Visible[x] \notin Content \ Edited
    BY <1>2, <1>3, StoreAssumption
  <2> QED BY <2>1, <2>2 DEF Root!Receipts, Root!OldFiles
<1> QED BY <1>1, <1>2, <1>4, <1>5 DEF RootInv

(* The invariant of the refinement holds for every set of packages and payloads, *)
(* while users write only between operations.                                    *)
THEOREM StoreFollowsRoot ==
  ASSUME ~EditsAnytime
  PROVE  Spec => []RootInv
<1>1. Init => RootInv
  BY InitRoot
<1>2. RootInv /\ [Next]_vars => RootInv'
  BY RootInvKept
<1> QED BY <1>1, <1>2, PTL DEF Spec

(* Installs, updates and removals take effect as a whole or not at all, through  *)
(* one failed system call wherever it is (install_payload and remove,            *)
(* binary.rs 882, 1045).                                                         *)
THEOREM StoreIsAtomic ==
  ASSUME ~EditsAnytime
  PROVE  Spec => AtomicOnTarget
<1>1. Init => Root!Init
  BY InitRoot
<1>2. RootInv /\ [Next]_vars => [Sound' => Root!Next \/ UNCHANGED Root!vars]_vars
  BY NextRoot
<1> QED BY <1>1, <1>2, StoreFollowsRoot, PTL DEF Spec, AtomicOnTarget

(* No two packages own a path (validate_targets, binary.rs 1107).                *)
THEOREM StoreOwnsExclusively ==
  ASSUME ~EditsAnytime
  PROVE  Spec => []ExclusivePaths
<1>1. RootInv => ExclusivePaths
  <2> SUFFICES ASSUME RootInv, edits = 0, Sound, NEW p \in Package, NEW q \in Package, p # q
               PROVE  OldFiles(p) \cap OldFiles(q) = {}
    BY DEF ExclusivePaths
  <2>1. Root!OldFiles(p) \cap Root!OldFiles(q) = {}
    BY DEF RootInv, Root!Receipts
  <2>2. \A s \in Package : OldFiles(s) \subseteq Root!OldFiles(s)
    BY DEF RootInv, Recorded, TypeOK, OldFiles, Files, Root!OldFiles, Root!Files
  <2> QED BY <2>1, <2>2
<1> QED BY <1>1, StoreFollowsRoot, PTL

(* Between operations the ownership receipts describe the target root, which is  *)
(* what the package service recovers from (binary.rs 1007).                      *)
THEOREM StoreReceiptsDescribe ==
  ASSUME ~EditsAnytime
  PROVE  Spec => []ReceiptsDescribeTarget
<1>1. RootInv => ReceiptsDescribeTarget
  <2> SUFFICES ASSUME RootInv, phase = "idle", edits = 0, Sound
               PROVE  /\ \A p \in Package : \A x \in OldFiles(p) : target[x] = Payload[owned[p]][x]
                      /\ \A x \in Path : target[x] \in Content \ Edited =>
                           \E p \in Package : owned[p] # Absent /\ Payload[owned[p]][x] = target[x]
    BY DEF ReceiptsDescribeTarget
  <2>1. Recorded = owned /\ Visible = target
    BY RootTypes DEF RootInv, Recorded
  <2>2. \A p \in Package : OldFiles(p) = Root!OldFiles(p)
    BY <2>1 DEF OldFiles, Files, Root!OldFiles, Root!Files
  <2>3. Root!Receipts
    BY DEF RootInv
  <2> QED BY <2>1, <2>2, <2>3 DEF Root!Receipts
<1> QED BY <1>1, StoreFollowsRoot, PTL
=============================================================================
