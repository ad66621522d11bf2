------------------------- MODULE BinaryInstallStore -------------------------
(***************************************************************************)
(* corinth's BinaryInstallStore: install_payload and remove on a live      *)
(* target root.  Every file is moved by a rename of its own: first the     *)
(* files in the way go to a backup directory, then the staged files take   *)
(* their places, then the ownership receipt is written.  An error undoes   *)
(* the renames as far as they got, best effort, and then deletes the       *)
(* backup directory.  There is no journal and no lock at this level.       *)
(*                                                                         *)
(* A process that dies leaves what it had moved where it was; nobody ever  *)
(* looks at its backup directory again.                                    *)
(***************************************************************************)
EXTENDS Naturals

CONSTANTS
  Package, Release, Path, Content, Edited, Absent, PackageOf, Payload,
  MaxFaults,     \* bound: failed system calls
  MaxKills,      \* bound: processes killed
  MaxEdits,      \* bound: files written or deleted by users
  EditsAnytime   \* do users also write while an operation runs?

ASSUME StoreAssumption ==
  /\ Absent \notin Package
  /\ Edited \subseteq Content
  /\ Absent \notin Content /\ Absent \notin Release
  /\ PackageOf \in [Release -> Package]
  /\ Payload \in [Release -> [Path -> (Content \ Edited) \cup {Absent}]]
  /\ MaxFaults \in Nat /\ MaxKills \in Nat /\ MaxEdits \in Nat
  /\ EditsAnytime \in BOOLEAN

VARIABLES
  target,    \* path -> what the target root holds there, or Absent
  owned,     \* package -> the release in binary-installed/P.toml, or Absent
  phase,     \* what the running operation does next
  pkg,       \* the package it is about, or Absent
  new,       \* the release it installs, or Absent: a removal
  todo,      \* paths it still has to move away, or to put in place
  saved,     \* path -> what it moved to its backup directory, or Absent
  placed,    \* paths where it put a staged file
  retired,   \* the receipt it renamed away, or Absent
  faults, kills, edits

disk == <<target, owned>>
operation == <<phase, pkg, new, todo, saved, placed, retired>>
vars == <<disk, operation, faults, kills, edits>>

Phases == {"idle", "save", "place", "discard", "undo"}

Nothing == [x \in Path |-> Absent]

Files(r) == {x \in Path : Payload[r][x] # Absent}
OldFiles(p) == IF owned[p] = Absent THEN {} ELSE Files(owned[p])

Spend == faults < MaxFaults /\ faults' = faults + 1

Init ==
  /\ target \in [Path -> Edited \cup {Absent}]
  /\ owned = [p \in Package |-> Absent]
  /\ phase = "idle" /\ pkg = Absent /\ new = Absent /\ todo = {}
  /\ saved = Nothing /\ placed = {} /\ retired = Absent
  /\ faults = 0 /\ kills = 0 /\ edits = 0

(* ---- validate_targets, and the same loop in remove ---- *)

(* Mutant of Unmodified: only the existence of the old files is checked.       *)
Unchecked(p) == TRUE

(* Old files that are there still have the digest of the receipt. *)
Unmodified(p) == \A x \in OldFiles(p) : target[x] \in {Absent, Payload[owned[p]][x]}

(* Mutant of Unclaimed: any file may be overwritten once something is replaced.*)
UnclaimedUnlessReplacing(p, r) ==
  owned[p] = Absent => \A x \in Files(r) : target[x] = Absent

(* New files take the place of old files of the same package, or of nothing. *)
Unclaimed(p, r) == \A x \in Files(r) \ OldFiles(p) : target[x] = Absent

Begin(p, r) ==
  /\ phase = "idle"
  /\ Unmodified(p)
  /\ phase' = "save"
  /\ pkg' = p
  /\ new' = r
  /\ UNCHANGED <<disk, saved, placed, retired, faults, kills, edits>>

(* install_payload, with replace exactly when the package is owned. *)
InstallPayload ==
  \E r \in Release :
    LET p == PackageOf[r] IN
    /\ Unclaimed(p, r)
    /\ Begin(p, r)
    /\ todo' = OldFiles(p) \cup Files(r)

Remove ==
  \E p \in Package :
    /\ owned[p] # Absent
    /\ Begin(p, Absent)
    /\ todo' = OldFiles(p)

(* The closure returned an error: rollback begins. *)
Fail ==
  /\ Spend
  /\ phase' = "undo"
  /\ UNCHANGED <<disk, pkg, new, todo, saved, placed, retired, kills, edits>>

(* ---- the operation ---- *)

(* A file that is in the way, or is to be removed, moves to the backup. *)
Save ==
  /\ phase = "save"
  /\ \E x \in todo :
       /\ todo' = todo \ {x}
       /\ saved' = [saved EXCEPT ![x] = target[x]]
       /\ target' = [target EXCEPT ![x] = Absent]
  /\ UNCHANGED <<owned, phase, pkg, new, placed, retired, faults, kills, edits>>

Saved ==
  /\ phase = "save" /\ todo = {}
  /\ new # Absent
  /\ phase' = "place"
  /\ todo' = Files(new)
  /\ UNCHANGED <<disk, pkg, new, saved, placed, retired, faults, kills, edits>>

(* rename replaces whatever is at the target. *)
Place ==
  /\ phase = "place"
  /\ \E x \in todo :
       /\ todo' = todo \ {x}
       /\ placed' = placed \cup {x}
       /\ target' = [target EXCEPT ![x] = Payload[new][x]]
  /\ UNCHANGED <<owned, phase, pkg, new, saved, retired, faults, kills, edits>>

(* The operation returns: its backup directory is deleted with what is in it. *)
Return ==
  /\ phase' = "idle"
  /\ pkg' = Absent /\ new' = Absent /\ todo' = {}
  /\ saved' = Nothing /\ placed' = {} /\ retired' = Absent

(* write_receipt commits an install. *)
Own ==
  /\ phase = "place" /\ todo = {}
  /\ owned' = [owned EXCEPT ![pkg] = new]
  /\ Return
  /\ UNCHANGED <<target, faults, kills, edits>>

(* remove renames the receipt away first ... *)
Retire ==
  /\ phase = "save" /\ todo = {}
  /\ new = Absent
  /\ phase' = "discard"
  /\ retired' = owned[pkg]
  /\ owned' = [owned EXCEPT ![pkg] = Absent]
  /\ UNCHANGED <<target, pkg, new, todo, saved, placed, faults, kills, edits>>

(* ... and unlinks it, which commits the removal. *)
Discard ==
  /\ phase = "discard"
  /\ Return
  /\ UNCHANGED <<disk, faults, kills, edits>>

(* Any system call of the operation may fail. *)
Error == phase \in {"save", "place", "discard"} /\ Fail

(* ---- rollback_files, and the same loop in remove ---- *)

(* Staged files are unlinked first; an unlink that fails is ignored. *)
Unplace ==
  /\ phase = "undo"
  /\ \E x \in placed :
       /\ placed' = placed \ {x}
       /\ \/ target' = [target EXCEPT ![x] = Absent] /\ UNCHANGED faults
          \/ UNCHANGED target /\ Spend
  /\ UNCHANGED <<owned, phase, pkg, new, todo, saved, retired, kills, edits>>

(* Mutant of Restore: the backups return before the staged files are gone.     *)
RestoreFirst ==
  /\ phase = "undo"
  /\ \E x \in {y \in Path : saved[y] # Absent} :
       /\ saved' = [saved EXCEPT ![x] = Absent]
       /\ \/ target' = [target EXCEPT ![x] = saved[x]] /\ UNCHANGED faults
          \/ UNCHANGED target /\ Spend
  /\ UNCHANGED <<owned, phase, pkg, new, todo, placed, retired, kills, edits>>

(* Then the backups return; one that cannot be renamed is deleted with its      *)
(* directory in the end.                                                        *)
Restore ==
  /\ phase = "undo" /\ placed = {}
  /\ \E x \in {y \in Path : saved[y] # Absent} :
       /\ saved' = [saved EXCEPT ![x] = Absent]
       /\ \/ target' = [target EXCEPT ![x] = saved[x]] /\ UNCHANGED faults
          \/ UNCHANGED target /\ Spend
  /\ UNCHANGED <<owned, phase, pkg, new, todo, placed, retired, kills, edits>>

(* Mutant of Undone: the retired receipt is not renamed back.                   *)
UndoneWithoutReceipt ==
  /\ phase = "undo" /\ placed = {} /\ saved = Nothing
  /\ Return
  /\ UNCHANGED <<owned, faults, target, kills, edits>>

(* A removal renames its retired receipt back, if it can. *)
Undone ==
  /\ phase = "undo" /\ placed = {} /\ saved = Nothing
  /\ \/ /\ owned' = IF retired # Absent THEN [owned EXCEPT ![pkg] = retired] ELSE owned
        /\ UNCHANGED faults
     \/ retired # Absent /\ UNCHANGED owned /\ Spend
  /\ Return
  /\ UNCHANGED <<target, kills, edits>>

(* ---- the environment ---- *)

Kill ==
  /\ phase # "idle"
  /\ kills < MaxKills
  /\ kills' = kills + 1
  /\ Return
  /\ UNCHANGED <<disk, faults, edits>>

UserWrite ==
  /\ EditsAnytime \/ phase = "idle"
  /\ edits < MaxEdits
  /\ edits' = edits + 1
  /\ \E x \in Path : \E c \in Edited \cup {Absent} : target' = [target EXCEPT ![x] = c]
  /\ UNCHANGED <<owned, operation, faults, kills>>

Next ==
  \/ InstallPayload
  \/ Remove
  \/ Save
  \/ Saved
  \/ Place
  \/ Own
  \/ Retire
  \/ Discard
  \/ Error
  \/ Unplace
  \/ Restore
  \/ Undone
  \/ Kill
  \/ UserWrite

Spec == Init /\ [][Next]_vars

-----------------------------------------------------------------------------
(* Correctness *)

TypeOK ==
  /\ target \in [Path -> Content \cup {Absent}]
  /\ owned \in [Package -> Release \cup {Absent}]
  /\ phase \in Phases /\ pkg \in Package \cup {Absent} /\ new \in Release \cup {Absent}
  /\ todo \in SUBSET Path /\ placed \in SUBSET Path
  /\ saved \in [Path -> Content \cup {Absent}]
  /\ retired \in Release \cup {Absent}
  /\ faults \in Nat /\ kills \in Nat /\ edits \in Nat
  /\ phase = "idle" => pkg = Absent /\ new = Absent /\ saved = Nothing /\ placed = {}
  /\ phase # "idle" => pkg \in Package
  /\ phase = "place" => new # Absent

(* What the store can promise holds while no process was killed and at most one  *)
(* system call failed: a second failure may be one that the rollback ignores.    *)
Sound == faults <= 1 /\ kills = 0

(* Between operations, and while users leave the files alone, the target root   *)
(* holds the files of every owned package and no other file that an install     *)
(* brought: the ownership receipts are "the authoritative view of target-root   *)
(* state" (binary.rs 1007) that the package service recovers from.              *)
ReceiptsDescribeTarget ==
  phase = "idle" /\ edits = 0 /\ Sound =>
    /\ \A p \in Package : \A x \in OldFiles(p) : target[x] = Payload[owned[p]][x]
    /\ \A x \in Path : target[x] \in Content \ Edited =>
         \E p \in Package : owned[p] # Absent /\ Payload[owned[p]][x] = target[x]

(* No two packages own a path, so that the removal of one never takes a file    *)
(* of another, as long as nothing deletes files behind the receipts: no user,    *)
(* and no kill or second failure that loses a file.                             *)
ExclusivePaths ==
  edits = 0 /\ Sound => \A p, q \in Package : p # q => OldFiles(p) \cap OldFiles(q) = {}

(* "update can replace only files still owned and unmodified by that package;   *)
(* remove refuses to delete a modified file" (BINARY_REPOSITORY.md 116): what a *)
(* user wrote stays until a user changes it, also through rollbacks and kills.  *)
UserFilesKept ==
  [][\A x \in Path :
       target[x] \in Edited /\ target'[x] # target[x] => edits' # edits]_vars

(* The operations take effect as a whole or not at all.  Until an operation     *)
(* commits, what it moved away counts as still there, what it put in place as   *)
(* not there yet, and a retired receipt as not removed: seen like that, every   *)
(* step is one of LiveRoot or none.                                             *)
Visible ==
  [x \in Path |->
     IF saved[x] # Absent THEN saved[x] ELSE IF x \in placed THEN Absent ELSE target[x]]
Recorded == IF retired # Absent THEN [owned EXCEPT ![pkg] = retired] ELSE owned

Root == INSTANCE LiveRoot WITH owned <- Recorded, files <- Visible

AtomicOnTarget ==
  Root!Init /\ [][Sound' => Root!Next \/ UNCHANGED Root!vars]_vars

-----------------------------------------------------------------------------
(* The inductive invariant behind UserFilesKept, for users who write only        *)
(* between operations: the running operation has in hand no path with a file of  *)
(* a user, and has saved none.                                                   *)

InHand ==
  todo \cup placed \cup {x \in Path : saved[x] # Absent}
    \cup IF new = Absent THEN {} ELSE Files(new)

KeptInv ==
  /\ TypeOK
  /\ phase # "idle" =>
       \A x \in Path :
         /\ x \in InHand => target[x] \notin Edited
         /\ saved[x] \notin Edited

(* The inductive invariant behind AtomicOnTarget, ExclusivePaths and             *)
(* ReceiptsDescribeTarget, for the same users: how far the running operation is. *)
(* InTheWay are the paths it has to empty; while it may still commit, they look  *)
(* to LiveRoot as they did when validate_targets read them.                      *)

InTheWay == Root!OldFiles(pkg) \cup IF new = Absent THEN {} ELSE Files(new)

Unharmed ==
  /\ Root!Unmodified(pkg)
  /\ new # Absent => \A x \in Files(new) \ Root!OldFiles(pkg) : Visible[x] = Absent
  /\ \A x \in Path : saved[x] # Absent => x \in InTheWay

Progress ==
  /\ phase = "save" =>
       /\ placed = {} /\ todo \subseteq InTheWay
       /\ \A x \in todo : saved[x] = Absent
       /\ \A x \in InTheWay \ todo : target[x] = Absent
  /\ phase = "place" =>
       /\ placed \cup todo = Files(new) /\ placed \cap todo = {}
       /\ \A x \in InTheWay \ placed : target[x] = Absent
       /\ \A x \in placed : target[x] = Payload[new][x]
  /\ phase = "discard" =>
       /\ retired # Absent /\ new = Absent /\ placed = {}
       /\ \A x \in InTheWay : target[x] = Absent

RootInv ==
  /\ TypeOK
  /\ phase = "idle" => retired = Absent
  /\ phase = "undo" => faults >= 1
  /\ retired # Absent => phase \in {"discard", "undo"} /\ owned[pkg] = Absent
  /\ new # Absent => PackageOf[new] = pkg
  /\ phase # "idle" /\ new = Absent => Recorded[pkg] # Absent
  /\ Sound => Root!Receipts
  /\ Sound /\ phase \notin {"idle", "undo"} => Unharmed /\ Progress
=============================================================================
