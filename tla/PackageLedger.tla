---------------------------- MODULE PackageLedger ----------------------------
(***************************************************************************)
(* corinth's PackageLedger: an image of the installed packages that is     *)
(* changed by optimistic transactions and by rollback.  Clients hold       *)
(* authorities (a generation number and a digest of the image) and         *)
(* transactions that they opened with one; both are plain copies that may  *)
(* be used late, again, or never.  The image may be saved as a durable     *)
(* generation, and a restart restores the ledger from the last one.        *)
(***************************************************************************)
EXTENDS Naturals, Sequences, FiniteSets

CONSTANTS
  Client,
  PackageName,        \* package names, by their hashes
  PackageVersion,     \* version indexes: positive
  Builtin,            \* name -> the version the built-in catalog has
  Digest(_),          \* installed_state_digest: 64 bits, so images may collide
  NoTransaction,      \* no authority, no transaction
  MaxInstalled,       \* MAX_INSTALLED_PACKAGES
  MaxRollbackDepth,   \* MAX_ROLLBACK_DEPTH
  MaxGeneration       \* bound: the largest generation number, u64::MAX in the code

(* An image gives each package its version, 0 if it is not installed. *)
Contents(i) == {n \in PackageName : i[n] # 0}
PackageImage == {i \in [PackageName -> PackageVersion \cup {0}] : Cardinality(Contents(i)) <= MaxInstalled}

ASSUME LedgerAssumption ==
  /\ IsFiniteSet(PackageName)
  /\ PackageVersion \subseteq Nat \ {0}
  /\ Builtin \in [PackageName -> PackageVersion]
  /\ MaxInstalled \in Nat \ {0} /\ MaxRollbackDepth \in Nat \ {0} /\ MaxGeneration \in Nat

VARIABLES
  image,         \* packages[..count]
  generation,
  checkpoints,   \* rollback[..rollback_count]
  held,          \* client -> the authority it copied, or none
  txn,           \* client -> its transaction, or none
  saved          \* the generation image that a restart decodes

ledgerVars == <<image, generation, checkpoints, held, txn, saved>>
ledger == <<image, generation, checkpoints>>

NoPackages == [n \in PackageName |-> 0]

Authority == [generation |-> generation, digest |-> Digest(image)]

LedgerInit ==
  /\ image = NoPackages /\ generation = 0 /\ checkpoints = << >>
  /\ held = [c \in Client |-> NoTransaction]
  /\ txn = [c \in Client |-> NoTransaction]
  /\ saved = [generation |-> 0, image |-> NoPackages]

(* A client copies the authority, from the ledger or from a receipt of its own. *)
Read(c) ==
  /\ held' = [held EXCEPT ![c] = Authority]
  /\ UNCHANGED <<ledger, txn, saved>>

(* ---- transactions ---- *)

(* begin: a stale authority opens nothing. *)
Begin(c) ==
  /\ held[c] = Authority
  /\ txn' = [txn EXCEPT ![c] =
       [base |-> Authority, image |-> image, touched |-> {}, sealed |-> FALSE]]
  /\ UNCHANGED <<ledger, held, saved>>

(* prepare_intent and record_intent: one intent for a name, none once sealed. *)
Intend(c, n, v) ==
  /\ ~txn[c].sealed
  /\ n \notin txn[c].touched
  /\ txn' = [txn EXCEPT ![c].image[n] = v, ![c].touched = @ \cup {n}]
  /\ UNCHANGED <<ledger, held, saved>>

(* Mutant of Room: the full table is found one package late.                    *)
RoomAtLimit(i) == Cardinality(Contents(i)) <= MaxInstalled

Room(i) == Cardinality(Contents(i)) < MaxInstalled

Install(c, n, v) ==
  /\ txn[c] # NoTransaction
  /\ txn[c].image[n] = 0 /\ Room(txn[c].image)
  /\ Intend(c, n, v)

RemovePackage(c, n) ==
  /\ txn[c] # NoTransaction
  /\ txn[c].image[n] # 0
  /\ Intend(c, n, 0)

Upgrade(c, n, v) ==
  /\ txn[c] # NoTransaction
  /\ txn[c].image[n] # 0
  /\ Intend(c, n, v)

(* reconcile_selection: the image becomes what the resolver selected, which has *)
(* one version for a name and fits.                                             *)
Reconcile(c, selection) ==
  /\ txn[c] # NoTransaction
  /\ ~txn[c].sealed /\ txn[c].touched = {}
  /\ txn' = [txn EXCEPT ![c].image = selection, ![c].sealed = TRUE]
  /\ UNCHANGED <<ledger, held, saved>>

(* Mutant of Pushed: a full history drops the latest checkpoint, not the oldest. *)
PushedOverLatest ==
  LET kept == IF Len(checkpoints) = MaxRollbackDepth
                THEN SubSeq(checkpoints, 1, MaxRollbackDepth - 1) ELSE checkpoints
  IN  Append(kept, [image |-> image, generation |-> generation, digest |-> Digest(image)])

(* Mutant of Pushed: the checkpoint is made after the generation was raised.    *)
PushedAfterwards ==
  LET kept == IF Len(checkpoints) = MaxRollbackDepth THEN Tail(checkpoints) ELSE checkpoints
  IN  Append(kept, [image |-> image, generation |-> generation + 1, digest |-> Digest(image)])

(* push_checkpoint *)
Pushed ==
  LET kept == IF Len(checkpoints) = MaxRollbackDepth THEN Tail(checkpoints) ELSE checkpoints
  IN  Append(kept, [image |-> image, generation |-> generation, digest |-> Digest(image)])

PublishImage(new) ==
  /\ new # image
  /\ generation < MaxGeneration
  /\ checkpoints' = Pushed
  /\ image' = new
  /\ generation' = generation + 1

(* Mutant of Current: the digest alone vouches for the state.                   *)
CurrentByDigest(t) == t.base.digest = Digest(image)

Current(t) == t.base = Authority

(* commit: an image without a change is accepted and changes nothing. *)
Commit(c) ==
  /\ txn[c] # NoTransaction
  /\ Current(txn[c])
  /\ PublishImage(txn[c].image)
  /\ UNCHANGED <<held, txn, saved>>

(* ---- rollback ---- *)

Top == checkpoints[Len(checkpoints)]

(* The checkpoint must be older than the ledger and intact. *)
Usable(k) == k.generation < generation /\ k.digest = Digest(k.image)

(* Mutant of Renumbered: a rollback also restores the generation number.        *)
RenumberedAsBefore == generation' = Top.generation

Renumbered == generation < MaxGeneration /\ generation' = generation + 1

LedgerRollback(c) ==
  /\ held[c] = Authority
  /\ checkpoints # << >>
  /\ Usable(Top)
  /\ image' = Top.image
  /\ Renumbered
  /\ checkpoints' = SubSeq(checkpoints, 1, Len(checkpoints) - 1)
  /\ UNCHANGED <<held, txn, saved>>

(* ---- commands of the shell: begin, one intent and commit in one call ---- *)

ExecuteCommand(n, v) ==
  /\ PublishImage([image EXCEPT ![n] = v])
  /\ UNCHANGED <<held, txn, saved>>

InstallCommand(n) == image[n] = 0 /\ Room(image) /\ ExecuteCommand(n, Builtin[n])
RemoveCommand(n) == image[n] # 0 /\ ExecuteCommand(n, 0)
UpdateCommand(n) == image[n] # 0 /\ Builtin[n] > image[n] /\ ExecuteCommand(n, Builtin[n])

(* ---- durable generations ---- *)

(* GenerationImage::from_ledger, encoded and stored. *)
Save ==
  /\ saved' = [generation |-> generation, image |-> image]
  /\ UNCHANGED <<ledger, held, txn>>

(* restore_ledger: no rollback history; what clients held is gone. *)
Restart ==
  /\ saved.generation = 0 => saved.image = NoPackages
  /\ image' = saved.image
  /\ generation' = saved.generation
  /\ checkpoints' = << >>
  /\ held' = [c \in Client |-> NoTransaction]
  /\ txn' = [c \in Client |-> NoTransaction]
  /\ UNCHANGED saved

LedgerNext ==
  \/ \E c \in Client :
       \/ Read(c)
       \/ Begin(c)
       \/ \E n \in PackageName : \E v \in PackageVersion : Install(c, n, v)
       \/ \E n \in PackageName : RemovePackage(c, n)
       \/ \E n \in PackageName : \E v \in PackageVersion : Upgrade(c, n, v)
       \/ \E selection \in PackageImage : Reconcile(c, selection)
       \/ Commit(c)
       \/ LedgerRollback(c)
  \/ \E n \in PackageName : InstallCommand(n)
  \/ \E n \in PackageName : RemoveCommand(n)
  \/ \E n \in PackageName : UpdateCommand(n)
  \/ Save
  \/ Restart

LedgerSpec == LedgerInit /\ [][LedgerNext]_ledgerVars

-----------------------------------------------------------------------------
(* Correctness *)

AuthorityRecord == [generation : Nat, digest : {Digest(i) : i \in PackageImage}]
LedgerTransaction ==
  [base : AuthorityRecord, image : PackageImage, touched : SUBSET PackageName, sealed : BOOLEAN]
Checkpoint == [image : PackageImage, generation : Nat, digest : {Digest(i) : i \in PackageImage}]

LedgerTypeOK ==
  /\ image \in PackageImage /\ generation \in Nat
  /\ checkpoints \in Seq(Checkpoint) /\ Len(checkpoints) <= MaxRollbackDepth
  /\ held \in [Client -> AuthorityRecord \cup {NoTransaction}]
  /\ txn \in [Client -> LedgerTransaction \cup {NoTransaction}]
  /\ saved \in [generation : Nat, image : PackageImage]

(* No lost update: what a transaction did not touch is in its image as it is in *)
(* the ledger whenever its commit would be accepted, however many commits,      *)
(* commands, rollbacks and colliding digests came in between (pkg.rs 158: an    *)
(* authority "cannot authorize a mutation of a different package state").       *)
NoLostUpdate ==
  \A c \in Client :
    LET t == txn[c] IN
    t # NoTransaction /\ Current(t) /\ ~t.sealed =>
      \A n \in PackageName \ t.touched : t.image[n] = image[n]

(* The names that a transaction may note in touched_names, an array of           *)
(* MAX_TRANSACTION_INTENTS = 2 * MAX_INSTALLED_PACKAGES entries, always fit:     *)
(* record_intent does not look.                                                  *)
IntentsFit ==
  \A c \in Client : txn[c] # NoTransaction => Cardinality(txn[c].touched) <= 2 * MaxInstalled

(* A rollback is refused only for want of history: a checkpoint is never found  *)
(* stale or corrupt, and each one is of its own, earlier generation.            *)
HistoryUsable ==
  \A i \in DOMAIN checkpoints :
    /\ Usable(checkpoints[i])
    /\ \A j \in DOMAIN checkpoints :
         i < j => checkpoints[i].generation < checkpoints[j].generation

(* Rollbacks undo the last MAX_ROLLBACK_DEPTH changes, exactly and in reverse order.      *)
Undoing ==
  INSTANCE UndoHistory WITH
    Image <- PackageImage,
    Empty <- NoPackages,
    Depth <- MaxRollbackDepth,
    past <- [i \in DOMAIN checkpoints |-> checkpoints[i].image],
    saved <- saved.image

UndoesExactly == Undoing!Spec

(* The inductive invariant.  What a transaction removed or left alone was there  *)
(* when it began, so there is not more of it than fits.                          *)
Inherited(t) == (t.touched \ Contents(t.image)) \cup (Contents(t.image) \ t.touched)

LedgerInv ==
  /\ LedgerTypeOK
  /\ HistoryUsable
  /\ saved.generation <= generation
  /\ \A c \in Client : held[c] # NoTransaction => held[c].generation <= generation
  /\ \A c \in Client : txn[c] # NoTransaction => txn[c].base.generation <= generation
  /\ \A c \in Client :
       txn[c] # NoTransaction /\ txn[c].base.generation = generation /\ ~txn[c].sealed =>
         \A n \in PackageName \ txn[c].touched : txn[c].image[n] = image[n]
  /\ \A c \in Client : txn[c] # NoTransaction =>
       /\ txn[c].sealed => txn[c].touched = {}
       /\ Cardinality(Inherited(txn[c])) <= MaxInstalled
=============================================================================
