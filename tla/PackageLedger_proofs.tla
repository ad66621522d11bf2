------------------------ MODULE PackageLedger_proofs ------------------------
(***************************************************************************)
(* LedgerInv is an inductive invariant of PackageLedger for every digest   *)
(* function, and the ledger implements UndoHistory.                        *)
(***************************************************************************)
EXTENDS PackageLedger, FiniteSetTheorems, SequenceTheorems, TLAPS

-----------------------------------------------------------------------------
(* Images *)

(* A set of installed names is finite. *)
LEMMA ContentsFinite ==
  ASSUME NEW i
  PROVE  IsFiniteSet(Contents(i)) /\ Cardinality(Contents(i)) \in Nat
<1>1. Contents(i) \in SUBSET PackageName
  BY DEF Contents
<1>2. IsFiniteSet(Contents(i))
  BY <1>1, FS_Subset, LedgerAssumption
<1> QED BY <1>2, FS_CardinalityType

(* An image with room takes one more package. *)
LEMMA InstallInImage ==
  ASSUME NEW i \in PackageImage, NEW n \in PackageName, NEW v \in PackageVersion, Room(i)
  PROVE  [i EXCEPT ![n] = v] \in PackageImage
<1> DEFINE j == [i EXCEPT ![n] = v]
<1>1. j \in [PackageName -> PackageVersion \cup {0}]
  BY DEF PackageImage
<1>2. Contents(j) \subseteq Contents(i) \cup {n}
  BY DEF Contents, PackageImage
<1>3. /\ IsFiniteSet(Contents(i) \cup {n})
      /\ Cardinality(Contents(i) \cup {n}) <= Cardinality(Contents(i)) + 1
  <2>1. IsFiniteSet(Contents(i)) /\ Cardinality(Contents(i)) \in Nat
    BY ContentsFinite
  <2>2. /\ IsFiniteSet(Contents(i) \cup {n})
        /\ Cardinality(Contents(i) \cup {n}) =
             IF n \in Contents(i) THEN Cardinality(Contents(i)) ELSE Cardinality(Contents(i)) + 1
    BY <2>1, FS_AddElement
  <2> QED BY <2>1, <2>2
<1>4. Cardinality(Contents(j)) <= Cardinality(Contents(i) \cup {n})
  BY <1>2, <1>3, FS_Subset
<1>5. Cardinality(Contents(j)) <= MaxInstalled
  <2>1. Cardinality(Contents(j)) \in Nat /\ Cardinality(Contents(i)) \in Nat
        /\ Cardinality(Contents(i) \cup {n}) \in Nat
    BY ContentsFinite, <1>3, FS_CardinalityType
  <2> QED BY <2>1, <1>3, <1>4, LedgerAssumption DEF Room
<1> HIDE DEF j
<1> QED BY <1>1, <1>5 DEF PackageImage, j

(* A package that is there may change its version or go. *)
LEMMA ReplaceInImage ==
  ASSUME NEW i \in PackageImage, NEW n \in PackageName, NEW v \in PackageVersion \cup {0}, i[n] # 0
  PROVE  [i EXCEPT ![n] = v] \in PackageImage
<1> DEFINE j == [i EXCEPT ![n] = v]
<1>1. j \in [PackageName -> PackageVersion \cup {0}]
  BY DEF PackageImage
<1>2. Contents(j) \subseteq Contents(i)
  BY DEF Contents, PackageImage
<1>3. Cardinality(Contents(j)) <= Cardinality(Contents(i))
  BY <1>2, ContentsFinite, FS_Subset
<1>4. Cardinality(Contents(j)) <= MaxInstalled
  BY <1>3, ContentsFinite, LedgerAssumption DEF PackageImage
<1> HIDE DEF j
<1> QED BY <1>1, <1>4 DEF PackageImage, j

(* Nothing installed is an image. *)
LEMMA EmptyInImage == NoPackages \in PackageImage
<1>1. Contents(NoPackages) = {}
  BY DEF Contents, NoPackages
<1>2. Cardinality(Contents(NoPackages)) = 0
  BY <1>1, FS_EmptySet
<1>3. NoPackages \in [PackageName -> PackageVersion \cup {0}]
  BY DEF NoPackages
<1> QED BY <1>2, <1>3, LedgerAssumption DEF PackageImage

-----------------------------------------------------------------------------
(* The rollback history *)

LatestCheckpoint == [image |-> image, generation |-> generation, digest |-> Digest(image)]

(* push_checkpoint keeps the last MAX_ROLLBACK_DEPTH - 1 checkpoints and adds the present. *)
LEMMA PushedContents ==
  ASSUME LedgerTypeOK
  PROVE  /\ Pushed \in Seq(Checkpoint)
         /\ Len(Pushed) = IF Len(checkpoints) = MaxRollbackDepth THEN MaxRollbackDepth ELSE Len(checkpoints) + 1
         /\ Pushed[Len(Pushed)] = LatestCheckpoint
         /\ \A k \in 1..(Len(Pushed) - 1) :
              Pushed[k] = IF Len(checkpoints) = MaxRollbackDepth THEN checkpoints[k + 1] ELSE checkpoints[k]
<1> DEFINE full == Len(checkpoints) = MaxRollbackDepth
           kept == IF full THEN Tail(checkpoints) ELSE checkpoints
<1>1. checkpoints \in Seq(Checkpoint) /\ Len(checkpoints) \in Nat
  BY LenProperties DEF LedgerTypeOK
<1>2. LatestCheckpoint \in Checkpoint
  BY DEF LedgerTypeOK, Checkpoint, LatestCheckpoint
<1>3. /\ kept \in Seq(Checkpoint)
      /\ Len(kept) = IF full THEN MaxRollbackDepth - 1 ELSE Len(checkpoints)
      /\ \A k \in 1..Len(kept) : kept[k] = IF full THEN checkpoints[k + 1] ELSE checkpoints[k]
  <2>1. CASE full
    <3>1. checkpoints # << >>
      BY <2>1, EmptySeq, LedgerAssumption
    <3> QED BY <2>1, <3>1, <1>1, HeadTailProperties
  <2>2. CASE ~full
    BY <2>2, <1>1
  <2> QED BY <2>1, <2>2
<1>4. Pushed = Append(kept, LatestCheckpoint)
  BY DEF Pushed, LatestCheckpoint
<1> HIDE DEF kept
<1>5. /\ Pushed \in Seq(Checkpoint)
      /\ Len(Pushed) = Len(kept) + 1
      /\ Pushed[Len(kept) + 1] = LatestCheckpoint
      /\ \A k \in 1..Len(kept) : Pushed[k] = kept[k]
  BY <1>2, <1>3, <1>4, AppendProperties
<1>6. Len(kept) \in Nat
  BY <1>3, LenProperties
<1> QED BY <1>3, <1>5, <1>6, <1>1, LedgerAssumption

(* It makes the history of the next generation. *)
LEMMA PushedUsable ==
  ASSUME LedgerTypeOK, HistoryUsable
  PROVE  /\ Len(Pushed) \in Nat /\ Len(Pushed) <= MaxRollbackDepth /\ DOMAIN Pushed = 1..Len(Pushed)
         /\ \A k \in 1..Len(Pushed) :
              /\ Pushed[k].generation < generation + 1
              /\ Pushed[k].digest = Digest(Pushed[k].image)
         /\ \A k, m \in 1..Len(Pushed) :
              k < m => Pushed[k].generation < Pushed[m].generation
<1>1. /\ generation \in Nat /\ MaxRollbackDepth \in Nat \ {0}
      /\ Len(checkpoints) \in Nat /\ Len(checkpoints) <= MaxRollbackDepth
  BY LenProperties, LedgerAssumption DEF LedgerTypeOK
<1>11. DOMAIN checkpoints = 1..Len(checkpoints)
  BY LenProperties DEF LedgerTypeOK
<1>2. Len(Pushed) \in Nat
  BY PushedContents, LenProperties
<1>10. DOMAIN Pushed = 1..Len(Pushed)
  BY PushedContents, LenProperties
<1>3. Len(Pushed) = IF Len(checkpoints) = MaxRollbackDepth THEN MaxRollbackDepth ELSE Len(checkpoints) + 1
  BY PushedContents
<1> DEFINE At(x) == IF Len(checkpoints) = MaxRollbackDepth THEN x + 1 ELSE x
<1>4. ASSUME NEW k \in 1..Len(Pushed)
      PROVE  \/ k = Len(Pushed) /\ Pushed[k] = LatestCheckpoint
             \/ k < Len(Pushed) /\ At(k) \in DOMAIN checkpoints /\ Pushed[k] = checkpoints[At(k)]
  <2>1. CASE k = Len(Pushed)
    BY <2>1, PushedContents
  <2>2. CASE k # Len(Pushed)
    <3>1. k \in 1..(Len(Pushed) - 1)
      BY <2>2, <1>2
    <3>2. Pushed[k] = checkpoints[At(k)]
      BY <3>1, PushedContents
    <3>4. At(k) \in 1..Len(checkpoints)
      BY <3>1, <1>1, <1>2, <1>3
    <3>3. At(k) \in DOMAIN checkpoints
      BY <3>4, <1>11
    <3> QED BY <3>1, <3>2, <3>3, <1>2
  <2> QED BY <2>1, <2>2
<1>5. ASSUME NEW h \in DOMAIN checkpoints
      PROVE  /\ checkpoints[h].generation \in Nat /\ checkpoints[h].generation < generation
             /\ checkpoints[h].digest = Digest(checkpoints[h].image)
  <2>1. checkpoints[h] \in Checkpoint
    BY <1>11, ElementOfSeq DEF LedgerTypeOK
  <2>2. Usable(checkpoints[h])
    BY DEF HistoryUsable
  <2> QED BY <2>1, <2>2 DEF Usable, Checkpoint
<1>6. /\ LatestCheckpoint.generation = generation
      /\ LatestCheckpoint.digest = Digest(LatestCheckpoint.image)
  BY DEF LatestCheckpoint
<1>7. ASSUME NEW k \in 1..Len(Pushed)
      PROVE  /\ Pushed[k].generation < generation + 1
             /\ Pushed[k].digest = Digest(Pushed[k].image)
  <2>1. CASE Pushed[k] = LatestCheckpoint
    BY <2>1, <1>1, <1>6
  <2>2. CASE At(k) \in DOMAIN checkpoints /\ Pushed[k] = checkpoints[At(k)]
    BY <2>2, <1>1, <1>5
  <2> QED BY <2>1, <2>2, <1>4
<1>8. ASSUME NEW k \in 1..Len(Pushed), NEW m \in 1..Len(Pushed), k < m
      PROVE  Pushed[k].generation < Pushed[m].generation
  <2>1. At(k) \in DOMAIN checkpoints /\ Pushed[k] = checkpoints[At(k)]
    BY <1>2, <1>4, <1>8
  <2>2. CASE Pushed[m] = LatestCheckpoint
    BY <2>1, <2>2, <1>5, <1>6
  <2>3. CASE At(m) \in DOMAIN checkpoints /\ Pushed[m] = checkpoints[At(m)]
    <3>1. At(k) < At(m)
      BY <1>1, <1>8
    <3> QED BY <2>1, <2>3, <3>1 DEF HistoryUsable
  <2> QED BY <2>2, <2>3, <1>4
<1>9. Len(Pushed) <= MaxRollbackDepth
  BY <1>1, <1>3
<1> QED BY <1>2, <1>7, <1>8, <1>9, <1>10

(* What commit, or a command, does to the ledger. *)
LEMMA PublishStep ==
  ASSUME LedgerInv, NEW new \in PackageImage, PublishImage(new)
  PROVE  /\ image' \in PackageImage
         /\ generation' = generation + 1
         /\ checkpoints' \in Seq(Checkpoint) /\ Len(checkpoints') <= MaxRollbackDepth
         /\ HistoryUsable'
<1>1. LedgerTypeOK /\ HistoryUsable
  BY DEF LedgerInv
<1>2. checkpoints' = Pushed /\ generation' = generation + 1 /\ image' = new
  BY DEF PublishImage
<1>3. Pushed \in Seq(Checkpoint) /\ Len(Pushed) <= MaxRollbackDepth
  BY <1>1, PushedContents, PushedUsable
<1>4. HistoryUsable'
  BY <1>1, <1>2, PushedUsable DEF HistoryUsable, Usable
<1> QED BY <1>2, <1>3, <1>4

-----------------------------------------------------------------------------
(* The invariant *)

LEMMA InitInv == LedgerInit => LedgerInv
<1> SUFFICES ASSUME LedgerInit PROVE LedgerInv
  OBVIOUS
<1>1. image = NoPackages /\ generation = 0 /\ checkpoints = << >>
      /\ held = [c \in Client |-> NoTransaction] /\ txn = [c \in Client |-> NoTransaction]
      /\ saved = [generation |-> 0, image |-> NoPackages]
  BY DEF LedgerInit
<1>2. checkpoints \in Seq(Checkpoint) /\ Len(checkpoints) = 0
  BY <1>1, EmptySeq
<1>3. LedgerTypeOK
  BY <1>1, <1>2, EmptyInImage, LedgerAssumption DEF LedgerTypeOK
<1>4. HistoryUsable
  BY <1>1 DEF HistoryUsable
<1> QED BY <1>1, <1>3, <1>4 DEF LedgerInv

(* Transactions and authorities of the past stay behind a generation that is     *)
(* published, so none of them is accepted any more.                              *)
LEMMA PublishInv ==
  ASSUME LedgerInv, NEW new \in PackageImage, PublishImage(new), UNCHANGED <<held, txn, saved>>
  PROVE  LedgerInv'
<1>1. /\ image' \in PackageImage /\ generation' = generation + 1
      /\ checkpoints' \in Seq(Checkpoint) /\ Len(checkpoints') <= MaxRollbackDepth
      /\ HistoryUsable'
  BY PublishStep
<1>2. generation \in Nat /\ saved.generation \in Nat
  BY DEF LedgerInv, LedgerTypeOK
<1>3. LedgerTypeOK'
  BY <1>1, <1>2 DEF LedgerInv, LedgerTypeOK
<1>4. saved'.generation <= generation'
  BY <1>1, <1>2 DEF LedgerInv
<1>5. ASSUME NEW c \in Client, held'[c] # NoTransaction
      PROVE  held'[c].generation <= generation'
  BY <1>1, <1>2, <1>5 DEF LedgerInv, LedgerTypeOK, AuthorityRecord
<1>6. ASSUME NEW c \in Client, txn'[c] # NoTransaction
      PROVE  txn'[c].base.generation < generation'
  <2>1. txn[c] \in LedgerTransaction /\ txn[c].base.generation <= generation
    BY <1>6 DEF LedgerInv, LedgerTypeOK
  <2>2. txn[c].base.generation \in Nat
    BY <2>1 DEF LedgerTransaction, AuthorityRecord
  <2> QED BY <1>1, <1>2, <2>1, <2>2
<1>7. ASSUME NEW c \in Client, txn'[c] # NoTransaction
      PROVE  txn'[c].base.generation <= generation' /\ txn'[c].base.generation # generation'
  <2>1. txn'[c].base.generation \in Nat
    BY <1>7 DEF LedgerInv, LedgerTypeOK, LedgerTransaction, AuthorityRecord
  <2> QED BY <2>1, <1>1, <1>2, <1>6, <1>7
<1> QED BY <1>1, <1>3, <1>4, <1>5, <1>7 DEF LedgerInv

(* Sets of names are finite, and larger sets have more elements.                 *)
LEMMA SubsetOfNames ==
  ASSUME NEW S \in SUBSET PackageName, NEW T \in SUBSET S
  PROVE  /\ Cardinality(S) \in Nat /\ Cardinality(T) \in Nat
         /\ Cardinality(T) <= Cardinality(S)
<1>1. IsFiniteSet(S)
  BY FS_Subset, LedgerAssumption
<1>2. IsFiniteSet(T) /\ Cardinality(T) <= Cardinality(S)
  BY <1>1, FS_Subset
<1> QED BY <1>1, <1>2, FS_CardinalityType

(* What a transaction inherits are names.                                        *)
LEMMA InheritedNames ==
  ASSUME NEW t \in LedgerTransaction
  PROVE  Inherited(t) \in SUBSET PackageName
BY DEF Inherited, LedgerTransaction, Contents

(* Without an intent, a transaction inherits its whole image.                    *)
LEMMA InheritedWhole ==
  ASSUME NEW t \in LedgerTransaction, t.touched = {}
  PROVE  Cardinality(Inherited(t)) <= MaxInstalled
<1>1. Inherited(t) = Contents(t.image)
  BY DEF Inherited
<1> QED BY <1>1 DEF LedgerTransaction, PackageImage

(* A step that leaves the ledger alone and gives client c the transaction t.     *)
LEMMA TransactionStep ==
  ASSUME LedgerInv, NEW c \in Client, NEW t \in LedgerTransaction,
         txn' = [txn EXCEPT ![c] = t], UNCHANGED <<ledger, held, saved>>,
         t.base.generation <= generation,
         t.base.generation = generation /\ ~t.sealed =>
           \A n \in PackageName \ t.touched : t.image[n] = image[n],
         t.sealed => t.touched = {},
         Cardinality(Inherited(t)) <= MaxInstalled
  PROVE  LedgerInv'
<1>1. LedgerTypeOK /\ HistoryUsable
  BY DEF LedgerInv
<1>2. LedgerTypeOK'
  BY <1>1 DEF LedgerTypeOK, ledger
<1>3. HistoryUsable'
  BY <1>1 DEF HistoryUsable, Usable, ledger
<1>4. \A d \in Client : txn'[d] = IF d = c THEN t ELSE txn[d]
  BY <1>1 DEF LedgerTypeOK
<1> QED BY <1>2, <1>3, <1>4 DEF LedgerInv, ledger

(* An intent for name n, whose new version fits the image of the transaction.    *)
LEMMA IntendInv ==
  ASSUME LedgerInv, NEW c \in Client, txn[c] # NoTransaction, NEW n \in PackageName, NEW v,
         v = 0 => txn[c].image[n] # 0,
         [txn[c].image EXCEPT ![n] = v] \in PackageImage, Intend(c, n, v)
  PROVE  LedgerInv'
<1> DEFINE t == [txn[c] EXCEPT !.image = [txn[c].image EXCEPT ![n] = v],
                               !.touched = txn[c].touched \cup {n}]
<1>1. txn[c] \in LedgerTransaction
  BY DEF LedgerInv, LedgerTypeOK
<1>2. t \in LedgerTransaction
  BY <1>1 DEF LedgerTransaction
<1>3. txn' = [txn EXCEPT ![c] = t]
  BY <1>1 DEF Intend, LedgerTransaction, LedgerInv, LedgerTypeOK
<1>4. t.base = txn[c].base /\ t.touched = txn[c].touched \cup {n} /\ t.sealed = txn[c].sealed
      /\ \A m \in PackageName \ {n} : t.image[m] = txn[c].image[m]
  BY <1>1 DEF LedgerTransaction, PackageImage
<1>5. t.base.generation <= generation
  BY <1>4 DEF LedgerInv
<1>6. t.base.generation = generation /\ ~t.sealed =>
        \A m \in PackageName \ t.touched : t.image[m] = image[m]
  BY <1>4 DEF LedgerInv
<1>7. Cardinality(Inherited(t)) <= MaxInstalled
  <2>1. Inherited(t) \subseteq Inherited(txn[c])
    BY <1>1 DEF Inherited, Contents, Intend, LedgerTransaction, PackageImage
  <2>2. Cardinality(Inherited(t)) <= Cardinality(Inherited(txn[c]))
        /\ Cardinality(Inherited(t)) \in Nat /\ Cardinality(Inherited(txn[c])) \in Nat
    BY <1>1, <1>2, <2>1, SubsetOfNames, InheritedNames
  <2>3. Cardinality(Inherited(txn[c])) <= MaxInstalled
    BY DEF LedgerInv
  <2> HIDE DEF t
  <2> QED BY <2>2, <2>3, LedgerAssumption
<1>8. ~t.sealed
  BY <1>4 DEF Intend
<1> HIDE DEF t
<1> QED BY <1>2, <1>3, <1>5, <1>6, <1>7, <1>8, TransactionStep DEF Intend

(* A sequence without its last element.                                          *)
LEMMA SubSeqShorter ==
  ASSUME NEW S, NEW s \in Seq(S), Len(s) # 0
  PROVE  /\ SubSeq(s, 1, Len(s) - 1) \in Seq(S)
         /\ Len(SubSeq(s, 1, Len(s) - 1)) = Len(s) - 1
         /\ \A k \in 1..(Len(s) - 1) : SubSeq(s, 1, Len(s) - 1)[k] = s[k]
<1> DEFINE len == Len(s)
           shorter == SubSeq(s, 1, len - 1)
<1>1. len \in Nat
  BY LenProperties
<1>2. \A k \in 1..(len - 1) : s[k] \in S
  BY <1>1, ElementOfSeq
<1>3. 1 \in Int /\ len - 1 \in Int /\ len - 1 - 1 + 1 = len - 1
  BY <1>1
<1>4. /\ shorter \in Seq(S)
      /\ Len(shorter) = IF 1 <= len - 1 THEN len - 1 - 1 + 1 ELSE 0
      /\ \A k \in 1..(len - 1 - 1 + 1) : shorter[k] = s[1 + k - 1]
  BY <1>2, <1>3, SubSeqProperties
<1> HIDE DEF shorter
<1>5. Len(shorter) = len - 1
  <2>1. Len(shorter) = IF 1 <= len - 1 THEN len - 1 - 1 + 1 ELSE 0
    BY <1>4
  <2>2. len \in Nat /\ len # 0
    BY <1>1
  <2> HIDE DEF len
  <2>3. CASE len = 1
    BY <2>1, <2>3
  <2>4. CASE len # 1
    <3>1. 1 <= len - 1
      BY <2>2, <2>4
    <3> QED BY <2>1, <2>2, <3>1
  <2> QED BY <2>3, <2>4
<1>6. \A k \in 1..(len - 1) : 1 + k - 1 = k
  BY <1>1
<1>7. \A k \in 1..(len - 1) : shorter[k] = s[k]
  BY <1>3, <1>4, <1>6
<1> QED BY <1>4, <1>5, <1>7 DEF shorter

(* A rollback raises the generation and takes the last checkpoint off.           *)
LEMMA RollbackInv ==
  ASSUME LedgerInv, NEW c \in Client, LedgerRollback(c)
  PROVE  LedgerInv'
<1> DEFINE len == Len(checkpoints)
<1>1. LedgerTypeOK /\ HistoryUsable
  BY DEF LedgerInv
<1>2. /\ checkpoints \in Seq(Checkpoint) /\ generation \in Nat
      /\ len \in Nat /\ len <= MaxRollbackDepth /\ len # 0
  BY <1>1, LenProperties, EmptySeq DEF LedgerTypeOK, LedgerRollback
<1>3. DOMAIN checkpoints = 1..len
  BY <1>2, LenProperties
<1>4. /\ checkpoints' \in Seq(Checkpoint) /\ Len(checkpoints') = len - 1
      /\ \A k \in 1..(len - 1) : checkpoints'[k] = checkpoints[k]
  BY <1>2, SubSeqShorter DEF LedgerRollback
<1>5. DOMAIN checkpoints' = 1..(len - 1)
  BY <1>4, LenProperties
<1>6. image' \in PackageImage
  <2>1. len \in 1..len
    BY <1>2
  <2>2. checkpoints[len] \in Checkpoint
    BY <2>1, <1>2, ElementOfSeq
  <2> QED BY <2>2 DEF LedgerRollback, Top, Checkpoint
<1>7. generation' = generation + 1
  BY DEF LedgerRollback, Renumbered
<1>8. UNCHANGED <<held, txn, saved>>
  BY DEF LedgerRollback
<1>9. LedgerTypeOK'
  BY <1>1, <1>2, <1>4, <1>6, <1>7, <1>8, LedgerAssumption DEF LedgerTypeOK
<1>10. HistoryUsable'
  <2>1. ASSUME NEW k \in DOMAIN checkpoints'
        PROVE  /\ k \in DOMAIN checkpoints /\ checkpoints'[k] = checkpoints[k]
               /\ checkpoints[k].generation \in Nat
               /\ checkpoints[k].generation < generation
               /\ checkpoints[k].digest = Digest(checkpoints[k].image)
    <3>1. k \in 1..(len - 1)
      BY <1>5
    <3>2. k \in 1..len
      BY <3>1, <1>2
    <3>3. checkpoints[k] \in Checkpoint
      BY <3>2, <1>2, ElementOfSeq
    <3>4. Usable(checkpoints[k])
      BY <3>2, <1>1, <1>3 DEF HistoryUsable
    <3> QED BY <3>1, <3>2, <3>3, <3>4, <1>3, <1>4 DEF Usable, Checkpoint
  <2>2. \A k \in DOMAIN checkpoints' :
          /\ checkpoints'[k].generation < generation'
          /\ checkpoints'[k].digest = Digest(checkpoints'[k].image)
    BY <2>1, <1>2, <1>7
  <2>3. \A k, m \in DOMAIN checkpoints' :
          k < m => checkpoints'[k].generation < checkpoints'[m].generation
    BY <2>1, <1>1 DEF HistoryUsable
  <2> QED BY <2>2, <2>3 DEF HistoryUsable, Usable
<1>11. ASSUME NEW d \in Client, txn[d] # NoTransaction
       PROVE  txn[d].base.generation <= generation /\ txn[d].base.generation \in Nat
  BY <1>11 DEF LedgerInv, LedgerTypeOK, LedgerTransaction, AuthorityRecord
<1>12. ASSUME NEW d \in Client, held[d] # NoTransaction
       PROVE  held[d].generation <= generation /\ held[d].generation \in Nat
  BY <1>12 DEF LedgerInv, LedgerTypeOK, AuthorityRecord
<1>13. saved.generation \in Nat /\ saved.generation <= generation
  BY DEF LedgerInv, LedgerTypeOK
<1> QED
  <2>1. saved'.generation <= generation'
    BY <1>2, <1>7, <1>8, <1>13
  <2>2. \A d \in Client : held'[d] # NoTransaction => held'[d].generation <= generation'
    BY <1>2, <1>7, <1>8, <1>12
  <2>3. \A d \in Client : txn'[d] # NoTransaction =>
          txn'[d].base.generation <= generation' /\ txn'[d].base.generation # generation'
    BY <1>2, <1>7, <1>8, <1>11
  <2> QED BY <1>8, <1>9, <1>10, <2>1, <2>2, <2>3 DEF LedgerInv, Inherited

(* Every step preserves the invariant.                                           *)
LEMMA NextInv == LedgerInv /\ [LedgerNext]_ledgerVars => LedgerInv'
<1> SUFFICES ASSUME LedgerInv, [LedgerNext]_ledgerVars PROVE LedgerInv'
  OBVIOUS
<1>0. LedgerTypeOK /\ HistoryUsable
  BY DEF LedgerInv
<1>1. ASSUME NEW c \in Client, Read(c) PROVE LedgerInv'
  <2>1. Authority \in AuthorityRecord /\ Authority.generation = generation
        /\ generation <= generation
    BY <1>0 DEF LedgerTypeOK, Authority, AuthorityRecord
  <2>2. /\ held' = [held EXCEPT ![c] = Authority]
        /\ image' = image /\ generation' = generation /\ checkpoints' = checkpoints
        /\ txn' = txn /\ saved' = saved
    BY <1>1 DEF Read, ledger
  <2>3. LedgerTypeOK'
    BY <1>0, <2>1, <2>2 DEF LedgerTypeOK
  <2>4. HistoryUsable'
    BY <1>0, <2>2 DEF HistoryUsable, Usable
  <2>5. \A d \in Client : held'[d] = IF d = c THEN Authority ELSE held[d]
    BY <1>0, <2>2 DEF LedgerTypeOK
  <2>6. \A d \in Client : held'[d] # NoTransaction => held'[d].generation <= generation'
    BY <2>1, <2>2, <2>5 DEF LedgerInv
  <2> QED BY <2>2, <2>3, <2>4, <2>6 DEF LedgerInv
<1>2. ASSUME NEW c \in Client, Begin(c) PROVE LedgerInv'
  <2> DEFINE t == [base |-> Authority, image |-> image, touched |-> {}, sealed |-> FALSE]
  <2>1. t \in LedgerTransaction
    BY <1>0 DEF LedgerTypeOK, LedgerTransaction, Authority, AuthorityRecord
  <2>2. t.base.generation = generation /\ t.image = image /\ generation <= generation
    BY <1>0 DEF Authority, LedgerTypeOK
  <2>3. txn' = [txn EXCEPT ![c] = t] /\ UNCHANGED <<ledger, held, saved>>
    BY <1>2 DEF Begin
  <2>4. t.touched = {} /\ Cardinality(Inherited(t)) <= MaxInstalled
    BY <2>1, InheritedWhole
  <2> HIDE DEF t
  <2> QED BY <2>1, <2>2, <2>3, <2>4, TransactionStep
<1>3. ASSUME NEW c \in Client, NEW n \in PackageName, NEW v \in PackageVersion, Install(c, n, v)
      PROVE  LedgerInv'
  <2>1. txn[c] # NoTransaction /\ txn[c].image \in PackageImage /\ Room(txn[c].image) /\ Intend(c, n, v)
    BY <1>0, <1>3 DEF Install, LedgerTypeOK, LedgerTransaction
  <2>2. v # 0
    BY LedgerAssumption
  <2>3. [txn[c].image EXCEPT ![n] = v] \in PackageImage
    BY <2>1, InstallInImage
  <2> QED BY <2>1, <2>2, <2>3, IntendInv
<1>4. ASSUME NEW c \in Client, NEW n \in PackageName, RemovePackage(c, n) PROVE LedgerInv'
  <2>1. txn[c] # NoTransaction /\ txn[c].image \in PackageImage /\ txn[c].image[n] # 0 /\ Intend(c, n, 0)
    BY <1>0, <1>4 DEF RemovePackage, LedgerTypeOK, LedgerTransaction
  <2>2. [txn[c].image EXCEPT ![n] = 0] \in PackageImage
    BY <2>1, ReplaceInImage
  <2> QED BY <2>1, <2>2, IntendInv
<1>5. ASSUME NEW c \in Client, NEW n \in PackageName, NEW v \in PackageVersion, Upgrade(c, n, v)
      PROVE  LedgerInv'
  <2>1. txn[c] # NoTransaction /\ txn[c].image \in PackageImage /\ txn[c].image[n] # 0 /\ Intend(c, n, v)
    BY <1>0, <1>5 DEF Upgrade, LedgerTypeOK, LedgerTransaction
  <2>2. [txn[c].image EXCEPT ![n] = v] \in PackageImage
    BY <2>1, ReplaceInImage
  <2> QED BY <2>1, <2>2, IntendInv
<1>6. ASSUME NEW c \in Client, NEW selection \in PackageImage, Reconcile(c, selection)
      PROVE  LedgerInv'
  <2> DEFINE t == [txn[c] EXCEPT !.image = selection, !.sealed = TRUE]
  <2>1. txn[c] \in LedgerTransaction /\ txn[c] # NoTransaction
    BY <1>0, <1>6 DEF Reconcile, LedgerTypeOK
  <2>2. t \in LedgerTransaction /\ t.base = txn[c].base /\ t.sealed
    BY <2>1 DEF LedgerTransaction
  <2>3. txn' = [txn EXCEPT ![c] = t] /\ UNCHANGED <<ledger, held, saved>>
    BY <1>0, <1>6 DEF Reconcile, LedgerTypeOK
  <2>4. t.base.generation <= generation
    BY <2>1, <2>2 DEF LedgerInv
  <2>5. t.touched = {} /\ Cardinality(Inherited(t)) <= MaxInstalled
    BY <1>6, <2>1, <2>2, InheritedWhole DEF Reconcile, LedgerTransaction
  <2> HIDE DEF t
  <2> QED BY <2>2, <2>3, <2>4, <2>5, TransactionStep
<1>7. ASSUME NEW c \in Client, Commit(c) PROVE LedgerInv'
  <2>1. txn[c].image \in PackageImage
    BY <1>0, <1>7 DEF Commit, LedgerTypeOK, LedgerTransaction
  <2> QED BY <2>1, <1>7, PublishInv DEF Commit
<1>8. ASSUME NEW c \in Client, LedgerRollback(c) PROVE LedgerInv'
  BY <1>8, RollbackInv
<1>9. ASSUME NEW n \in PackageName, InstallCommand(n) PROVE LedgerInv'
  <2>1. image \in PackageImage /\ Builtin[n] \in PackageVersion /\ Room(image)
    BY <1>0, <1>9, LedgerAssumption DEF LedgerTypeOK, InstallCommand
  <2>2. [image EXCEPT ![n] = Builtin[n]] \in PackageImage
    BY <2>1, InstallInImage
  <2> QED BY <2>2, <1>9, PublishInv DEF InstallCommand, ExecuteCommand
<1>10. ASSUME NEW n \in PackageName, RemoveCommand(n) PROVE LedgerInv'
  <2>1. [image EXCEPT ![n] = 0] \in PackageImage
    BY <1>0, <1>10, ReplaceInImage DEF LedgerTypeOK, RemoveCommand
  <2> QED BY <2>1, <1>10, PublishInv DEF RemoveCommand, ExecuteCommand
<1>11. ASSUME NEW n \in PackageName, UpdateCommand(n) PROVE LedgerInv'
  <2>1. [image EXCEPT ![n] = Builtin[n]] \in PackageImage
    BY <1>0, <1>11, ReplaceInImage, LedgerAssumption DEF LedgerTypeOK, UpdateCommand
  <2> QED BY <2>1, <1>11, PublishInv DEF UpdateCommand, ExecuteCommand
<1>12. CASE Save
  <2>1. /\ image' = image /\ generation' = generation /\ checkpoints' = checkpoints
        /\ txn' = txn /\ held' = held
        /\ saved' = [generation |-> generation, image |-> image]
    BY <1>12 DEF Save, ledger
  <2>2. generation <= generation /\ saved'.generation = generation
    BY <1>0, <2>1 DEF LedgerTypeOK
  <2>3. LedgerTypeOK'
    BY <1>0, <2>1 DEF LedgerTypeOK
  <2>4. HistoryUsable'
    BY <1>0, <2>1 DEF HistoryUsable, Usable
  <2> QED BY <2>1, <2>2, <2>3, <2>4 DEF LedgerInv
<1>13. CASE Restart
  <2>1. /\ image' = saved.image /\ generation' = saved.generation /\ checkpoints' = << >>
        /\ held' = [c \in Client |-> NoTransaction] /\ txn' = [c \in Client |-> NoTransaction]
        /\ saved' = saved
    BY <1>13 DEF Restart
  <2>2. checkpoints' \in Seq(Checkpoint) /\ Len(checkpoints') = 0
    BY <2>1, EmptySeq
  <2>3. saved.generation \in Nat /\ saved.image \in PackageImage
    BY <1>0 DEF LedgerTypeOK
  <2>4. LedgerTypeOK'
    BY <1>0, <2>1, <2>2, <2>3, LedgerAssumption DEF LedgerTypeOK
  <2>5. HistoryUsable'
    BY <2>1 DEF HistoryUsable
  <2>6. saved'.generation <= generation'
    BY <2>1, <2>3
  <2>7. \A c \in Client : held'[c] = NoTransaction /\ txn'[c] = NoTransaction
    BY <2>1
  <2> QED BY <2>4, <2>5, <2>6, <2>7 DEF LedgerInv
<1>14. CASE UNCHANGED ledgerVars
  BY <1>0, <1>14 DEF LedgerInv, ledgerVars, LedgerTypeOK, HistoryUsable, Usable
<1> QED BY <1>1, <1>2, <1>3, <1>4, <1>5, <1>6, <1>7, <1>8, <1>9, <1>10, <1>11,
           <1>12, <1>13, <1>14 DEF LedgerNext

(* LedgerInv holds in every reachable state, for every digest function.          *)
THEOREM LedgerInvariant == LedgerSpec => []LedgerInv
BY InitInv, NextInv, PTL DEF LedgerSpec

(* The types of the ledger.                                                      *)
THEOREM LedgerTypes == LedgerSpec => []LedgerTypeOK
<1>1. LedgerInv => LedgerTypeOK
  BY DEF LedgerInv
<1> QED BY <1>1, LedgerInvariant, PTL

(* No lost update: a transaction whose commit would be accepted agrees with the  *)
(* ledger on every package that it did not touch (PackageLedger::commit).        *)
THEOREM LedgerLosesNoUpdate == LedgerSpec => []NoLostUpdate
<1>1. LedgerInv => NoLostUpdate
  BY DEF LedgerInv, NoLostUpdate, Current, Authority
<1> QED BY <1>1, LedgerInvariant, PTL

(* touched_names never overflows (PackageTransaction::record_intent).            *)
THEOREM LedgerIntentsFit == LedgerSpec => []IntentsFit
<1>1. ASSUME LedgerInv, NEW c \in Client, txn[c] # NoTransaction
      PROVE  Cardinality(txn[c].touched) <= 2 * MaxInstalled
  <2> DEFINE t == txn[c]
             S == Inherited(t)
             T == Contents(t.image)
  <2>1. t \in LedgerTransaction
    BY <1>1 DEF LedgerInv, LedgerTypeOK
  <2>2. S \in SUBSET PackageName /\ T \in SUBSET PackageName /\ t.touched \in SUBSET PackageName
    BY <2>1, InheritedNames DEF LedgerTransaction, Contents
  <2>3. t.touched \in SUBSET (S \cup T)
    BY <2>2 DEF Inherited
  <2>4. Cardinality(S) <= MaxInstalled
    BY <1>1 DEF LedgerInv
  <2>5. Cardinality(T) <= MaxInstalled
    BY <2>1 DEF LedgerTransaction, PackageImage
  <2> HIDE DEF t, S, T
  <2>6. IsFiniteSet(S) /\ IsFiniteSet(T)
    BY <2>2, FS_Subset, LedgerAssumption
  <2>7. Cardinality(S \cup T) = Cardinality(S) + Cardinality(T) - Cardinality(S \cap T)
        /\ IsFiniteSet(S \cap T)
    BY <2>6, FS_Union, FS_Intersection
  <2>8. Cardinality(t.touched) <= Cardinality(S \cup T)
        /\ Cardinality(t.touched) \in Nat /\ Cardinality(S \cup T) \in Nat
    BY <2>2, <2>3, SubsetOfNames
  <2>9. Cardinality(S) \in Nat /\ Cardinality(T) \in Nat /\ Cardinality(S \cap T) \in Nat
    BY <2>6, <2>7, FS_CardinalityType
  <2>10. Cardinality(t.touched) <= 2 * MaxInstalled
    BY <2>4, <2>5, <2>7, <2>8, <2>9, LedgerAssumption
  <2> QED BY <2>10 DEF t
<1>2. LedgerInv => IntentsFit
  BY <1>1 DEF IntentsFit
<1> QED BY <1>2, LedgerInvariant, PTL

(* A rollback with history is never refused (PackageLedger::rollback).           *)
THEOREM LedgerHistoryUsable == LedgerSpec => []HistoryUsable
<1>1. LedgerInv => HistoryUsable
  BY DEF LedgerInv
<1> QED BY <1>1, LedgerInvariant, PTL

-----------------------------------------------------------------------------
(* The ledger implements UndoHistory *)

Images(h) == [i \in DOMAIN h |-> h[i].image]
Past == Images(checkpoints)

(* The images of a history are a sequence.                                       *)
LEMMA ImagesOfHistory ==
  ASSUME NEW h \in Seq(Checkpoint)
  PROVE  /\ Images(h) \in Seq(PackageImage) /\ Len(Images(h)) = Len(h) /\ Len(h) \in Nat
         /\ \A i \in 1..Len(h) : Images(h)[i] = h[i].image
<1>1. Len(h) \in Nat /\ DOMAIN h = 1..Len(h)
  BY LenProperties
<1>2. ASSUME NEW i \in 1..Len(h) PROVE h[i].image \in PackageImage
  <2>1. h[i] \in Checkpoint
    BY ElementOfSeq
  <2> QED BY <2>1 DEF Checkpoint
<1>3. Images(h) = [i \in 1..Len(h) |-> h[i].image]
  BY <1>1 DEF Images
<1> QED BY <1>1, <1>2, <1>3

(* A published image is a change, and the history forgets the oldest.            *)
LEMMA PublishRefines ==
  ASSUME LedgerInv, NEW new \in PackageImage, PublishImage(new), UNCHANGED saved
  PROVE  Undoing!Change(new)
<1> DEFINE longer == Append(Past, image)
           target == IF Len(Past) < MaxRollbackDepth THEN longer ELSE Tail(longer)
           len == Len(checkpoints)
<1>1. LedgerTypeOK /\ image \in PackageImage
  BY DEF LedgerInv, LedgerTypeOK
<1>2. checkpoints \in Seq(Checkpoint) /\ checkpoints' \in Seq(Checkpoint)
  BY <1>1, PublishStep DEF LedgerTypeOK
<1>3. /\ Past \in Seq(PackageImage) /\ Len(Past) = len /\ len \in Nat
      /\ \A i \in 1..len : Past[i] = checkpoints[i].image
  BY <1>2, ImagesOfHistory DEF Past
<1>4. /\ Past' \in Seq(PackageImage) /\ Len(Past') = Len(checkpoints')
      /\ \A i \in 1..Len(checkpoints') : Past'[i] = checkpoints'[i].image
  BY <1>2, ImagesOfHistory DEF Past
<1>5. len <= MaxRollbackDepth /\ MaxRollbackDepth \in Nat \ {0}
  BY <1>1, LedgerAssumption DEF LedgerTypeOK
<1>6. checkpoints' = Pushed
  BY DEF PublishImage
<1>7. /\ longer \in Seq(PackageImage) /\ Len(longer) = len + 1 /\ longer # << >>
      /\ \A i \in 1..len : longer[i] = checkpoints[i].image
      /\ longer[len + 1] = image
  BY <1>1, <1>3, AppendProperties
<1> HIDE DEF longer
<1>8. Past' = target
  <2>1. CASE len = MaxRollbackDepth
    <3>1. target = Tail(longer)
      BY <2>1, <1>3, <1>5
    <3>2. /\ Tail(longer) \in Seq(PackageImage) /\ Len(Tail(longer)) = len
          /\ \A i \in 1..Len(Tail(longer)) : Tail(longer)[i] = longer[i + 1]
      BY <1>3, <1>7, HeadTailProperties
    <3>3. /\ Len(checkpoints') = MaxRollbackDepth
          /\ checkpoints'[MaxRollbackDepth].image = image
          /\ \A k \in 1..(MaxRollbackDepth - 1) : checkpoints'[k] = checkpoints[k + 1]
      BY <2>1, <1>1, <1>6, PushedContents DEF LatestCheckpoint
    <3>4. ASSUME NEW i \in 1..len PROVE Past'[i] = Tail(longer)[i]
      <4>1. Past'[i] = checkpoints'[i].image /\ Tail(longer)[i] = longer[i + 1]
        BY <2>1, <3>2, <3>3, <1>4
      <4>2. CASE i = MaxRollbackDepth
        BY <4>1, <4>2, <2>1, <3>3, <1>7
      <4>3. CASE i # MaxRollbackDepth
        <5>1. i \in 1..(MaxRollbackDepth - 1) /\ i + 1 \in 1..len
          BY <4>3, <2>1, <1>3, <1>5
        <5> QED BY <5>1, <4>1, <3>3, <1>7
      <4> QED BY <4>2, <4>3
    <3>5. Len(Past') = len
      BY <2>1, <3>3, <1>4
    <3> QED BY <3>1, <3>2, <3>4, <3>5, <1>4, SeqEqual
  <2>2. CASE len # MaxRollbackDepth
    <3>1. target = longer
      BY <2>2, <1>3, <1>5
    <3>2. /\ Len(checkpoints') = len + 1
          /\ checkpoints'[len + 1].image = image
          /\ \A k \in 1..(len + 1 - 1) : checkpoints'[k] = checkpoints[k]
      BY <2>2, <1>1, <1>6, PushedContents DEF LatestCheckpoint
    <3>3. ASSUME NEW i \in 1..(len + 1) PROVE Past'[i] = longer[i]
      <4>1. Past'[i] = checkpoints'[i].image
        BY <3>2, <1>4
      <4>2. CASE i = len + 1
        BY <4>1, <4>2, <3>2, <1>7
      <4>3. CASE i # len + 1
        <5>1. i \in 1..(len + 1 - 1) /\ i \in 1..len
          BY <4>3, <1>3
        <5> QED BY <5>1, <4>1, <3>2, <1>7
      <4> QED BY <4>2, <4>3
    <3>4. Len(Past') = len + 1
      BY <3>2, <1>4
    <3> QED BY <3>1, <3>3, <3>4, <1>4, <1>7, SeqEqual
  <2> QED BY <2>1, <2>2
<1>9. new # image /\ image' = new /\ UNCHANGED saved
  BY DEF PublishImage
<1> QED BY <1>8, <1>9 DEF Undoing!Change, Past, Images, longer

(* A rollback undoes the last change.                                            *)
LEMMA RollbackRefines ==
  ASSUME LedgerInv, NEW c \in Client, LedgerRollback(c)
  PROVE  Undoing!Undo
<1> DEFINE len == Len(checkpoints)
<1>1. LedgerTypeOK /\ checkpoints # << >>
  BY DEF LedgerInv, LedgerTypeOK, LedgerRollback
<1>2. checkpoints \in Seq(Checkpoint) /\ checkpoints' \in Seq(Checkpoint)
  BY <1>1, RollbackInv DEF LedgerInv, LedgerTypeOK
<1>3. /\ Past \in Seq(PackageImage) /\ Len(Past) = len /\ len \in Nat /\ len # 0
      /\ \A i \in 1..len : Past[i] = checkpoints[i].image
  BY <1>1, <1>2, ImagesOfHistory, EmptySeq DEF Past
<1>4. /\ Past' \in Seq(PackageImage) /\ Len(Past') = Len(checkpoints')
      /\ \A i \in 1..Len(checkpoints') : Past'[i] = checkpoints'[i].image
  BY <1>2, ImagesOfHistory DEF Past
<1>5. checkpoints \in Seq(Checkpoint)
  BY <1>1 DEF LedgerTypeOK
<1>6. /\ Len(checkpoints') = len - 1
      /\ \A i \in 1..(len - 1) : checkpoints'[i] = checkpoints[i]
  BY <1>3, <1>5, SubSeqShorter DEF LedgerRollback
<1> DEFINE shorter == SubSeq(Past, 1, len - 1)
<1>7. /\ shorter \in Seq(PackageImage) /\ Len(shorter) = len - 1
      /\ \A i \in 1..(len - 1) : shorter[i] = Past[i]
  BY <1>3, SubSeqShorter
<1>8. \A i \in 1..(len - 1) : i \in 1..len
  BY <1>3
<1> HIDE DEF shorter
<1>9. \A i \in 1..(len - 1) : Past'[i] = shorter[i]
  BY <1>3, <1>4, <1>6, <1>7, <1>8
<1>10. Past' = shorter
  BY <1>4, <1>6, <1>7, <1>9, SeqEqual
<1>11. image' = Past[len]
  <2>1. len \in 1..len
    BY <1>3
  <2> QED BY <2>1, <1>3 DEF LedgerRollback, Top
<1>12. Past # << >>
  BY <1>3, EmptySeq
<1>13. saved' = saved
  BY DEF LedgerRollback
<1> QED BY <1>3, <1>10, <1>11, <1>12, <1>13 DEF Undoing!Undo, Past, Images, shorter

(* Every behaviour of the ledger is one of UndoHistory: rollbacks undo the last  *)
(* MAX_ROLLBACK_DEPTH changes, exactly and in reverse order.                               *)
THEOREM LedgerUndoesExactly == LedgerSpec => UndoesExactly
<1>1. LedgerInit => Undoing!Init
  <2> SUFFICES ASSUME LedgerInit PROVE Undoing!Init
    OBVIOUS
  <2>1. checkpoints = << >> /\ image = NoPackages /\ saved = [generation |-> 0, image |-> NoPackages]
    BY DEF LedgerInit
  <2>2. Past = << >>
    BY <2>1 DEF Past, Images
  <2> QED BY <2>1, <2>2 DEF Undoing!Init, Past, Images
<1>2. LedgerInv /\ [LedgerNext]_ledgerVars => [Undoing!Next]_<<image, Past, saved.image>>
  <2> SUFFICES ASSUME LedgerInv, [LedgerNext]_ledgerVars
               PROVE  Undoing!Next \/ UNCHANGED <<image, Past, saved.image>>
    OBVIOUS
  <2>0. LedgerTypeOK
    BY DEF LedgerInv
  <2>1. ASSUME UNCHANGED <<ledger, saved>> PROVE UNCHANGED <<image, Past, saved.image>>
    BY <2>1 DEF ledger, Past, Images
  <2>2. ASSUME NEW new \in PackageImage, PublishImage(new), UNCHANGED saved PROVE Undoing!Next
    BY <2>2, PublishRefines DEF Undoing!Next
  <2>3. ASSUME NEW c \in Client, Read(c) PROVE UNCHANGED <<ledger, saved>>
    BY <2>3 DEF Read
  <2>4. ASSUME NEW c \in Client, Begin(c) PROVE UNCHANGED <<ledger, saved>>
    BY <2>4 DEF Begin
  <2>5. ASSUME NEW c \in Client, NEW n \in PackageName, NEW v \in PackageVersion,
               Install(c, n, v) \/ RemovePackage(c, n) \/ Upgrade(c, n, v)
        PROVE  UNCHANGED <<ledger, saved>>
    BY <2>5 DEF Install, RemovePackage, Upgrade, Intend
  <2>6. ASSUME NEW c \in Client, NEW n \in PackageName, RemovePackage(c, n)
        PROVE  UNCHANGED <<ledger, saved>>
    BY <2>6 DEF RemovePackage, Intend
  <2>7. ASSUME NEW c \in Client, NEW selection \in PackageImage, Reconcile(c, selection)
        PROVE  UNCHANGED <<ledger, saved>>
    BY <2>7 DEF Reconcile
  <2>8. ASSUME NEW c \in Client, Commit(c) PROVE Undoing!Next
    <3>1. txn[c].image \in PackageImage
      BY <2>0, <2>8 DEF Commit, LedgerTypeOK, LedgerTransaction
    <3> QED BY <3>1, <2>2, <2>8 DEF Commit
  <2>9. ASSUME NEW c \in Client, LedgerRollback(c) PROVE Undoing!Next
    BY <2>9, RollbackRefines DEF Undoing!Next
  <2>10. ASSUME NEW n \in PackageName, InstallCommand(n) PROVE Undoing!Next
    <3>1. image \in PackageImage /\ Builtin[n] \in PackageVersion /\ Room(image)
      BY <2>0, <2>10, LedgerAssumption DEF LedgerTypeOK, InstallCommand
    <3>2. [image EXCEPT ![n] = Builtin[n]] \in PackageImage
      BY <3>1, InstallInImage
    <3> QED BY <3>2, <2>2, <2>10 DEF InstallCommand, ExecuteCommand
  <2>11. ASSUME NEW n \in PackageName, RemoveCommand(n) PROVE Undoing!Next
    <3>1. [image EXCEPT ![n] = 0] \in PackageImage
      BY <2>0, <2>11, ReplaceInImage DEF LedgerTypeOK, RemoveCommand
    <3> QED BY <3>1, <2>2, <2>11 DEF RemoveCommand, ExecuteCommand
  <2>12. ASSUME NEW n \in PackageName, UpdateCommand(n) PROVE Undoing!Next
    <3>1. [image EXCEPT ![n] = Builtin[n]] \in PackageImage
      BY <2>0, <2>12, ReplaceInImage, LedgerAssumption DEF LedgerTypeOK, UpdateCommand
    <3> QED BY <3>1, <2>2, <2>12 DEF UpdateCommand, ExecuteCommand
  <2>13. CASE Save
    <3>1. image' = image /\ checkpoints' = checkpoints /\ saved'.image = image
      BY <2>13 DEF Save, ledger
    <3>2. Past' = Past
      BY <3>1 DEF Past, Images
    <3> QED BY <3>1, <3>2 DEF Undoing!Next, Undoing!Save, Past, Images
  <2>14. CASE Restart
    <3>1. image' = saved.image /\ checkpoints' = << >> /\ saved' = saved
      BY <2>14 DEF Restart
    <3>2. Past' = << >>
      BY <3>1 DEF Past, Images
    <3> QED BY <3>1, <3>2 DEF Undoing!Next, Undoing!Restart, Past, Images
  <2>15. CASE UNCHANGED ledgerVars
    BY <2>1, <2>15 DEF ledgerVars, ledger
  <2> QED BY <2>1, <2>3, <2>4, <2>5, <2>6, <2>7, <2>8, <2>9, <2>10, <2>11, <2>12,
             <2>13, <2>14, <2>15 DEF LedgerNext
<1> QED BY <1>1, <1>2, LedgerInvariant, PTL DEF LedgerSpec, UndoesExactly, Undoing!Spec, Past, Images
=============================================================================
