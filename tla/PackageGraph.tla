---------------------------- MODULE PackageGraph ----------------------------
(***************************************************************************)
(* The signed release data that every part of the package service reads:   *)
(* which receipts exist, what they are for, what they require and refuse.  *)
(* A requirement is represented by the set of receipts that meet one of    *)
(* its alternatives (candidate_satisfies), a conflict by the receipts it   *)
(* matches.                                                                *)
(***************************************************************************)
EXTENDS Naturals, FiniteSets

CONSTANTS
  Package,    \* package names
  Receipt,    \* service receipts: an admitted release with its provenance
  Artifact,   \* binary identities: package, version, release and digest
  Absent,     \* no receipt
  PackageOf,  \* receipt -> the package it is for
  Identity,   \* receipt -> the binary identity it records
  Sequence,   \* receipt -> its signed package sequence
  Requires,   \* receipt -> its requirements, each the receipts that meet it
  Conflicts   \* receipt -> the receipts it refuses to coexist with

ASSUME GraphAssumption ==
  /\ IsFiniteSet(Receipt)
  /\ PackageOf \in [Receipt -> Package]
  /\ Identity \in [Receipt -> Artifact]
  /\ \A r, s \in Receipt : Identity[r] = Identity[s] => PackageOf[r] = PackageOf[s]
  /\ Sequence \in [Receipt -> Nat]
  /\ Requires \in [Receipt -> SUBSET SUBSET Receipt]
  /\ Conflicts \in [Receipt -> SUBSET Receipt]
  /\ Absent \notin Receipt /\ Absent \notin Artifact

(* What ensure_removal_safe demands of the receipts that a removal leaves. *)
Supported(S) == \A r \in S : \A q \in Requires[r] : q \cap S # {}

(* What solve_dependency_graph demands of a selection. *)
Consistent(S) ==
  /\ Supported(S)
  /\ \A r, s \in S : r # s => s \notin Conflicts[r]

(* enforce_update_floor, as far as the package sequence and identity go. *)
UpdateAllowed(old, new) ==
  \/ Sequence[new] > Sequence[old]
  \/ Sequence[new] = Sequence[old] /\ Identity[new] = Identity[old]
=============================================================================
