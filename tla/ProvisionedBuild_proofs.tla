----------------------- MODULE ProvisionedBuild_proofs -----------------------
(***************************************************************************)
(* What the hardware commands guarantee for any plans, profiles, indexes,  *)
(* recipes and number of calls, failures and kills: a build runs in a tree *)
(* of exactly its locked sources, only what was signed or admitted is      *)
(* recorded or installed, records keep their artifacts, and a refused plan *)
(* set is taken back.                                                      *)
(***************************************************************************)
EXTENDS ProvisionedBuild, FiniteSetTheorems, SequenceTheorems, TLAPS

(* A set of numbers that is not empty has a least element.                       *)
LEMMA LeastNat ==
  ASSUME NEW S \in SUBSET Nat, S # {}
  PROVE  \E i \in S : \A j \in S : i <= j
<1> DEFINE Below == {0..i : i \in S}
<1>1. PICK i \in S : \A s \in Below : <<s, 0..i>> \notin StrictSubsetOrdering(Nat)
  <2>1. \A j \in Nat : 0..j \in FiniteSubsetsOf(Nat)
    BY FS_Interval DEF FiniteSubsetsOf
  <2>2. Below \subseteq FiniteSubsetsOf(Nat) /\ Below # {}
    BY <2>1
  <2>3. IsWellFoundedOn(StrictSubsetOrdering(Nat), FiniteSubsetsOf(Nat))
    BY FS_StrictSubsetOrderingWellFounded
  <2> HIDE DEF Below
  <2>4. \E x \in Below : \A s \in Below : <<s, x>> \notin StrictSubsetOrdering(Nat)
    BY <2>2, <2>3, WFMin
  <2> QED BY <2>4 DEF Below
<1>2. \A j \in S : i <= j
  <2> SUFFICES ASSUME NEW j \in S, j < i PROVE FALSE
    OBVIOUS
  <2>1. 0..j \subseteq 0..i /\ i \in 0..i /\ i \notin 0..j /\ 0..i \subseteq Nat
    OBVIOUS
  <2>2. <<0..j, 0..i>> \in StrictSubsetOrdering(Nat)
    BY <2>1 DEF StrictSubsetOrdering
  <2> QED BY <1>1, <2>2
<1> QED BY <1>2

(* Of the numbers that finitely many indices have, one is the greatest: the one  *)
(* that the fewest indices exceed.                                               *)
LEMMA GreatestValue ==
  ASSUME NEW D, IsFiniteSet(D), D # {}, NEW f \in [D -> Int]
  PROVE  \E i \in D : \A j \in D : f[j] <= f[i]
<1> DEFINE Above(i) == {j \in D : f[j] > f[i]}
           Sizes == {Cardinality(Above(i)) : i \in D}
<1>1. \A i \in D : IsFiniteSet(Above(i)) /\ Cardinality(Above(i)) \in Nat
  BY FS_Subset, FS_CardinalityType
<1>2. Sizes \in SUBSET Nat /\ Sizes # {}
  BY <1>1
<1>3. PICK n \in Sizes : \A m \in Sizes : n <= m
  <2> HIDE DEF Sizes
  <2> QED BY <1>2, LeastNat
<1>4. PICK i \in D : n = Cardinality(Above(i))
  BY <1>3
<1>5. \A j \in D : Cardinality(Above(i)) <= Cardinality(Above(j))
  BY <1>3, <1>4
<1>6. ASSUME NEW j \in D, f[j] > f[i] PROVE FALSE
  <2>1. Above(j) \subseteq Above(i) /\ j \in Above(i) /\ j \notin Above(j)
    BY <1>6
  <2>2. Cardinality(Above(j)) <= Cardinality(Above(i)) /\ Cardinality(Above(j)) # Cardinality(Above(i))
    <3> HIDE DEF Above
    <3> QED BY <1>1, <2>1, FS_Subset
  <2> HIDE DEF Above
  <2> QED BY <1>1, <1>5, <2>2
<1> HIDE DEF Above
<1> QED BY <1>6

(* The elements of a finite set as a sequence.                                   *)
LEMMA ListsASet ==
  ASSUME NEW S, IsFiniteSet(S)
  PROVE  SetToSeq(S) \in Seq(S) /\ (S # {} => SetToSeq(S) # <<>>)
<1> DEFINE c == Cardinality(S)
           q == SetToSeq(S)
<1>1. c \in Nat /\ ExistsBijection(1..c, S) /\ (c = 0 <=> S = {})
  BY FS_CardinalityType, FS_EmptySet
<1>2. q \in [1..c -> S]
  <2>1. \E f \in [1..c -> S] : IsInjective(f)
    BY <1>1 DEF ExistsBijection, Bijection, Injection, IsInjective
  <2> QED BY <2>1 DEF SetToSeq
<1> HIDE DEF c, q
<1>3. q \in Seq(S) /\ Len(q) = c
  BY <1>1, <1>2, SeqDef
<1>4. S # {} => q # <<>>
  <2>1. Len(<<>>) = 0
    OBVIOUS
  <2> QED BY <1>1, <1>3, <2>1
<1> QED BY <1>3, <1>4 DEF q

(* What a union of plans is built in: one intent of each name and version.       *)
LEMMA InOrderLists ==
  ASSUME NEW S, IsFiniteSet(S), S # {}
  PROVE  InOrder(S) \in Seq(S) /\ InOrder(S) # <<>>
<1> DEFINE One == OnePerKey(S)
<1>1. \A k \in {Key(i) : i \in S} : (CHOOSE i \in S : Key(i) = k) \in S
  OBVIOUS
<1>2. One \in SUBSET S /\ One # {}
  <2> DEFINE Keys == {Key(i) : i \in S}
             Chosen(k) == CHOOSE i \in S : Key(i) = k
  <2>1. One = {Chosen(k) : k \in Keys}
    BY DEF OnePerKey
  <2>2. \A k \in Keys : Chosen(k) \in S
    BY <1>1
  <2>3. Keys # {}
    OBVIOUS
  <2> HIDE DEF Keys, Chosen, One
  <2> QED BY <2>1, <2>2, <2>3
<1> HIDE DEF One
<1>3. IsFiniteSet(One)
  BY <1>2, FS_Subset
<1>4. SetToSeq(One) \in Seq(One) /\ SetToSeq(One) # <<>>
  BY <1>2, <1>3, ListsASet
<1>5. SetToSeq(One) \in Seq(S)
  <2> DEFINE q == SetToSeq(One)
  <2> HIDE DEF q
  <2>1. q \in Seq(One) => q \in Seq(S)
    BY <1>2
  <2>2. q \in Seq(One)
    BY <1>4 DEF q
  <2> QED BY <2>1, <2>2 DEF q
<1> QED BY <1>4, <1>5 DEF InOrder, One

(* What a sequence lists is what it has at its places, finitely many.            *)
LEMMA ListedAt ==
  ASSUME NEW q, IsSeq(q)
  PROVE  /\ Len(q) \in Nat /\ DOMAIN q = 1 .. Len(q)
         /\ \A x \in Range(q) : \E n \in 1 .. Len(q) : q[n] = x
         /\ \A n \in 1 .. Len(q) : q[n] \in Range(q)
         /\ IsFiniteSet(Range(q))
         /\ q # <<>> => Range(q) # {}
<1>1. Len(q) \in Nat /\ DOMAIN q = 1 .. Len(q) /\ q \in [1 .. Len(q) -> Range(q)]
  BY DEF IsSeq
<1>2. /\ \A x \in Range(q) : \E n \in 1 .. Len(q) : q[n] = x
      /\ \A n \in 1 .. Len(q) : q[n] \in Range(q)
  BY <1>1 DEF Range
<1>3. IsFiniteSet(Range(q))
  <2> DEFINE m == Len(q)
             R0 == Range(q)
  <2>1. q \in Surjection(1..m, R0) /\ m \in Nat
    BY <1>1, <1>2 DEF Surjection
  <2> HIDE DEF m, R0
  <2>2. IsFiniteSet(1..m)
    BY <2>1, FS_Interval
  <2>3. IsFiniteSet(R0)
    BY <2>1, <2>2, FS_Surjection
  <2> QED BY <2>3 DEF R0
<1>4. q # <<>> => Range(q) # {}
  <2> SUFFICES ASSUME q # <<>> PROVE Range(q) # {}
    OBVIOUS
  <2>1. Len(q) # 0
    BY EmptySeq DEF IsSeq
  <2>2. 1 \in 1 .. Len(q)
    BY <1>1, <2>1
  <2> QED BY <1>2, <2>2
<1> QED BY <1>1, <1>2, <1>3, <1>4

(* The intents of a submission are finitely many: else the plans have a shortest *)
(* beginning that holds infinitely many.                                         *)
LEMMA IntentsFinite ==
  ASSUME NEW s \in Submission, s.plans # <<>>
  PROVE  IsFiniteSet(Intents(s.plans)) /\ Intents(s.plans) # {}
<1> DEFINE m == Len(s.plans)
           Of(n) == Range(s.plans[n].package)
           First(n) == UNION {Of(x) : x \in 1..n}
           Bad == {n \in 0..m : ~IsFiniteSet(First(n))}
<1>1. /\ m \in Nat /\ m # 0
      /\ Range(s.plans) = {s.plans[x] : x \in 1..m}
      /\ \A x \in 1..m : s.plans[x] \in Range(s.plans)
  <2>1. IsSeq(s.plans)
    BY ProvisionAssumption
  <2>2. Len(s.plans) # 0
    BY <2>1, EmptySeq DEF IsSeq
  <2> QED BY <2>1, <2>2, ListedAt
<1>2. \A x \in 1..m : IsFiniteSet(Of(x)) /\ Of(x) # {}
  <2> SUFFICES ASSUME NEW x \in 1..m PROVE IsFiniteSet(Of(x)) /\ Of(x) # {}
    OBVIOUS
  <2>1. IsSeq(s.plans[x].package) /\ s.plans[x].package # <<>>
    BY <1>1, ProvisionAssumption
  <2> QED BY <2>1, ListedAt
<1>3. Intents(s.plans) = First(m)
  BY <1>1 DEF Intents
<1>4. First(0) = {}
  OBVIOUS
<1>5. \A n \in Nat : First(n + 1) = First(n) \cup Of(n + 1)
  <2> HIDE DEF Of
  <2> SUFFICES ASSUME NEW n \in Nat PROVE First(n + 1) = First(n) \cup Of(n + 1)
    OBVIOUS
  <2>1. 1..n + 1 = 1..n \cup {n + 1}
    OBVIOUS
  <2> QED BY <2>1
<1> HIDE DEF m, First, Of
<1>6. Bad = {}
  <2> SUFFICES ASSUME Bad # {} PROVE FALSE
    OBVIOUS
  <2>1. PICK n \in Bad : \A k \in Bad : n <= k
    <3>1. Bad \in SUBSET Nat
      BY <1>1
    <3> HIDE DEF Bad
    <3> QED BY <3>1, LeastNat
  <2>2. n \in 0..m /\ n # 0
    BY <1>4, <2>1, FS_EmptySet
  <2>3. n - 1 \in 0..m /\ n - 1 \notin Bad /\ n \in 1..m /\ (n - 1) + 1 = n /\ n - 1 \in Nat
    BY <1>1, <2>1, <2>2
  <2>4. First(n) = First(n - 1) \cup Of(n)
    BY <1>5, <2>3
  <2>5. IsFiniteSet(First(n - 1)) /\ IsFiniteSet(Of(n))
    BY <1>2, <2>3
  <2>6. IsFiniteSet(First(n - 1) \cup Of(n))
    BY <2>5, FS_Union
  <2> QED BY <2>1, <2>4, <2>6
<1>7. IsFiniteSet(First(m))
  <2>1. m \in 0..m
    BY <1>1
  <2> QED BY <1>6, <2>1
<1>8. First(m) # {}
  <2>1. 1 \in 1..m
    BY <1>1
  <2> QED BY <1>2, <2>1 DEF First
<1> QED BY <1>3, <1>7, <1>8

-----------------------------------------------------------------------------
(* Which commands may begin                                                      *)

(* Plans that are verified ask for what trusted profiles name.                   *)
LEMMA PlansProfiled ==
  ASSUME NEW s \in Submission, PlanSetVerified(s.plans, s.docs, Cpu)
  PROVE  /\ s.plans # <<>>
         /\ \A i \in Intents(s.plans) : i \in Asked /\ Says(Profiled, i)
<1>1. s.plans # <<>>
  BY DEF PlanSetVerified
<1>2. ASSUME NEW i \in Intents(s.plans) PROVE i \in Asked /\ Says(Profiled, i)
  <2>1. i \in Asked
    BY <1>2 DEF Asked
  <2>2. PICK n \in 1 .. Len(s.plans) : i \in Range(s.plans[n].package)
    <3>1. IsSeq(s.plans)
      BY ProvisionAssumption
    <3>2. PICK plan \in Range(s.plans) : i \in Range(plan.package)
      BY <1>2 DEF Intents
    <3> QED BY <3>1, <3>2, ListedAt
  <2>3. PICK k \in TrustedFor(s.plans[n], s.docs) : PlanVerified(s.plans[n], s.docs[k], Cpu)
    BY DEF PlanSetVerified
  <2>4. IsSeq(s.docs) /\ IsSeq(s.plans)
    BY ProvisionAssumption
  <2>5. s.docs[k] \in Range(s.docs) /\ s.docs[k].trusted
    BY <2>3, <2>4, ListedAt DEF TrustedFor
  <2>6. IsSeq(s.docs[k].package) /\ IsSeq(s.plans[n].package)
    <3>1. s.plans[n] \in Range(s.plans)
      BY <2>4, ListedAt
    <3> QED BY <2>5, <3>1, ProvisionAssumption
  <2>7. PICK x \in 1 .. Len(s.plans[n].package) : s.plans[n].package[x] = i
    BY <2>2, <2>6, ListedAt
  <2>8. /\ Len(s.plans[n].package) = Len(s.docs[k].package)
        /\ IntentMatches(i, s.docs[k].package[x])
    BY <2>3, <2>7 DEF PlanVerified
  <2> DEFINE j == s.docs[k].package[x]
  <2>9. j \in Range(s.docs[k].package)
    BY <2>6, <2>7, <2>8, ListedAt
  <2>10. j \in Profiled
    BY <2>5, <2>9 DEF Profiled
  <2>11. i.name = j.name /\ i.version = j.version /\ i.artifact = j.artifact
    <3>1. \A f \in {"name", "version", "artifact"} : i[f] = j[f]
      BY <2>8 DEF IntentMatches, BoundFields
    <3> HIDE DEF j
    <3> QED BY <3>1
  <2> QED BY <2>1, <2>10, <2>11 DEF Says
<1> QED BY <1>1, <1>2

(* The record that an index selects is one of its own.                           *)
LEMMA SelectedIndexed ==
  ASSUME NEW s \in Submission, s.index # None, IndexVerified(s.index), NEW name,
         Matching(s.index, name, None) # {}
  PROVE  Select(s.index, name, None) \in Indexed
<1> DEFINE M == Matching(s.index, name, None)
           f == [p \in M |-> p.sequence]
<1>1. IsSeq(s.index.packages) /\ \A p \in Range(s.index.packages) : p.sequence \in Nat
  BY ProvisionAssumption
<1>2. M \in SUBSET Range(s.index.packages) /\ M # {}
  BY DEF Matching
<1>3. s.index.trusted
  BY DEF IndexVerified
<1>4. Range(s.index.packages) \subseteq Indexed
  BY <1>3 DEF Indexed
<1>5. IsFiniteSet(M)
  <2>1. IsFiniteSet(Range(s.index.packages))
    BY <1>1, ListedAt
  <2> HIDE DEF M
  <2> QED BY <1>2, <2>1, FS_Subset
<1>6. f \in [M -> Int]
  BY <1>1, <1>2
<1> HIDE DEF M
<1>7. PICK p \in M : \A q \in M : f[q] <= f[p]
  <2> HIDE DEF f
  <2> QED BY <1>2, <1>5, <1>6, GreatestValue
<1>8. \E r \in M : \A q \in M : q.sequence <= r.sequence
  BY <1>7
<1>9. Select(s.index, name, None) \in M
  BY <1>8 DEF Select, M
<1> QED BY <1>2, <1>4, <1>9

(* Records of an index that cover the same intents make them agree.              *)
LEMMA CoveredAgree ==
  ASSUME NEW ix, NEW plans, IndexCovers(ix, plans)
  PROVE  \A i, j \in Intents(plans) : Key(i) = Key(j) => Agree(i, j)
<1> SUFFICES ASSUME NEW i \in Intents(plans), NEW j \in Intents(plans), Key(i) = Key(j)
             PROVE  Agree(i, j)
  OBVIOUS
<1>1. i.name = j.name /\ i.version = j.version
  BY DEF Key
<1> DEFINE p == Select(ix, i.name, i.version)
<1>2. Agree(p, i)
  BY DEF IndexCovers
<1>3. Agree(p, j)
  <2>1. Agree(Select(ix, j.name, j.version), j)
    BY DEF IndexCovers
  <2> QED BY <1>1, <2>1
<1> QED BY <1>2, <1>3 DEF Agree

(* What a command starts with.                                                   *)
Startable(pc, route, verb, to, intents) ==
  /\ pc \in {"recipe", "fetch"} /\ route \in {"build", "admitted", "binary", "plans"}
  /\ verb \in {"install", "update"} /\ to \in {"store", "root", "none"}
  /\ pc = "recipe" <=> route \in {"build", "admitted"}
  /\ intents \in Seq(Asked) /\ intents # <<>>
  /\ \A i \in Range(intents) : Warranted(route, i)
  /\ \A i, j \in Range(intents) : Key(i) = Key(j) => Agree(i, j)
  /\ route = "admitted" => to = "root"
  /\ route \in {"admitted", "binary"} \/ (verb = "update" /\ to = "root") => Len(intents) = 1

LEMMA RangeListed ==
  ASSUME NEW S, NEW q \in Seq(S)
  PROVE  /\ Range(q) \subseteq S /\ Len(q) \in Nat /\ DOMAIN q = 1 .. Len(q)
         /\ \A n \in 1 .. Len(q) : q[n] \in Range(q)
<1>1. Len(q) \in Nat /\ DOMAIN q = 1 .. Len(q) /\ \A n \in 1 .. Len(q) : q[n] \in S
  OBVIOUS
<1>2. Range(q) = {q[n] : n \in 1 .. Len(q)}
  BY <1>1 DEF Range
<1> QED BY <1>1, <1>2

LEMMA OneListed ==
  ASSUME NEW i
  PROVE  /\ <<i>> \in Seq({i}) /\ <<i>> # <<>> /\ Len(<<i>>) = 1 /\ Range(<<i>>) = {i}
<1>1. DOMAIN <<i>> = {1} /\ <<i>>[1] = i
  OBVIOUS
<1>2. Range(<<i>>) = {i}
  BY <1>1 DEF Range
<1> QED BY <1>2

LEMMA BeginGood ==
  ASSUME BeginBuild \/ BeginAdmitted \/ BeginBinary \/ BeginBinaryPlans
  PROVE  /\ Run("idle")
         /\ \E pc, route, verb, to, intents :
              Startable(pc, route, verb, to, intents) /\ Start(pc, route, verb, to, intents)
<1>1. CASE BeginBuild
  <2>1. PICK s \in Submission, verb \in {"install", "update"}, to \in {"store", "root"} :
          /\ ~(verb = "update" /\ to = "root")
          /\ PlanSetVerified(s.plans, s.docs, Cpu) /\ BuildUnionValid(s.plans)
          /\ Start("recipe", "build", verb, to, InOrder(Intents(s.plans)))
    BY <1>1 DEF BeginBuild
  <2> DEFINE S == Intents(s.plans)
             q == InOrder(S)
  <2>2. IsFiniteSet(S) /\ S # {} /\ \A i \in S : i \in Asked /\ Says(Profiled, i)
    BY <2>1, PlansProfiled, IntentsFinite
  <2>3. \A i, j \in S : Key(i) = Key(j) => Agree(i, j)
    BY <2>1 DEF BuildUnionValid, InstallUnionValid
  <2> HIDE DEF S
  <2>4. q \in Seq(S) /\ q # <<>>
    BY <2>2, InOrderLists
  <2> HIDE DEF q
  <2>5. Range(q) \subseteq S
    BY <2>4, RangeListed
  <2>6. q \in Seq(Asked)
    <3>1. S \subseteq Asked
      BY <2>2
    <3> QED BY <2>4, <3>1
  <2>7. Startable("recipe", "build", verb, to, q)
    BY <2>1, <2>2, <2>3, <2>4, <2>5, <2>6 DEF Startable, Warranted
  <2>8. Start("recipe", "build", verb, to, q)
    BY <2>1 DEF q, S
  <2> QED BY <1>1, <2>7, <2>8 DEF BeginBuild, MayStart
<1>2. CASE BeginAdmitted
  <2>1. PICK r \in Admitted : Start("recipe", "admitted", "install", "root", <<AdmittedIntent(r)>>)
    BY <1>2 DEF BeginAdmitted
  <2> DEFINE i == AdmittedIntent(r)
  <2>2. i \in Asked /\ Warranted("admitted", i)
    BY DEF Asked, Warranted
  <2>3. <<i>> \in Seq({i}) /\ <<i>> # <<>> /\ Len(<<i>>) = 1 /\ Range(<<i>>) = {i}
    BY OneListed
  <2> HIDE DEF i
  <2>4. <<i>> \in Seq(Asked)
    BY <2>2, <2>3
  <2>5. Startable("recipe", "admitted", "install", "root", <<i>>)
    BY <2>2, <2>3, <2>4 DEF Startable, Agree
  <2> QED BY <1>2, <2>1, <2>5 DEF BeginAdmitted, MayStart, i
<1>3. CASE BeginBinary
  <2>1. PICK s \in Submission, name \in Name, verb \in {"install", "update"}, to \in {"store", "root"} :
          /\ s.index # None /\ IndexVerified(s.index)
          /\ Matching(s.index, name, None) # {}
          /\ Start("fetch", "binary", verb, to, <<IntentOf(Select(s.index, name, None))>>)
    BY <1>3 DEF BeginBinary
  <2> DEFINE p == Select(s.index, name, None)
             i == IntentOf(p)
  <2>2. p \in Indexed
    BY <2>1, SelectedIndexed
  <2> HIDE DEF p
  <2>3. i \in Asked /\ Warranted("binary", i)
    <3>1. i.name = p.name /\ i.version = p.version /\ i.artifact = p.artifact
      BY DEF IntentOf
    <3> QED BY <2>2, <3>1 DEF Asked, Warranted, Says
  <2>4. <<i>> \in Seq({i}) /\ <<i>> # <<>> /\ Len(<<i>>) = 1 /\ Range(<<i>>) = {i}
    BY OneListed
  <2> HIDE DEF i
  <2>5. <<i>> \in Seq(Asked)
    BY <2>3, <2>4
  <2>6. Startable("fetch", "binary", verb, to, <<i>>)
    BY <2>3, <2>4, <2>5 DEF Startable, Agree
  <2> QED BY <1>3, <2>1, <2>6 DEF BeginBinary, MayStart, i, p
<1>4. CASE BeginBinaryPlans
  <2>1. PICK s \in Submission :
          /\ s.index # None /\ IndexVerified(s.index)
          /\ PlanSetVerified(s.plans, s.docs, Cpu)
          /\ \/ BinarySetValid(s.index, s.plans)
                /\ Start("fetch", "plans", "install", "root", InOrder(Intents(s.plans)))
             \/ /\ Len(s.plans) = 1
                /\ \E n \in 1 .. Len(s.plans[1].package) :
                     /\ IndexCovers(s.index, Leading(s.plans[1], n))
                     /\ Start("fetch", "plans", "install",
                              IF n = Len(s.plans[1].package) THEN "store" ELSE "none",
                              SubSeq(s.plans[1].package, 1, n))
    BY <1>4 DEF BeginBinaryPlans
  <2> DEFINE S == Intents(s.plans)
  <2>2. IsFiniteSet(S) /\ S # {} /\ \A i \in S : i \in Asked /\ Says(Profiled, i)
    BY <2>1, PlansProfiled, IntentsFinite
  <2>3. ASSUME NEW q \in Seq(S), q # <<>>,
               \A i, j \in Range(q) : Key(i) = Key(j) => Agree(i, j)
        PROVE  \A to \in {"store", "root", "none"} : Startable("fetch", "plans", "install", to, q)
    <3> HIDE DEF S
    <3>1. Range(q) \subseteq S
      BY <2>3, RangeListed
    <3>2. q \in Seq(Asked)
      <4>1. S \subseteq Asked
        BY <2>2
      <4> QED BY <2>3, <4>1
    <3> QED BY <2>2, <2>3, <3>1, <3>2 DEF Startable, Warranted
  <2>4. CASE BinarySetValid(s.index, s.plans)
             /\ Start("fetch", "plans", "install", "root", InOrder(S))
    <3> DEFINE q == InOrder(S)
    <3>1. \A i, j \in S : Key(i) = Key(j) => Agree(i, j)
      BY <2>4, CoveredAgree DEF BinarySetValid
    <3> HIDE DEF S
    <3>2. q \in Seq(S) /\ q # <<>>
      BY <2>2, InOrderLists
    <3> HIDE DEF q
    <3>3. Range(q) \subseteq S
      BY <3>2, RangeListed
    <3>4. Startable("fetch", "plans", "install", "root", q)
      BY <2>3, <3>1, <3>2, <3>3
    <3>5. Start("fetch", "plans", "install", "root", q)
      BY <2>4 DEF q
    <3> QED BY <1>4, <3>4, <3>5 DEF BeginBinaryPlans, MayStart
  <2>5. CASE /\ Len(s.plans) = 1
             /\ \E n \in 1 .. Len(s.plans[1].package) :
                  /\ IndexCovers(s.index, Leading(s.plans[1], n))
                  /\ Start("fetch", "plans", "install",
                           IF n = Len(s.plans[1].package) THEN "store" ELSE "none",
                           SubSeq(s.plans[1].package, 1, n))
    <3> DEFINE c == s.plans[1].package
    <3>1. PICK n \in 1 .. Len(c) :
            /\ IndexCovers(s.index, Leading(s.plans[1], n))
            /\ Start("fetch", "plans", "install", IF n = Len(c) THEN "store" ELSE "none", SubSeq(c, 1, n))
      BY <2>5
    <3> DEFINE q == SubSeq(c, 1, n)
               to == IF n = Len(c) THEN "store" ELSE "none"
    <3>2. IsSeq(c) /\ Range(c) \subseteq S
      <4>1. Len(s.plans) = 1 /\ IsSeq(s.plans)
        BY <2>5, ProvisionAssumption
      <4>2. s.plans[1] \in Range(s.plans)
        BY <4>1, ListedAt
      <4> QED BY <4>2, ProvisionAssumption DEF Intents
    <3>3. Intents(Leading(s.plans[1], n)) = Range(q)
      <4>1. Range(Leading(s.plans[1], n)) = {[package |-> q]}
        BY OneListed DEF Leading
      <4> HIDE DEF q
      <4> QED BY <4>1 DEF Intents
    <3>4. \A i, j \in Range(q) : Key(i) = Key(j) => Agree(i, j)
      BY <3>1, <3>3, CoveredAgree
    <3>5. c \in Seq(Range(c)) /\ n \in 1 .. Len(c) /\ Len(c) \in Nat
      BY <3>1, <3>2 DEF IsSeq
    <3> HIDE DEF c, S
    <3>6. c \in Seq(S)
      BY <3>2, <3>5
    <3>7. q \in Seq(S) /\ Len(q) = n /\ q # <<>>
      BY <3>5, <3>6
    <3>8. to \in {"store", "root", "none"}
      OBVIOUS
    <3>9. Start("fetch", "plans", "install", to, q)
      BY <3>1
    <3> HIDE DEF q, to
    <3>10. Startable("fetch", "plans", "install", to, q)
      BY <2>3, <3>4, <3>7, <3>8
    <3> QED BY <1>4, <3>9, <3>10 DEF BeginBinaryPlans, MayStart
  <2> QED BY <2>1, <2>4, <2>5
<1> QED BY <1>1, <1>2, <1>3, <1>4

-----------------------------------------------------------------------------
(* The steps of a command                                                        *)

(* What a command was given stays what it was.                                   *)
SameTask ==
  /\ cmd'.route = cmd.route /\ cmd'.verb = cmd.verb /\ cmd'.to = cmd.to
  /\ cmd'.intents = cmd.intents /\ cmd'.before = cmd.before

LEMMA SameTaskSame ==
  ASSUME SameTask
  PROVE  /\ Names(cmd') = Names(cmd) /\ Twice(cmd') = Twice(cmd)
         /\ Building' = Building /\ Kind' = Kind
         /\ cmd'.n = cmd.n => Cur' = Cur
BY DEF SameTask, Names, Twice, Building, Kind, Cur

(* What is warranted is of a known package.                                      *)
LEMMA WarrantedKnown ==
  ASSUME NEW route, NEW i, Warranted(route, i)
  PROVE  /\ i.name \in Name /\ i.version \in {r.version : r \in Recipe}
         /\ Out("tree", i) \in Outs /\ Out("file", i) \in Outs
         /\ route # "admitted" => Says(Signed, i) /\ i.artifact \in Digest
<1>1. ASSUME NEW r \in Recipe, i.name = r.name, i.version = r.version
      PROVE  /\ i.name \in Name /\ i.version \in {q.version : q \in Recipe}
             /\ Out("tree", i) \in Outs /\ Out("file", i) \in Outs
  BY <1>1 DEF Name, Out, Outs
<1>2. CASE route = "admitted"
  <2>1. PICK r \in Admitted : i = AdmittedIntent(r)
    BY <1>2 DEF Warranted
  <2>2. r \in Recipe /\ i.name = r.name /\ i.version = r.version
    BY <2>1, ProvisionAssumption DEF AdmittedIntent
  <2> QED BY <1>1, <1>2, <2>2
<1>3. CASE route # "admitted"
  <2>1. Says(Signed, i)
    BY <1>3 DEF Warranted, Says, Signed
  <2>2. PICK j \in Signed : j.name = i.name /\ j.version = i.version /\ j.artifact = i.artifact
    BY <2>1 DEF Says
  <2>3. Out("tree", j) \in Outs /\ j.artifact \in Digest
    BY ProvisionAssumption
  <2>4. PICK r \in Recipe : j.name = r.name /\ j.version = r.version
    <3>1. PICK kind \in {"tree", "file"}, r \in Recipe : Out("tree", j) = Out(kind, r)
      BY <2>3 DEF Outs
    <3> QED BY <3>1 DEF Out
  <2> QED BY <1>1, <1>3, <2>1, <2>2, <2>3, <2>4
<1> QED BY <1>2, <1>3

(* An intent of a command is of a known package.                                 *)
LEMMA IntentKnown ==
  ASSUME CommandInv, ~Run("idle"), NEW i \in Range(cmd.intents)
  PROVE  /\ i \in Asked /\ i.name \in Name /\ i.version \in {r.version : r \in Recipe}
         /\ Out("tree", i) \in Outs /\ Out("file", i) \in Outs
         /\ cmd.route # "admitted" => Says(Signed, i) /\ i.artifact \in Digest
         /\ cmd.route \in {"build", "plans"} => Says(Profiled, i)
         /\ cmd.route = "admitted" => \E r \in Admitted : i = AdmittedIntent(r)
<1>1. i \in Asked
  BY RangeListed DEF CommandInv, Working
<1>2. Warranted(cmd.route, i)
  BY DEF CommandInv
<1>3. /\ cmd.route \in {"build", "plans"} => Says(Profiled, i)
      /\ cmd.route = "admitted" => \E r \in Admitted : i = AdmittedIntent(r)
  BY <1>2 DEF Warranted
<1> QED BY <1>1, <1>2, <1>3, WarrantedKnown

(* The intent being worked on.                                                   *)
LEMMA CurKnown ==
  ASSUME CommandInv, ~Run("idle"), ~Run("rollback")
  PROVE  /\ Cur \in Range(cmd.intents) /\ cmd.n \in 1 .. Len(cmd.intents)
         /\ Len(cmd.intents) \in Nat
<1>1. cmd.intents \in Seq(Asked) /\ cmd.n \in Nat /\ cmd.n # 0 /\ cmd.n <= Len(cmd.intents)
  BY DEF CommandInv, Working
<1>2. Len(cmd.intents) \in Nat /\ cmd.n \in 1 .. Len(cmd.intents)
  BY <1>1
<1> QED BY <1>1, <1>2, RangeListed DEF Cur

(* The recipe being built is one.                                                *)
LEMMA NowKnown ==
  ASSUME cmd.recipe \in {r.metadata : r \in Recipe}
  PROVE  Now \in Recipe /\ Now.metadata = cmd.recipe
<1>1. \E r \in Recipe : r.metadata = cmd.recipe
  OBVIOUS
<1> QED BY <1>1 DEF Now

(* The same command, but for where it is.                                        *)
SameBut(c, d) ==
  /\ d.route = c.route /\ d.verb = c.verb /\ d.to = c.to /\ d.intents = c.intents
  /\ d.before = c.before /\ d.recipe = c.recipe /\ d.k = c.k /\ d.phase = c.phase
  /\ d.receipts = c.receipts

(* Where a command goes with all its receipts.                                   *)
LEMMA AfterIs ==
  /\ AfterReceipts \in {"deploy", "refused", "retire", "record"}
  /\ AfterReceipts = "deploy" <=> cmd.to = "root"
  /\ AfterReceipts = "refused" <=> cmd.to = "none"
  BY DEF AfterReceipts

(* The step after the last receipt, or to the next intent.                       *)
LEMMA NextMoves ==
  ASSUME NEW c \in Working, NEW pc \in {"recipe", "fetch"}
  PROVE  /\ NextIntent(c, pc) \in Working /\ SameBut(c, NextIntent(c, pc))
         /\ AtEnd => NextIntent(c, pc).pc = AfterReceipts /\ NextIntent(c, pc).n = 1
         /\ ~AtEnd => NextIntent(c, pc).pc = pc /\ NextIntent(c, pc).n = c.n + 1
<1>1. AfterReceipts \in Pcs \ {"idle"} /\ pc \in Pcs \ {"idle"} /\ 1 \in Nat /\ c.n + 1 \in Nat
  BY AfterIs DEF Pcs, Working
<1>2. CASE AtEnd
  <2> DEFINE d == NextIntent(c, pc)
             to == AfterReceipts
             n == 1
  <2>1. d = [c EXCEPT !.pc = to, !.n = n]
    BY <1>2 DEF NextIntent
  <2>2. to \in Pcs \ {"idle"} /\ n \in Nat
    BY <1>1
  <2> HIDE DEF d, to, n
  <2>3. d \in Working /\ SameBut(c, d) /\ d.pc = to /\ d.n = n
    BY <2>1, <2>2 DEF Working, SameBut
  <2> QED BY <1>2, <2>3 DEF d, to, n
<1>3. CASE ~AtEnd
  <2> DEFINE d == NextIntent(c, pc)
             to == pc
             n == c.n + 1
  <2>1. d = [c EXCEPT !.pc = to, !.n = n]
    BY <1>3 DEF NextIntent
  <2>2. to \in Pcs \ {"idle"} /\ n \in Nat
    BY <1>1
  <2> HIDE DEF d, to, n
  <2>3. d \in Working /\ SameBut(c, d) /\ d.pc = to /\ d.n = n
    BY <2>1, <2>2 DEF Working, SameBut
  <2> QED BY <1>3, <2>3 DEF d, to, n
<1> QED BY <1>2, <1>3

(* How each step of a command that goes on moves it.                             *)
LEMMA StepMoves ==
  ASSUME CommandInv, ~Run("idle")
  PROVE  /\ ReadRecipe =>
              /\ cmd' \in Working /\ SameTask /\ cmd'.pc = "sources" /\ cmd'.n = cmd.n
              /\ cmd'.k = 1 /\ cmd'.phase = 1 /\ cmd'.receipts = cmd.receipts
         /\ BeginFetch =>
              cmd' \in Working /\ SameTask /\ SameBut(cmd, cmd') /\ cmd'.pc = "fetching" /\ cmd'.n = cmd.n
         /\ MarkReady =>
              cmd' \in Working /\ SameTask /\ SameBut(cmd, cmd') /\ cmd'.pc = "sources" /\ cmd'.n = cmd.n
         /\ MergeSource =>
              /\ cmd' \in Working /\ SameTask /\ cmd'.pc = "sources" /\ cmd'.n = cmd.n
              /\ cmd'.k = cmd.k + 1 /\ cmd'.phase = cmd.phase /\ cmd'.receipts = cmd.receipts
              /\ cmd'.recipe = cmd.recipe
         /\ PrepareClosure =>
              cmd' \in Working /\ SameTask /\ SameBut(cmd, cmd') /\ cmd'.pc = "build" /\ cmd'.n = cmd.n
         /\ RunPhase =>
              /\ cmd' \in Working /\ SameTask /\ cmd'.pc = "build" /\ cmd'.n = cmd.n
              /\ cmd'.k = cmd.k /\ cmd'.phase = cmd.phase + 1 /\ cmd'.receipts = cmd.receipts
              /\ cmd'.recipe = cmd.recipe
         /\ Retire \/ (Record /\ ~AtEnd) =>
              /\ cmd' \in Working /\ SameTask /\ SameBut(cmd, cmd')
              /\ AtEnd => cmd'.pc = "record" /\ cmd'.n = 1
              /\ ~AtEnd => cmd'.pc = cmd.pc /\ cmd'.n = cmd.n + 1
         /\ Deploy /\ ~AtEnd =>
              /\ cmd' \in Working /\ SameTask /\ SameBut(cmd, cmd') /\ cmd'.n = cmd.n + 1
              /\ cmd'.pc = IF cmd.route = "plans" THEN "fetch" ELSE "deploy"
         /\ DeployRefused \/ (Rollback /\ cmd.n # 0) =>
              /\ cmd' \in Working /\ SameTask /\ SameBut(cmd, cmd')
              /\ cmd'.pc = "rollback" /\ cmd'.n = cmd.n - 1
         /\ (Record /\ AtEnd) \/ (Deploy /\ AtEnd) => Return
         /\ Fail \/ Kill \/ (Rollback /\ cmd.n = 0) => Abort
<1>0. cmd \in Working /\ cmd.n \in Nat /\ cmd.k \in Nat /\ cmd.phase \in Nat
  BY DEF CommandInv, Working
<1>1. ASSUME ReadRecipe
      PROVE  /\ cmd' \in Working /\ SameTask /\ cmd'.pc = "sources" /\ cmd'.n = cmd.n
             /\ cmd'.k = 1 /\ cmd'.phase = 1 /\ cmd'.receipts = cmd.receipts
  <2>1. PICK r \in IF cmd.route = "admitted" THEN Admitted ELSE R!FindRecipe(Repository, Cur.name) :
          cmd' = [cmd EXCEPT !.pc = "sources", !.recipe = r.metadata, !.k = 1, !.phase = 1]
    BY <1>1 DEF ReadRecipe
  <2>2. Cur.name \in Name
    BY <1>1, CurKnown, IntentKnown DEF ReadRecipe, Run
  <2>3. r \in Recipe
    BY <2>1, <2>2, ProvisionAssumption
  <2>4. r.metadata \in {q.metadata : q \in Recipe}
    BY <2>3
  <2> QED BY <1>0, <2>1, <2>4 DEF Working, SameTask, Pcs
<1>2. ASSUME BeginFetch \/ MarkReady \/ PrepareClosure
      PROVE  /\ cmd' \in Working /\ SameTask /\ SameBut(cmd, cmd') /\ cmd'.n = cmd.n
             /\ BeginFetch => cmd'.pc = "fetching"
             /\ MarkReady => cmd'.pc = "sources"
             /\ PrepareClosure => cmd'.pc = "build"
  <2>1. PICK pc \in {"fetching", "sources", "build"} :
          /\ cmd' = [cmd EXCEPT !.pc = pc]
          /\ BeginFetch => pc = "fetching"
          /\ MarkReady => pc = "sources"
          /\ PrepareClosure => pc = "build"
    <3>1. BeginFetch => cmd' = [cmd EXCEPT !.pc = "fetching"] /\ Run("sources") /\ cmd.k <= Len(Sources)
      BY DEF BeginFetch, Go
    <3>2. MarkReady => cmd' = [cmd EXCEPT !.pc = "sources"] /\ Run("fetching")
      BY DEF MarkReady, Go
    <3>3. PrepareClosure => cmd' = [cmd EXCEPT !.pc = "build"] /\ Run("sources") /\ cmd.k > Len(Sources)
      BY DEF PrepareClosure, Go
    <3>4. BeginFetch /\ PrepareClosure => cmd'.pc = "fetching" /\ cmd'.pc = "build"
      BY <1>0, <3>1, <3>3 DEF Working
    <3> QED BY <1>2, <3>1, <3>2, <3>3, <3>4 DEF Run
  <2> QED BY <1>0, <2>1 DEF Working, SameTask, SameBut, Pcs
<1>3. ASSUME MergeSource
      PROVE  /\ cmd' \in Working /\ SameTask /\ cmd'.pc = "sources" /\ cmd'.n = cmd.n
             /\ cmd'.k = cmd.k + 1 /\ cmd'.phase = cmd.phase /\ cmd'.receipts = cmd.receipts
             /\ cmd'.recipe = cmd.recipe
  <2> DEFINE x == cmd.k + 1
  <2>1. cmd' = [cmd EXCEPT !.k = x] /\ cmd.pc = "sources"
    BY <1>3 DEF MergeSource, Run
  <2>2. x \in Nat
    BY <1>0
  <2> HIDE DEF x
  <2>3. /\ cmd' \in Working /\ SameTask /\ cmd'.pc = "sources" /\ cmd'.n = cmd.n
        /\ cmd'.k = x /\ cmd'.phase = cmd.phase /\ cmd'.receipts = cmd.receipts
        /\ cmd'.recipe = cmd.recipe
    BY <1>0, <2>1, <2>2 DEF Working, SameTask
  <2> QED BY <2>3 DEF x
<1>4. ASSUME RunPhase
      PROVE  /\ cmd' \in Working /\ SameTask /\ cmd'.pc = "build" /\ cmd'.n = cmd.n
             /\ cmd'.k = cmd.k /\ cmd'.phase = cmd.phase + 1 /\ cmd'.receipts = cmd.receipts
             /\ cmd'.recipe = cmd.recipe
  <2> DEFINE x == cmd.phase + 1
  <2>1. cmd' = [cmd EXCEPT !.phase = x] /\ cmd.pc = "build"
    BY <1>4 DEF RunPhase, Run
  <2>2. x \in Nat
    BY <1>0
  <2> HIDE DEF x
  <2>3. /\ cmd' \in Working /\ SameTask /\ cmd'.pc = "build" /\ cmd'.n = cmd.n
        /\ cmd'.k = cmd.k /\ cmd'.phase = x /\ cmd'.receipts = cmd.receipts
        /\ cmd'.recipe = cmd.recipe
    BY <1>0, <2>1, <2>2 DEF Working, SameTask
  <2> QED BY <2>3 DEF x
<1>5. ASSUME NEW pc \in Pcs \ {"idle"}, NEW n \in Nat, cmd' = [cmd EXCEPT !.pc = pc, !.n = n]
      PROVE  cmd' \in Working /\ SameTask /\ SameBut(cmd, cmd') /\ cmd'.pc = pc /\ cmd'.n = n
  BY <1>0, <1>5 DEF Working, SameTask, SameBut
<1>6. ASSUME Retire \/ (Record /\ ~AtEnd)
      PROVE  /\ cmd' \in Working /\ SameTask /\ SameBut(cmd, cmd')
             /\ AtEnd => cmd'.pc = "record" /\ cmd'.n = 1
             /\ ~AtEnd => cmd'.pc = cmd.pc /\ cmd'.n = cmd.n + 1
  <2>1. CASE AtEnd
    <3>1. cmd' = [cmd EXCEPT !.pc = "record", !.n = 1]
      BY <1>6, <2>1 DEF Retire
    <3>2. "record" \in Pcs \ {"idle"} /\ 1 \in Nat
      BY DEF Pcs
    <3> QED BY <1>5, <2>1, <3>1, <3>2
  <2>2. CASE ~AtEnd
    <3>1. cmd' = [cmd EXCEPT !.n = cmd.n + 1]
      BY <1>6, <2>2 DEF Retire, Record
    <3>2. cmd' = [cmd EXCEPT !.pc = cmd.pc, !.n = cmd.n + 1]
      BY <1>0, <3>1 DEF Working
    <3>3. cmd.pc \in Pcs \ {"idle"} /\ cmd.n + 1 \in Nat
      BY <1>0 DEF Working
    <3> QED BY <1>5, <2>2, <3>2, <3>3
  <2> QED BY <2>1, <2>2
<1>7. ASSUME Deploy, ~AtEnd
      PROVE  /\ cmd' \in Working /\ SameTask /\ SameBut(cmd, cmd') /\ cmd'.n = cmd.n + 1
             /\ cmd'.pc = IF cmd.route = "plans" THEN "fetch" ELSE "deploy"
  <2> DEFINE pc == IF cmd.route = "plans" THEN "fetch" ELSE "deploy"
  <2>1. cmd' = [cmd EXCEPT !.pc = pc, !.n = cmd.n + 1]
    <3>1. cmd' = [cmd EXCEPT !.n = cmd.n + 1, !.pc = pc]
      BY <1>7 DEF Deploy
    <3> QED BY <1>0, <3>1 DEF Working
  <2>2. pc \in Pcs \ {"idle"} /\ cmd.n + 1 \in Nat
    BY <1>0 DEF Pcs
  <2> QED BY <1>5, <2>1, <2>2
<1>8. ASSUME DeployRefused \/ (Rollback /\ cmd.n # 0)
      PROVE  /\ cmd' \in Working /\ SameTask /\ SameBut(cmd, cmd')
             /\ cmd'.pc = "rollback" /\ cmd'.n = cmd.n - 1
  <2>1. cmd' = [cmd EXCEPT !.pc = "rollback", !.n = cmd.n - 1]
    <3>1. CASE DeployRefused
      BY <3>1 DEF DeployRefused
    <3>2. CASE Rollback /\ cmd.n # 0
      <4>1. cmd' = [cmd EXCEPT !.n = cmd.n - 1] /\ cmd.pc = "rollback"
        BY <3>2 DEF Rollback, Run
      <4> QED BY <1>0, <4>1 DEF Working
    <3> QED BY <1>8, <3>1, <3>2
  <2>2. "rollback" \in Pcs \ {"idle"} /\ cmd.n - 1 \in Nat
    <3>1. cmd.n # 0
      BY <1>8 DEF DeployRefused, CommandInv, Run
    <3> QED BY <1>0, <3>1 DEF Pcs
  <2> QED BY <1>5, <2>1, <2>2
<1>9. (Record /\ AtEnd) \/ (Deploy /\ AtEnd) => Return
  BY DEF Record, Deploy
<1>10. Fail \/ Kill \/ (Rollback /\ cmd.n = 0) => Abort
  BY DEF Fail, Kill, Rollback
<1> QED BY <1>1, <1>2, <1>3, <1>4, <1>6, <1>7, <1>8, <1>9, <1>10

(* The recipe that is built is the one of the intent.                            *)
LEMMA NowIsCur ==
  ASSUME CommandInv, BuildInv, cmd.pc \in {"sources", "fetching", "build"}
  PROVE  /\ Now \in Recipe /\ Now.metadata = cmd.recipe
         /\ Now.name = Cur.name /\ Now.version = Cur.version
         /\ Now.metadata = Cur.metadata /\ Now.lock = Cur.lock
         /\ Out("tree", Now) = Out("tree", Cur)
         /\ \A d : Receipt(Now, "tree", d) = Receipt(Cur, "tree", d)
<1>1. cmd.recipe \in {r.metadata : r \in Recipe} /\ RecipeAdmitted(Now)
  BY DEF BuildInv
<1>2. Now \in Recipe /\ Now.metadata = cmd.recipe
  BY <1>1, NowKnown
<1>3. Now.name = Cur.name /\ Now.version = Cur.version /\ Now.metadata = Cur.metadata /\ Now.lock = Cur.lock
  BY <1>1 DEF RecipeAdmitted, R!RecipeValid
<1> QED BY <1>2, <1>3 DEF Out, Receipt

LEMMA ReceiptListed ==
  ASSUME NEW i \in Asked, NEW kind \in {"tree", "file"}, NEW d \in Digest
  PROVE  Receipt(i, kind, d) \in Receipts
BY DEF Receipts

LEMMA ReceiptParts ==
  ASSUME NEW r \in Receipts
  PROVE  /\ r.artifact \in Digest /\ r.out.kind \in {"tree", "file"}
         /\ r.out.name = r.name /\ r.out.version = r.version
<1>1. PICK i \in Asked, kind \in {"tree", "file"}, d \in Digest : r = Receipt(i, kind, d)
  BY DEF Receipts
<1> QED BY <1>1 DEF Receipt, Out

LEMMA MeasureMoves ==
  ASSUME CommandInv, BuildInv, Measure
  PROVE  \E d \in Digest :
           /\ cmd.route # "admitted" => d = Cur.artifact
           /\ cmd' \in Working /\ SameTask /\ cmd'.pc = "copy" /\ cmd'.n = cmd.n
           /\ cmd'.receipts = Append(cmd.receipts, Receipt(Cur, "tree", d))
           /\ artifact' = [artifact EXCEPT ![Out("tree", Cur)] = Torn]
<1>1. PICK d \in {Now.artifact, Other} :
         /\ cmd.route # "admitted" => d = Cur.artifact
         /\ cmd' = [cmd EXCEPT !.pc = "copy", !.receipts = Append(cmd.receipts, Receipt(Now, "tree", d))]
  BY DEF Measure
<1>2. cmd.pc = "build" /\ artifact' = [artifact EXCEPT ![Out("tree", Now)] = Torn]
  BY DEF Measure, Run
<1>3. Now \in Recipe /\ Out("tree", Now) = Out("tree", Cur) /\ Receipt(Now, "tree", d) = Receipt(Cur, "tree", d)
  BY <1>2, NowIsCur
<1>4. d \in Digest
  BY <1>1, <1>3 DEF Digest
<1>5. Receipt(Cur, "tree", d) \in Receipts
  <2>1. Cur \in Asked
    BY <1>2, CurKnown, IntentKnown DEF Run
  <2> QED BY <1>4, <2>1, ReceiptListed
<1> DEFINE q == Append(cmd.receipts, Receipt(Cur, "tree", d))
<1>6. q \in Seq(Receipts)
  BY <1>5 DEF CommandInv, Working, Run, Measure
<1>7. cmd' = [cmd EXCEPT !.pc = "copy", !.receipts = q]
  BY <1>1, <1>3
<1>8. cmd \in Working
  BY <1>2 DEF CommandInv, Run
<1> HIDE DEF q
<1>9. cmd' \in Working /\ SameTask /\ cmd'.pc = "copy" /\ cmd'.n = cmd.n /\ cmd'.receipts = q
  BY <1>6, <1>7, <1>8 DEF Working, SameTask, Pcs
<1> QED BY <1>1, <1>2, <1>3, <1>4, <1>9 DEF q

LEMMA CopyMoves ==
  ASSUME CommandInv, CopyOutputs
  PROVE  /\ cmd' \in Working /\ SameTask /\ SameBut(cmd, cmd')
         /\ AtEnd => cmd'.pc = AfterReceipts /\ cmd'.n = 1
         /\ ~AtEnd => cmd'.pc = "recipe" /\ cmd'.n = cmd.n + 1
         /\ artifact' = [artifact EXCEPT ![Out("tree", Cur)] = cmd.receipts[cmd.n].artifact]
<1>1. cmd \in Working /\ cmd' = NextIntent(cmd, "recipe")
  BY DEF CommandInv, CopyOutputs, Run
<1>2. SameBut(cmd, cmd') => SameTask
  BY DEF SameBut, SameTask
<1> QED BY <1>1, <1>2, NextMoves DEF CopyOutputs

LEMMA FetchMoves ==
  ASSUME CommandInv, FetchPackage
  PROVE  /\ cmd' \in Working /\ SameTask
         /\ cmd'.receipts = Append(cmd.receipts, Receipt(Cur, "file", Cur.artifact))
         /\ cmd.to = "root" => cmd'.pc = "deploy" /\ cmd'.n = cmd.n
         /\ cmd.to # "root" /\ AtEnd => cmd'.pc = AfterReceipts /\ cmd'.n = 1
         /\ cmd.to # "root" /\ ~AtEnd => cmd'.pc = "fetch" /\ cmd'.n = cmd.n + 1
         /\ artifact[Out("file", Cur)] \in {None, Cur.artifact}
         /\ artifact' = [artifact EXCEPT ![Out("file", Cur)] = Cur.artifact]
<1> DEFINE q == Append(cmd.receipts, Receipt(Cur, "file", Cur.artifact))
           c == [cmd EXCEPT !.receipts = q]
<1>1. cmd \in Working /\ ~Building /\ cmd.pc = "fetch"
  BY DEF CommandInv, FetchPackage, Run
<1>2. q \in Seq(Receipts)
  <2>1. Cur \in Asked /\ Cur.artifact \in Digest
    BY <1>1, CurKnown, IntentKnown DEF Run, Building
  <2>2. Receipt(Cur, "file", Cur.artifact) \in Receipts
    BY <2>1, ReceiptListed
  <2> QED BY <1>1, <2>2 DEF Working
<1>3. /\ c \in Working /\ c.receipts = q /\ c.n = cmd.n /\ c.route = cmd.route /\ c.verb = cmd.verb
      /\ c.to = cmd.to /\ c.intents = cmd.intents /\ c.before = cmd.before
  <2> HIDE DEF q
  <2> QED BY <1>1, <1>2 DEF Working
<1>4. /\ artifact[Out("file", Cur)] \in {None, Cur.artifact}
      /\ artifact' = [artifact EXCEPT ![Out("file", Cur)] = Cur.artifact]
      /\ cmd' = IF cmd.to = "root" THEN [c EXCEPT !.pc = "deploy"] ELSE NextIntent(c, "fetch")
  BY DEF FetchPackage
<1> HIDE DEF c, q
<1>5. CASE cmd.to = "root"
  <2>1. cmd' = [c EXCEPT !.pc = "deploy"]
    BY <1>4, <1>5
  <2>2. /\ cmd' \in Working /\ cmd'.pc = "deploy" /\ cmd'.receipts = c.receipts /\ cmd'.n = c.n
        /\ cmd'.route = c.route /\ cmd'.verb = c.verb
        /\ cmd'.to = c.to /\ cmd'.intents = c.intents /\ cmd'.before = c.before
    BY <1>3, <2>1 DEF Working, Pcs
  <2> QED BY <1>3, <1>4, <1>5, <2>2 DEF SameTask, q
<1>6. CASE cmd.to # "root"
  <2>1. cmd' = NextIntent(c, "fetch")
    BY <1>4, <1>6
  <2>2. /\ cmd' \in Working /\ SameBut(c, cmd')
        /\ AtEnd => cmd'.pc = AfterReceipts /\ cmd'.n = 1
        /\ ~AtEnd => cmd'.pc = "fetch" /\ cmd'.n = c.n + 1
    BY <1>3, <2>1, NextMoves
  <2> QED BY <1>3, <1>4, <1>6, <2>2 DEF SameTask, SameBut, q
<1> QED BY <1>5, <1>6

-----------------------------------------------------------------------------
(* The command                                                                   *)

LEMMA CommandGoes ==
  ASSUME CommandInv, ~Run("idle"), cmd' \in Working, SameTask,
         cmd'.n <= Len(cmd.intents), cmd'.n = 0 => cmd'.pc = "rollback",
         cmd'.pc \in BuildPcs => Building, cmd'.pc = "fetch" => ~Building,
         cmd'.pc \in {"retire", "record"} => cmd.to = "store",
         cmd'.pc \in {"deploy", "rollback"} => cmd.to = "root"
  PROVE  CommandInv'
<1>1. Building' = Building
  BY SameTaskSame
<1> QED BY <1>1 DEF CommandInv, SameTask, Run

LEMMA CommandStep ==
  ASSUME CommandInv, BuildInv, ~Run("idle"), Next
  PROVE  CommandInv'
<1>0. cmd \in Working /\ Len(cmd.intents) \in Nat /\ cmd.n \in Nat /\ cmd.n <= Len(cmd.intents)
  BY DEF CommandInv, Working
<1>1. \A m : m = cmd.n /\ ~Run("rollback") => m <= Len(cmd.intents) /\ m # 0
  BY <1>0 DEF CommandInv
<1>2. ~Run("rollback") /\ ~AtEnd => cmd.n + 1 <= Len(cmd.intents) /\ cmd.n + 1 # 0
  BY <1>0 DEF AtEnd
<1>3. ~Run("rollback") => 1 <= Len(cmd.intents)
  BY <1>0, <1>1
<1>4. CASE ReadRecipe
  <2>1. Building
    BY <1>4 DEF ReadRecipe, CommandInv, BuildPcs, Run
  <2> QED BY <1>1, <1>4, <2>1, StepMoves, CommandGoes DEF ReadRecipe, Run, BuildPcs
<1>5. CASE BeginFetch \/ MarkReady \/ MergeSource \/ PrepareClosure \/ RunPhase \/ Measure
  <2>1. cmd.pc \in {"sources", "fetching", "build"}
    BY <1>5 DEF BeginFetch, MarkReady, MergeSource, PrepareClosure, RunPhase, Measure, Run
  <2>2. Building /\ ~Run("rollback")
    BY <2>1 DEF CommandInv, BuildPcs, Run
  <2>3. cmd' \in Working /\ SameTask /\ cmd'.pc \in {"sources", "fetching", "build", "copy"} /\ cmd'.n = cmd.n
    <3>1. CASE Measure
      BY <3>1, MeasureMoves
    <3> QED BY <1>5, <3>1, StepMoves
  <2> QED BY <1>1, <2>2, <2>3, CommandGoes
<1>6. CASE FetchContent
  BY <1>6 DEF FetchContent, CommandInv, Working, Warranted, Says, BuildPcs, Building, Run
<1>7. CASE CopyOutputs
  <2>1. Building /\ ~Run("rollback")
    BY <1>7 DEF CopyOutputs, CommandInv, BuildPcs, Run
  <2>2. /\ cmd' \in Working /\ SameTask
        /\ AtEnd => cmd'.pc = AfterReceipts /\ cmd'.n = 1
        /\ ~AtEnd => cmd'.pc = "recipe" /\ cmd'.n = cmd.n + 1
    BY <1>7, CopyMoves
  <2>3. cmd.to \in {"store", "root", "none"}
    BY <1>0 DEF Working
  <2> QED BY <1>2, <1>3, <2>1, <2>2, <2>3, CommandGoes, AfterIs DEF BuildPcs
<1>8. CASE FetchPackage
  <2>1. ~Building /\ ~Run("rollback")
    BY <1>8 DEF FetchPackage, CommandInv, Run
  <2>2. /\ cmd' \in Working /\ SameTask
        /\ cmd.to = "root" => cmd'.pc = "deploy" /\ cmd'.n = cmd.n
        /\ cmd.to # "root" /\ AtEnd => cmd'.pc = AfterReceipts /\ cmd'.n = 1
        /\ cmd.to # "root" /\ ~AtEnd => cmd'.pc = "fetch" /\ cmd'.n = cmd.n + 1
    BY <1>8, FetchMoves
  <2>3. cmd.to \in {"store", "root", "none"}
    BY <1>0 DEF Working
  <2> QED BY <1>1, <1>2, <1>3, <2>1, <2>2, <2>3, CommandGoes, AfterIs DEF BuildPcs
<1>9. CASE Retire \/ (Record /\ ~AtEnd)
  <2>1. cmd.pc \in {"retire", "record"} /\ cmd.to = "store" /\ ~Run("rollback")
    BY <1>9 DEF Retire, Record, CommandInv, Run
  <2>2. /\ cmd' \in Working /\ SameTask
        /\ AtEnd => cmd'.pc = "record" /\ cmd'.n = 1
        /\ ~AtEnd => cmd'.pc = cmd.pc /\ cmd'.n = cmd.n + 1
    BY <1>9, StepMoves
  <2> QED BY <1>2, <1>3, <2>1, <2>2, CommandGoes DEF BuildPcs
<1>10. CASE Deploy /\ ~AtEnd
  <2>1. cmd.to = "root" /\ ~Run("rollback")
    BY <1>10 DEF Deploy, CommandInv, Run
  <2>2. /\ cmd' \in Working /\ SameTask /\ cmd'.n = cmd.n + 1
        /\ cmd'.pc = IF cmd.route = "plans" THEN "fetch" ELSE "deploy"
    BY <1>10, StepMoves
  <2> QED BY <1>2, <1>10, <2>1, <2>2, CommandGoes DEF BuildPcs, Building
<1>11. CASE DeployRefused \/ (Rollback /\ cmd.n # 0)
  <2>1. cmd.to = "root"
    BY <1>11 DEF DeployRefused, Rollback, CommandInv, Run
  <2>2. cmd' \in Working /\ SameTask /\ cmd'.pc = "rollback" /\ cmd'.n = cmd.n - 1
    BY <1>11, StepMoves
  <2>3. cmd'.n <= Len(cmd.intents)
    BY <1>0, <2>2
  <2> QED BY <2>1, <2>2, <2>3, CommandGoes DEF BuildPcs
<1>12. CASE (Record /\ AtEnd) \/ (Deploy /\ AtEnd) \/ Fail \/ Kill \/ (Rollback /\ cmd.n = 0)
  <2>1. cmd' = Idle
    BY <1>12, StepMoves DEF Return, Abort
  <2> QED BY <2>1 DEF CommandInv, Run, Idle
<1>13. CASE BeginBuild \/ BeginAdmitted \/ BeginBinary \/ BeginBinaryPlans
            \/ \E p \in Name : RemoveRecorded(p) \/ RemoveOwned(p)
  BY <1>13 DEF BeginBuild, BeginAdmitted, BeginBinary, BeginBinaryPlans, RemoveRecorded, RemoveOwned, MayStart
<1> QED BY <1>4, <1>5, <1>6, <1>7, <1>8, <1>9, <1>10, <1>11, <1>12, <1>13 DEF Next

(* A command that starts is in order.                                            *)
LEMMA StartsRight ==
  ASSUME TypeOK, owned \in [Name -> {None} \cup Owned], NEW pc, NEW route, NEW verb, NEW to, NEW intents,
         Startable(pc, route, verb, to, intents), Start(pc, route, verb, to, intents)
  PROVE  CommandInv' /\ ~Run("idle")' /\ Names(cmd') \subseteq Name
<1>1. cmd' = [pc |-> pc, route |-> route, verb |-> verb, to |-> to, intents |-> intents,
              n |-> 1, recipe |-> None, k |-> 1, phase |-> 1, receipts |-> <<>>, before |-> owned]
  BY DEF Start
<1>2. cmd' \in Working
  <2>1. <<>> \in Seq(Receipts)
    OBVIOUS
  <2> QED BY <1>1, <2>1 DEF Working, Startable, Pcs
<1>3. 1 <= Len(intents)
  <2>1. Len(intents) \in Nat
    BY DEF Startable
  <2>2. Len(intents) # 0
    BY EmptySeq DEF Startable
  <2> QED BY <2>1, <2>2
<1>4. cmd'.pc = pc /\ cmd'.route = route /\ cmd'.to = to /\ cmd'.verb = verb /\ cmd'.intents = intents /\ cmd'.n = 1
  BY <1>1
<1>5. Building' <=> route \in {"build", "admitted"}
  BY <1>4 DEF Building
<1>6. CommandInv'
  BY <1>2, <1>3, <1>4, <1>5 DEF CommandInv, Startable, Run, BuildPcs
<1>7. \A i \in Range(intents) : i.name \in Name
  BY WarrantedKnown DEF Startable
<1> QED BY <1>4, <1>6, <1>7 DEF Run, Startable, Names

-----------------------------------------------------------------------------
(* The types                                                                     *)

LEMMA NamesKnown ==
  ASSUME CommandInv, ~Run("idle")
  PROVE  Names(cmd) \subseteq Name /\ Twice(cmd) \subseteq Names(cmd)
BY IntentKnown DEF Names, Twice

LEMMA HereIsSource ==
  ASSUME NEW r \in Recipe
  PROVE  /\ SourceKeys(r) \in Seq(Source) /\ Len(SourceKeys(r)) \in Nat
         /\ \A n \in 1 .. Len(SourceKeys(r)) : SourceKeys(r)[n] \in Source
<1> DEFINE q == R!MaterializedSources(r)
           w == SourceKeys(r)
           m == Len(r.source)
<1>1. IsSeq(r.source)
  BY ProvisionAssumption
<1>2. DOMAIN q = DOMAIN r.source
  BY DEF R!MaterializedSources
<1>3. DOMAIN q = 1 .. m /\ m \in Nat
  BY <1>1, <1>2, ListedAt
<1>4. w = [n \in 1 .. m |-> CacheKey(q[n])]
  BY <1>3 DEF SourceKeys
<1>5. Range(w) \subseteq Source
  BY DEF Source
<1> HIDE DEF q, w, m
<1>6. \A n \in 1 .. m : w[n] \in Range(w)
  BY <1>4 DEF Range
<1>7. w \in [1 .. m -> Source]
  BY <1>4, <1>5, <1>6
<1>8. w \in Seq(Source) /\ Len(w) = m
  BY <1>3, <1>7, SeqDef
<1> QED BY <1>3, <1>5, <1>6, <1>8 DEF w

LEMMA TypeStep ==
  ASSUME TypeOK, CommandInv, BuildInv, ReceiptInv, RecordInv, Next
  PROVE  TypeOK'
<1>1. CASE BeginBuild \/ BeginAdmitted \/ BeginBinary \/ BeginBinaryPlans
  <2>1. PICK pc, route, verb, to, intents :
          Startable(pc, route, verb, to, intents) /\ Start(pc, route, verb, to, intents)
    BY <1>1, BeginGood
  <2> QED BY <2>1 DEF Start, Startable, TypeOK, Pcs
<1>2. CASE ReadRecipe
  <2>1. cmd.pc = "recipe" /\ UNCHANGED <<cache, artifact, records, owned, broken>> /\ cmd'.pc = "sources"
    BY <1>2, StepMoves DEF ReadRecipe, Run
  <2>2. PICK lock : tree' = [tree EXCEPT ![lock] = [sources |-> <<>>, built |-> {}]]
    BY <1>2 DEF ReadRecipe
  <2>3. DOMAIN tree' = Lock /\ \A l \in Lock : tree'[l] = None \/ Range(tree'[l].sources) \subseteq Source
    <3>1. Range(<<>>) = {}
      BY DEF Range
    <3>2. \A l \in Lock : tree'[l] = tree[l] \/ tree'[l].sources = <<>>
      BY <2>2 DEF TypeOK
    <3> QED BY <2>2, <3>1, <3>2 DEF TypeOK
  <2> QED BY <2>1, <2>3 DEF TypeOK, Pcs
<1>3. CASE BeginFetch \/ FetchContent \/ MarkReady
  <2>1. cmd.pc \in {"sources", "fetching"} /\ UNCHANGED <<tree, artifact, records, owned, broken>>
    BY <1>3 DEF BeginFetch, FetchContent, MarkReady, Run
  <2>2. cmd'.pc \in Pcs
    <3>1. FetchContent => cmd' = cmd
      BY DEF FetchContent
    <3>2. BeginFetch \/ MarkReady => cmd'.pc \in {"sources", "fetching"}
      BY <2>1, StepMoves DEF Run
    <3> QED BY <1>3, <3>1, <3>2 DEF TypeOK, Pcs
  <2>3. ~BeginFetch => cache[Here] # None
    BY <1>3 DEF FetchContent, MarkReady, BuildInv
  <2>4. cache' \in [Source -> {None} \cup Cached]
    <3>1. cache \in [Source -> {None} \cup Cached]
      BY DEF TypeOK
    <3>2. CASE Here \in Source
      <4>1. CASE BeginFetch
        BY <3>1, <4>1 DEF BeginFetch, Cached
      <4>2. CASE ~BeginFetch
        <5> DEFINE h == Here
        <5>1. /\ \/ cache' = [cache EXCEPT ![h].whole = TRUE]
                 \/ cache' = [cache EXCEPT ![h].marker = TRUE]
              /\ cache[h] # None /\ h \in Source
          BY <1>3, <2>3, <3>2, <4>2 DEF FetchContent, MarkReady
        <5> HIDE DEF h
        <5>2. cache[h] \in Cached
          BY <3>1, <5>1
        <5>3. /\ [cache[h] EXCEPT !.whole = TRUE] \in Cached
              /\ [cache[h] EXCEPT !.marker = TRUE] \in Cached
          BY <5>2 DEF Cached
        <5> QED BY <3>1, <5>1, <5>3
      <4> QED BY <4>1, <4>2
    <3>3. CASE Here \notin Source
      <4>1. cache' = cache
        <5>1. PICK v : cache' = [cache EXCEPT ![Here] = v]
          BY <1>3 DEF BeginFetch, FetchContent, MarkReady
        <5> QED BY <3>1, <3>3, <5>1
      <4> QED BY <3>1, <4>1
    <3> QED BY <3>2, <3>3
  <2> QED BY <2>1, <2>2, <2>4 DEF TypeOK
<1>4. CASE MergeSource \/ RunPhase
  <2>1. /\ cmd.pc \in {"sources", "build"} /\ UNCHANGED <<cache, artifact, records, owned, broken>>
        /\ cmd'.pc = cmd.pc
    BY <1>4, StepMoves DEF MergeSource, RunPhase, Run
  <2> DEFINE l == Now.lock
             t == tree[l]
  <2>2. t \in [sources : Seq(Source), built : SUBSET ({Now.metadata} \X Nat)]
    BY <2>1 DEF BuildInv, Tree
  <2>3. PICK u : tree' = [tree EXCEPT ![l] = u] /\ Range(u.sources) \subseteq Source
    <3>1. CASE MergeSource
      <4> DEFINE q == Append(t.sources, Here)
                 u == [t EXCEPT !.sources = q]
      <4>1. tree' = [tree EXCEPT ![l] = u]
        BY <3>1 DEF MergeSource
      <4>2. Here \in Source
        <5>1. Now \in Recipe
          BY <2>1, NowIsCur
        <5>2. cmd.k <= Len(Sources) /\ cmd.k = Len(t.sources) + 1
          BY <2>1, <3>1 DEF MergeSource, BuildInv, Tree
        <5>3. cmd.k \in 1 .. Len(Sources)
          BY <2>2, <5>1, <5>2, HereIsSource DEF Sources
        <5> QED BY <5>1, <5>3, HereIsSource DEF Here, Sources
      <4>3. q \in Seq(Source)
        BY <2>2, <4>2
      <4>4. u.sources = q
        BY <2>2
      <4> HIDE DEF q
      <4>5. Range(u.sources) \subseteq Source
        BY <4>3, <4>4, RangeListed
      <4> QED BY <4>1, <4>5
    <3>2. CASE RunPhase
      <4> DEFINE u == [t EXCEPT !.built = t.built \cup {<<Now.metadata, cmd.phase>>}]
      <4>1. tree' = [tree EXCEPT ![l] = u]
        BY <3>2 DEF RunPhase
      <4>2. u.sources = t.sources /\ t.sources \in Seq(Source)
        BY <2>2
      <4>3. Range(u.sources) \subseteq Source
        BY <4>2, RangeListed
      <4> QED BY <4>1, <4>3
    <3> QED BY <1>4, <3>1, <3>2
  <2> HIDE DEF l, t
  <2>4. DOMAIN tree' = Lock /\ \A x \in Lock : tree'[x] = None \/ Range(tree'[x].sources) \subseteq Source
    BY <2>3 DEF TypeOK
  <2> QED BY <2>1, <2>4 DEF TypeOK, Pcs
<1>5. CASE PrepareClosure
  BY <1>5, StepMoves DEF PrepareClosure, TypeOK, Pcs, Run
<1>6. CASE Measure
  <2>1. cmd.pc = "build" /\ UNCHANGED <<cache, tree, records, owned, broken>>
    BY <1>6 DEF Measure, Run
  <2>2. cmd'.pc = "copy" /\ artifact' = [artifact EXCEPT ![Out("tree", Cur)] = Torn]
    BY <1>6, MeasureMoves
  <2> QED BY <2>1, <2>2 DEF TypeOK, Pcs
<1>7. CASE CopyOutputs
  <2>1. cmd.pc = "copy" /\ UNCHANGED <<cache, tree, records, owned, broken>>
    BY <1>7 DEF CopyOutputs, Run
  <2>2. cmd'.pc \in Pcs /\ artifact' = [artifact EXCEPT ![Out("tree", Cur)] = cmd.receipts[cmd.n].artifact]
    BY <1>7, CopyMoves, AfterIs DEF Pcs
  <2>3. cmd.receipts[cmd.n].artifact \in Digest
    <3>1. cmd.n \in 1 .. Len(cmd.receipts) /\ cmd.receipts \in Seq(Receipts)
      BY <2>1, CurKnown DEF ReceiptInv, Run, CommandInv, Working
    <3>2. cmd.receipts[cmd.n] \in Receipts
      BY <3>1
    <3> QED BY <3>2, ReceiptParts
  <2> QED BY <2>1, <2>2, <2>3 DEF TypeOK
<1>8. CASE FetchPackage
  <2>1. cmd.pc = "fetch" /\ ~Building /\ UNCHANGED <<cache, tree, records, owned, broken>>
    BY <1>8 DEF FetchPackage, CommandInv, Run
  <2>2. cmd'.pc \in Pcs /\ artifact' = [artifact EXCEPT ![Out("file", Cur)] = Cur.artifact]
    <3>1. cmd' \in Working
      BY <1>8, FetchMoves
    <3> QED BY <1>8, <3>1, FetchMoves DEF Working
  <2>3. Cur.artifact \in Digest
    BY <2>1, CurKnown, IntentKnown DEF Run, Building
  <2> QED BY <2>1, <2>2, <2>3 DEF TypeOK
<1>9. CASE Retire \/ Record \/ Deploy \/ DeployRefused \/ Rollback \/ Fail \/ Kill
  <2>1. ~Run("idle") /\ UNCHANGED <<cache, tree>>
    BY <1>9 DEF Retire, Record, Deploy, DeployRefused, Rollback, Fail, Kill, Run
  <2>2. cmd'.pc \in Pcs
    <3>1. cmd' = Idle \/ cmd' \in Working
      BY <1>9, <2>1, StepMoves DEF Return, Abort
    <3> QED BY <3>1 DEF Working, Idle, Pcs
  <2>3. broken' \subseteq Name
    <3>1. broken' = broken \/ Return \/ Abort
      BY <1>9 DEF Retire, Record, Deploy, DeployRefused, Rollback, Fail, Kill
    <3> QED BY <2>1, <3>1, NamesKnown DEF TypeOK, Return, Abort
  <2>4. artifact' \in [Outs -> {None, Torn} \cup Digest]
    <3>1. artifact' = artifact \/ \E o : artifact' = [artifact EXCEPT ![o] = None]
      BY <1>9 DEF Retire, Record, Deploy, DeployRefused, Rollback, Fail, Kill
    <3> QED BY <3>1 DEF TypeOK
  <2>5. DOMAIN records' = Name
    <3>1. records' = records \/ \E p, v : records' = [records EXCEPT ![p] = v]
      BY <1>9 DEF Retire, Record, Deploy, DeployRefused, Rollback, Fail, Kill
    <3> QED BY <3>1 DEF TypeOK
  <2>6. DOMAIN owned' = Name
    <3>1. owned' = owned \/ \E p, v : owned' = [owned EXCEPT ![p] = v]
      BY <1>9 DEF Retire, Record, Deploy, DeployRefused, Rollback, Fail, Kill
    <3> QED BY <3>1 DEF TypeOK
  <2> QED BY <2>1, <2>2, <2>3, <2>4, <2>5, <2>6 DEF TypeOK
<1>10. CASE \E p \in Name : RemoveRecorded(p) \/ RemoveOwned(p)
  <2>1. PICK p \in Name : RemoveRecorded(p) \/ RemoveOwned(p)
    BY <1>10
  <2> QED BY <2>1 DEF TypeOK, RemoveRecorded, RemoveOwned
<1> QED BY <1>1, <1>2, <1>3, <1>4, <1>5, <1>6, <1>7, <1>8, <1>9, <1>10 DEF Next

-----------------------------------------------------------------------------
(* The build tree                                                                *)

LEMMA SameNow ==
  ASSUME cmd'.recipe = cmd.recipe
  PROVE  Now' = Now /\ Sources' = Sources
BY DEF Now, Sources

LEMMA StillAdmitted ==
  ASSUME SameTask, cmd'.n = cmd.n
  PROVE  \A r : RecipeAdmitted(r) <=> RecipeAdmitted(r)'
<1>1. Cur' = Cur /\ cmd'.route = cmd.route
  BY SameTaskSame DEF SameTask
<1> QED BY <1>1 DEF RecipeAdmitted

(* Outside a build only the cache matters, and it is left alone.                 *)
LEMMA NoBuild ==
  ASSUME BuildInv, cache' = cache, cmd'.pc \notin {"sources", "fetching", "build"}
  PROVE  BuildInv'
BY DEF BuildInv, Run

(* The sources merged so far.                                                    *)
Merged ==
  /\ cmd.recipe \in {r.metadata : r \in Recipe} /\ RecipeAdmitted(Now)
  /\ cmd.route = "admitted" => Now \in Admitted
  /\ Tree \in [sources : Seq(Source), built : SUBSET ({Now.metadata} \X Nat)]
  /\ cmd.k = Len(Tree.sources) + 1 /\ Len(Tree.sources) <= Len(Sources)
  /\ \A n \in 1 .. Len(Tree.sources) :
       Tree.sources[n] = Sources[n] /\ cache[Sources[n]] # None /\ cache[Sources[n]].whole
  /\ cmd.phase >= 1
  /\ Tree.built = {<<Now.metadata, n>> : n \in 1 .. cmd.phase - 1}

LEMMA BuildParts ==
  BuildInv <=>
    /\ \A s \in Source : cache[s] # None /\ cache[s].marker => cache[s].whole
    /\ cmd.pc \in {"sources", "fetching", "build"} => Merged
    /\ Run("fetching") => cmd.k <= Len(Sources) /\ cache[Here] # None
    /\ Run("build") => cmd.k > Len(Sources)
    /\ cmd.pc \in {"sources", "fetching"} => cmd.phase = 1
BY DEF BuildInv, Merged

(* The recipe is read: a new tree, without sources.                              *)
LEMMA ReadRecipeKeeps ==
  ASSUME TypeOK, CommandInv, BuildInv, ReadRecipe
  PROVE  BuildInv'
<1>1. PICK r \in IF cmd.route = "admitted" THEN Admitted ELSE R!FindRecipe(Repository, Cur.name) :
        /\ RecipeAdmitted(r)
        /\ cmd' = [cmd EXCEPT !.pc = "sources", !.recipe = r.metadata, !.k = 1, !.phase = 1]
        /\ tree' = [tree EXCEPT ![r.lock] = [sources |-> <<>>, built |-> {}]]
  BY DEF ReadRecipe
<1>2. /\ cmd \in Working /\ cmd.pc = "recipe" /\ ~Run("idle") /\ cache' = cache
      /\ Cur.name \in Name
  BY CurKnown, IntentKnown DEF ReadRecipe, CommandInv, Run
<1>3. r \in Recipe /\ (cmd.route = "admitted" => r \in Admitted)
  BY <1>1, <1>2, ProvisionAssumption
<1>4. /\ cmd'.pc = "sources" /\ cmd'.k = 1 /\ cmd'.phase = 1 /\ SameTask /\ cmd'.n = cmd.n
      /\ cmd'.recipe = r.metadata
  <2>1. cmd'.recipe = r.metadata
    BY <1>1, <1>2 DEF Working
  <2> QED BY <1>2, <2>1, StepMoves
<1>5. Now' = r
  <2>1. \A q \in Recipe : q.metadata = cmd'.recipe <=> q = r
    BY <1>3, <1>4, ProvisionAssumption
  <2>2. Now' = CHOOSE q \in Recipe : q.metadata = cmd'.recipe
    BY DEF Now
  <2> QED BY <1>3, <2>1, <2>2
<1>6. RecipeAdmitted(Now)'
  <2>1. RecipeAdmitted(r)'
    BY <1>1, <1>4, StillAdmitted
  <2>2. RecipeAdmitted(Now)' <=> RecipeAdmitted(r)'
    BY <1>5 DEF RecipeAdmitted
  <2> QED BY <2>1, <2>2
<1>7. Tree' = [sources |-> <<>>, built |-> {}]
  <2>1. r.lock \in Lock
    BY <1>3 DEF Lock
  <2>2. tree'[r.lock] = [sources |-> <<>>, built |-> {}]
    BY <1>1, <2>1 DEF TypeOK
  <2> QED BY <1>5, <2>2 DEF Tree
<1>8. Len(Sources)' \in Nat
  <2>1. Len(SourceKeys(r)) \in Nat
    BY <1>3, HereIsSource
  <2> QED BY <1>5, <2>1 DEF Sources
<1>9. Merged'
  <2>1. cmd'.recipe \in {q.metadata : q \in Recipe}
    BY <1>3, <1>4
  <2>2. cmd'.route = "admitted" => Now' \in Admitted
    BY <1>3, <1>4, <1>5 DEF SameTask
  <2> DEFINE t == Tree'
  <2>3. /\ t \in [sources : Seq(Source), built : SUBSET ({Now.metadata}' \X Nat)]
        /\ Len(t.sources) = 0 /\ t.built = {}
    BY <1>7
  <2>4. {<<Now.metadata, n>> : n \in 1 .. cmd.phase - 1}' = {}
    BY <1>4
  <2> QED BY <1>4, <1>6, <1>8, <2>1, <2>2, <2>3, <2>4 DEF Merged
<1>10. \A s \in Source : cache'[s] # None /\ cache'[s].marker => cache'[s].whole
  BY <1>2, BuildParts
<1> QED BY <1>4, <1>9, <1>10 DEF Run, BuildInv, Merged

(* A source is fetched.                                                          *)
LEMMA FetchKeeps ==
  ASSUME TypeOK, CommandInv, BuildInv, BeginFetch \/ FetchContent \/ MarkReady
  PROVE  BuildInv'
<1>1. /\ cmd.pc \in {"sources", "fetching"} /\ ~Run("idle") /\ tree' = tree
      /\ BeginFetch => Run("sources") /\ cmd.k <= Len(Sources) /\ cache[Here] = None
      /\ FetchContent \/ MarkReady => Run("fetching")
      /\ MarkReady => cache[Here].whole
  BY DEF BeginFetch, FetchContent, MarkReady, Run
<1>2. Merged /\ cmd.phase = 1 /\ cmd.k <= Len(Sources) /\ (Run("fetching") => cache[Here] # None)
  BY <1>1, BuildParts DEF Run
<1>3. /\ cmd'.recipe = cmd.recipe /\ cmd'.k = cmd.k /\ cmd'.phase = cmd.phase /\ SameTask /\ cmd'.n = cmd.n
      /\ BeginFetch \/ FetchContent => cmd'.pc = "fetching"
      /\ MarkReady => cmd'.pc = "sources"
  <2>1. FetchContent => cmd' = cmd
    BY DEF FetchContent
  <2>2. cmd' = cmd => SameTask
    BY DEF SameTask
  <2>3. BeginFetch \/ MarkReady \/ FetchContent
    OBVIOUS
  <2>4. FetchContent => cmd.pc = "fetching"
    BY <1>1 DEF Run
  <2>5. BeginFetch => cmd'.pc = "fetching" /\ SameTask /\ SameBut(cmd, cmd') /\ cmd'.n = cmd.n
    BY <1>1, StepMoves
  <2>6. MarkReady => cmd'.pc = "sources" /\ SameTask /\ SameBut(cmd, cmd') /\ cmd'.n = cmd.n
    BY <1>1, StepMoves
  <2> QED BY <2>1, <2>2, <2>3, <2>4, <2>5, <2>6 DEF SameBut
<1>4. Now' = Now /\ Sources' = Sources /\ Tree' = Tree /\ Here' = Here
  BY <1>1, <1>3, SameNow DEF Tree, Here
<1>5. Now \in Recipe /\ Here \in Source /\ Len(Sources) \in Nat
      /\ \A n \in 1 .. Len(Sources) : Sources[n] \in Source
  <2>1. Now \in Recipe
    BY <1>1, NowIsCur
  <2>2. cmd.k \in 1 .. Len(Sources)
    <3>1. cmd.k = Len(Tree.sources) + 1 /\ Tree.sources \in Seq(Source)
      BY <1>2 DEF Merged
    <3>2. Len(Tree.sources) \in Nat
      BY <3>1
    <3> QED BY <1>2, <2>1, <3>1, <3>2, HereIsSource DEF Sources
  <2> QED BY <2>1, <2>2, HereIsSource DEF Here, Sources
<1>6. /\ cache' \in [Source -> {None} \cup Cached] /\ cache'[Here] # None /\ None \notin Cached
      /\ \A s \in Source : s # Here => cache'[s] = cache[s]
      /\ cache[Here] # None /\ cache[Here].whole => cache'[Here].whole
      /\ cache'[Here].marker => cache'[Here].whole
  <2> DEFINE h == Here
             old == cache[h]
             new == cache'[h]
  <2>1. cache \in [Source -> {None} \cup Cached] /\ None \notin Cached
        /\ (old # None /\ old.marker => old.whole)
    BY <1>5, BuildParts, ProvisionAssumption DEF TypeOK
  <2>2. CASE BeginFetch
    <3>1. cache' = [cache EXCEPT ![h] = [marker |-> FALSE, whole |-> FALSE]] /\ old = None
      BY <2>2 DEF BeginFetch
    <3>2. [marker |-> FALSE, whole |-> FALSE] \in Cached
      BY DEF Cached
    <3> QED BY <1>5, <2>1, <3>1, <3>2
  <2>3. CASE FetchContent
    <3>1. cache' = [cache EXCEPT ![h].whole = TRUE]
      BY <2>3 DEF FetchContent
    <3>2. old \in Cached
      BY <1>1, <1>2, <1>5, <2>1, <2>3
    <3>3. new = [old EXCEPT !.whole = TRUE] /\ \A s \in Source : s # h => cache'[s] = cache[s]
      BY <1>5, <2>1, <3>1
    <3>4. new \in Cached /\ new.whole
      BY <3>2, <3>3 DEF Cached
    <3>5. cache' \in [Source -> {None} \cup Cached]
      BY <1>5, <2>1, <3>1, <3>3, <3>4
    <3> QED BY <2>1, <3>3, <3>4, <3>5
  <2>4. CASE MarkReady
    <3>1. cache' = [cache EXCEPT ![h].marker = TRUE] /\ old.whole
      BY <2>4 DEF MarkReady
    <3>2. old \in Cached
      BY <1>1, <1>2, <1>5, <2>1, <2>4
    <3>3. new = [old EXCEPT !.marker = TRUE] /\ \A s \in Source : s # h => cache'[s] = cache[s]
      BY <1>5, <2>1, <3>1
    <3>4. new \in Cached /\ new.whole
      BY <3>1, <3>2, <3>3 DEF Cached
    <3>5. cache' \in [Source -> {None} \cup Cached]
      BY <1>5, <2>1, <3>1, <3>3, <3>4
    <3> QED BY <2>1, <3>3, <3>4, <3>5
  <2> QED BY <2>2, <2>3, <2>4
<1>7. \A s \in Source : cache'[s] # None /\ cache'[s].marker => cache'[s].whole
  BY <1>6, BuildParts
<1>8. \A n \in 1 .. Len(Tree.sources) :
        Tree.sources[n] = Sources[n] /\ cache'[Sources[n]] # None /\ cache'[Sources[n]].whole
  <2> SUFFICES ASSUME NEW n \in 1 .. Len(Tree.sources)
               PROVE  Tree.sources[n] = Sources[n] /\ cache'[Sources[n]] # None /\ cache'[Sources[n]].whole
    OBVIOUS
  <2>1. Tree.sources[n] = Sources[n] /\ cache[Sources[n]] # None /\ cache[Sources[n]].whole
    BY <1>2 DEF Merged
  <2>2. Sources[n] \in Source
    <3>1. Len(Tree.sources) <= Len(Sources) /\ Tree.sources \in Seq(Source)
      BY <1>2 DEF Merged
    <3>2. n \in 1 .. Len(Sources)
      BY <1>5, <3>1
    <3> QED BY <1>5, <3>2
  <2> QED BY <1>6, <2>1, <2>2
<1>9. Merged'
  <2>1. RecipeAdmitted(Now)'
    <3>1. RecipeAdmitted(Now)
      BY <1>2 DEF Merged
    <3>2. \A r : RecipeAdmitted(r) <=> RecipeAdmitted(r)'
      BY <1>3, StillAdmitted
    <3>3. Cur' = Cur /\ cmd'.route = cmd.route
      BY <1>3, SameTaskSame DEF SameTask
    <3> QED BY <1>4, <3>1, <3>3 DEF RecipeAdmitted
  <2> QED BY <1>2, <1>3, <1>4, <1>8, <2>1 DEF Merged, SameTask
<1>10. cmd'.pc = "fetching" \/ cmd'.pc = "sources"
  BY <1>3
<1> QED BY <1>2, <1>3, <1>4, <1>6, <1>7, <1>9, <1>10, BuildParts DEF Run, BuildInv, Merged

(* A source is merged into the tree.                                             *)
LEMMA MergeKeeps ==
  ASSUME TypeOK, CommandInv, BuildInv, MergeSource
  PROVE  BuildInv'
<1>1. /\ cmd.pc = "sources" /\ ~Run("idle") /\ cache' = cache /\ cmd.k <= Len(Sources)
      /\ cache[Here] # None /\ cache[Here].marker
      /\ tree' = [tree EXCEPT ![Now.lock] = [Tree EXCEPT !.sources = Append(Tree.sources, Here)]]
  BY DEF MergeSource, Ready, Run, Tree
<1>2. Merged /\ cmd.phase = 1
  BY <1>1, BuildParts
<1>3. /\ cmd'.pc = "sources" /\ cmd'.k = cmd.k + 1 /\ cmd'.phase = cmd.phase /\ SameTask /\ cmd'.n = cmd.n
      /\ cmd'.recipe = cmd.recipe
  BY <1>1, StepMoves
<1>4. Now' = Now /\ Sources' = Sources
  BY <1>3, SameNow
<1>5. Now \in Recipe
  BY <1>1, NowIsCur
<1> DEFINE t == Tree
           m == Len(t.sources)
           u == [t EXCEPT !.sources = Append(t.sources, Here)]
<1>6. t \in [sources : Seq(Source), built : SUBSET ({Now.metadata} \X Nat)] /\ m \in Nat /\ cmd.k = m + 1
  BY <1>2 DEF Merged
<1>7. /\ Len(Sources) \in Nat /\ m + 1 \in 1 .. Len(Sources)
      /\ Here = Sources[m + 1] /\ Here \in Source
  <2>1. /\ Len(Sources) \in Nat
        /\ \A n \in 1 .. Len(Sources) : Sources[n] \in Source
    BY <1>5, HereIsSource DEF Sources
  <2>2. m + 1 \in 1 .. Len(Sources) /\ Here = Sources[m + 1]
    BY <1>1, <1>6, <2>1 DEF Here
  <2> QED BY <2>1, <2>2
<1>8. Tree' = u
  <2>1. Now.lock \in Lock
    BY <1>5 DEF Lock
  <2> QED BY <1>1, <1>4, <2>1 DEF TypeOK, Tree
<1>9. /\ u \in [sources : Seq(Source), built : SUBSET ({Now.metadata} \X Nat)] /\ u.built = t.built
      /\ Len(u.sources) = m + 1 /\ u.sources[m + 1] = Here
      /\ \A n \in 1 .. m : u.sources[n] = t.sources[n]
  <2> DEFINE q == t.sources
             w == Append(q, Here)
  <2>1. q \in Seq(Source) /\ Here \in Source /\ m = Len(q) /\ m \in Nat
    BY <1>6, <1>7
  <2> HIDE DEF t, m, q
  <2>2. w \in Seq(Source) /\ Len(w) = m + 1 /\ w[m + 1] = Here /\ \A n \in 1 .. m : w[n] = q[n]
    BY <2>1
  <2>3. u = [t EXCEPT !.sources = w]
    BY DEF q
  <2> HIDE DEF w, u
  <2> QED BY <1>6, <2>2, <2>3 DEF q
<1>10. cache[Here].whole
  BY <1>1, <1>7 DEF BuildInv
<1>11. \A n \in 1 .. m + 1 :
         u.sources[n] = Sources[n] /\ cache[Sources[n]] # None /\ cache[Sources[n]].whole
  <2>1. \A n \in 1 .. m :
          t.sources[n] = Sources[n] /\ cache[Sources[n]] # None /\ cache[Sources[n]].whole
    BY <1>2 DEF Merged
  <2> HIDE DEF t, u, m
  <2>2. \A n \in 1 .. m + 1 : n \in 1 .. m \/ n = m + 1
    BY <1>6
  <2> QED BY <1>1, <1>7, <1>9, <1>10, <2>1, <2>2
<1>12. RecipeAdmitted(Now)' /\ (cmd'.route = "admitted" => Now' \in Admitted)
  <2>1. RecipeAdmitted(Now) /\ (cmd.route = "admitted" => Now \in Admitted)
    BY <1>2 DEF Merged
  <2>2. Cur' = Cur /\ cmd'.route = cmd.route
    BY <1>3, SameTaskSame DEF SameTask
  <2> QED BY <1>4, <2>1, <2>2 DEF RecipeAdmitted
<1>13. Merged'
  <2>1. /\ cmd'.recipe \in {r.metadata : r \in Recipe}
        /\ t.built = {<<Now.metadata, n>> : n \in 1 .. cmd.phase - 1} /\ cmd.phase >= 1
    BY <1>2, <1>3 DEF Merged
  <2> DEFINE v == Tree'
  <2>2. /\ v \in [sources : Seq(Source), built : SUBSET ({Now'.metadata} \X Nat)]
        /\ Len(v.sources) = m + 1 /\ v.built = t.built
    BY <1>4, <1>8, <1>9
  <2>3. cmd'.k = Len(v.sources) + 1 /\ Len(v.sources) <= Len(Sources')
    BY <1>3, <1>4, <1>6, <1>7, <2>2
  <2>4. \A n \in 1 .. Len(v.sources) :
          v.sources[n] = Sources'[n] /\ cache'[Sources'[n]] # None /\ cache'[Sources'[n]].whole
    BY <1>1, <1>4, <1>8, <1>11, <2>2
  <2>5. v.built = {<<Now'.metadata, n>> : n \in 1 .. cmd'.phase - 1} /\ cmd'.phase >= 1
    BY <1>3, <1>4, <2>1, <2>2
  <2> HIDE DEF t, u, m
  <2> QED BY <1>12, <2>1, <2>2, <2>3, <2>4, <2>5 DEF Merged
<1>14. \A s \in Source : cache'[s] # None /\ cache'[s].marker => cache'[s].whole
  BY <1>1, BuildParts
<1> QED BY <1>2, <1>3, <1>13, <1>14 DEF Run, BuildInv, Merged

LEMMA OneMore ==
  ASSUME NEW a, NEW I, NEW c
  PROVE  {<<a, n>> : n \in I \cup {c}} = {<<a, n>> : n \in I} \cup {<<a, c>>}
OBVIOUS

(* The sources are complete; the phases of the build are run.                    *)
LEMMA PhaseKeeps ==
  ASSUME TypeOK, CommandInv, BuildInv, PrepareClosure \/ RunPhase
  PROVE  BuildInv'
<1>1. /\ cmd.pc \in {"sources", "build"} /\ ~Run("idle") /\ cache' = cache
      /\ PrepareClosure => Run("sources") /\ cmd.k > Len(Sources) /\ tree' = tree
      /\ RunPhase => Run("build") /\ tree' = [tree EXCEPT ![Now.lock] =
                       [Tree EXCEPT !.built = Tree.built \cup {<<Now.metadata, cmd.phase>>}]]
  BY DEF PrepareClosure, RunPhase, Run, Tree
<1>2. Merged /\ cmd.k > Len(Sources)
  BY <1>1, BuildParts DEF Run
<1>3. /\ cmd'.pc = "build" /\ cmd'.k = cmd.k /\ SameTask /\ cmd'.n = cmd.n /\ cmd'.recipe = cmd.recipe
      /\ PrepareClosure => cmd'.phase = cmd.phase
      /\ RunPhase => cmd'.phase = cmd.phase + 1
  <2>1. PrepareClosure => /\ cmd'.pc = "build" /\ SameBut(cmd, cmd') /\ SameTask /\ cmd'.n = cmd.n
    BY <1>1, StepMoves
  <2>2. RunPhase => /\ cmd'.pc = "build" /\ cmd'.k = cmd.k /\ SameTask /\ cmd'.n = cmd.n
                    /\ cmd'.recipe = cmd.recipe /\ cmd'.phase = cmd.phase + 1
    BY <1>1, StepMoves
  <2>3. ~(PrepareClosure /\ RunPhase)
    BY DEF PrepareClosure, RunPhase, Run
  <2> QED BY <2>1, <2>2, <2>3 DEF SameBut
<1>4. Now' = Now /\ Sources' = Sources
  BY <1>3, SameNow
<1>5. Now \in Recipe
  BY <1>1, NowIsCur
<1> DEFINE t == Tree
           v == Tree'
           q == t.sources
<1>6. /\ t \in [sources : Seq(Source), built : SUBSET ({Now.metadata} \X Nat)]
      /\ t.built = {<<Now.metadata, n>> : n \in 1 .. cmd.phase - 1} /\ cmd.phase >= 1
      /\ cmd.phase \in Nat /\ cmd.k = Len(q) + 1 /\ Len(q) <= Len(Sources)
      /\ \A n \in 1 .. Len(q) : q[n] = Sources[n] /\ cache[Sources[n]] # None /\ cache[Sources[n]].whole
  <2>1. cmd.phase \in Nat
    BY <1>1 DEF CommandInv, Working
  <2> QED BY <1>2, <2>1 DEF Merged
<1>7. /\ v \in [sources : Seq(Source), built : SUBSET ({Now.metadata} \X Nat)] /\ v.sources = q
      /\ v.built = {<<Now.metadata, n>> : n \in 1 .. cmd'.phase - 1} /\ cmd'.phase >= 1
  <2>1. CASE PrepareClosure
    <3>1. v = t
      BY <1>1, <1>4, <2>1 DEF Tree
    <3> QED BY <1>3, <1>6, <2>1, <3>1
  <2>2. CASE RunPhase
    <3> DEFINE a == Now.metadata
               b == t.built \cup {<<a, cmd.phase>>}
    <3>1. v = [t EXCEPT !.built = b]
      <4>1. Now.lock \in Lock
        BY <1>5 DEF Lock
      <4> QED BY <1>1, <1>4, <2>2, <4>1 DEF TypeOK, Tree
    <3>2. b \in SUBSET ({a} \X Nat)
      BY <1>6
    <3>3. 1 .. (cmd.phase + 1) - 1 = (1 .. cmd.phase - 1) \cup {cmd.phase}
      BY <1>6
    <3>4. b = {<<a, n>> : n \in 1 .. (cmd.phase + 1) - 1}
      <4> DEFINE I == 1 .. cmd.phase - 1
                 J == 1 .. (cmd.phase + 1) - 1
      <4>1. t.built = {<<a, n>> : n \in I} /\ J = I \cup {cmd.phase}
        BY <1>6, <3>3
      <4>2. b = {<<a, n>> : n \in I} \cup {<<a, cmd.phase>>}
        BY <4>1
      <4> HIDE DEF I, J, t, b, a
      <4>3. {<<a, n>> : n \in J} = {<<a, n>> : n \in I} \cup {<<a, cmd.phase>>}
        BY <4>1, OneMore
      <4>4. b = {<<a, n>> : n \in J}
        BY <4>2, <4>3
      <4> QED BY <4>4 DEF J
    <3> HIDE DEF t, q, b, v
    <3>5. v \in [sources : Seq(Source), built : SUBSET ({a} \X Nat)] /\ v.sources = t.sources /\ v.built = b
      BY <1>6, <3>1, <3>2
    <3> QED BY <1>3, <1>6, <2>2, <3>4, <3>5 DEF q
  <2> QED BY <2>1, <2>2
<1>8. RecipeAdmitted(Now)' /\ (cmd'.route = "admitted" => Now' \in Admitted)
  <2>1. RecipeAdmitted(Now) /\ (cmd.route = "admitted" => Now \in Admitted)
    BY <1>2 DEF Merged
  <2>2. Cur' = Cur /\ cmd'.route = cmd.route
    BY <1>3, SameTaskSame DEF SameTask
  <2> QED BY <1>4, <2>1, <2>2 DEF RecipeAdmitted
<1>9. Merged'
  <2>1. cmd'.recipe \in {r.metadata : r \in Recipe}
    BY <1>2, <1>3 DEF Merged
  <2> HIDE DEF t, q
  <2> QED BY <1>1, <1>3, <1>4, <1>6, <1>7, <1>8, <2>1 DEF Merged
<1>10. \A s \in Source : cache'[s] # None /\ cache'[s].marker => cache'[s].whole
  BY <1>1, BuildParts
<1>11. cmd'.k > Len(Sources')
  BY <1>2, <1>3, <1>4
<1> QED BY <1>3, <1>9, <1>10, <1>11 DEF Run, BuildInv, Merged

LEMMA BuildStep ==
  ASSUME TypeOK, CommandInv, BuildInv, Next
  PROVE  BuildInv'
<1>1. CASE BeginBuild \/ BeginAdmitted \/ BeginBinary \/ BeginBinaryPlans
  <2>1. PICK pc, route, verb, to, intents :
          Startable(pc, route, verb, to, intents) /\ Start(pc, route, verb, to, intents)
    BY <1>1, BeginGood
  <2>2. cache' = cache /\ cmd'.pc \in {"recipe", "fetch"}
    BY <2>1 DEF Start, Startable
  <2> QED BY <2>2, NoBuild
<1>2. CASE Measure
  <2>1. cache' = cache /\ cmd'.pc = "copy"
    BY <1>2, MeasureMoves DEF Measure
  <2> QED BY <2>1, NoBuild
<1>3. CASE CopyOutputs
  <2>1. cache' = cache /\ cmd'.pc \in {"recipe", "deploy", "retire", "record", "refused"}
    BY <1>3, CopyMoves, AfterIs DEF CopyOutputs
  <2> QED BY <2>1, NoBuild
<1>4. CASE FetchPackage
  <2>1. cache' = cache /\ cmd'.pc \in {"fetch", "deploy", "retire", "record", "refused"}
    BY <1>4, FetchMoves, AfterIs DEF FetchPackage
  <2> QED BY <2>1, NoBuild
<1>5. CASE Retire \/ Record \/ Deploy \/ DeployRefused \/ Rollback \/ Fail \/ Kill
  <2>1. cache' = cache /\ ~Run("idle")
    BY <1>5 DEF Retire, Record, Deploy, DeployRefused, Rollback, Fail, Kill, Run
  <2>2. Retire \/ Record => cmd.pc \in {"retire", "record"}
    BY DEF Retire, Record, Run
  <2>3. cmd' = Idle \/ cmd'.pc \in {"retire", "record", "fetch", "deploy", "rollback"}
    BY <1>5, <2>1, <2>2, StepMoves DEF Return, Abort
  <2> QED BY <2>1, <2>3, NoBuild DEF Idle
<1>6. CASE \E p \in Name : RemoveRecorded(p) \/ RemoveOwned(p)
  <2>1. cache' = cache /\ cmd' = cmd /\ cmd.pc = "idle"
    BY <1>6 DEF RemoveRecorded, RemoveOwned, MayStart, Run
  <2> QED BY <2>1, NoBuild
<1> QED BY <1>1, <1>2, <1>3, <1>4, <1>5, <1>6,
           ReadRecipeKeeps, FetchKeeps, MergeKeeps, PhaseKeeps DEF Next
(* What a build sees while it runs.                                              *)
LEMMA BuiltRight ==
  ASSUME TypeOK, CommandInv, BuildInv
  PROVE  BuiltFromLock
<1> SUFFICES ASSUME cmd.pc = "build"
             PROVE  /\ Tree.sources = Sources
                    /\ \A s \in Range(Tree.sources) : cache[s].whole
                    /\ Tree.built = {<<Now.metadata, n>> : n \in 1 .. cmd.phase - 1}
                    /\ {m \in Sandbox.mounts : m.writable} = {[path |-> Now.lock, writable |-> TRUE]}
                    /\ Sandbox.network => Now.network /\ AllowNetwork
                    /\ ~Sandbox.network => "CARGO_NET_OFFLINE" \in Sandbox.environment
                    /\ cmd.route = "admitted" =>
                         \A m \in Sandbox.mounts : m.path \notin Host.tools \cup Host.caches
  BY DEF BuiltFromLock, Run
<1>1. Merged /\ cmd.k > Len(Sources)
  BY BuildParts DEF Run
<1>2. Now \in Recipe
  BY NowIsCur
<1> DEFINE q == Tree.sources
<1>3. q \in Seq(Source) /\ Sources \in Seq(Source)
  BY <1>1, <1>2, HereIsSource DEF Merged, Sources
<1>4. q = Sources
  <2>1. /\ cmd.k = Len(q) + 1 /\ Len(q) <= Len(Sources)
        /\ \A n \in 1 .. Len(q) : q[n] = Sources[n]
    BY <1>1 DEF Merged
  <2> HIDE DEF q
  <2>2. Len(q) = Len(Sources)
    BY <1>1, <1>3, <2>1
  <2> QED BY <1>3, <2>1, <2>2, SeqEqual
<1>5. \A s \in Range(q) : cache[s].whole
  <2>1. \A n \in 1 .. Len(q) : q[n] = Sources[n] /\ cache[Sources[n]].whole
    BY <1>1 DEF Merged
  <2> HIDE DEF q
  <2>2. DOMAIN q = 1 .. Len(q)
    BY <1>3
  <2> QED BY <2>1, <2>2 DEF Range
<1>6. {m \in Sandbox.mounts : m.writable} = {[path |-> Now.lock, writable |-> TRUE]}
  <2> DEFINE ro == R!FixedMounts(Host, DepRoot) \cup R!HostMounts(Host, HostTools)
             rw == [path |-> Now.lock, writable |-> TRUE]
  <2>1. Sandbox.mounts = ro \cup {rw}
    BY DEF Sandbox, R!Boundary
  <2>2. \A m \in ro : ~m.writable
    BY DEF R!FixedMounts, R!HostMounts, R!ReadOnly
  <2>3. rw.writable
    OBVIOUS
  <2> HIDE DEF ro, rw
  <2>4. {m \in Sandbox.mounts : m.writable} = {rw}
    BY <2>1, <2>2, <2>3
  <2> QED BY <2>4 DEF rw
<1>7. /\ Sandbox.network = Now.network
      /\ Now.network => AllowNetwork
      /\ ~Now.network => "CARGO_NET_OFFLINE" \in Sandbox.environment
  BY <1>1 DEF Merged, RecipeAdmitted, Sandbox, R!Boundary, R!Environment
<1>8. ASSUME cmd.route = "admitted", NEW m \in Sandbox.mounts
      PROVE  m.path \notin Host.tools \cup Host.caches
  <2>1. ~HostTools /\ DepRoot = "build-dependencies"
    BY <1>8 DEF HostTools, DepRoot
  <2>2. m.path \in {"/usr", "build-dependencies", Now.lock} \cup Host.etc
    <3>1. m \in R!FixedMounts(Host, DepRoot) \cup {[path |-> Now.lock, writable |-> TRUE]}
      BY <1>8, <2>1 DEF Sandbox, R!Boundary, R!HostMounts
    <3>2. R!FixedMounts(Host, DepRoot)
            \subseteq {R!ReadOnly("/usr"), R!ReadOnly(DepRoot)} \cup {R!ReadOnly(p) : p \in Host.etc}
      BY DEF R!FixedMounts
    <3> QED BY <2>1, <3>1, <3>2 DEF R!ReadOnly
  <2>3. Now.lock \in Lock
    BY <1>2 DEF Lock
  <2> QED BY <2>2, <2>3, ProvisionAssumption
<1>9. Tree.built = {<<Now.metadata, n>> : n \in 1 .. cmd.phase - 1}
  BY <1>1 DEF Merged
<1> QED BY <1>4, <1>5, <1>6, <1>7, <1>8, <1>9

-----------------------------------------------------------------------------
(* The receipts                                                                  *)

(* A step that writes no receipt.                                                *)
LEMMA ReceiptsStay ==
  ASSUME ReceiptInv, ~Run("idle"), SameTask, cmd'.receipts = cmd.receipts,
         cmd'.pc \in {"recipe", "sources", "fetching", "build", "fetch"} => Len(cmd.receipts) = cmd'.n - 1,
         cmd'.pc = "copy" => Len(cmd.receipts) = cmd'.n,
         cmd'.pc = "deploy" => Len(cmd.receipts) = IF Building THEN Len(cmd.intents) ELSE cmd'.n,
         cmd'.pc \in {"retire", "record"} => Len(cmd.receipts) = Len(cmd.intents)
  PROVE  ReceiptInv'
<1>1. Building' = Building /\ Kind' = Kind
  BY SameTaskSame
<1> QED BY <1>1 DEF ReceiptInv, SameTask, Run

(* A step that writes the receipt of the intent it is at.                        *)
LEMMA ReceiptsGrow ==
  ASSUME CommandInv, ReceiptInv, ~Run("idle"), ~Run("rollback"), SameTask,
         Len(cmd.receipts) = cmd.n - 1, NEW d \in Digest,
         cmd'.receipts = Append(cmd.receipts, Receipt(Cur, Kind, d)),
         cmd.route # "admitted" => d = Cur.artifact,
         cmd'.pc \notin {"idle", "recipe", "sources", "fetching", "build"},
         cmd'.pc = "fetch" => cmd'.n = cmd.n + 1,
         cmd'.pc = "copy" => cmd'.n = cmd.n,
         cmd'.pc = "deploy" => ~Building /\ cmd'.n = cmd.n,
         cmd'.pc \in {"retire", "record"} => AtEnd
  PROVE  ReceiptInv'
<1>1. Building' = Building /\ Kind' = Kind /\ cmd'.intents = cmd.intents /\ cmd'.route = cmd.route
  BY SameTaskSame DEF SameTask
<1> DEFINE q == cmd.receipts
           r == Receipt(Cur, Kind, d)
           w == Append(q, r)
<1>2. q \in Seq(Receipts) /\ cmd.n \in 1 .. Len(cmd.intents) /\ Len(cmd.intents) \in Nat
  BY CurKnown DEF CommandInv, Working
<1>3. /\ Len(w) = cmd.n /\ w[cmd.n] = r /\ \A n \in 1 .. cmd.n - 1 : w[n] = q[n]
      /\ Len(q) = cmd.n - 1
  <2> HIDE DEF q, r
  <2> QED BY <1>2 DEF q
<1>4. r.artifact = d
  BY DEF Receipt
<1>5. \A n \in 1 .. cmd.n - 1 :
        /\ q[n] = Receipt(cmd.intents[n], Kind, q[n].artifact)
        /\ cmd.route # "admitted" => q[n].artifact = cmd.intents[n].artifact
  BY <1>3 DEF ReceiptInv
<1>6. /\ r = Receipt(cmd.intents[cmd.n], Kind, r.artifact)
      /\ cmd.route # "admitted" => r.artifact = cmd.intents[cmd.n].artifact
  BY <1>4 DEF Cur
<1> HIDE DEF r, q, w
<1>7. \A n \in 1 .. Len(w) :
        /\ w[n] = Receipt(cmd.intents[n], Kind, w[n].artifact)
        /\ cmd.route # "admitted" => w[n].artifact = cmd.intents[n].artifact
  <2>1. \A n \in 1 .. Len(w) : n \in 1 .. cmd.n - 1 \/ n = cmd.n
    BY <1>2, <1>3
  <2> QED BY <1>3, <1>5, <1>6, <2>1
<1>8. cmd'.receipts = w
  BY DEF w, q, r
<1>9. /\ Len(w) <= Len(cmd.intents)
      /\ cmd'.pc = "fetch" => Len(w) = cmd'.n - 1
      /\ cmd'.pc = "copy" => Len(w) = cmd'.n
      /\ cmd'.pc = "deploy" => ~Building /\ Len(w) = cmd'.n
      /\ cmd'.pc \in {"retire", "record"} => Len(w) = Len(cmd.intents)
  BY <1>2, <1>3 DEF AtEnd
<1> QED BY <1>1, <1>7, <1>8, <1>9 DEF ReceiptInv, Run

LEMMA ReceiptStep ==
  ASSUME CommandInv, BuildInv, ReceiptInv, Next
  PROVE  ReceiptInv'
<1>1. CASE BeginBuild \/ BeginAdmitted \/ BeginBinary \/ BeginBinaryPlans
  <2>1. PICK pc, route, verb, to, intents :
          Startable(pc, route, verb, to, intents) /\ Start(pc, route, verb, to, intents)
    BY <1>1, BeginGood
  <2>2. cmd'.receipts = <<>> /\ cmd'.n = 1 /\ cmd'.pc \in {"recipe", "fetch"} /\ cmd'.intents = intents
    BY <2>1 DEF Start, Startable
  <2>3. Len(<<>>) = 0 /\ Len(intents) \in Nat
    BY <2>1, EmptySeq DEF Startable
  <2>4. \A n \in 1 .. Len(cmd'.receipts) : FALSE
    BY <2>2, <2>3
  <2> QED BY <2>2, <2>3, <2>4 DEF ReceiptInv, Run
<1>2. ASSUME ~Run("idle")
      PROVE  /\ cmd \in Working /\ cmd.n \in Nat
             /\ ~Run("rollback") => cmd.n \in 1 .. Len(cmd.intents) /\ Len(cmd.intents) \in Nat
  BY <1>2, CurKnown DEF CommandInv, Working
<1>3. CASE ReadRecipe \/ BeginFetch \/ FetchContent \/ MarkReady \/ MergeSource \/ PrepareClosure \/ RunPhase
  <2>1. cmd.pc \in {"recipe", "sources", "fetching", "build"}
    BY <1>3 DEF ReadRecipe, BeginFetch, FetchContent, MarkReady, MergeSource, PrepareClosure, RunPhase, Run
  <2>2. FetchContent => cmd' = cmd
    BY DEF FetchContent
  <2>3. /\ SameTask /\ cmd'.receipts = cmd.receipts /\ cmd'.n = cmd.n
        /\ cmd'.pc \in {"sources", "fetching", "build"} \cup {cmd.pc}
    BY <1>3, <2>1, <2>2, StepMoves DEF Run, SameTask, SameBut
  <2>4. Len(cmd.receipts) = cmd.n - 1
    BY <2>1 DEF ReceiptInv, Run
  <2> QED BY <2>1, <2>3, <2>4, ReceiptsStay DEF Run
<1>4. CASE Measure
  <2>1. cmd.pc = "build" /\ Building
    BY <1>4 DEF Measure, CommandInv, Run, BuildPcs
  <2>2. Len(cmd.receipts) = cmd.n - 1
    BY <2>1 DEF ReceiptInv, Run
  <2>3. PICK d \in Digest :
          /\ cmd.route # "admitted" => d = Cur.artifact
          /\ cmd' \in Working /\ SameTask /\ cmd'.pc = "copy" /\ cmd'.n = cmd.n
          /\ cmd'.receipts = Append(cmd.receipts, Receipt(Cur, "tree", d))
    BY <1>4, MeasureMoves
  <2>4. Kind = "tree"
    BY <2>1 DEF Kind
  <2> QED BY <2>1, <2>2, <2>3, <2>4, ReceiptsGrow DEF Run
<1>5. CASE CopyOutputs
  <2>1. cmd.pc = "copy" /\ Building /\ Len(cmd.receipts) = cmd.n
    BY <1>5 DEF CopyOutputs, CommandInv, ReceiptInv, Run, BuildPcs
  <2>2. /\ SameTask /\ SameBut(cmd, cmd')
        /\ AtEnd => cmd'.pc \in {"deploy", "retire", "record", "refused"} /\ cmd'.n = 1
        /\ ~AtEnd => cmd'.pc = "recipe" /\ cmd'.n = cmd.n + 1
    BY <1>5, CopyMoves, AfterIs
  <2>3. cmd'.pc = "recipe" => Len(cmd.receipts) = cmd'.n - 1
    BY <1>2, <2>1, <2>2 DEF Run
  <2> QED BY <2>1, <2>2, <2>3, ReceiptsStay DEF Run, AtEnd, SameBut
<1>6. CASE FetchPackage
  <2>1. cmd.pc = "fetch" /\ ~Building
    BY <1>6 DEF FetchPackage, CommandInv, Run
  <2>2. Len(cmd.receipts) = cmd.n - 1
    BY <2>1 DEF ReceiptInv, Run
  <2>3. /\ SameTask
        /\ cmd'.receipts = Append(cmd.receipts, Receipt(Cur, "file", Cur.artifact))
        /\ cmd.to = "root" => cmd'.pc = "deploy" /\ cmd'.n = cmd.n
        /\ cmd.to # "root" /\ AtEnd => cmd'.pc \in {"retire", "record", "refused"}
        /\ cmd.to # "root" /\ ~AtEnd => cmd'.pc = "fetch" /\ cmd'.n = cmd.n + 1
    BY <1>6, FetchMoves, AfterIs
  <2>4. Kind = "file" /\ Cur.artifact \in Digest
    BY <2>1, CurKnown, IntentKnown DEF Kind, Run, Building
  <2> QED BY <2>1, <2>2, <2>3, <2>4, ReceiptsGrow DEF Run
<1>7. CASE Retire \/ (Record /\ ~AtEnd)
  <2>1. cmd.pc \in {"retire", "record"} /\ Len(cmd.receipts) = Len(cmd.intents)
    BY <1>7 DEF Retire, Record, ReceiptInv, Run
  <2>2. SameTask /\ SameBut(cmd, cmd') /\ cmd'.pc \in {"retire", "record"}
    BY <1>7, <2>1, StepMoves DEF Run
  <2> QED BY <2>1, <2>2, ReceiptsStay DEF Run, SameBut
<1>8. CASE Deploy /\ ~AtEnd
  <2>1. cmd.pc = "deploy" /\ Len(cmd.receipts) = IF Building THEN Len(cmd.intents) ELSE cmd.n
    BY <1>8 DEF Deploy, ReceiptInv, Run
  <2>2. SameTask /\ SameBut(cmd, cmd') /\ cmd'.n = cmd.n + 1
        /\ cmd'.pc = IF cmd.route = "plans" THEN "fetch" ELSE "deploy"
    BY <1>8, <2>1, StepMoves DEF Run
  <2>3. cmd.route \in {"build", "admitted", "plans"}
    <3>1. cmd.n \in 1 .. Len(cmd.intents) /\ Len(cmd.intents) \in Nat
      BY <1>2, <2>1 DEF Run
    <3>2. ASSUME Len(cmd.intents) = 1
          PROVE  FALSE
      BY <1>8, <3>1, <3>2 DEF AtEnd
    <3>3. cmd.route \in {"build", "admitted", "binary", "plans"}
      BY <1>2, <2>1 DEF Working, Run
    <3> QED BY <2>1, <3>2, <3>3 DEF CommandInv, Run
  <2>4. CASE cmd.route = "plans"
    <3>1. ~Building /\ cmd'.pc = "fetch" /\ Len(cmd.receipts) = cmd'.n - 1
      BY <1>2, <2>1, <2>2, <2>4 DEF Building, Run
    <3> QED BY <2>1, <2>2, <3>1, ReceiptsStay DEF Run, SameBut
  <2>5. CASE cmd.route # "plans"
    <3>1. Building /\ cmd'.pc = "deploy"
      BY <2>2, <2>3, <2>5 DEF Building
    <3> QED BY <2>1, <2>2, <3>1, ReceiptsStay DEF Run, SameBut
  <2> QED BY <2>4, <2>5
<1>9. CASE DeployRefused \/ (Rollback /\ cmd.n # 0)
  <2>1. ~Run("idle")
    BY <1>9 DEF DeployRefused, Rollback, Run
  <2>2. SameTask /\ SameBut(cmd, cmd') /\ cmd'.pc = "rollback"
    BY <1>9, <2>1, StepMoves
  <2> QED BY <2>1, <2>2, ReceiptsStay DEF SameBut
<1>10. CASE (Record /\ AtEnd) \/ (Deploy /\ AtEnd) \/ Fail \/ Kill \/ (Rollback /\ cmd.n = 0)
  <2>1. cmd' = Idle
    BY <1>10, StepMoves DEF Record, Deploy, Fail, Kill, Rollback, Run, Return, Abort
  <2> QED BY <2>1 DEF ReceiptInv, Run, Idle
<1>11. CASE \E p \in Name : RemoveRecorded(p) \/ RemoveOwned(p)
  BY <1>11 DEF RemoveRecorded, RemoveOwned, MayStart, ReceiptInv, Run
<1> QED BY <1>1, <1>3, <1>4, <1>5, <1>6, <1>7, <1>8, <1>9, <1>10, <1>11 DEF Next

-----------------------------------------------------------------------------
(* What has been made                                                            *)

(* The receipt of an intent, and the outputs two of them share.                  *)
LEMMA ReceiptAt ==
  ASSUME CommandInv, ReceiptInv, ~Run("idle"), NEW n \in 1 .. Len(cmd.receipts)
  PROVE  /\ n \in 1 .. Len(cmd.intents) /\ cmd.intents[n] \in Range(cmd.intents)
         /\ cmd.receipts[n] \in Receipts
         /\ cmd.receipts[n] = Receipt(cmd.intents[n], Kind, cmd.receipts[n].artifact)
         /\ cmd.receipts[n].artifact \in Digest
         /\ cmd.receipts[n].out = Out(Kind, cmd.intents[n]) /\ cmd.receipts[n].out \in Outs
         /\ cmd.receipts[n].name = cmd.intents[n].name
         /\ cmd.receipts[n].version = cmd.intents[n].version
         /\ cmd.receipts[n].name \in Name
         /\ cmd.route # "admitted" => cmd.receipts[n].artifact = cmd.intents[n].artifact
<1> DEFINE r == cmd.receipts[n]
           i == cmd.intents[n]
<1>1. /\ Len(cmd.receipts) <= Len(cmd.intents) /\ r = Receipt(i, Kind, r.artifact)
      /\ cmd.route # "admitted" => r.artifact = i.artifact
  BY DEF ReceiptInv
<1>2. cmd.intents \in Seq(Asked) /\ cmd.receipts \in Seq(Receipts)
  BY DEF CommandInv, Working
<1>3. n \in 1 .. Len(cmd.intents) /\ i \in Range(cmd.intents)
  <2>1. Len(cmd.intents) \in Nat /\ Len(cmd.receipts) \in Nat
    BY <1>2
  <2>2. n \in 1 .. Len(cmd.intents)
    BY <1>1, <2>1
  <2> QED BY <1>2, <2>2, RangeListed
<1>4. r \in Receipts
  BY <1>2
<1>5. r.artifact \in Digest
  BY <1>4, ReceiptParts
<1>6. r.out = Out(Kind, i) /\ r.name = i.name /\ r.version = i.version
  <2> HIDE DEF r, i
  <2>1. \A a : Receipt(i, Kind, a).out = Out(Kind, i) /\ Receipt(i, Kind, a).name = i.name
               /\ Receipt(i, Kind, a).version = i.version
    BY DEF Receipt
  <2> QED BY <1>1, <2>1
<1>7. Out("tree", i) \in Outs /\ Out("file", i) \in Outs /\ i.name \in Name
  BY <1>3, IntentKnown
<1>8. Kind \in {"tree", "file"}
  BY DEF Kind
<1> QED BY <1>1, <1>3, <1>4, <1>5, <1>6, <1>7, <1>8

LEMMA SameOut ==
  ASSUME NEW kind, NEW i, NEW j
  PROVE  Out(kind, i) = Out(kind, j) <=> i.name = j.name /\ i.version = j.version
BY DEF Out

(* Intents of one package version have one output and one digest.                *)
LEMMA OneDigest ==
  ASSUME CommandInv, ~Run("idle"), NEW i \in Range(cmd.intents), NEW j \in Range(cmd.intents),
         i.name = j.name, i.version = j.version
  PROVE  i.artifact = j.artifact
BY DEF CommandInv, Key, Agree

LEMMA OutputStays ==
  ASSUME OutputInv, SameTask, cmd'.receipts = cmd.receipts, artifact' = artifact,
         cmd.pc \in {"recipe", "sources", "fetching", "build", "fetch", "retire", "record", "deploy"},
         cmd.pc \in {"retire", "record"} => cmd'.pc \in {"retire", "record", "idle"}
  PROVE  OutputInv'
<1>1. Twice(cmd') = Twice(cmd)
  BY SameTaskSame
<1>2. \A n \in 1 .. Len(cmd.receipts) :
        \/ artifact[cmd.receipts[n].out] = cmd.receipts[n].artifact
        \/ cmd.pc \in {"retire", "record"} /\ cmd.receipts[n].name \in Twice(cmd)
  BY DEF OutputInv, BuildPcs, BeingCopied, Run
<1> QED BY <1>1, <1>2 DEF OutputInv, BuildPcs

LEMMA MeasureMakes ==
  ASSUME TypeOK, CommandInv, BuildInv, ReceiptInv, OutputInv, Measure
  PROVE  OutputInv'
<1>1. cmd.pc = "build" /\ Len(cmd.receipts) = cmd.n - 1
  BY DEF Measure, ReceiptInv, Run
<1>2. PICK d \in Digest :
        /\ cmd' \in Working /\ SameTask /\ cmd'.pc = "copy" /\ cmd'.n = cmd.n
        /\ cmd'.receipts = Append(cmd.receipts, Receipt(Cur, "tree", d))
        /\ artifact' = [artifact EXCEPT ![Out("tree", Cur)] = Torn]
  BY MeasureMoves
<1> DEFINE q == cmd.receipts
           r == Receipt(Cur, "tree", d)
           o == Out("tree", Cur)
<1>3. Cur' = Cur
  BY <1>2, SameTaskSame
<1>4. q \in Seq(Receipts) /\ cmd.n \in Nat
  BY <1>1 DEF CommandInv, Working, Run
<1>5. r.out = o
  BY DEF Receipt
<1> SUFFICES ASSUME NEW n \in 1 .. Len(cmd'.receipts)
             PROVE  artifact'[cmd'.receipts[n].out] = cmd'.receipts[n].artifact
                    \/ cmd'.receipts[n].out = o
  BY <1>2, <1>3 DEF OutputInv, BeingCopied, Run
<1>7. CASE cmd'.receipts[n].out # o
  <2> DEFINE w == cmd'.receipts
  <2>1. w = Append(q, r)
    BY <1>2
  <2>2. n \in 1 .. Len(q) /\ w[n] = q[n]
    <3>1. w[n].out # r.out
      BY <1>5, <1>7
    <3> HIDE DEF q, r, w
    <3>2. Len(q) \in Nat /\ Len(w) = Len(q) + 1 /\ w[Len(q) + 1] = r /\ \A m \in 1 .. Len(q) : w[m] = q[m]
      BY <1>4, <2>1 DEF q
    <3>3. n \in 1 .. Len(w)
      BY DEF w
    <3>4. n # Len(q) + 1
      BY <3>1, <3>2
    <3>5. n \in 1 .. Len(q)
      BY <3>2, <3>3, <3>4
    <3> QED BY <3>2, <3>5
  <2>3. artifact[q[n].out] = q[n].artifact
    BY <1>1, <2>2 DEF OutputInv, BuildPcs, BeingCopied, Run
  <2>4. artifact'[q[n].out] = artifact[q[n].out]
    <3>1. q[n].out \in Outs
      BY <1>1, <2>2, ReceiptAt DEF Run
    <3>2. q[n].out # o
      BY <1>7, <2>2
    <3> QED BY <1>2, <3>1, <3>2 DEF TypeOK
  <2> QED BY <2>2, <2>3, <2>4
<1> QED BY <1>7

LEMMA CopyMakes ==
  ASSUME TypeOK, CommandInv, ReceiptInv, OutputInv, CopyOutputs
  PROVE  OutputInv'
<1>1. cmd.pc = "copy" /\ Building /\ Len(cmd.receipts) = cmd.n
  BY DEF CopyOutputs, CommandInv, BuildPcs, ReceiptInv, Run
<1>2. /\ SameTask /\ SameBut(cmd, cmd')
      /\ artifact' = [artifact EXCEPT ![Out("tree", Cur)] = cmd.receipts[cmd.n].artifact]
  BY CopyMoves
<1> DEFINE q == cmd.receipts
           o == Out("tree", Cur)
<1>3. /\ Kind = "tree" /\ cmd'.receipts = q
      /\ Cur \in Range(cmd.intents) /\ cmd.n \in 1 .. Len(q) /\ o \in Outs
  BY <1>1, <1>2, CurKnown, IntentKnown DEF Run, Kind, SameBut
<1> SUFFICES ASSUME NEW n \in 1 .. Len(q)
             PROVE  artifact'[q[n].out] = q[n].artifact
  BY <1>3 DEF OutputInv
<1>4. /\ q[n].out = Out("tree", cmd.intents[n]) /\ q[n].out \in Outs
      /\ cmd.intents[n] \in Range(cmd.intents) /\ n \in 1 .. Len(cmd.intents)
      /\ cmd.route # "admitted" => q[n].artifact = cmd.intents[n].artifact
  BY <1>1, <1>3, ReceiptAt DEF Run
<1>5. cmd.route # "admitted" => q[cmd.n].artifact = Cur.artifact
  BY <1>1, <1>3, ReceiptAt DEF Run, Cur
<1>6. CASE q[n].out = o
  <2>1. q[n].artifact = q[cmd.n].artifact
    <3>1. CASE cmd.route = "admitted"
      <4>1. Len(cmd.intents) = 1
        BY <1>1, <3>1 DEF CommandInv, Run
      <4>2. cmd.n \in 1 .. Len(cmd.intents)
        BY <1>1, CurKnown DEF Run
      <4>3. cmd.n = n
        BY <1>4, <4>1, <4>2
      <4> QED BY <4>3
    <3>2. CASE cmd.route # "admitted"
      <4>1. cmd.intents[n].name = Cur.name /\ cmd.intents[n].version = Cur.version
        BY <1>4, <1>6, SameOut
      <4>2. cmd.intents[n].artifact = Cur.artifact
        BY <1>1, <1>3, <1>4, <4>1, OneDigest DEF Run
      <4> QED BY <1>4, <1>5, <3>2, <4>2
    <3> QED BY <3>1, <3>2
  <2> QED BY <1>2, <1>3, <1>6, <2>1 DEF TypeOK
<1>7. CASE q[n].out # o
  <2>1. artifact[q[n].out] = q[n].artifact
    BY <1>1, <1>7 DEF OutputInv, BuildPcs, BeingCopied, Run
  <2> QED BY <1>2, <1>4, <1>7, <2>1 DEF TypeOK
<1> QED BY <1>6, <1>7

LEMMA FetchMakes ==
  ASSUME TypeOK, CommandInv, ReceiptInv, OutputInv, FetchPackage
  PROVE  OutputInv'
<1>1. cmd.pc = "fetch" /\ ~Building /\ Len(cmd.receipts) = cmd.n - 1
  BY DEF FetchPackage, CommandInv, ReceiptInv, Run
<1>2. /\ SameTask /\ cmd'.receipts = Append(cmd.receipts, Receipt(Cur, "file", Cur.artifact))
      /\ artifact' = [artifact EXCEPT ![Out("file", Cur)] = Cur.artifact]
  BY FetchMoves
<1> DEFINE q == cmd.receipts
           w == cmd'.receipts
           r == Receipt(Cur, "file", Cur.artifact)
           o == Out("file", Cur)
<1>3. /\ Kind = "file" /\ cmd.route # "admitted" /\ q \in Seq(Receipts) /\ cmd.n \in Nat
      /\ Cur \in Range(cmd.intents) /\ o \in Outs
  BY <1>1, CurKnown, IntentKnown DEF Run, Kind, Building, CommandInv, Working
<1>4. r.out = o /\ r.artifact = Cur.artifact
  BY DEF Receipt
<1> SUFFICES ASSUME NEW n \in 1 .. Len(w)
             PROVE  artifact'[w[n].out] = w[n].artifact
  BY DEF OutputInv
<1>5. (n \in 1 .. Len(q) /\ w[n] = q[n]) \/ w[n] = r
  <2>1. w = Append(q, r) /\ n \in 1 .. Len(w)
    BY <1>2
  <2> HIDE DEF q, r, w
  <2>2. Len(q) \in Nat /\ Len(w) = Len(q) + 1 /\ w[Len(q) + 1] = r /\ \A m \in 1 .. Len(q) : w[m] = q[m]
    BY <1>3, <2>1 DEF q
  <2>3. n \in 1 .. Len(q) \/ n = Len(q) + 1
    BY <2>1, <2>2
  <2> QED BY <2>2, <2>3
<1>6. artifact'[o] = Cur.artifact
  BY <1>2, <1>3 DEF TypeOK
<1>7. CASE w[n] = r
  BY <1>4, <1>6, <1>7
<1>8. CASE n \in 1 .. Len(q) /\ w[n] = q[n]
  <2>1. /\ q[n].out = Out("file", cmd.intents[n]) /\ q[n].out \in Outs
        /\ cmd.intents[n] \in Range(cmd.intents) /\ q[n].artifact = cmd.intents[n].artifact
    BY <1>1, <1>3, <1>8, ReceiptAt DEF Run
  <2>2. artifact[q[n].out] = q[n].artifact
    BY <1>1, <1>8 DEF OutputInv, BuildPcs, BeingCopied, Run
  <2>3. CASE q[n].out = o
    <3>1. cmd.intents[n].name = Cur.name /\ cmd.intents[n].version = Cur.version
      BY <2>1, <2>3, SameOut
    <3>2. cmd.intents[n].artifact = Cur.artifact
      BY <1>1, <1>3, <2>1, <3>1, OneDigest DEF Run
    <3> QED BY <1>6, <1>8, <2>1, <2>3, <3>2
  <2>4. CASE q[n].out # o
    BY <1>2, <1>8, <2>1, <2>2, <2>4 DEF TypeOK
  <2> QED BY <2>3, <2>4
<1> QED BY <1>5, <1>7, <1>8

(* Retiring takes an output of the same package only when two versions are asked. *)
LEMMA RetireMakes ==
  ASSUME TypeOK, CommandInv, ReceiptInv, OutputInv, RecordInv, Retire
  PROVE  OutputInv'
<1>1. cmd.pc = "retire" /\ Len(cmd.receipts) = Len(cmd.intents)
  BY DEF Retire, ReceiptInv, Run
<1>2. SameTask /\ SameBut(cmd, cmd') /\ cmd'.pc \in {"retire", "record"}
  BY <1>1, StepMoves DEF Run
<1> DEFINE q == cmd.receipts
           old == records[Due.name]
<1>3. cmd'.receipts = q /\ Twice(cmd') = Twice(cmd)
  BY <1>2, SameTaskSame DEF SameBut
<1>4. cmd.n \in 1 .. Len(q)
  BY <1>1, CurKnown DEF Run
<1>5. /\ Due.name \in Name /\ Due.out = Out(Kind, Cur) /\ Due.name = Cur.name /\ Cur \in Range(cmd.intents)
  BY <1>1, <1>4, ReceiptAt DEF Due, Cur, Run
<1> SUFFICES ASSUME NEW n \in 1 .. Len(q)
             PROVE  artifact'[q[n].out] = q[n].artifact \/ q[n].name \in Twice(cmd)
  BY <1>2, <1>3 DEF OutputInv
<1>6. /\ q[n].out = Out(Kind, cmd.intents[n]) /\ q[n].name = cmd.intents[n].name
      /\ q[n].out \in Outs /\ cmd.intents[n] \in Range(cmd.intents)
  BY <1>1, ReceiptAt DEF Run
<1>7. artifact[q[n].out] = q[n].artifact \/ q[n].name \in Twice(cmd)
  BY <1>1 DEF OutputInv, BeingCopied, Run
<1>8. CASE artifact' = artifact
  BY <1>7, <1>8
<1>9. CASE artifact' # artifact
  <2>1. old # None /\ old.out # Due.out /\ artifact' = [artifact EXCEPT ![old.out] = None]
    BY <1>9 DEF Retire
  <2>2. CASE q[n].out = old.out
    <3>1. old.out.name = Due.name
      BY <1>5, <2>1 DEF RecordInv
    <3>2. cmd.intents[n].name = Cur.name
      BY <1>5, <1>6, <2>2, <3>1 DEF Out
    <3>3. cmd.intents[n].version # Cur.version
      BY <1>5, <1>6, <2>1, <2>2, <3>2 DEF Out
    <3> QED BY <1>5, <1>6, <3>2, <3>3 DEF Twice
  <2>3. CASE q[n].out # old.out
    BY <1>6, <1>7, <2>1, <2>3 DEF TypeOK
  <2> QED BY <2>2, <2>3
<1> QED BY <1>8, <1>9

LEMMA OutputStep ==
  ASSUME TypeOK, CommandInv, BuildInv, ReceiptInv, OutputInv, RecordInv, Next
  PROVE  OutputInv'
<1>1. CASE BeginBuild \/ BeginAdmitted \/ BeginBinary \/ BeginBinaryPlans
  <2>1. PICK pc, route, verb, to, intents : Start(pc, route, verb, to, intents)
    BY <1>1, BeginGood
  <2>2. cmd'.receipts = <<>>
    BY <2>1 DEF Start
  <2>3. \A n \in 1 .. Len(cmd'.receipts) : FALSE
    BY <2>2, EmptySeq
  <2> QED BY <2>3 DEF OutputInv
<1>2. CASE ReadRecipe \/ BeginFetch \/ FetchContent \/ MarkReady \/ MergeSource \/ PrepareClosure \/ RunPhase
  <2>1. cmd.pc \in {"recipe", "sources", "fetching", "build"} /\ artifact' = artifact
    BY <1>2 DEF ReadRecipe, BeginFetch, FetchContent, MarkReady, MergeSource, PrepareClosure, RunPhase, Run
  <2>2. FetchContent => cmd' = cmd
    BY DEF FetchContent
  <2>3. SameTask /\ cmd'.receipts = cmd.receipts
    BY <1>2, <2>1, <2>2, StepMoves DEF Run, SameTask, SameBut
  <2> QED BY <2>1, <2>3, OutputStays
<1>3. CASE Record /\ ~AtEnd
  <2>1. cmd.pc = "record" /\ artifact' = artifact
    BY <1>3 DEF Record, Run
  <2>2. SameTask /\ SameBut(cmd, cmd') /\ cmd'.pc = cmd.pc
    BY <1>3, <2>1, StepMoves DEF Run
  <2> QED BY <2>1, <2>2, OutputStays DEF SameBut
<1>4. CASE Deploy /\ ~AtEnd
  <2>1. cmd.pc = "deploy" /\ artifact' = artifact
    BY <1>4 DEF Deploy, Run
  <2>2. SameTask /\ SameBut(cmd, cmd')
    BY <1>4, <2>1, StepMoves DEF Run
  <2> QED BY <2>1, <2>2, OutputStays DEF SameBut
<1>5. CASE DeployRefused \/ (Rollback /\ cmd.n # 0)
  <2>1. cmd'.pc = "rollback"
    BY <1>5, StepMoves DEF DeployRefused, Rollback, Run
  <2> QED BY <2>1 DEF OutputInv, BuildPcs
<1>6. CASE (Record /\ AtEnd) \/ (Deploy /\ AtEnd) \/ Fail \/ Kill \/ (Rollback /\ cmd.n = 0)
  <2>1. cmd' = Idle
    BY <1>6, StepMoves DEF Record, Deploy, Fail, Kill, Rollback, Run, Return, Abort
  <2> QED BY <2>1 DEF OutputInv, Idle, BuildPcs
<1>7. CASE \E p \in Name : RemoveRecorded(p) \/ RemoveOwned(p)
  BY <1>7 DEF RemoveRecorded, RemoveOwned, MayStart, OutputInv, Run, BuildPcs
<1> QED BY <1>1, <1>2, <1>3, <1>4, <1>5, <1>6, <1>7,
           MeasureMakes, CopyMakes, FetchMakes, RetireMakes DEF Next

-----------------------------------------------------------------------------
(* The records                                                                   *)

LEMMA ReceiptSigned ==
  ASSUME CommandInv, ReceiptInv, cmd.pc \in {"retire", "record"}, NEW n \in 1 .. Len(cmd.receipts)
  PROVE  /\ Says(Signed, cmd.receipts[n])
         /\ cmd.receipts[n].out.kind = "tree" => Says(Profiled, cmd.receipts[n])
<1>1. cmd.to = "store" /\ cmd.route # "admitted" /\ ~Run("idle")
  BY DEF CommandInv, Run
<1>2. cmd.route \in {"build", "admitted", "binary", "plans"}
  BY <1>1 DEF CommandInv, Working
<1> DEFINE r == cmd.receipts[n]
           i == cmd.intents[n]
<1>3. /\ i \in Range(cmd.intents) /\ r.name = i.name /\ r.version = i.version /\ r.artifact = i.artifact
      /\ r.out = Out(Kind, i)
  BY <1>1, ReceiptAt
<1>4. Says(Signed, i) /\ (cmd.route \in {"build", "plans"} => Says(Profiled, i))
  BY <1>1, <1>3, IntentKnown
<1>5. r.out.kind = "tree" => cmd.route = "build"
  BY <1>1, <1>3 DEF Out, Kind, Building
<1> HIDE DEF r, i
<1>6. Says(Signed, r) /\ (r.out.kind = "tree" => Says(Profiled, r))
  BY <1>3, <1>4, <1>5 DEF Says
<1> QED BY <1>6 DEF r

LEMMA RecordsStay ==
  ASSUME RecordInv, records' = records, cmd'.pc = "record" => cmd'.n = 1
  PROVE  RecordInv'
<1>1. cmd'.pc = "record" => \A n \in 1 .. cmd'.n - 1 : FALSE
  OBVIOUS
<1> QED BY <1>1 DEF RecordInv, Run

LEMMA RetireRecords ==
  ASSUME TypeOK, CommandInv, RecordInv, Retire
  PROVE  RecordInv'
<1>1. records' = records \/ records' = [records EXCEPT ![Due.name] = None]
  BY DEF Retire
<1>2. \A p \in Name : records'[p] = records[p] \/ records'[p] = None
  BY <1>1 DEF TypeOK
<1>3. cmd'.pc = "record" => cmd'.n = 1
  <2>1. cmd.pc = "retire"
    BY DEF Retire, Run
  <2> QED BY <2>1, StepMoves DEF Run
<1>4. cmd'.pc = "record" => \A n \in 1 .. cmd'.n - 1 : FALSE
  BY <1>3
<1> QED BY <1>2, <1>4 DEF RecordInv, Run

LEMMA RecordWrites ==
  ASSUME TypeOK, CommandInv, ReceiptInv, RecordInv, Record
  PROVE  /\ RecordInv'
         /\ records' = [records EXCEPT ![Due.name] = Due] /\ Due.name \in Name
         /\ \A n \in 1 .. cmd.n :
              LET r == cmd.receipts[n] IN
              r.name \notin Twice(cmd) =>
                records'[r.name].out = r.out /\ records'[r.name].artifact = r.artifact
<1>1. cmd.pc = "record" /\ Len(cmd.receipts) = Len(cmd.intents) /\ cmd.route # "admitted"
  BY DEF Record, ReceiptInv, CommandInv, Run
<1>2. cmd.n \in 1 .. Len(cmd.receipts) /\ Len(cmd.receipts) \in Nat
  BY <1>1, CurKnown DEF Run
<1>3. records' = [records EXCEPT ![Due.name] = Due] /\ cmd.n \in Nat
  BY <1>2 DEF Record
<1>4. /\ Due \in Receipts /\ Due.out \in Outs /\ Due.name \in Name
      /\ Due.name = Cur.name /\ Due.version = Cur.version /\ Due.out = Out(Kind, Cur)
      /\ Due.artifact = Cur.artifact /\ Cur \in Range(cmd.intents)
  BY <1>1, <1>2, ReceiptAt DEF Due, Cur, Run
<1>5. /\ Says(Signed, Due) /\ (Due.out.kind = "tree" => Says(Profiled, Due))
  BY <1>1, <1>2, ReceiptSigned DEF Due
<1>6. Due.out.name = Due.name /\ Due.out.version = Due.version
  BY <1>4, ReceiptParts
<1>7. records'[Due.name] = Due /\ \A p \in Name : p # Due.name => records'[p] = records[p]
  BY <1>3, <1>4 DEF TypeOK
<1>8. \A p \in Name : LET r == records'[p] IN r # None =>
        /\ r \in Receipts /\ r.name = p /\ r.out \in Outs
        /\ r.out.name = p /\ r.out.version = r.version
        /\ Says(Signed, r) /\ (r.out.kind = "tree" => Says(Profiled, r))
  <2> TAKE p \in Name
  <2>1. CASE p = Due.name
    BY <1>4, <1>5, <1>6, <1>7, <2>1
  <2>2. CASE p # Due.name
    BY <1>7, <2>2 DEF RecordInv
  <2> QED BY <2>1, <2>2
<1>9. ASSUME NEW n \in 1 .. cmd.n, cmd.receipts[n].name \notin Twice(cmd)
      PROVE  /\ records'[cmd.receipts[n].name].out = cmd.receipts[n].out
             /\ records'[cmd.receipts[n].name].artifact = cmd.receipts[n].artifact
  <2> DEFINE r == cmd.receipts[n]
             i == cmd.intents[n]
  <2>1. n \in 1 .. Len(cmd.receipts)
    BY <1>2
  <2>2. /\ i \in Range(cmd.intents) /\ r.name = i.name /\ r.version = i.version
        /\ r.out = Out(Kind, i) /\ r.artifact = i.artifact /\ r.name \in Name
    BY <1>1, <2>1, ReceiptAt DEF Run
  <2>3. CASE r.name = Due.name
    <3>1. i.name = Cur.name
      BY <1>4, <2>2, <2>3
    <3>2. i.version = Cur.version
      BY <1>4, <1>9, <2>2, <3>1 DEF Twice
    <3>3. i.artifact = Cur.artifact
      BY <1>1, <1>4, <2>2, <3>1, <3>2, OneDigest DEF Run
    <3>4. r.out = Due.out /\ r.artifact = Due.artifact
      BY <1>4, <2>2, <3>1, <3>2, <3>3 DEF Out
    <3> QED BY <1>7, <2>3, <3>4
  <2>4. CASE r.name # Due.name
    <3>1. n # cmd.n
      BY <2>4 DEF Due
    <3>2. n \in 1 .. cmd.n - 1
      BY <1>3, <3>1
    <3>3. records[r.name].out = r.out /\ records[r.name].artifact = r.artifact
      BY <1>1, <1>9, <3>2 DEF RecordInv, Run
    <3> QED BY <1>7, <2>2, <2>4, <3>3
  <2> QED BY <2>3, <2>4
<1>10. RecordInv'
  <2>1. CASE AtEnd
    <3>1. cmd' = Idle
      BY <1>1, <2>1, StepMoves DEF Return, Run
    <3> QED BY <1>8, <3>1 DEF RecordInv, Run, Idle
  <2>2. CASE ~AtEnd
    <3>1. SameTask /\ SameBut(cmd, cmd') /\ cmd'.n = cmd.n + 1
      BY <1>1, <2>2, StepMoves DEF Run
    <3>2. Twice(cmd') = Twice(cmd) /\ cmd'.receipts = cmd.receipts /\ cmd'.n - 1 = cmd.n
      BY <1>3, <3>1, SameTaskSame DEF SameBut
    <3>3. \A n \in 1 .. cmd'.n - 1 :
            LET r == cmd'.receipts[n] IN
            r.name \notin Twice(cmd') =>
              records'[r.name].out = r.out /\ records'[r.name].artifact = r.artifact
      BY <1>9, <3>2
    <3> QED BY <1>8, <3>3 DEF RecordInv
  <2> QED BY <2>1, <2>2
<1> QED BY <1>3, <1>4, <1>9, <1>10

LEMMA RecordStep ==
  ASSUME TypeOK, CommandInv, BuildInv, ReceiptInv, RecordInv, Next
  PROVE  RecordInv'
<1>1. CASE BeginBuild \/ BeginAdmitted \/ BeginBinary \/ BeginBinaryPlans
  <2>1. PICK pc, route, verb, to, intents :
          Startable(pc, route, verb, to, intents) /\ Start(pc, route, verb, to, intents)
    BY <1>1, BeginGood
  <2> QED BY <2>1, RecordsStay DEF Start, Startable
<1>2. CASE ReadRecipe \/ BeginFetch \/ FetchContent \/ MarkReady \/ MergeSource \/ PrepareClosure \/ RunPhase
  <2>1. cmd.pc \in {"recipe", "sources", "fetching", "build"} /\ records' = records
    BY <1>2 DEF ReadRecipe, BeginFetch, FetchContent, MarkReady, MergeSource, PrepareClosure, RunPhase, Run
  <2>2. FetchContent => cmd' = cmd
    BY DEF FetchContent
  <2>3. cmd'.pc # "record"
    BY <1>2, <2>1, <2>2, StepMoves DEF Run
  <2> QED BY <2>1, <2>3, RecordsStay
<1>3. CASE Measure
  <2>1. records' = records /\ cmd'.pc = "copy"
    BY <1>3, MeasureMoves DEF Measure
  <2> QED BY <2>1, RecordsStay
<1>4. CASE CopyOutputs
  <2>1. records' = records /\ (cmd'.pc = "record" => cmd'.n = 1)
    BY <1>4, CopyMoves DEF CopyOutputs
  <2> QED BY <2>1, RecordsStay
<1>5. CASE FetchPackage
  <2>1. records' = records /\ (cmd'.pc = "record" => cmd'.n = 1)
    BY <1>5, FetchMoves DEF FetchPackage
  <2> QED BY <2>1, RecordsStay
<1>6. CASE Deploy \/ DeployRefused \/ Rollback \/ Fail \/ Kill
  <2>1. records' = records /\ ~Run("idle")
    BY <1>6 DEF Deploy, DeployRefused, Rollback, Fail, Kill, Run
  <2>2. cmd' = Idle \/ cmd'.pc \in {"fetch", "deploy", "rollback"}
    BY <1>6, <2>1, StepMoves DEF Return, Abort
  <2> QED BY <2>1, <2>2, RecordsStay DEF Idle
<1>7. CASE \E p \in Name : RemoveRecorded(p) \/ RemoveOwned(p)
  <2>1. PICK p \in Name : RemoveRecorded(p) \/ RemoveOwned(p)
    BY <1>7
  <2>2. cmd' = cmd /\ cmd.pc = "idle" /\ \A x \in Name : records'[x] = records[x] \/ records'[x] = None
    BY <2>1 DEF RemoveRecorded, RemoveOwned, MayStart, Run, TypeOK
  <2> QED BY <2>2 DEF RecordInv, Run
<1> QED BY <1>1, <1>2, <1>3, <1>4, <1>5, <1>6, <1>7, RetireRecords, RecordWrites DEF Next

-----------------------------------------------------------------------------
(* The recorded artifacts                                                        *)

Backed(p) == artifact[records[p].out] = records[p].artifact

(* What both statements about the artifacts of the records say.                  *)
LEMMA BackedParts ==
  ASSUME RecordsBacked, RootBackedInv, CommandInv
  PROVE  /\ \A p \in Name : records[p] # None /\ p \notin broken /\ (Run("idle") \/ p \notin Names(cmd)) => Backed(p)
         /\ ~Run("idle") /\ cmd.to = "root" =>
              \A p \in Names(cmd) : records[p] # None /\ p \notin broken =>
                Backed(p) \/ BeingCopied(records[p].out)
BY DEF RecordsBacked, RootBackedInv, Backed

(* A step that touches no artifact and no record.                                *)
LEMMA BackedStays ==
  ASSUME RecordsBacked, RootBackedInv, cmd.pc \notin {"idle", "copy"}, SameTask, cmd'.pc # "idle",
         artifact' = artifact, records' = records, broken' = broken
  PROVE  (RecordsBacked /\ RootBackedInv)'
<1>1. Names(cmd') = Names(cmd) /\ cmd'.to = cmd.to
  BY SameTaskSame DEF SameTask
<1>2. ~Run("idle") /\ ~Run("idle")' /\ \A o : ~BeingCopied(o)
  BY DEF Run, BeingCopied
<1>3. RecordsBacked'
  BY <1>1, <1>2 DEF RecordsBacked
<1>4. RootBackedInv'
  BY <1>1, <1>2 DEF RootBackedInv
<1> QED BY <1>3, <1>4

(* A step that changes the output of the intent it is at.                        *)
LEMMA OthersBacked ==
  ASSUME TypeOK, CommandInv, RecordInv, RecordsBacked, ~Run("idle"), ~Run("rollback"), SameTask,
         cmd'.pc # "idle", records' = records, broken' = broken,
         NEW kind \in {"tree", "file"}, NEW v,
         artifact' = [artifact EXCEPT ![Out(kind, Cur)] = v]
  PROVE  RecordsBacked'
<1>1. Names(cmd') = Names(cmd) /\ Cur.name \in Names(cmd)
  BY SameTaskSame, CurKnown DEF Names
<1> SUFFICES ASSUME NEW p \in Name, records[p] # None, p \notin broken, p \notin Names(cmd)
             PROVE  artifact'[records[p].out] = records[p].artifact
  BY <1>1 DEF RecordsBacked, Run
<1>2. artifact[records[p].out] = records[p].artifact
  BY DEF RecordsBacked
<1>3. records[p].out # Out(kind, Cur) /\ records[p].out \in Outs
  <2>1. records[p].out.name = p /\ records[p].out \in Outs
    BY DEF RecordInv
  <2> QED BY <1>1, <2>1 DEF Out
<1> QED BY <1>2, <1>3 DEF TypeOK

LEMMA MeasureBacks ==
  ASSUME TypeOK, CommandInv, BuildInv, RecordInv, RecordsBacked, RootBackedInv, Measure
  PROVE  (RecordsBacked /\ RootBackedInv)'
<1>1. cmd.pc = "build" /\ records' = records /\ broken' = broken
  BY DEF Measure, Run
<1>2. SameTask /\ cmd'.pc = "copy" /\ cmd'.n = cmd.n /\ artifact' = [artifact EXCEPT ![Out("tree", Cur)] = Torn]
  BY MeasureMoves
<1>3. RecordsBacked'
  BY <1>1, <1>2, OthersBacked DEF Run
<1>4. Cur' = Cur /\ Names(cmd') = Names(cmd) /\ cmd'.to = cmd.to
  BY <1>2, SameTaskSame DEF SameTask
<1>5. ASSUME cmd.to = "root", NEW p \in Names(cmd), p \notin broken, records[p] # None
      PROVE  artifact'[records[p].out] = records[p].artifact \/ records[p].out = Out("tree", Cur)
  <2>1. artifact[records[p].out] = records[p].artifact
    BY <1>1, <1>5 DEF RootBackedInv, Run, BeingCopied
  <2> QED BY <1>2, <2>1 DEF TypeOK
<1>6. RootBackedInv'
  BY <1>1, <1>2, <1>4, <1>5 DEF RootBackedInv, BeingCopied, Run
<1> QED BY <1>3, <1>6

(* The outputs copied are those recorded: the version has one digest.            *)
LEMMA CopyBacks ==
  ASSUME DigestsAgree, TypeOK, CommandInv, ReceiptInv, RecordInv, RecordsBacked, RootBackedInv, CopyOutputs
  PROVE  (RecordsBacked /\ RootBackedInv)'
<1> DEFINE o == Out("tree", Cur)
           d == cmd.receipts[cmd.n].artifact
<1>1. cmd.pc = "copy" /\ records' = records /\ broken' = broken /\ Building /\ Len(cmd.receipts) = cmd.n
  BY DEF CopyOutputs, CommandInv, BuildPcs, ReceiptInv, Run
<1>2. /\ SameTask /\ artifact' = [artifact EXCEPT ![o] = d]
      /\ cmd'.pc \in {"recipe", "deploy", "retire", "record", "refused"}
  BY CopyMoves, AfterIs
<1>3. RecordsBacked'
  BY <1>1, <1>2, OthersBacked DEF Run
<1>4. Names(cmd') = Names(cmd) /\ cmd'.to = cmd.to
  BY <1>2, SameTaskSame DEF SameTask
<1>5. Cur \in Range(cmd.intents) /\ cmd.n \in 1 .. Len(cmd.receipts)
  BY <1>1, CurKnown DEF Run
<1>6. cmd.route # "admitted" => d = Cur.artifact
  BY <1>1, <1>5, ReceiptAt DEF Run, Cur
<1>7. ASSUME cmd.to = "root", NEW p \in Names(cmd), p \notin broken, records[p] # None
      PROVE  artifact'[records[p].out] = records[p].artifact
  <2> DEFINE r == records[p]
  <2>1. p \in Name
    BY <1>1, <1>7, NamesKnown DEF Run
  <2>2. /\ r \in Receipts /\ r.name = p /\ r.out \in Outs /\ r.out.name = p /\ r.out.version = r.version
        /\ r.out.kind = "tree" => Says(Profiled, r)
    BY <1>7, <2>1 DEF RecordInv
  <2>3. CASE r.out = o
    <3>1. PICK j \in Profiled : j.name = r.name /\ j.version = r.version /\ j.artifact = r.artifact
      BY <2>2, <2>3 DEF Says, Out
    <3>2. Key(j) = <<Cur.name, Cur.version>>
      BY <2>2, <2>3, <3>1 DEF Key, Out
    <3>3. cmd.route # "admitted"
      <4>1. ASSUME cmd.route = "admitted" PROVE FALSE
        <5>1. PICK a \in Admitted : Cur = AdmittedIntent(a)
          BY <1>1, <1>5, <4>1, IntentKnown DEF Run
        <5>2. Key(j) = Key(a)
          BY <3>2, <5>1 DEF Key, AdmittedIntent
        <5> QED BY <5>2 DEF DigestsAgree
      <4> QED BY <4>1
    <3>4. PICK i \in Profiled : i.name = Cur.name /\ i.version = Cur.version /\ i.artifact = Cur.artifact
      <4>1. Says(Profiled, Cur)
        BY <1>1, <1>5, <3>3, IntentKnown DEF Run, Building
      <4> QED BY <4>1 DEF Says
    <3>5. j.artifact = i.artifact
      BY <3>2, <3>4 DEF DigestsAgree, Key
    <3>6. r.artifact = d
      BY <1>6, <3>1, <3>3, <3>4, <3>5
    <3> QED BY <1>2, <2>2, <2>3, <3>6 DEF TypeOK
  <2>4. CASE r.out # o
    <3>1. artifact[r.out] = r.artifact
      BY <1>1, <1>7, <2>4 DEF RootBackedInv, BeingCopied, Run
    <3> QED BY <1>2, <2>2, <2>4, <3>1 DEF TypeOK
  <2> QED BY <2>3, <2>4
<1>8. RootBackedInv'
  BY <1>1, <1>4, <1>7 DEF RootBackedInv
<1> QED BY <1>3, <1>8

(* A fetched file that is there has the digest of the intent already.            *)
LEMMA FetchBacks ==
  ASSUME TypeOK, CommandInv, RecordInv, RecordsBacked, RootBackedInv, FetchPackage
  PROVE  (RecordsBacked /\ RootBackedInv)'
<1> DEFINE o == Out("file", Cur)
<1>1. cmd.pc = "fetch" /\ records' = records /\ broken' = broken
  BY DEF FetchPackage, Run
<1>2. /\ SameTask /\ cmd'.pc # "idle"
      /\ artifact[o] \in {None, Cur.artifact} /\ artifact' = [artifact EXCEPT ![o] = Cur.artifact]
  BY FetchMoves, AfterIs
<1>3. RecordsBacked'
  BY <1>1, <1>2, OthersBacked DEF Run
<1>4. Names(cmd') = Names(cmd) /\ cmd'.to = cmd.to
  BY <1>2, SameTaskSame DEF SameTask
<1>5. ASSUME cmd.to = "root", NEW p \in Names(cmd), p \notin broken, records[p] # None
      PROVE  artifact'[records[p].out] = records[p].artifact
  <2>1. artifact[records[p].out] = records[p].artifact
    BY <1>1, <1>5 DEF RootBackedInv, Run, BeingCopied
  <2>2. p \in Name
    BY <1>1, <1>5, NamesKnown DEF Run
  <2>3. records[p] \in Receipts /\ records[p].out \in Outs
    BY <1>5, <2>2 DEF RecordInv
  <2>4. records[p].artifact # None
    BY <2>3, ReceiptParts, ProvisionAssumption
  <2>5. CASE records[p].out = o
    BY <1>2, <2>1, <2>3, <2>4, <2>5 DEF TypeOK
  <2>6. CASE records[p].out # o
    BY <1>2, <2>1, <2>3, <2>6 DEF TypeOK
  <2> QED BY <2>5, <2>6
<1>6. RootBackedInv'
  BY <1>1, <1>4, <1>5 DEF RootBackedInv
<1> QED BY <1>3, <1>6

LEMMA RetireBacks ==
  ASSUME TypeOK, CommandInv, ReceiptInv, RecordInv, RecordsBacked, Retire
  PROVE  (RecordsBacked /\ RootBackedInv)'
<1>1. cmd.pc = "retire" /\ broken' = broken /\ cmd.to = "store" /\ Len(cmd.receipts) = Len(cmd.intents)
  BY DEF Retire, CommandInv, ReceiptInv, Run
<1>2. SameTask /\ cmd'.pc \in {"retire", "record"}
  BY <1>1, StepMoves DEF Run
<1>3. Names(cmd') = Names(cmd) /\ cmd'.to = cmd.to
  BY <1>2, SameTaskSame DEF SameTask
<1>4. Due.name \in Name /\ Due.name \in Names(cmd)
  <2>1. cmd.n \in 1 .. Len(cmd.receipts)
    BY <1>1, CurKnown DEF Run
  <2> QED BY <1>1, <2>1, ReceiptAt DEF Due, Names, Run
<1> SUFFICES ASSUME NEW p \in Name, records'[p] # None, p \notin broken, p \notin Names(cmd)
             PROVE  artifact'[records'[p].out] = records'[p].artifact
  BY <1>1, <1>2, <1>3 DEF RecordsBacked, RootBackedInv, Run
<1>5. records'[p] = records[p]
  BY <1>4 DEF Retire, TypeOK
<1>6. artifact[records[p].out] = records[p].artifact /\ records[p].out.name = p
  BY <1>5 DEF RecordsBacked, RecordInv
<1>7. artifact'[records[p].out] = artifact[records[p].out]
  <2>1. CASE artifact' = artifact
    BY <2>1
  <2>2. CASE artifact' # artifact
    <3> DEFINE old == records[Due.name]
    <3>1. old # None /\ artifact' = [artifact EXCEPT ![old.out] = None]
      BY <2>2 DEF Retire
    <3>2. old.out.name = Due.name
      BY <1>4, <3>1 DEF RecordInv
    <3>3. old.out # records[p].out
      BY <1>4, <1>6, <3>2
    <3>4. records[p].out \in Outs
      BY <1>5 DEF RecordInv
    <3> QED BY <3>1, <3>3, <3>4 DEF TypeOK
  <2> QED BY <2>1, <2>2
<1> QED BY <1>5, <1>6, <1>7

(* A call that records its receipts leaves them all backed when it returns.      *)
LEMMA RecordBacks ==
  ASSUME TypeOK, CommandInv, ReceiptInv, OutputInv, RecordInv, RecordsBacked, Record
  PROVE  (RecordsBacked /\ RootBackedInv)'
<1>1. cmd.pc = "record" /\ cmd.to = "store" /\ Len(cmd.receipts) = Len(cmd.intents) /\ artifact' = artifact
  BY DEF Record, CommandInv, ReceiptInv, Run
<1>2. /\ records' = [records EXCEPT ![Due.name] = Due] /\ Due.name \in Name
      /\ \A n \in 1 .. cmd.n :
           LET r == cmd.receipts[n] IN
           r.name \notin Twice(cmd) =>
             records'[r.name].out = r.out /\ records'[r.name].artifact = r.artifact
  BY RecordWrites
<1>3. Due.name \in Names(cmd)
  <2>1. cmd.n \in 1 .. Len(cmd.receipts)
    BY <1>1, CurKnown DEF Run
  <2> QED BY <1>1, <2>1, ReceiptAt DEF Due, Names, Run
<1>4. ASSUME NEW p \in Name, records'[p] # None, p \notin broken, p \notin Names(cmd)
      PROVE  artifact'[records'[p].out] = records'[p].artifact
  <2>1. records'[p] = records[p]
    BY <1>2, <1>3, <1>4 DEF TypeOK
  <2> QED BY <1>1, <1>4, <2>1 DEF RecordsBacked
<1>5. CASE ~AtEnd
  <2>1. SameTask /\ cmd'.pc = "record"
    BY <1>1, <1>5, StepMoves DEF Run
  <2>2. Names(cmd') = Names(cmd) /\ cmd'.to = cmd.to /\ broken' = broken
    BY <1>5, <2>1, SameTaskSame DEF SameTask, Record
  <2> QED BY <1>1, <1>4, <2>1, <2>2 DEF RecordsBacked, RootBackedInv, Run
<1>6. CASE AtEnd
  <2>1. cmd' = Idle /\ broken' = (broken \ Names(cmd)) \cup Twice(cmd)
    BY <1>1, <1>6, StepMoves DEF Return, Run
  <2>2. RootBackedInv'
    BY <2>1 DEF RootBackedInv, Run, Idle
  <2>3. ASSUME NEW p \in Names(cmd), p \notin Twice(cmd)
        PROVE  artifact'[records'[p].out] = records'[p].artifact
    <3>1. PICK n \in 1 .. Len(cmd.intents) : cmd.intents[n].name = p
      <4>1. cmd.intents \in Seq(Asked)
        BY <1>1 DEF CommandInv, Working, Run
      <4>2. PICK i \in Range(cmd.intents) : i.name = p
        BY DEF Names
      <4> QED BY <4>1, <4>2, RangeListed DEF Range
    <3>2. n \in 1 .. cmd.n /\ n \in 1 .. Len(cmd.receipts)
      BY <1>1, <1>6 DEF AtEnd
    <3>3. cmd.receipts[n].name = p
      BY <1>1, <3>1, <3>2, ReceiptAt DEF Run
    <3>4. records'[p].out = cmd.receipts[n].out /\ records'[p].artifact = cmd.receipts[n].artifact
      BY <1>2, <2>3, <3>2, <3>3
    <3>5. artifact[cmd.receipts[n].out] = cmd.receipts[n].artifact
      BY <1>1, <2>3, <3>2, <3>3 DEF OutputInv, BeingCopied, Run
    <3> QED BY <1>1, <3>4, <3>5
  <2>4. RecordsBacked'
    BY <1>4, <2>1, <2>3 DEF RecordsBacked
  <2> QED BY <2>2, <2>4
<1> QED BY <1>5, <1>6

LEMMA BackedStep ==
  ASSUME DigestsAgree, TypeOK, CommandInv, BuildInv, ReceiptInv, OutputInv, RecordInv, OwnedInv,
         RecordsBacked, RootBackedInv, Next
  PROVE  (RecordsBacked /\ RootBackedInv)'
<1>1. CASE BeginBuild \/ BeginAdmitted \/ BeginBinary \/ BeginBinaryPlans
  <2>1. PICK pc, route, verb, to, intents : Start(pc, route, verb, to, intents)
    BY <1>1, BeginGood
  <2>2. Run("idle") /\ UNCHANGED <<artifact, records, broken>>
    BY <1>1, <2>1, BeginGood DEF Start
  <2>3. \A p \in Name : records[p] # None /\ p \notin broken => artifact[records[p].out] = records[p].artifact
    BY <2>2 DEF RecordsBacked
  <2>4. Names(cmd') \subseteq Name
    <3>1. PICK a, b, c, d, e : Startable(a, b, c, d, e) /\ Start(a, b, c, d, e)
      BY <1>1, BeginGood
    <3> QED BY <3>1, StartsRight DEF OwnedInv
  <2> QED BY <2>2, <2>3, <2>4 DEF RecordsBacked, RootBackedInv
<1>2. CASE ReadRecipe \/ BeginFetch \/ FetchContent \/ MarkReady \/ MergeSource \/ PrepareClosure \/ RunPhase
  <2>1. /\ cmd.pc \in {"recipe", "sources", "fetching", "build"}
        /\ UNCHANGED <<artifact, records, broken>>
    BY <1>2 DEF ReadRecipe, BeginFetch, FetchContent, MarkReady, MergeSource, PrepareClosure, RunPhase, Run
  <2>2. FetchContent => cmd' = cmd
    BY DEF FetchContent
  <2>3. SameTask /\ cmd'.pc # "idle"
    BY <1>2, <2>1, <2>2, StepMoves DEF Run, SameTask
  <2> QED BY <2>1, <2>3, BackedStays
<1>3. CASE (Deploy /\ ~AtEnd) \/ DeployRefused \/ (Rollback /\ cmd.n # 0)
  <2>1. cmd.pc \in {"deploy", "rollback"} /\ UNCHANGED <<artifact, records, broken>>
    BY <1>3 DEF Deploy, DeployRefused, Rollback, Run
  <2>2. SameTask /\ cmd'.pc # "idle"
    BY <1>3, <2>1, StepMoves DEF Run
  <2> QED BY <2>1, <2>2, BackedStays
<1>4. CASE (Deploy /\ AtEnd) \/ Fail \/ Kill \/ (Rollback /\ cmd.n = 0)
  <2>1. ~Run("idle") /\ UNCHANGED <<artifact, records>>
    BY <1>4 DEF Deploy, Fail, Kill, Rollback, Run
  <2>2. (Deploy /\ AtEnd /\ Return) \/ Abort
    BY <1>4, <2>1, StepMoves
  <2>3. cmd' = Idle
    BY <2>2 DEF Return, Abort
  <2>4. RootBackedInv'
    BY <2>3 DEF RootBackedInv, Run, Idle
  <2>5. ASSUME NEW p \in Name, records[p] # None, p \notin broken'
        PROVE  artifact[records[p].out] = records[p].artifact
    <3>1. CASE p \notin Names(cmd)
      <4>1. p \notin broken
        BY <2>2, <2>5, <3>1 DEF Return, Abort
      <4> QED BY <2>5, <3>1, <4>1 DEF RecordsBacked
    <3>2. CASE p \in Names(cmd)
      <4>1. Deploy /\ Return
        BY <2>2, <2>5, <3>2 DEF Abort
      <4>2. cmd.pc = "deploy" /\ cmd.to = "root"
        BY <4>1 DEF Deploy, CommandInv, Run
      <4>3. p \notin broken
        BY <2>5, <4>1, <4>2 DEF Return
      <4> QED BY <2>1, <2>5, <3>2, <4>2, <4>3 DEF RootBackedInv, BeingCopied, Run
    <3> QED BY <3>1, <3>2
  <2> QED BY <2>1, <2>4, <2>5 DEF RecordsBacked
<1>5. CASE \E p \in Name : RemoveRecorded(p) \/ RemoveOwned(p)
  <2>1. PICK q \in Name : RemoveRecorded(q) \/ RemoveOwned(q)
    BY <1>5
  <2>2. Run("idle") /\ cmd' = cmd /\ broken' = broken
    BY <2>1 DEF RemoveRecorded, RemoveOwned, MayStart
  <2>3. ASSUME NEW p \in Name, records'[p] # None, p \notin broken
        PROVE  artifact'[records'[p].out] = records'[p].artifact
    <3>1. \A x \in Name : records[x] # None => records[x].out \in Outs /\ records[x].out.name = x
      BY DEF RecordInv
    <3>2. CASE RemoveOwned(q)
      BY <2>2, <2>3, <3>2 DEF RemoveOwned, RecordsBacked
    <3>3. CASE RemoveRecorded(q)
      <4>1. /\ records[q] # None /\ records' = [records EXCEPT ![q] = None]
            /\ artifact' = [artifact EXCEPT ![records[q].out] = None]
        BY <3>3 DEF RemoveRecorded
      <4>2. p # q /\ records'[p] = records[p]
        BY <2>3, <4>1 DEF TypeOK
      <4>3. records[p].out # records[q].out /\ records[p].out \in Outs
        BY <2>3, <3>1, <4>1, <4>2
      <4>4. artifact[records[p].out] = records[p].artifact
        BY <2>2, <2>3, <4>2 DEF RecordsBacked
      <4> QED BY <4>1, <4>2, <4>3, <4>4 DEF TypeOK
    <3> QED BY <2>1, <3>2, <3>3
  <2> QED BY <2>2, <2>3 DEF RecordsBacked, RootBackedInv, Run
<1> QED BY <1>1, <1>2, <1>3, <1>4, <1>5,
           MeasureBacks, CopyBacks, FetchBacks, RetireBacks, RecordBacks DEF Next

-----------------------------------------------------------------------------
(* The target root                                                               *)

(* What holds of the target root between two steps of a command.                 *)
PlacedRight ==
  \A n \in 1 .. Placed :
    LET p == cmd.intents[n].name IN
    /\ cmd.verb = "install" /\ cmd.before[p] = None
    /\ ~Run("rollback") => owned[p] # None /\ owned[p].version = cmd.intents[n].version

Undoable(p) ==
  \/ owned[p] = cmd.before[p]
  \/ /\ cmd.before[p] = None /\ p \in Names(cmd) /\ cmd.verb = "install"
     /\ \/ \E n \in 1 .. Placed : cmd.intents[n].name = p
        \/ Run("rollback") /\ faults > 0

RootTyped ==
  /\ owned \in [Name -> {None} \cup Owned] /\ kills \in Nat /\ faults \in Nat
  /\ \A p \in Name : owned[p] # None => Authorised(p, owned[p].version, owned[p].digest)

LEMMA OwnedParts ==
  OwnedInv <=> RootTyped /\ (~Run("idle") => PlacedRight /\ \A p \in Name : Undoable(p))
BY DEF OwnedInv, RootTyped, PlacedRight, Undoable

(* A step that leaves the target root alone.                                     *)
LEMMA OwnedStays ==
  ASSUME OwnedInv, ~Run("idle"), SameTask, owned' = owned, kills' = kills, faults' = faults,
         Placed' = Placed, ~Run("rollback") \/ Run("rollback")'
  PROVE  OwnedInv'
<1>1. Names(cmd') = Names(cmd)
  BY SameTaskSame
<1>2. RootTyped /\ PlacedRight /\ \A p \in Name : Undoable(p)
  BY OwnedParts
<1>3. RootTyped'
  BY <1>2 DEF RootTyped, Authorised
<1>4. PlacedRight'
  BY <1>2 DEF PlacedRight, SameTask
<1>5. \A p \in Name : Undoable(p)'
  BY <1>1, <1>2 DEF Undoable, SameTask
<1> QED BY <1>3, <1>4, <1>5 DEF OwnedInv, RootTyped, PlacedRight, Undoable

(* Nothing is placed while a command builds or records.                          *)
LEMMA NonePlaced ==
  ASSUME cmd.pc \in BuildPcs \cup {"retire", "record"}
  PROVE  Placed = 0
BY DEF Placed, BuildPcs, Run

(* A command that ends.                                                          *)
LEMMA OwnedEnds ==
  ASSUME OwnedInv, cmd' = Idle, owned' = owned, kills' \in Nat, faults' \in Nat
  PROVE  OwnedInv'
BY DEF OwnedInv, Idle, Run, Authorised

(* The payload that is installed is whole and is what the intent names.          *)
LEMMA PayloadRight ==
  ASSUME TypeOK, CommandInv, ReceiptInv, OutputInv, Deploy
  PROVE  LET r == ReceiptOf(Cur) IN
         /\ artifact[r.out] \in Digest
         /\ Authorised(Cur.name, Cur.version, artifact[r.out])
<1> DEFINE r == ReceiptOf(Cur)
           q == cmd.receipts
<1>1. cmd.pc = "deploy" /\ PayloadReadable
  BY DEF Deploy, Run
<1>2. Cur \in Range(cmd.intents) /\ cmd.n \in 1 .. Len(cmd.intents) /\ Len(cmd.intents) \in Nat /\ q \in Seq(Receipts)
  BY <1>1, CurKnown DEF Run, CommandInv, Working
<1>3. Len(q) = IF Building THEN Len(cmd.intents) ELSE cmd.n
  BY <1>1 DEF ReceiptInv, Run
<1>4. cmd.n \in 1 .. Len(q)
  BY <1>2, <1>3
<1>5. q[cmd.n] \in Range(q) /\ q[cmd.n].name = Cur.name /\ q[cmd.n].version = Cur.version
  BY <1>1, <1>2, <1>4, ReceiptAt, RangeListed DEF Run, Cur
<1>6. r \in Range(q) /\ r.name = Cur.name /\ r.version = Cur.version
  BY <1>5 DEF ReceiptOf
<1>7. PICK n \in 1 .. Len(q) : q[n] = r
  BY <1>2, <1>6, RangeListed DEF Range
<1>8. r.artifact \in Digest /\ artifact[r.out] = r.artifact
  <2>1. q[n].artifact \in Digest
    BY <1>1, <1>7, ReceiptAt DEF Run
  <2>2. artifact[q[n].out] = q[n].artifact
    BY <1>1, <1>7 DEF OutputInv, BeingCopied, Run
  <2> QED BY <1>7, <2>1, <2>2
<1>9. Authorised(Cur.name, Cur.version, r.artifact)
  <2>1. CASE cmd.route = "admitted"
    <3>1. PICK a \in Admitted : Cur = AdmittedIntent(a)
      BY <1>1, <1>2, <2>1, IntentKnown DEF Run
    <3> QED BY <3>1 DEF Authorised, AdmittedIntent
  <2>2. CASE cmd.route # "admitted"
    <3>1. r.artifact = Cur.artifact
      BY <1>1, <2>2 DEF PayloadReadable
    <3>2. Says(Signed, Cur)
      BY <1>1, <1>2, <2>2, IntentKnown DEF Run
    <3> QED BY <3>1, <3>2 DEF Says, Authorised
  <2> QED BY <2>1, <2>2
<1> QED BY <1>8, <1>9

(* A package is installed over nothing, but in an update of one package.         *)
LEMMA DeployPlaces ==
  ASSUME TypeOK, CommandInv, ReceiptInv, OutputInv, OwnedInv, Deploy
  PROVE  /\ RootTyped' /\ Cur.name \in Names(cmd) /\ Cur.name \in Name /\ cmd.to = "root"
         /\ owned'[Cur.name] # None /\ owned'[Cur.name].version = Cur.version
         /\ \A p \in Name : p # Cur.name => owned'[p] = owned[p]
         /\ ~AtEnd => cmd.verb = "install"
         /\ cmd.verb = "install" => owned[Cur.name] = None /\ cmd.before[Cur.name] = None
<1> DEFINE d == artifact[ReceiptOf(Cur).out]
           v == [version |-> Cur.version, digest |-> d]
<1>1. cmd.pc = "deploy" /\ Installable /\ owned' = [owned EXCEPT ![Cur.name] = v] /\ kills' = kills /\ faults' = faults
  BY DEF Deploy, Run
<1>2. Cur \in Range(cmd.intents) /\ cmd.n \in 1 .. Len(cmd.intents) /\ Len(cmd.intents) \in Nat
  BY <1>1, CurKnown DEF Run
<1>3. Cur.name \in Name /\ Cur.version \in {r.version : r \in Recipe} /\ Cur.name \in Names(cmd)
  BY <1>1, <1>2, IntentKnown DEF Run, Names
<1>4. d \in Digest /\ Authorised(Cur.name, Cur.version, d)
  BY PayloadRight
<1>5. v \in Owned /\ v # None /\ v.version = Cur.version /\ v.digest = d
  BY <1>3, <1>4, ProvisionAssumption DEF Owned
<1>6. RootTyped /\ PlacedRight /\ \A p \in Name : Undoable(p)
  BY <1>1, OwnedParts DEF Run
<1> HIDE DEF d, v
<1>7. owned' \in [Name -> {None} \cup Owned] /\ owned'[Cur.name] = v
      /\ \A p \in Name : p # Cur.name => owned'[p] = owned[p]
  BY <1>1, <1>3, <1>5, <1>6 DEF RootTyped
<1>8. RootTyped'
  BY <1>1, <1>4, <1>5, <1>6, <1>7 DEF RootTyped, Authorised
<1>9. cmd.to = "root" /\ cmd.verb \in {"install", "update"}
  BY <1>1 DEF CommandInv, Working, Run
<1>10. ASSUME ~AtEnd
       PROVE  cmd.verb = "install"
  <2>1. ASSUME cmd.verb = "update"
        PROVE  FALSE
    <3>1. Len(cmd.intents) = 1
      BY <1>1, <1>9, <2>1 DEF CommandInv, Run
    <3>2. cmd.n = Len(cmd.intents)
      BY <1>2, <3>1
    <3> QED BY <1>10, <3>2 DEF AtEnd
  <2> QED BY <1>9, <2>1
<1>11. ASSUME cmd.verb = "install"
       PROVE  owned[Cur.name] = None /\ cmd.before[Cur.name] = None
  <2>1. owned[Cur.name] = None
    BY <1>1, <1>11 DEF Installable
  <2>2. Undoable(Cur.name)
    BY <1>3, <1>6
  <2> QED BY <2>1, <2>2 DEF Undoable
<1> QED BY <1>3, <1>5, <1>7, <1>8, <1>9, <1>10, <1>11

LEMMA DeployOwns ==
  ASSUME TypeOK, CommandInv, ReceiptInv, OutputInv, OwnedInv, Deploy
  PROVE  OwnedInv'
<1>1. cmd.pc = "deploy" /\ kills' = kills /\ faults' = faults
  BY DEF Deploy, Run
<1>2. /\ RootTyped' /\ Cur.name \in Names(cmd) /\ Cur.name \in Name /\ cmd.to = "root"
      /\ owned'[Cur.name] # None /\ owned'[Cur.name].version = Cur.version
      /\ \A p \in Name : p # Cur.name => owned'[p] = owned[p]
      /\ ~AtEnd => cmd.verb = "install"
      /\ cmd.verb = "install" => owned[Cur.name] = None /\ cmd.before[Cur.name] = None
  BY DeployPlaces
<1>3. CASE AtEnd
  <2>1. cmd' = Idle
    BY <1>1, <1>3, StepMoves DEF Return, Run
  <2> QED BY <1>2, <2>1 DEF OwnedInv, RootTyped, Run, Idle
<1>4. CASE ~AtEnd
  <2>1. /\ SameTask /\ cmd'.n = cmd.n + 1 /\ cmd'.pc \in {"fetch", "deploy"}
    BY <1>1, <1>4, StepMoves DEF Run
  <2>2. cmd.n \in 1 .. Len(cmd.intents) /\ Len(cmd.intents) \in Nat
    BY <1>1, CurKnown DEF Run
  <2>3. Placed = cmd.n - 1 /\ Placed' = cmd.n
    <3>1. cmd'.to = "root"
      BY <1>2, <2>1 DEF SameTask
    <3> QED BY <1>1, <2>1, <2>2, <3>1 DEF Placed, Run
  <2>4. PlacedRight /\ \A p \in Name : Undoable(p)
    BY <1>1, OwnedParts DEF Run
  <2>5. ASSUME NEW n \in 1 .. cmd.n
        PROVE  LET p == cmd.intents[n].name IN
               /\ cmd.verb = "install" /\ cmd.before[p] = None
               /\ owned'[p] # None /\ owned'[p].version = cmd.intents[n].version
    <3>1. CASE n = cmd.n
      BY <1>2, <1>4, <3>1 DEF Cur
    <3>2. CASE n # cmd.n
      <4> DEFINE p == cmd.intents[n].name
      <4>1. n \in 1 .. Placed
        BY <2>2, <2>3, <3>2
      <4>2. /\ cmd.verb = "install" /\ cmd.before[p] = None
            /\ owned[p] # None /\ owned[p].version = cmd.intents[n].version
        BY <1>1, <2>4, <4>1 DEF PlacedRight, Run
      <4>3. p \in Name
        <5>1. n \in 1 .. Len(cmd.intents) /\ cmd.intents \in Seq(Asked)
          BY <1>1, <2>2 DEF CommandInv, Working, Run
        <5>2. cmd.intents[n] \in Range(cmd.intents)
          BY <5>1, RangeListed
        <5> QED BY <1>1, <5>2, IntentKnown DEF Run
      <4>4. p # Cur.name
        BY <1>2, <4>2
      <4> QED BY <1>2, <4>2, <4>3, <4>4
    <3> QED BY <3>1, <3>2
  <2>6. PlacedRight'
    BY <2>1, <2>3, <2>5 DEF PlacedRight, SameTask
  <2>7. Names(cmd') = Names(cmd) /\ cmd'.before = cmd.before /\ cmd'.verb = cmd.verb /\ cmd'.intents = cmd.intents
    BY <2>1, SameTaskSame DEF SameTask
  <2>8. ASSUME NEW p \in Name
        PROVE  \/ owned'[p] = cmd.before[p]
               \/ /\ cmd.before[p] = None /\ p \in Names(cmd) /\ cmd.verb = "install"
                  /\ \E n \in 1 .. cmd.n : cmd.intents[n].name = p
    <3>1. CASE p = Cur.name
      BY <1>2, <1>4, <2>2, <3>1 DEF Cur
    <3>2. CASE p # Cur.name
      <4>1. Undoable(p) /\ owned'[p] = owned[p]
        BY <1>2, <2>4, <3>2
      <4>2. \A n \in 1 .. Placed : n \in 1 .. cmd.n
        BY <2>2, <2>3
      <4> QED BY <1>1, <4>1, <4>2 DEF Undoable, Run
    <3> QED BY <3>1, <3>2
  <2>9. \A p \in Name : Undoable(p)'
    BY <2>3, <2>7, <2>8 DEF Undoable
  <2> QED BY <1>2, <2>6, <2>9 DEF OwnedInv, RootTyped, PlacedRight, Undoable
<1> QED BY <1>3, <1>4

(* A refusal takes back what the command has installed, latest first.            *)
LEMMA RollbackOwns ==
  ASSUME CommandInv, OwnedInv, DeployRefused \/ Rollback
  PROVE  OwnedInv'
<1>1. /\ ~Run("idle") /\ kills' = kills /\ cmd.n \in Nat
      /\ DeployRefused => Run("deploy") /\ owned' = owned /\ faults' = faults
      /\ Rollback => Run("rollback")
  BY DEF DeployRefused, Rollback, Run, CommandInv, Working
<1>2. RootTyped /\ PlacedRight /\ \A p \in Name : Undoable(p)
  BY <1>1, OwnedParts
<1>3. CASE Rollback /\ cmd.n = 0
  <2>1. cmd' = Idle
    BY <1>1, <1>3, StepMoves DEF Abort
  <2>2. owned' = owned /\ faults' = faults
    BY <1>3 DEF Rollback
  <2> QED BY <1>1, <1>2, <2>1, <2>2, OwnedEnds DEF RootTyped
<1>4. CASE DeployRefused
  <2>1. SameTask /\ cmd'.pc = "rollback" /\ cmd'.n = cmd.n - 1
    BY <1>1, <1>4, StepMoves
  <2>2. Placed' = Placed
    BY <1>1, <1>4, <2>1 DEF Placed, Run
  <2> QED BY <1>1, <1>4, <2>1, <2>2, OwnedStays DEF Run
<1>5. CASE Rollback /\ cmd.n # 0
  <2>1. SameTask /\ cmd'.pc = "rollback" /\ cmd'.n = cmd.n - 1
    BY <1>1, <1>5, StepMoves
  <2>2. Placed = cmd.n /\ Placed' = cmd.n - 1 /\ cmd.n \in 1 .. Placed /\ Run("rollback") /\ Run("rollback")'
    BY <1>1, <1>5, <2>1 DEF Placed, Run
  <2>3. cmd.before[Cur.name] = None
    BY <1>2, <2>2 DEF PlacedRight, Cur
  <2>4. \/ owned' = [owned EXCEPT ![Cur.name] = None] /\ faults' = faults
        \/ owned' = owned /\ faults' = faults + 1
    BY <1>5 DEF Rollback
  <2>5. RootTyped'
    <3>1. owned' \in [Name -> {None} \cup Owned] /\ \A p \in Name : owned'[p] = owned[p] \/ owned'[p] = None
      BY <1>2, <2>4 DEF RootTyped
    <3>2. faults' \in Nat
      BY <1>2, <2>4 DEF RootTyped
    <3> QED BY <1>1, <1>2, <3>1, <3>2 DEF RootTyped, Authorised
  <2>6. Names(cmd') = Names(cmd) /\ cmd'.before = cmd.before /\ cmd'.verb = cmd.verb /\ cmd'.intents = cmd.intents
    BY <2>1, SameTaskSame DEF SameTask
  <2>7. PlacedRight'
    <3>1. \A n \in 1 .. cmd.n - 1 : n \in 1 .. Placed
      BY <1>1, <2>2
    <3> QED BY <1>2, <2>2, <2>6, <3>1 DEF PlacedRight
  <2>8. ASSUME NEW p \in Name
        PROVE  \/ owned'[p] = cmd.before[p]
               \/ /\ cmd.before[p] = None /\ p \in Names(cmd) /\ cmd.verb = "install"
                  /\ (\E n \in 1 .. cmd.n - 1 : cmd.intents[n].name = p) \/ faults' > 0
    <3>1. Undoable(p) /\ faults \in Nat
      BY <1>2 DEF RootTyped
    <3>2. CASE owned' = owned /\ faults' = faults + 1
      <4>1. faults' > 0
        BY <3>1, <3>2
      <4> QED BY <3>1, <3>2, <4>1 DEF Undoable
    <3>3. CASE owned' = [owned EXCEPT ![Cur.name] = None] /\ faults' = faults
      <4>1. CASE p = Cur.name
        BY <1>2, <2>3, <3>3, <4>1 DEF RootTyped
      <4>2. CASE p # Cur.name
        <5>1. owned'[p] = owned[p]
          BY <1>2, <3>3, <4>2 DEF RootTyped
        <5>2. \A n \in 1 .. Placed : cmd.intents[n].name = p => n \in 1 .. cmd.n - 1
          BY <1>1, <2>2, <4>2 DEF Cur
        <5> QED BY <3>1, <3>3, <5>1, <5>2 DEF Undoable
      <4> QED BY <4>1, <4>2
    <3> QED BY <2>4, <3>2, <3>3
  <2>9. \A p \in Name : Undoable(p)'
    BY <2>2, <2>6, <2>8 DEF Undoable
  <2> QED BY <2>5, <2>7, <2>9 DEF OwnedInv, RootTyped, PlacedRight, Undoable
<1> QED BY <1>3, <1>4, <1>5

LEMMA OwnedStep ==
  ASSUME TypeOK, CommandInv, BuildInv, ReceiptInv, OutputInv, OwnedInv, Next
  PROVE  OwnedInv'
<1>1. CASE BeginBuild \/ BeginAdmitted \/ BeginBinary \/ BeginBinaryPlans
  <2>1. PICK pc, route, verb, to, intents :
          Startable(pc, route, verb, to, intents) /\ Start(pc, route, verb, to, intents)
    BY <1>1, BeginGood
  <2>2. /\ cmd'.before = owned /\ cmd'.n = 1 /\ cmd'.pc \in {"recipe", "fetch"}
        /\ UNCHANGED <<owned, kills, faults>>
    BY <2>1 DEF Start, Startable
  <2>3. Placed' = 0
    BY <2>2 DEF Placed, Run
  <2>4. \A n \in 1 .. Placed' : FALSE
    BY <2>3
  <2>5. RootTyped
    BY OwnedParts
  <2>6. RootTyped'
    BY <2>2, <2>5 DEF RootTyped, Authorised
  <2> QED BY <2>2, <2>4, <2>6 DEF OwnedInv, RootTyped
<1>2. CASE ReadRecipe \/ BeginFetch \/ FetchContent \/ MarkReady \/ MergeSource \/ PrepareClosure \/ RunPhase
  <2>1. /\ cmd.pc \in {"recipe", "sources", "fetching", "build"}
        /\ UNCHANGED <<owned, kills, faults>>
    BY <1>2 DEF ReadRecipe, BeginFetch, FetchContent, MarkReady, MergeSource, PrepareClosure, RunPhase, Run
  <2>2. FetchContent => cmd' = cmd
    BY DEF FetchContent
  <2>3. SameTask /\ cmd'.pc \in BuildPcs
    BY <1>2, <2>1, <2>2, StepMoves DEF Run, SameTask, BuildPcs
  <2>4. Placed = 0 /\ Placed' = 0
    BY <2>1, <2>3 DEF Placed, BuildPcs, Run
  <2> QED BY <2>1, <2>3, <2>4, OwnedStays DEF Run
<1>3. CASE Measure
  <2>1. cmd.pc = "build" /\ UNCHANGED <<owned, kills, faults>>
    BY <1>3 DEF Measure, Run
  <2>2. SameTask /\ cmd'.pc = "copy"
    BY <1>3, MeasureMoves
  <2>3. Placed = 0 /\ Placed' = 0
    BY <2>1, <2>2 DEF Placed, Run
  <2> QED BY <2>1, <2>2, <2>3, OwnedStays DEF Run
<1>4. CASE CopyOutputs
  <2>1. cmd.pc = "copy" /\ UNCHANGED <<owned, kills, faults>>
    BY <1>4 DEF CopyOutputs, Run
  <2>2. SameTask /\ (cmd'.pc \in {"recipe", "retire", "record", "refused"} \/ (cmd'.pc = "deploy" /\ cmd'.n = 1))
    BY <1>4, CopyMoves, AfterIs
  <2>3. Placed = 0 /\ Placed' = 0
    BY <2>1, <2>2 DEF Placed, Run
  <2> QED BY <2>1, <2>2, <2>3, OwnedStays DEF Run
<1>5. CASE FetchPackage
  <2>1. cmd.pc = "fetch" /\ UNCHANGED <<owned, kills, faults>>
    BY <1>5 DEF FetchPackage, Run
  <2>2. /\ SameTask /\ cmd'.to = cmd.to
        /\ cmd.to = "root" => cmd'.pc = "deploy" /\ cmd'.n = cmd.n
        /\ cmd.to # "root" => cmd'.pc \in {"fetch", "retire", "record", "refused"}
    BY <1>5, FetchMoves, AfterIs DEF SameTask
  <2>3. Placed' = Placed
    BY <2>1, <2>2 DEF Placed, Run
  <2> QED BY <2>1, <2>2, <2>3, OwnedStays DEF Run
<1>6. CASE Retire \/ (Record /\ ~AtEnd)
  <2>1. cmd.pc \in {"retire", "record"} /\ UNCHANGED <<owned, kills, faults>>
    BY <1>6 DEF Retire, Record, Run
  <2>2. SameTask /\ cmd'.pc \in {"retire", "record"}
    BY <1>6, <2>1, StepMoves DEF Run
  <2>3. Placed = 0 /\ Placed' = 0
    BY <2>1, <2>2 DEF Placed, Run
  <2> QED BY <2>1, <2>2, <2>3, OwnedStays DEF Run
<1>7. CASE (Record /\ AtEnd) \/ Fail \/ Kill
  <2>1. /\ ~Run("idle") /\ owned' = owned /\ faults' = faults
        /\ kills' = kills \/ kills' = kills + 1
    BY <1>7 DEF Record, Fail, Kill, Run
  <2>2. cmd' = Idle
    BY <1>7, <2>1, StepMoves DEF Return, Abort
  <2>3. kills' \in Nat /\ faults' \in Nat
    BY <2>1 DEF OwnedInv
  <2> QED BY <2>1, <2>2, <2>3, OwnedEnds
<1>8. CASE \E p \in Name : RemoveRecorded(p) \/ RemoveOwned(p)
  <2>1. PICK q \in Name : RemoveRecorded(q) \/ RemoveOwned(q)
    BY <1>8
  <2>2. /\ cmd' = cmd /\ Run("idle") /\ kills' = kills /\ faults' = faults
        /\ owned' = owned \/ owned' = [owned EXCEPT ![q] = None]
    BY <2>1 DEF RemoveRecorded, RemoveOwned, MayStart
  <2>3. RootTyped
    BY OwnedParts
  <2>4. owned' \in [Name -> {None} \cup Owned] /\ \A p \in Name : owned'[p] = owned[p] \/ owned'[p] = None
    BY <2>2, <2>3 DEF RootTyped
  <2>5. RootTyped'
    BY <2>2, <2>3, <2>4 DEF RootTyped, Authorised
  <2> QED BY <2>2, <2>5 DEF OwnedInv, RootTyped, Run
<1> QED BY <1>1, <1>2, <1>3, <1>4, <1>5, <1>6, <1>7, <1>8, DeployOwns, RollbackOwns DEF Next

-----------------------------------------------------------------------------
(* The end of a command                                                          *)

(* Deploying the last intent completes the target root.                          *)
LEMMA DeployCompletes ==
  ASSUME TypeOK, CommandInv, ReceiptInv, OutputInv, OwnedInv, Deploy, AtEnd, Twice(cmd) = {},
         NEW i \in Range(cmd.intents)
  PROVE  owned'[i.name].version = i.version
<1>1. cmd.pc = "deploy"
  BY DEF Deploy, Run
<1>2. /\ owned'[Cur.name].version = Cur.version
      /\ \A p \in Name : p # Cur.name => owned'[p] = owned[p]
  BY DeployPlaces
<1>3. /\ cmd.n \in 1 .. Len(cmd.intents) /\ cmd.intents \in Seq(Asked) /\ Cur \in Range(cmd.intents)
      /\ i.name \in Name /\ Len(cmd.intents) \in Nat
  BY <1>1, CurKnown, IntentKnown DEF CommandInv, Working, Run
<1>4. PICK m \in 1 .. Len(cmd.intents) : cmd.intents[m] = i
  BY <1>3, RangeListed DEF Range
<1>5. CASE i.name = Cur.name
  BY <1>2, <1>3, <1>5 DEF Twice
<1>6. CASE i.name # Cur.name
  <2>1. m # cmd.n
    BY <1>4, <1>6 DEF Cur
  <2>2. Placed = cmd.n - 1
    BY <1>1 DEF Placed, Run
  <2>3. m \in 1 .. Placed
    BY <1>3, <2>1, <2>2 DEF AtEnd
  <2>4. owned[i.name].version = i.version
    BY <1>1, <1>4, <2>3 DEF OwnedInv, Run
  <2> QED BY <1>2, <1>3, <1>6, <2>4
<1> QED BY <1>5, <1>6

LEMMA EndsUndone ==
  ASSUME TypeOK, CommandInv, ReceiptInv, OutputInv, OwnedInv, Next, ~Run("idle"), cmd'.pc = "idle"
  PROVE  /\ \A p \in Name \ Names(cmd) : owned'[p] = cmd.before[p]
         /\ \A p \in Names(cmd) : cmd.before[p] # None => owned'[p] # None
         /\ Run("rollback") /\ kills' + faults' = 0 => owned' = cmd.before
         /\ cmd.to = "root" /\ broken' \cap Names(cmd) = {} =>
              \A i \in Range(cmd.intents) : owned'[i.name].version = i.version
<1>1. RootTyped /\ (\A p \in Name : Undoable(p)) /\ Names(cmd) \subseteq Name
  BY OwnedParts, NamesKnown
<1>2. \A p \in Name : owned[p] = cmd.before[p] \/ (cmd.before[p] = None /\ p \in Names(cmd))
  BY <1>1 DEF Undoable
<1>3. \A i \in Range(cmd.intents) : i.name \in Names(cmd)
  BY DEF Names
<1>4. CASE Deploy
  <2>1. AtEnd
    <3>1. ASSUME ~AtEnd PROVE FALSE
      <4>1. cmd'.pc \in {"fetch", "deploy"}
        BY <1>4, <3>1, StepMoves
      <4> QED BY <4>1
    <3> QED BY <3>1
  <2>2. Return
    BY <1>4, <2>1, StepMoves
  <2>3. /\ Cur.name \in Names(cmd) /\ owned'[Cur.name] # None
        /\ \A p \in Name : p # Cur.name => owned'[p] = owned[p]
    BY <1>4, DeployPlaces
  <2>4. ~Run("rollback")
    BY <1>4 DEF Deploy, Run
  <2>5. ASSUME broken' \cap Names(cmd) = {}
        PROVE  Twice(cmd) = {}
    BY <2>2, <2>5, NamesKnown DEF Return
  <2>6. \A p \in Name \ Names(cmd) : owned'[p] = cmd.before[p]
    BY <1>2, <2>3
  <2>7. \A p \in Names(cmd) : cmd.before[p] # None => owned'[p] # None
    BY <1>1, <1>2, <2>3
  <2>8. broken' \cap Names(cmd) = {} => \A i \in Range(cmd.intents) : owned'[i.name].version = i.version
    BY <1>4, <2>1, <2>5, DeployCompletes
  <2> QED BY <2>4, <2>6, <2>7, <2>8
<1>5. CASE Record
  <2>1. owned' = owned /\ ~Run("rollback") /\ cmd.to = "store"
    BY <1>5 DEF Record, CommandInv, Run
  <2> QED BY <1>1, <1>2, <2>1
<1>6. CASE Fail \/ Kill \/ Rollback
  <2>1. Abort /\ owned' = owned
    <3>1. Rollback => cmd.n = 0
      <4>1. ASSUME Rollback, cmd.n # 0 PROVE FALSE
        <5>1. cmd'.pc = "rollback"
          BY <4>1, StepMoves
        <5> QED BY <5>1
      <4> QED BY <4>1
    <3>2. Abort
      BY <1>6, <3>1, StepMoves
    <3> QED BY <1>6, <3>1, <3>2 DEF Fail, Kill, Rollback
  <2>2. broken' \cap Names(cmd) = {} => Range(cmd.intents) = {}
    BY <1>3, <2>1 DEF Abort
  <2>3. ASSUME Run("rollback"), kills' + faults' = 0
        PROVE  owned' = cmd.before
    <3>1. kills \in Nat /\ faults \in Nat
      BY <1>1 DEF RootTyped
    <3>2. Rollback
      <4>1. ~Fail
        BY <2>3 DEF Fail, Run
      <4>2. ASSUME Kill PROVE FALSE
        <5>1. kills' = kills + 1 /\ faults' = faults
          BY <4>2 DEF Kill
        <5> QED BY <2>3, <3>1, <5>1
      <4> QED BY <1>6, <4>1, <4>2
    <3>3. cmd.n = 0
      <4>1. ASSUME cmd.n # 0 PROVE FALSE
        <5>1. cmd'.pc = "rollback"
          BY <3>2, <4>1, StepMoves
        <5> QED BY <5>1
      <4> QED BY <4>1
    <3>4. faults' = faults /\ kills' = kills
      BY <3>2, <3>3 DEF Rollback
    <3>5. faults = 0
      BY <2>3, <3>1, <3>4
    <3>6. Placed = 0
      BY <2>3, <3>3 DEF Placed, Run
    <3>7. \A p \in Name : owned[p] = cmd.before[p]
      <4>1. \A n \in 1 .. Placed : FALSE
        BY <3>6
      <4>2. ~(faults > 0)
        BY <3>5
      <4> QED BY <1>1, <4>1, <4>2 DEF Undoable
    <3>8. owned \in [Name -> {None} \cup Owned] /\ cmd.before \in [Name -> {None} \cup Owned]
      BY <1>1 DEF RootTyped, CommandInv, Working
    <3>9. owned = cmd.before
      BY <3>7, <3>8
    <3> QED BY <2>1, <3>9
  <2> QED BY <1>1, <1>2, <2>1, <2>2, <2>3
<1>7. ~(BeginBuild \/ BeginAdmitted \/ BeginBinary \/ BeginBinaryPlans \/ \E p \in Name : RemoveRecorded(p) \/ RemoveOwned(p))
  BY DEF BeginBuild, BeginAdmitted, BeginBinary, BeginBinaryPlans, RemoveRecorded, RemoveOwned, MayStart
<1>8. ~(ReadRecipe \/ BeginFetch \/ FetchContent \/ MarkReady \/ MergeSource \/ PrepareClosure \/ RunPhase)
  <2>1. FetchContent => cmd'.pc # "idle"
    BY DEF FetchContent, Run
  <2> QED BY <2>1, StepMoves
<1>9. ~CopyOutputs
  <2>1. CopyOutputs => cmd'.pc # "idle"
    BY CopyMoves, AfterIs
  <2> QED BY <2>1
<1>10. ~FetchPackage
  <2>1. FetchPackage => cmd'.pc # "idle"
    BY FetchMoves, AfterIs
  <2> QED BY <2>1
<1>11. ~Measure
  <2>1. Measure => Run("build") /\ cmd \in Working
    BY DEF Measure, CommandInv, Run
  <2>2. ASSUME Measure PROVE FALSE
    <3>1. PICK d \in {Now.artifact, Other} :
            cmd' = [cmd EXCEPT !.pc = "copy", !.receipts = Append(cmd.receipts, Receipt(Now, "tree", d))]
      BY <2>2 DEF Measure
    <3>2. cmd'.pc = "copy"
      BY <2>1, <2>2, <3>1 DEF Working
    <3> QED BY <3>2
  <2> QED BY <2>2
<1>12. ~DeployRefused
  <2>1. DeployRefused => cmd'.pc = "rollback"
    BY StepMoves
  <2> QED BY <2>1
<1>13. ~Retire
  <2>1. Retire => cmd.pc = "retire"
    BY DEF Retire, Run
  <2>2. Retire => cmd'.pc \in {"retire", "record"}
    BY <2>1, StepMoves
  <2> QED BY <2>2
<1> QED BY <1>4, <1>5, <1>6, <1>7, <1>8, <1>9, <1>10, <1>11, <1>12, <1>13 DEF Next

-----------------------------------------------------------------------------
LEMMA ProvisionStarts ==
  ASSUME Init
  PROVE  ProvisionInv /\ RecordsBacked /\ RootBackedInv
<1>1. TypeOK
  BY DEF Init, TypeOK, Idle, Pcs
<1>2. CommandInv /\ ReceiptInv /\ RootBackedInv
  BY DEF Init, CommandInv, ReceiptInv, RootBackedInv, Run, Idle
<1>3. BuildInv
  BY DEF Init, BuildInv, Run, Idle
<1>4. OutputInv
  BY DEF Init, OutputInv, Idle, BuildPcs
<1>5. RecordInv /\ RecordsBacked
  BY DEF Init, RecordInv, RecordsBacked, Run, Idle
<1>6. OwnedInv
  BY DEF Init, OwnedInv, Run, Idle
<1> QED BY <1>1, <1>2, <1>3, <1>4, <1>5, <1>6 DEF ProvisionInv

LEMMA ProvisionSteps ==
  ASSUME ProvisionInv, Next
  PROVE  ProvisionInv'
<1>1. CommandInv'
  <2>1. CASE Run("idle")
    <3>1. CASE BeginBuild \/ BeginAdmitted \/ BeginBinary \/ BeginBinaryPlans
      <4>1. PICK pc, route, verb, to, intents :
              Startable(pc, route, verb, to, intents) /\ Start(pc, route, verb, to, intents)
        BY <3>1, BeginGood
      <4> QED BY <4>1, StartsRight DEF ProvisionInv, OwnedInv
    <3>2. CASE \E p \in Name : RemoveRecorded(p) \/ RemoveOwned(p)
      BY <2>1, <3>2 DEF RemoveRecorded, RemoveOwned, CommandInv, Run
    <3>3. ~(ReadRecipe \/ BeginFetch \/ FetchContent \/ MarkReady \/ MergeSource \/ PrepareClosure
            \/ RunPhase \/ Measure \/ CopyOutputs \/ FetchPackage)
      BY <2>1 DEF ReadRecipe, BeginFetch, FetchContent, MarkReady, MergeSource, PrepareClosure,
                  RunPhase, Measure, CopyOutputs, FetchPackage, Run
    <3>4. ~(Retire \/ Record \/ Deploy \/ DeployRefused \/ Rollback \/ Fail \/ Kill)
      BY <2>1 DEF Retire, Record, Deploy, DeployRefused, Rollback, Fail, Kill, Run
    <3> QED BY <3>1, <3>2, <3>3, <3>4 DEF Next
  <2>2. CASE ~Run("idle")
    BY <2>2, CommandStep DEF ProvisionInv
  <2> QED BY <2>1, <2>2
<1>2. TypeOK' /\ BuildInv' /\ ReceiptInv'
  BY TypeStep, BuildStep, ReceiptStep DEF ProvisionInv
<1>3. OutputInv' /\ RecordInv' /\ OwnedInv'
  BY OutputStep, RecordStep, OwnedStep DEF ProvisionInv
<1> QED BY <1>1, <1>2, <1>3 DEF ProvisionInv

LEMMA ProvisionStutters ==
  ASSUME UNCHANGED vars
  PROVE  /\ ProvisionInv => ProvisionInv'
         /\ RecordsBacked /\ RootBackedInv => (RecordsBacked /\ RootBackedInv)'
<1>1. cmd' = cmd /\ cache' = cache /\ tree' = tree /\ artifact' = artifact /\ records' = records
      /\ owned' = owned /\ broken' = broken /\ kills' = kills /\ faults' = faults
  BY DEF vars
<1>2. Now' = Now /\ Sources' = Sources /\ Tree' = Tree /\ Here' = Here /\ Cur' = Cur
  BY <1>1 DEF Now, Sources, Tree, Here, Cur
<1>3. TypeOK => TypeOK'
  BY <1>1 DEF TypeOK
<1>4. CommandInv => CommandInv'
  BY <1>1 DEF CommandInv, Run, Building
<1>5. BuildInv => BuildInv'
  <2>1. RecipeAdmitted(Now) => RecipeAdmitted(Now)'
    BY <1>1, <1>2 DEF RecipeAdmitted
  <2> QED BY <1>1, <1>2, <2>1 DEF BuildInv, Run
<1>6. ReceiptInv => ReceiptInv'
  BY <1>1 DEF ReceiptInv, Run, Building, Kind
<1>7. OutputInv => OutputInv'
  BY <1>1, <1>2 DEF OutputInv, BeingCopied, Run
<1>8. RecordInv => RecordInv'
  BY <1>1 DEF RecordInv, Run
<1>9. OwnedInv => OwnedInv'
  <2>1. Placed' = Placed
    BY <1>1 DEF Placed, Run
  <2> QED BY <1>1, <2>1 DEF OwnedInv, Run, Authorised
<1>10. RecordsBacked /\ RootBackedInv => (RecordsBacked /\ RootBackedInv)'
  BY <1>1, <1>2 DEF RecordsBacked, RootBackedInv, BeingCopied, Run
<1> QED BY <1>3, <1>4, <1>5, <1>6, <1>7, <1>8, <1>9, <1>10 DEF ProvisionInv

(***************************************************************************)
(* The inductive invariant: at every step of a command its intents are     *)
(* those of a verified plan, of a verified index or of an admitted recipe, *)
(* its tree holds the sources merged so far, its receipts are those of the *)
(* intents done, and the target root differs from what it was by what was  *)
(* installed so far (build_provision, fetch_binary_plan,                   *)
(* install_hardware_plan_set_to_root).                                     *)
(***************************************************************************)
THEOREM ProvisionKeepsOrder == Spec => []ProvisionInv
<1>1. Init => ProvisionInv
  BY ProvisionStarts
<1>2. ProvisionInv /\ [Next]_vars => ProvisionInv'
  BY ProvisionSteps, ProvisionStutters
<1> QED BY <1>1, <1>2, PTL DEF Spec

(***************************************************************************)
(* A build runs in a tree of exactly the locked sources of its recipe,     *)
(* each fetched whole, with nothing of an earlier build in it, and with no *)
(* other writable path, whatever failed or was killed before               *)
(* (materialize_sources, acquire_source, append_sandbox_boundary).         *)
(***************************************************************************)
THEOREM BuildsAreLocked == Spec => []BuiltFromLock
<1>1. Init => ProvisionInv
  BY ProvisionStarts
<1>2. ProvisionInv /\ [Next]_vars => ProvisionInv'
  BY ProvisionSteps, ProvisionStutters
<1>3. ProvisionInv => BuiltFromLock
  BY BuiltRight DEF ProvisionInv
<1> QED BY <1>1, <1>2, <1>3, PTL DEF Spec

(***************************************************************************)
(* Nothing is recorded or installed with a digest that no signed profile   *)
(* and no verified index names, but what was built from an admitted recipe *)
(* (verify_plan, build_intent, install_hardware_plan_set_to_root).         *)
(***************************************************************************)
THEOREM OnlySignedGetsIn == Spec => []OnlyAuthorised
<1>1. Init => ProvisionInv
  BY ProvisionStarts
<1>2. ProvisionInv /\ [Next]_vars => ProvisionInv'
  BY ProvisionSteps, ProvisionStutters
<1>3. ProvisionInv => OnlyAuthorised
  <2> SUFFICES ASSUME RecordInv, OwnedInv, NEW p \in Name
               PROVE  /\ records[p] # None => Authorised(p, records[p].version, records[p].artifact)
                      /\ owned[p] # None => Authorised(p, owned[p].version, owned[p].digest)
    BY DEF ProvisionInv, OnlyAuthorised
  <2>1. records[p] # None => records[p].name = p /\ Says(Signed, records[p])
    BY DEF RecordInv
  <2>2. records[p] # None => Authorised(p, records[p].version, records[p].artifact)
    BY <2>1 DEF Says, Authorised
  <2> QED BY <2>2 DEF OwnedInv
<1> QED BY <1>1, <1>2, <1>3, PTL DEF Spec

(***************************************************************************)
(* When no profile gives a package version two digests and none names an   *)
(* admitted recipe, a record has its artifact, whole, unless the last call *)
(* on that package failed, was killed or is running: the calls about other *)
(* packages never spoil it (HostPackageStore::update,                      *)
(* remove_recorded_except, measure_outputs).                               *)
(***************************************************************************)
THEOREM RecordsStayBacked == ASSUME DigestsAgree PROVE Spec => []RecordsBacked
<1> DEFINE Inv == ProvisionInv /\ RecordsBacked /\ RootBackedInv
<1>1. Init => Inv
  BY ProvisionStarts
<1>2. Inv /\ [Next]_vars => Inv'
  <2>1. ASSUME Inv, Next PROVE Inv'
    BY <2>1, ProvisionSteps, BackedStep DEF ProvisionInv
  <2>2. ASSUME Inv, UNCHANGED vars PROVE Inv'
    BY <2>2, ProvisionStutters
  <2> QED BY <2>1, <2>2
<1>3. Inv => RecordsBacked
  OBVIOUS
<1> HIDE DEF Inv
<1> QED BY <1>1, <1>2, <1>3, PTL DEF Spec

(***************************************************************************)
(* A call that returns has installed every package it names, one that the  *)
(* root refused a package has taken back what it installed unless a        *)
(* removal failed, and no call takes away a package that was there before  *)
(* it (install_plan_set_to_root, install_hardware_plan_set_to_root).       *)
(***************************************************************************)
THEOREM RefusalsAreUndone == Spec => RefusalUndone
<1>1. Init => ProvisionInv
  BY ProvisionStarts
<1>2. ProvisionInv /\ [Next]_vars => ProvisionInv'
  BY ProvisionSteps, ProvisionStutters
<1>3. ProvisionInv /\ [Next]_vars =>
        [~Run("idle") /\ cmd'.pc = "idle" =>
           /\ \A p \in Name \ Names(cmd) : owned'[p] = cmd.before[p]
           /\ \A p \in Names(cmd) : cmd.before[p] # None => owned'[p] # None
           /\ Run("rollback") /\ kills' + faults' = 0 => owned' = cmd.before
           /\ cmd.to = "root" /\ broken' \cap Names(cmd) = {} =>
                \A i \in Range(cmd.intents) : owned'[i.name].version = i.version]_vars
  BY EndsUndone DEF ProvisionInv
<1> QED BY <1>1, <1>2, <1>3, PTL DEF Spec, RefusalUndone
=============================================================================
