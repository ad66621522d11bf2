------------------------ MODULE PackageResolution_proofs ------------------------
(***************************************************************************)
(* What the resolution of a plan guarantees for any repositories, requests *)
(* and limits: the solver finds the first model of its clauses or there is *)
(* none, the clauses are those of a graph that leaves out no candidate, a  *)
(* plan is sound and is the first of its kind, a refusal is right, and a   *)
(* call of the constraint builder that fails leaves no trace.              *)
(***************************************************************************)
EXTENDS PackageResolution, FiniteSetTheorems, SequenceTheorems, TLAPS

-----------------------------------------------------------------------------
(***************************************************************************)
(* Numbering finite sets, and sequences listed, cut down and put end to    *)
(* end.                                                                    *)
(***************************************************************************)

(* A set of naturals has a least element: of the intervals that end in a member, *)
(* one contains no other.                                                        *)
LEMMA LeastNat ==
  ASSUME NEW S \in SUBSET Nat, S # {}
  PROVE  \E i \in S : \A j \in S : i <= j
<1> DEFINE Below == {0..i : i \in S}
<1>1. PICK i \in S : \A s \in Below : <<s, 0..i>> \notin StrictSubsetOrdering(Nat)
  <2>1. \A j \in Nat : 0..j \in FiniteSubsetsOf(Nat)
    BY FS_Interval DEF FiniteSubsetsOf
  <2>2. Below \subseteq FiniteSubsetsOf(Nat) /\ Below # {}
    BY <2>1
  <2>3. IsWellFoundedOn(StrictSubsetOrdering(Nat), FiniteSubsetsOf(Nat))
    BY FS_StrictSubsetOrderingWellFounded
  <2> HIDE DEF Below
  <2>4. \E x \in Below : \A s \in Below : <<s, x>> \notin StrictSubsetOrdering(Nat)
    BY <2>2, <2>3, WFMin
  <2> QED BY <2>4 DEF Below
<1>2. \A j \in S : i <= j
  <2> SUFFICES ASSUME NEW j \in S, j < i PROVE FALSE
    OBVIOUS
  <2>1. 0..j \subseteq 0..i /\ i \in 0..i /\ i \notin 0..j /\ 0..i \subseteq Nat
    OBVIOUS
  <2>2. <<0..j, 0..i>> \in StrictSubsetOrdering(Nat)
    BY <2>1 DEF StrictSubsetOrdering
  <2> QED BY <1>1, <2>2
<1> QED BY <1>2

(* In a strict total order of a finite set, given by what lies below each member, *)
(* the numbers of members below number the set.                                   *)
LEMMA Numbering ==
  ASSUME NEW S, IsFiniteSet(S), NEW B \in [S -> SUBSET S],
         \A x \in S : x \notin B[x],
         \A x, y \in S : x # y => x \in B[y] \/ y \in B[x],
         \A x, y \in S : x \in B[y] => B[x] \subseteq B[y]
  PROVE  /\ \A x \in S : Cardinality(B[x]) \in 0 .. Cardinality(S) - 1
         /\ \A x, y \in S : x \in B[y] <=> Cardinality(B[x]) < Cardinality(B[y])
         /\ \A n \in 1 .. Cardinality(S) : \E x \in S : Cardinality(B[x]) = n - 1
<1> DEFINE N == Cardinality(S)
<1>1. N \in Nat /\ \A x \in S : IsFiniteSet(B[x]) /\ Cardinality(B[x]) \in Nat
  BY FS_Subset, FS_CardinalityType
<1>2. ASSUME NEW x \in S PROVE Cardinality(B[x]) <= N - 1
  <2>1. B[x] \in SUBSET (S \ {x}) /\ IsFiniteSet(S \ {x}) /\ Cardinality(S \ {x}) = N - 1
    BY FS_RemoveElement
  <2> QED BY <2>1, FS_Subset
<1>3. ASSUME NEW x \in S, NEW y \in S, x \in B[y] PROVE Cardinality(B[x]) < Cardinality(B[y])
  <2>1. B[x] \in SUBSET B[y] /\ B[x] # B[y]
    BY <1>3
  <2>2. Cardinality(B[x]) <= Cardinality(B[y]) /\ Cardinality(B[x]) # Cardinality(B[y])
    BY <2>1, <1>1, FS_Subset
  <2> QED BY <2>2, <1>1
<1>4. ASSUME NEW x \in S, NEW y \in S, Cardinality(B[x]) < Cardinality(B[y]) PROVE x \in B[y]
  <2>1. x # y
    BY <1>1, <1>4
  <2>2. y \notin B[x]
    BY <1>1, <1>3, <1>4
  <2> QED BY <2>1, <2>2
<1>5. ASSUME NEW n \in 0 .. N - 1 PROVE \E x \in S : Cardinality(B[x]) = n
  <2> DEFINE f == [x \in S |-> Cardinality(B[x])]
             T == 0 .. N - 1
  <2>1. IsFiniteSet(T) /\ Cardinality(T) = N
    BY <1>1, FS_Interval
  <2>2. f \in [S -> T]
    BY <1>1, <1>2
  <2>3. ASSUME NEW x \in S, NEW y \in S, f[x] = f[y] PROVE x = y
    BY <2>3, <1>1, <1>3
  <2>4. f \in Injection(S, T)
    BY <2>2, <2>3 DEF Injection, IsInjective
  <2>5. f \in Surjection(S, T)
    <3> HIDE DEF f, T
    <3> QED BY <2>1, <2>4, FS_Injection
  <2> QED BY <2>5 DEF Surjection
<1>6. \A n \in 1 .. N : n - 1 \in 0 .. N - 1
  BY <1>1
<1> QED BY <1>1, <1>2, <1>3, <1>4, <1>5, <1>6

(* A sequence that lists a set: each member once. *)
Lists(L, S) ==
  /\ L \in [1 .. Cardinality(S) -> S]
  /\ \A x \in S : \E n \in 1 .. Cardinality(S) : L[n] = x
  /\ \A m, n \in 1 .. Cardinality(S) : L[m] = L[n] => m = n

(* A list of a finite set is a sequence of as many entries, and its range is *)
(* the set.                                                                  *)
LEMMA ListsIsSequence ==
  ASSUME NEW S, IsFiniteSet(S), NEW L, Lists(L, S)
  PROVE  /\ Cardinality(S) \in Nat
         /\ L \in Seq(S) /\ Len(L) = Cardinality(S) /\ DOMAIN L = 1 .. Cardinality(S)
         /\ Range(L) = S
<1>1. Cardinality(S) \in Nat
  BY FS_CardinalityType
<1>2. L \in Seq(S) /\ Len(L) = Cardinality(S) /\ DOMAIN L = 1 .. Cardinality(S)
  BY <1>1 DEF Lists
<1>3. Range(L) = S
  BY <1>2 DEF Lists, Range
<1> QED BY <1>1, <1>2, <1>3

(* The n-th entry of a list in order is the member with n - 1 members below it: *)
(* the list has the order of the set.                                           *)
LEMMA ListInOrder ==
  ASSUME NEW S, IsFiniteSet(S), NEW B \in [S -> SUBSET S],
         \A x \in S : x \notin B[x],
         \A x, y \in S : x # y => x \in B[y] \/ y \in B[x],
         \A x, y \in S : x \in B[y] => B[x] \subseteq B[y],
         NEW L \in [1 .. Cardinality(S) -> S],
         \A n \in 1 .. Cardinality(S) : Cardinality(B[L[n]]) = n - 1
  PROVE  /\ Lists(L, S)
         /\ \A m, n \in 1 .. Cardinality(S) : m < n <=> L[m] \in B[L[n]]
<1> DEFINE N == Cardinality(S)
<1>1. N \in Nat /\ \A x \in S : Cardinality(B[x]) \in 0 .. N - 1
  BY Numbering, FS_CardinalityType
<1>5. \A x, y \in S : x \in B[y] <=> Cardinality(B[x]) < Cardinality(B[y])
  BY Numbering
<1>6. ASSUME NEW x \in S PROVE \E n \in 1 .. N : L[n] = x
  <2> DEFINE n == Cardinality(B[x]) + 1
  <2>1. n \in 1 .. N /\ n - 1 = Cardinality(B[x])
    BY <1>1
  <2>2. L[n] \in S /\ Cardinality(B[L[n]]) = Cardinality(B[x])
    BY <2>1
  <2>3. Cardinality(B[x]) \in Nat
    BY <1>1
  <2>4. L[n] \notin B[x] /\ x \notin B[L[n]]
    BY <2>2, <2>3, <1>5
  <2> QED BY <2>1, <2>2, <2>4
<1>7. ASSUME NEW m \in 1 .. N, NEW n \in 1 .. N
      PROVE (m < n <=> L[m] \in B[L[n]]) /\ (L[m] = L[n] => m = n)
  BY <1>1, <1>5
<1> QED BY <1>6, <1>7 DEF Lists

(* Numbers listed in order: what Kept and JoinedAll number their entries by. *)
LEMMA NumbersListed ==
  ASSUME NEW S \in SUBSET Int, IsFiniteSet(S)
  PROVE  /\ Lists(Listed(S, <), S)
         /\ \A m, n \in 1 .. Cardinality(S) : m < n <=> Listed(S, <)[m] < Listed(S, <)[n]
<1> DEFINE B == [x \in S |-> {y \in S : y < x}]
           L == Listed(S, <)
<1>1. /\ B \in [S -> SUBSET S] /\ \A x \in S : x \notin B[x]
      /\ \A x, y \in S : x # y => x \in B[y] \/ y \in B[x]
  OBVIOUS
<1>2. ASSUME NEW x \in S, NEW y \in S, x \in B[y], NEW z \in B[x] PROVE z \in B[y]
  <2>1. z \in S /\ z < x /\ x < y
    BY <1>2
  <2>2. z < y
    BY <2>1
  <2> QED BY <2>1, <2>2
<1>3. \A n \in 1 .. Cardinality(S) : \E x \in S : Cardinality(B[x]) = n - 1
  <2> HIDE DEF B
  <2> QED BY <1>1, <1>2, Numbering
<1>4. \A n \in 1 .. Cardinality(S) : \E x \in S : Cardinality({y \in S : y < x}) = n - 1
  BY <1>3
<1>5. L = [n \in 1 .. Cardinality(S) |->
             CHOOSE x \in S : Cardinality({y \in S : y < x}) = n - 1]
  BY DEF Listed
<1> HIDE DEF L
<1>6. \A n \in 1 .. Cardinality(S) :
        L[n] = CHOOSE x \in S : Cardinality({y \in S : y < x}) = n - 1
  BY <1>5
<1>7. \A n \in 1 .. Cardinality(S) : L[n] \in S /\ Cardinality({y \in S : y < L[n]}) = n - 1
  BY <1>4, <1>6
<1>8. L \in [1 .. Cardinality(S) -> S]
  BY <1>4, <1>5
<1>9. \A n \in 1 .. Cardinality(S) : Cardinality(B[L[n]]) = n - 1
  BY <1>7
<1>10. Lists(L, S) /\ \A m, n \in 1 .. Cardinality(S) : m < n <=> L[m] \in B[L[n]]
  <2> HIDE DEF B
  <2> QED BY <1>1, <1>2, <1>8, <1>9, ListInOrder
<1> QED BY <1>8, <1>10 DEF L

(* Pairs of numbers listed in order: what Flat numbers its entries by. *)
LEMMA PairsListed ==
  ASSUME NEW S \in SUBSET (Int \X Int), IsFiniteSet(S)
  PROVE  Lists(Listed(S, Earlier), S)
<1> DEFINE B == [x \in S |-> {y \in S : Earlier(y, x)}]
           L == Listed(S, Earlier)
<1>1. /\ B \in [S -> SUBSET S] /\ \A x \in S : x \notin B[x]
      /\ \A x, y \in S : x # y => x \in B[y] \/ y \in B[x]
  BY DEF Earlier
<1>2. \A x, y \in S : x \in B[y] => B[x] \subseteq B[y]
  BY DEF Earlier
<1>3. \A n \in 1 .. Cardinality(S) : \E x \in S : Cardinality(B[x]) = n - 1
  <2> HIDE DEF B
  <2> QED BY <1>1, <1>2, Numbering
<1>4. \A n \in 1 .. Cardinality(S) : \E x \in S : Cardinality({y \in S : Earlier(y, x)}) = n - 1
  BY <1>3
<1>5. L = [n \in 1 .. Cardinality(S) |->
             CHOOSE x \in S : Cardinality({y \in S : Earlier(y, x)}) = n - 1]
  BY DEF Listed
<1> HIDE DEF L
<1>6. \A n \in 1 .. Cardinality(S) :
        L[n] = CHOOSE x \in S : Cardinality({y \in S : Earlier(y, x)}) = n - 1
  BY <1>5
<1>7. \A n \in 1 .. Cardinality(S) : L[n] \in S /\ Cardinality({y \in S : Earlier(y, L[n])}) = n - 1
  BY <1>4, <1>6
<1>8. L \in [1 .. Cardinality(S) -> S]
  BY <1>4, <1>5
<1>9. \A n \in 1 .. Cardinality(S) : Cardinality(B[L[n]]) = n - 1
  BY <1>7
<1>10. Lists(L, S)
  <2> HIDE DEF B
  <2> QED BY <1>1, <1>2, <1>8, <1>9, ListInOrder
<1> QED BY <1>10 DEF L

(* A sequence cut down to some of its places is a sequence, of what stood *)
(* there.                                                                 *)
LEMMA KeptNumbers ==
  ASSUME NEW s, s \in Seq(Range(s)), NEW D \in SUBSET (DOMAIN s)
  PROVE  LET at == Listed(D, <)
             L == [n \in DOMAIN at |-> s[at[n]]] IN
         L \in Seq(Range(L)) /\ Range(L) = {s[i] : i \in D}
<1> DEFINE at == Listed(D, <)
           L == [n \in DOMAIN at |-> s[at[n]]]
<1>1. IsFiniteSet(D) /\ D \in SUBSET Int
  <2>1. Len(s) \in Nat /\ DOMAIN s = 1 .. Len(s)
    OBVIOUS
  <2>2. IsFiniteSet(1 .. Len(s))
    BY <2>1, FS_Interval
  <2> QED BY <2>1, <2>2, FS_Subset
<1>2. Lists(at, D)
  BY <1>1, NumbersListed
<1> HIDE DEF at
<1>3. Cardinality(D) \in Nat /\ at \in Seq(D) /\ DOMAIN at = 1 .. Cardinality(D) /\ Range(at) = D
  BY <1>1, <1>2, ListsIsSequence
<1>4. Range(L) = {s[i] : i \in D}
  BY <1>3 DEF Range
<1>5. L \in [1 .. Cardinality(D) -> Range(L)]
  BY <1>3 DEF Range
<1> HIDE DEF L
<1>6. L \in Seq(Range(L))
  <2> DEFINE R == Range(L)
  <2>1. L \in [1 .. Cardinality(D) -> R]
    BY <1>5
  <2> HIDE DEF R
  <2>2. L \in Seq(R)
    BY <1>3, <2>1
  <2> QED BY <2>2 DEF R
<1> QED BY <1>4, <1>6 DEF at, L

(* Sequences put end to end are a sequence of all that they hold. *)
LEMMA FlatHolds ==
  ASSUME NEW s, s \in Seq(Range(s)), \A i \in DOMAIN s : s[i] \in Seq(Range(s[i]))
  PROVE  /\ Flat(s) \in Seq(Range(Flat(s)))
         /\ Range(Flat(s)) = UNION {Range(s[i]) : i \in DOMAIN s}
<1> DEFINE S == UNION {{<<i, n>> : n \in DOMAIN s[i]} : i \in DOMAIN s}
           at == Listed(S, Earlier)
<1>1. Len(s) \in Nat /\ DOMAIN s = 1 .. Len(s)
  OBVIOUS
<1>2. \A i \in DOMAIN s : Len(s[i]) \in Nat /\ DOMAIN s[i] = 1 .. Len(s[i])
  OBVIOUS
<1>3. S \in SUBSET (Int \X Int)
  BY <1>1, <1>2
<1>4. IsFiniteSet(S)
  <2>1. ASSUME NEW i \in DOMAIN s PROVE IsFiniteSet({<<i, n>> : n \in DOMAIN s[i]})
    <3> DEFINE T == {<<i, n>> : n \in DOMAIN s[i]}
               f == [n \in DOMAIN s[i] |-> <<i, n>>]
    <3>1. f \in Surjection(DOMAIN s[i], T)
      BY DEF Surjection
    <3>2. IsFiniteSet(DOMAIN s[i])
      BY <1>2, FS_Interval
    <3> HIDE DEF f, T
    <3>3. IsFiniteSet(T)
      BY <3>1, <3>2, FS_Surjection
    <3> QED BY <3>3 DEF T
  <2> DEFINE Ts == {{<<i, n>> : n \in DOMAIN s[i]} : i \in DOMAIN s}
             g == [i \in DOMAIN s |-> {<<i, n>> : n \in DOMAIN s[i]}]
  <2>2. g \in Surjection(DOMAIN s, Ts)
    BY DEF Surjection
  <2>3. IsFiniteSet(DOMAIN s)
    BY <1>1, FS_Interval
  <2>4. \A T \in Ts : IsFiniteSet(T)
    BY <2>1
  <2> HIDE DEF g, Ts
  <2>5. IsFiniteSet(Ts)
    BY <2>2, <2>3, FS_Surjection
  <2>6. IsFiniteSet(UNION Ts)
    BY <2>4, <2>5, FS_UNION
  <2> QED BY <2>6 DEF Ts
<1>5. Lists(at, S)
  <2> HIDE DEF S
  <2> QED BY <1>3, <1>4, PairsListed
<1> HIDE DEF at
<1>6. Cardinality(S) \in Nat /\ at \in Seq(S) /\ DOMAIN at = 1 .. Cardinality(S) /\ Range(at) = S
  <2> HIDE DEF S
  <2> QED BY <1>4, <1>5, ListsIsSequence
<1>7. Flat(s) = [n \in DOMAIN at |-> s[at[n][1]][at[n][2]]]
  BY DEF Flat, at
<1>8. Range(Flat(s)) = {s[p[1]][p[2]] : p \in S}
  <2> HIDE DEF S
  <2> QED BY <1>6, <1>7 DEF Range
<1>9. {s[p[1]][p[2]] : p \in S} = UNION {Range(s[i]) : i \in DOMAIN s}
  <2>1. ASSUME NEW i \in DOMAIN s, NEW y \in Range(s[i])
        PROVE y \in {s[p[1]][p[2]] : p \in S}
    <3>1. PICK n \in DOMAIN s[i] : y = s[i][n]
      BY DEF Range
    <3> DEFINE p == <<i, n>>
    <3>2. p \in S /\ p[1] = i /\ p[2] = n
      OBVIOUS
    <3>3. y = s[p[1]][p[2]]
      BY <3>1, <3>2
    <3> HIDE DEF p, S
    <3> QED BY <3>2, <3>3
  <2>2. ASSUME NEW p \in S PROVE s[p[1]][p[2]] \in UNION {Range(s[i]) : i \in DOMAIN s}
    <3>1. PICK i \in DOMAIN s : \E n \in DOMAIN s[i] : p = <<i, n>>
      OBVIOUS
    <3>2. PICK n \in DOMAIN s[i] : p = <<i, n>>
      BY <3>1
    <3>3. s[i][n] \in Range(s[i])
      BY DEF Range
    <3> QED BY <3>2, <3>3
  <2> HIDE DEF S
  <2> QED BY <2>1, <2>2
<1>10. Flat(s) \in [1 .. Cardinality(S) -> Range(Flat(s))]
  BY <1>6, <1>7 DEF Range
<1> HIDE DEF S
<1>11. Flat(s) \in Seq(Range(Flat(s)))
  BY <1>6, <1>10
<1> QED BY <1>8, <1>9, <1>11

-----------------------------------------------------------------------------
(***************************************************************************)
(* The graph of candidates: its variables, and what its clauses mean.      *)
(***************************************************************************)

(* A graph whose candidates can be numbered: names have ranks, and two *)
(* candidates of one name have different sequence numbers.             *)
Graph(c) ==
  /\ IsSequence(c)
  /\ \A i \in DOMAIN c :
       /\ c[i].name \in DOMAIN Rank /\ c[i].sequence \in Int
       /\ IsSequence(c[i].requirements) /\ IsSequence(c[i].conflicts)
  /\ \A i, j \in DOMAIN c : i # j /\ c[i].name = c[j].name => c[i].sequence # c[j].sequence

(* Names are ordered: candidate_key compares them before anything else. *)
NamesRanked ==
  \A n, m \in DOMAIN Rank : Rank[n] \in Int /\ (Rank[n] = Rank[m] => n = m)

(* A graph has finitely many candidates, counted from one. *)
LEMMA GraphDomain ==
  ASSUME NEW c, Graph(c)
  PROVE  Len(c) \in Nat /\ DOMAIN c = 1 .. Len(c) /\ IsFiniteSet(DOMAIN c) /\ Cardinality(DOMAIN c) = Len(c)
<1>1. Len(c) \in Nat /\ DOMAIN c = 1 .. Len(c)
  BY DEF Graph, IsSequence
<1>2. \A n \in Nat : IsFiniteSet(1 .. n) /\ Cardinality(1 .. n) = n
  BY FS_Interval
<1> QED BY <1>1, <1>2

(* The candidates of D that candidate_key puts before each candidate of D. *)
Lower(c, D) == [i \in D |-> {j \in D : Before(c[j], c[i])}]

(* The order of variables is a strict total order of the candidates. *)
LEMMA BeforeIsOrder ==
  ASSUME NamesRanked, NEW c, Graph(c), NEW D \in SUBSET (DOMAIN c)
  PROVE  /\ IsFiniteSet(D)
         /\ Lower(c, D) \in [D -> SUBSET D]
         /\ \A i \in D : i \notin Lower(c, D)[i]
         /\ \A i, j \in D : i # j => i \in Lower(c, D)[j] \/ j \in Lower(c, D)[i]
         /\ \A i, j \in D : i \in Lower(c, D)[j] => Lower(c, D)[i] \subseteq Lower(c, D)[j]
<1> DEFINE B == [i \in D |-> {j \in D : Before(c[j], c[i])}]
<1>1. IsFiniteSet(D)
  BY GraphDomain, FS_Subset
<1>2. \A i \in D : /\ c[i].name \in DOMAIN Rank /\ c[i].sequence \in Int
                   /\ Rank[c[i].name] \in Int
  BY DEF Graph, NamesRanked
<1>3. \A i \in D : i \notin B[i]
  BY <1>2 DEF Before
<1>4. ASSUME NEW i \in D, NEW j \in D, i # j PROVE i \in B[j] \/ j \in B[i]
  <2>1. CASE c[i].name = c[j].name
    <3>1. c[i].sequence # c[j].sequence
      BY <1>4, <2>1 DEF Graph
    <3> QED BY <1>2, <2>1, <3>1 DEF Before
  <2>2. CASE c[i].name # c[j].name
    <3>1. Rank[c[i].name] # Rank[c[j].name]
      BY <1>2, <2>2 DEF NamesRanked
    <3> QED BY <1>2, <3>1 DEF Before
  <2> QED BY <2>1, <2>2
<1>5. ASSUME NEW i \in D, NEW j \in D, i \in B[j], NEW k \in B[i] PROVE k \in B[j]
  <2>1. k \in D /\ Before(c[k], c[i]) /\ Before(c[i], c[j])
    BY <1>5
  <2>2. Before(c[k], c[j])
    BY <1>2, <2>1 DEF Before
  <2> QED BY <2>1, <2>2
<1>6. B = Lower(c, D) /\ B \in [D -> SUBSET D]
  BY DEF Lower
<1> HIDE DEF B
<1> QED BY <1>1, <1>3, <1>4, <1>5, <1>6

(* Variables number the candidates of a graph in that order. *)
LEMMA Variables ==
  ASSUME NamesRanked, NEW c, Graph(c)
  PROVE  /\ \A i \in DOMAIN c : VarOf(c, i) \in 1 .. Len(c) /\ CandidateOf(c, VarOf(c, i)) = i
         /\ \A i, j \in DOMAIN c : Before(c[i], c[j]) <=> VarOf(c, i) < VarOf(c, j)
         /\ \A v \in 1 .. Len(c) : CandidateOf(c, v) \in DOMAIN c /\ VarOf(c, CandidateOf(c, v)) = v
<1> DEFINE D == DOMAIN c
           B == Lower(c, D)
<1>1. /\ IsFiniteSet(D) /\ B \in [D -> SUBSET D] /\ \A i \in D : i \notin B[i]
      /\ \A i, j \in D : i # j => i \in B[j] \/ j \in B[i]
      /\ \A i, j \in D : i \in B[j] => B[i] \subseteq B[j]
  BY BeforeIsOrder
<1>2. \A i \in D : VarOf(c, i) = 1 + Cardinality(B[i]) /\ \A j \in D : j \in B[i] <=> Before(c[j], c[i])
  BY DEF VarOf, Lower
<1> HIDE DEF B
<1>3. Len(c) \in Nat /\ Cardinality(D) = Len(c)
  BY GraphDomain
<1>4. /\ \A i \in D : Cardinality(B[i]) \in 0 .. Len(c) - 1
      /\ \A i, j \in D : i \in B[j] <=> Cardinality(B[i]) < Cardinality(B[j])
      /\ \A n \in 1 .. Len(c) : \E i \in D : Cardinality(B[i]) = n - 1
  <2> HIDE DEF B
  <2> QED BY <1>1, <1>3, Numbering
<1>5. ASSUME NEW i \in D PROVE VarOf(c, i) \in 1 .. Len(c) /\ Cardinality(B[i]) \in Nat
  <2>1. Cardinality(B[i]) \in 0 .. Len(c) - 1 /\ VarOf(c, i) = 1 + Cardinality(B[i])
    BY <1>2, <1>4
  <2> QED BY <2>1, <1>3
<1>6. ASSUME NEW i \in D, NEW j \in D PROVE Before(c[i], c[j]) <=> VarOf(c, i) < VarOf(c, j)
  <2>1. /\ Cardinality(B[i]) \in Nat /\ VarOf(c, i) = 1 + Cardinality(B[i])
        /\ Cardinality(B[j]) \in Nat /\ VarOf(c, j) = 1 + Cardinality(B[j])
    BY <1>2, <1>5
  <2>2. Before(c[i], c[j]) <=> Cardinality(B[i]) < Cardinality(B[j])
    BY <1>2, <1>4
  <2> QED BY <2>1, <2>2
<1>7. ASSUME NEW i \in D, NEW j \in D, VarOf(c, i) = VarOf(c, j) PROVE i = j
  <2>1. ~(VarOf(c, i) < VarOf(c, j)) /\ ~(VarOf(c, j) < VarOf(c, i))
    BY <1>3, <1>5, <1>7
  <2> QED BY <1>1, <1>2, <1>6, <2>1
<1>8. ASSUME NEW v \in 1 .. Len(c) PROVE \E i \in D : VarOf(c, i) = v
  <2>1. PICK i \in D : Cardinality(B[i]) = v - 1
    BY <1>4
  <2> QED BY <2>1, <1>2, <1>3
<1>9. \A v \in 1 .. Len(c) : CandidateOf(c, v) \in D /\ VarOf(c, CandidateOf(c, v)) = v
  BY <1>8 DEF CandidateOf
<1>10. \A i \in D : CandidateOf(c, VarOf(c, i)) = i
  BY <1>5, <1>7, <1>9
<1> QED BY <1>5, <1>6, <1>9, <1>10

(* The candidates of a set in the order of their variables. *)
LEMMA CandidatesListed ==
  ASSUME NamesRanked, NEW c, Graph(c), NEW D \in SUBSET (DOMAIN c)
  PROVE  /\ Lists(InKeyOrder(c, D), D)
         /\ IsSequence(InKeyOrder(c, D)) /\ Range(InKeyOrder(c, D)) = D
<1> DEFINE B == [i \in D |-> {j \in D : Before(c[j], c[i])}]
           L == InKeyOrder(c, D)
<1>2. B = Lower(c, D)
  BY DEF Lower
<1>1. /\ IsFiniteSet(D) /\ B \in [D -> SUBSET D] /\ \A i \in D : i \notin B[i]
      /\ \A i, j \in D : i # j => i \in B[j] \/ j \in B[i]
      /\ \A i, j \in D : i \in B[j] => B[i] \subseteq B[j]
  <2> HIDE DEF B
  <2> QED BY <1>2, BeforeIsOrder
<1>3. \A n \in 1 .. Cardinality(D) : \E i \in D : Cardinality(B[i]) = n - 1
  <2> HIDE DEF B
  <2> QED BY <1>1, Numbering
<1>4. \A n \in 1 .. Cardinality(D) : \E i \in D : Cardinality({j \in D : Before(c[j], c[i])}) = n - 1
  BY <1>3
<1>5. L = [n \in 1 .. Cardinality(D) |->
             CHOOSE i \in D : Cardinality({j \in D : Before(c[j], c[i])}) = n - 1]
  BY DEF InKeyOrder, Listed
<1> HIDE DEF L
<1>6. \A n \in 1 .. Cardinality(D) :
        L[n] = CHOOSE i \in D : Cardinality({j \in D : Before(c[j], c[i])}) = n - 1
  BY <1>5
<1>7. \A n \in 1 .. Cardinality(D) : L[n] \in D /\ Cardinality({j \in D : Before(c[j], c[L[n]])}) = n - 1
  BY <1>4, <1>6
<1>8. L \in [1 .. Cardinality(D) -> D]
  BY <1>4, <1>5
<1>9. \A n \in 1 .. Cardinality(D) : Cardinality(B[L[n]]) = n - 1
  BY <1>7
<1>10. Lists(L, D)
  <2> HIDE DEF B
  <2> QED BY <1>1, <1>8, <1>9, ListInOrder
<1>11. L \in Seq(D) /\ Range(L) = D
  BY <1>1, <1>10, ListsIsSequence
<1> QED BY <1>10, <1>11 DEF L, IsSequence

(* A clause of a graph holds of a set of candidates. *)
Holds(cl, c, S) == \E l \in Literals(cl) : (l.sign = 1) <=> (CandidateOf(c, l.var) \in S)

(* The pairs of variables that may not both be true: versions of one package. *)
RivalPairs(c) ==
  {p \in (DOMAIN c) \X (DOMAIN c) :
     p[1] < p[2] /\ c[CandidateOf(c, p[1])].name = c[CandidateOf(c, p[2])].name}

(* The candidates that a conflict of candidate i names. *)
Foes(c, i) == {j \in DOMAIN c \ {i} : \E k \in Range(c[i].conflicts) : Meets(c[j], k)}

(* A function on 1 .. n is a sequence. *)
LEMMA MappedSequence ==
  ASSUME NEW f, NEW n \in Nat, DOMAIN f = 1 .. n, f = [i \in 1 .. n |-> f[i]]
  PROVE  IsSequence(f)
<1>1. f \in [1 .. n -> Range(f)]
  BY DEF Range
<1> DEFINE R == Range(f)
<1>2. f \in [1 .. n -> R]
  BY <1>1
<1> HIDE DEF R
<1>3. f \in Seq(R)
  BY <1>2
<1> QED BY <1>3 DEF R, IsSequence

(* One sequence after another. *)
LEMMA JoinedSequence ==
  ASSUME NEW s, NEW t, IsSequence(s), IsSequence(t)
  PROVE  IsSequence(s \o t) /\ Range(s \o t) = Range(s) \cup Range(t) /\ Len(s \o t) = Len(s) + Len(t)
<1> DEFINE R == Range(s) \cup Range(t)
<1>1. s \in Seq(R) /\ t \in Seq(R)
  <2>1. \A A, B : s \in Seq(A) /\ A \subseteq B => s \in Seq(B)
    OBVIOUS
  <2>2. \A A, B : t \in Seq(A) /\ A \subseteq B => t \in Seq(B)
    OBVIOUS
  <2> QED BY <2>1, <2>2 DEF IsSequence
<1> HIDE DEF R
<1>2. s \o t \in Seq(R) /\ Len(s \o t) = Len(s) + Len(t) /\ Len(s) \in Nat /\ Len(t) \in Nat
  BY <1>1
<1>3. /\ \A i \in 1 .. Len(s) : (s \o t)[i] = s[i]
      /\ \A i \in 1 .. Len(t) : (s \o t)[Len(s) + i] = t[i]
  BY <1>1
<1>4. /\ DOMAIN s = 1 .. Len(s) /\ DOMAIN t = 1 .. Len(t)
      /\ DOMAIN (s \o t) = 1 .. Len(s) + Len(t)
  BY <1>1, <1>2
<1>5. \A i \in 1 .. Len(s) + Len(t) : (s \o t)[i] \in R
  BY <1>2
<1>6. ASSUME NEW x \in R PROVE \E i \in DOMAIN (s \o t) : (s \o t)[i] = x
  <2>1. CASE x \in Range(s)
    <3>1. PICK i \in 1 .. Len(s) : s[i] = x
      BY <2>1, <1>4 DEF Range
    <3>2. i \in 1 .. Len(s) + Len(t)
      BY <1>2
    <3> QED BY <3>1, <3>2, <1>3, <1>4
  <2>2. CASE x \in Range(t)
    <3>1. PICK i \in 1 .. Len(t) : t[i] = x
      BY <2>2, <1>4 DEF Range
    <3>2. Len(s) + i \in 1 .. Len(s) + Len(t)
      BY <1>2
    <3> QED BY <3>1, <3>2, <1>3, <1>4
  <2> QED BY <1>6, <2>1, <2>2 DEF R
<1>7. Range(s \o t) = R
  BY <1>4, <1>5, <1>6 DEF Range
<1> QED BY <1>2, <1>7 DEF R, IsSequence

(* Sequences put end to end, as a set. *)
LEMMA FlatIs ==
  ASSUME NEW s, IsSequence(s), \A i \in DOMAIN s : IsSequence(s[i])
  PROVE  IsSequence(Flat(s)) /\ Range(Flat(s)) = UNION {Range(s[i]) : i \in DOMAIN s}
BY FlatHolds DEF IsSequence

(* The clauses that one candidate adds. *)
LEMMA ClausesOfIs ==
  ASSUME NamesRanked, NEW c, Graph(c), NEW i \in DOMAIN c
  PROVE  /\ IsSequence(ClausesOf(c, i))
         /\ Range(ClausesOf(c, i)) = {RequirementClause(c, i, r) : r \in Range(c[i].requirements)}
                                       \cup {Exclude(c, i, j) : j \in Foes(c, i)}
<1> DEFINE reqs == [n \in DOMAIN c[i].requirements |-> RequirementClause(c, i, c[i].requirements[n])]
           foes == [n \in DOMAIN c[i].conflicts |-> ConflictClauses(c, i, c[i].conflicts[n])]
<1>1. /\ Len(c[i].requirements) \in Nat /\ DOMAIN c[i].requirements = 1 .. Len(c[i].requirements)
      /\ Len(c[i].conflicts) \in Nat /\ DOMAIN c[i].conflicts = 1 .. Len(c[i].conflicts)
  BY DEF Graph, IsSequence
<1>2. IsSequence(reqs) /\ Range(reqs) = {RequirementClause(c, i, r) : r \in Range(c[i].requirements)}
  <2>1. DOMAIN reqs = 1 .. Len(c[i].requirements) /\ reqs = [n \in 1 .. Len(c[i].requirements) |-> reqs[n]]
    BY <1>1
  <2>2. IsSequence(reqs)
    <3> HIDE DEF reqs
    <3> QED BY <1>1, <2>1, MappedSequence
  <2>3. Range(reqs) = {RequirementClause(c, i, r) : r \in Range(c[i].requirements)}
    BY DEF Range
  <2> QED BY <2>2, <2>3
<1>3. ASSUME NEW n \in DOMAIN foes
      PROVE  IsSequence(foes[n]) /\ Range(foes[n]) =
               {Exclude(c, i, j) : j \in {j \in DOMAIN c \ {i} : Meets(c[j], c[i].conflicts[n])}}
  <2> DEFINE D == {j \in DOMAIN c \ {i} : Meets(c[j], c[i].conflicts[n])}
             others == InKeyOrder(c, D)
  <2>1. IsSequence(others) /\ Range(others) = D
    <3>1. D \in SUBSET (DOMAIN c)
      OBVIOUS
    <3> HIDE DEF D
    <3> QED BY <3>1, CandidatesListed
  <2>2. foes[n] = [m \in DOMAIN others |-> Exclude(c, i, others[m])]
    BY DEF ConflictClauses
  <2> HIDE DEF others, D, foes
  <2>3. Len(others) \in Nat /\ DOMAIN others = 1 .. Len(others)
    BY <2>1 DEF IsSequence
  <2>4. DOMAIN foes[n] = 1 .. Len(others) /\ foes[n] = [m \in 1 .. Len(others) |-> foes[n][m]]
    BY <2>2, <2>3
  <2>5. IsSequence(foes[n])
    BY <2>3, <2>4, MappedSequence
  <2>6. Range(foes[n]) = {Exclude(c, i, j) : j \in D}
    <3>1. Range(foes[n]) = {Exclude(c, i, others[m]) : m \in DOMAIN others}
      BY <2>2 DEF Range
    <3>2. {Exclude(c, i, others[m]) : m \in DOMAIN others} = {Exclude(c, i, j) : j \in Range(others)}
      BY DEF Range
    <3> QED BY <3>1, <3>2, <2>1
  <2> QED BY <2>5, <2>6 DEF D
<1>4. IsSequence(foes)
  <2>1. DOMAIN foes = 1 .. Len(c[i].conflicts) /\ foes = [n \in 1 .. Len(c[i].conflicts) |-> foes[n]]
    BY <1>1
  <2> HIDE DEF foes
  <2> QED BY <1>1, <2>1, MappedSequence
<1>5. IsSequence(Flat(foes)) /\ Range(Flat(foes)) = UNION {Range(foes[n]) : n \in DOMAIN foes}
  <2> HIDE DEF foes
  <2> QED BY <1>3, <1>4, FlatIs
<1>6. Range(Flat(foes)) = {Exclude(c, i, j) : j \in Foes(c, i)}
  <2>1. ASSUME NEW n \in DOMAIN foes, NEW x \in Range(foes[n])
        PROVE  x \in {Exclude(c, i, j) : j \in Foes(c, i)}
    <3>1. PICK j \in DOMAIN c \ {i} : Meets(c[j], c[i].conflicts[n]) /\ x = Exclude(c, i, j)
      BY <1>3, <2>1
    <3>2. c[i].conflicts[n] \in Range(c[i].conflicts)
      BY DEF Range
    <3> QED BY <3>1, <3>2 DEF Foes
  <2>2. ASSUME NEW j \in Foes(c, i)
        PROVE  \E n \in DOMAIN foes : Exclude(c, i, j) \in Range(foes[n])
    <3>1. PICK n \in DOMAIN c[i].conflicts : Meets(c[j], c[i].conflicts[n])
      BY <2>2 DEF Foes, Range
    <3>2. n \in DOMAIN foes /\ j \in DOMAIN c \ {i}
      BY <3>1, <2>2 DEF Foes
    <3>3. Exclude(c, i, j) \in Range(foes[n])
      <4> HIDE DEF foes
      <4> QED BY <1>3, <3>1, <3>2
    <3> QED BY <3>2, <3>3
  <2> HIDE DEF foes
  <2> QED BY <1>5, <2>1, <2>2
<1>7. ClausesOf(c, i) = reqs \o Flat(foes)
  BY DEF ClausesOf
<1> HIDE DEF reqs, foes
<1> QED BY <1>2, <1>5, <1>6, <1>7, JoinedSequence

(* The clauses that keep versions of one package apart, as a set. *)
LEMMA RivalsIs ==
  ASSUME NEW c, Graph(c)
  PROVE  /\ IsSequence(Rivals(c))
         /\ Range(Rivals(c)) = {<<Off(p[1]), Off(p[2])>> : p \in RivalPairs(c)}
<1> DEFINE S == RivalPairs(c)
           q == Listed(S, Earlier)
<1>1. DOMAIN c = 1 .. Len(c) /\ Len(c) \in Nat /\ IsFiniteSet(DOMAIN c)
  BY GraphDomain
<1>2. S \in SUBSET (Int \X Int) /\ S \in SUBSET ((DOMAIN c) \X (DOMAIN c))
  BY <1>1 DEF RivalPairs
<1>3. IsFiniteSet(S)
  <2>1. IsFiniteSet((DOMAIN c) \X (DOMAIN c))
    BY <1>1, FS_Product
  <2> HIDE DEF S
  <2> QED BY <2>1, <1>2, FS_Subset
<1>4. Rivals(c) = [n \in DOMAIN q |-> <<Off(q[n][1]), Off(q[n][2])>>]
  BY DEF Rivals, RivalPairs
<1> HIDE DEF S
<1>5. Lists(q, S)
  BY <1>2, <1>3, PairsListed
<1> HIDE DEF q
<1>6. Cardinality(S) \in Nat /\ DOMAIN q = 1 .. Cardinality(S) /\ Range(q) = S
  BY <1>3, <1>5, ListsIsSequence
<1>7. DOMAIN Rivals(c) = 1 .. Cardinality(S)
      /\ Rivals(c) = [n \in 1 .. Cardinality(S) |-> Rivals(c)[n]]
  BY <1>4, <1>6
<1>8. IsSequence(Rivals(c))
  BY <1>6, <1>7, MappedSequence
<1>9. Range(Rivals(c)) = {<<Off(q[n][1]), Off(q[n][2])>> : n \in DOMAIN q}
  BY <1>4 DEF Range
<1>10. {<<Off(q[n][1]), Off(q[n][2])>> : n \in DOMAIN q} = {<<Off(p[1]), Off(p[2])>> : p \in Range(q)}
  BY DEF Range
<1> QED BY <1>6, <1>8, <1>9, <1>10 DEF S

(* The clauses of a graph, as sets: what is required or fixed must be *)
(* selected,                                                          *)
Demands(c, must) == {<<On(VarOf(c, i))>> : i \in must}

(* what a candidate requires is selected with it, *)
Needs(c) == UNION {{RequirementClause(c, i, r) : r \in Range(c[i].requirements)} : i \in DOMAIN c}

(* and what it conflicts with is not. *)
Bans(c) == UNION {{Exclude(c, i, j) : j \in Foes(c, i)} : i \in DOMAIN c}

(* The clauses of a graph are these, and those of the rivals. *)
LEMMA GraphClausesAre ==
  ASSUME NamesRanked, NEW c, Graph(c), NEW req, NEW fixed, IsSequence(fixed)
  PROVE  /\ IsSequence(GraphClauses(c, req, fixed))
         /\ Range(GraphClauses(c, req, fixed)) =
              Demands(c, {req} \cup Range(fixed)) \cup {<<Off(p[1]), Off(p[2])>> : p \in RivalPairs(c)}
              \cup Needs(c) \cup Bans(c)
<1> DEFINE one == <<<<On(VarOf(c, req))>>>>
           units == [n \in DOMAIN fixed |-> <<On(VarOf(c, fixed[n]))>>]
           each == [i \in DOMAIN c |-> ClausesOf(c, i)]
<1>1. IsSequence(one) /\ Range(one) = Demands(c, {req})
  <2>1. DOMAIN one = 1 .. 1 /\ one = [n \in 1 .. 1 |-> one[n]]
    OBVIOUS
  <2>2. IsSequence(one)
    <3> HIDE DEF one
    <3> QED BY <2>1, MappedSequence
  <2> QED BY <2>2 DEF Range, Demands
<1>2. IsSequence(units) /\ Range(units) = Demands(c, Range(fixed))
  <2>1. Len(fixed) \in Nat /\ DOMAIN fixed = 1 .. Len(fixed)
    BY DEF IsSequence
  <2>2. DOMAIN units = 1 .. Len(fixed) /\ units = [n \in 1 .. Len(fixed) |-> units[n]]
    BY <2>1
  <2>3. IsSequence(units)
    <3> HIDE DEF units
    <3> QED BY <2>1, <2>2, MappedSequence
  <2>4. Range(units) = Demands(c, Range(fixed))
    BY DEF Range, Demands
  <2> QED BY <2>3, <2>4
<1>3. IsSequence(each) /\ \A i \in DOMAIN each : IsSequence(each[i])
  <2>1. Len(c) \in Nat /\ DOMAIN c = 1 .. Len(c)
    BY GraphDomain
  <2>2. DOMAIN each = 1 .. Len(c) /\ each = [n \in 1 .. Len(c) |-> each[n]]
    BY <2>1
  <2>3. IsSequence(each)
    <3> HIDE DEF each
    <3> QED BY <2>1, <2>2, MappedSequence
  <2>4. \A i \in DOMAIN each : IsSequence(each[i])
    BY ClausesOfIs
  <2> QED BY <2>3, <2>4
<1>4. IsSequence(Flat(each)) /\ Range(Flat(each)) = UNION {Range(each[i]) : i \in DOMAIN each}
  <2> HIDE DEF each
  <2> QED BY <1>3, FlatIs
<1>5. Range(Flat(each)) = Needs(c) \cup Bans(c)
  <2>1. Range(Flat(each)) = UNION {Range(ClausesOf(c, i)) : i \in DOMAIN c}
    BY <1>4
  <2>2. \A i \in DOMAIN c : Range(ClausesOf(c, i)) =
          {RequirementClause(c, i, r) : r \in Range(c[i].requirements)}
            \cup {Exclude(c, i, j) : j \in Foes(c, i)}
    BY ClausesOfIs
  <2>3. UNION {Range(ClausesOf(c, i)) : i \in DOMAIN c} = Needs(c) \cup Bans(c)
    BY <2>2 DEF Needs, Bans
  <2> QED BY <2>1, <2>3
<1>6. IsSequence(Rivals(c))
      /\ Range(Rivals(c)) = {<<Off(p[1]), Off(p[2])>> : p \in RivalPairs(c)}
  BY RivalsIs
<1>7. GraphClauses(c, req, fixed) = one \o units \o Rivals(c) \o Flat(each)
  BY DEF GraphClauses
<1> HIDE DEF one, units, each
<1>8. IsSequence(one \o units) /\ Range(one \o units) = Demands(c, {req}) \cup Demands(c, Range(fixed))
  BY <1>1, <1>2, JoinedSequence
<1>9. IsSequence(one \o units \o Rivals(c))
      /\ Range(one \o units \o Rivals(c)) = Range(one \o units) \cup Range(Rivals(c))
  BY <1>6, <1>8, JoinedSequence
<1>10. IsSequence(GraphClauses(c, req, fixed))
       /\ Range(GraphClauses(c, req, fixed)) =
            Range(one \o units \o Rivals(c)) \cup Range(Flat(each))
  BY <1>4, <1>7, <1>9, JoinedSequence
<1>11. Demands(c, {req}) \cup Demands(c, Range(fixed)) = Demands(c, {req} \cup Range(fixed))
  BY DEF Demands
<1>12. Range(GraphClauses(c, req, fixed)) =
         Range(one \o units) \cup Range(Rivals(c)) \cup (Needs(c) \cup Bans(c))
  BY <1>5, <1>9, <1>10
<1> QED BY <1>6, <1>8, <1>10, <1>11, <1>12

(* The literals of each kind of clause. *)
LEMMA RequirementLiterals ==
  ASSUME NamesRanked, NEW c, Graph(c), NEW i \in DOMAIN c, NEW r
  PROVE  /\ IsSequence(RequirementClause(c, i, r))
         /\ Literals(RequirementClause(c, i, r)) =
              {Off(VarOf(c, i))} \cup {On(VarOf(c, j)) : j \in {j \in DOMAIN c : MeetsOne(c[j], r)}}
<1> DEFINE D == {j \in DOMAIN c : MeetsOne(c[j], r)}
           options == InKeyOrder(c, D)
           one == <<Off(VarOf(c, i))>>
           rest == [n \in DOMAIN options |-> On(VarOf(c, options[n]))]
<1>1. IsSequence(options) /\ Range(options) = D
  <2>1. D \in SUBSET (DOMAIN c)
    OBVIOUS
  <2> HIDE DEF D
  <2> QED BY <2>1, CandidatesListed
<1>2. RequirementClause(c, i, r) = one \o rest
  BY DEF RequirementClause, Options
<1> HIDE DEF options, D
<1>3. IsSequence(one) /\ Range(one) = {Off(VarOf(c, i))}
  <2>1. DOMAIN one = 1 .. 1 /\ one = [n \in 1 .. 1 |-> one[n]]
    OBVIOUS
  <2>2. IsSequence(one)
    <3> HIDE DEF one
    <3> QED BY <2>1, MappedSequence
  <2> QED BY <2>2 DEF Range
<1>4. IsSequence(rest) /\ Range(rest) = {On(VarOf(c, j)) : j \in D}
  <2>1. Len(options) \in Nat /\ DOMAIN options = 1 .. Len(options)
    BY <1>1 DEF IsSequence
  <2>2. DOMAIN rest = 1 .. Len(options) /\ rest = [n \in 1 .. Len(options) |-> rest[n]]
    BY <2>1
  <2>3. IsSequence(rest)
    <3> HIDE DEF rest
    <3> QED BY <2>1, <2>2, MappedSequence
  <2>4. Range(rest) = {On(VarOf(c, j)) : j \in Range(options)}
    BY DEF Range
  <2> QED BY <1>1, <2>3, <2>4
<1> HIDE DEF one, rest
<1>5. IsSequence(one \o rest) /\ Range(one \o rest) = Range(one) \cup Range(rest)
  BY <1>3, <1>4, JoinedSequence
<1>6. Literals(one \o rest) = Range(one \o rest)
  BY DEF Literals, Range
<1> QED BY <1>2, <1>3, <1>4, <1>5, <1>6 DEF D

(* Clauses of one literal, and of two. *)
LEMMA ShortClauses ==
  /\ \A v : IsSequence(<<On(v)>>) /\ Literals(<<On(v)>>) = {On(v)}
  /\ \A v, w : IsSequence(<<Off(v), Off(w)>>) /\ Literals(<<Off(v), Off(w)>>) = {Off(v), Off(w)}
<1>1. ASSUME NEW v PROVE IsSequence(<<On(v)>>) /\ Literals(<<On(v)>>) = {On(v)}
  <2> DEFINE s == <<On(v)>>
  <2>1. DOMAIN s = 1 .. 1 /\ s = [n \in 1 .. 1 |-> s[n]]
    OBVIOUS
  <2>2. IsSequence(s)
    <3> HIDE DEF s
    <3> QED BY <2>1, MappedSequence
  <2> QED BY <2>2 DEF Literals
<1>2. ASSUME NEW v, NEW w
      PROVE IsSequence(<<Off(v), Off(w)>>) /\ Literals(<<Off(v), Off(w)>>) = {Off(v), Off(w)}
  <2> DEFINE s == <<Off(v), Off(w)>>
  <2>1. DOMAIN s = 1 .. 2 /\ s = [n \in 1 .. 2 |-> s[n]]
    OBVIOUS
  <2>2. IsSequence(s)
    <3> HIDE DEF s
    <3> QED BY <2>1, MappedSequence
  <2>3. Literals(s) = {Off(v), Off(w)}
    BY DEF Literals
  <2> QED BY <2>2, <2>3
<1> QED BY <1>1, <1>2

(* Every clause of a graph is about its variables. *)
LEMMA ClausesTyped ==
  ASSUME NamesRanked, NEW c, Graph(c), NEW req \in DOMAIN c, NEW fixed, IsSequence(fixed),
         Range(fixed) \subseteq DOMAIN c,
         NEW cl \in Range(GraphClauses(c, req, fixed))
  PROVE  IsSequence(cl) /\ \A l \in Literals(cl) :
           \E i \in DOMAIN c : l = On(VarOf(c, i)) \/ l = Off(VarOf(c, i))
<1>1. Range(GraphClauses(c, req, fixed)) =
        Demands(c, {req} \cup Range(fixed)) \cup {<<Off(p[1]), Off(p[2])>> : p \in RivalPairs(c)}
        \cup Needs(c) \cup Bans(c)
  BY GraphClausesAre
<1>2. CASE cl \in Demands(c, {req} \cup Range(fixed))
  <2>1. PICK i \in DOMAIN c : cl = <<On(VarOf(c, i))>>
    BY <1>2 DEF Demands
  <2> QED BY <2>1, ShortClauses
<1>3. CASE cl \in {<<Off(p[1]), Off(p[2])>> : p \in RivalPairs(c)}
  <2>1. PICK p \in RivalPairs(c) : cl = <<Off(p[1]), Off(p[2])>>
    BY <1>3
  <2>2. p[1] \in 1 .. Len(c) /\ p[2] \in 1 .. Len(c)
    BY GraphDomain DEF RivalPairs
  <2>3. PICK i \in DOMAIN c : VarOf(c, i) = p[1]
    BY <2>2, Variables
  <2>4. PICK j \in DOMAIN c : VarOf(c, j) = p[2]
    BY <2>2, Variables
  <2> QED BY <2>1, <2>3, <2>4, ShortClauses
<1>4. CASE cl \in Needs(c)
  <2>1. PICK i \in DOMAIN c : \E r \in Range(c[i].requirements) : cl = RequirementClause(c, i, r)
    BY <1>4 DEF Needs
  <2>2. PICK r \in Range(c[i].requirements) : cl = RequirementClause(c, i, r)
    BY <2>1
  <2>3. IsSequence(cl) /\ Literals(cl) =
          {Off(VarOf(c, i))} \cup {On(VarOf(c, j)) : j \in {j \in DOMAIN c : MeetsOne(c[j], r)}}
    BY <2>2, RequirementLiterals
  <2> QED BY <2>3
<1>5. CASE cl \in Bans(c)
  <2>1. PICK i \in DOMAIN c : \E j \in Foes(c, i) : cl = Exclude(c, i, j)
    BY <1>5 DEF Bans
  <2>2. PICK j \in Foes(c, i) : cl = Exclude(c, i, j)
    BY <2>1
  <2>3. j \in DOMAIN c /\ cl = <<Off(VarOf(c, i)), Off(VarOf(c, j))>>
    BY <2>2 DEF Foes, Exclude
  <2> QED BY <2>3, ShortClauses
<1> QED BY <1>1, <1>2, <1>3, <1>4, <1>5

(***************************************************************************)
(* The clauses of a graph hold of exactly the coherent selections that     *)
(* contain what is required and fixed.                                     *)
(***************************************************************************)
LEMMA GraphMeaning ==
  ASSUME NamesRanked, NEW c, Graph(c), NEW req \in DOMAIN c, NEW fixed, IsSequence(fixed),
         Range(fixed) \subseteq DOMAIN c, NEW S \in SUBSET (DOMAIN c)
  PROVE  (\A cl \in Range(GraphClauses(c, req, fixed)) : Holds(cl, c, S))
           <=> {req} \cup Range(fixed) \subseteq S /\ Coherent(c, S)
<1> DEFINE must == {req} \cup Range(fixed)
           twos == {<<Off(p[1]), Off(p[2])>> : p \in RivalPairs(c)}
<1>1. Range(GraphClauses(c, req, fixed)) = Demands(c, must) \cup twos \cup Needs(c) \cup Bans(c)
  BY GraphClausesAre
<1>0. \A i \in DOMAIN c : CandidateOf(c, VarOf(c, i)) = i
  BY Variables
<1>2. (\A cl \in Demands(c, must) : Holds(cl, c, S)) <=> must \subseteq S
  <2>1. ASSUME NEW i \in must PROVE Holds(<<On(VarOf(c, i))>>, c, S) <=> i \in S
    <3>1. Literals(<<On(VarOf(c, i))>>) = {On(VarOf(c, i))}
      BY ShortClauses
    <3>2. CandidateOf(c, VarOf(c, i)) = i
      BY <1>0
    <3> QED BY <3>1, <3>2 DEF Holds, On
  <2> QED BY <2>1 DEF Demands
<1>3. (\A cl \in twos : Holds(cl, c, S)) <=> \A i, j \in S : i # j => c[i].name # c[j].name
  <2>1. ASSUME NEW p \in RivalPairs(c)
        PROVE  Holds(<<Off(p[1]), Off(p[2])>>, c, S) <=>
                 ~(CandidateOf(c, p[1]) \in S /\ CandidateOf(c, p[2]) \in S)
    <3>1. Literals(<<Off(p[1]), Off(p[2])>>) = {Off(p[1]), Off(p[2])}
      BY ShortClauses
    <3> QED BY <3>1 DEF Holds, Off
  <2>2. ASSUME NEW i \in S, NEW j \in S, i # j, c[i].name = c[j].name
        PROVE  \E p \in RivalPairs(c) : {CandidateOf(c, p[1]), CandidateOf(c, p[2])} = {i, j}
    <3>1. /\ VarOf(c, i) \in DOMAIN c /\ VarOf(c, j) \in DOMAIN c /\ VarOf(c, i) # VarOf(c, j)
          /\ VarOf(c, i) \in Int /\ VarOf(c, j) \in Int
      BY <1>0, <2>2, Variables, GraphDomain
    <3>2. CASE VarOf(c, i) < VarOf(c, j)
      <4> DEFINE p == <<VarOf(c, i), VarOf(c, j)>>
      <4>1. p \in RivalPairs(c) /\ CandidateOf(c, p[1]) = i /\ CandidateOf(c, p[2]) = j
        BY <1>0, <2>2, <3>1, <3>2 DEF RivalPairs
      <4> QED BY <4>1
    <3>3. CASE VarOf(c, j) < VarOf(c, i)
      <4> DEFINE p == <<VarOf(c, j), VarOf(c, i)>>
      <4>1. p \in RivalPairs(c) /\ CandidateOf(c, p[1]) = j /\ CandidateOf(c, p[2]) = i
        BY <1>0, <2>2, <3>1, <3>3 DEF RivalPairs
      <4> QED BY <4>1
    <3> QED BY <3>1, <3>2, <3>3
  <2>3. ASSUME NEW p \in RivalPairs(c)
        PROVE  CandidateOf(c, p[1]) # CandidateOf(c, p[2])
               /\ c[CandidateOf(c, p[1])].name = c[CandidateOf(c, p[2])].name
    <3>1. p[1] \in 1 .. Len(c) /\ p[2] \in 1 .. Len(c) /\ p[1] < p[2]
      BY GraphDomain DEF RivalPairs
    <3>2. VarOf(c, CandidateOf(c, p[1])) = p[1] /\ VarOf(c, CandidateOf(c, p[2])) = p[2]
      BY <3>1, Variables
    <3> QED BY <3>1, <3>2 DEF RivalPairs
  <2>4. ASSUME \A cl \in twos : Holds(cl, c, S), NEW i \in S, NEW j \in S, i # j, c[i].name = c[j].name
        PROVE  FALSE
    <3>1. PICK p \in RivalPairs(c) : {CandidateOf(c, p[1]), CandidateOf(c, p[2])} = {i, j}
      BY <2>2, <2>4
    <3>2. Holds(<<Off(p[1]), Off(p[2])>>, c, S)
      BY <2>4
    <3> QED BY <2>1, <3>1, <3>2
  <2>5. ASSUME \A i, j \in S : i # j => c[i].name # c[j].name, NEW p \in RivalPairs(c)
        PROVE  Holds(<<Off(p[1]), Off(p[2])>>, c, S)
    BY <2>1, <2>3, <2>5
  <2> QED BY <2>4, <2>5
<1>4. (\A cl \in Needs(c) : Holds(cl, c, S))
        <=> \A i \in S : \A r \in Range(c[i].requirements) : \E j \in S : MeetsOne(c[j], r)
  <2>1. ASSUME NEW i \in DOMAIN c, NEW r
        PROVE  Holds(RequirementClause(c, i, r), c, S) <=>
                 (i \in S => \E j \in S : MeetsOne(c[j], r))
    <3> DEFINE L == {Off(VarOf(c, i))} \cup {On(VarOf(c, j)) : j \in {j \in DOMAIN c : MeetsOne(c[j], r)}}
    <3>1. Literals(RequirementClause(c, i, r)) = L
      BY RequirementLiterals
    <3>2. (\E l \in L : (l.sign = 1) <=> (CandidateOf(c, l.var) \in S)) <=>
            (i \in S => \E j \in S : MeetsOne(c[j], r))
      <4>1. ((Off(VarOf(c, i)).sign = 1) <=> (CandidateOf(c, Off(VarOf(c, i)).var) \in S)) <=> i \notin S
        BY <1>0 DEF Off
      <4>2. \A j \in DOMAIN c :
              ((On(VarOf(c, j)).sign = 1) <=> (CandidateOf(c, On(VarOf(c, j)).var) \in S)) <=> j \in S
        BY <1>0 DEF On
      <4> QED BY <4>1, <4>2
    <3> HIDE DEF L
    <3> QED BY <3>1, <3>2 DEF Holds
  <2>2. (\A cl \in Needs(c) : Holds(cl, c, S)) <=>
          \A i \in DOMAIN c : \A r \in Range(c[i].requirements) : Holds(RequirementClause(c, i, r), c, S)
    BY DEF Needs
  <2> QED BY <2>1, <2>2
<1>5. (\A cl \in Bans(c) : Holds(cl, c, S))
        <=> \A i \in S : \A k \in Range(c[i].conflicts) : \A j \in S \ {i} : ~Meets(c[j], k)
  <2>1. ASSUME NEW i \in DOMAIN c, NEW j \in DOMAIN c
        PROVE  Holds(Exclude(c, i, j), c, S) <=> ~(i \in S /\ j \in S)
    <3>1. Literals(Exclude(c, i, j)) = {Off(VarOf(c, i)), Off(VarOf(c, j))}
      BY ShortClauses DEF Exclude
    <3>2. CandidateOf(c, VarOf(c, i)) = i /\ CandidateOf(c, VarOf(c, j)) = j
      BY <1>0
    <3> QED BY <3>1, <3>2 DEF Holds, Off
  <2>2. (\A cl \in Bans(c) : Holds(cl, c, S)) <=>
          \A i \in DOMAIN c : \A j \in Foes(c, i) : Holds(Exclude(c, i, j), c, S)
    BY DEF Bans
  <2>3. \A i \in DOMAIN c : Foes(c, i) \subseteq DOMAIN c
    BY DEF Foes
  <2>4. (\A cl \in Bans(c) : Holds(cl, c, S)) <=>
          \A i \in S : \A j \in Foes(c, i) : j \notin S
    BY <2>1, <2>2, <2>3
  <2> QED BY <2>4 DEF Foes
<1>6. (\A cl \in Range(GraphClauses(c, req, fixed)) : Holds(cl, c, S))
        <=> /\ \A cl \in Demands(c, must) : Holds(cl, c, S)
            /\ \A cl \in twos : Holds(cl, c, S)
            /\ \A cl \in Needs(c) : Holds(cl, c, S)
            /\ \A cl \in Bans(c) : Holds(cl, c, S)
  <2> HIDE DEF must, twos
  <2> QED BY <1>1
<1> HIDE DEF twos
<1> QED BY <1>2, <1>3, <1>4, <1>5, <1>6 DEF Coherent

-----------------------------------------------------------------------------
(***************************************************************************)
(* The search: no model is lost from the trail and the decisions on it.    *)
(***************************************************************************)

(* The trail has room for every variable: the assumption on the limits. *)
TrailFits == MaxTrail >= MaxPackages

(* A model takes the first n literals of the trail. *)
Agrees(M, t, n) == \A i \in 1 .. n : M[t[i].var] = t[i].sign

(* The trail holds the variables that have a value, each once. *)
TrailOK(t, a) ==
  /\ t \in Seq(Lit) /\ a \in [Var -> {Unset, 0, 1}]
  /\ \A i, j \in 1 .. Len(t) : t[i].var = t[j].var => i = j
  /\ \A i \in 1 .. Len(t) : a[t[i].var] = t[i].sign
  /\ \A v \in Var : a[v] # Unset => \E i \in 1 .. Len(t) : t[i].var = v

(* Every open decision is on the trail, about the first variable that had no *)
(* value, and as it was made or turned around.                               *)
FramesOK(fs, t, act) ==
  /\ fs \in Seq([var : Var, start : Nat, positive : BOOLEAN])
  /\ \A k \in 1 .. Len(fs) :
       /\ fs[k].start < Len(t)
       /\ t[fs[k].start + 1] = [var |-> fs[k].var, sign |-> IF fs[k].positive THEN 1 ELSE 0]
       /\ \A w \in act : w < fs[k].var => \E i \in 1 .. fs[k].start : t[i].var = w
  /\ \A k, m \in 1 .. Len(fs) : k < m => fs[k].start < fs[m].start

(* A literal that was not decided follows from those before it. *)
Implied(fs, t, Ms) ==
  \A M \in Ms : \A n \in 1 .. Len(t) :
    (\A k \in 1 .. Len(fs) : fs[k].start + 1 # n) /\ Agrees(M, t, n - 1) => M[t[n].var] = t[n].sign

(* A decision is turned around when no model takes the other side. *)
Refuted(fs, t, Ms) ==
  \A M \in Ms : \A k \in 1 .. Len(fs) :
    fs[k].positive /\ Agrees(M, t, fs[k].start) => M[fs[k].var] = 1

(* The total assignments that satisfy every clause. *)
Models(cs) == {M \in [Var -> {0, 1}] : \A i \in DOMAIN cs : Satisfied(cs[i], M)}

(* The clauses are of literals, and every variable in one is in use. *)
ClausesOK ==
  /\ active \subseteq Var /\ IsSequence(clauses)
  /\ \A i \in DOMAIN clauses : IsSequence(clauses[i])
  /\ \A i \in DOMAIN clauses : \A l \in Literals(clauses[i]) : l \in Lit /\ l.var \in active

(* What DpllSolver::solve keeps from propagate to backtrack and back: the  *)
(* trail and the decisions on it leave out no model. In a conflict none is *)
(* left on the trail; refused, there is none.                              *)
SearchInv ==
  search # "idle" =>
    /\ TrailOK(trail, assignment) /\ FramesOK(frames, trail, active)
    /\ Implied(frames, trail, Models(clauses)) /\ Refuted(frames, trail, Models(clauses))
    /\ search = "backtrack" => \A M \in Models(clauses) : ~Agrees(M, trail, Len(trail))
    /\ search = "unsat" => Models(clauses) = {}

(* Once a pass over the clauses forces nothing, none of them is in conflict. *)
QuietInv ==
  /\ search \in {"idle", "propagate", "backtrack", "decide", "sat", "unsat"}
  /\ scan \in Nat
  /\ search = "propagate" /\ ~forced =>
       \A i \in DOMAIN clauses : i < scan => ~Conflicting(clauses[i], assignment)
  /\ search = "decide" =>
       /\ scan = 1 /\ ~forced
       /\ \A i \in DOMAIN clauses : ~Conflicting(clauses[i], assignment)
  /\ search = "sat" =>
       /\ \A v \in active : assignment[v] # Unset
       /\ \A i \in DOMAIN clauses : Satisfied(clauses[i], assignment)

(* A variable without a value finds room on the trail: record_assignment *)
(* drops nothing.                                                        *)
LEMMA TrailRoom ==
  ASSUME TrailFits, NEW t, NEW a, TrailOK(t, a), NEW l \in Lit, a[l.var] = Unset
  PROVE  Len(t) < MaxPackages /\ Trailed(t, l) = Append(t, l)
<1> DEFINE n == Len(t)
           T == Var \ {l.var}
<1>1. n \in Nat /\ t \in [1 .. n -> Lit] /\ l.var \in Var /\ MaxPackages \in Nat \ {0} /\ MaxTrail \in Nat
  <2>1. n \in Nat /\ t \in [1 .. n -> Lit]
    BY DEF TrailOK
  <2> QED BY <2>1, SolverAssumption DEF Lit
<1>2. IsFiniteSet(T) /\ Cardinality(T) = MaxPackages - 1
  <2>1. IsFiniteSet(Var) /\ Cardinality(Var) = MaxPackages
    BY <1>1, FS_Interval DEF Var
  <2> QED BY <1>1, <2>1, FS_RemoveElement
<1>3. IsFiniteSet(1 .. n) /\ Cardinality(1 .. n) = n
  BY <1>1, FS_Interval
<1> DEFINE f == [i \in 1 .. n |-> t[i].var]
<1>4. f \in [1 .. n -> T]
  <2>1. \A i \in 1 .. n : t[i] \in Lit /\ a[t[i].var] = t[i].sign
    BY <1>1 DEF TrailOK
  <2>2. \A i \in 1 .. n : t[i].var \in Var /\ t[i].var # l.var
    BY <2>1 DEF Lit, Unset
  <2> QED BY <2>2
<1>5. ~(n > MaxPackages - 1)
  <2> SUFFICES ASSUME n > MaxPackages - 1 PROVE FALSE
    OBVIOUS
  <2>1. \E x, y \in 1 .. n : x # y /\ f[x] = f[y]
    <3> HIDE DEF f, T
    <3> QED BY <1>1, <1>2, <1>3, <1>4, FS_PigeonHole
  <2>2. PICK x \in 1 .. n, y \in 1 .. n : x # y /\ f[x] = f[y]
    BY <2>1
  <2>3. t[x].var = t[y].var
    BY <2>2
  <2> HIDE DEF f, T
  <2> QED BY <2>2, <2>3 DEF TrailOK
<1>6. Len(t) < MaxPackages
  BY <1>1, <1>5
<1>7. Len(t) < MaxTrail
  BY <1>1, <1>6 DEF TrailFits
<1> QED BY <1>6, <1>7 DEF Trailed

(* A literal of such a variable is put on the trail. *)
LEMMA TrailExtends ==
  ASSUME TrailFits, NEW t, NEW a, TrailOK(t, a), NEW l \in Lit, a[l.var] = Unset
  PROVE  /\ Trailed(t, l) = Append(t, l)
         /\ TrailOK(Append(t, l), Assigned(a, l))
         /\ Len(Append(t, l)) = Len(t) + 1 /\ Append(t, l)[Len(t) + 1] = l
         /\ \A i \in 1 .. Len(t) : Append(t, l)[i] = t[i]
<1> DEFINE u == Append(t, l)
<1>1. t \in Seq(Lit) /\ a \in [Var -> {Unset, 0, 1}] /\ l.var \in Var /\ l.sign \in {0, 1}
      /\ Len(t) \in Nat /\ t \in [1 .. Len(t) -> Lit]
  <2>1. t \in Seq(Lit) /\ a \in [Var -> {Unset, 0, 1}] /\ Len(t) \in Nat /\ t \in [1 .. Len(t) -> Lit]
    BY DEF TrailOK
  <2> QED BY <2>1 DEF Lit
<1>2. /\ u \in Seq(Lit) /\ Len(u) = Len(t) + 1 /\ u[Len(t) + 1] = l
      /\ \A i \in 1 .. Len(t) : u[i] = t[i]
  BY <1>1
<1>3. \A i \in 1 .. Len(t) : t[i].var \in Var /\ t[i].var # l.var /\ a[t[i].var] = t[i].sign
  <2>1. \A i \in 1 .. Len(t) : t[i] \in Lit /\ a[t[i].var] = t[i].sign
    BY <1>1 DEF TrailOK
  <2> QED BY <2>1 DEF Lit, Unset
<1>4. Assigned(a, l) \in [Var -> {Unset, 0, 1}] /\ Assigned(a, l)[l.var] = l.sign
      /\ \A v \in Var : v # l.var => Assigned(a, l)[v] = a[v]
  BY <1>1 DEF Assigned
<1> HIDE DEF u
<1>5. \A i \in 1 .. Len(u) : i \in 1 .. Len(t) \/ i = Len(t) + 1
  BY <1>1, <1>2
<1>6. \A i, j \in 1 .. Len(u) : u[i].var = u[j].var => i = j
  BY <1>2, <1>3, <1>5 DEF TrailOK
<1>7. \A i \in 1 .. Len(u) : Assigned(a, l)[u[i].var] = u[i].sign
  BY <1>2, <1>3, <1>4, <1>5
<1>8. ASSUME NEW v \in Var, Assigned(a, l)[v] # Unset PROVE \E i \in 1 .. Len(u) : u[i].var = v
  <2>1. CASE v = l.var
    <3>1. Len(t) + 1 \in 1 .. Len(u)
      BY <1>1, <1>2
    <3> QED BY <2>1, <3>1, <1>2
  <2>2. CASE v # l.var
    <3>1. PICK i \in 1 .. Len(t) : t[i].var = v
      BY <1>4, <1>8, <2>2 DEF TrailOK
    <3>2. i \in 1 .. Len(u)
      BY <1>1, <1>2
    <3> QED BY <3>1, <3>2, <1>2
  <2> QED BY <2>1, <2>2
<1>9. TrailOK(u, Assigned(a, l))
  BY <1>2, <1>4, <1>6, <1>7, <1>8 DEF TrailOK
<1> QED BY <1>2, <1>9, TrailRoom DEF u

(* The assignment once the trail is cut to n: the variables after that lose *)
(* their values.                                                            *)
Unset2(t, a, n) == [v \in Var |-> IF \E i \in n + 1 .. Len(t) : t[i].var = v THEN Unset ELSE a[v]]

(* The trail is cut back to its first n literals. *)
LEMMA TrailCut ==
  ASSUME NEW t, NEW a, TrailOK(t, a), NEW n \in 0 .. Len(t)
  PROVE  /\ TrailOK(SubSeq(t, 1, n), Unset2(t, a, n))
         /\ Len(SubSeq(t, 1, n)) = n /\ \A i \in 1 .. n : SubSeq(t, 1, n)[i] = t[i]
         /\ \A i \in n + 1 .. Len(t) : Unset2(t, a, n)[t[i].var] = Unset
<1> DEFINE u == SubSeq(t, 1, n)
           b == Unset2(t, a, n)
<1>1. t \in Seq(Lit) /\ a \in [Var -> {Unset, 0, 1}] /\ Len(t) \in Nat /\ n \in Nat /\ n <= Len(t)
      /\ \A i \in 1 .. Len(t) : t[i] \in Lit /\ t[i].var \in Var
  <2>1. t \in Seq(Lit) /\ a \in [Var -> {Unset, 0, 1}] /\ Len(t) \in Nat
    BY DEF TrailOK
  <2>2. \A i \in 1 .. Len(t) : t[i] \in Lit
    BY <2>1
  <2> QED BY <2>1, <2>2 DEF Lit
<1>2. u \in Seq(Lit) /\ Len(u) = n /\ \A i \in 1 .. n : u[i] = t[i]
  <2>1. \A i \in 1 .. n : t[i] \in Lit /\ i \in 1 .. Len(t)
    BY <1>1
  <2>2. u = [i \in 1 .. n |-> t[i]]
    BY <1>1, <2>1
  <2>3. u \in [1 .. n -> Lit]
    BY <2>1, <2>2
  <2> QED BY <1>1, <2>2, <2>3
<1>3. b \in [Var -> {Unset, 0, 1}]
  BY <1>1 DEF Unset2
<1>4. \A v \in Var : b[v] = IF \E i \in n + 1 .. Len(t) : t[i].var = v THEN Unset ELSE a[v]
  BY DEF Unset2
<1>5. \A i \in 1 .. n : i \in 1 .. Len(t) /\ \A j \in n + 1 .. Len(t) : j \in 1 .. Len(t) /\ i # j
  BY <1>1
<1> HIDE DEF u, b
<1>6. \A i \in 1 .. n : b[u[i].var] = u[i].sign
  BY <1>1, <1>2, <1>4, <1>5 DEF TrailOK
<1>7. \A i, j \in 1 .. n : u[i].var = u[j].var => i = j
  BY <1>2, <1>5 DEF TrailOK
<1>8. ASSUME NEW v \in Var, b[v] # Unset PROVE \E i \in 1 .. n : u[i].var = v
  <2>1. a[v] # Unset /\ ~\E i \in n + 1 .. Len(t) : t[i].var = v
    BY <1>4, <1>8
  <2>2. PICK i \in 1 .. Len(t) : t[i].var = v
    BY <2>1 DEF TrailOK
  <2>3. i \in 1 .. n
    BY <1>1, <2>1, <2>2
  <2> QED BY <2>2, <2>3, <1>2
<1>9. TrailOK(u, b)
  BY <1>2, <1>3, <1>6, <1>7, <1>8 DEF TrailOK
<1>10. \A i \in n + 1 .. Len(t) : i \in 1 .. Len(t)
  BY <1>1
<1> QED BY <1>1, <1>2, <1>4, <1>9, <1>10 DEF u, b

(* From a decision on, a model that agrees with the trail agrees with all that *)
(* follows.                                                                    *)
LEMMA Chain ==
  ASSUME NEW t, Len(t) \in Nat, NEW fs, NEW Ms, Implied(fs, t, Ms), NEW M \in Ms,
         NEW n \in 0 .. Len(t), Agrees(M, t, n),
         \A m \in n + 1 .. Len(t) : \A k \in 1 .. Len(fs) : fs[k].start + 1 # m
  PROVE  Agrees(M, t, Len(t))
<1> DEFINE Bad == {m \in 1 .. Len(t) : M[t[m].var] # t[m].sign}
<1> SUFFICES ASSUME Bad # {} PROVE FALSE
  BY DEF Agrees
<1>1. PICK m \in Bad : \A j \in Bad : m <= j
  <2>1. Bad \in SUBSET Nat
    OBVIOUS
  <2> HIDE DEF Bad
  <2> QED BY <2>1, LeastNat
<1>2. m \in n + 1 .. Len(t)
  <2>1. m \in 1 .. Len(t) /\ M[t[m].var] # t[m].sign
    BY <1>1
  <2>2. ~(m <= n)
    BY <2>1 DEF Agrees
  <2> QED BY <2>1, <2>2
<1>3. Agrees(M, t, m - 1)
  <2>1. \A i \in 1 .. m - 1 : i \in 1 .. Len(t) /\ i \notin Bad
    BY <1>1
  <2> QED BY <2>1 DEF Agrees
<1> QED BY <1>2, <1>3 DEF Implied

(* A decision: its variable, its place on the trail, and whether it was *)
(* turned around.                                                       *)
Frame == [var : Var, start : Nat, positive : BOOLEAN]

(* A decision that is open is on the trail. *)
LEMMA FrameFacts ==
  ASSUME NEW t, NEW fs, NEW act, Len(t) \in Nat, FramesOK(fs, t, act)
  PROVE  /\ fs \in Seq(Frame) /\ Len(fs) \in Nat
         /\ \A k \in 1 .. Len(fs) : /\ fs[k] \in Frame /\ fs[k].var \in Var
                                    /\ fs[k].start \in Nat /\ fs[k].start < Len(t)
                                    /\ fs[k].start + 1 \in 1 .. Len(t)
                                    /\ fs[k].positive \in BOOLEAN
<1>1. fs \in Seq(Frame)
  BY DEF FramesOK, Frame
<1>2. Len(fs) \in Nat /\ \A k \in 1 .. Len(fs) : fs[k] \in Frame
  BY <1>1
<1>3. \A k \in 1 .. Len(fs) : fs[k].var \in Var /\ fs[k].start \in Nat /\ fs[k].positive \in BOOLEAN
  BY <1>2 DEF Frame
<1>4. \A k \in 1 .. Len(fs) : fs[k].start < Len(t)
  BY DEF FramesOK
<1> QED BY <1>1, <1>2, <1>3, <1>4

(* A literal that follows is added. *)
LEMMA SearchExtends ==
  ASSUME NEW t, NEW u, NEW fs, NEW act, NEW Ms, Len(t) \in Nat, Len(u) = Len(t) + 1,
         \A i \in 1 .. Len(t) : u[i] = t[i],
         FramesOK(fs, t, act), Implied(fs, t, Ms), Refuted(fs, t, Ms),
         \A M \in Ms : Agrees(M, t, Len(t)) => M[u[Len(u)].var] = u[Len(u)].sign
  PROVE  FramesOK(fs, u, act) /\ Implied(fs, u, Ms) /\ Refuted(fs, u, Ms)
<1>1. /\ fs \in Seq(Frame) /\ Len(fs) \in Nat
      /\ \A k \in 1 .. Len(fs) : fs[k].start \in Nat /\ fs[k].start < Len(t) /\ fs[k].start + 1 \in 1 .. Len(t)
  BY FrameFacts
<1>2. \A M : \A n \in 0 .. Len(t) : Agrees(M, u, n) <=> Agrees(M, t, n)
  BY DEF Agrees
<1>3. FramesOK(fs, u, act)
  <2>1. ASSUME NEW k \in 1 .. Len(fs)
        PROVE /\ fs[k].start < Len(u)
              /\ u[fs[k].start + 1] = [var |-> fs[k].var, sign |-> IF fs[k].positive THEN 1 ELSE 0]
              /\ \A w \in act : w < fs[k].var => \E i \in 1 .. fs[k].start : u[i].var = w
    <3>1. /\ t[fs[k].start + 1] = [var |-> fs[k].var, sign |-> IF fs[k].positive THEN 1 ELSE 0]
          /\ \A w \in act : w < fs[k].var => \E i \in 1 .. fs[k].start : t[i].var = w
      BY DEF FramesOK
    <3>2. \A i \in 1 .. fs[k].start : u[i] = t[i]
      BY <1>1
    <3>3. fs[k].start < Len(u)
      BY <1>1
    <3>4. u[fs[k].start + 1] = t[fs[k].start + 1]
      BY <1>1
    <3> QED BY <3>1, <3>2, <3>3, <3>4
  <2> QED BY <2>1 DEF FramesOK
<1>4. Implied(fs, u, Ms)
  <2> SUFFICES ASSUME NEW M \in Ms, NEW n \in 1 .. Len(u),
                      \A k \in 1 .. Len(fs) : fs[k].start + 1 # n, Agrees(M, u, n - 1)
               PROVE  M[u[n].var] = u[n].sign
    BY DEF Implied
  <2>1. Agrees(M, t, n - 1)
    BY <1>2
  <2>2. CASE n \in 1 .. Len(t)
    BY <2>1, <2>2 DEF Implied
  <2>3. CASE n = Len(u)
    BY <2>1, <2>3
  <2> QED BY <2>2, <2>3
<1>5. Refuted(fs, u, Ms)
  BY <1>1, <1>2 DEF Refuted
<1> QED BY <1>3, <1>4, <1>5

(* A decision is made. *)
LEMMA SearchDecides ==
  ASSUME NEW t, NEW u, NEW fs, NEW act, NEW Ms, Len(t) \in Nat, Len(u) = Len(t) + 1,
         \A i \in 1 .. Len(t) : u[i] = t[i], NEW v \in Var, u[Len(u)] = Neg(v),
         \A w \in act : w < v => \E i \in 1 .. Len(t) : t[i].var = w,
         FramesOK(fs, t, act), Implied(fs, t, Ms), Refuted(fs, t, Ms),
         NEW gs, gs = Append(fs, [var |-> v, start |-> Len(t), positive |-> FALSE])
  PROVE  FramesOK(gs, u, act) /\ Implied(gs, u, Ms) /\ Refuted(gs, u, Ms)
<1> DEFINE f == [var |-> v, start |-> Len(t), positive |-> FALSE]
<1>1. /\ fs \in Seq(Frame) /\ Len(fs) \in Nat
      /\ \A k \in 1 .. Len(fs) : fs[k].start \in Nat /\ fs[k].start < Len(t) /\ fs[k].start + 1 \in 1 .. Len(t)
  BY FrameFacts
<1>2. \A M : \A n \in 0 .. Len(t) : Agrees(M, u, n) <=> Agrees(M, t, n)
  BY DEF Agrees
<1>3. f \in Frame /\ f.var = v /\ f.start = Len(t) /\ f.positive = FALSE
  BY DEF Frame
<1>4. /\ gs \in Seq(Frame) /\ Len(gs) = Len(fs) + 1 /\ gs[Len(fs) + 1] = f
      /\ \A k \in 1 .. Len(fs) : gs[k] = fs[k]
  <2> HIDE DEF f
  <2>1. gs = Append(fs, f)
    BY DEF f
  <2> QED BY <1>1, <1>3, <2>1
<1>5. \A k \in 1 .. Len(gs) : k \in 1 .. Len(fs) \/ k = Len(fs) + 1
  BY <1>1, <1>4
<1> HIDE DEF f
<1>6. ASSUME NEW k \in 1 .. Len(gs)
      PROVE /\ gs[k].start < Len(u)
            /\ u[gs[k].start + 1] = [var |-> gs[k].var, sign |-> IF gs[k].positive THEN 1 ELSE 0]
            /\ \A w \in act : w < gs[k].var => \E i \in 1 .. gs[k].start : u[i].var = w
  <2>1. CASE k \in 1 .. Len(fs)
    <3>1. /\ t[fs[k].start + 1] = [var |-> fs[k].var, sign |-> IF fs[k].positive THEN 1 ELSE 0]
          /\ \A w \in act : w < fs[k].var => \E i \in 1 .. fs[k].start : t[i].var = w
      BY <2>1 DEF FramesOK
    <3>2. \A i \in 1 .. fs[k].start : u[i] = t[i]
      BY <1>1, <2>1
    <3> QED BY <1>1, <1>4, <2>1, <3>1, <3>2
  <2>2. CASE k = Len(fs) + 1
    <3>1. gs[k] = f /\ u[f.start + 1] = Neg(v)
      BY <1>3, <1>4, <2>2
    <3>2. Neg(v) = [var |-> f.var, sign |-> IF f.positive THEN 1 ELSE 0]
      BY <1>3 DEF Neg
    <3> QED BY <1>3, <3>1, <3>2
  <2> QED BY <1>5, <2>1, <2>2
<1>7. \A k, m \in 1 .. Len(gs) : k < m => gs[k].start < gs[m].start
  <2> SUFFICES ASSUME NEW k \in 1 .. Len(gs), NEW m \in 1 .. Len(gs), k < m PROVE gs[k].start < gs[m].start
    OBVIOUS
  <2>1. k \in 1 .. Len(fs)
    BY <1>1, <1>4
  <2>2. CASE m \in 1 .. Len(fs)
    BY <1>4, <2>1, <2>2 DEF FramesOK
  <2>3. CASE m = Len(fs) + 1
    BY <1>1, <1>3, <1>4, <2>1, <2>3
  <2> QED BY <1>5, <2>2, <2>3
<1>8. FramesOK(gs, u, act)
  BY <1>4, <1>6, <1>7 DEF FramesOK, Frame
<1>9. Implied(gs, u, Ms)
  <2> SUFFICES ASSUME NEW M \in Ms, NEW n \in 1 .. Len(u),
                      \A k \in 1 .. Len(gs) : gs[k].start + 1 # n, Agrees(M, u, n - 1)
               PROVE  M[u[n].var] = u[n].sign
    BY DEF Implied
  <2>1. Len(fs) + 1 \in 1 .. Len(gs)
    BY <1>1, <1>4
  <2>2. n # Len(t) + 1
    BY <1>3, <1>4, <2>1
  <2>3. n \in 1 .. Len(t) /\ Agrees(M, t, n - 1)
    BY <1>2, <2>2
  <2>4. \A k \in 1 .. Len(fs) : fs[k].start + 1 # n
    BY <1>1, <1>4
  <2> QED BY <2>3, <2>4 DEF Implied
<1>10. Refuted(gs, u, Ms)
  <2> SUFFICES ASSUME NEW M \in Ms, NEW k \in 1 .. Len(gs), gs[k].positive, Agrees(M, u, gs[k].start)
               PROVE  M[gs[k].var] = 1
    BY DEF Refuted
  <2>1. k \in 1 .. Len(fs)
    BY <1>3, <1>4, <1>5
  <2>2. gs[k] = fs[k] /\ Agrees(M, t, fs[k].start)
    BY <1>1, <1>2, <1>4, <2>1
  <2> QED BY <2>1, <2>2 DEF Refuted
<1> QED BY <1>8, <1>9, <1>10

(* The latest decision is refuted on the side it took. *)
Latest(fs, t, n, Ms) ==
  /\ fs \in Seq(Frame) /\ Len(fs) \in Nat \ {0}
  /\ \A k \in 1 .. Len(fs) :
       /\ fs[k] \in Frame /\ fs[k].var \in Var /\ fs[k].positive \in BOOLEAN
       /\ fs[k].start \in Nat /\ fs[k].start < Len(t) /\ fs[k].start + 1 \in 1 .. Len(t)
       /\ k # Len(fs) => fs[k].start < n
  /\ Len(fs) \in 1 .. Len(fs) /\ n < Len(t) /\ n + 1 \in 1 .. Len(t)
  /\ t[n + 1] = [var |-> fs[Len(fs)].var, sign |-> IF fs[Len(fs)].positive THEN 1 ELSE 0]
  /\ \A M \in Ms : Agrees(M, t, n) => M[t[n + 1].var] # t[n + 1].sign

(* No model is left on the trail: the latest decision is turned around, or given *)
(* up, and the models on the side it took are refuted.                           *)
LEMMA LatestDecision ==
  ASSUME NEW t, NEW fs, NEW act, NEW Ms, NEW n \in Nat, Len(t) \in Nat,
         FramesOK(fs, t, act), Implied(fs, t, Ms),
         \A M \in Ms : M \in [Var -> {0, 1}] /\ ~Agrees(M, t, Len(t)),
         Len(fs) \in Nat \ {0}, n = fs[Len(fs)].start
  PROVE  Latest(fs, t, n, Ms)
<1> DEFINE L == Len(fs)
           f == fs[L]
<1>1. /\ fs \in Seq(Frame) /\ L \in Nat \ {0}
      /\ \A k \in 1 .. L : /\ fs[k] \in Frame /\ fs[k].var \in Var /\ fs[k].positive \in BOOLEAN
                           /\ fs[k].start \in Nat /\ fs[k].start < Len(t) /\ fs[k].start + 1 \in 1 .. Len(t)
  BY FrameFacts
<1>2. L \in 1 .. L /\ n < Len(t) /\ n + 1 \in 1 .. Len(t)
      /\ \A k \in 1 .. L : k # L => fs[k].start < n
  <2>1. L \in 1 .. L
    BY <1>1
  <2>2. ASSUME NEW k \in 1 .. L, k # L PROVE fs[k].start < n
    <3>1. k < L
      BY <1>1, <2>2
    <3> QED BY <2>1, <3>1 DEF FramesOK
  <2> QED BY <1>1, <2>1, <2>2
(* A model on the side of the decision would agree with the whole trail. *)
<1>3. ASSUME NEW M \in Ms, Agrees(M, t, n), M[t[n + 1].var] = t[n + 1].sign PROVE FALSE
  <2>1. Agrees(M, t, n + 1)
    <3>1. \A i \in 1 .. n + 1 : i \in 1 .. n \/ i = n + 1
      OBVIOUS
    <3> QED BY <1>3, <3>1 DEF Agrees
  <2>2. ASSUME NEW m \in (n + 1) + 1 .. Len(t), NEW k \in 1 .. L PROVE fs[k].start + 1 # m
    BY <1>1, <1>2
  <2>3. n + 1 \in 0 .. Len(t)
    BY <1>2
  <2>4. Agrees(M, t, Len(t))
    BY <2>1, <2>2, <2>3, Chain
  <2> QED BY <2>4
<1>4. t[n + 1] = [var |-> f.var, sign |-> IF f.positive THEN 1 ELSE 0] /\ f.var \in Var
  BY <1>1, <1>2 DEF FramesOK
<1> QED BY <1>1, <1>2, <1>3, <1>4 DEF Latest

(* The latest decision is turned around: its variable is true, and nothing *)
(* comes after.                                                            *)
TurnedAround(fs, gs, t, u, n) ==
  /\ ~fs[Len(fs)].positive /\ gs = [fs EXCEPT ![Len(fs)].positive = TRUE]
  /\ Len(u) = n + 1 /\ u[n + 1] = Pos(fs[Len(fs)].var) /\ \A i \in 1 .. n : u[i] = t[i]

(* The latest decision, turned around before, is taken off the trail. *)
GivenUp(fs, gs, t, u, n) ==
  /\ fs[Len(fs)].positive /\ gs = SubSeq(fs, 1, Len(fs) - 1)
  /\ Len(u) = n /\ \A i \in 1 .. n : u[i] = t[i]

(* Turning the latest decision around leaves out no model. *)
LEMMA SearchTurns ==
  ASSUME NEW t, NEW fs, NEW act, NEW Ms, NEW n \in Nat, Len(t) \in Nat,
         FramesOK(fs, t, act), Implied(fs, t, Ms), Refuted(fs, t, Ms),
         \A M \in Ms : M \in [Var -> {0, 1}] /\ ~Agrees(M, t, Len(t)),
         Len(fs) \in Nat \ {0}, n = fs[Len(fs)].start,
         NEW gs, NEW u, TurnedAround(fs, gs, t, u, n)
  PROVE  FramesOK(gs, u, act) /\ Implied(gs, u, Ms) /\ Refuted(gs, u, Ms)
<1> DEFINE L == Len(fs)
           f == fs[L]
<1>0. Latest(fs, t, n, Ms)
  BY LatestDecision
<1>1. /\ fs \in Seq(Frame) /\ L \in Nat \ {0}
      /\ \A k \in 1 .. L : /\ fs[k] \in Frame /\ fs[k].var \in Var
                           /\ fs[k].start \in Nat /\ fs[k].start < Len(t) /\ fs[k].start + 1 \in 1 .. Len(t)
  BY <1>0 DEF Latest
<1>2. L \in 1 .. L /\ n < Len(t) /\ n + 1 \in 1 .. Len(t)
      /\ \A k \in 1 .. L : k # L => fs[k].start < n
  BY <1>0 DEF Latest
<1>3. \A M \in Ms : Agrees(M, t, n) => M[t[n + 1].var] # t[n + 1].sign
  BY <1>0 DEF Latest
<1>4. t[n + 1] = [var |-> f.var, sign |-> IF f.positive THEN 1 ELSE 0] /\ f.var \in Var
  BY <1>0 DEF Latest
<1>5. /\ ~f.positive /\ gs = [fs EXCEPT ![L].positive = TRUE]
      /\ Len(u) = n + 1 /\ u[n + 1] = Pos(f.var) /\ \A i \in 1 .. n : u[i] = t[i]
  BY DEF TurnedAround
<1> DEFINE g == [f EXCEPT !.positive = TRUE]
<1>6. g \in Frame /\ g.var = f.var /\ g.start = n /\ g.positive = TRUE
  BY <1>1, <1>2, <1>3, <1>4 DEF Frame
<1>7. gs \in Seq(Frame) /\ Len(gs) = L /\ gs[L] = g /\ \A k \in 1 .. L : k # L => gs[k] = fs[k]
  <2>1. gs = [fs EXCEPT ![L] = g]
    BY <1>5
  <2> HIDE DEF g
  <2> QED BY <1>1, <1>2, <1>3, <1>4, <1>6, <2>1
<1> HIDE DEF g, f
<1>8. \A M : \A m \in 0 .. n : Agrees(M, u, m) <=> Agrees(M, t, m)
  <2>1. \A m \in 0 .. n : \A i \in 1 .. m : i \in 1 .. n
    BY <1>5
  <2>2. \A i \in 1 .. n : u[i] = t[i]
    BY <1>5
  <2> QED BY ONLY <2>1, <2>2 DEF Agrees
<1>9. ASSUME NEW k \in 1 .. L
      PROVE /\ gs[k].start < Len(u) /\ gs[k].start \in 0 .. n
            /\ u[gs[k].start + 1] = [var |-> gs[k].var, sign |-> IF gs[k].positive THEN 1 ELSE 0]
            /\ \A w \in act : w < gs[k].var => \E i \in 1 .. gs[k].start : u[i].var = w
  <2>0. /\ t[fs[k].start + 1] = [var |-> fs[k].var, sign |-> IF fs[k].positive THEN 1 ELSE 0]
        /\ \A w \in act : w < fs[k].var => \E i \in 1 .. fs[k].start : t[i].var = w
    BY DEF FramesOK
  <2>1. CASE k # L
    <3>1. fs[k].start < n /\ fs[k].start \in Nat /\ gs[k] = fs[k]
      BY <1>1, <1>2, <1>3, <1>4, <1>7, <2>1
    <3>2. fs[k].start + 1 \in 1 .. n /\ \A i \in 1 .. fs[k].start : i \in 1 .. n
      BY <3>1
    <3>3. u[fs[k].start + 1] = t[fs[k].start + 1] /\ \A i \in 1 .. fs[k].start : u[i] = t[i]
      BY <1>5, <3>2
    <3>4. gs[k].start < Len(u) /\ gs[k].start \in 0 .. n
      BY <1>5, <3>1
    <3> QED BY ONLY <2>0, <3>1, <3>3, <3>4
  <2>2. CASE k = L
    <3>1. gs[k].start = n /\ gs[k].var = f.var /\ gs[k].positive = TRUE /\ fs[k].start = n /\ fs[k].var = f.var
      BY <1>6, <1>7, <2>2 DEF f
    <3>2. u[n + 1] = [var |-> f.var, sign |-> 1]
      BY <1>5 DEF Pos, f
    <3>3. n < Len(u) /\ n \in 0 .. n
      BY <1>5
    <3>4. Len(u) = n + 1
      BY <1>5
    <3> QED BY ONLY <1>5, <2>0, <3>1, <3>2, <3>3, <3>4
  <2> QED BY <2>1, <2>2
<1>10. \A k, m \in 1 .. L : k < m => gs[k].start < gs[m].start
  <2> SUFFICES ASSUME NEW k \in 1 .. L, NEW m \in 1 .. L, k < m PROVE gs[k].start < gs[m].start
    BY <1>5
  <2>1. k # L /\ fs[k].start < n /\ gs[k].start = fs[k].start
    BY <1>1, <1>2, <1>3, <1>4, <1>7
  <2>2. CASE m = L
    BY <1>6, <1>7, <2>1, <2>2
  <2>3. CASE m # L
    BY <1>7, <2>1, <2>3 DEF FramesOK
  <2> QED BY <2>2, <2>3
<1>11. FramesOK(gs, u, act)
  BY <1>7, <1>9, <1>10 DEF FramesOK, Frame
<1>12. Implied(gs, u, Ms)
  <2> SUFFICES ASSUME NEW M \in Ms, NEW m \in 1 .. Len(u),
                      \A k \in 1 .. Len(gs) : gs[k].start + 1 # m, Agrees(M, u, m - 1)
               PROVE  M[u[m].var] = u[m].sign
    BY DEF Implied
  <2>1. m # n + 1
    BY <1>1, <1>2, <1>3, <1>4, <1>6, <1>7
  <2>2. m \in 1 .. n /\ m \in 1 .. Len(t) /\ Agrees(M, t, m - 1)
    BY <1>2, <1>5, <1>8, <2>1
  <2>3. ASSUME NEW k \in 1 .. L PROVE fs[k].start + 1 # m
    <3>1. CASE k = L
      BY <1>1, <1>2, <1>3, <1>4, <2>1, <3>1
    <3>2. CASE k # L
      BY <1>7, <3>2
    <3> QED BY <3>1, <3>2
  <2>4. M[t[m].var] = t[m].sign
    BY <2>2, <2>3 DEF Implied
  <2> QED BY <1>5, <2>2, <2>4
<1>13. Refuted(gs, u, Ms)
  <2> SUFFICES ASSUME NEW M \in Ms, NEW k \in 1 .. L, gs[k].positive, Agrees(M, u, gs[k].start)
               PROVE  M[gs[k].var] = 1
    BY <1>7 DEF Refuted
  <2>1. Agrees(M, t, gs[k].start)
    BY <1>8, <1>9
  <2>2. CASE k # L
    BY <1>7, <2>1, <2>2 DEF Refuted
  <2>3. CASE k = L
    <3>1. Agrees(M, t, n) /\ gs[k].var = f.var
      BY <1>6, <1>7, <2>1, <2>3
    <3>2. t[n + 1].var = f.var /\ t[n + 1].sign = 0
      BY <1>4, <1>5 DEF f
    <3>3. M[f.var] # 0
      BY <1>1, <1>2, <1>3, <1>4, <3>1, <3>2
    <3>4. M[f.var] \in {0, 1}
      BY <1>4, <1>5 DEF f
    <3> QED BY <3>1, <3>3, <3>4
  <2> QED BY <2>2, <2>3
<1> QED BY <1>11, <1>12, <1>13

(* So does giving it up, and the conflict goes on to the decision before it. *)
LEMMA SearchGivesUp ==
  ASSUME NEW t, NEW fs, NEW act, NEW Ms, NEW n \in Nat, Len(t) \in Nat,
         FramesOK(fs, t, act), Implied(fs, t, Ms), Refuted(fs, t, Ms),
         \A M \in Ms : M \in [Var -> {0, 1}] /\ ~Agrees(M, t, Len(t)),
         Len(fs) \in Nat \ {0}, n = fs[Len(fs)].start,
         NEW gs, NEW u, GivenUp(fs, gs, t, u, n)
  PROVE  /\ FramesOK(gs, u, act) /\ Implied(gs, u, Ms) /\ Refuted(gs, u, Ms)
         /\ \A M \in Ms : ~Agrees(M, u, n)
<1> DEFINE L == Len(fs)
           f == fs[L]
<1>0. Latest(fs, t, n, Ms)
  BY LatestDecision
<1>1. /\ fs \in Seq(Frame) /\ L \in Nat \ {0}
      /\ \A k \in 1 .. L : /\ fs[k] \in Frame /\ fs[k].var \in Var
                           /\ fs[k].start \in Nat /\ fs[k].start < Len(t) /\ fs[k].start + 1 \in 1 .. Len(t)
  BY <1>0 DEF Latest
<1>2. L \in 1 .. L /\ n < Len(t) /\ n + 1 \in 1 .. Len(t)
      /\ \A k \in 1 .. L : k # L => fs[k].start < n
  BY <1>0 DEF Latest
<1>3. \A M \in Ms : Agrees(M, t, n) => M[t[n + 1].var] # t[n + 1].sign
  BY <1>0 DEF Latest
<1>4. t[n + 1] = [var |-> f.var, sign |-> IF f.positive THEN 1 ELSE 0] /\ f.var \in Var
  BY <1>0 DEF Latest
<1>5. f.positive /\ gs = SubSeq(fs, 1, L - 1) /\ Len(u) = n /\ \A i \in 1 .. n : u[i] = t[i]
  BY DEF GivenUp
<1>6. gs \in Seq(Frame) /\ Len(gs) = L - 1 /\ \A k \in 1 .. L - 1 : gs[k] = fs[k] /\ k \in 1 .. L /\ k # L
  <2>1. L - 1 \in Nat /\ \A k \in 1 .. L - 1 : fs[k] \in Frame /\ k \in 1 .. L /\ k # L
    BY <1>1, <1>2, <1>3, <1>4
  <2>2. gs = [k \in 1 .. L - 1 |-> fs[k]]
    BY <1>5, <1>1, <1>2, <1>3, <1>4, <2>1
  <2>3. gs \in [1 .. L - 1 -> Frame]
    BY <2>1, <2>2
  <2> QED BY <2>1, <2>2, <2>3
<1> HIDE DEF f
<1>7. \A M : \A m \in 0 .. n : Agrees(M, u, m) <=> Agrees(M, t, m)
  <2>1. \A m \in 0 .. n : \A i \in 1 .. m : i \in 1 .. n
    BY <1>5
  <2>2. \A i \in 1 .. n : u[i] = t[i]
    BY <1>5
  <2> QED BY ONLY <2>1, <2>2 DEF Agrees
<1>8. ASSUME NEW k \in 1 .. L - 1
      PROVE /\ gs[k].start < Len(u) /\ gs[k].start \in 0 .. n
            /\ u[gs[k].start + 1] = [var |-> gs[k].var, sign |-> IF gs[k].positive THEN 1 ELSE 0]
            /\ \A w \in act : w < gs[k].var => \E i \in 1 .. gs[k].start : u[i].var = w
  <2>0. /\ t[fs[k].start + 1] = [var |-> fs[k].var, sign |-> IF fs[k].positive THEN 1 ELSE 0]
        /\ \A w \in act : w < fs[k].var => \E i \in 1 .. fs[k].start : t[i].var = w
    BY <1>6 DEF FramesOK
  <2>1. fs[k].start < n /\ fs[k].start \in Nat /\ gs[k] = fs[k]
    BY <1>1, <1>2, <1>3, <1>4, <1>6
  <2>2. fs[k].start + 1 \in 1 .. n /\ \A i \in 1 .. fs[k].start : i \in 1 .. n
    BY <2>1
  <2>3. u[fs[k].start + 1] = t[fs[k].start + 1] /\ \A i \in 1 .. fs[k].start : u[i] = t[i]
    BY <1>5, <2>2
  <2>4. gs[k].start < Len(u) /\ gs[k].start \in 0 .. n
    BY <1>5, <2>1
  <2> QED BY ONLY <2>0, <2>1, <2>3, <2>4
<1>9. \A k, m \in 1 .. L - 1 : k < m => gs[k].start < gs[m].start
  BY <1>6 DEF FramesOK
<1>10. FramesOK(gs, u, act)
  BY <1>6, <1>8, <1>9 DEF FramesOK, Frame
<1>11. Implied(gs, u, Ms)
  <2> SUFFICES ASSUME NEW M \in Ms, NEW m \in 1 .. Len(u),
                      \A k \in 1 .. Len(gs) : gs[k].start + 1 # m, Agrees(M, u, m - 1)
               PROVE  M[u[m].var] = u[m].sign
    BY DEF Implied
  <2>1. m \in 1 .. n /\ m \in 1 .. Len(t) /\ Agrees(M, t, m - 1)
    BY <1>5, <1>1, <1>2, <1>3, <1>4, <1>7
  <2>2. ASSUME NEW k \in 1 .. L PROVE fs[k].start + 1 # m
    <3>1. CASE k = L
      BY <1>1, <1>2, <1>3, <1>4, <2>1, <3>1
    <3>2. CASE k # L
      <4>1. k \in 1 .. L - 1
        BY <1>1, <1>2, <1>3, <1>4, <3>2
      <4> QED BY <1>6, <4>1
    <3> QED BY <3>1, <3>2
  <2> QED BY <1>5, <2>1, <2>2 DEF Implied
<1>12. Refuted(gs, u, Ms)
  <2> SUFFICES ASSUME NEW M \in Ms, NEW k \in 1 .. L - 1, gs[k].positive, Agrees(M, u, gs[k].start)
               PROVE  M[gs[k].var] = 1
    BY <1>6 DEF Refuted
  <2>1. Agrees(M, t, gs[k].start)
    BY <1>7, <1>8
  <2>2. k \in 1 .. L /\ gs[k] = fs[k]
    BY <1>6
  <2> QED BY <2>1, <2>2 DEF Refuted
<1>13. ASSUME NEW M \in Ms, Agrees(M, u, n) PROVE FALSE
  <2>1. Agrees(M, t, n)
    BY <1>7, <1>13
  <2>2. M[f.var] = 1
    BY <1>1, <1>2, <1>3, <1>4, <2>1 DEF Refuted, f
  <2>3. t[n + 1].var = f.var /\ t[n + 1].sign = 1
    BY <1>4, <1>5 DEF f
  <2> QED BY <1>1, <1>2, <1>3, <1>4, <2>1, <2>2, <2>3
<1> QED BY <1>10, <1>11, <1>12, <1>13

(* A model on the trail has the values of the assignment. *)
LEMMA OnTrail ==
  ASSUME NEW t, NEW a, TrailOK(t, a), NEW M, Agrees(M, t, Len(t)), NEW v \in Var, a[v] # Unset
  PROVE  M[v] = a[v]
<1>1. PICK i \in 1 .. Len(t) : t[i].var = v
  BY DEF TrailOK
<1> QED BY <1>1 DEF TrailOK, Agrees

(* What a clause that is not satisfied says of a model on the trail.             *)
LEMMA ModelOpens ==
  ASSUME NEW t, NEW a, TrailOK(t, a), NEW M, Agrees(M, t, Len(t)), NEW c,
         \A l \in Literals(c) : l \in Lit, ~Satisfied(c, a), Satisfied(c, M)
  PROVE  \E k \in Open(c, a) : M[c[k].var] = c[k].sign
<1>1. PICK l \in Literals(c) : M[l.var] = l.sign
  BY DEF Satisfied
<1>2. PICK k \in DOMAIN c : l = c[k]
  BY DEF Literals
<1>3. l.var \in Var /\ a[l.var] # l.sign
  BY <1>1 DEF Lit, Satisfied
<1>4. a[l.var] = Unset
  BY <1>1, <1>3, OnTrail
<1> QED BY <1>1, <1>2, <1>4 DEF Open

(* propagate, at a unit clause: a model on the trail takes its one open *)
(* literal.                                                             *)
LEMMA ForceKeeps ==
  ASSUME TrailFits, ClausesOK, SearchInv, QuietInv, ForceUnit
  PROVE  SearchInv' /\ QuietInv' /\ ClausesOK'
<1>1. PICK i \in DOMAIN clauses : /\ Unit(clauses[i], assignment)
                                  /\ \E k \in Open(clauses[i], assignment) :
                                       /\ assignment' = Assigned(assignment, clauses[i][k])
                                       /\ trail' = Trailed(trail, clauses[i][k])
                                  /\ scan' = i + 1 /\ forced' = TRUE
  BY DEF ForceUnit
<1> DEFINE c == clauses[i]
<1>2. PICK k \in Open(c, assignment) : /\ assignment' = Assigned(assignment, c[k])
                                       /\ trail' = Trailed(trail, c[k])
  BY <1>1
<1> DEFINE l == c[k]
<1>3. l \in Literals(c) /\ assignment[l.var] = Unset
  BY <1>2 DEF Open, Literals
<1>4. \A x \in Literals(c) : x \in Lit /\ x.var \in active
  BY DEF ClausesOK
<1>5. ~Satisfied(c, assignment) /\ \A j \in Open(c, assignment) : j = k
  <2>1. Cardinality(Open(c, assignment)) = 1
    BY <1>1 DEF Unit
  <2>2. IsFiniteSet(Open(c, assignment))
    <3>1. IsSequence(c)
      BY DEF ClausesOK
    <3>2. Len(c) \in Nat /\ DOMAIN c = 1 .. Len(c)
      BY <3>1 DEF IsSequence
    <3>3. IsFiniteSet(DOMAIN c)
      BY <3>2, FS_Interval
    <3>4. Open(c, assignment) \subseteq DOMAIN c
      BY DEF Open
    <3> QED BY <3>3, <3>4, FS_Subset
  <2>3. PICK x : Open(c, assignment) = {x}
    BY <2>1, <2>2, FS_Singleton
  <2> QED BY <1>1, <1>2, <2>3 DEF Unit
<1>6. search = "propagate" /\ search' = "propagate" /\ UNCHANGED <<clauses, active, frames>>
  BY DEF ForceUnit
<1>7. /\ TrailOK(trail, assignment) /\ FramesOK(frames, trail, active)
      /\ Implied(frames, trail, Models(clauses)) /\ Refuted(frames, trail, Models(clauses))
  BY <1>6 DEF SearchInv
<1> DEFINE u == Append(trail, l)
<1> HIDE DEF l
<1>8. /\ trail' = u /\ TrailOK(u, assignment') /\ Len(u) = Len(trail) + 1 /\ u[Len(u)] = l
      /\ \A n \in 1 .. Len(trail) : u[n] = trail[n]
  BY <1>2, <1>3, <1>4, <1>7, TrailExtends DEF l
<1>9. Len(trail) \in Nat
  BY <1>7 DEF TrailOK
<1>10. ASSUME NEW M \in Models(clauses), Agrees(M, trail, Len(trail))
       PROVE  M[l.var] = l.sign
  <2>1. Satisfied(c, M)
    BY DEF Models
  <2>2. PICK j \in Open(c, assignment) : M[c[j].var] = c[j].sign
    BY <1>4, <1>5, <1>7, <1>10, <2>1, ModelOpens
  <2> QED BY <1>5, <2>2 DEF l
<1> HIDE DEF c, u
<1>11. FramesOK(frames, u, active) /\ Implied(frames, u, Models(clauses)) /\ Refuted(frames, u, Models(clauses))
  <2>1. \A M \in Models(clauses) : Agrees(M, trail, Len(trail)) => M[u[Len(u)].var] = u[Len(u)].sign
    BY <1>8, <1>10
  <2> QED BY <1>7, <1>8, <1>9, <2>1, SearchExtends
<1>12. SearchInv'
  BY <1>6, <1>8, <1>11 DEF SearchInv
<1>13. QuietInv'
  <2>1. i \in Nat
    BY DEF ClausesOK, IsSequence
  <2> QED BY <1>1, <1>6, <2>1 DEF QuietInv
<1> QED BY <1>6, <1>12, <1>13 DEF ClausesOK

(* propagate, at a clause in conflict: no model is on the trail. *)
LEMMA ConflictKeeps ==
  ASSUME ClausesOK, SearchInv, QuietInv, Conflict
  PROVE  SearchInv' /\ QuietInv'
<1>1. PICK i \in DOMAIN clauses : Conflicting(clauses[i], assignment)
  BY DEF Conflict
<1>2. /\ search = "propagate" /\ search' = "backtrack"
      /\ UNCHANGED <<clauses, active, assignment, trail, frames, scan, forced>>
  BY DEF Conflict
<1>3. TrailOK(trail, assignment)
  BY <1>2 DEF SearchInv
<1>4. ASSUME NEW M \in Models(clauses), Agrees(M, trail, Len(trail)) PROVE FALSE
  <2>1. Satisfied(clauses[i], M)
    BY DEF Models
  <2>2. \A l \in Literals(clauses[i]) : l \in Lit
    BY DEF ClausesOK
  <2>3. Open(clauses[i], assignment) # {}
    BY <1>1, <1>3, <1>4, <2>1, <2>2, ModelOpens DEF Conflicting
  <2> QED BY <1>1, <2>3 DEF Conflicting
<1>5. SearchInv'
  BY <1>2, <1>4 DEF SearchInv
<1>6. QuietInv'
  BY <1>2 DEF QuietInv
<1> QED BY <1>5, <1>6

(* propagate, at the end of a pass that met no clause in conflict. *)
LEMMA PassEndsKeeps ==
  ASSUME ClausesOK, SearchInv, QuietInv, PassEnds
  PROVE  SearchInv' /\ QuietInv'
<1>1. /\ search = "propagate" /\ scan' = 1 /\ forced' = FALSE
      /\ search' = (IF forced THEN "propagate" ELSE "decide")
      /\ UNCHANGED <<clauses, active, assignment, trail, frames>>
  BY DEF PassEnds
<1>2. SearchInv'
  BY <1>1 DEF SearchInv
<1>3. scan \in Nat /\ DOMAIN clauses \subseteq Nat \ {0}
  BY DEF QuietInv, ClausesOK, IsSequence
<1>4. \A i \in DOMAIN clauses : ~(i < 1)
  BY <1>3
<1>5. CASE forced
  <2>1. search' = "propagate"
    BY <1>1, <1>5
  <2>2. \A i \in DOMAIN clauses' : ~(i < scan')
    BY <1>1, <1>4
  <2>3. scan' \in Nat
    BY <1>1
  <2> QED BY <1>2, <2>1, <2>2, <2>3 DEF QuietInv
<1>6. CASE ~forced
  <2>1. ASSUME NEW i \in DOMAIN clauses PROVE ~Conflicting(clauses[i], assignment)
    <3>1. CASE i < scan
      BY <1>1, <1>6, <3>1 DEF QuietInv
    <3>2. CASE i >= scan
      BY <3>2 DEF PassEnds, Pending
    <3> QED BY <1>3, <3>1, <3>2
  <2>2. search' = "decide" /\ scan' = 1 /\ scan' \in Nat /\ ~forced'
    BY <1>1, <1>6
  <2>3. \A i \in DOMAIN clauses' : ~Conflicting(clauses'[i], assignment')
    BY <1>1, <2>1
  <2> QED BY <1>2, <2>2, <2>3 DEF QuietInv
<1> QED BY <1>2, <1>5, <1>6

(* decide: the first variable in use without a value is tried false. *)
LEMMA DecideKeeps ==
  ASSUME TrailFits, ClausesOK, SearchInv, QuietInv, Decide
  PROVE  SearchInv' /\ QuietInv'
<1>1. PICK v \in Var : /\ Branch(v)
                       /\ frames' = Append(frames, [var |-> v, start |-> Len(trail), positive |-> FALSE])
                       /\ assignment' = Assigned(assignment, Neg(v))
                       /\ trail' = Trailed(trail, Neg(v))
  BY DEF Decide
<1>2. search = "decide" /\ search' = "propagate" /\ UNCHANGED <<clauses, active, scan, forced>>
  BY DEF Decide
<1>3. /\ TrailOK(trail, assignment) /\ FramesOK(frames, trail, active)
      /\ Implied(frames, trail, Models(clauses)) /\ Refuted(frames, trail, Models(clauses))
  BY <1>2 DEF SearchInv
<1>4. Neg(v) \in Lit /\ Neg(v).var = v /\ assignment[v] = Unset
  BY <1>1 DEF Neg, Lit, Branch
<1> DEFINE u == Append(trail, Neg(v))
<1>5. /\ trail' = u /\ TrailOK(u, assignment') /\ Len(u) = Len(trail) + 1 /\ u[Len(u)] = Neg(v)
      /\ \A n \in 1 .. Len(trail) : u[n] = trail[n]
  BY <1>1, <1>3, <1>4, TrailExtends
<1>6. Len(trail) \in Nat
  BY <1>3 DEF TrailOK
<1>7. \A w \in active : w < v => \E i \in 1 .. Len(trail) : trail[i].var = w
  BY <1>1, <1>3 DEF Branch, TrailOK, ClausesOK
<1> HIDE DEF u
<1>8. FramesOK(frames', u, active) /\ Implied(frames', u, Models(clauses)) /\ Refuted(frames', u, Models(clauses))
  BY <1>1, <1>3, <1>5, <1>6, <1>7, SearchDecides
<1>9. SearchInv'
  BY <1>2, <1>5, <1>8 DEF SearchInv
<1>10. QuietInv'
  BY <1>2 DEF QuietInv, ClausesOK, IsSequence
<1> QED BY <1>9, <1>10

(* decide, when every variable in use has a value: every clause is satisfied, *)
(* since none is in conflict.                                                 *)
LEMMA AllDecidedKeeps ==
  ASSUME ClausesOK, SearchInv, QuietInv, AllDecided
  PROVE  SearchInv' /\ QuietInv'
<1>1. /\ search = "decide" /\ search' = "sat" /\ ~\E v \in Var : Branch(v)
      /\ UNCHANGED <<clauses, active, assignment, trail, frames, scan, forced>>
  BY DEF AllDecided
<1>2. SearchInv'
  BY <1>1 DEF SearchInv
<1> DEFINE Left == {v \in active : assignment[v] = Unset}
<1>3. Left = {}
  <2> SUFFICES ASSUME Left # {} PROVE FALSE
    OBVIOUS
  <2>0. active \subseteq Var /\ Var \subseteq Nat
    BY DEF ClausesOK, Var
  <2>1. Left \in SUBSET Nat /\ active \subseteq Var /\ Var \subseteq Nat
    BY <2>0
  <2>2. PICK v \in Left : \A w \in Left : v <= w
    <3> HIDE DEF Left
    <3> QED BY <2>1, LeastNat
  <2>3. \A w \in active : w < v => assignment[w] # Unset
    <3> SUFFICES ASSUME NEW w \in active, w < v, assignment[w] = Unset PROVE FALSE
      OBVIOUS
    <3>1. v <= w /\ v \in Nat /\ w \in Nat
      BY <2>1, <2>2
    <3> QED BY <3>1
  <2>4. v \in Var /\ Branch(v)
    BY <2>1, <2>3 DEF Branch
  <2> QED BY <1>1, <2>4
<1>4. ASSUME NEW i \in DOMAIN clauses PROVE Satisfied(clauses[i], assignment)
  <2>1. Open(clauses[i], assignment) = {}
    BY <1>3 DEF Open, ClausesOK, Literals
  <2>2. ~Conflicting(clauses[i], assignment)
    BY <1>1 DEF QuietInv
  <2> QED BY <2>1, <2>2 DEF Conflicting
<1>5. QuietInv'
  BY <1>1, <1>3, <1>4 DEF QuietInv
<1> QED BY <1>2, <1>5

(* backtrack, when no decision is left: there is no model. *)
LEMMA RefuteKeeps ==
  ASSUME ClausesOK, SearchInv, QuietInv, Refute
  PROVE  SearchInv' /\ QuietInv'
<1>1. /\ search = "backtrack" /\ frames = <<>> /\ search' = "unsat"
      /\ UNCHANGED <<clauses, active, assignment, trail, frames, scan, forced>>
  BY DEF Refute
<1>2. /\ TrailOK(trail, assignment) /\ Implied(frames, trail, Models(clauses))
      /\ \A M \in Models(clauses) : ~Agrees(M, trail, Len(trail))
  BY <1>1 DEF SearchInv
<1>3. ASSUME NEW M \in Models(clauses) PROVE FALSE
  <2>1. Len(trail) \in Nat /\ 0 \in 0 .. Len(trail)
    BY <1>2 DEF TrailOK
  <2>2. Agrees(M, trail, 0) /\ \A m \in 0 + 1 .. Len(trail) : \A k \in 1 .. Len(frames) : frames[k].start + 1 # m
    BY <1>1 DEF Agrees
  <2>3. Agrees(M, trail, Len(trail))
    BY <1>2, <2>1, <2>2, Chain
  <2> QED BY <1>2, <2>3
<1>4. Models(clauses) = {}
  BY <1>3
<1>5. SearchInv'
  BY <1>1, <1>4 DEF SearchInv
<1>6. QuietInv'
  BY <1>1 DEF QuietInv
<1> QED BY <1>5, <1>6

(* backtrack to the latest decision: turned around, or given up. *)
LEMMA TurnAroundKeeps ==
  ASSUME TrailFits, ClausesOK, SearchInv, QuietInv, TurnAround
  PROVE  SearchInv' /\ QuietInv'
<1> DEFINE L == Len(frames)
           f == frames[L]
           n == f.start
           kept == SubSeq(trail, 1, n)
           Ms == Models(clauses)
<1>1. /\ search = "backtrack" /\ frames # <<>> /\ scan' = 1 /\ forced' = FALSE /\ UNCHANGED <<clauses, active>>
      /\ IF ~f.positive
         THEN /\ frames' = [frames EXCEPT ![L].positive = TRUE]
              /\ assignment' = Assigned(Unwound(n), Pos(f.var))
              /\ trail' = Trailed(kept, Pos(f.var))
              /\ search' = "propagate"
         ELSE /\ frames' = SubSeq(frames, 1, L - 1)
              /\ assignment' = Unwound(n)
              /\ trail' = kept
              /\ UNCHANGED search
  BY DEF TurnAround
<1>2. /\ TrailOK(trail, assignment) /\ FramesOK(frames, trail, active)
      /\ Implied(frames, trail, Ms) /\ Refuted(frames, trail, Ms)
      /\ \A M \in Ms : ~Agrees(M, trail, Len(trail))
  BY <1>1 DEF SearchInv
<1>3. Len(trail) \in Nat
  BY <1>2 DEF TrailOK
<1>4. /\ L \in Nat \ {0} /\ f \in Frame /\ f.var \in Var /\ n \in Nat /\ n < Len(trail)
      /\ f.positive \in BOOLEAN
  <2>1. frames \in Seq(Frame) /\ L \in Nat
        /\ \A k \in 1 .. Len(frames) : /\ frames[k] \in Frame /\ frames[k].var \in Var /\ frames[k].start \in Nat
                                       /\ frames[k].start < Len(trail) /\ frames[k].positive \in BOOLEAN
    BY <1>2, <1>3, FrameFacts
  <2>2. L # 0
    <3> SUFFICES ASSUME L = 0 PROVE FALSE
      OBVIOUS
    <3> QED BY <1>1, <2>1
  <2>3. L \in 1 .. Len(frames)
    BY <2>1, <2>2
  <2> QED BY <2>1, <2>2, <2>3
<1>5. n \in 0 .. Len(trail)
  BY <1>3, <1>4
<1>6. /\ TrailOK(kept, Unset2(trail, assignment, n)) /\ Len(kept) = n
      /\ \A i \in 1 .. n : kept[i] = trail[i]
      /\ \A i \in n + 1 .. Len(trail) : Unset2(trail, assignment, n)[trail[i].var] = Unset
  BY <1>2, <1>5, TrailCut
<1>7. Unwound(n) = Unset2(trail, assignment, n)
  BY DEF Unwound, Unset2
<1>8. trail[n + 1].var = f.var /\ n + 1 \in n + 1 .. Len(trail)
  <2>1. L \in 1 .. Len(frames)
    BY <1>4
  <2>2. trail[n + 1] = [var |-> f.var, sign |-> IF f.positive THEN 1 ELSE 0]
    BY <1>2, <2>1 DEF FramesOK
  <2> QED BY <1>3, <1>4, <2>2
<1>9. \A M \in Ms : M \in [Var -> {0, 1}] /\ ~Agrees(M, trail, Len(trail))
  BY <1>2 DEF Models
<1> HIDE DEF n, f, kept, Ms
<1>10. CASE ~f.positive
  <2> DEFINE u == Append(kept, Pos(f.var))
  <2>1. Pos(f.var) \in Lit /\ Unset2(trail, assignment, n)[Pos(f.var).var] = Unset
    BY <1>4, <1>6, <1>8 DEF Pos, Lit
  <2>2. /\ trail' = u /\ TrailOK(u, assignment') /\ Len(u) = n + 1 /\ u[n + 1] = Pos(f.var)
        /\ \A i \in 1 .. n : u[i] = kept[i]
    BY <1>1, <1>6, <1>7, <1>10, <2>1, TrailExtends
  <2> HIDE DEF u
  <2>3. \A i \in 1 .. n : u[i] = trail[i]
    BY <1>6, <2>2
  <2>4. FramesOK(frames', u, active) /\ Implied(frames', u, Ms) /\ Refuted(frames', u, Ms)
    <3>1. /\ f = frames[Len(frames)] /\ n = frames[Len(frames)].start /\ Len(frames) \in Nat \ {0}
          /\ frames' = [frames EXCEPT ![Len(frames)].positive = TRUE]
      BY <1>1, <1>4, <1>10 DEF f, n
    <3>2. u[n + 1] = Pos(frames[Len(frames)].var) /\ ~frames[Len(frames)].positive
      BY <1>10, <2>2, <3>1
    <3> HIDE DEF L
    <3>3. TurnedAround(frames, frames', trail, u, n)
      BY <2>2, <2>3, <3>1, <3>2 DEF TurnedAround
    <3> QED BY ONLY <1>2, <1>3, <1>4, <1>9, <3>1, <3>3, SearchTurns
  <2>5. SearchInv'
    BY <1>1, <1>10, <2>2, <2>4 DEF SearchInv, Ms
  <2>6. QuietInv'
    BY <1>1, <1>10 DEF QuietInv, ClausesOK, IsSequence
  <2> QED BY <2>5, <2>6
<1>11. CASE f.positive
  <2>1. /\ frames' = SubSeq(frames, 1, L - 1) /\ assignment' = Unwound(n)
        /\ trail' = kept /\ search' = "backtrack"
    BY <1>1, <1>11
  <2>2. /\ FramesOK(frames', kept, active) /\ Implied(frames', kept, Ms) /\ Refuted(frames', kept, Ms)
        /\ \A M \in Ms : ~Agrees(M, kept, n)
    <3>1. /\ n = frames[Len(frames)].start /\ Len(frames) \in Nat \ {0} /\ frames[Len(frames)].positive
          /\ frames' = SubSeq(frames, 1, Len(frames) - 1)
      BY <1>4, <1>11, <2>1 DEF f, n
    <3> HIDE DEF L
    <3>3. GivenUp(frames, frames', trail, kept, n)
      BY <1>6, <3>1 DEF GivenUp
    <3> QED BY ONLY <1>2, <1>3, <1>4, <1>9, <3>1, <3>3, SearchGivesUp
  <2>3. SearchInv'
    BY <1>1, <1>6, <1>7, <2>1, <2>2 DEF SearchInv, Ms
  <2>4. QuietInv'
    BY <1>1, <2>1 DEF QuietInv
  <2> QED BY <2>3, <2>4
<1> QED BY <1>10, <1>11

(* The search decides by the least model: it has found one, or there is none.    *)
LEMMA SearchKeeps ==
  ASSUME TrailFits, ClausesOK, SearchInv, QuietInv, SearchStep
  PROVE  SearchInv' /\ QuietInv' /\ ClausesOK'
<1>1. UNCHANGED <<clauses, active>>
  BY DEF SearchStep, ForceUnit, Conflict, PassEnds, Decide, AllDecided, TurnAround, Refute
<1>2. ClausesOK'
  BY <1>1 DEF ClausesOK
<1> QED BY <1>2, ForceKeeps, ConflictKeeps, PassEndsKeeps, DecideKeeps, AllDecidedKeeps, TurnAroundKeeps,
           RefuteKeeps DEF SearchStep

-----------------------------------------------------------------------------
(***************************************************************************)
(* The constraint builder: a call adds all its clauses or none.            *)
(***************************************************************************)

(* Clauses about the first n variables. *)
Within(cs, n) ==
  /\ IsSequence(cs)
  /\ \A i \in DOMAIN cs : IsSequence(cs[i]) /\ \A l \in Literals(cs[i]) : l \in Lit /\ l.var <= n

(* The templates of a call: lists of signed pairs. *)
Template(q) ==
  /\ IsSequence(q)
  /\ \A i \in DOMAIN q : IsSequence(q[i]) /\ \A n \in DOMAIN q[i] : q[i][n].sign \in {0, 1}

(* A table that has grown from what it was. *)
GrownFrom(p, s) == IsSequence(p) /\ Len(p) <= Len(s) /\ \A i \in 1 .. Len(p) : s[i] = p[i]

(* The fields of a call of the constraint builder. *)
IsCall(k) ==
  k = [todo |-> k.todo, running |-> k.running, registry |-> k.registry, clauses |-> k.clauses,
       failed |-> k.failed]

(* The tables of the constraint builder: the clauses are about numbered     *)
(* pairs, the variables in use are those of the clauses, and during a call  *)
(* both tables have grown from what the call found, which is what a failing *)
(* call returns them to.                                                    *)
BuilderInv ==
  /\ IsCall(call) /\ call.running \in BOOLEAN /\ call.failed \in BOOLEAN
  /\ client \in {"service", "builder"} /\ (client = "service" => ~call.running)
  /\ client = "builder" =>
       /\ IsSequence(registry) /\ Len(registry) <= MaxPackages
       /\ Within(clauses, Len(registry)) /\ active = VarsOf(clauses)
  /\ call.running =>
       /\ search = "idle"
       /\ GrownFrom(call.registry, registry) /\ GrownFrom(call.clauses, clauses)
       /\ Within(call.clauses, Len(call.registry)) /\ Template(call.todo)

(* A table cut back to a length it had is the table it was. *)
LEMMA Cut ==
  ASSUME NEW p, NEW s, IsSequence(s), GrownFrom(p, s)
  PROVE  SubSeq(s, 1, Len(p)) = p
<1> DEFINE R == Range(s)
<1>1. s \in Seq(R) /\ Len(s) \in Nat /\ DOMAIN s = 1 .. Len(s)
  BY DEF IsSequence
<1>2. Len(p) \in Nat /\ p = [i \in 1 .. Len(p) |-> p[i]]
  BY DEF GrownFrom, IsSequence
<1>3. \A i \in 1 .. Len(p) : i \in 1 .. Len(s) /\ s[i] = p[i]
  BY <1>1, <1>2 DEF GrownFrom
<1>4. SubSeq(s, 1, Len(p)) = [i \in 1 .. Len(p) |-> s[i]]
  BY <1>1, <1>2
<1> QED BY <1>2, <1>3, <1>4

(* Numbering the pairs of a clause. *)
LEMMA PairsNumbered ==
  ASSUME IsSequence(registry), NEW t, IsSequence(t)
  PROVE  /\ IsSequence(NewPairs(t)) /\ IsSequence(registry \o NewPairs(t))
         /\ GrownFrom(registry, registry \o NewPairs(t))
         /\ \A i \in DOMAIN t : IdOf(registry \o NewPairs(t), t[i].pair) \in 1 .. Len(registry \o NewPairs(t))
<1> DEFINE F == {i \in DOMAIN t : ~Numbered(t[i].pair) /\ \A j \in 1 .. i - 1 : t[j].pair # t[i].pair}
           at == Listed(F, <)
           all == registry \o NewPairs(t)
<1>1. Len(t) \in Nat /\ DOMAIN t = 1 .. Len(t)
  BY DEF IsSequence
<1>2. F \in SUBSET Int /\ IsFiniteSet(F)
  <2>1. F \subseteq DOMAIN t /\ F \in SUBSET Int
    BY <1>1
  <2>2. IsFiniteSet(DOMAIN t)
    BY <1>1, FS_Interval
  <2> HIDE DEF F
  <2> QED BY <2>1, <2>2, FS_Subset
<1>3. NewPairs(t) = [k \in 1 .. Cardinality(F) |-> t[at[k]].pair]
  BY DEF NewPairs, Listed
<1> HIDE DEF F
<1>4. Lists(at, F)
  BY <1>2, NumbersListed
<1> HIDE DEF at
<1>5. Cardinality(F) \in Nat /\ DOMAIN at = 1 .. Cardinality(F) /\ Range(at) = F
  BY <1>2, <1>4, ListsIsSequence
<1>6. IsSequence(NewPairs(t))
  BY <1>3, <1>5, MappedSequence
<1>7. IsSequence(all) /\ Range(all) = Range(registry) \cup Range(NewPairs(t))
      /\ Len(all) = Len(registry) + Len(NewPairs(t))
  BY <1>6, JoinedSequence
<1>8. ASSUME NEW i \in DOMAIN t PROVE t[i].pair \in Range(all)
  <2>1. CASE Numbered(t[i].pair)
    BY <1>7, <2>1 DEF Numbered, Range
  <2>2. CASE ~Numbered(t[i].pair)
    <3> DEFINE J == {j \in DOMAIN t : t[j].pair = t[i].pair}
    <3>1. J \in SUBSET Nat /\ J # {}
      BY <1>1
    <3>2. PICK j \in J : \A m \in J : j <= m
      BY <3>1, LeastNat
    <3>3. j \in DOMAIN t /\ t[j].pair = t[i].pair /\ j \in 1 .. Len(t)
      BY <1>1
    <3>4. ASSUME NEW m \in 1 .. j - 1 PROVE t[m].pair # t[j].pair
      <4>1. m \in DOMAIN t /\ ~(j <= m)
        BY <1>1, <3>3
      <4> QED BY <3>2, <3>3, <4>1
    <3>5. j \in F
      BY <2>2, <3>3, <3>4 DEF F
    <3>6. PICK k \in DOMAIN at : at[k] = j
      BY <1>5, <3>5 DEF Range
    <3>7. NewPairs(t)[k] = t[i].pair /\ k \in DOMAIN NewPairs(t)
      BY <1>3, <1>5, <3>3, <3>6
    <3>8. t[i].pair \in Range(NewPairs(t))
      BY <3>7 DEF Range
    <3> QED BY <1>7, <3>8
  <2> QED BY <2>1, <2>2
<1>9. \A i \in 1 .. Len(registry) : all[i] = registry[i]
  BY <1>6 DEF IsSequence
<1>10. GrownFrom(registry, all)
  BY <1>6, <1>7, <1>9 DEF GrownFrom, IsSequence
<1>11. DOMAIN all = 1 .. Len(all)
  BY <1>7 DEF IsSequence
<1> HIDE DEF all
<1>12. \A i \in DOMAIN t : IdOf(all, t[i].pair) \in 1 .. Len(all)
  BY <1>8, <1>11 DEF IdOf, Range
<1> QED BY <1>6, <1>7, <1>10, <1>12 DEF all

(* A sequence has a length and its places are counted from one. *)
LEMMA Indexed ==
  ASSUME NEW s, IsSequence(s)
  PROVE  Len(s) \in Nat /\ DOMAIN s = 1 .. Len(s)
BY DEF IsSequence

(* Sequences of one entry, and of two. *)
LEMMA OneOrTwo ==
  /\ \A x : IsSequence(<<x>>) /\ DOMAIN <<x>> = {1} /\ <<x>>[1] = x
  /\ \A x, y : IsSequence(<<x, y>>) /\ DOMAIN <<x, y>> = {1, 2} /\ <<x, y>>[1] = x /\ <<x, y>>[2] = y
<1>1. ASSUME NEW x PROVE IsSequence(<<x>>) /\ DOMAIN <<x>> = {1} /\ <<x>>[1] = x
  <2> DEFINE s == <<x>>
  <2>1. DOMAIN s = 1 .. 1 /\ s = [n \in 1 .. 1 |-> s[n]]
    OBVIOUS
  <2>2. IsSequence(s)
    <3> HIDE DEF s
    <3> QED BY <2>1, MappedSequence
  <2> QED BY <2>2
<1>2. ASSUME NEW x, NEW y
      PROVE IsSequence(<<x, y>>) /\ DOMAIN <<x, y>> = {1, 2} /\ <<x, y>>[1] = x /\ <<x, y>>[2] = y
  <2> DEFINE s == <<x, y>>
  <2>1. DOMAIN s = 1 .. 2 /\ s = [n \in 1 .. 2 |-> s[n]]
    OBVIOUS
  <2>2. IsSequence(s)
    <3> HIDE DEF s
    <3> QED BY <2>1, MappedSequence
  <2> QED BY <2>2
<1> QED BY <1>1, <1>2

(* The pairs of an at_most_one are finitely many. *)
LEMMA TwosFinite == ASSUME NEW n \in Nat PROVE Cardinality(Twos(n)) \in Nat
<1>1. IsFiniteSet(1 .. n) /\ Cardinality(1 .. n) = n
  BY FS_Interval
<1>2. IsFiniteSet((1 .. n) \X (1 .. n))
  BY <1>1, FS_Product
<1>3. Twos(n) \subseteq (1 .. n) \X (1 .. n)
  BY DEF Twos
<1> QED BY <1>2, <1>3, FS_Subset, FS_CardinalityType

(* A template of two literals. *)
LEMMA TwoTerms ==
  ASSUME NEW q, NEW x, NEW y, q = <<x, y>>, x.sign \in {0, 1}, y.sign \in {0, 1}
  PROVE  IsSequence(q) /\ \A m \in DOMAIN q : q[m].sign \in {0, 1}
<1>1. IsSequence(q)
  BY OneOrTwo
<1>2. DOMAIN q = {1, 2} /\ q[1] = x /\ q[2] = y
  OBVIOUS
<1> QED BY <1>1, <1>2

(* Every call of the builder is made of templates. *)
LEMMA TemplatesTyped ==
  ASSUME NEW o \in Ops
  PROVE  Template(Templates(o))
<1>0. o.op \in {"require", "dependency", "conflict", "at most one"} /\ IsSequence(o.versions)
  BY ResolutionAssumption
<1>1. Len(o.versions) \in Nat /\ DOMAIN o.versions = 1 .. Len(o.versions)
  BY <1>0, Indexed
<1>2. \A p, s : s \in {0, 1} => Term(p, s).sign \in {0, 1}
  BY DEF Term
<1>3. \A x : IsSequence(<<x>>) /\ DOMAIN <<x>> = {1} /\ <<x>>[1] = x
  BY OneOrTwo
<1>4. \A x, y : IsSequence(<<x, y>>) /\ DOMAIN <<x, y>> = {1, 2} /\ <<x, y>>[1] = x /\ <<x, y>>[2] = y
  BY OneOrTwo
<1>5. CASE o.op = "require"
  BY <1>2, <1>3, <1>5 DEF Templates, Required, Template
<1>6. CASE o.op = "dependency"
  <2> DEFINE n == Len(o.versions)
             one == <<Term(Pair(o.a, o.va), 0)>>
             rest == [i \in 1 .. n |-> Term(Pair(o.b, o.versions[n + 1 - i]), 1)]
  <2>1. IsSequence(one) /\ \A x \in Range(one) : x.sign \in {0, 1}
    <3>1. IsSequence(one)
      BY <1>3
    <3>2. \A x \in Range(one) : x = Term(Pair(o.a, o.va), 0)
      BY <1>3 DEF Range
    <3> QED BY <1>2, <3>1, <3>2
  <2>2. IsSequence(rest)
    BY <1>1, MappedSequence
  <2>3. \A x \in Range(rest) : x.sign \in {0, 1}
    BY <1>2 DEF Range
  <2> HIDE DEF one, rest
  <2>4. IsSequence(one \o rest) /\ Range(one \o rest) = Range(one) \cup Range(rest)
    BY <2>1, <2>2, JoinedSequence
  <2>5. \A i \in DOMAIN (one \o rest) : (one \o rest)[i].sign \in {0, 1}
    BY <2>1, <2>3, <2>4 DEF Range
  <2>6. Templates(o) = <<one \o rest>>
    BY <1>6 DEF Templates, Dependency, one, rest
  <2> DEFINE x == one \o rest
  <2>7. IsSequence(x) /\ \A i \in DOMAIN x : x[i].sign \in {0, 1}
    BY <2>4, <2>5
  <2>8. Templates(o) = <<x>>
    BY <2>6
  <2> HIDE DEF x
  <2>9. IsSequence(<<x>>) /\ DOMAIN <<x>> = {1} /\ <<x>>[1] = x
    BY <1>3
  <2> QED BY <2>7, <2>8, <2>9 DEF Template
<1>7. CASE o.op = "conflict"
  BY <1>2, <1>3, <1>4, <1>7 DEF Templates, Excluded, Template
<1>8. CASE o.op = "at most one"
  <2> DEFINE n == Len(o.versions)
             K == Cardinality(Twos(n))
             twos == [k \in 1 .. K |-> CHOOSE p \in Twos(n) : Place(p, n) = k]
             q == [k \in 1 .. K |->
                     <<Term(Pair(o.a, o.versions[twos[k][1]]), 0), Term(Pair(o.a, o.versions[twos[k][2]]), 0)>>]
  <2>1. Templates(o) = q
    BY <1>8 DEF Templates, AtMostOne
  <2>2. K \in Nat
    BY <1>1, TwosFinite
  <2> HIDE DEF K, twos
  <2>3. IsSequence(q)
    BY <2>2, MappedSequence
  <2>4. ASSUME NEW k \in DOMAIN q
        PROVE  IsSequence(q[k]) /\ \A m \in DOMAIN q[k] : q[k][m].sign \in {0, 1}
    <3> DEFINE x == Term(Pair(o.a, o.versions[twos[k][1]]), 0)
               y == Term(Pair(o.a, o.versions[twos[k][2]]), 0)
    <3>1. q[k] = <<x, y>> /\ x.sign = 0 /\ y.sign = 0
      BY DEF Term
    <3> HIDE DEF x, y, q
    <3> QED BY <3>1, TwoTerms
  <2> QED BY <2>1, <2>3, <2>4 DEF Template
<1> QED BY <1>0, <1>5, <1>6, <1>7, <1>8

(* A sequence with one more entry. *)
LEMMA Appended ==
  ASSUME NEW s, IsSequence(s), NEW x
  PROVE  /\ IsSequence(Append(s, x)) /\ Len(Append(s, x)) = Len(s) + 1
         /\ DOMAIN Append(s, x) = 1 .. Len(s) + 1
         /\ Append(s, x)[Len(s) + 1] = x /\ \A i \in 1 .. Len(s) : Append(s, x)[i] = s[i]
         /\ Range(Append(s, x)) = Range(s) \cup {x} /\ GrownFrom(s, Append(s, x))
<1> DEFINE R == Range(s) \cup {x}
           a == Append(s, x)
<1>1. s \in Seq(R) /\ x \in R
  <2>1. Range(s) \subseteq R /\ s \in Seq(Range(s))
    BY DEF IsSequence
  <2> HIDE DEF R
  <2>2. s \in Seq(R)
    BY <2>1
  <2> QED BY <2>2 DEF R
<1>2. Len(s) \in Nat /\ DOMAIN s = 1 .. Len(s)
  BY Indexed
<1> HIDE DEF R
<1>3. a \in Seq(R) /\ Len(a) = Len(s) + 1 /\ DOMAIN a = 1 .. Len(s) + 1
      /\ a[Len(s) + 1] = x /\ \A i \in 1 .. Len(s) : a[i] = s[i]
  BY <1>1, <1>2
<1> HIDE DEF a
<1>4. \A i \in 1 .. Len(s) + 1 : i \in 1 .. Len(s) \/ i = Len(s) + 1
  BY <1>2
<1>5. \A y \in Range(s) : \E i \in 1 .. Len(s) : y = s[i] /\ i \in 1 .. Len(s) + 1
  BY <1>2 DEF Range
<1>6. Range(a) = Range(s) \cup {x}
  <2>1. ASSUME NEW y \in Range(a) PROVE y \in Range(s) \cup {x}
    BY <1>2, <1>3, <1>4 DEF Range
  <2>2. ASSUME NEW y \in Range(s) \cup {x} PROVE y \in Range(a)
    <3>1. \A i \in DOMAIN a : a[i] \in Range(a)
      BY DEF Range
    <3>2. Len(s) + 1 \in 1 .. Len(s) + 1
      BY <1>2
    <3> QED BY <1>3, <1>5, <3>1, <3>2
  <2> QED BY <2>1, <2>2
<1>7. IsSequence(a)
  BY <1>3, <1>6 DEF IsSequence, R
<1>8. GrownFrom(s, a)
  BY <1>2, <1>3 DEF GrownFrom
<1> QED BY <1>3, <1>6, <1>7, <1>8 DEF a

(* A table that has grown twice has grown. *)
LEMMA GrownOn ==
  ASSUME NEW p, NEW s, NEW u, GrownFrom(p, s), GrownFrom(s, u), Len(u) \in Nat
  PROVE  GrownFrom(p, u)
<1>1. Len(p) \in Nat /\ Len(s) \in Nat /\ Len(p) <= Len(s) /\ Len(s) <= Len(u)
  BY Indexed DEF GrownFrom
<1>2. \A i \in 1 .. Len(p) : i \in 1 .. Len(s)
  BY <1>1
<1> QED BY <1>1, <1>2 DEF GrownFrom

(* Clauses about n variables are about more. *)
LEMMA WithinMore ==
  ASSUME NEW cs, NEW n \in Nat, NEW m \in Nat, n <= m, Within(cs, n)
  PROVE  Within(cs, m)
<1>1. \A l \in Lit : l.var \in Int
  BY DEF Lit, Var
<1> QED BY <1>1 DEF Within

(* One more clause. *)
LEMMA WithinAppended ==
  ASSUME NEW cs, NEW n \in Nat, Within(cs, n), NEW c, IsSequence(c),
         \A l \in Literals(c) : l \in Lit /\ l.var <= n
  PROVE  Within(Append(cs, c), n) /\ VarsOf(Append(cs, c)) = VarsOf(cs) \cup VarsOf(<<c>>)
<1> DEFINE a == Append(cs, c)
<1>1. Len(cs) \in Nat /\ DOMAIN cs = 1 .. Len(cs) /\ IsSequence(cs)
  BY Indexed DEF Within
<1>2. /\ IsSequence(a) /\ DOMAIN a = 1 .. Len(cs) + 1 /\ a[Len(cs) + 1] = c
      /\ \A i \in 1 .. Len(cs) : a[i] = cs[i]
  BY <1>1, Appended
<1>3. \A i \in DOMAIN a : (i \in DOMAIN cs /\ a[i] = cs[i]) \/ a[i] = c
  BY <1>1, <1>2
<1> HIDE DEF a
<1>4. Within(a, n)
  BY <1>2, <1>3 DEF Within
<1>5. \A i \in DOMAIN cs : i \in DOMAIN a /\ a[i] = cs[i]
  BY <1>1, <1>2
<1>6. Len(cs) + 1 \in DOMAIN a
  BY <1>1, <1>2
<1>7. DOMAIN <<c>> = {1} /\ <<c>>[1] = c
  OBVIOUS
<1>8. \A v : v \in VarsOf(a) <=> \E i \in DOMAIN a : \E l \in Literals(a[i]) : v = l.var
  BY DEF VarsOf
<1>9. \A v : v \in VarsOf(cs) <=> \E i \in DOMAIN cs : \E l \in Literals(cs[i]) : v = l.var
  BY DEF VarsOf
<1>10. \A v : v \in VarsOf(<<c>>) <=> \E l \in Literals(c) : v = l.var
  BY <1>7 DEF VarsOf
<1>11. VarsOf(a) = VarsOf(cs) \cup VarsOf(<<c>>)
  BY <1>2, <1>3, <1>5, <1>6, <1>8, <1>9, <1>10
<1> QED BY <1>4, <1>11 DEF a

(* A table that has grown, cut back to no less than it was. *)
LEMMA CutAt ==
  ASSUME NEW s, NEW u, IsSequence(s), IsSequence(u), GrownFrom(s, u), NEW n \in Nat, Len(s) <= n, n <= Len(u)
  PROVE  IsSequence(SubSeq(u, 1, n)) /\ Len(SubSeq(u, 1, n)) = n /\ GrownFrom(s, SubSeq(u, 1, n))
<1> DEFINE c == SubSeq(u, 1, n)
<1>1. Len(s) \in Nat /\ Len(u) \in Nat /\ DOMAIN u = 1 .. Len(u)
  BY Indexed
<1>2. c = [i \in 1 .. n |-> u[i]] /\ Len(c) = n
  BY <1>1
<1> HIDE DEF c
<1>3. IsSequence(c)
  BY <1>2, MappedSequence
<1>4. \A i \in 1 .. Len(s) : i \in 1 .. n /\ c[i] = s[i]
  BY <1>1, <1>2 DEF GrownFrom
<1> QED BY <1>2, <1>3, <1>4 DEF c, GrownFrom

(* The variables of clauses about numbered pairs are variables of the solver. *)
LEMMA VarsWithin ==
  ASSUME NEW cs, NEW n \in Nat, Within(cs, n), n <= MaxPackages
  PROVE  VarsOf(cs) \subseteq Var
BY DEF Within, VarsOf, Lit

(* The clauses of the builder are clauses the solver can take. *)
LEMMA BuilderTyped ==
  ASSUME BuilderInv, client = "builder"
  PROVE  ClausesOK
<1>1. IsSequence(registry) /\ Len(registry) <= MaxPackages /\ Within(clauses, Len(registry))
      /\ active = VarsOf(clauses)
  BY DEF BuilderInv
<1>2. Len(registry) \in Nat
  BY <1>1, Indexed
<1>3. active \subseteq Var
  BY <1>1, <1>2, VarsWithin
<1>4. \A i \in DOMAIN clauses : \A l \in Literals(clauses[i]) : l.var \in active
  BY <1>1 DEF VarsOf
<1> QED BY <1>1, <1>3, <1>4 DEF ClausesOK, Within

(* A call begins: checkpoint notes the lengths of the tables. *)
LEMMA BeginCallKeeps ==
  ASSUME BuilderInv, client = "builder", NEW o \in Ops, BeginCall(o), client' = client
  PROVE  BuilderInv'
<1>1. /\ call' = [todo |-> Templates(o), running |-> TRUE, failed |-> FALSE,
                  registry |-> registry, clauses |-> clauses]
      /\ search' = "idle" /\ UNCHANGED <<clauses, active, registry>>
  BY DEF BeginCall
<1>2. Template(Templates(o))
  BY TemplatesTyped
<1>3. IsSequence(registry) /\ Within(clauses, Len(registry))
  BY DEF BuilderInv
<1>4. ASSUME NEW s, IsSequence(s) PROVE GrownFrom(s, s)
  <2>1. Len(s) \in Nat
    BY <1>4, Indexed
  <2> QED BY <1>4, <2>1 DEF GrownFrom
<1>5. GrownFrom(registry, registry) /\ GrownFrom(clauses, clauses)
  BY <1>3, <1>4 DEF Within
<1>6. IsCall(call')
  BY <1>1 DEF IsCall
<1> QED BY <1>1, <1>2, <1>3, <1>5, <1>6 DEF BuilderInv

(* add_clause numbers the pairs it meets first and appends its clause, and *)
(* fails at a limit of either table.                                       *)
LEMMA AddConstraintKeeps ==
  ASSUME BuilderInv, client = "builder", AddConstraint, client' = client
  PROVE  BuilderInv'
<1> DEFINE t == Head(call.todo)
           all == registry \o NewPairs(t)
           fits == Len(all) <= MaxPackages
           c == [i \in DOMAIN t |-> [var |-> IdOf(all, t[i].pair), sign |-> t[i].sign]]
           added == fits /\ Addable(clauses, c)
<1>1. /\ call.running /\ call.todo # <<>>
      /\ registry' = (IF fits THEN all ELSE SubSeq(all, 1, MaxPackages))
      /\ clauses' = (IF added THEN Append(clauses, c) ELSE clauses)
      /\ active' = (IF added THEN active \cup VarsOf(<<c>>) ELSE active)
      /\ call' = [call EXCEPT !.todo = Tail(@), !.failed = ~added]
      /\ UNCHANGED search
  BY DEF AddConstraint, searchVars
<1>2. /\ search = "idle" /\ IsCall(call) /\ Template(call.todo)
      /\ GrownFrom(call.registry, registry) /\ GrownFrom(call.clauses, clauses)
      /\ Within(call.clauses, Len(call.registry))
      /\ IsSequence(registry) /\ Len(registry) <= MaxPackages /\ Len(registry) \in Nat
      /\ Within(clauses, Len(registry)) /\ active = VarsOf(clauses)
  BY <1>1, Indexed DEF BuilderInv
<1>3. IsSequence(t) /\ (\A i \in DOMAIN t : t[i].sign \in {0, 1}) /\ Template(Tail(call.todo))
  <2> DEFINE q == call.todo
  <2>1. Len(q) \in Nat /\ Len(q) \in Nat \ {0} /\ DOMAIN q = 1 .. Len(q) /\ q \in Seq(Range(q)) /\ q # <<>>
    BY <1>1, <1>2 DEF Template, IsSequence
  <2>2. Head(q) = q[1] /\ 1 \in DOMAIN q
    BY <2>1
  <2>3. Tail(q) = [i \in 1 .. Len(q) - 1 |-> q[i + 1]]
    BY <2>1
  <2>4. \A i \in 1 .. Len(q) - 1 : i + 1 \in DOMAIN q
    BY <2>1
  <2>5. IsSequence(Tail(q))
    <3>1. Len(q) - 1 \in Nat
      BY <2>1
    <3> DEFINE r == Tail(q)
    <3>2. DOMAIN r = 1 .. Len(q) - 1 /\ r = [i \in 1 .. Len(q) - 1 |-> r[i]]
      BY <2>3
    <3> HIDE DEF r
    <3>3. IsSequence(r)
      BY <3>1, <3>2, MappedSequence
    <3> QED BY <3>3 DEF r
  <2> HIDE DEF q
  <2>6. \A i \in DOMAIN Tail(q) : i + 1 \in DOMAIN q /\ Tail(q)[i] = q[i + 1]
    BY <2>3, <2>4
  <2>7. Template(Tail(q))
    BY <1>2, <2>5, <2>6 DEF Template, q
  <2> QED BY <1>2, <2>2, <2>7 DEF Template, q
<1> HIDE DEF t
<1>4. /\ IsSequence(all) /\ GrownFrom(registry, all) /\ Len(all) \in Nat
      /\ \A i \in DOMAIN t : IdOf(all, t[i].pair) \in 1 .. Len(all)
  BY <1>2, <1>3, PairsNumbered, Indexed
<1> HIDE DEF all
<1>5. IsSequence(c)
  <2>1. Len(t) \in Nat /\ DOMAIN t = 1 .. Len(t)
    BY <1>3, Indexed
  <2>2. DOMAIN c = 1 .. Len(t) /\ c = [i \in 1 .. Len(t) |-> c[i]]
    BY <2>1
  <2> HIDE DEF c
  <2> QED BY <2>1, <2>2, MappedSequence
<1>6. fits => \A l \in Literals(c) : l \in Lit /\ l.var <= Len(all)
  <2>1. MaxPackages \in Nat
    BY SolverAssumption
  <2>2. SUFFICES ASSUME fits, NEW i \in DOMAIN t
                 PROVE  /\ [var |-> IdOf(all, t[i].pair), sign |-> t[i].sign] \in Lit
                        /\ IdOf(all, t[i].pair) <= Len(all)
    BY DEF Literals
  <2>3. IdOf(all, t[i].pair) \in Var /\ IdOf(all, t[i].pair) <= Len(all)
    BY <1>4, <2>1, <2>2 DEF Var
  <2> QED BY <1>3, <2>2, <2>3 DEF Lit
<1> HIDE DEF c
<1>7. Len(registry) <= Len(all) /\ MaxPackages \in Nat
  BY <1>4, SolverAssumption DEF GrownFrom
<1>8. /\ IsSequence(registry') /\ Len(registry') <= MaxPackages /\ Len(registry') \in Nat
      /\ Len(registry) <= Len(registry') /\ GrownFrom(registry, registry')
  <2>1. CASE fits
    BY <1>1, <1>4, <1>7, <2>1
  <2>2. CASE ~fits
    <3>1. Len(registry) <= MaxPackages /\ MaxPackages <= Len(all)
      BY <1>2, <1>4, <1>7, <2>2
    <3>2. /\ IsSequence(SubSeq(all, 1, MaxPackages)) /\ Len(SubSeq(all, 1, MaxPackages)) = MaxPackages
          /\ GrownFrom(registry, SubSeq(all, 1, MaxPackages))
      BY <1>2, <1>4, <1>7, <3>1, CutAt
    <3> QED BY <1>1, <1>7, <2>2, <3>1, <3>2
  <2> QED BY <2>1, <2>2
<1>9. Within(clauses', Len(registry')) /\ active' = VarsOf(clauses') /\ GrownFrom(clauses, clauses')
      /\ Len(clauses') \in Nat
  <2>1. IsSequence(clauses) /\ Len(clauses) \in Nat
    BY <1>2, Indexed DEF Within
  <2>2. CASE added
    <3>1. registry' = all /\ clauses' = Append(clauses, c) /\ active' = active \cup VarsOf(<<c>>)
      BY <1>1, <2>2
    <3>2. Within(clauses, Len(all))
      BY <1>2, <1>4, <1>7, WithinMore
    <3>3. Within(Append(clauses, c), Len(all)) /\ VarsOf(Append(clauses, c)) = VarsOf(clauses) \cup VarsOf(<<c>>)
      BY <1>4, <1>5, <1>6, <2>2, <3>2, WithinAppended
    <3>4. GrownFrom(clauses, Append(clauses, c)) /\ Len(Append(clauses, c)) = Len(clauses) + 1
      BY <2>1, Appended
    <3> QED BY <1>2, <2>1, <3>1, <3>3, <3>4
  <2>3. CASE ~added
    <3>1. clauses' = clauses /\ active' = active
      BY <1>1, <2>3
    <3>2. Within(clauses, Len(registry'))
      BY <1>2, <1>8, WithinMore
    <3>3. GrownFrom(clauses, clauses)
      BY <2>1 DEF GrownFrom
    <3> QED BY <1>2, <2>1, <3>1, <3>2, <3>3
  <2> QED BY <2>2, <2>3
<1>10. GrownFrom(call.registry, registry') /\ GrownFrom(call.clauses, clauses')
  BY <1>2, <1>8, <1>9, GrownOn
<1>11. /\ IsCall(call') /\ call'.running = call.running /\ call'.registry = call.registry
       /\ call'.clauses = call.clauses /\ call'.todo = Tail(call.todo) /\ call'.failed \in BOOLEAN
  <2> HIDE DEF added
  <2>1. call' = [call EXCEPT !.todo = Tail(@), !.failed = ~added]
    BY <1>1
  <2>2. (~added) \in BOOLEAN
    OBVIOUS
  <2> QED BY <1>2, <2>1, <2>2 DEF IsCall
<1> QED BY <1>1, <1>2, <1>3, <1>8, <1>9, <1>10, <1>11 DEF BuilderInv

(* What CallsAtomic says of a step. *)
CallEnds ==
  call.running /\ ~call'.running =>
    /\ active' = VarsOf(clauses')
    /\ call.failed => clauses' = call.clauses /\ registry' = call.registry
    /\ \A i \in DOMAIN clauses' : \A l \in Literals(clauses'[i]) : l.var <= Len(registry')

(* finish, of a call whose clauses were all added. *)
LEMMA CallSucceedsKeeps ==
  ASSUME BuilderInv, client = "builder", CallSucceeds, client' = client
  PROVE  BuilderInv' /\ CallEnds
<1>1. /\ call' = NoCall /\ ~call.failed
      /\ UNCHANGED <<clauses, active, assignment, trail, frames, scan, forced, search, registry>>
  BY DEF CallSucceeds, solverVars
<1>2. IsCall(call') /\ call'.running = FALSE /\ call'.failed = FALSE
  BY <1>1 DEF NoCall, IsCall
<1>3. BuilderInv'
  BY <1>1, <1>2 DEF BuilderInv
<1>4. active' = VarsOf(clauses') /\ Within(clauses', Len(registry'))
  BY <1>1 DEF BuilderInv
<1> QED BY <1>1, <1>3, <1>4 DEF CallEnds, Within

(* finish, of a call that failed: rollback cuts both tables back to where the *)
(* call found them and takes the variables in use from the clauses that are   *)
(* left.                                                                      *)
LEMMA CallFailsKeeps ==
  ASSUME BuilderInv, client = "builder", CallFails, client' = client
  PROVE  BuilderInv' /\ CallEnds
<1>1. /\ call.running /\ call' = NoCall /\ search' = search
      /\ clauses' = SubSeq(clauses, 1, Len(call.clauses)) /\ active' = VarsOf(clauses')
      /\ registry' = SubSeq(registry, 1, Len(call.registry))
  BY DEF CallFails, searchVars
<1>2. IsCall(call') /\ call'.running = FALSE /\ call'.failed = FALSE
  BY <1>1 DEF NoCall, IsCall
<1>3. /\ GrownFrom(call.registry, registry) /\ GrownFrom(call.clauses, clauses)
      /\ Within(call.clauses, Len(call.registry))
      /\ IsSequence(registry) /\ Len(registry) <= MaxPackages /\ IsSequence(clauses)
  BY <1>1 DEF BuilderInv, Within
<1>4. clauses' = call.clauses /\ registry' = call.registry
  BY <1>1, <1>3, Cut
<1>5. Len(call.registry) <= MaxPackages /\ IsSequence(call.registry)
  <2>1. Len(registry) \in Nat /\ IsSequence(call.registry) /\ Len(call.registry) <= Len(registry)
    BY <1>3, Indexed DEF GrownFrom
  <2>2. Len(call.registry) \in Nat /\ MaxPackages \in Nat
    BY <2>1, Indexed, SolverAssumption
  <2> QED BY <1>3, <2>1, <2>2
<1>6. BuilderInv'
  BY <1>1, <1>2, <1>3, <1>4, <1>5 DEF BuilderInv
<1> QED BY <1>1, <1>3, <1>4, <1>6 DEF CallEnds, Within

(* Of the steps, those of the builder change its tables, and those of the   *)
(* service find no call running.                                            *)
LEMMA BuilderSettled ==
  ASSUME BuilderInv, UNCHANGED <<registry, call, client>>,
         client = "builder" => UNCHANGED <<clauses, active>> /\ (call.running => search' = search)
  PROVE  BuilderInv' /\ CallEnds
<1>1. client = "service" => ~call.running
  BY DEF BuilderInv
<1>2. client \in {"service", "builder"}
  BY DEF BuilderInv
<1>3. CASE client = "service"
  BY <1>1, <1>3 DEF BuilderInv, CallEnds
<1>4. CASE client = "builder"
  BY <1>4 DEF BuilderInv, CallEnds
<1> QED BY <1>2, <1>3, <1>4

(* The service's calls are for its own client. *)
JobIdle == client = "builder" => job = Idle

(* Every step keeps the tables of the builder, and a call that ends does so *)
(* as CallsAtomic says.                                                     *)
LEMMA BuilderNext ==
  ASSUME BuilderInv, JobIdle, [Next]_vars
  PROVE  BuilderInv' /\ CallEnds /\ JobIdle'
<1> USE DEF JobIdle, In, Idle
<1>1. CASE UNCHANGED vars
  <2>1. UNCHANGED <<registry, call, client, clauses, active, search, job>>
    BY <1>1 DEF vars, builderVars, solverVars, serviceVars
  <2> QED BY <2>1, BuilderSettled
<1>2. CASE Begin \/ RemoveInstalled
  <2>1. UNCHANGED <<registry, call, client, clauses, active, search>> /\ client = "service"
    BY <1>2 DEF Begin, RemoveInstalled, ServiceIdle, builderVars, solverVars
  <2> QED BY <2>1, BuilderSettled
<1>3. CASE ServiceStep
  <2>1. UNCHANGED <<registry, call, client>> /\ job.phase # "idle"
    BY <1>3 DEF ServiceStep, Fail, FetchResource, Resolve, ResolveBuild, Expand, Compile,
         Unsatisfiable, BeginOrder, VisitRoot, VisitEdge, Leave, Ordered, Skip, PrepareNative,
         BeginBuildRoot, EndBuildRoot, PrepareSource, Commit, IsNew, More, builderVars, DropSolver, StartSearch
  <2>2. client # "builder"
    <3>1. [phase |-> "idle"].phase = "idle"
      OBVIOUS
    <3>2. client = "builder" => job = [phase |-> "idle"]
      BY DEF JobIdle
    <3>3. job.phase # "idle"
      BY <2>1
    <3> QED BY ONLY <3>1, <3>2, <3>3
  <2> QED BY <2>1, <2>2, BuilderSettled
<1>4. CASE Search
  <2>1. UNCHANGED <<registry, call, client, job>> /\ search # "idle" /\ SearchStep
    BY <1>4 DEF Search, builderVars, serviceVars, SearchStep, ForceUnit, Conflict, PassEnds, Decide, AllDecided,
         TurnAround, Refute
  <2>2. UNCHANGED <<clauses, active>>
    BY <2>1 DEF SearchStep, ForceUnit, Conflict, PassEnds, Decide, AllDecided, TurnAround, Refute
  <2>3. call.running => search = "idle"
    BY DEF BuilderInv
  <2> QED BY <2>1, <2>2, <2>3, BuilderSettled
<1>5. CASE BeginBuilderCall
  <2>1. PICK o \in Ops : BeginCall(o)
    BY <1>5 DEF BeginBuilderCall
  <2>2. client = "builder" /\ client' = client /\ job' = job /\ ~call.running
    BY <1>5, <2>1 DEF BeginBuilderCall, serviceVars, BeginCall
  <2>3. BuilderInv'
    BY <2>1, <2>2, BeginCallKeeps
  <2> QED BY <2>2, <2>3 DEF CallEnds
<1>6. CASE BuilderStep
  <2>1. client = "builder" /\ client' = client /\ job' = job
    BY <1>6 DEF BuilderStep, serviceVars
  <2>2. CASE AddConstraint
    <3>1. BuilderInv'
      BY <2>1, <2>2, AddConstraintKeeps
    <3>2. call'.running = call.running
      BY <2>2 DEF AddConstraint, BuilderInv, IsCall
    <3> QED BY <2>1, <3>1, <3>2 DEF CallEnds
  <2>3. CASE CallSucceeds
    BY <2>1, <2>3, CallSucceedsKeeps
  <2>4. CASE CallFails
    BY <2>1, <2>4, CallFailsKeeps
  <2>5. CASE BeginSolve
    <3>1. ~call.running /\ UNCHANGED <<clauses, active, registry, call>>
      BY <2>5 DEF BeginSolve
    <3> QED BY <2>1, <3>1, BuilderSettled
  <2> QED BY <1>6, <2>2, <2>3, <2>4, <2>5 DEF BuilderStep, BuilderCall
<1> QED BY <1>1, <1>2, <1>3, <1>4, <1>5, <1>6 DEF Next, RunningStep

(***************************************************************************)
(* A call of the constraint builder that ends has added all its clauses or *)
(* none: ConstraintBuilder::finish returns the clauses and the numbering   *)
(* of pairs to where checkpoint found them, and leaves in use exactly the  *)
(* variables of the clauses, so that no literal is about a pair without a  *)
(* number. (The step property CallsAtomic.)                                *)
(***************************************************************************)
THEOREM ResolutionCallsAtomic == Spec => CallsAtomic
<1>1. Init => BuilderInv /\ JobIdle
  <2> SUFFICES ASSUME Init PROVE BuilderInv /\ JobIdle
    OBVIOUS
  <2>1. /\ client \in {"service", "builder"} /\ registry = <<>> /\ clauses = <<>> /\ active = {} /\ job = Idle
        /\ call = NoCall
    BY DEF Init, SolverInit, BuilderInit
  <2>2. IsCall(call) /\ call.running = FALSE /\ call.failed = FALSE
    BY <2>1 DEF NoCall, IsCall
  <2>3. IsSequence(<<>>) /\ DOMAIN <<>> = {} /\ Len(<<>>) = 0
    BY DEF IsSequence
  <2>4. Within(<<>>, 0) /\ VarsOf(<<>>) = {}
    BY <2>3 DEF Within, VarsOf
  <2>5. 0 <= MaxPackages
    BY SolverAssumption
  <2> QED BY <2>1, <2>2, <2>3, <2>4, <2>5 DEF BuilderInv, JobIdle
<1>2. BuilderInv /\ JobIdle /\ [Next]_vars => BuilderInv' /\ CallEnds /\ JobIdle'
  BY BuilderNext
<1>3. BuilderInv /\ JobIdle /\ [Next]_vars => [CallEnds]_<<solverVars, builderVars>>
  BY <1>2
<1> QED BY <1>1, <1>2, <1>3, PTL DEF Spec, CallsAtomic, CallEnds

-----------------------------------------------------------------------------
(***************************************************************************)
(* The solver within the resolution: the model it finds is the least.      *)
(***************************************************************************)

(* Only variables in use have values. *)
UsedInv == search # "idle" => \A v \in Var : assignment[v] # Unset => v \in active

(* The invariant of the solver. *)
SolverInv == ClausesOK /\ SearchInv /\ QuietInv /\ UsedInv

(* Neither propagate nor decide gives a value to a variable no clause has. *)
LEMMA UsedKeeps ==
  ASSUME ClausesOK, SearchInv, UsedInv, SearchStep
  PROVE  UsedInv'
<1>1. search # "idle" /\ UNCHANGED <<clauses, active>>
  BY DEF SearchStep, ForceUnit, Conflict, PassEnds, Decide, AllDecided, TurnAround, Refute
<1>2. \A v \in Var : assignment[v] # Unset => v \in active
  BY <1>1 DEF UsedInv
<1>3. TrailOK(trail, assignment) /\ FramesOK(frames, trail, active)
  BY <1>1 DEF SearchInv
<1>4. assignment \in [Var -> {Unset, 0, 1}]
  BY <1>3 DEF TrailOK
<1>5. ASSUME NEW a \in [Var -> {Unset, 0, 1}], NEW l, l.var \in active, assignment' = Assigned(a, l),
             \A v \in Var : a[v] # Unset => v \in active
      PROVE  UsedInv'
  <2>1. \A v \in Var : v # l.var => assignment'[v] = a[v]
    BY <1>5 DEF Assigned
  <2> QED BY <1>1, <1>5, <2>1 DEF UsedInv
<1>6. CASE ForceUnit
  <2>1. PICK i \in DOMAIN clauses : \E k \in Open(clauses[i], assignment) :
                                      assignment' = Assigned(assignment, clauses[i][k])
    BY <1>6 DEF ForceUnit
  <2>2. PICK k \in Open(clauses[i], assignment) : assignment' = Assigned(assignment, clauses[i][k])
    BY <2>1
  <2>3. clauses[i][k] \in Literals(clauses[i])
    BY DEF Open, Literals
  <2>4. clauses[i][k].var \in active
    BY <2>3 DEF ClausesOK
  <2> QED BY <1>2, <1>4, <1>5, <2>2, <2>4
<1>7. CASE Decide
  <2>1. PICK v \in Var : Branch(v) /\ assignment' = Assigned(assignment, Neg(v))
    BY <1>7 DEF Decide
  <2>2. Neg(v).var \in active
    BY <2>1 DEF Branch, Neg
  <2> QED BY <1>2, <1>4, <1>5, <2>1, <2>2
<1>8. CASE TurnAround
  <2> DEFINE f == frames[Len(frames)]
  <2>1. frames # <<>> /\ (assignment' = Unwound(f.start) \/ assignment' = Assigned(Unwound(f.start), Pos(f.var)))
    BY <1>8 DEF TurnAround
  <2>2. Unwound(f.start) \in [Var -> {Unset, 0, 1}]
        /\ \A v \in Var : Unwound(f.start)[v] # Unset => v \in active
    BY <1>2, <1>4 DEF Unwound
  <2>3. f.var \in active
    <3>1. Len(frames) \in 1 .. Len(frames)
      BY <1>3, <2>1 DEF FramesOK
    <3>2. /\ Len(trail) \in Nat /\ f.start \in Nat /\ f.var \in Var
          /\ f.start < Len(trail) /\ trail[f.start + 1].var = f.var
      <4>1. Len(trail) \in Nat
        BY <1>3 DEF TrailOK
      <4>2. f.start \in Nat /\ f.var \in Var /\ f.start < Len(trail)
        BY <1>3, <3>1, <4>1, FrameFacts
      <4>3. trail[f.start + 1] = [var |-> f.var, sign |-> IF f.positive THEN 1 ELSE 0]
        BY <1>3, <3>1 DEF FramesOK
      <4> QED BY <4>1, <4>2, <4>3
    <3> HIDE DEF f
    <3>3. f.start + 1 \in 1 .. Len(trail)
      BY <3>2
    <3>4. assignment[trail[f.start + 1].var] = trail[f.start + 1].sign /\ trail[f.start + 1] \in Lit
      BY <1>3, <3>3 DEF TrailOK
    <3>5. assignment[f.var] # Unset
      BY <3>2, <3>4 DEF Lit, Unset
    <3> QED BY <1>2, <3>2, <3>5
  <2>4. Pos(f.var).var = f.var
    BY DEF Pos
  <2> HIDE DEF f
  <2>5. CASE assignment' = Unwound(f.start)
    BY <1>1, <2>2, <2>5 DEF UsedInv
  <2>6. CASE assignment' = Assigned(Unwound(f.start), Pos(f.var))
    BY <1>5, <2>2, <2>3, <2>4, <2>6
  <2> QED BY <2>1, <2>5, <2>6
<1>9. CASE UNCHANGED assignment
  BY <1>1, <1>2, <1>9 DEF UsedInv
<1>10. Conflict \/ PassEnds \/ AllDecided \/ Refute => UNCHANGED assignment
  BY DEF Conflict, PassEnds, AllDecided, Refute
<1> QED BY <1>6, <1>7, <1>8, <1>9, <1>10 DEF SearchStep

(* Every step of the search keeps the invariant of the solver. *)
LEMMA SolverKeeps ==
  ASSUME SolverInv, SearchStep
  PROVE  SolverInv'
<1>1. TrailFits
  BY ResolutionAssumption, SolverAssumption DEF TrailFits
<1>2. ClausesOK /\ SearchInv /\ QuietInv /\ UsedInv
  BY DEF SolverInv
<1>3. SearchInv' /\ QuietInv' /\ ClausesOK'
  BY <1>1, <1>2, SearchKeeps
<1>4. UsedInv'
  BY <1>2, UsedKeeps
<1> QED BY <1>3, <1>4 DEF SolverInv

(* A new search: nothing is on the trail yet.                                    *)
LEMMA SolverStarts ==
  ASSUME ClausesOK', StartSearch
  PROVE  SolverInv'
<1>1. /\ assignment' = [v \in Var |-> Unset] /\ trail' = <<>> /\ frames' = <<>>
      /\ scan' = 1 /\ forced' = FALSE /\ search' = "propagate"
  BY DEF StartSearch
<1>2. Len(<<>>) = 0 /\ \A i \in 1 .. 0 : FALSE
  OBVIOUS
<1>3. TrailOK(trail', assignment')
  BY <1>1, <1>2 DEF TrailOK
<1>4. FramesOK(frames', trail', active')
  BY <1>1, <1>2 DEF FramesOK
<1>5. Implied(frames', trail', Models(clauses')) /\ Refuted(frames', trail', Models(clauses'))
  BY <1>1, <1>2 DEF Implied, Refuted
<1>6. SearchInv'
  BY <1>1, <1>3, <1>4, <1>5 DEF SearchInv
<1>7. \A i \in DOMAIN clauses' : ~(i < 1)
  BY Indexed DEF ClausesOK
<1>8. QuietInv'
  BY <1>1, <1>7 DEF QuietInv
<1>9. UsedInv'
  BY <1>1 DEF UsedInv
<1> QED BY <1>6, <1>8, <1>9 DEF SolverInv

(* The solver between two searches. *)
LEMMA SolverRests ==
  ASSUME ClausesOK', search' = "idle", scan' \in Nat
  PROVE  SolverInv'
BY DEF SolverInv, SearchInv, QuietInv, UsedInv

(* The solver that is dropped. *)
LEMMA SolverDropped ==
  ASSUME DropSolver
  PROVE  SolverInv'
<1>1. clauses' = <<>> /\ active' = {} /\ search' = "idle" /\ scan' = 1
  BY DEF DropSolver
<1>2. IsSequence(<<>>) /\ DOMAIN <<>> = {}
  BY DEF IsSequence
<1>3. ClausesOK'
  BY <1>1, <1>2 DEF ClausesOK
<1> QED BY <1>1, <1>3, SolverRests

(* The assignment that is found is below any other model in the order of the     *)
(* variables in use.                                                             *)
LEMMA LeastModel ==
  ASSUME SolverInv, search = "sat", NEW N \in Models(clauses)
  PROVE  \/ \A v \in Var : assignment[v] = 1 => N[v] = 1
         \/ \E v \in Var : /\ N[v] = 1 /\ assignment[v] = 0
                           /\ \A w \in active : w < v => N[w] = assignment[w]
<1>1. /\ TrailOK(trail, assignment) /\ FramesOK(frames, trail, active)
      /\ Implied(frames, trail, Models(clauses)) /\ Refuted(frames, trail, Models(clauses))
  BY DEF SolverInv, SearchInv
<1> DEFINE L == Len(trail)
<1>2. L \in Nat /\ \A i \in 1 .. L : trail[i] \in Lit /\ trail[i].var \in Var /\ trail[i].sign \in {0, 1}
  <2>1. L \in Nat /\ \A i \in 1 .. L : trail[i] \in Lit
    BY <1>1 DEF TrailOK
  <2> QED BY <2>1 DEF Lit
<1>3. \A i \in 1 .. L : assignment[trail[i].var] = trail[i].sign
  BY <1>1 DEF TrailOK
<1>4. N \in [Var -> {0, 1}]
  BY DEF Models
<1>5. CASE Agrees(N, trail, L)
  <2>1. ASSUME NEW v \in Var, assignment[v] = 1 PROVE N[v] = 1
    <3>1. PICK i \in 1 .. L : trail[i].var = v
      BY <1>1, <2>1 DEF TrailOK, Unset
    <3> QED BY <1>3, <1>5, <2>1, <3>1 DEF Agrees
  <2> QED BY <2>1
<1>6. CASE ~Agrees(N, trail, L)
  <2> DEFINE D == {n \in 1 .. L : N[trail[n].var] # trail[n].sign}
  <2>1. D \in SUBSET Nat /\ D # {}
    BY <1>2, <1>6 DEF Agrees
  <2>2. PICK m \in D : \A n \in D : m <= n
    BY <2>1, LeastNat
  <2>3. m \in 1 .. L /\ N[trail[m].var] # trail[m].sign
    OBVIOUS
  <2>4. \A n \in 1 .. L : n < m => N[trail[n].var] = trail[n].sign
    BY <1>2, <2>2
  <2> HIDE DEF D
  <2>5. Agrees(N, trail, m - 1)
    <3>1. \A n \in 1 .. m - 1 : n \in 1 .. L /\ n < m
      BY <1>2, <2>3
    <3> QED BY <2>4, <3>1 DEF Agrees
  <2>6. PICK k \in 1 .. Len(frames) : frames[k].start + 1 = m
    BY <1>1, <2>3, <2>5 DEF Implied
  <2>7. /\ frames[k].start \in Nat /\ frames[k].var \in Var /\ frames[k].positive \in BOOLEAN
        /\ frames[k].start < L
        /\ trail[frames[k].start + 1] = [var |-> frames[k].var, sign |-> IF frames[k].positive THEN 1 ELSE 0]
        /\ \A w \in active : w < frames[k].var => \E i \in 1 .. frames[k].start : trail[i].var = w
    <3>1. /\ frames[k].start \in Nat /\ frames[k].var \in Var /\ frames[k].positive \in BOOLEAN
          /\ frames[k].start < L
      BY <1>1, <1>2, FrameFacts
    <3> QED BY <1>1, <3>1 DEF FramesOK
  <2> DEFINE v == frames[k].var
             n == frames[k].start
  <2>8. n = m - 1 /\ n \in Nat /\ Agrees(N, trail, n)
    BY <1>2, <2>3, <2>5, <2>6, <2>7
  <2>9. ~frames[k].positive
    <3>1. SUFFICES ASSUME frames[k].positive PROVE FALSE
      OBVIOUS
    <3>2. N[v] = 1
      BY <1>1, <2>8, <3>1 DEF Refuted
    <3>3. trail[m] = [var |-> v, sign |-> 1]
      BY <2>6, <2>7, <3>1
    <3> QED BY <2>3, <3>2, <3>3
  <2>10. trail[m].var = v /\ trail[m].sign = 0
    BY <2>6, <2>7, <2>9
  <2>11. N[v] = 1 /\ assignment[v] = 0 /\ v \in Var
    BY <1>3, <1>4, <2>3, <2>7, <2>10
  <2>12. ASSUME NEW w \in active, w < v PROVE N[w] = assignment[w]
    <3>1. PICK i \in 1 .. n : trail[i].var = w
      BY <2>7, <2>12
    <3>2. i \in 1 .. L
      BY <1>2, <2>7, <2>8
    <3> QED BY <1>3, <2>8, <3>1, <3>2 DEF Agrees
  <2> QED BY <2>11, <2>12
<1> QED BY <1>5, <1>6

-----------------------------------------------------------------------------
(***************************************************************************)
(* Clauses of a graph in the solver: what a model and a refusal mean.      *)
(***************************************************************************)

(* The clauses are those of a graph whose candidates all have a variable.        *)
Posed(c, req, fixed) ==
  /\ Graph(c) /\ req \in DOMAIN c /\ IsSequence(fixed) /\ Range(fixed) \subseteq DOMAIN c
  /\ Len(c) <= MaxPackages

(* The assignment that is true of a set of candidates. *)
Chart(c, T) == [v \in Var |-> IF v \in 1 .. Len(c) /\ CandidateOf(c, v) \in T THEN 1 ELSE 0]

(* The literals of a graph are about variables that number its candidates. *)
LEMMA LiteralsPosed ==
  ASSUME NEW c, NEW req, NEW fixed, Posed(c, req, fixed), NEW cl \in Range(GraphClauses(c, req, fixed)),
         NEW l \in Literals(cl)
  PROVE  l \in Lit /\ l.var \in 1 .. Len(c) /\ l.var \in Var
<1>1. NamesRanked
  BY ResolutionAssumption DEF NamesRanked
<1>2. Graph(c) /\ req \in DOMAIN c /\ IsSequence(fixed) /\ Range(fixed) \subseteq DOMAIN c
  BY DEF Posed
<1>3. PICK i \in DOMAIN c : l = On(VarOf(c, i)) \/ l = Off(VarOf(c, i))
  BY <1>1, <1>2, ClausesTyped
<1>4. VarOf(c, i) \in 1 .. Len(c) /\ Len(c) \in Nat /\ MaxPackages \in Nat
  BY <1>1, <1>2, Variables, GraphDomain, SolverAssumption
<1>5. VarOf(c, i) \in Var
  BY <1>4 DEF Posed, Var
<1> QED BY <1>3, <1>4, <1>5 DEF On, Off, Lit

(* Its clauses are what the solver expects. *)
LEMMA ClausesPosed ==
  ASSUME NEW c, NEW req, NEW fixed, Posed(c, req, fixed), NEW cs, cs = GraphClauses(c, req, fixed)
  PROVE  /\ IsSequence(cs) /\ \A i \in DOMAIN cs : IsSequence(cs[i]) /\ cs[i] \in Range(cs)
         /\ \A i \in DOMAIN cs : \A l \in Literals(cs[i]) :
              l \in Lit /\ l.var \in 1 .. Len(c) /\ l.var \in Var /\ l.var \in VarsOf(cs)
         /\ VarsOf(cs) \subseteq Var /\ VarsOf(cs) \subseteq 1 .. Len(c)
<1>1. NamesRanked
  BY ResolutionAssumption DEF NamesRanked
<1>2. Graph(c) /\ req \in DOMAIN c /\ IsSequence(fixed) /\ Range(fixed) \subseteq DOMAIN c
  BY DEF Posed
<1>3. IsSequence(cs)
  BY <1>1, <1>2, GraphClausesAre
<1>4. \A i \in DOMAIN cs : cs[i] \in Range(cs)
  BY DEF Range
<1>5. \A i \in DOMAIN cs : IsSequence(cs[i])
  BY <1>1, <1>2, <1>4, ClausesTyped
<1>6. \A i \in DOMAIN cs : \A l \in Literals(cs[i]) : l \in Lit /\ l.var \in 1 .. Len(c) /\ l.var \in Var
  BY <1>4, LiteralsPosed
<1>7. \A i \in DOMAIN cs : \A l \in Literals(cs[i]) : l.var \in VarsOf(cs)
  BY DEF VarsOf
<1>8. VarsOf(cs) \subseteq Var /\ VarsOf(cs) \subseteq 1 .. Len(c)
  BY <1>6 DEF VarsOf
<1> QED BY <1>3, <1>4, <1>5, <1>6, <1>7, <1>8

(* A coherent selection is a model.                                              *)
LEMMA CharterModels ==
  ASSUME NEW c, NEW req, NEW fixed, Posed(c, req, fixed), NEW cs, cs = GraphClauses(c, req, fixed),
         NEW T \in SUBSET (DOMAIN c), {req} \cup Range(fixed) \subseteq T, Coherent(c, T)
  PROVE  Chart(c, T) \in Models(cs)
<1> DEFINE N == Chart(c, T)
<1>1. NamesRanked
  BY ResolutionAssumption DEF NamesRanked
<1>2. Graph(c) /\ req \in DOMAIN c /\ IsSequence(fixed) /\ Range(fixed) \subseteq DOMAIN c
  BY DEF Posed
<1>3. \A cl \in Range(cs) : Holds(cl, c, T)
  BY <1>1, <1>2, GraphMeaning
<1>4. N \in [Var -> {0, 1}]
  BY DEF Chart
<1>5. ASSUME NEW i \in DOMAIN cs PROVE Satisfied(cs[i], N)
  <2>1. cs[i] \in Range(cs)
    BY ClausesPosed
  <2>2. PICK l \in Literals(cs[i]) : (l.sign = 1) <=> (CandidateOf(c, l.var) \in T)
    BY <1>3, <2>1 DEF Holds
  <2>3. l \in Lit /\ l.var \in 1 .. Len(c) /\ l.var \in Var
    BY ClausesPosed
  <2>4. l.sign \in {0, 1}
    BY <2>3 DEF Lit
  <2>5. N[l.var] = l.sign
    BY <2>2, <2>3, <2>4 DEF Chart
  <2> QED BY <2>5 DEF Satisfied
<1> QED BY <1>4, <1>5 DEF Models

(* A graph the search refuses has no coherent selection of what is required *)
(* and fixed.                                                               *)
LEMMA GraphRefused ==
  ASSUME NEW c, NEW req, NEW fixed, Posed(c, req, fixed), clauses = GraphClauses(c, req, fixed),
         SolverInv, search = "unsat", NEW T \in SUBSET (DOMAIN c), {req} \cup Range(fixed) \subseteq T
  PROVE  ~Coherent(c, T)
<1>1. Models(clauses) = {}
  BY DEF SolverInv, SearchInv
<1> QED BY <1>1, CharterModels

(* Of all coherent selections of the same demands, S comes first: at the  *)
(* first candidate in candidate_key order that tells it from another, the *)
(* other has that candidate.                                              *)
First(c, S, must) ==
  \A T \in SUBSET (DOMAIN c) :
    must \subseteq T /\ T # S /\ Coherent(c, T) => \E i \in T \ S : \A j \in S \ T : Before(c[i], c[j])

(* The candidates whose variables the search made true. *)
Found(c, S) == S = {CandidateOf(c, v) : v \in Chosen}

(* What the search finds is coherent, holds what is required and fixed, and *)
(* comes first of all that would do.                                        *)
LEMMA GraphSolved ==
  ASSUME NEW c, NEW req, NEW fixed, Posed(c, req, fixed), clauses = GraphClauses(c, req, fixed),
         active = VarsOf(clauses), SolverInv, search = "sat",
         NEW S, Found(c, S)
  PROVE  /\ S \subseteq DOMAIN c /\ {req} \cup Range(fixed) \subseteq S /\ Coherent(c, S)
         /\ First(c, S, {req} \cup Range(fixed))
<1> DEFINE must == {req} \cup Range(fixed)
<1> S = {CandidateOf(c, v) : v \in Chosen}
  BY DEF Found
<1>1. NamesRanked
  BY ResolutionAssumption DEF NamesRanked
<1>2. Graph(c) /\ req \in DOMAIN c /\ IsSequence(fixed) /\ Range(fixed) \subseteq DOMAIN c
  BY DEF Posed
<1>3. /\ \A i \in DOMAIN c : VarOf(c, i) \in 1 .. Len(c) /\ CandidateOf(c, VarOf(c, i)) = i
      /\ \A i, j \in DOMAIN c : Before(c[i], c[j]) <=> VarOf(c, i) < VarOf(c, j)
      /\ \A v \in 1 .. Len(c) : CandidateOf(c, v) \in DOMAIN c /\ VarOf(c, CandidateOf(c, v)) = v
  BY <1>1, <1>2, Variables
<1>4. /\ \A i \in DOMAIN clauses : IsSequence(clauses[i]) /\ clauses[i] \in Range(clauses)
      /\ \A i \in DOMAIN clauses : \A l \in Literals(clauses[i]) :
           l \in Lit /\ l.var \in 1 .. Len(c) /\ l.var \in Var /\ l.var \in VarsOf(clauses)
      /\ VarsOf(clauses) \subseteq Var /\ VarsOf(clauses) \subseteq 1 .. Len(c)
  BY ClausesPosed
<1>5. /\ \A i \in DOMAIN clauses : Satisfied(clauses[i], assignment)
      /\ \A v \in Var : assignment[v] # Unset => v \in active
      /\ assignment \in [Var -> {Unset, 0, 1}]
  BY DEF SolverInv, QuietInv, UsedInv, SearchInv, TrailOK
<1>6. \A v \in Chosen : v \in Var /\ v \in active /\ v \in 1 .. Len(c) /\ assignment[v] = 1
  BY <1>4, <1>5 DEF Chosen, Unset
<1>7. S \subseteq DOMAIN c
  BY <1>3, <1>6
<1>8. ASSUME NEW v \in 1 .. Len(c), v \in Var PROVE CandidateOf(c, v) \in S <=> assignment[v] = 1
  <2>1. CASE assignment[v] = 1
    <3>1. v \in Chosen
      BY <1>8, <2>1 DEF Chosen
    <3> QED BY <2>1, <3>1
  <2>2. CASE CandidateOf(c, v) \in S
    <3>1. PICK w \in Chosen : CandidateOf(c, w) = CandidateOf(c, v)
      BY <2>2
    <3>2. w = v
      BY <1>3, <1>6, <3>1
    <3> QED BY <1>6, <2>2, <3>2
  <2> QED BY <2>1, <2>2
<1>9. ASSUME NEW i \in DOMAIN clauses PROVE Holds(clauses[i], c, S)
  <2>1. PICK l \in Literals(clauses[i]) : assignment[l.var] = l.sign
    BY <1>5 DEF Satisfied
  <2>2. l \in Lit /\ l.var \in 1 .. Len(c) /\ l.var \in Var
    BY <1>4
  <2>3. l.sign \in {0, 1}
    BY <2>2 DEF Lit
  <2>4. (l.sign = 1) <=> (CandidateOf(c, l.var) \in S)
    BY <1>8, <2>1, <2>2, <2>3
  <2> QED BY <2>4 DEF Holds
<1>10. \A cl \in Range(clauses) : Holds(cl, c, S)
  BY <1>9 DEF Range
<1>11. must \subseteq S /\ Coherent(c, S)
  <2>1. S \in SUBSET (DOMAIN c) /\ \A cl \in Range(GraphClauses(c, req, fixed)) : Holds(cl, c, S)
    BY <1>7, <1>10
  <2> QED BY ONLY <1>1, <1>2, <2>1, GraphMeaning
<1>12. ASSUME NEW T \in SUBSET (DOMAIN c), must \subseteq T, T # S, Coherent(c, T)
       PROVE  \E i \in T \ S : \A j \in S \ T : Before(c[i], c[j])
  <2> DEFINE N == Chart(c, T)
  <2>1. N \in Models(clauses)
    BY <1>12, CharterModels
  <2>2. \A v \in Var : v \in 1 .. Len(c) => (N[v] = 1 <=> CandidateOf(c, v) \in T) /\ N[v] \in {0, 1}
    BY DEF Chart
  <2>3. \A v \in Var : N[v] = 1 => v \in 1 .. Len(c)
    BY DEF Chart
  <2> HIDE DEF N
  <2>4. \A i \in DOMAIN c : VarOf(c, i) \in Var
    <3>1. Len(c) \in Nat /\ Len(c) <= MaxPackages /\ MaxPackages \in Nat
      BY <1>2, GraphDomain, SolverAssumption DEF Posed
    <3> QED BY <1>3, <3>1 DEF Var
  <2>5. CASE \A v \in Var : assignment[v] = 1 => N[v] = 1
    <3>1. ASSUME NEW i \in S PROVE i \in T
      <4>1. VarOf(c, i) \in 1 .. Len(c) /\ VarOf(c, i) \in Var /\ CandidateOf(c, VarOf(c, i)) = i
        BY <1>3, <1>7, <2>4
      <4>2. assignment[VarOf(c, i)] = 1
        BY <1>8, <4>1
      <4> QED BY <2>2, <2>5, <4>1, <4>2
    <3>2. \E i \in T : i \notin S
      BY <1>12, <3>1
    <3> QED BY <3>1, <3>2
  <2>6. CASE \E v \in Var : /\ N[v] = 1 /\ assignment[v] = 0
                            /\ \A w \in active : w < v => N[w] = assignment[w]
    <3>1. PICK v \in Var : /\ N[v] = 1 /\ assignment[v] = 0
                           /\ \A w \in active : w < v => N[w] = assignment[w]
      BY <2>6
    <3> DEFINE i == CandidateOf(c, v)
    <3>2. v \in 1 .. Len(c) /\ i \in DOMAIN c /\ VarOf(c, i) = v
      BY <1>3, <2>3, <3>1
    <3>3. i \in T /\ i \notin S
      BY <1>8, <2>2, <3>1, <3>2
    <3> HIDE DEF i
    <3>4. ASSUME NEW j \in S, j \notin T PROVE Before(c[i], c[j])
      <4>1. j \in DOMAIN c /\ VarOf(c, j) \in 1 .. Len(c) /\ VarOf(c, j) \in Var /\ CandidateOf(c, VarOf(c, j)) = j
        BY <1>3, <1>7, <2>4
      <4>2. assignment[VarOf(c, j)] = 1 /\ N[VarOf(c, j)] # 1
        BY <1>8, <2>2, <3>4, <4>1
      <4>3. VarOf(c, j) \in active
        BY <1>5, <4>1, <4>2 DEF Unset
      <4>4. ~(VarOf(c, j) < v) /\ VarOf(c, j) # v
        BY <3>1, <4>2, <4>3
      <4>5. VarOf(c, i) < VarOf(c, j)
        BY <3>2, <4>1, <4>4 DEF Var
      <4> QED BY <1>3, <3>2, <4>1, <4>5
    <3> QED BY <3>3, <3>4
  <2> QED BY <2>1, <2>5, <2>6, LeastModel
<1> QED BY <1>7, <1>11, <1>12 DEF First

-----------------------------------------------------------------------------
(***************************************************************************)
(* The walk of order_dependency_solution.                                  *)
(***************************************************************************)

(* A requirement that is met has a provider: a member that no other that meets *)
(* it is preferred to.                                                         *)
LEMMA ProviderFound ==
  ASSUME NEW c, Graph(c), NEW S \in SUBSET (DOMAIN c), \A i, j \in S : i # j => c[i].name # c[j].name,
         NEW r, \E j \in S : MeetsOne(c[j], r)
  PROVE  ProviderOf(c, S, r) \in S /\ MeetsOne(c[ProviderOf(c, S, r)], r)
<1> DEFINE D == {i \in S : MeetsOne(c[i], r)}
           Above(i, j) == \/ c[i].sequence > c[j].sequence
                          \/ c[i].sequence = c[j].sequence /\ Rank[c[i].name] < Rank[c[j].name]
           B == [i \in D |-> {j \in D : Above(j, i)}]
<1>1. IsFiniteSet(D) /\ D # {} /\ D \subseteq S
  <2>1. D \subseteq DOMAIN c
    OBVIOUS
  <2> HIDE DEF D
  <2>2. IsFiniteSet(D)
    BY <2>1, GraphDomain, FS_Subset
  <2> QED BY <2>2 DEF D
<1>2. \A i \in D : c[i].sequence \in Int /\ c[i].name \in DOMAIN Rank /\ Rank[c[i].name] \in Int
  BY ResolutionAssumption DEF Graph
<1>3. ASSUME NEW i \in D, NEW j \in D, i # j PROVE Above(i, j) \/ Above(j, i)
  <2>1. c[i].name # c[j].name
    BY <1>3
  <2>2. Rank[c[i].name] # Rank[c[j].name]
    BY <1>2, <2>1, ResolutionAssumption
  <2>3. /\ c[i].sequence \in Int /\ Rank[c[i].name] \in Int
        /\ c[j].sequence \in Int /\ Rank[c[j].name] \in Int
    BY <1>2
  <2> HIDE DEF D
  <2> QED BY <2>2, <2>3
<1>4. ASSUME NEW i \in D PROVE ~Above(i, i)
  BY <1>2
<1>5. ASSUME NEW i \in D, NEW j \in D, NEW k \in D, Above(i, j), Above(j, k) PROVE Above(i, k)
  BY <1>2, <1>5
<1> HIDE DEF D, Above
<1>6. /\ B \in [D -> SUBSET D] /\ \A x \in D : x \notin B[x]
      /\ \A x, y \in D : x # y => x \in B[y] \/ y \in B[x]
      /\ \A x, y \in D : x \in B[y] => B[x] \subseteq B[y]
  BY <1>3, <1>4, <1>5
<1>7. \A i \in D : B[i] = {j \in D : Above(j, i)}
  OBVIOUS
<1> HIDE DEF B
<1>8. \A n \in 1 .. Cardinality(D) : \E x \in D : Cardinality(B[x]) = n - 1
  BY ONLY <1>1, <1>6, Numbering
<1>9. Cardinality(D) \in Nat /\ Cardinality(D) # 0
  BY <1>1, FS_CardinalityType, FS_EmptySet
<1>10. PICK x \in D : Cardinality(B[x]) = 0
  <2>1. 1 \in 1 .. Cardinality(D)
    BY <1>9
  <2> QED BY <1>8, <2>1
<1>11. B[x] = {}
  <2>1. B[x] \in SUBSET D
    BY <1>6
  <2>2. IsFiniteSet(B[x])
    BY <1>1, <2>1, FS_Subset
  <2> QED BY <1>10, <2>2, FS_EmptySet
<1>12. \A j \in D : ~Above(j, x)
  BY <1>7, <1>11
<1>13. \A j \in S : MeetsOne(c[j], r) => Preferred(c, x, j)
  <2> SUFFICES ASSUME NEW j \in S, MeetsOne(c[j], r) PROVE Preferred(c, x, j)
    OBVIOUS
  <2>1. j \in D
    BY DEF D
  <2>2. ~(c[j].sequence > c[x].sequence) /\ ~(c[j].sequence = c[x].sequence /\ Rank[c[j].name] < Rank[c[x].name])
    BY <1>12, <2>1 DEF Above
  <2>3. /\ c[x].sequence \in Int /\ Rank[c[x].name] \in Int
        /\ c[j].sequence \in Int /\ Rank[c[j].name] \in Int
    BY <1>2, <2>1
  <2> QED BY <2>2, <2>3 DEF Preferred
<1>14. x \in S /\ MeetsOne(c[x], r)
  BY DEF D
<1> QED BY <1>13, <1>14 DEF ProviderOf

(* The edges of a member lead to members, which meet what it requires. *)
LEMMA EdgesFound ==
  ASSUME NEW c, Graph(c), NEW S \in SUBSET (DOMAIN c), Coherent(c, S), NEW i \in S
  PROVE  /\ Edges(c, S, i) \subseteq S
         /\ \A r \in Range(c[i].requirements) :
              \E j \in Edges(c, S, i) \cup {i} : MeetsOne(c[j], r)
<1>1. \A r \in Range(c[i].requirements) : ProviderOf(c, S, r) \in S /\ MeetsOne(c[ProviderOf(c, S, r)], r)
  <2>1. (\A k, j \in S : k # j => c[k].name # c[j].name)
        /\ \A r \in Range(c[i].requirements) : \E j \in S : MeetsOne(c[j], r)
    BY DEF Coherent
  <2> QED BY <2>1, ProviderFound
<1> QED BY <1>1 DEF Edges

(* An entry of the stack: its edges are left, in order, or being walked.        *)
Stage(u, S, marks, order, e, walked) ==
  /\ e = [at |-> e.at, left |-> e.left] /\ e.at \in S /\ marks[e.at] = 1
  /\ IsSequence(e.left) /\ Range(e.left) \subseteq S
  /\ Edges(u, S, e.at) \subseteq Range(e.left) \cup Range(order) \cup walked

(* What the entry above place k of the stack walks. *)
Over(stack, k) == {stack[m].at : m \in (DOMAIN stack) \cap {k + 1}}

(* A walk over a selection: what is in order is marked 2 and comes after what *)
(* it needs; what is on the stack is marked 1; an entry waits for the one     *)
(* above it.                                                                  *)
Walk(u, S, marks, stack, roots, order) ==
  /\ marks \in [DOMAIN u -> {0, 1, 2}]
  /\ IsSequence(order) /\ Range(order) \subseteq S /\ Distinct(order)
  /\ \A i \in DOMAIN u : marks[i] = 2 <=> i \in Range(order)
  /\ IsSequence(roots) /\ Range(roots) \subseteq S /\ IsSequence(stack)
  /\ \A k \in DOMAIN stack : Stage(u, S, marks, order, stack[k], Over(stack, k))
  /\ \A k, m \in DOMAIN stack : k # m => stack[k].at # stack[m].at
  /\ \A i \in S : i \in Range(roots) \/ i \in Range(order) \/ \E k \in DOMAIN stack : stack[k].at = i
  /\ \A n \in DOMAIN order : \A i \in Edges(u, S, order[n]) : \E m \in 1 .. n - 1 : order[m] = i

(* The head and the tail of a sequence that has one. *)
LEMMA HeadAndTail ==
  ASSUME NEW s, IsSequence(s), s # <<>>
  PROVE  /\ Len(s) \in Nat \ {0} /\ IsSequence(Tail(s)) /\ Head(s) \in Range(s)
         /\ Range(Tail(s)) \subseteq Range(s) /\ Range(s) = {Head(s)} \cup Range(Tail(s))
<1>1. Len(s) \in Nat /\ Len(s) \in Nat \ {0} /\ DOMAIN s = 1 .. Len(s) /\ s \in Seq(Range(s))
  BY DEF IsSequence
<1> DEFINE t == Tail(s)
<1>2. Head(s) = s[1] /\ DOMAIN t = 1 .. Len(s) - 1 /\ Len(s) - 1 \in Nat
      /\ \A i \in 1 .. Len(s) - 1 : t[i] = s[i + 1]
  <2> DEFINE R == Range(s)
  <2>1. s \in Seq(R) /\ s # <<>>
    BY <1>1
  <2> HIDE DEF R
  <2>2. /\ t \in Seq(R) /\ Len(t) = Len(s) - 1 /\ \A i \in 1 .. Len(t) : t[i] = s[i + 1]
        /\ Head(s) = s[1]
    BY <2>1, HeadTailProperties
  <2> HIDE DEF t
  <2> QED BY <1>1, <2>2
<1>3. IsSequence(t)
  <2>1. t = [i \in 1 .. Len(s) - 1 |-> t[i]]
    <3> DEFINE R == Range(s)
    <3>1. s \in Seq(R) /\ s # <<>>
      BY <1>1
    <3> HIDE DEF R
    <3>2. t \in Seq(R) /\ Len(t) = Len(s) - 1
      BY <3>1, HeadTailProperties
    <3> HIDE DEF t
    <3> QED BY <3>2
  <2> HIDE DEF t
  <2> QED BY <1>2, <2>1, MappedSequence
<1> HIDE DEF t
<1>4. \A i \in 1 .. Len(s) : i = 1 \/ i - 1 \in 1 .. Len(s) - 1
  BY <1>1
<1>5. \A i \in 1 .. Len(s) - 1 : i + 1 \in 1 .. Len(s)
  BY <1>1
<1>6. Range(t) \subseteq Range(s) /\ Head(s) \in Range(s)
  BY <1>1, <1>2, <1>5 DEF Range
<1>7. ASSUME NEW x \in Range(s) PROVE x = Head(s) \/ x \in Range(t)
  <2>1. PICK i \in 1 .. Len(s) : x = s[i]
    BY <1>1 DEF Range
  <2>2. CASE i = 1
    BY <1>2, <2>1, <2>2
  <2>3. CASE i - 1 \in 1 .. Len(s) - 1
    <3>1. t[i - 1] = s[i] /\ i - 1 \in DOMAIN t
      BY <1>2, <2>3
    <3> QED BY <2>1, <3>1 DEF Range
  <2> QED BY <1>4, <2>2, <2>3
<1> QED BY <1>1, <1>3, <1>6, <1>7 DEF t

(* order_dependency_solution begins with every member to visit. *)
LEMMA WalkBegins ==
  ASSUME NEW u, Graph(u), NEW S \in SUBSET (DOMAIN u)
  PROVE  Walk(u, S, [i \in DOMAIN u |-> 0], <<>>, InKeyOrder(u, S), <<>>)
<1>1. IsSequence(<<>>) /\ Range(<<>>) = {} /\ DOMAIN <<>> = {} /\ Distinct(<<>>)
  BY DEF IsSequence, Range, Distinct
<1>2. IsSequence(InKeyOrder(u, S)) /\ Range(InKeyOrder(u, S)) = S
  BY ResolutionAssumption, CandidatesListed DEF NamesRanked
<1> QED BY <1>1, <1>2 DEF Walk

(* With nothing on the stack and nothing to visit, all is in order. *)
LEMMA WalkEnds ==
  ASSUME NEW u, NEW S, NEW marks, NEW order, Walk(u, S, marks, <<>>, <<>>, order)
  PROVE  /\ Range(order) = S /\ IsSequence(order) /\ Distinct(order)
         /\ \A n \in DOMAIN order : \A i \in Edges(u, S, order[n]) : \E m \in 1 .. n - 1 : order[m] = i
<1>1. Range(<<>>) = {} /\ DOMAIN <<>> = {}
  BY DEF Range
<1> QED BY <1>1 DEF Walk

(* A root that is in order already is passed over.                               *)
LEMMA WalkPasses ==
  ASSUME NEW u, NEW S \in SUBSET (DOMAIN u), NEW marks, NEW stack, NEW roots, NEW order,
         Walk(u, S, marks, stack, roots, order), roots # <<>>, marks[Head(roots)] = 2
  PROVE  Walk(u, S, marks, stack, Tail(roots), order)
<1>1. IsSequence(roots) /\ Range(roots) \subseteq S
  BY DEF Walk
<1>2. /\ IsSequence(Tail(roots)) /\ Head(roots) \in Range(roots)
      /\ Range(Tail(roots)) \subseteq Range(roots) /\ Range(roots) = {Head(roots)} \cup Range(Tail(roots))
  BY <1>1, HeadAndTail
<1>3. Head(roots) \in DOMAIN u
  BY <1>1, <1>2
<1>4. Head(roots) \in Range(order)
  BY <1>3 DEF Walk
<1>5. \A i \in S : i \in Range(Tail(roots)) \/ i \in Range(order) \/ \E k \in DOMAIN stack : stack[k].at = i
  BY <1>2, <1>4 DEF Walk
<1> QED BY <1>1, <1>2, <1>5 DEF Walk

(* A root is entered: it is the only one on the stack, with all its edges left.  *)
LEMMA WalkEntersRoot ==
  ASSUME NEW u, NEW S \in SUBSET (DOMAIN u), NEW marks, NEW roots, NEW order,
         Walk(u, S, marks, <<>>, roots, order), roots # <<>>, marks[Head(roots)] # 2,
         NEW edges, IsSequence(edges), Range(edges) = Edges(u, S, Head(roots)), Range(edges) \subseteq S
  PROVE  Walk(u, S, [marks EXCEPT ![Head(roots)] = 1], <<[at |-> Head(roots), left |-> edges]>>,
              Tail(roots), order)
<1> DEFINE i == Head(roots)
           e == [at |-> i, left |-> edges]
           ms == [marks EXCEPT ![i] = 1]
<1>1. IsSequence(roots) /\ Range(roots) \subseteq S /\ marks \in [DOMAIN u -> {0, 1, 2}]
  BY DEF Walk
<1>2. /\ IsSequence(Tail(roots)) /\ i \in Range(roots)
      /\ Range(Tail(roots)) \subseteq Range(roots) /\ Range(roots) = {i} \cup Range(Tail(roots))
  BY <1>1, HeadAndTail
<1>3. i \in S /\ i \in DOMAIN u /\ i \notin Range(order)
  BY <1>1, <1>2 DEF Walk
<1>4. DOMAIN <<>> = {}
  OBVIOUS
<1>5. IsSequence(<<e>>) /\ DOMAIN <<e>> = {1} /\ <<e>>[1] = e
  BY OneOrTwo
<1>6. e.at = i /\ e.left = edges
  OBVIOUS
<1> HIDE DEF e
<1>7. ms \in [DOMAIN u -> {0, 1, 2}] /\ ms[i] = 1 /\ \A j \in DOMAIN u : j # i => ms[j] = marks[j]
  BY <1>1, <1>3
<1> HIDE DEF ms
<1>8. \A j \in DOMAIN u : ms[j] = 2 <=> j \in Range(order)
  BY <1>3, <1>7 DEF Walk
<1>9. \A j \in S : j \in Range(roots) \/ j \in Range(order)
  BY <1>4 DEF Walk
<1>10. \A j \in S : j \in Range(Tail(roots)) \/ j \in Range(order) \/ \E k \in DOMAIN <<e>> : <<e>>[k].at = j
  BY <1>2, <1>5, <1>6, <1>9
<1>11. \A W : Stage(u, S, ms, order, e, W)
  <2>1. e = [at |-> e.at, left |-> e.left] /\ e.at \in S /\ ms[e.at] = 1
    BY <1>3, <1>6, <1>7 DEF e
  <2> QED BY <1>6, <2>1 DEF Stage
<1>12. \A k, m \in DOMAIN <<e>> : k # m => <<e>>[k].at # <<e>>[m].at
  BY <1>5
<1>13. Walk(u, S, ms, <<e>>, Tail(roots), order)
  <2> DEFINE q == <<e>>
  <2>1. /\ IsSequence(q)
        /\ \A k \in DOMAIN q : Stage(u, S, ms, order, q[k], Over(q, k))
        /\ \A k, m \in DOMAIN q : k # m => q[k].at # q[m].at
        /\ \A j \in S : j \in Range(Tail(roots)) \/ j \in Range(order) \/ \E k \in DOMAIN q : q[k].at = j
    BY <1>5, <1>10, <1>11, <1>12
  <2> HIDE DEF q
  <2>2. Walk(u, S, ms, q, Tail(roots), order)
    BY <1>1, <1>2, <1>7, <1>8, <2>1 DEF Walk
  <2> QED BY <2>2 DEF q
<1> QED BY <1>13 DEF e, ms

(* Arithmetic of the places of a stack. *)
LEMMA Intervals ==
  ASSUME NEW n \in Nat \ {0}
  PROVE  /\ n \in 1 .. n /\ n - 1 \in Nat /\ n + 1 \in 1 .. n + 1 /\ n + 1 \in Nat \ {0} /\ ~(n + 1 \in 1 .. n)
         /\ \A k \in 1 .. n : k \in 1 .. n - 1 \/ k = n
         /\ \A k \in 1 .. n - 1 : k \in 1 .. n /\ k # n /\ k + 1 \in 1 .. n
         /\ \A k \in 1 .. n : k \in 1 .. n + 1 /\ k # n + 1 /\ k + 1 \in 1 .. n + 1 /\ k - 1 \in Nat
         /\ \A k \in 1 .. n + 1 : k \in 1 .. n \/ k = n + 1
         /\ \A k \in 1 .. n : k + 1 \in 1 .. n => k \in 1 .. n - 1
         /\ \A k \in 1 .. n + 1 : k + 1 \in 1 .. n + 1 => k \in 1 .. n
         /\ \A k \in 1 .. n - 1 : k + 1 # n => k + 1 \in 1 .. n - 1
OBVIOUS

(* An entry stays in order when the walk goes on.                                *)
LEMMA StageKept ==
  ASSUME NEW u, NEW S, NEW marks, NEW order, NEW e, NEW W, Stage(u, S, marks, order, e, W),
         NEW ms, NEW new, NEW V, ms[e.at] = 1, Range(order) \subseteq Range(new),
         W \subseteq V \cup Range(new)
  PROVE  Stage(u, S, ms, new, e, V)
BY DEF Stage

(* What taking an edge leaves of an entry.                                       *)
LEMMA StageTaken ==
  ASSUME NEW u, NEW S, NEW marks, NEW order, NEW e, Stage(u, S, marks, order, e, {}), e.left # <<>>,
         NEW f, f = [at |-> e.at, left |-> Tail(e.left)]
  PROVE  /\ Stage(u, S, marks, order, f, {Head(e.left)}) /\ f.at = e.at /\ Head(e.left) \in S
<1>1. f.at = e.at /\ f.left = Tail(e.left) /\ f = [at |-> f.at, left |-> f.left]
  OBVIOUS
<1>2. IsSequence(e.left)
  BY DEF Stage
<1>3. /\ IsSequence(f.left) /\ Head(e.left) \in Range(e.left)
      /\ Range(f.left) \subseteq Range(e.left) /\ Range(e.left) = {Head(e.left)} \cup Range(f.left)
  BY <1>1, <1>2, HeadAndTail
<1> QED BY <1>1, <1>3 DEF Stage

(* A walk with n entries on the stack, the last of which may leave W aside.      *)
Standing(u, S, marks, roots, order, q, n, W) ==
  /\ n \in Nat \ {0} /\ Stage(u, S, marks, order, q[n], W)
  /\ \A k \in 1 .. n - 1 : Stage(u, S, marks, order, q[k], {q[k + 1].at})
  /\ \A k, m \in 1 .. n : k # m => q[k].at # q[m].at
  /\ \A j \in S : j \in Range(roots) \/ j \in Range(order) \/ \E k \in 1 .. n : q[k].at = j

(* The places of a stack, from the bottom to the top. *)
LEMMA StackTop ==
  ASSUME NEW u, NEW S, NEW marks, NEW stack, NEW roots, NEW order,
         Walk(u, S, marks, stack, roots, order), stack # <<>>, NEW n, n = Len(stack)
  PROVE  n \in Nat \ {0} /\ DOMAIN stack = 1 .. n /\ Standing(u, S, marks, roots, order, stack, n, {})
<1>1. IsSequence(stack)
  BY DEF Walk
<1>2. n \in Nat \ {0} /\ DOMAIN stack = 1 .. n
  BY <1>1, HeadAndTail, Indexed
<1>3. \A k \in 1 .. n : Stage(u, S, marks, order, stack[k], Over(stack, k))
  BY <1>2 DEF Walk
<1>4. Over(stack, n) = {} /\ \A k \in 1 .. n - 1 : Over(stack, k) = {stack[k + 1].at}
  <2>1. (DOMAIN stack) \cap {n + 1} = {} /\ \A k \in 1 .. n - 1 : (DOMAIN stack) \cap {k + 1} = {k + 1}
    BY <1>2, Intervals
  <2> QED BY <2>1 DEF Over
<1>5. n \in 1 .. n /\ \A k \in 1 .. n - 1 : k \in 1 .. n
  BY <1>2, Intervals
<1>6. Stage(u, S, marks, order, stack[n], {})
  BY <1>3, <1>4, <1>5
<1>7. \A k \in 1 .. n - 1 : Stage(u, S, marks, order, stack[k], {stack[k + 1].at})
  BY <1>3, <1>4, <1>5
<1>8. \A k, m \in 1 .. n : k # m => stack[k].at # stack[m].at
  BY <1>2 DEF Walk
<1>9. \A i \in S : i \in Range(roots) \/ i \in Range(order) \/ \E k \in 1 .. n : stack[k].at = i
  BY <1>2 DEF Walk
<1> QED BY <1>2, <1>6, <1>7, <1>8, <1>9 DEF Standing

(* The rest of a walk.                                                           *)
LEMMA WalkRest ==
  ASSUME NEW u, NEW S \in SUBSET (DOMAIN u), NEW marks, NEW stack, NEW roots, NEW order,
         Walk(u, S, marks, stack, roots, order)
  PROVE  /\ marks \in [DOMAIN u -> {0, 1, 2}]
         /\ IsSequence(order) /\ Range(order) \subseteq S /\ Distinct(order)
         /\ \A i \in DOMAIN u : marks[i] = 2 <=> i \in Range(order)
         /\ IsSequence(roots) /\ Range(roots) \subseteq S
         /\ \A n \in DOMAIN order : \A i \in Edges(u, S, order[n]) : \E m \in 1 .. n - 1 : order[m] = i
BY DEF Walk

(* The stack q is the stack p with the next edge of its top taken.               *)
Taken(p, q) ==
  /\ IsSequence(q) /\ p # <<>> /\ p[Len(p)].left # <<>>
  /\ \A k \in 1 .. Len(p) - 1 : q[k] = p[k]
  /\ q[Len(p)] = [at |-> p[Len(p)].at, left |-> Tail(p[Len(p)].left)]

(* What taking an edge leaves of the walk, below the entry that may come on top. *)
LEMMA WalkTakes ==
  ASSUME NEW u, NEW S \in SUBSET (DOMAIN u), NEW marks, NEW stack, NEW roots, NEW order,
         Walk(u, S, marks, stack, roots, order), NEW q, Taken(stack, q),
         NEW n, n = Len(stack), NEW i, i = Head(stack[n].left)
  PROVE  i \in S /\ IsSequence(q) /\ Standing(u, S, marks, roots, order, q, n, {i})
<1>1. /\ stack # <<>> /\ stack[n].left # <<>> /\ IsSequence(q)
      /\ \A k \in 1 .. n - 1 : q[k] = stack[k]
      /\ q[n] = [at |-> stack[n].at, left |-> Tail(stack[n].left)]
  BY DEF Taken
<1>2. /\ n \in Nat \ {0}
      /\ Stage(u, S, marks, order, stack[n], {})
      /\ \A k \in 1 .. n - 1 : Stage(u, S, marks, order, stack[k], {stack[k + 1].at})
      /\ \A k, m \in 1 .. n : k # m => stack[k].at # stack[m].at
      /\ \A j \in S : j \in Range(roots) \/ j \in Range(order) \/ \E k \in 1 .. n : stack[k].at = j
  <2>1. Standing(u, S, marks, roots, order, stack, n, {})
    BY <1>1, StackTop
  <2> QED BY <2>1 DEF Standing
<1>3. Stage(u, S, marks, order, q[n], {i}) /\ q[n].at = stack[n].at /\ i \in S
  <2> DEFINE e == stack[n]
             f == q[n]
  <2>1. e.left # <<>> /\ f = [at |-> e.at, left |-> Tail(e.left)] /\ Stage(u, S, marks, order, e, {})
    BY <1>1, <1>2
  <2> HIDE DEF e, f
  <2>2. Stage(u, S, marks, order, f, {Head(e.left)}) /\ f.at = e.at /\ Head(e.left) \in S
    BY ONLY <2>1, StageTaken
  <2> QED BY <2>2 DEF e, f
<1>4. /\ \A k \in 1 .. n : k \in 1 .. n - 1 \/ k = n
      /\ \A k \in 1 .. n - 1 : k + 1 \in 1 .. n
  BY <1>2, Intervals
<1>5. \A k \in 1 .. n : q[k].at = stack[k].at
  BY <1>1, <1>3, <1>4
<1>6. \A k \in 1 .. n - 1 : Stage(u, S, marks, order, q[k], {q[k + 1].at})
  BY <1>1, <1>2, <1>4, <1>5
<1>7. \A k, m \in 1 .. n : k # m => q[k].at # q[m].at
  BY <1>2, <1>5
<1>8. \A j \in S : j \in Range(roots) \/ j \in Range(order) \/ \E k \in 1 .. n : q[k].at = j
  BY <1>2, <1>5
<1> QED BY <1>1, <1>2, <1>3, <1>6, <1>7, <1>8 DEF Standing

(* What makes a stack of entries in order a walk.                                *)
LEMMA Stacked ==
  ASSUME NEW u, NEW S, NEW marks, NEW roots, NEW order, NEW q, NEW n, IsSequence(q),
         Len(q) = n, Standing(u, S, marks, roots, order, q, n, {}),
         marks \in [DOMAIN u -> {0, 1, 2}], IsSequence(order), Range(order) \subseteq S, Distinct(order),
         \A i \in DOMAIN u : marks[i] = 2 <=> i \in Range(order), IsSequence(roots), Range(roots) \subseteq S,
         \A m \in DOMAIN order : \A i \in Edges(u, S, order[m]) : \E h \in 1 .. m - 1 : order[h] = i
  PROVE  Walk(u, S, marks, q, roots, order)
<1>1. /\ n \in Nat \ {0} /\ Stage(u, S, marks, order, q[n], {})
      /\ \A k \in 1 .. n - 1 : Stage(u, S, marks, order, q[k], {q[k + 1].at})
      /\ \A k, m \in 1 .. n : k # m => q[k].at # q[m].at
      /\ \A j \in S : j \in Range(roots) \/ j \in Range(order) \/ \E k \in 1 .. n : q[k].at = j
  BY DEF Standing
<1>2. DOMAIN q = 1 .. n
  BY Indexed
<1>3. ASSUME NEW k \in 1 .. n PROVE Stage(u, S, marks, order, q[k], Over(q, k))
  <2>1. CASE k = n
    <3>1. (DOMAIN q) \cap {n + 1} = {}
      BY <1>1, <1>2, Intervals
    <3>2. Over(q, n) = {}
      BY <3>1 DEF Over
    <3> QED BY <1>1, <2>1, <3>2
  <2>2. CASE k \in 1 .. n - 1
    <3>1. (DOMAIN q) \cap {k + 1} = {k + 1}
      BY <1>1, <1>2, <2>2, Intervals
    <3>2. Over(q, k) = {q[k + 1].at}
      BY <3>1 DEF Over
    <3> QED BY <1>1, <2>2, <3>2
  <2> QED BY <1>1, <2>1, <2>2, Intervals
<1> QED BY <1>1, <1>2, <1>3 DEF Walk

(* An edge to what is in order is done.                                          *)
LEMMA WalkDrops ==
  ASSUME NEW u, NEW S \in SUBSET (DOMAIN u), NEW marks, NEW stack, NEW roots, NEW order,
         Walk(u, S, marks, stack, roots, order), NEW q, Taken(stack, q),
         NEW n, n = Len(stack), Len(q) = n, NEW i, i = Head(stack[n].left), marks[i] = 2
  PROVE  Walk(u, S, marks, q, roots, order)
<1>1. i \in S /\ IsSequence(q) /\ Standing(u, S, marks, roots, order, q, n, {i})
  BY WalkTakes
<1>2. /\ marks \in [DOMAIN u -> {0, 1, 2}]
      /\ IsSequence(order) /\ Range(order) \subseteq S /\ Distinct(order)
      /\ \A j \in DOMAIN u : marks[j] = 2 <=> j \in Range(order)
      /\ IsSequence(roots) /\ Range(roots) \subseteq S
      /\ \A m \in DOMAIN order : \A j \in Edges(u, S, order[m]) : \E h \in 1 .. m - 1 : order[h] = j
  BY DEF Walk
<1>3. i \in Range(order)
  BY <1>1, <1>2
<1>4. Stage(u, S, marks, order, q[n], {})
  <2>1. Stage(u, S, marks, order, q[n], {i})
    BY <1>1 DEF Standing
  <2> QED BY <1>3, <2>1 DEF Stage
<1>5. Standing(u, S, marks, roots, order, q, n, {})
  BY <1>1, <1>4 DEF Standing
<1> QED BY <1>1, <1>2, <1>5, Stacked

(* A step of a walk on its marks: member i gets mark m. *)
Marked(p, q, i, m) == q = [p EXCEPT ![i] = m]

(* A step of a walk on its stack: the top is taken off. *)
Popped(p, q) == q = SubSeq(p, 1, Len(p) - 1)

(* An edge to what has not been entered: it comes on top, with all its edges.    *)
LEMMA WalkEnters ==
  ASSUME NEW u, NEW S \in SUBSET (DOMAIN u), NEW marks, NEW stack, NEW roots, NEW order,
         Walk(u, S, marks, stack, roots, order), NEW q, Taken(stack, q),
         NEW n, n = Len(stack), Len(q) = n + 1,
         NEW i, i = Head(stack[n].left), marks[i] = 0,
         NEW edges, IsSequence(edges), Range(edges) = Edges(u, S, i), Range(edges) \subseteq S,
         q[n + 1] = [at |-> i, left |-> edges], NEW ms, Marked(marks, ms, i, 1)
  PROVE  Walk(u, S, ms, q, roots, order)
<1>1. i \in S /\ IsSequence(q) /\ Standing(u, S, marks, roots, order, q, n, {i})
  BY WalkTakes
<1>2. /\ marks \in [DOMAIN u -> {0, 1, 2}]
      /\ IsSequence(order) /\ Range(order) \subseteq S /\ Distinct(order)
      /\ \A j \in DOMAIN u : marks[j] = 2 <=> j \in Range(order)
      /\ IsSequence(roots) /\ Range(roots) \subseteq S
      /\ \A m \in DOMAIN order : \A j \in Edges(u, S, order[m]) : \E h \in 1 .. m - 1 : order[h] = j
  BY DEF Walk
<1>3. i \in DOMAIN u
  BY <1>1
<1>4. ms \in [DOMAIN u -> {0, 1, 2}] /\ ms[i] = 1 /\ \A j \in DOMAIN u : j # i => ms[j] = marks[j]
  BY <1>2, <1>3 DEF Marked
<1>5. \A j \in DOMAIN u : ms[j] = 2 <=> j \in Range(order)
  BY <1>2, <1>3, <1>4
<1>6. /\ n \in Nat \ {0} /\ Stage(u, S, marks, order, q[n], {i})
      /\ \A k \in 1 .. n - 1 : Stage(u, S, marks, order, q[k], {q[k + 1].at})
      /\ \A k, m \in 1 .. n : k # m => q[k].at # q[m].at
      /\ \A j \in S : j \in Range(roots) \/ j \in Range(order) \/ \E k \in 1 .. n : q[k].at = j
  BY <1>1 DEF Standing
<1>7. /\ n + 1 \in Nat \ {0} /\ n + 1 \in 1 .. n + 1 /\ (n + 1) - 1 = n
      /\ \A k \in 1 .. n : k \in 1 .. n - 1 \/ k = n
      /\ \A k \in 1 .. n : k \in 1 .. n + 1 /\ k # n + 1
      /\ \A k \in 1 .. n + 1 : k \in 1 .. n \/ k = n + 1
  BY <1>6, Intervals
<1>8. q[n + 1].at = i /\ q[n + 1].left = edges /\ q[n + 1] = [at |-> q[n + 1].at, left |-> q[n + 1].left]
  OBVIOUS
<1>9. \A k \in 1 .. n : q[k].at \in S /\ marks[q[k].at] = 1
  BY <1>6, <1>7 DEF Stage
<1>10. \A k \in 1 .. n : q[k].at # i /\ ms[q[k].at] = 1
  <2>1. marks[i] # 1
    OBVIOUS
  <2> QED BY <1>4, <1>9, <2>1
<1>11. \A k, m \in 1 .. n + 1 : k # m => q[k].at # q[m].at
  BY <1>6, <1>7, <1>8, <1>10
<1>12. \A j \in S : j \in Range(roots) \/ j \in Range(order) \/ \E k \in 1 .. n + 1 : q[k].at = j
  BY <1>6, <1>7
<1>13. Stage(u, S, ms, order, q[n + 1], {})
  BY <1>1, <1>4, <1>8 DEF Stage
<1>14. ASSUME NEW k \in 1 .. n PROVE Stage(u, S, ms, order, q[k], {q[k + 1].at})
  <2>1. Stage(u, S, marks, order, q[k], {q[k + 1].at})
    <3>1. k \in 1 .. n - 1 \/ k = n
      BY ONLY <1>7, k \in 1 .. n
    <3>2. CASE k \in 1 .. n - 1
      BY ONLY <1>6, <3>2
    <3>3. CASE k = n
      <4>1. q[k + 1].at = i
        BY ONLY <1>8, <3>3
      <4> QED BY ONLY <1>6, <3>3, <4>1
    <3> QED BY ONLY <3>1, <3>2, <3>3
  <2>2. ms[q[k].at] = 1 /\ Range(order) \subseteq Range(order)
        /\ {q[k + 1].at} \subseteq {q[k + 1].at} \cup Range(order)
    BY <1>10
  <2> QED BY ONLY <2>1, <2>2, StageKept
<1>15. Standing(u, S, ms, roots, order, q, n + 1, {})
  BY <1>7, <1>11, <1>12, <1>13, <1>14 DEF Standing
<1> QED BY <1>1, <1>2, <1>4, <1>5, <1>15, Stacked

(* What is left comes next in order.                                             *)
LEMMA WalkLeaves ==
  ASSUME NEW u, NEW S \in SUBSET (DOMAIN u), NEW marks, NEW stack, NEW roots, NEW order,
         Walk(u, S, marks, stack, roots, order), stack # <<>>, NEW n, n = Len(stack), stack[n].left = <<>>,
         NEW i, i = stack[n].at, NEW ms, Marked(marks, ms, i, 2),
         NEW q, Popped(stack, q), NEW new, new = Append(order, i)
  PROVE  Walk(u, S, ms, q, roots, new)
<1>1. n \in Nat \ {0} /\ DOMAIN stack = 1 .. n /\ Standing(u, S, marks, roots, order, stack, n, {})
  BY StackTop
<1>2. /\ marks \in [DOMAIN u -> {0, 1, 2}]
      /\ IsSequence(order) /\ Range(order) \subseteq S /\ Distinct(order)
      /\ \A j \in DOMAIN u : marks[j] = 2 <=> j \in Range(order)
      /\ IsSequence(roots) /\ Range(roots) \subseteq S
      /\ \A m \in DOMAIN order : \A j \in Edges(u, S, order[m]) : \E h \in 1 .. m - 1 : order[h] = j
  BY DEF Walk
<1>3. /\ n \in 1 .. n /\ n - 1 \in Nat
      /\ \A k \in 1 .. n : k \in 1 .. n - 1 \/ k = n
      /\ \A k \in 1 .. n - 1 : k \in 1 .. n /\ k # n /\ k + 1 \in 1 .. n
      /\ \A k \in 1 .. n - 1 : k + 1 # n => k + 1 \in 1 .. n - 1
  BY <1>1, Intervals
<1>4. IsSequence(q) /\ DOMAIN q = 1 .. n - 1 /\ Len(q) = n - 1 /\ \A k \in 1 .. n - 1 : q[k] = stack[k]
  <2>1. q = [k \in 1 .. n - 1 |-> stack[k]]
    <3>1. q = SubSeq(stack, 1, n - 1)
      BY DEF Popped
    <3> QED BY ONLY <3>1, n \in Nat \ {0}, <1>1
  <2>2. DOMAIN q = 1 .. n - 1 /\ \A k \in 1 .. n - 1 : q[k] = stack[k]
    BY ONLY <2>1
  <2>3. q = [k \in 1 .. n - 1 |-> q[k]]
    BY ONLY <2>1
  <2>4. IsSequence(q)
    BY ONLY <1>3, <2>2, <2>3, MappedSequence
  <2>5. Len(q) = n - 1
    <3>1. Len(q) \in Nat /\ DOMAIN q = 1 .. Len(q)
      BY <2>4, Indexed
    <3> QED BY ONLY <1>3, <2>2, <3>1
  <2> QED BY <2>2, <2>4, <2>5
<1>5. /\ Stage(u, S, marks, order, stack[n], {})
      /\ \A k \in 1 .. n - 1 : Stage(u, S, marks, order, stack[k], {stack[k + 1].at})
      /\ \A k, m \in 1 .. n : k # m => stack[k].at # stack[m].at
      /\ \A j \in S : j \in Range(roots) \/ j \in Range(order) \/ \E k \in 1 .. n : stack[k].at = j
  BY <1>1 DEF Standing
<1>6. i \in S /\ i \in DOMAIN u /\ marks[i] = 1 /\ Edges(u, S, i) \subseteq Range(order)
  <2>1. Range(<<>>) = {}
    BY DEF Range
  <2>2. i \in S /\ marks[i] = 1 /\ Edges(u, S, i) \subseteq Range(stack[n].left) \cup Range(order)
    BY <1>5 DEF Stage
  <2> QED BY <2>1, <2>2
<1>7. i \notin Range(order)
  BY <1>2, <1>6
<1>8. ms \in [DOMAIN u -> {0, 1, 2}] /\ ms[i] = 2 /\ \A j \in DOMAIN u : j # i => ms[j] = marks[j]
  BY <1>2, <1>6 DEF Marked
<1>9. /\ IsSequence(new) /\ Len(order) \in Nat /\ DOMAIN order = 1 .. Len(order)
      /\ DOMAIN new = 1 .. Len(order) + 1
      /\ new[Len(order) + 1] = i /\ \A m \in 1 .. Len(order) : new[m] = order[m]
      /\ Range(new) = Range(order) \cup {i}
  BY <1>2, Indexed, Appended
<1>10. \A m \in 1 .. Len(order) + 1 : m \in 1 .. Len(order) \/ m = Len(order) + 1
  BY <1>9
<1>11. Distinct(new)
  <2>1. Distinct(order) /\ \A m \in 1 .. Len(order) : order[m] # i
    BY <1>2, <1>7, <1>9 DEF Range
  <2> QED BY <1>9, <1>10, <2>1 DEF Distinct
<1>12. (\A j \in DOMAIN u : ms[j] = 2 <=> j \in Range(new)) /\ Range(new) \subseteq S
  BY <1>2, <1>6, <1>8, <1>9
<1>13. \A m \in DOMAIN new : \A j \in Edges(u, S, new[m]) : \E h \in 1 .. m - 1 : new[h] = j
  <2> SUFFICES ASSUME NEW m \in 1 .. Len(order) + 1, NEW j \in Edges(u, S, new[m])
               PROVE  \E h \in 1 .. m - 1 : new[h] = j
    BY <1>9
  <2>1. CASE m \in 1 .. Len(order)
    <3>1. PICK h \in 1 .. m - 1 : order[h] = j
      BY <1>2, <1>9, <2>1
    <3>2. h \in 1 .. Len(order)
      BY <1>9, <2>1
    <3> QED BY <1>9, <3>1, <3>2
  <2>2. CASE m = Len(order) + 1
    <3>1. PICK h \in DOMAIN order : order[h] = j
      BY <1>6, <1>9, <2>2 DEF Range
    <3>2. h \in 1 .. m - 1 /\ new[h] = order[h]
      BY <1>9, <2>2
    <3> QED BY <3>1, <3>2
  <2> QED BY <1>10, <2>1, <2>2
<1>14. \A k \in 1 .. n - 1 : stack[k].at # i /\ ms[stack[k].at] = 1
  <2>1. \A k \in 1 .. n - 1 : stack[k].at \in S /\ marks[stack[k].at] = 1
    BY <1>5 DEF Stage
  <2>2. \A k \in 1 .. n - 1 : stack[k].at # i
    BY <1>3, <1>5
  <2> QED BY <1>8, <2>1, <2>2
<1>15. \A k, m \in 1 .. n - 1 : k # m => q[k].at # q[m].at
  BY ONLY <1>3, <1>4, <1>5
<1>16. \A j \in S : j \in Range(roots) \/ j \in Range(new) \/ \E k \in 1 .. n - 1 : q[k].at = j
  <2> SUFFICES ASSUME NEW j \in S, j \notin Range(roots), j \notin Range(new)
               PROVE  \E k \in 1 .. n - 1 : q[k].at = j
    OBVIOUS
  <2>1. j # i /\ j \notin Range(order)
    BY <1>9
  <2>2. PICK k \in 1 .. n : stack[k].at = j
    BY ONLY <1>5, <2>1, j \in S, j \notin Range(roots)
  <2>3. k # n
    BY <2>1, <2>2
  <2>4. k \in 1 .. n - 1
    BY ONLY <1>3, <2>3, k \in 1 .. n
  <2>5. q[k].at = j
    BY ONLY <1>4, <2>2, <2>4
  <2> QED BY ONLY <2>4, <2>5
<1>17. Range(order) \subseteq Range(new) /\ i \in Range(new)
  BY <1>9
<1>18. \A k \in 1 .. n - 1 : Stage(u, S, marks, order, q[k], {stack[k + 1].at}) /\ ms[q[k].at] = 1
  BY <1>4, <1>5, <1>14
<1>19. ASSUME NEW k \in 1 .. n - 1, k + 1 # n
       PROVE  Stage(u, S, ms, new, q[k], {q[k + 1].at})
  <2>1. q[k + 1] = stack[k + 1]
    BY <1>3, <1>4, <1>19
  <2>2. Stage(u, S, marks, order, q[k], {q[k + 1].at}) /\ ms[q[k].at] = 1
    BY ONLY <1>18, <2>1, <1>19
  <2>3. {q[k + 1].at} \subseteq {q[k + 1].at} \cup Range(new)
    OBVIOUS
  <2> QED BY ONLY <1>17, <2>2, <2>3, StageKept
<1>20. ASSUME NEW k \in 1 .. n - 1, k + 1 = n
       PROVE  Stage(u, S, ms, new, q[k], {})
  <2>1. Stage(u, S, marks, order, q[k], {i}) /\ ms[q[k].at] = 1
    BY ONLY <1>18, <1>20, i = stack[n].at
  <2>2. {i} \subseteq {} \cup Range(new)
    BY <1>17
  <2> QED BY ONLY <1>17, <2>1, <2>2, StageKept
<1>21. CASE n - 1 = 0
  <2> \A k : ~(k \in 1 .. n - 1)
    BY ONLY <1>3, <1>21
  <2>1. DOMAIN q = {}
    BY ONLY <1>4, \A k : ~(k \in 1 .. n - 1)
  <2>2. \A j \in S : j \in Range(roots) \/ j \in Range(new)
    BY ONLY <1>16, \A k : ~(k \in 1 .. n - 1)
  <2> QED BY ONLY <1>2, <1>4, <1>8, <1>9, <1>11, <1>12, <1>13, <2>1, <2>2 DEF Walk
<1>22. CASE n - 1 \in Nat \ {0}
  <2> DEFINE m == n - 1
  <2>1. /\ m \in Nat \ {0} /\ m \in 1 .. n - 1 /\ m + 1 = n
        /\ \A k \in 1 .. m - 1 : k \in 1 .. n - 1 /\ k + 1 # n
    BY <1>1, <1>22
  <2>2. Standing(u, S, ms, roots, new, q, m, {})
    BY <1>15, <1>16, <1>19, <1>20, <2>1 DEF Standing
  <2>3. Len(q) = m
    BY <1>4
  <2> HIDE DEF m
  <2> QED BY ONLY <1>2, <1>4, <1>8, <1>9, <1>11, <1>12, <1>13, <2>2, <2>3, Stacked
<1> QED BY <1>3, <1>21, <1>22

-----------------------------------------------------------------------------
(***************************************************************************)
(* The candidates of a configuration.                                      *)
(***************************************************************************)

(* Candidate c is record n of the repository k.                                  *)
Origin(cfg, c, k, n) ==
  /\ k \in DOMAIN Repositories(cfg) /\ n \in DOMAIN Repositories(cfg)[k].document.packages
  /\ c = Candidate(Repositories(cfg)[k], c.route, n)
  /\ c.route = IF k <= Len(cfg.natives) THEN "native" ELSE "source"

(* The fields of a candidate are those of its record. *)
LEMMA CandidateFields ==
  ASSUME NEW repo, NEW route, NEW n, NEW c, c = Candidate(repo, route, n)
  PROVE  /\ c.route = route /\ c.place = n /\ c.provider = repo.name
         /\ c.name = repo.document.packages[n].name /\ c.version = repo.document.packages[n].version
         /\ c.sequence = repo.document.packages[n].sequence
         /\ c.requirements = repo.document.packages[n].requirements
         /\ c.conflicts = repo.document.packages[n].conflicts
         /\ c.record = repo.document.packages[n]
BY DEF Candidate

(* The repositories one after the other.                                         *)
LEMMA RepositoriesAre ==
  ASSUME NEW cfg, ConfigShaped(cfg)
  PROVE  /\ Len(cfg.natives) \in Nat /\ DOMAIN cfg.natives = 1 .. Len(cfg.natives)
         /\ Len(cfg.sources) \in Nat /\ DOMAIN cfg.sources = 1 .. Len(cfg.sources)
         /\ DOMAIN Repositories(cfg) = 1 .. Len(cfg.natives) + Len(cfg.sources)
         /\ \A k \in DOMAIN cfg.natives : Repositories(cfg)[k] = cfg.natives[k]
         /\ \A k \in DOMAIN cfg.sources : Repositories(cfg)[k + Len(cfg.natives)] = cfg.sources[k]
         /\ \A k \in DOMAIN Repositories(cfg) :
              /\ Repositories(cfg)[k] \in Range(cfg.natives) \cup Range(cfg.sources)
              /\ k <= Len(cfg.natives) => Repositories(cfg)[k] \in Range(cfg.natives)
              /\ ~(k <= Len(cfg.natives)) => Repositories(cfg)[k] \in Range(cfg.sources)
<1> DEFINE a == cfg.natives
           b == cfg.sources
           r == a \o b
<1>1. IsSequence(a) /\ IsSequence(b)
  BY DEF ConfigShaped
<1> HIDE DEF a, b
<1>2. Len(a) \in Nat /\ DOMAIN a = 1 .. Len(a) /\ Len(b) \in Nat /\ DOMAIN b = 1 .. Len(b)
  BY <1>1, Indexed
<1>3. a \in Seq(Range(a) \cup Range(b)) /\ b \in Seq(Range(a) \cup Range(b))
  BY <1>1 DEF IsSequence
<1>4. /\ DOMAIN r = 1 .. Len(a) + Len(b)
      /\ \A k \in 1 .. Len(a) : r[k] = a[k]
      /\ \A k \in 1 .. Len(b) : r[k + Len(a)] = b[k]
  <2> DEFINE R == Range(a) \cup Range(b)
  <2> HIDE DEF R
  <2>1. a \in Seq(R) /\ b \in Seq(R)
    BY <1>3 DEF R
  <2> QED BY <1>2, <2>1
<1> HIDE DEF r
<1>5. \A k \in 1 .. Len(a) + Len(b) : ~(k <= Len(a)) => k - Len(a) \in 1 .. Len(b) /\ (k - Len(a)) + Len(a) = k
  BY <1>2
<1>6. \A k \in 1 .. Len(a) + Len(b) : k <= Len(a) => k \in 1 .. Len(a)
  BY <1>2
<1>7. ASSUME NEW k \in 1 .. Len(a) + Len(b)
      PROVE  /\ k <= Len(a) => r[k] \in Range(a)
             /\ ~(k <= Len(a)) => r[k] \in Range(b)
  <2>1. CASE k <= Len(a)
    BY <1>2, <1>4, <1>6, <2>1 DEF Range
  <2>2. CASE ~(k <= Len(a))
    <3> DEFINE m == k - Len(a)
    <3>1. m \in 1 .. Len(b) /\ r[m + Len(a)] = b[m] /\ m + Len(a) = k
      BY <1>4, <1>5, <2>2
    <3> HIDE DEF m
    <3> QED BY <1>2, <2>2, <3>1 DEF Range
  <2> QED BY <2>1, <2>2
<1> QED BY <1>2, <1>4, <1>7 DEF Repositories, a, b, r

(* Every candidate is a record of a repository. *)
LEMMA Origins ==
  ASSUME NEW cfg, ConfigShaped(cfg), NEW c \in Collect(cfg)
  PROVE  \E k, n : Origin(cfg, c, k, n)
<1>1. /\ Len(cfg.natives) \in Nat /\ DOMAIN cfg.natives = 1 .. Len(cfg.natives)
      /\ Len(cfg.sources) \in Nat /\ DOMAIN cfg.sources = 1 .. Len(cfg.sources)
      /\ DOMAIN Repositories(cfg) = 1 .. Len(cfg.natives) + Len(cfg.sources)
      /\ \A k \in DOMAIN cfg.natives : Repositories(cfg)[k] = cfg.natives[k]
      /\ \A k \in DOMAIN cfg.sources : Repositories(cfg)[k + Len(cfg.natives)] = cfg.sources[k]
  BY RepositoriesAre
<1>2. CASE \E repo \in Range(cfg.natives) : c \in NativeRecords(repo)
  <2>1. PICK k \in DOMAIN cfg.natives : c \in NativeRecords(cfg.natives[k])
    BY <1>2 DEF Range
  <2>2. PICK n \in DOMAIN cfg.natives[k].document.packages : c = Candidate(cfg.natives[k], "native", n)
    BY <2>1 DEF NativeRecords
  <2>3. c.route = "native"
    BY <2>2, CandidateFields
  <2>4. k \in DOMAIN Repositories(cfg) /\ k <= Len(cfg.natives) /\ Repositories(cfg)[k] = cfg.natives[k]
    <3> DEFINE a == Len(cfg.natives)
               b == Len(cfg.sources)
    <3>1. a \in Nat /\ b \in Nat /\ k \in 1 .. a /\ DOMAIN Repositories(cfg) = 1 .. a + b
      BY <1>1
    <3> HIDE DEF a, b
    <3>2. k \in 1 .. a + b /\ k <= a
      BY <3>1
    <3> QED BY <1>1, <3>1, <3>2 DEF a
  <2>5. Origin(cfg, c, k, n)
    BY <2>2, <2>3, <2>4 DEF Origin
  <2> QED BY <2>5
<1>3. CASE \E repo \in Range(cfg.sources) : c \in SourceRecords(repo, cfg.compiler.arch)
  <2>1. PICK k \in DOMAIN cfg.sources : c \in SourceRecords(cfg.sources[k], cfg.compiler.arch)
    BY <1>3 DEF Range
  <2>2. PICK n \in DOMAIN cfg.sources[k].document.packages : c = Candidate(cfg.sources[k], "source", n)
    BY <2>1 DEF SourceRecords
  <2>3. c.route = "source"
    BY <2>2, CandidateFields
  <2> DEFINE m == k + Len(cfg.natives)
  <2>4. m \in DOMAIN Repositories(cfg) /\ ~(m <= Len(cfg.natives)) /\ Repositories(cfg)[m] = cfg.sources[k]
    <3> DEFINE a == Len(cfg.natives)
               b == Len(cfg.sources)
    <3>1. a \in Nat /\ b \in Nat /\ k \in 1 .. b /\ DOMAIN Repositories(cfg) = 1 .. a + b /\ m = k + a
      BY <1>1
    <3>2. Repositories(cfg)[m] = cfg.sources[k]
      BY <1>1
    <3> HIDE DEF a, b
    <3>3. m \in 1 .. a + b /\ ~(m <= a)
      BY <3>1
    <3> QED BY <3>1, <3>2, <3>3 DEF a
  <2> HIDE DEF m
  <2>5. Origin(cfg, c, m, n)
    BY <2>2, <2>3, <2>4 DEF Origin
  <2> QED BY <2>5
<1> QED BY <1>2, <1>3 DEF Collect

(* A configuration that a call may run under.                                    *)
InOrder(cfg) == cfg \in Config /\ ConfigValid(cfg)

(* A configuration in order has documents of the assumed shape and no two *)
(* repositories of one name.                                              *)
LEMMA Shapes ==
  ASSUME NEW cfg, InOrder(cfg)
  PROVE  ConfigShaped(cfg) /\ Distinct([n \in DOMAIN Repositories(cfg) |-> Repositories(cfg)[n].name])
BY ResolutionAssumption DEF InOrder, ConfigValid

(* What is known of a candidate.                                                 *)
Formed(c) ==
  /\ c.name \in DOMAIN Rank /\ c.version \in DOMAIN Rank /\ c.sequence \in Int
  /\ IsSequence(c.requirements) /\ IsSequence(c.conflicts)
  /\ \A r \in Range(c.requirements) : IsFiniteSet(r)

(* Every record of a repository has the assumed shape. *)
LEMMA RecordShaped ==
  ASSUME NEW cfg, ConfigShaped(cfg), NEW k \in DOMAIN Repositories(cfg)
  PROVE  /\ IsSequence(Repositories(cfg)[k].document.packages)
         /\ \A n \in DOMAIN Repositories(cfg)[k].document.packages :
              Shaped(Repositories(cfg)[k].document.packages[n])
<1> DEFINE repo == Repositories(cfg)[k]
<1>1. repo \in Range(cfg.natives) \cup Range(cfg.sources)
  BY RepositoriesAre
<1> HIDE DEF repo
<1>2. IsSequence(repo.document.packages) /\ \A p \in Range(repo.document.packages) : Shaped(p)
  BY <1>1 DEF ConfigShaped
<1> QED BY <1>2 DEF repo, Range

(* So has every candidate. *)
LEMMA CandidatesFormed ==
  ASSUME NEW cfg, ConfigShaped(cfg), NEW c \in Collect(cfg)
  PROVE  Formed(c) /\ c.route \in {"native", "source"} /\ c.place \in Int
<1>1. PICK k, n : Origin(cfg, c, k, n)
  BY Origins
<1> DEFINE repo == Repositories(cfg)[k]
           p == repo.document.packages[n]
<1>2. /\ c.name = p.name /\ c.version = p.version /\ c.sequence = p.sequence
      /\ c.requirements = p.requirements /\ c.conflicts = p.conflicts /\ c.place = n
  BY <1>1, CandidateFields DEF Origin
<1>3. IsSequence(repo.document.packages) /\ n \in DOMAIN repo.document.packages /\ Shaped(p)
  BY <1>1, RecordShaped DEF Origin
<1>4. n \in Int
  BY <1>3, Indexed
<1>5. c.route \in {"native", "source"}
  BY <1>1 DEF Origin
<1> HIDE DEF p, repo
<1> QED BY <1>2, <1>3, <1>4, <1>5 DEF Formed, Shaped

(* A candidate is known by its provider and its place there.                     *)
LEMMA SameProvider ==
  ASSUME NEW cfg, InOrder(cfg), NEW c, NEW d, NEW k, NEW m, NEW l, NEW n,
         Origin(cfg, c, k, m), Origin(cfg, d, l, n), c.provider = d.provider
  PROVE  k = l /\ c.route = d.route
<1> DEFINE names == [i \in DOMAIN Repositories(cfg) |-> Repositories(cfg)[i].name]
<1>1. Distinct(names)
  BY Shapes
<1>2. k \in DOMAIN names /\ l \in DOMAIN names
  BY DEF Origin
<1>3. names[k] = c.provider /\ names[l] = d.provider
  BY CandidateFields DEF Origin
<1> HIDE DEF names
<1>4. k = l
  BY <1>1, <1>2, <1>3 DEF Distinct
<1> QED BY <1>4 DEF Origin

(* Candidates of one provider at one place are one. *)
LEMMA KnownByPlace ==
  ASSUME NEW cfg, InOrder(cfg), NEW c \in Collect(cfg), NEW d \in Collect(cfg),
         c.provider = d.provider, c.place = d.place
  PROVE  c = d
<1>1. PICK k, m : Origin(cfg, c, k, m)
  BY Origins, Shapes
<1>2. PICK l, n : Origin(cfg, d, l, n)
  BY Origins, Shapes
<1>3. k = l /\ c.route = d.route
  BY <1>1, <1>2, SameProvider
<1>4. c.place = m /\ d.place = n
  BY <1>1, <1>2, CandidateFields DEF Origin
<1> QED BY <1>1, <1>2, <1>3, <1>4 DEF Origin

(* And, when the repositories can be read, by the key it has in a graph.         *)
LEMMA KnownByKey ==
  ASSUME NEW cfg, InOrder(cfg), Readable(cfg), NEW c \in Collect(cfg), NEW d \in Collect(cfg),
         GraphKey(c) = GraphKey(d)
  PROVE  c = d
<1>1. PICK k, m : Origin(cfg, c, k, m)
  BY Origins, Shapes
<1>2. PICK l, n : Origin(cfg, d, l, n)
  BY Origins, Shapes
<1>3. c.provider = d.provider /\ c.name = d.name /\ c.version = d.version
  BY DEF GraphKey
<1>4. k = l
  BY <1>1, <1>2, <1>3, SameProvider
<1> DEFINE repo == Repositories(cfg)[k]
           ps == repo.document.packages
<1>5. m \in DOMAIN ps /\ n \in DOMAIN ps
  BY <1>1, <1>2, <1>4 DEF Origin
<1>6. /\ c.place = m /\ c.name = ps[m].name /\ c.version = ps[m].version
      /\ d.place = n /\ d.name = ps[n].name /\ d.version = ps[n].version
  <2>1. c = Candidate(repo, c.route, m) /\ d = Candidate(repo, d.route, n)
    BY <1>1, <1>2, <1>4 DEF Origin
  <2> HIDE DEF repo
  <2>2. c.place = m /\ c.name = ps[m].name /\ c.version = ps[m].version
    BY <2>1, CandidateFields
  <2>3. d.place = n /\ d.name = ps[n].name /\ d.version = ps[n].version
    BY <2>1, CandidateFields
  <2> QED BY <2>2, <2>3
<1>7. NoTwins(ps)
  <2>1. repo \in Range(cfg.natives) \cup Range(cfg.sources)
    BY <1>1, RepositoriesAre, Shapes DEF Origin
  <2> HIDE DEF repo
  <2>2. CASE repo \in Range(cfg.natives)
    BY <2>2 DEF Readable, IndexValid
  <2>3. CASE repo \in Range(cfg.sources)
    BY <2>3 DEF Readable, CatalogValid
  <2> QED BY <2>1, <2>2, <2>3
<1> HIDE DEF ps
<1>8. m = n
  BY <1>3, <1>5, <1>6, <1>7 DEF NoTwins
<1> QED BY <1>3, <1>6, <1>8, KnownByPlace

(* The candidates of a configuration are finitely many. *)
LEMMA CollectFinite ==
  ASSUME NEW cfg, InOrder(cfg)
  PROVE  IsFiniteSet(Collect(cfg))
<1> DEFINE K == DOMAIN Repositories(cfg)
           P(k) == DOMAIN Repositories(cfg)[k].document.packages
           Ts == {{<<k, n>> : n \in P(k)} : k \in K}
           S == UNION Ts
<1>1. ConfigShaped(cfg)
  BY Shapes
<1>2. IsFiniteSet(K)
  <2>1. Len(cfg.natives) \in Nat /\ Len(cfg.sources) \in Nat /\ K = 1 .. Len(cfg.natives) + Len(cfg.sources)
    BY <1>1, RepositoriesAre
  <2> DEFINE t == Len(cfg.natives) + Len(cfg.sources)
  <2>2. t \in Int /\ K = 1 .. t
    BY <2>1
  <2> HIDE DEF K, t
  <2>3. IsFiniteSet(1 .. t)
    BY <2>2, FS_Interval
  <2> QED BY <2>2, <2>3
<1>3. ASSUME NEW k \in K PROVE IsFiniteSet({<<k, n>> : n \in P(k)})
  <2> DEFINE T == {<<k, n>> : n \in P(k)}
             f == [n \in P(k) |-> <<k, n>>]
  <2>1. f \in Surjection(P(k), T)
    BY DEF Surjection
  <2>2. Len(Repositories(cfg)[k].document.packages) \in Nat
        /\ P(k) = 1 .. Len(Repositories(cfg)[k].document.packages)
    BY <1>1, RecordShaped, Indexed
  <2>3. IsFiniteSet(P(k))
    BY <2>2, FS_Interval
  <2> HIDE DEF f, T, P
  <2>4. IsFiniteSet(T)
    BY <2>1, <2>3, FS_Surjection
  <2> QED BY <2>4 DEF T
<1>4. IsFiniteSet(S)
  <2> DEFINE g == [k \in K |-> {<<k, n>> : n \in P(k)}]
  <2>1. g \in Surjection(K, Ts)
    BY DEF Surjection
  <2>2. \A T \in Ts : IsFiniteSet(T)
    BY <1>3
  <2> HIDE DEF g, Ts, K
  <2>3. IsFiniteSet(Ts)
    BY <1>2, <2>1, FS_Surjection
  <2> QED BY <2>2, <2>3, FS_UNION
<1> DEFINE at == [c \in Collect(cfg) |-> CHOOSE q \in S : Origin(cfg, c, q[1], q[2])]
<1>5. ASSUME NEW c \in Collect(cfg) PROVE \E q \in S : Origin(cfg, c, q[1], q[2])
  <2>1. PICK k, n : Origin(cfg, c, k, n)
    BY <1>1, Origins
  <2> DEFINE q == <<k, n>>
  <2>2. q \in S /\ q[1] = k /\ q[2] = n
    BY <2>1 DEF Origin
  <2> HIDE DEF q, S
  <2> QED BY <2>1, <2>2
<1> HIDE DEF S, Ts, K, P
<1>6. \A c \in Collect(cfg) : at[c] \in S /\ Origin(cfg, c, at[c][1], at[c][2])
  BY <1>5
<1>7. ASSUME NEW c \in Collect(cfg), NEW d \in Collect(cfg), at[c] = at[d] PROVE c = d
  <2>1. Origin(cfg, c, at[c][1], at[c][2]) /\ Origin(cfg, d, at[c][1], at[c][2])
    BY <1>6, <1>7
  <2> QED BY <2>1 DEF Origin
<1>8. at \in Injection(Collect(cfg), S)
  <2> HIDE DEF at
  <2>1. at \in [Collect(cfg) -> S]
    BY <1>6 DEF at
  <2> QED BY <1>7, <2>1 DEF Injection, IsInjective
<1> HIDE DEF at
<1> QED BY <1>4, <1>8, FS_Injection

(* The candidates of one provider are in one order: no two are at one place.     *)
LEMMA ProviderListed ==
  ASSUME NEW cfg, InOrder(cfg), NEW D \in SUBSET Collect(cfg), \A c, d \in D : c.provider = d.provider
  PROVE  IsSequence(Listed(D, Sooner)) /\ Range(Listed(D, Sooner)) = D
<1> DEFINE B == [c \in D |-> {d \in D : Sooner(d, c)}]
           L == Listed(D, Sooner)
<1>1. IsFiniteSet(D)
  BY CollectFinite, FS_Subset
<1>2. \A c \in D : /\ c.sequence \in Int /\ c.place \in Int
                   /\ c.version \in DOMAIN Rank /\ Rank[c.version] \in Int
  BY CandidatesFormed, Shapes, ResolutionAssumption DEF Formed
<1>3. ASSUME NEW c \in D, NEW d \in D, c # d PROVE Sooner(c, d) \/ Sooner(d, c)
  <2>1. c.place # d.place
    BY <1>3, KnownByPlace
  <2>2. c.version # d.version => Rank[c.version] # Rank[d.version]
    BY <1>2, ResolutionAssumption
  <2>3. /\ c.sequence \in Int /\ c.place \in Int /\ Rank[c.version] \in Int
        /\ d.sequence \in Int /\ d.place \in Int /\ Rank[d.version] \in Int
    BY <1>2
  <2> QED BY <2>1, <2>2, <2>3 DEF Sooner
<1>4. ASSUME NEW c \in D PROVE ~Sooner(c, c)
  BY <1>2 DEF Sooner
<1>5. ASSUME NEW c \in D, NEW d \in D, NEW e \in D, Sooner(c, d), Sooner(d, e) PROVE Sooner(c, e)
  <2>1. /\ c.sequence \in Int /\ c.place \in Int /\ Rank[c.version] \in Int
        /\ d.sequence \in Int /\ d.place \in Int /\ Rank[d.version] \in Int
        /\ e.sequence \in Int /\ e.place \in Int /\ Rank[e.version] \in Int
    BY <1>2
  <2> QED BY <1>5, <2>1 DEF Sooner
<1>6. /\ B \in [D -> SUBSET D] /\ \A c \in D : c \notin B[c]
      /\ \A c, d \in D : c # d => c \in B[d] \/ d \in B[c]
      /\ \A c, d \in D : c \in B[d] => B[c] \subseteq B[d]
  BY <1>3, <1>4, <1>5
<1>7. \A n \in 1 .. Cardinality(D) : \E c \in D : Cardinality(B[c]) = n - 1
  <2> HIDE DEF B
  <2> QED BY <1>1, <1>6, Numbering
<1>8. \A n \in 1 .. Cardinality(D) : \E c \in D : Cardinality({d \in D : Sooner(d, c)}) = n - 1
  BY <1>7
<1>9. L = [n \in 1 .. Cardinality(D) |->
             CHOOSE c \in D : Cardinality({d \in D : Sooner(d, c)}) = n - 1]
  BY DEF Listed
<1> HIDE DEF L
<1>10. \A n \in 1 .. Cardinality(D) :
        L[n] = CHOOSE c \in D : Cardinality({d \in D : Sooner(d, c)}) = n - 1
  BY <1>9
<1>11. \A n \in 1 .. Cardinality(D) : L[n] \in D /\ Cardinality({d \in D : Sooner(d, L[n])}) = n - 1
  BY <1>8, <1>10
<1>12. L \in [1 .. Cardinality(D) -> D]
  BY <1>8, <1>9
<1>13. \A n \in 1 .. Cardinality(D) : Cardinality(B[L[n]]) = n - 1
  BY <1>11
<1>14. Lists(L, D)
  <2> HIDE DEF B
  <2> QED BY <1>1, <1>6, <1>12, <1>13, ListInOrder
<1>15. L \in Seq(D) /\ Range(L) = D
  BY <1>1, <1>14, ListsIsSequence
<1> QED BY <1>15 DEF L, IsSequence

(* candidate_domain lists candidates of those it is given, and no others. *)
LEMMA DomainHolds ==
  ASSUME NEW cfg, InOrder(cfg), NEW C \in SUBSET Collect(cfg), NEW namespace, NEW installed
  PROVE  IsSequence(Domain(C, namespace, installed)) /\ Range(Domain(C, namespace, installed)) \subseteq C
<1> DEFINE top == Highest(Admissible(C, namespace, installed))
           D == {c \in top : c.provider = FirstProvider(top)}
<1>1. top \subseteq C
  <2>1. Admissible(C, namespace, installed) \subseteq C
    BY DEF Admissible
  <2> QED BY <2>1 DEF Highest
<1>2. CASE top = {}
  <2>1. Domain(C, namespace, installed) = <<>>
    BY <1>2 DEF Domain
  <2>2. IsSequence(<<>>) /\ Range(<<>>) = {}
    BY DEF IsSequence, Range
  <2> QED BY <2>1, <2>2
<1>3. CASE top # {}
  <2>1. Domain(C, namespace, installed) = Listed(D, Sooner)
    BY <1>3 DEF Domain
  <2>2. D \in SUBSET Collect(cfg) /\ D \subseteq C /\ \A c, d \in D : c.provider = d.provider
    BY <1>1
  <2> HIDE DEF D
  <2> QED BY <2>1, <2>2, ProviderListed
<1> QED BY <1>2, <1>3

(* Eligible, of a configuration and a verb.                                      *)
DomainIn(cfg, k) ==
  Kept(Domain({c \in Collect(cfg) : Meets(c, k)}, None, None), LAMBDA c : Meets(c, k))

(* The eligible candidates of a constraint: a build root takes native *)
(* packages only.                                                     *)
EligibleIn(cfg, verb, k) ==
  IF verb = "build" THEN Kept(DomainIn(cfg, k), LAMBDA c : c.route = "native") ELSE DomainIn(cfg, k)

(* Which is what Eligible says of the job at hand. *)
LEMMA EligibleIs == \A k : Eligible(k) = EligibleIn(job.cfg, job.verb, k)
BY DEF Eligible, EligibleIn, DomainFor, DomainIn, CollectFor

(* The eligible candidates of a constraint are a sequence of candidates. *)
LEMMA EligibleHolds ==
  ASSUME NEW cfg, InOrder(cfg), NEW verb, NEW k
  PROVE  /\ IsSequence(EligibleIn(cfg, verb, k)) /\ Range(EligibleIn(cfg, verb, k)) \subseteq Collect(cfg)
         /\ verb = "build" => \A c \in Range(EligibleIn(cfg, verb, k)) : c.route = "native"
<1> DEFINE s == Domain({c \in Collect(cfg) : Meets(c, k)}, None, None)
<1>1. IsSequence(s) /\ Range(s) \subseteq Collect(cfg)
  BY DomainHolds
<1> DEFINE D == {i \in DOMAIN s : Meets(s[i], k)}
           d == DomainIn(cfg, k)
<1>2. IsSequence(d) /\ Range(d) = {s[i] : i \in D}
  <2> DEFINE at == Listed(D, <)
             L == [n \in DOMAIN at |-> s[at[n]]]
  <2>1. d = L
    BY DEF DomainIn, Kept
  <2>2. D \in SUBSET (DOMAIN s) /\ s \in Seq(Range(s))
    BY <1>1 DEF IsSequence
  <2>3. L \in Seq(Range(L)) /\ Range(L) = {s[i] : i \in D}
    <3> HIDE DEF D, s
    <3> QED BY <2>2, KeptNumbers
  <2> HIDE DEF L, d
  <2> QED BY <2>1, <2>3 DEF IsSequence
<1>3. Range(d) \subseteq Collect(cfg)
  <2> HIDE DEF d, s
  <2> QED BY <1>1, <1>2 DEF Range
<1> HIDE DEF d
<1> DEFINE N == {i \in DOMAIN d : d[i].route = "native"}
           e == EligibleIn(cfg, verb, k)
<1>4. CASE verb = "build"
  <2> DEFINE at == Listed(N, <)
             L == [n \in DOMAIN at |-> d[at[n]]]
  <2>1. e = L
    BY <1>4 DEF EligibleIn, Kept, d
  <2>2. N \in SUBSET (DOMAIN d) /\ d \in Seq(Range(d))
    BY <1>2 DEF IsSequence
  <2>3. L \in Seq(Range(L)) /\ Range(L) = {d[i] : i \in N}
    <3> HIDE DEF N
    <3> QED BY <2>2, KeptNumbers
  <2>4. {d[i] : i \in N} \subseteq Collect(cfg) /\ \A c \in {d[i] : i \in N} : c.route = "native"
    BY <1>3 DEF Range
  <2> HIDE DEF L, e, N
  <2> QED BY <2>1, <2>3, <2>4 DEF IsSequence, e
<1>5. CASE verb # "build"
  <2>1. e = d
    BY <1>5 DEF EligibleIn, d
  <2> QED BY <1>2, <1>3, <1>5, <2>1
<1> QED BY <1>4, <1>5

(* A finite set as a sequence.                                                   *)
LEMMA SetListed ==
  ASSUME NEW S, IsFiniteSet(S)
  PROVE  IsSequence(SetToSeq(S)) /\ Range(SetToSeq(S)) = S
<1> DEFINE n == Cardinality(S)
           s == SetToSeq(S)
<1>1. n \in Nat /\ ExistsBijection(1 .. n, S)
  BY FS_CardinalityType
<1>2. \E f \in [1 .. n -> S] : IsInjective(f)
  BY <1>1 DEF ExistsBijection, Bijection, Injection, IsInjective
<1>3. s \in [1 .. n -> S] /\ IsInjective(s)
  BY <1>2 DEF SetToSeq
<1> HIDE DEF s
<1>4. s \in Injection(1 .. n, S)
  BY <1>3 DEF Injection, IsInjective
<1>5. IsFiniteSet(1 .. n) /\ Cardinality(1 .. n) = n
  <2> HIDE DEF n
  <2> QED BY <1>1, FS_Interval
<1>6. s \in Surjection(1 .. n, S)
  BY <1>4, <1>5, FS_Injection
<1>7. \A y \in S : \E i \in 1 .. n : s[i] = y
  BY <1>6 DEF Surjection
<1> HIDE DEF n
<1>8. Range(s) = S
  BY <1>3, <1>7 DEF Range
<1>9. s \in Seq(S)
  BY <1>1, <1>3
<1> QED BY <1>8, <1>9 DEF IsSequence, s

(* Where a candidate may come from.                                              *)
Source(cfg, verb) == {c \in Collect(cfg) : verb = "build" => c.route = "native"}

(* The alternatives of a requirement hold what is eligible for each of them. *)
LEMMA AlternativesHold ==
  ASSUME InOrder(job.cfg), NEW r, IsFiniteSet(r)
  PROVE  /\ IsSequence(Alternatives(r)) /\ Range(Alternatives(r)) \subseteq Source(job.cfg, job.verb)
         /\ \A k \in r : Range(Eligible(k)) \subseteq Range(Alternatives(r))
<1> DEFINE q == SetToSeq(r)
           s == [n \in DOMAIN q |-> Eligible(q[n])]
<1>1. IsSequence(q) /\ Range(q) = r
  BY SetListed
<1> HIDE DEF q
<1>2. Len(q) \in Nat /\ DOMAIN q = 1 .. Len(q)
  BY <1>1, Indexed
<1>3. \A k : IsSequence(Eligible(k)) /\ Range(Eligible(k)) \subseteq Source(job.cfg, job.verb)
  BY EligibleIs, EligibleHolds DEF Source
<1>4. DOMAIN s = 1 .. Len(q) /\ \A n \in 1 .. Len(q) : s[n] = Eligible(q[n])
  BY <1>2
<1>5. s = [n \in 1 .. Len(q) |-> s[n]]
  BY <1>2
<1>6. Alternatives(r) = Flat(s)
  BY DEF Alternatives, q
<1> HIDE DEF s
<1>7. IsSequence(s)
  BY <1>2, <1>4, <1>5, MappedSequence
<1>8. \A n \in DOMAIN s : IsSequence(s[n])
  BY <1>3, <1>4
<1>9. IsSequence(Flat(s)) /\ Range(Flat(s)) = UNION {Range(s[n]) : n \in DOMAIN s}
  BY <1>7, <1>8, FlatIs
<1>10. \A n \in DOMAIN s : Range(s[n]) \subseteq Source(job.cfg, job.verb)
  BY <1>3, <1>4
<1>11. \A k \in r : \E n \in DOMAIN s : s[n] = Eligible(k)
  BY <1>1, <1>2, <1>4 DEF Range
<1> QED BY <1>6, <1>9, <1>10, <1>11

(* What a pass of expand_dependency_universe gathers: all that the due *)
(* requirements lead to and that what is fixed does not meet.          *)
LEMMA GatheredHolds ==
  ASSUME InOrder(job.cfg), IsSequence(Due), \A r \in Range(Due) : IsFiniteSet(r)
  PROVE  /\ IsSequence(Gathered) /\ Range(Gathered) \subseteq Source(job.cfg, job.verb)
         /\ \A r \in Range(Due) : ~MetByFixed(r) => \A k \in r : Range(Eligible(k)) \subseteq Range(Gathered)
<1> DEFINE d == Due
           D == {i \in DOMAIN d : ~MetByFixed(d[i])}
           q == Kept(d, LAMBDA r : ~MetByFixed(r))
           s == [n \in DOMAIN q |-> Alternatives(q[n])]
<1>1. IsSequence(d) /\ \A r \in Range(d) : IsFiniteSet(r)
  OBVIOUS
<1>2. Gathered = Flat(s)
  BY DEF Gathered
<1>3. IsSequence(q) /\ Range(q) = {d[i] : i \in D}
  <2> DEFINE at == Listed(D, <)
             L == [n \in DOMAIN at |-> d[at[n]]]
  <2>1. q = L
    BY DEF Kept
  <2>2. D \in SUBSET (DOMAIN d) /\ d \in Seq(Range(d))
    BY <1>1 DEF IsSequence
  <2>3. L \in Seq(Range(L)) /\ Range(L) = {d[i] : i \in D}
    <3> HIDE DEF D, d
    <3> QED BY <2>2, KeptNumbers
  <2> HIDE DEF L, q
  <2> QED BY <2>1, <2>3 DEF IsSequence
<1> HIDE DEF q
<1>4. Len(q) \in Nat /\ DOMAIN q = 1 .. Len(q)
  BY <1>3, Indexed
<1>5. \A n \in 1 .. Len(q) : IsFiniteSet(q[n])
  <2> HIDE DEF d
  <2>1. \A n \in 1 .. Len(q) : q[n] \in Range(q)
    BY <1>4 DEF Range
  <2>2. Range(q) \subseteq Range(d)
    BY <1>3 DEF Range
  <2> QED BY <1>1, <2>1, <2>2
<1>6. \A n \in 1 .. Len(q) :
        /\ IsSequence(Alternatives(q[n])) /\ Range(Alternatives(q[n])) \subseteq Source(job.cfg, job.verb)
        /\ \A k \in q[n] : Range(Eligible(k)) \subseteq Range(Alternatives(q[n]))
  BY <1>5, AlternativesHold
<1>7. DOMAIN s = 1 .. Len(q) /\ \A n \in 1 .. Len(q) : s[n] = Alternatives(q[n])
  BY <1>4
<1>8. s = [n \in 1 .. Len(q) |-> s[n]]
  BY <1>4
<1> HIDE DEF s
<1>9. IsSequence(s) /\ \A n \in DOMAIN s : IsSequence(s[n])
  BY <1>4, <1>6, <1>7, <1>8, MappedSequence
<1>10. IsSequence(Flat(s)) /\ Range(Flat(s)) = UNION {Range(s[n]) : n \in DOMAIN s}
  BY <1>9, FlatIs
<1>11. \A n \in DOMAIN s : Range(s[n]) \subseteq Source(job.cfg, job.verb)
  BY <1>6, <1>7
<1>12. ASSUME NEW r \in Range(d), ~MetByFixed(r), NEW k \in r
       PROVE  Range(Eligible(k)) \subseteq Range(Flat(s))
  <2>1. PICK i \in D : d[i] = r
    BY <1>12 DEF Range
  <2>2. r \in Range(q)
    <3> HIDE DEF D, d
    <3> QED BY <1>3, <2>1
  <2>3. PICK n \in 1 .. Len(q) : q[n] = r
    BY <1>4, <2>2 DEF Range
  <2>4. Range(Eligible(k)) \subseteq Range(s[n])
    BY <1>6, <1>7, <2>3
  <2> QED BY <1>7, <1>10, <2>4
<1> QED BY <1>2, <1>10, <1>11, <1>12

(* A universe joined with what was gathered has a candidate of each key, and *)
(* has grown.                                                                *)
LEMMA JoinedHolds ==
  ASSUME NEW u, NEW q, IsSequence(u), IsSequence(q)
  PROVE  /\ IsSequence(JoinedAll(u, q)) /\ GrownFrom(u, JoinedAll(u, q))
         /\ Range(JoinedAll(u, q)) \subseteq Range(u) \cup Range(q)
         /\ \A c \in Range(q) : \E d \in Range(JoinedAll(u, q)) : GraphKey(d) = GraphKey(c)
<1> DEFINE known(c) == \E i \in DOMAIN u : GraphKey(u[i]) = GraphKey(c)
           F == {i \in DOMAIN q : ~known(q[i]) /\ \A j \in 1 .. i - 1 : GraphKey(q[j]) # GraphKey(q[i])}
           at == Listed(F, <)
           L == [n \in DOMAIN at |-> q[at[n]]]
           J == JoinedAll(u, q)
<1>1. J = u \o L
  BY DEF JoinedAll
<1>2. F \in SUBSET (DOMAIN q) /\ q \in Seq(Range(q)) /\ Len(q) \in Nat /\ DOMAIN q = 1 .. Len(q)
  BY Indexed DEF IsSequence
<1>3. IsSequence(L) /\ Range(L) = {q[i] : i \in F}
  <2>1. L \in Seq(Range(L)) /\ Range(L) = {q[i] : i \in F}
    <3> HIDE DEF F
    <3> QED BY <1>2, KeptNumbers
  <2> HIDE DEF L
  <2> QED BY <2>1 DEF IsSequence
<1>4. {q[i] : i \in F} \subseteq Range(q)
  BY DEF Range
<1>5. ASSUME NEW c \in Range(q) PROVE (\E d \in Range(u) : GraphKey(d) = GraphKey(c)) \/ \E i \in F : GraphKey(q[i]) = GraphKey(c)
  <2>1. PICK i \in 1 .. Len(q) : q[i] = c
    BY <1>2 DEF Range
  <2> DEFINE same == {j \in 1 .. Len(q) : GraphKey(q[j]) = GraphKey(c)}
  <2>2. same \in SUBSET Nat /\ same # {}
    BY <1>2, <2>1
  <2>3. PICK j \in same : \A m \in same : j <= m
    <3> HIDE DEF same
    <3> QED BY <2>2, LeastNat
  <2>4. \A m \in 1 .. j - 1 : GraphKey(q[m]) # GraphKey(q[j])
    <3>1. \A m \in 1 .. j - 1 : m \in 1 .. Len(q) /\ ~(j <= m)
      BY <1>2
    <3> QED BY <2>3, <3>1
  <2>5. CASE known(q[j])
    BY <2>5 DEF Range
  <2>6. CASE ~known(q[j])
    <3>1. j \in F
      BY <1>2, <2>4, <2>6
    <3> HIDE DEF F
    <3> QED BY <3>1
  <2> QED BY <2>5, <2>6
<1> HIDE DEF L, F, J
<1>6. IsSequence(u \o L) /\ Range(u \o L) = Range(u) \cup Range(L) /\ Len(u \o L) = Len(u) + Len(L)
  BY <1>3, JoinedSequence
<1>7. GrownFrom(u, J)
  <2> DEFINE R == Range(u) \cup Range(L)
  <2>1. u \in Seq(R) /\ L \in Seq(R)
    BY <1>3 DEF IsSequence
  <2> HIDE DEF R
  <2>2. Len(u) \in Nat /\ Len(L) \in Nat /\ \A i \in 1 .. Len(u) : (u \o L)[i] = u[i]
    BY <2>1
  <2>3. Len(u) <= Len(J)
    BY <1>1, <1>6, <2>2
  <2> QED BY <1>1, <2>2, <2>3 DEF GrownFrom
<1> QED BY <1>1, <1>3, <1>4, <1>5, <1>6, <1>7 DEF J

-----------------------------------------------------------------------------
(***************************************************************************)
(* The job at hand, from the selector to the plan in order.                *)
(***************************************************************************)

(* The fields of a job. *)
IsJob(j) ==
  j = [phase |-> j.phase, verb |-> j.verb, cfg |-> j.cfg, selector |-> j.selector, outer |-> j.outer,
       wants |-> j.wants, universe |-> j.universe, fixed |-> j.fixed, root |-> j.root, cursor |-> j.cursor,
       selected |-> j.selected, marks |-> j.marks, stack |-> j.stack, roots |-> j.roots, order |-> j.order,
       next |-> j.next, deps |-> j.deps, receipts |-> j.receipts]

(* What a plan must hold. *)
Must(j) == {j.root} \cup Range(j.fixed)

(* A requirement that leads nowhere new.                                         *)
Covered(cfg, verb, u, fixed, r) ==
  \/ \E i \in Range(fixed) : MeetsOne(u[i], r)
  \/ \A k \in r : Range(EligibleIn(cfg, verb, k)) \subseteq Range(u)

(* What has been gathered.                                                       *)
GatherOK(j) ==
  /\ Readable(j.cfg) /\ IsSequence(j.universe) /\ Range(j.universe) \subseteq Source(j.cfg, j.verb)
  /\ IsSequence(j.fixed) /\ Range(j.fixed) \subseteq DOMAIN j.universe
  /\ j.verb = "build" => j.fixed = <<>>
  /\ j.cursor \in Nat
  /\ j.verb = "build" /\ j.cursor # 0 =>
       \A r \in Range(j.wants) : Covered(j.cfg, j.verb, j.universe, j.fixed, r)
  /\ \A i \in DOMAIN j.universe : i < j.cursor =>
       \A r \in Range(j.universe[i].requirements) : Covered(j.cfg, j.verb, j.universe, j.fixed, r)

(* What is put into clauses.                                                     *)
Charted(j) ==
  /\ Posed(j.universe, j.root, j.fixed)
  /\ \A i \in DOMAIN j.universe : i # j.root \/ j.verb # "build" => j.universe[i] \in Source(j.cfg, j.verb)

(* All that the requirements lead to is there, once.                             *)
Closed(j) ==
  /\ Readable(j.cfg)
  /\ j.verb = "build" => j.fixed = <<>>
  /\ \A i, m \in DOMAIN j.universe : i # m => j.universe[i] # j.universe[m]
  /\ \A i \in DOMAIN j.universe : j.universe[i] \in Collect(j.cfg) =>
       \A r \in Range(j.universe[i].requirements) : Covered(j.cfg, j.verb, j.universe, j.fixed, r)
  /\ j.verb = "build" => \A r \in Range(j.wants) : Covered(j.cfg, j.verb, j.universe, j.fixed, r)

(* What is selected.                                                             *)
Picked(j, S) ==
  /\ S \subseteq DOMAIN j.universe /\ Must(j) \subseteq S /\ Coherent(j.universe, S)
  /\ First(j.universe, S, Must(j))

(* What is in order.                                                             *)
Drawn(j) ==
  /\ Charted(j) /\ Picked(j, Range(j.order)) /\ IsSequence(j.order) /\ Distinct(j.order)
  /\ \A n \in DOMAIN j.order : \A i \in Edges(j.universe, Range(j.order), j.order[n]) :
       \E m \in 1 .. n - 1 : j.order[m] = i

(* What a call was begun with; a plan for a build root is begun by a plan.       *)
Asked(j) ==
  /\ InOrder(j.cfg) /\ IsSequence(j.wants) /\ \A r \in Range(j.wants) : IsFiniteSet(r)

(* A job is at what its phase says: gathering is closed up to its cursor, the *)
(* clauses are those of the graph, the walk has what it put in order after    *)
(* what that needs, and what is in order is the first coherent selection. A   *)
(* build root is resolved within the plan it is for.                          *)
JobOK(j, cs, act) ==
  /\ j.phase \in {"idle", "fetch", "expand", "solve", "order", "prepare"}
  /\ j.phase # "idle" => IsJob(j) /\ Asked(j)
  /\ j.phase # "idle" /\ j.verb = "build" =>
       /\ IsJob(j.outer) /\ Asked(j.outer) /\ Drawn(j.outer)
       /\ j.outer.phase = "prepare" /\ j.outer.verb # "build"
  /\ j.phase \in {"fetch", "expand", "solve"} => j.stack = <<>> /\ j.order = <<>>
  /\ j.phase = "fetch" => j.universe = <<>> /\ j.fixed = <<>> /\ j.cursor = 0
  /\ j.phase = "expand" => GatherOK(j)
  /\ j.phase = "solve" =>
       /\ Charted(j) /\ Closed(j)
       /\ cs = GraphClauses(j.universe, j.root, j.fixed) /\ act = VarsOf(cs)
  /\ j.phase = "order" =>
       /\ Charted(j) /\ Picked(j, j.selected)
       /\ Walk(j.universe, j.selected, j.marks, j.stack, j.roots, j.order)
  /\ j.phase = "prepare" => Drawn(j)

(* The receipts in the database are those of their packages. *)
DbInv == DOMAIN db = Package /\ \A p \in Package : db[p] # None => db[p].package = p

(* The invariant of the job at hand. *)
JobInv == JobOK(job, clauses, active)

(* No job is at hand. *)
LEMMA JobEnds ==
  ASSUME NEW cs, NEW act
  PROVE  JobOK(Idle, cs, act)
<1> DEFINE j == [phase |-> "idle"]
<1>1. j.phase = "idle" /\ j.phase \notin {"fetch", "expand", "solve", "order", "prepare"}
  OBVIOUS
<1> HIDE DEF j
<1>2. JobOK(j, cs, act)
  BY <1>1 DEF JobOK
<1> QED BY <1>2 DEF Idle, j

(* A job does not depend on the clauses but while they are searched. *)
LEMMA JobRests ==
  ASSUME NEW j, NEW cs, NEW act, NEW ds, NEW bct, JobOK(j, cs, act), j.phase = "solve" => cs = ds /\ act = bct
  PROVE  JobOK(j, ds, bct)
BY DEF JobOK

(* A plan that begins.                                                           *)
LEMMA JobBegins ==
  ASSUME NEW verb, NEW cfg, InOrder(cfg), NEW selector, NEW wants, NEW outer, NEW cs, NEW act,
         IsSequence(wants), \A r \in Range(wants) : IsFiniteSet(r),
         verb = "build" => /\ IsJob(outer) /\ Asked(outer) /\ Drawn(outer)
                           /\ outer.phase = "prepare" /\ outer.verb # "build"
  PROVE  JobOK(NewPlan(verb, cfg, selector, wants, outer), cs, act)
<1> DEFINE j == NewPlan(verb, cfg, selector, wants, outer)
<1>1. /\ IsJob(j) /\ j.phase = "fetch" /\ j.verb = verb /\ j.cfg = cfg /\ j.wants = wants /\ j.outer = outer
      /\ j.universe = <<>> /\ j.fixed = <<>> /\ j.cursor = 0 /\ j.stack = <<>> /\ j.order = <<>>
  BY DEF NewPlan, IsJob
<1> HIDE DEF j
<1>2. Asked(j)
  BY <1>1 DEF Asked
<1>3. JobOK(j, cs, act)
  BY <1>1, <1>2 DEF JobOK
<1> QED BY <1>3 DEF j

(* What is gathered stays gathered.                                              *)
LEMMA CoveredStays ==
  ASSUME NEW cfg, NEW verb, NEW u, NEW fixed, NEW r, Covered(cfg, verb, u, fixed, r),
         NEW v, IsSequence(v), GrownFrom(u, v), Range(fixed) \subseteq DOMAIN u
  PROVE  Covered(cfg, verb, v, fixed, r)
<1>1. DOMAIN u = 1 .. Len(u) /\ Len(u) \in Nat /\ DOMAIN v = 1 .. Len(v) /\ Len(v) \in Nat
  BY Indexed DEF GrownFrom
<1>2. \A i \in DOMAIN u : v[i] = u[i] /\ i \in DOMAIN v
  BY <1>1 DEF GrownFrom
<1>3. Range(u) \subseteq Range(v)
  BY <1>2 DEF Range
<1>4. CASE \E i \in Range(fixed) : MeetsOne(u[i], r)
  BY <1>2, <1>4 DEF Covered
<1>5. CASE \A k \in r : Range(EligibleIn(cfg, verb, k)) \subseteq Range(u)
  BY <1>3, <1>5 DEF Covered
<1> QED BY <1>4, <1>5 DEF Covered

(* The job k is at the plan that j is at.                                        *)
SamePlan(j, k) ==
  /\ IsJob(k) /\ k.verb = j.verb /\ k.cfg = j.cfg /\ k.wants = j.wants /\ k.outer = j.outer
  /\ k.universe = j.universe /\ k.fixed = j.fixed /\ k.root = j.root

(* What is known of a plan does not depend on where its job is. *)
LEMMA SameFacts ==
  ASSUME NEW j, NEW k, SamePlan(j, k)
  PROVE  /\ Asked(j) => Asked(k)
         /\ Charted(j) => Charted(k)
         /\ \A S : Picked(j, S) => Picked(k, S)
         /\ k.order = j.order /\ Drawn(j) => Drawn(k)
BY DEF SamePlan, Asked, Charted, Picked, Drawn, Must

(* A job that prepares goes on preparing what is in order. *)
LEMMA PlanKeeps ==
  ASSUME NEW j, NEW cs, NEW act, JobOK(j, cs, act), j.phase = "prepare", NEW k, SamePlan(j, k),
         k.phase = "prepare", k.order = j.order, NEW ds, NEW bct
  PROVE  JobOK(k, ds, bct)
<1>1. /\ Asked(j) /\ Drawn(j)
      /\ j.verb = "build" =>
           /\ IsJob(j.outer) /\ Asked(j.outer) /\ Drawn(j.outer)
           /\ j.outer.phase = "prepare" /\ j.outer.verb # "build"
  BY DEF JobOK
<1>2. Asked(k) /\ Drawn(k) /\ IsJob(k)
  BY <1>1, SameFacts DEF SamePlan
<1>3. k.verb = "build" =>
        /\ IsJob(k.outer) /\ Asked(k.outer) /\ Drawn(k.outer)
        /\ k.outer.phase = "prepare" /\ k.outer.verb # "build"
  BY <1>1 DEF SamePlan
<1> QED BY <1>2, <1>3 DEF JobOK

(* A walk goes on, or has come to its end.                                       *)
LEMMA WalkGoesOn ==
  ASSUME NEW j, NEW cs, NEW act, JobOK(j, cs, act), j.phase = "order", NEW k, SamePlan(j, k),
         k.phase = "order", k.selected = j.selected, NEW ds, NEW bct,
         Walk(k.universe, k.selected, k.marks, k.stack, k.roots, k.order)
  PROVE  JobOK(k, ds, bct)
<1>1. /\ Asked(j) /\ Charted(j) /\ Picked(j, j.selected)
      /\ j.verb = "build" =>
           /\ IsJob(j.outer) /\ Asked(j.outer) /\ Drawn(j.outer)
           /\ j.outer.phase = "prepare" /\ j.outer.verb # "build"
  BY DEF JobOK
<1>2. Asked(k) /\ Charted(k) /\ Picked(k, k.selected) /\ IsJob(k)
  BY <1>1, SameFacts DEF SamePlan
<1>3. k.verb = "build" =>
        /\ IsJob(k.outer) /\ Asked(k.outer) /\ Drawn(k.outer)
        /\ k.outer.phase = "prepare" /\ k.outer.verb # "build"
  BY <1>1 DEF SamePlan
<1> QED BY <1>2, <1>3 DEF JobOK

(* A walk with nothing left has all it selected in order. *)
LEMMA WalkIsOver ==
  ASSUME NEW j, NEW cs, NEW act, JobOK(j, cs, act), j.phase = "order", j.stack = <<>>, j.roots = <<>>,
         NEW k, SamePlan(j, k), k.phase = "prepare", k.order = j.order, NEW ds, NEW bct
  PROVE  JobOK(k, ds, bct)
<1>1. /\ Asked(j) /\ Charted(j) /\ Picked(j, j.selected)
      /\ Walk(j.universe, j.selected, j.marks, j.stack, j.roots, j.order)
      /\ j.verb = "build" =>
           /\ IsJob(j.outer) /\ Asked(j.outer) /\ Drawn(j.outer)
           /\ j.outer.phase = "prepare" /\ j.outer.verb # "build"
  BY DEF JobOK
<1>2. Walk(j.universe, j.selected, j.marks, <<>>, <<>>, j.order)
  BY <1>1
<1>3. /\ Range(j.order) = j.selected /\ IsSequence(j.order) /\ Distinct(j.order)
      /\ \A n \in DOMAIN j.order : \A i \in Edges(j.universe, j.selected, j.order[n]) :
           \E m \in 1 .. n - 1 : j.order[m] = i
  BY <1>2, WalkEnds
<1>4. Drawn(j)
  BY <1>1, <1>3 DEF Drawn
<1>5. Asked(k) /\ Drawn(k) /\ IsJob(k)
  BY <1>1, <1>4, SameFacts DEF SamePlan
<1>6. k.verb = "build" =>
        /\ IsJob(k.outer) /\ Asked(k.outer) /\ Drawn(k.outer)
        /\ k.outer.phase = "prepare" /\ k.outer.verb # "build"
  BY <1>1 DEF SamePlan
<1> QED BY <1>5, <1>6 DEF JobOK

(* The edges of a member, listed.                                                *)
LEMMA EdgesListed ==
  ASSUME NEW j, Charted(j), NEW S, Picked(j, S), NEW i \in S
  PROVE  /\ S \in SUBSET (DOMAIN j.universe)
         /\ IsSequence(InKeyOrder(j.universe, Edges(j.universe, S, i)))
         /\ Range(InKeyOrder(j.universe, Edges(j.universe, S, i))) = Edges(j.universe, S, i)
         /\ Edges(j.universe, S, i) \subseteq S
<1>1. S \in SUBSET (DOMAIN j.universe) /\ Coherent(j.universe, S) /\ Graph(j.universe)
  BY DEF Charted, Picked, Posed
<1>2. Edges(j.universe, S, i) \subseteq S
  BY <1>1, EdgesFound
<1>3. NamesRanked
  BY ResolutionAssumption DEF NamesRanked
<1>4. Edges(j.universe, S, i) \in SUBSET (DOMAIN j.universe)
  BY <1>1, <1>2
<1> QED BY <1>1, <1>2, <1>3, <1>4, CandidatesListed

(* An entry of the stack with other edges left. *)
LEMMA EntryTaken ==
  ASSUME NEW a, NEW l, NEW t, NEW e, e = [at |-> a, left |-> l], NEW f, f = [e EXCEPT !.left = t]
  PROVE  f = [at |-> a, left |-> t]
OBVIOUS

(* The top of a stack loses the first of its edges.                              *)
TopCut(s, q) ==
  /\ s[Len(s)] = [at |-> s[Len(s)].at, left |-> s[Len(s)].left]
  /\ q = [s EXCEPT ![Len(s)].left = Tail(@)]

(* Which is taking an edge of the top. *)
LEMMA TopIsTaken ==
  ASSUME NEW s, IsSequence(s), NEW n, n = Len(s), n \in Nat \ {0}, s # <<>>, s[n].left # <<>>,
         NEW q, TopCut(s, q)
  PROVE  Taken(s, q) /\ Len(q) = n
<1> s[n] = [at |-> s[n].at, left |-> s[n].left] /\ q = [s EXCEPT ![n].left = Tail(@)]
  BY DEF TopCut
<1>1. DOMAIN s = 1 .. n /\ n \in 1 .. n
  BY Indexed
<1>2. DOMAIN q = 1 .. n
  BY <1>1
<1>3. \A k \in 1 .. n - 1 : k \in 1 .. n /\ k # n
  BY Intervals
<1>4. \A k \in 1 .. n - 1 : q[k] = s[k]
  BY <1>1, <1>3
<1>5. q[n] = [at |-> s[n].at, left |-> Tail(s[n].left)]
  <2> DEFINE a == s[n].at
             l == s[n].left
             e == s[n]
             f == q[n]
  <2>1. f = [e EXCEPT !.left = Tail(l)]
    BY <1>1
  <2>2. e = [at |-> a, left |-> l]
    OBVIOUS
  <2> HIDE DEF a, l, e, f
  <2>3. f = [at |-> a, left |-> Tail(l)]
    BY ONLY <2>1, <2>2, EntryTaken
  <2> QED BY ONLY <2>3 DEF a, l, f
<1>6. q = [k \in 1 .. n |-> q[k]]
  BY <1>1
<1>7. IsSequence(q)
  BY ONLY <1>2, <1>6, n \in Nat \ {0}, MappedSequence
<1>8. Len(q) = n
  <2>1. Len(q) \in Nat /\ DOMAIN q = 1 .. Len(q)
    BY <1>7, Indexed
  <2> QED BY ONLY <1>2, <2>1, n \in Nat \ {0}
<1>9. s # <<>> /\ s[n].left # <<>> /\ n = Len(s)
  OBVIOUS
<1> QED BY ONLY <1>4, <1>5, <1>7, <1>8, <1>9 DEF Taken

(* order_dependency_solution, at the next member to visit: passed over, or *)
(* entered.                                                                *)
LEMMA VisitRootKeeps ==
  ASSUME JobInv, VisitRoot
  PROVE  JobInv'
<1> DEFINE j == job
           k == job'
           u == j.universe
           S == j.selected
           i == Head(j.roots)
           e == InKeyOrder(u, Edges(u, S, i))
<1>1. /\ j.phase = "order" /\ j.stack = <<>> /\ j.roots # <<>>
      /\ IF j.marks[i] = 2 THEN k = [j EXCEPT !.roots = Tail(@)]
         ELSE k = [[j EXCEPT !.roots = Tail(@)] EXCEPT !.marks[i] = 1, !.stack = Append(@, [at |-> i, left |-> e])]
  BY DEF VisitRoot, In, Enter, EdgesOf
<1>2. JobOK(j, clauses, active)
  BY DEF JobInv
<1>3. /\ IsJob(j) /\ Charted(j) /\ Picked(j, S)
      /\ Walk(u, S, j.marks, <<>>, j.roots, j.order)
  BY <1>1, <1>2 DEF JobOK
<1>4. i \in S /\ S \in SUBSET (DOMAIN u)
  <2>1. IsSequence(j.roots) /\ Range(j.roots) \subseteq S
    BY <1>3 DEF Walk
  <2>2. i \in Range(j.roots)
    BY <1>1, <2>1, HeadAndTail
  <2> QED BY <1>3, <2>1, <2>2 DEF Picked
<1>5. IsSequence(e) /\ Range(e) = Edges(u, S, i) /\ Range(e) \subseteq S
  BY <1>3, <1>4, EdgesListed
<1> HIDE DEF i, e, S, u
<1>6. CASE j.marks[i] = 2
  <2>1. k = [j EXCEPT !.roots = Tail(@)]
    BY <1>1, <1>6
  <2>2. /\ SamePlan(j, k) /\ k.phase = "order" /\ k.selected = j.selected
        /\ k.marks = j.marks /\ k.stack = <<>> /\ k.roots = Tail(j.roots) /\ k.order = j.order
    BY <1>1, <1>3, <2>1 DEF IsJob, SamePlan
  <2>3. Walk(u, S, j.marks, <<>>, Tail(j.roots), j.order)
    BY <1>1, <1>3, <1>4, <1>6, WalkPasses DEF i
  <2>4. Walk(k.universe, k.selected, k.marks, k.stack, k.roots, k.order)
    BY <2>2, <2>3 DEF u, S, SamePlan
  <2> HIDE DEF k, j
  <2>5. JobOK(k, clauses', active')
    BY <1>1, <1>2, <2>2, <2>4, WalkGoesOn
  <2> QED BY <2>5 DEF JobInv, k
<1>7. CASE j.marks[i] # 2
  <2>1. k = [[j EXCEPT !.roots = Tail(@)] EXCEPT !.marks[i] = 1, !.stack = Append(@, [at |-> i, left |-> e])]
    BY <1>1, <1>7
  <2>2. /\ SamePlan(j, k) /\ k.phase = "order" /\ k.selected = j.selected
        /\ k.marks = [j.marks EXCEPT ![i] = 1] /\ k.stack = Append(j.stack, [at |-> i, left |-> e])
        /\ k.roots = Tail(j.roots) /\ k.order = j.order
    BY <1>1, <1>3, <2>1 DEF IsJob, SamePlan
  <2>3. k.stack = <<[at |-> i, left |-> e]>>
    BY <1>1, <2>2
  <2>4. Walk(u, S, [j.marks EXCEPT ![i] = 1], <<[at |-> i, left |-> e]>>, Tail(j.roots), j.order)
    BY <1>1, <1>3, <1>4, <1>5, <1>7, WalkEntersRoot DEF i
  <2>5. Walk(k.universe, k.selected, k.marks, k.stack, k.roots, k.order)
    BY <2>2, <2>3, <2>4 DEF u, S, SamePlan
  <2> HIDE DEF k, j
  <2>6. JobOK(k, clauses', active')
    BY <1>1, <1>2, <2>2, <2>5, WalkGoesOn
  <2> QED BY <2>6 DEF JobInv, k
<1> QED BY <1>6, <1>7

(* visit, once all edges are walked: the member comes next in order. *)
LEMMA LeaveKeeps ==
  ASSUME JobInv, Leave
  PROVE  JobInv'
<1> DEFINE j == job
           k == job'
           u == j.universe
           S == j.selected
           n == Len(j.stack)
           i == j.stack[n].at
<1>1. /\ j.phase = "order" /\ j.stack # <<>> /\ j.stack[n].left = <<>>
      /\ k = [j EXCEPT !.marks[i] = 2, !.order = Append(@, i), !.stack = SubSeq(@, 1, Len(@) - 1)]
  BY DEF Leave, In, Top
<1>2. JobOK(j, clauses, active)
  BY DEF JobInv
<1>3. /\ IsJob(j) /\ Charted(j) /\ Picked(j, S)
      /\ Walk(u, S, j.marks, j.stack, j.roots, j.order)
  BY <1>1, <1>2 DEF JobOK
<1>4. S \in SUBSET (DOMAIN u)
  BY <1>3 DEF Picked
<1>5. /\ SamePlan(j, k) /\ k.phase = "order" /\ k.selected = j.selected
      /\ k.marks = [j.marks EXCEPT ![i] = 2] /\ k.stack = SubSeq(j.stack, 1, n - 1)
      /\ k.roots = j.roots /\ k.order = Append(j.order, i)
  <2> HIDE DEF i
  <2> QED BY <1>1, <1>3 DEF IsJob, SamePlan
<1>6. Walk(u, S, k.marks, k.stack, j.roots, k.order)
  <2>1. n = Len(j.stack) /\ i = j.stack[n].at /\ j.stack[n].left = <<>> /\ j.stack # <<>>
    BY <1>1
  <2>2. Marked(j.marks, k.marks, i, 2) /\ Popped(j.stack, k.stack) /\ k.order = Append(j.order, i)
    BY <1>5 DEF Marked, Popped
  <2>3. Walk(u, S, j.marks, j.stack, j.roots, j.order) /\ S \in SUBSET (DOMAIN u)
    BY <1>3, <1>4
  <2> HIDE DEF u, S, k, j, n, i
  <2> QED BY ONLY <2>1, <2>2, <2>3, WalkLeaves
<1>7. Walk(k.universe, k.selected, k.marks, k.stack, k.roots, k.order)
  BY <1>5, <1>6 DEF SamePlan
<1> HIDE DEF k, j
<1>8. JobOK(k, clauses', active')
  BY <1>1, <1>2, <1>5, <1>7, WalkGoesOn
<1> QED BY <1>8 DEF JobInv, k

(* order_dependency_solution, at its end. *)
LEMMA OrderedKeeps ==
  ASSUME JobInv, Ordered
  PROVE  JobInv'
<1> DEFINE j == job
           k == job'
<1>1. j.phase = "order" /\ j.stack = <<>> /\ j.roots = <<>> /\ k = [j EXCEPT !.phase = "prepare"]
  BY DEF Ordered, In
<1>2. JobOK(j, clauses, active) /\ IsJob(j)
  BY <1>1 DEF JobInv, JobOK
<1>3. SamePlan(j, k) /\ k.phase = "prepare" /\ k.order = j.order
  BY <1>1, <1>2 DEF IsJob, SamePlan
<1> HIDE DEF k, j
<1>4. JobOK(k, clauses', active')
  BY <1>1, <1>2, <1>3, WalkIsOver
<1> QED BY <1>4 DEF JobInv, k

(* visit, at the next edge: passed over when it is in order, entered when it *)
(* is new.                                                                   *)
LEMMA VisitEdgeKeeps ==
  ASSUME JobInv, VisitEdge
  PROVE  JobInv'
<1> DEFINE j == job
           k == job'
           u == j.universe
           S == j.selected
           n == Len(j.stack)
           i == Head(j.stack[n].left)
           e == InKeyOrder(u, Edges(u, S, i))
           d == [j EXCEPT !.stack[n].left = Tail(@)]
<1>1. /\ j.phase = "order" /\ j.stack # <<>> /\ j.stack[n].left # <<>>
      /\ j.marks[i] = 0 => k = [d EXCEPT !.marks[i] = 1, !.stack = Append(@, [at |-> i, left |-> e])]
      /\ j.marks[i] = 1 => k = Idle
      /\ j.marks[i] = 2 => k = d
  <2>1. j.phase = "order" /\ j.stack # <<>> /\ j.stack[n].left # <<>>
    BY DEF VisitEdge, In, Top
  <2>2. k = CASE j.marks[i] = 0 -> Enter(DropEdge(j), i)
              [] j.marks[i] = 1 -> Idle
              [] j.marks[i] = 2 -> DropEdge(j)
    BY DEF VisitEdge, Top
  <2>3. DropEdge(j) = d
    BY DEF DropEdge
  <2>4. Enter(d, i) = [d EXCEPT !.marks[i] = 1, !.stack = Append(@, [at |-> i, left |-> e])]
    BY DEF Enter, EdgesOf
  <2> HIDE DEF k, d, i, e, n, j
  <2>5. 0 # 1 /\ 0 # 2 /\ 1 # 2
    OBVIOUS
  <2> QED BY ONLY <2>1, <2>2, <2>3, <2>4, <2>5
<1>2. JobOK(j, clauses, active)
  BY DEF JobInv
<1>3. /\ IsJob(j) /\ Charted(j) /\ Picked(j, S)
      /\ Walk(u, S, j.marks, j.stack, j.roots, j.order)
  BY <1>1, <1>2 DEF JobOK
<1>4. S \in SUBSET (DOMAIN u) /\ IsSequence(j.stack) /\ j.marks \in [DOMAIN u -> {0, 1, 2}]
  BY <1>3 DEF Picked, Walk
<1>5. /\ n \in Nat \ {0} /\ j.stack[n] = [at |-> j.stack[n].at, left |-> j.stack[n].left]
  <2>1. n \in Nat \ {0} /\ Standing(u, S, j.marks, j.roots, j.order, j.stack, n, {})
    BY <1>1, <1>3, StackTop
  <2> QED BY <2>1 DEF Standing, Stage
<1> DEFINE q == [j.stack EXCEPT ![n].left = Tail(@)]
<1>6. /\ IsSequence(q) /\ Len(q) = n /\ \A m \in 1 .. n - 1 : q[m] = j.stack[m]
      /\ q[n] = [at |-> j.stack[n].at, left |-> Tail(j.stack[n].left)]
  <2> DEFINE s == j.stack
  <2>1. IsSequence(s) /\ n = Len(s) /\ n \in Nat \ {0} /\ s # <<>> /\ s[n].left # <<>> /\ TopCut(s, q)
    BY <1>1, <1>4, <1>5 DEF TopCut
  <2> HIDE DEF s, n, q
  <2>2. Taken(s, q) /\ Len(q) = n
    BY ONLY <2>1, TopIsTaken
  <2> QED BY ONLY <2>1, <2>2 DEF Taken, s
<1>7. /\ IsJob(d) /\ SamePlan(j, d) /\ d.phase = "order" /\ d.selected = j.selected
      /\ d.marks = j.marks /\ d.stack = q /\ d.roots = j.roots /\ d.order = j.order
  <2> HIDE DEF n
  <2> QED BY <1>1, <1>3 DEF IsJob, SamePlan
<1> HIDE DEF q, d
<1>8. Taken(j.stack, q)
  BY <1>1, <1>6 DEF Taken
<1>9. i \in S
  <2>1. n = Len(j.stack) /\ i = Head(j.stack[n].left)
    OBVIOUS
  <2>2. Walk(u, S, j.marks, j.stack, j.roots, j.order) /\ S \in SUBSET (DOMAIN u)
    BY <1>3, <1>4
  <2> HIDE DEF u, S, j, n, i
  <2> QED BY ONLY <1>8, <2>1, <2>2, WalkTakes
<1>10. IsSequence(e) /\ Range(e) = Edges(u, S, i) /\ Range(e) \subseteq S
  BY <1>3, <1>9, EdgesListed
<1>11. j.marks[i] \in {0, 1, 2}
  BY <1>4, <1>9
<1>12. CASE j.marks[i] = 2
  <2>1. k = d
    BY <1>1, <1>12
  <2>2. Walk(u, S, j.marks, q, j.roots, j.order)
    <3>1. n = Len(j.stack) /\ Len(q) = n /\ i = Head(j.stack[n].left) /\ j.marks[i] = 2
      BY <1>6, <1>12
    <3>2. Walk(u, S, j.marks, j.stack, j.roots, j.order) /\ S \in SUBSET (DOMAIN u)
      BY <1>3, <1>4
    <3> HIDE DEF u, S, j, n, i
    <3> QED BY ONLY <1>8, <3>1, <3>2, WalkDrops
  <2>3. Walk(d.universe, d.selected, d.marks, d.stack, d.roots, d.order)
    BY <1>7, <2>2 DEF SamePlan
  <2> HIDE DEF k, j
  <2>4. JobOK(d, clauses', active')
    BY <1>1, <1>2, <1>7, <2>3, WalkGoesOn
  <2> QED BY <2>1, <2>4 DEF JobInv, k
<1>13. CASE j.marks[i] = 1
  BY <1>1, <1>13, JobEnds DEF JobInv
<1>14. CASE j.marks[i] = 0
  <2> DEFINE t == [at |-> i, left |-> e]
  <2>1. k = [d EXCEPT !.marks[i] = 1, !.stack = Append(@, t)]
    BY <1>1, <1>14
  <2>2. /\ SamePlan(j, k) /\ k.phase = "order" /\ k.selected = j.selected
        /\ k.marks = [j.marks EXCEPT ![i] = 1] /\ k.stack = Append(q, t)
        /\ k.roots = j.roots /\ k.order = j.order
    <3> HIDE DEF t, i
    <3> QED BY <1>7, <2>1 DEF IsJob, SamePlan
  <2> DEFINE p == Append(q, t)
  <2>3. /\ IsSequence(p) /\ Len(p) = n + 1 /\ p[n + 1] = t /\ \A m \in 1 .. n : p[m] = q[m]
    <3> HIDE DEF t
    <3> QED BY <1>6, Appended
  <2>4. Taken(j.stack, p)
    <3>1. n \in 1 .. n /\ \A m \in 1 .. n - 1 : m \in 1 .. n
      BY <1>5, Intervals
    <3> HIDE DEF p
    <3> QED BY <1>1, <1>6, <2>3, <3>1 DEF Taken
  <2>5. Marked(j.marks, k.marks, i, 1)
    BY <2>2 DEF Marked
  <2>6. Walk(u, S, k.marks, p, j.roots, j.order)
    <3>1. /\ n = Len(j.stack) /\ Len(p) = n + 1 /\ i = Head(j.stack[n].left) /\ j.marks[i] = 0
          /\ p[n + 1] = [at |-> i, left |-> e]
      BY <1>14, <2>3
    <3>2. Walk(u, S, j.marks, j.stack, j.roots, j.order) /\ S \in SUBSET (DOMAIN u)
      BY <1>3, <1>4
    <3> DEFINE edges == e
               ms == k.marks
    <3>3. /\ IsSequence(edges) /\ Range(edges) = Edges(u, S, i) /\ Range(edges) \subseteq S
          /\ p[n + 1] = [at |-> i, left |-> edges] /\ Marked(j.marks, ms, i, 1)
      BY <1>10, <2>5, <3>1
    <3> HIDE DEF u, S, j, k, p, t, e, i, n, edges, ms
    <3>4. Walk(u, S, ms, p, j.roots, j.order)
      BY ONLY <2>4, <3>1, <3>2, <3>3, WalkEnters
    <3> QED BY <3>4 DEF ms
  <2>7. Walk(k.universe, k.selected, k.marks, k.stack, k.roots, k.order)
    BY <2>2, <2>6 DEF SamePlan
  <2> HIDE DEF k, j
  <2>8. JobOK(k, clauses', active')
    BY <1>1, <1>2, <2>2, <2>7, WalkGoesOn
  <2> QED BY <2>8 DEF JobInv, k
<1> QED BY <1>11, <1>12, <1>13, <1>14

(* solve_dependency_graph has a model: the selection it stands for is the *)
(* first coherent one.                                                    *)
LEMMA BeginOrderKeeps ==
  ASSUME JobInv, SolverInv, BeginOrder
  PROVE  JobInv'
<1> DEFINE j == job
           k == job'
           u == j.universe
           S == Selected
<1>1. /\ j.phase = "solve" /\ search = "sat"
      /\ k = [j EXCEPT !.phase = "order", !.marks = [i \in DOMAIN u |-> 0],
                       !.roots = InKeyOrder(u, S), !.selected = S]
  BY DEF BeginOrder, In
<1>2. JobOK(j, clauses, active)
  BY DEF JobInv
<1>3. /\ IsJob(j) /\ Asked(j) /\ Charted(j) /\ j.stack = <<>> /\ j.order = <<>>
      /\ clauses = GraphClauses(u, j.root, j.fixed) /\ active = VarsOf(clauses)
      /\ j.verb = "build" =>
           /\ IsJob(j.outer) /\ Asked(j.outer) /\ Drawn(j.outer)
           /\ j.outer.phase = "prepare" /\ j.outer.verb # "build"
  BY <1>1, <1>2 DEF JobOK
<1>4. Posed(u, j.root, j.fixed) /\ Graph(u)
  BY <1>3 DEF Charted, Posed
<1>5. Found(u, S)
  BY DEF Selected, Found
<1>6. /\ S \subseteq DOMAIN u /\ Must(j) \subseteq S /\ Coherent(u, S) /\ First(u, S, Must(j))
  <2>1. Posed(u, j.root, j.fixed) /\ clauses = GraphClauses(u, j.root, j.fixed)
        /\ active = VarsOf(clauses) /\ search = "sat"
    BY <1>1, <1>3, <1>4
  <2>2. {j.root} \cup Range(j.fixed) = Must(j)
    BY DEF Must
  <2> DEFINE req == j.root
             fixed == j.fixed
             must == {req} \cup Range(fixed)
  <2>3. Posed(u, req, fixed) /\ clauses = GraphClauses(u, req, fixed) /\ must = Must(j)
    BY <2>1, <2>2
  <2> HIDE DEF S, u, j, req, fixed
  <2>4. S \subseteq DOMAIN u /\ {req} \cup Range(fixed) \subseteq S /\ Coherent(u, S)
        /\ First(u, S, {req} \cup Range(fixed))
    BY ONLY <1>5, <2>1, <2>3, SolverInv, GraphSolved
  <2> QED BY <2>3, <2>4
<1>7. Picked(j, S)
  BY <1>6 DEF Picked
<1> HIDE DEF S
<1>8. /\ SamePlan(j, k) /\ k.phase = "order" /\ k.selected = S
      /\ k.marks = [i \in DOMAIN u |-> 0] /\ k.stack = <<>>
      /\ k.roots = InKeyOrder(u, S) /\ k.order = <<>>
  BY <1>1, <1>3 DEF IsJob, SamePlan
<1>9. Walk(u, S, [i \in DOMAIN u |-> 0], <<>>, InKeyOrder(u, S), <<>>)
  BY <1>4, <1>6, WalkBegins
<1>10. Walk(k.universe, k.selected, k.marks, k.stack, k.roots, k.order)
  BY <1>8, <1>9 DEF SamePlan
<1>11. IsJob(k) /\ Asked(k) /\ Charted(k) /\ Picked(k, k.selected)
  BY <1>3, <1>7, <1>8, SameFacts DEF SamePlan
<1>12. k.verb = "build" =>
        /\ IsJob(k.outer) /\ Asked(k.outer) /\ Drawn(k.outer)
        /\ k.outer.phase = "prepare" /\ k.outer.verb # "build"
  BY <1>3, <1>8 DEF SamePlan
<1> HIDE DEF k
<1>13. JobOK(k, clauses', active')
  BY <1>8, <1>10, <1>11, <1>12 DEF JobOK
<1> QED BY <1>13 DEF JobInv, k

(* What the requirements that are due lead to.                                   *)
LEMMA DueHolds ==
  ASSUME GatherOK(job), Asked(job), job.cursor <= Len(job.universe)
  PROVE  /\ IsSequence(Due) /\ \A r \in Range(Due) : IsFiniteSet(r)
         /\ job.cursor # 0 => job.cursor \in DOMAIN job.universe
<1> DEFINE j == job
           u == j.universe
<1>1. /\ IsSequence(u) /\ Range(u) \subseteq Source(j.cfg, j.verb) /\ j.cursor \in Nat
      /\ InOrder(j.cfg) /\ IsSequence(j.wants) /\ \A r \in Range(j.wants) : IsFiniteSet(r)
  BY DEF GatherOK, Asked
<1>2. Len(u) \in Nat /\ DOMAIN u = 1 .. Len(u)
  BY <1>1, Indexed
<1>3. CASE j.cursor = 0
  BY <1>1, <1>3 DEF Due
<1>4. CASE j.cursor # 0
  <2>1. j.cursor \in DOMAIN u
    BY <1>1, <1>2, <1>4
  <2>2. u[j.cursor] \in Collect(j.cfg)
    BY <1>1, <2>1 DEF Range, Source
  <2>3. Formed(u[j.cursor])
    BY <1>1, <2>2, CandidatesFormed, Shapes
  <2> QED BY <1>4, <2>1, <2>3 DEF Due, Formed
<1> QED BY <1>3, <1>4

(* One pass of expand_dependency_universe: the requirements of one more *)
(* candidate are covered.                                               *)
LEMMA ExpandKeeps ==
  ASSUME JobInv, Expand
  PROVE  JobInv'
<1> DEFINE j == job
           k == job'
           u == j.universe
           J == JoinedAll(u, Gathered)
<1>1. /\ j.phase = "expand" /\ j.cursor <= Len(u)
      /\ k = [j EXCEPT !.universe = J, !.cursor = @ + 1]
  BY DEF Expand, In
<1>2. JobOK(j, clauses, active)
  BY DEF JobInv
<1>3. /\ IsJob(j) /\ Asked(j) /\ GatherOK(j) /\ j.stack = <<>> /\ j.order = <<>>
      /\ j.verb = "build" =>
           /\ IsJob(j.outer) /\ Asked(j.outer) /\ Drawn(j.outer)
           /\ j.outer.phase = "prepare" /\ j.outer.verb # "build"
  BY <1>1, <1>2 DEF JobOK
<1>4. /\ IsJob(k) /\ k.phase = "expand" /\ k.verb = j.verb /\ k.cfg = j.cfg /\ k.wants = j.wants
      /\ k.outer = j.outer /\ k.universe = J /\ k.fixed = j.fixed /\ k.cursor = j.cursor + 1
      /\ k.stack = <<>> /\ k.order = <<>>
  <2> HIDE DEF J
  <2> QED BY <1>1, <1>3 DEF IsJob
<1>5. /\ Readable(j.cfg) /\ IsSequence(u) /\ Range(u) \subseteq Source(j.cfg, j.verb)
      /\ IsSequence(j.fixed) /\ Range(j.fixed) \subseteq DOMAIN u /\ j.cursor \in Nat
      /\ j.verb = "build" => j.fixed = <<>>
      /\ j.verb = "build" /\ j.cursor # 0 =>
           \A r \in Range(j.wants) : Covered(j.cfg, j.verb, u, j.fixed, r)
      /\ \A i \in DOMAIN u : i < j.cursor =>
           \A r \in Range(u[i].requirements) : Covered(j.cfg, j.verb, u, j.fixed, r)
  BY <1>3 DEF GatherOK
<1>6. IsSequence(Due) /\ (\A r \in Range(Due) : IsFiniteSet(r)) /\ (j.cursor # 0 => j.cursor \in DOMAIN u)
  BY <1>1, <1>3, DueHolds
<1>7. InOrder(j.cfg)
  BY <1>3 DEF Asked
<1>8. /\ IsSequence(Gathered) /\ Range(Gathered) \subseteq Source(j.cfg, j.verb)
      /\ \A r \in Range(Due) : ~MetByFixed(r) => \A q \in r : Range(Eligible(q)) \subseteq Range(Gathered)
  BY <1>6, <1>7, GatheredHolds
<1>9. /\ IsSequence(J) /\ GrownFrom(u, J) /\ Range(J) \subseteq Range(u) \cup Range(Gathered)
      /\ \A c \in Range(Gathered) : \E d \in Range(J) : GraphKey(d) = GraphKey(c)
  BY <1>5, <1>8, JoinedHolds
<1> HIDE DEF J
<1>10. Range(J) \subseteq Source(j.cfg, j.verb)
  BY <1>5, <1>8, <1>9
<1>11. Range(Gathered) \subseteq Range(J)
  <2> SUFFICES ASSUME NEW c \in Range(Gathered) PROVE c \in Range(J)
    OBVIOUS
  <2>1. PICK d \in Range(J) : GraphKey(d) = GraphKey(c)
    BY <1>9
  <2>2. c \in Collect(j.cfg) /\ d \in Collect(j.cfg)
    BY <1>8, <1>10 DEF Source
  <2>3. d = c
    BY <1>5, <1>7, <2>1, <2>2, KnownByKey
  <2> QED BY <2>1, <2>3
<1>12. /\ DOMAIN u = 1 .. Len(u) /\ Len(u) \in Nat /\ DOMAIN J = 1 .. Len(J) /\ Len(J) \in Nat
       /\ DOMAIN u \subseteq DOMAIN J /\ \A i \in DOMAIN u : J[i] = u[i]
  <2>1. DOMAIN u = 1 .. Len(u) /\ Len(u) \in Nat /\ DOMAIN J = 1 .. Len(J) /\ Len(J) \in Nat
    BY <1>5, <1>9, Indexed
  <2> QED BY <1>9, <2>1 DEF GrownFrom
<1>13. ASSUME NEW r, Covered(j.cfg, j.verb, u, j.fixed, r)
       PROVE  Covered(j.cfg, j.verb, J, j.fixed, r)
  <2> HIDE DEF u, j
  <2> QED BY ONLY <1>5, <1>9, <1>13, CoveredStays
<1>14. ASSUME NEW r \in Range(Due)
       PROVE  Covered(j.cfg, j.verb, J, j.fixed, r)
  <2>1. CASE MetByFixed(r)
    <3>1. PICK i \in Range(j.fixed) : MeetsOne(u[i], r)
      BY <2>1 DEF MetByFixed
    <3>2. J[i] = u[i]
      BY <1>5, <1>12
    <3> QED BY <3>1, <3>2 DEF Covered
  <2>2. CASE ~MetByFixed(r)
    <3>1. \A q \in r : Range(EligibleIn(j.cfg, j.verb, q)) \subseteq Range(J)
      BY <1>8, <1>11, <2>2, EligibleIs
    <3> QED BY <3>1 DEF Covered
  <2> QED BY <2>1, <2>2
<1>15. ASSUME NEW i \in DOMAIN J, i < j.cursor + 1, NEW r \in Range(J[i].requirements)
       PROVE  Covered(j.cfg, j.verb, J, j.fixed, r)
  <2>1. i \in DOMAIN u
    BY <1>1, <1>5, <1>12, <1>15
  <2>2. J[i] = u[i] /\ i # 0
    BY <1>12, <2>1
  <2>3. CASE i < j.cursor
    BY <1>5, <1>13, <2>1, <2>2, <2>3
  <2>4. CASE i = j.cursor
    <3>1. Due = u[i].requirements
      BY <2>2, <2>4 DEF Due
    <3> QED BY <1>14, <2>2, <3>1
  <2> QED BY <1>5, <1>12, <1>15, <2>1, <2>3, <2>4
<1>16. ASSUME j.verb = "build", NEW r \in Range(j.wants)
       PROVE  Covered(j.cfg, j.verb, J, j.fixed, r)
  <2>1. CASE j.cursor = 0
    BY <1>14, <1>16, <2>1 DEF Due
  <2>2. CASE j.cursor # 0
    BY <1>5, <1>13, <1>16, <2>2
  <2> QED BY <2>1, <2>2
<1> HIDE DEF k
<1>17. GatherOK(k)
  <2>1. Range(k.fixed) \subseteq DOMAIN k.universe /\ k.cursor \in Nat
    BY <1>4, <1>5, <1>12
  <2> HIDE DEF j, u
  <2> QED BY ONLY <1>4, <1>5, <1>9, <1>10, <1>15, <1>16, <2>1 DEF GatherOK
<1>18. Asked(k)
  BY <1>3, <1>4 DEF Asked
<1>19. k.verb = "build" =>
        /\ IsJob(k.outer) /\ Asked(k.outer) /\ Drawn(k.outer)
        /\ k.outer.phase = "prepare" /\ k.outer.verb # "build"
  BY <1>3, <1>4
<1>20. JobOK(k, clauses', active')
  BY <1>4, <1>17, <1>18, <1>19 DEF JobOK
<1> QED BY <1>20 DEF JobInv, k

(* The plan of a build root is empty to begin with.                              *)
LEMMA ResolveBuildKeeps ==
  ASSUME JobInv, ResolveBuild
  PROVE  JobInv'
<1> DEFINE j == job
           k == job'
<1>1. j.phase = "fetch" /\ j.verb = "build" /\ Readable(j.cfg) /\ k = [j EXCEPT !.phase = "expand"]
  BY DEF ResolveBuild, In
<1>2. JobOK(j, clauses, active)
  BY DEF JobInv
<1>3. /\ IsJob(j) /\ Asked(j) /\ j.stack = <<>> /\ j.order = <<>>
      /\ j.universe = <<>> /\ j.fixed = <<>> /\ j.cursor = 0
      /\ IsJob(j.outer) /\ Asked(j.outer) /\ Drawn(j.outer)
      /\ j.outer.phase = "prepare" /\ j.outer.verb # "build"
  BY <1>1, <1>2 DEF JobOK
<1>4. /\ IsJob(k) /\ k.phase = "expand" /\ k.verb = j.verb /\ k.cfg = j.cfg /\ k.wants = j.wants
      /\ k.outer = j.outer /\ k.universe = <<>> /\ k.fixed = <<>> /\ k.cursor = 0
      /\ k.stack = <<>> /\ k.order = <<>>
  BY <1>1, <1>3 DEF IsJob
<1>5. IsSequence(<<>>) /\ Range(<<>>) = {} /\ DOMAIN <<>> = {}
  BY DEF IsSequence, Range
<1> HIDE DEF k
<1>6. GatherOK(k) /\ Asked(k)
  BY <1>1, <1>3, <1>4, <1>5 DEF GatherOK, Asked
<1>7. JobOK(k, clauses', active')
  BY <1>1, <1>3, <1>4, <1>6 DEF JobOK
<1> QED BY <1>7 DEF JobInv, k

(* What is installed, in the order of the names.                                 *)
LEMMA InstalledListed ==
  ASSUME DbInv, NEW R \in SUBSET Installed
  PROVE  LET L == Listed(R, LAMBDA r, t : Rank[r.package] < Rank[t.package]) IN
         IsSequence(L) /\ Range(L) = R
<1> DEFINE Less(r, t) == Rank[r.package] < Rank[t.package]
           B == [r \in R |-> {t \in R : Less(t, r)}]
           L == Listed(R, LAMBDA r, t : Rank[r.package] < Rank[t.package])
<1>1. IsFiniteSet(R)
  <2> DEFINE S == {db[p] : p \in Package}
             f == [p \in Package |-> db[p]]
  <2>1. f \in Surjection(Package, S)
    BY DEF Surjection
  <2>2. R \subseteq S
    BY DEF Installed
  <2> HIDE DEF f, S
  <2>3. IsFiniteSet(S)
    BY <2>1, ResolutionAssumption, FS_Surjection
  <2> QED BY <2>2, <2>3, FS_Subset
<1>2. \A r \in R : \E p \in Package : r = db[p] /\ r.package = p
  BY DEF DbInv, Installed
<1>3. \A r \in R : r.package \in DOMAIN Rank /\ Rank[r.package] \in Int
  BY <1>2, ResolutionAssumption
<1>4. ASSUME NEW r \in R, NEW t \in R, r # t PROVE Less(r, t) \/ Less(t, r)
  <2>1. r.package # t.package
    BY <1>2, <1>4
  <2>2. Rank[r.package] # Rank[t.package]
    BY <1>3, <2>1, ResolutionAssumption
  <2> QED BY <1>3, <2>2
<1>5. ASSUME NEW r \in R PROVE ~Less(r, r)
  BY <1>3
<1>6. ASSUME NEW r \in R, NEW t \in R, NEW v \in R, Less(r, t), Less(t, v) PROVE Less(r, v)
  BY <1>3, <1>6
<1>7. /\ B \in [R -> SUBSET R] /\ \A r \in R : r \notin B[r]
      /\ \A r, t \in R : r # t => r \in B[t] \/ t \in B[r]
      /\ \A r, t \in R : r \in B[t] => B[r] \subseteq B[t]
  BY <1>4, <1>5, <1>6
<1>8. \A n \in 1 .. Cardinality(R) : \E r \in R : Cardinality(B[r]) = n - 1
  <2> HIDE DEF B
  <2> QED BY ONLY <1>1, <1>7, Numbering
<1>9. \A r \in R : B[r] = {t \in R : Rank[t.package] < Rank[r.package]}
  OBVIOUS
<1>10. L = [n \in 1 .. Cardinality(R) |->
              CHOOSE r \in R : Cardinality({t \in R : Rank[t.package] < Rank[r.package]}) = n - 1]
  BY DEF Listed
<1> HIDE DEF B, L
<1>11. \A n \in 1 .. Cardinality(R) :
         L[n] \in R /\ Cardinality({t \in R : Rank[t.package] < Rank[L[n].package]}) = n - 1
  <2> SUFFICES ASSUME NEW n \in 1 .. Cardinality(R)
               PROVE  L[n] \in R /\ Cardinality({t \in R : Rank[t.package] < Rank[L[n].package]}) = n - 1
    OBVIOUS
  <2>1. L[n] = CHOOSE r \in R : Cardinality({t \in R : Rank[t.package] < Rank[r.package]}) = n - 1
    BY <1>10
  <2>2. \E r \in R : Cardinality({t \in R : Rank[t.package] < Rank[r.package]}) = n - 1
    BY <1>8, <1>9
  <2> QED BY <2>1, <2>2
<1>12. L \in [1 .. Cardinality(R) -> R]
  BY <1>10, <1>11
<1>13. \A n \in 1 .. Cardinality(R) : Cardinality(B[L[n]]) = n - 1
  BY <1>9, <1>11
<1>14. Lists(L, R)
  BY <1>1, <1>7, <1>12, <1>13, ListInOrder
<1>15. L \in Seq(R) /\ Range(L) = R
  BY <1>1, <1>14, ListsIsSequence
<1> QED BY <1>15 DEF L, IsSequence

(* The candidates that an installed package is kept by are candidates. *)
LEMMA RetainedIn ==
  ASSUME InOrder(job.cfg), NEW r
  PROVE  RetainedFor(r) \subseteq Collect(job.cfg)
<1> DEFINE s == [namespace |-> None, name |-> r.package, version |-> r.version]
           C == CollectBy(s)
<1>1. C \in SUBSET Collect(job.cfg)
  BY DEF CollectBy
<1>2. RetainedFor(r) \subseteq Range(Domain(C, None, r))
  BY DEF RetainedFor, Retained
<1> HIDE DEF C
<1>3. Range(Domain(C, None, r)) \subseteq C
  BY <1>1, DomainHolds
<1> QED BY <1>1, <1>2, <1>3

(* A call resolves its selector and pins what is installed. *)
LEMMA ResolveKeeps ==
  ASSUME JobInv, DbInv, Resolve
  PROVE  JobInv'
<1> DEFINE j == job
           k == job'
           s == j.selector
           old == db[s.name]
           C == CollectBy(s)
           domain == Domain(C, s.namespace, old)
           top == domain[Len(domain)]
           kept == {r \in Installed : r.package # s.name}
           byName == Listed(kept, LAMBDA r, t : Rank[r.package] < Rank[t.package])
           stay == [n \in DOMAIN byName |-> CHOOSE c \in RetainedFor(byName[n]) : TRUE]
           all == JoinedAll(<<top>>, stay)
           fixed == [n \in DOMAIN stay |-> IndexIn(all, stay[n])]
<1>1. /\ j.phase = "fetch" /\ j.verb # "build" /\ Readable(j.cfg)
      /\ domain # <<>> /\ \A r \in kept : RetainedFor(r) # {}
      /\ k = [j EXCEPT !.phase = "expand", !.cursor = 1, !.universe = all, !.fixed = fixed]
  BY DEF Resolve, In
<1>2. JobOK(j, clauses, active)
  BY DEF JobInv
<1>3. IsJob(j) /\ Asked(j) /\ InOrder(j.cfg) /\ j.stack = <<>> /\ j.order = <<>>
  BY <1>1, <1>2 DEF JobOK, Asked
<1>4. top \in Collect(j.cfg)
  <2>1. C \in SUBSET Collect(j.cfg)
    BY DEF CollectBy
  <2> HIDE DEF C, s, old
  <2>2. IsSequence(domain) /\ Range(domain) \subseteq C /\ domain # <<>>
    BY <1>1, <1>3, <2>1, DomainHolds
  <2> HIDE DEF domain
  <2>3. Len(domain) \in Nat \ {0} /\ DOMAIN domain = 1 .. Len(domain)
    BY <2>2, HeadAndTail, Indexed
  <2>4. Len(domain) \in DOMAIN domain
    BY <2>3
  <2> QED BY <2>1, <2>2, <2>4 DEF Range
<1>5. IsSequence(byName) /\ Range(byName) = kept
  <2>1. kept \in SUBSET Installed
    OBVIOUS
  <2> HIDE DEF kept
  <2> QED BY <2>1, InstalledListed
<1>6. /\ k.cursor = 1 /\ k.phase = "expand" /\ k.universe = all /\ k.fixed = fixed /\ IsJob(k)
      /\ k.verb = j.verb /\ k.cfg = j.cfg /\ k.wants = j.wants /\ k.stack = <<>> /\ k.order = <<>>
  <2> HIDE DEF all, fixed
  <2> QED BY <1>1, <1>3 DEF IsJob
<1> HIDE DEF k, top, kept, byName
<1>7. Len(byName) \in Nat /\ DOMAIN byName = 1 .. Len(byName)
  BY <1>5, Indexed
<1>8. IsSequence(stay) /\ Range(stay) \subseteq Collect(j.cfg) /\ DOMAIN stay = 1 .. Len(byName)
  <2>1. \A n \in 1 .. Len(byName) : byName[n] \in kept
    BY <1>5, <1>7 DEF Range
  <2>2. \A n \in 1 .. Len(byName) : stay[n] \in RetainedFor(byName[n])
    BY <1>1, <1>7, <2>1
  <2>3. DOMAIN stay = 1 .. Len(byName) /\ stay = [n \in 1 .. Len(byName) |-> stay[n]]
    BY <1>7
  <2> HIDE DEF stay
  <2>4. IsSequence(stay)
    BY <1>7, <2>3, MappedSequence
  <2>5. \A n \in 1 .. Len(byName) : stay[n] \in Collect(j.cfg)
    BY <1>3, <2>2, RetainedIn
  <2> QED BY <2>3, <2>4, <2>5 DEF Range
<1> HIDE DEF stay
<1>9. IsSequence(<<top>>) /\ Range(<<top>>) \subseteq Collect(j.cfg)
  BY <1>4, OneOrTwo DEF Range
<1>10. /\ IsSequence(all) /\ Range(all) \subseteq Collect(j.cfg)
       /\ \A c \in Range(stay) : \E d \in Range(all) : GraphKey(d) = GraphKey(c)
  <2> DEFINE t == <<top>>
  <2>1. IsSequence(t) /\ Range(t) \subseteq Collect(j.cfg) /\ all = JoinedAll(t, stay)
    BY <1>9
  <2> HIDE DEF t, all
  <2> QED BY <1>8, <2>1, JoinedHolds
<1> HIDE DEF all
<1>11. IsSequence(fixed) /\ Range(fixed) \subseteq DOMAIN all
  <2>1. ASSUME NEW n \in 1 .. Len(byName) PROVE IndexIn(all, stay[n]) \in DOMAIN all
    <3>1. stay[n] \in Range(stay)
      BY <1>8 DEF Range
    <3>2. \E i \in DOMAIN all : GraphKey(all[i]) = GraphKey(stay[n])
      BY <1>10, <3>1 DEF Range
    <3> QED BY <3>2 DEF IndexIn
  <2>2. DOMAIN fixed = 1 .. Len(byName) /\ fixed = [n \in 1 .. Len(byName) |-> fixed[n]]
        /\ \A n \in 1 .. Len(byName) : fixed[n] \in DOMAIN all
    BY <1>8, <2>1
  <2> HIDE DEF fixed
  <2>3. IsSequence(fixed)
    BY <1>7, <2>2, MappedSequence
  <2> QED BY <2>2, <2>3 DEF Range
<1> HIDE DEF fixed
<1>12. Len(all) \in Nat /\ DOMAIN all = 1 .. Len(all) /\ \A i \in DOMAIN all : ~(i < 1)
  BY <1>10, Indexed
<1>13. Range(all) \subseteq Source(j.cfg, j.verb)
  BY <1>1, <1>10 DEF Source
<1>14. GatherOK(k)
  <2>1. Readable(k.cfg) /\ k.verb # "build" /\ k.cursor \in Nat /\ \A i \in DOMAIN k.universe : ~(i < k.cursor)
    BY <1>1, <1>6, <1>12
  <2>2. /\ IsSequence(k.universe) /\ Range(k.universe) \subseteq Source(k.cfg, k.verb)
        /\ IsSequence(k.fixed) /\ Range(k.fixed) \subseteq DOMAIN k.universe
    BY <1>6, <1>10, <1>11, <1>13
  <2> QED BY <2>1, <2>2 DEF GatherOK
<1>15. Asked(k)
  BY <1>3, <1>6 DEF Asked
<1>16. JobOK(k, clauses', active')
  BY <1>1, <1>6, <1>14, <1>15 DEF JobOK
<1> QED BY <1>16 DEF JobInv, k

(* The candidate that stands for a build root, whose requirements are the *)
(* needs of a build.                                                      *)
LEMMA ClosureFields ==
  ASSUME NEW wants, IsSequence(wants), \A r \in Range(wants) : IsFiniteSet(r),
         NEW c, c = BuildClosure(wants)
  PROVE  /\ c.name \in DOMAIN Rank /\ c.sequence \in Int /\ IsSequence(c.requirements)
         /\ IsSequence(c.conflicts) /\ c.route = "closure"
<1>1. c.name = BuildRoot /\ c.sequence = 1 /\ c.requirements = wants /\ c.conflicts = <<>> /\ c.route = "closure"
  BY DEF BuildClosure
<1>2. IsSequence(<<>>)
  BY DEF IsSequence
<1>3. BuildRoot \in DOMAIN Rank
  BY ResolutionAssumption
<1>4. 1 \in Int
  OBVIOUS
<1> QED BY ONLY <1>1, <1>2, <1>3, <1>4, IsSequence(wants)

(* All that was gathered, as a graph.                                            *)
LEMMA CompilePosed ==
  ASSUME JobInv, Compile
  PROVE  /\ job'.phase = "solve" /\ IsJob(job') /\ Charted(job') /\ Closed(job')
         /\ clauses' = GraphClauses(job'.universe, job'.root, job'.fixed) /\ active' = VarsOf(clauses')
         /\ job'.verb = job.verb /\ job'.cfg = job.cfg /\ job'.wants = job.wants /\ job'.outer = job.outer
         /\ job'.stack = <<>> /\ job'.order = <<>>
<1> DEFINE j == job
           k == job'
           u == j.universe
           all == IF j.verb = "build" THEN Append(u, BuildClosure(j.wants)) ELSE u
           root == IF j.verb = "build" THEN Len(all) ELSE 1
           cs == GraphClauses(all, root, j.fixed)
<1>1. /\ j.phase = "expand" /\ j.cursor > Len(u) /\ CandidatesValid(all, root, j.fixed)
      /\ k = [j EXCEPT !.phase = "solve", !.universe = all, !.root = root]
      /\ clauses' = cs /\ active' = VarsOf(cs)
  BY DEF Compile, In
<1>2. JobOK(j, clauses, active)
  BY DEF JobInv
<1>3. IsJob(j) /\ Asked(j) /\ GatherOK(j) /\ j.stack = <<>> /\ j.order = <<>>
  BY <1>1, <1>2 DEF JobOK
<1>4. /\ IsJob(k) /\ k.phase = "solve" /\ k.verb = j.verb /\ k.cfg = j.cfg /\ k.wants = j.wants
      /\ k.outer = j.outer /\ k.universe = all /\ k.fixed = j.fixed /\ k.root = root
      /\ k.stack = <<>> /\ k.order = <<>>
  <2> HIDE DEF all, root
  <2> QED BY <1>1, <1>3 DEF IsJob
<1>5. /\ Readable(j.cfg) /\ IsSequence(u) /\ Range(u) \subseteq Source(j.cfg, j.verb)
      /\ IsSequence(j.fixed) /\ Range(j.fixed) \subseteq DOMAIN u /\ j.cursor \in Nat
      /\ j.verb = "build" => j.fixed = <<>>
      /\ j.verb = "build" /\ j.cursor # 0 =>
           \A r \in Range(j.wants) : Covered(j.cfg, j.verb, u, j.fixed, r)
      /\ \A i \in DOMAIN u : i < j.cursor =>
           \A r \in Range(u[i].requirements) : Covered(j.cfg, j.verb, u, j.fixed, r)
      /\ InOrder(j.cfg) /\ IsSequence(j.wants) /\ \A r \in Range(j.wants) : IsFiniteSet(r)
  BY <1>3 DEF GatherOK, Asked
<1>6. Len(u) \in Nat /\ DOMAIN u = 1 .. Len(u)
  BY <1>5, Indexed
<1> DEFINE z == BuildClosure(j.wants)
<1>7. /\ z.name \in DOMAIN Rank /\ z.sequence \in Int /\ IsSequence(z.requirements)
      /\ IsSequence(z.conflicts) /\ z.route = "closure"
  <2> HIDE DEF j
  <2> QED BY <1>5, ClosureFields
<1> HIDE DEF z
<1>8. /\ IsSequence(all) /\ GrownFrom(u, all)
      /\ \A i \in DOMAIN all : (i \in DOMAIN u /\ all[i] = u[i]) \/ (j.verb = "build" /\ i = root /\ all[i] = z)
  <2>1. CASE j.verb = "build"
    <3> DEFINE a == Append(u, z)
    <3>1. all = a /\ root = Len(a)
      BY <2>1 DEF z
    <3>2. /\ IsSequence(a) /\ Len(a) = Len(u) + 1 /\ DOMAIN a = 1 .. Len(u) + 1
          /\ a[Len(u) + 1] = z /\ \A i \in 1 .. Len(u) : a[i] = u[i]
          /\ GrownFrom(u, a)
      BY <1>5, Appended
    <3> HIDE DEF a, all, root
    <3>3. \A i \in 1 .. Len(u) + 1 : i \in 1 .. Len(u) \/ i = Len(u) + 1
      BY <1>6
    <3> QED BY <1>6, <2>1, <3>1, <3>2, <3>3
  <2>2. CASE j.verb # "build"
    <3>1. all = u
      BY <2>2
    <3>2. GrownFrom(u, u)
      BY <1>5, <1>6 DEF GrownFrom
    <3> HIDE DEF all
    <3> QED BY <1>5, <3>1, <3>2
  <2> QED BY <2>1, <2>2
<1> HIDE DEF all, root, k
<1>9. \A i \in DOMAIN u : u[i] \in Source(j.cfg, j.verb) /\ u[i] \in Collect(j.cfg)
  BY <1>5 DEF Range, Source
<1>10. \A c \in Collect(j.cfg) : Formed(c) /\ c.route \in {"native", "source"}
  BY <1>5, CandidatesFormed, Shapes
<1>11. /\ root \in DOMAIN all /\ Len(all) <= MaxGraph
       /\ \A i, m \in DOMAIN all : i # m /\ all[i].name = all[m].name =>
            all[i].version # all[m].version /\ all[i].sequence # all[m].sequence
       /\ Range(j.fixed) \subseteq DOMAIN all
  BY <1>1 DEF CandidatesValid
<1>12. Graph(all)
  <2>1. ASSUME NEW i \in DOMAIN all
        PROVE  /\ all[i].name \in DOMAIN Rank /\ all[i].sequence \in Int
               /\ IsSequence(all[i].requirements) /\ IsSequence(all[i].conflicts)
    <3>1. CASE i \in DOMAIN u /\ all[i] = u[i]
      BY <1>9, <1>10, <3>1 DEF Formed
    <3>2. CASE all[i] = z
      BY <1>7, <3>2
    <3> QED BY <1>8, <3>1, <3>2
  <2> QED BY <1>8, <1>11, <2>1 DEF Graph
<1>13. Len(all) <= MaxPackages
  <2>1. Len(all) \in Nat
    BY <1>8, Indexed
  <2>2. MaxGraph \in Nat /\ MaxGraph <= MaxPackages
    BY ResolutionAssumption
  <2>3. MaxPackages \in Nat
    BY SolverAssumption
  <2> DEFINE n == Len(all)
  <2>4. n \in Nat /\ n <= MaxGraph
    BY <1>11, <2>1
  <2> HIDE DEF n
  <2>5. n <= MaxPackages
    BY ONLY <2>2, <2>3, <2>4
  <2> QED BY <2>5 DEF n
<1>14. Posed(all, root, j.fixed)
  BY <1>5, <1>11, <1>12, <1>13 DEF Posed
<1>15. Charted(k)
  <2>1. \A i \in DOMAIN all : i # root \/ j.verb # "build" => all[i] \in Source(j.cfg, j.verb)
    BY <1>8, <1>9
  <2> HIDE DEF j
  <2> QED BY <1>4, <1>14, <2>1 DEF Charted
<1>16. Closed(k)
  <2>1. \A i, m \in DOMAIN all : i # m => all[i] # all[m]
    BY <1>11
  <2>2. ASSUME NEW r, Covered(j.cfg, j.verb, u, j.fixed, r)
        PROVE  Covered(j.cfg, j.verb, all, j.fixed, r)
    <3> HIDE DEF u, j
    <3> QED BY ONLY <1>5, <1>8, <2>2, CoveredStays
  <2>3. ASSUME NEW i \in DOMAIN all, all[i] \in Collect(j.cfg), NEW r \in Range(all[i].requirements)
        PROVE  Covered(j.cfg, j.verb, all, j.fixed, r)
    <3>1. i \in DOMAIN u /\ all[i] = u[i]
      BY <1>7, <1>8, <1>10, <2>3
    <3>2. i < j.cursor
      BY <1>1, <1>5, <1>6, <3>1
    <3> QED BY <1>5, <2>2, <2>3, <3>1, <3>2
  <2>4. ASSUME j.verb = "build", NEW r \in Range(j.wants)
        PROVE  Covered(j.cfg, j.verb, all, j.fixed, r)
    <3>1. j.cursor # 0
      BY <1>1, <1>5, <1>6
    <3> QED BY <1>5, <2>2, <2>4, <3>1
  <2> HIDE DEF j, u
  <2> QED BY ONLY <1>4, <1>5, <2>1, <2>3, <2>4 DEF Closed
<1>17. clauses' = GraphClauses(k.universe, k.root, k.fixed) /\ active' = VarsOf(clauses')
  BY <1>1, <1>4
<1> QED BY <1>4, <1>15, <1>16, <1>17 DEF k

(* compile_dependency_graph: the clauses are those of all that was gathered. *)
LEMMA CompileKeeps ==
  ASSUME JobInv, Compile
  PROVE  JobInv' /\ ClausesOK'
<1> DEFINE j == job
           k == job'
<1>1. /\ k.phase = "solve" /\ IsJob(k) /\ Charted(k) /\ Closed(k)
      /\ clauses' = GraphClauses(k.universe, k.root, k.fixed) /\ active' = VarsOf(clauses')
      /\ k.verb = j.verb /\ k.cfg = j.cfg /\ k.wants = j.wants /\ k.outer = j.outer
      /\ k.stack = <<>> /\ k.order = <<>>
  BY CompilePosed
<1>2. JobOK(j, clauses, active) /\ j.phase = "expand"
  BY DEF JobInv, Compile, In
<1>3. /\ Asked(j)
      /\ j.verb = "build" =>
           /\ IsJob(j.outer) /\ Asked(j.outer) /\ Drawn(j.outer)
           /\ j.outer.phase = "prepare" /\ j.outer.verb # "build"
  BY <1>2 DEF JobOK
<1> HIDE DEF k
<1>4. Asked(k)
  BY <1>1, <1>3 DEF Asked
<1>5. k.verb = "build" =>
        /\ IsJob(k.outer) /\ Asked(k.outer) /\ Drawn(k.outer)
        /\ k.outer.phase = "prepare" /\ k.outer.verb # "build"
  BY <1>1, <1>3
<1>6. JobOK(k, clauses', active')
  BY <1>1, <1>4, <1>5 DEF JobOK
<1>7. ClausesOK'
  <2>1. Posed(k.universe, k.root, k.fixed)
    BY <1>1 DEF Charted
  <2> DEFINE cs == clauses'
             c == k.universe
             req == k.root
             fixed == k.fixed
  <2>2. Posed(c, req, fixed) /\ cs = GraphClauses(c, req, fixed)
    BY <1>1, <2>1
  <2> HIDE DEF cs, c, req, fixed
  <2>3. /\ IsSequence(cs) /\ \A i \in DOMAIN cs : IsSequence(cs[i])
        /\ \A i \in DOMAIN cs : \A l \in Literals(cs[i]) : l \in Lit /\ l.var \in VarsOf(cs)
        /\ VarsOf(cs) \subseteq Var
    BY ONLY <2>2, ClausesPosed
  <2> QED BY <1>1, <2>3 DEF ClausesOK, cs
<1> QED BY <1>6, <1>7 DEF JobInv, k

(* The packages of a plan are counted from one.                                  *)
NextInv ==
  /\ job.phase # "idle" => job.next \in Nat \ {0}
  /\ job.phase # "idle" /\ job.verb = "build" => job.outer.next \in Nat \ {0}

(* A call that begins. *)
LEMMA BeginKeeps ==
  ASSUME Begin
  PROVE  JobInv'
<1>1. PICK cfg \in Config, s \in Selector, verb \in {"install", "update"} :
        ConfigValid(cfg) /\ job' = NewPlan(verb, cfg, s, <<>>, None)
  BY DEF Begin
<1>2. InOrder(cfg) /\ verb # "build"
  BY <1>1 DEF InOrder
<1>3. IsSequence(<<>>) /\ Range(<<>>) = {}
  BY DEF IsSequence, Range
<1> DEFINE none == None
           wants == <<>>
           j == NewPlan(verb, cfg, s, wants, none)
<1>4. IsSequence(wants) /\ \A r \in Range(wants) : IsFiniteSet(r)
  BY <1>3
<1> HIDE DEF none, wants
<1>5. JobOK(j, clauses', active')
  BY <1>2, <1>4, JobBegins
<1> QED BY <1>1, <1>5 DEF JobInv, none, wants

(* A step that leaves the job and its clauses. *)
LEMMA JobStays ==
  ASSUME JobInv, job' = job, UNCHANGED <<clauses, active>>
  PROVE  JobInv'
BY DEF JobInv

(* A job that is dropped. *)
LEMMA JobDone ==
  ASSUME job' = Idle
  PROVE  JobInv'
<1>1. JobOK(Idle, clauses', active')
  BY JobEnds
<1> QED BY <1>1 DEF JobInv

(* The needs of a source record are a sequence of finite requirements. *)
LEMMA BuildNeedsListed ==
  ASSUME JobInv, job.phase = "prepare", job.verb # "build", job.next \in Nat \ {0},
         job.next <= Len(job.order), Here.route = "source"
  PROVE  IsSequence(BuildNeeds)
<1> DEFINE j == job
           u == j.universe
<1>1. Asked(j) /\ Drawn(j)
  BY DEF JobInv, JobOK
<1>2. /\ InOrder(j.cfg) /\ IsSequence(j.order) /\ Range(j.order) \subseteq DOMAIN u
      /\ \A i \in DOMAIN u : u[i] \in Source(j.cfg, j.verb)
  BY <1>1 DEF Asked, Drawn, Picked, Charted
<1>3. Len(j.order) \in Nat /\ DOMAIN j.order = 1 .. Len(j.order)
  BY <1>2, Indexed
<1>4. j.next \in DOMAIN j.order
  BY <1>3
<1>5. j.order[j.next] \in DOMAIN u
  BY <1>2, <1>4 DEF Range
<1> DEFINE c == u[j.order[j.next]]
<1>6. Here = c /\ c \in Collect(j.cfg) /\ c.route = "source"
  BY <1>2, <1>5 DEF Here, Plan, Source
<1>7. ConfigShaped(j.cfg)
  BY <1>2, Shapes
<1> HIDE DEF c
<1>8. PICK k, n : Origin(j.cfg, c, k, n)
  BY <1>6, <1>7, Origins
<1> DEFINE repo == Repositories(j.cfg)[k]
           p == repo.document.packages[n]
<1>9. c.record = p /\ n \in DOMAIN repo.document.packages
  BY <1>8, CandidateFields DEF Origin
<1>10. repo \in Range(j.cfg.sources)
  <2>1. k \in DOMAIN Repositories(j.cfg) /\ ~(k <= Len(j.cfg.natives))
    BY <1>6, <1>8 DEF Origin
  <2> QED BY <1>7, <2>1, RepositoriesAre
<1> HIDE DEF repo
<1>11. IsSequence(p.ingress.recipe.depends)
  <2>1. p \in Range(repo.document.packages)
    BY <1>9 DEF Range
  <2> QED BY <1>7, <1>10, <2>1 DEF ConfigShaped
<1> QED BY <1>6, <1>9, <1>11 DEF BuildNeeds

(* resolve_build_root begins: a plan of its own, within the plan it is for. *)
LEMMA BeginBuildRootKeeps ==
  ASSUME JobInv, NextInv, BeginBuildRoot
  PROVE  JobInv'
<1> DEFINE j == job
           w == [n \in DOMAIN BuildNeeds |-> {[name |-> BuildNeeds[n], versions |-> {}]}]
<1>1. /\ j.phase = "prepare" /\ j.verb # "build" /\ j.next <= Len(j.order) /\ Here.route = "source"
      /\ job' = NewPlan("build", j.cfg, j.selector, w, j)
  BY DEF BeginBuildRoot, IsNew, More, In
<1>2. j.next \in Nat \ {0}
  BY <1>1 DEF NextInv
<1>3. IsSequence(BuildNeeds)
  BY <1>1, <1>2, BuildNeedsListed
<1> DEFINE b == BuildNeeds
<1>4. Len(b) \in Nat /\ DOMAIN b = 1 .. Len(b)
  BY <1>3, Indexed
<1> HIDE DEF b
<1>5. IsSequence(w) /\ \A r \in Range(w) : IsFiniteSet(r)
  <2>1. DOMAIN w = 1 .. Len(b) /\ w = [n \in 1 .. Len(b) |-> w[n]]
    BY <1>4 DEF b
  <2>2. \A n \in 1 .. Len(b) : \E x : w[n] = {x}
    BY <1>4 DEF b
  <2> HIDE DEF w
  <2>3. IsSequence(w)
    BY <1>4, <2>1, MappedSequence
  <2>4. \A n \in 1 .. Len(b) : IsFiniteSet(w[n])
    BY <2>2, FS_Singleton
  <2> QED BY <2>1, <2>3, <2>4 DEF Range
<1>6. IsJob(j) /\ Asked(j) /\ Drawn(j) /\ InOrder(j.cfg)
  BY <1>1 DEF JobInv, JobOK, Asked
<1> DEFINE s == j.selector
           cfg == j.cfg
<1>7. InOrder(cfg) /\ job' = NewPlan("build", cfg, s, w, j)
  BY <1>1, <1>6
<1> HIDE DEF w, s, cfg, j
<1>8. JobOK(NewPlan("build", cfg, s, w, j), clauses', active')
  BY <1>1, <1>5, <1>6, <1>7, JobBegins
<1> QED BY <1>7, <1>8 DEF JobInv

(* resolve_build_root ends: the plan it was for goes on where it was. *)
LEMMA EndBuildRootKeeps ==
  ASSUME JobInv, EndBuildRoot
  PROVE  JobInv'
<1> DEFINE o == job.outer
           k == job'
<1>1. PICK deps : k = [o EXCEPT !.deps = deps]
  BY DEF EndBuildRoot
<1>2. job.phase = "prepare" /\ job.verb = "build"
  BY DEF EndBuildRoot, In
<1>3. IsJob(o) /\ Asked(o) /\ Drawn(o) /\ o.phase = "prepare" /\ o.verb # "build"
  BY <1>2 DEF JobInv, JobOK
<1>4. SamePlan(o, k) /\ k.phase = "prepare" /\ k.order = o.order
  BY <1>1, <1>3 DEF IsJob, SamePlan
<1> HIDE DEF k, o
<1>5. Asked(k) /\ Drawn(k) /\ IsJob(k) /\ k.verb # "build"
  BY <1>3, <1>4, SameFacts DEF SamePlan
<1>6. JobOK(k, clauses', active')
  BY <1>4, <1>5 DEF JobOK
<1> QED BY <1>6 DEF JobInv, k

(* The preparation leaves the plan alone.                                        *)
LEMMA PrepareKeeps ==
  ASSUME JobInv, Skip \/ PrepareNative \/ PrepareSource
  PROVE  JobInv'
<1> DEFINE j == job
           k == job'
<1>1. j.phase = "prepare"
  BY DEF Skip, PrepareNative, PrepareSource, IsNew, More, In
<1>2. IsJob(j)
  BY <1>1 DEF JobInv, JobOK
<1>3. CASE Skip
  <2>1. k = [j EXCEPT !.next = @ + 1]
    BY <1>3 DEF Skip
  <2>2. SamePlan(j, k) /\ k.phase = "prepare" /\ k.order = j.order
    BY <1>1, <1>2, <2>1 DEF IsJob, SamePlan
  <2> HIDE DEF k
  <2>3. JobOK(k, clauses', active')
    BY <1>1, <2>2, PlanKeeps DEF JobInv
  <2> QED BY <2>3 DEF JobInv, k
<1>4. ASSUME NEW r, Prepared(r) PROVE JobInv'
  <2>1. k = [j EXCEPT !.next = @ + 1, !.deps = None, !.receipts = Append(@, r)]
    BY <1>4 DEF Prepared
  <2>2. SamePlan(j, k) /\ k.phase = "prepare" /\ k.order = j.order
    BY <1>1, <1>2, <2>1 DEF IsJob, SamePlan
  <2> HIDE DEF k
  <2>3. JobOK(k, clauses', active')
    BY <1>1, <2>2, PlanKeeps DEF JobInv
  <2> QED BY <2>3 DEF JobInv, k
<1> QED BY <1>3, <1>4 DEF PrepareNative, PrepareSource

(* The job is dropped. *)
IdleJob == job' = Idle

(* The job goes on with the same package. *)
NextStands ==
  /\ job.phase # "idle" /\ job'.next = job.next /\ job'.verb = job.verb /\ job'.outer = job.outer

(* Either leaves the count of packages. *)
LEMMA NextStays ==
  ASSUME NextInv, IdleJob \/ NextStands
  PROVE  NextInv'
<1>1. CASE IdleJob
  <2>1. [phase |-> "idle"].phase = "idle"
    OBVIOUS
  <2>2. job' = [phase |-> "idle"]
    BY <1>1 DEF IdleJob, Idle
  <2>3. job'.phase = "idle"
    BY ONLY <2>1, <2>2
  <2> QED BY <2>3 DEF NextInv
<1>2. CASE NextStands
  BY <1>2 DEF NextStands, NextInv
<1> QED BY <1>1, <1>2

(* The steps up to the search leave the count of packages, *)
LEMMA PlanNext ==
  ASSUME JobInv, NextInv, Resolve \/ ResolveBuild \/ Expand \/ Compile \/ BeginOrder \/ Ordered
  PROVE  NextInv'
<1>1. job.phase # "idle"
  BY DEF Resolve, ResolveBuild, Expand, Compile, BeginOrder, Ordered, In
<1>2. IsJob(job)
  BY <1>1 DEF JobInv, JobOK
<1>3. ASSUME Resolve PROVE NextStands
  <2>1. PICK a, b, c, d : job' = [job EXCEPT !.phase = a, !.cursor = b, !.universe = c, !.fixed = d]
    BY <1>3 DEF Resolve
  <2> QED BY <1>1, <1>2, <2>1 DEF IsJob, NextStands
<1>4. ASSUME ResolveBuild PROVE NextStands
  <2>1. PICK a : job' = [job EXCEPT !.phase = a]
    BY <1>4 DEF ResolveBuild
  <2> QED BY <1>1, <1>2, <2>1 DEF IsJob, NextStands
<1>5. ASSUME Expand PROVE NextStands
  <2>1. PICK a, b : job' = [job EXCEPT !.universe = a, !.cursor = b]
    BY <1>5 DEF Expand
  <2> QED BY <1>1, <1>2, <2>1 DEF IsJob, NextStands
<1>6. ASSUME Compile PROVE NextStands
  <2>1. PICK a, b, c : job' = [job EXCEPT !.phase = a, !.universe = b, !.root = c]
    BY <1>6 DEF Compile
  <2> QED BY <1>1, <1>2, <2>1 DEF IsJob, NextStands
<1>7. ASSUME BeginOrder PROVE NextStands
  <2>1. PICK a, b, c, d : job' = [job EXCEPT !.phase = a, !.marks = b, !.roots = c, !.selected = d]
    BY <1>7 DEF BeginOrder
  <2> QED BY <1>1, <1>2, <2>1 DEF IsJob, NextStands
<1>8. ASSUME Ordered PROVE NextStands
  <2>1. PICK a : job' = [job EXCEPT !.phase = a]
    BY <1>8 DEF Ordered
  <2> QED BY <1>1, <1>2, <2>1 DEF IsJob, NextStands
<1> QED BY <1>3, <1>4, <1>5, <1>6, <1>7, <1>8, NextStays

(* so do those of the walk, *)
LEMMA WalkNext ==
  ASSUME JobInv, NextInv, VisitRoot \/ VisitEdge \/ Leave
  PROVE  NextInv'
<1>1. job.phase # "idle"
  BY DEF VisitRoot, VisitEdge, Leave, In
<1>2. IsJob(job)
  BY <1>1 DEF JobInv, JobOK
<1>3. ASSUME NEW j, IsJob(j), NEW i
      PROVE  /\ Enter(j, i).next = j.next /\ Enter(j, i).verb = j.verb /\ Enter(j, i).outer = j.outer
  BY <1>3 DEF IsJob, Enter
<1>7. ASSUME NEW j, NEW t, j = [job EXCEPT !.roots = t] \/ j = [job EXCEPT !.stack = t]
      PROVE  IsJob(j) /\ j.next = job.next /\ j.verb = job.verb /\ j.outer = job.outer
  <2>1. CASE j = [job EXCEPT !.roots = t]
    BY <1>2, <2>1 DEF IsJob
  <2>2. CASE j = [job EXCEPT !.stack = t]
    BY <1>2, <2>2 DEF IsJob
  <2> QED BY <1>7, <2>1, <2>2
<1>4. CASE VisitRoot
  <2> DEFINE i == Head(job.roots)
             j == [job EXCEPT !.roots = Tail(@)]
  <2>1. job' = j \/ job' = Enter(j, i)
    BY <1>4 DEF VisitRoot
  <2>2. IsJob(j) /\ j.next = job.next /\ j.verb = job.verb /\ j.outer = job.outer
    <3>1. j = [job EXCEPT !.roots = Tail(job.roots)]
      OBVIOUS
    <3> HIDE DEF j
    <3> QED BY <1>7, <3>1
  <2> HIDE DEF i, j
  <2> QED BY <1>1, <1>3, <2>1, <2>2, NextStays DEF NextStands
<1>5. CASE VisitEdge
  <2> DEFINE i == Head(Top.left)
             j == DropEdge(job)
  <2>1. CASE job.marks[i] \in {0, 1, 2}
    <3>1. job' = j \/ job' = Enter(j, i) \/ job' = Idle
      <4>1. job' = CASE job.marks[i] = 0 -> Enter(j, i)
                     [] job.marks[i] = 1 -> Idle
                     [] job.marks[i] = 2 -> j
        BY <1>5 DEF VisitEdge
      <4> HIDE DEF i, j
      <4>2. 0 # 1 /\ 0 # 2 /\ 1 # 2
        OBVIOUS
      <4> QED BY ONLY <2>1, <4>1, <4>2
    <3>2. IsJob(j) /\ j.next = job.next /\ j.verb = job.verb /\ j.outer = job.outer
      <4>1. \E t : j = [job EXCEPT !.stack = t]
        BY DEF DropEdge
      <4> HIDE DEF j
      <4> QED BY <1>7, <4>1
    <3> HIDE DEF i, j
    <3> QED BY <1>1, <1>3, <3>1, <3>2, NextStays DEF NextStands, IdleJob
  <2>2. job.marks[i] \in {0, 1, 2}
    <3> DEFINE u == job.universe
               S == job.selected
               n == Len(job.stack)
    <3>1. job.phase = "order" /\ job.stack # <<>> /\ job.stack[n].left # <<>>
      BY <1>5 DEF VisitEdge, In, Top
    <3>2. Picked(job, S) /\ Walk(u, S, job.marks, job.stack, job.roots, job.order)
      BY <3>1 DEF JobInv, JobOK
    <3>3. S \subseteq DOMAIN u /\ job.marks \in [DOMAIN u -> {0, 1, 2}]
      BY <3>2 DEF Picked, Walk
    <3>4. n \in Nat \ {0} /\ DOMAIN job.stack = 1 .. n
      BY <3>1, <3>2, StackTop
    <3> DEFINE e == job.stack[n]
    <3>5. IsSequence(e.left) /\ Range(e.left) \subseteq S /\ e.left # <<>>
      <4>1. n \in DOMAIN job.stack
        BY <3>4, Intervals
      <4> QED BY <3>1, <3>2, <4>1 DEF Walk, Stage
    <3> HIDE DEF e
    <3>6. Head(e.left) \in S
      BY <3>5, HeadAndTail
    <3> QED BY <3>3, <3>6 DEF Top, e
  <2> QED BY <2>1, <2>2
<1>6. CASE Leave
  <2>1. PICK ms, o, s : job' = [job EXCEPT !.marks = ms, !.order = o, !.stack = s]
    <3>1. job' = [job EXCEPT !.marks = [@ EXCEPT ![Top.at] = 2], !.order = Append(@, Top.at),
                             !.stack = SubSeq(@, 1, Len(@) - 1)]
      BY <1>6 DEF Leave
    <3> QED BY <3>1
  <2>2. NextStands
    BY <1>1, <1>2, <2>1 DEF IsJob, NextStands
  <2> QED BY <2>2, NextStays
<1> QED BY <1>4, <1>5, <1>6

(* and those of the preparation count on. *)
LEMMA PrepareNext ==
  ASSUME JobInv, NextInv, Skip \/ PrepareNative \/ PrepareSource \/ BeginBuildRoot \/ EndBuildRoot
  PROVE  NextInv'
<1>1. job.phase # "idle" /\ job.phase = "prepare"
  BY DEF Skip, PrepareNative, PrepareSource, BeginBuildRoot, EndBuildRoot, IsNew, More, In
<1>2. IsJob(job) /\ job.next \in Nat \ {0}
  BY <1>1 DEF JobInv, JobOK, NextInv
<1>3. CASE Skip
  <2>1. job' = [job EXCEPT !.next = @ + 1]
    BY <1>3 DEF Skip
  <2>2. job'.next \in Nat \ {0} /\ job'.verb = job.verb /\ job'.outer = job.outer
    BY <1>2, <2>1 DEF IsJob
  <2> QED BY <1>1, <2>2 DEF NextInv
<1>4. ASSUME NEW r, Prepared(r) PROVE NextInv'
  <2>1. job' = [job EXCEPT !.next = @ + 1, !.deps = None, !.receipts = Append(@, r)]
    BY <1>4 DEF Prepared
  <2>2. job'.next \in Nat \ {0} /\ job'.verb = job.verb /\ job'.outer = job.outer
    BY <1>2, <2>1 DEF IsJob
  <2> QED BY <1>1, <2>2 DEF NextInv
<1>5. CASE BeginBuildRoot
  <2>1. PICK w : job' = NewPlan("build", job.cfg, job.selector, w, job)
    BY <1>5 DEF BeginBuildRoot
  <2>2. job'.next = 1 /\ job'.outer = job
    BY <2>1 DEF NewPlan
  <2> QED BY <1>2, <2>2 DEF NextInv
<1>6. CASE EndBuildRoot
  <2> DEFINE o == job.outer
  <2>1. PICK deps : job' = [o EXCEPT !.deps = deps]
    BY <1>6 DEF EndBuildRoot
  <2>2. IsJob(o) /\ o.verb # "build" /\ o.next \in Nat \ {0}
    BY <1>1, <1>6 DEF EndBuildRoot, In, JobInv, JobOK, NextInv
  <2>3. job'.verb # "build" /\ job'.next \in Nat \ {0}
    <3> HIDE DEF o
    <3> QED BY <2>1, <2>2 DEF IsJob
  <2> QED BY <2>3 DEF NextInv
<1> QED BY <1>3, <1>4, <1>5, <1>6 DEF PrepareNative, PrepareSource

(* The receipts in the database are those of their packages.                     *)
LEMMA DbKeeps ==
  ASSUME DbInv, RemoveInstalled \/ Commit
  PROVE  DbInv'
<1>1. CASE RemoveInstalled
  <2>1. PICK s \in Selector : db' = [db EXCEPT ![s.name] = None]
    BY <1>1 DEF RemoveInstalled
  <2> QED BY <2>1 DEF DbInv
<1>2. CASE Commit
  <2> DEFINE q == Entries
  <2>1. /\ GraphJournalValid([action |-> job.verb, root |-> RootPackage, entries |-> q])
        /\ db' = [p \in Package |-> IF \E e \in Range(q) : e.package = p
                                    THEN (CHOOSE e \in Range(q) : e.package = p).new ELSE db[p]]
    BY <1>2 DEF Commit
  <2> HIDE DEF q
  <2>2. \A n \in DOMAIN q : q[n].new.package = q[n].package
    BY <2>1 DEF GraphJournalValid
  <2>3. \A e \in Range(q) : e.new.package = e.package
    BY <2>2 DEF Range
  <2>4. ASSUME NEW p \in Package, db'[p] # None PROVE db'[p].package = p
    <3>1. CASE \E e \in Range(q) : e.package = p
      <4> DEFINE e == CHOOSE e \in Range(q) : e.package = p
      <4>1. e \in Range(q) /\ e.package = p /\ db'[p] = e.new
        BY <2>1, <3>1
      <4> HIDE DEF e
      <4> QED BY <2>3, <4>1
    <3>2. CASE ~\E e \in Range(q) : e.package = p
      BY <2>1, <2>4, <3>2 DEF DbInv
    <3> QED BY <3>1, <3>2
  <2> QED BY <2>1, <2>4 DEF DbInv
<1> QED BY <1>1, <1>2

(* The inductive invariant of the resolution. *)
ResolutionInv == BuilderInv /\ JobIdle /\ SolverInv /\ DbInv /\ NextInv /\ JobInv

(* A step that leaves the solver alone. *)
LEMMA StayAll ==
  ASSUME SolverInv, UNCHANGED solverVars
  PROVE  SolverInv'
BY DEF SolverInv, solverVars, ClausesOK, SearchInv, QuietInv, UsedInv

(* The clauses of the builder are in order whenever its tables are.              *)
LEMMA BuilderClauses ==
  ASSUME BuilderInv', client' = "builder"
  PROVE  ClausesOK'
<1>1. /\ IsSequence(registry') /\ Len(registry') <= MaxPackages
      /\ Within(clauses', Len(registry')) /\ active' = VarsOf(clauses')
  BY DEF BuilderInv
<1>2. /\ IsSequence(clauses') /\ \A i \in DOMAIN clauses' : IsSequence(clauses'[i])
      /\ \A i \in DOMAIN clauses' : \A l \in Literals(clauses'[i]) : l \in Lit
  BY <1>1 DEF Within
<1>3. \A i \in DOMAIN clauses' : \A l \in Literals(clauses'[i]) : l.var \in active'
  BY <1>1 DEF VarsOf
<1>4. active' \subseteq Var
  BY <1>1, <1>2 DEF VarsOf, Lit
<1> QED BY <1>2, <1>3, <1>4 DEF ClausesOK

(* Every step keeps the invariant of the solver. *)
LEMMA SolverNext ==
  ASSUME ResolutionInv, BuilderInv', [Next]_vars
  PROVE  SolverInv'
<1>1. SolverInv /\ JobInv /\ BuilderInv
  BY DEF ResolutionInv
<1>2. scan \in Nat
  BY <1>1 DEF SolverInv, QuietInv
<1>3. CASE UNCHANGED solverVars
  BY <1>1, <1>3, StayAll
<1>4. CASE Compile
  <2>1. ClausesOK'
    BY <1>1, <1>4, CompileKeeps
  <2>2. StartSearch
    BY <1>4 DEF Compile
  <2> QED BY <2>1, <2>2, SolverStarts
<1>5. CASE Unsatisfiable \/ BeginOrder
  BY <1>5, SolverDropped DEF Unsatisfiable, BeginOrder
<1>6. CASE Search
  BY <1>1, <1>6, SolverKeeps DEF Search
<1>7. CASE BeginBuilderCall
  <2>1. client' = "builder" /\ search' = "idle" /\ scan' = scan
    BY <1>7 DEF BeginBuilderCall, BeginCall
  <2> QED BY <1>2, <2>1, BuilderClauses, SolverRests
<1>8. CASE BuilderStep
  <2>1. client' = "builder"
    BY <1>8 DEF BuilderStep
  <2>2. ClausesOK'
    BY <2>1, BuilderClauses
  <2>3. CASE BeginSolve
    BY <2>2, <2>3, SolverStarts DEF BeginSolve
  <2>4. CASE AddConstraint \/ CallSucceeds \/ CallFails
    <3>1. call.running /\ UNCHANGED <<search, scan>>
      BY <2>4 DEF AddConstraint, CallSucceeds, CallFails, searchVars, solverVars
    <3>2. search = "idle"
      BY <1>1, <3>1 DEF BuilderInv
    <3> QED BY <1>2, <2>2, <3>1, <3>2, SolverRests
  <2> QED BY <1>8, <2>3, <2>4 DEF BuilderStep, BuilderCall
<1>9. ASSUME ServiceStep PROVE UNCHANGED solverVars \/ Compile \/ Unsatisfiable \/ BeginOrder
  BY <1>9 DEF ServiceStep, Fail, FetchResource, Resolve, ResolveBuild, Expand, VisitRoot, VisitEdge, Leave,
       Ordered, Skip, PrepareNative, BeginBuildRoot, EndBuildRoot, PrepareSource, Commit
<1>10. CASE Begin \/ RemoveInstalled \/ UNCHANGED vars
  <2>1. UNCHANGED solverVars
    BY <1>10 DEF Begin, RemoveInstalled, vars
  <2> QED BY <1>3, <2>1
<1> QED BY <1>3, <1>4, <1>5, <1>6, <1>7, <1>8, <1>9, <1>10 DEF Next, RunningStep

(* Every step keeps those of the job, its count and the database. *)
LEMMA JobNext ==
  ASSUME ResolutionInv, [Next]_vars
  PROVE  JobInv' /\ NextInv' /\ DbInv'
<1>1. BuilderInv /\ JobIdle /\ SolverInv /\ DbInv /\ NextInv /\ JobInv
  BY DEF ResolutionInv
<1>2. ASSUME job' = job PROVE NextInv'
  BY <1>1, <1>2 DEF NextInv
<1>3. ASSUME job' = Idle PROVE JobInv' /\ NextInv'
  BY <1>1, <1>3, JobDone, NextStays DEF IdleJob
<1>4. ASSUME UNCHANGED db PROVE DbInv'
  BY <1>1, <1>4 DEF DbInv
<1>5. CASE UNCHANGED vars \/ FetchResource \/ Search \/ RemoveInstalled
  <2>1. job' = job /\ UNCHANGED <<clauses, active>>
    <3>1. CASE Search
      <4>1. UNCHANGED job /\ SearchStep
        BY <3>1 DEF Search, serviceVars
      <4> QED BY <4>1 DEF SearchStep, ForceUnit, Conflict, PassEnds, Decide, AllDecided, TurnAround, Refute
    <3>2. CASE ~Search
      BY <1>5, <3>2 DEF vars, serviceVars, solverVars, FetchResource, RemoveInstalled
    <3> QED BY <3>1, <3>2
  <2>2. UNCHANGED db \/ RemoveInstalled
    BY <1>5 DEF vars, serviceVars, FetchResource, Search
  <2> QED BY <1>1, <1>2, <1>4, <2>1, <2>2, JobStays, DbKeeps
<1>6. CASE BeginBuilderCall \/ BuilderStep
  <2>1. UNCHANGED <<job, db>> /\ client = "builder"
    BY <1>6 DEF BeginBuilderCall, BuilderStep, serviceVars
  <2>2. job' = Idle
    BY <1>1, <2>1 DEF JobIdle
  <2> QED BY <1>3, <1>4, <2>1, <2>2
<1>7. CASE Begin
  <2>1. UNCHANGED db /\ \E cfg, s, verb : verb \in {"install", "update"} /\ job' = NewPlan(verb, cfg, s, <<>>, None)
    BY <1>7 DEF Begin
  <2>2. job'.next = 1 /\ job'.verb # "build"
    BY <2>1 DEF NewPlan
  <2> QED BY <1>4, <1>7, <2>1, <2>2, BeginKeeps DEF NextInv
<1>8. CASE Fail \/ Unsatisfiable
  BY <1>3, <1>4, <1>8 DEF Fail, Unsatisfiable
<1>9. CASE Commit
  BY <1>1, <1>3, <1>9, DbKeeps DEF Commit
<1>10. CASE Resolve \/ ResolveBuild \/ Expand \/ Compile \/ BeginOrder \/ Ordered
  <2>1. UNCHANGED db
    BY <1>10 DEF Resolve, ResolveBuild, Expand, Compile, BeginOrder, Ordered
  <2>2. JobInv'
    BY <1>1, <1>10, ResolveKeeps, ResolveBuildKeeps, ExpandKeeps, CompileKeeps, BeginOrderKeeps, OrderedKeeps
  <2> QED BY <1>1, <1>4, <1>10, <2>1, <2>2, PlanNext
<1>11. CASE VisitRoot \/ VisitEdge \/ Leave
  <2>1. UNCHANGED db
    BY <1>11 DEF VisitRoot, VisitEdge, Leave
  <2> QED BY <1>1, <1>4, <1>11, <2>1, VisitRootKeeps, VisitEdgeKeeps, LeaveKeeps, WalkNext
<1>12. CASE Skip \/ PrepareNative \/ PrepareSource \/ BeginBuildRoot \/ EndBuildRoot
  <2>1. UNCHANGED db
    BY <1>12 DEF Skip, PrepareNative, PrepareSource, BeginBuildRoot, EndBuildRoot
  <2> QED BY <1>1, <1>4, <1>12, <2>1, PrepareKeeps, BeginBuildRootKeeps, EndBuildRootKeeps, PrepareNext
<1> QED BY <1>5, <1>6, <1>7, <1>8, <1>9, <1>10, <1>11, <1>12 DEF Next, RunningStep, ServiceStep

(* The initial states satisfy all of it. *)
LEMMA ResolutionBegins ==
  ASSUME Init
  PROVE  ResolutionInv
<1>1. BuilderInv /\ JobIdle
  <2>1. /\ client \in {"service", "builder"} /\ registry = <<>> /\ clauses = <<>> /\ active = {} /\ job = Idle
        /\ call = NoCall
    BY DEF Init, SolverInit, BuilderInit
  <2>2. IsCall(call) /\ call.running = FALSE /\ call.failed = FALSE
    BY <2>1 DEF NoCall, IsCall
  <2>3. IsSequence(<<>>) /\ DOMAIN <<>> = {} /\ Len(<<>>) = 0
    BY DEF IsSequence
  <2>4. Within(<<>>, 0) /\ VarsOf(<<>>) = {}
    BY <2>3 DEF Within, VarsOf
  <2>5. 0 <= MaxPackages
    BY SolverAssumption
  <2> QED BY <2>1, <2>2, <2>3, <2>4, <2>5 DEF BuilderInv, JobIdle
<1>2. SolverInv
  <2>1. clauses = <<>> /\ active = {} /\ search = "idle" /\ scan = 1
    BY DEF Init, SolverInit
  <2>2. IsSequence(<<>>) /\ DOMAIN <<>> = {}
    BY DEF IsSequence
  <2> QED BY <2>1, <2>2 DEF SolverInv, ClausesOK, SearchInv, QuietInv, UsedInv
<1>3. DbInv
  BY DEF Init, DbInv
<1>4. NextInv /\ JobInv
  <2>1. [phase |-> "idle"].phase = "idle"
    OBVIOUS
  <2>2. job = [phase |-> "idle"]
    BY DEF Init, Idle
  <2>3. job.phase = "idle"
    BY ONLY <2>1, <2>2
  <2>4. JobOK(Idle, clauses, active)
    BY JobEnds
  <2> QED BY <2>3, <2>4 DEF NextInv, JobInv, Init
<1> QED BY <1>1, <1>2, <1>3, <1>4 DEF ResolutionInv

(***************************************************************************)
(* The solver, the constraint builder and the job at hand are at every     *)
(* step what the inductive invariant says: expand_dependency_universe      *)
(* closes what it gathers, compile_dependency_graph puts exactly that into *)
(* clauses, DpllSolver::solve loses no model of them, and                  *)
(* order_dependency_solution puts in order what it selected.               *)
(***************************************************************************)
THEOREM ResolutionSafe == Spec => []ResolutionInv
<1>1. Init => ResolutionInv
  BY ResolutionBegins
<1>2. ResolutionInv /\ [Next]_vars => ResolutionInv'
  <2> SUFFICES ASSUME ResolutionInv, [Next]_vars PROVE ResolutionInv'
    OBVIOUS
  <2>1. BuilderInv' /\ JobIdle'
    BY BuilderNext DEF ResolutionInv
  <2>2. SolverInv' /\ JobInv' /\ NextInv' /\ DbInv'
    BY <2>1, SolverNext, JobNext
  <2> QED BY <2>1, <2>2 DEF ResolutionInv
<1> QED BY <1>1, <1>2, PTL DEF Spec

(* A plan that is in order, or being put in order, is sound. *)
LEMMA PlanIsSound ==
  ASSUME JobInv
  PROVE  PlanSound
<1> SUFFICES ASSUME job.phase = "prepare" PROVE PlanSound
  BY DEF PlanSound, In
<1> DEFINE u == job.universe
           order == job.order
           S == Range(order)
<1>1. Drawn(job)
  BY DEF JobInv, JobOK
<1>2. /\ Charted(job) /\ Picked(job, S) /\ IsSequence(order) /\ Distinct(order)
      /\ \A n \in DOMAIN order : \A i \in Edges(u, S, order[n]) : \E m \in 1 .. n - 1 : order[m] = i
  BY <1>1 DEF Drawn
<1>3. S \subseteq DOMAIN u /\ Pinned \subseteq S /\ Coherent(u, S) /\ Graph(u)
  BY <1>2 DEF Picked, Charted, Posed, Must, Pinned
<1>4. ASSUME NEW n \in DOMAIN order, NEW r \in Range(u[order[n]].requirements)
      PROVE  \E m \in 1 .. n : MeetsOne(u[order[m]], r)
  <2>1. Len(order) \in Nat /\ n \in 1 .. Len(order)
    BY <1>2, Indexed
  <2> DEFINE i == order[n]
  <2>2. i \in S /\ n \in 1 .. n /\ \A m \in 1 .. n - 1 : m \in 1 .. n
    BY <2>1 DEF Range
  <2> HIDE DEF S, u, order
  <2>3. PICK j \in Edges(u, S, i) \cup {i} : MeetsOne(u[j], r)
    BY <1>3, <1>4, <2>2, EdgesFound
  <2>4. CASE j = i
    BY <2>2, <2>3, <2>4
  <2>5. CASE j \in Edges(u, S, i)
    <3>1. PICK m \in 1 .. n - 1 : order[m] = j
      BY <1>2, <2>5
    <3> QED BY <2>2, <2>3, <3>1
  <2> QED BY <2>3, <2>4, <2>5
<1>5. ASSUME job.verb = "build", NEW i \in S, i # job.root PROVE u[i].route = "native"
  <2>1. u[i] \in Source(job.cfg, job.verb)
    BY <1>2, <1>3, <1>5 DEF Charted
  <2> QED BY <1>5, <2>1 DEF Source
<1> QED BY <1>2, <1>3, <1>4, <1>5 DEF PlanSound

(* And it is the first of its kind. *)
LEMMA PlanIsLeast ==
  ASSUME JobInv
  PROVE  PlanLeast
<1> SUFFICES ASSUME job.phase = "prepare" PROVE PlanLeast
  BY DEF PlanLeast, In
<1>1. Picked(job, Range(job.order))
  BY DEF JobInv, JobOK, Drawn
<1>2. First(job.universe, Range(job.order), Must(job)) /\ Must(job) = Pinned
  BY <1>1 DEF Picked, Must, Pinned
<1> QED BY <1>2 DEF PlanLeast, First

(* All that a plan could reach is in the graph.                                  *)
LEMMA ReachInGraph ==
  ASSUME Asked(job), Charted(job), Closed(job)
  PROVE  Reach \subseteq Range(job.universe)
<1> DEFINE u == job.universe
           all == Collect(job.cfg)
           needs(c) == {r \in Range(c.requirements) : ~MetByFixed(r)}
           offers(R) == UNION {Range(Eligible(k)) : k \in UNION R}
           start == IF job.verb = "build" THEN offers(Range(job.wants)) ELSE {u[i] : i \in Pinned}
           leads == [c \in all |-> offers(needs(c))]
           closed == {C \in SUBSET all : start \subseteq C /\ \A c \in C : leads[c] \subseteq C}
           C == Range(u) \cap all
<1>1. Reach = {c \in all : \A D \in closed : c \in D}
  BY DEF Reach
<1>2. /\ Posed(u, job.root, job.fixed) /\ (job.verb = "build" => job.fixed = <<>>)
      /\ \A i \in DOMAIN u : i # job.root \/ job.verb # "build" => u[i] \in Source(job.cfg, job.verb)
      /\ \A i \in DOMAIN u : u[i] \in all =>
           \A r \in Range(u[i].requirements) : Covered(job.cfg, job.verb, u, job.fixed, r)
      /\ job.verb = "build" => \A r \in Range(job.wants) : Covered(job.cfg, job.verb, u, job.fixed, r)
      /\ InOrder(job.cfg)
  BY DEF Charted, Closed, Asked
<1>3. Pinned \subseteq DOMAIN u
  BY <1>2 DEF Posed, Pinned
<1>4. ASSUME NEW r, Covered(job.cfg, job.verb, u, job.fixed, r), ~MetByFixed(r), NEW k \in r
      PROVE  Range(Eligible(k)) \subseteq C
  <2>1. Range(Eligible(k)) \subseteq Range(u)
    BY <1>4, EligibleIs DEF Covered, MetByFixed
  <2>2. Range(Eligible(k)) \subseteq all
    BY <1>2, EligibleIs, EligibleHolds
  <2> QED BY <2>1, <2>2
<1>5. start \subseteq C
  <2>1. CASE job.verb = "build"
    <3>1. Range(job.fixed) = {}
      BY <1>2, <2>1 DEF Range
    <3>2. \A r : ~MetByFixed(r)
      BY <3>1 DEF MetByFixed
    <3>3. \A r \in Range(job.wants) : \A k \in r : Range(Eligible(k)) \subseteq C
      BY <1>2, <1>4, <2>1, <3>2
    <3> HIDE DEF C
    <3> QED BY <2>1, <3>3
  <2>2. CASE job.verb # "build"
    <3>1. \A i \in Pinned : u[i] \in Range(u) /\ u[i] \in all
      BY <1>2, <1>3, <2>2 DEF Range, Source
    <3> QED BY <2>2, <3>1
  <2> QED BY <2>1, <2>2
<1>6. ASSUME NEW c \in C PROVE leads[c] \subseteq C
  <2>1. PICK i \in DOMAIN u : u[i] = c
    BY DEF Range
  <2>2. \A r \in Range(c.requirements) : Covered(job.cfg, job.verb, u, job.fixed, r)
    BY <1>2, <2>1
  <2>3. \A r \in needs(c) : \A k \in r : Range(Eligible(k)) \subseteq C
    BY <1>4, <2>2
  <2>4. leads[c] = offers(needs(c))
    OBVIOUS
  <2> HIDE DEF C, needs, leads
  <2> QED BY <2>3, <2>4
<1>7. C \in closed
  <2>1. C \in SUBSET all
    OBVIOUS
  <2> HIDE DEF C, start, leads, all
  <2> QED BY <1>5, <1>6, <2>1
<1> HIDE DEF closed
<1> QED BY <1>1, <1>7

(* A graph refused by the search has no coherent selection, nor has all that *)
(* the requirements lead to, which is in the graph.                          *)
LEMMA RefusalIsJustified ==
  ASSUME JobInv, SolverInv
  PROVE  RefusalJustified
<1> SUFFICES ASSUME job.phase = "solve", search = "unsat" PROVE RefusalJustified
  BY DEF RefusalJustified, In
<1> DEFINE u == job.universe
           must == {u[i] : i \in Pinned}
           all == Reach \cup must
           f == [c \in all |-> c]
<1>1. /\ Asked(job) /\ Charted(job) /\ Closed(job)
      /\ clauses = GraphClauses(u, job.root, job.fixed)
  BY DEF JobInv, JobOK
<1>2. Reach \subseteq Range(u)
  BY <1>1, ReachInGraph
<1>3. /\ Posed(u, job.root, job.fixed) /\ Pinned \subseteq DOMAIN u
      /\ \A i, m \in DOMAIN u : i # m => u[i] # u[m]
  BY <1>1 DEF Charted, Closed, Posed, Pinned
<1>4. all \subseteq Range(u)
  BY <1>2, <1>3 DEF Range
<1>5. ASSUME NEW S \in SUBSET all, must \subseteq S, Coherent(f, S) PROVE FALSE
  <2> DEFINE T == {i \in DOMAIN u : u[i] \in S}
  <2>1. T \in SUBSET (DOMAIN u) /\ Pinned \subseteq T
    BY <1>3, <1>5
  <2>2. \A c \in S : f[c] = c /\ c \in Range(u)
    BY <1>4
  <2>3. /\ \A c, d \in S : c # d => c.name # d.name
        /\ \A c \in S : \A r \in Range(c.requirements) : \E d \in S : MeetsOne(d, r)
        /\ \A c \in S : \A k \in Range(c.conflicts) : \A d \in S \ {c} : ~Meets(d, k)
    <3> HIDE DEF f
    <3> QED BY <1>5, <2>2 DEF Coherent
  <2>4. \A i \in T : u[i] \in S /\ i \in DOMAIN u
    OBVIOUS
  <2>5. \A d \in S : \E i \in T : u[i] = d
    BY <2>2 DEF Range
  <2> HIDE DEF T
  <2>6. Coherent(u, T)
    <3>1. \A i, m \in T : i # m => u[i].name # u[m].name
      BY <1>3, <2>3, <2>4
    <3>2. \A i \in T : \A r \in Range(u[i].requirements) : \E m \in T : MeetsOne(u[m], r)
      BY <2>3, <2>4, <2>5
    <3>3. \A i \in T : \A k \in Range(u[i].conflicts) : \A m \in T \ {i} : ~Meets(u[m], k)
      BY <1>3, <2>3, <2>4
    <3> QED BY <3>1, <3>2, <3>3 DEF Coherent
  <2> DEFINE req == job.root
             fixed == job.fixed
  <2>7. Posed(u, req, fixed) /\ clauses = GraphClauses(u, req, fixed) /\ {req} \cup Range(fixed) \subseteq T
    BY <1>1, <1>3, <2>1 DEF Pinned
  <2> HIDE DEF u, req, fixed
  <2>8. ~Coherent(u, T)
    BY <2>1, <2>7, GraphRefused
  <2> QED BY <2>6, <2>8
<1> HIDE DEF f
<1>6. \A S \in SUBSET all : must \subseteq S => ~Coherent(f, S)
  BY <1>5
<1> QED BY <1>6 DEF RefusalJustified, f

(***************************************************************************)
(* A plan that order_dependency_solution returns holds what was asked for  *)
(* and all that was pinned, has no two versions of a package and no        *)
(* conflict, meets every requirement of every member by an earlier one,    *)
(* and takes nothing from outside what the call may use. (The invariant    *)
(* PlanSound.)                                                             *)
(***************************************************************************)
THEOREM ResolutionPlanSound == Spec => []PlanSound
<1>1. ResolutionInv => PlanSound
  BY PlanIsSound DEF ResolutionInv
<1> QED BY <1>1, ResolutionSafe, PTL

(***************************************************************************)
(* The plan is the one pick_branch_var and decide settle on whatever the   *)
(* order of the repositories: of all coherent selections of the graph it   *)
(* comes first in the order of candidate_key. (The invariant PlanLeast.)   *)
(***************************************************************************)
THEOREM ResolutionPlanLeast == Spec => []PlanLeast
<1>1. ResolutionInv => PlanLeast
  BY PlanIsLeast DEF ResolutionInv
<1> QED BY <1>1, ResolutionSafe, PTL

(***************************************************************************)
(* When solve_dependency_graph refuses a graph, no coherent selection of   *)
(* what the requirements could ever lead to holds what is asked for and    *)
(* pinned: expand_dependency_universe left out nothing that would have     *)
(* helped. (The invariant RefusalJustified.)                               *)
(***************************************************************************)
THEOREM ResolutionRefusalJustified == Spec => []RefusalJustified
<1>1. ResolutionInv => RefusalJustified
  BY RefusalIsJustified DEF ResolutionInv
<1> QED BY <1>1, ResolutionSafe, PTL
=============================================================================
