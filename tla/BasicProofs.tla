----------------------------- MODULE BasicProofs -----------------------------
(***************************************************************************)
(* What the proofs of several components rest on: what the two thresholds  *)
(* of config/src/lib.rs guarantee for every committee and distribution of  *)
(* stake, that recursive functions exist, and that sorting by rank         *)
(* enumerates a finite set in order.                                       *)
(***************************************************************************)
EXTENDS Committee, FiniteSetTheorems, WellFoundedInduction, TLAPS

------------------------------------------------------------------------------
(* Stake *)

(* The units of a set of authorities are finite and its stake is a number. *)
LEMMA StakeType ==
    ASSUME NEW S \in SUBSET Authority
    PROVE  IsFiniteSet(Units(S)) /\ StakeOf(S) \in Nat
<1>1. IsFiniteSet(1..MaxStake)
  BY FS_Interval, CommitteeAssumption
<1>2. IsFiniteSet(S)
  BY FS_Subset, CommitteeAssumption
<1>3. IsFiniteSet(S \X (1..MaxStake))
  BY <1>1, <1>2, FS_Product
<1>4. IsFiniteSet(Units(S))
  BY <1>3, FS_Subset DEF Units
<1> QED
  BY <1>4, FS_CardinalityType DEF StakeOf

(* Stake grows with the set: a larger coalition has at least its stake. *)
LEMMA StakeMonotone ==
    ASSUME NEW T \in SUBSET Authority, NEW S \in SUBSET T
    PROVE  StakeOf(S) <= StakeOf(T)
<1>1. Units(S) \subseteq Units(T)
  BY DEF Units
<1>2. IsFiniteSet(Units(T))
  BY StakeType
<1> QED
  BY <1>1, <1>2, FS_Subset DEF StakeOf

(* Inclusion and exclusion for stake. *)
LEMMA StakeUnion ==
    ASSUME NEW S \in SUBSET Authority, NEW T \in SUBSET Authority
    PROVE  StakeOf(S \cup T) = StakeOf(S) + StakeOf(T) - StakeOf(S \cap T)
<1>1. Units(S \cup T) = Units(S) \cup Units(T)
  BY DEF Units
<1>2. Units(S \cap T) = Units(S) \cap Units(T)
  BY DEF Units
<1>3. IsFiniteSet(Units(S)) /\ IsFiniteSet(Units(T))
  BY StakeType
<1>4. Cardinality(Units(S) \cup Units(T))
        = Cardinality(Units(S)) + Cardinality(Units(T))
            - Cardinality(Units(S) \cap Units(T))
  BY <1>3, FS_Union
<1> QED
  BY <1>1, <1>2, <1>4, Zenon DEF StakeOf

(* Two quorums share at least validity_threshold (f+1) stake. *)
THEOREM QuorumOverlap ==
    ASSUME NEW S \in SUBSET Authority, NEW T \in SUBSET Authority,
           IsQuorum(S), IsQuorum(T)
    PROVE  StakeOf(S \cap T) >= ValidityThreshold
<1>1. StakeOf(S \cup T) = StakeOf(S) + StakeOf(T) - StakeOf(S \cap T)
  BY StakeUnion
<1>2. StakeOf(S \cup T) <= TotalStake
  BY StakeMonotone DEF TotalStake
<1>3. /\ StakeOf(S) \in Nat /\ StakeOf(T) \in Nat
      /\ StakeOf(S \cap T) \in Nat /\ TotalStake \in Nat
      /\ StakeOf(S \cup T) \in Nat
  BY StakeType DEF TotalStake
<1> QED
  BY <1>1, <1>2, <1>3 DEF IsQuorum, QuorumThreshold, ValidityThreshold

(* Two quorums share an authority outside any coalition below f+1 stake. *)
THEOREM QuorumIntersection ==
    ASSUME NEW S \in SUBSET Authority, NEW T \in SUBSET Authority,
           NEW F \in SUBSET Authority,
           IsQuorum(S), IsQuorum(T), StakeOf(F) < ValidityThreshold
    PROVE  \E a \in S \cap T : a \notin F
<1> SUFFICES ASSUME S \cap T \subseteq F
             PROVE  FALSE
  OBVIOUS
<1>1. StakeOf(S \cap T) <= StakeOf(F)
  BY StakeMonotone
<1>2. StakeOf(S \cap T) >= ValidityThreshold
  BY QuorumOverlap
<1>3. /\ StakeOf(S \cap T) \in Nat /\ StakeOf(F) \in Nat
      /\ TotalStake \in Nat
  BY StakeType DEF TotalStake
<1> QED
  BY <1>1, <1>2, <1>3 DEF ValidityThreshold

(* What is left outside a quorum is not a quorum: this is why resetting an  *)
(* aggregator's weight to 0 lets it reach its threshold only once.          *)
THEOREM QuorumOnce ==
    ASSUME NEW S \in SUBSET Authority, IsQuorum(S)
    PROVE  ~IsQuorum(Authority \ S)
<1>1. StakeOf(S \cup (Authority \ S))
        = StakeOf(S) + StakeOf(Authority \ S) - StakeOf(S \cap (Authority \ S))
  BY StakeUnion
<1>2. S \cup (Authority \ S) = Authority /\ S \cap (Authority \ S) = {}
  OBVIOUS
<1>3. StakeOf({}) = 0
  BY FS_EmptySet DEF StakeOf, Units
<1>4. StakeOf(S) \in Nat /\ StakeOf(Authority \ S) \in Nat /\ TotalStake \in Nat
  BY StakeType DEF TotalStake
<1>5. TotalStake = StakeOf(S) + StakeOf(Authority \ S)
  <2>1. TotalStake = StakeOf(S) + StakeOf(Authority \ S) - 0
    BY <1>1, <1>2, <1>3, Zenon DEF TotalStake
  <2> QED
    BY <2>1, <1>4
<1> QED
  BY <1>4, <1>5 DEF IsQuorum, QuorumThreshold

------------------------------------------------------------------------------
(* Induction and recursive functions *)

(* A set of naturals has a least element: induction, for a given set. *)
LEMMA LeastNumber ==
    ASSUME NEW S, S \subseteq Nat, S # {}
    PROVE  \E n \in S : \A m \in S : n <= m
  <1>1. PICK n \in S : \A m \in S : <<m, n>> \notin OpToRel(<, Nat)
    BY NatLessThanWellFounded, WFMin, Zenon
  <1>2. ASSUME NEW m \in S  PROVE  n <= m
    <2>1. <<m, n>> \in OpToRel(<, Nat) <=> m < n
      BY DEF OpToRel
    <2>2. m \in Nat /\ n \in Nat /\ ~ (m < n)
      BY <1>1, <2>1
    <2> QED  BY <2>2
  <1> QED  BY <1>2

(* Induction up to n, for the set G of the numbers in question. *)
LEMMA UpTo ==
    ASSUME NEW n \in Nat, NEW G, 0 \in G,
           \A i \in 1..n : i - 1 \in G => i \in G
    PROVE  \A i \in 0..n : i \in G
  <1> DEFINE bad == (0..n) \ G
  <1>1. SUFFICES ASSUME bad # {}  PROVE  FALSE
    OBVIOUS
  <1>2. PICK i \in bad : \A j \in bad : i <= j
    <2>1. bad \subseteq Nat
      OBVIOUS
    <2> HIDE DEF bad
    <2> QED  BY <1>1, <2>1, LeastNumber
  <1>3. i \in 1..n /\ i - 1 \in 0..n
    BY <1>2
  <1>4. i - 1 \notin bad
    BY <1>2, <1>3
  <1> QED  BY <1>2, <1>3, <1>4

(* f is defined by recursion on 0..n: it starts with b, g makes the steps. *)
IsIteration(f, b, g, n) ==
    f = [i \in 0..n |-> IF i = 0 THEN b ELSE g[<<f[i - 1], i>>]]

(* A function defined by recursion on 0..n exists. *)
LEMMA Iterates ==
    ASSUME NEW S, NEW b \in S, NEW n \in Nat, NEW g \in [S \X (1..n) -> S]
    PROVE  \E f \in [0..n -> S] : IsIteration(f, b, g, n)
  <1> DEFINE Stage(f, k) ==
                 \A i \in 0..k : f[i] = IF i = 0 THEN b ELSE g[<<f[i - 1], i>>]
             G == {k \in 0..n : \E f \in [0..k -> S] : Stage(f, k)}
  <1>1. 0 \in G
    <2> DEFINE f == [i \in 0..0 |-> b]
    <2>1. f \in [0..0 -> S] /\ Stage(f, 0)
      OBVIOUS
    <2> HIDE DEF f, Stage
    <2>2. \E h \in [0..0 -> S] : Stage(h, 0)
      BY <2>1
    <2> QED  BY <2>2
  <1>2. ASSUME NEW k \in 1..n, k - 1 \in G  PROVE  k \in G
    <2>1. PICK f \in [0..(k - 1) -> S] : Stage(f, k - 1)
      BY <1>2
    <2> DEFINE h == [i \in 0..k |-> IF i = k THEN g[<<f[k - 1], k>>] ELSE f[i]]
    <2>2. h \in [0..k -> S]
      OBVIOUS
    <2>3. Stage(h, k)
      <3> SUFFICES ASSUME NEW i \in 0..k
                   PROVE  h[i] = IF i = 0 THEN b ELSE g[<<h[i - 1], i>>]
        OBVIOUS
      <3>1. CASE i = k
        <4>1. i # 0 /\ i - 1 \in 0..k /\ h[i - 1] = f[k - 1]
          BY <3>1
        <4> QED  BY <3>1, <4>1
      <3>2. CASE i # k /\ i # 0
        <4>1. i \in 0..(k - 1) /\ i - 1 \in 0..k /\ i - 1 # k
          BY <3>2
        <4>2. h[i] = f[i] /\ h[i - 1] = f[i - 1]
          BY <3>2, <4>1
        <4>3. f[i] = IF i = 0 THEN b ELSE g[<<f[i - 1], i>>]
          BY <2>1, <4>1
        <4> QED  BY <3>2, <4>2, <4>3
      <3>3. CASE i # k /\ i = 0
        <4>1. h[0] = f[0] /\ 0 \in 0..(k - 1)
          BY <3>3
        <4> QED  BY <2>1, <3>3, <4>1
      <3> QED  BY <3>1, <3>2, <3>3
    <2> HIDE DEF h, Stage
    <2>4. \E e \in [0..k -> S] : Stage(e, k)
      BY <2>2, <2>3
    <2> QED  BY <2>4
  <1>3. n \in G
    <2> HIDE DEF G
    <2>1. \A i \in 0..n : i \in G
      BY <1>1, <1>2, UpTo
    <2> QED  BY <2>1
  <1>4. PICK f \in [0..n -> S] : Stage(f, n)
    BY <1>3
  <1>5. f = [i \in 0..n |-> f[i]]
    OBVIOUS
  <1>6. IsIteration(f, b, g, n)
    BY <1>4, <1>5 DEF IsIteration
  <1> QED  BY <1>4, <1>6

(* A set of numbers up to n has a greatest element. *)
LEMMA GreatestNumber ==
    ASSUME NEW n \in Nat, NEW S, S \subseteq 0..n, S # {}
    PROVE  \E m \in S : \A k \in S : k <= m
  <1> DEFINE T == {n - m : m \in S}
  <1>1. T \subseteq Nat /\ T # {}
    <2>1. PICK k \in S : TRUE
      OBVIOUS
    <2>2. n - k \in T
      BY <2>1
    <2>3. ASSUME NEW t \in T  PROVE  t \in Nat
      <3>1. PICK m \in S : t = n - m
        OBVIOUS
      <3> QED  BY <3>1
    <2> QED  BY <2>2, <2>3
  <1>2. PICK t \in T : \A u \in T : t <= u
    <2> HIDE DEF T
    <2> QED  BY <1>1, LeastNumber
  <1>3. PICK m \in S : t = n - m
    BY <1>2
  <1>4. ASSUME NEW k \in S  PROVE  k <= m
    <2>1. n - k \in T /\ k \in 0..n /\ m \in 0..n
      OBVIOUS
    <2>2. n - m <= n - k
      BY <1>2, <1>3, <2>1
    <2> QED  BY <2>1, <2>2
  <1> QED  BY <1>4

------------------------------------------------------------------------------
(* Sorting *)

(* R orders the elements of X strictly and totally. *)
StrictOrder(X, R) ==
    /\ \A x \in X : <<x, x>> \notin R
    /\ \A x, y \in X : x # y => <<x, y>> \in R \/ <<y, x>> \in R
    /\ \A x, y, z \in X : <<x, y>> \in R /\ <<y, z>> \in R => <<x, z>> \in R

(* How many elements come before one, and the elements in this order. *)
Rank(X, R, x) == Cardinality({y \in X : <<y, x>> \in R})

Enumeration(X, R) ==
    [i \in 1..Cardinality(X) |-> CHOOSE x \in X : Rank(X, R, x) = i - 1]

LEMMA RankOrders ==
    ASSUME NEW X, IsFiniteSet(X), NEW R, StrictOrder(X, R), NEW d \in X, NEW e \in X
    PROVE  /\ Rank(X, R, d) \in 0..(Cardinality(X) - 1)
           /\ <<d, e>> \in R => Rank(X, R, d) < Rank(X, R, e)
           /\ Rank(X, R, d) = Rank(X, R, e) => d = e
  <1> DEFINE below(x) == {y \in X : <<y, x>> \in R}
  <1>1. Cardinality(X) \in Nat
    BY FS_CardinalityType
  <1>2. ASSUME NEW x \in X
        PROVE  IsFiniteSet(below(x)) /\ Rank(X, R, x) \in 0..(Cardinality(X) - 1)
    <2>1. below(x) \in SUBSET X /\ x \notin below(x)
      BY DEF StrictOrder
    <2>2. /\ IsFiniteSet(below(x)) /\ Cardinality(below(x)) <= Cardinality(X)
          /\ Cardinality(X) = Cardinality(below(x)) => X = below(x)
      BY <2>1, FS_Subset
    <2>3. Cardinality(below(x)) \in Nat
      BY <2>2, FS_CardinalityType
    <2>4. Cardinality(below(x)) # Cardinality(X)
      BY <2>1, <2>2
    <2> QED  BY <1>1, <2>2, <2>3, <2>4 DEF Rank
  <1>3. ASSUME NEW x \in X, NEW y \in X, <<x, y>> \in R
        PROVE  Rank(X, R, x) < Rank(X, R, y)
    <2>1. x \in below(y) /\ x \notin below(x) /\ below(x) \in SUBSET below(y)
      BY <1>3 DEF StrictOrder
    <2>2. /\ Cardinality(below(x)) <= Cardinality(below(y))
          /\ Cardinality(below(y)) = Cardinality(below(x)) => below(y) = below(x)
      BY <1>2, <2>1, FS_Subset
    <2>3. Cardinality(below(x)) # Cardinality(below(y))
      BY <2>1, <2>2
    <2>4. Cardinality(below(x)) \in Nat /\ Cardinality(below(y)) \in Nat
      BY <1>2, FS_CardinalityType
    <2> QED  BY <2>2, <2>3, <2>4 DEF Rank
  <1>4. ASSUME Rank(X, R, d) = Rank(X, R, e), d # e  PROVE  FALSE
    <2>1. <<d, e>> \in R \/ <<e, d>> \in R
      BY <1>4 DEF StrictOrder
    <2>2. Rank(X, R, d) < Rank(X, R, e) \/ Rank(X, R, e) < Rank(X, R, d)
      BY <1>3, <2>1
    <2>3. /\ Rank(X, R, d) \in 0..(Cardinality(X) - 1)
          /\ Rank(X, R, e) \in 0..(Cardinality(X) - 1)
      BY <1>2
    <2> QED  BY <1>1, <1>4, <2>2, <2>3
  <1> QED  BY <1>2, <1>3, <1>4

(* Every place is taken: the ranks are the numbers below the cardinality. *)
LEMMA RankTaken ==
    ASSUME NEW X, IsFiniteSet(X), NEW R, StrictOrder(X, R), NEW i \in 1..Cardinality(X)
    PROVE  \E d \in X : Rank(X, R, d) = i - 1
  <1> DEFINE n == Cardinality(X)
             places == 0..(n - 1)
             f == [d \in X |-> Rank(X, R, d)]
  <1>1. n \in Nat
    BY FS_CardinalityType
  <1>2. f \in [X -> places] /\ \A d, e \in X : f[d] = f[e] => d = e
    BY RankOrders
  <1>3. f \in Injection(X, places)
    BY <1>2 DEF Injection, IsInjective
  <1>4. IsFiniteSet(places) /\ Cardinality(places) = n
    <2>1. 0 \in Int /\ n - 1 \in Int
      BY <1>1
    <2>2. /\ IsFiniteSet(places)
          /\ Cardinality(places) = IF 0 > n - 1 THEN 0 ELSE (n - 1) - 0 + 1
      BY <2>1, FS_Interval
    <2> QED  BY <1>1, <2>2
  <1>5. f \in Surjection(X, places)
    <2> HIDE DEF f, n, places
    <2> QED  BY <1>3, <1>4, FS_Injection DEF n
  <1>6. i - 1 \in places
    BY <1>1
  <1>7. PICK d \in X : f[d] = i - 1
    <2> HIDE DEF f, places
    <2> QED  BY <1>5, <1>6 DEF Surjection
  <1> QED  BY <1>7

(* An enumeration has every element, once, in the order. *)
LEMMA EnumerationFacts ==
    ASSUME NEW X, IsFiniteSet(X), NEW R, StrictOrder(X, R)
    PROVE  LET t == Enumeration(X, R)
               n == Cardinality(X)
           IN  /\ n \in Nat /\ t \in [1..n -> X]
               /\ \A d \in X : \E i \in 1..n : t[i] = d
               /\ \A i, j \in 1..n : t[i] = t[j] => i = j
               /\ \A i, j \in 1..n : i < j <=> <<t[i], t[j]>> \in R
  <1> DEFINE t == Enumeration(X, R)
             n == Cardinality(X)
  <1>1. n \in Nat
    BY FS_CardinalityType
  <1>2. t = [i \in 1..n |-> CHOOSE d \in X : Rank(X, R, d) = i - 1]
    BY DEF Enumeration
  <1>3. ASSUME NEW i \in 1..n  PROVE  t[i] \in X /\ Rank(X, R, t[i]) = i - 1
    <2>1. \E d \in X : Rank(X, R, d) = i - 1
      BY RankTaken
    <2> QED  BY <1>2, <2>1
  <1>4. t \in [1..n -> X]
    BY <1>2, <1>3
  <1> HIDE DEF t
  <1>5. ASSUME NEW d \in X  PROVE  \E i \in 1..n : t[i] = d
    <2>1. Rank(X, R, d) \in 0..(n - 1)
      BY RankOrders
    <2> DEFINE i == Rank(X, R, d) + 1
    <2>2. i \in 1..n /\ Rank(X, R, t[i]) = Rank(X, R, d) /\ t[i] \in X
      BY <1>1, <1>3, <2>1
    <2>3. t[i] = d
      BY <2>2, RankOrders
    <2> QED  BY <2>2, <2>3
  <1>6. ASSUME NEW i \in 1..n, NEW j \in 1..n
        PROVE  /\ t[i] = t[j] => i = j
               /\ i < j <=> <<t[i], t[j]>> \in R
    <2>1. /\ t[i] \in X /\ t[j] \in X
          /\ Rank(X, R, t[i]) = i - 1 /\ Rank(X, R, t[j]) = j - 1
      BY <1>3
    <2>2. /\ <<t[i], t[j]>> \in R => Rank(X, R, t[i]) < Rank(X, R, t[j])
          /\ <<t[j], t[i]>> \in R => Rank(X, R, t[j]) < Rank(X, R, t[i])
      BY <2>1, RankOrders
    <2>3. t[i] # t[j] => <<t[i], t[j]>> \in R \/ <<t[j], t[i]>> \in R
      BY <2>1 DEF StrictOrder
    <2> QED  BY <2>1, <2>2, <2>3
  <1> QED  BY <1>1, <1>4, <1>5, <1>6 DEF t
==============================================================================
