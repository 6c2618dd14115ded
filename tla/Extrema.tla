------------------------------- MODULE Extrema -------------------------------
(***************************************************************************)
(* Least and greatest elements of sets of numbers, which the forecast of   *)
(* PriorityGate, the batches of MeetingReviews and the segments of         *)
(* RecordingPlayback are chosen by.                                        *)
(***************************************************************************)
EXTENDS Integers, FiniteSets, FiniteSetsExt, FiniteSetTheorems, WellFoundedInduction, TLAPS

\* A set of natural numbers that is not empty has a least element.
LEMMA LeastNumber ==
  ASSUME NEW T \in SUBSET Nat, T # {}
  PROVE  \E m \in T : \A n \in T : m <= n
<1>1. IsWellFoundedOn(OpToRel(<, Nat), Nat)
  BY NatLessThanWellFounded
<1>2. PICK m \in T : \A n \in T : ~(<<n, m>> \in OpToRel(<, Nat))
  BY <1>1, WFMin
<1>3. ASSUME NEW n \in T PROVE m <= n
  <2>1. ~(n < m)
    BY <1>2 DEF OpToRel
  <2> QED BY <2>1
<1> QED BY <1>3

\* A bounded set of natural numbers that is not empty has a greatest element:
\* the least of its bounds.
LEMMA GreatestNumber ==
  ASSUME NEW T \in SUBSET Nat, T # {}, NEW b \in Nat, \A n \in T : n <= b
  PROVE  \E m \in T : \A n \in T : n <= m
<1> DEFINE Bounds == {u \in Nat : \A n \in T : n <= u}
<1>1. PICK m \in Bounds : \A u \in Bounds : m <= u
  <2>1. Bounds \in SUBSET Nat /\ b \in Bounds
    OBVIOUS
  <2> HIDE DEF Bounds
  <2> QED BY <2>1, LeastNumber
<1>2. m \in T
  <2> SUFFICES ASSUME m \notin T PROVE FALSE
    OBVIOUS
  <2>1. PICK n \in T : TRUE
    OBVIOUS
  <2>2. m \in Nat /\ \A k \in T : k <= m /\ k # m /\ k \in Nat
    OBVIOUS
  <2>3. m - 1 \in Nat /\ \A k \in T : k <= m - 1
    BY <2>1, <2>2
  <2>4. m - 1 \in Bounds
    BY <2>3
  <2> QED BY <2>4, <1>1, <2>2
<1> QED BY <1>1, <1>2

\* A finite set of natural numbers is bounded: a smallest one that is not
\* would be bounded without one of its elements.
LEMMA FiniteIsBounded ==
  ASSUME NEW S \in SUBSET Nat, IsFiniteSet(S)
  PROVE  \E b \in Nat : \A n \in S : n <= b
<1> DEFINE Bounded(U) == \E b \in Nat : \A n \in U : n <= b
           Sizes == {k \in Nat : \E U \in SUBSET S : Cardinality(U) = k /\ ~Bounded(U)}
<1> SUFFICES ASSUME ~Bounded(S) PROVE FALSE
  OBVIOUS
<1>1. Cardinality(S) \in Sizes
  BY FS_CardinalityType
<1>2. PICK k \in Sizes : \A l \in Sizes : k <= l
  <2>1. Sizes \in SUBSET Nat
    OBVIOUS
  <2> HIDE DEF Sizes
  <2> QED BY <1>1, <2>1, LeastNumber
<1>3. PICK U \in SUBSET S : Cardinality(U) = k /\ ~Bounded(U)
  BY <1>2
<1>4. PICK u \in U : u \in Nat
  BY <1>3
<1>5. IsFiniteSet(U) /\ k \in Nat
  BY <1>2, FS_Subset
<1>6. Cardinality(U \ {u}) = k - 1 /\ Cardinality(U \ {u}) \in Nat
  BY <1>3, <1>4, <1>5, FS_RemoveElement, FS_CardinalityType
<1>7. Bounded(U \ {u})
  <2>1. k - 1 \notin Sizes
    BY <1>2, <1>5
  <2>2. U \ {u} \in SUBSET S
    OBVIOUS
  <2> QED BY <1>6, <2>1, <2>2
<1>8. PICK b \in Nat : \A n \in U \ {u} : n <= b
  BY <1>7
<1>9. b + u \in Nat /\ \A n \in U : n <= b + u
  BY <1>3, <1>4, <1>8
<1> QED BY <1>3, <1>9

\* The operators of the library return what they are named for.
LEMMA MaxIsGreatest ==
  ASSUME NEW T \in SUBSET Nat, T # {}, IsFiniteSet(T)
  PROVE  Max(T) \in T /\ \A n \in T : n <= Max(T)
<1>1. PICK m \in T : \A n \in T : n <= m
  BY FiniteIsBounded, GreatestNumber
<1>2. \A n \in T : m >= n
  BY <1>1
<1>3. Max(T) \in T /\ \A n \in T : Max(T) >= n
  BY <1>1, <1>2 DEF Max
<1> QED BY <1>3

LEMMA MinIsLeast ==
  ASSUME NEW T \in SUBSET Nat, T # {}
  PROVE  Min(T) \in T /\ \A n \in T : Min(T) <= n
BY LeastNumber DEF Min

LEMMA MaxOfTwo ==
  ASSUME NEW a \in Int, NEW b \in Int
  PROVE  Max({a, b}) = IF a >= b THEN a ELSE b
<1>1. \E x \in {a, b} : \A y \in {a, b} : x >= y
  OBVIOUS
<1>2. Max({a, b}) \in {a, b} /\ \A y \in {a, b} : Max({a, b}) >= y
  BY <1>1 DEF Max
<1> QED BY <1>2
==============================================================================
