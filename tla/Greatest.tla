------------------------------ MODULE Greatest ------------------------------
(* The greatest element of a bounded set of natural numbers, as the modules *)
(* use it: the next generation of an index, the next confirmed position, the*)
(* next number of a column. The induction it needs is the well-foundedness  *)
(* of < on the natural numbers, applied to a set.                           *)
EXTENDS Naturals, FiniteSetsExt, WellFoundedInduction, TLAPS

Bounded(S) == \E n \in Nat : \A x \in S : x <= n

(* A non-empty set of natural numbers has a least element.                  *)
LEMMA LeastExists ==
    ASSUME NEW S, S \subseteq Nat, S # {}
    PROVE  \E m \in S : \A x \in S : m <= x
<1>1. \E m \in S : \A x \in S : <<x, m>> \notin OpToRel(<, Nat)
  BY NatLessThanWellFounded, WFMin
<1>2. PICK m \in S : \A x \in S : <<x, m>> \notin OpToRel(<, Nat)
  BY <1>1
<1>3. \A x \in S : ~(x < m)
  BY <1>2 DEF OpToRel
<1>4. QED
  BY <1>3

(* A bounded one has a greatest: the least of its bounds belongs to it.     *)
LEMMA GreatestExists ==
    ASSUME NEW S, S \subseteq Nat, S # {}, Bounded(S)
    PROVE  \E m \in S : \A x \in S : x <= m
<1> DEFINE Bounds == {n \in Nat : \A x \in S : x <= n}
<1>1. PICK b \in Bounds : \A n \in Bounds : b <= n
  BY LeastExists DEF Bounded
<1>2. b \in S
  <2>1. SUFFICES ASSUME b \notin S
                 PROVE  FALSE
    OBVIOUS
  <2>2. \A x \in S : x < b
    BY <2>1, <1>1
  <2>3. b # 0 /\ b - 1 \in Nat
    <3>1. PICK x \in S : TRUE
      OBVIOUS
    <3>2. x \in Nat /\ x < b /\ b \in Nat
      BY <2>2, <1>1
    <3>3. QED
      BY <3>2
  <2>4. \A x \in S : x <= b - 1
    BY <2>2, <2>3
  <2>5. b - 1 \in Bounds
    BY <2>3, <2>4
  <2>6. QED
    BY <1>1, <2>3, <2>5
<1>3. QED
  BY <1>1, <1>2

(* Induction up to a bound, for the members of a set: the smallest number    *)
(* outside would be neither 0 nor the successor of a member.                 *)
LEMMA InductionUpTo ==
    ASSUME NEW n \in Nat, NEW P, 0 \in P, \A i \in 1 .. n : i - 1 \in P => i \in P
    PROVE  \A i \in 0 .. n : i \in P
<1> DEFINE Missing == {i \in 0 .. n : i \notin P}
<1>1. SUFFICES ASSUME Missing # {}
               PROVE  FALSE
  OBVIOUS
<1>2. PICK m \in Missing : \A i \in Missing : m <= i
  <2>1. Missing \subseteq Nat
    OBVIOUS
  <2>2. QED
    BY <1>1, <2>1, LeastExists
<1>3. m \in 1 .. n
  OBVIOUS
<1>4. m - 1 \in 0 .. n /\ m - 1 \notin Missing
  BY <1>2, <1>3
<1>5. QED
  BY <1>3, <1>4

(* What Max chooses.                                                        *)
LEMMA MaxProperties ==
    ASSUME NEW S, S \subseteq Nat, S # {}, Bounded(S)
    PROVE  Max(S) \in S /\ \A x \in S : x <= Max(S)
<1>1. \E m \in S : \A x \in S : m >= x
  BY GreatestExists
<1>2. QED
  BY <1>1 DEF Max

(* What Min chooses.                                                        *)
LEMMA MinProperties ==
    ASSUME NEW S, S \subseteq Nat, S # {}
    PROVE  Min(S) \in S /\ \A x \in S : Min(S) <= x
<1>1. \E m \in S : \A x \in S : m <= x
  BY LeastExists
<1>2. QED
  BY <1>1 DEF Min

(* The greater of two.                                                      *)
LEMMA MaxOfTwo ==
    ASSUME NEW a \in Nat, NEW b \in Nat
    PROVE  Max({a, b}) = IF a <= b THEN b ELSE a
<1>1. Bounded({a, b})
  BY a + b \in Nat DEF Bounded
<1>2. Max({a, b}) \in {a, b} /\ \A x \in {a, b} : x <= Max({a, b})
  BY <1>1, MaxProperties
<1>3. QED
  BY <1>2
=============================================================================
