--------------------------- MODULE NaturalsLemmas ---------------------------
(***************************************************************************)
(* Facts about natural numbers that several proofs need: least elements,   *)
(* induction, remainders by a divisor that is not known, and powers of     *)
(* two.  Induction is stated about a set instead of a predicate, so that   *)
(* it can be cited.                                                        *)
(***************************************************************************)
EXTENDS Integers, FiniteSets, WellFoundedInduction, FiniteSetTheorems, FunctionTheorems, TLAPS

\* There is no endless descent in the naturals.
LEMMA LessIsWellFounded == IsWellFoundedOn({p \in Nat \X Nat : p[1] < p[2]}, Nat)
<1>1. {p \in Nat \X Nat : p[1] < p[2]} = OpToRel(<, Nat)
  BY DEF OpToRel
<1>2. QED
  BY <1>1, NatLessThanWellFounded, Zenon

\* Every set of naturals that is not empty has a least element.
LEMMA LeastElement ==
  ASSUME NEW T \in SUBSET Nat, T # {}
  PROVE  \E x \in T : \A y \in T : x <= y
<1>1. PICK x \in T : \A y \in T : <<y, x>> \notin {p \in Nat \X Nat : p[1] < p[2]}
  BY LessIsWellFounded, WFMin
<1>2. ASSUME NEW y \in T
      PROVE  x <= y
  <2>1. ~(y < x)
    <3>1. y < x => <<y, x>> \in {p \in Nat \X Nat : p[1] < p[2]}
      OBVIOUS
    <3>2. QED
      BY <1>1, <3>1
  <2>2. QED
    BY <2>1
<1>3. QED
  BY <1>2

\* A set with zero and the successors of its elements contains all naturals.
LEMMA SetInduction ==
  ASSUME NEW T, 0 \in T, \A n \in Nat : n \in T => n + 1 \in T
  PROVE  Nat \subseteq T
<1> SUFFICES ASSUME Nat \ T # {} PROVE FALSE
  OBVIOUS
<1>1. PICK x \in Nat \ T : \A y \in Nat \ T : x <= y
  BY LeastElement
<1>2. x # 0 /\ x - 1 \in Nat /\ x - 1 \in T
  BY <1>1
<1>3. QED
  BY <1>1, <1>2

\* What \div and % give, for a divisor that is not a numeral.
LEMMA DivisionWithRemainder ==
  ASSUME NEW n \in Nat \ {0}, NEW t \in Nat
  PROVE  /\ t = (n * (t \div n)) + (t % n)
         /\ (t % n) \in 0..(n - 1) /\ (t \div n) \in Nat
  BY SMT

\* Whatever is written as a multiple and a rest below the divisor has that rest as remainder.
LEMMA RemainderIsUnique ==
  ASSUME NEW n \in Nat \ {0}, NEW q \in Nat, NEW i \in 0..(n - 1)
  PROVE  ((n * q) + i) % n = i
  BY SMT

\* A round of n steps from anywhere meets every remainder.
LEMMA RoundMeetsAll ==
  ASSUME NEW n \in Nat \ {0}, NEW t \in Nat, NEW i \in 0..(n - 1)
  PROVE  \E k \in 0..(n - 1) : (t + k) % n = i
<1> DEFINE q == t \div n
           m == t % n
<1>1. t = (n * q) + m /\ m \in 0..(n - 1) /\ q \in Nat
  BY DivisionWithRemainder
<1> HIDE DEF q, m
<1>2. CASE i >= m
  <2> DEFINE k == i - m
  <2>1. t + k = (n * q) + i /\ k \in 0..(n - 1)
    BY <1>1, <1>2
  <2>2. (t + k) % n = i
    BY <1>1, <2>1, RemainderIsUnique
  <2> HIDE DEF k
  <2>3. QED
    BY <2>1, <2>2
<1>3. CASE i < m
  <2> DEFINE k == (i - m) + n
  <2>1. n * (q + 1) = (n * q) + n
    BY <1>1
  <2>2. t + k = (n * (q + 1)) + i /\ k \in 0..(n - 1)
    BY <1>1, <1>3, <2>1
  <2>3. (t + k) % n = i
    BY <1>1, <2>2, RemainderIsUnique
  <2> HIDE DEF k
  <2>4. QED
    BY <2>2, <2>3
<1>4. QED
  BY <1>1, <1>2, <1>3

\* A set with one more element has twice as many subsets.
LEMMA SubsetsDouble ==
  ASSUME NEW S, IsFiniteSet(S), NEW x, x \notin S
  PROVE  Cardinality(SUBSET (S \cup {x})) = 2 * Cardinality(SUBSET S)
<1> DEFINE A == SUBSET S
           B == {T \cup {x} : T \in A}
           f == [T \in A |-> T \cup {x}]
<1>1. IsFiniteSet(A) /\ Cardinality(A) \in Nat
  BY FS_SUBSET, FS_CardinalityType
<1>2. f \in Bijection(A, B)
  <2>1. f \in [A -> B] /\ \A T \in B : \E U \in A : f[U] = T
    OBVIOUS
  <2>2. ASSUME NEW T \in A, NEW U \in A, f[T] = f[U]
        PROVE  T = U
    <3>1. T \cup {x} = U \cup {x} /\ x \notin T /\ x \notin U
      BY <2>2
    <3>2. QED
      BY <3>1
  <2> HIDE DEF A, B, f
  <2>3. QED
    BY <2>1, <2>2, Fun_IsBij
<1>3. IsFiniteSet(B) /\ Cardinality(B) = Cardinality(A)
  <2> HIDE DEF A, B, f
  <2>1. ExistsBijection(A, B)
    BY <1>2 DEF ExistsBijection
  <2>2. QED
    BY <1>1, <2>1, FS_Bijection
<1>4. A \cap B = {}
  OBVIOUS
<1>5. SUBSET (S \cup {x}) = A \cup B
  <2>1. ASSUME NEW T \in SUBSET (S \cup {x}), x \in T
        PROVE  T \in B
    <3>1. T \ {x} \in A /\ T = (T \ {x}) \cup {x}
      BY <2>1
    <3>2. QED
      BY <3>1
  <2>2. ASSUME NEW T \in SUBSET (S \cup {x}), x \notin T
        PROVE  T \in A
    BY <2>2
  <2>3. QED
    BY <2>1, <2>2
<1> HIDE DEF A, B
<1>6. Cardinality(A \cup B) = Cardinality(A) + Cardinality(B) - Cardinality({})
  BY <1>1, <1>3, <1>4, FS_Union
<1>7. Cardinality(A \cup B) = 2 * Cardinality(A)
  <2>1. Cardinality({}) = 0
    BY FS_EmptySet
  <2>2. QED
    BY <1>1, <1>3, <1>6, <2>1
<1>8. Cardinality(SUBSET (S \cup {x})) = Cardinality(A \cup B)
  BY <1>5
<1>9. QED
  BY <1>7, <1>8 DEF A

\* The powers of two, by the number of subsets.
LEMMA PowersOfTwo ==
  /\ 2^0 = 1
  /\ \A n \in Nat : 2^n \in Nat \ {0} /\ 2^(n + 1) = 2 * 2^n
<1>1. ASSUME NEW n \in Nat
      PROVE  IsFiniteSet(1..n) /\ Cardinality(1..n) = n
  BY FS_Interval
<1>2. ASSUME NEW n \in Nat
      PROVE  2^n = Cardinality(SUBSET (1..n)) /\ 2^n \in Nat
  BY <1>1, FS_SUBSET, FS_CardinalityType
<1>3. 2^0 = 1
  <2>1. SUBSET (1..0) = {{}} /\ 0 \in Nat
    OBVIOUS
  <2>2. QED
    BY <1>2, <2>1, FS_Singleton
<1>4. ASSUME NEW n \in Nat
      PROVE  2^(n + 1) = 2 * 2^n
  <2>1. 1..(n + 1) = (1..n) \cup {n + 1} /\ n + 1 \notin 1..n /\ n + 1 \in Nat
    OBVIOUS
  <2>2. Cardinality(SUBSET (1..(n + 1))) = 2 * Cardinality(SUBSET (1..n))
    BY <1>1, <2>1, SubsetsDouble
  <2>3. QED
    BY <1>2, <2>1, <2>2
<1>5. {n \in Nat : 2^n # 0} = Nat
  <2> DEFINE T == {n \in Nat : 2^n # 0}
  <2>1. 0 \in T
    BY <1>3
  <2>2. ASSUME NEW n \in Nat, n \in T
        PROVE  n + 1 \in T
    BY <1>2, <1>4, <2>2
  <2> HIDE DEF T
  <2>3. Nat \subseteq T
    BY <2>1, <2>2, SetInduction
  <2>4. QED
    BY <2>3 DEF T
<1>6. QED
  BY <1>2, <1>3, <1>4, <1>5
=============================================================================
