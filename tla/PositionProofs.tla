--------------------------- MODULE PositionProofs ---------------------------
(***************************************************************************)
(* Facts about positions, sequences, division and powers of two the other  *)
(* proofs rest on; they have nothing to do with the program.               *)
(***************************************************************************)
EXTENDS Integers, Sequences, WellFoundedInduction, SequenceTheorems,
        FiniteSetTheorems, TLAPS

\* A nonempty set of positions has a smallest one.
LEMMA SmallestExists ==
  ASSUME NEW S, S \subseteq Nat, S # {}
  PROVE  \E i \in S : \A j \in S : i <= j
<1> DEFINE R == OpToRel(<, Nat)
<1>1. IsWellFoundedOn(R, Nat)
  BY NatLessThanWellFounded
<1>2. R = {ss \in Nat \X Nat : ss[1] < ss[2]}
  BY DEF OpToRel
<1>3. \A i, j \in S : j < i => <<j, i>> \in R
  BY <1>2
<1> HIDE DEF R
<1>4. PICK i \in S : \A j \in S : <<j, i>> \notin R
  BY <1>1, WFMin
<1>5. ASSUME NEW j \in S PROVE i <= j
  <2>1. ~ (j < i)
    BY <1>3, <1>4
  <2>2. i \in Nat /\ j \in Nat
    OBVIOUS
  <2> QED BY <2>1, <2>2
<1> QED BY <1>5

\* A nonempty set of positions has a largest one.
LEMMA LargestExists ==
  ASSUME NEW n \in Nat, NEW S, S \subseteq 1..n, S # {}
  PROVE  \E i \in S : \A j \in S : j <= i
<1> DEFINE D == {n - k : k \in S}
<1>1. D \subseteq Nat /\ D # {}
  <2>1. PICK k \in S : TRUE
    OBVIOUS
  <2>2. n - k \in D
    OBVIOUS
  <2>3. \A i \in S : n - i \in Nat
    OBVIOUS
  <2> QED BY <2>2, <2>3
<1>2. PICK m \in D : \A x \in D : m <= x
  <2> HIDE DEF D
  <2> QED BY <1>1, SmallestExists
<1>3. PICK i \in S : m = n - i
  BY <1>2
<1>4. ASSUME NEW j \in S PROVE j <= i
  <2>1. n - i <= n - j
    BY <1>2, <1>3
  <2>2. i \in Int /\ j \in Int /\ n \in Int
    OBVIOUS
  <2> QED BY <2>1, <2>2
<1> QED BY <1>4

\* A stretch of a sequence is a sequence of the same elements.
LEMMA SubSeqType ==
  ASSUME NEW S, NEW s \in Seq(S), NEW m \in Nat \ {0}, NEW n \in Nat,
         n <= Len(s)
  PROVE  /\ SubSeq(s, m, n) \in Seq(S)
         /\ Len(SubSeq(s, m, n)) = IF m <= n THEN n - m + 1 ELSE 0
         /\ \A i \in 1..(n - m + 1) : SubSeq(s, m, n)[i] = s[m + i - 1]
<1>1. Len(s) \in Nat
  BY LenProperties
<1>2. ASSUME NEW i \in m..n PROVE s[i] \in S
  <2>1. i \in 1..Len(s)
    BY <1>1
  <2> QED BY <2>1, ElementOfSeq
<1>3. m \in Int /\ n \in Int
  OBVIOUS
<1> QED BY <1>2, <1>3, SubSeqProperties

-----------------------------------------------------------------------------
(* Division and powers of two.                                             *)

\* Dividing by a positive number.
LEMMA Division ==
  ASSUME NEW n \in Int, NEW m \in Nat, m > 0
  PROVE  /\ n % m \in Nat /\ n % m < m
         /\ n \div m \in Int
         /\ n = (n \div m) * m + (n % m)
OBVIOUS

LEMMA DivisionUnique ==
  ASSUME NEW n \in Int, NEW m \in Nat, NEW q \in Int, NEW r \in Nat,
         r < m, n = q * m + r
  PROVE  n % m = r /\ n \div m = q
OBVIOUS

\* The last digit of a number of more digits: base b above the digits below p.
LEMMA OneMoreDigit ==
  ASSUME NEW n \in Nat, NEW p \in Nat, NEW b \in Nat, p > 0, b > 0
  PROVE  n % (p * b) = (n % p) + ((n \div p) % b) * p
<1> DEFINE q == n \div p
           r == n % p
           d == q \div b
           s == q % b
<1>1. r \in Nat /\ r < p /\ q \in Int /\ n = q * p + r
  BY Division
<1>2. s \in Nat /\ s < b /\ d \in Int /\ q = d * b + s
  <2> HIDE DEF q
  <2> QED BY <1>1, Division DEF q
<1> HIDE DEF q, r, d, s
<1>3. s * p + r \in Nat /\ p * b \in Nat
  BY <1>1, <1>2
<1>4. s * p <= (b - 1) * p /\ (b - 1) * p = p * b - p
  BY <1>1, <1>2
<1>5. s * p + r < p * b
  BY <1>1, <1>2, <1>3, <1>4
<1>6. n = d * (p * b) + (s * p + r)
  BY <1>1, <1>2
<1> DEFINE m == p * b
           t == s * p + r
<1>7. n % m = t
  <2>1. m \in Nat /\ t \in Nat /\ t < m /\ n = d * m + t
    BY <1>3, <1>5, <1>6
  <2> HIDE DEF m, t
  <2> QED BY <1>2, <2>1, DivisionUnique
<1> QED BY <1>7 DEF r, s, q

LEMMA PowerIsCardinality ==
  ASSUME NEW n \in Nat
  PROVE  2^n = Cardinality(SUBSET (1..n)) /\ IsFiniteSet(SUBSET (1..n))
<1>1. IsFiniteSet(1..n) /\ Cardinality(1..n) = n
  BY FS_Interval
<1> QED BY <1>1, FS_SUBSET

LEMMA PowerType ==
  ASSUME NEW n \in Nat
  PROVE  2^n \in Nat /\ 2^n > 0
<1> DEFINE S == SUBSET (1..n)
<1>1. {} \in S
  OBVIOUS
<1>2. IsFiniteSet(S) /\ 2^n = Cardinality(S)
  BY PowerIsCardinality
<1> HIDE DEF S
<1>3. Cardinality(S) \in Nat /\ Cardinality(S) # 0
  BY <1>1, <1>2, FS_CardinalityType, FS_EmptySet
<1> QED BY <1>2, <1>3

\* The sets of the first n + 1 numbers are those without the last, and those
\* with it: twice as many as the sets of the first n.
LEMMA PowerSucc ==
  ASSUME NEW n \in Nat
  PROVE  2^(n + 1) = 2 * 2^n
<1> DEFINE S == SUBSET (1..n)
           T == {X \in SUBSET (1..(n + 1)) : n + 1 \in X}
           f == [X \in S |-> X \cup {n + 1}]
<1>1. SUBSET (1..(n + 1)) = S \cup T
  <2>1. 1..(n + 1) = (1..n) \cup {n + 1}
    OBVIOUS
  <2> QED BY <2>1
<1>2. S \cap T = {}
  OBVIOUS
<1>3. f \in Bijection(S, T)
  <2>1. 1..(n + 1) = (1..n) \cup {n + 1} /\ n + 1 \notin 1..n
    OBVIOUS
  <2>2. \A X \in S : X \cup {n + 1} \in T
    BY <2>1
  <2>3. \A X, Y \in S : X \cup {n + 1} = Y \cup {n + 1} => X = Y
    BY <2>1
  <2>4. \A Y \in T : Y \ {n + 1} \in S /\ (Y \ {n + 1}) \cup {n + 1} = Y
    BY <2>1
  <2>5. f \in [S -> T] /\ \A X \in S : f[X] = X \cup {n + 1}
    BY <2>2
  <2> HIDE DEF S, T, f
  <2>6. f \in Injection(S, T)
    BY <2>3, <2>5 DEF Injection, IsInjective
  <2>7. f \in Surjection(S, T)
    BY <2>4, <2>5 DEF Surjection
  <2> QED BY <2>6, <2>7 DEF Bijection
<1>4. IsFiniteSet(S) /\ 2^n = Cardinality(S) /\ 2^(n + 1) = Cardinality(S \cup T)
  BY <1>1, PowerIsCardinality
<1> HIDE DEF S, T, f
<1>5. IsFiniteSet(T) /\ Cardinality(T) = Cardinality(S)
  BY <1>3, <1>4, FS_Bijection DEF ExistsBijection
<1>6. Cardinality(S \cup T) = Cardinality(S) + Cardinality(T)
  <2>1. Cardinality(S \cup T) = Cardinality(S) + Cardinality(T) - Cardinality(S \cap T)
    BY <1>4, <1>5, FS_Union
  <2>2. Cardinality(S) \in Nat /\ Cardinality(T) \in Nat
    BY <1>4, <1>5, FS_CardinalityType
  <2>3. Cardinality(S \cap T) = 0
    BY <1>2, FS_EmptySet
  <2> QED BY <2>1, <2>2, <2>3
<1> QED BY <1>4, <1>5, <1>6, FS_CardinalityType

\* Exponents add.
LEMMA PowerSum ==
  ASSUME NEW m \in Nat, NEW n \in Nat
  PROVE  2^(m + n) = 2^m * 2^n
<1> DEFINE Wrong == {k \in Nat : 2^(m + k) # 2^m * 2^k}
<1>1. CASE Wrong = {}
  BY <1>1
<1>2. CASE Wrong # {}
  <2>1. PICK k \in Wrong : \A j \in Wrong : k <= j
    <3> HIDE DEF Wrong
    <3>1. Wrong \subseteq Nat
      BY DEF Wrong
    <3> QED BY <1>2, <3>1, SmallestExists
  <2>2. 2^m \in Nat
    BY PowerType
  <2>3. k # 0
    <3>1. 2^0 = 1 /\ m + 0 = m
      OBVIOUS
    <3>2. k = 0 => 2^(m + k) = 2^m * 2^k
      <4>1. 2^m * 1 = 2^m
        BY <2>2
      <4> QED BY <3>1, <4>1
    <3> QED BY <2>1, <3>2
  <2>4. k - 1 \in Nat /\ k - 1 \notin Wrong
    BY <2>1, <2>3
  <2>5. 2^(m + (k - 1)) = 2^m * 2^(k - 1)
    BY <2>4
  <2>6. 2^((k - 1) + 1) = 2 * 2^(k - 1) /\ 2^((m + (k - 1)) + 1) = 2 * 2^(m + (k - 1))
    BY <2>4, PowerSucc
  <2>7. (k - 1) + 1 = k /\ (m + (k - 1)) + 1 = m + k
    BY <2>1
  <2>8. 2^(k - 1) \in Nat
    BY <2>4, PowerType
  <2>9. 2^(m + k) = 2^m * 2^k
    BY <2>2, <2>5, <2>6, <2>7, <2>8
  <2> QED BY <2>1, <2>9
<1> QED BY <1>1, <1>2

\* A larger exponent gives a larger power, and one more than twice as large.
LEMMA PowerMonotonic ==
  ASSUME NEW m \in Nat, NEW n \in Nat, m <= n
  PROVE  2^m <= 2^n /\ (m < n => 2 * 2^m <= 2^n)
<1>1. n - m \in Nat /\ m + (n - m) = n
  OBVIOUS
<1>2. 2^n = 2^m * 2^(n - m) /\ 2^m \in Nat /\ 2^m > 0 /\ 2^(n - m) \in Nat /\ 2^(n - m) > 0
  BY <1>1, PowerSum, PowerType
<1>3. m < n => 2^(n - m) >= 2
  <2>1. ASSUME m < n PROVE 2^(n - m) >= 2
    <3>1. n - m - 1 \in Nat /\ (n - m - 1) + 1 = n - m
      BY <2>1
    <3>2. 2^(n - m) = 2 * 2^(n - m - 1) /\ 2^(n - m - 1) \in Nat /\ 2^(n - m - 1) > 0
      BY <3>1, PowerSucc, PowerType
    <3> QED BY <3>2
  <2> QED BY <2>1
<1> DEFINE a == 2^m
           b == 2^(n - m)
<1>4. a \in Nat /\ b \in Nat /\ b > 0 /\ (m < n => b >= 2) /\ 2^n = a * b
  BY <1>2, <1>3
<1> HIDE DEF a, b
<1>5. b >= 1 => a * b >= a
  BY <1>4
<1>6. b >= 2 => a * b >= 2 * a
  BY <1>4
<1> QED BY <1>4, <1>5, <1>6 DEF a
=============================================================================
