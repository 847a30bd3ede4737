-------------------------- MODULE UnityAssertProofs --------------------------
(***************************************************************************)
(* Proofs about UnityAssert, for every use of a macro its types allow and  *)
(* bytes of any even number of bits up to 8: an assertion passes exactly   *)
(* when the relation its macro names holds, a failure names the first      *)
(* place that differs and prints two different texts, and nothing outside  *)
(* the arguments is read; the last two for strings whose ANSI escapes end. *)
(***************************************************************************)
EXTENDS UnityAssert, PositionProofs

-----------------------------------------------------------------------------
(* Numbers of a length in bytes.                                           *)

Length == {1, 2, 4, 8}

\* How many numbers of the length there are, and how many are not negative.
Span(c) == 2 ^ Bits(c)
Half(c) == 2 ^ (Bits(c) - 1)

LEMMA BitsType ==
  /\ ByteBits \in Nat /\ ByteBits > 0
  /\ \A c \in Nat : Bits(c) \in Nat
  /\ \A c \in Length : Bits(c) > 0 /\ Bits(c) <= Bits(8)
<1>1. ByteBits \in Nat /\ ByteBits > 0
  BY PrintAssumption
<1>2. ASSUME NEW c \in Nat PROVE Bits(c) \in Nat
  BY <1>1 DEF Bits
<1>3. ASSUME NEW c \in Length PROVE Bits(c) > 0 /\ Bits(c) <= Bits(8)
  BY <1>1 DEF Bits, Length
<1> QED BY <1>1, <1>2, <1>3

LEMMA SpanType ==
  ASSUME NEW c \in Length
  PROVE  /\ Span(c) \in Nat /\ Half(c) \in Nat
         /\ Half(c) > 0 /\ Span(c) = 2 * Half(c)
         /\ Span(c) <= Span(8)
<1>1. Bits(c) \in Nat /\ Bits(c) > 0 /\ Bits(8) \in Nat /\ Bits(c) <= Bits(8)
  BY BitsType DEF Length
<1>2. Bits(c) - 1 \in Nat /\ (Bits(c) - 1) + 1 = Bits(c)
  BY <1>1
<1>3. 2 ^ Bits(c) = 2 * 2 ^ (Bits(c) - 1)
  BY <1>2, PowerSucc
<1>4. 2 ^ (Bits(c) - 1) \in Nat /\ 2 ^ (Bits(c) - 1) > 0
  BY <1>2, PowerType
<1>5. 2 ^ Bits(c) <= 2 ^ Bits(8)
  BY <1>1, PowerMonotonic
<1> QED BY <1>3, <1>4, <1>5 DEF Span, Half

\* Unsigned and Signed, without powers and division.
LEMMA UnsignedFacts ==
  ASSUME NEW n \in Int, NEW c \in Length
  PROVE  /\ Unsigned(n, c) \in Nat /\ Unsigned(n, c) < Span(c)
         /\ \E q \in Int : n = q * Span(c) + Unsigned(n, c)
<1>1. Span(c) \in Nat /\ Span(c) > 0
  BY SpanType
<1>2. Unsigned(n, c) = n % Span(c)
  BY DEF Unsigned, Span
<1> QED BY <1>1, <1>2, Division

LEMMA UnsignedIs ==
  ASSUME NEW n \in Int, NEW c \in Length, NEW q \in Int, NEW r \in Nat,
         r < Span(c), n = q * Span(c) + r
  PROVE  Unsigned(n, c) = r
<1>1. Span(c) \in Nat
  BY SpanType
<1>2. Unsigned(n, c) = n % Span(c)
  BY DEF Unsigned, Span
<1> QED BY <1>1, <1>2, DivisionUnique

LEMMA UnsignedSame ==
  ASSUME NEW c \in Length, NEW n \in Nat, n < Span(c)
  PROVE  Unsigned(n, c) = n
<1>1. n = 0 * Span(c) + n
  BY SpanType
<1> QED BY <1>1, UnsignedIs

LEMMA SignedFacts ==
  ASSUME NEW n \in Int, NEW c \in Length
  PROVE  /\ Signed(n, c) \in Int
         /\ - Half(c) <= Signed(n, c) /\ Signed(n, c) < Half(c)
         /\ Signed(n, c) \in {Unsigned(n, c), Unsigned(n, c) - Span(c)}
         /\ Unsigned(n, c) < Half(c) => Signed(n, c) = Unsigned(n, c)
         /\ Unsigned(n, c) >= Half(c) => Signed(n, c) = Unsigned(n, c) - Span(c)
<1>1. /\ Span(c) \in Nat /\ Half(c) \in Nat /\ Span(c) = 2 * Half(c)
      /\ Unsigned(n, c) \in Nat /\ Unsigned(n, c) < Span(c)
  BY SpanType, UnsignedFacts
<1>2. Signed(n, c) = IF Unsigned(n, c) < Half(c) THEN Unsigned(n, c)
                     ELSE Unsigned(n, c) - Span(c)
  BY DEF Signed, Half, Span
<1> HIDE DEF Unsigned, Signed
<1> QED BY <1>1, <1>2

\* Sign-extending does not change the bytes.
LEMMA UnsignedOfSigned ==
  ASSUME NEW n \in Int, NEW c \in Length
  PROVE  Unsigned(Signed(n, c), c) = Unsigned(n, c)
<1> DEFINE s == Signed(n, c)
           u == Unsigned(n, c)
           m == Span(c)
<1>1. s \in Int /\ u \in Nat /\ u < m /\ m \in Nat /\ s \in {u, u - m}
  BY SignedFacts, UnsignedFacts, SpanType
<1> HIDE DEF s, u
<1>2. \E q \in Int : s = q * m + u
  <2> HIDE DEF m
  <2>1. s = u => s = 0 * m + u
    BY <1>1
  <2>2. s = u - m => s = (-1) * m + u
    BY <1>1
  <2>3. 0 \in Int /\ -1 \in Int
    OBVIOUS
  <2> QED BY <1>1, <2>1, <2>2, <2>3
<1>3. Unsigned(s, c) = u
  BY <1>1, <1>2, UnsignedIs
<1> QED BY <1>3 DEF s, u

LEMMA SameBytes ==
  ASSUME NEW x \in Int, NEW y \in Int, NEW c \in Length
  PROVE  Signed(x, c) = Signed(y, c) <=> Unsigned(x, c) = Unsigned(y, c)
<1>1. Signed(x, c) = Signed(y, c) => Unsigned(x, c) = Unsigned(y, c)
  BY UnsignedOfSigned
<1>2. Unsigned(x, c) = Unsigned(y, c) => Signed(x, c) = Signed(y, c)
  BY DEF Signed
<1> QED BY <1>1, <1>2

LEMMA SignedOfUnsigned ==
  ASSUME NEW n \in Int, NEW c \in Length
  PROVE  Signed(Unsigned(n, c), c) = Signed(n, c)
<1>1. Unsigned(n, c) \in Nat /\ Unsigned(n, c) < Span(c)
  BY UnsignedFacts
<1>2. Unsigned(Unsigned(n, c), c) = Unsigned(n, c)
  BY <1>1, UnsignedSame
<1> QED BY <1>1, <1>2, SameBytes

LEMMA UWordOfWord ==
  ASSUME NEW n \in Int
  PROVE  UWord(Word(n)) = UWord(n) /\ Word(n) \in Int /\ UWord(n) \in Nat
<1>1. WordBytes \in Length
  BY DEF WordBytes, Length
<1> QED BY <1>1, UnsignedOfSigned, SignedFacts, UnsignedFacts DEF UWord, Word

-----------------------------------------------------------------------------
(* The casts of the macros keep the values of the type a macro names, and  *)
(* the comparisons of 64-bit numbers compare those values.                 *)

LEMMA TypeFacts ==
  ASSUME NEW type \in IntTypes
  PROVE  /\ type.length \in Length /\ type.cast \in Length
         /\ type.range \in {"int", "uint", "hex", "char"}
         /\ type.range = "hex" => type.cast = type.length
         /\ type.length <= type.cast
<1>1. CASE type = INT
  BY <1>1 DEF INT, Type, IntBytes, WordBytes, Length
<1>2. CASE type = UINT
  BY <1>2 DEF UINT, Type, IntBytes, WordBytes, Length
<1>3. CASE type = CHAR
  BY <1>3 DEF CHAR, Type, Length
<1>4. ASSUME NEW range \in {"int", "uint", "hex"}, NEW length \in Length,
             type = Type(range, length)
      PROVE  /\ type.length = length /\ type.cast = length /\ type.range = range
  BY <1>4 DEF Type
<1> QED BY <1>1, <1>2, <1>3, <1>4 DEF IntTypes, Length

\* A value of a type with a sign is what the cast makes of a number; of one
\* without, it is what is left when the cast is read as a UNITY_UINT.
LEMMA CastFacts ==
  ASSUME NEW type \in IntTypes, NEW n \in Int
  PROVE  /\ Cast(type, n) \in Int /\ Value(type, n) \in Int
         /\ IsSigned(type) =>
              /\ Cast(type, n) = Value(type, n)
              /\ - Half(type.cast) <= Value(type, n) /\ Value(type, n) < Half(type.cast)
         /\ ~ IsSigned(type) =>
              /\ UWord(Cast(type, n)) = Value(type, n)
              /\ Cast(type, n) = Word(Value(type, n))
              /\ 0 <= Value(type, n) /\ Value(type, n) < Span(type.cast)
              /\ Cast(type, n) \in {Value(type, n), Value(type, n) - Span(8)}
<1>1. type.cast \in Length /\ 8 \in Length
  BY TypeFacts DEF Length
<1>2. CASE IsSigned(type)
  <2>1. Cast(type, n) = Signed(n, type.cast) /\ Value(type, n) = Signed(n, type.cast)
    BY <1>2 DEF Cast, Value
  <2> QED BY <1>1, <1>2, <2>1, SignedFacts
<1>3. CASE ~ IsSigned(type)
  <2> DEFINE u == Unsigned(n, type.cast)
  <2>1. Cast(type, n) = Word(u) /\ Value(type, n) = u
    BY <1>3 DEF Cast, Value
  <2>2. u \in Nat /\ u < Span(type.cast) /\ Span(type.cast) <= Span(8)
    BY <1>1, UnsignedFacts, SpanType
  <2> HIDE DEF u
  <2>3. Unsigned(u, 8) = u
    BY <1>1, <2>2, UnsignedSame, SpanType
  <2>4. UWord(Word(u)) = u /\ Word(u) \in Int
    BY <2>2, <2>3, UWordOfWord DEF UWord, WordBytes
  <2>5. Word(u) \in {u, u - Span(8)}
    BY <1>1, <2>2, <2>3, SignedFacts DEF Word, WordBytes
  <2> QED BY <1>3, <2>1, <2>2, <2>4, <2>5
<1> QED BY <1>2, <1>3

LEMMA CastsAgree ==
  ASSUME NEW type \in IntTypes, NEW x \in Int, NEW y \in Int
  PROVE  Cast(type, x) = Cast(type, y) <=> Value(type, x) = Value(type, y)
BY CastFacts

LEMMA CastEqualsAgree ==
  ASSUME NEW type \in IntTypes, NEW x \in Int, NEW y \in Int
  PROVE  CastEqual(type, x) = CastEqual(type, y) <=> Value(type, x) = Value(type, y)
<1>1. CASE type.range = "hex"
  <2>1. /\ CastEqual(type, x) = Signed(x, type.cast)
        /\ CastEqual(type, y) = Signed(y, type.cast)
    BY <1>1 DEF CastEqual
  <2>2. Value(type, x) = Unsigned(x, type.cast) /\ Value(type, y) = Unsigned(y, type.cast)
    BY <1>1 DEF Value, IsSigned
  <2> QED BY <2>1, <2>2, TypeFacts, SameBytes
<1>2. CASE type.range # "hex"
  BY <1>2, CastsAgree DEF CastEqual
<1> QED BY <1>1, <1>2

LEMMA LessIsLess ==
  ASSUME NEW type \in IntTypes, NEW x \in Int, NEW y \in Int
  PROVE  Less(type, Cast(type, x), Cast(type, y)) <=> Value(type, x) < Value(type, y)
BY CastFacts DEF Less

\* UnityAssertGreaterOrLessOrEqualNumber.
LEMMA ComparesRight ==
  ASSUME NEW type \in IntTypes, NEW compare \in Comparisons, NEW x \in Int, NEW y \in Int
  PROVE  Compares(type, compare, Cast(type, x), Cast(type, y))
           <=> Ordered(compare, Value(type, y), Value(type, x))
<1> DEFINE a == Value(type, x)
           b == Value(type, y)
<1>1. a \in Int /\ b \in Int
  BY CastFacts
<1>2. /\ Cast(type, x) = Cast(type, y) <=> a = b
      /\ Less(type, Cast(type, x), Cast(type, y)) <=> a < b
      /\ Less(type, Cast(type, y), Cast(type, x)) <=> b < a
  BY CastsAgree, LessIsLess
<1> HIDE DEF a, b
<1>3. Compares(type, compare, Cast(type, x), Cast(type, y)) <=>
        /\ a = b => "equal" \in compare
        /\ ~ ("smaller" \in compare /\ a < b)
        /\ ~ ("greater" \in compare /\ b < a)
  BY <1>2 DEF Compares
<1>4. Ordered(compare, b, a) <=>
        \/ "greater" \in compare /\ b > a
        \/ "smaller" \in compare /\ b < a
        \/ "equal" \in compare /\ b = a
        \/ compare = NOT_EQUAL /\ b # a
  BY DEF Ordered
<1>5. \/ compare = {} \/ compare = {"greater"} \/ compare = {"smaller"}
      \/ compare = {"greater", "equal"} \/ compare = {"smaller", "equal"}
  BY DEF Comparisons, NOT_EQUAL, GREATER_THAN, SMALLER_THAN, GREATER_OR_EQUAL,
         SMALLER_OR_EQUAL
<1>6. compare = NOT_EQUAL <=> compare = {}
  BY DEF NOT_EQUAL
<1> QED BY <1>1, <1>3, <1>4, <1>5, <1>6 DEF a, b

\* UnityAssertNumbersWithin: the distance of two values is less than the
\* span of their type, so the subtraction of UNITY_UINTs does not wrap.
LEMMA WithinRight ==
  ASSUME NEW type \in IntTypes, NEW delta \in Int, NEW x \in Int, NEW y \in Int
  PROVE  Apart(type, Cast(type, x), Cast(type, y)) <= Unsigned(delta, type.cast)
           <=> Near(type, delta, x, y)
<1> DEFINE a == Value(type, x)
           b == Value(type, y)
           s == Cast(type, x)
           t == Cast(type, y)
           d == IF a < b THEN b - a ELSE a - b
           c == type.cast
<1>1. c \in Length /\ 8 \in Length
  BY TypeFacts DEF Length
<1>2. /\ a \in Int /\ b \in Int /\ s \in Int /\ t \in Int
      /\ d \in Nat /\ d < Span(8) /\ Span(8) \in Nat
  <2>1. a \in Int /\ b \in Int /\ s \in Int /\ t \in Int
    BY CastFacts
  <2>2. /\ Span(c) \in Nat /\ Half(c) \in Nat /\ Span(c) = 2 * Half(c)
        /\ Span(c) <= Span(8) /\ Span(8) \in Nat
    BY <1>1, SpanType
  <2>3. \/ - Half(c) <= a /\ a < Half(c) /\ - Half(c) <= b /\ b < Half(c)
        \/ 0 <= a /\ a < Span(c) /\ 0 <= b /\ b < Span(c)
    BY CastFacts
  <2> HIDE DEF a, b, c, s, t
  <2> QED BY <2>1, <2>2, <2>3
<1>3. Less(type, s, t) <=> a < b
  BY LessIsLess
<1>4. /\ s \in {a, a - Span(8)} /\ t \in {b, b - Span(8)}
  BY CastFacts
<1> HIDE DEF a, b, s, t, c
<1>5. Apart(type, s, t) = d
  <2> DEFINE e == IF a < b THEN t - s ELSE s - t
             m == Span(8)
  <2>1. Apart(type, s, t) = UWord(e)
    BY <1>3 DEF Apart
  <2>2. e \in Int /\ (e = d \/ e = d + m \/ e = d - m)
    BY <1>2, <1>4
  <2>3. \E q \in Int : e = q * m + d
    <3> HIDE DEF e, m, d
    <3>1. /\ e = d => e = 0 * m + d
          /\ e = d + m => e = 1 * m + d
          /\ e = d - m => e = (-1) * m + d
      BY <1>2, <2>2 DEF m
    <3>2. 0 \in Int /\ 1 \in Int /\ -1 \in Int
      OBVIOUS
    <3> QED BY <2>2, <3>1, <3>2
  <2> HIDE DEF e, d
  <2>4. Unsigned(e, 8) = d
    BY <1>1, <1>2, <2>2, <2>3, UnsignedIs
  <2> QED BY <2>1, <2>4 DEF UWord, WordBytes
<1>6. Near(type, delta, x, y) <=> d <= Unsigned(delta, c)
  <2>1. Near(type, delta, x, y) <=>
          (IF a - b < 0 THEN - (a - b) ELSE a - b) <= Unsigned(delta, c)
    BY DEF Near, a, b, c
  <2>2. (IF a - b < 0 THEN - (a - b) ELSE a - b) = d
    BY <1>2
  <2> QED BY <2>1, <2>2
<1> QED BY <1>5, <1>6 DEF s, t, c

-----------------------------------------------------------------------------
(* Bits.                                                                   *)

LEMMA BitIs ==
  ASSUME NEW n, NEW k, NEW p, p = 2 ^ k
  PROVE  Bit(n, k) = (n \div p) % 2
BY DEF Bit

LEMMA BitsOfZero ==
  ASSUME NEW k \in Nat
  PROVE  Bit(0, k) = 0
<1>1. 2 ^ k \in Nat /\ 2 ^ k > 0
  BY PowerType
<1> DEFINE p == 2 ^ k
<1>2. p = 2 ^ k /\ p \in Nat /\ p > 0
  BY <1>1
<1> HIDE DEF p
<1>3. 0 = 0 * p + 0
  BY <1>2
<1>4. 0 \div p = 0
  BY <1>2, <1>3, DivisionUnique
<1>5. Bit(0, k) = (0 \div p) % 2
  BY <1>2, BitIs
<1> QED BY <1>4, <1>5

\* The bits of 2 ^ j: bit j and no other.
LEMMA BitsOfPower ==
  ASSUME NEW j \in Nat, NEW k \in Nat
  PROVE  Bit(2 ^ j, k) = IF k = j THEN 1 ELSE 0
<1> DEFINE p == 2 ^ k
           n == 2 ^ j
<1>1. p \in Nat /\ p > 0 /\ n \in Nat /\ n > 0
  BY PowerType
<1>5. Bit(n, k) = (n \div p) % 2
  BY BitIs
<1> SUFFICES Bit(n, k) = IF k = j THEN 1 ELSE 0
  OBVIOUS
<1>2. CASE k < j
  <2> DEFINE q == 2 ^ (j - k - 1)
  <2>1. j - k - 1 \in Nat /\ k + ((j - k - 1) + 1) = j
    BY <1>2
  <2>2. q \in Nat /\ n = p * (2 * q)
    <3>1. (j - k - 1) + 1 \in Nat /\ 2 ^ ((j - k - 1) + 1) = 2 * q
      BY <2>1, PowerSucc
    <3>2. 2 ^ (k + ((j - k - 1) + 1)) = p * 2 ^ ((j - k - 1) + 1)
      BY <2>1, <3>1, PowerSum
    <3> QED BY <2>1, <3>1, <3>2, PowerType
  <2> HIDE DEF p, n, q
  <2>3. n = (2 * q) * p + 0 /\ 2 * q \in Int
    BY <1>1, <2>2
  <2>4. n \div p = 2 * q
    BY <1>1, <2>3, DivisionUnique
  <2>5. (2 * q) % 2 = 0
    BY <2>2
  <2> QED BY <1>2, <1>5, <2>4, <2>5
<1>3. CASE k = j
  <2>1. n = p
    BY <1>3
  <2> HIDE DEF p, n
  <2>2. n = 1 * p + 0
    BY <1>1, <2>1
  <2>3. n \div p = 1
    BY <1>1, <2>2, DivisionUnique
  <2> QED BY <1>3, <1>5, <2>3
<1>4. CASE k > j
  <2>1. 2 * n <= p
    BY <1>4, PowerMonotonic
  <2> HIDE DEF p, n
  <2>2. n < p /\ n = 0 * p + n
    BY <1>1, <2>1
  <2>3. n \div p = 0
    BY <1>1, <2>2, DivisionUnique
  <2> QED BY <1>4, <1>5, <2>3
<1> QED BY <1>2, <1>3, <1>4

\* The bits of 2 ^ j - 1: all below j.
LEMMA BitsBelowPower ==
  ASSUME NEW j \in Nat, NEW k \in Nat, k < j
  PROVE  Bit(2 ^ j - 1, k) = 1
<1> DEFINE p == 2 ^ k
           n == 2 ^ j
           q == 2 ^ (j - k - 1)
<1>1. p \in Nat /\ p > 0 /\ n \in Nat /\ p = 2 ^ k
  BY PowerType
<1> SUFFICES Bit(n - 1, k) = 1
  OBVIOUS
<1>2. j - k - 1 \in Nat /\ k + ((j - k - 1) + 1) = j
  OBVIOUS
<1>3. q \in Nat /\ q > 0 /\ n = p * (2 * q)
  <2>1. (j - k - 1) + 1 \in Nat /\ 2 ^ ((j - k - 1) + 1) = 2 * q
    BY <1>2, PowerSucc
  <2>2. 2 ^ (k + ((j - k - 1) + 1)) = p * 2 ^ ((j - k - 1) + 1)
    BY <1>2, <2>1, PowerSum
  <2> QED BY <1>2, <2>1, <2>2, PowerType
<1> HIDE DEF p, n, q
<1>4. (n - 1) \div p = 2 * q - 1
  <2>1. n - 1 = (2 * q - 1) * p + (p - 1)
    BY <1>1, <1>3
  <2>2. n - 1 \in Int /\ 2 * q - 1 \in Int /\ p - 1 \in Nat /\ p - 1 < p
    BY <1>1, <1>3
  <2> QED BY <1>1, <2>1, <2>2, DivisionUnique
<1>5. (2 * q - 1) % 2 = 1
  BY <1>3
<1>6. Bit(n - 1, k) = ((n - 1) \div p) % 2
  BY <1>1, BitIs
<1> QED BY <1>4, <1>5, <1>6

\* A number below 2 ^ j has no bit from j on.
LEMMA NoBitAbove ==
  ASSUME NEW j \in Nat, NEW k \in Nat, j <= k, NEW n \in Nat, n < 2 ^ j
  PROVE  Bit(n, k) = 0
<1> DEFINE p == 2 ^ k
<1>1. p \in Nat /\ n < p /\ p = 2 ^ k
  BY PowerType, PowerMonotonic
<1> HIDE DEF p
<1>2. n = 0 * p + n
  BY <1>1
<1>3. n \div p = 0
  BY <1>1, <1>2, DivisionUnique
<1>4. Bit(n, k) = (n \div p) % 2
  BY <1>1, BitIs
<1> QED BY <1>3, <1>4

\* The casts of the BITS macros change no bit.
LEMMA BitsRight ==
  ASSUME NEW mask \in Int, NEW expected \in Int, NEW actual \in Int
  PROVE  EqualUnder(Word(mask), Word(expected), Word(actual))
           <=> EqualUnder(mask, expected, actual)
BY UWordOfWord DEF EqualUnder

LEMMA MessageBytes ==
  ASSUME NEW message \in BOOLEAN
  PROVE  /\ MaskBytes(message) \in Length
         /\ Bits(MaskBytes(message)) \in Nat /\ Bits(MaskBytes(message)) <= Bits(WordBytes)
         /\ Span(MaskBytes(message)) <= Span(8)
<1>1. MaskBytes(message) \in Length
  BY DEF MaskBytes, WordBytes, Length
<1> QED BY <1>1, BitsType, SpanType DEF Length, WordBytes

\* BITS_HIGH compares with all ones, in as many bits as the mask has.
LEMMA BitsHighRight ==
  ASSUME NEW mask \in Int, NEW actual \in Int, NEW message \in BOOLEAN,
         message => mask \in 0..(2 ^ Bits(MaskBytes(message)) - 1)
  PROVE  EqualUnder(mask, Unsigned(-1, MaskBytes(message)), actual)
           <=> BitsHold(mask, 1, actual)
<1> DEFINE c == MaskBytes(message)
           ones == Unsigned(-1, c)
<1>1. /\ c \in Length /\ 8 \in Length /\ Span(c) \in Nat /\ Span(c) > 0
      /\ Span(c) <= Span(8) /\ Bits(c) \in Nat
  BY MessageBytes, SpanType DEF Length
<1>2. ones = Span(c) - 1
  <2>1. -1 = (-1) * Span(c) + (Span(c) - 1) /\ Span(c) - 1 \in Nat /\ -1 \in Int
    BY <1>1
  <2> DEFINE r == Span(c) - 1
             q == -1
  <2>2. q \in Int /\ r \in Nat /\ r < Span(c) /\ q = q * Span(c) + r /\ q = -1 /\ c \in Length
    BY <1>1, <2>1
  <2> HIDE DEF c, r, q
  <2>3. Unsigned(q, c) = r
    BY <2>2, UnsignedIs
  <2> QED BY <2>2, <2>3 DEF r
<1>3. UWord(ones) = Span(c) - 1
  <2>1. ones \in Nat /\ ones < Span(8)
    <3> HIDE DEF ones, c
    <3>1. Span(8) \in Nat
      BY <1>1, SpanType
    <3> QED BY <1>1, <1>2, <3>1
  <2>2. Unsigned(ones, 8) = ones
    <3> HIDE DEF ones
    <3> QED BY <1>1, <2>1, UnsignedSame
  <2> QED BY <1>2, <2>2 DEF UWord, WordBytes
<1>4. ASSUME NEW k \in 0..(Bits(WordBytes) - 1), Bit(UWord(mask), k) = 1
      PROVE  Bit(UWord(ones), k) = 1
  <2>1. k \in Nat
    BY BitsType DEF WordBytes
  <2>2. k < Bits(c)
    <3>1. CASE message
      <4>1. mask \in 0..(Span(c) - 1)
        BY <3>1 DEF Span
      <4>2. mask \in Nat /\ mask < Span(c)
        <5> HIDE DEF c
        <5> QED BY <1>1, <4>1
      <4>3. UWord(mask) = mask
        <5> HIDE DEF c
        <5>1. mask < Span(8) /\ Span(8) \in Nat
          BY <1>1, <4>2, SpanType
        <5> QED BY <1>1, <4>2, <5>1, UnsignedSame DEF UWord, WordBytes
      <4>4. Bits(c) <= k => Bit(mask, k) = 0
        BY <1>1, <2>1, <4>2, NoBitAbove DEF Span
      <4> QED BY <1>1, <1>4, <2>1, <4>3, <4>4
    <3>2. CASE ~ message
      <4>1. c = WordBytes
        BY <3>2 DEF MaskBytes
      <4> QED BY <1>1, <4>1
    <3> QED BY <3>1, <3>2
  <2>3. Bit(2 ^ Bits(c) - 1, k) = 1
    BY <1>1, <2>1, <2>2, BitsBelowPower
  <2> QED BY <1>3, <2>3 DEF Span
<1> HIDE DEF ones
<1> QED BY <1>4 DEF EqualUnder, BitsHold, ones

LEMMA BitsLowRight ==
  ASSUME NEW mask \in Int, NEW actual \in Int
  PROVE  EqualUnder(mask, 0, actual) <=> BitsHold(mask, 0, actual)
<1>1. UWord(0) = 0
  <2>1. 0 < Span(8) /\ 8 \in Length
    BY SpanType DEF Length
  <2> QED BY <2>1, UnsignedSame DEF UWord, WordBytes
<1>2. \A k \in 0..(Bits(WordBytes) - 1) : Bit(UWord(0), k) = 0
  BY <1>1, BitsOfZero
<1> QED BY <1>2 DEF EqualUnder, BitsHold

\* The mask of the BIT macros selects one bit.
LEMMA OneBit ==
  ASSUME NEW message \in BOOLEAN, NEW bit \in 0..(Bits(MaskBytes(message)) - 1),
         NEW high, NEW actual \in Int
  PROVE  LET mask == Unsigned(2 ^ bit, MaskBytes(message)) IN
         /\ mask \in 0..(2 ^ Bits(MaskBytes(message)) - 1)
         /\ BitsHold(mask, high, actual) <=> Bit(UWord(actual), bit) = high
<1> DEFINE c == MaskBytes(message)
           mask == Unsigned(2 ^ bit, c)
<1>1. /\ c \in Length /\ Bits(c) \in Nat /\ Bits(c) <= Bits(WordBytes)
      /\ Span(c) <= Span(8) /\ 8 \in Length /\ Span(8) \in Nat /\ Span(c) \in Nat
  BY MessageBytes, SpanType DEF Length
<1>2. bit \in Nat /\ bit < Bits(c)
  BY <1>1
<1>3. 2 ^ bit \in Nat /\ 2 ^ bit > 0 /\ 2 ^ bit < Span(c)
  <2>1. 2 * 2 ^ bit <= 2 ^ Bits(c) /\ 2 ^ bit \in Nat /\ 2 ^ bit > 0
    BY <1>1, <1>2, PowerMonotonic, PowerType
  <2> QED BY <1>1, <2>1 DEF Span
<1> DEFINE n == 2 ^ bit
<1>4. mask = n /\ UWord(mask) = n
  <2> HIDE DEF n
  <2>1. n \in Nat /\ n < Span(c) /\ n < Span(8)
    BY <1>1, <1>3 DEF n
  <2>2. Unsigned(n, c) = n /\ Unsigned(n, 8) = n
    <3> HIDE DEF c
    <3> QED BY <1>1, <2>1, UnsignedSame
  <2>3. mask = n
    BY <2>2 DEF n
  <2> QED BY <2>2, <2>3 DEF UWord, WordBytes
<1>5. mask \in 0..(2 ^ Bits(c) - 1)
  <2> HIDE DEF mask
  <2> QED BY <1>1, <1>3, <1>4 DEF Span
<1>6. \A k \in 0..(Bits(WordBytes) - 1) : Bit(UWord(mask), k) = 1 <=> k = bit
  BY <1>2, <1>4, BitsOfPower
<1>7. bit \in 0..(Bits(WordBytes) - 1)
  <2>1. Bits(WordBytes) \in Nat
    BY BitsType DEF WordBytes
  <2> QED BY <1>1, <1>2, <2>1
<1> HIDE DEF mask
<1>8. BitsHold(mask, high, actual) <=> Bit(UWord(actual), bit) = high
  BY <1>6, <1>7 DEF BitsHold
<1> QED BY <1>5, <1>8 DEF mask


-----------------------------------------------------------------------------
(* Bytes: what the functions read of an array is what the test put there.  *)

\* The sum in Load.
BytesSum(at, offset, length) ==
  LET sum[k \in 0..length] ==
        IF k = 0 THEN 0 ELSE sum[k - 1] + at[offset + k] * 2 ^ Bits(k - 1)
  IN sum

\* Summing up the bytes of a number gives the number.
LEMMA SumOfBytes ==
  ASSUME NEW length \in Nat, NEW at, NEW offset \in Nat, NEW u \in Nat,
         \A k \in 1..length : at[offset + k] = (u \div 2 ^ Bits(k - 1)) % 2 ^ ByteBits
  PROVE  BytesSum(at, offset, length)[length] = u % 2 ^ Bits(length)
<1> DEFINE sum == BytesSum(at, offset, length)
           w == [k \in 0..length |-> u % 2 ^ Bits(k)]
           Step(f, k) == IF k = 0 THEN 0 ELSE f[k - 1] + at[offset + k] * 2 ^ Bits(k - 1)
           IsSum(f) == f = [k \in 0..length |-> Step(f, k)]
<1>1. u % 2 ^ Bits(0) = 0
  <2>1. Bits(0) = 0
    BY BitsType DEF Bits
  <2>2. 2 ^ 0 = 1 /\ u % 1 = 0
    OBVIOUS
  <2> QED BY <2>1, <2>2
<1>2. ASSUME NEW k \in 1..length
      PROVE  u % 2 ^ Bits(k) = (u % 2 ^ Bits(k - 1)) + at[offset + k] * 2 ^ Bits(k - 1)
  <2> DEFINE p == 2 ^ Bits(k - 1)
             b == 2 ^ ByteBits
  <2>1. k - 1 \in Nat /\ Bits(k - 1) \in Nat /\ ByteBits \in Nat
    BY BitsType
  <2>2. p \in Nat /\ p > 0 /\ b \in Nat /\ b > 0
    BY <2>1, PowerType
  <2>3. 2 ^ Bits(k) = p * b
    <3>1. Bits(k) = Bits(k - 1) + ByteBits
      BY <2>1 DEF Bits
    <3> QED BY <2>1, <3>1, PowerSum
  <2>4. at[offset + k] = (u \div p) % b
    OBVIOUS
  <2> HIDE DEF p, b
  <2>5. u % (p * b) = (u % p) + ((u \div p) % b) * p
    BY <2>2, OneMoreDigit
  <2>6. u % 2 ^ Bits(k) = (u % p) + at[offset + k] * p
    BY <2>3, <2>4, <2>5
  <2> QED BY <2>6 DEF p
<1>3. IsSum(w)
  <2>1. ASSUME NEW k \in 0..length PROVE w[k] = Step(w, k)
    <3>1. CASE k = 0
      BY <1>1, <3>1
    <3>2. CASE k # 0
      <4>1. k \in 1..length /\ k - 1 \in 0..length
        BY <3>2
      <4> QED BY <1>2, <3>2, <4>1
    <3> QED BY <3>1, <3>2
  <2>2. w = [k \in 0..length |-> w[k]]
    OBVIOUS
  <2> HIDE DEF w, Step
  <2> QED BY <2>1, <2>2
<1>4. IsSum(sum)
  <2>1. sum = CHOOSE f : IsSum(f)
    BY DEF BytesSum
  <2> HIDE DEF IsSum, sum
  <2> QED BY <1>3, <2>1
<1> HIDE DEF sum
<1> DEFINE Wrong == {k \in 0..length : sum[k] # u % 2 ^ Bits(k)}
<1>5. Wrong = {}
  <2> SUFFICES ASSUME Wrong # {} PROVE FALSE
    OBVIOUS
  <2>1. PICK k \in Wrong : \A j \in Wrong : k <= j
    <3>1. Wrong \subseteq Nat
      OBVIOUS
    <3> HIDE DEF Wrong
    <3> QED BY <3>1, SmallestExists
  <2>2. k \in 0..length /\ sum[k] = Step(sum, k)
    BY <1>4
  <2>3. k # 0
    <3>1. k = 0 => sum[k] = 0
      BY <2>2
    <3> QED BY <1>1, <3>1
  <2>4. k \in 1..length /\ k - 1 \in 0..length /\ k - 1 \notin Wrong
    BY <2>1, <2>2, <2>3
  <2>5. sum[k - 1] = u % 2 ^ Bits(k - 1)
    BY <2>4
  <2>6. sum[k] = u % 2 ^ Bits(k)
    BY <1>2, <2>2, <2>3, <2>4, <2>5
  <2> QED BY <2>6
<1>6. length \in 0..length
  OBVIOUS
<1> QED BY <1>5, <1>6 DEF sum

\* What Load makes of the bytes of a number, as far as its length goes.
LEMMA LoadBytes ==
  ASSUME NEW style, style.length \in Length, NEW pointer, NEW offset \in Nat, NEW n \in Int,
         \A k \in 1..style.length :
           pointer.at[offset + k] = BytesOf(n, style.length)[k]
  PROVE  Load(pointer, offset, style) =
           IF IsSigned(style) THEN Signed(n, style.length)
           ELSE Word(Unsigned(n, style.length))
<1> DEFINE L == style.length
           u == Unsigned(n, L)
           at == pointer.at
           sum == BytesSum(at, offset, L)
<1>1. L \in Nat /\ L \in Length /\ u \in Nat /\ u < Span(L)
  <2>1. L \in Length /\ L \in Nat
    BY DEF Length
  <2> HIDE DEF L
  <2> QED BY <2>1, UnsignedFacts
<1>2. \A k \in 1..L : at[offset + k] = (u \div 2 ^ Bits(k - 1)) % 2 ^ ByteBits
  BY DEF BytesOf
<1>3. sum[L] = u % 2 ^ Bits(L)
  <2> HIDE DEF u, at, L
  <2> QED BY <1>1, <1>2, SumOfBytes
<1>4. u % 2 ^ Bits(L) = u
  <2>1. Unsigned(u, L) = u
    BY <1>1, UnsignedSame
  <2> QED BY <2>1 DEF Unsigned
<1>5. Load(pointer, offset, style) = IF IsSigned(style) THEN Signed(sum[L], L) ELSE Word(sum[L])
  BY DEF Load, BytesSum
<1>6. Signed(u, L) = Signed(n, L)
  BY <1>1, SignedOfUnsigned
<1> HIDE DEF sum, u, L
<1> QED BY <1>3, <1>4, <1>5, <1>6 DEF u, L

\* The bytes of an array are those of its elements, one after the other.
LEMMA BytesOfArray ==
  ASSUME NEW cells \in Seq(Int), NEW L \in Length, NEW i \in 0..(Len(cells) - 1),
         NEW k \in 1..L
  PROVE  /\ i * L + k \in 1..(L * Len(cells))
         /\ ArrayBytes(cells, L)[i * L + k] = BytesOf(cells[i + 1], L)[k]
<1>1. Len(cells) \in Nat /\ L \in Nat /\ L > 0
  BY LenProperties DEF Length
<1> DEFINE j == i * L + k
<1>2. j \in 1..(L * Len(cells)) /\ j \in Int
  <2>1. i * L + L <= L * Len(cells) /\ i * L >= 0 /\ i * L \in Int /\ L * Len(cells) \in Int
    BY <1>1 DEF Length
  <2> QED BY <1>1, <2>1
<1>3. (j - 1) \div L = i /\ (j - 1) % L = k - 1
  <2> DEFINE a == j - 1
             b == k - 1
  <2>1. a = i * L + b /\ b \in Nat /\ b < L /\ a \in Int /\ i \in Int
    BY <1>1, <1>2
  <2> HIDE DEF j, a, b
  <2>2. a \div L = i /\ a % L = b
    BY <1>1, <2>1, DivisionUnique
  <2> QED BY <2>2 DEF a, b
<1> HIDE DEF j
<1>4. ArrayBytes(cells, L)[j] = BytesOf(cells[(j - 1) \div L + 1], L)[((j - 1) % L) + 1]
  BY <1>2 DEF ArrayBytes
<1>5. (k - 1) + 1 = k
  OBVIOUS
<1> QED BY <1>2, <1>3, <1>4, <1>5 DEF j

LEMMA SignedSame ==
  ASSUME NEW c \in Length, NEW n \in Int, - Half(c) <= n, n < Half(c)
  PROVE  Signed(n, c) = n
<1> DEFINE h == Half(c)
           m == Span(c)
           u == Unsigned(n, c)
<1>1. h \in Nat /\ m \in Nat /\ m = 2 * h
  BY SpanType
<1>2. /\ u < h => Signed(n, c) = u
      /\ u >= h => Signed(n, c) = u - m
  BY SignedFacts
<1>3. CASE n >= 0
  <2>1. u = n
    <3>1. n \in Nat /\ n < Span(c)
      BY <1>1, <1>3
    <3> QED BY <3>1, UnsignedSame
  <2> HIDE DEF h, m, u
  <2> QED BY <1>2, <2>1 DEF h
<1>4. CASE n < 0
  <2> DEFINE r == n + m
  <2>1. u = r
    <3>1. n = (-1) * Span(c) + r /\ r \in Nat /\ r < Span(c)
      <4> HIDE DEF h
      <4> QED BY <1>1, <1>4 DEF h
    <3>2. -1 \in Int
      OBVIOUS
    <3> HIDE DEF r
    <3> QED BY <3>1, <3>2, UnsignedIs
  <2>2. r >= h /\ r - m = n
    BY <1>1, <1>4
  <2> HIDE DEF h, m, u, r
  <2> QED BY <1>2, <2>1, <2>2
<1> QED BY <1>3, <1>4

\* A number an array holds is, cast, what its bytes are read as.
LEMMA FitsCast ==
  ASSUME NEW type \in IntTypes, NEW n \in Int, Fits(type, n)
  PROVE  Cast(type, n) = IF IsSigned(type) THEN Signed(n, type.length)
                         ELSE Word(Unsigned(n, type.length))
<1> DEFINE L == type.length
           C == type.cast
<1>1. L \in Length /\ C \in Length /\ L \in Nat /\ C \in Nat /\ L <= C
  BY TypeFacts DEF Length
<1>2. CASE C = L
  BY <1>2 DEF Cast
<1>3. CASE C # L /\ IsSigned(type)
  <2>1. n = Signed(n, L)
    BY <1>3 DEF Fits
  <2>2. - Half(L) <= n /\ n < Half(L) /\ Half(L) \in Nat /\ Half(C) \in Nat
    BY <1>1, <2>1, SignedFacts, SpanType
  <2>3. Half(L) <= Half(C)
    <3>1. Bits(L) \in Nat /\ Bits(L) > 0 /\ Bits(C) \in Nat /\ Bits(L) <= Bits(C)
      BY <1>1, BitsType DEF Bits, Length
    <3>2. Bits(L) - 1 \in Nat /\ Bits(C) - 1 \in Nat /\ Bits(L) - 1 <= Bits(C) - 1
      BY <3>1
    <3> QED BY <3>2, PowerMonotonic DEF Half
  <2>4. - Half(C) <= n /\ n < Half(C)
    <3> HIDE DEF L, C
    <3> QED BY <2>2, <2>3
  <2>5. Signed(n, C) = n
    BY <1>1, <2>4, SignedSame
  <2> QED BY <1>3, <2>1, <2>5 DEF Cast
<1>4. CASE C # L /\ ~ IsSigned(type)
  <2>1. n = Unsigned(n, L)
    BY <1>4 DEF Fits
  <2>2. n \in Nat /\ n < Span(L) /\ Span(L) \in Nat /\ Span(C) \in Nat
    BY <1>1, <2>1, UnsignedFacts, SpanType
  <2>3. Span(L) <= Span(C)
    <3>1. Bits(L) \in Nat /\ Bits(C) \in Nat /\ Bits(L) <= Bits(C)
      BY <1>1, BitsType DEF Bits, Length
    <3> QED BY <3>1, PowerMonotonic DEF Span
  <2>4. n < Span(C)
    <3> HIDE DEF L, C
    <3> QED BY <2>2, <2>3
  <2>5. Unsigned(n, C) = n
    BY <1>1, <2>2, <2>4, UnsignedSame
  <2> QED BY <1>4, <2>1, <2>5 DEF Cast
<1> QED BY <1>2, <1>3, <1>4

\* An element read through the pointer of an array macro.
LEMMA LoadElement ==
  ASSUME NEW type \in IntTypes, NEW cells \in Seq(Int), NEW i \in 0..(Len(cells) - 1),
         Fits(type, cells[i + 1]),
         NEW pointer, pointer.at = ArrayBytes(cells, type.length)
  PROVE  Load(pointer, i * type.length, type) = Cast(type, cells[i + 1])
<1> DEFINE L == type.length
           n == cells[i + 1]
           offset == i * L
<1>1. L \in Length /\ L \in Nat
  BY TypeFacts DEF Length
<1>2. n \in Int /\ offset \in Nat
  <2>1. Len(cells) \in Nat /\ i \in Nat
    BY LenProperties
  <2>2. i + 1 \in 1..Len(cells)
    BY <2>1
  <2>3. i * L \in Nat
    <3> HIDE DEF L
    <3> QED BY <1>1, <2>1
  <2> QED BY <2>2, <2>3, ElementOfSeq
<1>3. \A k \in 1..L : pointer.at[offset + k] = BytesOf(n, L)[k]
  BY <1>1, BytesOfArray
<1> HIDE DEF offset, n
<1>4. Load(pointer, offset, type) =
        IF IsSigned(type) THEN Signed(n, L) ELSE Word(Unsigned(n, L))
  BY <1>1, <1>2, <1>3, LoadBytes
<1> QED BY <1>2, <1>4, FitsCast DEF n, offset

\* Leaving high bytes out of a number of 64 bits.
LEMMA UnsignedOfWord ==
  ASSUME NEW c \in Length, NEW n \in Nat, n < Span(c)
  PROVE  Unsigned(Word(n), c) = n /\ Word(n) \in Int
<1>1. Word(n) \in {n, n - Span(8)}
  <2>1. 8 \in Length /\ n < Span(8) /\ Span(c) \in Nat /\ Span(8) \in Nat
    BY SpanType DEF Length
  <2>2. Unsigned(n, 8) = n
    BY <2>1, UnsignedSame
  <2> QED BY <2>1, <2>2, SignedFacts DEF Word, WordBytes
<1>2. Bits(c) \in Nat /\ Bits(8) \in Nat /\ Bits(c) <= Bits(8)
  BY BitsType DEF Length
<1> DEFINE q == 2 ^ (Bits(8) - Bits(c))
           m == Span(c)
           w == Span(8)
           v == Word(n)
<1>3. m \in Nat /\ q \in Nat /\ w = m * q
  <2>1. Bits(8) - Bits(c) \in Nat /\ Bits(c) + (Bits(8) - Bits(c)) = Bits(8)
    BY <1>2
  <2>2. 2 ^ (Bits(c) + (Bits(8) - Bits(c))) = 2 ^ Bits(c) * 2 ^ (Bits(8) - Bits(c))
    BY <1>2, <2>1, PowerSum
  <2> QED BY <1>2, <2>1, <2>2, PowerType DEF Span
<1>4. v \in {n, n - w}
  BY <1>1
<1> HIDE DEF q, m, w, v
<1>5. v \in Int
  BY <1>3, <1>4
<1>6. \E d \in Int : v = d * m + n
  <2>1. v = n => v = 0 * m + n
    BY <1>3
  <2>2. v = n - w => v = (- q) * m + n
    BY <1>3
  <2>3. 0 \in Int /\ - q \in Int
    BY <1>3
  <2> QED BY <1>4, <2>1, <2>2, <2>3
<1>7. Unsigned(v, c) = n
  BY <1>5, <1>6, UnsignedIs DEF m
<1> QED BY <1>5, <1>7 DEF v

\* The single expected number of EACH_EQUAL, read from UnityQuickCompare.
LEMMA LoadNumber ==
  ASSUME NEW type \in IntTypes, NEW n \in Int, Fits(type, n),
         NEW pointer, pointer.at = BytesOf(CastEqual(type, n), type.length)
  PROVE  Load(pointer, 0, type) = Cast(type, n)
<1> DEFINE L == type.length
           C == type.cast
           v == CastEqual(type, n)
<1>1. L \in Length /\ C \in Length /\ L \in Nat
  BY TypeFacts DEF Length
<1>2. v \in Int /\ Unsigned(v, L) = Unsigned(n, L)
  <2>1. CASE C = L /\ (IsSigned(type) \/ type.range = "hex")
    <3>1. v = Signed(n, L)
      BY <2>1 DEF CastEqual, Cast
    <3> QED BY <1>1, <3>1, UnsignedOfSigned, SignedFacts
  <2>2. CASE C = L /\ ~ IsSigned(type) /\ type.range # "hex"
    <3>1. v = Word(Unsigned(n, L))
      BY <2>2 DEF CastEqual, Cast
    <3>2. Unsigned(n, L) \in Nat /\ Unsigned(n, L) < Span(L)
      BY <1>1, UnsignedFacts
    <3> QED BY <1>1, <3>1, <3>2, UnsignedOfWord
  <2>3. CASE C # L
    <3>1. type.range # "hex" /\ v = Cast(type, n)
      BY <2>3, TypeFacts DEF CastEqual
    <3>2. CASE IsSigned(type)
      <4>1. v = Signed(n, L)
        BY <3>1, <3>2, FitsCast
      <4> QED BY <1>1, <4>1, UnsignedOfSigned, SignedFacts
    <3>3. CASE ~ IsSigned(type)
      <4>1. v = Word(Unsigned(n, L))
        BY <3>1, <3>3, FitsCast
      <4>2. Unsigned(n, L) \in Nat /\ Unsigned(n, L) < Span(L)
        BY <1>1, UnsignedFacts
      <4> QED BY <1>1, <4>1, <4>2, UnsignedOfWord
    <3> QED BY <3>2, <3>3
  <2> QED BY <2>1, <2>2, <2>3
<1>3. \A k \in 1..L : pointer.at[0 + k] = BytesOf(v, L)[k]
  OBVIOUS
<1>4. Load(pointer, 0, type) =
        IF IsSigned(type) THEN Signed(v, L) ELSE Word(Unsigned(v, L))
  <2> HIDE DEF v
  <2> QED BY <1>1, <1>2, <1>3, LoadBytes
<1>5. Signed(v, L) = Signed(n, L)
  BY <1>1, <1>2, SameBytes
<1> QED BY <1>2, <1>4, <1>5, FitsCast

-----------------------------------------------------------------------------
(* The calls the macros expand to.                                         *)

BitNames == {"BITS", "BITS_HIGH", "BITS_LOW", "BIT_HIGH", "BIT_LOW"}
NumbersNames == {"EQUAL_ARRAY", "EACH_EQUAL", "ARRAY_WITHIN"}
StringNames == {"EQUAL_STRING", "EQUAL_STRING_LEN"}
StringsNames == {"EQUAL_STRING_ARRAY", "EACH_EQUAL_STRING"}

LEMMA Names ==
  ASSUME NEW m \in Macros
  PROVE  /\ IsUse(m)
         /\ m.name \in {"EQUAL", "COMPARE", "WITHIN", "EQUAL_MEMORY"} \cup BitNames
              \cup NumbersNames \cup StringNames \cup StringsNames
<1>1. IsUse(m)
  BY MacrosAssumption
<1> QED BY <1>1 DEF IsUse, BitNames, NumbersNames, StringNames, StringsNames

\* The calls with numbers.
LEMMA NumberCall ==
  ASSUME NEW m \in Macros
  PROVE  /\ m.name = "EQUAL" =>
              CallOf(m) = [fn |-> "EqualNumber", style |-> m.type,
                           expected |-> CastEqual(m.type, m.expected),
                           actual |-> CastEqual(m.type, m.actual)]
         /\ m.name = "COMPARE" =>
              CallOf(m) = [fn |-> "GreaterOrLess", style |-> m.type, compare |-> m.compare,
                           expected |-> Cast(m.type, m.expected),
                           actual |-> Cast(m.type, m.actual)]
         /\ m.name = "WITHIN" =>
              CallOf(m) = [fn |-> "NumbersWithin", style |-> m.type,
                           delta |-> Unsigned(m.delta, m.type.cast),
                           expected |-> Cast(m.type, m.expected),
                           actual |-> Cast(m.type, m.actual)]
<1>1. m.name = "EQUAL" => CallOf(m) = EQUAL(m.type, m.expected, m.actual)
  BY DEF CallOf
<1>2. m.name = "COMPARE" => CallOf(m) = COMPARE(m.type, m.compare, m.expected, m.actual)
  BY DEF CallOf
<1>3. m.name = "WITHIN" => CallOf(m) = WITHIN(m.type, m.delta, m.expected, m.actual)
  BY DEF CallOf
<1> QED BY <1>1, <1>2, <1>3 DEF EQUAL, COMPARE, WITHIN

\* The mask and the expected bits of the macros about bits, before the casts.
MaskOf(m) ==
  IF m.name \in {"BIT_HIGH", "BIT_LOW"} THEN Unsigned(2 ^ m.bit, MaskBytes(m.message))
  ELSE m.mask
BitsOf(m) ==
  CASE m.name = "BITS" -> m.expected
    [] m.name \in {"BITS_HIGH", "BIT_HIGH"} -> Unsigned(-1, MaskBytes(m.message))
    [] m.name \in {"BITS_LOW", "BIT_LOW"} -> 0

LEMMA BitsCall ==
  ASSUME NEW m \in Macros, m.name \in BitNames
  PROVE  CallOf(m) = [fn |-> "Bits", mask |-> Word(MaskOf(m)), expected |-> Word(BitsOf(m)),
                      actual |-> Word(m.actual)]
<1>1. CASE m.name = "BITS"
  <2>1. CallOf(m) = BITS(m.mask, m.expected, m.actual)
    BY <1>1 DEF CallOf
  <2> QED BY <1>1, <2>1 DEF BITS, MaskOf, BitsOf
<1>2. CASE m.name = "BITS_HIGH"
  <2>1. CallOf(m) = BITS_HIGH(m.mask, m.actual, m.message)
    BY <1>2 DEF CallOf
  <2> QED BY <1>2, <2>1 DEF BITS_HIGH, BITS, MaskOf, BitsOf
<1>3. CASE m.name = "BITS_LOW"
  <2>1. CallOf(m) = BITS_LOW(m.mask, m.actual, m.message)
    BY <1>3 DEF CallOf
  <2> QED BY <1>3, <2>1 DEF BITS_LOW, BITS, MaskOf, BitsOf
<1>4. CASE m.name = "BIT_HIGH"
  <2>1. CallOf(m) = BIT_HIGH(m.bit, m.actual, m.message)
    BY <1>4 DEF CallOf
  <2> QED BY <1>4, <2>1 DEF BIT_HIGH, BITS_HIGH, BITS, MaskOf, BitsOf
<1>5. CASE m.name = "BIT_LOW"
  <2>1. CallOf(m) = BIT_LOW(m.bit, m.actual, m.message)
    BY <1>5 DEF CallOf
  <2> QED BY <1>5, <2>1 DEF BIT_LOW, BITS_LOW, BITS, MaskOf, BitsOf
<1> QED BY <1>1, <1>2, <1>3, <1>4, <1>5 DEF BitNames

\* The calls with arrays of numbers.
LEMMA NumbersCall ==
  ASSUME NEW m \in Macros, m.name \in NumbersNames, NEW c, c = CallOf(m)
  PROVE  /\ c.fn = IF m.name = "ARRAY_WITHIN" THEN "ArrayWithin" ELSE "EqualIntArray"
         /\ c.style = m.type /\ c.num = m.num
         /\ c.flags = IF m.name = "EACH_EQUAL" THEN "ARRAY_TO_VAL" ELSE "ARRAY_TO_ARRAY"
         /\ c.actual = Pointer(m.actual, m.type)
         /\ c.expected = IF m.name = "EACH_EQUAL"
                         THEN NumToPtr(CastEqual(m.type, m.expected), m.type.length)
                         ELSE Pointer(m.expected, m.type)
         /\ m.name = "ARRAY_WITHIN" => c.delta = Unsigned(m.delta, m.type.cast)
<1>1. CASE m.name = "EQUAL_ARRAY"
  <2>1. c = EQUAL_ARRAY(m.type, Pointer(m.expected, m.type), Pointer(m.actual, m.type), m.num)
    BY <1>1 DEF CallOf
  <2> QED BY <1>1, <2>1 DEF EQUAL_ARRAY
<1>2. CASE m.name = "EACH_EQUAL"
  <2>1. c = EACH_EQUAL(m.type, m.expected, Pointer(m.actual, m.type), m.num)
    BY <1>2 DEF CallOf
  <2> QED BY <1>2, <2>1 DEF EACH_EQUAL, EQUAL_ARRAY
<1>3. CASE m.name = "ARRAY_WITHIN"
  <2>1. c = ARRAY_WITHIN(m.type, m.delta, Pointer(m.expected, m.type),
                         Pointer(m.actual, m.type), m.num)
    BY <1>3 DEF CallOf
  <2> QED BY <1>3, <2>1 DEF ARRAY_WITHIN
<1> QED BY <1>1, <1>2, <1>3 DEF NumbersNames

\* The calls with strings.
LEMMA StringCall ==
  ASSUME NEW m \in Macros, m.name \in StringNames, NEW c, c = CallOf(m)
  PROVE  /\ c.fn = IF m.name = "EQUAL_STRING" THEN "EqualString" ELSE "EqualStringLen"
         /\ c.expected = m.expected /\ c.actual = m.actual
         /\ m.name = "EQUAL_STRING_LEN" => c.length = m.length
<1>1. CASE m.name = "EQUAL_STRING"
  <2>1. c = EQUAL_STRING(m.expected, m.actual)
    BY <1>1 DEF CallOf
  <2> QED BY <1>1, <2>1 DEF EQUAL_STRING
<1>2. CASE m.name = "EQUAL_STRING_LEN"
  <2>1. c = EQUAL_STRING_LEN(m.expected, m.actual, m.length)
    BY <1>2 DEF CallOf
  <2> QED BY <1>2, <2>1 DEF EQUAL_STRING_LEN
<1> QED BY <1>1, <1>2 DEF StringNames

\* The calls with arrays of strings.
LEMMA StringsCall ==
  ASSUME NEW m \in Macros, m.name \in StringsNames, NEW c, c = CallOf(m)
  PROVE  /\ c.fn = "EqualStringArray" /\ c.num = m.num
         /\ c.flags = IF m.name = "EACH_EQUAL_STRING" THEN "ARRAY_TO_VAL" ELSE "ARRAY_TO_ARRAY"
         /\ c.actual = Cells(m.actual)
         /\ c.expected = IF m.name = "EACH_EQUAL_STRING" THEN StringPointer(m.expected)
                         ELSE Cells(m.expected)
<1>1. CASE m.name = "EQUAL_STRING_ARRAY"
  <2>1. c = EQUAL_STRING_ARRAY(Cells(m.expected), Cells(m.actual), m.num)
    BY <1>1 DEF CallOf
  <2> QED BY <1>1, <2>1 DEF EQUAL_STRING_ARRAY
<1>2. CASE m.name = "EACH_EQUAL_STRING"
  <2>1. c = EACH_EQUAL_STRING(StringPointer(m.expected), Cells(m.actual), m.num)
    BY <1>2 DEF CallOf
  <2> QED BY <1>2, <2>1 DEF EACH_EQUAL_STRING, EQUAL_STRING_ARRAY
<1> QED BY <1>1, <1>2 DEF StringsNames

\* The calls with memory.
LEMMA MemoryCall ==
  ASSUME NEW m \in Macros, m.name = "EQUAL_MEMORY", NEW c, c = CallOf(m)
  PROVE  /\ c.fn = "EqualMemory" /\ c.num = m.num /\ c.length = m.length /\ c.flags = m.flags
         /\ c.actual = Cells(m.actual) /\ c.expected = Cells(m.expected)
<1>1. c = EQUAL_MEMORY(Cells(m.expected), Cells(m.actual), m.length, m.num, m.flags)
  BY DEF CallOf
<1> QED BY <1>1 DEF EQUAL_MEMORY

\* Which function a macro calls.
LEMMA FunctionOf ==
  ASSUME NEW m \in Macros, NEW c, c = CallOf(m)
  PROVE  /\ c.fn = "Bits" <=> m.name \in BitNames
         /\ c.fn = "EqualNumber" <=> m.name = "EQUAL"
         /\ c.fn = "GreaterOrLess" <=> m.name = "COMPARE"
         /\ c.fn = "NumbersWithin" <=> m.name = "WITHIN"
         /\ c.fn \in {"EqualIntArray", "ArrayWithin"} <=> m.name \in NumbersNames
         /\ c.fn = "ArrayWithin" <=> m.name = "ARRAY_WITHIN"
         /\ c.fn = "EqualString" <=> m.name = "EQUAL_STRING"
         /\ c.fn = "EqualStringLen" <=> m.name = "EQUAL_STRING_LEN"
         /\ c.fn = "EqualStringArray" <=> m.name \in StringsNames
         /\ c.fn = "EqualMemory" <=> m.name = "EQUAL_MEMORY"
<1>1. m.name \in BitNames => c.fn = "Bits"
  BY BitsCall
<1>2. /\ m.name = "EQUAL" => c.fn = "EqualNumber"
      /\ m.name = "COMPARE" => c.fn = "GreaterOrLess"
      /\ m.name = "WITHIN" => c.fn = "NumbersWithin"
  BY NumberCall
<1>3. m.name \in NumbersNames =>
        c.fn = IF m.name = "ARRAY_WITHIN" THEN "ArrayWithin" ELSE "EqualIntArray"
  BY NumbersCall
<1>4. m.name \in StringNames =>
        c.fn = IF m.name = "EQUAL_STRING" THEN "EqualString" ELSE "EqualStringLen"
  BY StringCall
<1>5. /\ m.name \in StringsNames => c.fn = "EqualStringArray"
      /\ m.name = "EQUAL_MEMORY" => c.fn = "EqualMemory"
  BY StringsCall, MemoryCall
<1> QED BY <1>1, <1>2, <1>3, <1>4, <1>5, Names
      DEF BitNames, NumbersNames, StringNames, StringsNames

-----------------------------------------------------------------------------
(* The functions without a loop decide what their macros promise.          *)

LEMMA BitsAre ==
  ASSUME NEW m \in Macros, m.name \in BitNames
  PROVE  MaskOf(m) \in Int /\ BitsOf(m) \in Int /\ m.actual \in Int
<1>1. IsUse(m)
  BY Names
<1>2. m.name \in {"BITS_HIGH", "BIT_HIGH", "BITS_LOW", "BIT_LOW"} =>
        /\ m.message \in BOOLEAN
        /\ Unsigned(-1, MaskBytes(m.message)) \in Int
  <2>1. ASSUME m.name \in {"BITS_HIGH", "BIT_HIGH", "BITS_LOW", "BIT_LOW"}
        PROVE  m.message \in BOOLEAN
    BY <1>1, <2>1 DEF IsUse
  <2>2. ASSUME m.message \in BOOLEAN PROVE Unsigned(-1, MaskBytes(m.message)) \in Int
    BY <2>2, MessageBytes, UnsignedFacts
  <2> QED BY <2>1, <2>2
<1>3. CASE m.name \in {"BIT_HIGH", "BIT_LOW"}
  <2>1. m.bit \in 0..(Bits(MaskBytes(m.message)) - 1) /\ m.actual \in Int
    BY <1>1, <1>3 DEF IsUse
  <2>2. MaskBytes(m.message) \in Length /\ Bits(MaskBytes(m.message)) \in Nat
    BY <1>2, <1>3, MessageBytes
  <2>3. 2 ^ m.bit \in Int
    <3>1. m.bit \in Nat
      BY <2>1, <2>2
    <3> QED BY <3>1, PowerType
  <2>4. Unsigned(2 ^ m.bit, MaskBytes(m.message)) \in Int
    BY <2>2, <2>3, UnsignedFacts
  <2> QED BY <1>2, <1>3, <2>1, <2>4 DEF MaskOf, BitsOf
<1>4. CASE m.name \in {"BITS", "BITS_HIGH", "BITS_LOW"}
  <2>1. m.mask \in Int /\ m.actual \in Int /\ (m.name = "BITS" => m.expected \in Int)
    BY <1>1, <1>4 DEF IsUse
  <2> QED BY <1>2, <1>4, <2>1 DEF MaskOf, BitsOf
<1> QED BY <1>3, <1>4 DEF BitNames

LEMMA BitsVerdict ==
  ASSUME NEW m \in Macros, m.name \in BitNames, NEW c, c = CallOf(m)
  PROVE  EqualUnder(c.mask, c.expected, c.actual) <=>
           CASE m.name = "BITS" -> EqualUnder(m.mask, m.expected, m.actual)
             [] m.name = "BITS_HIGH" -> BitsHold(m.mask, 1, m.actual)
             [] m.name = "BITS_LOW" -> BitsHold(m.mask, 0, m.actual)
             [] m.name = "BIT_HIGH" -> Bit(UWord(m.actual), m.bit) = 1
             [] m.name = "BIT_LOW" -> Bit(UWord(m.actual), m.bit) = 0
<1> DEFINE mask == MaskOf(m)
           expected == BitsOf(m)
<1>1. IsUse(m)
  BY Names
<1>2. c.mask = Word(mask) /\ c.expected = Word(expected) /\ c.actual = Word(m.actual)
  BY BitsCall
<1>3. m.name \in {"BITS_HIGH", "BIT_HIGH", "BITS_LOW", "BIT_LOW"} =>
        /\ m.message \in BOOLEAN
        /\ Unsigned(-1, MaskBytes(m.message)) \in Int
  <2>1. ASSUME m.name \in {"BITS_HIGH", "BIT_HIGH", "BITS_LOW", "BIT_LOW"}
        PROVE  m.message \in BOOLEAN
    BY <1>1, <2>1 DEF IsUse
  <2>2. ASSUME m.message \in BOOLEAN PROVE Unsigned(-1, MaskBytes(m.message)) \in Int
    BY <2>2, MessageBytes, UnsignedFacts
  <2> QED BY <2>1, <2>2
<1>4. m.name \in {"BIT_HIGH", "BIT_LOW"} =>
        m.bit \in 0..(Bits(MaskBytes(m.message)) - 1) /\ m.actual \in Int
  BY <1>1 DEF IsUse
<1>5. m.name \in {"BIT_HIGH", "BIT_LOW"} =>
        /\ mask \in 0..(2 ^ Bits(MaskBytes(m.message)) - 1)
        /\ \A high \in {0, 1} :
             BitsHold(mask, high, m.actual) <=> Bit(UWord(m.actual), m.bit) = high
  BY <1>3, <1>4, OneBit DEF MaskOf
<1>6. mask \in Int /\ expected \in Int /\ m.actual \in Int
  BY BitsAre
<1>7. EqualUnder(c.mask, c.expected, c.actual) <=> EqualUnder(mask, expected, m.actual)
  <2> HIDE DEF mask, expected
  <2> QED BY <1>2, <1>6, BitsRight
<1>8. CASE m.name = "BITS"
  BY <1>7, <1>8 DEF MaskOf, BitsOf
<1>9. CASE m.name \in {"BITS_HIGH", "BIT_HIGH"}
  <2>1. m.message => mask \in 0..(2 ^ Bits(MaskBytes(m.message)) - 1)
    <3>1. CASE m.name = "BITS_HIGH"
      BY <1>1, <3>1 DEF IsUse, MaskOf
    <3> QED BY <1>5, <1>9, <3>1
  <2>2. expected = Unsigned(-1, MaskBytes(m.message))
    BY <1>9 DEF BitsOf
  <2>3. EqualUnder(mask, expected, m.actual) <=> BitsHold(mask, 1, m.actual)
    <3> HIDE DEF mask, expected
    <3> QED BY <1>3, <1>6, <1>9, <2>1, <2>2, BitsHighRight
  <2>4. m.name = "BITS_HIGH" => mask = m.mask
    BY DEF MaskOf
  <2> QED BY <1>5, <1>7, <1>9, <2>3, <2>4
<1>10. CASE m.name \in {"BITS_LOW", "BIT_LOW"}
  <2>1. expected = 0
    BY <1>10 DEF BitsOf
  <2>2. EqualUnder(mask, expected, m.actual) <=> BitsHold(mask, 0, m.actual)
    <3> HIDE DEF mask, expected
    <3> QED BY <1>6, <2>1, BitsLowRight
  <2>3. m.name = "BITS_LOW" => mask = m.mask
    BY DEF MaskOf
  <2> QED BY <1>5, <1>7, <1>10, <2>2, <2>3
<1> QED BY <1>8, <1>9, <1>10 DEF BitNames

LEMMA EqualVerdict ==
  ASSUME NEW m \in Macros, m.name = "EQUAL", NEW c, c = CallOf(m)
  PROVE  c.expected = c.actual <=> Value(m.type, m.expected) = Value(m.type, m.actual)
<1>1. m.type \in IntTypes /\ m.expected \in Int /\ m.actual \in Int
  BY Names DEF IsUse
<1>2. /\ c.expected = CastEqual(m.type, m.expected)
      /\ c.actual = CastEqual(m.type, m.actual)
  BY NumberCall
<1> QED BY <1>1, <1>2, CastEqualsAgree

LEMMA CompareVerdict ==
  ASSUME NEW m \in Macros, m.name = "COMPARE", NEW c, c = CallOf(m)
  PROVE  Compares(c.style, c.compare, c.expected, c.actual) <=>
           Ordered(m.compare, Value(m.type, m.actual), Value(m.type, m.expected))
<1>1. /\ m.type \in IntTypes /\ m.expected \in Int /\ m.actual \in Int
      /\ m.compare \in Comparisons
  BY Names DEF IsUse
<1>2. /\ c.expected = Cast(m.type, m.expected) /\ c.actual = Cast(m.type, m.actual)
      /\ c.style = m.type /\ c.compare = m.compare
  BY NumberCall
<1> QED BY <1>1, <1>2, ComparesRight

LEMMA WithinVerdict ==
  ASSUME NEW m \in Macros, m.name = "WITHIN", NEW c, c = CallOf(m)
  PROVE  Apart(c.style, c.expected, c.actual) <= c.delta <=>
           Near(m.type, m.delta, m.expected, m.actual)
<1>1. m.type \in IntTypes /\ m.expected \in Int /\ m.actual \in Int /\ m.delta \in Int
  BY Names DEF IsUse
<1>2. /\ c.expected = Cast(m.type, m.expected) /\ c.actual = Cast(m.type, m.actual)
      /\ c.style = m.type /\ c.delta = Unsigned(m.delta, m.type.cast)
  BY NumberCall
<1> QED BY <1>1, <1>2, WithinRight

-----------------------------------------------------------------------------
(* Elements of arrays of numbers, and the place of the first difference.   *)

\* What is read of an array are its elements as the macro's type casts them.
LEMMA LoadsAre ==
  ASSUME NEW m \in Macros, m.name \in NumbersNames, NEW c, c = CallOf(m),
         "NULL" \notin {c.expected.address, c.actual.address},
         NEW i \in 0..(m.num - 1), NEW start,
         start = IF c.flags = "ARRAY_TO_VAL" THEN 0 ELSE i * m.type.length,
         NEW a, a = m.actual.elements[i + 1],
         NEW e, e = IF m.name = "EACH_EQUAL" THEN m.expected ELSE m.expected.elements[i + 1]
  PROVE  /\ c.style = m.type /\ m.type \in IntTypes /\ a \in Int /\ e \in Int
         /\ Load(c.expected, start, c.style) = Cast(m.type, e)
         /\ Load(c.actual, i * m.type.length, c.style) = Cast(m.type, a)
<1> DEFINE type == m.type
           expected == Load(c.expected, start, c.style)
           actual == Load(c.actual, i * type.length, c.style)
<1>1. IsUse(m)
  BY Names
<1>2. /\ c.style = type /\ c.num = m.num
      /\ c.fn = IF m.name = "ARRAY_WITHIN" THEN "ArrayWithin" ELSE "EqualIntArray"
      /\ c.flags = IF m.name = "EACH_EQUAL" THEN "ARRAY_TO_VAL" ELSE "ARRAY_TO_ARRAY"
      /\ c.actual = Pointer(m.actual, type)
      /\ c.expected = IF m.name = "EACH_EQUAL"
                      THEN NumToPtr(CastEqual(type, m.expected), type.length)
                      ELSE Pointer(m.expected, type)
      /\ m.name = "ARRAY_WITHIN" => c.delta = Unsigned(m.delta, type.cast)
  BY NumbersCall
<1>3. type \in IntTypes /\ m.num \in Nat /\ IsNumbers(m.actual, type, m.num)
  BY <1>1 DEF IsUse, NumbersNames
<1>4. /\ m.name # "EACH_EQUAL" => IsNumbers(m.expected, type, m.num)
      /\ m.name = "EACH_EQUAL" => m.expected \in Int /\ Fits(type, m.expected)
      /\ m.name = "ARRAY_WITHIN" => m.delta \in Int
  BY <1>1 DEF IsUse, NumbersNames
<1>5. ASSUME NEW array, IsNumbers(array, type, m.num), array.address # "NULL",
             NEW pointer, pointer = Pointer(array, type)
      PROVE  /\ array.elements[i + 1] \in Int
             /\ Load(pointer, i * type.length, type) = Cast(type, array.elements[i + 1])
  <2>1. /\ array.elements \in Seq(Int) /\ m.num <= Len(array.elements)
        /\ \A k \in DOMAIN array.elements : Fits(type, array.elements[k])
    BY <1>5 DEF IsNumbers, IsArray
  <2>2. Len(array.elements) \in Nat /\ DOMAIN array.elements = 1..Len(array.elements)
    BY <2>1, LenProperties
  <2>3. i \in 0..(Len(array.elements) - 1) /\ i + 1 \in 1..Len(array.elements)
    BY <1>3, <2>1, <2>2
  <2>4. array.elements[i + 1] \in Int
    BY <2>1, <2>3, ElementOfSeq
  <2>5. pointer.at = ArrayBytes(array.elements, type.length)
    BY <1>5 DEF Pointer
  <2>6. Fits(type, array.elements[i + 1])
    BY <2>1, <2>2, <2>3
  <2> QED BY <1>3, <2>1, <2>3, <2>4, <2>5, <2>6, LoadElement
<1>6. m.actual.address # "NULL" /\ (m.name # "EACH_EQUAL" => m.expected.address # "NULL")
  BY <1>2 DEF Pointer
<1>7. a \in Int /\ actual = Cast(type, a)
  BY <1>2, <1>3, <1>5, <1>6
<1>8. e \in Int /\ expected = Cast(type, e)
  <2>1. CASE m.name = "EACH_EQUAL"
    <3>1. /\ c.expected.at = BytesOf(CastEqual(type, m.expected), type.length)
          /\ start = 0
      BY <1>2, <2>1 DEF NumToPtr
    <3>2. Load(c.expected, 0, type) = Cast(type, m.expected)
      BY <1>3, <1>4, <2>1, <3>1, LoadNumber
    <3> QED BY <1>2, <1>4, <2>1, <3>1, <3>2
  <2>2. CASE m.name # "EACH_EQUAL"
    <3>1. start = i * type.length /\ c.expected = Pointer(m.expected, type)
      BY <1>2, <2>2
    <3> QED BY <1>2, <1>4, <1>5, <1>6, <2>2, <3>1
  <2> QED BY <2>1, <2>2
<1> QED BY <1>2, <1>3, <1>7, <1>8

\* Two elements agree when they do as the macro's type has them.
LEMMA AgreeRight ==
  ASSUME NEW m \in Macros, m.name \in NumbersNames, NEW c, c = CallOf(m),
         "NULL" \notin {c.expected.address, c.actual.address},
         NEW i \in 0..(m.num - 1), NEW start,
         start = IF c.flags = "ARRAY_TO_VAL" THEN 0 ELSE i * m.type.length
  PROVE  LET expected == Load(c.expected, start, c.style)
             actual == Load(c.actual, i * m.type.length, c.style)
         IN /\ c.fn = "EqualIntArray" => (expected = actual <=> ~ Differs(m, i))
            /\ c.fn = "ArrayWithin" =>
                 (Apart(c.style, expected, actual) <= c.delta <=> ~ Differs(m, i))
<1> DEFINE type == m.type
           expected == Load(c.expected, start, c.style)
           actual == Load(c.actual, i * type.length, c.style)
           a == m.actual.elements[i + 1]
           e == IF m.name = "EACH_EQUAL" THEN m.expected ELSE m.expected.elements[i + 1]
<1>1. IsUse(m)
  BY Names
<1>2. /\ c.style = type /\ c.num = m.num
      /\ c.fn = IF m.name = "ARRAY_WITHIN" THEN "ArrayWithin" ELSE "EqualIntArray"
      /\ c.flags = IF m.name = "EACH_EQUAL" THEN "ARRAY_TO_VAL" ELSE "ARRAY_TO_ARRAY"
      /\ m.name = "ARRAY_WITHIN" => c.delta = Unsigned(m.delta, type.cast)
  BY NumbersCall
<1>3. type \in IntTypes
  BY <1>1 DEF IsUse, NumbersNames
<1>4. m.name = "ARRAY_WITHIN" => m.delta \in Int
  BY <1>1 DEF IsUse, NumbersNames
<1>5. a \in Int /\ actual = Cast(type, a) /\ e \in Int /\ expected = Cast(type, e)
  BY LoadsAre
<1>6. CASE c.fn = "EqualIntArray"
  <2>1. Differs(m, i) <=> Value(type, e) # Value(type, a)
    BY <1>2, <1>6 DEF Differs, NumbersNames
  <2> HIDE DEF type, e, a, expected, actual
  <2>2. expected = actual <=> Value(type, e) = Value(type, a)
    BY <1>3, <1>5, CastsAgree
  <2> QED BY <1>6, <2>1, <2>2 DEF expected, actual, type
<1>7. CASE c.fn = "ArrayWithin"
  <2>1. m.name = "ARRAY_WITHIN"
    BY <1>2, <1>7
  <2>2. Differs(m, i) <=> ~ Near(type, m.delta, e, a)
    BY <2>1 DEF Differs
  <2> HIDE DEF type, e, a, expected, actual
  <2>3. Apart(c.style, expected, actual) <= c.delta <=> Near(type, m.delta, e, a)
    BY <1>2, <1>3, <1>4, <1>5, <2>1, WithinRight
  <2> QED BY <1>7, <2>2, <2>3 DEF expected, actual, type
<1> QED BY <1>2, <1>6, <1>7

LEMMA LengthIs ==
  ASSUME NEW s, NEW l \in Nat, DOMAIN s = 1..l
  PROVE  Len(s) = l
OBVIOUS

LEMMA LengthOfBytes ==
  ASSUME NEW cells \in Seq(Int), NEW L \in Length
  PROVE  Len(ArrayBytes(cells, L)) = L * Len(cells)
<1>1. Len(cells) \in Nat /\ L \in Nat
  BY LenProperties DEF Length
<1>2. L * Len(cells) \in Nat
  BY <1>1
<1>3. DOMAIN ArrayBytes(cells, L) = 1..(L * Len(cells))
  BY DEF ArrayBytes
<1> QED BY <1>2, <1>3, LengthIs

\* The elements the loop over numbers reads are there.
LEMMA NumbersInBounds ==
  ASSUME NEW m \in Macros, m.name \in NumbersNames, NEW c, c = CallOf(m),
         "NULL" \notin {c.expected.address, c.actual.address},
         NEW i \in 0..(m.num - 1), NEW start,
         start = IF c.flags = "ARRAY_TO_VAL" THEN 0 ELSE i * m.type.length
  PROVE  /\ i * m.type.length + m.type.length <= Len(c.actual.at)
         /\ start + m.type.length <= Len(c.expected.at)
<1> DEFINE L == m.type.length
<1>1. IsUse(m) /\ m.type \in IntTypes /\ m.num \in Nat /\ IsNumbers(m.actual, m.type, m.num)
  BY Names DEF IsUse, NumbersNames
<1>2. m.name # "EACH_EQUAL" => IsNumbers(m.expected, m.type, m.num)
  BY <1>1 DEF IsUse, NumbersNames
<1>3. /\ c.flags = IF m.name = "EACH_EQUAL" THEN "ARRAY_TO_VAL" ELSE "ARRAY_TO_ARRAY"
      /\ c.actual = Pointer(m.actual, m.type)
      /\ c.expected = IF m.name = "EACH_EQUAL" THEN NumToPtr(CastEqual(m.type, m.expected), L)
                      ELSE Pointer(m.expected, m.type)
  BY NumbersCall
<1>4. L \in Length
  BY <1>1, TypeFacts
<1>5. ASSUME NEW array, IsNumbers(array, m.type, m.num), array.address # "NULL"
      PROVE  i * L + L <= Len(ArrayBytes(array.elements, L))
  <2>1. array.elements \in Seq(Int) /\ m.num <= Len(array.elements)
    BY <1>5 DEF IsNumbers, IsArray
  <2>2. Len(ArrayBytes(array.elements, L)) = L * Len(array.elements)
    BY <1>4, <2>1, LengthOfBytes
  <2>3. Len(array.elements) \in Nat /\ i + 1 <= Len(array.elements) /\ i \in Nat
    BY <1>1, <2>1, LenProperties
  <2> HIDE DEF L
  <2>4. i * L + L <= L * Len(array.elements)
    BY <1>4, <2>3 DEF Length
  <2> QED BY <2>2, <2>4
<1>6. m.actual.address # "NULL" /\ (m.name # "EACH_EQUAL" => m.expected.address # "NULL")
  BY <1>3 DEF Pointer
<1>7. c.actual.at = ArrayBytes(m.actual.elements, L)
  BY <1>3 DEF Pointer
<1>8. CASE m.name = "EACH_EQUAL"
  <2>1. c.expected.at = BytesOf(CastEqual(m.type, m.expected), L) /\ start = 0
    BY <1>3, <1>8 DEF NumToPtr
  <2>2. L \in Nat
    BY <1>4 DEF Length
  <2> DEFINE at == BytesOf(CastEqual(m.type, m.expected), L)
  <2>3. DOMAIN at = 1..L
    BY DEF BytesOf
  <2> HIDE DEF at, L
  <2>4. Len(at) = L
    BY <2>2, <2>3, LengthIs
  <2>5. i * L + L <= Len(c.actual.at)
    BY <1>1, <1>5, <1>6, <1>7 DEF L
  <2>6. start + L <= Len(c.expected.at)
    BY <2>1, <2>2, <2>4 DEF at
  <2> QED BY <2>5, <2>6 DEF L
<1>9. CASE m.name # "EACH_EQUAL"
  <2>1. c.expected.at = ArrayBytes(m.expected.elements, L) /\ start = i * L
    BY <1>3, <1>9 DEF Pointer
  <2> QED BY <1>1, <1>2, <1>5, <1>6, <1>7, <1>9, <2>1
<1> QED BY <1>8, <1>9

\* The CHOOSE of the first of some numbers.
LEMMA FirstIs ==
  ASSUME NEW n \in Nat, NEW S, NEW i \in 0..(n - 1), i \in S, \A j \in 0..(i - 1) : j \notin S
  PROVE  i = CHOOSE k \in 0..(n - 1) : k \in S /\ \A j \in 0..(k - 1) : j \notin S
<1> DEFINE P(k) == k \in S /\ \A j \in 0..(k - 1) : j \notin S
<1>1. P(i)
  OBVIOUS
<1>2. ASSUME NEW k \in 0..(n - 1), P(k) PROVE k = i
  <2>1. ~ (k < i) /\ ~ (i < k)
    BY <1>1, <1>2
  <2> QED BY <2>1
<1> HIDE DEF P
<1>3. i = CHOOSE k \in 0..(n - 1) : P(k)
  BY <1>1, <1>2
<1> QED BY <1>3 DEF P

LEMMA FirstElement ==
  ASSUME NEW m, m.num \in Nat, NEW i \in 0..(m.num - 1),
         Differs(m, i), \A j \in 0..(i - 1) : ~ Differs(m, j)
  PROVE  i = CHOOSE k \in 0..(m.num - 1) :
               Differs(m, k) /\ \A j \in 0..(k - 1) : ~ Differs(m, j)
<1> DEFINE S == {k \in Nat : Differs(m, k)}
           First == CHOOSE k \in 0..(m.num - 1) : k \in S /\ \A j \in 0..(k - 1) : j \notin S
<1>1. \A k \in Nat : k \in S <=> Differs(m, k)
  OBVIOUS
<1>2. i \in S /\ \A j \in 0..(i - 1) : j \notin S
  BY <1>1
<1> HIDE DEF S
<1>3. i = First
  BY <1>2, FirstIs
<1>4. \A k \in 0..(m.num - 1) :
        k \in S /\ (\A j \in 0..(k - 1) : j \notin S)
          <=> Differs(m, k) /\ (\A j \in 0..(k - 1) : ~ Differs(m, j))
  BY <1>1
<1>5. First = CHOOSE k \in 0..(m.num - 1) :
                Differs(m, k) /\ \A j \in 0..(k - 1) : ~ Differs(m, j)
  BY <1>4
<1> QED BY <1>3, <1>5

LEMMA FirstByte ==
  ASSUME NEW m, m.length \in Nat, NEW i, NEW b \in 0..(m.length - 1),
         ByteDiffers(m, i, b), \A j \in 0..(b - 1) : ~ ByteDiffers(m, i, j)
  PROVE  b = CHOOSE k \in 0..(m.length - 1) :
               ByteDiffers(m, i, k) /\ \A j \in 0..(k - 1) : ~ ByteDiffers(m, i, j)
<1> DEFINE S == {k \in Nat : ByteDiffers(m, i, k)}
           First == CHOOSE k \in 0..(m.length - 1) : k \in S /\ \A j \in 0..(k - 1) : j \notin S
<1>1. \A k \in Nat : k \in S <=> ByteDiffers(m, i, k)
  OBVIOUS
<1>2. b \in S /\ \A j \in 0..(b - 1) : j \notin S
  BY <1>1
<1> HIDE DEF S
<1>3. b = First
  BY <1>2, FirstIs
<1>4. \A k \in 0..(m.length - 1) :
        k \in S /\ (\A j \in 0..(k - 1) : j \notin S)
          <=> ByteDiffers(m, i, k) /\ (\A j \in 0..(k - 1) : ~ ByteDiffers(m, i, j))
  BY <1>1
<1>5. First = CHOOSE k \in 0..(m.length - 1) :
                ByteDiffers(m, i, k) /\ \A j \in 0..(k - 1) : ~ ByteDiffers(m, i, j)
  BY <1>4
<1> QED BY <1>3, <1>5

\* FirstPlace, from the first element that differs, and its first byte.
LEMMA PlaceOfElement ==
  ASSUME NEW m, m.num \in Nat, NEW i \in 0..(m.num - 1),
         Differs(m, i), \A j \in 0..(i - 1) : ~ Differs(m, j)
  PROVE  /\ m.name \in NumbersNames => FirstPlace(m) = <<i>>
         /\ m.name \in StringsNames => FirstPlace(m) = IF m.num > 1 THEN <<i>> ELSE <<>>
<1>1. i = CHOOSE k \in 0..(m.num - 1) :
            Differs(m, k) /\ \A j \in 0..(k - 1) : ~ Differs(m, j)
  BY FirstElement
<1>2. m.num > 1 \/ m.num = 1
  OBVIOUS
<1>3. CASE m.name \in NumbersNames
  BY <1>1, <1>3 DEF FirstPlace, NumbersNames, StringsNames
<1>4. CASE m.name \in StringsNames
  <2>1. m.name # "EQUAL_MEMORY" /\ m.name \in {"EQUAL_STRING_ARRAY", "EACH_EQUAL_STRING"}
    BY <1>4 DEF StringsNames
  <2>2. m.num = 1 => FirstPlace(m) = <<>>
    BY <2>1 DEF FirstPlace
  <2>3. m.num # 1 => FirstPlace(m) = <<i>>
    BY <1>1, <2>1 DEF FirstPlace
  <2> QED BY <1>2, <1>4, <2>2, <2>3 DEF NumbersNames, StringsNames
<1> QED BY <1>3, <1>4

LEMMA PlaceOfByte ==
  ASSUME NEW m, m.name = "EQUAL_MEMORY", m.num \in Nat, m.length \in Nat,
         NEW i \in 0..(m.num - 1), \A j \in 0..(i - 1) : ~ Differs(m, j),
         NEW b \in 0..(m.length - 1),
         ByteDiffers(m, i, b), \A j \in 0..(b - 1) : ~ ByteDiffers(m, i, j)
  PROVE  FirstPlace(m) = IF m.num > 1 THEN <<i, b>> ELSE <<b>>
<1>1. Differs(m, i)
  BY DEF Differs
<1>2. i = CHOOSE k \in 0..(m.num - 1) :
            Differs(m, k) /\ \A j \in 0..(k - 1) : ~ Differs(m, j)
  BY <1>1, FirstElement
<1>3. b = CHOOSE k \in 0..(m.length - 1) :
            ByteDiffers(m, i, k) /\ \A j \in 0..(k - 1) : ~ ByteDiffers(m, i, j)
  BY FirstByte
<1>4. m.num > 1 \/ m.num = 1
  OBVIOUS
<1> QED BY <1>2, <1>3, <1>4 DEF FirstPlace

-----------------------------------------------------------------------------
(* Strings.                                                                *)

\* The first i chars of two strings are the same, and none is the end.
SamePrefix(s, t, i) == \A k \in 1..i : s[k] = t[k] /\ s[k] # 0

\* A string has a first 0.
LEMMA EndExists ==
  ASSUME NEW s, IsString(s), s # Null
  PROVE  /\ s \in Seq(Int) /\ Len(s) \in Nat
         /\ \E e \in 1..Len(s) : s[e] = 0 /\ \A j \in 1..(e - 1) : s[j] # 0
<1> DEFINE Zeros == {k \in 1..Len(s) : s[k] = 0}
<1>1. s \in Seq(Int) /\ Len(s) \in Nat /\ DOMAIN s = 1..Len(s)
  BY LenProperties DEF IsString
<1>2. Zeros # {} /\ Zeros \subseteq Nat
  BY <1>1 DEF IsString
<1>3. PICK e \in Zeros : \A j \in Zeros : e <= j
  <2> HIDE DEF Zeros
  <2> QED BY <1>2, SmallestExists
<1>4. e \in 1..Len(s) /\ s[e] = 0
  BY <1>3
<1>5. ASSUME NEW j \in 1..(e - 1) PROVE s[j] # 0
  <2>1. j \in 1..Len(s) /\ ~ (e <= j)
    BY <1>1, <1>4
  <2> QED BY <1>3, <2>1
<1> QED BY <1>1, <1>4, <1>5

LEMMA TextIs ==
  ASSUME NEW s \in Seq(Int), s # Null, NEW e \in 1..Len(s),
         s[e] = 0, \A j \in 1..(e - 1) : s[j] # 0
  PROVE  /\ Text(s) \in Seq(Int) /\ Len(Text(s)) = e - 1
         /\ \A k \in 1..(e - 1) : Text(s)[k] = s[k]
<1> DEFINE P(k) == s[k] = 0 /\ \A j \in 1..(k - 1) : s[j] # 0
<1>1. Len(s) \in Nat
  BY LenProperties
<1>2. P(e)
  OBVIOUS
<1>3. ASSUME NEW k \in 1..Len(s), P(k) PROVE k = e
  <2>1. ~ (k < e) /\ ~ (e < k)
    BY <1>1, <1>2, <1>3
  <2> QED BY <1>1, <2>1
<1>4. Text(s) = SubSeq(s, 1, (CHOOSE k \in 1..Len(s) : P(k)) - 1)
  BY DEF Text
<1> HIDE DEF P
<1>5. (CHOOSE k \in 1..Len(s) : P(k)) = e
  BY <1>2, <1>3
<1>6. Text(s) = SubSeq(s, 1, e - 1)
  BY <1>4, <1>5
<1>7. e - 1 \in Nat /\ e - 1 <= Len(s) /\ 1 \in Nat \ {0}
  BY <1>1
<1> DEFINE n == e - 1
<1>8. /\ SubSeq(s, 1, n) \in Seq(Int)
      /\ Len(SubSeq(s, 1, n)) = IF 1 <= n THEN n - 1 + 1 ELSE 0
      /\ \A i \in 1..(n - 1 + 1) : SubSeq(s, 1, n)[i] = s[1 + i - 1]
  <2> HIDE DEF n
  <2> QED BY <1>7, SubSeqType DEF n
<1>9. /\ (IF 1 <= n THEN n - 1 + 1 ELSE 0) = n /\ 1..(n - 1 + 1) = 1..n
      /\ \A i \in 1..n : 1 + i - 1 = i
  BY <1>7
<1> QED BY <1>6, <1>8, <1>9

\* Chars before the end are inside the string, and so is the next.
LEMMA PrefixInString ==
  ASSUME NEW s, IsString(s), s # Null, NEW i \in Nat, \A k \in 1..i : s[k] # 0,
         NEW e \in 1..Len(s), s[e] = 0
  PROVE  i < e /\ i < Len(s) /\ i + 1 \in 1..Len(s)
<1>1. Len(s) \in Nat
  BY EndExists
<1>2. ~ (e <= i)
  BY <1>1
<1> QED BY <1>1, <1>2

LEMMA TextsAgree ==
  ASSUME NEW s, NEW t, IsString(s), IsString(t), s # Null, t # Null,
         NEW i \in Nat, SamePrefix(s, t, i), s[i + 1] = 0, t[i + 1] = 0
  PROVE  Text(s) = Text(t)
<1>1. /\ s \in Seq(Int) /\ Len(s) \in Nat /\ t \in Seq(Int) /\ Len(t) \in Nat
      /\ \E e \in 1..Len(s) : s[e] = 0
      /\ \E e \in 1..Len(t) : t[e] = 0
  BY EndExists
<1>2. \A k \in 1..i : s[k] # 0 /\ t[k] # 0
  BY DEF SamePrefix
<1>3. i + 1 \in 1..Len(s) /\ i + 1 \in 1..Len(t)
  BY <1>1, <1>2, PrefixInString
<1>4. (i + 1) - 1 = i
  OBVIOUS
<1> DEFINE e == i + 1
<1>5. /\ Text(s) \in Seq(Int) /\ Len(Text(s)) = e - 1
      /\ \A k \in 1..(e - 1) : Text(s)[k] = s[k]
  <2>1. e \in 1..Len(s) /\ s[e] = 0 /\ \A j \in 1..(e - 1) : s[j] # 0
    BY <1>2, <1>3, <1>4
  <2> HIDE DEF e
  <2> QED BY <1>1, <2>1, TextIs
<1>6. /\ Text(t) \in Seq(Int) /\ Len(Text(t)) = e - 1
      /\ \A k \in 1..(e - 1) : Text(t)[k] = t[k]
  <2>1. e \in 1..Len(t) /\ t[e] = 0 /\ \A j \in 1..(e - 1) : t[j] # 0
    BY <1>2, <1>3, <1>4
  <2> HIDE DEF e
  <2> QED BY <1>1, <2>1, TextIs
<1>7. \A k \in 1..i : Text(s)[k] = Text(t)[k]
  BY <1>4, <1>5, <1>6 DEF SamePrefix
<1> QED BY <1>4, <1>5, <1>6, <1>7, SeqEqual

LEMMA FirstCharsIs ==
  ASSUME NEW text \in Seq(Int), NEW n \in Nat
  PROVE  /\ FirstChars(text, n) \in Seq(Int)
         /\ Len(FirstChars(text, n)) = IF n < Len(text) THEN n ELSE Len(text)
         /\ \A k \in 1..Len(FirstChars(text, n)) : FirstChars(text, n)[k] = text[k]
<1> DEFINE l == IF n < Len(text) THEN n ELSE Len(text)
<1>1. l \in Nat /\ l <= Len(text) /\ 1 \in Nat \ {0}
  <2>1. Len(text) \in Nat
    BY LenProperties
  <2> QED BY <2>1
<1>2. FirstChars(text, n) = SubSeq(text, 1, l)
  BY DEF FirstChars
<1> HIDE DEF l
<1>3. /\ SubSeq(text, 1, l) \in Seq(Int)
      /\ Len(SubSeq(text, 1, l)) = IF 1 <= l THEN l - 1 + 1 ELSE 0
      /\ \A i \in 1..(l - 1 + 1) : SubSeq(text, 1, l)[i] = text[1 + i - 1]
  BY <1>1, SubSeqType
<1>4. /\ (IF 1 <= l THEN l - 1 + 1 ELSE 0) = l /\ 1..(l - 1 + 1) = 1..l
      /\ \A i \in 1..l : 1 + i - 1 = i
  BY <1>1
<1>5. /\ FirstChars(text, n) \in Seq(Int) /\ Len(FirstChars(text, n)) = l
      /\ \A k \in 1..l : FirstChars(text, n)[k] = text[k]
  BY <1>2, <1>3, <1>4
<1> QED BY <1>5 DEF l

\* The chars of a string up to one past a prefix tell which text it has.
LEMMA TextAt ==
  ASSUME NEW s, IsString(s), s # Null, NEW i \in Nat, \A k \in 1..i : s[k] # 0
  PROVE  /\ Text(s) \in Seq(Int) /\ Len(Text(s)) \in Nat /\ Len(Text(s)) >= i
         /\ \A k \in 1..Len(Text(s)) : Text(s)[k] = s[k] /\ s[k] # 0
         /\ s[i + 1] = 0 <=> Len(Text(s)) = i
<1>1. PICK e \in 1..Len(s) : s[e] = 0 /\ \A j \in 1..(e - 1) : s[j] # 0
  BY EndExists
<1>2. s \in Seq(Int) /\ Len(s) \in Nat
  BY EndExists
<1>3. /\ Text(s) \in Seq(Int) /\ Len(Text(s)) = e - 1
      /\ \A k \in 1..(e - 1) : Text(s)[k] = s[k]
  BY <1>1, <1>2, TextIs
<1>4. i < e
  BY <1>1, PrefixInString
<1>5. s[i + 1] = 0 <=> e = i + 1
  <2>1. i + 1 < e => i + 1 \in 1..(e - 1)
    BY <1>1, <1>2
  <2> QED BY <1>1, <1>2, <1>4, <2>1
<1> QED BY <1>1, <1>2, <1>3, <1>4, <1>5, SMTT(20)

LEMMA TextsDiffer ==
  ASSUME NEW s, NEW t, IsString(s), IsString(t), s # Null, t # Null,
         NEW i \in Nat, SamePrefix(s, t, i), s[i + 1] # t[i + 1]
  PROVE  /\ Text(s) # Text(t)
         /\ \A n \in Nat : i < n => FirstChars(Text(s), n) # FirstChars(Text(t), n)
<1> DEFINE x == Text(s)
           y == Text(t)
<1>1. (\A k \in 1..i : s[k] # 0) /\ (\A k \in 1..i : t[k] # 0)
  BY DEF SamePrefix
<1>2. /\ x \in Seq(Int) /\ Len(x) \in Nat /\ Len(x) >= i
      /\ \A k \in 1..Len(x) : x[k] = s[k] /\ s[k] # 0
      /\ s[i + 1] = 0 <=> Len(x) = i
  BY <1>1, TextAt
<1>3. /\ y \in Seq(Int) /\ Len(y) \in Nat /\ Len(y) >= i
      /\ \A k \in 1..Len(y) : y[k] = t[k] /\ t[k] # 0
      /\ t[i + 1] = 0 <=> Len(y) = i
  BY <1>1, TextAt
<1> HIDE DEF x, y
<1>4. Len(x) # i \/ Len(y) # i
  BY <1>2, <1>3
<1>5. Len(x) > i => x[i + 1] = s[i + 1]
  BY <1>2
<1>6. Len(y) > i => y[i + 1] = t[i + 1]
  BY <1>3
<1>7. x # y
  BY <1>2, <1>3, <1>4, <1>5, <1>6
<1>8. ASSUME NEW n \in Nat, i < n PROVE FirstChars(x, n) # FirstChars(y, n)
  <2> DEFINE a == FirstChars(x, n)
             b == FirstChars(y, n)
  <2>1. /\ Len(a) = (IF n < Len(x) THEN n ELSE Len(x))
        /\ \A k \in 1..Len(a) : a[k] = x[k]
    BY <1>2, FirstCharsIs
  <2>2. /\ Len(b) = (IF n < Len(y) THEN n ELSE Len(y))
        /\ \A k \in 1..Len(b) : b[k] = y[k]
    BY <1>3, FirstCharsIs
  <2> HIDE DEF a, b
  <2> SUFFICES ASSUME a = b PROVE FALSE
    BY DEF a, b
  <2>3. Len(x) > i /\ Len(y) > i
    BY <1>2, <1>3, <1>4, <1>8, <2>1, <2>2
  <2>4. i + 1 \in 1..Len(a)
    BY <1>2, <1>8, <2>1, <2>3
  <2> QED BY <1>5, <1>6, <2>1, <2>2, <2>3, <2>4
<1> QED BY <1>7, <1>8 DEF x, y

\* Strings that agree in the chars they are compared up to.
LEMMA PrefixesAgree ==
  ASSUME NEW s, NEW t, IsString(s), IsString(t), s # Null, t # Null,
         NEW n \in Nat, SamePrefix(s, t, n)
  PROVE  FirstChars(Text(s), n) = FirstChars(Text(t), n)
<1> DEFINE x == Text(s)
           y == Text(t)
           a == FirstChars(x, n)
           b == FirstChars(y, n)
<1>1. (\A k \in 1..n : s[k] # 0) /\ (\A k \in 1..n : t[k] # 0)
  BY DEF SamePrefix
<1>2. /\ x \in Seq(Int) /\ Len(x) \in Nat /\ Len(x) >= n
      /\ \A k \in 1..Len(x) : x[k] = s[k] /\ s[k] # 0
  BY <1>1, TextAt
<1>3. /\ y \in Seq(Int) /\ Len(y) \in Nat /\ Len(y) >= n
      /\ \A k \in 1..Len(y) : y[k] = t[k] /\ t[k] # 0
  BY <1>1, TextAt
<1> HIDE DEF x, y
<1>4. /\ a \in Seq(Int) /\ Len(a) = (IF n < Len(x) THEN n ELSE Len(x))
      /\ \A k \in 1..Len(a) : a[k] = x[k]
  BY <1>2, FirstCharsIs
<1>5. /\ b \in Seq(Int) /\ Len(b) = (IF n < Len(y) THEN n ELSE Len(y))
      /\ \A k \in 1..Len(b) : b[k] = y[k]
  BY <1>3, FirstCharsIs
<1> HIDE DEF a, b
<1>6. Len(a) = n /\ Len(b) = n
  BY <1>2, <1>3, <1>4, <1>5
<1>7. ASSUME NEW k \in 1..n PROVE a[k] = b[k]
  <2>1. k \in 1..Len(x) /\ k \in 1..Len(y)
    BY <1>2, <1>3
  <2>2. a[k] = s[k] /\ b[k] = t[k]
    BY <1>2, <1>3, <1>4, <1>5, <1>6, <2>1
  <2> QED BY <2>2 DEF SamePrefix
<1>8. a = b
  BY <1>4, <1>5, <1>6, <1>7, SeqEqual
<1> QED BY <1>8 DEF a, b, x, y

\* NULL has no string's text.
LEMMA NullText ==
  ASSUME NEW s, IsString(s), s # Null
  PROVE  Text(s) # Text(Null)
<1>1. \A k \in 1..0 : s[k] # 0
  OBVIOUS
<1>2. \A k \in 1..Len(Text(s)) : Text(s)[k] = s[k] /\ s[k] # 0
  BY <1>1, TextAt
<1>3. Text(Null) = <<0>>
  BY DEF Text
<1>4. Len(<<0>>) = 1 /\ <<0>>[1] = 0
  OBVIOUS
<1> QED BY <1>2, <1>3, <1>4

-----------------------------------------------------------------------------
(* The invariant of the loops.                                             *)

\* The arrays are there, are two, and have elements.
Entered ==
  /\ macro.num > 0
  /\ macro.name = "EQUAL_MEMORY" => macro.length > 0
  /\ call.expected.address # call.actual.address
  /\ "NULL" \notin {call.expected.address, call.actual.address}

\* Where element i of the expected array starts; a single value stays.
ExpectedStart(i, length) == IF call.flags = "ARRAY_TO_VAL" THEN 0 ELSE i * length

\* The elements, and the bytes of an element, that were compared agree.
AgreeUpTo(i) == \A j \in 0..(i - 1) : ~ Differs(macro, j)
BytesAgreeUpTo(i, b) == \A j \in 0..(b - 1) : ~ ByteDiffers(macro, i, j)

\* A use of a macro, the call it expands to, and no verdict before the end.
UseInv ==
  /\ macro \in Macros
  /\ call = CallOf(macro)
  /\ pc \in {"call", "element", "byte", "char", "done"}
  /\ elements \in Nat /\ bytes \in Nat /\ expAt \in Nat /\ actAt \in Nat
  /\ pc # "done" => result = [verdict |-> "none"]
  /\ pc = "call" => elements = 0 /\ bytes = 0 /\ expAt = 0 /\ actAt = 0

\* An array of numbers: both pointers stand at the next element.
NumbersInv ==
  pc = "element" /\ call.fn \in {"EqualIntArray", "ArrayWithin"} =>
    LET i == macro.num - elements IN
    /\ Entered
    /\ i \in Nat
    /\ actAt = i * macro.type.length
    /\ expAt = ExpectedStart(i, macro.type.length)
    /\ AgreeUpTo(i)

\* Memory: the same between two elements, and between two bytes of one.
MemoryInv ==
  pc = "element" /\ call.fn = "EqualMemory" =>
    LET i == macro.num - elements IN
    /\ Entered
    /\ i \in Nat
    /\ actAt = i * macro.length
    /\ expAt = ExpectedStart(i, macro.length)
    /\ AgreeUpTo(i)

BytesInv ==
  pc = "byte" =>
    LET i == macro.num - elements - 1
        b == macro.length - bytes
    IN /\ call.fn = "EqualMemory"
       /\ Entered
       /\ i \in Nat /\ b \in Nat
       /\ actAt = i * macro.length + b
       /\ expAt = ExpectedStart(i, macro.length) + b
       /\ AgreeUpTo(i)
       /\ BytesAgreeUpTo(i, b)

\* An array of strings, between two strings and inside one.
StringsInv ==
  pc \in {"element", "char"} /\ call.fn = "EqualStringArray" =>
    Entered /\ actAt < macro.num /\ AgreeUpTo(actAt)

\* Two strings: so far the chars are the same, and none ends a string.
CharsInv ==
  pc = "char" =>
    /\ call.fn \in StringFunctions
    /\ Null \notin {Expected, Actual}
    /\ \A k \in 1..bytes : Expected[k] = Actual[k] /\ Expected[k] # 0 /\ InLength(k - 1)

\* What a returned assertion has come to.
DoneInv ==
  pc = "done" =>
    /\ result.verdict \in {"pass", "fail"}
    /\ result.verdict = "pass" <=> Holds(macro)
    /\ result.verdict = "fail" =>
         /\ PlaceExists(macro, result.place)
         /\ result.reason = "differs" /\ macro.name \in Arrays => result.place = FirstPlace(macro)
         /\ result.reason = "differs" /\ call.fn = "EqualStringArray" =>
              Entered /\ actAt < macro.num

AssertInv ==
  /\ UseInv /\ NumbersInv /\ MemoryInv /\ BytesInv /\ StringsInv /\ CharsInv /\ DoneInv

-----------------------------------------------------------------------------
(* What a step keeps.                                                      *)

LEMMA Outcomes ==
  ASSUME NEW reason, NEW place, NEW expected, NEW actual
  PROVE  /\ Pass.verdict = "pass"
         /\ Fail(reason, place, expected, actual).verdict = "fail"
         /\ Fail(reason, place, expected, actual).reason = reason
         /\ Fail(reason, place, expected, actual).place = place
         /\ Refuse(reason).verdict = "fail" /\ Refuse(reason).reason = reason
         /\ Refuse(reason).place = <<>>
BY DEF Pass, Fail, Refuse

LEMMA HoldsStays ==
  ASSUME macro' = macro, call' = call
  PROVE  Holds(macro)' <=> Holds(macro)
BY DEF Holds, ArrayHolds

\* The arrays a macro compares.
LEMMA ArrayCall ==
  ASSUME NEW m \in Macros, NEW c, c = CallOf(m)
  PROVE  /\ c.fn \in ArrayFunctions <=> m.name \in Arrays
         /\ m.name \in Arrays => m.num \in Nat /\ c.num = m.num
         /\ m.name = "EQUAL_MEMORY" => m.length \in Nat /\ c.length = m.length
         /\ m.name \in Arrays <=>
              m.name \in NumbersNames \/ m.name \in StringsNames \/ m.name = "EQUAL_MEMORY"
<1>1. m.name \in Arrays <=>
        m.name \in NumbersNames \/ m.name \in StringsNames \/ m.name = "EQUAL_MEMORY"
  BY DEF Arrays, NumbersNames, StringsNames
<1>2. c.fn \in ArrayFunctions <=> m.name \in Arrays
  BY <1>1, FunctionOf DEF ArrayFunctions
<1>3. m.name \in Arrays => m.num \in Nat
  BY Names DEF IsUse, Arrays
<1>4. m.name \in Arrays => c.num = m.num
  BY <1>1, NumbersCall, StringsCall, MemoryCall
<1>5. m.name = "EQUAL_MEMORY" => m.length \in Nat /\ c.length = m.length
  BY Names, MemoryCall DEF IsUse
<1> QED BY <1>1, <1>2, <1>3, <1>4, <1>5

LEMMA HoldsOfArray ==
  ASSUME macro.name \in Arrays
  PROVE  Holds(macro) <=> ArrayHolds(macro)
BY DEF Holds, Arrays

\* A failure may print no index.
LEMMA NoPlace ==
  ASSUME NEW m
  PROVE  PlaceExists(m, <<>>)
BY DEF PlaceExists

\* A function that returns: what its verdict has to be.
LEMMA ReturnsRight ==
  ASSUME UseInv, pc' = "done",
         UNCHANGED <<macro, call, elements, bytes, expAt, actAt>>,
         result'.verdict \in {"pass", "fail"},
         result'.verdict = "pass" <=> Holds(macro),
         result'.verdict = "fail" =>
           /\ PlaceExists(macro, result'.place)
           /\ result'.reason = "differs" /\ macro.name \in Arrays =>
                result'.place = FirstPlace(macro)
           /\ result'.reason = "differs" /\ call.fn = "EqualStringArray" =>
                Entered /\ actAt < macro.num
  PROVE  AssertInv'
<1>1. UseInv'
  BY DEF UseInv
<1>2. NumbersInv' /\ MemoryInv' /\ BytesInv' /\ StringsInv' /\ CharsInv'
  BY DEF NumbersInv, MemoryInv, BytesInv, StringsInv, CharsInv
<1>3. DoneInv'
  <2>1. Holds(macro)' <=> Holds(macro)
    BY HoldsStays
  <2>2. FirstPlace(macro)' = FirstPlace(macro) /\ macro' = macro
    OBVIOUS
  <2>3. Entered' = Entered
    BY DEF Entered
  <2> QED BY <2>1, <2>2, <2>3 DEF DoneInv
<1> QED BY <1>1, <1>2, <1>3 DEF AssertInv

LEMMA InitInv ==
  ASSUME Init
  PROVE  AssertInv
<1>1. UseInv
  BY DEF Init, UseInv
<1>2. NumbersInv /\ MemoryInv /\ BytesInv /\ StringsInv /\ CharsInv /\ DoneInv
  BY DEF Init, NumbersInv, MemoryInv, BytesInv, StringsInv, CharsInv, DoneInv
<1> QED BY <1>1, <1>2 DEF AssertInv

LEMMA StutterInv ==
  ASSUME AssertInv, UNCHANGED vars
  PROVE  AssertInv'
<1>1. /\ macro' = macro /\ call' = call /\ pc' = pc /\ elements' = elements
      /\ bytes' = bytes /\ expAt' = expAt /\ actAt' = actAt /\ result' = result
  BY DEF vars
<1>2. UseInv'
  BY <1>1 DEF AssertInv, UseInv
<1>3. Entered' = Entered
  BY <1>1 DEF Entered
<1>4. NumbersInv' /\ MemoryInv' /\ BytesInv' /\ StringsInv'
  BY <1>1, <1>3 DEF AssertInv, NumbersInv, MemoryInv, BytesInv, StringsInv, AgreeUpTo,
                    BytesAgreeUpTo, ExpectedStart
<1>5. CharsInv'
  BY <1>1 DEF AssertInv, CharsInv, Expected, Actual, InLength
<1>6. DoneInv'
  BY <1>1, <1>3, HoldsStays DEF AssertInv, DoneInv
<1> QED BY <1>2, <1>4, <1>5, <1>6 DEF AssertInv

LEMMA BitsStep ==
  ASSUME AssertInv, AssertBits
  PROVE  AssertInv'
<1>1. UseInv /\ macro \in Macros /\ call = CallOf(macro) /\ pc = "call" /\ call.fn = "Bits"
  BY DEF AssertInv, UseInv, AssertBits, Calls
<1>2. macro.name \in BitNames
  BY <1>1, FunctionOf
<1>3. EqualUnder(call.mask, call.expected, call.actual) <=> Holds(macro)
  BY <1>1, <1>2, BitsVerdict DEF Holds, Arrays, BitNames
<1>4. macro.name \notin Arrays
  BY <1>2 DEF BitNames, Arrays
<1>5. /\ pc' = "done" /\ UNCHANGED <<macro, call, elements, bytes, expAt, actAt>>
      /\ EqualUnder(call.mask, call.expected, call.actual) => result' = Pass
      /\ ~ EqualUnder(call.mask, call.expected, call.actual) =>
           result' = Fail("differs", <<>>, PrintMask(call.mask, call.expected),
                          PrintMask(call.mask, call.actual))
  BY DEF AssertBits, Returns
<1>6. /\ EqualUnder(call.mask, call.expected, call.actual) => result'.verdict = "pass"
      /\ ~ EqualUnder(call.mask, call.expected, call.actual) =>
           result'.verdict = "fail" /\ result'.place = <<>>
  BY <1>5, Outcomes
<1> QED BY <1>1, <1>3, <1>4, <1>5, <1>6, NoPlace, ReturnsRight

LEMMA EqualStep ==
  ASSUME AssertInv, AssertEqualNumber
  PROVE  AssertInv'
<1>1. UseInv /\ macro \in Macros /\ call = CallOf(macro) /\ call.fn = "EqualNumber"
  BY DEF AssertInv, UseInv, AssertEqualNumber, Calls
<1>2. macro.name = "EQUAL"
  BY <1>1, FunctionOf
<1>3. call.expected = call.actual <=> Holds(macro)
  BY <1>1, <1>2, EqualVerdict DEF Holds, Arrays
<1>4. macro.name \notin Arrays
  BY <1>2 DEF Arrays
<1>5. /\ pc' = "done" /\ UNCHANGED <<macro, call, elements, bytes, expAt, actAt>>
      /\ call.expected = call.actual => result' = Pass
      /\ call.expected # call.actual =>
           result' = Fail("differs", <<>>, Shown(call.expected), Shown(call.actual))
  BY DEF AssertEqualNumber, Returns
<1>6. /\ call.expected = call.actual => result'.verdict = "pass"
      /\ call.expected # call.actual => result'.verdict = "fail" /\ result'.place = <<>>
  BY <1>5, Outcomes
<1> QED BY <1>1, <1>3, <1>4, <1>5, <1>6, NoPlace, ReturnsRight

LEMMA CompareStep ==
  ASSUME AssertInv, AssertGreaterOrLess
  PROVE  AssertInv'
<1> DEFINE Right == Compares(call.style, call.compare, call.expected, call.actual)
<1>1. UseInv /\ macro \in Macros /\ call = CallOf(macro) /\ call.fn = "GreaterOrLess"
  BY DEF AssertInv, UseInv, AssertGreaterOrLess, Calls
<1>2. macro.name = "COMPARE"
  BY <1>1, FunctionOf
<1>3. Right <=> Holds(macro)
  BY <1>1, <1>2, CompareVerdict DEF Holds, Arrays
<1>4. macro.name \notin Arrays
  BY <1>2 DEF Arrays
<1>5. /\ pc' = "done" /\ UNCHANGED <<macro, call, elements, bytes, expAt, actAt>>
      /\ Right => result' = Pass
      /\ ~ Right => result' = Fail("compares", <<>>, Shown(call.actual), Shown(call.expected))
  BY DEF AssertGreaterOrLess, Returns
<1> HIDE DEF Right
<1>6. /\ Right => result'.verdict = "pass"
      /\ ~ Right => result'.verdict = "fail" /\ result'.place = <<>>
  BY <1>5, Outcomes
<1> QED BY <1>1, <1>3, <1>4, <1>5, <1>6, NoPlace, ReturnsRight

LEMMA WithinStep ==
  ASSUME AssertInv, AssertNumbersWithin
  PROVE  AssertInv'
<1> DEFINE Right == Apart(call.style, call.expected, call.actual) <= call.delta
<1>1. UseInv /\ macro \in Macros /\ call = CallOf(macro) /\ call.fn = "NumbersWithin"
  BY DEF AssertInv, UseInv, AssertNumbersWithin, Calls
<1>2. macro.name = "WITHIN"
  BY <1>1, FunctionOf
<1>3. Right <=> Holds(macro)
  BY <1>1, <1>2, WithinVerdict DEF Holds, Arrays
<1>4. macro.name \notin Arrays
  BY <1>2 DEF Arrays
<1>5. /\ pc' = "done" /\ UNCHANGED <<macro, call, elements, bytes, expAt, actAt>>
      /\ Right => result' = Pass
      /\ ~ Right => result' = Fail("differs", <<>>, Shown(call.expected), Shown(call.actual))
  BY DEF AssertNumbersWithin, Returns
<1> HIDE DEF Right
<1>6. /\ Right => result'.verdict = "pass"
      /\ ~ Right => result'.verdict = "fail" /\ result'.place = <<>>
  BY <1>5, Outcomes
<1> QED BY <1>1, <1>3, <1>4, <1>5, <1>6, NoPlace, ReturnsRight

-----------------------------------------------------------------------------
(* Arrays of numbers, and memory.                                          *)

\* What the checks before the loop leave.
LEMMA EnterStep ==
  ASSUME AssertInv, EnterArray
  PROVE  AssertInv'
<1>1. /\ UseInv /\ macro \in Macros /\ call = CallOf(macro) /\ pc = "call"
      /\ call.fn \in ArrayFunctions
      /\ elements = 0 /\ bytes = 0 /\ expAt = 0 /\ actAt = 0 /\ elements \in Nat
      /\ result = [verdict |-> "none"]
  BY DEF AssertInv, UseInv, EnterArray, Calls
<1>2. /\ macro.name \in Arrays /\ macro.num \in Nat /\ call.num = macro.num
      /\ call.fn = "EqualMemory" <=> macro.name = "EQUAL_MEMORY"
      /\ macro.name = "EQUAL_MEMORY" => macro.length \in Nat /\ call.length = macro.length
  BY <1>1, ArrayCall, FunctionOf
<1>3. Holds(macro) <=> ArrayHolds(macro)
  BY <1>2, HoldsOfArray
<1> DEFINE Empty == call.num = 0 \/ (call.fn = "EqualMemory" /\ call.length = 0)
<1>4. CASE Empty /\ Returns(Refuse("pointless"))
  <2>1. ~ ArrayHolds(macro)
    BY <1>2, <1>4 DEF ArrayHolds
  <2>2. /\ pc' = "done" /\ UNCHANGED <<macro, call, elements, bytes, expAt, actAt>>
        /\ result' = Refuse("pointless")
    BY <1>4 DEF Returns
  <2>3. result'.verdict = "fail" /\ result'.reason = "pointless" /\ result'.place = <<>>
    BY <2>2, Outcomes
  <2> QED BY <1>1, <1>3, <2>1, <2>2, <2>3, NoPlace, ReturnsRight
<1>5. CASE ~ Empty /\ call.expected.address = call.actual.address /\ Returns(Pass)
  <2>1. ArrayHolds(macro)
    BY <1>2, <1>5 DEF ArrayHolds
  <2>2. /\ pc' = "done" /\ UNCHANGED <<macro, call, elements, bytes, expAt, actAt>>
        /\ result' = Pass
    BY <1>5 DEF Returns
  <2>3. result'.verdict = "pass"
    BY <2>2, Outcomes
  <2> QED BY <1>1, <1>3, <2>1, <2>2, <2>3, NoPlace, ReturnsRight
<1>6. CASE /\ call.expected.address # call.actual.address
           /\ "NULL" \in {call.expected.address, call.actual.address}
           /\ Returns(Refuse("null"))
  <2>1. ~ ArrayHolds(macro)
    BY <1>6 DEF ArrayHolds
  <2>2. /\ pc' = "done" /\ UNCHANGED <<macro, call, elements, bytes, expAt, actAt>>
        /\ result' = Refuse("null")
    BY <1>6 DEF Returns
  <2>3. result'.verdict = "fail" /\ result'.reason = "null" /\ result'.place = <<>>
    BY <2>2, Outcomes
  <2> QED BY <1>1, <1>3, <2>1, <2>2, <2>3, NoPlace, ReturnsRight
<1>7. CASE /\ ~ Empty
           /\ call.expected.address # call.actual.address
           /\ "NULL" \notin {call.expected.address, call.actual.address}
           /\ pc' = "element"
           /\ elements' = call.num
           /\ UNCHANGED <<macro, call, bytes, expAt, actAt, result>>
  <2>1. UseInv'
    BY <1>1, <1>2, <1>7 DEF UseInv
  <2>2. Entered'
    BY <1>2, <1>7 DEF Entered
  <2>3. macro' = macro /\ call' = call /\ elements' = macro.num /\ actAt' = 0 /\ expAt' = 0
    BY <1>1, <1>2, <1>7
  <2>4. macro.num - elements' = 0 /\ AgreeUpTo(0)
    BY <1>2, <2>3 DEF AgreeUpTo
  <2>5. AgreeUpTo(0)' /\ ExpectedStart(0, macro.length)' = ExpectedStart(0, macro.length)
    BY <2>3, <2>4 DEF AgreeUpTo, ExpectedStart
  <2>6. NumbersInv'
    <3> SUFFICES ASSUME call.fn \in {"EqualIntArray", "ArrayWithin"}
                 PROVE  /\ actAt' = 0 * macro.type.length
                        /\ expAt' = ExpectedStart(0, macro.type.length)'
      BY <1>7, <2>2, <2>3, <2>4, <2>5 DEF NumbersInv
    <3>1. macro.type.length \in Nat
      <4>1. macro.type \in IntTypes
        BY <1>1, <1>2, FunctionOf, Names DEF IsUse, NumbersNames
      <4> QED BY <4>1, TypeFacts DEF Length
    <3> QED BY <2>3, <3>1 DEF ExpectedStart
  <2>7. MemoryInv'
    <3> SUFFICES ASSUME call.fn = "EqualMemory"
                 PROVE  /\ actAt' = 0 * macro.length
                        /\ expAt' = ExpectedStart(0, macro.length)'
      BY <1>7, <2>2, <2>3, <2>4, <2>5 DEF MemoryInv
    <3> QED BY <1>2, <2>3 DEF ExpectedStart
  <2>8. StringsInv'
    <3>1. 0 < macro.num
      BY <1>2, <1>7
    <3> QED BY <2>2, <2>3, <2>5, <3>1 DEF StringsInv
  <2>9. BytesInv' /\ CharsInv' /\ DoneInv'
    BY <1>7 DEF BytesInv, CharsInv, DoneInv
  <2> QED BY <2>1, <2>6, <2>7, <2>8, <2>9 DEF AssertInv
<1>8. \/ Empty /\ Returns(Refuse("pointless"))
      \/ ~ Empty /\ call.expected.address = call.actual.address /\ Returns(Pass)
      \/ /\ call.expected.address # call.actual.address
         /\ "NULL" \in {call.expected.address, call.actual.address}
         /\ Returns(Refuse("null"))
      \/ /\ ~ Empty
         /\ call.expected.address # call.actual.address
         /\ "NULL" \notin {call.expected.address, call.actual.address}
         /\ pc' = "element"
         /\ elements' = call.num
         /\ UNCHANGED <<macro, call, bytes, expAt, actAt, result>>
  <2>1. ~ Empty <=> call.num > 0 /\ (call.fn = "EqualMemory" => call.length > 0)
    BY <1>2
  <2> HIDE DEF Empty
  <2> QED BY <2>1 DEF EnterArray, Empty
<1> QED BY <1>4, <1>5, <1>6, <1>7, <1>8

\* One more element that agrees.
LEMMA OneMoreAgrees ==
  ASSUME NEW m, NEW i \in Nat, \A j \in 0..(i - 1) : ~ Differs(m, j), ~ Differs(m, i)
  PROVE  \A j \in 0..((i + 1) - 1) : ~ Differs(m, j)
<1>1. \A j \in 0..((i + 1) - 1) : j = i \/ j \in 0..(i - 1)
  OBVIOUS
<1> QED BY <1>1

LEMMA ElementStep ==
  ASSUME AssertInv, CompareElement
  PROVE  AssertInv'
<1> DEFINE i == macro.num - elements
           L == macro.type.length
           expected == Load(call.expected, expAt, call.style)
           actual == Load(call.actual, actAt, call.style)
<1>1. /\ UseInv /\ macro \in Macros /\ call = CallOf(macro) /\ pc = "element"
      /\ call.fn \in {"EqualIntArray", "ArrayWithin"} /\ elements \in Nat
      /\ bytes \in Nat /\ expAt \in Nat /\ actAt \in Nat
      /\ result = [verdict |-> "none"]
  BY DEF AssertInv, UseInv, CompareElement
<1>2. /\ Entered /\ i \in Nat /\ AgreeUpTo(i)
      /\ actAt = i * L /\ expAt = ExpectedStart(i, L)
  BY <1>1 DEF AssertInv, NumbersInv
<1>3. macro.name \in NumbersNames
  BY <1>1, FunctionOf
<1>4. /\ macro.name \in Arrays /\ macro.num \in Nat /\ call.num = macro.num
      /\ macro.name # "EQUAL_MEMORY"
  BY <1>1, <1>3, ArrayCall DEF NumbersNames
<1>5. Holds(macro) <=> ArrayHolds(macro)
  BY <1>4, HoldsOfArray
<1>6. call.style = macro.type /\ call.flags \in {"ARRAY_TO_VAL", "ARRAY_TO_ARRAY"}
  BY <1>1, <1>3, NumbersCall
<1>7. L \in Nat
  <2>1. macro.type \in IntTypes
    BY <1>1, <1>3, Names DEF IsUse, NumbersNames
  <2> QED BY <2>1, TypeFacts DEF Length
<1>8. CASE elements = 0 /\ Returns(Pass)
  <2>1. i = macro.num
    BY <1>4, <1>8
  <2>2. ArrayHolds(macro)
    BY <1>2, <1>4, <2>1 DEF Entered, AgreeUpTo, ArrayHolds
  <2>3. /\ pc' = "done" /\ UNCHANGED <<macro, call, elements, bytes, expAt, actAt>>
        /\ result' = Pass
    BY <1>8 DEF Returns
  <2>4. result'.verdict = "pass"
    BY <2>3, Outcomes
  <2> QED BY <1>1, <1>5, <2>2, <2>3, <2>4, ReturnsRight
<1>9. ASSUME elements > 0
      PROVE  /\ i \in 0..(macro.num - 1)
             /\ Agree(expected, actual) <=> ~ Differs(macro, i)
  <2>1. i \in 0..(macro.num - 1)
    BY <1>1, <1>2, <1>4, <1>9
  <2>2. "NULL" \notin {call.expected.address, call.actual.address}
    BY <1>2 DEF Entered
  <2>3. /\ expAt = IF call.flags = "ARRAY_TO_VAL" THEN 0 ELSE i * L
        /\ actual = Load(call.actual, i * L, call.style)
    BY <1>2 DEF ExpectedStart
  <2>4. /\ call.fn = "EqualIntArray" => (expected = actual <=> ~ Differs(macro, i))
        /\ call.fn = "ArrayWithin" =>
             (Apart(call.style, expected, actual) <= call.delta <=> ~ Differs(macro, i))
    <3> HIDE DEF i
    <3> QED BY <1>1, <1>3, <2>1, <2>2, <2>3, AgreeRight
  <2> HIDE DEF expected, actual, i
  <2> QED BY <1>1, <2>1, <2>4 DEF Agree
<1>10. CASE elements > 0 /\ Agree(expected, actual) /\ NextElement
  <2>1. i \in 0..(macro.num - 1) /\ ~ Differs(macro, i)
    BY <1>9, <1>10
  <2>2. /\ elements' = elements - 1 /\ actAt' = actAt + L
        /\ expAt' = IF call.flags = "ARRAY_TO_ARRAY" THEN expAt + L ELSE expAt
        /\ macro' = macro /\ call' = call /\ pc' = pc /\ bytes' = bytes /\ result' = result
    BY <1>6, <1>10 DEF NextElement
  <2>3. UseInv'
    BY <1>1, <1>7, <1>10, <2>2 DEF UseInv
  <2>4. macro.num - elements' = i + 1 /\ i + 1 \in Nat
    BY <1>1, <1>2, <1>4, <2>2
  <2>5. \A j \in 0..((i + 1) - 1) : ~ Differs(macro, j)
    <3> HIDE DEF i
    <3> QED BY <1>2, <2>1, OneMoreAgrees DEF AgreeUpTo
  <2>6. Entered'
    BY <1>2, <2>2 DEF Entered
  <2>7. actAt' = (i + 1) * L
    <3> DEFINE k == i
    <3> HIDE DEF k, L
    <3>1. actAt' = k * L + L /\ k \in Nat
      BY <1>2, <2>2 DEF k
    <3> QED BY <1>7, <3>1 DEF k
  <2>8. expAt' = IF call.flags = "ARRAY_TO_VAL" THEN 0 ELSE (i + 1) * L
    <3>1. CASE call.flags = "ARRAY_TO_VAL"
      BY <1>2, <2>2, <3>1 DEF ExpectedStart
    <3>2. CASE call.flags = "ARRAY_TO_ARRAY"
      BY <1>2, <2>2, <2>7, <3>2 DEF ExpectedStart
    <3> QED BY <1>6, <3>1, <3>2
  <2>9. NumbersInv'
    <3>1. macro'.num - elements' = i + 1
      BY <2>2, <2>4
    <3>2. (macro.num - elements)' = i + 1
      BY <3>1
    <3>3. actAt' = (macro'.num - elements') * macro'.type.length
      BY <2>2, <2>7, <3>1
    <3>4. expAt' = ExpectedStart(macro.num - elements, macro.type.length)'
      BY <2>2, <2>8, <3>1 DEF ExpectedStart
    <3>5. AgreeUpTo(macro.num - elements)'
      BY <2>2, <2>4, <2>5 DEF AgreeUpTo
    <3> QED BY <2>4, <2>6, <3>1, <3>3, <3>4, <3>5 DEF NumbersInv
  <2>10. MemoryInv' /\ BytesInv' /\ StringsInv' /\ CharsInv' /\ DoneInv'
    BY <1>1, <2>2 DEF MemoryInv, BytesInv, StringsInv, CharsInv, DoneInv
  <2> QED BY <2>3, <2>9, <2>10 DEF AssertInv
<1>11. CASE /\ elements > 0 /\ ~ Agree(expected, actual)
            /\ Returns(Fail("differs", <<Place(elements)>>, Shown(expected), Shown(actual)))
  <2>1. i \in 0..(macro.num - 1) /\ Differs(macro, i)
    BY <1>9, <1>11
  <2>2. Place(elements) = i
    BY <1>1, <1>4 DEF Place
  <2>3. FirstPlace(macro) = <<i>>
    <3> HIDE DEF i
    <3> QED BY <1>2, <1>3, <1>4, <2>1, PlaceOfElement DEF AgreeUpTo
  <2>4. ~ ArrayHolds(macro)
    BY <1>2, <2>1 DEF Entered, ArrayHolds
  <2>5. /\ pc' = "done" /\ UNCHANGED <<macro, call, elements, bytes, expAt, actAt>>
        /\ result' = Fail("differs", <<Place(elements)>>, Shown(expected), Shown(actual))
    BY <1>11 DEF Returns
  <2>6. result'.verdict = "fail" /\ result'.place = <<i>>
    BY <2>2, <2>5, Outcomes
  <2>7. PlaceExists(macro, result'.place)
    BY <1>4, <2>1, <2>6 DEF PlaceExists
  <2> QED BY <1>1, <1>5, <2>3, <2>4, <2>5, <2>6, <2>7, ReturnsRight
<1> QED BY <1>1, <1>8, <1>10, <1>11 DEF CompareElement

LEMMA MemoryElementStep ==
  ASSUME AssertInv, StartBytes
  PROVE  AssertInv'
<1> DEFINE i == macro.num - elements
<1>1. /\ UseInv /\ macro \in Macros /\ call = CallOf(macro) /\ pc = "element"
      /\ call.fn = "EqualMemory" /\ elements \in Nat
      /\ bytes \in Nat /\ expAt \in Nat /\ actAt \in Nat
      /\ result = [verdict |-> "none"]
  BY DEF AssertInv, UseInv, StartBytes
<1>2. /\ Entered /\ i \in Nat /\ AgreeUpTo(i)
      /\ actAt = i * macro.length /\ expAt = ExpectedStart(i, macro.length)
  BY <1>1 DEF AssertInv, MemoryInv
<1>3. /\ macro.name = "EQUAL_MEMORY" /\ macro.name \in Arrays
      /\ macro.num \in Nat /\ macro.length \in Nat /\ call.length = macro.length
  BY <1>1, FunctionOf, ArrayCall
<1>4. CASE elements = 0 /\ Returns(Pass)
  <2>1. i = macro.num
    BY <1>3, <1>4
  <2>2. ArrayHolds(macro)
    BY <1>2, <1>3, <2>1 DEF Entered, AgreeUpTo, ArrayHolds
  <2>3. /\ pc' = "done" /\ UNCHANGED <<macro, call, elements, bytes, expAt, actAt>>
        /\ result' = Pass
    BY <1>4 DEF Returns
  <2>4. result'.verdict = "pass" /\ (Holds(macro) <=> ArrayHolds(macro))
    BY <1>3, <2>3, Outcomes, HoldsOfArray
  <2> QED BY <1>1, <2>2, <2>3, <2>4, ReturnsRight
<1>5. CASE /\ elements > 0 /\ elements' = elements - 1 /\ bytes' = call.length /\ pc' = "byte"
           /\ UNCHANGED <<macro, call, expAt, actAt, result>>
  <2>1. UseInv'
    BY <1>1, <1>3, <1>5 DEF UseInv
  <2>2. Entered'
    BY <1>2, <1>5 DEF Entered
  <2>3. /\ macro.num - elements' - 1 = i /\ macro.length - bytes' = 0
        /\ macro' = macro /\ call' = call /\ actAt' = actAt /\ expAt' = expAt
    BY <1>1, <1>3, <1>5
  <2>4. BytesInv'
    <3> DEFINE next == macro.num - elements' - 1
               b == macro.length - bytes'
    <3>1. next = i /\ b = 0 /\ next \in Nat /\ b \in Nat
      BY <1>2, <2>3
    <3>2. actAt' = next * macro.length + b
      <4>1. i * macro.length \in Int
        <5> HIDE DEF i
        <5> QED BY <1>2, <1>3
      <4> QED BY <1>2, <2>3, <4>1
    <3>3. expAt' = ExpectedStart(macro.num - elements - 1, macro.length)' + b
      <4>1. expAt' = ExpectedStart(macro.num - elements - 1, macro.length)'
        BY <1>2, <2>3 DEF ExpectedStart
      <4>2. expAt' \in Int
        BY <1>1, <2>3
      <4> QED BY <3>1, <4>1, <4>2
    <3>4. AgreeUpTo(macro.num - elements - 1)'
      BY <1>2, <2>3 DEF AgreeUpTo
    <3>5. BytesAgreeUpTo(macro.num - elements - 1, macro.length - bytes)'
      BY <2>3 DEF BytesAgreeUpTo
    <3>6. call'.fn = "EqualMemory"
      BY <1>1, <2>3
    <3> QED BY <2>2, <2>3, <3>1, <3>2, <3>3, <3>4, <3>5, <3>6 DEF BytesInv
  <2>5. NumbersInv' /\ MemoryInv' /\ StringsInv' /\ CharsInv' /\ DoneInv'
    BY <1>5 DEF NumbersInv, MemoryInv, StringsInv, CharsInv, DoneInv
  <2> QED BY <2>1, <2>4, <2>5 DEF AssertInv
<1> QED BY <1>4, <1>5 DEF StartBytes

\* The bytes compared are those of the arguments.
LEMMA BytesAt ==
  ASSUME NEW m \in Macros, m.name = "EQUAL_MEMORY", NEW c, c = CallOf(m),
         NEW i \in Nat, NEW b \in Nat
  PROVE  ByteDiffers(m, i, b) <=>
           c.expected.at[(IF c.flags = "ARRAY_TO_VAL" THEN 0 ELSE i * m.length) + b + 1]
             # c.actual.at[i * m.length + b + 1]
<1>1. c.flags = m.flags /\ c.actual = Cells(m.actual) /\ c.expected = Cells(m.expected)
  BY MemoryCall
<1>2. c.actual.at = m.actual.elements /\ c.expected.at = m.expected.elements
  BY <1>1 DEF Cells
<1> QED BY <1>1, <1>2 DEF ByteDiffers

\* There are as many bytes as the loop reads.
LEMMA BytesInBounds ==
  ASSUME NEW m \in Macros, m.name = "EQUAL_MEMORY", NEW c, c = CallOf(m),
         "NULL" \notin {c.expected.address, c.actual.address},
         NEW i \in 0..(m.num - 1), NEW b \in 0..(m.length - 1), NEW start,
         start = IF c.flags = "ARRAY_TO_VAL" THEN 0 ELSE i * m.length
  PROVE  /\ i * m.length + b < Len(c.actual.at)
         /\ start + b < Len(c.expected.at)
<1> DEFINE L == m.length
           N == m.num
<1>1. /\ c.flags = m.flags /\ c.actual = Cells(m.actual) /\ c.expected = Cells(m.expected)
      /\ c.flags \in {"ARRAY_TO_VAL", "ARRAY_TO_ARRAY"}
  BY MemoryCall, Names DEF IsUse
<1>2. /\ L \in Nat /\ N \in Nat
      /\ m.actual.elements \in Seq(Int) /\ m.expected.elements \in Seq(Int)
      /\ IsArray(m.actual, N * L)
      /\ IsArray(m.expected, IF m.flags = "ARRAY_TO_VAL" THEN L ELSE N * L)
  BY Names DEF IsUse, IsMemory
<1>3. /\ c.actual.at = m.actual.elements /\ c.expected.at = m.expected.elements
      /\ m.actual.address # "NULL" /\ m.expected.address # "NULL"
  BY <1>1 DEF Cells
<1>4. /\ N * L <= Len(c.actual.at)
      /\ (IF m.flags = "ARRAY_TO_VAL" THEN L ELSE N * L) <= Len(c.expected.at)
      /\ Len(c.actual.at) \in Nat /\ Len(c.expected.at) \in Nat
  BY <1>2, <1>3, LenProperties DEF IsArray
<1> DEFINE la == Len(c.actual.at)
           le == Len(c.expected.at)
<1>5. i \in Nat /\ i + 1 <= N /\ b \in Nat /\ b < L
  BY <1>2
<1> HIDE DEF L, N, la, le
<1>6. (i + 1) * L <= N * L /\ (i + 1) * L = i * L + L /\ i * L \in Nat /\ N * L \in Nat
  BY <1>2, <1>5
<1>7. i * L + b < N * L
  <2> DEFINE p == i * L
             q == N * L
  <2>1. p + L <= q /\ p \in Nat /\ q \in Nat
    BY <1>6
  <2> HIDE DEF p, q
  <2>2. p + b < q
    BY <1>2, <1>5, <2>1
  <2> QED BY <2>2 DEF p, q
<1>8. i * L + b < la
  BY <1>4, <1>5, <1>6, <1>7 DEF la, L, N
<1>9. start + b < le
  <2>1. CASE c.flags = "ARRAY_TO_VAL"
    <3>1. start = 0 /\ L <= le /\ le \in Nat
      BY <1>1, <1>4, <2>1 DEF le
    <3> QED BY <1>2, <1>5, <3>1
  <2>2. CASE c.flags = "ARRAY_TO_ARRAY"
    <3>1. start = i * L /\ N * L <= le /\ le \in Nat
      BY <1>1, <1>4, <2>2 DEF le, L
    <3> QED BY <1>5, <1>6, <1>7, <3>1
  <2> QED BY <1>1, <2>1, <2>2
<1> QED BY <1>8, <1>9 DEF la, le, L

\* The place of a byte in an element.
LEMMA PairOf ==
  ASSUME NEW x \in Nat, NEW y \in Nat
  PROVE  <<x>> \o <<y>> = <<x, y>> /\ <<>> \o <<y>> = <<y>>
<1> DEFINE s == <<x>> \o <<y>>
<1>1. <<x>> \in Seq(Nat) /\ <<y>> \in Seq(Nat) /\ <<x, y>> \in Seq(Nat)
  OBVIOUS
<1>2. /\ Len(<<x>>) = 1 /\ Len(<<y>>) = 1 /\ Len(<<x, y>>) = 2
      /\ <<x, y>>[1] = x /\ <<x, y>>[2] = y /\ <<x>>[1] = x /\ <<y>>[1] = y
  OBVIOUS
<1>3. s \in Seq(Nat) /\ Len(s) = 2 /\ s[1] = x /\ s[2] = y
  BY <1>1, <1>2, ConcatProperties
<1>4. s = <<x, y>>
  <2> HIDE DEF s
  <2> QED BY <1>1, <1>2, <1>3, SeqEqual
<1>5. <<>> \o <<y>> = <<y>>
  OBVIOUS
<1> QED BY <1>4, <1>5

LEMMA ByteStep ==
  ASSUME AssertInv, CompareByte
  PROVE  AssertInv'
<1> DEFINE i == macro.num - elements - 1
           b == macro.length - bytes
           expected == call.expected.at[expAt + 1]
           actual == call.actual.at[actAt + 1]
           element == IF call.num > 1 THEN <<call.num - elements - 1>> ELSE <<>>
           place == element \o <<call.length - (bytes - 1) - 1>>
<1>1. /\ UseInv /\ macro \in Macros /\ call = CallOf(macro) /\ pc = "byte"
      /\ elements \in Nat /\ bytes \in Nat /\ expAt \in Nat /\ actAt \in Nat
      /\ result = [verdict |-> "none"]
  BY DEF AssertInv, UseInv, CompareByte
<1>2. /\ call.fn = "EqualMemory" /\ Entered /\ i \in Nat /\ b \in Nat
      /\ actAt = i * macro.length + b /\ expAt = ExpectedStart(i, macro.length) + b
      /\ AgreeUpTo(i) /\ BytesAgreeUpTo(i, b)
  BY <1>1 DEF AssertInv, BytesInv
<1>3. /\ macro.name = "EQUAL_MEMORY" /\ macro.name \in Arrays
      /\ macro.num \in Nat /\ macro.length \in Nat
      /\ call.length = macro.length /\ call.num = macro.num
  BY <1>1, <1>2, FunctionOf, ArrayCall
<1>4. call.flags \in {"ARRAY_TO_VAL", "ARRAY_TO_ARRAY"}
  <2>1. call.flags = macro.flags
    BY <1>1, <1>3, MemoryCall
  <2> QED BY <1>1, <1>3, <2>1, Names DEF IsUse
<1>5. i \in 0..(macro.num - 1)
  BY <1>1, <1>2, <1>3
<1>6. i * macro.length \in Nat /\ ExpectedStart(i, macro.length) \in Nat
  <2> HIDE DEF i
  <2> QED BY <1>2, <1>3 DEF ExpectedStart
<1>7. CASE /\ bytes = 0 /\ pc' = "element"
           /\ expAt' = IF call.flags = "ARRAY_TO_VAL" THEN 0 ELSE expAt
           /\ UNCHANGED <<macro, call, elements, bytes, actAt, result>>
  <2>1. UseInv'
    BY <1>1, <1>7 DEF UseInv
  <2>2. Entered'
    BY <1>2, <1>7 DEF Entered
  <2>3. /\ macro' = macro /\ call' = call /\ elements' = elements
        /\ macro.num - elements = i + 1 /\ b = macro.length
    BY <1>1, <1>3, <1>7
  <2>4. ~ Differs(macro, i)
    BY <1>2, <1>3, <2>3 DEF BytesAgreeUpTo, Differs
  <2>5. \A j \in 0..((i + 1) - 1) : ~ Differs(macro, j)
    <3> HIDE DEF i
    <3> QED BY <1>2, <2>4, OneMoreAgrees DEF AgreeUpTo
  <2>6. (i + 1) * macro.length = i * macro.length + b
    <3>1. b = macro.length
      BY <2>3
    <3> HIDE DEF i, b
    <3> QED BY <1>2, <1>3, <3>1
  <2>7. actAt' = (macro.num - elements) * macro.length
    BY <1>2, <1>7, <2>3, <2>6
  <2>8. expAt' = ExpectedStart(macro.num - elements, macro.length)'
    <3>1. CASE call.flags = "ARRAY_TO_VAL"
      BY <1>7, <2>3, <3>1 DEF ExpectedStart
    <3>2. CASE call.flags = "ARRAY_TO_ARRAY"
      <4>1. expAt' = i * macro.length + b
        BY <1>2, <1>7, <3>2 DEF ExpectedStart
      <4>2. ExpectedStart(macro.num - elements, macro.length)' = (i + 1) * macro.length
        BY <2>3, <3>2 DEF ExpectedStart
      <4> QED BY <2>6, <4>1, <4>2
    <3> QED BY <1>4, <3>1, <3>2
  <2>9. MemoryInv'
    <3>1. AgreeUpTo(macro.num - elements)'
      BY <2>3, <2>5 DEF AgreeUpTo
    <3>2. macro.num - elements \in Nat
      BY <1>2, <2>3
    <3> QED BY <2>2, <2>3, <2>7, <2>8, <3>1, <3>2 DEF MemoryInv
  <2>10. NumbersInv' /\ BytesInv' /\ StringsInv' /\ CharsInv' /\ DoneInv'
    BY <1>2, <1>7 DEF NumbersInv, BytesInv, StringsInv, CharsInv, DoneInv
  <2> QED BY <2>1, <2>9, <2>10 DEF AssertInv
<1>8. ASSUME bytes > 0
      PROVE  b \in 0..(macro.length - 1) /\ (ByteDiffers(macro, i, b) <=> expected # actual)
  <2>1. b \in 0..(macro.length - 1)
    BY <1>1, <1>2, <1>3, <1>8
  <2> DEFINE start == ExpectedStart(i, macro.length)
  <2>2. start = IF call.flags = "ARRAY_TO_VAL" THEN 0 ELSE i * macro.length
    BY DEF ExpectedStart
  <2>3. expAt + 1 = start + b + 1 /\ actAt + 1 = i * macro.length + b + 1
    BY <1>2, <1>6
  <2>4. ByteDiffers(macro, i, b) <=>
          call.expected.at[start + b + 1] # call.actual.at[i * macro.length + b + 1]
    <3>1. macro \in Macros /\ call = CallOf(macro) /\ i \in Nat /\ b \in Nat
      BY <1>1, <1>2
    <3> HIDE DEF i, b, start
    <3>2. ByteDiffers(macro, i, b) <=>
            call.expected.at[(IF call.flags = "ARRAY_TO_VAL" THEN 0 ELSE i * macro.length) + b + 1]
              # call.actual.at[i * macro.length + b + 1]
      BY <1>3, <3>1, BytesAt
    <3> QED BY <2>2, <3>2
  <2> QED BY <2>1, <2>3, <2>4
<1>9. CASE /\ bytes > 0 /\ expected = actual
           /\ bytes' = bytes - 1 /\ expAt' = expAt + 1 /\ actAt' = actAt + 1
           /\ UNCHANGED <<macro, call, pc, elements, result>>
  <2>1. UseInv'
    BY <1>1, <1>9 DEF UseInv
  <2>2. Entered'
    BY <1>2, <1>9 DEF Entered
  <2>3. /\ macro' = macro /\ call' = call /\ elements' = elements
        /\ macro.length - bytes' = b + 1
    BY <1>1, <1>3, <1>9
  <2>4. \A j \in 0..((b + 1) - 1) : ~ ByteDiffers(macro, i, j)
    <3>1. ~ ByteDiffers(macro, i, b)
      BY <1>8, <1>9
    <3>2. \A j \in 0..(b - 1) : ~ ByteDiffers(macro, i, j)
      BY <1>2 DEF BytesAgreeUpTo
    <3> HIDE DEF i, b
    <3>3. \A j \in 0..((b + 1) - 1) : j = b \/ j \in 0..(b - 1)
      BY <1>2
    <3> QED BY <3>1, <3>2, <3>3
  <2>5. actAt' = i * macro.length + (b + 1)
    BY <1>2, <1>6, <1>9
  <2>6. expAt' = ExpectedStart(i, macro.length) + (b + 1)
    BY <1>2, <1>6, <1>9
  <2>7. BytesInv'
    <3>1. AgreeUpTo(macro.num - elements - 1)'
      BY <1>2, <2>3 DEF AgreeUpTo
    <3>2. BytesAgreeUpTo(macro.num - elements - 1, macro.length - bytes)'
      BY <2>3, <2>4 DEF BytesAgreeUpTo
    <3>3. ExpectedStart(macro.num - elements - 1, macro.length)' = ExpectedStart(i, macro.length)
      BY <2>3 DEF ExpectedStart
    <3>4. b + 1 \in Nat
      BY <1>2
    <3> QED BY <1>2, <2>2, <2>3, <2>5, <2>6, <3>1, <3>2, <3>3, <3>4 DEF BytesInv
  <2>8. NumbersInv' /\ MemoryInv' /\ StringsInv' /\ CharsInv' /\ DoneInv'
    BY <1>1, <1>9 DEF NumbersInv, MemoryInv, StringsInv, CharsInv, DoneInv
  <2> QED BY <2>1, <2>7, <2>8 DEF AssertInv
<1>10. CASE /\ bytes > 0 /\ expected # actual
            /\ Returns(Fail("differs", place, PrintByStyle(expected, HEX8),
                            PrintByStyle(actual, HEX8)))
  <2>1. b \in 0..(macro.length - 1) /\ ByteDiffers(macro, i, b)
    BY <1>8, <1>10
  <2>2. FirstPlace(macro) = IF macro.num > 1 THEN <<i, b>> ELSE <<b>>
    <3>1. /\ \A j \in 0..(i - 1) : ~ Differs(macro, j)
          /\ \A j \in 0..(b - 1) : ~ ByteDiffers(macro, i, j)
      BY <1>2 DEF AgreeUpTo, BytesAgreeUpTo
    <3> HIDE DEF i, b
    <3> QED BY <1>3, <1>5, <2>1, <3>1, PlaceOfByte
  <2>3. place = IF macro.num > 1 THEN <<i, b>> ELSE <<b>>
    <3>1. call.length - (bytes - 1) - 1 = b /\ call.num - elements - 1 = i
      BY <1>1, <1>3
    <3>2. place = (IF macro.num > 1 THEN <<i>> ELSE <<>>) \o <<b>>
      BY <1>3, <3>1
    <3> HIDE DEF i, b, place
    <3>3. <<i>> \o <<b>> = <<i, b>> /\ <<>> \o <<b>> = <<b>>
      BY <1>2, PairOf
    <3> QED BY <3>2, <3>3
  <2>4. ~ ArrayHolds(macro)
    <3>1. Differs(macro, i)
      BY <1>3, <2>1 DEF Differs
    <3> QED BY <1>2, <1>5, <3>1 DEF Entered, ArrayHolds
  <2>5. Holds(macro) <=> ArrayHolds(macro)
    BY <1>3, HoldsOfArray
  <2> HIDE DEF place, expected, actual
  <2>6. /\ pc' = "done" /\ UNCHANGED <<macro, call, elements, bytes, expAt, actAt>>
        /\ result' = Fail("differs", place, PrintByStyle(expected, HEX8),
                          PrintByStyle(actual, HEX8))
    BY <1>10 DEF Returns
  <2>7. result'.verdict = "fail" /\ result'.place = place
    BY <2>6, Outcomes
  <2>8. PlaceExists(macro, result'.place)
    <3>1. i \in 0..(macro.num - 1) /\ b \in 0..(macro.length - 1)
      BY <1>5, <2>1
    <3>2. macro.num > 1 \/ macro.num = 1
      BY <1>3, <3>1
    <3> HIDE DEF i, b
    <3> QED BY <1>3, <2>3, <2>7, <3>1, <3>2 DEF PlaceExists
  <2> QED BY <1>1, <1>2, <2>2, <2>3, <2>4, <2>5, <2>6, <2>7, <2>8, ReturnsRight
<1> QED BY <1>7, <1>9, <1>10 DEF CompareByte

-----------------------------------------------------------------------------
(* Strings.                                                                *)

\* The strings at hand are strings, and tell whether the element differs.
LEMMA StringsAtHand ==
  ASSUME UseInv, call.fn \in StringFunctions,
         call.fn = "EqualStringArray" => Entered /\ actAt < macro.num
  PROVE  /\ macro.name \in StringNames \cup StringsNames
         /\ macro.name \in StringsNames <=> call.fn = "EqualStringArray"
         /\ IsString(Expected) /\ IsString(Actual)
         /\ macro.name \in StringNames => Expected = macro.expected /\ Actual = macro.actual
         /\ macro.name = "EQUAL_STRING_LEN" <=> call.fn = "EqualStringLen"
         /\ macro.name = "EQUAL_STRING_LEN" => call.length = macro.length /\ macro.length \in Nat
         /\ macro.name \in StringsNames =>
              /\ macro.num \in Nat /\ call.num = macro.num
              /\ actAt < Len(call.actual.at)
              /\ Differs(macro, actAt) <=> Text(Expected) # Text(Actual)
<1>1. macro \in Macros /\ call = CallOf(macro) /\ actAt \in Nat /\ IsUse(macro)
  BY Names DEF UseInv
<1>2. /\ macro.name \in StringNames \cup StringsNames
      /\ macro.name \in StringsNames <=> call.fn = "EqualStringArray"
      /\ macro.name = "EQUAL_STRING_LEN" <=> call.fn = "EqualStringLen"
  BY <1>1, FunctionOf DEF StringFunctions, StringNames, StringsNames
<1>3. CASE macro.name \in StringNames
  <2>1. call.fn # "EqualStringArray" /\ macro.name \notin StringsNames
    BY <1>2, <1>3 DEF StringNames, StringsNames
  <2>2. Expected = macro.expected /\ Actual = macro.actual
    BY <1>1, <1>3, <2>1, StringCall DEF Expected, Actual
  <2>3. IsString(macro.expected) /\ IsString(macro.actual)
    BY <1>1, <1>3 DEF IsUse, StringNames
  <2>4. macro.name = "EQUAL_STRING_LEN" => call.length = macro.length /\ macro.length \in Nat
    BY <1>1, <1>3, StringCall DEF IsUse
  <2> QED BY <1>2, <2>1, <2>2, <2>3, <2>4
<1>4. CASE macro.name \in StringsNames
  <2>1. /\ call.fn = "EqualStringArray" /\ call.num = macro.num
        /\ call.flags = IF macro.name = "EACH_EQUAL_STRING" THEN "ARRAY_TO_VAL"
                        ELSE "ARRAY_TO_ARRAY"
        /\ call.actual = Cells(macro.actual)
        /\ call.expected = IF macro.name = "EACH_EQUAL_STRING"
                           THEN StringPointer(macro.expected) ELSE Cells(macro.expected)
    BY <1>1, <1>4, StringsCall
  <2>2. /\ macro.num \in Nat /\ IsStrings(macro.actual, macro.num)
        /\ macro.name = "EACH_EQUAL_STRING" => IsString(macro.expected)
        /\ macro.name # "EACH_EQUAL_STRING" => IsStrings(macro.expected, macro.num)
    BY <1>1, <1>4 DEF IsUse, StringsNames
  <2>3. "NULL" \notin {call.expected.address, call.actual.address} /\ actAt < macro.num
    BY <2>1 DEF Entered
  <2>4. ASSUME NEW array, IsStrings(array, macro.num), array.address # "NULL"
        PROVE  actAt < Len(array.elements) /\ IsString(array.elements[actAt + 1])
    <3>1. /\ array.elements \in Seq(Seq(Int)) /\ macro.num <= Len(array.elements)
          /\ \A k \in DOMAIN array.elements : IsString(array.elements[k])
      BY <2>4 DEF IsStrings, IsArray
    <3>2. Len(array.elements) \in Nat /\ DOMAIN array.elements = 1..Len(array.elements)
      BY <3>1, LenProperties
    <3>3. actAt < Len(array.elements) /\ actAt + 1 \in 1..Len(array.elements)
      BY <1>1, <2>2, <2>3, <3>1, <3>2
    <3> QED BY <3>1, <3>2, <3>3
  <2>5. /\ call.actual.at = macro.actual.elements /\ macro.actual.address # "NULL"
        /\ Actual = macro.actual.elements[actAt + 1]
    BY <2>1, <2>3 DEF Cells, Actual
  <2>6. CASE macro.name = "EACH_EQUAL_STRING"
    <3>1. call.expected.at = macro.expected /\ call.flags = "ARRAY_TO_VAL"
      BY <2>1, <2>6 DEF StringPointer
    <3>2. Expected = macro.expected
      BY <2>1, <3>1 DEF Expected
    <3>3. Differs(macro, actAt) <=> Text(macro.expected) # Text(macro.actual.elements[actAt + 1])
      BY <2>6 DEF Differs
    <3> QED BY <1>2, <1>4, <2>1, <2>2, <2>4, <2>5, <2>6, <3>2, <3>3 DEF StringNames, StringsNames
  <2>7. CASE macro.name = "EQUAL_STRING_ARRAY"
    <3>1. /\ call.expected.at = macro.expected.elements /\ macro.expected.address # "NULL"
          /\ call.flags = "ARRAY_TO_ARRAY"
      BY <2>1, <2>3, <2>7 DEF Cells
    <3>2. Expected = macro.expected.elements[actAt + 1]
      BY <2>1, <3>1 DEF Expected
    <3>3. Differs(macro, actAt) <=>
            Text(macro.expected.elements[actAt + 1]) # Text(macro.actual.elements[actAt + 1])
      BY <2>7 DEF Differs
    <3> QED BY <1>2, <1>4, <2>1, <2>2, <2>4, <2>5, <2>7, <3>1, <3>2, <3>3
            DEF StringNames, StringsNames
  <2> QED BY <1>4, <2>6, <2>7 DEF StringsNames
<1> QED BY <1>2, <1>3, <1>4

\* The pair of strings at hand is as the macro asks.
PairRight ==
  IF call.fn = "EqualStringArray" THEN ~ Differs(macro, actAt) ELSE Holds(macro)

\* What the invariant says wherever strings are compared.
Comparing ==
  /\ UseInv /\ call.fn \in StringFunctions
  /\ call.fn = "EqualStringArray" => Entered /\ actAt < macro.num /\ AgreeUpTo(actAt)
  /\ result = [verdict |-> "none"]

LEMMA AgreeingStrings ==
  ASSUME Comparing, PairRight, StringsAgree
  PROVE  AssertInv'
<1>1. /\ UseInv /\ macro \in Macros /\ call = CallOf(macro)
      /\ elements \in Nat /\ bytes \in Nat /\ expAt \in Nat /\ actAt \in Nat
      /\ result = [verdict |-> "none"]
  BY DEF Comparing, UseInv
<1>2. /\ macro.name \in StringNames \cup StringsNames
      /\ macro.name \in StringsNames <=> call.fn = "EqualStringArray"
      /\ macro.name \in StringsNames => macro.num \in Nat /\ call.num = macro.num
  BY StringsAtHand DEF Comparing
<1>3. CASE /\ call.fn = "EqualStringArray" /\ actAt + 1 < call.num
           /\ pc' = "element" /\ actAt' = actAt + 1
           /\ UNCHANGED <<macro, call, elements, bytes, expAt, result>>
  <2>1. Entered /\ AgreeUpTo(actAt) /\ ~ Differs(macro, actAt)
    BY <1>3 DEF Comparing, PairRight
  <2>2. UseInv'
    BY <1>1, <1>3 DEF UseInv
  <2>3. Entered'
    BY <1>3, <2>1 DEF Entered
  <2>4. \A j \in 0..((actAt + 1) - 1) : ~ Differs(macro, j)
    BY <1>1, <2>1, OneMoreAgrees DEF AgreeUpTo
  <2>5. AgreeUpTo(actAt)'
    BY <1>3, <2>4 DEF AgreeUpTo
  <2>6. StringsInv'
    BY <1>2, <1>3, <2>3, <2>5 DEF StringsInv
  <2>7. NumbersInv' /\ MemoryInv' /\ BytesInv' /\ CharsInv' /\ DoneInv'
    BY <1>3 DEF NumbersInv, MemoryInv, BytesInv, CharsInv, DoneInv
  <2> QED BY <2>2, <2>6, <2>7 DEF AssertInv
<1>4. CASE (call.fn = "EqualStringArray" => actAt + 1 = call.num) /\ Returns(Pass)
  <2>1. Holds(macro)
    <3>1. CASE call.fn = "EqualStringArray"
      <4>1. Entered /\ AgreeUpTo(actAt) /\ ~ Differs(macro, actAt) /\ actAt + 1 = macro.num
        BY <1>2, <1>4, <3>1 DEF Comparing, PairRight
      <4>2. \A j \in 0..(macro.num - 1) : ~ Differs(macro, j)
        <5>1. \A j \in 0..((actAt + 1) - 1) : ~ Differs(macro, j)
          BY <1>1, <4>1, OneMoreAgrees DEF AgreeUpTo
        <5> QED BY <4>1, <5>1
      <4>3. ArrayHolds(macro)
        BY <4>1, <4>2 DEF Entered, ArrayHolds
      <4>4. macro.name \in Arrays
        BY <1>2, <3>1 DEF StringsNames, Arrays
      <4> QED BY <4>3, <4>4, HoldsOfArray
    <3>2. CASE call.fn # "EqualStringArray"
      BY <3>2 DEF PairRight
    <3> QED BY <3>1, <3>2
  <2>2. /\ pc' = "done" /\ UNCHANGED <<macro, call, elements, bytes, expAt, actAt>>
        /\ result' = Pass
    BY <1>4 DEF Returns
  <2>3. result'.verdict = "pass"
    BY <2>2, Outcomes
  <2> QED BY <1>1, <2>1, <2>2, <2>3, ReturnsRight
<1> QED BY <1>3, <1>4 DEF StringsAgree

LEMMA DifferingStrings ==
  ASSUME Comparing, ~ PairRight, StringsDiffer
  PROVE  AssertInv'
<1>1. /\ UseInv /\ macro \in Macros /\ call = CallOf(macro) /\ actAt \in Nat
  BY DEF Comparing, UseInv
<1>2. /\ macro.name \in StringNames \cup StringsNames
      /\ macro.name \in StringsNames <=> call.fn = "EqualStringArray"
      /\ macro.name \in StringsNames => macro.num \in Nat /\ call.num = macro.num
  BY StringsAtHand DEF Comparing
<1> DEFINE place == IF call.fn = "EqualStringArray" /\ call.num > 1 THEN <<actAt>> ELSE <<>>
<1>3. PICK expected \in Printed(Expected), actual \in Printed(Actual) :
        Returns(Fail("differs", place, expected, actual))
  BY DEF StringsDiffer
<1>4. /\ pc' = "done" /\ UNCHANGED <<macro, call, elements, bytes, expAt, actAt>>
      /\ result' = Fail("differs", place, expected, actual)
  BY <1>3 DEF Returns
<1> HIDE DEF place
<1>5. result'.verdict = "fail" /\ result'.place = place
  BY <1>4, Outcomes
<1>6. call.fn = "EqualStringArray" => Entered /\ actAt < macro.num
  BY DEF Comparing
<1>7. PlaceExists(macro, place)
  <2>1. CASE place = <<>>
    BY <2>1, NoPlace
  <2>2. CASE place # <<>>
    <3>1. call.fn = "EqualStringArray" /\ place = <<actAt>>
      BY <2>2 DEF place
    <3>2. macro.name \in Arrays \ {"EQUAL_MEMORY"} /\ actAt \in 0..(macro.num - 1)
      BY <1>1, <1>2, <1>6, <3>1 DEF StringsNames, Arrays
    <3> QED BY <3>1, <3>2 DEF PlaceExists
  <2> QED BY <2>1, <2>2
<1>8. CASE call.fn = "EqualStringArray"
  <2>1. Entered /\ AgreeUpTo(actAt) /\ Differs(macro, actAt) /\ actAt < macro.num
    BY <1>8 DEF Comparing, PairRight
  <2>2. actAt \in 0..(macro.num - 1) /\ \A j \in 0..(actAt - 1) : ~ Differs(macro, j)
    BY <1>1, <1>2, <1>8, <2>1 DEF AgreeUpTo
  <2>3. place = FirstPlace(macro)
    <3>1. FirstPlace(macro) = IF macro.num > 1 THEN <<actAt>> ELSE <<>>
      BY <1>2, <1>8, <2>1, <2>2, PlaceOfElement
    <3> QED BY <1>2, <1>8, <3>1 DEF place
  <2>4. ~ ArrayHolds(macro)
    BY <2>1, <2>2 DEF Entered, ArrayHolds
  <2>5. Holds(macro) <=> ArrayHolds(macro)
    BY <1>2, <1>8, HoldsOfArray DEF StringsNames, Arrays
  <2> QED BY <1>1, <1>4, <1>5, <1>6, <1>7, <2>3, <2>4, <2>5, ReturnsRight
<1>9. CASE call.fn # "EqualStringArray"
  <2>1. ~ Holds(macro)
    BY <1>9 DEF PairRight
  <2>2. macro.name \notin Arrays
    BY <1>2, <1>9 DEF StringNames, StringsNames, Arrays
  <2> QED BY <1>1, <1>4, <1>5, <1>6, <1>9, <1>7, <2>1, <2>2, ReturnsRight
<1> QED BY <1>8, <1>9

\* The texts decide.
LEMMA PairIsRight ==
  ASSUME Comparing
  PROVE  /\ call.fn # "EqualStringLen" => (PairRight <=> Text(Expected) = Text(Actual))
         /\ call.fn = "EqualStringLen" =>
              (PairRight <=>
                 \/ Expected = Actual
                 \/ /\ Null \notin {Expected, Actual}
                    /\ FirstChars(Text(Expected), call.length)
                         = FirstChars(Text(Actual), call.length))
<1>1. /\ macro.name \in StringNames \cup StringsNames
      /\ macro.name \in StringsNames <=> call.fn = "EqualStringArray"
      /\ macro.name \in StringNames => Expected = macro.expected /\ Actual = macro.actual
      /\ macro.name = "EQUAL_STRING_LEN" <=> call.fn = "EqualStringLen"
      /\ macro.name = "EQUAL_STRING_LEN" => call.length = macro.length
      /\ macro.name \in StringsNames => (Differs(macro, actAt) <=> Text(Expected) # Text(Actual))
  BY StringsAtHand DEF Comparing
<1>2. CASE macro.name \in StringsNames
  BY <1>1, <1>2 DEF PairRight
<1>3. CASE macro.name = "EQUAL_STRING"
  <2>1. Holds(macro) <=> Text(macro.expected) = Text(macro.actual)
    BY <1>3 DEF Holds, Arrays
  <2> QED BY <1>1, <1>3, <2>1 DEF PairRight, StringNames, StringsNames
<1>4. CASE macro.name = "EQUAL_STRING_LEN"
  <2>1. Holds(macro) <=>
          \/ macro.expected = macro.actual
          \/ /\ Null \notin {macro.expected, macro.actual}
             /\ FirstChars(Text(macro.expected), macro.length)
                  = FirstChars(Text(macro.actual), macro.length)
    BY <1>4 DEF Holds, Arrays
  <2> QED BY <1>1, <1>4, <2>1 DEF PairRight, StringNames, StringsNames
<1> QED BY <1>1, <1>2, <1>3, <1>4 DEF StringNames

LEMMA StringsStep ==
  ASSUME AssertInv, CompareStrings
  PROVE  AssertInv'
<1>1. UseInv /\ call.fn \in StringFunctions /\ pc \in {"call", "element"} /\ pc # "done"
  BY DEF AssertInv, CompareStrings, Calls, StringFunctions
<1>2. Comparing
  <2>1. call.fn = "EqualStringArray" => pc = "element"
    BY DEF CompareStrings, Calls
  <2> QED BY <1>1, <2>1 DEF Comparing, AssertInv, UseInv, StringsInv
<1>3. IsString(Expected) /\ IsString(Actual)
  BY <1>2, StringsAtHand DEF Comparing
<1>4. CASE /\ Null \notin {Expected, Actual} /\ pc' = "char" /\ bytes' = 0
           /\ UNCHANGED <<macro, call, elements, expAt, actAt, result>>
  <2>1. UseInv'
    BY <1>1, <1>4 DEF UseInv
  <2>2. StringsInv'
    BY <1>2, <1>4 DEF Comparing, StringsInv, Entered, AgreeUpTo
  <2>3. CharsInv'
    <3>1. Expected' = Expected /\ Actual' = Actual
      BY <1>4 DEF Expected, Actual
    <3> QED BY <1>1, <1>4, <3>1 DEF CharsInv, StringFunctions
  <2>4. NumbersInv' /\ MemoryInv' /\ BytesInv' /\ DoneInv'
    BY <1>4 DEF NumbersInv, MemoryInv, BytesInv, DoneInv
  <2> QED BY <2>1, <2>2, <2>3, <2>4 DEF AssertInv
<1>5. CASE Expected = Null /\ Actual = Null /\ StringsAgree
  <2>1. PairRight
    BY <1>2, <1>5, PairIsRight
  <2> QED BY <1>2, <1>5, <2>1, AgreeingStrings
<1>6. CASE Null \in {Expected, Actual} /\ Expected # Actual /\ StringsDiffer
  <2>1. Text(Expected) # Text(Actual)
    BY <1>3, <1>6, NullText
  <2>2. ~ PairRight
    BY <1>2, <1>6, <2>1, PairIsRight
  <2> QED BY <1>2, <1>6, <2>2, DifferingStrings
<1> QED BY <1>4, <1>5, <1>6 DEF CompareStrings

LEMMA CharStep ==
  ASSUME AssertInv, CompareChar
  PROVE  AssertInv'
<1> DEFINE s == Expected
           t == Actual
           i == bytes
<1>1. /\ UseInv /\ pc = "char" /\ call.fn \in StringFunctions /\ i \in Nat
      /\ s # Null /\ t # Null
      /\ \A k \in 1..i : s[k] = t[k] /\ s[k] # 0 /\ InLength(k - 1)
  BY DEF AssertInv, UseInv, CharsInv, CompareChar, StringFunctions
<1>2. Comparing
  BY <1>1 DEF Comparing, AssertInv, UseInv, StringsInv
<1>3. /\ IsString(s) /\ IsString(t)
      /\ call.fn = "EqualStringLen" => call.length \in Nat
  BY <1>2, StringsAtHand DEF Comparing
<1>4. SamePrefix(s, t, i)
  BY <1>1 DEF SamePrefix
<1>5. More(i) <=> InLength(i) /\ (s[i + 1] # 0 \/ t[i + 1] # 0)
  BY DEF More
<1>6. InLength(i) <=> (call.fn = "EqualStringLen" => i < call.length)
  BY DEF InLength
<1>7. CASE ~ More(i) /\ StringsAgree
  <2>1. CASE InLength(i)
    <3>1. s[i + 1] = 0 /\ t[i + 1] = 0
      BY <1>5, <1>7, <2>1
    <3>2. Text(s) = Text(t)
      <4> HIDE DEF s, t, i
      <4> QED BY <1>1, <1>3, <1>4, <3>1, TextsAgree
    <3>3. PairRight
      BY <1>1, <1>2, <3>2, PairIsRight
    <3> QED BY <1>2, <1>7, <3>3, AgreeingStrings
  <2>2. CASE ~ InLength(i)
    <3>1. call.fn = "EqualStringLen" /\ call.length \in Nat /\ i >= call.length
      BY <1>1, <1>3, <1>6, <2>2
    <3>2. i = call.length
      <4>1. i > 0 => InLength(i - 1)
        <5>1. i > 0 => i \in 1..i
          BY <1>1
        <5> QED BY <1>1, <5>1
      <4>2. i > 0 => i - 1 < call.length
        BY <3>1, <4>1 DEF InLength
      <4> HIDE DEF i
      <4> QED BY <1>1, <3>1, <4>2
    <3>3. FirstChars(Text(s), call.length) = FirstChars(Text(t), call.length)
      <4>1. SamePrefix(s, t, call.length)
        BY <1>4, <3>2
      <4> HIDE DEF s, t
      <4> QED BY <1>1, <1>3, <3>1, <4>1, PrefixesAgree
    <3>4. PairRight
      BY <1>1, <1>2, <3>1, <3>3, PairIsRight
    <3> QED BY <1>2, <1>7, <3>4, AgreeingStrings
  <2> QED BY <2>1, <2>2
<1>8. CASE /\ More(i) /\ s[i + 1] = t[i + 1] /\ bytes' = bytes + 1
           /\ UNCHANGED <<macro, call, pc, elements, expAt, actAt, result>>
  <2>1. UseInv'
    BY <1>1, <1>8 DEF UseInv
  <2>2. StringsInv'
    BY <1>2, <1>8 DEF Comparing, StringsInv, Entered, AgreeUpTo
  <2>3. Expected' = Expected /\ Actual' = Actual /\ call' = call
    BY <1>8 DEF Expected, Actual
  <2>4. \A k \in 1..(i + 1) : s[k] = t[k] /\ s[k] # 0 /\ InLength(k - 1)
    <3>1. \A k \in 1..(i + 1) : k = i + 1 \/ k \in 1..i
      BY <1>1
    <3>2. s[i + 1] # 0 /\ InLength(i) /\ (i + 1) - 1 = i
      BY <1>1, <1>5, <1>8
    <3> QED BY <1>1, <1>8, <3>1, <3>2
  <2>5. CharsInv'
    <3>1. pc' = "char" /\ call'.fn \in StringFunctions /\ Null \notin {Expected', Actual'}
      BY <1>1, <1>8, <2>3
    <3>2. \A k \in 1..bytes' :
            Expected'[k] = Actual'[k] /\ Expected'[k] # 0 /\ InLength(k - 1)'
      BY <1>8, <2>3, <2>4 DEF InLength
    <3> QED BY <3>1, <3>2 DEF CharsInv
  <2>6. NumbersInv' /\ MemoryInv' /\ BytesInv' /\ DoneInv'
    BY <1>1, <1>8 DEF NumbersInv, MemoryInv, BytesInv, DoneInv
  <2> QED BY <2>1, <2>2, <2>5, <2>6 DEF AssertInv
<1>9. CASE More(i) /\ s[i + 1] # t[i + 1] /\ StringsDiffer
  <2>1. /\ Text(s) # Text(t)
        /\ \A n \in Nat : i < n => FirstChars(Text(s), n) # FirstChars(Text(t), n)
    <3> HIDE DEF s, t, i
    <3> QED BY <1>1, <1>3, <1>4, <1>9, TextsDiffer
  <2>2. s # t
    BY <1>9
  <2>3. call.fn = "EqualStringLen" => call.length \in Nat /\ i < call.length
    BY <1>3, <1>5, <1>6, <1>9
  <2>4. ~ PairRight
    BY <1>2, <2>1, <2>2, <2>3, PairIsRight
  <2> QED BY <1>2, <1>9, <2>4, DifferingStrings
<1> QED BY <1>7, <1>8, <1>9 DEF CompareChar

\* Where each escape has its 'm', UnityPrint stops at the first NUL, which is in
\* no escape.
LEMMA PrintEndIs ==
  ASSUME NEW s, IsString(s), s # Null, EscapesEnd(s),
         NEW e \in 1..Len(s), s[e] = 0, \A j \in 1..(e - 1) : s[j] # 0
  PROVE  PrintEnd(s) = e /\ ~ InEscape(s, e) /\ PrintEnd(s) \in DOMAIN s
<1>1. Len(s) \in Nat /\ DOMAIN s = 1..Len(s)
  BY LenProperties DEF IsString
<1>2. ~ InEscape(s, e)
  <2> SUFFICES ASSUME InEscape(s, e) PROVE FALSE
    OBVIOUS
  <2>1. PICK j \in 1..e : /\ j < Len(s) /\ s[j] = ESC /\ s[j + 1] = LBracket
                          /\ \A i \in j..(e - 1) : s[i] \notin {0, LetterM}
    BY DEF InEscape
  <2>2. j \in 1..(e - 1) /\ j \in DOMAIN s /\ j + 1 \in DOMAIN s
    <3>1. s[j] # 0
      BY <2>1, PrintAssumption
    <3> QED BY <1>1, <2>1, <3>1
  <2>3. \A i \in 1..j : s[i] # 0
    BY <2>2
  <2>4. PICK k \in DOMAIN s : k > j /\ s[k] = LetterM /\ \A i \in 1..k : s[i] # 0
    BY <2>1, <2>2, <2>3 DEF EscapesEnd
  <2>5. k < e
    <3>1. e \notin 1..k
      BY <2>4
    <3> QED BY <1>1, <3>1
  <2>6. k \in j..(e - 1)
    BY <1>1, <2>4, <2>5
  <2> QED BY <2>1, <2>4, <2>6
<1> DEFINE P(x) == /\ x \in DOMAIN s => s[x] = 0 /\ ~ InEscape(s, x)
                   /\ \A k \in 1..(x - 1) : s[k] = 0 => InEscape(s, k)
<1>3. P(e)
  BY <1>2
<1>4. ASSUME NEW x \in 1..(Len(s) + 1), P(x) PROVE x = e
  <2>1. ~ (x < e)
    <3> SUFFICES ASSUME x < e PROVE FALSE
      OBVIOUS
    <3>1. x \in 1..(e - 1) /\ x \in DOMAIN s
      BY <1>1
    <3> QED BY <1>4, <3>1
  <2>2. ~ (e < x)
    <3> SUFFICES ASSUME e < x PROVE FALSE
      OBVIOUS
    <3>1. e \in 1..(x - 1)
      BY <1>1
    <3> QED BY <1>2, <1>4, <3>1
  <2> QED BY <1>1, <2>1, <2>2
<1>5. PrintEnd(s) = CHOOSE x \in 1..(Len(s) + 1) : P(x)
  BY DEF PrintEnd
<1>6. e \in 1..(Len(s) + 1)
  BY <1>1
<1> HIDE DEF P
<1>7. PrintEnd(s) = e
  BY <1>3, <1>4, <1>5, <1>6
<1> QED BY <1>1, <1>2, <1>7

\* The loops read what is there.
LEMMA InvInBounds ==
  ASSUME AssertInv
  PROVE  ReadsInBounds
<1>1. /\ UseInv /\ macro \in Macros /\ call = CallOf(macro)
      /\ elements \in Nat /\ bytes \in Nat /\ expAt \in Nat /\ actAt \in Nat
  BY DEF AssertInv, UseInv
<1>2. ASSUME pc = "element", elements > 0, call.fn \in {"EqualIntArray", "ArrayWithin"}
      PROVE  /\ actAt + call.style.length <= Len(call.actual.at)
             /\ expAt + call.style.length <= Len(call.expected.at)
  <2> DEFINE i == macro.num - elements
  <2>1. /\ Entered /\ i \in Nat /\ actAt = i * macro.type.length
        /\ expAt = ExpectedStart(i, macro.type.length)
    BY <1>2 DEF AssertInv, NumbersInv
  <2>2. macro.name \in NumbersNames
    BY <1>1, <1>2, FunctionOf
  <2>3. macro.num \in Nat /\ call.style = macro.type
    BY <1>1, <2>2, ArrayCall, NumbersCall
  <2>4. i \in 0..(macro.num - 1)
    BY <1>1, <1>2, <2>1, <2>3
  <2>5. /\ "NULL" \notin {call.expected.address, call.actual.address}
        /\ expAt = IF call.flags = "ARRAY_TO_VAL" THEN 0 ELSE i * macro.type.length
    BY <2>1 DEF Entered, ExpectedStart
  <2> HIDE DEF i
  <2> QED BY <1>1, <2>1, <2>2, <2>3, <2>4, <2>5, NumbersInBounds
<1>3. ASSUME pc = "byte", bytes > 0
      PROVE  actAt < Len(call.actual.at) /\ expAt < Len(call.expected.at)
  <2> DEFINE i == macro.num - elements - 1
             b == macro.length - bytes
             start == ExpectedStart(i, macro.length)
  <2>1. /\ call.fn = "EqualMemory" /\ Entered /\ i \in Nat /\ b \in Nat
        /\ actAt = i * macro.length + b /\ expAt = start + b
    BY <1>3 DEF AssertInv, BytesInv
  <2>2. macro.name = "EQUAL_MEMORY" /\ macro.num \in Nat /\ macro.length \in Nat
    BY <1>1, <2>1, FunctionOf, ArrayCall
  <2>3. i \in 0..(macro.num - 1) /\ b \in 0..(macro.length - 1)
    BY <1>1, <1>3, <2>1, <2>2
  <2>4. /\ "NULL" \notin {call.expected.address, call.actual.address}
        /\ start = IF call.flags = "ARRAY_TO_VAL" THEN 0 ELSE i * macro.length
    BY <2>1 DEF Entered, ExpectedStart
  <2> HIDE DEF i, b, start
  <2>5. i * macro.length + b < Len(call.actual.at) /\ start + b < Len(call.expected.at)
    BY <1>1, <2>2, <2>3, <2>4, BytesInBounds
  <2> QED BY <2>1, <2>5
<1>4. ASSUME pc = "element", call.fn = "EqualStringArray"
      PROVE  actAt < Len(call.actual.at)
  <2>1. Entered /\ actAt < macro.num
    BY <1>4 DEF AssertInv, StringsInv
  <2> QED BY <1>1, <1>4, <2>1, StringsAtHand DEF StringFunctions
<1>5. ASSUME pc = "char", InLength(bytes)
      PROVE  bytes < Len(Expected) /\ bytes < Len(Actual)
  <2>1. /\ call.fn \in StringFunctions /\ Expected # Null /\ Actual # Null
        /\ \A k \in 1..bytes : Expected[k] # 0 /\ Actual[k] # 0
    BY <1>5 DEF AssertInv, CharsInv, StringFunctions
  <2>2. call.fn = "EqualStringArray" => Entered /\ actAt < macro.num
    BY <1>5 DEF AssertInv, StringsInv
  <2>3. IsString(Expected) /\ IsString(Actual)
    BY <1>1, <2>1, <2>2, StringsAtHand
  <2>4. (\E e \in 1..Len(Expected) : Expected[e] = 0) /\ (\E e \in 1..Len(Actual) : Actual[e] = 0)
    BY <2>1, <2>3, EndExists
  <2> QED BY <1>1, <2>1, <2>3, <2>4, PrefixInString
<1>6. ASSUME result.verdict = "fail", result.reason = "differs",
             call.fn \in {"EqualString", "EqualStringArray"}, NoOpenEscape,
             NEW s \in {Expected, Actual} \ {Null}
      PROVE  PrintEnd(s) \in DOMAIN s
  <2>1. pc = "done"
    BY <1>6 DEF AssertInv, UseInv
  <2>2. call.fn = "EqualStringArray" => Entered /\ actAt < macro.num
    BY <1>6, <2>1 DEF AssertInv, DoneInv
  <2>3. IsString(Expected) /\ IsString(Actual)
    BY <1>1, <1>6, <2>2, StringsAtHand DEF StringFunctions
  <2>4. IsString(s) /\ s # Null /\ EscapesEnd(s)
    BY <1>6, <2>3 DEF NoOpenEscape
  <2>5. PICK e \in 1..Len(s) : s[e] = 0 /\ \A j \in 1..(e - 1) : s[j] # 0
    BY <2>4, EndExists
  <2> QED BY <2>4, <2>5, PrintEndIs
<1> QED BY <1>2, <1>3, <1>4, <1>5, <1>6 DEF ReadsInBounds

-----------------------------------------------------------------------------
(* Texts: what is different is printed differently.                        *)

\* A byte is two nibbles.
LEMMA NibbleType ==
  /\ NibbleBits \in 1..4 /\ ByteBits = 2 * NibbleBits
  /\ 2 ^ NibbleBits \in 1..16
<1>1. PICK n \in 1..4 : ByteBits = 2 * n
  BY PrintAssumption
<1>2. NibbleBits = n
  BY <1>1 DEF NibbleBits
<1>3. 2^1 = 2 /\ 2^2 = 4 /\ 2^3 = 8 /\ 2^4 = 16
  <2>1. 2^0 = 1
    OBVIOUS
  <2>2. 2^(0 + 1) = 2 * 2^0
    BY PowerSucc
  <2>3. 2^(1 + 1) = 2 * 2^1
    BY PowerSucc
  <2>4. 2^(2 + 1) = 2 * 2^2
    BY PowerSucc
  <2>5. 2^(3 + 1) = 2 * 2^3
    BY PowerSucc
  <2> QED BY <2>1, <2>2, <2>3, <2>4, <2>5
<1>4. 2 ^ n \in 1..16
  <2>1. n = 1 \/ n = 2 \/ n = 3 \/ n = 4
    OBVIOUS
  <2>2. 2 \in 1..16 /\ 4 \in 1..16 /\ 8 \in 1..16 /\ 16 \in 1..16
    OBVIOUS
  <2> QED BY ONLY <1>3, <2>1, <2>2
<1> QED BY <1>1, <1>2, <1>4

\* Different digits are different chars.
LEMMA DigitsDiffer ==
  ASSUME NEW x \in 0..15, NEW y \in 0..15, Digit(x) = Digit(y)
  PROVE  x = y
BY DEF Digit

\* The nibbles printed are those of the number.
LEMMA HexIs ==
  ASSUME NEW n \in Nat, NEW count \in 0..16
  PROVE  /\ PrintHex(n, count) \in Seq(Int) /\ Len(PrintHex(n, count)) = count
         /\ \A i \in 0..(count - 1) :
              PrintHex(n, count)[count - i] =
                Digit((n \div 2 ^ (NibbleBits * i)) % 2 ^ NibbleBits)
<1> DEFINE nibble(i) == (n \div 2 ^ (NibbleBits * i)) % 2 ^ NibbleBits
<1>1. \A i \in Nat : nibble(i) \in 0..15
  <2> SUFFICES ASSUME NEW i \in Nat PROVE nibble(i) \in 0..15
    OBVIOUS
  <2>1. NibbleBits * i \in Nat
    BY NibbleType
  <2> DEFINE p == 2 ^ (NibbleBits * i)
             b == 2 ^ NibbleBits
  <2>2. p \in Nat /\ p > 0 /\ b \in 1..16
    BY <2>1, PowerType, NibbleType
  <2> HIDE DEF p, b
  <2>3. n \div p \in Int
    BY <2>2, Division
  <2> DEFINE q == n \div p
  <2>4. q \in Int
    BY <2>3
  <2> HIDE DEF q
  <2>5. q % b \in 0..15
    BY <2>2, <2>4
  <2> QED BY <2>5 DEF p, b, q
<1>2. PrintHex(n, count) = [i \in 1..count |-> Digit(nibble(count - i))]
  BY DEF PrintHex, WordBytes
<1> HIDE DEF nibble
<1>3. \A i \in 1..count : Digit(nibble(count - i)) \in Int
  <2> SUFFICES ASSUME NEW i \in 1..count PROVE Digit(nibble(count - i)) \in Int
    OBVIOUS
  <2>1. count - i \in Nat
    OBVIOUS
  <2>2. nibble(count - i) \in 0..15
    BY <1>1, <2>1
  <2> QED BY <2>2 DEF Digit
<1>4. PrintHex(n, count) \in Seq(Int) /\ Len(PrintHex(n, count)) = count
  BY <1>2, <1>3
<1>5. \A i \in 0..(count - 1) : PrintHex(n, count)[count - i] = Digit(nibble(i))
  <2> SUFFICES ASSUME NEW i \in 0..(count - 1)
               PROVE PrintHex(n, count)[count - i] = Digit(nibble(i))
    OBVIOUS
  <2>1. count - i \in 1..count /\ count - (count - i) = i
    OBVIOUS
  <2> QED BY <1>2, <2>1
<1> QED BY <1>4, <1>5 DEF nibble

\* The same nibbles are those of numbers that are the same that far.
LEMMA HexTells ==
  ASSUME NEW x \in Nat, NEW y \in Nat, NEW count \in 0..16,
         PrintHex(x, count) = PrintHex(y, count)
  PROVE  x % 2 ^ (NibbleBits * count) = y % 2 ^ (NibbleBits * count)
<1> DEFINE p(k) == 2 ^ (NibbleBits * k)
           b == 2 ^ NibbleBits
           Wrong == {k \in 0..count : x % p(k) # y % p(k)}
<1>1. \A k \in Nat : p(k) \in Nat /\ p(k) > 0 /\ p(k + 1) = p(k) * b
  <2> SUFFICES ASSUME NEW k \in Nat PROVE p(k) \in Nat /\ p(k) > 0 /\ p(k + 1) = p(k) * b
    OBVIOUS
  <2>1. NibbleBits * k \in Nat /\ NibbleBits \in Nat
        /\ NibbleBits * (k + 1) = NibbleBits * k + NibbleBits
    BY NibbleType
  <2> QED BY <2>1, PowerType, PowerSum
<1>2. b \in Nat /\ b > 0 /\ b <= 16
  BY NibbleType
<1>3. \A i \in 0..(count - 1) : (x \div p(i)) % b = (y \div p(i)) % b
  <2> SUFFICES ASSUME NEW i \in 0..(count - 1) PROVE (x \div p(i)) % b = (y \div p(i)) % b
    OBVIOUS
  <2>1. Digit((x \div p(i)) % b) = Digit((y \div p(i)) % b)
    BY HexIs
  <2>2. p(i) \in Nat /\ p(i) > 0
    BY <1>1
  <2> DEFINE q == x \div p(i)
             r == y \div p(i)
  <2> HIDE DEF p, b
  <2>3. q \in Int /\ r \in Int
    BY <2>2, Division
  <2>4. Digit(q % b) = Digit(r % b)
    BY <2>1
  <2> HIDE DEF q, r
  <2>5. q % b \in 0..15 /\ r % b \in 0..15
    BY <1>2, <2>3
  <2>6. q % b = r % b
    BY <2>4, <2>5, DigitsDiffer
  <2> QED BY <2>6 DEF q, r
<1>4. x % p(0) = y % p(0)
  <2>1. NibbleBits * 0 = 0 /\ 2^0 = 1
    BY NibbleType
  <2>2. x % 1 = 0 /\ y % 1 = 0
    OBVIOUS
  <2> QED BY <2>1, <2>2
<1> HIDE DEF p, b
<1>5. Wrong = {}
  <2> SUFFICES ASSUME Wrong # {} PROVE FALSE
    OBVIOUS
  <2>1. PICK k \in Wrong : \A j \in Wrong : k <= j
    <3>1. Wrong \subseteq Nat
      OBVIOUS
    <3> HIDE DEF Wrong
    <3> QED BY <3>1, SmallestExists
  <2>2. k \in 1..count
    BY <1>4, <2>1
  <2> DEFINE j == k - 1
  <2>3. j \in Nat /\ j \in 0..(count - 1) /\ j + 1 = k /\ j \notin Wrong /\ j \in 0..count
    BY <2>1, <2>2
  <2>4. x % p(j) = y % p(j)
    BY <2>3
  <2>5. p(j) \in Nat /\ p(j) > 0 /\ p(k) = p(j) * b
    BY <1>1, <2>3
  <2> DEFINE P == p(j)
  <2>6. P \in Nat /\ P > 0 /\ p(k) = P * b /\ x % P = y % P
        /\ (x \div P) % b = (y \div P) % b
    BY <1>3, <2>3, <2>4, <2>5
  <2> HIDE DEF P, j
  <2>7. x % (P * b) = (x % P) + ((x \div P) % b) * P
    BY <1>2, <2>6, OneMoreDigit
  <2>8. y % (P * b) = (y % P) + ((y \div P) % b) * P
    BY <1>2, <2>6, OneMoreDigit
  <2>9. x % p(k) = y % p(k)
    BY <2>6, <2>7, <2>8
  <2> QED BY <2>1, <2>9
<1>6. count \in 0..count
  OBVIOUS
<1>7. x % p(count) = y % p(count)
  BY <1>5, <1>6
<1> QED BY <1>7 DEF p

\* A number and its UNITY_UINT have the same bytes.
LEMMA UnsignedOfUWord ==
  ASSUME NEW n \in Int, NEW c \in Length
  PROVE  Unsigned(UWord(n), c) = Unsigned(n, c)
<1> DEFINE r == Unsigned(n, c)
           s == 2 ^ Bits(8 - c)
<1>1. Span(8) = Span(c) * s /\ s \in Nat /\ Span(c) \in Nat
  <2>1. Bits(c) \in Nat /\ Bits(8 - c) \in Nat /\ Bits(c) + Bits(8 - c) = Bits(8)
    BY BitsType DEF Bits, Length
  <2> QED BY <2>1, PowerSum, PowerType DEF Span
<1>2. r \in Nat /\ r < Span(c)
  BY UnsignedFacts
<1>3. PICK q \in Int : n = q * Span(c) + r
  BY UnsignedFacts
<1>4. 8 \in Length /\ UWord(n) = Unsigned(n, 8)
  BY DEF Length, UWord, WordBytes
<1>5. PICK k \in Int : n = k * Span(8) + UWord(n)
  BY <1>4, UnsignedFacts
<1>6. UWord(n) \in Int
  BY UWordOfWord
<1> HIDE DEF r, s
<1>7. UWord(n) = (q - k * s) * Span(c) + r
  <2> DEFINE S == Span(c)
             T == Span(8)
             w == UWord(n)
  <2>1. /\ S \in Int /\ T \in Int /\ w \in Int /\ s \in Int /\ r \in Int
        /\ T = S * s /\ n = q * S + r /\ n = k * T + w
    BY <1>1, <1>2, <1>3, <1>5, <1>6
  <2> HIDE DEF S, T, w
  <2>2. w = q * S + r - k * (S * s)
    BY <2>1
  <2>3. k * (S * s) = (k * s) * S
    BY <2>1
  <2>4. q * S - (k * s) * S = (q - k * s) * S
    BY <2>1
  <2>5. w = (q - k * s) * S + r
    BY <2>1, <2>2, <2>3, <2>4
  <2> QED BY <2>5 DEF S, w
<1>8. q - k * s \in Int
  BY <1>1, <1>3, <1>5
<1> QED BY <1>2, <1>6, <1>7, <1>8, UnsignedIs DEF r

\* Numbers that differ in their bytes have different nibbles.
LEMMA HexShows ==
  ASSUME NEW x \in Int, NEW y \in Int, NEW c \in Length, Unsigned(x, c) # Unsigned(y, c)
  PROVE  /\ PrintHex(UWord(x), 2 * c) # PrintHex(UWord(y), 2 * c)
         /\ Len(PrintHex(UWord(x), 2 * c)) = 2 * c
         /\ PrintHex(UWord(x), 2 * c) \in Seq(Int)
<1>1. UWord(x) \in Nat /\ UWord(y) \in Nat /\ 2 * c \in 0..16
  BY UWordOfWord DEF Length
<1>2. NibbleBits * (2 * c) = Bits(c)
  <2>1. c \in Nat
    BY DEF Length
  <2> QED BY <2>1, NibbleType DEF Bits
<1>3. UWord(x) % 2 ^ Bits(c) = Unsigned(x, c) /\ UWord(y) % 2 ^ Bits(c) = Unsigned(y, c)
  BY UnsignedOfUWord DEF Unsigned
<1>4. PrintHex(UWord(x), 2 * c) # PrintHex(UWord(y), 2 * c)
  BY <1>1, <1>2, <1>3, HexTells
<1> QED BY <1>1, <1>4, HexIs

\* The powers of ten a UNITY_UINT holds.
PowersOfTen ==
  <<1, 10, 100, 1000, 10000, 100000, 1000000, 10000000,
    100000000, 1000000000, 10000000000, 100000000000, 1000000000000, 10000000000000,
    100000000000000, 1000000000000000, 10000000000000000,
    100000000000000000, 1000000000000000000, 10000000000000000000>>

\* The divisor after each turn of its loop.
LEMMA DivisorIs ==
  /\ \A k \in 0..19 : Divisor[k] \in Nat /\ Divisor[k] > 0
  /\ Divisor[0] = 1 /\ Divisor[19] = 10000000000000000000
  /\ \A k \in 0..18 : Divisor[k + 1] = Divisor[k] * 10
<1> DEFINE Turn(f, k) == IF k = 0 THEN 1 ELSE f[k - 1] * 10
           w == [k \in 0..19 |-> PowersOfTen[k + 1]]
           IsDivisor(f) == f = [k \in 0..19 |-> Turn(f, k)]
<1>1. \A k \in 0..19 : w[k] = Turn(w, k)
  <2>1. w[0] = Turn(w, 0)
    BY DEF PowersOfTen
  <2>2. w[1] = Turn(w, 1)
    BY DEF PowersOfTen
  <2>3. w[2] = Turn(w, 2)
    BY DEF PowersOfTen
  <2>4. w[3] = Turn(w, 3)
    BY DEF PowersOfTen
  <2>5. w[4] = Turn(w, 4)
    BY DEF PowersOfTen
  <2>6. w[5] = Turn(w, 5)
    BY DEF PowersOfTen
  <2>7. w[6] = Turn(w, 6)
    BY DEF PowersOfTen
  <2>8. w[7] = Turn(w, 7)
    BY DEF PowersOfTen
  <2>9. w[8] = Turn(w, 8)
    BY DEF PowersOfTen
  <2>10. w[9] = Turn(w, 9)
    BY DEF PowersOfTen
  <2>11. w[10] = Turn(w, 10)
    BY DEF PowersOfTen
  <2>12. w[11] = Turn(w, 11)
    BY DEF PowersOfTen
  <2>13. w[12] = Turn(w, 12)
    BY DEF PowersOfTen
  <2>14. w[13] = Turn(w, 13)
    BY DEF PowersOfTen
  <2>15. w[14] = Turn(w, 14)
    BY DEF PowersOfTen
  <2>16. w[15] = Turn(w, 15)
    BY DEF PowersOfTen
  <2>17. w[16] = Turn(w, 16)
    BY DEF PowersOfTen
  <2>18. w[17] = Turn(w, 17)
    BY DEF PowersOfTen
  <2>19. w[18] = Turn(w, 18)
    BY DEF PowersOfTen
  <2>20. w[19] = Turn(w, 19)
    BY DEF PowersOfTen
  <2>21. \A k \in 0..19 :
           \/ k = 0 \/ k = 1 \/ k = 2 \/ k = 3 \/ k = 4 \/ k = 5 \/ k = 6 \/ k = 7 \/ k = 8 \/ k = 9
           \/ k = 10 \/ k = 11 \/ k = 12 \/ k = 13 \/ k = 14 \/ k = 15 \/ k = 16 \/ k = 17
           \/ k = 18 \/ k = 19
    OBVIOUS
  <2> HIDE DEF w, Turn
  <2> QED
    BY ONLY <2>1, <2>2, <2>3, <2>4, <2>5, <2>6, <2>7, <2>8, <2>9, <2>10, <2>11, <2>12,
            <2>13, <2>14, <2>15, <2>16, <2>17, <2>18, <2>19, <2>20, <2>21
<1>2. IsDivisor(w)
  <2>1. w = [k \in 0..19 |-> w[k]]
    OBVIOUS
  <2> HIDE DEF w, Turn
  <2> QED BY <1>1, <2>1
<1>3. IsDivisor(Divisor)
  <2>1. Divisor = CHOOSE f : IsDivisor(f)
    BY DEF Divisor
  <2> HIDE DEF IsDivisor
  <2> QED BY <1>2, <2>1
<1>4. \A k \in 0..19 : Divisor[k] = Turn(Divisor, k)
  BY <1>3
<1> QED BY <1>4

\* The largest UNITY_UINT has no more than twenty digits.
LEMMA SpanIsSmall == Span(8) <= 18446744073709551616
<1>1. 2^8 = 256
  <2>1. 2^0 = 1
    OBVIOUS
  <2>2. 2^(0 + 1) = 2 * 2^0 /\ 2^(1 + 1) = 2 * 2^1
    BY PowerSucc
  <2>3. 2^(2 + 2) = 2^2 * 2^2
    BY PowerSum
  <2>4. 2^(4 + 4) = 2^4 * 2^4
    BY PowerSum
  <2> QED BY <2>1, <2>2, <2>3, <2>4
<1>2. 2^16 = 65536
  <2>1. 2^(8 + 8) = 2^8 * 2^8
    BY PowerSum
  <2> QED BY <1>1, <2>1
<1>3. 2^32 = 4294967296
  <2>1. 2^(16 + 16) = 2^16 * 2^16
    BY PowerSum
  <2> QED BY <1>2, <2>1
<1>4. 2^64 = 18446744073709551616
  <2>1. 2^(32 + 32) = 2^32 * 2^32
    BY PowerSum
  <2> QED BY <1>3, <2>1
<1>5. Bits(8) \in Nat /\ Bits(8) <= 64
  BY NibbleType DEF Bits
<1>6. 2 ^ Bits(8) <= 2^64
  BY <1>5, PowerMonotonic
<1> QED BY <1>4, <1>6 DEF Span

\* The divisor found for a number, and that the quotients below it are too large.
IsLast(n, k) ==
  /\ k \in 0..19
  /\ n \div Divisor[k] <= 9
  /\ \A j \in 0..(k - 1) : n \div Divisor[j] > 9

\* A number is printed with the digits its powers of ten leave.
LEMMA DigitsIs ==
  ASSUME NEW n \in Nat, n < Span(8)
  PROVE  \E last \in 0..19 :
           /\ IsLast(n, last)
           /\ Digits(n) \in Seq(48..57) /\ Len(Digits(n)) = last + 1
           /\ \A j \in 0..last : Digits(n)[last + 1 - j] = Digit((n \div Divisor[j]) % 10)
<1> DEFINE S == {k \in 0..19 : n \div Divisor[k] <= 9}
           last == CHOOSE k \in 0..19 :
                     n \div Divisor[k] <= 9 /\ \A j \in 0..(k - 1) : n \div Divisor[j] > 9
<1>1. 19 \in S
  <2>1. n < 18446744073709551616
    BY SpanIsSmall, SpanType DEF Length
  <2>2. n \div 10000000000000000000 <= 9
    BY <2>1
  <2> QED BY <2>2, DivisorIs
<1>2. \A k \in 0..19 : n \div Divisor[k] \in Int
  BY DivisorIs, Division
<1>3. \E k \in 0..19 : IsLast(n, k)
  <2>1. PICK k \in S : \A j \in S : k <= j
    <3>1. S \subseteq Nat
      OBVIOUS
    <3> HIDE DEF S
    <3> QED BY <1>1, <3>1, SmallestExists
  <2>2. ASSUME NEW j \in 0..(k - 1) PROVE n \div Divisor[j] > 9
    <3>1. j \in 0..19 /\ j \notin S
      BY <2>1
    <3>2. ~ (n \div Divisor[j] <= 9)
      BY <3>1
    <3> QED BY <1>2, <3>1, <3>2
  <2> QED BY <2>1, <2>2 DEF IsLast
<1>4. IsLast(n, last)
  BY <1>3 DEF IsLast
<1> HIDE DEF last
<1> DEFINE d(j) == Digit((n \div Divisor[j]) % 10)
<1>5. Digits(n) = [i \in 1..(last + 1) |-> d(last + 1 - i)]
  BY DEF Digits, last
<1>6. last \in 0..19
  BY <1>4 DEF IsLast
<1>7. \A j \in 0..19 : d(j) \in 48..57
  <2> SUFFICES ASSUME NEW j \in 0..19 PROVE d(j) \in 48..57
    OBVIOUS
  <2> DEFINE q == n \div Divisor[j]
  <2>1. q \in Int
    BY <1>2
  <2> HIDE DEF q
  <2>2. q % 10 \in 0..9
    BY <2>1
  <2>3. Digit(q % 10) \in 48..57
    BY <2>2 DEF Digit
  <2> QED BY <2>3 DEF q
<1> HIDE DEF d
<1>8. Digits(n) \in Seq(48..57) /\ Len(Digits(n)) = last + 1
  <2>1. \A i \in 1..(last + 1) : last + 1 - i \in 0..19
    BY <1>6
  <2>2. \A i \in 1..(last + 1) : d(last + 1 - i) \in 48..57
    BY <1>7, <2>1
  <2> QED BY <1>5, <1>6, <2>2
<1>9. ASSUME NEW j \in 0..last PROVE Digits(n)[last + 1 - j] = d(j)
  <2>1. last + 1 - j \in 1..(last + 1) /\ last + 1 - (last + 1 - j) = j
    BY <1>6
  <2> QED BY <1>5, <2>1
<1> QED BY <1>4, <1>6, <1>8, <1>9 DEF d

\* What a quotient leaves when it is divided by ten once more.
LEMMA OneMoreQuotient ==
  ASSUME NEW n \in Nat, NEW p \in Nat, p > 0
  PROVE  (n \div p) = (n \div (p * 10)) * 10 + ((n \div p) % 10) /\ n \div p \in Nat
<1> DEFINE q == n \div p
           r == n % p
           k == q \div 10
           s == q % 10
           P == p * 10
           t == s * p + r
<1>1. q \in Int /\ r \in Nat /\ r < p /\ n = q * p + r
  BY Division
<1>2. q >= 0
  <2> HIDE DEF q, r
  <2>1. q <= -1 => q * p <= -p
    BY <1>1
  <2> QED BY <1>1, <2>1
<1>3. k \in Int /\ s \in Nat /\ s < 10 /\ q = k * 10 + s
  <2> HIDE DEF q
  <2> QED BY <1>1, Division DEF k, s
<1>4. n \div P = k
  <2> HIDE DEF q, r, k, s
  <2>1. t \in Nat /\ t < P /\ P \in Nat /\ n = k * P + t
    BY <1>1, <1>3
  <2> HIDE DEF t, P
  <2> QED BY <1>3, <2>1, DivisionUnique
<1> HIDE DEF q, k, s
<1>5. q = k * 10 + s /\ q \in Nat
  BY <1>1, <1>2, <1>3
<1> QED BY <1>4, <1>5 DEF q, k, s

\* Different numbers have different digits.
LEMMA DigitsShow ==
  ASSUME NEW x \in Nat, NEW y \in Nat, x < Span(8), y < Span(8), Digits(x) = Digits(y)
  PROVE  x = y
<1>1. PICK l \in 0..19 :
        /\ IsLast(x, l) /\ Len(Digits(x)) = l + 1
        /\ \A j \in 0..l : Digits(x)[l + 1 - j] = Digit((x \div Divisor[j]) % 10)
  BY DigitsIs
<1>2. PICK m \in 0..19 :
        /\ IsLast(y, m) /\ Len(Digits(y)) = m + 1
        /\ \A j \in 0..m : Digits(y)[m + 1 - j] = Digit((y \div Divisor[j]) % 10)
  BY DigitsIs
<1>3. m = l
  BY <1>1, <1>2
<1>4. \A j \in 0..l : Divisor[j] \in Nat /\ Divisor[j] > 0
  BY DivisorIs
<1>5. \A j \in 0..l : x \div Divisor[j] \in Nat /\ y \div Divisor[j] \in Nat
  BY <1>4, OneMoreQuotient
<1>6. \A j \in 0..l : (x \div Divisor[j]) % 10 = (y \div Divisor[j]) % 10
  <2> SUFFICES ASSUME NEW j \in 0..l
               PROVE (x \div Divisor[j]) % 10 = (y \div Divisor[j]) % 10
    OBVIOUS
  <2> DEFINE q == x \div Divisor[j]
             r == y \div Divisor[j]
  <2>1. q \in Nat /\ r \in Nat
    BY <1>5
  <2>2. Digit(q % 10) = Digit(r % 10)
    BY <1>1, <1>2, <1>3
  <2> HIDE DEF q, r
  <2>3. q % 10 \in 0..15 /\ r % 10 \in 0..15
    BY <2>1
  <2>4. q % 10 = r % 10
    BY <2>2, <2>3, DigitsDiffer
  <2> QED BY <2>4 DEF q, r
<1> DEFINE Wrong == {k \in 0..l : x \div Divisor[l - k] # y \div Divisor[l - k]}
<1>7. Wrong = {}
  <2> SUFFICES ASSUME Wrong # {} PROVE FALSE
    OBVIOUS
  <2>1. PICK k \in Wrong : \A j \in Wrong : k <= j
    <3>1. Wrong \subseteq Nat
      OBVIOUS
    <3> HIDE DEF Wrong
    <3> QED BY <3>1, SmallestExists
  <2>2. k # 0
    <3>1. x \div Divisor[l] <= 9 /\ y \div Divisor[l] <= 9
      BY <1>1, <1>2, <1>3 DEF IsLast
    <3>2. l \in 0..l
      OBVIOUS
    <3> DEFINE q == x \div Divisor[l]
               r == y \div Divisor[l]
    <3>3. q \in 0..9 /\ r \in 0..9 /\ q % 10 = r % 10
      BY <1>5, <1>6, <3>1, <3>2
    <3> HIDE DEF q, r
    <3>4. q = r
      BY <3>3
    <3>5. x \div Divisor[l - 0] = y \div Divisor[l - 0]
      BY <3>4 DEF q, r
    <3> QED BY <2>1, <3>5
  <2> DEFINE j == l - k
  <2>3. j \in 0..l /\ j + 1 \in 0..l /\ j \in 0..18 /\ k - 1 \in 0..l /\ l - (k - 1) = j + 1
    BY <2>1, <2>2
  <2>4. k - 1 \notin Wrong
    BY <2>1
  <2>5. x \div Divisor[j + 1] = y \div Divisor[j + 1]
    BY <2>3, <2>4
  <2>6. Divisor[j] \in Nat /\ Divisor[j] > 0 /\ Divisor[j + 1] = Divisor[j] * 10
    BY <2>3, DivisorIs
  <2>7. x \div Divisor[j] = y \div Divisor[j]
    <3>1. (x \div Divisor[j]) % 10 = (y \div Divisor[j]) % 10
      BY <1>6, <2>3
    <3> DEFINE P == Divisor[j]
    <3>2. P \in Nat /\ P > 0 /\ x \div (P * 10) = y \div (P * 10)
          /\ (x \div P) % 10 = (y \div P) % 10
      BY <2>5, <2>6, <3>1
    <3> HIDE DEF P
    <3>3. x \div P = (x \div (P * 10)) * 10 + ((x \div P) % 10)
      BY <3>2, OneMoreQuotient
    <3>4. y \div P = (y \div (P * 10)) * 10 + ((y \div P) % 10)
      BY <3>2, OneMoreQuotient
    <3>5. x \div P = y \div P
      BY <3>2, <3>3, <3>4
    <3> QED BY <3>5 DEF P
  <2> QED BY <2>1, <2>7
<1>8. l \in 0..l /\ l \notin Wrong /\ l - l = 0
  BY <1>7
<1>9. x \div Divisor[0] = y \div Divisor[0]
  BY <1>8
<1> QED BY <1>9, DivisorIs

\* One text after another.
LEMMA ConcatIs ==
  ASSUME NEW p \in Seq(Int), NEW s \in Seq(Int)
  PROVE  /\ p \o s \in Seq(Int) /\ Len(p) \in Nat /\ Len(s) \in Nat
         /\ Len(p \o s) = Len(p) + Len(s)
         /\ \A i \in 1..Len(p) : (p \o s)[i] = p[i]
         /\ \A i \in 1..Len(s) : (p \o s)[Len(p) + i] = s[i]
<1>1. /\ p \o s \in Seq(Int)
      /\ Len(p \o s) = Len(p) + Len(s)
      /\ \A i \in 1..(Len(p) + Len(s)) :
           (p \o s)[i] = IF i <= Len(p) THEN p[i] ELSE s[i - Len(p)]
  BY ConcatProperties
<1>2. Len(p) \in Nat /\ Len(s) \in Nat
  BY LenProperties
<1>3. ASSUME NEW i \in 1..Len(p) PROVE (p \o s)[i] = p[i]
  BY <1>1, <1>2
<1>4. ASSUME NEW i \in 1..Len(s) PROVE (p \o s)[Len(p) + i] = s[i]
  <2> DEFINE k == Len(p) + i
  <2>1. k \in 1..(Len(p) + Len(s)) /\ ~ (k <= Len(p)) /\ k - Len(p) = i
    BY <1>2
  <2> HIDE DEF k
  <2>2. (p \o s)[k] = s[i]
    BY <1>1, <2>1
  <2> QED BY <2>2 DEF k
<1> QED BY <1>1, <1>2, <1>3, <1>4

\* Concatenation keeps what differs.
LEMMA ConcatShows ==
  ASSUME NEW p \in Seq(Int), NEW s \in Seq(Int), NEW t \in Seq(Int)
  PROVE  /\ p \o s = p \o t => s = t
         /\ s \o p = t \o p => s = t
<1>1. ASSUME p \o s = p \o t PROVE s = t
  <2>1. Len(s) = Len(t)
    BY <1>1, ConcatIs
  <2>2. ASSUME NEW i \in 1..Len(s) PROVE s[i] = t[i]
    <3>1. i \in 1..Len(t)
      BY <2>1
    <3>2. (p \o s)[Len(p) + i] = s[i]
      BY ConcatIs
    <3>3. (p \o t)[Len(p) + i] = t[i]
      BY <3>1, ConcatIs
    <3> QED BY <1>1, <3>2, <3>3
  <2> QED BY <2>1, <2>2, SeqEqual
<1>2. ASSUME s \o p = t \o p PROVE s = t
  <2>1. Len(s) = Len(t)
    BY <1>2, ConcatIs
  <2>2. ASSUME NEW i \in 1..Len(s) PROVE s[i] = t[i]
    <3>1. i \in 1..Len(t)
      BY <2>1
    <3>2. (s \o p)[i] = s[i]
      BY ConcatIs
    <3>3. (t \o p)[i] = t[i]
      BY <3>1, ConcatIs
    <3> QED BY <1>2, <3>2, <3>3
  <2> QED BY <2>1, <2>2, SeqEqual
<1> QED BY <1>1, <1>2

IsChar(c) == c \in Int /\ c = Signed(c, 1)

\* A char is printed as itself or with a backslash before it.
LEMMA CharIs ==
  ASSUME NEW c, IsChar(c)
  PROVE  /\ PrintChar(c) \in Seq(Int) /\ Len(PrintChar(c)) >= 1
         /\ c \in Printable => PrintChar(c) = <<c>>
         /\ c \notin Printable => PrintChar(c)[1] = Backslash /\ Len(PrintChar(c)) > 1
         /\ c = CR => PrintChar(c)[2] = 114
         /\ c = LF => PrintChar(c)[2] = 110
         /\ c \notin Printable \cup {CR, LF} =>
              /\ PrintChar(c)[2] = 120 /\ Len(PrintChar(c)) = 4
              /\ PrintChar(c) = <<Backslash, 120>> \o PrintHex(UWord(c), 2)
<1>1. PrintHex(UWord(c), 2) \in Seq(Int) /\ Len(PrintHex(UWord(c), 2)) = 2
  <2>1. UWord(c) \in Nat /\ 2 \in 0..16
    BY UWordOfWord DEF IsChar
  <2> HIDE DEF IsChar
  <2> QED BY <2>1, HexIs
<1>2. CR \notin Printable /\ LF \notin Printable /\ CR # LF
  BY PrintAssumption
<1>3. CASE c \in Printable
  <2>1. PrintChar(c) = <<c>>
    BY <1>2, <1>3 DEF PrintChar
  <2>2. <<c>> \in Seq(Int) /\ Len(<<c>>) = 1
    BY DEF IsChar
  <2> QED BY <1>2, <1>3, <2>1, <2>2
<1>4. CASE c = CR
  <2>1. PrintChar(c) = <<Backslash, 114>>
    BY <1>2, <1>4 DEF PrintChar
  <2> QED BY <1>2, <1>4, <2>1 DEF Backslash
<1>5. CASE c = LF
  <2>1. PrintChar(c) = <<Backslash, 110>>
    BY <1>2, <1>5 DEF PrintChar
  <2> QED BY <1>2, <1>5, <2>1 DEF Backslash
<1>6. CASE c \notin Printable \cup {CR, LF}
  <2> DEFINE h == PrintHex(UWord(c), 2)
             b == <<Backslash, 120>>
  <2>1. PrintChar(c) = b \o h
    BY <1>6 DEF PrintChar
  <2>2. b \in Seq(Int) /\ h \in Seq(Int)
    BY <1>1 DEF Backslash
  <2>3. Len(b) = 2 /\ b[1] = Backslash /\ b[2] = 120 /\ Len(h) = 2
    BY <1>1 DEF Backslash
  <2> HIDE DEF b, h
  <2>5. /\ b \o h \in Seq(Int) /\ Len(b \o h) = Len(b) + Len(h)
        /\ \A i \in 1..Len(b) : (b \o h)[i] = b[i]
    BY <2>2, ConcatIs
  <2>4. b \o h \in Seq(Int) /\ Len(b \o h) = 4 /\ (b \o h)[1] = b[1] /\ (b \o h)[2] = b[2]
    BY <2>3, <2>5
  <2> QED BY <1>6, <2>1, <2>2, <2>4 DEF b, h
<1> QED BY <1>3, <1>4, <1>5, <1>6

\* A single char is not a longer text.
LEMMA LongerDiffers ==
  ASSUME NEW s \in Seq(Int), NEW t \in Seq(Int), Len(s) = 1, Len(t) > 1
  PROVE  s # t /\ t # s
<1>1. ASSUME s = t PROVE FALSE
  <2>1. Len(t) = 1
    BY <1>1
  <2> QED BY <2>1
<1> QED BY <1>1

\* Different chars have different texts, and neither begins with the other
\* unless one is a backslash.
LEMMA CharsShow ==
  ASSUME NEW c, NEW d, IsChar(c), IsChar(d), c # d
  PROVE  /\ PrintChar(c) # PrintChar(d)
         /\ c # Backslash /\ d # Backslash =>
              \E p \in 1..Len(PrintChar(c)) :
                p \in 1..Len(PrintChar(d)) /\ PrintChar(c)[p] # PrintChar(d)[p]
<1> DEFINE C == PrintChar(c)
           D == PrintChar(d)
           Tell == \E p \in 1..Len(C) : p \in 1..Len(D) /\ C[p] # D[p]
<1>1. C \in Seq(Int) /\ D \in Seq(Int) /\ Len(C) \in Nat /\ Len(D) \in Nat
      /\ Len(C) >= 1 /\ Len(D) >= 1
  BY CharIs, LenProperties
<1>2. ASSUME Tell PROVE C # D
  BY <1>2
<1>3. ASSUME NEW p \in {1, 2}, Len(C) >= p, Len(D) >= p, C[p] # D[p] PROVE Tell
  <2>1. p \in 1..Len(C) /\ p \in 1..Len(D)
    BY <1>1, <1>3
  <2> QED BY <1>3, <2>1
<1>4. CASE c \in Printable /\ d \in Printable
  <2>1. C[1] = c /\ D[1] = d
    BY <1>4, CharIs
  <2> QED BY <1>1, <1>2, <1>3, <2>1
<1>5. CASE c \in Printable /\ d \notin Printable
  <2>1. C[1] = c /\ Len(C) = 1 /\ D[1] = Backslash /\ Len(D) > 1
    BY <1>5, CharIs
  <2>2. C # D
    BY <1>1, <2>1, LongerDiffers
  <2>3. c # Backslash => Tell
    BY <1>1, <1>3, <2>1
  <2> QED BY <2>2, <2>3
<1>6. CASE c \notin Printable /\ d \in Printable
  <2>1. D[1] = d /\ Len(D) = 1 /\ C[1] = Backslash /\ Len(C) > 1
    BY <1>6, CharIs
  <2>2. C # D
    BY <1>1, <2>1, LongerDiffers
  <2>3. d # Backslash => Tell
    BY <1>1, <1>3, <2>1
  <2> QED BY <2>2, <2>3
<1>7. CASE c \notin Printable /\ d \notin Printable
  <2>1. Len(C) > 1 /\ Len(D) > 1
    BY <1>7, CharIs
  <2>2. CASE c \in {CR, LF} \/ d \in {CR, LF}
    <3> DEFINE Second(x) == IF x = CR THEN 114 ELSE IF x = LF THEN 110 ELSE 120
    <3>3. C[2] = Second(c)
      BY <1>7, CharIs
    <3>4. D[2] = Second(d)
      BY <1>7, CharIs
    <3>1. C[2] # D[2]
      BY <2>2, <3>3, <3>4
    <3>2. Tell
      BY <1>1, <1>3, <2>1, <3>1
    <3> QED BY <1>2, <3>2
  <2>3. CASE c \notin {CR, LF} /\ d \notin {CR, LF}
    <3> DEFINE b == <<Backslash, 120>>
               g == PrintHex(UWord(c), 2)
               h == PrintHex(UWord(d), 2)
    <3>1. C = b \o g /\ D = b \o h /\ Len(C) = 4 /\ Len(D) = 4
      BY <1>7, <2>3, CharIs
    <3>2. 1 \in Length /\ 2 * 1 = 2 /\ c \in Int /\ d \in Int
      BY DEF Length, IsChar
    <3>3. Unsigned(c, 1) # Unsigned(d, 1)
      BY <3>2, SameBytes DEF IsChar
    <3>4. g # h /\ g \in Seq(Int) /\ h \in Seq(Int)
      BY <3>2, <3>3, HexShows
    <3>5. b \in Seq(Int)
      BY DEF Backslash
    <3> HIDE DEF b, g, h
    <3>6. C # D
      BY <3>1, <3>4, <3>5, ConcatShows
    <3>7. \E p \in 1..4 : C[p] # D[p]
      BY <1>1, <3>1, <3>6, SeqEqual
    <3> QED BY <3>1, <3>6, <3>7
  <2> QED BY <2>2, <2>3
<1> QED BY <1>4, <1>5, <1>6, <1>7

\* Numbers that differ in their bytes are different in a hex style.
LEMMA HexStyleShows ==
  ASSUME NEW style, style.range = "hex", style.length \in Length,
         NEW x \in Int, NEW y \in Int, Unsigned(x, style.length) # Unsigned(y, style.length)
  PROVE  PrintByStyle(x, style) # PrintByStyle(y, style)
<1> DEFINE p == <<48, 120>>
           X == PrintHex(UWord(x), 2 * style.length)
           Y == PrintHex(UWord(y), 2 * style.length)
<1>1. X # Y /\ X \in Seq(Int) /\ Y \in Seq(Int)
  BY HexShows
<1>2. PrintByStyle(x, style) = p \o X /\ PrintByStyle(y, style) = p \o Y
  BY DEF PrintByStyle
<1>3. p \in Seq(Int)
  OBVIOUS
<1> HIDE DEF p, X, Y
<1> QED BY <1>1, <1>2, <1>3, ConcatShows

\* Numbers of different values are different in the style of their type.
LEMMA NumbersShow ==
  ASSUME NEW type \in IntTypes, NEW a \in Int, NEW b \in Int, Value(type, a) # Value(type, b),
         NEW x \in {Cast(type, a), CastEqual(type, a)},
         NEW y \in {Cast(type, b), CastEqual(type, b)}
  PROVE  PrintByStyle(x, type) # PrintByStyle(y, type)
<1>1. /\ type.length \in Length /\ type.cast \in Length
      /\ type.range \in {"int", "uint", "hex", "char"}
      /\ type.range = "hex" => type.cast = type.length
  BY TypeFacts
<1>2. type.range # "hex" => x = Cast(type, a) /\ y = Cast(type, b)
  BY DEF CastEqual
<1>3. Half(8) \in Nat /\ Span(8) \in Nat /\ Span(8) = 2 * Half(8) /\ Half(8) > 0 /\ 8 \in Length
  BY SpanType DEF Length
<1>4. CASE type.range = "char"
  <2>1. type.cast = 1
    BY <1>4 DEF IntTypes, INT, UINT, CHAR, Type
  <2>2. x = Signed(a, 1) /\ y = Signed(b, 1) /\ x # y
    BY <1>2, <1>4, <2>1 DEF Cast, Value, IsSigned
  <2>3. 1 \in Length
    BY DEF Length
  <2>4. IsChar(x) /\ IsChar(y)
    <3>1. \A n \in Int : Signed(n, 1) \in Int /\ Signed(Signed(n, 1), 1) = Signed(n, 1)
      BY <2>3, SignedFacts, SignedSame
    <3> QED BY <2>2, <3>1 DEF IsChar
  <2>5. PrintChar(x) # PrintChar(y) /\ PrintChar(x) \in Seq(Int) /\ PrintChar(y) \in Seq(Int)
    BY <2>2, <2>4, CharIs, CharsShow
  <2> DEFINE q == <<Quote>>
             X == PrintChar(x)
             Y == PrintChar(y)
  <2>6. q \in Seq(Int)
    BY DEF Quote
  <2>7. PrintByStyle(x, type) = q \o X \o q /\ PrintByStyle(y, type) = q \o Y \o q
    BY <1>4 DEF PrintByStyle
  <2>8. X \in Seq(Int) /\ Y \in Seq(Int) /\ X # Y
    BY <2>5
  <2> HIDE DEF q, X, Y
  <2>9. q \o X \in Seq(Int) /\ q \o Y \in Seq(Int)
    BY <2>6, <2>8, ConcatIs
  <2>10. q \o X # q \o Y
    BY <2>6, <2>8, ConcatShows
  <2> QED BY <2>6, <2>7, <2>9, <2>10, ConcatShows
<1>5. CASE type.range = "int"
  <2>1. x = Value(type, a) /\ y = Value(type, b) /\ x \in Int /\ y \in Int
    BY <1>2, <1>5, CastFacts DEF IsSigned
  <2>2. ASSUME NEW n \in Int PROVE - Half(8) <= Value(type, n) /\ Value(type, n) < Half(8)
    <3> DEFINE c == type.cast
    <3>1. - Half(c) <= Value(type, n) /\ Value(type, n) < Half(c) /\ Value(type, n) \in Int
      BY <1>5, CastFacts DEF IsSigned
    <3>2. Half(c) <= Half(8) /\ Half(c) \in Nat
      BY <1>1, <1>3, SpanType
    <3> QED BY <1>3, <3>1, <3>2
  <2>3. PrintByStyle(x, type) = PrintNumber(x) /\ PrintByStyle(y, type) = PrintNumber(y)
    BY <1>5 DEF PrintByStyle
  <2>4. ASSUME NEW n \in Int, - Half(8) <= n, n < Half(8)
        PROVE  LET k == IF n < 0 THEN -n ELSE n IN
               /\ PrintNumber(n) = IF n < 0 THEN <<Minus>> \o Digits(k) ELSE Digits(k)
               /\ k \in Nat /\ k < Span(8)
               /\ Digits(k) \in Seq(Int) /\ Digits(k)[1] \in 48..57 /\ Len(Digits(k)) >= 1
    <3> DEFINE k == IF n < 0 THEN -n ELSE n
    <3>1. k \in Nat /\ k < Span(8)
      BY <1>3, <2>4
    <3>2. n < 0 => UWord(-n) = k
      BY <1>3, <3>1, UnsignedSame DEF UWord, WordBytes
    <3> HIDE DEF k
    <3>3. Digits(k) \in Seq(48..57) /\ Len(Digits(k)) >= 1
      BY <3>1, DigitsIs
    <3>4. Digits(k) \in Seq(Int) /\ Digits(k)[1] \in 48..57
      BY <3>3
    <3> QED BY <3>1, <3>2, <3>3, <3>4 DEF PrintNumber, k
  <2> DEFINE j == IF x < 0 THEN -x ELSE x
             k == IF y < 0 THEN -y ELSE y
             J == Digits(j)
             K == Digits(k)
             m == <<Minus>>
  <2>5. /\ PrintNumber(x) = IF x < 0 THEN m \o J ELSE J
        /\ PrintNumber(y) = IF y < 0 THEN m \o K ELSE K
        /\ j \in Nat /\ k \in Nat /\ j < Span(8) /\ k < Span(8)
        /\ J \in Seq(Int) /\ J[1] \in 48..57 /\ Len(J) >= 1
        /\ K \in Seq(Int) /\ K[1] \in 48..57 /\ Len(K) >= 1
    BY <2>1, <2>2, <2>4
  <2>6. J = K => j = k
    BY <2>5, DigitsShow
  <2>7. m \in Seq(Int) /\ m[1] = 45 /\ Len(m) = 1
    BY DEF Minus
  <2>8. x # y
    BY <2>1
  <2>9. (x < 0 <=> y < 0) => j # k
    BY <2>1, <2>8
  <2> HIDE DEF j, k, J, K, m
  <2>13. m \in Seq(Int) /\ J \in Seq(Int) /\ K \in Seq(Int)
    BY <2>5, <2>7
  <2>14. /\ \A i \in 1..Len(m) : (m \o J)[i] = m[i]
         /\ \A i \in 1..Len(m) : (m \o K)[i] = m[i]
    BY <2>13, ConcatIs
  <2>16. 1 \in 1..Len(m)
    BY <2>7
  <2>10. (m \o J)[1] = 45 /\ (m \o K)[1] = 45
    BY <2>7, <2>14, <2>16
  <2>11. m \o J = m \o K => J = K
    BY <2>5, <2>7, ConcatShows
  <2>15. J[1] \in 48..57 /\ K[1] \in 48..57
    BY <2>5
  <2>12. J[1] # 45 /\ K[1] # 45
    BY <2>15
  <2>17. PrintNumber(x) # PrintNumber(y)
    <3> DEFINE A == PrintNumber(x)
               B == PrintNumber(y)
    <3>1. A = (IF x < 0 THEN m \o J ELSE J) /\ B = (IF y < 0 THEN m \o K ELSE K)
      BY <2>5
    <3> HIDE DEF A, B
    <3>2. J # K \/ ~ (x < 0 <=> y < 0)
      BY <2>6, <2>9
    <3>3. ASSUME x < 0 <=> y < 0 PROVE A # B
      BY <2>11, <3>1, <3>2, <3>3
    <3>4. ASSUME ~ (x < 0 <=> y < 0) PROVE A # B
      BY <2>10, <2>12, <3>1, <3>4
    <3>5. A # B
      BY <3>3, <3>4
    <3> QED BY <3>5 DEF A, B
  <2> QED BY <2>1, <2>3, <2>17
<1>6. CASE type.range = "uint"
  <2>1. UWord(x) = Value(type, a) /\ UWord(y) = Value(type, b)
    BY <1>2, <1>6, CastFacts DEF IsSigned
  <2>2. x \in Int /\ y \in Int
    BY <1>2, <1>6, CastFacts
  <2>3. UWord(x) \in Nat /\ UWord(y) \in Nat /\ UWord(x) < Span(8) /\ UWord(y) < Span(8)
    BY <1>3, <2>2, UnsignedFacts DEF UWord, WordBytes
  <2>4. Digits(UWord(x)) # Digits(UWord(y))
    BY <2>1, <2>3, DigitsShow
  <2> QED BY <1>6, <2>4 DEF PrintByStyle
<1>7. CASE type.range = "hex"
  <2> DEFINE c == type.length
  <2>1. c \in Length /\ type.cast = c
    BY <1>1, <1>7
  <2>2. Value(type, a) = Unsigned(a, c) /\ Value(type, b) = Unsigned(b, c)
    BY <1>7, <2>1 DEF Value, IsSigned
  <2>3. ASSUME NEW n \in Int
        PROVE  /\ Cast(type, n) \in Int /\ Unsigned(Cast(type, n), c) = Unsigned(n, c)
               /\ CastEqual(type, n) \in Int /\ Unsigned(CastEqual(type, n), c) = Unsigned(n, c)
    <3>1. Cast(type, n) = Word(Unsigned(n, c)) /\ CastEqual(type, n) = Signed(n, c)
      BY <1>7, <2>1 DEF Cast, CastEqual, IsSigned
    <3> HIDE DEF c
    <3>2. Unsigned(n, c) \in Nat /\ Unsigned(n, c) < Span(c)
      BY <2>1, UnsignedFacts
    <3>3. Unsigned(Word(Unsigned(n, c)), c) = Unsigned(n, c) /\ Word(Unsigned(n, c)) \in Int
      BY <2>1, <3>2, UnsignedOfWord
    <3>4. Unsigned(Signed(n, c), c) = Unsigned(n, c) /\ Signed(n, c) \in Int
      BY <2>1, UnsignedOfSigned, SignedFacts
    <3> QED BY <3>1, <3>3, <3>4
  <2>4. x \in Int /\ y \in Int /\ Unsigned(x, c) # Unsigned(y, c)
    BY <2>2, <2>3
  <2> QED BY <1>7, <2>1, <2>4, HexStyleShows
<1> QED BY <1>1, <1>4, <1>5, <1>6, <1>7

-----------------------------------------------------------------------------
(* What is printed of strings.                                             *)

\* f[k] is the text of the first k of n parts, none of which is empty.
IsFlat(f, parts, n) ==
  /\ f[0] = <<>>
  /\ \A k \in 1..n : /\ parts[k] \in Seq(Int) /\ Len(parts[k]) >= 1
                     /\ f[k] = f[k - 1] \o parts[k]

\* There is a function of those texts, and FlattenSeq returns its last one.
LEMMA FlatExists ==
  ASSUME NEW n \in Nat, NEW parts
  PROVE  \E g : g = [k \in 1..n |-> IF k = 1 THEN parts[k] ELSE g[k - 1] \o parts[k]]
<1> DEFINE Turn(g, k) == IF k = 1 THEN parts[k] ELSE g[k - 1] \o parts[k]
           IsIt(g, m) == g = [k \in 1..m |-> Turn(g, k)]
           Without == {m \in 0..n : ~ \E g : IsIt(g, m)}
<1> HIDE DEF Turn, IsIt
<1>1. Without = {}
  <2> SUFFICES ASSUME Without # {} PROVE FALSE
    OBVIOUS
  <2>1. PICK m \in Without : \A j \in Without : m <= j
    <3>1. Without \subseteq Nat
      OBVIOUS
    <3> HIDE DEF Without
    <3> QED BY <3>1, SmallestExists
  <2>2. m \in 0..n /\ ~ \E g : IsIt(g, m)
    BY <2>1
  <2>3. CASE m = 0
    <3> DEFINE g == [k \in 1..0 |-> 0]
    <3>1. IsIt(g, 0)
      <4>1. 1..0 = {}
        OBVIOUS
      <4> QED BY <4>1 DEF IsIt
    <3> HIDE DEF g
    <3> QED BY <2>2, <2>3, <3>1
  <2>4. CASE m # 0
    <3>1. m - 1 \in 0..n /\ m - 1 \notin Without
      BY <2>1, <2>2, <2>4
    <3>2. PICK h : IsIt(h, m - 1)
      BY <3>1
    <3> DEFINE g == [k \in 1..m |-> Turn(h, k)]
    <3>3. ASSUME NEW k \in 1..(m - 1) PROVE g[k] = h[k]
      <4>1. k \in 1..m
        BY <2>2
      <4>2. h[k] = Turn(h, k)
        BY <3>2 DEF IsIt
      <4>3. g[k] = Turn(h, k)
        BY <4>1
      <4> HIDE DEF g
      <4> QED BY <4>2, <4>3
    <3>4. ASSUME NEW k \in 1..m PROVE Turn(g, k) = Turn(h, k)
      <4>1. CASE k = 1
        BY <4>1 DEF Turn
      <4>2. CASE k # 1
        <5>1. k - 1 \in 1..(m - 1)
          BY <2>2, <4>2
        <5>2. g[k - 1] = h[k - 1]
          BY <3>3, <5>1
        <5> HIDE DEF g
        <5> QED BY <4>2, <5>2 DEF Turn
      <4> QED BY <4>1, <4>2
    <3>5. IsIt(g, m)
      <4>1. [k \in 1..m |-> Turn(g, k)] = [k \in 1..m |-> Turn(h, k)]
        <5> HIDE DEF g
        <5> QED BY <3>4
      <4> QED BY <4>1 DEF IsIt
    <3> HIDE DEF g
    <3> QED BY <2>2, <3>5
  <2> QED BY <2>3, <2>4
<1>2. n \in 0..n /\ n \notin Without
  BY <1>1
<1>3. \E g : IsIt(g, n)
  BY <1>2
<1> QED BY <1>3 DEF IsIt, Turn

LEMMA FlattenIs ==
  ASSUME NEW n \in Nat, NEW parts, Len(parts) = n, parts = [k \in 1..n |-> parts[k]],
         \A k \in 1..n : parts[k] \in Seq(Int) /\ Len(parts[k]) >= 1
  PROVE  \E f : IsFlat(f, parts, n) /\ FlattenSeq(parts) = f[n]
<1> DEFINE Turn(g, k) == IF k = 1 THEN parts[k] ELSE g[k - 1] \o parts[k]
           IsIt(g) == g = [k \in 1..n |-> Turn(g, k)]
           flat == CHOOSE g : IsIt(g)
           f == [k \in 0..n |-> IF k = 0 THEN <<>> ELSE flat[k]]
<1>1. IsIt(flat)
  <2>1. \E g : IsIt(g)
    <3>1. \E g : g = [k \in 1..n |-> IF k = 1 THEN parts[k] ELSE g[k - 1] \o parts[k]]
      BY FlatExists
    <3> QED BY <3>1
  <2> HIDE DEF IsIt
  <2> QED BY <2>1
<1> HIDE DEF flat
<1>2. \A k \in 1..n : flat[k] = Turn(flat, k)
  BY <1>1
<1>3. f[0] = <<>>
  OBVIOUS
<1>4. ASSUME NEW k \in 1..n PROVE f[k] = f[k - 1] \o parts[k]
  <2>1. f[k] = flat[k] /\ flat[k] = Turn(flat, k)
    BY <1>2
  <2>2. CASE k = 1
    <3>1. f[k] = parts[k] /\ f[k - 1] = <<>>
      BY <1>3, <2>1, <2>2
    <3>2. parts[k] \in Seq(Int)
      OBVIOUS
    <3> HIDE DEF f
    <3>3. <<>> \o parts[k] = parts[k]
      BY <3>2
    <3> QED BY <3>1, <3>3
  <2>3. CASE k # 1
    <3>1. f[k - 1] = flat[k - 1]
      BY <2>3
    <3> QED BY <2>1, <2>3, <3>1
  <2> QED BY <2>2, <2>3
<1>5. IsFlat(f, parts, n)
  BY <1>3, <1>4 DEF IsFlat
<1>6. FlattenSeq(parts) = f[n]
  <2>1. CASE n = 0
    <3>1. FlattenSeq(parts) = parts
      BY <2>1 DEF FlattenSeq
    <3>2. parts = <<>>
      BY <2>1
    <3> QED BY <1>3, <2>1, <3>1, <3>2
  <2>2. CASE n # 0
    <3>1. FlattenSeq(parts) = flat[n]
      BY <2>2 DEF FlattenSeq, flat
    <3>2. f[n] = flat[n]
      BY <2>2
    <3> QED BY <3>1, <3>2
  <2> QED BY <2>1, <2>2
<1> QED BY <1>5, <1>6

\* Each text begins with the shorter ones.
LEMMA FlatKeeps ==
  ASSUME NEW n \in Nat, NEW parts, NEW f, IsFlat(f, parts, n),
         NEW i \in 0..n
  PROVE  \A k \in i..n : /\ f[k] \in Seq(Int) /\ f[i] \in Seq(Int)
                         /\ Len(f[i]) \in Nat /\ Len(f[k]) \in Nat
                         /\ Len(f[i]) <= Len(f[k])
                         /\ \A q \in 1..Len(f[i]) : f[k][q] = f[i][q]
<1> DEFINE Texts == {k \in 0..n : f[k] \notin Seq(Int)}
           Keeps(k) == /\ Len(f[i]) <= Len(f[k])
                       /\ \A q \in 1..Len(f[i]) : f[k][q] = f[i][q]
           Wrong == {k \in i..n : ~ Keeps(k)}
<1>1. Texts = {}
  <2> SUFFICES ASSUME Texts # {} PROVE FALSE
    OBVIOUS
  <2>1. PICK k \in Texts : \A j \in Texts : k <= j
    <3>1. Texts \subseteq Nat
      OBVIOUS
    <3> HIDE DEF Texts
    <3> QED BY <3>1, SmallestExists
  <2>2. k # 0
    <3>1. f[0] \in Seq(Int)
      <4>1. f[0] = <<>>
        BY DEF IsFlat
      <4> QED BY <4>1
    <3> QED BY <3>1
  <2>3. k \in 1..n /\ k - 1 \in 0..n /\ k - 1 \notin Texts
    BY <2>1, <2>2
  <2>4. f[k - 1] \in Seq(Int) /\ parts[k] \in Seq(Int) /\ f[k] = f[k - 1] \o parts[k]
    BY <2>3 DEF IsFlat
  <2>5. f[k - 1] \o parts[k] \in Seq(Int)
    BY <2>4, ConcatIs
  <2> QED BY <2>4, <2>5
<1>2. \A k \in 0..n : f[k] \in Seq(Int) /\ Len(f[k]) \in Nat
  BY <1>1, LenProperties
<1>3. Wrong = {}
  <2> SUFFICES ASSUME Wrong # {} PROVE FALSE
    OBVIOUS
  <2>1. PICK k \in Wrong : \A j \in Wrong : k <= j
    <3>1. Wrong \subseteq Nat
      OBVIOUS
    <3> HIDE DEF Wrong
    <3> QED BY <3>1, SmallestExists
  <2>2. k # i
    <3>1. Keeps(i)
      BY <1>2
    <3> QED BY <3>1
  <2>3. k \in 1..n /\ k - 1 \in i..n /\ k - 1 \in 0..n /\ k - 1 \notin Wrong
    BY <2>1, <2>2
  <2>4. Keeps(k - 1)
    BY <2>3
  <2> DEFINE F == f[i]
             G == f[k - 1]
             P == parts[k]
  <2>5. f[k] = G \o P
    BY <2>3 DEF IsFlat
  <2>6. G \in Seq(Int) /\ P \in Seq(Int) /\ F \in Seq(Int) /\ Len(F) \in Nat /\ Len(G) \in Nat
    BY <1>2, <2>3 DEF IsFlat
  <2>7. Len(F) <= Len(G) /\ \A q \in 1..Len(F) : G[q] = F[q]
    BY <2>4
  <2> HIDE DEF F, G, P
  <2>8. /\ Len(G \o P) = Len(G) + Len(P) /\ Len(P) \in Nat
        /\ \A q \in 1..Len(G) : (G \o P)[q] = G[q]
    BY <2>6, ConcatIs
  <2>9. Len(F) <= Len(G \o P)
    BY <2>6, <2>7, <2>8
  <2>10. ASSUME NEW q \in 1..Len(F) PROVE (G \o P)[q] = F[q]
    <3>1. q \in 1..Len(G)
      BY <2>6, <2>7
    <3> QED BY <2>7, <2>8, <3>1
  <2>11. Keeps(k)
    BY <2>5, <2>9, <2>10 DEF F
  <2> QED BY <2>1, <2>11
<1>4. \A k \in i..n : k \in 0..n /\ i \in 0..n
  OBVIOUS
<1>5. \A k \in i..n : Keeps(k)
  BY <1>3
<1> QED BY <1>2, <1>4, <1>5

\* The chars printed of a string: those before its end, length at most.
Count(e, length) == IF e - 1 < length THEN e - 1 ELSE length

\* A text is made of n parts.
FlatText(text, parts, n) == \E f : IsFlat(f, parts, n) /\ text = f[n]

\* The string's first NUL is its char e.
EndsAt(s, e) == e \in 1..Len(s) /\ s[e] = 0 /\ \A k \in 1..(e - 1) : s[k] # 0

\* The texts of the first n chars, one by one.
CharParts(s, n) == [k \in 1..n |-> PrintChar(s[k])]

\* What is printed of a string are the texts of those chars.
LEMMA PrintLenIs ==
  ASSUME NEW s, IsString(s), NEW e, EndsAt(s, e), NEW length \in Nat
  PROVE  /\ Count(e, length) \in Nat /\ Count(e, length) <= e - 1
         /\ \A k \in 1..Count(e, length) : IsChar(s[k])
         /\ FlatText(PrintLen(s, length), CharParts(s, Count(e, length)), Count(e, length))
<1> DEFINE P(k) == s[k] = 0 /\ \A j \in 1..(k - 1) : s[j] # 0
           n == Count(e, length)
           parts == CharParts(s, n)
<1>1. Len(s) \in Nat /\ s \in Seq(Int) /\ DOMAIN s = 1..Len(s)
  BY LenProperties DEF IsString
<1>2. P(e) /\ e \in 1..Len(s)
  BY DEF EndsAt
<1>3. ASSUME NEW k \in 1..Len(s), P(k) PROVE k = e
  <2>1. ~ (k < e) /\ ~ (e < k)
    BY <1>1, <1>2, <1>3
  <2> QED BY <1>1, <1>2, <2>1
<1> HIDE DEF P
<1>4. (CHOOSE k \in 1..Len(s) : P(k)) = e
  BY <1>2, <1>3
<1>5. PrintLen(s, length) = FlattenSeq(parts)
  BY <1>4 DEF PrintLen, P, Count, CharParts
<1>6. n \in Nat /\ n <= e - 1
  BY <1>1, <1>2 DEF Count
<1>7. \A k \in 1..n : IsChar(s[k])
  <2>1. \A k \in 1..n : k \in 1..Len(s)
    BY <1>1, <1>2, <1>6
  <2>2. \A k \in 1..Len(s) : s[k] \in Int /\ s[k] = Signed(s[k], 1)
    BY <1>1, ElementOfSeq DEF IsString
  <2> QED BY <2>1, <2>2 DEF IsChar
<1> HIDE DEF n
<1>8. \A k \in 1..n : parts[k] \in Seq(Int) /\ Len(parts[k]) >= 1
  <2>1. \A k \in 1..n : parts[k] = PrintChar(s[k])
    BY DEF CharParts
  <2>2. \A k \in 1..n : PrintChar(s[k]) \in Seq(Int) /\ Len(PrintChar(s[k])) >= 1
    BY <1>7, CharIs
  <2> QED BY <2>1, <2>2
<1>9. parts = [k \in 1..n |-> parts[k]]
  BY DEF CharParts
<1>10. Len(parts) = n
  <2>1. DOMAIN parts = 1..n
    BY DEF CharParts
  <2> HIDE DEF parts
  <2> QED BY <1>6, <2>1, LengthIs
<1>11. \E f : IsFlat(f, parts, n) /\ FlattenSeq(parts) = f[n]
  <2> HIDE DEF parts
  <2> QED BY <1>6, <1>8, <1>9, <1>10, FlattenIs
<1>12. FlatText(PrintLen(s, length), parts, n)
  BY <1>5, <1>11 DEF FlatText
<1> QED BY <1>6, <1>7, <1>12 DEF n

\* The first texts of two strings with the same chars are the same.
LEMMA FlatSame ==
  ASSUME NEW i \in Nat, NEW n \in Nat, NEW m \in Nat, i <= n, i <= m,
         NEW a, NEW b, NEW f, NEW g, IsFlat(f, a, n), IsFlat(g, b, m),
         \A k \in 1..i : a[k] = b[k]
  PROVE  f[i] = g[i]
<1> DEFINE Wrong == {k \in 0..i : f[k] # g[k]}
<1>1. Wrong = {}
  <2> SUFFICES ASSUME Wrong # {} PROVE FALSE
    OBVIOUS
  <2>1. PICK k \in Wrong : \A j \in Wrong : k <= j
    <3>1. Wrong \subseteq Nat
      OBVIOUS
    <3> HIDE DEF Wrong
    <3> QED BY <3>1, SmallestExists
  <2>2. k # 0
    BY DEF IsFlat
  <2>3. k \in 1..i /\ k - 1 \in 0..i /\ k - 1 \notin Wrong /\ k \in 1..n /\ k \in 1..m
    BY <2>1, <2>2
  <2>4. f[k] = f[k - 1] \o a[k] /\ g[k] = g[k - 1] \o b[k]
    BY <2>3 DEF IsFlat
  <2>5. f[k - 1] = g[k - 1] /\ a[k] = b[k]
    BY <2>3
  <2> QED BY <2>4, <2>5
<1>2. i \in 0..i
  OBVIOUS
<1> QED BY <1>1, <1>2

\* A text with one more char is longer, and goes on with that char's text.
LEMMA FlatGrows ==
  ASSUME NEW n \in Nat, NEW parts, NEW f, IsFlat(f, parts, n),
         NEW i \in 0..n, NEW j \in 1..n, j = i + 1
  PROVE  /\ Len(f[n]) > Len(f[i])
         /\ \A p \in 1..Len(parts[j]) : f[n][Len(f[i]) + p] = parts[j][p]
<1> DEFINE F == f[i]
           G == f[j]
           H == f[n]
           P == parts[j]
<1>1. j \in 0..n /\ j \in i..n /\ n \in j..n /\ n \in i..n /\ j - 1 = i
  OBVIOUS
<1>2. G = F \o P /\ P \in Seq(Int) /\ Len(P) >= 1
  BY <1>1 DEF IsFlat
<1>3. F \in Seq(Int) /\ Len(F) \in Nat
  BY <1>1, FlatKeeps
<1>4. /\ G \in Seq(Int) /\ Len(G) \in Nat /\ Len(H) \in Nat /\ Len(G) <= Len(H)
      /\ \A q \in 1..Len(G) : H[q] = G[q]
  <2>1. \A k \in j..n : /\ f[k] \in Seq(Int) /\ f[j] \in Seq(Int)
                        /\ Len(f[j]) \in Nat /\ Len(f[k]) \in Nat
                        /\ Len(f[j]) <= Len(f[k])
                        /\ \A q \in 1..Len(f[j]) : f[k][q] = f[j][q]
    BY ONLY <1>1, n \in Nat, IsFlat(f, parts, n), FlatKeeps, SMTT(20)
  <2> QED BY <1>1, <2>1
<1> HIDE DEF F, G, H, P
<1>5. /\ Len(G) = Len(F) + Len(P) /\ Len(P) \in Nat
      /\ \A q \in 1..Len(P) : G[Len(F) + q] = P[q]
  BY <1>2, <1>3, ConcatIs
<1>6. Len(H) > Len(F)
  BY <1>2, <1>3, <1>4, <1>5
<1>7. ASSUME NEW p \in 1..Len(P) PROVE H[Len(F) + p] = P[p]
  <2>1. Len(F) + p \in 1..Len(G)
    BY <1>3, <1>4, <1>5
  <2> QED BY <1>4, <1>5, <2>1
<1> QED BY <1>6, <1>7 DEF F, H, P

\* Two texts that go on with different chars differ.
LEMMA FlatTells ==
  ASSUME NEW n \in Nat, NEW a, NEW f, IsFlat(f, a, n),
         NEW m \in Nat, NEW b, NEW g, IsFlat(g, b, m),
         NEW i \in Nat, NEW j \in 1..n, j \in 1..m, j = i + 1, f[i] = g[i],
         \E p \in 1..Len(a[j]) : p \in 1..Len(b[j]) /\ a[j][p] # b[j][p]
  PROVE  f[n] # g[m]
<1>1. i \in 0..n /\ i \in 0..m
  OBVIOUS
<1>2. /\ Len(f[n]) > Len(f[i])
      /\ \A p \in 1..Len(a[j]) : f[n][Len(f[i]) + p] = a[j][p]
  BY ONLY <1>1, n \in Nat, IsFlat(f, a, n), i \in 0..n, j \in 1..n, j = i + 1, FlatGrows
<1>3. /\ Len(g[m]) > Len(g[i])
      /\ \A p \in 1..Len(b[j]) : g[m][Len(g[i]) + p] = b[j][p]
  BY ONLY <1>1, m \in Nat, IsFlat(g, b, m), i \in 0..m, j \in 1..m, j = i + 1, FlatGrows
<1> QED BY <1>2, <1>3, SMTT(20)

\* The first i parts of two texts are the same.
PartsAgree(a, b, i) == \A k \in 1..i : a[k] = b[k]

\* Their parts k have different chars at one place.
PartsTell(a, b, k) == \E p \in 1..Len(a[k]) : p \in 1..Len(b[k]) /\ a[k][p] # b[k][p]

\* Two texts whose first i parts are the same differ if only one goes on, or
\* if the next parts do.
LEMMA FlatsDiffer ==
  ASSUME NEW n \in Nat, NEW a, NEW f, IsFlat(f, a, n),
         NEW m \in Nat, NEW b, NEW g, IsFlat(g, b, m),
         NEW i \in Nat, i <= n, i <= m, n > i \/ m > i,
         PartsAgree(a, b, i), n > i /\ m > i => PartsTell(a, b, i + 1)
  PROVE  f[n] # g[m]
<1> DEFINE j == i + 1
<1>0. \A k \in 1..i : a[k] = b[k]
  BY DEF PartsAgree
<1>1. f[i] = g[i]
  BY ONLY n \in Nat, IsFlat(f, a, n), m \in Nat, IsFlat(g, b, m), i \in Nat, i <= n, i <= m,
          <1>0, FlatSame
<1>2. /\ i \in 0..n /\ i \in 0..m /\ j = i + 1
      /\ n > i => j \in 1..n
      /\ m > i => j \in 1..m
  OBVIOUS
<1> HIDE DEF j
<1>3. ASSUME NEW l \in Nat, NEW c, NEW h, IsFlat(h, c, l), i \in 0..l, l > i, j \in 1..l
      PROVE  Len(h[l]) > Len(h[i]) /\ Len(h[i]) \in Nat
  <2>1. Len(h[l]) > Len(h[i])
    BY ONLY <1>2, <1>3, FlatGrows
  <2>2. l \in i..l
    BY <1>3
  <2>3. Len(h[i]) \in Nat
    BY ONLY <1>3, <2>2, FlatKeeps
  <2> QED BY <2>1, <2>3
<1>4. CASE n = i
  <2>1. Len(g[m]) > Len(g[i]) /\ Len(g[i]) \in Nat
    BY <1>2, <1>3, <1>4
  <2>2. Len(g[m]) # Len(f[n])
    BY <1>1, <1>4, <2>1
  <2> QED BY <2>2
<1>5. CASE m = i
  <2>1. Len(f[n]) > Len(f[i]) /\ Len(f[i]) \in Nat
    BY <1>2, <1>3, <1>5
  <2>2. Len(g[m]) # Len(f[n])
    BY <1>1, <1>5, <2>1
  <2> QED BY <2>2
<1>6. CASE n > i /\ m > i
  <2>1. \E p \in 1..Len(a[j]) : p \in 1..Len(b[j]) /\ a[j][p] # b[j][p]
    BY <1>2, <1>6 DEF PartsTell
  <2>2. j \in 1..n /\ j \in 1..m
    BY <1>2, <1>6
  <2> QED BY ONLY n \in Nat, IsFlat(f, a, n), m \in Nat, IsFlat(g, b, m), i \in Nat,
                  <1>1, <1>2, <2>1, <2>2, FlatTells
<1> QED BY <1>4, <1>5, <1>6

\* Strings that differ within the length are printed differently.
LEMMA PrintLenShows ==
  ASSUME NEW s, NEW t, IsString(s), IsString(t), s # Null, t # Null,
         NEW i \in Nat, SamePrefix(s, t, i), s[i + 1] # t[i + 1],
         NEW length \in Nat, i < length,
         \A k \in DOMAIN s : s[k] # Backslash, \A k \in DOMAIN t : t[k] # Backslash
  PROVE  PrintLen(s, length) # PrintLen(t, length)
<1>1. PICK e \in 1..Len(s) : s[e] = 0 /\ \A j \in 1..(e - 1) : s[j] # 0
  BY EndExists
<1>2. PICK d \in 1..Len(t) : t[d] = 0 /\ \A j \in 1..(d - 1) : t[j] # 0
  BY EndExists
<1> DEFINE n == Count(e, length)
           m == Count(d, length)
           a == CharParts(s, n)
           b == CharParts(t, m)
<1>3. /\ n \in Nat /\ n <= e - 1 /\ \A k \in 1..n : IsChar(s[k])
      /\ FlatText(PrintLen(s, length), a, n)
  <2>1. EndsAt(s, e)
    BY <1>1 DEF EndsAt
  <2> QED BY <2>1, PrintLenIs
<1>4. /\ m \in Nat /\ m <= d - 1 /\ \A k \in 1..m : IsChar(t[k])
      /\ FlatText(PrintLen(t, length), b, m)
  <2>1. EndsAt(t, d)
    BY <1>2 DEF EndsAt
  <2> QED BY <2>1, PrintLenIs
<1>5. /\ Len(s) \in Nat /\ Len(t) \in Nat /\ DOMAIN s = 1..Len(s) /\ DOMAIN t = 1..Len(t)
      /\ \A k \in 1..i : s[k] = t[k] /\ s[k] # 0 /\ t[k] # 0
  BY LenProperties DEF IsString, SamePrefix
<1>6. i <= n /\ i <= m
  <2>1. i < e /\ i < d
    BY <1>1, <1>2, <1>5, PrefixInString
  <2> QED BY <1>5, <2>1 DEF Count
<1>7. n = i => s[i + 1] = 0
  <2>1. n = i => i + 1 = e
    BY <1>5 DEF Count
  <2> QED BY <1>1, <2>1
<1>8. m = i => t[i + 1] = 0
  <2>1. m = i => i + 1 = d
    BY <1>5 DEF Count
  <2> QED BY <1>2, <2>1
<1>9. n > i \/ m > i
  <2>1. n \in Nat /\ m \in Nat
    BY <1>3, <1>4
  <2>2. ~ (n = i /\ m = i)
    BY <1>7, <1>8
  <2> HIDE DEF n, m
  <2> QED BY <1>6, <2>1, <2>2
<1> HIDE DEF n, m
<1>10. (\A k \in 1..n : a[k] = PrintChar(s[k])) /\ (\A k \in 1..m : b[k] = PrintChar(t[k]))
  BY DEF CharParts
<1>11. \A k \in 1..i : a[k] = b[k]
  <2>1. \A k \in 1..i : k \in 1..n /\ k \in 1..m
    BY <1>3, <1>4, <1>6
  <2> QED BY <1>5, <1>10, <2>1
<1> HIDE DEF a, b
<1>12. PICK f : IsFlat(f, a, n) /\ PrintLen(s, length) = f[n]
  BY <1>3 DEF FlatText
<1>13. PICK g : IsFlat(g, b, m) /\ PrintLen(t, length) = g[m]
  BY <1>4 DEF FlatText
<1> DEFINE j == i + 1
<1>14. (n > i => j \in 1..n) /\ (m > i => j \in 1..m) /\ j = i + 1
  BY <1>3, <1>4
<1>15. /\ n > i => s[j] # Backslash /\ IsChar(s[j])
       /\ m > i => t[j] # Backslash /\ IsChar(t[j])
       /\ s[j] # t[j]
  <2>1. (n > i => j \in DOMAIN s) /\ (m > i => j \in DOMAIN t)
    BY <1>3, <1>4, <1>5
  <2> QED BY <1>3, <1>4, <1>14, <2>1
<1> HIDE DEF j
<1>16. n > i /\ m > i =>
         \E p \in 1..Len(a[j]) : p \in 1..Len(b[j]) /\ a[j][p] # b[j][p]
  <2> SUFFICES ASSUME n > i, m > i
               PROVE  \E p \in 1..Len(a[j]) : p \in 1..Len(b[j]) /\ a[j][p] # b[j][p]
    OBVIOUS
  <2>1. a[j] = PrintChar(s[j]) /\ b[j] = PrintChar(t[j])
    BY <1>10, <1>14
  <2> QED BY <1>15, <2>1, CharsShow
<1>17. f[n] # g[m]
  <2>1. PartsAgree(a, b, i)
    BY <1>11 DEF PartsAgree
  <2>2. n > i /\ m > i => PartsTell(a, b, i + 1)
    BY <1>16 DEF PartsTell, j
  <2> QED BY ONLY i \in Nat, <1>3, <1>4, <1>6, <1>9, <1>12, <1>13, <2>1, <2>2, FlatsDiffer
<1> QED BY <1>12, <1>13, <1>17

\* What is printed of a string is a text.
LEMMA PrintLenType ==
  ASSUME NEW s, IsString(s), s # Null, NEW length \in Nat
  PROVE  PrintLen(s, length) \in Seq(Int)
<1>1. PICK e \in 1..Len(s) : s[e] = 0 /\ \A j \in 1..(e - 1) : s[j] # 0
  BY EndExists
<1> DEFINE n == Count(e, length)
           a == CharParts(s, n)
<1>2. /\ n \in Nat /\ \A k \in 1..n : IsChar(s[k])
      /\ FlatText(PrintLen(s, length), a, n)
  <2>1. EndsAt(s, e)
    BY <1>1 DEF EndsAt
  <2> QED BY <2>1, PrintLenIs
<1> HIDE DEF n
<1> HIDE DEF a
<1>4. PICK f : IsFlat(f, a, n) /\ PrintLen(s, length) = f[n]
  BY <1>2 DEF FlatText
<1>5. n \in 0..n /\ n \in n..n
  BY <1>2
<1>6. f[n] \in Seq(Int)
  BY <1>2, <1>4, <1>5, FlatKeeps
<1> QED BY <1>4, <1>6

\* An ESC and a '[' at p; and one of those up to l, with no 'm' and no NUL from
\* it to before k.
Opens(s, p) == p < Len(s) /\ s[p] = ESC /\ s[p + 1] = LBracket

Inside(s, k, l) ==
  \E p \in 1..l : Opens(s, p) /\ \A x \in p..(k - 1) : s[x] \notin {0, LetterM}

\* In an escape: in one that was open, or at the start of one.
LEMMA InEscapeIs ==
  ASSUME NEW s, NEW k \in Nat, k >= 1
  PROVE  /\ InEscape(s, k) <=> Inside(s, k, k)
         /\ InEscape(s, k) <=> Inside(s, k, k - 1) \/ Opens(s, k)
<1>1. InEscape(s, k) <=> Inside(s, k, k)
  BY DEF InEscape, Inside, Opens
<1>2. Inside(s, k, k - 1) => Inside(s, k, k)
  BY DEF Inside
<1>3. Opens(s, k) => Inside(s, k, k)
  BY DEF Inside
<1>4. Inside(s, k, k) => Inside(s, k, k - 1) \/ Opens(s, k)
  <2>1. \A p \in 1..k : p \in 1..(k - 1) \/ p = k
    OBVIOUS
  <2> QED BY <2>1 DEF Inside
<1> QED BY <1>1, <1>2, <1>3, <1>4

LEMMA InsideNext ==
  ASSUME NEW s, NEW k \in Nat, k >= 1
  PROVE  /\ Inside(s, k + 1, k) <=> Inside(s, k + 1, k - 1) \/ Opens(s, k)
         /\ Inside(s, k, k - 1) /\ s[k] \notin {0, LetterM} => Inside(s, k + 1, k - 1)
<1>1. Opens(s, k) => Inside(s, k + 1, k)
  <2> SUFFICES ASSUME Opens(s, k) PROVE Inside(s, k + 1, k)
    OBVIOUS
  <2>1. s[k] \notin {0, LetterM}
    BY PrintAssumption DEF Opens
  <2>2. \A x \in k..((k + 1) - 1) : x = k
    OBVIOUS
  <2> QED BY <2>1, <2>2 DEF Inside
<1>2. Inside(s, k + 1, k - 1) => Inside(s, k + 1, k)
  BY DEF Inside
<1>3. Inside(s, k + 1, k) => Inside(s, k + 1, k - 1) \/ Opens(s, k)
  <2>1. \A p \in 1..k : p \in 1..(k - 1) \/ p = k
    OBVIOUS
  <2> QED BY <2>1 DEF Inside
<1>4. Inside(s, k, k - 1) /\ s[k] \notin {0, LetterM} => Inside(s, k + 1, k - 1)
  <2> SUFFICES ASSUME Inside(s, k, k - 1), s[k] \notin {0, LetterM}
               PROVE  Inside(s, k + 1, k - 1)
    OBVIOUS
  <2>1. PICK p \in 1..(k - 1) : Opens(s, p) /\ \A x \in p..(k - 1) : s[x] \notin {0, LetterM}
    BY DEF Inside
  <2>2. \A x \in p..((k + 1) - 1) : x \in p..(k - 1) \/ x = k
    OBVIOUS
  <2>3. \A x \in p..((k + 1) - 1) : s[x] \notin {0, LetterM}
    BY <2>1, <2>2
  <2> QED BY <2>1, <2>3 DEF Inside
<1> QED BY <1>1, <1>2, <1>3, <1>4

\* An escape opened before the last of the chars two strings share is open in
\* both.
LEMMA InsideSame ==
  ASSUME NEW s, NEW t, NEW i \in Nat, SamePrefix(s, t, i),
         Len(s) \in Nat, Len(t) \in Nat, i < Len(s), i < Len(t),
         NEW k \in 1..(i + 1), NEW l, l \in Int, l < i
  PROVE  Inside(s, k, l) <=> Inside(t, k, l)
<1>1. \A p \in 1..l : Opens(s, p) <=> Opens(t, p)
  <2> SUFFICES ASSUME NEW p \in 1..l PROVE Opens(s, p) <=> Opens(t, p)
    OBVIOUS
  <2>1. p \in 1..i /\ p + 1 \in 1..i /\ p < Len(s) /\ p < Len(t)
    OBVIOUS
  <2> QED BY <2>1 DEF Opens, SamePrefix
<1>2. \A p \in 1..l : \A x \in p..(k - 1) : s[x] = t[x]
  <2>1. \A p \in 1..l : \A x \in p..(k - 1) : x \in 1..i
    OBVIOUS
  <2> QED BY <2>1 DEF SamePrefix
<1> QED BY <1>1, <1>2 DEF Inside

\* The texts of the chars before the end.
TextParts(s, e) == [k \in 1..(e - 1) |-> PrintAt(s, k)]

\* What is printed of the chars before the end.
LEMMA PrintAllIs ==
  ASSUME NEW s, IsString(s), s # Null, EscapesEnd(s),
         NEW e \in 1..Len(s), s[e] = 0, \A j \in 1..(e - 1) : s[j] # 0
  PROVE  /\ \A k \in 1..(e - 1) :
              /\ IsChar(s[k])
              /\ InEscape(s, k) => PrintAt(s, k) = <<s[k]>>
              /\ ~ InEscape(s, k) => PrintAt(s, k) = PrintChar(s[k])
         /\ \E f : IsFlat(f, TextParts(s, e), e - 1) /\ PrintAll(s) = {f[e - 1]}
<1> DEFINE n == e - 1
           parts == TextParts(s, e)
<1>1. Len(s) \in Nat /\ s \in Seq(Int) /\ DOMAIN s = 1..Len(s) /\ n \in Nat
  BY LenProperties DEF IsString
<1>2. PrintEnd(s) = e /\ PrintEnd(s) \in DOMAIN s
  BY PrintEndIs
<1>3. PrintAll(s) = {FlattenSeq(parts)}
  BY <1>2 DEF PrintAll, TextParts
<1>4. \A k \in 1..n : IsChar(s[k])
  <2>1. \A k \in 1..n : k \in 1..Len(s)
    BY <1>1
  <2>2. \A k \in 1..Len(s) : s[k] \in Int /\ s[k] = Signed(s[k], 1)
    BY <1>1, ElementOfSeq DEF IsString
  <2> QED BY <2>1, <2>2 DEF IsChar
<1>5. \A k \in 1..n : /\ InEscape(s, k) => PrintAt(s, k) = <<s[k]>>
                      /\ ~ InEscape(s, k) => PrintAt(s, k) = PrintChar(s[k])
  BY DEF PrintAt
<1>6. \A k \in 1..n : PrintAt(s, k) \in Seq(Int) /\ Len(PrintAt(s, k)) >= 1
  <2> SUFFICES ASSUME NEW k \in 1..n
               PROVE  PrintAt(s, k) \in Seq(Int) /\ Len(PrintAt(s, k)) >= 1
    OBVIOUS
  <2>1. IsChar(s[k])
    BY <1>4
  <2>2. PrintChar(s[k]) \in Seq(Int) /\ Len(PrintChar(s[k])) >= 1
    BY <2>1, CharIs
  <2>3. <<s[k]>> \in Seq(Int) /\ Len(<<s[k]>>) >= 1
    BY <2>1 DEF IsChar
  <2> QED BY <1>5, <2>2, <2>3
<1>7. /\ parts = [k \in 1..n |-> parts[k]] /\ DOMAIN parts = 1..n
      /\ \A k \in 1..n : parts[k] = PrintAt(s, k)
  BY DEF TextParts
<1> HIDE DEF n, parts
<1>8. Len(parts) = n
  BY <1>1, <1>7, LengthIs
<1>9. \A k \in 1..n : parts[k] \in Seq(Int) /\ Len(parts[k]) >= 1
  BY <1>6, <1>7
<1>10. \E f : IsFlat(f, parts, n) /\ FlattenSeq(parts) = f[n]
  BY <1>1, <1>7, <1>8, <1>9, FlattenIs
<1>11. \E f : IsFlat(f, parts, n) /\ PrintAll(s) = {f[n]}
  BY <1>3, <1>10
<1> QED BY <1>4, <1>5, <1>11 DEF n, parts

\* Outside an escape no text begins with an ESC.
LEMMA NoEscapeChar ==
  ASSUME NEW c, IsChar(c)
  PROVE  Len(PrintChar(c)) \in Nat /\ Len(PrintChar(c)) >= 1 /\ PrintChar(c)[1] # ESC
<1>1. ESC \notin Printable /\ ESC # Backslash
  BY PrintAssumption
<1>2. PrintChar(c) \in Seq(Int) /\ Len(PrintChar(c)) >= 1
  BY CharIs
<1>3. Len(PrintChar(c)) \in Nat
  BY <1>2, LenProperties
<1>4. CASE c \in Printable
  <2>1. PrintChar(c) = <<c>>
    BY <1>4, CharIs
  <2>2. PrintChar(c)[1] = c
    BY <2>1
  <2> QED BY <1>1, <1>2, <1>3, <1>4, <2>2
<1>5. CASE c \notin Printable
  <2>1. PrintChar(c)[1] = Backslash
    BY <1>5, CharIs
  <2> QED BY <1>1, <1>2, <1>3, <2>1
<1> QED BY <1>4, <1>5

\* Strings that differ are printed differently by UnityPrint.
LEMMA PrintAllShows ==
  ASSUME NEW s, NEW t, IsString(s), IsString(t), s # Null, t # Null,
         EscapesEnd(s), EscapesEnd(t),
         NEW i \in Nat, SamePrefix(s, t, i), s[i + 1] # t[i + 1],
         \A k \in DOMAIN s : s[k] # Backslash, \A k \in DOMAIN t : t[k] # Backslash,
         NEW X \in PrintAll(s), NEW Y \in PrintAll(t)
  PROVE  X # Y
<1>1. PICK e \in 1..Len(s) : s[e] = 0 /\ \A k \in 1..(e - 1) : s[k] # 0
  BY EndExists
<1>2. PICK d \in 1..Len(t) : t[d] = 0 /\ \A k \in 1..(d - 1) : t[k] # 0
  BY EndExists
<1> DEFINE n == e - 1
           m == d - 1
           a == TextParts(s, e)
           b == TextParts(t, d)
           j == i + 1
           Tell(k) == \E p \in 1..Len(a[k]) : p \in 1..Len(b[k]) /\ a[k][p] # b[k][p]
<1>3. /\ Len(s) \in Nat /\ Len(t) \in Nat /\ DOMAIN s = 1..Len(s) /\ DOMAIN t = 1..Len(t)
      /\ \A k \in 1..i : s[k] = t[k] /\ s[k] # 0 /\ t[k] # 0
  BY LenProperties DEF IsString, SamePrefix
<1>4. i < e /\ i < d /\ i < Len(s) /\ i < Len(t)
  BY <1>1, <1>2, <1>3, PrefixInString
<1>5. n \in Nat /\ m \in Nat /\ i <= n /\ i <= m /\ (n > i \/ m > i)
  <2>1. n \in Nat /\ m \in Nat /\ i <= n /\ i <= m
    BY <1>3, <1>4
  <2>2. (n = i => s[i + 1] = 0) /\ (m = i => t[i + 1] = 0)
    <3>1. (n = i => i + 1 = e) /\ (m = i => i + 1 = d)
      BY <1>3
    <3> QED BY <1>1, <1>2, <3>1
  <2> QED BY <2>1, <2>2
<1>6. /\ \A k \in 1..n : /\ IsChar(s[k])
                         /\ InEscape(s, k) => a[k] = <<s[k]>>
                         /\ ~ InEscape(s, k) => a[k] = PrintChar(s[k])
      /\ \E f : IsFlat(f, a, n) /\ X = f[n]
  <2>1. \A k \in 1..n : a[k] = PrintAt(s, k)
    BY DEF TextParts
  <2>2. /\ \A k \in 1..n : /\ IsChar(s[k])
                           /\ InEscape(s, k) => PrintAt(s, k) = <<s[k]>>
                           /\ ~ InEscape(s, k) => PrintAt(s, k) = PrintChar(s[k])
        /\ \E f : IsFlat(f, a, n) /\ PrintAll(s) = {f[n]}
    BY <1>1, PrintAllIs
  <2> HIDE DEF n, a
  <2> QED BY <2>1, <2>2
<1>7. /\ \A k \in 1..m : /\ IsChar(t[k])
                         /\ InEscape(t, k) => b[k] = <<t[k]>>
                         /\ ~ InEscape(t, k) => b[k] = PrintChar(t[k])
      /\ \E g : IsFlat(g, b, m) /\ Y = g[m]
  <2>1. \A k \in 1..m : b[k] = PrintAt(t, k)
    BY DEF TextParts
  <2>2. /\ \A k \in 1..m : /\ IsChar(t[k])
                           /\ InEscape(t, k) => PrintAt(t, k) = <<t[k]>>
                           /\ ~ InEscape(t, k) => PrintAt(t, k) = PrintChar(t[k])
        /\ \E g : IsFlat(g, b, m) /\ PrintAll(t) = {g[m]}
    BY <1>2, PrintAllIs
  <2> HIDE DEF m, b
  <2> QED BY <2>1, <2>2
<1>8. PICK f : IsFlat(f, a, n) /\ X = f[n]
  BY <1>6
<1>9. PICK g : IsFlat(g, b, m) /\ Y = g[m]
  BY <1>7
<1> HIDE DEF n, m, a, b
<1>10. \A k \in 1..i : (InEscape(s, k) <=> InEscape(t, k)) => a[k] = b[k]
  <2>1. \A k \in 1..i : k \in 1..n /\ k \in 1..m
    BY <1>5
  <2> QED BY <1>3, <1>6, <1>7, <2>1
<1>11. \A k \in 1..(i - 1) : a[k] = b[k]
  <2> SUFFICES ASSUME NEW k \in 1..(i - 1) PROVE a[k] = b[k]
    OBVIOUS
  <2>1. k \in Nat /\ k >= 1 /\ k \in 1..i /\ k \in 1..(i + 1) /\ k \in Int /\ k < i
    OBVIOUS
  <2>2. Inside(s, k, k) <=> Inside(t, k, k)
    BY <1>3, <1>4, <2>1, InsideSame
  <2>3. InEscape(s, k) <=> InEscape(t, k)
    BY <2>1, <2>2, InEscapeIs
  <2> QED BY <1>10, <2>1, <2>3
<1>12. i >= 1 => (Inside(s, i, i - 1) <=> Inside(t, i, i - 1))
  <2>1. i >= 1 => i \in 1..(i + 1) /\ i - 1 \in Int /\ i - 1 < i
    OBVIOUS
  <2> QED BY <1>3, <1>4, <2>1, InsideSame
<1>13. i >= 1 => /\ InEscape(s, i) <=> Inside(s, i, i - 1) \/ Opens(s, i)
                 /\ InEscape(t, i) <=> Inside(t, i, i - 1) \/ Opens(t, i)
  BY InEscapeIs
<1>14. CASE i >= 1 /\ ~ Inside(s, i, i - 1) /\ ~ (Opens(s, i) <=> Opens(t, i))
  <2>1. i \in 1..i /\ i \in 1..n /\ i \in 1..m
    BY <1>5, <1>14
  <2>2. /\ IsChar(s[i]) /\ IsChar(t[i]) /\ s[i] = ESC /\ t[i] = ESC
        /\ InEscape(s, i) <=> ~ InEscape(t, i)
    BY <1>3, <1>6, <1>7, <1>12, <1>13, <1>14, <2>1 DEF Opens
  <2>3. /\ InEscape(s, i) => a[i] = <<ESC>> /\ b[i] = PrintChar(ESC)
        /\ InEscape(t, i) => b[i] = <<ESC>> /\ a[i] = PrintChar(ESC)
    BY <1>6, <1>7, <2>1, <2>2
  <2>4. /\ Len(PrintChar(ESC)) \in Nat /\ Len(PrintChar(ESC)) >= 1
        /\ PrintChar(ESC)[1] # ESC
    BY <2>2, NoEscapeChar
  <2>5. 1 \in 1..Len(a[i]) /\ 1 \in 1..Len(b[i]) /\ a[i][1] # b[i][1]
    <3> DEFINE C == PrintChar(ESC)
    <3> HIDE DEF C
    <3>1. Len(<<ESC>>) = 1 /\ <<ESC>>[1] = ESC /\ 1 \in 1..Len(C) /\ C[1] # ESC
      BY <2>4 DEF C
    <3>2. CASE InEscape(s, i)
      <4>1. a[i] = <<ESC>> /\ b[i] = C
        BY <2>3, <3>2 DEF C
      <4> QED BY <3>1, <4>1
    <3>3. CASE InEscape(t, i)
      <4>1. b[i] = <<ESC>> /\ a[i] = C
        BY <2>3, <3>3 DEF C
      <4> QED BY <3>1, <4>1
    <3> QED BY <2>2, <3>2, <3>3
  <2>6. Tell(i)
    BY <2>5
  <2> DEFINE h == i - 1
  <2>7. h \in Nat /\ h <= n /\ h <= m /\ (n > h \/ m > h)
    BY <1>5, <1>14
  <2>8. h + 1 = i
    OBVIOUS
  <2> HIDE DEF h
  <2>9. \A k \in 1..h : a[k] = b[k]
    BY <1>11 DEF h
  <2>10. n > h /\ m > h => Tell(h + 1)
    BY <2>6, <2>8
  <2>11. n \in Nat /\ m \in Nat /\ IsFlat(f, a, n) /\ IsFlat(g, b, m)
    BY <1>5, <1>8, <1>9
  <2>12. f[n] # g[m]
    <3>1. PartsAgree(a, b, h)
      BY <2>9 DEF PartsAgree
    <3>2. n > h /\ m > h => PartsTell(a, b, h + 1)
      BY <2>10 DEF PartsTell
    <3> QED BY ONLY <2>7, <2>11, <3>1, <3>2, FlatsDiffer
  <2> QED BY <1>8, <1>9, <2>12
<1>15. CASE i = 0 \/ Inside(s, i, i - 1) \/ (Opens(s, i) <=> Opens(t, i))
  <2>1. Inside(s, j, i) <=> Inside(t, j, i)
    <3>1. CASE i = 0
      BY <3>1 DEF Inside
    <3>2. CASE i >= 1
      <4>1. Inside(s, j, i - 1) <=> Inside(t, j, i - 1)
        <5>1. j \in 1..(i + 1) /\ i - 1 \in Int /\ i - 1 < i
          OBVIOUS
        <5> HIDE DEF j
        <5> QED BY <1>3, <1>4, <5>1, InsideSame
      <4>2. /\ Inside(s, j, i) <=> Inside(s, j, i - 1) \/ Opens(s, i)
            /\ Inside(t, j, i) <=> Inside(t, j, i - 1) \/ Opens(t, i)
            /\ Inside(s, i, i - 1) /\ s[i] \notin {0, LetterM} => Inside(s, j, i - 1)
        BY <3>2, InsideNext
      <4>3. Opens(s, i) \/ Opens(t, i) => s[i] \notin {0, LetterM}
        <5>1. s[i] = t[i]
          BY <1>3, <3>2
        <5> QED BY <5>1, PrintAssumption DEF Opens
      <4> QED BY <1>15, <3>2, <4>1, <4>2, <4>3
    <3> QED BY <3>1, <3>2
  <2>2. \A k \in 1..i : a[k] = b[k]
    <3> SUFFICES ASSUME NEW k \in 1..i PROVE a[k] = b[k]
      OBVIOUS
    <3>1. CASE k \in 1..(i - 1)
      BY <1>11, <3>1
    <3>2. CASE k = i
      <4>1. i >= 1 /\ i # 0
        BY <3>2
      <4>2. InEscape(s, i) <=> InEscape(t, i)
        BY <1>12, <1>13, <1>15, <4>1
      <4> QED BY <1>10, <3>2, <4>2
    <3> QED BY <3>1, <3>2
  <2>3. n > i /\ m > i => Tell(j)
    <3> SUFFICES ASSUME n > i, m > i PROVE Tell(j)
      OBVIOUS
    <3>1. j \in 1..n /\ j \in 1..m /\ j \in Nat /\ j >= 1 /\ j - 1 = i
      BY <1>5
    <3>2. s[j] # t[j]
      OBVIOUS
    <3>3. s[j] # Backslash /\ t[j] # Backslash
      <4>1. j \in DOMAIN s /\ j \in DOMAIN t
        BY <1>3, <3>1 DEF n, m
      <4> QED BY <4>1
    <3> HIDE DEF j
    <3>4. /\ InEscape(s, j) <=> Inside(s, j, i) \/ Opens(s, j)
          /\ InEscape(t, j) <=> Inside(t, j, i) \/ Opens(t, j)
      BY <3>1, InEscapeIs
    <3>5. IsChar(s[j]) /\ IsChar(t[j])
      BY <1>6, <1>7, <3>1
    <3>6. ASSUME 1 \in 1..Len(a[j]), 1 \in 1..Len(b[j]), a[j][1] # b[j][1] PROVE Tell(j)
      BY <3>6
    <3>7. ASSUME NEW c PROVE Len(<<c>>) = 1 /\ <<c>>[1] = c
      OBVIOUS
    <3>8. CASE InEscape(s, j) /\ InEscape(t, j)
      <4>1. a[j] = <<s[j]>> /\ b[j] = <<t[j]>>
        BY <1>6, <1>7, <3>1, <3>8
      <4> QED BY <3>2, <3>6, <3>7, <4>1
    <3>9. CASE ~ InEscape(s, j) /\ ~ InEscape(t, j)
      <4>1. a[j] = PrintChar(s[j]) /\ b[j] = PrintChar(t[j])
        BY <1>6, <1>7, <3>1, <3>9
      <4> QED BY <3>2, <3>3, <3>5, <4>1, CharsShow
    <3>10. CASE InEscape(s, j) /\ ~ InEscape(t, j)
      <4>1. s[j] = ESC
        BY <2>1, <3>4, <3>10 DEF Opens
      <4>2. a[j] = <<ESC>> /\ b[j] = PrintChar(t[j])
        BY <1>6, <1>7, <3>1, <3>10, <4>1
      <4> DEFINE C == PrintChar(t[j])
      <4>3. Len(C) \in Nat /\ Len(C) >= 1 /\ C[1] # ESC
        BY <3>5, NoEscapeChar
      <4> HIDE DEF C
      <4> QED BY <3>6, <3>7, <4>2, <4>3 DEF C
    <3>11. CASE ~ InEscape(s, j) /\ InEscape(t, j)
      <4>1. t[j] = ESC
        BY <2>1, <3>4, <3>11 DEF Opens
      <4>2. b[j] = <<ESC>> /\ a[j] = PrintChar(s[j])
        BY <1>6, <1>7, <3>1, <3>11, <4>1
      <4> DEFINE C == PrintChar(s[j])
      <4>3. Len(C) \in Nat /\ Len(C) >= 1 /\ C[1] # ESC
        BY <3>5, NoEscapeChar
      <4> HIDE DEF C
      <4> QED BY <3>6, <3>7, <4>2, <4>3 DEF C
    <3> QED BY <3>8, <3>9, <3>10, <3>11
  <2>4. f[n] # g[m]
    <3>1. PartsAgree(a, b, i)
      BY <2>2 DEF PartsAgree
    <3>2. n > i /\ m > i => PartsTell(a, b, i + 1)
      BY <2>3 DEF PartsTell, j
    <3> QED BY ONLY i \in Nat, <1>5, <1>8, <1>9, <3>1, <3>2, FlatsDiffer
  <2> QED BY <1>8, <1>9, <2>4
<1>16. i = 0 \/ i >= 1
  OBVIOUS
<1> QED BY <1>14, <1>15, <1>16

LEMMA PrintAllType ==
  ASSUME NEW s, IsString(s), s # Null, EscapesEnd(s), NEW X \in PrintAll(s)
  PROVE  X \in Seq(Int)
<1>1. PICK e \in 1..Len(s) : s[e] = 0 /\ \A j \in 1..(e - 1) : s[j] # 0
  BY EndExists
<1> DEFINE n == e - 1
           a == TextParts(s, e)
<1>2. n \in Nat
  BY EndExists
<1>3. \E f : IsFlat(f, a, n) /\ PrintAll(s) = {f[n]}
  BY <1>1, PrintAllIs
<1> HIDE DEF n, a
<1>4. PICK f : IsFlat(f, a, n) /\ X = f[n]
  BY <1>3
<1>5. n \in 0..n /\ n \in n..n
  BY <1>2
<1>6. f[n] \in Seq(Int)
  BY <1>2, <1>4, <1>5, FlatKeeps
<1> QED BY <1>4, <1>6

\* Texts in quotes, and NULL, which has none.
LEMMA QuotesShow ==
  ASSUME NEW X \in Seq(Int)
  PROVE  /\ Quoted(X) # NULL
         /\ \A Y \in Seq(Int) : X # Y => Quoted(X) # Quoted(Y)
<1> DEFINE q == <<Quote>>
           Z == q \o X
<1>1. q \in Seq(Int) /\ q[1] = 39 /\ Len(q) = 1
  BY DEF Quote
<1>2. \A W : Quoted(W) = q \o W \o q
  BY DEF Quoted
<1>3. NULL[1] = 78
  BY DEF NULL
<1> HIDE DEF q
<1>4. Z \in Seq(Int) /\ Z[1] = 39 /\ 1 \in 1..Len(Z)
  <2>1. /\ Z \in Seq(Int) /\ Len(Z) = Len(q) + Len(X) /\ Len(X) \in Nat
        /\ \A i \in 1..Len(q) : Z[i] = q[i]
    BY <1>1, ConcatIs
  <2> HIDE DEF Z
  <2> QED BY <1>1, <2>1
<1>5. Quoted(X)[1] = 39
  <2> HIDE DEF Z
  <2>1. \A i \in 1..Len(Z) : (Z \o q)[i] = Z[i]
    BY <1>1, <1>4, ConcatIs
  <2>2. (Z \o q)[1] = 39
    BY <1>4, <2>1
  <2> QED BY <1>2, <2>2 DEF Z
<1>6. ASSUME NEW Y \in Seq(Int), X # Y PROVE Quoted(X) # Quoted(Y)
  <2> DEFINE V == q \o Y
  <2>1. V \in Seq(Int)
    BY <1>1, ConcatIs
  <2>2. Z # V
    BY <1>1, <1>6, ConcatShows
  <2>3. Quoted(X) = Z \o q /\ Quoted(Y) = V \o q
    BY <1>2
  <2> HIDE DEF Z, V
  <2> QED BY <1>1, <1>4, <2>1, <2>2, <2>3, ConcatShows
<1> QED BY <1>3, <1>5, <1>6

LEMMA StringsShow ==
  ASSUME NEW s, NEW t, IsString(s), IsString(t), s # t, EscapesEnd(s), EscapesEnd(t),
         \/ Null \in {s, t}
         \/ /\ \A k \in DOMAIN s : s[k] # Backslash
            /\ \A k \in DOMAIN t : t[k] # Backslash
            /\ \E i \in Nat : SamePrefix(s, t, i) /\ s[i + 1] # t[i + 1],
         NEW expected \in PrintString(s), NEW actual \in PrintString(t)
  PROVE  expected # actual
<1>1. ASSUME NEW r, IsString(r), r # Null, EscapesEnd(r), NEW text \in PrintString(r)
      PROVE  \E X \in PrintAll(r) : X \in Seq(Int) /\ text = Quoted(X)
  <2>1. PICK X \in PrintAll(r) : text = Quoted(X)
    BY <1>1 DEF PrintString
  <2>2. X \in Seq(Int)
    BY <1>1, PrintAllType
  <2> QED BY <2>1, <2>2
<1>2. PrintString(Null) = {NULL}
  BY DEF PrintString
<1>3. CASE s = Null
  <2>1. PICK Y \in Seq(Int) : actual = Quoted(Y)
    BY <1>1, <1>3
  <2> QED BY <1>2, <1>3, <2>1, QuotesShow
<1>4. CASE t = Null
  <2>1. PICK X \in Seq(Int) : expected = Quoted(X)
    BY <1>1, <1>4
  <2> QED BY <1>2, <1>4, <2>1, QuotesShow
<1>5. CASE Null \notin {s, t}
  <2>1. PICK X \in PrintAll(s) : X \in Seq(Int) /\ expected = Quoted(X)
    BY <1>1, <1>5
  <2>2. PICK Y \in PrintAll(t) : Y \in Seq(Int) /\ actual = Quoted(Y)
    BY <1>1, <1>5
  <2>3. PICK i \in Nat : SamePrefix(s, t, i) /\ s[i + 1] # t[i + 1]
    BY <1>5
  <2>4. X # Y
    BY <1>5, <2>3, PrintAllShows
  <2> QED BY <2>1, <2>2, <2>4, QuotesShow
<1> QED BY <1>3, <1>4, <1>5

LEMMA StringsLenShow ==
  ASSUME NEW s, NEW t, IsString(s), IsString(t), s # t, NEW length \in Nat,
         \/ Null \in {s, t}
         \/ /\ \A k \in DOMAIN s : s[k] # Backslash
            /\ \A k \in DOMAIN t : t[k] # Backslash
            /\ \E i \in Nat : SamePrefix(s, t, i) /\ s[i + 1] # t[i + 1] /\ i < length
  PROVE  PrintStringLen(s, length) # PrintStringLen(t, length)
<1>1. ASSUME NEW r, IsString(r), r # Null
      PROVE  /\ PrintLen(r, length) \in Seq(Int)
             /\ PrintStringLen(r, length) = Quoted(PrintLen(r, length))
  BY <1>1, PrintLenType DEF PrintStringLen
<1>2. PrintStringLen(Null, length) = NULL
  BY DEF PrintStringLen
<1>3. CASE s = Null
  BY <1>1, <1>2, <1>3, QuotesShow
<1>4. CASE t = Null
  BY <1>1, <1>2, <1>4, QuotesShow
<1>5. CASE Null \notin {s, t}
  <2>1. PrintLen(s, length) # PrintLen(t, length)
    BY <1>5, PrintLenShows
  <2> QED BY <1>1, <1>5, <2>1, QuotesShow
<1> QED BY <1>3, <1>4, <1>5

-----------------------------------------------------------------------------
(* What a failure prints.                                                  *)

\* Numbers that differ under a mask are printed differently, if the mask has
\* only bits that are printed.
LEMMA MaskShows ==
  ASSUME NEW mask \in Int, NEW x \in Int, NEW y \in Int,
         UWord(mask) < 2 ^ Bits(IntBytes), ~ EqualUnder(mask, x, y)
  PROVE  PrintMask(mask, x) # PrintMask(mask, y)
<1> DEFINE w == Bits(IntBytes)
<1>1. w \in Nat /\ Bits(WordBytes) \in Nat
  BY BitsType DEF IntBytes, WordBytes
<1>2. UWord(mask) \in Nat /\ UWord(x) \in Nat /\ UWord(y) \in Nat
  BY UWordOfWord
<1>3. PICK k \in 0..(Bits(WordBytes) - 1) :
        Bit(UWord(mask), k) = 1 /\ Bit(UWord(x), k) # Bit(UWord(y), k)
  BY DEF EqualUnder
<1>4. k \in Nat
  BY <1>1
<1>5. k < w
  <2> HIDE DEF w
  <2>1. w <= k => Bit(UWord(mask), k) = 0
    BY <1>1, <1>2, <1>4, NoBitAbove DEF w
  <2> QED BY <1>1, <1>3, <1>4, <2>1
<1>6. ASSUME NEW n \in Nat PROVE Bit(n, k) \in 0..15
  <2>1. 2 ^ k \in Nat /\ 2 ^ k > 0
    BY <1>4, PowerType
  <2> DEFINE p == 2 ^ k
  <2>2. n \div p \in Int /\ Bit(n, k) = (n \div p) % 2
    BY <2>1, BitIs
  <2> HIDE DEF p
  <2> DEFINE d == n \div p
  <2>3. d \in Int /\ d % 2 \in 0..15
    BY <2>2
  <2> QED BY <2>2, <2>3
<1>7. Digit(Bit(UWord(x), k)) # Digit(Bit(UWord(y), k))
  BY <1>2, <1>3, <1>6, DigitsDiffer
<1> HIDE DEF w
<1> DEFINE i == w - k
<1>8. i \in 1..w /\ w - i = k
  BY <1>1, <1>4, <1>5
<1>9. /\ PrintMask(mask, x)[i] = Digit(Bit(UWord(x), k))
      /\ PrintMask(mask, y)[i] = Digit(Bit(UWord(y), k))
  <2> HIDE DEF i
  <2> QED BY <1>3, <1>8 DEF PrintMask, w
<1> QED BY <1>7, <1>9

\* Numbers whose distance is not allowed have different values.
LEMMA FarDiffers ==
  ASSUME NEW type \in IntTypes, NEW delta \in Int, NEW x \in Int, NEW y \in Int,
         ~ Near(type, delta, x, y)
  PROVE  Value(type, x) # Value(type, y)
<1>1. Value(type, x) \in Int /\ Value(type, y) \in Int
  BY CastFacts
<1>2. Unsigned(delta, type.cast) \in Nat
  BY TypeFacts, UnsignedFacts
<1> QED BY <1>1, <1>2 DEF Near

\* A step that returns no difference, or a difference that shows.
LEMMA NothingToShow ==
  ASSUME result'.verdict # "fail" \/ result'.reason # "differs"
  PROVE  FailureShowsDifference'
BY DEF FailureShowsDifference

\* A step that returns a difference of two different texts.
LEMMA ReturnsShow ==
  ASSUME NEW place, NEW expected, NEW actual,
         Returns(Fail("differs", place, expected, actual)),
         MaskPrinted /\ NoBackslash /\ NoOpenEscape => expected # actual
  PROVE  FailureShowsDifference'
<1>1. /\ UNCHANGED <<call, actAt>> /\ result' = Fail("differs", place, expected, actual)
  BY DEF Returns
<1>2. result'.expected = expected /\ result'.actual = actual
  BY <1>1 DEF Fail
<1>3. MaskPrinted' = MaskPrinted
  BY <1>1 DEF MaskPrinted
<1>4. NoBackslash' = NoBackslash /\ NoOpenEscape' = NoOpenEscape
  <2>1. Expected' = Expected /\ Actual' = Actual
    BY <1>1 DEF Expected, Actual
  <2> QED BY <1>1, <2>1 DEF NoBackslash, NoOpenEscape
<1> QED BY <1>2, <1>3, <1>4 DEF FailureShowsDifference

LEMMA PassShows ==
  ASSUME Returns(Pass)
  PROVE  FailureShowsDifference'
<1>1. result'.verdict # "fail"
  BY DEF Returns, Pass
<1> QED BY <1>1, NothingToShow

\* A step after which the function goes on.
LEMMA GoingOn ==
  ASSUME UseInv, pc # "done", result' = result
  PROVE  FailureShowsDifference'
<1>1. result'.verdict # "fail"
  BY DEF UseInv
<1> QED BY <1>1, NothingToShow

\* The functions without a loop.
LEMMA NumberShows ==
  ASSUME AssertInv, AssertBits \/ AssertEqualNumber \/ AssertGreaterOrLess \/ AssertNumbersWithin
  PROVE  FailureShowsDifference'
<1>1. macro \in Macros /\ call = CallOf(macro) /\ IsUse(macro)
  BY Names DEF AssertInv, UseInv
<1>2. CASE AssertBits
  <2>1. call.fn = "Bits" /\ macro.name \in BitNames
    BY <1>1, <1>2, FunctionOf DEF AssertBits, Calls
  <2>2. call.mask \in Int /\ call.expected \in Int /\ call.actual \in Int
    <3>1. MaskOf(macro) \in Int /\ BitsOf(macro) \in Int /\ macro.actual \in Int
      BY <2>1, BitsAre, <1>1
    <3>2. /\ call.mask = Word(MaskOf(macro)) /\ call.expected = Word(BitsOf(macro))
          /\ call.actual = Word(macro.actual)
      BY <1>1, <2>1, BitsCall
    <3> QED BY <3>1, <3>2, UWordOfWord
  <2>3. CASE EqualUnder(call.mask, call.expected, call.actual)
    BY <1>2, <2>3, PassShows DEF AssertBits
  <2>4. CASE ~ EqualUnder(call.mask, call.expected, call.actual)
    <3>1. Returns(Fail("differs", <<>>, PrintMask(call.mask, call.expected),
                       PrintMask(call.mask, call.actual)))
      BY <1>2, <2>4 DEF AssertBits
    <3>2. MaskPrinted => PrintMask(call.mask, call.expected) # PrintMask(call.mask, call.actual)
      BY <2>1, <2>2, <2>4, MaskShows DEF MaskPrinted
    <3> QED BY <3>1, <3>2, ReturnsShow
  <2> QED BY <2>3, <2>4
<1>3. CASE AssertEqualNumber
  <2>1. macro.name = "EQUAL"
    BY <1>1, <1>3, FunctionOf DEF AssertEqualNumber, Calls
  <2>2. macro.type \in IntTypes /\ macro.expected \in Int /\ macro.actual \in Int
    BY <1>1, <2>1 DEF IsUse
  <2>3. /\ call.style = macro.type /\ call.expected = CastEqual(macro.type, macro.expected)
        /\ call.actual = CastEqual(macro.type, macro.actual)
    BY <1>1, <2>1, NumberCall
  <2>4. CASE call.expected = call.actual
    BY <1>3, <2>4, PassShows DEF AssertEqualNumber
  <2>5. CASE call.expected # call.actual
    <3>1. Returns(Fail("differs", <<>>, Shown(call.expected), Shown(call.actual)))
      BY <1>3, <2>5 DEF AssertEqualNumber
    <3>2. Value(macro.type, macro.expected) # Value(macro.type, macro.actual)
      BY <1>1, <2>1, <2>5, EqualVerdict
    <3>3. Shown(call.expected) # Shown(call.actual)
      BY <2>2, <2>3, <3>2, NumbersShow DEF Shown
    <3> QED BY <3>1, <3>3, ReturnsShow
  <2> QED BY <2>4, <2>5
<1>4. CASE AssertGreaterOrLess
  <2> DEFINE Right == Compares(call.style, call.compare, call.expected, call.actual)
  <2>1. CASE Right
    BY <1>4, <2>1, PassShows DEF AssertGreaterOrLess
  <2>2. CASE ~ Right
    <3>1. result' = Fail("compares", <<>>, Shown(call.actual), Shown(call.expected))
      BY <1>4, <2>2 DEF AssertGreaterOrLess, Returns
    <3>2. result'.reason # "differs"
      BY <3>1, Outcomes
    <3> QED BY <3>2, NothingToShow
  <2> QED BY <2>1, <2>2
<1>5. CASE AssertNumbersWithin
  <2> DEFINE Right == Apart(call.style, call.expected, call.actual) <= call.delta
  <2>1. macro.name = "WITHIN"
    BY <1>1, <1>5, FunctionOf DEF AssertNumbersWithin, Calls
  <2>2. /\ macro.type \in IntTypes /\ macro.expected \in Int /\ macro.actual \in Int
        /\ macro.delta \in Int
    BY <1>1, <2>1 DEF IsUse
  <2>3. /\ call.style = macro.type /\ call.expected = Cast(macro.type, macro.expected)
        /\ call.actual = Cast(macro.type, macro.actual)
    BY <1>1, <2>1, NumberCall
  <2>4. CASE Right
    BY <1>5, <2>4, PassShows DEF AssertNumbersWithin
  <2>5. CASE ~ Right
    <3>1. Returns(Fail("differs", <<>>, Shown(call.expected), Shown(call.actual)))
      BY <1>5, <2>5 DEF AssertNumbersWithin
    <3>2. ~ Near(macro.type, macro.delta, macro.expected, macro.actual)
      BY <1>1, <2>1, <2>5, WithinVerdict
    <3>3. Value(macro.type, macro.expected) # Value(macro.type, macro.actual)
      BY <2>2, <3>2, FarDiffers
    <3>4. Shown(call.expected) # Shown(call.actual)
      BY <2>2, <2>3, <3>3, NumbersShow DEF Shown
    <3> QED BY <3>1, <3>4, ReturnsShow
  <2> QED BY <2>4, <2>5
<1> QED BY <1>2, <1>3, <1>4, <1>5

LEMMA EnterShows ==
  ASSUME AssertInv, EnterArray
  PROVE  FailureShowsDifference'
<1>1. UseInv /\ pc # "done"
  BY DEF AssertInv, EnterArray, Calls
<1>2. CASE Returns(Pass)
  BY <1>2, PassShows
<1>3. CASE Returns(Refuse("pointless")) \/ Returns(Refuse("null"))
  <2>1. result' = Refuse("pointless") \/ result' = Refuse("null")
    BY <1>3 DEF Returns
  <2>2. result'.reason # "differs"
    BY <2>1, Outcomes
  <2> QED BY <2>2, NothingToShow
<1>4. CASE UNCHANGED <<macro, call, bytes, expAt, actAt, result>>
  BY <1>1, <1>4, GoingOn
<1> QED BY <1>2, <1>3, <1>4 DEF EnterArray

LEMMA ElementShows ==
  ASSUME AssertInv, CompareElement
  PROVE  FailureShowsDifference'
<1> DEFINE i == macro.num - elements
           type == macro.type
           expected == Load(call.expected, expAt, call.style)
           actual == Load(call.actual, actAt, call.style)
           a == macro.actual.elements[i + 1]
           e == IF macro.name = "EACH_EQUAL" THEN macro.expected ELSE macro.expected.elements[i + 1]
<1>1. /\ UseInv /\ macro \in Macros /\ call = CallOf(macro) /\ pc = "element" /\ pc # "done"
      /\ call.fn \in {"EqualIntArray", "ArrayWithin"} /\ elements \in Nat
  BY DEF AssertInv, UseInv, CompareElement
<1>2. CASE elements = 0 /\ Returns(Pass)
  BY <1>2, PassShows
<1>3. CASE Agree(expected, actual) /\ NextElement
  BY <1>1, <1>3, GoingOn DEF NextElement
<1>4. CASE /\ elements > 0 /\ ~ Agree(expected, actual)
           /\ Returns(Fail("differs", <<Place(elements)>>, Shown(expected), Shown(actual)))
  <2>1. macro.name \in NumbersNames
    BY <1>1, FunctionOf
  <2>2. macro.name \in Arrays /\ macro.num \in Nat
    BY <1>1, <2>1, ArrayCall
  <2>3. /\ Entered /\ i \in Nat /\ actAt = i * type.length /\ expAt = ExpectedStart(i, type.length)
    BY <1>1 DEF AssertInv, NumbersInv
  <2>4. i \in 0..(macro.num - 1)
    BY <1>1, <1>4, <2>2, <2>3
  <2>5. /\ "NULL" \notin {call.expected.address, call.actual.address}
        /\ expAt = IF call.flags = "ARRAY_TO_VAL" THEN 0 ELSE i * type.length
    BY <2>3 DEF Entered, ExpectedStart
  <2>6. /\ call.style = type /\ type \in IntTypes /\ a \in Int /\ e \in Int
        /\ expected = Cast(type, e) /\ actual = Cast(type, a)
    <3> HIDE DEF i
    <3> QED BY <1>1, <2>1, <2>3, <2>4, <2>5, LoadsAre
  <2>7. Differs(macro, i)
    <3> HIDE DEF i
    <3>1. /\ call.fn = "EqualIntArray" => (expected = actual <=> ~ Differs(macro, i))
          /\ call.fn = "ArrayWithin" =>
               (Apart(call.style, expected, actual) <= call.delta <=> ~ Differs(macro, i))
      BY <1>1, <2>1, <2>3, <2>4, <2>5, AgreeRight
    <3> QED BY <1>1, <1>4, <3>1 DEF Agree
  <2>8. Value(type, e) # Value(type, a)
    <3>1. CASE macro.name = "ARRAY_WITHIN"
      <4>1. ~ Near(type, macro.delta, e, a)
        BY <2>7, <3>1 DEF Differs
      <4>2. macro.delta \in Int
        BY <1>1, <3>1, Names DEF IsUse
      <4> HIDE DEF type, e, a
      <4> QED BY <2>6, <4>1, <4>2, FarDiffers
    <3>2. CASE macro.name # "ARRAY_WITHIN"
      BY <2>1, <2>7, <3>2 DEF Differs, NumbersNames
    <3> QED BY <3>1, <3>2
  <2> HIDE DEF type, e, a, expected, actual
  <2>9. Shown(expected) # Shown(actual)
    BY <2>6, <2>8, NumbersShow DEF Shown
  <2> QED BY <1>4, <2>9, ReturnsShow
<1> QED BY <1>2, <1>3, <1>4 DEF CompareElement

LEMMA MemoryShows ==
  ASSUME AssertInv, StartBytes \/ CompareByte
  PROVE  FailureShowsDifference'
<1>1. /\ UseInv /\ macro \in Macros /\ call = CallOf(macro) /\ pc # "done"
      /\ elements \in Nat /\ bytes \in Nat /\ expAt \in Nat /\ actAt \in Nat
  BY DEF AssertInv, UseInv, StartBytes, CompareByte
<1>2. CASE StartBytes
  <2>1. CASE Returns(Pass)
    BY <2>1, PassShows
  <2>2. CASE UNCHANGED <<macro, call, expAt, actAt, result>>
    BY <1>1, <2>2, GoingOn
  <2> QED BY <1>2, <2>1, <2>2 DEF StartBytes
<1>3. CASE CompareByte
  <2> DEFINE expected == call.expected.at[expAt + 1]
             actual == call.actual.at[actAt + 1]
             element == IF call.num > 1 THEN <<call.num - elements - 1>> ELSE <<>>
             place == element \o <<call.length - (bytes - 1) - 1>>
  <2>1. CASE UNCHANGED <<macro, call, elements, bytes, actAt, result>>
    BY <1>1, <2>1, GoingOn
  <2>2. CASE UNCHANGED <<macro, call, pc, elements, result>>
    BY <1>1, <2>2, GoingOn
  <2>3. CASE /\ bytes > 0 /\ expected # actual
             /\ Returns(Fail("differs", place, PrintByStyle(expected, HEX8),
                             PrintByStyle(actual, HEX8)))
    <3>1. pc = "byte"
      BY <1>3 DEF CompareByte
    <3>2. ReadsInBounds
      BY InvInBounds
    <3>3. actAt < Len(call.actual.at) /\ expAt < Len(call.expected.at)
      BY <2>3, <3>1, <3>2 DEF ReadsInBounds
    <3>4. macro.name = "EQUAL_MEMORY"
      <4>1. call.fn = "EqualMemory"
        BY <3>1 DEF AssertInv, BytesInv
      <4> QED BY <1>1, <4>1, FunctionOf
    <3>5. call.actual.at = macro.actual.elements /\ call.expected.at = macro.expected.elements
      <4>1. call.actual = Cells(macro.actual) /\ call.expected = Cells(macro.expected)
        BY <1>1, <3>4, MemoryCall
      <4> QED BY <4>1 DEF Cells
    <3>6. IsMemory(macro.actual) /\ IsMemory(macro.expected)
      BY <1>1, <3>4, Names DEF IsUse
    <3>7. ASSUME NEW array, IsMemory(array), NEW k \in Nat, k < Len(array.elements)
          PROVE  array.elements[k + 1] \in Int
                 /\ array.elements[k + 1] = Unsigned(array.elements[k + 1], 1)
      <4>1. array.elements \in Seq(Int)
        BY <3>7 DEF IsMemory
      <4>2. Len(array.elements) \in Nat /\ DOMAIN array.elements = 1..Len(array.elements)
        BY <4>1, LenProperties
      <4>3. k + 1 \in 1..Len(array.elements)
        BY <3>7, <4>2
      <4> QED BY <3>7, <4>1, <4>2, <4>3, ElementOfSeq DEF IsMemory
    <3>8. /\ expected \in Int /\ expected = Unsigned(expected, 1)
          /\ actual \in Int /\ actual = Unsigned(actual, 1)
      BY <1>1, <3>3, <3>5, <3>6, <3>7
    <3> HIDE DEF expected, actual, place
    <3>9. HEX8.range = "hex" /\ HEX8.length = 1 /\ 1 \in Length
      BY DEF HEX8, Type, Length
    <3>10. Unsigned(expected, HEX8.length) # Unsigned(actual, HEX8.length)
      BY <2>3, <3>8, <3>9
    <3>11. PrintByStyle(expected, HEX8) # PrintByStyle(actual, HEX8)
      BY <3>8, <3>9, <3>10, HexStyleShows
    <3> QED BY <2>3, <3>11, ReturnsShow
  <2> QED BY <1>3, <2>1, <2>2, <2>3 DEF CompareByte
<1> QED BY <1>2, <1>3

LEMMA AgreeingShow ==
  ASSUME UseInv, pc # "done", StringsAgree
  PROVE  FailureShowsDifference'
<1>1. CASE Returns(Pass)
  BY <1>1, PassShows
<1>2. CASE UNCHANGED <<macro, call, elements, bytes, expAt, result>>
  BY <1>2, GoingOn
<1> QED BY <1>1, <1>2 DEF StringsAgree

\* The strings at hand differ, within the length.
LEMMA StringsShowDifference ==
  ASSUME Comparing, StringsDiffer, Expected # Actual,
         \/ Null \in {Expected, Actual}
         \/ \E i \in Nat : /\ SamePrefix(Expected, Actual, i) /\ Expected[i + 1] # Actual[i + 1]
                           /\ InLength(i)
  PROVE  FailureShowsDifference'
<1> DEFINE s == Expected
           t == Actual
           place == IF call.fn = "EqualStringArray" /\ call.num > 1 THEN <<actAt>> ELSE <<>>
<1>1. PICK expected \in Printed(s), actual \in Printed(t) :
        Returns(Fail("differs", place, expected, actual))
  BY DEF StringsDiffer
<1>2. /\ IsString(s) /\ IsString(t) /\ call.fn \in StringFunctions
      /\ call.fn = "EqualStringLen" => call.length \in Nat
  BY StringsAtHand DEF Comparing
<1>3. NoBackslash => /\ \A k \in DOMAIN s : s[k] # Backslash
                     /\ \A k \in DOMAIN t : t[k] # Backslash
  BY <1>2 DEF NoBackslash
<1>4. s # t
  OBVIOUS
<1>5. \/ Null \in {s, t}
      \/ \E i \in Nat : SamePrefix(s, t, i) /\ s[i + 1] # t[i + 1] /\ InLength(i)
  OBVIOUS
<1>6. NoOpenEscape /\ call.fn # "EqualStringLen" => EscapesEnd(s) /\ EscapesEnd(t)
  BY <1>2 DEF NoOpenEscape, StringFunctions
<1> HIDE DEF s, t, place
<1>7. ASSUME NoBackslash, NoOpenEscape PROVE expected # actual
  <2>1. CASE call.fn = "EqualStringLen"
    <3>1. expected = PrintStringLen(s, call.length) /\ actual = PrintStringLen(t, call.length)
      BY <2>1 DEF Printed
    <3>2. \/ Null \in {s, t}
          \/ \E i \in Nat : SamePrefix(s, t, i) /\ s[i + 1] # t[i + 1] /\ i < call.length
      BY <1>5, <2>1 DEF InLength
    <3> QED BY <1>2, <1>3, <1>4, <1>7, <2>1, <3>1, <3>2, StringsLenShow
  <2>2. CASE call.fn # "EqualStringLen"
    <3>1. expected \in PrintString(s) /\ actual \in PrintString(t)
      BY <2>2 DEF Printed
    <3> QED BY <1>2, <1>3, <1>4, <1>5, <1>6, <1>7, <2>2, <3>1, StringsShow
  <2> QED BY <2>1, <2>2
<1> QED BY <1>1, <1>7, ReturnsShow

LEMMA StringShows ==
  ASSUME AssertInv, CompareStrings \/ CompareChar
  PROVE  FailureShowsDifference'
<1>1. /\ UseInv /\ call.fn \in StringFunctions /\ pc # "done" /\ bytes \in Nat
  BY DEF AssertInv, UseInv, CharsInv, CompareStrings, CompareChar, Calls, StringFunctions
<1>2. Comparing
  <2>1. call.fn = "EqualStringArray" => pc \in {"element", "char"}
    BY DEF CompareStrings, CompareChar, Calls
  <2> QED BY <1>1, <2>1 DEF Comparing, AssertInv, UseInv, StringsInv
<1>3. CASE StringsAgree
  BY <1>1, <1>3, AgreeingShow
<1>4. CASE result' = result
  BY <1>1, <1>4, GoingOn
<1>5. CASE Null \in {Expected, Actual} /\ Expected # Actual /\ StringsDiffer
  BY <1>2, <1>5, StringsShowDifference
<1>6. CASE /\ pc = "char" /\ More(bytes) /\ Expected[bytes + 1] # Actual[bytes + 1]
           /\ StringsDiffer
  <2>1. SamePrefix(Expected, Actual, bytes)
    BY <1>6 DEF AssertInv, CharsInv, SamePrefix
  <2>2. Expected # Actual /\ InLength(bytes)
    BY <1>6 DEF More
  <2> QED BY <1>1, <1>2, <1>6, <2>1, <2>2, StringsShowDifference
<1> QED BY <1>3, <1>4, <1>5, <1>6 DEF CompareStrings, CompareChar

-----------------------------------------------------------------------------
(* The theorems.                                                           *)

\* The invariant of the loops holds throughout.
THEOREM InvariantCorrect == Spec => []AssertInv
<1>1. Init => AssertInv
  BY InitInv
<1>2. AssertInv /\ [Next]_vars => AssertInv'
  <2> SUFFICES ASSUME AssertInv, [Next]_vars PROVE AssertInv'
    OBVIOUS
  <2>1. CASE AssertBits
    BY <2>1, BitsStep
  <2>2. CASE AssertEqualNumber
    BY <2>2, EqualStep
  <2>3. CASE AssertGreaterOrLess
    BY <2>3, CompareStep
  <2>4. CASE AssertNumbersWithin
    BY <2>4, WithinStep
  <2>5. CASE EnterArray
    BY <2>5, EnterStep
  <2>6. CASE CompareElement
    BY <2>6, ElementStep
  <2>7. CASE StartBytes
    BY <2>7, MemoryElementStep
  <2>8. CASE CompareByte
    BY <2>8, ByteStep
  <2>9. CASE CompareStrings
    BY <2>9, StringsStep
  <2>10. CASE CompareChar
    BY <2>10, CharStep
  <2>11. CASE UNCHANGED vars
    BY <2>11, StutterInv
  <2> QED BY <2>1, <2>2, <2>3, <2>4, <2>5, <2>6, <2>7, <2>8, <2>9, <2>10, <2>11 DEF Next
<1> QED BY <1>1, <1>2, PTL DEF Spec

\* Every variable has its type, and an index a failure prints is that of an
\* element below the number of elements, or of a byte below the length, the
\* macro was given (unity.c:819-1864).
THEOREM AssertTypeCorrect == Spec => []AssertTypeOK
<1>1. AssertInv => AssertTypeOK
  <2> SUFFICES ASSUME AssertInv PROVE AssertTypeOK
    OBVIOUS
  <2>1. result.verdict \in {"none", "pass", "fail"}
    BY DEF AssertInv, UseInv, DoneInv
  <2>2. result.verdict = "fail" => pc = "done"
    BY DEF AssertInv, UseInv
  <2> QED BY <2>1, <2>2 DEF AssertInv, UseInv, DoneInv, AssertTypeOK
<1> QED BY <1>1, InvariantCorrect, PTL

\* An assertion passes exactly when what its macro's name says is true of the
\* values it was given, whatever is cast on the way: for every number, array,
\* string and block of memory (unity_internals.h:859-1034, unity.c:693-1864).
THEOREM VerdictRightCorrect == Spec => []VerdictRight
<1>1. AssertInv => VerdictRight
  BY DEF AssertInv, DoneInv, VerdictRight
<1> QED BY <1>1, InvariantCorrect, PTL

\* A failure names the first element, and byte, that differs
\* (unity.c:880, 1573, 1743, 1803).
THEOREM FirstMismatchCorrect == Spec => []FirstMismatchReported
<1>1. AssertInv => FirstMismatchReported
  <2> SUFFICES ASSUME AssertInv PROVE FirstMismatchReported
    OBVIOUS
  <2>1. result.verdict = "fail" => pc = "done"
    BY DEF AssertInv, UseInv
  <2> QED BY <2>1 DEF AssertInv, DoneInv, FirstMismatchReported
<1> QED BY <1>1, InvariantCorrect, PTL

\* The loops that compare read nothing outside the arrays and strings of the
\* test, and UnityPrint stops at a NUL of a string it prints, as long as the
\* ANSI escapes in it have their 'm' (unity.c:111-150, 819-894, 1601-1744,
\* 1789-1820).
THEOREM ReadsInBoundsCorrect == Spec => []ReadsInBounds
<1>1. AssertInv => ReadsInBounds
  BY InvInBounds
<1> QED BY <1>1, InvariantCorrect, PTL

\* A failure that says a value differs prints two different texts: for every
\* number and byte, every mask of the bits that are printed, and every string
\* without a backslash whose ANSI escapes have their 'm' (unity.c:80-325,
\* 599-652, 864-875).
THEOREM FailureShowsCorrect == Spec => []FailureShowsDifference
<1>1. Init => FailureShowsDifference
  BY DEF Init, FailureShowsDifference
<1>2. AssertInv /\ FailureShowsDifference /\ [Next]_vars => FailureShowsDifference'
  <2> SUFFICES ASSUME AssertInv, FailureShowsDifference, [Next]_vars
               PROVE  FailureShowsDifference'
    OBVIOUS
  <2>1. CASE AssertBits \/ AssertEqualNumber \/ AssertGreaterOrLess \/ AssertNumbersWithin
    BY <2>1, NumberShows
  <2>2. CASE EnterArray
    BY <2>2, EnterShows
  <2>3. CASE CompareElement
    BY <2>3, ElementShows
  <2>4. CASE StartBytes \/ CompareByte
    BY <2>4, MemoryShows
  <2>5. CASE CompareStrings \/ CompareChar
    BY <2>5, StringShows
  <2>6. CASE UNCHANGED vars
    BY <2>6 DEF vars, FailureShowsDifference, MaskPrinted, NoBackslash, NoOpenEscape,
                Expected, Actual
  <2> QED BY <2>1, <2>2, <2>3, <2>4, <2>5, <2>6 DEF Next
<1> QED BY <1>1, <1>2, InvariantCorrect, PTL DEF Spec

=============================================================================
