----------------------------- MODULE UnityMacros -----------------------------
(***************************************************************************)
(* The assertion macros (Unity/unity.h, unity_internals.h): which function *)
(* each one calls, with which casts, display style and flags.  The macros  *)
(* of unity.h pass their arguments on with the line and a message or none; *)
(* where a message makes another difference, it is an argument here.       *)
(***************************************************************************)
EXTENDS UnityPrint

\* A type of the macros' names.  INT and UINT have the style of an int and
\* cast to nothing but UNITY_INT; a pointer is compared and shown as HEX64.
Type(range, length) == [range |-> range, length |-> length, cast |-> length]
INT == [Type("int", IntBytes) EXCEPT !.cast = WordBytes]
UINT == [Type("uint", IntBytes) EXCEPT !.cast = WordBytes]
CHAR == Type("char", 1)

IntTypes == {INT, UINT, CHAR} \cup
  {Type(range, length) : range \in {"int", "uint", "hex"}, length \in {1, 2, 4, 8}}

IsSigned(type) == type.range \in {"int", "char"}

\* (UNITY_INT)(UNITY_INT8)(n), (UNITY_INT)(UNITY_UINT8)(n), ...
Cast(type, n) ==
  IF IsSigned(type) THEN Signed(n, type.cast) ELSE Word(Unsigned(n, type.cast))

\* EQUAL_HEX casts to the signed types, the other HEX macros do not.
CastEqual(type, n) == IF type.range = "hex" THEN Signed(n, type.cast) ELSE Cast(type, n)

\* TEST_ASSERT_EQUAL_*.
EQUAL(type, expected, actual) ==
  [fn |-> "EqualNumber", style |-> type,
   expected |-> CastEqual(type, expected), actual |-> CastEqual(type, actual)]

\* A comparison is the set of its flags, as in UNITY_COMPARISON_T.
NOT_EQUAL == {}
GREATER_THAN == {"greater"}
SMALLER_THAN == {"smaller"}
GREATER_OR_EQUAL == {"greater", "equal"}
SMALLER_OR_EQUAL == {"smaller", "equal"}
Comparisons == {NOT_EQUAL, GREATER_THAN, SMALLER_THAN, GREATER_OR_EQUAL, SMALLER_OR_EQUAL}

\* TEST_ASSERT_NOT_EQUAL_*, GREATER_THAN_*, LESS_THAN_*, *_OR_EQUAL_*.
COMPARE(type, compare, threshold, actual) ==
  [fn |-> "GreaterOrLess", style |-> type, compare |-> compare,
   expected |-> Cast(type, threshold), actual |-> Cast(type, actual)]

\* TEST_ASSERT_*_WITHIN.
WITHIN(type, delta, expected, actual) ==
  [fn |-> "NumbersWithin", style |-> type, delta |-> Unsigned(delta, type.cast),
   expected |-> Cast(type, expected), actual |-> Cast(type, actual)]

\* The constants of the BITS macros: UNITY_UINT, but UNITY_UINT32 in the
\* variants with a message.
MaskBytes(message) == IF message THEN 4 ELSE WordBytes

\* TEST_ASSERT_BITS, and BITS_HIGH, BITS_LOW with expected -1 and 0.
BITS(mask, expected, actual) ==
  [fn |-> "Bits", mask |-> Word(mask), expected |-> Word(expected), actual |-> Word(actual)]
BITS_HIGH(mask, actual, message) == BITS(mask, Unsigned(-1, MaskBytes(message)), actual)
BITS_LOW(mask, actual, message) == BITS(mask, 0, actual)
BIT_HIGH(bit, actual, message) ==
  BITS_HIGH(Unsigned(2 ^ bit, MaskBytes(message)), actual, message)
BIT_LOW(bit, actual, message) ==
  BITS_LOW(Unsigned(2 ^ bit, MaskBytes(message)), actual, message)

-----------------------------------------------------------------------------
(* Arrays.  A pointer is an address and what is found there: the bytes of  *)
(* an array, from the lowest address, or the strings of an array of them.  *)

\* The bytes of a number, the lowest first.
BytesOf(n, length) ==
  [i \in 1..length |-> (Unsigned(n, length) \div 2 ^ Bits(i - 1)) % 2 ^ ByteBits]

ArrayBytes(elements, length) ==
  [i \in 1..(length * Len(elements)) |->
     BytesOf(elements[(i - 1) \div length + 1], length)[((i - 1) % length) + 1]]

\* UnityNumToPtr: the static union the expected value is put in.
NumToPtr(n, size) == [address |-> "UnityQuickCompare", at |-> BytesOf(n, size)]

\* TEST_ASSERT_EQUAL_*_ARRAY and TEST_ASSERT_EACH_EQUAL_*.
EQUAL_ARRAY(type, expected, actual, num) ==
  [fn |-> "EqualIntArray", style |-> type, flags |-> "ARRAY_TO_ARRAY",
   expected |-> expected, actual |-> actual, num |-> num]
EACH_EQUAL(type, expected, actual, num) ==
  [EQUAL_ARRAY(type, NumToPtr(CastEqual(type, expected), type.length), actual, num)
     EXCEPT !.flags = "ARRAY_TO_VAL"]

\* TEST_ASSERT_*_ARRAY_WITHIN.
ARRAY_WITHIN(type, delta, expected, actual, num) ==
  [fn |-> "ArrayWithin", style |-> type, flags |-> "ARRAY_TO_ARRAY",
   delta |-> Unsigned(delta, type.cast), expected |-> expected, actual |-> actual, num |-> num]

\* TEST_ASSERT_EQUAL_STRING and _STRING_LEN.
EQUAL_STRING(expected, actual) ==
  [fn |-> "EqualString", expected |-> expected, actual |-> actual]
EQUAL_STRING_LEN(expected, actual, length) ==
  [fn |-> "EqualStringLen", expected |-> expected, actual |-> actual, length |-> length]

StringPointer(string) ==
  [address |-> IF string = Null THEN "NULL" ELSE "string", at |-> string]

\* TEST_ASSERT_EQUAL_STRING_ARRAY and EACH_EQUAL_STRING; the latter's
\* expected pointer is the string.
EQUAL_STRING_ARRAY(expected, actual, num) ==
  [fn |-> "EqualStringArray", flags |-> "ARRAY_TO_ARRAY",
   expected |-> expected, actual |-> actual, num |-> num]
EACH_EQUAL_STRING(expected, actual, num) ==
  [EQUAL_STRING_ARRAY(expected, actual, num) EXCEPT !.flags = "ARRAY_TO_VAL"]

\* TEST_ASSERT_EQUAL_MEMORY_ARRAY, EQUAL_MEMORY (one element) and
\* EACH_EQUAL_MEMORY.
EQUAL_MEMORY(expected, actual, length, num, flags) ==
  [fn |-> "EqualMemory", flags |-> flags, length |-> length,
   expected |-> expected, actual |-> actual, num |-> num]
=============================================================================
