--------------------------- MODULE MCUnityAssert ---------------------------
(* The uses of the macros TLC checks: every type with the numbers at the   *)
(* ends of the types' ranges, arrays of up to two elements, strings of up  *)
(* to two chars, or four.  A byte has two bits: 1, 2, 4 and 8 bytes are    *)
(* numbers of 2, 4, 8 and 16 bits, and the chars are -2..1: an 'm', an     *)
(* ESC, the NUL and a '['.                                                 *)
EXTENDS UnityAssert

MCESC == -1
MCLetterM == -2
MCPrintable == {-2, 1}
MCBeyond == {<<>>, <<88>>}

Numbers == {-32768, -129, -128, -8, -3, -2, -1, 0, 1, 2, 7, 8, 127, 128, 255, 256, 32767}
Deltas == {0, 1, 3, 255, 32767}

NumberMacros ==
  [name : {"EQUAL"}, type : IntTypes, expected : Numbers, actual : Numbers]
  \cup [name : {"COMPARE"}, type : IntTypes, compare : Comparisons,
        expected : Numbers, actual : Numbers]
  \cup [name : {"WITHIN"}, type : IntTypes, delta : Deltas,
        expected : Numbers, actual : Numbers]

\* With a message the masks of BITS_HIGH stay within 32 bits.
BitMacros ==
  [name : {"BITS"}, mask : Numbers, expected : Numbers, actual : Numbers]
  \cup [name : {"BITS_HIGH", "BITS_LOW"}, mask : Numbers, actual : Numbers, message : {FALSE}]
  \cup [name : {"BIT_HIGH", "BIT_LOW"}, bit : 0..15, actual : Numbers, message : {FALSE}]
  \cup [name : {"BITS_HIGH"}, mask : Numbers \cap 0..255, actual : Numbers, message : {TRUE}]
  \cup [name : {"BITS_LOW"}, mask : Numbers, actual : Numbers, message : {TRUE}]
  \cup [name : {"BIT_HIGH", "BIT_LOW"}, bit : 0..7, actual : Numbers, message : {TRUE}]

\* The ends of the ranges of a type of a length, signed and unsigned.
Ends(length) == {0, 1, 2 ^ (Bits(length) - 1), 2 ^ Bits(length) - 1}

Array(address, cells) == [address |-> address, elements |-> cells]
NullArray == Array("NULL", <<>>)

\* An array of ints is of ints.
EndsOf(type) ==
  IF type = INT THEN {Signed(n, type.length) : n \in Ends(type.length)} ELSE Ends(type.length)

ArraysOf(address, type, num) ==
  {Array(address, cells) : cells \in [1..num -> EndsOf(type)]}

ArrayMacros ==
  UNION {
    [name : {"EQUAL_ARRAY"}, type : {type}, num : {num},
     expected : ArraysOf("A", type, num), actual : ArraysOf("B", type, num)]
    \cup [name : {"EACH_EQUAL"}, type : {type}, num : {num},
          expected : EndsOf(type), actual : ArraysOf("B", type, num)]
    \cup [name : {"ARRAY_WITHIN"}, type : {type}, num : {num}, delta : {0, 1, 3},
          expected : ArraysOf("A", type, num), actual : ArraysOf("B", type, num)]
    : type \in IntTypes, num \in 0..2}

\* The same array twice, and one or both NULL.
OddMacros ==
  [name : {"EQUAL_ARRAY"}, type : {CHAR}, num : {0, 1},
   expected : {NullArray, Array("A", <<1>>)}, actual : {NullArray, Array("A", <<1>>)}]
  \cup [name : {"EACH_EQUAL"}, type : {CHAR}, num : {0, 1}, expected : {1}, actual : {NullArray}]
  \cup [name : {"EQUAL_STRING_ARRAY"}, num : {0, 1},
        expected : {NullArray, Array("A", <<Null>>)}, actual : {NullArray, Array("A", <<Null>>)}]
  \cup [name : {"EACH_EQUAL_STRING"}, num : {1}, expected : {Null, <<0>>}, actual : {NullArray}]
  \cup [name : {"EQUAL_MEMORY"}, num : {1}, length : {1}, flags : {"ARRAY_TO_ARRAY"},
        expected : {NullArray, Array("A", <<1>>)}, actual : {NullArray, Array("A", <<1>>)}]

Chars == {-2, -1, 1}
ShortStrings == {Null, <<0>>} \cup {<<c, 0>> : c \in Chars}
MCStrings == ShortStrings \cup {<<c, d, 0>> : c, d \in Chars}

StringMacros ==
  [name : {"EQUAL_STRING"}, expected : MCStrings, actual : MCStrings]
  \cup [name : {"EQUAL_STRING_LEN"}, length : 0..3, expected : MCStrings, actual : MCStrings]
  \cup UNION {
    [name : {"EQUAL_STRING_ARRAY"}, num : {num},
     expected : {Array("A", s) : s \in [1..num -> ShortStrings]},
     actual : {Array("B", s) : s \in [1..num -> ShortStrings]}]
    \cup [name : {"EACH_EQUAL_STRING"}, num : {num}, expected : MCStrings,
          actual : {Array("B", s) : s \in [1..num -> ShortStrings]}]
    : num \in 0..2}

MemoryMacros ==
  UNION {
    [name : {"EQUAL_MEMORY"}, num : {num}, length : {length}, flags : {"ARRAY_TO_ARRAY"},
     expected : {Array("A", b) : b \in [1..(num * length) -> {0, 1, 3}]},
     actual : {Array("B", b) : b \in [1..(num * length) -> {0, 3}]}]
    \cup [name : {"EQUAL_MEMORY"}, num : {num}, length : {length}, flags : {"ARRAY_TO_VAL"},
          expected : {Array("A", b) : b \in [1..length -> {0, 1, 3}]},
          actual : {Array("B", b) : b \in [1..(num * length) -> {0, 3}]}]
    : num \in 0..2, length \in 0..2}

\* Strings of up to four chars that are an ESC, a '[' or an 'm', and some with
\* more behind their NUL.
EscapeStrings(length) == UNION {{Append(s, 0) : s \in [1..n -> {-2, -1, 1}]} : n \in 0..length}
TwoNULs == {s \o t : s, t \in EscapeStrings(2) \ {<<0>>}}

EscapeMacros ==
  [name : {"EQUAL_STRING"}, expected : EscapeStrings(4), actual : EscapeStrings(4)]
  \cup [name : {"EQUAL_STRING"}, expected : TwoNULs, actual : EscapeStrings(2) \cup {Null}]
  \cup [name : {"EQUAL_STRING_LEN"}, length : 0..3,
        expected : EscapeStrings(3), actual : EscapeStrings(3)]
  \cup [name : {"EACH_EQUAL_STRING"}, num : {2}, expected : EscapeStrings(3),
        actual : {Array("B", <<s, t>>) : s \in EscapeStrings(1), t \in EscapeStrings(3)}]

MCMacros ==
  NumberMacros \cup BitMacros \cup ArrayMacros \cup OddMacros \cup StringMacros
    \cup MemoryMacros \cup EscapeMacros
=============================================================================
