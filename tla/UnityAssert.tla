----------------------------- MODULE UnityAssert -----------------------------
(***************************************************************************)
(* One assertion of a test (Unity/unity.c): the macro expands to a call,   *)
(* the function compares its arguments, an array or a string one step at a *)
(* time, and returns, or prints a failure and bails out.  What bailing out *)
(* does to the test is UnityRunner's; here no assertion has failed before, *)
(* so RETURN_IF_FAIL_OR_IGNORE falls through.  Of a failure line the place *)
(* and the two values are kept.                                            *)
(***************************************************************************)
EXTENDS UnityMacros

CONSTANT Macros  \* the uses of a macro a test may make

\* A number an array of the type can hold: any bytes where the macro casts to
\* the length of the elements; INT and UINT do not cast, their elements are ints.
Fits(type, n) ==
  type.cast # type.length =>
    n = IF IsSigned(type) THEN Signed(n, type.length) ELSE Unsigned(n, type.length)

\* An array with the elements the test asks for, or NULL.
IsArray(array, num) ==
  /\ array.address \in STRING
  /\ array.address # "NULL" => num <= Len(array.elements)

IsNumbers(array, type, num) ==
  /\ IsArray(array, num)
  /\ array.elements \in Seq(Int)
  /\ \A k \in DOMAIN array.elements : Fits(type, array.elements[k])

\* Chars, which are signed, and a NUL among them; or NULL.
IsString(string) ==
  /\ string \in Seq(Int)
  /\ \A k \in DOMAIN string : string[k] = Signed(string[k], 1)
  /\ string # Null => \E k \in DOMAIN string : string[k] = 0

IsStrings(array, num) ==
  /\ IsArray(array, num)
  /\ array.elements \in Seq(Seq(Int))
  /\ \A k \in DOMAIN array.elements : IsString(array.elements[k])

\* Unsigned chars.
IsMemory(array) ==
  /\ array.elements \in Seq(Int)
  /\ \A k \in DOMAIN array.elements : array.elements[k] = Unsigned(array.elements[k], 1)

\* The uses the C types of the arguments allow.  The mask of BITS_HIGH fits the
\* 32 bits the variant with a message compares, and so does the number of a bit.
IsUse(m) ==
  /\ m.name \in {"EQUAL", "COMPARE", "WITHIN", "BITS", "BITS_HIGH", "BITS_LOW", "BIT_HIGH",
                 "BIT_LOW", "EQUAL_ARRAY", "EACH_EQUAL", "ARRAY_WITHIN", "EQUAL_STRING",
                 "EQUAL_STRING_LEN", "EQUAL_STRING_ARRAY", "EACH_EQUAL_STRING", "EQUAL_MEMORY"}
  /\ m.name \in {"EQUAL", "COMPARE", "WITHIN"} =>
       m.type \in IntTypes /\ m.expected \in Int /\ m.actual \in Int
  /\ m.name = "COMPARE" => m.compare \in Comparisons
  /\ m.name \in {"WITHIN", "ARRAY_WITHIN"} => m.delta \in Int
  /\ m.name = "BITS" => m.mask \in Int /\ m.expected \in Int /\ m.actual \in Int
  /\ m.name \in {"BITS_HIGH", "BITS_LOW"} =>
       m.mask \in Int /\ m.actual \in Int /\ m.message \in BOOLEAN
  /\ m.name = "BITS_HIGH" /\ m.message =>
       m.mask \in 0..(2 ^ Bits(MaskBytes(m.message)) - 1)
  /\ m.name \in {"BIT_HIGH", "BIT_LOW"} =>
       /\ m.message \in BOOLEAN /\ m.actual \in Int
       /\ m.bit \in 0..(Bits(MaskBytes(m.message)) - 1)
  /\ m.name \in {"EQUAL_ARRAY", "EACH_EQUAL", "ARRAY_WITHIN"} =>
       m.type \in IntTypes /\ m.num \in Nat /\ IsNumbers(m.actual, m.type, m.num)
  /\ m.name \in {"EQUAL_ARRAY", "ARRAY_WITHIN"} => IsNumbers(m.expected, m.type, m.num)
  /\ m.name = "EACH_EQUAL" => m.expected \in Int /\ Fits(m.type, m.expected)
  /\ m.name \in {"EQUAL_STRING", "EQUAL_STRING_LEN", "EACH_EQUAL_STRING"} =>
       IsString(m.expected)
  /\ m.name \in {"EQUAL_STRING", "EQUAL_STRING_LEN"} => IsString(m.actual)
  /\ m.name = "EQUAL_STRING_LEN" => m.length \in Nat
  /\ m.name \in {"EQUAL_STRING_ARRAY", "EACH_EQUAL_STRING"} =>
       m.num \in Nat /\ IsStrings(m.actual, m.num)
  /\ m.name = "EQUAL_STRING_ARRAY" => IsStrings(m.expected, m.num)
  /\ m.name = "EQUAL_MEMORY" =>
       /\ m.num \in Nat /\ m.length \in Nat
       /\ m.flags \in {"ARRAY_TO_ARRAY", "ARRAY_TO_VAL"}
       /\ IsMemory(m.expected) /\ IsMemory(m.actual)
       /\ IsArray(m.actual, m.num * m.length)
       /\ IsArray(m.expected, IF m.flags = "ARRAY_TO_VAL" THEN m.length ELSE m.num * m.length)

ASSUME MacrosAssumption == \A m \in Macros : IsUse(m)

VARIABLES
  macro,    \* the use of a macro
  call,     \* the call it expands to
  pc,       \* "call", in a loop over "element", "byte" or "char", "done"
  elements, \* elements left to compare
  bytes,    \* bytes left in the element; in a string, the index i
  expAt,    \* how far the pointer to the expected array has moved
  actAt,    \* the same for the actual array, in bytes; for strings, j
  result    \* what the assertion has come to

vars == <<macro, call, pc, elements, bytes, expAt, actAt, result>>

\* The arguments of an array macro, with the elements' bytes behind them.
Pointer(array, type) ==
  [address |-> array.address, at |-> ArrayBytes(array.elements, type.length)]
Cells(array) == [address |-> array.address, at |-> array.elements]

\* Expansion of a macro.
CallOf(m) ==
  CASE m.name = "EQUAL" -> EQUAL(m.type, m.expected, m.actual)
    [] m.name = "COMPARE" -> COMPARE(m.type, m.compare, m.expected, m.actual)
    [] m.name = "WITHIN" -> WITHIN(m.type, m.delta, m.expected, m.actual)
    [] m.name = "BITS" -> BITS(m.mask, m.expected, m.actual)
    [] m.name = "BITS_HIGH" -> BITS_HIGH(m.mask, m.actual, m.message)
    [] m.name = "BITS_LOW" -> BITS_LOW(m.mask, m.actual, m.message)
    [] m.name = "BIT_HIGH" -> BIT_HIGH(m.bit, m.actual, m.message)
    [] m.name = "BIT_LOW" -> BIT_LOW(m.bit, m.actual, m.message)
    [] m.name = "EQUAL_ARRAY" ->
         EQUAL_ARRAY(m.type, Pointer(m.expected, m.type), Pointer(m.actual, m.type), m.num)
    [] m.name = "EACH_EQUAL" ->
         EACH_EQUAL(m.type, m.expected, Pointer(m.actual, m.type), m.num)
    [] m.name = "ARRAY_WITHIN" ->
         ARRAY_WITHIN(m.type, m.delta, Pointer(m.expected, m.type),
                      Pointer(m.actual, m.type), m.num)
    [] m.name = "EQUAL_STRING" -> EQUAL_STRING(m.expected, m.actual)
    [] m.name = "EQUAL_STRING_LEN" -> EQUAL_STRING_LEN(m.expected, m.actual, m.length)
    [] m.name = "EQUAL_STRING_ARRAY" ->
         EQUAL_STRING_ARRAY(Cells(m.expected), Cells(m.actual), m.num)
    [] m.name = "EACH_EQUAL_STRING" ->
         EACH_EQUAL_STRING(StringPointer(m.expected), Cells(m.actual), m.num)
    [] m.name = "EQUAL_MEMORY" ->
         EQUAL_MEMORY(Cells(m.expected), Cells(m.actual), m.length, m.num, m.flags)

Init ==
  /\ macro \in Macros
  /\ call = CallOf(macro)
  /\ pc = "call"
  /\ elements = 0 /\ bytes = 0 /\ expAt = 0 /\ actAt = 0
  /\ result = [verdict |-> "none"]

Calls(fns) == pc = "call" /\ call.fn \in fns

\* The function returns, or fails at a place (the indices it prints) with the
\* texts it prints for the two values.
Returns(outcome) ==
  /\ result' = outcome
  /\ pc' = "done"
  /\ UNCHANGED <<macro, call, elements, bytes, expAt, actAt>>

Pass == [verdict |-> "pass"]
Fail(reason, place, expected, actual) ==
  [verdict |-> "fail", reason |-> reason, place |-> place,
   expected |-> expected, actual |-> actual]
Refuse(reason) == Fail(reason, <<>>, <<>>, <<>>)

-----------------------------------------------------------------------------
(* Numbers.                                                                *)

AssertBits ==
  /\ Calls({"Bits"})
  /\ Returns(IF EqualUnder(call.mask, call.expected, call.actual) THEN Pass
             ELSE Fail("differs", <<>>, PrintMask(call.mask, call.expected),
                       PrintMask(call.mask, call.actual)))

Shown(n) == PrintByStyle(n, call.style)

AssertEqualNumber ==
  /\ Calls({"EqualNumber"})
  /\ Returns(IF call.expected = call.actual THEN Pass
             ELSE Fail("differs", <<>>, Shown(call.expected), Shown(call.actual)))

\* UINT and HEX are compared as UNITY_UINT.
Less(style, x, y) == IF IsSigned(style) THEN x < y ELSE UWord(x) < UWord(y)

\* UnityAssertGreaterOrLessOrEqualNumber does not fail.
Compares(style, compare, threshold, actual) ==
  /\ threshold = actual => "equal" \in compare
  /\ ~ ("smaller" \in compare /\ Less(style, threshold, actual))
  /\ ~ ("greater" \in compare /\ Less(style, actual, threshold))

AssertGreaterOrLess ==
  /\ Calls({"GreaterOrLess"})
  /\ Returns(IF Compares(call.style, call.compare, call.expected, call.actual) THEN Pass
             ELSE Fail("compares", <<>>, Shown(call.actual), Shown(call.expected)))

Apart_AsSigned(style, expected, actual) ==
  UWord(IF expected < actual THEN actual - expected ELSE expected - actual)

\* The distance of two numbers, a difference of two UNITY_UINTs.
Apart(style, expected, actual) ==
  UWord(IF Less(style, expected, actual) THEN actual - expected ELSE expected - actual)

AssertNumbersWithin ==
  /\ Calls({"NumbersWithin"})
  /\ Returns(IF Apart(call.style, call.expected, call.actual) <= call.delta THEN Pass
             ELSE Fail("differs", <<>>, Shown(call.expected), Shown(call.actual)))

-----------------------------------------------------------------------------
(* Arrays.                                                                 *)

ArrayFunctions == {"EqualIntArray", "ArrayWithin", "EqualStringArray", "EqualMemory"}

\* Before the loop: nothing to compare, the same array, one that is NULL.
EnterArray ==
  /\ Calls(ArrayFunctions)
  /\ \/ /\ call.num = 0 \/ (call.fn = "EqualMemory" /\ call.length = 0)
        /\ Returns(Refuse("pointless"))
     \/ /\ call.num > 0
        /\ call.fn = "EqualMemory" => call.length > 0
        /\ \/ call.expected.address = call.actual.address /\ Returns(Pass)
           \/ /\ call.expected.address # call.actual.address
              /\ "NULL" \in {call.expected.address, call.actual.address}
              /\ Returns(Refuse("null"))
           \/ /\ call.expected.address # call.actual.address
              /\ "NULL" \notin {call.expected.address, call.actual.address}
              /\ pc' = "element"
              /\ elements' = call.num
              /\ UNCHANGED <<macro, call, bytes, expAt, actAt, result>>

\* A number of the style at an offset: sign-extended, or masked to its length.
Load(pointer, offset, style) ==
  LET sum[k \in 0..style.length] ==
        IF k = 0 THEN 0 ELSE sum[k - 1] + pointer.at[offset + k] * 2 ^ Bits(k - 1)
  IN IF IsSigned(style) THEN Signed(sum[style.length], style.length)
     ELSE Word(sum[style.length])

Agree(expected, actual) ==
  IF call.fn = "EqualIntArray" THEN expected = actual
  ELSE Apart(call.style, expected, actual) <= call.delta

NextElement_AlwaysBoth ==
  /\ elements' = elements - 1
  /\ actAt' = actAt + call.style.length
  /\ expAt' = expAt + call.style.length
  /\ UNCHANGED <<macro, call, pc, bytes, result>>

\* The pointers walk on; a single expected value stays where it is.
NextElement ==
  /\ elements' = elements - 1
  /\ actAt' = actAt + call.style.length
  /\ expAt' = IF call.flags = "ARRAY_TO_ARRAY" THEN expAt + call.style.length ELSE expAt
  /\ UNCHANGED <<macro, call, pc, bytes, result>>

\* The index printed; elements has been decremented by then.
Place_OneTooFar(left) == call.num - (left - 1)
Place_FromEnd(left) == left - 1
Place(left) == call.num - (left - 1) - 1

\* An iteration of UnityAssertEqualIntArray or UnityAssertNumbersArrayWithin.
CompareElement ==
  /\ pc = "element"
  /\ call.fn \in {"EqualIntArray", "ArrayWithin"}
  /\ \/ elements = 0 /\ Returns(Pass)
     \/ /\ elements > 0
        /\ LET expected == Load(call.expected, expAt, call.style)
               actual == Load(call.actual, actAt, call.style)
           IN \/ Agree(expected, actual) /\ NextElement
              \/ /\ ~ Agree(expected, actual)
                 /\ Returns(Fail("differs", <<Place(elements)>>, Shown(expected), Shown(actual)))

\* UnityAssertEqualMemory: an element, and a byte of it.
StartBytes ==
  /\ pc = "element"
  /\ call.fn = "EqualMemory"
  /\ \/ elements = 0 /\ Returns(Pass)
     \/ /\ elements > 0
        /\ elements' = elements - 1
        /\ bytes' = call.length
        /\ pc' = "byte"
        /\ UNCHANGED <<macro, call, expAt, actAt, result>>

HEX8 == Type("hex", 1)

CompareByte ==
  /\ pc = "byte"
  /\ \/ /\ bytes = 0
        /\ pc' = "element"
        /\ expAt' = IF call.flags = "ARRAY_TO_VAL" THEN 0 ELSE expAt
        /\ UNCHANGED <<macro, call, elements, bytes, actAt, result>>
     \/ /\ bytes > 0
        /\ LET expected == call.expected.at[expAt + 1]
               actual == call.actual.at[actAt + 1]
               element == IF call.num > 1 THEN <<call.num - elements - 1>> ELSE <<>>
           IN \/ /\ expected = actual
                 /\ bytes' = bytes - 1
                 /\ expAt' = expAt + 1
                 /\ actAt' = actAt + 1
                 /\ UNCHANGED <<macro, call, pc, elements, result>>
              \/ /\ expected # actual
                 /\ Returns(Fail("differs", element \o <<call.length - (bytes - 1) - 1>>,
                                 PrintByStyle(expected, HEX8), PrintByStyle(actual, HEX8)))

-----------------------------------------------------------------------------
(* Strings.                                                                *)

\* The strings compared: the arguments, or the j-th of an array; a single
\* expected string stays.
Expected ==
  IF call.fn = "EqualStringArray" /\ call.flags = "ARRAY_TO_ARRAY"
    THEN call.expected.at[actAt + 1]
  ELSE IF call.fn = "EqualStringArray" THEN call.expected.at
  ELSE call.expected
Actual == IF call.fn = "EqualStringArray" THEN call.actual.at[actAt + 1] ELSE call.actual

\* UnityAssertEqualStringLen looks at, and prints, that many chars at most.
InLength(i) == call.fn = "EqualStringLen" => i < call.length
Printed(string) ==
  IF call.fn = "EqualStringLen" THEN {PrintStringLen(string, call.length)} ELSE PrintString(string)

StringsDiffer ==
  \E expected \in Printed(Expected), actual \in Printed(Actual) :
    Returns(Fail("differs", IF call.fn = "EqualStringArray" /\ call.num > 1
                            THEN <<actAt>> ELSE <<>>,
                 expected, actual))

StringsAgree_Stays ==
  \/ /\ call.fn = "EqualStringArray"
     /\ actAt + 1 < call.num
     /\ pc' = "element"
     /\ UNCHANGED <<macro, call, elements, bytes, expAt, actAt, result>>
  \/ /\ call.fn = "EqualStringArray" => actAt + 1 = call.num
     /\ Returns(Pass)

\* The end of a string: the next one of the array, or the end.
StringsAgree ==
  \/ /\ call.fn = "EqualStringArray"
     /\ actAt + 1 < call.num
     /\ pc' = "element"
     /\ actAt' = actAt + 1
     /\ UNCHANGED <<macro, call, elements, bytes, expAt, result>>
  \/ /\ call.fn = "EqualStringArray" => actAt + 1 = call.num
     /\ Returns(Pass)

\* The NULL checks of a pair of strings.
CompareStrings ==
  /\ \/ Calls({"EqualString", "EqualStringLen"})
     \/ pc = "element" /\ call.fn = "EqualStringArray"
  /\ \/ /\ Null \notin {Expected, Actual}
        /\ pc' = "char"
        /\ bytes' = 0
        /\ UNCHANGED <<macro, call, elements, expAt, actAt, result>>
     \/ Expected = Null /\ Actual = Null /\ StringsAgree
     \/ Null \in {Expected, Actual} /\ Expected # Actual /\ StringsDiffer

\* The condition of the loop over i: one of the strings goes on.
More(i) == InLength(i) /\ (Expected[i + 1] # 0 \/ Actual[i + 1] # 0)

CompareChar ==
  /\ pc = "char"
  /\ \/ ~ More(bytes) /\ StringsAgree
     \/ /\ More(bytes)
        /\ Expected[bytes + 1] = Actual[bytes + 1]
        /\ bytes' = bytes + 1
        /\ UNCHANGED <<macro, call, pc, elements, expAt, actAt, result>>
     \/ /\ More(bytes)
        /\ Expected[bytes + 1] # Actual[bytes + 1]
        /\ StringsDiffer

Next ==
  \/ AssertBits \/ AssertEqualNumber \/ AssertGreaterOrLess \/ AssertNumbersWithin
  \/ EnterArray \/ CompareElement
  \/ StartBytes \/ CompareByte
  \/ CompareStrings \/ CompareChar

\* The assertion runs in one thread until it returns.
Spec == Init /\ [][Next]_vars /\ WF_vars(Next)

-----------------------------------------------------------------------------
(* What a macro promises, from its arguments alone.                        *)

\* A number as the type the macro names.
Value(type, n) == IF IsSigned(type) THEN Signed(n, type.cast) ELSE Unsigned(n, type.cast)

Near(type, delta, x, y) ==
  LET d == Value(type, x) - Value(type, y)
  IN (IF d < 0 THEN -d ELSE d) <= Unsigned(delta, type.cast)

Ordered(compare, x, y) ==
  \/ "greater" \in compare /\ x > y
  \/ "smaller" \in compare /\ x < y
  \/ "equal" \in compare /\ x = y
  \/ compare = NOT_EQUAL /\ x # y

FirstChars(text, n) == SubSeq(text, 1, IF n < Len(text) THEN n ELSE Len(text))

\* The chars of a string, none of which is 0; NULL is no string's.
Text(string) ==
  IF string = Null THEN <<0>>
  ELSE SubSeq(string, 1, (CHOOSE k \in 1..Len(string) :
         string[k] = 0 /\ \A j \in 1..(k - 1) : string[j] # 0) - 1)

Arrays == {"EQUAL_ARRAY", "EACH_EQUAL", "ARRAY_WITHIN", "EQUAL_STRING_ARRAY",
           "EACH_EQUAL_STRING", "EQUAL_MEMORY"}

\* The byte of an element of memory, and what it is compared with.
ByteDiffers(m, i, b) ==
  m.actual.elements[i * m.length + b + 1] #
    m.expected.elements[(IF m.flags = "ARRAY_TO_VAL" THEN 0 ELSE i * m.length) + b + 1]

\* Element i, from 0, is not what the macro asks for.
Differs(m, i) ==
  CASE m.name = "EQUAL_ARRAY" ->
         Value(m.type, m.expected.elements[i + 1]) # Value(m.type, m.actual.elements[i + 1])
    [] m.name = "EACH_EQUAL" ->
         Value(m.type, m.expected) # Value(m.type, m.actual.elements[i + 1])
    [] m.name = "ARRAY_WITHIN" ->
         ~ Near(m.type, m.delta, m.expected.elements[i + 1], m.actual.elements[i + 1])
    [] m.name = "EQUAL_STRING_ARRAY" ->
         Text(m.expected.elements[i + 1]) # Text(m.actual.elements[i + 1])
    [] m.name = "EACH_EQUAL_STRING" ->
         Text(m.expected) # Text(m.actual.elements[i + 1])
    [] m.name = "EQUAL_MEMORY" -> \E b \in 0..(m.length - 1) : ByteDiffers(m, i, b)

\* The array is there, has elements, and each is what was asked for.
ArrayHolds(m) ==
  /\ m.num > 0
  /\ m.name = "EQUAL_MEMORY" => m.length > 0
  /\ \/ call.expected.address = call.actual.address
     \/ /\ "NULL" \notin {call.expected.address, call.actual.address}
        /\ \A i \in 0..(m.num - 1) : ~ Differs(m, i)

BitsHold(mask, high, actual) ==
  \A k \in 0..(Bits(WordBytes) - 1) : Bit(UWord(mask), k) = 1 => Bit(UWord(actual), k) = high

Holds(m) ==
  CASE m.name = "EQUAL" -> Value(m.type, m.expected) = Value(m.type, m.actual)
    [] m.name = "COMPARE" ->
         Ordered(m.compare, Value(m.type, m.actual), Value(m.type, m.expected))
    [] m.name = "WITHIN" -> Near(m.type, m.delta, m.expected, m.actual)
    [] m.name = "BITS" -> EqualUnder(m.mask, m.expected, m.actual)
    [] m.name = "BITS_HIGH" -> BitsHold(m.mask, 1, m.actual)
    [] m.name = "BITS_LOW" -> BitsHold(m.mask, 0, m.actual)
    [] m.name = "BIT_HIGH" -> Bit(UWord(m.actual), m.bit) = 1
    [] m.name = "BIT_LOW" -> Bit(UWord(m.actual), m.bit) = 0
    [] m.name = "EQUAL_STRING" -> Text(m.expected) = Text(m.actual)
    [] m.name = "EQUAL_STRING_LEN" ->
         \/ m.expected = m.actual
         \/ /\ Null \notin {m.expected, m.actual}
            /\ FirstChars(Text(m.expected), m.length) = FirstChars(Text(m.actual), m.length)
    [] m.name \in Arrays -> ArrayHolds(m)

\* The place of the first difference, as it is printed: an array of one
\* string or of one block of memory has no element number.
FirstPlace(m) ==
  LET i == CHOOSE k \in 0..(m.num - 1) : Differs(m, k) /\ \A j \in 0..(k - 1) : ~ Differs(m, j)
      byte == CHOOSE b \in 0..(m.length - 1) :
                ByteDiffers(m, i, b) /\ \A j \in 0..(b - 1) : ~ ByteDiffers(m, i, j)
  IN CASE m.name = "EQUAL_MEMORY" /\ m.num > 1 -> <<i, byte>>
       [] m.name = "EQUAL_MEMORY" /\ m.num = 1 -> <<byte>>
       [] m.name \in {"EQUAL_STRING_ARRAY", "EACH_EQUAL_STRING"} /\ m.num = 1 -> <<>>
       [] OTHER -> <<i>>

-----------------------------------------------------------------------------
(* Properties.                                                             *)

\* The indices a macro's failure may print: of an element, of a byte, or none.
PlaceExists(m, place) ==
  \/ place = <<>>
  \/ /\ m.name \in Arrays \ {"EQUAL_MEMORY"}
     /\ place \in {<<i>> : i \in 0..(m.num - 1)}
  \/ /\ m.name = "EQUAL_MEMORY" /\ m.num = 1
     /\ place \in {<<b>> : b \in 0..(m.length - 1)}
  \/ /\ m.name = "EQUAL_MEMORY" /\ m.num > 1
     /\ place \in {<<i, b>> : i \in 0..(m.num - 1), b \in 0..(m.length - 1)}

\* Every variable has its type, and an index a failure prints is that of an
\* element, or of a byte, the macro was given.
AssertTypeOK ==
  /\ pc \in {"call", "element", "byte", "char", "done"}
  /\ {elements, bytes, expAt, actAt} \subseteq Nat
  /\ result.verdict \in {"none", "pass", "fail"}
  /\ result.verdict = "fail" => PlaceExists(macro, result.place)

\* An assertion passes exactly when the numbers, arrays, strings or bytes it
\* was given stand in the relation its name says, in the type its name says:
\* whatever is sign-extended, cast or compared as another type on the way
\* (unity_internals.h:859-1034, unity.c:693-1864).
VerdictRight == pc = "done" => (result.verdict = "pass" <=> Holds(macro))

\* The element, and the byte, a failure names are the first that differ
\* (unity.c:880, 1573, 1743, 1803).
FirstMismatchReported ==
  result.verdict = "fail" /\ result.reason = "differs" /\ macro.name \in Arrays =>
    result.place = FirstPlace(macro)

StringFunctions == {"EqualString", "EqualStringLen", "EqualStringArray"}

\* Every ESC '[' a string has before its NUL has an 'm' after it, before the NUL.
EscapesEnd(string) ==
  \A j \in DOMAIN string :
    /\ j + 1 \in DOMAIN string /\ string[j] = ESC /\ string[j + 1] = LBracket
    /\ \A i \in 1..j : string[i] # 0
    => \E k \in DOMAIN string : k > j /\ string[k] = LetterM /\ \A i \in 1..k : string[i] # 0

\* UnityPrint prints the strings, UnityPrintLen would know no escapes.
NoOpenEscape ==
  call.fn \in {"EqualString", "EqualStringArray"} => EscapesEnd(Expected) /\ EscapesEnd(Actual)

\* Nothing is read outside the arrays and strings the test passed, neither by
\* the loops that compare nor by UnityPrint when it prints two strings that
\* differ, which stops at a NUL of theirs; the last as long as each escape in
\* them has its 'm': UnityPrintAnsiEscapeString counts the 'm' it puts out for
\* a missing one, and UnityPrint steps past the NUL
\* (unity.c:111-150, 819-894, 1601-1744, 1789-1820).
ReadsInBounds ==
  /\ pc = "element" /\ elements > 0 /\ call.fn \in {"EqualIntArray", "ArrayWithin"} =>
       /\ actAt + call.style.length <= Len(call.actual.at)
       /\ expAt + call.style.length <= Len(call.expected.at)
  /\ pc = "byte" /\ bytes > 0 =>
       actAt < Len(call.actual.at) /\ expAt < Len(call.expected.at)
  /\ pc = "element" /\ call.fn = "EqualStringArray" => actAt < Len(call.actual.at)
  /\ pc = "char" /\ InLength(bytes) => bytes < Len(Expected) /\ bytes < Len(Actual)
  /\ /\ result.verdict = "fail" /\ result.reason = "differs"
     /\ call.fn \in {"EqualString", "EqualStringArray"} /\ NoOpenEscape
     => \A s \in {Expected, Actual} \ {Null} : PrintEnd(s) \in DOMAIN s

MaskPrinted == call.fn = "Bits" => UWord(call.mask) < 2 ^ Bits(IntBytes)

NoBackslash ==
  call.fn \in StringFunctions => \A s \in {Expected, Actual} : \A k \in DOMAIN s : s[k] # Backslash

\* A failure that says "Expected x Was y" prints two different texts, as long
\* as a mask fits the bits UnityPrintMask prints, no string holds a backslash,
\* which is printed as it is, and each escape in one has its 'm': without it
\* UnityPrint prints the missing 'm' and goes on past the NUL
\* (unity.c:80-325, 599-652, 864-875).
FailureShowsDifference ==
  /\ result.verdict = "fail" /\ result.reason = "differs"
  /\ MaskPrinted /\ NoBackslash /\ NoOpenEscape
  => result.expected # result.actual

\* Every loop over elements, bytes and chars ends.
Terminates == <>(pc = "done")
=============================================================================
