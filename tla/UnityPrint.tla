----------------------------- MODULE UnityPrint -----------------------------
(***************************************************************************)
(* The numbers of Unity (Unity/unity.c, unity_internals.h) and how it      *)
(* prints them.  A number is a UNITY_INT of WordBytes bytes of ByteBits    *)
(* bits each; the program has bytes of 8 bits, a check may use shorter     *)
(* ones: everything below is stated in bytes.  A text is the sequence of   *)
(* the chars put out.                                                      *)
(***************************************************************************)
EXTENDS Integers, Sequences, SequencesExt

CONSTANTS
  ByteBits,   \* bits of a char (8), an even number
  Printable,  \* the chars printed as they are (32..126)
  CR,         \* 13
  LF,         \* 10
  ESC,        \* 27
  LBracket,   \* 91
  LetterM,    \* 109
  Beyond      \* the texts the memory past a string's array may be printed as

Minus == 45
Quote == 39
Backslash == 92

ASSUME PrintAssumption ==
  /\ ByteBits \in {2 * n : n \in 1..4}
  /\ Printable \subseteq Int
  /\ {CR, LF} \cap (Printable \cup {0}) = {}
  /\ CR # LF
  /\ {ESC, LBracket, LetterM} \subseteq Int
  /\ ESC \notin Printable \cup {0, CR, LF, Backslash}
  /\ {LBracket, LetterM} \cap {0, ESC} = {}
  /\ LBracket # LetterM
  /\ Beyond # {} /\ \A text \in Beyond : text \in Seq(Int)

WordBytes == 8  \* UNITY_INT is a long (UNITY_SUPPORT_64)
IntBytes == 4   \* UNITY_INT_WIDTH / 8

Bits(length) == length * ByteBits

\* Conversions to the unsigned and the signed type of a number of bytes.
Unsigned(n, length) == n % 2 ^ Bits(length)

Signed(n, length) ==
  LET u == Unsigned(n, length) IN
  IF u < 2 ^ (Bits(length) - 1) THEN u ELSE u - 2 ^ Bits(length)

Word(n) == Signed(n, WordBytes)
UWord(n) == Unsigned(n, WordBytes)

Bit(n, k) == (n \div 2 ^ k) % 2

\* `(mask & a) == (mask & b)`.
EqualUnder(mask, a, b) ==
  \A k \in 0..(Bits(WordBytes) - 1) :
    Bit(UWord(mask), k) = 1 => Bit(UWord(a), k) = Bit(UWord(b), k)

-----------------------------------------------------------------------------
(* Printing.                                                               *)

\* '0' + d, or 'A' - 10 + d.
Digit(d) == IF d <= 9 THEN 48 + d ELSE 55 + d

\* The divisor of UnityPrintNumberUnsigned after k turns of its first loop.
Divisor[k \in 0..19] == IF k = 0 THEN 1 ELSE Divisor[k - 1] * 10

\* UnityPrintNumberUnsigned: the first divisor that leaves one digit, then
\* a digit per power of ten.
Digits(n) ==
  LET last == CHOOSE k \in 0..19 :
                /\ n \div Divisor[k] <= 9
                /\ \A j \in 0..(k - 1) : n \div Divisor[j] > 9
  IN [i \in 1..(last + 1) |-> Digit((n \div Divisor[last + 1 - i]) % 10)]

\* UnityPrintNumber; the magnitude is (~number) + 1 as a UNITY_UINT.
PrintNumber(n) == IF n < 0 THEN <<Minus>> \o Digits(UWord(-n)) ELSE Digits(n)

NibbleBits == ByteBits \div 2

\* UnityPrintNumberHex: the low nibbles of a UNITY_UINT, no more than it has.
PrintHex(n, nibbles) ==
  LET count == IF nibbles > 2 * WordBytes THEN 2 * WordBytes ELSE nibbles
  IN [i \in 1..count |-> Digit((n \div 2 ^ (NibbleBits * (count - i))) % 2 ^ NibbleBits)]

\* UnityPrintMask: the low UNITY_INT_WIDTH bits, those outside the mask as X.
PrintMask(mask, n) ==
  [i \in 1..Bits(IntBytes) |->
     LET k == Bits(IntBytes) - i IN
     IF Bit(UWord(mask), k) = 1 THEN Digit(Bit(UWord(n), k)) ELSE 88]  \* X

\* UnityPrintChar.
PrintChar(c) ==
  CASE c \in Printable -> <<c>>
    [] c = CR -> <<Backslash, 114>>  \* \r
    [] c = LF -> <<Backslash, 110>>  \* \n
    [] OTHER -> <<Backslash, 120>> \o PrintHex(UWord(c), 2)  \* \x and two nibbles

\* A string is the sequence of its chars with the 0 that ends it, and NULL is
\* the empty sequence.
Null == <<>>

\* Char k is in an ANSI escape: behind an ESC and a '[', with no 'm' and no NUL
\* since.  The escape's last char is the 'm', or a NUL in its place.
InEscape_OneTooMany(string, k) ==
  \E j \in 1..k :
    /\ j < Len(string) /\ string[j] = ESC /\ string[j + 1] = LBracket
    /\ \A i \in j..(k - 2) : string[i] \notin {0, LetterM}

InEscape(string, k) ==
  \E j \in 1..k :
    /\ j < Len(string) /\ string[j] = ESC /\ string[j + 1] = LBracket
    /\ \A i \in j..(k - 1) : string[i] \notin {0, LetterM}

PrintAt_DropsEscapes(string, k) ==
  IF InEscape(string, k) THEN <<>> ELSE PrintChar(string[k])

\* What UnityPrint puts out for char k: UnityPrintAnsiEscapeString the chars
\* as they are and an 'm' at the end, UnityPrintChar the others.
PrintAt(string, k) ==
  IF ~ InEscape(string, k) THEN PrintChar(string[k])
  ELSE IF string[k] = 0 THEN <<LetterM>>
  ELSE <<string[k]>>

\* The NUL UnityPrint stops at: one in the place of an 'm' is stepped over, and
\* where the array has no other the place is past it.
PrintEnd(string) ==
  CHOOSE e \in 1..(Len(string) + 1) :
    /\ e \in DOMAIN string => string[e] = 0 /\ ~ InEscape(string, e)
    /\ \A k \in 1..(e - 1) : string[k] = 0 => InEscape(string, k)

\* The texts UnityPrint may put out: one, unless it runs out of the array.
PrintAll(string) ==
  LET text == FlattenSeq([k \in 1..(PrintEnd(string) - 1) |-> PrintAt(string, k)]) IN
  IF PrintEnd(string) \in DOMAIN string THEN {text} ELSE {text \o more : more \in Beyond}

\* UnityPrintLen, which knows no escapes.
PrintLen(string, length) ==
  LET end == CHOOSE k \in 1..Len(string) :
               string[k] = 0 /\ \A j \in 1..(k - 1) : string[j] # 0
      count == IF end - 1 < length THEN end - 1 ELSE length
  IN FlattenSeq([i \in 1..count |-> PrintChar(string[i])])

\* One half of UnityPrintExpectedAndActualStrings, and of ...StringsLen.
Quoted(text) == <<Quote>> \o text \o <<Quote>>
NULL == <<78, 85, 76, 76>>

PrintString(string) ==
  IF string = Null THEN {NULL} ELSE {Quoted(text) : text \in PrintAll(string)}

PrintStringLen(string, length) ==
  IF string = Null THEN NULL ELSE Quoted(PrintLen(string, length))

PrintByStyle_OneNibble(n, style) ==
  CASE style.range = "char" -> <<Quote>> \o PrintChar(n) \o <<Quote>>
    [] style.range = "int"  -> PrintNumber(n)
    [] style.range = "uint" -> Digits(UWord(n))
    [] style.range = "hex"  -> <<48, 120>> \o PrintHex(UWord(n), style.length)

\* A display style is a range with a number of bytes, as in the enum.
PrintByStyle(n, style) ==
  CASE style.range = "char" -> <<Quote>> \o PrintChar(n) \o <<Quote>>
    [] style.range = "int"  -> PrintNumber(n)
    [] style.range = "uint" -> Digits(UWord(n))
    [] style.range = "hex"  -> <<48, 120>> \o PrintHex(UWord(n), 2 * style.length)
=============================================================================
