-------------------------- MODULE UnityRunnerProofs --------------------------
(***************************************************************************)
(* Proofs about UnityRunner, for every number of tests and statements:     *)
(* wherever a test is left by a jump, it is counted once and as its first  *)
(* failing or ignoring statement says, prints one result line, and the     *)
(* exit status follows.                                                    *)
(***************************************************************************)
EXTENDS UnityRunner, PositionProofs, FiniteSetTheorems

-----------------------------------------------------------------------------
(* The invariant.                                                          *)

\* A test is under way.
Testing == pc \notin {"main", "ended"}

\* The flags are the running test's verdict, and no test's between tests.
FlagsTell ==
  /\ Testing => /\ Unity.CurrentTestFailed = 1 <=> verdict = "fail"
                /\ Unity.CurrentTestIgnored = 1 <=> verdict = "ignore"
  /\ ~ Testing => ~ FailedOrIgnored

\* The counters are those of the tests that have ended.
CountersTell ==
  /\ Unity.NumberOfTests = Len(verdicts) + IF Testing THEN 1 ELSE 0
  /\ Unity.TestFailures = Count("fail")
  /\ Unity.TestIgnores = Count("ignore")

\* The result lines of an output, and whether one of them says this of test t.
ResultsIn(out) == {j \in 1..Len(out) : out[j].kind # "info"}

HasResult(out, t, kind) ==
  \E j \in ResultsIn(out) : out[j].test = t /\ out[j].kind = kind

Ascending(out) ==
  \A i, j \in ResultsIn(out) : i < j => out[i].test < out[j].test

\* Each ended test has its result line; the running one has it as soon as it
\* failed or was ignored.
LinesTell ==
  /\ \A j \in ResultsIn(output) : output[j].test <= Unity.NumberOfTests
  /\ Ascending(output)
  /\ \A t \in 1..Len(verdicts) : HasResult(output, t, verdicts[t])
  /\ Testing /\ verdict = "pass" =>
       \A j \in ResultsIn(output) : output[j].test < Unity.NumberOfTests
  /\ Testing /\ verdict # "pass" =>
       HasResult(output, Unity.NumberOfTests, verdict)

\* Details are the running test's.
DetailsTell ==
  /\ Testing => detail \in {0, Unity.NumberOfTests}
  /\ \A j \in 1..Len(output) : output[j].detail \in {0, output[j].test}

StatusTells == pc = "ended" => status = Unity.TestFailures % StatusRange

RunnerInv ==
  /\ RunnerTypeOK
  /\ FlagsTell
  /\ CountersTell
  /\ LinesTell
  /\ DetailsTell
  /\ StatusTells

-----------------------------------------------------------------------------
(* Counting.                                                               *)

LEMMA PositionsFinite ==
  ASSUME NEW n \in Nat, NEW S \in SUBSET (1..n)
  PROVE  IsFiniteSet(S) /\ Cardinality(S) \in 0..n
<1>1. n \in Int /\ 1 \in Int
  OBVIOUS
<1>2. IsFiniteSet(1..n) /\ Cardinality(1..n) = IF 1 > n THEN 0 ELSE n - 1 + 1
  BY <1>1, FS_Interval
<1>3. Cardinality(1..n) = n
  BY <1>2
<1>4. IsFiniteSet(S) /\ Cardinality(S) <= n /\ Cardinality(S) \in Nat
  BY <1>2, <1>3, FS_Subset, FS_CardinalityType
<1> QED BY <1>4

\* One more verdict adds one to its own count.
LEMMA CountOneMore ==
  ASSUME verdicts \in Seq(Verdict), NEW v \in Verdict,
         verdicts' = Append(verdicts, v), NEW kind
  PROVE  /\ Count(kind) \in 0..Len(verdicts)
         /\ Count(kind)' = Count(kind) + IF v = kind THEN 1 ELSE 0
<1> DEFINE n == Len(verdicts)
           S == {i \in 1..n : verdicts[i] = kind}
<1>1. n \in Nat
  BY LenProperties
<1>2. /\ Len(verdicts') = n + 1
      /\ \A i \in 1..n : verdicts'[i] = verdicts[i]
      /\ verdicts'[n + 1] = v
  BY <1>1, AppendProperties
<1>3. IsFiniteSet(S) /\ Cardinality(S) \in 0..n
  <2>1. S \in SUBSET (1..n)
    OBVIOUS
  <2> HIDE DEF S, n
  <2> QED BY <1>1, <2>1, PositionsFinite
<1>4. {i \in 1..(n + 1) : verdicts'[i] = kind}
        = S \cup IF v = kind THEN {n + 1} ELSE {}
  <2>1. 1..(n + 1) = (1..n) \cup {n + 1}
    BY <1>1
  <2> QED BY <1>2, <2>1
<1>5. n + 1 \notin S
  BY <1>1
<1>6. Count(kind) = Cardinality(S)
  BY DEF Count
<1>7. Count(kind)' = Cardinality(S \cup IF v = kind THEN {n + 1} ELSE {})
  BY <1>2, <1>4 DEF Count
<1> HIDE DEF S
<1>8. CASE v = kind
  BY <1>3, <1>5, <1>6, <1>7, <1>8, FS_AddElement
<1>9. CASE v # kind
  <2>1. S \cup {} = S
    OBVIOUS
  <2> QED BY <1>3, <1>6, <1>7, <1>9, <2>1
<1> QED BY <1>8, <1>9

LEMMA CountSame ==
  ASSUME verdicts' = verdicts, NEW kind
  PROVE  Count(kind)' = Count(kind)
BY DEF Count

\* A count is no more than the tests there were, and 0 only if none was so.
LEMMA CountBounds ==
  ASSUME verdicts \in Seq(Verdict), NEW kind
  PROVE  /\ Count(kind) \in 0..Len(verdicts)
         /\ Count(kind) = 0 <=> \A i \in 1..Len(verdicts) : verdicts[i] # kind
<1> DEFINE n == Len(verdicts)
           S == {i \in 1..n : verdicts[i] = kind}
<1>1. n \in Nat
  BY LenProperties
<1>2. IsFiniteSet(S) /\ Cardinality(S) \in 0..n
  <2>1. S \in SUBSET (1..n)
    OBVIOUS
  <2> HIDE DEF S, n
  <2> QED BY <1>1, <2>1, PositionsFinite
<1>3. Cardinality(S) = 0 <=> S = {}
  <2> HIDE DEF S
  <2> QED BY <1>2, FS_EmptySet
<1> QED BY <1>2, <1>3 DEF Count

-----------------------------------------------------------------------------
(* Printing.                                                               *)

LineType == [kind : Verdict \cup {"info"}, test : 1..MaxTests,
             detail : 0..MaxTests]

\* A line more.
LEMMA LinePrinted ==
  ASSUME NEW out \in Seq(LineType), NEW line \in LineType
  PROVE  LET n == Len(out)
             longer == Append(out, line)
         IN
         /\ n \in Nat /\ Len(longer) = n + 1
         /\ longer \in Seq(LineType)
         /\ \A j \in 1..n : longer[j] = out[j]
         /\ longer[n + 1] = line
         /\ ResultsIn(longer) =
              ResultsIn(out) \cup IF line.kind = "info" THEN {} ELSE {n + 1}
         /\ ResultsIn(out) \subseteq 1..n
         /\ \A t, kind : HasResult(out, t, kind) => HasResult(longer, t, kind)
<1> DEFINE n == Len(out)
           longer == Append(out, line)
<1>1. /\ n \in Nat
      /\ Len(longer) = n + 1
      /\ longer \in Seq(LineType)
      /\ \A j \in 1..n : longer[j] = out[j]
      /\ longer[n + 1] = line
  BY LenProperties, AppendProperties
<1> HIDE DEF longer
<1>2. 1..(n + 1) = (1..n) \cup {n + 1}
  BY <1>1
<1>3. ResultsIn(longer) =
        ResultsIn(out) \cup IF line.kind = "info" THEN {} ELSE {n + 1}
  BY <1>1, <1>2 DEF ResultsIn
<1>4. ResultsIn(out) \subseteq 1..n
  BY DEF ResultsIn
<1>5. ASSUME NEW t, NEW kind, HasResult(out, t, kind)
      PROVE  HasResult(longer, t, kind)
  BY <1>1, <1>3, <1>4, <1>5 DEF HasResult
<1> QED BY <1>1, <1>3, <1>4, <1>5 DEF longer

\* A result line of the running test, its first, comes after those of the
\* tests before it.
LEMMA ResultPrinted ==
  ASSUME NEW out \in Seq(LineType), NEW line \in LineType,
         line.kind # "info",
         \A j \in ResultsIn(out) : out[j].test < line.test,
         Ascending(out)
  PROVE  LET longer == Append(out, line) IN
         /\ \A j \in ResultsIn(longer) : longer[j].test <= line.test
         /\ Ascending(longer)
         /\ HasResult(longer, line.test, line.kind)
<1> DEFINE n == Len(out)
           longer == Append(out, line)
<1>1. /\ n \in Nat
      /\ ResultsIn(longer) = ResultsIn(out) \cup {n + 1}
      /\ ResultsIn(out) \subseteq 1..n
      /\ \A j \in 1..n : longer[j] = out[j]
      /\ longer[n + 1] = line
  BY LinePrinted
<1> HIDE DEF longer
<1>2. \A j \in ResultsIn(out) : out[j].test \in Nat /\ longer[j] = out[j]
  <2>1. \A j \in 1..n : out[j] \in LineType
    BY ElementOfSeq
  <2> QED BY <1>1, <2>1 DEF LineType
<1>3. line.test \in Nat
  BY DEF LineType
<1>4. \A j \in ResultsIn(longer) : j \in ResultsIn(out) \/ j = n + 1
  BY <1>1
<1>5. \A j \in ResultsIn(longer) : longer[j].test <= line.test
  BY <1>1, <1>2, <1>3, <1>4
<1>6. ASSUME NEW i \in ResultsIn(longer), NEW j \in ResultsIn(longer), i < j
      PROVE  longer[i].test < longer[j].test
  <2>1. i \in ResultsIn(out)
    <3>1. i # n + 1
      BY <1>1, <1>6
    <3> QED BY <1>4, <3>1
  <2>2. CASE j \in ResultsIn(out)
    BY <1>2, <1>6, <2>1, <2>2 DEF Ascending
  <2>3. CASE j = n + 1
    BY <1>1, <1>2, <2>1, <2>3
  <2> QED BY <1>4, <2>2, <2>3
<1>7. HasResult(longer, line.test, line.kind)
  BY <1>1 DEF HasResult
<1> QED BY <1>5, <1>6, <1>7 DEF longer, Ascending

-----------------------------------------------------------------------------
(* A step that is not a statement that prints keeps each part.             *)

LEMMA RunnerInit == Init => RunnerInv
<1> SUFFICES ASSUME Init PROVE RunnerInv
  OBVIOUS
<1>1. /\ pc = "main" /\ left = 0 /\ AbortFrame = "none" /\ detail = 0
      /\ output = <<>> /\ verdict = "pass" /\ verdicts = <<>> /\ status = -1
      /\ Unity = [NumberOfTests |-> 0, TestFailures |-> 0, TestIgnores |-> 0,
                  CurrentTestFailed |-> 0, CurrentTestIgnored |-> 0]
  BY DEF Init
<1>2. /\ <<>> \in Seq(Verdict) /\ Len(<<>>) = 0
      /\ <<>> \in Seq([kind : Verdict \cup {"info"}, test : 1..MaxTests,
                       detail : 0..MaxTests])
  BY EmptySeq
<1>3. 0 \in 0..MaxTests /\ 0 \in 0..MaxStatements /\ -1 \in -1..(StatusRange - 1)
  BY RunnerAssumption
<1>4. RunnerTypeOK
  BY <1>1, <1>2, <1>3 DEF RunnerTypeOK, Verdict
<1>5. FlagsTell
  BY <1>1 DEF FlagsTell, Testing, FailedOrIgnored
<1>6. \A kind : Count(kind) = 0
  <2>1. verdicts \in Seq(Verdict) /\ 1..Len(verdicts) = {}
    BY <1>1, <1>2
  <2> QED BY <2>1, CountBounds
<1>7. CountersTell
  BY <1>1, <1>2, <1>6 DEF CountersTell, Testing
<1>8. ResultsIn(output) = {} /\ 1..Len(output) = {} /\ 1..Len(verdicts) = {}
  BY <1>1, <1>2 DEF ResultsIn
<1>9. LinesTell /\ DetailsTell /\ StatusTells
  BY <1>1, <1>8 DEF LinesTell, Ascending, DetailsTell, StatusTells, Testing
<1> QED BY <1>4, <1>5, <1>7, <1>9 DEF RunnerInv

\* Where a statement may leave the test: always to a section or its end.
LEMMA StaysInTest ==
  ASSUME RunnerTypeOK, InSection, Abort \/ Continue
  PROVE  /\ pc \in Sections /\ pc' \in Sections \cup {"conclude"}
         /\ left' \in 0..MaxStatements
         /\ AbortFrame' \in {"none", "test", "tearDown"}
         /\ Testing /\ Testing'
<1>1. /\ pc \in Sections /\ left \in 0..MaxStatements /\ left > 0
      /\ AbortFrame \in {"none", "test", "tearDown"}
      /\ MaxStatements \in Nat
  BY RunnerAssumption DEF RunnerTypeOK, InSection
<1>2. /\ pc' \in Sections \cup {"conclude"}
      /\ left' \in 0..MaxStatements
      /\ AbortFrame' \in {"none", "test", "tearDown"}
  <2>1. CASE Continue
    BY <1>1, <2>1 DEF Continue
  <2>2. CASE Abort
    <3>1. CASE EnterTearDown
      BY <1>1, <3>1 DEF EnterTearDown, Sections
    <3>2. CASE pc' = "conclude" /\ UNCHANGED <<left, AbortFrame>>
      BY <1>1, <3>2
    <3> QED BY <2>2, <3>1, <3>2 DEF Abort
  <2> QED BY <2>1, <2>2
<1> QED BY <1>1, <1>2 DEF Testing, Sections

\* A silent statement.
LEMMA SilentKeeps ==
  ASSUME RunnerInv, pc' \in Sections \cup {"conclude"}, Testing,
         left' \in 0..MaxStatements, AbortFrame' \in {"none", "test", "tearDown"},
         detail' \in {detail, Unity.NumberOfTests},
         UNCHANGED <<Unity, output, verdict, verdicts, status>>
  PROVE  RunnerInv'
<1>1. Testing'
  BY DEF Testing, Sections
<1>2. RunnerTypeOK'
  BY DEF RunnerInv, RunnerTypeOK
<1>3. FlagsTell'
  BY <1>1 DEF RunnerInv, FlagsTell
<1>4. CountersTell'
  <2>1. \A kind : Count(kind)' = Count(kind)
    BY CountSame
  <2> QED BY <1>1, <2>1 DEF RunnerInv, CountersTell
<1>5. LinesTell'
  BY <1>1 DEF RunnerInv, LinesTell
<1>6. DetailsTell'
  BY <1>1 DEF RunnerInv, DetailsTell
<1>7. StatusTells'
  BY DEF StatusTells, Sections
<1> QED BY <1>2, <1>3, <1>4, <1>5, <1>6, <1>7 DEF RunnerInv

\* A statement that prints the result of the test, the first of it to fail or
\* be ignored.
LEMMA DecidingKeeps ==
  ASSUME RunnerInv, pc' \in Sections \cup {"conclude"}, Testing,
         left' \in 0..MaxStatements, AbortFrame' \in {"none", "test", "tearDown"},
         ~ FailedOrIgnored, NEW kind \in {"fail", "ignore"},
         NEW details \in {0, detail},
         Decide(kind),
         output' = Append(output, [kind |-> kind, test |-> Unity.NumberOfTests,
                                   detail |-> details]),
         Unity' = IF kind = "fail" THEN [Unity EXCEPT !.CurrentTestFailed = 1]
                  ELSE [Unity EXCEPT !.CurrentTestIgnored = 1],
         UNCHANGED <<detail, verdicts, status>>
  PROVE  RunnerInv'
<1> DEFINE line == [kind |-> kind, test |-> Unity.NumberOfTests, detail |-> details]
           n == Len(output)
<1>1. RunnerTypeOK /\ FlagsTell /\ CountersTell /\ LinesTell /\ DetailsTell
  BY DEF RunnerInv
<1>2. Testing'
  BY DEF Testing, Sections
<1>3. verdict = "pass" /\ verdict' = kind
  BY <1>1 DEF FlagsTell, FailedOrIgnored, Decide, RunnerTypeOK, Verdict
<1>4. /\ Unity' \in [NumberOfTests : 0..MaxTests, TestFailures : 0..MaxTests,
                     TestIgnores : 0..MaxTests, CurrentTestFailed : {0, 1},
                     CurrentTestIgnored : {0, 1}]
      /\ Unity'.NumberOfTests = Unity.NumberOfTests
      /\ Unity'.TestFailures = Unity.TestFailures
      /\ Unity'.TestIgnores = Unity.TestIgnores
      /\ Unity'.CurrentTestFailed = IF kind = "fail" THEN 1 ELSE 0
      /\ Unity'.CurrentTestIgnored = IF kind = "ignore" THEN 1 ELSE 0
  BY <1>1 DEF RunnerTypeOK, FailedOrIgnored
<1>5. Unity.NumberOfTests \in 1..MaxTests /\ Unity.NumberOfTests = Len(verdicts) + 1
  <2>1. Len(verdicts) \in Nat
    BY <1>1, LenProperties DEF RunnerTypeOK
  <2> QED BY <1>1, <2>1 DEF CountersTell, RunnerTypeOK
<1>6. line \in LineType /\ output \in Seq(LineType)
  <2>1. output \in Seq(LineType) /\ detail \in 0..MaxTests
    BY <1>1 DEF LineType, RunnerTypeOK
  <2>2. details \in 0..MaxTests
    BY <2>1, RunnerAssumption
  <2>3. kind \in Verdict \cup {"info"}
    BY DEF Verdict
  <2> QED BY <1>5, <2>1, <2>2, <2>3 DEF LineType
<1>7. /\ output' = Append(output, line)
      /\ line.kind = kind /\ line.test = Unity.NumberOfTests
      /\ line.detail \in {0, line.test} /\ line.kind # "info"
  BY <1>1 DEF DetailsTell
<1> HIDE DEF line
<1>14. /\ n \in Nat /\ Len(output') = n + 1
       /\ output' \in Seq(LineType)
       /\ \A j \in 1..n : output'[j] = output[j]
       /\ output'[n + 1] = line
       /\ \A t, k : HasResult(output, t, k) => HasResult(output', t, k)
  BY <1>6, <1>7, LinePrinted
<1>8. RunnerTypeOK'
  <2>1. verdict' \in Verdict /\ pc' \in Sections \cup {"main", "conclude", "ended"}
    BY <1>3 DEF Verdict
  <2>2. /\ detail' \in 0..MaxTests /\ verdicts' \in Seq(Verdict)
        /\ status' \in -1..(StatusRange - 1)
    BY <1>1 DEF RunnerTypeOK
  <2>3. Unity'.CurrentTestFailed = 0 \/ Unity'.CurrentTestIgnored = 0
    BY <1>4
  <2> QED BY <1>4, <1>14, <2>1, <2>2, <2>3 DEF RunnerTypeOK, LineType
<1>9. FlagsTell'
  BY <1>2, <1>3, <1>4 DEF FlagsTell
<1>10. CountersTell'
  <2>1. \A k : Count(k)' = Count(k)
    BY CountSame
  <2> QED BY <1>1, <1>2, <1>4, <2>1 DEF CountersTell
<1>11. LinesTell'
  <2>1. /\ \A j \in ResultsIn(output) : output[j].test < Unity.NumberOfTests
        /\ Ascending(output)
        /\ \A t \in 1..Len(verdicts) : HasResult(output, t, verdicts[t])
    BY <1>1, <1>3 DEF LinesTell
  <2>2. /\ \A j \in ResultsIn(output') : output'[j].test <= line.test
        /\ Ascending(output')
        /\ HasResult(output', line.test, line.kind)
    BY <1>6, <1>7, <2>1, ResultPrinted
  <2>3. \A t \in 1..Len(verdicts') : HasResult(output', t, verdicts'[t])
    BY <1>14, <2>1
  <2> QED BY <1>3, <1>4, <1>7, <2>2, <2>3 DEF LinesTell
<1>12. DetailsTell'
  <2>1. \A j \in 1..(n + 1) : j \in 1..n \/ j = n + 1
    BY <1>14
  <2>2. \A j \in 1..n : output[j].detail \in {0, output[j].test}
    BY <1>1 DEF DetailsTell
  <2>3. detail' \in {0, Unity'.NumberOfTests}
    BY <1>1, <1>4 DEF DetailsTell
  <2> QED BY <1>7, <1>14, <2>1, <2>2, <2>3 DEF DetailsTell
<1>13. StatusTells'
  BY DEF StatusTells, Sections
<1> QED BY <1>8, <1>9, <1>10, <1>11, <1>12, <1>13 DEF RunnerInv

\* UnityMessage: a line that is no result.
LEMMA MessageKeeps ==
  ASSUME RunnerInv, Message
  PROVE  RunnerInv'
<1> DEFINE line == [kind |-> "info", test |-> Unity.NumberOfTests, detail |-> 0]
           n == Len(output)
<1>1. RunnerTypeOK /\ FlagsTell /\ CountersTell /\ LinesTell /\ DetailsTell
  BY DEF RunnerInv
<1>2. /\ pc \in Sections /\ pc' \in Sections \cup {"conclude"}
      /\ left' \in 0..MaxStatements
      /\ AbortFrame' \in {"none", "test", "tearDown"}
      /\ Testing /\ Testing'
  BY <1>1, StaysInTest DEF Message
<1>3. /\ output' = Append(output, line)
      /\ UNCHANGED <<Unity, detail, verdict, verdicts, status>>
  BY DEF Message, Line
<1>4. Unity.NumberOfTests \in 1..MaxTests
  <2>1. Len(verdicts) \in Nat
    BY <1>1, LenProperties DEF RunnerTypeOK
  <2> QED BY <1>1, <1>2, <2>1 DEF CountersTell, RunnerTypeOK
<1>5. line \in LineType /\ output \in Seq(LineType)
  <2>1. output \in Seq(LineType) /\ 0 \in 0..MaxTests
    BY <1>1, RunnerAssumption DEF LineType, RunnerTypeOK
  <2> QED BY <1>4, <2>1 DEF LineType
<1>6. line.kind = "info" /\ line.detail = 0
  OBVIOUS
<1> HIDE DEF line
<1>7. /\ n \in Nat /\ Len(output') = n + 1
      /\ output' \in Seq(LineType)
      /\ \A j \in 1..n : output'[j] = output[j]
      /\ output'[n + 1] = line
      /\ ResultsIn(output') = ResultsIn(output)
      /\ ResultsIn(output) \subseteq 1..n
      /\ \A t, k : HasResult(output, t, k) => HasResult(output', t, k)
  <2>1. /\ n \in Nat /\ Len(output') = n + 1
        /\ output' \in Seq(LineType)
        /\ \A j \in 1..n : output'[j] = output[j]
        /\ output'[n + 1] = line
        /\ ResultsIn(output') =
             ResultsIn(output) \cup IF line.kind = "info" THEN {} ELSE {n + 1}
        /\ ResultsIn(output) \subseteq 1..n
        /\ \A t, k : HasResult(output, t, k) => HasResult(output', t, k)
    BY <1>3, <1>5, LinePrinted
  <2>2. ResultsIn(output') = ResultsIn(output)
    BY <1>6, <2>1
  <2> QED BY <2>1, <2>2
<1>8. RunnerTypeOK'
  <2>1. pc' \in Sections \cup {"main", "conclude", "ended"}
    BY <1>2
  <2> QED BY <1>1, <1>2, <1>3, <1>7, <2>1 DEF RunnerTypeOK, LineType
<1>9. FlagsTell'
  BY <1>1, <1>2, <1>3 DEF FlagsTell
<1>10. CountersTell'
  <2>1. \A k : Count(k)' = Count(k)
    BY <1>3, CountSame
  <2> QED BY <1>1, <1>2, <1>3, <2>1 DEF CountersTell
<1>11. LinesTell'
  <2>1. Ascending(output')
    BY <1>1, <1>7 DEF LinesTell, Ascending
  <2>2. \A j \in ResultsIn(output') : output'[j].test = output[j].test
    BY <1>7
  <2>3. \A t \in 1..Len(verdicts') : HasResult(output', t, verdicts'[t])
    BY <1>1, <1>3, <1>7 DEF LinesTell
  <2> QED BY <1>1, <1>2, <1>3, <1>7, <2>1, <2>2, <2>3 DEF LinesTell
<1>12. DetailsTell'
  <2>1. \A j \in 1..(n + 1) : j \in 1..n \/ j = n + 1
    BY <1>7
  <2>2. \A j \in 1..n : output[j].detail \in {0, output[j].test}
    BY <1>1 DEF DetailsTell
  <2>3. detail' \in {0, Unity'.NumberOfTests}
    BY <1>1, <1>2, <1>3 DEF DetailsTell
  <2> QED BY <1>6, <1>7, <2>1, <2>2, <2>3 DEF DetailsTell
<1>13. StatusTells'
  BY <1>2 DEF StatusTells, Testing
<1> QED BY <1>8, <1>9, <1>10, <1>11, <1>12, <1>13 DEF RunnerInv

\* The start of a test.
LEMMA RunTestKeeps ==
  ASSUME RunnerInv, RunTest
  PROVE  RunnerInv'
<1>1. RunnerTypeOK /\ FlagsTell /\ CountersTell /\ LinesTell /\ DetailsTell
  BY DEF RunnerInv
<1>2. /\ pc = "main" /\ pc' = "setUp" /\ left' = MaxStatements
      /\ AbortFrame' = "test" /\ detail' = 0 /\ verdict' = "pass"
      /\ Unity.NumberOfTests < MaxTests
      /\ Unity' = [Unity EXCEPT !.NumberOfTests = Unity.NumberOfTests + 1]
      /\ UNCHANGED <<output, verdicts, status>>
  BY DEF RunTest
<1>3. ~ Testing /\ Testing'
  BY <1>2 DEF Testing
<1>4. /\ Unity' \in [NumberOfTests : 0..MaxTests, TestFailures : 0..MaxTests,
                     TestIgnores : 0..MaxTests, CurrentTestFailed : {0, 1},
                     CurrentTestIgnored : {0, 1}]
      /\ Unity'.NumberOfTests = Unity.NumberOfTests + 1
      /\ Unity'.TestFailures = Unity.TestFailures
      /\ Unity'.TestIgnores = Unity.TestIgnores
      /\ Unity'.CurrentTestFailed = Unity.CurrentTestFailed
      /\ Unity'.CurrentTestIgnored = Unity.CurrentTestIgnored
      /\ Unity.NumberOfTests \in Nat
  <2>1. Unity.NumberOfTests \in 0..MaxTests
    BY <1>1 DEF RunnerTypeOK
  <2>2. Unity.NumberOfTests + 1 \in 0..MaxTests /\ Unity.NumberOfTests \in Nat
    BY <1>2, <2>1, RunnerAssumption
  <2> QED BY <1>1, <1>2, <2>2 DEF RunnerTypeOK
<1>5. Unity.CurrentTestFailed = 0 /\ Unity.CurrentTestIgnored = 0
  BY <1>1, <1>3 DEF FlagsTell, FailedOrIgnored, RunnerTypeOK
<1>6. RunnerTypeOK'
  <2>1. /\ pc' \in Sections \cup {"main", "conclude", "ended"}
        /\ verdict' \in Verdict
    BY <1>2 DEF Sections, Verdict
  <2>2. left' \in 0..MaxStatements /\ detail' \in 0..MaxTests
    BY <1>2, RunnerAssumption
  <2> QED BY <1>1, <1>2, <1>4, <1>5, <2>1, <2>2 DEF RunnerTypeOK
<1>7. FlagsTell'
  BY <1>2, <1>3, <1>4, <1>5 DEF FlagsTell
<1>8. CountersTell'
  <2>1. \A k : Count(k)' = Count(k)
    BY <1>2, CountSame
  <2>2. Unity.NumberOfTests = Len(verdicts)
    <3>1. Len(verdicts) \in Nat
      BY <1>1, LenProperties DEF RunnerTypeOK
    <3> QED BY <1>1, <1>3, <3>1 DEF CountersTell
  <2> QED BY <1>1, <1>2, <1>3, <1>4, <2>1, <2>2 DEF CountersTell
<1>9. LinesTell'
  <2>1. \A j \in ResultsIn(output) : output[j].test \in Nat
    <3>1. \A j \in 1..Len(output) : output[j] \in LineType
      BY <1>1, ElementOfSeq DEF RunnerTypeOK, LineType
    <3> QED BY <3>1 DEF ResultsIn, LineType
  <2>2. \A j \in ResultsIn(output) : output[j].test < Unity.NumberOfTests + 1
    BY <1>1, <1>4, <2>1 DEF LinesTell
  <2>3. \A j \in ResultsIn(output) : output[j].test <= Unity.NumberOfTests + 1
    BY <1>4, <2>1, <2>2
  <2> QED BY <1>1, <1>2, <1>3, <1>4, <2>2, <2>3 DEF LinesTell
<1>10. DetailsTell' /\ StatusTells'
  BY <1>1, <1>2 DEF DetailsTell, StatusTells
<1> QED BY <1>6, <1>7, <1>8, <1>9, <1>10 DEF RunnerInv

\* UnityConcludeTest counts a test by its flags and prints the result line a
\* passed test does not have yet.
LEMMA ConcludeKeeps ==
  ASSUME RunnerInv, ConcludeTest
  PROVE  RunnerInv'
<1> DEFINE line == [kind |-> "pass", test |-> Unity.NumberOfTests, detail |-> 0]
           n == Len(output)
           t == Unity.NumberOfTests
           UnityType == [NumberOfTests : 0..MaxTests, TestFailures : 0..MaxTests,
                         TestIgnores : 0..MaxTests, CurrentTestFailed : {0, 1},
                         CurrentTestIgnored : {0, 1}]
<1>1. RunnerTypeOK /\ FlagsTell /\ CountersTell /\ LinesTell /\ DetailsTell
  BY DEF RunnerInv
<1>2. /\ pc = "conclude" /\ pc' = "main"
      /\ verdicts' = Append(verdicts, verdict)
      /\ UNCHANGED <<left, AbortFrame, detail, verdict, status>>
  BY DEF ConcludeTest
<1>3. Testing /\ ~ Testing'
  BY <1>2 DEF Testing
<1>4. /\ verdict \in Verdict /\ verdicts \in Seq(Verdict)
      /\ Unity \in UnityType
      /\ output \in Seq(LineType)
      /\ t = Len(verdicts) + 1 /\ Len(verdicts) \in Nat /\ t \in 1..MaxTests
  <2>1. verdicts \in Seq(Verdict) /\ Len(verdicts) \in Nat
    BY <1>1, LenProperties DEF RunnerTypeOK
  <2> QED BY <1>1, <1>3, <2>1 DEF CountersTell, RunnerTypeOK, LineType
<1>5. /\ verdicts' \in Seq(Verdict) /\ Len(verdicts') = t
      /\ \A i \in 1..Len(verdicts) : verdicts'[i] = verdicts[i]
      /\ verdicts'[t] = verdict
      /\ \A i \in 1..t : i \in 1..Len(verdicts) \/ i = t
  BY <1>2, <1>4, AppendProperties
<1>6. /\ Unity.CurrentTestFailed = 1 <=> verdict = "fail"
      /\ Unity.CurrentTestIgnored = 1 <=> verdict = "ignore"
  BY <1>1, <1>3 DEF FlagsTell
<1>7. /\ Unity.TestFailures \in 0..(t - 1) /\ Unity.TestIgnores \in 0..(t - 1)
      /\ Count("fail")' =
           Unity.TestFailures + IF verdict = "fail" THEN 1 ELSE 0
      /\ Count("ignore")' =
           Unity.TestIgnores + IF verdict = "ignore" THEN 1 ELSE 0
  <2>1. \A k : /\ Count(k) \in 0..Len(verdicts)
               /\ Count(k)' = Count(k) + IF verdict = k THEN 1 ELSE 0
    BY <1>2, <1>4, CountOneMore
  <2>2. /\ Unity.TestFailures = Count("fail")
        /\ Unity.TestIgnores = Count("ignore")
    BY <1>1 DEF CountersTell
  <2>3. Len(verdicts) = t - 1
    BY <1>4
  <2> QED BY <2>1, <2>2, <2>3
<1>8. /\ Unity.TestFailures + 1 \in 0..MaxTests
      /\ Unity.TestIgnores + 1 \in 0..MaxTests
      /\ Unity.TestFailures + 0 = Unity.TestFailures
      /\ Unity.TestIgnores + 0 = Unity.TestIgnores
  BY <1>4, <1>7, RunnerAssumption
<1>9. /\ Unity' \in UnityType
      /\ Unity'.NumberOfTests = t
      /\ Unity'.TestFailures = Count("fail")'
      /\ Unity'.TestIgnores = Count("ignore")'
      /\ Unity'.CurrentTestFailed = 0 /\ Unity'.CurrentTestIgnored = 0
      /\ output' = IF verdict = "pass" THEN Append(output, line) ELSE output
  <2>1. CASE verdict = "ignore"
    <3>1. /\ Unity' = Cleared([Unity EXCEPT !.TestIgnores = Unity.TestIgnores + 1])
          /\ output' = output
      BY <1>6, <2>1 DEF ConcludeTest
    <3>2. /\ Unity' \in UnityType
          /\ Unity'.NumberOfTests = t
          /\ Unity'.TestFailures = Unity.TestFailures
          /\ Unity'.TestIgnores = Unity.TestIgnores + 1
          /\ Unity'.CurrentTestFailed = 0 /\ Unity'.CurrentTestIgnored = 0
      BY <1>4, <1>8, <3>1 DEF Cleared
    <3>3. /\ Count("fail")' = Unity.TestFailures
          /\ Count("ignore")' = Unity.TestIgnores + 1
      BY <1>7, <1>8, <2>1
    <3> QED BY <2>1, <3>1, <3>2, <3>3
  <2>2. CASE verdict = "fail"
    <3>1. /\ Unity' = Cleared([Unity EXCEPT !.TestFailures = Unity.TestFailures + 1])
          /\ output' = output
      <4>1. Unity.CurrentTestFailed = 1 /\ Unity.CurrentTestIgnored # 1
        BY <1>6, <2>2
      <4> QED BY <4>1 DEF ConcludeTest
    <3>2. /\ Unity' \in UnityType
          /\ Unity'.NumberOfTests = t
          /\ Unity'.TestFailures = Unity.TestFailures + 1
          /\ Unity'.TestIgnores = Unity.TestIgnores
          /\ Unity'.CurrentTestFailed = 0 /\ Unity'.CurrentTestIgnored = 0
      BY <1>4, <1>8, <3>1 DEF Cleared
    <3>3. /\ Count("fail")' = Unity.TestFailures + 1
          /\ Count("ignore")' = Unity.TestIgnores
      BY <1>7, <1>8, <2>2
    <3> QED BY <2>2, <3>1, <3>2, <3>3
  <2>3. CASE verdict = "pass"
    <3>1. /\ Unity' = Cleared(Unity)
          /\ output' = Append(output, line)
      <4>1. Unity.CurrentTestFailed # 1 /\ Unity.CurrentTestIgnored # 1
        BY <1>6, <2>3
      <4>2. [Line("pass") EXCEPT !.detail = 0] = line
        BY DEF Line
      <4> QED BY <4>1, <4>2 DEF ConcludeTest
    <3>2. /\ Unity' \in UnityType
          /\ Unity'.NumberOfTests = t
          /\ Unity'.TestFailures = Unity.TestFailures
          /\ Unity'.TestIgnores = Unity.TestIgnores
          /\ Unity'.CurrentTestFailed = 0 /\ Unity'.CurrentTestIgnored = 0
      BY <1>4, <1>8, <3>1 DEF Cleared
    <3>3. /\ Count("fail")' = Unity.TestFailures
          /\ Count("ignore")' = Unity.TestIgnores
      BY <1>7, <1>8, <2>3
    <3> QED BY <2>3, <3>1, <3>2, <3>3
  <2> QED BY <1>4, <2>1, <2>2, <2>3 DEF Verdict
<1>10. line \in LineType
  <2>1. 0 \in 0..MaxTests
    BY RunnerAssumption
  <2> QED BY <1>4, <2>1 DEF LineType, Verdict
<1>11. line.kind = "pass" /\ line.test = t /\ line.detail = 0
  OBVIOUS
<1> HIDE DEF line, UnityType, t
<1>12. /\ output' \in Seq(LineType)
       /\ \A j \in ResultsIn(output') : output'[j].test <= t
       /\ Ascending(output')
       /\ \A i, k : HasResult(output, i, k) => HasResult(output', i, k)
       /\ HasResult(output', t, verdict)
       /\ \A j \in 1..Len(output') : output'[j].detail \in {0, output'[j].test}
  <2>1. \A j \in 1..n : output[j].detail \in {0, output[j].test}
    BY <1>1 DEF DetailsTell
  <2>2. CASE verdict = "pass"
    <3>1. output' = Append(output, line)
      BY <1>9, <2>2
    <3>2. /\ n \in Nat /\ Len(output') = n + 1 /\ output' \in Seq(LineType)
          /\ \A j \in 1..n : output'[j] = output[j]
          /\ output'[n + 1] = line
          /\ \A i, k : HasResult(output, i, k) => HasResult(output', i, k)
      BY <1>4, <1>10, <3>1, LinePrinted
    <3>3. /\ \A j \in ResultsIn(output) : output[j].test < line.test
          /\ Ascending(output)
      BY <1>1, <1>3, <1>11, <2>2 DEF LinesTell, t
    <3>4. line.kind # "info"
      BY <1>11
    <3>5. /\ \A j \in ResultsIn(output') : output'[j].test <= line.test
          /\ Ascending(output')
          /\ HasResult(output', line.test, line.kind)
      BY <1>4, <1>10, <3>1, <3>3, <3>4, ResultPrinted
    <3>6. \A j \in 1..Len(output') : output'[j].detail \in {0, output'[j].test}
      <4>1. \A j \in 1..(n + 1) : j \in 1..n \/ j = n + 1
        BY <3>2
      <4> QED BY <1>11, <2>1, <3>2, <4>1
    <3> QED BY <1>11, <2>2, <3>2, <3>5, <3>6
  <2>3. CASE verdict # "pass"
    <3>1. output' = output
      BY <1>9, <2>3
    <3> QED BY <1>1, <1>3, <1>4, <2>1, <2>3, <3>1 DEF LinesTell, t
  <2> QED BY <2>2, <2>3
<1>13. RunnerTypeOK'
  BY <1>1, <1>2, <1>5, <1>9, <1>12 DEF RunnerTypeOK, LineType, UnityType
<1>14. FlagsTell'
  BY <1>3, <1>9 DEF FlagsTell, FailedOrIgnored
<1>15. CountersTell'
  BY <1>3, <1>4, <1>5, <1>9 DEF CountersTell, t
<1>16. LinesTell'
  <2>1. ASSUME NEW i \in 1..Len(verdicts')
        PROVE  HasResult(output', i, verdicts'[i])
    <3>1. CASE i \in 1..Len(verdicts)
      <4>1. HasResult(output, i, verdicts[i])
        BY <1>1, <3>1 DEF LinesTell
      <4> QED BY <1>5, <1>12, <3>1, <4>1
    <3>2. CASE i = t
      BY <1>5, <1>12, <3>2
    <3> QED BY <1>5, <3>1, <3>2
  <2> QED BY <1>3, <1>9, <1>12, <2>1 DEF LinesTell
<1>17. DetailsTell' /\ StatusTells'
  BY <1>2, <1>3, <1>12 DEF DetailsTell, StatusTells
<1> QED BY <1>13, <1>14, <1>15, <1>16, <1>17 DEF RunnerInv

LEMMA EndKeeps ==
  ASSUME RunnerInv, End
  PROVE  RunnerInv'
<1>1. /\ pc = "main" /\ pc' = "ended"
      /\ status' = Unity.TestFailures % StatusRange
      /\ UNCHANGED <<left, Unity, AbortFrame, detail, output, verdict, verdicts>>
  BY DEF End, ExitStatus
<1>2. ~ Testing /\ ~ Testing'
  BY <1>1 DEF Testing
<1>3. RunnerTypeOK'
  <2>1. status' \in -1..(StatusRange - 1)
    <3>1. Unity.TestFailures \in Nat
      BY DEF RunnerInv, RunnerTypeOK
    <3> QED BY <1>1, <3>1, RunnerAssumption
  <2> QED BY <1>1, <2>1 DEF RunnerInv, RunnerTypeOK
<1>4. FlagsTell'
  BY <1>1, <1>2 DEF RunnerInv, FlagsTell, FailedOrIgnored
<1>5. CountersTell'
  <2>1. \A k : Count(k)' = Count(k)
    BY <1>1, CountSame
  <2> QED BY <1>1, <1>2, <2>1 DEF RunnerInv, CountersTell
<1>6. LinesTell' /\ DetailsTell' /\ StatusTells'
  BY <1>1, <1>2 DEF RunnerInv, LinesTell, DetailsTell, StatusTells
<1> QED BY <1>3, <1>4, <1>5, <1>6 DEF RunnerInv

LEMMA RunnerStep ==
  ASSUME RunnerInv, [Next]_vars
  PROVE  RunnerInv'
<1>1. RunnerTypeOK
  BY DEF RunnerInv
<1>2. CASE Holds \/ Asserts \/ Pass
  <2>1. InSection /\ (Abort \/ Continue)
    BY <1>2 DEF Holds, Asserts, Pass
  <2>2. UNCHANGED <<Unity, detail, output, verdict, verdicts, status>>
    BY <1>2 DEF Holds, Asserts, Pass
  <2> QED BY <1>1, <2>1, <2>2, StaysInTest, SilentKeeps
<1>3. CASE SetDetail
  <2>1. /\ InSection /\ Continue /\ detail' = Unity.NumberOfTests
        /\ UNCHANGED <<Unity, output, verdict, verdicts, status>>
    BY <1>3 DEF SetDetail
  <2> QED BY <1>1, <2>1, StaysInTest, SilentKeeps
<1>4. CASE Fail
  <2>1. /\ InSection /\ Abort /\ Decide("fail")
        /\ UNCHANGED <<detail, verdicts, status>>
    BY <1>4 DEF Fail
  <2>2. CASE FailedOrIgnored
    <3>1. UNCHANGED <<output, Unity>>
      BY <1>4, <2>2 DEF Fail
    <3>2. Testing
      BY <1>1, <2>1, StaysInTest
    <3>3. verdict' = verdict
      BY <2>1, <2>2, <3>2 DEF RunnerInv, FlagsTell, FailedOrIgnored, Decide
    <3> QED BY <1>1, <2>1, <3>1, <3>3, StaysInTest, SilentKeeps
  <2>3. CASE ~ FailedOrIgnored
    <3>1. /\ output' = Append(output, [kind |-> "fail",
                                       test |-> Unity.NumberOfTests,
                                       detail |-> detail])
          /\ Unity' = [Unity EXCEPT !.CurrentTestFailed = 1]
      BY <1>4, <2>3 DEF Fail, Line
    <3> QED BY <1>1, <2>1, <2>3, <3>1, StaysInTest, DecidingKeeps
  <2> QED BY <2>2, <2>3
<1>5. CASE Ignore
  <2>1. /\ InSection /\ Abort /\ Decide("ignore")
        /\ UNCHANGED <<detail, verdicts, status>>
    BY <1>5 DEF Ignore
  <2>2. CASE FailedOrIgnored
    <3>1. UNCHANGED <<output, Unity>>
      BY <1>5, <2>2 DEF Ignore
    <3>2. Testing
      BY <1>1, <2>1, StaysInTest
    <3>3. verdict' = verdict
      BY <2>1, <2>2, <3>2 DEF RunnerInv, FlagsTell, FailedOrIgnored, Decide
    <3> QED BY <1>1, <2>1, <3>1, <3>3, StaysInTest, SilentKeeps
  <2>3. CASE ~ FailedOrIgnored
    <3>1. /\ output' = Append(output, [kind |-> "ignore",
                                       test |-> Unity.NumberOfTests,
                                       detail |-> 0])
          /\ Unity' = [Unity EXCEPT !.CurrentTestIgnored = 1]
      BY <1>5, <2>3 DEF Ignore, Line
    <3> QED BY <1>1, <2>1, <2>3, <3>1, StaysInTest, DecidingKeeps
  <2> QED BY <2>2, <2>3
<1>6. CASE Message
  BY <1>6, MessageKeeps
<1>7. CASE RunTest
  BY <1>7, RunTestKeeps
<1>8. CASE SectionEnds
  <2>1. UNCHANGED <<Unity, detail, output, verdict, verdicts, status>>
    BY <1>8 DEF SectionEnds
  <2>2. /\ pc \in Sections /\ pc' \in Sections \cup {"conclude"}
        /\ left' \in 0..MaxStatements
        /\ AbortFrame' \in {"none", "test", "tearDown"}
    <3>1. /\ left \in 0..MaxStatements /\ MaxStatements \in 0..MaxStatements
          /\ AbortFrame \in {"none", "test", "tearDown"}
      BY <1>1, RunnerAssumption DEF RunnerTypeOK
    <3> QED BY <1>8, <3>1 DEF SectionEnds, EnterTearDown, Sections
  <2>3. Testing
    BY <2>2 DEF Testing, Sections
  <2> QED BY <2>1, <2>2, <2>3, SilentKeeps
<1>9. CASE ConcludeTest
  BY <1>9, ConcludeKeeps
<1>10. CASE End
  BY <1>10, EndKeeps
<1>11. CASE UNCHANGED vars
  <2>1. /\ UNCHANGED <<pc, left, Unity, AbortFrame, detail, output, verdict>>
        /\ UNCHANGED <<verdicts, status>>
    BY <1>11 DEF vars
  <2>2. \A k : Count(k)' = Count(k)
    BY <2>1, CountSame
  <2>3. RunnerTypeOK'
    BY <1>1, <2>1 DEF RunnerTypeOK
  <2>4. Testing' = Testing /\ FailedOrIgnored' = FailedOrIgnored
    BY <2>1 DEF Testing, FailedOrIgnored
  <2>5. FlagsTell' /\ CountersTell'
    BY <2>1, <2>2, <2>4 DEF RunnerInv, FlagsTell, CountersTell
  <2>6. LinesTell' /\ DetailsTell' /\ StatusTells'
    BY <2>1, <2>4 DEF RunnerInv, LinesTell, DetailsTell, StatusTells
  <2> QED BY <2>3, <2>5, <2>6 DEF RunnerInv
<1> QED
  BY <1>2, <1>3, <1>4, <1>5, <1>6, <1>7, <1>8, <1>9, <1>10, <1>11 DEF Next

-----------------------------------------------------------------------------
(* The theorems.                                                           *)

THEOREM RunnerCorrect == Spec => []RunnerInv
<1> QED BY RunnerInit, RunnerStep, PTL DEF Spec

\* Every variable has its type, and no test is failed and ignored at once
\* (unity.c:21-23).
THEOREM RunnerTypeCorrect == Spec => []RunnerTypeOK
<1>1. RunnerInv => RunnerTypeOK
  BY DEF RunnerInv
<1> QED BY <1>1, RunnerCorrect, PTL

\* The summary's counters are the tests' verdicts, however the tests were left
\* (unity.c:548-569, 2186-2204).
THEOREM CountsMatchVerdictsCorrect == Spec => []CountsMatchVerdicts
<1>1. RunnerInv => CountsMatchVerdicts
  <2> SUFFICES ASSUME RunnerInv, pc \in {"main", "ended"}
               PROVE  /\ Unity.NumberOfTests = Len(verdicts)
                      /\ Unity.TestFailures = Count("fail")
                      /\ Unity.TestIgnores = Count("ignore")
                      /\ ~ FailedOrIgnored
    BY DEF CountsMatchVerdicts
  <2>1. ~ Testing
    BY DEF Testing
  <2>2. Len(verdicts) \in Nat
    BY LenProperties DEF RunnerInv, RunnerTypeOK
  <2> QED BY <2>1, <2>2 DEF RunnerInv, CountersTell, FlagsTell
<1> QED BY <1>1, RunnerCorrect, PTL

\* Each test that ended printed exactly one result line, its own verdict, in
\* the order the tests ran, and never the details of another test
\* (unity.c:540-569, 2117-2167, 2191).
THEOREM OneResultPerTestCorrect == Spec => []OneResultPerTest
<1>1. RunnerInv => OneResultPerTest
  <2> SUFFICES ASSUME RunnerInv PROVE OneResultPerTest
    OBVIOUS
  <2>1. Results = ResultsIn(output)
    BY DEF Results, ResultsIn
  <2>2. \A j \in 1..Len(output) : output[j].detail \in {0, output[j].test}
    BY DEF RunnerInv, DetailsTell
  <2>3. ASSUME pc \in {"main", "ended"}
        PROVE  /\ \A t \in 1..Len(verdicts) : \E j \in Results :
                    output[j].test = t /\ output[j].kind = verdicts[t]
               /\ \A j \in Results : output[j].test \in 1..Len(verdicts)
               /\ \A i, j \in Results : i < j => output[i].test < output[j].test
    <3>1. Unity.NumberOfTests = Len(verdicts)
      <4>1. Len(verdicts) \in Nat
        BY LenProperties DEF RunnerInv, RunnerTypeOK
      <4> QED BY <2>3, <4>1 DEF RunnerInv, CountersTell, Testing
    <3>2. \A j \in 1..Len(output) : output[j].test \in 1..MaxTests
      <4>1. \A j \in 1..Len(output) : output[j] \in LineType
        BY ElementOfSeq DEF RunnerInv, RunnerTypeOK, LineType
      <4> QED BY <4>1 DEF LineType
    <3>3. \A j \in ResultsIn(output) :
            output[j].test \in 1..MaxTests /\ output[j].test <= Len(verdicts)
      BY <3>1, <3>2 DEF RunnerInv, LinesTell, ResultsIn
    <3>4. \A j \in ResultsIn(output) : output[j].test \in 1..Len(verdicts)
      <4>1. Len(verdicts) \in Nat
        BY LenProperties DEF RunnerInv, RunnerTypeOK
      <4> QED BY <3>3, <4>1
    <3> QED BY <2>1, <3>4 DEF RunnerInv, LinesTell, Ascending, HasResult
  <2> QED BY <2>2, <2>3 DEF OneResultPerTest
<1> QED BY <1>1, RunnerCorrect, PTL

\* With fewer tests than exit statuses, the status is 0 exactly when no test
\* failed (unity.c:2256, unitTests.c:158).
THEOREM StatusTellsFailureCorrect == Spec => []StatusTellsFailure
<1>1. RunnerInv => StatusTellsFailure
  <2> SUFFICES ASSUME RunnerInv, pc = "ended", Len(verdicts) < StatusRange
               PROVE  status = 0 <=> \A i \in 1..Len(verdicts) : verdicts[i] # "fail"
    BY DEF StatusTellsFailure
  <2>1. /\ Count("fail") \in 0..Len(verdicts)
        /\ Count("fail") = 0
             <=> \A i \in 1..Len(verdicts) : verdicts[i] # "fail"
        /\ Len(verdicts) \in Nat
    BY CountBounds, LenProperties DEF RunnerInv, RunnerTypeOK
  <2>2. status = Count("fail") % StatusRange
    BY DEF RunnerInv, StatusTells, CountersTell
  <2>3. Count("fail") % StatusRange = Count("fail")
    BY <2>1, RunnerAssumption
  <2> QED BY <2>1, <2>2, <2>3
<1> QED BY <1>1, RunnerCorrect, PTL
=============================================================================
