----------------------------- MODULE UnityRunner -----------------------------
(***************************************************************************)
(* The test runner the unit tests run under: UnityBegin, RUN_TEST for each *)
(* test, UnityEnd (Unity/unity.c, unity_internals.h), with the main of     *)
(* tests/unitTests.c.  A test is any sequence of statements in setUp, in   *)
(* its function and in tearDown; a failing one leaves by a longjmp to the  *)
(* AbortFrame that TEST_PROTECT last set.  What is compared and printed is *)
(* UnityAssert's; here a result line is its kind, the number of the test   *)
(* it was printed in, and the test that set the details printed with it.   *)
(***************************************************************************)
EXTENDS Integers, Sequences, FiniteSets

CONSTANTS
  MaxTests,        \* bound: tests main runs (9 in tests/unitTests.c)
  MaxStatements,   \* bound: statements in setUp, a test or tearDown
  StatusRange      \* the exit statuses a process has (256)

ASSUME RunnerAssumption ==
  /\ MaxTests \in Nat
  /\ MaxStatements \in Nat
  /\ StatusRange \in Nat \ {0}

VARIABLES
  pc,         \* where the process is: main, a section of a test, ...
  left,       \* statements the section may still execute
  Unity,      \* the counters and flags of struct UNITY_STORAGE_T
  AbortFrame, \* the section of the TEST_PROTECT a longjmp goes back to
  detail,     \* the test that set Unity.CurrentDetail1, 0 for none
  output,     \* the lines printed
  verdict,    \* history: what the running test has come to so far
  verdicts,   \* history: what the tests that have ended came to
  status      \* the exit status of the process

vars == <<pc, left, Unity, AbortFrame, detail, output, verdict, verdicts, status>>

Sections == {"setUp", "body", "tearDown"}

\* UnityBegin, called before the first test.
Init ==
  /\ pc = "main"
  /\ left = 0
  /\ Unity = [NumberOfTests |-> 0, TestFailures |-> 0, TestIgnores |-> 0,
              CurrentTestFailed |-> 0, CurrentTestIgnored |-> 0]
  /\ AbortFrame = "none"
  /\ detail = 0
  /\ output = <<>>
  /\ verdict = "pass"
  /\ verdicts = <<>>
  /\ status = -1

-----------------------------------------------------------------------------
(* A statement of a test.                                                  *)

\* A line of output; the details are printed with a failure that has a
\* message.
Line(kind) == [kind |-> kind, test |-> Unity.NumberOfTests, detail |-> detail]

FailedOrIgnored == Unity.CurrentTestFailed = 1 \/ Unity.CurrentTestIgnored = 1

\* `if (TEST_PROTECT())` around tearDown: it is entered from the end of the
\* test and from a longjmp to the first TEST_PROTECT.
EnterTearDown_Unprotected ==
  /\ pc' = "tearDown"
  /\ left' = MaxStatements
  /\ UNCHANGED AbortFrame

EnterTearDown ==
  /\ pc' = "tearDown"
  /\ left' = MaxStatements
  /\ AbortFrame' = "tearDown"

\* TEST_ABORT: control comes back out of the setjmp that set the frame.
Abort ==
  \/ AbortFrame = "test" /\ EnterTearDown
  \/ AbortFrame = "tearDown" /\ pc' = "conclude" /\ UNCHANGED <<left, AbortFrame>>

Continue == left' = left - 1 /\ UNCHANGED <<pc, AbortFrame>>

InSection == pc \in Sections /\ left > 0

\* A condition that holds (UNITY_TEST_ASSERT), or no assertion at all.
Holds ==
  /\ InSection
  /\ Continue
  /\ UNCHANGED <<Unity, detail, output, verdict, verdicts, status>>

\* An assertion function whose comparison holds; it begins with
\* RETURN_IF_FAIL_OR_IGNORE.
Asserts ==
  /\ InSection
  /\ IF FailedOrIgnored THEN Abort ELSE Continue
  /\ UNCHANGED <<Unity, detail, output, verdict, verdicts, status>>

\* UNITY_SET_DETAIL.
SetDetail ==
  /\ InSection
  /\ detail' = Unity.NumberOfTests
  /\ Continue
  /\ UNCHANGED <<Unity, output, verdict, verdicts, status>>

\* The first failing or ignoring statement of a test decides about it.
Decide(kind) == verdict' = IF verdict = "pass" THEN kind ELSE verdict

Fail_Always ==
  /\ InSection
  /\ Decide("fail")
  /\ output' = Append(output, Line("fail"))
  /\ Unity' = [Unity EXCEPT !.CurrentTestFailed = 1]
  /\ Abort
  /\ UNCHANGED <<detail, verdicts, status>>

\* UnityFail, or an assertion function whose comparison does not hold: print
\* and UNITY_FAIL_AND_BAIL, unless the test has already failed or been ignored.
Fail ==
  /\ InSection
  /\ Decide("fail")
  /\ IF FailedOrIgnored THEN UNCHANGED <<output, Unity>>
     ELSE /\ output' = Append(output, Line("fail"))
          /\ Unity' = [Unity EXCEPT !.CurrentTestFailed = 1]
  /\ Abort
  /\ UNCHANGED <<detail, verdicts, status>>

\* UnityIgnore; it prints no details.
Ignore ==
  /\ InSection
  /\ Decide("ignore")
  /\ IF FailedOrIgnored THEN UNCHANGED <<output, Unity>>
     ELSE /\ output' = Append(output, [Line("ignore") EXCEPT !.detail = 0])
          /\ Unity' = [Unity EXCEPT !.CurrentTestIgnored = 1]
  /\ Abort
  /\ UNCHANGED <<detail, verdicts, status>>

\* UnityMessage prints whatever the flags say.
Message ==
  /\ InSection
  /\ output' = Append(output, [Line("info") EXCEPT !.detail = 0])
  /\ Continue
  /\ UNCHANGED <<Unity, detail, verdict, verdicts, status>>

\* TEST_PASS leaves the section and sets no flag.
Pass ==
  /\ InSection
  /\ Abort
  /\ UNCHANGED <<Unity, detail, output, verdict, verdicts, status>>

-----------------------------------------------------------------------------
(* The runner.                                                             *)

RunTest_KeepsDetails ==
  /\ pc = "main"
  /\ Unity.NumberOfTests < MaxTests
  /\ Unity' = [Unity EXCEPT !.NumberOfTests = @ + 1]
  /\ AbortFrame' = "test"
  /\ pc' = "setUp"
  /\ left' = MaxStatements
  /\ verdict' = "pass"
  /\ UNCHANGED <<detail, output, verdicts, status>>

\* UnityDefaultTestRun up to setUp.
RunTest ==
  /\ pc = "main"
  /\ Unity.NumberOfTests < MaxTests
  /\ Unity' = [Unity EXCEPT !.NumberOfTests = @ + 1]
  /\ detail' = 0
  /\ AbortFrame' = "test"
  /\ pc' = "setUp"
  /\ left' = MaxStatements
  /\ verdict' = "pass"
  /\ UNCHANGED <<output, verdicts, status>>

\* A section returns.
SectionEnds ==
  /\ \/ /\ pc = "setUp"
        /\ pc' = "body"
        /\ left' = MaxStatements
        /\ UNCHANGED AbortFrame
     \/ pc = "body" /\ EnterTearDown
     \/ pc = "tearDown" /\ pc' = "conclude" /\ UNCHANGED <<left, AbortFrame>>
  /\ UNCHANGED <<Unity, detail, output, verdict, verdicts, status>>

Cleared_KeepsIgnored(unity) == [unity EXCEPT !.CurrentTestFailed = 0]

\* The flags of the next test.
Cleared(unity) == [unity EXCEPT !.CurrentTestFailed = 0, !.CurrentTestIgnored = 0]

\* UnityConcludeTest: count, or print PASS.
ConcludeTest ==
  /\ pc = "conclude"
  /\ \/ /\ Unity.CurrentTestIgnored = 1
        /\ Unity' = Cleared([Unity EXCEPT !.TestIgnores = @ + 1])
        /\ UNCHANGED output
     \/ /\ Unity.CurrentTestIgnored = 0
        /\ Unity.CurrentTestFailed = 0
        /\ output' = Append(output, [Line("pass") EXCEPT !.detail = 0])
        /\ Unity' = Cleared(Unity)
     \/ /\ Unity.CurrentTestIgnored = 0
        /\ Unity.CurrentTestFailed = 1
        /\ Unity' = Cleared([Unity EXCEPT !.TestFailures = @ + 1])
        /\ UNCHANGED output
  /\ verdicts' = Append(verdicts, verdict)
  /\ pc' = "main"
  /\ UNCHANGED <<left, AbortFrame, detail, verdict, status>>

ExitStatus_Ignores(unity) == (unity.TestFailures + unity.TestIgnores) % StatusRange

\* main returns what UnityEnd does, the number of failures as an int; the
\* process keeps its low byte.
ExitStatus(unity) == unity.TestFailures % StatusRange

\* UnityEnd: the summary, then the return from main.
End ==
  /\ pc = "main"
  /\ pc' = "ended"
  /\ status' = ExitStatus(Unity)
  /\ UNCHANGED <<left, Unity, AbortFrame, detail, output, verdict, verdicts>>

Next ==
  \/ Holds \/ Asserts \/ SetDetail \/ Fail \/ Ignore \/ Message \/ Pass
  \/ RunTest
  \/ SectionEnds
  \/ ConcludeTest
  \/ End

\* The process runs, and every section returns.
Spec == Init /\ [][Next]_vars /\ WF_vars(Next)

-----------------------------------------------------------------------------
(* Properties.                                                             *)

\* How many tests came to this.
Count(kind) == Cardinality({i \in 1..Len(verdicts) : verdicts[i] = kind})

Verdict == {"pass", "fail", "ignore"}

\* Every variable has its type; a test is never failed and ignored at once
\* (unity.c:21-23).
RunnerTypeOK ==
  /\ pc \in Sections \cup {"main", "conclude", "ended"}
  /\ left \in 0..MaxStatements
  /\ Unity \in [NumberOfTests : 0..MaxTests, TestFailures : 0..MaxTests,
                TestIgnores : 0..MaxTests, CurrentTestFailed : {0, 1},
                CurrentTestIgnored : {0, 1}]
  /\ Unity.CurrentTestFailed = 0 \/ Unity.CurrentTestIgnored = 0
  /\ AbortFrame \in {"none", "test", "tearDown"}
  /\ detail \in 0..MaxTests
  /\ output \in Seq([kind : Verdict \cup {"info"}, test : 1..MaxTests,
                     detail : 0..MaxTests])
  /\ verdict \in Verdict
  /\ verdicts \in Seq(Verdict)
  /\ status \in -1..(StatusRange - 1)

\* The counters the summary is printed from are those of the tests' verdicts:
\* whatever jumps out of where, each test counts once, as the first of its
\* statements that failed or ignored it says, and no flag reaches the next
\* test (unity.c:548-569, 2186-2204).
CountsMatchVerdicts ==
  pc \in {"main", "ended"} =>
    /\ Unity.NumberOfTests = Len(verdicts)
    /\ Unity.TestFailures = Count("fail")
    /\ Unity.TestIgnores = Count("ignore")
    /\ ~ FailedOrIgnored

\* The lines that are results.
Results == {j \in 1..Len(output) : output[j].kind # "info"}

\* Each test prints one result line, its own verdict, in the order the tests
\* ran, and never the details of another test (unity.c:540-569, 2117-2167,
\* 2191).
OneResultPerTest ==
  /\ pc \in {"main", "ended"} =>
       /\ \A t \in 1..Len(verdicts) :
            \E j \in Results : output[j].test = t /\ output[j].kind = verdicts[t]
       /\ \A j \in Results : output[j].test \in 1..Len(verdicts)
       /\ \A i, j \in Results : i < j => output[i].test < output[j].test
  /\ \A j \in 1..Len(output) : output[j].detail \in {0, output[j].test}

\* The exit status is 0 exactly when no test failed, as long as there are
\* fewer tests than exit statuses (unity.c:2256, unitTests.c:158).
StatusTellsFailure ==
  pc = "ended" /\ Len(verdicts) < StatusRange =>
    (status = 0 <=> \A i \in 1..Len(verdicts) : verdicts[i] # "fail")

\* However its tests leave their sections, the program reaches its summary:
\* a longjmp never goes back to a section that has been left
\* (unity.c:2193-2201).
Ends == <>(pc = "ended")
=============================================================================
