----------------------------- MODULE TestSuite -----------------------------
(***************************************************************************)
(* The test driver (src/bin/test_suite.rs): every test is compiled, run    *)
(* and judged against the expectation in its last line, in a thread of its *)
(* own or one after the other; a counter and a list collect the verdicts.  *)
(***************************************************************************)
EXTENDS Integers, Sequences, FiniteSets, FiniteSetsExt

CONSTANTS
  Total,        (* The number of tests; a test is its place in all_tests.  *)
  Expectations, (* The expectations a test may have.                       *)
  ExitCodes     (* The exit codes a test's program may have.               *)

Tests == 1..Total

\* get_test_expectation; what a message is does not matter, only whether the
\* text it is looked for in holds it.
AnyExpectation == [kind : {"exit"}, code : ExitCodes] \cup [kind : {"errmsg", "abortmsg"}]

ASSUME TestSuiteAssumption ==
  /\ Total \in Nat
  /\ ExitCodes \subseteq Int
  /\ Expectations \subseteq AnyExpectation

VARIABLES
  parallel,   (* The command line flag.                                    *)
  expect,     (* The expectation of each test.                             *)
  spawned,    (* How many tests have been started.                         *)
  step,       (* Where each test is in test_file and after it.             *)
  outcome,    (* What compiling and running each test gave.                *)
  success,    (* The atomic counter.                                       *)
  failures,   (* The list behind the mutex.                                *)
  holder,     (* The test whose thread holds the mutex, or 0.              *)
  result      (* "run", "ok", "failed", "panic".                           *)

vars == <<parallel, expect, spawned, step, outcome, success, failures, holder, result>>

-----------------------------------------------------------------------------
(* What may happen to a test.  holds says whether the text that comes with    *)
(* the outcome holds the expected message; an abort may print nothing.        *)

CompileOutcomes ==
  {[kind |-> "compiled"], [kind |-> "parse_error"], [kind |-> "compiler_panic"]}
    \cup [kind : {"type_error"}, holds : BOOLEAN]

RunOutcomes ==
  [kind : {"exited"}, code : ExitCodes]
    \cup [kind : {"aborted"}, output : BOOLEAN, holds : BOOLEAN]
    \cup {[kind |-> "trapped"], [kind |-> "killed"], [kind |-> "not_runnable"]}

NoOutcome == [kind |-> "none"]

\* TestExpectation::exit_code and ExitStatus::code, with "none" for None.
ExpectedCode(e) == IF e.kind = "exit" THEN {e.code} ELSE {}
StatusCode(o) == IF o.kind = "exited" THEN {o.code} ELSE {}

\* Fault: an abort is judged by its exit code, which it does not have.
RunVerdict_NoMessage(e, o) ==
  /\ o.kind \notin {"trapped", "killed", "not_runnable"}
  /\ StatusCode(o) = ExpectedCode(e)

\* The judgement of a program that was run: TRUE for Ok.
RunVerdict(e, o) ==
  /\ o.kind \notin {"trapped", "killed", "not_runnable"}
  /\ o.kind = "aborted" /\ e.kind = "abortmsg" => o.output /\ o.holds
  /\ StatusCode(o) = ExpectedCode(e)

\* The judgement of a test that did not compile.
CompileVerdict(e, o) == o.kind = "type_error" /\ e.kind = "errmsg" /\ o.holds

-----------------------------------------------------------------------------
Init ==
  /\ parallel \in BOOLEAN
  /\ expect \in [Tests -> Expectations]
  /\ spawned = 0
  /\ step = [t \in Tests |-> "waiting"]
  /\ outcome = [t \in Tests |-> NoOutcome]
  /\ success = 0
  /\ failures = <<>>
  /\ holder = 0
  /\ result = "run"

Over == {"done", "dead"}
Goto(t, s) == step' = [step EXCEPT ![t] = s]
Gives(t, o) == outcome' = [outcome EXCEPT ![t] = o]

\* The loop over all_tests: without threads, each test is over before the next,
\* and a panic ends it.
Start ==
  /\ result = "run" /\ spawned < Total
  /\ parallel \/ \A t \in 1..spawned : step[t] = "done"
  /\ spawned' = spawned + 1
  /\ Goto(spawned + 1, "compile")
  /\ UNCHANGED <<parallel, expect, outcome, success, failures, holder, result>>

Compile(t) ==
  /\ step[t] = "compile"
  /\ \E o \in CompileOutcomes :
       /\ Gives(t, o)
       /\ \/ o.kind = "compiled" /\ expect[t].kind # "errmsg" /\ Goto(t, "codegen")
          \/ o.kind = "compiled" /\ expect[t].kind = "errmsg" /\ Goto(t, "err")
          \/ o.kind = "compiler_panic" /\ Goto(t, "dead")
          \/ /\ o.kind \in {"type_error", "parse_error"}
             /\ Goto(t, IF CompileVerdict(expect[t], o) THEN "ok" ELSE "err")
  /\ UNCHANGED <<parallel, expect, spawned, success, failures, holder, result>>

CodegenAndRun(t) ==
  /\ step[t] = "codegen"
  /\ \/ \* codegen_module returns an error or panics
        /\ Gives(t, [kind |-> "not_runnable"])
        /\ Goto(t, "err") \/ Goto(t, "dead")
     \/ \E o \in RunOutcomes :
          /\ Gives(t, o)
          /\ Goto(t, IF RunVerdict(expect[t], o) THEN "ok" ELSE "err")
  /\ UNCHANGED <<parallel, expect, spawned, success, failures, holder, result>>

Succeed(t) ==
  /\ step[t] = "ok"
  /\ success' = success + 1
  /\ Goto(t, "done")
  /\ UNCHANGED <<parallel, expect, spawned, outcome, failures, holder, result>>

LockFailures(t) ==
  /\ step[t] = "err" /\ holder = 0
  /\ holder' = t
  /\ Goto(t, "push")
  /\ UNCHANGED <<parallel, expect, spawned, outcome, success, failures, result>>

\* Fault: returns early, with the guard forgotten.
PushFailure_Leaks(t) ==
  /\ step[t] = "push"
  /\ failures' = Append(failures, t)
  /\ Goto(t, "done")
  /\ UNCHANGED <<parallel, expect, spawned, outcome, success, holder, result>>

PushFailure(t) ==
  /\ step[t] = "push"
  /\ failures' = Append(failures, t)
  /\ holder' = 0
  /\ Goto(t, "done")
  /\ UNCHANGED <<parallel, expect, spawned, outcome, success, result>>

AllOver == spawned = Total /\ \A t \in Tests : step[t] \in Over
Panicked == \E t \in Tests : step[t] = "dead"

\* The scope joins every thread and panics if one of them did; without threads
\* the panic of a test is the panic of main.
Finish ==
  /\ result = "run"
  /\ AllOver \/ (~parallel /\ Panicked)
  /\ result' = IF Panicked THEN "panic" ELSE IF success # Total THEN "failed" ELSE "ok"
  /\ UNCHANGED <<parallel, expect, spawned, step, outcome, success, failures, holder>>

Finished == result # "run" /\ UNCHANGED vars

Thread(t) ==
  \/ Compile(t) \/ CodegenAndRun(t) \/ Succeed(t) \/ LockFailures(t) \/ PushFailure(t)

Next == Start \/ (\E t \in Tests : Thread(t)) \/ Finish \/ Finished

Spec == Init /\ [][Next]_vars

\* The operating system runs every thread; the programs under test end.
FairSpec == Spec /\ WF_vars(Start) /\ WF_vars(Finish) /\ \A t \in Tests : WF_vars(Thread(t))

-----------------------------------------------------------------------------
(* Properties.                                                               *)

Steps == {"waiting", "compile", "codegen", "ok", "err", "push"} \cup Over

TypeOK ==
  /\ parallel \in BOOLEAN
  /\ expect \in [Tests -> AnyExpectation]
  /\ spawned \in 0..Total
  /\ step \in [Tests -> Steps]
  /\ outcome \in [Tests -> CompileOutcomes \cup RunOutcomes \cup {NoOutcome}]
  /\ success \in 0..Total
  /\ failures \in Seq(Tests)
  /\ holder \in Tests \cup {0}
  /\ result \in {"run", "ok", "failed", "panic"}

\* What the three kinds of last line promise of a test.
Meets(e, o) ==
  CASE e.kind = "exit" -> o.kind = "exited" /\ o.code = e.code
    [] e.kind = "errmsg" -> o.kind = "type_error" /\ o.holds
    [] e.kind = "abortmsg" -> o.kind = "aborted" /\ o.output /\ o.holds

\* The suite succeeds if and only if every test did what its last line says, in
\* whatever order the threads finish.
OkMeansEveryTestMeets ==
  LET allMeet == \A t \in Tests : Meets(expect[t], outcome[t])
  IN /\ result = "ok" => allMeet
     /\ result # "run" /\ AllOver /\ allMeet => result = "ok"

\* The suite ends, even when tests panic.
SuiteEnds == <>(result # "run")
=============================================================================
