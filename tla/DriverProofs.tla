---------------------------- MODULE DriverProofs ----------------------------
(***************************************************************************)
(* The two drivers: the test driver, for every number of tests, every      *)
(* expectation and every order of the threads, and the graphical driver,   *)
(* for every channel capacity, every number of clicks and every size of a  *)
(* compiled module.                                                        *)
(***************************************************************************)
EXTENDS TestSuite, CompilerDriver, FiniteSetTheorems, SequenceTheorems, TLAPS

-----------------------------------------------------------------------------
(* The verdicts of the test driver.                                          *)

\* The tests that have been counted: their threads are over, and they did what
\* they promised.
Passed == {t \in Tests : step[t] = "done" /\ Meets(expect[t], outcome[t])}

\* Where a test is says what is known of it.
VerdictsSoFar ==
  \A t \in Tests :
    /\ step[t] = "waiting" <=> t > spawned
    /\ step[t] \in {"waiting", "compile"} => outcome[t] = NoOutcome
    /\ step[t] = "codegen" => outcome[t] = [kind |-> "compiled"] /\ expect[t].kind # "errmsg"
    /\ step[t] = "ok" => Meets(expect[t], outcome[t])
    /\ step[t] \in {"err", "push", "dead"} => ~Meets(expect[t], outcome[t])

\* The thread that pushes a failure is the one that holds the mutex.
OneThreadAtTheList ==
  /\ holder # 0 => step[holder] = "push"
  /\ \A t \in Tests : step[t] = "push" => t = holder

\* The result was right when it was computed, and nothing has changed since.
ResultIsFinal ==
  /\ result \in {"ok", "failed"} =>
       AllOver /\ ~Panicked /\ (result = "ok" <=> success = Total)
  /\ result = "panic" => Panicked

\* The inductive invariant.
IInv ==
  /\ TypeOK
  /\ VerdictsSoFar
  /\ OneThreadAtTheList
  /\ success = Cardinality(Passed)
  /\ ResultIsFinal

-----------------------------------------------------------------------------
(* The judgements are what the last lines of the tests promise.              *)

LEMMA ExpectationKinds ==
  ASSUME NEW e \in AnyExpectation
  PROVE  e.kind \in {"exit", "errmsg", "abortmsg"}
  <1>1. CASE e \in [kind : {"exit"}, code : ExitCodes]
    BY <1>1
  <1>2. CASE e \in [kind : {"errmsg", "abortmsg"}]
    BY <1>2
  <1> QED
    BY <1>1, <1>2 DEF AnyExpectation

LEMMA RunVerdictIsMeets ==
  ASSUME NEW e \in AnyExpectation, e.kind # "errmsg", NEW o \in RunOutcomes
  PROVE  RunVerdict(e, o) <=> Meets(e, o)
  <1> USE DEF RunVerdict, Meets, StatusCode, ExpectedCode
  <1>1. CASE e.kind = "exit"
    <2>1. CASE o.kind = "exited"
      BY <1>1, <2>1
    <2>2. CASE o.kind # "exited"
      BY <1>1, <2>2
    <2> QED
      BY <2>1, <2>2
  <1>2. CASE e.kind = "abortmsg"
    <2>1. CASE o.kind = "aborted"
      BY <1>2, <2>1
    <2>2. CASE o.kind # "aborted"
      <3>1. o.kind \in {"exited", "trapped", "killed", "not_runnable"}
        <4>1. CASE o \in [kind : {"exited"}, code : ExitCodes]
          BY <4>1
        <4>2. CASE o \in [kind : {"aborted"}, output : BOOLEAN, holds : BOOLEAN]
          BY <2>2, <4>2
        <4>3. CASE \/ o = [kind |-> "trapped"] \/ o = [kind |-> "killed"]
                   \/ o = [kind |-> "not_runnable"]
          BY <4>3
        <4> QED
          BY <4>1, <4>2, <4>3 DEF RunOutcomes
      <3> QED
        BY <1>2, <2>2, <3>1
    <2> QED
      BY <2>1, <2>2
  <1> QED
    BY <1>1, <1>2, ExpectationKinds

LEMMA CompileVerdictIsMeets ==
  ASSUME NEW e \in AnyExpectation, NEW o \in CompileOutcomes, o.kind # "compiled"
  PROVE  CompileVerdict(e, o) <=> Meets(e, o)
  <1>1. e.kind \in {"exit", "errmsg", "abortmsg"}
    BY ExpectationKinds
  <1>2. CASE o.kind = "type_error"
    BY <1>1, <1>2 DEF CompileVerdict, Meets
  <1>3. CASE o.kind # "type_error"
    <2>1. o.kind \in {"parse_error", "compiler_panic"}
      <3>1. CASE o \in [kind : {"type_error"}, holds : BOOLEAN]
        BY <1>3, <3>1
      <3>2. CASE \/ o = [kind |-> "compiled"] \/ o = [kind |-> "parse_error"]
                 \/ o = [kind |-> "compiler_panic"]
        BY <3>2
      <3> QED
        BY <3>1, <3>2 DEF CompileOutcomes
    <2> QED
      BY <1>1, <2>1 DEF CompileVerdict, Meets
  <1> QED
    BY <1>2, <1>3

\* A test that compiled but was not run, or panicked, does not meet an expectation.
LEMMA OthersDoNotMeet ==
  ASSUME NEW e \in AnyExpectation, NEW o,
         \/ o.kind \in {"compiler_panic", "not_runnable"}
         \/ o.kind = "compiled" /\ e.kind = "errmsg"
  PROVE  ~Meets(e, o)
  BY ExpectationKinds DEF Meets

-----------------------------------------------------------------------------
LEMMA PassedIsFinite ==
  ASSUME TypeOK
  PROVE  /\ IsFiniteSet(Passed) /\ Cardinality(Passed) \in 0..Total
         /\ Cardinality(Passed) = Total => Passed = Tests
  <1>1. Total \in Nat /\ IsFiniteSet(Tests) /\ Cardinality(Tests) = Total
    BY TestSuiteAssumption, FS_Interval DEF Tests
  <1>2. Passed \in SUBSET Tests
    BY DEF Passed
  <1> HIDE DEF Passed, Tests
  <1>3. IsFiniteSet(Passed) /\ Cardinality(Passed) <= Total
        /\ (Cardinality(Passed) = Total => Passed = Tests)
    BY <1>1, <1>2, FS_Subset
  <1> QED
    BY <1>1, <1>3, FS_CardinalityType

LEMMA InitIInv == Init => IInv
  <1> SUFFICES ASSUME Init PROVE IInv
    OBVIOUS
  <1>1. TypeOK
    BY TestSuiteAssumption DEF Init, TypeOK, Tests, Steps, Over
  <1>2. VerdictsSoFar /\ OneThreadAtTheList /\ ResultIsFinal
    BY TestSuiteAssumption DEF Init, VerdictsSoFar, OneThreadAtTheList, ResultIsFinal, Tests
  <1>3. Passed = {}
    BY DEF Init, Passed
  <1> QED
    BY <1>1, <1>2, <1>3, FS_EmptySet DEF IInv, Init

\* A step of one test that is not counted leaves the counter as it is.
LEMMA UncountedStep ==
  ASSUME TypeOK, NEW t \in Tests, success = Cardinality(Passed), UNCHANGED <<expect, success>>,
         step[t] # "done", step'[t] # "done" \/ ~Meets(expect'[t], outcome'[t]),
         \A u \in Tests : u # t => step'[u] = step[u] /\ outcome'[u] = outcome[u]
  PROVE  success' = Cardinality(Passed')
  <1>1. Passed' = Passed
    BY DEF Passed, Tests
  <1> QED
    BY <1>1

\* When the suite is over, nothing moves any more.
LEMMA NothingMoves ==
  ASSUME IInv, NEW t \in Tests, Thread(t)
  PROVE  result \notin {"ok", "failed"} /\ step[t] \notin Over
  <1>1. step[t] \notin Over
    BY DEF Thread, Compile, CodegenAndRun, Succeed, LockFailures, PushFailure, Over
  <1> QED
    BY <1>1 DEF IInv, ResultIsFinal, AllOver

LEMMA CompileStep ==
  ASSUME IInv, NEW t \in Tests, Compile(t)
  PROVE  IInv'
  <1>1. expect[t] \in AnyExpectation /\ step[t] = "compile" /\ outcome[t] = NoOutcome
    BY DEF IInv, TypeOK, Compile, VerdictsSoFar
  <1>2. PICK o \in CompileOutcomes :
          /\ outcome' = [outcome EXCEPT ![t] = o]
          /\ \/ o.kind = "compiled" /\ expect[t].kind # "errmsg" /\ Goto(t, "codegen")
             \/ o.kind = "compiled" /\ expect[t].kind = "errmsg" /\ Goto(t, "err")
             \/ o.kind = "compiler_panic" /\ Goto(t, "dead")
             \/ /\ o.kind \in {"type_error", "parse_error"}
                /\ Goto(t, IF CompileVerdict(expect[t], o) THEN "ok" ELSE "err")
    BY DEF Compile, Gives
  <1>3. UNCHANGED <<parallel, expect, spawned, success, failures, holder, result>>
    BY DEF Compile
  <1>4. PICK s \in {"codegen", "ok", "err", "dead"} :
          /\ step' = [step EXCEPT ![t] = s]
          /\ s = "codegen" => o = [kind |-> "compiled"] /\ expect[t].kind # "errmsg"
          /\ s = "ok" => Meets(expect[t], o)
          /\ s \in {"err", "dead"} => ~Meets(expect[t], o)
    <2>1. o.kind = "compiled" => o = [kind |-> "compiled"]
      <3>1. CASE o \in [kind : {"type_error"}, holds : BOOLEAN]
        BY <3>1
      <3>2. CASE o = [kind |-> "parse_error"] \/ o = [kind |-> "compiler_panic"]
        BY <3>2
      <3> QED
        BY <3>1, <3>2 DEF CompileOutcomes
    <2>2. o.kind \in {"type_error", "parse_error"} => (CompileVerdict(expect[t], o) <=> Meets(expect[t], o))
      BY <1>1, CompileVerdictIsMeets
    <2>3. o.kind = "compiler_panic" \/ (o.kind = "compiled" /\ expect[t].kind = "errmsg")
            => ~Meets(expect[t], o)
      BY <1>1, OthersDoNotMeet
    <2> QED
      BY <1>2, <2>1, <2>2, <2>3 DEF Goto
  <1>5. TypeOK'
    BY <1>2, <1>3, <1>4 DEF IInv, TypeOK, Steps, Over
  <1>6. VerdictsSoFar'
    BY <1>1, <1>2, <1>3, <1>4 DEF IInv, TypeOK, VerdictsSoFar, Tests
  <1>7. OneThreadAtTheList'
    BY <1>1, <1>3, <1>4 DEF IInv, TypeOK, OneThreadAtTheList, Tests
  <1>8. success' = Cardinality(Passed')
    BY <1>1, <1>2, <1>3, <1>4, UncountedStep DEF IInv, TypeOK
  <1>9. ResultIsFinal'
    BY <1>1, <1>3, <1>4, NothingMoves DEF Thread, IInv, TypeOK, ResultIsFinal, Panicked, Tests
  <1> QED
    BY <1>5, <1>6, <1>7, <1>8, <1>9 DEF IInv

LEMMA CodegenAndRunStep ==
  ASSUME IInv, NEW t \in Tests, CodegenAndRun(t)
  PROVE  IInv'
  <1>1. expect[t] \in AnyExpectation /\ step[t] = "codegen" /\ expect[t].kind # "errmsg"
    BY DEF IInv, TypeOK, CodegenAndRun, VerdictsSoFar
  <1>2. UNCHANGED <<parallel, expect, spawned, success, failures, holder, result>>
    BY DEF CodegenAndRun
  <1>3. PICK o \in RunOutcomes, s \in {"ok", "err", "dead"} :
          /\ outcome' = [outcome EXCEPT ![t] = o]
          /\ step' = [step EXCEPT ![t] = s]
          /\ s = "ok" <=> Meets(expect[t], o)
    <2>1. CASE /\ Gives(t, [kind |-> "not_runnable"])
               /\ Goto(t, "err") \/ Goto(t, "dead")
      <3>1. [kind |-> "not_runnable"] \in RunOutcomes
        BY DEF RunOutcomes
      <3>2. ~Meets(expect[t], [kind |-> "not_runnable"])
        BY <1>1, OthersDoNotMeet
      <3> QED
        BY <2>1, <3>1, <3>2 DEF Gives, Goto
    <2>2. CASE \E o \in RunOutcomes :
                 Gives(t, o) /\ Goto(t, IF RunVerdict(expect[t], o) THEN "ok" ELSE "err")
      <3>1. PICK o \in RunOutcomes :
              Gives(t, o) /\ Goto(t, IF RunVerdict(expect[t], o) THEN "ok" ELSE "err")
        BY <2>2
      <3>2. RunVerdict(expect[t], o) <=> Meets(expect[t], o)
        BY <1>1, RunVerdictIsMeets
      <3> QED
        BY <3>1, <3>2 DEF Gives, Goto
    <2> QED
      BY <2>1, <2>2 DEF CodegenAndRun
  <1>5. TypeOK'
    BY <1>2, <1>3 DEF IInv, TypeOK, Steps, Over
  <1>6. VerdictsSoFar'
    BY <1>1, <1>2, <1>3 DEF IInv, TypeOK, VerdictsSoFar, Tests
  <1>7. OneThreadAtTheList'
    BY <1>1, <1>2, <1>3 DEF IInv, TypeOK, OneThreadAtTheList, Tests
  <1>8. success' = Cardinality(Passed')
    BY <1>1, <1>2, <1>3, UncountedStep DEF IInv, TypeOK
  <1>9. ResultIsFinal'
    BY <1>1, <1>2, <1>3, NothingMoves DEF Thread, IInv, TypeOK, ResultIsFinal, Panicked, Tests
  <1> QED
    BY <1>5, <1>6, <1>7, <1>8, <1>9 DEF IInv

LEMMA SucceedStep ==
  ASSUME IInv, NEW t \in Tests, Succeed(t)
  PROVE  IInv'
  <1>1. /\ step[t] = "ok" /\ Meets(expect[t], outcome[t])
        /\ step' = [step EXCEPT ![t] = "done"] /\ success' = success + 1
        /\ UNCHANGED <<parallel, expect, spawned, outcome, failures, holder, result>>
    BY DEF IInv, Succeed, Goto, VerdictsSoFar
  <1>2. Passed' = Passed \cup {t} /\ t \notin Passed
    BY <1>1 DEF IInv, TypeOK, Passed, Tests
  <1>3. success' = Cardinality(Passed')
    BY <1>1, <1>2, PassedIsFinite, FS_AddElement DEF IInv
  <1>4. Passed' \in SUBSET Tests /\ success' \in 0..Total
    <2>1. Passed' \in SUBSET Tests
      BY <1>2 DEF Passed
    <2>2. Total \in Nat /\ IsFiniteSet(Tests) /\ Cardinality(Tests) = Total
      BY TestSuiteAssumption, FS_Interval DEF Tests
    <2>3. Cardinality(Passed') <= Total
      BY <2>1, <2>2, FS_Subset
    <2> QED
      BY <1>1, <1>3, <2>1, <2>2, <2>3 DEF IInv, TypeOK
  <1>5. TypeOK'
    BY <1>1, <1>4 DEF IInv, TypeOK, Steps, Over
  <1>6. VerdictsSoFar' /\ OneThreadAtTheList'
    BY <1>1 DEF IInv, TypeOK, VerdictsSoFar, OneThreadAtTheList, Tests
  <1>7. ResultIsFinal'
    BY <1>1, NothingMoves DEF Thread, IInv, TypeOK, ResultIsFinal, Panicked, Tests
  <1> QED
    BY <1>3, <1>5, <1>6, <1>7 DEF IInv

LEMMA LockFailuresStep ==
  ASSUME IInv, NEW t \in Tests, LockFailures(t)
  PROVE  IInv'
  <1>1. /\ step[t] = "err" /\ holder = 0 /\ holder' = t
        /\ step' = [step EXCEPT ![t] = "push"]
        /\ UNCHANGED <<parallel, expect, spawned, outcome, success, failures, result>>
    BY DEF LockFailures, Goto
  <1>2. TypeOK'
    BY <1>1 DEF IInv, TypeOK, Steps, Over
  <1>3. VerdictsSoFar'
    BY <1>1 DEF IInv, TypeOK, VerdictsSoFar, Tests
  <1>4. OneThreadAtTheList'
    BY <1>1, TestSuiteAssumption DEF IInv, TypeOK, OneThreadAtTheList, Tests
  <1>5. success' = Cardinality(Passed')
    BY <1>1, UncountedStep DEF IInv, TypeOK
  <1>6. ResultIsFinal'
    BY <1>1, NothingMoves DEF Thread, IInv, TypeOK, ResultIsFinal, Panicked, Tests
  <1> QED
    BY <1>2, <1>3, <1>4, <1>5, <1>6 DEF IInv

LEMMA PushFailureStep ==
  ASSUME IInv, NEW t \in Tests, PushFailure(t)
  PROVE  IInv'
  <1>1. /\ step[t] = "push" /\ ~Meets(expect[t], outcome[t]) /\ t = holder
        /\ failures' = Append(failures, t) /\ holder' = 0
        /\ step' = [step EXCEPT ![t] = "done"]
        /\ UNCHANGED <<parallel, expect, spawned, outcome, success, result>>
    BY DEF IInv, PushFailure, Goto, VerdictsSoFar, OneThreadAtTheList
  <1>2. TypeOK'
    <2>1. failures' \in Seq(Tests)
      BY <1>1 DEF IInv, TypeOK
    <2> QED
      BY <1>1, <2>1 DEF IInv, TypeOK, Steps, Over
  <1>3. VerdictsSoFar'
    BY <1>1 DEF IInv, TypeOK, VerdictsSoFar, Tests
  <1>4. OneThreadAtTheList'
    BY <1>1 DEF IInv, TypeOK, OneThreadAtTheList, Tests
  <1>5. success' = Cardinality(Passed')
    BY <1>1, UncountedStep DEF IInv, TypeOK
  <1>6. ResultIsFinal'
    BY <1>1, NothingMoves DEF Thread, IInv, TypeOK, ResultIsFinal, Panicked, Tests
  <1> QED
    BY <1>2, <1>3, <1>4, <1>5, <1>6 DEF IInv

LEMMA StartStep ==
  ASSUME IInv, Start
  PROVE  IInv'
  <1> DEFINE t == spawned + 1
  <1>1. /\ result = "run" /\ t \in Tests /\ spawned' = t
        /\ step' = [step EXCEPT ![t] = "compile"]
        /\ UNCHANGED <<parallel, expect, outcome, success, failures, holder, result>>
    BY TestSuiteAssumption DEF IInv, TypeOK, Start, Goto, Tests
  <1>2. step[t] = "waiting" /\ outcome[t] = NoOutcome
    BY <1>1 DEF IInv, TypeOK, VerdictsSoFar, Tests
  <1>3. TypeOK'
    BY <1>1 DEF IInv, TypeOK, Steps, Over, Tests
  <1>4. VerdictsSoFar'
    BY <1>1, <1>2 DEF IInv, TypeOK, VerdictsSoFar, Tests
  <1>5. OneThreadAtTheList'
    BY <1>1, <1>2 DEF IInv, TypeOK, OneThreadAtTheList, Tests
  <1>6. success' = Cardinality(Passed')
    BY <1>1, <1>2, UncountedStep DEF IInv, TypeOK
  <1>7. ResultIsFinal'
    BY <1>1 DEF IInv, ResultIsFinal
  <1> QED
    BY <1>3, <1>4, <1>5, <1>6, <1>7 DEF IInv

LEMMA FinishStep ==
  ASSUME IInv, Finish
  PROVE  IInv'
  <1>1. /\ AllOver \/ Panicked
        /\ result' = IF Panicked THEN "panic" ELSE IF success # Total THEN "failed" ELSE "ok"
        /\ UNCHANGED <<parallel, expect, spawned, step, outcome, success, failures, holder>>
    BY DEF Finish
  <1>2. TypeOK' /\ VerdictsSoFar' /\ OneThreadAtTheList'
    BY <1>1 DEF IInv, TypeOK, VerdictsSoFar, OneThreadAtTheList, Tests
  <1>3. success' = Cardinality(Passed')
    BY <1>1 DEF IInv, Passed, Tests
  <1>4. ResultIsFinal'
    BY <1>1 DEF ResultIsFinal, AllOver, Panicked, Tests
  <1> QED
    BY <1>2, <1>3, <1>4 DEF IInv

LEMMA Stutter ==
  ASSUME IInv, UNCHANGED vars
  PROVE  IInv'
  BY DEF vars, IInv, TypeOK, VerdictsSoFar, OneThreadAtTheList, Passed, ResultIsFinal,
         AllOver, Panicked, Tests

LEMMA NextIInv == IInv /\ [Next]_vars => IInv'
  <1> SUFFICES ASSUME IInv, [Next]_vars PROVE IInv'
    OBVIOUS
  <1>1. CASE Start
    BY <1>1, StartStep
  <1>2. ASSUME NEW t \in Tests, Thread(t) PROVE IInv'
    BY <1>2, CompileStep, CodegenAndRunStep, SucceedStep, LockFailuresStep, PushFailureStep DEF Thread
  <1>3. CASE Finish
    BY <1>3, FinishStep
  <1>4. CASE Finished \/ UNCHANGED vars
    BY <1>4, Stutter DEF Finished
  <1> QED
    BY <1>1, <1>2, <1>3, <1>4 DEF Next

LEMMA SpecIInv == Spec => []IInv
  BY InitIInv, NextIInv, PTL DEF Spec

\* The types of the variables; among others, no test is counted twice.
THEOREM TypeCorrect == Spec => []TypeOK
  <1>1. IInv => TypeOK
    BY DEF IInv
  <1> QED
    BY <1>1, SpecIInv, PTL

\* Two threads are never at the list of failures at once, and a thread that has
\* left it has released it.
THEOREM MutualExclusion == Spec => []OneThreadAtTheList
  <1>1. IInv => OneThreadAtTheList
    BY DEF IInv
  <1> QED
    BY <1>1, SpecIInv, PTL

\* The suite succeeds if and only if every test did what its last line says:
\* the counter is the number of those that did, whatever the threads interleave.
THEOREM VerdictCorrect == Spec => []OkMeansEveryTestMeets
  <1>1. ASSUME IInv PROVE OkMeansEveryTestMeets
    <2>1. ASSUME result = "ok", NEW t \in Tests
          PROVE  Meets(expect[t], outcome[t])
      <3>1. Passed = Tests
        BY <1>1, <2>1, PassedIsFinite DEF IInv, ResultIsFinal
      <3> QED
        BY <3>1 DEF Passed
    <2>2. ASSUME result # "run", AllOver, \A t \in Tests : Meets(expect[t], outcome[t])
          PROVE  result = "ok"
      <3>1. ~Panicked
        BY <1>1, <2>2 DEF IInv, VerdictsSoFar, Panicked
      <3>2. Passed = Tests
        BY <2>2, <3>1 DEF Passed, AllOver, Panicked, Over
      <3>3. success = Total
        BY <1>1, <3>2, TestSuiteAssumption, FS_Interval DEF IInv, Tests
      <3> QED
        BY <1>1, <2>2, <3>1, <3>3 DEF IInv, TypeOK, ResultIsFinal
    <2> QED
      BY <2>1, <2>2 DEF OkMeansEveryTestMeets
  <1> QED
    BY <1>1, SpecIInv, PTL

-----------------------------------------------------------------------------
(* The threads of the graphical driver.                                      *)

\* The inductive invariant: which thread is inside which critical region, and
\* how the versions of module and executable move relative to each other.
DriverIInv ==
  /\ DriverTypeOK
  /\ GuardsInScope
  /\ VersionsInStep
  /\ ChildAtMostOneBehind

LEMMA DriverInitIInv == DriverInit => DriverIInv
  BY DriverAssumption
  DEF DriverInit, DriverIInv, DriverTypeOK, GuardsInScope, VersionsInStep, ChildAtMostOneBehind,
      Threads, GuiStates, CompileStates, RunStates, None

LEMMA GuiThreadStep == DriverIInv /\ GuiNext => DriverIInv'
  <1> SUFFICES ASSUME DriverIInv, GuiNext PROVE DriverIInv'
    OBVIOUS
  <1> USE DriverAssumption
      DEF DriverIInv, DriverTypeOK, GuardsInScope, VersionsInStep, ChildAtMostOneBehind, locked, disk,
          Threads, GuiStates, CompileStates, RunStates, None, AcquireRead, ReleaseRead
  <1>1. CASE BeginFrame
    BY <1>1 DEF BeginFrame
  <1>2. CASE SendCompile
    BY <1>2 DEF SendCompile
  <1>3. CASE SendRun
    BY <1>3 DEF SendRun
  <1>4. CASE TryRead
    BY <1>4 DEF TryRead
  <1>5. CASE Render
    BY <1>5 DEF Render
  <1>6. CASE CloseWindow
    BY <1>6 DEF CloseWindow
  <1> QED
    BY <1>1, <1>2, <1>3, <1>4, <1>5, <1>6 DEF GuiNext

LEMMA CompileThreadStep == DriverIInv /\ CompileNext => DriverIInv'
  <1> SUFFICES ASSUME DriverIInv, CompileNext PROVE DriverIInv'
    OBVIOUS
  <1> USE DriverAssumption
      DEF DriverIInv, DriverTypeOK, GuardsInScope, VersionsInStep, ChildAtMostOneBehind, locked, disk,
          Threads, GuiStates, CompileStates, RunStates, None, AcquireRead, ReleaseRead
  <1>1. CASE CompileRecv
    BY <1>1 DEF CompileRecv
  <1>2. CASE CompileModule
    BY <1>2 DEF CompileModule
  <1>3. CASE Publish
    \* No guard is held, so no child is running whose version could fall behind.
    <2>1. run # "child"
      BY <1>3 DEF Publish, CanWrite
    <2> QED
      BY <1>3, <2>1 DEF Publish, CanWrite
  <1>4. CASE Relock
    BY <1>4 DEF Relock
  <1>5. CASE Codegen
    <2>1. CASE compile' = "link" /\ UNCHANGED guards
      BY <1>5, <2>1 DEF Codegen
    <2>2. CASE compile' = "dead" /\ ReleaseRead("compile")
      BY <1>5, <2>2 DEF Codegen
    <2> QED
      BY <1>5, <2>1, <2>2 DEF Codegen
  <1>6. CASE Link
    <2>1. CASE exe' = module /\ onDisk' = TRUE /\ compile' = "recv"
      BY <1>6, <2>1 DEF Link
    <2>2. CASE UNCHANGED disk /\ compile' = "dead"
      BY <1>6, <2>2 DEF Link
    <2> QED
      BY <1>6, <2>1, <2>2 DEF Link
  <1> QED
    BY <1>1, <1>2, <1>3, <1>4, <1>5, <1>6 DEF CompileNext

LEMMA RunThreadStep == DriverIInv /\ RunNext => DriverIInv'
  <1> SUFFICES ASSUME DriverIInv, RunNext PROVE DriverIInv'
    OBVIOUS
  <1> USE DriverAssumption
      DEF DriverIInv, DriverTypeOK, GuardsInScope, VersionsInStep, ChildAtMostOneBehind, locked, disk,
          Threads, GuiStates, CompileStates, RunStates, None, AcquireRead, ReleaseRead
  <1>1. CASE RunRecv
    BY <1>1 DEF RunRecv
  <1>2. CASE RunLock
    BY <1>2 DEF RunLock
  <1>3. CASE RunStart
    \* The executable it starts is at most one compilation behind the module.
    <2>1. exe <= module /\ module <= exe + 1
      OBVIOUS
    <2> QED
      BY <1>3, <2>1 DEF RunStart
  <1>4. CASE ChildExit
    BY <1>4 DEF ChildExit
  <1> QED
    BY <1>1, <1>2, <1>3, <1>4 DEF RunNext

\* The inductive invariant holds in every reachable state.
THEOREM DriverIInvHolds == DriverSpec => []DriverIInv
  <1>1. DriverIInv /\ [DriverNext]_driverVars => DriverIInv'
    <2> SUFFICES ASSUME DriverIInv, [DriverNext]_driverVars PROVE DriverIInv'
      OBVIOUS
    <2>1. CASE UNCHANGED driverVars
      BY <2>1 DEF DriverIInv, DriverTypeOK, GuardsInScope, VersionsInStep, ChildAtMostOneBehind,
                  driverVars, locked, disk
    <2>2. CASE Exited
      BY <2>1, <2>2 DEF Exited
    <2> QED
      BY <2>1, <2>2, GuiThreadStep, CompileThreadStep, RunThreadStep DEF DriverNext
  <1> QED
    BY <1>1, DriverInitIInv, PTL DEF DriverSpec

\* Every variable of the driver keeps its type, whatever the constants.
THEOREM DriverTypeCorrect == DriverSpec => []DriverTypeOK
  BY DriverIInvHolds, PTL DEF DriverIInv

\* A program started from the GUI is the published module's or its predecessor's.
THEOREM ChildVersion == DriverSpec => []ChildAtMostOneBehind
  BY DriverIInvHolds, PTL DEF DriverIInv

\* Between two requests the executable on disk is the published module's.
THEOREM ExecutableCurrent == DriverSpec => []ExecutableIsCurrent
  <1>1. DriverIInv => ExecutableIsCurrent
    BY DEF DriverIInv, VersionsInStep, ExecutableIsCurrent
  <1> QED
    BY <1>1, DriverIInvHolds, PTL
=============================================================================
