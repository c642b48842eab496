------------------------ MODULE RunnerExecutionProofs ------------------------
(* Theorems about RunnerExecution, for every set of exit codes. *)
EXTENDS RunnerExecution, TLAPS

\* A valid payload of the command is there.
Printed == runner = "solo_wargame" /\ Valid(completed)

\* Until the command has ended nothing was printed.
NothingPrinted ==
  pc \in {"claimed", "configured", "prepared"} => completed.stdout = "empty"

\* An exception on top of a valid payload is one that nobody expected.
RaisedExplained ==
  pc = "raised" => raised # NoError /\ (Printed => raised = "unhandled_worker_error")

ExecInv == /\ TypeOK
           /\ NothingPrinted
           /\ RaisedExplained
           /\ OutcomeAllowed
           /\ PayloadDecides

\* What a valid payload is turned into is a result, and its status that of the
\* payload.
LEMMA ResultOfValid ==
  ASSUME TypeOK, Valid(completed)
  PROVE  /\ ResultOf(completed) \in Result
         /\ ResultOf(completed).status = completed.payload.status
         /\ ResultOf(completed).summary
         /\ ResultOf(completed).status = "failed" <=> ResultOf(completed).error # NoError
         /\ (ResultOf(completed).status = "succeeded" /\ completed.returncode # 0)
              => "exit code" \in ResultOf(completed).warnings
<1>1. completed.payload.status \in {"succeeded", "failed"}
  BY DEF TypeOK, Payload, Valid
<1>2. completed.payload.finite \in BOOLEAN
  BY DEF TypeOK, Payload
<1>3. WarningsOf(completed) \in SUBSET Warning
  BY DEF WarningsOf
<1>4. ResultOf(completed) \in Result
  BY <1>1, <1>2, <1>3 DEF ResultOf, Result, ErrorKind
<1>5. (completed.payload.status = "succeeded" /\ completed.returncode # 0)
        => "exit code" \in WarningsOf(completed)
  BY DEF WarningsOf, ExitCodeDisagrees, Warning
<1> QED BY <1>1, <1>4, <1>5 DEF ResultOf, NoError

LEMMA FailureResult ==
  ASSUME NEW kind \in ErrorKind
  PROVE  /\ Failure(kind) \in Result
         /\ Failure(kind).status = "failed" /\ Failure(kind).error # NoError
         /\ ~Failure(kind).summary /\ ~Failure(kind).execution
         /\ ~Failure(kind).artifacts /\ Failure(kind).warnings = {}
BY DEF Failure, NoResult, Result, ErrorKind, NoError, Warning

LEMMA InitExec == Init => ExecInv
<1> SUFFICES ASSUME Init PROVE ExecInv
  OBVIOUS
<1>1. NoPayload \in Payload /\ NoResult \in Result
  BY DEF NoPayload, Payload, NoResult, Result, Warning
<1> QED
  BY <1>1 DEF Init, ExecInv, TypeOK, NothingPrinted, RaisedExplained, Printed, OutcomeAllowed,
     PayloadDecides, HasResult

\* Raising leaves no result to say anything about.
LEMMA RaiseStep ==
  ASSUME ExecInv, NEW kind \in ErrorKind, Raise(kind),
         Printed => kind = "unhandled_worker_error"
  PROVE  ExecInv'
BY DEF ExecInv, Raise, TypeOK, NothingPrinted, RaisedExplained, Printed, OutcomeAllowed,
   PayloadDecides, HasResult, ErrorKind, NoError, Valid

\* An exception that nobody expected may come whatever was printed.
LEMMA UnexpectedStep ==
  ASSUME ExecInv, RaiseUnexpected
  PROVE  ExecInv'
BY RaiseStep DEF RaiseUnexpected, ErrorKind

LEMMA GoToStep ==
  ASSUME ExecInv, NEW next \in {"configured", "prepared", "parsed"}, GoTo(next),
         next # "parsed" => completed.stdout = "empty"
  PROVE  ExecInv'
BY DEF ExecInv, GoTo, TypeOK, NothingPrinted, RaisedExplained, Printed, OutcomeAllowed,
   PayloadDecides, HasResult

\* A failed result of an execution with nothing valid on stdout.
LEMMA FailureStep ==
  ASSUME ExecInv, NEW kind \in ErrorKind, Return(Failure(kind)),
         Printed => kind = "unhandled_worker_error"
  PROVE  ExecInv'
<1>1. result' \in Result /\ result'.status = "failed" /\ result'.error # NoError
      /\ ~result'.summary /\ ~result'.execution /\ ~result'.artifacts
      /\ result'.warnings = {}
  BY FailureResult DEF Return
<1>2. TypeOK'
  BY <1>1 DEF ExecInv, TypeOK, Return
<1>3. NothingPrinted' /\ RaisedExplained'
  BY DEF Return, NothingPrinted, RaisedExplained, Printed
<1>4. result'.summary = FALSE
  BY <1>1 DEF Result
<1>5. OutcomeAllowed'
  BY <1>1, <1>4 DEF OutcomeAllowed, Rows!Outcome, Rows!FailedBare, NoError
<1>6. PayloadDecides'
  <2>1. completed' = completed /\ runner' = runner /\ result' = Failure(kind)
    BY DEF Return
  <2>2. result'.error = kind
    BY <2>1 DEF Failure, NoResult
  <2> QED BY <1>1, <2>1, <2>2 DEF Printed, PayloadDecides, Valid
<1> QED BY <1>2, <1>3, <1>5, <1>6 DEF ExecInv

LEMMA StubStep ==
  ASSUME ExecInv, StubExecutes
  PROVE  ExecInv'
<1>0. runner = "stub"
  BY DEF StubExecutes
<1>1. CASE Raise("runner_execution_error") \/ RaiseUnexpected
  BY <1>0, <1>1, RaiseStep, UnexpectedStep DEF ErrorKind, Printed
<1>2. CASE Return([NoResult EXCEPT !.summary = TRUE])
  <2>1. result' \in Result /\ result'.status = "succeeded" /\ result'.summary = TRUE
        /\ result'.error = NoError
    BY <1>2 DEF Return, NoResult, Result, Warning
  <2>2. TypeOK'
    BY <1>2, <2>1 DEF ExecInv, TypeOK, Return
  <2>3. OutcomeAllowed'
    BY <2>1 DEF OutcomeAllowed, Rows!Outcome, Rows!Succeeded
  <2> QED
    BY <1>0, <1>2, <2>2, <2>3 DEF ExecInv, Return, NothingPrinted, RaisedExplained, PayloadDecides
<1> QED BY <1>1, <1>2 DEF StubExecutes

LEMMA InvokeStep ==
  ASSUME ExecInv, InvokeCommand
  PROVE  ExecInv'
<1>0. ~Valid(completed)
  BY DEF InvokeCommand, ExecInv, NothingPrinted, Valid
<1>1. CASE Raise("subprocess_error") \/ RaiseUnexpected
  BY <1>0, <1>1, RaiseStep, UnexpectedStep DEF ErrorKind, Printed
<1>2. ASSUME NEW text \in {"empty", "garbage", "not an object", "object"},
             NEW rc \in ReturnCode, NEW noisy \in BOOLEAN,
             NEW p \in IF text = "object" THEN Payload ELSE {NoPayload},
             completed' = [stdout |-> text, payload |-> p, returncode |-> rc, stderr |-> noisy],
             pc' = "completed",
             UNCHANGED <<runner, raised, result, saved>>
      PROVE  ExecInv'
  <2>0. NoPayload \in Payload
    BY DEF NoPayload, Payload
  <2>1. completed'.payload \in Payload
    <3>1. p \in Payload
      BY <1>2, <2>0
    <3>2. completed'.payload = p
      BY <1>2
    <3> QED BY <3>1, <3>2
  <2> QED
    BY <1>2, <2>1 DEF ExecInv, TypeOK, NothingPrinted, RaisedExplained, Printed, OutcomeAllowed,
       PayloadDecides, HasResult
<1> QED BY <1>1, <1>2 DEF InvokeCommand

LEMMA ValidateStep ==
  ASSUME ExecInv, ValidatePayload
  PROVE  ExecInv'
<1>1. CASE ~Valid(completed) /\ Raise("result_validation_error")
  BY <1>1, RaiseStep DEF ErrorKind, Printed
<1>2. CASE Valid(completed) /\ Return(ResultOf(completed))
  <2>1. Return(ResultOf(completed))
    BY <1>2
  <2>2. /\ result' \in Result
        /\ result'.status = completed.payload.status
        /\ result'.summary
        /\ result'.status = "failed" <=> result'.error # NoError
        /\ (result'.status = "succeeded" /\ completed.returncode # 0)
             => "exit code" \in result'.warnings
    BY <1>2, <2>1, ResultOfValid DEF ExecInv, Return
  <2>3. TypeOK'
    BY <2>1, <2>2 DEF ExecInv, TypeOK, Return
  <2>4. result'.summary = TRUE /\ result'.status \in {"succeeded", "failed"}
    BY <2>2 DEF Result
  <2>5. OutcomeAllowed'
    BY <2>2, <2>4 DEF OutcomeAllowed, Rows!Outcome, Rows!Succeeded, Rows!FailedWithSummary
  <2>6. completed' = completed
    BY <2>1 DEF Return
  <2>7. PayloadDecides'
    <3>1. result'.error # "unhandled_worker_error"
      BY <2>1 DEF Return, ResultOf, NoError
    <3> QED BY <1>2, <2>2, <2>6, <3>1 DEF PayloadDecides, Valid
  <2> QED BY <2>1, <2>3, <2>5, <2>7 DEF ExecInv, Return, NothingPrinted, RaisedExplained
<1>3. CASE RaiseUnexpected
  BY <1>3, UnexpectedStep
<1> QED BY <1>1, <1>2, <1>3 DEF ValidatePayload

LEMMA NextExec == ExecInv /\ [Next]_vars => ExecInv'
<1> SUFFICES ASSUME ExecInv, [Next]_vars PROVE ExecInv'
  OBVIOUS
<1>1. CASE RunnerMissing
  <2>1. Return(Failure("worker_runner_missing")) /\ runner # "solo_wargame"
    BY <1>1 DEF RunnerMissing
  <2> QED BY <2>1, FailureStep DEF ErrorKind, Printed
<1>2. CASE StubExecutes
  BY <1>2, StubStep
<1>3. CASE CheckConfiguration
  <2>1. completed.stdout = "empty" /\ ~Valid(completed)
    BY <1>3 DEF CheckConfiguration, ExecInv, NothingPrinted, Valid
  <2> QED BY <1>3, <2>1, RaiseStep, UnexpectedStep, GoToStep
       DEF CheckConfiguration, ErrorKind, Printed
<1>4. CASE PrepareArtifacts
  <2>1. completed.stdout = "empty" /\ ~Valid(completed)
    BY <1>4 DEF PrepareArtifacts, ExecInv, NothingPrinted, Valid
  <2> QED BY <1>4, <2>1, RaiseStep, UnexpectedStep, GoToStep
       DEF PrepareArtifacts, ErrorKind, Printed
<1>5. CASE InvokeCommand
  BY <1>5, InvokeStep
<1>6. CASE ParseStdout
  <2>1. CASE completed.stdout \in {"empty", "garbage"} /\ Raise("result_parse_error")
    <3>1. ~Valid(completed)
      BY <2>1 DEF Valid
    <3> QED BY <2>1, <3>1, RaiseStep DEF ErrorKind, Printed
  <2>2. CASE GoTo("parsed")
    BY <2>2, GoToStep
  <2>3. CASE RaiseUnexpected
    BY <2>3, UnexpectedStep
  <2> QED BY <1>6, <2>1, <2>2, <2>3 DEF ParseStdout
<1>7. CASE ValidatePayload
  BY <1>7, ValidateStep
<1>8. CASE CatchException
  <2>1. raised \in ErrorKind /\ (Printed => raised = "unhandled_worker_error")
    BY <1>8 DEF CatchException, ExecInv, TypeOK, RaisedExplained
  <2> QED BY <1>8, <2>1, FailureStep DEF CatchException
<1>9. CASE SaveResult
  <2>1. saved' \in BOOLEAN
    BY <1>9 DEF SaveResult, ExecInv, TypeOK, Result
  <2> QED
    BY <1>9, <2>1 DEF SaveResult, ExecInv, TypeOK, NothingPrinted, RaisedExplained,
       OutcomeAllowed, PayloadDecides, HasResult, Valid
<1>10. CASE UNCHANGED vars
  BY <1>10 DEF vars, ExecInv, TypeOK, NothingPrinted, RaisedExplained, Printed, OutcomeAllowed,
     PayloadDecides, HasResult, Valid
<1> QED
  BY <1>1, <1>2, <1>3, <1>4, <1>5, <1>6, <1>7, <1>8, <1>9, <1>10 DEF Next

\* The invariant of an execution, whatever runner, configuration and command do.
THEOREM ExecutionSound == Spec => []ExecInv
BY InitExec, NextExec, PTL DEF Spec

\* Variables keep their types: every error that reaches a result is a known kind.
THEOREM ExecutionTypes == Spec => []TypeOK
<1>1. ExecInv => TypeOK
  BY DEF ExecInv
<1> QED BY <1>1, ExecutionSound, PTL

\* Whatever process_attempt goes through, what it persists is a success with a
\* summary and no error, or a failure with one: the outcomes RunSystem assumes.
THEOREM OutcomeCorrect == Spec => []OutcomeAllowed
<1>1. ExecInv => OutcomeAllowed
  BY DEF ExecInv
<1> QED BY <1>1, ExecutionSound, PTL

\* Unless an unexpected exception ends the execution, a valid payload decides the
\* status for every exit code, and a success with a nonzero exit code is never
\* without a warning; of a rejected payload, and of one that such an exception got
\* ahead of, only the error is left.
THEOREM PayloadCorrect == Spec => []PayloadDecides
<1>1. ExecInv => PayloadDecides
  BY DEF ExecInv
<1> QED BY <1>1, ExecutionSound, PTL
=============================================================================
