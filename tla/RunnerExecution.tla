--------------------------- MODULE RunnerExecution ---------------------------
(***************************************************************************)
(* One execution of a claimed attempt: the worker's lookup and try/except, *)
(* the stub and solo_wargame runners, the external command, and the write  *)
(* of the result.  RunSystem takes from here only which outcomes there can *)
(* be; this module shows how each of them comes about.                     *)
(***************************************************************************)
EXTENDS Naturals, Sequences

CONSTANT ReturnCode   \* exit codes of the external command

ASSUME ReturnCodeAssumption == ReturnCode \subseteq Nat

VARIABLES pc,          \* where process_attempt is
          runner,      \* the registry entry of the runner type, or "missing"
          completed,   \* what the command left behind
          raised,      \* the exception on its way to the worker
          result,      \* the RunnerResult
          saved        \* the terminal write was committed

vars == <<pc, runner, completed, raised, result, saved>>

\* A JSON object on stdout.  Fields that are validated alike are one field:
\* contract is schema_version and operation, body is metrics of a success and
\* error (with its message) of a failure.  finite: no NaN or Infinity in it.
Payload == [contract  : BOOLEAN,
            status    : {"succeeded", "failed", "other"},
            warnings  : {"absent", "list", "malformed"},
            artifacts : {"absent", "list", "malformed"},
            execution : {"absent", "object", "malformed"},
            body      : {"object", "malformed"},
            finite    : BOOLEAN]

NoPayload == [contract |-> FALSE, status |-> "other", warnings |-> "absent",
              artifacts |-> "absent", execution |-> "absent",
              body |-> "malformed", finite |-> TRUE]

Completed == [stdout     : {"empty", "garbage", "not an object", "object"},
              payload    : Payload,
              returncode : ReturnCode,
              stderr     : BOOLEAN]

\* status and summary as RunRows!Outcome has them; error is the kind inside
\* result_error, which is there exactly when failure_message is.
ErrorKind == {"worker_runner_missing", "runner_execution_error",
              "runner_configuration_error", "artifact_setup_error",
              "subprocess_error", "result_parse_error",
              "result_validation_error", "unhandled_worker_error", "reported"}

NoError == "none"

Warning == {"upstream", "exit code", "stderr"}

Result == [status    : {"succeeded", "failed"},
           summary   : BOOLEAN,
           execution : BOOLEAN,
           artifacts : BOOLEAN,
           warnings  : SUBSET Warning,
           error     : ErrorKind \cup {NoError},
           finite    : BOOLEAN]

NoResult == [status |-> "succeeded", summary |-> FALSE, execution |-> FALSE,
             artifacts |-> FALSE, warnings |-> {}, error |-> NoError, finite |-> TRUE]

TypeOK == /\ pc \in {"claimed", "configured", "prepared", "completed", "parsed",
                     "raised", "result", "ended"}
          /\ runner \in {"stub", "solo_wargame", "missing"}
          /\ completed.payload \in Payload
          /\ raised \in ErrorKind \cup {NoError}
          /\ result \in Result
          /\ saved \in BOOLEAN

Init == /\ pc = "claimed"
        /\ runner \in {"stub", "solo_wargame", "missing"}
        /\ completed = [stdout |-> "empty", payload |-> NoPayload,
                        returncode |-> 0, stderr |-> FALSE]
        /\ raised = NoError
        /\ result = NoResult
        /\ saved = FALSE

-----------------------------------------------------------------------------
GoTo(next) == pc' = next /\ UNCHANGED <<runner, completed, raised, result, saved>>

\* RunnerExecutionError carries the kind of its result_error.
Raise(kind) == /\ pc' = "raised"
               /\ raised' = kind
               /\ UNCHANGED <<runner, completed, result, saved>>

\* Any other exception that leaves execute is "unhandled_worker_error" by the
\* time it is a result.  It may come out of every step: RQ raises the job timeout
\* from a signal handler, between any two instructions, also when the command has
\* answered already; and each step has exceptions of its own.
RaiseUnexpected == Raise("unhandled_worker_error")

Return(r) == /\ pc' = "result"
             /\ result' = r
             /\ UNCHANGED <<runner, completed, raised, saved>>

Failure(kind) == [NoResult EXCEPT !.status = "failed", !.error = kind]

RunnerMissing == /\ pc = "claimed"
                 /\ runner = "missing"
                 /\ Return(Failure("worker_runner_missing"))

\* The stub fails on request, with an error that has no result_error of its
\* own, and echoes its config otherwise.
StubExecutes == /\ pc = "claimed"
                /\ runner = "stub"
                /\ \/ Raise("runner_execution_error")
                   \/ RaiseUnexpected
                   \/ Return([NoResult EXCEPT !.summary = TRUE])

\* No repo path or an empty command is an error of the runner; shlex.split
\* raises ValueError on an unbalanced quote.
CheckConfiguration == /\ pc = "claimed"
                      /\ runner = "solo_wargame"
                      /\ \/ GoTo("configured")
                         \/ Raise("runner_configuration_error")
                         \/ RaiseUnexpected

\* mkdir and write_text, either of which may raise OSError; the request needs
\* keys of the config (KeyError) and has to be encoded (UnicodeEncodeError).
PrepareArtifacts == /\ pc = "configured"
                    /\ \/ GoTo("prepared")
                       \/ Raise("artifact_setup_error")
                       \/ RaiseUnexpected

\* subprocess.run: OSError when it cannot start; UnicodeDecodeError when the
\* output is no text; mostly it is here that the job timeout arrives.
InvokeCommand ==
  /\ pc = "prepared"
  /\ \/ Raise("subprocess_error")
     \/ RaiseUnexpected
     \/ \E text \in {"empty", "garbage", "not an object", "object"},
           rc \in ReturnCode, noisy \in BOOLEAN :
          \E p \in IF text = "object" THEN Payload ELSE {NoPayload} :
            /\ completed' = [stdout |-> text, payload |-> p,
                             returncode |-> rc, stderr |-> noisy]
            /\ pc' = "completed"
            /\ UNCHANGED <<runner, raised, result, saved>>

\* json.loads raises RecursionError on deep nesting and a plain ValueError on an
\* integer of thousands of digits: neither is a JSONDecodeError.
ParseStdout == /\ pc = "completed"
               /\ \/ /\ completed.stdout \in {"empty", "garbage"}
                     /\ Raise("result_parse_error")
                  \/ /\ completed.stdout \notin {"empty", "garbage"}
                     /\ GoTo("parsed")
                  \/ RaiseUnexpected

\* Every check of runner_result_from_episode_batch_payload ends in the same
\* kind of error; body is looked at only once the status is known.
Valid(c) == /\ c.stdout = "object"
            /\ c.payload.contract
            /\ c.payload.status # "other"
            /\ c.payload.warnings # "malformed"
            /\ c.payload.artifacts # "malformed"
            /\ c.payload.execution # "malformed"
            /\ c.payload.body = "object"

\* _build_exit_code_warning
ExitCodeDisagrees(c) ==
  IF c.payload.status = "succeeded" THEN c.returncode # 0
                                    ELSE c.returncode \notin {0, 1}

WarningsOf(c) ==
  {x \in Warning : \/ x = "upstream"  /\ c.payload.warnings = "list"
                   \/ x = "exit code" /\ ExitCodeDisagrees(c)
                   \/ x = "stderr"    /\ c.stderr}

\* Broken: a nonzero exit code overrules the payload.
ResultTrustsExitCode(c) ==
  [status    |-> IF c.returncode = 0 THEN c.payload.status ELSE "failed",
   summary   |-> TRUE,
   execution |-> c.payload.execution = "object",
   artifacts |-> c.payload.artifacts = "list",
   warnings  |-> WarningsOf(c),
   error     |-> IF c.payload.status = "failed" THEN "reported" ELSE NoError,
   finite    |-> c.payload.finite]

ResultOf(c) ==
  [status    |-> c.payload.status,
   summary   |-> TRUE,
   execution |-> c.payload.execution = "object",
   artifacts |-> c.payload.artifacts = "list",
   warnings  |-> WarningsOf(c),
   error     |-> IF c.payload.status = "failed" THEN "reported" ELSE NoError,
   finite    |-> c.payload.finite]

ValidatePayload == /\ pc = "parsed"
                   /\ \/ Valid(completed) /\ Return(ResultOf(completed))
                      \/ ~Valid(completed) /\ Raise("result_validation_error")
                      \/ RaiseUnexpected

\* Broken: the handler builds a result with the default status.
CatchWithDefaultStatus == /\ pc = "raised"
                          /\ Return([NoResult EXCEPT !.error = raised])

\* Broken: only RunnerExecutionError is caught.
CatchExpectedOnly == /\ pc = "raised"
                     /\ raised # "unhandled_worker_error"
                     /\ Return(Failure(raised))

\* Broken: the message of the exception is stored where its kind belongs.
CatchWithoutKind == /\ pc = "raised"
                    /\ Return(Failure("message"))

\* The two except clauses of process_attempt.
CatchException == /\ pc = "raised"
                  /\ Return(Failure(raised))

\* PostgreSQL's json type takes no NaN or Infinity, which json.loads accepts
\* and json.dumps writes: the UPDATE raises and process_attempt with it.  finite
\* speaks of the whole payload, so a NaN in a field that is not stored counts too.
SaveResult == /\ pc = "result"
              /\ saved' = result.finite
              /\ pc' = "ended"
              /\ UNCHANGED <<runner, completed, raised, result>>

Next == \/ RunnerMissing \/ StubExecutes \/ CheckConfiguration \/ PrepareArtifacts
        \/ InvokeCommand \/ ParseStdout \/ ValidatePayload \/ CatchException
        \/ SaveResult

Spec == Init /\ [][Next]_vars

\* Nothing in process_attempt waits but the command, and the job timeout of
\* the queue ends that one.
FairSpec == Spec /\ WF_vars(Next)

-----------------------------------------------------------------------------
Rows == INSTANCE RunRows WITH Run <- {}, Attempt <- {}, None <- "none"

HasResult == pc \in {"result", "ended"}

\* Whatever goes wrong on the way, the worker persists one of the outcomes
\* RunSystem counts on: a success with a summary and no error, or a failure
\* with an error, so that a failed row is never without an explanation.
OutcomeAllowed ==
  HasResult =>
    /\ [status |-> result.status, summary |-> result.summary] \in Rows!Outcome
    /\ result.status = "failed" <=> result.error # NoError

\* "treats the upstream stdout JSON payload as the source of truth": what the
\* command printed decides the status whatever its exit code and its stderr; an
\* exit code that says otherwise is never dropped without a warning; a payload
\* that was rejected leaves nothing behind but the error, and so does a valid one
\* that an unexpected exception got ahead of, which is the only way to lose it.
PayloadDecides ==
  HasResult /\ runner = "solo_wargame" =>
    IF Valid(completed) /\ result.error # "unhandled_worker_error"
      THEN /\ result.status = completed.payload.status
           /\ (result.status = "succeeded" /\ completed.returncode # 0)
                => "exit code" \in result.warnings
      ELSE /\ result.status = "failed"
           /\ ~result.summary /\ ~result.execution /\ ~result.artifacts
           /\ result.warnings = {}

\* Every execution ends, with its exceptions turned into results.
ExecutionEnds == <>(pc = "ended")

\* "persisting terminal results from the runner contract": when the worker is
\* done with an attempt, its result is recorded.
ResultRecorded == pc = "ended" => saved
=============================================================================
