------------------------------- MODULE RunRows -------------------------------
(***************************************************************************)
(* The rows of the tables runs and run_attempts, and what each UPDATE of   *)
(* the program does to one row.  Pure operators: no state.                 *)
(*                                                                         *)
(* A nullable column holds None or the attempt whose life produced the     *)
(* value.  Columns that the program always writes together are one column  *)
(* here:                                                                   *)
(*   summary   summary, result_metrics, result_execution                   *)
(*   error     failure_message, result_error                               *)
(*   finished  finished_at, result_artifacts, result_warnings              *)
(* summary stands for summary alone where the three are not NULL together: *)
(* a failed payload has no metrics, the stub neither metrics nor execution.*)
(***************************************************************************)
EXTENDS Naturals

CONSTANTS Run, Attempt, None

ASSUME NoneAssumption == None \notin Run \cup Attempt

Terminal == {"succeeded", "failed"}
Status   == {"queued", "running"} \cup Terminal
Column   == Attempt \cup {None}

\* "absent": no row with this id has been committed yet.
RunRow == [status   : Status \cup {"absent"},
           current  : Column,
           summary  : Column,
           error    : Column,
           started  : Column,
           finished : Column]

AttemptRow == [status   : Status \cup {"absent"},
               run      : Run \cup {None},
               number   : Nat,
               summary  : Column,
               error    : Column,
               started  : Column,
               finished : Column]

NoRun == [status |-> "absent", current |-> None, summary |-> None,
          error |-> None, started |-> None, finished |-> None]

NoAttempt == [status |-> "absent", run |-> None, number |-> 0, summary |-> None,
              error |-> None, started |-> None, finished |-> None]

(***************************************************************************)
(* INSERTs                                                                 *)
(***************************************************************************)
NewRun(a) == [NoRun EXCEPT !.status = "queued", !.current = a]

NewAttempt(r, n) ==
  [NoAttempt EXCEPT !.status = "queued", !.run = r, !.number = n]

(***************************************************************************)
(* What a runner hands to the worker.  A success always has a summary; a   *)
(* failure always has an error, and a summary only when the runner got far *)
(* enough to build one.                                                    *)
(***************************************************************************)
Succeeded           == [status |-> "succeeded", summary |-> TRUE]
FailedWithSummary   == [status |-> "failed", summary |-> TRUE]
FailedBare          == [status |-> "failed", summary |-> FALSE]
Outcome             == {Succeeded, FailedWithSummary, FailedBare}

(***************************************************************************)
(* UPDATEs.  Each applies to a row of either table, except RetriedRun.     *)
(***************************************************************************)
\* Broken: the status is what RQ calls a job that is being executed.
ClaimedAsRqSays(row, a) == [row EXCEPT !.status = "started", !.started = a]

\* The claim: UPDATE ... SET status = 'running', started_at = now.
Claimed(row, a) == [row EXCEPT !.status = "running", !.started = a]

\* Broken: the status string of the upstream payload is stored as it came.
FinishedRawStatus(row, a, o) ==
  [row EXCEPT !.status   = IF o.status = "succeeded" THEN "success" ELSE "failed",
              !.finished = a]

\* Broken: columns the result leaves empty are left out of the UPDATE.
FinishedSkipsEmpty(row, a, o) ==
  [row EXCEPT !.status   = o.status,
              !.summary  = IF o.summary THEN a ELSE @,
              !.error    = IF o.status = "failed" THEN a ELSE @,
              !.finished = a]

\* The terminal write: every result column is SET, to NULL if need be.
Finished(row, a, o) ==
  [row EXCEPT !.status   = o.status,
              !.summary  = IF o.summary THEN a ELSE None,
              !.error    = IF o.status = "failed" THEN a ELSE None,
              !.finished = a]

\* An object that was loaded with NULL in a column and is assigned None has
\* no change in that column, so the column is not in the UPDATE and keeps
\* whatever the row holds by then.  ClearedNever is the broken form: a column
\* that was loaded with a value keeps it.
ClearedNever(now, loaded) == IF loaded = None THEN loaded ELSE now

Cleared(now, loaded) == IF loaded = None THEN now ELSE None

\* Broken: _clear_run_snapshot misses the summary and the metrics.
RetriedRunKeepsSummary(row, loaded, a) ==
  [status   |-> "queued",
   current  |-> a,
   summary  |-> row.summary,
   error    |-> Cleared(row.error, loaded.error),
   started  |-> Cleared(row.started, loaded.started),
   finished |-> Cleared(row.finished, loaded.finished)]

\* The retry: the snapshot columns of the loaded object are set to None and
\* the changed columns are flushed over the row as it is now.
RetriedRun(row, loaded, a) ==
  [status   |-> "queued",
   current  |-> a,
   summary  |-> Cleared(row.summary, loaded.summary),
   error    |-> Cleared(row.error, loaded.error),
   started  |-> Cleared(row.started, loaded.started),
   finished |-> Cleared(row.finished, loaded.finished)]
=============================================================================
