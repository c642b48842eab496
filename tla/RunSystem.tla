------------------------------ MODULE RunSystem ------------------------------
(***************************************************************************)
(* Runs and their attempts across the processes of evalynx: API request    *)
(* handlers and queue workers over one PostgreSQL database (READ           *)
(* COMMITTED) and one Redis queue.                                         *)
(*                                                                         *)
(* Each action is what one actor does up to its next visible effect: one   *)
(* SELECT statement, one committed transaction, or one call to Redis.  The *)
(* claim, the terminal write and the retry are transactions whose guards   *)
(* are re-evaluated by UPDATE ... WHERE on the locked row, so each of them *)
(* takes effect at its commit.                                             *)
(***************************************************************************)
EXTENDS RunRows, Sequences

CONSTANTS Handler,          \* concurrent API requests
          Worker,           \* work-horses that may run at the same time
          MaxRedeliveries   \* bound: repeated deliveries of a job

ASSUME RedeliveriesAssumption == MaxRedeliveries \in Nat

VARIABLES runs,          \* the table runs
          attempts,      \* the table run_attempts
          queue,         \* the RQ list: attempt ids, oldest first
          stored,        \* attempts whose job Redis has ever stored
          handler,       \* one request per handler
          worker,        \* one job per worker
          executed,      \* how often runner.execute was called for an attempt
          lost,          \* attempts with a delivery that failed part-way
          redeliveries   \* deliveries repeated so far

vars == <<runs, attempts, queue, stored, handler, worker, executed, lost,
          redeliveries>>

db    == <<runs, attempts>>
redis == <<queue, stored, redeliveries>>

(***************************************************************************)
(* A request that reads a run keeps its loaded objects until it ends: row  *)
(* is the run as first selected, cur the status of its current attempt as  *)
(* first loaded, known the attempts of the collection.                     *)
(***************************************************************************)
NoRequest == [pc |-> "idle", run |-> None, row |-> NoRun, cur |-> "absent",
              known |-> {}, attempt |-> None]

NoJob == [pc |-> "idle", attempt |-> None, outcome |-> FailedBare]

Request == [pc      : {"idle", "reading", "loaded", "enqueue"},
            run     : Run \cup {None},
            row     : RunRow,
            cur     : Status \cup {"absent"},
            known   : SUBSET Attempt,
            attempt : Column]

Job == [pc      : {"idle", "taken", "claimed", "executing", "result"},
        attempt : Column,
        outcome : Outcome]

TypeOK ==
  /\ runs \in [Run -> RunRow]
  /\ attempts \in [Attempt -> AttemptRow]
  /\ queue \in Seq(Attempt)
  /\ stored \in SUBSET Attempt
  /\ handler \in [Handler -> Request]
  /\ worker \in [Worker -> Job]
  /\ executed \in [Attempt -> Nat]
  /\ lost \in SUBSET Attempt
  /\ redeliveries \in 0 .. MaxRedeliveries

Init ==
  /\ runs = [r \in Run |-> NoRun]
  /\ attempts = [a \in Attempt |-> NoAttempt]
  /\ queue = <<>>
  /\ stored = {}
  /\ handler = [h \in Handler |-> NoRequest]
  /\ worker = [w \in Worker |-> NoJob]
  /\ executed = [a \in Attempt |-> 0]
  /\ lost = {}
  /\ redeliveries = 0

Exists(r)     == runs[r].status # "absent"
Unused        == {a \in Attempt : attempts[a].status = "absent"}
AttemptsOf(r) == {a \in Attempt : attempts[a].run = r}
NumbersOf(A)  == {attempts[a].number : a \in A}

\* max(...) + 1 over the loaded collection.
NextAttemptNumber(known) ==
  IF known = {} THEN 1
  ELSE 1 + CHOOSE n \in NumbersOf(known) : \A m \in NumbersOf(known) : m <= n

-----------------------------------------------------------------------------
(***************************************************************************)
(* API requests                                                            *)
(***************************************************************************)
\* POST /runs: run and first attempt are inserted and committed together,
\* then the handler is about to enqueue.
CreateRun(h) ==
  /\ handler[h].pc = "idle"
  /\ \E r \in Run, a \in Unused :
       /\ ~Exists(r)
       /\ runs' = [runs EXCEPT ![r] = NewRun(a)]
       /\ attempts' = [attempts EXCEPT ![a] = NewAttempt(r, 1)]
       /\ handler' = [handler EXCEPT ![h] =
            [NoRequest EXCEPT !.pc = "enqueue", !.run = r, !.attempt = a]]
  /\ UNCHANGED <<redis, worker, executed, lost>>

\* get_run, first statement: the row of the run.
ReadRun(h) ==
  /\ handler[h].pc = "idle"
  /\ \E r \in Run :
       /\ Exists(r)
       /\ handler' = [handler EXCEPT ![h] =
            [NoRequest EXCEPT !.pc = "reading", !.run = r, !.row = runs[r]]]
  /\ UNCHANGED <<db, redis, worker, executed, lost>>

\* get_run, the statement of selectinload(current_attempt).
ReadCurrent(h) ==
  /\ handler[h].pc = "reading"
  /\ handler[h].cur = "absent"
  /\ handler' = [handler EXCEPT
       ![h].cur = attempts[handler[h].row.current].status]
  /\ UNCHANGED <<db, redis, worker, executed, lost>>

\* Broken: the run is selected again after its attempts (session.refresh).
ReadAttemptsThenRefresh(h) ==
  /\ handler[h].pc = "reading"
  /\ handler' = [handler EXCEPT
       ![h].pc    = "loaded",
       ![h].known = AttemptsOf(handler[h].run),
       ![h].cur   = IF handler[h].cur = "absent"
                      THEN attempts[handler[h].row.current].status
                      ELSE handler[h].cur,
       ![h].row   = runs[handler[h].run]]
  /\ UNCHANGED <<db, redis, worker, executed, lost>>

\* get_run, the statement of selectinload(attempts).  A row the session has
\* already loaded keeps the values of the first load; a current attempt that
\* was not loaded yet is taken from this result.
ReadAttempts(h) ==
  /\ handler[h].pc = "reading"
  /\ handler' = [handler EXCEPT
       ![h].pc    = "loaded",
       ![h].known = AttemptsOf(handler[h].run),
       ![h].cur   = IF handler[h].cur = "absent"
                      THEN attempts[handler[h].row.current].status
                      ELSE handler[h].cur]
  /\ UNCHANGED <<db, redis, worker, executed, lost>>

\* The request ends without a write: a GET answers, a retry is refused (409),
\* its INSERT violates the unique constraint (500), or it fails before commit.
EndRequest(h) ==
  /\ handler[h].pc \in {"reading", "loaded"}
  /\ handler' = [handler EXCEPT ![h] = NoRequest]
  /\ UNCHANGED <<db, redis, worker, executed, lost>>

\* Broken: the guards of retry_run are gone, or refuse active runs only.
RetryAlways(req)   == req.row.status # "absent"
RetryFinished(req) == req.row.status \in Terminal

\* The guards of retry_run look at the loaded objects, not at the rows.
RetryAllowed(req) == req.row.status = "failed" /\ req.cur = "failed"

\* Broken: the unique constraint is dropped.
NumberUnchecked(r, n) == n \in Nat

\* UniqueConstraint(run_id, attempt_number)
NumberFree(r, n) == \A b \in AttemptsOf(r) : attempts[b].number # n

\* Broken: the new attempt is committed and never enqueued.
RetryCommitOnly(h) ==
  LET r == handler[h].run
      n == NextAttemptNumber(handler[h].known)
  IN /\ handler[h].pc = "loaded"
     /\ RetryAllowed(handler[h])
     /\ NumberFree(r, n)
     /\ \E a \in Unused :
          /\ attempts' = [attempts EXCEPT ![a] = NewAttempt(r, n)]
          /\ runs' = [runs EXCEPT ![r] = RetriedRun(@, handler[h].row, a)]
          /\ handler' = [handler EXCEPT ![h] = NoRequest]
     /\ UNCHANGED <<redis, worker, executed, lost>>

\* POST /runs/{id}/retry: INSERT the attempt, UPDATE the run, commit.
RetryCommit(h) ==
  LET r == handler[h].run
      n == NextAttemptNumber(handler[h].known)
  IN /\ handler[h].pc = "loaded"
     /\ RetryAllowed(handler[h])
     /\ NumberFree(r, n)
     /\ \E a \in Unused :
          /\ attempts' = [attempts EXCEPT ![a] = NewAttempt(r, n)]
          /\ runs' = [runs EXCEPT ![r] = RetriedRun(@, handler[h].row, a)]
          /\ handler' = [handler EXCEPT ![h] =
               [NoRequest EXCEPT !.pc = "enqueue", !.run = r, !.attempt = a]]
     /\ UNCHANGED <<redis, worker, executed, lost>>

\* run_queue.enqueue: Redis stores the job and appends it to the list.
Enqueue(h) ==
  /\ handler[h].pc = "enqueue"
  /\ queue' = Append(queue, handler[h].attempt)
  /\ stored' = stored \cup {handler[h].attempt}
  /\ handler' = [handler EXCEPT ![h] = NoRequest]
  /\ UNCHANGED <<db, worker, executed, lost, redeliveries>>

\* Redis is unreachable, the refresh fails or the API process dies: the
\* exception is re-raised and the committed rows stay as they are.
EnqueueFails(h) ==
  /\ handler[h].pc = "enqueue"
  /\ lost' = lost \cup {handler[h].attempt}
  /\ handler' = [handler EXCEPT ![h] = NoRequest]
  /\ UNCHANGED <<db, redis, worker, executed>>

-----------------------------------------------------------------------------
(***************************************************************************)
(* Workers                                                                 *)
(***************************************************************************)
\* RQ pops the oldest job: from here on it is in no list.
TakeJob(w) ==
  /\ worker[w].pc = "idle"
  /\ queue # <<>>
  /\ worker' = [worker EXCEPT ![w] =
       [NoJob EXCEPT !.pc = "taken", !.attempt = Head(queue)]]
  /\ queue' = Tail(queue)
  /\ UNCHANGED <<db, stored, redeliveries, handler, executed, lost>>

\* The WHERE clauses of _claim_attempt.
AttemptClaimable(a) == attempts[a].status = "queued"
RunClaimable(r, a)  == runs[r].current = a /\ runs[r].status = "queued"

\* Broken: only identity is checked, not status; only the attempt is checked.
ClaimsAnyStatus(a) == runs[attempts[a].run].current = a
ClaimsAnyRun(a)    == attempts[a].status = "queued"

Claimable(a) == AttemptClaimable(a) /\ RunClaimable(attempts[a].run, a)

\* _claim_attempt, committed.
Claim(w) ==
  LET a == worker[w].attempt
      r == attempts[a].run
  IN /\ worker[w].pc = "taken"
     /\ Claimable(a)
     /\ attempts' = [attempts EXCEPT ![a] = Claimed(@, a)]
     /\ runs' = [runs EXCEPT ![r] = Claimed(@, a)]
     /\ worker' = [worker EXCEPT ![w].pc = "claimed"]
     /\ UNCHANGED <<redis, handler, executed, lost>>

\* Broken: the attempt's UPDATE is committed although the run's matched no row.
DeclineJobCommits(w) ==
  LET a == worker[w].attempt
  IN /\ worker[w].pc = "taken"
     /\ ~Claimable(a)
     /\ attempts' = IF AttemptClaimable(a)
                       THEN [attempts EXCEPT ![a] = Claimed(@, a)]
                       ELSE attempts
     /\ worker' = [worker EXCEPT ![w] = NoJob]
     /\ UNCHANGED <<runs, redis, handler, executed, lost>>

\* _claim_attempt, rolled back: the job is done.
DeclineJob(w) ==
  /\ worker[w].pc = "taken"
  /\ ~Claimable(worker[w].attempt)
  /\ worker' = [worker EXCEPT ![w] = NoJob]
  /\ UNCHANGED <<db, redis, handler, executed, lost>>

\* The registry has the runner: runner.execute is called.
StartRunner(w) ==
  /\ worker[w].pc = "claimed"
  /\ executed' = [executed EXCEPT ![worker[w].attempt] = @ + 1]
  /\ worker' = [worker EXCEPT ![w].pc = "executing"]
  /\ UNCHANGED <<db, redis, handler, lost>>

\* The registry of this worker does not know the runner type.
RunnerMissing(w) ==
  /\ worker[w].pc = "claimed"
  /\ worker' = [worker EXCEPT ![w].pc = "result", ![w].outcome = FailedBare]
  /\ UNCHANGED <<db, redis, handler, executed, lost>>

\* execute returns or raises.  RunnerExecutionError and any other exception,
\* the job timeout of RQ among them, become a failed result.
RunnerReturns(w) ==
  /\ worker[w].pc = "executing"
  /\ \E o \in Outcome :
       worker' = [worker EXCEPT ![w].pc = "result", ![w].outcome = o]
  /\ UNCHANGED <<db, redis, handler, executed, lost>>

\* The WHERE clauses of _persist_terminal_result.
\* Broken: a result is accepted for the current attempt only; a result is
\* written to the run whichever attempt is current.
ResultOfCurrentOnly(a) == /\ attempts[a].status = "running"
                          /\ runs[attempts[a].run].current = a
RunTakesAnyResult(r, a) == attempts[a].run = r

ResultAccepted(a)    == attempts[a].status = "running"
RunTakesResult(r, a) == runs[r].current = a

\* _persist_terminal_result: rolled back unless the attempt is running; the
\* run is written only while the attempt is its current one.
Persist(w) ==
  LET a == worker[w].attempt
      o == worker[w].outcome
      r == attempts[a].run
  IN /\ worker[w].pc = "result"
     /\ IF ResultAccepted(a)
          THEN /\ attempts' = [attempts EXCEPT ![a] = Finished(@, a, o)]
               /\ runs' = IF RunTakesResult(r, a)
                            THEN [runs EXCEPT ![r] = Finished(@, a, o)]
                            ELSE runs
          ELSE UNCHANGED db
     /\ worker' = [worker EXCEPT ![w] = NoJob]
     /\ UNCHANGED <<redis, handler, executed, lost>>

\* The work-horse dies, is killed, or loses the database outside execute:
\* nothing uncommitted survives, and RQ does not put the job back.
HorseDies(w) ==
  /\ worker[w].pc # "idle"
  /\ lost' = lost \cup {worker[w].attempt}
  /\ worker' = [worker EXCEPT ![w] = NoJob]
  /\ UNCHANGED <<db, redis, handler, executed>>

-----------------------------------------------------------------------------
\* A job Redis has stored is put on the list again (an operator requeues it,
\* or a delivery is repeated).  redeliveries only bounds the model.
Redeliver(a) ==
  /\ a \in stored
  /\ redeliveries < MaxRedeliveries
  /\ redeliveries' = redeliveries + 1
  /\ queue' = Append(queue, a)
  /\ UNCHANGED <<db, stored, handler, worker, executed, lost>>

\* Redis starts empty: docker-compose gives it no volume.  The jobs on the list
\* are gone, and so are the stored ones that could be put there again.
QueueLost ==
  /\ queue # <<>>
  /\ lost' = lost \cup {queue[i] : i \in 1 .. Len(queue)}
  /\ queue' = <<>>
  /\ stored' = {}
  /\ UNCHANGED <<db, redeliveries, handler, worker, executed>>

RequestStep(h) ==
  \/ CreateRun(h) \/ ReadRun(h) \/ ReadCurrent(h) \/ ReadAttempts(h)
  \/ EndRequest(h) \/ RetryCommit(h) \/ Enqueue(h) \/ EnqueueFails(h)

JobStep(w) ==
  \/ TakeJob(w) \/ Claim(w) \/ DeclineJob(w) \/ StartRunner(w)
  \/ RunnerMissing(w) \/ RunnerReturns(w) \/ Persist(w)

Next ==
  \/ \E h \in Handler : RequestStep(h)
  \/ \E w \in Worker : JobStep(w)
  \/ \E w \in Worker : HorseDies(w)
  \/ \E a \in Attempt : Redeliver(a)
  \/ QueueLost

Spec == Init /\ [][Next]_vars

(***************************************************************************)
(* A committed request goes on to its enqueue or dies; a worker that is    *)
(* free takes a job, and a job it holds is processed: the database answers *)
(* and RQ's job_timeout ends an execute that would not return.             *)
(***************************************************************************)
Fairness ==
  /\ \A h \in Handler : WF_vars(Enqueue(h) \/ EnqueueFails(h))
  /\ \A w \in Worker : WF_vars(JobStep(w))

FairSpec == Spec /\ Fairness

-----------------------------------------------------------------------------
(***************************************************************************)
(* Safety                                                                  *)
(***************************************************************************)
CurrentOf(r)     == attempts[runs[r].current]
CurrentNumber(r) == IF Exists(r) THEN CurrentOf(r).number ELSE 0

\* A run shows its current attempt: the attempt is one of its own, and the
\* status, times and failure a reader sees on the run are those of that
\* attempt, whatever claims, late results and retries have interleaved.
RunMirrorsCurrent ==
  \A r \in Run : Exists(r) =>
    /\ runs[r].current \in AttemptsOf(r)
    /\ runs[r].status = CurrentOf(r).status
    /\ runs[r].started = CurrentOf(r).started
    /\ runs[r].error = CurrentOf(r).error
    /\ runs[r].finished = CurrentOf(r).finished

\* The attempts of a run are numbered 1, 2, ... with no gap and no repeat and
\* the current attempt has the last number, although the number is computed
\* from a collection that may be out of date when the INSERT runs.
NumberedInOrder ==
  \A r \in Run :
    /\ \A a, b \in AttemptsOf(r) :
         attempts[a].number = attempts[b].number => a = b
    /\ {attempts[a].number : a \in AttemptsOf(r)} = 1 .. CurrentNumber(r)

\* Whatever deliveries are repeated, the runner is called at most once for an
\* attempt, and two workers never both hold a claim of the same attempt.
Holds(w, a) == /\ worker[w].attempt = a
               /\ worker[w].pc \in {"claimed", "executing", "result"}

RunnerCalledOnce ==
  /\ \A a \in Attempt : executed[a] <= 1
  /\ \A v, w \in Worker, a \in Attempt : Holds(v, a) /\ Holds(w, a) => v = w

\* A run is never silently stuck: while it is queued, a job for its current
\* attempt is on its way (about to be enqueued, in Redis, or taken), while it
\* is running, a worker holds the attempt; otherwise a delivery has failed.
Carried(a) == \/ \E i \in 1 .. Len(queue) : queue[i] = a
              \/ \E h \in Handler : handler[h].pc = "enqueue" /\ handler[h].attempt = a
              \/ \E w \in Worker : worker[w].pc = "taken" /\ worker[w].attempt = a
              \/ a \in lost

NoSilentLoss ==
  \A r \in Run :
    /\ runs[r].status = "queued" => Carried(runs[r].current)
    /\ runs[r].status = "running" =>
         (\E w \in Worker : Holds(w, runs[r].current)) \/ runs[r].current \in lost

\* A finished run shows the summary and metrics of its current attempt, never
\* those an earlier attempt left behind.
FinishedSnapshot ==
  \A r \in Run : runs[r].status \in Terminal =>
    runs[r].summary = CurrentOf(r).summary

\* get_run loads run, current attempt and attempts in three statements, with
\* commits of others between them.  What it returns never shows a finished
\* run over an unfinished attempt, or a started run over a queued one, and
\* the collection has the current attempt.
ViewRunsForward ==
  \A h \in Handler : handler[h].pc = "loaded" =>
    /\ handler[h].row.current \in handler[h].known
    /\ handler[h].row.status \in Terminal => handler[h].cur = handler[h].row.status
    /\ handler[h].row.status = "running" => handler[h].cur # "queued"

\* The row of a finished attempt is never written again: no late result, no
\* repeated delivery and no retry changes what it recorded.
FinishedAttemptsFrozen ==
  [][\A a \in Attempt : attempts[a].status \in Terminal =>
       attempts'[a] = attempts[a]]_vars

-----------------------------------------------------------------------------
(***************************************************************************)
(* What holds of one client at a time, and what the documents promise      *)
(***************************************************************************)
\* At most one attempt of a run is active, and it is the current one.
OnlyCurrentActive ==
  \A r \in Run : \A a \in AttemptsOf(r) :
    attempts[a].status \in {"queued", "running"} => a = runs[r].current

\* The whole snapshot of the run is that of its current attempt; in
\* particular a retry takes every result of the previous attempt off the run.
SnapshotIsCurrents ==
  \A r \in Run : Exists(r) => runs[r].summary = CurrentOf(r).summary

\* "clear the latest run snapshot back to queued state": a queued run shows no
\* result of any attempt.
QueuedSnapshotEmpty ==
  \A r \in Run : runs[r].status = "queued" =>
    /\ runs[r].summary = None
    /\ runs[r].error = None
    /\ runs[r].started = None
    /\ runs[r].finished = None

\* "Run can only be retried from failed state": the current attempt of a run
\* is replaced only while the run is failed.
RetryOnlyFromFailed ==
  [][\A r \in Run : Exists(r) /\ runs'[r].current # runs[r].current =>
       runs[r].status = "failed"]_vars

-----------------------------------------------------------------------------
(***************************************************************************)
(* Refinement: the rows implement the log of attempts                      *)
(***************************************************************************)
AttemptAt(r, n) == CHOOSE a \in AttemptsOf(r) : attempts[a].number = n

LogOf(r) == [n \in 1 .. CurrentNumber(r) |-> attempts[AttemptAt(r, n)].status]

Log == INSTANCE AttemptLog WITH log   <- [r \in Run |-> LogOf(r)],
                                shown <- [r \in Run |-> runs[r].status]

\* Every schedule of handlers, workers, faults and repeated deliveries is a
\* behaviour of the log: appended to by submits and retries, written only at
\* its newest entry by a start, with a run that shows its newest entry.
ImplementsLog == Log!Spec

\* With one request at a time also the strict log: retry from failed only.
ImplementsStrictLog == Log!StrictSpec

-----------------------------------------------------------------------------
(***************************************************************************)
(* Liveness                                                                *)
(***************************************************************************)
\* A run that is queued or running is finished in the end, unless a delivery
\* of its current attempt failed.
RunsSettle ==
  \A r \in Run :
    runs[r].status \in {"queued", "running"}
      ~> (runs[r].status \in Terminal \/ runs[r].current \in lost)

\* A started attempt is finished in the end even when a retry that raced it
\* has made another attempt current, unless its worker died.
StartedAttemptsFinish ==
  \A a \in Attempt :
    attempts[a].status = "running"
      ~> (attempts[a].status \in Terminal \/ a \in lost)
=============================================================================
