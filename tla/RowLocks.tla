------------------------------ MODULE RowLocks ------------------------------
(***************************************************************************)
(* The claim, the terminal write and the retry statement by statement, as  *)
(* PostgreSQL runs them under READ COMMITTED.  RunSystem takes each of     *)
(* these transactions as one step; here other processes run between its    *)
(* statements, and all that keeps them apart is what the database gives:   *)
(* an UPDATE sees committed rows, waits for the row lock of a row its      *)
(* WHERE clause matches, looks at the row again once it has the lock, and  *)
(* keeps the lock until commit or rollback; an INSERT waits for another    *)
(* one that is about to take the same unique key.                          *)
(*                                                                         *)
(* runs and attempts are the committed rows; tx[p] is what p has written   *)
(* and not committed.                                                      *)
(***************************************************************************)
EXTENDS RunSystem

ASSUME ProcessAssumption == Handler \cap Worker = {}

VARIABLE tx   \* the open transaction of a handler or a worker

lockVars == <<vars, tx>>

Process == Handler \cup Worker

\* stage: which statement was the last; attempt and run: the rows that are
\* locked; arow and rrow: what they will be.
Transaction == [stage   : {"none", "attempt", "run"},
                attempt : Column,
                arow    : AttemptRow,
                run     : Run \cup {None},
                rrow    : RunRow]

NoTx == [stage |-> "none", attempt |-> None, arow |-> NoAttempt,
         run |-> None, rrow |-> NoRun]

LockTypeOK == TypeOK /\ tx \in [Process -> Transaction]

LockInit == Init /\ tx = [p \in Process |-> NoTx]

-----------------------------------------------------------------------------
\* Broken: an UPDATE or an INSERT does not wait for the row another one holds.
AttemptFreeAlways(p, a) == p \in Process /\ a \in Attempt

AttemptFree(p, a) == \A q \in Process \ {p} : tx[q].attempt # a

\* Broken: the second UPDATE does not wait for the lock of the row.
RunFreeAlways(p, r) == r \in Run

RunFree(p, r) == \A q \in Process \ {p} : tx[q].run # r

\* Neither a committed row nor one that is being inserted has the number.
KeyFree(p, r, n) ==
  /\ NumberFree(r, n)
  /\ \A q \in Process \ {p} : tx[q].arow.run = r => tx[q].arow.number # n

\* The first statement opens the transaction, the second adds to it.
WriteAttempt(p, a, row) ==
  tx' = [tx EXCEPT ![p] = [NoTx EXCEPT !.stage = "attempt", !.attempt = a, !.arow = row]]

WriteRun(p, r, row) ==
  tx' = [tx EXCEPT ![p].stage = "run", ![p].run = r, ![p].rrow = row]

\* Broken: the session is left open when a WHERE clause matched no row.
RollbackForgotten(p) == p \in Process /\ UNCHANGED tx

Rollback(p) == tx' = [tx EXCEPT ![p] = NoTx]

CommitTx(p) ==
  /\ attempts' = [attempts EXCEPT ![tx[p].attempt] = tx[p].arow]
  /\ runs' = IF tx[p].run = None THEN runs
                                 ELSE [runs EXCEPT ![tx[p].run] = tx[p].rrow]
  /\ tx' = [tx EXCEPT ![p] = NoTx]

-----------------------------------------------------------------------------
(***************************************************************************)
(* retry_run: INSERT, UPDATE, COMMIT.  The reads before them take no lock. *)
(***************************************************************************)
Retrying(h) == handler[h].pc = "loaded" /\ RetryAllowed(handler[h])

InsertAttempt(h) ==
  LET r == handler[h].run
      n == NextAttemptNumber(handler[h].known)
  IN /\ Retrying(h)
     /\ tx[h].stage = "none"
     /\ KeyFree(h, r, n)
     /\ \E a \in Unused : AttemptFree(h, a) /\ WriteAttempt(h, a, NewAttempt(r, n))
     /\ UNCHANGED vars

UpdateRun(h) ==
  LET r == handler[h].run
  IN /\ Retrying(h)
     /\ tx[h].stage = "attempt"
     /\ RunFree(h, r)
     /\ WriteRun(h, r, RetriedRun(runs[r], handler[h].row, tx[h].attempt))
     /\ UNCHANGED vars

CommitRetry(h) ==
  /\ Retrying(h)
  /\ tx[h].stage = "run"
  /\ CommitTx(h)
  /\ handler' = [handler EXCEPT ![h] =
       [NoRequest EXCEPT !.pc = "enqueue", !.run = handler[h].run, !.attempt = tx[h].attempt]]
  /\ UNCHANGED <<redis, worker, executed, lost>>

\* The request ends at any statement before its commit: an answer, a refusal,
\* the IntegrityError of a taken number, a failure.
RequestEnds(h) == EndRequest(h) /\ Rollback(h)

-----------------------------------------------------------------------------
(***************************************************************************)
(* _claim_attempt: UPDATE run_attempts, UPDATE runs, COMMIT.               *)
(***************************************************************************)
ClaimAttempt(w) ==
  LET a == worker[w].attempt
  IN /\ worker[w].pc = "taken"
     /\ tx[w].stage = "none"
     /\ AttemptClaimable(a)
     /\ AttemptFree(w, a)
     /\ WriteAttempt(w, a, Claimed(attempts[a], a))
     /\ UNCHANGED vars

ClaimRun(w) ==
  LET a == worker[w].attempt
      r == attempts[a].run
  IN /\ worker[w].pc = "taken"
     /\ tx[w].stage = "attempt"
     /\ RunClaimable(r, a)
     /\ RunFree(w, r)
     /\ WriteRun(w, r, Claimed(runs[r], a))
     /\ UNCHANGED vars

\* Either UPDATE matches no row: rolled back, and the job is over.
ClaimMisses(w) ==
  LET a == worker[w].attempt
  IN /\ worker[w].pc = "taken"
     /\ \/ tx[w].stage = "none" /\ ~AttemptClaimable(a)
        \/ tx[w].stage = "attempt" /\ ~RunClaimable(attempts[a].run, a)
     /\ Rollback(w)
     /\ worker' = [worker EXCEPT ![w] = NoJob]
     /\ UNCHANGED <<db, redis, handler, executed, lost>>

CommitClaim(w) ==
  /\ worker[w].pc = "taken"
  /\ tx[w].stage = "run"
  /\ CommitTx(w)
  /\ worker' = [worker EXCEPT ![w].pc = "claimed"]
  /\ UNCHANGED <<redis, handler, executed, lost>>

-----------------------------------------------------------------------------
(***************************************************************************)
(* _persist_terminal_result: the same, except that an UPDATE of runs that  *)
(* matches no row is not an error.                                         *)
(***************************************************************************)
SaveAttempt(w) ==
  LET a == worker[w].attempt
  IN /\ worker[w].pc = "result"
     /\ tx[w].stage = "none"
     /\ ResultAccepted(a)
     /\ AttemptFree(w, a)
     /\ WriteAttempt(w, a, Finished(attempts[a], a, worker[w].outcome))
     /\ UNCHANGED vars

SaveMisses(w) ==
  /\ worker[w].pc = "result"
  /\ tx[w].stage = "none"
  /\ ~ResultAccepted(worker[w].attempt)
  /\ worker' = [worker EXCEPT ![w] = NoJob]
  /\ UNCHANGED <<db, redis, handler, executed, lost, tx>>

\* Which of the two it is.  IInv shows that the second never happens: whoever
\* has a result holds an attempt that is running.
SaveFirst(w) ==
  /\ worker[w].pc = "result"
  /\ IF ResultAccepted(worker[w].attempt) THEN SaveAttempt(w) ELSE SaveMisses(w)

SaveRun(w) ==
  LET a == worker[w].attempt
      r == attempts[a].run
  IN /\ worker[w].pc = "result"
     /\ tx[w].stage = "attempt"
     /\ IF RunTakesResult(r, a)
          THEN RunFree(w, r) /\ WriteRun(w, r, Finished(runs[r], a, worker[w].outcome))
          ELSE tx' = [tx EXCEPT ![w].stage = "run"]
     /\ UNCHANGED vars

CommitSave(w) ==
  /\ worker[w].pc = "result"
  /\ tx[w].stage = "run"
  /\ CommitTx(w)
  /\ worker' = [worker EXCEPT ![w] = NoJob]
  /\ UNCHANGED <<redis, handler, executed, lost>>

-----------------------------------------------------------------------------
(***************************************************************************)
(* Everything else is as in RunSystem.  A new run is inserted and updated  *)
(* under locks nobody can want: no one else has seen its ids.              *)
(***************************************************************************)
CreateWhole(h) ==
  /\ CreateRun(h)
  /\ \A q \in Process : tx[q].attempt # None =>
       attempts'[tx[q].attempt] = attempts[tx[q].attempt]

OtherRequestStep(h) ==
  /\ \/ CreateWhole(h) \/ ReadRun(h) \/ ReadCurrent(h) \/ ReadAttempts(h)
     \/ Enqueue(h) \/ EnqueueFails(h)
  /\ UNCHANGED tx

RetryStatement(h) == InsertAttempt(h) \/ UpdateRun(h) \/ CommitRetry(h)

WorkerStatement(w) ==
  \/ ClaimAttempt(w) \/ ClaimRun(w) \/ ClaimMisses(w) \/ CommitClaim(w)
  \/ SaveFirst(w) \/ SaveRun(w) \/ CommitSave(w)

OtherJobStep(w) ==
  /\ (TakeJob(w) \/ StartRunner(w) \/ RunnerMissing(w) \/ RunnerReturns(w))
  /\ UNCHANGED tx

LockNext ==
  \/ \E h \in Handler : OtherRequestStep(h) \/ RetryStatement(h) \/ RequestEnds(h)
  \/ \E w \in Worker : WorkerStatement(w) \/ OtherJobStep(w)
  \/ \E w \in Worker : HorseDies(w) /\ Rollback(w)
  \/ \E a \in Attempt : Redeliver(a) /\ UNCHANGED tx
  \/ QueueLost /\ UNCHANGED tx

LockSpec == LockInit /\ [][LockNext]_lockVars

(***************************************************************************)
(* As in RunSystem, and a transaction that was opened is not left open: a  *)
(* request in the middle of one goes on or fails.                          *)
(***************************************************************************)
LockFairness ==
  /\ \A h \in Handler :
       /\ WF_lockVars((Enqueue(h) \/ EnqueueFails(h)) /\ UNCHANGED tx)
       /\ WF_lockVars(tx[h].stage # "none" /\ (RetryStatement(h) \/ RequestEnds(h)))
  /\ \A w \in Worker : WF_lockVars(WorkerStatement(w) \/ OtherJobStep(w))

LockFairSpec == LockSpec /\ LockFairness

-----------------------------------------------------------------------------
\* Statements of different transactions interleave as the locks allow, and yet
\* every schedule is one in which claim, terminal write and retry happen at
\* once: nothing RunSystem shows depends on its coarser steps.
ImplementsAtomic == Spec

\* Two open transactions never write the same row or insert the same number of
\* the same run.
WritesApart ==
  \A p, q \in Process : p # q =>
    /\ tx[p].attempt # None => tx[p].attempt # tx[q].attempt
    /\ tx[p].run # None => tx[p].run # tx[q].run
    /\ tx[p].arow.run # None /\ tx[p].arow.run = tx[q].arow.run
         => tx[p].arow.number # tx[q].arow.number

\* What an open transaction has locked and written is still what its commit
\* will find: the rows are those its statements saw, the WHERE clauses still
\* match and the number of a new attempt is still free, whatever others have
\* committed in between.
RetrySound(h) ==
  LET n == NextAttemptNumber(handler[h].known)
  IN tx[h].stage # "none" =>
       /\ Retrying(h)
       /\ tx[h].attempt \in Unused
       /\ tx[h].arow = NewAttempt(handler[h].run, n)
       /\ NumberFree(handler[h].run, n)
       /\ tx[h].stage = "attempt" => tx[h].run = None
       /\ tx[h].stage = "run" =>
            /\ tx[h].run = handler[h].run
            /\ tx[h].rrow = RetriedRun(runs[tx[h].run], handler[h].row, tx[h].attempt)

ClaimSound(w) ==
  LET a == worker[w].attempt
      r == attempts[a].run
  IN worker[w].pc = "taken" /\ tx[w].stage # "none" =>
       /\ AttemptClaimable(a)
       /\ tx[w].arow = Claimed(attempts[a], a)
       /\ tx[w].stage = "run" =>
            /\ tx[w].run = r /\ RunClaimable(r, a)
            /\ tx[w].rrow = Claimed(runs[r], a)

SaveSound(w) ==
  LET a == worker[w].attempt
      r == attempts[a].run
      o == worker[w].outcome
  IN worker[w].pc = "result" /\ tx[w].stage # "none" =>
       /\ tx[w].arow = Finished(attempts[a], a, o)
       /\ tx[w].stage = "run" =>
            IF RunTakesResult(r, a)
              THEN tx[w].run = r /\ tx[w].rrow = Finished(runs[r], a, o)
              ELSE tx[w].run = None

JobTxSound(w) ==
  /\ tx[w].stage # "none" =>
       worker[w].pc \in {"taken", "result"} /\ tx[w].attempt = worker[w].attempt
  /\ tx[w].stage = "attempt" => tx[w].run = None
  /\ ClaimSound(w)
  /\ SaveSound(w)

LockInv ==
  /\ tx \in [Process -> Transaction]
  /\ \A p \in Process : tx[p].stage = "none" => tx[p] = NoTx
  /\ \A h \in Handler : RetrySound(h)
  /\ \A w \in Worker : JobTxSound(w)
  /\ WritesApart

\* No transaction waits for ever: locks are taken attempt first, run second,
\* and whoever holds a run row needs no further lock.
TransactionsEnd == \A p \in Process : (tx[p].stage # "none") ~> (tx[p].stage = "none")
=============================================================================
