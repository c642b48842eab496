--------------------------- MODULE RowLocksProofs ---------------------------
(* Theorems about RowLocks, for every set of processes and rows: its       *)
(* statements under row locks implement the atomic transactions of         *)
(* RunSystem, so that everything proved there holds between any two        *)
(* statements.                                                             *)
EXTENDS RowLocks, LogProofs

(***************************************************************************)
(* Open transactions                                                       *)
(***************************************************************************)
\* Nothing is open at the start.
LEMMA InitLockInv == LockInit => LockInv
<1> SUFFICES ASSUME LockInit PROVE LockInv
  OBVIOUS
<1> USE DEF LockInit, NoTx
<1>1. tx \in [Process -> Transaction]
  BY DEF Transaction, Column, NoAttempt, AttemptRow, NoRun, RunRow
<1>2. \A p \in Process : tx[p] = NoTx
  OBVIOUS
<1>3. \A h \in Handler : RetrySound(h)
  BY <1>2 DEF RetrySound, Process
<1>4. \A w \in Worker : JobTxSound(w)
  BY <1>2 DEF JobTxSound, ClaimSound, SaveSound, Process
<1>5. WritesApart
  BY <1>2 DEF WritesApart, NoAttempt
<1> QED BY <1>1, <1>2, <1>3, <1>4, <1>5 DEF LockInv

\* A retry is of a run that exists, and the attempt it inserts has a number.
LEMMA RetryFacts ==
  ASSUME IInv, NEW h \in Handler, Retrying(h)
  PROVE  /\ handler[h].run \in Run /\ Exists(handler[h].run)
         /\ handler[h].row \in RunRow
         /\ NextAttemptNumber(handler[h].known) \in Nat
<1>1. /\ TypeOK /\ handler[h] \in Request /\ RequestSound(h)
  BY DEF IInv, TypeOK
<1>2. handler[h].run \in Run /\ Exists(handler[h].run)
      /\ handler[h].known \in SUBSET Attempt /\ HasLast(handler[h].known)
  BY <1>1 DEF RequestSound, Retrying, Request
<1>3. NextAttemptNumber(handler[h].known) \in Nat
  BY <1>1, <1>2, NextNumberType DEF HasLast
<1> QED BY <1>1, <1>2, <1>3 DEF Request

\* A worker's attempt exists and belongs to a run that exists.
LEMMA JobFacts ==
  ASSUME IInv, NEW w \in Worker, worker[w].pc # "idle"
  PROVE  /\ worker[w].attempt \in Attempt /\ worker[w].attempt \notin Unused
         /\ attempts[worker[w].attempt].run \in Run
         /\ Exists(attempts[worker[w].attempt].run)
         /\ attempts[worker[w].attempt] \in AttemptRow
         /\ worker[w].outcome \in Outcome
<1> DEFINE a == worker[w].attempt
<1>1. TypeOK /\ AttemptShape /\ JobSound(w)
  BY DEF IInv, RowsSound, JobsSound
<1>2. a \in Attempt /\ a \notin Unused
  BY <1>1 DEF JobSound
<1>3. attempts[a].status # "absent" /\ attempts[a] \in AttemptRow
  BY <1>1, <1>2 DEF Unused, TypeOK
<1>4. attempts[a].run \in Run /\ Exists(attempts[a].run)
  BY <1>1, <1>2, <1>3 DEF AttemptShape, AttemptRow
<1>5. worker[w].outcome \in Outcome
  BY <1>1 DEF TypeOK, Job
<1> QED BY <1>2, <1>3, <1>4, <1>5

(***************************************************************************)
(* Refinement                                                              *)
(***************************************************************************)
\* The commit of a retry is the retry of RunSystem: what was written under
\* the locks is what one step at the commit would write.
LEMMA CommitRetryIsRetry ==
  ASSUME IInv, LockInv, NEW h \in Handler, CommitRetry(h)
  PROVE  RetryCommit(h)
<1> DEFINE a == tx[h].attempt
           r == handler[h].run
           n == NextAttemptNumber(handler[h].known)
<1>1. RetrySound(h) /\ Retrying(h) /\ tx[h].stage = "run"
  BY DEF LockInv, CommitRetry
<1>2. /\ a \in Unused /\ NumberFree(r, n)
      /\ tx[h].arow = NewAttempt(r, n)
      /\ tx[h].run = r /\ tx[h].rrow = RetriedRun(runs[r], handler[h].row, a)
  BY <1>1 DEF RetrySound
<1>3. r \in Run /\ r # None
  BY <1>1, RetryFacts, NoneAssumption
<1>4. /\ attempts' = [attempts EXCEPT ![a] = NewAttempt(r, n)]
      /\ runs' = [runs EXCEPT ![r] = RetriedRun(@, handler[h].row, a)]
      /\ handler' = [handler EXCEPT ![h] =
           [NoRequest EXCEPT !.pc = "enqueue", !.run = r, !.attempt = a]]
      /\ UNCHANGED <<redis, worker, executed, lost>>
  BY <1>2, <1>3 DEF CommitRetry, CommitTx
<1> QED BY <1>1, <1>2, <1>4 DEF RetryCommit, Retrying

\* The commit of a claim is the claim.
LEMMA CommitClaimIsClaim ==
  ASSUME IInv, LockInv, NEW w \in Worker, CommitClaim(w)
  PROVE  Claim(w)
<1> DEFINE a == worker[w].attempt
           r == attempts[a].run
<1>1. JobTxSound(w) /\ worker[w].pc = "taken" /\ tx[w].stage = "run"
  BY DEF LockInv, CommitClaim
<1>2. /\ tx[w].attempt = a /\ AttemptClaimable(a) /\ RunClaimable(r, a)
      /\ tx[w].arow = Claimed(attempts[a], a)
      /\ tx[w].run = r /\ tx[w].rrow = Claimed(runs[r], a)
  BY <1>1 DEF JobTxSound, ClaimSound
<1>3. r # None
  BY <1>1, JobFacts, NoneAssumption
<1>4. /\ attempts' = [attempts EXCEPT ![a] = Claimed(@, a)]
      /\ runs' = [runs EXCEPT ![r] = Claimed(@, a)]
      /\ worker' = [worker EXCEPT ![w].pc = "claimed"]
      /\ UNCHANGED <<redis, handler, executed, lost>>
  BY <1>2, <1>3 DEF CommitClaim, CommitTx
<1> QED BY <1>1, <1>2, <1>4 DEF Claim, Claimable

\* The commit of a terminal write is the terminal write.
LEMMA CommitSaveIsPersist ==
  ASSUME IInv, LockInv, NEW w \in Worker, CommitSave(w)
  PROVE  Persist(w)
<1> DEFINE a == worker[w].attempt
           r == attempts[a].run
           o == worker[w].outcome
<1>1. JobTxSound(w) /\ worker[w].pc = "result" /\ tx[w].stage = "run"
  BY DEF LockInv, CommitSave
<1>2. /\ tx[w].attempt = a /\ tx[w].arow = Finished(attempts[a], a, o)
      /\ IF RunTakesResult(r, a)
           THEN tx[w].run = r /\ tx[w].rrow = Finished(runs[r], a, o)
           ELSE tx[w].run = None
  BY <1>1 DEF JobTxSound, SaveSound
<1>3. r # None
  BY <1>1, JobFacts, NoneAssumption
<1>4. ResultAccepted(a)
  BY <1>1 DEF IInv, JobsSound, JobSound, ResultAccepted
<1>5. /\ attempts' = [attempts EXCEPT ![a] = Finished(@, a, o)]
      /\ runs' = IF RunTakesResult(r, a)
                   THEN [runs EXCEPT ![r] = Finished(@, a, o)]
                   ELSE runs
      /\ worker' = [worker EXCEPT ![w] = NoJob]
      /\ UNCHANGED <<redis, handler, executed, lost>>
  BY <1>2, <1>3 DEF CommitSave, CommitTx
<1> QED BY <1>1, <1>4, <1>5 DEF Persist

\* Every step of the statements is a step of the transactions or none.
LEMMA StepImplements ==
  ASSUME IInv, LockInv, [LockNext]_lockVars
  PROVE  [Next]_vars
<1>1. ASSUME NEW h \in Handler, OtherRequestStep(h) PROVE Next
  BY <1>1 DEF OtherRequestStep, CreateWhole, RequestStep, Next
<1>2. ASSUME NEW h \in Handler, RetryStatement(h) PROVE [Next]_vars
  <2>1. CASE InsertAttempt(h) \/ UpdateRun(h)
    BY <2>1 DEF InsertAttempt, UpdateRun
  <2>2. CASE CommitRetry(h)
    BY <2>2, CommitRetryIsRetry DEF Next, RequestStep
  <2> QED BY <1>2, <2>1, <2>2 DEF RetryStatement
<1>3. ASSUME NEW h \in Handler, RequestEnds(h) PROVE Next
  BY <1>3 DEF RequestEnds, RequestStep, Next
<1>4. ASSUME NEW w \in Worker, WorkerStatement(w) PROVE [Next]_vars
  <2>1. CASE ClaimAttempt(w) \/ ClaimRun(w) \/ SaveAttempt(w) \/ SaveRun(w)
    BY <2>1 DEF ClaimAttempt, ClaimRun, SaveAttempt, SaveRun
  <2>2. CASE ClaimMisses(w)
    <3>1. DeclineJob(w)
      BY <2>2 DEF ClaimMisses, DeclineJob, Claimable
    <3> QED BY <3>1 DEF JobStep, Next
  <2>3. CASE CommitClaim(w)
    BY <2>3, CommitClaimIsClaim DEF JobStep, Next
  <2>4. CASE SaveMisses(w)
    <3>1. Persist(w)
      BY <2>4 DEF SaveMisses, Persist, db
    <3> QED BY <3>1 DEF JobStep, Next
  <2>5. CASE CommitSave(w)
    BY <2>5, CommitSaveIsPersist DEF JobStep, Next
  <2> QED BY <1>4, <2>1, <2>2, <2>3, <2>4, <2>5 DEF WorkerStatement, SaveFirst
<1>5. ASSUME NEW w \in Worker, OtherJobStep(w) PROVE Next
  BY <1>5 DEF OtherJobStep, JobStep, Next
<1>6. ASSUME NEW w \in Worker, HorseDies(w) PROVE Next
  BY <1>6 DEF Next
<1>7. ASSUME NEW a \in Attempt, Redeliver(a) PROVE Next
  BY <1>7 DEF Next
<1>8. CASE QueueLost \/ UNCHANGED lockVars
  BY <1>8 DEF lockVars, Next
<1> QED BY <1>1, <1>2, <1>3, <1>4, <1>5, <1>6, <1>7, <1>8 DEF LockNext

(***************************************************************************)
(* What is locked stays as it is                                           *)
(***************************************************************************)
\* An open transaction names rows that exist or are about to be inserted, and
\* what it will write in run_attempts belongs to a run that exists.
LEMMA LockedRows ==
  ASSUME IInv, LockInv, NEW p \in Process, tx[p].stage # "none"
  PROVE  /\ tx[p].attempt \in Attempt
         /\ tx[p].arow.run \in Run /\ Exists(tx[p].arow.run)
         /\ tx[p].run # None => tx[p].run \in Run /\ Exists(tx[p].run)
<1>0. tx[p] \in Transaction
  BY DEF LockInv
<1>1. CASE p \in Handler
  <2>1. RetrySound(p)
    BY <1>1 DEF LockInv
  <2>2. /\ Retrying(p) /\ tx[p].attempt \in Attempt
        /\ tx[p].arow = NewAttempt(handler[p].run, NextAttemptNumber(handler[p].known))
        /\ tx[p].run # None => tx[p].run = handler[p].run
    BY <1>0, <2>1 DEF RetrySound, Unused, Transaction
  <2> QED BY <1>1, <2>2, RetryFacts DEF NewAttempt, NoAttempt
<1>2. CASE p \in Worker
  <2> DEFINE a == worker[p].attempt
  <2>1. JobTxSound(p)
    BY <1>2 DEF LockInv
  <2>2. worker[p].pc \in {"taken", "result"} /\ tx[p].attempt = a
    BY <2>1 DEF JobTxSound
  <2>3. /\ a \in Attempt /\ attempts[a] \in AttemptRow
        /\ attempts[a].run \in Run /\ Exists(attempts[a].run)
    BY <1>2, <2>2, JobFacts
  <2>4. tx[p].arow.run = attempts[a].run
    BY <2>1, <2>2, <2>3 DEF JobTxSound, ClaimSound, SaveSound, Claimed, Finished, AttemptRow
  <2>5. tx[p].run # None => tx[p].run = attempts[a].run
    BY <1>0, <2>1, <2>2 DEF JobTxSound, ClaimSound, SaveSound, Transaction
  <2> QED BY <2>2, <2>3, <2>4, <2>5
<1> QED BY <1>1, <1>2 DEF Process

\* Rows are written by a new run or by the commit of a transaction.
LEMMA LockWrites ==
  ASSUME LockInv, [LockNext]_lockVars
  PROVE  \/ UNCHANGED db
         \/ \E h \in Handler : CreateWhole(h) /\ UNCHANGED tx
         \/ \E q \in Process : CommitTx(q) /\ tx[q].stage = "run"
<1>1. ASSUME NEW h \in Handler,
             OtherRequestStep(h) \/ RetryStatement(h) \/ RequestEnds(h)
      PROVE  \/ UNCHANGED db
             \/ CreateWhole(h) /\ UNCHANGED tx
             \/ CommitTx(h) /\ tx[h].stage = "run"
  BY <1>1 DEF OtherRequestStep, RetryStatement, RequestEnds, ReadRun, ReadCurrent,
     ReadAttempts, Enqueue, EnqueueFails, EndRequest, InsertAttempt, UpdateRun,
     CommitRetry, vars, db
<1>2. ASSUME NEW w \in Worker,
             WorkerStatement(w) \/ OtherJobStep(w) \/ HorseDies(w)
      PROVE  \/ UNCHANGED db
             \/ CommitTx(w) /\ tx[w].stage = "run"
  BY <1>2 DEF WorkerStatement, SaveFirst, OtherJobStep, HorseDies, ClaimAttempt, ClaimRun,
     ClaimMisses, CommitClaim, SaveAttempt, SaveMisses, SaveRun, CommitSave,
     TakeJob, StartRunner, RunnerMissing, RunnerReturns, vars, db
<1>3. ASSUME NEW a \in Attempt, Redeliver(a) PROVE UNCHANGED db
  BY <1>3 DEF Redeliver, db
<1>4. CASE QueueLost \/ UNCHANGED lockVars
  BY <1>4 DEF lockVars, vars, db, QueueLost
<1> QED BY <1>1, <1>2, <1>3, <1>4 DEF LockNext, Process

\* While a transaction stays open nobody else writes the rows it has locked.
LEMMA LockedKept ==
  ASSUME IInv, LockInv, [LockNext]_lockVars, NEW p \in Process,
         tx[p].stage # "none", tx'[p] = tx[p]
  PROVE  /\ attempts'[tx[p].attempt] = attempts[tx[p].attempt]
         /\ tx[p].run # None => runs'[tx[p].run] = runs[tx[p].run]
<1>0. /\ tx[p].attempt \in Attempt
      /\ tx[p].run # None => tx[p].run \in Run /\ Exists(tx[p].run)
      /\ tx \in [Process -> Transaction] /\ WritesApart
      /\ runs \in [Run -> RunRow] /\ attempts \in [Attempt -> AttemptRow]
  BY LockedRows DEF LockInv, IInv, TypeOK
<1>1. CASE UNCHANGED db
  BY <1>1 DEF db
<1>2. ASSUME NEW h \in Handler, CreateWhole(h)
      PROVE  /\ attempts'[tx[p].attempt] = attempts[tx[p].attempt]
             /\ tx[p].run # None => runs'[tx[p].run] = runs[tx[p].run]
  <2>1. PICK r \in Run : ~Exists(r) /\ \E a \in Unused : runs' = [runs EXCEPT ![r] = NewRun(a)]
    BY <1>2 DEF CreateWhole, CreateRun
  <2>2. attempts'[tx[p].attempt] = attempts[tx[p].attempt]
    BY <1>0, <1>2, NoneAssumption DEF CreateWhole
  <2> QED BY <1>0, <2>1, <2>2
<1>3. ASSUME NEW q \in Process, CommitTx(q), tx[q].stage = "run"
      PROVE  /\ attempts'[tx[p].attempt] = attempts[tx[p].attempt]
             /\ tx[p].run # None => runs'[tx[p].run] = runs[tx[p].run]
  <2>1. tx'[q] = NoTx
    BY <1>0, <1>3 DEF CommitTx
  <2>2. q # p
    BY <1>3, <2>1 DEF NoTx
  <2>3. /\ tx[p].attempt # tx[q].attempt
        /\ tx[p].run # None => tx[p].run # tx[q].run
    BY <1>0, <2>2, NoneAssumption DEF WritesApart
  <2> QED BY <1>0, <1>3, <2>3 DEF CommitTx
<1> QED BY <1>1, <1>2, <1>3, LockWrites

\* A run takes a current attempt that was not in use before, so an attempt that
\* is superseded stays superseded.
LEMMA SupersededForGood ==
  ASSUME IInv, [Next]_vars, NEW r \in Run, NEW a \in Attempt,
         Exists(r), a \notin Unused, runs[r].current # a
  PROVE  runs'[r].current # a
<1>0. runs \in [Run -> RunRow] /\ attempts \in [Attempt -> AttemptRow]
  BY DEF IInv, TypeOK
<1>1. CASE UNCHANGED db
  BY <1>1 DEF db
<1>2. ASSUME NEW q \in Run, NEW b \in Attempt, Inserts(q, b) PROVE runs'[r].current # a
  BY <1>0, <1>2 DEF Inserts, Unused
<1>3. ASSUME NEW q \in Run, NEW b \in Attempt, NEW n \in Nat, NEW loaded \in RunRow,
             Retries(q, b, n, loaded)
      PROVE  runs'[r].current # a
  BY <1>0, <1>3 DEF Retries, RetriedRun
<1>4. ASSUME NEW q \in Run, NEW b \in Attempt, Claims(q, b) PROVE runs'[r].current # a
  <2>1. \A row \in RunRow : Claimed(row, b).current = row.current
    BY DEF Claimed, RunRow
  <2> QED BY <1>0, <1>4, <2>1 DEF Claims
<1>5. ASSUME NEW q \in Run, NEW b \in Attempt, NEW o \in Outcome, Finishes(q, b, o)
      PROVE  runs'[r].current # a
  <2>1. \A row \in RunRow : Finished(row, b, o).current = row.current
    BY DEF Finished, RunRow
  <2> QED BY <1>0, <1>5, <2>1 DEF Finishes
<1> QED BY <1>1, <1>2, <1>3, <1>4, <1>5, RowWrites

(***************************************************************************)
(* Every statement keeps the transactions sound                            *)
(***************************************************************************)
\* A number that a pending INSERT was given stays free: whoever else commits
\* an attempt of the run commits another number.
LEMMA NumberStaysFree ==
  ASSUME IInv, LockInv, [LockNext]_lockVars, NEW h \in Handler,
         tx[h].stage # "none", tx'[h] = tx[h],
         NumberFree(tx[h].arow.run, tx[h].arow.number)
  PROVE  NumberFree(tx[h].arow.run, tx[h].arow.number)'
<1> DEFINE r == tx[h].arow.run
           n == tx[h].arow.number
<1>0. /\ h \in Process /\ tx'[h].arow.run = r /\ tx'[h].arow.number = n
      /\ r \in Run /\ Exists(r)
      /\ tx \in [Process -> Transaction] /\ WritesApart
      /\ attempts \in [Attempt -> AttemptRow]
  BY LockedRows DEF Process, LockInv, IInv, TypeOK
<1> SUFFICES ASSUME NEW b \in Attempt, attempts'[b].run = r
             PROVE  attempts'[b].number # n
  BY <1>0 DEF NumberFree, AttemptsOf
<1>1. CASE attempts'[b] = attempts[b]
  BY <1>1 DEF NumberFree, AttemptsOf
<1>2. ASSUME NEW k \in Handler, CreateWhole(k), attempts'[b] # attempts[b] PROVE FALSE
  <2>1. PICK q \in Run, a \in Unused :
          ~Exists(q) /\ attempts' = [attempts EXCEPT ![a] = NewAttempt(q, 1)]
    BY <1>2 DEF CreateWhole, CreateRun
  <2>2. attempts'[b].run = q
    BY <1>0, <1>2, <2>1 DEF NewAttempt, NoAttempt
  <2> QED BY <1>0, <2>1, <2>2
<1>3. ASSUME NEW q \in Process, CommitTx(q), tx[q].stage = "run", attempts'[b] # attempts[b]
      PROVE  attempts'[b].number # n
  <2>1. tx'[q] = NoTx
    BY <1>0, <1>3 DEF CommitTx
  <2>2. q # h
    BY <1>3, <2>1 DEF NoTx
  <2>3. attempts'[b] = tx[q].arow
    BY <1>0, <1>3 DEF CommitTx
  <2> QED BY <1>0, <2>2, <2>3, NoneAssumption DEF WritesApart
<1>4. CASE UNCHANGED db
  BY <1>1, <1>4 DEF db
<1> QED BY <1>1, <1>2, <1>3, <1>4, LockWrites

\* A request that does nothing keeps what its open transaction rests on.
LEMMA RetryKept ==
  ASSUME IInv, LockInv, [LockNext]_lockVars, NEW h \in Handler,
         tx'[h] = tx[h], handler'[h] = handler[h]
  PROVE  RetrySound(h)'
<1> SUFFICES ASSUME tx[h].stage # "none" PROVE RetrySound(h)'
  BY DEF RetrySound
<1> DEFINE r == handler[h].run
           known == handler[h].known
           n == NextAttemptNumber(known)
<1>0. /\ h \in Process /\ RetrySound(h) /\ Retrying(h) /\ RequestSound(h)
      /\ handler[h] \in Request
      /\ tx[h].arow = NewAttempt(r, n)
  BY DEF LockInv, RetrySound, Process, IInv, TypeOK
<1>1. [Next]_vars
  BY StepImplements
<1>2. NumbersOf(known)' = NumbersOf(known)
  <2>1. known \in SUBSET Attempt /\ known \in SUBSET AttemptsOf(r) /\ r \in Run
    BY <1>0 DEF RequestSound, Retrying, AttemptsOf
  <2>2. \A a \in known : a \in Attempt /\ a \notin Unused
    BY <2>1, RowFacts, NoneAssumption DEF AttemptsOf
  <2>3. \A a \in known : attempts'[a].number = attempts[a].number
    BY <1>1, <2>2, RowsForward
  <2>4. known' = known
    OBVIOUS
  <2> QED BY <2>3, <2>4 DEF NumbersOf
<1>3. n' = n
  BY <1>2 DEF NextAttemptNumber
<1>4. /\ attempts'[tx[h].attempt] = attempts[tx[h].attempt]
      /\ tx[h].run # None => runs'[tx[h].run] = runs[tx[h].run]
  BY <1>0, LockedKept
<1>5. tx[h].arow.run = r /\ tx[h].arow.number = n
  BY <1>0 DEF NewAttempt, NoAttempt
<1>6. NumberFree(r, n)'
  BY <1>0, <1>3, <1>5, NumberStaysFree DEF RetrySound
<1>7. r \in Run /\ r # None
  BY <1>0, RetryFacts, NoneAssumption
<1> QED
  BY <1>0, <1>3, <1>4, <1>6, <1>7
     DEF RetrySound, Retrying, RetryAllowed, Unused, NewAttempt

\* So does a worker that does nothing.
LEMMA JobTxKept ==
  ASSUME IInv, LockInv, [LockNext]_lockVars, NEW w \in Worker,
         tx'[w] = tx[w], worker'[w] = worker[w]
  PROVE  JobTxSound(w)'
<1> SUFFICES ASSUME tx[w].stage # "none" PROVE JobTxSound(w)'
  BY DEF JobTxSound, ClaimSound, SaveSound
<1> DEFINE a == worker[w].attempt
           r == attempts[a].run
           o == worker[w].outcome
<1>0. /\ w \in Process /\ JobTxSound(w)
      /\ worker[w].pc \in {"taken", "result"} /\ tx[w].attempt = a
      /\ tx[w].stage \in {"attempt", "run"}
  BY DEF LockInv, JobTxSound, Process, Transaction
<1>1. [Next]_vars
  BY StepImplements
<1>2. a \in Attempt /\ a \notin Unused /\ r \in Run /\ Exists(r) /\ r # None
  BY <1>0, JobFacts, NoneAssumption
<1>3. /\ attempts'[a] = attempts[a]
      /\ tx[w].run # None => runs'[tx[w].run] = runs[tx[w].run]
  BY <1>0, LockedKept
<1>4. runs[r].current # a => runs'[r].current # a
  BY <1>1, <1>2, SupersededForGood
<1>5. a' = a /\ r' = r /\ o' = o /\ attempts'[a] = attempts[a] /\ tx'[w] = tx[w]
  BY <1>3
<1>6. tx[w].run # None /\ tx[w].run = r => runs'[r] = runs[r]
  BY <1>3
<1>7. ClaimSound(w)'
  <2>1. worker[w].pc = "taken" =>
          /\ attempts[a].status = "queued"
          /\ tx[w].arow = Claimed(attempts[a], a)
          /\ tx[w].stage = "run" =>
               /\ runs[r].current = a /\ runs[r].status = "queued"
               /\ tx[w].run = r /\ tx[w].rrow = Claimed(runs[r], a)
    BY <1>0 DEF JobTxSound, ClaimSound, AttemptClaimable, RunClaimable
  <2> HIDE DEF a, r, o
  <2> QED BY <1>2, <1>5, <1>6, <2>1 DEF ClaimSound, AttemptClaimable, RunClaimable, a, r
<1>8. SaveSound(w)'
  <2>1. CASE tx[w].run = None
    BY <1>0, <1>2, <1>3, <1>4, <2>1 DEF JobTxSound, SaveSound, RunTakesResult, Finished
  <2>2. CASE tx[w].run # None
    <3>1. worker[w].pc = "result" =>
            /\ tx[w].arow = Finished(attempts[a], a, o)
            /\ tx[w].stage = "run" =>
                 runs[r].current = a /\ tx[w].run = r /\ tx[w].rrow = Finished(runs[r], a, o)
      BY <1>0, <2>2 DEF JobTxSound, SaveSound, RunTakesResult
    <3> HIDE DEF a, r, o
    <3> QED BY <1>5, <1>6, <2>2, <3>1 DEF SaveSound, RunTakesResult, a, r, o
  <2> QED BY <2>1, <2>2
<1> QED BY <1>0, <1>7, <1>8 DEF JobTxSound

(***************************************************************************)
(* One process moves                                                       *)
(***************************************************************************)
\* The statements that leave a transaction open.
Writes(p) == \/ p \in Handler /\ (InsertAttempt(p) \/ UpdateRun(p))
             \/ p \in Worker /\ (ClaimAttempt(p) \/ ClaimRun(p) \/ SaveAttempt(p) \/ SaveRun(p))

Still(q) == /\ tx'[q] = tx[q]
            /\ q \in Handler => handler'[q] = handler[q]
            /\ q \in Worker => worker'[q] = worker[q]

\* A step moves at most one process, which opens or goes on with a transaction
\* or has none open afterwards.
LEMMA OneMoves ==
  ASSUME IInv, LockInv, [LockNext]_lockVars
  PROVE  \/ \A q \in Process : Still(q)
         \/ \E p \in Process : /\ Writes(p) \/ tx'[p] = NoTx
                               /\ \A q \in Process \ {p} : Still(q)
<1>0. /\ tx \in [Process -> Transaction] /\ Handler \cap Worker = {}
      /\ handler \in [Handler -> Request] /\ worker \in [Worker -> Job]
      /\ Process = Handler \cup Worker
  BY ProcessAssumption DEF LockInv, IInv, TypeOK, Process
<1>1. ASSUME NEW p \in Process,
             p \in Handler => \A k \in Handler \ {p} : handler'[k] = handler[k],
             p \in Worker => \A k \in Worker \ {p} : worker'[k] = worker[k],
             p \in Handler => UNCHANGED worker,
             p \in Worker => UNCHANGED handler,
             \A q \in Process \ {p} : tx'[q] = tx[q]
      PROVE  \A q \in Process \ {p} : Still(q)
  BY <1>0, <1>1 DEF Still
<1>2. ASSUME NEW h \in Handler, OtherRequestStep(h)
      PROVE  tx'[h] = NoTx /\ \A q \in Process \ {h} : Still(q)
  <2>1. handler[h].pc # "loaded"
    BY <1>2 DEF OtherRequestStep, CreateWhole, CreateRun, ReadRun, ReadCurrent,
       ReadAttempts, Enqueue, EnqueueFails
  <2>2. tx[h] = NoTx
    BY <1>0, <2>1 DEF LockInv, RetrySound, Retrying
  <2>3. UNCHANGED <<tx, worker>>
    BY <1>2 DEF OtherRequestStep, CreateWhole, CreateRun, ReadRun, ReadCurrent,
       ReadAttempts, Enqueue, EnqueueFails
  <2>4. \A k \in Handler \ {h} : handler'[k] = handler[k]
    BY <1>0, <1>2 DEF OtherRequestStep, CreateWhole, CreateRun, ReadRun, ReadCurrent,
       ReadAttempts, Enqueue, EnqueueFails
  <2> QED BY <1>0, <1>1, <2>2, <2>3, <2>4
<1>3. ASSUME NEW h \in Handler, CommitRetry(h) \/ RequestEnds(h)
      PROVE  tx'[h] = NoTx /\ \A q \in Process \ {h} : Still(q)
  <2>1. tx' = [tx EXCEPT ![h] = NoTx] /\ UNCHANGED worker
    BY <1>3 DEF CommitRetry, CommitTx, RequestEnds, Rollback, EndRequest
  <2>2. \A k \in Handler \ {h} : handler'[k] = handler[k]
    BY <1>0, <1>3 DEF CommitRetry, RequestEnds, EndRequest
  <2> QED BY <1>0, <1>1, <2>1, <2>2
<1>4. ASSUME NEW h \in Handler, InsertAttempt(h) \/ UpdateRun(h)
      PROVE  Writes(h) /\ \A q \in Process \ {h} : Still(q)
  <2>1. UNCHANGED vars /\ \A q \in Process \ {h} : tx'[q] = tx[q]
    BY <1>0, <1>4 DEF InsertAttempt, UpdateRun, WriteAttempt, WriteRun
  <2> QED BY <1>0, <1>4, <2>1 DEF Writes, Still, vars
<1>5. ASSUME NEW w \in Worker, ClaimAttempt(w) \/ ClaimRun(w) \/ SaveAttempt(w) \/ SaveRun(w)
      PROVE  Writes(w) /\ \A q \in Process \ {w} : Still(q)
  <2>1. UNCHANGED vars /\ \A q \in Process \ {w} : tx'[q] = tx[q]
    BY <1>0, <1>5 DEF ClaimAttempt, ClaimRun, SaveAttempt, SaveRun, WriteAttempt, WriteRun
  <2> QED BY <1>0, <1>5, <2>1 DEF Writes, Still, vars
<1>6. ASSUME NEW w \in Worker,
             \/ ClaimMisses(w) \/ CommitClaim(w) \/ CommitSave(w)
             \/ HorseDies(w) /\ Rollback(w)
      PROVE  tx'[w] = NoTx /\ \A q \in Process \ {w} : Still(q)
  <2>1. tx' = [tx EXCEPT ![w] = NoTx] /\ UNCHANGED handler
    BY <1>6 DEF ClaimMisses, CommitClaim, CommitSave, CommitTx, HorseDies, Rollback
  <2>2. \A k \in Worker \ {w} : worker'[k] = worker[k]
    BY <1>0, <1>6 DEF ClaimMisses, CommitClaim, CommitSave, HorseDies
  <2> QED BY <1>0, <1>1, <2>1, <2>2
<1>7. ASSUME NEW w \in Worker, SaveMisses(w) \/ OtherJobStep(w)
      PROVE  tx'[w] = NoTx /\ \A q \in Process \ {w} : Still(q)
  <2>1. tx[w].stage = "none" \/ worker[w].pc \notin {"taken", "result"}
    BY <1>7 DEF SaveMisses, OtherJobStep, TakeJob, StartRunner, RunnerMissing, RunnerReturns
  <2>2. tx[w] = NoTx
    BY <1>0, <2>1 DEF LockInv, JobTxSound
  <2>3. UNCHANGED <<tx, handler>>
    BY <1>7 DEF SaveMisses, OtherJobStep, TakeJob, StartRunner, RunnerMissing, RunnerReturns
  <2>4. \A k \in Worker \ {w} : worker'[k] = worker[k]
    BY <1>0, <1>7 DEF SaveMisses, OtherJobStep, TakeJob, StartRunner, RunnerMissing, RunnerReturns
  <2> QED BY <1>0, <1>1, <2>2, <2>3, <2>4
<1>8. ASSUME NEW a \in Attempt, Redeliver(a) /\ UNCHANGED tx PROVE \A q \in Process : Still(q)
  BY <1>8 DEF Redeliver, Still
<1>9. CASE (QueueLost /\ UNCHANGED tx) \/ UNCHANGED lockVars
  BY <1>9 DEF lockVars, vars, Still, QueueLost
<1> QED
  BY <1>0, <1>2, <1>3, <1>4, <1>5, <1>6, <1>7, <1>8, <1>9
     DEF LockNext, RetryStatement, WorkerStatement, SaveFirst

\* What a statement writes has the type of its table.
LEMMA WritesType ==
  ASSUME IInv, LockInv, NEW p \in Process, Writes(p)
  PROVE  tx'[p] \in Transaction /\ tx'[p].stage # "none"
<1>0. /\ tx \in [Process -> Transaction] /\ NoTx \in Transaction
      /\ runs \in [Run -> RunRow] /\ attempts \in [Attempt -> AttemptRow]
  <2>1. NoTx \in Transaction
    BY DEF NoTx, Transaction, Column, NoAttempt, AttemptRow, NoRun, RunRow
  <2> QED BY <2>1 DEF LockInv, IInv, TypeOK
<1>1. ASSUME NEW a \in Attempt, NEW row \in AttemptRow, WriteAttempt(p, a, row)
      PROVE  tx'[p] \in Transaction /\ tx'[p].stage # "none"
  BY <1>0, <1>1 DEF WriteAttempt, NoTx, Transaction, Column
<1>2. ASSUME NEW r \in Run, NEW row \in RunRow, WriteRun(p, r, row)
      PROVE  tx'[p] \in Transaction /\ tx'[p].stage # "none"
  BY <1>0, <1>2 DEF WriteRun, Transaction
<1>3. CASE p \in Handler /\ InsertAttempt(p)
  <2>1. PICK a \in Unused : WriteAttempt(p, a,
          NewAttempt(handler[p].run, NextAttemptNumber(handler[p].known)))
    BY <1>3 DEF InsertAttempt
  <2>2. NewAttempt(handler[p].run, NextAttemptNumber(handler[p].known)) \in AttemptRow
    BY <1>3, RetryFacts, NewAttemptType DEF InsertAttempt
  <2> QED BY <1>1, <2>1, <2>2 DEF Unused
<1>4. CASE p \in Handler /\ UpdateRun(p)
  <2>1. /\ handler[p].run \in Run /\ handler[p].row \in RunRow
        /\ tx[p].attempt \in Attempt
    BY <1>4, RetryFacts DEF UpdateRun, LockInv, RetrySound, Unused
  <2>2. RetriedRun(runs[handler[p].run], handler[p].row, tx[p].attempt) \in RunRow
    BY <1>0, <2>1, RunRowTypes
  <2> QED BY <1>2, <1>4, <2>1, <2>2 DEF UpdateRun
<1>5. CASE p \in Worker /\ (ClaimAttempt(p) \/ SaveAttempt(p))
  BY <1>0, <1>1, <1>5, JobFacts, ClaimedTypes, FinishedTypes DEF ClaimAttempt, SaveAttempt
<1>6. CASE p \in Worker /\ (ClaimRun(p) \/ SaveRun(p))
  <2>1. worker[p].pc # "idle"
    BY <1>6 DEF ClaimRun, SaveRun
  <2>2. CASE tx' = [tx EXCEPT ![p].stage = "run"]
    BY <1>0, <2>2 DEF Transaction
  <2>3. CASE ClaimRun(p)
    BY <1>0, <1>2, <1>6, <2>1, <2>3, JobFacts, ClaimedTypes DEF ClaimRun
  <2>4. CASE SaveRun(p)
    BY <1>0, <1>2, <1>6, <2>1, <2>2, <2>4, JobFacts, FinishedTypes DEF SaveRun
  <2> QED BY <1>6, <2>3, <2>4
<1> QED BY <1>3, <1>4, <1>5, <1>6 DEF Writes

(***************************************************************************)
(* Two transactions never write the same row                               *)
(***************************************************************************)
\* The number a worker's transaction writes is that of its attempt; the one a
\* pending retry writes is free.
LEMMA WrittenNumber ==
  ASSUME IInv, LockInv, NEW p \in Process, tx[p].stage # "none"
  PROVE  \/ NumberFree(tx[p].arow.run, tx[p].arow.number)
         \/ /\ tx[p].attempt \in AttemptsOf(tx[p].arow.run)
            /\ attempts[tx[p].attempt].number = tx[p].arow.number
<1>1. CASE p \in Handler
  <2>1. RetrySound(p)
    BY <1>1 DEF LockInv
  <2> QED BY <2>1 DEF RetrySound, NewAttempt, NoAttempt
<1>2. CASE p \in Worker
  <2> DEFINE a == worker[p].attempt
  <2>1. /\ JobTxSound(p) /\ worker[p].pc \in {"taken", "result"}
        /\ tx[p].attempt = a
    BY <1>2 DEF LockInv, JobTxSound
  <2>2. a \in Attempt /\ attempts[a] \in AttemptRow
    BY <1>2, <2>1, JobFacts
  <2>3. tx[p].arow.run = attempts[a].run /\ tx[p].arow.number = attempts[a].number
    BY <2>1, <2>2 DEF JobTxSound, ClaimSound, SaveSound, Claimed, Finished, AttemptRow
  <2> QED BY <2>1, <2>2, <2>3 DEF AttemptsOf
<1> QED BY <1>1, <1>2 DEF Process

\* A worker locks a row of its own: whoever else has a transaction open with an
\* attempt of the same run has another number.
LEMMA NumbersApart ==
  ASSUME IInv, LockInv, NEW a \in Attempt, NEW q \in Process,
         a \notin Unused, tx[q].stage # "none", tx[q].attempt # a,
         tx[q].arow.run = attempts[a].run
  PROVE  tx[q].arow.number # attempts[a].number
<1>1. attempts[a].run \in Run /\ Exists(attempts[a].run) /\ a \in AttemptsOf(attempts[a].run)
  BY LockedRows DEF AttemptsOf
<1>2. CASE NumberFree(tx[q].arow.run, tx[q].arow.number)
  BY <1>1, <1>2 DEF NumberFree
<1>3. CASE /\ tx[q].attempt \in AttemptsOf(tx[q].arow.run)
           /\ attempts[tx[q].attempt].number = tx[q].arow.number
  BY <1>1, <1>3, RowFacts DEF Numbered
<1> QED BY <1>2, <1>3, WrittenNumber

Apart(p, q) == /\ tx[p].attempt # None => tx[p].attempt # tx[q].attempt
               /\ tx[p].run # None => tx[p].run # tx[q].run
               /\ tx[p].arow.run # None /\ tx[p].arow.run = tx[q].arow.run
                    => tx[p].arow.number # tx[q].arow.number

\* A statement waits for every row another transaction has locked.
LEMMA WritesStayApart ==
  ASSUME IInv, LockInv, NEW p \in Process, Writes(p), NEW q \in Process \ {p},
         Still(q)
  PROVE  Apart(p, q)'
<1>0. /\ tx \in [Process -> Transaction] /\ tx'[q] = tx[q] /\ Apart(p, q)
      /\ tx[q].stage = "none" => tx[q] = NoTx
      /\ NoTx.run = None /\ NoTx.attempt = None /\ NoTx.arow.run = None
  BY DEF LockInv, WritesApart, Still, Apart, NoTx, NoAttempt
<1>1. ASSUME NEW a, NEW row, WriteAttempt(p, a, row), a # None, row.run # None,
             tx[q].attempt # a,
             tx[q].stage # "none" /\ tx[q].arow.run = row.run => tx[q].arow.number # row.number
      PROVE  Apart(p, q)'
  <2>1. tx'[p].attempt = a /\ tx'[p].arow = row /\ tx'[p].run = None
    BY <1>0, <1>1 DEF WriteAttempt, NoTx
  <2> QED BY <1>0, <1>1, <2>1 DEF Apart
<1>2. ASSUME NEW r, NEW row, WriteRun(p, r, row), RunFree(p, r)
      PROVE  Apart(p, q)'
  <2>1. tx'[p].attempt = tx[p].attempt /\ tx'[p].arow = tx[p].arow /\ tx'[p].run = r
    BY <1>0, <1>2 DEF WriteRun, Transaction
  <2> QED BY <1>0, <1>2, <2>1 DEF Apart, RunFree
<1>3. CASE p \in Handler /\ InsertAttempt(p)
  <2> DEFINE r == handler[p].run
             n == NextAttemptNumber(handler[p].known)
  <2>1. PICK a \in Unused : AttemptFree(p, a) /\ WriteAttempt(p, a, NewAttempt(r, n))
    BY <1>3 DEF InsertAttempt
  <2>2. tx[q].attempt # a /\ (tx[q].arow.run = r => tx[q].arow.number # n)
    BY <1>3, <2>1 DEF InsertAttempt, KeyFree, AttemptFree
  <2>3. NewAttempt(r, n).run = r /\ NewAttempt(r, n).number = n
    BY DEF NewAttempt, NoAttempt
  <2>4. a # None /\ r # None
    BY <1>3, RetryFacts, NoneAssumption DEF Unused, InsertAttempt
  <2> QED BY <1>1, <2>1, <2>2, <2>3, <2>4
<1>4. CASE p \in Worker /\ (ClaimAttempt(p) \/ SaveAttempt(p))
  <2> DEFINE a == worker[p].attempt
             o == worker[p].outcome
  <2>1. /\ a \in Attempt /\ a \notin Unused /\ attempts[a] \in AttemptRow
        /\ attempts[a].run \in Run
    BY <1>4, JobFacts DEF ClaimAttempt, SaveAttempt
  <2>2. PICK row : /\ row = Claimed(attempts[a], a) \/ row = Finished(attempts[a], a, o)
                   /\ WriteAttempt(p, a, row)
    BY <1>4 DEF ClaimAttempt, SaveAttempt
  <2>3. row.run = attempts[a].run /\ row.number = attempts[a].number
    BY <2>1, <2>2 DEF Claimed, Finished, AttemptRow
  <2>4. tx[q].attempt # a
    BY <1>4 DEF ClaimAttempt, SaveAttempt, AttemptFree
  <2>5. a # None /\ attempts[a].run # None
    BY <2>1, NoneAssumption
  <2>6. tx[q].stage # "none" /\ tx[q].arow.run = row.run => tx[q].arow.number # row.number
    BY <2>1, <2>3, <2>4, NumbersApart
  <2> QED BY <1>1, <2>2, <2>3, <2>4, <2>5, <2>6
<1>5. CASE p \in Worker /\ SaveRun(p) /\ tx' = [tx EXCEPT ![p].stage = "run"]
  <2>1. tx'[p].attempt = tx[p].attempt /\ tx'[p].arow = tx[p].arow /\ tx'[p].run = tx[p].run
    BY <1>0, <1>5 DEF Transaction
  <2> QED BY <1>0, <2>1 DEF Apart
<1>6. CASE \/ p \in Handler /\ UpdateRun(p)
           \/ p \in Worker /\ (ClaimRun(p) \/ SaveRun(p))
  BY <1>2, <1>5, <1>6 DEF UpdateRun, ClaimRun, SaveRun
<1> QED BY <1>3, <1>4, <1>6 DEF Writes

\* Two open transactions stay apart in every step.
LEMMA ApartStep ==
  ASSUME IInv, LockInv, [LockNext]_lockVars
  PROVE  WritesApart'
<1> SUFFICES ASSUME NEW p \in Process, NEW q \in Process, p # q PROVE Apart(p, q)'
  BY DEF WritesApart, Apart
<1>0. Apart(p, q) /\ Apart(q, p) /\ NoTx.attempt = None /\ NoTx.run = None /\ NoTx.arow.run = None
  BY DEF LockInv, WritesApart, Apart, NoTx, NoAttempt
<1>1. CASE \A m \in Process : Still(m)
  BY <1>0, <1>1 DEF Still, Apart
<1>2. ASSUME NEW m \in Process, Writes(m) \/ tx'[m] = NoTx,
             \A k \in Process \ {m} : Still(k)
      PROVE  Apart(p, q)'
  <2>1. CASE m # p /\ m # q
    BY <1>0, <1>2, <2>1 DEF Still, Apart
  <2>2. CASE m = p /\ Writes(m)
    BY <1>2, <2>2, WritesStayApart
  <2>3. CASE m = q /\ Writes(m)
    <3>1. Apart(q, p)'
      BY <1>2, <2>3, WritesStayApart
    <3> QED BY <3>1 DEF Apart
  <2>4. CASE (m = p \/ m = q) /\ tx'[m] = NoTx
    BY <1>0, <2>4 DEF Apart
  <2> QED BY <1>2, <2>1, <2>2, <2>3, <2>4
<1> QED BY <1>1, <1>2, OneMoves

(***************************************************************************)
(* The invariant of the statements                                         *)
(***************************************************************************)
\* A statement of a retry leaves its transaction sound.
LEMMA RetryWrites ==
  ASSUME IInv, LockInv, NEW h \in Handler, InsertAttempt(h) \/ UpdateRun(h)
  PROVE  RetrySound(h)'
<1>0. /\ tx \in [Process -> Transaction] /\ RetrySound(h) /\ h \in Process
      /\ UNCHANGED vars
  BY DEF LockInv, Process, InsertAttempt, UpdateRun
<1> DEFINE r == handler[h].run
           n == NextAttemptNumber(handler[h].known)
<1>1. Retrying(h)' /\ n' = n /\ r' = r /\ Unused' = Unused
      /\ (NumberFree(r, n) => NumberFree(r, n)')
  BY <1>0 DEF vars, InsertAttempt, UpdateRun, Retrying, RetryAllowed, NextAttemptNumber,
     NumbersOf, Unused, NumberFree, AttemptsOf
<1>2. CASE InsertAttempt(h)
  <2>1. PICK a \in Unused : WriteAttempt(h, a, NewAttempt(r, n))
    BY <1>2 DEF InsertAttempt
  <2>2. /\ tx'[h].stage = "attempt" /\ tx'[h].attempt = a /\ tx'[h].run = None
        /\ tx'[h].arow = NewAttempt(r, n)
    BY <1>0, <2>1 DEF WriteAttempt, NoTx
  <2>3. NumberFree(r, n)
    BY <1>2 DEF InsertAttempt, KeyFree
  <2> QED BY <1>1, <2>2, <2>3 DEF RetrySound, NewAttempt
<1>3. CASE UpdateRun(h)
  <2>1. /\ tx'[h].stage = "run" /\ tx'[h].attempt = tx[h].attempt
        /\ tx'[h].arow = tx[h].arow /\ tx'[h].run = r
        /\ tx'[h].rrow = RetriedRun(runs[r], handler[h].row, tx[h].attempt)
    BY <1>0, <1>3 DEF UpdateRun, WriteRun, Transaction
  <2>2. tx[h].stage # "none"
    BY <1>3 DEF UpdateRun
  <2>3. runs' = runs /\ handler' = handler
    BY <1>0 DEF vars
  <2> QED BY <1>0, <1>1, <2>1, <2>2, <2>3 DEF RetrySound, NewAttempt
<1> QED BY <1>2, <1>3

\* So does a statement of a worker.
LEMMA JobWrites ==
  ASSUME IInv, LockInv, NEW w \in Worker,
         ClaimAttempt(w) \/ ClaimRun(w) \/ SaveAttempt(w) \/ SaveRun(w)
  PROVE  JobTxSound(w)'
<1>0. /\ tx \in [Process -> Transaction] /\ JobTxSound(w) /\ w \in Process
      /\ UNCHANGED vars
  BY DEF LockInv, Process, ClaimAttempt, ClaimRun, SaveAttempt, SaveRun
<1>1. runs' = runs /\ attempts' = attempts /\ worker' = worker
  BY <1>0 DEF vars
<1> DEFINE a == worker[w].attempt
           r == attempts[a].run
           o == worker[w].outcome
<1>2. CASE ClaimAttempt(w)
  <2>1. /\ tx'[w].stage = "attempt" /\ tx'[w].attempt = a /\ tx'[w].run = None
        /\ tx'[w].arow = Claimed(attempts[a], a)
    BY <1>0, <1>2 DEF ClaimAttempt, WriteAttempt, NoTx
  <2>2. worker[w].pc = "taken" /\ AttemptClaimable(a)
    BY <1>2 DEF ClaimAttempt
  <2> QED BY <1>1, <2>1, <2>2 DEF JobTxSound, ClaimSound, SaveSound, AttemptClaimable, Claimed
<1>3. CASE ClaimRun(w)
  <2>1. /\ tx'[w].stage = "run" /\ tx'[w].attempt = tx[w].attempt
        /\ tx'[w].arow = tx[w].arow /\ tx'[w].run = r
        /\ tx'[w].rrow = Claimed(runs[r], a)
    BY <1>0, <1>3 DEF ClaimRun, WriteRun, Transaction
  <2>2. worker[w].pc = "taken" /\ tx[w].stage = "attempt" /\ RunClaimable(r, a)
    BY <1>3 DEF ClaimRun
  <2> QED BY <1>0, <1>1, <2>1, <2>2
    DEF JobTxSound, ClaimSound, SaveSound, AttemptClaimable, RunClaimable, Claimed
<1>4. CASE SaveAttempt(w)
  <2>1. /\ tx'[w].stage = "attempt" /\ tx'[w].attempt = a /\ tx'[w].run = None
        /\ tx'[w].arow = Finished(attempts[a], a, o)
    BY <1>0, <1>4 DEF SaveAttempt, WriteAttempt, NoTx
  <2>2. worker[w].pc = "result"
    BY <1>4 DEF SaveAttempt
  <2> QED BY <1>1, <2>1, <2>2 DEF JobTxSound, ClaimSound, SaveSound, Finished
<1>5. CASE SaveRun(w)
  <2>1. worker[w].pc = "result" /\ tx[w].stage = "attempt" /\ tx[w].run = None
        /\ tx[w].attempt = a /\ tx[w].arow = Finished(attempts[a], a, o)
    BY <1>0, <1>5 DEF SaveRun, JobTxSound, SaveSound
  <2>2. /\ tx'[w].stage = "run" /\ tx'[w].attempt = tx[w].attempt
        /\ tx'[w].arow = tx[w].arow
        /\ IF runs[r].current = a
             THEN tx'[w].run = r /\ tx'[w].rrow = Finished(runs[r], a, o)
             ELSE tx'[w].run = tx[w].run
    BY <1>0, <1>5 DEF SaveRun, WriteRun, Transaction, RunTakesResult
  <2> HIDE DEF a, r, o
  <2>3. a' = a /\ r' = r /\ o' = o /\ runs' = runs /\ attempts' = attempts
    BY <1>1 DEF a, r, o
  <2>4. ClaimSound(w)'
    BY <1>1, <2>1 DEF ClaimSound
  <2>5. SaveSound(w)'
    BY <2>1, <2>2, <2>3 DEF SaveSound, RunTakesResult, a, r, o
  <2> QED BY <1>1, <2>1, <2>2, <2>3, <2>4, <2>5 DEF JobTxSound, a
<1> QED BY <1>2, <1>3, <1>4, <1>5

\* Every statement updates tx as a function.
LEMMA TxFunction ==
  ASSUME [LockNext]_lockVars, tx \in [Process -> Transaction]
  PROVE  tx' = [p \in Process |-> tx'[p]]
<1> USE DEF WriteAttempt, WriteRun, CommitTx, Rollback
<1>1. CASE UNCHANGED tx
  BY <1>1
<1>2. ASSUME NEW h \in Handler, RetryStatement(h) \/ RequestEnds(h)
      PROVE  tx' = [p \in Process |-> tx'[p]]
  BY <1>2 DEF RetryStatement, RequestEnds, InsertAttempt, UpdateRun, CommitRetry
<1>3. ASSUME NEW w \in Worker, ClaimAttempt(w) \/ ClaimRun(w) \/ ClaimMisses(w) \/ CommitClaim(w)
      PROVE  tx' = [p \in Process |-> tx'[p]]
  BY <1>3 DEF ClaimAttempt, ClaimRun, ClaimMisses, CommitClaim
<1>4. ASSUME NEW w \in Worker, SaveAttempt(w) \/ SaveRun(w) \/ CommitSave(w)
      PROVE  tx' = [p \in Process |-> tx'[p]]
  <2>1. CASE SaveRun(w)
    <3>1. CASE tx' = [tx EXCEPT ![w].stage = "run"]
      BY <3>1
    <3>2. CASE WriteRun(w, attempts[worker[w].attempt].run,
                 Finished(runs[attempts[worker[w].attempt].run], worker[w].attempt, worker[w].outcome))
      BY <3>2
    <3> QED BY <2>1, <3>1, <3>2 DEF SaveRun
  <2> QED BY <1>4, <2>1 DEF SaveAttempt, CommitSave
<1>5. ASSUME NEW w \in Worker, SaveMisses(w) \/ OtherJobStep(w) PROVE UNCHANGED tx
  BY <1>5 DEF SaveMisses, OtherJobStep
<1>6. ASSUME NEW h \in Handler, OtherRequestStep(h) PROVE UNCHANGED tx
  BY <1>6 DEF OtherRequestStep
<1>7. ASSUME NEW w \in Worker, HorseDies(w) /\ Rollback(w) PROVE tx' = [p \in Process |-> tx'[p]]
  BY <1>7
<1> QED
  BY <1>1, <1>2, <1>3, <1>4, <1>5, <1>6, <1>7 DEF LockNext, WorkerStatement, SaveFirst, lockVars

\* The transactions stay sound in every step.
LEMMA LockInvStep ==
  ASSUME IInv, LockInv, [LockNext]_lockVars
  PROVE  LockInv'
<1>0. /\ tx \in [Process -> Transaction] /\ Handler \cap Worker = {}
      /\ \A p \in Process : tx[p].stage = "none" => tx[p] = NoTx
  BY ProcessAssumption DEF LockInv
<1>1. NoTx \in Transaction /\ NoTx.stage = "none"
  BY DEF NoTx, Transaction, Column, NoAttempt, AttemptRow, NoRun, RunRow
<1>2. ASSUME NEW p \in Process, Still(p)
      PROVE  /\ tx'[p] \in Transaction /\ (tx'[p].stage = "none" => tx'[p] = NoTx)
             /\ p \in Handler => RetrySound(p)'
             /\ p \in Worker => JobTxSound(p)'
  BY <1>0, <1>2, RetryKept, JobTxKept DEF Still
<1>3. ASSUME NEW p \in Process, Writes(p)
      PROVE  /\ tx'[p] \in Transaction /\ (tx'[p].stage = "none" => tx'[p] = NoTx)
             /\ p \in Handler => RetrySound(p)'
             /\ p \in Worker => JobTxSound(p)'
  BY <1>0, <1>3, WritesType, RetryWrites, JobWrites DEF Writes
<1>4. ASSUME NEW p \in Process, tx'[p] = NoTx
      PROVE  /\ tx'[p] \in Transaction /\ (tx'[p].stage = "none" => tx'[p] = NoTx)
             /\ p \in Handler => RetrySound(p)'
             /\ p \in Worker => JobTxSound(p)'
  <2>1. tx'[p].stage = "none"
    BY <1>1, <1>4
  <2>2. RetrySound(p)' /\ ClaimSound(p)' /\ SaveSound(p)'
    BY <2>1 DEF RetrySound, ClaimSound, SaveSound
  <2>3. JobTxSound(p)'
    BY <2>1, <2>2 DEF JobTxSound
  <2> QED BY <1>1, <1>4, <2>2, <2>3
<1>5. \A p \in Process :
        /\ tx'[p] \in Transaction /\ (tx'[p].stage = "none" => tx'[p] = NoTx)
        /\ p \in Handler => RetrySound(p)'
        /\ p \in Worker => JobTxSound(p)'
  <2>1. ASSUME NEW p \in Process PROVE Still(p) \/ Writes(p) \/ tx'[p] = NoTx
    BY OneMoves
  <2> QED BY <1>2, <1>3, <1>4, <2>1
<1>6. tx' \in [Process -> Transaction]
  BY <1>0, <1>5, TxFunction
<1>7. WritesApart'
  BY ApartStep
<1> QED BY <1>5, <1>6, <1>7 DEF LockInv, Process

-----------------------------------------------------------------------------
\* Between any two statements the rows, requests and jobs satisfy the invariant
\* of RunSystem, and the open transactions that of the locks.
THEOREM StatementsSound == LockSpec => [](IInv /\ LockInv)
<1>1. LockInit => IInv /\ LockInv
  BY InitIInv, InitLockInv DEF LockInit
<1>2. IInv /\ LockInv /\ [LockNext]_lockVars => (IInv /\ LockInv)'
  BY StepImplements, NextIInv, LockInvStep
<1> QED BY <1>1, <1>2, PTL DEF LockSpec

\* What an open transaction has seen is what its commit finds.
THEOREM LocksHold == LockSpec => []LockInv
BY StatementsSound, PTL

\* No two open transactions write the same row or the same number.
THEOREM WritesApartCorrect == LockSpec => []WritesApart
<1>1. LockInv => WritesApart
  BY DEF LockInv
<1> QED BY <1>1, StatementsSound, PTL

\* Claim, terminal write and retry, statement by statement under row locks,
\* implement the atomic transactions of RunSystem.
THEOREM LocksImplementAtomic == LockSpec => ImplementsAtomic
<1>1. LockInit => Init
  BY DEF LockInit
<1>2. IInv /\ LockInv /\ [LockNext]_lockVars => [Next]_vars
  BY StepImplements
<1> QED BY <1>1, <1>2, StatementsSound, PTL DEF LockSpec, ImplementsAtomic, Spec

\* So does the log of attempts follow from the statements.
THEOREM LocksImplementLog == LockSpec => ImplementsLog
BY LocksImplementAtomic, LogImplemented DEF ImplementsAtomic
=============================================================================
