--------------------------- MODULE RunSystemProofs ---------------------------
(* Theorems about RunSystem, for every set of runs, attempts, handlers and *)
(* workers and every number of repeated deliveries.                        *)
EXTENDS RunSystemInvariant, TLAPS

(***************************************************************************)
(* What the row operators return                                           *)
(***************************************************************************)
\* A new attempt row is an attempt row.
LEMMA NewAttemptType ==
  ASSUME NEW r \in Run, NEW n \in Nat
  PROVE  NewAttempt(r, n) \in AttemptRow
BY DEF NewAttempt, NoAttempt, AttemptRow, Status, Terminal, Column

\* A new run row, and the row a retry leaves, are run rows.
LEMMA RunRowTypes ==
  ASSUME NEW a \in Attempt, NEW row \in RunRow, NEW loaded \in RunRow
  PROVE  /\ NewRun(a) \in RunRow
         /\ RetriedRun(row, loaded, a) \in RunRow
BY DEF NewRun, NoRun, RetriedRun, Cleared, RunRow, Status, Terminal, Column

\* The claim keeps a row in its table.
LEMMA ClaimedTypes ==
  ASSUME NEW a \in Attempt
  PROVE  /\ \A row \in RunRow : Claimed(row, a) \in RunRow
         /\ \A row \in AttemptRow : Claimed(row, a) \in AttemptRow
<1>1. ASSUME NEW row \in RunRow PROVE Claimed(row, a) \in RunRow
  BY DEF Claimed, RunRow, Status, Column
<1>2. ASSUME NEW row \in AttemptRow PROVE Claimed(row, a) \in AttemptRow
  BY DEF Claimed, AttemptRow, Status, Column
<1> QED BY <1>1, <1>2

\* So does the terminal write.
LEMMA FinishedTypes ==
  ASSUME NEW a \in Attempt, NEW o \in Outcome
  PROVE  /\ \A row \in RunRow : Finished(row, a, o) \in RunRow
         /\ \A row \in AttemptRow : Finished(row, a, o) \in AttemptRow
<1>1. /\ o.status \in Status
      /\ (IF o.summary THEN a ELSE None) \in Column
      /\ (IF o.status = "failed" THEN a ELSE None) \in Column
      /\ a \in Column
  BY DEF Outcome, Succeeded, FailedWithSummary, FailedBare, Status, Terminal, Column
<1>2. ASSUME NEW row \in RunRow PROVE Finished(row, a, o) \in RunRow
  BY <1>1 DEF Finished, RunRow
<1>3. ASSUME NEW row \in AttemptRow PROVE Finished(row, a, o) \in AttemptRow
  BY <1>1 DEF Finished, AttemptRow
<1> QED BY <1>2, <1>3

\* An idle handler and an idle worker have the type of any other.
LEMMA IdleTypes ==
  NoRequest \in Request /\ NoJob \in Job
BY DEF NoRequest, Request, NoJob, Job, NoRun, RunRow, Status, Terminal, Column,
       Outcome, FailedBare

(***************************************************************************)
(* Types                                                                   *)
(***************************************************************************)
\* The number of the next attempt is a number when the collection has a last
\* number, as every collection that was loaded does.
LEMMA NextNumberType ==
  ASSUME TypeOK, NEW known \in SUBSET Attempt,
         known # {} =>
           \E n \in NumbersOf(known) : \A m \in NumbersOf(known) : m <= n
  PROVE  /\ NextAttemptNumber(known) \in Nat
         /\ \A a \in known : attempts[a].number < NextAttemptNumber(known)
         /\ known # {} => \E a \in known : NextAttemptNumber(known) = 1 + attempts[a].number
<1>1. NumbersOf(known) \in SUBSET Nat
  BY DEF TypeOK, NumbersOf, AttemptRow
<1>2. CASE known = {}
  BY <1>2 DEF NextAttemptNumber
<1>3. CASE known # {}
  <2> DEFINE last == CHOOSE n \in NumbersOf(known) : \A m \in NumbersOf(known) : m <= n
  <2>1. last \in NumbersOf(known) /\ \A m \in NumbersOf(known) : m <= last
    BY <1>3
  <2>2. NextAttemptNumber(known) = 1 + last
    BY <1>3 DEF NextAttemptNumber
  <2> HIDE DEF last
  <2>3. \A a \in known : attempts[a].number \in NumbersOf(known)
    BY DEF NumbersOf
  <2>4. \E a \in known : last = attempts[a].number
    BY <2>1 DEF NumbersOf
  <2> QED BY <1>1, <2>1, <2>2, <2>3, <2>4
<1> QED BY <1>2, <1>3

(***************************************************************************)
(* The initial state                                                       *)
(***************************************************************************)
\* The invariant holds before the first request.
LEMMA InitIInv == Init => IInv
<1> SUFFICES ASSUME Init PROVE IInv
  OBVIOUS
<1> USE DEF Init
<1>1. TypeOK
  <2>1. NoRun \in RunRow /\ NoAttempt \in AttemptRow
    BY DEF NoRun, NoAttempt, RunRow, AttemptRow, Column
  <2>2. <<>> \in Seq(Attempt) /\ 0 \in 0 .. MaxRedeliveries
    BY RedeliveriesAssumption
  <2> QED BY <2>1, <2>2, IdleTypes DEF TypeOK
<1>2. \A r \in Run : ~Exists(r)
  BY DEF Exists, NoRun
<1>3. AttemptShape
  BY DEF AttemptShape, NoAttempt
<1>4. RunMirrorsCurrent /\ Numbered
  BY <1>2 DEF RunMirrorsCurrent, Numbered
<1>5. \A h \in Handler : RequestSound(h)
  BY DEF RequestSound, NoRequest
<1>6. JobsSound
  <2>1. QueueSound
    BY DEF QueueSound
  <2>2. \A w \in Worker : JobSound(w)
    BY DEF JobSound, NoJob
  <2>3. ExecutionSound
    BY DEF ExecutionSound, Holds, NoJob
  <2> QED BY <2>1, <2>2, <2>3 DEF JobsSound
<1> QED BY <1>1, <1>3, <1>4, <1>5, <1>6 DEF IInv, RowsSound

(***************************************************************************)
(* Every step keeps the types                                              *)
(***************************************************************************)
\* No handler, worker or delivery step takes a variable out of its type.
LEMMA TypeStep == IInv /\ [Next]_vars => TypeOK'
<1> SUFFICES ASSUME IInv, [Next]_vars PROVE TypeOK'
  OBVIOUS
<1> USE DEF TypeOK, db, redis
<1>0. TypeOK /\ RowsSound /\ JobsSound /\ \A h \in Handler : RequestSound(h)
  BY DEF IInv
<1>1. ASSUME NEW h \in Handler, CreateRun(h) PROVE TypeOK'
  <2>1. PICK r \in Run, a \in Unused :
          /\ runs' = [runs EXCEPT ![r] = NewRun(a)]
          /\ attempts' = [attempts EXCEPT ![a] = NewAttempt(r, 1)]
          /\ handler' = [handler EXCEPT ![h] =
               [NoRequest EXCEPT !.pc = "enqueue", !.run = r, !.attempt = a]]
    BY <1>1 DEF CreateRun
  <2>2. a \in Attempt
    BY DEF Unused
  <2>3. NewRun(a) \in RunRow /\ NewAttempt(r, 1) \in AttemptRow
    BY <2>2, NewAttemptType, RunRowTypes, IdleTypes DEF Request, NoRequest
  <2>4. [NoRequest EXCEPT !.pc = "enqueue", !.run = r, !.attempt = a] \in Request
    BY <2>2, IdleTypes DEF Request, Column
  <2> QED BY <1>0, <1>1, <2>1, <2>2, <2>3, <2>4 DEF CreateRun
<1>2. ASSUME NEW h \in Handler, ReadRun(h) PROVE TypeOK'
  <2>1. PICK r \in Run : handler' = [handler EXCEPT ![h] =
          [NoRequest EXCEPT !.pc = "reading", !.run = r, !.row = runs[r]]]
    BY <1>2 DEF ReadRun
  <2>2. [NoRequest EXCEPT !.pc = "reading", !.run = r, !.row = runs[r]] \in Request
    BY <1>0, IdleTypes DEF Request
  <2> QED BY <1>0, <1>2, <2>1, <2>2 DEF ReadRun
<1>3. ASSUME NEW h \in Handler, handler[h].pc = "reading"
      PROVE  attempts[handler[h].row.current].status \in Status \cup {"absent"}
  BY <1>0, <1>3 DEF RequestSound, AttemptsOf, AttemptRow
<1>4. ASSUME NEW h \in Handler, ReadCurrent(h) PROVE TypeOK'
  <2>1. [handler[h] EXCEPT !.cur = attempts[handler[h].row.current].status] \in Request
    BY <1>0, <1>3, <1>4 DEF ReadCurrent, Request
  <2> QED BY <1>0, <1>4, <2>1 DEF ReadCurrent
<1>5. ASSUME NEW h \in Handler, ReadAttempts(h) PROVE TypeOK'
  <2> DEFINE cur == IF handler[h].cur = "absent"
                      THEN attempts[handler[h].row.current].status
                      ELSE handler[h].cur
             req == [handler[h] EXCEPT !.pc = "loaded",
                                       !.known = AttemptsOf(handler[h].run),
                                       !.cur = cur]
  <2>1. handler[h] \in Request
    BY <1>0
  <2>2. cur \in Status \cup {"absent"}
    BY <1>3, <1>5, <2>1 DEF ReadAttempts, Request
  <2>3. AttemptsOf(handler[h].run) \in SUBSET Attempt
    BY DEF AttemptsOf
  <2>4. req \in Request
    <3> HIDE DEF cur
    <3> QED BY <2>1, <2>2, <2>3 DEF Request
  <2>5. handler' = [handler EXCEPT ![h] = req]
    BY <1>5 DEF ReadAttempts
  <2> HIDE DEF req
  <2> QED BY <1>0, <1>5, <2>4, <2>5 DEF ReadAttempts
<1>6. ASSUME NEW h \in Handler, EndRequest(h) PROVE TypeOK'
  BY <1>0, <1>6, IdleTypes DEF EndRequest
<1>7. ASSUME NEW h \in Handler, RetryCommit(h) PROVE TypeOK'
  <2> DEFINE r == handler[h].run
             n == NextAttemptNumber(handler[h].known)
  <2>1. PICK a \in Unused :
          /\ attempts' = [attempts EXCEPT ![a] = NewAttempt(r, n)]
          /\ runs' = [runs EXCEPT ![r] = RetriedRun(@, handler[h].row, a)]
          /\ handler' = [handler EXCEPT ![h] =
               [NoRequest EXCEPT !.pc = "enqueue", !.run = r, !.attempt = a]]
    BY <1>7 DEF RetryCommit
  <2>2. a \in Attempt /\ r \in Run /\ handler[h] \in Request
    BY <1>0, <1>7 DEF Unused, RetryCommit, RequestSound
  <2>3. n \in Nat
    BY <1>0, <1>7, NextNumberType DEF RetryCommit, RequestSound, HasLast, Request
  <2>4. NewAttempt(r, n) \in AttemptRow
    BY <2>2, <2>3, NewAttemptType
  <2>5. runs[r] \in RunRow /\ handler[h].row \in RunRow
    BY <1>0, <2>2 DEF Request
  <2>6. RetriedRun(runs[r], handler[h].row, a) \in RunRow
    BY <2>2, <2>5, RunRowTypes
  <2>7. [NoRequest EXCEPT !.pc = "enqueue", !.run = r, !.attempt = a] \in Request
    BY <2>2, IdleTypes DEF Request, Column
  <2> HIDE DEF r, n
  <2> QED BY <1>0, <1>7, <2>1, <2>2, <2>4, <2>6, <2>7 DEF RetryCommit
<1>8. ASSUME NEW h \in Handler, Enqueue(h) PROVE TypeOK'
  <2>1. handler[h].attempt \in Attempt
    BY <1>0, <1>8 DEF Enqueue, RequestSound
  <2> QED BY <1>0, <1>8, <2>1, IdleTypes DEF Enqueue
<1>9. ASSUME NEW h \in Handler, EnqueueFails(h) PROVE TypeOK'
  <2>1. handler[h].attempt \in Attempt
    BY <1>0, <1>9 DEF EnqueueFails, RequestSound
  <2> QED BY <1>0, <1>9, <2>1, IdleTypes DEF EnqueueFails
<1>10. ASSUME NEW w \in Worker, TakeJob(w) PROVE TypeOK'
  <2>1. Head(queue) \in Attempt /\ Tail(queue) \in Seq(Attempt)
    BY <1>0, <1>10 DEF TakeJob
  <2>2. [NoJob EXCEPT !.pc = "taken", !.attempt = Head(queue)] \in Job
    BY <2>1, IdleTypes DEF Job, Column
  <2> QED BY <1>0, <1>10, <2>1, <2>2 DEF TakeJob
<1>11. ASSUME NEW w \in Worker, worker[w].pc # "idle"
       PROVE  /\ worker[w].attempt \in Attempt
              /\ attempts[worker[w].attempt].run \in Run
  BY <1>0, <1>11 DEF JobsSound, JobSound, Unused, RowsSound, AttemptShape, AttemptRow
<1>12. ASSUME NEW w \in Worker, Claim(w) PROVE TypeOK'
  <2> DEFINE a == worker[w].attempt
             r == attempts[a].run
  <2>1. a \in Attempt /\ r \in Run
    BY <1>11, <1>12 DEF Claim
  <2>2. Claimed(attempts[a], a) \in AttemptRow /\ Claimed(runs[r], a) \in RunRow
    BY <1>0, <2>1, ClaimedTypes
  <2>3. [worker[w] EXCEPT !.pc = "claimed"] \in Job
    BY <1>0 DEF Job
  <2>4. /\ attempts' = [attempts EXCEPT ![a] = Claimed(attempts[a], a)]
        /\ runs' = [runs EXCEPT ![r] = Claimed(runs[r], a)]
        /\ worker' = [worker EXCEPT ![w] = [worker[w] EXCEPT !.pc = "claimed"]]
        /\ UNCHANGED <<redis, handler, executed, lost>>
    BY <1>12 DEF Claim
  <2> HIDE DEF a, r
  <2> QED BY <1>0, <2>1, <2>2, <2>3, <2>4
<1>13. ASSUME NEW w \in Worker, DeclineJob(w) PROVE TypeOK'
  BY <1>0, <1>13, IdleTypes DEF DeclineJob
<1>14. ASSUME NEW w \in Worker, StartRunner(w) PROVE TypeOK'
  <2>1. worker[w].attempt \in Attempt
    BY <1>11, <1>14 DEF StartRunner
  <2>2. [worker[w] EXCEPT !.pc = "executing"] \in Job
    BY <1>0 DEF Job
  <2> QED BY <1>0, <1>14, <2>1, <2>2 DEF StartRunner
<1>15. ASSUME NEW w \in Worker, RunnerMissing(w) PROVE TypeOK'
  <2>1. [worker[w] EXCEPT !.pc = "result", !.outcome = FailedBare] \in Job
    BY <1>0 DEF Job, Outcome
  <2> QED BY <1>0, <1>15, <2>1 DEF RunnerMissing
<1>16. ASSUME NEW w \in Worker, RunnerReturns(w) PROVE TypeOK'
  <2>1. PICK o \in Outcome :
          worker' = [worker EXCEPT ![w].pc = "result", ![w].outcome = o]
    BY <1>16 DEF RunnerReturns
  <2>2. [worker[w] EXCEPT !.pc = "result", !.outcome = o] \in Job
    BY <1>0 DEF Job
  <2> QED BY <1>0, <1>16, <2>1, <2>2 DEF RunnerReturns
<1>17. ASSUME NEW w \in Worker, Persist(w) PROVE TypeOK'
  <2> DEFINE a == worker[w].attempt
             r == attempts[a].run
             o == worker[w].outcome
  <2>1. a \in Attempt /\ r \in Run /\ o \in Outcome
    BY <1>0, <1>11, <1>17 DEF Persist, Job
  <2>2. Finished(attempts[a], a, o) \in AttemptRow /\ Finished(runs[r], a, o) \in RunRow
    BY <1>0, <2>1, FinishedTypes
  <2>3. /\ \/ attempts' = attempts
           \/ attempts' = [attempts EXCEPT ![a] = Finished(attempts[a], a, o)]
        /\ \/ runs' = runs
           \/ runs' = [runs EXCEPT ![r] = Finished(runs[r], a, o)]
        /\ worker' = [worker EXCEPT ![w] = NoJob]
        /\ UNCHANGED <<redis, handler, executed, lost>>
    BY <1>17 DEF Persist
  <2> HIDE DEF a, r, o
  <2>4. attempts' \in [Attempt -> AttemptRow] /\ runs' \in [Run -> RunRow]
    BY <1>0, <2>1, <2>2, <2>3
  <2> QED BY <1>0, <2>3, <2>4, IdleTypes
<1>18. ASSUME NEW w \in Worker, HorseDies(w) PROVE TypeOK'
  BY <1>0, <1>11, <1>18, IdleTypes DEF HorseDies
<1>19. ASSUME NEW a \in Attempt, Redeliver(a) PROVE TypeOK'
  BY <1>0, <1>19, RedeliveriesAssumption DEF Redeliver
<1>20. CASE QueueLost
  <2>1. {queue[i] : i \in 1 .. Len(queue)} \in SUBSET Attempt
    BY <1>0
  <2>2. <<>> \in Seq(Attempt)
    OBVIOUS
  <2> QED BY <1>0, <1>20, <2>1, <2>2 DEF QueueLost
<1>21. CASE UNCHANGED vars
  BY <1>0, <1>21 DEF vars
<1> QED
  BY <1>1, <1>2, <1>4, <1>5, <1>6, <1>7, <1>8, <1>9, <1>10, <1>12, <1>13, <1>14,
     <1>15, <1>16, <1>17, <1>18, <1>19, <1>20, <1>21
     DEF Next, RequestStep, JobStep

(***************************************************************************)
(* The four transactions that write rows                                   *)
(***************************************************************************)
Inserts(r, a) ==
  /\ a \in Unused
  /\ ~Exists(r)
  /\ runs' = [runs EXCEPT ![r] = NewRun(a)]
  /\ attempts' = [attempts EXCEPT ![a] = NewAttempt(r, 1)]

Retries(r, a, n, loaded) ==
  /\ a \in Unused
  /\ Exists(r)
  /\ n = CurrentOf(r).number + 1
  /\ loaded.started # None /\ loaded.error # None /\ loaded.finished # None
  /\ runs' = [runs EXCEPT ![r] = RetriedRun(runs[r], loaded, a)]
  /\ attempts' = [attempts EXCEPT ![a] = NewAttempt(r, n)]

Claims(r, a) ==
  /\ attempts[a].run = r
  /\ attempts[a].status = "queued"
  /\ runs[r].current = a
  /\ runs' = [runs EXCEPT ![r] = Claimed(runs[r], a)]
  /\ attempts' = [attempts EXCEPT ![a] = Claimed(attempts[a], a)]

Finishes(r, a, o) ==
  /\ attempts[a].run = r
  /\ attempts[a].status = "running"
  /\ runs' = IF runs[r].current = a
               THEN [runs EXCEPT ![r] = Finished(runs[r], a, o)]
               ELSE runs
  /\ attempts' = [attempts EXCEPT ![a] = Finished(attempts[a], a, o)]

\* A retry that the unique constraint lets through has counted every attempt
\* of its run, however long ago it read them: an older collection yields a
\* number that is taken.
LEMMA RetryNumber ==
  ASSUME IInv, NEW h \in Handler, RetryCommit(h)
  PROVE  /\ handler[h].run \in Run
         /\ Exists(handler[h].run)
         /\ NextAttemptNumber(handler[h].known) = CurrentOf(handler[h].run).number + 1
<1> DEFINE r == handler[h].run
           known == handler[h].known
           n == NextAttemptNumber(known)
<1>1. /\ r \in Run /\ Exists(r)
      /\ known # {} /\ known \in SUBSET AttemptsOf(r) /\ known \in SUBSET Attempt
      /\ HasLast(known)
  BY DEF IInv, RequestSound, RetryCommit, AttemptsOf
<1>2. PICK b \in known : n = 1 + attempts[b].number
  BY <1>1, NextNumberType DEF IInv, HasLast
<1>3. /\ attempts[b].number \in Nat /\ CurrentOf(r).number \in Nat
      /\ attempts[b].number <= CurrentOf(r).number
  <2>1. runs[r].current \in AttemptsOf(r)
    BY <1>1 DEF IInv, RowsSound, RunMirrorsCurrent
  <2>2. attempts[b].number \in Nat /\ attempts[runs[r].current].number \in Nat
    BY <1>1, <2>1 DEF IInv, TypeOK, AttemptsOf, AttemptRow
  <2> QED BY <1>1, <2>2 DEF IInv, RowsSound, Numbered, CurrentOf
<1>4. ~ (n \in 1 .. CurrentOf(r).number)
  <2>1. \A c \in AttemptsOf(r) : attempts[c].number # n
    BY DEF RetryCommit, NumberFree
  <2> QED BY <1>1, <2>1 DEF IInv, RowsSound, Numbered
<1> HIDE DEF n
<1>5. n = CurrentOf(r).number + 1
  BY <1>2, <1>3, <1>4
<1> QED BY <1>1, <1>5 DEF n

\* No other step of the program writes a row.
LEMMA RowWrites ==
  ASSUME IInv, [Next]_vars
  PROVE  \/ UNCHANGED db
         \/ \E r \in Run, a \in Attempt : Inserts(r, a)
         \/ \E r \in Run, a \in Attempt, n \in Nat, loaded \in RunRow :
              /\ Retries(r, a, n, loaded)
              /\ \E h \in Handler :
                   RetryCommit(h) /\ handler[h].run = r /\ handler[h].row = loaded
         \/ \E r \in Run, a \in Attempt : Claims(r, a)
         \/ \E r \in Run, a \in Attempt, o \in Outcome : Finishes(r, a, o)
<1>0. TypeOK /\ RowsSound /\ JobsSound /\ \A h \in Handler : RequestSound(h)
  BY DEF IInv
<1>1. ASSUME NEW h \in Handler, CreateRun(h)
      PROVE  \E r \in Run, a \in Attempt : Inserts(r, a)
  BY <1>1 DEF CreateRun, Inserts, Unused
<1>2. ASSUME NEW h \in Handler, RetryCommit(h)
      PROVE  \E r \in Run, a \in Attempt, n \in Nat, loaded \in RunRow :
               /\ Retries(r, a, n, loaded)
               /\ \E k \in Handler :
                    RetryCommit(k) /\ handler[k].run = r /\ handler[k].row = loaded
  <2> DEFINE r == handler[h].run
             n == NextAttemptNumber(handler[h].known)
             loaded == handler[h].row
  <2>1. PICK a \in Unused :
          /\ attempts' = [attempts EXCEPT ![a] = NewAttempt(r, n)]
          /\ runs' = [runs EXCEPT ![r] = RetriedRun(runs[r], loaded, a)]
    BY <1>2 DEF RetryCommit
  <2>2. a \in Attempt
    BY DEF Unused
  <2>3. r \in Run /\ Exists(r) /\ n = CurrentOf(r).number + 1
    BY <1>2, RetryNumber
  <2>4. n \in Nat
    BY <1>0, <1>2, NextNumberType DEF RetryCommit, RequestSound, HasLast, TypeOK, Request
  <2>5. loaded \in RunRow
    BY <1>0 DEF TypeOK, Request
  <2>6. loaded.started # None /\ loaded.error # None /\ loaded.finished # None
    BY <1>0, <1>2 DEF RetryCommit, RetryAllowed, RequestSound
  <2>7. \E k \in Handler :
          RetryCommit(k) /\ handler[k].run = r /\ handler[k].row = loaded
    BY <1>2
  <2> HIDE DEF n, loaded, r
  <2>8. Retries(r, a, n, loaded)
    BY <2>1, <2>3, <2>6 DEF Retries
  <2> QED BY <2>2, <2>3, <2>4, <2>5, <2>7, <2>8
<1>3. ASSUME NEW w \in Worker, worker[w].pc # "idle"
      PROVE  /\ worker[w].attempt \in Attempt
             /\ attempts[worker[w].attempt].run \in Run
  BY <1>0, <1>3 DEF TypeOK, JobsSound, JobSound, Unused, RowsSound, AttemptShape, AttemptRow
<1>4. ASSUME NEW w \in Worker, Claim(w)
      PROVE  \E r \in Run, a \in Attempt : Claims(r, a)
  <2>1. Claims(attempts[worker[w].attempt].run, worker[w].attempt)
    BY <1>4 DEF Claim, Claims, Claimable, AttemptClaimable, RunClaimable
  <2> QED BY <1>3, <1>4, <2>1 DEF Claim
<1>5. ASSUME NEW w \in Worker, Persist(w)
      PROVE  \/ UNCHANGED db
             \/ \E r \in Run, a \in Attempt, o \in Outcome : Finishes(r, a, o)
  <2>1. CASE ResultAccepted(worker[w].attempt)
    <3>1. Finishes(attempts[worker[w].attempt].run, worker[w].attempt, worker[w].outcome)
      BY <1>5, <2>1 DEF Persist, Finishes, ResultAccepted, RunTakesResult
    <3>2. worker[w].outcome \in Outcome
      BY <1>0 DEF TypeOK, Job
    <3> QED BY <1>3, <1>5, <3>1, <3>2 DEF Persist
  <2>2. CASE ~ResultAccepted(worker[w].attempt)
    BY <1>5, <2>2 DEF Persist
  <2> QED BY <2>1, <2>2
<1>6. ASSUME NEW h \in Handler,
             \/ ReadRun(h) \/ ReadCurrent(h) \/ ReadAttempts(h)
             \/ EndRequest(h) \/ Enqueue(h) \/ EnqueueFails(h)
      PROVE  UNCHANGED db
  BY <1>6 DEF db, ReadRun, ReadCurrent, ReadAttempts, EndRequest, Enqueue, EnqueueFails
<1>7. ASSUME NEW w \in Worker,
             \/ TakeJob(w) \/ DeclineJob(w) \/ StartRunner(w)
             \/ RunnerMissing(w) \/ RunnerReturns(w) \/ HorseDies(w)
      PROVE  UNCHANGED db
  BY <1>7 DEF db, TakeJob, DeclineJob, StartRunner, RunnerMissing, RunnerReturns, HorseDies
<1>8. ASSUME NEW a \in Attempt, Redeliver(a) PROVE UNCHANGED db
  BY <1>8 DEF db, Redeliver
<1>9. CASE QueueLost \/ UNCHANGED vars
  BY <1>9 DEF vars, db, QueueLost
<1> QED
  BY <1>1, <1>2, <1>4, <1>5, <1>6, <1>7, <1>8, <1>9 DEF Next, RequestStep, JobStep

(***************************************************************************)
(* Each of them keeps the rows sound                                       *)
(***************************************************************************)
\* The facts about the rows before the step, without the operators.
LEMMA RowFacts ==
  ASSUME IInv
  PROVE  /\ runs \in [Run -> RunRow] /\ attempts \in [Attempt -> AttemptRow]
         /\ AttemptShape /\ RunMirrorsCurrent /\ Numbered
         /\ \A r \in Run : Exists(r) =>
              /\ runs[r].current \in Attempt
              /\ attempts[runs[r].current].run = r
              /\ attempts[runs[r].current].status = runs[r].status
              /\ CurrentOf(r).number \in Nat
         /\ \A a \in Attempt :
              /\ attempts[a].number \in Nat
              /\ a \notin Unused => attempts[a].run \in Run /\ Exists(attempts[a].run)
              /\ a \in Unused => attempts[a].run = None
<1>1. TypeOK /\ AttemptShape /\ RunMirrorsCurrent /\ Numbered
  BY DEF IInv, RowsSound
<1>2. runs \in [Run -> RunRow] /\ attempts \in [Attempt -> AttemptRow]
  BY <1>1 DEF TypeOK
<1>3. \A a \in Attempt : attempts[a].number \in Nat /\ attempts[a].run \in Run \cup {None}
  BY <1>2 DEF AttemptRow
<1>4. \A a \in Attempt :
        /\ a \notin Unused => attempts[a].run \in Run /\ Exists(attempts[a].run)
        /\ a \in Unused => attempts[a].run = None
  BY <1>1, <1>3 DEF AttemptShape, Unused
<1>5. \A r \in Run : Exists(r) =>
        /\ runs[r].current \in Attempt
        /\ attempts[runs[r].current].run = r
        /\ attempts[runs[r].current].status = runs[r].status
  BY <1>1 DEF RunMirrorsCurrent, AttemptsOf, CurrentOf
<1> QED BY <1>1, <1>2, <1>3, <1>4, <1>5 DEF CurrentOf

\* Creating a run and retrying one add one attempt to one run, as its current
\* attempt and with the next number.
LEMMA InsertsKeepRows ==
  ASSUME IInv, NEW r \in Run, NEW a \in Attempt, Inserts(r, a)
  PROVE  RowsSound'
<1> USE RowFacts DEF Inserts
<1>1. a \in Unused /\ ~Exists(r) /\ None \notin Run /\ None \notin Attempt
  BY NoneAssumption
<1>2. /\ runs'[r] = NewRun(a) /\ \A q \in Run \ {r} : runs'[q] = runs[q]
      /\ attempts'[a] = NewAttempt(r, 1)
      /\ \A b \in Attempt \ {a} : attempts'[b] = attempts[b]
  OBVIOUS
<1>3. /\ NewAttempt(r, 1).status = "queued" /\ NewAttempt(r, 1).run = r
      /\ NewAttempt(r, 1).number = 1 /\ NewAttempt(r, 1).started = None
      /\ NewAttempt(r, 1).error = None /\ NewAttempt(r, 1).finished = None
      /\ NewRun(a).status = "queued" /\ NewRun(a).current = a
      /\ NewRun(a).started = None
      /\ NewRun(a).error = None /\ NewRun(a).finished = None
  BY DEF NewAttempt, NoAttempt, NewRun, NoRun
<1>4. AttemptsOf(r) = {}
  BY <1>1 DEF AttemptsOf, AttemptShape, Exists
<1>5. /\ AttemptsOf(r)' = {a}
      /\ \A q \in Run \ {r} : AttemptsOf(q)' = AttemptsOf(q)
  BY <1>1, <1>2, <1>3, <1>4 DEF AttemptsOf
<1>6. /\ Exists(r)' /\ \A q \in Run \ {r} : Exists(q)' <=> Exists(q)
  BY <1>2, <1>3 DEF Exists
<1>7. AttemptShape'
  BY <1>1, <1>2, <1>3, <1>6 DEF AttemptShape
<1>8. /\ CurrentOf(r)' = NewAttempt(r, 1)
      /\ \A q \in Run \ {r} : Exists(q) => CurrentOf(q)' = CurrentOf(q)
  BY <1>1, <1>2, <1>3 DEF CurrentOf
<1>9. RunMirrorsCurrent'
  BY <1>2, <1>3, <1>5, <1>6, <1>8 DEF RunMirrorsCurrent
<1>10. Numbered'
  <2> SUFFICES ASSUME NEW q \in Run, Exists(q)'
               PROVE  /\ \A b \in AttemptsOf(q)' :
                           attempts'[b].number >= 1 /\ attempts'[b].number <= CurrentOf(q)'.number
                      /\ \A b, c \in AttemptsOf(q)' : attempts'[b].number = attempts'[c].number => b = c
                      /\ \A n \in 1 .. CurrentOf(q)'.number :
                           \E b \in AttemptsOf(q)' : attempts'[b].number = n
    BY DEF Numbered
  <2>1. CASE q = r
    BY <1>2, <1>3, <1>5, <1>8, <2>1
  <2>2. CASE q # r
    <3>1. \A b \in AttemptsOf(q) : b \in Attempt \ {a}
      BY <1>1 DEF AttemptsOf
    <3> QED BY <1>2, <1>5, <1>6, <1>8, <2>2, <3>1 DEF Numbered
  <2> QED BY <2>1, <2>2
<1> QED BY <1>7, <1>9, <1>10 DEF RowsSound

\* A retry that commits leaves the run mirroring its new attempt, the highest
\* number of the run, and every older attempt as it was.
LEMMA RetriesKeepRows ==
  ASSUME IInv, NEW r \in Run, NEW a \in Attempt, NEW n \in Nat,
         NEW loaded \in RunRow, Retries(r, a, n, loaded)
  PROVE  RowsSound'
<1> USE RowFacts DEF Retries
<1>1. a \in Unused /\ Exists(r) /\ None \notin Run /\ None \notin Attempt
  BY NoneAssumption
<1>2. /\ runs'[r] = RetriedRun(runs[r], loaded, a)
      /\ \A q \in Run \ {r} : runs'[q] = runs[q]
      /\ attempts'[a] = NewAttempt(r, n)
      /\ \A b \in Attempt \ {a} : attempts'[b] = attempts[b]
  OBVIOUS
<1>3. /\ NewAttempt(r, n).status = "queued" /\ NewAttempt(r, n).run = r
      /\ NewAttempt(r, n).number = n /\ NewAttempt(r, n).started = None
      /\ NewAttempt(r, n).error = None /\ NewAttempt(r, n).finished = None
      /\ runs'[r].status = "queued" /\ runs'[r].current = a
      /\ runs'[r].started = None
      /\ runs'[r].error = None /\ runs'[r].finished = None
  BY <1>2 DEF NewAttempt, NoAttempt, RetriedRun, Cleared
<1>4. a \notin AttemptsOf(r)
  BY <1>1 DEF AttemptsOf
<1>5. /\ AttemptsOf(r)' = AttemptsOf(r) \cup {a}
      /\ \A q \in Run \ {r} : AttemptsOf(q)' = AttemptsOf(q)
  BY <1>1, <1>2, <1>3 DEF AttemptsOf
<1>6. Exists(r)' /\ \A q \in Run \ {r} : Exists(q)' <=> Exists(q)
  BY <1>2, <1>3 DEF Exists
<1>7. AttemptShape'
  BY <1>1, <1>2, <1>3, <1>6 DEF AttemptShape
<1>8. /\ CurrentOf(r)' = NewAttempt(r, n)
      /\ \A q \in Run \ {r} : Exists(q) => CurrentOf(q)' = CurrentOf(q)
  <2>1. \A q \in Run : Exists(q) => runs[q].current # a
    BY <1>1
  <2> QED BY <1>2, <1>3, <2>1 DEF CurrentOf
<1>9. RunMirrorsCurrent'
  BY <1>2, <1>3, <1>5, <1>6, <1>8 DEF RunMirrorsCurrent
<1>10. Numbered'
  <2> SUFFICES ASSUME NEW q \in Run, Exists(q)'
               PROVE  /\ \A b \in AttemptsOf(q)' :
                           attempts'[b].number >= 1 /\ attempts'[b].number <= CurrentOf(q)'.number
                      /\ \A b, c \in AttemptsOf(q)' : attempts'[b].number = attempts'[c].number => b = c
                      /\ \A m \in 1 .. CurrentOf(q)'.number :
                           \E b \in AttemptsOf(q)' : attempts'[b].number = m
    BY DEF Numbered
  <2>0. \A p \in Run : \A b \in AttemptsOf(p) :
          /\ b \in Attempt \ {a}
          /\ attempts'[b].number = attempts[b].number
          /\ attempts[b].number \in Nat
    BY <1>1, <1>2 DEF AttemptsOf
  <2>1. CASE q = r
    <3> DEFINE k == CurrentOf(r).number
    <3>1. k \in Nat /\ n = k + 1 /\ CurrentOf(q)'.number = n /\ attempts'[a].number = n
      BY <1>1, <1>2, <1>3, <1>8, <2>1
    <3>2. /\ \A b \in AttemptsOf(r) : attempts[b].number >= 1 /\ attempts[b].number <= k
          /\ \A b, c \in AttemptsOf(r) : attempts[b].number = attempts[c].number => b = c
          /\ \A m \in 1 .. k : \E b \in AttemptsOf(r) : attempts[b].number = m
      BY <1>1 DEF Numbered
    <3> HIDE DEF k
    <3>3. \A b \in AttemptsOf(q)' :
            attempts'[b].number >= 1 /\ attempts'[b].number <= CurrentOf(q)'.number
      BY <1>5, <2>0, <2>1, <3>1, <3>2
    <3>4. \A b, c \in AttemptsOf(q)' : attempts'[b].number = attempts'[c].number => b = c
      BY <1>5, <2>0, <2>1, <3>1, <3>2
    <3>5. \A m \in 1 .. CurrentOf(q)'.number :
            \E b \in AttemptsOf(q)' : attempts'[b].number = m
      <4> SUFFICES ASSUME NEW m \in 1 .. n
                   PROVE  \E b \in AttemptsOf(q)' : attempts'[b].number = m
        BY <3>1
      <4>1. CASE m = n
        BY <1>5, <2>1, <3>1, <4>1
      <4>2. CASE m # n
        <5>1. m \in 1 .. k
          BY <3>1, <4>2
        <5> QED BY <1>5, <2>0, <2>1, <3>2, <5>1
      <4> QED BY <4>1, <4>2
    <3> QED BY <3>3, <3>4, <3>5
  <2>2. CASE q # r
    BY <1>5, <1>6, <1>8, <2>0, <2>2 DEF Numbered
  <2> QED BY <2>1, <2>2
<1> QED BY <1>7, <1>9, <1>10 DEF RowsSound

\* The claim and the terminal write change neither which attempts exist, nor
\* whose they are, nor their numbers.
LEMMA WritesKeepNumbers ==
  ASSUME IInv,
         /\ \A b \in Attempt : attempts'[b].run = attempts[b].run
                               /\ attempts'[b].number = attempts[b].number
         /\ \A q \in Run : runs'[q].current = runs[q].current
                           /\ (Exists(q)' <=> Exists(q))
  PROVE  /\ Numbered'
         /\ \A q \in Run : AttemptsOf(q)' = AttemptsOf(q)
<1>1. \A q \in Run : AttemptsOf(q)' = AttemptsOf(q)
  BY DEF AttemptsOf
<1>2. \A q \in Run : Exists(q) => CurrentOf(q)'.number = CurrentOf(q).number
  BY RowFacts DEF CurrentOf
<1>3. \A q \in Run : \A b \in AttemptsOf(q) : b \in Attempt
  BY DEF AttemptsOf
<1>4. Numbered
  BY RowFacts
<1> QED BY <1>1, <1>2, <1>3, <1>4 DEF Numbered

\* A claim starts the attempt and the run that points to it together.
LEMMA ClaimsKeepRows ==
  ASSUME IInv, NEW r \in Run, NEW a \in Attempt, Claims(r, a)
  PROVE  RowsSound'
<1> USE RowFacts DEF Claims
<1>1. runs[r].status # "absent" /\ a # None
  <2>1. a \notin Unused
    BY DEF Unused
  <2> QED BY <2>1, NoneAssumption DEF Exists
<1>2. /\ runs'[r] = Claimed(runs[r], a) /\ \A q \in Run \ {r} : runs'[q] = runs[q]
      /\ attempts'[a] = Claimed(attempts[a], a)
      /\ \A b \in Attempt \ {a} : attempts'[b] = attempts[b]
  OBVIOUS
<1>3. /\ runs'[r].status = "running" /\ runs'[r].started = a
      /\ runs'[r].current = runs[r].current
      /\ runs'[r].error = runs[r].error /\ runs'[r].finished = runs[r].finished
      /\ attempts'[a].status = "running" /\ attempts'[a].started = a
      /\ attempts'[a].run = r /\ attempts'[a].number = attempts[a].number
      /\ attempts'[a].error = attempts[a].error
      /\ attempts'[a].finished = attempts[a].finished
  BY <1>2 DEF Claimed, RunRow, AttemptRow
<1>4. \A q \in Run : runs'[q].current = runs[q].current /\ (Exists(q)' <=> Exists(q))
  BY <1>1, <1>2, <1>3 DEF Exists
<1>5. \A b \in Attempt : attempts'[b].run = attempts[b].run
                         /\ attempts'[b].number = attempts[b].number
  BY <1>2, <1>3
<1>6. Numbered' /\ \A q \in Run : AttemptsOf(q)' = AttemptsOf(q)
  BY <1>4, <1>5, WritesKeepNumbers
<1>7. AttemptShape'
  BY <1>1, <1>2, <1>3, <1>4, <1>5, NoneAssumption DEF AttemptShape
<1>8. RunMirrorsCurrent'
  <2> SUFFICES ASSUME NEW q \in Run, Exists(q)
               PROVE  /\ runs'[q].current \in AttemptsOf(q)
                      /\ runs'[q].status = CurrentOf(q)'.status
                      /\ runs'[q].started = CurrentOf(q)'.started
                      /\ runs'[q].error = CurrentOf(q)'.error
                      /\ runs'[q].finished = CurrentOf(q)'.finished
    BY <1>4, <1>6 DEF RunMirrorsCurrent
  <2>1. /\ runs[q].current \in AttemptsOf(q)
        /\ runs[q].status = CurrentOf(q).status
        /\ runs[q].started = CurrentOf(q).started
        /\ runs[q].error = CurrentOf(q).error
        /\ runs[q].finished = CurrentOf(q).finished
    BY DEF RunMirrorsCurrent
  <2>2. CASE q = r
    BY <1>3, <1>4, <2>1, <2>2 DEF CurrentOf
  <2>3. CASE q # r
    <3>1. runs[q].current # a
      BY <2>3
    <3> QED BY <1>2, <2>1, <2>3, <3>1 DEF CurrentOf
  <2> QED BY <2>2, <2>3
<1> QED BY <1>6, <1>7, <1>8 DEF RowsSound

\* A terminal write finishes an attempt, and its run only while the attempt
\* is the current one.
LEMMA FinishesKeepRows ==
  ASSUME IInv, NEW r \in Run, NEW a \in Attempt, NEW o \in Outcome, Finishes(r, a, o)
  PROVE  RowsSound'
<1> USE RowFacts DEF Finishes
<1>0. o.status \in {"succeeded", "failed"}
  BY DEF Outcome, Succeeded, FailedWithSummary, FailedBare
<1>1. Exists(r) /\ a # None /\ attempts[a].started # None
  <2>1. a \notin Unused
    BY DEF Unused
  <2> QED BY <2>1, NoneAssumption DEF AttemptShape
<1>2. /\ attempts'[a] = Finished(attempts[a], a, o)
      /\ \A b \in Attempt \ {a} : attempts'[b] = attempts[b]
  OBVIOUS
<1>3. /\ attempts'[a].status = o.status
      /\ attempts'[a].run = r /\ attempts'[a].number = attempts[a].number
      /\ attempts'[a].started = attempts[a].started
      /\ attempts'[a].error = IF o.status = "failed" THEN a ELSE None
      /\ attempts'[a].finished = a
  BY <1>2 DEF Finished, AttemptRow
<1>4. \A q \in Run : IF q = r /\ runs[r].current = a
                       THEN runs'[q] = Finished(runs[r], a, o)
                       ELSE runs'[q] = runs[q]
  OBVIOUS
<1>5. runs[r].current = a =>
        /\ runs'[r].status = o.status
        /\ runs'[r].current = a
        /\ runs'[r].started = runs[r].started
        /\ runs'[r].error = IF o.status = "failed" THEN a ELSE None
        /\ runs'[r].finished = a
  BY <1>4 DEF Finished, RunRow
<1>6. \A q \in Run : runs'[q].current = runs[q].current /\ (Exists(q)' <=> Exists(q))
  BY <1>0, <1>1, <1>4, <1>5 DEF Exists
<1>7. \A b \in Attempt : attempts'[b].run = attempts[b].run
                         /\ attempts'[b].number = attempts[b].number
  BY <1>2, <1>3
<1>8. Numbered' /\ \A q \in Run : AttemptsOf(q)' = AttemptsOf(q)
  BY <1>6, <1>7, WritesKeepNumbers
<1>9. AttemptShape'
  BY <1>0, <1>1, <1>2, <1>3, <1>6, <1>7, NoneAssumption DEF AttemptShape
<1>10. RunMirrorsCurrent'
  <2> SUFFICES ASSUME NEW q \in Run, Exists(q)
               PROVE  /\ runs'[q].current \in AttemptsOf(q)
                      /\ runs'[q].status = CurrentOf(q)'.status
                      /\ runs'[q].started = CurrentOf(q)'.started
                      /\ runs'[q].error = CurrentOf(q)'.error
                      /\ runs'[q].finished = CurrentOf(q)'.finished
    BY <1>6, <1>8 DEF RunMirrorsCurrent
  <2>1. /\ runs[q].current \in AttemptsOf(q)
        /\ runs[q].status = CurrentOf(q).status
        /\ runs[q].started = CurrentOf(q).started
        /\ runs[q].error = CurrentOf(q).error
        /\ runs[q].finished = CurrentOf(q).finished
    BY DEF RunMirrorsCurrent
  <2>2. CASE q = r /\ runs[r].current = a
    BY <1>3, <1>5, <2>1, <2>2 DEF CurrentOf
  <2>3. CASE ~(q = r /\ runs[r].current = a)
    <3>1. runs[q].current # a
      BY <2>3
    <3> QED BY <1>2, <1>4, <2>1, <2>3, <3>1 DEF CurrentOf
  <2> QED BY <2>2, <2>3
<1> QED BY <1>8, <1>9, <1>10 DEF RowsSound

\* So every step keeps the rows sound.
LEMMA RowsStep == IInv /\ [Next]_vars => RowsSound'
<1> SUFFICES ASSUME IInv, [Next]_vars PROVE RowsSound'
  OBVIOUS
<1>1. CASE UNCHANGED db
  BY <1>1 DEF IInv, db, RowsSound, AttemptShape, RunMirrorsCurrent, Numbered,
     Exists, AttemptsOf, CurrentOf
<1> QED
  BY <1>1, RowWrites, InsertsKeepRows, RetriesKeepRows, ClaimsKeepRows, FinishesKeepRows

(***************************************************************************)
(* Rows only move forward                                                  *)
(***************************************************************************)
\* Whatever the step, an attempt keeps its run and its number, a finished
\* attempt keeps its whole row, a running one does not return to the queue,
\* and a run that exists goes on existing.
LEMMA RowsForward ==
  ASSUME IInv, [Next]_vars
  PROVE  /\ \A a \in Attempt :
              /\ a \notin Unused =>
                   /\ attempts'[a].status # "absent"
                   /\ attempts'[a].run = attempts[a].run
                   /\ attempts'[a].number = attempts[a].number
              /\ attempts[a].status \in Terminal => attempts'[a] = attempts[a]
              /\ attempts[a].status = "running" => attempts'[a].status # "queued"
         /\ \A r \in Run : Exists(r) => Exists(r)'
<1> DEFINE Forward(a) ==
             /\ a \notin Unused =>
                  /\ attempts'[a].status # "absent"
                  /\ attempts'[a].run = attempts[a].run
                  /\ attempts'[a].number = attempts[a].number
             /\ attempts[a].status \in Terminal => attempts'[a] = attempts[a]
             /\ attempts[a].status = "running" => attempts'[a].status # "queued"
<1>1. CASE UNCHANGED db
  BY <1>1 DEF db, Exists, Unused, Terminal
<1>2. ASSUME NEW r \in Run, NEW a \in Attempt, NEW n \in Nat,
             a \in Unused,
             attempts' = [attempts EXCEPT ![a] = NewAttempt(r, n)]
      PROVE  \A b \in Attempt : Forward(b)
  BY <1>2, RowFacts DEF Unused, Terminal
<1>3. ASSUME NEW r \in Run, NEW a \in Attempt, Inserts(r, a)
      PROVE  (\A b \in Attempt : Forward(b)) /\ \A q \in Run : Exists(q) => Exists(q)'
  <2>1. \A b \in Attempt : Forward(b)
    BY <1>2, <1>3 DEF Inserts
  <2>2. \A q \in Run : Exists(q) => Exists(q)'
    BY <1>3, RowFacts DEF Inserts, Exists
  <2> QED BY <2>1, <2>2
<1>4. ASSUME NEW r \in Run, NEW a \in Attempt, NEW n \in Nat,
             NEW loaded \in RunRow, Retries(r, a, n, loaded)
      PROVE  (\A b \in Attempt : Forward(b)) /\ \A q \in Run : Exists(q) => Exists(q)'
  <2>1. \A b \in Attempt : Forward(b)
    BY <1>2, <1>4 DEF Retries
  <2>2. \A q \in Run : Exists(q) => Exists(q)'
    BY <1>4, RowFacts DEF Retries, Exists, RetriedRun
  <2> QED BY <2>1, <2>2
<1>5. ASSUME NEW r \in Run, NEW a \in Attempt, Claims(r, a)
      PROVE  (\A b \in Attempt : Forward(b)) /\ \A q \in Run : Exists(q) => Exists(q)'
  <2>1. \A b \in Attempt : Forward(b)
    <3>1. /\ attempts'[a].status = "running"
          /\ attempts'[a].run = attempts[a].run
          /\ attempts'[a].number = attempts[a].number
      BY <1>5, RowFacts DEF Claims, Claimed, AttemptRow
    <3>2. \A b \in Attempt \ {a} : attempts'[b] = attempts[b]
      BY <1>5, RowFacts DEF Claims
    <3>3. attempts[a].status = "queued"
      BY <1>5 DEF Claims
    <3> QED BY <3>1, <3>2, <3>3 DEF Terminal, Unused
  <2>2. \A q \in Run : Exists(q) => Exists(q)'
    BY <1>5, RowFacts DEF Claims, Claimed, RunRow, Exists
  <2> QED BY <2>1, <2>2
<1>6. ASSUME NEW r \in Run, NEW a \in Attempt, NEW o \in Outcome, Finishes(r, a, o)
      PROVE  (\A b \in Attempt : Forward(b)) /\ \A q \in Run : Exists(q) => Exists(q)'
  <2>0. o.status \in {"succeeded", "failed"}
    BY DEF Outcome, Succeeded, FailedWithSummary, FailedBare
  <2>1. \A b \in Attempt : Forward(b)
    <3>1. /\ attempts'[a].status = o.status
          /\ attempts'[a].run = attempts[a].run
          /\ attempts'[a].number = attempts[a].number
      BY <1>6, RowFacts DEF Finishes, Finished, AttemptRow
    <3>2. \A b \in Attempt \ {a} : attempts'[b] = attempts[b]
      BY <1>6, RowFacts DEF Finishes
    <3>3. attempts[a].status = "running"
      BY <1>6 DEF Finishes
    <3> QED BY <2>0, <3>1, <3>2, <3>3 DEF Terminal, Unused
  <2>2. \A q \in Run : Exists(q) => Exists(q)'
    BY <1>6, <2>0, RowFacts DEF Finishes, Finished, RunRow, Exists
  <2> QED BY <2>1, <2>2
<1> HIDE DEF Forward
<1>7. (\A b \in Attempt : Forward(b)) /\ \A q \in Run : Exists(q) => Exists(q)'
  BY <1>3, <1>4, <1>5, <1>6, RowWrites, <1>1 DEF Forward
<1> QED BY <1>7 DEF Forward

(***************************************************************************)
(* Requests                                                                *)
(***************************************************************************)
\* What one handler has loaded stays true while the others commit.
LEMMA RequestKept ==
  ASSUME IInv, [Next]_vars, NEW h \in Handler, handler'[h] = handler[h]
  PROVE  RequestSound(h)'
<1> DEFINE req == handler[h]
<1>1. RequestSound(h) /\ TypeOK /\ req \in Request
  BY DEF IInv, TypeOK
<1>2. /\ \A r \in Run : Exists(r) => Exists(r)'
      /\ \A a \in Attempt : a \notin Unused =>
           /\ attempts'[a].status # "absent"
           /\ attempts'[a].run = attempts[a].run
           /\ attempts'[a].number = attempts[a].number
  BY RowsForward
<1>3. \A r \in Run : \A a \in AttemptsOf(r) : a \in Attempt /\ a \notin Unused /\ a \in AttemptsOf(r)'
  BY <1>2, RowFacts, NoneAssumption DEF AttemptsOf
<1>4. req.pc = "loaded" => NumbersOf(req.known)' = NumbersOf(req.known)
  <2> HAVE req.pc = "loaded"
  <2>1. \A a \in req.known : attempts'[a].number = attempts[a].number
    BY <1>1, <1>2, <1>3 DEF RequestSound
  <2>2. req.known' = req.known
    OBVIOUS
  <2> QED BY <2>1, <2>2 DEF NumbersOf
<1>5. req.pc = "enqueue" => req.attempt \notin Unused'
  BY <1>1, <1>2 DEF RequestSound, Unused
<1>6. req.pc = "loaded" => HasLast(req.known)'
  BY <1>1, <1>4 DEF HasLast, RequestSound
<1>7. req.pc \in {"reading", "loaded"} =>
        Exists(req.run)' /\ req.row.current \in AttemptsOf(req.run)'
  BY <1>1, <1>2, <1>3 DEF RequestSound
<1>8. req.pc = "loaded" => req.known \in SUBSET AttemptsOf(req.run)'
  BY <1>1, <1>3 DEF RequestSound
<1> QED BY <1>1, <1>5, <1>6, <1>7, <1>8 DEF RequestSound

\* A handler that is idle after the step has nothing to keep.
LEMMA RequestsStep == IInv /\ [Next]_vars => \A h \in Handler : RequestSound(h)'
<1> SUFFICES ASSUME IInv, [Next]_vars PROVE \A h \in Handler : RequestSound(h)'
  OBVIOUS
<1>0. TypeOK /\ handler \in [Handler -> Request] /\ \A h \in Handler : RequestSound(h)
  BY DEF IInv, TypeOK
<1>1. ASSUME NEW h \in Handler,
             \E req : handler' = [handler EXCEPT ![h] = req],
             RequestSound(h)'
      PROVE  \A k \in Handler : RequestSound(k)'
  <2>1. \A k \in Handler \ {h} : handler'[k] = handler[k]
    BY <1>0, <1>1
  <2> QED BY <1>1, <2>1, RequestKept
<1>2. ASSUME UNCHANGED handler PROVE \A k \in Handler : RequestSound(k)'
  BY <1>2, RequestKept
<1>3. ASSUME NEW h \in Handler, CreateRun(h) PROVE \A k \in Handler : RequestSound(k)'
  <2>1. PICK r \in Run, a \in Unused :
          /\ runs' = [runs EXCEPT ![r] = NewRun(a)]
          /\ attempts' = [attempts EXCEPT ![a] = NewAttempt(r, 1)]
          /\ handler' = [handler EXCEPT ![h] =
               [NoRequest EXCEPT !.pc = "enqueue", !.run = r, !.attempt = a]]
    BY <1>3 DEF CreateRun
  <2>2. a \in Attempt /\ attempts'[a].status = "queued"
    BY <2>1, RowFacts DEF Unused, NewAttempt, NoAttempt
  <2>3. handler'[h].pc = "enqueue" /\ handler'[h].attempt = a
    BY <1>0, <2>1 DEF NoRequest
  <2>4. RequestSound(h)'
    BY <2>2, <2>3 DEF RequestSound, Unused
  <2> QED BY <1>1, <2>1, <2>4
<1>4. ASSUME NEW h \in Handler, ReadRun(h) PROVE \A k \in Handler : RequestSound(k)'
  <2>1. PICK r \in Run :
          /\ Exists(r)
          /\ handler' = [handler EXCEPT ![h] =
               [NoRequest EXCEPT !.pc = "reading", !.run = r, !.row = runs[r]]]
    BY <1>4 DEF ReadRun
  <2>2. handler'[h].pc = "reading" /\ handler'[h].run = r /\ handler'[h].row = runs[r]
    BY <1>0, <2>1 DEF NoRequest
  <2>3. runs' = runs /\ attempts' = attempts
    BY <1>4 DEF ReadRun, db
  <2>4. runs[r].current \in AttemptsOf(r)
    BY <2>1, RowFacts DEF AttemptsOf
  <2>5. runs[r].status = "failed" =>
          runs[r].started # None /\ runs[r].error # None /\ runs[r].finished # None
    BY <2>1, RowFacts DEF RunMirrorsCurrent, AttemptShape, CurrentOf
  <2>6. RequestSound(h)'
    BY <2>1, <2>2, <2>3, <2>4, <2>5 DEF RequestSound, AttemptsOf, Exists
  <2> QED BY <1>1, <2>1, <2>6
<1>5. ASSUME NEW h \in Handler, ReadCurrent(h) PROVE \A k \in Handler : RequestSound(k)'
  <2>1. /\ handler' = [handler EXCEPT ![h] =
             [handler[h] EXCEPT !.cur = attempts[handler[h].row.current].status]]
        /\ handler[h].pc = "reading" /\ runs' = runs /\ attempts' = attempts
    BY <1>5 DEF ReadCurrent, db
  <2>2. /\ handler'[h].pc = "reading" /\ handler'[h].run = handler[h].run
        /\ handler'[h].row = handler[h].row
    BY <1>0, <2>1 DEF Request
  <2>3. RequestSound(h)'
    BY <1>0, <2>1, <2>2 DEF RequestSound, AttemptsOf, Exists
  <2> QED BY <1>1, <2>1, <2>3
<1>6. ASSUME NEW h \in Handler, ReadAttempts(h) PROVE \A k \in Handler : RequestSound(k)'
  <2> DEFINE r == handler[h].run
  <2>1. /\ \E req : handler' = [handler EXCEPT ![h] = req]
        /\ handler'[h].pc = "loaded" /\ handler'[h].run = r
        /\ handler'[h].row = handler[h].row
        /\ handler'[h].known = AttemptsOf(r)
        /\ handler[h].pc = "reading" /\ runs' = runs /\ attempts' = attempts
    <3>1. handler[h] \in Request
      BY <1>0
    <3> QED BY <1>0, <1>6, <3>1 DEF ReadAttempts, db, Request
  <2>2. r \in Run /\ Exists(r) /\ handler[h].row.current \in AttemptsOf(r)
    BY <1>0, <2>1 DEF RequestSound
  <2>3. HasLast(AttemptsOf(r))
    <3>1. runs[r].current \in AttemptsOf(r)
      BY <2>2, RowFacts DEF AttemptsOf
    <3>2. CurrentOf(r).number \in NumbersOf(AttemptsOf(r))
      BY <3>1 DEF NumbersOf, CurrentOf
    <3>3. \A m \in NumbersOf(AttemptsOf(r)) : m <= CurrentOf(r).number
      BY <2>2, RowFacts DEF NumbersOf, Numbered
    <3> QED BY <3>2, <3>3 DEF HasLast
  <2>5. AttemptsOf(r)' = AttemptsOf(r)
    BY <2>1 DEF AttemptsOf
  <2>6. HasLast(handler[h].known)'
    BY <2>1, <2>3 DEF HasLast, NumbersOf
  <2>7. RequestSound(h)'
    BY <1>0, <2>1, <2>2, <2>5, <2>6 DEF RequestSound, AttemptsOf, Exists
  <2> QED BY <1>1, <2>1, <2>7
<1>7. ASSUME NEW h \in Handler, RetryCommit(h) PROVE \A k \in Handler : RequestSound(k)'
  <2> DEFINE n == NextAttemptNumber(handler[h].known)
             r == handler[h].run
  <2>1. PICK a \in Unused :
          /\ attempts' = [attempts EXCEPT ![a] = NewAttempt(r, n)]
          /\ handler' = [handler EXCEPT ![h] =
               [NoRequest EXCEPT !.pc = "enqueue", !.run = r, !.attempt = a]]
    BY <1>7 DEF RetryCommit
  <2>2. a \in Attempt /\ attempts'[a].status = "queued"
    BY <2>1, RowFacts DEF Unused, NewAttempt, NoAttempt
  <2>3. handler'[h].pc = "enqueue" /\ handler'[h].attempt = a
    BY <1>0, <2>1 DEF NoRequest
  <2>4. RequestSound(h)'
    BY <2>2, <2>3 DEF RequestSound, Unused
  <2> QED BY <1>1, <2>1, <2>4
<1>8. ASSUME NEW h \in Handler, EndRequest(h) \/ Enqueue(h) \/ EnqueueFails(h)
      PROVE  \A k \in Handler : RequestSound(k)'
  <2>1. handler' = [handler EXCEPT ![h] = NoRequest]
    BY <1>8 DEF EndRequest, Enqueue, EnqueueFails
  <2>2. handler'[h].pc = "idle"
    BY <1>0, <2>1 DEF NoRequest
  <2>3. RequestSound(h)'
    BY <2>2 DEF RequestSound
  <2> QED BY <1>1, <2>1, <2>3
<1>9. ASSUME NEW w \in Worker, JobStep(w) \/ HorseDies(w) PROVE UNCHANGED handler
  BY <1>9 DEF JobStep, TakeJob, Claim, DeclineJob, StartRunner, RunnerMissing,
     RunnerReturns, Persist, HorseDies
<1>10. ASSUME NEW a \in Attempt, Redeliver(a) PROVE UNCHANGED handler
  BY <1>10 DEF Redeliver
<1>11. CASE QueueLost \/ UNCHANGED vars
  BY <1>2, <1>11 DEF vars, QueueLost
<1> QED
  BY <1>2, <1>3, <1>4, <1>5, <1>6, <1>7, <1>8, <1>9, <1>10, <1>11
     DEF Next, RequestStep

(***************************************************************************)
(* Jobs                                                                    *)
(***************************************************************************)
\* Redis only ever holds ids of attempts whose rows are committed: the enqueue
\* comes after the commit.
LEMMA QueueStep == IInv /\ [Next]_vars => QueueSound'
<1> SUFFICES ASSUME IInv, [Next]_vars PROVE QueueSound'
  OBVIOUS
<1>0. /\ QueueSound /\ queue \in Seq(Attempt) /\ stored \in SUBSET Attempt
      /\ \A h \in Handler : RequestSound(h)
  BY DEF IInv, JobsSound, TypeOK
<1>1. \A a \in Attempt : a \notin Unused => a \notin Unused'
  BY RowsForward DEF Unused
<1>2. ASSUME UNCHANGED <<queue, stored>> PROVE QueueSound'
  BY <1>0, <1>1, <1>2 DEF QueueSound
<1>3. ASSUME NEW a \in Attempt, a \notin Unused, queue' = Append(queue, a),
             \A b \in stored' : b \in stored \/ b = a
      PROVE  QueueSound'
  <2>1. \A i \in 1 .. Len(queue') : queue'[i] \in Attempt /\ queue'[i] \notin Unused
    BY <1>0, <1>3 DEF QueueSound
  <2> QED BY <1>0, <1>1, <1>3, <2>1 DEF QueueSound
<1>4. ASSUME NEW h \in Handler, Enqueue(h) PROVE QueueSound'
  BY <1>0, <1>3, <1>4 DEF Enqueue, RequestSound
<1>5. ASSUME NEW a \in Attempt, Redeliver(a) PROVE QueueSound'
  BY <1>0, <1>3, <1>5 DEF Redeliver, QueueSound
<1>6. ASSUME NEW w \in Worker, TakeJob(w) PROVE QueueSound'
  <2>1. \A i \in 1 .. Len(queue') : queue'[i] \in Attempt /\ queue'[i] \notin Unused
    <3>1. queue # <<>> /\ queue' = Tail(queue) /\ stored' = stored
      BY <1>6 DEF TakeJob
    <3>2. \A i \in 1 .. Len(Tail(queue)) :
            Tail(queue)[i] = queue[i + 1] /\ i + 1 \in 1 .. Len(queue)
      BY <1>0, <3>1
    <3> QED BY <1>0, <3>1, <3>2 DEF QueueSound
  <2>2. stored' = stored
    BY <1>6 DEF TakeJob
  <2> QED BY <1>0, <1>1, <2>1, <2>2 DEF QueueSound
<1>7. ASSUME NEW h \in Handler,
             \/ CreateRun(h) \/ ReadRun(h) \/ ReadCurrent(h) \/ ReadAttempts(h)
             \/ EndRequest(h) \/ RetryCommit(h) \/ EnqueueFails(h)
      PROVE  UNCHANGED <<queue, stored>>
  BY <1>7 DEF redis, CreateRun, ReadRun, ReadCurrent, ReadAttempts, EndRequest,
     RetryCommit, EnqueueFails
<1>8. ASSUME NEW w \in Worker,
             \/ Claim(w) \/ DeclineJob(w) \/ StartRunner(w) \/ RunnerMissing(w)
             \/ RunnerReturns(w) \/ Persist(w) \/ HorseDies(w)
      PROVE  UNCHANGED <<queue, stored>>
  BY <1>8 DEF redis, Claim, DeclineJob, StartRunner, RunnerMissing, RunnerReturns,
     Persist, HorseDies
<1>9. CASE UNCHANGED vars
  BY <1>2, <1>9 DEF vars
<1>10. CASE QueueLost
  BY <1>10 DEF QueueLost, QueueSound
<1> QED
  BY <1>2, <1>4, <1>5, <1>6, <1>7, <1>8, <1>9, <1>10 DEF Next, RequestStep, JobStep

\* The jobs of the workers and the calls of the runner, after a step that
\* leaves them as they are and the attempts under way as well.
LEMMA JobsKept ==
  ASSUME IInv, [Next]_vars, UNCHANGED <<worker, executed>>,
         \A a \in Attempt : a \notin Unused => attempts'[a].status = attempts[a].status
  PROVE  (\A w \in Worker : JobSound(w)') /\ ExecutionSound'
<1>0. (\A w \in Worker : JobSound(w)) /\ ExecutionSound
  BY DEF IInv, JobsSound
<1>1. \A a \in Attempt : a \notin Unused => a \notin Unused'
  BY RowsForward DEF Unused
<1>2. \A w \in Worker : JobSound(w)'
  BY <1>0, <1>1 DEF JobSound
<1>3. ExecutionSound'
  <2>1. \A a \in Attempt : attempts'[a].status \in {"absent", "queued"} =>
          attempts[a].status \in {"absent", "queued"}
    BY DEF Unused
  <2> QED BY <1>0, <2>1 DEF ExecutionSound, Holds
<1> QED BY <1>2, <1>3

\* The heart of the matter is the claim: its WHERE clause finds the attempt
\* queued, so nobody holds it and nobody has executed it; once it is running
\* no second claim gets through.
LEMMA JobsStep ==
  IInv /\ [Next]_vars => (\A w \in Worker : JobSound(w)') /\ ExecutionSound'
<1> SUFFICES ASSUME IInv, [Next]_vars
             PROVE  (\A w \in Worker : JobSound(w)') /\ ExecutionSound'
  OBVIOUS
<1>0. /\ TypeOK /\ worker \in [Worker -> Job] /\ executed \in [Attempt -> Nat]
      /\ QueueSound /\ (\A w \in Worker : JobSound(w)) /\ ExecutionSound
  BY DEF IInv, JobsSound, TypeOK
<1>1. ASSUME NEW h \in Handler, RequestStep(h)
      PROVE  (\A w \in Worker : JobSound(w)') /\ ExecutionSound'
  <2>1. UNCHANGED <<worker, executed>>
    BY <1>1 DEF RequestStep, CreateRun, ReadRun, ReadCurrent, ReadAttempts,
       EndRequest, RetryCommit, Enqueue, EnqueueFails
  <2>2. \A a \in Attempt : a \notin Unused => attempts'[a].status = attempts[a].status
    <3>1. CASE CreateRun(h)
      BY <3>1, RowFacts DEF CreateRun
    <3>2. CASE RetryCommit(h)
      BY <3>2, RowFacts DEF RetryCommit
    <3>3. CASE UNCHANGED db
      BY <3>3 DEF db
    <3> QED BY <1>1, <3>1, <3>2, <3>3 DEF RequestStep, ReadRun, ReadCurrent,
       ReadAttempts, EndRequest, Enqueue, EnqueueFails
  <2> QED BY <2>1, <2>2, JobsKept
<1>2. ASSUME NEW a \in Attempt, Redeliver(a)
      PROVE  (\A w \in Worker : JobSound(w)') /\ ExecutionSound'
  BY <1>2, JobsKept DEF Redeliver, db
<1>3. CASE QueueLost \/ UNCHANGED vars
  BY <1>3, JobsKept DEF vars, QueueLost, db
<1>4. ASSUME NEW w \in Worker, UNCHANGED <<attempts, executed>>,
             NEW job \in Job, worker' = [worker EXCEPT ![w] = job],
             job.pc # "idle" => job.attempt \in Attempt \ Unused,
             job.pc \in {"claimed", "executing", "result"} => Holds(w, job.attempt),
             job.pc # "claimed"
      PROVE  (\A v \in Worker : JobSound(v)') /\ ExecutionSound'
  <2>1. worker'[w] = job /\ \A v \in Worker \ {w} : worker'[v] = worker[v]
    BY <1>0, <1>4
  <2>2. \A v \in Worker, a \in Attempt : Holds(v, a)' => Holds(v, a)
    BY <1>4, <2>1 DEF Holds
  <2>3. ExecutionSound'
    BY <1>0, <1>4, <2>2 DEF ExecutionSound
  <2>4. ASSUME NEW v \in Worker PROVE JobSound(v)'
    <3>1. CASE v = w
      BY <1>0, <1>4, <2>1, <3>1 DEF JobSound, Unused, Holds
    <3>2. CASE v # w
      BY <1>0, <1>4, <2>1, <3>2 DEF JobSound, Unused
    <3> QED BY <3>1, <3>2
  <2> QED BY <2>3, <2>4
<1>5. ASSUME NEW w \in Worker, DeclineJob(w) \/ HorseDies(w)
      PROVE  (\A v \in Worker : JobSound(v)') /\ ExecutionSound'
  <2>1. worker' = [worker EXCEPT ![w] = NoJob] /\ UNCHANGED <<attempts, executed>>
    BY <1>5 DEF DeclineJob, HorseDies, db
  <2>2. NoJob.pc = "idle"
    BY DEF NoJob
  <2> QED BY <1>4, <2>1, <2>2, IdleTypes
<1>6. ASSUME NEW w \in Worker, TakeJob(w)
      PROVE  (\A v \in Worker : JobSound(v)') /\ ExecutionSound'
  <2> DEFINE job == [NoJob EXCEPT !.pc = "taken", !.attempt = Head(queue)]
  <2>1. Head(queue) = queue[1] /\ 1 \in 1 .. Len(queue) /\ Head(queue) \in Attempt
    BY <1>0, <1>6 DEF TakeJob, TypeOK
  <2>2. Head(queue) \in Attempt \ Unused
    BY <1>0, <2>1 DEF QueueSound
  <2>3. job \in Job /\ job.pc = "taken" /\ job.attempt = Head(queue)
    BY <2>1, IdleTypes DEF Job, NoJob, Column
  <2>4. worker' = [worker EXCEPT ![w] = job] /\ UNCHANGED <<attempts, executed>>
    BY <1>6 DEF TakeJob, db
  <2> HIDE DEF job
  <2> QED BY <1>4, <2>2, <2>3, <2>4
<1>7. ASSUME NEW w \in Worker, Claim(w)
      PROVE  (\A v \in Worker : JobSound(v)') /\ ExecutionSound'
  <2> DEFINE a == worker[w].attempt
  <2>1. /\ a \in Attempt \ Unused
        /\ attempts[a].status = "queued"
        /\ worker[w].pc = "taken"
    BY <1>0, <1>7 DEF Claim, Claimable, AttemptClaimable, JobSound
  <2>2. /\ attempts' = [attempts EXCEPT ![a] = Claimed(attempts[a], a)]
        /\ worker' = [worker EXCEPT ![w] = [worker[w] EXCEPT !.pc = "claimed"]]
        /\ executed' = executed
    BY <1>7 DEF Claim
  <2>3. attempts'[a].status = "running"
    BY <2>1, <2>2, RowFacts DEF Claimed, AttemptRow
  <2>4. \A b \in Attempt \ {a} : attempts'[b] = attempts[b]
    BY <2>2, RowFacts
  <2>5. /\ worker'[w].pc = "claimed" /\ worker'[w].attempt = a
        /\ \A v \in Worker \ {w} : worker'[v] = worker[v]
    BY <1>0, <2>2 DEF Job
  <2>6. \A v \in Worker : ~Holds(v, a)
    BY <1>0, <2>1 DEF Holds, JobSound
  <2> HIDE DEF a
  <2>7. ASSUME NEW v \in Worker PROVE JobSound(v)'
    <3>1. CASE v = w
      BY <1>0, <2>1, <2>2, <2>3, <2>5, <3>1 DEF JobSound, Unused, ExecutionSound
    <3>2. CASE v # w
      BY <1>0, <2>2, <2>3, <2>4, <2>5, <3>2 DEF JobSound, Unused
    <3> QED BY <3>1, <3>2
  <2>8. ExecutionSound'
    <3>1. \A b \in Attempt : executed'[b] <= 1
      BY <1>0, <2>2 DEF ExecutionSound
    <3>2. \A b \in Attempt : attempts'[b].status \in {"absent", "queued"} => executed'[b] = 0
      BY <1>0, <2>2, <2>3, <2>4 DEF ExecutionSound
    <3>3. \A u, v \in Worker, b \in Attempt : Holds(u, b)' /\ Holds(v, b)' => u = v
      <4>1. \A v \in Worker, b \in Attempt :
              Holds(v, b)' => (v = w /\ b = a) \/ (v # w /\ b # a /\ Holds(v, b))
        BY <2>5, <2>6 DEF Holds
      <4> QED BY <1>0, <4>1 DEF ExecutionSound
    <3> QED BY <3>1, <3>2, <3>3 DEF ExecutionSound
  <2> QED BY <2>7, <2>8
<1>8. ASSUME NEW w \in Worker, StartRunner(w)
      PROVE  (\A v \in Worker : JobSound(v)') /\ ExecutionSound'
  <2> DEFINE a == worker[w].attempt
  <2>1. /\ worker[w].pc = "claimed" /\ a \in Attempt \ Unused
        /\ attempts[a].status = "running" /\ executed[a] = 0
        /\ attempts' = attempts
    BY <1>0, <1>8 DEF StartRunner, JobSound, db
  <2>2. /\ executed' = [executed EXCEPT ![a] = executed[a] + 1]
        /\ worker' = [worker EXCEPT ![w] = [worker[w] EXCEPT !.pc = "executing"]]
    BY <1>8 DEF StartRunner
  <2>3. /\ worker'[w].pc = "executing" /\ worker'[w].attempt = a
        /\ \A v \in Worker \ {w} : worker'[v] = worker[v]
    BY <1>0, <2>2 DEF Job
  <2>4. executed'[a] = 1 /\ \A b \in Attempt \ {a} : executed'[b] = executed[b]
    BY <1>0, <2>1, <2>2
  <2>5. \A v \in Worker, b \in Attempt : Holds(v, b)' <=> Holds(v, b)
    BY <2>1, <2>3 DEF Holds
  <2> HIDE DEF a
  <2>6. ASSUME NEW v \in Worker PROVE JobSound(v)'
    <3>1. CASE v = w
      BY <2>1, <2>3, <3>1 DEF JobSound, Unused
    <3>2. CASE v # w
      <4>1. worker[v].pc = "claimed" => worker[v].attempt # a
        <5>1. Holds(w, a)
          BY <2>1 DEF Holds, a
        <5> QED BY <1>0, <2>1, <3>2, <5>1 DEF ExecutionSound, Holds
      <4> QED BY <1>0, <2>1, <2>3, <2>4, <3>2, <4>1 DEF JobSound, Unused
    <3> QED BY <3>1, <3>2
  <2>7. ExecutionSound'
    <3>1. \A b \in Attempt : executed'[b] <= 1
      BY <1>0, <2>1, <2>4 DEF ExecutionSound
    <3> QED BY <1>0, <2>1, <2>4, <2>5, <3>1 DEF ExecutionSound
  <2> QED BY <2>6, <2>7
<1>9. ASSUME NEW w \in Worker, RunnerMissing(w) \/ RunnerReturns(w)
      PROVE  (\A v \in Worker : JobSound(v)') /\ ExecutionSound'
  <2>1. PICK o \in Outcome :
          worker' = [worker EXCEPT ![w] = [worker[w] EXCEPT !.pc = "result", !.outcome = o]]
    BY <1>9 DEF RunnerMissing, RunnerReturns, Outcome
  <2> DEFINE job == [worker[w] EXCEPT !.pc = "result", !.outcome = o]
  <2>2. worker[w] \in Job /\ worker[w].pc \in {"claimed", "executing"}
    BY <1>0, <1>9 DEF RunnerMissing, RunnerReturns
  <2>3. job \in Job /\ job.pc = "result" /\ job.attempt = worker[w].attempt
    BY <2>2 DEF Job
  <2>4. job.attempt \in Attempt \ Unused /\ Holds(w, job.attempt)
    BY <1>0, <2>2, <2>3 DEF JobSound, Holds
  <2>5. UNCHANGED <<attempts, executed>>
    BY <1>9 DEF RunnerMissing, RunnerReturns, db
  <2>6. worker' = [worker EXCEPT ![w] = job]
    BY <2>1
  <2> HIDE DEF job
  <2> QED BY <1>4, <2>3, <2>4, <2>5, <2>6
<1>10. ASSUME NEW w \in Worker, Persist(w)
       PROVE  (\A v \in Worker : JobSound(v)') /\ ExecutionSound'
  <2> DEFINE a == worker[w].attempt
  <2>1. /\ worker' = [worker EXCEPT ![w] = NoJob] /\ executed' = executed
        /\ worker[w].pc = "result"
        /\ \A b \in Attempt \ {a} : attempts'[b] = attempts[b]
    BY <1>10, RowFacts DEF Persist, db
  <2>2. /\ a \in Attempt \ Unused /\ attempts[a].status = "running" /\ Holds(w, a)
    BY <1>0, <2>1 DEF JobSound, Holds
  <2>3. attempts'[a].status \notin {"absent", "queued"}
    BY <2>2, RowsForward
  <2>4. worker'[w].pc = "idle" /\ \A v \in Worker \ {w} : worker'[v] = worker[v]
    BY <1>0, <2>1 DEF NoJob
  <2> HIDE DEF a
  <2>5. ASSUME NEW v \in Worker PROVE JobSound(v)'
    <3>1. CASE v = w
      BY <2>4, <3>1 DEF JobSound
    <3>2. CASE v # w
      <4>1. \A b \in Attempt : Holds(v, b) => b # a
        BY <1>0, <2>2, <3>2 DEF ExecutionSound
      <4> QED BY <1>0, <2>1, <2>3, <2>4, <3>2, <4>1 DEF JobSound, Unused, Holds
    <3> QED BY <3>1, <3>2
  <2>6. ExecutionSound'
    <3>1. \A v \in Worker, b \in Attempt : Holds(v, b)' => Holds(v, b)
      BY <2>4 DEF Holds
    <3> QED BY <1>0, <2>1, <2>3, <3>1 DEF ExecutionSound
  <2> QED BY <2>5, <2>6
<1> QED
  BY <1>1, <1>2, <1>3, <1>5, <1>6, <1>7, <1>8, <1>9, <1>10 DEF Next, JobStep

(***************************************************************************)
(* Theorems                                                                *)
(***************************************************************************)
\* The invariant is inductive: every step of the program preserves it.
LEMMA NextIInv == IInv /\ [Next]_vars => IInv'
<1> SUFFICES ASSUME IInv, [Next]_vars PROVE IInv'
  OBVIOUS
<1>1. TypeOK'
  BY TypeStep
<1>2. RowsSound'
  BY RowsStep
<1>3. \A h \in Handler : RequestSound(h)'
  BY RequestsStep
<1>4. JobsSound'
  BY QueueStep, JobsStep DEF JobsSound
<1> QED BY <1>1, <1>2, <1>3, <1>4 DEF IInv

\* The invariant of RunSystemInvariant holds in every reachable state: the
\* commits of handlers and workers keep rows, requests and jobs consistent.
THEOREM InvariantHolds == Spec => []IInv
<1>1. Init => IInv
  BY InitIInv
<1>2. IInv /\ [Next]_vars => IInv'
  BY NextIInv
<1> QED BY <1>1, <1>2, PTL DEF Spec

\* Every variable keeps its type.
THEOREM TypeCorrect == Spec => []TypeOK
<1>1. IInv => TypeOK
  BY DEF IInv
<1> QED BY <1>1, InvariantHolds, PTL

\* A run always shows status, times and failure of its current attempt, in
\* spite of racing retries, repeated deliveries and late results.
THEOREM MirrorCorrect == Spec => []RunMirrorsCurrent
<1>1. IInv => RunMirrorsCurrent
  BY DEF IInv, RowsSound
<1> QED BY <1>1, InvariantHolds, PTL

\* Attempts are numbered 1, 2, ..., and the current one has the last number:
\* the unique constraint is enough to keep stale collections from leaving a
\* gap, repeating a number or making an older attempt current.
THEOREM NumberingCorrect == Spec => []NumberedInOrder
<1>1. ASSUME IInv PROVE NumberedInOrder
  <2> SUFFICES ASSUME NEW r \in Run
               PROVE  /\ \A a, b \in AttemptsOf(r) :
                           attempts[a].number = attempts[b].number => a = b
                      /\ {attempts[a].number : a \in AttemptsOf(r)} = 1 .. CurrentNumber(r)
    BY DEF NumberedInOrder
  <2>1. CASE Exists(r)
    <3>1. CurrentNumber(r) = CurrentOf(r).number /\ CurrentOf(r).number \in Nat
      BY <1>1, <2>1, RowFacts DEF CurrentNumber
    <3>2. \A a \in AttemptsOf(r) : attempts[a].number \in Nat
      BY <1>1, RowFacts DEF AttemptsOf
    <3>3. \A a \in AttemptsOf(r) : attempts[a].number \in 1 .. CurrentOf(r).number
      BY <1>1, <2>1, <3>1, <3>2, RowFacts DEF Numbered
    <3> QED BY <1>1, <2>1, <3>1, <3>3, RowFacts DEF Numbered
  <2>2. CASE ~Exists(r)
    <3>1. AttemptsOf(r) = {}
      BY <1>1, <2>2, RowFacts, NoneAssumption DEF AttemptsOf, AttemptShape
    <3>2. 1 .. CurrentNumber(r) = {}
      BY <2>2 DEF CurrentNumber
    <3> QED BY <3>1, <3>2
  <2> QED BY <2>1, <2>2
<1> QED BY <1>1, InvariantHolds, PTL

\* The runner is called at most once for an attempt and no two workers hold
\* one attempt, however often its job is delivered.
THEOREM ExecutionCorrect == Spec => []RunnerCalledOnce
<1>1. IInv => RunnerCalledOnce
  BY DEF IInv, JobsSound, ExecutionSound, RunnerCalledOnce
<1> QED BY <1>1, InvariantHolds, PTL

\* No step writes to a finished attempt.
THEOREM FrozenCorrect == Spec => FinishedAttemptsFrozen
<1>1. IInv /\ [Next]_vars =>
        [\A a \in Attempt : attempts[a].status \in Terminal => attempts'[a] = attempts[a]]_vars
  BY RowsForward
<1> QED BY <1>1, InvariantHolds, PTL DEF Spec, FinishedAttemptsFrozen

\* With nothing in Redis and nobody at work, sound rows are all the invariant
\* asks for.
LEMMA ColdStartSound == ColdStart => IInv
<1> SUFFICES ASSUME ColdStart PROVE IInv
  OBVIOUS
<1> USE DEF ColdStart
<1>1. \A h \in Handler : RequestSound(h)
  BY DEF RequestSound, NoRequest
<1>2. QueueSound
  BY DEF QueueSound
<1>3. \A w \in Worker : JobSound(w)
  BY DEF JobSound, NoJob
<1>4. ExecutionSound
  BY DEF ExecutionSound, Holds, NoJob
<1> QED BY <1>1, <1>2, <1>3, <1>4 DEF IInv, JobsSound

\* A start over rows that exist already is as good as a start over none: with
\* the rows a migration leaves, or those of a system that lost its processes
\* and its queue, everything the invariant gives holds from then on.
THEOREM ColdStartSafe == ColdSpec => []IInv
BY ColdStartSound, NextIInv, PTL DEF ColdSpec
=============================================================================
