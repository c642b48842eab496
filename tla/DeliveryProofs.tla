--------------------------- MODULE DeliveryProofs ---------------------------
(* Theorems about what RunSystem delivers: jobs are not lost silently, a   *)
(* finished run shows its result, and a reader sees a run and its attempts *)
(* in an order that makes sense.                                           *)
EXTENDS RunSystemProofs

(***************************************************************************)
(* The invariant behind them, on top of IInv                               *)
(***************************************************************************)
QueuedCarried ==
  \A r \in Run : runs[r].status = "queued" => Carried(runs[r].current)

\* NoSilentLoss speaks of current attempts; every started attempt is held.
RunningHeld ==
  \A a \in Attempt : attempts[a].status = "running" =>
    (\E w \in Worker : Holds(w, a)) \/ a \in lost

\* The attempt that was current when the run was read has gone on since; what
\* the request has loaded of it lies in between.
ViewSound(h) ==
  handler[h].pc \in {"reading", "loaded"} =>
    LET row == handler[h].row
        cur == handler[h].cur
        now == attempts[row.current].status
    IN /\ row.status \in Terminal => now = row.status
       /\ row.status = "running" => now # "queued"
       /\ cur # "absent" =>
            /\ row.status \in Terminal => cur = row.status
            /\ row.status = "running" => cur # "queued"
       /\ handler[h].pc = "loaded" =>
            cur # "absent" /\ row.current \in handler[h].known

DeliveryInv ==
  /\ QueuedCarried
  /\ RunningHeld
  /\ FinishedSnapshot
  /\ \A h \in Handler : ViewSound(h)

(***************************************************************************)
(* Results                                                                 *)
(***************************************************************************)
\* Finishing an attempt writes the same summary to attempt and run, and no other
\* write reaches a finished run or the current attempt of one.
LEMMA SnapshotStep == IInv /\ FinishedSnapshot /\ [Next]_vars => FinishedSnapshot'
<1> SUFFICES ASSUME IInv, FinishedSnapshot, [Next]_vars,
                    NEW q \in Run, runs'[q].status \in Terminal
             PROVE  runs'[q].summary = attempts'[runs'[q].current].summary
  BY DEF FinishedSnapshot, CurrentOf
<1>1. Exists(q) /\ runs[q].status \in Terminal =>
        /\ runs[q].current \in Attempt
        /\ attempts[runs[q].current].run = q
        /\ attempts[runs[q].current].status \in Terminal
        /\ runs[q].summary = attempts[runs[q].current].summary
  BY RowFacts DEF FinishedSnapshot, CurrentOf
<1>2. ASSUME runs'[q] = runs[q]
      PROVE  runs'[q].summary = attempts'[runs'[q].current].summary
  BY <1>1, <1>2, RowsForward DEF Exists, Terminal
<1>3. ASSUME NEW r \in Run, NEW a \in Attempt, Inserts(r, a) PROVE runs'[q] = runs[q]
  BY <1>3, RowFacts DEF Inserts, NewRun, NoRun, Terminal
<1>4. ASSUME NEW r \in Run, NEW a \in Attempt, NEW n \in Nat, NEW loaded \in RunRow,
             Retries(r, a, n, loaded)
      PROVE  runs'[q] = runs[q]
  BY <1>4, RowFacts DEF Retries, RetriedRun, Terminal
<1>5. ASSUME NEW r \in Run, NEW a \in Attempt, Claims(r, a) PROVE runs'[q] = runs[q]
  <2>1. Claimed(runs[r], a).status = "running"
    BY RowFacts DEF Claimed, RunRow
  <2> QED BY <1>5, <2>1, RowFacts DEF Claims, Terminal
<1>6. ASSUME NEW r \in Run, NEW a \in Attempt, NEW o \in Outcome, Finishes(r, a, o),
             runs'[q] # runs[q]
      PROVE  runs'[q].summary = attempts'[runs'[q].current].summary
  <2>1. /\ q = r /\ runs[r].current = a
        /\ runs'[r] = Finished(runs[r], a, o) /\ attempts'[a] = Finished(attempts[a], a, o)
    BY <1>6, RowFacts DEF Finishes
  <2>2. /\ runs'[r].summary = (IF o.summary THEN a ELSE None)
        /\ runs'[r].current = a
        /\ attempts'[a].summary = (IF o.summary THEN a ELSE None)
    BY <2>1, RowFacts DEF Finished, RunRow, AttemptRow
  <2> QED BY <2>1, <2>2
<1>7. CASE UNCHANGED db
  BY <1>2, <1>7 DEF db
<1> QED BY <1>2, <1>3, <1>4, <1>5, <1>6, <1>7, RowWrites

(***************************************************************************)
(* Readers                                                                 *)
(***************************************************************************)
\* While a request keeps what it has loaded, the attempt it looks at only moves
\* forward; each statement of its own adds a status that is at least as new as
\* the row of the run.
LEMMA ViewStep ==
  ASSUME IInv, \A h \in Handler : ViewSound(h), [Next]_vars
  PROVE  \A h \in Handler : ViewSound(h)'
<1>0. /\ handler \in [Handler -> Request] /\ runs \in [Run -> RunRow]
      /\ \A h \in Handler : RequestSound(h)
  BY DEF IInv, TypeOK
<1>1. ASSUME NEW h \in Handler, handler'[h] = handler[h] PROVE ViewSound(h)'
  <2> DEFINE c == handler[h].row.current
  <2>1. handler[h].pc \in {"reading", "loaded"} =>
          c \in Attempt /\ c \notin Unused
    BY <1>0, RowFacts, NoneAssumption DEF RequestSound, AttemptsOf
  <2>2. handler[h].pc \in {"reading", "loaded"} =>
          /\ attempts[c].status \in Terminal => attempts'[c].status = attempts[c].status
          /\ attempts[c].status = "running" => attempts'[c].status # "queued"
          /\ attempts[c].status \notin {"queued", "running"} => attempts[c].status \in Terminal
    BY <2>1, RowsForward, RowFacts DEF Unused, Terminal, Status, AttemptRow
  <2> QED BY <1>1, <2>2 DEF ViewSound, Terminal
<1>2. ASSUME NEW h \in Handler, NEW req, handler' = [handler EXCEPT ![h] = req], ViewSound(h)'
      PROVE  \A k \in Handler : ViewSound(k)'
  <2>1. \A k \in Handler \ {h} : handler'[k] = handler[k]
    BY <1>0, <1>2
  <2> QED BY <1>1, <1>2, <2>1
<1>3. ASSUME NEW h \in Handler, NEW req, handler' = [handler EXCEPT ![h] = req],
             req.pc \notin {"reading", "loaded"}
      PROVE  \A k \in Handler : ViewSound(k)'
  <2>1. handler'[h] = req
    BY <1>0, <1>3
  <2>2. ViewSound(h)'
    BY <1>3, <2>1 DEF ViewSound
  <2> QED BY <1>2, <1>3, <2>2
<1>4. ASSUME NEW h \in Handler,
             CreateRun(h) \/ RetryCommit(h) \/ EndRequest(h) \/ Enqueue(h) \/ EnqueueFails(h)
      PROVE  \A k \in Handler : ViewSound(k)'
  <2>1. CASE CreateRun(h) \/ RetryCommit(h)
    <3>1. PICK r, a : handler' = [handler EXCEPT ![h] =
                        [NoRequest EXCEPT !.pc = "enqueue", !.run = r, !.attempt = a]]
      BY <2>1 DEF CreateRun, RetryCommit
    <3>2. [NoRequest EXCEPT !.pc = "enqueue", !.run = r, !.attempt = a].pc = "enqueue"
      BY DEF NoRequest
    <3> QED BY <1>3, <3>1, <3>2
  <2>2. CASE EndRequest(h) \/ Enqueue(h) \/ EnqueueFails(h)
    <3>1. handler' = [handler EXCEPT ![h] = NoRequest] /\ NoRequest.pc = "idle"
      BY <2>2 DEF EndRequest, Enqueue, EnqueueFails, NoRequest
    <3> QED BY <1>3, <3>1
  <2> QED BY <1>4, <2>1, <2>2
<1>5. ASSUME NEW h \in Handler, ReadRun(h) PROVE \A k \in Handler : ViewSound(k)'
  <2>1. PICK r \in Run :
          /\ Exists(r)
          /\ handler' = [handler EXCEPT ![h] =
               [NoRequest EXCEPT !.pc = "reading", !.run = r, !.row = runs[r]]]
    BY <1>5 DEF ReadRun
  <2>2. /\ handler'[h].pc = "reading" /\ handler'[h].row = runs[r]
        /\ handler'[h].cur = "absent"
    BY <1>0, <2>1 DEF NoRequest
  <2>3. attempts' = attempts /\ attempts[runs[r].current].status = runs[r].status
    BY <1>5, <2>1, RowFacts DEF ReadRun, db
  <2>4. ViewSound(h)'
    BY <2>2, <2>3 DEF ViewSound
  <2> QED BY <1>2, <2>1, <2>4
<1>6. ASSUME NEW h \in Handler, ReadCurrent(h) PROVE \A k \in Handler : ViewSound(k)'
  <2>1. /\ handler' = [handler EXCEPT ![h] =
             [handler[h] EXCEPT !.cur = attempts[handler[h].row.current].status]]
        /\ handler[h].pc = "reading" /\ attempts' = attempts
    BY <1>6 DEF ReadCurrent, db
  <2>2. /\ handler'[h].pc = "reading" /\ handler'[h].row = handler[h].row
        /\ handler'[h].cur = attempts[handler[h].row.current].status
    BY <1>0, <2>1 DEF Request
  <2>3. ViewSound(h)'
    BY <2>1, <2>2 DEF ViewSound
  <2> QED BY <1>2, <2>1, <2>3
<1>7. ASSUME NEW h \in Handler, ReadAttempts(h) PROVE \A k \in Handler : ViewSound(k)'
  <2> DEFINE row == handler[h].row
             now == attempts[row.current].status
  <2>1. /\ \E req : handler' = [handler EXCEPT ![h] = req]
        /\ handler'[h].pc = "loaded" /\ handler'[h].row = row
        /\ handler'[h].known = AttemptsOf(handler[h].run)
        /\ handler'[h].cur = IF handler[h].cur = "absent" THEN now ELSE handler[h].cur
        /\ handler[h].pc = "reading" /\ attempts' = attempts
    <3>1. handler[h] \in Request
      BY <1>0
    <3> QED BY <1>0, <1>7, <3>1 DEF ReadAttempts, db, Request
  <2>2. row.current \in AttemptsOf(handler[h].run) /\ now # "absent"
    BY <1>0, <2>1, RowFacts, NoneAssumption DEF RequestSound, AttemptsOf, Unused
  <2>3. ViewSound(h)'
    BY <2>1, <2>2 DEF ViewSound
  <2> QED BY <1>2, <2>1, <2>3
<1>8. ASSUME UNCHANGED handler PROVE \A k \in Handler : ViewSound(k)'
  BY <1>1, <1>8
<1>9. ASSUME NEW w \in Worker, JobStep(w) \/ HorseDies(w) PROVE UNCHANGED handler
  BY <1>9 DEF JobStep, TakeJob, Claim, DeclineJob, StartRunner, RunnerMissing,
     RunnerReturns, Persist, HorseDies
<1>10. ASSUME NEW a \in Attempt, Redeliver(a) PROVE UNCHANGED handler
  BY <1>10 DEF Redeliver
<1>11. CASE QueueLost \/ UNCHANGED vars
  BY <1>8, <1>11 DEF vars, QueueLost
<1> QED
  BY <1>4, <1>5, <1>6, <1>7, <1>8, <1>9, <1>10, <1>11 DEF Next, RequestStep

(***************************************************************************)
(* Jobs                                                                    *)
(***************************************************************************)
\* A step that takes neither the attempt off the list, nor its request, nor its
\* job from a worker, leaves it carried.
LEMMA CarriedKept ==
  ASSUME NEW a \in Attempt, Carried(a),
         (\E i \in 1 .. Len(queue) : queue[i] = a) =>
           (\E i \in 1 .. Len(queue') : queue'[i] = a) \/ a \in lost',
         \A h \in Handler : handler[h].pc = "enqueue" /\ handler[h].attempt = a =>
           handler'[h] = handler[h],
         \A w \in Worker : worker[w].pc = "taken" /\ worker[w].attempt = a =>
           worker'[w] = worker[w],
         lost \subseteq lost'
  PROVE  Carried(a)'
BY DEF Carried

\* An element stays where it is when another is appended.
LEMMA AppendKeeps ==
  ASSUME NEW q \in Seq(Attempt), NEW a \in Attempt, NEW b \in Attempt
  PROVE  /\ (\E i \in 1 .. Len(q) : q[i] = a) =>
              \E i \in 1 .. Len(Append(q, b)) : Append(q, b)[i] = a
         /\ \E i \in 1 .. Len(Append(q, b)) : Append(q, b)[i] = b
<1>1. /\ Len(Append(q, b)) = Len(q) + 1 /\ Len(q) \in Nat
      /\ Append(q, b)[Len(q) + 1] = b
      /\ \A i \in 1 .. Len(q) : Append(q, b)[i] = q[i]
  OBVIOUS
<1>2. \A i \in 1 .. Len(q) : i \in 1 .. Len(q) + 1
  BY <1>1
<1>3. Len(q) + 1 \in 1 .. Len(q) + 1
  BY <1>1
<1> QED BY <1>1, <1>2, <1>3

\* All but the head is still there when the head is taken.
LEMMA TailKeeps ==
  ASSUME NEW q \in Seq(Attempt), q # <<>>, NEW a \in Attempt, a # Head(q),
         \E i \in 1 .. Len(q) : q[i] = a
  PROVE  \E i \in 1 .. Len(Tail(q)) : Tail(q)[i] = a
<1>1. PICK i \in 1 .. Len(q) : q[i] = a
  OBVIOUS
<1>2. i # 1
  BY <1>1
<1>3. i - 1 \in 1 .. Len(Tail(q)) /\ Tail(q)[i - 1] = q[i]
  BY <1>1, <1>2
<1> QED BY <1>1, <1>3

\* The current attempt of a queued run, and the claim that the database would
\* accept for it.
LEMMA QueuedIsClaimable ==
  ASSUME IInv, NEW r \in Run, runs[r].status = "queued"
  PROVE  /\ runs[r].current \in Attempt
         /\ Claimable(runs[r].current)
BY RowFacts DEF Exists, Claimable, AttemptClaimable, RunClaimable

\* A queued run was queued before, unless this step has just created or retried
\* it and is about to enqueue its new attempt.
LEMMA QueuedBefore ==
  ASSUME IInv, [Next]_vars, NEW r \in Run, runs'[r].status = "queued"
  PROVE  \/ runs[r].status = "queued" /\ runs'[r].current = runs[r].current
         \/ \E h \in Handler : (CreateRun(h) \/ RetryCommit(h))
                               /\ handler'[h].pc = "enqueue"
                               /\ handler'[h].attempt = runs'[r].current
<1>0. handler \in [Handler -> Request] /\ runs \in [Run -> RunRow]
  BY DEF IInv, TypeOK
<1>1. ASSUME NEW h \in Handler, CreateRun(h), runs'[r] # runs[r]
      PROVE  handler'[h].pc = "enqueue" /\ handler'[h].attempt = runs'[r].current
  BY <1>0, <1>1 DEF CreateRun, NewRun, NoRun, NoRequest
<1>2. ASSUME NEW h \in Handler, RetryCommit(h), runs'[r] # runs[r]
      PROVE  handler'[h].pc = "enqueue" /\ handler'[h].attempt = runs'[r].current
  BY <1>0, <1>2 DEF RetryCommit, RetriedRun, NoRequest
<1>3. ASSUME NEW w \in Worker, Claim(w) PROVE runs'[r] = runs[r]
  <2>1. \A a : \A row \in RunRow : Claimed(row, a).status = "running"
    BY DEF Claimed, RunRow
  <2> QED BY <1>0, <1>3, <2>1 DEF Claim
<1>4. ASSUME NEW w \in Worker, Persist(w) PROVE runs'[r] = runs[r]
  <2>1. \A a : \A row \in RunRow, o \in Outcome : Finished(row, a, o).status \in Terminal
    BY DEF Finished, RunRow, Outcome, Succeeded, FailedWithSummary, FailedBare, Terminal
  <2>2. worker[w].outcome \in Outcome
    BY DEF IInv, TypeOK, Job
  <2> QED BY <1>0, <1>4, <2>1, <2>2 DEF Persist, db, Terminal
<1>5. ASSUME NEW h \in Handler,
             \/ ReadRun(h) \/ ReadCurrent(h) \/ ReadAttempts(h)
             \/ EndRequest(h) \/ Enqueue(h) \/ EnqueueFails(h)
      PROVE  runs' = runs
  BY <1>5 DEF db, ReadRun, ReadCurrent, ReadAttempts, EndRequest, Enqueue, EnqueueFails
<1>6. ASSUME NEW w \in Worker,
             \/ TakeJob(w) \/ DeclineJob(w) \/ StartRunner(w)
             \/ RunnerMissing(w) \/ RunnerReturns(w) \/ HorseDies(w)
      PROVE  runs' = runs
  BY <1>6 DEF db, TakeJob, DeclineJob, StartRunner, RunnerMissing, RunnerReturns, HorseDies
<1>7. ASSUME NEW a \in Attempt, Redeliver(a) PROVE runs' = runs
  BY <1>7 DEF db, Redeliver
<1>8. CASE QueueLost \/ UNCHANGED vars
  BY <1>8 DEF vars, db, QueueLost
<1> QED
  BY <1>1, <1>2, <1>3, <1>4, <1>5, <1>6, <1>7, <1>8 DEF Next, RequestStep, JobStep

\* Whichever step is taken next, the job of a queued run stays on its way: from
\* the request to the list, from the list to a worker, and a worker that still
\* finds the run queued does not put it down.
LEMMA QueuedStep == IInv /\ QueuedCarried /\ [Next]_vars => QueuedCarried'
<1> SUFFICES ASSUME IInv, QueuedCarried, [Next]_vars,
                    NEW r \in Run, NEW a, runs'[r].status = "queued", runs'[r].current = a
             PROVE  Carried(a)'
  BY DEF QueuedCarried
<1>0. /\ handler \in [Handler -> Request] /\ worker \in [Worker -> Job]
      /\ queue \in Seq(Attempt) /\ lost \in SUBSET Attempt
      /\ \A w \in Worker : JobSound(w)
      /\ \A h \in Handler : RequestSound(h)
  BY DEF IInv, TypeOK, JobsSound
<1>1. ASSUME NEW h \in Handler, handler'[h].pc = "enqueue", handler'[h].attempt = a
      PROVE  Carried(a)'
  BY <1>1 DEF Carried
<1> SUFFICES ASSUME runs[r].status = "queued", runs[r].current = a
             PROVE  Carried(a)'
  BY <1>1, QueuedBefore
<1>2. /\ a \in Attempt /\ Carried(a) /\ Claimable(a)
      /\ attempts[a].run = r /\ attempts[a].status = "queued"
  BY QueuedIsClaimable, RowFacts DEF QueuedCarried, Exists
<1>3. ASSUME UNCHANGED <<queue, worker, lost>>, NEW h \in Handler,
             \E req : handler' = [handler EXCEPT ![h] = req],
             handler[h].pc # "enqueue"
      PROVE  Carried(a)'
  <2>1. \A k \in Handler \ {h} : handler'[k] = handler[k]
    BY <1>0, <1>3
  <2> QED BY <1>2, <1>3, <2>1, CarriedKept
<1>4. ASSUME NEW h \in Handler,
             \/ CreateRun(h) \/ ReadRun(h) \/ ReadCurrent(h) \/ ReadAttempts(h)
             \/ EndRequest(h) \/ RetryCommit(h)
      PROVE  Carried(a)'
  <2>1. UNCHANGED <<queue, worker, lost>> /\ handler[h].pc # "enqueue"
    BY <1>4 DEF CreateRun, ReadRun, ReadCurrent, ReadAttempts, EndRequest, RetryCommit, redis
  <2>2. \E req : handler' = [handler EXCEPT ![h] = req]
    BY <1>4 DEF CreateRun, ReadRun, ReadCurrent, ReadAttempts, EndRequest, RetryCommit
  <2> QED BY <1>3, <2>1, <2>2
<1>5. ASSUME NEW h \in Handler, Enqueue(h) PROVE Carried(a)'
  <2> DEFINE b == handler[h].attempt
  <2>1. /\ queue' = Append(queue, b) /\ UNCHANGED <<worker, lost>> /\ b \in Attempt
        /\ \A k \in Handler \ {h} : handler'[k] = handler[k]
    BY <1>0, <1>5 DEF Enqueue, RequestSound
  <2> HIDE DEF b
  <2>2. CASE a = b
    BY <1>0, <2>1, <2>2, AppendKeeps DEF Carried
  <2>3. CASE a # b
    <3>1. (\E i \in 1 .. Len(queue) : queue[i] = a) => \E i \in 1 .. Len(queue') : queue'[i] = a
      BY <1>0, <1>2, <2>1, AppendKeeps
    <3> QED BY <1>2, <2>1, <2>3, <3>1, CarriedKept DEF b
  <2> QED BY <2>2, <2>3
<1>6. ASSUME NEW h \in Handler, EnqueueFails(h) PROVE Carried(a)'
  <2>1. /\ lost' = lost \cup {handler[h].attempt} /\ UNCHANGED <<queue, worker>>
        /\ \A k \in Handler \ {h} : handler'[k] = handler[k]
    BY <1>0, <1>6 DEF EnqueueFails, redis
  <2>2. CASE a = handler[h].attempt
    BY <2>1, <2>2 DEF Carried
  <2>3. CASE a # handler[h].attempt
    BY <1>2, <2>1, <2>3, CarriedKept
  <2> QED BY <2>2, <2>3
<1>7. ASSUME NEW w \in Worker, TakeJob(w) PROVE Carried(a)'
  <2>1. /\ queue # <<>> /\ queue' = Tail(queue) /\ UNCHANGED <<handler, lost>>
        /\ worker[w].pc = "idle"
        /\ worker'[w].pc = "taken" /\ worker'[w].attempt = Head(queue)
        /\ \A v \in Worker \ {w} : worker'[v] = worker[v]
    BY <1>0, <1>7 DEF TakeJob, NoJob
  <2>2. CASE a = Head(queue)
    BY <2>1, <2>2 DEF Carried
  <2>3. CASE a # Head(queue)
    <3>1. (\E i \in 1 .. Len(queue) : queue[i] = a) => \E i \in 1 .. Len(queue') : queue'[i] = a
      BY <1>0, <1>2, <2>1, <2>3, TailKeeps
    <3> QED BY <1>2, <2>1, <3>1, CarriedKept
  <2> QED BY <2>2, <2>3
<1>8. ASSUME NEW w \in Worker, UNCHANGED <<queue, handler>>, lost \subseteq lost',
             \E job : worker' = [worker EXCEPT ![w] = job],
             worker[w].pc = "taken" /\ worker[w].attempt = a => a \in lost'
      PROVE  Carried(a)'
  <2>1. \A v \in Worker \ {w} : worker'[v] = worker[v]
    BY <1>0, <1>8
  <2>2. CASE a \in lost'
    BY <2>2 DEF Carried
  <2>3. CASE a \notin lost'
    BY <1>2, <1>8, <2>1, <2>3, CarriedKept
  <2> QED BY <2>2, <2>3
<1>9. ASSUME NEW w \in Worker, Claim(w) PROVE Carried(a)'
  <2>1. worker[w].attempt # a
    <3> SUFFICES ASSUME worker[w].attempt = a PROVE FALSE
      OBVIOUS
    <3>1. runs' = [runs EXCEPT ![r] = Claimed(runs[r], a)]
      BY <1>2, <1>9 DEF Claim
    <3>2. runs'[r].status = "running"
      BY <3>1, RowFacts DEF Claimed, RunRow
    <3> QED BY <3>2
  <2>2. /\ UNCHANGED <<queue, handler>> /\ lost' = lost
        /\ \E job : worker' = [worker EXCEPT ![w] = job]
    BY <1>9 DEF Claim, redis
  <2> QED BY <1>8, <2>1, <2>2
<1>10. ASSUME NEW w \in Worker, DeclineJob(w) PROVE Carried(a)'
  <2>1. /\ worker[w].attempt # a
        /\ UNCHANGED <<queue, handler>> /\ lost' = lost
        /\ \E job : worker' = [worker EXCEPT ![w] = job]
    BY <1>2, <1>10 DEF DeclineJob, redis
  <2> QED BY <1>8, <2>1
<1>11. ASSUME NEW w \in Worker,
              StartRunner(w) \/ RunnerMissing(w) \/ RunnerReturns(w) \/ Persist(w)
       PROVE  Carried(a)'
  <2>1. /\ worker[w].pc # "taken"
        /\ UNCHANGED <<queue, handler>> /\ lost' = lost
    BY <1>11 DEF StartRunner, RunnerMissing, RunnerReturns, Persist, redis
  <2>2. \E job : worker' = [worker EXCEPT ![w] = job]
    BY <1>11 DEF StartRunner, RunnerMissing, RunnerReturns, Persist
  <2> QED BY <1>8, <2>1, <2>2
<1>12. ASSUME NEW w \in Worker, HorseDies(w) PROVE Carried(a)'
  <2>1. /\ UNCHANGED <<queue, handler>> /\ lost' = lost \cup {worker[w].attempt}
        /\ \E job : worker' = [worker EXCEPT ![w] = job]
    BY <1>12 DEF HorseDies, redis
  <2> QED BY <1>8, <2>1
<1>13. ASSUME NEW b \in Attempt, Redeliver(b) PROVE Carried(a)'
  <2>1. queue' = Append(queue, b) /\ UNCHANGED <<handler, worker, lost>>
    BY <1>13 DEF Redeliver
  <2>2. (\E i \in 1 .. Len(queue) : queue[i] = a) => \E i \in 1 .. Len(queue') : queue'[i] = a
    BY <1>0, <1>2, <2>1, AppendKeeps
  <2> QED BY <1>2, <2>1, <2>2, CarriedKept
<1>14. CASE QueueLost
  <2>1. /\ lost' = lost \cup {queue[i] : i \in 1 .. Len(queue)}
        /\ UNCHANGED <<handler, worker>>
    BY <1>14 DEF QueueLost
  <2>2. (\E i \in 1 .. Len(queue) : queue[i] = a) => a \in lost'
    BY <2>1
  <2> QED BY <1>2, <2>1, <2>2, CarriedKept
<1>15. CASE UNCHANGED vars
  BY <1>2, <1>15 DEF vars, Carried
<1> QED
  BY <1>4, <1>5, <1>6, <1>7, <1>9, <1>10, <1>11, <1>12, <1>13, <1>14, <1>15
     DEF Next, RequestStep, JobStep

\* A worker holds a started attempt until it has written the end of it, or dies.
LEMMA RunningStep == IInv /\ RunningHeld /\ [Next]_vars => RunningHeld'
<1> SUFFICES ASSUME IInv, RunningHeld, [Next]_vars,
                    NEW b \in Attempt, attempts'[b].status = "running"
             PROVE  (\E w \in Worker : Holds(w, b)') \/ b \in lost'
  BY DEF RunningHeld
<1>0. /\ worker \in [Worker -> Job] /\ attempts \in [Attempt -> AttemptRow]
      /\ \A w \in Worker : JobSound(w)
      /\ \A v, w \in Worker, c \in Attempt : Holds(v, c) /\ Holds(w, c) => v = w
      /\ attempts[b].status = "running" => (\E w \in Worker : Holds(w, b)) \/ b \in lost
  BY DEF IInv, TypeOK, JobsSound, ExecutionSound, RunningHeld
<1>1. ASSUME UNCHANGED <<worker, attempts>>, lost \subseteq lost'
      PROVE  (\E w \in Worker : Holds(w, b)') \/ b \in lost'
  BY <1>0, <1>1 DEF Holds
<1>2. ASSUME NEW h \in Handler, CreateRun(h) \/ RetryCommit(h)
      PROVE  (\E w \in Worker : Holds(w, b)') \/ b \in lost'
  <2>1. \A r, n : NewAttempt(r, n).status = "queued"
    BY DEF NewAttempt, NoAttempt
  <2>2. attempts[b].status = "running"
    <3>1. CASE CreateRun(h)
      BY <1>0, <2>1, <3>1 DEF CreateRun
    <3>2. CASE RetryCommit(h)
      <4> DEFINE q == handler[h].run
                 m == NextAttemptNumber(handler[h].known)
      <4>1. \E a \in Unused : attempts' = [attempts EXCEPT ![a] = NewAttempt(q, m)]
        BY <3>2 DEF RetryCommit
      <4> HIDE DEF q, m
      <4> QED BY <1>0, <2>1, <4>1
    <3> QED BY <1>2, <3>1, <3>2
  <2>3. UNCHANGED <<worker, lost>>
    BY <1>2 DEF CreateRun, RetryCommit
  <2> QED BY <1>0, <2>2, <2>3 DEF Holds
<1>3. ASSUME NEW h \in Handler,
             \/ ReadRun(h) \/ ReadCurrent(h) \/ ReadAttempts(h)
             \/ EndRequest(h) \/ Enqueue(h) \/ EnqueueFails(h)
      PROVE  (\E w \in Worker : Holds(w, b)') \/ b \in lost'
  <2>1. UNCHANGED <<worker, attempts>> /\ lost \subseteq lost'
    BY <1>3 DEF ReadRun, ReadCurrent, ReadAttempts, EndRequest, Enqueue, EnqueueFails, db
  <2> QED BY <1>1, <2>1
<1>4. ASSUME NEW w \in Worker, NEW job, worker' = [worker EXCEPT ![w] = job],
             UNCHANGED attempts, lost \subseteq lost',
             Holds(w, b) => Holds(w, b)' \/ b \in lost'
      PROVE  (\E v \in Worker : Holds(v, b)') \/ b \in lost'
  <2>1. \A v \in Worker \ {w} : worker'[v] = worker[v]
    BY <1>0, <1>4
  <2> QED BY <1>0, <1>4, <2>1 DEF Holds
<1>5. ASSUME NEW w \in Worker, TakeJob(w) \/ DeclineJob(w)
      PROVE  (\E v \in Worker : Holds(v, b)') \/ b \in lost'
  <2>1. /\ worker[w].pc \in {"idle", "taken"} /\ UNCHANGED attempts /\ lost' = lost
        /\ \E job : worker' = [worker EXCEPT ![w] = job]
    BY <1>5 DEF TakeJob, DeclineJob, db
  <2> QED BY <1>4, <2>1 DEF Holds
<1>6. ASSUME NEW w \in Worker, Claim(w)
      PROVE  (\E v \in Worker : Holds(v, b)') \/ b \in lost'
  <2> DEFINE a == worker[w].attempt
  <2>1. /\ attempts' = [attempts EXCEPT ![a] = Claimed(attempts[a], a)]
        /\ worker'[w].pc = "claimed" /\ worker'[w].attempt = a /\ lost' = lost
        /\ worker[w].pc = "taken"
        /\ \A v \in Worker \ {w} : worker'[v] = worker[v]
    BY <1>0, <1>6 DEF Claim, Job
  <2>2. CASE b = a
    BY <2>1, <2>2 DEF Holds
  <2>3. CASE b # a
    <3>1. attempts[b].status = "running"
      BY <1>0, <2>1, <2>3
    <3> QED BY <1>0, <2>1, <3>1 DEF Holds
  <2> QED BY <2>2, <2>3
<1>7. ASSUME NEW w \in Worker, StartRunner(w) \/ RunnerMissing(w) \/ RunnerReturns(w)
      PROVE  (\E v \in Worker : Holds(v, b)') \/ b \in lost'
  <2>1. UNCHANGED attempts /\ lost' = lost
    BY <1>7 DEF StartRunner, RunnerMissing, RunnerReturns, db
  <2>2. \E job : worker' = [worker EXCEPT ![w] = job]
    BY <1>7 DEF StartRunner, RunnerMissing, RunnerReturns
  <2>3. worker'[w].attempt = worker[w].attempt /\ worker'[w].pc \in {"executing", "result"}
    <3>1. worker[w] \in Job
      BY <1>0
    <3> QED BY <1>0, <1>7, <3>1 DEF StartRunner, RunnerMissing, RunnerReturns, Job
  <2> QED BY <1>4, <2>1, <2>2, <2>3 DEF Holds
<1>8. ASSUME NEW w \in Worker, Persist(w)
      PROVE  (\E v \in Worker : Holds(v, b)') \/ b \in lost'
  <2> DEFINE a == worker[w].attempt
             o == worker[w].outcome
  <2>1. /\ worker[w].pc = "result" /\ a \in Attempt /\ attempts[a].status = "running"
        /\ Holds(w, a) /\ o \in Outcome
    BY <1>0, <1>8 DEF Persist, JobSound, Holds, Job
  <2>2. /\ attempts' = [attempts EXCEPT ![a] = Finished(attempts[a], a, o)] /\ lost' = lost
        /\ \A v \in Worker \ {w} : worker'[v] = worker[v]
    BY <1>0, <1>8, <2>1 DEF Persist, ResultAccepted
  <2>3. attempts'[a].status \in Terminal
    BY <1>0, <2>1, <2>2 DEF Finished, AttemptRow, Outcome, Succeeded, FailedWithSummary,
       FailedBare, Terminal
  <2> HIDE DEF a, o
  <2>4. b # a /\ attempts[b].status = "running"
    BY <1>0, <2>1, <2>2, <2>3 DEF Terminal
  <2>5. ~Holds(w, b)
    BY <2>1, <2>4 DEF Holds
  <2> QED BY <1>0, <2>2, <2>4, <2>5 DEF Holds
<1>9. ASSUME NEW w \in Worker, HorseDies(w)
      PROVE  (\E v \in Worker : Holds(v, b)') \/ b \in lost'
  <2>1. /\ UNCHANGED attempts /\ lost' = lost \cup {worker[w].attempt}
        /\ \E job : worker' = [worker EXCEPT ![w] = job]
    BY <1>9 DEF HorseDies, db
  <2> QED BY <1>4, <2>1 DEF Holds
<1>10. ASSUME NEW a \in Attempt, Redeliver(a)
       PROVE  (\E w \in Worker : Holds(w, b)') \/ b \in lost'
  BY <1>1, <1>10 DEF Redeliver, db
<1>11. CASE QueueLost \/ UNCHANGED vars
  BY <1>1, <1>11 DEF vars, QueueLost, db
<1> QED
  BY <1>2, <1>3, <1>5, <1>6, <1>7, <1>8, <1>9, <1>10, <1>11 DEF Next, RequestStep, JobStep

(***************************************************************************)
(* Theorems                                                                *)
(***************************************************************************)
\* Nothing is queued, running, finished or read in the first state.
LEMMA InitDelivery == Init => DeliveryInv
<1> SUFFICES ASSUME Init PROVE DeliveryInv
  OBVIOUS
<1>1. /\ \A r \in Run : runs[r].status = "absent"
      /\ \A a \in Attempt : attempts[a].status = "absent"
      /\ \A h \in Handler : handler[h].pc = "idle"
  BY DEF Init, NoRun, NoAttempt, NoRequest
<1> QED
  BY <1>1 DEF DeliveryInv, QueuedCarried, RunningHeld, FinishedSnapshot, ViewSound, Terminal

\* The two invariants hold together in every reachable state.
THEOREM DeliveryHolds == Spec => [](IInv /\ DeliveryInv)
<1>1. Init => IInv /\ DeliveryInv
  BY InitIInv, InitDelivery
<1>2. (IInv /\ DeliveryInv) /\ [Next]_vars => (IInv /\ DeliveryInv)'
  BY NextIInv, SnapshotStep, ViewStep, QueuedStep, RunningStep DEF DeliveryInv
<1> QED BY <1>1, <1>2, PTL DEF Spec

\* The same from a start over rows that exist already, when they show the results
\* of their current attempts: only the jobs that were under way before are lost,
\* and none of those that come after.
THEOREM ColdStartDelivers == ColdSpec /\ SnapshotIsCurrents => [](IInv /\ DeliveryInv)
<1>1. ASSUME ColdStart, SnapshotIsCurrents PROVE IInv /\ DeliveryInv
  <2>1. IInv
    BY <1>1, ColdStartSound
  <2>2. /\ \A a \in Attempt : attempts[a].status \in {"queued", "running"} => a \in lost
        /\ \A h \in Handler : handler[h].pc = "idle"
    BY <1>1 DEF ColdStart, NoRequest
  <2>3. QueuedCarried
    BY <2>1, <2>2, RowFacts DEF QueuedCarried, Carried, Exists
  <2>4. RunningHeld /\ \A h \in Handler : ViewSound(h)
    BY <2>2 DEF RunningHeld, ViewSound
  <2>5. FinishedSnapshot
    BY <1>1 DEF FinishedSnapshot, SnapshotIsCurrents, Exists, Terminal
  <2> QED BY <2>1, <2>3, <2>4, <2>5 DEF DeliveryInv
<1>2. (IInv /\ DeliveryInv) /\ [Next]_vars => (IInv /\ DeliveryInv)'
  BY NextIInv, SnapshotStep, ViewStep, QueuedStep, RunningStep DEF DeliveryInv
<1> QED BY <1>1, <1>2, PTL DEF ColdSpec

\* A run that is queued or running has a job on its way or a worker at work, or
\* a delivery of its current attempt has failed: nothing else loses a job.
LEMMA NoSilentLossFollows == IInv /\ DeliveryInv => NoSilentLoss
<1> SUFFICES ASSUME IInv, DeliveryInv, NEW r \in Run
             PROVE  /\ runs[r].status = "queued" => Carried(runs[r].current)
                    /\ runs[r].status = "running" =>
                         \/ \E w \in Worker : Holds(w, runs[r].current)
                         \/ runs[r].current \in lost
  BY DEF NoSilentLoss
<1>1. runs[r].status = "running" =>
        runs[r].current \in Attempt /\ attempts[runs[r].current].status = "running"
  BY RowFacts DEF Exists
<1> QED BY <1>1 DEF DeliveryInv, QueuedCarried, RunningHeld

\* No job is lost silently.
THEOREM NoSilentLossCorrect == Spec => []NoSilentLoss
BY NoSilentLossFollows, DeliveryHolds, PTL

\* A finished run shows the summary of its current attempt, although a retry may
\* leave an older one on the run while it is queued.
THEOREM SnapshotCorrect == Spec => []FinishedSnapshot
<1>1. DeliveryInv => FinishedSnapshot
  BY DEF DeliveryInv
<1> QED BY <1>1, DeliveryHolds, PTL

\* A reader's three statements never show a run that is ahead of its attempt.
THEOREM ViewCorrect == Spec => []ViewRunsForward
<1>1. DeliveryInv => ViewRunsForward
  BY DEF DeliveryInv, ViewSound, ViewRunsForward
<1> QED BY <1>1, DeliveryHolds, PTL
=============================================================================
