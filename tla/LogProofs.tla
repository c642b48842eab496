----------------------------- MODULE LogProofs -----------------------------
(* The rows of RunSystem implement the log of attempts: every step of the   *)
(* services appends to one log, writes one entry of it, or does nothing.    *)
EXTENDS DeliveryProofs

\* What numbering and mirroring mean for the log: it has one entry for each
\* attempt, at its number, and the run shows the newest one.
LogRead ==
  \A r \in Run :
    /\ CurrentNumber(r) \in Nat
    /\ \A n \in 1 .. CurrentNumber(r) :
         LET a == AttemptAt(r, n)
         IN a \in Attempt /\ attempts[a].run = r /\ attempts[a].number = n
    /\ \A a \in Attempt : attempts[a].run = r =>
         /\ attempts[a].number \in 1 .. CurrentNumber(r)
         /\ AttemptAt(r, attempts[a].number) = a
    /\ LogOf(r) \in Seq(Status \cup {"absent"})
    /\ Len(LogOf(r)) = CurrentNumber(r)
    /\ Exists(r) => /\ CurrentNumber(r) = attempts[runs[r].current].number
                    /\ CurrentNumber(r) >= 1
                    /\ LogOf(r)[CurrentNumber(r)] = runs[r].status

LEMMA LogReads == IInv => LogRead
<1> SUFFICES ASSUME IInv, NEW r \in Run
             PROVE  LogRead!(r)
  BY DEF LogRead
<1> DEFINE k == CurrentNumber(r)
<1>1. k \in Nat
  BY RowFacts DEF CurrentNumber
<1>2. \A a \in Attempt : attempts[a].run = r => Exists(r) /\ attempts[a].number \in 1 .. k
  BY RowFacts, NoneAssumption DEF AttemptShape, Numbered, AttemptsOf, CurrentNumber
<1>3. \A n \in 1 .. k : \E a \in AttemptsOf(r) : attempts[a].number = n
  BY RowFacts DEF Numbered, CurrentNumber
<1>4. \A n \in 1 .. k : AttemptAt(r, n) \in AttemptsOf(r) /\ attempts[AttemptAt(r, n)].number = n
  BY <1>3 DEF AttemptAt
<1>5. \A a, b \in AttemptsOf(r) : attempts[a].number = attempts[b].number => a = b
  <2>1. \A a \in AttemptsOf(r) : a \in Attempt /\ attempts[a].run = r
    BY DEF AttemptsOf
  <2> QED BY <1>2, <2>1, RowFacts DEF Numbered
<1>6. \A a \in Attempt : attempts[a].run = r => AttemptAt(r, attempts[a].number) = a
  BY <1>2, <1>4, <1>5 DEF AttemptsOf
<1>7. \A n \in 1 .. k :
        /\ AttemptAt(r, n) \in Attempt
        /\ attempts[AttemptAt(r, n)].run = r
        /\ attempts[AttemptAt(r, n)].number = n
        /\ attempts[AttemptAt(r, n)].status \in Status \cup {"absent"}
  BY <1>4, RowFacts DEF AttemptsOf, AttemptRow
<1>8. LogOf(r) \in [1 .. k -> Status \cup {"absent"}]
  BY <1>7 DEF LogOf
<1>9. LogOf(r) \in Seq(Status \cup {"absent"}) /\ Len(LogOf(r)) = k
  <2> HIDE DEF k
  <2> QED BY <1>1, <1>8
<1>10. Exists(r) =>
         /\ k = attempts[runs[r].current].number
         /\ k >= 1
         /\ LogOf(r)[k] = runs[r].status
  <2> SUFFICES ASSUME Exists(r) PROVE /\ k = attempts[runs[r].current].number
                                      /\ k >= 1
                                      /\ LogOf(r)[k] = runs[r].status
    OBVIOUS
  <2>1. /\ runs[r].current \in Attempt /\ attempts[runs[r].current].run = r
        /\ attempts[runs[r].current].status = runs[r].status
    BY RowFacts
  <2>2. k = attempts[runs[r].current].number
    BY DEF CurrentNumber, CurrentOf
  <2>3. k \in 1 .. k /\ AttemptAt(r, k) = runs[r].current
    BY <1>2, <1>6, <2>1, <2>2
  <2>4. LogOf(r)[k] = attempts[AttemptAt(r, k)].status
    BY <2>3 DEF LogOf
  <2> QED BY <1>1, <2>1, <2>2, <2>3, <2>4
<1> QED BY <1>1, <1>2, <1>6, <1>7, <1>9, <1>10

(***************************************************************************)
(* What the transactions do to the logs                                    *)
(***************************************************************************)
\* A write that keeps run and number of every attempt keeps the place of each
\* in its log.
LEMMA PlacesKept ==
  ASSUME LogRead, LogRead',
         \A b \in Attempt : attempts'[b].run = attempts[b].run
                            /\ attempts'[b].number = attempts[b].number,
         NEW q \in Run, CurrentNumber(q)' = CurrentNumber(q)
  PROVE  LogOf(q)' = [n \in 1 .. CurrentNumber(q) |-> attempts'[AttemptAt(q, n)].status]
<1>1. \A n \in 1 .. CurrentNumber(q) : AttemptAt(q, n)' = AttemptAt(q, n)
  BY DEF LogRead
<1> QED BY <1>1 DEF LogOf

\* One attempt gets another status: one entry of one log does.
LEMMA EntryWritten ==
  ASSUME LogRead, LogRead',
         NEW r \in Run, NEW a \in Attempt, attempts[a].run = r,
         \A b \in Attempt : attempts'[b].run = attempts[b].run
                            /\ attempts'[b].number = attempts[b].number,
         \A b \in Attempt \ {a} : attempts'[b] = attempts[b],
         \A q \in Run : CurrentNumber(q)' = CurrentNumber(q)
  PROVE  \A q \in Run : LogOf(q)' =
           IF q = r THEN [LogOf(r) EXCEPT ![attempts[a].number] = attempts'[a].status]
                    ELSE LogOf(q)
<1> SUFFICES ASSUME NEW q \in Run
             PROVE  LogOf(q)' =
                      IF q = r THEN [LogOf(r) EXCEPT ![attempts[a].number] = attempts'[a].status]
                               ELSE LogOf(q)
  OBVIOUS
<1>1. LogOf(q)' = [n \in 1 .. CurrentNumber(q) |-> attempts'[AttemptAt(q, n)].status]
  BY PlacesKept
<1>2. \A n \in 1 .. CurrentNumber(q) :
        /\ AttemptAt(q, n) \in Attempt
        /\ attempts[AttemptAt(q, n)].run = q
        /\ attempts[AttemptAt(q, n)].number = n
  BY DEF LogRead
<1>3. LogOf(q) = [n \in 1 .. CurrentNumber(q) |-> attempts[AttemptAt(q, n)].status]
  BY DEF LogOf
<1>4. CASE q = r
  <2> DEFINE e == attempts'[a].status
  <2>1. attempts[a].number \in 1 .. CurrentNumber(r) /\ AttemptAt(r, attempts[a].number) = a
    BY DEF LogRead
  <2>2. \A n \in 1 .. CurrentNumber(r) :
          attempts'[AttemptAt(r, n)].status =
            IF n = attempts[a].number THEN e
                                      ELSE attempts[AttemptAt(r, n)].status
    BY <1>2, <1>4, <2>1
  <2> HIDE DEF e
  <2>3. [LogOf(r) EXCEPT ![attempts[a].number] = e] =
          [n \in 1 .. CurrentNumber(r) |->
             IF n = attempts[a].number THEN e ELSE attempts[AttemptAt(r, n)].status]
    BY <1>3, <1>4, <2>1
  <2>4. LogOf(r)' = [n \in 1 .. CurrentNumber(r) |->
          IF n = attempts[a].number THEN e ELSE attempts[AttemptAt(r, n)].status]
    BY <1>1, <1>4, <2>2
  <2> QED BY <1>4, <2>3, <2>4 DEF e
<1>5. CASE q # r
  <2>1. \A n \in 1 .. CurrentNumber(q) : AttemptAt(q, n) # a
    BY <1>2, <1>5
  <2> QED BY <1>1, <1>2, <1>3, <1>5, <2>1
<1> QED BY <1>4, <1>5

\* A new attempt with the next number is a new entry at the end of one log.
LEMMA EntryAppended ==
  ASSUME LogRead, LogRead', attempts \in [Attempt -> AttemptRow],
         NEW r \in Run, NEW a \in Attempt, attempts[a].run \notin Run,
         attempts' = [attempts EXCEPT ![a] = NewAttempt(r, CurrentNumber(r) + 1)],
         CurrentNumber(r)' = CurrentNumber(r) + 1,
         \A q \in Run \ {r} : CurrentNumber(q)' = CurrentNumber(q)
  PROVE  \A q \in Run : LogOf(q)' = IF q = r THEN Append(LogOf(r), "queued") ELSE LogOf(q)
<1> SUFFICES ASSUME NEW q \in Run
             PROVE  LogOf(q)' = IF q = r THEN Append(LogOf(r), "queued") ELSE LogOf(q)
  OBVIOUS
<1>1. /\ attempts'[a].status = "queued" /\ attempts'[a].run = r
      /\ attempts'[a].number = CurrentNumber(r) + 1
      /\ \A b \in Attempt \ {a} : attempts'[b] = attempts[b]
  BY DEF NewAttempt, NoAttempt
<1>2. \A n \in 1 .. CurrentNumber(q) :
        /\ AttemptAt(q, n) \in Attempt \ {a}
        /\ attempts[AttemptAt(q, n)].run = q
        /\ attempts[AttemptAt(q, n)].number = n
  BY DEF LogRead
<1>3. /\ CurrentNumber(q) \in Nat
      /\ \A b \in Attempt : attempts'[b].run = q => AttemptAt(q, attempts[b].number)' = b
  BY DEF LogRead
<1>4. \A n \in 1 .. CurrentNumber(q) :
        attempts'[AttemptAt(q, n)'].status = attempts[AttemptAt(q, n)].status
  <2> TAKE n \in 1 .. CurrentNumber(q)
  <2> DEFINE b == AttemptAt(q, n)
  <2>1. b \in Attempt /\ attempts'[b] = attempts[b] /\ attempts[b].run = q
        /\ attempts[b].number = n
    BY <1>1, <1>2
  <2> HIDE DEF b
  <2>2. \A m : m = attempts'[b].number => AttemptAt(q, m)' = b
    BY <1>3, <2>1
  <2>3. AttemptAt(q, n)' = b
    BY <2>1, <2>2
  <2> QED BY <2>1, <2>3 DEF b
<1>5. CASE q # r
  BY <1>4, <1>5 DEF LogOf
<1>6. CASE q = r
  <2> DEFINE k == CurrentNumber(r)
             s == LogOf(r)
             t == LogOf(r)'
  <2>1. /\ s \in Seq(Status \cup {"absent"}) /\ Len(s) = k /\ k \in Nat
        /\ t \in Seq(Status \cup {"absent"}) /\ Len(t) = k + 1
    BY DEF LogRead
  <2>2. \A n : n = k + 1 => AttemptAt(r, n)' = a
    BY <1>1, <1>3, <1>6
  <2>3. t[k + 1] = "queued"
    BY <1>1, <2>1, <2>2 DEF LogOf
  <2>4. \A n \in 1 .. k : t[n] = s[n]
    BY <1>4, <1>6, <2>1 DEF LogOf
  <2> HIDE DEF k, s, t
  <2>5. t = Append(s, "queued")
    <3>1. Append(s, "queued") \in Seq(Status \cup {"absent"})
      BY <2>1 DEF Status
    <3>2. Len(Append(s, "queued")) = k + 1
      BY <2>1
    <3>3. \A n \in 1 .. k + 1 : Append(s, "queued")[n] = t[n]
      BY <2>1, <2>3, <2>4
    <3> QED BY <2>1, <3>1, <3>2, <3>3
  <2> QED BY <1>6, <2>5 DEF s, t
<1> QED BY <1>5, <1>6

(***************************************************************************)
(* Each transaction is a step of AttemptLog                                *)
(***************************************************************************)
LogNow   == [q \in Run |-> LogOf(q)]
ShownNow == [q \in Run |-> runs[q].status]

\* The shape in which AttemptLog writes: one log is replaced and its run shows
\* the newest entry.
LEMMA LogWritten ==
  ASSUME LogRead', NEW r \in Run, NEW s,
         \A q \in Run : LogOf(q)' = IF q = r THEN s ELSE LogOf(q),
         Exists(r)', \A q \in Run \ {r} : runs'[q].status = runs[q].status
  PROVE  /\ LogNow' = [LogNow EXCEPT ![r] = s]
         /\ ShownNow' = [ShownNow EXCEPT ![r] = s[Len(s)]]
<1>1. s = LogOf(r)'
  OBVIOUS
<1>2. runs'[r].status = s[Len(s)]
  BY <1>1 DEF LogRead
<1>3. LogNow' = [LogNow EXCEPT ![r] = s]
  BY DEF LogNow
<1>4. ShownNow' = [ShownNow EXCEPT ![r] = s[Len(s)]]
  BY <1>2 DEF ShownNow
<1> QED BY <1>3, <1>4

LEMMA InsertsSubmit ==
  ASSUME IInv, IInv', NEW r \in Run, NEW a \in Attempt, Inserts(r, a)
  PROVE  Log!Submit(r)
<1>0. LogRead /\ LogRead'
  BY LogReads, PTL
<1>1. /\ a \in Unused /\ ~Exists(r)
      /\ attempts' = [attempts EXCEPT ![a] = NewAttempt(r, 1)]
      /\ runs'[r] = NewRun(a) /\ \A q \in Run \ {r} : runs'[q] = runs[q]
  BY RowFacts DEF Inserts
<1>2. CurrentNumber(r) = 0 /\ LogOf(r) = << >>
  <2>1. CurrentNumber(r) = 0
    BY <1>1 DEF CurrentNumber
  <2> QED BY <1>0, <2>1 DEF LogRead
<1>3. attempts'[a].number = 1 /\ attempts'[a].status = "queued"
      /\ \A b \in Attempt \ {a} : attempts'[b] = attempts[b]
  BY <1>1, RowFacts DEF NewAttempt, NoAttempt
<1>4. Exists(r)' /\ runs'[r].current = a
  BY <1>1 DEF Exists, NewRun, NoRun
<1>5. CurrentNumber(r)' = 1
  BY <1>3, <1>4 DEF CurrentNumber, CurrentOf
<1>6. \A q \in Run \ {r} : CurrentNumber(q)' = CurrentNumber(q)
  BY <1>1, <1>3, RowFacts, NoneAssumption DEF CurrentNumber, CurrentOf, Exists
<1>7. \A q \in Run : LogOf(q)' = IF q = r THEN Append(LogOf(r), "queued") ELSE LogOf(q)
  <2>1. /\ attempts \in [Attempt -> AttemptRow] /\ attempts[a].run \notin Run
        /\ attempts' = [attempts EXCEPT ![a] = NewAttempt(r, CurrentNumber(r) + 1)]
        /\ CurrentNumber(r)' = CurrentNumber(r) + 1
    BY <1>1, <1>2, <1>5, RowFacts, NoneAssumption
  <2> QED BY <1>0, <1>6, <2>1, EntryAppended
<1>8. Append(LogOf(r), "queued") = <<"queued">>
  BY <1>2
<1>9. \A q \in Run \ {r} : runs'[q].status = runs[q].status
  BY <1>1
<1> DEFINE s == <<"queued">>
<1>10. /\ LogNow' = [LogNow EXCEPT ![r] = s]
       /\ ShownNow' = [ShownNow EXCEPT ![r] = s[Len(s)]]
  <2> HIDE DEF s
  <2>1. \A q \in Run : LogOf(q)' = IF q = r THEN s ELSE LogOf(q)
    BY <1>7, <1>8 DEF s
  <2> QED BY <1>0, <1>4, <1>9, <2>1, LogWritten
<1>11. LogNow[r] = << >>
  BY <1>2 DEF LogNow
<1> QED BY <1>10, <1>11 DEF Log!Submit, Log!Write, Log!Newest, LogNow, ShownNow

\* The attempt that was current when the request read the run had failed, and
\* still has: an older one may be retried, but never one that did not fail.
LEMMA RetriesResubmit ==
  ASSUME IInv, IInv', NEW r \in Run, NEW a \in Attempt, NEW n \in Nat,
         NEW loaded \in RunRow, Retries(r, a, n, loaded),
         \E b \in Attempt : attempts[b].run = r /\ attempts[b].status = "failed"
  PROVE  Log!Resubmit(r)
<1>0. LogRead /\ LogRead'
  BY LogReads, PTL
<1>1. /\ a \in Unused /\ Exists(r) /\ n = CurrentNumber(r) + 1
      /\ attempts' = [attempts EXCEPT ![a] = NewAttempt(r, CurrentNumber(r) + 1)]
      /\ runs'[r] = RetriedRun(runs[r], loaded, a)
      /\ \A q \in Run \ {r} : runs'[q] = runs[q]
  BY RowFacts DEF Retries, CurrentNumber
<1>3. attempts'[a].number = n /\ \A b \in Attempt \ {a} : attempts'[b] = attempts[b]
  BY <1>1, RowFacts DEF NewAttempt, NoAttempt
<1>4. Exists(r)' /\ runs'[r].current = a
  BY <1>1 DEF Exists, RetriedRun
<1>5. CurrentNumber(r)' = CurrentNumber(r) + 1
  BY <1>1, <1>3, <1>4 DEF CurrentNumber, CurrentOf
<1>6. \A q \in Run \ {r} : CurrentNumber(q)' = CurrentNumber(q)
  BY <1>1, <1>3, RowFacts, NoneAssumption DEF CurrentNumber, CurrentOf, Exists
<1>7. \A q \in Run : LogOf(q)' = IF q = r THEN Append(LogOf(r), "queued") ELSE LogOf(q)
  BY <1>0, <1>1, <1>5, <1>6, RowFacts, NoneAssumption, EntryAppended
<1> DEFINE s == Append(LogOf(r), "queued")
<1>8. /\ LogNow' = [LogNow EXCEPT ![r] = s]
      /\ ShownNow' = [ShownNow EXCEPT ![r] = s[Len(s)]]
  <2>1. \A q \in Run : LogOf(q)' = IF q = r THEN s ELSE LogOf(q)
    BY <1>7
  <2>2. \A q \in Run \ {r} : runs'[q].status = runs[q].status
    BY <1>1
  <2> HIDE DEF s
  <2> QED BY <1>0, <1>4, <2>1, <2>2, LogWritten
<1>9. \E i \in DOMAIN LogOf(r) : LogOf(r)[i] = "failed"
  <2>1. PICK b \in Attempt : attempts[b].run = r /\ attempts[b].status = "failed"
    OBVIOUS
  <2>2. attempts[b].number \in 1 .. CurrentNumber(r) /\ AttemptAt(r, attempts[b].number) = b
    BY <1>0, <2>1 DEF LogRead
  <2> QED BY <2>1, <2>2 DEF LogOf
<1>10. LogNow[r] = LogOf(r)
  BY DEF LogNow
<1> QED
  BY <1>8, <1>9, <1>10 DEF Log!Resubmit, Log!Write, Log!Newest, LogNow, ShownNow

LEMMA ClaimsStart ==
  ASSUME IInv, IInv', NEW r \in Run, NEW a \in Attempt, Claims(r, a)
  PROVE  Log!Start(r)
<1>0. LogRead /\ LogRead'
  BY LogReads, PTL
<1> DEFINE k == CurrentNumber(r)
           s == [LogOf(r) EXCEPT ![Len(LogOf(r))] = "running"]
<1>1. /\ attempts[a].run = r /\ attempts[a].status = "queued" /\ runs[r].current = a
      /\ runs'[r] = Claimed(runs[r], a) /\ \A q \in Run \ {r} : runs'[q] = runs[q]
      /\ attempts'[a] = Claimed(attempts[a], a)
      /\ \A b \in Attempt \ {a} : attempts'[b] = attempts[b]
  BY RowFacts DEF Claims
<1>2. /\ attempts'[a].status = "running" /\ attempts'[a].run = r
      /\ attempts'[a].number = attempts[a].number
      /\ runs'[r].status = "running" /\ runs'[r].current = a
  BY <1>1, RowFacts DEF Claimed, RunRow, AttemptRow
<1>3. Exists(r) /\ Exists(r)'
  BY <1>1, <1>2, RowFacts DEF Unused, Exists
<1>4. \A b \in Attempt : attempts'[b].run = attempts[b].run
                         /\ attempts'[b].number = attempts[b].number
  BY <1>1, <1>2
<1>5. \A q \in Run : CurrentNumber(q)' = CurrentNumber(q)
  BY <1>1, <1>2, <1>3, <1>4, RowFacts DEF CurrentNumber, CurrentOf, Exists
<1>6. /\ k = attempts[a].number /\ k \in Nat /\ k >= 1
      /\ Len(LogOf(r)) = k /\ LogOf(r)[k] = runs[r].status
      /\ runs[r].status = "queued"
  BY <1>0, <1>1, <1>3, RowFacts DEF LogRead
<1>7. \A q \in Run : LogOf(q)' = IF q = r THEN s ELSE LogOf(q)
  BY <1>0, <1>1, <1>2, <1>4, <1>5, <1>6, EntryWritten
<1>8. \A q \in Run \ {r} : runs'[q].status = runs[q].status
  BY <1>1
<1>9. LogNow[r] = LogOf(r)
  BY DEF LogNow
<1>10. LogOf(r) # << >>
  BY <1>6
<1> HIDE DEF k, s
<1>11. /\ LogNow' = [LogNow EXCEPT ![r] = s]
       /\ ShownNow' = [ShownNow EXCEPT ![r] = s[Len(s)]]
  BY <1>0, <1>3, <1>7, <1>8, LogWritten
<1> QED
  BY <1>6, <1>9, <1>10, <1>11 DEF Log!Start, Log!Newest, Log!Write, LogNow, ShownNow, s

\* The attempt that finishes may have been superseded: then the entry is not
\* the newest, and the run goes on showing that one.
LEMMA FinishesFinish ==
  ASSUME IInv, IInv', NEW r \in Run, NEW a \in Attempt, NEW o \in Outcome, Finishes(r, a, o)
  PROVE  \E i \in DOMAIN LogOf(r), e \in Log!Ended : Log!Finish(r, i, e)
<1>0. LogRead /\ LogRead'
  BY LogReads, PTL
<1> DEFINE i == attempts[a].number
           s == [LogOf(r) EXCEPT ![i] = o.status]
<1>1. /\ attempts[a].run = r /\ attempts[a].status = "running"
      /\ attempts'[a] = Finished(attempts[a], a, o)
      /\ \A b \in Attempt \ {a} : attempts'[b] = attempts[b]
      /\ \A q \in Run : runs'[q] = IF q = r /\ runs[r].current = a
                                     THEN Finished(runs[r], a, o) ELSE runs[q]
  BY RowFacts DEF Finishes
<1>2. /\ attempts'[a].status = o.status /\ attempts'[a].run = r
      /\ attempts'[a].number = attempts[a].number
      /\ o.status \in {"succeeded", "failed"}
      /\ Finished(runs[r], a, o).status = o.status
      /\ Finished(runs[r], a, o).current = runs[r].current
  BY <1>1, RowFacts DEF Finished, RunRow, AttemptRow, Outcome, Succeeded,
     FailedWithSummary, FailedBare
<1>3. /\ \A q \in Run : runs'[q].current = runs[q].current
      /\ \A q \in Run : Exists(q)' <=> Exists(q)
      /\ Exists(r)
  <2>1. Exists(r)
    BY <1>1, RowFacts DEF Unused
  <2> QED BY <1>1, <1>2, <2>1 DEF Exists
<1>4. \A b \in Attempt : attempts'[b].run = attempts[b].run
                         /\ attempts'[b].number = attempts[b].number
  BY <1>1, <1>2
<1>5. \A q \in Run : CurrentNumber(q)' = CurrentNumber(q)
  BY <1>3, <1>4, RowFacts DEF CurrentNumber, CurrentOf
<1>6. i \in 1 .. CurrentNumber(r) /\ AttemptAt(r, i) = a
  BY <1>0, <1>1 DEF LogRead
<1>7. i \in DOMAIN LogOf(r) /\ LogOf(r)[i] = "running"
  BY <1>1, <1>6 DEF LogOf
<1>8. \A q \in Run : LogOf(q)' = IF q = r THEN s ELSE LogOf(q)
  BY <1>0, <1>1, <1>2, <1>4, <1>5, EntryWritten
<1>9. \A q \in Run \ {r} : runs'[q].status = runs[q].status
  BY <1>1
<1>10. LogNow[r] = LogOf(r)
  BY DEF LogNow
<1> HIDE DEF i
<1>11. /\ LogNow' = [LogNow EXCEPT ![r] = s]
       /\ ShownNow' = [ShownNow EXCEPT ![r] = s[Len(s)]]
  <2> HIDE DEF s
  <2> QED BY <1>0, <1>3, <1>8, <1>9, LogWritten
<1>12. Log!Finish(r, i, o.status)
  BY <1>7, <1>10, <1>11 DEF Log!Finish, Log!Write, Log!Newest, LogNow, ShownNow
<1> QED BY <1>2, <1>7, <1>12 DEF Log!Ended

\* What the request has loaded is a run that had failed, with the attempt that
\* was current then; that one is still there and frozen.
LEMMA RetriedHasFailed ==
  ASSUME IInv, \A h \in Handler : ViewSound(h), NEW h \in Handler, RetryCommit(h)
  PROVE  \E b \in Attempt : attempts[b].run = handler[h].run /\ attempts[b].status = "failed"
<1>1. /\ handler[h].row.status = "failed" /\ handler[h].pc = "loaded"
      /\ handler[h].row.current \in AttemptsOf(handler[h].run)
  BY DEF RetryCommit, RetryAllowed, IInv, RequestSound
<1>2. attempts[handler[h].row.current].status = "failed"
  BY <1>1 DEF ViewSound, Terminal
<1> QED BY <1>1, <1>2 DEF AttemptsOf

\* Every step of the services is a step of the log, or none.
LEMMA LogStep ==
  ASSUME IInv, IInv', \A h \in Handler : ViewSound(h), [Next]_vars
  PROVE  [Log!Next]_(Log!vars)
<1>1. CASE UNCHANGED db
  <2>1. \A r \in Run : LogOf(r)' = LogOf(r)
    BY <1>1 DEF db, LogOf, AttemptAt, AttemptsOf, CurrentNumber, CurrentOf, Exists
  <2> QED BY <1>1, <2>1 DEF db, Log!vars
<1>2. ASSUME NEW r \in Run, NEW a \in Attempt, Inserts(r, a) PROVE Log!Next
  BY <1>2, InsertsSubmit DEF Log!Next
<1>3. ASSUME NEW r \in Run, NEW a \in Attempt, NEW n \in Nat, NEW loaded \in RunRow,
             Retries(r, a, n, loaded),
             \E h \in Handler : RetryCommit(h) /\ handler[h].run = r
      PROVE  Log!Next
  <2>1. \E b \in Attempt : attempts[b].run = r /\ attempts[b].status = "failed"
    BY <1>3, RetriedHasFailed
  <2> QED BY <1>3, <2>1, RetriesResubmit DEF Log!Next
<1>4. ASSUME NEW r \in Run, NEW a \in Attempt, Claims(r, a) PROVE Log!Next
  BY <1>4, ClaimsStart DEF Log!Next
<1>5. ASSUME NEW r \in Run, NEW a \in Attempt, NEW o \in Outcome, Finishes(r, a, o)
      PROVE  Log!Next
  <2>1. [q \in Run |-> LogOf(q)][r] = LogOf(r)
    OBVIOUS
  <2> QED BY <1>5, <2>1, FinishesFinish DEF Log!Next
<1> QED BY <1>1, <1>2, <1>3, <1>4, <1>5, RowWrites

\* At the start there are no attempts and the logs are empty.
LEMMA InitLog == Init => Log!Init
<1> SUFFICES ASSUME Init PROVE Log!Init
  OBVIOUS
<1>1. \A r \in Run : runs[r].status = "absent"
  BY DEF Init, NoRun
<1>2. \A r \in Run : LogOf(r) = << >>
  <2> TAKE r \in Run
  <2>1. CurrentNumber(r) = 0
    BY <1>1 DEF CurrentNumber, Exists
  <2> QED BY <2>1 DEF LogOf
<1> QED BY <1>1, <1>2 DEF Log!Init

\* Whatever handlers, workers, faults and repeated deliveries do, the rows
\* behave as one log of attempts per run: written by appending, started at its
\* newest entry only, with the run showing that entry in every state.
THEOREM LogImplemented == Spec => ImplementsLog
<1>1. IInv /\ DeliveryInv /\ IInv' /\ [Next]_vars => [Log!Next]_(Log!vars)
  BY LogStep DEF DeliveryInv
<1> QED BY <1>1, InitLog, DeliveryHolds, PTL DEF Spec, ImplementsLog, Log!Spec

(***************************************************************************)
(* One request at a time                                                   *)
(***************************************************************************)
\* The strict promises of the documents hold as long as no two requests overlap,
\* whatever workers, faults and repeated deliveries do meanwhile.
OneHandler == \A h, k \in Handler : h = k

\* What the only request has loaded of a failed run is still so: a failed run
\* changes only by a retry.
FailedViewCurrent ==
  \A h \in Handler :
    handler[h].pc \in {"reading", "loaded"} /\ handler[h].row.status = "failed" =>
      runs[handler[h].run] = handler[h].row

\* A queued attempt has not been written since its INSERT.
QueuedAttemptsEmpty ==
  \A a \in Attempt : attempts[a].status = "queued" =>
    /\ attempts[a].summary = None
    /\ attempts[a].error = None
    /\ attempts[a].started = None
    /\ attempts[a].finished = None

SerialInv == FailedViewCurrent /\ OnlyCurrentActive /\ SnapshotIsCurrents
             /\ QueuedAttemptsEmpty

LEMMA FailedRunKept ==
  ASSUME IInv, [Next]_vars, NEW q \in Run, runs[q].status = "failed",
         \A h \in Handler : ~RetryCommit(h)
  PROVE  runs'[q] = runs[q]
<1>1. CASE UNCHANGED db
  BY <1>1 DEF db
<1>2. ASSUME NEW r \in Run, NEW a \in Attempt, Inserts(r, a) PROVE runs'[q] = runs[q]
  BY <1>2, RowFacts DEF Inserts, Exists
<1>3. ASSUME NEW r \in Run, NEW a \in Attempt, Claims(r, a) PROVE runs'[q] = runs[q]
  BY <1>3, RowFacts DEF Claims, Exists
<1>4. ASSUME NEW r \in Run, NEW a \in Attempt, NEW o \in Outcome, Finishes(r, a, o)
      PROVE  runs'[q] = runs[q]
  BY <1>4, RowFacts DEF Finishes, Exists
<1> QED BY <1>1, <1>2, <1>3, <1>4, RowWrites

\* The view of the only request is taken in one statement, and no retry but its
\* own could make it old.
LEMMA FailedViewStep ==
  ASSUME OneHandler, IInv, FailedViewCurrent, [Next]_vars
  PROVE  FailedViewCurrent'
<1>0. /\ handler \in [Handler -> Request]
      /\ \A h \in Handler : RequestSound(h)
  BY DEF IInv, TypeOK
<1>1. SUFFICES ASSUME NEW h \in Handler,
                      handler'[h].pc \in {"reading", "loaded"},
                      handler'[h].row.status = "failed"
               PROVE  runs'[handler'[h].run] = handler'[h].row
  BY DEF FailedViewCurrent
<1>2. ASSUME \A k \in Handler : ~RetryCommit(k), handler'[h] = handler[h]
      PROVE  runs'[handler'[h].run] = handler'[h].row
  <2>1. handler[h].run \in Run /\ runs[handler[h].run] = handler[h].row
        /\ handler[h].row.status = "failed"
    BY <1>0, <1>1, <1>2 DEF FailedViewCurrent, RequestSound
  <2>2. runs'[handler[h].run] = runs[handler[h].run]
    BY <1>2, <2>1, FailedRunKept
  <2> QED BY <1>2, <2>1, <2>2
<1>3. ASSUME CreateRun(h) \/ RetryCommit(h) \/ EndRequest(h) \/ Enqueue(h) \/ EnqueueFails(h)
      PROVE  FALSE
  <2>1. handler'[h].pc \in {"idle", "enqueue"}
    <3>1. CASE CreateRun(h) \/ RetryCommit(h)
      <4>1. PICK r, a : handler' = [handler EXCEPT ![h] =
                          [NoRequest EXCEPT !.pc = "enqueue", !.run = r, !.attempt = a]]
        BY <3>1 DEF CreateRun, RetryCommit
      <4> QED BY <1>0, <4>1 DEF NoRequest
    <3>2. CASE EndRequest(h) \/ Enqueue(h) \/ EnqueueFails(h)
      BY <1>0, <3>2 DEF EndRequest, Enqueue, EnqueueFails, NoRequest
    <3> QED BY <1>3, <3>1, <3>2
  <2> QED BY <1>1, <2>1
<1>4. CASE ReadRun(h)
  <2>1. PICK r \in Run : handler'[h] = [NoRequest EXCEPT !.pc = "reading", !.run = r, !.row = runs[r]]
    BY <1>0, <1>4 DEF ReadRun
  <2>2. handler'[h].run = r /\ handler'[h].row = runs[r]
    BY <2>1 DEF NoRequest
  <2>3. runs' = runs
    BY <1>4 DEF ReadRun, db
  <2> QED BY <2>2, <2>3
<1>5. CASE ReadCurrent(h) \/ ReadAttempts(h)
  <2>1. /\ handler'[h].run = handler[h].run /\ handler'[h].row = handler[h].row
        /\ handler[h].pc = "reading" /\ runs' = runs
    BY <1>0, <1>5 DEF ReadCurrent, ReadAttempts, db, Request
  <2> QED BY <1>1, <2>1 DEF FailedViewCurrent
<1>6. ASSUME UNCHANGED handler
      PROVE  runs'[handler'[h].run] = handler'[h].row
  <2>1. \A k \in Handler : ~RetryCommit(k)
    <3> SUFFICES ASSUME NEW k \in Handler, RetryCommit(k) PROVE FALSE
      OBVIOUS
    <3>1. handler'[k].pc = "enqueue" /\ handler[k].pc = "loaded"
      BY <1>0 DEF RetryCommit, NoRequest
    <3> QED BY <1>6, <3>1
  <2> QED BY <1>2, <1>6, <2>1
<1>7. ASSUME NEW w \in Worker, JobStep(w) \/ HorseDies(w) PROVE UNCHANGED handler
  BY <1>7 DEF JobStep, TakeJob, Claim, DeclineJob, StartRunner, RunnerMissing,
     RunnerReturns, Persist, HorseDies
<1>8. ASSUME NEW a \in Attempt, Redeliver(a) PROVE UNCHANGED handler
  BY <1>8 DEF Redeliver
<1>9. CASE QueueLost \/ UNCHANGED vars
  BY <1>6, <1>9 DEF vars, QueueLost
<1>10. \A k \in Handler : k = h
  BY DEF OneHandler
<1> QED
  BY <1>3, <1>4, <1>5, <1>6, <1>7, <1>8, <1>9, <1>10 DEF Next, RequestStep

\* A retry that commits finds the run as it was read: failed, and with every
\* column it is about to clear.
LEMMA SerialRetry ==
  ASSUME IInv, FailedViewCurrent, NEW r \in Run, NEW loaded,
         \E h \in Handler : RetryCommit(h) /\ handler[h].run = r /\ handler[h].row = loaded
  PROVE  runs[r].status = "failed" /\ loaded = runs[r]
BY DEF FailedViewCurrent, RetryCommit, RetryAllowed

LEMMA ActiveStep ==
  ASSUME IInv, FailedViewCurrent, OnlyCurrentActive, [Next]_vars
  PROVE  OnlyCurrentActive'
<1> DEFINE Active(a) == attempts[a].status \in {"queued", "running"}
<1>0. \A q \in Run, b \in Attempt : attempts[b].run = q /\ Active(b) => b = runs[q].current
  BY DEF OnlyCurrentActive, AttemptsOf
<1>1. SUFFICES ASSUME NEW q \in Run, NEW b \in Attempt, attempts'[b].run = q, Active(b)'
               PROVE  b = runs'[q].current
  BY DEF OnlyCurrentActive, AttemptsOf
<1>2. CASE UNCHANGED db
  BY <1>0, <1>1, <1>2 DEF db
<1>3. ASSUME NEW r \in Run, NEW a \in Attempt, Inserts(r, a) PROVE b = runs'[q].current
  <2>1. /\ ~Exists(r) /\ runs'[r] = NewRun(a) /\ attempts'[a] = NewAttempt(r, 1)
        /\ \A s \in Run \ {r} : runs'[s] = runs[s]
        /\ \A c \in Attempt \ {a} : attempts'[c] = attempts[c]
    BY <1>3, RowFacts DEF Inserts
  <2>2. NewRun(a).current = a /\ NewAttempt(r, 1).run = r
    BY DEF NewRun, NoRun, NewAttempt, NoAttempt
  <2>3. b # a => attempts[b].run # r
    BY <2>1, RowFacts, NoneAssumption
  <2> QED BY <1>0, <1>1, <2>1, <2>2, <2>3
<1>4. ASSUME NEW r \in Run, NEW a \in Attempt, NEW n \in Nat, NEW loaded \in RunRow,
             Retries(r, a, n, loaded),
             \E h \in Handler : RetryCommit(h) /\ handler[h].run = r /\ handler[h].row = loaded
      PROVE  b = runs'[q].current
  <2>1. /\ Exists(r) /\ runs'[r] = RetriedRun(runs[r], loaded, a)
        /\ attempts'[a] = NewAttempt(r, n)
        /\ \A s \in Run \ {r} : runs'[s] = runs[s]
        /\ \A c \in Attempt \ {a} : attempts'[c] = attempts[c]
    BY <1>4, RowFacts DEF Retries
  <2>2. RetriedRun(runs[r], loaded, a).current = a /\ NewAttempt(r, n).run = r
    BY DEF RetriedRun, NewAttempt, NoAttempt
  <2>3. attempts[runs[r].current].status = "failed"
    BY <1>4, <2>1, RowFacts, SerialRetry
  <2> QED BY <1>0, <1>1, <2>1, <2>2, <2>3
<1>5. ASSUME NEW r \in Run, NEW a \in Attempt, Claims(r, a) PROVE b = runs'[q].current
  <2>1. /\ attempts[a].run = r /\ attempts[a].status = "queued"
        /\ attempts'[a].run = r
        /\ \A s \in Run : runs'[s].current = runs[s].current
        /\ \A c \in Attempt \ {a} : attempts'[c] = attempts[c]
    BY <1>5, RowFacts DEF Claims, Claimed, RunRow, AttemptRow
  <2> QED BY <1>0, <1>1, <2>1
<1>6. ASSUME NEW r \in Run, NEW a \in Attempt, NEW o \in Outcome, Finishes(r, a, o)
      PROVE  b = runs'[q].current
  <2>1. /\ attempts[a].run = r /\ attempts[a].status = "running"
        /\ attempts'[a].run = r
        /\ \A c \in Attempt \ {a} : attempts'[c] = attempts[c]
    BY <1>6, RowFacts DEF Finishes, Finished, AttemptRow
  <2>2. \A s \in Run : runs'[s].current = runs[s].current
    BY <1>6, RowFacts DEF Finishes, Finished, RunRow
  <2> QED BY <1>0, <1>1, <2>1, <2>2
<1> QED BY <1>2, <1>3, <1>4, <1>5, <1>6, RowWrites

\* A retry clears what it has loaded, which is what the run has; a result is
\* written to attempt and run alike.
LEMMA SnapshotCurrentStep ==
  ASSUME IInv, FailedViewCurrent, SnapshotIsCurrents, [Next]_vars
  PROVE  SnapshotIsCurrents'
<1>0. \A q \in Run : Exists(q) =>
        /\ runs[q].current \in Attempt
        /\ attempts[runs[q].current].run = q
        /\ runs[q].summary = attempts[runs[q].current].summary
  BY RowFacts DEF SnapshotIsCurrents, CurrentOf
<1>1. SUFFICES ASSUME NEW q \in Run, Exists(q)'
               PROVE  runs'[q].summary = attempts'[runs'[q].current].summary
  BY DEF SnapshotIsCurrents, CurrentOf
<1>2. CASE UNCHANGED db
  BY <1>0, <1>1, <1>2 DEF db, Exists
<1>3. ASSUME NEW a \in Attempt, NEW r \in Run, a \in Unused,
             runs'[r].current = a, runs'[r].summary = None, attempts'[a].summary = None,
             \A s \in Run \ {r} : runs'[s] = runs[s],
             \A c \in Attempt \ {a} : attempts'[c] = attempts[c]
      PROVE  runs'[q].summary = attempts'[runs'[q].current].summary
  <2>1. CASE q = r
    BY <1>3, <2>1
  <2>2. CASE q # r
    <3>1. Exists(q) /\ runs'[q] = runs[q]
      BY <1>1, <1>3, <2>2 DEF Exists
    <3>2. runs[q].current # a
      BY <1>0, <1>3, <3>1, RowFacts, NoneAssumption
    <3> QED BY <1>0, <1>3, <3>1, <3>2
  <2> QED BY <2>1, <2>2
<1>4. ASSUME NEW r \in Run, NEW a \in Attempt, Inserts(r, a)
      PROVE  runs'[q].summary = attempts'[runs'[q].current].summary
  <2>1. /\ a \in Unused /\ runs'[r] = NewRun(a) /\ attempts'[a] = NewAttempt(r, 1)
        /\ \A s \in Run \ {r} : runs'[s] = runs[s]
        /\ \A c \in Attempt \ {a} : attempts'[c] = attempts[c]
    BY <1>4, RowFacts DEF Inserts
  <2>2. /\ NewRun(a).current = a /\ NewRun(a).summary = None
        /\ NewAttempt(r, 1).summary = None
    BY DEF NewRun, NoRun, NewAttempt, NoAttempt
  <2> QED BY <1>3, <2>1, <2>2
<1>5. ASSUME NEW r \in Run, NEW a \in Attempt, NEW n \in Nat, NEW loaded \in RunRow,
             Retries(r, a, n, loaded),
             \E h \in Handler : RetryCommit(h) /\ handler[h].run = r /\ handler[h].row = loaded
      PROVE  runs'[q].summary = attempts'[runs'[q].current].summary
  <2>1. /\ a \in Unused /\ runs'[r] = RetriedRun(runs[r], runs[r], a)
        /\ attempts'[a] = NewAttempt(r, n)
        /\ \A s \in Run \ {r} : runs'[s] = runs[s]
        /\ \A c \in Attempt \ {a} : attempts'[c] = attempts[c]
    BY <1>5, RowFacts, SerialRetry DEF Retries
  <2>2. /\ RetriedRun(runs[r], runs[r], a).current = a
        /\ RetriedRun(runs[r], runs[r], a).summary = None
        /\ NewAttempt(r, n).summary = None
    BY DEF RetriedRun, Cleared, NewAttempt, NoAttempt
  <2> QED BY <1>3, <2>1, <2>2
<1>6. ASSUME NEW r \in Run, NEW a \in Attempt, Claims(r, a)
      PROVE  runs'[q].summary = attempts'[runs'[q].current].summary
  <2>1. /\ runs'[r].current = runs[r].current /\ runs'[r].summary = runs[r].summary
        /\ attempts'[a].summary = attempts[a].summary
        /\ runs[r].status # "absent"
        /\ \A s \in Run \ {r} : runs'[s] = runs[s]
        /\ \A c \in Attempt \ {a} : attempts'[c] = attempts[c]
    <3>1. runs[r].status # "absent"
      BY <1>6, RowFacts DEF Claims, Unused, Exists
    <3> QED BY <1>6, <3>1, RowFacts DEF Claims, Claimed, RunRow, AttemptRow
  <2> QED BY <1>0, <1>1, <2>1 DEF Exists
<1>7. ASSUME NEW r \in Run, NEW a \in Attempt, NEW o \in Outcome, Finishes(r, a, o)
      PROVE  runs'[q].summary = attempts'[runs'[q].current].summary
  <2> DEFINE value == IF o.summary THEN a ELSE None
  <2>1. /\ attempts[a].run = r /\ attempts'[a].summary = value
        /\ \A c \in Attempt \ {a} : attempts'[c] = attempts[c]
    BY <1>7, RowFacts DEF Finishes, Finished, AttemptRow
  <2>2. /\ runs[r].current = a => runs'[r].summary = value /\ runs'[r].current = a
        /\ runs[r].current # a => runs'[r] = runs[r]
        /\ \A s \in Run \ {r} : runs'[s] = runs[s]
        /\ runs[r].status # "absent"
    <3>1. runs[r].status # "absent"
      BY <1>7, RowFacts DEF Finishes, Unused, Exists
    <3> QED BY <1>7, <3>1, RowFacts DEF Finishes, Finished, RunRow
  <2> HIDE DEF value
  <2> QED BY <1>0, <1>1, <2>1, <2>2 DEF Exists
<1> QED BY <1>2, <1>4, <1>5, <1>6, <1>7, RowWrites

LEMMA QueuedEmptyStep ==
  ASSUME IInv, QueuedAttemptsEmpty, [Next]_vars
  PROVE  QueuedAttemptsEmpty'
<1>1. SUFFICES ASSUME NEW b \in Attempt, attempts'[b].status = "queued"
               PROVE  /\ attempts'[b].summary = None /\ attempts'[b].error = None
                      /\ attempts'[b].started = None /\ attempts'[b].finished = None
  BY DEF QueuedAttemptsEmpty
<1> USE DEF QueuedAttemptsEmpty
<1>2. CASE UNCHANGED db
  BY <1>1, <1>2 DEF db
<1>3. ASSUME NEW r \in Run, NEW a \in Attempt, NEW n \in Nat,
             attempts' = [attempts EXCEPT ![a] = NewAttempt(r, n)]
      PROVE  /\ attempts'[b].summary = None /\ attempts'[b].error = None
             /\ attempts'[b].started = None /\ attempts'[b].finished = None
  <2>1. /\ attempts'[a] = NewAttempt(r, n)
        /\ \A c \in Attempt \ {a} : attempts'[c] = attempts[c]
    BY <1>3, RowFacts
  <2>2. /\ NewAttempt(r, n).summary = None /\ NewAttempt(r, n).error = None
        /\ NewAttempt(r, n).started = None /\ NewAttempt(r, n).finished = None
    BY DEF NewAttempt, NoAttempt
  <2> QED BY <1>1, <2>1, <2>2
<1>4. ASSUME NEW r \in Run, NEW a \in Attempt, Claims(r, a) PROVE attempts'[b] = attempts[b]
  <2>1. attempts'[a].status = "running" /\ \A c \in Attempt \ {a} : attempts'[c] = attempts[c]
    BY <1>4, RowFacts DEF Claims, Claimed, AttemptRow
  <2> QED BY <1>1, <2>1
<1>5. ASSUME NEW r \in Run, NEW a \in Attempt, NEW o \in Outcome, Finishes(r, a, o)
      PROVE  attempts'[b] = attempts[b]
  <2>0. o.status # "queued"
    BY DEF Outcome, Succeeded, FailedWithSummary, FailedBare
  <2>1. attempts'[a].status = o.status /\ \A c \in Attempt \ {a} : attempts'[c] = attempts[c]
    BY <1>5, RowFacts DEF Finishes, Finished, AttemptRow
  <2> QED BY <1>1, <2>0, <2>1
<1> QED BY <1>1, <1>2, <1>3, <1>4, <1>5, RowWrites DEF Inserts, Retries

\* With one request at a time a retry also meets the condition of the strict log.
LEMMA StrictStep ==
  ASSUME IInv, IInv', FailedViewCurrent, \A h \in Handler : ViewSound(h), [Next]_vars
  PROVE  [Log!StrictNext]_(Log!vars)
<1>1. CASE UNCHANGED db
  <2>1. \A r \in Run : LogOf(r)' = LogOf(r)
    BY <1>1 DEF db, LogOf, AttemptAt, AttemptsOf, CurrentNumber, CurrentOf, Exists
  <2> QED BY <1>1, <2>1 DEF db, Log!vars
<1>2. ASSUME NEW r \in Run, NEW a \in Attempt, Inserts(r, a) PROVE Log!StrictNext
  BY <1>2, InsertsSubmit DEF Log!StrictNext
<1>3. ASSUME NEW r \in Run, NEW a \in Attempt, NEW n \in Nat, NEW loaded \in RunRow,
             Retries(r, a, n, loaded),
             \E h \in Handler : RetryCommit(h) /\ handler[h].run = r /\ handler[h].row = loaded
      PROVE  Log!StrictNext
  <2>1. Log!Resubmit(r)
    <3>1. \E b \in Attempt : attempts[b].run = r /\ attempts[b].status = "failed"
      BY <1>3, RetriedHasFailed
    <3> QED BY <1>3, <3>1, RetriesResubmit
  <2>2. LogRead
    BY LogReads
  <2>3. Exists(r) /\ runs[r].status = "failed"
    BY <1>3, SerialRetry DEF Retries
  <2>4. Len(LogOf(r)) = CurrentNumber(r) /\ LogOf(r)[CurrentNumber(r)] = "failed"
    BY <2>2, <2>3 DEF LogRead
  <2>5. LogOf(r)[Len(LogOf(r))] = "failed"
    BY <2>4
  <2>6. [q \in Run |-> LogOf(q)][r] = LogOf(r)
    OBVIOUS
  <2> QED BY <2>1, <2>5, <2>6 DEF Log!StrictNext, Log!Newest
<1>4. ASSUME NEW r \in Run, NEW a \in Attempt, Claims(r, a) PROVE Log!StrictNext
  BY <1>4, ClaimsStart DEF Log!StrictNext
<1>5. ASSUME NEW r \in Run, NEW a \in Attempt, NEW o \in Outcome, Finishes(r, a, o)
      PROVE  Log!StrictNext
  <2>1. [q \in Run |-> LogOf(q)][r] = LogOf(r)
    OBVIOUS
  <2> QED BY <1>5, <2>1, FinishesFinish DEF Log!StrictNext
<1> QED BY <1>1, <1>2, <1>3, <1>4, <1>5, RowWrites

\* The four parts hold together, in every reachable state.
THEOREM SerialHolds == OneHandler => (Spec => [](IInv /\ DeliveryInv /\ SerialInv))
<1> SUFFICES ASSUME OneHandler PROVE Spec => [](IInv /\ DeliveryInv /\ SerialInv)
  OBVIOUS
<1>1. Init => SerialInv
  <2> SUFFICES ASSUME Init PROVE SerialInv
    OBVIOUS
  <2>1. /\ \A r \in Run : runs[r].status = "absent"
        /\ \A a \in Attempt : attempts[a].status = "absent" /\ attempts[a].run = None
        /\ \A h \in Handler : handler[h].pc = "idle"
    BY DEF Init, NoRun, NoAttempt, NoRequest
  <2> QED
    BY <2>1, NoneAssumption DEF SerialInv, FailedViewCurrent, OnlyCurrentActive, AttemptsOf,
       SnapshotIsCurrents, Exists, QueuedAttemptsEmpty
<1>2. IInv /\ SerialInv /\ [Next]_vars => SerialInv'
  BY FailedViewStep, ActiveStep, SnapshotCurrentStep, QueuedEmptyStep DEF SerialInv
<1> QED BY <1>1, <1>2, DeliveryHolds, PTL DEF Spec

\* One client at a time never has two attempts of a run active: late results,
\* repeated deliveries and dying workers do not make an old one start again.
THEOREM OnlyCurrentActiveCorrect == OneHandler => (Spec => []OnlyCurrentActive)
<1>1. SerialInv => OnlyCurrentActive
  BY DEF SerialInv
<1> QED BY <1>1, SerialHolds, PTL

\* A retry by one client at a time takes every result off the run.
THEOREM SnapshotIsCurrentsCorrect == OneHandler => (Spec => []SnapshotIsCurrents)
<1>1. SerialInv => SnapshotIsCurrents
  BY DEF SerialInv
<1> QED BY <1>1, SerialHolds, PTL

\* What stale_snapshot refutes for two clients holds for one: a queued run shows
\* no result of any attempt.
THEOREM QueuedSnapshotCorrect == OneHandler => (Spec => []QueuedSnapshotEmpty)
<1>1. ASSUME IInv, SerialInv PROVE QueuedSnapshotEmpty
  <2> SUFFICES ASSUME NEW r \in Run, runs[r].status = "queued"
               PROVE  /\ runs[r].summary = None /\ runs[r].error = None
                      /\ runs[r].started = None /\ runs[r].finished = None
    BY DEF QueuedSnapshotEmpty
  <2>1. /\ runs[r].current \in Attempt /\ Exists(r)
        /\ attempts[runs[r].current].status = "queued"
    BY <1>1, RowFacts DEF Exists
  <2> QED
    BY <1>1, <2>1, RowFacts DEF SerialInv, SnapshotIsCurrents, QueuedAttemptsEmpty,
       RunMirrorsCurrent, CurrentOf
<1> QED BY <1>1, SerialHolds, PTL

\* What retry_race refutes for two clients holds for one: the current attempt is
\* replaced only while the run is failed.
THEOREM RetryOnlyFromFailedCorrect == OneHandler => (Spec => RetryOnlyFromFailed)
<1>1. ASSUME IInv, SerialInv, [Next]_vars
      PROVE  [\A r \in Run : Exists(r) /\ runs'[r].current # runs[r].current =>
                runs[r].status = "failed"]_vars
  <2> SUFFICES ASSUME NEW q \in Run, Exists(q), runs'[q].current # runs[q].current
               PROVE  runs[q].status = "failed"
    OBVIOUS
  <2>1. CASE UNCHANGED db
    BY <2>1 DEF db
  <2>2. ASSUME NEW r \in Run, NEW a \in Attempt, Inserts(r, a) PROVE FALSE
    BY <2>2, RowFacts DEF Inserts
  <2>3. ASSUME NEW r \in Run, NEW a \in Attempt, NEW n \in Nat, NEW loaded \in RunRow,
               Retries(r, a, n, loaded),
               \E h \in Handler : RetryCommit(h) /\ handler[h].run = r
                                  /\ handler[h].row = loaded
        PROVE  runs[q].status = "failed"
    <3>1. runs[r].status = "failed"
      BY <1>1, <2>3, SerialRetry DEF SerialInv
    <3> QED BY <1>1, <2>3, <3>1, RowFacts DEF Retries
  <2>4. ASSUME NEW r \in Run, NEW a \in Attempt, Claims(r, a) PROVE FALSE
    BY <1>1, <2>4, RowFacts DEF Claims, Claimed, RunRow
  <2>5. ASSUME NEW r \in Run, NEW a \in Attempt, NEW o \in Outcome, Finishes(r, a, o)
        PROVE  FALSE
    BY <1>1, <2>5, RowFacts DEF Finishes, Finished, RunRow
  <2> QED BY <1>1, <2>1, <2>2, <2>3, <2>4, <2>5, RowWrites
<1> QED BY <1>1, SerialHolds, PTL DEF Spec, RetryOnlyFromFailed

\* With one request at a time the rows behave as the strict log of the documents:
\* an attempt is added only while the newest one is failed.
THEOREM StrictLogImplemented == OneHandler => (Spec => ImplementsStrictLog)
<1>1. IInv /\ DeliveryInv /\ SerialInv /\ IInv' /\ [Next]_vars
        => [Log!StrictNext]_(Log!vars)
  BY StrictStep DEF DeliveryInv, SerialInv
<1> QED
  BY <1>1, InitLog, SerialHolds, PTL DEF Spec, ImplementsStrictLog, Log!StrictSpec
=============================================================================
