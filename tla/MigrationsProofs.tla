-------------------------- MODULE MigrationsProofs --------------------------
(* Theorems about Migrations, for every set of runs, attempts and alembic   *)
(* processes: whichever of them race or die, no schema is left halfway.     *)
EXTENDS Migrations, TLAPS

(***************************************************************************)
(* The inductive invariant                                                 *)
(***************************************************************************)
InTransaction(m) == migrator[m].pc \in {"open", "selected"}

\* A transaction knows the committed version, goes one way, and has written
\* nothing until it copies the runs; when it has copied them every run that
\* exists has its first attempt.
MigratorSound(m) ==
  LET t == migrator[m]
  IN /\ t.pc # "idle" => (t.from < t.to /\ t.to \in {2, 3}) \/ (t.from = 3 /\ t.to = 2)
     /\ InTransaction(m) => t.from = version
     /\ t.pc = "selected" => t.to = 3
     /\ t.pc = "open" => t.at \in 0 .. t.to \/ t.from = 3
     /\ t.pc \in {"idle", "started"} \/ (t.pc = "open" /\ (t.at < 3 \/ t.from = 3)) =>
          /\ \A a \in Attempt : t.news[a].status = "absent"
          /\ \A r \in Run : t.current[r] = None
     /\ t.pc = "selected" =>
          \A r \in Run : Exists(r) => t.todo[r].status # "absent" \/ t.current[r] \in Attempt
     /\ t.pc = "open" /\ t.at = 3 /\ t.from < 3 =>
          \A r \in Run : Exists(r) => t.current[r] \in Attempt

\* The first statement locks the others out.
OneTransaction ==
  \A l, m \in Migrator : InTransaction(l) /\ InTransaction(m) => l = m

AttemptsThere ==
  version = 3 => \A r \in Run : Exists(r) => runs[r].current \in Attempt

MigInv == /\ TypeOK
          /\ \A m \in Migrator : MigratorSound(m)
          /\ OneTransaction
          /\ AllOrNothing
          /\ AttemptsThere

LEMMA NothingTypes ==
  /\ NoRun \in OldRow(Status \cup {"absent"})
  /\ NoAttempt \in CopiedRow /\ NoAttempt.status = "absent"
  /\ NoMigration \in Transaction /\ NoMigration.pc = "idle"
  /\ \A a \in Attempt : NoMigration.news[a].status = "absent"
  /\ \A r \in Run : NoMigration.current[r] = None
<1>1. NoRun \in OldRow(Status \cup {"absent"})
  BY DEF NoRun, OldRow, OldColumn, Column
<1>2. NoAttempt \in CopiedRow /\ NoAttempt.status = "absent"
  BY DEF NoAttempt, CopiedRow, OldColumn, Column
<1>3. NoMigration \in Transaction
  BY <1>1, <1>2 DEF NoMigration, Transaction, Column
<1> QED BY <1>1, <1>2, <1>3 DEF NoMigration

LEMMA InitMig == Init => MigInv
<1> SUFFICES ASSUME Init PROVE MigInv
  OBVIOUS
<1>1. /\ \A m \in Migrator : migrator[m] = NoMigration
      /\ \A a \in Attempt : attempts[a] = NoAttempt
      /\ \A r \in Run : runs[r] = NoRun
      /\ version = 0
  BY DEF Init
<1>2. TypeOK
  <2>1. /\ version \in 0 .. 3 /\ failures \in 0 .. MaxFailures
    BY MigrationAssumption DEF Init
  <2>2. runs \in [Run -> OldRow(Status \cup {"absent"})] /\ attempts \in [Attempt -> CopiedRow]
    BY NothingTypes DEF Init
  <2>3. migrator \in [Migrator -> Transaction]
    BY NothingTypes DEF Init
  <2> QED BY <2>1, <2>2, <2>3 DEF TypeOK
<1>3. \A m \in Migrator : MigratorSound(m) /\ ~InTransaction(m)
  BY <1>1, NothingTypes DEF MigratorSound, InTransaction
<1>4. AllOrNothing /\ AttemptsThere
  BY <1>1, NothingTypes DEF AllOrNothing, AttemptsThere, Unused, NoRun
<1> QED BY <1>2, <1>3, <1>4 DEF MigInv, OneTransaction

(***************************************************************************)
(* Steps inside a transaction                                              *)
(***************************************************************************)
\* What one process does before its commit touches nothing but its own
\* transaction.
LEMMA TransactionStep ==
  ASSUME MigInv, NEW m \in Migrator, NEW t \in Transaction,
         migrator' = [migrator EXCEPT ![m] = t],
         UNCHANGED db, failures' \in 0 .. MaxFailures,
         MigratorSound(m)', InTransaction(m)' => InTransaction(m) \/ Unlocked
  PROVE  MigInv'
<1>1. /\ migrator \in [Migrator -> Transaction]
      /\ migrator' \in [Migrator -> Transaction]
      /\ migrator'[m] = t
      /\ \A l \in Migrator \ {m} : migrator'[l] = migrator[l]
  <2>1. migrator \in [Migrator -> Transaction]
    BY DEF MigInv, TypeOK
  <2> QED BY <2>1
<1>2. TypeOK'
  BY <1>1 DEF MigInv, TypeOK, db
<1>3. \A l \in Migrator \ {m} : MigratorSound(l)' /\ (InTransaction(l)' <=> InTransaction(l))
  BY <1>1 DEF MigInv, MigratorSound, InTransaction, Exists, db
<1>4. OneTransaction'
  BY <1>3 DEF MigInv, OneTransaction, Unlocked, InTransaction
<1>5. AllOrNothing' /\ AttemptsThere'
  BY DEF MigInv, AllOrNothing, AttemptsThere, Unused, Exists, db
<1> QED BY <1>2, <1>3, <1>4, <1>5 DEF MigInv

LEMMA BeginStep ==
  ASSUME MigInv, NEW m \in Migrator, Begin(m)
  PROVE  MigInv'
<1>1. PICK to \in {2, 3} :
        /\ version < to \/ (version = 3 /\ to = 2)
        /\ migrator' = [migrator EXCEPT ![m] =
             [NoMigration EXCEPT !.pc = "started", !.from = version, !.to = to]]
  BY DEF Begin
<1> DEFINE t == [NoMigration EXCEPT !.pc = "started", !.from = version, !.to = to]
<1>2. /\ t \in Transaction /\ t.pc = "started" /\ t.from = version /\ t.to = to
      /\ t.news = NoMigration.news /\ t.current = NoMigration.current
  <2>1. version \in 0 .. 3 /\ to \in 0 .. 3
    BY DEF MigInv, TypeOK
  <2> QED BY <2>1, NothingTypes DEF Transaction
<1> HIDE DEF t
<1>3. migrator' = [migrator EXCEPT ![m] = t] /\ migrator'[m] = t
  BY <1>1 DEF t, MigInv, TypeOK
<1>4. MigratorSound(m)' /\ ~InTransaction(m)'
  BY <1>1, <1>2, <1>3, NothingTypes DEF MigratorSound, InTransaction
<1>5. UNCHANGED db /\ failures' \in 0 .. MaxFailures
  BY DEF Begin, MigInv, TypeOK
<1> QED BY <1>2, <1>3, <1>4, <1>5, TransactionStep

\* Ending a process leaves no transaction.
LEMMA EndStep ==
  ASSUME MigInv, NEW m \in Migrator,
         migrator' = [migrator EXCEPT ![m] = NoMigration],
         UNCHANGED db, failures' \in 0 .. MaxFailures
  PROVE  MigInv'
<1>1. migrator'[m] = NoMigration
  BY DEF MigInv, TypeOK
<1>2. MigratorSound(m)' /\ ~InTransaction(m)'
  BY <1>1, NothingTypes DEF MigratorSound, InTransaction
<1> QED BY <1>2, NothingTypes, TransactionStep

\* Opening the transaction, and each statement in it.
LEMMA FirstStatementStep ==
  ASSUME MigInv, NEW m \in Migrator, FirstStatement(m)
  PROVE  MigInv'
<1>0. UNCHANGED db /\ failures' \in 0 .. MaxFailures
  BY DEF FirstStatement, MigInv, TypeOK
<1>1. CASE version = migrator[m].from
  <2> DEFINE t == [migrator[m] EXCEPT !.pc = "open", !.at = version]
  <2>1. migrator[m] \in Transaction /\ version \in 0 .. 3
    BY DEF MigInv, TypeOK
  <2>2. /\ t \in Transaction /\ t.pc = "open" /\ t.at = version
        /\ t.from = migrator[m].from /\ t.to = migrator[m].to
        /\ t.news = migrator[m].news /\ t.current = migrator[m].current
    BY <2>1 DEF Transaction
  <2>3. migrator' = [migrator EXCEPT ![m] = t] /\ migrator'[m] = t
    BY <1>1 DEF FirstStatement, MigInv, TypeOK
  <2> HIDE DEF t
  <2>4. migrator[m].pc = "started" /\ Unlocked /\ MigratorSound(m)
    BY DEF FirstStatement, MigInv
  <2>5. MigratorSound(m)'
    BY <1>0, <1>1, <2>1, <2>2, <2>3, <2>4 DEF MigratorSound, InTransaction, db
  <2> QED BY <1>0, <2>2, <2>3, <2>4, <2>5, TransactionStep
<1>2. CASE version # migrator[m].from
  BY <1>0, <1>2, EndStep DEF FirstStatement
<1> QED BY <1>1, <1>2

LEMMA ReachStep ==
  ASSUME MigInv, NEW m \in Migrator, NEW at \in 1 .. 2, Reach(m, at),
         migrator[m].pc = "open", migrator[m].at < 3 \/ migrator[m].from = 3
  PROVE  MigInv'
<1> DEFINE t == [migrator[m] EXCEPT !.at = at]
<1>1. migrator[m] \in Transaction
  BY DEF MigInv, TypeOK
<1>2. /\ t \in Transaction /\ t.pc = "open" /\ t.at = at
      /\ t.from = migrator[m].from /\ t.to = migrator[m].to
      /\ t.news = migrator[m].news /\ t.current = migrator[m].current
  BY <1>1 DEF Transaction
<1>3. migrator' = [migrator EXCEPT ![m] = t] /\ migrator'[m] = t
      /\ UNCHANGED db /\ failures' \in 0 .. MaxFailures
  BY DEF Reach, MigInv, TypeOK
<1> HIDE DEF t
<1>4. MigratorSound(m) /\ InTransaction(m)
  BY DEF MigInv, InTransaction
<1>5. MigratorSound(m)'
  BY <1>1, <1>2, <1>3, <1>4 DEF MigratorSound, InTransaction, db
<1> QED BY <1>2, <1>3, <1>4, <1>5, TransactionStep

\* The SELECT finds every run; each has its turn before the backfill ends.
LEMMA AddRunAttemptsStep ==
  ASSUME MigInv, NEW m \in Migrator, AddRunAttempts(m)
  PROVE  MigInv'
<1> DEFINE t == [migrator[m] EXCEPT !.pc = "selected", !.todo = runs]
<1>1. migrator[m] \in Transaction /\ runs \in [Run -> OldRow(Status \cup {"absent"})]
  BY DEF MigInv, TypeOK
<1>2. /\ t \in Transaction /\ t.pc = "selected" /\ t.todo = runs
      /\ t.from = migrator[m].from /\ t.to = migrator[m].to
  BY <1>1 DEF Transaction
<1>3. migrator' = [migrator EXCEPT ![m] = t] /\ migrator'[m] = t
      /\ UNCHANGED db /\ failures' \in 0 .. MaxFailures
      /\ migrator[m].pc = "open" /\ migrator[m].to = 3
  BY DEF AddRunAttempts, MigInv, TypeOK
<1> HIDE DEF t
<1>4. MigratorSound(m) /\ InTransaction(m)
  BY <1>3 DEF MigInv, InTransaction
<1>5. MigratorSound(m)'
  BY <1>2, <1>3, <1>4 DEF MigratorSound, InTransaction, Exists, db
<1> QED BY <1>2, <1>3, <1>4, <1>5, TransactionStep

LEMMA BackfillStep ==
  ASSUME MigInv, NEW m \in Migrator, NEW r \in Run, Backfill(m, r)
  PROVE  MigInv'
<1>1. PICK a \in Unused :
        migrator' = [migrator EXCEPT
          ![m].news[a]    = FirstAttempt(r, migrator[m].todo[r]),
          ![m].current[r] = a,
          ![m].todo[r]    = NoRun]
  BY DEF Backfill
<1> DEFINE row == FirstAttempt(r, migrator[m].todo[r])
           t == [migrator[m] EXCEPT !.news[a] = row, !.current[r] = a, !.todo[r] = NoRun]
<1>2. /\ migrator[m] \in Transaction /\ a \in Attempt
      /\ migrator[m].pc = "selected" /\ UNCHANGED db /\ failures' \in 0 .. MaxFailures
  BY DEF Backfill, MigInv, TypeOK, Unused
<1>3. row \in CopiedRow
  BY <1>2 DEF Transaction, OldRow, CopiedRow, FirstAttempt
<1>4. migrator' = [migrator EXCEPT ![m] = t] /\ migrator'[m] = t
  BY <1>1 DEF MigInv, TypeOK
<1> HIDE DEF row
<1>5. /\ t \in Transaction /\ t.pc = "selected"
      /\ t.from = migrator[m].from /\ t.to = migrator[m].to
      /\ t.current[r] = a
      /\ \A q \in Run \ {r} : /\ t.todo[q] = migrator[m].todo[q]
                              /\ t.current[q] = migrator[m].current[q]
  BY <1>2, <1>3, NothingTypes DEF Transaction, Column
<1> HIDE DEF t
<1>6. MigratorSound(m) /\ InTransaction(m)
  BY <1>2 DEF MigInv, InTransaction
<1>7. MigratorSound(m)'
  BY <1>2, <1>4, <1>5, <1>6 DEF MigratorSound, InTransaction, Exists, db
<1> QED BY <1>2, <1>4, <1>5, <1>6, <1>7, TransactionStep

LEMMA EndBackfillStep ==
  ASSUME MigInv, NEW m \in Migrator, EndBackfill(m)
  PROVE  MigInv'
<1> DEFINE t == [migrator[m] EXCEPT !.pc = "open", !.at = 3]
<1>1. migrator[m] \in Transaction
  BY DEF MigInv, TypeOK
<1>2. /\ t \in Transaction /\ t.pc = "open" /\ t.at = 3
      /\ t.from = migrator[m].from /\ t.to = migrator[m].to
      /\ t.current = migrator[m].current
  <2>1. 3 \in 0 .. 3
    OBVIOUS
  <2> QED BY <1>1, <2>1 DEF Transaction
<1>3. migrator' = [migrator EXCEPT ![m] = t] /\ migrator'[m] = t
      /\ UNCHANGED db /\ failures' \in 0 .. MaxFailures
      /\ migrator[m].pc = "selected"
      /\ \A r \in Run : migrator[m].todo[r].status = "absent"
  BY DEF EndBackfill, MigInv, TypeOK
<1> HIDE DEF t
<1>4. MigratorSound(m) /\ InTransaction(m)
  BY <1>3 DEF MigInv, InTransaction
<1>5. MigratorSound(m)'
  BY <1>1, <1>2, <1>3, <1>4 DEF MigratorSound, InTransaction, Exists, Transaction, db
<1> QED BY <1>2, <1>3, <1>4, <1>5, TransactionStep

(***************************************************************************)
(* Steps that commit                                                       *)
(***************************************************************************)
\* While nobody else is in a transaction, what is committed concerns no other
\* process.
LEMMA CommitStep ==
  ASSUME MigInv, NEW m \in Migrator, CommitMigration(m)
  PROVE  MigInv'
<1> DEFINE t == migrator[m]
<1>1. /\ migrator' = [migrator EXCEPT ![m] = NoMigration]
      /\ t.pc = "open" /\ t.at = t.to /\ version' = t.to /\ UNCHANGED failures
      /\ RowsAfter(m)
  BY DEF CommitMigration
<1>2. /\ t \in Transaction /\ migrator' \in [Migrator -> Transaction]
      /\ migrator'[m] = NoMigration
      /\ \A l \in Migrator \ {m} : migrator'[l] = migrator[l]
  BY <1>1, NothingTypes DEF MigInv, TypeOK
<1>3. /\ runs \in [Run -> OldRow(Status \cup {"absent"})]
      /\ attempts \in [Attempt -> CopiedRow]
      /\ MigratorSound(m) /\ InTransaction(m) /\ AllOrNothing /\ TypeOK
  BY <1>1 DEF MigInv, TypeOK, InTransaction
<1>4. (t.from < t.to /\ t.to \in {2, 3}) \/ (t.from = 3 /\ t.to = 2)
  BY <1>1, <1>3 DEF MigratorSound
<1>5. \A l \in Migrator : MigratorSound(l)' /\ ~InTransaction(l)'
  <2>1. \A l \in Migrator \ {m} : ~InTransaction(l) /\ MigratorSound(l)
    BY <1>3 DEF MigInv, OneTransaction
  <2>2. MigratorSound(m)' /\ ~InTransaction(m)'
    BY <1>2, NothingTypes DEF MigratorSound, InTransaction
  <2>3. \A l \in Migrator \ {m} : MigratorSound(l)' /\ ~InTransaction(l)'
    BY <1>2, <2>1 DEF MigratorSound, InTransaction
  <2> QED BY <2>2, <2>3
<1>6. version' \in 0 .. 3
  BY <1>1, <1>4
<1>7. CASE t.from = 3
  <2>1. /\ attempts' = [a \in Attempt |-> NoAttempt]
        /\ runs' = [r \in Run |-> [runs[r] EXCEPT !.current = None]]
    BY <1>1, <1>7 DEF RowsAfter
  <2>2. \A r \in Run : /\ [runs[r] EXCEPT !.current = None] \in OldRow(Status \cup {"absent"})
                       /\ [runs[r] EXCEPT !.current = None].current = None
    BY <1>3 DEF OldRow, Column
  <2>3. TypeOK'
    BY <1>1, <1>2, <1>3, <1>6, <2>1, <2>2, NothingTypes DEF TypeOK
  <2>4. AllOrNothing' /\ AttemptsThere'
    <3>1. /\ \A a \in Attempt : attempts'[a].status = "absent"
          /\ \A r \in Run : runs'[r].current = None
      BY <2>1, <2>2, NothingTypes
    <3>2. version' = 2
      BY <1>1, <1>4, <1>7
    <3> QED BY <3>1, <3>2 DEF AllOrNothing, AttemptsThere, Unused
  <2> QED BY <1>5, <2>3, <2>4 DEF MigInv, OneTransaction
<1>8. CASE t.from # 3
  <2>1. /\ attempts' = [a \in Attempt |->
             IF t.news[a].status = "absent" THEN attempts[a] ELSE t.news[a]]
        /\ runs' = [r \in Run |->
             IF t.current[r] = None THEN runs[r] ELSE [runs[r] EXCEPT !.current = t.current[r]]]
    BY <1>1, <1>8 DEF RowsAfter
  <2>2. \A a \in Attempt : t.news[a] \in CopiedRow
    BY <1>2 DEF Transaction
  <2>3. \A r \in Run : t.current[r] \in Column
    BY <1>2 DEF Transaction
  <2>4. \A r \in Run :
          /\ [runs[r] EXCEPT !.current = t.current[r]] \in OldRow(Status \cup {"absent"})
          /\ [runs[r] EXCEPT !.current = t.current[r]].current = t.current[r]
          /\ [runs[r] EXCEPT !.current = t.current[r]].status = runs[r].status
    BY <1>3, <2>3 DEF OldRow
  <2> HIDE DEF t
  <2>5. attempts' \in [Attempt -> CopiedRow]
    BY <1>3, <2>1, <2>2
  <2>6. runs' \in [Run -> OldRow(Status \cup {"absent"})]
    BY <1>3, <2>1, <2>4
  <2>7. TypeOK'
    BY <1>1, <1>2, <1>3, <1>6, <2>5, <2>6 DEF TypeOK
  <2>8. version < 3
    BY <1>3, <1>4, <1>8 DEF MigratorSound, InTransaction, t, TypeOK
  <2>9. AllOrNothing'
    <3>1. CASE t.to = 3
      BY <1>1, <3>1 DEF AllOrNothing
    <3>2. CASE t.to # 3
      <4>1. /\ \A a \in Attempt : t.news[a].status = "absent"
            /\ \A r \in Run : t.current[r] = None
        BY <1>1, <1>3, <1>4, <3>2 DEF MigratorSound, t
      <4>2. attempts' = attempts /\ runs' = runs
        BY <1>3, <2>1, <4>1
      <4> QED BY <1>3, <2>8, <4>2 DEF AllOrNothing, Unused
    <3> QED BY <3>1, <3>2
  <2>10. AttemptsThere'
    <3> SUFFICES ASSUME t.to = 3, NEW r \in Run, Exists(r)' PROVE runs'[r].current \in Attempt
      BY <1>1 DEF AttemptsThere
    <3>1. Exists(r)
      BY <2>1, <2>4 DEF Exists
    <3>2. t.current[r] \in Attempt
      BY <1>1, <1>3, <1>4, <3>1 DEF MigratorSound, t
    <3> QED BY <2>1, <2>4, <3>2, NoneAssumption
  <2> QED BY <1>5, <2>7, <2>9, <2>10 DEF MigInv, OneTransaction
<1> QED BY <1>7, <1>8

\* The services write only while no migration has its locks.
LEMMA ServiceWrites ==
  ASSUME MigInv, Unlocked, UNCHANGED <<version, migrator, failures>>,
         runs' \in [Run -> OldRow(Status \cup {"absent"})],
         attempts' \in [Attempt -> CopiedRow],
         AllOrNothing', AttemptsThere'
  PROVE  MigInv'
<1>1. TypeOK'
  BY DEF MigInv, TypeOK
<1>2. \A m \in Migrator : ~InTransaction(m) /\ ~InTransaction(m)'
  BY DEF Unlocked, InTransaction
<1>3. \A m \in Migrator : MigratorSound(m)'
  BY <1>2 DEF MigInv, MigratorSound, InTransaction
<1> QED BY <1>1, <1>2, <1>3 DEF MigInv, OneTransaction

\* The previous release knows no attempts.
LEMMA OldServiceKeeps ==
  ASSUME MigInv, NEW r \in Run, OldServiceStep(r)
  PROVE  MigInv'
<1>1. /\ version = 2 /\ Unlocked /\ UNCHANGED <<version, attempts, migrator, failures>>
      /\ runs \in [Run -> OldRow(Status \cup {"absent"})] /\ attempts \in [Attempt -> CopiedRow]
      /\ AllOrNothing
  BY DEF OldServiceStep, WriteRunRow, MigInv, TypeOK
<1>2. ASSUME NEW row \in OldRow(Status \cup {"absent"}), row.current = None,
             runs' = [runs EXCEPT ![r] = row]
      PROVE  MigInv'
  <2>1. AllOrNothing' /\ AttemptsThere'
    BY <1>1, <1>2 DEF AllOrNothing, AttemptsThere, Unused
  <2> QED BY <1>1, <1>2, <2>1, ServiceWrites
<1>3. runs[r].current = None /\ runs[r] \in OldRow(Status \cup {"absent"})
  <2>1. runs[r] \in OldRow(Status \cup {"absent"})
    BY <1>1
  <2>2. version < 3
    BY <1>1
  <2>3. \A q \in Run : runs[q].current = None
    BY <1>1, <2>2 DEF AllOrNothing
  <2> QED BY <2>1, <2>3
<1>4. CASE runs' = [runs EXCEPT ![r] = [NoRun EXCEPT !.status = "queued"]]
  <2>1. /\ [NoRun EXCEPT !.status = "queued"] \in OldRow(Status \cup {"absent"})
        /\ [NoRun EXCEPT !.status = "queued"].current = None
    BY DEF NoRun, OldRow, OldColumn, Column, Status
  <2> QED BY <1>2, <1>4, <2>1
<1>5. CASE runs' = [runs EXCEPT ![r] = Claimed(runs[r], r)]
  <2>1. /\ Claimed(runs[r], r) \in OldRow(Status \cup {"absent"})
        /\ Claimed(runs[r], r).current = None
    BY <1>3 DEF Claimed, OldRow, OldColumn, Status
  <2> QED BY <1>2, <1>5, <2>1
<1>6. ASSUME NEW o \in Outcome, runs' = [runs EXCEPT ![r] = Finished(runs[r], r, o)]
      PROVE  MigInv'
  <2>0. o.status \in Status
    BY DEF Outcome, Succeeded, FailedWithSummary, FailedBare, Status, Terminal
  <2>1. /\ Finished(runs[r], r, o) \in OldRow(Status \cup {"absent"})
        /\ Finished(runs[r], r, o).current = None
    BY <1>3, <2>0 DEF Finished, OldRow, OldColumn, Column
  <2> QED BY <1>2, <1>6, <2>1
<1> QED BY <1>4, <1>5, <1>6 DEF OldServiceStep, WriteRunRow

\* This release never leaves a run without a current attempt.
LEMMA ServiceKeeps ==
  ASSUME MigInv, NEW r \in Run, ServiceStep(r)
  PROVE  MigInv'
<1>1. /\ version = 3 /\ Unlocked
      /\ runs \in [Run -> OldRow(Status \cup {"absent"})] /\ attempts \in [Attempt -> CopiedRow]
      /\ \A q \in Run : Exists(q) => runs[q].current \in Attempt
      /\ runs[r] \in OldRow(Status \cup {"absent"})
  BY DEF ServiceStep, MigInv, TypeOK, AttemptsThere
<1>2. ASSUME NEW row \in OldRow(Status \cup {"absent"}), row.current \in Attempt,
             NEW a \in Attempt, NEW arow \in CopiedRow, WriteBoth(r, row, a, arow)
      PROVE  MigInv'
  <2>1. /\ runs' = [runs EXCEPT ![r] = row] /\ attempts' = [attempts EXCEPT ![a] = arow]
        /\ UNCHANGED <<version, migrator, failures>>
    BY <1>2 DEF WriteBoth
  <2>2. AllOrNothing' /\ AttemptsThere'
    BY <1>1, <1>2, <2>1 DEF AllOrNothing, AttemptsThere, Exists
  <2>3. /\ runs' \in [Run -> OldRow(Status \cup {"absent"})]
        /\ attempts' \in [Attempt -> CopiedRow]
    BY <1>1, <1>2, <2>1
  <2> QED BY <1>1, <2>1, <2>2, <2>3, ServiceWrites
<1>3. \A a \in Attempt, n \in Nat : NewAttempt(r, n) \in CopiedRow
  BY DEF NewAttempt, NoAttempt, CopiedRow, OldColumn, Column, Status
<1>4. CASE Submit(r)
  <2>1. PICK a \in Attempt : WriteBoth(r, NewRun(a), a, NewAttempt(r, 1))
    BY <1>4 DEF Submit, Unused
  <2>2. NewRun(a) \in OldRow(Status \cup {"absent"}) /\ NewRun(a).current = a
    BY DEF NewRun, NoRun, OldRow, OldColumn, Column, Status
  <2> QED BY <1>2, <1>3, <2>1, <2>2
<1> DEFINE c == runs[r].current
<1>5. runs[r].status # "absent" => c \in Attempt /\ attempts[c] \in CopiedRow
  BY <1>1 DEF Exists
<1>6. CASE ClaimCurrent(r)
  <2>1. c \in Attempt /\ attempts[c] \in CopiedRow
        /\ WriteBoth(r, Claimed(runs[r], c), c, Claimed(attempts[c], c))
    BY <1>5, <1>6 DEF ClaimCurrent
  <2>2. Claimed(runs[r], c) \in OldRow(Status \cup {"absent"}) /\ Claimed(runs[r], c).current = c
    BY <1>1, <2>1 DEF Claimed, OldRow, OldColumn, Column, Status
  <2>3. Claimed(attempts[c], c) \in CopiedRow
    BY <2>1 DEF Claimed, CopiedRow, OldColumn, Column, Status
  <2> QED BY <1>2, <2>1, <2>2, <2>3
<1>7. CASE FinishCurrent(r)
  <2>1. c \in Attempt /\ attempts[c] \in CopiedRow
    BY <1>5, <1>7 DEF FinishCurrent
  <2>2. PICK o \in Outcome :
          WriteBoth(r, Finished(runs[r], c, o), c, Finished(attempts[c], c, o))
    BY <1>7 DEF FinishCurrent
  <2>3. o.status \in Status
    BY DEF Outcome, Succeeded, FailedWithSummary, FailedBare, Status, Terminal
  <2>4. Finished(runs[r], c, o) \in OldRow(Status \cup {"absent"}) /\ Finished(runs[r], c, o).current = c
    BY <1>1, <2>1, <2>3 DEF Finished, OldRow, OldColumn, Column
  <2>5. Finished(attempts[c], c, o) \in CopiedRow
    <3>1. ASSUME NEW row \in CopiedRow PROVE Finished(row, c, o) \in CopiedRow
      <4> HIDE DEF c
      <4>1. c \in OldColumn /\ None \in OldColumn
        BY <2>1 DEF OldColumn, Column
      <4> QED BY <2>3, <4>1 DEF Finished, CopiedRow
    <3> QED BY <2>1, <3>1
  <2> QED BY <1>2, <2>1, <2>2, <2>4, <2>5
<1>8. CASE Retry(r)
  <2>1. c \in Attempt /\ attempts[c].number + 1 \in Nat
    BY <1>5, <1>8 DEF Retry, CopiedRow
  <2>2. PICK a \in Attempt :
          WriteBoth(r, RetriedRun(runs[r], runs[r], a), a, NewAttempt(r, attempts[c].number + 1))
    BY <1>8 DEF Retry, Unused
  <2>3. /\ RetriedRun(runs[r], runs[r], a) \in OldRow(Status \cup {"absent"})
        /\ RetriedRun(runs[r], runs[r], a).current = a
    BY <1>1 DEF RetriedRun, Cleared, OldRow, OldColumn, Column, Status
  <2> QED BY <1>2, <1>3, <2>1, <2>2, <2>3
<1> QED BY <1>4, <1>6, <1>7, <1>8 DEF ServiceStep

(***************************************************************************)
(* Theorems                                                                *)
(***************************************************************************)
LEMMA NextMig == MigInv /\ [Next]_vars => MigInv'
<1> SUFFICES ASSUME MigInv, [Next]_vars PROVE MigInv'
  OBVIOUS
<1>1. ASSUME NEW m \in Migrator, Begin(m) PROVE MigInv'
  BY <1>1, BeginStep
<1>2. ASSUME NEW m \in Migrator, CreateProjectsAndRuns(m) PROVE MigInv'
  BY <1>2, ReachStep DEF CreateProjectsAndRuns
<1>3. ASSUME NEW m \in Migrator, AddRunResultFields(m) PROVE MigInv'
  BY <1>3, ReachStep DEF AddRunResultFields
<1>4. ASSUME NEW m \in Migrator, DropRunAttempts(m) PROVE MigInv'
  <2>1. migrator[m].from = 3
    BY <1>4 DEF DropRunAttempts, MigInv, MigratorSound
  <2> QED BY <1>4, <2>1, ReachStep DEF DropRunAttempts
<1>5. ASSUME NEW m \in Migrator, MigrationFails(m) PROVE MigInv'
  <2>1. failures' \in 0 .. MaxFailures
    BY <1>5, MigrationAssumption DEF MigrationFails, MigInv, TypeOK
  <2> QED BY <1>5, <2>1, EndStep DEF MigrationFails
<1>6. ASSUME NEW m \in Migrator, MigrationStep(m) PROVE MigInv'
  BY <1>2, <1>3, <1>4, <1>6, FirstStatementStep, AddRunAttemptsStep, BackfillStep,
     EndBackfillStep, CommitStep DEF MigrationStep
<1>7. ASSUME NEW r \in Run, OldServiceStep(r) \/ ServiceStep(r) PROVE MigInv'
  BY <1>7, OldServiceKeeps, ServiceKeeps
<1>8. CASE UNCHANGED vars
  BY <1>8 DEF vars, MigInv, TypeOK, MigratorSound, InTransaction, OneTransaction,
     AllOrNothing, AttemptsThere, Exists, Unused
<1> QED BY <1>1, <1>5, <1>6, <1>7, <1>8 DEF Next

\* The invariant of the schema history, for any number of processes.
THEOREM HistorySound == Spec => []MigInv
BY InitMig, NextMig, PTL DEF Spec

\* Every variable keeps its type.
THEOREM HistoryTypes == Spec => []TypeOK
<1>1. MigInv => TypeOK
  BY DEF MigInv
<1> QED BY <1>1, HistorySound, PTL

\* A migration that failed or lost a race has left nothing behind, and after a
\* downgrade no run refers to an attempt.
THEOREM AllOrNothingCorrect == Spec => []AllOrNothing
<1>1. MigInv => AllOrNothing
  BY DEF MigInv
<1> QED BY <1>1, HistorySound, PTL

(***************************************************************************)
(* The rows                                                                *)
(***************************************************************************)
\* A value of the previous release is the run's own.
Own(r, c) == c \in Run => c = r

\* What a started and a failed row have, in either table.
Shaped(r, row) ==
  /\ row.status = "running" => row.started # None
  /\ row.status = "failed" => /\ row.started # None
                              /\ row.error # None
                              /\ row.finished # None
  /\ Own(r, row.started) /\ Own(r, row.error) /\ Own(r, row.finished)

SameResult(row, arow) ==
  /\ row.status = arow.status     /\ row.summary = arow.summary
  /\ row.error = arow.error       /\ row.started = arow.started
  /\ row.finished = arow.finished

AttemptWhole(a) ==
  /\ attempts[a].status = "absent" <=> attempts[a].run = None
  /\ attempts[a].run # None => /\ Exists(attempts[a].run)
                               /\ Shaped(attempts[a].run, attempts[a])

Last(r) == attempts[runs[r].current].number

\* The run shows its current attempt, the last of those that are numbered from
\* 1 without a gap.
RunWhole(r) ==
  /\ attempts[runs[r].current].run = r
  /\ SameResult(runs[r], attempts[runs[r].current])
  /\ \A a \in Attempt : attempts[a].run = r =>
       /\ attempts[a].number \in 1 .. Last(r)
       /\ \A b \in Attempt : attempts[b].run = r /\ attempts[a].number = attempts[b].number
                               => a = b
  /\ \A n \in 1 .. Last(r) : \E a \in Attempt : attempts[a].run = r /\ attempts[a].number = n

\* Copying runs and having copied them: a run waits as it was selected or has
\* the attempt it will refer to, and each new attempt is that of one run.
Copying(m) ==
  migrator[m].pc = "selected" \/ (migrator[m].pc = "open" /\ migrator[m].at = 3 /\ migrator[m].from < 3)

CopySound(m) ==
  LET t == migrator[m]
  IN /\ \A r \in Run : t.todo[r].status # "absent" => t.todo[r] = runs[r] /\ t.current[r] = None
     /\ \A r \in Run : t.current[r] # None =>
          /\ t.current[r] \in Attempt
          /\ Exists(r)
          /\ t.news[t.current[r]] = FirstAttempt(r, runs[r])
     /\ \A a \in Attempt : t.news[a].status # "absent" =>
          t.news[a].run \in Run /\ t.current[t.news[a].run] = a

RowInv == /\ \A r \in Run : Shaped(r, runs[r])
          /\ \A a \in Attempt : AttemptWhole(a)
          /\ version = 3 => \A r \in Run : Exists(r) => RunWhole(r)
          /\ \A m \in Migrator : Copying(m) => CopySound(m)

\* What one process does before its commit concerns its own copies.
LEMMA CopyStep ==
  ASSUME MigInv, RowInv, NEW m \in Migrator, NEW t \in Transaction,
         migrator' = [migrator EXCEPT ![m] = t], UNCHANGED db,
         Copying(m)' => CopySound(m)'
  PROVE  RowInv'
<1>1. \A l \in Migrator \ {m} : migrator'[l] = migrator[l]
  BY DEF MigInv, TypeOK
<1>2. \A l \in Migrator \ {m} : Copying(l)' => CopySound(l)'
  BY <1>1 DEF RowInv, Copying, CopySound, Exists, FirstAttempt, db
<1>3. /\ (\A r \in Run : Shaped(r, runs[r]))'
      /\ (\A a \in Attempt : AttemptWhole(a))'
  BY DEF RowInv, Shaped, Own, AttemptWhole, Exists, db
<1>4. (version = 3 => \A r \in Run : Exists(r) => RunWhole(r))'
  BY DEF RowInv, RunWhole, SameResult, Last, Exists, db
<1> QED BY <1>2, <1>3, <1>4 DEF RowInv

LEMMA CopyQuiet ==
  ASSUME MigInv, RowInv, NEW m \in Migrator, NEW t \in Transaction,
         migrator' = [migrator EXCEPT ![m] = t], UNCHANGED db,
         t.pc \in {"idle", "started"} \/ (t.pc = "open" /\ (t.at < 3 \/ t.from = 3))
  PROVE  RowInv'
<1>1. migrator'[m] = t
  BY DEF MigInv, TypeOK
<1>2. t.at \in Nat /\ t.from \in Nat
  BY DEF Transaction
<1>3. ~Copying(m)'
  BY <1>1, <1>2 DEF Copying
<1> QED BY <1>3, CopyStep

LEMMA AddRunAttemptsCopies ==
  ASSUME MigInv, RowInv, NEW m \in Migrator, AddRunAttempts(m)
  PROVE  RowInv'
<1> DEFINE t == [migrator[m] EXCEPT !.pc = "selected", !.todo = runs]
<1>1. migrator[m] \in Transaction /\ runs \in [Run -> OldRow(Status \cup {"absent"})]
  BY DEF MigInv, TypeOK
<1>2. /\ t \in Transaction /\ t.todo = runs
      /\ t.news = migrator[m].news /\ t.current = migrator[m].current
  BY <1>1 DEF Transaction
<1>3. /\ migrator' = [migrator EXCEPT ![m] = t] /\ migrator'[m] = t /\ UNCHANGED db
      /\ migrator[m].pc = "open" /\ migrator[m].at = 2
  BY DEF AddRunAttempts, MigInv, TypeOK
<1> HIDE DEF t
<1>4. /\ \A a \in Attempt : migrator[m].news[a].status = "absent"
      /\ \A r \in Run : migrator[m].current[r] = None
  BY <1>3 DEF MigInv, MigratorSound
<1>5. CopySound(m)'
  BY <1>2, <1>3, <1>4 DEF CopySound, db
<1> QED BY <1>2, <1>3, <1>5, CopyStep

\* A run gets an attempt that no other run got.
LEMMA BackfillCopies ==
  ASSUME MigInv, RowInv, NEW m \in Migrator, NEW r \in Run, Backfill(m, r)
  PROVE  RowInv'
<1>1. PICK a \in Unused :
        /\ migrator[m].news[a].status = "absent"
        /\ migrator' = [migrator EXCEPT
             ![m].news[a]    = FirstAttempt(r, migrator[m].todo[r]),
             ![m].current[r] = a,
             ![m].todo[r]    = NoRun]
  BY DEF Backfill
<1> DEFINE row == FirstAttempt(r, migrator[m].todo[r])
           t == [migrator[m] EXCEPT !.news[a] = row, !.current[r] = a, !.todo[r] = NoRun]
<1>2. /\ migrator[m] \in Transaction /\ a \in Attempt /\ UNCHANGED db
      /\ migrator[m].pc = "selected" /\ migrator[m].todo[r].status # "absent"
      /\ migrator \in [Migrator -> Transaction]
  BY DEF Backfill, MigInv, TypeOK, Unused
<1>3. row \in CopiedRow
  BY <1>2 DEF Transaction, OldRow, CopiedRow, FirstAttempt
<1>4. migrator' = [migrator EXCEPT ![m] = t] /\ migrator'[m] = t
  BY <1>1, <1>2
<1>5. CopySound(m)
  BY <1>2 DEF RowInv, Copying
<1>6. migrator[m].todo[r] = runs[r] /\ migrator[m].current[r] = None /\ Exists(r)
  BY <1>2, <1>5 DEF CopySound, Exists
<1>7. row.run = r /\ row.status = runs[r].status /\ row = FirstAttempt(r, runs[r])
  BY <1>6 DEF FirstAttempt
<1> HIDE DEF row
<1>8. /\ t \in Transaction /\ t.news[a] = row /\ t.current[r] = a /\ t.todo[r] = NoRun
      /\ \A b \in Attempt \ {a} : t.news[b] = migrator[m].news[b]
      /\ \A q \in Run \ {r} : /\ t.todo[q] = migrator[m].todo[q]
                              /\ t.current[q] = migrator[m].current[q]
  BY <1>2, <1>3, NothingTypes DEF Transaction, Column
<1> HIDE DEF t
<1>9. \A q \in Run : migrator[m].current[q] # None =>
        /\ migrator[m].current[q] \in Attempt \ {a}
        /\ Exists(q)
        /\ migrator[m].news[migrator[m].current[q]] = FirstAttempt(q, runs[q])
  BY <1>1, <1>5 DEF CopySound, FirstAttempt, Exists
<1>10. \A q \in Run : t.current[q] # None =>
         /\ t.current[q] \in Attempt
         /\ Exists(q)
         /\ t.news[t.current[q]] = FirstAttempt(q, runs[q])
  <2> TAKE q \in Run
  <2>1. CASE q = r
    BY <1>2, <1>6, <1>7, <1>8, <2>1
  <2>2. CASE q # r
    BY <1>8, <1>9, <2>2
  <2> QED BY <2>1, <2>2
<1>11. \A b \in Attempt : t.news[b].status # "absent" =>
         t.news[b].run \in Run /\ t.current[t.news[b].run] = b
  <2> SUFFICES ASSUME NEW b \in Attempt, t.news[b].status # "absent"
               PROVE  t.news[b].run \in Run /\ t.current[t.news[b].run] = b
    OBVIOUS
  <2>1. CASE b = a
    BY <1>7, <1>8, <2>1
  <2>2. CASE b # a
    <3>1. migrator[m].news[b].run \in Run /\ migrator[m].current[migrator[m].news[b].run] = b
      BY <1>5, <1>8, <2>2 DEF CopySound
    <3>2. migrator[m].news[b].run # r
      BY <1>6, <3>1, NoneAssumption
    <3> QED BY <1>8, <2>2, <3>1, <3>2
  <2> QED BY <2>1, <2>2
<1>12. \A q \in Run : t.todo[q].status # "absent" => t.todo[q] = runs[q] /\ t.current[q] = None
  BY <1>5, <1>8 DEF CopySound, NoRun
<1>13. CopySound(m)'
  BY <1>2, <1>4, <1>10, <1>11, <1>12 DEF CopySound, Exists, FirstAttempt, db
<1> QED BY <1>2, <1>4, <1>8, <1>13, CopyStep

LEMMA EndBackfillCopies ==
  ASSUME MigInv, RowInv, NEW m \in Migrator, EndBackfill(m)
  PROVE  RowInv'
<1> DEFINE t == [migrator[m] EXCEPT !.pc = "open", !.at = 3]
<1>1. migrator[m] \in Transaction /\ 3 \in 0 .. 3
  BY DEF MigInv, TypeOK
<1>2. /\ t \in Transaction /\ t.todo = migrator[m].todo
      /\ t.news = migrator[m].news /\ t.current = migrator[m].current
  BY <1>1 DEF Transaction
<1>3. /\ migrator' = [migrator EXCEPT ![m] = t] /\ migrator'[m] = t /\ UNCHANGED db
      /\ migrator[m].pc = "selected"
  BY DEF EndBackfill, MigInv, TypeOK
<1> HIDE DEF t
<1>4. CopySound(m)
  BY <1>3 DEF RowInv, Copying
<1>5. CopySound(m)'
  BY <1>2, <1>3, <1>4 DEF CopySound, Exists, FirstAttempt, db
<1> QED BY <1>2, <1>3, <1>5, CopyStep

\* A commit makes the copies the rows of this release, or takes the attempts
\* away.
LEMMA CommitCopies ==
  ASSUME MigInv, RowInv, NEW m \in Migrator, CommitMigration(m)
  PROVE  RowInv'
<1> DEFINE t == migrator[m]
<1>1. /\ migrator' = [migrator EXCEPT ![m] = NoMigration]
      /\ t.pc = "open" /\ t.at = t.to /\ version' = t.to /\ RowsAfter(m)
  BY DEF CommitMigration
<1>2. /\ t \in Transaction /\ migrator'[m] = NoMigration /\ version \in 0 .. 3
      /\ \A l \in Migrator \ {m} : migrator'[l] = migrator[l]
      /\ runs \in [Run -> OldRow(Status \cup {"absent"})]
      /\ attempts \in [Attempt -> CopiedRow]
  BY <1>1 DEF MigInv, TypeOK
<1>3. MigratorSound(m) /\ InTransaction(m) /\ AllOrNothing
  BY <1>1 DEF MigInv, InTransaction
<1>4. /\ (t.from < t.to /\ t.to \in {2, 3}) \/ (t.from = 3 /\ t.to = 2)
      /\ t.from = version
  BY <1>1, <1>3 DEF MigratorSound
<1>5. \A l \in Migrator : ~Copying(l)'
  <2>1. \A l \in Migrator \ {m} : ~InTransaction(l)
    BY <1>3 DEF MigInv, OneTransaction
  <2>2. \A l \in Migrator \ {m} : ~Copying(l)'
    BY <1>2, <2>1 DEF Copying, InTransaction
  <2>3. ~Copying(m)'
    BY <1>2, NothingTypes DEF Copying
  <2> QED BY <2>2, <2>3
<1>6. CASE t.from = 3
  <2>1. /\ attempts' = [a \in Attempt |-> NoAttempt]
        /\ runs' = [r \in Run |-> [runs[r] EXCEPT !.current = None]]
        /\ version' = 2
    BY <1>1, <1>4, <1>6 DEF RowsAfter
  <2>2. \A r \in Run : /\ runs'[r].status = runs[r].status   /\ runs'[r].started = runs[r].started
                       /\ runs'[r].error = runs[r].error     /\ runs'[r].finished = runs[r].finished
    BY <1>2, <2>1 DEF OldRow
  <2>3. (\A r \in Run : Shaped(r, runs[r]))'
    BY <2>2 DEF RowInv, Shaped, Own
  <2>4. (\A a \in Attempt : AttemptWhole(a))'
    BY <2>1 DEF AttemptWhole, NoAttempt
  <2> QED BY <1>5, <2>1, <2>3, <2>4 DEF RowInv
<1>7. CASE t.from # 3 /\ t.to = 2
  <2>1. /\ \A a \in Attempt : t.news[a].status = "absent"
        /\ \A r \in Run : t.current[r] = None
    BY <1>1, <1>3, <1>7 DEF MigratorSound
  <2>2. attempts' = attempts /\ runs' = runs
    BY <1>1, <1>2, <1>7, <2>1 DEF RowsAfter
  <2>3. /\ (\A r \in Run : Shaped(r, runs[r]))'
        /\ (\A a \in Attempt : AttemptWhole(a))'
    BY <2>2 DEF RowInv, Shaped, Own, AttemptWhole, Exists
  <2> QED BY <1>1, <1>5, <1>7, <2>3 DEF RowInv
<1>8. CASE t.from # 3 /\ t.to = 3
  <2>1. version < 3 /\ CopySound(m)
    BY <1>1, <1>2, <1>4, <1>8 DEF RowInv, Copying
  <2>2. \A a \in Attempt : attempts[a].status = "absent" /\ attempts[a].run = None
    BY <1>3, <2>1 DEF AllOrNothing, Unused, RowInv, AttemptWhole
  <2>3. /\ attempts' = [a \in Attempt |->
             IF t.news[a].status = "absent" THEN attempts[a] ELSE t.news[a]]
        /\ runs' = [r \in Run |->
             IF t.current[r] = None THEN runs[r] ELSE [runs[r] EXCEPT !.current = t.current[r]]]
    BY <1>1, <1>8 DEF RowsAfter
  <2>4. \A r \in Run : Exists(r) =>
          /\ t.current[r] \in Attempt /\ t.current[r] # None
          /\ t.news[t.current[r]] = FirstAttempt(r, runs[r])
    BY <1>1, <1>3, <1>4, <1>8, <2>1, NoneAssumption DEF MigratorSound, CopySound
  <2>5. \A r \in Run :
          /\ runs'[r].status = runs[r].status     /\ runs'[r].started = runs[r].started
          /\ runs'[r].error = runs[r].error       /\ runs'[r].finished = runs[r].finished
          /\ runs'[r].summary = runs[r].summary
          /\ Exists(r) => runs'[r].current = t.current[r]
    <3> HIDE DEF t
    <3> QED BY <1>2, <2>3, <2>4 DEF OldRow
  <2>6. \A r \in Run : Exists(r)' <=> Exists(r)
    BY <2>5 DEF Exists
  <2>7. \A a \in Attempt : t.news[a].status # "absent" =>
          /\ t.news[a].run \in Run /\ Exists(t.news[a].run)
          /\ t.current[t.news[a].run] = a
          /\ t.news[a] = FirstAttempt(t.news[a].run, runs[t.news[a].run])
    BY <2>1, NoneAssumption DEF CopySound
  <2>8. \A r \in Run, a \in Attempt : attempts'[a].run = r =>
          Exists(r) /\ a = t.current[r]
    <3> TAKE r \in Run, a \in Attempt
    <3>1. CASE t.news[a].status = "absent"
      BY <2>2, <2>3, <3>1, NoneAssumption
    <3>2. CASE t.news[a].status # "absent"
      BY <2>3, <2>7, <3>2
    <3> QED BY <3>1, <3>2
  <2>9. \A r \in Run : Exists(r) => attempts'[t.current[r]] = FirstAttempt(r, runs[r])
    BY <2>3, <2>4 DEF FirstAttempt, Exists
  <2>10. (\A r \in Run : Shaped(r, runs[r]))'
    BY <2>5 DEF RowInv, Shaped, Own
  <2>11. (\A a \in Attempt : AttemptWhole(a))'
    <3> SUFFICES ASSUME NEW a \in Attempt PROVE AttemptWhole(a)'
      OBVIOUS
    <3>1. CASE t.news[a].status = "absent"
      BY <2>2, <2>3, <3>1 DEF AttemptWhole
    <3>2. CASE t.news[a].status # "absent"
      <4>1. PICK r \in Run : Exists(r) /\ attempts'[a] = FirstAttempt(r, runs[r])
        BY <2>3, <2>7, <3>2
      <4>2. Shaped(r, runs[r])
        BY <4>1 DEF RowInv
      <4>3. attempts'[a].run = r /\ attempts'[a].status # "absent" /\ Shaped(r, attempts'[a])
        BY <4>1, <4>2 DEF FirstAttempt, Shaped, Own, Exists
      <4>4. Exists(r)'
        BY <2>6, <4>1
      <4> QED BY <4>3, <4>4, NoneAssumption DEF AttemptWhole, Exists, Shaped, Own
    <3> QED BY <3>1, <3>2
  <2>12. \A r \in Run : Exists(r)' => RunWhole(r)'
    <3> SUFFICES ASSUME NEW r \in Run, Exists(r)' PROVE RunWhole(r)'
      OBVIOUS
    <3> DEFINE c == t.current[r]
    <3>1. Exists(r) /\ c \in Attempt /\ runs'[r].current = c
      BY <2>4, <2>5, <2>6
    <3>2. attempts'[c] = FirstAttempt(r, runs[r])
      BY <2>9, <3>1
    <3>3. \A a \in Attempt : attempts'[a].run = r => a = c
      BY <2>8
    <3> HIDE DEF c, t
    <3>4. attempts'[c].run = r /\ attempts'[c].number = 1
      BY <3>2 DEF FirstAttempt
    <3>5. SameResult(runs[r], attempts[runs[r].current])'
      BY <2>5, <3>1, <3>2 DEF SameResult, FirstAttempt
    <3>6. Last(r)' = 1 /\ 1 \in 1 .. 1 /\ \A n \in 1 .. 1 : n = 1
      BY <3>1, <3>4 DEF Last
    <3> QED BY <3>1, <3>3, <3>4, <3>5, <3>6 DEF RunWhole
  <2> QED BY <1>5, <2>10, <2>11, <2>12 DEF RowInv
<1> QED BY <1>4, <1>6, <1>7, <1>8

(***************************************************************************)
(* Steps of the services                                                   *)
(***************************************************************************)
LEMMA NobodyCopies ==
  ASSUME Unlocked, UNCHANGED migrator
  PROVE  \A m \in Migrator : ~Copying(m)'
BY DEF Unlocked, Copying

\* What the previous release writes has the shape, and is the run's own.
LEMMA OldServiceShapes ==
  ASSUME MigInv, RowInv, NEW r \in Run, OldServiceStep(r)
  PROVE  RowInv'
<1>1. /\ version' = 2 /\ UNCHANGED attempts /\ runs \in [Run -> OldRow(Status \cup {"absent"})]
      /\ Unused = Attempt
      /\ \A m \in Migrator : ~Copying(m)'
  <2>1. /\ version = 2 /\ Unlocked /\ UNCHANGED <<version, attempts, migrator>>
    BY DEF OldServiceStep, WriteRunRow
  <2>2. version < 3
    BY <2>1
  <2>3. Unused = Attempt /\ runs \in [Run -> OldRow(Status \cup {"absent"})]
    BY <2>2 DEF MigInv, TypeOK, AllOrNothing
  <2> QED BY <2>1, <2>3, NobodyCopies
<1>2. \A a \in Attempt : AttemptWhole(a)'
  BY <1>1 DEF RowInv, AttemptWhole, Unused
<1>3. ASSUME NEW row, Shaped(r, row), runs' = [runs EXCEPT ![r] = row]
      PROVE  RowInv'
  <2>1. \A q \in Run : runs'[q] = IF q = r THEN row ELSE runs[q]
    BY <1>1, <1>3
  <2>2. \A q \in Run : Shaped(q, runs[q])'
    BY <1>3, <2>1 DEF RowInv, Shaped, Own
  <2> QED BY <1>1, <1>2, <2>2 DEF RowInv
<1>4. Shaped(r, runs[r]) /\ runs[r] \in OldRow(Status \cup {"absent"})
  BY <1>1 DEF RowInv
<1>5. CASE runs' = [runs EXCEPT ![r] = [NoRun EXCEPT !.status = "queued"]]
  <2>1. Shaped(r, [NoRun EXCEPT !.status = "queued"])
    BY NoneAssumption DEF Shaped, Own, NoRun
  <2> QED BY <1>3, <1>5, <2>1
<1>6. CASE runs' = [runs EXCEPT ![r] = Claimed(runs[r], r)]
  <2>1. Shaped(r, Claimed(runs[r], r))
    BY <1>4, NoneAssumption DEF Shaped, Own, Claimed, OldRow
  <2> QED BY <1>3, <1>6, <2>1
<1>7. ASSUME NEW o \in Outcome, runs[r].status = "running",
             runs' = [runs EXCEPT ![r] = Finished(runs[r], r, o)]
      PROVE  RowInv'
  <2>1. Shaped(r, Finished(runs[r], r, o))
    BY <1>4, <1>7, NoneAssumption
       DEF Shaped, Own, Finished, OldRow, Outcome, Succeeded, FailedWithSummary, FailedBare
  <2> QED BY <1>3, <1>7, <2>1
<1> QED BY <1>5, <1>6, <1>7 DEF OldServiceStep, WriteRunRow

Count(r) == IF Exists(r) THEN Last(r) ELSE 0

\* A transaction of this release leaves a run and an attempt of it with the
\* same result: the current one, or a new one with the next number.
LEMMA BothWritten ==
  ASSUME MigInv, RowInv, version = 3, Unlocked, UNCHANGED <<version, migrator>>,
         NEW r \in Run, NEW row, NEW a \in Attempt, NEW arow,
         runs' = [runs EXCEPT ![r] = row], attempts' = [attempts EXCEPT ![a] = arow],
         row.status # "absent", row.current = a, Shaped(r, row),
         SameResult(row, arow), arow.run = r,
         \/ Exists(r) /\ a = runs[r].current /\ arow.number = attempts[a].number
         \/ a \in Unused /\ arow.number = Count(r) + 1
  PROVE  RowInv'
<1>1. /\ runs \in [Run -> OldRow(Status \cup {"absent"})] /\ attempts \in [Attempt -> CopiedRow]
      /\ \A q \in Run : Exists(q) => runs[q].current \in Attempt
  BY DEF MigInv, TypeOK, AttemptsThere
<1>2. /\ runs'[r] = row /\ \A q \in Run \ {r} : runs'[q] = runs[q]
      /\ attempts'[a] = arow /\ \A b \in Attempt \ {a} : attempts'[b] = attempts[b]
  BY <1>1
<1>3. /\ Exists(r)'
      /\ \A q \in Run \ {r} : Exists(q)' <=> Exists(q)
  BY <1>2 DEF Exists
<1>4. \A b \in Attempt : attempts[b].run # None => Exists(attempts[b].run)
  BY DEF RowInv, AttemptWhole
<1>5. \A q \in Run : Exists(q) => RunWhole(q)
  BY DEF RowInv
<1>6. \A b \in Attempt : attempts[b].number \in Nat /\ attempts[b].run \in Run \cup {None}
  BY <1>1 DEF CopiedRow
<1>7. attempts[a].run = IF a \in Unused THEN None ELSE r
  <2>1. CASE a \in Unused
    BY <2>1 DEF Unused, RowInv, AttemptWhole
  <2>2. CASE a \notin Unused
    BY <1>5, <2>2 DEF RunWhole
  <2> QED BY <2>1, <2>2
<1>8. \A q \in Run : Shaped(q, runs[q])'
  BY <1>2 DEF RowInv, Shaped, Own
<1>9. \A b \in Attempt : AttemptWhole(b)'
  <2> SUFFICES ASSUME NEW b \in Attempt PROVE AttemptWhole(b)'
    OBVIOUS
  <2>1. CASE b = a
    <3>1. /\ attempts'[b] = arow /\ arow.run = r /\ r # None /\ arow.status # "absent"
          /\ Shaped(r, arow)
      BY <1>2, <2>1, NoneAssumption DEF SameResult, Shaped
    <3> QED BY <1>3, <3>1 DEF AttemptWhole, Shaped, Own, Exists
  <2>2. CASE b # a
    <3>1. attempts'[b] = attempts[b] /\ AttemptWhole(b)
      BY <1>2, <2>2 DEF RowInv
    <3>2. attempts[b].run # None => runs'[attempts[b].run].status # "absent"
      BY <1>3, <1>4, <1>6 DEF Exists
    <3> QED BY <3>1, <3>2 DEF AttemptWhole, Shaped, Own, Exists
  <2> QED BY <2>1, <2>2
<1>10. ASSUME NEW q \in Run \ {r}, Exists(q) PROVE RunWhole(q)'
  <2> DEFINE c == runs[q].current
  <2>1. c \in Attempt /\ RunWhole(q) /\ c # a /\ runs'[q] = runs[q]
    BY <1>1, <1>2, <1>5, <1>7, <1>10, NoneAssumption DEF RunWhole
  <2>2. attempts'[c] = attempts[c]
    BY <1>2, <2>1
  <2>3. Last(q)' = Last(q)
    BY <2>1, <2>2 DEF Last
  <2>4. \A b \in Attempt :
          /\ attempts'[b].run = q <=> attempts[b].run = q
          /\ attempts[b].run = q => attempts'[b] = attempts[b]
    BY <1>2, <1>7, NoneAssumption
  <2>5. \A b \in Attempt : attempts'[b].run = q =>
          /\ attempts'[b].number \in 1 .. Last(q)
          /\ \A d \in Attempt : attempts'[d].run = q /\ attempts'[b].number = attempts'[d].number
                                  => b = d
    BY <2>1, <2>4 DEF RunWhole
  <2>6. \A n \in 1 .. Last(q) : \E b \in Attempt : attempts'[b].run = q /\ attempts'[b].number = n
    BY <2>1, <2>4 DEF RunWhole
  <2>7. attempts'[runs'[q].current].run = q /\ SameResult(runs[q], attempts[runs[q].current])'
    BY <2>1, <2>2 DEF RunWhole, SameResult
  <2> QED BY <2>3, <2>5, <2>6, <2>7 DEF RunWhole
<1>11. RunWhole(r)'
  <2>1. /\ runs'[r].current = a /\ attempts'[a].run = r /\ Last(r)' = arow.number
        /\ SameResult(runs[r], attempts[runs[r].current])'
    BY <1>2 DEF SameResult, Last
  <2>2. CASE Exists(r) /\ a = runs[r].current /\ arow.number = attempts[a].number
    <3>1. RunWhole(r) /\ Last(r)' = Last(r) /\ attempts[a].run = r
      BY <1>5, <2>1, <2>2 DEF Last, RunWhole
    <3>2. \A b \in Attempt : /\ attempts'[b].run = attempts[b].run
                             /\ attempts'[b].number = attempts[b].number
      BY <1>2, <2>2, <3>1
    <3>3. \A b \in Attempt : attempts'[b].run = r =>
            /\ attempts'[b].number \in 1 .. Last(r)
            /\ \A d \in Attempt : attempts'[d].run = r /\ attempts'[b].number = attempts'[d].number
                                    => b = d
      BY <3>1, <3>2 DEF RunWhole
    <3>4. \A n \in 1 .. Last(r) : \E b \in Attempt : attempts'[b].run = r /\ attempts'[b].number = n
      BY <3>1, <3>2 DEF RunWhole
    <3> QED BY <2>1, <3>1, <3>3, <3>4 DEF RunWhole
  <2>3. CASE a \in Unused /\ arow.number = Count(r) + 1
    <3> DEFINE k == Count(r)
    <3>1. k \in Nat
      BY <1>1, <1>6 DEF Count, Last
    <3>2. \A b \in Attempt : attempts[b].run = r => b # a /\ attempts[b].number \in 1 .. k
      <4> SUFFICES ASSUME NEW b \in Attempt, attempts[b].run = r
                   PROVE  b # a /\ attempts[b].number \in 1 .. k
        OBVIOUS
      <4>1. Exists(r)
        BY <1>4, NoneAssumption
      <4> QED BY <1>5, <1>7, <2>3, <4>1, NoneAssumption DEF RunWhole, Count
    <3>3. \A b, d \in Attempt :
            attempts[b].run = r /\ attempts[d].run = r /\ attempts[b].number = attempts[d].number
              => b = d
      <4> SUFFICES ASSUME NEW b \in Attempt, NEW d \in Attempt,
                          attempts[b].run = r, attempts[d].run = r,
                          attempts[b].number = attempts[d].number
                   PROVE  b = d
        OBVIOUS
      <4>1. Exists(r)
        BY <1>4, NoneAssumption
      <4> QED BY <1>5, <4>1 DEF RunWhole
    <3>4. \A n \in 1 .. k : \E b \in Attempt : attempts[b].run = r /\ attempts[b].number = n
      <4>1. CASE Exists(r)
        BY <1>5, <4>1 DEF RunWhole, Count
      <4>2. CASE ~Exists(r)
        BY <4>2 DEF Count
      <4> QED BY <4>1, <4>2
    <3> HIDE DEF k
    <3>5. attempts'[a].number = k + 1 /\ Last(r)' = k + 1
      BY <1>2, <2>1, <2>3 DEF k
    <3>6. \A b \in Attempt : attempts'[b].run = r =>
            b = a \/ (attempts'[b] = attempts[b] /\ attempts[b].run = r)
      BY <1>2
    <3>7. \A b \in Attempt : attempts'[b].run = r => attempts'[b].number \in 1 .. k + 1
      BY <3>1, <3>2, <3>5, <3>6
    <3>8. \A b \in Attempt : attempts'[b].run = r => b = a \/ attempts'[b].number # k + 1
      BY <3>1, <3>2, <3>6
    <3>9. ASSUME NEW b \in Attempt, NEW d \in Attempt,
                 attempts'[b].run = r, attempts'[d].run = r,
                 attempts'[b].number = attempts'[d].number
          PROVE  b = d
      <4>1. CASE b = a \/ d = a
        BY <3>5, <3>8, <3>9, <4>1
      <4>2. CASE b # a /\ d # a
        BY <3>3, <3>6, <3>9, <4>2
      <4> QED BY <4>1, <4>2
    <3>10. \A n \in 1 .. k + 1 :
             \E b \in Attempt : attempts'[b].run = r /\ attempts'[b].number = n
      <4> SUFFICES ASSUME NEW n \in 1 .. k + 1
                   PROVE  \E b \in Attempt : attempts'[b].run = r /\ attempts'[b].number = n
        OBVIOUS
      <4>1. CASE n = k + 1
        BY <2>1, <3>5, <4>1
      <4>2. CASE n # k + 1
        <5>1. n \in 1 .. k
          BY <3>1, <4>2
        <5>2. PICK b \in Attempt : attempts[b].run = r /\ attempts[b].number = n
          BY <3>4, <5>1
        <5> QED BY <1>2, <3>2, <5>2
      <4> QED BY <4>1, <4>2
    <3> QED BY <2>1, <3>5, <3>7, <3>9, <3>10 DEF RunWhole
  <2> QED BY <2>2, <2>3
<1>12. \A m \in Migrator : ~Copying(m)'
  BY NobodyCopies
<1>13. (\A q \in Run : Exists(q) => RunWhole(q))'
  BY <1>3, <1>10, <1>11
<1> QED BY <1>8, <1>9, <1>12, <1>13 DEF RowInv

LEMMA ServiceShapes ==
  ASSUME MigInv, RowInv, NEW r \in Run, ServiceStep(r)
  PROVE  RowInv'
<1> DEFINE c == runs[r].current
<1>1. /\ version = 3 /\ Unlocked /\ UNCHANGED <<version, migrator>>
      /\ runs[r] \in OldRow(Status \cup {"absent"})
  BY DEF ServiceStep, Submit, ClaimCurrent, FinishCurrent, Retry, WriteBoth, MigInv, TypeOK
<1>2. Shaped(r, runs[r])
  BY DEF RowInv
<1>3. ASSUME Exists(r)
      PROVE  /\ c \in Attempt /\ attempts[c] \in CopiedRow
             /\ attempts[c].run = r /\ SameResult(runs[r], attempts[c])
  BY <1>1, <1>3 DEF RowInv, RunWhole, MigInv, TypeOK, AttemptsThere
<1>4. CASE Submit(r)
  <2>1. PICK a \in Unused : WriteBoth(r, NewRun(a), a, NewAttempt(r, 1))
    BY <1>4 DEF Submit
  <2>2. /\ a \in Attempt /\ runs' = [runs EXCEPT ![r] = NewRun(a)]
        /\ attempts' = [attempts EXCEPT ![a] = NewAttempt(r, 1)]
    BY <2>1 DEF WriteBoth, Unused
  <2>3. /\ NewRun(a).status # "absent" /\ NewRun(a).current = a
        /\ Shaped(r, NewRun(a)) /\ SameResult(NewRun(a), NewAttempt(r, 1))
        /\ NewAttempt(r, 1).run = r
    BY NoneAssumption DEF NewRun, NoRun, NewAttempt, NoAttempt, Shaped, Own, SameResult
  <2>4. NewAttempt(r, 1).number = Count(r) + 1
    BY <1>4 DEF Submit, Count, NewAttempt, NoAttempt
  <2> QED BY <1>1, <2>2, <2>3, <2>4, BothWritten
<1>5. CASE ClaimCurrent(r)
  <2>1. /\ Exists(r) /\ runs' = [runs EXCEPT ![r] = Claimed(runs[r], c)]
        /\ attempts' = [attempts EXCEPT ![c] = Claimed(attempts[c], c)]
    BY <1>5 DEF ClaimCurrent, Exists, WriteBoth
  <2>2. /\ Claimed(runs[r], c).status # "absent" /\ Claimed(runs[r], c).current = c
        /\ Shaped(r, Claimed(runs[r], c))
        /\ SameResult(Claimed(runs[r], c), Claimed(attempts[c], c))
        /\ Claimed(attempts[c], c).run = r
        /\ Claimed(attempts[c], c).number = attempts[c].number
    <3> HIDE DEF c
    <3>1. c \in Attempt /\ c # None /\ c \notin Run /\ runs[r].current = c
      BY <1>3, <2>1, NoneAssumption, MigrationAssumption DEF c
    <3>2. attempts[c] \in CopiedRow /\ attempts[c].run = r /\ SameResult(runs[r], attempts[c])
      BY <1>3, <2>1
    <3> QED BY <1>1, <1>2, <3>1, <3>2 DEF Claimed, OldRow, CopiedRow, Shaped, Own, SameResult
  <2>3. c \in Attempt
    BY <1>3, <2>1
  <2> QED BY <1>1, <2>1, <2>2, <2>3, BothWritten
<1>6. CASE FinishCurrent(r)
  <2>1. PICK o \in Outcome :
          WriteBoth(r, Finished(runs[r], c, o), c, Finished(attempts[c], c, o))
    BY <1>6 DEF FinishCurrent
  <2>2. /\ Exists(r) /\ runs' = [runs EXCEPT ![r] = Finished(runs[r], c, o)]
        /\ attempts' = [attempts EXCEPT ![c] = Finished(attempts[c], c, o)]
        /\ runs[r].status = "running"
    BY <1>6, <2>1 DEF FinishCurrent, Exists, WriteBoth
  <2>3. /\ Finished(runs[r], c, o).status # "absent" /\ Finished(runs[r], c, o).current = c
        /\ Shaped(r, Finished(runs[r], c, o))
        /\ SameResult(Finished(runs[r], c, o), Finished(attempts[c], c, o))
        /\ Finished(attempts[c], c, o).run = r
        /\ Finished(attempts[c], c, o).number = attempts[c].number
    <3> HIDE DEF c
    <3>1. c \in Attempt /\ c # None /\ c \notin Run /\ None \notin Run /\ runs[r].current = c
      BY <1>3, <2>2, NoneAssumption, MigrationAssumption DEF c
    <3>2. attempts[c] \in CopiedRow /\ attempts[c].run = r /\ SameResult(runs[r], attempts[c])
      BY <1>3, <2>2
    <3>3. o.status \in {"succeeded", "failed"}
      BY DEF Outcome, Succeeded, FailedWithSummary, FailedBare
    <3> QED BY <1>1, <1>2, <2>2, <3>1, <3>2, <3>3
            DEF Finished, OldRow, CopiedRow, Shaped, Own, SameResult
  <2>4. c \in Attempt
    BY <1>3, <2>2
  <2> QED BY <1>1, <2>2, <2>3, <2>4, BothWritten
<1>7. CASE Retry(r)
  <2>1. PICK a \in Unused :
          WriteBoth(r, RetriedRun(runs[r], runs[r], a), a, NewAttempt(r, attempts[c].number + 1))
    BY <1>7 DEF Retry
  <2> DEFINE row == RetriedRun(runs[r], runs[r], a)
             arow == NewAttempt(r, attempts[c].number + 1)
  <2>2. /\ a \in Attempt /\ Exists(r)
        /\ runs' = [runs EXCEPT ![r] = row] /\ attempts' = [attempts EXCEPT ![a] = arow]
    BY <1>7, <2>1 DEF Retry, Exists, WriteBoth, Unused
  <2>3. /\ row.status = "queued" /\ row.current = a /\ row.summary = None
        /\ row.error = None /\ row.started = None /\ row.finished = None
    BY DEF RetriedRun, Cleared
  <2>4. /\ arow.status = "queued" /\ arow.run = r /\ arow.summary = None
        /\ arow.error = None /\ arow.started = None /\ arow.finished = None
        /\ arow.number = Count(r) + 1
    BY <2>2 DEF NewAttempt, NoAttempt, Count, Last
  <2> HIDE DEF row, arow
  <2>5. Shaped(r, row) /\ SameResult(row, arow)
    BY <2>3, <2>4, NoneAssumption DEF Shaped, Own, SameResult
  <2> QED BY <1>1, <2>2, <2>3, <2>4, <2>5, BothWritten
<1> QED BY <1>4, <1>5, <1>6, <1>7 DEF ServiceStep

LEMMA InitRows == Init => RowInv
<1> SUFFICES ASSUME Init PROVE RowInv
  OBVIOUS
<1>1. /\ \A r \in Run : runs[r] = NoRun
      /\ \A a \in Attempt : attempts[a] = NoAttempt
      /\ version # 3
      /\ \A m \in Migrator : migrator[m] = NoMigration
  BY DEF Init
<1>2. \A r \in Run : Shaped(r, runs[r])
  <2> SUFFICES ASSUME NEW r \in Run PROVE Shaped(r, NoRun)
    BY <1>1
  <2> QED BY NoneAssumption DEF Shaped, Own, NoRun
<1>3. \A a \in Attempt : AttemptWhole(a)
  BY <1>1 DEF AttemptWhole, NoAttempt
<1>4. \A m \in Migrator : ~Copying(m)
  BY <1>1, NothingTypes DEF Copying
<1> QED BY <1>1, <1>2, <1>3, <1>4 DEF RowInv

LEMMA NextRows == MigInv /\ RowInv /\ [Next]_vars => RowInv'
<1> SUFFICES ASSUME MigInv, RowInv, [Next]_vars PROVE RowInv'
  OBVIOUS
<1>0. migrator \in [Migrator -> Transaction] /\ version \in 0 .. 3
  BY DEF MigInv, TypeOK
<1>1. ASSUME NEW m \in Migrator, NEW t \in Transaction, t.pc \in {"idle", "started"},
             migrator' = [migrator EXCEPT ![m] = t], UNCHANGED db
      PROVE  RowInv'
  BY <1>1, CopyQuiet
<1>2. ASSUME NEW m \in Migrator, Begin(m) PROVE RowInv'
  <2>1. PICK to \in {2, 3} : migrator' = [migrator EXCEPT ![m] =
          [NoMigration EXCEPT !.pc = "started", !.from = version, !.to = to]]
    BY <1>2 DEF Begin
  <2> DEFINE t == [NoMigration EXCEPT !.pc = "started", !.from = version, !.to = to]
  <2>2. t \in Transaction /\ t.pc = "started"
    <3>1. to \in 0 .. 3
      OBVIOUS
    <3> QED BY <1>0, <3>1, NothingTypes DEF Transaction
  <2>3. UNCHANGED db
    BY <1>2 DEF Begin
  <2> HIDE DEF t
  <2>4. migrator' = [migrator EXCEPT ![m] = t]
    BY <2>1 DEF t
  <2> QED BY <1>1, <2>2, <2>3, <2>4
<1>3. ASSUME NEW m \in Migrator, migrator' = [migrator EXCEPT ![m] = NoMigration], UNCHANGED db
      PROVE  RowInv'
  BY <1>1, <1>3, NothingTypes
<1>4. ASSUME NEW m \in Migrator, MigrationFails(m) PROVE RowInv'
  BY <1>3, <1>4 DEF MigrationFails
<1>5. ASSUME NEW m \in Migrator, FirstStatement(m) PROVE RowInv'
  <2>1. CASE version = migrator[m].from
    <3> DEFINE t == [migrator[m] EXCEPT !.pc = "open", !.at = version]
    <3>1. t \in Transaction /\ t.pc = "open" /\ t.at = version /\ t.from = version
      BY <1>0, <2>1 DEF Transaction
    <3>2. migrator' = [migrator EXCEPT ![m] = t] /\ UNCHANGED db
      BY <1>5, <2>1 DEF FirstStatement
    <3> HIDE DEF t
    <3>3. t.at < 3 \/ t.from = 3
      BY <1>0, <3>1
    <3> QED BY <3>1, <3>2, <3>3, CopyQuiet
  <2>2. CASE version # migrator[m].from
    BY <1>3, <1>5, <2>2 DEF FirstStatement
  <2> QED BY <2>1, <2>2
<1>6. ASSUME NEW m \in Migrator, NEW at \in 1 .. 2, Reach(m, at), migrator[m].pc = "open"
      PROVE  RowInv'
  <2> DEFINE t == [migrator[m] EXCEPT !.at = at]
  <2>0. at \in 0 .. 3 /\ at < 3
    OBVIOUS
  <2>1. t \in Transaction /\ t.pc = "open" /\ t.at = at /\ at < 3
    BY <1>0, <1>6, <2>0 DEF Transaction
  <2>2. migrator' = [migrator EXCEPT ![m] = t] /\ UNCHANGED db
    BY <1>6 DEF Reach
  <2> HIDE DEF t
  <2> QED BY <2>1, <2>2, CopyQuiet
<1>7. ASSUME NEW m \in Migrator, MigrationStep(m) PROVE RowInv'
  <2>1. CASE CreateProjectsAndRuns(m) \/ AddRunResultFields(m) \/ DropRunAttempts(m)
    BY <1>6, <2>1 DEF CreateProjectsAndRuns, AddRunResultFields, DropRunAttempts
  <2> QED BY <1>5, <1>7, <2>1, AddRunAttemptsCopies, BackfillCopies, EndBackfillCopies,
             CommitCopies DEF MigrationStep
<1>8. ASSUME NEW r \in Run, OldServiceStep(r) \/ ServiceStep(r) PROVE RowInv'
  BY <1>8, OldServiceShapes, ServiceShapes
<1>9. CASE UNCHANGED vars
  BY <1>9 DEF vars, RowInv, Shaped, Own, AttemptWhole, RunWhole, SameResult, Last, Exists,
     Copying, CopySound, FirstAttempt
<1> QED BY <1>2, <1>4, <1>7, <1>8, <1>9 DEF Next

(***************************************************************************)
(* What this release finds                                                 *)
(***************************************************************************)
\* Read as a value of the first attempt, a value of the previous release is
\* one of an attempt that is there.
LEMMA TranslationTypes ==
  \A c \in OldColumn : AsAttempt(c) \in Column
<1> SUFFICES ASSUME NEW c \in OldColumn PROVE AsAttempt(c) \in Column
  OBVIOUS
<1>1. CASE c \notin Run
  BY <1>1 DEF AsAttempt, OldColumn
<1>2. CASE c \in Run /\ FirstOf(c) = {}
  BY <1>2 DEF AsAttempt, Column
<1>3. CASE c \in Run /\ FirstOf(c) # {}
  <2>1. (CHOOSE a \in FirstOf(c) : TRUE) \in FirstOf(c)
    BY <1>3
  <2> QED BY <1>3, <2>1 DEF AsAttempt, FirstOf, Column
<1> QED BY <1>1, <1>2, <1>3

LEMMA TranslationKeeps ==
  ASSUME MigInv, RowInv, version = 3, NEW r \in Run, Exists(r),
         NEW c \in OldColumn, Own(r, c), c # None
  PROVE  AsAttempt(c) # None
<1>1. CASE c \notin Run
  BY <1>1 DEF AsAttempt
<1>2. CASE c \in Run
  <2>1. c = r /\ RunWhole(r) /\ runs[r].current \in Attempt
    BY <1>2 DEF Own, RowInv, MigInv, AttemptsThere
  <2>2. Last(r) \in Nat
    BY <2>1 DEF Last, MigInv, TypeOK, CopiedRow
  <2>3. 1 \in 1 .. Last(r)
    BY <2>1, <2>2 DEF RunWhole, Last
  <2>4. FirstOf(r) # {}
    BY <2>1, <2>3 DEF RunWhole, FirstOf
  <2>5. (CHOOSE a \in FirstOf(r) : TRUE) \in Attempt
    BY <2>4 DEF FirstOf
  <2> QED BY <1>2, <2>1, <2>4, <2>5, NoneAssumption DEF AsAttempt
<1> QED BY <1>1, <1>2

LEMMA TranslatedRow ==
  ASSUME NEW S, NEW row \in OldRow(S)
  PROVE  /\ Translated(row).status = row.status
         /\ Translated(row).current = row.current
         /\ Translated(row).summary = AsAttempt(row.summary)
         /\ Translated(row).error = AsAttempt(row.error)
         /\ Translated(row).started = AsAttempt(row.started)
         /\ Translated(row).finished = AsAttempt(row.finished)
         /\ Translated(row) \in [status : S, current : Column, summary : Column,
                                 error : Column, started : Column, finished : Column]
BY TranslationTypes DEF Translated, OldRow

LEMMA TranslatedAttempt ==
  ASSUME NEW row \in CopiedRow
  PROVE  /\ Translated(row).status = row.status
         /\ Translated(row).run = row.run
         /\ Translated(row).number = row.number
         /\ Translated(row).summary = AsAttempt(row.summary)
         /\ Translated(row).error = AsAttempt(row.error)
         /\ Translated(row).started = AsAttempt(row.started)
         /\ Translated(row).finished = AsAttempt(row.finished)
         /\ Translated(row) \in AttemptRow
BY TranslationTypes DEF Translated, CopiedRow, AttemptRow

\* The rows are of the types of this release.
LEMMA FoundTypes == MigInv => System!TypeOK
<1> SUFFICES ASSUME MigInv PROVE System!TypeOK
  OBVIOUS
<1>1. runs \in [Run -> OldRow(Status \cup {"absent"})] /\ attempts \in [Attempt -> CopiedRow]
  BY DEF MigInv, TypeOK
<1>2. [r \in Run |-> Translated(runs[r])] \in [Run -> RunRow]
  BY <1>1, TranslatedRow DEF RunRow
<1>3. [a \in Attempt |-> Translated(attempts[a])] \in [Attempt -> AttemptRow]
  BY <1>1, TranslatedAttempt
<1>4. System!RunRow = RunRow /\ System!AttemptRow = AttemptRow
  BY DEF System!RunRow, System!AttemptRow, System!Status, System!Terminal, System!Column,
         RunRow, AttemptRow, Status, Terminal, Column
<1>5. /\ [h \in {} |-> None] \in [{} -> System!Request]
      /\ [w \in {} |-> None] \in [{} -> System!Job]
  OBVIOUS
<1>6. [a \in Attempt |-> 0] \in [Attempt -> Nat] /\ 0 \in 0 .. 0
  OBVIOUS
<1> QED BY <1>2, <1>3, <1>4, <1>5, <1>6 DEF System!TypeOK

\* Each attempt has what an attempt of its status has.
LEMMA FoundAttempts == MigInv /\ RowInv /\ version = 3 => System!AttemptShape
<1> SUFFICES ASSUME MigInv, RowInv, version = 3, NEW a \in Attempt
             PROVE  LET row == Translated(attempts[a])
                    IN /\ row.status = "absent" <=> row.run = None
                       /\ row.run # None => Translated(runs[row.run]).status # "absent" /\ row.run \in Run
                       /\ row.status = "running" => row.started # None
                       /\ row.status = "failed" =>
                            row.started # None /\ row.error # None /\ row.finished # None
  BY DEF System!AttemptShape, System!Exists
<1>1. /\ runs \in [Run -> OldRow(Status \cup {"absent"})] /\ attempts[a] \in CopiedRow
      /\ AttemptWhole(a)
  BY DEF MigInv, TypeOK, RowInv
<1> DEFINE row == attempts[a]
<1>2. CASE row.run = None
  BY <1>1, <1>2, TranslatedAttempt DEF AttemptWhole
<1>3. CASE row.run # None
  <2>1. row.run \in Run /\ Exists(row.run) /\ Shaped(row.run, row) /\ row.status # "absent"
    BY <1>1, <1>3 DEF AttemptWhole, CopiedRow
  <2>2. Translated(runs[row.run]).status # "absent"
    BY <1>1, <2>1, TranslatedRow DEF Exists
  <2>3. row.started \in OldColumn /\ row.error \in OldColumn /\ row.finished \in OldColumn
    BY <1>1 DEF CopiedRow
  <2>4. /\ row.status = "running" => AsAttempt(row.started) # None
        /\ row.status = "failed" => /\ AsAttempt(row.started) # None
                                    /\ AsAttempt(row.error) # None
                                    /\ AsAttempt(row.finished) # None
    BY <2>1, <2>3, TranslationKeeps DEF Shaped
  <2> QED BY <1>1, <1>3, <2>1, <2>2, <2>4, TranslatedAttempt
<1> QED BY <1>2, <1>3

LEMMA FoundMirror ==
  MigInv /\ RowInv /\ version = 3 => System!RunMirrorsCurrent /\ System!SnapshotIsCurrents
<1> SUFFICES ASSUME MigInv, RowInv, version = 3, NEW r \in Run, Exists(r)
             PROVE  /\ Translated(runs[r]).current \in Attempt
                    /\ LET arow == Translated(attempts[Translated(runs[r]).current])
                       IN /\ arow.run = r
                          /\ Translated(runs[r]).status = arow.status
                          /\ Translated(runs[r]).summary = arow.summary
                          /\ Translated(runs[r]).error = arow.error
                          /\ Translated(runs[r]).started = arow.started
                          /\ Translated(runs[r]).finished = arow.finished
  <2>1. \A r \in Run : runs[r] \in OldRow(Status \cup {"absent"}) \/ ~MigInv
    BY DEF MigInv, TypeOK
  <2>2. \A r \in Run : MigInv => (Translated(runs[r]).status # "absent" <=> Exists(r))
    BY <2>1, TranslatedRow DEF Exists
  <2> QED BY <2>2 DEF System!RunMirrorsCurrent, System!SnapshotIsCurrents, System!Exists,
                      System!CurrentOf, System!AttemptsOf
<1> DEFINE c == runs[r].current
<1>1. /\ runs[r] \in OldRow(Status \cup {"absent"}) /\ c \in Attempt /\ attempts[c] \in CopiedRow
      /\ attempts[c].run = r /\ SameResult(runs[r], attempts[c])
  BY DEF MigInv, TypeOK, AttemptsThere, RowInv, RunWhole
<1> QED BY <1>1, TranslatedRow, TranslatedAttempt DEF SameResult

LEMMA FoundNumbers == MigInv /\ RowInv /\ version = 3 => System!Numbered
<1> SUFFICES ASSUME MigInv, RowInv, version = 3 PROVE System!Numbered
  OBVIOUS
<1>1. /\ runs \in [Run -> OldRow(Status \cup {"absent"})] /\ attempts \in [Attempt -> CopiedRow]
      /\ \A r \in Run : Exists(r) => runs[r].current \in Attempt /\ RunWhole(r)
  BY DEF MigInv, TypeOK, AttemptsThere, RowInv
<1>2. /\ \A r \in Run : /\ Translated(runs[r]).status = runs[r].status
                        /\ Translated(runs[r]).current = runs[r].current
      /\ \A a \in Attempt : /\ Translated(attempts[a]).run = attempts[a].run
                            /\ Translated(attempts[a]).number = attempts[a].number
  BY <1>1, TranslatedRow, TranslatedAttempt
<1>3. /\ \A r \in Run : System!Exists(r) <=> Exists(r)
      /\ \A r \in Run : System!AttemptsOf(r) = {a \in Attempt : attempts[a].run = r}
      /\ \A r \in Run : Exists(r) => System!CurrentOf(r).number = Last(r) /\ Last(r) \in Nat
      /\ \A a \in Attempt : attempts[a].number \in Nat
  BY <1>1, <1>2 DEF System!Exists, System!AttemptsOf, System!CurrentOf, Exists, Last, CopiedRow
<1> SUFFICES ASSUME NEW r \in Run, Exists(r)
             PROVE  /\ \A a \in System!AttemptsOf(r) :
                         attempts[a].number >= 1 /\ attempts[a].number <= Last(r)
                    /\ \A a, b \in System!AttemptsOf(r) :
                         attempts[a].number = attempts[b].number => a = b
                    /\ \A n \in 1 .. Last(r) :
                         \E a \in System!AttemptsOf(r) : attempts[a].number = n
  BY <1>2, <1>3 DEF System!Numbered
<1> QED BY <1>1, <1>3 DEF RunWhole

(***************************************************************************)
(* Theorems about the rows                                                 *)
(***************************************************************************)
\* The rows are whole at any time, and so are the copies a migration makes.
THEOREM RowsWhole == Spec => [](MigInv /\ RowInv)
<1>1. Init => MigInv /\ RowInv
  BY InitMig, InitRows
<1>2. (MigInv /\ RowInv) /\ [Next]_vars => (MigInv /\ RowInv)'
  BY NextMig, NextRows
<1> QED BY <1>1, <1>2, PTL DEF Spec

\* Whenever the schema is that of this release, its services can start from the
\* rows: with RunSystemProofs!ColdStartSafe the invariant of the run system
\* survives any sequence of upgrades, downgrades, races and failures.
THEOREM StartsSoundCorrect == Spec => []StartsSound
<1>1. MigInv /\ RowInv => StartsSound
  <2> SUFFICES ASSUME MigInv, RowInv, version = 3 PROVE System!ColdStart
    BY DEF StartsSound
  <2>1. System!RowsSound
    BY FoundAttempts, FoundMirror, FoundNumbers DEF System!RowsSound
  <2>2. \A a \in Attempt : Translated(attempts[a]).status = attempts[a].status
    BY TranslatedAttempt DEF MigInv, TypeOK
  <2> QED BY <2>1, <2>2, FoundTypes DEF System!ColdStart
<1> QED BY <1>1, RowsWhole, PTL

\* The first attempt of a run of the previous release has the whole snapshot.
THEOREM SnapshotCopiedCorrect == Spec => []SnapshotCopied
<1>1. MigInv /\ RowInv => SnapshotCopied
  BY FoundMirror DEF SnapshotCopied
<1> QED BY <1>1, RowsWhole, PTL
=============================================================================
