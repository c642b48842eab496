----------------------------- MODULE Migrations -----------------------------
(***************************************************************************)
(* The schema history of the database: alembic upgrades and a downgrade    *)
(* run by processes that may race and may be killed, beside services that  *)
(* write while the schema is the one they know.  Revision 0003 gives every *)
(* run of the previous release its first attempt.                          *)
(*                                                                         *)
(* PostgreSQL runs DDL in the transaction env.py opens.  The first         *)
(* statement of a migration locks what it alters until the end of that     *)
(* transaction: other migrations and all writers of runs wait for it.      *)
(*                                                                         *)
(* A column written by the previous release holds the run itself: there    *)
(* were no attempts.                                                       *)
(***************************************************************************)
EXTENDS RunRows

CONSTANTS Migrator,     \* alembic processes
          MaxFailures   \* bound: migrations that are killed or lose the database

ASSUME MigrationAssumption == Run \cap Attempt = {} /\ MaxFailures \in Nat

VARIABLES version,    \* alembic_version, committed: 0 stands for an empty database
          runs,       \* the table runs, committed
          attempts,   \* the table run_attempts, committed
          migrator,   \* one transaction per alembic process
          failures

vars == <<version, runs, attempts, migrator, failures>>
db   == <<version, runs, attempts>>

OldColumn == Run \cup Column

OldRow(S) == [status  : S,               current : Column,
              summary : OldColumn,       error    : OldColumn,
              started : OldColumn,       finished : OldColumn]

CopiedRow == [status  : Status \cup {"absent"}, run : Run \cup {None}, number : Nat,
              summary : OldColumn,       error    : OldColumn,
              started : OldColumn,       finished : OldColumn]

\* from: the version read at the start; at: the version reached inside the
\* transaction; todo: the selected runs still to be given an attempt; news and
\* current: what was inserted and updated and is not committed.
Transaction == [pc      : {"idle", "started", "open", "selected"},
                from    : 0 .. 3, to : 0 .. 3, at : 0 .. 3,
                todo    : [Run -> OldRow(Status \cup {"absent"})],
                news    : [Attempt -> CopiedRow],
                current : [Run -> Column]]

NoMigration == [pc |-> "idle", from |-> 0, to |-> 0, at |-> 0,
                todo |-> [r \in Run |-> NoRun],
                news |-> [a \in Attempt |-> NoAttempt],
                current |-> [r \in Run |-> None]]

TypeOK ==
  /\ version \in 0 .. 3
  /\ runs \in [Run -> OldRow(Status \cup {"absent"})]
  /\ attempts \in [Attempt -> CopiedRow]
  /\ migrator \in [Migrator -> Transaction]
  /\ failures \in 0 .. MaxFailures

Init ==
  /\ version = 0
  /\ runs = [r \in Run |-> NoRun]
  /\ attempts = [a \in Attempt |-> NoAttempt]
  /\ migrator = [m \in Migrator |-> NoMigration]
  /\ failures = 0

Exists(r) == runs[r].status # "absent"
Unused    == {a \in Attempt : attempts[a].status = "absent"}

-----------------------------------------------------------------------------
(***************************************************************************)
(* Migrations                                                              *)
(***************************************************************************)
\* Broken: the tables are not locked (writers go on during a migration).
UnlockedAlways == version \in 0 .. 3

Unlocked == \A m \in Migrator : migrator[m].pc \notin {"open", "selected"}

\* alembic upgrade to the head of the previous release or of this one, or
\* downgrade from 0003: the version is read first.
Begin(m) ==
  /\ migrator[m].pc = "idle"
  /\ \E to \in {2, 3} :
       /\ version < to \/ (version = 3 /\ to = 2)
       /\ migrator' = [migrator EXCEPT ![m] =
            [NoMigration EXCEPT !.pc = "started", !.from = version, !.to = to]]
  /\ UNCHANGED <<db, failures>>

\* Broken: the first statement finds its objects in place and tries again.
FirstStatementRetries(m) ==
  /\ migrator[m].pc = "started"
  /\ Unlocked
  /\ version = migrator[m].from
  /\ migrator' = [migrator EXCEPT ![m].pc = "open", ![m].at = version]
  /\ UNCHANGED <<db, failures>>

\* The first statement waits for the locks.  When another process has migrated
\* since the version was read, what it creates exists or what it drops does
\* not: it fails and the process ends.
FirstStatement(m) ==
  /\ migrator[m].pc = "started"
  /\ Unlocked
  /\ migrator' = [migrator EXCEPT ![m] =
       IF version = migrator[m].from
         THEN [@ EXCEPT !.pc = "open", !.at = version]
         ELSE NoMigration]
  /\ UNCHANGED <<db, failures>>

Reach(m, at) ==
  /\ migrator' = [migrator EXCEPT ![m].at = at]
  /\ UNCHANGED <<db, failures>>

\* 0001: create the tables.
CreateProjectsAndRuns(m) ==
  migrator[m].pc = "open" /\ migrator[m].at = 0 /\ Reach(m, 1)

\* 0002: nullable columns, NULL in every row.
AddRunResultFields(m) ==
  migrator[m].pc = "open" /\ migrator[m].at = 1 /\ Reach(m, 2)

\* 0003: table, column, keys; then the SELECT of all runs.
AddRunAttempts(m) ==
  /\ migrator[m].pc = "open"
  /\ migrator[m].at = 2
  /\ migrator[m].to = 3
  /\ migrator' = [migrator EXCEPT ![m].pc = "selected", ![m].todo = runs]
  /\ UNCHANGED <<db, failures>>

\* Broken: the status is copied in a spelling of its own; the summary is not
\* copied.
CopyOwnSpelling(r, row) ==
  [status |-> IF row.status = "succeeded" THEN "success" ELSE row.status,
   run |-> r, number |-> 1, summary |-> row.summary,
   error |-> row.error, started |-> row.started, finished |-> row.finished]

CopyWithoutSummary(r, row) ==
  [status |-> row.status, run |-> r, number |-> 1, summary |-> None,
   error |-> row.error, started |-> row.started, finished |-> row.finished]

\* The backfill of one run.  _normalize_run_status strips the old status and puts
\* it in capitals: of what the old release's ORM wrote, the names of the statuses,
\* it changes nothing.  The status of the run itself stays as it is spelled.
FirstAttempt(r, row) ==
  [status |-> row.status, run |-> r, number |-> 1, summary |-> row.summary,
   error |-> row.error, started |-> row.started, finished |-> row.finished]

\* 0003: one INSERT and one UPDATE for each selected run.
Backfill(m, r) ==
  /\ migrator[m].pc = "selected"
  /\ migrator[m].todo[r].status # "absent"
  /\ \E a \in Unused :
       /\ migrator[m].news[a].status = "absent"
       /\ migrator' = [migrator EXCEPT
            ![m].news[a]    = FirstAttempt(r, migrator[m].todo[r]),
            ![m].current[r] = a,
            ![m].todo[r]    = NoRun]
  /\ UNCHANGED <<db, failures>>

EndBackfill(m) ==
  /\ migrator[m].pc = "selected"
  /\ \A r \in Run : migrator[m].todo[r].status = "absent"
  /\ migrator' = [migrator EXCEPT ![m].pc = "open", ![m].at = 3]
  /\ UNCHANGED <<db, failures>>

\* Downgrade of 0003: column and table are dropped.
DropRunAttempts(m) ==
  /\ migrator[m].pc = "open"
  /\ migrator[m].at = 3
  /\ migrator[m].to = 2
  /\ Reach(m, 2)

\* What the transaction leaves when it commits.
RowsAfter(m) ==
  LET t == migrator[m]
  IN IF t.from = 3
       THEN /\ attempts' = [a \in Attempt |-> NoAttempt]
            /\ runs' = [r \in Run |-> [runs[r] EXCEPT !.current = None]]
       ELSE /\ attempts' = [a \in Attempt |->
                 IF t.news[a].status = "absent" THEN attempts[a] ELSE t.news[a]]
            /\ runs' = [r \in Run |->
                 IF t.current[r] = None THEN runs[r]
                                        ELSE [runs[r] EXCEPT !.current = t.current[r]]]

CommitMigration(m) ==
  /\ migrator[m].pc = "open"
  /\ migrator[m].at = migrator[m].to
  /\ version' = migrator[m].to
  /\ RowsAfter(m)
  /\ migrator' = [migrator EXCEPT ![m] = NoMigration]
  /\ UNCHANGED failures

\* Broken: every statement of an upgrade commits by itself, so a failure keeps
\* what was done.
MigrationFailsHalfway(m) ==
  /\ migrator[m].pc # "idle"
  /\ migrator[m].from < 3
  /\ failures < MaxFailures
  /\ failures' = failures + 1
  /\ RowsAfter(m)
  /\ migrator' = [migrator EXCEPT ![m] = NoMigration]
  /\ UNCHANGED version

\* The process dies, loses the database, or meets a status it does not know:
\* everything since the first statement is rolled back.
MigrationFails(m) ==
  /\ migrator[m].pc # "idle"
  /\ failures < MaxFailures
  /\ failures' = failures + 1
  /\ migrator' = [migrator EXCEPT ![m] = NoMigration]
  /\ UNCHANGED db

MigrationStep(m) ==
  \/ FirstStatement(m) \/ CreateProjectsAndRuns(m) \/ AddRunResultFields(m)
  \/ AddRunAttempts(m) \/ (\E r \in Run : Backfill(m, r)) \/ EndBackfill(m)
  \/ DropRunAttempts(m) \/ CommitMigration(m)

-----------------------------------------------------------------------------
(***************************************************************************)
(* The services, one row at a time.  Each release writes only while the    *)
(* schema is its own; a write that would wait for a migration to another   *)
(* schema ends with its process, which is replaced.                        *)
(***************************************************************************)
WriteRunRow(r, row) ==
  /\ runs' = [runs EXCEPT ![r] = row]
  /\ UNCHANGED <<version, attempts, migrator, failures>>

\* The previous release: submit, claim, terminal write on the run alone.
OldServiceStep(r) ==
  /\ version = 2
  /\ Unlocked
  /\ \/ /\ ~Exists(r)
        /\ WriteRunRow(r, [NoRun EXCEPT !.status = "queued"])
     \/ /\ runs[r].status = "queued"
        /\ WriteRunRow(r, Claimed(runs[r], r))
     \/ /\ runs[r].status = "running"
        /\ \E o \in Outcome : WriteRunRow(r, Finished(runs[r], r, o))

WriteBoth(r, row, a, arow) ==
  /\ runs' = [runs EXCEPT ![r] = row]
  /\ attempts' = [attempts EXCEPT ![a] = arow]
  /\ UNCHANGED <<version, migrator, failures>>

\* This release: the transactions of RunSystem, one client at a time.
Submit(r) ==
  /\ ~Exists(r)
  /\ \E a \in Unused : WriteBoth(r, NewRun(a), a, NewAttempt(r, 1))

ClaimCurrent(r) ==
  LET a == runs[r].current
  IN /\ runs[r].status = "queued"
     /\ attempts[a].status = "queued"
     /\ WriteBoth(r, Claimed(runs[r], a), a, Claimed(attempts[a], a))

FinishCurrent(r) ==
  LET a == runs[r].current
  IN /\ runs[r].status = "running"
     /\ attempts[a].status = "running"
     /\ \E o \in Outcome : WriteBoth(r, Finished(runs[r], a, o), a, Finished(attempts[a], a, o))

Retry(r) ==
  /\ runs[r].status = "failed"
  /\ \E a \in Unused :
       WriteBoth(r, RetriedRun(runs[r], runs[r], a), a,
                 NewAttempt(r, attempts[runs[r].current].number + 1))

ServiceStep(r) ==
  /\ version = 3
  /\ Unlocked
  /\ Submit(r) \/ ClaimCurrent(r) \/ FinishCurrent(r) \/ Retry(r)

Next ==
  \/ \E m \in Migrator : Begin(m) \/ MigrationStep(m) \/ MigrationFails(m)
  \/ \E r \in Run : OldServiceStep(r) \/ ServiceStep(r)

Spec == Init /\ [][Next]_vars

\* A migration that was begun is scheduled and the database answers it; locks
\* are granted in the order they were asked for, so whoever waits for one that
\* is free again and again gets it.
FairSpec == Spec /\ \A m \in Migrator :
                      WF_vars(MigrationStep(m)) /\ SF_vars(FirstStatement(m))

-----------------------------------------------------------------------------
(***************************************************************************)
(* The rows this release finds when it starts.  A value the previous       *)
(* release wrote counts as one of the first attempt of its run.            *)
(***************************************************************************)
FirstOf(r) == {a \in Attempt : attempts[a].run = r /\ attempts[a].number = 1}

AsAttempt(c) ==
  IF c \notin Run THEN c
  ELSE IF FirstOf(c) = {} THEN None ELSE CHOOSE a \in FirstOf(c) : TRUE

Translated(row) ==
  [row EXCEPT !.summary = AsAttempt(@), !.error = AsAttempt(@),
              !.started = AsAttempt(@), !.finished = AsAttempt(@)]

System == INSTANCE RunSystemInvariant WITH
  runs <- [r \in Run |-> Translated(runs[r])],
  attempts <- [a \in Attempt |-> Translated(attempts[a])],
  Handler <- {}, Worker <- {}, MaxRedeliveries <- 0,
  queue <- <<>>, stored <- {}, redeliveries <- 0,
  handler <- [h \in {} |-> None], worker <- [w \in {} |-> None],
  executed <- [a \in Attempt |-> 0],
  lost <- {a \in Attempt : attempts[a].status \in {"queued", "running"}}

\* Whenever the schema is that of this release, its rows are rows the services
\* can start from, whatever the previous release wrote up to the upgrade,
\* however many migrations raced or failed, and also after a downgrade: each
\* run has a current attempt it mirrors, numbered without gaps.
StartsSound == version = 3 => System!ColdStart

\* The backfill copies the whole snapshot, so a reader who goes from the run to
\* its current attempt finds the same result there.
SnapshotCopied == version = 3 => System!SnapshotIsCurrents

\* A migration that did not commit has left nothing behind, and a downgrade
\* leaves no run that refers to an attempt.
AllOrNothing ==
  version < 3 =>
    /\ Unused = Attempt
    /\ \A r \in Run : runs[r].current = None

\* A migration never waits for ever, not even when another process has done
\* its work before it.
MigrationsEnd == \A m \in Migrator : migrator[m].pc # "idle" ~> migrator[m].pc = "idle"
=============================================================================
