# A verification development of evalynx

evalynx is a control plane for computational runs: an API takes runs, a queue
carries attempts, workers execute them through runner adapters and write the
results back. This directory holds TLA+ modules that model it, TLC
configurations that check them and TLAPS proofs about them.

## The system

| Component | State | Operations | Interaction |
|---|---|---|---|
| API routes, dependencies | one database session per request | create, retry, get, list | calls the run service; handlers run concurrently in a thread pool |
| Run service (`services/runs.py`) | objects loaded by the session | create_run, get_run, retry_run | commits, then calls the queue: two writes, no common transaction |
| Repositories | - | INSERTs, the three SELECTs behind `get` | READ COMMITTED: each statement sees the commits before it |
| Database (`db/models.py`) | rows of runs and run_attempts | - | unique (run_id, attempt_number); the row of a run repeats the result of its current attempt |
| Queue (`workers/queue.py`, RQ) | a Redis list of attempt ids, stored jobs | enqueue, pop, requeue | a job popped by a horse that dies is in no list |
| Worker (`workers/run_worker.py`) | one job | claim, execute, terminal write | guarded UPDATEs: the attempt by status, the run by current_attempt_id |
| Runners (`runners/`) | - | normalize_config, execute | solo_wargame runs a command and reads a JSON object from its stdout |
| Background queue, lifespan (`main.py`) | thread pool, state of the process | submit, shutdown, dispose | in-process alternative to RQ; jobs share the process with requests |
| Migrations (`alembic/`) | schema version | upgrade, downgrade | 0003 gives old runs their first attempt; processes may race |
| Projects | rows of projects | create, list | a run refers to one |
| Settings, health, list routes, response schemas | - | - | wiring and reads |

What is hard: retries of one run by several clients at once; objects loaded
before and used after other commits; the enqueue that follows the commit; jobs
that arrive twice, late, or never; workers that die with an attempt in hand;
results of attempts that are no longer current; transactions whose statements
interleave; a queue that lives in a process that is shut down or killed;
migrations that race, fail half-way and meet rows of the previous release;
mission files and links that change after they were checked; error paths of the
execution.

What makes each correct:

- run service and database: the run always mirrors its current attempt;
  attempts are numbered without gaps; a retry happens only from failed;
- queue and worker: one execution per attempt whatever the deliveries; no run
  stuck unless a delivery failed; finished attempts are immutable;
- runners: every execution ends in a result that says succeeded with a summary
  or failed with an error, decided by the payload alone;
- transactions: row locks make the statements of a claim, a terminal write and a
  retry as good as one step, and no transaction waits for ever;
- lifespan: a shutdown ends and leaves nothing that was submitted undone;
- migrations: all or nothing, and the rows afterwards satisfy what the services
  assume;
- submission: what is stored can be executed, names the file that was meant, and
  has the hash of exactly the runs that ask for the same batch.

## Modules

| Module | Models | Extends or instantiates |
|---|---|---|
| `RunRows` | rows of both tables, what each INSERT and UPDATE does to a row, the outcomes of a runner | - |
| `AttemptLog` | abstract: what the run system promises, as a log of attempts per run | - |
| `RunSystem` | request handlers, database, Redis queue, workers, faults | `RunRows`; `AttemptLog` with a refinement mapping |
| `RunSystemInvariant` | the inductive invariant; starts over rows that exist already | `RunSystem` |
| `RowLocks` | claim, terminal write and retry statement by statement under row locks | `RunSystem`, which it implements |
| `BackgroundSystem` | the same system with the thread pool queue, in a process that is shut down, killed and restarted | `RunSystemInvariant` |
| `Migrations` | alembic processes beside the services of two releases | `RunRows`; `RunSystemInvariant` for the rows afterwards |
| `SoloWargameConfig` | `normalize_config` of solo_wargame as operators over a file tree | - |
| `RunSubmission` | projects and POST /runs up to its commit, over a file tree that changes | `SoloWargameConfig` |
| `MCRunSystem`, `MCRowLocks`, `MCBackgroundSystem`, `MCMigrations`, `MCRunSubmission` | instances for TLC | the module of that name (`MCRunSystem`: `RunSystemInvariant`) |
| `RunSystemProofs`, `RowLocksProofs`, `DeliveryProofs`, `LogProofs`, `BackgroundProofs`, `RunnerExecutionProofs`, `MigrationsProofs`, `RunSubmissionProofs` | theorems | `TLAPS` and the modules they are about |
| `RunnerExecution` | one execution: lookup, stub, solo_wargame, command, validation, exceptions, write | instantiates `RunRows` for its outcomes |

### Rows

A run row has a status, its current attempt and four nullable columns; an
attempt row has its run, number, status and the same four. `summary` stands for
summary, result_metrics and result_execution, `error` for failure_message and
result_error, `finished` for finished_at, result_artifacts and result_warnings:
columns the code always writes together. Where they are not NULL together (a
failed payload has a summary and no metrics, the stub neither metrics nor
execution), `summary` stands for the column summary, so a stale retry of the
model clears all of a result or nothing, where the code may clear a part. The
value of a column is the attempt that produced it, which is all the properties
tell apart. `RetriedRun` takes the row *and* the loaded object because SQLAlchemy
flushes only changed columns: a column that was loaded as NULL and is assigned
None is not in the UPDATE (`Cleared`).

### Steps

| Action of `RunSystem` | Code |
|---|---|
| `CreateRun` | create_run up to its commit (validation failures change nothing) |
| `ReadRun`, `ReadCurrent`, `ReadAttempts` | the three statements of `RunRepository.get`; the order of the two `selectinload`s is left open, and a row the session has loaded is not overwritten by a later statement |
| `RetryCommit` | retry_run after its guards on the loaded objects, up to the commit; blocked when the number is taken |
| `EndRequest` | an answer to GET, a 409, the IntegrityError of a taken number, a failure before commit |
| `Enqueue`, `EnqueueFails` | the call of the queue after the commit, or its failure, or the death of the process |
| `TakeJob` | RQ pops a job and starts a horse |
| `Claim`, `DeclineJob` | `_claim_attempt`, committed or rolled back |
| `StartRunner`, `RunnerMissing`, `RunnerReturns` | the body of process_attempt |
| `Persist` | `_persist_terminal_result` |
| `HorseDies` | the process dies, is killed, or an exception leaves process_attempt: uncommitted work is gone and RQ does not put the job back |
| `Redeliver` | a stored job is put on the list again |
| `QueueLost` | Redis restarts; docker-compose gives it no volume |

A transaction is one action, taken at its commit. That this is fair to the code
is not assumed but shown: `RowLocks` takes claim, terminal write and retry apart.

Variables that no code has: `lost` (attempts with a delivery that failed),
`executed` (calls of execute) are history for the properties; `redeliveries`
bounds the model.

### Row locks

`tx[p]` is the open transaction of a handler or worker: the rows it has locked
and what it has written. `runs` and `attempts` are the committed rows. An UPDATE
looks for committed rows its WHERE clause matches; a row that matches and is
locked has to be waited for (`AttemptFree`, `RunFree`), and since the action is
taken when the lock is free, its WHERE clause is evaluated on the row as it is
then, which is what READ COMMITTED does. A row that does not match is not waited
for. An INSERT waits for another one that is about to take the same
(run_id, attempt_number), and fails when it is committed (`KeyFree`; the failure
is `RequestEnds`). The share locks of the foreign keys do not conflict with
these updates and are left out; `post_update` makes SQLAlchemy write the row of
the run twice in one transaction, which is one write here. A transaction that is
cut short (`HorseDies`, `RequestEnds`) is rolled back by the database.

### The background queue

`BackgroundRunQueue` is what an application gets that is created with it instead
of the default RQ queue. `BackgroundSystem` keeps the rows, requests and jobs of
`RunSystem` and adds `lifespan`: up, draining (shutdown was called), disposed,
dead. After shutdown was called a submission raises, and a committed run stays
queued without a job, which counts as a failed delivery. Threads run on until
the pool is empty; then the engine is disposed of. The server stops accepting
requests before that, but the statements of those it has accepted may come at
any time, so requests are possible in every state but dead. There is no job
timeout in process. A kill takes queue, threads and requests away.

### Migrations

`version` is the committed alembic version, `migrator[m]` the transaction of one
alembic process: env.py runs all revisions in one, and PostgreSQL's DDL is
transactional. The version is read before the first lock is asked for, so a
process may find its work done; its first statement then fails. A column that
the release before 0003 wrote holds the run itself, there being no attempt.
`System` reads these rows as rows of `RunSystem`, a value of the old release as
one of the first attempt. An unknown status value ends a migration like any
other failure (`MigrationFails`). Services of a release are assumed to be
stopped when the schema is changed to another, as the separate migrate service
of docker-compose has it. Old rows are assumed to be what the ORM of the old
release writes, so that strip and upper of `_normalize_run_status` change
nothing; a row whose status was written by hand in another spelling is outside
the model.

### Submission

A location is a sequence of names, the tree says what is there and links say
where they lead. `Way` is where a path is after each of its names, as
`Path.resolve(strict=False)` goes in CPython 3.11 and 3.12: links component by
component, `..` after the link before it, nothing has to exist; `~` was replaced
by the names of the home directory before. At a link that leads back to itself
realpath stops and appends the rest of the path as it is, `abspath` takes `..`
out of the text, and no link in the rest is followed; `Looped` says that this
happened. `Resolved` is the end of the way, `Found` and `Opened` what the
operating system finds at a path, where every directory on the way has to exist,
and `Stat` the same for a location. POST /runs has two steps for solo_wargame,
because the tree may change between the resolution of the path and `is_file`.
`meant`, the file the submitted path named when it was resolved, and `looped` are
history for the properties.

Observed while modelling:

- `expanduser` raises RuntimeError for an unknown user, `resolve` ValueError for
  a NUL and RuntimeError when what it resolved to is itself a loop
  (`Unresolvable`); `exists` raises when the file cannot be looked at (no
  permission, a name that is too long); a NaN in a config of the stub is refused
  by the INSERT. None of these is a `RunnerConfigValidationError`, so the answer
  is 500 rather than 422, with nothing stored.
- With `latest` a link to itself and `out` a link that leaves the repository,
  `latest/../out` is stored as `out`, because the links of the rest were not
  followed; submitted again as `out`, it is refused. What is stored past a loop
  is a path without `..` below the repository, and its mission need not be a file
  of the repository. `StoredRunnable` and `Reproducible` say the rest only of
  paths that met no loop.

### One execution

`RunnerExecution` goes through process_attempt for one claimed attempt. The
fields of the payload that are validated alike are one field. A command that
hangs is ended by RQ's job timeout, whose exception is raised inside execute,
from a signal handler and so at any step of it (`RaiseUnexpected`), also when the
command has answered. json.loads adds RecursionError, and ValueError for an
integer of thousands of digits, which are no JSONDecodeError. All of them become
a failure of kind unhandled_worker_error, and a valid payload is lost to it: the
only exception `PayloadDecides` makes from what the documents say, that the
payload is the source of truth. A timeout that is raised outside the `try` of
process_attempt ends the job (`HorseDies` of `RunSystem`). `finite` speaks of
the whole payload, so that a NaN in a field that is not stored fails the write
too: more behaviours than the code has.
`OutcomeAllowed` says that what reaches the terminal write is a member of
`RunRows!Outcome`, the set `RunSystem` draws from.

## Runs

| Run | Instance | What it shows |
|---|---|---|
| `concurrent_retries` | 1 run, 3 attempts, 2 handlers, 2 workers | `RunMirrorsCurrent`, `NumberedInOrder`, `NoSilentLoss`, `FinishedSnapshot`, `ViewRunsForward`, the invariant `IInv` and `ImplementsLog` hold under racing retries |
| `serial_client` | 1 run, 3 attempts, 1 handler, 2 workers, 2 repeated deliveries | the strict promises of the documents: `OnlyCurrentActive`, `SnapshotIsCurrents`, `RetryOnlyFromFailed`, `ImplementsStrictLog`; and `RunnerCalledOnce`, `FinishedAttemptsFrozen` |
| `liveness` | 1 run, 3 attempts, 2 handlers, 1 worker | `RunsSettle`, `StartedAttemptsFinish` |
| `row_locks` | as concurrent_retries, by statement | `LockInv`, `ImplementsAtomic` |
| `row_locks_redelivery` | 1 run, 2 attempts, 1 handler, 2 workers, 2 repeated deliveries, by statement | `WritesApart`, `TransactionsEnd` |
| `background` | 2 runs, 2 attempts, 1 handler, 2 threads | `ShutdownLeavesNothing`, `ShutdownEnds`, `RunsSettle` |
| `migrations` | 2 runs, 2 attempts, 2 alembic processes, 1 failure | `StartsSound`, `SnapshotCopied`, `AllOrNothing`, `MigrationsEnd` |
| `submission` | 1 project, 2 runs, about 35 payloads, 17 paths, 3 links, one of which may lead to itself, a file that cannot be read, a directory and a file that come and go | `StoredRunnable`, `HashIdentifiesBatch`, `MissionStaysPut`, `Reproducible` |
| `runner_execution` | exit codes 0, 1, 2 | `OutcomeAllowed`, `PayloadDecides`, `ExecutionEnds` |
| `retry_race` | as concurrent_retries | violates `RetryOnlyFromFailed` |
| `stale_snapshot` | as concurrent_retries | violates `QueuedSnapshotEmpty` |
| `unsaved_result` | as runner_execution | violates `ResultRecorded` |

Bounds. The race needs a failed attempt, the retry that wins and the one that
loses: three attempts of one run and two handlers, and two workers so that a
superseded attempt can be running while the next one is claimed. Runs do not
share rows; two of them are needed where they share something else, the threads
of a pool or the transaction of a migration. Two repeated deliveries let a job
arrive while it is queued, while it is executed and after it has finished. In
`background`, two runs keep both threads busy while a third submission, a retry,
waits. In `migrations`, two runs let a migration fail between the first row of
the backfill and the last, two processes let one find the work of the other
done, and the second attempt lets a run be retried before a downgrade. In
`submission`, two stored runs are what a hash compares, and the paths are
spelled relative, absolute, through the home directory, through `..`, through a
link to a file and a link to a directory, inside and outside the repository, and
on through a loop, with and without a link behind it;
each other part of a config is varied on its own, as the code looks at them one
by one. Symmetry is used on runs, handlers and workers in the runs without
liveness; attempts are numbers taken into use in order (`IdsInOrder`), which is
the same reduction and also sound for liveness. When every attempt is used up,
no run can be created or retried; everything else goes on, reads always can, and
so deadlock is checked. It is not in `runner_execution`, where process_attempt
simply ends.

Fairness. `FairSpec` of `RunSystem` assumes that a request that has committed
goes on to its enqueue or fails there, and that a worker goes on while it has
something to do: the thread and the horse run, the database answers, and the job
timeout ends an execute that would not return. Nothing is assumed of clients, of
reads, or of faults. `RunsSettle` and `StartedAttemptsFinish` except attempts in
`lost`; without `HorseDies`, `EnqueueFails` and `QueueLost` nothing ever is.
`LockFairSpec` adds that an open transaction of a request goes on or is ended;
lock waits are not assumed away, a statement that waits is simply not enabled.
`BgFairSpec` assumes the same of threads, that shutdown goes on when it has
nothing to wait for, and, in place of a job timeout, that execute returns, which
is up to the commands that are run. `FairSpec` of `Migrations` is weak fairness
for every migration that was begun and strong fairness for its first statement:
PostgreSQL grants locks in the order they were asked for, so whoever waits for
one that is free again and again gets it.

## Findings

1. `retry_race`. Two retries of a failed run: both select the run row as failed;
   one commits; the other then selects the attempts, counts the new one in, gets
   a number that is free, and replaces the current attempt of a run that is by
   then queued, running or even succeeded. The unique constraint only stops a
   retry that read the attempts too early.
2. `stale_snapshot`. The same retry leaves on the queued run the summary and
   metrics of the attempt it replaced, if those columns were NULL when it loaded
   the run.
3. `unsaved_result`. A payload with NaN or Infinity is parsed and refused by the
   database. The exception leaves process_attempt and the attempt stays running.

In all three the modelled code is what runs; the documents say otherwise. What
holds in spite of 1 is the weaker log of `AttemptLog!Spec`.

## Proofs

The theorems hold for every set of runs, attempts, handlers, workers and alembic
processes and every bound on deliveries and failures, and those of
`RunSubmission` for every file tree, every set of links and payloads, and paths
of any length:

| Theorem | States |
|---|---|
| `RunSystemProofs!InvariantHolds` | `Spec => []IInv` |
| `RunSystemProofs!TypeCorrect` | `Spec => []TypeOK` |
| `RunSystemProofs!MirrorCorrect` | `Spec => []RunMirrorsCurrent` |
| `RunSystemProofs!NumberingCorrect` | `Spec => []NumberedInOrder` |
| `RunSystemProofs!ExecutionCorrect` | `Spec => []RunnerCalledOnce` |
| `RunSystemProofs!FrozenCorrect` | `Spec => FinishedAttemptsFrozen` |
| `RunSystemProofs!ColdStartSafe` | `ColdSpec => []IInv` |
| `DeliveryProofs!DeliveryHolds` | `Spec => [](IInv /\ DeliveryInv)` |
| `DeliveryProofs!ColdStartDelivers` | `ColdSpec /\ SnapshotIsCurrents => [](IInv /\ DeliveryInv)` |
| `DeliveryProofs!NoSilentLossCorrect` | `Spec => []NoSilentLoss` |
| `DeliveryProofs!SnapshotCorrect` | `Spec => []FinishedSnapshot` |
| `DeliveryProofs!ViewCorrect` | `Spec => []ViewRunsForward` |
| `LogProofs!LogImplemented` | `Spec => ImplementsLog` |
| `LogProofs!SerialHolds` | `OneHandler => (Spec => [](IInv /\ DeliveryInv /\ SerialInv))` |
| `LogProofs!OnlyCurrentActiveCorrect` | `OneHandler => (Spec => []OnlyCurrentActive)` |
| `LogProofs!SnapshotIsCurrentsCorrect` | `OneHandler => (Spec => []SnapshotIsCurrents)` |
| `LogProofs!QueuedSnapshotCorrect` | `OneHandler => (Spec => []QueuedSnapshotEmpty)` |
| `LogProofs!RetryOnlyFromFailedCorrect` | `OneHandler => (Spec => RetryOnlyFromFailed)` |
| `LogProofs!StrictLogImplemented` | `OneHandler => (Spec => ImplementsStrictLog)` |
| `RowLocksProofs!StatementsSound` | `LockSpec => [](IInv /\ LockInv)` |
| `RowLocksProofs!LocksHold` | `LockSpec => []LockInv` |
| `RowLocksProofs!WritesApartCorrect` | `LockSpec => []WritesApart` |
| `RowLocksProofs!LocksImplementAtomic` | `LockSpec => ImplementsAtomic` |
| `RowLocksProofs!LocksImplementLog` | `LockSpec => ImplementsLog` |
| `BackgroundProofs!BackgroundSafe` | `BgSpec => []BgInv` |
| `BackgroundProofs!BackgroundTypes` | `BgSpec => []BgTypeOK` |
| `BackgroundProofs!ShutdownCorrect` | `BgSpec => []ShutdownLeavesNothing` |
| `BackgroundProofs!BackgroundImplementsLog` | `BgSpec => ImplementsLog` |
| `RunnerExecutionProofs!ExecutionSound` | `Spec => []ExecInv` |
| `RunnerExecutionProofs!ExecutionTypes` | `Spec => []TypeOK` |
| `RunnerExecutionProofs!OutcomeCorrect` | `Spec => []OutcomeAllowed` |
| `RunnerExecutionProofs!PayloadCorrect` | `Spec => []PayloadDecides` |
| `MigrationsProofs!HistorySound` | `Spec => []MigInv` |
| `MigrationsProofs!HistoryTypes` | `Spec => []TypeOK` |
| `MigrationsProofs!AllOrNothingCorrect` | `Spec => []AllOrNothing` |
| `MigrationsProofs!RowsWhole` | `Spec => [](MigInv /\ RowInv)` |
| `MigrationsProofs!StartsSoundCorrect` | `Spec => []StartsSound` |
| `MigrationsProofs!SnapshotCopiedCorrect` | `Spec => []SnapshotCopied` |
| `RunSubmissionProofs!SubmissionSound` | `Spec => []SubInv` |
| `RunSubmissionProofs!SubmissionTypes` | `Spec => []TypeOK` |
| `RunSubmissionProofs!StoredRunnableCorrect` | `Spec => []StoredRunnable` |
| `RunSubmissionProofs!HashCorrect` | `Spec => []HashIdentifiesBatch` |
| `RunSubmissionProofs!MissionStaysPutCorrect` | `Spec => []MissionStaysPut` |
| `RunSubmissionProofs!ReproducibleCorrect` | `Spec => []Reproducible` |

Assumptions: None is neither a run nor an attempt, and in `Migrations` no run is
an attempt; the bounds are numbers, in `RowLocks` no process is both a handler
and a worker, and exit codes are numbers. In `RunSubmission` a value that is no
integer is none, payloads have the fields of `Config`, the repository path is
resolved, as the settings resolve it, and a link ends where the file system says
it ends, that is at a location that leads through no further link, or in itself:
a loop through several links is taken for one of each to itself, which for
resolve and the operating system makes no difference but to where the rest of
the path is appended. Links are pointed elsewhere but always there, under
directories that stay (`TreeAssumption`). `OneHandler`, that there are not two
handlers, is a hypothesis of the strict promises and of nothing else.

None of the properties is inductive. That a run mirrors its current attempt
survives a retry only because the loaded row of a failed run has no NULL in
started, error and finished, so that the UPDATE clears all three; that comes
from the shape of failed attempts through the mirror itself. That numbers have
no gap needs that a loaded collection is never empty and was part of the rows,
and that the unique constraint refuses a number that is taken: a stale
collection then cannot get a number through unless it is the next one
(`RetryNumber`). That no attempt is executed twice needs that a worker past its
claim holds a running attempt alone, and that an attempt that is still queued
was never executed. `IInv` is the conjunction of these; `concurrent_retries`
checks it on the instance. `RowWrites` shows that only four kinds of step write
rows; one lemma for each shows that it keeps the rows sound, `RowsForward` that
rows only move forward, and from that what requests and workers remember stays
true (`RequestKept`, `JobsKept`).

`ColdStartSafe` starts from any rows that are sound, with nothing in Redis and
nobody at work, and `ColdStartDelivers` from such rows with the right summaries.
`StartsSound` and `SnapshotCopied` of `Migrations` say that the rows a migration
leaves are such rows, so the theorems together carry both invariants over an
upgrade.

`DeliveryInv` says that a queued run's attempt is carried by a job, a request or
a worker, and that every running attempt, a superseded one too, is held by a
worker, unless a delivery failed; a run that is retried while its attempt runs
shows that the same of current attempts alone would not be inductive. It also
says that what a request has read lies between the run it loaded and the rows as
they are, which gives `ViewRunsForward`.

`LockInv` says that what an open transaction has locked and written is what it
would write now: its guards still hold and its rows are computed from the
committed rows. It is kept by other commits because they write other rows
(`WritesApart`), which in turn needs the locks. Its consequence is that a commit
is exactly the atomic action of `RunSystem`, and every other statement a stutter
(`StepImplements`), so that `IInv` and all that follows from it holds between
any two statements.

`BackgroundSafe` uses that every step of `BackgroundSystem` is one of
`RunSystem` or changes `lifespan` alone, and adds to both invariants that
nothing waits or is held once the engine is disposed of.

`ExecInv` adds to the properties of one execution why a failed result is right:
until the command has ended nothing was printed, so an exception on its way to
the worker, whichever of the steps raised it, means that nothing valid was,
unless it is one that nobody expected (`RaisedExplained`).

`LogImplemented` reads the log off the rows: numbers without gaps give an entry
for each attempt and one attempt for each entry (`LogRead`), so that a new
attempt with the next number is an append, and a write that keeps run and number
changes one entry (`EntryAppended`, `EntryWritten`). A retry needs an entry that
failed; that it has one, although the run may have been retried since it was
read, is what `DeliveryInv` knows of readers (`RetriedHasFailed`).

The strict promises fail for two handlers (see the findings) and hold for one.
`SerialInv` says why: what the one request has loaded of a failed run is still
what the rows say (`FailedViewCurrent`), because nothing but a retry writes a
failed run, and no other request is there to retry it. Every attempt but the
current one is then finished when it is replaced, the loaded row shows which
columns have to be cleared, and an attempt that is queued has no values for the
run to repeat (`QueuedAttemptsEmpty`).

`MigInv` says of migrations that at most one is past its first statement, that
it started from the committed version, and that it has written nothing before
it selects the runs and a first attempt for each of them when it is done. Types
are part of it, not beside it: a retry counts on from the number of the current
attempt, which is there only because the backfill was complete.

`RowInv` adds the rows. At any schema, a row has the columns its status asks
for, and a value of the previous release belongs to the run itself (`Shaped`);
under the schema of this release a run repeats its current attempt, the last of
those numbered from 1 (`RunWhole`). Between the two stands `CopySound`: while a
migration copies, a run waits as it was selected, with the rows locked, or has an
attempt that is its copy, and each new attempt belongs to one run. `BothWritten`
shows once for all transactions of this release that they keep this. The
translation of old values needs that a run with a value of its own has a first
attempt to translate it to (`TranslationKeeps`), which is the numbering again.

`SubInv` says that the file tree has nothing that it did not have at the start,
that the mission of a submission in flight has no `..` left and, unless its path
met a loop, leads through no link and is, if anything, the file that was meant,
and that each stored run is the normal form of its submission. That later
changes of links and files cannot touch it is `StraightWay`: a path below the
repository that names a location without links leads to that location whatever
the links are. A file that was meant excludes a loop (`OpenedWithoutLoop`),
which is why `MissionStaysPut` and `HashIdentifiesBatch` need not speak of them.
These are statements on paths of any length, and so by induction: `Way` is a
recursive function, shown to exist (`WayUnfolds`), and what holds at each name
is the set of numbers up to which it holds, closed under successor
(`SetInduction`), which avoids the induction theorems with a predicate for a
parameter.

Only model-checked: liveness under fairness (`RunsSettle`,
`StartedAttemptsFinish`, `TransactionsEnd`, `ShutdownEnds`, `MigrationsEnd`,
`ExecutionEnds`), which is out of the prover's reach. Every invariant, action
property and refinement of the passing runs is also a theorem.

## Plan

Done: rows, run system, abstract log, invariant and its proof, delivery
invariant and its proof, row locks and the proof that they implement the run
system, background queue and its proof, the proof that all three implement the
log, the strict promises of one request at a time, migrations, the rows they
leave and the start over them, submission and normalisation and their proof,
runner execution and its proof.

What is left:

1. the strict promises from a cold start, for rows in which no superseded
   attempt is active and queued attempts are empty, as migrations leave them;
2. a proof that the services of `Migrations`, which are the transactions of
   `RunSystem` taken one row at a time, are steps of `RunSystem` under the
   translation.

## Not modelled

- Settings and the construction of the application: values read once.
- List routes, the health route and the fields of responses: reads that nothing
  is decided on.
- SQLite, which only tests and local harnesses use.
- Migrations in offline mode, which print SQL, and the downgrades of 0001 and
  0002, which drop tables or columns and leave no row to say anything about.
- uvicorn, RQ, Redis and PostgreSQL beyond what the actions above say of them,
  the external command beyond its exit code and output, and of the file system
  everything but kinds and links: no permissions beyond a file that cannot be
  looked at, no mission file that is replaced by a link, no file in the
  repository whose name starts with `~`, and one repository for API and
  worker.
