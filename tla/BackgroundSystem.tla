-------------------------- MODULE BackgroundSystem --------------------------
(***************************************************************************)
(* The application with BackgroundRunQueue: requests and jobs are threads  *)
(* of one process, and the queue is the work queue of a thread pool in its *)
(* memory.  Everything that happens to rows is as in RunSystem; what is    *)
(* different is the life of the process, the lifespan of the application:  *)
(* queue and engine are shut down while jobs and late requests are under   *)
(* way, and a process that is killed takes the queue with it.              *)
(*                                                                         *)
(* queue is the work queue of the executor, Worker are its threads.        *)
(***************************************************************************)
EXTENDS RunSystemInvariant

VARIABLE lifespan

bgVars == <<vars, lifespan>>

BgTypeOK == TypeOK /\ lifespan \in {"up", "draining", "disposed", "dead"}

BgInit == Init /\ lifespan = "up"

NobodyAtWork == \A w \in Worker : worker[w].pc = "idle"

-----------------------------------------------------------------------------
\* Requests go on until the process ends: the server stops accepting them when
\* the lifespan ends, but does not wait for ever for those it has accepted, and
\* any statement of theirs may come late.
Requests(h) ==
  /\ lifespan # "dead"
  /\ \/ CreateRun(h) \/ ReadRun(h) \/ ReadCurrent(h) \/ ReadAttempts(h)
     \/ EndRequest(h) \/ RetryCommit(h) \/ EnqueueFails(h)

\* Broken: an executor that is shut down takes what is submitted.
SubmitsAlways == lifespan # "dead"

\* executor.submit raises once shutdown was called: the only way left for the
\* request is EnqueueFails.
Submits == lifespan = "up"

Submit(h) == Submits /\ Enqueue(h)

\* Broken: threads stop at shutdown, and leave what waits.
ThreadsRunUntilShutdown == lifespan = "up"

\* Threads run until shutdown has waited for them.
ThreadsRun == lifespan \in {"up", "draining"}

\* A job that raises ends in its Future, where nobody looks; the thread goes on.
ThreadStep(w) == ThreadsRun /\ JobStep(w)
JobRaises(w)  == ThreadsRun /\ HorseDies(w)

\* lifespan, finally: run_queue.shutdown() ...
BeginShutdown ==
  /\ lifespan = "up"
  /\ lifespan' = "draining"
  /\ UNCHANGED vars

\* Broken: shutdown(wait=False).
DisposeAtOnce ==
  /\ lifespan = "draining"
  /\ lifespan' = "disposed"
  /\ UNCHANGED vars

\* ... which waits for the queue to be empty and every thread to end, with
\* cancel_futures=False; then engine.dispose().
Dispose ==
  /\ lifespan = "draining"
  /\ queue = <<>>
  /\ NobodyAtWork
  /\ lifespan' = "disposed"
  /\ UNCHANGED vars

\* The process is killed.  Nothing runs any more; what its threads had in hand
\* is gone, one by one here, before anything else happens.
Killed ==
  /\ lifespan # "dead"
  /\ lifespan' = "dead"
  /\ UNCHANGED vars

Remains ==
  /\ lifespan = "dead"
  /\ \/ \E h \in Handler : EndRequest(h) \/ EnqueueFails(h)
     \/ \E w \in Worker : HorseDies(w)
     \/ QueueLost

\* The next process.
Restart ==
  /\ lifespan = "dead"
  /\ queue = <<>>
  /\ NobodyAtWork
  /\ \A h \in Handler : handler[h].pc = "idle"
  /\ lifespan' = "up"
  /\ UNCHANGED vars

BgNext ==
  \/ /\ \/ \E h \in Handler : Requests(h) \/ Submit(h)
        \/ \E w \in Worker : ThreadStep(w) \/ JobRaises(w)
        \/ Remains
     /\ UNCHANGED lifespan
  \/ BeginShutdown \/ Dispose \/ Killed \/ Restart

BgSpec == BgInit /\ [][BgNext]_bgVars

(***************************************************************************)
(* Threads are scheduled, the database answers, shutdown goes on when it   *)
(* has nothing to wait for.  There is no job timeout in process: that      *)
(* execute returns is a property of the commands that are run.             *)
(***************************************************************************)
BgFairness ==
  /\ \A h \in Handler : WF_bgVars((Submit(h) \/ EnqueueFails(h)) /\ UNCHANGED lifespan)
  /\ \A w \in Worker : WF_bgVars(ThreadStep(w) /\ UNCHANGED lifespan)
  /\ WF_bgVars(Remains /\ UNCHANGED lifespan)
  /\ WF_bgVars(Dispose)

BgFairSpec == BgSpec /\ BgFairness

-----------------------------------------------------------------------------
\* When the engine is disposed of, everything that was submitted has been
\* processed: a run is still active only if a job of it failed on the way or
\* its request came too late to submit one.
ShutdownLeavesNothing ==
  lifespan = "disposed" =>
    \A r \in Run : runs[r].status \in {"queued", "running"} =>
      \/ runs[r].current \in lost
      \/ \E h \in Handler : handler[h].pc = "enqueue"
                            /\ handler[h].attempt = runs[r].current

\* A shutdown ends, whatever requests still do.
ShutdownEnds == (lifespan = "draining") ~> (lifespan # "draining")
=============================================================================
