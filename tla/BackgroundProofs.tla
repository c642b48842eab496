-------------------------- MODULE BackgroundProofs --------------------------
(* Theorems about BackgroundSystem: with the queue in the memory of the    *)
(* application the rows are as safe as with Redis, and a shutdown loses    *)
(* nothing that was submitted.                                             *)
EXTENDS BackgroundSystem, LogProofs

\* After engine.dispose() the executor has nothing left.
Drained == lifespan = "disposed" => queue = <<>> /\ NobodyAtWork

BgInv == IInv /\ DeliveryInv /\ Drained

\* To the rows every step of the application is a step of RunSystem or none.
LEMMA BgStepRefines == [BgNext]_bgVars => [Next]_vars
<1> SUFFICES ASSUME BgNext PROVE [Next]_vars
  BY DEF bgVars, vars
<1>1. ASSUME NEW h \in Handler, Requests(h) \/ Submit(h) PROVE Next
  BY <1>1 DEF Requests, Submit, Next, RequestStep
<1>2. ASSUME NEW w \in Worker, ThreadStep(w) \/ JobRaises(w) PROVE Next
  BY <1>2 DEF ThreadStep, JobRaises, Next
<1>3. CASE Remains
  BY <1>3 DEF Remains, Next, RequestStep
<1>4. CASE BeginShutdown \/ Dispose \/ Killed \/ Restart
  BY <1>4 DEF BeginShutdown, Dispose, Killed, Restart
<1> QED BY <1>1, <1>2, <1>3, <1>4 DEF BgNext

\* What is disposed of stays drained: nothing is submitted and no thread starts.
LEMMA DrainedStep == TypeOK /\ Drained /\ [BgNext]_bgVars => Drained'
<1> SUFFICES ASSUME TypeOK, Drained, BgNext, lifespan' = "disposed"
             PROVE  queue' = <<>> /\ NobodyAtWork'
  BY DEF Drained, bgVars, vars, NobodyAtWork
<1>1. ASSUME NEW h \in Handler, Requests(h), UNCHANGED lifespan
      PROVE  queue' = <<>> /\ NobodyAtWork'
  <2>1. UNCHANGED <<queue, worker>>
    BY <1>1 DEF Requests, CreateRun, ReadRun, ReadCurrent, ReadAttempts, EndRequest,
       RetryCommit, EnqueueFails, redis
  <2> QED BY <1>1, <2>1 DEF Drained, NobodyAtWork
<1>2. ASSUME NEW h \in Handler, Submit(h), UNCHANGED lifespan PROVE FALSE
  BY <1>2 DEF Submit, Submits
<1>3. ASSUME NEW w \in Worker, ThreadStep(w) \/ JobRaises(w), UNCHANGED lifespan
      PROVE  FALSE
  BY <1>3 DEF ThreadStep, JobRaises, ThreadsRun
<1>4. CASE Remains /\ UNCHANGED lifespan
  BY <1>4 DEF Remains
<1>5. CASE Dispose
  BY <1>5 DEF Dispose, vars, NobodyAtWork
<1>6. CASE BeginShutdown \/ Killed \/ Restart
  BY <1>6 DEF BeginShutdown, Killed, Restart
<1> QED BY <1>1, <1>2, <1>3, <1>4, <1>5, <1>6 DEF BgNext

\* The invariants of RunSystem hold through shutdowns, kills and restarts.
THEOREM BackgroundSafe == BgSpec => []BgInv
<1>1. BgInit => BgInv
  BY InitIInv, InitDelivery DEF BgInit, BgInv, Drained
<1>2. BgInv /\ [BgNext]_bgVars => BgInv'
  <2> SUFFICES ASSUME BgInv, [BgNext]_bgVars PROVE BgInv'
    OBVIOUS
  <2>1. [Next]_vars
    BY BgStepRefines
  <2>2. IInv' /\ DeliveryInv'
    BY <2>1, NextIInv, SnapshotStep, ViewStep, QueuedStep, RunningStep DEF BgInv, DeliveryInv
  <2>3. Drained'
    BY DrainedStep DEF BgInv, IInv
  <2> QED BY <2>2, <2>3 DEF BgInv
<1> QED BY <1>1, <1>2, PTL DEF BgSpec

\* The process is always in one of its four states, whose order is up, draining,
\* disposed, with death from anywhere and the next process after it.
THEOREM BackgroundTypes == BgSpec => []BgTypeOK
<1> DEFINE L == lifespan \in {"up", "draining", "disposed", "dead"}
<1>1. BgInit => L
  BY DEF BgInit
<1>2. L /\ [BgNext]_bgVars => L'
  BY DEF BgNext, bgVars, BeginShutdown, Dispose, Killed, Restart
<1>3. BgInv /\ L => BgTypeOK
  BY DEF BgInv, IInv, BgTypeOK
<1> HIDE DEF L
<1> QED BY <1>1, <1>2, <1>3, BackgroundSafe, PTL DEF BgSpec

\* When the engine is disposed of, no run waits for a job that was submitted.
THEOREM ShutdownCorrect == BgSpec => []ShutdownLeavesNothing
<1>1. ASSUME BgInv PROVE ShutdownLeavesNothing
  <2> SUFFICES ASSUME lifespan = "disposed",
                      NEW r \in Run, runs[r].status \in {"queued", "running"}
               PROVE  \/ runs[r].current \in lost
                      \/ \E h \in Handler : handler[h].pc = "enqueue"
                                            /\ handler[h].attempt = runs[r].current
    BY DEF ShutdownLeavesNothing
  <2>1. queue = <<>> /\ \A w \in Worker : worker[w].pc = "idle"
    BY <1>1 DEF BgInv, Drained, NobodyAtWork
  <2>2. NoSilentLoss
    BY <1>1, NoSilentLossFollows DEF BgInv
  <2> QED BY <2>1, <2>2 DEF NoSilentLoss, Carried, Holds
<1> QED BY <1>1, BackgroundSafe, PTL

\* With the thread pool, too, the rows behave as the log of attempts.
THEOREM BackgroundImplementsLog == BgSpec => ImplementsLog
<1>1. BgInit => Init
  BY DEF BgInit
<1> QED BY <1>1, BgStepRefines, LogImplemented, PTL DEF BgSpec, Spec
=============================================================================
