------------------------- MODULE RunSystemInvariant -------------------------
(***************************************************************************)
(* The inductive invariant behind the safety properties of RunSystem: what *)
(* has to hold of rows, requests and jobs together for each single step to *)
(* keep the properties.  Checked by TLC, proved inductive in               *)
(* RunSystemProofs.                                                        *)
(***************************************************************************)
EXTENDS RunSystem

\* Rows are created whole and belong to a run that exists; a started attempt
\* has a start, a failed one also an end and an error.
AttemptShape ==
  \A a \in Attempt :
    /\ attempts[a].status = "absent" <=> attempts[a].run = None
    /\ attempts[a].run # None => Exists(attempts[a].run)
    /\ attempts[a].status = "running" => attempts[a].started # None
    /\ attempts[a].status = "failed" =>
         /\ attempts[a].started # None
         /\ attempts[a].error # None
         /\ attempts[a].finished # None

\* NumberedInOrder, number by number.
Numbered ==
  \A r \in Run : Exists(r) =>
    /\ \A a \in AttemptsOf(r) :
         attempts[a].number >= 1 /\ attempts[a].number <= CurrentOf(r).number
    /\ \A a, b \in AttemptsOf(r) : attempts[a].number = attempts[b].number => a = b
    /\ \A n \in 1 .. CurrentOf(r).number :
         \E a \in AttemptsOf(r) : attempts[a].number = n

HasLast(known) == \E n \in NumbersOf(known) : \A m \in NumbersOf(known) : m <= n

\* What a request has loaded was in the rows and, identities being immutable,
\* still is.
RequestSound(h) ==
  /\ handler[h].pc \in {"reading", "loaded"} =>
       /\ handler[h].run \in Run
       /\ Exists(handler[h].run)
       /\ handler[h].row.current \in AttemptsOf(handler[h].run)
       /\ handler[h].row.status = "failed" =>
            /\ handler[h].row.started # None
            /\ handler[h].row.error # None
            /\ handler[h].row.finished # None
  /\ handler[h].pc = "loaded" =>
       /\ handler[h].known # {}
       /\ handler[h].known \in SUBSET AttemptsOf(handler[h].run)
       /\ HasLast(handler[h].known)
  /\ handler[h].pc = "enqueue" =>
       handler[h].attempt \in Attempt /\ handler[h].attempt \notin Unused

\* Jobs name attempts that exist; a worker past its claim holds a running
\* attempt that no other worker holds; an attempt that was not claimed was
\* not executed.
QueueSound ==
  /\ \A i \in 1 .. Len(queue) : queue[i] \notin Unused
  /\ \A a \in stored : a \notin Unused

JobSound(w) ==
  /\ worker[w].pc # "idle" => worker[w].attempt \in Attempt /\ worker[w].attempt \notin Unused
  /\ worker[w].pc \in {"claimed", "executing", "result"} =>
       attempts[worker[w].attempt].status = "running"
  /\ worker[w].pc = "claimed" => executed[worker[w].attempt] = 0

ExecutionSound ==
  \A a \in Attempt :
    /\ executed[a] <= 1
    /\ attempts[a].status \in {"absent", "queued"} => executed[a] = 0
    /\ \A v, w \in Worker : Holds(v, a) /\ Holds(w, a) => v = w

RowsSound == AttemptShape /\ RunMirrorsCurrent /\ Numbered
JobsSound == QueueSound /\ (\A w \in Worker : JobSound(w)) /\ ExecutionSound

IInv == /\ TypeOK
        /\ RowsSound
        /\ \A h \in Handler : RequestSound(h)
        /\ JobsSound

(***************************************************************************)
(* A start of the services over rows that exist already, with nothing in   *)
(* Redis and nobody at work: after a migration, or after all processes and *)
(* the queue were lost.  Active attempts have no job any more.             *)
(***************************************************************************)
ColdStart ==
  /\ TypeOK
  /\ RowsSound
  /\ queue = <<>>
  /\ stored = {}
  /\ handler = [h \in Handler |-> NoRequest]
  /\ worker = [w \in Worker |-> NoJob]
  /\ executed = [a \in Attempt |-> 0]
  /\ lost = {a \in Attempt : attempts[a].status \in {"queued", "running"}}

ColdSpec == ColdStart /\ [][Next]_vars
=============================================================================
