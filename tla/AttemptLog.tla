------------------------------ MODULE AttemptLog ------------------------------
(***************************************************************************)
(* What the run system promises, with no database, queue or process in it: *)
(* every run has a log of attempts, written by appending; only the newest  *)
(* attempt may start; a finished attempt never changes; and a run shows    *)
(* the status of its newest attempt.                                       *)
(***************************************************************************)
EXTENDS Naturals, Sequences

CONSTANT Run

VARIABLES log,    \* log[r]: the statuses of the attempts of r, oldest first
          shown   \* shown[r]: the status a reader of the run sees

vars == <<log, shown>>

Ended   == {"succeeded", "failed"}
Stage   == {"queued", "running"} \cup Ended
Newest(s) == s[Len(s)]

TypeOK == log \in [Run -> Seq(Stage)]

Init == /\ log = [r \in Run |-> <<>>]
        /\ shown = [r \in Run |-> "absent"]

\* shown follows the log in the same step: readers never see one without the other.
Write(r, s) == /\ log' = [log EXCEPT ![r] = s]
               /\ shown' = [shown EXCEPT ![r] = Newest(s)]

Submit(r) == /\ log[r] = <<>>
             /\ Write(r, <<"queued">>)

\* An attempt is added only to a run that has failed before.  A second retry
\* that was already under way may land after the first one: see StrictNext.
Resubmit(r) == /\ \E i \in DOMAIN log[r] : log[r][i] = "failed"
               /\ Write(r, Append(log[r], "queued"))

Start(r) == /\ log[r] # <<>>
            /\ Newest(log[r]) = "queued"
            /\ Write(r, [log[r] EXCEPT ![Len(log[r])] = "running"])

Finish(r, i, s) == /\ log[r][i] = "running"
                   /\ Write(r, [log[r] EXCEPT ![i] = s])

Next == \E r \in Run :
          \/ Submit(r)
          \/ Resubmit(r)
          \/ Start(r)
          \/ \E i \in DOMAIN log[r], s \in Ended : Finish(r, i, s)

Spec == Init /\ [][Next]_vars

(***************************************************************************)
(* The stricter promise of the documents: a retry is accepted only while   *)
(* the newest attempt is failed, so at most one attempt of a run is active *)
(* at any time.                                                            *)
(***************************************************************************)
StrictNext == \E r \in Run :
                \/ Submit(r)
                \/ Resubmit(r) /\ Newest(log[r]) = "failed"
                \/ Start(r)
                \/ \E i \in DOMAIN log[r], s \in Ended : Finish(r, i, s)

StrictSpec == Init /\ [][StrictNext]_vars
=============================================================================
