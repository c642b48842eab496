----------------------------- MODULE MCRunSystem -----------------------------
(* Instances of RunSystem for TLC. *)
EXTENDS RunSystemInvariant, TLC

\* Runs, handlers and workers are interchangeable: no definition compares
\* them with anything but equality.
Symmetry == Permutations(Run) \cup Permutations(Handler) \cup Permutations(Worker)

\* Attempts are interchangeable too.  Here they are numbers, taken into use in
\* order, as the id sequence of the table gives them out: every behaviour is
\* one of these after renaming its attempts, so the constraint loses nothing.
\* Unlike symmetry it is sound for liveness, since no fair action creates a row.
IdsInOrder ==
  \A a, b \in Attempt : a < b /\ a \in Unused => b \in Unused
=============================================================================
