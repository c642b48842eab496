----------------------------- MODULE MCRowLocks -----------------------------
(* Instances of RowLocks for TLC. *)
EXTENDS RowLocks, TLC

\* As in MCRunSystem: runs, handlers and workers are interchangeable, and
\* attempts are taken into use in order.
Symmetry == Permutations(Run) \cup Permutations(Handler) \cup Permutations(Worker)

IdsInOrder ==
  \A a, b \in Attempt : a < b /\ a \in Unused => b \in Unused
=============================================================================
