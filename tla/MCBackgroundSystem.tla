------------------------- MODULE MCBackgroundSystem -------------------------
(* Instances of BackgroundSystem for TLC. *)
EXTENDS BackgroundSystem, TLC

\* As in MCRunSystem.
Symmetry == Permutations(Run) \cup Permutations(Handler) \cup Permutations(Worker)

IdsInOrder ==
  \A a, b \in Attempt : a < b /\ a \in Unused => b \in Unused
=============================================================================
