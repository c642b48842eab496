---------------------------- MODULE MCMigrations ----------------------------
(* Instances of Migrations for TLC. *)
EXTENDS Migrations

\* Attempts are interchangeable, and here numbers taken into use in order.  A
\* downgrade frees all of them at once, so every behaviour is one of these after
\* renaming what is used between two downgrades.
Free(a) ==
  attempts[a].status = "absent" /\ \A m \in Migrator : migrator[m].news[a].status = "absent"

IdsInOrder == \A a, b \in Attempt : a < b /\ Free(a) => Free(b)
=============================================================================
