SPECIFICATION Spec
CONSTANTS
  None = None
  Run = {r1}
  Attempt = {1, 2, 3}
  Handler = {h1}
  Worker = {w1, w2}
  MaxRedeliveries = 2
CONSTRAINT IdsInOrder
SYMMETRY Symmetry
INVARIANTS
  OnlyCurrentActive
  SnapshotIsCurrents
  RunnerCalledOnce
PROPERTIES
  RetryOnlyFromFailed
  FinishedAttemptsFrozen
  ImplementsStrictLog
