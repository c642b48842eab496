SPECIFICATION BgFairSpec
CONSTANTS
  None = None
  Run = {r1, r2}
  Attempt = {1, 2}
  Handler = {h1}
  Worker = {w1, w2}
  MaxRedeliveries = 0
CONSTRAINT IdsInOrder
INVARIANTS
  BgTypeOK
  ShutdownLeavesNothing
PROPERTIES
  ShutdownEnds
  RunsSettle
