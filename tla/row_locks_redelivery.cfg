SPECIFICATION LockFairSpec
CONSTANTS
  None = None
  Run = {r1}
  Attempt = {1, 2}
  Handler = {h1}
  Worker = {w1, w2}
  MaxRedeliveries = 2
CONSTRAINT IdsInOrder
INVARIANTS
  WritesApart
PROPERTIES
  TransactionsEnd
