SPECIFICATION FairSpec
CONSTANTS
  None = None
  Run = {r1}
  Attempt = {1, 2, 3}
  Handler = {h1, h2}
  Worker = {w1}
  MaxRedeliveries = 0
CONSTRAINT IdsInOrder
PROPERTIES
  RunsSettle
  StartedAttemptsFinish
