SPECIFICATION Spec
CONSTANTS
  None = None
  Run = {r1}
  Attempt = {1, 2, 3}
  Handler = {h1, h2}
  Worker = {w1, w2}
  MaxRedeliveries = 0
CONSTRAINT IdsInOrder
SYMMETRY Symmetry
INVARIANTS
  TypeOK
  IInv
  RunMirrorsCurrent
  NumberedInOrder
  NoSilentLoss
  FinishedSnapshot
  ViewRunsForward
PROPERTIES
  ImplementsLog
