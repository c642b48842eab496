SPECIFICATION Spec
CONSTANTS
  Repo <- MCRepo
  Home <- MCHome
  NotInt = NotInt
  NotAnId = NotAnId
  Project = {p1}
  Run = {r1, r2}
  Submitted <- MCSubmitted
  Tree <- MCTree
  Volatile <- MCVolatile
  LinkTargets <- MCLinkTargets
SYMMETRY Symmetry
INVARIANTS
  TypeOK
  StoredRunnable
  HashIdentifiesBatch
  MissionStaysPut
  Reproducible
