SPECIFICATION FairSpec
CONSTANTS
  None = None
  Run = {r1, r2}
  Attempt = {1, 2}
  Migrator = {m1, m2}
  MaxFailures = 1
CONSTRAINT IdsInOrder
INVARIANTS
  TypeOK
  StartsSound
  SnapshotCopied
  AllOrNothing
PROPERTIES
  MigrationsEnd
