SPECIFICATION FairSpec
CONSTANTS
  Handlers = {p1, p2}
  Names = {n1, n2}
  Defs = {d1, d2}
  NoDef = NoDef
  Nobody = Nobody
  Persistent = TRUE
  StorageFaults = TRUE
  CrashInWrite = TRUE
INVARIANTS ToldIsServed ConflictIsReal SnapshotIsComplete OneMayReturn
PROPERTIES ImplementsRegistryWhileAlive ComesBack
CHECK_DEADLOCK FALSE
