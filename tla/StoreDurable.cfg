SPECIFICATION Spec
CONSTANTS
  Handlers = {p1, p2}
  Names = {n1, n2}
  Defs = {d1, d2}
  NoDef = NoDef
  Nobody = Nobody
  Persistent = TRUE
  StorageFaults = FALSE
  CrashInWrite = FALSE
INVARIANTS TypeOK SurvivesRestart
PROPERTY ImplementsRegistry
