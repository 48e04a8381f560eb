SPECIFICATION Spec
CONSTANTS
  Handlers = {p1, p2}
  Names = {n1, n2}
  Defs = {d1, d2}
  NoDef = NoDef
  Nobody = Nobody
  Persistent = FALSE
  StorageFaults = FALSE
  CrashInWrite = FALSE
PROPERTIES ImplementsRegistry
