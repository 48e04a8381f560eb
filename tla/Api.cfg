SPECIFICATION APIFairSpec
CONSTANTS
  Handlers = {p1, p2}
  Names = {n1, n2}
  Defs = {d1}
  NoDef = NoDef
  Nobody = Nobody
  Persistent = TRUE
  StorageFaults = FALSE
  CrashInWrite = FALSE
  Scrapers = {s1}
  MaxPosts = 3
INVARIANTS APITypeOK CountersAddUp NoDeadlock
PROPERTIES ScrapeIsConsistent ScrapeEnds PostAnswered
