SPECIFICATION FairSpec
CONSTANTS
  Handlers = {h1, h2}
  Names = {n1}
  Defs = {d1}
  NoDef = NoDef
  WithConfigMap = {}
  Autoscaled = {}
  Deployers = {"kubectl", "client-go", "disabled"}
  AuditEnabled = FALSE
  AuditFaults = FALSE
  MaxDeploys = 2
INVARIANTS DeploysAdmitted CountedOnce
PROPERTIES CancelledEnds ImplementsRollout
