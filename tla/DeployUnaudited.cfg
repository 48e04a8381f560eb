SPECIFICATION Spec
CONSTANTS
  Handlers = {h1}
  Names = {n1}
  Defs = {d1}
  NoDef = NoDef
  WithConfigMap = {n1}
  Autoscaled = {d1}
  Deployers = {"client-go"}
  AuditEnabled = TRUE
  AuditFaults = FALSE
  MaxDeploys = 2
INVARIANT EverySuccessAudited
