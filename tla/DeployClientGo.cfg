SPECIFICATION Spec
CONSTANTS
  Handlers = {h1, h2}
  Names = {n1}
  Defs = {d1}
  NoDef = NoDef
  WithConfigMap = {n1}
  Autoscaled = {}
  Deployers = {"client-go", "disabled"}
  AuditEnabled = TRUE
  AuditFaults = FALSE
  MaxDeploys = 2
INVARIANTS AppliedMeansComplete PrefixOnly AuditIsTruthful AuditedUnlessGone
PROPERTY ImplementsRollout
SYMMETRY Symmetry
