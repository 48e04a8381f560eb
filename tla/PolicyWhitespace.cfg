SPECIFICATION Spec
CONSTANTS
  svc = svc
  unsafe = unsafe
  fastapi = fastapi
  local = local
  team = team
  dev = dev
  cm = cm
  Unset = Unset
  None = None
  Names = {svc, fastapi, unsafe}
  SafeNames = {svc, fastapi}
  PaddedNames = {unsafe}
  FastAPI = fastapi
  ConfigMapName = cm
  Namespace = dev
  Prefixes = {local, team}
  LocalPrefix = local
  Durable = FALSE
  Definitions <- MCDefinitions
  Environments <- MCEnvironments
  DashedNames = {fastapi}
  ForeignNames = {}
  KeyRank <- MCKeyRank
  Visits <- MCVisits
  RenderDocuments <- RenderYAMLDocuments
INVARIANTS ImagesHaveNoWhitespace
