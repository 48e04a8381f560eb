SPECIFICATION Spec
CONSTANTS
  svc = svc
  unsafe = unsafe
  fastapi = fastapi
  local = local
  team = team
  dev = dev
  cm = cm
  Unset = Unset
  None = None
  Names = {svc, fastapi, unsafe, truth}
  SafeNames = {svc, fastapi, truth}
  PaddedNames = {unsafe}
  FastAPI = fastapi
  ConfigMapName = cm
  Namespace = dev
  Prefixes = {local, team}
  LocalPrefix = local
  Durable = TRUE
  Definitions <- MCDefinitions
  Environments <- MCEnvironments
  DashedNames = {fastapi}
  ForeignNames = {truth}
  KeyRank <- MCKeyRank
  Visits <- MCVisits
  RenderDocuments <- RenderYAMLDocuments
INVARIANTS TypeOK SecondCheckAgrees DeployedWithinPolicy RunningCapped ClusterMatchesRegistry RenderedTwiceAlike 
