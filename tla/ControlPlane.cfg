\* Two nodes; each of the services by itself.
SPECIFICATION MCSpec
CONSTANTS
  Nodes = {1, 2}
  Migrations = {1, 2}
  Pids = {}
  Submissions <- MCSubmissions
  Requests <- MCRequests
  Runs = {1, 2}
  Busy = {1}
  MaxGeneration = 1
  MaxDecisions = 1
  MaxRestarts = 1
  ArtifactNodes = {1, 2}
  Origins = {1}
  Users = {11, 12}
  Versions = {1, 2}
  Prefetches = {1, 2}
  MaxDamaged = 1
  MaxCrashes = 1
  AccountingNodes = {1, 2}
  Workers = {1, 2}
  First = 1
  MaxTime = 2
  MaxSpeed = 1
  MaxMoves = 1
  MaxAtOnce = 2
  MaxChanges = 4
  Links = {1, 2}
  ProbeEvery = 1
  MeasureEvery = 1
  StaleAfter = 1
  Asked = {2}
  MaxIncidents = 2
  Places = {1, 2}
  Traces <- MCTraces
  Price <- MCPrice
  TransferTime = 1
  Egress = 1
  Network = 1
  PauseTime = 0
  ResumeTime = 0
  IdleCandidates = {1, 2}
  MaxPauseWindow = 4
  MinPauseGap = 3
  MinMigrationGap = 2
  RequiredImprovement = 4
  Horizon = 2
  Weight <- MCWeight
  MultiplierBound = 4
  RollingWindow = 2
  CarbonStaleAfter = 1
  MaximumChange = 2
  Work = 3
  Deadline = 5
  CostCap = 8
  Confidences = {2, 4}
  MaxTicks = 4
  MaxClockRestarts = 1
INVARIANTS
  MCTypeOK
  CatalogIsSound
  OneOwner
  LinkedIsGood
  RateIsPossible
  GoneIsNotMeasured
  NoForesight
  BoundsCover
  WorthIt
PROPERTIES
  KnowledgeGrows
  TasksSpread
  ClaimsSpread
  VersionKept
  MeasuredSeldom
  LinksKnown
CHECK_DEADLOCK FALSE
