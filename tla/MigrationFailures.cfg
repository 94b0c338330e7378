\* One migration, any two failures.
SPECIFICATION FairSpec
CONSTANTS
  Nodes = {n1, n2}
  Home = n1
  Migrations = {1}
  Pids = {1, 2, 3}
  MaxAttempts = 2
  MaxFaults = 2
  Faults = {"exit", "startFails", "crash", "serviceCrash"}
INVARIANTS
  NoDuplicateExecution
  NoOrphanProcess
  ActivatedConsumed
PROPERTIES
  RestartOnlyIfNotCommitted
  MigrationEnds
\* The migrations and faults of a behaviour are bounded, so it may come to rest.
CHECK_DEADLOCK FALSE
