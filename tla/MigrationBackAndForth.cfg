\* Two migrations in a row, one failure.
SPECIFICATION FairSpec
CONSTANTS
  Nodes = {n1, n2}
  Home = n1
  Migrations = {1, 2}
  Pids = {1, 2, 3}
  MaxAttempts = 2
  MaxFaults = 1
  Faults = {"startFails", "serviceCrash"}
INVARIANTS
  OneOwnerPerGeneration
  OwnershipAfterCommit
PROPERTIES
  ImplementsHandover
  DecisionIsFinal
  GenerationFallsOnlyOnAbort
  EventuallyLookedAfter
\* The migrations and faults of a behaviour are bounded, so it may come to rest.
CHECK_DEADLOCK FALSE
