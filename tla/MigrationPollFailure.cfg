\* The last status query fails after an earlier one was answered.
SPECIFICATION Spec
CONSTANTS
  Nodes = {n1, n2}
  Home = n1
  Migrations = {1}
  Pids = {1, 2, 3}
  MaxAttempts = 2
  MaxFaults = 1
  Faults = {"flakyQuery", "serviceCrash"}
PROPERTIES
  RestartOnlyIfNotCommitted
\* The migrations and faults of a behaviour are bounded, so it may come to rest.
CHECK_DEADLOCK FALSE
