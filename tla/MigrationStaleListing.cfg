\* A record listed before the lock is free is reconciled afterwards.
SPECIFICATION Spec
CONSTANTS
  Nodes = {n1, n2}
  Home = n1
  Migrations = {1}
  Pids = {1, 2, 3}
  MaxAttempts = 2
  MaxFaults = 0
  Faults = {"staleList"}
INVARIANTS
  NoDuplicateExecution
\* The migrations and faults of a behaviour are bounded, so it may come to rest.
CHECK_DEADLOCK FALSE
