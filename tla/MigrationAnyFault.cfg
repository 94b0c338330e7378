\* One migration under every interleaving and fault, one failure.
SPECIFICATION Spec
CONSTANTS
  Nodes = {n1, n2}
  Home = n1
  Migrations = {1}
  Pids = {1, 2, 3}
  MaxAttempts = 1
  MaxFaults = 1
  Faults = {"lateRequest", "flakyQuery", "moveOn", "staleList", "recoverEarly", "claimLeak", "exit",
            "completes", "startFails", "crash", "crashOnMove", "crashOnClaim", "serviceCrash",
            "operatorStart"}
INVARIANTS
  TypeOK
  WriteAhead
\* The migrations and faults of a behaviour are bounded, so it may come to rest.
CHECK_DEADLOCK FALSE
