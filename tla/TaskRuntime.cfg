SPECIFICATION FairSpec
CONSTANTS
  Nodes = {n1}
  Migrations = {}
  Pids = {1, 2}
  Procs = {1, 2}
  Units = 1
  SaveEvery = 2
  Kinds = {"file", "parts", "native"}
  Here = n1
  MaxRestarts = 1
  RecoveryEnabled = TRUE
  LogMustTell = TRUE
  Requests = {"start", "stop", "pause", "resume"}
  MaxRequests = 2
  MaxFaults = 1
CHECK_DEADLOCK FALSE
INVARIANTS
  CompletionIsEarned
PROPERTIES
  PauseEnds
  FailureIsHandled
  DeathIsNoticed
