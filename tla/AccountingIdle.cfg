\* One operation at a time: no update is lost.
SPECIFICATION AccountSpec
CONSTANTS
  AccountingNodes = {1, 2}
  Workers = {1}
  First = 1
  MaxTime = 2
  MaxSpeed = 1
  MaxMoves = 0
  MaxAtOnce = 1
  MaxChanges = 6
INVARIANT
  IdleIsNotCharged
CHECK_DEADLOCK FALSE
