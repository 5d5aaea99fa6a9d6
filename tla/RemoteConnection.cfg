CONSTANTS
  MaxAttempts = 10
  Forward = {f1, f2}
  MaxTries = 6
SPECIFICATION RemoteSpec
CHECK_DEADLOCK FALSE
INVARIANTS
  HandedOverStands
  StoppedLeavesNothing
  MySQLStaysReadOnly
  StaleSessionHeals
PROPERTIES
  ImplementsSupervisor
  AbandonedEnds
  StopReturns
  LossIsNoticed
  CancelEndsStart
  PoolCallsEnd
