SPECIFICATION FairSpec
CONSTANTS
  Events = {1, 2}
  Dispatcher = {d1, d2}
  BatchSize = 2
  MaxAttempts = 3
  BaseBackoff = 1
  MaxBackoff = 2
  MaxOutages = 3
  MaxCrashes = 1
  MaxDbErrors = 2
INVARIANTS DispatchedWasSent FailedUsedBudget
PROPERTY RowsSettleWhileRelayed
CHECK_DEADLOCK FALSE
