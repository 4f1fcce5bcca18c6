SPECIFICATION FairSpec
CONSTANTS
  Backends = {"memory", "redis"}
  QueueMax = 1
  MaxPrompts = 12
  Modes = {"auto", "approve_each_tool", "plan"}
  MaxSteps = 3
  Budgets = {3}
  Usages <- ReportedOrNot
  MaxBatch = 2
  MaxDeliveries = 2
INVARIANTS HistoryAnswered SpendBounded
PROPERTIES Consent NoNeedlessRepeat RunEnds
