SPECIFICATION FairSpec
CONSTANTS
  plan = plan
  gate = gate
  push = push
  t1 = t1
  t2 = t2
  START = START
  END = END
  NoTask = NoTask
  NoWorker = NoWorker
  NoEvent = NoEvent
  Node <- LineNodes
  Entry = plan
  Succ <- LineSucc
  HumanGates <- NoGates
  ApproveTo <- NoTarget
  RejectTo <- NoTarget
  Budgeted = {push}
  BudgetPolicy = "abort_on_threshold"
  Task = {t1, t2}
  Worker = {w1, w2}
  Operator = {}
  Sweeper = {}
  ChildOf <- ChainT1T2
  MaxAttempts = 1
  BatchSize = 2
  RecoverLimit = 1
  SweepBatch = 1
  FaultKinds = {"crash", "handler", "chain", "recover"}
  StableNames = TRUE
  MaxSeq = 8
  MaxResumes = 2
  MaxEntries = 4
  MaxPubs = 1
  MaxStamp = 1
  MaxFaults = 1
INVARIANT ChildAfterSuccess
PROPERTY EveryTaskSettles
CHECK_DEADLOCK FALSE
