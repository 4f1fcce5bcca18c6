SPECIFICATION FairSpec
CONSTANTS
  plan = plan
  gate = gate
  push = push
  t1 = t1
  t2 = t2
  START = START
  END = END
  NoTask = NoTask
  NoWorker = NoWorker
  NoEvent = NoEvent
  Node <- GateNodes
  Entry = plan
  Succ <- GateSucc
  HumanGates <- GateHuman
  ApproveTo <- GateApprove
  RejectTo <- GateReject
  Budgeted = {}
  BudgetPolicy = "none"
  Task = {t1}
  Worker = {w1, w2}
  Operator = {o1}
  Sweeper = {s1}
  ChildOf <- NoChain
  MaxAttempts = 1
  BatchSize = 1
  RecoverLimit = 1
  SweepBatch = 1
  FaultKinds = {"crash", "handler", "chain", "recover"}
  StableNames = TRUE
  MaxSeq = 8
  MaxResumes = 2
  MaxEntries = 4
  MaxPubs = 1
  MaxStamp = 1
  MaxFaults = 1
INVARIANTS TypeOK LinearHistory OutcomeMatchesLog NoLostTask
PROPERTIES LogIsSequential EveryTaskSettles
CHECK_DEADLOCK FALSE
