SPECIFICATION Spec
CONSTANTS
  p1 = p1
  Pause = {p1}
  Message = {m1, m2}
  PauseOf <- OnePause
  MaxDeliveries = 1
  Sub = {s1}
  Dispatcher = {d1, d2}
  NoRow = NoRow
  BatchSize = 1
  MaxAttempts = 2
  BaseDelay = 1
  MaxDelay = 1
  MaxEvents = 2
  MaxTouched = 1
  MaxFaults = 2
INVARIANTS DispatchedWasAccepted AckedIsAnnounced
PROPERTIES TerminalIsNotRetried PassesCount
CHECK_DEADLOCK FALSE
SYMMETRY Symmetry
