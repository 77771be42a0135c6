SPECIFICATION Spec
CONSTANTS
  Clients = {c1}
  Lens = {1, 3}
  SndBuf = 3
  W = 8
  MaxEvents = 5
CHECK_DEADLOCK FALSE
INVARIANTS AckedWasSent
