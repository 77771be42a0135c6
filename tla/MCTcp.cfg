SPECIFICATION MCSpec
CONSTANTS
  SndBuf = 2
  W = 4
  AckTimeout = 2
  Reactions = {"none", "add", "send", "write", "writeFails", "outputFails", "close", "closeNow", "closeAborts"}
  Clients = {"c1", "c2"}
  Slots = 1
  QueueLen = 3
  MaxEvents = 4
  Terminators = {2, 5}
  Sizes = {1, 2}
  MaxSegment = 3
  Mss = 2
  MaxRx = 6
  MaxTx = 5
  BufferRoom = 3
\* A closed connection is quiet, and the bounds end the others.
CHECK_DEADLOCK FALSE
INVARIANTS
  CallbacksSafe
  DisconnectReportedOnce
  TxAccounted
  ClosedIsSilent
  SlotGuardsPcb
  BytesInOrder
PROPERTIES
  CloseHappens
  Drains
