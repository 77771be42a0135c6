SPECIFICATION MCSpec
CONSTANTS
  Clients = {c1, c2}
  SndBuf = 12
  MsgLen = 6
  MaxQueued = 2
  MaxClients = 1
  Faults = {"malloc", "data"}
  MaxTexts = 2
  MaxControls = 1
  MaxPings = 1
  MaxFaults = 1
  Streams <- MCStreams
  Garbage = {0, 7}
  Browsers = {b1}
  Lens = {1, 2, 3}
  Room = 3
  Wrap = 8
  MaxEvents = 4
  Percent = "%"
  Texts <- MCTexts
  Names <- MCNames
  Value <- MCValue
  NameLength = 3
  Rooms = {1, 2, 3, 5, 8}
  MaxPieces = 4
\* The clients have gone, the frames have come, the page is sent, the bounds
\* are reached.
CHECK_DEADLOCK FALSE
INVARIANTS
  MessagesIntact
  BuffersHeld
  
  EventsWhole
  Expanded
PROPERTIES
  CloseAnswered
