SPECIFICATION MCSpec
CONSTANTS
  Requests <- MCRequests
  Handlers <- MCHandlers
  Reactions = {"send", "later", "never"}
  MaxSegment = 8
  Boundary <- MCBoundary
  Contents <- MCContents
  BufferSize = 2
  SndBufs = {4, 7}
  ContinueLens = {0, 1, 2}
  HeadLen = 3
  ContentLens = {0, 1, 2, 5}
  FrameHead = 2
  FrameTail = 1
  MaxFaults = 2
\* A request, a body or a response that is done stops.
CHECK_DEADLOCK FALSE
INVARIANTS
  HandledWhole
  ItemsAsSent
  WholeResponse
PROPERTIES
  ConnectionEnds
  Completes
