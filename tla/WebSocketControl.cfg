SPECIFICATION Spec
CONSTANTS
  Streams <- PingThenText
  Garbage = {0}
CHECK_DEADLOCK FALSE
INVARIANTS OnlyMessagesSeen
