SPECIFICATION MCSpec
CONSTANTS
  NumSets = 3
  RegisterSets <- ThreeSets
  maxModbusReadRetries = 3
  Errors <- MCErrors
  Unknown = Unknown
  MaxPolls = 3
INVARIANTS
  ShowsOnePoll
PROPERTIES
  PollIsAtomic
