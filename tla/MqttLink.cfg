SPECIFICATION FairSpec
CONSTANTS
  Wrap = 7
  mqttTryReconnectInterval = 2
  wifiTryReconnectInterval = 2
  SetupTries = 2
  JoinTime = 1
  StepTime = 1
\* An unplugged logger has stopped: the one state without a successor.
CHECK_DEADLOCK FALSE
INVARIANTS
  AnnouncedAndSubscribed
  NoOrphanOnline
PROPERTIES
  RetriesSpaced
  Recovers
  GoneIsNoticed
