SPECIFICATION MCSpec
CONSTANTS
  Wrap = 7
  mqttTryReconnectInterval = 2
  StepTime = 2
  Targets = {relay, register}
  Relay = relay
  Unknown = unknown
  Value = {0, 1}
  None = none
  MaxCommands = 3
INVARIANTS
  StrandedOnlyBlind
  AnswersHold
  QueueSound
PROPERTIES
  ComesBack
  AllHandled
