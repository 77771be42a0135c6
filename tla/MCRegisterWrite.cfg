SPECIFICATION MCSpec
CONSTANTS
  Value = {0, 1, 2}
  maxModbusReadRetries = 3
  Refusals <- MCRefusals
  Garbled <- MCGarbled
  MaxCommands = 3
  Slaves <- MCSlaves
  WordMod = 32768
  BufferWords = 64
  Patterns = {1, 2, 3}
  Content <- MCContent
  Payloads <- MCPayloads
  Parts = 100
  LongMax = 1048575
INVARIANTS
  AnswerIsTrue
  PublishedIsHeld
  CommandIsShown
PROPERTIES
  WriteIsAtomic
