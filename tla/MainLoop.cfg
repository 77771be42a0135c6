SPECIFICATION FairSpec
CONSTANTS
  pw = pw
  in = in
  hr = hr
  Power <- OnePower
  Other <- TwoOther
  registerCount <- SomeRegisters
  BlinkPause = 2
INVARIANTS
  PollTickKept
  ServicedBetweenPolls
  BlueShowsDevices
PROPERTIES
  TicksServed
  LedFollowsDevices
