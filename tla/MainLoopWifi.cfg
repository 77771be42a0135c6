SPECIFICATION Spec
CONSTANTS
  pw = pw
  in = in
  hr = hr
  Power <- OnePower
  Other <- OneOther
  registerCount <- OneRegister
  BlinkPause = 1
INVARIANT WifiLossIsShown
