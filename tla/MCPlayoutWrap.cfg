\* A ring for delays of up to 2; presets 0 and 2; numbers start over at 33, where
\* slots are off by 3 (in the code by 6).
SPECIFICATION Spec
CONSTANTS
  Modulus = 33
  NoNumber = NoNumber
  Free = Free
  NoShrink = NoShrink
  FirstDelay = 0
  LargestDelay = 2
  DepthWindow = 2
  MinWindow = 3
  CleanToShrink = 1
  MaxCleanToShrink = 2
  BounceWithin = 1
  Jitter = 1
  Lateness = 2
  Presets = {0, 2}
  MaxTroubles = 3
  MaxWindow = 3
CHECK_DEADLOCK FALSE
PROPERTY
  WaitsForItsTurn
