\* The presets of the two ends group differently: by two and by four.
SPECIFICATION Spec
CONSTANTS
  Modulus = 56
  NoNumber = NoNumber
  Free = Free
  NoShrink = NoShrink
  FirstDelay = 2
  LargestDelay = 2
  DepthWindow = 3
  MinWindow = 20
  CleanToShrink = 10
  MaxCleanToShrink = 80
  BounceWithin = 3
  MaxGroups = 2
  NoFec = NoFec
  NoRecovery = NoRecovery
  Window = 3
  SendGroup = 2
  HearGroup = 4
  MaxSent = 8
  MaxTroubles = 3
INVARIANTS
  HandedIsSent
CHECK_DEADLOCK FALSE
