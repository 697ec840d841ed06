\* A stream nothing happens to; two groups may be kept.
SPECIFICATION Spec
CONSTANTS
  Modulus = 56
  NoNumber = NoNumber
  Free = Free
  NoShrink = NoShrink
  FirstDelay = 2
  LargestDelay = 2
  DepthWindow = 3
  MinWindow = 20
  CleanToShrink = 10
  MaxCleanToShrink = 80
  BounceWithin = 3
  MaxGroups = 2
  NoFec = NoFec
  NoRecovery = NoRecovery
  Window = 3
  SendGroup = 2
  HearGroup = 2
  MaxSent = 8
  MaxTroubles = 0
INVARIANTS
  GroupsAreForgotten
CHECK_DEADLOCK FALSE
