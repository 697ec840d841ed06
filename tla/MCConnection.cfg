\* Two ends, two paths of which one direction changes once, one retry.
SPECIFICATION Spec
CONSTANTS
  ann = ann
  bob = bob
  lan = lan
  wan = wan
  Ends = {ann, bob}
  Paths = {lan, wan}
  NoPath = NoPath
  NoPing = NoPing
  Offers = {{lan, wan}, {lan}}
  Networks <- SomeWell
  AskedDetect = 1
  GiveUpAfter = 6
  TwicePingCap = 3
  MaxChanges = 1
  MaxRetries = 1
  Watched = {lan}
  Shared = 6
PROPERTY GivesUpOnlyOnDeadPaths
CHECK_DEADLOCK FALSE
