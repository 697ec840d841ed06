\* A network that stays as it was, with one path that works; one retry.
SPECIFICATION FairSpec
CONSTANTS
  ann = ann
  bob = bob
  lan = lan
  wan = wan
  Ends = {ann, bob}
  Paths = {lan, wan}
  NoPath = NoPath
  NoPing = NoPing
  Offers = {{lan, wan}}
  Networks <- Several
  AskedDetect = 1
  GiveUpAfter = 4
  TwicePingCap = 2
  MaxChanges = 0
  MaxRetries = 1
  Watched = {lan}
  Shared = 0
PROPERTIES
  SettlesOnAWorkingPath
  LostOrFound
  GoneIsNoticed
CHECK_DEADLOCK FALSE
