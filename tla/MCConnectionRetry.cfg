\* One path that breaks and works again; both users ask to reconnect.
SPECIFICATION Spec
CONSTANTS
  ann = ann
  bob = bob
  lan = lan
  wan = wan
  Ends = {ann, bob}
  Paths = {lan}
  NoPath = NoPath
  NoPing = NoPing
  Offers = {{lan}}
  Networks <- JustWell
  AskedDetect = 1
  GiveUpAfter = 4
  TwicePingCap = 2
  MaxChanges = 2
  MaxRetries = 1
  Watched = {lan}
  Shared = 3
INVARIANT RetryIsHeard
CHECK_DEADLOCK FALSE
