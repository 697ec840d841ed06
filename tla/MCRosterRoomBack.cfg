CONSTANTS
  m = m
  n = n
  p = p
  q = q
  r = r
  Nobody = Nobody
  Ids <- MCIds
  Name <- MCName
  OwnIds = {m, n}
  Addresses = {1, 2}
  MayPublish <- MCMayPublish
  MaxFailures = 1
SPECIFICATION Spec
CHECK_DEADLOCK FALSE
INVARIANT NotBackToOneLeft
