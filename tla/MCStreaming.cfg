\* Three sessions, two changes, one thread that outlasts its stop.
SPECIFICATION Spec
CONSTANTS
  mic = mic
  line = line
  Devices = {mic, line}
  Nothing = Nothing
  Silent = Silent
  Stop = Stop
  MaxSessions = 3
  MaxChanges = 2
  MaxSlow = 1
SYMMETRY Alike
INVARIANTS
  SavedReachesSession
  InUseOrTold
  LinkIsCurrent
PROPERTY RunsUntilToldInTime
CHECK_DEADLOCK FALSE
