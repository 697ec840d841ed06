\* Three sessions, one thread that outlasts its stop.
SPECIFICATION Spec
CONSTANTS
  mic = mic
  line = line
  Devices = {mic, line}
  Nothing = Nothing
  Silent = Silent
  Stop = Stop
  MaxSessions = 3
  MaxChanges = 1
  MaxSlow = 1
SYMMETRY Alike
PROPERTY RunsUntilTold
CHECK_DEADLOCK FALSE
