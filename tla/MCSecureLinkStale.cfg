SPECIFICATION Spec
CONSTANTS
    RolePairs <- AppPair
    Restarting = {"a"}
    MaxLinks = 2
    MaxCounter = 3
    ReplayWindow = 2
    MaxFaults = 0
    MaxInFlight = 2
INVARIANTS
    PeerHasOurKey
CHECK_DEADLOCK FALSE
