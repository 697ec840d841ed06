SPECIFICATION FairSpec
CONSTANTS
    RolePairs <- EncrypterPairs
    Restarting = {}
    MaxLinks = 1
    MaxCounter = 3
    ReplayWindow = 2
    MaxFaults = 1
    MaxInFlight = 2
INVARIANTS
    PeerHasOurKey
PROPERTIES
    ComesToAgree
CHECK_DEADLOCK FALSE
