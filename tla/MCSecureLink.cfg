SPECIFICATION Spec
CONSTANTS
    RolePairs <- EveryPair
    Restarting = {"a"}
    MaxLinks = 2
    MaxCounter = 2
    ReplayWindow = 1
    MaxFaults = 1
    MaxInFlight = 2
INVARIANTS
    TypeOK
    OpenedOnce
    MediaCountedOnce
    NeverPlainBetweenEncrypters
PROPERTIES
    ConfirmedKeysStand
CHECK_DEADLOCK FALSE
