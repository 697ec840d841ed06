SPECIFICATION Spec
CONSTANTS
    me = me
    ann = ann
    nobody = nobody
    Ids = {me, ann}
    Name <- MCName
    Addresses = {1}
    Nobody = nobody
    MaxConns = 2
    Own = me
    RoomLists <- MCRoomLists
    MaxAttempts = 2
    MaxCommands = 3
    MaxLosses = 1
    MaxNews = 2
CHECK_DEADLOCK FALSE
INVARIANTS
    ScreenCoherent
    AudioIsTheRosters
    NoConnectionLeaked
    SomebodyIsAtIt
    RosterCatchesUp
    LeftForGood
