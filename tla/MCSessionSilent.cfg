SPECIFICATION SilentSpec
CONSTANTS
    me = me
    ann = ann
    nobody = nobody
    Ids = {me, ann}
    Name <- MCName
    Addresses = {1}
    Nobody = nobody
    MaxConns = 2
    Own = me
    RoomLists <- JustAnn
    MaxAttempts = 2
    MaxCommands = 2
    MaxLosses = 0
    MaxNews = 0
CHECK_DEADLOCK FALSE
PROPERTIES
    TakesOver
