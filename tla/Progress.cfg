SPECIFICATION FairSpec
CONSTANTS
    c1 = c1
    c2 = c2
    s1 = s1
    s2 = s2
    NoSocket = NoSocket
    Clients = {c1, c2}
    Sockets = {s1, s2}
    Capacity = 1
    MaxClients = 1
    MaxPlayers = 2
    MaxPresses = 1
    MaxInputs = 0
    MaxQuits = 0
    MaxEnds = 1
    MaxQueue = 2
    Width = 2
    Height = 1
    Margin = 0
    Walls <- MCWalls
    EmptyCells <- MCEmptyCells
    Clicks <- MCClicks
    FindPathAnswers <- MCFindPathAnswers
INVARIANT BroadcastList
PROPERTIES
    MutexIsReleased
    DeadConnectionsAreClosed
CHECK_DEADLOCK FALSE
