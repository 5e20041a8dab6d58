SPECIFICATION FairSpec
CONSTANTS
    c1 = c1
    c2 = c2
    s1 = s1
    s2 = s2
    NoSocket = NoSocket
    Clients = {c1, c2}
    Sockets = {s1, s2}
    Capacity = 2
    MaxClients = 2
    MaxPlayers = 2
    MaxPresses = 1
    MaxInputs = 0
    MaxQuits = 0
    MaxEnds = 0
    MaxQueue = 3
    Width = 2
    Height = 1
    Margin = 0
    Walls <- MCWalls
    EmptyCells <- MCEmptyCells
    Clicks <- MCClicks
    FindPathAnswers <- MCFindPathAnswers
PROPERTY
    EnteringClientGetsId
CHECK_DEADLOCK FALSE
