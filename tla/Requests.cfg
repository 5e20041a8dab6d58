SPECIFICATION Spec
CONSTANTS
    c1 = c1
    s1 = s1
    NoSocket = NoSocket
    Clients = {c1}
    Sockets = {s1}
    Capacity = 2
    MaxClients = 1
    MaxPlayers = 2
    MaxPresses = 2
    MaxInputs = 1
    MaxQuits = 2
    MaxEnds = 1
    MaxQueue = 3
    Width = 2
    Height = 1
    Margin = 0
    Walls <- MCWalls
    EmptyCells <- MCEmptyCells
    Clicks <- MCClicks
    FindPathAnswers <- MCFindPathAnswers
PROPERTY
    ImplementsLevel
CHECK_DEADLOCK FALSE
