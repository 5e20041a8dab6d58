SPECIFICATION Spec
CONSTANTS
    c1 = c1
    c2 = c2
    s1 = s1
    s2 = s2
    NoSocket = NoSocket
    Clients = {c1, c2}
    Sockets = {s1, s2}
    Capacity = 3
    MaxClients = 2
    MaxPlayers = 2
    MaxPresses = 1
    MaxInputs = 0
    MaxQuits = 0
    MaxEnds = 2
    MaxQueue = 4
    Width = 2
    Height = 1
    Margin = 0
    Walls <- MCWalls
    EmptyCells <- MCEmptyCells
    Clicks <- MCClicks
    FindPathAnswers <- MCFindPathAnswers
INVARIANTS
    IdsReady
    IdsUnique
    OnlyTheGoneAreMistaken
    NoPathBeforeId
    BroadcastList
SYMMETRY Symmetry
CHECK_DEADLOCK FALSE
