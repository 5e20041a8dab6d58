SPECIFICATION TrackSpec
CONSTANTS
    Width = 4
    Height = 1
    Margin = 0
    MaxPlayers = 3
    Walls <- MCWalls
    EmptyCells <- MCEmptyCells
    Clicks <- MCClicks
    FindPathAnswers <- MCFindPathAnswers
INVARIANTS
    IdsIncreasing
    IndexIsId
    NoPlayerOutlivesExit
    SeekerPresent
    OnFloor
    OnPath
PROPERTIES
    TagsSpreadByContact
    NoJumps
CHECK_DEADLOCK FALSE
