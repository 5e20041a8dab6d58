SPECIFICATION Spec
CONSTANTS
    Width = 3
    Height = 3
    Margin = 1
    MaxWalls = 3
    MaxCost = 20
    Maps <- MCMaps
    Starts <- MCStarts
    Ends <- MCEnds
INVARIANTS
    AnswerIsRoute
    AnswerIsCheapest
    OnlyReplacedLeak
PROPERTIES
    TakenIsFinal
    Terminates
CHECK_DEADLOCK FALSE
