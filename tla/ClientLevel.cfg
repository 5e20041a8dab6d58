SPECIFICATION Spec
CONSTANTS
    PlayersIn <- MCPlayersIn
    MaxPaths = 3
INVARIANTS
    DrawnTogether
PROPERTIES
    ShownInOrder
    ImplementsHandOver
    AcceptedIsShown
CHECK_DEADLOCK FALSE
