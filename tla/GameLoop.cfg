SPECIFICATION GameLoopSpec
CONSTANTS
    MaxPresses = 2
    ScreenWidth = 2
    ScreenHeight = 4
    Keys = {"UP", "RETURN", "ESCAPE"}
    MaxEvents = 2
    EarlyKeys = {"UP", "RETURN"}
    GameMap <- MCGameMap
    Places <- MCPlaces
INVARIANTS
    LoopHasLevel
    OwnIdOrNone
    ShowsLastFrame
    OneFrameAfterQuit
PROPERTIES
    GameIsShown
    OncePerPress
    PicksWhatIsMarked
CHECK_DEADLOCK FALSE
