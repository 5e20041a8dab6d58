SPECIFICATION Spec
CONSTANTS
    MaxPlayers = 4
    Places = {p1, p2, p3}
INVARIANTS
    TagsTheVector
CHECK_DEADLOCK FALSE
