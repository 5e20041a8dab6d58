SPECIFICATION Spec
CONSTANTS
    BufferSize = 4096
    ImageLengths = {30}
    MaxPlayers = 2
    MaxPath = 2
INVARIANTS
    SerializeStaysInside
CHECK_DEADLOCK FALSE
