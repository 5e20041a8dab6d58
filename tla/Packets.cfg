SPECIFICATION Spec
CONSTANTS
    BufferSize = 4096
    ImageLengths = {30, 176, 179, 1609}
    MaxPlayers = 40
    MaxPath = 100
INVARIANTS
    ShortPacketsFit
    RoundTrip
CHECK_DEADLOCK FALSE
