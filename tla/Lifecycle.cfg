SPECIFICATION Spec
CONSTANTS
    Nobody = Nobody
    Sockets = {s1, s2}
    MaxClients = 1
    MaxWait = 1
    MaxUnread = 1
INVARIANTS
    JoinedBeforeFree
PROPERTIES
    StopEnds
    QuitReachesServer
    PendingIsAccepted
CHECK_DEADLOCK FALSE
