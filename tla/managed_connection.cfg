\* A queue of two, four messages, three sockets; default ping settings.
CONSTANTS
    QueueCap = 2
    PingOverlaps = FALSE
    MaxSends = 4
    MaxSockets = 3
SPECIFICATION FairSpec
INVARIANTS FirstInFirstOut OldestGoFirst TimeoutHitsItsSocket
PROPERTIES ClosedStaysClosed ConnectionSettles
CHECK_DEADLOCK FALSE
