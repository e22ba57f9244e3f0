\* No, one or two I/O loops; three connections over two descriptors; one call
\* of send() by a thread that keeps a connection.
CONSTANTS
    MaxThreads = 2
    MaxConns = 3
    MaxSends = 1
    Fds = {5, 6}
SPECIFICATION Spec
CHECK_DEADLOCK FALSE
INVARIANTS
    RoundRobin
    PollersSafe
PROPERTY ClosedIsDeleted
