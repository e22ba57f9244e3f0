\* A program of one thread, and two loops with a thread that uses the
\* connection, where a failed assertion ends a behaviour.
CONSTANTS
    Threads = {t1}
    MaxSends = 3
    MaxSharedSends = 2
    MaxData = 1
SPECIFICATION FairSpec
INVARIANTS
    StreamInOrder
    NoFault
    PollerForgets
PROPERTIES
    FinAfterOutput
    ClosedIsDestroyed
    ShutdownSendsFin
CHECK_DEADLOCK FALSE
