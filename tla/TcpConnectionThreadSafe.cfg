\* One thread that gets the connection from a callback, and one send().
CONSTANTS
    Threads = {t1}
    MaxSends = 1
    MaxSharedSends = 1
    MaxData = 0
SPECIFICATION FairSpec
INVARIANT ThreadSafe
CHECK_DEADLOCK FALSE
