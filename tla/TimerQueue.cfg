\* Two timers over two addresses, so that an address is used again.
CONSTANTS
    Addrs = {1, 2}
    Callers = {c1}
    Whens = {0, 1, 2}
    Intervals = {0, 1}
    MaxTimers = 2
    MaxClock = 3
    MaxPending = 2
SPECIFICATION FairSpec
INVARIANTS
    TypeOK
    SetsAgree
    OneOwner
    NoTimerLost
    NeverAgain
    AlarmInTime
PROPERTY TimerRuns
