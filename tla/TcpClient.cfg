\* Delays 1, 2 and then 3; the other thread calls stop() once.
CONSTANTS
    kInitRetryDelayMs = 1
    kMaxRetryDelayMs = 3
SPECIFICATION Spec
INVARIANTS
    AssertionsHold
    OneAttempt
PROPERTIES
    StopInLoopIsFinal
    RetryConnects
