\* The owner and one more thread (or main() and two threads), three
\* callbacks, an eventfd that saturates at 2.  The program may end with the
\* destructor.
CONSTANTS
    Callers = {c1, c2}
    Owner = c1
    Functors = {f1, f2, f3}
    EventFdMax = 2
SPECIFICATION ThreadSpec
INVARIANTS
    NoLostWakeup
    NoLostQuit
PROPERTIES
    ImplementsFunctorQueue
    StartLoopReturns
    QueuedRuns
    QuitEndsThread
CHECK_DEADLOCK FALSE
