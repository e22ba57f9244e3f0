\* The owner alone: startLoop(), one callback, the destructor.
CONSTANTS
    Callers = {c1}
    Owner = c1
    Functors = {f1}
    EventFdMax = 2
SPECIFICATION ThreadSpec
PROPERTY
    DestructorReturns
CHECK_DEADLOCK FALSE
