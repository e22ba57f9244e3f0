\* No, one, two or three workers, three tasks.
CONSTANTS
    Workers = {w1, w2, w3}
    Tasks = {t1, t2, t3}
    NoTask = NoTask
SPECIFICATION Spec
INVARIANT EnoughAwake
PROPERTIES
    TaskIsRun
    StopEndsWorkers
CHECK_DEADLOCK FALSE
