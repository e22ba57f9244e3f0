\* One worker and one task.
CONSTANTS
    Workers = {w1}
    Tasks = {t1}
    NoTask = NoTask
SPECIFICATION Spec
PROPERTY StopEnds
CHECK_DEADLOCK FALSE
