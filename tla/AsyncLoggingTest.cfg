\* Two front ends of three lines each, over a BlockingQueue and over
\* BoundedBlockingQueues of one and of two; or buffers of four bytes that hold
\* three, lines of one, two and four bytes, more than three buffers dropped.
CONSTANTS
    Sizes = {1, 2}
    NoBound = NoBound
    FrontEnds = {f1, f2}
    Owner = MainThread
    Logger = LoggingThread
    MaxLines = 3
    Stop = Stop
    Size = 4
    Lengths = {1, 2, 4}
    MaxBuffers = 3
    MaxAppended = 5
    NULL = NULL
SPECIFICATION TestSpec
INVARIANTS
    EarlyLinesWritten
    LinesInOrder
    SparesReady
PROPERTIES
    StartAndStopReturn
    AppendReturns
    LineIsWritten
    StopEndsLogging
CHECK_DEADLOCK FALSE
