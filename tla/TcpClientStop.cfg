\* stop() in another thread.
CONSTANTS
    kInitRetryDelayMs = 1
    kMaxRetryDelayMs = 1
SPECIFICATION Spec
PROPERTY StopIsFinal
