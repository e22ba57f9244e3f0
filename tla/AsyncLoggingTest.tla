-------------------------- MODULE AsyncLoggingTest --------------------------
(***************************************************************************)
(* The program that uses the asynchronous loggers                          *)
(* (logging/AsyncLogging_test.cc): main() constructs them all and logs     *)
(* through the one that its argument names, one over a queue (log1 to      *)
(* log4) or the one over buffers (log5).  The others are never started.    *)
(***************************************************************************)
EXTENDS AsyncLoggingQueue, AsyncLoggingDoubleBuffering

VARIABLE which      \* the logger of bench(): "queue" or "buffers"

testVars == <<vars, bufferVars, which>>

\* The capacity of a queue that is not used does not matter.
TestInit ==
    /\ Init /\ BufferInit
    /\ which \in {"queue", "buffers"}
    /\ which = "buffers" => maxSize = NoBound

OverQueue == which = "queue" /\ UNCHANGED <<which, bufferVars>>
OverBuffers == which = "buffers" /\ UNCHANGED <<which, queueVars, lineVars>>

TestNext ==
    \/ Next /\ OverQueue
    \/ BufferNext /\ OverBuffers

\* Fairness of Spec and of BufferSpec, for the logger in use.
TestFairness ==
    /\ WF_testVars(OwnerGoesOn /\ OverQueue)
    /\ WF_testVars(LoggerGoesOn /\ OverQueue)
    /\ \A f \in FrontEnds : WF_testVars(FrontEndGoesOn(f) /\ OverQueue)
    /\ WF_testVars(BufferOwnerGoesOn /\ OverBuffers)
    /\ WF_testVars(BufferLoggerGoesOn /\ OverBuffers)

TestSpec == TestInit /\ [][TestNext]_testVars /\ TestFairness
=============================================================================
