---------------------------- MODULE AsyncLogging ----------------------------
(***************************************************************************)
(* What the two asynchronous loggers (logging/AsyncLoggingQueue.h,         *)
(* logging/AsyncLoggingDoubleBuffering.h) have in common: the owner that   *)
(* calls start() and stop(), and the logging thread.                       *)
(***************************************************************************)
EXTENDS CountDownLatch

CONSTANT Owner      \* the thread that calls start() and stop()

VARIABLES
    running,        \* running_
    main,           \* where the owner is in start() or stop()
    logger          \* where the logging thread is in threadFunc()

loggingVars == <<running, main, logger>>

(***************************************************************************)
(* main: new, waiting (in latch_.wait()), started, stopping (running_ is   *)
(* cleared), joining (the logging thread was told), stopped.               *)
(* logger: none, entered (in threadFunc(), before countDown()), done, and  *)
(* what each logger adds.                                                  *)
(***************************************************************************)
LoggingInit ==
    /\ LatchInit(1)
    /\ running = FALSE
    /\ main = "new" /\ logger = "none"

\* start(): running_ = true and thread_.start() ...
StartThread ==
    /\ main = "new"
    /\ main' = "waiting"
    /\ running' = TRUE
    /\ logger' = "entered"
    /\ UNCHANGED latchVars

\* ... and latch_.wait().
StartWaits ==
    /\ main = "waiting"
    /\ LatchWaits(Owner)
    /\ UNCHANGED loggingVars

StartReturns ==
    /\ main = "waiting"
    /\ LatchPasses(Owner)
    /\ main' = "started"
    /\ UNCHANGED <<running, logger>>

\* stop(): running_ = false, without a mutex ...
StopRunning ==
    /\ main = "started"
    /\ main' = "stopping"
    /\ running' = FALSE
    /\ UNCHANGED <<latchVars, logger>>

\* ... and, after the logging thread was told, thread_.join().
StopReturns ==
    /\ main = "joining" /\ logger = "done"
    /\ main' = "stopped"
    /\ UNCHANGED <<latchVars, running, logger>>
=============================================================================
