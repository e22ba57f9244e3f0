-------------------------- MODULE AsyncLoggingQueue --------------------------
(***************************************************************************)
(* muduo::AsyncLoggingT (logging/AsyncLoggingQueue.h) over either queue:   *)
(* front end threads put lines, the logging thread takes and writes them   *)
(* until it finds the empty message that stop() puts.                      *)
(*                                                                         *)
(* The owner starts and stops the logging; front ends append from when     *)
(* start() has returned, and nothing keeps them from appending during and  *)
(* after stop().  Lines are not empty (Logger ends each with a newline).   *)
(***************************************************************************)
EXTENDS BlockingQueue, AsyncLogging, FiniteSets, Functions

CONSTANTS
    FrontEnds,      \* the threads that log
    Logger,         \* thread_
    MaxLines,       \* bound: lines of a front end
    Stop            \* MSG(), the empty message

\* Lines are not empty: none is taken for the message of stop().  The threads
\* are finitely many, and different ones.
ASSUME AsyncLoggingQueueAssumption ==
    /\ Stop \notin FrontEnds \X Nat
    /\ IsFiniteSet(FrontEnds)
    /\ Owner \notin FrontEnds /\ Logger \notin FrontEnds \cup {Owner}

VARIABLES
    msg,            \* the message it has taken
    front,          \* front[f]: whether f is in append()
    lines,          \* lines[f]: lines that f has begun to append
    file,           \* history: what output.append() was given
    early           \* history: the lines appended before stop() was called

lineVars == <<msg, front, lines, file, early>>
app == <<loggingVars, lineVars>>
vars == <<queueVars, latchVars, app>>

\* The logging thread can also be at take() (take) or have taken a message
\* (taken).
Init ==
    /\ QueueInit
    /\ LoggingInit
    /\ msg = Stop
    /\ front = [f \in FrontEnds |-> FALSE]
    /\ lines = [f \in FrontEnds |-> 0]
    /\ file = << >> /\ early = {}

Line(f) == <<f, lines[f]>>

-----------------------------------------------------------------------------
(* Front ends: append().                                                   *)

CallAppend(f) ==
    /\ main \notin {"new", "waiting"}
    /\ ~front[f] /\ lines[f] < MaxLines
    /\ front' = [front EXCEPT ![f] = TRUE]
    /\ lines' = [lines EXCEPT ![f] = @ + 1]
    /\ UNCHANGED <<queueVars, latchVars, running, main, logger, msg, file, early>>

AppendWaits(f) ==
    /\ front[f]
    /\ PutWaits(f)
    /\ UNCHANGED <<latchVars, app>>

AppendPuts(f) ==
    /\ front[f]
    /\ Put(f, Line(f))
    /\ front' = [front EXCEPT ![f] = FALSE]
    /\ early' = IF running THEN early \cup {Line(f)} ELSE early
    /\ UNCHANGED <<latchVars, running, main, logger, msg, lines, file>>

-----------------------------------------------------------------------------
(* The owner: start() and stop(); the destructor calls stop() too.         *)

StartOrStop == (StartThread \/ StopRunning) /\ UNCHANGED <<queueVars, lineVars>>

\* stop(): queue_.put(MSG()).
StopWaits ==
    /\ main = "stopping"
    /\ PutWaits(Owner)
    /\ UNCHANGED <<latchVars, app>>

StopPuts ==
    /\ main = "stopping"
    /\ Put(Owner, Stop)
    /\ main' = "joining"
    /\ UNCHANGED <<latchVars, running, logger, msg, front, lines, file, early>>

\* The rest of start() and of stop().
OwnerReturns ==
    /\ StartWaits \/ StartReturns \/ StopReturns
    /\ UNCHANGED <<queueVars, lineVars>>

-----------------------------------------------------------------------------
(* The logging thread: threadFunc().                                       *)

ThreadFunc ==
    /\ logger = "entered"
    /\ CountDown
    /\ logger' = "take"
    /\ UNCHANGED <<queueVars, running, main, msg, front, lines, file, early>>

LoggerWaits ==
    /\ logger = "take"
    /\ TakeWaits(Logger)
    /\ UNCHANGED <<latchVars, app>>

LoggerTakes ==
    /\ logger = "take"
    /\ Take(Logger)
    /\ msg' = Head(queue)
    /\ logger' = "taken"
    /\ UNCHANGED <<latchVars, running, main, front, lines, file, early>>

\* Mutant of Breaks: the loop ends as soon as stop() has been called.
BreaksWhenStopping == msg = Stop \/ ~running

\* if (msg.empty()) ... break
Breaks == msg = Stop

LoggerWrites ==
    /\ logger = "taken"
    /\ IF Breaks THEN logger' = "done" /\ UNCHANGED file
                 ELSE logger' = "take" /\ file' = Append(file, msg)
    /\ UNCHANGED <<queueVars, latchVars, running, main, msg, front, lines, early>>

-----------------------------------------------------------------------------
Wakeup(t) ==
    \/ SpuriousWakeup(t) /\ UNCHANGED <<latchVars, app>>
    \/ LatchSpuriousWakeup(t) /\ UNCHANGED <<queueVars, app>>

OwnerGoesOn == OwnerReturns \/ StopWaits \/ StopPuts
LoggerGoesOn == ThreadFunc \/ LoggerWaits \/ LoggerTakes \/ LoggerWrites
FrontEndGoesOn(f) == AppendWaits(f) \/ AppendPuts(f)

Next ==
    \/ StartOrStop \/ OwnerGoesOn \/ LoggerGoesOn
    \/ \E f \in FrontEnds : CallAppend(f) \/ FrontEndGoesOn(f)
    \/ \E t \in FrontEnds \cup {Owner, Logger} : Wakeup(t)

(***************************************************************************)
(* A thread inside the library goes on unless it waits; no spurious wakeup *)
(* comes to help.  Lines are finitely many, so that nobody is overtaken at *)
(* the mutex for ever.                                                     *)
(***************************************************************************)
Fairness ==
    /\ WF_vars(OwnerGoesOn)
    /\ WF_vars(LoggerGoesOn)
    /\ \A f \in FrontEnds : WF_vars(FrontEndGoesOn(f))

Spec == Init /\ [][Next]_vars /\ Fairness

-----------------------------------------------------------------------------
(* Properties.                                                             *)

(***************************************************************************)
(* No line that was appended before stop() was called is lost, though      *)
(* other front ends go on appending around the empty message: when stop()  *)
(* returns they have all been written.  The lines of a front end are       *)
(* written in its order and once each.                                     *)
(***************************************************************************)
EarlyLinesWritten ==
    /\ main = "stopped" => early \subseteq Range(file)
    /\ \A i, j \in DOMAIN file :
         (i < j /\ file[i][1] = file[j][1]) => file[i][2] < file[j][2]

\* start() and stop() return, even when stop() finds the queue full and
\* front ends compete with it.
StartAndStopReturn ==
    /\ (main = "waiting") ~> (main = "started")
    /\ (main = "stopping") ~> (main = "stopped")

\* A front end that finds the queue full gets its line in, unless stop() has
\* been called: then nobody may make room.
AppendReturns ==
    \A f \in FrontEnds : front[f] ~> (~front[f] \/ ~running)
=============================================================================
