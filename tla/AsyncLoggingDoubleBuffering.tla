-------------------- MODULE AsyncLoggingDoubleBuffering --------------------
(***************************************************************************)
(* muduo::AsyncLoggingDoubleBuffering                                      *)
(* (logging/AsyncLoggingDoubleBuffering.h): front ends append lines to     *)
(* currentBuffer_ under mutex_, the logging thread swaps the full buffers  *)
(* out, writes them without mutex_ and recycles two of them.               *)
(*                                                                         *)
(* A Buffer (FixedBuffer, logging/LogStream.h) is the sequence of the      *)
(* lines in it, and NULL where a BufferPtr is empty.  Lines are numbered   *)
(* in the order in which append() gets mutex_; as each append() is one     *)
(* critical section, the front ends need no state of their own.            *)
(***************************************************************************)
EXTENDS AsyncLogging, Sequences, SequencesExt

CONSTANTS
    Size,           \* sizeof data_ of a Buffer
    Lengths,        \* the lengths of lines
    MaxBuffers,     \* 25: more buffers than this are dropped
    MaxAppended,    \* bound: lines in a behaviour
    NULL

ASSUME BufferAssumption ==
    /\ Size \in Nat /\ Lengths \subseteq Nat \ {0}
    /\ MaxBuffers \in Nat /\ MaxBuffers >= 2
    /\ NULL # << >>

VARIABLES
    currentBuffer,  \* currentBuffer_
    nextBuffer,     \* nextBuffer_, or NULL
    buffers,        \* buffers_
    newBuffer1,     \* newBuffer1 of threadFunc(), or NULL
    newBuffer2,     \* newBuffer2, or NULL
    buffersToWrite, \* buffersToWrite
    output,         \* history: what output.append() was given
    appended,       \* history: the lines given to append()
    lost            \* history: the lines that were dropped

frontBuffers == <<currentBuffer, nextBuffer, buffers>>
backBuffers == <<newBuffer1, newBuffer2, buffersToWrite>>
bufferVars == <<frontBuffers, backBuffers, output, appended, lost>>
doubleVars == <<latchVars, loggingVars, bufferVars>>

\* Line number k has length appended[k].
Length(buffer) == FoldLeft(LAMBDA n, k : n + appended[k], 0, buffer)

\* FixedBuffer::append(): a line that does not fit is left out.
Appended(buffer, k, len) ==
    IF Size - Length(buffer) > len THEN Append(buffer, k) ELSE buffer

\* The logging thread can also be about to test running_ (loop), before the
\* mutex (lock), in waitForSeconds() (waiting), past it (woken) or writing.
BufferInit ==
    /\ LoggingInit
    /\ currentBuffer = << >> /\ nextBuffer = << >> /\ buffers = << >>
    /\ newBuffer1 = NULL /\ newBuffer2 = NULL /\ buffersToWrite = << >>
    /\ output = << >> /\ appended = << >> /\ lost = {}

-----------------------------------------------------------------------------
(* Front ends and owner.                                                   *)

\* cond_.notify(): the logging thread is the only one that waits.
Notified == IF logger = "waiting" THEN "woken" ELSE logger

\* append(): the current buffer, or the next one, or a new one.
AppendLine(len) ==
    LET k == Len(appended) + 1
        fits == Size - Length(currentBuffer) > len
        fresh == << >>
    IN  /\ main \notin {"new", "waiting"}
        /\ k <= MaxAppended
        /\ appended' = Append(appended, len)
        /\ IF fits
             THEN /\ currentBuffer' = Append(currentBuffer, k)
                  /\ UNCHANGED <<nextBuffer, buffers, logger, lost>>
             ELSE /\ buffers' = Append(buffers, currentBuffer)
                  /\ currentBuffer' =
                       Appended(IF nextBuffer # NULL THEN nextBuffer ELSE fresh, k, len)
                  /\ nextBuffer' = NULL
                  /\ lost' = IF currentBuffer' = << >> THEN lost \cup {k} ELSE lost
                  /\ logger' = Notified
        /\ UNCHANGED <<latchVars, running, main, backBuffers, output>>

StartOrStopBuffers == (StartThread \/ StopRunning) /\ UNCHANGED bufferVars

\* stop(): cond_.notify(), without mutex_.
StopNotifies ==
    /\ main = "stopping"
    /\ main' = "joining"
    /\ logger' = Notified
    /\ UNCHANGED <<latchVars, running, bufferVars>>

\* The rest of start() and of stop(), and a wakeup for no reason.
BufferOwnerReturns ==
    (StartWaits \/ StartReturns \/ StopReturns) /\ UNCHANGED bufferVars

LatchWakeup ==
    LatchSpuriousWakeup(Owner) /\ UNCHANGED <<loggingVars, bufferVars>>

-----------------------------------------------------------------------------
(* The logging thread: threadFunc().                                       *)

ThreadFuncBuffers ==
    /\ logger = "entered"
    /\ CountDown
    /\ logger' = "loop"
    /\ newBuffer1' = << >> /\ newBuffer2' = << >>
    /\ UNCHANGED <<running, main, frontBuffers, buffersToWrite, output, appended, lost>>

\* while (running_)
TestRunning ==
    /\ logger = "loop"
    /\ logger' = IF running THEN "lock" ELSE "done"
    /\ UNCHANGED <<latchVars, running, main, bufferVars>>

\* The critical section: it waits when buffers_ is not empty.
Waits ==
    /\ logger = "lock"
    /\ buffers # << >>
    /\ logger' = "waiting"
    /\ UNCHANGED <<latchVars, running, main, bufferVars>>

\* Mutant of WaitEnds: cond_.wait() instead of waitForSeconds().
WaitNeverEnds ==
    /\ logger = "waiting" /\ FALSE
    /\ UNCHANGED doubleVars

\* The timeout of flushInterval_, or a wakeup for no reason.
WaitEnds ==
    /\ logger = "waiting"
    /\ logger' = "woken"
    /\ UNCHANGED <<latchVars, running, main, bufferVars>>

\* The rest of the critical section.
Swap ==
    /\ (logger = "lock" /\ buffers = << >>) \/ logger = "woken"
    /\ logger' = "write"
    /\ buffersToWrite' = Append(buffers, currentBuffer)
    /\ buffers' = << >>
    /\ currentBuffer' = newBuffer1 /\ newBuffer1' = NULL
    /\ IF nextBuffer = NULL
         THEN nextBuffer' = newBuffer2 /\ newBuffer2' = NULL
         ELSE UNCHANGED <<nextBuffer, newBuffer2>>
    /\ UNCHANGED <<latchVars, running, main, output, appended, lost>>

\* Mutant of Recycled: reset() is forgotten.
RecycledFull(buffer) == buffer

\* newBuffer->reset()
Recycled(buffer) == << >>

\* Mutant of Spares: one buffer is kept.
SparesOne(written) == SubSeq(written, 1, 1)

\* buffersToWrite.resize(2)
Spares(written) == IF Len(written) > 2 THEN SubSeq(written, 1, 2) ELSE written

\* Writing, the buffers that are dropped before it and those kept after it,
\* and output.flush(); all of it in the logging thread alone.  The spares
\* are popped from the back.
Write ==
    LET drop == IF Len(buffersToWrite) > MaxBuffers
                  THEN Len(buffersToWrite) - 2 ELSE 0
        written == SubSeq(buffersToWrite, drop + 1, Len(buffersToWrite))
        spares == Spares(written)
        rest == SubSeq(spares, 1, Len(spares) - 1)
    IN  /\ logger = "write"
        /\ logger' = "loop"
        /\ output' = output \o FlattenSeq(written)
        /\ lost' = lost \cup ToSet(FlattenSeq(SubSeq(buffersToWrite, 1, drop)))
        /\ newBuffer1' = Recycled(Last(spares))
        /\ newBuffer2' = IF newBuffer2 # NULL THEN newBuffer2
                         ELSE IF rest # << >> THEN Recycled(Last(rest)) ELSE NULL
        /\ buffersToWrite' = << >>
        /\ UNCHANGED <<latchVars, running, main, frontBuffers, appended>>

-----------------------------------------------------------------------------
BufferOwnerGoesOn == BufferOwnerReturns \/ StopNotifies
BufferLoggerGoesOn ==
    ThreadFuncBuffers \/ TestRunning \/ Waits \/ WaitEnds \/ Swap \/ Write

BufferNext ==
    \/ StartOrStopBuffers \/ LatchWakeup \/ BufferOwnerGoesOn \/ BufferLoggerGoesOn
    \/ \E len \in Lengths : AppendLine(len)

\* Threads go on; waitForSeconds() returns in the end.
BufferFairness ==
    WF_doubleVars(BufferOwnerGoesOn) /\ WF_doubleVars(BufferLoggerGoesOn)

BufferSpec == BufferInit /\ [][BufferNext]_doubleVars /\ BufferFairness

-----------------------------------------------------------------------------
(* Properties.                                                             *)

(***************************************************************************)
(* Buffers that change hands keep the order of the lines, lose none and    *)
(* write none twice: what is in the file, then in buffersToWrite, then in  *)
(* buffers_, then in currentBuffer_ are the lines appended, in the order   *)
(* of their numbers and once each, except those that were dropped.  So     *)
(* stop() can only cut off the last lines.                                 *)
(***************************************************************************)
LinesInOrder ==
    LET all == output \o FlattenSeq(buffersToWrite) \o FlattenSeq(buffers) \o currentBuffer
    IN  /\ ToSet(all) = (1 .. Len(appended)) \ lost
        /\ \A i, j \in DOMAIN all : i < j => all[i] < all[j]

(***************************************************************************)
(* The assertions of threadFunc(): at the top of the loop both spare       *)
(* buffers are there and empty.  So two buffers are left to recycle        *)
(* whenever two were handed over, also after buffers were dropped.         *)
(***************************************************************************)
SparesReady ==
    logger \in {"loop", "lock", "waiting", "woken"} =>
        newBuffer1 = << >> /\ newBuffer2 = << >> /\ buffersToWrite = << >>

\* A line is written in the end, though no buffer may ever fill up after it,
\* unless it is dropped or stop() is called.
LineIsWritten ==
    \A k \in 1 .. MaxAppended :
        (k <= Len(appended)) ~> (k \in ToSet(output) \cup lost \/ ~running)

\* stop() returns, even when its notify() comes before the wait.
StopEndsLogging == (main = "stopping") ~> (main = "stopped")
=============================================================================
