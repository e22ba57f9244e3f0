----------------------- MODULE AsyncLoggingProofs -----------------------
(***************************************************************************)
(* Proofs about both asynchronous loggers.                                 *)
(*                                                                         *)
(* AsyncLoggingT, for any number of front ends and lines and any capacity  *)
(* of the queue: what was appended before stop() is written, every front   *)
(* end's lines are written in its order, and no thread sleeps in the queue *)
(* while nobody is there to go on.                                         *)
(*                                                                         *)
(* AsyncLoggingDoubleBuffering, for any sizes of buffers and lines and any *)
(* limit of 2 or more buffers: lines keep their order through the buffers, *)
(* and the spare buffers are there in every turn.                          *)
(***************************************************************************)
EXTENDS AsyncLoggingQueue, AsyncLoggingDoubleBuffering, SequenceTheorems, FiniteSetTheorems, WellFoundedInduction, TLAPS

Lines == FrontEnds \X Nat
Messages == Lines \cup {Stop}

\* The types that the actions depend on.
Typed ==
    /\ queue \in Seq(Messages) /\ file \in Seq(Lines) /\ msg \in Messages
    /\ lines \in [FrontEnds -> Nat] /\ front \in [FrontEnds -> BOOLEAN]
    /\ early \subseteq Lines

\* There is no empty message before stop() puts one, and the logging thread
\* ends only with it.
Stopping ==
    /\ main = "new" => logger = "none"
    /\ running = TRUE => main \in {"waiting", "started"}
    /\ main \in {"new", "waiting", "started", "stopping"} =>
         /\ \A i \in 1 .. Len(queue) : queue[i] # Stop
         /\ logger = "taken" => msg # Stop
         /\ logger # "done"
    /\ logger = "done" => msg = Stop
    /\ main = "stopped" => logger = "done"

\* The logging thread has not found the empty message.
Open == ~(logger \in {"taken", "done"} /\ msg = Stop)

\* A line appended before stop() is written, in the logging thread's hand, or
\* in the queue before any empty message.
Kept == \A l \in early :
    \/ \E i \in 1 .. Len(file) : file[i] = l
    \/ logger = "taken" /\ msg = l
    \/ Open /\ \E i \in 1 .. Len(queue) :
                queue[i] = l /\ \A j \in 1 .. i : queue[j] # Stop

\* Two messages in this order are in the order of their front end.
Precedes(x, y) == (x # Stop /\ y # Stop /\ x[1] = y[1]) => x[2] < y[2]

\* The messages written, in hand and queued are in order.
Sorted ==
    /\ \A i, j \in 1 .. Len(file) : i < j => Precedes(file[i], file[j])
    /\ \A i, j \in 1 .. Len(queue) : i < j => Precedes(queue[i], queue[j])
    /\ \A i \in 1 .. Len(file), j \in 1 .. Len(queue) : Precedes(file[i], queue[j])
    /\ logger = "taken" => /\ \A i \in 1 .. Len(file) : Precedes(file[i], msg)
                          /\ \A j \in 1 .. Len(queue) : Precedes(msg, queue[j])

\* A line that was put is older than the one its front end is appending.
OlderThan(x, upto, busy) ==
    x # Stop => x[2] <= upto[x[1]] /\ (busy[x[1]] => x[2] < upto[x[1]])
Older(x) == OlderThan(x, lines, front)

Numbered ==
    /\ \A i \in 1 .. Len(file) : Older(file[i])
    /\ \A i \in 1 .. Len(queue) : Older(queue[i])
    /\ logger = "taken" => Older(msg)

Inv == Typed /\ Stopping /\ Kept /\ Sorted /\ Numbered

-----------------------------------------------------------------------------
\* put() by any thread.
LEMMA PutFacts ==
    ASSUME Typed, NEW t, NEW x \in Messages, Put(t, x)
    PROVE  /\ queue' \in Seq(Messages) /\ Len(queue) \in Nat /\ Len(queue') = Len(queue) + 1
           /\ \A i \in 1 .. Len(queue) : queue'[i] = queue[i]
           /\ queue'[Len(queue) + 1] = x
  BY DEF Typed, Put

\* The steps that take, write and append nothing.
LEMMA QuietInv ==
    ASSUME Inv, UNCHANGED <<queue, file, msg, lines, early, front>>, Stopping',
           logger' = logger \/ (logger \in {"none", "entered"} /\ logger' \in {"entered", "take"})
    PROVE  Inv'
<1>1. Typed' /\ Sorted' /\ Numbered'
  BY DEF Inv, Typed, Sorted, Numbered, Older, Precedes
<1>2. Kept'
  BY DEF Inv, Kept, Open
<1> QED
  BY <1>1, <1>2 DEF Inv

LEMMA CallAppendInv ==
    ASSUME Inv, NEW f \in FrontEnds, CallAppend(f)
    PROVE  Inv'
<1>1. /\ ~front[f] /\ front' = [front EXCEPT ![f] = TRUE]
      /\ lines' = [lines EXCEPT ![f] = lines[f] + 1]
      /\ UNCHANGED <<queue, file, msg, logger, main, running, early>>
  BY DEF CallAppend, queueVars
<1>2. Typed'
  BY <1>1 DEF Inv, Typed
<1>3. \A x \in Messages : Older(x) => Older(x)'
  <2> SUFFICES ASSUME NEW x \in Messages, Older(x), x # Stop
               PROVE  x[2] <= lines'[x[1]] /\ (front'[x[1]] => x[2] < lines'[x[1]])
    BY DEF Older, OlderThan
  <2>1. x[1] \in FrontEnds /\ x[2] \in Nat /\ lines \in [FrontEnds -> Nat]
        /\ front \in [FrontEnds -> BOOLEAN]
    BY DEF Messages, Lines, Inv, Typed
  <2>2. x[2] <= lines[x[1]] /\ (front[x[1]] => x[2] < lines[x[1]])
    BY DEF Older, OlderThan
  <2>3. CASE x[1] = f
    BY <1>1, <2>1, <2>2, <2>3
  <2>4. CASE x[1] # f
    <3>1. front'[x[1]] = front[x[1]] /\ lines'[x[1]] = lines[x[1]]
      BY <1>1, <2>1, <2>4
    <3> QED
      BY <2>2, <3>1
  <2> QED
    BY <2>3, <2>4
<1>4. Numbered'
  BY <1>1, <1>3 DEF Inv, Numbered, Typed, Messages
<1>5. Stopping' /\ Kept' /\ Sorted'
  BY <1>1 DEF Inv, Stopping, Kept, Open, Sorted, Precedes
<1> QED
  BY <1>2, <1>4, <1>5 DEF Inv

LEMMA AppendPutsInv ==
    ASSUME Inv, NEW f \in FrontEnds, AppendPuts(f)
    PROVE  Inv'
<1> DEFINE l == Line(f)
           n == Len(queue) + 1
<1>1. Typed /\ Stopping /\ Kept /\ Sorted /\ Numbered
  BY DEF Inv
<1>2. /\ front[f] /\ front' = [front EXCEPT ![f] = FALSE]
      /\ early' = (IF running THEN early \cup {l} ELSE early)
      /\ Put(f, l) /\ UNCHANGED <<running, main, logger, msg, lines, file>>
  BY DEF AppendPuts
<1>3. l \in Lines /\ l \in Messages /\ l # Stop /\ l[1] = f /\ l[2] = lines[f] /\ lines[f] \in Nat
  BY <1>1, AsyncLoggingQueueAssumption DEF Typed, Line, Lines, Messages
<1> HIDE DEF l
<1>4. /\ queue' \in Seq(Messages) /\ Len(queue) \in Nat /\ Len(queue') = Len(queue) + 1
      /\ \A i \in 1 .. Len(queue) : queue'[i] = queue[i]
      /\ queue'[n] = l
  BY <1>1, <1>2, <1>3, PutFacts
<1>5. n \in 1 .. Len(queue') /\ \A i \in 1 .. Len(queue') : i = n \/ i \in 1 .. Len(queue)
  BY <1>4
<1> HIDE DEF n
<1>6. Typed'
  <2>1. front' \in [FrontEnds -> BOOLEAN]
    BY <1>1, <1>2 DEF Typed
  <2> QED
    BY <1>1, <1>2, <1>3, <1>4, <2>1 DEF Typed
<1>7. Stopping'
  BY <1>1, <1>2, <1>3, <1>4, <1>5 DEF Stopping
<1>8. Kept'
  <2> SUFFICES ASSUME NEW x \in early'
               PROVE  \/ \E i \in 1 .. Len(file) : file[i] = x
                      \/ logger = "taken" /\ msg = x
                      \/ Open /\ \E i \in 1 .. Len(queue') :
                           queue'[i] = x /\ \A j \in 1 .. i : queue'[j] # Stop
    BY <1>2 DEF Kept, Open
  <2>1. CASE x \in early
    <3>1. CASE (\E i \in 1 .. Len(file) : file[i] = x) \/ (logger = "taken" /\ msg = x)
      BY <3>1
    <3>2. CASE Open /\ \E i \in 1 .. Len(queue) :
                 queue[i] = x /\ \A j \in 1 .. i : queue[j] # Stop
      <4>1. PICK i \in 1 .. Len(queue) : queue[i] = x /\ \A j \in 1 .. i : queue[j] # Stop
        BY <3>2
      <4>2. i \in 1 .. Len(queue') /\ queue'[i] = x /\ \A j \in 1 .. i : queue'[j] # Stop
        BY <1>4, <4>1
      <4> QED
        BY <3>2, <4>2
    <3> QED
      BY <1>1, <2>1, <3>1, <3>2 DEF Kept
  <2>2. CASE x \notin early
    <3>1. x = l /\ running = TRUE
      <4>1. running
        BY <1>2, <2>2
      <4> QED
        BY <1>2, <2>2, <4>1
    <3>2. Open /\ \A j \in 1 .. Len(queue) : queue[j] # Stop
      BY <1>1, <3>1 DEF Stopping, Open
    <3>3. \A j \in 1 .. n : queue'[j] # Stop
      BY <1>3, <1>4, <3>2 DEF n
    <3> QED
      BY <1>4, <1>5, <3>1, <3>2, <3>3
  <2> QED
    BY <2>1, <2>2
<1>9. \A x \in Messages : Older(x) => Precedes(x, l) /\ Older(x)'
  <2> SUFFICES ASSUME NEW x \in Messages, Older(x), x # Stop
               PROVE  (x[1] = l[1] => x[2] < l[2]) /\ x[2] <= lines[x[1]]
                      /\ (front'[x[1]] => x[2] < lines[x[1]])
    BY <1>2 DEF Older, OlderThan, Precedes
  <2>1. x[1] \in FrontEnds
    BY DEF Messages, Lines
  <2>2. x[2] <= lines[x[1]] /\ (front[x[1]] => x[2] < lines[x[1]])
    BY DEF Older, OlderThan
  <2>3. CASE x[1] = f
    <3>1. ~front'[f]
      BY <1>1, <1>2 DEF Typed
    <3> QED
      BY <1>2, <1>3, <2>2, <2>3, <3>1
  <2>4. CASE x[1] # f
    <3>1. front'[x[1]] = front[x[1]]
      BY <1>1, <1>2, <2>1, <2>4 DEF Typed
    <3> QED
      BY <1>3, <2>2, <2>4, <3>1
  <2> QED
    BY <2>3, <2>4
<1>10. Older(l)'
  <2>1. ~front'[f] /\ lines'[f] = lines[f]
    BY <1>1, <1>2 DEF Typed
  <2>2. l[2] <= lines'[l[1]] /\ ~front'[l[1]]
    BY <1>3, <2>1
  <2>3. l' = l
    BY <1>2 DEF l, Line
  <2> QED
    BY <2>2, <2>3 DEF Older, OlderThan
<1>11. /\ \A i \in 1 .. Len(file) : file[i] \in Messages
       /\ \A i \in 1 .. Len(queue) : queue[i] \in Messages
       /\ msg \in Messages
  BY <1>1 DEF Typed, Messages
<1>12. Numbered'
  <2>1. \A x \in Messages : OlderThan(x, lines, front) => OlderThan(x, lines', front')
    BY <1>9 DEF Older
  <2>2. OlderThan(l, lines', front')
    BY <1>2, <1>10 DEF Older, l, Line
  <2>3. \A i \in 1 .. Len(queue') : OlderThan(queue'[i], lines', front')
    BY <1>1, <1>4, <1>5, <1>11, <2>1, <2>2 DEF Numbered, Older
  <2> QED
    BY <1>1, <1>2, <1>11, <2>1, <2>3 DEF Numbered, Older
<1>13. Sorted'
  <2>1. \A i \in 1 .. Len(queue) : Precedes(queue[i], l)
    BY <1>1, <1>9, <1>11 DEF Numbered
  <2>2. \A i \in 1 .. Len(file) : Precedes(file[i], l)
    BY <1>1, <1>9, <1>11 DEF Numbered
  <2>3. logger = "taken" => Precedes(msg, l)
    BY <1>1, <1>9, <1>11 DEF Numbered
  <2>4. \A i, j \in 1 .. Len(queue') : i < j => Precedes(queue'[i], queue'[j])
    <3> SUFFICES ASSUME NEW i \in 1 .. Len(queue'), NEW j \in 1 .. Len(queue'), i < j
                 PROVE  Precedes(queue'[i], queue'[j])
      OBVIOUS
    <3>1. i \in 1 .. Len(queue) /\ queue'[i] = queue[i]
      BY <1>4
    <3>2. CASE j = n
      BY <1>4, <2>1, <3>1, <3>2
    <3>3. CASE j \in 1 .. Len(queue)
      BY <1>1, <1>4, <3>1, <3>3 DEF Sorted
    <3> QED
      BY <1>5, <3>2, <3>3
  <2>5. \A i \in 1 .. Len(file), j \in 1 .. Len(queue') : Precedes(file[i], queue'[j])
    BY <1>1, <1>4, <1>5, <2>2 DEF Sorted
  <2>6. logger = "taken" => \A j \in 1 .. Len(queue') : Precedes(msg, queue'[j])
    BY <1>1, <1>4, <1>5, <2>3 DEF Sorted
  <2> QED
    BY <1>1, <1>2, <2>4, <2>5, <2>6 DEF Sorted, Precedes
<1> QED
  BY <1>6, <1>7, <1>8, <1>12, <1>13 DEF Inv

LEMMA StopPutsInv ==
    ASSUME Inv, StopPuts
    PROVE  Inv'
<1> DEFINE n == Len(queue) + 1
<1>1. Typed /\ Stopping /\ Kept /\ Sorted /\ Numbered
  BY DEF Inv
<1>2. /\ main = "stopping" /\ main' = "joining" /\ Put(Owner, Stop)
      /\ UNCHANGED <<running, logger, msg, front, lines, file, early>>
  BY DEF StopPuts
<1>3. /\ queue' \in Seq(Messages) /\ Len(queue) \in Nat /\ Len(queue') = Len(queue) + 1
      /\ \A i \in 1 .. Len(queue) : queue'[i] = queue[i]
      /\ queue'[n] = Stop
  BY <1>1, <1>2, PutFacts DEF Messages
<1>4. n \in 1 .. Len(queue') /\ \A i \in 1 .. Len(queue') : i = n \/ i \in 1 .. Len(queue)
  BY <1>3
<1> HIDE DEF n
<1>5. Typed'
  BY <1>1, <1>2, <1>3 DEF Typed
<1>6. Stopping'
  BY <1>1, <1>2 DEF Stopping
<1>7. Kept'
  <2> SUFFICES ASSUME NEW x \in early,
                      Open /\ \E i \in 1 .. Len(queue) :
                         queue[i] = x /\ \A j \in 1 .. i : queue[j] # Stop
               PROVE  Open /\ \E i \in 1 .. Len(queue') :
                         queue'[i] = x /\ \A j \in 1 .. i : queue'[j] # Stop
    BY <1>1, <1>2 DEF Kept, Open
  <2>1. PICK i \in 1 .. Len(queue) : queue[i] = x /\ \A j \in 1 .. i : queue[j] # Stop
    OBVIOUS
  <2>2. i \in 1 .. Len(queue') /\ queue'[i] = x /\ \A j \in 1 .. i : queue'[j] # Stop
    BY <1>3, <2>1
  <2> QED
    BY <2>2
<1>8. \A x : Precedes(x, Stop) /\ Precedes(Stop, x) /\ OlderThan(Stop, lines, front)
  BY DEF Precedes, OlderThan
<1>9. Numbered'
  BY <1>1, <1>2, <1>3, <1>4, <1>8 DEF Numbered, Older
<1>10. Sorted'
  <2>1. \A i, j \in 1 .. Len(queue') : i < j => Precedes(queue'[i], queue'[j])
    BY <1>1, <1>3, <1>4, <1>8 DEF Sorted
  <2>2. \A i \in 1 .. Len(file), j \in 1 .. Len(queue') : Precedes(file[i], queue'[j])
    BY <1>1, <1>3, <1>4, <1>8 DEF Sorted
  <2>3. logger = "taken" => \A j \in 1 .. Len(queue') : Precedes(msg, queue'[j])
    BY <1>1, <1>3, <1>4, <1>8 DEF Sorted
  <2> QED
    BY <1>1, <1>2, <2>1, <2>2, <2>3 DEF Sorted, Precedes
<1> QED
  BY <1>5, <1>6, <1>7, <1>9, <1>10 DEF Inv

LEMMA LoggerTakesInv ==
    ASSUME Inv, LoggerTakes
    PROVE  Inv'
<1>1. Typed /\ Stopping /\ Kept /\ Sorted /\ Numbered
  BY DEF Inv
<1>2. /\ logger = "take" /\ logger' = "taken" /\ msg' = Head(queue)
      /\ queue # << >> /\ queue' = Tail(queue)
      /\ UNCHANGED <<running, main, front, lines, file, early>>
  BY DEF LoggerTakes, Take
<1>3. /\ msg' = queue[1] /\ Len(queue) \in Nat /\ 1 \in 1 .. Len(queue)
      /\ queue' \in Seq(Messages) /\ Len(queue') = Len(queue) - 1
      /\ \A i \in 1 .. Len(queue') : queue'[i] = queue[i + 1]
      /\ queue[1] \in Messages
  BY <1>1, <1>2 DEF Typed
<1>4. \A i \in 1 .. Len(queue') : i + 1 \in 1 .. Len(queue)
  BY <1>3
<1>5. Typed'
  BY <1>1, <1>2, <1>3 DEF Typed
<1>6. Stopping'
  <2>1. main' \in {"new", "waiting", "started", "stopping"} =>
          (\A i \in 1 .. Len(queue') : queue'[i] # Stop) /\ msg' # Stop
    BY <1>1, <1>2, <1>3, <1>4 DEF Stopping
  <2> QED
    BY <1>1, <1>2, <2>1 DEF Stopping
<1>7. Kept'
  <2> SUFFICES ASSUME NEW x \in early,
                      \E i \in 1 .. Len(queue) :
                         queue[i] = x /\ \A j \in 1 .. i : queue[j] # Stop
               PROVE  \/ msg' = x
                      \/ msg' # Stop /\ \E i \in 1 .. Len(queue') :
                           queue'[i] = x /\ \A j \in 1 .. i : queue'[j] # Stop
    BY <1>1, <1>2 DEF Kept, Open
  <2>1. PICK i \in 1 .. Len(queue) : queue[i] = x /\ \A j \in 1 .. i : queue[j] # Stop
    OBVIOUS
  <2>2. CASE i = 1
    BY <1>3, <2>1, <2>2
  <2>3. CASE i # 1
    <3>1. i - 1 \in 1 .. Len(queue') /\ queue'[i - 1] = x
      BY <1>3, <2>1, <2>3
    <3>2. \A j \in 1 .. i - 1 : queue'[j] # Stop
      BY <1>3, <2>1, <3>1
    <3>3. msg' # Stop
      BY <1>3, <2>1
    <3> QED
      BY <3>1, <3>2, <3>3
  <2> QED
    BY <2>2, <2>3
<1>8. Numbered'
  BY <1>1, <1>2, <1>3, <1>4 DEF Numbered, Older
<1>9. Sorted'
  <2>1. \A i, j \in 1 .. Len(queue') : i < j => Precedes(queue'[i], queue'[j])
    <3> SUFFICES ASSUME NEW i \in 1 .. Len(queue'), NEW j \in 1 .. Len(queue'), i < j
                 PROVE  Precedes(queue[i + 1], queue[j + 1])
      BY <1>3
    <3>1. i + 1 < j + 1
      OBVIOUS
    <3> QED
      BY <1>1, <1>4, <3>1 DEF Sorted
  <2>2. \A i \in 1 .. Len(file), j \in 1 .. Len(queue') : Precedes(file[i], queue'[j])
    BY <1>1, <1>3, <1>4 DEF Sorted
  <2>3. \A i \in 1 .. Len(file) : Precedes(file[i], msg')
    BY <1>1, <1>3 DEF Sorted
  <2>4. \A j \in 1 .. Len(queue') : Precedes(msg', queue'[j])
    <3> SUFFICES ASSUME NEW j \in 1 .. Len(queue')
                 PROVE  Precedes(queue[1], queue[j + 1])
      BY <1>3
    <3>1. 1 < j + 1
      OBVIOUS
    <3> QED
      BY <1>1, <1>3, <1>4, <3>1 DEF Sorted
  <2> QED
    BY <1>1, <1>2, <2>1, <2>2, <2>3, <2>4 DEF Sorted, Precedes
<1> QED
  BY <1>5, <1>6, <1>7, <1>8, <1>9 DEF Inv

LEMMA LoggerWritesInv ==
    ASSUME Inv, LoggerWrites
    PROVE  Inv'
<1>1. Typed /\ Stopping /\ Kept /\ Sorted /\ Numbered
  BY DEF Inv
<1>2. logger = "taken" /\ UNCHANGED <<queue, running, main, msg, front, lines, early>>
  BY DEF LoggerWrites, queueVars
<1>3. CASE msg = Stop
  <2>1. logger' = "done" /\ file' = file
    BY <1>3 DEF LoggerWrites, Breaks
  <2>2. Typed' /\ Sorted' /\ Numbered'
    BY <1>1, <1>2, <2>1 DEF Typed, Sorted, Numbered, Older, Precedes
  <2>3. Stopping'
    BY <1>1, <1>2, <1>3, <2>1 DEF Stopping
  <2>4. Kept'
    <3>1. ~Open /\ \A x \in early : msg # x
      BY <1>1, <1>2, <1>3, AsyncLoggingQueueAssumption DEF Open, Typed, Lines
    <3> QED
      BY <1>1, <1>2, <2>1, <3>1 DEF Kept
  <2> QED
    BY <2>2, <2>3, <2>4 DEF Inv
<1>4. CASE msg # Stop
  <2> DEFINE n == Len(file) + 1
  <2>1. logger' = "take" /\ file' = Append(file, msg)
    BY <1>4 DEF LoggerWrites, Breaks
  <2>2. msg \in Lines
    BY <1>1, <1>4 DEF Typed, Messages
  <2>3. /\ file' \in Seq(Lines) /\ Len(file) \in Nat /\ Len(file') = Len(file) + 1
        /\ \A i \in 1 .. Len(file) : file'[i] = file[i]
        /\ file'[n] = msg
    BY <1>1, <2>1, <2>2 DEF Typed
  <2>4. n \in 1 .. Len(file') /\ \A i \in 1 .. Len(file') : i = n \/ i \in 1 .. Len(file)
    BY <2>3
  <2> HIDE DEF n
  <2>5. Typed' /\ Stopping'
    BY <1>1, <1>2, <2>1, <2>3 DEF Typed, Stopping
  <2>6. Kept'
    <3>1. Open /\ Open'
      BY <1>4, <2>1 DEF Open
    <3>2. \A i \in 1 .. Len(file) : i \in 1 .. Len(file')
      BY <2>3
    <3> QED
      BY <1>1, <1>2, <2>3, <2>4, <3>1, <3>2 DEF Kept
  <2>7. Numbered'
    BY <1>1, <1>2, <2>1, <2>3, <2>4 DEF Numbered, Older
  <2>8. Sorted'
    <3>1. \A i, j \in 1 .. Len(file') : i < j => Precedes(file'[i], file'[j])
      <4> SUFFICES ASSUME NEW i \in 1 .. Len(file'), NEW j \in 1 .. Len(file'), i < j
                   PROVE  Precedes(file'[i], file'[j])
        OBVIOUS
      <4>1. i \in 1 .. Len(file) /\ file'[i] = file[i]
        BY <2>3
      <4>2. CASE j = n
        BY <1>1, <1>2, <2>3, <4>1, <4>2 DEF Sorted
      <4>3. CASE j \in 1 .. Len(file)
        BY <1>1, <2>3, <4>1, <4>3 DEF Sorted
      <4> QED
        BY <2>4, <4>2, <4>3
    <3>2. \A i \in 1 .. Len(file'), j \in 1 .. Len(queue) : Precedes(file'[i], queue[j])
      BY <1>1, <1>2, <2>3, <2>4 DEF Sorted
    <3> QED
      BY <1>1, <1>2, <2>1, <3>1, <3>2 DEF Sorted, Precedes
  <2> QED
    BY <2>5, <2>6, <2>7, <2>8 DEF Inv
<1> QED
  BY <1>3, <1>4

LEMMA StepInv == Inv /\ [Next]_vars => Inv'
<1> SUFFICES ASSUME Inv, [Next]_vars PROVE Inv'
  OBVIOUS
<1>1. CASE StartThread /\ UNCHANGED <<queueVars, lineVars>>
  BY <1>1, QuietInv DEF StartThread, queueVars, lineVars, Inv, Stopping
<1>2. CASE \/ StartWaits /\ UNCHANGED <<queueVars, lineVars>>
           \/ StopWaits \/ LoggerWaits \/ UNCHANGED vars
  BY <1>2, QuietInv DEF StartWaits, StopWaits, PutWaits, LoggerWaits, TakeWaits,
                        vars, queueVars, app, loggingVars, lineVars, Inv, Stopping
<1>3. CASE (StartReturns \/ StopRunning \/ StopReturns) /\ UNCHANGED <<queueVars, lineVars>>
  BY <1>3, QuietInv
    DEF StartReturns, StopRunning, StopReturns, queueVars, lineVars, Inv, Stopping
<1>4. CASE ThreadFunc
  BY <1>4, QuietInv DEF ThreadFunc, queueVars, Inv, Stopping
<1>5. CASE StopPuts
  BY <1>5, StopPutsInv
<1>6. CASE LoggerTakes
  BY <1>6, LoggerTakesInv
<1>7. CASE LoggerWrites
  BY <1>7, LoggerWritesInv
<1>8. ASSUME NEW f \in FrontEnds, CallAppend(f) PROVE Inv'
  BY <1>8, CallAppendInv
<1>9. ASSUME NEW f \in FrontEnds, AppendPuts(f) PROVE Inv'
  BY <1>9, AppendPutsInv
<1>10. ASSUME NEW f \in FrontEnds, AppendWaits(f) PROVE Inv'
  BY <1>10, QuietInv DEF AppendWaits, PutWaits, app, loggingVars, lineVars, Inv, Stopping
<1>11. ASSUME NEW t, Wakeup(t) PROVE Inv'
  BY <1>11, QuietInv DEF Wakeup, SpuriousWakeup, LatchSpuriousWakeup, queueVars, app, loggingVars, lineVars, Inv, Stopping
<1> QED
  BY <1>1, <1>2, <1>3, <1>4, <1>5, <1>6, <1>7, <1>8, <1>9, <1>10, <1>11
    DEF Next, StartOrStop, OwnerReturns, OwnerGoesOn, LoggerGoesOn, FrontEndGoesOn

LEMMA InvInit == Init => Inv
  BY DEF Init, QueueInit, LoggingInit, Inv, Typed, Stopping, Kept, Sorted, Numbered, Messages

(***************************************************************************)
(* Of any number of lines of any number of front ends, those put before    *)
(* stop() was called are all in the file when stop() returns, however many *)
(* are put around the empty message, and the file has the lines of each    *)
(* front end in its order and none twice.                                  *)
(***************************************************************************)
THEOREM LoggingEarlyLinesWritten == Spec => []EarlyLinesWritten
<1>1. Inv => EarlyLinesWritten
  <2> SUFFICES ASSUME Inv PROVE EarlyLinesWritten
    OBVIOUS
  <2>1. Typed /\ Stopping /\ Kept /\ Sorted
    BY DEF Inv
  <2>2. DOMAIN file = 1 .. Len(file) /\ \A i \in 1 .. Len(file) : file[i] \in Lines
    BY <2>1 DEF Typed
  <2>3. main = "stopped" => early \subseteq Range(file)
    BY <2>1, <2>2 DEF Stopping, Kept, Open, Range
  <2>4. \A i, j \in DOMAIN file :
          (i < j /\ file[i][1] = file[j][1]) => file[i][2] < file[j][2]
    <3>1. \A i \in 1 .. Len(file) : file[i] # Stop
      BY <2>2, AsyncLoggingQueueAssumption DEF Lines
    <3> QED
      BY <2>1, <2>2, <3>1 DEF Sorted, Precedes
  <2> QED
    BY <2>3, <2>4 DEF EarlyLinesWritten
<1> QED
  BY <1>1, InvInit, StepInv, PTL DEF Spec

-----------------------------------------------------------------------------
(* Who sleeps in the queue's conditions.                                   *)

\* The threads in put(), and those of them that do not sleep in it.
Putting == {f \in FrontEnds : front[f]} \cup (IF main = "stopping" THEN {Owner} ELSE {})
Awake == Putting \ notFull

\* The logging thread sleeps only while there is nothing to take.  While a
\* thread sleeps in put() as many others are on their way to put as there
\* are free places: notify() wakes one thread for each place.
NobodyOversleeps ==
    /\ notEmpty # {} => queue = << >>
    /\ notFull # {} => maxSize # NoBound /\ Len(queue) + Cardinality(Awake) >= maxSize

\* Who can be in a condition at all.
Sleepers ==
    /\ maxSize \in Nat \cup {NoBound}
    /\ notEmpty \subseteq {Logger}
    /\ notFull \subseteq Putting

\* With Typed, the inductive invariant behind NobodyOversleeps.
SleepInv == Sleepers /\ NobodyOversleeps

LEMMA AwakeFinite == IsFiniteSet(Awake) /\ Cardinality(Awake) \in Nat
<1>1. IsFiniteSet(FrontEnds \cup {Owner})
  BY AsyncLoggingQueueAssumption, FS_AddElement
<1>2. Awake \in SUBSET (FrontEnds \cup {Owner})
  BY DEF Awake, Putting
<1>3. IsFiniteSet(Awake)
  BY <1>1, <1>2, FS_Subset
<1> QED
  BY <1>3, FS_CardinalityType

LEMMA AwakeFiniteNext == IsFiniteSet(Awake') /\ Cardinality(Awake') \in Nat
<1>1. IsFiniteSet(FrontEnds \cup {Owner})
  BY AsyncLoggingQueueAssumption, FS_AddElement
<1>2. Awake' \in SUBSET (FrontEnds \cup {Owner})
  BY DEF Awake, Putting
<1>3. IsFiniteSet(Awake')
  BY <1>1, <1>2, FS_Subset
<1> QED
  BY <1>3, FS_CardinalityType

\* Threads call put(), wake up for no reason, or do something else.
LEMMA NobodySleepsIn ==
    ASSUME Typed, SleepInv, UNCHANGED <<maxSize, queue>>,
           notEmpty' \subseteq notEmpty, notFull' \subseteq notFull,
           notFull' \subseteq Putting', Putting \subseteq Putting'
    PROVE  SleepInv'
<1>1. Awake \subseteq Awake'
  BY DEF Awake
<1>2. Cardinality(Awake) <= Cardinality(Awake')
  BY <1>1, AwakeFiniteNext, FS_Subset
<1>3. notFull' # {} => maxSize # NoBound /\ Len(queue) + Cardinality(Awake') >= maxSize
  BY <1>2, AwakeFinite, AwakeFiniteNext DEF Typed, SleepInv, Sleepers, NobodyOversleeps
<1> QED
  BY <1>3 DEF SleepInv, Sleepers, NobodyOversleeps

\* put() waits: the queue is full.
LEMMA PutWaitsInv ==
    ASSUME Typed, SleepInv, NEW t \in Putting, PutWaits(t), Putting' = Putting
    PROVE  SleepInv'
<1>1. /\ maxSize # NoBound /\ Len(queue) >= maxSize /\ notFull' = notFull \cup {t}
      /\ UNCHANGED <<maxSize, queue, notEmpty>>
  BY DEF PutWaits, Full
<1>2. Len(queue) + Cardinality(Awake') >= maxSize
  BY <1>1, AwakeFiniteNext DEF Typed, SleepInv, Sleepers
<1> QED
  BY <1>1, <1>2 DEF SleepInv, Sleepers, NobodyOversleeps

\* put() fills a place, and its thread is no longer on the way.
LEMMA PutInv ==
    ASSUME Typed, SleepInv, NEW t \in Putting, NEW x \in Messages, Put(t, x),
           Putting' = Putting \ {t}
    PROVE  SleepInv'
<1>1. /\ t \notin notFull /\ UNCHANGED <<maxSize, notFull>>
      /\ notEmpty' \in StillWaiting(notEmpty)
  BY DEF Put
<1>2. notEmpty' = {}
  BY <1>1 DEF StillWaiting, SleepInv, Sleepers
<1>3. Awake' = Awake \ {t} /\ t \in Awake
  BY <1>1 DEF Awake
<1>4. Cardinality(Awake') = Cardinality(Awake) - 1
  BY <1>3, AwakeFinite, FS_RemoveElement
<1>5. Len(queue') = Len(queue) + 1 /\ Len(queue) \in Nat
  BY PutFacts
<1>6. notFull # {} => maxSize # NoBound /\ Len(queue') + Cardinality(Awake') >= maxSize
  BY <1>4, <1>5, AwakeFinite DEF SleepInv, Sleepers, NobodyOversleeps
<1>7. Sleepers'
  BY <1>1, <1>2 DEF SleepInv, Sleepers
<1> QED
  BY <1>1, <1>2, <1>6, <1>7 DEF SleepInv, NobodyOversleeps

\* take() frees a place and wakes a thread for it.
LEMMA TakeInv ==
    ASSUME Typed, SleepInv, Take(Logger), Putting' = Putting
    PROVE  SleepInv'
<1>1. /\ Logger \notin notEmpty /\ queue # << >> /\ queue' = Tail(queue)
      /\ notFull' \in StillWaiting(notFull) /\ UNCHANGED <<maxSize, notEmpty>>
  BY DEF Take
<1>2. notEmpty' = {}
  BY <1>1 DEF SleepInv, Sleepers
<1>3. Len(queue') = Len(queue) - 1 /\ Len(queue) \in Nat
  BY <1>1 DEF Typed
<1>4. notFull' \subseteq notFull
  BY <1>1 DEF StillWaiting
<1>5. ASSUME notFull' # {}
      PROVE  maxSize # NoBound /\ Len(queue') + Cardinality(Awake') >= maxSize
  <2>1. PICK t \in notFull : notFull' = notFull \ {t}
    BY <1>1, <1>5 DEF StillWaiting
  <2>2. Awake' = Awake \cup {t} /\ t \notin Awake
    BY <2>1 DEF Awake, SleepInv, Sleepers
  <2>3. Cardinality(Awake') = Cardinality(Awake) + 1
    BY <2>2, AwakeFinite, FS_AddElement
  <2>4. maxSize \in Nat /\ maxSize # NoBound /\ Len(queue) + Cardinality(Awake) >= maxSize
    BY <2>1 DEF SleepInv, Sleepers, NobodyOversleeps
  <2>5. Len(queue') + Cardinality(Awake') = Len(queue) + Cardinality(Awake)
    BY <1>3, <2>3, AwakeFinite
  <2> QED
    BY <2>4, <2>5
<1>6. Sleepers'
  BY <1>1, <1>2, <1>4 DEF SleepInv, Sleepers
<1> QED
  BY <1>1, <1>2, <1>5, <1>6 DEF SleepInv, NobodyOversleeps

LEMMA SleepStep == Inv /\ SleepInv /\ [Next]_vars => SleepInv'
<1> SUFFICES ASSUME Inv, SleepInv, [Next]_vars PROVE SleepInv'
  OBVIOUS
<1> DEFINE Still == UNCHANGED queueVars
<1>1. Typed /\ front \in [FrontEnds -> BOOLEAN] /\ lines \in [FrontEnds -> Nat]
  BY DEF Inv, Typed
<1>2. ASSUME Still, Putting \subseteq Putting' PROVE SleepInv'
  <2>1. UNCHANGED <<maxSize, queue, notEmpty, notFull>> /\ notFull \subseteq Putting
    BY <1>2 DEF queueVars, SleepInv, Sleepers
  <2> QED
    BY <1>1, <1>2, <2>1, NobodySleepsIn
<1>3. CASE UNCHANGED vars
  <2>1. Still /\ Putting' = Putting
    BY <1>3 DEF vars, app, loggingVars, lineVars, Putting
  <2> QED
    BY <1>2, <2>1
<1>4. CASE /\ StartThread \/ StartReturns \/ StopRunning \/ StopReturns
           /\ UNCHANGED <<queueVars, lineVars>>
  <2>1. Still /\ Putting \subseteq Putting'
    BY <1>4 DEF StartThread, StartReturns, StopRunning, StopReturns, lineVars, Putting
  <2> QED
    BY <1>2, <2>1
<1>5. CASE (StartWaits /\ UNCHANGED <<queueVars, lineVars>>) \/ ThreadFunc \/ LoggerWrites
  <2>1. Still /\ Putting' = Putting
    BY <1>5 DEF StartWaits, ThreadFunc, LoggerWrites, app, loggingVars, lineVars, Putting
  <2> QED
    BY <1>2, <2>1
<1>6. ASSUME NEW f \in FrontEnds, CallAppend(f) PROVE SleepInv'
  <2>1. Still /\ Putting \subseteq Putting'
    BY <1>1, <1>6 DEF CallAppend, Putting
  <2> QED
    BY <1>2, <2>1
<1>7. ASSUME NEW t, Wakeup(t) PROVE SleepInv'
  <2>1. /\ UNCHANGED <<maxSize, queue>> /\ notEmpty' \subseteq notEmpty
        /\ notFull' \subseteq notFull /\ Putting' = Putting
    BY <1>7 DEF Wakeup, SpuriousWakeup, LatchSpuriousWakeup, queueVars, app, loggingVars, lineVars, Putting
  <2>2. notFull' \subseteq Putting'
    BY <2>1 DEF SleepInv, Sleepers
  <2> QED
    BY <1>1, <2>1, <2>2, NobodySleepsIn
<1>8. CASE LoggerWaits
  <2>1. /\ queue = << >> /\ notEmpty' = notEmpty \cup {Logger} /\ Putting' = Putting
        /\ UNCHANGED <<maxSize, queue, notFull>>
    BY <1>8 DEF LoggerWaits, TakeWaits, app, loggingVars, lineVars, Putting
  <2>2. Awake' = Awake
    BY <2>1 DEF Awake
  <2> QED
    BY <2>1, <2>2 DEF SleepInv, Sleepers, NobodyOversleeps
<1>9. CASE LoggerTakes
  <2>1. Take(Logger) /\ Putting' = Putting
    BY <1>9 DEF LoggerTakes, Putting
  <2> QED
    BY <1>1, <2>1, TakeInv
<1>10. ASSUME NEW f \in FrontEnds, AppendWaits(f) PROVE SleepInv'
  <2>1. f \in Putting /\ PutWaits(f) /\ Putting' = Putting
    BY <1>10 DEF AppendWaits, app, loggingVars, lineVars, Putting
  <2> QED
    BY <1>1, <2>1, PutWaitsInv
<1>11. CASE StopWaits
  <2>1. Owner \in Putting /\ PutWaits(Owner) /\ Putting' = Putting
    BY <1>11 DEF StopWaits, app, loggingVars, lineVars, Putting
  <2> QED
    BY <1>1, <2>1, PutWaitsInv
<1>12. ASSUME NEW f \in FrontEnds, AppendPuts(f) PROVE SleepInv'
  <2>1. f \in Putting /\ Put(f, Line(f)) /\ Line(f) \in Messages
    BY <1>1, <1>12 DEF AppendPuts, Putting, Line, Messages, Lines
  <2>2. Putting' = Putting \ {f}
    BY <1>1, <1>12, AsyncLoggingQueueAssumption DEF AppendPuts, Putting
  <2> QED
    BY <1>1, <2>1, <2>2, PutInv
<1>13. CASE StopPuts
  <2>1. Owner \in Putting /\ Put(Owner, Stop) /\ Stop \in Messages
    BY <1>13 DEF StopPuts, Putting, Messages
  <2>2. Putting' = Putting \ {Owner}
    BY <1>13, AsyncLoggingQueueAssumption DEF StopPuts, Putting
  <2> QED
    BY <1>1, <2>1, <2>2, PutInv
<1> QED
  BY <1>3, <1>4, <1>5, <1>6, <1>7, <1>8, <1>9, <1>10, <1>11, <1>12, <1>13
    DEF Next, StartOrStop, OwnerReturns, OwnerGoesOn, LoggerGoesOn, FrontEndGoesOn

(***************************************************************************)
(* No wakeup of either condition of the queue is lost, for any capacity    *)
(* and any number of front ends that compete with stop(): put() notifies   *)
(* the one thread that takes, and one notify() of take() for each place is *)
(* enough (BoundedBlockingQueue.h:33-56).  It is the safety behind         *)
(* StartAndStopReturn and AppendReturns.                                   *)
(***************************************************************************)
THEOREM LoggingNobodyOversleeps == Spec => []NobodyOversleeps
<1>1. Init => SleepInv
  BY BlockingQueueAssumption
    DEF Init, QueueInit, LoggingInit, SleepInv, Sleepers, NobodyOversleeps
<1>2. SleepInv => NobodyOversleeps
  BY DEF SleepInv
<1> QED
  BY <1>1, <1>2, InvInit, StepInv, SleepStep, PTL DEF Spec

-----------------------------------------------------------------------------
(* What FlattenSeq computes, by induction on the length of the list: a set *)
(* of counterexamples has a least element.                                 *)

LEMMA Least ==
  ASSUME NEW T, T \subseteq Nat, T # {}
  PROVE  \E m \in T : \A k \in T : m <= k
<1>1. PICK m \in T : \A k \in T : ~(<<k, m>> \in OpToRel(<, Nat))
  BY WFMin, NatLessThanWellFounded, Zenon
<1>2. \A k \in T : ~(k < m)
  BY <1>1 DEF OpToRel
<1> QED
  BY <1>2

LEMMA FlattenExists ==
  ASSUME NEW s, NEW n \in Nat
  PROVE  \E f : f = [i \in 1 .. n |-> IF i = 1 THEN s[i] ELSE f[i - 1] \o s[i]]
<1> DEFINE Has(m) == \E f : f = [i \in 1 .. m |-> IF i = 1 THEN s[i] ELSE f[i - 1] \o s[i]]
           T == {m \in Nat : ~Has(m)}
<1> SUFFICES ASSUME T # {} PROVE FALSE
  OBVIOUS
<1>1. PICK m \in T : \A k \in T : m <= k
  BY Least
<1>a. m \in Nat /\ ~Has(m) /\ (\A k \in Nat : ~Has(k) => m <= k)
  BY <1>1
<1> HIDE DEF T
<1>2. CASE m = 0
  <2>1. << >> = [i \in 1 .. m |-> IF i = 1 THEN s[i] ELSE << >>[i - 1] \o s[i]]
    BY <1>2
  <2> QED
    BY <2>1, <1>a
<1>3. CASE m # 0
  <2>a. m - 1 \in Nat /\ ~(m <= m - 1)
    BY <1>a, <1>3
  <2>1. Has(m - 1)
    <3> HIDE DEF Has
    <3> QED BY <1>a, <2>a
  <2>2. PICK f : f = [i \in 1 .. m - 1 |-> IF i = 1 THEN s[i] ELSE f[i - 1] \o s[i]]
    BY <2>1
  <2> DEFINE g == [i \in 1 .. m |-> IF i < m THEN f[i] ELSE IF i = 1 THEN s[i] ELSE f[i - 1] \o s[i]]
  <2>3. \A i \in 1 .. m : g[i] = IF i = 1 THEN s[i] ELSE g[i - 1] \o s[i]
    <3> SUFFICES ASSUME NEW i \in 1 .. m PROVE g[i] = IF i = 1 THEN s[i] ELSE g[i - 1] \o s[i]
      OBVIOUS
    <3>1. CASE i = 1
      <4>1. CASE m = 1
        BY <3>1, <4>1
      <4>2. CASE m # 1
        <5>1. i \in 1 .. m - 1 /\ i < m
          BY <3>1, <4>2, <1>a, <1>3
        <5>2. f[i] = s[i]
          BY <3>1, <2>2, <5>1
        <5> QED BY <5>1, <5>2, <3>1
      <4> QED BY <4>1, <4>2
    <3>2. CASE i # 1
      <4>1. i - 1 \in 1 .. m /\ i - 1 < m
        BY <3>2, <1>a
      <4>2. g[i - 1] = f[i - 1]
        BY <4>1
      <4>3. g[i] = f[i - 1] \o s[i]
        <5>1. CASE i = m
          <6>1. ~(i < m)
            BY <5>1, <1>a
          <6> QED
            BY <6>1, <3>2
        <5>2. CASE i # m
          <6>1. i \in 1 .. m - 1 /\ i < m
            BY <5>2, <1>a
          <6>2. f[i] = f[i - 1] \o s[i]
            BY <6>1, <2>2, <3>2
          <6> QED BY <6>1, <6>2
        <5> QED BY <5>1, <5>2
      <4> QED
        BY <4>2, <4>3, <3>2
    <3> QED
      BY <3>1, <3>2
  <2>4. g = [i \in 1 .. m |-> IF i = 1 THEN s[i] ELSE g[i - 1] \o s[i]]
    BY <2>3
  <2> HIDE DEF g
  <2> QED
    BY <2>4, <1>a
<1> QED
  BY <1>2, <1>3

LEMMA FlattenUnfolds ==
  ASSUME NEW s, Len(s) \in Nat \ {0}
  PROVE  \E f : /\ f = [i \in 1 .. Len(s) |-> IF i = 1 THEN s[i] ELSE f[i - 1] \o s[i]]
                /\ FlattenSeq(s) = f[Len(s)]
<1> DEFINE F == CHOOSE f : f = [i \in 1 .. Len(s) |-> IF i = 1 THEN s[i] ELSE f[i - 1] \o s[i]]
<1>1. F = [i \in 1 .. Len(s) |-> IF i = 1 THEN s[i] ELSE F[i - 1] \o s[i]]
  BY FlattenExists, Zenon
<1>2. FlattenSeq(s) = F[Len(s)]
  BY DEF FlattenSeq
<1> HIDE DEF F
<1> QED
  BY <1>1, <1>2

\* An empty list.
LEMMA FlattenEmpty == FlattenSeq(<< >>) = << >>
BY DEF FlattenSeq

LEMMA FlattenRec ==
  ASSUME NEW S, NEW s \in Seq(Seq(S)), s # << >>
  PROVE  \E f \in [1 .. Len(s) -> Seq(S)] :
           /\ f[1] = s[1]
           /\ \A i \in 2 .. Len(s) : f[i] = f[i - 1] \o s[i]
           /\ FlattenSeq(s) = f[Len(s)]
<1>1. Len(s) \in Nat \ {0} /\ \A i \in 1 .. Len(s) : s[i] \in Seq(S)
  OBVIOUS
<1>2. PICK f : /\ f = [i \in 1 .. Len(s) |-> IF i = 1 THEN s[i] ELSE f[i - 1] \o s[i]]
               /\ FlattenSeq(s) = f[Len(s)]
  BY <1>1, FlattenUnfolds
<1>3. f[1] = s[1] /\ \A i \in 2 .. Len(s) : f[i] = f[i - 1] \o s[i]
  <2>1. f[1] = s[1]
    BY <1>1, <1>2
  <2>2. ASSUME NEW i \in 2 .. Len(s) PROVE f[i] = f[i - 1] \o s[i]
    <3>1. i \in 1 .. Len(s) /\ i # 1
      BY <1>1
    <3> QED
      BY <1>2, <3>1
  <2> QED
    BY <2>1, <2>2
<1> DEFINE T == {i \in 1 .. Len(s) : f[i] \notin Seq(S)}
<1>4. T = {}
  <2> SUFFICES ASSUME T # {} PROVE FALSE
    OBVIOUS
  <2>1. T \subseteq Nat
    BY <1>1
  <2>2. PICK m \in T : \A k \in T : m <= k
    BY <2>1, Least
  <2>3. m \in 1 .. Len(s) /\ f[m] \notin Seq(S) /\ \A k \in 1 .. Len(s) : f[k] \notin Seq(S) => m <= k
    BY <2>2
  <2> HIDE DEF T
  <2>4. m # 1
    BY <1>1, <1>3, <2>3
  <2>5. m \in 2 .. Len(s) /\ m - 1 \in 1 .. Len(s) /\ ~(m <= m - 1)
    BY <1>1, <2>3, <2>4
  <2>6. f[m - 1] \in Seq(S)
    BY <2>3, <2>5
  <2>7. s[m] \in Seq(S) /\ f[m] = f[m - 1] \o s[m]
    BY <1>1, <1>3, <2>3, <2>5
  <2>8. f[m] \in Seq(S)
    BY <2>6, <2>7, ConcatProperties
  <2> QED
    BY <2>3, <2>8
<1>5. f \in [1 .. Len(s) -> Seq(S)]
  <2>1. f = [i \in 1 .. Len(s) |-> f[i]]
    BY <1>2
  <2>2. \A i \in 1 .. Len(s) : f[i] \in Seq(S)
    BY <1>4
  <2> QED
    BY <2>1, <2>2
<1> QED
  BY <1>2, <1>3, <1>5

LEMMA FlattenType ==
  ASSUME NEW S, NEW s \in Seq(Seq(S))
  PROVE  FlattenSeq(s) \in Seq(S)
<1>1. CASE s = << >>
  <2>1. FlattenSeq(s) = << >>
    BY <1>1, FlattenEmpty
  <2> QED
    BY <2>1
<1>2. CASE s # << >>
  <2>1. Len(s) \in 1 .. Len(s)
    BY <1>2
  <2>2. PICK f \in [1 .. Len(s) -> Seq(S)] : FlattenSeq(s) = f[Len(s)]
    BY <1>2, FlattenRec
  <2> QED
    BY <2>1, <2>2
<1> QED
  BY <1>1, <1>2

LEMMA FlattenAppend ==
  ASSUME NEW S, NEW s \in Seq(Seq(S)), NEW b \in Seq(S)
  PROVE  FlattenSeq(Append(s, b)) = FlattenSeq(s) \o b
<1> DEFINE t == Append(s, b)
           n == Len(s)
<1>1. /\ t \in Seq(Seq(S)) /\ t # << >> /\ Len(t) = n + 1 /\ n \in Nat
      /\ \A i \in 1 .. n : t[i] = s[i]
      /\ t[n + 1] = b
  <2>1. n \in Nat
    OBVIOUS
  <2>2. t \in Seq(Seq(S)) /\ t # << >> /\ Len(t) = n + 1
    BY AppendProperties
  <2>3. (\A i \in 1 .. n : t[i] = s[i]) /\ t[n + 1] = b
    BY AppendProperties
  <2> QED
    BY <2>1, <2>2, <2>3
<1> HIDE DEF t
<1>2. PICK g \in [1 .. Len(t) -> Seq(S)] :
           /\ g[1] = t[1]
           /\ \A i \in 2 .. Len(t) : g[i] = g[i - 1] \o t[i]
           /\ FlattenSeq(t) = g[Len(t)]
  BY <1>1, FlattenRec
<1>3. CASE s = << >>
  <2>1. n = 0
    BY <1>3
  <2>2. FlattenSeq(t) = b /\ FlattenSeq(s) = << >>
    BY <1>1, <1>2, <1>3, <2>1, FlattenEmpty
  <2> QED
    BY <2>2 DEF t
<1>4. CASE s # << >>
  <2>1. PICK f \in [1 .. n -> Seq(S)] :
           /\ f[1] = s[1]
           /\ \A i \in 2 .. n : f[i] = f[i - 1] \o s[i]
           /\ FlattenSeq(s) = f[n]
    BY <1>4, FlattenRec
  <2>2. n \in Nat \ {0}
    BY <1>4
  <2> HIDE DEF n
  <2> DEFINE T == {i \in 1 .. n : f[i] # g[i]}
  <2>3. T = {}
    <3> SUFFICES ASSUME T # {} PROVE FALSE
      OBVIOUS
    <3>1. T \subseteq Nat
      BY <2>2
    <3>2. PICK m \in T : \A k \in T : m <= k
      BY <3>1, Least
    <3>3. m \in 1 .. n /\ f[m] # g[m] /\ \A k \in 1 .. n : f[k] # g[k] => m <= k
      BY <3>2
    <3> HIDE DEF T
    <3>4. m # 1
      BY <2>1, <2>2, <1>1, <1>2, <3>3
    <3>5. m \in 2 .. n /\ m \in 2 .. Len(t) /\ m - 1 \in 1 .. n /\ ~(m <= m - 1)
      BY <1>1, <2>2, <3>3, <3>4
    <3>6. f[m - 1] = g[m - 1]
      BY <3>3, <3>5
    <3> QED
      BY <1>1, <1>2, <2>1, <3>3, <3>5, <3>6
  <2>4. n \in 1 .. n /\ n + 1 \in 2 .. Len(t) /\ (n + 1) - 1 = n
    BY <1>1, <2>2
  <2>5. f[n] = g[n]
    BY <2>3, <2>4
  <2>6. g[n + 1] = g[n] \o b
    BY <1>1, <1>2, <2>4
  <2> QED
    BY <1>1, <1>2, <2>1, <2>5, <2>6 DEF t
<1> QED
  BY <1>3, <1>4

LEMMA FlattenConcat ==
  ASSUME NEW S, NEW s \in Seq(Seq(S)), NEW t \in Seq(Seq(S))
  PROVE  FlattenSeq(s \o t) = FlattenSeq(s) \o FlattenSeq(t)
<1> DEFINE P(u) == FlattenSeq(s \o u) = FlattenSeq(s) \o FlattenSeq(u)
           T == {n \in Nat : \E u \in Seq(Seq(S)) : Len(u) = n /\ ~P(u)}
<1>1. T = {}
  <2> SUFFICES ASSUME T # {} PROVE FALSE
    OBVIOUS
  <2>1. PICK m \in T : \A k \in T : m <= k
    BY Least
  <2>2. PICK u \in Seq(Seq(S)) : Len(u) = m /\ ~P(u)
    BY <2>1
  <2>3. \A v \in Seq(Seq(S)) : ~P(v) => m <= Len(v)
    <3> HIDE DEF P
    <3> QED
      BY <2>1
  <2> HIDE DEF T
  <2>4. CASE u = << >>
    <3>1. s \o u = s /\ FlattenSeq(u) = << >>
      BY <2>4, FlattenEmpty
    <3>2. FlattenSeq(s) \o << >> = FlattenSeq(s)
      BY FlattenType, ConcatEmptySeq
    <3> QED
      BY <2>2, <3>1, <3>2
  <2>5. CASE u # << >>
    <3> DEFINE v == SubSeq(u, 1, Len(u) - 1)
               b == u[Len(u)]
    <3>1. v \in Seq(Seq(S)) /\ b \in Seq(S) /\ u = Append(v, b) /\ Len(v) < Len(u)
      BY <2>5
    <3> HIDE DEF v, b
    <3>2. P(v)
      <4> HIDE DEF P
      <4>1. ~(m <= Len(v))
        BY <2>2, <3>1
      <4> QED
        BY <2>3, <3>1, <4>1
    <3>3. s \o u = Append(s \o v, b) /\ s \o v \in Seq(Seq(S))
      BY <3>1
    <3>4. FlattenSeq(s \o u) = FlattenSeq(s \o v) \o b
      BY <3>1, <3>3, FlattenAppend
    <3>5. FlattenSeq(u) = FlattenSeq(v) \o b
      BY <3>1, FlattenAppend
    <3>6. (FlattenSeq(s) \o FlattenSeq(v)) \o b = FlattenSeq(s) \o (FlattenSeq(v) \o b)
      <4>1. FlattenSeq(s) \in Seq(S) /\ FlattenSeq(v) \in Seq(S)
        BY <3>1, FlattenType
      <4>2. b \in Seq(S)
        BY <3>1
      <4> HIDE DEF P
      <4> QED
        BY <4>1, <4>2, ConcatAssociative
    <3> QED
      BY <2>2, <3>2, <3>4, <3>5, <3>6
  <2> QED
    BY <2>4, <2>5
<1>2. Len(t) \in Nat
  OBVIOUS
<1> QED
  BY <1>1, <1>2

-----------------------------------------------------------------------------
(* Lines in order.                                                         *)

Increasing(s) == \A i, j \in DOMAIN s : i < j => s[i] < s[j]

\* The lines 1 to n in order, without those of L.
InOrder(s, n, L) == ToSet(s) = (1 .. n) \ L /\ Increasing(s)

LEMMA InOrderAppend ==
    ASSUME NEW s \in Seq(Nat), NEW n \in Nat, NEW L, L \subseteq 1 .. n, InOrder(s, n, L)
    PROVE  InOrder(Append(s, n + 1), n + 1, L)
<1> DEFINE t == Append(s, n + 1)
           m == Len(s)
<1>1. m \in Nat /\ DOMAIN s = 1 .. m /\ DOMAIN t = 1 .. m + 1
  OBVIOUS
<1>2. (\A i \in 1 .. m : t[i] = s[i] /\ s[i] \in Nat) /\ t[m + 1] = n + 1
  OBVIOUS
<1> HIDE DEF t, m
<1>3. \A i \in 1 .. m : s[i] \in 1 .. n
  BY <1>1 DEF InOrder, ToSet
<1>4. ToSet(t) = ToSet(s) \cup {n + 1}
  <2>1. \A i \in 1 .. m : i \in 1 .. m + 1
    BY <1>1
  <2>2. \A i \in 1 .. m + 1 : i \in 1 .. m \/ i = m + 1
    BY <1>1
  <2>3. m + 1 \in 1 .. m + 1
    BY <1>1
  <2> QED
    BY <1>1, <1>2, <2>1, <2>2, <2>3 DEF ToSet
<1>5. ToSet(t) = (1 .. n + 1) \ L
  <2>1. 1 .. n + 1 = (1 .. n) \cup {n + 1} /\ n + 1 \notin 1 .. n
    OBVIOUS
  <2> QED
    BY <1>4, <2>1 DEF InOrder
<1>6. Increasing(t)
  <2> SUFFICES ASSUME NEW i \in 1 .. m + 1, NEW j \in 1 .. m + 1, i < j
               PROVE  t[i] < t[j]
    BY <1>1 DEF Increasing
  <2>1. i \in 1 .. m
    BY <1>1
  <2>2. CASE j = m + 1
    BY <1>2, <1>3, <2>1, <2>2
  <2>3. CASE j # m + 1
    <3>1. j \in 1 .. m
      BY <1>1, <2>3
    <3> QED
      BY <1>1, <1>2, <2>1, <3>1 DEF InOrder, Increasing
  <2> QED
    BY <2>2, <2>3
<1> QED
  BY <1>5, <1>6 DEF InOrder, t

\* A line that fits nowhere.
LEMMA InOrderLost ==
    ASSUME NEW s, NEW n \in Nat, NEW L, InOrder(s, n, L)
    PROVE  InOrder(s, n + 1, L \cup {n + 1})
<1>1. (1 .. n + 1) \ (L \cup {n + 1}) = (1 .. n) \ L
  OBVIOUS
<1> QED
  BY <1>1 DEF InOrder

\* Dropping a part.
LEMMA InOrderDrop ==
    ASSUME NEW a \in Seq(Nat), NEW d \in Seq(Nat), NEW c \in Seq(Nat), NEW n \in Nat, NEW L,
           InOrder(a \o d \o c, n, L)
    PROVE  InOrder(a \o c, n, L \cup ToSet(d)) /\ ToSet(d) \subseteq 1 .. n
<1> DEFINE s == a \o d \o c
           t == a \o c
           A == Len(a)
           D == Len(d)
           C == Len(c)
<1>1. /\ A \in Nat /\ D \in Nat /\ C \in Nat
      /\ DOMAIN a = 1 .. A /\ DOMAIN d = 1 .. D /\ DOMAIN c = 1 .. C
  OBVIOUS
<1>2. a \o d \in Seq(Nat) /\ Len(a \o d) = A + D
      /\ \A i \in 1 .. A + D : (a \o d)[i] = IF i <= A THEN a[i] ELSE d[i - A]
  BY ConcatProperties
<1>3. /\ DOMAIN s = 1 .. A + D + C
      /\ \A i \in 1 .. A + D + C : s[i] = IF i <= A + D THEN (a \o d)[i] ELSE c[i - (A + D)]
  <2>1. s \in Seq(Nat) /\ Len(s) = A + D + C
        /\ \A i \in 1 .. A + D + C : s[i] = IF i <= A + D THEN (a \o d)[i] ELSE c[i - (A + D)]
    BY <1>2, ConcatProperties
  <2> QED
    BY <2>1
<1>4. /\ DOMAIN t = 1 .. A + C
      /\ \A i \in 1 .. A + C : t[i] = IF i <= A THEN a[i] ELSE c[i - A]
  <2>1. t \in Seq(Nat) /\ Len(t) = A + C
        /\ \A i \in 1 .. A + C : t[i] = IF i <= A THEN a[i] ELSE c[i - A]
    BY ConcatProperties
  <2> QED
    BY <2>1
<1> HIDE DEF s, t, A, D, C
\* Where the elements of t are in s.
<1> DEFINE At(i) == IF i <= A THEN i ELSE i + D
<1>5. \A i \in 1 .. A + C : At(i) \in 1 .. A + D + C /\ t[i] = s[At(i)] /\ ~(At(i) \in A + 1 .. A + D)
  <2> SUFFICES ASSUME NEW i \in 1 .. A + C
               PROVE  At(i) \in 1 .. A + D + C /\ t[i] = s[At(i)] /\ ~(At(i) \in A + 1 .. A + D)
    OBVIOUS
  <2>1. CASE i <= A
    <3>1. i \in 1 .. A + D /\ i \in 1 .. A + D + C /\ i <= A + D
      BY <1>1, <2>1
    <3> QED
      BY <1>1, <1>2, <1>3, <1>4, <2>1, <3>1
  <2>2. CASE ~(i <= A)
    <3>1. i + D \in 1 .. A + D + C /\ ~(i + D <= A + D) /\ (i + D) - (A + D) = i - A
      BY <1>1, <2>2
    <3> QED
      BY <1>1, <1>3, <1>4, <2>2, <3>1
  <2> QED
    BY <2>1, <2>2
<1>6. \A i, j \in 1 .. A + C : i < j => At(i) < At(j)
  BY <1>1
<1>7. \A k \in 1 .. A + D + C : k \in A + 1 .. A + D \/ \E i \in 1 .. A + C : At(i) = k
  <2> SUFFICES ASSUME NEW k \in 1 .. A + D + C, k \notin A + 1 .. A + D
               PROVE  \E i \in 1 .. A + C : At(i) = k
    OBVIOUS
  <2>1. CASE k <= A
    <3>1. k \in 1 .. A + C /\ At(k) = k
      BY <1>1, <2>1
    <3> QED
      BY <3>1
  <2>2. CASE ~(k <= A)
    <3>1. k - D \in 1 .. A + C /\ At(k - D) = k
      BY <1>1, <2>2
    <3> QED
      BY <3>1
  <2> QED
    BY <2>1, <2>2
<1>8. ToSet(d) = {s[k] : k \in A + 1 .. A + D}
  <2>1. \A k \in 1 .. D : k + A \in A + 1 .. A + D /\ d[k] = s[k + A]
    <3> SUFFICES ASSUME NEW k \in 1 .. D PROVE k + A \in A + 1 .. A + D /\ d[k] = s[k + A]
      OBVIOUS
    <3>1. k + A \in 1 .. A + D /\ k + A \in 1 .. A + D + C /\ k + A <= A + D
          /\ ~(k + A <= A) /\ (k + A) - A = k /\ k + A \in A + 1 .. A + D
      BY <1>1
    <3> QED
      BY <1>2, <1>3, <3>1
  <2>2. \A k \in A + 1 .. A + D : k - A \in 1 .. D /\ d[k - A] = s[k]
    <3> SUFFICES ASSUME NEW k \in A + 1 .. A + D PROVE k - A \in 1 .. D /\ d[k - A] = s[k]
      OBVIOUS
    <3>1. k - A \in 1 .. D /\ (k - A) + A = k
      BY <1>1
    <3> QED
      BY <2>1, <3>1
  <2>3. ToSet(d) = {d[k] : k \in 1 .. D}
    BY <1>1 DEF ToSet
  <2>4. \A x \in {d[k] : k \in 1 .. D} : x \in {s[k] : k \in A + 1 .. A + D}
    BY <2>1
  <2>5. \A x \in {s[k] : k \in A + 1 .. A + D} : x \in {d[k] : k \in 1 .. D}
    BY <2>2
  <2> QED
    BY <2>3, <2>4, <2>5
<1> HIDE DEF At
<1>9. Increasing(s) /\ ToSet(s) = (1 .. n) \ L
  BY DEF InOrder, s
<1>10. \A k, l \in 1 .. A + D + C : s[k] \in Nat /\ (k < l => s[k] < s[l])
  <2>1. \A k \in 1 .. A + D + C : s[k] \in 1 .. n
    <3>1. \A k \in 1 .. A + D + C : s[k] \in ToSet(s)
      BY <1>3 DEF ToSet
    <3> QED
      BY <1>9, <3>1
  <2>2. \A k, l \in 1 .. A + D + C : k < l => s[k] < s[l]
    BY <1>3, <1>9 DEF Increasing
  <2> QED
    BY <2>1, <2>2
<1>11. Increasing(t)
  BY <1>4, <1>5, <1>6, <1>10 DEF Increasing
<1>12. \A k, l \in 1 .. A + D + C : s[k] = s[l] => k = l
  BY <1>1, <1>10
<1>13. ToSet(t) = ToSet(s) \ ToSet(d)
  <2>1. ASSUME NEW x \in ToSet(t) PROVE x \in ToSet(s) /\ x \notin ToSet(d)
    <3>1. PICK i \in 1 .. A + C : x = t[i]
      BY <1>4 DEF ToSet
    <3>2. x \in ToSet(s)
      BY <1>3, <1>5, <3>1 DEF ToSet
    <3>3. \A k \in A + 1 .. A + D : k \in 1 .. A + D + C
      BY <1>1
    <3>4. x \notin {s[k] : k \in A + 1 .. A + D}
      <4> SUFFICES ASSUME NEW k \in A + 1 .. A + D, x = s[k] PROVE FALSE
        OBVIOUS
      <4>1. k = At(i)
        BY <1>5, <1>12, <3>1, <3>3
      <4> QED
        BY <1>5, <3>1, <4>1
    <3> QED
      BY <1>8, <3>2, <3>4
  <2>2. ASSUME NEW x \in ToSet(s), x \notin ToSet(d) PROVE x \in ToSet(t)
    <3>1. PICK k \in 1 .. A + D + C : x = s[k]
      BY <1>3 DEF ToSet
    <3>2. PICK i \in 1 .. A + C : At(i) = k
      BY <1>7, <1>8, <2>2, <3>1
    <3> QED
      BY <1>4, <1>5, <3>1, <3>2 DEF ToSet
  <2> QED
    BY <2>1, <2>2
<1>14. ToSet(d) \subseteq ToSet(s)
  <2>1. \A k \in A + 1 .. A + D : k \in 1 .. A + D + C
    BY <1>1
  <2> QED
    BY <1>3, <1>8, <2>1 DEF ToSet
<1> QED
  BY <1>9, <1>11, <1>13, <1>14 DEF InOrder, t

-----------------------------------------------------------------------------
(* The buffers.                                                            *)

\* The types that the actions depend on.
BuffersTyped ==
    /\ output \in Seq(Nat) /\ currentBuffer \in Seq(Nat)
    /\ buffers \in Seq(Seq(Nat)) /\ buffersToWrite \in Seq(Seq(Nat))
    /\ nextBuffer \in {<< >>, NULL} /\ newBuffer2 \in {<< >>, NULL}
    /\ appended \in Seq(Nat) /\ lost \subseteq 1 .. Len(appended)

\* nextBuffer_ is taken only when a full buffer has been queued, so that two
\* buffers were handed over if newBuffer2 is gone.
Handed ==
    /\ logger # "write" => buffersToWrite = << >>
    /\ logger = "write" => /\ buffersToWrite # << >>
                           /\ newBuffer2 = NULL => Len(buffersToWrite) > 1
    /\ nextBuffer = NULL => buffers # << >>
    /\ main = "new" => logger = "none"

\* The inductive invariant behind LinesInOrder and SparesReady.
BufferInv == BuffersTyped /\ Handed /\ SparesReady /\ LinesInOrder

\* All lines that are not dropped, from the oldest on.
AllLines(f, w, b, c) == f \o FlattenSeq(w) \o FlattenSeq(b) \o c

LEMMA LinesAreInOrder ==
    /\ LinesInOrder <=>
         InOrder(AllLines(output, buffersToWrite, buffers, currentBuffer), Len(appended), lost)
    /\ LinesInOrder' <=>
         InOrder(AllLines(output', buffersToWrite', buffers', currentBuffer'), Len(appended'), lost')
BY DEF LinesInOrder, InOrder, Increasing, AllLines

LEMMA AllLinesType ==
    ASSUME NEW f \in Seq(Nat), NEW w \in Seq(Seq(Nat)), NEW b \in Seq(Seq(Nat)), NEW c \in Seq(Nat)
    PROVE  AllLines(f, w, b, c) \in Seq(Nat)
<1>1. FlattenSeq(w) \in Seq(Nat) /\ FlattenSeq(b) \in Seq(Nat)
  BY FlattenType
<1> QED
  BY <1>1 DEF AllLines

Turn == {"loop", "lock", "waiting", "woken"}

\* The steps that move no buffer.
LEMMA NoBufferMoves ==
    ASSUME BufferInv,
           UNCHANGED <<currentBuffer, nextBuffer, buffers, newBuffer1, newBuffer2,
                       buffersToWrite, output, appended, lost>>,
           \/ logger' = logger
           \/ logger # "write" /\ logger' # "write" /\ (logger' \in Turn => logger \in Turn),
           main' = "new" => main = "new" /\ logger' = logger
    PROVE  BufferInv'
<1>1. BuffersTyped' /\ Handed'
  BY DEF BufferInv, BuffersTyped, Handed
<1>2. SparesReady'
  BY DEF BufferInv, SparesReady, Turn
<1>3. LinesInOrder'
  BY DEF BufferInv, LinesInOrder
<1> QED
  BY <1>1, <1>2, <1>3 DEF BufferInv

LEMMA ConcatIsAssociative ==
    ASSUME NEW a \in Seq(Nat), NEW b \in Seq(Nat), NEW c \in Seq(Nat)
    PROVE  a \o (b \o c) = (a \o b) \o c
OBVIOUS

LEMMA AppendLineInv ==
    ASSUME BufferInv, NEW len \in Lengths, AppendLine(len)
    PROVE  BufferInv'
<1> DEFINE k == Len(appended) + 1
           old == AllLines(output, buffersToWrite, buffers, currentBuffer)
<1>1. /\ BuffersTyped /\ Handed /\ SparesReady
      /\ InOrder(old, Len(appended), lost) /\ len \in Nat
  BY LinesAreInOrder, BufferAssumption DEF BufferInv
<1>2. /\ appended' = Append(appended, len)
      /\ UNCHANGED <<newBuffer1, newBuffer2, buffersToWrite, output, main>> /\ main # "new"
  BY DEF AppendLine, backBuffers
<1>3. /\ appended' \in Seq(Nat) /\ Len(appended') = k /\ Len(appended) \in Nat
      /\ lost \subseteq 1 .. Len(appended) /\ old \in Seq(Nat)
  BY <1>1, <1>2, AllLinesType DEF BuffersTyped
<1>4. /\ FlattenSeq(buffersToWrite) \in Seq(Nat)
      /\ FlattenSeq(buffers) \in Seq(Nat)
  BY <1>1, FlattenType DEF BuffersTyped
<1> HIDE DEF k
<1>5. CASE Size - Length(currentBuffer) > len
  <2>1. /\ currentBuffer' = Append(currentBuffer, k)
        /\ UNCHANGED <<nextBuffer, buffers, logger, lost>>
    BY <1>5 DEF AppendLine, k
  <2>2. k \in Nat
    BY <1>3 DEF k
  <2>3. BuffersTyped' /\ Handed' /\ SparesReady'
    <3>1. lost \subseteq 1 .. k
      BY <1>3 DEF k
    <3>2. BuffersTyped'
      BY <1>1, <1>2, <1>3, <2>1, <2>2, <3>1 DEF BuffersTyped
    <3> QED
      BY <1>1, <1>2, <2>1, <3>2 DEF Handed, SparesReady
  <2>4. AllLines(output', buffersToWrite', buffers', currentBuffer') = Append(old, k)
    <3>1. \A p, c \in Seq(Nat) : p \o Append(c, k) = Append(p \o c, k)
      BY <2>2
    <3>2. output \o FlattenSeq(buffersToWrite) \o FlattenSeq(buffers) \in Seq(Nat)
      BY <1>1, <1>4 DEF BuffersTyped
    <3> QED
      BY <1>1, <1>2, <2>1, <3>1, <3>2 DEF AllLines, BuffersTyped
  <2>5. InOrder(Append(old, k), k, lost)
    BY <1>1, <1>3, InOrderAppend DEF k
  <2>6. LinesInOrder'
    BY <1>3, <2>1, <2>4, <2>5, LinesAreInOrder
  <2> QED
    BY <2>3, <2>6 DEF BufferInv
<1>6. CASE ~(Size - Length(currentBuffer) > len)
  <2>1. /\ buffers' = Append(buffers, currentBuffer)
        /\ currentBuffer' =
             Appended(IF nextBuffer # NULL THEN nextBuffer ELSE << >>, k, len)
        /\ nextBuffer' = NULL
        /\ lost' = IF currentBuffer' = << >> THEN lost \cup {k} ELSE lost
        /\ logger' = Notified
    BY <1>6 DEF AppendLine, k
  <2>2. k \in Nat /\ k = Len(appended) + 1
    BY <1>3 DEF k
  <2>3. currentBuffer' = <<k>> \/ currentBuffer' = << >>
    <3>1. (IF nextBuffer # NULL THEN nextBuffer ELSE << >>) = << >>
      BY <1>1 DEF BuffersTyped
    <3>2. Append(<< >>, k) = <<k>>
      BY <2>2
    <3> QED
      BY <2>1, <3>1, <3>2 DEF Appended
  <2>4. BuffersTyped' /\ Handed' /\ SparesReady'
    <3>1. lost' \subseteq 1 .. k
      <4>1. 1 .. Len(appended) \subseteq 1 .. k /\ k \in 1 .. k
        BY <1>3, <2>2
      <4>2. lost' \subseteq lost \cup {k}
        BY <2>1
      <4> QED
        BY <1>3, <4>1, <4>2
    <3>2. buffers' \in Seq(Seq(Nat)) /\ buffers' # << >> /\ currentBuffer' \in Seq(Nat)
      <4>1. buffers \in Seq(Seq(Nat)) /\ currentBuffer \in Seq(Nat)
        BY <1>1 DEF BuffersTyped
      <4>2. buffers' \in Seq(Seq(Nat)) /\ buffers' # << >>
        BY <2>1, <4>1, AppendProperties
      <4>3. <<k>> \in Seq(Nat) /\ << >> \in Seq(Nat)
        BY <2>2
      <4> QED
        BY <2>3, <4>2, <4>3
    <3>3. BuffersTyped'
      BY <1>1, <1>2, <1>3, <2>1, <3>1, <3>2 DEF BuffersTyped
    <3> QED
      BY <1>1, <1>2, <2>1, <3>2, <3>3 DEF Handed, SparesReady, Notified
  <2>5. AllLines(output', buffersToWrite', buffers', currentBuffer') = old \o currentBuffer'
    <3> DEFINE p == output \o FlattenSeq(buffersToWrite)
    <3>1. FlattenSeq(buffers') = FlattenSeq(buffers) \o currentBuffer
      BY <1>1, <2>1, FlattenAppend DEF BuffersTyped
    <3>2. p \in Seq(Nat) /\ currentBuffer \in Seq(Nat)
      BY <1>1, <1>4 DEF BuffersTyped
    <3>3. p \o (FlattenSeq(buffers) \o currentBuffer) = old
      <4> HIDE DEF p
      <4>1. p \o (FlattenSeq(buffers) \o currentBuffer) =
              (p \o FlattenSeq(buffers)) \o currentBuffer
        BY ONLY <1>4, <3>2, ConcatIsAssociative, Zenon
      <4>2. old = (p \o FlattenSeq(buffers)) \o currentBuffer
        BY DEF AllLines, p
      <4> QED
        BY <4>1, <4>2
    <3> QED
      BY <1>2, <3>1, <3>3 DEF AllLines
  <2>6. LinesInOrder'
    <3>1. CASE currentBuffer' = << >>
      <4>1. AllLines(output', buffersToWrite', buffers', currentBuffer') = old
        BY <1>3, <2>5, <3>1, ConcatEmptySeq
      <4>2. InOrder(old, Len(appended) + 1, lost \cup {Len(appended) + 1})
        BY <1>1, <1>3, InOrderLost
      <4> QED
        BY <1>3, <2>1, <2>2, <3>1, <4>1, <4>2, LinesAreInOrder
    <3>2. CASE currentBuffer' = <<k>>
      <4>1. old \o <<k>> = Append(old, k) /\ <<k>> # << >>
        BY <1>3, <2>2
      <4>2. InOrder(Append(old, k), k, lost)
        BY <1>1, <1>3, <2>2, InOrderAppend
      <4> QED
        BY <1>3, <2>1, <2>5, <3>2, <4>1, <4>2, LinesAreInOrder
    <3> QED
      BY <2>3, <3>1, <3>2
  <2> QED
    BY <2>4, <2>6 DEF BufferInv
<1> QED
  BY <1>5, <1>6

LEMMA SwapInv ==
    ASSUME BufferInv, Swap
    PROVE  BufferInv'
<1>1. BuffersTyped /\ Handed /\ SparesReady /\ LinesInOrder /\ NULL # << >>
  BY BufferAssumption DEF BufferInv
<1>2. /\ logger \in Turn /\ logger' = "write"
      /\ buffersToWrite' = Append(buffers, currentBuffer) /\ buffers' = << >>
      /\ currentBuffer' = newBuffer1 /\ UNCHANGED <<output, appended, lost, main>>
      /\ nextBuffer = NULL => nextBuffer' = newBuffer2 /\ newBuffer2' = NULL
      /\ nextBuffer # NULL => UNCHANGED <<nextBuffer, newBuffer2>>
  BY DEF Swap, Turn
<1>3. newBuffer1 = << >> /\ newBuffer2 = << >> /\ buffersToWrite = << >>
  BY <1>1, <1>2 DEF SparesReady, Turn
<1>4. BuffersTyped'
  BY <1>1, <1>2, <1>3 DEF BuffersTyped
<1>5. Handed'
  <2>1. /\ buffersToWrite' # << >>
        /\ buffers # << >> => Len(buffersToWrite') > 1
    BY <1>1, <1>2 DEF BuffersTyped
  <2>2. nextBuffer' # NULL
    BY <1>1, <1>2, <1>3
  <2>3. newBuffer2' = NULL => buffers # << >>
    BY <1>1, <1>2, <1>3 DEF Handed
  <2>4. main' # "new"
    BY <1>1, <1>2 DEF Handed, Turn
  <2> QED
    BY <1>2, <2>1, <2>2, <2>3, <2>4 DEF Handed
<1>6. SparesReady'
  BY <1>2 DEF SparesReady
<1>7. AllLines(output', buffersToWrite', buffers', currentBuffer') =
        AllLines(output, buffersToWrite, buffers, currentBuffer)
  <2> DEFINE F == FlattenSeq(buffers)
  <2>1. F \in Seq(Nat) /\ output \in Seq(Nat) /\ currentBuffer \in Seq(Nat)
    BY <1>1, FlattenType DEF BuffersTyped
  <2>2. /\ FlattenSeq(buffersToWrite') = F \o currentBuffer
        /\ FlattenSeq(buffers') = << >> /\ FlattenSeq(buffersToWrite) = << >>
    BY <1>1, <1>2, <1>3, FlattenAppend, FlattenEmpty DEF BuffersTyped
  <2> HIDE DEF F
  <2>3. output \o (F \o currentBuffer) = (output \o << >> \o F) \o currentBuffer
    <3>1. output \o << >> = output
      BY <2>1, ConcatEmptySeq
    <3>2. output \o (F \o currentBuffer) = (output \o F) \o currentBuffer
      BY ONLY <2>1, ConcatIsAssociative, Zenon
    <3> QED
      BY <3>1, <3>2
  <2>4. output \o (F \o currentBuffer) \o << >> \o << >> = output \o (F \o currentBuffer)
    BY <2>1
  <2> QED
    BY <1>2, <1>3, <2>2, <2>3, <2>4 DEF AllLines, F
<1>8. LinesInOrder'
  BY <1>1, <1>2, <1>7, LinesAreInOrder
<1> QED
  BY <1>4, <1>5, <1>6, <1>8 DEF BufferInv

LEMMA WriteInv ==
    ASSUME BufferInv, Write
    PROVE  BufferInv'
<1> DEFINE n == Len(buffersToWrite)
           drop == IF n > MaxBuffers THEN n - 2 ELSE 0
           dropped == SubSeq(buffersToWrite, 1, drop)
           written == SubSeq(buffersToWrite, drop + 1, n)
           spares == Spares(written)
           rest == SubSeq(spares, 1, Len(spares) - 1)
<1>1. BuffersTyped /\ Handed /\ LinesInOrder /\ MaxBuffers \in Nat /\ MaxBuffers >= 2
  BY BufferAssumption DEF BufferInv
<1>2. /\ logger = "write" /\ logger' = "loop"
      /\ output' = output \o FlattenSeq(written)
      /\ lost' = lost \cup ToSet(FlattenSeq(dropped))
      /\ newBuffer1' = Recycled(Last(spares))
      /\ newBuffer2' = IF newBuffer2 # NULL THEN newBuffer2
                       ELSE IF rest # << >> THEN Recycled(Last(rest)) ELSE NULL
      /\ buffersToWrite' = << >>
      /\ UNCHANGED <<currentBuffer, nextBuffer, buffers, appended, main>>
  BY DEF Write, frontBuffers
<1>3. n \in Nat \ {0} /\ (newBuffer2 = NULL => n > 1) /\ buffersToWrite \in Seq(Seq(Nat))
  BY <1>1, <1>2 DEF BuffersTyped, Handed
<1> HIDE DEF n
<1>4. drop \in 0 .. n - 1 /\ (n > 1 => n - drop > 1)
  BY <1>1, <1>3
<1> HIDE DEF drop
<1>5. /\ dropped \in Seq(Seq(Nat)) /\ written \in Seq(Seq(Nat))
      /\ Len(written) = n - drop
      /\ buffersToWrite = dropped \o written
  <2>1. \A i \in 1 .. n : buffersToWrite[i] \in Seq(Nat)
    BY <1>3 DEF n
  <2>2. \A i \in 1 .. drop : i \in 1 .. n
    BY <1>3, <1>4
  <2>3. \A i \in drop + 1 .. n : i \in 1 .. n
    BY <1>3, <1>4
  <2>4. dropped \in Seq(Seq(Nat))
    BY <1>3, <1>4, <2>1, <2>2, SubSeqProperties
  <2>5. written \in Seq(Seq(Nat)) /\ Len(written) = n - drop
    BY <1>3, <1>4, <2>1, <2>3, SubSeqProperties
  <2>6. SubSeq(buffersToWrite, 1, drop) \o SubSeq(buffersToWrite, drop + 1, n) =
          SubSeq(buffersToWrite, 1, n)
    <3>1. 1 \in 1 .. n + 1 /\ drop \in 1 - 1 .. n /\ n \in drop .. n
      BY <1>3, <1>4
    <3> QED
      BY <1>3, <3>1, ConcatAdjacentSubSeq DEF n
  <2>7. SubSeq(buffersToWrite, 1, n) = buffersToWrite
    BY <1>3, SubSeqFull DEF n
  <2> QED
    BY <2>4, <2>5, <2>6, <2>7
<1> HIDE DEF dropped, written
<1>6. newBuffer1' = << >> /\ newBuffer2' = << >>
  <2>1. newBuffer1' = << >>
    BY <1>2 DEF Recycled
  <2>2. CASE newBuffer2 # NULL
    <3> HIDE DEF spares, rest
    <3> QED
      BY <1>1, <1>2, <2>1, <2>2 DEF BuffersTyped
  <2>3. CASE newBuffer2 = NULL
    <3>1. Len(written) > 1 /\ Len(written) \in Nat
      BY <1>3, <1>4, <1>5, <2>3
    <3>2. spares \in Seq(Seq(Nat)) /\ Len(spares) = 2
      <4>1. CASE Len(written) > 2
        <5>1. spares = SubSeq(written, 1, 2)
          BY <4>1 DEF Spares
        <5>2. \A i \in 1 .. 2 : written[i] \in Seq(Nat)
          BY <1>5, <4>1
        <5> QED
          BY <5>1, <5>2, SubSeqProperties
      <4>2. CASE ~(Len(written) > 2)
        <5>1. spares = written
          BY <4>2 DEF Spares
        <5> QED
          BY <1>5, <3>1, <4>2, <5>1
      <4> QED
        BY <4>1, <4>2
    <3> HIDE DEF spares
    <3>3. rest # << >>
      <4>1. \A i \in 1 .. 1 : spares[i] \in Seq(Nat)
        BY <3>2
      <4>2. Len(SubSeq(spares, 1, 1)) = 1
        BY <4>1, SubSeqProperties
      <4>3. rest = SubSeq(spares, 1, 1)
        BY <3>2
      <4>4. Len(rest) = 1
        BY <4>2, <4>3
      <4> HIDE DEF rest
      <4> QED
        BY <4>4
    <3> HIDE DEF rest
    <3> QED
      BY <1>2, <2>1, <2>3, <3>3 DEF Recycled
  <2> QED
    BY <2>1, <2>2, <2>3
<1> HIDE DEF spares, rest
<1>7. SparesReady'
  BY <1>2, <1>6 DEF SparesReady
<1> DEFINE W == FlattenSeq(written)
           D == FlattenSeq(dropped)
           B == FlattenSeq(buffers)
           c == W \o B \o currentBuffer
<1>8. /\ W \in Seq(Nat) /\ D \in Seq(Nat) /\ B \in Seq(Nat)
      /\ output \in Seq(Nat) /\ currentBuffer \in Seq(Nat)
      /\ FlattenSeq(buffersToWrite) = D \o W
  BY <1>1, <1>5, FlattenType, FlattenConcat DEF BuffersTyped
<1> HIDE DEF W, D, B
<1>8a. ASSUME NEW x \in Seq(Nat)
      PROVE  x \o W \o B \o currentBuffer = x \o (W \o B \o currentBuffer)
  <2>1. W \o B \in Seq(Nat) /\ W \in Seq(Nat) /\ B \in Seq(Nat) /\ currentBuffer \in Seq(Nat)
    BY <1>8
  <2>2. x \o (W \o B) = (x \o W) \o B
    BY ONLY <2>1, x \in Seq(Nat), ConcatIsAssociative, Zenon
  <2>3. x \o ((W \o B) \o currentBuffer) = (x \o (W \o B)) \o currentBuffer
    BY ONLY <2>1, x \in Seq(Nat), ConcatIsAssociative, Zenon
  <2> QED
    BY ONLY <2>2, <2>3, Zenon
<1>9. AllLines(output, buffersToWrite, buffers, currentBuffer) = output \o D \o c
  <2>1. AllLines(output, buffersToWrite, buffers, currentBuffer) = output \o (D \o W) \o B \o currentBuffer
    BY <1>8 DEF AllLines, B
  <2>2. output \o (D \o W) = (output \o D) \o W
    BY ONLY <1>8, ConcatIsAssociative, Zenon
  <2>3. output \o D \in Seq(Nat)
    BY <1>8
  <2>4. (output \o D) \o W \o B \o currentBuffer = (output \o D) \o (W \o B \o currentBuffer)
    BY ONLY <2>3, <1>8a, Zenon
  <2> QED
    BY <2>1, <2>2, <2>4
<1>10. AllLines(output', buffersToWrite', buffers', currentBuffer') = output \o c
  <2>1. AllLines(output', buffersToWrite', buffers', currentBuffer') =
          (output \o W) \o << >> \o B \o currentBuffer
    BY <1>2, FlattenEmpty DEF AllLines, W, B
  <2>2. (output \o W) \o << >> = output \o W
    BY <1>8, ConcatEmptySeq
  <2>3. output \o W \o B \o currentBuffer = output \o (W \o B \o currentBuffer)
    BY ONLY <1>8, <1>8a, Zenon
  <2> QED
    BY <2>1, <2>2, <2>3
<1>11. /\ InOrder(output \o c, Len(appended), lost \cup ToSet(D))
       /\ ToSet(D) \subseteq 1 .. Len(appended)
  <2>1. c \in Seq(Nat) /\ Len(appended) \in Nat
    BY <1>1, <1>8 DEF BuffersTyped
  <2>2. InOrder(output \o D \o c, Len(appended), lost)
    BY <1>1, <1>9, LinesAreInOrder
  <2> HIDE DEF c
  <2> QED
    BY <1>8, <2>1, <2>2, InOrderDrop
<1>12. LinesInOrder'
  BY <1>2, <1>10, <1>11, LinesAreInOrder DEF D
<1>13. BuffersTyped' /\ Handed'
  <2>1. output' \in Seq(Nat) /\ lost' \subseteq 1 .. Len(appended)
    <3>1. output' = output \o W /\ lost' = lost \cup ToSet(D)
      BY <1>2 DEF W, D
    <3>2. output \o W \in Seq(Nat)
      BY <1>8
    <3> QED
      BY <1>1, <1>11, <3>1, <3>2 DEF BuffersTyped
  <2> QED
    BY <1>1, <1>2, <1>6, <2>1 DEF BuffersTyped, Handed
<1> QED
  BY <1>7, <1>12, <1>13 DEF BufferInv

LEMMA BufferStep ==
    ASSUME BufferInv, [BufferNext]_doubleVars
    PROVE  BufferInv'
<1> DEFINE Still == UNCHANGED <<currentBuffer, nextBuffer, buffers, newBuffer1, newBuffer2,
                                buffersToWrite, output, appended, lost>>
<1>1. CASE UNCHANGED doubleVars
  <2>1. Still /\ logger' = logger /\ main' = main
    BY <1>1 DEF doubleVars, loggingVars, bufferVars, frontBuffers, backBuffers
  <2> QED
    BY <2>1, NoBufferMoves
<1>2. CASE StartThread /\ UNCHANGED bufferVars
  <2>1. Still /\ main = "new" /\ main' = "waiting" /\ logger' = "entered"
    BY <1>2 DEF StartThread, bufferVars, frontBuffers, backBuffers
  <2>2. logger = "none"
    BY <2>1 DEF BufferInv, Handed
  <2> QED
    BY <2>1, <2>2, NoBufferMoves DEF Turn
<1>8. CASE \/ (StopRunning \/ StartWaits \/ StartReturns \/ StopReturns) /\ UNCHANGED bufferVars
           \/ LatchWakeup
  <2>1. Still /\ logger' = logger /\ (main' = "new" => main = "new")
    BY <1>8 DEF StopRunning, StartWaits, StartReturns, StopReturns, LatchWakeup,
                loggingVars, bufferVars, frontBuffers, backBuffers
  <2> QED
    BY <2>1, NoBufferMoves
<1>9. CASE StopNotifies
  <2>1. Still /\ logger' = Notified /\ main' = "joining"
    BY <1>9 DEF StopNotifies, bufferVars, frontBuffers, backBuffers
  <2> QED
    BY <2>1, NoBufferMoves DEF Notified, Turn
<1>3. CASE ThreadFuncBuffers
  <2>1. /\ logger = "entered" /\ logger' = "loop" /\ newBuffer1' = << >> /\ newBuffer2' = << >>
        /\ UNCHANGED <<currentBuffer, nextBuffer, buffers, buffersToWrite, output, appended, lost, main>>
    BY <1>3 DEF ThreadFuncBuffers, frontBuffers
  <2>2. BuffersTyped' /\ Handed' /\ SparesReady'
    BY <2>1 DEF BufferInv, BuffersTyped, Handed, SparesReady
  <2>3. LinesInOrder'
    BY <2>1 DEF BufferInv, LinesInOrder
  <2> QED
    BY <2>2, <2>3 DEF BufferInv
<1>4. CASE TestRunning \/ Waits \/ WaitEnds
  <2>1. /\ Still /\ logger \in Turn /\ main' = main
        /\ logger' \in {"done", "lock", "waiting", "woken"}
    BY <1>4 DEF TestRunning, Waits, WaitEnds, bufferVars, frontBuffers, backBuffers, Turn
  <2>2. main # "new"
    BY <2>1 DEF BufferInv, Handed, Turn
  <2> QED
    BY <2>1, <2>2, NoBufferMoves DEF Turn
<1>5. CASE Swap
  BY <1>5, SwapInv
<1>6. CASE Write
  BY <1>6, WriteInv
<1>7. CASE \E len \in Lengths : AppendLine(len)
  BY <1>7, AppendLineInv
<1> QED
  BY <1>1, <1>2, <1>3, <1>4, <1>5, <1>6, <1>7, <1>8, <1>9
  DEF BufferNext, StartOrStopBuffers, BufferOwnerReturns, BufferOwnerGoesOn, BufferLoggerGoesOn

LEMMA BufferInvInit ==
    ASSUME BufferInit
    PROVE  BufferInv
<1>1. BuffersTyped /\ Handed /\ SparesReady
  BY BufferAssumption DEF BufferInit, LoggingInit, BuffersTyped, Handed, SparesReady
<1>2. AllLines(output, buffersToWrite, buffers, currentBuffer) = << >> /\ Len(appended) = 0 /\ lost = {}
  BY FlattenEmpty DEF BufferInit, LoggingInit, AllLines
<1>3. InOrder(<< >>, 0, {})
  BY DEF InOrder, Increasing, ToSet
<1> QED
  BY <1>1, <1>2, <1>3, LinesAreInOrder DEF BufferInv

LEMMA BufferAlways == BufferSpec => []BufferInv
<1>1. BufferInit => BufferInv
  BY BufferInvInit
<1>2. BufferInv /\ [BufferNext]_doubleVars => BufferInv'
  BY BufferStep
<1> QED
  BY <1>1, <1>2, PTL DEF BufferSpec

\* The lines of any number of front ends go to the file in the order in which
\* append() got the mutex, none twice, and none is lost but those of dropped
\* buffers and those that fit in no buffer, however the seven places of the
\* buffers are filled and swapped (AsyncLoggingDoubleBuffering.h:55-166).
THEOREM BuffersKeepLinesInOrder == BufferSpec => []LinesInOrder
<1>1. BufferInv => LinesInOrder
  BY DEF BufferInv
<1> QED
  BY <1>1, BufferAlways, PTL

\* The assertions at the top of threadFunc()'s loop hold in every turn: both
\* spare buffers are there and empty, also after buffers were dropped.
THEOREM BuffersSparesReady == BufferSpec => []SparesReady
<1>1. BufferInv => SparesReady
  BY DEF BufferInv
<1> QED
  BY <1>1, BufferAlways, PTL

=============================================================================
