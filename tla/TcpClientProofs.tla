--------------------------- MODULE TcpClientProofs ---------------------------
(***************************************************************************)
(* Proofs about TcpClient and its Connector, for every initial and largest *)
(* delay: the assertions of the code hold, the client has one thing at a   *)
(* time, and stop() in the loop's thread is final.                         *)
(*                                                                         *)
(* What makes them hold is where the channel's deletion and the first      *)
(* startInLoop() are: in the queue or in the batch, once, and in phases of *)
(* the loop in which no attempt can begin beside them.                     *)
(***************************************************************************)
EXTENDS TcpClient, SequenceTheorems, TLAPS

Functors == {"startInLoop", "resetChannel", "cancelTimer", "cancelNothing", "connectDestroyed"}

\* The functor is in the queue; it is there at most once; it is the first.
In(f, q) == \E i \in 1 .. Len(q) : q[i] = f
Once(f, q) == \A i, j \in 1 .. Len(q) : q[i] = f /\ q[j] = f => i = j
First(f, q) == \A i \in 1 .. Len(q) : q[i] = f => i = 1

QueuesTyped == pending \in Seq(Functors) /\ batch \in Seq(Functors)

\* What the phases of the loop say of its lists.
LoopShape ==
    /\ phase # "events" => active = {}
    /\ phase # "functors" => batch = << >>
    /\ phase \in {"poll", "functors"} => ~In("resetChannel", pending)

\* A channel that was removed is deleted by one functor.
ResetQueued ==
    /\ channel = "removed" <=> (In("resetChannel", pending) \/ In("resetChannel", batch))
    /\ Once("resetChannel", pending) /\ Once("resetChannel", batch)

\* The startInLoop() of connect() comes before everything else.
StartQueued ==
    /\ First("startInLoop", pending) /\ First("startInLoop", batch)
    /\ In("startInLoop", pending) \/ In("startInLoop", batch) =>
         /\ state = "kDisconnected" /\ channel = "none" /\ ~timer /\ ~connection
         /\ active = {} /\ phase \in {"poll", "events", "functors"}
    /\ In("startInLoop", pending) => phase # "functors"

\* What poll() found is still so when it is handled.
EventsFresh ==
    /\ "timer" \in active =>
         active = {"timer"} /\ state = "kDisconnected" /\ channel = "none" /\ ~connection
    /\ "close" \in active => active = {"close"} /\ connection /\ channel = "none"
    /\ "error" \in active => state = "kConnecting"
    /\ "write" \in active => state # "kConnected"

\* restart() finds neither a timer nor a channel nor a connection.
RestartClean ==
    /\ phase \in {"restarting", "starting"} => ~timer /\ ~connection /\ channel = "none"
    /\ phase = "starting" => state = "kDisconnected"

\* The inductive invariant.
Inv ==
    /\ OneAttempt /\ QueuesTyped /\ LoopShape
    /\ ResetQueued /\ StartQueued /\ EventsFresh /\ RestartClean

-----------------------------------------------------------------------------
(* The queues.                                                             *)

LEMMA EmptyQueue == \A f : ~In(f, << >>) /\ Once(f, << >>) /\ First(f, << >>)
  BY DEF In, Once, First

LEMMA AppendFunctor ==
  ASSUME NEW q \in Seq(Functors), NEW x \in Functors
  PROVE  /\ Append(q, x) \in Seq(Functors)
         /\ \A f : In(f, Append(q, x)) <=> (In(f, q) \/ f = x)
         /\ \A f : f # x /\ Once(f, q) => Once(f, Append(q, x))
         /\ \A f : f # x /\ First(f, q) => First(f, Append(q, x))
         /\ ~In(x, q) => Once(x, Append(q, x))
  <1> DEFINE r == Append(q, x)
  <1>1. /\ r \in Seq(Functors) /\ Len(r) = Len(q) + 1 /\ Len(q) \in Nat
        /\ \A i \in 1 .. Len(q) : r[i] = q[i]
        /\ r[Len(q) + 1] = x
    OBVIOUS
  <1> HIDE DEF r
  <1>2. \A i \in 1 .. Len(r) : i \in 1 .. Len(q) \/ i = Len(q) + 1
    BY <1>1
  <1>3. Len(q) + 1 \in 1 .. Len(r) /\ \A i \in 1 .. Len(q) : i \in 1 .. Len(r)
    BY <1>1
  <1>4. \A f : In(f, r) <=> (In(f, q) \/ f = x)
    BY <1>1, <1>2, <1>3 DEF In
  <1>5. \A f : f # x /\ Once(f, q) => Once(f, r)
    BY <1>1, <1>2 DEF Once
  <1>6. \A f : f # x /\ First(f, q) => First(f, r)
    BY <1>1, <1>2 DEF First
  <1>7. ~In(x, q) => Once(x, r)
    BY <1>1, <1>2 DEF In, Once
  <1>8. QED
    BY <1>1, <1>4, <1>5, <1>6, <1>7 DEF r

LEMMA TailFunctor ==
  ASSUME NEW q \in Seq(Functors), q # << >>
  PROVE  /\ Tail(q) \in Seq(Functors) /\ Head(q) \in Functors /\ In(Head(q), q)
         /\ \A f : In(f, Tail(q)) => In(f, q)
         /\ \A f : f # Head(q) /\ In(f, q) => In(f, Tail(q))
         /\ \A f : Once(f, q) => Once(f, Tail(q))
         /\ Once(Head(q), q) => ~In(Head(q), Tail(q))
         /\ \A f : First(f, q) => First(f, Tail(q)) /\ ~In(f, Tail(q))
  <1> DEFINE r == Tail(q)
  <1>1. /\ r \in Seq(Functors) /\ Len(q) \in Nat \ {0} /\ Len(r) = Len(q) - 1
        /\ \A i \in 1 .. Len(r) : r[i] = q[i + 1]
        /\ Head(q) = q[1] /\ Head(q) \in Functors
    OBVIOUS
  <1> HIDE DEF r
  <1>2. 1 \in 1 .. Len(q) /\ \A i \in 1 .. Len(r) : i + 1 \in 1 .. Len(q) /\ i + 1 # 1 /\ i \in Nat
    BY <1>1
  <1>3. \A i \in 1 .. Len(q) : i # 1 => i - 1 \in 1 .. Len(r) /\ (i - 1) + 1 = i
    BY <1>1
  <1>4. In(Head(q), q) /\ \A f : In(f, r) => In(f, q)
    BY <1>1, <1>2 DEF In
  <1>5. ASSUME NEW f, f # Head(q), In(f, q) PROVE In(f, r)
    <2>1. PICK i \in 1 .. Len(q) : q[i] = f
      BY <1>5 DEF In
    <2>2. i - 1 \in 1 .. Len(r) /\ r[i - 1] = f
      BY <1>1, <1>3, <1>5, <2>1
    <2>3. QED
      BY <2>2 DEF In
  <1>6. ASSUME NEW f, Once(f, q) PROVE Once(f, r)
    <2> SUFFICES ASSUME NEW i \in 1 .. Len(r), NEW j \in 1 .. Len(r), r[i] = f, r[j] = f
                 PROVE  i = j
      BY DEF Once
    <2>1. i + 1 = j + 1
      BY <1>1, <1>2, <1>6 DEF Once
    <2>2. QED
      BY <1>2, <2>1
  <1>7. Once(Head(q), q) => ~In(Head(q), r)
    BY <1>1, <1>2 DEF Once, In
  <1>8. \A f : First(f, q) => ~In(f, r)
    BY <1>1, <1>2 DEF First, In
  <1>9. \A f : ~In(f, r) => First(f, r)
    BY DEF First, In
  <1>10. QED
    BY <1>1, <1>4, <1>5, <1>6, <1>7, <1>8, <1>9 DEF r

LEMMA MissedFunctor ==
  ASSUME NEW q \in Seq(Functors), NEW f \in {"startInLoop", "resetChannel"}
  PROVE  /\ Missed(q) \in Seq(Functors)
         /\ In(f, Missed(q)) <=> In(f, q)
         /\ Once(f, q) => Once(f, Missed(q))
         /\ First(f, q) => First(f, Missed(q))
  <1> DEFINE r == Missed(q)
  <1>1. /\ r \in Seq(Functors) /\ Len(r) = Len(q)
        /\ \A i \in 1 .. Len(q) : r[i] = IF q[i] = "cancelTimer" THEN "cancelNothing" ELSE q[i]
    BY DEF Missed, Functors
  <1> HIDE DEF r
  <1>2. \A i \in 1 .. Len(q) : r[i] = f <=> q[i] = f
    BY <1>1
  <1>3. QED
    BY <1>1, <1>2 DEF In, Once, First, r

-----------------------------------------------------------------------------
(* The operations of the connector.                                        *)

\* The delay doubles up to its limit.
LEMMA DoubledType ==
  ASSUME delay \in kInitRetryDelayMs .. kMaxRetryDelayMs
  PROVE  Doubled \in kInitRetryDelayMs .. kMaxRetryDelayMs
  BY ConnectorAssumption DEF Doubled

\* startInLoop(): an attempt is under way, and connect_ was set, or the
\* connector is disconnected as before.
LEMMA StartInLoopEffect ==
  ASSUME TypeOK, NEW r, NEW left \in BOOLEAN, StartInLoop(r, left)
  PROVE  /\ delay' \in kInitRetryDelayMs .. kMaxRetryDelayMs /\ gaveUp' \in BOOLEAN
         /\ connect' = connect /\ timer' \in BOOLEAN
         /\ \/ connect /\ state' = "kConnecting" /\ channel' = "watch" /\ timer' = left
            \/ state' = "kDisconnected" /\ channel' = channel
  <1>1. state = "kDisconnected" /\ connect' = connect
    BY DEF StartInLoop
  <1>2. CASE connect
    <2>1. Connect(r, left)
      BY <1>2 DEF StartInLoop
    <2>2. Doubled \in kInitRetryDelayMs .. kMaxRetryDelayMs
      BY DoubledType DEF TypeOK
    <2>3. QED
      BY <1>1, <1>2, <2>1, <2>2 DEF Connect, Retry, TypeOK
  <1>3. CASE ~connect
    BY <1>1, <1>3 DEF StartInLoop, TypeOK
  <1>4. QED
    BY <1>2, <1>3 DEF TypeOK

\* An attempt that fails: the connector is disconnected, perhaps with a timer.
LEMMA AttemptFailsEffect ==
  ASSUME TypeOK, AttemptFails
  PROVE  /\ delay' \in kInitRetryDelayMs .. kMaxRetryDelayMs /\ timer' \in BOOLEAN
         /\ state = "kConnecting" /\ state' = "kDisconnected" /\ channel' = "removed"
         /\ pending' = Append(pending, "resetChannel") /\ UNCHANGED <<connect, gaveUp>>
  <1>1. Doubled \in kInitRetryDelayMs .. kMaxRetryDelayMs
    BY DoubledType DEF TypeOK
  <1>2. /\ state = "kConnecting" /\ state' = "kDisconnected" /\ channel' = "removed"
        /\ pending' = Append(pending, "resetChannel") /\ UNCHANGED <<connect, gaveUp>>
    BY DEF AttemptFails, RemoveAndResetChannel, Retry
  <1>3. timer' = (connect \/ timer) /\ delay' = IF connect THEN Doubled ELSE delay
    BY DEF AttemptFails, Retry
  <1>4. timer' \in BOOLEAN
    BY <1>3
  <1>5. delay' \in kInitRetryDelayMs .. kMaxRetryDelayMs
    BY <1>1, <1>3 DEF TypeOK
  <1>6. QED
    BY <1>2, <1>4, <1>5

-----------------------------------------------------------------------------
(* Every action preserves the invariant.                                   *)

LEMMA InitInv == Init => Inv
  <1> SUFFICES ASSUME Init PROVE Inv
    OBVIOUS
  <1>1. << >> \in Seq(Functors)
    OBVIOUS
  <1>2. /\ pending \in Seq(Functors) /\ batch \in Seq(Functors) /\ batch = << >>
        /\ ~In("resetChannel", pending) /\ Once("resetChannel", pending)
    <2>1. batch = << >> /\ Len(pending) = 1 /\ pending[1] = "startInLoop" /\ pending \in Seq(Functors)
      BY DEF Init, Functors
    <2>2. QED
      BY <1>1, <2>1 DEF In, Once
  <1>3. First("startInLoop", pending)
    <2>1. Len(pending) = 1
      BY DEF Init
    <2>2. QED
      BY <2>1 DEF First
  <1>4. delay \in kInitRetryDelayMs .. kMaxRetryDelayMs
    BY ConnectorAssumption DEF Init, ConnectorInit
  <1>5. QED
    BY <1>2, <1>3, <1>4, EmptyQueue
       DEF Init, ConnectorInit, Inv, OneAttempt, TypeOK, QueuesTyped, LoopShape, ResetQueued,
           StartQueued, EventsFresh, RestartClean

\* At poll() no channel waits to be deleted.
LEMMA PollInv == Inv /\ Poll => Inv'
  <1> SUFFICES ASSUME Inv, Poll PROVE Inv'
    OBVIOUS
  <1> USE DEF Inv, OneAttempt, TypeOK
  <1>1. /\ phase = "poll" /\ phase' = "events" /\ active' \subseteq Ready
        /\ UNCHANGED <<connector, pending, client, batch, thread, stopped>>
    BY DEF Poll
  <1>2. batch = << >> /\ channel # "removed"
    BY <1>1, EmptyQueue DEF LoopShape, ResetQueued
  <1>3. /\ "timer" \in active' => timer
        /\ "close" \in active' => connection
        /\ "error" \in active' \/ "write" \in active' => channel = "watch"
        /\ active' \subseteq {"timer", "error", "write", "close"}
    BY <1>1 DEF Ready
  <1>4. EventsFresh'
    BY <1>1, <1>2, <1>3 DEF EventsFresh, connector, client
  <1>5. StartQueued'
    BY <1>1, <1>3 DEF StartQueued, connector, client
  <1>6. OneAttempt' /\ QueuesTyped' /\ LoopShape' /\ ResetQueued' /\ RestartClean'
    BY <1>1, <1>2, <1>3 DEF QueuesTyped, LoopShape, ResetQueued, RestartClean, connector, client
  <1>7. QED
    BY <1>4, <1>5, <1>6

LEMMA HandleTimerInv == Inv /\ HandleTimer => Inv'
  <1> SUFFICES ASSUME Inv, HandleTimer PROVE Inv'
    OBVIOUS
  <1> USE DEF Inv, OneAttempt, TypeOK
  <1>1. /\ phase = "events" /\ active = {"timer"} /\ active' = {}
        /\ state = "kDisconnected" /\ channel = "none" /\ ~connection
        /\ UNCHANGED <<client, phase, batch, thread, stopped>>
    BY DEF HandleTimer, Handles, EventsFresh
  <1>2. batch = << >> /\ ~In("resetChannel", pending) /\ ~In("startInLoop", pending)
    BY <1>1 DEF LoopShape, ResetQueued, StartQueued
  <1>3. CASE ~timer
    BY <1>1, <1>2, <1>3, EmptyQueue
       DEF HandleTimer, connector, client, QueuesTyped, LoopShape, ResetQueued, StartQueued, EventsFresh, RestartClean
  <1>4. CASE timer
    <2>1. PICK r \in Results : StartInLoop(r, FALSE)
      BY <1>4 DEF HandleTimer
    <2>2. pending' = Missed(pending)
      BY <1>4 DEF HandleTimer
    <2>3. /\ pending' \in Seq(Functors)
          /\ ~In("resetChannel", pending') /\ Once("resetChannel", pending')
          /\ ~In("startInLoop", pending') /\ First("startInLoop", pending')
      BY <1>2, <2>2, MissedFunctor DEF QueuesTyped, ResetQueued, StartQueued
    <2>4. /\ delay' \in kInitRetryDelayMs .. kMaxRetryDelayMs /\ gaveUp' \in BOOLEAN
          /\ connect' = connect /\ timer' \in BOOLEAN
          /\ \/ state' = "kConnecting" /\ channel' = "watch" /\ timer' = FALSE
             \/ state' = "kDisconnected" /\ channel' = channel
      BY <2>1, StartInLoopEffect
    <2>5. QED
      BY <1>1, <1>2, <2>3, <2>4, EmptyQueue
         DEF client, QueuesTyped, LoopShape, ResetQueued, StartQueued, EventsFresh, RestartClean
  <1>5. QED
    BY <1>3, <1>4

\* The end of an attempt, in handleError() or handleWrite(): the channel is
\* removed, and the functor that deletes it is the only one.
LEMMA AttemptEndsInv ==
  ASSUME Inv, phase = "events", "error" \in active \/ "write" \in active,
         active' \subseteq active \ {"error"}, state = "kConnecting",
         channel' = "removed", pending' = Append(pending, "resetChannel"),
         delay' \in kInitRetryDelayMs .. kMaxRetryDelayMs,
         timer' \in BOOLEAN, connection' \in BOOLEAN,
         \/ state' = "kDisconnected" /\ connection' = connection
         \/ state' = "kConnected" /\ timer' = timer /\ active' = {},
         UNCHANGED <<connect, gaveUp, retryEnabled, clientConnect, phase, batch, thread, stopped>>
  PROVE  Inv'
  <1> USE DEF Inv, OneAttempt, TypeOK
  <1>1. /\ channel = "watch" /\ ~timer /\ ~connection
        /\ "timer" \notin active /\ "close" \notin active
    BY DEF EventsFresh
  <1>2. batch = << >> /\ ~In("resetChannel", pending) /\ ~In("startInLoop", pending)
    BY <1>1 DEF LoopShape, ResetQueued, StartQueued
  <1>3. "resetChannel" \in Functors /\ "startInLoop" # "resetChannel"
    BY DEF Functors
  <1>4. /\ pending' \in Seq(Functors)
        /\ In("resetChannel", pending') /\ Once("resetChannel", pending')
        /\ ~In("startInLoop", pending') /\ First("startInLoop", pending')
    BY <1>2, <1>3, AppendFunctor DEF QueuesTyped, ResetQueued, StartQueued
  <1>5. OneAttempt' /\ QueuesTyped' /\ LoopShape' /\ ResetQueued' /\ StartQueued'
    BY <1>1, <1>2, <1>4, EmptyQueue DEF QueuesTyped, LoopShape, ResetQueued, StartQueued
  <1>6. EventsFresh' /\ RestartClean'
    BY <1>1 DEF EventsFresh, RestartClean
  <1>7. QED
    BY <1>5, <1>6

LEMMA HandleErrorInv == Inv /\ HandleError => Inv'
  <1> SUFFICES ASSUME Inv, HandleError PROVE Inv'
    OBVIOUS
  <1>1. /\ phase = "events" /\ "error" \in active /\ active' = active \ {"error"}
        /\ AttemptFails /\ UNCHANGED <<client, phase, batch, thread, stopped>>
    BY DEF HandleError, Handles
  <1>2. TypeOK /\ connection \in BOOLEAN
    BY DEF Inv, OneAttempt, TypeOK
  <1>3. QED
    BY <1>1, <1>2, AttemptFailsEffect, AttemptEndsInv DEF client

LEMMA HandleWriteInv == Inv /\ HandleWrite => Inv'
  <1> SUFFICES ASSUME Inv, HandleWrite PROVE Inv'
    OBVIOUS
  <1>1. /\ phase = "events" /\ "write" \in active /\ "error" \notin active
        /\ active' = active \ {"write"}
        /\ UNCHANGED <<retryEnabled, clientConnect, phase, batch, thread, stopped>>
    BY DEF HandleWrite, Handles
  <1>2. TypeOK /\ connection \in BOOLEAN /\ connect \in BOOLEAN
    BY DEF Inv, OneAttempt, TypeOK
  <1>3. active' = {}
    BY <1>1 DEF Inv, OneAttempt, TypeOK, EventsFresh
  <1>4. CASE state = "kDisconnected" /\ UNCHANGED <<connector, pending, connection>>
    BY <1>1, <1>3, <1>4
       DEF Inv, OneAttempt, TypeOK, connector, QueuesTyped, LoopShape, ResetQueued, StartQueued,
           EventsFresh, RestartClean
  <1>5. CASE AttemptFails /\ UNCHANGED connection
    BY <1>1, <1>2, <1>3, <1>5, AttemptFailsEffect, AttemptEndsInv
  <1>6. CASE AttemptSucceeds /\ connection' = (connection \/ connect)
    <2>1. /\ state = "kConnecting" /\ state' = "kConnected" /\ channel' = "removed"
          /\ pending' = Append(pending, "resetChannel")
          /\ UNCHANGED <<connect, delay, timer, gaveUp>>
      BY <1>6 DEF AttemptSucceeds, RemoveAndResetChannel
    <2>2. connection' \in BOOLEAN
      BY <1>6
    <2>3. delay' \in kInitRetryDelayMs .. kMaxRetryDelayMs /\ timer' \in BOOLEAN
      BY <1>2, <2>1 DEF TypeOK
    <2>4. QED
      BY <1>1, <1>3, <2>1, <2>2, <2>3, AttemptEndsInv
  <1>7. QED
    BY <1>4, <1>5, <1>6 DEF HandleWrite

\* removeConnection(): the connection was there at poll(), so the channel of
\* its attempt is gone.
LEMMA HandleCloseInv == Inv /\ HandleClose => Inv'
  <1> SUFFICES ASSUME Inv, HandleClose PROVE Inv'
    OBVIOUS
  <1> USE DEF Inv, OneAttempt, TypeOK
  <1>1. /\ phase = "events" /\ active = {"close"} /\ active' = {} /\ connection /\ channel = "none"
        /\ state = "kConnected" /\ ~timer /\ connection' = FALSE
        /\ pending' = Append(pending, "connectDestroyed") /\ phase' \in {"events", "restarting"}
        /\ UNCHANGED <<connector, retryEnabled, clientConnect, batch, thread, stopped>>
    BY DEF HandleClose, Handles, EventsFresh
  <1>2. batch = << >> /\ ~In("resetChannel", pending) /\ ~In("startInLoop", pending)
    BY <1>1 DEF LoopShape, ResetQueued, StartQueued
  <1>3. "connectDestroyed" \in Functors
    BY DEF Functors
  <1>4. /\ pending' \in Seq(Functors)
        /\ ~In("resetChannel", pending') /\ Once("resetChannel", pending')
        /\ ~In("startInLoop", pending') /\ First("startInLoop", pending')
    BY <1>1, <1>2, <1>3, AppendFunctor DEF QueuesTyped, ResetQueued, StartQueued
  <1>5. QED
    BY <1>1, <1>2, <1>4, EmptyQueue
       DEF connector, QueuesTyped, LoopShape, ResetQueued, StartQueued, EventsFresh, RestartClean

LEMMA RestartInv == Inv /\ (RestartSets \/ RestartStarts) => Inv'
  <1> SUFFICES ASSUME Inv, RestartSets \/ RestartStarts PROVE Inv'
    OBVIOUS
  <1> USE DEF Inv, OneAttempt, TypeOK
  <1>1. /\ phase \in {"restarting", "starting"} /\ active = {} /\ batch = << >>
        /\ ~timer /\ ~connection /\ channel = "none"
        /\ UNCHANGED <<pending, client, active, batch, thread, stopped>>
    BY DEF RestartSets, RestartStarts, LoopShape, RestartClean
  <1>2. ~In("resetChannel", pending) /\ ~In("startInLoop", pending)
    BY <1>1 DEF ResetQueued, StartQueued
  <1>3. CASE RestartSets
    <2>1. /\ phase' = "starting" /\ state' = "kDisconnected" /\ connect' = TRUE
          /\ delay' = kInitRetryDelayMs /\ UNCHANGED <<channel, timer, gaveUp>>
      BY <1>3 DEF RestartSets, Restart
    <2>2. delay' \in kInitRetryDelayMs .. kMaxRetryDelayMs
      BY <2>1, ConnectorAssumption
    <2>3. QED
      BY <1>1, <1>2, <2>1, <2>2, EmptyQueue
         DEF client, QueuesTyped, LoopShape, ResetQueued, StartQueued, EventsFresh, RestartClean
  <1>4. CASE RestartStarts
    <2>1. PICK r \in Results : StartInLoop(r, timer)
      BY <1>4 DEF RestartStarts
    <2>2. /\ delay' \in kInitRetryDelayMs .. kMaxRetryDelayMs /\ gaveUp' \in BOOLEAN
          /\ connect' = connect /\ timer' \in BOOLEAN
          /\ \/ state' = "kConnecting" /\ channel' = "watch" /\ timer' = timer
             \/ state' = "kDisconnected" /\ channel' = channel
      BY <2>1, StartInLoopEffect
    <2>3. phase' = "events"
      BY <1>4 DEF RestartStarts
    <2>4. QED
      BY <1>1, <1>2, <2>2, <2>3, EmptyQueue
         DEF client, QueuesTyped, LoopShape, ResetQueued, StartQueued, EventsFresh, RestartClean
  <1>5. QED
    BY <1>3, <1>4

\* doPendingFunctors(): the swap, the functors and the end of the batch.
LEMMA BeginFunctorsInv == Inv /\ BeginFunctors => Inv'
  <1> SUFFICES ASSUME Inv, BeginFunctors PROVE Inv'
    OBVIOUS
  <1> USE DEF Inv, OneAttempt, TypeOK
  <1>1. /\ phase = "events" /\ active = {} /\ phase' = "functors" /\ batch' = pending /\ pending' = << >>
        /\ UNCHANGED <<connector, client, active, thread, stopped>>
    BY DEF BeginFunctors
  <1>2. batch = << >> /\ << >> \in Seq(Functors)
    BY <1>1 DEF LoopShape
  <1>3. QED
    BY <1>1, <1>2, EmptyQueue
       DEF connector, client, QueuesTyped, LoopShape, ResetQueued, StartQueued, EventsFresh, RestartClean

LEMMA RunFunctorInv == Inv /\ RunFunctor => Inv'
  <1> SUFFICES ASSUME Inv, RunFunctor PROVE Inv'
    OBVIOUS
  <1> USE DEF Inv, OneAttempt, TypeOK
  <1> DEFINE f == Head(batch)
  <1>1. /\ phase = "functors" /\ batch # << >> /\ batch' = Tail(batch) /\ active = {}
        /\ UNCHANGED <<pending, client, active, phase, thread, stopped>>
    BY DEF RunFunctor, LoopShape
  <1>2. /\ batch' \in Seq(Functors) /\ In(f, batch)
        /\ \A g : In(g, batch') => In(g, batch)
        /\ \A g : g # f /\ In(g, batch) => In(g, batch')
        /\ \A g : Once(g, batch) => Once(g, batch')
        /\ Once(f, batch) => ~In(f, batch')
        /\ \A g : First(g, batch) => First(g, batch') /\ ~In(g, batch')
    BY <1>1, TailFunctor DEF QueuesTyped
  <1>3. ~In("resetChannel", pending) /\ ~In("startInLoop", pending) /\ ~In("startInLoop", batch')
    BY <1>1, <1>2 DEF LoopShape, StartQueued
  <1>4. /\ First("startInLoop", batch') /\ Once("resetChannel", batch')
        /\ f # "resetChannel" => (In("resetChannel", batch') <=> In("resetChannel", batch))
        /\ f = "resetChannel" => ~In("resetChannel", batch')
    BY <1>2 DEF StartQueued, ResetQueued
  <1> HIDE DEF f
  <1>5. CASE f = "startInLoop" /\ \E r \in Results : StartInLoop(r, timer)
    <2>1. PICK r \in Results : StartInLoop(r, timer)
      BY <1>5
    <2>2. /\ delay' \in kInitRetryDelayMs .. kMaxRetryDelayMs /\ gaveUp' \in BOOLEAN
          /\ connect' = connect /\ timer' \in BOOLEAN
          /\ \/ state' = "kConnecting" /\ channel' = "watch" /\ timer' = timer
             \/ state' = "kDisconnected" /\ channel' = channel
      BY <2>1, StartInLoopEffect
    <2>3. channel = "none" /\ ~timer /\ ~connection
      BY <1>2, <1>5 DEF StartQueued
    <2>4. QED
      BY <1>1, <1>2, <1>3, <1>4, <1>5, <2>2, <2>3
         DEF client, QueuesTyped, LoopShape, ResetQueued, StartQueued, EventsFresh, RestartClean
  <1>6. CASE f = "resetChannel" /\ RunReset
    <2>1. channel = "removed" /\ channel' = "none" /\ UNCHANGED <<connect, state, delay, timer, gaveUp>>
      BY <1>2, <1>6 DEF RunReset, ResetChannel, ResetQueued
    <2>2. QED
      BY <1>1, <1>2, <1>3, <1>4, <1>6, <2>1
         DEF client, QueuesTyped, LoopShape, ResetQueued, StartQueued, EventsFresh, RestartClean
  <1>7. CASE /\ f \in {"cancelTimer", "cancelNothing", "connectDestroyed"}
             /\ timer' \in BOOLEAN /\ (timer' => timer)
             /\ UNCHANGED <<connect, state, channel, delay, gaveUp>>
    BY <1>1, <1>2, <1>3, <1>4, <1>7
       DEF client, QueuesTyped, LoopShape, ResetQueued, StartQueued, EventsFresh, RestartClean
  <1>8. \/ f = "startInLoop" /\ \E r \in Results : StartInLoop(r, timer)
        \/ f = "resetChannel" /\ RunReset
        \/ /\ f = "cancelTimer" /\ timer' = FALSE
           /\ UNCHANGED <<connect, state, channel, delay, gaveUp>>
        \/ /\ f \in {"cancelNothing", "connectDestroyed"} /\ timer' = timer
           /\ UNCHANGED <<connect, state, channel, delay, gaveUp>>
    BY DEF RunFunctor, connector, f
  <1>9. timer \in BOOLEAN
    OBVIOUS
  <1> HIDE DEF Inv, OneAttempt, TypeOK
  <1>10. QED
    BY <1>5, <1>6, <1>7, <1>8, <1>9

LEMMA EndFunctorsInv == Inv /\ EndFunctors => Inv'
  BY DEF EndFunctors, connector, client, Inv, OneAttempt, TypeOK, QueuesTyped, LoopShape, ResetQueued,
         StartQueued, EventsFresh, RestartClean

\* stop() and disconnect(), in the loop's thread or another.
LEMMA UserInv == Inv /\ (StopInLoop \/ StopInThread \/ Disconnect) => Inv'
  <1> SUFFICES ASSUME Inv, StopInLoop \/ StopInThread \/ Disconnect PROVE Inv'
    OBVIOUS
  <1> USE DEF Inv, OneAttempt, TypeOK
  <1>1. CASE StopInLoop
    <2>1. /\ UNCHANGED <<pending, retryEnabled, connection, loop, thread, state, channel, delay, gaveUp>>
          /\ clientConnect' = FALSE /\ connect' = FALSE /\ timer' = FALSE /\ stopped' = "loop"
      BY <1>1 DEF StopInLoop, Stop
    <2>2. OneAttempt' /\ QueuesTyped' /\ LoopShape' /\ EventsFresh' /\ RestartClean'
      BY <2>1 DEF loop, QueuesTyped, LoopShape, EventsFresh, RestartClean
    <2>3. ResetQueued' /\ StartQueued'
      BY <2>1 DEF loop, ResetQueued, StartQueued
    <2>4. QED
      BY <2>2, <2>3
  <1>2. CASE Disconnect
    <2>1. /\ UNCHANGED <<connector, pending, retryEnabled, connection, loop, thread, stopped>>
          /\ clientConnect' = FALSE
      BY <1>2 DEF Disconnect
    <2>2. TypeOK'
      BY <2>1 DEF connector, loop
    <2>3. OneAttempt' /\ QueuesTyped' /\ LoopShape' /\ EventsFresh' /\ RestartClean'
      BY <2>1, <2>2 DEF connector, loop, QueuesTyped, LoopShape, EventsFresh, RestartClean
    <2>4. ResetQueued' /\ StartQueued'
      BY <2>1 DEF connector, loop, ResetQueued, StartQueued
    <2>5. QED
      BY <2>3, <2>4
  <1>3. CASE StopInThread
    <2>1. /\ UNCHANGED <<state, channel, delay, timer, gaveUp, retryEnabled, connection, loop>>
          /\ connect' \in BOOLEAN /\ clientConnect' \in BOOLEAN
          /\ thread' \in {"out", "client", "connector", "done"} /\ stopped' \in {"no", "loop", "thread"}
      BY <1>3 DEF StopInThread, ThreadStops
    <2>2. pending' = pending \/ \E f \in {"cancelNothing", "cancelTimer"} : pending' = Append(pending, f)
      BY <1>3 DEF StopInThread, ThreadStops
    <2>3. /\ pending' \in Seq(Functors)
          /\ In("resetChannel", pending') <=> In("resetChannel", pending)
          /\ In("startInLoop", pending') <=> In("startInLoop", pending)
          /\ Once("resetChannel", pending') /\ First("startInLoop", pending')
      <3>1. CASE pending' = pending
        BY <3>1 DEF QueuesTyped, ResetQueued, StartQueued
      <3>2. ASSUME NEW f \in {"cancelNothing", "cancelTimer"}, pending' = Append(pending, f)
            PROVE  /\ pending' \in Seq(Functors)
                   /\ In("resetChannel", pending') <=> In("resetChannel", pending)
                   /\ In("startInLoop", pending') <=> In("startInLoop", pending)
                   /\ Once("resetChannel", pending') /\ First("startInLoop", pending')
        <4>1. f \in Functors /\ f # "resetChannel" /\ f # "startInLoop"
          BY DEF Functors
        <4>2. QED
          BY <3>2, <4>1, AppendFunctor DEF QueuesTyped, ResetQueued, StartQueued
      <3>3. QED
        BY <2>2, <3>1, <3>2
    <2>4. QED
      BY <2>1, <2>3
         DEF loop, QueuesTyped, LoopShape, ResetQueued, StartQueued, EventsFresh, RestartClean
  <1>4. QED
    BY <1>1, <1>2, <1>3

LEMMA StepInv == Inv /\ [Next]_vars => Inv'
  <1> SUFFICES ASSUME Inv, [Next]_vars PROVE Inv'
    OBVIOUS
  <1>1. CASE UNCHANGED vars
    BY <1>1 DEF vars, connector, client, loop, Inv, OneAttempt, TypeOK, QueuesTyped, LoopShape, ResetQueued,
                StartQueued, EventsFresh, RestartClean
  <1>2. QED
    BY <1>1, PollInv, HandleTimerInv, HandleErrorInv, HandleWriteInv, HandleCloseInv, RestartInv,
       BeginFunctorsInv, RunFunctorInv, EndFunctorsInv, UserInv
       DEF Next, LoopStep

LEMMA ClientInv == Spec => []Inv
  <1>1. QED
    BY InitInv, StepInv, PTL DEF Spec

\* A client has a timer, an attempt or a connection, never two of them, and
\* its delay has its limits, for every initial and largest delay
\* (Connector.cc:68-219, TcpClient.cc:119-175).
THEOREM ClientOneAttempt == Spec => []OneAttempt
  <1>1. Inv => OneAttempt
    BY DEF Inv
  <1>2. QED
    BY <1>1, ClientInv, PTL

\* The assertions of Connector.cc and TcpClient.cc hold whenever the loop gets
\* to them, although the old channel is deleted by a functor that retry() and
\* restart() do not wait for.
THEOREM ClientAssertionsHold == Spec => []AssertionsHold
  <1>1. Inv => AssertionsHold
    <2> SUFFICES ASSUME Inv PROVE AssertionsHold
      OBVIOUS
    <2>1. batch # << >> => In(Head(batch), batch)
      BY TailFunctor DEF Inv, QueuesTyped
    <2>2. batch # << >> /\ Head(batch) = "startInLoop" => state = "kDisconnected"
      BY <2>1 DEF Inv, StartQueued
    <2>3. QED
      BY <2>2 DEF Inv, OneAttempt, EventsFresh, RestartClean, AssertionsHold
  <1>2. QED
    BY <1>1, ClientInv, PTL

-----------------------------------------------------------------------------
(* stop() in the loop's thread.                                            *)

\* After it both flags stay cleared: only restart() sets one again, and the
\* loop is not on its way there.
StopLasts ==
    stopped = "loop" =>
        ~connect /\ ~clientConnect /\ phase \notin {"restarting", "starting"}

\* The flags stay cleared, and nothing begins, in any step.
LEMMA StepStops ==
  ASSUME Inv, StopLasts, [Next]_vars
  PROVE  StopLasts' /\ (stopped = "loop" => ~Begins)
  <1>1. TypeOK /\ timer \in BOOLEAN
    BY DEF Inv, OneAttempt, TypeOK
  <1> DEFINE Quiet ==
               /\ UNCHANGED connect
               /\ state' = state \/ state' # "kConnecting" \/ connect
               /\ connection' => connection \/ connect
               /\ UNCHANGED <<clientConnect, stopped>>
               /\ phase' \notin {"restarting", "starting"} \/ (phase' = "restarting" /\ clientConnect)
  <1>2. ASSUME Quiet
        PROVE  StopLasts' /\ (stopped = "loop" => ~Begins)
    BY <1>2 DEF StopLasts, Begins
  <1> HIDE DEF Quiet
  <1>3. ASSUME NEW r, NEW left \in BOOLEAN, StartInLoop(r, left)
        PROVE  connect' = connect /\ (state' # "kConnecting" \/ connect)
    BY <1>1, <1>3, StartInLoopEffect
  <1>4. CASE Poll
    BY <1>2, <1>4 DEF Poll, Quiet, connector, client
  <1>5. CASE HandleTimer
    <2>1. CASE timer
      <3>1. PICK r \in Results : StartInLoop(r, FALSE)
        BY <1>5, <2>1 DEF HandleTimer
      <3>2. connect' = connect /\ (state' # "kConnecting" \/ connect)
        BY <1>3, <3>1
      <3>3. QED
        BY <1>2, <1>5, <3>2 DEF HandleTimer, Handles, Quiet, client
    <2>2. CASE ~timer
      BY <1>2, <1>5, <2>2 DEF HandleTimer, Handles, Quiet, client, connector
    <2>3. QED
      BY <2>1, <2>2
  <1>6. CASE HandleError
    <2>1. connect' = connect /\ state' = "kDisconnected"
      BY <1>1, <1>6, AttemptFailsEffect DEF HandleError
    <2>2. QED
      BY <1>2, <1>6, <2>1 DEF HandleError, Handles, Quiet, client
  <1>7. CASE HandleWrite
    <2>1. /\ connect' = connect /\ (state' = state \/ state' # "kConnecting")
          /\ connection' = connection \/ connection' = (connection \/ connect)
      BY <1>7 DEF HandleWrite, AttemptFails, AttemptSucceeds, Retry, connector
    <2>2. phase' = "events" /\ UNCHANGED <<clientConnect, stopped>>
      BY <1>7 DEF HandleWrite, Handles
    <2>3. connection' => connection \/ connect
      BY <2>1, Zenon
    <2>4. QED
      BY <1>2, <2>1, <2>2, <2>3 DEF Quiet
  <1>8. CASE HandleClose
    BY <1>2, <1>8 DEF HandleClose, Handles, Quiet, connector
  <1>9. CASE RestartSets \/ RestartStarts
    <2>1. stopped # "loop" /\ stopped' = stopped
      BY <1>9 DEF RestartSets, RestartStarts, StopLasts
    <2>2. QED
      BY <2>1 DEF StopLasts
  <1>10. CASE BeginFunctors \/ EndFunctors
    BY <1>2, <1>10 DEF BeginFunctors, EndFunctors, Quiet, connector, client
  <1>11. CASE RunFunctor
    <2>1. connect' = connect /\ (state' = state \/ state' # "kConnecting" \/ connect)
      BY <1>1, <1>3, <1>11 DEF RunFunctor, RunReset, ResetChannel, connector
    <2>2. phase' = "functors" /\ UNCHANGED <<client, stopped>>
      BY <1>11 DEF RunFunctor
    <2>3. QED
      BY <1>2, <2>1, <2>2 DEF Quiet, client
  <1>12. CASE StopInLoop
    BY <1>12 DEF StopInLoop, Stop, loop, StopLasts, Begins
  <1>13. CASE StopInThread
    BY <1>13 DEF StopInThread, ThreadStops, loop, StopLasts, Begins
  <1>14. CASE Disconnect
    BY <1>14 DEF Disconnect, connector, loop, StopLasts, Begins
  <1>15. CASE UNCHANGED vars
    BY <1>15 DEF vars, connector, client, loop, StopLasts, Begins
  <1>16. QED
    BY <1>4, <1>5, <1>6, <1>7, <1>8, <1>9, <1>10, <1>11, <1>12, <1>13, <1>14, <1>15
       DEF Next, LoopStep

\* After stop() in the loop's thread no step begins an attempt or a connection,
\* whatever timers, events and functors are on their way (TcpClient.cc:112-116).
THEOREM ClientStopIsFinal == Spec => StopInLoopIsFinal
  <1>1. Init => StopLasts
    BY DEF Init, StopLasts
  <1>2. Inv /\ StopLasts /\ [Next]_vars => StopLasts' /\ [stopped = "loop" => ~Begins]_vars
    BY StepStops
  <1>3. QED
    BY <1>1, <1>2, ClientInv, PTL DEF Spec, StopInLoopIsFinal

=============================================================================
