------------------------------ MODULE TcpClient ------------------------------
(***************************************************************************)
(* muduo::TcpClient (reactor/s13/TcpClient.{h,cc}) with its Connector in a *)
(* loop, after connect() was called.  The loop polls, handles the events   *)
(* found and runs the functors queued; the user calls stop() and           *)
(* disconnect() in callbacks or in another thread.  connect() is not       *)
(* called a second time ("FIXME: check state", TcpClient.cc).              *)
(*                                                                         *)
(* An action is enabled only when the assertions of the code it models     *)
(* hold; AssertionsHold says that they always do.                          *)
(***************************************************************************)
EXTENDS Connector

VARIABLES
    retryEnabled,   \* retry_
    clientConnect,  \* TcpClient::connect_
    connection,     \* connection_ is set
    active,         \* events found by poll() and not handled yet
    phase,          \* poll, events, restarting, starting (in removeConnection()) or functors
    batch,          \* the functors being run
    thread,         \* where the other thread is in stop()
    stopped         \* no, loop or thread: who has called stop(), once it has returned

client == <<retryEnabled, clientConnect, connection>>
loop == <<active, phase, batch>>
vars == <<connector, pending, client, loop, thread, stopped>>

Init ==
    /\ ConnectorInit
    /\ connect = TRUE /\ pending = <<"startInLoop">>
    /\ retryEnabled \in BOOLEAN /\ clientConnect = TRUE /\ connection = FALSE
    /\ active = {} /\ phase = "poll" /\ batch = << >>
    /\ thread = "out" /\ stopped = "no"

-----------------------------------------------------------------------------
(* The loop.                                                               *)

Ready ==
    (IF timer THEN {"timer"} ELSE {})
      \cup (IF channel = "watch" THEN {"error", "write"} ELSE {})
      \cup (IF connection THEN {"close"} ELSE {})

Poll ==
    /\ phase = "poll"
    /\ \E found \in SUBSET Ready :
         (found # {} \/ pending # << >>) /\ active' = found
    /\ phase' = "events"
    /\ UNCHANGED <<connector, pending, client, batch, thread, stopped>>

Handles(e) == phase = "events" /\ e \in active /\ active' = active \ {e}

\* A TimerId whose timer has run does not name a later timer.
Missed(q) == [i \in DOMAIN q |-> IF q[i] = "cancelTimer" THEN "cancelNothing" ELSE q[i]]

\* The timer of retry(); it may have been cancelled since poll() returned.
HandleTimer ==
    /\ Handles("timer")
    /\ IF timer
         THEN /\ \E r \in Results : StartInLoop(r, FALSE)
              /\ pending' = Missed(pending)
         ELSE UNCHANGED <<connector, pending>>
    /\ UNCHANGED <<client, phase, batch, thread, stopped>>

\* handleError(); the events of a channel are handled in this order.
HandleError ==
    /\ Handles("error")
    /\ AttemptFails
    /\ UNCHANGED <<client, phase, batch, thread, stopped>>

\* handleWrite(), and newConnection() if connect_ is still set.
HandleWrite ==
    /\ Handles("write") /\ "error" \notin active
    /\ \/ state = "kDisconnected" /\ UNCHANGED <<connector, pending, connection>>
       \/ AttemptFails /\ UNCHANGED connection
       \/ AttemptSucceeds /\ connection' = (connection \/ connect)
    /\ UNCHANGED <<retryEnabled, clientConnect, phase, batch, thread, stopped>>

\* removeConnection(), up to restart().
HandleClose ==
    /\ Handles("close")
    /\ connection
    /\ connection' = FALSE
    /\ pending' = Append(pending, "connectDestroyed")
    /\ phase' = IF retryEnabled /\ clientConnect THEN "restarting" ELSE "events"
    /\ UNCHANGED <<connector, retryEnabled, clientConnect, batch, thread, stopped>>

\* restart(), whose store to connect_ other threads can come before and after.
RestartSets ==
    /\ phase = "restarting"
    /\ Restart
    /\ phase' = "starting"
    /\ UNCHANGED <<pending, client, active, batch, thread, stopped>>

RestartStarts ==
    /\ phase = "starting"
    /\ \E r \in Results : StartInLoop(r, timer)
    /\ phase' = "events"
    /\ UNCHANGED <<pending, client, active, batch, thread, stopped>>

BeginFunctors ==
    /\ phase = "events" /\ active = {}
    /\ phase' = "functors" /\ batch' = pending /\ pending' = << >>
    /\ UNCHANGED <<connector, client, active, thread, stopped>>

\* Mutant of RunReset: the functor is lost.
RunResetNothing == UNCHANGED connector

RunReset == ResetChannel

RunFunctor ==
    /\ phase = "functors" /\ batch # << >>
    /\ batch' = Tail(batch)
    /\ LET f == Head(batch)
       IN  \/ f = "startInLoop" /\ \E r \in Results : StartInLoop(r, timer)
           \/ f = "resetChannel" /\ RunReset
           \/ f = "cancelTimer" /\ timer' = FALSE
              /\ UNCHANGED <<connect, state, channel, delay, gaveUp>>
           \/ f \in {"cancelNothing", "connectDestroyed"} /\ UNCHANGED connector
    /\ UNCHANGED <<pending, client, active, phase, thread, stopped>>

EndFunctors ==
    /\ phase = "functors" /\ batch = << >>
    /\ phase' = "poll"
    /\ UNCHANGED <<connector, pending, client, active, batch, thread, stopped>>

-----------------------------------------------------------------------------
(* The user.                                                               *)

\* Mutant of StopInLoop: the client's own flag is not cleared.
StopInLoopConnector ==
    /\ phase \in {"events", "functors"}
    /\ Stop
    /\ stopped' = "loop"
    /\ UNCHANGED <<pending, client, loop, thread>>

\* TcpClient::stop() in a callback.
StopInLoop ==
    /\ phase \in {"events", "functors"}
    /\ clientConnect' = FALSE
    /\ Stop
    /\ stopped' = "loop"
    /\ UNCHANGED <<pending, retryEnabled, connection, loop, thread>>

\* TcpClient::stop() in another thread: connect_ of the client, connect_ of
\* the connector, and cancel() of a timerId_ that it reads without a lock.
ThreadStops ==
    \/ /\ thread = "out" /\ thread' = "client"
       /\ clientConnect' = FALSE
       /\ UNCHANGED <<connect, pending, stopped>>
    \/ /\ thread = "client" /\ thread' = "connector"
       /\ connect' = FALSE
       /\ UNCHANGED <<clientConnect, pending, stopped>>
    \/ /\ thread = "connector" /\ thread' = "done"
       /\ \E f \in {"cancelNothing"} \cup (IF timer THEN {"cancelTimer"} ELSE {}) :
            pending' = Append(pending, f)
       /\ stopped' = IF stopped = "no" THEN "thread" ELSE stopped
       /\ UNCHANGED <<connect, clientConnect>>

StopInThread ==
    /\ ThreadStops
    /\ UNCHANGED <<state, channel, delay, timer, gaveUp, retryEnabled, connection, loop>>

\* TcpClient::disconnect(), in any thread; shutdown() makes the peer close.
Disconnect ==
    /\ clientConnect' = FALSE
    /\ UNCHANGED <<connector, pending, retryEnabled, connection, loop, thread, stopped>>

-----------------------------------------------------------------------------
LoopStep ==
    \/ HandleTimer \/ HandleError \/ HandleWrite \/ HandleClose
    \/ RestartSets \/ RestartStarts \/ BeginFunctors \/ RunFunctor \/ EndFunctors

Next == Poll \/ LoopStep \/ StopInLoop \/ StopInThread \/ Disconnect

\* The loop goes on, poll() finds what is ready, and of the attempts that
\* are made again and again one gets through.
Fairness ==
    /\ WF_vars(LoopStep)
    /\ WF_vars(Poll /\ active' = Ready)
    /\ SF_vars(HandleTimer /\ state' = "kConnecting")
    /\ SF_vars(Poll /\ active' = {"write"})
    /\ SF_vars(HandleWrite /\ state' = "kConnected")

Spec == Init /\ [][Next]_vars /\ Fairness

-----------------------------------------------------------------------------
(* Properties.                                                             *)

\* The state has its types, and the delay its limits (Connector.cc:208).
TypeOK ==
    /\ connect \in BOOLEAN /\ timer \in BOOLEAN /\ gaveUp \in BOOLEAN
    /\ state \in {"kDisconnected", "kConnecting", "kConnected"}
    /\ channel \in {"none", "watch", "removed"}
    /\ delay \in kInitRetryDelayMs .. kMaxRetryDelayMs
    /\ retryEnabled \in BOOLEAN /\ clientConnect \in BOOLEAN /\ connection \in BOOLEAN
    /\ active \subseteq {"timer", "error", "write", "close"}
    /\ phase \in {"poll", "events", "restarting", "starting", "functors"}
    /\ thread \in {"out", "client", "connector", "done"}
    /\ stopped \in {"no", "loop", "thread"}

\* The assertions of Connector.cc:50, 120, 182 and 189 and of TcpClient.cc:155
\* hold whenever the loop gets to them: startInLoop() finds kDisconnected and
\* connecting() no channel, although the old channel is only deleted in a
\* functor that retry() and restart() do not wait for.
AssertionsHold ==
    /\ (timer \/ phase = "starting" \/ (batch # << >> /\ Head(batch) = "startInLoop")) =>
         state = "kDisconnected"
    /\ (timer /\ "timer" \in active) \/ phase \in {"restarting", "starting"} => channel = "none"
    /\ phase = "events" /\ "error" \in active => state = "kConnecting"
    /\ phase = "events" /\ "write" \in active => state # "kConnected"
    /\ "close" \in active => connection

\* A client has one thing at a time: a timer, an attempt or a connection.
\* (And the state has its types, the delay its limits.)
OneAttempt ==
    /\ TypeOK
    /\ timer => state = "kDisconnected" /\ ~connection
    /\ connection => state = "kConnected"
    /\ channel = "watch" <=> state = "kConnecting"

\* An attempt or a connection begins.
Begins == (state # "kConnecting" /\ state' = "kConnecting") \/ (~connection /\ connection')

\* After stop() in the loop's thread the client neither tries nor connects
\* again, whatever timers and events are on their way (TcpClient.cc:112-116).
StopInLoopIsFinal == [][stopped = "loop" => ~Begins]_vars

\* "can be called in any thread" (Connector.h:38, of stop()): after stop() has
\* returned the client neither tries nor connects again.
StopIsFinal == [][stopped # "no" => ~Begins]_vars

\* As long as nobody stops it, a client keeps trying until it is connected,
\* unless connect() fails for good (Connector.cc:83-98 give up silently).
RetryConnects ==
    (timer \/ state = "kConnecting") ~> (connection \/ gaveUp \/ ~connect \/ thread # "out")
=============================================================================
