------------------------------ MODULE Connector ------------------------------
(***************************************************************************)
(* muduo::Connector (reactor/s13/Connector.{h,cc}): one connection attempt *)
(* after another, each with a socket of its own, until one succeeds or the *)
(* connector is stopped.  The operators are what its member functions do   *)
(* in the loop's thread; module TcpClient runs them in a loop.             *)
(***************************************************************************)
EXTENDS Integers, Sequences, Functions

CONSTANTS
    kInitRetryDelayMs,
    kMaxRetryDelayMs

ASSUME ConnectorAssumption ==
    /\ kInitRetryDelayMs \in Nat \ {0} /\ kMaxRetryDelayMs \in Nat
    /\ kInitRetryDelayMs <= kMaxRetryDelayMs

VARIABLES
    connect,        \* connect_
    state,          \* state_
    channel,        \* channel_: none, watch (registered) or removed (to be reset)
    delay,          \* retryDelayMs_
    timer,          \* a timer of retry() is in the TimerQueue
    gaveUp,         \* connect() failed with an error that is not retried
    pending         \* the functors queued in the loop

connector == <<connect, state, channel, delay, timer, gaveUp>>

ConnectorInit ==
    /\ state = "kDisconnected" /\ channel = "none"
    /\ delay = kInitRetryDelayMs /\ timer = FALSE /\ gaveUp = FALSE

\* std::min(retryDelayMs_ * 2, kMaxRetryDelayMs)
Doubled == IF delay * 2 < kMaxRetryDelayMs THEN delay * 2 ELSE kMaxRetryDelayMs

\* Mutant of Retry: the state is left as it was.
RetryKeepsState(left) ==
    /\ timer' = (connect \/ left)
    /\ delay' = IF connect THEN Doubled ELSE delay
    /\ UNCHANGED state

\* Mutant of Retry: no timer is started.
RetryNever(left) ==
    /\ state' = "kDisconnected"
    /\ timer' = left
    /\ UNCHANGED delay

\* retry(), with the socket closed; left says whether an older timer is left.
Retry(left) ==
    /\ state' = "kDisconnected"
    /\ timer' = (connect \/ left)
    /\ delay' = IF connect THEN Doubled ELSE delay

\* connect() and what it finds: connecting() if the connection is under way,
\* retry() of a transient error, nothing more after any other error.
Connect(result, left) ==
    \/ /\ result = "inprogress"
       /\ channel = "none"
       /\ state' = "kConnecting" /\ channel' = "watch" /\ timer' = left
       /\ UNCHANGED <<delay, gaveUp>>
    \/ /\ result = "refused"
       /\ Retry(left)
       /\ UNCHANGED <<channel, gaveUp>>
    \/ /\ result = "failed"
       /\ gaveUp' = TRUE /\ timer' = left
       /\ UNCHANGED <<state, channel, delay>>

Results == {"inprogress", "refused", "failed"}

\* startInLoop(), called by a functor, by restart() or by the timer of retry().
StartInLoop(result, left) ==
    /\ state = "kDisconnected"
    /\ IF connect THEN Connect(result, left)
       ELSE timer' = left /\ UNCHANGED <<state, channel, delay, gaveUp>>
    /\ UNCHANGED connect

\* restart(), up to its call of startInLoop().
Restart ==
    /\ state' = "kDisconnected" /\ delay' = kInitRetryDelayMs /\ connect' = TRUE
    /\ UNCHANGED <<channel, timer, gaveUp>>

\* removeAndResetChannel(): the channel is deleted after its handler.
RemoveAndResetChannel ==
    /\ channel' = "removed"
    /\ pending' = Append(pending, "resetChannel")

ResetChannel == channel' = "none" /\ UNCHANGED <<connect, state, delay, timer, gaveUp>>

\* handleWrite() with SO_ERROR set or a self connection, and handleError().
AttemptFails ==
    /\ state = "kConnecting"
    /\ RemoveAndResetChannel
    /\ Retry(timer)
    /\ UNCHANGED <<connect, gaveUp>>

\* handleWrite() with a connection; the caller passes the socket on if connect_.
AttemptSucceeds ==
    /\ state = "kConnecting"
    /\ RemoveAndResetChannel
    /\ state' = "kConnected"
    /\ UNCHANGED <<connect, delay, timer, gaveUp>>

\* stop() in the loop's thread.
Stop ==
    /\ connect' = FALSE /\ timer' = FALSE
    /\ UNCHANGED <<state, channel, delay, gaveUp>>
=============================================================================
