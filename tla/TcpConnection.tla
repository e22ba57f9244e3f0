---------------------------- MODULE TcpConnection ----------------------------
(***************************************************************************)
(* muduo::TcpConnection (reactor/s13/TcpConnection.{h,cc}) from its        *)
(* creation by TcpServer::newConnection() to its removal by                *)
(* TcpServer::removeConnectionInLoop() (TcpServer.cc), with its Channel    *)
(* and the EPoller's record of it (Channel.cc, EPoller.cc).                *)
(*                                                                         *)
(* The connection belongs to an I/O loop; the server's map of connections  *)
(* belongs to the base loop, which is another thread unless sameLoop.  The *)
(* user's code runs in the callbacks and, holding a TcpConnectionPtr, in   *)
(* other threads.  The socket and the peer are external.                   *)
(*                                                                         *)
(* An assertion of the code that fails, or a call on a connection that was *)
(* deleted, ends the behaviour; fault says which it was.                   *)
(***************************************************************************)
EXTENDS Integers, Sequences, Functions

CONSTANTS
    Threads,        \* the user's threads
    MaxSends,       \* bound: calls of send() in a behaviour of one thread
    MaxSharedSends, \* bound: calls of send() in a behaviour of several threads
    MaxData         \* bound: times the peer sends something

ASSUME TcpConnectionAssumption ==
    /\ MaxSends \in Nat /\ MaxSharedSends \in 0 .. MaxSends
    /\ MaxData \in Nat

VARIABLES
    state,          \* state_, and kNone before the constructor
    events,         \* channel_->events_
    index,          \* channel_->index_
    outputBuffer,   \* outputBuffer_, a sequence of pieces of messages
    inMap,          \* the connection is in TcpServer::connections_
    phase,          \* the I/O loop is in poll, dispatching events, or running functors
    revents,        \* channel_->revents_ not handled yet
    callback,       \* the I/O loop is in a callback of the user
    pending,        \* pendingFunctors_ of the I/O loop
    batch,          \* the functors being run; they are destroyed at the end of the batch
    next,           \* index in batch of the next functor
    basePending,    \* functors of the base loop: calls of removeConnectionInLoop()
    sameLoop,       \* the I/O loop is the base loop, in a program of one thread
    writeCompleteCallback,  \* writeCompleteCallback_ is set
    hold,           \* the threads that hold a TcpConnectionPtr
    tpc,            \* where each thread is in send() or shutdown()
    peer,           \* open, eof (it closed the connection), reset, or down: it was
                    \* reset and the socket's error has been fetched
    data,           \* something to read has arrived
    fin,            \* shutdownWrite() was called
    wire,           \* history: what write() accepted
    sent,           \* history: what sendInLoop() was asked to send
    sends,          \* history: calls of send()
    arrived,        \* history: times the peer sent something
    destroyed,      \* history: connectDestroyed() has run
    late,           \* history: sendInLoop() enabled a channel that was disabled
    abandoned,      \* history: the last thread let go while a call of it was queued
    fault           \* the assertion that failed, or none

conn == <<state, events, index, outputBuffer, inMap>>
loop == <<phase, revents, callback, batch, next>>
queues == <<pending, basePending>>
program == <<sameLoop, writeCompleteCallback>>
threads == <<program, hold, tpc>>
socket == <<peer, data, fin, wire, arrived>>
ghosts == <<sent, sends, destroyed, late, abandoned>>

vars == <<conn, loop, queues, threads, socket, ghosts, fault>>

\* Mutant of Connected: the assertions forget kDisconnecting.
ConnectedOnly == {"kConnected"}

\* The states that handleClose() and connectDestroyed() assert.
Connected == {"kConnected", "kDisconnecting"}

Writing == "write" \in events

\* A message has two pieces, so that write() can accept a part of it.
Message(k) == <<k, k>>
NextMessage == Message(Len(sent) \div 2 + 1)
MaySend == sends < IF sameLoop THEN MaxSends ELSE MaxSharedSends

\* Functors that hold a TcpConnectionPtr, and those that are bound to this.
Strong == {"connectEstablished", "connectDestroyed", "writeComplete"}
Weak == {"sendInLoop", "shutdownInLoop"}

\* The functors that have yet to run.
Waiting == Range(pending) \cup Range(SubSeq(batch, next, Len(batch)))

\* The TcpConnection has not been deleted.
Alive ==
    \/ inMap
    \/ callback
    \/ hold # {}
    \/ basePending # << >>
    \/ \E op \in Strong : op \in Range(pending) \cup Range(batch)

Init ==
    /\ state = "kNone" /\ events = {} /\ index = "kNew"
    /\ outputBuffer = << >> /\ inMap = FALSE
    /\ phase = "poll" /\ revents = {} /\ callback = FALSE
    /\ pending = << >> /\ batch = << >> /\ next = 1 /\ basePending = << >>
    /\ sameLoop \in BOOLEAN /\ writeCompleteCallback \in BOOLEAN
    /\ hold = {} /\ tpc = [t \in Threads |-> "out"]
    /\ peer = "open" /\ data = FALSE /\ fin = FALSE /\ wire = << >>
    /\ sent = << >> /\ sends = 0 /\ arrived = 0 /\ destroyed = FALSE
    /\ late = FALSE /\ abandoned = FALSE
    /\ fault = "none"

-----------------------------------------------------------------------------
(* Channel and EPoller.                                                    *)

\* EPoller::updateChannel(): EPOLL_CTL_ADD, MOD or DEL.
IndexAfter(ev) == IF index = "kAdded" /\ ev = {} THEN "kDeleted" ELSE "kAdded"

UpdateChannel(ev) == events' = ev /\ index' = IndexAfter(ev)

\* What epoll_wait() reports; EPOLLHUP and EPOLLERR do not have to be asked
\* for.  The destructor closes the socket.
Ready ==
    IF index # "kAdded" \/ ~Alive THEN {}
    ELSE {e \in events : e = "write" \/ data \/ peer # "open"}
           \cup (IF peer \in {"reset", "down"} \/ (peer = "eof" /\ fin) THEN {"hup"} ELSE {})
           \cup (IF peer = "reset" THEN {"err"} ELSE {})

\* The socket's error is reported once: by getsockopt(SO_ERROR), read() or write().
ErrorFetched == IF peer = "reset" THEN "down" ELSE peer

-----------------------------------------------------------------------------
(* The server's part, in the base loop's thread.                           *)

\* connectEstablished(), up to the user's ConnectionCallback.
Established == state' = "kConnected" /\ UpdateChannel({"read"}) /\ callback' = TRUE

\* newConnection(): the map, and connectEstablished() through runInLoop().
NewConnection ==
    /\ fault = "none"
    /\ state = "kNone"
    /\ inMap' = TRUE
    /\ IF sameLoop
         THEN /\ phase = "events" /\ revents = {}
              /\ Established
              /\ UNCHANGED pending
         ELSE /\ state' = "kConnecting"
              /\ pending' = Append(pending, "connectEstablished")
              /\ UNCHANGED <<events, index, callback>>
    /\ UNCHANGED <<outputBuffer, phase, revents, batch, next, basePending,
                   threads, socket, ghosts, fault>>

\* Mutant of RemoveConnectionInLoop: connectDestroyed() is not queued.
RemoveFromMapOnly ==
    IF inMap
      THEN inMap' = FALSE /\ UNCHANGED <<pending, fault>>
      ELSE fault' = "erase" /\ UNCHANGED <<inMap, pending>>

\* removeConnectionInLoop(), with its assertion that erase() found the name.
RemoveConnectionInLoop ==
    IF inMap
      THEN /\ inMap' = FALSE
           /\ pending' = Append(pending, "connectDestroyed")
           /\ UNCHANGED fault
      ELSE fault' = "erase" /\ UNCHANGED <<inMap, pending>>

\* The base loop, when it is another thread, runs what it was sent.
BaseLoopRuns ==
    /\ fault = "none"
    /\ basePending # << >>
    /\ RemoveConnectionInLoop
    /\ basePending' = Tail(basePending)
    /\ UNCHANGED <<state, events, index, outputBuffer, loop, threads, socket, ghosts>>

-----------------------------------------------------------------------------
(* The I/O loop: handlers of the channel.                                  *)

\* poll() returns; a writable socket may be reported later.
Poll(unready) ==
    /\ fault = "none"
    /\ phase = "poll"
    /\ revents' = Ready \ unready
    /\ phase' = "events"
    /\ UNCHANGED <<conn, callback, batch, next, queues, threads, socket, ghosts, fault>>

\* handleClose(): the channel, then TcpServer::removeConnection().  The
\* state stays what it was.
HandleClose ==
    IF state \notin Connected
      THEN fault' = "close" /\ UNCHANGED <<events, index, inMap, queues>>
      ELSE /\ UpdateChannel({})
           /\ IF sameLoop
                THEN RemoveConnectionInLoop /\ UNCHANGED basePending
                ELSE /\ basePending' = Append(basePending, "removeConnectionInLoop")
                     /\ UNCHANGED <<inMap, pending, fault>>

\* Channel::handleEvent(), POLLHUP without POLLIN.
HandleHup ==
    /\ fault = "none"
    /\ phase = "events"
    /\ "hup" \in revents
    /\ revents' = revents \ {"hup"}
    /\ IF "read" \in revents
         THEN UNCHANGED <<events, index, inMap, queues, fault>>
         ELSE HandleClose
    /\ UNCHANGED <<state, outputBuffer, phase, callback, batch, next, threads,
                   socket, ghosts>>

\* handleError(), called by Channel::handleEvent() for POLLERR.
HandleError ==
    /\ fault = "none"
    /\ phase = "events"
    /\ "err" \in revents /\ "hup" \notin revents
    /\ revents' = revents \ {"err"}
    /\ peer' = ErrorFetched
    /\ UNCHANGED <<conn, phase, callback, batch, next, queues, threads,
                   data, fin, wire, arrived, ghosts, fault>>

\* readFd() < 0: the peer reset the connection after poll() had returned.
ReadFails == ~data /\ peer = "reset"

\* handleRead(): the MessageCallback, the end of the stream, or handleError()
\* alone, so that the connection stays until a later poll().
HandleRead ==
    /\ fault = "none"
    /\ phase = "events" /\ ~callback
    /\ "read" \in revents /\ revents \cap {"hup", "err"} = {}
    /\ revents' = revents \ {"read"}
    /\ IF data \/ ReadFails THEN UNCHANGED <<events, index, inMap, queues, fault>>
                            ELSE HandleClose
    /\ data' = FALSE /\ callback' = data
    /\ peer' = IF ReadFails THEN ErrorFetched ELSE peer
    /\ UNCHANGED <<state, outputBuffer, phase, batch, next, threads,
                   fin, wire, arrived, ghosts>>

\* Mutant of ShutdownInLoop: no test for output that is waiting.
ShutdownAtOnce(ev) == fin' = TRUE

\* shutdownInLoop(), when the channel's events are ev.
ShutdownInLoop(ev) == fin' = (fin \/ "write" \notin ev)

\* write() fails: EPIPE or ECONNRESET.
Broken == fin \/ peer \in {"reset", "down"}

\* Mutant of ShutdownGoesOn: nobody comes back to a shutdown that waits.
ShutdownForgotten(ev) == UNCHANGED fin

\* The end of handleWrite(): a shutdown that has waited for the output.
ShutdownGoesOn(ev) ==
    IF state = "kDisconnecting" THEN ShutdownInLoop(ev) ELSE UNCHANGED fin

\* pendingFunctors_ after the WriteCompleteCallback, if there is one, is queued.
WriteCompleteQueued ==
    IF writeCompleteCallback THEN Append(pending, "writeComplete") ELSE pending

\* handleWrite(), when write() accepts n pieces.  With the last one the
\* channel stops writing, the WriteCompleteCallback is queued, and a
\* shutdown that has waited for it goes on.
HandleWrite(n) ==
    /\ fault = "none"
    /\ phase = "events" /\ ~callback
    /\ revents = {"write"}
    /\ revents' = {}
    /\ IF Writing /\ ~Broken
         THEN /\ n \in 1 .. Len(outputBuffer)
              /\ wire' = wire \o SubSeq(outputBuffer, 1, n)
              /\ outputBuffer' = SubSeq(outputBuffer, n + 1, Len(outputBuffer))
              /\ IF outputBuffer' = << >>
                   THEN /\ UpdateChannel(events \ {"write"})
                        /\ pending' = WriteCompleteQueued
                        /\ ShutdownGoesOn(events')
                   ELSE UNCHANGED <<events, index, pending, fin>>
         ELSE n = 0 /\ UNCHANGED <<wire, outputBuffer, events, index, pending, fin>>
    /\ peer' = IF Writing THEN ErrorFetched ELSE peer
    /\ UNCHANGED <<state, inMap, phase, callback, batch, next, basePending,
                   threads, data, arrived, ghosts, fault>>

-----------------------------------------------------------------------------
(* The I/O loop: functors.                                                 *)

\* Mutant of WriteDirectly: output that is waiting does not count.
WriteAlways == TRUE

\* sendInLoop(): nothing is waiting to be written.
WriteDirectly == ~Writing /\ outputBuffer = << >>

\* sendInLoop(), when write() accepts n pieces of the message.
SendInLoop(message, n) ==
    /\ n \in IF WriteDirectly /\ ~Broken THEN 0 .. Len(message) ELSE {0}
    /\ sent' = sent \o message
    /\ wire' = wire \o SubSeq(message, 1, n)
    /\ peer' = IF WriteDirectly THEN ErrorFetched ELSE peer
    /\ late' = (late \/ (events = {} /\ n < Len(message)))
    /\ IF n < Len(message)
         THEN /\ outputBuffer' = outputBuffer \o SubSeq(message, n + 1, Len(message))
              /\ IF Writing THEN UNCHANGED <<events, index>>
                            ELSE UpdateChannel(events \cup {"write"})
              /\ UNCHANGED pending
         ELSE /\ pending' = WriteCompleteQueued
              /\ UNCHANGED <<outputBuffer, events, index>>

\* The channels are done: doPendingFunctors() swaps.
SwapFunctors ==
    /\ fault = "none"
    /\ phase = "events"
    /\ revents = {} /\ ~callback
    /\ phase' = "functors"
    /\ batch' = pending /\ pending' = << >> /\ next' = 1
    /\ UNCHANGED <<conn, revents, callback, basePending, threads, socket, ghosts, fault>>

\* The functor to run next is op.
Runs(op) ==
    /\ fault = "none"
    /\ phase = "functors" /\ ~callback
    /\ next <= Len(batch)
    /\ batch[next] = op
    /\ next' = next + 1

RunConnectEstablished ==
    /\ Runs("connectEstablished")
    /\ Established
    /\ UNCHANGED <<outputBuffer, inMap, phase, revents, batch, queues,
                   threads, socket, ghosts, fault>>

\* Mutant of IndexRemoved: removeChannel() is not called.
IndexDisabled == IndexAfter({})

\* EPoller::removeChannel().
IndexRemoved == "kNew"

\* connectDestroyed().  In the ConnectionCallback the state is kDisconnected,
\* so that send() and shutdown() do nothing; then the channel is removed.
RunConnectDestroyed ==
    /\ Runs("connectDestroyed")
    /\ IF state \in Connected
         THEN /\ state' = "kDisconnected"
              /\ events' = {}
              /\ index' = IndexRemoved
              /\ destroyed' = TRUE
              /\ UNCHANGED fault
         ELSE fault' = "destroyed" /\ UNCHANGED <<state, events, index, destroyed>>
    /\ UNCHANGED <<outputBuffer, inMap, phase, revents, callback, batch,
                   queues, threads, socket, sent, sends, late, abandoned>>

\* The WriteCompleteCallback.
RunWriteComplete ==
    /\ Runs("writeComplete")
    /\ callback' = TRUE
    /\ UNCHANGED <<conn, phase, revents, batch, queues, threads, socket,
                   ghosts, fault>>

\* sendInLoop() queued by a thread: bound to this, not to a TcpConnectionPtr.
RunSend(n) ==
    /\ Runs("sendInLoop")
    /\ IF Alive
         THEN SendInLoop(NextMessage, n) /\ UNCHANGED fault
         ELSE /\ fault' = "dead"
              /\ UNCHANGED <<sent, wire, outputBuffer, events, index, pending, peer, late>>
    /\ UNCHANGED <<state, inMap, phase, revents, callback, batch, basePending,
                   threads, data, fin, arrived, sends, destroyed, abandoned>>

RunShutdown ==
    /\ Runs("shutdownInLoop")
    /\ IF Alive THEN ShutdownInLoop(events) /\ UNCHANGED fault
                ELSE fault' = "dead" /\ UNCHANGED fin
    /\ UNCHANGED <<conn, phase, revents, callback, batch, queues, threads,
                   peer, data, wire, arrived, ghosts>>

\* The batch, and with it the functors, is destroyed.
EndFunctors ==
    /\ fault = "none"
    /\ phase = "functors" /\ ~callback
    /\ next > Len(batch)
    /\ phase' = "poll"
    /\ batch' = << >> /\ next' = 1
    /\ UNCHANGED <<conn, revents, callback, queues, threads, socket, ghosts, fault>>

-----------------------------------------------------------------------------
(* The user's code in a callback.                                          *)

\* send() in the loop thread.
LoopSend(n) ==
    /\ fault = "none"
    /\ callback
    /\ MaySend
    /\ state = "kConnected"
    /\ sends' = sends + 1
    /\ SendInLoop(NextMessage, n)
    /\ UNCHANGED <<state, inMap, loop, basePending, threads, data, fin,
                   arrived, destroyed, abandoned, fault>>

\* shutdown() in the loop thread.
LoopShutdown ==
    /\ fault = "none"
    /\ callback
    /\ state = "kConnected"
    /\ state' = "kDisconnecting"
    /\ ShutdownInLoop(events)
    /\ UNCHANGED <<events, index, outputBuffer, inMap, loop, queues, threads,
                   peer, data, wire, arrived, ghosts, fault>>

\* The callback hands the TcpConnectionPtr to a thread.
Share(t) ==
    /\ fault = "none"
    /\ callback
    /\ ~sameLoop /\ t \notin hold
    /\ hold' = hold \cup {t}
    /\ UNCHANGED <<conn, loop, queues, program, tpc, socket, ghosts, fault>>

CallbackReturns ==
    /\ fault = "none"
    /\ callback
    /\ callback' = FALSE
    /\ UNCHANGED <<conn, phase, revents, batch, next, queues, threads, socket,
                   ghosts, fault>>

-----------------------------------------------------------------------------
(* The user's threads.                                                     *)

\* Thread t, which holds a TcpConnectionPtr, goes from one point to another.
At(t, from, to) ==
    /\ fault = "none"
    /\ t \in hold
    /\ tpc[t] = from
    /\ tpc' = [tpc EXCEPT ![t] = to]
    /\ UNCHANGED program

\* send(): the test of state_ ...
CallSend(t) ==
    /\ At(t, "out", "send")
    /\ MaySend
    /\ state = "kConnected"
    /\ sends' = sends + 1
    /\ UNCHANGED <<conn, loop, queues, hold, socket, sent, destroyed, late, abandoned, fault>>

\* ... and runInLoop().
CallSendQueues(t) ==
    /\ At(t, "send", "out")
    /\ pending' = Append(pending, "sendInLoop")
    /\ UNCHANGED <<conn, loop, basePending, hold, socket, ghosts, fault>>

\* shutdown(): the test of state_ ...
CallShutdown(t) ==
    /\ At(t, "out", "shutdown")
    /\ state = "kConnected"
    /\ UNCHANGED <<conn, loop, queues, hold, socket, ghosts, fault>>

\* ... setState() ...
CallShutdownSets(t) ==
    /\ At(t, "shutdown", "shutdownSet")
    /\ state' = "kDisconnecting"
    /\ UNCHANGED <<events, index, outputBuffer, inMap, loop, queues, hold,
                   socket, ghosts, fault>>

\* ... and runInLoop().
CallShutdownQueues(t) ==
    /\ At(t, "shutdownSet", "out")
    /\ pending' = Append(pending, "shutdownInLoop")
    /\ UNCHANGED <<conn, loop, basePending, hold, socket, ghosts, fault>>

\* The thread gives up its TcpConnectionPtr.
Drop(t) ==
    /\ At(t, "out", "out")
    /\ hold' = hold \ {t}
    /\ abandoned' = (abandoned \/ (hold' = {} /\ Waiting \cap Weak # {}))
    /\ UNCHANGED <<conn, loop, queues, socket, sent, sends, destroyed, late, fault>>

-----------------------------------------------------------------------------
(* The peer.                                                               *)

PeerSends ==
    /\ fault = "none"
    /\ peer = "open" /\ state # "kNone"
    /\ arrived < MaxData
    /\ data' = TRUE /\ arrived' = arrived + 1
    /\ UNCHANGED <<conn, loop, queues, threads, peer, fin, wire, ghosts, fault>>

\* close() by the peer, and then a RST as an answer to what is sent to it.
PeerCloses ==
    /\ fault = "none"
    /\ state # "kNone"
    /\ \/ peer = "open" /\ peer' = "eof"
       \/ peer = "eof" /\ peer' = "reset"
    /\ UNCHANGED <<conn, loop, queues, threads, data, fin, wire, arrived, ghosts, fault>>

-----------------------------------------------------------------------------
Handlers ==
    \/ HandleHup \/ HandleError \/ HandleRead \/ SwapFunctors
    \/ RunConnectEstablished \/ RunConnectDestroyed \/ RunWriteComplete
    \/ RunShutdown \/ EndFunctors \/ CallbackReturns
    \/ \E n \in 0 .. Len(outputBuffer) : HandleWrite(n)
    \/ \E n \in 0 .. 2 : RunSend(n)

InCallback ==
    \/ LoopShutdown
    \/ \E n \in 0 .. 2 : LoopSend(n)
    \/ \E t \in Threads : Share(t)

ThreadGoesOn(t) == CallSendQueues(t) \/ CallShutdownSets(t) \/ CallShutdownQueues(t)
ThreadCalls(t) == CallSend(t) \/ CallShutdown(t) \/ Drop(t)

Next ==
    \/ NewConnection \/ BaseLoopRuns
    \/ Poll({}) \/ Poll({"write"})
    \/ Handlers \/ InCallback
    \/ \E t \in Threads : ThreadGoesOn(t) \/ ThreadCalls(t)
    \/ PeerSends \/ PeerCloses

Spec == Init /\ [][Next]_vars

(***************************************************************************)
(* The two loops and a thread inside a call go on, callbacks return, and   *)
(* the peer reads: a socket with output is found writable again and again. *)
(***************************************************************************)
Fairness ==
    /\ WF_vars(BaseLoopRuns)
    /\ WF_vars(Handlers)
    /\ SF_vars(Poll({}))
    /\ \A t \in Threads : WF_vars(ThreadGoesOn(t))

FairSpec == Spec /\ Fairness

-----------------------------------------------------------------------------
(* Properties.                                                             *)

\* The type invariant.
TypeOK ==
    /\ state \in {"kNone", "kConnecting", "kConnected", "kDisconnecting", "kDisconnected"}
    /\ events \subseteq {"read", "write"}
    /\ index \in {"kNew", "kAdded", "kDeleted"}
    /\ outputBuffer \in Seq(1 .. MaxSends)
    /\ inMap \in BOOLEAN
    /\ phase \in {"poll", "events", "functors"}
    /\ revents \subseteq {"read", "write", "hup", "err"}
    /\ callback \in BOOLEAN
    /\ \A op \in Range(pending) \cup Range(batch) :
         op \in Strong \cup Weak
    /\ next \in 1 .. Len(batch) + 1
    /\ \A op \in Range(basePending) : op = "removeConnectionInLoop"
    /\ sameLoop \in BOOLEAN /\ writeCompleteCallback \in BOOLEAN
    /\ hold \subseteq Threads
    /\ tpc \in [Threads -> {"out", "send", "shutdown", "shutdownSet"}]
    /\ peer \in {"open", "eof", "reset", "down"}
    /\ data \in BOOLEAN /\ fin \in BOOLEAN
    /\ wire \in Seq(1 .. MaxSends) /\ sent \in Seq(1 .. MaxSends)
    /\ sends \in 0 .. MaxSends /\ arrived \in 0 .. MaxData
    /\ destroyed \in BOOLEAN /\ late \in BOOLEAN /\ abandoned \in BOOLEAN
    /\ fault \in {"none", "erase", "close", "destroyed", "dead"}

\* The stream keeps its order and loses nothing: what write() accepted,
\* followed by what outputBuffer_ holds, is what sendInLoop() was given,
\* through partial writes, direct writes and failed ones.  (And the state has
\* its types.)
StreamInOrder == TypeOK /\ wire \o outputBuffer = sent

\* shutdownInLoop() closes the sending direction only when all output has
\* been written, unless the peer has closed the connection.
FinAfterOutput ==
    [][(fin' /\ ~fin) => (outputBuffer' = << >> \/ peer # "open")]_vars

(***************************************************************************)
(* In a program of one thread no assertion fails and no call finds the     *)
(* connection deleted.  With two loops or with threads, the assertions of  *)
(* removeConnectionInLoop() and handleClose() (TcpServer.cc:96,            *)
(* TcpConnection.cc:191) fail only after a sendInLoop() that came after    *)
(* handleClose() and enabled the channel again (TcpConnection.cc:92), and  *)
(* a functor finds the connection deleted only if the last thread let its  *)
(* TcpConnectionPtr go while a call was queued (TcpConnection.cc:61, 104). *)
(* connectDestroyed() always finds it connected or disconnecting (135).    *)
(***************************************************************************)
NoFault ==
    /\ sameLoop => fault = "none"
    /\ fault \in {"erase", "close"} => late
    /\ fault = "dead" => abandoned
    /\ fault # "destroyed"

\* The poller has forgotten the channel of a TcpConnection by the time it is
\* deleted (TcpConnection.cc:140), unless, in a program of several threads, a
\* sendInLoop() enabled the channel again after handleClose().
PollerForgets ==
    (state # "kNone" /\ ~Alive /\ (sameLoop \/ ~late)) => index = "kNew"

\* With several threads: a sendInLoop() has come after handleClose(), or a
\* call was left queued by a thread that let go.
Misused == ~sameLoop /\ (late \/ abandoned)

\* A connection that the peer closed or reset gets to connectDestroyed(),
\* also when a read() reports the reset as an error (TcpConnection.cc:151-155)
\* and whatever the callbacks send meanwhile; with several threads, unless a
\* call comes too late for the connection (NoFault says how that ends).
ClosedIsDestroyed ==
    (state \in Connected /\ peer # "open") ~> (destroyed \/ Misused)

\* shutdown() in any thread leads to the end of the stream being sent, once
\* the output is written (TcpConnection.cc:97-116, 173-175), or to
\* connectDestroyed(); with several threads, unless a call comes too late.
ShutdownSendsFin ==
    (state = "kDisconnecting") ~> (fin \/ destroyed \/ Misused)

\* "Thread safe." (TcpConnection.h:52-55, of send() and shutdown()): what
\* another thread asked for while it held the connection does not run on a
\* deleted one.
ThreadSafe == fault # "dead"
=============================================================================
