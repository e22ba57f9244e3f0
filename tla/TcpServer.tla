------------------------------ MODULE TcpServer ------------------------------
(***************************************************************************)
(* muduo::TcpServer with its Acceptor and EventLoopThreadPool (TcpServer.cc,*)
(* Acceptor.cc, EventLoopThreadPool.cc in reactor/s13): many connections   *)
(* over a base loop, loop 0, and numThreads I/O loops.  Module             *)
(* TcpConnection has the inside of one connection; here a connection is    *)
(* its state, its channel's registration in the poller of its loop, its    *)
(* descriptor and the TcpConnectionPtrs that keep it alive.                *)
(*                                                                         *)
(* A TcpConnection is deleted, and its descriptor closed, when no pointer  *)
(* is left: not in connections_, not in a queued functor, not with the     *)
(* user.  The kernel then uses the descriptor again.  A thread of the user *)
(* that keeps a pointer can send(); the sendInLoop() it queues holds none. *)
(*                                                                         *)
(* An assertion of the code that fails, or a call on a deleted connection, *)
(* ends the behaviour; fault says which it was.                            *)
(***************************************************************************)
EXTENDS Integers, Sequences, Functions, FiniteSets

CONSTANTS
    MaxThreads,     \* bound: I/O loops
    MaxConns,       \* bound: connections accepted
    MaxSends,       \* bound: calls of send() by other threads
    Fds             \* the descriptors accept() can return

ASSUME TcpServerAssumption ==
    MaxThreads \in Nat /\ MaxConns \in Nat /\ MaxSends \in Nat /\ Fds \subseteq Nat

VARIABLES
    numThreads,     \* numThreads_ of the pool, as setThreadNum() left it
    loops,          \* loops_.size(), 0 before start()
    next,           \* next_
    started, listening,
    nextConnId,
    connections,    \* connections_
    loopOf, fd,     \* of each connection
    state,          \* none, state_, or deleted
    index,          \* index_ of the connection's channel in the EPoller of its loop
    pending,        \* the functors queued in each loop
    held,           \* connections that a thread of the user keeps a pointer to
    sending,        \* those of them whose thread is in send(), past the test of state_
    sends,          \* history: calls of send()
    late,           \* history: sendInLoop() enabled the channel after handleClose()
    abandoned,      \* history: the thread let go while a sendInLoop() was queued
    fault           \* the assertion that failed, or none

pool == <<numThreads, loops, next, started>>
server == <<pool, listening, nextConnId, connections>>
users == <<held, sending, sends, abandoned>>
vars == <<server, loopOf, fd, state, index, pending, users, late, fault>>

Conns == 1 .. MaxConns
Loops == 0 .. MaxThreads

Init ==
    /\ numThreads \in Loops
    /\ loops = 0 /\ next = 0 /\ started = FALSE /\ listening = FALSE
    /\ nextConnId = 1 /\ connections = {}
    /\ loopOf = [c \in Conns |-> 0]
    /\ fd = [c \in Conns |-> -1]
    /\ state = [c \in Conns |-> "none"]
    /\ index = [c \in Conns |-> "kNew"]
    /\ pending = [l \in Loops |-> << >>]
    /\ held = {} /\ sending = {} /\ sends = 0 /\ abandoned = {}
    /\ late = {} /\ fault = "none"

-----------------------------------------------------------------------------
(* The start, and new connections.                                         *)

\* EventLoopThreadPool::start(), unless the server has started it.
StartPool == loops' = IF started THEN loops ELSE numThreads

\* Acceptor::listen(); listening twice changes nothing.
Listen == listening' = TRUE

\* start(), in the base loop's thread; "It's harmless to call it multiple times".
Start ==
    /\ fault = "none"
    /\ started' = TRUE
    /\ StartPool
    /\ Listen
    /\ UNCHANGED <<numThreads, next, nextConnId, connections, loopOf, fd, state,
                   index, pending, users, late, fault>>

\* Mutant of AfterNext: next_ wraps one loop too early.
AfterNextEarly == IF loops = 0 \/ next + 1 >= loops - 1 THEN 0 ELSE next + 1

\* getNextLoop(): the loop, and next_ afterwards.
NextLoop == IF loops = 0 THEN 0 ELSE next + 1
AfterNext == IF loops = 0 \/ next + 1 >= loops THEN 0 ELSE next + 1

Functor(op, c) == [op |-> op, conn |-> c]
QueueInLoop(queues, l, op, c) == [queues EXCEPT ![l] = Append(@, Functor(op, c))]

Open(c) == state[c] \notin {"none", "deleted"}

\* The states that handleClose() and connectDestroyed() assert.
Connected == {"kConnected", "kDisconnecting"}

\* EPoller::updateChannel() with some event, for connection c with descriptor
\* f in loop l: a new channel's descriptor must not be in channels_ yet.
EnableChannel(c, l, f) ==
    IF /\ index[c] = "kNew"
       /\ \E d \in Conns \ {c} : index[d] # "kNew" /\ loopOf[d] = l /\ fd[d] = f
      THEN fault' = "channels" /\ UNCHANGED index
      ELSE index' = [index EXCEPT ![c] = "kAdded"] /\ UNCHANGED fault

\* connectEstablished(), without its assertion.
Established(c, l, f) ==
    state' = [state EXCEPT ![c] = "kConnected"] /\ EnableChannel(c, l, f)

\* Acceptor::handleRead(): accept() returns a descriptor that is not in use.
Accepts(f) == listening /\ \A c \in Conns : Open(c) => fd[c] # f

\* newConnection(), called by Acceptor::handleRead().
NewConnection(f) ==
    /\ fault = "none"
    /\ Accepts(f)
    /\ nextConnId \in Conns
    /\ LET c == nextConnId
           l == NextLoop
       IN  /\ connections' = connections \cup {c}
           /\ loopOf' = [loopOf EXCEPT ![c] = l]
           /\ fd' = [fd EXCEPT ![c] = f]
           /\ IF l = 0
                THEN Established(c, l, f) /\ UNCHANGED pending
                ELSE /\ state' = [state EXCEPT ![c] = "kConnecting"]
                     /\ pending' = QueueInLoop(pending, l, "connectEstablished", c)
                     /\ UNCHANGED <<index, fault>>
    /\ nextConnId' = nextConnId + 1
    /\ next' = AfterNext
    /\ UNCHANGED <<numThreads, loops, started, listening, users, late>>

-----------------------------------------------------------------------------
(* The end of a connection.                                                *)

\* Mutant of RemoveConnectionInLoop: the connection stays in the map.
RemoveConnectionForgotten(c, queues) ==
    /\ pending' = QueueInLoop(queues, loopOf[c], "connectDestroyed", c)
    /\ UNCHANGED <<connections, fault>>

\* removeConnectionInLoop() in the base loop, with its assertion that erase()
\* found the name.
RemoveConnectionInLoop(c, queues) ==
    IF c \in connections
      THEN /\ connections' = connections \ {c}
           /\ pending' = QueueInLoop(queues, loopOf[c], "connectDestroyed", c)
           /\ UNCHANGED fault
      ELSE fault' = "erase" /\ pending' = queues /\ UNCHANGED connections

\* handleClose() of a connection, in its loop: its assertion, the channel, and
\* runInLoop() of the removal.  The state stays what it was.
HandleClose(c) ==
    /\ fault = "none"
    /\ Open(c) /\ index[c] = "kAdded"
    /\ IF state[c] \notin Connected
         THEN fault' = "close" /\ UNCHANGED <<index, connections, pending>>
         ELSE /\ index' = [index EXCEPT ![c] = "kDeleted"]
              /\ IF loopOf[c] = 0
                   THEN RemoveConnectionInLoop(c, pending)
                   ELSE /\ pending' = QueueInLoop(pending, 0, "removeConnectionInLoop", c)
                        /\ UNCHANGED <<connections, fault>>
    /\ UNCHANGED <<pool, listening, nextConnId, loopOf, fd, state, users, late>>

\* connectDestroyed(): its assertion, kDisconnected, and removeChannel().
ConnectDestroyed(c) ==
    IF state[c] \in Connected
      THEN /\ state' = [state EXCEPT ![c] = "kDisconnected"]
           /\ index' = [index EXCEPT ![c] = "kNew"]
           /\ UNCHANGED fault
      ELSE fault' = "destroyed" /\ UNCHANGED <<state, index>>

\* sendInLoop(), bound to a TcpConnection that may be deleted.  Output that
\* is left over enables writing, whatever has become of the connection.
SendInLoop(c, leftOver) ==
    IF ~Open(c) THEN fault' = "dead" /\ UNCHANGED <<index, late>>
    ELSE IF leftOver
      THEN /\ EnableChannel(c, loopOf[c], fd[c])
           /\ late' = IF index[c] = "kAdded" THEN late ELSE late \cup {c}
      ELSE UNCHANGED <<index, late, fault>>

\* handleWrite() writes the last output of a channel that only a late
\* sendInLoop() enabled, and disables it again; others go on reading.
HandleWrite(c) ==
    /\ fault = "none"
    /\ Open(c) /\ c \in late /\ index[c] = "kAdded"
    /\ index' = [index EXCEPT ![c] = "kDeleted"]
    /\ UNCHANGED <<server, loopOf, fd, state, pending, users, late, fault>>

\* A loop runs the functor at the head of its queue.
RunFunctor(l) ==
    /\ fault = "none"
    /\ pending[l] # << >>
    /\ LET f == Head(pending[l])
           c == f.conn
           rest == [pending EXCEPT ![l] = Tail(@)]
       IN  \/ /\ f.op = "connectEstablished"
              /\ IF state[c] = "kConnecting"
                   THEN Established(c, loopOf[c], fd[c])
                   ELSE fault' = "established" /\ UNCHANGED <<state, index>>
              /\ pending' = rest /\ UNCHANGED <<connections, late>>
           \/ /\ f.op = "removeConnectionInLoop"
              /\ RemoveConnectionInLoop(c, rest)
              /\ UNCHANGED <<state, index, late>>
           \/ /\ f.op = "connectDestroyed"
              /\ ConnectDestroyed(c)
              /\ pending' = rest /\ UNCHANGED <<connections, late>>
           \/ /\ f.op = "sendInLoop"
              /\ \E leftOver \in BOOLEAN : SendInLoop(c, leftOver)
              /\ pending' = rest /\ UNCHANGED <<connections, state>>
    /\ UNCHANGED <<pool, listening, nextConnId, loopOf, fd, users>>

\* Mutant of Unreferenced: the functors hold raw pointers.
UnreferencedRaw(c) == c \notin connections \cup held

\* No TcpConnectionPtr to the connection is left; sendInLoop() has none.
Unreferenced(c) ==
    /\ c \notin connections \cup held
    /\ \A l \in Loops : \A f \in Range(pending[l]) : f.conn = c => f.op = "sendInLoop"

\* ~TcpConnection(): ~Socket() closes the descriptor.
Delete(c) ==
    /\ fault = "none"
    /\ Open(c) /\ Unreferenced(c)
    /\ state' = [state EXCEPT ![c] = "deleted"]
    /\ UNCHANGED <<server, loopOf, fd, index, pending, users, late, fault>>

-----------------------------------------------------------------------------
(* The user's code.                                                        *)

\* shutdown() in a callback.
Shutdown(c) ==
    /\ fault = "none"
    /\ state[c] = "kConnected" /\ index[c] = "kAdded"
    /\ state' = [state EXCEPT ![c] = "kDisconnecting"]
    /\ UNCHANGED <<server, loopOf, fd, index, pending, users, late, fault>>

\* A callback hands the TcpConnectionPtr to another thread ...
Hold(c) ==
    /\ fault = "none"
    /\ state[c] \in Connected /\ c \notin held
    /\ held' = held \cup {c}
    /\ UNCHANGED <<server, loopOf, fd, state, index, pending, sending, sends,
                   abandoned, late, fault>>

\* ... which calls send(): the test of state_ ...
CallSend(c) ==
    /\ fault = "none"
    /\ c \in held \ sending
    /\ sends < MaxSends
    /\ state[c] = "kConnected"
    /\ sending' = sending \cup {c} /\ sends' = sends + 1
    /\ UNCHANGED <<server, loopOf, fd, state, index, pending, held, abandoned, late, fault>>

\* ... and queueInLoop() ...
CallSendQueues(c) ==
    /\ fault = "none"
    /\ c \in sending
    /\ sending' = sending \ {c}
    /\ pending' = QueueInLoop(pending, loopOf[c], "sendInLoop", c)
    /\ UNCHANGED <<server, loopOf, fd, state, index, held, sends, abandoned, late, fault>>

\* ... and lets it go.
LetGo(c) ==
    /\ fault = "none"
    /\ c \in held \ sending
    /\ held' = held \ {c}
    /\ abandoned' = IF Functor("sendInLoop", c) \in Range(pending[loopOf[c]])
                      THEN abandoned \cup {c} ELSE abandoned
    /\ UNCHANGED <<server, loopOf, fd, state, index, pending, sending, sends, late, fault>>

Next ==
    \/ Start
    \/ \E f \in Fds : NewConnection(f)
    \/ \E l \in Loops : RunFunctor(l)
    \/ \E c \in Conns :
         \/ HandleClose(c) \/ HandleWrite(c) \/ Delete(c)
         \/ Shutdown(c) \/ Hold(c) \/ CallSend(c) \/ CallSendQueues(c) \/ LetGo(c)

\* Every loop goes on running its functors; the last pointer that goes
\* deletes the connection.
Fairness ==
    /\ \A l \in Loops : WF_vars(RunFunctor(l))
    /\ \A c \in Conns : WF_vars(Delete(c))

Spec == Init /\ [][Next]_vars /\ Fairness

-----------------------------------------------------------------------------
(* Properties.                                                             *)

\* The state has its types.
TypeOK ==
    /\ loops \in {0, numThreads} /\ (next = 0 \/ next \in 1 .. loops - 1)
    /\ nextConnId \in 1 .. MaxConns + 1
    /\ connections \subseteq Conns
    /\ loopOf \in [Conns -> Loops] /\ fd \in [Conns -> Fds \cup {-1}]
    /\ state \in [Conns -> Connected \cup {"none", "kConnecting", "kDisconnected", "deleted"}]
    /\ index \in [Conns -> {"kNew", "kAdded", "kDeleted"}]
    /\ \A l \in Loops : \A f \in Range(pending[l]) :
         /\ f.op \in {"connectEstablished", "removeConnectionInLoop", "connectDestroyed", "sendInLoop"}
         /\ f.conn \in Conns
    /\ held \subseteq Conns /\ sending \subseteq held /\ sends \in 0 .. MaxSends
    /\ late \subseteq Conns /\ abandoned \subseteq Conns
    /\ fault \in {"none", "channels", "erase", "close", "destroyed", "established", "dead"}

\* getNextLoop() deals the connections out evenly: the I/O loops' shares
\* differ by one at most, and none goes to the base loop
\* (EventLoopThreadPool.cc:50-59).  (And the state has its types, next_ its range.)
RoundRobin ==
    LET share(l) == Cardinality({c \in 1 .. nextConnId - 1 : loopOf[c] = l})
    IN  /\ TypeOK
        /\ loops > 0 =>
             /\ share(0) = 0
             /\ \A k, l \in 1 .. loops : share(k) - share(l) \in -1 .. 1

(***************************************************************************)
(* The poller of a loop keeps raw pointers to channels, by descriptor: it  *)
(* has none to a deleted connection, though the connection is removed in   *)
(* one thread, destroyed in another and its descriptor used again at once, *)
(* unless a sendInLoop() came after handleClose() and enabled the channel  *)
(* again (TcpConnection.cc:91-92).  Only then can a new channel find its   *)
(* descriptor taken (EPoller.cc:111), and the assertions of TcpServer.cc:96*)
(* and TcpConnection.cc:191 fail; those of connectEstablished() and        *)
(* connectDestroyed() (126, 135) never do.  A sendInLoop() finds the       *)
(* connection deleted only if the thread that queued it let go first.      *)
(***************************************************************************)
PollersSafe ==
    /\ \A c \in Conns \ late : index[c] # "kNew" => Open(c)
    /\ fault \in {"channels", "erase", "close"} => late # {}
    /\ fault = "dead" => abandoned # {}
    /\ fault \notin {"established", "destroyed"}

\* A connection that was closed leaves connections_, is destroyed in its own
\* loop and gives back its descriptor, unless the user keeps it
\* (TcpServer.cc:84-100), or a call that comes too late for a connection has
\* ended the program (PollersSafe says how).
ClosedIsDeleted ==
    \A c \in Conns : (index[c] = "kDeleted") ~>
      \/ state[c] = "deleted" \/ c \in held
      \/ fault # "none" /\ late \cup abandoned # {}
=============================================================================
