------------------------- MODULE TcpConnectionProofs -------------------------
(***************************************************************************)
(* Proofs about TcpConnection, for any set of threads and any number of    *)
(* calls of send().  They come in three layers, each of which uses the     *)
(* ones before it: the types and the order of the stream; when the end of  *)
(* the stream is sent; how the connection is removed and destroyed.        *)
(***************************************************************************)
EXTENDS TcpConnection, SequenceTheorems, FiniteSetTheorems, TLAPS

Ops == Strong \cup {"sendInLoop", "shutdownInLoop"}

\* The types of all but the stream and the Booleans, and of the queues as sequences.
Control ==
    /\ state \in {"kNone", "kConnecting", "kConnected", "kDisconnecting", "kDisconnected"}
    /\ events \subseteq {"read", "write"}
    /\ index \in {"kNew", "kAdded", "kDeleted"}
    /\ phase \in {"poll", "events", "functors"}
    /\ revents \subseteq {"read", "write", "hup", "err"}
    /\ pending \in Seq(Ops) /\ batch \in Seq(Ops) /\ next \in 1 .. Len(batch) + 1
    /\ basePending \in Seq({"removeConnectionInLoop"})
    /\ hold \subseteq Threads
    /\ tpc \in [Threads -> {"out", "send", "shutdown", "shutdownSet"}]
    /\ peer \in {"open", "eof", "reset", "down"}
    /\ sends \in 0 .. MaxSends /\ arrived \in 0 .. MaxData
    /\ fault \in {"none", "erase", "close", "destroyed", "dead"}

Flags ==
    /\ inMap \in BOOLEAN /\ callback \in BOOLEAN /\ sameLoop \in BOOLEAN
    /\ data \in BOOLEAN /\ fin \in BOOLEAN /\ destroyed \in BOOLEAN
    /\ writeCompleteCallback \in BOOLEAN /\ late \in BOOLEAN /\ abandoned \in BOOLEAN

\* The calls of sendInLoop() in a queue from position n on.
Left(q, n) == {i \in n .. Len(q) : q[i] = "sendInLoop"}
Count(q, n) == Cardinality(Left(q, n))

\* The threads between the two halves of send().
Sending == {t \in Threads : tpc[t] = "send"}

\* Every message that was given to sendInLoop(), will be by a queued functor,
\* or is on its way from a thread, was counted by send().
Counted ==
    /\ IsFiniteSet(Sending)
    /\ \E m \in 0 .. MaxSends :
         /\ Len(sent) = 2 * m
         /\ m + Count(pending, 1) + Count(batch, next) + Cardinality(Sending) <= sends

Stream ==
    /\ outputBuffer \in Seq(1 .. MaxSends)
    /\ wire \in Seq(1 .. MaxSends) /\ sent \in Seq(1 .. MaxSends)
    /\ wire \o outputBuffer = sent

\* The inductive invariant behind StreamInOrder.
StreamInv == Control /\ Flags /\ Counted /\ Stream

-----------------------------------------------------------------------------
(* The first layer: types, and the order of the stream.                    *)

LEMMA ControlInit == Init => Control
<1> SUFFICES ASSUME Init PROVE Control
  OBVIOUS
<1> QED
  BY TcpConnectionAssumption DEF Init, Control

\* send() is called at most MaxSends times, in either kind of program.
LEMMA MaySendBound ==
    ASSUME Control, MaySend
    PROVE  sends < MaxSends /\ sends + 1 \in 0 .. MaxSends
BY TcpConnectionAssumption DEF MaySend, Control

\* The WriteCompleteCallback is queued, or nothing is.
LEMMA WriteCompleteAdds ==
    WriteCompleteQueued = pending \/ WriteCompleteQueued = Append(pending, "writeComplete")
BY DEF WriteCompleteQueued

LEMMA AppendOp ==
    ASSUME NEW q \in Seq(Ops)
    PROVE  \A op \in Strong \cup {"sendInLoop", "shutdownInLoop"} : Append(q, op) \in Seq(Ops)
BY DEF Ops

LEMMA RemoveTypes ==
    ASSUME Control, RemoveConnectionInLoop
    PROVE  pending' \in Seq(Ops) /\ fault' \in {"none", "erase", "close", "destroyed", "dead"}
<1>1. Append(pending, "connectDestroyed") \in Seq(Ops)
  BY AppendOp DEF Control, Strong
<1> QED
  BY <1>1 DEF Control, RemoveConnectionInLoop

\* What handleClose() changes.
LEMMA CloseTypes ==
    ASSUME Control, HandleClose
    PROVE  /\ events' \in SUBSET {"read", "write"}
           /\ index' \in {"kNew", "kAdded", "kDeleted"}
           /\ pending' \in Seq(Ops)
           /\ basePending' \in Seq({"removeConnectionInLoop"})
           /\ fault' \in {"none", "erase", "close", "destroyed", "dead"}
<1>1. Append(basePending, "removeConnectionInLoop") \in Seq({"removeConnectionInLoop"})
  BY DEF Control
<1>2. CASE state \notin Connected
  BY <1>2 DEF HandleClose, Control, queues
<1>3. CASE state \in Connected /\ sameLoop
  BY <1>3, RemoveTypes DEF HandleClose, Control, UpdateChannel, IndexAfter
<1>4. CASE state \in Connected /\ ~sameLoop
  BY <1>1, <1>4 DEF HandleClose, Control, UpdateChannel, IndexAfter
<1> QED
  BY <1>2, <1>3, <1>4

\* What sendInLoop() changes, but for the stream.
LEMMA SendTypes ==
    ASSUME Control, NEW message, NEW n, SendInLoop(message, n)
    PROVE  /\ events' \in SUBSET {"read", "write"}
           /\ index' \in {"kNew", "kAdded", "kDeleted"}
           /\ pending' \in Seq(Ops)
           /\ peer' \in {"open", "eof", "reset", "down"}
<1>1. Append(pending, "writeComplete") \in Seq(Ops)
  BY AppendOp DEF Control, Strong
<1> QED
  BY <1>1, WriteCompleteAdds DEF SendInLoop, Control, UpdateChannel, IndexAfter, ErrorFetched

\* The actions of the I/O loop.
LEMMA ControlHandlers ==
    ASSUME Control, Handlers
    PROVE  Control'
<1> USE TcpConnectionAssumption
    DEF Control, UpdateChannel, IndexAfter, conn, loop, queues,
        program, threads, socket, ghosts
<1>1. CASE HandleHup
  <2>1. \/ HandleClose
        \/ UNCHANGED <<events, index, queues, fault>>
    BY <1>1 DEF HandleHup
  <2>2. /\ revents' \in SUBSET {"read", "write", "hup", "err"}
        /\ UNCHANGED <<state, phase, batch, next, hold, tpc, peer, sends, arrived>>
    BY <1>1 DEF HandleHup
  <2> QED
    BY <2>1, <2>2, CloseTypes
<1>2. CASE HandleRead
  <2>1. \/ HandleClose
        \/ UNCHANGED <<events, index, queues, fault>>
    BY <1>2 DEF HandleRead
  <2>2. /\ revents' \in SUBSET {"read", "write", "hup", "err"}
        /\ peer' \in {"open", "eof", "reset", "down"}
        /\ UNCHANGED <<state, phase, batch, next, hold, tpc, sends, arrived>>
    BY <1>2 DEF HandleRead, ErrorFetched
  <2> QED
    BY <2>1, <2>2, CloseTypes
<1>3. CASE SwapFunctors
  BY <1>3 DEF SwapFunctors
<1>4. CASE RunConnectEstablished
  BY <1>4 DEF RunConnectEstablished, Runs, Established
<1>5. CASE RunConnectDestroyed
  <2>1. /\ state' \in {state, "kDisconnected"} /\ events' \in {events, {}}
        /\ index' \in {index, "kNew"} /\ fault' \in {fault, "destroyed"}
    BY <1>5 DEF RunConnectDestroyed, IndexRemoved
  <2>2. /\ next' = next + 1 /\ next <= Len(batch)
        /\ UNCHANGED <<phase, revents, batch, pending, basePending, hold, tpc, peer,
                       sends, arrived>>
    BY <1>5 DEF RunConnectDestroyed, Runs
  <2> QED
    BY <2>1, <2>2
<1>6. CASE RunWriteComplete
  BY <1>6 DEF RunWriteComplete, Runs
<1>7. CASE RunShutdown
  BY <1>7 DEF RunShutdown, Runs, ShutdownInLoop
<1>8. CASE EndFunctors
  BY <1>8 DEF EndFunctors
<1>9. CASE CallbackReturns
  BY <1>9 DEF CallbackReturns
<1>10. ASSUME NEW n \in 0 .. Len(outputBuffer), HandleWrite(n)
       PROVE  Control'
  <2>1. Append(pending, "writeComplete") \in Seq(Ops)
    BY AppendOp DEF Strong
  <2>2. pending' \in Seq(Ops) /\ events' \in SUBSET {"read", "write"}
        /\ index' \in {"kNew", "kAdded", "kDeleted"}
    BY <1>10, <2>1, WriteCompleteAdds DEF HandleWrite
  <2>3. /\ revents' = {} /\ peer' \in {"open", "eof", "reset", "down"}
        /\ UNCHANGED <<state, phase, batch, next, basePending, hold, tpc, sends,
                       arrived, fault>>
    BY <1>10 DEF HandleWrite, ErrorFetched
  <2> QED
    BY <2>2, <2>3
<1>11. ASSUME NEW n \in 0 .. 2, RunSend(n)
       PROVE  Control'
  <2>1. SendInLoop(NextMessage, n) \/ UNCHANGED <<events, index, pending, peer>>
    BY <1>11 DEF RunSend
  <2>2. /\ next' = next + 1 /\ next <= Len(batch) /\ fault' \in {fault, "dead"}
        /\ UNCHANGED <<state, phase, revents, batch, basePending, hold, tpc, sends, arrived>>
    BY <1>11 DEF RunSend, Runs
  <2>3. /\ events' \in SUBSET {"read", "write"}
        /\ index' \in {"kNew", "kAdded", "kDeleted"}
        /\ pending' \in Seq(Ops)
        /\ peer' \in {"open", "eof", "reset", "down"}
    <3>1. CASE SendInLoop(NextMessage, n)
      <4> HIDE DEF Control
      <4> QED
        BY <3>1, SendTypes
    <3>2. CASE UNCHANGED <<events, index, pending, peer>>
      BY <3>2
    <3> QED
      BY <2>1, <3>1, <3>2
  <2> QED
    BY <2>2, <2>3
<1>12. CASE HandleError
  BY <1>12 DEF HandleError, ErrorFetched
<1> QED
  BY <1>1, <1>2, <1>3, <1>4, <1>5, <1>6, <1>7, <1>8, <1>9, <1>10, <1>11, <1>12 DEF Handlers

LEMMA ControlNext ==
    ASSUME Control, [Next]_vars
    PROVE  Control'
<1> USE TcpConnectionAssumption
    DEF Control, UpdateChannel, IndexAfter, conn, loop, queues,
        program, threads, socket, ghosts
<1>1. CASE NewConnection
  <2>1. Append(pending, "connectEstablished") \in Seq(Ops)
    BY AppendOp DEF Strong
  <2>2. /\ state' \in {"kConnected", "kConnecting"} /\ pending' \in Seq(Ops)
        /\ events' \in {events, {"read"}} /\ index' \in {"kNew", "kAdded", "kDeleted"}
    BY <1>1, <2>1 DEF NewConnection, Established
  <2>3. UNCHANGED <<phase, revents, batch, next, basePending, hold, tpc, peer, sends,
                    arrived, fault>>
    BY <1>1 DEF NewConnection
  <2> QED
    BY <2>2, <2>3
<1>2. CASE BaseLoopRuns
  BY <1>2, RemoveTypes DEF BaseLoopRuns
<1>3. ASSUME NEW unready, Poll(unready)
      PROVE  Control'
  BY <1>3 DEF Poll, Ready
<1>4. CASE Handlers
  BY <1>4, ControlHandlers
<1>5. CASE InCallback
  <2>1. CASE LoopShutdown
    BY <2>1 DEF LoopShutdown, ShutdownInLoop
  <2>2. ASSUME NEW n \in 0 .. 2, LoopSend(n)
        PROVE  Control'
    <3>1. /\ SendInLoop(NextMessage, n) /\ sends' \in 0 .. MaxSends
          /\ UNCHANGED <<state, phase, revents, batch, next, basePending, hold, tpc,
                         arrived, fault>>
      BY <2>2, MaySendBound DEF LoopSend
    <3> QED
      BY <3>1, SendTypes
  <2>3. ASSUME NEW t \in Threads, Share(t)
        PROVE  Control'
    BY <2>3 DEF Share
  <2> QED
    BY <1>5, <2>1, <2>2, <2>3 DEF InCallback
<1>6. ASSUME NEW t \in Threads, ThreadGoesOn(t) \/ ThreadCalls(t)
      PROVE  Control'
  <2>1. /\ Append(pending, "sendInLoop") \in Seq(Ops)
        /\ Append(pending, "shutdownInLoop") \in Seq(Ops)
    BY AppendOp
  <2>2. \A pc \in {"out", "send", "shutdown", "shutdownSet"} :
          [tpc EXCEPT ![t] = pc] \in [Threads -> {"out", "send", "shutdown", "shutdownSet"}]
    OBVIOUS
  <2>3. CASE CallSendQueues(t)
    BY <2>1, <2>2, <2>3 DEF CallSendQueues, At
  <2>4. CASE CallShutdownSets(t)
    BY <2>2, <2>4 DEF CallShutdownSets, At
  <2>5. CASE CallShutdownQueues(t)
    BY <2>1, <2>2, <2>5 DEF CallShutdownQueues, At
  <2>6. CASE CallSend(t)
    BY <2>2, <2>6, MaySendBound DEF CallSend, At
  <2>7. CASE CallShutdown(t)
    BY <2>2, <2>7 DEF CallShutdown, At
  <2>8. CASE Drop(t)
    BY <2>2, <2>8 DEF Drop, At
  <2> QED
    BY <1>6, <2>3, <2>4, <2>5, <2>6, <2>7, <2>8 DEF ThreadGoesOn, ThreadCalls
<1>7. CASE PeerSends
  BY <1>7 DEF PeerSends
<1>8. CASE PeerCloses
  BY <1>8 DEF PeerCloses
<1>9. CASE UNCHANGED vars
  BY <1>9 DEF vars
<1> QED
  BY <1>1, <1>2, <1>3, <1>4, <1>5, <1>6, <1>7, <1>8, <1>9 DEF Next

LEMMA FlagsNext ==
    ASSUME Flags, [Next]_vars
    PROVE  Flags'
<1> USE DEF Flags, conn, loop, queues, program, threads, socket, ghosts
<1>1. CASE Handlers
  <2>1. CASE HandleHup
    BY <2>1 DEF HandleHup, HandleClose, RemoveConnectionInLoop
  <2>2. CASE HandleRead
    BY <2>2 DEF HandleRead, HandleClose, RemoveConnectionInLoop
  <2>3. CASE SwapFunctors
    BY <2>3 DEF SwapFunctors
  <2>4. CASE RunConnectEstablished
    BY <2>4 DEF RunConnectEstablished, Established
  <2>5. CASE RunConnectDestroyed
    BY <2>5 DEF RunConnectDestroyed
  <2>6. CASE RunWriteComplete
    BY <2>6 DEF RunWriteComplete
  <2>7. CASE RunShutdown
    BY <2>7 DEF RunShutdown, ShutdownInLoop
  <2>8. CASE EndFunctors
    BY <2>8 DEF EndFunctors
  <2>9. CASE CallbackReturns
    BY <2>9 DEF CallbackReturns
  <2>10. ASSUME NEW n, HandleWrite(n)
         PROVE  Flags'
    BY <2>10 DEF HandleWrite, ShutdownGoesOn, ShutdownInLoop
  <2>11. ASSUME NEW n, RunSend(n)
         PROVE  Flags'
    BY <2>11 DEF RunSend, SendInLoop
  <2>12. CASE HandleError
    BY <2>12 DEF HandleError
  <2> QED
    BY <1>1, <2>1, <2>2, <2>3, <2>4, <2>5, <2>6, <2>7, <2>8, <2>9, <2>10, <2>11, <2>12 DEF Handlers
<1>2. CASE InCallback
  <2>1. CASE LoopShutdown
    BY <2>1 DEF LoopShutdown, ShutdownInLoop
  <2>2. ASSUME NEW n, LoopSend(n)
        PROVE  Flags'
    BY <2>2 DEF LoopSend, SendInLoop
  <2>3. ASSUME NEW t, Share(t)
        PROVE  Flags'
    BY <2>3 DEF Share
  <2> QED
    BY <1>2, <2>1, <2>2, <2>3 DEF InCallback
<1>3. CASE NewConnection
  BY <1>3 DEF NewConnection, Established
<1>4. CASE BaseLoopRuns
  BY <1>4 DEF BaseLoopRuns, RemoveConnectionInLoop
<1>5. ASSUME NEW unready, Poll(unready)
      PROVE  Flags'
  BY <1>5 DEF Poll
<1>6. ASSUME NEW t, ThreadGoesOn(t) \/ ThreadCalls(t)
      PROVE  Flags'
  <2>1. CASE Drop(t)
    BY <2>1 DEF Drop, At
  <2>2. CASE ~Drop(t)
    BY <1>6, <2>2 DEF ThreadGoesOn, ThreadCalls, CallSendQueues, CallShutdownSets,
                CallShutdownQueues, CallSend, CallShutdown, At
  <2> QED
    BY <2>1, <2>2
<1>7. CASE PeerSends \/ PeerCloses
  BY <1>7 DEF PeerSends, PeerCloses
<1>8. CASE UNCHANGED vars
  BY <1>8 DEF vars
<1> QED
  BY <1>1, <1>2, <1>3, <1>4, <1>5, <1>6, <1>7, <1>8 DEF Next

LEMMA LeftFinite ==
    ASSUME NEW q \in Seq(Ops), NEW n \in Nat
    PROVE  IsFiniteSet(Left(q, n)) /\ Count(q, n) \in Nat
<1>1. IsFiniteSet(n .. Len(q)) /\ Left(q, n) \subseteq n .. Len(q)
  BY FS_Interval DEF Left
<1> QED
  BY <1>1, FS_Subset, FS_CardinalityType DEF Count

LEMMA CountEmpty == \A n \in Nat : n > 0 => Count(<< >>, n) = 0
<1>1. \A n \in Nat : n > 0 => Left(<< >>, n) = {}
  BY DEF Left
<1> QED
  BY <1>1, FS_EmptySet DEF Count

LEMMA CountAppend ==
    ASSUME NEW q \in Seq(Ops), NEW op \in Ops
    PROVE  /\ op # "sendInLoop" => Count(Append(q, op), 1) = Count(q, 1)
           /\ op = "sendInLoop" => Count(Append(q, op), 1) = Count(q, 1) + 1
<1>1. CASE op # "sendInLoop"
  <2>1. Left(Append(q, op), 1) = Left(q, 1)
    BY <1>1 DEF Left
  <2> QED
    BY <1>1, <2>1 DEF Count
<1>2. CASE op = "sendInLoop"
  <2>1. Left(Append(q, op), 1) = Left(q, 1) \cup {Len(q) + 1}
    BY <1>2 DEF Left
  <2>2. Len(q) + 1 \notin Left(q, 1)
    BY DEF Left
  <2> QED
    BY <1>2, <2>1, <2>2, LeftFinite, FS_AddElement DEF Count
<1> QED
  BY <1>1, <1>2

LEMMA CountNext ==
    ASSUME NEW q \in Seq(Ops), NEW n \in 1 .. Len(q)
    PROVE  /\ q[n] # "sendInLoop" => Count(q, n + 1) = Count(q, n)
           /\ q[n] = "sendInLoop" => Count(q, n) = Count(q, n + 1) + 1
<1>1. CASE q[n] # "sendInLoop"
  <2>1. Left(q, n + 1) = Left(q, n)
    BY <1>1 DEF Left
  <2> QED
    BY <1>1, <2>1 DEF Count
<1>2. CASE q[n] = "sendInLoop"
  <2>1. Left(q, n) = Left(q, n + 1) \cup {n}
    BY <1>2 DEF Left
  <2>2. n \notin Left(q, n + 1)
    BY DEF Left
  <2>3. n + 1 \in Nat
    OBVIOUS
  <2> QED
    BY <1>2, <2>1, <2>2, <2>3, LeftFinite, FS_AddElement DEF Count
<1> QED
  BY <1>1, <1>2

\* A step of the loops that gives nothing to sendInLoop().
Quiet ==
    /\ UNCHANGED <<sent, sends, batch>>
    /\ next' = next \/ (next' = next + 1 /\ next <= Len(batch))
    /\ pending' = pending \/ \E op \in Ops \ {"sendInLoop"} : pending' = Append(pending, op)

LEMMA QuietCounted ==
    ASSUME Control, Counted, Quiet, Sending' = Sending
    PROVE  Counted'
<1>1. PICK m \in 0 .. MaxSends :
        /\ Len(sent) = 2 * m
        /\ m + Count(pending, 1) + Count(batch, next) + Cardinality(Sending) <= sends
  BY DEF Counted
<1>2. Count(pending', 1) = Count(pending, 1)
  <2>1. pending \in Seq(Ops)
    BY DEF Control
  <2>2. CASE pending' = pending
    BY <2>2
  <2>3. ASSUME NEW op \in Ops \ {"sendInLoop"}, pending' = Append(pending, op)
        PROVE  Count(pending', 1) = Count(pending, 1)
    BY <2>1, <2>3, CountAppend
  <2> QED
    BY <2>2, <2>3 DEF Quiet
<1>3. Count(batch', next') <= Count(batch, next)
  <2>1. Count(batch, next) \in Nat /\ Count(batch, next + 1) \in Nat
    <3>1. batch \in Seq(Ops) /\ next \in Nat /\ next + 1 \in Nat
      BY DEF Control
    <3> QED
      BY <3>1, LeftFinite
  <2>2. CASE next' = next
    BY <2>1, <2>2 DEF Quiet
  <2>3. CASE next' = next + 1 /\ next <= Len(batch)
    <3>1. next \in 1 .. Len(batch) /\ batch \in Seq(Ops)
      BY <2>3 DEF Control
    <3> QED
      BY <2>1, <2>3, <3>1, CountNext DEF Quiet
  <2> QED
    BY <2>2, <2>3 DEF Quiet
<1>4. /\ Count(pending, 1) \in Nat /\ Count(batch, next) \in Nat
      /\ Count(batch', next') \in Nat /\ Cardinality(Sending) \in Nat
  <2>1. next' \in Nat /\ batch' \in Seq(Ops)
    BY DEF Control, Quiet
  <2> QED
    BY <2>1, LeftFinite, FS_CardinalityType DEF Control, Counted
<1>5. sent' = sent /\ sends' = sends /\ sends \in Nat
  BY DEF Quiet, Control
<1>6. m + Count(pending', 1) + Count(batch', next') + Cardinality(Sending') <= sends'
  BY <1>1, <1>2, <1>3, <1>4, <1>5
<1> QED
  BY <1>1, <1>5, <1>6 DEF Counted

\* Concatenation and the two parts of a sequence, as operators that the
\* provers take as they are.
Cat(s, t) == s \o t
Before(q, n) == SubSeq(q, 1, n)
After(q, n) == SubSeq(q, n + 1, Len(q))

LEMMA CatFacts ==
    ASSUME NEW S, NEW s \in Seq(S), NEW t \in Seq(S), NEW u \in Seq(S)
    PROVE  /\ Cat(s, t) \in Seq(S) /\ Len(Cat(s, t)) = Len(s) + Len(t)
           /\ Cat(s, << >>) = s /\ Cat(<< >>, s) = s
           /\ Cat(Cat(s, t), u) = Cat(s, Cat(t, u))
<1>1. s \o t \in Seq(S) /\ Len(s \o t) = Len(s) + Len(t)
  OBVIOUS
<1>2. s \o << >> = s /\ << >> \o s = s
  BY ConcatEmptySeq
<1>3. (s \o t) \o u = s \o (t \o u)
  BY ConcatAssociative
<1> QED
  BY <1>1, <1>2, <1>3 DEF Cat

LEMMA Split ==
    ASSUME NEW S, NEW q \in Seq(S), NEW n \in 0 .. Len(q)
    PROVE  /\ Before(q, n) \in Seq(S) /\ After(q, n) \in Seq(S)
           /\ Cat(Before(q, n), After(q, n)) = q
           /\ (n = 0 => Before(q, n) = << >>) /\ (n = Len(q) => After(q, n) = << >>)
<1>1. 1 \in 1 .. Len(q) + 1 /\ n \in (1 - 1) .. Len(q) /\ Len(q) \in n .. Len(q)
  OBVIOUS
<1>2. SubSeq(q, 1, n) \o SubSeq(q, n + 1, Len(q)) = SubSeq(q, 1, Len(q))
  BY <1>1, ConcatAdjacentSubSeq
<1>3. SubSeq(q, 1, Len(q)) = q
  BY SubSeqFull
<1>4. SubSeq(q, 1, n) \in Seq(S)
  <2>1. 1 \in Int /\ n \in Int /\ \A i \in 1 .. n : q[i] \in S
    OBVIOUS
  <2> QED
    BY <2>1, SubSeqProperties, Zenon
<1>5. SubSeq(q, n + 1, Len(q)) \in Seq(S)
  <2>1. n + 1 \in Int /\ Len(q) \in Int /\ \A i \in n + 1 .. Len(q) : q[i] \in S
    OBVIOUS
  <2> QED
    BY <2>1, SubSeqProperties, Zenon
<1>6. (n = 0 => SubSeq(q, 1, n) = << >>) /\ (n = Len(q) => SubSeq(q, n + 1, Len(q)) = << >>)
  BY SubSeqEmpty
<1> QED
  BY <1>2, <1>3, <1>4, <1>5, <1>6, Zenon DEF Cat, Before, After

\* sendInLoop() writes or keeps each piece, in order.
LEMMA SendStream ==
    ASSUME Stream, NEW k \in 1 .. MaxSends, NEW n, SendInLoop(Message(k), n)
    PROVE  Stream' /\ Len(sent') = Len(sent) + 2
<1>1. PICK q : q = Message(k)
  OBVIOUS
<1>2. PICK S : S = 1 .. MaxSends
  OBVIOUS
<1>3. /\ wire \in Seq(S) /\ outputBuffer \in Seq(S) /\ sent \in Seq(S)
      /\ Cat(wire, outputBuffer) = sent
  BY <1>2 DEF Stream, Cat
<1>4. q \in Seq(S) /\ Len(q) = 2
  BY <1>1, <1>2 DEF Message
<1>5. SendInLoop(q, n)
  BY <1>1
<1>6. n \in 0 .. Len(q) /\ (n # 0 => outputBuffer = << >>)
  BY <1>4, <1>5 DEF SendInLoop, WriteDirectly
<1>7. PICK a, b : a = Before(q, n) /\ b = After(q, n)
  OBVIOUS
<1>8. /\ a \in Seq(S) /\ b \in Seq(S) /\ Cat(a, b) = q
      /\ (n = 0 => a = << >>) /\ (n = Len(q) => b = << >>)
  BY <1>4, <1>6, <1>7, Split
<1>9. \A x, y, z \in Seq(S) : /\ Cat(x, y) \in Seq(S) /\ Cat(x, << >>) = x /\ Cat(<< >>, x) = x
                               /\ Cat(Cat(x, y), z) = Cat(x, Cat(y, z))
                               /\ Len(Cat(x, y)) = Len(x) + Len(y)
  BY CatFacts
<1>10. sent' = Cat(sent, q) /\ wire' = Cat(wire, a)
  BY <1>5, <1>7 DEF SendInLoop, Cat, Before
<1>11. outputBuffer' = Cat(outputBuffer, b)
  <2>1. outputBuffer' = IF n < Len(q) THEN Cat(outputBuffer, b) ELSE outputBuffer
    BY <1>5, <1>7 DEF SendInLoop, Cat, After
  <2>2. n < Len(q) \/ n = Len(q)
    BY <1>4, <1>6
  <2>3. CASE n = Len(q)
    <3>1. ~(n < Len(q))
      BY <1>4, <2>3
    <3>2. Cat(outputBuffer, b) = outputBuffer
      BY <1>3, <1>8, <1>9, <2>3, Zenon
    <3> QED
      BY <2>1, <3>1, <3>2, Zenon
  <2> QED
    BY <2>1, <2>2, <2>3
<1>12. Cat(Cat(wire, a), Cat(outputBuffer, b)) = Cat(sent, q)
  <2>1. CASE n = 0
    BY <1>3, <1>4, <1>8, <1>9, <2>1
  <2>2. CASE n # 0
    BY <1>3, <1>6, <1>8, <1>9, <2>2
  <2> QED
    BY <2>1, <2>2
<1>13. wire' \in Seq(S) /\ outputBuffer' \in Seq(S) /\ Cat(wire', outputBuffer') = sent'
  BY <1>3, <1>8, <1>9, <1>10, <1>11, <1>12
<1>14. sent' \in Seq(S) /\ Len(sent') = Len(sent) + 2
  <2>1. Cat(sent, q) \in Seq(S) /\ Len(Cat(sent, q)) = Len(sent) + Len(q)
    BY <1>3, <1>4, <1>9, Zenon
  <2> QED
    BY <1>4, <1>10, <2>1
<1> QED
  BY <1>2, <1>13, <1>14 DEF Stream, Cat

\* handleWrite() moves the front of the buffer to the wire.
LEMMA WriteStream ==
    ASSUME Stream, NEW n, HandleWrite(n)
    PROVE  Stream'
<1> DEFINE S == 1 .. MaxSends
<1>1. /\ wire \in Seq(S) /\ outputBuffer \in Seq(S) /\ Cat(wire, outputBuffer) = sent
  BY DEF Stream, Cat
<1>2. sent' = sent
  BY DEF HandleWrite, ghosts
<1>3. CASE UNCHANGED <<wire, outputBuffer>>
  BY <1>2, <1>3 DEF Stream
<1>4. CASE /\ n \in 1 .. Len(outputBuffer)
           /\ wire' = wire \o SubSeq(outputBuffer, 1, n)
           /\ outputBuffer' = SubSeq(outputBuffer, n + 1, Len(outputBuffer))
  <2>1. n \in 0 .. Len(outputBuffer)
    BY <1>1, <1>4
  <2>2. wire' = Cat(wire, Before(outputBuffer, n)) /\ outputBuffer' = After(outputBuffer, n)
    BY <1>4 DEF Cat, Before, After
  <2> HIDE DEF S
  <2>3. /\ Before(outputBuffer, n) \in Seq(S) /\ outputBuffer' \in Seq(S)
        /\ Cat(Before(outputBuffer, n), After(outputBuffer, n)) = outputBuffer
    BY <1>1, <2>1, <2>2, Split
  <2>4. wire' \in Seq(S) /\ Cat(wire', outputBuffer') = sent
    BY <1>1, <2>2, <2>3, CatFacts
  <2> QED
    BY <1>1, <1>2, <2>3, <2>4 DEF Stream, S, Cat
<1> QED
  BY <1>3, <1>4 DEF HandleWrite

LEMMA CountTypes ==
    ASSUME Control, Counted
    PROVE  /\ Count(pending, 1) \in Nat /\ Count(batch, next) \in Nat
           /\ Cardinality(Sending) \in Nat /\ sends \in Nat
<1>1. pending \in Seq(Ops) /\ batch \in Seq(Ops) /\ next \in Nat /\ sends \in Nat
  BY TcpConnectionAssumption DEF Control
<1> QED
  BY <1>1, LeftFinite, FS_CardinalityType DEF Counted

\* A call of sendInLoop() by send() in the loop thread, or by its functor.
LEMMA SendCounted ==
    ASSUME Control, Counted, Stream, NEW n, SendInLoop(NextMessage, n),
           UNCHANGED <<batch, tpc>>,
           \/ sends' = sends + 1 /\ sends < MaxSends /\ next' = next
           \/ sends' = sends /\ next' = next + 1 /\ next <= Len(batch) /\ batch[next] = "sendInLoop"
    PROVE  Counted' /\ Stream'
<1>1. PICK m \in 0 .. MaxSends :
        /\ Len(sent) = 2 * m
        /\ m + Count(pending, 1) + Count(batch, next) + Cardinality(Sending) <= sends
  BY DEF Counted
<1>2. /\ Count(pending, 1) \in Nat /\ Count(batch, next) \in Nat
      /\ Cardinality(Sending) \in Nat /\ sends \in 0 .. MaxSends
  BY CountTypes DEF Control
<1>3. Count(pending', 1) = Count(pending, 1)
  <2>1. pending \in Seq(Ops) /\ "writeComplete" \in Ops
    BY DEF Control, Ops, Strong
  <2>2. pending' = pending \/ pending' = Append(pending, "writeComplete")
    BY WriteCompleteAdds DEF SendInLoop
  <2> QED
    BY <2>1, <2>2, CountAppend
<1>4. Sending' = Sending
  BY DEF Sending
<1>5. /\ Count(batch', next') \in Nat
      /\ \/ sends' = sends + 1 /\ sends < MaxSends /\ Count(batch', next') = Count(batch, next)
         \/ sends' = sends /\ Count(batch, next) = Count(batch', next') + 1
  <2>1. CASE next' = next
    BY <1>2, <2>1 DEF Control
  <2>2. CASE next' = next + 1 /\ next <= Len(batch) /\ batch[next] = "sendInLoop" /\ sends' = sends
    <3>1. next \in 1 .. Len(batch) /\ batch \in Seq(Ops) /\ next + 1 \in Nat
      BY <2>2 DEF Control
    <3> QED
      BY <2>2, <3>1, CountNext, LeftFinite
  <2> QED
    BY <2>1, <2>2
<1>6. m + 1 <= MaxSends
  BY <1>1, <1>2, <1>5, TcpConnectionAssumption
<1>7. NextMessage = Message(m + 1) /\ m + 1 \in 1 .. MaxSends
  <2>1. Len(sent) \div 2 = m
    BY <1>1
  <2> QED
    BY <1>1, <1>6, <2>1, TcpConnectionAssumption DEF NextMessage
<1>8. Stream' /\ Len(sent') = Len(sent) + 2
  BY <1>7, SendStream
<1>9. Len(sent') = 2 * (m + 1)
  BY <1>1, <1>8
<1>10. (m + 1) + Count(pending', 1) + Count(batch', next') + Cardinality(Sending') <= sends'
  BY <1>1, <1>2, <1>3, <1>4, <1>5
<1>11. m + 1 \in 0 .. MaxSends
  BY <1>7
<1>12. IsFiniteSet(Sending')
  BY <1>4 DEF Counted
<1> QED
  BY <1>8, <1>9, <1>10, <1>11, <1>12 DEF Counted

LEMMA QuietStream ==
    ASSUME Control, Counted, Stream, Quiet, Sending' = Sending, UNCHANGED <<wire, outputBuffer>>
    PROVE  Counted' /\ Stream'
<1>1. Counted'
  BY QuietCounted
<1>2. Stream'
  BY DEF Stream, Quiet
<1> QED
  BY <1>1, <1>2

LEMMA StreamHandlers ==
    ASSUME Control, Counted, Stream, Handlers
    PROVE  Counted' /\ Stream'
<1> USE DEF conn, loop, queues, program, threads, socket, ghosts
<1>1. ASSUME tpc' = tpc
      PROVE  Sending' = Sending
  BY <1>1 DEF Sending
<1>2. Strong \subseteq Ops \ {"sendInLoop"}
  BY DEF Ops, Strong
<1>3. ASSUME HandleClose \/ UNCHANGED queues
      PROVE  pending' = pending \/ pending' = Append(pending, "connectDestroyed")
  BY <1>3 DEF HandleClose, RemoveConnectionInLoop
<1>4. CASE HandleHup
  <2>1. HandleClose \/ UNCHANGED queues
    BY <1>4 DEF HandleHup
  <2>2. Quiet /\ tpc' = tpc /\ UNCHANGED <<wire, outputBuffer>>
    BY <1>2, <1>3, <1>4, <2>1 DEF HandleHup, Quiet, Strong
  <2> QED
    BY <1>1, <2>2, QuietStream
<1>5. CASE HandleRead
  <2>1. HandleClose \/ UNCHANGED queues
    BY <1>5 DEF HandleRead
  <2>2. Quiet /\ tpc' = tpc /\ UNCHANGED <<wire, outputBuffer>>
    BY <1>2, <1>3, <1>5, <2>1 DEF HandleRead, Quiet, Strong
  <2> QED
    BY <1>1, <2>2, QuietStream
<1>6. CASE SwapFunctors
  <2>1. PICK m \in 0 .. MaxSends :
          /\ Len(sent) = 2 * m
          /\ m + Count(pending, 1) + Count(batch, next) + Cardinality(Sending) <= sends
    BY DEF Counted
  <2>2. pending' = << >> /\ batch' = pending /\ next' = 1
    BY <1>6 DEF SwapFunctors
  <2>3. Count(pending', 1) = 0 /\ Count(batch', next') = Count(pending, 1)
    BY <2>2, CountEmpty
  <2>4. Sending' = Sending /\ UNCHANGED <<sent, sends, wire, outputBuffer>>
    BY <1>1, <1>6 DEF SwapFunctors
  <2>5. m + Count(pending', 1) + Count(batch', next') + Cardinality(Sending') <= sends'
    BY <2>1, <2>3, <2>4, CountTypes
  <2> QED
    BY <2>1, <2>4, <2>5 DEF Counted, Stream
<1>7. CASE RunConnectEstablished \/ RunConnectDestroyed \/ RunWriteComplete \/ RunShutdown
  <2>1. Quiet /\ tpc' = tpc /\ UNCHANGED <<wire, outputBuffer>>
    BY <1>7 DEF RunConnectEstablished, RunConnectDestroyed, RunWriteComplete, RunShutdown,
                Runs, Quiet
  <2> QED
    BY <1>1, <2>1, QuietStream
<1>8. CASE EndFunctors
  <2>1. PICK m \in 0 .. MaxSends :
          /\ Len(sent) = 2 * m
          /\ m + Count(pending, 1) + Count(batch, next) + Cardinality(Sending) <= sends
    BY DEF Counted
  <2>2. pending' = pending /\ batch' = << >> /\ next' = 1
    BY <1>8 DEF EndFunctors
  <2>3. Count(pending', 1) = Count(pending, 1) /\ Count(batch', next') = 0
    BY <2>2, CountEmpty
  <2>4. Sending' = Sending /\ UNCHANGED <<sent, sends, wire, outputBuffer>>
    BY <1>1, <1>8 DEF EndFunctors
  <2>5. m + Count(pending', 1) + Count(batch', next') + Cardinality(Sending') <= sends'
    BY <2>1, <2>3, <2>4, CountTypes
  <2> QED
    BY <2>1, <2>4, <2>5 DEF Counted, Stream
<1>9. CASE CallbackReturns
  <2>1. Quiet /\ tpc' = tpc /\ UNCHANGED <<wire, outputBuffer>>
    BY <1>9 DEF CallbackReturns, Quiet
  <2> QED
    BY <1>1, <2>1, QuietStream
<1>10. ASSUME NEW n \in 0 .. Len(outputBuffer), HandleWrite(n)
       PROVE  Counted' /\ Stream'
  <2>1. pending' = pending \/ pending' = Append(pending, "writeComplete")
    BY <1>10, WriteCompleteAdds DEF HandleWrite
  <2>2. Quiet /\ tpc' = tpc
    BY <1>2, <1>10, <2>1 DEF HandleWrite, Quiet, Strong
  <2> QED
    BY <1>1, <1>10, <2>2, QuietCounted, WriteStream
<1>11. ASSUME NEW n \in 0 .. 2, RunSend(n)
       PROVE  Counted' /\ Stream'
  <2>1. /\ sends' = sends /\ next' = next + 1 /\ next <= Len(batch) /\ batch[next] = "sendInLoop"
        /\ UNCHANGED <<batch, tpc>>
    BY <1>11 DEF RunSend, Runs
  <2>2. CASE Alive
    <3>1. SendInLoop(NextMessage, n)
      BY <1>11, <2>2 DEF RunSend
    <3> QED
      BY <2>1, <3>1, SendCounted
  <2>3. CASE ~Alive
    <3>1. Quiet /\ UNCHANGED <<wire, outputBuffer>>
      BY <1>11, <2>1, <2>3 DEF RunSend, Quiet
    <3> QED
      BY <1>1, <2>1, <3>1, QuietStream
  <2> QED
    BY <2>2, <2>3
<1>12. CASE HandleError
  <2>1. Quiet /\ tpc' = tpc /\ UNCHANGED <<wire, outputBuffer>>
    BY <1>12 DEF HandleError, Quiet
  <2> QED
    BY <1>1, <2>1, QuietStream
<1> QED
  BY <1>4, <1>5, <1>6, <1>7, <1>8, <1>9, <1>10, <1>11, <1>12 DEF Handlers

LEMMA StreamInit == Init => StreamInv
<1> SUFFICES ASSUME Init PROVE StreamInv
  OBVIOUS
<1>1. Control
  BY ControlInit
<1>2. Flags
  BY DEF Init, Flags
<1>3. Sending = {} /\ pending = << >> /\ batch = << >> /\ next = 1 /\ sent = << >> /\ sends = 0
  BY DEF Init, Sending
<1>4. Count(pending, 1) = 0 /\ Count(batch, next) = 0 /\ Cardinality(Sending) = 0 /\ IsFiniteSet(Sending)
  BY <1>3, CountEmpty, FS_EmptySet
<1>5. Counted
  <2>1. 0 \in 0 .. MaxSends /\ Len(sent) = 2 * 0
    BY <1>3, TcpConnectionAssumption
  <2> QED
    BY <1>3, <1>4, <2>1 DEF Counted
<1>6. Stream
  BY DEF Init, Stream
<1> QED
  BY <1>1, <1>2, <1>5, <1>6 DEF StreamInv

LEMMA StreamNext ==
    ASSUME StreamInv, [Next]_vars
    PROVE  StreamInv'
<1> USE DEF conn, loop, queues, program, threads, socket, ghosts
<1>1. Control /\ Flags /\ Counted /\ Stream
  BY DEF StreamInv
<1>2. Control' /\ Flags'
  BY <1>1, ControlNext, FlagsNext
<1>3. ASSUME tpc' = tpc
      PROVE  Sending' = Sending
  BY <1>3 DEF Sending
<1>4. Strong \cup {"shutdownInLoop"} \subseteq Ops \ {"sendInLoop"}
  BY DEF Ops, Strong
<1>5. CASE NewConnection
  <2>1. Quiet /\ tpc' = tpc /\ UNCHANGED <<wire, outputBuffer>>
    BY <1>4, <1>5 DEF NewConnection, Quiet, Strong
  <2> QED
    BY <1>1, <1>2, <1>3, <2>1, QuietStream DEF StreamInv
<1>6. CASE BaseLoopRuns
  <2>1. Quiet /\ tpc' = tpc /\ UNCHANGED <<wire, outputBuffer>>
    BY <1>4, <1>6 DEF BaseLoopRuns, RemoveConnectionInLoop, Quiet, Strong
  <2> QED
    BY <1>1, <1>2, <1>3, <2>1, QuietStream DEF StreamInv
<1>7. ASSUME NEW unready, Poll(unready)
      PROVE  StreamInv'
  <2>1. Quiet /\ tpc' = tpc /\ UNCHANGED <<wire, outputBuffer>>
    BY <1>7 DEF Poll, Quiet
  <2> QED
    BY <1>1, <1>2, <1>3, <2>1, QuietStream DEF StreamInv
<1>8. CASE Handlers
  BY <1>1, <1>2, <1>8, StreamHandlers DEF StreamInv
<1>9. CASE LoopShutdown \/ PeerSends \/ PeerCloses \/ \E t \in Threads : Share(t)
  <2>1. Quiet /\ tpc' = tpc /\ UNCHANGED <<wire, outputBuffer>>
    BY <1>9 DEF LoopShutdown, PeerSends, PeerCloses, Share, Quiet
  <2> QED
    BY <1>1, <1>2, <1>3, <2>1, QuietStream DEF StreamInv
<1>10. ASSUME NEW n \in 0 .. 2, LoopSend(n)
       PROVE  StreamInv'
  <2>1. /\ sends' = sends + 1 /\ sends < MaxSends /\ SendInLoop(NextMessage, n)
        /\ UNCHANGED <<batch, next, tpc>>
    BY <1>1, <1>10, MaySendBound DEF LoopSend
  <2>2. Counted' /\ Stream'
    BY <1>1, <2>1, SendCounted
  <2> QED
    BY <1>2, <2>2 DEF StreamInv
<1>11. ASSUME NEW t \in Threads, CallSend(t)
       PROVE  StreamInv'
  <2>1. /\ tpc[t] = "out" /\ tpc' = [tpc EXCEPT ![t] = "send"] /\ sends' = sends + 1
        /\ UNCHANGED <<pending, batch, next, sent, wire, outputBuffer>>
    BY <1>11 DEF CallSend, At
  <2>2. Sending' = Sending \cup {t} /\ t \notin Sending
    BY <1>1, <2>1 DEF Sending, Control
  <2>3. IsFiniteSet(Sending') /\ Cardinality(Sending') = Cardinality(Sending) + 1
    BY <1>1, <2>2, FS_AddElement DEF Counted
  <2>4. PICK m \in 0 .. MaxSends :
          /\ Len(sent) = 2 * m
          /\ m + Count(pending, 1) + Count(batch, next) + Cardinality(Sending) <= sends
    BY <1>1 DEF Counted
  <2>5. m + Count(pending', 1) + Count(batch', next') + Cardinality(Sending') <= sends'
    BY <1>1, <2>1, <2>3, <2>4, CountTypes
  <2>6. Counted'
    BY <2>1, <2>3, <2>4, <2>5 DEF Counted
  <2>7. Stream'
    BY <1>1, <2>1 DEF Stream
  <2> QED
    BY <1>2, <2>6, <2>7 DEF StreamInv
<1>12. ASSUME NEW t \in Threads, CallSendQueues(t)
       PROVE  StreamInv'
  <2>1. /\ tpc[t] = "send" /\ tpc' = [tpc EXCEPT ![t] = "out"]
        /\ pending' = Append(pending, "sendInLoop")
        /\ UNCHANGED <<batch, next, sent, sends, wire, outputBuffer>>
    BY <1>12 DEF CallSendQueues, At
  <2>2. Sending' = Sending \ {t} /\ t \in Sending
    BY <1>1, <2>1 DEF Sending, Control
  <2>3. IsFiniteSet(Sending') /\ Cardinality(Sending') = Cardinality(Sending) - 1
    BY <1>1, <2>2, FS_RemoveElement DEF Counted
  <2>4. PICK m \in 0 .. MaxSends :
          /\ Len(sent) = 2 * m
          /\ m + Count(pending, 1) + Count(batch, next) + Cardinality(Sending) <= sends
    BY <1>1 DEF Counted
  <2>5. Count(pending', 1) = Count(pending, 1) + 1
    <3>1. pending \in Seq(Ops) /\ "sendInLoop" \in Ops
      BY <1>1 DEF Control, Ops
    <3> QED
      BY <2>1, <3>1, CountAppend
  <2>6. m + Count(pending', 1) + Count(batch', next') + Cardinality(Sending') <= sends'
    BY <1>1, <2>1, <2>3, <2>4, <2>5, CountTypes
  <2>7. Counted'
    BY <2>1, <2>3, <2>4, <2>6 DEF Counted
  <2>8. Stream'
    BY <1>1, <2>1 DEF Stream
  <2> QED
    BY <1>2, <2>7, <2>8 DEF StreamInv
<1>13. ASSUME NEW t \in Threads,
              CallShutdown(t) \/ CallShutdownSets(t) \/ CallShutdownQueues(t) \/ Drop(t)
       PROVE  StreamInv'
  <2>1. Quiet /\ UNCHANGED <<wire, outputBuffer>>
    BY <1>4, <1>13 DEF CallShutdown, CallShutdownSets, CallShutdownQueues, Drop, At, Quiet
  <2>2. tpc[t] # "send" /\ \E pc \in {"out", "shutdown", "shutdownSet"} : tpc' = [tpc EXCEPT ![t] = pc]
    BY <1>13 DEF CallShutdown, CallShutdownSets, CallShutdownQueues, Drop, At
  <2>3. Sending' = Sending
    BY <1>1, <2>2 DEF Sending, Control
  <2> QED
    BY <1>1, <1>2, <2>1, <2>3, QuietStream DEF StreamInv
<1>14. CASE UNCHANGED vars
  <2>1. Quiet /\ tpc' = tpc /\ UNCHANGED <<wire, outputBuffer>>
    BY <1>14 DEF vars, Quiet
  <2> QED
    BY <1>1, <1>2, <1>3, <2>1, QuietStream DEF StreamInv
<1> QED
  BY <1>5, <1>6, <1>7, <1>8, <1>9, <1>10, <1>11, <1>12, <1>13, <1>14
  DEF Next, InCallback, ThreadGoesOn, ThreadCalls

\* The stream keeps its order and loses nothing, whatever the sizes of the
\* writes, for any number of threads that call send().
THEOREM ConnectionStreamInOrder == Spec => []StreamInOrder
<1>1. StreamInv => StreamInOrder
  <2> SUFFICES ASSUME StreamInv PROVE StreamInOrder
    OBVIOUS
  <2>1. Control /\ Flags /\ Stream
    BY DEF StreamInv
  <2>2. \A op \in Range(pending) \cup Range(batch) :
          op \in Strong \cup Weak
    BY <2>1 DEF Control, Ops, Range, Weak
  <2>3. \A op \in Range(basePending) : op = "removeConnectionInLoop"
    BY <2>1 DEF Control, Range
  <2>4. TypeOK
    BY <2>1, <2>2, <2>3, Zenon DEF TypeOK, Control, Flags, Stream
  <2> QED
    BY <2>1, <2>4 DEF StreamInOrder, Stream
<1> QED
  BY <1>1, StreamInit, StreamNext, PTL DEF Spec

-----------------------------------------------------------------------------
(* The second layer: before the connection is established, and what the    *)
(* end of the stream depends on.                                           *)

In(op, q) == \E i \in 1 .. Len(q) : q[i] = op
Rest(op, b, n) == \E i \in n .. Len(b) : b[i] = op

\* The functor is queued and has not run.
Waits(op) == In(op, pending) \/ Rest(op, batch, next)

Unused == {"kNone", "kConnecting"}

Early ==
    /\ phase # "functors" => batch = << >>
    /\ state \in Unused =>
         /\ events = {} /\ index = "kNew" /\ outputBuffer = << >> /\ revents = {}
         /\ ~callback /\ hold = {} /\ basePending = << >>
    /\ state = "kNone" => pending = << >> /\ batch = << >> /\ ~inMap
    /\ state = "kConnecting" =>
         /\ inMap /\ ~sameLoop
         /\ \/ pending = <<"connectEstablished">> /\ batch = << >>
            \/ pending = << >> /\ batch = <<"connectEstablished">> /\ next = 1
    /\ state \notin Unused => ~Waits("connectEstablished")

\* Output that waits while the channel is not writing, and everything that
\* leads to handleClose() and connectDestroyed(), means the peer has closed.
PeerClosed ==
    /\ outputBuffer # << >> /\ "write" \notin events => peer # "open"
    /\ "hup" \in revents => peer # "open"
    /\ "read" \in revents => data \/ peer # "open"
    /\ basePending # << >> => peer # "open"
    /\ Waits("connectDestroyed") => peer # "open"

LEMMA InAppend ==
    ASSUME NEW q \in Seq(Ops), NEW op, NEW x, In(op, Append(q, x))
    PROVE  In(op, q) \/ op = x
BY DEF In

\* A step of the loop adds at most one functor to its queue, of the kinds S.
Adds(S) ==
    /\ batch' = batch
    /\ next' = next \/ (next' = next + 1 /\ next <= Len(batch))
    /\ pending' = pending \/ \E op \in S : pending' = Append(pending, op)

LEMMA AddsWaits ==
    ASSUME Control, NEW S, Adds(S), NEW op, op \notin S, Waits(op)'
    PROVE  Waits(op)
<1>1. In(op, pending') \/ Rest(op, batch', next')
  BY DEF Waits
<1>2. CASE In(op, pending')
  <2>1. pending \in Seq(Ops)
    BY DEF Control
  <2>2. In(op, pending)
    BY <1>2, <2>1, InAppend DEF Adds
  <2> QED
    BY <2>2 DEF Waits
<1>3. CASE Rest(op, batch', next')
  <2>1. Rest(op, batch, next)
    BY <1>3 DEF Rest, Adds, Control
  <2> QED
    BY <2>1 DEF Waits
<1> QED
  BY <1>1, <1>2, <1>3

\* What each handler of the I/O loop may queue.
LEMMA HandlersAdd ==
    ASSUME Control, Handlers
    PROVE  \/ HandleHup /\ Adds({"connectDestroyed"})
           \/ HandleRead /\ Adds({"connectDestroyed"})
           \/ SwapFunctors \/ EndFunctors
           \/ Adds({"writeComplete"})
<1> USE DEF conn, loop, queues, program, threads, socket, ghosts
<1>1. ASSUME HandleClose \/ UNCHANGED queues
      PROVE  pending' = pending \/ pending' = Append(pending, "connectDestroyed")
  BY <1>1 DEF HandleClose, RemoveConnectionInLoop
<1>2. CASE HandleHup
  <2>1. HandleClose \/ UNCHANGED queues
    BY <1>2 DEF HandleHup
  <2> QED
    BY <1>1, <1>2, <2>1 DEF HandleHup, Adds
<1>3. CASE HandleRead
  <2>1. HandleClose \/ UNCHANGED queues
    BY <1>3 DEF HandleRead
  <2> QED
    BY <1>1, <1>3, <2>1 DEF HandleRead, Adds
<1>4. CASE RunConnectEstablished \/ RunConnectDestroyed \/ RunWriteComplete \/ RunShutdown
           \/ CallbackReturns \/ HandleError
  BY <1>4 DEF RunConnectEstablished, RunConnectDestroyed, RunWriteComplete, RunShutdown,
              CallbackReturns, HandleError, Runs, Adds
<1>5. ASSUME NEW n, HandleWrite(n)
      PROVE  Adds({"writeComplete"})
  BY <1>5, WriteCompleteAdds DEF HandleWrite, Adds
<1>6. ASSUME NEW n, RunSend(n)
      PROVE  Adds({"writeComplete"})
  <2>1. pending' = pending \/ pending' = Append(pending, "writeComplete")
    BY <1>6, WriteCompleteAdds DEF RunSend, SendInLoop
  <2> QED
    BY <1>6, <2>1 DEF RunSend, Runs, Adds
<1> QED
  BY <1>2, <1>3, <1>4, <1>5, <1>6 DEF Handlers

\* Only newConnection() queues connectEstablished(), and only the removal from
\* the map queues connectDestroyed().
LEMMA WaitsNext ==
    ASSUME Control, [Next]_vars
    PROVE  /\ Waits("connectEstablished")' => Waits("connectEstablished") \/ NewConnection
           /\ Waits("connectDestroyed")' => Waits("connectDestroyed") \/ BaseLoopRuns
                                                \/ HandleHup \/ HandleRead
<1> USE DEF conn, loop, queues, program, threads, socket, ghosts
<1> DEFINE Goal == /\ Waits("connectEstablished")' => Waits("connectEstablished") \/ NewConnection
                   /\ Waits("connectDestroyed")' => Waits("connectDestroyed") \/ BaseLoopRuns
                                                      \/ HandleHup \/ HandleRead
<1>1. ASSUME NEW S, Adds(S), "connectEstablished" \notin S, "connectDestroyed" \notin S
      PROVE  Goal
  BY <1>1, AddsWaits
<1>2. ASSUME Adds({"connectDestroyed"})
      PROVE  Waits("connectEstablished")' => Waits("connectEstablished")
  BY <1>2, AddsWaits
<1>3. CASE Handlers
  <2>1. CASE SwapFunctors \/ EndFunctors
    <3>1. \A op : Waits(op)' => Waits(op)
      <4>1. CASE SwapFunctors
        BY <4>1 DEF SwapFunctors, Waits, In, Rest
      <4>2. CASE EndFunctors
        BY <4>2 DEF EndFunctors, Waits, In, Rest
      <4> QED
        BY <2>1, <4>1, <4>2
    <3> QED
      BY <3>1
  <2> QED
    BY <1>1, <1>2, <1>3, <2>1, HandlersAdd
<1>4. CASE NewConnection
  <2>1. Adds({"connectEstablished"})
    BY <1>4 DEF NewConnection, Adds
  <2> QED
    BY <1>4, <2>1, AddsWaits
<1>5. CASE BaseLoopRuns
  <2>1. Adds({"connectDestroyed"})
    BY <1>5 DEF BaseLoopRuns, RemoveConnectionInLoop, Adds
  <2> QED
    BY <1>2, <1>5, <2>1
<1>6. ASSUME NEW unready, Poll(unready)
      PROVE  Goal
  <2>1. Adds({})
    BY <1>6 DEF Poll, Adds
  <2> QED
    BY <1>1, <2>1
<1>7. CASE LoopShutdown \/ PeerSends \/ PeerCloses \/ UNCHANGED vars \/ \E t \in Threads : Share(t)
  <2>1. Adds({})
    BY <1>7 DEF LoopShutdown, PeerSends, PeerCloses, Share, vars, Adds
  <2> QED
    BY <1>1, <2>1
<1>8. ASSUME NEW n, LoopSend(n)
      PROVE  Goal
  <2>1. Adds({"writeComplete"})
    BY <1>8, WriteCompleteAdds DEF LoopSend, SendInLoop, Adds
  <2> QED
    BY <1>1, <2>1
<1>9. ASSUME NEW t, ThreadGoesOn(t) \/ ThreadCalls(t)
      PROVE  Goal
  <2>1. Adds({"sendInLoop", "shutdownInLoop"})
    BY <1>9 DEF ThreadGoesOn, ThreadCalls, CallSendQueues, CallShutdownSets,
                CallShutdownQueues, CallSend, CallShutdown, Drop, At, Adds
  <2> QED
    BY <1>1, <2>1
<1> QED
  BY <1>3, <1>4, <1>5, <1>6, <1>7, <1>8, <1>9 DEF Next, InCallback

LEMMA BatchEmpty ==
    ASSUME phase # "functors" => batch = << >>, [Next]_vars
    PROVE  phase' # "functors" => batch' = << >>
<1> USE DEF conn, loop, queues, program, threads, socket, ghosts
<1>1. CASE Handlers
  BY <1>1 DEF Handlers, HandleHup, HandleError, HandleRead, SwapFunctors, RunConnectEstablished,
       RunConnectDestroyed, RunWriteComplete, RunShutdown, EndFunctors, CallbackReturns,
       HandleWrite, RunSend, Runs
<1>2. CASE NewConnection \/ BaseLoopRuns \/ Poll({}) \/ Poll({"write"})
  BY <1>2 DEF NewConnection, BaseLoopRuns, Poll
<1>3. CASE InCallback \/ PeerSends \/ PeerCloses \/ UNCHANGED vars
  BY <1>3 DEF InCallback, LoopShutdown, LoopSend, Share, PeerSends, PeerCloses, vars
<1>4. CASE \E t \in Threads : ThreadGoesOn(t) \/ ThreadCalls(t)
  BY <1>4 DEF ThreadGoesOn, ThreadCalls, CallSendQueues, CallShutdownSets,
              CallShutdownQueues, CallSend, CallShutdown, Drop, At
<1> QED
  BY <1>1, <1>2, <1>3, <1>4 DEF Next

LEMMA StateLate ==
    ASSUME state \notin Unused, [Next]_vars
    PROVE  state' \notin Unused
<1> USE DEF conn, loop, queues, program, threads, socket, ghosts, Unused
<1>1. CASE Handlers
  BY <1>1 DEF Handlers, HandleHup, HandleError, HandleRead, SwapFunctors, RunConnectEstablished, Established,
       RunConnectDestroyed, RunWriteComplete, RunShutdown, EndFunctors, CallbackReturns,
       HandleWrite, RunSend
<1>2. CASE NewConnection \/ BaseLoopRuns \/ Poll({}) \/ Poll({"write"})
  BY <1>2 DEF NewConnection, BaseLoopRuns, Poll
<1>3. CASE InCallback \/ PeerSends \/ PeerCloses \/ UNCHANGED vars
  BY <1>3 DEF InCallback, LoopShutdown, LoopSend, Share, PeerSends, PeerCloses, vars
<1>4. CASE \E t \in Threads : ThreadGoesOn(t) \/ ThreadCalls(t)
  BY <1>4 DEF ThreadGoesOn, ThreadCalls, CallSendQueues, CallShutdownSets,
              CallShutdownQueues, CallSend, CallShutdown, Drop, At
<1> QED
  BY <1>1, <1>2, <1>3, <1>4 DEF Next

\* Before the connection is established only these steps are possible.
LEMMA UnusedSteps ==
    ASSUME Control, Early, state \in Unused, [Next]_vars
    PROVE  \/ NewConnection \/ Poll({}) \/ Poll({"write"})
           \/ SwapFunctors \/ EndFunctors
           \/ RunConnectEstablished /\ state = "kConnecting"
           \/ (PeerSends \/ PeerCloses) /\ state = "kConnecting"
           \/ UNCHANGED vars
<1>1. /\ revents = {} /\ ~callback /\ hold = {} /\ basePending = << >>
      /\ state \in {"kNone", "kConnecting"}
  BY DEF Early, Unused
<1>2. \A op : (phase = "functors" /\ next <= Len(batch) /\ batch[next] = op)
                => op = "connectEstablished" /\ state = "kConnecting"
  <2>1. CASE state = "kNone"
    BY <2>1 DEF Early, Control
  <2>2. CASE state = "kConnecting"
    BY <2>2 DEF Early, Control
  <2> QED
    BY <1>1, <2>1, <2>2
<1>3. CASE Handlers
  <2>1. ~HandleHup /\ ~HandleError /\ ~HandleRead /\ ~CallbackReturns /\ \A n : ~HandleWrite(n)
    BY <1>1 DEF HandleHup, HandleError, HandleRead, CallbackReturns, HandleWrite
  <2>2. /\ ~RunConnectDestroyed /\ ~RunWriteComplete /\ ~RunShutdown /\ \A n : ~RunSend(n)
        /\ RunConnectEstablished => state = "kConnecting"
    BY <1>2 DEF RunConnectDestroyed, RunWriteComplete, RunShutdown, RunSend,
                RunConnectEstablished, Runs
  <2> QED
    BY <1>3, <2>1, <2>2 DEF Handlers
<1>4. CASE InCallback \/ \E t \in Threads : ThreadGoesOn(t) \/ ThreadCalls(t)
  BY <1>1, <1>4 DEF InCallback, LoopShutdown, LoopSend, Share, ThreadGoesOn, ThreadCalls,
       CallSendQueues, CallShutdownSets, CallShutdownQueues, CallSend, CallShutdown, Drop, At
<1>5. CASE BaseLoopRuns
  BY <1>1, <1>5 DEF BaseLoopRuns
<1>6. CASE PeerSends \/ PeerCloses
  BY <1>1, <1>6 DEF PeerSends, PeerCloses
<1> QED
  BY <1>3, <1>4, <1>5, <1>6 DEF Next

LEMMA EarlyInit == Init => Early
<1> SUFFICES ASSUME Init PROVE Early
  OBVIOUS
<1> QED
  BY DEF Init, Early, Unused

LEMMA EarlyNext ==
    ASSUME StreamInv, Early, [Next]_vars
    PROVE  Early'
<1> USE DEF conn, loop, queues, program, threads, socket, ghosts
<1>1. Control
  BY DEF StreamInv
<1>2. phase' # "functors" => batch' = << >>
  BY BatchEmpty DEF Early
<1>3. CASE state \notin Unused
  <2>1. state' \notin Unused
    BY <1>3, StateLate
  <2>2. ~Waits("connectEstablished")'
    <3>1. ~NewConnection
      BY <1>3 DEF NewConnection, Unused
    <3> QED
      BY <1>1, <1>3, <3>1, WaitsNext DEF Early
  <2> QED
    BY <1>2, <2>1, <2>2 DEF Early, Unused
<1>4. CASE state \in Unused
  <2>1. /\ events = {} /\ index = "kNew" /\ outputBuffer = << >> /\ revents = {}
        /\ ~callback /\ hold = {} /\ basePending = << >>
        /\ phase # "functors" => batch = << >>
    BY <1>4 DEF Early
  <2>2. CASE NewConnection
    <3>1. state = "kNone" /\ pending = << >> /\ batch = << >>
      BY <2>2 DEF NewConnection, Early
    <3>2. CASE sameLoop
      <4>1. /\ state' = "kConnected" /\ UNCHANGED <<pending, batch, next>>
        BY <2>2, <3>2 DEF NewConnection, Established
      <4>2. ~Waits("connectEstablished")'
        BY <1>1, <3>1, <4>1 DEF Waits, In, Rest, Control
      <4> QED
        BY <1>2, <4>1, <4>2 DEF Early, Unused
    <3>3. CASE ~sameLoop
      <4>1. /\ state' = "kConnecting" /\ pending' = Append(pending, "connectEstablished") /\ inMap'
            /\ UNCHANGED <<events, index, callback, outputBuffer, revents, hold, basePending,
                           batch, sameLoop>>
        BY <2>2, <3>3 DEF NewConnection
      <4>2. pending' = <<"connectEstablished">>
        BY <3>1, <4>1
      <4> QED
        BY <1>2, <2>1, <3>1, <3>3, <4>1, <4>2 DEF Early, Unused
    <3> QED
      BY <3>2, <3>3
  <2>3. CASE Poll({}) \/ Poll({"write"})
    <3>1. /\ UNCHANGED <<state, events, index, outputBuffer, inMap, callback, hold, basePending,
                         pending, batch, next, sameLoop>>
          /\ revents' = {}
      BY <2>1, <2>3 DEF Poll, Ready
    <3> QED
      BY <1>2, <1>4, <2>1, <3>1 DEF Early, Unused
  <2>4. CASE SwapFunctors
    <3>1. /\ UNCHANGED <<state, events, index, outputBuffer, inMap, revents, callback, hold,
                         basePending, sameLoop>>
          /\ batch' = pending /\ pending' = << >> /\ next' = 1 /\ batch = << >>
      BY <2>1, <2>4 DEF SwapFunctors
    <3>2. CASE state = "kNone"
      BY <1>2, <2>1, <3>1, <3>2 DEF Early, Unused
    <3>3. CASE state = "kConnecting"
      BY <1>2, <2>1, <3>1, <3>3 DEF Early, Unused
    <3> QED
      BY <1>4, <3>2, <3>3 DEF Unused
  <2>5. CASE EndFunctors
    <3>1. /\ UNCHANGED <<state, events, index, outputBuffer, inMap, revents, callback, hold,
                         basePending, pending, sameLoop>>
          /\ batch' = << >> /\ next > Len(batch)
      BY <2>5 DEF EndFunctors
    <3>2. CASE state = "kNone"
      BY <1>2, <2>1, <3>1, <3>2 DEF Early, Unused
    <3>3. CASE state = "kConnecting"
      <4>1. inMap /\ ~sameLoop /\ pending = <<"connectEstablished">>
        BY <3>1, <3>3 DEF Early
      <4> QED
        BY <1>2, <2>1, <3>1, <3>3, <4>1 DEF Early, Unused
    <3> QED
      BY <1>4, <3>2, <3>3 DEF Unused
  <2>6. CASE RunConnectEstablished /\ state = "kConnecting"
    <3>1. /\ state' = "kConnected" /\ UNCHANGED <<pending, batch>> /\ next' = next + 1
          /\ next <= Len(batch)
      BY <2>6 DEF RunConnectEstablished, Established, Runs
    <3>2. pending = << >> /\ Len(batch) = 1 /\ next = 1
      BY <1>1, <2>6, <3>1 DEF Early, Control
    <3>3. ~Waits("connectEstablished")'
      BY <3>1, <3>2 DEF Waits, In, Rest
    <3> QED
      BY <1>2, <3>1, <3>3 DEF Early, Unused
  <2>7. CASE ((PeerSends \/ PeerCloses) /\ state = "kConnecting") \/ UNCHANGED vars
    <3>1. UNCHANGED <<state, events, index, outputBuffer, inMap, revents, callback, hold,
                      basePending, pending, batch, next, sameLoop>>
      BY <2>7 DEF PeerSends, PeerCloses, vars
    <3> QED
      BY <1>2, <1>4, <3>1 DEF Early, Unused
  <2> QED
    BY <1>1, <1>4, <2>2, <2>3, <2>4, <2>5, <2>6, <2>7, UnusedSteps
<1> QED
  BY <1>3, <1>4

LEMMA PeerInit == Init => PeerClosed
<1> SUFFICES ASSUME Init PROVE PeerClosed
  OBVIOUS
<1> QED
  BY DEF Init, PeerClosed, Waits, In, Rest

LEMMA PeerStays ==
    ASSUME peer # "open", [Next]_vars
    PROVE  peer' # "open"
<1> USE DEF conn, loop, queues, program, threads, socket, ghosts, ErrorFetched, SendInLoop
<1>1. CASE Handlers
  BY <1>1 DEF Handlers, HandleHup, HandleError, HandleRead, SwapFunctors, RunConnectEstablished,
       RunConnectDestroyed, RunWriteComplete, RunShutdown, EndFunctors, CallbackReturns,
       HandleWrite, RunSend
<1>2. CASE NewConnection \/ BaseLoopRuns \/ Poll({}) \/ Poll({"write"})
  BY <1>2 DEF NewConnection, BaseLoopRuns, Poll
<1>3. CASE InCallback \/ PeerSends \/ PeerCloses \/ UNCHANGED vars
  BY <1>3 DEF InCallback, LoopShutdown, LoopSend, Share, PeerSends, PeerCloses, vars
<1>4. CASE \E t \in Threads : ThreadGoesOn(t) \/ ThreadCalls(t)
  BY <1>4 DEF ThreadGoesOn, ThreadCalls, CallSendQueues, CallShutdownSets,
              CallShutdownQueues, CallSend, CallShutdown, Drop, At
<1> QED
  BY <1>1, <1>2, <1>3, <1>4 DEF Next

LEMMA PeerNext ==
    ASSUME StreamInv, Early, PeerClosed, [Next]_vars
    PROVE  PeerClosed'
<1> USE DEF conn, loop, queues, program, threads, socket, ghosts
<1>1. Control /\ data \in BOOLEAN
  BY DEF StreamInv, Flags
<1>2. CASE peer # "open"
  BY <1>2, PeerStays DEF PeerClosed
<1>3. CASE peer = "open"
  <2> USE <1>3
  <2>1. /\ outputBuffer # << >> => "write" \in events
        /\ "hup" \notin revents /\ ("read" \in revents => data)
        /\ basePending = << >> /\ ~Waits("connectDestroyed")
    BY DEF PeerClosed
  <2>2. ~BaseLoopRuns /\ ~HandleHup
    BY <2>1 DEF BaseLoopRuns, HandleHup
  <2>3. ASSUME HandleRead
        PROVE  /\ revents' = revents \ {"read"} /\ Adds({})
               /\ UNCHANGED <<events, outputBuffer, basePending>>
    BY <2>1, <2>3 DEF HandleRead, Adds
  <2>4. ~Waits("connectDestroyed")'
    <3>1. ASSUME HandleRead
          PROVE  ~Waits("connectDestroyed")'
      BY <1>1, <2>1, <2>3, <3>1, AddsWaits
    <3> QED
      BY <1>1, <2>1, <2>2, <3>1, WaitsNext
  <2>5. ~RunConnectDestroyed
    BY <1>1, <2>1 DEF RunConnectDestroyed, Runs, Waits, Rest, Control
  <2>6. CASE HandleRead
    BY <2>1, <2>3, <2>4, <2>6 DEF PeerClosed
  <2>7. CASE SwapFunctors \/ RunWriteComplete \/ RunShutdown \/ EndFunctors \/ CallbackReturns
    <3>1. UNCHANGED <<outputBuffer, events, revents, basePending, data>>
      BY <2>7 DEF SwapFunctors, RunWriteComplete, RunShutdown, EndFunctors, CallbackReturns
    <3> QED
      BY <2>1, <2>4, <3>1 DEF PeerClosed
  <2>8. CASE RunConnectEstablished
    <3>1. state \in Unused
      <4>1. Waits("connectEstablished")
        BY <1>1, <2>8 DEF RunConnectEstablished, Runs, Waits, Rest, Control
      <4> QED
        BY <4>1 DEF Early
    <3>2. outputBuffer = << >> /\ UNCHANGED <<outputBuffer, revents, basePending, data>>
      BY <2>8, <3>1 DEF RunConnectEstablished, Early
    <3> QED
      BY <2>1, <2>4, <3>2 DEF PeerClosed
  <2>9. ASSUME NEW n, HandleWrite(n)
        PROVE  PeerClosed'
    <3>1. revents' = {} /\ UNCHANGED <<basePending, data>>
      BY <2>9 DEF HandleWrite
    <3>2. outputBuffer' # << >> => "write" \in events'
      BY <2>1, <2>9 DEF HandleWrite
    <3> QED
      BY <2>1, <2>4, <3>1, <3>2 DEF PeerClosed
  <2>10. ASSUME NEW message, NEW n, SendInLoop(message, n)
         PROVE  outputBuffer' # << >> => "write" \in events'
    BY <2>1, <2>10 DEF SendInLoop, Writing, UpdateChannel
  <2>11. ASSUME NEW n, RunSend(n)
         PROVE  PeerClosed'
    <3>1. UNCHANGED <<basePending, revents, data>>
      BY <2>11 DEF RunSend
    <3>2. SendInLoop(NextMessage, n) \/ UNCHANGED <<outputBuffer, events>>
      BY <2>11 DEF RunSend
    <3>3. outputBuffer' # << >> => "write" \in events'
      BY <2>1, <2>10, <3>2
    <3> QED
      BY <2>1, <2>4, <3>1, <3>3 DEF PeerClosed
  <2>12. ASSUME NEW n, LoopSend(n)
         PROVE  PeerClosed'
    <3>1. UNCHANGED <<basePending, revents, data>> /\ SendInLoop(NextMessage, n)
      BY <2>12 DEF LoopSend
    <3>2. outputBuffer' # << >> => "write" \in events'
      BY <2>10, <3>1
    <3> QED
      BY <2>1, <2>4, <3>1, <3>2 DEF PeerClosed
  <2>13. CASE LoopShutdown \/ UNCHANGED vars \/ \E t \in Threads : Share(t)
    <3>1. UNCHANGED <<outputBuffer, events, revents, basePending, data>>
      BY <2>13 DEF LoopShutdown, Share, vars
    <3> QED
      BY <2>1, <2>4, <3>1 DEF PeerClosed
  <2>14. ASSUME NEW t, ThreadGoesOn(t) \/ ThreadCalls(t)
         PROVE  PeerClosed'
    <3>1. UNCHANGED <<outputBuffer, events, revents, basePending, data>>
      BY <2>14 DEF ThreadGoesOn, ThreadCalls, CallSendQueues, CallShutdownSets,
              CallShutdownQueues, CallSend, CallShutdown, Drop, At
    <3> QED
      BY <2>1, <2>4, <3>1 DEF PeerClosed
  <2>15. CASE NewConnection
    <3>1. outputBuffer' = << >> /\ UNCHANGED <<revents, basePending, data>>
      BY <2>15 DEF NewConnection, Early, Unused
    <3> QED
      BY <2>1, <2>4, <3>1 DEF PeerClosed
  <2>16. ASSUME NEW unready, Poll(unready)
         PROVE  PeerClosed'
    <3>1. UNCHANGED <<outputBuffer, events, basePending, data>> /\ revents' = Ready \ unready
      BY <2>16 DEF Poll
    <3>2. "hup" \notin Ready /\ ("read" \in Ready => data)
      BY <1>1 DEF Ready, Control
    <3> QED
      BY <2>1, <2>4, <3>1, <3>2 DEF PeerClosed
  <2>17. CASE PeerSends
    <3>1. UNCHANGED <<outputBuffer, events, revents, basePending>> /\ data'
      BY <2>17 DEF PeerSends
    <3> QED
      BY <2>1, <2>4, <3>1 DEF PeerClosed
  <2>18. CASE PeerCloses
    BY <2>18 DEF PeerCloses, PeerClosed
  <2>19. CASE HandleError
    <3>1. UNCHANGED <<outputBuffer, events, basePending, data>> /\ revents' \subseteq revents
      BY <2>19 DEF HandleError
    <3> QED
      BY <2>1, <2>4, <3>1 DEF PeerClosed
  <2> QED
    BY <2>2, <2>5, <2>6, <2>7, <2>8, <2>9, <2>11, <2>12, <2>13, <2>14, <2>15, <2>16, <2>17, <2>18,
       <2>19
    DEF Next, Handlers, InCallback
<1> QED
  BY <1>2, <1>3

\* The end of the stream is not sent while output waits for a peer that has
\* not closed the connection.
THEOREM ConnectionFinAfterOutput == Spec => FinAfterOutput
<1> DEFINE Inv == StreamInv /\ Early /\ PeerClosed
           Step == (fin' /\ ~fin) => (outputBuffer' = << >> \/ peer # "open")
<1>1. Init => Inv
  BY StreamInit, EarlyInit, PeerInit
<1>2. Inv /\ [Next]_vars => Inv'
  BY StreamNext, EarlyNext, PeerNext
<1>3. Inv /\ [Next]_vars => [Step]_vars
  <2> SUFFICES ASSUME Inv, Next, fin', ~fin
               PROVE  outputBuffer' = << >> \/ peer # "open"
    OBVIOUS
  <2> USE DEF conn, loop, queues, program, threads, socket, ghosts
  <2>1. outputBuffer = << >> \/ "write" \in events \/ peer # "open"
    BY DEF PeerClosed
  <2>2. CASE RunShutdown
    BY <2>1, <2>2 DEF RunShutdown, ShutdownInLoop
  <2>3. CASE LoopShutdown
    BY <2>1, <2>3 DEF LoopShutdown, ShutdownInLoop
  <2>4. ASSUME NEW n, HandleWrite(n)
        PROVE  outputBuffer' = << >>
    BY <2>4 DEF HandleWrite
  <2>5. CASE Handlers
    <3>1. ~HandleHup /\ ~HandleError /\ ~HandleRead /\ ~SwapFunctors /\ ~RunConnectEstablished
          /\ ~RunConnectDestroyed /\ ~RunWriteComplete /\ ~EndFunctors /\ ~CallbackReturns
          /\ \A n : ~RunSend(n)
      BY DEF HandleHup, HandleError, HandleRead, SwapFunctors, RunConnectEstablished,
             RunConnectDestroyed, RunWriteComplete, EndFunctors, CallbackReturns, RunSend
    <3> QED
      BY <2>2, <2>4, <2>5, <3>1 DEF Handlers
  <2>6. CASE InCallback
    BY <2>3, <2>6 DEF InCallback, LoopSend, Share
  <2>7. ~NewConnection /\ ~BaseLoopRuns /\ ~PeerSends /\ ~PeerCloses /\ \A unready : ~Poll(unready)
    BY DEF NewConnection, BaseLoopRuns, PeerSends, PeerCloses, Poll
  <2>8. \A t : ~ThreadGoesOn(t) /\ ~ThreadCalls(t)
    BY DEF ThreadGoesOn, ThreadCalls, CallSendQueues, CallShutdownSets,
           CallShutdownQueues, CallSend, CallShutdown, Drop, At
  <2> QED
    BY <2>5, <2>6, <2>7, <2>8 DEF Next
<1> HIDE DEF Inv, Step
<1>4. Spec => [][Step]_vars
  BY <1>1, <1>2, <1>3, PTL DEF Spec
<1> QED
  BY <1>4 DEF FinAfterOutput, Step

-----------------------------------------------------------------------------
(* The third layer: removal and destruction.                               *)

\* connectDestroyed() is in the queues at most once.
Unique ==
    /\ \A i, j \in 1 .. Len(pending) :
         (pending[i] = "connectDestroyed" /\ pending[j] = "connectDestroyed") => i = j
    /\ \A i, j \in next .. Len(batch) :
         (batch[i] = "connectDestroyed" /\ batch[j] = "connectDestroyed") => i = j
    /\ ~(In("connectDestroyed", pending) /\ Rest("connectDestroyed", batch, next))

\* It is queued when the connection leaves the map, and nothing but it makes
\* the connection kDisconnected.
DestroyedOnce ==
    /\ inMap => state \notin {"kNone", "kDisconnected"}
    /\ Waits("connectDestroyed") => ~inMap /\ state \in Connected
    /\ Unique
    /\ fault # "destroyed"

\* In a program of one thread: events that lead to handleClose() find the
\* connection in the map, and a connection that has left the map is on its
\* way to connectDestroyed() or was there.
OneThread ==
    sameLoop =>
        /\ fault = "none" /\ basePending = << >> /\ hold = {}
        /\ ~Waits("sendInLoop") /\ ~Waits("shutdownInLoop")
        /\ ("read" \in revents \/ "hup" \in revents) =>
             (phase = "events" /\ inMap /\ state \in Connected)
        /\ In("connectDestroyed", pending) => phase = "events"
        /\ (~inMap /\ state # "kNone") =>
             \/ Waits("connectDestroyed")
             \/ state = "kDisconnected" /\ index = "kNew" /\ events = {}

LEMMA AddsUnique ==
    ASSUME Control, Unique, NEW S, Adds(S), "connectDestroyed" \notin S
    PROVE  Unique'
<1>1. pending \in Seq(Ops) /\ batch \in Seq(Ops) /\ next \in 1 .. Len(batch) + 1
  BY DEF Control
<1>2. \A i, j \in next' .. Len(batch') :
        (batch'[i] = "connectDestroyed" /\ batch'[j] = "connectDestroyed") => i = j
  BY <1>1 DEF Unique, Adds
<1>3. \A i, j \in 1 .. Len(pending') :
        (pending'[i] = "connectDestroyed" /\ pending'[j] = "connectDestroyed") => i = j
  <2>1. CASE pending' = pending
    BY <2>1 DEF Unique
  <2>2. ASSUME NEW op \in S, pending' = Append(pending, op)
        PROVE  \A i, j \in 1 .. Len(pending') :
                 (pending'[i] = "connectDestroyed" /\ pending'[j] = "connectDestroyed") => i = j
    <3>1. op # "connectDestroyed"
      BY <2>2
    <3> QED
      BY <1>1, <2>2, <3>1 DEF Unique
  <2> QED
    BY <2>1, <2>2 DEF Adds
<1>4. In("connectDestroyed", pending') => In("connectDestroyed", pending)
  BY <1>1, InAppend DEF Adds
<1>5. Rest("connectDestroyed", batch', next') => Rest("connectDestroyed", batch, next)
  BY <1>1 DEF Adds, Rest
<1> QED
  BY <1>2, <1>3, <1>4, <1>5 DEF Unique

LEMMA DestroyUnique ==
    ASSUME Control, ~Waits("connectDestroyed"), UNCHANGED <<batch, next>>,
           pending' = Append(pending, "connectDestroyed")
    PROVE  Unique'
<1>1. pending \in Seq(Ops)
  BY DEF Control
<1>2. ~In("connectDestroyed", pending) /\ ~Rest("connectDestroyed", batch, next)
  BY DEF Waits
<1>3. \A i, j \in next' .. Len(batch') :
        (batch'[i] = "connectDestroyed" /\ batch'[j] = "connectDestroyed") => i = j
  BY <1>2 DEF Rest
<1>4. \A i, j \in 1 .. Len(pending') :
        (pending'[i] = "connectDestroyed" /\ pending'[j] = "connectDestroyed") => i = j
  BY <1>1, <1>2 DEF In
<1>5. ~Rest("connectDestroyed", batch', next')
  BY <1>2
<1> QED
  BY <1>3, <1>4, <1>5 DEF Unique

\* Either nothing is removed from the map and connectDestroyed() is not queued,
\* or it is removed, or the queues go from one batch to the next.
LEMMA RemoveSteps ==
    ASSUME Control, [Next]_vars
    PROVE  \/ /\ \E S : "connectDestroyed" \notin S /\ Adds(S)
              /\ inMap' = inMap \/ NewConnection
           \/ /\ inMap /\ ~inMap' /\ UNCHANGED <<batch, next, state>>
              /\ pending' = Append(pending, "connectDestroyed")
              /\ BaseLoopRuns \/ (HandleClose /\ state \in Connected)
           \/ SwapFunctors \/ EndFunctors
<1> USE DEF conn, loop, queues, program, threads, socket, ghosts
<1> DEFINE Same == (\E S : "connectDestroyed" \notin S /\ Adds(S)) /\ inMap' = inMap
           Removed == /\ inMap /\ ~inMap' /\ UNCHANGED <<batch, next, state>>
                      /\ pending' = Append(pending, "connectDestroyed")
                      /\ BaseLoopRuns \/ (HandleClose /\ state \in Connected)
<1>1. ASSUME HandleClose, UNCHANGED <<batch, next, state>>
      PROVE  Same \/ Removed
  <2>1. CASE pending' = pending /\ inMap' = inMap
    <3>1. Adds({})
      BY <1>1, <2>1 DEF Adds
    <3> QED
      BY <2>1, <3>1
  <2> QED
    BY <1>1, <2>1 DEF HandleClose, RemoveConnectionInLoop
<1>2. ASSUME HandleHup \/ HandleRead
      PROVE  Same \/ Removed
  <2>1. UNCHANGED <<batch, next, state>>
    BY <1>2 DEF HandleHup, HandleRead
  <2>2. HandleClose \/ (pending' = pending /\ inMap' = inMap)
    BY <1>2 DEF HandleHup, HandleRead
  <2>3. CASE pending' = pending /\ inMap' = inMap
    <3>1. Adds({})
      BY <2>1, <2>3 DEF Adds
    <3> QED
      BY <2>3, <3>1
  <2> QED
    BY <1>1, <2>1, <2>2, <2>3
<1>3. ASSUME BaseLoopRuns
      PROVE  Same \/ Removed
  <2>1. UNCHANGED <<batch, next, state>>
    BY <1>3 DEF BaseLoopRuns
  <2>2. CASE inMap
    BY <1>3, <2>1, <2>2 DEF BaseLoopRuns, RemoveConnectionInLoop
  <2>3. CASE ~inMap
    <3>1. Adds({}) /\ inMap' = inMap
      BY <1>3, <2>1, <2>3 DEF BaseLoopRuns, RemoveConnectionInLoop, Adds
    <3> QED
      BY <3>1
  <2> QED
    BY <2>2, <2>3
<1>5. ASSUME Handlers
      PROVE  Same \/ Removed \/ SwapFunctors \/ EndFunctors
  <2>1. CASE Adds({"writeComplete"}) /\ ~HandleHup /\ ~HandleRead /\ ~SwapFunctors /\ ~EndFunctors
    <3>1. inMap' = inMap
      BY <1>5, <2>1 DEF Handlers, RunConnectEstablished, RunConnectDestroyed, RunWriteComplete,
           RunShutdown, CallbackReturns, HandleError, HandleWrite, RunSend
    <3>2. "connectDestroyed" \notin {"writeComplete"}
      OBVIOUS
    <3> QED
      BY <2>1, <3>1, <3>2
  <2> QED
    BY <1>2, <1>5, <2>1, HandlersAdd
<1>6. ASSUME NEW unready, Poll(unready)
      PROVE  Same
  <2>1. Adds({}) /\ inMap' = inMap
    BY <1>6 DEF Poll, Adds
  <2> QED
    BY <2>1
<1>7. ASSUME LoopShutdown \/ PeerSends \/ PeerCloses \/ UNCHANGED vars \/ \E t \in Threads : Share(t)
      PROVE  Same
  <2>1. Adds({}) /\ inMap' = inMap
    BY <1>7 DEF LoopShutdown, PeerSends, PeerCloses, Share, vars, Adds
  <2> QED
    BY <2>1
<1>8. ASSUME NEW n, LoopSend(n)
      PROVE  Same
  <2>1. Adds({"writeComplete"}) /\ inMap' = inMap
    BY <1>8, WriteCompleteAdds DEF LoopSend, SendInLoop, Adds
  <2>2. "connectDestroyed" \notin {"writeComplete"}
    OBVIOUS
  <2> QED
    BY <2>1, <2>2
<1>9. ASSUME NEW t, ThreadGoesOn(t) \/ ThreadCalls(t)
      PROVE  Same
  <2>1. Adds({"sendInLoop", "shutdownInLoop"}) /\ inMap' = inMap
    BY <1>9 DEF ThreadGoesOn, ThreadCalls, CallSendQueues, CallShutdownSets,
                CallShutdownQueues, CallSend, CallShutdown, Drop, At, Adds
  <2>2. "connectDestroyed" \notin {"sendInLoop", "shutdownInLoop"}
    OBVIOUS
  <2> QED
    BY <2>1, <2>2
<1> HIDE DEF Same, Removed
<1>10. Same \/ Removed \/ SwapFunctors \/ EndFunctors
         \/ (NewConnection /\ \E S : "connectDestroyed" \notin S /\ Adds(S))
  <2>1. CASE NewConnection
    <3>1. Adds({"connectEstablished"}) /\ "connectDestroyed" \notin {"connectEstablished"}
      BY <2>1 DEF NewConnection, Adds
    <3> QED
      BY <2>1, <3>1
  <2> QED
    BY <1>3, <1>5, <1>6, <1>7, <1>8, <1>9, <2>1 DEF Next, InCallback
<1> QED
  BY <1>10 DEF Same, Removed

LEMMA StateSteps ==
    ASSUME [Next]_vars
    PROVE  /\ state' = state \/ state' \in Connected \/ NewConnection \/ RunConnectDestroyed
           /\ fault' \in {fault, "erase", "close", "dead"} \/ RunConnectDestroyed
<1> USE DEF conn, loop, queues, program, threads, socket, ghosts, Connected
<1>1. CASE HandleHup \/ HandleRead
  <2>1. HandleClose \/ fault' = fault
    BY <1>1 DEF HandleHup, HandleRead
  <2>2. fault' \in {fault, "erase", "close"}
    BY <2>1 DEF HandleClose, RemoveConnectionInLoop
  <2> QED
    BY <1>1, <2>2 DEF HandleHup, HandleRead
<1>2. CASE Handlers /\ ~HandleHup /\ ~HandleRead
  BY <1>2 DEF Handlers, HandleError, SwapFunctors, RunConnectEstablished, Established,
       RunWriteComplete, RunShutdown, EndFunctors, CallbackReturns, HandleWrite, RunSend
<1>3. CASE NewConnection \/ BaseLoopRuns \/ Poll({}) \/ Poll({"write"})
  BY <1>3 DEF NewConnection, BaseLoopRuns, RemoveConnectionInLoop, Poll
<1>4. CASE InCallback \/ PeerSends \/ PeerCloses \/ UNCHANGED vars
  BY <1>4 DEF InCallback, LoopShutdown, LoopSend, Share, PeerSends, PeerCloses, vars
<1>5. CASE \E t \in Threads : ThreadGoesOn(t) \/ ThreadCalls(t)
  BY <1>5 DEF ThreadGoesOn, ThreadCalls, CallSendQueues, CallShutdownSets,
              CallShutdownQueues, CallSend, CallShutdown, Drop, At
<1> QED
  BY <1>1, <1>2, <1>3, <1>4, <1>5 DEF Next, Handlers

LEMMA DestroyedInit == Init => DestroyedOnce
<1> SUFFICES ASSUME Init PROVE DestroyedOnce
  OBVIOUS
<1> QED
  BY DEF Init, DestroyedOnce, Unique, Waits, In, Rest

LEMMA DestroyedNext ==
    ASSUME StreamInv, Early, DestroyedOnce, [Next]_vars
    PROVE  DestroyedOnce'
<1> USE DEF conn, loop, queues, program, threads, socket, ghosts
<1>1. Control
  BY DEF StreamInv
<1>2. /\ inMap => state \notin {"kNone", "kDisconnected"}
      /\ Waits("connectDestroyed") => ~inMap /\ state \in Connected
      /\ Unique /\ fault # "destroyed"
  BY DEF DestroyedOnce
<1>3. RunConnectDestroyed => /\ Waits("connectDestroyed") /\ state' = "kDisconnected"
                             /\ inMap' = inMap /\ fault' = fault
  <2> SUFFICES ASSUME RunConnectDestroyed
               PROVE  /\ Waits("connectDestroyed") /\ state' = "kDisconnected"
                      /\ inMap' = inMap /\ fault' = fault
    OBVIOUS
  <2>1. Waits("connectDestroyed")
    BY <1>1 DEF RunConnectDestroyed, Runs, Waits, Rest, Control
  <2> QED
    BY <1>2, <2>1 DEF RunConnectDestroyed
<1>4. RunConnectDestroyed => ~Waits("connectDestroyed")'
  <2> SUFFICES ASSUME RunConnectDestroyed
               PROVE  ~In("connectDestroyed", pending') /\ ~Rest("connectDestroyed", batch', next')
    BY DEF Waits
  <2>1. /\ batch[next] = "connectDestroyed" /\ next <= Len(batch) /\ next' = next + 1
        /\ UNCHANGED <<pending, batch>>
    BY DEF RunConnectDestroyed, Runs
  <2>2. Rest("connectDestroyed", batch, next)
    BY <1>1, <2>1 DEF Rest, Control
  <2>3. ~In("connectDestroyed", pending)
    BY <1>2, <2>2 DEF Unique
  <2>4. ~Rest("connectDestroyed", batch, next + 1)
    BY <1>1, <1>2, <2>1 DEF Unique, Rest, Control
  <2> QED
    BY <2>1, <2>3, <2>4
<1>5. fault' # "destroyed"
  BY <1>2, <1>3, StateSteps
<1>6. ASSUME NEW S, "connectDestroyed" \notin S, Adds(S), inMap' = inMap \/ NewConnection
      PROVE  DestroyedOnce'
  <2>1. Unique'
    BY <1>1, <1>2, <1>6, AddsUnique
  <2>2. Waits("connectDestroyed")' => Waits("connectDestroyed")
    BY <1>1, <1>6, AddsWaits
  <2>3. inMap' => state' \notin {"kNone", "kDisconnected"}
    <3>1. CASE NewConnection
      BY <3>1 DEF NewConnection, Established
    <3>2. CASE inMap' = inMap
      BY <1>2, <1>3, <3>1, <3>2, StateSteps DEF Connected
    <3> QED
      BY <1>6, <3>1, <3>2
  <2>4. Waits("connectDestroyed")' => ~inMap' /\ state' \in Connected
    <3> SUFFICES ASSUME Waits("connectDestroyed")' PROVE ~inMap' /\ state' \in Connected
      OBVIOUS
    <3>1. ~inMap /\ state \in Connected
      BY <1>2, <2>2
    <3>2. ~NewConnection /\ ~RunConnectDestroyed
      BY <1>4, <3>1 DEF NewConnection, Connected
    <3> QED
      BY <1>6, <3>1, <3>2, StateSteps
  <2> QED
    BY <1>5, <2>1, <2>3, <2>4 DEF DestroyedOnce
<1>7. CASE /\ inMap /\ ~inMap' /\ UNCHANGED <<batch, next, state>>
           /\ pending' = Append(pending, "connectDestroyed")
           /\ BaseLoopRuns \/ (HandleClose /\ state \in Connected)
  <2>1. ~Waits("connectDestroyed")
    BY <1>2, <1>7
  <2>2. Unique'
    BY <1>1, <1>7, <2>1, DestroyUnique
  <2>3. state \in Connected
    <3>1. CASE BaseLoopRuns
      <4>1. state \notin Unused
        BY <3>1 DEF BaseLoopRuns, Early
      <4> QED
        BY <1>1, <1>2, <1>7, <4>1 DEF Unused, Connected, Control
    <3> QED
      BY <1>7, <3>1
  <2> QED
    BY <1>5, <1>7, <2>2, <2>3 DEF DestroyedOnce
<1>8. CASE SwapFunctors
  <2>1. /\ UNCHANGED <<state, inMap>> /\ batch' = pending /\ pending' = << >> /\ next' = 1
    BY <1>8 DEF SwapFunctors
  <2>2. Unique'
    BY <1>2, <2>1 DEF Unique, In
  <2>3. Waits("connectDestroyed")' => Waits("connectDestroyed")
    BY <2>1 DEF Waits, In, Rest
  <2> QED
    BY <1>2, <1>5, <2>1, <2>2, <2>3 DEF DestroyedOnce
<1>9. CASE EndFunctors
  <2>1. /\ UNCHANGED <<state, inMap, pending>> /\ batch' = << >> /\ next' = 1
    BY <1>9 DEF EndFunctors
  <2>2. Unique'
    BY <1>2, <2>1 DEF Unique, Rest
  <2>3. Waits("connectDestroyed")' => Waits("connectDestroyed")
    BY <2>1 DEF Waits, Rest
  <2> QED
    BY <1>2, <1>5, <2>1, <2>2, <2>3 DEF DestroyedOnce
<1> QED
  BY <1>1, <1>6, <1>7, <1>8, <1>9, RemoveSteps

LEMMA OneThreadSteps ==
    ASSUME Control, Early, OneThread, sameLoop, [Next]_vars
    PROVE  \/ NewConnection \/ Poll({}) \/ Poll({"write"})
           \/ HandleHup \/ HandleError \/ HandleRead \/ (\E n : HandleWrite(n))
           \/ SwapFunctors \/ EndFunctors \/ RunConnectDestroyed \/ RunWriteComplete
           \/ CallbackReturns \/ LoopShutdown \/ (\E n : LoopSend(n))
           \/ PeerSends \/ PeerCloses \/ UNCHANGED vars
<1>1. basePending = << >> /\ hold = {} /\ ~Waits("sendInLoop") /\ ~Waits("shutdownInLoop")
  BY DEF OneThread
<1>2. ~Waits("connectEstablished")
  <2>1. CASE state = "kNone"
    <3>1. pending = << >> /\ batch = << >> /\ next \in 1 .. 1
      BY <2>1 DEF Early, Control
    <3> QED
      BY <3>1 DEF Waits, In, Rest
  <2>2. CASE state # "kNone"
    BY <2>2 DEF Early, Unused
  <2> QED
    BY <2>1, <2>2
<1>3. ASSUME NEW op, Runs(op)
      PROVE  Waits(op)
  BY <1>3 DEF Runs, Waits, Rest, Control
<1>4. ~RunConnectEstablished /\ ~RunShutdown /\ \A n : ~RunSend(n)
  BY <1>1, <1>2, <1>3 DEF RunConnectEstablished, RunShutdown, RunSend
<1>5. ~BaseLoopRuns /\ \A t : ~Share(t) /\ ~ThreadGoesOn(t) /\ ~ThreadCalls(t)
  BY <1>1 DEF BaseLoopRuns, Share, ThreadGoesOn, ThreadCalls, CallSendQueues, CallShutdownSets,
              CallShutdownQueues, CallSend, CallShutdown, Drop, At
<1> QED
  BY <1>4, <1>5 DEF Next, Handlers, InCallback

\* connectDestroyed() stays in the queues until it runs.
LEMMA AddsKeeps ==
    ASSUME Control, NEW S, Adds(S), Waits("connectDestroyed"),
           next' = next \/ batch[next] # "connectDestroyed"
    PROVE  Waits("connectDestroyed")'
<1>1. pending \in Seq(Ops) /\ batch \in Seq(Ops) /\ next \in 1 .. Len(batch) + 1
  BY DEF Control
<1>2. CASE In("connectDestroyed", pending)
  <2>1. \A op \in S : In("connectDestroyed", Append(pending, op))
    BY <1>1, <1>2 DEF In
  <2>2. In("connectDestroyed", pending')
    BY <1>2, <2>1 DEF Adds
  <2> QED
    BY <2>2 DEF Waits
<1>3. CASE Rest("connectDestroyed", batch, next)
  <2>1. Rest("connectDestroyed", batch', next')
    BY <1>1, <1>3 DEF Adds, Rest
  <2> QED
    BY <2>1 DEF Waits
<1> QED
  BY <1>2, <1>3 DEF Waits

\* A step that queues at most a WriteCompleteCallback and does not take the
\* connection from the map keeps the facts about the queues and the map.
LEMMA OneThreadAdds ==
    ASSUME Control, OneThread, sameLoop, sameLoop', Adds({"writeComplete"}),
           UNCHANGED <<basePending, hold, inMap, fault>>,
           phase' = phase \/ (phase = "poll" /\ phase' = "events"),
           ("read" \in revents' \/ "hup" \in revents') =>
             (phase' = "events" /\ inMap /\ state' \in Connected),
           \/ /\ next' = next \/ batch[next] # "connectDestroyed"
              /\ state' = state \/ (state \in Connected /\ state' \in Connected)
              /\ state = "kDisconnected" => UNCHANGED <<index, events>>
           \/ state' = "kDisconnected" /\ index' = "kNew" /\ events' = {}
    PROVE  OneThread'
<1>1. /\ fault = "none" /\ basePending = << >> /\ hold = {}
      /\ ~Waits("sendInLoop") /\ ~Waits("shutdownInLoop")
      /\ In("connectDestroyed", pending) => phase = "events"
      /\ (~inMap /\ state # "kNone") =>
           \/ Waits("connectDestroyed")
           \/ state = "kDisconnected" /\ index = "kNew" /\ events = {}
  BY DEF OneThread
<1>2. ~Waits("sendInLoop")' /\ ~Waits("shutdownInLoop")'
  BY <1>1, AddsWaits
<1>3. In("connectDestroyed", pending') => phase' = "events"
  <2>1. In("connectDestroyed", pending') => In("connectDestroyed", pending)
    BY InAppend DEF Adds, Control
  <2> QED
    BY <1>1, <2>1
<1>4. (~inMap /\ state' # "kNone") =>
        \/ Waits("connectDestroyed")'
        \/ state' = "kDisconnected" /\ index' = "kNew" /\ events' = {}
  BY <1>1, AddsKeeps DEF Connected
<1> QED
  BY <1>1, <1>2, <1>3, <1>4 DEF OneThread

LEMMA SameLoopNext ==
    ASSUME [Next]_vars
    PROVE  sameLoop' = sameLoop
<1> USE DEF conn, loop, queues, program, threads, socket, ghosts
<1>1. CASE Handlers
  BY <1>1 DEF Handlers, HandleHup, HandleError, HandleRead, SwapFunctors, RunConnectEstablished,
       RunConnectDestroyed, RunWriteComplete, RunShutdown, EndFunctors, CallbackReturns,
       HandleWrite, RunSend
<1>2. CASE NewConnection \/ BaseLoopRuns \/ Poll({}) \/ Poll({"write"})
  BY <1>2 DEF NewConnection, BaseLoopRuns, Poll
<1>3. CASE InCallback \/ PeerSends \/ PeerCloses \/ UNCHANGED vars
  BY <1>3 DEF InCallback, LoopShutdown, LoopSend, Share, PeerSends, PeerCloses, vars
<1>4. CASE \E t \in Threads : ThreadGoesOn(t) \/ ThreadCalls(t)
  BY <1>4 DEF ThreadGoesOn, ThreadCalls, CallSendQueues, CallShutdownSets,
              CallShutdownQueues, CallSend, CallShutdown, Drop, At
<1> QED
  BY <1>1, <1>2, <1>3, <1>4 DEF Next

LEMMA OneThreadInit == Init => OneThread
<1> SUFFICES ASSUME Init PROVE OneThread
  OBVIOUS
<1> QED
  BY DEF Init, OneThread, Waits, In, Rest

LEMMA OneThreadNext ==
    ASSUME StreamInv, Early, DestroyedOnce, OneThread, [Next]_vars
    PROVE  OneThread'
<1> SUFFICES ASSUME sameLoop' PROVE OneThread'
  BY DEF OneThread
<1> USE DEF conn, loop, queues, program, threads, socket, ghosts
<1>1. Control /\ sameLoop
  BY SameLoopNext DEF StreamInv
<1>2. /\ fault = "none" /\ basePending = << >> /\ hold = {}
      /\ ~Waits("sendInLoop") /\ ~Waits("shutdownInLoop")
      /\ ("read" \in revents \/ "hup" \in revents) =>
             (phase = "events" /\ inMap /\ state \in Connected)
      /\ In("connectDestroyed", pending) => phase = "events"
      /\ (~inMap /\ state # "kNone") =>
           \/ Waits("connectDestroyed")
           \/ state = "kDisconnected" /\ index = "kNew" /\ events = {}
  BY <1>1 DEF OneThread
<1>3. /\ inMap => state \notin {"kNone", "kDisconnected"}
      /\ Waits("connectDestroyed") => ~inMap /\ state \in Connected
  BY DEF DestroyedOnce
<1>4. CASE NewConnection
  <2>1. /\ state' = "kConnected" /\ inMap' /\ revents' = {} /\ phase' = "events"
        /\ UNCHANGED <<pending, batch, next, basePending, hold, fault>>
    BY <1>1, <1>4 DEF NewConnection, Established
  <2>2. ~Waits("sendInLoop")' /\ ~Waits("shutdownInLoop")'
    BY <1>2, <2>1 DEF Waits
  <2> QED
    BY <1>2, <2>1, <2>2 DEF OneThread
<1>5. ASSUME NEW unready, Poll(unready)
      PROVE  OneThread'
  <2>1. /\ phase = "poll" /\ phase' = "events" /\ revents' = Ready \ unready
        /\ UNCHANGED <<state, index, events, inMap, pending, batch, next, basePending, hold, fault>>
    BY <1>5 DEF Poll
  <2>2. ("read" \in revents' \/ "hup" \in revents') => (inMap /\ state \in Connected)
    <3> SUFFICES ASSUME "read" \in revents' \/ "hup" \in revents'
                 PROVE  inMap /\ state \in Connected
      OBVIOUS
    <3>1. index # "kNew"
      BY <2>1 DEF Ready
    <3>2. state \notin Unused
      BY <3>1 DEF Early
    <3>3. ~Waits("connectDestroyed")
      <4>1. batch = << >> /\ next \in 1 .. 1
        BY <1>1, <2>1 DEF Early, Control
      <4> QED
        BY <1>2, <2>1, <4>1 DEF Waits, Rest
    <3>4. inMap
      BY <1>2, <3>1, <3>2, <3>3 DEF Unused
    <3> QED
      BY <1>1, <1>3, <3>2, <3>4 DEF Unused, Connected, Control
  <2>3. Adds({"writeComplete"})
    BY <2>1 DEF Adds
  <2> QED
    BY <1>1, <2>1, <2>2, <2>3, OneThreadAdds
<1>6. ASSUME "read" \in revents \/ "hup" \in revents, HandleClose,
             "read" \notin revents', "hup" \notin revents',
             UNCHANGED <<phase, batch, next, hold>>
      PROVE  OneThread'
  <2>1. /\ ~inMap' /\ pending' = Append(pending, "connectDestroyed")
        /\ UNCHANGED <<fault, basePending>> /\ phase = "events"
    BY <1>1, <1>2, <1>6 DEF HandleClose, RemoveConnectionInLoop
  <2>2. Adds({"connectDestroyed"})
    BY <1>6, <2>1 DEF Adds
  <2>3. ~Waits("sendInLoop")' /\ ~Waits("shutdownInLoop")'
    BY <1>1, <1>2, <2>2, AddsWaits
  <2>4. Waits("connectDestroyed")'
    <3>1. In("connectDestroyed", pending')
      BY <1>1, <2>1 DEF In, Control
    <3> QED
      BY <3>1 DEF Waits
  <2> QED
    BY <1>2, <1>6, <2>1, <2>3, <2>4 DEF OneThread
<1>7. CASE HandleHup
  <2>1. /\ "hup" \in revents /\ revents' = revents \ {"hup"}
        /\ UNCHANGED <<state, phase, batch, next, hold>>
    BY <1>7 DEF HandleHup
  <2>2. CASE "read" \in revents
    <3>1. UNCHANGED <<events, index, inMap, pending, basePending, fault>>
      BY <1>7, <2>2 DEF HandleHup
    <3>2. Adds({"writeComplete"})
      BY <2>1, <3>1 DEF Adds
    <3> QED
      BY <1>1, <1>2, <2>1, <3>1, <3>2, OneThreadAdds
  <2>3. CASE "read" \notin revents
    BY <1>6, <1>7, <2>1, <2>3 DEF HandleHup
  <2> QED
    BY <2>2, <2>3
<1>8. CASE HandleRead
  <2>1. /\ "read" \in revents /\ "hup" \notin revents /\ revents' = revents \ {"read"}
        /\ UNCHANGED <<state, phase, batch, next, hold>>
    BY <1>8 DEF HandleRead
  <2>2. CASE data \/ ReadFails
    <3>1. UNCHANGED <<events, index, inMap, pending, basePending, fault>>
      BY <1>8, <2>2 DEF HandleRead
    <3>2. Adds({"writeComplete"})
      BY <2>1, <3>1 DEF Adds
    <3> QED
      BY <1>1, <1>2, <2>1, <3>1, <3>2, OneThreadAdds
  <2>3. CASE ~(data \/ ReadFails)
    BY <1>6, <1>8, <2>1, <2>3 DEF HandleRead
  <2> QED
    BY <2>2, <2>3
<1>9. ASSUME NEW n, HandleWrite(n)
      PROVE  OneThread'
  <2>1. revents' = {} /\ UNCHANGED <<state, phase, inMap, batch, next, hold, basePending, fault>>
    BY <1>9 DEF HandleWrite
  <2>2. Adds({"writeComplete"})
    BY <1>9, WriteCompleteAdds DEF HandleWrite, Adds
  <2>3. state = "kDisconnected" => UNCHANGED <<index, events>>
    <3>1. state = "kDisconnected" => events = {}
      BY <1>2, <1>3 DEF Connected
    <3> QED
      BY <1>9, <3>1 DEF HandleWrite, Writing
  <2> QED
    BY <1>1, <2>1, <2>2, <2>3, OneThreadAdds
<1>10. CASE SwapFunctors
  <2>1. /\ batch' = pending /\ pending' = << >> /\ next' = 1 /\ revents' = {} /\ phase = "events"
        /\ UNCHANGED <<state, index, events, inMap, hold, basePending, fault>>
    BY <1>10 DEF SwapFunctors
  <2>2. batch = << >> /\ next \in 1 .. 1
    BY <1>1, <2>1 DEF Early, Control
  <2>3. \A op : Waits(op)' <=> Waits(op)
    BY <2>1, <2>2 DEF Waits, In, Rest
  <2>4. ~In("connectDestroyed", pending')
    BY <2>1 DEF In
  <2> QED
    BY <1>2, <2>1, <2>3, <2>4 DEF OneThread
<1>11. CASE EndFunctors
  <2>1. /\ batch' = << >> /\ next' = 1 /\ phase = "functors" /\ next > Len(batch)
        /\ UNCHANGED <<state, index, events, inMap, revents, pending, hold, basePending, fault>>
    BY <1>11 DEF EndFunctors
  <2>2. \A op : Waits(op)' <=> Waits(op)
    BY <1>1, <2>1 DEF Waits, Rest, Control
  <2> QED
    BY <1>2, <2>1, <2>2 DEF OneThread
<1>12. CASE RunConnectDestroyed
  <2>1. Waits("connectDestroyed")
    BY <1>1, <1>12 DEF RunConnectDestroyed, Runs, Waits, Rest, Control
  <2>2. /\ state' = "kDisconnected" /\ index' = "kNew" /\ events' = {}
        /\ phase = "functors" /\ UNCHANGED <<revents, phase, inMap, basePending, hold, fault>>
    BY <1>3, <1>12, <2>1 DEF RunConnectDestroyed, Runs, IndexRemoved
  <2>3. Adds({"writeComplete"})
    BY <1>12 DEF RunConnectDestroyed, Runs, Adds
  <2> QED
    BY <1>1, <1>2, <2>2, <2>3, OneThreadAdds
<1>13. CASE RunWriteComplete
  <2>1. /\ UNCHANGED <<state, index, events, revents, phase, inMap, basePending, hold, fault>>
        /\ batch[next] # "connectDestroyed"
    BY <1>13 DEF RunWriteComplete, Runs
  <2>2. Adds({"writeComplete"})
    BY <1>13 DEF RunWriteComplete, Runs, Adds
  <2> QED
    BY <1>1, <1>2, <2>1, <2>2, OneThreadAdds
<1>14. CASE CallbackReturns \/ HandleError \/ PeerSends \/ PeerCloses \/ UNCHANGED vars
  <2>1. /\ UNCHANGED <<state, index, events, phase, inMap, pending, batch, next,
                       basePending, hold, fault>>
        /\ revents' \subseteq revents
    BY <1>14 DEF CallbackReturns, HandleError, PeerSends, PeerCloses, vars
  <2>2. Adds({"writeComplete"})
    BY <2>1 DEF Adds
  <2> QED
    BY <1>1, <1>2, <2>1, <2>2, OneThreadAdds
<1>15. CASE LoopShutdown
  <2>1. /\ state = "kConnected" /\ state' = "kDisconnecting"
        /\ UNCHANGED <<index, events, revents, phase, inMap, pending, batch, next,
                       basePending, hold, fault>>
    BY <1>15 DEF LoopShutdown
  <2>2. Adds({"writeComplete"})
    BY <2>1 DEF Adds
  <2> QED
    BY <1>1, <1>2, <2>1, <2>2, OneThreadAdds DEF Connected
<1>16. ASSUME NEW n, LoopSend(n)
       PROVE  OneThread'
  <2>1. /\ state = "kConnected"
        /\ UNCHANGED <<state, revents, phase, inMap, batch, next, basePending, hold, fault>>
    BY <1>16 DEF LoopSend
  <2>2. Adds({"writeComplete"})
    BY <1>16, WriteCompleteAdds DEF LoopSend, SendInLoop, Adds
  <2> QED
    BY <1>1, <1>2, <2>1, <2>2, OneThreadAdds
<1> QED
  BY <1>1, <1>4, <1>5, <1>7, <1>8, <1>9, <1>10, <1>11, <1>12, <1>13, <1>14, <1>15, <1>16,
     OneThreadSteps

-----------------------------------------------------------------------------
(* The third layer, with several threads.                                  *)

\* Until a sendInLoop() comes after handleClose(): the channel is enabled, for
\* reading at least, just while the connection is in the map and nothing was
\* done to remove it, so that handleClose() runs once; and it is disabled only
\* on the way to connectDestroyed().
InTime ==
    ~late =>
        /\ fault \notin {"erase", "close"}
        /\ index = "kAdded" <=> events # {}
        /\ events # {} => "read" \in events /\ inMap /\ state \in Connected /\ basePending = << >>
        /\ basePending # << >> => inMap /\ Len(basePending) = 1
        /\ ("read" \in revents \/ "hup" \in revents) => events # {}
        /\ index = "kDeleted" => basePending # << >> \/ Waits("connectDestroyed")

\* Until the last thread lets go too early: a call that is queued by a thread
\* finds the connection held.
HeldByThread ==
    ~abandoned =>
        /\ fault # "dead"
        /\ Waits("sendInLoop") \/ Waits("shutdownInLoop") => hold # {}

LEMMA InTimeInit == Init => InTime /\ HeldByThread
<1> SUFFICES ASSUME Init PROVE InTime /\ HeldByThread
  OBVIOUS
<1> QED
  BY DEF Init, InTime, HeldByThread, Waits, In, Rest

\* connectDestroyed() stays queued, or the channel is removed.
LEMMA DestroyWaits ==
    ASSUME Control, Early, [Next]_vars, Waits("connectDestroyed")
    PROVE  Waits("connectDestroyed")' \/ RunConnectDestroyed
<1> USE DEF conn, loop, queues, program, threads, socket, ghosts
<1>1. ASSUME NEW S, Adds(S), next' = next \/ batch[next] # "connectDestroyed"
      PROVE  Waits("connectDestroyed")'
  BY <1>1, AddsKeeps
<1>2. CASE SwapFunctors
  <2>1. batch = << >> /\ next \in 1 .. 1 /\ batch' = pending /\ next' = 1
    BY <1>2 DEF SwapFunctors, Early, Control
  <2> QED
    BY <2>1 DEF Waits, In, Rest
<1>3. CASE EndFunctors
  BY <1>3 DEF EndFunctors, Waits, In, Rest, Control
<1>4. CASE pending' = Append(pending, "connectDestroyed")
  <2>1. In("connectDestroyed", pending')
    BY <1>4 DEF In, Control
  <2> QED
    BY <2>1 DEF Waits
<1>5. ASSUME NEW S, Adds(S), next' # next, batch[next] = "connectDestroyed"
      PROVE  RunConnectDestroyed
  <2>1. ~RunConnectEstablished /\ ~RunWriteComplete /\ ~RunShutdown /\ \A n : ~RunSend(n)
    BY <1>5 DEF RunConnectEstablished, RunWriteComplete, RunShutdown, RunSend, Runs
  <2>2. ~HandleHup /\ ~HandleError /\ ~HandleRead /\ ~CallbackReturns /\ \A n : ~HandleWrite(n)
    BY <1>5 DEF HandleHup, HandleError, HandleRead, CallbackReturns, HandleWrite
  <2>3. ~SwapFunctors /\ ~EndFunctors
    BY <1>5 DEF SwapFunctors, EndFunctors, Adds, Control
  <2>4. ~NewConnection /\ ~BaseLoopRuns /\ ~PeerSends /\ ~PeerCloses /\ \A unready : ~Poll(unready)
    BY <1>5 DEF NewConnection, BaseLoopRuns, PeerSends, PeerCloses, Poll
  <2>5. ~InCallback /\ ~UNCHANGED vars
    BY <1>5 DEF InCallback, LoopShutdown, LoopSend, Share, vars
  <2>6. \A t : ~ThreadGoesOn(t) /\ ~ThreadCalls(t)
    BY <1>5 DEF ThreadGoesOn, ThreadCalls, CallSendQueues, CallShutdownSets,
           CallShutdownQueues, CallSend, CallShutdown, Drop, At
  <2> QED
    BY <2>1, <2>2, <2>3, <2>4, <2>5, <2>6 DEF Next, Handlers
<1> QED
  BY <1>1, <1>2, <1>3, <1>4, <1>5, RemoveSteps

\* A step that leaves the channel, the map and the calls of
\* removeConnectionInLoop() alone, and adds no event to be handled.
LEMMA InTimeSame ==
    ASSUME Control, Early, InTime, [Next]_vars, UNCHANGED <<index, events, inMap, basePending>>,
           late => late', fault' \in {fault, "dead"},
           revents' \subseteq revents, state' = state \/ state' \in Connected
    PROVE  InTime'
<1> SUFFICES ASSUME ~late, ~late' PROVE InTime'
  BY DEF InTime
<1>1. index = "kDeleted" => basePending # << >> \/ Waits("connectDestroyed")'
  <2>1. CASE RunConnectDestroyed
    BY <2>1 DEF RunConnectDestroyed, Runs, IndexRemoved, InTime
  <2> QED
    BY <2>1, DestroyWaits DEF InTime
<1> QED
  BY <1>1 DEF InTime

LEMMA CloseInTime ==
    ASSUME Control, Early, InTime, [Next]_vars, "read" \in revents \/ "hup" \in revents, HandleClose,
           "read" \notin revents', "hup" \notin revents', UNCHANGED <<state, late, batch, next>>,
           fault = "none"
    PROVE  InTime'
<1> SUFFICES ASSUME ~late PROVE InTime'
  BY DEF InTime
<1>1. /\ events # {} /\ index = "kAdded" /\ inMap /\ state \in Connected /\ basePending = << >>
  BY DEF InTime
<1>2. events' = {} /\ index' = "kDeleted"
  BY <1>1 DEF HandleClose, UpdateChannel, IndexAfter
<1>3. CASE sameLoop
  <2>1. /\ pending' = Append(pending, "connectDestroyed")
        /\ UNCHANGED <<fault, basePending>>
    BY <1>1, <1>3 DEF HandleClose, RemoveConnectionInLoop
  <2>2. Waits("connectDestroyed")'
    BY <2>1 DEF Waits, In, Control
  <2> QED
    BY <1>1, <1>2, <2>1, <2>2 DEF InTime
<1>4. CASE ~sameLoop
  <2>1. /\ basePending' = Append(basePending, "removeConnectionInLoop")
        /\ UNCHANGED <<inMap, fault>>
    BY <1>1, <1>4 DEF HandleClose
  <2>2. basePending' # << >> /\ Len(basePending') = 1
    BY <1>1, <2>1
  <2> QED
    BY <1>1, <1>2, <2>1, <2>2 DEF InTime
<1> QED
  BY <1>3, <1>4

LEMMA SendInTime ==
    ASSUME Control, Early, InTime, [Next]_vars, NEW n, SendInLoop(NextMessage, n),
           UNCHANGED <<state, inMap, basePending, revents, fault>>
    PROVE  InTime'
<1> SUFFICES ASSUME ~late' PROVE InTime'
  BY DEF InTime
<1>1. ~late
  BY DEF SendInLoop
<1>2. CASE UNCHANGED <<events, index>>
  BY <1>1, <1>2, InTimeSame
<1>3. CASE events # {} /\ UpdateChannel(events \cup {"write"})
  <2>1. events' = events \cup {"write"} /\ index' = "kAdded"
    BY <1>3 DEF UpdateChannel, IndexAfter
  <2> QED
    BY <1>1, <1>3, <2>1 DEF InTime
<1> QED
  BY <1>1, <1>2, <1>3 DEF SendInLoop

LEMMA InTimeNext ==
    ASSUME StreamInv, Early, DestroyedOnce, InTime, [Next]_vars
    PROVE  InTime'
<1> USE DEF conn, loop, queues, program, threads, socket, ghosts
<1>1. Control
  BY DEF StreamInv
<1>2. CASE NewConnection
  <2>1. /\ state = "kNone" /\ inMap' /\ UNCHANGED <<late, fault, revents, basePending>>
        /\ events = {} /\ index = "kNew" /\ revents = {} /\ basePending = << >>
        /\ fault = "none"
    BY <1>2 DEF NewConnection, Early, Unused
  <2>2. \/ state' = "kConnected" /\ events' = {"read"} /\ index' = "kAdded"
        \/ UNCHANGED <<events, index>>
    BY <1>2, <2>1 DEF NewConnection, Established, UpdateChannel, IndexAfter
  <2> QED
    BY <2>1, <2>2 DEF InTime, Connected
<1>3. CASE RunConnectEstablished
  <2>1. state \in Unused
    <3>1. Waits("connectEstablished")
      BY <1>1, <1>3 DEF RunConnectEstablished, Runs, Waits, Rest, Control
    <3> QED
      BY <3>1 DEF Early
  <2>2. state = "kConnecting"
    BY <1>1, <1>3, <2>1 DEF RunConnectEstablished, Runs, Early, Unused, Control
  <2>3. /\ inMap /\ revents = {} /\ basePending = << >>
        /\ state' = "kConnected" /\ events' = {"read"} /\ index' = "kAdded"
        /\ UNCHANGED <<inMap, late, fault, revents, basePending>> /\ fault = "none"
    BY <1>3, <2>2 DEF RunConnectEstablished, Runs, Established, UpdateChannel, IndexAfter, Early, Unused
  <2> QED
    BY <2>3 DEF InTime, Connected
<1>4. CASE BaseLoopRuns
  <2> SUFFICES ASSUME ~late PROVE InTime'
    BY <1>4 DEF BaseLoopRuns, InTime
  <2>1. inMap /\ basePending # << >> /\ Len(basePending) = 1 /\ events = {} /\ index # "kAdded"
    BY <1>4 DEF BaseLoopRuns, InTime
  <2>2. /\ pending' = Append(pending, "connectDestroyed") /\ fault' = fault /\ fault = "none"
        /\ basePending' = Tail(basePending) /\ UNCHANGED <<events, index, revents, state, late>>
    BY <1>4, <2>1 DEF BaseLoopRuns, RemoveConnectionInLoop
  <2>3. basePending' = << >>
    BY <1>1, <2>1, <2>2 DEF Control
  <2>4. Waits("connectDestroyed")'
    BY <1>1, <2>2 DEF Waits, In, Control
  <2> QED
    BY <2>1, <2>2, <2>3, <2>4 DEF InTime
<1>5. ASSUME NEW unready, Poll(unready)
      PROVE  InTime'
  <2>1. /\ UNCHANGED <<state, index, events, inMap, pending, batch, next, basePending, late, fault>>
        /\ revents' = Ready \ unready
    BY <1>5 DEF Poll
  <2>2. ("read" \in revents' \/ "hup" \in revents') => index = "kAdded"
    BY <2>1 DEF Ready
  <2> QED
    BY <2>1, <2>2 DEF InTime, Waits
<1>6. CASE HandleHup
  <2>1. /\ "hup" \in revents /\ revents' = revents \ {"hup"} /\ fault = "none"
        /\ UNCHANGED <<state, late, batch, next>>
    BY <1>6 DEF HandleHup
  <2>2. CASE "read" \in revents
    <3>1. UNCHANGED <<events, index, inMap, basePending, fault>>
      BY <1>6, <2>2 DEF HandleHup
    <3> QED
      BY <1>1, <2>1, <3>1, InTimeSame
  <2>3. CASE "read" \notin revents
    <3>1. HandleClose
      BY <1>6, <2>3 DEF HandleHup
    <3> QED
      BY <1>1, <2>1, <2>3, <3>1, CloseInTime
  <2> QED
    BY <2>2, <2>3
<1>7. CASE HandleRead
  <2>1. /\ "read" \in revents /\ "hup" \notin revents /\ revents' = revents \ {"read"} /\ fault = "none"
        /\ UNCHANGED <<state, late, batch, next>>
    BY <1>7 DEF HandleRead
  <2>2. CASE data \/ ReadFails
    <3>1. UNCHANGED <<events, index, inMap, basePending, fault>>
      BY <1>7, <2>2 DEF HandleRead
    <3> QED
      BY <1>1, <2>1, <3>1, InTimeSame
  <2>3. CASE ~(data \/ ReadFails)
    <3>1. HandleClose
      BY <1>7, <2>3 DEF HandleRead
    <3> QED
      BY <1>1, <2>1, <3>1, CloseInTime
  <2> QED
    BY <2>2, <2>3
<1>8. ASSUME NEW n, HandleWrite(n)
      PROVE  InTime'
  <2>1. revents' = {} /\ UNCHANGED <<state, inMap, basePending, late, fault>>
    BY <1>8 DEF HandleWrite
  <2>2. CASE UNCHANGED <<events, index>>
    BY <1>1, <2>1, <2>2, InTimeSame
  <2>3. CASE Writing /\ UpdateChannel(events \ {"write"})
    <3> SUFFICES ASSUME ~late PROVE InTime'
      BY <2>1 DEF InTime
    <3>1. "read" \in events /\ events # {}
      BY <2>3 DEF InTime, Writing
    <3>2. "read" \in events' /\ index' = "kAdded"
      BY <2>3, <3>1 DEF UpdateChannel, IndexAfter
    <3> QED
      BY <2>1, <3>1, <3>2 DEF InTime
  <2> QED
    BY <1>8, <2>2, <2>3 DEF HandleWrite
<1>9. CASE RunConnectDestroyed
  <2>1. Waits("connectDestroyed")
    BY <1>1, <1>9 DEF RunConnectDestroyed, Runs, Waits, Rest, Control
  <2>2. ~inMap /\ state \in Connected
    BY <2>1 DEF DestroyedOnce
  <2>3. /\ events' = {} /\ index' = "kNew" /\ UNCHANGED <<revents, inMap, basePending, late, fault>>
    BY <1>9, <2>2 DEF RunConnectDestroyed, IndexRemoved
  <2> QED
    BY <2>2, <2>3 DEF InTime
<1>10. ASSUME NEW n, RunSend(n)
       PROVE  InTime'
  <2>1. CASE Alive
    BY <1>1, <1>10, <2>1, SendInTime DEF RunSend
  <2>2. CASE ~Alive
    BY <1>1, <1>10, <2>2, InTimeSame DEF RunSend
  <2> QED
    BY <2>1, <2>2
<1>11. ASSUME NEW n, LoopSend(n)
       PROVE  InTime'
  BY <1>1, <1>11, SendInTime DEF LoopSend
<1>12. CASE HandleError \/ RunWriteComplete \/ RunShutdown \/ CallbackReturns \/ SwapFunctors \/ EndFunctors
  <2>1. /\ UNCHANGED <<state, index, events, inMap, basePending, late>>
        /\ revents' \subseteq revents /\ fault' \in {fault, "dead"}
    BY <1>12 DEF HandleError, RunWriteComplete, RunShutdown, CallbackReturns, SwapFunctors, EndFunctors
  <2> QED
    BY <1>1, <2>1, InTimeSame
<1>13. CASE LoopShutdown \/ PeerSends \/ PeerCloses \/ UNCHANGED vars \/ \E t \in Threads : Share(t)
  <2>1. /\ UNCHANGED <<index, events, inMap, basePending, late, revents, fault>>
        /\ state' = state \/ state' \in Connected
    BY <1>13 DEF LoopShutdown, PeerSends, PeerCloses, Share, vars, Connected
  <2> QED
    BY <1>1, <2>1, InTimeSame
<1>14. ASSUME NEW t, ThreadGoesOn(t) \/ ThreadCalls(t)
       PROVE  InTime'
  <2>1. /\ UNCHANGED <<index, events, inMap, basePending, late, revents, fault>>
        /\ state' = state \/ state' \in Connected
    BY <1>14 DEF ThreadGoesOn, ThreadCalls, CallSendQueues, CallShutdownSets,
              CallShutdownQueues, CallSend, CallShutdown, Drop, At, Connected
  <2> QED
    BY <1>1, <2>1, InTimeSame
<1> QED
  BY <1>2, <1>3, <1>4, <1>5, <1>6, <1>7, <1>8, <1>9, <1>10, <1>11, <1>12, <1>13, <1>14
  DEF Next, Handlers, InCallback

\* What has yet to run is what Drop() looks for.
LEMMA WaitsWaiting ==
    ASSUME Control, NEW op, Waits(op)
    PROVE  op \in Waiting
<1>1. pending \in Seq(Ops) /\ batch \in Seq(Ops) /\ next \in 1 .. Len(batch) + 1
  BY DEF Control
<1>2. CASE In(op, pending)
  BY <1>1, <1>2 DEF In, Waiting, Range
<1>3. CASE Rest(op, batch, next)
  <2>1. PICK i \in next .. Len(batch) : batch[i] = op
    BY <1>3 DEF Rest
  <2>2. PICK r : r = SubSeq(batch, next, Len(batch))
    OBVIOUS
  <2>3. /\ i - next + 1 \in DOMAIN r /\ r[i - next + 1] = batch[i]
    BY <1>1, <2>1, <2>2
  <2>4. op \in Range(r)
    BY <2>1, <2>3 DEF Range
  <2> QED
    BY <2>2, <2>4 DEF Waiting
<1> QED
  BY <1>2, <1>3 DEF Waits

LEMMA HeldNext ==
    ASSUME StreamInv, HeldByThread, [Next]_vars
    PROVE  HeldByThread'
<1> USE DEF conn, loop, queues, program, threads, socket, ghosts
<1>1. Control
  BY DEF StreamInv
<1>2. ASSUME NEW S, Adds(S), "sendInLoop" \notin S, "shutdownInLoop" \notin S,
             abandoned' = abandoned, hold \subseteq hold', fault' # "dead" \/ fault' = fault
      PROVE  HeldByThread'
  <2>1. /\ Waits("sendInLoop")' => Waits("sendInLoop")
        /\ Waits("shutdownInLoop")' => Waits("shutdownInLoop")
    BY <1>1, <1>2, AddsWaits
  <2> QED
    BY <1>2, <2>1 DEF HeldByThread
<1>3. CASE SwapFunctors \/ EndFunctors
  <2>1. \A op : Waits(op)' => Waits(op)
    BY <1>3 DEF SwapFunctors, EndFunctors, Waits, In, Rest
  <2>2. UNCHANGED <<abandoned, hold, fault>>
    BY <1>3 DEF SwapFunctors, EndFunctors
  <2> QED
    BY <2>1, <2>2 DEF HeldByThread
<1>4. CASE Handlers /\ ~SwapFunctors /\ ~EndFunctors
  <2>1. Adds({"connectDestroyed"}) \/ Adds({"writeComplete"})
    BY <1>1, <1>4, HandlersAdd
  <2>2. abandoned' = abandoned /\ hold' = hold
    BY <1>4 DEF Handlers, HandleHup, HandleError, HandleRead, RunConnectEstablished,
       RunConnectDestroyed, RunWriteComplete, RunShutdown, CallbackReturns, HandleWrite, RunSend
  <2>3. ~abandoned => (fault' # "dead" \/ fault' = fault)
    <3>1. ASSUME ~abandoned, Runs("sendInLoop") \/ Runs("shutdownInLoop")
          PROVE  Alive
      <4>1. Waits("sendInLoop") \/ Waits("shutdownInLoop")
        BY <1>1, <3>1 DEF Runs, Waits, Rest, Control
      <4> QED
        BY <3>1, <4>1 DEF HeldByThread, Alive
    <3>2. ASSUME ~abandoned, RunShutdown \/ \E n \in 0 .. 2 : RunSend(n)
          PROVE  fault' = fault
      BY <3>1, <3>2 DEF RunShutdown, RunSend
    <3>3. ASSUME HandleHup \/ HandleRead
          PROVE  fault' # "dead" \/ fault' = fault
      <4>1. HandleClose \/ fault' = fault
        BY <3>3 DEF HandleHup, HandleRead
      <4> QED
        BY <4>1 DEF HandleClose, RemoveConnectionInLoop
    <3>4. ASSUME NEW n, HandleWrite(n)
          PROVE  fault' = fault
      BY <3>4 DEF HandleWrite
    <3>5. ASSUME HandleError \/ RunConnectEstablished \/ RunConnectDestroyed
                 \/ RunWriteComplete \/ CallbackReturns
          PROVE  fault' # "dead" \/ fault' = fault
      BY <3>5 DEF HandleError, RunConnectEstablished, RunConnectDestroyed, RunWriteComplete,
                  CallbackReturns
    <3> QED
      BY <1>4, <3>2, <3>3, <3>4, <3>5 DEF Handlers
  <2>4. CASE abandoned
    BY <2>2, <2>4 DEF HeldByThread
  <2> QED
    BY <1>2, <2>1, <2>2, <2>3, <2>4
<1>5. CASE NewConnection
  <2>1. Adds({"connectEstablished"}) /\ UNCHANGED <<abandoned, hold, fault>>
    BY <1>5 DEF NewConnection, Adds
  <2> QED
    BY <1>2, <2>1
<1>6. CASE BaseLoopRuns
  <2>1. /\ Adds({"connectDestroyed"}) /\ UNCHANGED <<abandoned, hold>>
        /\ fault' # "dead" \/ fault' = fault
    BY <1>6 DEF BaseLoopRuns, RemoveConnectionInLoop, Adds
  <2> QED
    BY <1>2, <2>1
<1>7. ASSUME NEW unready, Poll(unready)
      PROVE  HeldByThread'
  <2>1. Adds({}) /\ UNCHANGED <<abandoned, hold, fault>>
    BY <1>7 DEF Poll, Adds
  <2> QED
    BY <1>2, <2>1
<1>8. CASE LoopShutdown \/ PeerSends \/ PeerCloses \/ UNCHANGED vars \/ \E t \in Threads : Share(t)
  <2>1. Adds({}) /\ UNCHANGED <<abandoned, fault>> /\ hold \subseteq hold'
    BY <1>8 DEF LoopShutdown, PeerSends, PeerCloses, Share, vars, Adds
  <2> QED
    BY <1>2, <2>1
<1>9. ASSUME NEW n, LoopSend(n)
      PROVE  HeldByThread'
  <2>1. Adds({"writeComplete"}) /\ UNCHANGED <<abandoned, hold, fault>>
    BY <1>9, WriteCompleteAdds DEF LoopSend, SendInLoop, Adds
  <2> QED
    BY <1>2, <2>1
<1>10. ASSUME NEW t, ThreadGoesOn(t) \/ CallSend(t) \/ CallShutdown(t)
       PROVE  HeldByThread'
  <2>1. t \in hold /\ UNCHANGED <<abandoned, hold, fault>>
    BY <1>10 DEF ThreadGoesOn, CallSendQueues, CallShutdownSets, CallShutdownQueues,
                 CallSend, CallShutdown, At
  <2> QED
    BY <2>1 DEF HeldByThread
<1>11. ASSUME NEW t, Drop(t)
       PROVE  HeldByThread'
  <2>1. /\ Adds({}) /\ UNCHANGED <<pending, batch, next, fault>>
        /\ abandoned' = (abandoned \/ (hold' = {} /\ Waiting \cap Weak # {}))
    BY <1>11 DEF Drop, At, Adds
  <2>2. CASE hold' = {} /\ (Waits("sendInLoop") \/ Waits("shutdownInLoop"))
    <3>1. Waiting \cap Weak # {}
      BY <1>1, <2>2, WaitsWaiting DEF Weak
    <3> QED
      BY <2>1, <2>2, <3>1 DEF HeldByThread
  <2>3. CASE ~(hold' = {} /\ (Waits("sendInLoop") \/ Waits("shutdownInLoop")))
    BY <2>1, <2>3 DEF HeldByThread, Waits
  <2> QED
    BY <2>2, <2>3
<1> QED
  BY <1>3, <1>4, <1>5, <1>6, <1>7, <1>8, <1>9, <1>10, <1>11 DEF Next, InCallback, ThreadCalls

LEMMA ConnectionInvariant ==
    Spec => [](StreamInv /\ Early /\ DestroyedOnce /\ OneThread /\ InTime /\ HeldByThread)
<1> DEFINE Inv == StreamInv /\ Early /\ DestroyedOnce /\ OneThread /\ InTime /\ HeldByThread
<1>1. Init => Inv
  BY StreamInit, EarlyInit, DestroyedInit, OneThreadInit, InTimeInit
<1>2. Inv /\ [Next]_vars => Inv'
  BY StreamNext, EarlyNext, DestroyedNext, OneThreadNext, InTimeNext, HeldNext
<1> QED
  BY <1>1, <1>2, PTL DEF Spec

\* In a program of one thread no assertion of the code fails and no functor
\* finds the connection deleted.  With any threads, connectDestroyed() finds it
\* connected or disconnecting; the assertions of handleClose() and of the
\* removal fail only after a sendInLoop() that came after handleClose(), and a
\* functor finds the connection deleted only if the last thread let go first.
THEOREM ConnectionNoFault == Spec => []NoFault
<1>1. DestroyedOnce /\ OneThread /\ InTime /\ HeldByThread => NoFault
  BY DEF DestroyedOnce, OneThread, InTime, HeldByThread, NoFault
<1> QED
  BY <1>1, ConnectionInvariant, PTL

\* The EPoller has forgotten the channel before the connection is deleted, in
\* a program of one thread and, if no sendInLoop() enabled the channel after
\* handleClose(), in any.
THEOREM ConnectionPollerForgets == Spec => []PollerForgets
<1>1. StreamInv /\ Early /\ OneThread /\ InTime => PollerForgets
  <2> SUFFICES ASSUME StreamInv, Early, OneThread, InTime, sameLoop \/ ~late,
                      state # "kNone", ~Alive
               PROVE  index = "kNew"
    BY DEF PollerForgets
  <2>1. Control
    BY DEF StreamInv
  <2>2. /\ ~inMap /\ "connectDestroyed" \notin Range(pending) \cup Range(batch)
        /\ basePending = << >>
    BY DEF Alive, Strong
  <2>3. ~Waits("connectDestroyed")
    BY <2>1, <2>2 DEF Waits, In, Rest, Range, Control
  <2>4. CASE sameLoop
    BY <2>2, <2>3, <2>4 DEF OneThread
  <2>5. CASE ~late
    BY <2>1, <2>2, <2>3, <2>5 DEF InTime, Control
  <2> QED
    BY <2>4, <2>5
<1> QED
  BY <1>1, ConnectionInvariant, PTL

=============================================================================
