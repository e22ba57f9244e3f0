--------------------------- MODULE TcpServerProofs ---------------------------
(***************************************************************************)
(* Proofs about TcpServer, for any number of I/O loops, connections and    *)
(* calls of send() and any set of descriptors: what the pollers point at   *)
(* and which assertions can fail, and how getNextLoop() deals the          *)
(* connections out.                                                        *)
(***************************************************************************)
EXTENDS TcpServer, SequenceTheorems, FiniteSetTheorems, TLAPS

Ops == {"connectEstablished", "removeConnectionInLoop", "connectDestroyed", "sendInLoop"}
Call == [op : Ops, conn : Conns]
States == {"none", "kConnecting", "kConnected", "kDisconnecting", "kDisconnected", "deleted"}
Indexes == {"kNew", "kAdded", "kDeleted"}
Queues == [Loops -> Seq(Call)]

\* The functor is in the queue; and it is there once at most.
Has(s, f) == \E i \in 1 .. Len(s) : s[i] = f
Once(s, f) == \A i, j \in 1 .. Len(s) : s[i] = f /\ s[j] = f => i = j

\* The loop that runs a functor, and whether it is queued there.
Where(op, c) == IF op = "removeConnectionInLoop" THEN 0 ELSE loopOf[c]
HasIn(q, op, c) == Has(q[Where(op, c)], Functor(op, c))
OnceIn(q, op, c) == Once(q[Where(op, c)], Functor(op, c))
Queued(op, c) == HasIn(pending, op, c)
Single(op, c) == OnceIn(pending, op, c)

\* Every functor is queued in its own loop.
PlacedIn(q) ==
    \A l \in Loops, op \in Ops, c \in Conns : Has(q[l], Functor(op, c)) => l = Where(op, c)

\* What the types do not say: the queues are sequences of calls, and the
\* server accepts after start() only.
QueuesTyped ==
    /\ numThreads \in Loops /\ pending \in Queues /\ PlacedIn(pending)
    /\ started \in BOOLEAN /\ listening \in BOOLEAN /\ (listening => started)
    /\ ~started => loops = 0 /\ next = 0 /\ nextConnId = 1
    /\ started => loops = numThreads

\* Connections have the numbers below nextConnId_.
Numbered == \A c \in Conns : state[c] = "none" <=> c >= nextConnId

\* A connection is in connections_ until it is on its way to
\* connectDestroyed(), which is queued once.
Removal(c) ==
    /\ state[c] = "kConnecting" => c \in connections /\ index[c] = "kNew"
    /\ c \in connections => state[c] \in Connected \cup {"kConnecting"}
    /\ Queued("connectEstablished", c) => state[c] = "kConnecting" /\ Single("connectEstablished", c)
    /\ Queued("connectDestroyed", c) =>
         c \notin connections /\ state[c] \in Connected /\ Single("connectDestroyed", c)
    /\ Queued("removeConnectionInLoop", c) => state[c] \notin {"none", "kConnecting"}

\* Unless a sendInLoop() came too late for the connection: its channel is
\* enabled only while it is in connections_ and no removal is queued, and
\* some functor will remove from the poller the channel that is disabled.
InTime(c) ==
    c \notin late =>
        /\ Queued("removeConnectionInLoop", c) =>
             c \in connections /\ index[c] = "kDeleted" /\ Single("removeConnectionInLoop", c)
        /\ index[c] # "kNew" =>
             state[c] \in Connected /\ (c \in connections \/ Queued("connectDestroyed", c))
        /\ index[c] = "kAdded" => c \in connections

\* A thread that keeps a connection keeps it alive, also for the sendInLoop()
\* that it queued, unless it let go first.
Users(c) ==
    /\ Queued("sendInLoop", c) => state[c] \notin {"none", "kConnecting"} /\ c \in held \cup abandoned
    /\ c \in held => state[c] \notin {"none", "kConnecting", "deleted"}
    /\ c \in late => state[c] # "none"

ConnInv(c) == Removal(c) /\ InTime(c) /\ Users(c)

\* No two live connections have the same descriptor.
OwnDescriptors ==
    \A c, d \in Conns : c # d /\ Open(c) /\ Open(d) => fd[c] # fd[d]

Faults ==
    /\ fault \in {"channels", "erase", "close"} => late # {}
    /\ fault = "dead" => abandoned # {}
    /\ fault \notin {"established", "destroyed"}

\* The inductive invariant behind PollersSafe.
Inv == TypeOK /\ QueuesTyped /\ Numbered /\ (\A c \in Conns : ConnInv(c)) /\ OwnDescriptors /\ Faults

-----------------------------------------------------------------------------
(* The queues.                                                             *)

LEMMA FunctorType ==
  /\ \A op \in Ops, c \in Conns : Functor(op, c) \in Call
  /\ \A op, op2, c, c2 : Functor(op, c) = Functor(op2, c2) => op = op2 /\ c = c2
  BY DEF Functor, Call

\* Appending a functor adds it and keeps the others.
LEMMA AppendFunctor ==
  ASSUME NEW s \in Seq(Call), NEW f \in Call
  PROVE  /\ Append(s, f) \in Seq(Call)
         /\ \A g : Has(Append(s, f), g) <=> (g = f \/ Has(s, g))
         /\ \A g : Once(s, g) /\ (g # f \/ ~Has(s, g)) => Once(Append(s, f), g)
  <1>1. /\ Append(s, f) \in Seq(Call) /\ Len(Append(s, f)) = Len(s) + 1 /\ Len(s) \in Nat
        /\ \A i \in 1 .. Len(s) : Append(s, f)[i] = s[i]
        /\ Append(s, f)[Len(s) + 1] = f
    OBVIOUS
  <1>2. \A i \in 1 .. Len(s) + 1 : i \in 1 .. Len(s) \/ i = Len(s) + 1
    BY <1>1
  <1>3. Len(s) + 1 \in 1 .. Len(s) + 1 /\ \A i \in 1 .. Len(s) : i \in 1 .. Len(s) + 1
    BY <1>1
  <1>4. \A g : Has(Append(s, f), g) <=> (g = f \/ Has(s, g))
    BY <1>1, <1>2, <1>3 DEF Has
  <1>5. ASSUME NEW g, Once(s, g), g # f \/ ~Has(s, g),
               NEW i \in 1 .. Len(s) + 1, NEW j \in 1 .. Len(s) + 1,
               Append(s, f)[i] = g, Append(s, f)[j] = g
        PROVE  i = j
    <2>1. CASE i \in 1 .. Len(s) /\ j \in 1 .. Len(s)
      BY <1>1, <1>5, <2>1 DEF Once
    <2>2. CASE i = Len(s) + 1 /\ j \in 1 .. Len(s)
      BY <1>1, <1>5, <2>2 DEF Has
    <2>3. CASE i \in 1 .. Len(s) /\ j = Len(s) + 1
      BY <1>1, <1>5, <2>3 DEF Has
    <2>4. QED
      BY <1>2, <2>1, <2>2, <2>3
  <1>6. QED
    BY <1>1, <1>4, <1>5 DEF Once

\* Taking the head off keeps the functors that are different from it.
LEMMA TailFunctor ==
  ASSUME NEW s \in Seq(Call), s # << >>
  PROVE  /\ Tail(s) \in Seq(Call) /\ Head(s) \in Call
         /\ Has(s, Head(s))
         /\ \A g : Has(Tail(s), g) => Has(s, g)
         /\ \A g : g # Head(s) /\ Has(s, g) => Has(Tail(s), g)
         /\ \A g : Once(s, g) => Once(Tail(s), g)
         /\ Once(s, Head(s)) => ~Has(Tail(s), Head(s))
  <1>1. /\ Tail(s) \in Seq(Call) /\ Len(s) \in Nat /\ Len(s) >= 1 /\ Len(Tail(s)) = Len(s) - 1
        /\ \A i \in 1 .. Len(s) - 1 : Tail(s)[i] = s[i + 1]
        /\ Head(s) = s[1] /\ Head(s) \in Call
    OBVIOUS
  <1>2. ASSUME NEW g, NEW i \in 1 .. Len(s), s[i] = g, g # Head(s)
        PROVE  i - 1 \in 1 .. Len(Tail(s)) /\ Tail(s)[i - 1] = g
    <2>1. i # 1
      BY <1>1, <1>2
    <2>2. i - 1 \in 1 .. Len(s) - 1
      BY <1>1, <2>1
    <2>3. QED
      BY <1>1, <1>2, <2>2
  <1>3. ASSUME NEW i \in 1 .. Len(Tail(s))
        PROVE  i + 1 \in 1 .. Len(s) /\ s[i + 1] = Tail(s)[i] /\ i + 1 # 1
    BY <1>1, <1>3
  <1>4. 1 \in 1 .. Len(s)
    BY <1>1
  <1>5. \A g : Once(s, g) => Once(Tail(s), g)
    BY <1>1, <1>3 DEF Once
  <1>6. Once(s, Head(s)) => ~Has(Tail(s), Head(s))
    BY <1>1, <1>3, <1>4 DEF Once, Has
  <1>7. QED
    BY <1>1, <1>2, <1>3, <1>4, <1>5, <1>6 DEF Has

\* queueInLoop() of a functor in its own loop.
LEMMA Put ==
  ASSUME Inv, NEW q \in Queues, PlacedIn(q), NEW op \in Ops, NEW c \in Conns
  PROVE  LET r == QueueInLoop(q, Where(op, c), op, c) IN
         /\ r \in Queues /\ PlacedIn(r)
         /\ \A op2 \in Ops, d \in Conns :
              /\ HasIn(r, op2, d) <=> (HasIn(q, op2, d) \/ (op2 = op /\ d = c))
              /\ OnceIn(q, op2, d) /\ (op2 # op \/ d # c \/ ~HasIn(q, op, c)) => OnceIn(r, op2, d)
  <1> DEFINE l == Where(op, c)
             r == [q EXCEPT ![l] = Append(@, Functor(op, c))]
  <1>1. /\ l \in Loops /\ \A op2 \in Ops, d \in Conns : Where(op2, d) \in Loops
        /\ Functor(op, c) \in Call
    BY TcpServerAssumption, FunctorType DEF Inv, TypeOK, Where, Loops
  <1>2. /\ r \in Queues /\ \A k \in Loops \ {l} : r[k] = q[k]
        /\ r[l] = Append(q[l], Functor(op, c)) /\ q[l] \in Seq(Call)
    BY <1>1, AppendFunctor DEF Queues
  <1>3. /\ \A g : Has(r[l], g) <=> (g = Functor(op, c) \/ Has(q[l], g))
        /\ \A g : Once(q[l], g) /\ (g # Functor(op, c) \/ ~Has(q[l], g)) => Once(r[l], g)
    BY <1>1, <1>2, AppendFunctor
  <1> HIDE DEF r, l
  <1>4. PlacedIn(r)
    BY <1>2, <1>3, FunctorType DEF PlacedIn, l
  <1>5. ASSUME NEW op2 \in Ops, NEW d \in Conns
        PROVE  /\ HasIn(r, op2, d) <=> (HasIn(q, op2, d) \/ (op2 = op /\ d = c))
               /\ OnceIn(q, op2, d) /\ (op2 # op \/ d # c \/ ~HasIn(q, op, c)) => OnceIn(r, op2, d)
    <2>1. CASE Where(op2, d) = l
      BY <1>3, <2>1, FunctorType DEF HasIn, OnceIn, l
    <2>2. CASE Where(op2, d) # l
      BY <1>1, <1>2, <2>2 DEF HasIn, OnceIn, l
    <2>3. QED
      BY <2>1, <2>2
  <1>6. QED
    BY <1>2, <1>4, <1>5 DEF QueueInLoop, r, l

\* Running the functor at the head of a queue.
LEMMA Take ==
  ASSUME Inv, NEW l \in Loops, pending[l] # << >>
  PROVE  LET f == Head(pending[l])
             r == [pending EXCEPT ![l] = Tail(@)]
         IN  /\ f.op \in Ops /\ f.conn \in Conns /\ Queued(f.op, f.conn)
             /\ r \in Queues /\ PlacedIn(r)
             /\ \A op \in Ops, d \in Conns :
                  /\ HasIn(r, op, d) => Queued(op, d)
                  /\ Queued(op, d) /\ (op # f.op \/ d # f.conn) => HasIn(r, op, d)
                  /\ Single(op, d) => OnceIn(r, op, d)
             /\ Single(f.op, f.conn) => ~HasIn(r, f.op, f.conn)
  <1> DEFINE f == Head(pending[l])
             r == [pending EXCEPT ![l] = Tail(@)]
  <1>1. /\ pending \in Queues /\ PlacedIn(pending) /\ pending[l] \in Seq(Call)
        /\ \A op \in Ops, d \in Conns : Where(op, d) \in Loops
    BY TcpServerAssumption DEF Inv, TypeOK, QueuesTyped, Where, Loops, Queues
  <1>2. /\ Tail(pending[l]) \in Seq(Call) /\ f \in Call /\ Has(pending[l], f)
        /\ \A g : Has(Tail(pending[l]), g) => Has(pending[l], g)
        /\ \A g : g # f /\ Has(pending[l], g) => Has(Tail(pending[l]), g)
        /\ \A g : Once(pending[l], g) => Once(Tail(pending[l]), g)
        /\ Once(pending[l], f) => ~Has(Tail(pending[l]), f)
    BY <1>1, TailFunctor
  <1>3. f.op \in Ops /\ f.conn \in Conns /\ f = Functor(f.op, f.conn)
    BY <1>2 DEF Call, Functor
  <1>4. /\ r \in Queues /\ \A k \in Loops \ {l} : r[k] = pending[k]
        /\ r[l] = Tail(pending[l])
    BY <1>1, <1>2 DEF Queues
  <1> HIDE DEF f, r
  <1>5. l = Where(f.op, f.conn)
    BY <1>1, <1>2, <1>3 DEF PlacedIn
  <1>6. PlacedIn(r)
    BY <1>1, <1>2, <1>4 DEF PlacedIn
  <1>7. ASSUME NEW op \in Ops, NEW d \in Conns
        PROVE  /\ HasIn(r, op, d) => Queued(op, d)
               /\ Queued(op, d) /\ (op # f.op \/ d # f.conn) => HasIn(r, op, d)
               /\ Single(op, d) => OnceIn(r, op, d)
    <2>1. CASE Where(op, d) = l
      <3>1. op # f.op \/ d # f.conn => Functor(op, d) # f
        BY <1>3, FunctorType
      <3>2. QED
        BY <1>2, <1>4, <2>1, <3>1 DEF HasIn, OnceIn, Queued, Single
    <2>2. CASE Where(op, d) # l
      BY <1>1, <1>4, <2>2 DEF HasIn, OnceIn, Queued, Single
    <2>3. QED
      BY <2>1, <2>2
  <1>8. Queued(f.op, f.conn) /\ (Single(f.op, f.conn) => ~HasIn(r, f.op, f.conn))
    BY <1>2, <1>3, <1>4, <1>5 DEF HasIn, Queued, Single, OnceIn
  <1>9. QED
    BY <1>3, <1>4, <1>6, <1>7, <1>8 DEF f, r

\* TypeOK speaks of the functors' ranges, QueuesTyped of their types.
LEMMA RangesTyped ==
  ASSUME NEW q \in Queues
  PROVE  \A l \in Loops : \A f \in Range(q[l]) :
           /\ f.op \in {"connectEstablished", "removeConnectionInLoop", "connectDestroyed", "sendInLoop"}
           /\ f.conn \in Conns
  <1> SUFFICES ASSUME NEW l \in Loops, NEW f \in Range(q[l])
               PROVE  f \in Call
    BY DEF Call, Ops
  <1>1. PICK i \in DOMAIN q[l] : f = q[l][i]
    BY DEF Range
  <1>2. QED
    BY <1>1 DEF Queues

\* A queued functor is in the range of its queue.
LEMMA QueuedRange ==
  ASSUME Inv, NEW op \in Ops, NEW c \in Conns, Queued(op, c)
  PROVE  Where(op, c) \in Loops /\ Functor(op, c) \in Range(pending[Where(op, c)])
  <1>1. Where(op, c) \in Loops /\ pending \in Queues
    BY TcpServerAssumption DEF Inv, TypeOK, QueuesTyped, Where, Loops
  <1>2. PICK i \in 1 .. Len(pending[Where(op, c)]) : pending[Where(op, c)][i] = Functor(op, c)
    BY DEF Queued, HasIn, Has
  <1>3. QED
    BY <1>1, <1>2 DEF Queues, Range

-----------------------------------------------------------------------------
(* Every action preserves the invariant.                                   *)

LEMMA InitInv == Init => Inv
  <1> SUFFICES ASSUME Init PROVE Inv
    OBVIOUS
  <1> USE TcpServerAssumption DEF Init, Loops, Conns
  <1>1. pending \in Queues /\ \A l \in Loops : Len(pending[l]) = 0
    BY DEF Queues
  <1>2. TypeOK
    <2>1. \A l \in Loops : \A f \in Range(pending[l]) : f.op \in Ops /\ f.conn \in Conns
      BY <1>1, RangesTyped DEF Ops
    <2>2. /\ loops \in {0, numThreads} /\ next = 0 /\ nextConnId \in 1 .. MaxConns + 1
          /\ connections \subseteq Conns /\ held \subseteq Conns /\ sending \subseteq held
          /\ sends \in 0 .. MaxSends /\ late \subseteq Conns /\ abandoned \subseteq Conns
          /\ fault = "none"
      OBVIOUS
    <2>3. /\ loopOf \in [Conns -> Loops] /\ fd \in [Conns -> Fds \cup {-1}]
          /\ state \in [Conns -> Connected \cup {"none", "kConnecting", "kDisconnected", "deleted"}]
          /\ index \in [Conns -> {"kNew", "kAdded", "kDeleted"}]
      BY DEF Connected
    <2>4. QED
      BY <2>1, <2>2, <2>3 DEF TypeOK, Ops
  <1>3. QueuesTyped
    <2>1. \A l \in Loops : \A g : ~Has(pending[l], g)
      BY <1>1 DEF Has
    <2>2. PlacedIn(pending)
      BY <2>1 DEF PlacedIn
    <2>3. QED
      BY <1>1, <2>2 DEF QueuesTyped
  <1>4. Numbered /\ OwnDescriptors /\ Faults
    BY <1>1 DEF Numbered, OwnDescriptors, Open, Faults
  <1>5. ASSUME NEW c \in Conns PROVE ConnInv(c)
    <2>1. \A op \in Ops : ~Queued(op, c)
      <3>1. \A op \in Ops : Where(op, c) \in Loops
        BY <1>5 DEF Where
      <3>2. QED
        BY <1>1, <3>1 DEF Queued, HasIn, Has
    <2>2. QED
      BY <1>5, <2>1 DEF ConnInv, Removal, InTime, Users, Ops
  <1>6. QED
    BY <1>2, <1>3, <1>4, <1>5 DEF Inv

\* The facts of the invariant that the actions use.
LEMMA Facts ==
  ASSUME Inv
  PROVE  /\ state \in [Conns -> States] /\ index \in [Conns -> Indexes]
         /\ loopOf \in [Conns -> Loops] /\ fd \in [Conns -> Fds \cup {-1}]
         /\ pending \in Queues /\ PlacedIn(pending) /\ 0 \in Loops
         /\ connections \subseteq Conns /\ held \subseteq Conns /\ late \subseteq Conns
         /\ sending \subseteq held /\ abandoned \subseteq Conns
  BY TcpServerAssumption DEF Inv, TypeOK, QueuesTyped, Loops, States, Indexes, Connected

\* What a step leaves alone of a connection that it is not about.
Kept(d) ==
    /\ state'[d] = state[d] /\ index'[d] = index[d] /\ loopOf'[d] = loopOf[d]
    /\ (d \in connections' <=> d \in connections)
    /\ (d \in late' <=> d \in late) /\ (d \in held' <=> d \in held)
    /\ d \in abandoned => d \in abandoned'
    /\ \A op \in Ops :
         /\ HasIn(pending', op, d) <=> Queued(op, d)
         /\ Single(op, d) => OnceIn(pending', op, d)

LEMMA KeptInv ==
  ASSUME NEW d \in Conns, ConnInv(d), Kept(d)
  PROVE  ConnInv(d)'
  <1>1. \A op \in Ops : (Queued(op, d)' <=> Queued(op, d)) /\ (Single(op, d) => Single(op, d)')
    BY DEF Kept, Queued, Single, HasIn, OnceIn, Where
  <1>2. Removal(d)'
    BY <1>1 DEF Kept, ConnInv, Removal, Ops
  <1>3. InTime(d)'
    BY <1>1 DEF Kept, ConnInv, InTime, Ops
  <1>4. Users(d)'
    BY <1>1 DEF Kept, ConnInv, Users, Ops
  <1>5. QED
    BY <1>2, <1>3, <1>4 DEF ConnInv

\* The types of a step that accepts no connection.
StepTyped ==
    /\ UNCHANGED <<pool, listening, nextConnId, loopOf, fd>>
    /\ pending' \in Queues /\ PlacedIn(pending')
    /\ connections' \subseteq Conns /\ late' \subseteq Conns /\ abandoned' \subseteq Conns
    /\ held' \subseteq Conns /\ sending' \subseteq held' /\ sends' \in 0 .. MaxSends
    /\ state' \in [Conns -> States] /\ index' \in [Conns -> Indexes]
    /\ fault' \in {"none", "channels", "erase", "close", "dead"}
    /\ \A d \in Conns : state'[d] # state[d] => Open(d) /\ state'[d] # "none"

\* A step that accepts no connection and is about connection c preserves the
\* invariant if it does so for c.
LEMMA OneConnection ==
  ASSUME Inv, NEW c \in Conns, StepTyped, \A d \in Conns \ {c} : Kept(d), ConnInv(c)', Faults'
  PROVE  Inv'
  <1>1. TypeOK'
    <2>1. \A l \in Loops : \A f \in Range(pending'[l]) : f.op \in Ops /\ f.conn \in Conns
      BY RangesTyped DEF Ops, StepTyped
    <2>2. /\ state' \in [Conns -> Connected \cup {"none", "kConnecting", "kDisconnected", "deleted"}]
          /\ index' \in [Conns -> {"kNew", "kAdded", "kDeleted"}]
      BY DEF States, Indexes, Connected, StepTyped
    <2>3. QED
      BY <2>1, <2>2 DEF Inv, TypeOK, pool, Ops, StepTyped
  <1>2. QueuesTyped'
    BY DEF Inv, QueuesTyped, pool, PlacedIn, Where, StepTyped
  <1>3. Numbered'
    BY DEF Inv, Numbered, Open, StepTyped
  <1>4. OwnDescriptors'
    BY DEF Inv, OwnDescriptors, Open, StepTyped
  <1>5. \A d \in Conns : ConnInv(d)'
    BY KeptInv DEF Inv
  <1>6. QED
    BY <1>1, <1>2, <1>3, <1>4, <1>5 DEF Inv

\* Queued and Single after a step in which no connection changes its loop.
LEMMA QueuesAfter ==
  ASSUME loopOf' = loopOf, NEW op, NEW c
  PROVE  (Queued(op, c)' <=> HasIn(pending', op, c)) /\ (Single(op, c)' <=> OnceIn(pending', op, c))
  BY DEF Queued, Single, HasIn, OnceIn, Where

\* What is not queued at all is queued once at most.
LEMMA NotQueued ==
  ASSUME NEW q, NEW op, NEW c, ~HasIn(q, op, c)
  PROVE  OnceIn(q, op, c)
  BY DEF HasIn, OnceIn, Has, Once

\* A channel that a poller knows, though its connection is deleted, is one
\* that a late sendInLoop() enabled.
LEMMA DeadChannelIsLate ==
  ASSUME Inv, NEW d \in Conns, index[d] # "kNew", ~Open(d)
  PROVE  d \in late
  BY DEF Inv, ConnInv, InTime, Open, Connected

LEMMA StartInv == Inv /\ Start => Inv'
  <1> SUFFICES ASSUME Inv, Start PROVE Inv'
    OBVIOUS
  <1>1. TypeOK' /\ QueuesTyped'
    BY DEF Inv, TypeOK, QueuesTyped, Start, StartPool, Listen, Loops, users, PlacedIn, Where
  <1>2. Numbered' /\ OwnDescriptors' /\ Faults'
    BY DEF Inv, Numbered, OwnDescriptors, Faults, Start, Open, users
  <1>3. ASSUME NEW d \in Conns PROVE Kept(d)
    BY DEF Start, users, Kept, Queued, Single
  <1>4. \A d \in Conns : ConnInv(d)'
    BY <1>3, KeptInv DEF Inv
  <1>5. QED
    BY <1>1, <1>2, <1>4 DEF Inv

\* getNextLoop() returns a loop of the pool, and next_ stays in its range.
LEMMA NextLoopType ==
  ASSUME Inv
  PROVE  /\ NextLoop \in Loops /\ (loops > 0 => NextLoop = next + 1 /\ NextLoop \in 1 .. loops)
         /\ AfterNext = 0 \/ AfterNext \in 1 .. loops - 1
  BY TcpServerAssumption
     DEF Inv, TypeOK, QueuesTyped, NextLoop, AfterNext, Loops

\* newConnection(): nothing was queued for a connection that did not exist.
LEMMA NewConnectionInv ==
  ASSUME Inv, NEW f \in Fds, NewConnection(f)
  PROVE  Inv'
  <1>0. PICK c \in Conns : c = nextConnId
    BY DEF NewConnection
  <1> DEFINE l == NextLoop
             e == Functor("connectEstablished", c)
  <1>1. c \in Conns /\ l \in Loops /\ state[c] = "none" /\ started
    BY <1>0, NextLoopType DEF Inv, Numbered, QueuesTyped, NewConnection, Conns, Accepts
  <1>2. c \notin connections /\ c \notin late /\ c \notin held /\ index[c] = "kNew"
    BY <1>1 DEF Inv, ConnInv, Removal, InTime, Users, Connected
  <1>3. \A k \in Loops, op \in Ops : ~Has(pending[k], Functor(op, c))
    <2>1. \A op \in Ops : ~Queued(op, c)
      BY <1>1 DEF Inv, ConnInv, Removal, Users, Ops, Connected
    <2>2. QED
      BY <1>1, <2>1 DEF Inv, QueuesTyped, PlacedIn, Queued, HasIn
  <1>4. /\ connections' = connections \cup {c}
        /\ loopOf' = [loopOf EXCEPT ![c] = l] /\ fd' = [fd EXCEPT ![c] = f]
        /\ nextConnId' = c + 1 /\ next' = AfterNext
        /\ UNCHANGED <<numThreads, loops, started, listening, held, sending, sends, abandoned, late>>
        /\ listening /\ \A d \in Conns : Open(d) => fd[d] # f
        /\ fault = "none"
    BY <1>0 DEF NewConnection, Accepts, users
  <1>5. \/ /\ state' = [state EXCEPT ![c] = "kConnected"]
           /\ index' = [index EXCEPT ![c] = "kAdded"]
           /\ pending' = pending /\ fault' = fault
        \/ /\ state' = [state EXCEPT ![c] = "kConnected"]
           /\ index' = index
           /\ pending' = pending /\ fault' = "channels"
           /\ \E d \in Conns : index[d] # "kNew" /\ fd[d] = f
        \/ /\ state' = [state EXCEPT ![c] = "kConnecting"]
           /\ pending' = [pending EXCEPT ![l] = Append(@, e)]
           /\ index' = index /\ fault' = fault
    BY <1>0 DEF NewConnection, Established, EnableChannel, QueueInLoop
  <1>6. fault' \in {"none", "channels"} /\ Faults'
    <2>1. (\E d \in Conns : index[d] # "kNew" /\ fd[d] = f) => late # {}
      BY <1>4, DeadChannelIsLate
    <2>2. QED
      BY <1>4, <1>5, <2>1 DEF Faults
  <1>7. /\ pending \in Queues /\ state \in [Conns -> States] /\ index \in [Conns -> Indexes]
        /\ loopOf \in [Conns -> Loops] /\ fd \in [Conns -> Fds \cup {-1}]
        /\ connections \subseteq Conns /\ e \in Call
    BY <1>1, Facts, FunctorType DEF Ops
  <1> HIDE DEF l
  <1>8. /\ pending' \in Queues
        /\ \A k \in Loops : \A g : g # e =>
             (Has(pending'[k], g) <=> Has(pending[k], g)) /\ (Once(pending[k], g) => Once(pending'[k], g))
        /\ \A k \in Loops : Has(pending'[k], e) => k = l /\ state'[c] = "kConnecting"
        /\ Once(pending'[l], e)
    <2>0. \A k \in Loops : ~Has(pending[k], e) /\ Once(pending[k], e) /\ pending[k] \in Seq(Call)
      BY <1>3, <1>7 DEF Ops, Has, Once, Queues
    <2>1. CASE pending' = pending
      BY <1>1, <1>7, <2>0, <2>1
    <2>2. CASE pending' = [pending EXCEPT ![l] = Append(@, e)] /\ state' = [state EXCEPT ![c] = "kConnecting"]
      <3>1. /\ Append(pending[l], e) \in Seq(Call)
            /\ \A g : Has(Append(pending[l], e), g) <=> (g = e \/ Has(pending[l], g))
            /\ \A g : Once(pending[l], g) /\ (g # e \/ ~Has(pending[l], g)) => Once(Append(pending[l], e), g)
        BY <1>1, <1>7, <2>0, AppendFunctor
      <3>2. /\ pending' \in Queues /\ pending'[l] = Append(pending[l], e)
            /\ \A k \in Loops \ {l} : pending'[k] = pending[k]
        BY <1>1, <1>7, <2>2, <3>1 DEF Queues
      <3>3. state'[c] = "kConnecting"
        BY <1>1, <1>7, <2>2
      <3>4. QED
        BY <1>1, <2>0, <3>1, <3>2, <3>3
    <2>3. QED
      BY <1>5, <2>1, <2>2
  <1>9. /\ state' \in [Conns -> States] /\ index' \in [Conns -> Indexes]
        /\ \A d \in Conns \ {c} : state'[d] = state[d] /\ index'[d] = index[d]
        /\ state'[c] = "kConnected" \/ (state'[c] = "kConnecting" /\ index'[c] = "kNew")
    BY <1>1, <1>2, <1>5, <1>7 DEF States, Indexes
  <1>10. /\ loopOf' \in [Conns -> Loops] /\ fd' \in [Conns -> Fds \cup {-1}]
         /\ \A d \in Conns \ {c} : loopOf'[d] = loopOf[d] /\ fd'[d] = fd[d]
         /\ fd'[c] = f /\ loopOf'[c] = l
    BY <1>1, <1>4, <1>7
  <1>11. ASSUME NEW d \in Conns \ {c} PROVE Kept(d)
    <2>1. \A op \in Ops : Where(op, d) \in Loops /\ Functor(op, d) # e
      BY <1>7, Facts, FunctorType DEF Where
    <2>2. QED
      BY <1>4, <1>8, <1>9, <1>10, <2>1 DEF Kept, Queued, Single, HasIn, OnceIn
  <1>12. ConnInv(c)'
    <2>1. \A op \in Ops : op # "connectEstablished" => ~Queued(op, c)'
      <3>1. \A op \in Ops : Where(op, c)' \in Loops /\ (op # "connectEstablished" => Functor(op, c) # e)
        BY <1>1, <1>10, Facts, FunctorType DEF Where
      <3>2. \A op \in Ops : op # "connectEstablished" => ~Has(pending'[Where(op, c)'], Functor(op, c))
        BY <1>3, <1>8, <3>1
      <3>3. QED
        BY <3>2 DEF Queued, HasIn
    <2>2. Queued("connectEstablished", c)' => state'[c] = "kConnecting" /\ Single("connectEstablished", c)'
      <3>1. Where("connectEstablished", c)' = l
        BY <1>10 DEF Where
      <3>2. QED
        BY <1>1, <1>8, <3>1 DEF Queued, Single, HasIn, OnceIn
    <2>3. c \in connections' /\ c \notin late' /\ c \notin held'
      BY <1>2, <1>4
    <2>4. Removal(c)'
      BY <1>9, <2>1, <2>2, <2>3 DEF Removal, Ops, Connected
    <2>5. InTime(c)'
      BY <1>9, <2>1, <2>3 DEF InTime, Ops, Connected
    <2>6. Users(c)'
      BY <1>9, <2>1, <2>3 DEF Users, Ops
    <2>7. QED
      BY <2>4, <2>5, <2>6 DEF ConnInv
  <1>13. TypeOK'
    <2>1. nextConnId' \in 1 .. MaxConns + 1
      BY <1>1, <1>4, TcpServerAssumption DEF Conns
    <2>2. connections' \subseteq Conns
      BY <1>1, <1>4, <1>7
    <2>3. next' = 0 \/ next' \in 1 .. loops' - 1
      BY <1>4, NextLoopType
    <2>4. \A k \in Loops : \A g \in Range(pending'[k]) : g.op \in Ops /\ g.conn \in Conns
      BY <1>8, RangesTyped DEF Ops
    <2>5. /\ state' \in [Conns -> Connected \cup {"none", "kConnecting", "kDisconnected", "deleted"}]
          /\ index' \in [Conns -> {"kNew", "kAdded", "kDeleted"}]
      BY <1>9 DEF States, Indexes, Connected
    <2>6. QED
      BY <1>4, <1>6, <1>10, <2>1, <2>2, <2>3, <2>4, <2>5 DEF Inv, TypeOK, Ops
  <1>14. QueuesTyped'
    <2>1. ASSUME NEW k \in Loops, NEW op \in Ops, NEW d \in Conns, Has(pending'[k], Functor(op, d))
          PROVE  k = Where(op, d)'
      <3>1. CASE Functor(op, d) = e
        BY <1>8, <1>10, <2>1, <3>1, FunctorType DEF Where
      <3>2. CASE Functor(op, d) # e
        <4>1. Has(pending[k], Functor(op, d))
          BY <1>8, <2>1, <3>2
        <4>2. d # c /\ k = Where(op, d)
          BY <1>3, <4>1, Facts DEF PlacedIn
        <4>3. QED
          BY <1>10, <4>2 DEF Where
      <3>3. QED
        BY <3>1, <3>2
    <2>2. PlacedIn(pending)'
      BY <2>1 DEF PlacedIn
    <2>3. QED
      BY <1>1, <1>4, <1>8, <2>2 DEF Inv, QueuesTyped
  <1>15. Numbered'
    <2>1. c \in Nat /\ \A d \in Conns : d \in Nat
      BY <1>1, TcpServerAssumption DEF Conns
    <2>2. QED
      BY <1>0, <1>1, <1>4, <1>9, <2>1 DEF Inv, Numbered
  <1>16. OwnDescriptors'
    BY <1>1, <1>4, <1>9, <1>10 DEF Inv, OwnDescriptors, Open
  <1>17. \A d \in Conns : ConnInv(d)'
    BY <1>11, <1>12, KeptInv DEF Inv
  <1>18. QED
    BY <1>6, <1>13, <1>14, <1>15, <1>16, <1>17 DEF Inv

\* handleClose(): a connection that is in time has its removal queued nowhere,
\* and is in connections_.
LEMMA HandleCloseInv ==
  ASSUME Inv, NEW c \in Conns, HandleClose(c)
  PROVE  Inv'
  <1>1. /\ UNCHANGED <<pool, listening, nextConnId, loopOf, fd, state, held, sending, sends, abandoned, late>>
        /\ fault = "none" /\ Open(c) /\ index[c] = "kAdded"
        /\ state \in [Conns -> States] /\ index \in [Conns -> Indexes] /\ pending \in Queues
        /\ PlacedIn(pending) /\ connections \subseteq Conns /\ sends \in 0 .. MaxSends
        /\ ConnInv(c) /\ loopOf[c] \in Loops
    BY Facts DEF HandleClose, users, Inv, TypeOK
  <1>2. CASE state[c] \notin Connected /\ fault' = "close" /\ UNCHANGED <<index, connections, pending>>
    <2>1. \A d \in Conns : Kept(d)
      BY <1>1, <1>2 DEF Kept, Queued, Single
    <2>2. Faults'
      BY <1>1, <1>2 DEF Faults, ConnInv, InTime
    <2>3. StepTyped
      BY <1>1, <1>2, Facts DEF StepTyped
    <2>4. QED
      BY <1>1, <2>1, <2>2, <2>3, KeptInv, OneConnection
  <1> DEFINE closed == state[c] \in Connected /\ index' = [index EXCEPT ![c] = "kDeleted"]
  <1>3. ASSUME closed
        PROVE  /\ index' \in [Conns -> Indexes] /\ index'[c] = "kDeleted"
               /\ \A d \in Conns \ {c} : index'[d] = index[d]
    BY <1>1, <1>3 DEF Indexes
  <1>4. ASSUME closed, loopOf[c] = 0, c \in connections,
               connections' = connections \ {c}, UNCHANGED fault,
               pending' = QueueInLoop(pending, loopOf[c], "connectDestroyed", c)
        PROVE  Inv'
    <2>1. /\ pending' \in Queues /\ PlacedIn(pending')
          /\ \A op2 \in Ops, d \in Conns :
               /\ HasIn(pending', op2, d) <=> (Queued(op2, d) \/ (op2 = "connectDestroyed" /\ d = c))
               /\ Single(op2, d) /\ (op2 # "connectDestroyed" \/ d # c \/ ~Queued("connectDestroyed", c))
                    => OnceIn(pending', op2, d)
      <3>1. Where("connectDestroyed", c) = loopOf[c] /\ "connectDestroyed" \in Ops
        BY DEF Where, Ops
      <3>2. QED
        BY <1>1, <1>4, <3>1, Put DEF Queued, Single
    <2>2. \A d \in Conns \ {c} : Kept(d)
      BY <1>1, <1>3, <1>4, <2>1 DEF Kept
    <2>3. /\ ~Queued("connectDestroyed", c) /\ ~Queued("connectEstablished", c)
          /\ c \notin late => ~Queued("removeConnectionInLoop", c)
      BY <1>1, <1>4 DEF ConnInv, Removal, InTime, Connected
    <2>4. /\ \A op \in Ops : Queued(op, c)' <=> (Queued(op, c) \/ op = "connectDestroyed")
          /\ Single("connectDestroyed", c)'
      <3>1. Single("connectDestroyed", c)
        BY <2>3, NotQueued DEF Queued, Single
      <3>2. QED
        BY <1>1, <2>1, <2>3, <3>1, QueuesAfter DEF Ops
    <2>5. Removal(c)'
      BY <1>1, <1>4, <2>3, <2>4 DEF ConnInv, Removal, Ops, Connected
    <2>6. InTime(c)'
      BY <1>1, <1>3, <1>4, <2>3, <2>4 DEF InTime, Ops
    <2>7. Users(c)'
      BY <1>1, <2>4 DEF ConnInv, Users, Ops
    <2>8. StepTyped /\ Faults'
      BY <1>1, <1>3, <1>4, <2>1, Facts DEF StepTyped, Faults
    <2>9. QED
      BY <2>2, <2>5, <2>6, <2>7, <2>8, OneConnection DEF ConnInv
  <1>5. ASSUME closed, c \notin connections, fault' = "erase", UNCHANGED <<pending, connections>>
        PROVE  Inv'
    <2>1. c \in late
      BY <1>1, <1>5 DEF ConnInv, InTime
    <2>2. \A d \in Conns \ {c} : Kept(d)
      BY <1>1, <1>3, <1>5 DEF Kept, Queued, Single
    <2>3. \A op \in Ops : (Queued(op, c)' <=> Queued(op, c)) /\ (Single(op, c)' <=> Single(op, c))
      BY <1>1, <1>5, QueuesAfter DEF Queued, Single
    <2>4. ConnInv(c)'
      BY <1>1, <1>3, <1>5, <2>1, <2>3 DEF ConnInv, Removal, InTime, Users, Ops, Connected
    <2>5. StepTyped /\ Faults'
      BY <1>1, <1>3, <1>5, <2>1, Facts DEF StepTyped, Faults
    <2>6. QED
      BY <2>2, <2>4, <2>5, OneConnection
  <1>6. ASSUME closed, UNCHANGED <<connections, fault>>,
               pending' = QueueInLoop(pending, 0, "removeConnectionInLoop", c)
        PROVE  Inv'
    <2>1. /\ pending' \in Queues /\ PlacedIn(pending')
          /\ \A op2 \in Ops, d \in Conns :
               /\ HasIn(pending', op2, d) <=> (Queued(op2, d) \/ (op2 = "removeConnectionInLoop" /\ d = c))
               /\ Single(op2, d) /\ (op2 # "removeConnectionInLoop" \/ d # c \/ ~Queued("removeConnectionInLoop", c))
                    => OnceIn(pending', op2, d)
      <3>1. Where("removeConnectionInLoop", c) = 0 /\ "removeConnectionInLoop" \in Ops
        BY DEF Where, Ops
      <3>2. QED
        BY <1>1, <1>6, <3>1, Put DEF Queued, Single
    <2>2. \A d \in Conns \ {c} : Kept(d)
      BY <1>1, <1>3, <1>6, <2>1 DEF Kept
    <2>3. c \notin late => ~Queued("removeConnectionInLoop", c) /\ c \in connections
      BY <1>1 DEF ConnInv, InTime
    <2>4. /\ \A op \in Ops : Queued(op, c)' <=> (Queued(op, c) \/ op = "removeConnectionInLoop")
          /\ \A op \in Ops : Single(op, c) /\ op # "removeConnectionInLoop" => Single(op, c)'
          /\ c \notin late => Single("removeConnectionInLoop", c)'
      <3>1. c \notin late => Single("removeConnectionInLoop", c)
        BY <2>3, NotQueued DEF Queued, Single
      <3>2. QED
        BY <1>1, <2>1, <2>3, <3>1, QueuesAfter DEF Ops
    <2>5. Removal(c)'
      BY <1>1, <1>3, <1>6, <2>4 DEF ConnInv, Removal, Ops, Connected
    <2>6. InTime(c)'
      BY <1>1, <1>3, <1>6, <2>3, <2>4 DEF InTime, Ops
    <2>7. Users(c)'
      BY <1>1, <2>4 DEF ConnInv, Users, Ops
    <2>8. StepTyped /\ Faults'
      BY <1>1, <1>3, <1>6, <2>1, Facts DEF StepTyped, Faults
    <2>9. QED
      BY <2>2, <2>5, <2>6, <2>7, <2>8, OneConnection DEF ConnInv
  <1>7. QED
    BY <1>2, <1>4, <1>5, <1>6 DEF HandleClose, RemoveConnectionInLoop

\* The actions that change one connection and no queue.
LEMMA SameQueuesInv ==
  ASSUME Inv, NEW c \in Conns,
         HandleWrite(c) \/ Delete(c) \/ Shutdown(c) \/ Hold(c) \/ CallSend(c) \/ LetGo(c)
  PROVE  Inv'
  <1>1. /\ UNCHANGED <<pool, listening, nextConnId, connections, loopOf, fd, pending, late, fault>>
        /\ state \in [Conns -> States] /\ index \in [Conns -> Indexes]
        /\ ConnInv(c) /\ fault = "none" /\ sends \in 0 .. MaxSends
    BY Facts DEF HandleWrite, Delete, Shutdown, Hold, CallSend, LetGo, server, users, Inv, TypeOK
  <1>2. \A op \in Ops, d \in Conns : (Queued(op, d)' <=> Queued(op, d)) /\ (Single(op, d)' <=> Single(op, d))
    BY <1>1, QueuesAfter DEF Queued, Single
  <1>3. Faults'
    BY <1>1 DEF Faults
  <1>4. CASE HandleWrite(c)
    <2>1. /\ c \in late /\ index' = [index EXCEPT ![c] = "kDeleted"]
          /\ UNCHANGED <<state, held, sending, sends, abandoned>> /\ Open(c)
      BY <1>4 DEF HandleWrite, users
    <2>2. \A d \in Conns \ {c} : Kept(d)
      BY <1>1, <2>1 DEF Kept, Queued, Single
    <2>3. index[c] = "kAdded"
      BY <1>4 DEF HandleWrite
    <2>4. ConnInv(c)'
      BY <1>1, <1>2, <2>1, <2>3 DEF ConnInv, Removal, InTime, Users, Ops
    <2>5. StepTyped
      BY <1>1, <2>1, Facts DEF StepTyped, Indexes
    <2>6. QED
      BY <1>3, <2>2, <2>4, <2>5, OneConnection
  <1>5. CASE Delete(c)
    <2>1. /\ Open(c) /\ Unreferenced(c) /\ state' = [state EXCEPT ![c] = "deleted"]
          /\ UNCHANGED <<index, held, sending, sends, abandoned>>
      BY <1>5 DEF Delete, users
    <2>2. \A d \in Conns \ {c} : Kept(d)
      BY <1>1, <2>1 DEF Kept, Queued, Single
    <2>3. c \notin connections /\ c \notin held /\ \A op \in Ops : Queued(op, c) => op = "sendInLoop"
      BY <2>1, QueuedRange DEF Unreferenced, Functor
    <2>4. c \notin late => index[c] = "kNew"
      BY <1>1, <2>3 DEF ConnInv, InTime, Ops
    <2>5. state'[c] = "deleted"
      BY <1>1, <2>1
    <2>6. ConnInv(c)'
      BY <1>1, <1>2, <2>1, <2>3, <2>4, <2>5 DEF ConnInv, Removal, InTime, Users, Ops
    <2>7. StepTyped
      BY <1>1, <2>1, Facts DEF StepTyped, States
    <2>8. QED
      BY <1>3, <2>2, <2>6, <2>7, OneConnection
  <1>6. CASE Shutdown(c)
    <2>1. /\ state[c] = "kConnected" /\ state' = [state EXCEPT ![c] = "kDisconnecting"]
          /\ UNCHANGED <<index, held, sending, sends, abandoned>>
      BY <1>6 DEF Shutdown, users
    <2>2. \A d \in Conns \ {c} : Kept(d)
      BY <1>1, <2>1 DEF Kept, Queued, Single
    <2>3. state'[c] = "kDisconnecting"
      BY <1>1, <2>1
    <2>4. ConnInv(c)'
      BY <1>1, <1>2, <2>1, <2>3 DEF ConnInv, Removal, InTime, Users, Ops, Connected
    <2>5. StepTyped
      BY <1>1, <2>1, Facts DEF StepTyped, States, Open
    <2>6. QED
      BY <1>3, <2>2, <2>4, <2>5, OneConnection
  <1>7. CASE Hold(c)
    <2>1. /\ state[c] \in Connected /\ held' = held \cup {c}
          /\ UNCHANGED <<state, index, sending, sends, abandoned>>
      BY <1>7 DEF Hold
    <2>2. \A d \in Conns \ {c} : Kept(d)
      BY <1>1, <2>1 DEF Kept, Queued, Single
    <2>3. ConnInv(c)'
      BY <1>1, <1>2, <2>1 DEF ConnInv, Removal, InTime, Users, Ops, Connected
    <2>4. StepTyped
      BY <1>1, <2>1, Facts DEF StepTyped
    <2>5. QED
      BY <1>3, <2>2, <2>3, <2>4, OneConnection
  <1>8. CASE CallSend(c)
    <2>1. /\ c \in held /\ sends < MaxSends /\ sending' = sending \cup {c} /\ sends' = sends + 1
          /\ UNCHANGED <<state, index, held, abandoned>>
      BY <1>8 DEF CallSend
    <2>2. \A d \in Conns : Kept(d)
      BY <1>1, <2>1 DEF Kept, Queued, Single
    <2>3. sends' \in 0 .. MaxSends
      BY <1>1, <2>1, TcpServerAssumption
    <2>4. StepTyped
      BY <1>1, <2>1, <2>3, Facts DEF StepTyped
    <2>5. QED
      BY <1>1, <1>3, <2>2, <2>4, KeptInv, OneConnection
  <1>9. CASE LetGo(c)
    <2>1. /\ c \notin sending /\ held' = held \ {c}
          /\ abandoned' = IF Functor("sendInLoop", c) \in Range(pending[loopOf[c]])
                            THEN abandoned \cup {c} ELSE abandoned
          /\ UNCHANGED <<state, index, sending, sends>>
      BY <1>9 DEF LetGo
    <2>2. \A d \in Conns \ {c} : Kept(d)
      BY <1>1, <2>1 DEF Kept, Queued, Single
    <2>3. Queued("sendInLoop", c) => c \in abandoned'
      BY <2>1, QueuedRange DEF Where, Ops
    <2>4. ConnInv(c)'
      BY <1>1, <1>2, <2>1, <2>3 DEF ConnInv, Removal, InTime, Users, Ops
    <2>5. StepTyped
      BY <1>1, <2>1, Facts DEF StepTyped
    <2>6. QED
      BY <1>3, <2>2, <2>4, <2>5, OneConnection
  <1>10. QED
    BY <1>4, <1>5, <1>6, <1>7, <1>8, <1>9

\* send() in another thread: the thread keeps the connection.
LEMMA CallSendQueuesInv ==
  ASSUME Inv, NEW c \in Conns, CallSendQueues(c)
  PROVE  Inv'
  <1>1. /\ UNCHANGED <<pool, listening, nextConnId, connections, loopOf, fd, state, index,
                       held, sends, abandoned, late, fault>>
        /\ c \in sending /\ sending' = sending \ {c} /\ fault = "none"
        /\ pending' = QueueInLoop(pending, loopOf[c], "sendInLoop", c)
        /\ ConnInv(c) /\ c \in held /\ sends \in 0 .. MaxSends
    BY Facts DEF CallSendQueues, server, Inv, TypeOK
  <1>2. /\ pending' \in Queues /\ PlacedIn(pending')
        /\ \A op2 \in Ops, d \in Conns :
             /\ HasIn(pending', op2, d) <=> (Queued(op2, d) \/ (op2 = "sendInLoop" /\ d = c))
             /\ Single(op2, d) /\ (op2 # "sendInLoop" \/ d # c) => OnceIn(pending', op2, d)
    <2>1. Where("sendInLoop", c) = loopOf[c] /\ "sendInLoop" \in Ops
      BY DEF Where, Ops
    <2>2. QED
      BY <1>1, <2>1, Put, Facts DEF Queued, Single
  <1>3. \A d \in Conns \ {c} : Kept(d)
    BY <1>1, <1>2 DEF Kept
  <1>4. /\ \A op \in Ops : Queued(op, c)' <=> (Queued(op, c) \/ op = "sendInLoop")
        /\ \A op \in Ops : Single(op, c) /\ op # "sendInLoop" => Single(op, c)'
    BY <1>1, <1>2, QueuesAfter
  <1>5. ConnInv(c)'
    BY <1>1, <1>4 DEF ConnInv, Removal, InTime, Users, Ops
  <1>6. StepTyped /\ Faults'
    BY <1>1, <1>2, Facts DEF StepTyped, Faults
  <1>7. QED
    BY <1>3, <1>5, <1>6, OneConnection

LEMMA RunFunctorInv ==
  ASSUME Inv, NEW l \in Loops, RunFunctor(l)
  PROVE  Inv'
  <1>1. PICK c \in Conns, fop \in Ops :
          Head(pending[l]).op = fop /\ Head(pending[l]).conn = c /\ Queued(fop, c)
    BY Take DEF RunFunctor
  <1> DEFINE rest == [pending EXCEPT ![l] = Tail(@)]
  <1>2. /\ rest \in Queues /\ PlacedIn(rest)
        /\ \A op \in Ops, d \in Conns :
             /\ HasIn(rest, op, d) => Queued(op, d)
             /\ Queued(op, d) /\ (op # fop \/ d # c) => HasIn(rest, op, d)
             /\ Single(op, d) => OnceIn(rest, op, d)
        /\ Single(fop, c) => ~HasIn(rest, fop, c)
    BY <1>1, Take DEF RunFunctor
  <1> HIDE DEF rest
  <1>3. /\ UNCHANGED <<pool, listening, nextConnId, loopOf, fd, held, sending, sends, abandoned>>
        /\ fault = "none" /\ state \in [Conns -> States] /\ index \in [Conns -> Indexes]
        /\ connections \subseteq Conns /\ sends \in 0 .. MaxSends /\ loopOf[c] \in Loops
        /\ ConnInv(c)
    BY Facts DEF RunFunctor, users, Inv, TypeOK
  <1>4. ASSUME pending' = rest
        PROVE  \A op \in Ops :
                 /\ Queued(op, c)' => Queued(op, c)
                 /\ Queued(op, c) /\ op # fop => Queued(op, c)'
                 /\ Single(op, c) => Single(op, c)'
                 /\ Single(fop, c) => ~Queued(fop, c)'
    BY <1>2, <1>3, <1>4, QueuesAfter
  <1>5. CASE fop = "connectEstablished" /\ pending' = rest /\ UNCHANGED <<connections, late>>
             /\ state[c] = "kConnecting" /\ Established(c, loopOf[c], fd[c])
    <2>1. /\ state' = [state EXCEPT ![c] = "kConnected"] /\ Open(c) /\ c \in connections /\ index[c] = "kNew"
          /\ \A op \in Ops : Queued(op, c) => op = "connectEstablished"
          /\ ~Queued("connectEstablished", c)' /\ c \notin held
      BY <1>1, <1>3, <1>4, <1>5 DEF Established, ConnInv, Removal, Users, Open, Ops, Connected
    <2>2. \/ index' = [index EXCEPT ![c] = "kAdded"] /\ fault' = fault
          \/ index' = index /\ fault' = "channels" /\ late # {}
      <3>1. ASSUME NEW d \in Conns \ {c}, index[d] # "kNew", fd[d] = fd[c]
            PROVE  late # {}
        BY <2>1, <3>1, DeadChannelIsLate DEF Inv, OwnDescriptors
      <3>2. QED
        BY <1>5, <3>1 DEF Established, EnableChannel
    <2>3. /\ state'[c] = "kConnected" /\ state' \in [Conns -> States] /\ index' \in [Conns -> Indexes]
          /\ \A d \in Conns \ {c} : state'[d] = state[d] /\ index'[d] = index[d]
      BY <1>3, <2>1, <2>2 DEF States, Indexes
    <2>4. \A d \in Conns \ {c} : Kept(d)
      BY <1>2, <1>3, <1>5, <2>3 DEF Kept
    <2>5. \A op \in Ops : ~Queued(op, c)'
      BY <1>4, <1>5, <2>1
    <2>6. ConnInv(c)'
      BY <1>3, <1>5, <2>1, <2>3, <2>5 DEF ConnInv, Removal, InTime, Users, Ops, Connected
    <2>7. StepTyped /\ Faults'
      BY <1>2, <1>3, <1>5, <2>1, <2>2, <2>3, Facts DEF StepTyped, Faults, Open
    <2>8. QED
      BY <2>4, <2>6, <2>7, OneConnection
  <1>6. CASE fop = "removeConnectionInLoop" /\ UNCHANGED <<state, index, late>>
             /\ c \notin connections /\ fault' = "erase" /\ pending' = rest /\ UNCHANGED connections
    <2>1. c \in late
      BY <1>1, <1>3, <1>6 DEF ConnInv, InTime
    <2>2. \A d \in Conns \ {c} : Kept(d)
      BY <1>2, <1>3, <1>6 DEF Kept
    <2>3. ConnInv(c)'
      BY <1>3, <1>4, <1>6, <2>1 DEF ConnInv, Removal, InTime, Users, Ops
    <2>4. StepTyped /\ Faults'
      BY <1>2, <1>3, <1>6, <2>1, Facts DEF StepTyped, Faults
    <2>5. QED
      BY <2>2, <2>3, <2>4, OneConnection
  <1>7. CASE fop = "removeConnectionInLoop" /\ UNCHANGED <<state, index, late, fault>>
             /\ c \in connections /\ connections' = connections \ {c}
             /\ pending' = QueueInLoop(rest, loopOf[c], "connectDestroyed", c)
    <2>1. /\ pending' \in Queues /\ PlacedIn(pending')
          /\ \A op2 \in Ops, d \in Conns :
               /\ HasIn(pending', op2, d) <=> (HasIn(rest, op2, d) \/ (op2 = "connectDestroyed" /\ d = c))
               /\ OnceIn(rest, op2, d) /\ (op2 # "connectDestroyed" \/ d # c \/ ~HasIn(rest, "connectDestroyed", c))
                    => OnceIn(pending', op2, d)
      <3>1. Where("connectDestroyed", c) = loopOf[c] /\ "connectDestroyed" \in Ops
        BY DEF Where, Ops
      <3>2. QED
        BY <1>2, <1>7, <3>1, Put
    <2>2. \A d \in Conns \ {c} : Kept(d)
      BY <1>2, <1>3, <1>7, <2>1 DEF Kept
    <2>3. /\ ~HasIn(rest, "connectDestroyed", c) /\ ~Queued("connectEstablished", c) /\ state[c] \in Connected
          /\ c \notin late => ~HasIn(rest, "removeConnectionInLoop", c) /\ index[c] = "kDeleted"
      <3>1. /\ ~Queued("connectDestroyed", c) /\ ~Queued("connectEstablished", c) /\ state[c] \in Connected
            /\ c \notin late => Single("removeConnectionInLoop", c) /\ index[c] = "kDeleted"
        BY <1>1, <1>3, <1>7 DEF ConnInv, Removal, InTime, Connected
      <3>2. QED
        BY <1>2, <1>7, <3>1 DEF Ops
    <2>4. /\ \A op \in Ops : Queued(op, c)' => Queued(op, c) \/ op = "connectDestroyed"
          /\ Queued("connectDestroyed", c)' /\ Single("connectDestroyed", c)'
          /\ c \notin late => ~Queued("removeConnectionInLoop", c)'
      <3>1. OnceIn(rest, "connectDestroyed", c)
        BY <2>3, NotQueued
      <3>2. QED
        BY <1>2, <1>3, <2>1, <2>3, <3>1, QueuesAfter DEF Ops
    <2>5. Removal(c)'
      BY <1>3, <1>7, <2>3, <2>4 DEF ConnInv, Removal, Ops, Connected
    <2>6. InTime(c)'
      BY <1>3, <1>7, <2>3, <2>4 DEF InTime, Ops
    <2>7. Users(c)'
      BY <1>3, <1>7, <2>4 DEF ConnInv, Users, Ops
    <2>8. StepTyped /\ Faults'
      BY <1>3, <1>7, <2>1, Facts DEF StepTyped, Faults
    <2>9. QED
      BY <2>2, <2>5, <2>6, <2>7, <2>8, OneConnection DEF ConnInv
  <1>8. CASE fop = "connectDestroyed" /\ pending' = rest /\ UNCHANGED <<connections, late>>
             /\ ConnectDestroyed(c)
    <2>1. c \notin connections /\ state[c] \in Connected /\ ~Queued("connectDestroyed", c)'
      BY <1>1, <1>3, <1>4, <1>8 DEF ConnInv, Removal
    <2>2. /\ state' = [state EXCEPT ![c] = "kDisconnected"] /\ index' = [index EXCEPT ![c] = "kNew"]
          /\ fault' = fault
      BY <1>8, <2>1 DEF ConnectDestroyed
    <2>3. /\ state'[c] = "kDisconnected" /\ index'[c] = "kNew"
          /\ state' \in [Conns -> States] /\ index' \in [Conns -> Indexes]
          /\ \A d \in Conns \ {c} : state'[d] = state[d] /\ index'[d] = index[d]
      BY <1>3, <2>2 DEF States, Indexes
    <2>4. \A d \in Conns \ {c} : Kept(d)
      BY <1>2, <1>3, <1>8, <2>3 DEF Kept
    <2>5. ConnInv(c)'
      <3>1. ~Queued("connectEstablished", c)'
        BY <1>3, <1>4, <1>8, <2>1 DEF ConnInv, Removal, Connected, Ops
      <3>2. QED
        BY <1>3, <1>4, <1>8, <2>1, <2>3, <3>1 DEF ConnInv, Removal, InTime, Users, Ops
    <2>6. StepTyped /\ Faults'
      BY <1>2, <1>3, <1>8, <2>1, <2>2, <2>3, Facts DEF StepTyped, Faults, Open, Connected
    <2>7. QED
      BY <2>4, <2>5, <2>6, OneConnection
  <1>9. CASE fop = "sendInLoop" /\ pending' = rest /\ UNCHANGED <<connections, state>>
             /\ \E leftOver \in BOOLEAN : SendInLoop(c, leftOver)
    <2>1. state[c] \notin {"none", "kConnecting"} /\ c \in held \cup abandoned /\ (~Open(c) => c \in abandoned)
      BY <1>1, <1>3, <1>9 DEF ConnInv, Users, Open
    <2>2. \/ fault' = "dead" /\ c \in abandoned /\ UNCHANGED <<index, late>>
          \/ UNCHANGED <<index, late, fault>>
          \/ /\ index' = [index EXCEPT ![c] = "kAdded"] /\ fault' = fault
             /\ late' = IF index[c] = "kAdded" THEN late ELSE late \cup {c}
          \/ fault' = "channels" /\ index' = index /\ late' = late \cup {c}
      BY <1>9, <2>1 DEF SendInLoop, EnableChannel
    <2>3. /\ index' \in [Conns -> Indexes] /\ late' \subseteq Conns
          /\ \A d \in Conns \ {c} : index'[d] = index[d] /\ (d \in late' <=> d \in late)
          /\ c \notin late' => c \notin late /\ index'[c] = index[c]
          /\ c \in late' => state[c] # "none"
      BY <1>3, <2>1, <2>2, Facts DEF Indexes
    <2>4. \A d \in Conns \ {c} : Kept(d)
      BY <1>2, <1>3, <1>9, <2>3 DEF Kept
    <2>5. ConnInv(c)'
      BY <1>3, <1>4, <1>9, <2>1, <2>3 DEF ConnInv, Removal, InTime, Users, Ops
    <2>6. Faults' /\ fault' \in {"none", "channels", "dead"}
      BY <1>3, <2>2 DEF Faults
    <2>7. StepTyped
      BY <1>2, <1>3, <1>9, <2>3, <2>6, Facts DEF StepTyped
    <2>8. QED
      BY <2>4, <2>5, <2>6, <2>7, OneConnection
  <1>10. Queued("connectEstablished", c) => state[c] = "kConnecting"
    BY <1>3 DEF ConnInv, Removal
  <1>11. QED
    BY <1>1, <1>5, <1>6, <1>7, <1>8, <1>9, <1>10 DEF RunFunctor, RemoveConnectionInLoop, rest

LEMMA StepInv == Inv /\ [Next]_vars => Inv'
  <1> SUFFICES ASSUME Inv, [Next]_vars PROVE Inv'
    OBVIOUS
  <1>1. CASE Start
    BY <1>1, StartInv
  <1>2. ASSUME NEW f \in Fds, NewConnection(f) PROVE Inv'
    BY <1>2, NewConnectionInv
  <1>3. ASSUME NEW l \in Loops, RunFunctor(l) PROVE Inv'
    BY <1>3, RunFunctorInv
  <1>4. ASSUME NEW c \in Conns, HandleClose(c) PROVE Inv'
    BY <1>4, HandleCloseInv
  <1>5. ASSUME NEW c \in Conns,
               HandleWrite(c) \/ Delete(c) \/ Shutdown(c) \/ Hold(c) \/ CallSend(c) \/ LetGo(c)
        PROVE  Inv'
    BY <1>5, SameQueuesInv
  <1>6. ASSUME NEW c \in Conns, CallSendQueues(c) PROVE Inv'
    BY <1>6, CallSendQueuesInv
  <1>7. CASE UNCHANGED vars
    <2>1. TypeOK' /\ QueuesTyped' /\ Numbered' /\ OwnDescriptors' /\ Faults'
      BY <1>7 DEF vars, pool, server, users, Inv, TypeOK, QueuesTyped, PlacedIn, Where, Numbered,
                  OwnDescriptors, Open, Faults
    <2>2. \A d \in Conns : Kept(d)
      BY <1>7 DEF vars, pool, server, users, Kept, Queued, Single
    <2>3. QED
      BY <2>1, <2>2, KeptInv DEF Inv
  <1>8. QED
    BY <1>1, <1>2, <1>3, <1>4, <1>5, <1>6, <1>7 DEF Next

LEMMA ServerInv == Spec => []Inv
  <1>1. QED
    BY InitInv, StepInv, PTL DEF Spec

\* For every number of loops, connections, descriptors and calls of send(),
\* and however removal in the base loop, destruction in the connection's own,
\* the threads of the user and the reuse of descriptors interleave: no poller
\* points at a deleted connection for which no sendInLoop() came after
\* handleClose(); the assertions of EPoller.cc:111, TcpServer.cc:96 and
\* TcpConnection.cc:191 hold until one does, those of TcpConnection.cc:126 and
\* 135 always, and a sendInLoop() finds its connection deleted only if the
\* thread that queued it let the connection go first.
THEOREM ServerPollersSafe == Spec => []PollersSafe
  <1>1. Inv => PollersSafe
    <2> SUFFICES ASSUME Inv PROVE PollersSafe
      OBVIOUS
    <2>1. \A c \in Conns \ late : index[c] # "kNew" => Open(c)
      BY DeadChannelIsLate
    <2>2. QED
      BY <2>1 DEF Inv, Faults, PollersSafe
  <1>2. QED
    BY <1>1, ServerInv, PTL

-----------------------------------------------------------------------------
(* Round robin.  Before next_, every I/O loop has one connection more than *)
(* from next_ on.                                                          *)

\* The connections given to a loop so far.
Assigned(l) == {c \in 1 .. nextConnId - 1 : loopOf[c] = l}

Dealt ==
    loops > 0 =>
        /\ Assigned(0) = {}
        /\ \E q \in Nat : \A l \in 1 .. loops :
             Cardinality(Assigned(l)) = IF l <= next THEN q + 1 ELSE q

LEMMA AssignedFinite ==
  ASSUME Inv
  PROVE  \A l : IsFiniteSet(Assigned(l)) /\ Cardinality(Assigned(l)) \in Nat
  <1>1. IsFiniteSet(1 .. nextConnId - 1)
    BY FS_Interval, TcpServerAssumption DEF Inv, TypeOK
  <1>2. QED
    BY <1>1, FS_Subset, FS_CardinalityType DEF Assigned

\* newConnection() gives the connection to the loop after next_, one of the
\* loops that were behind by one.
LEMMA NewConnectionDealt ==
  ASSUME Inv, Dealt, NEW f \in Fds, NewConnection(f)
  PROVE  Dealt'
  <1> SUFFICES ASSUME loops > 0
               PROVE  /\ Assigned(0)' = {}
                      /\ \E q \in Nat : \A l \in 1 .. loops :
                           Cardinality(Assigned(l)') = IF l <= next' THEN q + 1 ELSE q
    BY DEF Dealt, NewConnection
  <1> DEFINE c == nextConnId
  <1>0. /\ c \in Conns /\ c \in Nat /\ loops \in Nat /\ next \in Nat /\ next < loops
        /\ loopOf \in [Conns -> Loops]
        /\ loopOf' = [loopOf EXCEPT ![c] = next + 1] /\ nextConnId' = c + 1
        /\ next' = IF next + 1 >= loops THEN 0 ELSE next + 1
    <2>1. numThreads \in Nat /\ loops \in Nat
      BY TcpServerAssumption DEF Inv, TypeOK, QueuesTyped, Loops
    <2>2. next \in Nat /\ next < loops
      BY <2>1 DEF Inv, TypeOK
    <2>3. c \in Conns /\ c \in Nat /\ loopOf \in [Conns -> Loops]
      BY TcpServerAssumption DEF Inv, TypeOK, NewConnection, Conns
    <2>4. /\ loopOf' = [loopOf EXCEPT ![c] = NextLoop] /\ nextConnId' = c + 1
          /\ next' = AfterNext
      BY DEF NewConnection
    <2>5. NextLoop = next + 1 /\ AfterNext = IF next + 1 >= loops THEN 0 ELSE next + 1
      BY <2>1, <2>2 DEF NextLoop, AfterNext
    <2>6. QED
      BY <2>1, <2>2, <2>3, <2>4, <2>5
  <1>1. PICK k \in 1 .. loops :
          /\ c \in Conns /\ c \in Nat /\ loops \in Nat /\ next \in Nat /\ next < loops
          /\ k = next + 1
          /\ loopOf \in [Conns -> Loops]
          /\ loopOf' = [loopOf EXCEPT ![c] = k] /\ nextConnId' = c + 1
          /\ next' = IF next + 1 >= loops THEN 0 ELSE next + 1
    <2>1. next + 1 \in 1 .. loops
      BY <1>0
    <2>2. QED
      BY <1>0, <2>1
  <1>2. /\ \A l : l # k => Assigned(l)' = Assigned(l)
        /\ Assigned(k)' = Assigned(k) \cup {c} /\ c \notin Assigned(k)
    <2>1. \A d \in 1 .. c - 1 : d \in Conns /\ d # c /\ loopOf'[d] = loopOf[d]
      BY <1>1, TcpServerAssumption DEF Conns
    <2>2. loopOf'[c] = k /\ nextConnId' - 1 = c /\ 1 .. c = (1 .. c - 1) \cup {c}
      BY <1>1, TcpServerAssumption DEF Conns
    <2>3. c \notin Assigned(k)
      BY <1>1 DEF Assigned
    <2>4. \A l : Assigned(l)' = {d \in (1 .. c - 1) \cup {c} : loopOf'[d] = l}
      BY <2>2 DEF Assigned
    <2>5. QED
      BY <2>1, <2>2, <2>3, <2>4 DEF Assigned
  <1>3. PICK q \in Nat : \A l \in 1 .. loops :
          Cardinality(Assigned(l)) = IF l <= next THEN q + 1 ELSE q
    BY DEF Dealt
  <1>4. Cardinality(Assigned(k)') = q + 1
    <2>1. Cardinality(Assigned(k)') = Cardinality(Assigned(k)) + 1
      BY <1>2, AssignedFinite, FS_AddElement
    <2>2. Cardinality(Assigned(k)) = q
      BY <1>1, <1>3
    <2>3. QED
      BY <2>1, <2>2
  <1>5. \A l \in 1 .. loops : Cardinality(Assigned(l)') = IF l <= k THEN q + 1 ELSE q
    <2> SUFFICES ASSUME NEW l \in 1 .. loops
                 PROVE  Cardinality(Assigned(l)') = IF l <= k THEN q + 1 ELSE q
      OBVIOUS
    <2>1. CASE l = k
      BY <1>1, <1>4, <2>1
    <2>2. CASE l # k
      <3>1. Cardinality(Assigned(l)') = IF l <= next THEN q + 1 ELSE q
        BY <1>2, <1>3, <2>2
      <3>2. l <= next <=> l <= k
        BY <1>1, <2>2
      <3>3. QED
        BY <3>1, <3>2
    <2>3. QED
      BY <2>1, <2>2
  <1>6. Assigned(0)' = {}
    <2>1. 0 # k /\ Assigned(0) = {}
      BY <1>1 DEF Dealt
    <2>2. QED
      BY <1>2, <2>1
  <1>7. CASE k < loops
    <2>1. next' = k
      BY <1>1, <1>7
    <2>2. QED
      BY <1>5, <1>6, <2>1
  <1>8. CASE k = loops
    <2>1. next' = 0 /\ \A l \in 1 .. loops : l <= k /\ ~(l <= 0)
      BY <1>1, <1>8
    <2>2. \A l \in 1 .. loops : Cardinality(Assigned(l)') = IF l <= next' THEN (q + 1) + 1 ELSE q + 1
      BY <1>5, <2>1
    <2>3. QED
      BY <1>6, <2>2
  <1>9. QED
    BY <1>1, <1>7, <1>8

LEMMA StepDealt == Inv /\ Dealt /\ [Next]_vars => Dealt'
  <1> SUFFICES ASSUME Inv, Dealt, [Next]_vars PROVE Dealt'
    OBVIOUS
  <1>1. CASE Start /\ started
    BY <1>1 DEF Start, StartPool, Dealt, Assigned
  <1>2. CASE Start /\ ~started
    <2>1. nextConnId' = 1 /\ next' = 0
      BY <1>2 DEF Start, Inv, QueuesTyped
    <2>2. \A l : Assigned(l)' = {}
      BY <2>1 DEF Assigned
    <2>3. \A l \in 1 .. loops' : Cardinality(Assigned(l)') = 0 /\ ~(l <= 0)
      BY <2>2, FS_EmptySet
    <2>4. QED
      BY <2>1, <2>2, <2>3 DEF Dealt
  <1>3. ASSUME NEW f \in Fds, NewConnection(f) PROVE Dealt'
    BY <1>3, NewConnectionDealt
  <1>4. CASE UNCHANGED <<loops, next, nextConnId, loopOf>>
    BY <1>4 DEF Dealt, Assigned
  <1>5. QED
    BY <1>1, <1>2, <1>3, <1>4
       DEF Next, RunFunctor, HandleClose, HandleWrite, Delete, Shutdown, Hold, CallSend,
           CallSendQueues, LetGo, vars, pool, server

\* For every number of loops and of connections, getNextLoop() gives each I/O
\* loop as many connections as any other, within one, and the base loop none
\* (EventLoopThreadPool.cc:50-59); and the server's state has its types.
THEOREM ServerRoundRobin == Spec => []RoundRobin
  <1>1. Init => Dealt
    BY DEF Init, Dealt
  <1>2. Spec => []Dealt
    BY <1>1, StepDealt, ServerInv, PTL DEF Spec
  <1>3. Inv /\ Dealt => RoundRobin
    <2> SUFFICES ASSUME Inv, Dealt PROVE RoundRobin
      OBVIOUS
    <2>1. ASSUME loops > 0
          PROVE  /\ Cardinality(Assigned(0)) = 0
                 /\ \A k, l \in 1 .. loops :
                      Cardinality(Assigned(k)) - Cardinality(Assigned(l)) \in -1 .. 1
      <3>1. Cardinality(Assigned(0)) = 0
        BY <2>1, FS_EmptySet DEF Dealt
      <3>2. PICK q \in Nat : \A l \in 1 .. loops :
              Cardinality(Assigned(l)) = IF l <= next THEN q + 1 ELSE q
        BY <2>1 DEF Dealt
      <3>3. \A l \in 1 .. loops : Cardinality(Assigned(l)) \in {q, q + 1}
        BY <3>2
      <3>4. QED
        BY <3>1, <3>3
    <2>2. QED
      BY <2>1 DEF RoundRobin, Assigned, Inv
  <1>4. QED
    BY <1>2, <1>3, ServerInv, PTL

=============================================================================
