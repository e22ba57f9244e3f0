---------------------------- MODULE PollersProofs ----------------------------
(***************************************************************************)
(* Proofs about the two pollers, for any channels and any finite set of    *)
(* descriptors: what each keeps agrees with the channels and, for EPoller, *)
(* with the kernel, through every order of updates and removals.           *)
(***************************************************************************)
EXTENDS Pollers, SequenceTheorems, FiniteSetTheorems, TLAPS

\* The types that the actions depend on.
Typed ==
    /\ life \in [Channels -> {"none", "live", "removed"}]
    /\ fd \in [Channels -> Fds \cup {0}]
    /\ events \in [Channels -> SUBSET Events]
    /\ revents \in [Channels -> SUBSET (Events \cup {"hup"})]
    /\ index \in [Channels -> {kNew, kAdded, kDeleted}]
    /\ channels \in [Fds -> Channels \cup {NoChannel}]
    /\ active \in Seq(Channels)
    /\ epoll \in [Fds -> [events : SUBSET Events, ptr : Channels \cup {NoChannel}]]
    /\ pIndex \in [Channels -> Int]
    /\ pollfds \in Seq([fd : Int, events : SUBSET Events])

\* A live channel has a descriptor of its own, and a channel that the EPoller
\* does not know wants nothing.
Owned ==
    /\ \A c \in Channels : life[c] = "live" => fd[c] \in Fds
    /\ \A c, d \in Channels : (life[c] = "live" /\ life[d] = "live" /\ fd[c] = fd[d]) => c = d
    /\ \A c \in Channels : life[c] # "live" => index[c] = kNew
    /\ \A c \in Channels : index[c] = kNew => events[c] = {}
    /\ \A c \in Channels : (index[c] = kNew /\ life[c] # "removed") => c \notin again

\* What EPoller and the kernel hold for each channel and each descriptor.
Known ==
    /\ \A c \in Channels : life[c] = "live" =>
         channels[fd[c]] = IF index[c] = kNew THEN NoChannel ELSE c
    /\ \A c \in Channels : index[c] = kAdded => epoll[fd[c]] = [events |-> events[c], ptr |-> c]
    /\ \A c \in Channels : index[c] = kDeleted => epoll[fd[c]] = None /\ events[c] = {}
    /\ \A f \in Fds : channels[f] # NoChannel =>
         life[channels[f]] = "live" /\ fd[channels[f]] = f
    /\ \A f \in Fds : channels[f] = NoChannel => epoll[f] = None

\* The pollfd of a channel that Poller knows.
Pollfd(c) ==
    [fd |-> IF events[c] = {} \/ c \in again THEN P!Masked(fd[c]) ELSE fd[c],
     events |-> events[c]]

\* Poller knows the same channels, and pollfds_ holds one element for each.
Indexed ==
    /\ pChannels = channels
    /\ \A c \in Channels : life[c] = "live" => (pIndex[c] = kNew <=> index[c] = kNew)
    /\ \A c \in Channels : index[c] # kNew =>
         pIndex[c] + 1 \in 1 .. Len(pollfds) /\ pollfds[pIndex[c] + 1] = Pollfd(c)
    /\ \A i \in 1 .. Len(pollfds) : \E c \in Channels : index[c] # kNew /\ pIndex[c] = i - 1

\* The array of EPoller.
SizeOK == size \in 1 .. Max({kInitEventListSize, 2 * Cardinality(Fds)})

\* What was reported is for channels of activeChannels_.
Reported == \A c \in Channels : revents[c] # {} => c \in Range(active)

Inv == Typed /\ Owned /\ Known /\ Indexed /\ SizeOK /\ Reported

-----------------------------------------------------------------------------
LEMMA MaxOfTwo ==
    ASSUME NEW a \in Nat, NEW b \in Nat
    PROVE  Max({a, b}) \in Nat /\ Max({a, b}) >= a /\ Max({a, b}) >= b
<1>1. \E x \in {a, b} : \A y \in {a, b} : x >= y
  BY a >= b \/ b >= a
<1>2. Max({a, b}) \in {a, b} /\ \A y \in {a, b} : Max({a, b}) >= y
  BY <1>1, Zenon DEF Max
<1> QED
  BY <1>2

LEMMA InvInit == BothInit => Inv
<1> SUFFICES ASSUME BothInit PROVE Inv
  OBVIOUS
<1> USE DEF BothInit, Init, ChannelInit, P!Init, P!ChannelInit, kNew, kAdded, kDeleted, P!kNew
<1>1. Typed
  BY DEF Typed, None
<1>2. Owned
  BY DEF Owned
<1>3. Known
  BY DEF Known
<1>4. Indexed
  <2>1. pChannels = channels /\ \A c \in Channels : pIndex[c] = kNew /\ index[c] = kNew
    OBVIOUS
  <2>2. 1 .. Len(pollfds) = {}
    OBVIOUS
  <2> QED
    BY <2>1, <2>2 DEF Indexed
<1>5. SizeOK
  <2>1. Cardinality(Fds) \in Nat
    BY ChannelAssumption, FS_CardinalityType
  <2>2. Max({kInitEventListSize, 2 * Cardinality(Fds)}) >= kInitEventListSize
        /\ Max({kInitEventListSize, 2 * Cardinality(Fds)}) \in Nat
    BY <2>1, MaxOfTwo, EPollerAssumption
  <2> QED
    BY <2>2, EPollerAssumption DEF SizeOK
<1>6. Reported
  BY DEF Reported
<1> QED
  BY <1>1, <1>2, <1>3, <1>4, <1>5, <1>6 DEF Inv

LEMMA CreateInv ==
    ASSUME Inv, NEW c \in Channels, NEW f \in Fds, Construct(c, f), P!Construct(c, f),
           UNCHANGED <<epoll, size, pollfds>>
    PROVE  Inv'
<1> USE DEF kNew, kAdded, kDeleted, P!kNew
<1>1. Typed /\ Owned /\ Known /\ Indexed /\ SizeOK /\ Reported
  BY DEF Inv
<1>2. /\ life[c] = "none" /\ \A d \in Channels : life[d] = "live" => fd[d] # f
      /\ life' = [life EXCEPT ![c] = "live"] /\ fd' = [fd EXCEPT ![c] = f]
      /\ index' = [index EXCEPT ![c] = kNew] /\ pIndex' = [pIndex EXCEPT ![c] = kNew]
      /\ UNCHANGED <<events, revents, channels, pChannels, active, again>>
  BY DEF Construct, P!Construct
<1>3. index[c] = kNew /\ index' = index
  BY <1>1, <1>2 DEF Owned, Typed
<1>4. Typed'
  BY <1>1, <1>2 DEF Typed
<1>5. Owned'
  BY <1>1, <1>2, <1>3 DEF Owned, Typed
<1>6. channels[f] = NoChannel
  BY <1>1, <1>2 DEF Known, Typed
<1>7. Known'
  BY <1>1, <1>2, <1>3, <1>6 DEF Known, Typed
<1>8. Indexed'
  BY <1>1, <1>2, <1>3 DEF Indexed, Pollfd, Typed
<1> QED
  BY <1>1, <1>2, <1>4, <1>5, <1>7, <1>8 DEF Inv, SizeOK, Reported

LEMMA DeleteInv ==
    ASSUME Inv, NEW c \in Channels, Destroy(c), P!Destroy(c), UNCHANGED <<epoll, size, pollfds>>
    PROVE  Inv'
<1> USE DEF kNew, kAdded, kDeleted, P!kNew
<1>1. Typed /\ Owned /\ Known /\ Indexed /\ SizeOK /\ Reported
  BY DEF Inv
<1>2. /\ life[c] = "removed"
      /\ life' = [life EXCEPT ![c] = "none"] /\ fd' = [fd EXCEPT ![c] = 0]
      /\ index' = [index EXCEPT ![c] = kNew] /\ pIndex' = [pIndex EXCEPT ![c] = kNew]
      /\ again' = again \ {c}
      /\ UNCHANGED <<events, revents, channels, pChannels, active>>
  BY DEF Destroy, P!Destroy
<1>3. index[c] = kNew /\ index' = index
  BY <1>1, <1>2 DEF Owned, Typed
<1>4. Typed'
  BY <1>1, <1>2 DEF Typed
<1>5. Owned'
  BY <1>1, <1>2, <1>3 DEF Owned, Typed
<1>6. Known'
  BY <1>1, <1>2, <1>3 DEF Known, Typed
<1>7. Indexed'
  BY <1>1, <1>2, <1>3 DEF Indexed, Pollfd, Typed
<1> QED
  BY <1>1, <1>2, <1>4, <1>5, <1>6, <1>7 DEF Inv, SizeOK, Reported

\* Channels that the pollers know have indices of their own.
LEMMA OwnIndex ==
    ASSUME Inv
    PROVE  /\ \A c \in Channels : index[c] # kNew =>
                /\ life[c] = "live" /\ fd[c] \in Fds /\ fd[c] \in Nat
                /\ channels[fd[c]] = c
                /\ pIndex[c] \in 0 .. Len(pollfds) - 1
                /\ pollfds[pIndex[c] + 1] = Pollfd(c)
                /\ P!Unmasked(pollfds[pIndex[c] + 1].fd) = fd[c]
           /\ \A c, d \in Channels :
                (index[c] # kNew /\ index[d] # kNew /\ pIndex[c] = pIndex[d]) => c = d
<1>1. Typed /\ Owned /\ Known /\ Indexed
  BY DEF Inv
<1>2. \A c \in Channels : index[c] # kNew =>
         life[c] = "live" /\ fd[c] \in Fds /\ fd[c] \in Nat /\ channels[fd[c]] = c
  BY <1>1, ChannelAssumption DEF Owned, Known, Typed
<1>3. Len(pollfds) \in Nat /\ \A c \in Channels : pIndex[c] \in Int
  BY <1>1 DEF Typed
<1>4. \A c \in Channels : index[c] # kNew =>
         pIndex[c] \in 0 .. Len(pollfds) - 1 /\ pollfds[pIndex[c] + 1] = Pollfd(c)
  BY <1>1, <1>3 DEF Indexed
<1>5. \A c \in Channels : index[c] # kNew => P!Unmasked(Pollfd(c).fd) = fd[c]
  BY <1>2 DEF Pollfd, P!Unmasked, P!Masked
<1>6. \A c, d \in Channels :
         (index[c] # kNew /\ index[d] # kNew /\ pIndex[c] = pIndex[d]) => c = d
  <2> SUFFICES ASSUME NEW c \in Channels, NEW d \in Channels,
                      index[c] # kNew, index[d] # kNew, pIndex[c] = pIndex[d]
               PROVE  c = d
    OBVIOUS
  <2>1. fd[c] = fd[d]
    BY <1>4, <1>5
  <2> QED
    BY <1>2, <2>1
<1> QED
  BY <1>2, <1>4, <1>5, <1>6

LEMMA UpdateInv ==
    ASSUME Inv, NEW c \in Channels, NEW ev \in SUBSET Events,
           UpdateChannel(c, ev), P!UpdateChannel(c, ev)
    PROVE  Inv'
<1>1. Typed /\ Owned /\ Known /\ Indexed /\ SizeOK /\ Reported
  BY DEF Inv
<1>2. /\ life[c] = "live" /\ (index[c] = kNew => ev # {})
      /\ events' = [events EXCEPT ![c] = ev]
      /\ again' = IF index[c] # kNew /\ events[c] = {} /\ ev # {} THEN again \cup {c} ELSE again
      /\ UNCHANGED <<life, fd, revents, active, size>>
      /\ channels' = [channels EXCEPT ![fd[c]] = c]
  BY DEF UpdateChannel, Change, Changes
<1>3. fd[c] \in Fds /\ fd[c] \in Nat
  BY <1>1, <1>2, ChannelAssumption DEF Owned
<1>4. \E i \in {kAdded, kDeleted} : index' = [index EXCEPT ![c] = i]
                                 /\ i = IF index[c] = kAdded /\ ev = {} THEN kDeleted ELSE kAdded
  BY DEF UpdateChannel, Operation
<1>5. epoll' = [epoll EXCEPT ![fd[c]] = IF index[c] = kAdded /\ ev = {} THEN None
                                         ELSE [events |-> ev, ptr |-> c]]
  BY DEF UpdateChannel, Operation, Control
<1>6. kNew = -1 /\ kAdded = 1 /\ kDeleted = 2
  BY DEF kNew, kAdded, kDeleted
<1>7. \A d \in Channels : d # c =>
         index'[d] = index[d] /\ events'[d] = events[d] /\ (d \in again' <=> d \in again)
  BY <1>1, <1>2, <1>4 DEF Typed
<1>8. events'[c] = ev /\ index'[c] = IF index[c] = kAdded /\ ev = {} THEN kDeleted ELSE kAdded
  BY <1>1, <1>2, <1>4 DEF Typed
<1>9. \A d \in Channels : (d # c /\ life[d] = "live") => fd[d] # fd[c]
  BY <1>1, <1>2 DEF Owned
<1>10. Owned'
  BY <1>1, <1>2, <1>6, <1>7, <1>8 DEF Owned
<1>11. \A f \in Fds : f # fd[c] => channels'[f] = channels[f] /\ epoll'[f] = epoll[f]
  BY <1>1, <1>2, <1>5 DEF Typed
<1>12. channels'[fd[c]] = c /\ epoll'[fd[c]] = IF index[c] = kAdded /\ ev = {} THEN None
                                         ELSE [events |-> ev, ptr |-> c]
  BY <1>1, <1>2, <1>3, <1>5 DEF Typed
<1>13. Known'
  <2>1. \A d \in Channels : index[d] # kNew => life[d] = "live" /\ fd[d] \in Fds
    BY <1>1 DEF Owned
  <2>2. \A d \in Channels : life'[d] = "live" =>
          (channels[fd[d]])' = IF index'[d] = kNew THEN NoChannel ELSE d
    BY <1>1, <1>2, <1>6, <1>7, <1>8, <1>9, <1>11, <1>12 DEF Known, Owned
  <2>3. \A d \in Channels : index'[d] = kAdded => (epoll[fd[d]] = [events |-> events[d], ptr |-> d])'
    BY <1>1, <1>2, <1>6, <1>7, <1>8, <1>9, <1>11, <1>12, <2>1 DEF Known
  <2>4. \A d \in Channels : index'[d] = kDeleted => (epoll[fd[d]] = None /\ events[d] = {})'
    <3> SUFFICES ASSUME NEW d \in Channels, index'[d] = kDeleted
                 PROVE  epoll'[fd[d]] = None /\ events'[d] = {}
      BY <1>2 DEF None
    <3>1. CASE d = c
      BY <3>1, <1>6, <1>8, <1>12
    <3>2. CASE d # c
      BY <3>2, <1>1, <1>6, <1>7, <1>9, <1>11, <2>1 DEF Known
    <3> QED
      BY <3>1, <3>2
  <2>5. \A f \in Fds : channels'[f] # NoChannel =>
         (life[channels[f]] = "live" /\ fd[channels[f]] = f)'
    BY <1>1, <1>2, <1>11, <1>12 DEF Known
  <2>6. \A f \in Fds : channels'[f] = NoChannel => (epoll[f] = None)'
    BY <1>1, <1>11, <1>12, ChannelAssumption DEF Known, None
  <2> QED
    BY <2>2, <2>3, <2>4, <2>5, <2>6 DEF Known
<1>14. pIndex[c] < 0 <=> index[c] = kNew
  BY <1>1, <1>2, <1>6, OwnIndex DEF Indexed, Typed
<1>15. CASE index[c] = kNew
  <2>1. /\ pollfds' = Append(pollfds, [fd |-> fd[c], events |-> ev])
        /\ pIndex' = [pIndex EXCEPT ![c] = Len(pollfds)]
        /\ pChannels' = [pChannels EXCEPT ![fd[c]] = c]
    BY <1>14, <1>15 DEF P!UpdateChannel
  <2>2. Typed'
    BY <1>1, <1>2, <1>3, <1>4, <1>5, <2>1 DEF Typed, None
  <2>3. pChannels' = channels'
    BY <1>1, <1>2, <2>1 DEF Indexed
  <2>4. Len(pollfds) \in Nat /\ Len(pollfds') = Len(pollfds) + 1
        /\ pollfds'[Len(pollfds) + 1] = [fd |-> fd[c], events |-> ev]
        /\ \A i \in 1 .. Len(pollfds) : pollfds'[i] = pollfds[i]
    BY <1>1, <1>3, <2>1 DEF Typed
  <2>5. pIndex'[c] = Len(pollfds) /\ \A d \in Channels : d # c => pIndex'[d] = pIndex[d]
    BY <1>1, <2>1 DEF Typed
  <2>6. Pollfd(c)' = [fd |-> fd[c], events |-> ev]
    BY <1>1, <1>2, <1>8, <1>15 DEF Pollfd, Owned
  <2>7. \A d \in Channels : (d # c /\ index[d] # kNew) => Pollfd(d)' = Pollfd(d)
    BY <1>2, <1>7 DEF Pollfd, P!Masked
  <2>8. \A d \in Channels : life'[d] = "live" => (pIndex'[d] = kNew <=> index'[d] = kNew)
    BY <1>1, <1>2, <1>6, <1>7, <1>8, <2>4, <2>5 DEF Indexed
  <2>9. \A d \in Channels : index'[d] # kNew =>
          pIndex'[d] + 1 \in 1 .. Len(pollfds') /\ pollfds'[pIndex'[d] + 1] = Pollfd(d)'
    <3> SUFFICES ASSUME NEW d \in Channels, index'[d] # kNew
                 PROVE  pIndex'[d] + 1 \in 1 .. Len(pollfds')
                        /\ pollfds'[pIndex'[d] + 1] = Pollfd(d)'
      OBVIOUS
    <3>1. CASE d = c
      BY <3>1, <2>4, <2>5, <2>6
    <3>2. CASE d # c
      <4>1. pIndex[d] + 1 \in 1 .. Len(pollfds) /\ pollfds[pIndex[d] + 1] = Pollfd(d)
        BY <3>2, <1>1, <1>7 DEF Indexed
      <4> QED
        BY <3>2, <4>1, <1>7, <2>4, <2>5, <2>7
    <3> QED
      BY <3>1, <3>2
  <2>10. \A i \in 1 .. Len(pollfds') : \E d \in Channels : index'[d] # kNew /\ pIndex'[d] = i - 1
    <3> SUFFICES ASSUME NEW i \in 1 .. Len(pollfds')
                 PROVE  \E d \in Channels : index'[d] # kNew /\ pIndex'[d] = i - 1
      OBVIOUS
    <3>1. CASE i = Len(pollfds) + 1
      BY <3>1, <1>6, <1>8, <2>4, <2>5
    <3>2. CASE i \in 1 .. Len(pollfds)
      BY <3>2, <1>1, <1>7, <1>15, <2>5 DEF Indexed
    <3> QED
      BY <3>1, <3>2, <2>4
  <2>11. Indexed'
    BY <2>3, <2>8, <2>9, <2>10 DEF Indexed
  <2> QED
    BY <1>1, <1>2, <1>10, <1>13, <2>2, <2>11 DEF Inv, SizeOK, Reported
<1>16. CASE index[c] # kNew
  <2>1. /\ pollfds' = [pollfds EXCEPT ![pIndex[c] + 1] =
                         [fd |-> P!UpdatedFd(c, ev), events |-> ev]]
        /\ UNCHANGED <<pIndex, pChannels>>
    BY <1>14, <1>16 DEF P!UpdateChannel
  <2>2. pIndex[c] + 1 \in 1 .. Len(pollfds) /\ pollfds[pIndex[c] + 1] = Pollfd(c)
        /\ channels[fd[c]] = c
    BY <1>16, OwnIndex, <1>1 DEF Indexed
  <2>3. P!UpdatedFd(c, ev) = Pollfd(c).fd \/ P!UpdatedFd(c, ev) = P!Masked(fd[c])
    BY <2>2 DEF P!UpdatedFd
  <2>4. P!UpdatedFd(c, ev) \in Int
    BY <1>3, <2>3 DEF Pollfd, P!Masked
  <2>5. Typed'
    <3>1. pollfds' \in Seq([fd : Int, events : SUBSET Events])
      <4> DEFINE S == [fd : Int, events : SUBSET Events]
                 e == [fd |-> P!UpdatedFd(c, ev), events |-> ev]
      <4>1. pollfds \in Seq(S) /\ e \in S
        BY <1>1, <2>4 DEF Typed
      <4>2. pollfds' = [pollfds EXCEPT ![pIndex[c] + 1] = e]
        BY <2>1
      <4> HIDE DEF S, e
      <4>3. pollfds' \in Seq(S)
        BY <2>2, <4>1, <4>2, ExceptSeq
      <4> QED
        BY <4>3 DEF S
    <3> QED
      BY <1>1, <1>2, <1>3, <1>4, <1>5, <2>1, <3>1 DEF Typed, None
  <2>6. pChannels' = channels'
    BY <1>1, <1>2, <2>1, <2>2 DEF Indexed, Typed
  <2>7. Len(pollfds) \in Nat /\ Len(pollfds') = Len(pollfds)
        /\ pollfds'[pIndex[c] + 1] = [fd |-> P!UpdatedFd(c, ev), events |-> ev]
        /\ \A i \in 1 .. Len(pollfds) : i # pIndex[c] + 1 => pollfds'[i] = pollfds[i]
    BY <1>1, <2>1, <2>2 DEF Typed
  <2>8. Pollfd(c)' = [fd |-> P!UpdatedFd(c, ev), events |-> ev]
    BY <1>2, <1>8, <1>16, <2>2 DEF Pollfd, P!UpdatedFd, P!Masked
  <2>9. \A d \in Channels : (d # c /\ index[d] # kNew) => Pollfd(d)' = Pollfd(d)
    BY <1>2, <1>7 DEF Pollfd, P!Masked
  <2>10. \A d \in Channels : life'[d] = "live" => (pIndex'[d] = kNew <=> index'[d] = kNew)
    BY <1>1, <1>2, <1>6, <1>7, <1>8, <1>16, <2>1 DEF Indexed
  <2>11. \A d \in Channels : index'[d] # kNew =>
          pIndex'[d] + 1 \in 1 .. Len(pollfds') /\ pollfds'[pIndex'[d] + 1] = Pollfd(d)'
    <3> SUFFICES ASSUME NEW d \in Channels, index'[d] # kNew
                 PROVE  pIndex[d] + 1 \in 1 .. Len(pollfds)
                        /\ pollfds'[pIndex[d] + 1] = Pollfd(d)'
      BY <2>1, <2>7
    <3>1. CASE d = c
      BY <3>1, <2>2, <2>7, <2>8
    <3>2. CASE d # c
      <4>1. index[d] # kNew
        BY <3>2, <1>7
      <4>2. pIndex[d] + 1 \in 1 .. Len(pollfds) /\ pollfds[pIndex[d] + 1] = Pollfd(d)
        BY <4>1, <1>1 DEF Indexed
      <4>3. pIndex[d] + 1 # pIndex[c] + 1
        BY <3>2, <4>1, <1>1, <1>16, OwnIndex DEF Typed
      <4> QED
        BY <3>2, <4>1, <4>2, <4>3, <2>7, <2>9
    <3> QED
      BY <3>1, <3>2
  <2>12. \A i \in 1 .. Len(pollfds') : \E d \in Channels : index'[d] # kNew /\ pIndex'[d] = i - 1
    BY <1>1, <1>6, <1>7, <1>8, <2>1, <2>7 DEF Indexed
  <2>13. Indexed'
    BY <2>6, <2>10, <2>11, <2>12 DEF Indexed
  <2> QED
    BY <1>1, <1>2, <1>10, <1>13, <2>5, <2>13 DEF Inv, SizeOK, Reported
<1> QED
  BY <1>15, <1>16

\* Poller::removeChannel(): the last element takes the place i of another.
LEMMA FrontOfExcept ==
    ASSUME NEW S, NEW s \in Seq(S), NEW i \in 1 .. Len(s)
    PROVE  /\ Front([s EXCEPT ![i] = Last(s)]) \in Seq(S)
           /\ Len(Front([s EXCEPT ![i] = Last(s)])) = Len(s) - 1
           /\ \A j \in 1 .. Len(s) - 1 :
                Front([s EXCEPT ![i] = Last(s)])[j] = IF j = i THEN s[Len(s)] ELSE s[j]
<1> DEFINE t == [s EXCEPT ![i] = Last(s)]
<1>1. Len(s) \in Nat /\ Len(s) \in 1 .. Len(s) /\ Last(s) = s[Len(s)] /\ s[Len(s)] \in S
  BY DEF Last
<1>2. t \in Seq(S) /\ Len(t) = Len(s)
      /\ \A j \in 1 .. Len(s) : t[j] = IF j = i THEN s[Len(s)] ELSE s[j]
  BY <1>1, ExceptSeq
<1> HIDE DEF t
<1>3. /\ SubSeq(t, 1, Len(t) - 1) \in Seq(S)
      /\ Len(SubSeq(t, 1, Len(t) - 1)) = Len(t) - 1
      /\ \A j \in 1 .. Len(t) - 1 : SubSeq(t, 1, Len(t) - 1)[j] = t[j]
  BY <1>1, <1>2
<1>4. Front(t) = SubSeq(t, 1, Len(t) - 1)
  BY DEF Front
<1>5. /\ Front(t) \in Seq(S) /\ Len(Front(t)) = Len(s) - 1
      /\ \A j \in 1 .. Len(s) - 1 : Front(t)[j] = IF j = i THEN s[Len(s)] ELSE s[j]
  BY <1>1, <1>2, <1>3, <1>4
<1> QED
  BY <1>5 DEF t

LEMMA RemoveInv ==
    ASSUME Inv, NEW c \in Channels, RemoveChannel(c), P!RemoveChannel(c)
    PROVE  Inv'
<1>1. Typed /\ Owned /\ Known /\ Indexed /\ SizeOK /\ Reported
  BY DEF Inv
<1>2. /\ life[c] = "live" /\ index[c] # kNew /\ events[c] = {}
      /\ life' = [life EXCEPT ![c] = "removed"]
      /\ index' = [index EXCEPT ![c] = kNew]
      /\ UNCHANGED <<fd, events, revents, active, again, size>>
      /\ channels' = [channels EXCEPT ![fd[c]] = NoChannel]
      /\ pChannels' = [pChannels EXCEPT ![fd[c]] = NoChannel]
  BY DEF RemoveChannel, Removable, Forget, P!RemoveChannel
<1>3. /\ fd[c] \in Fds /\ channels[fd[c]] = c
      /\ pIndex[c] \in 0 .. Len(pollfds) - 1
  BY <1>2, OwnIndex
<1>4. kNew = -1 /\ kAdded = 1 /\ kDeleted = 2
  BY DEF kNew, kAdded, kDeleted
<1>5. epoll' = [epoll EXCEPT ![fd[c]] = None]
  <2>1. CASE index[c] = kAdded
    BY <2>1 DEF RemoveChannel, NeedsDel, Control
  <2>2. CASE index[c] # kAdded
    <3>1. index[c] = kDeleted
      BY <1>1, <1>2, <2>2 DEF Typed
    <3>2. epoll' = epoll /\ epoll[fd[c]] = None
      BY <1>1, <2>2, <3>1 DEF RemoveChannel, NeedsDel, Known
    <3> QED
      BY <1>1, <1>3, <3>2 DEF Typed
  <2> QED
    BY <2>1, <2>2
<1>6. \A d \in Channels : d # c => index'[d] = index[d] /\ life'[d] = life[d]
  BY <1>1, <1>2 DEF Typed
<1>7. index'[c] = kNew /\ life'[c] = "removed"
  BY <1>1, <1>2 DEF Typed
<1>8. Owned'
  BY <1>1, <1>2, <1>6, <1>7 DEF Owned
<1>9. \A f \in Fds : f # fd[c] => channels'[f] = channels[f] /\ epoll'[f] = epoll[f]
  BY <1>1, <1>2, <1>5 DEF Typed
<1>10. channels'[fd[c]] = NoChannel /\ epoll'[fd[c]] = None
  BY <1>1, <1>2, <1>3, <1>5 DEF Typed
<1>11. \A d \in Channels : (d # c /\ life[d] = "live") => fd[d] # fd[c] /\ fd[d] \in Fds
  BY <1>1, <1>2 DEF Owned
<1>12. Known'
  <2>1. \A d \in Channels : index[d] # kNew => life[d] = "live"
    BY <1>1 DEF Owned
  <2>2. \A d \in Channels : life'[d] = "live" =>
          (channels[fd[d]])' = IF index'[d] = kNew THEN NoChannel ELSE d
    BY <1>1, <1>2, <1>6, <1>7, <1>9, <1>11 DEF Known
  <2>3. \A d \in Channels : index'[d] = kAdded => (epoll[fd[d]] = [events |-> events[d], ptr |-> d])'
    BY <1>1, <1>2, <1>4, <1>6, <1>7, <1>9, <1>11, <2>1 DEF Known
  <2>4. \A d \in Channels : index'[d] = kDeleted => (epoll[fd[d]] = None /\ events[d] = {})'
    <3> SUFFICES ASSUME NEW d \in Channels, index'[d] = kDeleted
                 PROVE  epoll'[fd[d]] = None /\ events'[d] = {}
      BY <1>2 DEF None
    <3> QED
      BY <1>1, <1>2, <1>4, <1>6, <1>7, <1>9, <1>11, <2>1 DEF Known
  <2>5. \A f \in Fds : channels'[f] # NoChannel =>
         (life[channels[f]] = "live" /\ fd[channels[f]] = f)'
    BY <1>1, <1>2, <1>6, <1>9, <1>10 DEF Known, Typed
  <2>6. \A f \in Fds : channels'[f] = NoChannel => (epoll[f] = None)'
    BY <1>1, <1>9, <1>10 DEF Known, None
  <2> QED
    BY <2>2, <2>3, <2>4, <2>5, <2>6 DEF Known
<1>13. pChannels' = channels'
  BY <1>1, <1>2 DEF Indexed
<1> DEFINE i == pIndex[c] + 1
           n == Len(pollfds)
<1>14. n \in Nat /\ i \in 1 .. n
  BY <1>1, <1>3 DEF Typed
<1>15. /\ pollfds' \in Seq([fd : Int, events : SUBSET Events])
       /\ Len(pollfds') = n - 1
       /\ \A j \in 1 .. n - 1 : pollfds'[j] = IF j = i THEN pollfds[n] ELSE pollfds[j]
  <2>1. pollfds' = Front([pollfds EXCEPT ![i] = Last(pollfds)])
    BY DEF P!RemoveChannel, P!Front, P!Last, Front, Last
  <2> DEFINE S == [fd : Int, events : SUBSET Events]
  <2>2. pollfds \in Seq(S)
    BY <1>1 DEF Typed
  <2> HIDE DEF S, i
  <2>3. /\ pollfds' \in Seq(S) /\ Len(pollfds') = Len(pollfds) - 1
        /\ \A j \in 1 .. Len(pollfds) - 1 :
             pollfds'[j] = IF j = i THEN pollfds[Len(pollfds)] ELSE pollfds[j]
    BY <1>14, <2>1, <2>2, FrontOfExcept
  <2> QED
    BY <2>3 DEF S
<1>16. PICK d \in Channels : index[d] # kNew /\ pIndex[d] = n - 1
  BY <1>1, <1>14 DEF Indexed
<1>17. channels[P!Unmasked(pollfds[n].fd)] = d
  <2>1. pIndex[d] + 1 = n
    BY <1>14, <1>16
  <2> QED
    BY <1>16, <2>1, OwnIndex
<1>18. pIndex' = IF i = n THEN pIndex ELSE [pIndex EXCEPT ![d] = pIndex[c]]
  <2>1. pIndex' = IF pIndex[c] = n - 1 THEN pIndex
                  ELSE [pIndex EXCEPT ![pChannels[P!Unmasked(pollfds[n].fd)]] = pIndex[c]]
    BY DEF P!RemoveChannel, P!Renumber, P!Last
  <2>2. pChannels[P!Unmasked(pollfds[n].fd)] = d
    BY <1>1, <1>17 DEF Indexed
  <2>3. pIndex[c] = n - 1 <=> i = n
    BY <1>3, <1>14
  <2>4. CASE i = n
    BY <2>1, <2>3, <2>4, Zenon
  <2>5. CASE i # n
    BY <2>1, <2>2, <2>3, <2>5, Zenon
  <2> QED
    BY <2>4, <2>5
<1>19. i = n <=> c = d
  BY <1>1, <1>2, <1>14, <1>16, OwnIndex DEF Typed
<1> HIDE DEF i, n
<1>20. \A x \in Channels : x # c => pIndex'[x] = IF x = d THEN pIndex[c] ELSE pIndex[x]
  BY <1>1, <1>18, <1>19 DEF Typed, i
<1>21. Typed'
  BY <1>1, <1>2, <1>3, <1>5, <1>14, <1>15, <1>18 DEF Typed, None, kNew
<1>22. \A x \in Channels : life'[x] = "live" => (pIndex'[x] = kNew <=> index'[x] = kNew)
  BY <1>1, <1>3, <1>4, <1>6, <1>7, <1>16, <1>20 DEF Indexed
<1>23. \A x \in Channels : Pollfd(x)' = Pollfd(x)
  BY <1>2 DEF Pollfd, P!Masked
<1>24. \A x \in Channels : index'[x] # kNew =>
         pIndex'[x] + 1 \in 1 .. Len(pollfds') /\ pollfds'[pIndex'[x] + 1] = Pollfd(x)'
  <2> SUFFICES ASSUME NEW x \in Channels, index'[x] # kNew
               PROVE  pIndex'[x] + 1 \in 1 .. n - 1 /\ pollfds'[pIndex'[x] + 1] = Pollfd(x)
    BY <1>15, <1>23
  <2>1. x # c /\ index[x] # kNew
    BY <1>6, <1>7
  <2>2. CASE x = d
    <3>1. pIndex'[x] + 1 = i /\ i # n /\ pollfds[n] = Pollfd(d)
      BY <2>1, <2>2, <1>1, <1>14, <1>16, <1>19, <1>20, OwnIndex DEF i, n, Typed
    <3> QED
      BY <2>2, <3>1, <1>14, <1>15
  <2>3. CASE x # d
    <3>1. pIndex'[x] = pIndex[x] /\ pIndex[x] \in 0 .. n - 1 /\ pollfds[pIndex[x] + 1] = Pollfd(x)
      BY <2>1, <2>3, <1>20, OwnIndex DEF n
    <3>2. pIndex[x] # pIndex[c] /\ pIndex[x] # n - 1
      BY <2>1, <2>3, <1>2, <1>16, OwnIndex
    <3>3. pIndex[x] + 1 \in 1 .. n - 1 /\ pIndex[x] + 1 # i
      BY <1>3, <1>14, <3>1, <3>2 DEF i
    <3> QED
      BY <1>15, <3>1, <3>3
  <2> QED
    BY <2>2, <2>3
<1>25. \A j \in 1 .. Len(pollfds') : \E x \in Channels : index'[x] # kNew /\ pIndex'[x] = j - 1
  <2> SUFFICES ASSUME NEW j \in 1 .. n - 1
               PROVE  \E x \in Channels : index'[x] # kNew /\ pIndex'[x] = j - 1
    BY <1>15
  <2>1. CASE j = i
    <3>1. d # c
      BY <2>1, <1>14, <1>19
    <3>2. index'[d] # kNew /\ pIndex'[d] = pIndex[c]
      BY <3>1, <1>6, <1>16, <1>20
    <3> QED
      BY <2>1, <3>2, <1>3 DEF i
  <2>2. CASE j # i
    <3>1. PICK x \in Channels : index[x] # kNew /\ pIndex[x] = j - 1
      BY <1>1, <1>14 DEF Indexed, n
    <3>2. x # c /\ x # d
      BY <2>2, <3>1, <1>14, <1>16 DEF i
    <3> QED
      BY <3>1, <3>2, <1>6, <1>20
  <2> QED
    BY <2>1, <2>2
<1>26. Indexed'
  BY <1>13, <1>22, <1>24, <1>25 DEF Indexed
<1> QED
  BY <1>1, <1>2, <1>8, <1>12, <1>21, <1>26 DEF Inv, SizeOK, Reported

LEMMA HandleEventInv ==
    ASSUME Inv, HandleEvent, UNCHANGED <<epoll, size, pollVars>>
    PROVE  Inv'
<1>1. Typed /\ Owned /\ Known /\ Indexed /\ SizeOK /\ Reported
  BY DEF Inv
<1>2. /\ active # << >> /\ revents' = [revents EXCEPT ![Head(active)] = {}]
      /\ active' = Tail(active)
      /\ UNCHANGED <<life, fd, again, events, index, channels, epoll, size,
                     pIndex, pChannels, pollfds>>
  BY DEF HandleEvent, object, pollVars
<1>3. active \in Seq(Channels) /\ Head(active) \in Channels /\ Tail(active) \in Seq(Channels)
  BY <1>1, <1>2 DEF Typed
<1>4. Typed'
  BY <1>1, <1>2, <1>3 DEF Typed
<1>5. Owned' /\ Known' /\ Indexed' /\ SizeOK'
  BY <1>1, <1>2 DEF Owned, Known, Indexed, Pollfd, SizeOK, P!Masked, None
<1>6. Reported'
  <2> SUFFICES ASSUME NEW c \in Channels, revents'[c] # {}
               PROVE  c \in Range(active')
    BY DEF Reported
  <2>1. c # Head(active) /\ revents[c] # {}
    BY <1>1, <1>2, <1>3 DEF Typed
  <2>2. PICK k \in 1 .. Len(active) : c = active[k]
    BY <1>1, <1>3, <2>1 DEF Reported, Range
  <2>3. k - 1 \in 1 .. Len(Tail(active)) /\ Tail(active)[k - 1] = c
    BY <1>2, <1>3, <2>1, <2>2
  <2> QED
    BY <1>2, <1>3, <2>3 DEF Range
<1> QED
  BY <1>4, <1>5, <1>6 DEF Inv

\* A registration in the kernel is that of a live channel.
LEMMA RegisteredChannel ==
    ASSUME Inv, NEW f \in Fds, Registered(f)
    PROVE  LET c == epoll[f].ptr
           IN  /\ c \in Channels /\ life[c] = "live" /\ fd[c] = f /\ channels[f] = c
               /\ index[c] = kAdded /\ epoll[f].events = events[c]
<1>1. Typed /\ Owned /\ Known
  BY DEF Inv
<1>2. channels[f] # NoChannel
  BY <1>1 DEF Known, Registered, None
<1>3. PICK c \in Channels : channels[f] = c /\ life[c] = "live" /\ fd[c] = f
  BY <1>1, <1>2 DEF Known, Typed
<1>4. index[c] # kNew
  BY <1>1, <1>2, <1>3 DEF Known
<1>5. index[c] # kDeleted
  BY <1>1, <1>3 DEF Known, Registered, None
<1>6. index[c] = kAdded
  BY <1>1, <1>4, <1>5 DEF Typed
<1>7. epoll[f] = [events |-> events[c], ptr |-> c]
  BY <1>1, <1>3, <1>6 DEF Known
<1> QED
  BY <1>3, <1>6, <1>7

\* The kernel is asked for what the channels want.
LEMMA AskedIsWanted == Inv => Asked = events
<1> SUFFICES ASSUME Inv PROVE Asked = events
  OBVIOUS
<1>1. Typed /\ Owned /\ Known
  BY DEF Inv
<1>2. ASSUME NEW c \in Channels PROVE Asked[c] = events[c]
  <2>1. CASE life[c] # "live"
    BY <1>1, <2>1 DEF Owned, Asked
  <2>2. CASE life[c] = "live" /\ index[c] = kNew
    <3>1. fd[c] \in Fds /\ channels[fd[c]] = NoChannel /\ events[c] = {}
      BY <1>1, <2>2 DEF Owned, Known
    <3> QED
      BY <1>1, <2>2, <3>1 DEF Known, None, Asked
  <2>3. CASE life[c] = "live" /\ index[c] = kAdded
    <3>1. epoll[fd[c]] = [events |-> events[c], ptr |-> c]
      BY <1>1, <2>3 DEF Known
    <3> QED
      BY <2>3, <3>1 DEF Asked
  <2>4. CASE life[c] = "live" /\ index[c] = kDeleted
    <3>1. epoll[fd[c]] = None /\ events[c] = {}
      BY <1>1, <2>4 DEF Known
    <3> QED
      BY <2>4, <3>1 DEF Asked, None
  <2> QED
    BY <1>1, <2>1, <2>2, <2>3, <2>4 DEF Typed
<1> QED
  BY <1>1, <1>2 DEF Typed, Asked

\* What a call of poll() may change: nothing is left to handle when it is
\* called, and it reports to known channels what they want, or a hang-up.
Reports ==
    /\ active = << >> /\ active' \in Seq(Channels)
    /\ revents' \in [Channels -> SUBSET (Events \cup {"hup"})]
    /\ \A c \in Channels : revents'[c] # {} => c \in Range(active')
    /\ \A c \in Channels : revents'[c] \subseteq events[c] \cup {"hup"}
    /\ UNCHANGED <<life, fd, again, events, index, channels, epoll, pIndex, pChannels, pollfds>>

\* The form in which fillActiveChannels() of either poller reports.
LEMMA FillReports ==
    ASSUME Typed, NEW hit \in Seq(Channels), NEW got, active = << >>,
           active' = hit,
           revents' = [c \in Channels |-> IF c \in Range(hit) THEN got[c] ELSE {}],
           \A c \in Range(hit) : got[c] \subseteq events[c] \cup {"hup"},
           UNCHANGED <<life, fd, again, events, index, channels, epoll, pIndex, pChannels, pollfds>>
    PROVE  Reports
<1>1. \A c \in Channels : revents'[c] = IF c \in Range(hit) THEN got[c] ELSE {}
  OBVIOUS
<1>2. \A c \in Channels : revents'[c] \subseteq events[c] \cup {"hup"}
  BY <1>1
<1>3. \A c \in Channels : revents'[c] \in SUBSET (Events \cup {"hup"})
  BY <1>2 DEF Typed
<1>4. revents' \in [Channels -> SUBSET (Events \cup {"hup"})]
  BY <1>3
<1>5. \A c \in Channels : revents'[c] # {} => c \in Range(active')
  BY <1>1
<1> QED
  BY <1>2, <1>4, <1>5 DEF Reports

LEMMA ReportsInv == ASSUME Inv, Reports, SizeOK' PROVE Inv'
<1>1. Typed /\ Owned /\ Known /\ Indexed
  BY DEF Inv
<1>2. Typed' /\ Reported'
  BY <1>1 DEF Typed, Reports, Reported
<1>3. Owned' /\ Known' /\ Indexed'
  BY <1>1 DEF Owned, Known, Indexed, Pollfd, P!Masked, None, Reports
<1> QED
  BY <1>2, <1>3 DEF Inv

LEMMA EPollerReports ==
    ASSUME Inv, Poll, UNCHANGED pollVars
    PROVE  Reports /\ SizeOK'
<1>1. PICK ready \in [Fds -> SUBSET (Events \cup {"hup"})] :
         LET hit == {f \in Fds : ready[f] # {}}
         IN  /\ hit # {} /\ Cardinality(hit) <= size
             /\ \A f \in hit : Registered(f) /\ ready[f] \subseteq epoll[f].events \cup {"hup"}
             /\ \E order \in SetToSeqs(hit) :
                  FillActiveChannels([k \in DOMAIN order |-> epoll[order[k]].ptr],
                    [c \in Channels |-> UNION {ready[f] : f \in {g \in hit : epoll[g].ptr = c}}])
             /\ size' = Grown(Cardinality(hit))
  BY DEF Poll
<1> DEFINE hit == {f \in Fds : ready[f] # {}}
           got == [c \in Channels |-> UNION {ready[f] : f \in {g \in hit : epoll[g].ptr = c}}]
<1>2. PICK order \in SetToSeqs(hit) :
         FillActiveChannels([k \in DOMAIN order |-> epoll[order[k]].ptr], got)
  BY <1>1
<1> DEFINE list == [k \in DOMAIN order |-> epoll[order[k]].ptr]
<1>3. IsFiniteSet(hit) /\ Cardinality(hit) \in Nat /\ Cardinality(hit) <= Cardinality(Fds)
      /\ Cardinality(Fds) \in Nat
  BY ChannelAssumption, FS_Subset, FS_CardinalityType, hit \subseteq Fds
<1>4. \A f \in hit : f \in Fds /\ Registered(f)
                      /\ ready[f] \subseteq epoll[f].events \cup {"hup"}
  BY <1>1
<1>5. size' = Grown(Cardinality(hit))
  BY <1>1
<1> HIDE DEF hit
<1>6. order \in [1 .. Cardinality(hit) -> hit]
  BY DEF SetToSeqs
<1>7. \A f \in hit : epoll[f].ptr \in Channels /\ epoll[f].events = events[epoll[f].ptr]
  BY <1>4, RegisteredChannel
<1>8. list \in Seq(Channels)
  <2>1. DOMAIN list = 1 .. Cardinality(hit) /\ \A k \in DOMAIN list : list[k] \in Channels
    BY <1>6, <1>7
  <2> QED
    BY <1>3, <2>1
<1>9. \A c \in Channels : got[c] \subseteq events[c] \cup {"hup"}
  <2> SUFFICES ASSUME NEW c \in Channels, NEW e \in got[c]
               PROVE  e \in events[c] \cup {"hup"}
    OBVIOUS
  <2>1. PICK f \in hit : epoll[f].ptr = c /\ e \in ready[f]
    OBVIOUS
  <2> QED
    BY <1>4, <1>7, <2>1
<1>10. /\ active = << >> /\ active' = list
       /\ revents' = [c \in Channels |-> IF c \in Range(list) THEN got[c] ELSE {}]
       /\ UNCHANGED <<life, fd, again, events, index, channels, epoll, pIndex, pChannels, pollfds>>
  BY <1>2 DEF FillActiveChannels, Poll, object, pollVars
<1> HIDE DEF got, list
<1>11. Range(list) \subseteq Channels
  BY <1>8, RangeOfSeq
<1>12. Reports
  BY <1>8, <1>9, <1>10, <1>11, FillReports DEF Inv
<1>13. SizeOK'
  <2>1. size \in Nat /\ size >= 1 /\ size <= Max({kInitEventListSize, 2 * Cardinality(Fds)})
        /\ 2 * Cardinality(Fds) <= Max({kInitEventListSize, 2 * Cardinality(Fds)})
        /\ Max({kInitEventListSize, 2 * Cardinality(Fds)}) \in Nat
    BY <1>3, MaxOfTwo, EPollerAssumption DEF Inv, SizeOK
  <2>2. size' = size \/ (size' = 2 * size /\ size = Cardinality(hit))
    BY <1>5, <2>1 DEF Grown
  <2> QED
    BY <1>3, <2>1, <2>2 DEF SizeOK
<1> QED
  BY <1>12, <1>13

\* The operators of the community modules mean the same inside Poller.
LEMMA SameSetToSeqs ==
    ASSUME NEW S, IsFiniteSet(S)
    PROVE  /\ Cardinality(S) \in Nat
           /\ \A s \in P!SetToSeqs(S) : s \in [1 .. Cardinality(S) -> S]
<1>1. Cardinality(S) \in Nat
  BY FS_CardinalityType
<1>2. P!Cardinality(S) = Cardinality(S)
  BY Zenon DEF P!Cardinality, Cardinality
<1> QED
  BY <1>1, <1>2 DEF P!SetToSeqs

\* The element of pollfds_ that poll(2) does not ignore is that of a channel.
LEMMA PollfdChannel ==
    ASSUME Inv, NEW i \in 1 .. Len(pollfds)
    PROVE  \E c \in Channels :
             /\ index[c] # kNew /\ pIndex[c] = i - 1 /\ pollfds[i] = Pollfd(c)
             /\ life[c] = "live" /\ fd[c] \in Nat /\ fd[c] \in Fds /\ pChannels[fd[c]] = c
             /\ P!Unmasked(pollfds[i].fd) = fd[c]
             /\ pollfds[i].fd < 0 <=> (events[c] = {} \/ c \in again)
             /\ pollfds[i].fd >= 0 => pollfds[i].fd = fd[c]
<1>1. PICK c \in Channels : index[c] # kNew /\ pIndex[c] = i - 1
  BY DEF Inv, Indexed
<1>2. pIndex[c] + 1 = i
  BY <1>1
<1>3. /\ life[c] = "live" /\ fd[c] \in Nat /\ fd[c] \in Fds /\ channels[fd[c]] = c
      /\ pollfds[i] = Pollfd(c) /\ P!Unmasked(pollfds[i].fd) = fd[c]
  BY <1>1, <1>2, OwnIndex
<1>4. pChannels[fd[c]] = c
  BY <1>3 DEF Inv, Indexed
<1>5. /\ pollfds[i].fd < 0 <=> (events[c] = {} \/ c \in again)
      /\ pollfds[i].fd >= 0 => pollfds[i].fd = fd[c]
  BY <1>3 DEF Pollfd, P!Masked
<1> QED
  BY <1>1, <1>3, <1>4, <1>5

LEMMA PollerReports ==
    ASSUME Inv, P!Poll, UNCHANGED <<index, channels, epoll, size>>
    PROVE  Reports /\ SizeOK'
<1>1. PICK ready \in [DOMAIN pollfds -> SUBSET (P!Events \cup {"hup"})] :
         /\ \A i \in DOMAIN pollfds :
              ready[i] \subseteq IF pollfds[i].fd < 0 THEN {}
                                 ELSE pollfds[i].events \cup {"hup"}
         /\ \E found \in P!SetToSeqs({i \in DOMAIN pollfds : ready[i] # {}}) :
              LET of == [k \in DOMAIN found |-> pChannels[pollfds[found[k]].fd]]
              IN  /\ \A j, k \in DOMAIN found : j < k => found[j] < found[k]
                  /\ P!FillActiveChannels(of,
                       [c \in Channels |-> UNION {ready[found[k]] :
                                                   k \in {j \in DOMAIN of : of[j] = c}}])
  BY DEF P!Poll
<1> DEFINE hit == {i \in DOMAIN pollfds : ready[i] # {}}
<1>2. PICK found \in P!SetToSeqs(hit) :
         P!FillActiveChannels([k \in DOMAIN found |-> pChannels[pollfds[found[k]].fd]],
             [c \in Channels |-> UNION {ready[found[k]] :
                k \in {j \in DOMAIN [k \in DOMAIN found |-> pChannels[pollfds[found[k]].fd]] :
                         [k \in DOMAIN found |-> pChannels[pollfds[found[k]].fd]][j] = c}}])
  BY <1>1
<1> DEFINE of == [k \in DOMAIN found |-> pChannels[pollfds[found[k]].fd]]
           got == [c \in Channels |-> UNION {ready[found[k]] : k \in {j \in DOMAIN of : of[j] = c}}]
<1>3. DOMAIN pollfds = 1 .. Len(pollfds) /\ Len(pollfds) \in Nat
      /\ \A i \in 1 .. Len(pollfds) : pollfds[i].fd \in Int
  <2> DEFINE S == [fd : Int, events : SUBSET Events]
  <2>1. pollfds \in Seq(S)
    BY DEF Inv, Typed
  <2>2. \A e \in S : e.fd \in Int
    OBVIOUS
  <2> HIDE DEF S
  <2>3. DOMAIN pollfds = 1 .. Len(pollfds) /\ Len(pollfds) \in Nat
    BY <2>1
  <2> QED
    BY <2>1, <2>2, <2>3, ElementOfSeq
<1>4. \A i \in hit : i \in 1 .. Len(pollfds) /\ pollfds[i].fd >= 0
                      /\ ready[i] \subseteq pollfds[i].events \cup {"hup"}
  BY <1>1, <1>3
<1>5. IsFiniteSet(hit)
  <2>1. IsFiniteSet(1 .. Len(pollfds))
    BY <1>3, FS_Interval
  <2>2. hit \subseteq 1 .. Len(pollfds)
    BY <1>3
  <2> QED
    BY <2>1, <2>2, FS_Subset
<1> HIDE DEF hit
<1>6. found \in [1 .. Cardinality(hit) -> hit] /\ Cardinality(hit) \in Nat
  BY <1>5, SameSetToSeqs
<1>7. \A i \in hit : /\ pChannels[pollfds[i].fd] \in Channels
                      /\ pollfds[i].events = events[pChannels[pollfds[i].fd]]
  <2> SUFFICES ASSUME NEW i \in hit
               PROVE  /\ pChannels[pollfds[i].fd] \in Channels
                      /\ pollfds[i].events = events[pChannels[pollfds[i].fd]]
    OBVIOUS
  <2>1. PICK c \in Channels : /\ pollfds[i] = Pollfd(c) /\ pChannels[fd[c]] = c
                              /\ pollfds[i].fd >= 0 => pollfds[i].fd = fd[c]
    BY <1>4, PollfdChannel
  <2>2. pollfds[i].fd = fd[c] /\ pollfds[i].events = events[c]
    BY <1>4, <2>1 DEF Pollfd
  <2> QED
    BY <2>1, <2>2
<1>8. of \in Seq(Channels)
  <2>1. DOMAIN of = 1 .. Cardinality(hit) /\ \A k \in DOMAIN of : of[k] \in Channels
    BY <1>6, <1>7
  <2> QED
    BY <1>6, <2>1
<1>9. \A c \in Channels : got[c] \subseteq events[c] \cup {"hup"}
  <2> SUFFICES ASSUME NEW c \in Channels, NEW e \in got[c]
               PROVE  e \in events[c] \cup {"hup"}
    OBVIOUS
  <2>1. PICK k \in DOMAIN found : of[k] = c /\ e \in ready[found[k]]
    OBVIOUS
  <2> QED
    BY <1>4, <1>6, <1>7, <2>1
<1>10. /\ active = << >> /\ active' = of
       /\ revents' = [c \in Channels |-> IF c \in Range(of) THEN got[c] ELSE {}]
       /\ UNCHANGED <<life, fd, again, events, index, channels, epoll, pIndex, pChannels, pollfds>>
  BY <1>2 DEF P!FillActiveChannels, P!Poll, P!object, P!Range, Range
<1> HIDE DEF got, of
<1>11. Range(of) \subseteq Channels
  BY <1>8, RangeOfSeq
<1>12. Reports
  BY <1>8, <1>9, <1>10, <1>11, FillReports DEF Inv
<1> QED
  BY <1>12 DEF Inv, SizeOK

LEMMA StepInv == Inv /\ [Next]_vars => Inv'
<1> SUFFICES ASSUME Inv, [Next]_vars PROVE Inv'
  OBVIOUS
<1>1. CASE Create
  BY <1>1, CreateInv DEF Create
<1>2. CASE Delete
  BY <1>2, DeleteInv DEF Delete
<1>3. CASE Update
  BY <1>3, UpdateInv DEF Update
<1>4. CASE RemoveIt
  BY <1>4, RemoveInv DEF RemoveIt
<1>5. CASE Poll /\ UNCHANGED pollVars
  BY <1>5, EPollerReports, ReportsInv
<1>6. CASE P!Poll /\ UNCHANGED <<index, channels, epoll, size>>
  BY <1>6, PollerReports, ReportsInv
<1>7. CASE HandleEvent /\ UNCHANGED <<epoll, size, pollVars>>
  BY <1>7, HandleEventInv
<1>8. CASE UNCHANGED vars
  <2>1. UNCHANGED <<life, fd, again, events, revents, index, channels, active, epoll, size,
                    pIndex, pChannels, pollfds>>
    BY <1>8 DEF vars, channelVars, object, pollVars
  <2> QED
    BY <2>1 DEF Inv, Typed, Owned, Known, Indexed, Pollfd, P!Masked, None, SizeOK, Reported
<1> QED
  BY <1>1, <1>2, <1>3, <1>4, <1>5, <1>6, <1>7, <1>8 DEF Next

LEMMA AlwaysInv == Spec => []Inv
  BY InvInit, StepInv, PTL DEF Spec

-----------------------------------------------------------------------------
\* No epoll_ctl() of EPoller::update() fails and no assertion of EPoller.cc
\* does, whatever channels there are and however often their descriptors are
\* used again; the array of epoll_wait() stays within twice the descriptors.
THEOREM EPollerKernelAgrees == Spec => []KernelAgrees
<1>1. Inv => KernelAgrees
  <2> SUFFICES ASSUME Inv PROVE KernelAgrees
    OBVIOUS
  <2>1. Typed /\ Owned /\ Known /\ SizeOK
    BY DEF Inv
  <2>2. TypeOK
    <3>1. {kNew, kAdded, kDeleted} \subseteq Int
      BY DEF kNew, kAdded, kDeleted
    <3>2. index \in [Channels -> Int]
      BY <2>1, <3>1 DEF Typed
    <3> QED
      BY <2>1, <3>2 DEF TypeOK, ChannelTypeOK, Typed, SizeOK
  <2>3. \A c \in Channels : index[c] = kAdded => Registered(fd[c])
    <3> SUFFICES ASSUME NEW c \in Channels, index[c] = kAdded PROVE Registered(fd[c])
      OBVIOUS
    <3>1. epoll[fd[c]] = [events |-> events[c], ptr |-> c]
      BY <2>1 DEF Known
    <3> QED
      BY <3>1, ChannelAssumption DEF Registered
  <2>4. \A c \in Channels : (life[c] = "live" /\ index[c] # kAdded) => ~Registered(fd[c])
    <3> SUFFICES ASSUME NEW c \in Channels, life[c] = "live", index[c] # kAdded, Registered(fd[c])
                 PROVE  FALSE
      OBVIOUS
    <3>1. fd[c] \in Fds
      BY <2>1 DEF Owned
    <3>2. PICK d \in Channels : life[d] = "live" /\ fd[d] = fd[c] /\ index[d] = kAdded
      BY <3>1, RegisteredChannel
    <3> QED
      BY <2>1, <3>2 DEF Owned
  <2>5. \A c \in Channels : life[c] = "live" => UpdateAsserts(c)
    BY <2>1 DEF Known, UpdateAsserts
  <2>6. \A c \in Channels : life[c] = "live" =>
          \A ev \in Changes(c) : Succeeds(Operation(c, ev), fd[c])
    BY <2>3, <2>4 DEF Succeeds, Operation
  <2>7. \A c \in Channels : Removable(c) /\ NeedsDel(c) => Succeeds("DEL", fd[c])
    BY <2>3 DEF NeedsDel, Succeeds
  <2>8. \A f \in Fds : Registered(f) => channels[f] = epoll[f].ptr /\ fd[channels[f]] = f
    BY RegisteredChannel
  <2> QED
    BY <2>2, <2>5, <2>6, <2>7, <2>8 DEF KernelAgrees, Agree
<1> QED
  BY <1>1, AlwaysInv, PTL

\* No assertion of Poller::updateChannel() or removeChannel() fails: the
\* indices, pollfds_ and channels_ agree after any moves of the last element.
THEOREM PollerPollfdsAgree == Spec => []PollfdsAgree
<1>1. Inv => PollfdsAgree
  <2> SUFFICES ASSUME Inv PROVE PollfdsAgree
    OBVIOUS
  <2>1. Typed /\ Owned /\ Known /\ Indexed
    BY DEF Inv
  <2>2. kNew = -1 /\ P!kNew = -1 /\ Events = P!Events /\ Len(pollfds) \in Nat
    BY <2>1 DEF kNew, P!kNew, Events, P!Events, Typed
  <2>3. \A c \in Channels : life[c] = "live" => pIndex[c] \in P!kNew .. Len(pollfds) - 1
    <3> SUFFICES ASSUME NEW c \in Channels, life[c] = "live"
                 PROVE  pIndex[c] \in -1 .. Len(pollfds) - 1
      BY <2>2
    <3>1. CASE index[c] = kNew
      BY <2>1, <2>2, <3>1 DEF Indexed
    <3>2. CASE index[c] # kNew
      BY <2>2, <3>2, OwnIndex
    <3> QED
      BY <3>1, <3>2
  <2>4. P!TypeOK
    <3>1. pChannels \in [Fds -> Channels \cup {NoChannel}]
      BY <2>1 DEF Typed, Indexed
    <3> QED
      BY <2>1, <2>2, <2>3, <3>1 DEF P!TypeOK, P!ChannelTypeOK, Typed
  <2>5. \A c \in Channels : life[c] = "live" => P!UpdateAsserts(c)
    <3> SUFFICES ASSUME NEW c \in Channels, life[c] = "live"
                 PROVE  P!UpdateAsserts(c)
      OBVIOUS
    <3>1. CASE index[c] = kNew
      <4>1. pIndex[c] < 0 /\ pChannels[fd[c]] = NoChannel
        BY <2>1, <2>2, <3>1 DEF Indexed, Known
      <4> QED
        BY <4>1 DEF P!UpdateAsserts
    <3>2. CASE index[c] # kNew
      <4>1. /\ pIndex[c] \in 0 .. Len(pollfds) - 1 /\ pChannels[fd[c]] = c
            /\ pollfds[pIndex[c] + 1] = Pollfd(c)
        BY <2>1, <3>2, OwnIndex DEF Indexed
      <4>2. Pollfd(c).fd \in {fd[c], P!Masked(fd[c])}
        BY DEF Pollfd
      <4>3. pIndex[c] < Len(pollfds) /\ ~(pIndex[c] < 0)
        BY <2>2, <4>1
      <4> QED
        BY <4>1, <4>2, <4>3 DEF P!UpdateAsserts
    <3> QED
      BY <3>1, <3>2
  <2>6. \A c \in Channels : P!Removable(c) => P!RemoveAsserts(c)
    <3> SUFFICES ASSUME NEW c \in Channels, P!Removable(c)
                 PROVE  P!RemoveAsserts(c)
      OBVIOUS
    <3>1. life[c] = "live" /\ index[c] # kNew /\ events[c] = {}
      BY <2>1, <2>2 DEF P!Removable, Indexed
    <3>2. pollfds[pIndex[c] + 1] = Pollfd(c)
      BY <3>1, OwnIndex
    <3> QED
      BY <2>5, <3>1, <3>2 DEF P!RemoveAsserts, Pollfd
  <2>7. \A i \in DOMAIN pollfds :
          LET c == pChannels[P!Unmasked(pollfds[i].fd)]
          IN  /\ c \in Channels /\ pIndex[c] = i - 1 /\ life[c] = "live"
              /\ pollfds[i].fd < 0 <=> events[c] = {} \/ c \in again
    <3> SUFFICES ASSUME NEW i \in DOMAIN pollfds
                 PROVE  LET c == pChannels[P!Unmasked(pollfds[i].fd)]
                        IN  /\ c \in Channels /\ pIndex[c] = i - 1 /\ life[c] = "live"
                            /\ pollfds[i].fd < 0 <=> events[c] = {} \/ c \in again
      BY Zenon
    <3>1. i \in 1 .. Len(pollfds)
      BY <2>1 DEF Typed
    <3>2. PICK c \in Channels :
             /\ pIndex[c] = i - 1 /\ life[c] = "live" /\ pChannels[fd[c]] = c
             /\ P!Unmasked(pollfds[i].fd) = fd[c]
             /\ pollfds[i].fd < 0 <=> (events[c] = {} \/ c \in again)
      BY <3>1, PollfdChannel
    <3> QED
      BY <3>2
  <2> QED
    BY <2>4, <2>5, <2>6, <2>7 DEF PollfdsAgree, P!Agree
<1> QED
  BY <1>1, AlwaysInv, PTL

\* EPoller keeps the promise of updateChannel(): the kernel is always asked
\* for exactly what the channels want, and poll() reports nothing else.
THEOREM InterestRefinement == Spec => ImplementsInterest
<1>1. BothInit => Interest!Init
  <2> SUFFICES ASSUME BothInit PROVE Interest!Init
    OBVIOUS
  <2>1. Asked = events
    BY InvInit, AskedIsWanted
  <2>2. events = [c \in Channels |-> {}] /\ revents = [c \in Channels |-> {}]
    BY DEF BothInit, Init, ChannelInit
  <2> QED
    BY <2>1, <2>2 DEF Interest!Init, Interest!Nothing
<1>2. Inv /\ Inv' /\ [Next]_vars => [Interest!Next]_Interest!vars
  <2> SUFFICES ASSUME Inv, Inv', [Next]_vars PROVE [Interest!Next]_Interest!vars
    OBVIOUS
  <2>1. Asked = events /\ Asked' = events'
    <3>1. Asked = events
      BY AskedIsWanted
    <3>2. (Inv => Asked = events)'
      BY AskedIsWanted, PTL
    <3> QED
      BY <3>1, <3>2
  <2>2. ASSUME UNCHANGED <<events, revents>> PROVE UNCHANGED Interest!vars
    BY <2>1, <2>2 DEF Interest!vars
  <2>3. CASE Create
    BY <2>2, <2>3 DEF Create, Construct
  <2>4. CASE Delete
    BY <2>2, <2>4 DEF Delete, Destroy
  <2>5. CASE Update
    <3>1. PICK c \in Channels, ev \in SUBSET Events : UpdateChannel(c, ev)
      BY <2>5 DEF Update
    <3>2. events' = [events EXCEPT ![c] = ev] /\ UNCHANGED revents
      BY <3>1 DEF UpdateChannel, Change
    <3>3. Interest!UpdateChannel(c, ev)
      BY <2>1, <3>2 DEF Interest!UpdateChannel
    <3> QED
      BY <3>3 DEF Interest!Next
  <2>6. CASE RemoveIt
    BY <2>2, <2>6 DEF RemoveIt, RemoveChannel, Forget
  <2>7. ASSUME Reports PROVE Interest!Poll
    <3>1. \A c \in Channels : revents[c] = {}
      <4>1. Range(active) = {}
        BY <2>7 DEF Reports, Range
      <4> QED
        BY <4>1 DEF Inv, Reported
    <3>2. revents = [c \in Channels |-> {}]
      BY <3>1 DEF Inv, Typed
    <3>3. /\ revents' \in [Channels -> SUBSET (Events \cup {"hup"})]
          /\ \A c \in Channels : revents'[c] \subseteq events[c] \cup {"hup"}
          /\ UNCHANGED events
      BY <2>7 DEF Reports
    <3> QED
      BY <2>1, <3>2, <3>3 DEF Interest!Poll, Interest!Nothing
  <2>8. CASE Poll /\ UNCHANGED pollVars
    BY <2>7, <2>8, EPollerReports DEF Interest!Next
  <2>9. CASE P!Poll /\ UNCHANGED <<index, channels, epoll, size>>
    BY <2>7, <2>9, PollerReports DEF Interest!Next
  <2>10. CASE HandleEvent /\ UNCHANGED <<epoll, size, pollVars>>
    <3>1. Head(active) \in Channels
      BY <2>10 DEF Inv, Typed, HandleEvent
    <3>2. Interest!HandleEvent(Head(active))
      BY <2>1, <2>10 DEF HandleEvent, Interest!HandleEvent
    <3> QED
      BY <3>1, <3>2 DEF Interest!Next
  <2>11. CASE UNCHANGED vars
    BY <2>2, <2>11 DEF vars, channelVars
  <2> QED
    BY <2>3, <2>4, <2>5, <2>6, <2>8, <2>9, <2>10, <2>11 DEF Next
<1> QED
  BY <1>1, <1>2, AlwaysInv, PTL DEF Spec, ImplementsInterest, Interest!Spec

=============================================================================
