------------------------------- MODULE EPoller -------------------------------
(***************************************************************************)
(* The epoll(4) poller (reactor/s13/EPoller.{h,cc}): the kernel keeps the  *)
(* registrations, a channel's index says whether it has one, and the array *)
(* given to epoll_wait() grows when it was filled.  A control call that    *)
(* fails ends the program (EPoller::update(), LOG_SYSFATAL), except for a  *)
(* failed EPOLL_CTL_DEL, which is logged.                                  *)
(***************************************************************************)
EXTENDS Channel

CONSTANT kInitEventListSize

ASSUME EPollerAssumption == kInitEventListSize \in Nat \ {0}

VARIABLES
    epoll,          \* the kernel's registrations by descriptor: events and data.ptr
    size            \* events_.size()

kAdded == 1
kDeleted == 2
None == [events |-> {}, ptr |-> NoChannel]

Init ==
    /\ ChannelInit
    /\ epoll = [f \in Fds |-> None]
    /\ size = kInitEventListSize

Registered(f) == epoll[f].ptr # NoChannel

\* Mutant of Operation: a channel that only writes is taken for one without events.
OperationReading(c, ev) ==
    IF index[c] # kAdded THEN "ADD" ELSE IF "read" \notin ev THEN "DEL" ELSE "MOD"

\* updateChannel(): the operation of epoll_ctl(), and whether it can succeed.
Operation(c, ev) ==
    IF index[c] # kAdded THEN "ADD" ELSE IF ev = {} THEN "DEL" ELSE "MOD"

Succeeds(op, f) == IF op = "ADD" THEN ~Registered(f) ELSE Registered(f)

UpdateAsserts(c) == channels[fd[c]] = IF index[c] = kNew THEN NoChannel ELSE c

\* update(): only the failures of EPOLL_CTL_ADD and EPOLL_CTL_MOD are fatal.
Control(op, c, ev) ==
    /\ op # "DEL" => Succeeds(op, fd[c])
    /\ epoll' = [epoll EXCEPT ![fd[c]] = IF op = "DEL" THEN None
                                         ELSE [events |-> ev, ptr |-> c]]

UpdateChannel(c, ev) ==
    /\ Change(c, ev)
    /\ UpdateAsserts(c)
    /\ channels' = [channels EXCEPT ![fd[c]] = c]
    /\ LET op == Operation(c, ev)
       IN  /\ index' = [index EXCEPT ![c] = IF op = "DEL" THEN kDeleted ELSE kAdded]
           /\ Control(op, c, ev)
    /\ UNCHANGED size

\* Mutant of NeedsDel: the registration is taken to be gone already.
NeedsDelNever(c) == FALSE

\* removeChannel(): after a second disableAll() a registration exists again.
NeedsDel(c) == index[c] = kAdded

RemoveChannel(c) ==
    /\ Removable(c)
    /\ UpdateAsserts(c)
    /\ channels' = [channels EXCEPT ![fd[c]] = NoChannel]
    /\ IF NeedsDel(c) THEN Control("DEL", c, {}) ELSE UNCHANGED epoll
    /\ index' = [index EXCEPT ![c] = kNew]
    /\ Forget(c)
    /\ UNCHANGED size

\* events_.resize(), when epoll_wait() filled the array.
Grown(n) == IF n = size THEN size * 2 ELSE size

\* epoll_wait() and fillActiveChannels(): at most size registrations, in any order.
Poll ==
    /\ active = << >>
    /\ \E ready \in [Fds -> SUBSET (Events \cup {"hup"})] :
         LET hit == {f \in Fds : ready[f] # {}}
         IN  /\ hit # {} /\ Cardinality(hit) <= size
             /\ \A f \in hit : Registered(f) /\ ready[f] \subseteq epoll[f].events \cup {"hup"}
             /\ \E order \in SetToSeqs(hit) :
                  FillActiveChannels([k \in DOMAIN order |-> epoll[order[k]].ptr],
                    [c \in Channels |-> UNION {ready[f] : f \in {g \in hit : epoll[g].ptr = c}}])
             /\ size' = Grown(Cardinality(hit))
    /\ UNCHANGED epoll

-----------------------------------------------------------------------------
(* State predicates, for the properties of module Pollers.                 *)

\* The array given to epoll_wait() stays within twice the number of
\* descriptors (EPoller.cc:66-69).
TypeOK ==
    /\ ChannelTypeOK
    /\ \A f \in Fds : epoll[f] \in [events : SUBSET Events, ptr : Channels \cup {NoChannel}]
    /\ size \in 1..Max({kInitEventListSize, 2 * Cardinality(Fds)})

\* channels_, the indices and the kernel describe the same registrations.
Agree ==
    /\ \A c \in Channels : life[c] = "live" =>
         /\ UpdateAsserts(c)
         /\ \A ev \in Changes(c) : Succeeds(Operation(c, ev), fd[c])
    /\ \A c \in Channels : Removable(c) /\ NeedsDel(c) => Succeeds("DEL", fd[c])
    /\ \A f \in Fds : Registered(f) => channels[f] = epoll[f].ptr /\ fd[channels[f]] = f

\* What the kernel was asked for about the channel's descriptor.
Asked == [c \in Channels |->
    IF life[c] = "live" THEN epoll[fd[c]].events ELSE {}]
=============================================================================
