------------------------------- MODULE Pollers -------------------------------
(***************************************************************************)
(* The two pollers side by side: the channels of one loop, used in every   *)
(* order their owners use them in, with an EPoller (the one EventLoop.cc   *)
(* creates) and a Poller told the same.  Either may do the polling.        *)
(***************************************************************************)
EXTENDS EPoller

VARIABLES
    pIndex, pChannels,  \* the indices and channels_ as Poller keeps them
    pollfds             \* Poller's pollfds_

P == INSTANCE Poller WITH index <- pIndex, channels <- pChannels

pollVars == <<pIndex, pChannels, pollfds>>
vars == <<channelVars, epoll, size, pollVars>>

BothInit == Init /\ P!Init

Create == \E c \in Channels : \E f \in Fds :
    Construct(c, f) /\ P!Construct(c, f) /\ UNCHANGED <<epoll, size, pollfds>>

Delete == \E c \in Channels :
    Destroy(c) /\ P!Destroy(c) /\ UNCHANGED <<epoll, size, pollfds>>

Update == \E c \in Channels : \E ev \in SUBSET Events :
    UpdateChannel(c, ev) /\ P!UpdateChannel(c, ev)

RemoveIt == \E c \in Channels : RemoveChannel(c) /\ P!RemoveChannel(c)

Next ==
    \/ Create \/ Delete \/ Update \/ RemoveIt
    \/ Poll /\ UNCHANGED pollVars
    \/ P!Poll /\ UNCHANGED <<index, channels, epoll, size>>
    \/ HandleEvent /\ UNCHANGED <<epoll, size, pollVars>>

Spec == BothInit /\ [][Next]_vars

-----------------------------------------------------------------------------
(* Properties.                                                             *)

\* No assertion of Poller's updateChannel() (Poller.cc:69-85) or
\* removeChannel() (Poller.cc:99-107) can fail: after any number of removals,
\* each of which moves the last pollfd, an index is still its channel's.  (And
\* the state of Poller has its types.)
PollfdsAgree == P!TypeOK /\ P!Agree

\* No call of epoll_ctl() and no assertion of EPoller (EPoller.cc:90-92,
\* 111-127, 147-154) can fail, though a channel is disabled twice, enabled
\* again, and its descriptor used by a later channel.  (And the state of
\* EPoller has its types; its array does not grow without need.)
KernelAgrees == TypeOK /\ Agree

Interest == INSTANCE PollInterest
    WITH wanted <- events, asked <- Asked, reported <- revents

\* updateChannel() "Changes the interested I/O events" (EPoller.h:40), for
\* channels enabled again too, and what is reported about a descriptor
\* reaches the channel that watches it now.
ImplementsInterest == Interest!Spec
=============================================================================
