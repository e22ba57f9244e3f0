------------------------------- MODULE Channel -------------------------------
(***************************************************************************)
(* The channels of one loop (reactor/s13/Channel.{h,cc}) and the way the   *)
(* loop and the classes that own channels use them: what Poller and        *)
(* EPoller have in common.  Everything runs in the loop's thread.          *)
(*                                                                         *)
(* A descriptor is used again: by a later object, and by the connection    *)
(* that takes over the socket of a Connector whose old Channel is deleted  *)
(* later (Connector.cc, removeAndResetChannel()).                          *)
(***************************************************************************)
EXTENDS Integers, Sequences, SequencesExt

CONSTANTS
    Channels,       \* the Channel objects
    Fds,            \* the descriptors
    NoChannel       \* no entry in channels_

\* A process has a limited number of descriptors.
ASSUME ChannelAssumption ==
    /\ Fds \subseteq Nat /\ IsFiniteSet(Fds)
    /\ NoChannel \notin Channels

VARIABLES
    life,           \* none, live, or removed from the poller but not deleted
    fd,             \* fd_
    events,         \* events_
    revents,        \* revents_
    index,          \* index_
    channels,       \* the poller's channels_
    active,         \* activeChannels_; the head is being handled
    again           \* history: channels enabled again after disableAll()

object == <<life, fd, again>>
channelVars == <<object, events, revents, index, channels, active>>

Events == {"read", "write"}
kNew == -1

ChannelInit ==
    /\ life = [c \in Channels |-> "none"]
    /\ fd = [c \in Channels |-> 0]
    /\ events = [c \in Channels |-> {}]
    /\ revents = [c \in Channels |-> {}]
    /\ index = [c \in Channels |-> kNew]
    /\ channels = [f \in Fds |-> NoChannel]
    /\ active = << >> /\ again = {}

\* A channel for a descriptor that no other channel watches.
Construct(c, f) ==
    /\ life[c] = "none"
    /\ \A d \in Channels : life[d] = "live" => fd[d] # f
    /\ life' = [life EXCEPT ![c] = "live"]
    /\ fd' = [fd EXCEPT ![c] = f]
    /\ index' = [index EXCEPT ![c] = kNew]
    /\ UNCHANGED <<events, revents, channels, active, again>>

\* The owner deletes the channel, from a functor, once it is removed.
Destroy(c) ==
    /\ life[c] = "removed"
    /\ c \notin Range(active)
    /\ life' = [life EXCEPT ![c] = "none"]
    /\ fd' = [fd EXCEPT ![c] = 0]
    /\ index' = [index EXCEPT ![c] = kNew]
    /\ again' = again \ {c}
    /\ UNCHANGED <<events, revents, channels, active>>

\* enableReading(), enableWriting(), disableWriting(), disableAll(): the
\* events after the call.  The first call on a channel enables something.  No
\* owner means to use a channel that is removed; that a late sendInLoop() does
\* is in TcpConnection and TcpServer.
Changes(c) ==
    IF life[c] # "live" THEN {}
    ELSE {events[c] \cup {"read"}, events[c] \cup {"write"}}
           \cup (IF index[c] = kNew THEN {} ELSE {events[c] \ {"write"}, {}})

Change(c, ev) ==
    /\ ev \in Changes(c)
    /\ events' = [events EXCEPT ![c] = ev]
    /\ again' = IF index[c] # kNew /\ events[c] = {} /\ ev # {} THEN again \cup {c} ELSE again
    /\ UNCHANGED <<life, fd, revents, active>>

\* Owners remove a channel without events: in its own handler or in a functor.
Removable(c) ==
    /\ life[c] = "live" /\ index[c] # kNew /\ events[c] = {}
    /\ active # << >> => c \notin Range(Tail(active))

Forget(c) ==
    /\ life' = [life EXCEPT ![c] = "removed"]
    /\ UNCHANGED <<fd, events, revents, active, again>>

\* EventLoop::loop() goes on to the next channel of activeChannels_.
HandleEvent ==
    /\ active # << >>
    /\ revents' = [revents EXCEPT ![Head(active)] = {}]
    /\ active' = Tail(active)
    /\ UNCHANGED <<object, events, index, channels>>

\* fillActiveChannels(): hit is the list of the channels found, and got what
\* is reported about each.
FillActiveChannels(hit, got) ==
    /\ active' = hit
    /\ revents' = [c \in Channels |-> IF c \in Range(hit) THEN got[c] ELSE {}]
    /\ UNCHANGED <<object, events, index, channels>>

\* The channels are interchangeable.
Symmetry == Permutations(Channels)

ChannelTypeOK ==
    /\ life \in [Channels -> {"none", "live", "removed"}]
    /\ fd \in [Channels -> Fds \cup {0}]
    /\ events \in [Channels -> SUBSET Events]
    /\ revents \in [Channels -> SUBSET (Events \cup {"hup"})]
    /\ index \in [Channels -> Int]
    /\ channels \in [Fds -> Channels \cup {NoChannel}]
    /\ active \in Seq(Channels)
=============================================================================
