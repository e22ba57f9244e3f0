------------------------------- MODULE Poller -------------------------------
(***************************************************************************)
(* The poll(2) poller (reactor/s13/Poller.{h,cc}): an array of pollfds,    *)
(* each channel's index in it, and a map from descriptors to channels.     *)
(* A channel without events is masked by the negative descriptor -fd-1.    *)
(***************************************************************************)
EXTENDS Channel

VARIABLE pollfds    \* pollfds_; position i holds the element with index i-1

Init == ChannelInit /\ pollfds = << >>

\* Mutant of Masked: descriptor 0 has no negative.
MaskedMinus(f) == -f

\* The descriptor that poll(2) ignores, and the way back.
Masked(f) == -f - 1
Unmasked(f) == IF f < 0 THEN Masked(f) ELSE f

\* updateChannel() of a known channel never takes the mask away: a channel
\* that was disabled and is enabled again stays ignored, though Poller.h:40
\* says "Changes the interested I/O events".  EPoller does not do so.
UpdatedFd(c, ev) == IF ev = {} THEN Masked(fd[c]) ELSE pollfds[index[c] + 1].fd

\* The assertions of updateChannel() and removeChannel().
UpdateAsserts(c) ==
    IF index[c] < 0 THEN channels[fd[c]] = NoChannel
    ELSE /\ channels[fd[c]] = c
         /\ index[c] < Len(pollfds)
         /\ pollfds[index[c] + 1].fd \in {fd[c], Masked(fd[c])}

RemoveAsserts(c) ==
    /\ UpdateAsserts(c)
    /\ pollfds[index[c] + 1] = [fd |-> Masked(fd[c]), events |-> {}]

UpdateChannel(c, ev) ==
    /\ Change(c, ev)
    /\ UpdateAsserts(c)
    /\ IF index[c] < 0
         THEN /\ pollfds' = Append(pollfds, [fd |-> fd[c], events |-> ev])
              /\ index' = [index EXCEPT ![c] = Len(pollfds)]
              /\ channels' = [channels EXCEPT ![fd[c]] = c]
         ELSE /\ pollfds' = [pollfds EXCEPT ![index[c] + 1] =
                               [fd |-> UpdatedFd(c, ev), events |-> ev]]
              /\ UNCHANGED <<index, channels>>

\* channels_[channelAtEnd]->set_index(idx)
Renumber(last, i) == [index EXCEPT ![channels[last]] = i]

\* The last element takes the place of the removed one.
RemoveChannel(c) ==
    /\ Removable(c)
    /\ RemoveAsserts(c)
    /\ channels' = [channels EXCEPT ![fd[c]] = NoChannel]
    /\ LET idx == index[c]
           end == Last(pollfds)
       IN  /\ pollfds' = Front([pollfds EXCEPT ![idx + 1] = end])
           /\ index' = IF idx = Len(pollfds) - 1 THEN index
                       ELSE Renumber(Unmasked(end.fd), idx)
    /\ Forget(c)

\* poll(2) and fillActiveChannels(), in the order of pollfds_.
Poll ==
    /\ active = << >>
    /\ \E ready \in [DOMAIN pollfds -> SUBSET (Events \cup {"hup"})] :
         /\ \A i \in DOMAIN pollfds :
              ready[i] \subseteq IF pollfds[i].fd < 0 THEN {}
                                 ELSE pollfds[i].events \cup {"hup"}
         /\ \E found \in SetToSeqs({i \in DOMAIN pollfds : ready[i] # {}}) :
              LET of == [k \in DOMAIN found |-> channels[pollfds[found[k]].fd]]
              IN  /\ \A j, k \in DOMAIN found : j < k => found[j] < found[k]
                  /\ FillActiveChannels(of,
                       [c \in Channels |-> UNION {ready[found[k]] :
                                                   k \in {j \in DOMAIN of : of[j] = c}}])
    /\ UNCHANGED pollfds

-----------------------------------------------------------------------------
(* State predicates, for the properties of module Pollers.                 *)

\* An index is one of pollfds_ (Poller.cc:83, 104).
TypeOK ==
    /\ ChannelTypeOK
    /\ \A c \in Channels : life[c] = "live" => index[c] \in kNew..Len(pollfds) - 1
    /\ pollfds \in Seq([fd : Int, events : SUBSET Events])

\* pollfds_, channels_ and the indices describe the same set of channels, and
\* the channels without events are masked; a mask is for ever.
Agree ==
    /\ \A c \in Channels : life[c] = "live" => UpdateAsserts(c)
    /\ \A c \in Channels : Removable(c) => RemoveAsserts(c)
    /\ \A i \in DOMAIN pollfds :
         LET c == channels[Unmasked(pollfds[i].fd)]
         IN  /\ c \in Channels /\ index[c] = i - 1 /\ life[c] = "live"
             /\ pollfds[i].fd < 0 <=> events[c] = {} \/ c \in again
=============================================================================
