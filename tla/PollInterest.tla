---------------------------- MODULE PollInterest ----------------------------
(***************************************************************************)
(* What a poller promises the channels of a loop ("Changes the interested  *)
(* I/O events", reactor/s13/Poller.h, EPoller.h): from the return of        *)
(* updateChannel() on, the kernel is asked for exactly the events that the *)
(* channel wants, and what poll() reports for a channel is what the kernel *)
(* was asked for about that channel; a hang-up needs no asking.            *)
(***************************************************************************)
CONSTANTS Channels, Events

VARIABLES
    wanted,         \* Channel::events_
    asked,          \* what the kernel is asked to report about the channel
    reported        \* what poll() reported and is not handled yet

vars == <<wanted, asked, reported>>

Nothing == [c \in Channels |-> {}]

Init == wanted = Nothing /\ asked = Nothing /\ reported = Nothing

UpdateChannel(c, ev) ==
    /\ wanted' = [wanted EXCEPT ![c] = ev]
    /\ asked' = [asked EXCEPT ![c] = ev]
    /\ UNCHANGED reported

Poll ==
    /\ reported = Nothing
    /\ reported' \in [Channels -> SUBSET (Events \cup {"hup"})]
    /\ \A c \in Channels : reported'[c] \subseteq asked[c] \cup {"hup"}
    /\ UNCHANGED <<wanted, asked>>

HandleEvent(c) ==
    /\ reported' = [reported EXCEPT ![c] = {}]
    /\ UNCHANGED <<wanted, asked>>

Next ==
    \/ \E c \in Channels, ev \in SUBSET Events : UpdateChannel(c, ev)
    \/ Poll
    \/ \E c \in Channels : HandleEvent(c)

Spec == Init /\ [][Next]_vars
=============================================================================
