------------------------------ MODULE EventLoop ------------------------------
(***************************************************************************)
(* muduo::EventLoop (reactor/s13/EventLoop.{h,cc}): one loop thread that   *)
(* polls, dispatches the active channels and then runs the functors that   *)
(* any thread may have queued.  A functor queued while the loop is blocked *)
(* in poll() must not stay there: the queueing thread writes to an eventfd *)
(* that the loop always polls.                                             *)
(*                                                                         *)
(* The loop thread takes one action per step between two points at which   *)
(* another thread can see or change what it uses; queueInLoop and quit of  *)
(* another thread are two steps each, since the loop can run between the   *)
(* push (or the store to quit_) and the write to the eventfd.              *)
(***************************************************************************)
EXTENDS Integers, Sequences, Functions

CONSTANTS
    Callers,        \* threads other than the loop thread
    Functors,       \* callback instances, each handed to the loop at most once
    EventFdMax      \* largest value of the eventfd's counter (2^64 - 2 in Linux)

ASSUME EventFdMaxAssumption == EventFdMax \in Nat \ {0}

VARIABLES
    pc,                     \* where the loop thread is
    looping,                \* looping_
    quit,                   \* quit_
    callingPendingFunctors, \* callingPendingFunctors_
    pendingFunctors,        \* pendingFunctors_, guarded by mutex_
    functors,               \* the batch being run by doPendingFunctors()
    eventfd,                \* the counter behind wakeupFd_
    active,                 \* activeChannels_ not handled yet: wakeup channel, other channel
    cpc,                    \* where each other thread is in queueInLoop() or quit()
    ran,                    \* history: callbacks in the order in which they ran
    early                   \* history: queued by the loop thread outside loop()

vars == <<pc, looping, quit, callingPendingFunctors, pendingFunctors,
          functors, eventfd, active, cpc, ran, early>>

(***************************************************************************)
(* The loop thread's control points.                                       *)
(*   idle      outside loop(): before the call or after it returned        *)
(*   test      at while (!quit_)                                           *)
(*   poll      in poller_->poll()                                          *)
(*   events    dispatching activeChannels_                                 *)
(*   callback  in a channel's callback, other than the wakeup channel's    *)
(*   swap      in doPendingFunctors(), before the swap                     *)
(*   run       in doPendingFunctors(), between two functors                *)
(*   functor   in a functor                                                *)
(***************************************************************************)
LoopPoints == {"idle", "test", "poll", "events", "callback", "swap", "run",
               "functor"}

\* Points at which the loop thread runs user code.
InUserCode == pc \in {"idle", "callback", "functor"}

Fresh(f) ==
    f \notin Range(pendingFunctors) \cup Range(functors) \cup Range(ran)

Init ==
    /\ pc = "idle"
    /\ looping = FALSE
    /\ quit = FALSE
    /\ callingPendingFunctors = FALSE
    /\ pendingFunctors = << >>
    /\ functors = << >>
    /\ eventfd = 0
    /\ active = {}
    /\ cpc = [c \in Callers |-> "out"]
    /\ ran = << >>
    /\ early = {}

-----------------------------------------------------------------------------
(* The loop thread.                                                        *)

\* Mutant of Wakeup: no write at all.
WakeupNothing == UNCHANGED eventfd

\* EventLoop::wakeup(): a write to a full eventfd fails and is only logged.
Wakeup == eventfd' = IF eventfd < EventFdMax THEN eventfd + 1 ELSE eventfd

\* Mutant of NeedsWakeup: only another thread wakes the loop.
NeedsWakeupNever == FALSE

\* The test at the end of queueInLoop(), for the loop thread itself.
NeedsWakeup == callingPendingFunctors

\* Entry of loop().
StartLoop ==
    /\ pc = "idle"
    /\ looping' = TRUE
    /\ quit' = FALSE
    /\ pc' = "test"
    /\ UNCHANGED <<callingPendingFunctors, pendingFunctors, functors, eventfd,
                   active, cpc, ran, early>>

\* while (!quit_), and activeChannels_.clear().
TestQuit ==
    /\ pc = "test"
    /\ IF quit
         THEN pc' = "idle" /\ looping' = FALSE
         ELSE pc' = "poll" /\ UNCHANGED looping
    /\ UNCHANGED <<quit, callingPendingFunctors, pendingFunctors, functors,
                   eventfd, active, cpc, ran, early>>

\* poll() returns with the channels that are ready: the wakeup channel when
\* the eventfd is readable, and possibly another channel.
PollReady(io) ==
    /\ pc = "poll"
    /\ active' = (IF eventfd > 0 THEN {"wakeup"} ELSE {}) \cup io
    /\ active' # {}
    /\ pc' = "events"
    /\ UNCHANGED <<looping, quit, callingPendingFunctors, pendingFunctors,
                   functors, eventfd, cpc, ran, early>>

\* poll() returns after kPollTimeMs, or on a signal, with no channel.
PollTimeout ==
    /\ pc = "poll"
    /\ eventfd = 0
    /\ pc' = "events"
    /\ UNCHANGED <<looping, quit, callingPendingFunctors, pendingFunctors,
                   functors, eventfd, active, cpc, ran, early>>

\* The wakeup channel's callback: the read resets the counter.
HandleRead ==
    /\ pc = "events"
    /\ "wakeup" \in active
    /\ eventfd' = 0
    /\ active' = active \ {"wakeup"}
    /\ UNCHANGED <<pc, looping, quit, callingPendingFunctors, pendingFunctors,
                   functors, cpc, ran, early>>

\* Another active channel's callback is entered.
HandleEvent ==
    /\ pc = "events"
    /\ "io" \in active
    /\ active' = active \ {"io"}
    /\ pc' = "callback"
    /\ UNCHANGED <<looping, quit, callingPendingFunctors, pendingFunctors,
                   functors, eventfd, cpc, ran, early>>

\* Every active channel is handled; doPendingFunctors() sets its flag.
BeginPendingFunctors ==
    /\ pc = "events"
    /\ active = {}
    /\ callingPendingFunctors' = TRUE
    /\ pc' = "swap"
    /\ UNCHANGED <<looping, quit, pendingFunctors, functors, eventfd, active,
                   cpc, ran, early>>

\* Mutant of SwapPendingFunctors: the vector is copied, not swapped.
CopyPendingFunctors ==
    /\ pc = "swap"
    /\ functors' = pendingFunctors
    /\ pc' = "run"
    /\ UNCHANGED <<looping, quit, callingPendingFunctors, pendingFunctors,
                   eventfd, active, cpc, ran, early>>

\* functors.swap(pendingFunctors_), with mutex_ held.
SwapPendingFunctors ==
    /\ pc = "swap"
    /\ functors' = pendingFunctors
    /\ pendingFunctors' = << >>
    /\ pc' = "run"
    /\ UNCHANGED <<looping, quit, callingPendingFunctors, eventfd, active, cpc,
                   ran, early>>

\* functors[i]() is called.
RunFunctor ==
    /\ pc = "run"
    /\ functors # << >>
    /\ ran' = Append(ran, Head(functors))
    /\ functors' = Tail(functors)
    /\ pc' = "functor"
    /\ UNCHANGED <<looping, quit, callingPendingFunctors, pendingFunctors,
                   eventfd, active, cpc, early>>

\* The batch is done.
EndPendingFunctors ==
    /\ pc = "run"
    /\ functors = << >>
    /\ callingPendingFunctors' = FALSE
    /\ pc' = "test"
    /\ UNCHANGED <<looping, quit, pendingFunctors, functors, eventfd, active,
                   cpc, ran, early>>

\* A channel's callback, or a functor, returns.
Return ==
    /\ \/ pc = "callback" /\ pc' = "events"
       \/ pc = "functor" /\ pc' = "run"
    /\ UNCHANGED <<looping, quit, callingPendingFunctors, pendingFunctors,
                   functors, eventfd, active, cpc, ran, early>>

\* queueInLoop() called in the loop thread.
QueueInLoop(f) ==
    /\ InUserCode
    /\ Fresh(f)
    /\ pendingFunctors' = Append(pendingFunctors, f)
    /\ IF NeedsWakeup THEN Wakeup ELSE UNCHANGED eventfd
    /\ early' = IF pc = "idle" THEN early \cup {f} ELSE early
    /\ UNCHANGED <<pc, looping, quit, callingPendingFunctors, functors, active,
                   cpc, ran>>

\* runInLoop() called in the loop thread calls the functor on the spot.
RunInLoop(f) ==
    /\ InUserCode
    /\ Fresh(f)
    /\ ran' = Append(ran, f)
    /\ UNCHANGED <<pc, looping, quit, callingPendingFunctors, pendingFunctors,
                   functors, eventfd, active, cpc, early>>

\* quit() called in the loop thread.
Quit ==
    /\ InUserCode
    /\ quit' = TRUE
    /\ UNCHANGED <<pc, looping, callingPendingFunctors, pendingFunctors,
                   functors, eventfd, active, cpc, ran, early>>

-----------------------------------------------------------------------------
(* The other threads.                                                      *)

\* queueInLoop(), or runInLoop(), in another thread: the push, under mutex_.
CallQueueInLoop(c, f) ==
    /\ cpc[c] = "out"
    /\ Fresh(f)
    /\ pendingFunctors' = Append(pendingFunctors, f)
    /\ cpc' = [cpc EXCEPT ![c] = "queued"]
    /\ UNCHANGED <<pc, looping, quit, callingPendingFunctors, functors,
                   eventfd, active, ran, early>>

\* Mutant of CallQuit: quit() wakes nobody.
CallQuitOnly(c) ==
    /\ cpc[c] = "out"
    /\ quit' = TRUE
    /\ UNCHANGED <<pc, looping, callingPendingFunctors, pendingFunctors,
                   functors, eventfd, active, cpc, ran, early>>

\* quit() in another thread: the store.
CallQuit(c) ==
    /\ cpc[c] = "out"
    /\ quit' = TRUE
    /\ cpc' = [cpc EXCEPT ![c] = "quitting"]
    /\ UNCHANGED <<pc, looping, callingPendingFunctors, pendingFunctors,
                   functors, eventfd, active, ran, early>>

\* The write to the eventfd that ends both: !isInLoopThread() holds.
CallWakeup(c) ==
    /\ cpc[c] \in {"queued", "quitting"}
    /\ Wakeup
    /\ cpc' = [cpc EXCEPT ![c] = "out"]
    /\ UNCHANGED <<pc, looping, quit, callingPendingFunctors, pendingFunctors,
                   functors, active, ran, early>>

-----------------------------------------------------------------------------
\* The steps loop() takes by itself once it is called.
LoopStep ==
    \/ TestQuit \/ HandleRead \/ HandleEvent \/ BeginPendingFunctors
    \/ SwapPendingFunctors \/ RunFunctor \/ EndPendingFunctors \/ Return

LoopThread ==
    \/ StartLoop \/ LoopStep \/ PollTimeout \/ Quit
    \/ \E io \in SUBSET {"io"} : PollReady(io)
    \/ \E f \in Functors : QueueInLoop(f) \/ RunInLoop(f)

Caller(c) ==
    \/ CallQuit(c) \/ CallWakeup(c)
    \/ \E f \in Functors : CallQueueInLoop(c, f)

Next == LoopThread \/ \E c \in Callers : Caller(c)

Spec == Init /\ [][Next]_vars

-----------------------------------------------------------------------------
(* Properties.                                                             *)

\* The type invariant; the eventfd never exceeds its limit.
TypeOK ==
    /\ pc \in LoopPoints
    /\ looping \in BOOLEAN
    /\ quit \in BOOLEAN
    /\ callingPendingFunctors \in BOOLEAN
    /\ pendingFunctors \in Seq(Functors)
    /\ functors \in Seq(Functors)
    /\ eventfd \in 0 .. EventFdMax
    /\ active \subseteq {"wakeup", "io"}
    /\ cpc \in [Callers -> {"out", "queued", "quitting"}]
    /\ ran \in Seq(Functors)
    /\ early \subseteq Functors

(***************************************************************************)
(* No lost wakeup: whenever the loop is about to block in poll(), every    *)
(* pending functor has made the eventfd readable or its caller is just     *)
(* about to do so (queueInLoop(): !isInLoopThread() ||                     *)
(* callingPendingFunctors_).  The one exception the code has is a functor  *)
(* that the loop thread queued outside loop(): nobody wakes the loop for   *)
(* it.                                                                     *)
(***************************************************************************)
NoLostWakeup ==
    pc = "poll" =>
        \/ Range(pendingFunctors) \subseteq early
        \/ eventfd > 0
        \/ \E c \in Callers : cpc[c] = "queued"

(***************************************************************************)
(* No lost quit: a quit() of another thread that comes after the test of   *)
(* quit_ does not leave the loop blocked in poll() (EventLoop.cc:89-92,    *)
(* 105-112), also when the eventfd is full or when the loop has just read  *)
(* it for an earlier wakeup.                                               *)
(***************************************************************************)
NoLostQuit ==
    pc = "poll" /\ quit =>
        eventfd > 0 \/ \E c \in Callers : cpc[c] = "quitting"

\* runInLoop() and queueInLoop() implement FunctorQueue: batches, nested
\* queueing and any number of threads keep the order of the callbacks and
\* neither lose nor repeat one.
Queue == INSTANCE FunctorQueue WITH waiting <- functors \o pendingFunctors

ImplementsFunctorQueue == Queue!Spec
=============================================================================
