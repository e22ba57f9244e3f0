----------------------------- MODULE TimerQueue -----------------------------
(***************************************************************************)
(* muduo::TimerQueue with Timer and TimerId (reactor/s13/TimerQueue.{h,cc},*)
(* Timer.{h,cc}, TimerId.h): the timers of one EventLoop, kept in two sets *)
(* (by expiration and by address) over one timerfd.                        *)
(*                                                                         *)
(* The loop thread adds and cancels at once; any other thread goes through *)
(* EventLoop::runInLoop, here the FIFO queue that FunctorQueue promises.   *)
(* Timer objects are allocated and deleted by hand, so the heap is part of *)
(* the state and an address can be used again.  One unit of time is the    *)
(* 100 microseconds below which howMuchTimeFromNow does not go.            *)
(***************************************************************************)
EXTENDS Integers, Sequences, FiniteSets

CONSTANTS
    Addrs,          \* addresses a Timer can be allocated at (numbers: they are ordered)
    Callers,        \* threads other than the loop thread
    Whens,          \* expirations passed to addTimer(); 0 is Timestamp::invalid()
    Intervals,      \* intervals passed to addTimer(); 0 means the timer does not repeat
    MaxTimers,      \* bound: timers created in a behaviour
    MaxClock,       \* bound: the clock stops here, the timerfd goes on counting
    MaxPending      \* bound: calls waiting in the loop's queue

ASSUME TimerQueueAssumption ==
    /\ Addrs \subseteq Nat
    /\ Whens \subseteq Nat
    /\ Intervals \subseteq Nat
    /\ MaxTimers \in Nat /\ MaxClock \in Nat /\ MaxPending \in Nat

VARIABLES
    heap,                   \* the Timer at each address; sequence 0: not allocated
    numCreated,             \* Timer::s_numCreated_
    timers,                 \* timers_: <<expiration, address>>
    activeTimers,           \* activeTimers_: <<address, sequence>>
    cancelingTimers,        \* cancelingTimers_
    callingExpiredTimers,   \* callingExpiredTimers_
    expired,                \* the local vector of handleRead()
    todo,                   \* the entries of expired whose callback has not run
    inCallback,             \* the loop thread is in a timer's callback
    now,                    \* the local now of handleRead(); 0 outside it
    clock,                  \* Timestamp::now()
    timerfd,                \* time left (0: not armed) and whether it is readable
    polled,                 \* poll() returned with timerfdChannel_ active
    pending,                \* calls queued by other threads, oldest first
    adding,                 \* the Timer whose sequence a caller has yet to read, or NULL
    ids,                    \* TimerIds handed out
    done,                   \* history: timers whose callback has run, and their interval_
    cancelled               \* history: timers a cancelInLoop() found

batch == <<callingExpiredTimers, expired, todo, inCallback, now>>
sets == <<timers, activeTimers, cancelingTimers>>
objects == <<heap, numCreated, ids>>
history == <<done, cancelled>>
alarm == <<clock, timerfd, polled>>

vars == <<batch, sets, objects, history, alarm, pending, adding>>

NULL == -1
NoTimer == [sequence |-> 0, expiration |-> 0, interval |-> 0]

Allocated == {a \in Addrs : heap[a].sequence # 0}

Entry(a) == <<heap[a].expiration, a>>
ActiveTimer(a) == <<a, heap[a].sequence>>

\* The order of std::set<Entry>.
Before(e, f) == e[1] < f[1] \/ (e[1] = f[1] /\ e[2] <= f[2])
Earliest(entries) == CHOOSE e \in entries : \A f \in entries : Before(e, f)

Init ==
    /\ heap = [a \in Addrs |-> NoTimer]
    /\ numCreated = 0
    /\ timers = {} /\ activeTimers = {} /\ cancelingTimers = {}
    /\ callingExpiredTimers = FALSE
    /\ expired = {} /\ todo = {} /\ inCallback = FALSE
    /\ now = 0 /\ clock = 0
    /\ timerfd = [left |-> 0, readable |-> FALSE]
    /\ polled = FALSE
    /\ pending = << >>
    /\ adding = [c \in Callers |-> NULL]
    /\ ids = {}
    /\ done = {} /\ cancelled = {}

-----------------------------------------------------------------------------
(* Steps inside the member functions.                                      *)

\* Mutant of Arm: howMuchTimeFromNow() without a minimum.
ArmUnclamped(expiration) ==
    timerfd' = [left |-> expiration - clock, readable |-> FALSE]

\* resetTimerfd() with howMuchTimeFromNow(): timerfd_settime() also forgets
\* an expiration that nobody has read.
Arm(expiration) ==
    timerfd' = [left |-> IF expiration - clock < 1 THEN 1 ELSE expiration - clock,
                readable |-> FALSE]

\* The user's code runs in the loop thread: in a timer's callback, or
\* outside handleRead().
UserCode == inCallback \/ ~callingExpiredTimers

\* new Timer(cb, when, interval).
NewTimer(a, when, interval) ==
    /\ a \notin Allocated
    /\ numCreated < MaxTimers
    /\ numCreated' = numCreated + 1
    /\ heap' = [heap EXCEPT ![a] = [sequence |-> numCreated + 1,
                                    expiration |-> when,
                                    interval |-> interval]]

\* insert(), the caller knows the Timer's fields.
Insert(entry, active) ==
    /\ timers' = timers \cup {entry}
    /\ activeTimers' = activeTimers \cup {active}

\* Mutant of EarliestChanged: the first timer does not count.
EarliestChangedNotFirst(when) == timers # {} /\ \A e \in timers : when < e[1]

\* The value of insert(): the new timer comes before every other.
EarliestChanged(when) == \A e \in timers : when < e[1]

\* addTimerInLoop(), for a Timer with this sequence and expiration.
AddTimerInLoop(a, sequence, when) ==
    /\ Insert(<<when, a>>, <<a, sequence>>)
    /\ IF EarliestChanged(when) THEN Arm(when) ELSE UNCHANGED timerfd
    /\ UNCHANGED cancelingTimers

\* activeTimers_.find(timer) != activeTimers_.end().
Found(id) == id \in activeTimers

\* cancelInLoop(): a timer that is queued is deleted; a timer of the batch
\* whose callbacks are running is noted, for reset().
CancelInLoop(id) ==
    /\ IF Found(id)
         THEN /\ timers' = timers \ {Entry(id[1])}
              /\ activeTimers' = activeTimers \ {ActiveTimer(id[1])}
              /\ heap' = [heap EXCEPT ![id[1]] = NoTimer]
              /\ UNCHANGED cancelingTimers
         ELSE /\ cancelingTimers' =
                   IF callingExpiredTimers THEN cancelingTimers \cup {id}
                                           ELSE cancelingTimers
              /\ UNCHANGED <<timers, activeTimers, heap>>
    /\ cancelled' =
         IF Found(id) \/ \E e \in expired : id = ActiveTimer(e[2])
           THEN cancelled \cup {id[2]} ELSE cancelled
    /\ UNCHANGED <<numCreated, ids, done>>

-----------------------------------------------------------------------------
(* The loop thread.                                                        *)

\* addTimer() in the loop thread: runInLoop() calls addTimerInLoop() at once.
AddTimer(a, when, interval) ==
    /\ UserCode
    /\ NewTimer(a, when, interval)
    /\ AddTimerInLoop(a, numCreated', when)
    /\ ids' = ids \cup {<<a, numCreated'>>}
    /\ UNCHANGED <<batch, history, clock, polled, pending, adding>>

\* cancel() in the loop thread.
Cancel(id) ==
    /\ UserCode
    /\ CancelInLoop(id)
    /\ UNCHANGED <<batch, alarm, pending, adding>>

\* doPendingFunctors(), after the active channels, runs a call queued by
\* another thread.
RunPending ==
    /\ ~callingExpiredTimers /\ ~polled
    /\ pending # << >>
    /\ LET call == Head(pending) IN
         \/ /\ call.op = "add"
            /\ AddTimerInLoop(call.id[1], heap[call.id[1]].sequence,
                              heap[call.id[1]].expiration)
            /\ UNCHANGED <<objects, history>>
         \/ /\ call.op = "cancel"
            /\ CancelInLoop(call.id)
            /\ UNCHANGED timerfd
    /\ pending' = Tail(pending)
    /\ UNCHANGED <<batch, clock, polled, adding>>

\* poll() reports timerfdChannel_; other channels may be handled before it.
PollTimerfd ==
    /\ ~callingExpiredTimers
    /\ timerfd.readable
    /\ ~polled
    /\ polled' = TRUE
    /\ UNCHANGED <<batch, sets, objects, history, clock, timerfd, pending, adding>>

\* handleRead() up to the first callback: readTimerfd(), getExpired(), which
\* takes every entry up to and including now, and the flag.  The read may
\* find nothing when the timerfd was set again after poll().
HandleRead ==
    /\ ~callingExpiredTimers
    /\ polled
    /\ polled' = FALSE
    /\ timerfd' = [timerfd EXCEPT !.readable = FALSE]
    /\ now' = clock
    /\ expired' = {e \in timers : e[1] <= clock}
    /\ todo' = expired'
    /\ timers' = timers \ expired'
    /\ activeTimers' = activeTimers \ {ActiveTimer(e[2]) : e \in expired'}
    /\ cancelingTimers' = {}
    /\ callingExpiredTimers' = TRUE
    /\ UNCHANGED <<inCallback, objects, history, clock, pending, adding>>

\* it->second->run().
RunTimer ==
    /\ callingExpiredTimers /\ ~inCallback
    /\ todo # {}
    /\ LET e == Earliest(todo) IN
         /\ todo' = todo \ {e}
         /\ done' = done \cup {<<heap[e[2]].sequence, heap[e[2]].interval>>}
    /\ inCallback' = TRUE
    /\ UNCHANGED <<callingExpiredTimers, expired, now, sets, objects,
                   cancelled, alarm, pending, adding>>

\* The callback returns.
TimerReturns ==
    /\ inCallback
    /\ inCallback' = FALSE
    /\ UNCHANGED <<callingExpiredTimers, expired, todo, now, sets, objects,
                   history, alarm, pending, adding>>

\* Mutants of Restarts: a cancelled timer starts again, and none does.
RestartsCancelled(a) == heap[a].interval > 0
RestartsNever(a) == FALSE

\* The test of reset() on a timer of the batch.
Restarts(a) == heap[a].interval > 0 /\ ActiveTimer(a) \notin cancelingTimers

\* Mutant of AfterReset: a timer that does not restart is not deleted.
AfterResetKept(a) ==
    IF Restarts(a) THEN [heap[a] EXCEPT !.expiration = now + heap[a].interval]
                   ELSE heap[a]

\* A Timer of the batch after reset(): Timer::restart(now) or delete.
AfterReset(a) ==
    IF Restarts(a) THEN [heap[a] EXCEPT !.expiration = now + heap[a].interval]
                   ELSE NoTimer

\* Mutant of RestartEntry: insert() before restart().
RestartEntryOld(a) == Entry(a)

\* The entry that insert() makes after restart().
RestartEntry(a) == <<now + heap[a].interval, a>>

\* The end of handleRead(): reset() restarts or deletes every timer of the
\* batch and arms the timerfd for the first of all.
EndHandleRead ==
    /\ callingExpiredTimers /\ ~inCallback
    /\ todo = {}
    /\ LET addrs == {e[2] : e \in expired}
           again == {a \in addrs : Restarts(a)}
       IN
         /\ heap' = [a \in Addrs |-> IF a \in addrs THEN AfterReset(a) ELSE heap[a]]
         /\ timers' = timers \cup {RestartEntry(a) : a \in again}
         /\ activeTimers' = activeTimers \cup {ActiveTimer(a) : a \in again}
    /\ IF timers' # {} /\ Earliest(timers')[1] > 0
         THEN Arm(Earliest(timers')[1]) ELSE UNCHANGED timerfd
    /\ callingExpiredTimers' = FALSE
    /\ expired' = {} /\ now' = 0
    /\ UNCHANGED <<todo, inCallback, cancelingTimers, numCreated, ids,
                   history, clock, polled, pending, adding>>

-----------------------------------------------------------------------------
(* The other threads, and time.                                            *)

\* addTimer() in another thread: new Timer and the call of runInLoop().
CallAddTimer(c, a, when, interval) ==
    /\ adding[c] = NULL
    /\ Len(pending) < MaxPending
    /\ NewTimer(a, when, interval)
    /\ pending' = Append(pending, [op |-> "add", id |-> <<a, numCreated'>>])
    /\ adding' = [adding EXCEPT ![c] = a]
    /\ UNCHANGED <<batch, sets, ids, history, alarm>>

\* return TimerId(timer, timer->sequence()): the Timer may be gone by now,
\* and then the read gives what it left there or any other value.
CallAddTimerReturns(c) ==
    /\ adding[c] # NULL
    /\ \E sequence \in IF adding[c] \in Allocated
                         THEN {heap[adding[c]].sequence} ELSE 0 .. numCreated :
         ids' = ids \cup {<<adding[c], sequence>>}
    /\ adding' = [adding EXCEPT ![c] = NULL]
    /\ UNCHANGED <<batch, sets, heap, numCreated, history, alarm, pending>>

\* cancel() in another thread.
CallCancel(c, id) ==
    /\ adding[c] = NULL
    /\ Len(pending) < MaxPending
    /\ pending' = Append(pending, [op |-> "cancel", id |-> id])
    /\ UNCHANGED <<batch, sets, objects, history, alarm, adding>>

\* Time passes, for CLOCK_MONOTONIC and for Timestamp::now() alike (nobody
\* sets the clock); the timerfd becomes readable when its time is over.
Tick ==
    /\ clock < MaxClock \/ timerfd.left > 0
    /\ clock' = IF clock < MaxClock THEN clock + 1 ELSE clock
    /\ timerfd' = CASE timerfd.left = 0 -> timerfd
                    [] timerfd.left = 1 -> [left |-> 0, readable |-> TRUE]
                    [] OTHER -> [timerfd EXCEPT !.left = @ - 1]
    /\ UNCHANGED <<batch, sets, objects, history, polled, pending, adding>>

-----------------------------------------------------------------------------
\* What handling the timerfd takes, from poll() to the end of handleRead().
HandleStep == PollTimerfd \/ HandleRead \/ RunTimer \/ TimerReturns \/ EndHandleRead

Next ==
    \/ HandleStep
    \/ RunPending
    \/ Tick
    \/ \E id \in ids : Cancel(id) \/ \E c \in Callers : CallCancel(c, id)
    \/ \E a \in Addrs, when \in Whens, interval \in Intervals :
         \/ AddTimer(a, when, interval)
         \/ \E c \in Callers : CallAddTimer(c, a, when, interval)
    \/ \E c \in Callers : CallAddTimerReturns(c)

Spec == Init /\ [][Next]_vars

\* Callbacks return, every iteration of the loop polls, and time passes.
FairSpec == Spec /\ WF_vars(HandleStep) /\ WF_vars(Tick)

-----------------------------------------------------------------------------
(* Properties.                                                             *)

Timer == [sequence : 0 .. MaxTimers, expiration : Nat, interval : Intervals \cup {0}]
TimerId == Addrs \X (0 .. MaxTimers)

\* The type invariant.
TypeOK ==
    /\ heap \in [Addrs -> Timer]
    /\ numCreated \in 0 .. MaxTimers
    /\ timers \subseteq Nat \X Addrs
    /\ activeTimers \subseteq TimerId
    /\ cancelingTimers \subseteq TimerId
    /\ callingExpiredTimers \in BOOLEAN
    /\ expired \subseteq Nat \X Addrs
    /\ todo \subseteq expired
    /\ inCallback \in BOOLEAN
    /\ now \in 0 .. MaxClock
    /\ clock \in 0 .. MaxClock
    /\ timerfd \in [left : Nat, readable : BOOLEAN]
    /\ polled \in BOOLEAN
    /\ pending \in Seq([op : {"add", "cancel"}, id : TimerId])
    /\ adding \in [Callers -> Addrs \cup {NULL}]
    /\ ids \subseteq TimerId
    /\ done \subseteq (1 .. MaxTimers) \X (Intervals \cup {0})
    /\ cancelled \subseteq 1 .. MaxTimers

Queued == {t[1] : t \in activeTimers}
InBatch == {e[2] : e \in expired}
Adds(calls) == {i \in DOMAIN calls : calls[i].op = "add"}
InFlight == {pending[i].id[1] : i \in Adds(pending)}

(***************************************************************************)
(* timers_ and activeTimers_ hold the same Timers, each under its current  *)
(* expiration and sequence.  This is what the assertions of TimerQueue.cc  *)
(* rest on: timers_.size() == activeTimers_.size(), and that every erase   *)
(* of one set finds its element (n == 1).                                  *)
(***************************************************************************)
SetsAgree ==
    /\ \A t \in activeTimers : t = ActiveTimer(t[1]) /\ Entry(t[1]) \in timers
    /\ \A e \in timers : e = Entry(e[2]) /\ ActiveTimer(e[2]) \in activeTimers

(***************************************************************************)
(* Every Timer object has one owner: the sets, the batch of handleRead()   *)
(* or a queued addTimerInLoop().  So none is deleted while it is in use,   *)
(* none is deleted twice, and none is leaked.                              *)
(***************************************************************************)
OneOwner ==
    /\ Queued \cap InBatch = {}
    /\ Queued \cap InFlight = {}
    /\ InBatch \cap InFlight = {}
    /\ \A i, j \in Adds(pending) : pending[i].id[1] = pending[j].id[1] => i = j
    /\ Allocated = Queued \cup InBatch \cup InFlight

\* No timer is lost: a timer is deleted only when it was cancelled or, if it
\* does not repeat, after its callback ran; a timer that repeats exists for
\* ever, through any number of batches (TimerQueue.cc:146, 202-216).  A
\* TimerId whose address was used again cancels nothing.
NoTimerLost ==
    \A s \in 1 .. numCreated \ cancelled :
        \/ \E a \in Addrs : heap[a].sequence = s
        \/ <<s, 0>> \in done

\* A cancelled timer is out of the queue for good, even when it was
\* cancelled by its own callback or by another of the same batch; so is a
\* timer that does not repeat once it has run.
NeverAgain ==
    \A a \in Queued :
        /\ heap[a].sequence \notin cancelled
        /\ heap[a].interval = 0 => <<heap[a].sequence, 0>> \notin done

(***************************************************************************)
(* The alarm is never late: outside handleRead(), when a timer is queued   *)
(* the timerfd has expired or is set to expire by the time of the first    *)
(* timer (or in one unit, if that is past).  Timers added and cancelled in *)
(* any order, in callbacks and between poll() and handleRead(), keep this. *)
(***************************************************************************)
AlarmInTime ==
    (timers # {} /\ ~callingExpiredTimers) =>
        \/ polled \/ timerfd.readable
        \/ /\ timerfd.left > 0
           /\ timerfd.left <= 1 \/ clock + timerfd.left <= Earliest(timers)[1]

\* A queued timer runs or is cancelled.  (The last expiration that the
\* bounded clock reaches is MaxClock.)
TimerRuns ==
    \A s \in 1 .. MaxTimers :
        (\E a \in Queued : heap[a].sequence = s /\ heap[a].expiration <= MaxClock)
            ~> (s \in cancelled \/ \E interval \in Intervals : <<s, interval>> \in done)
=============================================================================
