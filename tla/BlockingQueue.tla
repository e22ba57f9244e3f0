---------------------------- MODULE BlockingQueue ----------------------------
(***************************************************************************)
(* muduo::BlockingQueue and muduo::BoundedBlockingQueue                    *)
(* (thread/BlockingQueue.h, thread/BoundedBlockingQueue.h): monitors with  *)
(* one mutex_ and the conditions notEmpty_ and, if bounded, notFull_.      *)
(*                                                                         *)
(* A critical section, from the lock to the wait or to the unlock, is one  *)
(* step.  A thread in a wait is in notEmpty or notFull; once notified, or  *)
(* woken for no reason, it has to get mutex_ and test again, like one that *)
(* has just called.  Which waiting thread notify() wakes is not specified. *)
(***************************************************************************)
EXTENDS Naturals, Sequences

CONSTANTS
    Sizes,          \* capacities of a BoundedBlockingQueue
    NoBound         \* the queue is a BlockingQueue

ASSUME BlockingQueueAssumption == Sizes \subseteq Nat \ {0} /\ NoBound \notin Nat

VARIABLES
    maxSize,        \* the capacity of queue_
    queue,          \* queue_
    notEmpty,       \* the threads in notEmpty_.wait()
    notFull         \* the threads in notFull_.wait()

queueVars == <<maxSize, queue, notEmpty, notFull>>

QueueInit ==
    /\ maxSize \in Sizes \cup {NoBound}
    /\ queue = << >>
    /\ notEmpty = {} /\ notFull = {}

\* queue_.full()
Full == maxSize # NoBound /\ Len(queue) >= maxSize

\* notify() on a condition: the threads that go on waiting.
StillWaiting(waiting) ==
    IF waiting = {} THEN {{}} ELSE {waiting \ {t} : t \in waiting}

\* put(), when it has to wait.
PutWaits(t) ==
    /\ t \notin notFull
    /\ Full
    /\ notFull' = notFull \cup {t}
    /\ UNCHANGED <<maxSize, queue, notEmpty>>

\* put(), to its end.
Put(t, x) ==
    /\ t \notin notFull
    /\ ~Full
    /\ queue' = Append(queue, x)
    /\ notEmpty' \in StillWaiting(notEmpty)
    /\ UNCHANGED <<maxSize, notFull>>

\* take(), when it has to wait.
TakeWaits(t) ==
    /\ t \notin notEmpty
    /\ queue = << >>
    /\ notEmpty' = notEmpty \cup {t}
    /\ UNCHANGED <<maxSize, queue, notFull>>

\* Mutant of Take: notFull_.notify() is missing.
TakeOnly(t) ==
    /\ t \notin notEmpty
    /\ queue # << >>
    /\ queue' = Tail(queue)
    /\ UNCHANGED <<maxSize, notEmpty, notFull>>

\* take(), to its end; the caller gets Head(queue).
Take(t) ==
    /\ t \notin notEmpty
    /\ queue # << >>
    /\ queue' = Tail(queue)
    /\ notFull' \in StillWaiting(notFull)
    /\ UNCHANGED <<maxSize, notEmpty>>

\* "always use a while-loop, due to spurious wakeup".
SpuriousWakeup(t) ==
    /\ t \in notEmpty \cup notFull
    /\ notEmpty' = notEmpty \ {t}
    /\ notFull' = notFull \ {t}
    /\ UNCHANGED <<maxSize, queue>>
=============================================================================
