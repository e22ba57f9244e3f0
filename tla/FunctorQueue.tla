---------------------------- MODULE FunctorQueue ----------------------------
(***************************************************************************)
(* What EventLoop::runInLoop and EventLoop::queueInLoop promise to their   *)
(* callers, without threads, wakeups or batches: a callback handed to the  *)
(* loop runs exactly once, queued callbacks run in the order in which they *)
(* were queued, and a callback passed to runInLoop by the loop's own       *)
(* thread runs on the spot.                                                *)
(***************************************************************************)
EXTENDS Sequences, Functions

CONSTANT Functors      \* the callback instances handed to the loop

VARIABLES waiting,     \* callbacks queued and not yet run, oldest first
          ran          \* callbacks in the order in which they ran

Fresh(f) == f \notin Range(waiting) \cup Range(ran)

Init == waiting = << >> /\ ran = << >>

\* queueInLoop, or runInLoop called from another thread.
Queue(f) ==
    /\ Fresh(f)
    /\ waiting' = Append(waiting, f)
    /\ UNCHANGED ran

\* runInLoop called in the loop thread.
RunNow(f) ==
    /\ Fresh(f)
    /\ ran' = Append(ran, f)
    /\ UNCHANGED waiting

\* The loop runs the oldest waiting callback.
RunNext ==
    /\ waiting # << >>
    /\ ran' = Append(ran, Head(waiting))
    /\ waiting' = Tail(waiting)

Next == RunNext \/ \E f \in Functors : Queue(f) \/ RunNow(f)

Spec == Init /\ [][Next]_<<waiting, ran>>
=============================================================================
