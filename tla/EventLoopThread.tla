-------------------------- MODULE EventLoopThread --------------------------
(***************************************************************************)
(* muduo::EventLoopThread (reactor/s13/EventLoopThread.{h,cc}): a thread   *)
(* that creates an EventLoop on its stack, publishes its address and runs  *)
(* it.  The owner gets the address from startLoop() and ends the thread in *)
(* the destructor, with quit() and join().                                 *)
(*                                                                         *)
(* The loop is the one of module EventLoop; here it comes to life when the *)
(* thread enters threadFunc() and is destroyed when loop() returns.  The   *)
(* other way to use an EventLoop, as an object of main() that calls loop() *)
(* itself and perhaps again after a quit(), is a second initial state.     *)
(***************************************************************************)
EXTENDS EventLoop

CONSTANT Owner      \* the caller that owns the EventLoopThread object

ASSUME OwnerAssumption == Owner \in Callers

VARIABLES
    published,      \* loop_ != NULL
    exiting,        \* exiting_
    thread,         \* where the thread is in threadFunc()
    owner           \* where the owner is in startLoop() or the destructor

own == <<published, exiting, thread, owner>>
allVars == <<vars, own>>

(***************************************************************************)
(* thread: none, constructed (EventLoop loop), published (about to call    *)
(* loop()), looping, finished (the EventLoop is destroyed); main when the  *)
(* loop is one of main() and there is no EventLoopThread.                  *)
(* owner: new, locking (startLoop() is about to test loop_), waiting (in   *)
(* cond_.wait()), started, quitting (in loop_->quit() of the destructor),  *)
(* joining, gone.                                                          *)
(***************************************************************************)
ThreadInit ==
    /\ Init
    /\ published = FALSE
    /\ exiting = FALSE
    /\ thread \in {"none", "main"}
    /\ owner = "new"

-----------------------------------------------------------------------------
(* The owner.                                                              *)

\* startLoop(): thread_.start().
StartThread ==
    /\ owner = "new" /\ thread = "none"
    /\ owner' = "locking"
    /\ thread' = "constructed"
    /\ UNCHANGED <<vars, published, exiting>>

\* while (loop_ == NULL) cond_.wait(), with mutex_ held at the test.
WaitForLoop ==
    /\ owner = "locking"
    /\ owner' = IF published THEN "started" ELSE "waiting"
    /\ UNCHANGED <<vars, published, exiting, thread>>

\* ~EventLoopThread(): exiting_ = true and the store of loop_->quit().
Destroy ==
    /\ owner = "started"
    /\ CallQuit(Owner)
    /\ exiting' = TRUE
    /\ owner' = "quitting"
    /\ UNCHANGED <<published, thread>>

\* The rest of loop_->quit().
DestroyWakeup ==
    /\ owner = "quitting"
    /\ CallWakeup(Owner)
    /\ owner' = "joining"
    /\ UNCHANGED <<published, exiting, thread>>

\* thread_.join() returns.
Join ==
    /\ owner = "joining"
    /\ thread = "finished"
    /\ owner' = "gone"
    /\ UNCHANGED <<vars, published, exiting, thread>>

\* The owner and the threads it shares the loop with use it until the
\* destructor is called; a call that has begun is finished.
UseLoop(c) ==
    /\ \/ (owner = "started" \/ thread = "main") /\ Caller(c)
       \/ c # Owner /\ CallWakeup(c)
    /\ UNCHANGED own

-----------------------------------------------------------------------------
(* The thread.                                                             *)

\* Mutant of Notified: cond_.notify() is missing.
NotifiedNobody == owner

\* cond_.notify(): an owner in cond_.wait() tests loop_ again.
Notified == IF owner = "waiting" THEN "locking" ELSE owner

\* loop_ = &loop; cond_.notify(), with mutex_ held.
Publish ==
    /\ thread = "constructed"
    /\ published' = TRUE
    /\ owner' = Notified
    /\ thread' = "published"
    /\ UNCHANGED <<vars, exiting>>

\* loop.loop() is called.
EnterLoop ==
    /\ thread = "published"
    /\ StartLoop
    /\ thread' = "looping"
    /\ UNCHANGED <<published, exiting, owner>>

\* loop() at work, and the user's callbacks in it.
InLoop ==
    /\ (thread = "looping" /\ pc # "idle") \/ thread = "main"
    /\ LoopThread
    /\ UNCHANGED own

\* loop() has returned: ~EventLoop() and the end of the thread.
Finish ==
    /\ thread = "looping"
    /\ pc = "idle"
    /\ thread' = "finished"
    /\ UNCHANGED <<vars, published, exiting, owner>>

-----------------------------------------------------------------------------
OwnerStep == WaitForLoop \/ DestroyWakeup \/ Join
ThreadStep == Publish \/ EnterLoop \/ Finish

ThreadNext ==
    \/ StartThread \/ OwnerStep \/ Destroy
    \/ ThreadStep \/ InLoop
    \/ \E c \in Callers : UseLoop(c)

(***************************************************************************)
(* A thread that is inside the library goes on: the loop between two polls *)
(* (user callbacks return), a caller that has yet to write the eventfd,    *)
(* poll() when the eventfd is readable, and the two threads of this module *)
(* between blocking calls.  Nothing forces poll() to return otherwise: the *)
(* timeout of kPollTimeMs must not be what makes a functor run.            *)
(***************************************************************************)
Looping == thread \in {"looping", "main"}

ThreadFairness ==
    /\ WF_allVars(OwnerStep)
    /\ WF_allVars(ThreadStep)
    /\ WF_allVars(Looping /\ LoopStep /\ UNCHANGED own)
    /\ WF_allVars(Looping /\ PollReady({}) /\ UNCHANGED own)
    /\ \A c \in Callers : WF_allVars(CallWakeup(c) /\ UNCHANGED own)

ThreadSpec == ThreadInit /\ [][ThreadNext]_allVars /\ ThreadFairness

-----------------------------------------------------------------------------
(* Properties.                                                             *)

\* startLoop() returns, whichever of the two threads comes first to mutex_.
StartLoopReturns == (owner = "locking") ~> (owner = "started")

\* A queued callback runs, without the help of poll()'s timeout, unless the
\* loop is left: also one queued by the owner before the thread has called
\* loop(), and with any number of threads queueing around it.
QueuedRuns ==
    \A f \in Functors :
        (f \in Range(pendingFunctors) \ early) ~>
            \/ f \in Range(ran)
            \/ thread = "finished"
            \/ thread = "main" /\ pc = "idle"

\* quit() of any thread during loop() makes loop() return, without the help
\* of poll()'s timeout, and with it a destructor that waits in join().
QuitEndsThread == (quit /\ pc # "idle") ~> (pc = "idle" /\ owner # "joining")

\* The destructor returns: loop_->quit() makes loop() return, so that
\* thread_.join() does.
DestructorReturns == (owner = "joining") ~> (owner = "gone")
=============================================================================
