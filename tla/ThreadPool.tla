----------------------------- MODULE ThreadPool -----------------------------
(***************************************************************************)
(* muduo::ThreadPool (thread/ThreadPool.{h,cc}): the workers take tasks    *)
(* from queue_ under mutex_ and wait on cond_ while there are none; stop() *)
(* clears running_ and wakes them, without mutex_, and joins them.         *)
(*                                                                         *)
(* One thread (main) constructs, starts and stops the pool and submits     *)
(* tasks; a task may submit tasks too.  A critical section is one step,    *)
(* except for the loop of take(): between the test of running_ and         *)
(* cond_.wait() a worker holds mutex_ and stop() can come in between.      *)
(***************************************************************************)
EXTENDS Naturals, Sequences, FiniteSets, Functions

CONSTANTS
    Workers,        \* the threads start() may create
    Tasks,          \* bound: the tasks of a behaviour
    NoTask          \* an empty boost::function

ASSUME ThreadPoolAssumption == IsFiniteSet(Workers) /\ NoTask \notin Tasks

VARIABLES
    running,        \* running_
    queue,          \* queue_
    threads,        \* threads_: the workers that were started
    wpc,            \* where each worker is in runInThread()
    task,           \* the task each worker has taken
    main,           \* where the owner of the pool is
    submitted,      \* history: the tasks given to run()
    done,           \* history: the tasks that have run
    missed          \* history: workers between test and wait at notifyAll()

owner == <<main, submitted>>
vars == <<running, queue, threads, wpc, task, owner, done, missed>>

(***************************************************************************)
(* wpc: new, loop (about to test running_), take (about to lock mutex_),   *)
(* tested (mutex_ held, the test of take() said wait), waiting (in         *)
(* cond_.wait()), task (calling the task), exited.                         *)
(* main: constructed, starting, started, stopping (running_ is cleared),   *)
(* joining, stopped.                                                       *)
(***************************************************************************)
Init ==
    /\ running = FALSE
    /\ queue = << >>
    /\ threads = {}
    /\ wpc = [w \in Workers |-> "new"]
    /\ task = [w \in Workers |-> NoTask]
    /\ main = "constructed"
    /\ submitted = {} /\ done = {} /\ missed = {}

\* mutex_ is free: only a worker at "tested" holds it between two steps.
Unlocked == \A w \in Workers : wpc[w] # "tested"

Goes(w, from, to) == wpc[w] = from /\ wpc' = [wpc EXCEPT ![w] = to]

-----------------------------------------------------------------------------
(* The owner.                                                              *)

\* start(), up to the loop; numThreads is how often StartThread happens.
Start ==
    /\ main = "constructed"
    /\ main' = "starting"
    /\ running' = TRUE
    /\ UNCHANGED <<queue, threads, wpc, task, submitted, done, missed>>

\* threads_.push_back() and Thread::start().
StartThread(w) ==
    /\ main = "starting"
    /\ w \notin threads
    /\ threads' = threads \cup {w}
    /\ Goes(w, "new", "loop")
    /\ UNCHANGED <<running, queue, task, owner, done, missed>>

StartReturns ==
    /\ main = "starting"
    /\ main' = "started"
    /\ UNCHANGED <<running, queue, threads, wpc, task, submitted, done, missed>>

\* Mutant of Notify: notify only when the queue was empty.
NotifyFirst ==
    LET W == {w \in Workers : wpc[w] = "waiting"}
    IN  IF W = {} \/ queue # << >> THEN UNCHANGED wpc
        ELSE \E w \in W : wpc' = [wpc EXCEPT ![w] = "take"]

\* cond_.notify(): one waiting worker, if there is any, tests again.
Notify ==
    LET W == {w \in Workers : wpc[w] = "waiting"}
    IN  IF W = {} THEN UNCHANGED wpc
        ELSE \E w \in W : wpc' = [wpc EXCEPT ![w] = "take"]

\* Mutant of Push: cond_.notify() is forgotten.
PushOnly(t) ==
    /\ Unlocked
    /\ queue' = Append(queue, t)
    /\ UNCHANGED wpc

\* run(), with threads: the critical section.
Push(t) ==
    /\ Unlocked
    /\ queue' = Append(queue, t)
    /\ Notify

\* run(), called by the owner: without threads it calls the task itself.
Run(t) ==
    /\ main \in {"constructed", "started"}
    /\ t \notin submitted
    /\ submitted' = submitted \cup {t}
    /\ IF threads = {}
         THEN done' = done \cup {t} /\ UNCHANGED <<queue, wpc>>
         ELSE Push(t) /\ UNCHANGED done
    /\ UNCHANGED <<running, threads, task, main, missed>>

\* stop(), also from the destructor: running_ = false ...
Stop ==
    /\ main = "started"
    /\ main' = "stopping"
    /\ running' = FALSE
    /\ UNCHANGED <<queue, threads, wpc, task, submitted, done, missed>>

\* Mutant of NotifyAll: notify() wakes one.
NotifyOne ==
    /\ Notify
    /\ missed' = {w \in Workers : wpc[w] = "tested"}

\* ... cond_.notifyAll(), whether mutex_ is free or not ...
NotifyAll ==
    /\ wpc' = [w \in Workers |-> IF wpc[w] = "waiting" THEN "take" ELSE wpc[w]]
    /\ missed' = {w \in Workers : wpc[w] = "tested"}

StopNotifies ==
    /\ main = "stopping"
    /\ main' = "joining"
    /\ NotifyAll
    /\ UNCHANGED <<running, queue, threads, task, submitted, done>>

\* ... and the joins.
StopReturns ==
    /\ main = "joining"
    /\ \A w \in threads : wpc[w] = "exited"
    /\ main' = "stopped"
    /\ UNCHANGED <<running, queue, threads, wpc, task, submitted, done, missed>>

-----------------------------------------------------------------------------
(* A worker.                                                               *)

\* runInThread(): while (running_).
TestRunning(w) ==
    /\ Goes(w, "loop", IF running THEN "take" ELSE "exited")
    /\ UNCHANGED <<running, queue, threads, task, owner, done, missed>>

\* take(), from the lock to the wait or to the end: the front of the queue,
\* or an empty task when the pool stops.
Take(w) ==
    /\ Unlocked
    /\ Goes(w, "take", IF queue # << >> THEN "task"
                       ELSE IF running THEN "tested" ELSE "loop")
    /\ IF queue # << >>
         THEN task' = [task EXCEPT ![w] = Head(queue)] /\ queue' = Tail(queue)
         ELSE UNCHANGED <<task, queue>>
    /\ UNCHANGED <<running, threads, owner, done, missed>>

\* cond_.wait() gives mutex_ back.
Wait(w) ==
    /\ Goes(w, "tested", "waiting")
    /\ UNCHANGED <<running, queue, threads, task, owner, done, missed>>

\* The system may wake a waiting thread for no reason.
SpuriousWakeup(w) ==
    /\ Goes(w, "waiting", "take")
    /\ UNCHANGED <<running, queue, threads, task, owner, done, missed>>

\* The task submits another one: the pool has threads.
TaskRuns(w, t) ==
    /\ wpc[w] = "task"
    /\ t \notin submitted
    /\ submitted' = submitted \cup {t}
    /\ Push(t)
    /\ UNCHANGED <<running, threads, task, main, done, missed>>

TaskReturns(w) ==
    /\ Goes(w, "task", "loop")
    /\ done' = done \cup {task[w]}
    /\ task' = [task EXCEPT ![w] = NoTask]
    /\ UNCHANGED <<running, queue, threads, owner, missed>>

-----------------------------------------------------------------------------
OwnerGoesOn == StartReturns \/ StopNotifies \/ StopReturns
WorkerGoesOn(w) == TestRunning(w) \/ Take(w) \/ Wait(w) \/ TaskReturns(w)

Next ==
    \/ Start \/ Stop \/ OwnerGoesOn
    \/ \E t \in Tasks : Run(t)
    \/ \E w \in Workers :
         \/ StartThread(w) \/ WorkerGoesOn(w) \/ SpuriousWakeup(w)
         \/ \E t \in Tasks : TaskRuns(w, t)

(***************************************************************************)
(* Threads that are not blocked go on, tasks return, and a worker that     *)
(* wants mutex_ gets it in the end.  Nothing makes the owner call stop(),  *)
(* and no spurious wakeup comes to help.                                   *)
(***************************************************************************)
Fairness ==
    /\ WF_vars(OwnerGoesOn)
    /\ \A w \in Workers :
         WF_vars(TestRunning(w) \/ Wait(w) \/ TaskReturns(w)) /\ SF_vars(Take(w))

Spec == Init /\ [][Next]_vars /\ Fairness

-----------------------------------------------------------------------------
(* Properties.                                                             *)

(***************************************************************************)
(* No task waits for a worker that nobody woke: while a worker sleeps in   *)
(* cond_.wait(), there are at least as many workers on their way to the    *)
(* queue as there are tasks in it, whichever worker gets to it first, and  *)
(* whatever is woken for no reason.                                        *)
(***************************************************************************)
EnoughAwake ==
    (\E w \in Workers : wpc[w] = "waiting") =>
        Len(queue) <= Cardinality({w \in Workers : wpc[w] = "take"})

\* A task given to run() is executed, unless the pool is stopped first.
TaskIsRun == \A t \in Tasks : (t \in submitted /\ running) ~> (t \in done \/ ~running)

(***************************************************************************)
(* stop() ends every worker, in a task, waiting or on its way, except one  *)
(* that had tested running_ and had not begun to wait when notifyAll() was *)
(* called.                                                                 *)
(***************************************************************************)
StopEndsWorkers ==
    \A w \in Workers :
        (main = "joining" /\ w \in threads \ missed) ~> (wpc[w] = "exited")

\* stop() returns: the last line of thread/test/ThreadPool_test.cc is
\* pool.stop(), after which the program ends.
StopEnds == (main = "stopping") ~> (main = "stopped")
=============================================================================
