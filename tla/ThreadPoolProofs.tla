-------------------------- MODULE ThreadPoolProofs --------------------------
(***************************************************************************)
(* Proofs about ThreadPool, for any finite set of workers and any tasks.   *)
(***************************************************************************)
EXTENDS ThreadPool, SequenceTheorems, FiniteSetTheorems, TLAPS

PoolTypeOK ==
    /\ queue \in Seq(Tasks)
    /\ wpc \in [Workers -> {"new", "loop", "take", "tested", "waiting", "task", "exited"}]
    /\ task \in [Workers -> Tasks \cup {NoTask}]

\* A worker between the test and the wait holds mutex_: the queue is as empty
\* as the test has found it.
TestedEmpty == (\E w \in Workers : wpc[w] = "tested") => queue = << >>

\* The inductive invariant behind EnoughAwake.
Inv == PoolTypeOK /\ TestedEmpty /\ EnoughAwake

Awake == {w \in Workers : wpc[w] = "take"}
Waiting == {w \in Workers : wpc[w] = "waiting"}

-----------------------------------------------------------------------------
(* Counting the workers on their way to the queue.                         *)

LEMMA AwakeFinite == IsFiniteSet(Awake) /\ Cardinality(Awake) \in Nat
  BY ThreadPoolAssumption, FS_Subset, FS_CardinalityType DEF Awake

\* A worker that goes to the queue, or comes from it.
LEMMA OneMoreAwake ==
  ASSUME PoolTypeOK, NEW w \in Workers, wpc[w] # "take", wpc' = [wpc EXCEPT ![w] = "take"]
  PROVE  Cardinality(Awake') = Cardinality(Awake) + 1
  <1>1. Awake' = Awake \cup {w} /\ w \notin Awake
    BY DEF Awake, PoolTypeOK
  <1>2. QED
    BY <1>1, AwakeFinite, FS_AddElement

LEMMA OneLessAwake ==
  ASSUME PoolTypeOK, NEW w \in Workers, NEW to, to # "take",
         wpc[w] = "take", wpc' = [wpc EXCEPT ![w] = to]
  PROVE  Cardinality(Awake') = Cardinality(Awake) - 1
  <1>1. Awake' = Awake \ {w} /\ w \in Awake
    BY DEF Awake, PoolTypeOK
  <1>2. QED
    BY <1>1, AwakeFinite, FS_RemoveElement

-----------------------------------------------------------------------------
(* Every step preserves the invariant.                                     *)

\* run(): the task that is added wakes a worker, if one waits.
LEMMA PushInv ==
  ASSUME Inv, NEW t \in Tasks, Push(t), task' = task
  PROVE  Inv'
  <1>1. /\ queue' = Append(queue, t) /\ queue' \in Seq(Tasks)
        /\ Len(queue') = Len(queue) + 1 /\ Len(queue) \in Nat
        /\ \A w \in Workers : wpc[w] # "tested"
    BY DEF Inv, PoolTypeOK, Push, Unlocked
  <1>2. CASE Waiting = {}
    <2>1. wpc' = wpc
      BY <1>2 DEF Push, Notify, Waiting
    <2>2. QED
      BY <1>1, <1>2, <2>1 DEF Inv, PoolTypeOK, TestedEmpty, EnoughAwake, Waiting
  <1>3. CASE Waiting # {}
    <2>1. PICK w \in Workers : wpc[w] = "waiting" /\ wpc' = [wpc EXCEPT ![w] = "take"]
      BY <1>3 DEF Push, Notify, Waiting
    <2>2. Len(queue) <= Cardinality(Awake)
      BY <2>1 DEF Inv, EnoughAwake, Awake
    <2>3. Cardinality(Awake') = Cardinality(Awake) + 1
      BY <2>1, OneMoreAwake DEF Inv
    <2>4. EnoughAwake'
      BY <1>1, <2>2, <2>3, AwakeFinite DEF EnoughAwake, Awake
    <2>5. PoolTypeOK' /\ TestedEmpty'
      BY <1>1, <2>1 DEF Inv, PoolTypeOK, TestedEmpty
    <2>6. QED
      BY <2>4, <2>5 DEF Inv
  <1>4. QED
    BY <1>2, <1>3

\* take(): a task and a worker leave together; a worker that finds no task
\* leaves an empty queue behind.
LEMMA TakeInv ==
  ASSUME Inv, NEW w \in Workers, Take(w)
  PROVE  Inv'
  <1>1. wpc[w] = "take" /\ \A v \in Workers : wpc[v] # "tested"
    BY DEF Take, Goes, Unlocked
  <1>2. CASE queue # << >>
    <2>1. /\ wpc' = [wpc EXCEPT ![w] = "task"]
          /\ task' = [task EXCEPT ![w] = Head(queue)] /\ queue' = Tail(queue)
      BY <1>2 DEF Take, Goes
    <2>2. /\ Head(queue) \in Tasks /\ Tail(queue) \in Seq(Tasks)
          /\ Len(Tail(queue)) = Len(queue) - 1 /\ Len(queue) \in Nat
      BY <1>2 DEF Inv, PoolTypeOK
    <2>3. PoolTypeOK' /\ TestedEmpty'
      BY <1>1, <2>1, <2>2 DEF Inv, PoolTypeOK, TestedEmpty
    <2>4. Cardinality(Awake') = Cardinality(Awake) - 1
      BY <1>1, <2>1, OneLessAwake DEF Inv
    <2>5. (\E v \in Workers : wpc'[v] = "waiting") => \E v \in Workers : wpc[v] = "waiting"
      BY <2>1 DEF Inv, PoolTypeOK
    <2>6. EnoughAwake'
      BY <2>1, <2>2, <2>4, <2>5, AwakeFinite DEF Inv, EnoughAwake, Awake
    <2>7. QED
      BY <2>3, <2>6 DEF Inv
  <1>3. CASE queue = << >>
    <2>1. UNCHANGED <<task, queue>> /\ wpc' = [wpc EXCEPT ![w] = IF running THEN "tested" ELSE "loop"]
      BY <1>3 DEF Take, Goes
    <2>2. PoolTypeOK' /\ TestedEmpty'
      BY <1>3, <2>1 DEF Inv, PoolTypeOK, TestedEmpty
    <2>3. Len(queue') = 0 /\ Cardinality(Awake') \in Nat
      <3>1. IsFiniteSet(Awake')
        BY ThreadPoolAssumption, FS_Subset DEF Awake
      <3>2. QED
        BY <1>3, <2>1, <3>1, FS_CardinalityType
    <2>4. EnoughAwake'
      BY <2>3 DEF EnoughAwake, Awake
    <2>5. QED
      BY <2>2, <2>4 DEF Inv
  <1>4. QED
    BY <1>2, <1>3

\* A worker that begins to wait had found the queue empty, and it is still.
LEMMA WaitInv ==
  ASSUME Inv, NEW w \in Workers, Wait(w)
  PROVE  Inv'
  <1>1. /\ queue = << >> /\ wpc' = [wpc EXCEPT ![w] = "waiting"]
        /\ UNCHANGED <<queue, task>>
    BY DEF Inv, TestedEmpty, Wait, Goes
  <1>2. IsFiniteSet(Awake') /\ Cardinality(Awake') \in Nat
    BY ThreadPoolAssumption, FS_Subset, FS_CardinalityType DEF Awake
  <1>3. EnoughAwake'
    BY <1>1, <1>2 DEF EnoughAwake, Awake
  <1>4. QED
    BY <1>1, <1>3 DEF Inv, PoolTypeOK, TestedEmpty

\* Testing running_, or a wakeup for no reason, sends a worker to the queue.
LEMMA ToQueueInv ==
  ASSUME Inv, NEW w \in Workers, wpc[w] # "take", wpc' = [wpc EXCEPT ![w] = "take"],
         UNCHANGED <<queue, task>>
  PROVE  Inv'
  <1>1. Cardinality(Awake') = Cardinality(Awake) + 1
    BY OneMoreAwake DEF Inv
  <1>2. (\E v \in Workers : wpc'[v] = "waiting") => \E v \in Workers : wpc[v] = "waiting"
    BY DEF Inv, PoolTypeOK
  <1>3. Len(queue) \in Nat
    BY DEF Inv, PoolTypeOK
  <1>4. EnoughAwake'
    BY <1>1, <1>2, <1>3, AwakeFinite DEF Inv, EnoughAwake, Awake
  <1>5. QED
    BY <1>4 DEF Inv, PoolTypeOK, TestedEmpty

\* A worker moves, and not to the queue, from it or into the wait.
LEMMA ElsewhereInv ==
  ASSUME Inv, NEW w \in Workers, NEW from, NEW to \in {"loop", "exited"},
         from \notin {"take"}, Goes(w, from, to), queue' = queue,
         task' \in [Workers -> Tasks \cup {NoTask}]
  PROVE  Inv'
  <1>1. Awake' = Awake
    BY DEF Inv, PoolTypeOK, Goes, Awake
  <1>2. (\E v \in Workers : wpc'[v] = "waiting") => \E v \in Workers : wpc[v] = "waiting"
    BY DEF Inv, PoolTypeOK, Goes
  <1>3. EnoughAwake'
    BY <1>1, <1>2 DEF Inv, EnoughAwake, Awake
  <1>4. QED
    BY <1>3 DEF Inv, PoolTypeOK, TestedEmpty, Goes

LEMMA StepInv == Inv /\ [Next]_vars => Inv'
  <1> SUFFICES ASSUME Inv, [Next]_vars PROVE Inv'
    OBVIOUS
  <1>1. CASE UNCHANGED <<queue, wpc, task>>
    BY <1>1 DEF Inv, PoolTypeOK, TestedEmpty, EnoughAwake
  <1>2. CASE StopNotifies
    <2>1. /\ UNCHANGED <<queue, task>>
          /\ wpc' = [w \in Workers |-> IF wpc[w] = "waiting" THEN "take" ELSE wpc[w]]
      BY <1>2 DEF StopNotifies, NotifyAll
    <2>2. QED
      BY <2>1 DEF Inv, PoolTypeOK, TestedEmpty, EnoughAwake
  <1>3. ASSUME NEW t \in Tasks, Run(t) PROVE Inv'
    <2>1. CASE threads = {}
      BY <1>1, <1>3, <2>1 DEF Run
    <2>2. CASE threads # {}
      BY <1>3, <2>2, PushInv DEF Run
    <2>3. QED
      BY <2>1, <2>2
  <1>4. ASSUME NEW w \in Workers, StartThread(w) PROVE Inv'
    BY <1>4, ElsewhereInv DEF StartThread, Inv, PoolTypeOK
  <1>5. ASSUME NEW w \in Workers, TestRunning(w) PROVE Inv'
    <2>1. CASE running
      BY <1>5, <2>1, ToQueueInv DEF TestRunning, Goes
    <2>2. CASE ~running
      BY <1>5, <2>2, ElsewhereInv DEF TestRunning, Inv, PoolTypeOK
    <2>3. QED
      BY <2>1, <2>2
  <1>6. ASSUME NEW w \in Workers, Take(w) PROVE Inv'
    BY <1>6, TakeInv
  <1>7. ASSUME NEW w \in Workers, Wait(w) PROVE Inv'
    BY <1>7, WaitInv
  <1>8. ASSUME NEW w \in Workers, SpuriousWakeup(w) PROVE Inv'
    BY <1>8, ToQueueInv DEF SpuriousWakeup, Goes
  <1>9. ASSUME NEW w \in Workers, NEW t \in Tasks, TaskRuns(w, t) PROVE Inv'
    BY <1>9, PushInv DEF TaskRuns
  <1>10. ASSUME NEW w \in Workers, TaskReturns(w) PROVE Inv'
    BY <1>10, ElsewhereInv DEF TaskReturns, Inv, PoolTypeOK
  <1>11. QED
    BY <1>1, <1>2, <1>3, <1>4, <1>5, <1>6, <1>7, <1>8, <1>9, <1>10
       DEF Next, OwnerGoesOn, WorkerGoesOn, Start, Stop, StartReturns, StopReturns, vars

\* No task waits in the queue for a worker that nobody woke, for any number
\* of workers and tasks: the notify() of run() (ThreadPool.cc:57-69) is enough,
\* whichever worker comes first and whatever wakes for no reason.
THEOREM PoolEnoughAwake == Spec => []EnoughAwake
  <1>1. Init => Inv
    BY DEF Init, Inv, PoolTypeOK, TestedEmpty, EnoughAwake
  <1>2. Inv => EnoughAwake
    BY DEF Inv
  <1>3. QED
    BY <1>1, <1>2, StepInv, PTL DEF Spec

-----------------------------------------------------------------------------
(* Every task is somewhere, and in one place.                              *)

Running == {w \in Workers : wpc[w] = "task"}

\* A task given to run() is in the queue, with a worker or done.
Accounted == submitted = Range(queue) \cup {task[w] : w \in Running} \cup done

\* It is once in the queue, not in the queue and with a worker, not with two
\* workers, and not done while it is in the queue or with a worker.
InOnePlace ==
    /\ IsInjective(queue)
    /\ Range(queue) \cap done = {}
    /\ \A w \in Running : task[w] \notin Range(queue) \cup done
    /\ \A v, w \in Running : task[v] = task[w] => v = w

TaskInv == PoolTypeOK /\ Accounted /\ InOnePlace

LEMMA AppendTask ==
  ASSUME NEW q \in Seq(Tasks), NEW t \in Tasks, IsInjective(q), t \notin Range(q)
  PROVE  Range(Append(q, t)) = Range(q) \cup {t} /\ IsInjective(Append(q, t))
  <1>1. /\ Append(q, t) \in Seq(Tasks) /\ Len(Append(q, t)) = Len(q) + 1 /\ Len(q) \in Nat
        /\ \A i \in 1 .. Len(q) : Append(q, t)[i] = q[i]
        /\ Append(q, t)[Len(q) + 1] = t
        /\ DOMAIN q = 1 .. Len(q) /\ DOMAIN Append(q, t) = 1 .. Len(q) + 1
    OBVIOUS
  <1>2. 1 .. Len(q) + 1 = (1 .. Len(q)) \cup {Len(q) + 1}
    BY <1>1
  <1>3. QED
    BY <1>1, <1>2 DEF Range, IsInjective

LEMMA TailTask ==
  ASSUME NEW q \in Seq(Tasks), q # << >>, IsInjective(q)
  PROVE  /\ Range(q) = Range(Tail(q)) \cup {Head(q)} /\ Head(q) \notin Range(Tail(q))
         /\ IsInjective(Tail(q))
  <1>1. /\ Tail(q) \in Seq(Tasks) /\ Len(Tail(q)) = Len(q) - 1 /\ Len(q) \in Nat \ {0}
        /\ \A i \in 1 .. Len(q) - 1 : Tail(q)[i] = q[i + 1]
        /\ Head(q) = q[1]
        /\ DOMAIN q = 1 .. Len(q) /\ DOMAIN Tail(q) = 1 .. Len(q) - 1
    OBVIOUS
  <1>2. \A i \in 1 .. Len(q) - 1 : i + 1 \in 1 .. Len(q) /\ i + 1 # 1
    BY <1>1
  <1>3. \A i \in 1 .. Len(q) : i = 1 \/ (i - 1 \in 1 .. Len(q) - 1 /\ (i - 1) + 1 = i)
    BY <1>1
  <1>4. 1 \in 1 .. Len(q)
    BY <1>1
  <1>5. ASSUME NEW i \in DOMAIN Tail(q), NEW j \in DOMAIN Tail(q), Tail(q)[i] = Tail(q)[j]
        PROVE  i = j
    <2>1. i + 1 = j + 1
      BY <1>1, <1>2, <1>5 DEF IsInjective
    <2>2. QED
      BY <1>1, <2>1
  <1>6. IsInjective(Tail(q))
    BY <1>5 DEF IsInjective
  <1>7. Head(q) \notin Range(Tail(q))
    BY <1>1, <1>2, <1>4 DEF Range, IsInjective
  <1>8. Range(Tail(q)) \cup {Head(q)} \subseteq Range(q)
    BY <1>1, <1>2, <1>4 DEF Range
  <1>9. Range(q) \subseteq Range(Tail(q)) \cup {Head(q)}
    <2> SUFFICES ASSUME NEW x \in Range(q), x # Head(q)
                 PROVE  x \in Range(Tail(q))
      OBVIOUS
    <2>1. PICK i \in 1 .. Len(q) : x = q[i]
      BY <1>1 DEF Range
    <2>2. i - 1 \in 1 .. Len(q) - 1 /\ (i - 1) + 1 = i
      BY <1>1, <1>3, <2>1
    <2>3. x = Tail(q)[i - 1]
      BY <1>1, <2>1, <2>2
    <2>4. QED
      BY <1>1, <2>2, <2>3 DEF Range
  <1>10. QED
    BY <1>6, <1>7, <1>8, <1>9

\* run() puts a task that was not submitted before into the queue.
LEMMA PushTask ==
  ASSUME TaskInv, NEW t \in Tasks, t \notin submitted, submitted' = submitted \cup {t},
         Push(t), UNCHANGED <<task, done>>
  PROVE  TaskInv'
  <1>1. queue' = Append(queue, t) /\ queue' \in Seq(Tasks)
    BY DEF TaskInv, PoolTypeOK, Push
  <1>2. t \notin Range(queue) \cup done /\ \A w \in Running : task[w] # t
    BY DEF TaskInv, Accounted
  <1>3. Range(queue') = Range(queue) \cup {t} /\ IsInjective(queue')
    BY <1>1, <1>2, AppendTask DEF TaskInv, PoolTypeOK, InOnePlace
  <1>4. /\ wpc' \in [Workers -> {"new", "loop", "take", "tested", "waiting", "task", "exited"}]
        /\ Running' = Running
    <2>1. wpc' = wpc \/ \E w \in Workers : wpc[w] = "waiting" /\ wpc' = [wpc EXCEPT ![w] = "take"]
      BY DEF Push, Notify
    <2>2. QED
      BY <2>1 DEF TaskInv, PoolTypeOK, Running
  <1>5. QED
    BY <1>1, <1>2, <1>3, <1>4 DEF TaskInv, PoolTypeOK, Accounted, InOnePlace

\* take() moves the front of the queue to the worker.
LEMMA TakeTask ==
  ASSUME TaskInv, NEW w \in Workers, Take(w)
  PROVE  TaskInv'
  <1>1. wpc[w] = "take" /\ UNCHANGED <<submitted, done>>
    BY DEF Take, Goes, owner
  <1>2. CASE queue = << >>
    <2>1. /\ UNCHANGED <<queue, task>>
          /\ wpc' = [wpc EXCEPT ![w] = IF running THEN "tested" ELSE "loop"]
      BY <1>2 DEF Take, Goes
    <2>2. Running' = Running
      BY <1>1, <2>1 DEF TaskInv, PoolTypeOK, Running
    <2>3. QED
      BY <1>1, <2>1, <2>2 DEF TaskInv, PoolTypeOK, Accounted, InOnePlace
  <1>3. CASE queue # << >>
    <2>1. /\ wpc' = [wpc EXCEPT ![w] = "task"] /\ queue' = Tail(queue)
          /\ task' = [task EXCEPT ![w] = Head(queue)]
      BY <1>3 DEF Take, Goes
    <2>2. Running' = Running \cup {w} /\ w \notin Running
      BY <1>1, <2>1 DEF TaskInv, PoolTypeOK, Running
    <2>3. Head(queue) \in Tasks /\ Tail(queue) \in Seq(Tasks)
      BY <1>3 DEF TaskInv, PoolTypeOK
    <2>4. PoolTypeOK'
      BY <2>1, <2>3 DEF TaskInv, PoolTypeOK
    <2>5. /\ Range(queue) = Range(queue') \cup {Head(queue)} /\ Head(queue) \notin Range(queue')
          /\ IsInjective(queue')
      BY <1>3, <2>1, TailTask DEF TaskInv, PoolTypeOK, InOnePlace
    <2>6. task'[w] = Head(queue) /\ \A v \in Running : v # w /\ task'[v] = task[v]
      BY <2>1, <2>2 DEF TaskInv, PoolTypeOK, Running
    <2>7. {task'[v] : v \in Running'} = {task[v] : v \in Running} \cup {Head(queue)}
      BY <2>2, <2>6
    <2>8. Accounted'
      BY <1>1, <2>5, <2>7 DEF TaskInv, Accounted
    <2>9. InOnePlace'
      BY <1>1, <2>2, <2>5, <2>6 DEF TaskInv, InOnePlace
    <2>10. QED
      BY <2>4, <2>8, <2>9 DEF TaskInv
  <1>4. QED
    BY <1>2, <1>3

LEMMA TaskReturnsTask ==
  ASSUME TaskInv, NEW w \in Workers, TaskReturns(w)
  PROVE  TaskInv'
  <1>1. /\ wpc[w] = "task" /\ wpc' = [wpc EXCEPT ![w] = "loop"]
        /\ task' = [task EXCEPT ![w] = NoTask] /\ done' = done \cup {task[w]}
        /\ UNCHANGED <<queue, submitted>>
    BY DEF TaskReturns, Goes, owner
  <1>2. w \in Running /\ Running' = Running \ {w}
    BY <1>1 DEF TaskInv, PoolTypeOK, Running
  <1>3. \A v \in Running' : v \in Running /\ v # w /\ task'[v] = task[v]
    BY <1>1, <1>2 DEF TaskInv, PoolTypeOK, Running
  <1>4. {task[v] : v \in Running} = {task'[v] : v \in Running'} \cup {task[w]}
    BY <1>2, <1>3
  <1>5. Accounted'
    BY <1>1, <1>4 DEF TaskInv, Accounted
  <1>6. InOnePlace'
    BY <1>1, <1>2, <1>3 DEF TaskInv, InOnePlace
  <1>7. QED
    BY <1>1, <1>5, <1>6 DEF TaskInv, PoolTypeOK

\* Steps that move no task.
LEMMA SamePlaces ==
  ASSUME TaskInv, UNCHANGED <<queue, task, submitted, done>>,
         wpc' \in [Workers -> {"new", "loop", "take", "tested", "waiting", "task", "exited"}],
         \A w \in Workers : wpc'[w] = "task" <=> wpc[w] = "task"
  PROVE  TaskInv'
  <1>1. Running' = Running
    BY DEF Running
  <1>2. QED
    BY <1>1 DEF TaskInv, PoolTypeOK, Accounted, InOnePlace

LEMMA StepTask == TaskInv /\ [Next]_vars => TaskInv'
  <1> SUFFICES ASSUME TaskInv, [Next]_vars PROVE TaskInv'
    OBVIOUS
  <1> USE DEF TaskInv, PoolTypeOK
  <1>1. CASE UNCHANGED <<queue, task, submitted, done, wpc>>
    BY <1>1, SamePlaces
  <1>2. CASE StopNotifies
    BY <1>2, SamePlaces DEF StopNotifies, NotifyAll
  <1>3. ASSUME NEW t \in Tasks, Run(t) PROVE TaskInv'
    <2>1. CASE threads = {}
      <3>1. /\ UNCHANGED <<queue, task, wpc>> /\ t \notin submitted
            /\ submitted' = submitted \cup {t} /\ done' = done \cup {t}
        BY <1>3, <2>1 DEF Run
      <3>2. Running' = Running
        BY <3>1 DEF Running
      <3>3. t \notin Range(queue) /\ \A w \in Running : task[w] # t
        BY <3>1 DEF Accounted
      <3>4. QED
        BY <3>1, <3>2, <3>3 DEF Accounted, InOnePlace
    <2>2. CASE threads # {}
      BY <1>3, <2>2, PushTask DEF Run
    <2>3. QED
      BY <2>1, <2>2
  <1>4. ASSUME NEW w \in Workers, StartThread(w) \/ TestRunning(w) \/ Wait(w) \/ SpuriousWakeup(w)
        PROVE  TaskInv'
    BY <1>4, SamePlaces DEF StartThread, TestRunning, Wait, SpuriousWakeup, Goes, owner
  <1>5. ASSUME NEW w \in Workers, Take(w) PROVE TaskInv'
    BY <1>5, TakeTask
  <1>6. ASSUME NEW w \in Workers, TaskReturns(w) PROVE TaskInv'
    BY <1>6, TaskReturnsTask
  <1>7. ASSUME NEW w \in Workers, NEW t \in Tasks, TaskRuns(w, t) PROVE TaskInv'
    BY <1>7, PushTask DEF TaskRuns
  <1>8. QED
    BY <1>1, <1>2, <1>3, <1>4, <1>5, <1>6, <1>7
       DEF Next, OwnerGoesOn, WorkerGoesOn, Start, Stop, StartReturns, StopReturns, vars, owner

\* No task given to run() is lost and none is run twice, for any number of
\* workers and tasks and whenever the pool is stopped (ThreadPool.cc:57-105).
THEOREM PoolKeepsTasks == Spec => [](Accounted /\ InOnePlace)
  <1>1. Init => TaskInv
    <2>1. Range(<< >>) = {} /\ IsInjective(<< >>)
      BY DEF Range, IsInjective
    <2>2. QED
      BY <2>1 DEF Init, TaskInv, PoolTypeOK, Accounted, InOnePlace, Running
  <1>2. TaskInv => Accounted /\ InOnePlace
    BY DEF TaskInv
  <1>3. QED
    BY <1>1, <1>2, StepTask, PTL DEF Spec

=============================================================================
