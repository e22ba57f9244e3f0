--------------------------- MODULE EventLoopProofs ---------------------------
(***************************************************************************)
(* Theorems about EventLoop, for every set of calling threads and of       *)
(* callbacks and every limit of the eventfd, and about EventLoopThread,    *)
(* whose steps leave the loop alone or are steps of EventLoop.             *)
(***************************************************************************)
EXTENDS EventLoopThread, SequenceTheorems, TLAPS

\* Where the loop thread is, as far as its own flags tell.
ControlInv ==
    /\ callingPendingFunctors <=> pc \in {"swap", "run", "functor"}
    /\ functors # << >> => pc \in {"run", "functor"}

\* From the swap on, and until the next batch of events is dispatched, every
\* pending functor is announced.
AnnouncedInv ==
    pc \in {"idle", "test", "poll", "run", "functor"} =>
        \/ Range(pendingFunctors) \subseteq early
        \/ eventfd > 0
        \/ \E c \in Callers : cpc[c] = "queued"

\* With TypeOK, the inductive invariant behind NoLostWakeup.
WakeupInv == ControlInv /\ AnnouncedInv

-----------------------------------------------------------------------------
(* Facts about sequences.                                                  *)

LEMMA RangeEmpty == Range(<< >>) = {}
  BY DEF Range

LEMMA RangeAppend ==
  ASSUME NEW S, NEW s \in Seq(S), NEW x \in S
  PROVE  Range(Append(s, x)) = Range(s) \cup {x}
  <1>1. Append(s, x) = s \o <<x>> /\ <<x>> \in Seq(S)
    OBVIOUS
  <1>2. Range(<<x>>) = {x}
    BY DEF Range
  <1>3. Range(s \o <<x>>) = Range(s) \cup Range(<<x>>)
    BY <1>1, RangeConcatenation
  <1>4. QED
    BY <1>1, <1>2, <1>3

LEMMA AppendAfterConcat ==
  ASSUME NEW S, NEW s \in Seq(S), NEW t \in Seq(S), NEW x \in S
  PROVE  s \o Append(t, x) = Append(s \o t, x)
  OBVIOUS

LEMMA HeadTailConcat ==
  ASSUME NEW S, NEW s \in Seq(S), NEW t \in Seq(S), s # << >>
  PROVE  /\ s \o t # << >>
         /\ Head(s \o t) = Head(s)
         /\ Tail(s \o t) = Tail(s) \o t
  OBVIOUS

LEMMA RangeConcat ==
  ASSUME NEW S, NEW s \in Seq(S), NEW t \in Seq(S)
  PROVE  Range(s \o t) = Range(s) \cup Range(t)
  BY RangeConcatenation

-----------------------------------------------------------------------------
(* Type correctness.                                                       *)

\* Every variable of the loop and of its callers keeps its type; in
\* particular the eventfd's counter stays within its limit.
THEOREM TypeCorrect == Spec => []TypeOK
  <1>1. Init => TypeOK
    <2>1. << >> \in Seq(Functors) /\ 0 \in 0 .. EventFdMax
      BY EventFdMaxAssumption
    <2>2. QED
      BY <2>1 DEF Init, TypeOK, LoopPoints
  <1>2. TypeOK /\ [Next]_vars => TypeOK'
    <2> SUFFICES ASSUME TypeOK, [Next]_vars
                 PROVE  TypeOK'
      OBVIOUS
    <2> USE EventFdMaxAssumption DEF TypeOK, LoopPoints
    <2>1. CASE StartLoop
      BY <2>1 DEF StartLoop
    <2>2. CASE LoopStep
      <3>1. CASE TestQuit
        BY <3>1 DEF TestQuit
      <3>2. CASE HandleRead
        BY <3>2 DEF HandleRead
      <3>3. CASE HandleEvent
        BY <3>3 DEF HandleEvent
      <3>4. CASE BeginPendingFunctors
        BY <3>4 DEF BeginPendingFunctors
      <3>5. CASE SwapPendingFunctors
        BY <3>5 DEF SwapPendingFunctors
      <3>6. CASE RunFunctor
        BY <3>6 DEF RunFunctor
      <3>7. CASE EndPendingFunctors
        BY <3>7 DEF EndPendingFunctors
      <3>8. CASE Return
        BY <3>8 DEF Return
      <3>9. QED
        BY <2>2, <3>1, <3>2, <3>3, <3>4, <3>5, <3>6, <3>7, <3>8 DEF LoopStep
    <2>3. CASE PollTimeout
      BY <2>3 DEF PollTimeout
    <2>4. CASE Quit
      BY <2>4 DEF Quit
    <2>5. ASSUME NEW io \in SUBSET {"io"}, PollReady(io)
          PROVE  TypeOK'
      BY <2>5 DEF PollReady
    <2>6. ASSUME NEW f \in Functors, QueueInLoop(f)
          PROVE  TypeOK'
      BY <2>6 DEF QueueInLoop, Wakeup
    <2>7. ASSUME NEW f \in Functors, RunInLoop(f)
          PROVE  TypeOK'
      BY <2>7 DEF RunInLoop
    <2>8. ASSUME NEW c \in Callers, NEW f \in Functors, CallQueueInLoop(c, f)
          PROVE  TypeOK'
      BY <2>8 DEF CallQueueInLoop
    <2>9. ASSUME NEW c \in Callers, CallQuit(c)
          PROVE  TypeOK'
      BY <2>9 DEF CallQuit
    <2>10. ASSUME NEW c \in Callers, CallWakeup(c)
           PROVE  TypeOK'
      BY <2>10 DEF CallWakeup, Wakeup
    <2>11. CASE UNCHANGED vars
      BY <2>11 DEF vars
    <2>12. QED
      BY <2>1, <2>2, <2>3, <2>4, <2>5, <2>6, <2>7, <2>8, <2>9, <2>10, <2>11
         DEF Next, LoopThread, Caller
  <1>3. QED
    BY <1>1, <1>2, PTL DEF Spec

-----------------------------------------------------------------------------
(* No lost wakeup.                                                         *)

\* An empty queue is announced, whatever the other variables are.
LEMMA EmptyAnnounced == ASSUME pendingFunctors' = << >> PROVE AnnouncedInv'
  BY RangeEmpty DEF AnnouncedInv

\* A step that leaves the queue alone, does not lower the eventfd and lets no
\* caller forget its wakeup keeps AnnouncedInv, if the loop was already past
\* the swap.
LEMMA StillAnnounced ==
  ASSUME AnnouncedInv, pc \in {"idle", "test", "poll", "run", "functor"},
         UNCHANGED <<pendingFunctors, eventfd, cpc, early>>
  PROVE  AnnouncedInv'
  BY DEF AnnouncedInv

LEMMA WakeupInvariant == Spec => []WakeupInv
  <1>1. Init => WakeupInv
    BY RangeEmpty DEF Init, WakeupInv, ControlInv, AnnouncedInv
  <1>2. TypeOK /\ WakeupInv /\ [Next]_vars => WakeupInv'
    <2> SUFFICES ASSUME TypeOK, ControlInv, AnnouncedInv, [Next]_vars
                 PROVE  ControlInv' /\ AnnouncedInv'
      BY DEF WakeupInv
    <2>1. CASE StartLoop
      <3>1. ControlInv'
        BY <2>1 DEF StartLoop, ControlInv
      <3>2. AnnouncedInv'
        BY <2>1, StillAnnounced DEF StartLoop
      <3>3. QED
        BY <3>1, <3>2
    <2>2. CASE LoopStep
      <3>1. CASE TestQuit
        <4>1. ControlInv'
          BY <3>1 DEF TestQuit, ControlInv
        <4>2. AnnouncedInv'
          BY <3>1, StillAnnounced DEF TestQuit
        <4>3. QED
          BY <4>1, <4>2
      <3>2. CASE HandleRead \/ HandleEvent \/ BeginPendingFunctors
        BY <3>2 DEF HandleRead, HandleEvent, BeginPendingFunctors,
                    ControlInv, AnnouncedInv
      <3>3. CASE SwapPendingFunctors
        <4>1. ControlInv'
          BY <3>3 DEF SwapPendingFunctors, ControlInv
        <4>2. AnnouncedInv'
          BY <3>3, EmptyAnnounced DEF SwapPendingFunctors
        <4>3. QED
          BY <4>1, <4>2
      <3>4. CASE RunFunctor
        <4>1. ControlInv'
          BY <3>4 DEF RunFunctor, ControlInv
        <4>2. AnnouncedInv'
          BY <3>4, StillAnnounced DEF RunFunctor
        <4>3. QED
          BY <4>1, <4>2
      <3>5. CASE EndPendingFunctors
        <4>1. ControlInv'
          BY <3>5 DEF EndPendingFunctors, ControlInv
        <4>2. AnnouncedInv'
          BY <3>5, StillAnnounced DEF EndPendingFunctors
        <4>3. QED
          BY <4>1, <4>2
      <3>6. CASE Return
        BY <3>6 DEF Return, ControlInv, AnnouncedInv
      <3>7. QED
        BY <2>2, <3>1, <3>2, <3>3, <3>4, <3>5, <3>6 DEF LoopStep
    <2>3. CASE PollTimeout
      BY <2>3 DEF PollTimeout, ControlInv, AnnouncedInv
    <2>4. CASE Quit
      BY <2>4 DEF Quit, ControlInv, AnnouncedInv
    <2>5. ASSUME NEW io \in SUBSET {"io"}, PollReady(io)
          PROVE  ControlInv' /\ AnnouncedInv'
      BY <2>5 DEF PollReady, ControlInv, AnnouncedInv
    <2>6. ASSUME NEW f \in Functors, QueueInLoop(f)
          PROVE  ControlInv' /\ AnnouncedInv'
      <3>1. ControlInv'
        BY <2>6 DEF QueueInLoop, ControlInv
      <3>2. CASE pc = "functor"
        \* the flag is set, so the eventfd is written
        <4>1. eventfd' > 0
          BY <2>6, <3>2, EventFdMaxAssumption
             DEF QueueInLoop, NeedsWakeup, Wakeup, ControlInv, TypeOK
        <4>2. QED
          BY <3>1, <4>1 DEF AnnouncedInv
      <3>3. CASE pc = "callback"
        BY <2>6, <3>1, <3>3 DEF QueueInLoop, AnnouncedInv
      <3>4. CASE pc = "idle"
        <4>1. Range(pendingFunctors') = Range(pendingFunctors) \cup {f}
          BY <2>6, RangeAppend DEF QueueInLoop, TypeOK
        <4>2. early' = early \cup {f} /\ eventfd' = eventfd /\ cpc' = cpc
          BY <2>6, <3>4 DEF QueueInLoop, NeedsWakeup, ControlInv
        <4>3. QED
          BY <3>1, <3>4, <4>1, <4>2 DEF AnnouncedInv
      <3>5. QED
        BY <2>6, <3>2, <3>3, <3>4 DEF QueueInLoop, InUserCode
    <2>7. ASSUME NEW f \in Functors, RunInLoop(f)
          PROVE  ControlInv' /\ AnnouncedInv'
      BY <2>7 DEF RunInLoop, ControlInv, AnnouncedInv
    <2>8. ASSUME NEW c \in Callers, NEW f \in Functors, CallQueueInLoop(c, f)
          PROVE  ControlInv' /\ AnnouncedInv'
      <3>1. ControlInv'
        BY <2>8 DEF CallQueueInLoop, ControlInv
      <3>2. cpc'[c] = "queued"
        BY <2>8 DEF CallQueueInLoop, TypeOK
      <3>3. QED
        BY <3>1, <3>2 DEF AnnouncedInv
    <2>9. ASSUME NEW c \in Callers, CallQuit(c)
          PROVE  ControlInv' /\ AnnouncedInv'
      <3>1. ControlInv'
        BY <2>9 DEF CallQuit, ControlInv
      <3>2. \A d \in Callers : cpc[d] = "queued" => cpc'[d] = "queued"
        BY <2>9 DEF CallQuit, TypeOK
      <3>3. QED
        BY <2>9, <3>1, <3>2 DEF CallQuit, AnnouncedInv
    <2>10. ASSUME NEW c \in Callers, CallWakeup(c)
           PROVE  ControlInv' /\ AnnouncedInv'
      <3>1. ControlInv'
        BY <2>10 DEF CallWakeup, ControlInv
      <3>2. eventfd' > 0
        BY <2>10, EventFdMaxAssumption DEF CallWakeup, Wakeup, TypeOK
      <3>3. QED
        BY <3>1, <3>2 DEF AnnouncedInv
    <2>11. CASE UNCHANGED vars
      BY <2>11 DEF vars, ControlInv, AnnouncedInv
    <2>12. QED
      BY <2>1, <2>2, <2>3, <2>4, <2>5, <2>6, <2>7, <2>8, <2>9, <2>10, <2>11
         DEF Next, LoopThread, Caller
  <1>3. QED
    BY <1>1, <1>2, TypeCorrect, PTL DEF Spec

\* The loop never blocks in poll() with a pending functor that nobody
\* announces, except one its own thread queued outside loop().
THEOREM NoLostWakeupTheorem == Spec => []NoLostWakeup
  <1>1. WakeupInv => NoLostWakeup
    BY DEF WakeupInv, AnnouncedInv, NoLostWakeup
  <1>2. QED
    BY <1>1, WakeupInvariant, PTL

\* No quit() of another thread is lost between the test of quit_ and poll()
\* (EventLoop.cc:89-92, :105-112), also when the eventfd is full.
THEOREM NoLostQuitTheorem == Spec => []NoLostQuit
  <1>1. Init => NoLostQuit
    BY DEF Init, NoLostQuit
  <1>2. TypeOK /\ NoLostQuit /\ [Next]_vars => NoLostQuit'
    <2> SUFFICES ASSUME TypeOK, NoLostQuit, [Next]_vars
                 PROVE  NoLostQuit'
      OBVIOUS
    <2>1. CASE pc' # "poll"
      BY <2>1 DEF NoLostQuit
    <2>2. CASE TestQuit
      BY <2>2 DEF TestQuit, NoLostQuit
    <2>3. ASSUME NEW c \in Callers, CallQuit(c)
          PROVE  NoLostQuit'
      <3>1. cpc'[c] = "quitting"
        BY <2>3 DEF CallQuit, TypeOK
      <3>2. QED
        BY <3>1 DEF NoLostQuit
    <2>4. ASSUME NEW c \in Callers, CallWakeup(c)
          PROVE  NoLostQuit'
      <3>1. eventfd' > 0
        BY <2>4, EventFdMaxAssumption DEF CallWakeup, Wakeup, TypeOK
      <3>2. QED
        BY <3>1 DEF NoLostQuit
    <2>5. ASSUME NEW c \in Callers, NEW f \in Functors, CallQueueInLoop(c, f)
          PROVE  NoLostQuit'
      <3>1. UNCHANGED <<pc, quit, eventfd>> /\ cpc[c] = "out"
            /\ \A d \in Callers : d # c => cpc'[d] = cpc[d]
        BY <2>5 DEF CallQueueInLoop, TypeOK
      <3>2. QED
        BY <3>1 DEF NoLostQuit
    <2>6. CASE UNCHANGED vars
      BY <2>6 DEF vars, NoLostQuit
    <2>7. CASE LoopThread /\ ~TestQuit
      <3>1. pc' # "poll"
        BY <2>7 DEF LoopThread, LoopStep, StartLoop, HandleRead, HandleEvent,
             BeginPendingFunctors, SwapPendingFunctors, RunFunctor,
             EndPendingFunctors, Return, PollTimeout, Quit, PollReady,
             QueueInLoop, RunInLoop, InUserCode
      <3>2. QED
        BY <3>1, <2>1
    <2>8. QED
      BY <2>2, <2>3, <2>4, <2>5, <2>6, <2>7 DEF Next, Caller
  <1>3. QED
    BY <1>1, <1>2, TypeCorrect, PTL DEF Spec

-----------------------------------------------------------------------------
(* The callbacks run once each and in order.                               *)

\* A callback that is fresh for the loop is fresh for the abstract queue.
LEMMA FreshAbstract ==
  ASSUME TypeOK, NEW f, Fresh(f)
  PROVE  Queue!Fresh(f)
  <1>1. Range(functors \o pendingFunctors)
          = Range(functors) \cup Range(pendingFunctors)
    BY RangeConcat DEF TypeOK
  <1>2. QED
    BY <1>1 DEF Fresh, Queue!Fresh, Range, Queue!Range

\* runInLoop() and queueInLoop() implement FunctorQueue.
THEOREM QueueRefinement == Spec => ImplementsFunctorQueue
  <1> DEFINE waiting == functors \o pendingFunctors
  <1>1. Init => Queue!Init
    BY DEF Init, Queue!Init
  <1>2. TypeOK /\ WakeupInv /\ [Next]_vars
          => [Queue!Next]_<<waiting, ran>>
    <2> SUFFICES ASSUME TypeOK, ControlInv, [Next]_vars
                 PROVE  Queue!Next \/ UNCHANGED <<waiting, ran>>
      BY DEF WakeupInv
    <2>1. CASE UNCHANGED <<functors, pendingFunctors, ran>>
      BY <2>1
    <2>2. CASE SwapPendingFunctors
      <3>1. functors = << >> /\ functors' = pendingFunctors
              /\ pendingFunctors' = << >> /\ ran' = ran
        BY <2>2 DEF SwapPendingFunctors, ControlInv
      <3>2. waiting' = waiting
        BY <3>1, ConcatEmptySeq DEF TypeOK
      <3>3. QED
        BY <3>1, <3>2
    <2>3. CASE RunFunctor
      <3>1. /\ waiting # << >>
            /\ Head(waiting) = Head(functors)
            /\ Tail(waiting) = Tail(functors) \o pendingFunctors
        BY <2>3, HeadTailConcat DEF RunFunctor, TypeOK
      <3>2. Queue!RunNext
        BY <2>3, <3>1 DEF RunFunctor, Queue!RunNext
      <3>3. QED
        BY <3>2 DEF Queue!Next
    <2>4. ASSUME NEW f \in Functors, Fresh(f), UNCHANGED <<functors, ran>>,
                 pendingFunctors' = Append(pendingFunctors, f)
          PROVE  Queue!Next
      <3>1. waiting' = Append(waiting, f)
        BY <2>4, AppendAfterConcat DEF TypeOK
      <3>2. Queue!Queue(f)
        BY <2>4, <3>1, FreshAbstract DEF Queue!Queue
      <3>3. QED
        BY <3>2 DEF Queue!Next
    <2>5. ASSUME NEW f \in Functors, RunInLoop(f)
          PROVE  Queue!Next
      <3>1. Queue!RunNow(f)
        BY <2>5, FreshAbstract DEF RunInLoop, Queue!RunNow
      <3>2. QED
        BY <3>1 DEF Queue!Next
    <2>6. ASSUME NEW f \in Functors, QueueInLoop(f)
          PROVE  Queue!Next
      BY <2>6, <2>4 DEF QueueInLoop
    <2>7. ASSUME NEW c \in Callers, NEW f \in Functors, CallQueueInLoop(c, f)
          PROVE  Queue!Next
      BY <2>7, <2>4 DEF CallQueueInLoop
    <2>8. CASE \/ StartLoop \/ TestQuit \/ HandleRead \/ HandleEvent
               \/ BeginPendingFunctors \/ EndPendingFunctors \/ Return
               \/ PollTimeout \/ Quit \/ UNCHANGED vars
               \/ \E io \in SUBSET {"io"} : PollReady(io)
               \/ \E c \in Callers : CallQuit(c) \/ CallWakeup(c)
      BY <2>1, <2>8
         DEF StartLoop, TestQuit, HandleRead, HandleEvent,
             BeginPendingFunctors, EndPendingFunctors, Return, PollTimeout,
             Quit, PollReady, CallQuit, CallWakeup, vars
    <2>9. QED
      BY <2>2, <2>3, <2>5, <2>6, <2>7, <2>8
         DEF Next, LoopThread, LoopStep, Caller
  <1>3. QED
    BY <1>1, <1>2, TypeCorrect, WakeupInvariant, PTL
       DEF Spec, ImplementsFunctorQueue, Queue!Spec

-----------------------------------------------------------------------------
(* EventLoopThread.                                                        *)

\* A loop that an EventLoopThread runs, or main(), is an EventLoop as its
\* own module has it: the thread, the owner and the destructor do nothing to
\* it that other threads could not do (EventLoopThread.cc:25-60).
THEOREM ThreadImplementsLoop == ThreadSpec => Spec
  <1>1. ThreadInit => Init
    BY DEF ThreadInit
  <1>2. [ThreadNext]_allVars => [Next]_vars
    <2> SUFFICES ASSUME [ThreadNext]_allVars
                 PROVE  Next \/ UNCHANGED vars
      OBVIOUS
    <2>1. CASE StartThread \/ WaitForLoop \/ Join \/ Publish \/ Finish
               \/ UNCHANGED allVars
      BY <2>1 DEF StartThread, WaitForLoop, Join, Publish, Finish, allVars
    <2>2. CASE Destroy \/ DestroyWakeup
      BY <2>2, OwnerAssumption DEF Destroy, DestroyWakeup, Next, Caller
    <2>3. CASE EnterLoop \/ InLoop
      BY <2>3 DEF EnterLoop, InLoop, Next, LoopThread
    <2>4. ASSUME NEW c \in Callers, UseLoop(c)
          PROVE  Next
      BY <2>4 DEF UseLoop, Next, Caller
    <2>5. QED
      BY <2>1, <2>2, <2>3, <2>4 DEF ThreadNext, OwnerStep, ThreadStep
  <1>3. QED
    BY <1>1, <1>2, PTL DEF ThreadSpec, Spec

\* Types of the thread and of its owner, and who is where: the address is
\* published once the thread is past it, the owner waits only before that,
\* and uses and destroys the loop only after.
Handover ==
    /\ owner \in {"new", "locking", "waiting", "started", "quitting", "joining", "gone"}
    /\ thread \in {"none", "main", "constructed", "published", "looping", "finished"}
    /\ published <=> thread \in {"published", "looping", "finished"}
    /\ owner = "new" <=> thread \in {"none", "main"}
    /\ owner = "waiting" => thread = "constructed"
    /\ owner \in {"started", "quitting", "joining", "gone"} => published

LEMMA HandoverInvariant == ThreadSpec => []Handover
  <1>1. ThreadInit => Handover
    BY DEF ThreadInit, Handover
  <1>2. Handover /\ [ThreadNext]_allVars => Handover'
    <2> SUFFICES ASSUME Handover, [ThreadNext]_allVars
                 PROVE  Handover'
      OBVIOUS
    <2> USE DEF Handover
    <2>1. CASE StartThread
      BY <2>1 DEF StartThread
    <2>2. CASE WaitForLoop
      BY <2>2 DEF WaitForLoop
    <2>3. CASE Destroy
      BY <2>3 DEF Destroy
    <2>4. CASE DestroyWakeup
      BY <2>4 DEF DestroyWakeup
    <2>5. CASE Join
      BY <2>5 DEF Join
    <2>6. CASE Publish
      BY <2>6 DEF Publish, Notified
    <2>7. CASE EnterLoop
      BY <2>7 DEF EnterLoop
    <2>8. CASE Finish
      BY <2>8 DEF Finish
    <2>9. CASE InLoop \/ (\E c \in Callers : UseLoop(c)) \/ UNCHANGED allVars
      BY <2>9 DEF InLoop, UseLoop, allVars, own
    <2>10. QED
      BY <2>1, <2>2, <2>3, <2>4, <2>5, <2>6, <2>7, <2>8, <2>9
         DEF ThreadNext, OwnerStep, ThreadStep
  <1>3. QED
    BY <1>1, <1>2, PTL DEF ThreadSpec

\* The safety in startLoop(): the owner is in cond_.wait() only while the
\* notify() of threadFunc() is still to come, and startLoop() returns only
\* with the address of a loop.
StartLoopSafe ==
    /\ owner = "waiting" => thread = "constructed"
    /\ owner \in {"started", "quitting", "joining", "gone"} => published

\* No notification of startLoop()'s condition is lost, whichever thread comes
\* first to mutex_ (EventLoopThread.cc:37-43, :52-56).
THEOREM StartLoopSafeTheorem == ThreadSpec => []StartLoopSafe
  <1>1. Handover => StartLoopSafe
    BY DEF Handover, StartLoopSafe
  <1>2. QED
    BY <1>1, HandoverInvariant, PTL

\* What EventLoop's theorems say holds of a loop in its thread as well, with
\* loop_->quit() of the destructor, and with callbacks that the owner queues
\* before the thread has called loop().
THEOREM ThreadLoopCorrect ==
    ThreadSpec => /\ []TypeOK /\ []NoLostWakeup /\ []NoLostQuit
                  /\ ImplementsFunctorQueue
  BY ThreadImplementsLoop, TypeCorrect, NoLostWakeupTheorem, NoLostQuitTheorem,
     QueueRefinement, PTL
=============================================================================
