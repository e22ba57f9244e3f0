--------------------------- MODULE CountDownLatch ---------------------------
(***************************************************************************)
(* muduo::CountDownLatch (thread/CountDownLatch.h), as a monitor: a        *)
(* critical section is one step, as in BlockingQueue.                      *)
(***************************************************************************)
EXTENDS Integers

VARIABLES
    count,          \* count_
    latched         \* the threads in condition_.wait()

latchVars == <<count, latched>>

LatchInit(n) == count = n /\ latched = {}

\* wait(), when it has to wait.
LatchWaits(t) ==
    /\ t \notin latched
    /\ count > 0
    /\ latched' = latched \cup {t}
    /\ UNCHANGED count

\* wait(), to its end.
LatchPasses(t) ==
    /\ t \notin latched
    /\ count <= 0
    /\ UNCHANGED latchVars

\* Mutant of CountDown: the last countDown() does not notify.
CountDownOnly ==
    /\ count' = count - 1
    /\ UNCHANGED latched

\* countDown(): the one that gets to zero wakes every thread.
CountDown ==
    /\ count' = count - 1
    /\ latched' = IF count' = 0 THEN {} ELSE latched

LatchSpuriousWakeup(t) ==
    /\ t \in latched
    /\ latched' = latched \ {t}
    /\ UNCHANGED count
=============================================================================
