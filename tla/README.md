# A TLA+ model of the reactor in `recipes`

The repository is a collection of C++ "recipes". Its programs with a logic of
their own that is hard to test are the reactor (`src/reactor/s13`, the last of
the fourteen steps that `src/reactor/README` describes), the thread library
under it (`src/thread`) and the asynchronous logging (`src/logging`). This
project models those three.

## Inventory

### The reactor

| Part | State | Operations | Interacts with |
| --- | --- | --- | --- |
| `EventLoop` | `looping_`, `quit_`, `pendingFunctors_` under `mutex_`, `callingPendingFunctors_`, the eventfd | `loop`, `quit`, `runInLoop`, `queueInLoop`, `wakeup`, `doPendingFunctors` | polls a `Poller`, calls `Channel`s and functors; any thread calls it |
| `EventLoopThread` | `loop_` under `mutex_` and `cond_`, `exiting_`, the thread | `startLoop`, `threadFunc`, destructor | owns an `EventLoop` on another thread's stack |
| `TimerQueue`, `Timer`, `TimerId` | `timers_`, `activeTimers_`, `cancelingTimers_`, `callingExpiredTimers_`, raw `Timer` objects, the timerfd | `addTimer`, `cancel`, `handleRead`, `getExpired`, `reset`, `insert` | `runInLoop` from other threads; a channel of the loop |
| `TcpConnection` | `state_`, `outputBuffer_`, the channel's `events_` | `connectEstablished`, `send`, `shutdown`, `handleRead/Write/Close/Error`, `connectDestroyed` | two loops, the server's map, the user's callbacks and threads, the peer |
| `TcpServer`, `Acceptor`, `EventLoopThreadPool` | the map of connections, `started_`, `next_`, the loops | `start`, `newConnection`, `removeConnection`, `getNextLoop` | accepts in the base loop, hands connections to I/O loops |
| `Channel`, `Poller`, `EPoller` | `events_`, `revents_`, `index_`; `pollfds_` and `channels_`, or the kernel's epoll set | `update`, `updateChannel`, `removeChannel`, `poll`, `handleEvent` | every part with a file descriptor |
| `Connector`, `TcpClient` | `connect_`, `state_`, `retryDelayMs_`, `timerId_`, `channel_`; `connection_` | `start`, `restart`, `stop`, `connect`, `retry`, `handleWrite/Error` | timers, the loop, a `TcpConnection` |
| `Buffer` | reader and writer index, bytes | `append`, `retrieve`, `prepend`, `readFd` | the connection's input and output |

What is hard here: callbacks that change what their caller iterates over; calls
of other threads that are a test, a store and a system call apart; objects
deleted by hand or by the last `shared_ptr` while a functor holds a raw
`this`; wakeups that must not be lost; a close that takes three hops between
two loops. Correct means: no functor, timer or byte is lost, repeated or
reordered; nothing is used after it was deleted; the assertions in the code
never fail; what is asked for eventually happens.

### The thread library and the logging

`BlockingQueue`, `BoundedBlockingQueue`, `CountDownLatch` (monitors: a queue or a
counter, `put`/`take`, `wait`/`countDown`), `ThreadPool` (`running_`, `queue_`,
`start`/`run`/`stop`), `SignalSlot` and `WeakCallback` (a slot list copied on
write), and thin wrappers of pthread calls. `AsyncLoggingQueue` and
`AsyncLoggingDoubleBuffering` (front end threads fill buffers, a thread writes
them, a flush interval, `stop()`), `LogFile` (rolling by size and by day). Correct
means no lost wakeup, no task or line lost but those documented, `stop()` ends.

### The rest

`PROJECT.json` lists every directory with the reason it is left out: exercises,
textbook algorithms, benchmarks, wrappers of libraries, vendored code.

## Modules

| Module | Models | |
| --- | --- | --- |
| `FunctorQueue` | what `runInLoop` and `queueInLoop` promise: each callback runs once, in order | abstract |
| `EventLoop` | `EventLoop.{h,cc}`, the loop thread and any number of callers | implements `FunctorQueue` |
| `EventLoopThread` | `EventLoopThread.{h,cc}` around an `EventLoop`, or a loop of `main()` | extends `EventLoop` |
| `TimerQueue` | `TimerQueue.{h,cc}`, `Timer.{h,cc}`, `TimerId.h` | uses the queue that `FunctorQueue` promises |
| `PollInterest` | what a poller promises: what a channel wants is asked for, what is reported reaches the channel that watches the descriptor now | abstract |
| `Channel` | `Channel.{h,cc}` and how its owners use it | |
| `EPoller`, `Poller` | `EPoller.{h,cc}` over epoll, `Poller.{h,cc}` over poll | extend `Channel` |
| `Pollers` | both told the same | `EPoller` implements `PollInterest` |
| `TcpServer` | `TcpServer`, `Acceptor`, `EventLoopThreadPool`: many connections over several loops | |
| `TcpConnection` | `TcpConnection.{h,cc}` with its channel, the epoll record and the server's part of its life: one connection in detail | |
| `Connector`, `TcpClient` | `Connector.{h,cc}`; `TcpClient.{h,cc}` and the loop around it | `TcpClient` extends `Connector` |
| `ThreadPool` | `thread/ThreadPool.{h,cc}` | |
| `BlockingQueue`, `CountDownLatch` | `thread/BlockingQueue.h`, `BoundedBlockingQueue.h`, `CountDownLatch.h` as monitors | |
| `AsyncLogging` | `start()` and `stop()`, which the two loggers have in common | extends the latch |
| `AsyncLoggingQueue` | `logging/AsyncLoggingQueue.h` | composes `AsyncLogging` and the queue |
| `AsyncLoggingDoubleBuffering` | `logging/AsyncLoggingDoubleBuffering.h` with `FixedBuffer` | extends `AsyncLogging` |
| `AsyncLoggingTest` | `logging/AsyncLogging_test.cc`: `main()`, which logs through one of the two | composes both loggers |
| `EventLoopProofs`, `TimerQueueProofs`, `PollersProofs`, `TcpConnectionProofs`, `TcpServerProofs`, `TcpClientProofs`, `ThreadPoolProofs`, `AsyncLoggingProofs` | theorems | `EventLoopProofs` is about `EventLoop` and `EventLoopThread`, `AsyncLoggingProofs` about both loggers, the others about the module they are named after |

### EventLoop

The loop thread has a control point (`pc`) for each place at which another
thread can see or change what it uses; one action per step between them.
`queueInLoop` and `quit` of another thread are two steps: the push (or the store
to `quit_`), and the write to the eventfd. The eventfd is a counter that
saturates, as in Linux, at the constant `EventFdMax`. Functors are instances
that run once; a functor or a channel's callback may itself queue, run and
quit. Two history variables, `ran` and `early`, record the order of the calls and
which functors were queued by the loop thread while it was not in `loop()`.

### EventLoopThread

Adds where the new thread is (constructed, published, looping, finished) and
where the owner is in `startLoop()` or the destructor. All steps of the loop are
those of `EventLoop`. `finished` stands for the destruction of the stack object.
A second initial state has the loop in `main()`, without an `EventLoopThread`:
it may queue before it calls `loop()`, and call `loop()` again after a quit.

### TimerQueue

`Timer` objects live in `heap`, at addresses that can be used again; sequence
0 marks a free address. The two sets hold the pairs of the code,
`<<expiration, address>>` and `<<address, sequence>>`. `handleRead()` is one action
up to the first callback, one for each callback (in which user code adds and
cancels timers), and one for `reset()`. Time is a counter whose unit is the 100
microseconds below which `howMuchTimeFromNow` does not go; the timerfd is the
time left and whether it is readable. `CLOCK_MONOTONIC`, which the timerfd runs
on, and `gettimeofday()`, which `Timestamp::now()` reads, are one clock here: a
wall clock that is set back or forward is not modelled. A call of another thread goes through a
FIFO of calls, as `FunctorQueue` allows; `addTimer()` of another thread has a
second step, the read of `timer->sequence()`. When the `Timer` has been deleted
by then the value read is any sequence number.

### TcpConnection

One connection, from `newConnection()` to its deletion, in an I/O loop that is
the base loop (`sameLoop`, a program of one thread) or another thread; both are
initial states. `Alive` says that somebody holds a
`TcpConnectionPtr`: the map, a callback, a user's thread or a functor bound to a
`shared_ptr`. `sendInLoop` and `shutdownInLoop` are bound to the raw `this`, as in
the code. A message has two pieces, so that `write()` can accept a part. The peer
sends, closes and resets. The reset is an error of the socket that is reported
once, to `handleError()` by way of `POLLERR`, or to a `read()` or `write()` that
comes before it; a `read()` that fails leaves the connection as it is, and a
later `poll()` reports the hang-up. `writeCompleteCallback_` is set or not. A
failed assertion or a call on a deleted connection stops the behaviour with a
`fault`.

Two history variables say what makes the threads of a program dangerous to a
connection: `late`, when `sendInLoop()` has enabled a channel that
`handleClose()` had disabled, and `abandoned`, when the last thread let its
pointer go with a call of `send()` or `shutdown()` still queued. The properties
name these conditions, never the `fault` they lead to; `NoFault` says which
fault needs which condition.

### Channel, EPoller, Poller, Pollers

`Channel` has what the owners of channels may do: create one for a free
descriptor, enable and disable reading and writing, also twice, also from a
handler, disable and remove it before it is deleted. `EPoller` and `Poller` add
their own index, `channels_` and `pollfds_` or the kernel's table. The kernel
reports any events of what is registered, and hang-ups unasked. `Pollers` applies
each operation to both. The history variable `again` has the channels that were
enabled again after `disableAll()`. No owner uses a channel that is removed on
purpose; that a late `sendInLoop()` does is in `TcpConnection` and `TcpServer`.

### TcpServer

`start()`, the loops of the pool and the base loop (number 0), each with its
queue of functors; descriptors come from `accept()` as soon as they are closed.
A connection is created in the base loop, established, closed and destroyed in
its own, and deleted when nobody refers to it: the map, the functors and the
users. A thread of the user that keeps a connection can `send()`, which is the
test of `state_` and, later, `queueInLoop()` of a `sendInLoop()` without a
pointer; when that leaves output over, the channel is enabled, also after
`handleClose()` and `connectDestroyed()`. Then the channel can be found ready
again, `handleClose()` can come a second time, and a deleted connection can leave
its channel in the poller. The assertions of `EPoller.cc:111`, `TcpServer.cc:96`,
`TcpConnection.cc:126`, `:135` and `:191` end the behaviour with a `fault` when
they fail, as in `TcpConnection`, where the inside of a connection is; `late` and
`abandoned` are sets of connections here.

### Connector and TcpClient

The connector's flag, state, channel, delay and retry timer; `TcpClient` adds its
own flag, the connection and a loop with a batch of active events (a timer that
was cancelled after it expired is still in it) and a batch of functors. `stop()`
comes from callbacks or, in two steps, from another thread; `restart()` has two
steps as well.

### ThreadPool

A critical section is one step, except that a worker holds `mutex_` between the
test of `take()` and the wait, where `stop()` can come in between. `notify()`
wakes any one waiting worker, and workers also wake for no reason. Tasks submit
tasks.

### BlockingQueue, CountDownLatch and the logging

The monitors keep the sets of threads in each wait; a thread that is not in one
can take the mutex and test. `AsyncLogging` has the owner, who is the same for
both loggers. `AsyncLoggingQueue` has front ends that append at
any time after `start()`, also during and after `stop()`.
`AsyncLoggingDoubleBuffering` keeps the buffers in the seven places the code has
for them, `NULL` where a pointer was moved away. The writing and recycling of
buffers is one step, since no other thread sees it. The limit of 25 buffers is
the constant `MaxBuffers`.

## Runs

| Run | Shows |
| --- | --- |
| `event_loop_thread` | Two callers, three callbacks, an eventfd that is full at 2; a loop of `main()` and one of an `EventLoopThread`. No wakeup and no `quit()` is lost, `FunctorQueue` is implemented, `startLoop()` returns, a queued functor runs (also one queued before the thread has entered `loop()`) and `quit()` ends `loop()`, without the help of poll's timeout. |
| `event_loop_thread_destructor` | Violation: `loop()` stores `quit_ = false`, so a destructor that is early waits for ever in `join()`. |
| `timer_queue` | Two timers at two addresses, one-shot and repeating, with expirations that are past, 0 (invalid) and future; the loop thread, callbacks and another thread add and cancel. The sets agree, every Timer has one owner, no timer is lost (one that repeats not even after it ran) or runs again after it was cancelled, the alarm is never late, every queued timer runs or is cancelled. |
| `pollers` | Three channels over two descriptors. No assertion and no `epoll_ctl()` fails, and `EPoller` implements `PollInterest`. |
| `tcp_connection` | A program of one thread, and two loops with a thread: the stream keeps its order, the FIN follows all output, a closed connection is destroyed, `shutdown()` leads to the FIN. With one thread no assertion fails and the poller forgets the channel; with several the same holds until a `sendInLoop()` comes after `handleClose()` or a thread lets go with a call queued. |
| `tcp_connection_thread_safe` | Violation: `send()` of another thread, "Thread safe.", queues a functor that runs on a deleted connection. |
| `tcp_server` | Three connections over two descriptors, no, one or two I/O loops, and a `send()` of a thread that keeps a connection: even shares, no poller with a pointer to a deleted connection and no failed assertion unless a `sendInLoop()` came after `handleClose()`, and until then closed connections are deleted. |
| `tcp_client` | Retries, lost connections, `stop()` and `disconnect()`: the assertions hold, there is one timer, attempt or connection at a time, `stop()` in the loop's thread is final, retrying leads to a connection. |
| `tcp_client_stop` | Violation: `restart()` overwrites the `stop()` of another thread. |
| `thread_pool` | Up to three workers: no task waits for a worker nobody woke, tasks run, `stop()` ends every worker but one caught between test and wait. |
| `thread_pool_stop` | Violation: that one worker makes `stop()` wait for ever. |
| `async_logging` | Over a queue, two front ends with three lines each, unbounded and with room for one and two: lines appended before `stop()` are written in order, `start()` and `stop()` return, a full queue blocks nobody for ever before `stop()`. Over buffers, five lines: they keep their order and none is lost but by the two ways to drop, the spare buffers are there in every turn, lines are written, `stop()` returns. |

The findings in `PROJECT.json` quote the line of the code or its documentation
that each violation contradicts.

### Disagreements without a run of their own

The models also allow the following, which the properties above are stated
around:

- `EventLoop.cc:110`: `quit()` of another thread stores `quit_` and then uses
  `wakeupFd_`; the loop thread may have left `loop()` and destroyed the loop on
  its stack in between (`EventLoopThread`: `finished` while a caller is not out).
- `TimerQueue.cc:116`: `addTimer()` of another thread reads the sequence of a
  `Timer` that the loop may have run and deleted. The model takes any sequence;
  `OneOwner`, `NoTimerLost` and `NeverAgain` hold with such a `TimerId` in use.
- `TcpConnection.cc:91`, `:102`, `:193`: with two loops or with threads, a send
  after `handleClose()` can enable the channel again and close the connection a
  second time, so that an assertion fails in `TcpServer.cc:96` (`"erase"`) or in
  `handleClose()` (`"close"`); after `connectDestroyed()` it leaves the channel of
  a deleted connection in the poller, where the next channel with its descriptor
  fails `EPoller.cc:111` (`"channels"` of `TcpServer`); and `shutdown()` can
  overwrite `kDisconnected`. `NoFault`, `PollerForgets` and `PollersSafe` say when
  each of these can happen, that the other assertions never fail, and that with
  one thread none does.
- `Poller.cc:88`: a channel that is enabled again after `disableAll()` keeps the
  negative descriptor in its `pollfd`, so that `poll()` ignores it, though
  `Poller.h:40` says "Changes the interested I/O events". The line shows it by
  itself; the model keeps it (`UpdatedFd`), and no property is stated around it.
  `EventLoop.cc:54` creates an `EPoller`, which keeps the promise
  (`ImplementsInterest`).
- `TimerQueue.cc:121`: `cancel()` in the loop thread overtakes an `addTimer()`
  still queued; the caller is not told.
- `AsyncLoggingDoubleBuffering.h:114` waits when there are full buffers and spins
  when there are none; `stop()` cuts off lines that were not swapped out.
- `AsyncLoggingQueue.h:59`: a front end that appends to a full bounded queue after
  `stop()` waits for ever.

### Bounds

- `Functors` (3), `Callers` (2): two callers can be between push and write at the
  same time, with a third functor queued by a functor of the batch. Each functor
  is used once, which bounds the behaviours without a bound on their length.
- `EventFdMax` 2: reached with two writes, so the write that fails happens.
- `Addrs` 2 and `MaxTimers` 2: two timers can be in one batch, and an address is
  used again when the first is gone. `Whens` {0, 1, 2} with the clock going to 3:
  past, present and future expirations. `MaxClock` stops the clock, not the
  timerfd, so that an armed timer always expires. `MaxPending` 2: an add and a
  cancel can be queued together.
- `Channels` 3, `Fds` {0, 1}: a descriptor is used again while another channel
  lives, a removal moves the last element, and 0 is a descriptor, for which
  negation alone would be no mask. `kInitEventListSize` 1: the array grows.
- `MaxSends` 3 messages of two pieces and `MaxData` 1: a partial write, a direct
  write behind it and a send from a WriteCompleteCallback fit. With several
  threads `MaxSharedSends` 2: a send that comes too late behind one in time.
- `MaxConns` 3, `Fds` 2, `MaxThreads` 2: round robin wraps, and the third
  connection needs a descriptor that was given back. `MaxSends` 1: one
  `sendInLoop()` that is late is enough for each `fault` of `TcpServer`.
- `kInitRetryDelayMs` 1, `kMaxRetryDelayMs` 3: the delay doubles and is cut off.
- `Workers` 3, `Tasks` 3: two tasks for two sleeping workers while a third runs one.
- `Sizes` {1, 2} beside `NoBound`, two front ends of `MaxLines` 3 and the owner: three
  producers compete for one place.
- `Size` 4 with lines of 1, 2 and 4 bytes: one to three lines in a buffer, and one
  that fits in none; `MaxBuffers` 3 with `MaxAppended` 5: buffers are dropped.

In `pollers` the channels are symmetric. Where a program may end (`EventLoopThread`,
`ThreadPool`, the logging, a fault in `TcpConnection` or `TcpServer`) the deadlock check is off.

### Fairness

- `EventLoopThread`: weak fairness of the steps `loop()` takes by itself (user callbacks
  return), of `poll()` when the eventfd is readable, and of a caller's pending
  write. There is none for `poll()`'s timeout, nor for other channels: the
  properties must not rest on `kPollTimeMs`. The owner and the new thread go on
  when they are not blocked in `cond_.wait()` or `join()`.
- `TimerQueue`: the loop goes on handling a readable timerfd, and time passes.
  There is none for user code or for queued calls.
- `TcpConnection`: both loops and a thread inside a call go on. `Poll` is strongly
  fair with all ready events included, since the model lets a writable socket be
  reported late: it stands for a peer that keeps reading.
- `TcpServer`: every loop runs its functors, and what nobody refers to is deleted.
  Nothing makes users let go.
- `TcpClient`: the loop goes on, a timer that is set expires, an attempt that is
  repeated for ever succeeds once (strong fairness); nobody has to call `stop()`.
- `ThreadPool` and the logging: threads that do not wait go on, tasks return, a
  worker gets the mutex in the end (strong fairness of `Take`), and
  `waitForSeconds()` returns. No spurious wakeup is counted on.

## Proofs

All theorems hold for every value of the constants that satisfies the named
assumptions of the modules. These say that bounds are natural numbers (with
`EventFdMax`, `kInitEventListSize` and the capacities positive and the first retry
delay not above the largest), that there are finitely many workers and file
descriptors and front ends, that the threads of the logging are different ones,
and that a value standing for "none" or for the empty message of `stop()` is not
also a channel, a task, a buffer or a line. The bounds of the runs
(`MaxTimers`, `MaxSends`, `MaxConns` and so on) stay in the guards, but are any
numbers here.

No invariant below is inductive by itself; each module names the strengthening
in parts and proves one step per action.

- `EventLoopProofs`: `TypeCorrect`, `NoLostWakeupTheorem`, `QueueRefinement`.
  `NoLostWakeup` speaks of `poll` only. The inductive invariant says, for every
  control point from which the loop can get to `poll` without looking at
  `pendingFunctors_`, that a functor is announced, and ties
  `callingPendingFunctors_` to the control points. The refinement maps the
  waiting callbacks to `functors \o pendingFunctors`; the swap is a stuttering
  step because `functors` is empty before it. `NoLostQuitTheorem` is the same for
  `quit()`, the safety behind `QuitEndsThread`. `ThreadImplementsLoop` shows that
  `EventLoopThread` does nothing to its loop that `EventLoop` does not allow, so
  that all of this holds of the specification the run checks
  (`ThreadLoopCorrect`); `StartLoopSafeTheorem` says that the owner waits only
  while the thread has yet to notify it, from `Handover`, which ties where the
  owner is to where the thread is.
- `TimerQueueProofs`, in three parts.
  - `TimerTypeCorrect`, `TimerSetsAgree`, `TimerOneOwner` are proved together with
    `BatchAgrees` (the entries of the batch carry the current expirations, and
    the batch is empty outside `handleRead()`): that `erase` finds its element
    needs both sets to agree; that a Timer changed by `restart()` or `delete` is
    in no other place needs the owners to be disjoint; that an address allocated
    anew is in no set needs every owner to hold allocated Timers only. One lemma
    per kind of move (insert, cancel, expire, reset, nothing), one per action on
    top of them.
  - `TimerAlarmInTime`. The strengthening speaks of every timer and not only of
    the first, and inside `handleRead()` of timers with expiration 0, for which
    `reset()` does not arm the timerfd.
  - `TimerNotLost`, `TimerNeverAgain`. Two timers never have one sequence number,
    even where a `TimerId` was read from a deleted Timer, and during
    `handleRead()` the timers of the batch that were cancelled are exactly those
    `cancelingTimers_` names, so that `reset()` restarts all others that repeat.
- `PollersProofs`: `EPollerKernelAgrees`, `PollerPollfdsAgree`,
  `InterestRefinement`. `Owned` says that a descriptor
  has one live channel, `Known` what each value of `index_` means for `channels_`
  and for the kernel's record, `Indexed` that `pollfds_` has one element for each
  known channel, at its index and masked or not as the channel's history tells.
  The refinement adds `Reported`: only channels in the list of active ones have
  `revents_` to act on.
- `TcpConnectionProofs`, in three layers: `ConnectionStreamInOrder`, from the
  types and from `Counted`, which finds every message given out by `send()` in the
  stream, in a functor or in a thread's hands; `ConnectionFinAfterOutput`, from
  what is untouched before `connectEstablished()` and from the fact that output can
  wait without write interest only after the peer has closed;
  `ConnectionNoFault` and `ConnectionPollerForgets`, from where the functors of the
  removal can be: `connectDestroyed` is queued at most once, by the removal from
  the map, and nothing else makes the connection `kDisconnected`; with one thread,
  events that lead to `handleClose()` find the connection in the map still. With
  several threads `InTime` says the same as long as no `sendInLoop()` was late, and
  `HeldByThread` that a thread with a call queued keeps the connection, as long as
  none was abandoned.
- `TcpServerProofs`: `ServerPollersSafe`, from which of the map, the functors and the
  users refers to a connection. `Removal` has `connectDestroyed` queued at most
  once, by the removal from the map; `InTime` says of a connection that no
  `sendInLoop()` came too late for: one that a poller knows is in the map or in the
  functor that will take it out of the poller, so its descriptor is not given out
  again, and `removeConnectionInLoop` is queued at most once and finds it in the
  map. `Users` has a queued `sendInLoop()` keep to a connection that is held or was
  abandoned. `ServerRoundRobin`: how many connections a loop has is the number of full
  rounds, and one more before `next_`.
- `TcpClientProofs`: `ClientOneAttempt`, `ClientAssertionsHold`, from where the
  functors `resetChannel` and `startInLoop` are, at most once, and in which phases
  of the loop no attempt can begin beside them; `ClientStopIsFinal`, since both
  flags stay cleared: only `restart()` sets one again, and the loop is not on its
  way there.
- `ThreadPoolProofs`: `PoolEnoughAwake`, with the fact that a worker between test
  and wait holds the mutex, so the queue is still empty; `PoolKeepsTasks`, which no
  run states: every task given to `run()` is in the queue, in the hands of one
  worker or done, and in one of these places once.
- `AsyncLoggingProofs`, about the logger over a queue:
  - `LoggingEarlyLinesWritten`. A line appended before `stop()` is written, in the
    logging thread's hands, or queued before any empty message; and the lines of a
    front end are in its order over file, hand and queue together.
  - `LoggingNobodyOversleeps`, the safety behind `StartAndStopReturn` and
    `AppendReturns`: no wakeup of `notEmpty_` or `notFull_` is lost. That somebody
    is awake for the last free place is not inductive; the invariant counts, and
    has as many threads on their way to put as there are free places whenever one
    sleeps. `SleepInv` adds who can be in a condition at all.
- `AsyncLoggingProofs`, about the double buffering: `BuffersKeepLinesInOrder`,
  `BuffersSparesReady`. They are proved together: that both spare buffers are there
  again after a turn needs that two were handed over when `newBuffer2` was spent,
  which is so because `nextBuffer_` is spent only when a full buffer was queued
  (`Handed`); that the order survives a swap needs the spare buffer to be empty.
  What `FlattenSeq` does to lists of buffers (append, concatenate) is proved first,
  by taking the least length at which it would fail.

Only model-checked: the liveness properties (`StartLoopReturns`, `QueuedRuns`,
`QuitEndsThread`, `TimerRuns`, `ClosedIsDestroyed`, `ShutdownSendsFin`,
`ClosedIsDeleted`, `RetryConnects`, `TaskIsRun`, `StopEndsWorkers`,
`StartAndStopReturn`, `AppendReturns`, `LineIsWritten`, `StopEndsLogging`), since
fairness is out of the prover's reach. Every invariant and every other action
property or refinement of a passing run is stated by a theorem. The violations
are counterexamples and need no proof.

## Not modelled

The log lines; the abort when a
loop is used in the wrong thread; errors of system calls that the code answers
by ending the program; the contents of the input buffer; socket options. The
destructors of `TcpServer` and `TcpClient` while connections live (marked `FIXME:
unsafe` in the code) and of `TimerQueue`. `TcpServer::start()` of another thread,
whose assertion ends the program at once, and a second `connect()` of a
`TcpClient` (`FIXME: check state`).

`Buffer`, `LogFile`, `LogStream`, `Date` and the like are sequential; tests reach
them. `SignalSlot` rests on the reference counts of `shared_ptr`. The rest of the
repository, by far the larger part of its lines, is vendored libraries (JSON,
LuaJIT, cereal, Boost.Multiprecision, fmt), textbook examples, solutions to
exercises and benchmarks: programs without a state that two actors share.

## Plan

What could be added: `SignalSlot`, and `Buffer` against a queue of bytes as a pure
module.
