# EDAT in TLA+

A model of [EDAT](../src/README.md), a library for event driven asynchronous
tasks over MPI. A program submits *tasks* that depend on *events*; a task runs on
a worker thread once its events have arrived; events are fired locally or to other
processes; the program ends when no task and no event is left on any process.

## 1. The system

| component | state | operations | what makes it correct |
|---|---|---|---|
| **Scheduler** (`scheduler.cpp/.h`) | registered tasks, paused tasks, stored events, a count of stored events, all under one mutex | register a task, pause a task (`edatWait`), retrieve events, remove a task, register an event or a batch of events, hand a task to the thread pool | an event is matched exactly once; nothing that waits for a stored event goes unnoticed; events come in order; the count is right |
| **Messaging** (`messaging.cpp`, `mpi_p2p_messaging.cpp`) | outstanding sends, the short term store of a batch, the state of the termination protocol | send an event, poll (receive, flush a batch, test for local termination, run the protocol) | no process terminates while anything is left anywhere; every process terminates once nothing is |
| **Thread pool** (`threadpool.cpp`, `threadpackage.cpp`) | workers, their active, paused, waiting and idle threads, a queue of tasks, four kinds of mutex | start, pause, resume, poll when idle, follow the main thread to sleep and back | every task runs once, one per worker at a time; a thread that may go on does; no deadlock; never idle by mistake |
| **Named locks** (`concurrency_ctrl.cpp`) | locks, their owners, the locks of each worker | lock, unlock, test, release and reacquire around a wait | one worker per lock; nothing held by a finished task |
| **Public interface** (`edat.cpp`) | one object of each of the above | initialise, submit, fire, wait, finalise, restart | the life cycle |
| **Configuration** (`configuration.cpp`) | settings | read the environment and the program's settings | precedence |
| contexts, metrics, helpers, bindings, examples | - | - | no behaviour of their own that the above depends on |

How they interact. User code (on the main thread and on workers) calls the
scheduler through `edat.cpp`. `edatFireEvent` calls the scheduler of the own process
directly, or sends a message. One thread at a time polls (a progress thread, or an
idle worker): it receives messages, gives the events to the scheduler, and tests
whether the process is finished. That test holds the mutexes of messaging, scheduler
and thread pool at once. The scheduler calls the thread pool to start, pause and
resume threads, after it has given up its own mutex, except for `pauseThread`, which
releases the mutex for it.

Hard behaviours, in short (`PROJECT.json` lists each at its line): the unlock between
the firing of a persistent task and the second look at the store; one logical queue
whose entries are reached through eight pieces of similar code; the wildcard
`EDAT_ANY`, which makes the order on keys no order; events in flight while all
processes look idle; answers of the termination protocol that are out of date; requests
of MPI that are posted again while one is pending; lock orders in the thread pool.

## 2. The modules

| module | models | is used by |
|---|---|---|
| `Scheduler` | `scheduler.cpp`, with the thread pool as a queue of tasks to run | `SchedulerProperties` |
| `SchedulerProperties` | what the scheduler promises | `MCScheduler`, `SchedulerProofs` |
| `MCScheduler` | programs (menus of tasks, waits and events) for TLC | its `.cfg` files |
| `SchedulerProofs` | lemmas about keys, queues, tasks, call stacks and threads that wait; theorems: types and the mutex, nothing stored is missed | `SchedulerConservation`, `SchedulerPayload` |
| `SchedulerConservation` | theorems: events are conserved, the counter is exact, an idle process has handled its events | `SchedulerOrder` |
| `SchedulerPayload` | theorems: a task is given the events it asked for, and nothing aborts | - |
| `SchedulerOrder` | theorems: persistent events stay, no task misses a stored event, events are consumed in the order in which they arrived | - |
| `Termination` | sends, polls and the termination protocol of all processes | `MCTermination`, `TerminationProofs` |
| `TerminationDetector` | abstract: processes come to rest, are woken by others, and leave when all are at rest | `Termination` (`DetectsTermination`) |
| `MCTermination` | the symmetry of workers | its `.cfg` files |
| `TerminationProofs` | theorems about `Termination`; theorem: it implements `TerminationDetector` | - |
| `ConcurrencyControl` | `concurrency_ctrl.cpp`, with the calls of user code and of the scheduler as actions | `MCConcurrencyControl`, `ConcurrencyControlProofs` |
| `LockManager` | abstract: locks have owners, tasks request, get, return and lay them aside | `ConcurrencyControl` (`ManagesLocks`) |
| `MCConcurrencyControl` | a main thread beside a worker | its `.cfg` files |
| `ConcurrencyControlProofs` | theorems about `ConcurrencyControl`; theorem: it implements `LockManager` | - |
| `ThreadPool` | `threadpool.cpp` and `threadpackage.cpp`, with the scheduler, the poll and `edat.cpp` as callers | `ThreadPoolProperties` |
| `ThreadPoolProperties` | what the pool promises | `MCThreadPool`, `ThreadPoolProofs` |
| `MCThreadPool` | settings of the pool for TLC | its `.cfg` files |
| `ThreadPoolProofs` | theorems: types; whose turn it is among the threads of a worker | `ThreadPoolTasks` |
| `ThreadPoolTasks` | theorems: where the tasks are, who may go on, what the end of polling means; pools without waits | - |

The three models of one process meet at the calls between the components. What one of them
leaves to another is a single action in it, and the other model says when that is justified:
`Scheduler` runs any task of `ready` and resumes a paused thread in one step, as `ThreadPool` does
in the end (`EveryTaskRuns`, `NoForgottenWaiter`; what the pool does otherwise is in section 3,
disagreements); `ThreadPool` lets a poll make a task ready or end a wait at any time, as `Scheduler` does; `Termination` keeps `active`, which stands for
the `isFinished` of both (`FinishedMeansHandled`, `FinishedMeansDone`).

### Scheduler

One process. The variables have the names of the members of `Scheduler`:
`registeredTasks`, `pausedTasks`, `outstandingEvents`, `outstandingEventsToHandle`,
`taskAndEvent_mutex`. `todo[t]` is the call stack of thread `t` inside the scheduler,
`ready` the tasks handed to the thread pool. `fired`, `delivered` and `removed` are
history variables.

*Actions.* An entry point is split where the code is: `registerTask` is
`RegisterTask` (lock), one `GatherStored` or `GatherMissing` per turn of its loops,
`FinishRegisterTask` (store or re-arm, unlock) and then the frames of
`readyToRunTask` (`ReadyToRunTask`) and `consumeEventsByPersistentTasks`
(`ConsumeBegin`, `ConsumeStored`, `ConsumeNext`, `ConsumeEnd`). `pauseTask` is
`PauseTask`, the same loop, `FinishPauseTask` and, when the wait was not over,
`Resumed`. `registerEvent` is `RegisterEvent` and, as often as a persistent event
finds a task, `MatchRegistered` or `MatchPaused`, then `StoreEvent`.
`registerEvents` is `RegisterEvents`, `GreedyTake`, `GreedyNext`, `FinishBatch`.
`RemoveTask` is one step. Steps within a critical section are steps of one thread:
no other thread can take the mutex in between. A loop is a sequence of steps only to
avoid recursion, and so that a step is small enough to be compared with the code.

*Maps.* A `std::map` is a total function on `Keys` where 0 or the empty queue means
"no entry". `operator<` of `DependencyKey` makes a key with `EDAT_ANY` equivalent to
every key with the same identifier, so several entries may be equivalent to the key
that is looked up; `Slot` takes the leftmost one. That is what the search of a balanced
tree returns as long as the entries are the few of one task (the library's order is not
a strict weak order, and the standard leaves the rest open).

*Programs.* `Programs` names records with the tasks, waits, retrievals and removals user code
may call, the kinds of events, which threads call, and bounds; a behaviour follows one of them
(`program`).

*What is abstracted.* Data, contexts and memory. Which worker runs a task: `RunTask`
takes any of `ready`. A paused thread is found and resumed in one step
(`MarkThreadResume`); the code releases the scheduler's mutex only when the thread can
be found (`threadpool.cpp:190`), so that the step is never taken too early.
Greedy tasks are persistent (`GreedyAssumption`): C and Fortran offer no other.
A persistent task which persistent events alone can meet is started for ever, with the mutex held; one
menu (`Endless`) has it, with a bound on the tasks that wait to be run (`FewReady`). Persistent tasks
without dependencies, which are started for ever as well, and a greedy task submitted when a persistent
event is stored, which never returns from the scheduler, are not in the menus.

### Termination

All processes. Of a process's scheduler and thread pool only `active` is left: there is
a task, an event or a busy worker. `attached` is the pointer to the main thread's
condition variable, set by `edatFinalise`; `request` follows every `MPI_Issend` through
*transit*, *arrived* (a probe sees it), *received* (the receiver has begun to receive
it, the sender's test would succeed) to *free* (`checkSendRequestsForProgress` has seen
it). `codesSent`, `pings`, `confirms` and `replies` are the four kinds of protocol
message in flight, `pc[r]` how far the thread that polls is:

    poll -> (an event)  ReceiveEvent -------------------------------> protocol
         -> (none)      NoEvent -> check -> StillActive, StillTerminated,
                                   FlushBatch    BecomeTerminated ---> protocol
    protocol, not eligable -> poll
    protocol, master: ReceiveCode*, then Ping or NoPing -> confirm or poll
    confirm:  ReceiveConfirm*, then AwaitConfirms, TryAgain -> poll, Terminate -> done
    protocol, worker: AnswerPing or NoAnswer -> reply -> TakeReply, NoReply -> poll or done

`checkForLocalTermination` is one step since it holds every mutex that protects what it
reads; so are the test for it, the drawing of the id and the send of the id, because no
step of another process can tell. A batch is flushed before the test of local
termination of the same poll or not at all (`FlushBatch` or not: the timeout is a
choice). `repliesPosted` counts the receives for the verdict of the master: a worker
posts one with each answer, and overwrites the request of the one before, which MPI
nevertheless completes first.

*External.* MPI: a message arrives some time after it was sent (`Arrive`), sends of
a single integer are buffered, and messages of one kind between two processes keep
their order. Every test for a message may fail although the message is there.

*Abstract specification.* `TerminationDetector` knows two things of the system: which processes
are `quiet` (main thread in `edatFinalise`, nothing left, no send outstanding) and which are
`over`. A quiet process is woken only by one that is not quiet, and none leaves before all are
quiet. `DetectsTermination` maps `quiet` to `Quiet` and `over` to `pc = "done"`; all steps of the
protocol are stutters but those that settle, wake or leave. It says more than the invariant
`TerminationSafe`: that a process which has left is never woken again, and that nothing but an
event of a process that is not quiet wakes one that is.

### ConcurrencyControl

One process. `locks`, `workerAcquiredLocks`, `activeLocks` and `locks_mtx` are the members
of the class; `mutex`, `acquired` and `acquiredWorker` those of `LockContext`, as functions
on the names. A caller is the id that `getCurrentWorkerId` returns. A worker whose task
waits may run another task meanwhile, on another thread and with the same id; it does so
only when both the old and the new task hold nothing, so that one caller per worker is
enough, and a task that is paused is a caller that does nothing.

*Actions.* `lock` enters `edatLock` (takes `locks_mtx`); `issueOwnLock`, `issueNewLock` and
`issueLockBlocks` are the three ways through `issueLock`; a caller that blocks gives up
`locks_mtx`, gets the mutex (`acquire`), writes the two members without protection
(`writeMember`, in either order), and takes `locks_mtx` again (`issueLockReturns`).
`pause` is `releaseCurrentWorkerLocks` in `pauseTask`, `aquireLocks` the way back, which
goes through `issueLock` once for each lock, in the order of names (`NextName`).
`unlock`, `taskEnds` and `test_lock` are one step, as they are one critical section.

*Abstract specification.* `LockManager` has the owner of each lock, the requests of each client
and what it has laid aside for a wait. In `ManagesLocks` the owner of a lock is the one whom all
the books of the code name (`Owned`).

*The programmer.* `held[c]` is a history variable: what the task of `c` has locked and not
unlocked. A task only unlocks what it holds (`edatUnlock` of anything else calls `raiseError`, by
intention). With `Ordered`, a task that holds locks takes further ones in the order of their
names; a program that does not may deadlock by itself, whatever the library does.

### ThreadPool

One process. `workers[w]` is a `WorkerThread` and its `threadBusy`; `packages[t]` a
`ThreadPackage`: the flag `completed`, which `resume` sets and `pause` waits for and clears, and
`abort_thread`. A thread of the pool is a number, `Main` is the thread of the program and
`Progress` the progress thread. `pc[a]` is where a thread is, `call[a]` the call it makes: the
task or the wait it is about, the worker chosen, and where it returns to. `begun`, `due` and
`finished` are history: how often each task was begun, the waits whose events have not come, and
whether a poll has found the process finished.

*Actions.* Every acquisition of a mutex while another one is held, and every write outside of a
mutex, is a step. `startThread` chooses a worker, `setCallFunction`, `setData` and `resumeActive`
write its command and wake it without a mutex. `pauseThread` (takes `thread_start_mutex`) goes on
to `pauseActive` (the mutex of the worker: a new or spare thread takes over) and `pauseMap` (the
mutex of the map; everything is released). `markThreadResume` (the mutex of the map) goes on to
`markWaiting` (that of the worker), `markBusy` (`thread_start_mutex`) and `markPoller`.
`threadEntryProcedure` is

    asleep --wake--> command --issueFunctionCall--> task --taskEnds--> loop
    loop: takeFromQueue -> task; lookForWaiting -> look
    look: handOver -> resumeWaiting -> spare --reactivated--> loop;  goIdle -> idle
    idle: startPolling -> poll, polled, ..., stopPolling -> asleep;  or asleep

A poll is a caller of the pool: it delivers an event that makes a task ready or ends a wait
(`pollDelivers`), or tests for termination with the mutexes of scheduler and pool
(`checkForLocalTermination`, `lockMutexForFinalisationTest`, `isThreadPoolFinished`).
`notifyMainThreadIsSleeping`, `resetPolling` and `launchThreadToPollForProgressIfPossible` follow
the main thread at `edatPauseMainThread`, `edatFinalise` and `edatRestart`.

*What is abstracted.* Which package a thread finds: a new thread reads `workers[id].activeThread`
when it starts, the model gives it its package when it is created. `getCallFunction` and
`issueFunctionCall` are one step. So is `startPolling`: the code takes `progressMutex` (496) and then
writes `pollingProgressThread` (498-499); `markThreadResume` (239) and `get_index_of_idle_thread` (387)
may read the old value in between, and then leave `restartAnotherPoller` as it is. No property that is
checked depends on it. The number of polls without the mutex before the poller insists on
it (`NUMBER_POLL_THREAD_ITERATIONS_IGNORE_THREADBUSY`) is any finite one. Other processes: one that
is finished locally ends its polling; with more of them the protocol of `Termination` comes in
between, which leaves the poller at work longer. The mapping of threads to cores, and what
`threadReportCoreIdFunction` prints.

*Calm.* When a thread takes over a worker, `pauseThread` resumes it although the worker counts as
idle (`threadpool.cpp:168`, 175). Until the new thread has looked for work and gone to sleep, the
worker can be given a task, or be woken for a thread that may go on: its thread reads a command that is
half written, or keeps a wake-up for later. Nothing in the code prevents it. `PoolEarly`, `PoolLost` and
`PoolCircle` show what follows; `RunsOnce` (the behaviour of `PoolLost`), `NoError`,
`OneTaskAtATime` (two tasks and one wait) and `WaitOver` (two tasks and two waits) fail in the same
instance, one worker and a progress thread. No passing run and no theorem of section 4 claims these for
programs with waits, except for `NoError` in calm steps.

`Calm` is a condition on steps: an idle worker becomes busy only when its active thread is `Settled`,
that is, it sleeps, is about to, polls, or has polled and looks for another worker to poll (`Launches`).
It is the action constraint of `PoolWaits`, which shows that its properties hold in all other behaviours of
its instances, and says nothing of the code in that window. What is left is how threads that wait are
registered, found, marked and handed their worker, in whichever order pause and last event come. Without
waits (`PoolWork`) nothing is left out, and every behaviour is calm (`WaitlessIsCalm`).

## 3. Runs

The passing runs check for deadlock as well, except for `PoolWaits`, in which behaviours that would
not stay calm end; `Stopped` and `AllDone` are the states in which nothing is left to do.

| run | instance | shows |
|---|---|---|
| `Transient` | 3 threads; 4 events of 3 kinds, 2 calls, 1 query, or 3 events in batches of up to 3 and 2 calls | conservation, exact count, order, no missed match, payloads, for tasks that run once, greedy tasks, waits, retrievals and removals |
| `Persistent` | 4 programs: 3 threads, 4 events of 2 kinds, 3 calls, with a task or a wait beside a persistent task (`Rivals`, `Interrupted`); 2 threads, 3 events of 2 kinds, 2 calls, 1 query, with a persistent event among transient ones (`Lasting`); 1 persistent event and a persistent task that needs no other (`Endless`) | conservation and exact count over the instances of a persistent task, whose re-arming interleaves with other calls; nothing stored is missed; a persistent event is copied and never lost; matched waits resume; calls return unless persistent events alone meet a persistent task |
| `TerminationLive` | 2 ranks, 3 sends, batches of 2 | the protocol implements `TerminationDetector` with batches, and a quiet system terminates |
| `TerminationTwo` | 3 ranks, 2 sends, workers symmetric | termination is safe, answers stay in their round |
| `Locks` | 3 workers, 2 locks, 6 calls | one holder per lock, nothing left locked, truthful tests, no refused unlock, no deadlock; the refinement of `LockManager` |
| `PoolWork` | 6 settings: 2 workers with and without main thread as worker and progress thread; 1 worker beside a progress thread, with a report of cores; 1 worker, which is the main thread's and polls, with a restart; 2 tasks, no waits | every task runs once and in the end, none is lost, no circular wait, termination overlooks nothing, `edatFinalise` returns |
| `PoolWaits` | 1 and 2 workers, with and without progress thread, 2 tasks, 2 waits, calm | threads that wait are found and not forgotten, termination overlooks none |

*Bounds.* `MaxEvents`, `MaxCalls`, `MaxQueries`, `MaxBatch`, `MaxSends`, `Handles`.
The hazards of the scheduler need a stored event, a task that takes it and one more
event or task that interferes: three calls, four events and three threads (main,
worker, poller) give every pair of critical sections in both orders, and a third one in
between. For termination two sends are enough for a message that reactivates a process
after its code was sent and for one back; the third rank is the one that confirms in
between. For named locks, six calls give each of three workers two locks, or one lock and a wait:
one that holds, one that queues and one that comes back. `FewReady`: in `Endless` at most two tasks have
been started and not yet begun, since there is no end to them; `BoundedSpec` lets a step happen only if
that remains so, and all its behaviours are behaviours of `Spec`. For the pool, `MaxTasks` and `MaxWaits`:
two tasks are one that runs and one that is queued, handed over or waits; two waits are two threads
of one worker that take turns, the second one on a thread that was a spare, or one wait each of the
main thread and a task. The theorems below hold for all values of these bounds.

*Fairness.* `Scheduler`: a thread inside the scheduler goes on (`WF` of its steps; a
`std::mutex` need not be fair, but the number of calls is finite), and the pool starts
every task. `Termination`: tasks end, main threads finalise (a program that does not has
no reason to terminate), pollers poll, messages arrive; a message that can be received
again and again is received (`SF`: each poll tests for it once, and MPI guarantees that
a test for a message that has arrived succeeds eventually), and the timeout of a batch
is eventually over at one of the tests. `ConcurrencyControl`: a call goes on (`WF` of all
steps of a caller together: no fairness of `std::mutex` is assumed, a caller may be overtaken
as long as there are calls, of which there are finitely many), tasks end, and the events of a
wait come. `ThreadPool`: threads go on, tasks end, the main thread finalises; a thread that waits
for `thread_start_mutex` gets it although a poller takes it again and again (`SF`: the code sleeps
nowhere with that mutex, and a poll holds it only for a test), and one of the polls tests for
termination (`SF`: each poll without an event does).

### Disagreements with the documentation

Five runs find what a comment or a document says violated; `PROJECT.json` quotes the lines.

| run | violates | how |
|---|---|---|
| `PoolEarly` | `FinishedMeansDone` | a spare thread finds a wake-up left over, and declares the worker idle while the task it handed the worker to runs; the process terminates |
| `PoolLost` | `NoTaskLost` | a thread that takes over a worker is awake while the worker counts as idle (168): it sees the command that `startThread` has set (366) before the data is (367), executes the task before once more, and the new one is lost |
| `PoolCircle` | `NoCircularWait` | `markThreadResume` and the worker's thread take `pausedAndWaitingMutex` and `thread_start_mutex` in opposite orders |
| `PoolAlone` | `MainThreadWakes` | one worker, which polls: `edatFinalise` waits for it with the mutex it needs to stop |
| `LocksMain` | `MutualExclusion` | the main thread, with the id -1 of a free lock's owner, locks without locking |

More disagreements were found with the same modules and have no run of their own. Of the pool:

* With one worker, the main thread as this worker and a progress thread, tasks that are queued before
  `edatFinalise` never run: the worker's new thread is created asleep (`threadpool.cpp:314-317`),
  and `startThread` wakes nobody while the queue is not empty (362).
* `edatRestart` leaves the main thread attached (`messaging.cpp:124`): with a progress thread and a
  restart the process is found finished while its main thread is in user code (`FinishedMeansDone`
  fails). With two workers, the main thread as one of them and no progress thread, the thread that
  `resetPolling` aborts may be the one that polls (a circular wait as in `PoolAlone`). With two workers
  beside the main thread and no progress thread the `launch` of `resetPolling` may wait for a poller
  that waits for `thread_start_mutex` (`NoCircularWait` fails).
* With the main thread as a worker, threads of this worker that may go on after a wait when the main
  thread leaves are forgotten: the worker is marked idle and gets a new thread that is not resumed
  (`threadpool.cpp:309-317`), whether or not threads are in `waitingThreads`; they go on only if the
  worker is given another task (`NoForgottenWaiter` fails with one worker, two waits, in a calm
  behaviour).
* With the main thread as a worker, a progress thread and a restart, polling starts before `resetPolling`
  takes the worker back: a task that an event makes ready in between is given to the thread that is then
  aborted (`NoTaskLost` fails with one worker and no waits).
* With `EDAT_REPORT_WORKER_MAPPING` and idle workers that poll, `setMessaging` may wait for ever in
  the same way.
* `get_index_of_idle_thread` does not wrap around: a task is queued although a worker before the
  suggested one is idle (against `docs/configuration.md:47`), until some worker becomes idle.
* After a poller was given a task, and before a worker goes idle, nobody polls although a worker is
  idle (against `docs/configuration.md:55`).
* `mapThreadsToCores` runs before the workers are constructed anew (`threadpool.cpp:76-79`), which
  resets `core_id`; the names of mappings are compared as pointers (`threadpool.cpp:55`).

Of the termination protocol:

* If `std::rand` returns an id again, `TerminationSafe` fails (`mpi_p2p_messaging.cpp:369`, against
  the comment at 404-405; set `RandRepeats`).
* A version of `Termination` with `edatRestart` as an action showed that a worker which has posted two
  receives takes two verdicts as one: if its tests for the verdict of a run fail until that of the
  next run has come, it waits for ever in the last.
* `examples/src/example_12.c` submits tasks after `edatPauseMainThread` without `edatRestart`;
  `edatFinalise` does not wait for them, because `edatActive` is false (`edat.cpp:135`, 98).

Of the scheduler:

* A persistent task whose dependencies are all met by stored persistent events is started for ever: the
  call that submits it, or fires the last of them, loops with the mutex held (`scheduler.cpp:242-245`
  and 289-339; `registerEvent` 425-466), against `docs/tasks.md:3`, by which such calls return at once.
  `EveryCallReturns` names this exception (`Perpetual`), and the program `Endless` of `Persistent` reaches it.
* A task with two dependencies on `EDAT_ANY` and one identifier, activated from two ranks, ends
  the process: the events are in queues of their own sources (`scheduler.cpp:537`), and both
  dependencies look into the first one (569; `NoAbort` fails, against `docs/tasks.md:8`).
* A persistent task with a dependency twice does not take all it could, because one pass takes one
  event per key and is repeated only after a task fired (`scheduler.cpp:294`; `NoMissedMatch` fails,
  against the comment at 232-235).
* After a persistent task fires, the mutex is free until `consumeEventsByPersistentTasks` takes it
  (`scheduler.cpp:444-446`, 128-130): a newer event overtakes a stored one (`NoOvertaking` fails,
  against `docs/tasks.md:59`).
* `registerEvents` re-arms a greedy task that fired without a call of
  `consumeEventsByPersistentTasks` (`scheduler.cpp:405-416`), so that an event stored before
  stays in the store although the task waits for it (`NoMissedMatch` fails with one greedy
  task on two identifiers).
* A greedy task takes a persistent event out of a batch and consumes it for good
  (`scheduler.cpp:357`, against `docs/events.md:54`; `PersistentEventsStay` fails).
* A task with the dependencies (1, a) and (`EDAT_ANY`, a) starts with two events of rank 0
  (`scheduler.cpp:567`, against `docs/tasks.md:10`; `PayloadMatchesOrder` fails), because the
  two keys compare equivalent.

But for the first, the passing runs of the scheduler leave out just these combinations: their programs use
one wildcard per task or list, beside keys that differ from it in the identifier or follow
it; `NoOvertaking` is checked without persistent tasks other than greedy ones.

## 4. Proofs

All theorems are checked by TLAPS, for every value of the constants that satisfies the assumptions
of the module: there are no bounds on ranks, threads, workers, calls, events or programs.

### Scheduler

Four modules. The assumptions are those of `Scheduler`: ranks
are natural numbers (`RanksAssumption`), the menus are menus and the poller submits nothing
(`ProgramsAssumption`), greedy tasks are persistent (`GreedyAssumption`). The theorems of the first two
modules do not restrict the
menus further: tasks with several wildcards, a dependency twice, persistent events and the
combinations left out of the runs (section 3) are included. Those of the other two are false for some
of these combinations, and their statements name what has to be avoided:

| theorem | states | assumes of the menus |
|---|---|---|
| `SchedulerProofs.Soundness` | `Spec => []Sound` | nothing |
| `SchedulerProofs.NothingMissed` | `Spec => []NoMissedTransientMatch` | nothing |
| `SchedulerConservation.NoEventLost` | `Spec => []EventConservation` | nothing |
| `SchedulerConservation.CounterExact` | `Spec => []HandleCountExact` | nothing |
| `SchedulerConservation.TypeCorrect` | `Spec => []TypeOK` | nothing |
| `SchedulerConservation.NothingUnhandled` | `Spec => []FinishedMeansHandled` | nothing |
| `SchedulerPayload.PayloadsMatch` | `Spec => []PayloadMatchesOrder` | `MenusDistinguished` |
| `SchedulerPayload.NothingAborts` | `Spec => []NoAbort` | `MenusDistinguished` |
| `SchedulerOrder.PersistentEventsKept` | `Spec => []PersistentEventsStay` | `NoGreedyBatches` |
| `SchedulerOrder.EventsInOrder` | `Spec => []NoOvertaking` | `NoPersistentTasks` |
| `SchedulerOrder.StoredEventsServed` | `Spec => []NoMissedMatch` | `NoGreedyBatches`, `PersistentTasksDistinct` |

`MenusDistinguished` is about waits and tasks that are not greedy: two of their dependencies that compare
equal are on the same key, and no dependency on `EDAT_ANY` occurs twice. A dependency on one rank may
occur twice, and different identifiers may each have a wildcard. Section 3 has what happens without it:
(`EDAT_ANY`, a) twice ends in `raiseError`, (1, a) beside (`EDAT_ANY`, a) in the wrong events. The menus
of `Transient` and `Persistent` satisfy it, but for that of `Lasting`: its task with (`EDAT_ANY`, a) before
(1, a) can be met by events of rank 1 only, and `PayloadMatchesOrder` holds there as well. `NoGreedyBatches` says that a program which fires batches has no greedy tasks (they take
persistent events and are rearmed without a look at the store, section 3); `NoPersistentTasks`, that every
task runs once (an event that arrives just after a persistent task fired overtakes stored ones, section
3); `PersistentTasksDistinct`, that no two dependencies of one persistent task compare equal (one that occurs
twice may be left with one event in the store, section 3). The menus of `Persistent`, the run which
checks `NoMissedMatch`, satisfy both of its assumptions.

*`Sound`* is what every other proof about the scheduler rests on. Next to the types (`Plain`,
`TaskLists`) it says: the store has an event only in the queue of its own key (`StoreOK`); a thread
has the frames of at most one critical section, and below them only what is done without the mutex
(`Stacks`); a thread in a critical section holds the mutex, and what a pass over the persistent tasks
still wants to take is there to be taken (`AllCritical`). The last part is why `consumeEventsByPersistentTasks`
may take the head of a queue that it looked at some steps earlier. A registered or
paused task also is a `CleanTask`: no two of its open dependencies compare equal, although with
`EDAT_ANY` many keys do, so that an event that serves one of them serves no other.

*`NothingMissed`.* The property is about the lists; the invariant `Matched` adds the task that a
call is still gathering events for (`PatientFrames`), which enters a list without a second look at the
store, and that greedy tasks are persistent: one that fires is rearmed with all its needs. The wildcard
is what makes this more than bookkeeping: an event of a key may serve the dependency on
another one, and satisfying the one must not leave the other unsatisfied (`Slot`).

*`NoEventLost`.* `Total(e)` counts where an event is: in the store, with a registered, paused or ready
task, in a frame of a call, delivered, removed. A batch is counted as the frames it will leave behind
(`Unfolded`), so that `FinishBatch` moves nothing. The invariant `Conserved` says that `Total(e)` is 1
for a transient event that was fired and 0 for any other; `Numbered` makes an event that is fired a
new one. One lemma per action shows that what leaves one place enters another, and that a
call which ends in `raiseError` is excused (`aborted`). From the count follows the one place of
`EventConservation` (`PlaceOnce`).

*`CounterExact` and `TypeCorrect`.* `Conserved` gives that an event is at most once in the store, so
that taking it takes it out of the set that `HandleCountExact` counts (`Tallied`). The counter then is
the cardinality of a finite set and never negative, which completes `TypeOK`.

*`NothingUnhandled`.* A process that votes to terminate has idle threads, but nothing says by itself
that it has no wait: `Sleeping` pairs each paused task with its own thread that sleeps in it, and
keeps the wait that is registered, and the one that ends, apart from those. With idle threads there is no
paused task, no ready task and no frame, with a counter of zero there is nothing in the store, and
`Total(e) = 1` leaves the history and the registered tasks.

*`PayloadsMatch` and `NothingAborts`.* `PayloadMatchesOrder` alone is not inductive: it sees a task when it is
ready, while what makes the payload right is decided when the events are gathered and matched. The
invariant `Payloads` says for every task on its way that its counters, its queues and its order agree
(`Balanced`): a dependency was counted for each place of the order gathered so far, the
events that arrived and the dependencies still outstanding add up to that count, and the events for a
dependency are in one queue, which no other dependency uses (`Serves`). A task without outstanding
dependencies then has, in the queue of each place, an event for it, and taking them one by one leaves enough
for the later places (`Given`, `Offers`, `Settled`), so that `generateEventsPayload` neither takes a wrong one nor
finds none. `FrameRight` says the same of the tasks in the frames of calls.

*`PersistentEventsKept`.* A persistent event is stored, or some call has still to register it
(`Lasting`, `Coming`): `registerEvent` tries it again until no task waits for it and then stores it, and
what the tasks are given are copies. Only a greedy task moves the event itself, out of a batch; that no batch
meets one is a part of the invariant (`Modest`).

*`EventsInOrder`.* `NoOvertaking` compares what is stored with what was consumed, and neither knows of the
events in between. The invariant `InTurn` says that the transient events of each queue are in the order of
their numbers (`AllRising`); that what is younger than a stored event is stored or still to be
registered, and what is younger than an event to be registered is so too (`Younger`); and that events of one
key reach the lists in order (`InLine`): a call has them in the order of their numbers (`Lined`), and no
two threads have events of one key, because remote events come through the poller and a local one is
registered in the critical section in which it was fired (`Placed`). An event that arrives is matched only
when none of its key is stored (`NoneStored`): a task that needs it would need that one as well, which
`Matched` excludes for tasks that run once. Who takes events from the store takes the oldest of a queue
(`TakenFirst`), and `Conserved` gives that the event is in no other place (`Apart`).

*`StoredEventsServed`.* What `NothingMissed` says at every instant of tasks that run once holds of persistent
tasks only when no call is under way: one that fires is rearmed with all its needs, and whatever is stored for
it stays there until `consumeEventsByPersistentTasks` comes. The invariant `Sated` says that it will: if the
store has something for a dependency of the i-th task (`Needs`), a pass over the tasks is still to begin
(`PassAhead`: the call that starts the task has its frame), or the one under way will look at the i-th task
(`PassReaches`: it has not come to it, has all that the task needs among the keys it still wants to take,
or goes round again because a task fired). A pass holds the mutex, so that there is only one (`OnePass`) and
`removeTask` shifts no task while it runs; an event is stored only if no task needs it (`StoreEventSated`), and
a task that is registered has taken what was stored for it (`Attended`, the part of `Matched` about the tasks
that are gathered, persistent ones included). A pass takes one event per key, which is all a task
can take only if it needs no key twice: `SimpleTasks` (`Simple`, `Simply`) carries this from the menus
through gathering, matching and rearming. At rest there is no pass, and nothing is left to need.

TLC checked `Sound`, `Matched`, `Tallied`, `Sleeping`, `Payloads`, `Modest`, `Lasting`, `InTurn` and `Sated` on the
instances of section 3 whose menus satisfy the assumption, before they were proved.

### Termination

`TerminationProofs` has four theorems, for every set of workers, every bound and every
period.

* `TypeCorrect`: `Spec => []TypeOK`.
* `AnswersInRounds`: `Spec => []OneAnswerPerRound`. The invariant is inductive together
  with "the master compares the lists only in a round" (`Round`); `RoundCases` shows it
  action by action.
* `Safety`: if ids do not repeat (`~RandRepeats`), `Spec => []TerminationSafe`.

The argument of `Safety`. An idle process can be woken only by an event, and an event
keeps its sender from being finished until the receiver has it. The inductive invariant
`Inductive` adds to `TypeOK`:

* `Sleep`: a process that considers itself terminated is quiet;
* `Drawn`: every id (in a message, in a list of the master) is one the process has
  drawn, so that the next one is new;
* `Round`: as above;
* `Verdict`: in a round, the system is quiet or the answer of some worker, given or
  still to be given, differs from its code (`Stale`);
* `Told`: until the system is quiet, the verdict 1 is not on its way and no process is done.

A process that is woken in a round was quiet before and is sent an event by one that is not;
that one is a worker whose answer will differ, and when it has answered so, it is too late
for it to agree. A system in which every process is quiet stays so (`AllQuietStep`). `TerminationSafe` alone is not inductive: nothing in
it relates the ids to what a process did between the code and the answer. TLC checked
`Inductive` on small instances before it was proved. Without `~RandRepeats` the theorem is
false (section 3).

`Refinement`: if ids do not repeat, `Spec => DetectsTermination`. `Inductive`
is enough for it. A step of one process leaves the quiescence of all others as it is (`OwnStep`: an
event that is received was outstanding at its sender before and is so after), as do the steps of
the protocol (`ProtocolStep`); a process at rest that is woken receives an event of one that is
not at rest (`WokenBy`); and a process leaves only when all are quiet (`LeavesQuiet`). So each step
of `Termination` is `Settle`, `Wake` or `Leave` of the detector or changes nothing that it sees
(`DetectorStep`).

### Named locks

`ConcurrencyControlProofs`, for every finite set of lock names, any workers and any number of
calls, ordered or not, as long as no caller has the id -1 (`OnlyWorkers`):

* `Exclusion`: `Spec => []MutualExclusion`.
* `NothingLeft`: `Spec => []NothingLeftLocked`.
* `TestsTruthful`: `Spec => []TestLockTruthful`.
* `NothingRefused`: `Spec => []NoError`.
* `TypeCorrect`: `Spec => []TypeOK`.
* `Refinement`: `Spec => ManagesLocks`.

All but the last follow from one inductive invariant, `Inv`, which says that the three books of the code
agree: what is booked for a worker is locked by it, marked as acquired and names it as its
owner (`Booked`); a locked mutex is booked, or its caller is about to book it (`Explained`,
`Gets`); nobody is named as an owner without the mutex (`OwnersLock`, the part that fails with
the id -1); a caller that queues for a lock does not have it (`Queues`); what the programmer
counts on is booked or still to be taken (`CountedOn`); and `activeLocks` is the number of booked
locks (`Counted`), without which a release that looks at `activeLocks` first might release
nothing. `MutualExclusion` alone is not inductive: it does not know who is on the way to a mutex.
TLC checked the invariant on the instance of `Locks` before it was proved.

For the refinement, too, `Inv` is all that is needed. Between calls, what the manager calls owned is what
is booked (`OwnedBooked`); the steps that move a lock from one book to the next, or queue for it,
change nothing that the manager sees (`BookingUnseen`, `QueueingUnseen`), a mutex is got when the
manager grants it (`Grants`), and a wait gives back all that is booked and asks for the same
again (`pauseSuspends`).

### Thread pool

`ThreadPoolProofs` and `ThreadPoolTasks`, for every set of configurations and any number of workers,
tasks and waits. The assumptions of `ThreadPool` are that settings are settings
(`SettingsAssumption`), that the bounds are numbers, and that one of the configurations needs most
threads (`NeededAssumption`, which any finite set of configurations satisfies: the set of threads is
the same for all). What else a theorem assumes stands in its statement:

| theorem | states | assumes |
|---|---|---|
| `TypeCorrect` | `Spec => []TypeOK` | nothing |
| `WaitlessRunsOnce` | `Spec => []RunsOnce` | no waits, no restarts where the main thread is a worker (`RestartsBeside`) |
| `WaitlessNoTaskLost` | `Spec => []NoTaskLost` | no waits, `RestartsBeside` |
| `CalmNoError` | `CalmSpec => []NoError` | `RestartsBeside` |
| `CalmNoForgottenWaiter` | `CalmSpec => []NoForgottenWaiter` | the main thread is not a worker |
| `CalmFinishedMeansDone` | `CalmSpec => []FinishedMeansDone` | no restarts |
| `WaitlessIsCalm` | `Spec => CalmSpec /\ []Waitless` | no waits, `RestartsBeside` |
| `WaitlessTasksDone` | `Spec => [](RunsOnce /\ NoTaskLost /\ FinishedMeansDone)` | no waits, no restarts |
| `WaitlessNoCircle` | `Spec => []NoCircularWait` | no waits, `LaunchesEarly` |

`CalmSpec` is `Spec /\ [][Calm]_vars`, the behaviours in which every step is calm (section 2); they
include waits of several threads of one worker, pollers, and a main thread that comes and goes. It is a
hypothesis that the code does not guarantee: the theorems about `CalmSpec` say that the window of section 2
is the single cause of what goes wrong, and nothing about a program that enters it. The lemmas
`CalmWaitOver`, `CalmRunsOnce`, `CalmNoTaskLost` and `CalmOneTaskAtATime` say the same of properties which
the code breaks there. `WaitlessIsCalm` turns some of them into theorems about the code. Each of
the assumptions is needed. Without `Calm`, `PoolEarly` refutes `FinishedMeansDone`, `PoolLost` refutes
`NoTaskLost`, and the other properties fail as well (section 2). Without the assumptions on restarts and on the main thread, the
behaviours in section 3 (disagreements) remain. `LaunchesEarly` says that nobody looks for a worker to poll when
another one may be polling: there is a progress thread, or no report of cores and either several workers
or one that is the main thread's, and no restart; `PoolAlone` shows the circle when there is one worker
beside the main thread, and section 3 those with a report and a restart. With waits, `PoolCircle` refutes
`NoCircularWait`.

*`TypeCorrect`* needs more than types. That `pauseActive` finds a thread that was not created
yet is counted: threads are created in order, and their number is at most that of workers, waits begun and
restarts less the waits that have yet to create theirs (`CreatedTyped`). That count is right only if a thread
in `pauseActive` has the worker it asked for, which the mutexes give: `Owners` says
of each mutex that it has an owner exactly when that thread is at one of the places between lock and
unlock (`Holds`). The conjunction, `Typed`, is kept by every step but `raiseError`, which ends the process (`Stuck`).
With `PollersOK` (who may hold `progress_polling_mutex`, and when the progress thread is gone) this is
the inductive invariant `TInv`, which holds of every behaviour, calm or not.

*Whose turn it is.* A worker has many threads and one place to take commands from, so that everything
depends on which of its threads is in control. `Shape` says: of the threads of a worker, all but the
active one sleep for a reason (spare, waiting for an event, waiting to go on, about to) and have not been
resumed (`Nonactive`); the active one is awake, at rest, or has been given its turn back, and the flag `completed`
says which (`Turns`); at most one thread writes to a worker, while its active thread is at rest and the worker
counts as busy (`Writers`, `OneWriter`, `Launchers`); at most one thread hands a worker over (`Handers`,
`OneHander`); each list of a worker
has a thread at most once and no two lists share one, so that handing the worker over resumes the
right one (`Pausing`, `Readies`, `Spares`, `Once`); and a thread whose wait is not over is registered
and among the `pausedThreads` of its worker, until the one caller that was told of its last event has
moved it (`Dues`, `Markers`, `OneMarker`, `Finders`, `Entered`). A calm step is what `Turns` needs: only a
settled thread may be woken. `NoError` is about `Finders` and `Entered`, `WaitOver` about `Dues` and
`Nonactive`.

*Where each task is.* `Placed` says that each task is in one place: in the queue, with
the thread that hands it over, in a command that has not been read, or begun (`OnePlace`,
`Begun`), and that a command that has been written has somebody on his way to read it: the active
thread is awake, or the one that wrote it is about to resume it (`Obeyed`). `RunsOnce`,
`NoTaskLost` and `OneTaskAtATime` are read off it.

*Who looks after a worker.* A thread that may go on is handed its worker by the active thread when
that looks for work. `Watched` says that while `waitingThreads` is not empty, the active thread has yet to look,
or somebody will wake it. The difficult moments are `goIdle`, where `pausedAndWaitingMutex` orders the look and
the entry in the list, and a poller that was woken while it polled.

*When polling has ended.* `isThreadPoolFinished` looks at the workers one at a time and stops at the first that is
not idle. `Closing` says that once it has succeeded there is nothing that could still wake somebody: no
thread is in a call, on its way to a task or about to launch a poller (`Ended`), polling itself began
only after the launch of `setMessaging` (`Launched`), and the main thread was attached
(`Attached`). That a worker it saw idle has no command follows from `Shape` and `Placed`.

*Without waits* no worker has paused or waiting threads and nobody marks one (`Waitless`); each step that makes a
worker busy then finds it settled, so that `Calm` is proved rather than assumed. With
`LaunchesEarly`, `Early` says that only the main thread looks for a worker to poll, and that all workers
sleep then, so that the mutex it waits for is free; the other mutexes a thread could wait for while it
holds one are never held by anybody (`WaitlessOwners`).

TLC checked the invariants on the instances of `PoolWork` and `PoolWaits` as well.

### Model-checked only

* Scheduler: each of its safety properties is proved. `NoOvertaking` is only checked for greedy tasks that
  are fed in batches (the menu `Batch` of `Transient`), which `NoPersistentTasks` excludes; where the other
  assumptions fail, there are menus for which the properties fail as well (section 3, disagreements).
* Thread pool: the properties of the run `PoolWork` in its setting with a restart, and circular waits
  where the theorem has `LaunchesEarly`. The properties hold in the one and fail with a progress thread
  or more workers.
* All liveness (`QuietTerminates`, `EveryCallReturns` of scheduler and locks, `MatchedWaitResumes`,
  `EveryTaskRuns`, `MainThreadWakes`), which needs fairness and is beyond the proof system.

## 5. What is not modelled, and the plan

Done: the models of scheduler, termination, locks and thread pool; abstract specifications of the
termination detector and the lock manager; the proofs of section 4.

Not modelled: `edatRestart` of several processes (for debugging and benchmarks only, as
`include/edat_debug.h` and `examples/src/example_12.c` have it); with it, two ranks and one event
have more than half a million states, and TLC does not finish in the time of a run.
`Configuration`: it fills a map once and looks settings up; its results are the constants of the
models. `fireASingleLocalEvent`: nothing is ever put into the queue it empties.
Not planned either: packing of messages (layout only), contexts (a table of sizes), metrics, the
bindings, the bridge to `MPI_COMM_WORLD` (a second channel with the same handling whose
senders are other programs), examples.
