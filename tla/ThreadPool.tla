------------------------------ MODULE ThreadPool ------------------------------
(***************************************************************************)
(* The thread pool of one process (src/src/threadpool.cpp and              *)
(* threadpackage.cpp): workers, each with an active thread and with        *)
(* threads that are paused in edatWait, wait to go on, or are spare; a     *)
(* queue of tasks; and, without a progress thread, the idle worker that    *)
(* polls.  Every acquisition of a mutex while another one is held is a     *)
(* step of its own.                                                        *)
(*                                                                         *)
(* A thread of the pool is the number of its ThreadPackage.  Main is the   *)
(* thread of the program, Progress the progress thread.  A wait is named   *)
(* by the thread that waits: this is its PausedTaskDescriptor.             *)
(***************************************************************************)
EXTENDS Integers, Sequences, FiniteSets

CONSTANTS
  Settings,     \* configurations, one of which a behaviour has
  MaxTasks,     \* bound: tasks handed to the pool
  MaxWaits      \* bound: calls of edatWait that have to wait

Main == -1
Progress == -2
Nobody == -3

\* workers: EDAT_NUM_WORKERS; mainIsWorker: EDAT_MAIN_THREAD_WORKER;
\* progressThread: EDAT_PROGRESS_THREAD; report: EDAT_REPORT_WORKER_MAPPING;
\* restarts: how often the program calls edatRestart.
ASSUME SettingsAssumption ==
  Settings \subseteq [workers : Nat \ {0}, mainIsWorker : BOOLEAN, progressThread : BOOLEAN,
                      report : BOOLEAN, restarts : Nat]
\* There is a configuration that needs most threads.
ASSUME NeededAssumption ==
  LET needed(s) == s.workers + s.restarts IN
  \E s \in Settings : \A u \in Settings : needed(u) <= needed(s)
ASSUME BoundsAssumption == MaxTasks \in Nat /\ MaxWaits \in Nat

VARIABLES
  settings,
  workers,        \* WorkerThread and threadBusy of each worker
  next_suggested_idle_thread, threadQueue,
  pausedTasksToWorkers, pausedMainThreadDescriptor,
  pollingProgressThread, restartAnotherPoller,
  packages,       \* ThreadPackage of each thread: completed, abort_thread, worker
  owner,          \* of each mutex
  pc, call,       \* per thread: where it is, and the frame of its call
  task,           \* per thread: the task it runs, or NoTask
  \* history, and counters of the bounds
  begun,          \* per task handed to the pool: how often it was begun
  due,            \* waits whose events have not all come
  finished,       \* a poll found the process finished, and polling has ended
  mainThread,     \* whether edatFinalise has attached it, and whether it is woken
  waits, restarts

NoTask == 0
NoWorker == -1

number_of_workers == settings.workers
Workers == 0 .. number_of_workers - 1
progressPollIdleThread == ~settings.progressThread
handed == Len(begun)

\* Threads of the pool, created or not: one for each worker, one for each
\* wait, and one each time the main thread goes to sleep.
Needed(s) == s.workers + s.restarts + MaxWaits
Threads == 0 .. CHOOSE n \in {Needed(s) : s \in Settings} : \A s \in Settings : Needed(s) <= n
All == Threads \union {Main, Progress}

pollers == <<pollingProgressThread, restartAnotherPoller>>
paused == <<pausedTasksToWorkers, pausedMainThreadDescriptor>>
queue == <<next_suggested_idle_thread, threadQueue>>
life == <<finished, mainThread, restarts>>
history == <<begun, due, waits>>
vars == <<settings, workers, queue, paused, pollers, packages, owner, pc, call, task, life, history>>

\* Mutexes.  pollingProgressThreadMutex and those of the packages are only
\* held for a moment by a thread that takes no other one; Scheduler is
\* taskAndEvent_mutex.
Scheduler == -1
start == -2
progress == -3
pausedTasks == -4
pausedAndWaiting(w) == w
Mutexes == {Scheduler, start, progress, pausedTasks} \union {pausedAndWaiting(w) : w \in Workers}

Free(m) == owner[m] = Nobody
Lock(m, a) == owner' = [owner EXCEPT ![m] = a]
Unlock(ms) == owner' = [m \in DOMAIN owner |-> IF m \in ms THEN Nobody ELSE owner[m]]

At(a, label) == pc[a] = label /\ \A b \in All : pc[b] # "error"   \* raiseError ends the process
Goto(a, label) == pc' = [pc EXCEPT ![a] = label]
Return(a) == Goto(a, call[a].back)

\* A thread a calls a function that starts at label with an argument.
Call(a, label, arg, back) ==
  /\ Goto(a, label)
  /\ call' = [call EXCEPT ![a] = [arg |-> arg, worker |-> NoWorker, back |-> back]]

-----------------------------------------------------------------------------
(* Threads                                                                 *)

newWorkerThread(busy, active) ==
  [threadBusy |-> busy, activeThread |-> active, pausedThreads |-> {},
   waitingThreads |-> <<>>, idleThreads |-> <<>>, callFunction |-> FALSE, data |-> NoTask]

newPackage(w) == [worker |-> w, completed |-> FALSE, abort_thread |-> FALSE]
firstThreads == {w \in 0 .. settings.workers - 1 : w > 0 \/ ~settings.mainIsWorker}

resume(p) == packages' = [packages EXCEPT ![p].completed = TRUE]

\* The next thread to create.
NextThread == CHOOSE t \in Threads :
  /\ packages[t].worker = NoWorker
  /\ \A u \in Threads : u < t => packages[u].worker # NoWorker

\* After the constructor.  To report its core (which changes nothing here)
\* each worker is woken like one that has a task.
Init ==
  /\ settings \in Settings
  /\ workers = [w \in Workers |-> IF w \in firstThreads THEN newWorkerThread(settings.report, w)
                                                       ELSE newWorkerThread(TRUE, Main)]
  /\ next_suggested_idle_thread = 0
  /\ threadQueue = <<>>
  /\ pausedTasksToWorkers = [a \in All |-> NoWorker]
  /\ pausedMainThreadDescriptor = FALSE
  /\ pollingProgressThread = NoWorker
  /\ restartAnotherPoller = FALSE
  /\ packages = [a \in All |->
                   IF a \in firstThreads THEN [newPackage(a) EXCEPT !.completed = settings.report]
                                         ELSE newPackage(NoWorker)]
  /\ owner = [m \in Mutexes |-> Nobody]
  /\ pc = [a \in All |-> CASE a = Main -> "init"
                           [] a = Progress -> IF settings.progressThread THEN "poll" ELSE "gone"
                           [] OTHER -> "asleep"]
  /\ call = [a \in All |-> [arg |-> NoTask, worker |-> NoWorker, back |-> "asleep"]]
  /\ task = [a \in All |-> NoTask]
  /\ begun = <<>>
  /\ due = {}
  /\ finished = FALSE
  /\ mainThread = [attached |-> FALSE, completed |-> FALSE]
  /\ waits = 0
  /\ restarts = 0

-----------------------------------------------------------------------------
(* Handing a task to the pool                                              *)

\* Mistake: the suggested worker is taken, idle or not.
get_index_of_suggested_thread == next_suggested_idle_thread

\* The search does not wrap around.  The worker that polls comes last.
get_index_of_idle_thread ==
  LET idle == {w \in next_suggested_idle_thread .. number_of_workers - 1 : ~workers[w].threadBusy}
      first == IF progressPollIdleThread THEN idle \ {pollingProgressThread} ELSE idle
  IN  CASE first # {} -> CHOOSE w \in first : \A v \in first : w <= v
        [] first = {} /\ idle # {} -> pollingProgressThread
        [] OTHER -> NoWorker

\* Mistake: the search starts behind the last worker.
SuggestBehind(w) == next_suggested_idle_thread' = w + 1

SuggestAfter(w) == next_suggested_idle_thread' = (w + 1) % number_of_workers

startThread(a) ==
  /\ At(a, "start") /\ Free(start)
  /\ LET w == get_index_of_idle_thread
         k == call[a].arg IN
     \/ /\ threadQueue = <<>> /\ w # NoWorker
        /\ workers' = [workers EXCEPT ![w].threadBusy = TRUE]
        /\ SuggestAfter(w)
        /\ call' = [call EXCEPT ![a].worker = w]
        /\ Goto(a, "setCallFunction")
        /\ UNCHANGED threadQueue
     \/ /\ threadQueue # <<>> \/ w = NoWorker
        /\ threadQueue' = Append(threadQueue, k)
        /\ IF threadQueue = <<>> THEN SuggestAfter(NoWorker) ELSE UNCHANGED next_suggested_idle_thread
        /\ Return(a)
        /\ UNCHANGED <<workers, call>>
  /\ UNCHANGED <<settings, paused, pollers, packages, owner, task, life, history>>

\* The command of a worker is written without a mutex.
Write(a, here, command, next) ==
  /\ At(a, here)
  /\ workers' = [workers EXCEPT ![call[a].worker] = command]
  /\ Goto(a, next)
  /\ UNCHANGED <<settings, queue, paused, pollers, packages, owner, call, task, life, history>>

Of(a) == workers[call[a].worker]
setCallFunction(a) == Write(a, "setCallFunction", [Of(a) EXCEPT !.callFunction = TRUE], "setData")
setData(a) == Write(a, "setData", [Of(a) EXCEPT !.data = call[a].arg], "resumeActive")

resumeActive(a) ==
  /\ At(a, "resumeActive")
  /\ resume(workers[call[a].worker].activeThread)
  /\ Return(a)
  /\ UNCHANGED <<settings, workers, queue, paused, pollers, owner, call, task, life, history>>

\* The mutex is held until no thread polls.
launchThreadToPollForProgressIfPossible(a) ==
  /\ At(a, "launch") /\ Free(start)
  /\ LET w == get_index_of_idle_thread IN
     /\ SuggestAfter(w)
     /\ IF w = NoWorker
          THEN Return(a) /\ UNCHANGED <<owner, call>>
          ELSE /\ Lock(start, a)
               /\ call' = [call EXCEPT ![a].worker = w]
               /\ Goto(a, "awaitPoller")
  /\ UNCHANGED <<settings, workers, threadQueue, paused, pollers, packages, task, life, history>>

awaitPoller(a) ==
  /\ At(a, "awaitPoller") /\ Free(progress)
  /\ workers' = [workers EXCEPT ![call[a].worker].threadBusy = TRUE]
  /\ Unlock({start})
  /\ Goto(a, "clearCallFunction")
  /\ UNCHANGED <<settings, queue, paused, pollers, packages, call, task, life, history>>

clearCallFunction(a) ==
  Write(a, "clearCallFunction", [Of(a) EXCEPT !.callFunction = FALSE], "resumeActive")

-----------------------------------------------------------------------------
(* Waiting                                                                 *)

findIndexFromThreadId(a) ==
  IF \E w \in Workers : workers[w].activeThread = a
    THEN CHOOSE w \in Workers : workers[w].activeThread = a
    ELSE NoWorker

\* pauseThread, called with the mutex of the scheduler.
pauseThread(a) ==
  /\ At(a, "pause") /\ Free(start)
  /\ LET w == findIndexFromThreadId(a) IN
     \/ /\ w # NoWorker
        /\ Lock(start, a)
        /\ call' = [call EXCEPT ![a].worker = w]
        /\ Goto(a, "pauseActive")
        /\ UNCHANGED <<pausedMainThreadDescriptor, due>>
     \/ /\ w = NoWorker /\ a = Main
        /\ pausedMainThreadDescriptor' = TRUE
        /\ due' = due \union {a}
        /\ Unlock({Scheduler})
        /\ Goto(a, "paused")
        /\ UNCHANGED call
     \/ /\ w = NoWorker /\ a # Main   \* raiseError
        /\ Goto(a, "error")
        /\ UNCHANGED <<pausedMainThreadDescriptor, due, owner, call>>
  /\ UNCHANGED <<settings, workers, queue, pausedTasksToWorkers, pollers, packages, task,
                 life, begun, waits>>

\* Mistake: the thread is not entered in pausedThreads.
TakenOverUnseen(w, a, b) ==
  [workers EXCEPT ![w].threadBusy = FALSE, ![w].activeThread = b,
                  ![w].idleThreads = IF @ = <<>> THEN @ ELSE Tail(@)]

\* A new or a spare thread b takes over the worker from a, and is resumed.
TakenOver(w, a, b) ==
  [workers EXCEPT ![w].pausedThreads = @ \union {a}, ![w].threadBusy = FALSE, ![w].activeThread = b,
                  ![w].idleThreads = IF @ = <<>> THEN @ ELSE Tail(@)]

pauseActive(a) ==
  LET w == call[a].worker
      spare == workers[w].idleThreads IN
  /\ At(a, "pauseActive") /\ Free(pausedAndWaiting(w))
  /\ Lock(pausedAndWaiting(w), a)
  /\ LET b == IF spare = <<>> THEN NextThread ELSE Head(spare) IN
     /\ workers' = TakenOver(w, a, b)
     /\ packages' = [packages EXCEPT ![b].worker = w, ![b].completed = TRUE]
  /\ Goto(a, "pauseMap")
  /\ UNCHANGED <<settings, queue, paused, pollers, call, task, life, history>>

\* The event that ends the wait can come once the scheduler's mutex is free.
pauseMap(a) ==
  /\ At(a, "pauseMap") /\ Free(pausedTasks)
  /\ pausedTasksToWorkers' = [pausedTasksToWorkers EXCEPT ![a] = call[a].worker]
  /\ Unlock({Scheduler, start, pausedAndWaiting(call[a].worker)})
  /\ due' = due \union {a}
  /\ Goto(a, "paused")
  /\ UNCHANGED <<settings, workers, queue, pausedMainThreadDescriptor, pollers, packages, call, task,
                 life, begun, waits>>

\* ThreadPackage::pause, when it returns.
pauseReturns(a) ==
  /\ packages[a].completed
  /\ packages' = [packages EXCEPT ![a].completed = FALSE]

waitReturns(a) ==
  /\ At(a, "paused") /\ pauseReturns(a)
  /\ Return(a)
  /\ UNCHANGED <<settings, workers, queue, paused, pollers, owner, call, task, life, history>>

markThreadResume(a) ==
  LET d == call[a].arg
      w == pausedTasksToWorkers[d] IN
  /\ At(a, "mark") /\ Free(pausedTasks)
  /\ \/ /\ w # NoWorker
        /\ Lock(pausedTasks, a)
        /\ pausedTasksToWorkers' = [pausedTasksToWorkers EXCEPT ![d] = NoWorker]
        /\ call' = [call EXCEPT ![a].worker = w]
        /\ Goto(a, "markWaiting")
        /\ UNCHANGED <<pausedMainThreadDescriptor, packages>>
     \/ /\ w = NoWorker /\ pausedMainThreadDescriptor /\ d = Main
        /\ pausedMainThreadDescriptor' = FALSE
        /\ resume(Main)
        /\ Return(a)
        /\ UNCHANGED <<pausedTasksToWorkers, owner, call>>
     \/ /\ w = NoWorker /\ ~(pausedMainThreadDescriptor /\ d = Main)   \* raiseError
        /\ Goto(a, "error")
        /\ UNCHANGED <<paused, packages, owner, call>>
  /\ UNCHANGED <<settings, workers, queue, pollers, task, life, history>>

markWaiting(a) ==
  LET d == call[a].arg
      w == call[a].worker IN
  /\ At(a, "markWaiting") /\ Free(pausedAndWaiting(w))
  /\ IF d \in workers[w].pausedThreads
       THEN /\ workers' = [workers EXCEPT ![w].pausedThreads = @ \ {d},
                                          ![w].waitingThreads = Append(@, d)]
            /\ Lock(pausedAndWaiting(w), a)
            /\ Goto(a, "markBusy")
       ELSE Goto(a, "error") /\ UNCHANGED <<workers, owner>>
  /\ UNCHANGED <<settings, queue, paused, pollers, packages, call, task, life, history>>

\* Mistake: no worker is woken but the one that polls.
WakesPoller(w) == pollingProgressThread = w

\* An idle worker is woken: it will find the thread that waits to go on.
Wakes(w) == ~workers[w].threadBusy

markBusy(a) ==
  LET w == call[a].worker IN
  /\ At(a, "markBusy") /\ Free(start)
  /\ IF Wakes(w)
       THEN /\ workers' = [workers EXCEPT ![w].threadBusy = TRUE, ![w].callFunction = FALSE]
            /\ resume(workers[w].activeThread)
       ELSE UNCHANGED <<workers, packages>>
  /\ Goto(a, "markPoller")
  /\ UNCHANGED <<settings, queue, paused, pollers, owner, call, task, life, history>>

markPoller(a) ==
  LET w == call[a].worker IN
  /\ At(a, "markPoller")
  /\ restartAnotherPoller' =
       (restartAnotherPoller \/ (progressPollIdleThread /\ pollingProgressThread = w))
  /\ Unlock({pausedTasks, pausedAndWaiting(w)})
  /\ Return(a)
  /\ UNCHANGED <<settings, workers, queue, paused, pollingProgressThread, packages, call, task,
                 life, history>>

-----------------------------------------------------------------------------
(* threadEntryProcedure                                                    *)

Worker(t) == packages[t].worker

wake(t) ==
  /\ At(t, "asleep") /\ pauseReturns(t)
  /\ Goto(t, IF packages[t].abort_thread THEN "gone" ELSE "command")
  /\ UNCHANGED <<settings, workers, queue, paused, pollers, owner, call, task, life, history>>

Begin(t, k) ==
  /\ task' = [task EXCEPT ![t] = k]
  /\ begun' = [begun EXCEPT ![k] = @ + 1]
  /\ Goto(t, "task")

issueFunctionCall(t) ==
  LET w == Worker(t) IN
  /\ At(t, "command")
  /\ IF workers[w].callFunction
       THEN /\ workers' = [workers EXCEPT ![w].callFunction = FALSE]
            /\ Begin(t, workers[w].data)
       ELSE Goto(t, "loop") /\ UNCHANGED <<workers, task, begun>>
  /\ UNCHANGED <<settings, queue, paused, pollers, packages, owner, call, life, due, waits>>

\* Mistake: the task stays in the queue.
PoppedNot == threadQueue
Popped == Tail(threadQueue)

takeFromQueue(t) ==
  /\ At(t, "loop") /\ Free(start) /\ threadQueue # <<>>
  /\ threadQueue' = Popped
  /\ Begin(t, Head(threadQueue))
  /\ UNCHANGED <<settings, workers, next_suggested_idle_thread, paused, pollers, packages, owner, call,
                 life, due, waits>>

lookForWaiting(t) ==
  /\ At(t, "loop") /\ Free(start) /\ threadQueue = <<>>
  /\ Lock(start, t)
  /\ Goto(t, "look")
  /\ UNCHANGED <<settings, workers, queue, paused, pollers, packages, call, task, life, history>>

\* A thread that waits to go on gets the worker, this one becomes a spare.
handOver(t) ==
  LET w == Worker(t) IN
  /\ At(t, "look") /\ Free(pausedAndWaiting(w)) /\ workers[w].waitingThreads # <<>>
  /\ workers' = [workers EXCEPT ![w].activeThread = Head(workers[w].waitingThreads),
                                ![w].waitingThreads = Tail(@),
                                ![w].idleThreads = Append(@, t)]
  /\ Unlock({start})
  /\ Goto(t, "handOver")
  /\ UNCHANGED <<settings, queue, paused, pollers, packages, call, task, life, history>>

Spare == "spare"

resumeWaiting(t) ==
  /\ At(t, "handOver")
  /\ resume(workers[Worker(t)].activeThread)
  /\ Goto(t, Spare)
  /\ UNCHANGED <<settings, workers, queue, paused, pollers, owner, call, task, life, history>>

reactivated(t) ==
  /\ At(t, "spare") /\ pauseReturns(t)
  /\ Goto(t, "loop")
  /\ UNCHANGED <<settings, workers, queue, paused, pollers, owner, call, task, life, history>>

goIdle(t) ==
  LET w == Worker(t) IN
  /\ At(t, "look") /\ Free(pausedAndWaiting(w)) /\ workers[w].waitingThreads = <<>>
  /\ workers' = [workers EXCEPT ![w].threadBusy = FALSE]
  /\ Unlock({start})
  /\ Goto(t, "idle")
  /\ UNCHANGED <<settings, queue, paused, pollers, packages, call, task, life, history>>

\* An idle worker polls if no other one does.  Messaging starts with setMessaging.
\* progressMutex is taken and pollingProgressThread written in one step (the code
\* writes it under its own mutex just after).
startPolling(t) ==
  /\ At(t, "idle")
  /\ IF progressPollIdleThread /\ pc[Main] # "init" /\ Free(progress)
       THEN /\ Lock(progress, t)
            /\ pollingProgressThread' = Worker(t)
            /\ Goto(t, "poll")
       ELSE Goto(t, "asleep") /\ UNCHANGED <<owner, pollingProgressThread>>
  /\ UNCHANGED <<settings, workers, queue, paused, restartAnotherPoller, packages, call, task,
                 life, history>>

\* Mistake: the worker goes on polling when it has been given a task.
PollsOn(t) == "poll"
GoesOn(t) == IF workers[Worker(t)].threadBusy THEN "stopPolling" ELSE "poll"

\* Between polls it looks whether it has been given a task, unless another
\* thread has the mutex; it does not go without that look for ever.
checkBusy(t) ==
  /\ At(t, "polled") \/ At(t, "pollLock")
  /\ \/ /\ Free(start)
        /\ Goto(t, GoesOn(t))
     \/ /\ ~Free(start) /\ At(t, "polled")
        /\ Goto(t, "poll") \/ Goto(t, "pollLock")
  /\ UNCHANGED <<settings, workers, queue, paused, pollers, packages, owner, call, task, life, history>>

stopPolling(t) ==
  /\ At(t, "stopPolling")
  /\ pollingProgressThread' = NoWorker
  /\ restartAnotherPoller' = FALSE
  /\ Unlock({progress})
  /\ IF restartAnotherPoller
       THEN Call(t, "launch", NoTask, "asleep")
       ELSE Goto(t, "asleep") /\ UNCHANGED call
  /\ UNCHANGED <<settings, workers, queue, paused, packages, task, life, history>>

-----------------------------------------------------------------------------
(* Callers of the pool: tasks and the main thread, polls, edat.cpp         *)

\* A task becomes ready.
submit(a, back) ==
  /\ Free(Scheduler) /\ handed < MaxTasks
  /\ begun' = Append(begun, 0)
  /\ Call(a, "start", handed + 1, back)
  /\ UNCHANGED <<settings, workers, queue, paused, pollers, packages, owner, task, life, due, waits>>

\* The last event of a wait comes.
fire(a, back) ==
  /\ Free(Scheduler)
  /\ \E d \in due : due' = due \ {d} /\ Call(a, "mark", d, back)
  /\ UNCHANGED <<settings, workers, queue, paused, pollers, packages, owner, task, life, begun, waits>>

edatWait(a) ==
  /\ waits < MaxWaits /\ waits' = waits + 1
  /\ Free(Scheduler) /\ Lock(Scheduler, a)
  /\ Call(a, "pause", NoTask, "task")
  /\ UNCHANGED <<settings, workers, queue, paused, pollers, packages, task, life, begun, due>>

taskEnds(a) ==
  /\ task' = [task EXCEPT ![a] = NoTask]
  /\ Goto(a, "loop")
  /\ UNCHANGED <<settings, workers, queue, paused, pollers, packages, owner, call, life, history>>

setMessaging ==
  /\ At(Main, "init")
  /\ IF progressPollIdleThread
       THEN Call(Main, "launch", NoTask, "task")
       ELSE Goto(Main, "task") /\ UNCHANGED call
  /\ UNCHANGED <<settings, workers, queue, paused, pollers, packages, owner, task, life, history>>

\* edatFinalise or edatPauseMainThread.
attachMainThread ==
  /\ mainThread' = [attached |-> TRUE, completed |-> FALSE]
  /\ Goto(Main, "notify")
  /\ UNCHANGED <<settings, workers, queue, paused, pollers, packages, owner, call, task, finished,
                 restarts, history>>

\* User code, on the main thread or in a task.
UserCode(a) ==
  /\ At(a, "task")
  /\ \/ submit(a, "task") \/ fire(a, "task") \/ edatWait(a)
     \/ IF a = Main THEN attachMainThread ELSE taskEnds(a)

\* Mistake: the worker of the main thread is still counted as busy.
LeftBusy == [workers EXCEPT ![0].activeThread = NextThread]

\* The worker of the main thread gets a thread that is not resumed yet.
LeftToThread == [workers EXCEPT ![0].threadBusy = FALSE, ![0].activeThread = NextThread]

\* Mistake: whatever the number of workers.
LaunchesAlways == progressPollIdleThread
LaunchesPoller == number_of_workers = 1 /\ progressPollIdleThread

notifyMainThreadIsSleeping ==
  /\ At(Main, "notify")
  /\ \/ /\ settings.mainIsWorker /\ Free(start)
        /\ workers' = LeftToThread
        /\ packages' = [packages EXCEPT ![NextThread] = newPackage(0)]
     \/ ~settings.mainIsWorker /\ UNCHANGED <<workers, packages>>
  /\ IF LaunchesPoller
       THEN Call(Main, "launch", NoTask, "sleep")
       ELSE Goto(Main, "sleep") /\ UNCHANGED call
  /\ UNCHANGED <<settings, queue, paused, pollers, owner, task, life, history>>

mainThreadWoken ==
  /\ At(Main, "sleep") /\ mainThread.completed
  /\ Goto(Main, "finalised")
  /\ UNCHANGED <<settings, workers, queue, paused, pollers, packages, owner, call, task, life, history>>

\* edatRestart: first polling ...
edatRestart ==
  /\ At(Main, "finalised") /\ restarts < settings.restarts /\ restarts' = restarts + 1
  /\ finished' = FALSE
  /\ pc' = [pc EXCEPT ![Main] = "reset",
                      ![Progress] = IF settings.progressThread THEN "poll" ELSE "gone"]
  /\ UNCHANGED <<settings, workers, queue, paused, pollers, packages, owner, call, task,
                 mainThread, history>>

\* ... then the worker of the main thread.
resetPolling ==
  /\ At(Main, "reset")
  /\ \/ /\ settings.mainIsWorker /\ Free(start)
        /\ LET t == workers[0].activeThread IN
           packages' = [packages EXCEPT ![t].abort_thread = TRUE, ![t].completed = TRUE,
                                        ![Main] = newPackage(NoWorker)]
        /\ workers' = [workers EXCEPT ![0].activeThread = Main, ![0].threadBusy = TRUE]
     \/ ~settings.mainIsWorker /\ UNCHANGED <<workers, packages>>
  /\ IF progressPollIdleThread
       THEN Call(Main, "launch", NoTask, "task")
       ELSE Goto(Main, "task") /\ UNCHANGED call
  /\ UNCHANGED <<settings, queue, paused, pollers, owner, task, life, history>>

\* Tasks are registered once edatInit has returned.
InitReturned ==
  \/ handed > 0 \/ mainThread.attached
  \/ pc[Main] \in {"task", "start", "pause", "pauseActive", "pauseMap", "paused"}

Polled(a) == IF a = Progress THEN "poll" ELSE "polled"

\* A poll receives an event that makes a task ready, or ends a wait, ...
pollDelivers(a) ==
  /\ At(a, "poll") /\ InitReturned /\ ~finished
  /\ submit(a, Polled(a)) \/ fire(a, Polled(a))

\* ... or nothing, ...
pollReturns(t) ==
  /\ At(t, "poll")
  /\ Goto(t, "polled")
  /\ UNCHANGED <<settings, workers, queue, paused, pollers, packages, owner, call, task, life, history>>

\* ... or tests whether the process is finished, with both mutexes.
checkForLocalTermination(a) ==
  /\ At(a, "poll") /\ mainThread.attached
  /\ Free(Scheduler) /\ Lock(Scheduler, a)
  /\ Goto(a, "lockPool")
  /\ UNCHANGED <<settings, workers, queue, paused, pollers, packages, call, task, life, history>>

lockMutexForFinalisationTest(a) ==
  /\ At(a, "lockPool")
  /\ Free(start) /\ Lock(start, a)
  /\ Goto(a, "test")
  /\ UNCHANGED <<settings, workers, queue, paused, pollers, packages, call, task, life, history>>

\* The workers it looks at are those up to the first that is not idle.
\* Mistakes: only running tasks count; only waits count.
IdleWithWaits(w) == ~workers[w].threadBusy
IdleWithTask(w) == workers[w].pausedThreads = {} /\ workers[w].waitingThreads = <<>>

Idle(w) == ~workers[w].threadBusy /\ workers[w].pausedThreads = {} /\ workers[w].waitingThreads = <<>>
LooksAt == {w \in Workers : ~workers[w].threadBusy /\ \A v \in Workers : v < w => Idle(v)}

isThreadPoolFinished(a) ==
  /\ At(a, "test")
  /\ \A w \in LooksAt : Free(pausedAndWaiting(w))
  /\ Unlock({Scheduler, start})
  /\ IF (\A w \in Workers : Idle(w)) /\ threadQueue = <<>>
       THEN /\ finished' = TRUE
            /\ mainThread' = [mainThread EXCEPT !.completed = TRUE]
            /\ Goto(a, IF a = Progress THEN "gone" ELSE "stopPolling")
       ELSE Goto(a, Polled(a)) /\ UNCHANGED <<finished, mainThread>>
  /\ UNCHANGED <<settings, workers, queue, paused, pollers, packages, call, task, restarts, history>>

Entry(t) ==
  \/ wake(t) \/ issueFunctionCall(t) \/ takeFromQueue(t) \/ lookForWaiting(t) \/ handOver(t)
  \/ resumeWaiting(t) \/ reactivated(t) \/ goIdle(t) \/ startPolling(t)
  \/ pollReturns(t) \/ checkBusy(t) \/ stopPolling(t)

Steps(a) ==
  \/ startThread(a) \/ setCallFunction(a) \/ setData(a) \/ resumeActive(a)
  \/ launchThreadToPollForProgressIfPossible(a) \/ awaitPoller(a) \/ clearCallFunction(a)
  \/ pauseThread(a) \/ pauseActive(a) \/ pauseMap(a) \/ waitReturns(a)
  \/ markThreadResume(a) \/ markWaiting(a) \/ markBusy(a) \/ markPoller(a)
  \/ lockMutexForFinalisationTest(a) \/ isThreadPoolFinished(a)

MainSteps ==
  \/ setMessaging \/ notifyMainThreadIsSleeping \/ mainThreadWoken \/ resetPolling

\* The main thread has left edatFinalise for good.
Stopped == pc[Main] = "finalised" /\ restarts = settings.restarts /\ UNCHANGED vars

Next ==
  \/ \E a \in All : Steps(a) \/ UserCode(a) \/ pollDelivers(a) \/ checkForLocalTermination(a)
  \/ \E t \in Threads : Entry(t)
  \/ MainSteps \/ edatRestart \/ Stopped

Spec == Init /\ [][Next]_vars

\* What a thread does once it is awake, unless it waits for a mutex.
Proceeds(a) ==
  \/ Steps(a)
  \/ a \in Threads /\ Entry(a)
  \/ a = Main /\ MainSteps

WaitsForStart(a) ==
  pc[a] \in {"start", "launch", "pause", "markBusy", "loop", "notify", "reset", "lockPool"}

\* Threads go on, and get thread_start_mutex although the thread that polls
\* takes it again and again; a poll tests for termination now and then; tasks
\* end, and the main thread finalises.
Fairness ==
  /\ \A a \in All : WF_vars(Proceeds(a))
  /\ \A a \in All : SF_vars(WaitsForStart(a) /\ Proceeds(a))
  /\ SF_vars(\E a \in All : checkForLocalTermination(a))
  /\ \A a \in All : WF_vars(At(a, "task") /\ IF a = Main THEN attachMainThread ELSE taskEnds(a))

FairSpec == Spec /\ Fairness

\* A thread that takes over a worker is resumed although the worker counts as
\* idle: it looks for work, and goes to sleep.  In calm no worker is given
\* anything before its thread has done so: it sleeps, is about to, polls, or
\* has stopped polling and looks for another worker to poll.  Nothing in the
\* code enforces this unless no task waits: a run or a theorem with calm steps
\* says what happens outside of that window, and nothing of the window.
Launches(t) ==
  pc[t] \in {"launch", "awaitPoller", "clearCallFunction", "resumeActive"} /\ call[t].back = "asleep"

Settled(w) ==
  LET t == workers[w].activeThread IN
  /\ ~packages[t].completed
  /\ pc[t] \in {"asleep", "idle"} \/ owner[progress] = t \/ Launches(t)

Calm == \A w \in Workers : ~workers[w].threadBusy /\ workers'[w].threadBusy => Settled(w)

=============================================================================
