------------------------- MODULE ThreadPoolProperties -------------------------
(***************************************************************************)
(* What the thread pool of one process is relied upon to do.               *)
(***************************************************************************)
EXTENDS ThreadPool

\* Where a thread may be: in a function that others call, in edatWait, in the
\* loop that polls, or elsewhere.
Calls == {"start", "setCallFunction", "setData", "resumeActive", "launch", "awaitPoller",
          "clearCallFunction", "mark", "markWaiting", "markBusy", "markPoller"}
Waiting == {"pause", "pauseActive", "pauseMap", "paused"}
Polls == {"poll", "polled", "pollLock", "lockPool", "test", "stopPolling"}
Labels ==
  Calls \union Waiting \union Polls \union
    {"init", "task", "notify", "sleep", "finalised", "reset", "asleep", "command", "loop", "look",
     "handOver", "spare", "idle", "gone", "error"}

\* The type invariant.
TypeOK ==
  /\ settings \in Settings
  /\ workers \in [Workers ->
       [threadBusy : BOOLEAN, activeThread : All, pausedThreads : SUBSET All, waitingThreads : Seq(All),
        idleThreads : Seq(Threads), callFunction : BOOLEAN, data : 0 .. MaxTasks]]
  /\ next_suggested_idle_thread \in Workers
  /\ threadQueue \in Seq(1 .. MaxTasks)
  /\ pausedTasksToWorkers \in [All -> Workers \union {NoWorker}]
  /\ pausedMainThreadDescriptor \in BOOLEAN
  /\ pollingProgressThread \in Workers \union {NoWorker}
  /\ restartAnotherPoller \in BOOLEAN
  /\ packages \in [All -> [worker : Workers \union {NoWorker}, completed : BOOLEAN,
                           abort_thread : BOOLEAN]]
  /\ owner \in [Mutexes -> All \union {Nobody}]
  /\ pc \in [All -> Labels]
  /\ call \in [All -> [arg : All \union (0 .. MaxTasks), worker : Workers \union {NoWorker},
                       back : Labels]]
  /\ task \in [All -> 0 .. MaxTasks]
  /\ begun \in Seq(Nat) /\ due \in SUBSET All /\ waits \in 0 .. MaxWaits

\* raiseError is never called: every thread that waits is found when it is to
\* go on, and every thread of a task that is to wait is that of a worker.
NoError == \A a \in All : pc[a] # "error"

\* A task handed to the pool is begun, queued, written to a worker or about to be.
Handing(a, k) == pc[a] \in {"start", "setCallFunction", "setData"} /\ call[a].arg = k
Commanded(w, k) == workers[w].callFunction /\ workers[w].data = k

\* docs/concepts.md:15: tasks are executed one to one.  A command is never
\* overwritten, cleared or missed before its task has begun.  It holds if no
\* task waits (PoolWork); if one does, it fails (PoolLost).
NoTaskLost ==
  \A k \in 1 .. handed :
    \/ begun[k] > 0
    \/ \E i \in 1 .. Len(threadQueue) : threadQueue[i] = k
    \/ \E a \in All : Handing(a, k)
    \/ \E w \in Workers : Commanded(w, k)

\* The same, in the other direction: no task is executed twice.
RunsOnce == \A k \in 1 .. handed : begun[k] <= 1

\* docs/concepts.md:70: each worker executes one task at a time, although it
\* may have several threads.  Like WaitOver it fails in the window that Calm
\* leaves out, and is not checked by a run.
Executing(t) == task[t] # NoTask /\ pc[t] \notin {"pauseMap", "paused"}

OneTaskAtATime ==
  \A t, u \in Threads : t # u /\ Executing(t) /\ Executing(u) => Worker(t) # Worker(u)

\* docs/concepts.md:15: what the test for termination reads, worker by worker,
\* is never idle by chance while a task is handed over, runs or waits, or
\* while the main thread is in user code.
FinishedMeansDone ==
  finished =>
    /\ \A k \in 1 .. handed : begun[k] > 0
    /\ \A a \in All : task[a] = NoTask /\ pc[a] \notin {"task", "paused"}

\* docs/in_task_consumption.md:6: nobody returns from edatWait because of a
\* wake-up that was meant for something else.
WaitOver == \A a \in due : pc[a] = "paused"

\* A thread that may go on after a wait is not forgotten: the active thread
\* of its worker is awake, or about to be woken.
Sleeping(t) == pc[t] \in {"asleep", "spare", "paused"} /\ ~packages[t].completed
Waking(w) ==
  \E a \in All :
    \/ /\ pc[a] \in {"setCallFunction", "setData", "clearCallFunction", "resumeActive", "markBusy"}
       /\ call[a].worker = w
    \/ pc[a] = "handOver" /\ Worker(a) = w

NoForgottenWaiter ==
  \A w \in Workers : workers[w].waitingThreads # <<>> /\ Sleeping(workers[w].activeThread) => Waking(w)

\* The mutex that a thread waits for.
NoMutex == -9
Wants(a) ==
  CASE WaitsForStart(a) \/ pc[a] = "pollLock" -> start
    [] pc[a] = "awaitPoller" -> progress
    [] pc[a] \in {"pauseMap", "mark"} -> pausedTasks
    [] pc[a] \in {"pauseActive", "markWaiting"} -> pausedAndWaiting(call[a].worker)
    [] pc[a] = "look" -> pausedAndWaiting(Worker(a))
    [] pc[a] = "test" /\ (\E w \in LooksAt : ~Free(pausedAndWaiting(w))) ->
         pausedAndWaiting(CHOOSE w \in LooksAt : ~Free(pausedAndWaiting(w)))
    [] OTHER -> NoMutex

\* Threads never wait for each other's mutexes in a circle.
NoCircularWait ==
  \A S \in (SUBSET All) \ {{}} : \E a \in S : Wants(a) = NoMutex \/ owner[Wants(a)] \notin S

\* Every task handed to the pool is executed in the end.
EveryTaskRuns == \A k \in 1 .. MaxTasks : handed >= k ~> handed >= k /\ begun[k] > 0

\* edat.cpp:99: edatFinalise sleeps, and is woken when there is nothing left.
MainThreadWakes == pc[Main] = "notify" ~> pc[Main] = "finalised"
=============================================================================
