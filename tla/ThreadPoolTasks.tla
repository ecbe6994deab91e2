---------------------------- MODULE ThreadPoolTasks ----------------------------
(***************************************************************************)
(* More proofs about ThreadPool: where the tasks are, who looks after a    *)
(* worker, what it means that polling has ended, and pools without waits.  *)
(***************************************************************************)
EXTENDS ThreadPoolProofs

-----------------------------------------------------------------------------
(* Where each task is                                                      *)

Queued(k) == InSeq(k, threadQueue)
SetsData(a, w) == pc[a] = "setData" /\ call[a].worker = w
Commands(w) == workers[w].callFunction

\* The command of a worker is complete.
Ordered(w, k) == Commanded(w, k) /\ \A a \in All : ~SetsData(a, w)

Held(k) == Queued(k) \/ (\E a \in All : Handing(a, k)) \/ \E w \in Workers : Ordered(w, k)
Working(a) == pc[a] \in Waiting \union {"task"} \/ (InCall(a) /\ call[a].back = "task")
Resumer(a, w) == pc[a] \in {"setData", "resumeActive"} /\ call[a].worker = w

\* Between the command and the task the thread of the worker is woken.
Obeyed == \A w \in Workers, t \in All : Commands(w) /\ Active(w) = t =>
  /\ Busy(w)
  /\ pc[t] = "command" \/ (Role(t) = "rest" /\ (Completed(t) \/ \E a \in All : Resumer(a, w)))
Setters == \A a \in All, w \in Workers : SetsData(a, w) => Commands(w)

\* A task is in one place at most, and in none once it has begun.
OnePlace ==
  /\ OneToOne(threadQueue)
  /\ \A k \in 0 .. MaxTasks :
       /\ \A a, b \in All : Handing(a, k) /\ Handing(b, k) => a = b
       /\ \A v, w \in Workers : Ordered(v, k) /\ Ordered(w, k) => v = w
       /\ Queued(k) => (\A a \in All : ~Handing(a, k)) /\ (\A w \in Workers : ~Ordered(w, k))
       /\ \A a \in All, w \in Workers : ~(Handing(a, k) /\ Ordered(w, k))
Begun ==
  /\ \A k \in 0 .. MaxTasks : Held(k) => k \in 1 .. handed /\ begun[k] = 0
  /\ \A k \in 1 .. handed : begun[k] = 1 \/ (begun[k] = 0 /\ Held(k))

\* A thread that has a task runs it, or waits in it.
Tasks == \A a \in All : task[a] # NoTask => a \in Threads /\ Working(a)

Placed == Obeyed /\ Setters /\ OnePlace /\ Begun /\ Tasks

\* The tasks that have been handed over are in the bounds.
LEMMA HandedFacts ==
  ASSUME Typed
  PROVE  handed \in Nat /\ handed <= MaxTasks /\ MaxTasks \in Nat /\ 1 .. handed \subseteq 0 .. MaxTasks
<1>1. handed \in Nat /\ handed <= MaxTasks /\ MaxTasks \in Nat
  BY BoundsAssumption DEF Typed, OthersTyped, handed
<1> QED
  BY <1>1

\* A task that nothing happens to stays where it is.
LEMMA PlaceStays ==
  ASSUME Typed, OnePlace, Begun, UNCHANGED <<threadQueue, begun>>, Workers' = Workers,
         \A a \in All, k \in 0 .. MaxTasks : Handing(a, k)' <=> Handing(a, k),
         \A w \in Workers, k \in 0 .. MaxTasks : Ordered(w, k)' <=> Ordered(w, k)
  PROVE  OnePlace' /\ Begun'
<1>1. \A k : Queued(k)' <=> Queued(k)
  BY DEF Queued
<1>2. \A k \in 0 .. MaxTasks : Held(k)' <=> Held(k)
  BY <1>1 DEF Held
<1>3. 1 .. handed \subseteq 0 .. MaxTasks
  BY HandedFacts
<1>4. OnePlace'
  BY <1>1 DEF OnePlace
<1>5. Begun'
  BY <1>2, <1>3 DEF Begun, handed
<1> QED
  BY <1>4, <1>5

\* What a step says in which nobody misses a command; S are the threads that move.
Minds(S) ==
  /\ \A b \in All \ S : pc'[b] = pc[b] /\ call'[b] = call[b] /\ (Completed(b) => Completed(b)')
  /\ \A b \in S : b # Progress /\ Role(b) = "rest" =>
       pc'[b] = "command" \/ (Role(b)' = "rest" /\ (Completed(b) => Completed(b)'))
  /\ \A b \in S, w \in Workers : pc[b] = "command" /\ Active(w) = b => ~Commands(w)'
  /\ \A w \in Workers : Commands(w)' /\ Commands(w) => Active(w)' = Active(w) /\ (Busy(w) => Busy(w)')
  /\ \A w \in Workers : Commands(w)' /\ ~Commands(w) => Active(w)' = Active(w) /\ Busy(w)'
  /\ \A w \in Workers, t \in All : Commands(w)' /\ ~Commands(w) /\ Active(w) = t =>
       Role(t)' = "rest" /\ \E a \in All : Resumer(a, w)'
  /\ \A b \in S, w \in Workers, t \in All : Resumer(b, w) /\ Commands(w)' /\ Active(w) = t =>
       Resumer(b, w)' \/ Completed(t)'

\* A step that only moves threads that mind their commands keeps Obeyed.
LEMMA MindsObeyed ==
  ASSUME Typed, Obeyed, settings' = settings, NEW S \in SUBSET All, Minds(S)
  PROVE  Obeyed'
<1>1. Workers' = Workers
  BY SameSettings
<1>2. SUFFICES ASSUME NEW w \in Workers, NEW t \in All, Commands(w)', Active(w)' = t
               PROVE  /\ Busy(w)'
                      /\ \/ pc'[t] = "command"
                         \/ Role(t)' = "rest" /\ (Completed(t)' \/ \E a \in All : Resumer(a, w)')
  BY <1>1 DEF Obeyed
<1>3. CASE ~Commands(w)
  BY <1>2, <1>3 DEF Minds
<1>4. CASE Commands(w)
  <2>1. Active(w) = t /\ Busy(w)' /\ t # Progress
    BY <1>2, <1>4, BelongsFacts, Names DEF Minds, Obeyed, Known
  <2>2. pc[t] = "command" \/ (Role(t) = "rest" /\ (Completed(t) \/ \E a \in All : Resumer(a, w)))
    BY <1>4, <2>1 DEF Obeyed
  <2>3. t \notin S => pc'[t] = pc[t] /\ Role(t)' = Role(t) /\ (Completed(t) => Completed(t)')
    BY DEF Minds, Role
  <2>4. CASE pc[t] = "command"
    BY <1>2, <2>1, <2>3, <2>4 DEF Minds
  <2>5. CASE Role(t) = "rest"
    <3>1. pc'[t] = "command" \/ (Role(t)' = "rest" /\ (Completed(t) => Completed(t)'))
      BY <2>1, <2>3, <2>5 DEF Minds
    <3>2. (\E a \in All : Resumer(a, w)) => Completed(t)' \/ \E a \in All : Resumer(a, w)'
      <4> SUFFICES ASSUME NEW a \in All, Resumer(a, w) PROVE Completed(t)' \/ Resumer(a, w)'
        OBVIOUS
      <4>1. a \notin S => (Resumer(a, w)' <=> Resumer(a, w))
        BY DEF Minds, Resumer
      <4> QED
        BY <1>2, <2>1, <4>1 DEF Minds
    <3>3. Role(t) = "rest" => pc[t] # "command"
      BY DEF Role, RoleOf
    <3> QED
      BY <2>1, <2>2, <2>5, <3>1, <3>2, <3>3
  <2> QED
    BY <2>2, <2>4, <2>5
<1> QED
  BY <1>3, <1>4

\* No worker is given a command, and none that has one changes its thread.
NoOrders == \A w \in Workers :
  /\ (Commands(w)' <=> Commands(w)) /\ workers'[w].data = workers[w].data
  /\ Commands(w) => Active(w)' = Active(w) /\ (Busy(w) => Busy(w)')

\* What a step says that is about no task.
Quietly(S) ==
  /\ \A b \in All \ S : pc'[b] = pc[b] /\ call'[b] = call[b] /\ (Completed(b) => Completed(b)')
  /\ UNCHANGED <<settings, threadQueue, begun>>
  /\ \A b \in All : task'[b] = task[b] \/ task'[b] = NoTask
  /\ \A b \in S :
       /\ pc[b] \notin {"start", "setCallFunction", "setData", "resumeActive", "command"}
       /\ pc'[b] \notin {"start", "setCallFunction", "setData"}
       /\ b \in Threads /\ Working(b) => Working(b)' \/ task'[b] = NoTask
       /\ b # Progress /\ Role(b) = "rest" =>
            pc'[b] = "command" \/ (Role(b)' = "rest" /\ (Completed(b) => Completed(b)'))
  /\ NoOrders

\* Such a step leaves every task where it is.
LEMMA QuietlyPlaced ==
  ASSUME Typed, Placed, NEW S \in SUBSET All, Quietly(S)
  PROVE  Placed'
<1>1. Workers' = Workers /\ settings' = settings
  BY SameSettings DEF Quietly
<1>2. /\ \A a \in All : \A k : Handing(a, k)' <=> Handing(a, k)
      /\ \A a \in All : \A w : SetsData(a, w)' <=> SetsData(a, w)
  <2>1. \A a \in S : \A k, w : ~Handing(a, k) /\ ~Handing(a, k)' /\ ~SetsData(a, w) /\ ~SetsData(a, w)'
    BY DEF Quietly, Handing, SetsData
  <2>2. \A a \in All \ S : \A k, w : (Handing(a, k)' <=> Handing(a, k)) /\ (SetsData(a, w)' <=> SetsData(a, w))
    BY DEF Quietly, Handing, SetsData
  <2> QED
    BY <2>1, <2>2
<1>3. \A w \in Workers : \A k : Ordered(w, k)' <=> Ordered(w, k)
  BY <1>2 DEF Quietly, NoOrders, Ordered, Commanded, Commands
<1>4. OnePlace' /\ Begun'
  BY <1>1, <1>2, <1>3, PlaceStays DEF Placed, Quietly
<1>5. Setters'
  BY <1>1, <1>2 DEF Placed, Setters, Quietly, NoOrders
<1>6. Obeyed'
  <2>1. Minds(S)
    BY DEF Minds, Quietly, NoOrders, Resumer
  <2> QED
    BY <1>1, <2>1, MindsObeyed DEF Placed
<1>7. Tasks'
  <2>1. \A a \in All \ S : Working(a) => Working(a)'
    BY DEF Quietly, Working, InCall
  <2>2. \A a \in All : a \in Threads /\ Working(a) => Working(a)' \/ task'[a] = NoTask
    BY <2>1 DEF Quietly
  <2>3. Threads' = Threads
    BY DEF Threads, Needed
  <2> QED
    BY <2>2, <2>3 DEF Placed, Tasks, Quietly
<1> QED
  BY <1>4, <1>5, <1>6, <1>7 DEF Placed

\* Without a step of a worker there is no order.
LEMMA NoOrdersStay ==
  ASSUME workers' = workers
  PROVE  NoOrders
  BY DEF NoOrders, Commands, Active, Busy

Ordering == {"start", "setCallFunction", "setData"}

\* One thread moves, and that is about no task.
LEMMA QuietMove ==
  ASSUME Typed, Placed, NEW a \in All, NEW l, pc' = [pc EXCEPT ![a] = l],
         \A b \in All \ {a} : call'[b] = call[b] /\ (Completed(b) => Completed(b)'),
         UNCHANGED <<settings, threadQueue, begun>>,
         task' = task \/ task' = [task EXCEPT ![a] = NoTask], NoOrders,
         pc[a] \notin Ordering \union {"resumeActive", "command"}, l \notin Ordering,
         a \in Threads /\ Working(a) =>
           l \in Waiting \union {"task"} \/ (l \in Calls /\ call'[a].back = "task") \/ task'[a] = NoTask,
         a # Progress /\ Role(a) = "rest" =>
           l = "command" \/ (RoleOf(l, call'[a].back) = "rest" /\ (Completed(a) => Completed(a)'))
  PROVE  Placed'
<1>1. pc'[a] = l /\ \A b \in All \ {a} : pc'[b] = pc[b]
  BY DEF Typed, PlacesTyped
<1>2. Role(a)' = RoleOf(l, call'[a].back)
  BY <1>1 DEF Role
<1>3. \A b \in All : task'[b] = task[b] \/ task'[b] = NoTask
  BY DEF Typed, OthersTyped
<1>4. Quietly({a})
  BY <1>1, <1>2, <1>3 DEF Quietly, Ordering, Working, InCall
<1> QED
  BY <1>4, QuietlyPlaced

\* The same, in a function that others call.
LEMMA QuietInCall ==
  ASSUME Typed, Placed, NEW a \in All, pc[a] \in Calls \ (Ordering \union {"resumeActive"}),
         NEW l \in Calls \union {call[a].back}, l \notin Ordering, pc' = [pc EXCEPT ![a] = l],
         call' = call \/ \E w : call' = [call EXCEPT ![a].worker = w],
         UNCHANGED <<settings, threadQueue, begun, task>>, NoOrders, \A b \in All : Completed(b) => Completed(b)'
  PROVE  Placed'
<1>1. call \in [All -> [arg : All \union (0 .. MaxTasks), worker : Workers \union {NoWorker}, back : Labels]]
  BY DEF Typed, CallsTyped
<1>2. call'[a].back = call[a].back /\ \A b \in All \ {a} : call'[b] = call[b]
  BY <1>1
<1>3. call[a].back \in {"task", "sleep", "poll", "polled", "asleep"}
  BY DEF Typed, CallsTyped, CallTyped, BacksOf
<1>4. RoleOf(l, call'[a].back) = Role(a)
  BY <1>2, <1>3, RoleInCall DEF Role
<1>5. Working(a) => l = "task" \/ (l \in Calls /\ call'[a].back = "task")
  BY <1>2 DEF Working, InCall, Waiting, Calls
<1>6. pc[a] # "command"
  BY DEF Calls
<1> QED
  BY <1>2, <1>4, <1>5, <1>6, QuietMove

\* A resumed thread is not put to sleep by that.
LEMMA ResumeCompletes ==
  ASSUME Typed, NEW p \in All, packages' = [packages EXCEPT ![p].completed = TRUE]
  PROVE  \A b \in All : Completed(b) => Completed(b)'
  BY DEF Typed, PackagesTyped, Completed

\* A worker with an awake thread that is past its command has no command.
LEMMA NoCommand ==
  ASSUME Typed, Shape, Placed, NEW a \in All, NEW w \in Workers, Belongs(a, w),
         Role(a) = "awake", pc[a] # "command"
  PROVE  ~Commands(w) /\ Active(w) = a
  BY AwakeActive DEF Placed, Obeyed

\* Only one thread writes the command of a worker, which has none before.
LEMMA WriterFacts ==
  ASSUME Typed, Shape, Placed, NEW a \in All, NEW w \in Workers, Writes(a, w)
  PROVE  /\ \A b \in All : Writes(b, w) => b = a
         /\ Busy(w) /\ \A t \in All : Active(w) = t => Role(t) = "rest" /\ ~Completed(t)
         /\ pc[a] \notin {"setData", "resumeActive"} => ~Commands(w)
<1>1. \A b \in All : Writes(b, w) => b = a
  BY DEF Shape, OneWriter
<1>2. Active(w) \in All
  BY BelongsFacts
<1>3. Busy(w) /\ \A t \in All : Active(w) = t => Role(t) = "rest" /\ ~Completed(t)
  BY <1>2 DEF Shape, Writers
<1>4. ASSUME Commands(w) PROVE pc[a] \in {"setData", "resumeActive"}
  <2>1. \A t \in All : Role(t) = "rest" => pc[t] # "command"
    BY DEF Role, RoleOf
  <2>2. PICK b \in All : Resumer(b, w)
    BY <1>2, <1>3, <1>4, <2>1 DEF Placed, Obeyed
  <2>3. Writes(b, w)
    BY <2>2 DEF Resumer, Writes, Writing
  <2> QED
    BY <1>1, <2>2, <2>3 DEF Resumer
<1> QED
  BY <1>1, <1>3, <1>4

\* Looking for an idle worker to poll, and clearing the command that it has not got.
LEMMA PlacedLaunch ==
  ASSUME Typed, Shape, Placed, NEW a \in All,
         launchThreadToPollForProgressIfPossible(a) \/ awaitPoller(a) \/ clearCallFunction(a)
  PROVE  Placed'
<1>1. UNCHANGED <<settings, threadQueue, begun, task, packages>>
  BY DEF launchThreadToPollForProgressIfPossible, awaitPoller, clearCallFunction, Write, queue, history
<1>2. \A b \in All : Completed(b) => Completed(b)'
  BY <1>1 DEF Completed
<1>3. CASE launchThreadToPollForProgressIfPossible(a)
  <2>1. /\ pc[a] = "launch" /\ workers' = workers
        /\ \E l \in {"awaitPoller", call[a].back} : pc' = [pc EXCEPT ![a] = l]
        /\ call' = call \/ \E w : call' = [call EXCEPT ![a].worker = w]
    BY <1>3 DEF launchThreadToPollForProgressIfPossible, At, Goto, Return
  <2>2. call[a].back \notin Ordering
    BY <2>1 DEF Typed, CallsTyped, CallTyped, Calls, BacksOf, Ordering
  <2> QED
    BY <1>1, <1>2, <2>1, <2>2, NoOrdersStay, QuietInCall DEF Calls, Ordering
<1>4. CASE awaitPoller(a)
  <2>1. /\ pc[a] = "awaitPoller" /\ call' = call /\ pc' = [pc EXCEPT ![a] = "clearCallFunction"]
        /\ workers' = [workers EXCEPT ![call[a].worker].threadBusy = TRUE]
    BY <1>4 DEF awaitPoller, At, Goto
  <2>2. NoOrders
    BY <2>1 DEF NoOrders, Commands, Active, Busy, Typed, WorkersTyped, WorkerType
  <2> QED
    BY <1>1, <1>2, <2>1, <2>2, QuietInCall DEF Calls, Ordering
<1>5. CASE clearCallFunction(a)
  <2>1. PICK w \in Workers : w = call[a].worker
    BY <1>5 DEF clearCallFunction, Write, At, Typed, CallsTyped, CallTyped, Writing
  <2>2. /\ pc[a] = "clearCallFunction" /\ call' = call /\ pc' = [pc EXCEPT ![a] = "resumeActive"]
        /\ workers' = [workers EXCEPT ![w] = [workers[w] EXCEPT !.callFunction = FALSE]]
    BY <1>5, <2>1 DEF clearCallFunction, Write, At, Goto, Of
  <2>3. ~Commands(w)
    BY <2>1, <2>2, WriterFacts DEF Writes, Writing
  <2>4. NoOrders
    BY <2>2, <2>3 DEF NoOrders, Commands, Active, Busy, Typed, WorkersTyped, WorkerType
  <2> QED
    BY <1>1, <1>2, <2>2, <2>4, QuietInCall DEF Calls, Ordering
<1> QED
  BY <1>3, <1>4, <1>5

\* Dealing with a wait whose events have come is about no task.
LEMMA PlacedMark ==
  ASSUME Typed, Shape, Placed, NEW a \in All,
         markThreadResume(a) \/ markWaiting(a) \/ markPoller(a), pc'[a] # "error"
  PROVE  Placed'
<1>1. UNCHANGED <<settings, threadQueue, begun, task>> /\ pc[a] \in {"mark", "markWaiting", "markPoller"}
  BY DEF markThreadResume, markWaiting, markPoller, At, queue, history
<1>2. call[a].back \notin Ordering
  BY <1>1 DEF Typed, CallsTyped, CallTyped, Calls, BacksOf, Ordering
<1>3. \A l : pc' = [pc EXCEPT ![a] = l] => pc'[a] = l
  BY DEF Typed, PlacesTyped
<1>4. CASE markThreadResume(a)
  <2>1. /\ workers' = workers
        /\ \E l \in {"markWaiting", call[a].back, "error"} : pc' = [pc EXCEPT ![a] = l]
        /\ call' = call \/ \E w : call' = [call EXCEPT ![a].worker = w]
    BY <1>4 DEF markThreadResume, Goto, Return
  <2>2. PICK l \in {"markWaiting", call[a].back} : pc' = [pc EXCEPT ![a] = l]
    BY <1>3, <2>1
  <2>3. \A b \in All : Completed(b) => Completed(b)'
    BY <1>4, ResumeCompletes, Names DEF markThreadResume, resume, Completed
  <2> QED
    BY <1>1, <1>2, <2>1, <2>2, <2>3, NoOrdersStay, QuietInCall DEF Calls, Ordering
<1>5. CASE markWaiting(a)
  <2>1. PICK w, d : w = call[a].worker /\ d = call[a].arg
    OBVIOUS
  <2>2. /\ workers' = [workers EXCEPT ![w].pausedThreads = @ \ {d}, ![w].waitingThreads = Append(@, d)]
        /\ pc' = [pc EXCEPT ![a] = "markBusy"] /\ call' = call /\ packages' = packages
    BY <1>3, <1>5, <2>1 DEF markWaiting, Goto
  <2>3. NoOrders
    BY <2>2 DEF NoOrders, Commands, Active, Busy, Typed, WorkersTyped, WorkerType
  <2> QED
    BY <1>1, <2>2, <2>3, QuietInCall DEF Calls, Ordering, Completed
<1>6. CASE markPoller(a)
  <2>1. workers' = workers /\ pc' = [pc EXCEPT ![a] = call[a].back] /\ call' = call /\ packages' = packages
    BY <1>6 DEF markPoller, Goto, Return
  <2> QED
    BY <1>1, <1>2, <2>1, NoOrdersStay, QuietInCall DEF Calls, Ordering, Completed
<1> QED
  BY <1>4, <1>5, <1>6

\* A worker that is woken to find a thread that waits to go on has no command.
LEMMA PlacedMarkBusy ==
  ASSUME Typed, Shape, Placed, NEW a \in All, markBusy(a)
  PROVE  Placed'
<1>1. /\ UNCHANGED <<settings, threadQueue, begun, task, call>> /\ pc[a] = "markBusy"
      /\ pc' = [pc EXCEPT ![a] = "markPoller"]
  BY DEF markBusy, At, Goto, queue, history
<1>2. PICK w \in Workers : w = call[a].worker
  BY <1>1 DEF Typed, CallsTyped, CallTyped, Writing
<1>3. NoOrders
  <2>1. CASE Wakes(w)
    <3>1. workers' = [workers EXCEPT ![w].threadBusy = TRUE, ![w].callFunction = FALSE]
      BY <1>2, <2>1 DEF markBusy
    <3>2. ~Busy(w)
      BY <2>1 DEF Wakes, Busy
    <3>3. ~Commands(w)
      BY <3>2, BelongsFacts DEF Placed, Obeyed
    <3> QED
      BY <3>1, <3>3 DEF NoOrders, Commands, Active, Busy, Typed, WorkersTyped, WorkerType
  <2>2. CASE ~Wakes(w)
    BY <1>2, <2>2, NoOrdersStay DEF markBusy
  <2> QED
    BY <2>1, <2>2
<1>4. \A b \in All : Completed(b) => Completed(b)'
  <2>1. CASE packages' = packages
    BY <2>1 DEF Completed
  <2>2. CASE packages' = [packages EXCEPT ![Active(w)].completed = TRUE]
    BY <2>2, BelongsFacts, ResumeCompletes
  <2> QED
    BY <1>2, <2>1, <2>2 DEF markBusy, resume, Active
<1> QED
  BY <1>1, <1>3, <1>4, QuietInCall DEF Calls, Ordering

\* Waiting is about no task: the task stays with the thread that waits.
LEMMA PlacedWait ==
  ASSUME Typed, Shape, Placed, NEW a \in All,
         pauseThread(a) \/ pauseMap(a) \/ waitReturns(a), pc'[a] # "error"
  PROVE  Placed'
<1>1. /\ UNCHANGED <<settings, workers, threadQueue, begun, task>> /\ pc[a] \in {"pause", "pauseMap", "paused"}
      /\ \E l \in {"pauseActive", "paused", call[a].back, "error"} : pc' = [pc EXCEPT ![a] = l]
      /\ call' = call \/ \E w : call' = [call EXCEPT ![a].worker = w]
  BY DEF pauseThread, pauseMap, waitReturns, At, Goto, Return, queue, history
<1>2. call[a].back = "task"
  BY <1>1 DEF Typed, CallsTyped, CallTyped, Waiting
<1>3. PICK l \in {"pauseActive", "paused", "task"} : pc' = [pc EXCEPT ![a] = l]
  BY <1>1, <1>2 DEF Typed, PlacesTyped
<1>4. \A b \in All \ {a} : Completed(b) => Completed(b)'
  <2>1. packages' = packages \/ packages' = [packages EXCEPT ![a].completed = FALSE]
    BY DEF pauseThread, pauseMap, waitReturns, pauseReturns
  <2> QED
    BY <2>1 DEF Typed, PackagesTyped, Completed
<1>5. \A b \in All \ {a} : call'[b] = call[b]
  BY <1>1 DEF Typed, CallsTyped
<1>6. Role(a) # "rest"
  BY <1>1 DEF Role, RoleOf, Calls, Polls
<1> QED
  BY <1>1, <1>3, <1>4, <1>5, <1>6, NoOrdersStay, QuietMove DEF Waiting, Ordering

\* The worker of a thread that pauses has no command: its thread runs a task.
LEMMA PlacedPauseActive ==
  ASSUME Typed, Shape, Placed, NEW a \in All, pauseActive(a)
  PROVE  Placed'
<1>1. PICK w \in Workers : w = call[a].worker
  BY DEF pauseActive, At, Typed, CallsTyped, CallTyped
<1>2. /\ UNCHANGED <<settings, threadQueue, begun, task, call>> /\ pc[a] = "pauseActive"
      /\ pc' = [pc EXCEPT ![a] = "pauseMap"]
      /\ \E b : /\ workers' = TakenOver(w, a, b)
                /\ packages' = [packages EXCEPT ![b].worker = w, ![b].completed = TRUE]
  BY <1>1, Zenon DEF pauseActive, At, Goto, queue, history
<1>3. Belongs(a, w) /\ Role(a) = "awake"
  BY <1>1, <1>2 DEF Shape, Pausers, Role, RoleOf
<1>4. ~Commands(w)
  BY <1>2, <1>3, NoCommand
<1>5. PICK b : /\ workers' = TakenOver(w, a, b)
               /\ packages' = [packages EXCEPT ![b].worker = w, ![b].completed = TRUE]
  BY <1>2
<1>6. NoOrders
  <2>1. \A v \in Workers \ {w} : workers'[v] = workers[v]
    BY <1>5 DEF TakenOver, Typed, WorkersTyped
  <2>2. workers'[w].callFunction = workers[w].callFunction /\ workers'[w].data = workers[w].data
    BY <1>5 DEF TakenOver, Typed, WorkersTyped, WorkerType
  <2> QED
    BY <1>4, <2>1, <2>2 DEF NoOrders, Commands, Active, Busy
<1>7. \A c \in All : Completed(c) => Completed(c)'
  BY <1>5 DEF Completed, Typed, PackagesTyped
<1> QED
  BY <1>2, <1>3, <1>6, <1>7, QuietMove DEF Waiting, Ordering

\* A thread of the pool that looks for work, pauses or polls has no task.
LEMMA PlacedEntry ==
  ASSUME Typed, Shape, Placed, NEW t \in Threads,
         \/ wake(t) \/ lookForWaiting(t) \/ resumeWaiting(t) \/ reactivated(t)
         \/ startPolling(t) \/ pollReturns(t) \/ checkBusy(t) \/ stopPolling(t)
  PROVE  Placed'
<1>1. t \in All
  BY Names
<1>2. /\ UNCHANGED <<settings, workers, threadQueue, begun, task>>
      /\ \A b \in All \ {t} : call'[b] = call[b]
  BY DEF wake, lookForWaiting, resumeWaiting, reactivated, startPolling, pollReturns, checkBusy, stopPolling, Call,
         queue, history, Typed, CallsTyped
<1>3. \A b \in All \ {t} : Completed(b) => Completed(b)'
  <2>1. CASE packages' = packages \/ packages' = [packages EXCEPT ![t].completed = FALSE]
    BY <2>1 DEF Typed, PackagesTyped, Completed
  <2>2. CASE resumeWaiting(t)
    <3>1. PICK w \in Workers : w = Worker(t)
      BY <2>2, EntryBelongs DEF resumeWaiting, At
    <3>2. packages' = [packages EXCEPT ![Active(w)].completed = TRUE]
      BY <2>2, <3>1 DEF resumeWaiting, resume, Active
    <3> QED
      BY <3>1, <3>2, BelongsFacts, ResumeCompletes
  <2> QED
    BY <2>1, <2>2 DEF wake, lookForWaiting, reactivated, startPolling, pollReturns, checkBusy, stopPolling,
                      pauseReturns
<1>4. \E l : /\ pc' = [pc EXCEPT ![t] = l] /\ l \notin Ordering
             /\ pc[t] \notin Ordering \union {"resumeActive", "command"} /\ ~Working(t)
             /\ Role(t) = "rest" => 
                  l = "command" \/ (RoleOf(l, call'[t].back) = "rest" /\ (Completed(t) => Completed(t)'))
  <2>1. CASE wake(t)
    <3>1. pc[t] = "asleep" /\ pc' = [pc EXCEPT ![t] = "command"]
      BY <1>1, <2>1 DEF wake, At, Goto, Shape, Lasting
    <3> QED
      BY <3>1 DEF Ordering, Working, Waiting, InCall, Calls
  <2>2. CASE lookForWaiting(t) \/ resumeWaiting(t) \/ reactivated(t)
    <3>1. pc[t] \in {"loop", "handOver", "spare"} /\ \E l \in {"look", "spare", "loop"} : pc' = [pc EXCEPT ![t] = l]
      BY <2>2 DEF lookForWaiting, resumeWaiting, reactivated, At, Goto, Spare
    <3>2. Role(t) # "rest"
      BY <3>1 DEF Role, RoleOf, Calls, Polls
    <3> QED
      BY <3>1, <3>2 DEF Ordering, Working, Waiting, InCall, Calls
  <2>3. CASE startPolling(t) \/ pollReturns(t) \/ checkBusy(t)
    <3>1. /\ pc[t] \in {"idle", "poll", "polled", "pollLock"} /\ packages' = packages
          /\ \E l \in {"poll", "asleep", "polled", "stopPolling", "pollLock"} : pc' = [pc EXCEPT ![t] = l]
      BY <2>3 DEF startPolling, pollReturns, checkBusy, At, Goto, GoesOn
    <3>2. \A l \in {"poll", "asleep", "polled", "stopPolling", "pollLock"} : \A back : RoleOf(l, back) = "rest"
      BY DEF RoleOf, Polls, Calls
    <3> QED
      BY <3>1, <3>2, ZenonT(60) DEF Ordering, Working, Waiting, InCall, Calls, Completed
  <2>4. CASE stopPolling(t)
    <3>1. /\ pc[t] = "stopPolling" /\ packages' = packages
          /\ \/ pc' = [pc EXCEPT ![t] = "asleep"]
             \/ /\ pc' = [pc EXCEPT ![t] = "launch"]
                /\ call' = [call EXCEPT ![t] = [arg |-> NoTask, worker |-> NoWorker, back |-> "asleep"]]
      BY <2>4 DEF stopPolling, At, Goto, Call
    <3>2. RoleOf("launch", "asleep") = "rest" /\ \A back : RoleOf("asleep", back) = "rest"
      BY DEF RoleOf, Calls
    <3>3. pc' = [pc EXCEPT ![t] = "launch"] => call'[t].back = "asleep" \/ pc' = [pc EXCEPT ![t] = "asleep"]
      BY <1>1, <3>1 DEF Typed, CallsTyped
    <3> QED
      BY <3>1, <3>2, <3>3 DEF Ordering, Working, Waiting, InCall, Calls, Completed
  <2> QED
    BY <2>1, <2>2, <2>3, <2>4
<1> QED
  BY <1>1, <1>2, <1>3, <1>4, NoOrdersStay, QuietMove

\* A thread that finds no task gives its worker away or goes idle: it has no command.
LEMMA PlacedLook ==
  ASSUME Typed, Shape, Placed, NEW t \in Threads, handOver(t) \/ goIdle(t)
  PROVE  Placed'
<1>1. PICK w \in Workers : w = Worker(t) /\ Belongs(t, w) /\ t \in All
  BY EntryBelongs DEF handOver, goIdle, At
<1>2. /\ UNCHANGED <<settings, threadQueue, begun, task, call, packages>> /\ pc[t] = "look"
      /\ \E l \in {"handOver", "idle"} : pc' = [pc EXCEPT ![t] = l]
      /\ \/ workers' = [workers EXCEPT ![w].activeThread = Head(workers[w].waitingThreads),
                                ![w].waitingThreads = Tail(@),
                                ![w].idleThreads = Append(@, t)]
         \/ workers' = [workers EXCEPT ![w].threadBusy = FALSE]
  BY <1>1 DEF handOver, goIdle, At, Goto, queue, history
<1>3. Role(t) = "awake"
  BY <1>2 DEF Role, RoleOf
<1>4. ~Commands(w)
  BY <1>1, <1>2, <1>3, NoCommand
<1>5. NoOrders
  <2>1. \A v \in Workers \ {w} : workers'[v] = workers[v]
    BY <1>2 DEF Typed, WorkersTyped
  <2>2. workers'[w].callFunction = workers[w].callFunction /\ workers'[w].data = workers[w].data
    BY <1>2 DEF Typed, WorkersTyped, WorkerType
  <2> QED
    BY <1>4, <2>1, <2>2 DEF NoOrders, Commands, Active, Busy
<1>6. ~Working(t) /\ \A b \in All : Completed(b) => Completed(b)'
  BY <1>2 DEF Working, InCall, Waiting, Calls, Completed
<1> QED
  BY <1>1, <1>2, <1>3, <1>5, <1>6, QuietMove DEF Ordering

\* The test for termination is about no task.
LEMMA PlacedTest ==
  ASSUME Typed, Shape, Placed, NEW a \in All,
         checkForLocalTermination(a) \/ lockMutexForFinalisationTest(a) \/ isThreadPoolFinished(a)
  PROVE  Placed'
<1>1. UNCHANGED <<settings, workers, threadQueue, begun, task, call, packages>>
  BY DEF checkForLocalTermination, lockMutexForFinalisationTest, isThreadPoolFinished, queue, history
<1>2. /\ pc[a] \in {"poll", "lockPool", "test"}
      /\ \E l \in {"lockPool", "test", "gone", "poll", "polled", "stopPolling"} :
           pc' = [pc EXCEPT ![a] = l] /\ (l = "gone" => a = Progress)
  BY DEF checkForLocalTermination, lockMutexForFinalisationTest, isThreadPoolFinished, At, Goto, Polled
<1>3. \A l \in {"lockPool", "test", "poll", "polled", "stopPolling"} : \A back : RoleOf(l, back) = "rest"
  BY DEF RoleOf, Calls, Polls
<1>4. ~Working(a) /\ \A b \in All : Completed(b) => Completed(b)'
  BY <1>1, <1>2 DEF Working, InCall, Waiting, Calls, Completed
<1>5. PICK l \in {"lockPool", "test", "gone", "poll", "polled", "stopPolling"} :
        pc' = [pc EXCEPT ![a] = l] /\ (l = "gone" => a = Progress)
  BY <1>2
<1>6. NoOrders /\ l \notin Ordering /\ pc[a] \notin Ordering \union {"resumeActive", "command"}
  BY <1>1, <1>2, NoOrdersStay DEF Ordering
<1>7. a # Progress => RoleOf(l, call'[a].back) = "rest"
  BY <1>3, <1>5
<1> QED
  BY <1>1, <1>4, <1>5, <1>6, <1>7, QuietMove

\* What tasks, polls and the main thread do beside handing over tasks.
LEMMA PlacedCaller ==
  ASSUME Typed, Shape, Placed, NEW a \in All, Caller(a),
         \/ fire(a, BackOf(a))
         \/ pc[a] = "task" /\ edatWait(a)
         \/ pc[a] = "task" /\ a # Main /\ taskEnds(a)
         \/ pc[a] = "task" /\ a = Main /\ attachMainThread
  PROVE  Placed'
<1>1. UNCHANGED <<settings, workers, threadQueue, begun, packages>> /\ \A b \in All \ {a} : call'[b] = call[b]
  BY DEF fire, edatWait, taskEnds, attachMainThread, Call, queue, history, Typed, CallsTyped
<1>2. \A b \in All : Completed(b) => Completed(b)'
  BY <1>1 DEF Completed
<1>3. CASE fire(a, BackOf(a))
  <2>1. PICK d : /\ pc' = [pc EXCEPT ![a] = "mark"] /\ task' = task
                 /\ call' = [call EXCEPT ![a] = [arg |-> d, worker |-> NoWorker, back |-> BackOf(a)]]
    BY <1>3 DEF fire, Call, Goto
  <2>2. call'[a].back = BackOf(a)
    BY <2>1 DEF Typed, CallsTyped
  <2>3. RoleOf("mark", BackOf(a)) = Role(a) /\ (Working(a) => BackOf(a) = "task")
    BY DEF Caller, BackOf, Polled, Role, RoleOf, Calls, Polls, Working, InCall, Waiting
  <2>4. pc[a] \notin Ordering \union {"resumeActive", "command"} /\ "mark" \in Calls /\ "mark" \notin Ordering
    BY DEF Caller, Ordering, Calls
  <2> QED
    BY <1>1, <1>2, <2>1, <2>2, <2>3, <2>4, NoOrdersStay, QuietMove
<1>4. CASE pc[a] = "task" /\ (edatWait(a) \/ (a # Main /\ taskEnds(a)) \/ (a = Main /\ attachMainThread))
  <2>1. \E l \in {"pause", "loop", "notify"} :
          /\ pc' = [pc EXCEPT ![a] = l]
          /\ (l = "pause" /\ task' = task) \/ (a = Main /\ task' = task) \/ task' = [task EXCEPT ![a] = NoTask]
    BY <1>4 DEF edatWait, taskEnds, attachMainThread, Call, Goto
  <2>2. task' = [task EXCEPT ![a] = NoTask] => task'[a] = NoTask
    BY DEF Typed, OthersTyped
  <2>3. Role(a) # "rest" /\ Main \notin Threads
    BY <1>4, Names DEF Role, RoleOf
  <2> QED
    BY <1>1, <1>2, <1>4, <2>1, <2>2, <2>3, NoOrdersStay, QuietMove, ZenonT(60) DEF Waiting, Ordering
<1> QED
  BY <1>3, <1>4

\* The main thread is given no task.
LEMMA PlacedMain ==
  ASSUME Typed, Shape, Placed, RestartsBeside, MainSteps
  PROVE  Placed'
<1>1. Main \in All /\ Main \notin Threads /\ settings \in Settings
  BY Names DEF Typed, OthersTyped
<1>2. ~settings.mainIsWorker \/ ~resetPolling
  BY <1>1 DEF RestartsBeside, resetPolling, At, Shape, Lasting, Typed, OthersTyped
<1>3. /\ UNCHANGED <<settings, threadQueue, begun, task>> /\ \A b \in All \ {Main} : call'[b] = call[b]
      /\ pc[Main] \in {"init", "notify", "sleep", "reset"}
      /\ \E l \in {"launch", "task", "sleep", "finalised"} : pc' = [pc EXCEPT ![Main] = l]
  BY DEF MainSteps, setMessaging, notifyMainThreadIsSleeping, mainThreadWoken, resetPolling, At, Goto, Call,
         queue, history, Typed, CallsTyped
<1>4. NoOrders /\ \A b \in All : Completed(b) => Completed(b)'
  <2>1. CASE workers' = workers /\ packages' = packages
    BY <2>1, NoOrdersStay DEF Completed
  <2>2. CASE notifyMainThreadIsSleeping /\ settings.mainIsWorker
    <3>1. /\ workers' = [workers EXCEPT ![0].threadBusy = FALSE, ![0].activeThread = NextThread]
          /\ packages' = [packages EXCEPT ![NextThread] = newPackage(0)] /\ pc[Main] = "notify"
      BY <2>2 DEF notifyMainThreadIsSleeping, LeftToThread, At
    <3>2. 0 \in Workers
      BY <1>1, WorkerNumbers
    <3>3. Belongs(Main, 0) /\ Role(Main) = "awake"
      BY <2>2, <3>1 DEF Belongs, Role, RoleOf
    <3>4. ~Commands(0)
      BY <1>1, <3>1, <3>2, <3>3, NoCommand
    <3>5. NoOrders
      BY <3>1, <3>4 DEF NoOrders, Commands, Active, Busy, Typed, WorkersTyped, WorkerType
    <3>6. ~Created(NextThread) /\ NextThread \in Threads
      <4>1. ~Left
        BY <3>1 DEF Left, InCall, Calls
      <4>2. Bound <= Needed(settings)
        BY <4>1, BoundFacts
      <4> QED
        BY <4>2, NextExists
    <3>7. \A b \in All : Completed(b) => b # NextThread
      BY <3>6 DEF Typed, Fresh, Completed
    <3> QED
      BY <3>1, <3>5, <3>7 DEF Completed, Typed, PackagesTyped
  <2> QED
    BY <1>2, <2>1, <2>2 DEF MainSteps, setMessaging, notifyMainThreadIsSleeping, mainThreadWoken, resetPolling
<1>5. Role(Main) # "rest"
  BY <1>3 DEF Role, RoleOf, Calls, Polls
<1> QED
  BY <1>1, <1>3, <1>4, <1>5, QuietMove DEF Ordering

\* edatRestart is about no task, and neither is a step that changes nothing.
LEMMA PlacedRestart ==
  ASSUME Typed, PollersOK, Placed, edatRestart
  PROVE  Placed'
<1>1. /\ UNCHANGED <<settings, workers, threadQueue, begun, task, call, packages>> /\ pc[Main] = "finalised"
      /\ \E l \in {"poll", "gone"} : pc' = [pc EXCEPT ![Main] = "reset", ![Progress] = l]
  BY DEF edatRestart, At, queue, history
<1>2. pc[Progress] = "gone" /\ Main \notin Threads /\ Progress \notin Threads /\ {Main, Progress} \in SUBSET All
  BY <1>1, Names DEF edatRestart, At, PollersOK
<1>3. /\ pc'[Main] = "reset" /\ pc'[Progress] \in {"poll", "gone"}
      /\ \A b \in All \ {Main, Progress} : pc'[b] = pc[b]
  BY <1>1, Names DEF Typed, PlacesTyped
<1>4. Role(Main) # "rest" /\ \A b \in All : Completed(b) => Completed(b)'
  BY <1>1 DEF Role, RoleOf, Calls, Polls, Completed
<1>5. Quietly({Main, Progress})
  BY <1>1, <1>2, <1>3, <1>4, NoOrdersStay DEF Quietly
<1> QED
  BY <1>2, <1>5, QuietlyPlaced

\* A stuttering step keeps Placed.
LEMMA PlacedStutters ==
  ASSUME Typed, Placed, vars' = vars
  PROVE  Placed'
<1>1. UNCHANGED <<settings, workers, queue, packages, pc, call, task, history>>
  BY DEF vars
<1>2. UNCHANGED <<settings, workers, threadQueue, begun, packages, pc, call, task>>
  BY <1>1 DEF queue, history
<1>3. Quietly({})
  BY <1>2, NoOrdersStay DEF Quietly, Completed
<1> QED
  BY <1>3, QuietlyPlaced

\* Who hands over what does not change for the threads that do not move.
LEMMA OrdersApart ==
  ASSUME NEW a \in All, Apart(a)
  PROVE  \A b \in All \ {a} :
           /\ \A k : Handing(b, k)' <=> Handing(b, k)
           /\ \A w : SetsData(b, w)' <=> SetsData(b, w)
           /\ \A w : Resumer(b, w)' <=> Resumer(b, w)
           /\ Working(b)' <=> Working(b)
  BY DEF Apart, Handing, SetsData, Resumer, Working, InCall

\* A task is handed to the pool.
LEMMA PlacedSubmit ==
  ASSUME Typed, Placed, NEW a \in All, Caller(a), submit(a, BackOf(a))
  PROVE  Placed'
<1>1. /\ UNCHANGED <<settings, workers, threadQueue, task, packages>>
      /\ begun' = Append(begun, 0) /\ pc' = [pc EXCEPT ![a] = "start"] /\ handed < MaxTasks
      /\ call' = [call EXCEPT ![a] = [arg |-> handed + 1, worker |-> NoWorker, back |-> BackOf(a)]]
  BY DEF submit, Call, Goto, queue
<1>2. handed \in Nat /\ MaxTasks \in Nat /\ Workers' = Workers /\ Threads' = Threads
  BY <1>1, HandedFacts, SameSettings DEF Threads, Needed
<1> DEFINE n == handed + 1
<1>3. /\ pc'[a] = "start" /\ call'[a].arg = n /\ call'[a].back = BackOf(a) /\ Apart(a)
  BY <1>1 DEF Typed, PlacesTyped, CallsTyped, Apart
<1>4. handed' = n /\ begun'[n] = 0 /\ \A k \in 1 .. handed : begun'[k] = begun[k]
  BY <1>1 DEF handed, Typed, OthersTyped
<1>5. /\ \A b \in All : \A k : Handing(b, k)' <=> Handing(b, k) \/ (b = a /\ k = n)
      /\ \A b \in All : \A w : SetsData(b, w)' <=> SetsData(b, w)
  <2>1. \A k : ~Handing(a, k) /\ (Handing(a, k)' <=> k = n)
    BY <1>3 DEF Caller, Handing
  <2>2. \A w : ~SetsData(a, w) /\ ~SetsData(a, w)'
    BY <1>3 DEF Caller, SetsData
  <2> QED
    BY <1>3, <2>1, <2>2, OrdersApart
<1>6. /\ \A w \in Workers : \A k : Ordered(w, k)' <=> Ordered(w, k)
      /\ \A k : Queued(k)' <=> Queued(k)
  BY <1>1, <1>5 DEF Ordered, Commanded, Queued
<1>7. n \in 0 .. MaxTasks /\ 1 .. n = 1 .. handed \union {n} /\ n \notin 1 .. handed /\ 1 .. handed \subseteq 0 .. MaxTasks
  BY <1>1, <1>2
<1> HIDE DEF n
<1>8. ~Held(n)
  BY <1>7 DEF Placed, Begun
<1>9. \A k \in 0 .. MaxTasks : Held(k)' <=> Held(k) \/ k = n
  BY <1>2, <1>5, <1>6 DEF Held
<1>10. OnePlace'
  <2>1. ~Queued(n) /\ (\A b \in All : ~Handing(b, n)) /\ \A w \in Workers : ~Ordered(w, n)
    BY <1>8 DEF Held
  <2>2. OneToOne(threadQueue)'
    BY <1>1 DEF Placed, OnePlace
  <2> QED
    BY <1>2, <1>5, <1>6, <2>1, <2>2 DEF Placed, OnePlace
<1>11. Begun'
  <2>1. \A k \in 0 .. MaxTasks : Held(k)' => k \in 1 .. handed' /\ begun'[k] = 0
    BY <1>4, <1>7, <1>9 DEF Placed, Begun
  <2>2. \A k \in 1 .. handed' : begun'[k] = 1 \/ (begun'[k] = 0 /\ Held(k)')
    BY <1>4, <1>7, <1>9 DEF Placed, Begun
  <2> QED
    BY <2>1, <2>2 DEF Begun
<1>12. Setters'
  BY <1>1, <1>2, <1>5 DEF Placed, Setters, Commands
<1>13. Obeyed'
  <2>1. Role(a)' = Role(a)
    BY <1>3 DEF Caller, BackOf, Polled, Role, RoleOf, Calls, Polls
  <2>2. pc[a] # "command" /\ \A w : ~Resumer(a, w)
    BY DEF Caller, Resumer
  <2>3. Minds({a})
    BY <1>1, <1>3, <2>1, <2>2 DEF Minds, Apart, Completed, Commands, Active, Busy
  <2> QED
    BY <1>1, <2>3, MindsObeyed DEF Placed
<1>14. Tasks'
  <2>1. Working(a) => Working(a)'
    BY <1>3 DEF Caller, BackOf, Working, InCall, Calls, Waiting
  <2> QED
    BY <1>1, <1>2, <1>3, <2>1, OrdersApart DEF Placed, Tasks
<1> QED
  BY <1>10, <1>11, <1>12, <1>13, <1>14 DEF Placed

\* A thread goes on in a function that others call, or returns from it.
LEMMA GoesOnInCall ==
  ASSUME Typed, NEW a \in All, pc[a] \in Calls, NEW l \in Calls \union {call[a].back},
         pc' = [pc EXCEPT ![a] = l], call' = call \/ \E w : call' = [call EXCEPT ![a].worker = w]
  PROVE  /\ Apart(a) /\ pc'[a] = l /\ call'[a].arg = call[a].arg /\ Role(a)' = Role(a)
         /\ Working(a) => Working(a)'
<1>1. call \in [All -> [arg : All \union (0 .. MaxTasks), worker : Workers \union {NoWorker}, back : Labels]]
  BY DEF Typed, CallsTyped
<1>2. /\ call'[a].back = call[a].back /\ call'[a].arg = call[a].arg
      /\ pc'[a] = l /\ \A b \in All \ {a} : pc'[b] = pc[b] /\ call'[b] = call[b]
  BY <1>1 DEF Typed, PlacesTyped
<1>3. call[a].back \in {"task", "sleep", "poll", "polled", "asleep"}
  BY DEF Typed, CallsTyped, CallTyped, BacksOf
<1>4. Role(a)' = Role(a)
  BY <1>2, <1>3, RoleInCall DEF Role
<1>5. Working(a) => Working(a)'
  BY <1>2 DEF Working, InCall, Waiting, Calls
<1> QED
  BY <1>2, <1>4, <1>5 DEF Apart

\* A worker is given the task, or the task is queued.
LEMMA PlacedStart ==
  ASSUME Typed, Shape, Placed, NEW a \in All, startThread(a)
  PROVE  Placed'
<1>1. pc[a] = "start" /\ pc[a] \in Calls /\ UNCHANGED <<settings, packages, begun, task>>
  BY DEF startThread, At, Calls, history
<1>2. Workers' = Workers /\ Threads' = Threads /\ call[a].arg \in 1 .. handed /\ 1 .. handed \subseteq 0 .. MaxTasks
  BY <1>1, SameSettings, HandedFacts DEF Threads, Needed, Typed, CallsTyped, CallTyped
<1>3. PICK k \in 1 .. handed : call[a].arg = k
  BY <1>2
<1>4. PICK l \in {"setCallFunction", call[a].back} :
        /\ pc' = [pc EXCEPT ![a] = l]
        /\ call' = call \/ \E w : call' = [call EXCEPT ![a].worker = w]
        /\ \/ /\ l = "setCallFunction" /\ UNCHANGED threadQueue
              /\ \E w \in Workers : workers' = [workers EXCEPT ![w].threadBusy = TRUE]
           \/ l = call[a].back /\ workers' = workers /\ threadQueue' = Append(threadQueue, k)
  BY <1>3, IdleIndex DEF startThread, Goto, Return
<1>5. "setCallFunction" \in Calls
  BY DEF Calls
<1>6. /\ Apart(a) /\ pc'[a] = l /\ call'[a].arg = k /\ Role(a)' = Role(a)
      /\ Working(a) => Working(a)'
  BY <1>1, <1>3, <1>4, <1>5, GoesOnInCall
<1>7. \A w \in Workers : /\ (Commands(w)' <=> Commands(w)) /\ workers'[w].data = workers[w].data
                         /\ Active(w)' = Active(w) /\ (Busy(w) => Busy(w)')
  <2>1. CASE workers' = workers
    BY <2>1 DEF Commands, Active, Busy
  <2>2. ASSUME NEW w \in Workers, workers' = [workers EXCEPT ![w].threadBusy = TRUE], NEW v \in Workers
        PROVE  /\ workers'[v].callFunction = workers[v].callFunction /\ workers'[v].data = workers[v].data
               /\ workers'[v].activeThread = workers[v].activeThread
               /\ (workers[v].threadBusy => workers'[v].threadBusy)
    BY <2>2 DEF Typed, WorkersTyped, WorkerType
  <2> QED
    BY <1>4, <2>1, <2>2 DEF Commands, Active, Busy
<1>8. l \notin {"setData", "start", "resumeActive"}
  BY <1>1, <1>4 DEF Typed, CallsTyped, CallTyped, BacksOf
<1>9. /\ \A b \in All : \A w : SetsData(b, w)' <=> SetsData(b, w)
      /\ \A w : ~Resumer(a, w) /\ ~Resumer(a, w)'
  BY <1>1, <1>6, <1>8, OrdersApart DEF SetsData, Resumer
<1>10. \A w \in Workers : \A j : Ordered(w, j)' <=> Ordered(w, j)
  BY <1>7, <1>9 DEF Ordered, Commanded, Commands
<1>11. \A j : Handing(a, j) <=> j = k
  BY <1>1, <1>3 DEF Handing
<1>12. OnePlace' /\ Begun'
  <2>1. CASE l = "setCallFunction" /\ UNCHANGED threadQueue
    <3>1. \A b \in All : \A j : Handing(b, j)' <=> Handing(b, j)
      BY <1>6, <1>11, <2>1, OrdersApart DEF Handing
    <3> QED
      BY <1>1, <1>2, <1>10, <2>1, <3>1, PlaceStays DEF Placed
  <2>2. CASE l = call[a].back /\ threadQueue' = Append(threadQueue, k)
    <3>1. l # "setCallFunction"
      BY <1>1, <2>2 DEF Typed, CallsTyped, CallTyped, BacksOf
    <3>2. \A b \in All : \A j : Handing(b, j)' <=> Handing(b, j) /\ b # a
      BY <1>6, <1>8, <3>1, OrdersApart DEF Handing
    <3>3. /\ \A j : Queued(j)' <=> Queued(j) \/ j = k
          /\ OneToOne(threadQueue) /\ ~Queued(k) => OneToOne(threadQueue)'
      <4>1. threadQueue \in Seq(1 .. MaxTasks) /\ k \in 1 .. MaxTasks
        BY <1>2, HandedFacts DEF Typed, OthersTyped
      <4> QED
        BY <2>2, <4>1, AppendFacts DEF Queued
    <3>4. k \in 0 .. MaxTasks /\ OnePlace /\ ~Queued(k) /\ (\A w \in Workers : ~Ordered(w, k))
          /\ \A b \in All : Handing(b, k) => b = a
      BY <1>2, <1>11 DEF Placed, OnePlace
    <3>5. OnePlace'
      BY <1>2, <1>10, <3>2, <3>3, <3>4 DEF OnePlace
    <3>6. \A j \in 0 .. MaxTasks : Held(j)' <=> Held(j)
      <4> SUFFICES ASSUME NEW j \in 0 .. MaxTasks PROVE Held(j)' <=> Held(j)
        OBVIOUS
      <4>1. (\E b \in All : Handing(b, j)) <=> (\E b \in All : Handing(b, j)') \/ j = k
        BY <1>11, <3>2
      <4>2. (\E w \in Workers : Ordered(w, j)') <=> \E w \in Workers : Ordered(w, j)
        BY <1>10
      <4> QED
        BY <1>2, <3>3, <4>1, <4>2 DEF Held
    <3>7. Begun'
      BY <1>1, <1>2, <3>6 DEF Placed, Begun, handed
    <3> QED
      BY <3>5, <3>7
  <2> QED
    BY <1>4, <2>1, <2>2
<1>13. Setters'
  BY <1>2, <1>7, <1>9 DEF Placed, Setters
<1>14. Obeyed'
  <2>1. Minds({a})
    BY <1>1, <1>6, <1>7, <1>9 DEF Minds, Apart, Completed
  <2> QED
    BY <1>1, <2>1, MindsObeyed DEF Placed
<1>15. Tasks'
  BY <1>1, <1>2, <1>6, OrdersApart DEF Placed, Tasks
<1> QED
  BY <1>12, <1>13, <1>14, <1>15 DEF Placed

\* The worker that a thread writes the command of.
LEMMA WrittenWorker ==
  ASSUME Typed, NEW a \in All, pc[a] \in {"setCallFunction", "setData", "resumeActive"}
  PROVE  \E w \in Workers : w = call[a].worker /\ Writes(a, w) /\ pc[a] \in Calls
  BY DEF Typed, CallsTyped, CallTyped, Writes, Writing, Calls

\* The command of a worker is begun.
LEMMA PlacedCallFunction ==
  ASSUME Typed, Shape, Placed, NEW a \in All, setCallFunction(a)
  PROVE  Placed'
<1>1. pc[a] = "setCallFunction" /\ UNCHANGED <<settings, threadQueue, packages, call, begun, task>>
  BY DEF setCallFunction, Write, At, queue, history
<1>2. PICK w \in Workers : w = call[a].worker /\ Writes(a, w) /\ pc[a] \in Calls
  BY <1>1, WrittenWorker
<1>3. pc' = [pc EXCEPT ![a] = "setData"] /\ workers' = [workers EXCEPT ![w] = [workers[w] EXCEPT !.callFunction = TRUE]]
  BY <1>2 DEF setCallFunction, Write, Goto, Of
<1>4. /\ Apart(a) /\ pc'[a] = "setData" /\ call'[a].arg = call[a].arg /\ Role(a)' = Role(a)
      /\ Working(a) => Working(a)'
  BY <1>1, <1>2, <1>3, GoesOnInCall DEF Calls
<1>5. Workers' = Workers /\ Threads' = Threads
  BY <1>1, SameSettings DEF Threads, Needed
<1>6. /\ \A v \in Workers \ {w} : workers'[v] = workers[v]
      /\ Commands(w)' /\ Active(w)' = Active(w) /\ (Busy(w)' <=> Busy(w))
  BY <1>3 DEF Commands, Active, Busy, Typed, WorkersTyped, WorkerType
<1>7. /\ \A b \in All : Writes(b, w) => b = a
      /\ Busy(w) /\ ~Commands(w) /\ \A t \in All : Active(w) = t => Role(t) = "rest"
  BY <1>1, <1>2, WriterFacts
<1>8. /\ \A b \in All : \A j : Handing(b, j)' <=> Handing(b, j)
      /\ \A b \in All : \A v : SetsData(b, v)' <=> SetsData(b, v) \/ (b = a /\ v = w)
      /\ \A v : ~Resumer(a, v) /\ (Resumer(a, v)' <=> v = w)
  BY <1>1, <1>2, <1>4, OrdersApart DEF Handing, SetsData, Resumer
<1>9. \A v \in Workers : \A j : Ordered(v, j)' <=> Ordered(v, j)
  <2>1. \A j : ~Ordered(w, j) /\ ~Ordered(w, j)'
    BY <1>7, <1>8 DEF Ordered, Commanded, Commands
  <2>2. \A v \in Workers \ {w} : \A j : Ordered(v, j)' <=> Ordered(v, j)
    BY <1>6, <1>8 DEF Ordered, Commanded
  <2> QED
    BY <2>1, <2>2
<1>10. OnePlace' /\ Begun'
  BY <1>1, <1>5, <1>8, <1>9, PlaceStays DEF Placed
<1>11. Setters'
  BY <1>5, <1>6, <1>8 DEF Placed, Setters, Commands
<1>12. Obeyed'
  <2>1. \A v \in Workers : v # w => (Commands(v)' <=> Commands(v)) /\ Active(v)' = Active(v) /\ (Busy(v)' <=> Busy(v))
    BY <1>6 DEF Commands, Active, Busy
  <2>2. \A t \in All : Role(t)' = Role(t)
    BY <1>4 DEF Apart, Role
  <2>3. \A b \in All : Completed(b) => Completed(b)'
    BY <1>1 DEF Completed
  <2>4. Minds({a})
    BY <1>1, <1>4, <1>6, <1>7, <1>8, <2>1, <2>2, <2>3 DEF Minds, Apart
  <2> QED
    BY <1>1, <2>4, MindsObeyed DEF Placed
<1>13. Tasks'
  BY <1>1, <1>4, <1>5, OrdersApart DEF Placed, Tasks
<1> QED
  BY <1>10, <1>11, <1>12, <1>13 DEF Placed

\* The command of a worker gets its task.
LEMMA PlacedData ==
  ASSUME Typed, Shape, Placed, NEW a \in All, setData(a)
  PROVE  Placed'
<1>1. pc[a] = "setData" /\ UNCHANGED <<settings, threadQueue, packages, call, begun, task>>
  BY DEF setData, Write, At, queue, history
<1>2. PICK w \in Workers : w = call[a].worker /\ Writes(a, w) /\ pc[a] \in Calls
  BY <1>1, WrittenWorker
<1>3. PICK k \in 1 .. handed : call[a].arg = k
  BY <1>1 DEF Typed, CallsTyped, CallTyped
<1>4. pc' = [pc EXCEPT ![a] = "resumeActive"] /\ workers' = [workers EXCEPT ![w] = [workers[w] EXCEPT !.data = k]]
  BY <1>2, <1>3 DEF setData, Write, Goto, Of
<1>5. /\ Apart(a) /\ pc'[a] = "resumeActive" /\ call'[a].arg = call[a].arg /\ Role(a)' = Role(a)
      /\ Working(a) => Working(a)'
  BY <1>1, <1>2, <1>4, GoesOnInCall DEF Calls
<1>6. Workers' = Workers /\ Threads' = Threads /\ 1 .. handed \subseteq 0 .. MaxTasks
  BY <1>1, SameSettings, HandedFacts DEF Threads, Needed
<1>7. /\ \A v \in Workers \ {w} : workers'[v] = workers[v]
      /\ (Commands(w)' <=> Commands(w)) /\ Active(w)' = Active(w) /\ (Busy(w)' <=> Busy(w)) /\ workers'[w].data = k
  BY <1>4 DEF Commands, Active, Busy, Typed, WorkersTyped, WorkerType
<1>8. (\A b \in All : Writes(b, w) => b = a) /\ Commands(w)
  BY <1>1, <1>2, WriterFacts DEF Placed, Setters, SetsData
<1>9. /\ \A b \in All : \A j : Handing(b, j)' <=> Handing(b, j) /\ b # a
      /\ \A j : Handing(a, j) <=> j = k
      /\ \A b \in All : \A v : SetsData(b, v)' <=> SetsData(b, v) /\ b # a
      /\ \A v : SetsData(a, v) <=> v = w
      /\ \A v : Resumer(a, v)' <=> Resumer(a, v)
  BY <1>1, <1>2, <1>3, <1>5, OrdersApart DEF Handing, SetsData, Resumer
<1>10. \A b \in All : ~SetsData(b, w)'
  BY <1>8, <1>9 DEF SetsData, Writes, Writing
<1>11. /\ \A j : ~Ordered(w, j) /\ (Ordered(w, j)' <=> j = k)
       /\ \A v \in Workers \ {w} : \A j : Ordered(v, j)' <=> Ordered(v, j)
  <2>1. \A j : ~Ordered(w, j) /\ (Ordered(w, j)' <=> j = k)
    BY <1>7, <1>8, <1>9, <1>10 DEF Ordered, Commanded, Commands
  <2>2. \A v \in Workers \ {w} : \A j : Ordered(v, j)' <=> Ordered(v, j)
    BY <1>7, <1>9 DEF Ordered, Commanded
  <2> QED
    BY <2>1, <2>2
<1>12. \A j : Queued(j)' <=> Queued(j)
  BY <1>1 DEF Queued
<1>13. OnePlace'
  <2>1. k \in 0 .. MaxTasks /\ OnePlace /\ ~Queued(k) /\ (\A v \in Workers : ~Ordered(v, k))
        /\ \A b \in All : Handing(b, k) => b = a
    BY <1>6, <1>9 DEF Placed, OnePlace
  <2>2. \A j \in 0 .. MaxTasks : \A v \in Workers : Ordered(v, j)' => Ordered(v, j) \/ (v = w /\ j = k)
    BY <1>11
  <2>3. \A j \in 0 .. MaxTasks : \A u, v \in Workers : Ordered(u, j)' /\ Ordered(v, j)' => u = v
    BY <2>1, <2>2 DEF OnePlace
  <2>4. \A j \in 0 .. MaxTasks :
          /\ \A b, c \in All : Handing(b, j)' /\ Handing(c, j)' => b = c
          /\ Queued(j)' => (\A b \in All : ~Handing(b, j)') /\ (\A v \in Workers : ~Ordered(v, j)')
          /\ \A b \in All : \A v \in Workers : ~(Handing(b, j)' /\ Ordered(v, j)')
    BY <1>9, <1>12, <2>1, <2>2 DEF OnePlace
  <2> QED
    BY <1>1, <1>6, <2>1, <2>3, <2>4 DEF OnePlace
<1>14. Begun'
  <2>1. \A j \in 0 .. MaxTasks : Held(j)' <=> Held(j)
    <3> SUFFICES ASSUME NEW j \in 0 .. MaxTasks PROVE Held(j)' <=> Held(j)
      OBVIOUS
    <3>1. (\E b \in All : Handing(b, j)) <=> (\E b \in All : Handing(b, j)') \/ j = k
      BY <1>9
    <3>2. (\E v \in Workers : Ordered(v, j)') <=> (\E v \in Workers : Ordered(v, j)) \/ j = k
      BY <1>11
    <3> QED
      BY <1>6, <1>12, <3>1, <3>2 DEF Held
  <2> QED
    BY <1>1, <1>6, <2>1 DEF Placed, Begun, handed
<1>15. Setters'
  BY <1>6, <1>7, <1>9, <1>10 DEF Placed, Setters, Commands
<1>16. Obeyed'
  <2>1. \A v \in Workers : (Commands(v)' <=> Commands(v)) /\ Active(v)' = Active(v) /\ (Busy(v)' <=> Busy(v))
    BY <1>7 DEF Commands, Active, Busy
  <2>2. \A b \in All : Completed(b) => Completed(b)'
    BY <1>1 DEF Completed
  <2>3. Minds({a})
    BY <1>1, <1>5, <1>9, <2>1, <2>2 DEF Minds, Apart
  <2> QED
    BY <1>1, <2>3, MindsObeyed DEF Placed
<1>17. Tasks'
  BY <1>1, <1>5, <1>6, OrdersApart DEF Placed, Tasks
<1> QED
  BY <1>13, <1>14, <1>15, <1>16, <1>17 DEF Placed

\* The thread of the worker is woken for its command, or to poll.
LEMMA PlacedResumeActive ==
  ASSUME Typed, Shape, Placed, NEW a \in All, resumeActive(a)
  PROVE  Placed'
<1>1. pc[a] = "resumeActive" /\ UNCHANGED <<settings, threadQueue, workers, call, begun, task>>
  BY DEF resumeActive, At, queue, history
<1>2. PICK w \in Workers : w = call[a].worker /\ Writes(a, w) /\ pc[a] \in Calls
  BY <1>1, WrittenWorker
<1>3. PICK t \in All : t = Active(w)
  BY BelongsFacts
<1>4. pc' = [pc EXCEPT ![a] = call[a].back] /\ packages' = [packages EXCEPT ![t].completed = TRUE]
  BY <1>2, <1>3 DEF resumeActive, Return, Goto, resume, Active
<1>5. /\ Apart(a) /\ pc'[a] = call[a].back /\ Role(a)' = Role(a)
      /\ Working(a) => Working(a)'
  BY <1>1, <1>2, <1>4, GoesOnInCall
<1>6. call[a].back \notin {"start", "setCallFunction", "setData", "resumeActive"}
  BY <1>1 DEF Typed, CallsTyped, CallTyped, BacksOf, Calls
<1>7. Workers' = Workers /\ Threads' = Threads
  BY <1>1, SameSettings DEF Threads, Needed
<1>8. /\ \A b \in All : \A j : Handing(b, j)' <=> Handing(b, j)
      /\ \A b \in All : \A v : SetsData(b, v)' <=> SetsData(b, v)
      /\ \A v : Resumer(a, v) <=> v = w
  BY <1>1, <1>2, <1>5, <1>6, OrdersApart DEF Handing, SetsData, Resumer
<1>9. \A v \in Workers : \A j : Ordered(v, j)' <=> Ordered(v, j)
  BY <1>1, <1>8 DEF Ordered, Commanded
<1>10. OnePlace' /\ Begun'
  BY <1>1, <1>7, <1>8, <1>9, PlaceStays DEF Placed
<1>11. Setters'
  BY <1>1, <1>7, <1>8 DEF Placed, Setters, Commands
<1>12. Obeyed'
  <2>1. \A v \in Workers : (Commands(v)' <=> Commands(v)) /\ Active(v)' = Active(v) /\ (Busy(v)' <=> Busy(v))
    BY <1>1 DEF Commands, Active, Busy
  <2>2. (\A b \in All : Completed(b) => Completed(b)') /\ Completed(t)'
    BY <1>4, ResumeCompletes DEF Completed, Typed, PackagesTyped
  <2>3. Minds({a})
    BY <1>1, <1>3, <1>5, <1>8, <2>1, <2>2 DEF Minds, Apart
  <2> QED
    BY <1>1, <2>3, MindsObeyed DEF Placed
<1>13. Tasks'
  BY <1>1, <1>5, <1>7, OrdersApart DEF Placed, Tasks
<1> QED
  BY <1>10, <1>11, <1>12, <1>13 DEF Placed

\* A task begins that was in one place, and is in none afterwards.
LEMMA TaskBegins ==
  ASSUME Typed, Begun, NEW k \in 0 .. MaxTasks, Held(k), begun' = [begun EXCEPT ![k] = @ + 1],
         \A j \in 0 .. MaxTasks : Held(j)' <=> Held(j) /\ j # k
  PROVE  Begun' /\ handed' = handed
<1>1. k \in 1 .. handed /\ begun[k] = 0 /\ 1 .. handed \subseteq 0 .. MaxTasks
  BY HandedFacts DEF Begun
<1>2. handed' = handed /\ begun'[k] = 1 /\ \A j \in 1 .. handed : j # k => begun'[j] = begun[j]
  BY <1>1 DEF handed, Typed, OthersTyped
<1> QED
  BY <1>1, <1>2 DEF Begun

\* A thread that is awake has the command of its own worker at most.
LEMMA OwnCommand ==
  ASSUME Typed, Shape, NEW t \in Threads, pc[t] \in {"command", "loop"}
  PROVE  /\ t \in All /\ Worker(t) \in Workers
         /\ \A b \in All : ~Writes(b, Worker(t))
         /\ \A w \in Workers : Active(w) = t => w = Worker(t)
         /\ Role(t) = "awake"
<1>1. Role(t) = "awake"
  BY DEF Role, RoleOf
<1>2. t \in All /\ Worker(t) \in Workers /\ Belongs(t, Worker(t))
  BY EntryBelongs
<1>3. (\A b \in All : ~Writes(b, Worker(t))) /\ Active(Worker(t)) = t
  BY <1>1, <1>2, AwakeActive
<1> QED
  BY <1>1, <1>2, <1>3, ActiveOnce

\* The thread of a worker takes its command, or finds none.
LEMMA PlacedIssue ==
  ASSUME Typed, Shape, Placed, NEW t \in Threads, issueFunctionCall(t)
  PROVE  Placed'
<1>1. /\ pc[t] = "command" /\ UNCHANGED <<settings, threadQueue, packages, call>>
  BY DEF issueFunctionCall, At, queue
<1>2. PICK w \in Workers : w = Worker(t)
  BY <1>1, OwnCommand
<1>3. /\ t \in All /\ (\A b \in All : ~Writes(b, w)) /\ Role(t) = "awake"
      /\ \A v \in Workers : Active(v) = t => v = w
  BY <1>1, <1>2, OwnCommand
<1>4. PICK l \in {"task", "loop"} :
        /\ pc' = [pc EXCEPT ![t] = l]
        /\ \/ /\ l = "task" /\ Commands(w) /\ task' = [task EXCEPT ![t] = workers[w].data]
              /\ workers' = [workers EXCEPT ![w].callFunction = FALSE]
              /\ begun' = [begun EXCEPT ![workers[w].data] = @ + 1]
           \/ l = "loop" /\ ~Commands(w) /\ UNCHANGED <<workers, task, begun>>
  BY <1>2 DEF issueFunctionCall, Begin, Goto, Commands
<1>5. Apart(t) /\ pc'[t] = l
  BY <1>1, <1>3, <1>4 DEF Apart, Typed, PlacesTyped
<1>6. Workers' = Workers /\ Threads' = Threads
  BY <1>1, SameSettings DEF Threads, Needed
<1>7. /\ \A v \in Workers \ {w} : workers'[v] = workers[v]
      /\ ~Commands(w)' /\ workers'[w].activeThread = workers[w].activeThread
      /\ workers'[w].threadBusy = workers[w].threadBusy
  BY <1>4 DEF Commands, Typed, WorkersTyped, WorkerType
<1>8. /\ \A b \in All : \A j : Handing(b, j)' <=> Handing(b, j)
      /\ \A b \in All : \A v : SetsData(b, v)' <=> SetsData(b, v)
      /\ \A v : ~SetsData(t, v) /\ ~Resumer(t, v)
      /\ \A b \in All : ~SetsData(b, w)
  <2>1. \A j : ~Handing(t, j) /\ ~Handing(t, j)'
    BY <1>1, <1>4, <1>5 DEF Handing
  <2>2. \A v : ~SetsData(t, v) /\ ~SetsData(t, v)' /\ ~Resumer(t, v)
    BY <1>1, <1>4, <1>5 DEF SetsData, Resumer
  <2>3. \A b \in All : ~SetsData(b, w)
    BY <1>3 DEF SetsData, Writes, Writing
  <2> QED
    BY <1>3, <1>5, <2>1, <2>2, <2>3, OrdersApart
<1>9. \A v \in Workers \ {w} : \A j : Ordered(v, j)' <=> Ordered(v, j)
  BY <1>7, <1>8 DEF Ordered, Commanded
<1>10. \A j : ~Ordered(w, j)'
  BY <1>7 DEF Ordered, Commanded, Commands
<1>11. \A j : Queued(j)' <=> Queued(j)
  BY <1>1 DEF Queued
<1>12. OnePlace' /\ Begun' /\ (handed' = handed)
  <2>1. CASE l = "task" /\ Commands(w) /\ begun' = [begun EXCEPT ![workers[w].data] = @ + 1]
    <3>1. PICK k \in 0 .. MaxTasks : k = workers[w].data
      BY DEF Typed, WorkersTyped, WorkerType
    <3>2. \A j : Ordered(w, j) <=> j = k
      BY <1>8, <2>1, <3>1 DEF Ordered, Commanded, Commands
    <3>3. /\ \A v \in Workers : Ordered(v, k) => v = w
          /\ ~Queued(k) /\ \A b \in All : ~Handing(b, k)
      BY <3>2 DEF Placed, OnePlace
    <3>4. \A j \in 0 .. MaxTasks : Held(j)' <=> Held(j) /\ j # k
      <4> SUFFICES ASSUME NEW j \in 0 .. MaxTasks PROVE Held(j)' <=> Held(j) /\ j # k
        OBVIOUS
      <4>1. (\E v \in Workers : Ordered(v, j)') <=> (\E v \in Workers : Ordered(v, j)) /\ j # k
        BY <1>9, <1>10, <3>2, <3>3
      <4> QED
        BY <1>6, <1>8, <1>11, <3>3, <4>1 DEF Held
    <3>5. Held(k)
      BY <3>2 DEF Held
    <3>6. Begun' /\ handed' = handed
      BY <2>1, <3>1, <3>4, <3>5, TaskBegins DEF Placed
    <3>7. OnePlace'
      <4>1. \A v \in Workers : \A j : Ordered(v, j)' => Ordered(v, j)
        BY <1>9, <1>10
      <4> QED
        BY <1>1, <1>6, <1>8, <1>11, <4>1 DEF Placed, OnePlace
    <3> QED
      BY <3>6, <3>7
  <2>2. CASE l = "loop" /\ ~Commands(w) /\ UNCHANGED <<workers, task, begun>>
    <3>1. \A v \in Workers : \A j : Ordered(v, j)' <=> Ordered(v, j)
      BY <1>9, <1>10, <2>2 DEF Ordered, Commanded, Commands
    <3> QED
      BY <1>1, <1>6, <1>8, <2>2, <3>1, PlaceStays DEF Placed, handed
  <2> QED
    BY <1>4, <2>1, <2>2
<1>13. Setters'
  BY <1>6, <1>7, <1>8 DEF Placed, Setters, Commands
<1>14. Obeyed'
  <2>1. \A v \in Workers : v # w => (Commands(v)' <=> Commands(v)) /\ Active(v)' = Active(v) /\ (Busy(v)' <=> Busy(v))
    BY <1>7 DEF Commands, Active, Busy
  <2>2. \A b \in All : Completed(b) => Completed(b)'
    BY <1>1 DEF Completed
  <2>3. Minds({t})
    BY <1>3, <1>5, <1>7, <1>8, <2>1, <2>2 DEF Minds, Apart
  <2> QED
    BY <1>1, <1>3, <2>3, MindsObeyed DEF Placed
<1>15. Tasks'
  <2>1. l = "task" => Working(t)'
    BY <1>5 DEF Working
  <2>2. l = "loop" => task' = task /\ ~Working(t)
    BY <1>1, <1>4 DEF Working, Waiting, InCall, Calls
  <2>3. \A b \in All \ {t} : task'[b] = task[b]
    BY <1>4 DEF Typed, OthersTyped
  <2> QED
    BY <1>3, <1>4, <1>5, <1>6, <2>1, <2>2, <2>3, OrdersApart DEF Placed, Tasks
<1> QED
  BY <1>12, <1>13, <1>14, <1>15 DEF Placed

\* The other elements of a list stay in it when the first one is taken away.
LEMMA TailRest ==
  ASSUME NEW S, NEW s \in Seq(S), s # <<>>
  PROVE  \A e : InSeq(e, s) => e = Head(s) \/ InSeq(e, Tail(s))
<1>1. /\ Len(s) \in Nat \ {0} /\ Len(Tail(s)) = Len(s) - 1 /\ Head(s) = s[1]
      /\ \A i \in 1 .. Len(s) - 1 : Tail(s)[i] = s[i + 1]
  OBVIOUS
<1>2. ASSUME NEW i \in 1 .. Len(s), i # 1 PROVE i - 1 \in 1 .. Len(s) - 1 /\ Tail(s)[i - 1] = s[i]
  BY <1>1, <1>2
<1> QED
  BY <1>1, <1>2 DEF InSeq

\* A thread takes a task from the queue.
LEMMA PlacedTake ==
  ASSUME Typed, Shape, Placed, NEW t \in Threads, takeFromQueue(t)
  PROVE  Placed'
<1>1. /\ pc[t] = "loop" /\ threadQueue # <<>> /\ UNCHANGED <<settings, workers, packages, call>>
      /\ pc' = [pc EXCEPT ![t] = "task"] /\ threadQueue' = Tail(threadQueue)
      /\ task' = [task EXCEPT ![t] = Head(threadQueue)]
      /\ begun' = [begun EXCEPT ![Head(threadQueue)] = @ + 1]
  BY DEF takeFromQueue, At, Begin, Goto, Popped
<1>2. t \in All /\ Role(t) = "awake"
  BY <1>1, OwnCommand
<1>3. Workers' = Workers /\ Threads' = Threads /\ threadQueue \in Seq(1 .. MaxTasks)
  BY <1>1, SameSettings DEF Threads, Needed, Typed, OthersTyped
<1>4. PICK k \in 0 .. MaxTasks : k = Head(threadQueue)
  BY <1>1, <1>3, TailFacts, HandedFacts
<1>5. Apart(t) /\ pc'[t] = "task"
  BY <1>1, <1>2 DEF Apart, Typed, PlacesTyped
<1>6. /\ \A b \in All : \A j : Handing(b, j)' <=> Handing(b, j)
      /\ \A b \in All : \A v : SetsData(b, v)' <=> SetsData(b, v)
      /\ \A v : ~Resumer(t, v)
  <2>1. \A j : ~Handing(t, j) /\ ~Handing(t, j)'
    BY <1>1, <1>5 DEF Handing
  <2>2. \A v : ~SetsData(t, v) /\ ~SetsData(t, v)' /\ ~Resumer(t, v)
    BY <1>1, <1>5 DEF SetsData, Resumer
  <2> QED
    BY <1>2, <1>5, <2>1, <2>2, OrdersApart
<1>7. \A v \in Workers : \A j : Ordered(v, j)' <=> Ordered(v, j)
  BY <1>1, <1>6 DEF Ordered, Commanded
<1>8. /\ Queued(k) /\ OneToOne(threadQueue)'
      /\ \A j : Queued(j)' <=> Queued(j) /\ j # k
  BY <1>1, <1>3, <1>4, TailFacts, TailRest DEF Queued, Placed, OnePlace
<1>9. OnePlace'
  BY <1>3, <1>6, <1>7, <1>8 DEF Placed, OnePlace
<1>10. Begun' /\ handed' = handed
  <2>1. (\A b \in All : ~Handing(b, k)) /\ (\A v \in Workers : ~Ordered(v, k)) /\ Held(k)
    BY <1>8 DEF Placed, OnePlace, Held
  <2>2. \A j \in 0 .. MaxTasks : Held(j)' <=> Held(j) /\ j # k
    <3> SUFFICES ASSUME NEW j \in 0 .. MaxTasks PROVE Held(j)' <=> Held(j) /\ j # k
      OBVIOUS
    <3>1. (\E v \in Workers : Ordered(v, j)') <=> (\E v \in Workers : Ordered(v, j))
      BY <1>7
    <3> QED
      BY <1>3, <1>6, <1>8, <2>1, <3>1 DEF Held
  <2> QED
    BY <1>1, <1>4, <2>1, <2>2, TaskBegins DEF Placed
<1>11. Setters'
  BY <1>1, <1>3, <1>6 DEF Placed, Setters, Commands
<1>12. Obeyed'
  <2>1. \A v \in Workers : (Commands(v)' <=> Commands(v)) /\ Active(v)' = Active(v) /\ (Busy(v)' <=> Busy(v))
    BY <1>1 DEF Commands, Active, Busy
  <2>2. \A b \in All : Completed(b) => Completed(b)'
    BY <1>1 DEF Completed
  <2>3. Minds({t})
    BY <1>1, <1>2, <1>5, <1>6, <2>1, <2>2 DEF Minds, Apart
  <2> QED
    BY <1>1, <1>2, <2>3, MindsObeyed DEF Placed
<1>13. Tasks'
  <2>1. Working(t)' /\ \A b \in All \ {t} : task'[b] = task[b]
    BY <1>1, <1>5 DEF Working, Typed, OthersTyped
  <2> QED
    BY <1>2, <1>3, <1>5, <2>1, OrdersApart DEF Placed, Tasks
<1> QED
  BY <1>9, <1>10, <1>11, <1>12, <1>13 DEF Placed

\* At first there are no tasks.
LEMMA PlacedInit == Init => Placed
<1> SUFFICES ASSUME Init PROVE Placed
  OBVIOUS
<1>1. \A w \in Workers : ~Commands(w)
  BY DEF Init, newWorkerThread, Commands
<1>2. \A a \in All : pc[a] \in {"init", "poll", "gone", "asleep"}
  BY DEF Init
<1>3. /\ \A a \in All : \A k : ~Handing(a, k)
      /\ \A a \in All : \A w : ~SetsData(a, w)
  BY <1>2 DEF Handing, SetsData
<1>4. /\ \A w \in Workers : \A k : ~Ordered(w, k)
      /\ \A k : ~Queued(k)
  <2>1. \A w \in Workers : \A k : ~Ordered(w, k)
    BY <1>1 DEF Ordered, Commanded, Commands
  <2>2. threadQueue = <<>> /\ \A k : ~InSeq(k, <<>>)
    BY DEF InSeq, Init
  <2> QED
    BY <2>1, <2>2 DEF Queued
<1>5. handed = 0 /\ OneToOne(threadQueue) /\ \A a \in All : task[a] = NoTask
  BY DEF Init, handed, OneToOne
<1>6. \A k : ~Held(k)
  BY <1>3, <1>4 DEF Held
<1> QED
  BY <1>1, <1>3, <1>4, <1>5, <1>6 DEF Placed, Obeyed, Setters, OnePlace, Begun, Tasks

\* The invariant of a calm behaviour, with where each task is.
InPlace == InTurn /\ Placed

\* A step in a function of the pool.
LEMMA PlacedSteps ==
  ASSUME InPlace, NoError', NEW a \in All, Steps(a)
  PROVE  Placed'
<1> USE DEF InPlace, InTurn
<1>1. pc'[a] # "error"
  <2>1. All' = All
    BY DEF All, Threads, Needed
  <2> QED
    BY <2>1 DEF NoError
<1> QED
  BY <1>1, PlacedStart, PlacedCallFunction, PlacedData, PlacedResumeActive, PlacedLaunch, PlacedWait,
     PlacedPauseActive, PlacedMark, PlacedMarkBusy, PlacedTest DEF Steps

\* A step of user code, or of a poll.
LEMMA PlacedCalls ==
  ASSUME InPlace, NEW a \in All, UserCode(a) \/ pollDelivers(a) \/ checkForLocalTermination(a)
  PROVE  Placed'
<1> USE DEF InPlace, InTurn
<1>1. CASE UserCode(a)
  <2>1. pc[a] = "task" /\ Caller(a) /\ BackOf(a) = "task"
    BY <1>1 DEF UserCode, At, Caller, BackOf
  <2> QED
    BY <1>1, <2>1, PlacedSubmit, PlacedCaller DEF UserCode
<1>2. CASE pollDelivers(a)
  <2>1. Caller(a) /\ BackOf(a) = Polled(a)
    BY <1>2 DEF pollDelivers, At, Caller, BackOf
  <2> QED
    BY <1>2, <2>1, PlacedSubmit, PlacedCaller DEF pollDelivers
<1>3. CASE checkForLocalTermination(a)
  BY <1>3, PlacedTest
<1> QED
  BY <1>1, <1>2, <1>3

\* Every calm step keeps the invariant.
LEMMA InPlaceNext ==
  ASSUME RestartsBeside, InPlace, [Next]_vars, [Calm]_vars
  PROVE  InPlace'
<1> USE DEF InPlace
<1>1. InTurn'
  BY InTurnNext
<1>2. NoError'
  <2>1. InTurn => NoError
    BY TypedNoError DEF InTurn
  <2> QED
    BY <1>1, <2>1, TypedNoError, PTL DEF InTurn
<1>3. CASE vars' = vars
  BY <1>1, <1>3, PlacedStutters DEF InTurn
<1>4. CASE Next /\ vars' # vars
  <2>1. ASSUME NEW a \in All, Steps(a) \/ UserCode(a) \/ pollDelivers(a) \/ checkForLocalTermination(a)
        PROVE  Placed'
    BY <1>2, <2>1, PlacedSteps, PlacedCalls
  <2>2. ASSUME NEW t \in Threads, Entry(t) PROVE Placed'
    BY <2>2, PlacedEntry, PlacedIssue, PlacedTake, PlacedLook DEF Entry, InTurn
  <2>3. MainSteps \/ edatRestart => Placed'
    BY PlacedMain, PlacedRestart DEF InTurn
  <2> QED
    BY <1>1, <1>4, <2>1, <2>2, <2>3 DEF Next, Stopped
<1> QED
  BY <1>3, <1>4

\* It holds in every calm behaviour.
LEMMA AlwaysInPlace ==
  ASSUME RestartsBeside
  PROVE  CalmSpec => []InPlace
<1>1. Init => InPlace
  BY TypedInit, TInvInit, ShapeInit, TypedNoError, PlacedInit DEF InPlace, InTurn, TInv, Stuck
<1>2. InPlace /\ [Next]_vars /\ [Calm]_vars => InPlace'
  BY InPlaceNext
<1> QED
  BY <1>1, <1>2, PTL DEF CalmSpec, Spec

\* Calm behaviours, first.  No task is executed twice: no command is read twice,
\* and none is queued or written to a second worker as well.
LEMMA CalmRunsOnce ==
  ASSUME RestartsBeside
  PROVE  CalmSpec => []RunsOnce
<1>1. InPlace => RunsOnce
  BY DEF InPlace, Placed, Begun, RunsOnce
<1> QED
  BY <1>1, AlwaysInPlace, PTL

\* No task is lost: the command of a worker is not overwritten, cleared or
\* missed between startThread and the thread that reads it.
LEMMA CalmNoTaskLost ==
  ASSUME RestartsBeside
  PROVE  CalmSpec => []NoTaskLost
<1>1. InPlace => NoTaskLost
  BY DEF InPlace, Placed, Begun, Held, Queued, InSeq, Ordered, NoTaskLost
<1> QED
  BY <1>1, AlwaysInPlace, PTL

\* Each worker executes one task at a time: of its threads only the active one
\* is in a task that does not wait.
LEMMA CalmOneTaskAtATime ==
  ASSUME RestartsBeside
  PROVE  CalmSpec => []OneTaskAtATime
<1>1. InPlace => OneTaskAtATime
  <2> SUFFICES ASSUME InPlace, NEW t \in Threads, NEW u \in Threads, Executing(t), Executing(u),
                      Worker(t) = Worker(u)
               PROVE  t = u
    BY DEF OneTaskAtATime
  <2>1. ASSUME NEW a \in Threads, Executing(a)
        PROVE  a \in All /\ Worker(a) \in Workers /\ Active(Worker(a)) = a
    <3>1. a \in All /\ Working(a)
      BY <2>1, Names DEF InPlace, Placed, Tasks, Executing
    <3>2. Role(a) = "awake" /\ pc[a] # "asleep"
      BY <2>1, <3>1 DEF Working, InCall, Waiting, Executing, Role, RoleOf, Calls
    <3>3. Worker(a) \in Workers /\ Belongs(a, Worker(a))
      BY <3>2, EntryBelongs DEF InPlace, InTurn
    <3> QED
      BY <3>1, <3>2, <3>3, AwakeActive DEF InPlace, InTurn
  <2> QED
    BY <2>1
<1> QED
  BY <1>1, AlwaysInPlace, PTL

-----------------------------------------------------------------------------
(* Who looks after a worker                                                *)

MarksBusy(w) == \E a \in All : pc[a] = "markBusy" /\ call[a].worker = w
Hands(w) == \E h \in All : Belongs(h, w) /\ Role(h) = "handOver"
Written(w) == \E a \in All : Writes(a, w)
HasPaused(w) == workers[w].pausedThreads # {}
HasReady(w) == workers[w].waitingThreads # <<>>
Quiet(t) == Role(t) = "rest" /\ ~Completed(t)

\* An idle worker whose thread is not at rest has a thread that waits for its
\* events, or one that has just stopped to.
Unsettled(w) == \A t \in All :
  Active(w) = t /\ ~Busy(w) /\ ~Quiet(t) => HasPaused(w) \/ MarksBusy(w)

\* The thread of a busy worker is awake, about to go on, or will be resumed.
Given(w) == \A t \in All : Active(w) = t /\ Busy(w) /\ Quiet(t) => Written(w)

\* A worker beside the main thread does not go idle while one of its threads
\* waits to go on.
Noticed(w) == \A t \in All :
  ~settings.mainIsWorker /\ Active(w) = t /\ ~Busy(w) /\ Quiet(t) /\ HasReady(w) => MarksBusy(w)

\* A thread that was given the worker back will be resumed.
Relieved(w) == \A t \in All : Active(w) = t /\ Role(t) = "paused" /\ ~Completed(t) => Hands(w)

Watch(w) == Unsettled(w) /\ Given(w) /\ Noticed(w) /\ Relieved(w)

\* A thread of a worker that is not its active one is in one of its lists.
Located(w) == \A t \in Threads :
  Belongs(t, w) /\ Active(w) # t => IsSpare(t, w) \/ IsPaused(t, w) \/ IsReady(t, w)

Watched == \A w \in Workers : Watch(w) /\ Located(w)

\* What a step that changes none of its lists must not do to a worker.
LEMMA WatchKept ==
  ASSUME Watched, settings' = settings, NEW w \in Workers, NEW t \in All, Active(w) = t, Active(w)' = t,
         HasPaused(w) => HasPaused(w)', HasReady(w)' => HasReady(w),
         Busy(w) => Busy(w)',
         Quiet(t)' => Quiet(t), Quiet(t) => Quiet(t)' \/ Busy(w)',
         Busy(w)' /\ Quiet(t)' /\ (Busy(w) => Written(w)) => Written(w)',
         MarksBusy(w) => MarksBusy(w)' \/ Busy(w)',
         Role(t)' = "paused" /\ ~Completed(t)' => Role(t) = "paused" /\ ~Completed(t) /\ (Hands(w) => Hands(w)')
  PROVE  Watch(w)'
<1>1. Watch(w)
  BY DEF Watched
<1>2. Unsettled(w)' /\ Given(w)'
  BY <1>1 DEF Watch, Unsettled, Given
<1>3. Noticed(w)' /\ Relieved(w)'
  BY <1>1 DEF Watch, Noticed, Relieved
<1> QED
  BY <1>2, <1>3 DEF Watch

\* The lists say the same.
LEMMA ListsLocate ==
  ASSUME Watched, ListsSame, settings' = settings, \A b \in All : packages'[b].worker = packages[b].worker
  PROVE  /\ \A w \in Workers : Located(w)'
         /\ \A w \in Workers : (HasPaused(w)' <=> HasPaused(w)) /\ (HasReady(w)' <=> HasReady(w))
         /\ \A b \in All : \A w : Belongs(b, w)' <=> Belongs(b, w)
<1>1. \A b \in All : \A w : Belongs(b, w)' <=> Belongs(b, w)
  BY DEF Belongs
<1>2. \A w \in Workers : (HasPaused(w)' <=> HasPaused(w)) /\ (HasReady(w)' <=> HasReady(w))
  BY DEF ListsSame, HasPaused, HasReady
<1>3. ASSUME NEW w \in Workers PROVE Located(w)'
  <2>1. Threads' = Threads
    BY DEF Threads, Needed
  <2> QED
    BY <1>1, <2>1, ListsViews, Names DEF Watched, Located
<1> QED
  BY <1>1, <1>2, <1>3

\* A thread moves, and no worker is left alone by that.
LEMMA WatchedMoves ==
  ASSUME Typed, Shape, Watched, NEW a \in All, NEW l, pc' = [pc EXCEPT ![a] = l],
         \A b \in All \ {a} : call'[b] = call[b], settings' = settings,
         \A b \in All : packages'[b].worker = packages[b].worker,
         \A b \in All, w \in Workers : Belongs(b, w) /\ b # a => (Completed(b)' <=> Completed(b)),
         ListsSame, \A w \in Workers : Busy(w)' <=> Busy(w),
         pc[a] # "markBusy", pc[a] \in Writing => l \in Writing /\ call'[a].worker = call[a].worker,
         \A w \in Workers : Belongs(a, w) =>
           \/ RoleOf(l, call'[a].back) = Role(a) /\ (Completed(a)' <=> Completed(a))
           \/ ~Quiet(a) /\ Role(a) # "handOver" /\ RoleOf(l, call'[a].back) = "awake"
           \/ pc[a] = "pauseMap" /\ Active(w) # a
  PROVE  Watched'
<1>1. Workers' = Workers
  BY SameSettings
<1>2. pc'[a] = l /\ Apart(a)
  BY DEF Typed, PlacesTyped, Apart
<1>3. Role(a)' = RoleOf(l, call'[a].back)
  BY <1>2 DEF Role
<1>4. /\ \A w \in Workers : Located(w)'
      /\ \A w \in Workers : (HasPaused(w)' <=> HasPaused(w)) /\ (HasReady(w)' <=> HasReady(w))
      /\ \A b \in All : \A w : Belongs(b, w)' <=> Belongs(b, w)
  BY ListsLocate
<1>5. ASSUME NEW w \in Workers PROVE Watch(w)'
  <2>1. PICK t \in All : t = Active(w)
    BY BelongsFacts
  <2>2. Active(w)' = t /\ Belongs(t, w)
    BY <2>1, ListsViews DEF Shape, Turns
  <2>3. MarksBusy(w) => MarksBusy(w)'
    BY <1>2 DEF MarksBusy, Apart
  <2>4. Written(w) => Written(w)'
    BY <1>2 DEF Written, Writes, Apart
  <2>5. Hands(w) => Hands(w)'
    <3> SUFFICES ASSUME NEW h \in All, Belongs(h, w), Role(h) = "handOver" PROVE Role(h)' = "handOver"
      BY <1>4 DEF Hands
    <3>1. h # a => Role(h)' = Role(h)
      BY <1>2, ApartViews
    <3>2. pc[h] # "pauseMap"
      BY DEF Role, RoleOf, Calls, Polls
    <3> QED
      BY <1>3, <3>1, <3>2
  <2>6. CASE t # a
    <3>1. Role(t)' = Role(t) /\ (Completed(t)' <=> Completed(t))
      BY <1>2, <2>2, <2>6, ApartViews
    <3> QED
      BY <1>4, <2>1, <2>2, <2>3, <2>4, <2>5, <3>1, WatchKept DEF Quiet
  <2>7. CASE t = a
    <3>1. \/ Role(t)' = Role(t) /\ (Completed(t)' <=> Completed(t))
          \/ ~Quiet(t) /\ Role(t)' = "awake"
      BY <1>3, <2>1, <2>2, <2>7
    <3> QED
      BY <1>4, <2>1, <2>2, <2>3, <2>4, <2>5, <3>1, WatchKept DEF Quiet
  <2> QED
    BY <2>6, <2>7
<1> QED
  BY <1>1, <1>4, <1>5 DEF Watched

\* The same, in a function that others call.
LEMMA WatchedInCall ==
  ASSUME Typed, Shape, Watched, NEW a \in All, pc[a] \in Calls \ {"markBusy"}, NEW l \in Calls \union {call[a].back},
         pc' = [pc EXCEPT ![a] = l], call' = call \/ \E w : call' = [call EXCEPT ![a].worker = w],
         pc[a] \in Writing => l \in Writing /\ call' = call,
         settings' = settings, \A b \in All : packages'[b].worker = packages[b].worker,
         \A b \in All, w \in Workers : Belongs(b, w) => (Completed(b)' <=> Completed(b)),
         ListsSame, \A w \in Workers : Busy(w)' <=> Busy(w)
  PROVE  Watched'
<1>1. call \in [All -> [arg : All \union (0 .. MaxTasks), worker : Workers \union {NoWorker}, back : Labels]]
  BY DEF Typed, CallsTyped
<1>2. call'[a].back = call[a].back /\ \A b \in All \ {a} : call'[b] = call[b]
  BY <1>1
<1>3. call[a].back \in {"task", "sleep", "poll", "polled", "asleep"}
  BY DEF Typed, CallsTyped, CallTyped, BacksOf
<1>4. RoleOf(l, call'[a].back) = Role(a)
  BY <1>2, <1>3, RoleInCall DEF Role
<1> QED
  BY <1>2, <1>4, WatchedMoves

\* Neither writing a command nor looking for a worker to poll does any harm, ...
LEMMA WatchedCommand ==
  ASSUME Typed, Shape, Watched, NEW a \in All,
         setCallFunction(a) \/ setData(a) \/ clearCallFunction(a)
           \/ launchThreadToPollForProgressIfPossible(a) \/ markPoller(a)
  PROVE  Watched'
<1>1. UNCHANGED <<settings, packages>> /\ \A b : Completed(b)' <=> Completed(b)
  BY DEF setCallFunction, setData, clearCallFunction, Write, launchThreadToPollForProgressIfPossible, markPoller,
         Completed
<1>2. CASE setCallFunction(a) \/ setData(a) \/ clearCallFunction(a)
  <2>1. /\ pc[a] \in {"setCallFunction", "setData", "clearCallFunction"} /\ call' = call
        /\ \E l \in {"setData", "resumeActive"} : pc' = [pc EXCEPT ![a] = l]
        /\ \/ \E b \in BOOLEAN : workers' = [workers EXCEPT ![call[a].worker] = [workers[call[a].worker] EXCEPT !.callFunction = b]]
           \/ \E k : workers' = [workers EXCEPT ![call[a].worker] = [workers[call[a].worker] EXCEPT !.data = k]]
    BY <1>2 DEF setCallFunction, setData, clearCallFunction, Write, At, Goto, Of
  <2>2. call[a].worker \in Workers
    BY <2>1 DEF Typed, CallsTyped, CallTyped, Writing
  <2>3. ListsSame /\ \A v \in Workers : Busy(v)' <=> Busy(v)
    BY <2>1, <2>2, ListsStay, BusyStays
  <2> QED
    BY <1>1, <2>1, <2>3, WatchedInCall DEF Calls, Writing
<1>3. CASE launchThreadToPollForProgressIfPossible(a) \/ markPoller(a)
  <2>1. /\ pc[a] \in {"launch", "markPoller"} /\ workers' = workers
        /\ \E l \in {"awaitPoller", call[a].back} : pc' = [pc EXCEPT ![a] = l]
        /\ call' = call \/ \E w : call' = [call EXCEPT ![a].worker = w]
    BY <1>3 DEF launchThreadToPollForProgressIfPossible, markPoller, At, Goto, Return
  <2>2. ListsSame /\ \A v \in Workers : Busy(v)' <=> Busy(v)
    BY <2>1, ListsStay DEF Busy
  <2> QED
    BY <1>1, <2>1, <2>2, WatchedInCall DEF Calls, Writing
<1> QED
  BY <1>2, <1>3

\* ... nor taking up a wait whose events have come.
LEMMA WatchedMark ==
  ASSUME Typed, Shape, Watched, NEW a \in All, markThreadResume(a), pc'[a] # "error"
  PROVE  Watched'
<1>1. /\ pc[a] = "mark" /\ workers' = workers /\ settings' = settings
      /\ \E l \in {"markWaiting", call[a].back, "error"} : pc' = [pc EXCEPT ![a] = l]
      /\ call' = call \/ \E w : call' = [call EXCEPT ![a].worker = w]
  BY DEF markThreadResume, At, Goto, Return
<1>2. PICK l \in {"markWaiting", call[a].back} : pc' = [pc EXCEPT ![a] = l]
  BY <1>1 DEF Typed, PlacesTyped
<1>3. /\ \A b \in All : packages'[b].worker = packages[b].worker
      /\ \A b \in All, w \in Workers : Belongs(b, w) => (Completed(b)' <=> Completed(b))
  <2>1. CASE packages' = packages
    BY <2>1 DEF Completed
  <2>2. CASE packages' = [packages EXCEPT ![Main].completed = TRUE] /\ pausedMainThreadDescriptor
    <3>1. \A w : ~Belongs(Main, w)
      BY <2>2 DEF Shape, MainPaused, Belongs
    <3>2. \A b \in All \ {Main} : packages'[b] = packages[b]
      BY <2>2 DEF Typed, PackagesTyped
    <3>3. packages'[Main].worker = packages[Main].worker
      BY <2>2, Names DEF Typed, PackagesTyped
    <3> QED
      BY <3>1, <3>2, <3>3 DEF Completed
  <2> QED
    BY <2>1, <2>2 DEF markThreadResume, resume
<1>4. ListsSame /\ \A v \in Workers : Busy(v)' <=> Busy(v)
  BY <1>1, ListsStay DEF Busy
<1>5. pc[a] \in Calls \ {"markBusy"} /\ pc[a] \notin Writing
  BY <1>1 DEF Calls, Writing
<1>6. l \in Calls \union {call[a].back}
  BY DEF Calls
<1> QED
  BY <1>1, <1>2, <1>3, <1>4, <1>5, <1>6, WatchedInCall

\* A thread of the pool goes on with its worker.
LEMMA WatchedEntry ==
  ASSUME Typed, Shape, Watched, NEW t \in Threads,
         issueFunctionCall(t) \/ takeFromQueue(t) \/ lookForWaiting(t) \/ startPolling(t)
           \/ pollReturns(t) \/ checkBusy(t) \/ stopPolling(t)
  PROVE  Watched'
<1>1. t \in All /\ UNCHANGED <<settings, packages>> /\ \A b : Completed(b)' <=> Completed(b)
  BY Names DEF issueFunctionCall, takeFromQueue, lookForWaiting, startPolling, pollReturns, checkBusy, stopPolling,
     Completed
<1>2. ListsSame /\ \A w \in Workers : Busy(w)' <=> Busy(w)
  <2>1. CASE issueFunctionCall(t)
    <3>1. /\ pc[t] = "command"
          /\ workers' = workers \/ workers' = [workers EXCEPT ![Worker(t)].callFunction = FALSE]
      BY <2>1 DEF issueFunctionCall, At
    <3>2. Worker(t) \in Workers
      BY <3>1, AwakeThread
    <3> QED
      BY <3>1, <3>2, ListsStay, BusyStays DEF Busy
  <2>2. CASE workers' = workers
    BY <2>2, ListsStay DEF Busy
  <2> QED
    BY <2>1, <2>2 DEF takeFromQueue, lookForWaiting, startPolling, pollReturns, checkBusy, stopPolling
<1>3. \E l : /\ pc' = [pc EXCEPT ![t] = l] /\ RoleOf(l, call'[t].back) = Role(t)
             /\ pc[t] # "markBusy" /\ pc[t] \notin Writing
  <2>1. CASE issueFunctionCall(t) \/ takeFromQueue(t) \/ lookForWaiting(t)
    <3>1. pc[t] \in {"command", "loop"} /\ \E l \in {"task", "loop", "look"} : pc' = [pc EXCEPT ![t] = l]
      BY <2>1 DEF issueFunctionCall, takeFromQueue, lookForWaiting, At, Begin, Goto
    <3>2. \A l \in {"task", "loop", "look"} : \A back : RoleOf(l, back) = Role(t)
      BY <3>1 DEF Role, RoleOf
    <3> QED
      BY <3>1, <3>2 DEF Writing
  <2>2. CASE startPolling(t) \/ pollReturns(t) \/ checkBusy(t)
    <3>1. pc[t] \in {"idle"} \union Polls /\ \E l \in {"asleep"} \union Polls : pc' = [pc EXCEPT ![t] = l]
      BY <2>2 DEF startPolling, pollReturns, checkBusy, At, Goto, GoesOn, Polls
    <3>2. \A l \in {"asleep"} \union Polls : \A back : RoleOf(l, back) = Role(t)
      BY <3>1 DEF Role, RoleOf, Calls, Polls
    <3> QED
      BY <3>1, <3>2 DEF Writing, Polls
  <2>3. CASE stopPolling(t)
    <3>1. /\ pc[t] = "stopPolling"
          /\ \/ pc' = [pc EXCEPT ![t] = "asleep"]
             \/ /\ pc' = [pc EXCEPT ![t] = "launch"]
                /\ call' = [call EXCEPT ![t] = [arg |-> NoTask, worker |-> NoWorker, back |-> "asleep"]]
      BY <2>3 DEF stopPolling, At, Goto, Call
    <3>2. RoleOf("launch", "asleep") = Role(t) /\ \A back : RoleOf("asleep", back) = Role(t)
      BY <3>1 DEF Role, RoleOf, Calls, Polls
    <3>3. pc' = [pc EXCEPT ![t] = "launch"] => call'[t].back = "asleep" \/ pc' = [pc EXCEPT ![t] = "asleep"]
      BY <1>1, <3>1 DEF Typed, CallsTyped
    <3> QED
      BY <3>1, <3>2, <3>3 DEF Writing
  <2> QED
    BY <2>1, <2>2, <2>3
<1>4. \A b \in All \ {t} : call'[b] = call[b]
  BY DEF issueFunctionCall, takeFromQueue, lookForWaiting, startPolling, pollReturns, checkBusy, stopPolling, Call,
     Typed, CallsTyped
<1> QED
  BY <1>1, <1>2, <1>3, <1>4, WatchedMoves

\* A thread that has paused goes on once it is woken.
LEMMA WatchedWakes ==
  ASSUME Typed, Shape, Watched, NEW a \in All,
         waitReturns(a) \/ (a \in Threads /\ (wake(a) \/ reactivated(a)))
  PROVE  Watched'
<1>1. /\ UNCHANGED <<settings, workers, call>> /\ pc[a] \in {"paused", "asleep", "spare"}
      /\ packages[a].completed /\ packages' = [packages EXCEPT ![a].completed = FALSE]
      /\ \/ pc[a] = "paused" /\ pc' = [pc EXCEPT ![a] = call[a].back]
         \/ packages[a].abort_thread
         \/ \E l \in {"command", "loop"} : pc' = [pc EXCEPT ![a] = l]
  BY DEF waitReturns, wake, reactivated, pauseReturns, At, Goto, Return
<1>2. pc[a] = "paused" => call[a].back = "task"
  BY DEF Typed, CallsTyped, CallTyped, Waiting
<1>3. PICK l \in {"task", "command", "loop"} : pc' = [pc EXCEPT ![a] = l]
  BY <1>1, <1>2 DEF Shape, Lasting
<1>4. \A back : RoleOf(l, back) = "awake"
  BY DEF RoleOf
<1>5. ~Quiet(a) /\ Role(a) # "handOver" /\ pc[a] # "markBusy" /\ pc[a] \notin Writing
  BY <1>1 DEF Quiet, Completed, Role, RoleOf, Calls, Polls, Writing
<1>6. /\ \A b \in All : packages'[b].worker = packages[b].worker
      /\ \A b \in All \ {a} : Completed(b)' <=> Completed(b)
  BY <1>1 DEF Completed, Typed, PackagesTyped
<1>7. ListsSame /\ \A v \in Workers : Busy(v)' <=> Busy(v)
  BY <1>1, ListsStay DEF Busy
<1> QED
  BY <1>1, <1>3, <1>4, <1>5, <1>6, <1>7, WatchedMoves

\* A thread that begins to wait is still awake, or is that of no worker.
LEMMA WatchedPause ==
  ASSUME Typed, Shape, Watched, NEW a \in All, pauseThread(a), pc'[a] # "error"
  PROVE  Watched'
<1>1. pc[a] = "pause" /\ UNCHANGED <<settings, workers, packages>>
  BY DEF pauseThread, At
<1>2. Role(a) = "awake" /\ ~(pc[a] \in Writing) /\ settings \in Settings
  BY <1>1 DEF Role, RoleOf, Writing, Typed, OthersTyped
<1>3. \E l : /\ pc' = [pc EXCEPT ![a] = l] /\ \A b \in All \ {a} : call'[b] = call[b]
             /\ l = "pauseActive" \/ \A w \in Workers : ~Belongs(a, w)
  <2>1. CASE findIndexFromThreadId(a) # NoWorker
    BY <2>1 DEF pauseThread, Goto, Typed, CallsTyped
  <2>2. CASE findIndexFromThreadId(a) = NoWorker
    <3>1. \A w \in Workers : ~Belongs(a, w)
      BY <1>2, <2>2, FoundWorker, AwakeActive DEF Active
    <3>2. call' = call /\ \E l : pc' = [pc EXCEPT ![a] = l]
      BY <2>2 DEF pauseThread, Goto
    <3> QED
      BY <3>1, <3>2
  <2> QED
    BY <2>1, <2>2
<1>4. \A back : RoleOf("pauseActive", back) = "awake"
  BY DEF RoleOf
<1>5. ListsSame /\ \A v \in Workers : Busy(v)' <=> Busy(v)
  BY <1>1, ListsStay DEF Busy
<1>6. \A b \in All : packages'[b].worker = packages[b].worker /\ (Completed(b)' <=> Completed(b))
  BY <1>1 DEF Completed
<1>7. PICK l : /\ pc' = [pc EXCEPT ![a] = l] /\ \A b \in All \ {a} : call'[b] = call[b]
               /\ l = "pauseActive" \/ \A w \in Workers : ~Belongs(a, w)
  BY <1>3
<1>8. \A w \in Workers : Belongs(a, w) => RoleOf(l, call'[a].back) = Role(a)
  BY <1>2, <1>4, <1>7
<1> QED
  BY <1>1, <1>2, <1>5, <1>6, <1>7, <1>8, WatchedMoves

\* A thread that waits is not the one that its worker needs.
LEMMA WatchedPauseMap ==
  ASSUME Typed, Shape, Watched, NEW a \in All, pauseMap(a)
  PROVE  Watched'
<1>1. /\ pc[a] = "pauseMap" /\ UNCHANGED <<settings, workers, packages, call>>
      /\ pc' = [pc EXCEPT ![a] = "paused"]
  BY DEF pauseMap, At, Goto
<1>2. PICK v \in Workers : v = call[a].worker
  BY <1>1 DEF Typed, CallsTyped, CallTyped
<1>3. Belongs(a, v) /\ Active(v) # a
  BY <1>1, <1>2 DEF Shape, Pausers, Pausing
<1>4. \A w \in Workers : Belongs(a, w) => Active(w) # a
  BY <1>3, BelongsFacts
<1>5. ListsSame /\ \A w \in Workers : Busy(w)' <=> Busy(w)
  BY <1>1, ListsStay DEF Busy
<1>6. \A b \in All : packages'[b].worker = packages[b].worker /\ (Completed(b)' <=> Completed(b))
  BY <1>1 DEF Completed
<1> QED
  BY <1>1, <1>4, <1>5, <1>6, WatchedMoves DEF Writing

\* Nor does a worker need the one that tests for termination, or calls the pool.
LEMMA WatchedTest ==
  ASSUME Typed, Shape, Watched, NEW a \in All,
         checkForLocalTermination(a) \/ lockMutexForFinalisationTest(a) \/ isThreadPoolFinished(a)
  PROVE  Watched'
<1>1. /\ UNCHANGED <<settings, packages>> /\ workers' = workers /\ call' = call
      /\ pc[a] \in {"poll", "lockPool", "test"}
      /\ \E l \in Polls \union {"gone"} : pc' = [pc EXCEPT ![a] = l] /\ (l = "gone" => a = Progress)
  BY DEF checkForLocalTermination, lockMutexForFinalisationTest, isThreadPoolFinished, At, Goto, Polled, Polls
<1>2. ListsSame /\ \A w \in Workers : Busy(w)' <=> Busy(w)
  BY <1>1, ListsStay DEF Busy
<1>3. \A l \in Polls : RoleOf(l, call[a].back) = Role(a)
  BY <1>1 DEF Role, RoleOf, Calls, Polls
<1>4. \A b \in All : packages'[b].worker = packages[b].worker /\ (Completed(b)' <=> Completed(b))
  BY <1>1 DEF Completed
<1>5. \A w : ~Belongs(Progress, w)
  BY BelongsFacts
<1> QED
  BY <1>1, <1>2, <1>3, <1>4, <1>5, WatchedMoves DEF Writing

\* The steps of the tasks and of the main thread keep Watched.
LEMMA WatchedUser ==
  ASSUME Typed, Shape, Watched, NEW a \in All, Caller(a),
         \/ submit(a, BackOf(a)) \/ fire(a, BackOf(a))
         \/ pc[a] = "task" /\ edatWait(a)
         \/ pc[a] = "task" /\ a # Main /\ taskEnds(a)
         \/ pc[a] = "task" /\ a = Main /\ attachMainThread
  PROVE  Watched'
<1>1. /\ UNCHANGED <<settings, packages>> /\ workers' = workers
      /\ \/ \E l \in {"start", "mark"} : 
              /\ pc' = [pc EXCEPT ![a] = l]
              /\ \E k : call' = [call EXCEPT ![a] = [arg |-> k, worker |-> NoWorker, back |-> BackOf(a)]]
         \/ /\ pc[a] = "task" /\ pc' = [pc EXCEPT ![a] = "pause"]
            /\ call' = [call EXCEPT ![a] = [arg |-> NoTask, worker |-> NoWorker, back |-> "task"]]
         \/ /\ pc[a] = "task" /\ call' = call
            /\ \E l \in {"loop", "notify"} : pc' = [pc EXCEPT ![a] = l]
  BY DEF submit, fire, edatWait, taskEnds, attachMainThread, Call, Goto
<1>2. ListsSame /\ \A w \in Workers : Busy(w)' <=> Busy(w)
  BY <1>1, ListsStay DEF Busy
<1>3. \A b \in All \ {a} : call'[b] = call[b]
  BY <1>1 DEF Typed, CallsTyped
<1>4. \A b \in All : packages'[b].worker = packages[b].worker /\ (Completed(b)' <=> Completed(b))
  BY <1>1 DEF Completed
<1>5. pc[a] # "markBusy" /\ pc[a] \notin Writing
  BY DEF Caller, Writing
<1>6. ASSUME NEW l \in {"start", "mark"}, pc' = [pc EXCEPT ![a] = l], NEW k,
             call' = [call EXCEPT ![a] = [arg |-> k, worker |-> NoWorker, back |-> BackOf(a)]]
      PROVE  Watched'
  <2>1. call'[a].back = BackOf(a)
    BY <1>6 DEF Typed, CallsTyped
  <2>2. RoleOf(l, BackOf(a)) = Role(a)
    BY DEF Caller, BackOf, Polled, Role, RoleOf, Calls, Polls
  <2> QED
    BY <1>1, <1>2, <1>3, <1>4, <1>5, <1>6, <2>1, <2>2, WatchedMoves
<1>7. CASE pc[a] = "task" /\ (pc' = [pc EXCEPT ![a] = "pause"] \/ \E l \in {"loop", "notify"} : pc' = [pc EXCEPT ![a] = l])
  <2>1. \A l \in {"pause", "loop", "notify"} : \A back : RoleOf(l, back) = Role(a)
    BY <1>7 DEF Role, RoleOf
  <2> QED
    BY <1>1, <1>2, <1>3, <1>4, <1>5, <1>7, <2>1, WatchedMoves, ZenonT(60)
<1> QED
  BY <1>1, <1>6, <1>7

\* Beside its workers the main thread does no harm.
LEMMA WatchedMain ==
  ASSUME Typed, Shape, Watched, RestartsBeside,
         \/ setMessaging \/ mainThreadWoken \/ resetPolling
         \/ notifyMainThreadIsSleeping /\ ~settings.mainIsWorker
  PROVE  Watched'
<1>1. Main \in All /\ settings \in Settings
  BY Names DEF Typed, OthersTyped
<1>2. ~settings.mainIsWorker \/ ~resetPolling
  BY <1>1 DEF RestartsBeside, resetPolling, At, Shape, Lasting, Typed, OthersTyped
<1>3. /\ UNCHANGED <<settings, packages>> /\ workers' = workers
      /\ pc[Main] \in {"init", "reset", "notify", "sleep"}
      /\ \/ /\ pc[Main] \in {"init", "reset", "notify"} /\ pc' = [pc EXCEPT ![Main] = "launch"]
            /\ \E back \in {"task", "sleep"} :
                 /\ call' = [call EXCEPT ![Main] = [arg |-> NoTask, worker |-> NoWorker, back |-> back]]
                 /\ ~settings.mainIsWorker \/ (pc[Main] = "init" /\ back = "task")
         \/ /\ call' = call
            /\ \E l \in {"task", "sleep", "finalised"} : 
                 /\ pc' = [pc EXCEPT ![Main] = l]
                 /\ \/ ~settings.mainIsWorker \/ (pc[Main] = "init" /\ l = "task")
                    \/ pc[Main] = "sleep" /\ l = "finalised"
  BY <1>2 DEF setMessaging, mainThreadWoken, resetPolling, notifyMainThreadIsSleeping, At, Goto, Call
<1>4. ListsSame /\ \A w \in Workers : Busy(w)' <=> Busy(w)
  BY <1>3, ListsStay DEF Busy
<1>5. \A b \in All \ {Main} : call'[b] = call[b]
  BY <1>1, <1>3 DEF Typed, CallsTyped
<1>6. \A b \in All : packages'[b].worker = packages[b].worker /\ (Completed(b)' <=> Completed(b))
  BY <1>3 DEF Completed
<1>7. pc[Main] # "markBusy" /\ pc[Main] \notin Writing
  BY <1>3 DEF Writing
<1>8. ~settings.mainIsWorker => \A w : ~Belongs(Main, w)
  BY DEF Belongs
<1>9. /\ pc[Main] = "init" => /\ \A back : RoleOf("task", back) = Role(Main)
                              /\ RoleOf("launch", "task") = Role(Main)
      /\ pc[Main] = "sleep" => \A back : RoleOf("finalised", back) = Role(Main)
  BY DEF Role, RoleOf, Calls, Polls
<1>10. ASSUME pc[Main] \in {"init", "reset", "notify"}, pc' = [pc EXCEPT ![Main] = "launch"],
              NEW back \in {"task", "sleep"},
              call' = [call EXCEPT ![Main] = [arg |-> NoTask, worker |-> NoWorker, back |-> back]],
              ~settings.mainIsWorker \/ (pc[Main] = "init" /\ back = "task")
       PROVE  Watched'
  <2>1. call'[Main].back = back
    BY <1>1, <1>10 DEF Typed, CallsTyped
  <2> QED
    BY <1>1, <1>3, <1>4, <1>5, <1>6, <1>7, <1>8, <1>9, <1>10, <2>1, WatchedMoves, ZenonT(60)
<1>11. ASSUME NEW l \in {"task", "sleep", "finalised"}, pc' = [pc EXCEPT ![Main] = l],
              \/ ~settings.mainIsWorker \/ (pc[Main] = "init" /\ l = "task")
              \/ pc[Main] = "sleep" /\ l = "finalised"
       PROVE  Watched'
  BY <1>1, <1>3, <1>4, <1>5, <1>6, <1>7, <1>8, <1>9, <1>11, WatchedMoves
<1> QED
  BY <1>3, <1>10, <1>11

\* The workers have no part in edatRestart.
LEMMA WatchedRestart ==
  ASSUME Typed, Shape, PollersOK, RestartsBeside, Watched, edatRestart
  PROVE  Watched'
<1>1. /\ UNCHANGED <<settings, workers, call, packages>> /\ pc[Main] = "finalised"
      /\ \E l \in {"poll", "gone"} : pc' = [pc EXCEPT ![Main] = "reset", ![Progress] = l]
  BY DEF edatRestart, At
<1>2. pc[Progress] = "gone" /\ Workers' = Workers /\ \A b \in All : packages'[b].worker = packages[b].worker
  BY <1>1, SameSettings DEF edatRestart, At, PollersOK
<1>3. \A w : ~Belongs(Main, w) /\ ~Belongs(Progress, w)
  <2>1. settings \in Settings /\ restarts \in 0 .. settings.restarts /\ restarts < settings.restarts
    BY DEF Typed, OthersTyped, edatRestart
  <2> QED
    BY <2>1, BelongsFacts DEF RestartsBeside, Belongs
<1>4. \A b \in All \ {Main, Progress} : pc'[b] = pc[b] /\ Role(b)' = Role(b)
  BY <1>1, Names DEF Typed, PlacesTyped, Role
<1>5. ListsSame /\ \A w \in Workers : Busy(w)' <=> Busy(w)
  BY <1>1, ListsStay DEF Busy
<1>6. /\ \A w \in Workers : Located(w)'
      /\ \A w \in Workers : (HasPaused(w)' <=> HasPaused(w)) /\ (HasReady(w)' <=> HasReady(w))
      /\ \A b \in All : \A w : Belongs(b, w)' <=> Belongs(b, w)
  BY <1>1, <1>2, <1>5, ListsLocate
<1>7. ASSUME NEW w \in Workers PROVE Watch(w)'
  <2>1. PICK t \in All : t = Active(w)
    BY BelongsFacts
  <2>2. Active(w)' = t /\ Belongs(t, w)
    BY <1>1, <1>5, <2>1, ListsViews DEF Shape, Turns
  <2>3. Role(t)' = Role(t) /\ (Completed(t)' <=> Completed(t))
    BY <1>1, <1>3, <1>4, <2>2 DEF Completed
  <2>4. MarksBusy(w) => MarksBusy(w)'
    BY <1>1, <1>2, <1>4 DEF MarksBusy
  <2>5. Written(w) => Written(w)'
    BY <1>1, <1>2, <1>4 DEF Written, Writes, Writing
  <2>6. Hands(w) => Hands(w)'
    BY <1>3, <1>4, <1>6 DEF Hands
  <2> QED
    BY <1>1, <1>5, <1>6, <2>1, <2>2, <2>3, <2>4, <2>5, <2>6, WatchKept DEF Quiet
<1> QED
  BY <1>2, <1>6, <1>7 DEF Watched

\* A step that changes nothing keeps it.
LEMMA WatchedStutters ==
  ASSUME Watched, vars' = vars
  PROVE  Watched'
<1>1. UNCHANGED <<settings, workers, packages, pc, call>>
  BY DEF vars
<1>2. Workers' = Workers /\ Threads' = Threads
  BY <1>1, SameSettings DEF Threads, Needed
<1>3. /\ \A a, w : Belongs(a, w)' <=> Belongs(a, w)
      /\ \A a : Role(a)' = Role(a) /\ (Completed(a)' <=> Completed(a)) /\ (Quiet(a)' <=> Quiet(a))
      /\ \A w : Active(w)' = Active(w) /\ (Busy(w)' <=> Busy(w))
      /\ \A a, w : IsSpare(a, w)' <=> IsSpare(a, w)
      /\ \A a, w : IsPaused(a, w)' <=> IsPaused(a, w)
      /\ \A a, w : IsReady(a, w)' <=> IsReady(a, w)
  BY <1>1 DEF Belongs, Role, Completed, Quiet, Active, Busy, IsSpare, IsPaused, IsReady
<1>4. \A w : /\ (MarksBusy(w)' <=> MarksBusy(w)) /\ (Written(w)' <=> Written(w))
             /\ (HasPaused(w)' <=> HasPaused(w)) /\ (HasReady(w)' <=> HasReady(w))
  BY <1>1 DEF MarksBusy, Written, Writes, HasPaused, HasReady
<1>5. \A w : Hands(w)' <=> Hands(w)
  BY <1>3 DEF Hands
<1>6. \A w \in Workers : Unsettled(w)' /\ Given(w)' /\ Noticed(w)' /\ Relieved(w)' /\ Located(w)'
  BY <1>1, <1>2, <1>3, <1>4, <1>5, Names DEF Watched, Watch, Unsettled, Given, Noticed, Relieved, Located
<1> QED
  BY <1>2, <1>6 DEF Watched, Watch

\* A worker is given something to do, or its thread is resumed.
LEMMA WatchedWorks ==
  ASSUME Typed, Shape, Watched, NEW a \in All, NEW w \in Workers,
         pc[a] \in Calls, NEW l \in Calls \union {call[a].back}, pc' = [pc EXCEPT ![a] = l],
         call' = call \/ call' = [call EXCEPT ![a].worker = w],
         settings' = settings, \A b \in All : packages'[b].worker = packages[b].worker,
         \A b \in All : Completed(b) => Completed(b)',
         \A b \in All : Completed(b)' => Completed(b) \/ Active(w) = b,
         ListsSame, Busy(w)', \A v \in Workers \ {w} : Busy(v)' <=> Busy(v),
         pc[a] \in Writing \union {"markBusy"} => call[a].worker = w,
         \/ \A t \in All : Active(w) = t => Completed(t)'
         \/ l \in Writing /\ call'[a].worker = w
         \/ Busy(w) /\ pc[a] \notin Writing
  PROVE  Watched'
<1>1. call \in [All -> [arg : All \union (0 .. MaxTasks), worker : Workers \union {NoWorker}, back : Labels]]
  BY DEF Typed, CallsTyped
<1>2. call'[a].back = call[a].back /\ (\A b \in All \ {a} : call'[b] = call[b]) /\ pc'[a] = l /\ Apart(a)
  BY <1>1 DEF Typed, PlacesTyped, Apart
<1>3. call[a].back \in {"task", "sleep", "poll", "polled", "asleep"}
  BY DEF Typed, CallsTyped, CallTyped, BacksOf
<1>4. \A b \in All : Role(b)' = Role(b)
  <2>1. Role(a)' = Role(a)
    BY <1>2, <1>3, RoleInCall DEF Role
  <2> QED
    BY <1>2, <2>1, ApartViews
<1>5. /\ \A v \in Workers : Located(v)'
      /\ \A v \in Workers : (HasPaused(v)' <=> HasPaused(v)) /\ (HasReady(v)' <=> HasReady(v))
      /\ \A b \in All : \A v : Belongs(b, v)' <=> Belongs(b, v)
  BY ListsLocate
<1>6. \A v \in Workers : Hands(v) => Hands(v)'
  BY <1>4, <1>5 DEF Hands
<1>7. \A v \in Workers \ {w} : (MarksBusy(v) => MarksBusy(v)') /\ (Written(v) => Written(v)')
  BY <1>2 DEF MarksBusy, Written, Writes, Apart
<1>8. ASSUME NEW v \in Workers PROVE Watch(v)'
  <2>1. PICK t \in All : t = Active(v)
    BY BelongsFacts
  <2>2. Active(v)' = t
    BY <2>1, ListsViews
  <2>3. CASE v = w
    <3>1. Busy(v)' /\ Quiet(t)' /\ (Busy(v) => Written(v)) => Written(v)'
      <4>1. CASE Completed(t)'
        BY <4>1 DEF Quiet
      <4>2. CASE l \in Writing /\ call'[a].worker = w
        BY <1>2, <2>3, <4>2 DEF Written, Writes
      <4>3. CASE Busy(w) /\ pc[a] \notin Writing
        BY <1>2, <2>3, <4>3 DEF Written, Writes, Apart
      <4> QED
        BY <2>1, <2>3, <4>1, <4>2, <4>3
    <3> QED
      BY <1>4, <1>5, <1>6, <2>1, <2>2, <2>3, <3>1, WatchKept DEF Quiet
  <2>4. CASE v # w
    <3>1. Completed(t)' <=> Completed(t)
      BY <2>1, <2>4, ActiveOnce
    <3> QED
      BY <1>4, <1>5, <1>6, <1>7, <2>1, <2>2, <2>4, <3>1, WatchKept DEF Quiet
  <2> QED
    BY <2>3, <2>4
<1>9. Workers' = Workers
  BY SameSettings
<1> QED
  BY <1>5, <1>8, <1>9 DEF Watched

\* A task for a worker, ...
LEMMA WatchedStart ==
  ASSUME Typed, Shape, Watched, NEW a \in All, startThread(a)
  PROVE  Watched'
<1>1. pc[a] = "start" /\ UNCHANGED <<settings, packages>> /\ \A b : Completed(b)' <=> Completed(b)
  BY DEF startThread, At, Completed
<1> DEFINE w == get_index_of_idle_thread
<1>2. CASE /\ w # NoWorker /\ workers' = [workers EXCEPT ![w].threadBusy = TRUE]
           /\ call' = [call EXCEPT ![a].worker = w] /\ pc' = [pc EXCEPT ![a] = "setCallFunction"]
  <2>1. w \in Workers
    BY <1>2, IdleFound
  <2>2. PICK v \in Workers : v = w
    BY <2>1
  <2>3. /\ workers' = [workers EXCEPT ![v].threadBusy = TRUE]
        /\ call' = [call EXCEPT ![a].worker = v] /\ pc' = [pc EXCEPT ![a] = "setCallFunction"]
    BY <1>2, <2>2
  <2> HIDE DEF w
  <2>4. /\ Busy(v)' /\ (\A u \in Workers \ {v} : Busy(u)' <=> Busy(u))
        /\ ListsSame /\ call'[a].worker = v
    <3>1. Busy(v)' /\ \A u \in Workers \ {v} : Busy(u)' <=> Busy(u)
      BY <2>3 DEF Typed, WorkersTyped, WorkerType, Busy
    <3>2. ListsSame
      BY <2>3, ListsStay
    <3>3. call'[a].worker = v
      BY <2>3 DEF Typed, CallsTyped
    <3> QED
      BY <3>1, <3>2, <3>3
  <2>5. "setCallFunction" \in Writing /\ "setCallFunction" \in Calls
        /\ pc[a] \in Calls /\ pc[a] \notin Writing \union {"markBusy"}
    BY <1>1 DEF Writing, Calls
  <2>6. /\ settings' = settings /\ \A b \in All : packages'[b].worker = packages[b].worker
        /\ \A b \in All : Completed(b)' <=> Completed(b)
    BY <1>1
  <2> QED
    BY <2>3, <2>4, <2>5, <2>6, WatchedWorks
<1>3. CASE workers' = workers /\ call' = call /\ Return(a)
  <2>1. ListsSame /\ \A v \in Workers : Busy(v)' <=> Busy(v)
    BY <1>3, ListsStay DEF Busy
  <2>2. pc[a] \in Calls \ {"markBusy"} /\ pc[a] \notin Writing
    BY <1>1 DEF Calls, Writing
  <2> QED
    BY <1>1, <1>3, <2>1, <2>2, WatchedInCall DEF Return, Goto
<1> QED
  BY <1>2, <1>3 DEF startThread, Goto

\* ... a worker that is told to poll, ...
LEMMA WatchedAwaitPoller ==
  ASSUME Typed, Shape, Watched, NEW a \in All, awaitPoller(a)
  PROVE  Watched'
<1>1. /\ pc[a] = "awaitPoller" /\ UNCHANGED <<settings, packages>> /\ call' = call
      /\ workers' = [workers EXCEPT ![call[a].worker].threadBusy = TRUE] /\ pc' = [pc EXCEPT ![a] = "clearCallFunction"]
  BY DEF awaitPoller, At, Goto
<1>2. PICK w \in Workers : w = call[a].worker
  BY <1>1 DEF Typed, CallsTyped, CallTyped
<1>3. Busy(w)' /\ \A v \in Workers \ {w} : Busy(v)' <=> Busy(v)
  BY <1>1, <1>2 DEF Typed, WorkersTyped, WorkerType, Busy
<1>4. ListsSame /\ \A b : Completed(b)' <=> Completed(b)
  BY <1>1, <1>2, ListsStay DEF Completed
<1>5. "clearCallFunction" \in Writing /\ "clearCallFunction" \in Calls /\ pc[a] \in Calls
  BY <1>1 DEF Writing, Calls
<1> QED
  BY <1>1, <1>2, <1>3, <1>4, <1>5, WatchedWorks

\* ... and the thread of a worker that has a command.
LEMMA WatchedResumeActive ==
  ASSUME Typed, Shape, Watched, NEW a \in All, resumeActive(a)
  PROVE  Watched'
<1>1. /\ pc[a] = "resumeActive" /\ UNCHANGED <<settings, workers, call>>
      /\ pc' = [pc EXCEPT ![a] = call[a].back]
      /\ packages' = [packages EXCEPT ![workers[call[a].worker].activeThread].completed = TRUE]
  BY DEF resumeActive, At, Goto, Return, resume
<1>2. PICK w \in Workers : w = call[a].worker
  BY <1>1 DEF Typed, CallsTyped, CallTyped, Writing
<1>3. PICK t \in All : t = Active(w)
  BY BelongsFacts
<1>4. Busy(w)
  BY <1>1, <1>2, <1>3 DEF Shape, Writers, Writes, Writing
<1>5. packages' = [packages EXCEPT ![t].completed = TRUE]
  BY <1>1, <1>2, <1>3 DEF Active
<1>6. Completed(t)' /\ \A b \in All \ {t} : Completed(b)' <=> Completed(b)
  BY <1>1, <1>5, CompletedSet
<1>7. \A b \in All : packages'[b].worker = packages[b].worker
  BY <1>5 DEF Typed, PackagesTyped
<1>8. ListsSame /\ \A v \in Workers : Busy(v)' <=> Busy(v)
  BY <1>1, ListsStay DEF Busy
<1>9. pc[a] \in Calls
  BY <1>1 DEF Calls
<1> QED
  BY <1>1, <1>2, <1>3, <1>4, <1>6, <1>7, <1>8, <1>9, WatchedWorks

\* An idle worker is woken for a thread that waits to go on.
LEMMA WatchedMarkBusy ==
  ASSUME Typed, Shape, Watched, NEW a \in All, markBusy(a)
  PROVE  Watched'
<1>1. /\ pc[a] = "markBusy" /\ UNCHANGED <<settings, call>>
      /\ pc' = [pc EXCEPT ![a] = "markPoller"] /\ pc[a] \in Calls /\ "markPoller" \in Calls /\ pc[a] \notin Writing
  BY DEF markBusy, At, Goto, Calls, Writing
<1>2. PICK w \in Workers : w = call[a].worker
  BY <1>1 DEF Typed, CallsTyped, CallTyped
<1>3. CASE Busy(w) /\ workers' = workers /\ packages' = packages
  <2>1. ListsSame /\ (\A v \in Workers : Busy(v)' <=> Busy(v)) /\ \A b : Completed(b)' <=> Completed(b)
    BY <1>3, ListsStay DEF Busy, Completed
  <2> QED
    BY <1>1, <1>2, <1>3, <2>1, WatchedWorks
<1>4. CASE /\ ~Busy(w) /\ workers' = [workers EXCEPT ![w].threadBusy = TRUE, ![w].callFunction = FALSE]
           /\ packages' = [packages EXCEPT ![workers[w].activeThread].completed = TRUE]
  <2>1. PICK t \in All : t = Active(w)
    BY BelongsFacts
  <2>2. packages' = [packages EXCEPT ![t].completed = TRUE]
    BY <1>4, <2>1 DEF Active
  <2>3. Completed(t)' /\ \A b \in All \ {t} : Completed(b)' <=> Completed(b)
    BY <1>1, <2>2, CompletedSet
  <2>4. \A b \in All : packages'[b].worker = packages[b].worker
    BY <2>2 DEF Typed, PackagesTyped
  <2>5. Busy(w)' /\ \A v \in Workers \ {w} : Busy(v)' <=> Busy(v)
    BY <1>4 DEF Typed, WorkersTyped, WorkerType, Busy
  <2>6. ListsSame
    BY <1>4, ListsStay
  <2> QED
    BY <1>1, <1>2, <2>1, <2>3, <2>4, <2>5, <2>6, WatchedWorks
<1> QED
  BY <1>2, <1>3, <1>4 DEF markBusy, resume, Wakes, Busy

\* The thread that was given a worker is resumed.
LEMMA WatchedResumeWaiting ==
  ASSUME Typed, Shape, Watched, NEW h \in Threads, resumeWaiting(h)
  PROVE  Watched'
<1>1. /\ pc[h] = "handOver" /\ UNCHANGED <<settings, workers, call>>
      /\ pc' = [pc EXCEPT ![h] = "spare"]
      /\ packages' = [packages EXCEPT ![workers[Worker(h)].activeThread].completed = TRUE]
  BY DEF resumeWaiting, At, Goto, resume, Spare
<1>2. PICK w \in Workers : w = Worker(h) /\ Belongs(h, w)
  BY <1>1, EntryBelongs
<1>3. PICK t \in All : t = Active(w)
  BY BelongsFacts
<1>4. h \in All /\ h # Main /\ Role(h) = "handOver"
  BY <1>1, EntryBelongs DEF Role, RoleOf, Calls, Polls
<1>5. Role(t) = "paused"
  BY <1>2, <1>3, <1>4 DEF Shape, Handers
<1>6. packages' = [packages EXCEPT ![t].completed = TRUE]
  BY <1>1, <1>2, <1>3 DEF Active
<1>7. /\ Completed(t)' /\ (\A b \in All \ {t} : Completed(b)' <=> Completed(b))
      /\ \A b \in All : packages'[b].worker = packages[b].worker
  <2>1. Completed(t)' /\ \A b \in All \ {t} : Completed(b)' <=> Completed(b)
    BY <1>1, <1>6, CompletedSet
  <2>2. \A b \in All : packages'[b].worker = packages[b].worker
    BY <1>6 DEF Typed, PackagesTyped
  <2> QED
    BY <2>1, <2>2
<1>8. ListsSame /\ \A v \in Workers : Busy(v)' <=> Busy(v)
  BY <1>1, ListsStay DEF Busy
<1>9. pc'[h] = "spare" /\ Apart(h)
  BY <1>1, <1>4 DEF Typed, PlacesTyped, Apart
<1>10. Role(h)' = "spare" /\ \A b \in All \ {h} : Role(b)' = Role(b)
  <2>1. Role(h)' = "spare"
    BY <1>9 DEF Role, RoleOf, Calls, Polls
  <2> QED
    BY <1>4, <1>9, <2>1, ApartViews
<1>11. /\ \A v \in Workers : Located(v)'
       /\ \A v \in Workers : (HasPaused(v)' <=> HasPaused(v)) /\ (HasReady(v)' <=> HasReady(v))
       /\ \A b \in All : \A v : Belongs(b, v)' <=> Belongs(b, v)
  BY <1>1, <1>7, <1>8, ListsLocate
<1>12. \A v \in Workers : (MarksBusy(v) => MarksBusy(v)') /\ (Written(v) => Written(v)')
  BY <1>1, <1>9 DEF MarksBusy, Written, Writes, Writing, Apart
<1>13. ASSUME NEW v \in Workers PROVE Watch(v)'
  <2>1. PICK u \in All : u = Active(v)
    BY BelongsFacts
  <2>2. Active(v)' = u /\ u # h
    BY <1>1, <1>4, <1>8, <2>1, ListsViews DEF Shape, Turns
  <2>3. CASE v = w
    <3>1. Completed(u)' /\ ~Quiet(u) /\ ~Quiet(u)'
      BY <1>3, <1>5, <1>7, <1>10, <2>1, <2>2, <2>3 DEF Quiet
    <3>2. (HasPaused(v)' <=> HasPaused(v)) /\ (HasReady(v)' <=> HasReady(v)) /\ (Busy(v)' <=> Busy(v))
      BY <1>8, <1>11
    <3> QED
      BY <1>1, <1>12, <2>1, <2>2, <3>1, <3>2, WatchKept
  <2>4. CASE v # w
    <3>1. Completed(u)' <=> Completed(u)
      BY <1>3, <1>7, <2>1, <2>4, ActiveOnce
    <3>2. Hands(v) => Hands(v)'
      <4>1. \A g \in All : Belongs(g, v) => g # h
        BY <1>2, <1>4, <2>4, BelongsFacts
      <4> QED
        BY <1>10, <1>11, <4>1 DEF Hands
    <3>3. (HasPaused(v)' <=> HasPaused(v)) /\ (HasReady(v)' <=> HasReady(v)) /\ (Busy(v)' <=> Busy(v))
      BY <1>8, <1>11
    <3>4. Role(u)' = Role(u) /\ (Quiet(u)' <=> Quiet(u))
      BY <1>10, <2>2, <3>1 DEF Quiet
    <3> QED
      BY <1>1, <1>12, <2>1, <2>2, <3>1, <3>2, <3>3, <3>4, WatchKept
  <2> QED
    BY <2>3, <2>4
<1>14. Workers' = Workers
  BY <1>1, SameSettings
<1> QED
  BY <1>11, <1>13, <1>14 DEF Watched

\* What a step that is about one worker does to the other ones.
LEMMA WatchedOthers ==
  ASSUME Typed, Shape, Watched, NEW a \in All, NEW w \in Workers, Apart(a), settings' = settings,
         pc[a] # "markBusy", pc[a] \notin Writing, Role(a)' = Role(a) \/ Belongs(a, w),
         \A v \in Workers \ {w} : workers'[v] = workers[v],
         \A b \in All, v \in Workers \ {w} : Belongs(b, v)' <=> Belongs(b, v),
         \A b \in All, v \in Workers \ {w} : Belongs(b, v) => (Completed(b)' <=> Completed(b))
  PROVE  \A v \in Workers \ {w} : Watch(v)' /\ Located(v)'
<1>1. ASSUME NEW v \in Workers \ {w} PROVE Watch(v)'
  <2>1. PICK t \in All : t = Active(v)
    BY BelongsFacts
  <2>2. Active(v)' = t /\ (Busy(v)' <=> Busy(v)) /\ (HasPaused(v)' <=> HasPaused(v)) /\ (HasReady(v)' <=> HasReady(v))
    BY <2>1 DEF Active, Busy, HasPaused, HasReady
  <2>3. \A b \in All : Belongs(b, v) => Role(b)' = Role(b)
    <3>1. \A b \in All : Belongs(b, v) => b # a \/ Role(a)' = Role(a)
      BY BelongsFacts
    <3> QED
      BY <3>1, ApartViews
  <2>4. Belongs(t, v)
    BY <2>1 DEF Shape, Turns
  <2>5. Role(t)' = Role(t) /\ (Completed(t)' <=> Completed(t)) /\ (Quiet(t)' <=> Quiet(t))
    BY <2>3, <2>4 DEF Quiet
  <2>6. Hands(v) => Hands(v)'
    BY <2>3 DEF Hands
  <2>7. (MarksBusy(v) => MarksBusy(v)') /\ (Written(v) => Written(v)')
    BY DEF MarksBusy, Written, Writes, Apart
  <2> QED
    BY <2>1, <2>2, <2>5, <2>6, <2>7, WatchKept
<1>2. ASSUME NEW v \in Workers \ {w} PROVE Located(v)'
  <2>1. Threads' = Threads
    BY DEF Threads, Needed
  <2>2. Active(v)' = Active(v) /\ \A t : /\ IsSpare(t, v)' <=> IsSpare(t, v)
                                         /\ IsPaused(t, v)' <=> IsPaused(t, v)
                                         /\ IsReady(t, v)' <=> IsReady(t, v)
    BY DEF Active, IsSpare, IsPaused, IsReady
  <2> QED
    BY <2>1, <2>2, Names DEF Watched, Located
<1> QED
  BY <1>1, <1>2

\* A worker with nothing to do becomes idle, and its thread is at rest.
LEMMA WatchedGoIdle ==
  ASSUME Typed, Shape, Watched, NEW t \in Threads, goIdle(t)
  PROVE  Watched'
<1>1. /\ pc[t] = "look" /\ UNCHANGED <<settings, packages, call>>
      /\ pc' = [pc EXCEPT ![t] = "idle"] /\ workers' = [workers EXCEPT ![Worker(t)].threadBusy = FALSE]
      /\ workers[Worker(t)].waitingThreads = <<>>
  BY DEF goIdle, At, Goto
<1>2. PICK w \in Workers : w = Worker(t) /\ Belongs(t, w)
  BY <1>1, EntryBelongs
<1>3. t \in All /\ Role(t) = "awake" /\ pc[t] # "markBusy" /\ pc[t] \notin Writing
  BY <1>1, EntryBelongs DEF Role, RoleOf, Writing
<1>4. Active(w) = t /\ ~Completed(t)
  BY <1>2, <1>3, AwakeActive
<1>5. pc'[t] = "idle" /\ Apart(t)
  BY <1>1, <1>3 DEF Typed, PlacesTyped, Apart
<1>6. Role(t)' = "rest" /\ \A b : Completed(b)' <=> Completed(b)
  BY <1>1, <1>5 DEF Role, RoleOf, Calls, Completed
<1>7. ListsSame
  BY <1>1, <1>2, ListsStay
<1>8. Workers' = Workers /\ \A b, v : Belongs(b, v)' <=> Belongs(b, v)
  BY <1>1, SameSettings DEF Belongs
<1>9. ~Busy(w)' /\ \A v \in Workers \ {w} : workers'[v] = workers[v]
  BY <1>1, <1>2 DEF Typed, WorkersTyped, WorkerType, Busy
<1>10. \A v \in Workers \ {w} : Watch(v)' /\ Located(v)'
  BY <1>1, <1>2, <1>3, <1>5, <1>6, <1>8, <1>9, WatchedOthers
<1>11. Located(w)' /\ ~HasReady(w)'
  BY <1>1, <1>2, <1>7, ListsLocate DEF HasReady
<1>12. Active(w)' = t
  BY <1>1, <1>4, <1>7, ListsViews
<1>13. Watch(w)'
  BY <1>4, <1>6, <1>9, <1>11, <1>12 DEF Watch, Unsettled, Given, Noticed, Relieved, Quiet
<1> QED
  BY <1>8, <1>10, <1>11, <1>13 DEF Watched

\* A thread that waits leaves its worker to one that is about to go on.
LEMMA WatchedPauseActive ==
  ASSUME Typed, Shape, Watched, NEW a \in All, pauseActive(a)
  PROVE  Watched'
<1>1. PICK w \in Workers : w = call[a].worker
  BY DEF pauseActive, At, Typed, CallsTyped, CallTyped
<1>2. PICK n : n = Successor(w)
  OBVIOUS
<1>3. /\ pc[a] = "pauseActive" /\ UNCHANGED <<settings, call>>
      /\ pc' = [pc EXCEPT ![a] = "pauseMap"] /\ workers' = TakenOver(w, a, n)
      /\ packages' = [packages EXCEPT ![n].worker = w, ![n].completed = TRUE]
  BY <1>1, <1>2 DEF pauseActive, At, Goto, Successor
<1>4. Belongs(a, w) /\ Role(a) = "awake" /\ Active(w) = a
  <2>1. Belongs(a, w) /\ Role(a) = "awake"
    BY <1>1, <1>3 DEF Shape, Pausers, Role, RoleOf
  <2> QED
    BY <2>1, AwakeActive
<1>5. /\ n \in Threads /\ n \in All /\ n # Main /\ n # a /\ \A v \in Workers : v # w => ~Belongs(n, v)
      /\ Role(n) \in {"rest", "spare"}
  BY <1>1, <1>2, <1>3, TakesOver
<1>6. /\ Workers' = Workers /\ Threads' = Threads /\ pc[a] # "markBusy" /\ pc[a] \notin Writing
  BY <1>3, SameSettings DEF Threads, Needed, Writing
<1>7. /\ \A b \in All \ {n} : packages'[b] = packages[b]
      /\ packages'[n].worker = w /\ packages'[n].completed = TRUE
  BY <1>3, <1>5 DEF Typed, PackagesTyped
<1>8. /\ \A b \in All \ {n} : \A v : Belongs(b, v)' <=> Belongs(b, v)
      /\ \A v : Belongs(n, v)' <=> v = w
      /\ Completed(n)' /\ \A b \in All \ {n} : Completed(b)' <=> Completed(b)
  <2>1. \A b \in All \ {n} : \A v : Belongs(b, v)' <=> Belongs(b, v)
    BY <1>3, <1>7 DEF Belongs
  <2>2. \A v : Belongs(n, v)' <=> v = w
    BY <1>5, <1>7 DEF Belongs
  <2>3. Completed(n)' /\ \A b \in All \ {n} : Completed(b)' <=> Completed(b)
    BY <1>7 DEF Completed
  <2> QED
    BY <2>1, <2>2, <2>3
<1>9. Apart(a)
  BY <1>3 DEF Typed, PlacesTyped, Apart
<1>10. Role(n)' \in {"rest", "spare"}
  BY <1>5, <1>9, ApartViews
<1> DEFINE s == workers[w].idleThreads
<1>11. /\ \A v \in Workers \ {w} : workers'[v] = workers[v]
       /\ workers'[w].activeThread = n /\ workers'[w].threadBusy = FALSE
       /\ workers'[w].pausedThreads = workers[w].pausedThreads \union {a}
       /\ workers'[w].waitingThreads = workers[w].waitingThreads
       /\ workers'[w].idleThreads = IF s = <<>> THEN s ELSE Tail(s)
  BY <1>3 DEF Typed, WorkersTyped, WorkerType, TakenOver
<1>12. \A v \in Workers \ {w} : Watch(v)' /\ Located(v)'
  <2>1. \A b \in All, v \in Workers \ {w} : Belongs(b, v)' <=> Belongs(b, v)
    BY <1>5, <1>8
  <2>2. \A b \in All, v \in Workers \ {w} : Belongs(b, v) => (Completed(b)' <=> Completed(b))
    BY <1>5, <1>8
  <2> QED
    BY <1>3, <1>4, <1>6, <1>9, <1>11, <2>1, <2>2, WatchedOthers
<1>13. Active(w)' = n /\ ~Busy(w)' /\ HasPaused(w)' /\ ~Quiet(n)' /\ Role(n)' # "paused"
  <2>1. Active(w)' = n /\ ~Busy(w)' /\ HasPaused(w)'
    BY <1>11 DEF Active, Busy, HasPaused
  <2> QED
    BY <1>8, <1>10, <2>1 DEF Quiet
<1>14. Watch(w)'
  BY <1>13 DEF Watch, Unsettled, Given, Noticed, Relieved
<1>15. ASSUME NEW t \in Threads, Belongs(t, w)', t # n
       PROVE  IsSpare(t, w)' \/ IsPaused(t, w)' \/ IsReady(t, w)'
  <2>1. CASE t = a
    BY <1>11, <2>1 DEF IsPaused
  <2>2. CASE t # a
    <3>1. IsSpare(t, w) \/ IsPaused(t, w) \/ IsReady(t, w)
      BY <1>4, <1>8, <1>15, <2>2, Names DEF Watched, Located
    <3>2. ASSUME IsSpare(t, w) PROVE IsSpare(t, w)'
      <4>1. s \in Seq(Known \ {Main}) /\ InSeq(t, s)
        BY <3>2 DEF Typed, WorkersTyped, WorkerType, IsSpare
      <4>2. s # <<>> => InSeq(t, Tail(s))
        BY <1>2, <1>15, <4>1, TailRest DEF Successor
      <4> QED
        BY <1>11, <4>1, <4>2 DEF IsSpare
    <3> QED
      BY <1>11, <3>1, <3>2 DEF IsPaused, IsReady
  <2> QED
    BY <2>1, <2>2
<1>16. Located(w)'
  BY <1>6, <1>13, <1>15 DEF Located
<1> QED
  BY <1>6, <1>12, <1>14, <1>16 DEF Watched

\* A thread that is to go on waits for its worker, which will be woken.
LEMMA WatchedMarkWaiting ==
  ASSUME Typed, Shape, Watched, NEW a \in All, markWaiting(a), pc'[a] # "error"
  PROVE  Watched'
<1>1. pc[a] = "markWaiting" /\ UNCHANGED <<settings, packages, call>>
  BY DEF markWaiting, At
<1>2. PICK w \in Workers : w = call[a].worker
  BY <1>1 DEF Typed, CallsTyped, CallTyped
<1>3. PICK d \in Known : d = call[a].arg
  BY <1>1 DEF Typed, CallsTyped, CallTyped
<1>4. /\ workers' = [workers EXCEPT ![w].pausedThreads = @ \ {d}, ![w].waitingThreads = Append(@, d)]
      /\ pc' = [pc EXCEPT ![a] = "markBusy"]
  BY <1>2, <1>3 DEF markWaiting, Goto, Typed, PlacesTyped
<1>5. pc'[a] = "markBusy" /\ Apart(a)
  BY <1>1, <1>4 DEF Typed, PlacesTyped, Apart
<1>6. call[a].back \in {"task", "sleep", "poll", "polled", "asleep"}
  BY <1>1 DEF Typed, CallsTyped, CallTyped, BacksOf, Calls
<1>7. (\A b \in All : Role(b)' = Role(b)) /\ \A b : Completed(b)' <=> Completed(b)
  <2>1. Role(a)' = Role(a)
    BY <1>1, <1>5, <1>6, RoleInCall DEF Role, Calls
  <2> QED
    BY <1>1, <1>5, <2>1, ApartViews DEF Completed
<1>8. Workers' = Workers /\ Threads' = Threads /\ \A b, v : Belongs(b, v)' <=> Belongs(b, v)
  BY <1>1, SameSettings DEF Threads, Needed, Belongs
<1>9. pc[a] # "markBusy" /\ pc[a] \notin Writing
  BY <1>1 DEF Writing
<1> DEFINE s == workers[w].waitingThreads
<1>10. s \in Seq(Known)
  BY DEF Typed, WorkersTyped, WorkerType
<1>11. /\ \A v \in Workers \ {w} : workers'[v] = workers[v]
       /\ workers'[w].activeThread = workers[w].activeThread /\ workers'[w].waitingThreads = Append(s, d)
       /\ workers'[w].idleThreads = workers[w].idleThreads
       /\ workers'[w].pausedThreads = workers[w].pausedThreads \ {d}
       /\ workers'[w].threadBusy = workers[w].threadBusy
  BY <1>4 DEF Typed, WorkersTyped, WorkerType
<1>12. \A v \in Workers \ {w} : Watch(v)' /\ Located(v)'
  BY <1>1, <1>5, <1>7, <1>8, <1>9, <1>11, WatchedOthers
<1>13. MarksBusy(w)'
  BY <1>1, <1>2, <1>5 DEF MarksBusy
<1>14. /\ Active(w)' = Active(w) /\ (Busy(w)' <=> Busy(w))
       /\ Written(w) => Written(w)'
       /\ Hands(w) => Hands(w)'
       /\ \A t \in All : Quiet(t)' <=> Quiet(t)
  <2>1. Active(w)' = Active(w) /\ (Busy(w)' <=> Busy(w))
    BY <1>11 DEF Active, Busy
  <2>2. Written(w) => Written(w)'
    BY <1>5, <1>9 DEF Written, Writes, Apart
  <2>3. Hands(w) => Hands(w)'
    BY <1>7, <1>8 DEF Hands
  <2>4. \A t \in All : Quiet(t)' <=> Quiet(t)
    BY <1>7 DEF Quiet
  <2> QED
    BY <2>1, <2>2, <2>3, <2>4
<1>15. Watch(w)'
  <2>1. Given(w) /\ Relieved(w)
    BY DEF Watched, Watch
  <2>2. Given(w)'
    BY <1>14, <2>1 DEF Given
  <2>3. Relieved(w)'
    BY <1>7, <1>14, <2>1 DEF Relieved
  <2> QED
    BY <1>13, <2>2, <2>3 DEF Watch, Unsettled, Noticed
<1>16. ASSUME NEW t \in Threads, Belongs(t, w)', Active(w)' # t
       PROVE  IsSpare(t, w)' \/ IsPaused(t, w)' \/ IsReady(t, w)'
  <2>1. IsSpare(t, w) \/ IsPaused(t, w) \/ IsReady(t, w)
    BY <1>8, <1>14, <1>16, Names DEF Watched, Located
  <2>2. \A e : InSeq(e, workers'[w].waitingThreads) <=> InSeq(e, s) \/ e = d
    BY <1>10, <1>11, AppendFacts
  <2> QED
    BY <1>11, <2>1, <2>2 DEF IsSpare, IsPaused, IsReady
<1>17. Located(w)'
  BY <1>8, <1>16 DEF Located
<1> QED
  BY <1>8, <1>12, <1>15, <1>17 DEF Watched

\* A thread that waits to go on gets the worker, and is about to be resumed.
LEMMA WatchedHandOver ==
  ASSUME Typed, Shape, Watched, NEW t \in Threads, handOver(t)
  PROVE  Watched'
<1>1. /\ pc[t] = "look" /\ UNCHANGED <<settings, packages, call>>
      /\ pc' = [pc EXCEPT ![t] = "handOver"] /\ workers[Worker(t)].waitingThreads # <<>>
      /\ workers' = [workers EXCEPT ![Worker(t)].activeThread = Head(workers[Worker(t)].waitingThreads),
                                    ![Worker(t)].waitingThreads = Tail(@),
                                    ![Worker(t)].idleThreads = Append(@, t)]
  BY DEF handOver, At, Goto
<1>2. PICK w \in Workers : w = Worker(t) /\ Belongs(t, w)
  BY <1>1, EntryBelongs
<1>3. t \in All /\ t # Main /\ Role(t) = "awake" /\ pc[t] # "markBusy" /\ pc[t] \notin Writing
  BY <1>1, EntryBelongs DEF Role, RoleOf, Writing
<1>4. Active(w) = t
  BY <1>2, <1>3, AwakeActive
<1>5. pc'[t] = "handOver" /\ Apart(t)
  BY <1>1, <1>3 DEF Typed, PlacesTyped, Apart
<1>6. Role(t)' = "handOver" /\ \A b : Completed(b)' <=> Completed(b)
  BY <1>1, <1>5 DEF Role, RoleOf, Calls, Polls, Completed
<1>7. Workers' = Workers /\ Threads' = Threads /\ \A b, v : Belongs(b, v)' <=> Belongs(b, v)
  BY <1>1, SameSettings DEF Threads, Needed, Belongs
<1> DEFINE s == workers[w].waitingThreads
<1>0. PICK d : d = Head(s)
  OBVIOUS
<1>8. s \in Seq(Known) /\ s # <<>> /\ workers[w].idleThreads \in Seq(Known \ {Main}) /\ t \in Known \ {Main}
  BY <1>1, <1>2, <1>3, AwakeThread DEF Typed, WorkersTyped, WorkerType
<1>9. /\ \A v \in Workers \ {w} : workers'[v] = workers[v]
      /\ workers'[w].activeThread = d /\ workers'[w].waitingThreads = Tail(s)
      /\ workers'[w].idleThreads = Append(workers[w].idleThreads, t)
      /\ workers'[w].pausedThreads = workers[w].pausedThreads
      /\ workers'[w].threadBusy = workers[w].threadBusy
  BY <1>0, <1>1, <1>2 DEF Typed, WorkersTyped, WorkerType
<1>10. d \in All /\ IsReady(d, w)
  <2>1. Known \subseteq All
    BY Names DEF Known
  <2> QED
    BY <1>0, <1>8, <2>1, TailFacts DEF IsReady
<1>11. Role(d) = "paused" /\ d # t
  BY <1>4, <1>10 DEF Shape, Readies
<1>12. Role(d)' = "paused"
  BY <1>3, <1>5, <1>10, <1>11, ApartViews
<1>13. \A e : InSeq(e, s) => e = d \/ InSeq(e, Tail(s))
  BY <1>0, <1>8, TailRest
<1>14. \A v \in Workers \ {w} : Watch(v)' /\ Located(v)'
  BY <1>1, <1>2, <1>3, <1>5, <1>6, <1>7, <1>9, WatchedOthers
<1>15. Active(w)' = d /\ (Busy(w)' <=> Busy(w)) /\ (HasPaused(w)' <=> HasPaused(w)) /\ ~Quiet(d)'
  BY <1>9, <1>12 DEF Active, Busy, HasPaused, Quiet
<1>16. MarksBusy(w) => MarksBusy(w)'
  BY <1>3, <1>5 DEF MarksBusy, Apart
<1>17. Hands(w)'
  BY <1>2, <1>3, <1>6, <1>7 DEF Hands
<1>18. ~Busy(w) => HasPaused(w) \/ MarksBusy(w)
  BY <1>3, <1>4 DEF Watched, Watch, Unsettled, Quiet
<1>19. Watch(w)'
  BY <1>15, <1>16, <1>17, <1>18 DEF Watch, Unsettled, Given, Noticed, Relieved
<1>20. ASSUME NEW u \in Threads, Belongs(u, w)', u # d
       PROVE  IsSpare(u, w)' \/ IsPaused(u, w)' \/ IsReady(u, w)'
  <2>1. \A e : InSeq(e, workers'[w].idleThreads) <=> InSeq(e, workers[w].idleThreads) \/ e = t
    BY <1>8, <1>9, AppendFacts
  <2>2. CASE u = t
    BY <2>1, <2>2 DEF IsSpare
  <2>3. CASE u # t
    <3>1. IsSpare(u, w) \/ IsPaused(u, w) \/ IsReady(u, w)
      BY <1>4, <1>7, <1>20, <2>3, Names DEF Watched, Located
    <3> QED
      BY <1>9, <1>13, <1>20, <2>1, <3>1 DEF IsSpare, IsPaused, IsReady
  <2> QED
    BY <2>2, <2>3
<1>21. Located(w)'
  BY <1>7, <1>15, <1>20 DEF Located
<1> QED
  BY <1>7, <1>14, <1>19, <1>21 DEF Watched

\* The main thread leaves its worker to a new thread, which is at rest.
LEMMA WatchedNotify ==
  ASSUME Typed, Shape, Watched, notifyMainThreadIsSleeping, settings.mainIsWorker
  PROVE  Watched'
<1>1. /\ pc[Main] = "notify" /\ UNCHANGED settings
      /\ packages' = [packages EXCEPT ![NextThread] = newPackage(0)]
      /\ workers' = [workers EXCEPT ![0].threadBusy = FALSE, ![0].activeThread = NextThread]
      /\ \/ pc' = [pc EXCEPT ![Main] = "sleep"] /\ call' = call
         \/ /\ pc' = [pc EXCEPT ![Main] = "launch"]
            /\ call' = [call EXCEPT ![Main] = [arg |-> NoTask, worker |-> NoWorker, back |-> "sleep"]]
  BY DEF notifyMainThreadIsSleeping, At, Goto, Call, LeftToThread
<1>2. PICK n \in Threads : n = NextThread /\ ~Created(n)
  <2>1. ~Left
    BY <1>1 DEF Left, InCall, Calls
  <2>2. Bound <= Needed(settings)
    BY <2>1, BoundFacts
  <2> QED
    BY <2>2, NextExists
<1>3. n \in All /\ n # Main /\ Main \in All /\ 0 \in Workers
  BY Names, WorkerNumbers DEF Typed, OthersTyped
<1>4. pc[n] = "asleep" /\ Role(n) = "rest"
  BY <1>2 DEF Typed, Fresh, Role, RoleOf, Calls
<1>5. \A v \in Workers : ~Belongs(n, v)
  <2>1. \A v \in Workers : v # NoWorker
    BY WorkerNumbers DEF Typed, OthersTyped
  <2> QED
    BY <1>2, <1>3, <2>1 DEF Belongs, Created
<1>6. Belongs(Main, 0) /\ Role(Main) = "awake" /\ pc[Main] # "markBusy" /\ pc[Main] \notin Writing
  BY <1>1 DEF Belongs, Role, RoleOf, Writing
<1>7. Active(0) = Main
  BY <1>3, <1>6, AwakeActive
<1>8. Workers' = Workers /\ Threads' = Threads
  BY <1>1, SameSettings DEF Threads, Needed
<1>9. /\ \A b \in All \ {n} : packages'[b] = packages[b]
      /\ packages'[n] = newPackage(0)
  BY <1>1, <1>2, <1>3 DEF Typed, PackagesTyped
<1>10. /\ \A b \in All \ {n} : \A v : Belongs(b, v)' <=> Belongs(b, v)
       /\ \A v : Belongs(n, v)' <=> v = 0
       /\ ~Completed(n)'
       /\ \A b \in All \ {n} : Completed(b)' <=> Completed(b)
  <2>1. \A b \in All \ {n} : \A v : Belongs(b, v)' <=> Belongs(b, v)
    BY <1>1, <1>9 DEF Belongs
  <2>2. \A v : Belongs(n, v)' <=> v = 0
    BY <1>3, <1>9 DEF Belongs, newPackage
  <2>3. ~Completed(n)' /\ \A b \in All \ {n} : Completed(b)' <=> Completed(b)
    BY <1>9 DEF Completed, newPackage
  <2> QED
    BY <2>1, <2>2, <2>3
<1>11. Apart(Main)
  BY <1>1, <1>3 DEF Typed, PlacesTyped, CallsTyped, Apart
<1>12. Quiet(n)'
  BY <1>3, <1>4, <1>10, <1>11, ApartViews DEF Quiet
<1>13. workers[0] \in WorkerType(Known)
  BY <1>3 DEF Typed, WorkersTyped
<1>14. /\ \A v \in Workers \ {0} : workers'[v] = workers[v]
       /\ workers'[0] = [workers[0] EXCEPT !.threadBusy = FALSE, !.activeThread = n]
  BY <1>1, <1>2, <1>3 DEF Typed, WorkersTyped
<1>15. /\ workers'[0].activeThread = n /\ workers'[0].threadBusy = FALSE
       /\ workers'[0].pausedThreads = workers[0].pausedThreads
       /\ workers'[0].waitingThreads = workers[0].waitingThreads
       /\ workers'[0].idleThreads = workers[0].idleThreads
  BY <1>13, <1>14 DEF WorkerType
<1>16. \A v \in Workers \ {0} : Watch(v)' /\ Located(v)'
  <2>1. \A b \in All, v \in Workers \ {0} : Belongs(b, v)' <=> Belongs(b, v)
    BY <1>5, <1>10
  <2>2. \A b \in All, v \in Workers \ {0} : Belongs(b, v) => (Completed(b)' <=> Completed(b))
    BY <1>5, <1>10
  <2> QED
    BY <1>1, <1>3, <1>6, <1>11, <1>14, <2>1, <2>2, WatchedOthers
<1>17. Active(0)' = n /\ ~Busy(0)'
  BY <1>15 DEF Active, Busy
<1>18. Watch(0)'
  BY <1>1, <1>12, <1>17 DEF Watch, Unsettled, Given, Noticed, Relieved, Quiet
<1>19. ASSUME NEW u \in Threads, Belongs(u, 0)', u # n
       PROVE  IsSpare(u, 0)' \/ IsPaused(u, 0)' \/ IsReady(u, 0)'
  <2>1. u # Main /\ u \in All /\ Belongs(u, 0)
    BY <1>10, <1>19, Names
  <2>2. IsSpare(u, 0) \/ IsPaused(u, 0) \/ IsReady(u, 0)
    BY <1>3, <1>7, <2>1 DEF Watched, Located
  <2> QED
    BY <1>15, <2>2 DEF IsSpare, IsPaused, IsReady
<1>20. Located(0)'
  BY <1>8, <1>17, <1>19 DEF Located
<1> QED
  BY <1>8, <1>16, <1>18, <1>20 DEF Watched

\* In the beginning the threads of the workers sleep, or report their cores.
LEMMA WatchedInit == Init => Watched
<1> SUFFICES ASSUME Init PROVE Watched
  OBVIOUS
<1>1. Typed /\ Shape
  BY TypedInit, ShapeInit
<1>2. /\ pc[Main] = "init" /\ \A t \in Threads : pc[t] = "asleep"
  BY Names DEF Init
<1>3. Role(Main) = "awake" /\ \A t \in Threads : Role(t) = "rest"
  BY <1>2 DEF Role, RoleOf, Calls
<1>4. settings \in Settings /\ settings.report \in BOOLEAN /\ Workers = 0 .. settings.workers - 1
  BY <1>1, SettingsAssumption, WorkerNumbers DEF Init
<1>5. ASSUME NEW w \in Workers
      PROVE  /\ workers[w].waitingThreads = <<>>
             /\ \/ Active(w) = Main /\ Busy(w)
                \/ w \in firstThreads /\ Active(w) = w /\ (Busy(w) <=> settings.report)
  <2>1. CASE w \in firstThreads
    <3>1. workers[w] = newWorkerThread(settings.report, w)
      BY <1>5, <2>1 DEF Init
    <3> QED
      BY <2>1, <3>1 DEF newWorkerThread, Active, Busy
  <2>2. CASE w \notin firstThreads
    <3>1. workers[w] = newWorkerThread(TRUE, Main)
      BY <1>5, <2>2 DEF Init
    <3> QED
      BY <2>2, <3>1 DEF newWorkerThread, Active, Busy
  <2> QED
    BY <2>1, <2>2
<1>6. ASSUME NEW w \in firstThreads PROVE w \in Threads /\ w \in All /\ (Completed(w) <=> settings.report)
  <2>1. w \in Workers
    BY <1>4, <1>6 DEF firstThreads
  <2>2. w \in Threads /\ w \in All
    BY <1>4, <2>1, WorkerNumbers, Names
  <2>3. packages[w] = [newPackage(w) EXCEPT !.completed = settings.report]
    BY <1>6, <2>2 DEF Init
  <2> QED
    BY <2>2, <2>3 DEF newPackage, Completed
<1>7. ASSUME NEW w \in Workers PROVE Watch(w)
  <2>1. ~HasReady(w)
    BY <1>5, <1>7 DEF HasReady
  <2>2. CASE Active(w) = Main /\ Busy(w)
    BY <1>3, <2>1, <2>2 DEF Watch, Unsettled, Given, Noticed, Relieved, Quiet
  <2>3. CASE w \in firstThreads /\ Active(w) = w /\ (Busy(w) <=> settings.report)
    BY <1>3, <1>6, <2>1, <2>3 DEF Watch, Unsettled, Given, Noticed, Relieved, Quiet
  <2> QED
    BY <1>5, <2>2, <2>3
<1>8. ASSUME NEW w \in Workers PROVE Located(w)
  BY <1>1, <1>3, Names DEF Located, Shape, Nonactive
<1> QED
  BY <1>7, <1>8 DEF Watched

\* A calm step leaves no worker alone.
LEMMA WatchedNext ==
  ASSUME RestartsBeside, InTurn, NoError', Watched, [Next]_vars
  PROVE  Watched'
<1> USE DEF InTurn
<1>1. ASSUME NEW a \in All, Steps(a) PROVE Watched'
  <2>1. pc'[a] # "error"
    BY DEF NoError
  <2> QED
    BY <1>1, <2>1, WatchedStart, WatchedCommand, WatchedResumeActive, WatchedAwaitPoller, WatchedPause,
       WatchedPauseActive, WatchedPauseMap, WatchedWakes, WatchedMark, WatchedMarkWaiting, WatchedMarkBusy,
       WatchedTest DEF Steps
<1>2. ASSUME NEW a \in All, UserCode(a) \/ pollDelivers(a) \/ checkForLocalTermination(a) PROVE Watched'
  <2>1. CASE UserCode(a)
    <3>1. pc[a] = "task" /\ Caller(a) /\ BackOf(a) = "task"
      BY <2>1 DEF UserCode, At, Caller, BackOf
    <3> QED
      BY <2>1, <3>1, WatchedUser DEF UserCode
  <2>2. CASE pollDelivers(a)
    <3>1. Caller(a) /\ BackOf(a) = Polled(a)
      BY <2>2 DEF pollDelivers, At, Caller, BackOf
    <3> QED
      BY <2>2, <3>1, WatchedUser DEF pollDelivers
  <2>3. CASE checkForLocalTermination(a)
    BY <2>3, WatchedTest
  <2> QED
    BY <1>2, <2>1, <2>2, <2>3
<1>3. ASSUME NEW t \in Threads, Entry(t) PROVE Watched'
  <2>1. t \in All
    BY Names
  <2> QED
    BY <1>3, <2>1, WatchedWakes, WatchedEntry, WatchedHandOver, WatchedResumeWaiting, WatchedGoIdle DEF Entry
<1>4. ASSUME MainSteps PROVE Watched'
  BY <1>4, WatchedMain, WatchedNotify DEF MainSteps
<1>5. ASSUME edatRestart PROVE Watched'
  BY <1>5, WatchedRestart
<1>6. ASSUME vars' = vars PROVE Watched'
  BY <1>6, WatchedStutters
<1> QED
  BY <1>1, <1>2, <1>3, <1>4, <1>5, <1>6 DEF Next, Stopped

\* In a calm behaviour each worker is looked after.
LEMMA AlwaysWatched ==
  ASSUME RestartsBeside
  PROVE  CalmSpec => [](InTurn /\ Watched)
<1>1. InTurn /\ Watched /\ InTurn' /\ [Next]_vars => Watched'
  <2>1. InTurn' => NoError'
    BY TypedNoError, PTL DEF InTurn
  <2> QED
    BY <2>1, WatchedNext
<1> QED
  BY <1>1, WatchedInit, AlwaysInTurn, PTL DEF CalmSpec, Spec

\* Beside the main thread no worker sleeps while one of its threads may go on
\* after a wait: its active thread is awake, about to be woken, or will be by
\* the thread that marked the other one or wrote a command.
THEOREM CalmNoForgottenWaiter ==
  ASSUME \A s \in Settings : ~s.mainIsWorker
  PROVE  CalmSpec => []NoForgottenWaiter
<1>1. RestartsBeside
  BY DEF RestartsBeside
<1>2. InTurn /\ Watched => NoForgottenWaiter
  <2> SUFFICES ASSUME InTurn, Watched, NEW w \in Workers, HasReady(w), Sleeping(Active(w))
               PROVE  Waking(w)
    BY DEF NoForgottenWaiter, HasReady, Active
  <2> USE DEF InTurn
  <2>1. PICK t \in All : t = Active(w)
    BY BelongsFacts
  <2>2. ~settings.mainIsWorker
    BY DEF Typed, OthersTyped
  <2>3. Watch(w) /\ ~Completed(t) /\ pc[t] \in {"asleep", "spare", "paused"}
    BY <2>1 DEF Watched, Sleeping, Completed
  <2>4. CASE pc[t] = "asleep"
    <3>1. Quiet(t)
      BY <2>3, <2>4 DEF Quiet, Role, RoleOf, Calls
    <3>2. Busy(w) => Written(w)
      BY <2>1, <2>3, <3>1 DEF Watch, Given
    <3>3. ~Busy(w) => MarksBusy(w)
      BY <2>1, <2>2, <2>3, <3>1 DEF Watch, Noticed
    <3> QED
      BY <3>2, <3>3 DEF Written, Writes, Writing, MarksBusy, Waking
  <2>5. CASE pc[t] = "spare"
    <3>1. Role(t) = "spare"
      BY <2>5 DEF Role, RoleOf, Calls, Polls
    <3> QED
      BY <2>1, <2>3, <3>1 DEF Shape, Turns
  <2>6. CASE pc[t] = "paused"
    <3>1. Role(t) = "paused"
      BY <2>6 DEF Role, RoleOf, Calls, Polls
    <3>2. PICK h \in All : Belongs(h, w) /\ Role(h) = "handOver"
      BY <2>1, <2>3, <3>1 DEF Watch, Relieved, Hands
    <3>3. pc[h] = "handOver" /\ Worker(h) = w
      <4>1. h # Main
        BY <2>2, <3>2 DEF Belongs
      <4>2. pc[h] = "handOver"
        BY <3>2 DEF Role, RoleOf, Calls, Polls
      <4> QED
        BY <3>2, <4>1, <4>2 DEF Belongs, Worker
    <3> QED
      BY <3>3 DEF Waking
  <2> QED
    BY <2>3, <2>4, <2>5, <2>6
<1> QED
  BY <1>1, <1>2, AlwaysWatched, PTL

-----------------------------------------------------------------------------
(* When polling has ended                                                  *)

\* Where a thread goes that looks for a worker to poll.
Launch == {"launch", "awaitPoller", "clearCallFunction", "resumeActive"}

\* The main thread is in edatFinalise; a thread of the pool is in user code,
\* or in a function called from there or from a poll.
Ends(l, back) == l \in {"notify", "sleep", "finalised"} \/ (l \in Calls /\ back = "sleep")
Works(l, back) == l \in Waiting \union {"task"} \/ (l \in Calls /\ back # "asleep")

\* After a poll, and in edatFinalise, a thread calls nothing else.
LaunchOK(l, back) == l \in Calls /\ back \in {"asleep", "sleep"} => l \in Launch
Launched == \A a \in All : LaunchOK(pc[a], call[a].back)

\* The main thread stays attached, and only then is there a test.
Attached ==
  /\ mainThread \in [attached : BOOLEAN, completed : BOOLEAN]
  /\ mainThread.attached <=> Ends(pc[Main], call[Main].back)
  /\ \A a \in All : pc[a] \in {"lockPool", "test"} => mainThread.attached

\* Nothing is left to do.
Ended == finished =>
  /\ mainThread.attached /\ threadQueue = <<>> /\ \A w \in Workers : ~Commands(w)
  /\ \A t \in Threads : ~Works(pc[t], call[t].back)

Closing == Launched /\ Attached /\ Ended

\* What a thread must not do.
LEMMA ClosingMoves ==
  ASSUME Typed, Closing, NEW a \in All, NEW l, pc' = [pc EXCEPT ![a] = l],
         \A b \in All \ {a} : call'[b] = call[b], UNCHANGED <<settings, mainThread, finished>>,
         LaunchOK(l, call'[a].back),
         a = Main => (Ends(l, call'[a].back) <=> Ends(pc[a], call[a].back)),
         l \in {"lockPool", "test"} => mainThread.attached,
         finished => threadQueue' = <<>> /\ \A w \in Workers : Commands(w)' => Commands(w),
         finished /\ a \in Threads => ~Works(l, call'[a].back)
  PROVE  Closing'
<1>1. pc'[a] = l /\ \A b \in All \ {a} : pc'[b] = pc[b]
  BY DEF Typed, PlacesTyped
<1>2. Workers' = Workers /\ Threads' = Threads
  BY SameSettings DEF Threads, Needed
<1>3. Launched'
  BY <1>1 DEF Closing, Launched
<1>4. Attached'
  BY <1>1, Names DEF Closing, Attached
<1>5. Ended'
  BY <1>1, <1>2, Names DEF Closing, Ended
<1> QED
  BY <1>3, <1>4, <1>5 DEF Closing

\* Once polling has ended no thread is in user code, and those in the pool
\* only look for a worker to poll.
LEMMA EndedCalls ==
  ASSUME Typed, PollersOK, Closing, finished, NEW a \in All
  PROVE  /\ pc[a] \notin Waiting \union {"task", "init"}
         /\ InCall(a) => pc[a] \in Launch
<1>1. CASE a = Progress
  BY <1>1 DEF PollersOK, InCall, Calls, Waiting
<1>2. CASE a = Main
  <2>1. Ends(pc[Main], call[Main].back)
    BY DEF Closing, Attached, Ended
  <2> QED
    BY <1>2, <2>1 DEF Ends, InCall, Calls, Waiting, Closing, Launched, LaunchOK
<1>3. CASE a \in Threads
  <2>1. ~Works(pc[a], call[a].back)
    BY <1>3 DEF Closing, Ended
  <2>2. pc[a] # "init"
    BY <1>3, Names DEF Typed, PlacesTyped, PlacesOf, Calls, Waiting, Polls
  <2> QED
    BY <1>3, <2>1, <2>2 DEF Works, InCall, Closing, Launched, LaunchOK
<1> QED
  BY <1>1, <1>2, <1>3, Names

\* In a function that others call, ...
LEMMA ClosingInCall ==
  ASSUME Typed, PollersOK, Closing, NEW a \in All, InCall(a), NEW l \in Calls \union {call[a].back},
         pc' = [pc EXCEPT ![a] = l], call' = call \/ \E w : call' = [call EXCEPT ![a].worker = w],
         UNCHANGED <<settings, mainThread, finished>>,
         pc[a] \in Launch => /\ l \in Launch \union {call[a].back} /\ threadQueue' = threadQueue
                             /\ \A w \in Workers : Commands(w)' => Commands(w)
  PROVE  Closing'
<1>1. call \in [All -> [arg : All \union (0 .. MaxTasks), worker : Workers \union {NoWorker}, back : Labels]]
  BY DEF Typed, CallsTyped
<1>2. call'[a].back = call[a].back /\ \A b \in All \ {a} : call'[b] = call[b]
  BY <1>1
<1>3. call[a].back \in BacksOf(a) /\ pc[a] \in Calls
  BY DEF Typed, CallsTyped, CallTyped, InCall
<1>4. LaunchOK(pc[a], call[a].back)
  BY DEF Closing, Launched
<1>5. LaunchOK(l, call'[a].back)
  <2>1. \A back \in {"asleep", "sleep"} : back \notin Calls
    BY DEF Calls
  <2> QED
    BY <1>2, <1>3, <1>4, <2>1 DEF LaunchOK
<1>6. a = Main => (Ends(l, call'[a].back) <=> Ends(pc[a], call[a].back))
  BY <1>2, <1>3 DEF Ends, BacksOf, Calls
<1>7. l \notin {"lockPool", "test"}
  BY <1>3 DEF BacksOf, Calls
<1>8. ASSUME finished PROVE threadQueue' = <<>> /\ \A w \in Workers : Commands(w)' => Commands(w)
  BY <1>8, EndedCalls DEF Closing, Ended
<1>9. ASSUME finished, a \in Threads PROVE ~Works(l, call'[a].back)
  <2>1. pc[a] \in Launch /\ ~Works(pc[a], call[a].back)
    BY <1>9, EndedCalls DEF Closing, Ended
  <2>2. call[a].back = "asleep"
    BY <1>3, <2>1 DEF Works
  <2> QED
    BY <1>2, <2>2 DEF Works, Calls, Waiting
<1> QED
  BY <1>2, <1>5, <1>6, <1>7, <1>8, <1>9, ClosingMoves

\* ... a worker is found and given a command, ...
LEMMA ClosingCommands ==
  ASSUME Typed, PollersOK, Closing, NEW a \in All,
         startThread(a) \/ setCallFunction(a) \/ setData(a) \/ resumeActive(a)
           \/ launchThreadToPollForProgressIfPossible(a) \/ awaitPoller(a) \/ clearCallFunction(a)
  PROVE  Closing'
<1>1. /\ UNCHANGED <<settings, mainThread, finished>>
      /\ pc[a] \in {"start", "setCallFunction", "setData"} \union Launch
      /\ \E l \in {"setCallFunction", "setData"} \union Launch \union {call[a].back} :
           pc' = [pc EXCEPT ![a] = l] /\ (pc[a] \in Launch => l \in Launch \union {call[a].back})
      /\ call' = call \/ \E w : call' = [call EXCEPT ![a].worker = w]
  BY DEF startThread, setCallFunction, setData, resumeActive, launchThreadToPollForProgressIfPossible, awaitPoller,
         clearCallFunction, Write, At, Goto, Return, life, Launch
<1>2. ASSUME pc[a] \in Launch
      PROVE  threadQueue' = threadQueue /\ \A w \in Workers : Commands(w)' => Commands(w)
  <2>1. resumeActive(a) \/ launchThreadToPollForProgressIfPossible(a) \/ awaitPoller(a) \/ clearCallFunction(a)
    BY <1>2 DEF startThread, setCallFunction, setData, Write, At, Launch
  <2>2. threadQueue' = threadQueue
    BY <2>1 DEF resumeActive, launchThreadToPollForProgressIfPossible, awaitPoller, clearCallFunction, Write, queue
  <2>3. CASE workers' = workers
    BY <2>2, <2>3 DEF Commands
  <2>4. CASE awaitPoller(a) \/ clearCallFunction(a)
    <3>1. call[a].worker \in Workers
      BY <2>4 DEF awaitPoller, clearCallFunction, Write, At, Typed, CallsTyped, CallTyped, Writing
    <3>2. \/ workers' = [workers EXCEPT ![call[a].worker].threadBusy = TRUE]
          \/ workers' = [workers EXCEPT ![call[a].worker] = [workers[call[a].worker] EXCEPT !.callFunction = FALSE]]
      BY <2>4 DEF awaitPoller, clearCallFunction, Write, Of
    <3> QED
      BY <2>2, <3>1, <3>2 DEF Commands, Typed, WorkersTyped, WorkerType
  <2> QED
    BY <2>1, <2>2, <2>3, <2>4 DEF resumeActive, launchThreadToPollForProgressIfPossible
<1> QED
  BY <1>1, <1>2, ClosingInCall DEF InCall, Calls, Launch

\* ... or a thread that waits is found.
LEMMA ClosingMarks ==
  ASSUME Typed, PollersOK, Closing, NEW a \in All, pc'[a] # "error",
         markThreadResume(a) \/ markWaiting(a) \/ markBusy(a) \/ markPoller(a)
  PROVE  Closing'
<1>1. /\ UNCHANGED <<settings, mainThread, finished>>
      /\ pc[a] \in {"mark", "markWaiting", "markBusy", "markPoller"}
      /\ \E l \in {"markWaiting", "markBusy", "markPoller", "error", call[a].back} : pc' = [pc EXCEPT ![a] = l]
      /\ call' = call \/ \E w : call' = [call EXCEPT ![a].worker = w]
  BY DEF markThreadResume, markWaiting, markBusy, markPoller, At, Goto, Return, life
<1>2. PICK l \in {"markWaiting", "markBusy", "markPoller", call[a].back} : pc' = [pc EXCEPT ![a] = l]
  BY <1>1 DEF Typed, PlacesTyped
<1>3. InCall(a) /\ pc[a] \notin Launch /\ l \in Calls \union {call[a].back}
  BY <1>1 DEF InCall, Calls, Launch
<1> QED
  BY <1>1, <1>2, <1>3, ClosingInCall

\* In edatWait nothing has ended.
LEMMA ClosingWaits ==
  ASSUME Typed, PollersOK, Closing, NEW a \in All, pc'[a] # "error",
         pauseThread(a) \/ pauseActive(a) \/ pauseMap(a) \/ waitReturns(a)
  PROVE  Closing'
<1>1. /\ UNCHANGED <<settings, mainThread, finished>> /\ pc[a] \in Waiting
      /\ \E l \in {"pauseActive", "pauseMap", "paused", "error", call[a].back} : pc' = [pc EXCEPT ![a] = l]
      /\ call' = call \/ \E w : call' = [call EXCEPT ![a].worker = w]
  BY DEF pauseThread, pauseActive, pauseMap, waitReturns, At, Goto, Return, life, Waiting
<1>2. call \in [All -> [arg : All \union (0 .. MaxTasks), worker : Workers \union {NoWorker}, back : Labels]]
  BY DEF Typed, CallsTyped
<1>3. call'[a].back = "task" /\ call[a].back = "task" /\ \A b \in All \ {a} : call'[b] = call[b]
  BY <1>1, <1>2 DEF Typed, CallsTyped, CallTyped
<1>4. PICK l \in {"pauseActive", "pauseMap", "paused", "task"} : pc' = [pc EXCEPT ![a] = l]
  BY <1>1, <1>3 DEF Typed, PlacesTyped
<1>5. ~finished
  BY <1>1, EndedCalls
<1>6. LaunchOK(l, call'[a].back) /\ (Ends(l, call'[a].back) <=> Ends(pc[a], call[a].back))
  BY <1>1, <1>3 DEF LaunchOK, Ends, Waiting
<1> QED
  BY <1>1, <1>3, <1>4, <1>5, <1>6, ClosingMoves

\* Where a thread of a worker goes.
EntryMoves(t, l) ==
  /\ l \in {"gone", "command", "task", "loop", "look", "handOver", "spare", "idle", "asleep", "launch"} \union
           (Polls \ {"lockPool", "test"})
  /\ pc' = [pc EXCEPT ![t] = l]
  /\ l = "launch" => call' = [call EXCEPT ![t] = [arg |-> NoTask, worker |-> NoWorker, back |-> "asleep"]]

\* Every step of threadEntryProcedure goes to one of these places.
LEMMA EntryPlaces ==
  ASSUME NEW t \in Threads, Entry(t)
  PROVE  \E l : EntryMoves(t, l)
<1>1. CASE wake(t) \/ issueFunctionCall(t) \/ takeFromQueue(t) \/ lookForWaiting(t)
  <2>1. \E l \in {"gone", "command", "task", "loop", "look"} : pc' = [pc EXCEPT ![t] = l]
    BY <1>1 DEF wake, issueFunctionCall, takeFromQueue, lookForWaiting, Begin, Goto
  <2> QED
    BY <2>1 DEF EntryMoves
<1>2. CASE handOver(t) \/ resumeWaiting(t) \/ reactivated(t) \/ goIdle(t)
  <2>1. \E l \in {"handOver", "spare", "loop", "idle"} : pc' = [pc EXCEPT ![t] = l]
    BY <1>2 DEF handOver, resumeWaiting, reactivated, goIdle, Spare, Goto
  <2> QED
    BY <2>1 DEF EntryMoves
<1>3. CASE startPolling(t) \/ pollReturns(t) \/ checkBusy(t)
  BY <1>3 DEF EntryMoves, startPolling, pollReturns, checkBusy, GoesOn, Polls, Goto
<1>4. CASE stopPolling(t)
  BY <1>4 DEF EntryMoves, stopPolling, Goto, Call
<1> QED
  BY <1>1, <1>2, <1>3, <1>4 DEF Entry

\* A thread of the pool finds nothing more to do.
LEMMA ClosingEntry ==
  ASSUME Typed, Closing, NEW t \in Threads, Entry(t)
  PROVE  Closing'
<1>1. t \in All /\ t # Main /\ UNCHANGED <<settings, mainThread, finished>>
  BY Names DEF Entry, wake, issueFunctionCall, takeFromQueue, lookForWaiting, handOver, resumeWaiting, reactivated,
     goIdle, startPolling, pollReturns, checkBusy, stopPolling, life
<1>2. Worker(t) \in Workers \/ ~(issueFunctionCall(t) \/ handOver(t) \/ goIdle(t))
  BY AwakeThread DEF issueFunctionCall, handOver, goIdle, At
<1>3. \A w \in Workers : Commands(w)' => Commands(w)
  <2>1. CASE issueFunctionCall(t) \/ handOver(t) \/ goIdle(t)
    <3>1. \/ workers' = workers
          \/ workers' = [workers EXCEPT ![Worker(t)].callFunction = FALSE]
          \/ workers' = [workers EXCEPT ![Worker(t)].threadBusy = FALSE]
          \/ workers' = [workers EXCEPT ![Worker(t)].activeThread = Head(workers[Worker(t)].waitingThreads),
                                        ![Worker(t)].waitingThreads = Tail(@),
                                        ![Worker(t)].idleThreads = Append(@, t)]
      BY <2>1 DEF issueFunctionCall, handOver, goIdle
    <3> QED
      BY <1>2, <2>1, <3>1, ZenonT(60) DEF Commands, Typed, WorkersTyped, WorkerType
  <2>2. CASE workers' = workers
    BY <2>2 DEF Commands
  <2> QED
    BY <2>1, <2>2 DEF Entry, wake, takeFromQueue, lookForWaiting, resumeWaiting, reactivated, startPolling,
       pollReturns, checkBusy, stopPolling
<1>4. ASSUME finished PROVE threadQueue' = <<>>
  <2>1. threadQueue = <<>>
    BY <1>4 DEF Closing, Ended
  <2>2. threadQueue' = threadQueue
    BY <2>1 DEF Entry, wake, issueFunctionCall, takeFromQueue, lookForWaiting, handOver, resumeWaiting, reactivated,
       goIdle, startPolling, pollReturns, checkBusy, stopPolling, queue
  <2> QED
    BY <2>1, <2>2
<1>5. \A b \in All \ {t} : call'[b] = call[b]
  BY DEF Entry, wake, issueFunctionCall, takeFromQueue, lookForWaiting, handOver, resumeWaiting, reactivated,
     goIdle, startPolling, pollReturns, checkBusy, stopPolling, Call, Typed, CallsTyped
<1>6. ASSUME finished, issueFunctionCall(t) PROVE pc' = [pc EXCEPT ![t] = "loop"]
  BY <1>2, <1>6 DEF Closing, Ended, Commands, issueFunctionCall, Goto
<1>7. PICK l : EntryMoves(t, l)
  BY EntryPlaces
<1>8. l = "launch" => call'[t].back = "asleep"
  BY <1>1, <1>7 DEF EntryMoves, Typed, CallsTyped
<1>9. LaunchOK(l, call'[t].back) /\ l \notin {"lockPool", "test"}
  BY <1>7, <1>8 DEF EntryMoves, LaunchOK, Calls, Launch, Polls
<1>10. ASSUME finished PROVE ~Works(l, call'[t].back)
  <2>1. l # "task"
    <3>1. pc'[t] = l
      BY <1>1, <1>7 DEF EntryMoves, Typed, PlacesTyped
    <3>2. l = "task" => issueFunctionCall(t) \/ takeFromQueue(t)
      BY <1>1, <3>1 DEF Entry, wake, lookForWaiting, handOver, resumeWaiting, reactivated,
         goIdle, startPolling, pollReturns, checkBusy, stopPolling, Goto, Call, Spare, GoesOn, Typed, PlacesTyped
    <3>3. pc'[t] = "task" => ~issueFunctionCall(t)
      BY <1>1, <1>6, <1>10 DEF Typed, PlacesTyped
    <3> QED
      BY <1>10, <3>1, <3>2, <3>3 DEF takeFromQueue, Closing, Ended
  <2> QED
    BY <1>7, <1>8, <2>1 DEF EntryMoves, Works, Calls, Waiting, Polls
<1> QED
  BY <1>1, <1>3, <1>4, <1>5, <1>7, <1>9, <1>10, ClosingMoves DEF EntryMoves

\* User code, and what a poll delivers, come before polling has ended.
LEMMA ClosingCaller ==
  ASSUME Typed, PollersOK, Closing, NEW a \in All, Caller(a),
         \/ pc[a] = "task" /\ submit(a, "task")
         \/ pc[a] = "task" /\ fire(a, "task")
         \/ pc[a] = "task" /\ edatWait(a)
         \/ pc[a] = "task" /\ a # Main /\ taskEnds(a)
         \/ pc[a] = "poll" /\ ~finished /\ (submit(a, Polled(a)) \/ fire(a, Polled(a)))
  PROVE  Closing'
<1>1. ~finished
  BY EndedCalls
<1>2. UNCHANGED <<settings, mainThread, finished>>
  BY DEF submit, fire, edatWait, taskEnds, life
<1>3. PICK l \in {"start", "mark", "pause", "loop"}, back \in {"task", "poll", "polled", call[a].back} :
        /\ pc' = [pc EXCEPT ![a] = l]
        /\ \/ \E k : call' = [call EXCEPT ![a] = [arg |-> k, worker |-> NoWorker, back |-> back]]
           \/ call' = call /\ back = call[a].back
        /\ l \in {"start", "mark", "pause"} => back \in {"task", "poll", "polled"}
        /\ a = Main => l # "loop" /\ (pc[a] = "task" => back = "task")
  BY DEF submit, fire, edatWait, taskEnds, Call, Goto, Polled
<1>4. call'[a].back = back /\ \A b \in All \ {a} : call'[b] = call[b]
  BY <1>3 DEF Typed, CallsTyped
<1>5. a = Main => pc[a] = "task"
  BY CallerFacts DEF Caller
<1>6. LaunchOK(l, back) /\ (a = Main => (Ends(l, back) <=> Ends(pc[a], call[a].back)))
  BY <1>3, <1>5 DEF LaunchOK, Ends, Calls
<1> QED
  BY <1>1, <1>2, <1>3, <1>4, <1>6, ClosingMoves

\* edatFinalise attaches the main thread.
LEMMA ClosingAttach ==
  ASSUME Typed, PollersOK, Closing, pc[Main] = "task", attachMainThread
  PROVE  Closing'
<1>1. Main \in All /\ ~finished
  BY Names, EndedCalls
<1>2. /\ UNCHANGED <<finished, call>> /\ mainThread' = [attached |-> TRUE, completed |-> FALSE]
      /\ pc' = [pc EXCEPT ![Main] = "notify"]
  BY DEF attachMainThread, Goto
<1>3. pc'[Main] = "notify" /\ \A b \in All \ {Main} : pc'[b] = pc[b]
  BY <1>1, <1>2 DEF Typed, PlacesTyped
<1>4. Launched'
  BY <1>2, <1>3 DEF Closing, Launched, LaunchOK, Calls
<1>5. Attached'
  BY <1>2, <1>3 DEF Attached, Ends
<1> QED
  BY <1>1, <1>2, <1>4, <1>5 DEF Closing, Ended

\* The steps of the main thread on its own.
LEMMA ClosingMain ==
  ASSUME Typed, PollersOK, Closing, ~resetPolling, MainSteps
  PROVE  Closing'
<1>1. Main \in All /\ Main \notin Threads
  BY Names
<1>2. UNCHANGED <<settings, mainThread, finished, threadQueue>>
  BY DEF MainSteps, setMessaging, notifyMainThreadIsSleeping, mainThreadWoken, life, queue
<1>3. PICK l \in {"launch", "task", "sleep", "finalised"}, back \in {"task", "sleep", call[Main].back} :
        /\ pc' = [pc EXCEPT ![Main] = l]
        /\ \/ l = "launch" /\ call' = [call EXCEPT ![Main] = [arg |-> NoTask, worker |-> NoWorker, back |-> back]]
           \/ l # "launch" /\ call' = call /\ back = call[Main].back
        /\ \/ pc[Main] = "init" /\ ((l = "launch" /\ back = "task") \/ l = "task")
           \/ pc[Main] = "notify" /\ ((l = "launch" /\ back = "sleep") \/ l = "sleep")
           \/ pc[Main] = "sleep" /\ l = "finalised"
  <2>1. CASE setMessaging
    BY <2>1 DEF setMessaging, At, Goto, Call
  <2>2. CASE notifyMainThreadIsSleeping
    BY <2>2 DEF notifyMainThreadIsSleeping, At, Goto, Call
  <2>3. CASE mainThreadWoken
    BY <2>3 DEF mainThreadWoken, At, Goto
  <2> QED
    BY <2>1, <2>2, <2>3 DEF MainSteps
<1>4. call'[Main].back = back /\ \A b \in All \ {Main} : call'[b] = call[b]
  BY <1>1, <1>3 DEF Typed, CallsTyped
<1>5. LaunchOK(l, back) /\ (Ends(l, back) <=> Ends(pc[Main], call[Main].back)) /\ l \notin {"lockPool", "test"}
  BY <1>3 DEF LaunchOK, Ends, Calls, Launch
<1>6. \A w \in Workers : Commands(w)' => Commands(w)
  <2>1. workers' = workers \/ (settings.mainIsWorker /\ workers' = LeftToThread)
    BY DEF MainSteps, setMessaging, notifyMainThreadIsSleeping, mainThreadWoken
  <2>2. ASSUME NEW w \in Workers, workers' = LeftToThread PROVE workers'[w].callFunction = workers[w].callFunction
    BY <2>2 DEF LeftToThread, Typed, WorkersTyped, WorkerType
  <2> QED
    BY <2>1, <2>2 DEF Commands
<1>7. finished => threadQueue' = <<>>
  BY <1>2 DEF Closing, Ended
<1> QED
  BY <1>1, <1>2, <1>3, <1>4, <1>5, <1>6, <1>7, ClosingMoves

\* The test finds something to do, or takes the scheduler's and the pool's mutexes for it.
LEMMA ClosingTest ==
  ASSUME Typed, PollersOK, Closing, NEW a \in All,
         \/ checkForLocalTermination(a) \/ lockMutexForFinalisationTest(a)
         \/ isThreadPoolFinished(a) /\ UNCHANGED <<finished, mainThread>>
              /\ pc' = [pc EXCEPT ![a] = Polled(a)]
  PROVE  Closing'
<1>1. /\ UNCHANGED <<settings, mainThread, finished, threadQueue, workers>> /\ call' = call
      /\ pc[a] \in {"poll", "lockPool", "test"} /\ (pc[a] = "poll" => mainThread.attached)
      /\ \E l \in Polls : pc' = [pc EXCEPT ![a] = l] /\ (pc[a] = "test" => l \notin {"lockPool", "test"})
  BY DEF checkForLocalTermination, lockMutexForFinalisationTest, isThreadPoolFinished, At, Goto, Polled, Polls,
     life, queue
<1>2. mainThread.attached \/ pc[a] = "test"
  BY <1>1 DEF Closing, Attached
<1>3. a # Main
  BY <1>1 DEF Typed, PlacesTyped, PlacesOf, Calls, Waiting
<1>4. \A l \in Polls : \A back : LaunchOK(l, back) /\ ~Works(l, back)
  BY DEF LaunchOK, Works, Polls, Calls, Waiting
<1>5. finished => threadQueue' = <<>>
  BY <1>1 DEF Closing, Ended
<1>6. \A w \in Workers : Commands(w)' => Commands(w)
  BY <1>1 DEF Commands
<1> QED
  BY <1>1, <1>2, <1>3, <1>4, <1>5, <1>6, ClosingMoves

\* A thread of an idle pool is in no task: the active threads are at rest, the others spare.
LEMMA IdlePool ==
  ASSUME Typed, PollersOK, Shape, Watched, NEW a \in All, pc[a] = "test",
         \A w \in Workers : Idle(w) /\ Free(pausedAndWaiting(w)), NEW t \in Threads
  PROVE  ~Works(pc[t], call[t].back)
<1>1. t \in All /\ t # Main /\ t # Progress
  BY Names
<1>2. CASE ~Created(t)
  BY <1>2 DEF Typed, Fresh, Works, Calls, Waiting
<1>3. CASE Created(t)
  <2>1. PICK w \in Workers : Belongs(t, w)
    BY <1>1, <1>3 DEF Typed, PackagesTyped, Created, Belongs
  <2>2. ~Busy(w) /\ ~HasPaused(w) /\ ~HasReady(w)
    BY DEF Idle, Busy, HasPaused, HasReady
  <2>3. ~MarksBusy(w)
    <3>1. ASSUME NEW b \in All, pc[b] = "markBusy", call[b].worker = w PROVE FALSE
      <4>1. w \in Mutexes /\ owner[w] = Nobody
        BY DEF Mutexes, pausedAndWaiting, Free
      <4>2. Holds(b, w)
        BY <3>1 DEF Holds
      <4> QED
        BY <4>1, <4>2, Names DEF Typed, Owners
    <3> QED
      BY <3>1 DEF MarksBusy
  <2>4. CASE Active(w) = t
    <3>1. Role(t) = "rest"
      BY <1>1, <2>2, <2>3, <2>4 DEF Watched, Watch, Unsettled, Quiet
    <3>2. ASSUME Works(pc[t], call[t].back) PROVE FALSE
      <4>1. pc[t] \in Calls /\ call[t].back = "polled"
        <5>1. pc[t] \in Calls => call[t].back \in {"task", "polled", "asleep"}
          BY <1>1 DEF Typed, CallsTyped, CallTyped, BacksOf
        <5> QED
          BY <3>1, <3>2, <5>1 DEF Works, Role, RoleOf, Waiting, Calls, Polls
      <4>2. owner[progress] = t
        <5>1. Holds(t, progress) /\ progress \in Mutexes
          BY <4>1 DEF Holds, Polling, InCall, Mutexes
        <5> QED
          BY <1>1, <5>1 DEF Typed, Owners
      <4>3. CASE a \in Threads
        <5>1. owner[progress] = a
          <6>1. Holds(a, progress) /\ progress \in Mutexes
            BY <4>3 DEF Holds, Polling, Polls, Mutexes
          <6> QED
            BY <6>1 DEF Typed, Owners
        <5> QED
          BY <4>1, <4>2, <5>1 DEF Calls
      <4>4. CASE a = Progress
        <5>1. settings.progressThread
          BY <4>4 DEF PollersOK
        <5> QED
          BY <4>2, <5>1 DEF PollersOK
      <4>5. a # Main
        BY DEF Typed, PlacesTyped, PlacesOf, Calls, Waiting
      <4> QED
        BY <4>3, <4>4, <4>5, Names
    <3> QED
      BY <3>2
  <2>5. CASE Active(w) # t
    <3>1. IsSpare(t, w)
      BY <2>1, <2>2, <2>5 DEF Watched, Located, HasPaused, HasReady, IsPaused, IsReady, InSeq
    <3>2. Role(t) \in {"handOver", "spare"}
      BY <1>1, <3>1 DEF Shape, Spares
    <3> QED
      BY <3>2 DEF Role, RoleOf, Works, Calls, Waiting, Polls, Typed, CallsTyped, CallTyped, BacksOf
  <2> QED
    BY <2>4, <2>5
<1> QED
  BY <1>2, <1>3

\* Polling ends when nothing is left to do.
LEMMA ClosingFinished ==
  ASSUME Typed, PollersOK, Shape, Placed, Watched, Closing, NEW a \in All, isThreadPoolFinished(a)
  PROVE  Closing'
<1>1. CASE (\A w \in Workers : Idle(w)) /\ threadQueue = <<>>
  <2>1. /\ pc[a] = "test" /\ UNCHANGED <<settings, workers, threadQueue, call>> /\ finished' = TRUE
        /\ mainThread' = [mainThread EXCEPT !.completed = TRUE]
        /\ \E l \in {"gone", "stopPolling"} : pc' = [pc EXCEPT ![a] = l]
    BY <1>1 DEF isThreadPoolFinished, At, Goto, queue
  <2>2. \A w \in Workers : Idle(w) /\ Free(pausedAndWaiting(w))
    BY <1>1 DEF isThreadPoolFinished, LooksAt, Idle
  <2>3. \A t \in Threads : ~Works(pc[t], call[t].back)
    BY <2>1, <2>2, IdlePool
  <2>4. \A w \in Workers : ~Commands(w)
    BY <1>1, BelongsFacts DEF Placed, Obeyed, Idle, Busy
  <2>5. pc'[a] \in {"gone", "stopPolling"} /\ \A b \in All \ {a} : pc'[b] = pc[b]
    BY <2>1 DEF Typed, PlacesTyped
  <2>6. a # Main
    BY <2>1 DEF Typed, PlacesTyped, PlacesOf, Calls, Waiting
  <2>7. mainThread.attached /\ mainThread'.attached = mainThread.attached
        /\ mainThread' \in [attached : BOOLEAN, completed : BOOLEAN]
    BY <2>1 DEF Closing, Attached
  <2>8. Launched'
    BY <2>1, <2>5 DEF Closing, Launched, LaunchOK, Calls
  <2>9. Attached'
    BY <2>1, <2>5, <2>6, <2>7, Names DEF Closing, Attached
  <2>10. \A t \in Threads : ~Works(pc'[t], call'[t].back)
    BY <2>1, <2>3, <2>5, Names DEF Works, Calls, Waiting
  <2>11. Workers' = Workers /\ Threads' = Threads /\ \A w : Commands(w)' <=> Commands(w)
    BY <2>1, SameSettings DEF Threads, Needed, Commands
  <2> QED
    BY <1>1, <2>1, <2>4, <2>7, <2>8, <2>9, <2>10, <2>11 DEF Closing, Ended
<1>2. CASE ~((\A w \in Workers : Idle(w)) /\ threadQueue = <<>>)
  BY <1>2, ClosingTest DEF isThreadPoolFinished, Goto
<1> QED
  BY <1>1, <1>2

\* A step that changes nothing keeps it.
LEMMA ClosingStutters ==
  ASSUME Closing, vars' = vars
  PROVE  Closing'
<1>1. UNCHANGED <<settings, workers, threadQueue, pc, call, mainThread, finished>>
  BY DEF vars, queue, life
<1>2. Workers' = Workers /\ Threads' = Threads /\ \A w : Commands(w)' <=> Commands(w)
  BY <1>1, SameSettings DEF Threads, Needed, Commands
<1> QED
  BY <1>1, <1>2, Names DEF Closing, Launched, Attached, Ended

\* At first nothing has ended.
LEMMA ClosingInit == Init => Closing
<1> SUFFICES ASSUME Init PROVE Closing
  OBVIOUS
<1>1. /\ \A a \in All : pc[a] \in {"init", "poll", "gone", "asleep"}
      /\ pc[Main] = "init" /\ ~finished /\ mainThread = [attached |-> FALSE, completed |-> FALSE]
  BY Names DEF Init
<1> QED
  BY <1>1 DEF Closing, Launched, LaunchOK, Attached, Ends, Ended, Calls

\* Without edatRestart no step takes up again what has ended.
LEMMA ClosingNext ==
  ASSUME \A s \in Settings : s.restarts = 0, InPlace, NoError', Watched, Closing, [Next]_vars
  PROVE  Closing'
<1> USE DEF InPlace, InTurn
<1>1. restarts = 0 /\ settings.restarts = 0
  BY DEF Typed, OthersTyped
<1>2. ASSUME NEW a \in All, Steps(a) PROVE Closing'
  <2>1. pc'[a] # "error"
    BY DEF NoError
  <2> QED
    BY <1>2, <2>1, ClosingCommands, ClosingMarks, ClosingWaits, ClosingTest, ClosingFinished DEF Steps
<1>3. ASSUME NEW a \in All, UserCode(a) \/ pollDelivers(a) \/ checkForLocalTermination(a) PROVE Closing'
  <2>1. CASE UserCode(a)
    <3>1. pc[a] = "task" /\ Caller(a)
      BY <2>1 DEF UserCode, At, Caller
    <3> QED
      BY <2>1, <3>1, ClosingCaller, ClosingAttach DEF UserCode
  <2>2. CASE pollDelivers(a)
    <3>1. pc[a] = "poll" /\ Caller(a)
      BY <2>2 DEF pollDelivers, At, Caller
    <3> QED
      BY <2>2, <3>1, ClosingCaller DEF pollDelivers
  <2>3. CASE checkForLocalTermination(a)
    BY <2>3, ClosingTest
  <2> QED
    BY <1>3, <2>1, <2>2, <2>3
<1>4. ASSUME NEW t \in Threads, Entry(t) PROVE Closing'
  BY <1>4, ClosingEntry
<1>5. ASSUME MainSteps PROVE Closing'
  <2>1. ~resetPolling
    BY <1>1 DEF resetPolling, At, Shape, Lasting
  <2> QED
    BY <1>5, <2>1, ClosingMain
<1>6. ~edatRestart
  BY <1>1 DEF edatRestart
<1>7. ASSUME vars' = vars PROVE Closing'
  BY <1>7, ClosingStutters
<1> QED
  BY <1>2, <1>3, <1>4, <1>5, <1>6, <1>7 DEF Next, Stopped

\* docs/concepts.md:15: in a calm behaviour in which the main thread is not
\* started again, polling ends only when every task has been executed, and no
\* thread is in user code or in edatWait.
THEOREM CalmFinishedMeansDone ==
  ASSUME \A s \in Settings : s.restarts = 0
  PROVE  CalmSpec => []FinishedMeansDone
<1>1. RestartsBeside
  BY DEF RestartsBeside
<1>2. InPlace /\ InTurn /\ Watched /\ Closing /\ InTurn' /\ [Next]_vars => Closing'
  <2>1. InTurn' => NoError'
    BY TypedNoError, PTL DEF InTurn
  <2> QED
    BY <2>1, ClosingNext
<1>3. CalmSpec => [](InPlace /\ Closing)
  BY <1>1, <1>2, ClosingInit, AlwaysInPlace, AlwaysWatched, PTL DEF CalmSpec, Spec
<1>4. InPlace /\ Closing => FinishedMeansDone
  <2> SUFFICES ASSUME InPlace, Closing, finished
               PROVE  /\ \A k \in 1 .. handed : begun[k] > 0
                      /\ \A a \in All : task[a] = NoTask /\ pc[a] \notin {"task", "paused"}
    BY DEF FinishedMeansDone
  <2> USE DEF InPlace, InTurn
  <2>1. \A a \in All : pc[a] \notin Waiting \union {"task", "init"} /\ (InCall(a) => pc[a] \in Launch)
    BY EndedCalls
  <2>2. ASSUME NEW k \in 1 .. handed PROVE begun[k] > 0
    <3>1. ~Queued(k)
      BY DEF Queued, InSeq, Closing, Ended
    <3>2. \A a \in All : ~Handing(a, k)
      BY <2>1 DEF Handing, InCall, Calls, Launch
    <3>3. \A w \in Workers : ~Ordered(w, k)
      BY DEF Ordered, Commanded, Commands, Closing, Ended
    <3> QED
      BY <3>1, <3>2, <3>3 DEF Placed, Begun, Held
  <2>3. ASSUME NEW a \in All PROVE task[a] = NoTask
    <3>1. a \in Threads => ~Works(pc[a], call[a].back)
      BY DEF Closing, Ended
    <3> QED
      BY <3>1 DEF Placed, Tasks, Working, Works, InCall
  <2> QED
    BY <2>1, <2>2, <2>3 DEF Waiting
<1> QED
  BY <1>3, <1>4, PTL

-----------------------------------------------------------------------------
(* Without waits                                                           *)

Marking == {"mark", "markWaiting", "markBusy", "markPoller"}

\* If edatWait never waits, no thread waits and none ends the wait of another.
Waitless ==
  /\ Launched /\ due = {} /\ ~restartAnotherPoller
  /\ \A w \in Workers : ~HasPaused(w)
  /\ \A a \in All : pc[a] \notin Waiting \union Marking

PausedSame == \A w \in Workers : workers'[w].pausedThreads = workers[w].pausedThreads

\* What a thread must not do.
LEMMA WaitlessMoves ==
  ASSUME Typed, Waitless, NEW a \in All, NEW l, pc' = [pc EXCEPT ![a] = l],
         \A b \in All \ {a} : call'[b] = call[b], UNCHANGED <<settings, due>>,
         restartAnotherPoller' => restartAnotherPoller, PausedSame,
         l \notin Waiting \union Marking, LaunchOK(l, call'[a].back)
  PROVE  Waitless'
<1>1. pc'[a] = l /\ \A b \in All \ {a} : pc'[b] = pc[b]
  BY DEF Typed, PlacesTyped
<1>2. Workers' = Workers
  BY SameSettings
<1>3. Launched'
  BY <1>1 DEF Waitless, Launched
<1>4. \A w \in Workers : ~HasPaused(w)'
  BY DEF Waitless, HasPaused, PausedSame
<1>5. \A b \in All : pc'[b] \notin Waiting \union Marking
  BY <1>1 DEF Waitless
<1> QED
  BY <1>2, <1>3, <1>4, <1>5 DEF Waitless

\* A thread in the pool, ...
LEMMA WaitlessSteps ==
  ASSUME Typed, Waitless, NEW a \in All, Steps(a)
  PROVE  Waitless'
<1>1. pc[a] \notin Waiting \union Marking
  BY DEF Waitless
<1>2. CASE startThread(a) \/ setCallFunction(a) \/ setData(a) \/ resumeActive(a)
             \/ launchThreadToPollForProgressIfPossible(a) \/ awaitPoller(a) \/ clearCallFunction(a)
  <2>1. /\ UNCHANGED <<settings, due>> /\ (restartAnotherPoller' <=> restartAnotherPoller)
        /\ pc[a] \in {"start", "setCallFunction", "setData"} \union Launch
        /\ \E l \in {"setCallFunction", "setData"} \union Launch \union {call[a].back} :
             pc' = [pc EXCEPT ![a] = l] /\ (pc[a] \in Launch => l \in Launch \union {call[a].back})
        /\ call' = call \/ \E w : call' = [call EXCEPT ![a].worker = w]
    BY <1>2 DEF startThread, setCallFunction, setData, resumeActive, launchThreadToPollForProgressIfPossible, awaitPoller,
           clearCallFunction, Write, At, Goto, Return, history, pollers, Launch
  <2>2. call'[a].back = call[a].back /\ \A b \in All \ {a} : call'[b] = call[b]
    BY <2>1 DEF Typed, CallsTyped
  <2>3. pc[a] \in Calls
    BY <2>1 DEF Calls, Launch
  <2>4. call[a].back \in BacksOf(a)
    BY <2>3 DEF Typed, CallsTyped, CallTyped
  <2>5. LaunchOK(pc[a], call[a].back)
    BY DEF Waitless, Launched
  <2>6. ASSUME NEW l \in {"setCallFunction", "setData"} \union Launch \union {call[a].back},
               pc[a] \in Launch => l \in Launch \union {call[a].back}
        PROVE  LaunchOK(l, call'[a].back) /\ l \notin Waiting \union Marking
    <3>1. \A back \in {"asleep", "sleep"} : back \notin Calls
      BY DEF Calls
    <3>2. LaunchOK(l, call'[a].back)
      BY <2>2, <2>3, <2>5, <2>6, <3>1 DEF LaunchOK
    <3>3. l \notin Waiting \union Marking
      BY <2>4, <2>6 DEF BacksOf, Waiting, Marking, Launch
    <3> QED
      BY <3>2, <3>3
  <2>7. PausedSame
    <3>1. CASE workers' = workers
      BY <3>1 DEF PausedSame
    <3>2. CASE startThread(a) /\ workers' # workers
      <4>1. \E w \in Workers : workers' = [workers EXCEPT ![w].threadBusy = TRUE]
        BY <3>2, IdleFound DEF startThread
      <4> QED
        BY <4>1, ListsStay DEF ListsSame, PausedSame
    <3>3. CASE setCallFunction(a) \/ setData(a) \/ awaitPoller(a) \/ clearCallFunction(a)
      <4>1. call[a].worker \in Workers
        BY <3>3 DEF setCallFunction, setData, awaitPoller, clearCallFunction, Write, At, Typed, CallsTyped, CallTyped,
                    Writing
      <4>2. \/ workers' = [workers EXCEPT ![call[a].worker].threadBusy = TRUE]
            \/ \E b \in BOOLEAN :
                 workers' = [workers EXCEPT ![call[a].worker] = [workers[call[a].worker] EXCEPT !.callFunction = b]]
            \/ \E k : workers' = [workers EXCEPT ![call[a].worker] = [workers[call[a].worker] EXCEPT !.data = k]]
        BY <3>3 DEF setCallFunction, setData, awaitPoller, clearCallFunction, Write, Of
      <4> QED
        BY <4>1, <4>2, ListsStay DEF ListsSame, PausedSame
    <3> QED
      BY <1>2, <3>1, <3>2, <3>3 DEF resumeActive, launchThreadToPollForProgressIfPossible
  <2> QED
    BY <2>1, <2>2, <2>6, <2>7, WaitlessMoves
<1>3. CASE lockMutexForFinalisationTest(a) \/ isThreadPoolFinished(a)
  <2>1. /\ UNCHANGED <<settings, due>> /\ (restartAnotherPoller' <=> restartAnotherPoller)
        /\ workers' = workers /\ call' = call
        /\ \E l \in Polls \union {"gone"} : pc' = [pc EXCEPT ![a] = l]
    BY <1>3 DEF lockMutexForFinalisationTest, isThreadPoolFinished, Goto, Polled, Polls, history, pollers
  <2>2. \A l \in Polls \union {"gone"} : \A back : LaunchOK(l, back) /\ l \notin Waiting \union Marking
    BY DEF LaunchOK, Polls, Calls, Waiting, Marking
  <2> QED
    BY <2>1, <2>2, WaitlessMoves DEF PausedSame
<1> QED
  BY <1>1, <1>2, <1>3 DEF Steps, pauseThread, pauseActive, pauseMap, waitReturns, markThreadResume, markWaiting, markBusy,
     markPoller, At, Waiting, Marking

\* ... one that calls it, or polls, ...
LEMMA WaitlessCaller ==
  ASSUME MaxWaits = 0, Typed, Waitless, NEW a \in All,
         UserCode(a) \/ pollDelivers(a) \/ checkForLocalTermination(a)
  PROVE  Waitless'
<1>1. ~edatWait(a)
  BY DEF edatWait, Typed, OthersTyped
<1>2. \A back : ~fire(a, back)
  BY DEF fire, Waitless
<1>3. CASE \E back \in {"task", "poll", "polled"} : submit(a, back)
  <2>1. PICK back \in {"task", "poll", "polled"} : submit(a, back)
    BY <1>3
  <2>2. /\ UNCHANGED <<settings, due>> /\ (restartAnotherPoller' <=> restartAnotherPoller) /\ workers' = workers
        /\ pc' = [pc EXCEPT ![a] = "start"]
        /\ call' = [call EXCEPT ![a] = [arg |-> handed + 1, worker |-> NoWorker, back |-> back]]
    BY <2>1 DEF submit, Call, Goto, pollers
  <2>3. call'[a].back = back /\ \A b \in All \ {a} : call'[b] = call[b]
    BY <2>2 DEF Typed, CallsTyped
  <2>4. LaunchOK("start", back) /\ "start" \notin Waiting \union Marking
    BY DEF LaunchOK, Waiting, Marking
  <2> QED
    BY <2>2, <2>3, <2>4, WaitlessMoves DEF PausedSame
<1>4. CASE (attachMainThread /\ a = Main) \/ taskEnds(a) \/ checkForLocalTermination(a)
  <2>1. /\ UNCHANGED <<settings, due>> /\ (restartAnotherPoller' <=> restartAnotherPoller)
        /\ workers' = workers /\ call' = call
        /\ \E l \in {"notify", "loop", "lockPool"} : pc' = [pc EXCEPT ![a] = l]
    BY <1>4 DEF attachMainThread, taskEnds, checkForLocalTermination, Goto, history, pollers
  <2>2. \A l \in {"notify", "loop", "lockPool"} : \A back : LaunchOK(l, back) /\ l \notin Waiting \union Marking
    BY DEF LaunchOK, Calls, Waiting, Marking
  <2> QED
    BY <2>1, <2>2, WaitlessMoves DEF PausedSame
<1> QED
  BY <1>1, <1>2, <1>3, <1>4 DEF UserCode, pollDelivers, Polled

\* ... one of a worker, ...
LEMMA WaitlessEntry ==
  ASSUME Typed, Waitless, NEW t \in Threads, Entry(t)
  PROVE  Waitless'
<1>1. t \in All /\ UNCHANGED <<settings, due>>
  BY Names DEF Entry, wake, issueFunctionCall, takeFromQueue, lookForWaiting, handOver, resumeWaiting, reactivated,
     goIdle, startPolling, pollReturns, checkBusy, stopPolling, history
<1>2. restartAnotherPoller' => restartAnotherPoller
  BY DEF Entry, wake, issueFunctionCall, takeFromQueue, lookForWaiting, handOver, resumeWaiting, reactivated,
     goIdle, startPolling, pollReturns, checkBusy, stopPolling, pollers
<1>3. PausedSame
  <2>1. CASE issueFunctionCall(t) \/ handOver(t) \/ goIdle(t)
    <3>1. Worker(t) \in Workers
      BY <2>1, AwakeThread DEF issueFunctionCall, handOver, goIdle, At
    <3>2. \/ workers' = workers
          \/ workers' = [workers EXCEPT ![Worker(t)].callFunction = FALSE]
          \/ workers' = [workers EXCEPT ![Worker(t)].threadBusy = FALSE]
          \/ workers' = [workers EXCEPT ![Worker(t)].activeThread = Head(workers[Worker(t)].waitingThreads),
                                        ![Worker(t)].waitingThreads = Tail(@),
                                        ![Worker(t)].idleThreads = Append(@, t)]
      BY <2>1 DEF issueFunctionCall, handOver, goIdle
    <3>3. \A w \in Workers : workers[w] \in WorkerType(Known)
      BY DEF Typed, WorkersTyped
    <3>4. \A w \in Workers : w = Worker(t) \/ workers'[w] = workers[w]
      BY <3>1, <3>2 DEF Typed, WorkersTyped
    <3>5. workers'[Worker(t)].pausedThreads = workers[Worker(t)].pausedThreads
      BY <3>1, <3>2, <3>3 DEF Typed, WorkersTyped, WorkerType
    <3> QED
      BY <3>4, <3>5 DEF PausedSame
  <2>2. CASE workers' = workers
    BY <2>2 DEF PausedSame
  <2> QED
    BY <2>1, <2>2 DEF Entry, wake, takeFromQueue, lookForWaiting, resumeWaiting, reactivated, startPolling,
       pollReturns, checkBusy, stopPolling
<1>4. \A b \in All \ {t} : call'[b] = call[b]
  BY DEF Entry, wake, issueFunctionCall, takeFromQueue, lookForWaiting, handOver, resumeWaiting, reactivated,
     goIdle, startPolling, pollReturns, checkBusy, stopPolling, Call, Typed, CallsTyped
<1>5. PICK l : EntryMoves(t, l)
  BY EntryPlaces
<1>6. LaunchOK(l, call'[t].back) /\ l \notin Waiting \union Marking
  <2>1. l = "launch" => call'[t].back = "asleep"
    BY <1>1, <1>5 DEF EntryMoves, Typed, CallsTyped
  <2> QED
    BY <1>5, <2>1 DEF EntryMoves, LaunchOK, Calls, Launch, Polls, Waiting, Marking
<1> QED
  BY <1>1, <1>2, <1>3, <1>4, <1>5, <1>6, WaitlessMoves DEF EntryMoves

\* ... and the main thread.
LEMMA WaitlessMain ==
  ASSUME Typed, Waitless, MainSteps
  PROVE  Waitless'
<1>1. Main \in All /\ settings \in Settings
  BY Names DEF Typed, OthersTyped
<1>2. UNCHANGED <<settings, due>> /\ (restartAnotherPoller' <=> restartAnotherPoller)
  BY DEF MainSteps, setMessaging, notifyMainThreadIsSleeping, mainThreadWoken, resetPolling, history, pollers
<1>3. PausedSame
  <2>1. 0 \in Workers
    BY <1>1, WorkerNumbers
  <2>2. \/ workers' = workers
        \/ workers' = [workers EXCEPT ![0].threadBusy = FALSE, ![0].activeThread = NextThread]
        \/ workers' = [workers EXCEPT ![0].activeThread = Main, ![0].threadBusy = TRUE]
    BY DEF MainSteps, setMessaging, notifyMainThreadIsSleeping, mainThreadWoken, resetPolling, LeftToThread
  <2>3. \A w \in Workers : w = 0 \/ workers'[w] = workers[w]
    BY <2>1, <2>2 DEF Typed, WorkersTyped
  <2>4. workers'[0].pausedThreads = workers[0].pausedThreads
    BY <2>1, <2>2 DEF Typed, WorkersTyped, WorkerType
  <2> QED
    BY <2>3, <2>4 DEF PausedSame
<1>4. \E l \in {"launch", "task", "sleep", "finalised"} : pc' = [pc EXCEPT ![Main] = l]
  BY DEF MainSteps, setMessaging, notifyMainThreadIsSleeping, mainThreadWoken, resetPolling, Goto, Call
<1>5. \A b \in All \ {Main} : call'[b] = call[b]
  BY DEF MainSteps, setMessaging, notifyMainThreadIsSleeping, mainThreadWoken, resetPolling, Call, Typed, CallsTyped
<1>6. \A l \in {"launch", "task", "sleep", "finalised"} : \A back : LaunchOK(l, back) /\ l \notin Waiting \union Marking
  BY DEF LaunchOK, Calls, Launch, Waiting, Marking
<1> QED
  BY <1>1, <1>2, <1>3, <1>4, <1>5, <1>6, WaitlessMoves

\* edatRestart and a step that changes nothing.
LEMMA WaitlessStutters ==
  ASSUME Typed, Waitless, edatRestart \/ vars' = vars
  PROVE  Waitless'
<1>1. /\ UNCHANGED <<settings, workers, call, due>> /\ (restartAnotherPoller' <=> restartAnotherPoller)
      /\ pc' = pc \/ \E l \in {"poll", "gone"} : pc' = [pc EXCEPT ![Main] = "reset", ![Progress] = l]
  BY DEF edatRestart, vars, history, pollers
<1>2. \A a \in All : pc'[a] = pc[a] \/ pc'[a] \in {"reset", "poll", "gone"}
  BY <1>1 DEF Typed, PlacesTyped
<1>3. Launched'
  BY <1>1, <1>2 DEF Waitless, Launched, LaunchOK, Calls
<1>4. Workers' = Workers /\ \A w : HasPaused(w)' <=> HasPaused(w)
  BY <1>1, SameSettings DEF HasPaused
<1> QED
  BY <1>1, <1>2, <1>3, <1>4 DEF Waitless, Waiting, Marking

\* Then the thread of an idle worker sleeps, is about to, polls, or looks for
\* another worker to poll.
LEMMA WaitlessSettled ==
  ASSUME Typed, Shape, Watched, Waitless, NEW w \in Workers, ~Busy(w)
  PROVE  Settled(w)
<1>1. PICK t \in All : t = Active(w)
  BY BelongsFacts
<1>2. ~MarksBusy(w)
  BY DEF MarksBusy, Waitless, Marking
<1>3. Role(t) = "rest" /\ ~Completed(t)
  BY <1>1, <1>2 DEF Watched, Watch, Unsettled, Quiet, Waitless
<1>4. t # Main /\ t \in Threads
  <2>1. t = Main => pc[t] \in Calls \union Waiting \union {"init", "task", "notify", "sleep", "finalised", "reset"}
                    /\ (pc[t] \in Calls => call[t].back \in {"task", "sleep"})
    BY DEF Typed, PlacesTyped, PlacesOf, CallsTyped, CallTyped, BacksOf
  <2>2. t # Main
    BY <1>3, <2>1 DEF Role, RoleOf, Calls, Waiting, Polls
  <2>3. t # Progress
    BY <1>1, BelongsFacts DEF Shape, Turns
  <2> QED
    BY <2>2, <2>3, Names
<1>5. pc[t] \in Calls => call[t].back \in {"task", "polled", "asleep"}
  BY <1>4, Names DEF Typed, CallsTyped, CallTyped, BacksOf
<1>6. \/ pc[t] \in {"asleep", "idle"} \union Polls
      \/ pc[t] \in Calls /\ call[t].back \in {"polled", "asleep"}
  BY <1>3, <1>5 DEF Role, RoleOf
<1>7. Polling(t) => owner[progress] = t
  <2>1. Polling(t) => Holds(t, progress)
    BY <1>4 DEF Holds
  <2> QED
    BY <2>1 DEF Typed, Owners, Mutexes
<1>8. pc[t] \in Calls /\ call[t].back = "asleep" => Launches(t)
  BY DEF Waitless, Launched, LaunchOK, Launch, Launches
<1> QED
  BY <1>1, <1>3, <1>6, <1>7, <1>8 DEF Settled, Active, Completed, Polling, InCall

\* So every step is calm.
LEMMA WaitlessCalm ==
  ASSUME Typed, Shape, Watched, Waitless
  PROVE  Calm
BY WaitlessSettled DEF Calm, Busy

\* No step starts to wait.
LEMMA WaitlessNext ==
  ASSUME MaxWaits = 0, Typed, Waitless, [Next]_vars
  PROVE  Waitless'
<1>1. ASSUME NEW a \in All, Steps(a) PROVE Waitless'
  BY <1>1, WaitlessSteps
<1>2. ASSUME NEW a \in All, UserCode(a) \/ pollDelivers(a) \/ checkForLocalTermination(a) PROVE Waitless'
  BY <1>2, WaitlessCaller
<1>3. ASSUME NEW t \in Threads, Entry(t) PROVE Waitless'
  BY <1>3, WaitlessEntry
<1> QED
  BY <1>1, <1>2, <1>3, WaitlessMain, WaitlessStutters DEF Next, Stopped

\* At first nobody waits.
LEMMA WaitlessInit == Init => Waitless
<1> SUFFICES ASSUME Init PROVE Waitless
  OBVIOUS
<1>1. Launched /\ due = {} /\ ~restartAnotherPoller
  BY ClosingInit DEF Closing, Init
<1>2. \A a \in All : pc[a] \notin Waiting \union Marking
  BY DEF Init, Waiting, Marking
<1>3. \A w \in Workers : ~HasPaused(w)
  BY DEF Init, HasPaused, newWorkerThread
<1> QED
  BY <1>1, <1>2, <1>3 DEF Waitless

\* A pool whose tasks never wait is calm: a worker is given to a new or a
\* spare thread only by a wait, so that no worker counts as idle whose thread
\* has yet to look for work.  What is proved of calm behaviours then holds of
\* all behaviours.
THEOREM WaitlessIsCalm ==
  ASSUME MaxWaits = 0, RestartsBeside
  PROVE  Spec => CalmSpec /\ []Waitless
<1> DEFINE Inv == InTurn /\ Watched /\ Waitless
<1>1. Init => Inv
  BY TypedInit, TInvInit, ShapeInit, TypedNoError, WatchedInit, WaitlessInit DEF InTurn, TInv, Stuck
<1>2. Inv /\ [Next]_vars => Inv' /\ Calm
  <2> SUFFICES ASSUME Inv, [Next]_vars PROVE Inv' /\ Calm
    OBVIOUS
  <2>1. Calm
    BY WaitlessCalm DEF InTurn
  <2>2. InTurn'
    BY <2>1, InTurnNext
  <2>3. NoError'
    <3>1. InTurn => NoError
      BY TypedNoError DEF InTurn
    <3> QED
      BY <2>2, <3>1, TypedNoError, PTL DEF InTurn
  <2>4. Watched'
    BY <2>3, WatchedNext
  <2>5. Waitless'
    BY WaitlessNext DEF InTurn
  <2> QED
    BY <2>1, <2>2, <2>4, <2>5
<1> QED
  BY <1>1, <1>2, PTL DEF CalmSpec, Spec

\* docs/concepts.md:15: no task is executed twice if none waits, in every
\* behaviour of the pool, restarts beside the main thread's worker included.
\* With waits a command may be read before its data is written (PoolLost).
THEOREM WaitlessRunsOnce ==
  ASSUME MaxWaits = 0, RestartsBeside
  PROVE  Spec => []RunsOnce
BY WaitlessIsCalm, CalmRunsOnce, PTL

\* docs/concepts.md:15: no task is lost if none waits: startThread, which writes
\* its command without a mutex, and the launch of a poller, which clears it,
\* never have the same worker, and its thread reads the command once it is whole.
THEOREM WaitlessNoTaskLost ==
  ASSUME MaxWaits = 0, RestartsBeside
  PROVE  Spec => []NoTaskLost
BY WaitlessIsCalm, CalmNoTaskLost, PTL

\* docs/concepts.md:15: without waits and restarts each task is executed once,
\* none is lost, and polling ends only when all are done.
THEOREM WaitlessTasksDone ==
  ASSUME MaxWaits = 0, \A s \in Settings : s.restarts = 0
  PROVE  Spec => [](RunsOnce /\ NoTaskLost /\ FinishedMeansDone)
<1>1. RestartsBeside
  BY DEF RestartsBeside
<1> QED
  BY <1>1, WaitlessIsCalm, CalmRunsOnce, CalmNoTaskLost, CalmFinishedMeansDone, PTL

-----------------------------------------------------------------------------
(* Circular waits                                                          *)

\* With a progress thread no worker polls; without one, nothing must have
\* woken a worker before the main thread looks for one that polls, and only
\* one worker that is not the main thread's would be looked for again.
LaunchesEarly ==
  \A s \in Settings : s.restarts = 0 /\ (s.progressThread \/ (~s.report /\ (s.mainIsWorker \/ s.workers > 1)))

Seeking(a) == pc[a] \in {"launch", "awaitPoller"}

\* Only the main thread looks for a worker to poll, and then all of them sleep.
Early ==
  /\ \A a \in All : Seeking(a) => a = Main /\ ~settings.progressThread
  /\ ~settings.progressThread /\ (pc[Main] = "init" \/ Seeking(Main)) =>
       \A t \in Threads : pc[t] = "asleep" /\ ~Completed(t)

\* Nobody else moves meanwhile.
LEMMA EarlyMain ==
  ASSUME Typed, PollersOK, Early, ~settings.progressThread, pc[Main] = "init" \/ Seeking(Main)
  PROVE  /\ \A a \in All \ {Main} : pc[a] \in {"asleep", "gone"}
         /\ \A t \in Threads : ~Entry(t)
<1>1. \A t \in Threads : pc[t] = "asleep" /\ ~Completed(t)
  BY DEF Early
<1>2. pc[Progress] = "gone"
  BY DEF PollersOK
<1>3. \A a \in All \ {Main} : pc[a] \in {"asleep", "gone"}
  BY <1>1, <1>2, Names
<1>4. \A t \in Threads : ~Entry(t)
  BY <1>1 DEF Entry, wake, issueFunctionCall, takeFromQueue, lookForWaiting, handOver, resumeWaiting, reactivated,
     goIdle, startPolling, pollReturns, checkBusy, stopPolling, pauseReturns, At, Completed
<1> QED
  BY <1>3, <1>4

\* What a thread must not do.
LEMMA EarlyMoves ==
  ASSUME Typed, Early, NEW a \in All, NEW l, pc' = [pc EXCEPT ![a] = l], settings' = settings,
         l \notin {"init", "launch"}, l = "awaitPoller" => pc[a] = "launch" /\ packages' = packages,
         ~settings.progressThread /\ (pc[Main] = "init" \/ Seeking(Main)) => a = Main
  PROVE  Early'
<1>1. pc'[a] = l /\ \A b \in All \ {a} : pc'[b] = pc[b]
  BY DEF Typed, PlacesTyped
<1>2. Threads' = Threads /\ Main \in All /\ Main \notin Threads
  BY Names DEF Threads, Needed
<1>3. \A b \in All : Seeking(b)' => Seeking(b)
  BY <1>1 DEF Seeking
<1>4. ASSUME ~settings.progressThread, pc'[Main] = "init" \/ Seeking(Main)', NEW t \in Threads
      PROVE  pc'[t] = "asleep" /\ ~Completed(t)'
  <2>1. pc[Main] = "init" \/ Seeking(Main)
    BY <1>1, <1>2, <1>3, <1>4
  <2>2. a = Main /\ l = "awaitPoller"
    BY <1>1, <1>4, <2>1 DEF Seeking
  <2>3. pc[t] = "asleep" /\ ~Completed(t) /\ t \in All /\ t # a
    BY <1>2, <1>4, <2>1, <2>2, Names DEF Early
  <2> QED
    BY <1>1, <2>2, <2>3 DEF Completed
<1> QED
  BY <1>2, <1>3, <1>4 DEF Early

\* Threads in the pool, and its callers.
LEMMA EarlySteps ==
  ASSUME Typed, PollersOK, Waitless, Early, NEW a \in All,
         Steps(a) \/ UserCode(a) \/ pollDelivers(a) \/ checkForLocalTermination(a)
  PROVE  Early'
<1>1. ~settings.progressThread /\ (pc[Main] = "init" \/ Seeking(Main)) => a = Main
  <2>1. pc[a] \notin {"asleep", "gone"}
    BY DEF Steps, startThread, setCallFunction, setData, resumeActive, launchThreadToPollForProgressIfPossible,
       awaitPoller, clearCallFunction, Write, pauseThread, pauseActive, pauseMap, waitReturns, markThreadResume,
       markWaiting, markBusy, markPoller, lockMutexForFinalisationTest, isThreadPoolFinished, UserCode, pollDelivers,
       checkForLocalTermination, At
  <2> QED
    BY <2>1, EarlyMain
<1>2. pc[a] \notin Waiting \union Marking
  BY DEF Waitless
<1>3. settings' = settings
  BY DEF Steps, startThread, setCallFunction, setData, resumeActive, launchThreadToPollForProgressIfPossible,
     awaitPoller, clearCallFunction, Write, pauseThread, pauseActive, pauseMap, waitReturns, markThreadResume,
     markWaiting, markBusy, markPoller, lockMutexForFinalisationTest, isThreadPoolFinished, UserCode, pollDelivers,
     checkForLocalTermination, submit, fire, edatWait, attachMainThread, taskEnds
<1>4. CASE launchThreadToPollForProgressIfPossible(a)
  <2>1. pc[a] = "launch" /\ packages' = packages
    BY <1>4 DEF launchThreadToPollForProgressIfPossible, At
  <2>2. \E l \in {"awaitPoller", call[a].back} : pc' = [pc EXCEPT ![a] = l]
    BY <1>4 DEF launchThreadToPollForProgressIfPossible, Goto, Return
  <2>3. call[a].back \notin {"init", "launch"}
    BY <2>1 DEF Typed, CallsTyped, CallTyped, Calls, BacksOf
  <2> QED
    BY <1>1, <1>3, <2>1, <2>2, <2>3, EarlyMoves
<1>5. CASE startThread(a) \/ setCallFunction(a) \/ setData(a) \/ resumeActive(a)
             \/ awaitPoller(a) \/ clearCallFunction(a)
  <2>1. pc[a] \in Calls
    BY <1>5 DEF startThread, setCallFunction, setData, resumeActive, awaitPoller, clearCallFunction, Write, At, Calls
  <2>2. \E l \in {"setCallFunction", "setData", "clearCallFunction", "resumeActive", call[a].back} :
          pc' = [pc EXCEPT ![a] = l]
    BY <1>5 DEF startThread, setCallFunction, setData, resumeActive, awaitPoller, clearCallFunction, Write, Goto, Return
  <2>3. call[a].back \notin {"init", "launch", "awaitPoller"}
    BY <2>1 DEF Typed, CallsTyped, CallTyped, Calls, BacksOf
  <2> QED
    BY <1>1, <1>3, <2>2, <2>3, EarlyMoves
<1>6. CASE lockMutexForFinalisationTest(a) \/ isThreadPoolFinished(a) \/ checkForLocalTermination(a)
  <2>1. \E l \in {"lockPool", "test", "gone", "stopPolling", "poll", "polled"} : pc' = [pc EXCEPT ![a] = l]
    BY <1>6 DEF lockMutexForFinalisationTest, isThreadPoolFinished, checkForLocalTermination, Goto, Polled
  <2> QED
    BY <1>1, <1>3, <2>1, EarlyMoves
<1>7. CASE UserCode(a) \/ pollDelivers(a)
  <2>1. \E l \in {"start", "mark", "pause", "loop"} : pc' = [pc EXCEPT ![a] = l] \/ (a = Main /\ attachMainThread)
    BY <1>7 DEF UserCode, pollDelivers, submit, fire, edatWait, taskEnds, Call, Goto
  <2>2. a = Main /\ attachMainThread => pc' = [pc EXCEPT ![a] = "notify"]
    BY DEF attachMainThread, Goto
  <2> QED
    BY <1>1, <1>3, <2>1, <2>2, EarlyMoves
<1> QED
  BY <1>2, <1>4, <1>5, <1>6, <1>7 DEF Steps, pauseThread, pauseActive, pauseMap, waitReturns, markThreadResume,
     markWaiting, markBusy, markPoller, At, Waiting, Marking

\* The threads of the workers.
LEMMA EarlyEntry ==
  ASSUME Typed, PollersOK, Waitless, Early, NEW t \in Threads, Entry(t)
  PROVE  Early'
<1>1. t \in All /\ t # Main /\ settings' = settings
  BY Names DEF Entry, wake, issueFunctionCall, takeFromQueue, lookForWaiting, handOver, resumeWaiting, reactivated,
     goIdle, startPolling, pollReturns, checkBusy, stopPolling
<1>2. ~(~settings.progressThread /\ (pc[Main] = "init" \/ Seeking(Main)))
  BY EarlyMain
<1>3. PICK l : EntryMoves(t, l)
  BY EntryPlaces
<1>4. l # "launch"
  <2>1. pc'[t] = l
    BY <1>1, <1>3 DEF EntryMoves, Typed, PlacesTyped
  <2>2. CASE stopPolling(t)
    <3>1. pc' = [pc EXCEPT ![t] = "asleep"]
      BY <2>2 DEF stopPolling, Waitless, Goto
    <3> QED
      BY <1>1, <2>1, <3>1 DEF Typed, PlacesTyped
  <2>3. CASE ~stopPolling(t)
    <3>1. pc'[t] # "launch"
      BY <1>1, <2>3 DEF Entry, wake, issueFunctionCall, takeFromQueue, lookForWaiting, handOver, resumeWaiting,
         reactivated, goIdle, startPolling, pollReturns, checkBusy, Goto, Begin, Spare, GoesOn, Typed, PlacesTyped
    <3> QED
      BY <2>1, <3>1
  <2> QED
    BY <2>2, <2>3
<1>5. l \notin {"init", "launch", "awaitPoller"}
  BY <1>3, <1>4 DEF EntryMoves, Polls
<1> QED
  BY <1>1, <1>2, <1>3, <1>5, EarlyMoves DEF EntryMoves

\* When the main thread gives its worker up, there is no thread yet.
LEMMA NotifyFirst ==
  ASSUME MaxWaits = 0, Typed, Waitless, pc[Main] = "notify", restarts = 0, settings.workers = 1, settings.mainIsWorker
  PROVE  \A t \in Threads : ~Created(t)
<1>1. Pending = 0
  BY DEF Pending, Waitless, Waiting
<1>2. ~Left /\ waits = 0
  BY DEF Left, InCall, Calls, Typed, OthersTyped
<1>3. Bound = 0
  BY <1>1, <1>2 DEF Bound
<1>4. CreatedTyped
  BY DEF Typed
<1>5. ASSUME NEW t \in Threads, Created(t) PROVE FALSE
  <2>1. t < Bound \/ (t < settings.workers /\ settings.mainIsWorker /\ ~Created(0))
    BY <1>4, <1>5 DEF CreatedTyped
  <2>2. t \in Nat
    BY EnoughThreads
  <2>3. t # 0
    BY <1>3, <1>5, <2>1, <2>2
  <2> QED
    BY <1>3, <2>1, <2>2, <2>3
<1> QED
  BY <1>5

\* The main thread.
LEMMA EarlyMainSteps ==
  ASSUME MaxWaits = 0, LaunchesEarly, Typed, PollersOK, Shape, Waitless, Early, MainSteps
  PROVE  Early'
<1>1. Main \in All /\ settings \in Settings /\ restarts = 0
  BY Names DEF Typed, OthersTyped, LaunchesEarly
<1>2. ~resetPolling
  BY <1>1 DEF resetPolling, At, Shape, Lasting
<1>3. settings' = settings
  BY DEF MainSteps, setMessaging, notifyMainThreadIsSleeping, mainThreadWoken, resetPolling
<1>4. Threads' = Threads /\ Main \notin Threads /\ Threads \subseteq All
  BY <1>3, Names DEF Threads, Needed
<1>5. ASSUME NEW l \in {"task", "sleep", "finalised"}, pc' = [pc EXCEPT ![Main] = l] PROVE Early'
  BY <1>1, <1>3, <1>5, EarlyMoves
<1>6. ASSUME pc' = [pc EXCEPT ![Main] = "launch"], ~settings.progressThread,
             \A t \in Threads : pc[t] = "asleep" /\ ~Completed(t)'
      PROVE  Early'
  <2>1. \A b \in All \ {Main} : pc'[b] = pc[b]
    BY <1>6 DEF Typed, PlacesTyped
  <2>2. \A b \in All : Seeking(b)' => b = Main
    BY <2>1 DEF Early, Seeking
  <2> QED
    BY <1>3, <1>4, <1>6, <2>1, <2>2 DEF Early
<1>7. CASE setMessaging
  <2>1. pc[Main] = "init" /\ packages' = packages
    BY <1>7 DEF setMessaging, At
  <2>2. \/ ~settings.progressThread /\ pc' = [pc EXCEPT ![Main] = "launch"]
        \/ pc' = [pc EXCEPT ![Main] = "task"]
    BY <1>7 DEF setMessaging, Call, Goto, progressPollIdleThread
  <2> QED
    BY <1>5, <1>6, <2>1, <2>2 DEF Early, Completed
<1>8. CASE notifyMainThreadIsSleeping
  <2>1. pc[Main] = "notify"
    BY <1>8 DEF notifyMainThreadIsSleeping, At
  <2>2. CASE LaunchesPoller
    <3>1. settings.workers = 1 /\ ~settings.progressThread /\ pc' = [pc EXCEPT ![Main] = "launch"]
      BY <1>8, <2>2 DEF notifyMainThreadIsSleeping, LaunchesPoller, progressPollIdleThread, number_of_workers, Call, Goto
    <3>2. settings.mainIsWorker
      BY <1>1, <3>1 DEF LaunchesEarly
    <3>3. \A t \in Threads : pc[t] = "asleep" /\ ~Completed(t)
      BY <1>1, <2>1, <3>1, <3>2, NotifyFirst DEF Typed, Fresh, Completed
    <3>4. packages' = [packages EXCEPT ![NextThread] = newPackage(0)]
      BY <1>8, <3>2 DEF notifyMainThreadIsSleeping
    <3>5. \A t \in Threads : ~Completed(t)'
      BY <1>4, <3>3, <3>4 DEF Completed, newPackage, Typed, PackagesTyped
    <3> QED
      BY <1>6, <3>1, <3>3, <3>5
  <2>3. CASE ~LaunchesPoller
    BY <1>5, <1>8, <2>3 DEF notifyMainThreadIsSleeping, Goto
  <2> QED
    BY <2>2, <2>3
<1>9. CASE mainThreadWoken
  BY <1>5, <1>9 DEF mainThreadWoken, Goto
<1> QED
  BY <1>2, <1>7, <1>8, <1>9 DEF MainSteps

\* So it is from the beginning, ...
LEMMA EarlyInit ==
  ASSUME LaunchesEarly, Init
  PROVE  Early
<1>1. settings \in Settings /\ ~(\E a \in All : Seeking(a))
  BY DEF Init, Seeking
<1>2. ASSUME ~settings.progressThread, NEW t \in Threads PROVE pc[t] = "asleep" /\ ~Completed(t)
  <2>1. ~settings.report /\ t \in All /\ t # Main /\ t # Progress
    BY <1>1, <1>2, Names DEF LaunchesEarly
  <2> QED
    BY <2>1 DEF Init, Completed, newPackage
<1> QED
  BY <1>1, <1>2 DEF Early

\* ... and stays.
LEMMA EarlyNext ==
  ASSUME MaxWaits = 0, LaunchesEarly, Typed, PollersOK, Shape, Waitless, Early, [Next]_vars
  PROVE  Early'
<1>1. ~edatRestart
  BY DEF edatRestart, Typed, OthersTyped, LaunchesEarly
<1>2. ASSUME vars' = vars PROVE Early'
  <2>1. UNCHANGED <<settings, pc, packages>> /\ Threads' = Threads
    BY <1>2 DEF vars, Threads, Needed
  <2> QED
    BY <2>1, Names DEF Early, Seeking, Completed
<1>3. ASSUME NEW a \in All, Steps(a) \/ UserCode(a) \/ pollDelivers(a) \/ checkForLocalTermination(a) PROVE Early'
  BY <1>3, EarlySteps
<1>4. ASSUME NEW t \in Threads, Entry(t) PROVE Early'
  BY <1>4, EarlyEntry
<1> QED
  BY <1>1, <1>2, <1>3, <1>4, EarlyMainSteps DEF Next, Stopped

\* The mutex of a worker is only held on behalf of a wait, progressMutex by a
\* thread that polls.
LEMMA WaitlessOwners ==
  ASSUME Typed, PollersOK, Waitless, Early
  PROVE  /\ \A w \in Workers : w \in Mutexes /\ owner[w] = Nobody
         /\ \A a \in All : pc[a] = "awaitPoller" => owner[progress] = Nobody
         /\ \A a \in All : owner[start] = a => pc[a] \in {"awaitPoller", "look", "test"}
<1>1. \A m \in Mutexes : owner[m] \in All \union {Nobody}
  BY DEF Typed, OthersTyped
<1>2. \A a \in All : \A m \in Mutexes : owner[m] = a => Holds(a, m)
  BY DEF Typed, Owners
<1>3. settings \in Settings
  BY DEF Typed, OthersTyped
<1>4. ASSUME NEW w \in Workers PROVE w \in Mutexes /\ owner[w] = Nobody
  <2>1. w \in Mutexes
    BY DEF Mutexes, pausedAndWaiting
  <2>2. \A a \in All : ~Holds(a, w)
    BY <1>3, MutexNames DEF Holds, Waitless, Waiting, Marking
  <2> QED
    BY <1>1, <1>2, <2>1, <2>2
<1>5. ASSUME NEW a \in All, pc[a] = "awaitPoller" PROVE owner[progress] = Nobody
  <2>1. a = Main /\ \A t \in Threads : pc[t] = "asleep"
    BY <1>5 DEF Early, Seeking
  <2>2. \A b \in All : ~Holds(b, progress)
    BY <1>3, <2>1, MutexNames DEF Holds, Polling, InCall, Calls, Polls
  <2> QED
    BY <1>1, <1>2, <2>2 DEF Mutexes
<1>6. ASSUME NEW a \in All, owner[start] = a PROVE pc[a] \in {"awaitPoller", "look", "test"}
  <2>1. Holds(a, start)
    BY <1>2, <1>6 DEF Mutexes
  <2> QED
    BY <1>3, <2>1, MutexNames DEF Holds, Waitless, Waiting
<1> QED
  BY <1>4, <1>5, <1>6

\* Without waits no mutexes are waited for in a circle, whatever the number of
\* workers and tasks: what a thread waits for with thread_start_mutex is free.
THEOREM WaitlessNoCircle ==
  ASSUME MaxWaits = 0, LaunchesEarly
  PROVE  Spec => []NoCircularWait
<1>1. RestartsBeside
  BY SettingsAssumption DEF RestartsBeside, LaunchesEarly
<1>2. CalmSpec /\ []Waitless => []Early
  BY <1>1, EarlyInit, EarlyNext, AlwaysInTurn, PTL DEF CalmSpec, Spec, InTurn
<1>3. Typed /\ PollersOK /\ Waitless /\ Early => NoCircularWait
  <2> SUFFICES ASSUME Typed, PollersOK, Waitless, Early, NEW S \in SUBSET All, S # {}
               PROVE  \E a \in S : Wants(a) = NoMutex \/ owner[Wants(a)] \notin S
    BY DEF NoCircularWait
  <2>1. Nobody \notin S
    BY Names
  <2>2. ASSUME NEW a \in S, pc[a] \in {"awaitPoller", "look", "test"}
        PROVE  Wants(a) = NoMutex \/ owner[Wants(a)] \notin S
    <3>1. CASE pc[a] = "awaitPoller"
      <4>1. Wants(a) = progress
        BY <3>1 DEF Wants, WaitsForStart
      <4> QED
        BY <2>1, <3>1, <4>1, WaitlessOwners
    <3>2. CASE pc[a] = "look"
      <4>1. Worker(a) \in Workers
        <5>1. a \in Threads
          BY <3>2, Names DEF Typed, PlacesTyped, PlacesOf, Calls, Waiting
        <5> QED
          BY <3>2, <5>1, AwakeThread
      <4>2. Wants(a) = Worker(a)
        BY <3>2 DEF Wants, WaitsForStart, pausedAndWaiting
      <4> QED
        BY <2>1, <4>1, <4>2, WaitlessOwners
    <3>3. CASE pc[a] = "test"
      <4>1. \A w \in LooksAt : Free(pausedAndWaiting(w))
        BY WaitlessOwners DEF LooksAt, Free, pausedAndWaiting
      <4> QED
        BY <3>3, <4>1 DEF Wants, WaitsForStart
    <3> QED
      BY <2>2, <3>1, <3>2, <3>3
  <2>3. ASSUME NEW a \in S, pc[a] \notin {"awaitPoller", "look", "test"}
        PROVE  Wants(a) \in {NoMutex, start}
    BY <2>3 DEF Wants, Waitless, Waiting, Marking
  <2>4. PICK a \in S : TRUE
    OBVIOUS
  <2>5. CASE Wants(a) = start /\ owner[start] \in S
    <3>1. pc[owner[start]] \in {"awaitPoller", "look", "test"}
      BY <2>5, WaitlessOwners
    <3> QED
      BY <2>2, <2>5, <3>1
  <2> QED
    BY <2>2, <2>3, <2>4, <2>5
<1> QED
  BY <1>1, <1>2, <1>3, WaitlessIsCalm, AlwaysInTurn, PTL DEF InTurn

=============================================================================
