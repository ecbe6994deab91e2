--------------------------- MODULE ThreadPoolProofs ---------------------------
(***************************************************************************)
(* Proofs about ThreadPool: the types of its variables, and, in behaviours *)
(* that stay calm, whose turn it is among the threads of a worker.         *)
(***************************************************************************)
EXTENDS ThreadPoolProperties, SequenceTheorems, WellFoundedInduction, TLAPS

-----------------------------------------------------------------------------
(* Numbers of threads                                                      *)

Before == {p \in Nat \X Nat : p[1] < p[2]}

\* The order of numbers is well-founded.
LEMMA BeforeWellFounded == IsWellFoundedOn(Before, Nat)
<1>1. Before = OpToRel(<, Nat)
  BY Zenon DEF Before, OpToRel
<1> QED
  BY NatLessThanWellFounded, <1>1, Zenon

\* A nonempty set of numbers has a least one.
LEMMA Least ==
  ASSUME NEW S \in SUBSET Nat, S # {}
  PROVE  \E n \in S : \A m \in S : n <= m
<1>1. PICK n \in S : \A m \in S : <<m, n>> \notin Before
  BY WFMin, BeforeWellFounded, Zenon
<1>2. \A m \in S : ~(m < n)
  BY <1>1 DEF Before
<1> QED
  BY <1>2

Last == CHOOSE n \in {Needed(s) : s \in Settings} : \A s \in Settings : Needed(s) <= n

\* There are enough threads for every configuration.
LEMMA EnoughThreads ==
  /\ Threads \subseteq Nat
  /\ \A s \in Settings : Needed(s) \in Nat /\ 0 .. Needed(s) \subseteq Threads
<1>1. \A s \in Settings : Needed(s) \in Nat /\ s.workers \in Nat \ {0} /\ s.restarts \in Nat
  BY SettingsAssumption, BoundsAssumption DEF Needed
<1>2. PICK s \in Settings : \A u \in Settings : u.workers + u.restarts <= s.workers + s.restarts
  BY NeededAssumption
<1>3. \A u \in Settings : Needed(u) <= Needed(s)
  BY <1>1, <1>2, BoundsAssumption DEF Needed
<1>4. Last \in {Needed(u) : u \in Settings} /\ \A u \in Settings : Needed(u) <= Last
  BY <1>3 DEF Last
<1>5. Last \in Nat /\ Threads = 0 .. Last
  BY <1>1, <1>4 DEF Last, Threads
<1> QED
  BY <1>1, <1>4, <1>5

\* Main and Progress are not threads of the pool, and Nobody is no thread.
LEMMA Names ==
  /\ Main \notin Threads /\ Progress \notin Threads /\ Nobody \notin All
  /\ Main \in All /\ Progress \in All /\ Threads \subseteq All /\ Main # Progress
  /\ \A a \in All : a \in Threads \/ a = Main \/ a = Progress
  BY EnoughThreads DEF Main, Progress, Nobody, All

-----------------------------------------------------------------------------
(* Types                                                                   *)

InCall(a) == pc[a] \in Calls
Writing == {"setCallFunction", "setData", "clearCallFunction", "resumeActive"}

PlacesOf(a) ==
  IF a = Main
    THEN Calls \union Waiting \union {"init", "task", "notify", "sleep", "finalised", "reset"}
  ELSE IF a = Progress
    THEN (Calls \ {"launch", "awaitPoller", "clearCallFunction"}) \union
           {"poll", "lockPool", "test", "gone"}
  ELSE Calls \union Waiting \union Polls \union
         {"asleep", "command", "task", "loop", "look", "handOver", "spare", "idle", "gone"}
BacksOf(a) ==
  IF a = Main THEN {"task", "sleep"}
  ELSE IF a = Progress THEN {"poll"}
  ELSE {"task", "polled", "asleep"}

Created(t) == packages[t].worker # NoWorker
Known == {t \in Threads : Created(t)} \union {Main}

WorkerType(S) ==
  [threadBusy : BOOLEAN, activeThread : S, pausedThreads : SUBSET S, waitingThreads : Seq(S),
   idleThreads : Seq(S \ {Main}), callFunction : BOOLEAN, data : 0 .. MaxTasks]

WorkersTyped == workers \in [Workers -> WorkerType(Known)]

PackagesTyped ==
  packages \in [All -> [worker : Workers \union {NoWorker}, completed : BOOLEAN, abort_thread : BOOLEAN]]

PlacesTyped == pc \in [All -> Labels] /\ \A a \in All : pc[a] \in PlacesOf(a)

\* A thread that is not created does nothing.
Fresh == \A t \in Threads : ~Created(t) => pc[t] = "asleep" /\ ~packages[t].completed

CallTyped(a) ==
  /\ pc[a] \in {"start", "setCallFunction", "setData"} => call[a].arg \in 1 .. handed
  /\ pc[a] \in {"mark", "markWaiting", "markBusy"} => call[a].arg \in Known
  /\ pc[a] \in Writing \union {"awaitPoller", "pauseActive", "pauseMap",
                               "markWaiting", "markBusy", "markPoller"} => call[a].worker \in Workers
  /\ pc[a] \in Waiting => call[a].back = "task"
  /\ pc[a] \in Calls => call[a].back \in BacksOf(a)

CallsTyped ==
  /\ call \in [All -> [arg : All \union (0 .. MaxTasks), worker : Workers \union {NoWorker}, back : Labels]]
  /\ \A a \in All : CallTyped(a)

OthersTyped ==
  /\ settings \in Settings
  /\ next_suggested_idle_thread \in Workers
  /\ threadQueue \in Seq(1 .. MaxTasks)
  /\ pausedTasksToWorkers \in [All -> Workers \union {NoWorker}]
  /\ pausedMainThreadDescriptor \in BOOLEAN
  /\ pollingProgressThread \in Workers \union {NoWorker}
  /\ restartAnotherPoller \in BOOLEAN
  /\ task \in [All -> 0 .. MaxTasks]
  /\ begun \in Seq(Nat) /\ handed <= MaxTasks /\ due \in SUBSET Known /\ waits \in 0 .. MaxWaits
  /\ restarts \in 0 .. settings.restarts
  /\ owner \in [Mutexes -> All \union {Nobody}]

\* Who holds which mutex, by where it is.
Polling(t) == pc[t] \in Polls \/ (InCall(t) /\ call[t].back = "polled")
Holds(a, m) ==
  \/ m = Scheduler /\ pc[a] \in {"pause", "pauseActive", "pauseMap", "lockPool", "test"}
  \/ m = start /\ pc[a] \in {"awaitPoller", "pauseActive", "pauseMap", "look", "test"}
  \/ m = progress /\ a \in Threads /\ Polling(a)
  \/ m = pausedTasks /\ pc[a] \in {"markWaiting", "markBusy", "markPoller"}
  \/ m \in Workers /\ pc[a] \in {"pauseMap", "markBusy", "markPoller"} /\ call[a].worker = m

Owners == \A a \in All, m \in Mutexes : Holds(a, m) <=> owner[m] = a

\* Threads are created in order, one for each worker, one for each wait that
\* has got so far, and one each time the main thread has left its worker.
Pending == IF \E a \in All : pc[a] \in {"pause", "pauseActive"} THEN 1 ELSE 0
Left == pc[Main] \in {"sleep", "finalised"} \/ (InCall(Main) /\ call[Main].back = "sleep")
Bound ==
  settings.workers + waits + restarts - Pending
    - (IF settings.mainIsWorker /\ ~Left THEN 1 ELSE 0)
CreatedTyped ==
  /\ Pending <= waits
  /\ \A t \in Threads : Created(t) =>
       t < Bound \/ (t < settings.workers /\ settings.mainIsWorker /\ ~Created(0))

Typed ==
  /\ OthersTyped /\ WorkersTyped /\ PackagesTyped /\ PlacesTyped /\ Fresh /\ CallsTyped
  /\ Owners /\ CreatedTyped

\* A task more in a queue.
LEMMA AppendIn ==
  ASSUME NEW S, NEW s \in Seq(S), NEW e \in S
  PROVE  Append(s, e) \in Seq(S)
  OBVIOUS

\* The first task of a queue, and the others.
LEMMA HeadTail ==
  ASSUME NEW S, NEW s \in Seq(S), s # <<>>
  PROVE  Head(s) \in S /\ Tail(s) \in Seq(S)
  OBVIOUS

\* The record of a worker, when it changes in what it is said to.
LEMMA WorkerKept ==
  ASSUME NEW S, NEW T, S \subseteq T, NEW r \in WorkerType(S)
  PROVE  /\ r \in WorkerType(T)
         /\ \A b \in BOOLEAN : [r EXCEPT !.threadBusy = b] \in WorkerType(T)
         /\ \A b \in BOOLEAN : [r EXCEPT !.callFunction = b] \in WorkerType(T)
         /\ \A b, c \in BOOLEAN : [r EXCEPT !.threadBusy = b, !.callFunction = c] \in WorkerType(T)
         /\ \A k \in 0 .. MaxTasks : [r EXCEPT !.data = k] \in WorkerType(T)
<1>1. r \in WorkerType(T)
  BY DEF WorkerType
<1>2. ASSUME NEW b \in BOOLEAN
      PROVE  [r EXCEPT !.threadBusy = b] \in WorkerType(T) /\ [r EXCEPT !.callFunction = b] \in WorkerType(T)
  BY <1>1 DEF WorkerType
<1>3. ASSUME NEW b \in BOOLEAN, NEW c \in BOOLEAN
      PROVE  [r EXCEPT !.threadBusy = b, !.callFunction = c] \in WorkerType(T)
  BY <1>1 DEF WorkerType
<1>4. ASSUME NEW k \in 0 .. MaxTasks
      PROVE  [r EXCEPT !.data = k] \in WorkerType(T)
  BY <1>1 DEF WorkerType
<1> QED
  BY <1>1, <1>2, <1>3, <1>4

\* The records of the workers, when that of w becomes r.
LEMMA WorkersKept ==
  ASSUME WorkersTyped, NEW w \in Workers, NEW r \in WorkerType(Known'), workers' = [workers EXCEPT ![w] = r],
         Known \subseteq Known', Workers' = Workers
  PROVE  WorkersTyped'
  BY WorkerKept DEF WorkersTyped

\* Configurations do not change, nor what follows from them.
LEMMA SameSettings ==
  ASSUME settings' = settings
  PROVE  /\ number_of_workers' = number_of_workers /\ Workers' = Workers /\ Mutexes' = Mutexes
         /\ progressPollIdleThread' = progressPollIdleThread
  BY DEF number_of_workers, Workers, Mutexes, pausedAndWaiting, progressPollIdleThread

\* This is stronger than the type invariant.
LEMMA TypedTypeOK == Typed => TypeOK
<1> SUFFICES ASSUME Typed PROVE TypeOK
  OBVIOUS
<1> USE DEF Typed
<1>1. Known \subseteq All /\ Known \ {Main} \subseteq Threads
  BY Names DEF Known
<1>2. workers \in [Workers -> WorkerType(Known)]
  BY DEF WorkersTyped
<1>3. ASSUME NEW r \in WorkerType(Known)
      PROVE  r \in [threadBusy : BOOLEAN, activeThread : All, pausedThreads : SUBSET All,
                   waitingThreads : Seq(All), idleThreads : Seq(Threads), callFunction : BOOLEAN,
                   data : 0 .. MaxTasks]
  BY <1>1 DEF WorkerType
<1> QED
  BY <1>1, <1>2, <1>3 DEF TypeOK, OthersTyped, PackagesTyped, PlacesTyped, CallsTyped

\* raiseError has been called.
Stuck == TypeOK /\ ~NoError

\* A thread raises an error.
LEMMA ErrorTyped ==
  ASSUME Typed, NEW a \in All, pc' = [pc EXCEPT ![a] = "error"],
         UNCHANGED <<settings, workers, queue, paused, pollers, packages, owner, call, task, life, history>>
  PROVE  Stuck'
<1>1. TypeOK
  BY TypedTypeOK
<1>2. Workers' = Workers /\ Mutexes' = Mutexes
  BY SameSettings
<1>3. pc' \in [All -> Labels] /\ pc'[a] = "error"
  BY <1>1 DEF TypeOK, Labels
<1> QED
  BY <1>1, <1>2, <1>3 DEF Stuck, TypeOK, NoError, queue, paused, pollers, life, history

\* The search for an idle worker finds a worker, or none.
LEMMA IdleIndex ==
  ASSUME Typed
  PROVE  get_index_of_idle_thread \in Workers \union {NoWorker}
<1> DEFINE idle == {w \in next_suggested_idle_thread .. number_of_workers - 1 : ~workers[w].threadBusy}
           first == IF progressPollIdleThread THEN idle \ {pollingProgressThread} ELSE idle
<1>1. number_of_workers \in Nat \ {0} /\ next_suggested_idle_thread \in Nat
  BY SettingsAssumption DEF Typed, OthersTyped, Workers, number_of_workers
<1>2. idle \subseteq Nat /\ idle \subseteq Workers /\ first \subseteq idle
  BY <1>1 DEF Workers
<1>3. CASE first # {}
  <2>1. PICK w \in first : \A v \in first : w <= v
    BY <1>2, <1>3, Least
  <2>2. (CHOOSE v \in first : \A u \in first : v <= u) \in first
    BY <2>1, Zenon
  <2> QED
    BY <1>2, <1>3, <2>2, Zenon DEF get_index_of_idle_thread
<1>4. CASE first = {}
  <2>1. pollingProgressThread \in Workers \union {NoWorker}
    BY DEF Typed, OthersTyped
  <2> QED
    BY <1>4, <2>1, Zenon DEF get_index_of_idle_thread
<1> QED
  BY <1>3, <1>4

\* A configuration has a worker.
LEMMA WorkerNumbers ==
  ASSUME settings \in Settings
  PROVE  /\ number_of_workers \in Nat \ {0} /\ Workers = 0 .. number_of_workers - 1
         /\ settings.workers = number_of_workers /\ settings.restarts \in Nat
         /\ settings.mainIsWorker \in BOOLEAN /\ settings.progressThread \in BOOLEAN
         /\ 0 \in Workers /\ NoWorker \notin Workers /\ Workers \subseteq Threads
         /\ Workers \subseteq Mutexes
         /\ {Scheduler, start, progress, pausedTasks} \subseteq Mutexes
         /\ {Scheduler, start, progress, pausedTasks} \cap Workers = {}
<1>1. settings.workers \in Nat \ {0} /\ settings.restarts \in Nat
      /\ settings.mainIsWorker \in BOOLEAN /\ settings.progressThread \in BOOLEAN
  BY SettingsAssumption
<1>2. 0 .. Needed(settings) \subseteq Threads
  BY EnoughThreads
<1>3. Workers \subseteq Threads
  BY <1>1, <1>2, BoundsAssumption DEF Needed, Workers, number_of_workers
<1> QED
  BY <1>1, <1>3 DEF Workers, number_of_workers, NoWorker, Mutexes, pausedAndWaiting, Scheduler, start,
                    progress, pausedTasks

-----------------------------------------------------------------------------
(* Steps of one thread                                                     *)

\* One thread a goes to l.
Moves(a, l) ==
  /\ settings' = settings
  /\ pc' = [pc EXCEPT ![a] = l]
  /\ l \in PlacesOf(a)
  /\ call' \in [All -> [arg : All \union (0 .. MaxTasks), worker : Workers \union {NoWorker}, back : Labels]]
  /\ \A b \in All \ {a} : call'[b] = call[b]

\* The places of a thread.
LEMMA Places ==
  \A a : PlacesOf(a) \subseteq Labels /\ BacksOf(a) \subseteq PlacesOf(a)
<1>1. "polled" \in Polls
  BY DEF Polls
<1>2. ASSUME NEW a, NEW l \in PlacesOf(a) PROVE l \in Labels
  <2>1. CASE a = Main
    BY <1>2, <2>1 DEF PlacesOf, Labels
  <2>2. CASE a # Main /\ a = Progress
    BY <1>2, <2>2 DEF PlacesOf, Labels, Polls
  <2>3. CASE a # Main /\ a # Progress
    BY <1>2, <2>3 DEF PlacesOf, Labels
  <2> QED
    BY <2>1, <2>2, <2>3
<1>3. ASSUME NEW a PROVE BacksOf(a) \subseteq PlacesOf(a)
  <2>1. CASE a = Main
    BY <2>1 DEF PlacesOf, BacksOf
  <2>2. CASE a # Main /\ a = Progress
    BY <2>2 DEF PlacesOf, BacksOf
  <2>3. CASE a # Main /\ a # Progress
    BY <1>1, <2>3 DEF PlacesOf, BacksOf
  <2> QED
    BY <2>1, <2>2, <2>3
<1> QED
  BY <1>2, <1>3

\* Where threads are.
LEMMA MovedPlaces ==
  ASSUME PlacesTyped, NEW a \in All, NEW l, Moves(a, l)
  PROVE  PlacesTyped' /\ pc'[a] = l /\ \A b \in All \ {a} : pc'[b] = pc[b]
<1>1. pc'[a] = l /\ \A b \in All \ {a} : pc'[b] = pc[b]
  BY DEF Moves, PlacesTyped
<1>2. \A b \in All : pc'[b] \in PlacesOf(b)
  BY <1>1 DEF Moves, PlacesTyped
<1>3. l \in Labels
  BY Places DEF Moves
<1>4. pc' \in [All -> Labels]
  BY <1>3 DEF Moves, PlacesTyped
<1> QED
  BY <1>1, <1>2, <1>4 DEF PlacesTyped, PlacesOf

\* Calls of the other threads are what they were.
LEMMA MovedCalls ==
  ASSUME Typed, NEW a \in All, NEW l, Moves(a, l), CallTyped(a)', handed' >= handed, handed \in Nat,
         handed' \in Nat, Known \subseteq Known'
  PROVE  CallsTyped'
<1> USE DEF Typed
<1>1. \A b \in All \ {a} : pc'[b] = pc[b] /\ call'[b] = call[b]
  BY MovedPlaces DEF Moves
<1>2. Workers' = Workers
  BY SameSettings DEF Moves
<1>3. ASSUME NEW b \in All \ {a} PROVE CallTyped(b)'
  BY <1>1, <1>2 DEF CallsTyped, CallTyped, BacksOf
<1> QED
  BY <1>2, <1>3 DEF CallsTyped, Moves

\* The thread that moves holds what it should, the others what they held.
LEMMA MovedOwners ==
  ASSUME Typed, NEW a \in All, NEW l, Moves(a, l),
         \A m \in Mutexes : Holds(a, m)' <=> owner'[m] = a,
         \A m \in Mutexes : \A b \in All \ {a} : owner'[m] = b <=> owner[m] = b
  PROVE  Owners'
<1> USE DEF Typed
<1>1. \A b \in All \ {a} : pc'[b] = pc[b] /\ call'[b] = call[b]
  BY MovedPlaces DEF Moves
<1>2. Workers' = Workers /\ Mutexes' = Mutexes
  BY SameSettings DEF Moves
<1>3. \A b \in All \ {a}, m \in Mutexes : Holds(b, m)' <=> Holds(b, m)
  BY <1>1, <1>2 DEF Holds, Polling, InCall
<1> QED
  BY <1>2, <1>3 DEF Owners

\* No thread is created, and the bound does not fall.
LEMMA MovedCreated ==
  ASSUME Typed, NEW a \in All, NEW l, Moves(a, l),
         UNCHANGED <<waits, restarts>>, \A t \in Threads : packages'[t].worker = packages[t].worker,
         l \in {"pause", "pauseActive"} => pc[a] \in {"pause", "pauseActive"},
         a = Main => (Left => Left')
  PROVE  CreatedTyped'
<1> USE DEF Typed
<1>1. pc'[a] = l /\ \A b \in All \ {a} : pc'[b] = pc[b] /\ call'[b] = call[b]
  BY MovedPlaces DEF Moves
<1>2. Pending \in {0, 1} /\ Pending' \in {0, 1} /\ Pending' <= Pending
  BY <1>1 DEF Pending
<1>3. Left => Left'
  BY <1>1, Names DEF Left, InCall
<1>4. /\ settings' = settings /\ settings.workers \in Nat /\ waits \in Nat /\ restarts \in Nat
      /\ waits' = waits /\ restarts' = restarts
  BY WorkerNumbers, BoundsAssumption DEF OthersTyped, Moves
<1>5. Bound \in Int /\ Bound' \in Int /\ Bound <= Bound'
  BY <1>2, <1>3, <1>4 DEF Bound
<1>6. \A t \in Threads : Created(t)' <=> Created(t)
  BY DEF Created
<1>7. 0 \in Threads
  BY WorkerNumbers DEF OthersTyped
<1>8. Threads \subseteq Nat
  BY EnoughThreads
<1>9. ASSUME NEW t \in Threads, Created(t)'
      PROVE  t < Bound' \/ (t < settings'.workers /\ settings'.mainIsWorker /\ ~Created(0)')
  BY <1>4, <1>5, <1>6, <1>7, <1>8, <1>9 DEF CreatedTyped
<1>10. Pending' <= waits'
  BY <1>2, <1>4 DEF CreatedTyped
<1> QED
  BY <1>9, <1>10 DEF CreatedTyped

\* The search starts behind the worker that it found, from the first one if there is none.
LEMMA Suggested ==
  ASSUME settings \in Settings, NEW w \in Workers \union {NoWorker}, SuggestAfter(w)
  PROVE  next_suggested_idle_thread' \in Workers
<1>1. number_of_workers \in Nat \ {0} /\ Workers = 0 .. number_of_workers - 1
  BY WorkerNumbers
<1>2. w + 1 \in Nat
  BY <1>1 DEF NoWorker
<1>3. (w + 1) % number_of_workers \in 0 .. number_of_workers - 1
  BY <1>1, <1>2
<1> QED
  BY <1>1, <1>3 DEF SuggestAfter

\* A thread is resumed, or its pause is over, or it is told to end.
Resumes ==
  \/ packages' = packages
  \/ \E p \in Known, b \in BOOLEAN : packages' = [packages EXCEPT ![p].completed = b]
  \/ \E p \in Known : packages' = [packages EXCEPT ![p].abort_thread = TRUE, ![p].completed = TRUE,
                                               ![Main] = newPackage(NoWorker)]

\* This creates no thread.
LEMMA ResumesKnown ==
  ASSUME Typed, settings' = settings, Resumes
  PROVE  /\ PackagesTyped' /\ Known' = Known
         /\ \A t \in Threads : packages'[t].worker = packages[t].worker
         /\ \A t \in All \ Known : packages'[t] = packages[t]
<1> USE DEF Typed
<1>1. Known \subseteq All /\ Main \in Known /\ Threads \subseteq All /\ Main \notin Threads
  BY Names DEF Known
<1>2. CASE packages' = packages \/ \E p \in Known, b \in BOOLEAN : packages' = [packages EXCEPT ![p].completed = b]
  <2>1. PackagesTyped'
    BY <1>1, <1>2, SameSettings DEF PackagesTyped
  <2>2. /\ \A t \in Threads : packages'[t].worker = packages[t].worker
        /\ \A t \in All \ Known : packages'[t] = packages[t]
    BY <1>1, <1>2 DEF PackagesTyped
  <2>3. Known' = Known
    BY <2>2 DEF Known, Created
  <2> QED
    BY <2>1, <2>2, <2>3
<1>3. ASSUME NEW p \in Known,
             packages' = [packages EXCEPT ![p].abort_thread = TRUE, ![p].completed = TRUE,
                                          ![Main] = newPackage(NoWorker)]
      PROVE  /\ PackagesTyped' /\ Known' = Known
             /\ \A t \in Threads : packages'[t].worker = packages[t].worker
             /\ \A t \in All \ Known : packages'[t] = packages[t]
  <2>1. PackagesTyped'
    BY <1>1, <1>3, SameSettings, ZenonT(60) DEF PackagesTyped, newPackage
  <2>2. /\ \A t \in Threads : packages'[t].worker = packages[t].worker
        /\ \A t \in All \ Known : packages'[t] = packages[t]
    BY <1>1, <1>3 DEF PackagesTyped
  <2>3. Known' = Known
    BY <2>2 DEF Known, Created
  <2> QED
    BY <2>1, <2>2, <2>3
<1> QED
  BY <1>2, <1>3 DEF Resumes

\* A step that creates no thread.
Ordinary(a, l) ==
  /\ Moves(a, l)
  /\ Resumes
  /\ UNCHANGED <<waits, restarts>>
  /\ a \in Threads => Created(a)
  /\ l \in {"pause", "pauseActive"} => pc[a] \in {"pause", "pauseActive"}
  /\ a = Main => (Left => Left')

\* What is left to show of such a step.
LEMMA OrdinaryTyped ==
  ASSUME Typed, NEW a \in All, NEW l, Ordinary(a, l), OthersTyped', WorkersTyped', CallTyped(a)',
         handed' = handed \/ handed' = handed + 1,
         \A m \in Mutexes : Holds(a, m)' <=> owner'[m] = a,
         \A m \in Mutexes : \A b \in All \ {a} : owner'[m] = b <=> owner[m] = b
  PROVE  Typed'
<1> USE DEF Typed
<1>1. pc'[a] = l /\ \A b \in All \ {a} : pc'[b] = pc[b]
  BY MovedPlaces DEF Ordinary
<1>2. /\ PackagesTyped' /\ Known' = Known
      /\ \A t \in Threads : packages'[t].worker = packages[t].worker
      /\ \A t \in All \ Known : packages'[t] = packages[t]
  BY ResumesKnown DEF Ordinary, Moves
<1>3. ASSUME NEW t \in Threads, ~Created(t)'
      PROVE  pc'[t] = "asleep" /\ ~packages'[t].completed
  <2>1. ~Created(t) /\ t \in All /\ t # a /\ t \notin Known
    BY <1>2, <1>3, Names DEF Created, Ordinary, Known
  <2> QED
    BY <1>1, <1>2, <2>1 DEF Fresh
<1>4. Fresh'
  BY <1>3 DEF Fresh
<1>5. PlacesTyped'
  BY MovedPlaces DEF Ordinary
<1>6. handed \in Nat /\ handed' \in Nat /\ handed' >= handed
  BY DEF OthersTyped, handed
<1>7. CallsTyped'
  BY <1>2, <1>6, MovedCalls DEF Ordinary
<1>8. Owners'
  BY MovedOwners DEF Ordinary
<1>9. CreatedTyped'
  BY <1>2, Names, MovedCreated DEF Ordinary
<1> QED
  BY <1>2, <1>4, <1>5, <1>7, <1>8, <1>9

\* Mutexes are different.
LEMMA MutexNames ==
  ASSUME settings \in Settings
  PROVE  /\ Scheduler # start /\ Scheduler # progress /\ Scheduler # pausedTasks /\ start # progress
         /\ start # pausedTasks /\ progress # pausedTasks
         /\ Scheduler \notin Workers /\ start \notin Workers /\ progress \notin Workers
         /\ pausedTasks \notin Workers
  BY WorkerNumbers DEF Scheduler, start, progress, pausedTasks

\* In most functions that others call no mutex is held but that of the poller.
Free0 == {"start", "setCallFunction", "setData", "resumeActive", "launch", "clearCallFunction", "mark"}
\* In the first part of a call only progress_polling_mutex is held, by a thread
\* that submits a task while it polls.
LEMMA HeldInCall ==
  ASSUME Typed, NEW a \in All, pc[a] \in Free0
  PROVE  \A m \in Mutexes : owner[m] = a <=> (m = progress /\ a \in Threads /\ call[a].back = "polled")
<1>1. \A m \in Mutexes : owner[m] = a <=> Holds(a, m)
  BY DEF Typed, Owners
<1>2. \A m \in Mutexes : Holds(a, m) <=> (m = progress /\ a \in Threads /\ Polling(a))
  BY DEF Holds, Free0
<1>3. Polling(a) <=> call[a].back = "polled"
  BY DEF Polling, InCall, Free0, Calls, Polls
<1> QED
  BY <1>1, <1>2, <1>3

\* A call returns.
LEMMA ReturnTyped ==
  ASSUME Typed, NEW a \in All, pc[a] \in Calls, Return(a), UNCHANGED <<settings, call, waits, restarts>>,
         Resumes, OthersTyped', WorkersTyped', handed' = handed,
         \A m \in Mutexes : owner'[m] = a <=> (m = progress /\ a \in Threads /\ call[a].back = "polled"),
         \A m \in Mutexes : \A b \in All \ {a} : owner'[m] = b <=> owner[m] = b
  PROVE  Typed'
<1> USE DEF Typed
<1>1. /\ a \in Threads => Created(a)
      /\ call[a].back \in BacksOf(a)
      /\ \A t \in Threads : t # Main /\ t # Progress
  BY Names DEF Fresh, CallsTyped, CallTyped, Calls
<1>2. Moves(a, call[a].back)
  BY <1>1, Places, SameSettings DEF Moves, CallsTyped, Return, Goto
<1>3. pc'[a] = call[a].back /\ call' = call
  BY <1>2, MovedPlaces
<1>4. \A m \in Mutexes : Holds(a, m)' <=> (m = progress /\ a \in Threads /\ call[a].back = "polled")
  <2>1. pc'[a] \in {"task", "sleep", "poll", "polled", "asleep"}
    BY <1>1, <1>3 DEF BacksOf
  <2>2. \A m \in Mutexes : Holds(a, m)' <=> (m = progress /\ a \in Threads /\ Polling(a)')
    BY <2>1 DEF Holds
  <2>3. a \in Threads => (Polling(a)' <=> call[a].back = "polled")
    BY <1>1, <1>3 DEF Polling, InCall, Calls, Polls, BacksOf
  <2> QED
    BY <2>2, <2>3
<1>5. CallTyped(a)'
  BY <1>1, <1>3 DEF CallTyped, BacksOf, Calls, Waiting, Writing
<1>6. a = Main => (Left => Left')
  BY <1>3 DEF Left, InCall, Calls
<1>7. Ordinary(a, call[a].back)
  BY <1>1, <1>2, <1>6 DEF Ordinary, BacksOf
<1>8. \A m \in Mutexes : Holds(a, m)' <=> owner'[m] = a
  BY <1>4
<1> QED
  BY <1>5, <1>7, <1>8, OrdinaryTyped

\* What most steps leave alone keeps its type.
LEMMA OthersKept ==
  ASSUME Typed, UNCHANGED <<settings, queue, paused, pollers, task, life, history>>, Known \subseteq Known',
         owner' \in [Mutexes -> All \union {Nobody}]
  PROVE  OthersTyped' /\ handed' = handed
<1>1. Workers' = Workers /\ Mutexes' = Mutexes
  BY SameSettings
<1>2. handed' = handed
  BY DEF handed, history
<1> QED
  BY <1>1, <1>2 DEF Typed, OthersTyped, queue, paused, pollers, life, history

\* A mutex is taken.
LEMMA Locked ==
  ASSUME OthersTyped, settings' = settings, NEW a \in All, NEW n \in Mutexes, Free(n), Lock(n, a)
  PROVE  /\ owner' \in [Mutexes -> All \union {Nobody}]
         /\ \A m \in Mutexes : owner'[m] = a <=> (m = n \/ owner[m] = a)
         /\ \A m \in Mutexes : \A b \in All \ {a} : owner'[m] = b <=> owner[m] = b
  BY Names DEF OthersTyped, Lock, Free

\* Mutexes are given back.
LEMMA Unlocked ==
  ASSUME OthersTyped, settings' = settings, NEW a \in All, NEW S \in SUBSET Mutexes, Unlock(S),
         \A m \in S : owner[m] = a
  PROVE  /\ owner' \in [Mutexes -> All \union {Nobody}]
         /\ \A m \in Mutexes : owner'[m] = a <=> (m \notin S /\ owner[m] = a)
         /\ \A m \in Mutexes : \A b \in All \ {a} : owner'[m] = b <=> owner[m] = b
  BY Names DEF OthersTyped, Unlock

\* Mutexes stay with their owners.
LEMMA OwnersSame ==
  ASSUME OthersTyped, settings' = settings, owner' = owner
  PROVE  owner' \in [Mutexes -> All \union {Nobody}]
  BY SameSettings DEF OthersTyped

\* startThread keeps the types: it finds an idle worker, or enqueues the task.
LEMMA TypedStart ==
  ASSUME Typed, NEW a \in All, startThread(a)
  PROVE  Typed'
<1> USE DEF Typed
<1>1. get_index_of_idle_thread \in Workers \union {NoWorker}
  BY IdleIndex
<1>2. /\ number_of_workers \in Nat \ {0} /\ Workers = 0 .. number_of_workers - 1
      /\ Workers' = Workers /\ Mutexes' = Mutexes
  BY WorkerNumbers, SameSettings DEF OthersTyped, startThread
<1>3. pc[a] = "start" /\ call[a].arg \in 1 .. handed /\ call[a].back \in BacksOf(a)
  BY DEF startThread, At, CallsTyped, CallTyped, Calls
<1>a. next_suggested_idle_thread' \in Workers'
  BY <1>1, <1>2, Suggested DEF startThread, OthersTyped, Workers
<1>b. threadQueue' \in Seq(1 .. MaxTasks)
  <2>1. call[a].arg \in 1 .. MaxTasks
    BY <1>3, BoundsAssumption DEF OthersTyped, handed
  <2>2. threadQueue \in Seq(1 .. MaxTasks)
    BY DEF OthersTyped
  <2>3. threadQueue' = threadQueue \/ threadQueue' = Append(threadQueue, call[a].arg)
    BY DEF startThread
  <2> QED
    BY <2>1, <2>2, <2>3, AppendIn
<1>4. OthersTyped'
  BY <1>2, <1>a, <1>b DEF startThread, OthersTyped, paused, pollers, life, history, handed, Known, Created
<1>5. WorkersTyped'
  <2>1. Known' = Known
    BY DEF startThread, Known, Created
  <2>2. \/ workers' = workers
        \/ \E w \in Workers : workers' = [workers EXCEPT ![w].threadBusy = TRUE]
    BY <1>1 DEF startThread
  <2>3. CASE workers' = workers
    BY <1>2, <2>1, <2>3 DEF WorkersTyped
  <2>4. ASSUME NEW w \in Workers, workers' = [workers EXCEPT ![w].threadBusy = TRUE]
        PROVE  WorkersTyped'
    BY <1>2, <2>1, <2>4, WorkerKept DEF WorkersTyped
  <2> QED
    BY <2>2, <2>3, <2>4
<1>6. CASE threadQueue = <<>> /\ get_index_of_idle_thread # NoWorker
  <2>1. pc' = [pc EXCEPT ![a] = "setCallFunction"] /\ call' = [call EXCEPT ![a].worker = get_index_of_idle_thread]
    BY <1>6 DEF startThread, Goto
  <2>2. Moves(a, "setCallFunction")
    BY <1>1, <1>2, <2>1, <1>6 DEF startThread, Moves, CallsTyped, PlacesOf, Calls
  <2>3. pc'[a] = "setCallFunction" /\ call'[a].back = call[a].back /\ call'[a].arg = call[a].arg
        /\ call'[a].worker \in Workers
    BY <1>1, <1>6, <2>1, <2>2, MovedPlaces DEF CallsTyped
  <2>4. handed' = handed /\ owner' = owner
    BY DEF startThread, history, handed
  <2>5. CallTyped(a)'
    BY <1>2, <1>3, <2>3, <2>4 DEF CallTyped, BacksOf, Calls, Waiting, Writing
  <2>6. \A m \in Mutexes : Holds(a, m)' <=> Holds(a, m)
    BY <1>2, <1>3, <2>3 DEF Holds, Polling, InCall, Calls, Polls
  <2>7. Ordinary(a, "setCallFunction")
    BY <1>3, <2>2, <2>3 DEF startThread, Ordinary, Left, InCall, Calls, history, life, Fresh, Resumes
  <2> QED
    BY <1>4, <1>5, <2>4, <2>5, <2>6, <2>7, OrdinaryTyped DEF Owners, OthersTyped
<1>7. CASE ~(threadQueue = <<>> /\ get_index_of_idle_thread # NoWorker)
  <2>1. /\ Return(a) /\ handed' = handed /\ Resumes
        /\ UNCHANGED <<settings, call, waits, restarts, owner>>
    BY <1>7 DEF startThread, Resumes, life, history, handed
  <2>2. pc[a] \in Free0 /\ pc[a] \in Calls
    BY <1>3 DEF Free0, Calls
  <2> QED
    BY <1>4, <1>5, <2>1, <2>2, ReturnTyped, HeldInCall
<1> QED
  BY <1>6, <1>7

\* The assignment of callFunction keeps the types.
LEMMA TypedCallFunction ==
  ASSUME Typed, NEW a \in All, setCallFunction(a)
  PROVE  Typed'
<1> USE DEF Typed
<1>1. /\ pc[a] = "setCallFunction" /\ call[a].worker \in Workers /\ call[a].back \in BacksOf(a)
      /\ call[a].arg \in 1 .. handed
  BY DEF setCallFunction, Write, At, CallsTyped, CallTyped, Calls, Writing
<1>2. /\ UNCHANGED <<settings, queue, paused, pollers, packages, owner, call, task, life, history>>
      /\ pc' = [pc EXCEPT ![a] = "setData"]
      /\ workers' = [workers EXCEPT ![call[a].worker] = [workers[call[a].worker] EXCEPT !.callFunction = TRUE]]
  BY DEF setCallFunction, Write, Goto, Of
<1>3. Workers' = Workers /\ Known' = Known /\ Resumes
  BY <1>2, SameSettings DEF Known, Created, Resumes
<1>4. OthersTyped' /\ handed' = handed
  BY <1>2, <1>3, OthersKept, OwnersSame
<1>5. WorkersTyped'
  <2>1. workers[call[a].worker] \in WorkerType(Known)
    BY <1>1 DEF WorkersTyped
  <2>2. [workers[call[a].worker] EXCEPT !.callFunction = TRUE] \in WorkerType(Known)
    BY <2>1, WorkerKept
  <2> QED
    BY <1>1, <1>2, <1>3, <2>2, WorkersKept
<1>6. Moves(a, "setData")
  BY <1>1, <1>2, <1>3 DEF Moves, CallsTyped, PlacesOf, Calls
<1>7. pc'[a] = "setData" /\ call' = call
  BY <1>2, <1>6, MovedPlaces
<1>8. CallTyped(a)'
  BY <1>1, <1>3, <1>4, <1>7 DEF CallTyped, BacksOf, Calls, Waiting, Writing
<1>9. \A m \in Mutexes : Holds(a, m)' <=> Holds(a, m)
  BY <1>1, <1>3, <1>7 DEF Holds, Polling, InCall, Calls, Polls
<1>10. Ordinary(a, "setData")
  BY <1>1, <1>2, <1>3, <1>6, <1>7 DEF Ordinary, Left, InCall, Calls, history, life, Fresh
<1> QED
  BY <1>2, <1>4, <1>5, <1>8, <1>9, <1>10, OrdinaryTyped DEF Owners, OthersTyped

\* The assignment of the task keeps the types.
LEMMA TypedData ==
  ASSUME Typed, NEW a \in All, setData(a)
  PROVE  Typed'
<1> USE DEF Typed
<1>1. /\ pc[a] = "setData" /\ call[a].worker \in Workers /\ call[a].back \in BacksOf(a)
      /\ call[a].arg \in 1 .. handed
  BY DEF setData, Write, At, CallsTyped, CallTyped, Calls, Writing
<1>2. /\ UNCHANGED <<settings, queue, paused, pollers, packages, owner, call, task, life, history>>
      /\ pc' = [pc EXCEPT ![a] = "resumeActive"]
      /\ workers' = [workers EXCEPT ![call[a].worker] = [workers[call[a].worker] EXCEPT !.data = call[a].arg]]
  BY DEF setData, Write, Goto, Of
<1>3. Workers' = Workers /\ Known' = Known /\ Resumes
  BY <1>2, SameSettings DEF Known, Created, Resumes
<1>4. OthersTyped' /\ handed' = handed
  BY <1>2, <1>3, OthersKept, OwnersSame
<1>5. WorkersTyped'
  <2>1. workers[call[a].worker] \in WorkerType(Known)
    BY <1>1 DEF WorkersTyped
  <2>3. call[a].arg \in 0 .. MaxTasks
    BY <1>1, BoundsAssumption DEF OthersTyped, handed
  <2>2. [workers[call[a].worker] EXCEPT !.data = call[a].arg] \in WorkerType(Known)
    BY <2>1, <2>3, WorkerKept
  <2> QED
    BY <1>1, <1>2, <1>3, <2>2, WorkersKept
<1>6. Moves(a, "resumeActive")
  BY <1>1, <1>2, <1>3 DEF Moves, CallsTyped, PlacesOf, Calls
<1>7. pc'[a] = "resumeActive" /\ call' = call
  BY <1>2, <1>6, MovedPlaces
<1>8. CallTyped(a)'
  BY <1>1, <1>3, <1>4, <1>7 DEF CallTyped, BacksOf, Calls, Waiting, Writing
<1>9. \A m \in Mutexes : Holds(a, m)' <=> Holds(a, m)
  BY <1>1, <1>3, <1>7 DEF Holds, Polling, InCall, Calls, Polls
<1>10. Ordinary(a, "resumeActive")
  BY <1>1, <1>2, <1>3, <1>6, <1>7 DEF Ordinary, Left, InCall, Calls, history, life, Fresh
<1> QED
  BY <1>2, <1>4, <1>5, <1>8, <1>9, <1>10, OrdinaryTyped DEF Owners, OthersTyped

\* Clearing callFunction keeps the types.
LEMMA TypedClear ==
  ASSUME Typed, NEW a \in All, clearCallFunction(a)
  PROVE  Typed'
<1> USE DEF Typed
<1>1.    pc[a] = "clearCallFunction" /\ call[a].worker \in Workers /\ call[a].back \in BacksOf(a)
  BY DEF clearCallFunction, Write, At, CallsTyped, CallTyped, Calls, Writing
<1>2. /\ UNCHANGED <<settings, queue, paused, pollers, packages, owner, call, task, life, history>>
      /\ pc' = [pc EXCEPT ![a] = "resumeActive"]
      /\ workers' = [workers EXCEPT ![call[a].worker] = [workers[call[a].worker] EXCEPT !.callFunction = FALSE]]
  BY DEF clearCallFunction, Write, Goto, Of
<1>3. Workers' = Workers /\ Known' = Known /\ Resumes
  BY <1>2, SameSettings DEF Known, Created, Resumes
<1>4. OthersTyped' /\ handed' = handed
  BY <1>2, <1>3, OthersKept, OwnersSame
<1>5. WorkersTyped'
  <2>1. workers[call[a].worker] \in WorkerType(Known)
    BY <1>1 DEF WorkersTyped
  <2>2. [workers[call[a].worker] EXCEPT !.callFunction = FALSE] \in WorkerType(Known)
    BY <2>1, WorkerKept
  <2> QED
    BY <1>1, <1>2, <1>3, <2>2, WorkersKept
<1>6. Moves(a, "resumeActive")
  BY <1>1, <1>2, <1>3 DEF Moves, CallsTyped, PlacesOf, Calls
<1>7. pc'[a] = "resumeActive" /\ call' = call
  BY <1>2, <1>6, MovedPlaces
<1>8. CallTyped(a)'
  BY <1>1, <1>3, <1>4, <1>7 DEF CallTyped, BacksOf, Calls, Waiting, Writing
<1>9. \A m \in Mutexes : Holds(a, m)' <=> Holds(a, m)
  BY <1>1, <1>3, <1>7 DEF Holds, Polling, InCall, Calls, Polls
<1>10. Ordinary(a, "resumeActive")
  BY <1>1, <1>2, <1>3, <1>6, <1>7 DEF Ordinary, Left, InCall, Calls, history, life, Fresh
<1> QED
  BY <1>2, <1>4, <1>5, <1>8, <1>9, <1>10, OrdinaryTyped DEF Owners, OthersTyped

\* Resuming the active thread of a worker keeps the types.
LEMMA TypedResumeActive ==
  ASSUME Typed, NEW a \in All, resumeActive(a)
  PROVE  Typed'
<1> USE DEF Typed
<1>1. /\ pc[a] = "resumeActive" /\ call[a].worker \in Workers
      /\ pc[a] \in Calls /\ pc[a] \in Free0
  BY DEF resumeActive, At, CallsTyped, CallTyped, Writing, Calls, Free0
<1>2. /\ UNCHANGED <<settings, workers, queue, paused, pollers, owner, call, task, life, history>>
      /\ Return(a) /\ resume(workers[call[a].worker].activeThread)
  BY DEF resumeActive
<1>3. workers[call[a].worker].activeThread \in Known
  BY <1>1 DEF WorkersTyped, WorkerType
<1>4. Resumes
  BY <1>2, <1>3 DEF Resumes, resume
<1>5. Known' = Known /\ Workers' = Workers
  BY <1>2, <1>4, ResumesKnown, SameSettings
<1>6. OthersTyped' /\ handed' = handed
  BY <1>2, <1>5, OthersKept, OwnersSame
<1>7. WorkersTyped'
  BY <1>2, <1>5 DEF WorkersTyped
<1>8. UNCHANGED <<waits, restarts>>
  BY <1>2 DEF life, history
<1> QED
  BY <1>1, <1>2, <1>4, <1>6, <1>7, <1>8, ReturnTyped, HeldInCall

\* launchThreadToPollForProgressIfPossible keeps the types.
LEMMA TypedLaunch ==
  ASSUME Typed, NEW a \in All, launchThreadToPollForProgressIfPossible(a)
  PROVE  Typed'
<1> USE DEF Typed
<1> DEFINE w == get_index_of_idle_thread
<1>1. /\ pc[a] = "launch" /\ pc[a] \in Calls /\ pc[a] \in Free0 /\ a # Progress
      /\ call[a].back \in BacksOf(a)
  <2>1. pc[a] = "launch"
    BY DEF launchThreadToPollForProgressIfPossible, At
  <2>2. "launch" \notin PlacesOf(Progress)
    BY Names DEF PlacesOf
  <2> QED
    BY <2>1, <2>2 DEF PlacesTyped, Calls, Free0, CallsTyped, CallTyped
<1>2. w \in Workers \union {NoWorker}
  BY IdleIndex
<1>3. /\ UNCHANGED <<settings, workers, threadQueue, paused, pollers, packages, task, life, history>>
      /\ SuggestAfter(w) /\ Free(start)
  BY DEF launchThreadToPollForProgressIfPossible
<1>4. /\ next_suggested_idle_thread' \in Workers'
      /\ Workers' = Workers /\ Mutexes' = Mutexes /\ Known' = Known /\ Resumes /\ handed' = handed
      /\ UNCHANGED <<waits, restarts>>
  BY <1>2, <1>3, Suggested, SameSettings DEF OthersTyped, Known, Created, Resumes, handed, history, life
<1>5. WorkersTyped'
  BY <1>3, <1>4 DEF WorkersTyped
<1>6. owner' \in [Mutexes -> All \union {Nobody}] => OthersTyped'
  BY <1>3, <1>4 DEF OthersTyped, paused, pollers, life, history
<1>7. CASE w = NoWorker
  <2>1. Return(a) /\ UNCHANGED <<owner, call>>
    BY <1>7 DEF launchThreadToPollForProgressIfPossible
  <2> QED
    BY <1>1, <1>3, <1>4, <1>5, <1>6, <2>1, ReturnTyped, HeldInCall, OwnersSame
<1>8. CASE w # NoWorker
  <2>1. /\ Lock(start, a) /\ call' = [call EXCEPT ![a].worker = w]
        /\ pc' = [pc EXCEPT ![a] = "awaitPoller"]
    BY <1>8 DEF launchThreadToPollForProgressIfPossible, Goto
  <2>2. Moves(a, "awaitPoller")
    BY <1>1, <1>2, <1>3, <1>4, <1>8, <2>1 DEF Moves, CallsTyped, PlacesOf, Calls
  <2>3. pc'[a] = "awaitPoller" /\ call'[a].back = call[a].back /\ call'[a].worker \in Workers
    BY <1>2, <1>8, <2>1, <2>2, MovedPlaces DEF CallsTyped
  <2>4. CallTyped(a)'
    BY <1>1, <1>4, <2>3 DEF CallTyped, BacksOf, Calls, Waiting, Writing
  <2>5. start \in Mutexes
    BY WorkerNumbers DEF OthersTyped
  <2>6. /\ owner' \in [Mutexes -> All \union {Nobody}]
        /\ \A m \in Mutexes : owner'[m] = a <=> (m = start \/ owner[m] = a)
        /\ \A m \in Mutexes : \A b \in All \ {a} : owner'[m] = b <=> owner[m] = b
    BY <1>3, <2>1, <2>5, Locked
  <2>7. \A m \in Mutexes : Holds(a, m)' <=> (m = start \/ Holds(a, m))
    BY <1>1, <1>4, <2>3 DEF Holds, Polling, InCall, Calls, Polls
  <2>8. Ordinary(a, "awaitPoller")
    BY <1>1, <1>4, <2>2, <2>3 DEF Ordinary, Left, InCall, Calls, Fresh
  <2> QED
    BY <1>4, <1>5, <1>6, <2>4, <2>6, <2>7, <2>8, OrdinaryTyped DEF Owners
<1> QED
  BY <1>7, <1>8

\* The wait for the poller in launchThreadToPollForProgressIfPossible keeps the
\* types.
LEMMA TypedAwaitPoller ==
  ASSUME Typed, NEW a \in All, awaitPoller(a)
  PROVE  Typed'
<1> USE DEF Typed
<1>1. /\ pc[a] = "awaitPoller" /\ call[a].worker \in Workers /\ a # Progress
      /\ call[a].back \in BacksOf(a)
  <2>1. pc[a] = "awaitPoller"
    BY DEF awaitPoller, At
  <2>2. "awaitPoller" \notin PlacesOf(Progress)
    BY Names DEF PlacesOf
  <2> QED
    BY <2>1, <2>2 DEF PlacesTyped, Calls, CallsTyped, CallTyped
<1>2. /\ UNCHANGED <<settings, queue, paused, pollers, packages, call, task, life, history>>
      /\ pc' = [pc EXCEPT ![a] = "clearCallFunction"] /\ Unlock({start})
      /\ workers' = [workers EXCEPT ![call[a].worker] = [workers[call[a].worker] EXCEPT !.threadBusy = TRUE]]
  BY DEF awaitPoller, Goto
<1>3. Workers' = Workers /\ Known' = Known /\ Resumes
  BY <1>2, SameSettings DEF Known, Created, Resumes
<1>4. start \in Mutexes /\ owner[start] = a
  BY <1>1, WorkerNumbers DEF OthersTyped, Owners, Holds
<1>5. /\ owner' \in [Mutexes -> All \union {Nobody}]
      /\ \A m \in Mutexes : owner'[m] = a <=> (m \notin {start} /\ owner[m] = a)
      /\ \A m \in Mutexes : \A b \in All \ {a} : owner'[m] = b <=> owner[m] = b
  BY <1>2, <1>4, Unlocked
<1>6. OthersTyped' /\ handed' = handed
  BY <1>2, <1>3, <1>5, OthersKept
<1>7. WorkersTyped'
  <2>1. workers[call[a].worker] \in WorkerType(Known)
    BY <1>1 DEF WorkersTyped
  <2>2. [workers[call[a].worker] EXCEPT !.threadBusy = TRUE] \in WorkerType(Known)
    BY <2>1, WorkerKept, ZenonT(60)
  <2> QED
    BY <1>1, <1>2, <1>3, <2>2, WorkersKept
<1>8. Moves(a, "clearCallFunction")
  BY <1>1, <1>2, <1>3 DEF Moves, CallsTyped, PlacesOf, Calls
<1>9. pc'[a] = "clearCallFunction" /\ call' = call
  BY <1>2, <1>8, MovedPlaces
<1>10. CallTyped(a)'
  BY <1>1, <1>3, <1>6, <1>9 DEF CallTyped, BacksOf, Calls, Waiting, Writing
<1>11. \A m \in Mutexes : Holds(a, m)' <=> (Holds(a, m) /\ m # start)
  BY <1>1, <1>3, <1>9, MutexNames DEF Holds, Polling, InCall, Calls, Polls, OthersTyped
<1>12. Ordinary(a, "clearCallFunction")
  BY <1>1, <1>2, <1>3, <1>8, <1>9 DEF Ordinary, Left, InCall, Calls, history, life, Fresh
<1> QED
  BY <1>5, <1>6, <1>7, <1>10, <1>11, <1>12, OrdinaryTyped DEF Owners

\* A thread that calls edatWait is one of the pool, or the main thread.
LEMMA WaitingThread ==
  ASSUME Typed, NEW a \in All, pc[a] \in Waiting
  PROVE  /\ a \in Known /\ a # Progress /\ call[a].back = "task" /\ (a \in Threads => Created(a))
         /\ \A l \in Waiting \union {"task"} : l \in PlacesOf(a)
<1>1. a # Progress
  <2>1. \A l \in Waiting : l \notin PlacesOf(Progress)
    BY Names DEF PlacesOf, Waiting, Calls
  <2> QED
    BY <2>1 DEF Typed, PlacesTyped
<1>2. a \in Threads => Created(a)
  BY DEF Typed, Fresh, Waiting
<1>3. call[a].back = "task"
  BY DEF Typed, CallsTyped, CallTyped
<1>4. \A l \in Waiting \union {"task"} : l \in PlacesOf(a)
  BY <1>1 DEF PlacesOf
<1> QED
  BY <1>1, <1>2, <1>3, <1>4, Names DEF Known

\* The worker whose active thread waits is one of the workers, if it is found.
LEMMA FoundWorker ==
  ASSUME settings \in Settings, NEW a
  PROVE  /\ findIndexFromThreadId(a) \in Workers \union {NoWorker}
         /\ findIndexFromThreadId(a) # NoWorker => workers[findIndexFromThreadId(a)].activeThread = a
         /\ findIndexFromThreadId(a) = NoWorker => \A w \in Workers : workers[w].activeThread # a
<1>1. NoWorker \notin Workers
  BY WorkerNumbers
<1> QED
  BY <1>1 DEF findIndexFromThreadId

\* pauseThread keeps the types: it knows the worker of the thread, or main waits.
LEMMA TypedPause ==
  ASSUME Typed, NEW a \in All, pauseThread(a)
  PROVE  Typed' \/ Stuck'
<1> USE DEF Typed
<1> DEFINE w == findIndexFromThreadId(a)
<1>1. /\ pc[a] = "pause" /\ pc[a] \in Waiting /\ Free(start)
      /\ UNCHANGED <<settings, workers, queue, pausedTasksToWorkers, pollers, packages, task, life, begun, waits>>
  BY DEF pauseThread, At, Waiting
<1>2. /\ a \in Known /\ a # Progress /\ call[a].back = "task" /\ (a \in Threads => Created(a))
      /\ \A l \in Waiting \union {"task"} : l \in PlacesOf(a)
  BY <1>1, WaitingThread
<1>3. w \in Workers \union {NoWorker}
  BY FoundWorker DEF OthersTyped
<1>4. /\ Workers' = Workers /\ Mutexes' = Mutexes /\ Known' = Known /\ Resumes /\ handed' = handed
      /\ UNCHANGED <<waits, restarts>>
  BY <1>1, SameSettings DEF Known, Created, Resumes, handed, life
<1>5. WorkersTyped'
  BY <1>1, <1>4 DEF WorkersTyped
<1>6. /\ Scheduler \in Mutexes /\ start \in Mutexes /\ owner[Scheduler] = a
      /\ \A m \in Mutexes : Holds(a, m) <=> m = Scheduler
  BY <1>1, WorkerNumbers DEF OthersTyped, Owners, Holds, Polling, InCall, Polls, Calls
<1>7. CASE w # NoWorker
  <2>1. /\ Lock(start, a) /\ call' = [call EXCEPT ![a].worker = w]
        /\ pc' = [pc EXCEPT ![a] = "pauseActive"] /\ UNCHANGED <<pausedMainThreadDescriptor, due>>
    BY <1>7 DEF pauseThread, Goto
  <2>2. Moves(a, "pauseActive")
    BY <1>1, <1>2, <1>3, <1>4, <1>7, <2>1 DEF Moves, CallsTyped, Waiting
  <2>3. pc'[a] = "pauseActive" /\ call'[a].back = "task" /\ call'[a].worker \in Workers
    BY <1>2, <1>3, <1>7, <2>1, <2>2, MovedPlaces DEF CallsTyped
  <2>4. CallTyped(a)'
    BY <1>4, <2>3 DEF CallTyped, Calls, Waiting, Writing
  <2>5. /\ owner' \in [Mutexes -> All \union {Nobody}]
        /\ \A m \in Mutexes : owner'[m] = a <=> (m = start \/ owner[m] = a)
        /\ \A m \in Mutexes : \A b \in All \ {a} : owner'[m] = b <=> owner[m] = b
    BY <1>1, <1>6, <2>1, Locked
  <2>6. \A m \in Mutexes : Holds(a, m)' <=> (m = start \/ m = Scheduler)
    BY <1>4, <2>3 DEF Holds, Polling, InCall, Calls, Polls
  <2>7. Ordinary(a, "pauseActive")
    BY <1>1, <1>2, <1>4, <2>2, <2>3 DEF Ordinary, Left, InCall, Calls
  <2>8. OthersTyped'
    BY <1>1, <1>4, <2>1, <2>5 DEF OthersTyped, queue, pollers, life
  <2> QED
    BY <1>4, <1>5, <1>6, <2>4, <2>5, <2>6, <2>7, <2>8, OrdinaryTyped DEF Owners
<1>8. CASE w = NoWorker /\ a = Main
  <2>1. /\ Unlock({Scheduler}) /\ call' = call /\ pc' = [pc EXCEPT ![a] = "paused"]
        /\ pausedMainThreadDescriptor' = TRUE /\ due' = due \union {a}
    BY <1>8 DEF pauseThread, Goto
  <2>2. Moves(a, "paused")
    BY <1>1, <1>2, <1>4, <2>1 DEF Moves, CallsTyped, Waiting
  <2>3. pc'[a] = "paused" /\ call' = call
    BY <2>1, <2>2, MovedPlaces
  <2>4. CallTyped(a)'
    BY <1>2, <1>4, <2>3 DEF CallTyped, Calls, Waiting, Writing
  <2>5. /\ owner' \in [Mutexes -> All \union {Nobody}]
        /\ \A m \in Mutexes : owner'[m] = a <=> (m \notin {Scheduler} /\ owner[m] = a)
        /\ \A m \in Mutexes : \A b \in All \ {a} : owner'[m] = b <=> owner[m] = b
    BY <1>1, <1>6, <2>1, Unlocked
  <2>6. \A m \in Mutexes : ~Holds(a, m)'
    BY <1>4, <2>3 DEF Holds, Polling, InCall, Calls, Polls
  <2>7. Ordinary(a, "paused")
    BY <1>1, <1>2, <1>4, <2>2, <2>3 DEF Ordinary, Left, InCall, Calls
  <2>8. OthersTyped'
    BY <1>1, <1>2, <1>4, <2>1, <2>5 DEF OthersTyped, queue, pollers, life
  <2> QED
    BY <1>4, <1>5, <1>6, <2>4, <2>5, <2>6, <2>7, <2>8, OrdinaryTyped DEF Owners
<1>9. CASE w = NoWorker /\ a # Main
  <2>1. /\ call' = call /\ pc' = [pc EXCEPT ![a] = "error"]
        /\ UNCHANGED <<pausedMainThreadDescriptor, due, owner>>
    BY <1>9 DEF pauseThread, Goto
  <2> QED
    BY <1>1, <2>1, ErrorTyped DEF paused, history
<1> QED
  BY <1>3, <1>7, <1>8, <1>9

-----------------------------------------------------------------------------
(* Steps that create a thread                                              *)

\* The bound, when somebody is to wait or the main thread has not left its worker.
LEMMA BoundFacts ==
  ASSUME Typed
  PROVE  /\ Bound \in Int /\ Pending \in {0, 1}
         /\ Bound = settings.workers + waits + restarts - Pending
                     - (IF settings.mainIsWorker /\ ~Left THEN 1 ELSE 0)
         /\ settings.workers \in Nat /\ waits \in 0 .. MaxWaits /\ restarts \in 0 .. settings.restarts
         /\ settings.restarts \in Nat /\ Needed(settings) = settings.workers + settings.restarts + MaxWaits
         /\ MaxWaits \in Nat /\ Pending <= waits
  BY WorkerNumbers, BoundsAssumption, SMTT(30) DEF Typed, OthersTyped, CreatedTyped, Bound, Pending, Needed

\* There is a thread left to create: the first one that is not created.
LEMMA NextExists ==
  ASSUME Typed, Bound <= Needed(settings)
  PROVE  /\ NextThread \in Threads /\ ~Created(NextThread)
         /\ NextThread = 0 \/ (Created(0) /\ NextThread <= Bound)
<1> DEFINE S == {t \in Threads : ~Created(t)}
<1>1. Threads \subseteq Nat /\ 0 .. Needed(settings) \subseteq Threads /\ 0 \in Threads
  BY EnoughThreads, WorkerNumbers DEF Typed, OthersTyped
<1>2. Created(0) => Bound \in S
  <2>1. Created(0) => 0 < Bound
    BY <1>1, BoundFacts DEF Typed, CreatedTyped
  <2>2. Created(0) => Bound \in Threads
    BY <1>1, <2>1, BoundFacts
  <2>3. Created(0) => ~Created(Bound)
    BY <2>1, <2>2, BoundFacts DEF Typed, CreatedTyped
  <2> QED
    BY <2>2, <2>3
<1>3. ~Created(0) => 0 \in S
  BY <1>1
<1>4. PICK n \in S : \A m \in S : n <= m
  <2>1. S \in SUBSET Nat /\ S # {}
    BY <1>1, <1>2, <1>3
  <2> QED
    BY <2>1, Least, Zenon
<1>5. NextThread \in S /\ \A u \in S : ~(u < NextThread)
  <2>1. \A u \in S : ~(u < n)
    BY <1>1, <1>4
  <2>2. n \in Threads /\ packages[n].worker = NoWorker
        /\ \A u \in Threads : u < n => packages[u].worker # NoWorker
    BY <1>4, <2>1 DEF Created
  <2> HIDE DEF S
  <2>3. /\ NextThread \in Threads /\ packages[NextThread].worker = NoWorker
        /\ \A u \in Threads : u < NextThread => packages[u].worker # NoWorker
    BY <2>2, Zenon DEF NextThread
  <2> QED
    BY <2>3 DEF Created, S
<1> QED
  BY <1>1, <1>2, <1>3, <1>5, BoundFacts

\* The thread that is created is within the bound.
LEMMA CreatedNext ==
  ASSUME Typed, NEW t \in Threads, t = 0 \/ (Created(0) /\ t <= Bound), settings' = settings,
         \A u \in Threads : Created(u)' => Created(u) \/ u = t,
         Created(t)', \A u \in Threads : Created(u) => Created(u)',
         Bound' \in Int, Bound' >= Bound + 1, Bound' >= settings.workers, Pending' <= waits'
  PROVE  CreatedTyped'
<1>1. Threads \subseteq Nat /\ 0 \in Threads /\ settings.workers \in Nat \ {0}
  BY EnoughThreads, WorkerNumbers DEF Typed, OthersTyped
<1>2. ASSUME NEW u \in Threads, Created(u)'
      PROVE  u < Bound'
  <2>1. CASE u = t
    BY <1>1, <2>1, BoundFacts
  <2>2. CASE u # t
    BY <1>1, <1>2, <2>2, BoundFacts DEF Typed, CreatedTyped
  <2> QED
    BY <2>1, <2>2
<1> QED
  BY <1>2 DEF CreatedTyped

\* The part of pauseThread that gives the worker a new thread keeps the types.
LEMMA TypedPauseActive ==
  ASSUME Typed, NEW a \in All, pauseActive(a)
  PROVE  Typed'
<1> USE DEF Typed
<1> DEFINE w == call[a].worker
           spare == workers[w].idleThreads
           b == IF spare = <<>> THEN NextThread ELSE Head(spare)
<1>1. /\ pc[a] = "pauseActive" /\ pc[a] \in Waiting /\ Free(pausedAndWaiting(w))
      /\ UNCHANGED <<settings, queue, paused, pollers, call, task, life, history>>
      /\ Lock(pausedAndWaiting(w), a) /\ pc' = [pc EXCEPT ![a] = "pauseMap"]
      /\ workers' = TakenOver(w, a, b)
      /\ packages' = [packages EXCEPT ![b].worker = w, ![b].completed = TRUE]
  BY DEF pauseActive, At, Waiting, Goto
<1>2. /\ a \in Known /\ a # Progress /\ call[a].back = "task" /\ (a \in Threads => Created(a))
      /\ \A l \in Waiting \union {"task"} : l \in PlacesOf(a)
  BY <1>1, WaitingThread
<1>3. w \in Workers /\ w \in Mutexes /\ pausedAndWaiting(w) = w
  BY <1>1, WorkerNumbers DEF OthersTyped, CallsTyped, CallTyped, pausedAndWaiting
<1>4. workers[w] \in WorkerType(Known)
  BY <1>3 DEF WorkersTyped
<1>5. Pending = 1
  BY <1>1 DEF Pending
<1>6. Bound <= Needed(settings)
  BY <1>5, BoundFacts
<1>7. spare \in Seq(Known \ {Main})
  BY <1>4 DEF WorkerType
<1>8. b \in Threads /\ (spare # <<>> => Created(b))
  <2>1. CASE spare = <<>>
    BY <1>6, <2>1, NextExists
  <2>2. CASE spare # <<>>
    <3>1. Head(spare) \in Known \ {Main}
      BY <1>7, <2>2
    <3> QED
      BY <2>2, <3>1 DEF Known
  <2> QED
    BY <2>1, <2>2
<1> HIDE DEF b, w
<1>9. b \in All /\ Workers' = Workers /\ Mutexes' = Mutexes /\ a \in All
  BY <1>1, <1>8, SameSettings, Names
<1>10. /\ PackagesTyped'
       /\ \A t \in All \ {b} : packages'[t] = packages[t]
       /\ packages'[b].worker = w
  BY <1>1, <1>3, <1>9 DEF PackagesTyped
<1>11. Known' = Known \union {b} /\ \A t \in Threads : Created(t)' <=> (Created(t) \/ t = b)
  <2>1. w # NoWorker
    BY <1>3, WorkerNumbers DEF OthersTyped
  <2> QED
    BY <1>8, <1>10, <2>1, Names DEF Known, Created
<1>12. Fresh'
  <2>1. \A t \in Threads : t # a => pc'[t] = pc[t]
    BY <1>1, Names DEF PlacesTyped
  <2> QED
    BY <1>2, <1>10, <1>11, <2>1, Names DEF Fresh
<1>13. WorkersTyped'
  <2>1. /\ workers[w].pausedThreads \union {a} \in SUBSET Known' /\ b \in Known'
        /\ workers[w] \in WorkerType(Known')
    <3>1. Known \subseteq Known' /\ b \in Known' /\ a \in Known
      BY <1>2, <1>11
    <3>2. workers[w] \in WorkerType(Known')
      BY <1>4, <3>1, WorkerKept
    <3> QED
      BY <3>1, <3>2 DEF WorkerType
  <2>2. (IF spare = <<>> THEN spare ELSE Tail(spare)) \in Seq(Known' \ {Main})
    <3>1. spare \in Seq(Known' \ {Main})
      BY <2>1 DEF WorkerType
    <3> QED
      BY <3>1
  <2>3. [workers[w] EXCEPT !.pausedThreads = @ \union {a}, !.threadBusy = FALSE, !.activeThread = b,
                           !.idleThreads = IF @ = <<>> THEN @ ELSE Tail(@)] \in WorkerType(Known')
    BY <2>1, <2>2 DEF WorkerType
  <2>4. workers' = [workers EXCEPT ![w] =
          [workers[w] EXCEPT !.pausedThreads = @ \union {a}, !.threadBusy = FALSE, !.activeThread = b,
                             !.idleThreads = IF @ = <<>> THEN @ ELSE Tail(@)]]
    BY <1>1 DEF TakenOver
  <2> QED
    BY <1>3, <1>9, <1>11, <2>3, <2>4, WorkersKept
<1>14. Moves(a, "pauseMap")
  BY <1>1, <1>2, <1>9 DEF Moves, CallsTyped, Waiting
<1>15. pc'[a] = "pauseMap" /\ call' = call /\ PlacesTyped' /\ \A c \in All \ {a} : pc'[c] = pc[c]
  BY <1>1, <1>14, MovedPlaces
<1>16. CallTyped(a)'
  BY <1>2, <1>3, <1>9, <1>15 DEF CallTyped, Calls, Waiting, Writing, w
<1>17. /\ owner' \in [Mutexes -> All \union {Nobody}]
       /\ \A m \in Mutexes : owner'[m] = a <=> (m = w \/ owner[m] = a)
       /\ \A m \in Mutexes : \A c \in All \ {a} : owner'[m] = c <=> owner[m] = c
  BY <1>1, <1>3, Locked
<1>18. OthersTyped' /\ handed' = handed
  BY <1>1, <1>11, <1>17, OthersKept
<1>19. CallsTyped'
  BY <1>11, <1>14, <1>16, <1>18, MovedCalls DEF OthersTyped, handed
<1>20. \A m \in Mutexes : Holds(a, m)' <=> (m = w \/ Holds(a, m))
  BY <1>1, <1>3, <1>9, <1>15, MutexNames DEF Holds, Polling, InCall, Calls, Polls, OthersTyped, w
<1>21. Owners'
  BY <1>14, <1>17, <1>20, MovedOwners DEF Owners
<1>22. Pending' = 0
  <2>1. \A c \in All : pc[c] \in {"pause", "pauseActive"} => owner[Scheduler] = c
    BY WorkerNumbers DEF OthersTyped, Owners, Holds
  <2> QED
    BY <1>1, <1>15, <2>1 DEF Pending
<1>23. Left' <=> Left
  BY <1>1, <1>15, Names DEF Left, InCall, Calls
<1>24. Bound' = Bound + 1 /\ Pending' <= waits' /\ Bound' \in Int /\ Bound' >= settings.workers
  <2>1. UNCHANGED <<settings, waits, restarts>>
    BY <1>1 DEF life, history
  <2>2. Bound' = settings.workers + waits + restarts - 0 - (IF settings.mainIsWorker /\ ~Left THEN 1 ELSE 0)
    BY <1>22, <1>23, <2>1 DEF Bound
  <2> QED
    BY <1>5, <1>22, <2>1, <2>2, BoundFacts
<1>25. CreatedTyped'
  <2>1. CASE spare = <<>>
    <3>1. b = NextThread
      BY <2>1 DEF b, w
    <3> QED
      BY <1>1, <1>6, <1>8, <1>11, <1>24, <3>1, NextExists, CreatedNext
  <2>2. CASE spare # <<>>
    <3>1. Created(b)
      BY <1>8, <2>2
    <3>2. \A t \in Threads : Created(t)' <=> Created(t)
      BY <1>11, <3>1
    <3>3. 0 \in Threads /\ Threads \subseteq Nat
      BY WorkerNumbers, EnoughThreads DEF OthersTyped
    <3> QED
      BY <1>1, <1>24, <3>2, <3>3, BoundFacts DEF CreatedTyped
  <2> QED
    BY <2>1, <2>2
<1> QED
  BY <1>10, <1>12, <1>13, <1>15, <1>18, <1>19, <1>21, <1>25

-----------------------------------------------------------------------------
(* The other steps                                                         *)

\* The entry in pausedAndWaiting keeps the types.
LEMMA TypedPauseMap ==
  ASSUME Typed, NEW a \in All, pauseMap(a)
  PROVE  Typed'
<1> USE DEF Typed
<1> DEFINE w == call[a].worker
           S == {Scheduler, start, pausedAndWaiting(w)}
<1>1. /\ pc[a] = "pauseMap" /\ pc[a] \in Waiting
      /\ pausedTasksToWorkers' = [pausedTasksToWorkers EXCEPT ![a] = w]
      /\ Unlock(S) /\ due' = due \union {a} /\ pc' = [pc EXCEPT ![a] = "paused"]
      /\ UNCHANGED <<settings, workers, queue, pausedMainThreadDescriptor, pollers, packages, call, task,
                     life, begun, waits>>
  BY DEF pauseMap, At, Waiting, Goto
<1>2. /\ a \in Known /\ a # Progress /\ call[a].back = "task" /\ (a \in Threads => Created(a))
      /\ \A l \in Waiting \union {"task"} : l \in PlacesOf(a)
  BY <1>1, WaitingThread
<1>3. w \in Workers /\ w \in Mutexes /\ pausedAndWaiting(w) = w /\ Scheduler \in Mutexes /\ start \in Mutexes
  BY <1>1, WorkerNumbers DEF OthersTyped, CallsTyped, CallTyped, pausedAndWaiting
<1>4. /\ Workers' = Workers /\ Mutexes' = Mutexes /\ Known' = Known /\ Resumes /\ handed' = handed
      /\ UNCHANGED <<waits, restarts>>
  BY <1>1, SameSettings DEF Known, Created, Resumes, handed, life
<1>5. WorkersTyped'
  BY <1>1, <1>4 DEF WorkersTyped
<1>6. \A m \in Mutexes : Holds(a, m) <=> m \in S
  BY <1>1, <1>3 DEF Holds, Polling, InCall, Polls, Calls
<1>7. /\ owner' \in [Mutexes -> All \union {Nobody}]
      /\ \A m \in Mutexes : owner'[m] = a <=> (m \notin S /\ owner[m] = a)
      /\ \A m \in Mutexes : \A b \in All \ {a} : owner'[m] = b <=> owner[m] = b
  <2>1. S \in SUBSET Mutexes /\ \A m \in S : owner[m] = a
    BY <1>3, <1>6 DEF Owners
  <2> QED
    BY <1>1, <2>1, Unlocked
<1>8. Moves(a, "paused")
  BY <1>1, <1>2, <1>4 DEF Moves, CallsTyped, Waiting
<1>9. pc'[a] = "paused" /\ call' = call
  BY <1>1, <1>8, MovedPlaces
<1>10. CallTyped(a)'
  BY <1>2, <1>4, <1>9 DEF CallTyped, Calls, Waiting, Writing
<1>11. \A m \in Mutexes : ~Holds(a, m)'
  BY <1>4, <1>9 DEF Holds, Polling, InCall, Calls, Polls
<1>12. Ordinary(a, "paused")
  BY <1>1, <1>2, <1>4, <1>8, <1>9 DEF Ordinary, Left, InCall, Calls
<1>13. OthersTyped'
  BY <1>1, <1>2, <1>3, <1>4, <1>7 DEF OthersTyped, queue, pollers, life
<1> QED
  BY <1>4, <1>5, <1>6, <1>7, <1>10, <1>11, <1>12, <1>13, OrdinaryTyped DEF Owners

\* The return from pauseThread keeps the types.
LEMMA TypedWaitReturns ==
  ASSUME Typed, NEW a \in All, waitReturns(a)
  PROVE  Typed'
<1> USE DEF Typed
<1>1. /\ pc[a] = "paused" /\ pc[a] \in Waiting
      /\ UNCHANGED <<settings, workers, queue, paused, pollers, owner, call, task, life, history>>
      /\ packages' = [packages EXCEPT ![a].completed = FALSE] /\ pc' = [pc EXCEPT ![a] = call[a].back]
  BY DEF waitReturns, At, Waiting, Return, Goto, pauseReturns
<1>2. /\ a \in Known /\ a # Progress /\ call[a].back = "task" /\ (a \in Threads => Created(a))
      /\ \A l \in Waiting \union {"task"} : l \in PlacesOf(a)
  BY <1>1, WaitingThread
<1>3. Resumes
  BY <1>1, <1>2 DEF Resumes
<1>4. Workers' = Workers /\ Mutexes' = Mutexes /\ Known' = Known
  BY <1>1, <1>3, SameSettings, ResumesKnown
<1>5. WorkersTyped'
  BY <1>1, <1>4 DEF WorkersTyped
<1>6. OthersTyped' /\ handed' = handed
  BY <1>1, <1>4, OthersKept, OwnersSame
<1>7. Moves(a, "task")
  BY <1>1, <1>2, <1>4 DEF Moves, CallsTyped
<1>8. pc'[a] = "task" /\ call' = call
  BY <1>1, <1>7, MovedPlaces
<1>9. CallTyped(a)'
  BY <1>8 DEF CallTyped, Calls, Waiting, Writing
<1>10. \A m \in Mutexes : ~Holds(a, m)' /\ ~Holds(a, m)
  BY <1>1, <1>8 DEF Holds, Polling, InCall, Calls, Polls
<1>11. Ordinary(a, "task")
  BY <1>1, <1>2, <1>3, <1>7, <1>8 DEF Ordinary, Left, InCall, Calls, history, life
<1> QED
  BY <1>1, <1>4, <1>5, <1>6, <1>9, <1>10, <1>11, OrdinaryTyped DEF Owners, OthersTyped

\* markThreadResume keeps the types: it finds the worker, or resumes main.
LEMMA TypedMark ==
  ASSUME Typed, NEW a \in All, markThreadResume(a)
  PROVE  Typed' \/ Stuck'
<1> USE DEF Typed
<1> DEFINE d == call[a].arg
           w == pausedTasksToWorkers[d]
<1>1. /\ pc[a] = "mark" /\ pc[a] \in Calls /\ pc[a] \in Free0 /\ d \in Known /\ d \in All
      /\ call[a].back \in BacksOf(a)
      /\ UNCHANGED <<settings, workers, queue, pollers, task, life, history>> /\ Free(pausedTasks)
  <2>1. pc[a] = "mark"
    BY DEF markThreadResume, At
  <2> QED
    BY <2>1, Names DEF markThreadResume, Calls, Free0, CallsTyped, CallTyped, Known
<1>2. w \in Workers \union {NoWorker}
  BY <1>1 DEF OthersTyped
<1>3. Workers' = Workers /\ Mutexes' = Mutexes /\ handed' = handed /\ UNCHANGED <<waits, restarts, due, begun>>
  BY <1>1, SameSettings DEF handed, history, life
<1>4. CASE w # NoWorker
  <2>1. /\ Lock(pausedTasks, a) /\ UNCHANGED <<pausedMainThreadDescriptor, packages>>
        /\ pausedTasksToWorkers' = [pausedTasksToWorkers EXCEPT ![d] = NoWorker]
        /\ call' = [call EXCEPT ![a].worker = w] /\ pc' = [pc EXCEPT ![a] = "markWaiting"]
    BY <1>4 DEF markThreadResume, Goto
  <2>2. Known' = Known /\ Resumes
    BY <2>1 DEF Known, Created, Resumes
  <2>3. WorkersTyped'
    BY <1>1, <1>3, <2>2 DEF WorkersTyped
  <2>4. Moves(a, "markWaiting")
    BY <1>1, <1>2, <1>3, <1>4, <2>1 DEF Moves, CallsTyped, PlacesOf, Calls
  <2>5. /\ pc'[a] = "markWaiting" /\ call'[a].back = call[a].back /\ call'[a].arg = d
        /\ call'[a].worker \in Workers
    BY <1>2, <1>4, <2>1, <2>4, MovedPlaces DEF CallsTyped
  <2>6. CallTyped(a)'
    BY <1>1, <1>3, <2>2, <2>5 DEF CallTyped, BacksOf, Calls, Waiting, Writing
  <2>7. pausedTasks \in Mutexes
    BY WorkerNumbers DEF OthersTyped
  <2>8. /\ owner' \in [Mutexes -> All \union {Nobody}]
        /\ \A m \in Mutexes : owner'[m] = a <=> (m = pausedTasks \/ owner[m] = a)
        /\ \A m \in Mutexes : \A b \in All \ {a} : owner'[m] = b <=> owner[m] = b
    BY <1>1, <2>1, <2>7, Locked
  <2>9. \A m \in Mutexes : Holds(a, m)' <=> (m = pausedTasks \/ Holds(a, m))
    BY <1>1, <1>3, <2>5 DEF Holds, Polling, InCall, Calls, Polls
  <2>10. Ordinary(a, "markWaiting")
    BY <1>1, <1>3, <2>2, <2>4, <2>5 DEF Ordinary, Left, InCall, Calls, Fresh
  <2>11. OthersTyped'
    BY <1>1, <1>3, <2>1, <2>2, <2>8 DEF OthersTyped, queue, pollers, life, history
  <2> QED
    BY <1>3, <2>3, <2>6, <2>8, <2>9, <2>10, <2>11, OrdinaryTyped DEF Owners
<1>5. CASE w = NoWorker /\ pausedMainThreadDescriptor /\ d = Main
  <2>1. /\ pausedMainThreadDescriptor' = FALSE /\ resume(Main) /\ Return(a)
        /\ UNCHANGED <<pausedTasksToWorkers, owner, call>>
    BY <1>5 DEF markThreadResume
  <2>2. Resumes
    BY <2>1 DEF Resumes, resume, Known
  <2>3. Known' = Known
    BY <1>1, <2>2, ResumesKnown
  <2>4. WorkersTyped'
    BY <1>1, <1>3, <2>3 DEF WorkersTyped
  <2>5. OthersTyped'
    BY <1>1, <1>3, <2>1, <2>3 DEF OthersTyped, queue, pollers, life, history
  <2> QED
    BY <1>1, <1>3, <2>1, <2>2, <2>4, <2>5, ReturnTyped, HeldInCall
<1>6. CASE w = NoWorker /\ ~(pausedMainThreadDescriptor /\ d = Main)
  <2>1. pc' = [pc EXCEPT ![a] = "error"] /\ UNCHANGED <<paused, packages, owner, call>>
    BY <1>6 DEF markThreadResume, Goto
  <2> QED
    BY <1>1, <2>1, ErrorTyped
<1> QED
  BY <1>2, <1>4, <1>5, <1>6

\* The part of markThreadResume that makes the thread one that waits to go on
\* keeps the types.
LEMMA TypedMarkWaiting ==
  ASSUME Typed, NEW a \in All, markWaiting(a)
  PROVE  Typed' \/ Stuck'
<1> USE DEF Typed
<1> DEFINE d == call[a].arg
           w == call[a].worker
<1>1. /\ pc[a] = "markWaiting" /\ pc[a] \in Calls /\ d \in Known /\ w \in Workers
      /\ call[a].back \in BacksOf(a)
      /\ UNCHANGED <<settings, queue, paused, pollers, packages, call, task, life, history>>
      /\ Free(pausedAndWaiting(w))
  <2>1. pc[a] = "markWaiting"
    BY DEF markWaiting, At
  <2> QED
    BY <2>1 DEF markWaiting, Calls, CallsTyped, CallTyped
<1>2. Workers' = Workers /\ Mutexes' = Mutexes /\ Known' = Known /\ Resumes
  BY <1>1, SameSettings DEF Known, Created, Resumes
<1>3. CASE d \in workers[w].pausedThreads
  <2>1. /\ workers' = [workers EXCEPT ![w].pausedThreads = @ \ {d}, ![w].waitingThreads = Append(@, d)]
        /\ Lock(pausedAndWaiting(w), a) /\ pc' = [pc EXCEPT ![a] = "markBusy"]
    BY <1>3 DEF markWaiting, Goto
  <2>2. WorkersTyped'
    <3>1. workers[w] \in WorkerType(Known)
      BY <1>1 DEF WorkersTyped
    <3>2. workers[w].pausedThreads \ {d} \in SUBSET Known /\ Append(workers[w].waitingThreads, d) \in Seq(Known)
      BY <1>1, <3>1 DEF WorkerType
    <3>3. [workers[w] EXCEPT !.pausedThreads = @ \ {d}, !.waitingThreads = Append(@, d)] \in WorkerType(Known)
      BY <3>1, <3>2 DEF WorkerType
    <3>4. workers' = [workers EXCEPT ![w] =
                        [workers[w] EXCEPT !.pausedThreads = @ \ {d}, !.waitingThreads = Append(@, d)]]
      BY <2>1
    <3> QED
      BY <1>1, <1>2, <3>3, <3>4, WorkersKept
  <2>3. Moves(a, "markBusy")
    BY <1>1, <1>2, <2>1 DEF Moves, CallsTyped, PlacesOf, Calls
  <2>4. pc'[a] = "markBusy" /\ call' = call
    BY <1>1, <2>1, <2>3, MovedPlaces
  <2>5. CallTyped(a)'
    BY <1>1, <1>2, <2>4 DEF CallTyped, BacksOf, Calls, Waiting, Writing
  <2>6. w \in Mutexes /\ pausedAndWaiting(w) = w
    BY <1>1, WorkerNumbers DEF OthersTyped, pausedAndWaiting
  <2>7. /\ owner' \in [Mutexes -> All \union {Nobody}]
        /\ \A m \in Mutexes : owner'[m] = a <=> (m = w \/ owner[m] = a)
        /\ \A m \in Mutexes : \A b \in All \ {a} : owner'[m] = b <=> owner[m] = b
    BY <1>1, <2>1, <2>6, Locked
  <2>8. \A m \in Mutexes : Holds(a, m)' <=> (m = w \/ Holds(a, m))
    BY <1>1, <1>2, <2>4, MutexNames DEF Holds, Polling, InCall, Calls, Polls, OthersTyped
  <2>9. Ordinary(a, "markBusy")
    BY <1>1, <1>2, <2>3, <2>4 DEF Ordinary, Left, InCall, Calls, Fresh, life, history
  <2>10. OthersTyped' /\ handed' = handed
    BY <1>1, <1>2, <2>7, OthersKept
  <2> QED
    BY <2>2, <2>5, <2>7, <2>8, <2>9, <2>10, OrdinaryTyped DEF Owners
<1>4. CASE d \notin workers[w].pausedThreads
  <2>1. pc' = [pc EXCEPT ![a] = "error"] /\ UNCHANGED <<workers, owner>>
    BY <1>4 DEF markWaiting, Goto
  <2> QED
    BY <1>1, <2>1, ErrorTyped
<1> QED
  BY <1>3, <1>4

\* The part of markThreadResume that wakes an idle worker keeps the types.
LEMMA TypedMarkBusy ==
  ASSUME Typed, NEW a \in All, markBusy(a)
  PROVE  Typed'
<1> USE DEF Typed
<1> DEFINE w == call[a].worker
           r == [workers[w] EXCEPT !.threadBusy = TRUE, !.callFunction = FALSE]
<1>1. /\ pc[a] = "markBusy" /\ pc[a] \in Calls /\ w \in Workers /\ call[a].back \in BacksOf(a)
      /\ UNCHANGED <<settings, queue, paused, pollers, owner, call, task, life, history>>
      /\ pc' = [pc EXCEPT ![a] = "markPoller"]
  <2>1. pc[a] = "markBusy"
    BY DEF markBusy, At
  <2> QED
    BY <2>1 DEF markBusy, Goto, Calls, CallsTyped, CallTyped
<1>2. workers[w] \in WorkerType(Known) /\ workers[w].activeThread \in Known
  BY <1>1 DEF WorkersTyped, WorkerType
<1>3. Resumes /\ (workers' = workers \/ workers' = [workers EXCEPT ![w] = r])
  BY <1>2 DEF markBusy, Resumes, resume
<1>4. Workers' = Workers /\ Mutexes' = Mutexes /\ Known' = Known
  BY <1>1, <1>3, SameSettings, ResumesKnown
<1>5. WorkersTyped'
  <2>1. r \in WorkerType(Known)
    BY <1>2, WorkerKept
  <2>2. CASE workers' = workers
    BY <1>4, <2>2 DEF WorkersTyped
  <2>3. CASE workers' = [workers EXCEPT ![w] = r]
    BY <1>1, <1>4, <2>1, <2>3, WorkersKept
  <2> QED
    BY <1>3, <2>2, <2>3
<1>6. OthersTyped' /\ handed' = handed
  BY <1>1, <1>4, OthersKept, OwnersSame
<1>7. Moves(a, "markPoller")
  BY <1>1, <1>4 DEF Moves, CallsTyped, PlacesOf, Calls
<1>8. pc'[a] = "markPoller" /\ call' = call
  BY <1>1, <1>7, MovedPlaces
<1>9. CallTyped(a)'
  BY <1>1, <1>4, <1>8 DEF CallTyped, BacksOf, Calls, Waiting, Writing
<1>10. \A m \in Mutexes : Holds(a, m)' <=> Holds(a, m)
  BY <1>1, <1>4, <1>8 DEF Holds, Polling, InCall, Calls, Polls
<1>11. Ordinary(a, "markPoller")
  BY <1>1, <1>3, <1>4, <1>7, <1>8 DEF Ordinary, Left, InCall, Calls, Fresh, life, history
<1> QED
  BY <1>1, <1>5, <1>6, <1>9, <1>10, <1>11, OrdinaryTyped DEF Owners, OthersTyped

\* The part of markThreadResume that tells a poller to stop keeps the types.
LEMMA TypedMarkPoller ==
  ASSUME Typed, NEW a \in All, markPoller(a)
  PROVE  Typed'
<1> USE DEF Typed
<1> DEFINE w == call[a].worker
           S == {pausedTasks, pausedAndWaiting(w)}
<1>1. /\ pc[a] = "markPoller" /\ pc[a] \in Calls /\ w \in Workers /\ call[a].back \in BacksOf(a)
      /\ UNCHANGED <<settings, workers, queue, paused, pollingProgressThread, packages, call, task, life, history>>
      /\ Return(a) /\ Unlock(S)
      /\ restartAnotherPoller' \in BOOLEAN
  <2>1. pc[a] = "markPoller"
    BY DEF markPoller, At
  <2>2. restartAnotherPoller' \in BOOLEAN
    BY DEF markPoller, OthersTyped, progressPollIdleThread
  <2> QED
    BY <2>1, <2>2 DEF markPoller, Calls, CallsTyped, CallTyped
<1>2. /\ Workers' = Workers /\ Mutexes' = Mutexes /\ Known' = Known /\ Resumes /\ handed' = handed
      /\ UNCHANGED <<waits, restarts>>
  BY <1>1, SameSettings DEF Known, Created, Resumes, handed, history, life
<1>3. WorkersTyped'
  BY <1>1, <1>2 DEF WorkersTyped
<1>4. w \in Mutexes /\ pausedAndWaiting(w) = w /\ pausedTasks \in Mutexes
  BY <1>1, WorkerNumbers DEF OthersTyped, pausedAndWaiting
<1>5. \A m \in Mutexes : owner[m] = a <=> (m \in S \/ (m = progress /\ a \in Threads /\ call[a].back = "polled"))
  <2>1. \A m \in Mutexes : Holds(a, m) <=> (m \in S \/ (m = progress /\ a \in Threads /\ Polling(a)))
    BY <1>1, <1>4 DEF Holds
  <2>2. Polling(a) <=> call[a].back = "polled"
    BY <1>1 DEF Polling, InCall, Polls
  <2> QED
    BY <2>1, <2>2 DEF Owners
<1>6. /\ owner' \in [Mutexes -> All \union {Nobody}]
      /\ \A m \in Mutexes : owner'[m] = a <=> (m \notin S /\ owner[m] = a)
      /\ \A m \in Mutexes : \A b \in All \ {a} : owner'[m] = b <=> owner[m] = b
  <2>1. S \in SUBSET Mutexes /\ \A m \in S : owner[m] = a
    BY <1>4, <1>5
  <2> QED
    BY <1>1, <2>1, Unlocked
<1>7. \A m \in Mutexes : owner'[m] = a <=> (m = progress /\ a \in Threads /\ call[a].back = "polled")
  BY <1>1, <1>4, <1>5, <1>6, MutexNames DEF OthersTyped
<1>8. OthersTyped'
  BY <1>1, <1>2, <1>6 DEF OthersTyped, queue, paused, life, history
<1> QED
  BY <1>1, <1>2, <1>3, <1>6, <1>7, <1>8, ReturnTyped

-----------------------------------------------------------------------------
(* The threads of the pool                                                 *)

\* What a thread holds outside the functions that others call too.
Keeps(l, m) ==
  \/ m = Scheduler /\ l \in {"lockPool", "test"}
  \/ m = start /\ l \in {"look", "test"}
  \/ m = progress /\ l \in Polls

\* A thread that is awake has been created for a worker.
LEMMA AwakeThread ==
  ASSUME Typed, NEW t \in Threads, pc[t] # "asleep" \/ packages[t].completed
  PROVE  /\ Created(t) /\ Worker(t) \in Workers /\ t \in All /\ t # Main /\ t # Progress /\ t \in Known
         /\ workers[Worker(t)] \in WorkerType(Known)
         /\ \A l \in Calls \union Waiting \union Polls : l \in PlacesOf(t)
         /\ \A l \in {"asleep", "command", "task", "loop", "look", "handOver", "spare", "idle", "gone"} :
              l \in PlacesOf(t)
<1>1. Created(t) /\ t \in All /\ t # Main /\ t # Progress
  BY Names DEF Typed, Fresh
<1>2. Worker(t) \in Workers
  BY <1>1 DEF Typed, PackagesTyped, Created, Worker
<1> QED
  BY <1>1, <1>2 DEF PlacesOf, Typed, WorkersTyped, Known

\* It holds no more than that.
LEMMA HeldInEntry ==
  ASSUME Typed, NEW t \in Threads, pc[t] \notin Calls \union Waiting
  PROVE  \A m \in Mutexes : owner[m] = t <=> Keeps(pc[t], m)
<1>1. \A m \in Mutexes : owner[m] = t <=> Holds(t, m)
  BY Names DEF Typed, Owners
<1>2. \A m : Holds(t, m) <=> Keeps(pc[t], m)
  BY DEF Holds, Keeps, Polling, InCall, Calls, Waiting
<1> QED
  BY <1>1, <1>2

\* A step of such a thread.
LEMMA EntryTyped ==
  ASSUME Typed, NEW t \in Threads, pc[t] # "asleep" \/ packages[t].completed, NEW l,
         l \in PlacesOf(t), l \notin Calls \union Waiting, pc' = [pc EXCEPT ![t] = l],
         UNCHANGED <<settings, call, waits, restarts>>, Resumes, handed' = handed,
         OthersTyped', WorkersTyped',
         \A m \in Mutexes : owner'[m] = t <=> Keeps(l, m),
         \A m \in Mutexes : \A b \in All \ {t} : owner'[m] = b <=> owner[m] = b
  PROVE  Typed'
<1> USE DEF Typed
<1>1. Created(t) /\ t \in All /\ t # Main
  BY AwakeThread
<1>2. Workers' = Workers
  BY SameSettings
<1>3. Moves(t, l)
  BY <1>2 DEF Moves, CallsTyped
<1>4. pc'[t] = l /\ call' = call
  BY <1>1, <1>3, MovedPlaces
<1>5. CallTyped(t)'
  BY <1>4 DEF CallTyped, Calls, Waiting, Writing
<1>6. \A m \in Mutexes : Holds(t, m)' <=> owner'[m] = t
  <2>1. \A m : Holds(t, m)' <=> Keeps(l, m)
    BY <1>4 DEF Holds, Keeps, Polling, InCall, Calls, Waiting
  <2> QED
    BY <2>1
<1>7. Ordinary(t, l)
  BY <1>1, <1>3 DEF Ordinary, Waiting
<1> QED
  BY <1>1, <1>5, <1>6, <1>7, OrdinaryTyped

\* The wake of a thread keeps the types.
LEMMA TypedWake ==
  ASSUME Typed, NEW t \in Threads, wake(t)
  PROVE  Typed'
<1> USE DEF Typed
<1>1. /\ pc[t] \in {"asleep"}
      /\ pc[t] # "asleep" \/ packages[t].completed
      /\ UNCHANGED <<settings, workers, queue, paused, pollers, owner, call, task, life, history>>
      /\ packages' = [packages EXCEPT ![t].completed = FALSE]
  BY DEF wake, At, pauseReturns
<1>2. PICK l : l \in {"gone", "command"} /\ pc' = [pc EXCEPT ![t] = l]
  BY DEF wake, Goto
<1>3. t \in Known /\ Worker(t) \in Workers /\ workers[Worker(t)] \in WorkerType(Known) /\ l \in PlacesOf(t)
  BY <1>1, <1>2, AwakeThread DEF Polls
<1>4. Resumes
  BY <1>1, <1>3 DEF Resumes, resume, WorkerType
<1>5. Workers' = Workers /\ Mutexes' = Mutexes /\ Known' = Known /\ UNCHANGED <<waits, restarts>>
  BY <1>1, <1>4, SameSettings, ResumesKnown DEF life, history
<1>6. WorkersTyped'
  BY <1>1, <1>5 DEF WorkersTyped
<1>7. OthersTyped' /\ handed' = handed
  BY <1>1, <1>5, OthersKept, OwnersSame
<1>8. l \notin Calls \union Waiting /\ pc[t] \notin Calls \union Waiting
      /\ \A m : Keeps(l, m) <=> Keeps(pc[t], m)
  BY <1>1, <1>2 DEF Calls, Waiting, Keeps, Polls
<1>9. /\ \A m \in Mutexes : owner'[m] = t <=> Keeps(l, m)
      /\ \A m \in Mutexes : \A b \in All \ {t} : owner'[m] = b <=> owner[m] = b
  BY <1>1, <1>8, HeldInEntry
<1>10. UNCHANGED <<settings, call, waits, restarts>>
  BY <1>1, <1>5
<1> QED
  BY <1>1, <1>2, <1>3, <1>4, <1>6, <1>7, <1>8, <1>9, <1>10, EntryTyped, ZenonT(60)

\* Resuming a thread that waited keeps the types.
LEMMA TypedResumeWaiting ==
  ASSUME Typed, NEW t \in Threads, resumeWaiting(t)
  PROVE  Typed'
<1> USE DEF Typed
<1>1. /\ pc[t] \in {"handOver"}
      /\ pc[t] # "asleep" \/ packages[t].completed
      /\ UNCHANGED <<settings, workers, queue, paused, pollers, owner, call, task, life, history>>
      /\ resume(workers[Worker(t)].activeThread)
  BY DEF resumeWaiting, At, pauseReturns
<1>2. PICK l : l \in {"spare"} /\ pc' = [pc EXCEPT ![t] = l]
  BY DEF resumeWaiting, Goto, Spare
<1>3. t \in Known /\ Worker(t) \in Workers /\ workers[Worker(t)] \in WorkerType(Known) /\ l \in PlacesOf(t)
  BY <1>1, <1>2, AwakeThread DEF Polls
<1>4. Resumes
  BY <1>1, <1>3 DEF Resumes, resume, WorkerType
<1>5. Workers' = Workers /\ Mutexes' = Mutexes /\ Known' = Known /\ UNCHANGED <<waits, restarts>>
  BY <1>1, <1>4, SameSettings, ResumesKnown DEF life, history
<1>6. WorkersTyped'
  BY <1>1, <1>5 DEF WorkersTyped
<1>7. OthersTyped' /\ handed' = handed
  BY <1>1, <1>5, OthersKept, OwnersSame
<1>8. l \notin Calls \union Waiting /\ pc[t] \notin Calls \union Waiting
      /\ \A m : Keeps(l, m) <=> Keeps(pc[t], m)
  BY <1>1, <1>2 DEF Calls, Waiting, Keeps, Polls
<1>9. /\ \A m \in Mutexes : owner'[m] = t <=> Keeps(l, m)
      /\ \A m \in Mutexes : \A b \in All \ {t} : owner'[m] = b <=> owner[m] = b
  BY <1>1, <1>8, HeldInEntry
<1>10. UNCHANGED <<settings, call, waits, restarts>>
  BY <1>1, <1>5
<1> QED
  BY <1>1, <1>2, <1>3, <1>4, <1>6, <1>7, <1>8, <1>9, <1>10, EntryTyped, ZenonT(60)

\* A spare thread that goes on keeps the types.
LEMMA TypedReactivated ==
  ASSUME Typed, NEW t \in Threads, reactivated(t)
  PROVE  Typed'
<1> USE DEF Typed
<1>1. /\ pc[t] \in {"spare"}
      /\ pc[t] # "asleep" \/ packages[t].completed
      /\ UNCHANGED <<settings, workers, queue, paused, pollers, owner, call, task, life, history>>
      /\ packages' = [packages EXCEPT ![t].completed = FALSE]
  BY DEF reactivated, At, pauseReturns
<1>2. PICK l : l \in {"loop"} /\ pc' = [pc EXCEPT ![t] = l]
  BY DEF reactivated, Goto
<1>3. t \in Known /\ Worker(t) \in Workers /\ workers[Worker(t)] \in WorkerType(Known) /\ l \in PlacesOf(t)
  BY <1>1, <1>2, AwakeThread DEF Polls
<1>4. Resumes
  BY <1>1, <1>3 DEF Resumes, resume, WorkerType
<1>5. Workers' = Workers /\ Mutexes' = Mutexes /\ Known' = Known /\ UNCHANGED <<waits, restarts>>
  BY <1>1, <1>4, SameSettings, ResumesKnown DEF life, history
<1>6. WorkersTyped'
  BY <1>1, <1>5 DEF WorkersTyped
<1>7. OthersTyped' /\ handed' = handed
  BY <1>1, <1>5, OthersKept, OwnersSame
<1>8. l \notin Calls \union Waiting /\ pc[t] \notin Calls \union Waiting
      /\ \A m : Keeps(l, m) <=> Keeps(pc[t], m)
  BY <1>1, <1>2 DEF Calls, Waiting, Keeps, Polls
<1>9. /\ \A m \in Mutexes : owner'[m] = t <=> Keeps(l, m)
      /\ \A m \in Mutexes : \A b \in All \ {t} : owner'[m] = b <=> owner[m] = b
  BY <1>1, <1>8, HeldInEntry
<1>10. UNCHANGED <<settings, call, waits, restarts>>
  BY <1>1, <1>5
<1> QED
  BY <1>1, <1>2, <1>3, <1>4, <1>6, <1>7, <1>8, <1>9, <1>10, EntryTyped, ZenonT(60)

\* The return from polling keeps the types.
LEMMA TypedPollReturns ==
  ASSUME Typed, NEW t \in Threads, pollReturns(t)
  PROVE  Typed'
<1> USE DEF Typed
<1>1. /\ pc[t] \in {"poll"}
      /\ pc[t] # "asleep" \/ packages[t].completed
      /\ UNCHANGED <<settings, workers, queue, paused, pollers, owner, call, task, life, history>>
      /\ packages' = packages
  BY DEF pollReturns, At, pauseReturns
<1>2. PICK l : l \in {"polled"} /\ pc' = [pc EXCEPT ![t] = l]
  BY DEF pollReturns, Goto
<1>3. t \in Known /\ Worker(t) \in Workers /\ workers[Worker(t)] \in WorkerType(Known) /\ l \in PlacesOf(t)
  BY <1>1, <1>2, AwakeThread DEF Polls
<1>4. Resumes
  BY <1>1, <1>3 DEF Resumes, resume, WorkerType
<1>5. Workers' = Workers /\ Mutexes' = Mutexes /\ Known' = Known /\ UNCHANGED <<waits, restarts>>
  BY <1>1, <1>4, SameSettings, ResumesKnown DEF life, history
<1>6. WorkersTyped'
  BY <1>1, <1>5 DEF WorkersTyped
<1>7. OthersTyped' /\ handed' = handed
  BY <1>1, <1>5, OthersKept, OwnersSame
<1>8. l \notin Calls \union Waiting /\ pc[t] \notin Calls \union Waiting
      /\ \A m : Keeps(l, m) <=> Keeps(pc[t], m)
  BY <1>1, <1>2 DEF Calls, Waiting, Keeps, Polls
<1>9. /\ \A m \in Mutexes : owner'[m] = t <=> Keeps(l, m)
      /\ \A m \in Mutexes : \A b \in All \ {t} : owner'[m] = b <=> owner[m] = b
  BY <1>1, <1>8, HeldInEntry
<1>10. UNCHANGED <<settings, call, waits, restarts>>
  BY <1>1, <1>5
<1> QED
  BY <1>1, <1>2, <1>3, <1>4, <1>6, <1>7, <1>8, <1>9, <1>10, EntryTyped, ZenonT(60)

\* The test whether a poller was given a task keeps the types.
LEMMA TypedCheckBusy ==
  ASSUME Typed, NEW t \in Threads, checkBusy(t)
  PROVE  Typed'
<1> USE DEF Typed
<1>1. /\ pc[t] \in {"polled", "pollLock"}
      /\ pc[t] # "asleep" \/ packages[t].completed
      /\ UNCHANGED <<settings, workers, queue, paused, pollers, owner, call, task, life, history>>
      /\ packages' = packages
  BY DEF checkBusy, At, pauseReturns
<1>2. PICK l : l \in {"stopPolling", "poll", "pollLock"} /\ pc' = [pc EXCEPT ![t] = l]
  BY DEF checkBusy, Goto, GoesOn
<1>3. t \in Known /\ Worker(t) \in Workers /\ workers[Worker(t)] \in WorkerType(Known) /\ l \in PlacesOf(t)
  BY <1>1, <1>2, AwakeThread DEF Polls
<1>4. Resumes
  BY <1>1, <1>3 DEF Resumes, resume, WorkerType
<1>5. Workers' = Workers /\ Mutexes' = Mutexes /\ Known' = Known /\ UNCHANGED <<waits, restarts>>
  BY <1>1, <1>4, SameSettings, ResumesKnown DEF life, history
<1>6. WorkersTyped'
  BY <1>1, <1>5 DEF WorkersTyped
<1>7. OthersTyped' /\ handed' = handed
  BY <1>1, <1>5, OthersKept, OwnersSame
<1>8. l \notin Calls \union Waiting /\ pc[t] \notin Calls \union Waiting
      /\ \A m : Keeps(l, m) <=> Keeps(pc[t], m)
  BY <1>1, <1>2 DEF Calls, Waiting, Keeps, Polls
<1>9. /\ \A m \in Mutexes : owner'[m] = t <=> Keeps(l, m)
      /\ \A m \in Mutexes : \A b \in All \ {t} : owner'[m] = b <=> owner[m] = b
  BY <1>1, <1>8, HeldInEntry
<1>10. UNCHANGED <<settings, call, waits, restarts>>
  BY <1>1, <1>5
<1> QED
  BY <1>1, <1>2, <1>3, <1>4, <1>6, <1>7, <1>8, <1>9, <1>10, EntryTyped

\* The look for a task after a task keeps the types.
LEMMA TypedLookForWaiting ==
  ASSUME Typed, NEW t \in Threads, lookForWaiting(t)
  PROVE  Typed'
<1> USE DEF Typed
<1>1. /\ pc[t] = "loop" /\ pc[t] # "asleep" /\ pc[t] \notin Calls \union Waiting
      /\ UNCHANGED <<settings, workers, queue, paused, pollers, packages, call, task, life, history>>
      /\ Free(start) /\ Lock(start, t) /\ pc' = [pc EXCEPT ![t] = "look"]
  BY DEF lookForWaiting, At, Calls, Waiting, Goto
<1>2. /\ t \in Known /\ Worker(t) \in Workers /\ workers[Worker(t)] \in WorkerType(Known) /\ t \in All
      /\ "look" \in PlacesOf(t) /\ "look" \notin Calls \union Waiting
  BY <1>1, AwakeThread DEF Polls, Calls, Waiting
<1>3. Workers' = Workers /\ Mutexes' = Mutexes /\ Known' = Known /\ Resumes /\ UNCHANGED <<waits, restarts>>
  BY <1>1, SameSettings DEF Known, Created, Resumes, life, history
<1>4. \A m \in Mutexes : owner[m] = t <=> Keeps("loop", m)
  BY <1>1, HeldInEntry
<1>5. /\ owner' \in [Mutexes -> All \union {Nobody}]
      /\ \A m \in Mutexes : owner'[m] = t <=> Keeps("look", m)
      /\ \A m \in Mutexes : \A b \in All \ {t} : owner'[m] = b <=> owner[m] = b
  <2>1. start \in Mutexes
    BY WorkerNumbers DEF OthersTyped
  <2>2. /\ owner' \in [Mutexes -> All \union {Nobody}]
        /\ \A m \in Mutexes : owner'[m] = t <=> (m = start \/ owner[m] = t)
        /\ \A m \in Mutexes : \A b \in All \ {t} : owner'[m] = b <=> owner[m] = b
    BY <1>1, <1>2, <2>1, Locked
  <2>3. \A m : Keeps("look", m) <=> (m = start \/ Keeps("loop", m))
    BY DEF Keeps, Polls
  <2> QED
    BY <1>4, <2>2, <2>3
<1>6. WorkersTyped'
  BY <1>1, <1>3 DEF WorkersTyped
<1>7. OthersTyped' /\ handed' = handed
  BY <1>1, <1>3, <1>5, OthersKept
<1>8. UNCHANGED <<settings, call, waits, restarts>>
  BY <1>1, <1>3
<1> QED
  BY <1>1, <1>2, <1>3, <1>5, <1>6, <1>7, <1>8, EntryTyped

\* Handing a worker over to a thread that waited keeps the types.
LEMMA TypedHandOver ==
  ASSUME Typed, NEW t \in Threads, handOver(t)
  PROVE  Typed'
<1> USE DEF Typed
<1>1. /\ pc[t] = "look" /\ pc[t] # "asleep" /\ pc[t] \notin Calls \union Waiting
      /\ UNCHANGED <<settings, queue, paused, pollers, packages, call, task, life, history>>
      /\ Unlock({start}) /\ pc' = [pc EXCEPT ![t] = "handOver"]
      /\ workers[Worker(t)].waitingThreads # <<>>
      /\ workers' = [workers EXCEPT ![Worker(t)].activeThread = Head(workers[Worker(t)].waitingThreads),
                                    ![Worker(t)].waitingThreads = Tail(@),
                                    ![Worker(t)].idleThreads = Append(@, t)]
  BY DEF handOver, At, Calls, Waiting, Goto
<1>2. /\ t \in Known /\ Worker(t) \in Workers /\ workers[Worker(t)] \in WorkerType(Known) /\ t \in All
      /\ "handOver" \in PlacesOf(t) /\ "handOver" \notin Calls \union Waiting
  BY <1>1, AwakeThread DEF Polls, Calls, Waiting
<1>3. Workers' = Workers /\ Mutexes' = Mutexes /\ Known' = Known /\ Resumes /\ UNCHANGED <<waits, restarts>>
  BY <1>1, SameSettings DEF Known, Created, Resumes, life, history
<1>4. \A m \in Mutexes : owner[m] = t <=> Keeps("look", m)
  BY <1>1, HeldInEntry
<1>5. /\ owner' \in [Mutexes -> All \union {Nobody}]
      /\ \A m \in Mutexes : owner'[m] = t <=> Keeps("handOver", m)
      /\ \A m \in Mutexes : \A b \in All \ {t} : owner'[m] = b <=> owner[m] = b
  <2>1. start \in Mutexes /\ owner[start] = t
    BY <1>4, WorkerNumbers DEF OthersTyped, Keeps, Polls
  <2>2. /\ owner' \in [Mutexes -> All \union {Nobody}]
        /\ \A m \in Mutexes : owner'[m] = t <=> (m \notin {start} /\ owner[m] = t)
        /\ \A m \in Mutexes : \A b \in All \ {t} : owner'[m] = b <=> owner[m] = b
    <3>1. {start} \in SUBSET Mutexes /\ \A m \in {start} : owner[m] = t
      BY <2>1
    <3> QED
      BY <1>1, <1>2, <3>1, Unlocked
  <2>3. \A m \in Mutexes : Keeps("handOver", m) <=> (m # start /\ Keeps("look", m))
    BY MutexNames DEF Keeps, Polls, OthersTyped
  <2> QED
    BY <1>4, <2>2, <2>3
<1>6. WorkersTyped'
  <2> DEFINE w == Worker(t)
             r == [workers[w] EXCEPT !.activeThread = Head(workers[w].waitingThreads),
                                     !.waitingThreads = Tail(@), !.idleThreads = Append(@, t)]
  <2>1. workers[w].waitingThreads \in Seq(Known)
    BY <1>2 DEF WorkerType
  <2>2. Head(workers[w].waitingThreads) \in Known /\ Tail(workers[w].waitingThreads) \in Seq(Known)
    BY <1>1, <2>1
  <2>3. workers[w].idleThreads \in Seq(Known \ {Main}) /\ t \in Known \ {Main}
    BY <1>2, Names DEF WorkerType
  <2>4. Append(workers[w].idleThreads, t) \in Seq(Known \ {Main})
    BY <2>3
  <2>5. r \in WorkerType(Known)
    BY <1>2, <2>2, <2>4 DEF WorkerType
  <2>6. workers' = [workers EXCEPT ![w] = r]
    BY <1>1
  <2> HIDE DEF w, r
  <2>7. w \in Workers
    BY <1>2 DEF w
  <2> QED
    BY <1>3, <2>5, <2>6, <2>7, WorkersKept
<1>7. OthersTyped' /\ handed' = handed
  BY <1>1, <1>3, <1>5, OthersKept
<1>8. UNCHANGED <<settings, call, waits, restarts>>
  BY <1>1, <1>3
<1> QED
  BY <1>1, <1>2, <1>3, <1>5, <1>6, <1>7, <1>8, EntryTyped

\* A worker that becomes idle keeps the types.
LEMMA TypedGoIdle ==
  ASSUME Typed, NEW t \in Threads, goIdle(t)
  PROVE  Typed'
<1> USE DEF Typed
<1>1. /\ pc[t] = "look" /\ pc[t] # "asleep" /\ pc[t] \notin Calls \union Waiting
      /\ UNCHANGED <<settings, queue, paused, pollers, packages, call, task, life, history>>
      /\ Unlock({start}) /\ pc' = [pc EXCEPT ![t] = "idle"]
      /\ workers' = [workers EXCEPT ![Worker(t)] = [workers[Worker(t)] EXCEPT !.threadBusy = FALSE]]
  BY DEF goIdle, At, Calls, Waiting, Goto
<1>2. /\ t \in Known /\ Worker(t) \in Workers /\ workers[Worker(t)] \in WorkerType(Known) /\ t \in All
      /\ "idle" \in PlacesOf(t) /\ "idle" \notin Calls \union Waiting
  BY <1>1, AwakeThread DEF Polls, Calls, Waiting
<1>3. Workers' = Workers /\ Mutexes' = Mutexes /\ Known' = Known /\ Resumes /\ UNCHANGED <<waits, restarts>>
  BY <1>1, SameSettings DEF Known, Created, Resumes, life, history
<1>4. \A m \in Mutexes : owner[m] = t <=> Keeps("look", m)
  BY <1>1, HeldInEntry
<1>5. /\ owner' \in [Mutexes -> All \union {Nobody}]
      /\ \A m \in Mutexes : owner'[m] = t <=> Keeps("idle", m)
      /\ \A m \in Mutexes : \A b \in All \ {t} : owner'[m] = b <=> owner[m] = b
  <2>1. start \in Mutexes /\ owner[start] = t
    BY <1>4, WorkerNumbers DEF OthersTyped, Keeps, Polls
  <2>2. /\ owner' \in [Mutexes -> All \union {Nobody}]
        /\ \A m \in Mutexes : owner'[m] = t <=> (m \notin {start} /\ owner[m] = t)
        /\ \A m \in Mutexes : \A b \in All \ {t} : owner'[m] = b <=> owner[m] = b
    <3>1. {start} \in SUBSET Mutexes /\ \A m \in {start} : owner[m] = t
      BY <2>1
    <3> QED
      BY <1>1, <1>2, <3>1, Unlocked
  <2>3. \A m \in Mutexes : Keeps("idle", m) <=> (m # start /\ Keeps("look", m))
    BY MutexNames DEF Keeps, Polls, OthersTyped
  <2> QED
    BY <1>4, <2>2, <2>3
<1>6. WorkersTyped'
  <2>1. [workers[Worker(t)] EXCEPT !.threadBusy = FALSE] \in WorkerType(Known)
    BY <1>2, WorkerKept
  <2> QED
    BY <1>1, <1>2, <1>3, <2>1, WorkersKept
<1>7. OthersTyped' /\ handed' = handed
  BY <1>1, <1>3, <1>5, OthersKept
<1>8. UNCHANGED <<settings, call, waits, restarts>>
  BY <1>1, <1>3
<1> QED
  BY <1>1, <1>2, <1>3, <1>5, <1>6, <1>7, <1>8, EntryTyped

\* Tasks that are begun are counted.
LEMMA BegunTyped ==
  ASSUME NEW k, begun \in Seq(Nat)
  PROVE  [begun EXCEPT ![k] = @ + 1] \in Seq(Nat) /\ Len([begun EXCEPT ![k] = @ + 1]) = Len(begun)
<1>1. CASE k \in 1 .. Len(begun)
  <2>1. begun[k] + 1 \in Nat
    BY <1>1
  <2> QED
    BY <1>1, <2>1, ExceptSeq
<1>2. CASE k \notin 1 .. Len(begun)
  <2>1. begun = [i \in 1 .. Len(begun) |-> begun[i]]
    OBVIOUS
  <2>2. [begun EXCEPT ![k] = @ + 1] = begun
    BY <1>2, <2>1
  <2> QED
    BY <2>2
<1> QED
  BY <1>1, <1>2

\* A thread that was woken looks for its command, and keeps the types.
LEMMA TypedIssue ==
  ASSUME Typed, NEW t \in Threads, issueFunctionCall(t)
  PROVE  Typed'
<1> USE DEF Typed
<1> DEFINE w == Worker(t)
           k == workers[w].data
<1>1. /\ pc[t] = "command" /\ pc[t] # "asleep" /\ pc[t] \notin Calls \union Waiting
      /\ UNCHANGED <<settings, queue, paused, pollers, packages, owner, call, life, due, waits>>
  BY DEF issueFunctionCall, At, Calls, Waiting
<1>2. /\ t \in Known /\ w \in Workers /\ workers[w] \in WorkerType(Known) /\ t \in All
      /\ \A l \in {"task", "loop"} : l \in PlacesOf(t) /\ l \notin Calls \union Waiting
  BY <1>1, AwakeThread DEF Polls, Calls, Waiting
<1>3. /\ Workers' = Workers /\ Mutexes' = Mutexes /\ Known' = Known /\ Resumes
      /\ UNCHANGED <<settings, call, waits, restarts>>
  BY <1>1, SameSettings DEF Known, Created, Resumes, life
<1>4. /\ \A l \in {"task", "loop"} : \A m \in Mutexes : owner'[m] = t <=> Keeps(l, m)
      /\ \A m \in Mutexes : \A b \in All \ {t} : owner'[m] = b <=> owner[m] = b
      /\ owner' \in [Mutexes -> All \union {Nobody}]
  <2>1. \A m \in Mutexes : owner[m] = t <=> Keeps("command", m)
    BY <1>1, HeldInEntry
  <2>2. \A l \in {"task", "loop"} : \A m : Keeps(l, m) <=> Keeps("command", m)
    BY DEF Keeps, Polls
  <2> QED
    BY <1>1, <2>1, <2>2, OwnersSame
<1>5. CASE workers[w].callFunction
  <2>1. /\ workers' = [workers EXCEPT ![w] = [workers[w] EXCEPT !.callFunction = FALSE]]
        /\ task' = [task EXCEPT ![t] = k] /\ begun' = [begun EXCEPT ![k] = @ + 1]
        /\ pc' = [pc EXCEPT ![t] = "task"]
    BY <1>5 DEF issueFunctionCall, Begin, Goto
  <2>2. WorkersTyped'
    <3>1. [workers[w] EXCEPT !.callFunction = FALSE] \in WorkerType(Known)
      BY <1>2, WorkerKept
    <3> QED
      BY <1>2, <1>3, <2>1, <3>1, WorkersKept
  <2>3. begun' \in Seq(Nat) /\ handed' = handed
    BY <2>1, BegunTyped DEF OthersTyped, handed
  <2>4. task' \in [All -> 0 .. MaxTasks]
    BY <1>2, <2>1 DEF WorkerType, OthersTyped
  <2>5. OthersTyped'
    BY <1>1, <1>3, <1>4, <2>3, <2>4 DEF OthersTyped, queue, paused, pollers, life
  <2> QED
    BY <1>1, <1>2, <1>3, <1>4, <2>1, <2>2, <2>3, <2>5, EntryTyped
<1>6. CASE ~workers[w].callFunction
  <2>1. pc' = [pc EXCEPT ![t] = "loop"] /\ UNCHANGED <<workers, task, begun>>
    BY <1>6 DEF issueFunctionCall, Goto
  <2>2. WorkersTyped'
    BY <1>3, <2>1 DEF WorkersTyped
  <2>3. OthersTyped' /\ handed' = handed
    BY <1>1, <1>3, <1>4, <2>1, OthersKept DEF history
  <2> QED
    BY <1>1, <1>2, <1>3, <1>4, <2>1, <2>2, <2>3, EntryTyped
<1> QED
  BY <1>5, <1>6

\* Taking a task from the queue keeps the types.
LEMMA TypedTake ==
  ASSUME Typed, NEW t \in Threads, takeFromQueue(t)
  PROVE  Typed'
<1> USE DEF Typed
<1> DEFINE k == Head(threadQueue)
<1>1. /\ pc[t] = "loop" /\ pc[t] # "asleep" /\ pc[t] \notin Calls \union Waiting
      /\ UNCHANGED <<settings, workers, next_suggested_idle_thread, paused, pollers, packages, owner, call,
                     life, due, waits>>
      /\ threadQueue # <<>> /\ threadQueue' = Tail(threadQueue)
      /\ task' = [task EXCEPT ![t] = k] /\ begun' = [begun EXCEPT ![k] = @ + 1]
      /\ pc' = [pc EXCEPT ![t] = "task"]
  BY DEF takeFromQueue, At, Calls, Waiting, Popped, Begin, Goto
<1>2. /\ t \in Known /\ t \in All /\ "task" \in PlacesOf(t) /\ "task" \notin Calls \union Waiting
  BY <1>1, AwakeThread DEF Polls, Calls, Waiting
<1>3. /\ Workers' = Workers /\ Mutexes' = Mutexes /\ Known' = Known /\ Resumes
      /\ UNCHANGED <<settings, call, waits, restarts>>
  BY <1>1, SameSettings DEF Known, Created, Resumes, life
<1>4. /\ \A m \in Mutexes : owner'[m] = t <=> Keeps("task", m)
      /\ \A m \in Mutexes : \A b \in All \ {t} : owner'[m] = b <=> owner[m] = b
      /\ owner' \in [Mutexes -> All \union {Nobody}]
  <2>1. \A m \in Mutexes : owner[m] = t <=> Keeps("loop", m)
    BY <1>1, HeldInEntry
  <2>2. \A m : Keeps("task", m) <=> Keeps("loop", m)
    BY DEF Keeps, Polls
  <2> QED
    BY <1>1, <2>1, <2>2, OwnersSame
<1>5. WorkersTyped'
  BY <1>1, <1>3 DEF WorkersTyped
<1>6. k \in 1 .. MaxTasks /\ Tail(threadQueue) \in Seq(1 .. MaxTasks)
  <2>1. threadQueue \in Seq(1 .. MaxTasks)
    BY DEF OthersTyped
  <2> QED
    BY <1>1, <2>1, HeadTail
<1>7. begun' \in Seq(Nat) /\ handed' = handed
  BY <1>1, BegunTyped DEF OthersTyped, handed
<1>8. task' \in [All -> 0 .. MaxTasks]
  BY <1>1, <1>2, <1>6, BoundsAssumption DEF OthersTyped
<1>9. OthersTyped'
  BY <1>1, <1>3, <1>4, <1>6, <1>7, <1>8 DEF OthersTyped, paused, pollers, life
<1> QED
  BY <1>1, <1>2, <1>3, <1>4, <1>5, <1>7, <1>9, EntryTyped

\* The start of polling keeps the types.
LEMMA TypedStartPolling ==
  ASSUME Typed, NEW t \in Threads, startPolling(t)
  PROVE  Typed'
<1> USE DEF Typed
<1>1. /\ pc[t] = "idle" /\ pc[t] # "asleep" /\ pc[t] \notin Calls \union Waiting
      /\ UNCHANGED <<settings, workers, queue, paused, restartAnotherPoller, packages, call, task,
                     life, history>>
  BY DEF startPolling, At, Calls, Waiting
<1>2. /\ t \in Known /\ Worker(t) \in Workers /\ t \in All
      /\ \A l \in {"poll", "asleep"} : l \in PlacesOf(t) /\ l \notin Calls \union Waiting
  BY <1>1, AwakeThread DEF Polls, Calls, Waiting
<1>3. /\ Workers' = Workers /\ Mutexes' = Mutexes /\ Known' = Known /\ Resumes /\ handed' = handed
      /\ UNCHANGED <<settings, call, waits, restarts>>
  BY <1>1, SameSettings DEF Known, Created, Resumes, life, history, handed
<1>4. \A m \in Mutexes : owner[m] = t <=> Keeps("idle", m)
  BY <1>1, HeldInEntry
<1>5. WorkersTyped'
  BY <1>1, <1>3 DEF WorkersTyped
<1>6. CASE progressPollIdleThread /\ pc[Main] # "init" /\ Free(progress)
  <2>1. /\ Lock(progress, t) /\ pollingProgressThread' = Worker(t) /\ pc' = [pc EXCEPT ![t] = "poll"]
    BY <1>6 DEF startPolling, Goto
  <2>2. progress \in Mutexes
    BY WorkerNumbers DEF OthersTyped
  <2>3. /\ owner' \in [Mutexes -> All \union {Nobody}]
        /\ \A m \in Mutexes : owner'[m] = t <=> (m = progress \/ owner[m] = t)
        /\ \A m \in Mutexes : \A b \in All \ {t} : owner'[m] = b <=> owner[m] = b
    BY <1>1, <1>2, <1>6, <2>1, <2>2, Locked
  <2>4. \A m : Keeps("poll", m) <=> (m = progress \/ Keeps("idle", m))
    BY DEF Keeps, Polls
  <2>5. \A m \in Mutexes : owner'[m] = t <=> Keeps("poll", m)
    BY <1>4, <2>3, <2>4
  <2>6. OthersTyped'
    BY <1>1, <1>2, <1>3, <2>1, <2>3 DEF OthersTyped, queue, paused, life, history
  <2> QED
    BY <1>1, <1>2, <1>3, <1>5, <2>1, <2>3, <2>5, <2>6, EntryTyped
<1>7. CASE ~(progressPollIdleThread /\ pc[Main] # "init" /\ Free(progress))
  <2>1. pc' = [pc EXCEPT ![t] = "asleep"] /\ UNCHANGED <<owner, pollingProgressThread>>
    BY <1>7 DEF startPolling, Goto
  <2>2. \A m \in Mutexes : owner'[m] = t <=> Keeps("asleep", m)
    BY <1>4, <2>1 DEF Keeps, Polls
  <2>3. OthersTyped'
    BY <1>1, <1>3, <2>1, OthersKept, OwnersSame DEF pollers
  <2> QED
    BY <1>1, <1>2, <1>3, <1>5, <2>1, <2>2, <2>3, EntryTyped
<1> QED
  BY <1>6, <1>7

\* The end of polling keeps the types.
LEMMA TypedStopPolling ==
  ASSUME Typed, NEW t \in Threads, stopPolling(t)
  PROVE  Typed'
<1> USE DEF Typed
<1>1. /\ pc[t] = "stopPolling" /\ pc[t] # "asleep" /\ pc[t] \notin Calls \union Waiting
      /\ UNCHANGED <<settings, workers, queue, paused, packages, task, life, history>>
      /\ pollingProgressThread' = NoWorker /\ restartAnotherPoller' = FALSE /\ Unlock({progress})
  BY DEF stopPolling, At, Calls, Waiting
<1>2. /\ t \in Known /\ Created(t) /\ t \in All /\ t # Main /\ t # Progress
      /\ "launch" \in PlacesOf(t) /\ "asleep" \in PlacesOf(t) /\ "asleep" \notin Calls \union Waiting
  BY <1>1, AwakeThread DEF Calls, Waiting
<1>3. /\ Workers' = Workers /\ Mutexes' = Mutexes /\ Known' = Known /\ Resumes /\ handed' = handed
      /\ UNCHANGED <<settings, waits, restarts>>
  BY <1>1, SameSettings DEF Known, Created, Resumes, life, history, handed
<1>4. \A m \in Mutexes : owner[m] = t <=> Keeps("stopPolling", m)
  BY <1>1, HeldInEntry
<1>5. WorkersTyped'
  BY <1>1, <1>3 DEF WorkersTyped
<1>6. /\ owner' \in [Mutexes -> All \union {Nobody}]
      /\ \A m \in Mutexes : owner'[m] # t
      /\ \A m \in Mutexes : \A b \in All \ {t} : owner'[m] = b <=> owner[m] = b
  <2>1. progress \in Mutexes /\ owner[progress] = t
    BY <1>4, WorkerNumbers DEF OthersTyped, Keeps, Polls
  <2>2. {progress} \in SUBSET Mutexes /\ \A m \in {progress} : owner[m] = t
    BY <2>1
  <2>3. /\ owner' \in [Mutexes -> All \union {Nobody}]
        /\ \A m \in Mutexes : owner'[m] = t <=> (m \notin {progress} /\ owner[m] = t)
        /\ \A m \in Mutexes : \A b \in All \ {t} : owner'[m] = b <=> owner[m] = b
    BY <1>1, <1>2, <2>2, Unlocked
  <2> QED
    BY <1>4, <2>3 DEF Keeps
<1>7. OthersTyped'
  BY <1>1, <1>3, <1>6 DEF OthersTyped, queue, paused, life, history
<1>8. CASE restartAnotherPoller
  <2>1. /\ pc' = [pc EXCEPT ![t] = "launch"]
        /\ call' = [call EXCEPT ![t] = [arg |-> NoTask, worker |-> NoWorker, back |-> "asleep"]]
    BY <1>8 DEF stopPolling, Call, Goto
  <2>2. NoTask \in 0 .. MaxTasks /\ "asleep" \in Labels
    BY BoundsAssumption DEF NoTask, Labels
  <2>3. Moves(t, "launch")
    BY <1>1, <1>2, <1>3, <2>1, <2>2 DEF Moves, CallsTyped
  <2>4. pc'[t] = "launch" /\ call'[t].back = "asleep"
    BY <1>2, <2>1, <2>3, MovedPlaces DEF CallsTyped
  <2>5. CallTyped(t)'
    BY <1>2, <2>4 DEF CallTyped, BacksOf, Waiting, Writing
  <2>6. \A m \in Mutexes : ~Holds(t, m)'
    BY <2>4 DEF Holds, Polling, InCall, Polls
  <2>7. Ordinary(t, "launch")
    BY <1>2, <1>3, <2>3 DEF Ordinary
  <2> QED
    BY <1>2, <1>3, <1>5, <1>6, <1>7, <2>5, <2>6, <2>7, OrdinaryTyped
<1>9. CASE ~restartAnotherPoller
  <2>1. pc' = [pc EXCEPT ![t] = "asleep"] /\ call' = call
    BY <1>9 DEF stopPolling, Goto
  <2>2. \A m \in Mutexes : owner'[m] = t <=> Keeps("asleep", m)
    BY <1>6 DEF Keeps, Polls
  <2> QED
    BY <1>1, <1>2, <1>3, <1>5, <1>6, <1>7, <2>1, <2>2, EntryTyped
<1> QED
  BY <1>8, <1>9 DEF OthersTyped

-----------------------------------------------------------------------------
(* The callers of the pool                                                 *)

\* Who calls: a task, the main thread, or who polls.
Caller(a) == pc[a] \in {"task", "poll"}
BackOf(a) == IF pc[a] = "task" THEN "task" ELSE Polled(a)

\* What holds of a thread that calls the pool.
LEMMA CallerFacts ==
  ASSUME Typed, NEW a \in All, Caller(a)
  PROVE  /\ a \in Threads => Created(a)
         /\ pc[a] = "task" => a # Progress /\ a \in Known
         /\ pc[a] = "poll" => a # Main
         /\ BackOf(a) \in BacksOf(a) /\ BackOf(a) \in PlacesOf(a) /\ BackOf(a) \in Labels
         /\ \A l \in {"start", "mark"} : l \in PlacesOf(a)
         /\ \A m \in Mutexes : owner[m] = a <=> (m = progress /\ a \in Threads /\ BackOf(a) = "polled")
<1> USE DEF Typed, Caller
<1>1. a \in Threads => Created(a)
  BY DEF Fresh
<1>2. pc[a] = "task" => a # Progress
  <2>1. "task" \notin PlacesOf(Progress)
    BY Names DEF PlacesOf, Calls
  <2> QED
    BY <2>1 DEF PlacesTyped
<1>3. pc[a] = "poll" => a # Main
  <2>1. "poll" \notin PlacesOf(Main)
    BY DEF PlacesOf, Calls, Waiting
  <2> QED
    BY <2>1 DEF PlacesTyped
<1>4. BackOf(a) \in BacksOf(a)
  BY <1>2, <1>3 DEF BackOf, BacksOf, Polled
<1>5. \A l \in {"start", "mark"} : l \in PlacesOf(a)
  BY DEF PlacesOf, Calls
<1>6. \A m \in Mutexes : owner[m] = a <=> (m = progress /\ a \in Threads /\ BackOf(a) = "polled")
  <2>1. \A m : Holds(a, m) <=> (m = progress /\ a \in Threads /\ Polling(a))
    BY DEF Holds
  <2>2. a \in Threads => (Polling(a) <=> BackOf(a) = "polled")
    BY Names DEF Polling, InCall, Calls, Polls, BackOf, Polled
  <2> QED
    BY <2>1, <2>2 DEF Owners
<1>7. a \in Known \/ a = Progress
  BY <1>1, Names DEF Known
<1> QED
  BY <1>1, <1>2, <1>3, <1>4, <1>5, <1>6, <1>7, Places

\* A call of startThread keeps the types.
LEMMA TypedSubmit ==
  ASSUME Typed, NEW a \in All, Caller(a), submit(a, BackOf(a))
  PROVE  Typed'
<1> USE DEF Typed
<1> DEFINE f == [arg |-> handed + 1, worker |-> NoWorker, back |-> BackOf(a)]
<1>1. /\ handed < MaxTasks /\ begun' = Append(begun, 0)
      /\ pc' = [pc EXCEPT ![a] = "start"] /\ call' = [call EXCEPT ![a] = f]
      /\ UNCHANGED <<settings, workers, queue, paused, pollers, packages, owner, task, life, due, waits>>
  BY DEF submit, Call, Goto
<1>2. /\ (a \in Threads => Created(a)) /\ BackOf(a) \in BacksOf(a) /\ BackOf(a) \in Labels
      /\ "start" \in PlacesOf(a)
      /\ \A m \in Mutexes : owner[m] = a <=> (m = progress /\ a \in Threads /\ BackOf(a) = "polled")
  BY CallerFacts
<1>3. /\ Workers' = Workers /\ Mutexes' = Mutexes /\ Known' = Known /\ Resumes
      /\ UNCHANGED <<settings, waits, restarts>>
  BY <1>1, SameSettings DEF Known, Created, Resumes, life
<1>4. begun' \in Seq(Nat) /\ handed' = handed + 1 /\ handed \in Nat /\ handed' <= MaxTasks
  BY <1>1, BoundsAssumption DEF OthersTyped, handed
<1>5. WorkersTyped'
  BY <1>1, <1>3 DEF WorkersTyped
<1>6. OthersTyped'
  BY <1>1, <1>3, <1>4 DEF OthersTyped, queue, paused, pollers, life
<1>7. f \in [arg : All \union (0 .. MaxTasks), worker : Workers \union {NoWorker}, back : Labels]
  BY <1>2, <1>4
<1>8. Moves(a, "start")
  BY <1>1, <1>2, <1>3, <1>7 DEF Moves, CallsTyped
<1>9. pc'[a] = "start" /\ call'[a] = f
  BY <1>1, <1>8, MovedPlaces DEF CallsTyped
<1>10. CallTyped(a)'
  BY <1>2, <1>4, <1>9 DEF CallTyped, Calls, Waiting, Writing, BacksOf
<1>11. \A m \in Mutexes : Holds(a, m)' <=> owner'[m] = a
  BY <1>1, <1>2, <1>3, <1>9 DEF Holds, Polling, InCall, Calls, Polls
<1>12. Ordinary(a, "start")
  <2>1. a = Main => ~Left
    BY DEF Left, InCall, Calls, Caller
  <2> QED
    BY <1>2, <1>3, <1>8, <2>1 DEF Ordinary
<1> QED
  BY <1>1, <1>4, <1>5, <1>6, <1>10, <1>11, <1>12, OrdinaryTyped

\* A call of markThreadResume keeps the types.
LEMMA TypedFire ==
  ASSUME Typed, NEW a \in All, Caller(a), fire(a, BackOf(a))
  PROVE  Typed'
<1> USE DEF Typed
<1>1. PICK d \in due : due' = due \ {d} /\ Call(a, "mark", d, BackOf(a))
  BY DEF fire
<1> DEFINE f == [arg |-> d, worker |-> NoWorker, back |-> BackOf(a)]
<1>2. /\ pc' = [pc EXCEPT ![a] = "mark"] /\ call' = [call EXCEPT ![a] = f]
      /\ UNCHANGED <<settings, workers, queue, paused, pollers, packages, owner, task, life, begun, waits>>
  BY <1>1 DEF fire, Call, Goto
<1>3. /\ (a \in Threads => Created(a)) /\ BackOf(a) \in BacksOf(a) /\ BackOf(a) \in Labels
      /\ "mark" \in PlacesOf(a)
      /\ \A m \in Mutexes : owner[m] = a <=> (m = progress /\ a \in Threads /\ BackOf(a) = "polled")
  BY CallerFacts
<1>4. /\ Workers' = Workers /\ Mutexes' = Mutexes /\ Known' = Known /\ Resumes /\ handed' = handed
      /\ UNCHANGED <<settings, waits, restarts>>
  BY <1>2, SameSettings DEF Known, Created, Resumes, life, handed
<1>5. d \in Known /\ d \in All
  BY Names DEF OthersTyped, Known
<1>6. WorkersTyped'
  BY <1>2, <1>4 DEF WorkersTyped
<1>7. OthersTyped'
  BY <1>1, <1>2, <1>4 DEF OthersTyped, queue, paused, pollers, life
<1>8. f \in [arg : All \union (0 .. MaxTasks), worker : Workers \union {NoWorker}, back : Labels]
  BY <1>3, <1>5
<1>9. Moves(a, "mark")
  BY <1>2, <1>3, <1>4, <1>8 DEF Moves, CallsTyped
<1>10. pc'[a] = "mark" /\ call'[a] = f
  BY <1>2, <1>9, MovedPlaces DEF CallsTyped
<1>11. CallTyped(a)'
  BY <1>3, <1>4, <1>5, <1>10 DEF CallTyped, Calls, Waiting, Writing, BacksOf
<1>12. \A m \in Mutexes : Holds(a, m)' <=> owner'[m] = a
  BY <1>2, <1>3, <1>4, <1>10 DEF Holds, Polling, InCall, Calls, Polls
<1>13. Ordinary(a, "mark")
  <2>1. a = Main => ~Left
    BY DEF Left, InCall, Calls, Caller
  <2> QED
    BY <1>3, <1>4, <1>9, <2>1 DEF Ordinary
<1> QED
  BY <1>2, <1>4, <1>6, <1>7, <1>11, <1>12, <1>13, OrdinaryTyped

\* A call of pauseThread keeps the types.
LEMMA TypedWait ==
  ASSUME Typed, NEW a \in All, pc[a] = "task", edatWait(a)
  PROVE  Typed'
<1> USE DEF Typed
<1> DEFINE f == [arg |-> NoTask, worker |-> NoWorker, back |-> "task"]
<1>1. /\ waits < MaxWaits /\ waits' = waits + 1 /\ Free(Scheduler) /\ Lock(Scheduler, a)
      /\ pc' = [pc EXCEPT ![a] = "pause"] /\ call' = [call EXCEPT ![a] = f]
      /\ UNCHANGED <<settings, workers, queue, paused, pollers, packages, task, life, begun, due>>
  BY DEF edatWait, Call, Goto
<1>2. /\ (a \in Threads => Created(a)) /\ a # Progress /\ a \in Known
      /\ \A m \in Mutexes : owner[m] # a
  BY CallerFacts DEF Caller, BackOf
<1>3. /\ Workers' = Workers /\ Mutexes' = Mutexes /\ Known' = Known /\ Resumes /\ handed' = handed
      /\ UNCHANGED <<settings, restarts>>
  BY <1>1, SameSettings DEF Known, Created, Resumes, life, handed
<1>4. Scheduler \in Mutexes
  BY WorkerNumbers DEF OthersTyped
<1>5. /\ owner' \in [Mutexes -> All \union {Nobody}]
      /\ \A m \in Mutexes : owner'[m] = a <=> (m = Scheduler \/ owner[m] = a)
      /\ \A m \in Mutexes : \A b \in All \ {a} : owner'[m] = b <=> owner[m] = b
  BY <1>1, <1>4, Locked
<1>6. WorkersTyped'
  BY <1>1, <1>3 DEF WorkersTyped
<1>7. OthersTyped'
  <2>1. waits' \in 0 .. MaxWaits
    BY <1>1, BoundsAssumption DEF OthersTyped
  <2> QED
    BY <1>1, <1>3, <1>5, <2>1 DEF OthersTyped, queue, paused, pollers, life
<1>8. f \in [arg : All \union (0 .. MaxTasks), worker : Workers \union {NoWorker}, back : Labels]
  BY BoundsAssumption DEF NoTask, Labels
<1>9. Moves(a, "pause")
  <2>1. "pause" \in PlacesOf(a)
    BY <1>2 DEF PlacesOf, Waiting
  <2> QED
    BY <1>1, <1>3, <1>8, <2>1 DEF Moves, CallsTyped
<1>10. /\ pc'[a] = "pause" /\ call'[a] = f /\ PlacesTyped'
       /\ \A b \in All \ {a} : pc'[b] = pc[b]
  BY <1>1, <1>9, MovedPlaces DEF CallsTyped
<1>11. CallTyped(a)'
  BY <1>10 DEF CallTyped, Calls, Waiting, Writing
<1>12. CallsTyped'
  BY <1>3, <1>9, <1>11, MovedCalls DEF OthersTyped, handed
<1>13. Owners'
  <2>1. \A m \in Mutexes : Holds(a, m)' <=> owner'[m] = a
    BY <1>2, <1>3, <1>5, <1>10 DEF Holds, Polling, InCall, Calls, Polls
  <2> QED
    BY <1>5, <1>9, <2>1, MovedOwners
<1>14. PackagesTyped' /\ \A t \in Threads : Created(t)' <=> Created(t)
  BY <1>1, <1>3 DEF PackagesTyped, Created
<1>15. Fresh'
  BY <1>1, <1>2, <1>10, <1>14, Names DEF Fresh
<1>16. Pending = 0 /\ Pending' = 1 /\ (Left' <=> Left)
  <2>1. \A b \in All : pc[b] \notin {"pause", "pauseActive"}
    BY <1>1, <1>4, Names DEF Owners, Holds, Free
  <2>2. a = Main => (Left' <=> Left)
    BY <1>10 DEF Left, InCall, Calls
  <2>3. a # Main => (Left' <=> Left)
    BY <1>1, <1>9, <1>10, Names DEF Left, InCall, Moves
  <2> QED
    BY <1>10, <2>1, <2>2, <2>3 DEF Pending
<1>17. Bound' = Bound
  <2>1. Bound' = settings.workers + (waits + 1) + restarts - 1 - (IF settings.mainIsWorker /\ ~Left THEN 1 ELSE 0)
    BY <1>1, <1>3, <1>16 DEF Bound
  <2> QED
    BY <1>16, <2>1, BoundFacts
<1>18. CreatedTyped'
  <2>1. 0 \in Threads
    BY WorkerNumbers DEF OthersTyped
  <2>2. Pending' <= waits'
    BY <1>1, <1>16, BoundFacts
  <2> QED
    BY <1>3, <1>14, <1>17, <2>1, <2>2 DEF CreatedTyped
<1> QED
  BY <1>6, <1>7, <1>10, <1>12, <1>13, <1>14, <1>15, <1>18

\* The end of a task keeps the types.
LEMMA TypedTaskEnds ==
  ASSUME Typed, NEW t \in Threads, pc[t] = "task", taskEnds(t)
  PROVE  Typed'
<1> USE DEF Typed
<1>1. /\ pc[t] # "asleep" /\ pc[t] \notin Calls \union Waiting /\ pc' = [pc EXCEPT ![t] = "loop"]
      /\ task' = [task EXCEPT ![t] = NoTask]
      /\ UNCHANGED <<settings, workers, queue, paused, pollers, packages, owner, call, life, history>>
  BY DEF taskEnds, Goto, Calls, Waiting
<1>2. t \in Known /\ t \in All /\ "loop" \in PlacesOf(t) /\ "loop" \notin Calls \union Waiting
  BY <1>1, AwakeThread DEF Calls, Waiting
<1>3. /\ Workers' = Workers /\ Mutexes' = Mutexes /\ Known' = Known /\ Resumes /\ handed' = handed
      /\ UNCHANGED <<settings, call, waits, restarts>>
  BY <1>1, SameSettings DEF Known, Created, Resumes, life, history, handed
<1>4. /\ \A m \in Mutexes : owner'[m] = t <=> Keeps("loop", m)
      /\ \A m \in Mutexes : \A b \in All \ {t} : owner'[m] = b <=> owner[m] = b
  <2>1. \A m \in Mutexes : owner[m] = t <=> Keeps("task", m)
    BY <1>1, HeldInEntry
  <2> QED
    BY <1>1, <2>1 DEF Keeps, Polls
<1>5. WorkersTyped'
  BY <1>1, <1>3 DEF WorkersTyped
<1>6. OthersTyped'
  <2>2. task \in [All -> 0 .. MaxTasks]
    BY DEF OthersTyped
  <2>3. NoTask \in 0 .. MaxTasks
    BY BoundsAssumption DEF NoTask
  <2>1. task' \in [All -> 0 .. MaxTasks]
    BY ONLY <1>1, <2>2, <2>3
  <2> QED
    BY <1>1, <1>3, <2>1 DEF OthersTyped, queue, paused, pollers, life, history
<1> QED
  BY <1>1, <1>2, <1>3, <1>4, <1>5, <1>6, EntryTyped

\* A step of the main thread outside of the functions that others call too.
LEMMA MainTyped ==
  ASSUME Typed, pc[Main] \in {"init", "task", "notify", "sleep", "reset"},
         NEW l \in {"task", "notify", "sleep", "finalised", "launch"},
         pc' = [pc EXCEPT ![Main] = l],
         \/ l # "launch" /\ call' = call
         \/ l = "launch" /\ \E back \in {"task", "sleep"} :
                call' = [call EXCEPT ![Main] = [arg |-> NoTask, worker |-> NoWorker, back |-> back]],
         UNCHANGED <<settings, waits, restarts, owner>>, Resumes, handed' = handed,
         OthersTyped', WorkersTyped', Left => Left'
  PROVE  Typed'
<1> USE DEF Typed
<1>1. Main \in All /\ Main \notin Threads
  BY Names
<1>2. Moves(Main, l)
  <2>1. l \in PlacesOf(Main)
    BY DEF PlacesOf, Calls
  <2>2. Workers' = Workers
    BY SameSettings
  <2>3. NoTask \in 0 .. MaxTasks /\ "task" \in Labels /\ "sleep" \in Labels
    BY BoundsAssumption DEF NoTask, Labels
  <2>4. call \in [All -> [arg : All \union (0 .. MaxTasks), worker : Workers \union {NoWorker}, back : Labels]]
    BY DEF CallsTyped
  <2>5. call' \in [All -> [arg : All \union (0 .. MaxTasks), worker : Workers \union {NoWorker}, back : Labels]]
    BY <1>1, <2>3, <2>4
  <2>6. \A b \in All \ {Main} : call'[b] = call[b]
    BY <1>1, <2>4
  <2> QED
    BY <2>1, <2>2, <2>5, <2>6 DEF Moves
<1>3. pc'[Main] = l /\ (l = "launch" => call'[Main].back \in {"task", "sleep"})
  BY <1>1, <1>2, MovedPlaces DEF CallsTyped
<1>4. CallTyped(Main)'
  BY <1>3 DEF CallTyped, Calls, Waiting, Writing, BacksOf
<1>5. \A m \in Mutexes : ~Holds(Main, m)' /\ ~Holds(Main, m)
  BY <1>1, <1>3 DEF Holds
<1>6. Ordinary(Main, l)
  BY <1>1, <1>2 DEF Ordinary
<1> QED
  BY <1>1, <1>4, <1>5, <1>6, OrdinaryTyped DEF Owners

\* The main thread that becomes a worker keeps the types.
LEMMA TypedAttach ==
  ASSUME Typed, pc[Main] = "task", attachMainThread
  PROVE  Typed'
<1> USE DEF Typed
<1>1. /\ pc' = [pc EXCEPT ![Main] = "notify"]
      /\ UNCHANGED <<settings, workers, queue, paused, pollers, packages, owner, call, task, finished,
                     restarts, history>>
  BY DEF attachMainThread, Goto
<1>2. /\ Workers' = Workers /\ Mutexes' = Mutexes /\ Known' = Known /\ Resumes /\ handed' = handed
      /\ UNCHANGED <<settings, waits, restarts>>
  BY <1>1, SameSettings DEF Known, Created, Resumes, history, handed
<1>3. WorkersTyped' /\ OthersTyped'
  BY <1>1, <1>2 DEF WorkersTyped, OthersTyped, queue, paused, pollers, history
<1>4. ~Left
  BY DEF Left, InCall, Calls
<1> QED
  BY <1>1, <1>2, <1>3, <1>4, MainTyped

\* setMessaging keeps the types.
LEMMA TypedSetMessaging ==
  ASSUME Typed, setMessaging
  PROVE  Typed'
<1> USE DEF Typed
<1>1. /\ pc[Main] = "init"
      /\ UNCHANGED <<settings, workers, queue, paused, pollers, packages, owner, task, life, history>>
      /\ \/ /\ pc' = [pc EXCEPT ![Main] = "launch"]
            /\ call' = [call EXCEPT ![Main] = [arg |-> NoTask, worker |-> NoWorker, back |-> "task"]]
         \/ pc' = [pc EXCEPT ![Main] = "task"] /\ call' = call
  BY DEF setMessaging, At, Call, Goto
<1>2. /\ Workers' = Workers /\ Mutexes' = Mutexes /\ Known' = Known /\ Resumes /\ handed' = handed
      /\ UNCHANGED <<settings, waits, restarts, owner>>
  BY <1>1, SameSettings DEF Known, Created, Resumes, history, life, handed
<1>3. WorkersTyped'
  BY <1>1, <1>2 DEF WorkersTyped
<1>4. OthersTyped'
  BY <1>1, <1>2, OthersKept, OwnersSame
<1>5. ~Left
  BY <1>1 DEF Left, InCall, Calls
<1> QED
  BY <1>1, <1>2, <1>3, <1>4, <1>5, MainTyped

\* The return of the main thread keeps the types.
LEMMA TypedWoken ==
  ASSUME Typed, mainThreadWoken
  PROVE  Typed'
<1> USE DEF Typed
<1>1. /\ pc[Main] = "sleep" /\ pc' = [pc EXCEPT ![Main] = "finalised"]
      /\ UNCHANGED <<settings, workers, queue, paused, pollers, packages, owner, call, task, life, history>>
  BY DEF mainThreadWoken, At, Goto
<1>2. /\ Workers' = Workers /\ Mutexes' = Mutexes /\ Known' = Known /\ Resumes /\ handed' = handed
      /\ UNCHANGED <<settings, waits, restarts, owner>>
  BY <1>1, SameSettings DEF Known, Created, Resumes, history, life, handed
<1>3. WorkersTyped'
  BY <1>1, <1>2 DEF WorkersTyped
<1>4. OthersTyped'
  BY <1>1, <1>2, OthersKept, OwnersSame
<1>5. Left'
  BY <1>1, Names DEF Left, PlacesTyped
<1> QED
  BY <1>1, <1>2, <1>3, <1>4, <1>5, MainTyped

\* resetPolling keeps the types.
LEMMA TypedReset ==
  ASSUME Typed, resetPolling
  PROVE  Typed'
<1> USE DEF Typed
<1>1. /\ pc[Main] = "reset"
      /\ UNCHANGED <<settings, queue, paused, pollers, owner, task, life, history>>
      /\ \/ /\ pc' = [pc EXCEPT ![Main] = "launch"]
            /\ call' = [call EXCEPT ![Main] = [arg |-> NoTask, worker |-> NoWorker, back |-> "task"]]
         \/ pc' = [pc EXCEPT ![Main] = "task"] /\ call' = call
  BY DEF resetPolling, At, Call, Goto
<1>2. 0 \in Workers /\ workers[0] \in WorkerType(Known) /\ Main \in Known
  BY WorkerNumbers DEF OthersTyped, WorkersTyped, Known
<1>3. Resumes
  BY <1>2 DEF resetPolling, Resumes, WorkerType
<1>4. /\ Workers' = Workers /\ Mutexes' = Mutexes /\ Known' = Known /\ handed' = handed
      /\ UNCHANGED <<settings, waits, restarts, owner>>
  BY <1>1, <1>3, SameSettings, ResumesKnown DEF history, life, handed
<1>5. WorkersTyped'
  <2>1. CASE workers' = workers
    BY <1>4, <2>1 DEF WorkersTyped
  <2>2. CASE workers' = [workers EXCEPT ![0].activeThread = Main, ![0].threadBusy = TRUE]
    <3>1. [workers[0] EXCEPT !.activeThread = Main, !.threadBusy = TRUE] \in WorkerType(Known)
      BY <1>2 DEF WorkerType
    <3>2. workers' = [workers EXCEPT ![0] = [workers[0] EXCEPT !.activeThread = Main, !.threadBusy = TRUE]]
      BY <2>2
    <3> QED
      BY <1>2, <1>4, <3>1, <3>2, WorkersKept
  <2> QED
    BY <2>1, <2>2 DEF resetPolling
<1>6. OthersTyped'
  BY <1>1, <1>4, OthersKept, OwnersSame
<1>7. ~Left
  BY <1>1 DEF Left, InCall, Calls
<1> QED
  BY <1>1, <1>3, <1>4, <1>5, <1>6, <1>7, MainTyped

-----------------------------------------------------------------------------
(* The test for termination, and the main thread that leaves and comes back *)

\* A step of the test.
LEMMA TestTyped ==
  ASSUME Typed, NEW a \in All, pc[a] \in {"poll", "lockPool", "test"},
         NEW l \in {"lockPool", "test", "poll", "polled", "stopPolling", "gone"},
         l \in PlacesOf(a), a \in Threads => l # "gone",
         pc' = [pc EXCEPT ![a] = l],
         UNCHANGED <<settings, workers, queue, paused, pollers, packages, call, task, restarts, history>>,
         owner' \in [Mutexes -> All \union {Nobody}],
         \A m \in Mutexes : owner'[m] = a <=>
            \/ m = Scheduler /\ l \in {"lockPool", "test"}
            \/ m = start /\ l = "test"
            \/ m = progress /\ a \in Threads,
         \A m \in Mutexes : \A b \in All \ {a} : owner'[m] = b <=> owner[m] = b
  PROVE  Typed'
<1> USE DEF Typed
<1>1. Workers' = Workers /\ Mutexes' = Mutexes /\ Known' = Known /\ Resumes /\ handed' = handed
      /\ UNCHANGED <<waits, restarts>>
  BY SameSettings DEF Known, Created, Resumes, history, handed
<1>2. a # Main /\ (a \in Threads => Created(a))
  BY DEF PlacesTyped, PlacesOf, Calls, Waiting, Fresh
<1>3. Moves(a, l)
  BY <1>1 DEF Moves, CallsTyped
<1>4. pc'[a] = l /\ call' = call
  BY <1>3, MovedPlaces
<1>5. CallTyped(a)'
  BY <1>4 DEF CallTyped, Calls, Waiting, Writing
<1>6. \A m \in Mutexes : Holds(a, m)' <=> owner'[m] = a
  <2>1. a \in Threads => Polling(a)'
    BY <1>4 DEF Polling, Polls
  <2> QED
    BY <1>4, <2>1 DEF Holds
<1>7. WorkersTyped' /\ OthersTyped'
  BY <1>1 DEF WorkersTyped, OthersTyped, queue, paused, pollers, history
<1>8. Ordinary(a, l)
  BY <1>1, <1>2, <1>3 DEF Ordinary
<1> QED
  BY <1>1, <1>5, <1>6, <1>7, <1>8, OrdinaryTyped

\* checkForLocalTermination keeps the types.
LEMMA TypedCheck ==
  ASSUME Typed, NEW a \in All, checkForLocalTermination(a)
  PROVE  Typed'
<1> USE DEF Typed
<1>1. /\ pc[a] = "poll" /\ Free(Scheduler) /\ Lock(Scheduler, a) /\ pc' = [pc EXCEPT ![a] = "lockPool"]
      /\ UNCHANGED <<settings, workers, queue, paused, pollers, packages, call, task, restarts, history>>
  BY DEF checkForLocalTermination, At, Goto, life
<1>2. Scheduler \in Mutexes
  BY WorkerNumbers DEF OthersTyped
<1>3. /\ owner' \in [Mutexes -> All \union {Nobody}]
      /\ \A m \in Mutexes : owner'[m] = a <=> (m = Scheduler \/ owner[m] = a)
      /\ \A m \in Mutexes : \A b \in All \ {a} : owner'[m] = b <=> owner[m] = b
  BY <1>1, <1>2, Locked
<1>4. \A m \in Mutexes : owner[m] = a <=> (m = progress /\ a \in Threads)
  BY <1>1 DEF Owners, Holds, Polling, Polls
<1>5. "lockPool" \in PlacesOf(a)
  <2>1. a # Main
    BY <1>1 DEF PlacesTyped, PlacesOf, Calls, Waiting
  <2> QED
    BY <2>1 DEF PlacesOf, Polls
<1> QED
  BY <1>1, <1>3, <1>4, <1>5, TestTyped, ZenonT(60)

\* lockMutexForFinalisationTest keeps the types.
LEMMA TypedLockPool ==
  ASSUME Typed, NEW a \in All, lockMutexForFinalisationTest(a)
  PROVE  Typed'
<1> USE DEF Typed
<1>1. /\ pc[a] = "lockPool" /\ Free(start) /\ Lock(start, a) /\ pc' = [pc EXCEPT ![a] = "test"]
      /\ UNCHANGED <<settings, workers, queue, paused, pollers, packages, call, task, restarts, history>>
  BY DEF lockMutexForFinalisationTest, At, Goto, life
<1>2. start \in Mutexes
  BY WorkerNumbers DEF OthersTyped
<1>3. /\ owner' \in [Mutexes -> All \union {Nobody}]
      /\ \A m \in Mutexes : owner'[m] = a <=> (m = start \/ owner[m] = a)
      /\ \A m \in Mutexes : \A b \in All \ {a} : owner'[m] = b <=> owner[m] = b
  BY <1>1, <1>2, Locked
<1>4. \A m \in Mutexes : owner[m] = a <=> (m = Scheduler \/ (m = progress /\ a \in Threads))
  BY <1>1 DEF Owners, Holds, Polling, Polls
<1>5. "test" \in PlacesOf(a)
  <2>1. a # Main
    BY <1>1 DEF PlacesTyped, PlacesOf, Calls, Waiting
  <2> QED
    BY <2>1 DEF PlacesOf, Polls
<1> QED
  BY <1>1, <1>3, <1>4, <1>5, TestTyped, ZenonT(60)

\* isThreadPoolFinished keeps the types.
LEMMA TypedFinished ==
  ASSUME Typed, NEW a \in All, isThreadPoolFinished(a)
  PROVE  Typed'
<1> USE DEF Typed
<1>1. /\ pc[a] = "test" /\ Unlock({Scheduler, start})
      /\ UNCHANGED <<settings, workers, queue, paused, pollers, packages, call, task, restarts, history>>
  BY DEF isThreadPoolFinished, At
<1>2. PICK l : /\ l = Polled(a) \/ l = (IF a = Progress THEN "gone" ELSE "stopPolling")
               /\ pc' = [pc EXCEPT ![a] = l]
  BY DEF isThreadPoolFinished, Goto
<1>3. {Scheduler, start} \in SUBSET Mutexes /\ Scheduler # start /\ Scheduler # progress /\ start # progress
  BY WorkerNumbers, MutexNames DEF OthersTyped
<1>4. \A m \in Mutexes : owner[m] = a <=> (m = Scheduler \/ m = start \/ (m = progress /\ a \in Threads))
  BY <1>1 DEF Owners, Holds, Polling, Polls
<1>5. /\ owner' \in [Mutexes -> All \union {Nobody}]
      /\ \A m \in Mutexes : owner'[m] = a <=> (m \notin {Scheduler, start} /\ owner[m] = a)
      /\ \A m \in Mutexes : \A b \in All \ {a} : owner'[m] = b <=> owner[m] = b
  BY <1>1, <1>3, <1>4, Unlocked
<1>6. a # Main
  BY <1>1 DEF PlacesTyped, PlacesOf, Calls, Waiting
<1>7. l \in PlacesOf(a) /\ l \in {"poll", "polled", "stopPolling", "gone"} /\ (a \in Threads => l # "gone")
  BY <1>2, <1>6, Names DEF PlacesOf, Polls, Polled
<1>8. pc' = [pc EXCEPT ![a] = l]
  BY <1>2
<1>9. \A m \in Mutexes : owner'[m] = a <=>
            \/ m = Scheduler /\ l \in {"lockPool", "test"}
            \/ m = start /\ l = "test"
            \/ m = progress /\ a \in Threads
  BY <1>3, <1>4, <1>5, <1>7
<1> QED
  BY <1>1, <1>5, <1>7, <1>8, <1>9, TestTyped, ZenonT(60)

\* notifyMainThreadIsSleeping keeps the types: there is a thread for the worker.
LEMMA TypedNotify ==
  ASSUME Typed, notifyMainThreadIsSleeping
  PROVE  Typed'
<1> USE DEF Typed
<1> DEFINE b == NextThread
<1>1. /\ pc[Main] = "notify"
      /\ UNCHANGED <<settings, queue, paused, pollers, owner, task, life, history>>
      /\ \/ /\ settings.mainIsWorker /\ workers' = LeftToThread
            /\ packages' = [packages EXCEPT ![b] = newPackage(0)]
         \/ ~settings.mainIsWorker /\ UNCHANGED <<workers, packages>>
      /\ \/ /\ pc' = [pc EXCEPT ![Main] = "launch"]
            /\ call' = [call EXCEPT ![Main] = [arg |-> NoTask, worker |-> NoWorker, back |-> "sleep"]]
         \/ pc' = [pc EXCEPT ![Main] = "sleep"] /\ call' = call
  BY DEF notifyMainThreadIsSleeping, At, Call, Goto
<1>2. ~Left /\ Left'
  <2>1. ~Left
    BY <1>1 DEF Left, InCall, Calls
  <2>2. Left'
    BY <1>1, Names DEF Left, InCall, Calls, PlacesTyped, CallsTyped
  <2> QED
    BY <2>1, <2>2
<1>3. CASE ~settings.mainIsWorker
  <2>1. UNCHANGED <<workers, packages>>
    BY <1>1, <1>3
  <2>2. /\ Workers' = Workers /\ Mutexes' = Mutexes /\ Known' = Known /\ Resumes /\ handed' = handed
        /\ UNCHANGED <<settings, waits, restarts, owner>>
    BY <1>1, <2>1, SameSettings DEF Known, Created, Resumes, history, life, handed
  <2>3. WorkersTyped'
    BY <2>1, <2>2 DEF WorkersTyped
  <2>4. OthersTyped'
    BY <1>1, <2>2, OthersKept, OwnersSame
  <2> QED
    BY <1>1, <1>2, <2>2, <2>3, <2>4, MainTyped
<1>4. CASE settings.mainIsWorker
  <2>1. workers' = LeftToThread /\ packages' = [packages EXCEPT ![b] = newPackage(0)]
    BY <1>1, <1>4
  <2>2. Bound <= Needed(settings)
    BY <1>2, <1>4, BoundFacts
  <2>3. b \in Threads /\ ~Created(b) /\ (b = 0 \/ (Created(0) /\ b <= Bound))
    BY <2>2, NextExists
  <2> HIDE DEF b
  <2>4. /\ b \in All /\ b # Main /\ Main \in All /\ Main \notin Threads
        /\ Workers' = Workers /\ Mutexes' = Mutexes /\ 0 \in Workers /\ 0 # NoWorker
        /\ handed' = handed /\ UNCHANGED <<settings, waits, restarts, owner>>
    BY <1>1, <2>3, SameSettings, WorkerNumbers, Names DEF handed, life, history, OthersTyped
  <2>5. /\ PackagesTyped' /\ packages'[b] = newPackage(0)
        /\ \A t \in All \ {b} : packages'[t] = packages[t]
    BY <2>1, <2>4 DEF PackagesTyped, newPackage
  <2>6. Known' = Known \union {b} /\ \A t \in Threads : Created(t)' <=> (Created(t) \/ t = b)
    BY <2>3, <2>4, <2>5, Names DEF Known, Created, newPackage
  <2>7. WorkersTyped'
    <3>1. workers[0] \in WorkerType(Known') /\ b \in Known'
      BY <2>4, <2>6, WorkerKept DEF WorkersTyped
    <3>2. [workers[0] EXCEPT !.threadBusy = FALSE, !.activeThread = b] \in WorkerType(Known')
      BY <3>1 DEF WorkerType
    <3>3. workers' = [workers EXCEPT ![0] = [workers[0] EXCEPT !.threadBusy = FALSE, !.activeThread = b]]
      BY <2>1 DEF LeftToThread, b
    <3> QED
      BY <2>4, <2>6, <3>2, <3>3, WorkersKept
  <2>8. OthersTyped'
    BY <1>1, <2>6, OthersKept, OwnersSame
  <2>9. \E l \in {"launch", "sleep"} : Moves(Main, l)
    <3>1. "launch" \in PlacesOf(Main) /\ "sleep" \in PlacesOf(Main)
      BY DEF PlacesOf, Calls
    <3>2. NoTask \in 0 .. MaxTasks /\ "sleep" \in Labels
      BY BoundsAssumption DEF NoTask, Labels
    <3>3. call \in [All -> [arg : All \union (0 .. MaxTasks), worker : Workers \union {NoWorker}, back : Labels]]
      BY DEF CallsTyped
    <3>4. /\ call' \in [All -> [arg : All \union (0 .. MaxTasks), worker : Workers \union {NoWorker}, back : Labels]]
          /\ \A c \in All \ {Main} : call'[c] = call[c]
      BY <1>1, <2>4, <3>2, <3>3
    <3> QED
      BY <1>1, <2>4, <3>1, <3>4 DEF Moves
  <2>10. PICK l \in {"launch", "sleep"} : Moves(Main, l)
    BY <2>9
  <2>11. pc'[Main] = l /\ PlacesTyped' /\ \A c \in All \ {Main} : pc'[c] = pc[c]
    BY <2>4, <2>10, MovedPlaces
  <2>12. l = "launch" => call'[Main].back = "sleep"
    BY <1>1, <2>4, <2>11 DEF CallsTyped, PlacesTyped
  <2>13. CallTyped(Main)'
    BY <2>11, <2>12 DEF CallTyped, Calls, Waiting, Writing, BacksOf
  <2>14. CallsTyped'
    BY <2>4, <2>6, <2>10, <2>13, MovedCalls DEF OthersTyped, handed
  <2>15. Owners'
    <3>1. \A m \in Mutexes : ~Holds(Main, m)' /\ ~Holds(Main, m)
      BY <1>1, <2>4, <2>11 DEF Holds
    <3> QED
      BY <2>4, <2>10, <3>1, MovedOwners DEF Owners
  <2>16. Fresh'
    <3>1. ASSUME NEW t \in Threads, ~Created(t)' PROVE pc'[t] = "asleep" /\ ~packages'[t].completed
      <4>1. t \in All /\ t # Main /\ t # b /\ ~Created(t)
        BY <2>3, <2>4, <2>6, <3>1, Names
      <4> QED
        BY <2>5, <2>11, <4>1 DEF Fresh
    <3> QED
      BY <3>1 DEF Fresh
  <2>17. Pending' = Pending
    BY <1>1, <2>4, <2>11 DEF Pending
  <2>18. Bound' = Bound + 1 /\ Bound' >= settings.workers /\ Bound' \in Int /\ Pending' <= waits'
    <3>1. Bound' = settings.workers + waits + restarts - Pending
      BY <1>2, <2>4, <2>17, BoundFacts DEF Bound
    <3> QED
      BY <1>2, <1>4, <2>4, <2>17, <3>1, BoundFacts
  <2>19. CreatedTyped'
    <3>1. Bound' >= Bound + 1
      BY <2>18, BoundFacts
    <3> QED
      BY <2>3, <2>4, <2>6, <2>18, <3>1, CreatedNext
  <2> QED
    BY <2>5, <2>7, <2>8, <2>11, <2>14, <2>15, <2>16, <2>19
<1> QED
  BY <1>3, <1>4

\* edatRestart keeps the types: the progress thread has ended.
LEMMA TypedRestart ==
  ASSUME Typed, pc[Progress] = "gone", edatRestart
  PROVE  Typed'
<1> USE DEF Typed
<1> DEFINE l == IF settings.progressThread THEN "poll" ELSE "gone"
<1>1. /\ pc[Main] = "finalised" /\ restarts < settings.restarts /\ restarts' = restarts + 1
      /\ pc' = [pc EXCEPT ![Main] = "reset", ![Progress] = l]
      /\ UNCHANGED <<settings, workers, queue, paused, pollers, packages, owner, call, task, history>>
  BY DEF edatRestart, At
<1>2. /\ Workers' = Workers /\ Mutexes' = Mutexes /\ Known' = Known /\ handed' = handed /\ waits' = waits
      /\ \A t : Created(t)' <=> Created(t)
  BY <1>1, SameSettings DEF Known, Created, history, handed
<1>3. /\ pc'[Main] = "reset" /\ pc'[Progress] = l
      /\ \A a \in All \ {Main, Progress} : pc'[a] = pc[a]
  BY <1>1, Names DEF PlacesTyped
<1>4. PlacesTyped'
  <2>1. "reset" \in PlacesOf(Main) /\ l \in PlacesOf(Progress) /\ "reset" \in Labels /\ l \in Labels
    BY Names DEF PlacesOf, Labels, Polls
  <2>2. \A a \in All : pc'[a] \in PlacesOf(a)
    BY <1>3, <2>1 DEF PlacesTyped
  <2>3. pc' \in [All -> Labels]
    BY <1>1, <2>1 DEF PlacesTyped
  <2> QED
    BY <2>2, <2>3 DEF PlacesTyped, PlacesOf
<1>5. WorkersTyped' /\ PackagesTyped'
  BY <1>1, <1>2 DEF WorkersTyped, PackagesTyped
<1>6. OthersTyped'
  <2>1. restarts' \in 0 .. settings.restarts
    BY <1>1, BoundFacts DEF OthersTyped
  <2> QED
    BY <1>1, <1>2, <2>1 DEF OthersTyped, queue, paused, pollers, history
<1>7. Fresh'
  BY <1>1, <1>2, <1>3, Names DEF Fresh
<1>8. CallsTyped'
  <2>1. CallTyped(Main)' /\ CallTyped(Progress)'
    BY <1>3 DEF CallTyped, Calls, Waiting, Writing
  <2>2. \A a \in All \ {Main, Progress} : CallTyped(a)'
    BY <1>1, <1>2, <1>3 DEF CallsTyped, CallTyped, BacksOf
  <2> QED
    BY <1>1, <1>2, <2>1, <2>2 DEF CallsTyped
<1>9. Owners'
  <2>1. \A m \in Mutexes : ~Holds(Main, m) /\ ~Holds(Main, m)' /\ ~Holds(Progress, m) /\ ~Holds(Progress, m)'
    BY <1>1, <1>3, Names DEF Holds
  <2>2. \A a \in All \ {Main, Progress}, m \in Mutexes : Holds(a, m)' <=> Holds(a, m)
    <3>1. Workers' = Workers /\ call' = call
      BY <1>1, <1>2
    <3> QED
      BY ONLY <1>3, <3>1 DEF Holds, Polling, InCall
  <2> QED
    BY <1>1, <1>2, <2>1, <2>2 DEF Owners
<1>10. CreatedTyped'
  <2>1. Pending' <= Pending /\ Pending' \in {0, 1}
    BY <1>3 DEF Pending
  <2>2. Left
    BY <1>1 DEF Left
  <2>3. Bound <= Bound' /\ Pending' <= waits'
    <3>1. Bound' = settings.workers + waits + (restarts + 1) - Pending'
                     - (IF settings.mainIsWorker /\ ~Left' THEN 1 ELSE 0)
      BY <1>1, <1>2 DEF Bound
    <3> QED
      BY <1>2, <2>1, <2>2, <3>1, BoundFacts
  <2>4. Threads \subseteq Nat /\ Bound' \in Int /\ Bound \in Int
    <3>1. Bound' = settings.workers + waits + (restarts + 1) - Pending'
                     - (IF settings.mainIsWorker /\ ~Left' THEN 1 ELSE 0)
      BY <1>1, <1>2 DEF Bound
    <3> QED
      BY <2>1, <3>1, BoundFacts, EnoughThreads
  <2>5. ASSUME NEW t \in Threads, Created(t)'
        PROVE  t < Bound' \/ (t < settings'.workers /\ settings'.mainIsWorker /\ ~Created(0)')
    BY <1>1, <1>2, <2>3, <2>4, <2>5 DEF CreatedTyped
  <2> QED
    BY <2>3, <2>5 DEF CreatedTyped
<1> QED
  BY <1>4, <1>5, <1>6, <1>7, <1>8, <1>9, <1>10

\* The initial state has the types.
LEMMA TypedInit ==
  ASSUME Init
  PROVE  Typed
<1>1. /\ settings \in Settings /\ settings.workers \in Nat \ {0} /\ settings.restarts \in Nat
      /\ settings.mainIsWorker \in BOOLEAN /\ settings.report \in BOOLEAN
  BY SettingsAssumption DEF Init
<1>2. /\ Workers = 0 .. settings.workers - 1 /\ 0 \in Workers /\ NoWorker \notin Workers /\ Workers \subseteq Threads
  BY <1>1, WorkerNumbers
<1>3. firstThreads \subseteq Workers /\ firstThreads \subseteq Threads /\ Main \notin Threads
  BY <1>1, <1>2, Names DEF firstThreads
<1>4. /\ \A t \in Threads : Created(t) <=> t \in firstThreads
      /\ \A t \in Threads : ~Created(t) => ~packages[t].completed
      /\ PackagesTyped
  <2>1. \A a \in All : packages[a] = IF a \in firstThreads THEN [newPackage(a) EXCEPT !.completed = settings.report]
                                                           ELSE newPackage(NoWorker)
    BY DEF Init
  <2> DEFINE T == [worker : Workers \union {NoWorker}, completed : BOOLEAN, abort_thread : BOOLEAN]
             f(a) == [newPackage(a) EXCEPT !.completed = settings.report]
  <2>2. ASSUME NEW a \in firstThreads PROVE f(a) \in T /\ f(a).worker = a
    <3>1. newPackage(a) \in T /\ newPackage(a).worker = a
      BY <1>3 DEF newPackage
    <3> QED
      BY <1>1, <3>1
  <2>3. newPackage(NoWorker) \in T /\ newPackage(NoWorker).worker = NoWorker /\ ~newPackage(NoWorker).completed
    BY DEF newPackage
  <2>4. PackagesTyped
    <3> HIDE DEF T, f
    <3>1. packages \in [All -> T]
      BY <2>2, <2>3 DEF Init, f
    <3> QED
      BY <3>1 DEF PackagesTyped, T
  <2>5. \A t \in Threads : t \in firstThreads => packages[t].worker = t /\ t # NoWorker
    BY <1>2, <1>3, <2>1, <2>2, Names, ZenonT(60)
  <2>6. \A t \in Threads : t \notin firstThreads => packages[t] = newPackage(NoWorker)
    BY <2>1, Names
  <2> QED
    BY <2>3, <2>4, <2>5, <2>6 DEF Created
<1>5. Known = firstThreads \union {Main}
  BY <1>3, <1>4 DEF Known
<1>6. WorkersTyped
  <2>1. \A b \in BOOLEAN, t \in Known : newWorkerThread(b, t) \in WorkerType(Known)
    BY BoundsAssumption DEF newWorkerThread, WorkerType, NoTask
  <2> QED
    BY <1>1, <1>5, <2>1 DEF Init, WorkersTyped
<1>7. PlacesTyped
  <2>1. \A a \in All : pc[a] = IF a = Main THEN "init"
                               ELSE IF a = Progress THEN IF settings.progressThread THEN "poll" ELSE "gone"
                               ELSE "asleep"
    BY Names DEF Init
  <2>2. \A a \in All : pc[a] \in PlacesOf(a)
    BY <2>1, Names DEF PlacesOf
  <2>3. \A a \in All : pc[a] \in Labels
    BY <2>2, Places
  <2>4. pc \in [All -> Labels]
    BY <2>3 DEF Init
  <2> QED
    BY <2>2, <2>4 DEF PlacesTyped
<1>8. \A t \in Threads : pc[t] = "asleep"
  BY Names DEF Init
<1>9. pc[Main] = "init" /\ pc[Progress] \in {"poll", "gone"}
  BY Names DEF Init
<1>10. \A a \in All : pc[a] \in {"init", "poll", "gone", "asleep"}
  BY <1>8, <1>9, Names
<1>11. Fresh
  BY <1>4, <1>8 DEF Fresh
<1>12. handed = 0 /\ handed <= MaxTasks /\ begun \in Seq(Nat)
  BY BoundsAssumption DEF handed, Init
<1>13. CallsTyped
  <2>1. \A a \in All : CallTyped(a)
    BY <1>10 DEF CallTyped, Calls, Waiting, Writing
  <2>2. NoTask \in 0 .. MaxTasks /\ "asleep" \in Labels
    BY BoundsAssumption DEF NoTask, Labels
  <2>3. call \in [All -> [arg : All \union (0 .. MaxTasks), worker : Workers \union {NoWorker}, back : Labels]]
    BY <2>2 DEF Init
  <2> QED
    BY <2>1, <2>3 DEF CallsTyped
<1>14. Owners
  <2>1. \A a \in All, m \in Mutexes : ~Holds(a, m)
    BY <1>8, <1>10 DEF Holds, Polling, InCall, Calls, Polls
  <2> QED
    BY <2>1, Names DEF Init, Owners
<1>15. OthersTyped
  <2>1. task \in [All -> 0 .. MaxTasks] /\ threadQueue \in Seq(1 .. MaxTasks)
    BY BoundsAssumption DEF Init, NoTask
  <2>2. waits \in 0 .. MaxWaits /\ restarts \in 0 .. settings.restarts
    BY <1>1, BoundsAssumption DEF Init
  <2>3. owner \in [Mutexes -> All \union {Nobody}]
    BY DEF Init
  <2> QED
    BY <1>1, <1>2, <1>12, <2>1, <2>2, <2>3 DEF OthersTyped, Init
<1>16. CreatedTyped
  <2>1. Pending = 0 /\ waits = 0 /\ restarts = 0 /\ ~Left
    BY <1>9, <1>10 DEF Pending, Left, InCall, Calls, Init
  <2>2. Bound = settings.workers - (IF settings.mainIsWorker THEN 1 ELSE 0)
    BY <1>1, <2>1 DEF Bound
  <2>3. \A t \in Threads : Created(t) => t < settings.workers
    BY <1>1, <1>2, <1>3, <1>4
  <2>4. 0 \in Threads /\ (settings.mainIsWorker => ~Created(0))
    BY <1>2, <1>4 DEF firstThreads
  <2> QED
    BY <1>1, <2>1, <2>2, <2>3, <2>4 DEF CreatedTyped
<1> QED
  BY <1>4, <1>6, <1>7, <1>11, <1>13, <1>14, <1>15, <1>16 DEF Typed

-----------------------------------------------------------------------------
(* Who polls, and when polling has ended                                   *)

\* With a progress thread no thread of the pool polls.  Polling has ended when
\* the main thread leaves edatFinalise.
PollersOK ==
  /\ settings.progressThread => \A t \in Threads : owner[progress] # t
  /\ ~settings.progressThread \/ finished => pc[Progress] = "gone"
  /\ mainThread.completed /\ (pc[Main] = "notify" \/ Left) => finished
  /\ pc[Main] = "finalised" => finished

\* Polling is not taken up with a progress thread.
PollersSteady == \A t \in Threads : owner'[progress] = t => owner[progress] = t \/ ~settings.progressThread

\* A step of a that has nothing to do with the end of polling.
Steady(a) ==
  /\ pc[a] # "gone" /\ \E l : pc' = [pc EXCEPT ![a] = l]
  /\ \A b \in All \ {a} : call'[b] = call[b]
  /\ UNCHANGED <<settings, finished, mainThread>>
  /\ PollersSteady
  /\ a = Main => pc'[Main] \notin {"notify", "finalised"} /\ (Left' => Left)

\* Such a step keeps the invariant.
LEMMA SteadyPollers ==
  ASSUME PlacesTyped, PollersOK, NEW a \in All, Steady(a)
  PROVE  PollersOK'
<1>1. \A b \in All \ {a} : pc'[b] = pc[b]
  BY DEF Steady, PlacesTyped
<1>2. a # Main => (Left' <=> Left) /\ pc'[Main] = pc[Main]
  BY <1>1, Names DEF Steady, Left, InCall
<1>3. pc[Progress] = "gone" => pc'[Progress] = "gone"
  BY <1>1, Names DEF Steady
<1>4. settings' = settings /\ finished' = finished /\ mainThread' = mainThread
  BY DEF Steady
<1>5. settings'.progressThread => \A t \in Threads : owner'[progress] # t
  BY <1>4 DEF Steady, PollersSteady, PollersOK
<1>6. pc'[Main] = "finalised" => finished'
  BY <1>2, <1>4 DEF Steady, PollersOK
<1>7. mainThread'.completed /\ (pc'[Main] = "notify" \/ Left') => finished'
  BY <1>2, <1>4 DEF Steady, PollersOK
<1> QED
  BY <1>3, <1>4, <1>5, <1>6, <1>7 DEF PollersOK

\* A mutex other than that of the poller changes hands, or some are given back.
LEMMA PollersStay ==
  ASSUME OthersTyped
  PROVE  /\ owner' = owner => PollersSteady
         /\ \A m \in Mutexes \ {progress}, a \in All : Lock(m, a) => PollersSteady
         /\ \A S : Unlock(S) => PollersSteady
<1>1. owner \in [Mutexes -> All \union {Nobody}] /\ progress \in Mutexes
  BY WorkerNumbers DEF OthersTyped
<1>2. owner' = owner => PollersSteady
  BY DEF PollersSteady
<1>3. ASSUME NEW m \in Mutexes \ {progress}, NEW a \in All, Lock(m, a) PROVE PollersSteady
  BY <1>1, <1>3 DEF Lock, PollersSteady
<1>4. ASSUME NEW S, Unlock(S) PROVE PollersSteady
  BY <1>1, <1>4, Names DEF Unlock, PollersSteady
<1> QED
  BY <1>2, <1>3, <1>4

\* A step in a function that others call.
LEMMA SteadyCall ==
  ASSUME Typed, NEW a \in All, pc[a] \in Calls \union Waiting,
         NEW l \in Calls \union Waiting \union {"error", call[a].back}, pc[a] \in Waiting => l \notin Calls,
         pc' = [pc EXCEPT ![a] = l], UNCHANGED <<settings, finished, mainThread>>,
         call' = call \/ \E w : call' = [call EXCEPT ![a].worker = w],
         PollersSteady
  PROVE  Steady(a)
<1> USE DEF Typed
<1>1. call \in [All -> [arg : All \union (0 .. MaxTasks), worker : Workers \union {NoWorker}, back : Labels]]
  BY DEF CallsTyped
<1>2. call'[a].back = call[a].back /\ \A b \in All \ {a} : call'[b] = call[b]
  BY <1>1
<1>3. pc'[a] = l
  BY DEF PlacesTyped
<1>4. call[a].back \in {"task", "sleep", "poll", "polled", "asleep"}
  BY DEF CallsTyped, CallTyped, BacksOf
<1>5. pc[a] \in Waiting => call[a].back = "task"
  BY DEF CallsTyped, CallTyped
<1>6. pc[a] # "gone"
  BY DEF Calls, Waiting
<1>7. pc'[a] \notin {"notify", "finalised"}
  BY <1>3, <1>4 DEF Calls, Waiting
<1>8. a = Main => (Left' => Left)
  <2>1. CASE pc[a] \in Calls
    BY <1>2, <1>3, <1>4, <2>1 DEF Left, InCall, Calls, Waiting
  <2>2. CASE pc[a] \in Waiting
    BY <1>3, <1>5, <2>2 DEF Left, InCall, Waiting
  <2> QED
    BY <2>1, <2>2
<1> QED
  BY <1>2, <1>6, <1>7, <1>8 DEF Steady

\* The steps of these functions.
LEMMA SteadySteps ==
  ASSUME Typed, NEW a \in All, Steps(a), ~lockMutexForFinalisationTest(a), ~isThreadPoolFinished(a)
  PROVE  Steady(a)
<1> USE DEF Typed
<1>a. /\ {Scheduler, start, pausedTasks} \subseteq Mutexes \ {progress}
      /\ \A w \in Workers : pausedAndWaiting(w) \in Mutexes \ {progress}
  BY WorkerNumbers, MutexNames DEF OthersTyped, pausedAndWaiting
<1>b. pc[a] \in {"pauseActive", "markWaiting"} => call[a].worker \in Workers
  BY DEF CallsTyped, CallTyped
<1>1. CASE startThread(a)
  <2>1. /\ pc[a] = "start" /\ UNCHANGED <<settings, finished, mainThread>>
        /\ \E l \in {"setCallFunction", call[a].back} : pc' = [pc EXCEPT ![a] = l]
        /\ call' = call \/ \E w : call' = [call EXCEPT ![a].worker = w]
    BY <1>1 DEF startThread, At, Goto, Return, life
  <2>2. PollersSteady
    BY <1>1, PollersStay DEF startThread
  <2> QED
    BY <2>1, <2>2, SteadyCall DEF Calls, Waiting
<1>2. CASE setCallFunction(a)
  <2>1. /\ pc[a] = "setCallFunction" /\ UNCHANGED <<settings, finished, mainThread>>
        /\ \E l \in {"setData"} : pc' = [pc EXCEPT ![a] = l]
        /\ call' = call \/ \E w : call' = [call EXCEPT ![a].worker = w]
    BY <1>2 DEF setCallFunction, At, Goto, Return, life, Write
  <2>2. PollersSteady
    BY <1>2, PollersStay DEF setCallFunction, Write
  <2> QED
    BY <2>1, <2>2, SteadyCall DEF Calls, Waiting
<1>3. CASE setData(a)
  <2>1. /\ pc[a] = "setData" /\ UNCHANGED <<settings, finished, mainThread>>
        /\ \E l \in {"resumeActive"} : pc' = [pc EXCEPT ![a] = l]
        /\ call' = call \/ \E w : call' = [call EXCEPT ![a].worker = w]
    BY <1>3 DEF setData, At, Goto, Return, life, Write
  <2>2. PollersSteady
    BY <1>3, PollersStay DEF setData, Write
  <2> QED
    BY <2>1, <2>2, SteadyCall DEF Calls, Waiting
<1>4. CASE resumeActive(a)
  <2>1. /\ pc[a] = "resumeActive" /\ UNCHANGED <<settings, finished, mainThread>>
        /\ \E l \in {call[a].back} : pc' = [pc EXCEPT ![a] = l]
        /\ call' = call \/ \E w : call' = [call EXCEPT ![a].worker = w]
    BY <1>4 DEF resumeActive, At, Goto, Return, life
  <2>2. PollersSteady
    BY <1>4, PollersStay DEF resumeActive
  <2> QED
    BY <2>1, <2>2, SteadyCall DEF Calls, Waiting
<1>5. CASE launchThreadToPollForProgressIfPossible(a)
  <2>1. /\ pc[a] = "launch" /\ UNCHANGED <<settings, finished, mainThread>>
        /\ \E l \in {call[a].back, "awaitPoller"} : pc' = [pc EXCEPT ![a] = l]
        /\ call' = call \/ \E w : call' = [call EXCEPT ![a].worker = w]
    BY <1>5 DEF launchThreadToPollForProgressIfPossible, At, Goto, Return, life
  <2>2. PollersSteady
    BY <1>5, <1>a, PollersStay DEF launchThreadToPollForProgressIfPossible
  <2> QED
    BY <2>1, <2>2, SteadyCall DEF Calls, Waiting
<1>6. CASE awaitPoller(a)
  <2>1. /\ pc[a] = "awaitPoller" /\ UNCHANGED <<settings, finished, mainThread>>
        /\ \E l \in {"clearCallFunction"} : pc' = [pc EXCEPT ![a] = l]
        /\ call' = call \/ \E w : call' = [call EXCEPT ![a].worker = w]
    BY <1>6 DEF awaitPoller, At, Goto, Return, life
  <2>2. PollersSteady
    BY <1>6, PollersStay DEF awaitPoller
  <2> QED
    BY <2>1, <2>2, SteadyCall DEF Calls, Waiting
<1>7. CASE clearCallFunction(a)
  <2>1. /\ pc[a] = "clearCallFunction" /\ UNCHANGED <<settings, finished, mainThread>>
        /\ \E l \in {"resumeActive"} : pc' = [pc EXCEPT ![a] = l]
        /\ call' = call \/ \E w : call' = [call EXCEPT ![a].worker = w]
    BY <1>7 DEF clearCallFunction, At, Goto, Return, life, Write
  <2>2. PollersSteady
    BY <1>7, PollersStay DEF clearCallFunction, Write
  <2> QED
    BY <2>1, <2>2, SteadyCall DEF Calls, Waiting
<1>8. CASE pauseThread(a)
  <2>1. /\ pc[a] = "pause" /\ UNCHANGED <<settings, finished, mainThread>>
        /\ \E l \in {"pauseActive", "paused", "error"} : pc' = [pc EXCEPT ![a] = l]
        /\ call' = call \/ \E w : call' = [call EXCEPT ![a].worker = w]
    BY <1>8 DEF pauseThread, At, Goto, Return, life
  <2>2. PollersSteady
    BY <1>8, <1>a, PollersStay DEF pauseThread
  <2> QED
    BY <2>1, <2>2, SteadyCall DEF Calls, Waiting
<1>9. CASE pauseActive(a)
  <2>1. /\ pc[a] = "pauseActive" /\ UNCHANGED <<settings, finished, mainThread>>
        /\ \E l \in {"pauseMap"} : pc' = [pc EXCEPT ![a] = l]
        /\ call' = call \/ \E w : call' = [call EXCEPT ![a].worker = w]
    BY <1>9 DEF pauseActive, At, Goto, Return, life
  <2>2. PollersSteady
    BY <1>9, <1>a, <1>b, <2>1, PollersStay DEF pauseActive
  <2> QED
    BY <2>1, <2>2, SteadyCall DEF Calls, Waiting
<1>10. CASE pauseMap(a)
  <2>1. /\ pc[a] = "pauseMap" /\ UNCHANGED <<settings, finished, mainThread>>
        /\ \E l \in {"paused"} : pc' = [pc EXCEPT ![a] = l]
        /\ call' = call \/ \E w : call' = [call EXCEPT ![a].worker = w]
    BY <1>10 DEF pauseMap, At, Goto, Return, life
  <2>2. PollersSteady
    BY <1>10, PollersStay DEF pauseMap
  <2> QED
    BY <2>1, <2>2, SteadyCall DEF Calls, Waiting
<1>11. CASE waitReturns(a)
  <2>1. /\ pc[a] = "paused" /\ UNCHANGED <<settings, finished, mainThread>>
        /\ \E l \in {call[a].back} : pc' = [pc EXCEPT ![a] = l]
        /\ call' = call \/ \E w : call' = [call EXCEPT ![a].worker = w]
    BY <1>11 DEF waitReturns, At, Goto, Return, life
  <2>2. PollersSteady
    BY <1>11, PollersStay DEF waitReturns
  <2>3. call[a].back = "task"
    BY <2>1 DEF CallsTyped, CallTyped, Waiting
  <2> QED
    BY <2>1, <2>2, <2>3, SteadyCall DEF Calls, Waiting
<1>12. CASE markThreadResume(a)
  <2>1. /\ pc[a] = "mark" /\ UNCHANGED <<settings, finished, mainThread>>
        /\ \E l \in {"markWaiting", call[a].back, "error"} : pc' = [pc EXCEPT ![a] = l]
        /\ call' = call \/ \E w : call' = [call EXCEPT ![a].worker = w]
    BY <1>12 DEF markThreadResume, At, Goto, Return, life
  <2>2. PollersSteady
    BY <1>12, <1>a, PollersStay DEF markThreadResume
  <2> QED
    BY <2>1, <2>2, SteadyCall DEF Calls, Waiting
<1>13. CASE markWaiting(a)
  <2>1. /\ pc[a] = "markWaiting" /\ UNCHANGED <<settings, finished, mainThread>>
        /\ \E l \in {"markBusy", "error"} : pc' = [pc EXCEPT ![a] = l]
        /\ call' = call \/ \E w : call' = [call EXCEPT ![a].worker = w]
    BY <1>13 DEF markWaiting, At, Goto, Return, life
  <2>2. PollersSteady
    BY <1>13, <1>a, <1>b, <2>1, PollersStay DEF markWaiting
  <2> QED
    BY <2>1, <2>2, SteadyCall DEF Calls, Waiting
<1>14. CASE markBusy(a)
  <2>1. /\ pc[a] = "markBusy" /\ UNCHANGED <<settings, finished, mainThread>>
        /\ \E l \in {"markPoller"} : pc' = [pc EXCEPT ![a] = l]
        /\ call' = call \/ \E w : call' = [call EXCEPT ![a].worker = w]
    BY <1>14 DEF markBusy, At, Goto, Return, life
  <2>2. PollersSteady
    BY <1>14, PollersStay DEF markBusy
  <2> QED
    BY <2>1, <2>2, SteadyCall DEF Calls, Waiting
<1>15. CASE markPoller(a)
  <2>1. /\ pc[a] = "markPoller" /\ UNCHANGED <<settings, finished, mainThread>>
        /\ \E l \in {call[a].back} : pc' = [pc EXCEPT ![a] = l]
        /\ call' = call \/ \E w : call' = [call EXCEPT ![a].worker = w]
    BY <1>15 DEF markPoller, At, Goto, Return, life
  <2>2. PollersSteady
    BY <1>15, PollersStay DEF markPoller
  <2> QED
    BY <2>1, <2>2, SteadyCall DEF Calls, Waiting
<1> QED
  BY <1>1, <1>2, <1>3, <1>4, <1>5, <1>6, <1>7, <1>8, <1>9, <1>10, <1>11, <1>12, <1>13, <1>14, <1>15 DEF Steps

\* The steps of threadEntryProcedure.
LEMMA SteadyEntry ==
  ASSUME Typed, NEW t \in Threads, Entry(t)
  PROVE  Steady(t)
<1> USE DEF Typed
<1>1. t # Main /\ t \in All
  BY Names
<1>2. /\ pc[t] # "gone" /\ \E l : pc' = [pc EXCEPT ![t] = l]
      /\ call' = call \/ \E f : call' = [call EXCEPT ![t] = f]
      /\ UNCHANGED <<settings, finished, mainThread>>
  BY DEF Entry, wake, issueFunctionCall, takeFromQueue, lookForWaiting, handOver, resumeWaiting, reactivated,
         goIdle, startPolling, pollReturns, checkBusy, stopPolling, At, Goto, Call, Begin, life
<1>3. PollersSteady
  <2>1. start \in Mutexes \ {progress}
    BY WorkerNumbers, MutexNames DEF OthersTyped
  <2>2. \/ owner' = owner \/ Lock(start, t) \/ (\E S : Unlock(S)) \/ progressPollIdleThread
    BY DEF Entry, wake, issueFunctionCall, takeFromQueue, lookForWaiting, handOver, resumeWaiting, reactivated,
           goIdle, startPolling, pollReturns, checkBusy, stopPolling
  <2>3. progressPollIdleThread => PollersSteady
    BY DEF progressPollIdleThread, PollersSteady
  <2> QED
    BY <1>1, <2>1, <2>2, <2>3, PollersStay
<1>4. \A b \in All \ {t} : call'[b] = call[b]
  BY <1>2 DEF CallsTyped
<1> QED
  BY <1>1, <1>2, <1>3, <1>4 DEF Steady

\* A call of the pool by a task, the main thread or a poll.
LEMMA SteadyCaller ==
  ASSUME Typed, NEW a \in All, Caller(a),
         \/ submit(a, BackOf(a)) \/ fire(a, BackOf(a))
         \/ pc[a] = "task" /\ edatWait(a)
         \/ pc[a] = "task" /\ a # Main /\ taskEnds(a)
  PROVE  Steady(a)
<1> USE DEF Typed
<1>1. /\ \E l \in {"start", "mark", "pause", "loop"} : pc' = [pc EXCEPT ![a] = l] /\ (l = "loop" => a # Main)
      /\ \/ call' = call /\ pc' = [pc EXCEPT ![a] = "loop"]
         \/ \E arg : call' = [call EXCEPT ![a] = [arg |-> arg, worker |-> NoWorker, back |-> BackOf(a)]]
      /\ UNCHANGED <<settings, finished, mainThread>>
      /\ owner' = owner \/ Lock(Scheduler, a)
  BY DEF submit, fire, edatWait, taskEnds, Call, Goto, BackOf, life
<1>2. pc[a] # "gone" /\ (a = Main => BackOf(a) = "task")
  BY Names DEF Caller, BackOf, PlacesTyped, PlacesOf, Calls, Waiting
<1>3. \A b \in All \ {a} : call'[b] = call[b]
  BY <1>1 DEF CallsTyped
<1>4. PollersSteady
  <2>1. Scheduler \in Mutexes \ {progress}
    BY WorkerNumbers, MutexNames DEF OthersTyped
  <2> QED
    BY <1>1, <2>1, PollersStay
<1>5. ASSUME a = Main PROVE pc'[Main] \notin {"notify", "finalised"} /\ ~Left'
  <2>1. pc'[Main] \in {"start", "mark", "pause"}
    BY <1>1, <1>5 DEF PlacesTyped
  <2>2. call'[Main].back = "task"
    BY <1>1, <1>2, <1>5, <2>1 DEF CallsTyped, PlacesTyped
  <2> QED
    BY <2>1, <2>2 DEF Left, InCall
<1> QED
  BY <1>1, <1>2, <1>3, <1>4, <1>5 DEF Steady

\* A step of the test for termination.
LEMMA PollersTest ==
  ASSUME Typed, PollersOK, NEW a \in All,
         checkForLocalTermination(a) \/ lockMutexForFinalisationTest(a) \/ isThreadPoolFinished(a)
  PROVE  PollersOK'
<1> USE DEF Typed
<1>1. {Scheduler, start} \subseteq Mutexes \ {progress} /\ progress \in Mutexes
  BY WorkerNumbers, MutexNames DEF OthersTyped
<1>2. PollersSteady
  BY <1>1, PollersStay DEF checkForLocalTermination, lockMutexForFinalisationTest, isThreadPoolFinished
<1>3. a # Main /\ pc[a] # "gone" /\ pc[a] \in {"poll", "lockPool", "test"}
  BY DEF checkForLocalTermination, lockMutexForFinalisationTest, isThreadPoolFinished, At, PlacesTyped, PlacesOf,
         Calls, Waiting
<1>4. /\ \E l : pc' = [pc EXCEPT ![a] = l] /\ settings' = settings /\ call' = call
  BY DEF checkForLocalTermination, lockMutexForFinalisationTest, isThreadPoolFinished, Goto
<1>5. CASE UNCHANGED <<finished, mainThread>>
  BY <1>2, <1>3, <1>4, <1>5, SteadyPollers DEF Steady
<1>6. CASE ~UNCHANGED <<finished, mainThread>>
  <2>1. finished' = TRUE /\ pc' = [pc EXCEPT ![a] = IF a = Progress THEN "gone" ELSE "stopPolling"]
    BY <1>6 DEF checkForLocalTermination, lockMutexForFinalisationTest, isThreadPoolFinished, Goto, life
  <2>2. CASE a = Progress
    BY <1>2, <1>4, <2>1, <2>2, Names DEF PollersOK, PollersSteady, PlacesTyped
  <2>3. CASE a # Progress
    <3>1. a \in Threads /\ owner[progress] = a
      BY <1>1, <1>3, <2>3, Names DEF Owners, Holds, Polling, Polls
    <3>2. ~settings.progressThread
      BY <3>1 DEF PollersOK
    <3>3. pc'[Progress] = pc[Progress]
      BY <2>1, <2>3, Names DEF PlacesTyped
    <3> QED
      BY <1>4, <2>1, <3>2, <3>3 DEF PollersOK
  <2> QED
    BY <2>2, <2>3
<1> QED
  BY <1>5, <1>6

\* A step of the main thread alone.
LEMMA PollersMain ==
  ASSUME Typed, PollersOK, MainSteps \/ edatRestart \/ (pc[Main] = "task" /\ attachMainThread)
  PROVE  PollersOK'
<1> USE DEF Typed
<1>1. Main \in All /\ Progress \in All /\ Main # Progress
  BY Names
<1>2. owner' = owner /\ settings' = settings /\ settings.progressThread \in BOOLEAN
  BY WorkerNumbers DEF MainSteps, setMessaging, notifyMainThreadIsSleeping, mainThreadWoken, resetPolling, edatRestart,
         attachMainThread, OthersTyped
<1>3. settings'.progressThread => \A t \in Threads : owner'[progress] # t
  BY <1>2 DEF PollersOK
<1>4. CASE edatRestart
  <2>1. /\ pc' = [pc EXCEPT ![Main] = "reset", ![Progress] = IF settings.progressThread THEN "poll" ELSE "gone"]
        /\ finished' = FALSE
    BY <1>4 DEF edatRestart
  <2>2. pc'[Main] = "reset" /\ (~settings.progressThread => pc'[Progress] = "gone")
    BY <1>1, <2>1 DEF PlacesTyped
  <2>3. ~Left'
    BY <2>2 DEF Left, InCall, Calls
  <2> QED
    BY <1>2, <1>3, <2>1, <2>2, <2>3 DEF PollersOK
<1>5. CASE ~edatRestart
  <2>1. finished' = finished /\ \E l : pc' = [pc EXCEPT ![Main] = l]
    BY <1>5 DEF MainSteps, setMessaging, notifyMainThreadIsSleeping, mainThreadWoken, resetPolling,
         attachMainThread, life, Goto, Call
  <2>2. pc'[Progress] = pc[Progress]
    BY <1>1, <2>1 DEF PlacesTyped
  <2>3. CASE attachMainThread
    <3>1. ~mainThread'.completed /\ pc'[Main] = "notify"
      BY <1>1, <2>3 DEF attachMainThread, Goto, PlacesTyped
    <3> QED
      BY <1>2, <1>3, <2>1, <2>2, <3>1 DEF PollersOK
  <2>4. CASE setMessaging \/ resetPolling
    <3>1. mainThread' = mainThread
      BY <2>4 DEF setMessaging, resetPolling, life
    <3>2. \/ pc' = [pc EXCEPT ![Main] = "task"]
          \/ /\ pc' = [pc EXCEPT ![Main] = "launch"]
             /\ call' = [call EXCEPT ![Main] = [arg |-> NoTask, worker |-> NoWorker, back |-> "task"]]
      BY <2>4 DEF setMessaging, resetPolling, Goto, Call
    <3>3. pc'[Main] \notin {"notify", "finalised"} /\ ~Left'
      BY <1>1, <3>2 DEF Left, InCall, Calls, PlacesTyped, CallsTyped
    <3> QED
      BY <1>2, <1>3, <2>1, <2>2, <3>1, <3>3 DEF PollersOK
  <2>5. CASE notifyMainThreadIsSleeping
    <3>1. mainThread' = mainThread /\ pc[Main] = "notify"
      BY <2>5 DEF notifyMainThreadIsSleeping, life, At
    <3>2. pc'[Main] \notin {"notify", "finalised"}
      BY <1>1, <2>5 DEF notifyMainThreadIsSleeping, Goto, Call, PlacesTyped
    <3> QED
      BY <1>2, <1>3, <2>1, <2>2, <3>1, <3>2 DEF PollersOK
  <2>6. CASE mainThreadWoken
    <3>1. mainThread' = mainThread /\ pc[Main] = "sleep" /\ mainThread.completed
      BY <2>6 DEF mainThreadWoken, life, At
    <3>2. finished
      BY <3>1 DEF PollersOK, Left
    <3> QED
      BY <1>2, <1>3, <2>1, <2>2, <3>2 DEF PollersOK
  <2> QED
    BY <1>5, <2>3, <2>4, <2>5, <2>6 DEF MainSteps
<1> QED
  BY <1>4, <1>5

-----------------------------------------------------------------------------
(* Type correctness                                                        *)

TInv == (Typed /\ PollersOK) \/ Stuck

\* The invariant holds at the start.
LEMMA TInvInit == Init => TInv
<1> SUFFICES ASSUME Init PROVE PollersOK
  BY TypedInit DEF TInv
<1>1. owner = [m \in Mutexes |-> Nobody] /\ progress \in Mutexes /\ settings \in Settings
  BY DEF Init, Mutexes
<1>2. \A t \in Threads : owner[progress] # t
  BY <1>1, Names
<1>3. ~settings.progressThread => pc[Progress] = "gone"
  BY Names DEF Init
<1>4. pc[Main] = "init" /\ ~finished /\ ~mainThread.completed
  BY Names DEF Init
<1> QED
  BY <1>2, <1>3, <1>4 DEF PollersOK

\* A step of a thread.
LEMMA TInvSteps ==
  ASSUME Typed, PollersOK, NEW a \in All, Steps(a)
  PROVE  TInv'
<1>1. CASE lockMutexForFinalisationTest(a)
  BY <1>1, TypedLockPool, PollersTest DEF TInv
<1>2. CASE isThreadPoolFinished(a)
  BY <1>2, TypedFinished, PollersTest DEF TInv
<1>3. CASE ~lockMutexForFinalisationTest(a) /\ ~isThreadPoolFinished(a)
  <2>1. PollersOK'
    BY <1>3, SteadySteps, SteadyPollers DEF Typed
  <2>2. Typed' \/ Stuck'
    BY <1>3, TypedStart, TypedCallFunction, TypedData, TypedResumeActive, TypedLaunch, TypedAwaitPoller,
       TypedClear, TypedPause, TypedPauseActive, TypedPauseMap, TypedWaitReturns, TypedMark,
       TypedMarkWaiting, TypedMarkBusy, TypedMarkPoller DEF Steps
  <2> QED
    BY <2>1, <2>2 DEF TInv
<1> QED
  BY <1>1, <1>2, <1>3

\* A step of user code.
LEMMA TInvUser ==
  ASSUME Typed, PollersOK, NEW a \in All, UserCode(a)
  PROVE  TInv'
<1>1. pc[a] = "task" /\ Caller(a) /\ BackOf(a) = "task"
  BY DEF UserCode, At, Caller, BackOf
<1>2. CASE submit(a, "task")
  BY <1>1, <1>2, TypedSubmit, SteadyCaller, SteadyPollers DEF TInv, Typed
<1>3. CASE fire(a, "task")
  BY <1>1, <1>3, TypedFire, SteadyCaller, SteadyPollers DEF TInv, Typed
<1>4. CASE edatWait(a)
  BY <1>1, <1>4, TypedWait, SteadyCaller, SteadyPollers DEF TInv, Typed
<1>5. CASE a = Main /\ attachMainThread
  BY <1>1, <1>5, TypedAttach, PollersMain DEF TInv
<1>6. CASE a # Main /\ taskEnds(a)
  <2>1. a \in Threads
    BY <1>1, <1>6, CallerFacts, Names
  <2> QED
    BY <1>1, <1>6, <2>1, TypedTaskEnds, SteadyCaller, SteadyPollers DEF TInv, Typed
<1> QED
  BY <1>2, <1>3, <1>4, <1>5, <1>6 DEF UserCode

\* A step of a poll.
LEMMA TInvPoll ==
  ASSUME Typed, PollersOK, NEW a \in All, pollDelivers(a) \/ checkForLocalTermination(a)
  PROVE  TInv'
<1>1. CASE checkForLocalTermination(a)
  BY <1>1, TypedCheck, PollersTest DEF TInv
<1>2. CASE pollDelivers(a)
  <2>1. Caller(a) /\ BackOf(a) = Polled(a) /\ (submit(a, BackOf(a)) \/ fire(a, BackOf(a)))
    BY <1>2 DEF pollDelivers, At, Caller, BackOf
  <2> QED
    BY <2>1, TypedSubmit, TypedFire, SteadyCaller, SteadyPollers DEF TInv, Typed
<1> QED
  BY <1>1, <1>2

\* A step of a thread of the pool.
LEMMA TInvEntry ==
  ASSUME Typed, PollersOK, NEW t \in Threads, Entry(t)
  PROVE  TInv'
<1>1. PollersOK'
  BY SteadyEntry, SteadyPollers, Names DEF Typed
<1>2. Typed'
  BY TypedWake, TypedIssue, TypedTake, TypedLookForWaiting, TypedHandOver, TypedResumeWaiting, TypedReactivated,
     TypedGoIdle, TypedStartPolling, TypedPollReturns, TypedCheckBusy, TypedStopPolling DEF Entry
<1> QED
  BY <1>1, <1>2 DEF TInv

\* A step of the main thread.
LEMMA TInvMain ==
  ASSUME Typed, PollersOK, MainSteps \/ edatRestart
  PROVE  TInv'
<1>1. PollersOK'
  BY PollersMain
<1>2. edatRestart => pc[Progress] = "gone"
  BY DEF edatRestart, At, PollersOK
<1>3. Typed'
  BY <1>2, TypedSetMessaging, TypedNotify, TypedWoken, TypedReset, TypedRestart DEF MainSteps
<1> QED
  BY <1>1, <1>3 DEF TInv

\* Nothing happens once an error has been raised.
LEMMA StuckStays ==
  ASSUME Stuck, [Next]_vars
  PROVE  vars' = vars
<1>1. \A a, l : ~At(a, l)
  BY DEF Stuck, NoError, At
<1>2. ASSUME NEW a \in All PROVE ~Steps(a) /\ ~UserCode(a) /\ ~pollDelivers(a) /\ ~checkForLocalTermination(a)
  BY <1>1 DEF Steps, startThread, setCallFunction, setData, resumeActive, Write,
         launchThreadToPollForProgressIfPossible, awaitPoller, clearCallFunction, pauseThread, pauseActive,
         pauseMap, waitReturns, markThreadResume, markWaiting, markBusy, markPoller,
         lockMutexForFinalisationTest, isThreadPoolFinished, UserCode, pollDelivers, checkForLocalTermination
<1>3. ASSUME NEW t \in Threads PROVE ~Entry(t)
  BY <1>1 DEF Entry, wake, issueFunctionCall, takeFromQueue, lookForWaiting, handOver, resumeWaiting, reactivated,
         goIdle, startPolling, pollReturns, checkBusy, stopPolling
<1>4. ~MainSteps /\ ~edatRestart
  BY <1>1 DEF MainSteps, setMessaging, notifyMainThreadIsSleeping, mainThreadWoken, resetPolling, edatRestart
<1> QED
  BY <1>2, <1>3, <1>4 DEF Next, Stopped

\* Steps that change nothing keep the invariant.
LEMMA TInvStutters ==
  ASSUME TInv, vars' = vars
  PROVE  TInv'
<1>1. UNCHANGED <<settings, workers, queue, paused, pollers, packages, owner, pc, call, task, life, history>>
  BY DEF vars
<1>2. /\ UNCHANGED <<settings, workers, next_suggested_idle_thread, threadQueue, pausedTasksToWorkers,
                     pausedMainThreadDescriptor, pollingProgressThread, restartAnotherPoller, packages>>
      /\ UNCHANGED <<owner, pc, call, task, begun, due, waits, finished, mainThread, restarts>>
  BY <1>1 DEF queue, paused, pollers, life, history
<1>3. Workers' = Workers /\ Mutexes' = Mutexes /\ Known' = Known
  BY <1>2, SameSettings DEF Known, Created
<1>4. Stuck => Stuck'
  BY <1>2, <1>3 DEF Stuck, TypeOK, NoError
<1>5. PollersOK => PollersOK'
  BY <1>2 DEF PollersOK, Left, InCall
<1>6. Typed => Typed'
  <2> SUFFICES ASSUME Typed PROVE Typed'
    OBVIOUS
  <2> USE DEF Typed
  <2>1. OthersTyped' /\ WorkersTyped' /\ PackagesTyped' /\ PlacesTyped'
    BY <1>2, <1>3 DEF OthersTyped, WorkersTyped, PackagesTyped, PlacesTyped, handed, PlacesOf
  <2>2. Fresh' /\ CallsTyped'
    BY <1>2, <1>3 DEF Fresh, Created, CallsTyped, CallTyped, BacksOf, handed
  <2>3. Owners'
    BY <1>2, <1>3 DEF Owners, Holds, Polling, InCall
  <2>4. CreatedTyped'
    BY <1>2 DEF CreatedTyped, Created, Bound, Pending, Left, InCall
  <2> QED
    BY <2>1, <2>2, <2>3, <2>4
<1> QED
  BY <1>4, <1>5, <1>6 DEF TInv

\* Every step keeps the invariant.
LEMMA TInvNext == TInv /\ [Next]_vars => TInv'
<1> SUFFICES ASSUME TInv, [Next]_vars PROVE TInv'
  OBVIOUS
<1>1. CASE vars' = vars
  BY <1>1, TInvStutters
<1>2. CASE Stuck
  BY <1>2, StuckStays, TInvStutters
<1>3. CASE Typed /\ PollersOK /\ Next /\ vars' # vars
  <2>1. ASSUME NEW a \in All, Steps(a) \/ UserCode(a) \/ pollDelivers(a) \/ checkForLocalTermination(a)
        PROVE  TInv'
    BY <1>3, <2>1, TInvSteps, TInvUser, TInvPoll
  <2>2. ASSUME NEW t \in Threads, Entry(t) PROVE TInv'
    BY <1>3, <2>2, TInvEntry
  <2>3. MainSteps \/ edatRestart => TInv'
    BY <1>3, TInvMain
  <2> QED
    BY <1>3, <2>1, <2>2, <2>3 DEF Next, Stopped
<1> QED
  BY <1>1, <1>2, <1>3 DEF TInv

\* The variables of the thread pool always have their types: there is a thread
\* for every worker, every wait and every time the main thread goes to sleep,
\* in every behaviour of threadpool.cpp.
THEOREM TypeCorrect == Spec => []TypeOK
<1>1. TInv => TypeOK
  BY TypedTypeOK DEF TInv, Stuck
<1> QED
  BY <1>1, TInvInit, TInvNext, PTL DEF Spec

-----------------------------------------------------------------------------
(* Whose turn it is: the threads of a worker                               *)

\* Behaviours that stay calm, for configurations in which the main thread is
\* not a worker or does not restart.
CalmSpec == Spec /\ [][Calm]_vars
RestartsBeside == \A s \in Settings : s.mainIsWorker => s.restarts = 0

\* What a thread that is at l does for its worker, if it returns to back.
RoleOf(l, back) ==
  IF \/ l \in {"init", "command", "task", "pause", "pauseActive", "loop", "look", "notify"}
     \/ l \in Calls /\ back = "task" THEN "awake"
  ELSE IF \/ l \in {"asleep", "idle"} \union Polls
          \/ l \in Calls /\ back \in {"polled", "poll", "asleep"} THEN "rest"
  ELSE IF l \in {"handOver", "spare", "pauseMap", "paused"} THEN l
  ELSE "other"
Role(a) == RoleOf(pc[a], call[a].back)

Belongs(a, w) ==
  IF a = Main THEN settings.mainIsWorker /\ w = 0 ELSE a \in Threads /\ packages[a].worker = w
Active(w) == workers[w].activeThread
Completed(a) == packages[a].completed
Busy(w) == workers[w].threadBusy
Writes(a, w) == pc[a] \in Writing /\ call[a].worker = w
Marks(a, d) == pc[a] = "mark" /\ call[a].arg = d
Finds(a, d, w) == pc[a] = "markWaiting" /\ call[a].arg = d /\ call[a].worker = w

InSeq(e, s) == \E i \in 1 .. Len(s) : s[i] = e
OneToOne(s) == \A i, j \in 1 .. Len(s) : s[i] = s[j] => i = j
IsSpare(t, w) == InSeq(t, workers[w].idleThreads)
IsPaused(d, w) == d \in workers[w].pausedThreads
IsReady(d, w) == InSeq(d, workers[w].waitingThreads)
Registered(d) == pausedTasksToWorkers[d] # NoWorker \/ (d = Main /\ pausedMainThreadDescriptor)

\* The active thread of a worker is awake, sleeps or polls, or is about to go on.
Turns == \A w \in Workers, t \in All : Active(w) = t =>
  /\ Belongs(t, w)
  /\ Role(t) \in {"awake", "rest", "spare", "paused"}
  /\ Role(t) = "awake" => ~Completed(t)
  /\ Role(t) = "spare" => Completed(t)

\* The other threads of the worker have paused, and nobody has woken them.
Nonactive == \A w \in Workers, a \in All : Belongs(a, w) /\ Active(w) # a =>
  ~Completed(a) /\ Role(a) \notin {"awake", "rest"}

\* Only one thread writes the command of a worker, while its thread is at rest.
Writers == \A a, t \in All, w \in Workers : Writes(a, w) /\ Active(w) = t =>
  Role(t) = "rest" /\ ~Completed(t) /\ Busy(w)
Launching(a, w) == pc[a] = "awaitPoller" /\ call[a].worker = w
Launchers == \A a \in All, w \in Workers : Launching(a, w) => ~Busy(w)
OneWriter == \A a, b \in All, w \in Workers : Writes(a, w) /\ Writes(b, w) => a = b

\* Only one thread hands over a worker, and the other one waits for it.
Handers == \A h, t \in All, w \in Workers : Belongs(h, w) /\ Role(h) = "handOver" /\ Active(w) = t =>
  Role(t) = "paused" /\ ~Completed(t)
OneHander == \A g, h \in All, w \in Workers :
  Belongs(g, w) /\ Belongs(h, w) /\ Role(g) = "handOver" /\ Role(h) = "handOver" => g = h

\* A thread pauses in the worker it belongs to.
Pausers == \A a \in All :
  /\ pc[a] \in {"pauseActive", "pauseMap"} => Belongs(a, call[a].worker)
  /\ pc[a] = "pauseMap" => IsPaused(a, call[a].worker)

\* The lists of a worker.
Spares == \A w \in Workers, t \in All : IsSpare(t, w) =>
  Belongs(t, w) /\ Active(w) # t /\ Role(t) \in {"handOver", "spare"}
Pausing == \A w \in Workers, d \in All : IsPaused(d, w) =>
  Belongs(d, w) /\ Active(w) # d /\ Role(d) \in {"pauseMap", "paused"}
Readies == \A w \in Workers, d \in All : IsReady(d, w) =>
  Belongs(d, w) /\ Active(w) # d /\ Role(d) = "paused" /\ ~IsPaused(d, w)
Once == \A w \in Workers : OneToOne(workers[w].idleThreads) /\ OneToOne(workers[w].waitingThreads)

\* The waits: whose events are still to come, have come, and are being dealt with.
Dues == \A d \in All : d \in due => Registered(d)
Markers == \A a, d \in All : Marks(a, d) => Registered(d) /\ d \notin due
OneMarker == \A a, b, d \in All : Marks(a, d) /\ Marks(b, d) => a = b
Finders == \A a, d \in All, w \in Workers : Finds(a, d, w) =>
  IsPaused(d, w) /\ Role(d) = "paused" /\ pausedTasksToWorkers[d] = NoWorker
Entered == \A d \in All, w \in Workers : pausedTasksToWorkers[d] = w => IsPaused(d, w) /\ Role(d) = "paused"
MainPaused ==
  /\ pausedMainThreadDescriptor => ~settings.mainIsWorker /\ Role(Main) = "paused" /\ ~Completed(Main)
  /\ ~settings.mainIsWorker /\ Completed(Main) => Role(Main) = "paused"

\* No thread is told to end: the main thread takes no worker back.
Lasting == (\A a \in All : ~packages[a].abort_thread) /\ (pc[Main] = "reset" => restarts > 0)

Shape ==
  /\ Turns /\ Nonactive /\ Writers /\ OneWriter /\ Launchers /\ Handers /\ OneHander /\ Pausers
  /\ Spares /\ Pausing /\ Readies /\ Once
  /\ Dues /\ Markers /\ OneMarker /\ Finders /\ Entered /\ MainPaused /\ Lasting

\* A step of a leaves the other threads where they are.
Apart(a) == \A b \in All \ {a} : pc'[b] = pc[b] /\ call'[b] = call[b]

\* What the other threads do does not change.
LEMMA ApartViews ==
  ASSUME NEW a \in All, Apart(a)
  PROVE  \A b \in All \ {a} :
           /\ Role(b)' = Role(b)
           /\ \A w : Writes(b, w)' <=> Writes(b, w)
           /\ \A w : Launching(b, w)' <=> Launching(b, w)
           /\ \A d : Marks(b, d)' <=> Marks(b, d)
           /\ \A d, w : Finds(b, d, w)' <=> Finds(b, d, w)
  BY DEF Apart, Role, Writes, Launching, Marks, Finds

\* Who belongs to a worker.
LEMMA BelongsFacts ==
  ASSUME Typed
  PROVE  /\ \A a \in All, v, w \in Workers : Belongs(a, v) /\ Belongs(a, w) => v = w
         /\ \A w \in Workers : Active(w) \in All /\ Active(w) \in Known
         /\ \A a \in All, w \in Workers : Belongs(a, w) => a \in Known /\ a # Progress
         /\ \A w : ~Belongs(Progress, w)
<1>1. \A w \in Workers : Active(w) \in Known
  BY DEF Typed, WorkersTyped, WorkerType, Active
<1>2. Known \subseteq All
  BY Names DEF Known
<1>3. \A w \in Workers : w # NoWorker
  BY WorkerNumbers DEF Typed, OthersTyped
<1> QED
  BY <1>1, <1>2, <1>3, Names DEF Belongs, Known, Created

\* The search for an idle worker finds one that is idle.
LEMMA IdleFound ==
  ASSUME Typed, get_index_of_idle_thread # NoWorker
  PROVE  get_index_of_idle_thread \in Workers /\ ~Busy(get_index_of_idle_thread)
<1> DEFINE idle == {w \in next_suggested_idle_thread .. number_of_workers - 1 : ~workers[w].threadBusy}
           first == IF progressPollIdleThread THEN idle \ {pollingProgressThread} ELSE idle
<1>1. number_of_workers \in Nat \ {0} /\ next_suggested_idle_thread \in Nat
  BY SettingsAssumption DEF Typed, OthersTyped, Workers, number_of_workers
<1>2. idle \subseteq Nat /\ idle \subseteq Workers /\ first \subseteq idle
  BY <1>1 DEF Workers
<1>3. CASE first # {}
  <2>1. PICK w \in first : \A v \in first : w <= v
    BY <1>2, <1>3, Least
  <2>2. (CHOOSE v \in first : \A u \in first : v <= u) \in first
    BY <2>1, Zenon
  <2>3. get_index_of_idle_thread \in first
    BY <1>3, <2>2, Zenon DEF get_index_of_idle_thread
  <2>4. get_index_of_idle_thread \in idle
    BY <1>2, <2>3
  <2> QED
    BY <1>2, <2>4 DEF Busy
<1>4. CASE first = {}
  <2>1. CASE idle = {}
    BY <1>4, <2>1, Zenon DEF get_index_of_idle_thread
  <2>2. CASE idle # {}
    <3>1. get_index_of_idle_thread = pollingProgressThread
      BY <1>4, <2>2, Zenon DEF get_index_of_idle_thread
    <3>2. pollingProgressThread \in idle
      BY <1>4, <2>2
    <3> QED
      BY <1>2, <3>1, <3>2 DEF Busy
  <2> QED
    BY <2>1, <2>2
<1> QED
  BY <1>3, <1>4

\* The lists of the workers and their active threads stay the same.
ListsSame == \A w \in Workers :
  /\ workers'[w].activeThread = workers[w].activeThread
  /\ workers'[w].pausedThreads = workers[w].pausedThreads
  /\ workers'[w].waitingThreads = workers[w].waitingThreads
  /\ workers'[w].idleThreads = workers[w].idleThreads

\* Then so does what is said about them.
LEMMA ListsViews ==
  ASSUME ListsSame, settings' = settings
  PROVE  \A w \in Workers :
           /\ Active(w)' = Active(w)
           /\ \A d : IsPaused(d, w)' <=> IsPaused(d, w)
           /\ \A d : IsReady(d, w)' <=> IsReady(d, w)
           /\ \A d : IsSpare(d, w)' <=> IsSpare(d, w)
           /\ (OneToOne(workers[w].idleThreads) /\ OneToOne(workers[w].waitingThreads))'
                <=> (OneToOne(workers[w].idleThreads) /\ OneToOne(workers[w].waitingThreads))
<1>1. ASSUME NEW w \in Workers
      PROVE  /\ Active(w)' = Active(w)
             /\ \A d : IsPaused(d, w)' <=> IsPaused(d, w)
             /\ \A d : IsReady(d, w)' <=> IsReady(d, w)
             /\ \A d : IsSpare(d, w)' <=> IsSpare(d, w)
             /\ (OneToOne(workers[w].idleThreads) /\ OneToOne(workers[w].waitingThreads))'
                  <=> (OneToOne(workers[w].idleThreads) /\ OneToOne(workers[w].waitingThreads))
  BY <1>1 DEF ListsSame, Active, IsPaused, IsReady, IsSpare, InSeq, OneToOne
<1> QED
  BY <1>1

\* A step of a thread that is not that of a worker, and does not wait.
Aside(a) ==
  \/ a = Progress
  \/ a = Main /\ ~settings.mainIsWorker /\ Role(a) # "paused" /\ Role(a)' # "paused"

\* What changes in a step that is about nobody's turn, but may be about a command.
SameRoles(a) ==
  /\ Apart(a) /\ UNCHANGED <<settings, packages, paused, due>> /\ ListsSame
  /\ Role(a)' = Role(a) \/ Aside(a)
  /\ pc'[a] \notin {"mark", "markWaiting", "pauseMap"}
  /\ pc'[a] = "pauseActive" => Belongs(a, call'[a].worker)
  /\ pc'[Main] = "reset" => restarts' > 0

\* What is not about commands.
NoCommands ==
  /\ Turns /\ Nonactive /\ Handers /\ OneHander /\ Pausers /\ Spares /\ Pausing /\ Readies /\ Once
  /\ Dues /\ Markers /\ OneMarker /\ Finders /\ Entered /\ MainPaused /\ Lasting

\* Such a step keeps that.
LEMMA SameRolesShape ==
  ASSUME Typed, Shape, NEW a \in All, SameRoles(a)
  PROVE  /\ NoCommands' /\ Workers' = Workers
         /\ \A w \in Workers, t \in All : Active(w)' = t => Active(w) = t /\ Role(t)' = Role(t)
         /\ \A b : Completed(b)' <=> Completed(b)
<1> USE DEF Shape
<1>1. /\ settings' = settings /\ packages' = packages /\ Workers' = Workers /\ due' = due
      /\ pausedTasksToWorkers' = pausedTasksToWorkers
      /\ pausedMainThreadDescriptor' = pausedMainThreadDescriptor
  BY SameSettings DEF SameRoles, paused
<1>2. /\ \A b, w : Belongs(b, w)' <=> Belongs(b, w)
      /\ \A b : Completed(b)' <=> Completed(b)
      /\ \A d : Registered(d)' <=> Registered(d)
  BY <1>1 DEF Belongs, Completed, Registered
<1>3. /\ \A b \in All : Role(b)' = Role(b) \/ Aside(b)
      /\ \A b \in All : \A d : Marks(b, d)' => Marks(b, d)
      /\ \A b \in All : \A d, w : Finds(b, d, w)' => Finds(b, d, w)
  <2>1. \A b \in All \ {a} :
           /\ Role(b)' = Role(b)
           /\ \A d : Marks(b, d)' <=> Marks(b, d)
           /\ \A d, w : Finds(b, d, w)' <=> Finds(b, d, w)
    BY ApartViews DEF SameRoles
  <2>2. \A d : ~Marks(a, d)' /\ \A w : ~Finds(a, d, w)'
    BY DEF SameRoles, Marks, Finds
  <2> QED
    BY <2>1, <2>2 DEF SameRoles
<1>4. \A w \in Workers :
           /\ Active(w)' = Active(w)
           /\ \A d : IsPaused(d, w)' <=> IsPaused(d, w)
           /\ \A d : IsReady(d, w)' <=> IsReady(d, w)
           /\ \A d : IsSpare(d, w)' <=> IsSpare(d, w)
           /\ (OneToOne(workers[w].idleThreads) /\ OneToOne(workers[w].waitingThreads))'
                <=> (OneToOne(workers[w].idleThreads) /\ OneToOne(workers[w].waitingThreads))
  BY <1>1, ListsViews DEF SameRoles
<1>5. \A w \in Workers, b \in All : Belongs(b, w) => Role(b)' = Role(b)
  BY <1>3, BelongsFacts DEF Aside, Belongs
<1>6. Turns' /\ Nonactive'
  BY <1>1, <1>2, <1>3, <1>4, <1>5 DEF Turns, Nonactive
<1>7. \A w \in Workers, t \in All : Active(w)' = t => Active(w) = t /\ Role(t)' = Role(t)
  BY <1>4, <1>5 DEF Turns
<1>8. Handers' /\ OneHander'
  BY <1>1, <1>2, <1>3, <1>4, <1>5 DEF Turns, Handers, OneHander
<1>9. Pausers'
  <2>1. ASSUME NEW b \in All, NEW v, call'[b].worker = v, pc'[b] \in {"pauseActive", "pauseMap"}
        PROVE  Belongs(b, v) /\ (pc'[b] = "pauseMap" => b \in workers'[v].pausedThreads)
    <3>1. CASE b = a
      BY <2>1, <3>1 DEF SameRoles
    <3>2. CASE b # a
      <4>1. pc[b] = pc'[b] /\ call[b].worker = v
        BY <2>1, <3>2 DEF SameRoles, Apart
      <4>2. v \in Workers
        BY <2>1, <4>1 DEF Typed, CallsTyped, CallTyped
      <4>3. Belongs(b, v) /\ (pc'[b] = "pauseMap" => IsPaused(b, v))
        BY <2>1, <4>1 DEF Pausers
      <4> QED
        BY <4>2, <4>3 DEF SameRoles, ListsSame, IsPaused
    <3> QED
      BY <3>1, <3>2
  <2> QED
    BY <1>1, <2>1 DEF Pausers, Belongs, IsPaused
<1>10. Spares' /\ Pausing' /\ Readies' /\ Once'
  BY <1>1, <1>2, <1>3, <1>4, <1>5 DEF Spares, Pausing, Readies, Once
<1>11. Dues' /\ Markers' /\ OneMarker'
  BY <1>1, <1>2, <1>3 DEF Dues, Markers, OneMarker
<1>12. Finders' /\ Entered'
  BY <1>1, <1>2, <1>3, <1>4, <1>5 DEF Finders, Entered, Pausing
<1>13. MainPaused'
  BY <1>1, <1>2, <1>3, Names DEF MainPaused, Aside
<1>14. Lasting'
  BY <1>1 DEF Lasting, SameRoles
<1> QED
  BY <1>1, <1>2, <1>6, <1>7, <1>8, <1>9, <1>10, <1>11, <1>12, <1>13, <1>14 DEF NoCommands

\* What changes in a step that is about nobody's turn, nor about a new command.
SameTurn(a) ==
  /\ SameRoles(a)
  /\ \A w \in Workers : Busy(w)' <=> Busy(w)
  /\ pc'[a] \in Writing => pc[a] \in Writing /\ call'[a].worker = call[a].worker
  /\ \A w \in Workers : Launching(a, w)' => ~Busy(w)

\* Such a step keeps the invariant.
LEMMA SameTurnShape ==
  ASSUME Typed, Shape, NEW a \in All, SameTurn(a)
  PROVE  Shape'
<1>1. /\ NoCommands' /\ Workers' = Workers
      /\ \A w \in Workers, t \in All : Active(w)' = t => Active(w) = t /\ Role(t)' = Role(t)
      /\ \A b : Completed(b)' <=> Completed(b)
  BY SameRolesShape DEF SameTurn
<1>2. /\ \A b \in All, w \in Workers : Writes(b, w)' => Writes(b, w)
      /\ \A b \in All, w \in Workers : Launching(b, w)' => ~Busy(w)
  <2>1. \A b \in All \ {a} :
           /\ \A w : Writes(b, w)' <=> Writes(b, w)
           /\ \A w : Launching(b, w)' <=> Launching(b, w)
    BY ApartViews DEF SameTurn, SameRoles
  <2>2. /\ \A w : Writes(a, w)' => Writes(a, w)
        /\ \A w \in Workers : Launching(a, w)' => ~Busy(w)
    BY DEF SameTurn, Writes
  <2> QED
    BY <2>1, <2>2 DEF Shape, Launchers
<1>3. Writers' /\ OneWriter' /\ Launchers'
  BY <1>1, <1>2 DEF Shape, Writers, OneWriter, Launchers, SameTurn
<1> QED
  BY <1>1, <1>3 DEF Shape, NoCommands

\* A thread moves, and it is about nobody's turn.
LEMMA TurnMoves ==
  ASSUME Typed, Shape, NEW a \in All, NEW l, pc' = [pc EXCEPT ![a] = l],
         \A b \in All \ {a} : call'[b] = call[b],
         RoleOf(l, call'[a].back) = Role(a) \/ a = Progress
           \/ (a = Main /\ ~settings.mainIsWorker /\ Role(a) # "paused" /\ RoleOf(l, call'[a].back) # "paused"),
         l \notin {"mark", "markWaiting", "pauseMap", "reset"},
         l \in Writing => pc[a] \in Writing /\ call'[a].worker = call[a].worker,
         l = "awaitPoller" => ~Busy(call'[a].worker),
         l = "pauseActive" => Belongs(a, call'[a].worker),
         UNCHANGED <<settings, packages, paused, due, restarts>>,
         ListsSame, \A w \in Workers : Busy(w)' <=> Busy(w)
  PROVE  Shape'
<1>1. pc'[a] = l /\ Apart(a)
  BY DEF Typed, PlacesTyped, Apart
<1>2. Role(a)' = RoleOf(l, call'[a].back)
  BY <1>1 DEF Role
<1>3. pc'[Main] = "reset" => restarts' > 0
  BY <1>1, Names DEF Shape, Lasting, Apart
<1>5. \A w \in Workers : Launching(a, w)' => ~Busy(w)
  BY <1>1 DEF Launching
<1>4. SameTurn(a)
  BY <1>1, <1>2, <1>3, <1>5 DEF SameTurn, SameRoles, Aside
<1> QED
  BY <1>4, SameTurnShape

\* In a call a thread does for its worker what it does after it.
LEMMA RoleInCall ==
  \A back \in {"task", "sleep", "poll", "polled", "asleep"} : \A k, l \in Calls \union {back} :
     RoleOf(k, back) = RoleOf(l, back)
  BY DEF RoleOf, Calls, Polls

\* A step in a function that others call.
LEMMA TurnInCall ==
  ASSUME Typed, Shape, NEW a \in All, pc[a] \in Calls, NEW l \in Calls \union {call[a].back},
         l \notin {"mark", "markWaiting"},
         pc' = [pc EXCEPT ![a] = l], call' = call \/ \E w : call' = [call EXCEPT ![a].worker = w],
         l \in Writing => pc[a] \in Writing /\ call' = call,
         l = "awaitPoller" => ~Busy(call'[a].worker),
         UNCHANGED <<settings, packages, paused, due, restarts>>,
         ListsSame, \A w \in Workers : Busy(w)' <=> Busy(w)
  PROVE  Shape'
<1>1. call \in [All -> [arg : All \union (0 .. MaxTasks), worker : Workers \union {NoWorker}, back : Labels]]
  BY DEF Typed, CallsTyped
<1>2. call'[a].back = call[a].back /\ \A b \in All \ {a} : call'[b] = call[b]
  BY <1>1
<1>3. call[a].back \in {"task", "sleep", "poll", "polled", "asleep"}
  BY DEF Typed, CallsTyped, CallTyped, BacksOf
<1>4. RoleOf(l, call'[a].back) = Role(a)
  BY <1>2, <1>3, RoleInCall DEF Role
<1>6. \A w : l = "awaitPoller" /\ call'[a].worker = w => ~Busy(w)
  OBVIOUS
<1>5. l \notin {"pauseMap", "reset", "pauseActive"}
  BY <1>3 DEF Calls
<1> QED
  BY <1>2, <1>4, <1>5, TurnMoves

\* The lists of a worker do not change when its command or its state does.
LEMMA ListsStay ==
  ASSUME Typed,
         \/ workers' = workers
         \/ \E w \in Workers, b \in BOOLEAN : workers' = [workers EXCEPT ![w].threadBusy = b]
         \/ \E w \in Workers, b, c \in BOOLEAN : workers' = [workers EXCEPT ![w].threadBusy = b, ![w].callFunction = c]
         \/ \E w \in Workers, b \in BOOLEAN : workers' = [workers EXCEPT ![w] = [workers[w] EXCEPT !.callFunction = b]]
         \/ \E w \in Workers, b \in BOOLEAN : workers' = [workers EXCEPT ![w].callFunction = b]
         \/ \E w \in Workers : \E k : workers' = [workers EXCEPT ![w] = [workers[w] EXCEPT !.data = k]]
  PROVE  ListsSame
<1>1. workers \in [Workers -> WorkerType(Known)]
  BY DEF Typed, WorkersTyped
<1>2. CASE workers' = workers
  BY <1>2 DEF ListsSame
<1>3. ASSUME NEW w \in Workers, NEW b \in BOOLEAN, workers' = [workers EXCEPT ![w].threadBusy = b]
      PROVE  ListsSame
  BY <1>1, <1>3 DEF ListsSame, WorkerType
<1>4. ASSUME NEW w \in Workers, NEW b \in BOOLEAN, NEW c \in BOOLEAN,
             workers' = [workers EXCEPT ![w].threadBusy = b, ![w].callFunction = c]
      PROVE  ListsSame
  BY <1>1, <1>4 DEF ListsSame, WorkerType
<1>5. ASSUME NEW w \in Workers, NEW b \in BOOLEAN,
             workers' = [workers EXCEPT ![w] = [workers[w] EXCEPT !.callFunction = b]]
               \/ workers' = [workers EXCEPT ![w].callFunction = b]
      PROVE  ListsSame
  <2>1. workers' = [workers EXCEPT ![w] = [workers[w] EXCEPT !.callFunction = b]]
    BY <1>1, <1>5
  <2> QED
    BY <1>1, <2>1 DEF ListsSame, WorkerType
<1>6. ASSUME NEW w \in Workers, NEW k, workers' = [workers EXCEPT ![w] = [workers[w] EXCEPT !.data = k]]
      PROVE  ListsSame
  BY <1>1, <1>6 DEF ListsSame, WorkerType
<1> QED
  BY <1>2, <1>3, <1>4, <1>5, <1>6

\* Whether a worker is busy does not change with its command.
LEMMA BusyStays ==
  ASSUME Typed, NEW w \in Workers,
         \/ \E b \in BOOLEAN : workers' = [workers EXCEPT ![w] = [workers[w] EXCEPT !.callFunction = b]]
         \/ \E b \in BOOLEAN : workers' = [workers EXCEPT ![w].callFunction = b]
         \/ \E k : workers' = [workers EXCEPT ![w] = [workers[w] EXCEPT !.data = k]]
  PROVE  \A v \in Workers : Busy(v)' <=> Busy(v)
<1>1. workers \in [Workers -> WorkerType(Known)]
  BY DEF Typed, WorkersTyped
<1>2. ASSUME NEW b \in BOOLEAN,
             workers' = [workers EXCEPT ![w] = [workers[w] EXCEPT !.callFunction = b]]
               \/ workers' = [workers EXCEPT ![w].callFunction = b]
      PROVE  \A v \in Workers : Busy(v)' <=> Busy(v)
  BY <1>1, <1>2 DEF Busy, WorkerType
<1>3. ASSUME NEW k, workers' = [workers EXCEPT ![w] = [workers[w] EXCEPT !.data = k]]
      PROVE  \A v \in Workers : Busy(v)' <=> Busy(v)
  BY <1>1, <1>3 DEF Busy, WorkerType
<1> QED
  BY <1>2, <1>3

\* Writing a command does not change whose turn it is.
LEMMA ShapeCommand ==
  ASSUME Typed, Shape, NEW a \in All, setCallFunction(a) \/ setData(a) \/ clearCallFunction(a)
  PROVE  Shape'
<1>1. /\ pc[a] \in {"setCallFunction", "setData", "clearCallFunction"} /\ pc[a] \in Writing /\ pc[a] \in Calls
      /\ \E l \in {"setData", "resumeActive"} : pc' = [pc EXCEPT ![a] = l]
      /\ call' = call /\ UNCHANGED <<settings, packages, paused, due, restarts>>
      /\ \/ \E b \in BOOLEAN : workers' = [workers EXCEPT ![call[a].worker] = [workers[call[a].worker] EXCEPT !.callFunction = b]]
         \/ \E k : workers' = [workers EXCEPT ![call[a].worker] = [workers[call[a].worker] EXCEPT !.data = k]]
  BY DEF setCallFunction, setData, clearCallFunction, Write, At, Goto, Of, life, history, Writing, Calls
<1>2. call[a].worker \in Workers
  BY <1>1 DEF Typed, CallsTyped, CallTyped
<1>3. ListsSame
  BY <1>1, <1>2, ListsStay
<1>4. \A v \in Workers : Busy(v)' <=> Busy(v)
  BY <1>1, <1>2, BusyStays
<1> QED
  BY <1>1, <1>3, <1>4, TurnInCall DEF Calls

\* Nor does looking for a worker that polls, ...
LEMMA ShapeLaunch ==
  ASSUME Typed, Shape, NEW a \in All, launchThreadToPollForProgressIfPossible(a)
  PROVE  Shape'
<1>1. /\ pc[a] \in Calls
      /\ \/ pc' = [pc EXCEPT ![a] = call[a].back] /\ call' = call
         \/ /\ pc' = [pc EXCEPT ![a] = "awaitPoller"] /\ get_index_of_idle_thread # NoWorker
            /\ call' = [call EXCEPT ![a].worker = get_index_of_idle_thread]
      /\ UNCHANGED <<settings, packages, paused, due, restarts>> /\ workers' = workers
  BY DEF launchThreadToPollForProgressIfPossible, At, Goto, Return, life, history, Calls
<1>2. ListsSame /\ \A w \in Workers : Busy(w)' <=> Busy(w)
  BY <1>1, ListsStay DEF Busy
<1>3. call[a].back \notin {"mark", "markWaiting", "awaitPoller"} \union Writing /\ "awaitPoller" \notin Writing
  BY <1>1 DEF Typed, CallsTyped, CallTyped, BacksOf, Writing
<1>4. CASE pc' = [pc EXCEPT ![a] = call[a].back] /\ call' = call
  BY <1>1, <1>2, <1>3, <1>4, TurnInCall
<1>5. CASE /\ pc' = [pc EXCEPT ![a] = "awaitPoller"] /\ get_index_of_idle_thread # NoWorker
           /\ call' = [call EXCEPT ![a].worker = get_index_of_idle_thread]
  <2>1. ~Busy(call'[a].worker)
    BY <1>5, IdleFound DEF Typed, CallsTyped
  <2> QED
    BY <1>1, <1>2, <1>3, <1>5, <2>1, TurnInCall DEF Calls
<1> QED
  BY <1>1, <1>4, <1>5

\* ... nor telling the worker that polls.
LEMMA ShapeMarkPoller ==
  ASSUME Typed, Shape, NEW a \in All, markPoller(a)
  PROVE  Shape'
<1>1. /\ pc[a] \in Calls /\ pc' = [pc EXCEPT ![a] = call[a].back] /\ call' = call
      /\ UNCHANGED <<settings, packages, paused, due, restarts>> /\ workers' = workers
  BY DEF markPoller, At, Goto, Return, life, history, Calls
<1>2. ListsSame /\ \A w \in Workers : Busy(w)' <=> Busy(w)
  BY <1>1, ListsStay DEF Busy
<1>3. call[a].back \notin {"mark", "markWaiting", "awaitPoller"} \union Writing
  BY <1>1 DEF Typed, CallsTyped, CallTyped, BacksOf, Writing
<1> QED
  BY <1>1, <1>2, <1>3, TurnInCall DEF Calls

\* A thread of the pool goes on, and it is about nobody's turn.
LEMMA TurnInEntry ==
  ASSUME Typed, Shape, NEW t \in Threads, NEW l, pc' = [pc EXCEPT ![t] = l],
         \/ /\ pc[t] \in {"command", "loop"} /\ l \in {"task", "loop", "look"}
            /\ call' = call
         \/ /\ pc[t] \in {"idle"} \union Polls /\ l \in {"asleep"} \union Polls
            /\ call' = call
         \/ /\ pc[t] \in Polls /\ l = "launch"
            /\ call' = [call EXCEPT ![t] = [arg |-> NoTask, worker |-> NoWorker, back |-> "asleep"]],
         UNCHANGED <<settings, packages, paused, due, restarts>>,
         ListsSame, \A w \in Workers : Busy(w)' <=> Busy(w)
  PROVE  Shape'
<1>1. t \in All /\ t # Main
  BY Names
<1>2. \A b \in All \ {t} : call'[b] = call[b]
  BY DEF Typed, CallsTyped
<1>3. RoleOf(l, call'[t].back) = Role(t)
  <2>1. CASE pc[t] \in {"command", "loop"} /\ l \in {"task", "loop", "look"}
    BY <2>1 DEF Role, RoleOf
  <2>2. CASE pc[t] \in {"idle"} \union Polls /\ l \in {"asleep"} \union Polls
    BY <2>2 DEF Role, RoleOf, Calls, Polls
  <2>3. CASE /\ pc[t] \in Polls /\ l = "launch"
             /\ call' = [call EXCEPT ![t] = [arg |-> NoTask, worker |-> NoWorker, back |-> "asleep"]]
    <3>1. call'[t].back = "asleep"
      BY <1>1, <2>3 DEF Typed, CallsTyped
    <3>2. RoleOf(l, "asleep") = "rest"
      BY <2>3 DEF RoleOf, Calls
    <3>3. Role(t) = "rest"
      BY <2>3 DEF Role, RoleOf, Calls, Polls
    <3> QED
      BY <3>1, <3>2, <3>3
  <2> QED
    BY <2>1, <2>2, <2>3
<1>4. l \notin {"mark", "markWaiting", "pauseMap", "reset", "pauseActive", "awaitPoller"} \union Writing
  BY DEF Polls, Writing
<1> QED
  BY <1>1, <1>2, <1>3, <1>4, TurnMoves

\* Such are these steps of threadEntryProcedure.
LEMMA ShapeEntry ==
  ASSUME Typed, Shape, NEW t \in Threads,
         issueFunctionCall(t) \/ takeFromQueue(t) \/ lookForWaiting(t) \/ startPolling(t)
           \/ pollReturns(t) \/ checkBusy(t) \/ stopPolling(t)
  PROVE  Shape'
<1>1. UNCHANGED <<settings, packages, paused, due, restarts>>
  BY DEF issueFunctionCall, takeFromQueue, lookForWaiting, startPolling, pollReturns, checkBusy, stopPolling,
         life, history
<1>2. CASE issueFunctionCall(t)
  <2>1. /\ pc[t] = "command" /\ call' = call /\ \E l \in {"task", "loop"} : pc' = [pc EXCEPT ![t] = l]
        /\ workers' = workers \/ workers' = [workers EXCEPT ![Worker(t)].callFunction = FALSE]
    BY <1>2 DEF issueFunctionCall, At, Begin, Goto
  <2>2. Worker(t) \in Workers
    BY <2>1, AwakeThread
  <2>3. ListsSame
    BY <2>1, <2>2, ListsStay
  <2>4. \A w \in Workers : Busy(w)' <=> Busy(w)
    BY <2>1, <2>2, BusyStays DEF Busy
  <2> QED
    BY <1>1, <2>1, <2>3, <2>4, TurnInEntry
<1>3. CASE ~issueFunctionCall(t)
  <2>1. ListsSame /\ \A w \in Workers : Busy(w)' <=> Busy(w)
    <3>1. workers' = workers
      BY <1>3 DEF takeFromQueue, lookForWaiting, startPolling, pollReturns, checkBusy, stopPolling
    <3> QED
      BY <3>1, ListsStay DEF Busy
  <2>2. CASE takeFromQueue(t) \/ lookForWaiting(t)
    <3>1. /\ pc[t] = "loop" /\ call' = call /\ \E l \in {"task", "look"} : pc' = [pc EXCEPT ![t] = l]
      BY <2>2 DEF takeFromQueue, lookForWaiting, At, Begin, Goto
    <3> QED
      BY <1>1, <2>1, <3>1, TurnInEntry
  <2>3. CASE startPolling(t) \/ pollReturns(t) \/ checkBusy(t)
    <3>1. /\ pc[t] \in {"idle"} \union Polls /\ call' = call
          /\ \E l \in {"asleep"} \union Polls : pc' = [pc EXCEPT ![t] = l]
      BY <2>3 DEF startPolling, pollReturns, checkBusy, At, Goto, GoesOn, Polls
    <3> QED
      BY <1>1, <2>1, <3>1, TurnInEntry
  <2>4. CASE stopPolling(t)
    <3>1. /\ pc[t] \in Polls
          /\ \/ pc' = [pc EXCEPT ![t] = "asleep"] /\ call' = call
             \/ /\ pc' = [pc EXCEPT ![t] = "launch"]
                /\ call' = [call EXCEPT ![t] = [arg |-> NoTask, worker |-> NoWorker, back |-> "asleep"]]
      BY <2>4 DEF stopPolling, At, Goto, Call, Polls
    <3> QED
      BY <1>1, <2>1, <3>1, TurnInEntry
  <2> QED
    BY <1>3, <2>2, <2>3, <2>4
<1> QED
  BY <1>2, <1>3

\* So are those of the test for termination.
LEMMA ShapeTest ==
  ASSUME Typed, Shape, NEW a \in All,
         checkForLocalTermination(a) \/ lockMutexForFinalisationTest(a) \/ isThreadPoolFinished(a)
  PROVE  Shape'
<1>1. /\ UNCHANGED <<settings, packages, paused, due, restarts>> /\ workers' = workers /\ call' = call
      /\ pc[a] \in {"poll", "lockPool", "test"}
      /\ \E l \in Polls \union {"gone"} : pc' = [pc EXCEPT ![a] = l] /\ (l = "gone" => a = Progress)
  BY DEF checkForLocalTermination, lockMutexForFinalisationTest, isThreadPoolFinished, At, Goto, Polled, Polls,
         life, history
<1>2. ListsSame /\ \A w \in Workers : Busy(w)' <=> Busy(w)
  BY <1>1, ListsStay DEF Busy
<1>3. \A l \in Polls : RoleOf(l, call[a].back) = Role(a)
  BY <1>1 DEF Role, RoleOf, Calls, Polls
<1>4. \A l \in Polls \union {"gone"} : l \notin {"mark", "markWaiting", "pauseMap", "reset", "pauseActive", "awaitPoller"} \union Writing
  BY DEF Polls, Writing
<1> QED
  BY <1>1, <1>2, <1>3, <1>4, TurnMoves

\* And those of user code, but for the end of a wait.
LEMMA ShapeUser ==
  ASSUME Typed, Shape, NEW a \in All, Caller(a),
         \/ submit(a, BackOf(a))
         \/ pc[a] = "task" /\ edatWait(a)
         \/ pc[a] = "task" /\ a # Main /\ taskEnds(a)
         \/ pc[a] = "task" /\ a = Main /\ attachMainThread
  PROVE  Shape'
<1>1. /\ UNCHANGED <<settings, packages, paused, due, restarts>> /\ workers' = workers
      /\ \/ /\ pc' = [pc EXCEPT ![a] = "start"]
            /\ call' = [call EXCEPT ![a] = [arg |-> handed + 1, worker |-> NoWorker, back |-> BackOf(a)]]
         \/ /\ pc[a] = "task" /\ pc' = [pc EXCEPT ![a] = "pause"]
            /\ call' = [call EXCEPT ![a] = [arg |-> NoTask, worker |-> NoWorker, back |-> "task"]]
         \/ /\ pc[a] = "task" /\ call' = call
            /\ \E l \in {"loop", "notify"} : pc' = [pc EXCEPT ![a] = l]
  BY DEF submit, edatWait, taskEnds, attachMainThread, Call, Goto, life, history
<1>2. ListsSame /\ \A w \in Workers : Busy(w)' <=> Busy(w)
  BY <1>1, ListsStay DEF Busy
<1>3. \A b \in All \ {a} : call'[b] = call[b]
  BY <1>1 DEF Typed, CallsTyped
<1>4. CASE /\ pc' = [pc EXCEPT ![a] = "start"]
           /\ call' = [call EXCEPT ![a] = [arg |-> handed + 1, worker |-> NoWorker, back |-> BackOf(a)]]
  <2>1. call'[a].back = BackOf(a)
    BY <1>4 DEF Typed, CallsTyped
  <2>2. RoleOf("start", BackOf(a)) = Role(a)
    BY DEF Caller, BackOf, Polled, Role, RoleOf, Calls, Polls
  <2> QED
    BY <1>1, <1>2, <1>3, <1>4, <2>1, <2>2, TurnMoves DEF Writing
<1>5. CASE pc[a] = "task" /\ (pc' = [pc EXCEPT ![a] = "pause"] \/ \E l \in {"loop", "notify"} : pc' = [pc EXCEPT ![a] = l])
  <2>1. \A l \in {"pause", "loop", "notify"} : \A back : RoleOf(l, back) = Role(a)
    BY <1>5 DEF Role, RoleOf
  <2> QED
    BY <1>1, <1>2, <1>3, <1>5, <2>1, TurnMoves DEF Writing
<1> QED
  BY <1>1, <1>4, <1>5

\* And those of the main thread, if it is not a worker.
LEMMA ShapeMain ==
  ASSUME Typed, Shape, RestartsBeside,
         \/ setMessaging \/ mainThreadWoken \/ resetPolling
         \/ notifyMainThreadIsSleeping /\ ~settings.mainIsWorker
  PROVE  Shape'
<1>1. Main \in All /\ settings \in Settings
  BY Names DEF Typed, OthersTyped
<1>2. ~settings.mainIsWorker \/ ~resetPolling
  BY <1>1 DEF RestartsBeside, resetPolling, At, Shape, Lasting, Typed, OthersTyped
<1>3. /\ UNCHANGED <<settings, packages, paused, due, restarts>> /\ workers' = workers
      /\ \/ /\ pc[Main] \in {"init", "reset", "notify"} /\ pc' = [pc EXCEPT ![Main] = "launch"]
            /\ \E back \in {"task", "sleep"} :
                 /\ call' = [call EXCEPT ![Main] = [arg |-> NoTask, worker |-> NoWorker, back |-> back]]
                 /\ ~settings.mainIsWorker \/ (pc[Main] = "init" /\ back = "task")
         \/ /\ pc[Main] \in {"init", "reset", "notify", "sleep"} /\ call' = call
            /\ \E l \in {"task", "sleep", "finalised"} : 
                 /\ pc' = [pc EXCEPT ![Main] = l]
                 /\ \/ ~settings.mainIsWorker \/ (pc[Main] = "init" /\ l = "task")
                    \/ pc[Main] = "sleep" /\ l = "finalised"
  BY <1>2 DEF setMessaging, mainThreadWoken, resetPolling, notifyMainThreadIsSleeping, At, Goto, Call, life, history
<1>4. ListsSame /\ \A w \in Workers : Busy(w)' <=> Busy(w)
  BY <1>3, ListsStay DEF Busy
<1>5. \A b \in All \ {Main} : call'[b] = call[b]
  BY <1>1, <1>3 DEF Typed, CallsTyped
<1>6. \A l \in {"task", "sleep", "finalised", "launch"} : \A back : RoleOf(l, back) # "paused"
  BY DEF RoleOf
<1>7. Role(Main) # "paused"
  BY <1>3 DEF Role, RoleOf
<1>8. pc[Main] = "init" => /\ \A back : RoleOf("task", back) = Role(Main)
                           /\ RoleOf("launch", "task") = Role(Main)
  BY DEF Role, RoleOf, Calls
<1>9. pc[Main] = "sleep" => \A back : RoleOf("finalised", back) = Role(Main)
  BY DEF Role, RoleOf, Calls, Polls
<1>10. ASSUME NEW l \in {"task", "sleep", "finalised", "launch"}, pc' = [pc EXCEPT ![Main] = l],
              \/ RoleOf(l, call'[Main].back) = Role(Main) \/ ~settings.mainIsWorker
       PROVE  Shape'
  <2>1. RoleOf(l, call'[Main].back) # "paused"
    BY <1>6
  <2>2. l \notin {"mark", "markWaiting", "pauseMap", "reset", "pauseActive", "awaitPoller"} \union Writing
    BY DEF Writing
  <2> QED
    BY <1>1, <1>3, <1>4, <1>5, <1>7, <1>10, <2>1, <2>2, TurnMoves
<1>11. ASSUME pc[Main] \in {"init", "reset", "notify"}, pc' = [pc EXCEPT ![Main] = "launch"],
              NEW back \in {"task", "sleep"},
              call' = [call EXCEPT ![Main] = [arg |-> NoTask, worker |-> NoWorker, back |-> back]],
              ~settings.mainIsWorker \/ (pc[Main] = "init" /\ back = "task")
       PROVE  Shape'
  <2>1. call'[Main].back = back
    BY <1>1, <1>11 DEF Typed, CallsTyped
  <2> QED
    BY <1>8, <1>10, <1>11, <2>1
<1>12. ASSUME NEW l \in {"task", "sleep", "finalised"}, pc' = [pc EXCEPT ![Main] = l],
              \/ ~settings.mainIsWorker \/ (pc[Main] = "init" /\ l = "task")
              \/ pc[Main] = "sleep" /\ l = "finalised"
       PROVE  Shape'
  BY <1>8, <1>9, <1>10, <1>12
<1> QED
  BY <1>3, <1>11, <1>12

\* A worker that is settled has a thread that is at rest.
LEMMA SettledFacts ==
  ASSUME Typed, NEW w \in Workers, Settled(w)
  PROVE  Role(Active(w)) = "rest" /\ ~Completed(Active(w))
<1> DEFINE t == Active(w)
<1>1. t \in All
  BY BelongsFacts
<1>2. CASE pc[t] \in {"asleep", "idle"}
  BY <1>2 DEF Role, RoleOf, Settled, Active, Completed, Calls
<1>3. CASE owner[progress] = t
  <2>1. Polling(t)
    BY <1>1, <1>3, MutexNames, WorkerNumbers DEF Typed, Owners, Holds, OthersTyped
  <2> QED
    BY <2>1 DEF Polling, InCall, Role, RoleOf, Settled, Active, Completed, Calls, Polls
<1>4. CASE Launches(t)
  BY <1>4 DEF Launches, Role, RoleOf, Settled, Active, Completed, Calls
<1> QED
  BY <1>2, <1>3, <1>4 DEF Settled, Active, Completed

\* A thread begins to write the command of an idle worker whose thread is at rest.
LEMMA GivenShape ==
  ASSUME Typed, Shape, NEW a \in All, NEW w \in Workers,
         pc[a] \in Calls, NEW l \in Writing, pc' = [pc EXCEPT ![a] = l],
         call' = call \/ call' = [call EXCEPT ![a].worker = w], call'[a].worker = w,
         workers' = [workers EXCEPT ![w].threadBusy = TRUE],
         UNCHANGED <<settings, packages, paused, due, restarts>>,
         ~Busy(w), Settled(w), \A b \in All \ {a} : ~Launching(b, w)
  PROVE  Shape'
<1>1. call \in [All -> [arg : All \union (0 .. MaxTasks), worker : Workers \union {NoWorker}, back : Labels]]
  BY DEF Typed, CallsTyped
<1>2. call'[a].back = call[a].back /\ (\A b \in All \ {a} : call'[b] = call[b]) /\ pc'[a] = l /\ Apart(a)
  BY <1>1 DEF Typed, PlacesTyped, Apart
<1>3. call[a].back \in {"task", "sleep", "poll", "polled", "asleep"}
  BY DEF Typed, CallsTyped, CallTyped, BacksOf
<1>4. Role(a)' = Role(a)
  <2>1. l \in Calls
    BY DEF Writing, Calls
  <2> QED
    BY <1>2, <1>3, <2>1, RoleInCall DEF Role
<1>5. ListsSame
  BY ListsStay
<1>6. pc'[Main] = "reset" => restarts' > 0
  BY <1>2, Names DEF Shape, Lasting, Apart, Writing
<1>7. SameRoles(a)
  BY <1>2, <1>4, <1>5, <1>6 DEF SameRoles, Writing
<1>8. /\ NoCommands' /\ Workers' = Workers
      /\ \A v \in Workers, t \in All : Active(v)' = t => Active(v) = t /\ Role(t)' = Role(t)
      /\ \A b : Completed(b)' <=> Completed(b)
  BY <1>7, SameRolesShape
<1>9. /\ \A v \in Workers \ {w} : Busy(v)' <=> Busy(v)
      /\ Busy(w)'
  BY DEF Typed, WorkersTyped, WorkerType, Busy
<1>10. /\ \A b \in All \ {a}, v \in Workers : Writes(b, v)' <=> Writes(b, v)
       /\ \A b \in All \ {a}, v \in Workers : Launching(b, v)' <=> Launching(b, v)
       /\ \A v : Writes(a, v)' => v = w
       /\ \A v : ~Launching(a, v)'
  BY <1>2, ApartViews DEF Writes, Launching, Writing
<1>11. Role(Active(w)) = "rest" /\ ~Completed(Active(w))
  BY SettledFacts
<1>0. Writers /\ OneWriter /\ Launchers
  BY DEF Shape
<1>12. \A b \in All : ~Writes(b, w)
  <2>1. Active(w) \in All
    BY BelongsFacts
  <2> QED
    BY <2>1 DEF Shape, Writers
<1>13. ASSUME NEW b \in All, NEW t \in All, NEW v \in Workers, Writes(b, v)', Active(v)' = t
       PROVE  Role(t)' = "rest" /\ ~Completed(t)' /\ Busy(v)'
  <2>1. Active(v) = t /\ Role(t)' = Role(t) /\ (Completed(t)' <=> Completed(t))
    BY <1>8, <1>13
  <2>2. CASE b = a
    BY <1>9, <1>10, <1>11, <1>13, <2>1, <2>2
  <2>3. CASE b # a
    <3>1. Writes(b, v) /\ v # w
      BY <1>10, <1>12, <1>13, <2>3
    <3>2. Role(t) = "rest" /\ ~Completed(t) /\ Busy(v)
      BY <1>0, <2>1, <3>1 DEF Writers
    <3> QED
      BY ONLY <1>9, <2>1, <3>1, <3>2
  <2> QED
    BY <2>2, <2>3
<1>14. ASSUME NEW b \in All, NEW c \in All, NEW v \in Workers, Writes(b, v)', Writes(c, v)'
       PROVE  b = c
  BY ONLY <1>0, <1>10, <1>12, <1>14 DEF OneWriter
<1>15. ASSUME NEW b \in All, NEW v \in Workers, Launching(b, v)'
       PROVE  ~Busy(v)'
  <2>1. b # a /\ Launching(b, v) /\ v # w
    BY <1>10, <1>15
  <2> QED
    BY ONLY <1>0, <1>9, <1>15, <2>1 DEF Launchers
<1>16. Writers' /\ OneWriter' /\ Launchers'
  BY ONLY <1>8, <1>13, <1>14, <1>15 DEF Writers, OneWriter, Launchers
<1> QED
  BY <1>8, <1>16 DEF Shape, NoCommands

\* While the mutex is free, no thread is at these steps, ...
LEMMA StartFree ==
  ASSUME Typed, Free(start)
  PROVE  \A b \in All : pc[b] \notin {"awaitPoller", "pauseActive", "pauseMap", "look", "test"}
  BY WorkerNumbers, Names DEF Typed, OthersTyped, Owners, Holds, Free

\* ... and otherwise only the one that has it.
LEMMA StartHeld ==
  ASSUME Typed, NEW a \in All, pc[a] \in {"awaitPoller", "pauseActive", "pauseMap", "look", "test"}
  PROVE  \A b \in All \ {a} : pc[b] \notin {"awaitPoller", "pauseActive", "pauseMap", "look", "test"}
<1>1. start \in Mutexes
  BY WorkerNumbers DEF Typed, OthersTyped
<1>2. \A b \in All : pc[b] \in {"awaitPoller", "pauseActive", "pauseMap", "look", "test"} => owner[start] = b
  BY <1>1 DEF Typed, Owners, Holds
<1> QED
  BY <1>2

\* A worker is given a task, or the task is queued.
LEMMA ShapeStart ==
  ASSUME Typed, Shape, Calm, NEW a \in All, startThread(a)
  PROVE  Shape'
<1>1. pc[a] = "start" /\ Free(start) /\ UNCHANGED <<settings, packages, paused, due, restarts>>
  BY DEF startThread, At, life, history
<1> DEFINE w == get_index_of_idle_thread
<1>2. CASE /\ w # NoWorker /\ workers' = [workers EXCEPT ![w].threadBusy = TRUE]
           /\ call' = [call EXCEPT ![a].worker = w] /\ pc' = [pc EXCEPT ![a] = "setCallFunction"]
  <2>1. w \in Workers /\ ~Busy(w)
    BY <1>2, IdleFound
  <2>2. workers'[w].threadBusy
    BY <1>2, <2>1 DEF Typed, WorkersTyped, WorkerType
  <2>3. Settled(w)
    BY <2>1, <2>2 DEF Calm, Busy
  <2>4. \A b \in All \ {a} : ~Launching(b, w)
    BY <1>1, StartFree DEF Launching
  <2>5. call'[a].worker = w
    BY <1>2 DEF Typed, CallsTyped
  <2>6. "setCallFunction" \in Writing /\ pc[a] \in Calls
    BY <1>1 DEF Writing, Calls
  <2> HIDE DEF w
  <2> QED
    BY <1>1, <1>2, <2>1, <2>3, <2>4, <2>5, <2>6, GivenShape
<1>3. CASE workers' = workers /\ call' = call /\ Return(a)
  <2>1. ListsSame /\ \A v \in Workers : Busy(v)' <=> Busy(v)
    BY <1>3, ListsStay DEF Busy
  <2>2. call[a].back \notin {"mark", "markWaiting", "awaitPoller"} \union Writing
    BY <1>1 DEF Typed, CallsTyped, CallTyped, BacksOf, Writing, Calls
  <2> QED
    BY <1>1, <1>3, <2>1, <2>2, TurnInCall DEF Calls, Return, Goto
<1> QED
  BY <1>2, <1>3 DEF startThread, Goto

\* A worker is told to poll.
LEMMA ShapeAwaitPoller ==
  ASSUME Typed, Shape, Calm, NEW a \in All, awaitPoller(a)
  PROVE  Shape'
<1> DEFINE w == call[a].worker
<1>1. /\ pc[a] = "awaitPoller" /\ UNCHANGED <<settings, packages, paused, due, restarts>> /\ call' = call
      /\ workers' = [workers EXCEPT ![w].threadBusy = TRUE] /\ pc' = [pc EXCEPT ![a] = "clearCallFunction"]
  BY DEF awaitPoller, At, Goto, life, history
<1>2. w \in Workers
  BY <1>1 DEF Typed, CallsTyped, CallTyped
<1>3. ~Busy(w)
  BY <1>1, <1>2 DEF Shape, Launchers, Launching
<1>4. workers'[w].threadBusy
  BY <1>1, <1>2 DEF Typed, WorkersTyped, WorkerType
<1>5. Settled(w)
  BY <1>2, <1>3, <1>4 DEF Calm, Busy
<1>6. \A b \in All \ {a} : ~Launching(b, w)
  BY <1>1, StartHeld DEF Launching
<1>7. "clearCallFunction" \in Writing /\ pc[a] \in Calls
  BY <1>1 DEF Writing, Calls
<1> QED
  BY <1>1, <1>2, <1>3, <1>5, <1>6, <1>7, GivenShape

\* A thread is resumed, or its pause is over.
LEMMA CompletedSet ==
  ASSUME Typed, NEW p \in All, NEW c \in BOOLEAN, settings' = settings,
         packages' = [packages EXCEPT ![p].completed = c]
  PROVE  /\ \A a \in All : \A w : Belongs(a, w)' <=> Belongs(a, w)
         /\ Completed(p)' <=> c
         /\ \A a \in All \ {p} : Completed(a)' <=> Completed(a)
         /\ \A a \in All : packages'[a].abort_thread = packages[a].abort_thread
<1>1. \A a \in All : packages'[a].worker = packages[a].worker /\ packages'[a].abort_thread = packages[a].abort_thread
  BY DEF Typed, PackagesTyped
<1>2. packages'[p].completed = c /\ \A a \in All \ {p} : packages'[a].completed = packages[a].completed
  BY DEF Typed, PackagesTyped
<1>3. \A a \in All : \A w : Belongs(a, w)' <=> Belongs(a, w)
  BY <1>1, Names DEF Belongs
<1> QED
  BY <1>1, <1>2, <1>3 DEF Completed

\* Only one worker has a thread as its active one.
LEMMA ActiveOnce ==
  ASSUME Typed, Shape, NEW v \in Workers, NEW w \in Workers, Active(v) = Active(w)
  PROVE  v = w
<1>1. Active(w) \in All
  BY BelongsFacts
<1>2. Belongs(Active(w), v) /\ Belongs(Active(w), w)
  BY <1>1 DEF Shape, Turns
<1> QED
  BY <1>1, <1>2, BelongsFacts

\* A worker's thread is resumed, and nobody writes the worker's command any more.
LEMMA ResumedShape ==
  ASSUME Typed, Shape, NEW a \in All, NEW w \in Workers, pc[a] \in Calls, NEW l \in Calls \union {call[a].back},
         l \notin {"mark", "markWaiting", "awaitPoller"} \union Writing, pc' = [pc EXCEPT ![a] = l], call' = call,
         NEW t \in All, Active(w) = t, packages' = [packages EXCEPT ![t].completed = TRUE],
         \/ workers' = workers
         \/ workers' = [workers EXCEPT ![w].threadBusy = TRUE, ![w].callFunction = FALSE],
         UNCHANGED <<settings, paused, due, restarts>>,
         Role(t) = "rest", \A b \in All \ {a} : ~Writes(b, w), \A b \in All : ~Launching(b, w)
  PROVE  Shape'
<1>1. /\ Turns /\ Nonactive /\ Writers /\ OneWriter /\ Launchers /\ Handers /\ OneHander /\ Pausers
      /\ Spares /\ Pausing /\ Readies /\ Once
      /\ Dues /\ Markers /\ OneMarker /\ Finders /\ Entered /\ MainPaused /\ Lasting
  BY DEF Shape
<1>2. /\ Workers' = Workers /\ settings' = settings /\ due' = due /\ pausedTasksToWorkers' = pausedTasksToWorkers
      /\ pausedMainThreadDescriptor' = pausedMainThreadDescriptor
  BY SameSettings DEF paused
<1>3. Belongs(t, w)
  BY <1>1 DEF Turns
<1>4. /\ \A b \in All : \A v : Belongs(b, v)' <=> Belongs(b, v)
      /\ Completed(t)'
      /\ \A b \in All \ {t} : Completed(b)' <=> Completed(b)
      /\ \A b \in All : packages'[b].abort_thread = packages[b].abort_thread
  BY <1>3, CompletedSet
<1>5. call[a].back \in {"task", "sleep", "poll", "polled", "asleep"}
  BY DEF Typed, CallsTyped, CallTyped, BacksOf
<1>6. pc'[a] = l /\ Apart(a)
  BY DEF Typed, PlacesTyped, Apart
<1>7. /\ \A b \in All : Role(b)' = Role(b)
      /\ \A b \in All, v \in Workers : Writes(b, v)' => Writes(b, v) /\ b # a
      /\ \A b \in All, v \in Workers : Launching(b, v)' => Launching(b, v) /\ b # a
      /\ \A b, d \in All : Marks(b, d)' => Marks(b, d)
      /\ \A b, d \in All, v \in Workers : Finds(b, d, v)' => Finds(b, d, v)
  <2>1. Role(a)' = Role(a)
    BY <1>5, <1>6, RoleInCall DEF Role
  <2>2. \A v : ~Writes(a, v)' /\ ~Launching(a, v)' /\ \A d : ~Marks(a, d)' /\ ~Finds(a, d, v)'
    BY <1>6 DEF Writes, Launching, Marks, Finds
  <2> QED
    BY <1>6, <2>1, <2>2, ApartViews
<1>8. ListsSame
  BY ListsStay
<1>9. \A v \in Workers :
           /\ Active(v)' = Active(v)
           /\ \A d : IsPaused(d, v)' <=> IsPaused(d, v)
           /\ \A d : IsReady(d, v)' <=> IsReady(d, v)
           /\ \A d : IsSpare(d, v)' <=> IsSpare(d, v)
           /\ (OneToOne(workers[v].idleThreads) /\ OneToOne(workers[v].waitingThreads))'
                <=> (OneToOne(workers[v].idleThreads) /\ OneToOne(workers[v].waitingThreads))
  BY <1>2, <1>8, ListsViews
<1>10. \A v \in Workers \ {w} : Busy(v)' = Busy(v)
  BY DEF Typed, WorkersTyped, WorkerType, Busy
<1>11. \A v \in Workers : Active(v) = t => v = w
  BY ActiveOnce
<1>12. \A d : Registered(d)' <=> Registered(d)
  BY <1>2 DEF Registered
<1>13. Turns' /\ Nonactive'
  <2>1. \A u \in All : u # t \/ ~Completed(u)' => (Completed(u)' <=> Completed(u))
    BY <1>4
  <2>2. Turns'
    BY <1>1, <1>2, <1>4, <1>7, <1>9, <2>1 DEF Turns
  <2>3. \A b \in All, v \in Workers : Belongs(b, v) /\ Active(v) # b => b # t
    BY <1>3, BelongsFacts
  <2>4. Nonactive'
    BY <1>1, <1>2, <1>4, <1>7, <1>9, <2>3 DEF Nonactive
  <2> QED
    BY <2>2, <2>4
<1>14. Writers' /\ OneWriter' /\ Launchers'
  <2>1. \A b \in All, v \in Workers : Writes(b, v)' => Writes(b, v) /\ v # w
    BY <1>7
  <2>2. \A b \in All, v \in Workers : Launching(b, v)' => Launching(b, v) /\ v # w
    BY <1>7
  <2> QED
    BY ONLY <1>1, <1>2, <1>4, <1>7, <1>9, <1>10, <1>11, <2>1, <2>2 DEF Writers, OneWriter, Launchers
<1>15. Handers' /\ OneHander'
  BY <1>1, <1>2, <1>4, <1>7, <1>9 DEF Handers, OneHander
<1>16. Pausers'
  <2>1. ASSUME NEW b \in All, NEW v, call[b].worker = v, pc'[b] \in {"pauseActive", "pauseMap"}
        PROVE  Belongs(b, v)' /\ (pc'[b] = "pauseMap" => IsPaused(b, v)')
    <3>1. pc[b] = pc'[b]
      BY <1>5, <1>6, <2>1 DEF Apart, Calls
    <3>2. v \in Workers
      BY <2>1, <3>1 DEF Typed, CallsTyped, CallTyped
    <3> QED
      BY <1>1, <1>4, <1>9, <2>1, <3>1, <3>2 DEF Pausers
  <2> QED
    BY <2>1 DEF Pausers, Belongs, IsPaused
<1>17. Spares' /\ Pausing' /\ Readies' /\ Once'
  BY <1>1, <1>2, <1>4, <1>7, <1>9 DEF Spares, Pausing, Readies, Once
<1>18. Dues' /\ Markers' /\ OneMarker'
  BY <1>1, <1>2, <1>7, <1>12 DEF Dues, Markers, OneMarker
<1>19. Finders' /\ Entered'
  BY <1>1, <1>2, <1>7, <1>9 DEF Finders, Entered
<1>20. MainPaused'
  <2>1. ~settings.mainIsWorker => t # Main
    BY <1>3 DEF Belongs
  <2> QED
    BY <1>1, <1>2, <1>4, <1>7, <2>1, Names DEF MainPaused
<1>21. Lasting'
  BY <1>1, <1>4, <1>5, <1>6, Names DEF Lasting, Apart, Calls
<1> QED
  BY <1>13, <1>14, <1>15, <1>16, <1>17, <1>18, <1>19, <1>20, <1>21 DEF Shape

\* The thread of a worker with a command is resumed.
LEMMA ShapeResumeActive ==
  ASSUME Typed, Shape, NEW a \in All, resumeActive(a)
  PROVE  Shape'
<1>1. /\ pc[a] = "resumeActive" /\ UNCHANGED <<settings, paused, due, restarts>> /\ call' = call
      /\ workers' = workers /\ pc' = [pc EXCEPT ![a] = call[a].back]
      /\ packages' = [packages EXCEPT ![workers[call[a].worker].activeThread].completed = TRUE]
  BY DEF resumeActive, At, Goto, Return, resume, life, history
<1>2. PICK w \in Workers : w = call[a].worker
  BY <1>1 DEF Typed, CallsTyped, CallTyped, Writing
<1>3. PICK t \in All : t = Active(w)
  BY BelongsFacts
<1>4. Writes(a, w)
  BY <1>1, <1>2 DEF Writes, Writing
<1>5. Role(t) = "rest" /\ Busy(w)
  BY <1>3, <1>4 DEF Shape, Writers
<1>6. \A b \in All \ {a} : ~Writes(b, w)
  BY <1>4 DEF Shape, OneWriter
<1>7. \A b \in All : ~Launching(b, w)
  BY <1>5 DEF Shape, Launchers
<1>8. call[a].back \notin {"mark", "markWaiting", "awaitPoller"} \union Writing
  BY <1>1 DEF Typed, CallsTyped, CallTyped, BacksOf, Writing, Calls
<1>9. packages' = [packages EXCEPT ![t].completed = TRUE]
  BY <1>1, <1>2, <1>3 DEF Active
<1>10. pc[a] \in Calls
  BY <1>1 DEF Calls
<1> QED
  BY <1>1, <1>3, <1>5, <1>6, <1>7, <1>8, <1>9, <1>10, ResumedShape

\* An idle worker is woken for a thread that waits to go on.
LEMMA ShapeMarkBusy ==
  ASSUME Typed, Shape, Calm, NEW a \in All, markBusy(a)
  PROVE  Shape'
<1>1. /\ pc[a] = "markBusy" /\ Free(start) /\ UNCHANGED <<settings, paused, due, restarts>> /\ call' = call
      /\ pc' = [pc EXCEPT ![a] = "markPoller"] /\ pc[a] \in Calls
  BY DEF markBusy, At, Goto, life, history, Calls
<1>2. PICK w \in Workers : w = call[a].worker
  BY <1>1 DEF Typed, CallsTyped, CallTyped
<1>3. "markPoller" \in Calls /\ "markPoller" \notin {"mark", "markWaiting", "awaitPoller"} \union Writing
  BY DEF Calls, Writing
<1>4. CASE workers' = workers /\ packages' = packages
  <2>1. ListsSame /\ \A v \in Workers : Busy(v)' <=> Busy(v)
    BY <1>4, ListsStay DEF Busy
  <2> QED
    BY <1>1, <1>3, <1>4, <2>1, TurnInCall
<1>5. CASE /\ ~Busy(w) /\ workers' = [workers EXCEPT ![w].threadBusy = TRUE, ![w].callFunction = FALSE]
           /\ packages' = [packages EXCEPT ![workers[w].activeThread].completed = TRUE]
  <2>1. workers'[w].threadBusy
    BY <1>5 DEF Typed, WorkersTyped, WorkerType
  <2>2. Settled(w)
    BY <1>5, <2>1 DEF Calm, Busy
  <2>3. PICK t \in All : t = Active(w)
    BY BelongsFacts
  <2>4. Role(t) = "rest"
    BY <2>2, <2>3, SettledFacts
  <2>5. \A b \in All : ~Writes(b, w)
    BY <1>5, <2>3 DEF Shape, Writers
  <2>6. \A b \in All : ~Launching(b, w)
    BY <1>1, StartFree DEF Launching
  <2>7. packages' = [packages EXCEPT ![t].completed = TRUE]
    BY <1>5, <2>3 DEF Active
  <2> QED
    BY <1>1, <1>3, <1>5, <2>3, <2>4, <2>5, <2>6, <2>7, ResumedShape
<1> QED
  BY <1>2, <1>4, <1>5 DEF markBusy, resume, Wakes, Busy

\* A thread whose turn it is goes on.
LEMMA GoesOnShape ==
  ASSUME Typed, Shape, NEW a \in All, Completed(a), NEW l, pc' = [pc EXCEPT ![a] = l],
         Role(a) \in {"rest", "spare", "paused"}, RoleOf(l, call[a].back) = "awake",
         l \notin Calls \union Waiting, UNCHANGED <<settings, workers, paused, call, due, restarts>>,
         packages' = [packages EXCEPT ![a].completed = FALSE]
  PROVE  Shape'
<1>1. /\ Turns /\ Nonactive /\ Writers /\ OneWriter /\ Launchers /\ Handers /\ OneHander /\ Pausers
      /\ Spares /\ Pausing /\ Readies /\ Once
      /\ Dues /\ Markers /\ OneMarker /\ Finders /\ Entered /\ MainPaused /\ Lasting
  BY DEF Shape
<1>2. /\ Workers' = Workers /\ settings' = settings /\ due' = due /\ pausedTasksToWorkers' = pausedTasksToWorkers
      /\ pausedMainThreadDescriptor' = pausedMainThreadDescriptor
  BY SameSettings DEF paused
<1>3. \A v \in Workers : Belongs(a, v) => Active(v) = a
  BY <1>1 DEF Nonactive
<1>4. /\ \A b \in All : \A v : Belongs(b, v)' <=> Belongs(b, v)
      /\ ~Completed(a)'
      /\ \A b \in All \ {a} : Completed(b)' <=> Completed(b)
      /\ \A b \in All : packages'[b].abort_thread = packages[b].abort_thread
  BY CompletedSet
<1>5. pc'[a] = l /\ Apart(a)
  BY DEF Typed, PlacesTyped, Apart
<1>6. /\ Role(a)' = "awake"
      /\ \A b \in All \ {a} : Role(b)' = Role(b)
      /\ \A b \in All, v \in Workers : Writes(b, v)' => Writes(b, v) /\ b # a
      /\ \A b \in All, v \in Workers : Launching(b, v)' => Launching(b, v) /\ b # a
      /\ \A b, d \in All : Marks(b, d)' => Marks(b, d)
      /\ \A b, d \in All, v \in Workers : Finds(b, d, v)' => Finds(b, d, v)
  <2>1. Role(a)' = "awake"
    BY <1>5 DEF Role
  <2>2. \A v : ~Writes(a, v)' /\ ~Launching(a, v)' /\ \A d : ~Marks(a, d)' /\ ~Finds(a, d, v)'
    BY <1>5 DEF Writes, Launching, Marks, Finds, Calls, Writing
  <2> QED
    BY <1>5, <2>1, <2>2, ApartViews
<1>7. \A v \in Workers :
           /\ Active(v)' = Active(v) /\ (Busy(v)' <=> Busy(v))
           /\ \A d : IsPaused(d, v)' <=> IsPaused(d, v)
           /\ \A d : IsReady(d, v)' <=> IsReady(d, v)
           /\ \A d : IsSpare(d, v)' <=> IsSpare(d, v)
           /\ (OneToOne(workers[v].idleThreads) /\ OneToOne(workers[v].waitingThreads))'
                <=> (OneToOne(workers[v].idleThreads) /\ OneToOne(workers[v].waitingThreads))
  BY DEF Active, Busy, IsPaused, IsReady, IsSpare
<1>8. \A d : Registered(d)' <=> Registered(d)
  BY <1>2 DEF Registered
<1>9. Turns'
  BY <1>1, <1>2, <1>4, <1>6, <1>7 DEF Turns
<1>10. Nonactive'
  BY <1>1, <1>2, <1>3, <1>4, <1>6, <1>7 DEF Nonactive
<1>11. Writers' /\ OneWriter' /\ Launchers'
  <2>1. \A b \in All, v \in Workers : Writes(b, v) => Active(v) # a
    BY <1>1 DEF Writers
  <2> QED
    BY <1>1, <1>2, <1>4, <1>6, <1>7, <2>1 DEF Writers, OneWriter, Launchers
<1>12. Handers' /\ OneHander'
  <2>1. \A h \in All, v \in Workers : Belongs(h, v) /\ Role(h) = "handOver" => Active(v) # a
    BY <1>1 DEF Handers
  <2>2. \A b \in All : Role(b)' = "handOver" => b # a /\ Role(b) = "handOver"
    BY <1>6
  <2>3. Handers'
    BY <1>1, <1>2, <1>4, <1>6, <1>7, <2>1, <2>2 DEF Handers
  <2>4. OneHander'
    BY <1>1, <1>2, <1>4, <2>2 DEF OneHander
  <2> QED
    BY <2>3, <2>4
<1>13. Pausers'
  <2>1. ASSUME NEW b \in All, NEW v, call[b].worker = v, pc'[b] \in {"pauseActive", "pauseMap"}
        PROVE  Belongs(b, v)' /\ (pc'[b] = "pauseMap" => IsPaused(b, v)')
    <3>1. pc[b] = pc'[b]
      BY <1>5, <2>1 DEF Apart, Waiting
    <3>2. v \in Workers
      BY <2>1, <3>1 DEF Typed, CallsTyped, CallTyped
    <3> QED
      BY <1>1, <1>4, <1>7, <2>1, <3>1, <3>2 DEF Pausers
  <2> QED
    BY <2>1 DEF Pausers, Belongs, IsPaused
<1>14. Spares' /\ Pausing' /\ Readies' /\ Once'
  <2>1. \A d \in All, v \in Workers : IsSpare(d, v) \/ IsPaused(d, v) \/ IsReady(d, v) => d # a
    BY <1>1, <1>3 DEF Spares, Pausing, Readies
  <2> QED
    BY <1>1, <1>2, <1>4, <1>6, <1>7, <2>1 DEF Spares, Pausing, Readies, Once
<1>15. Dues' /\ Markers' /\ OneMarker'
  BY <1>1, <1>2, <1>6, <1>8 DEF Dues, Markers, OneMarker
<1>16. Finders' /\ Entered'
  <2>1. \A d \in All, v \in Workers : IsPaused(d, v) => d # a
    BY <1>1, <1>3 DEF Pausing
  <2>2. Finders'
    BY <1>1, <1>2, <1>6, <1>7, <2>1 DEF Finders
  <2>3. Entered'
    BY <1>1, <1>2, <1>6, <1>7, <2>1 DEF Entered
  <2> QED
    BY <2>2, <2>3
<1>17. MainPaused'
  <2>1. CASE a = Main
    BY <1>1, <1>2, <1>4, <2>1 DEF MainPaused
  <2>2. CASE a # Main
    BY <1>1, <1>2, <1>4, <1>6, <2>2, Names DEF MainPaused
  <2> QED
    BY <2>1, <2>2
<1>18. Lasting'
  <2>1. l # "reset"
    BY DEF RoleOf
  <2> QED
    BY <1>1, <1>4, <1>5, <2>1, Names DEF Lasting, Apart
<1> QED
  BY <1>9, <1>10, <1>11, <1>12, <1>13, <1>14, <1>15, <1>16, <1>17, <1>18 DEF Shape

\* A thread wakes up, comes back to its worker, or goes on after a wait.
LEMMA ShapeGoesOn ==
  ASSUME Typed, Shape, NEW a \in All, (a \in Threads /\ (wake(a) \/ reactivated(a))) \/ waitReturns(a)
  PROVE  Shape'
<1>1. /\ packages[a].completed /\ packages' = [packages EXCEPT ![a].completed = FALSE]
      /\ UNCHANGED <<settings, workers, paused, call, due, restarts>>
  BY DEF wake, reactivated, waitReturns, pauseReturns, life, history
<1>2. Completed(a)
  BY <1>1 DEF Completed
<1>3. CASE a \in Threads /\ wake(a)
  <2>1. pc[a] = "asleep" /\ pc' = [pc EXCEPT ![a] = "command"]
    BY <1>3 DEF wake, At, Goto, Shape, Lasting
  <2>2. Role(a) = "rest" /\ RoleOf("command", call[a].back) = "awake"
    BY <2>1 DEF Role, RoleOf, Calls
  <2> QED
    BY <1>1, <1>2, <2>1, <2>2, GoesOnShape DEF Calls, Waiting
<1>4. CASE a \in Threads /\ reactivated(a)
  <2>1. pc[a] = "spare" /\ pc' = [pc EXCEPT ![a] = "loop"]
    BY <1>4 DEF reactivated, At, Goto
  <2>2. Role(a) = "spare" /\ RoleOf("loop", call[a].back) = "awake"
    BY <2>1 DEF Role, RoleOf, Calls, Polls
  <2> QED
    BY <1>1, <1>2, <2>1, <2>2, GoesOnShape DEF Calls, Waiting
<1>5. CASE waitReturns(a)
  <2>1. pc[a] = "paused" /\ pc' = [pc EXCEPT ![a] = call[a].back]
    BY <1>5 DEF waitReturns, At, Goto, Return
  <2>2. call[a].back = "task"
    BY <2>1, WaitingThread DEF Waiting
  <2>3. Role(a) = "paused" /\ RoleOf("task", call[a].back) = "awake"
    BY <2>1 DEF Role, RoleOf, Calls, Polls
  <2> QED
    BY <1>1, <1>2, <2>1, <2>2, <2>3, GoesOnShape DEF Calls, Waiting
<1> QED
  BY <1>3, <1>4, <1>5

\* The thread that is awake, in a worker it belongs to, is the active one.
LEMMA AwakeActive ==
  ASSUME Typed, Shape, NEW a \in All, NEW w \in Workers, Belongs(a, w), Role(a) = "awake"
  PROVE  /\ Active(w) = a /\ ~Completed(a)
         /\ \A b \in All : ~Writes(b, w)
         /\ \A b \in All : Belongs(b, w) => Role(b) # "handOver"
<1>1. Active(w) = a /\ ~Completed(a)
  BY DEF Shape, Nonactive, Turns
<1>2. \A b \in All : ~Writes(b, w)
  BY <1>1 DEF Shape, Writers
<1>3. \A b \in All : Belongs(b, w) => Role(b) # "handOver"
  BY <1>1 DEF Shape, Handers
<1> QED
  BY <1>1, <1>2, <1>3

\* A thread of the pool that has woken up belongs to its worker.
LEMMA EntryBelongs ==
  ASSUME Typed, NEW t \in Threads, pc[t] # "asleep"
  PROVE  t \in All /\ t # Main /\ Worker(t) \in Workers /\ Belongs(t, Worker(t))
  BY AwakeThread DEF Belongs, Worker

\* The thread that was given the worker is resumed.
LEMMA ShapeResumeWaiting ==
  ASSUME Typed, Shape, NEW h \in Threads, resumeWaiting(h)
  PROVE  Shape'
<1>1. /\ Turns /\ Nonactive /\ Writers /\ OneWriter /\ Launchers /\ Handers /\ OneHander /\ Pausers
      /\ Spares /\ Pausing /\ Readies /\ Once
      /\ Dues /\ Markers /\ OneMarker /\ Finders /\ Entered /\ MainPaused /\ Lasting
  BY DEF Shape
<1>2. /\ pc[h] = "handOver" /\ UNCHANGED <<settings, workers, paused, due, restarts>> /\ call' = call
      /\ pc' = [pc EXCEPT ![h] = "spare"]
      /\ packages' = [packages EXCEPT ![workers[Worker(h)].activeThread].completed = TRUE]
  BY DEF resumeWaiting, At, Goto, resume, life, history, Spare
<1>3. PICK w \in Workers : w = Worker(h) /\ Belongs(h, w)
  BY <1>2, EntryBelongs
<1>4. PICK t \in All : t = Active(w)
  BY BelongsFacts
<1>5. h \in All /\ h # Main /\ Role(h) = "handOver"
  BY <1>2, EntryBelongs DEF Role, RoleOf, Calls, Polls
<1>6. Role(t) = "paused" /\ ~Completed(t) /\ Belongs(t, w) /\ t # h
  BY <1>1, <1>3, <1>4, <1>5 DEF Handers, Turns
<1>7. /\ Workers' = Workers /\ settings' = settings /\ due' = due /\ pausedTasksToWorkers' = pausedTasksToWorkers
      /\ pausedMainThreadDescriptor' = pausedMainThreadDescriptor
  BY <1>2, SameSettings DEF paused
<1>8. /\ \A b \in All : \A v : Belongs(b, v)' <=> Belongs(b, v)
      /\ Completed(t)'
      /\ \A b \in All \ {t} : Completed(b)' <=> Completed(b)
      /\ \A b \in All : packages'[b].abort_thread = packages[b].abort_thread
  BY <1>2, <1>3, <1>4, CompletedSet DEF Active
<1>9. pc'[h] = "spare" /\ Apart(h)
  BY <1>2, <1>5 DEF Typed, PlacesTyped, Apart
<1>10. /\ Role(h)' = "spare"
       /\ \A b \in All \ {h} : Role(b)' = Role(b)
       /\ \A b \in All, v \in Workers : Writes(b, v)' => Writes(b, v)
       /\ \A b \in All, v \in Workers : Launching(b, v)' => Launching(b, v)
       /\ \A b, d \in All : Marks(b, d)' => Marks(b, d)
       /\ \A b, d \in All, v \in Workers : Finds(b, d, v)' => Finds(b, d, v)
  <2>1. Role(h)' = "spare"
    BY <1>9 DEF Role, RoleOf, Calls, Polls
  <2>2. \A v : ~Writes(h, v)' /\ ~Launching(h, v)' /\ \A d : ~Marks(h, d)' /\ ~Finds(h, d, v)'
    BY <1>9 DEF Writes, Launching, Marks, Finds, Writing
  <2> QED
    BY <1>5, <1>9, <2>1, <2>2, ApartViews
<1>11. \A v \in Workers :
           /\ Active(v)' = Active(v) /\ (Busy(v)' <=> Busy(v))
           /\ \A d : IsPaused(d, v)' <=> IsPaused(d, v)
           /\ \A d : IsReady(d, v)' <=> IsReady(d, v)
           /\ \A d : IsSpare(d, v)' <=> IsSpare(d, v)
           /\ (OneToOne(workers[v].idleThreads) /\ OneToOne(workers[v].waitingThreads))'
                <=> (OneToOne(workers[v].idleThreads) /\ OneToOne(workers[v].waitingThreads))
  BY <1>2 DEF Active, Busy, IsPaused, IsReady, IsSpare
<1>12. \A d : Registered(d)' <=> Registered(d)
  BY <1>7 DEF Registered
<1>13. \A v \in Workers : Active(v) # h
  BY <1>1, <1>5 DEF Turns
<1>14. \A v \in Workers : Active(v) = t => v = w
  BY <1>4, ActiveOnce
<1>15. Turns'
  BY <1>1, <1>6, <1>7, <1>8, <1>10, <1>11, <1>13 DEF Turns
<1>16. Nonactive'
  <2>1. \A b \in All, v \in Workers : Belongs(b, v) /\ Active(v) # b => b # t
    BY <1>4, <1>6, BelongsFacts
  <2> QED
    BY <1>1, <1>5, <1>7, <1>8, <1>10, <1>11, <2>1 DEF Nonactive
<1>17. Writers' /\ OneWriter' /\ Launchers'
  <2>1. \A b \in All, v \in Workers : Writes(b, v) => Active(v) # t
    BY <1>1, <1>6 DEF Writers
  <2>2. Writers'
    BY <1>1, <1>7, <1>8, <1>10, <1>11, <1>13, <2>1 DEF Writers
  <2> QED
    BY <1>1, <1>7, <1>10, <1>11, <2>2 DEF OneWriter, Launchers
<1>18. Handers' /\ OneHander'
  <2>1. \A b \in All : Role(b)' = "handOver" => b # h /\ Role(b) = "handOver"
    BY <1>10
  <2>2. \A b \in All, v \in Workers : Belongs(b, v) /\ Role(b)' = "handOver" => v # w
    BY <1>1, <1>3, <1>5, <2>1 DEF OneHander
  <2>3. Handers'
    BY <1>1, <1>7, <1>8, <1>10, <1>11, <1>13, <1>14, <2>1, <2>2 DEF Handers
  <2>4. OneHander'
    BY <1>1, <1>7, <1>8, <2>1 DEF OneHander
  <2> QED
    BY <2>3, <2>4
<1>19. Pausers'
  <2>1. ASSUME NEW b \in All, NEW v, call[b].worker = v, pc'[b] \in {"pauseActive", "pauseMap"}
        PROVE  Belongs(b, v)' /\ (pc'[b] = "pauseMap" => IsPaused(b, v)')
    <3>1. pc[b] = pc'[b]
      BY <1>9, <2>1 DEF Apart
    <3>2. v \in Workers
      BY <2>1, <3>1 DEF Typed, CallsTyped, CallTyped
    <3> QED
      BY <1>1, <1>8, <1>11, <2>1, <3>1, <3>2 DEF Pausers
  <2> QED
    BY <1>2, <2>1 DEF Pausers, Belongs, IsPaused
<1>20. Spares' /\ Pausing' /\ Readies' /\ Once'
  BY <1>1, <1>5, <1>7, <1>8, <1>10, <1>11 DEF Spares, Pausing, Readies, Once
<1>21. Dues' /\ Markers' /\ OneMarker'
  BY <1>1, <1>7, <1>10, <1>12 DEF Dues, Markers, OneMarker
<1>22. Finders' /\ Entered'
  BY <1>1, <1>5, <1>7, <1>10, <1>11 DEF Finders, Entered
<1>23. MainPaused'
  <2>1. ~settings.mainIsWorker => t # Main
    BY <1>6 DEF Belongs
  <2> QED
    BY <1>1, <1>5, <1>7, <1>8, <1>10, <2>1, Names DEF MainPaused
<1>24. Lasting'
  BY <1>1, <1>2, <1>5, <1>8, <1>9, Names DEF Lasting, Apart
<1> QED
  BY <1>15, <1>16, <1>17, <1>18, <1>19, <1>20, <1>21, <1>22, <1>23, <1>24 DEF Shape

\* A worker that has nothing to do becomes idle.
LEMMA ShapeGoIdle ==
  ASSUME Typed, Shape, NEW t \in Threads, goIdle(t)
  PROVE  Shape'
<1>1. /\ Turns /\ Nonactive /\ Writers /\ OneWriter /\ Launchers /\ Handers /\ OneHander /\ Pausers
      /\ Spares /\ Pausing /\ Readies /\ Once
      /\ Dues /\ Markers /\ OneMarker /\ Finders /\ Entered /\ MainPaused /\ Lasting
  BY DEF Shape
<1>2. /\ pc[t] = "look" /\ UNCHANGED <<settings, packages, paused, due, restarts>> /\ call' = call
      /\ pc' = [pc EXCEPT ![t] = "idle"] /\ workers' = [workers EXCEPT ![Worker(t)].threadBusy = FALSE]
  BY DEF goIdle, At, Goto, life, history
<1>3. PICK w \in Workers : w = Worker(t) /\ Belongs(t, w)
  BY <1>2, EntryBelongs
<1>4. t \in All /\ t # Main /\ Role(t) = "awake"
  BY <1>2, EntryBelongs DEF Role, RoleOf
<1>5. /\ Active(w) = t /\ ~Completed(t) /\ (\A b \in All : ~Writes(b, w))
      /\ \A b \in All : Belongs(b, w) => Role(b) # "handOver"
  BY <1>3, <1>4, AwakeActive
<1>6. /\ Workers' = Workers /\ settings' = settings /\ due' = due /\ pausedTasksToWorkers' = pausedTasksToWorkers
      /\ pausedMainThreadDescriptor' = pausedMainThreadDescriptor
  BY <1>2, SameSettings DEF paused
<1>7. /\ \A b, v : Belongs(b, v)' <=> Belongs(b, v)
      /\ \A b : Completed(b)' <=> Completed(b)
      /\ \A d : Registered(d)' <=> Registered(d)
  BY <1>2, <1>6 DEF Belongs, Completed, Registered
<1>8. pc'[t] = "idle" /\ Apart(t)
  BY <1>2, <1>4 DEF Typed, PlacesTyped, Apart
<1>9. /\ Role(t)' = "rest"
      /\ \A b \in All \ {t} : Role(b)' = Role(b)
      /\ \A b \in All, v \in Workers : Writes(b, v)' => Writes(b, v)
      /\ \A b \in All, v \in Workers : Launching(b, v)' => Launching(b, v)
      /\ \A b, d \in All : Marks(b, d)' => Marks(b, d)
      /\ \A b, d \in All, v \in Workers : Finds(b, d, v)' => Finds(b, d, v)
  <2>1. Role(t)' = "rest"
    BY <1>8 DEF Role, RoleOf, Calls
  <2>2. \A v : ~Writes(t, v)' /\ ~Launching(t, v)' /\ \A d : ~Marks(t, d)' /\ ~Finds(t, d, v)'
    BY <1>8 DEF Writes, Launching, Marks, Finds, Writing
  <2> QED
    BY <1>4, <1>8, <2>1, <2>2, ApartViews
<1>10. ListsSame
  BY <1>2, <1>3, ListsStay
<1>11. \A v \in Workers :
           /\ Active(v)' = Active(v)
           /\ \A d : IsPaused(d, v)' <=> IsPaused(d, v)
           /\ \A d : IsReady(d, v)' <=> IsReady(d, v)
           /\ \A d : IsSpare(d, v)' <=> IsSpare(d, v)
           /\ (OneToOne(workers[v].idleThreads) /\ OneToOne(workers[v].waitingThreads))'
                <=> (OneToOne(workers[v].idleThreads) /\ OneToOne(workers[v].waitingThreads))
  BY <1>6, <1>10, ListsViews
<1>12. ~Busy(w)' /\ \A v \in Workers \ {w} : Busy(v)' = Busy(v)
  BY <1>2, <1>3 DEF Typed, WorkersTyped, WorkerType, Busy
<1>13. \A v \in Workers : Active(v) = t => v = w
  BY <1>5, ActiveOnce
<1>14. \A b \in All, v \in Workers : Belongs(b, v) /\ Active(v) # b => b # t
  BY <1>3, <1>5, BelongsFacts
<1>15. Turns'
  BY <1>1, <1>5, <1>6, <1>7, <1>9, <1>11 DEF Turns
<1>16. Nonactive'
  BY <1>1, <1>6, <1>7, <1>9, <1>11, <1>14 DEF Nonactive
<1>17. Writers' /\ OneWriter' /\ Launchers'
  <2>1. Writers'
    BY <1>1, <1>5, <1>6, <1>7, <1>9, <1>11, <1>12, <1>13 DEF Writers
  <2>2. Launchers'
    BY <1>1, <1>6, <1>9, <1>12 DEF Launchers
  <2> QED
    BY <1>1, <1>6, <1>9, <2>1, <2>2 DEF OneWriter
<1>18. Handers' /\ OneHander'
  <2>1. \A b \in All : Role(b)' = "handOver" => b # t /\ Role(b) = "handOver"
    BY <1>9
  <2>2. \A b \in All, v \in Workers : Belongs(b, v) /\ Role(b) = "handOver" => v # w
    BY <1>5
  <2>3. Handers'
    BY <1>1, <1>6, <1>7, <1>9, <1>11, <1>13, <2>1, <2>2 DEF Handers
  <2>4. OneHander'
    BY <1>1, <1>6, <1>7, <2>1 DEF OneHander
  <2> QED
    BY <2>3, <2>4
<1>19. Pausers'
  <2>1. ASSUME NEW b \in All, NEW v, call[b].worker = v, pc'[b] \in {"pauseActive", "pauseMap"}
        PROVE  Belongs(b, v)' /\ (pc'[b] = "pauseMap" => IsPaused(b, v)')
    <3>1. pc[b] = pc'[b]
      BY <1>8, <2>1 DEF Apart
    <3>2. v \in Workers
      BY <2>1, <3>1 DEF Typed, CallsTyped, CallTyped
    <3> QED
      BY <1>1, <1>7, <1>11, <2>1, <3>1, <3>2 DEF Pausers
  <2> QED
    BY <1>2, <2>1 DEF Pausers, Belongs, IsPaused
<1>20. Spares' /\ Pausing' /\ Readies' /\ Once'
  <2>1. \A d \in All, v \in Workers : IsSpare(d, v) \/ IsPaused(d, v) \/ IsReady(d, v) => d # t
    BY <1>1, <1>14 DEF Spares, Pausing, Readies
  <2> QED
    BY <1>1, <1>6, <1>7, <1>9, <1>11, <2>1 DEF Spares, Pausing, Readies, Once
<1>21. Dues' /\ Markers' /\ OneMarker'
  BY <1>1, <1>6, <1>7, <1>9 DEF Dues, Markers, OneMarker
<1>22. Finders' /\ Entered'
  BY <1>1, <1>4, <1>6, <1>9, <1>11 DEF Finders, Entered
<1>23. MainPaused'
  BY <1>1, <1>4, <1>6, <1>7, <1>9, Names DEF MainPaused
<1>24. Lasting'
  BY <1>1, <1>2, <1>4, <1>8, Names DEF Lasting, Apart
<1> QED
  BY <1>15, <1>16, <1>17, <1>18, <1>19, <1>20, <1>21, <1>22, <1>23, <1>24 DEF Shape

\* What is in a list when its first element is taken away.
LEMMA TailFacts ==
  ASSUME NEW S, NEW s \in Seq(S), s # <<>>
  PROVE  /\ InSeq(Head(s), s) /\ Head(s) \in S
         /\ \A e : InSeq(e, Tail(s)) => InSeq(e, s)
         /\ OneToOne(s) => OneToOne(Tail(s)) /\ ~InSeq(Head(s), Tail(s))
<1>1. /\ Len(s) \in Nat \ {0} /\ Len(Tail(s)) = Len(s) - 1 /\ Head(s) = s[1] /\ s[1] \in S
      /\ \A i \in 1 .. Len(s) - 1 : Tail(s)[i] = s[i + 1]
  OBVIOUS
<1>2. InSeq(Head(s), s) /\ Head(s) \in S
  BY <1>1 DEF InSeq
<1>3. ASSUME NEW e, InSeq(e, Tail(s)) PROVE \E i \in 2 .. Len(s) : s[i] = e
  <2>1. PICK i \in 1 .. Len(s) - 1 : Tail(s)[i] = e
    BY <1>1, <1>3 DEF InSeq
  <2>2. i + 1 \in 2 .. Len(s) /\ s[i + 1] = e
    BY <1>1, <2>1
  <2> QED
    BY <2>2
<1>4. \A e : InSeq(e, Tail(s)) => InSeq(e, s)
  BY <1>1, <1>3 DEF InSeq
<1>5. ASSUME OneToOne(s) PROVE OneToOne(Tail(s)) /\ ~InSeq(Head(s), Tail(s))
  <2>1. OneToOne(Tail(s))
    <3> SUFFICES ASSUME NEW i \in 1 .. Len(Tail(s)), NEW j \in 1 .. Len(Tail(s)), Tail(s)[i] = Tail(s)[j]
                 PROVE  i = j
      BY DEF OneToOne
    <3>1. i + 1 \in 1 .. Len(s) /\ j + 1 \in 1 .. Len(s) /\ s[i + 1] = s[j + 1]
      BY <1>1
    <3>2. i + 1 = j + 1
      BY <1>5, <3>1 DEF OneToOne
    <3> QED
      BY <1>1, <3>2
  <2>2. ~InSeq(Head(s), Tail(s))
    BY <1>1, <1>3, <1>5 DEF OneToOne
  <2> QED
    BY <2>1, <2>2
<1> QED
  BY <1>2, <1>4, <1>5

\* What is in a list when an element is added.
LEMMA AppendFacts ==
  ASSUME NEW S, NEW s \in Seq(S), NEW x \in S
  PROVE  /\ \A e : InSeq(e, Append(s, x)) <=> InSeq(e, s) \/ e = x
         /\ OneToOne(s) /\ ~InSeq(x, s) => OneToOne(Append(s, x))
<1> DEFINE u == Append(s, x)
<1>1. /\ Len(s) \in Nat /\ Len(u) = Len(s) + 1 /\ u[Len(s) + 1] = x
      /\ \A i \in 1 .. Len(s) : u[i] = s[i]
  OBVIOUS
<1>2. \A i \in 1 .. Len(u) : i \in 1 .. Len(s) \/ i = Len(s) + 1
  BY <1>1
<1> HIDE DEF u
<1>3. \A e : InSeq(e, u) <=> InSeq(e, s) \/ e = x
  BY <1>1, <1>2 DEF InSeq
<1>4. OneToOne(s) /\ ~InSeq(x, s) => OneToOne(u)
  BY <1>1, <1>2 DEF InSeq, OneToOne
<1> QED
  BY <1>3, <1>4 DEF u

\* A thread that waits to go on gets the worker.
LEMMA ShapeHandOver ==
  ASSUME Typed, Shape, NEW t \in Threads, handOver(t)
  PROVE  Shape'
<1>1. /\ Turns /\ Nonactive /\ Writers /\ OneWriter /\ Launchers /\ Handers /\ OneHander /\ Pausers
      /\ Spares /\ Pausing /\ Readies /\ Once
      /\ Dues /\ Markers /\ OneMarker /\ Finders /\ Entered /\ MainPaused /\ Lasting
  BY DEF Shape
<1>2. /\ pc[t] = "look" /\ UNCHANGED <<settings, packages, paused, due, restarts>> /\ call' = call
      /\ pc' = [pc EXCEPT ![t] = "handOver"] /\ workers[Worker(t)].waitingThreads # <<>>
      /\ workers' = [workers EXCEPT ![Worker(t)].activeThread = Head(workers[Worker(t)].waitingThreads),
                                    ![Worker(t)].waitingThreads = Tail(@),
                                    ![Worker(t)].idleThreads = Append(@, t)]
  BY DEF handOver, At, Goto, life, history
<1>3. PICK w \in Workers : w = Worker(t) /\ Belongs(t, w)
  BY <1>2, EntryBelongs
<1>4. t \in All /\ t # Main /\ Role(t) = "awake"
  BY <1>2, EntryBelongs DEF Role, RoleOf
<1>5. /\ Active(w) = t /\ ~Completed(t) /\ (\A b \in All : ~Writes(b, w))
      /\ \A b \in All : Belongs(b, w) => Role(b) # "handOver"
  BY <1>3, <1>4, AwakeActive
<1>6. /\ Workers' = Workers /\ settings' = settings /\ due' = due /\ pausedTasksToWorkers' = pausedTasksToWorkers
      /\ pausedMainThreadDescriptor' = pausedMainThreadDescriptor
  BY <1>2, SameSettings DEF paused
<1>7. /\ \A b, v : Belongs(b, v)' <=> Belongs(b, v)
      /\ \A b : Completed(b)' <=> Completed(b)
      /\ \A d : Registered(d)' <=> Registered(d)
  BY <1>2, <1>6 DEF Belongs, Completed, Registered
<1>8. pc'[t] = "handOver" /\ Apart(t)
  BY <1>2, <1>4 DEF Typed, PlacesTyped, Apart
<1>9. /\ Role(t)' = "handOver"
      /\ \A b \in All \ {t} : Role(b)' = Role(b)
      /\ \A b \in All, v \in Workers : Writes(b, v)' => Writes(b, v)
      /\ \A b \in All, v \in Workers : Launching(b, v)' => Launching(b, v)
      /\ \A b, d \in All : Marks(b, d)' => Marks(b, d)
      /\ \A b, d \in All, v \in Workers : Finds(b, d, v)' => Finds(b, d, v)
  <2>1. Role(t)' = "handOver"
    BY <1>8 DEF Role, RoleOf, Calls, Polls
  <2>2. \A v : ~Writes(t, v)' /\ ~Launching(t, v)' /\ \A d : ~Marks(t, d)' /\ ~Finds(t, d, v)'
    BY <1>8 DEF Writes, Launching, Marks, Finds, Writing
  <2> QED
    BY <1>4, <1>8, <2>1, <2>2, ApartViews
<1> DEFINE s == workers[w].waitingThreads
           d == Head(s)
<1>10. workers[w] \in WorkerType(Known) /\ s \in Seq(Known) /\ workers[w].idleThreads \in Seq(Known \ {Main})
       /\ t \in Known \ {Main}
  BY <1>2, <1>4, AwakeThread DEF Typed, WorkersTyped, WorkerType
<1>11. /\ \A v \in Workers \ {w} : workers'[v] = workers[v]
       /\ workers'[w].activeThread = d /\ workers'[w].waitingThreads = Tail(s)
       /\ workers'[w].idleThreads = Append(workers[w].idleThreads, t)
       /\ workers'[w].pausedThreads = workers[w].pausedThreads
       /\ workers'[w].threadBusy = workers[w].threadBusy
  BY <1>2, <1>3, <1>10 DEF Typed, WorkersTyped, WorkerType
<1>12. /\ IsReady(d, w) /\ d \in Known /\ d \in All
       /\ \A e : InSeq(e, Tail(s)) => InSeq(e, s)
       /\ OneToOne(Tail(s)) /\ ~InSeq(d, Tail(s))
  <2>1. Known \subseteq All
    BY Names DEF Known
  <2>2. OneToOne(s)
    BY <1>1 DEF Once
  <2> QED
    BY <1>2, <1>3, <1>10, <2>1, <2>2, TailFacts DEF IsReady
<1>13. Belongs(d, w) /\ Role(d) = "paused" /\ ~IsPaused(d, w) /\ d # t /\ ~Completed(d)
  BY <1>1, <1>5, <1>12 DEF Readies, Nonactive
<1> HIDE DEF d
<1>14. /\ \A v \in Workers \ {w} : Active(v)' = Active(v)
       /\ Active(w)' = d
       /\ \A v \in Workers : Busy(v)' = Busy(v)
       /\ \A v \in Workers, e \in All : IsPaused(e, v)' <=> IsPaused(e, v)
  BY <1>11 DEF Active, Busy, IsPaused
<1>15. \A v \in Workers, e \in All : IsReady(e, v)' => IsReady(e, v) /\ (v = w => e # d)
  BY <1>11, <1>12 DEF IsReady
<1>16. \A v \in Workers, e \in All : IsSpare(e, v)' => IsSpare(e, v) \/ (v = w /\ e = t)
  <2>1. \A e : InSeq(e, workers'[w].idleThreads) <=> InSeq(e, workers[w].idleThreads) \/ e = t
    BY <1>10, <1>11, AppendFacts
  <2> QED
    BY <1>11, <2>1 DEF IsSpare
<1>17. Once'
  <2>1. ~InSeq(t, workers[w].idleThreads) /\ OneToOne(workers[w].idleThreads)
    BY <1>1, <1>4, <1>5 DEF Spares, IsSpare, Once
  <2>2. OneToOne(workers'[w].idleThreads)
    BY <1>10, <1>11, <2>1, AppendFacts
  <2>3. OneToOne(workers'[w].waitingThreads)
    BY <1>11, <1>12
  <2>4. ASSUME NEW v \in Workers PROVE OneToOne(workers'[v].idleThreads) /\ OneToOne(workers'[v].waitingThreads)
    BY <1>1, <1>11, <2>2, <2>3 DEF Once
  <2> QED
    BY <1>6, <2>4 DEF Once, OneToOne
<1>18. \A v \in Workers \ {w} : Active(v) # t /\ Active(v) # d
  BY <1>1, <1>3, <1>12, <1>13, <1>4, BelongsFacts DEF Turns
<1>19. Turns'
  BY <1>1, <1>6, <1>7, <1>9, <1>13, <1>14, <1>18 DEF Turns
<1>20. Nonactive'
  <2>1. ASSUME NEW v \in Workers, NEW b \in All, Belongs(b, v), Active(v)' # b
        PROVE  ~Completed(b) /\ Role(b)' \notin {"awake", "rest"}
    <3>1. CASE b = t
      BY <1>5, <1>9, <3>1
    <3>2. CASE b # t
      <4>1. Active(v) # b
        BY <1>5, <1>14, <2>1, <3>2
      <4> QED
        BY <1>1, <1>9, <2>1, <3>2, <4>1 DEF Nonactive
    <3> QED
      BY <3>1, <3>2
  <2> QED
    BY <1>6, <1>7, <2>1 DEF Nonactive
<1>21. Writers' /\ OneWriter' /\ Launchers'
  <2>1. Writers'
    BY <1>1, <1>5, <1>6, <1>7, <1>9, <1>14, <1>18 DEF Writers
  <2>2. Launchers'
    BY <1>1, <1>6, <1>9, <1>14 DEF Launchers
  <2> QED
    BY <1>1, <1>6, <1>9, <2>1, <2>2 DEF OneWriter
<1>22. Handers' /\ OneHander'
  <2>1. \A b \in All, v \in Workers : Belongs(b, v) /\ Role(b)' = "handOver" => (v = w /\ b = t) \/ (v # w /\ b # t /\ Role(b) = "handOver")
    BY <1>3, <1>4, <1>5, <1>9, BelongsFacts
  <2>2. Handers'
    BY <1>1, <1>6, <1>7, <1>9, <1>13, <1>14, <1>18, <2>1 DEF Handers
  <2>3. OneHander'
    BY <1>1, <1>6, <1>7, <2>1 DEF OneHander
  <2> QED
    BY <2>2, <2>3
<1>23. Pausers'
  <2>1. ASSUME NEW b \in All, NEW v, call[b].worker = v, pc'[b] \in {"pauseActive", "pauseMap"}
        PROVE  Belongs(b, v)' /\ (pc'[b] = "pauseMap" => IsPaused(b, v)')
    <3>1. pc[b] = pc'[b]
      BY <1>8, <2>1 DEF Apart
    <3>2. v \in Workers
      BY <2>1, <3>1 DEF Typed, CallsTyped, CallTyped
    <3> QED
      BY <1>1, <1>7, <1>14, <2>1, <3>1, <3>2 DEF Pausers
  <2> QED
    BY <1>2, <2>1 DEF Pausers, Belongs, IsPaused
<1>24. Spares'
  BY <1>1, <1>3, <1>6, <1>7, <1>9, <1>13, <1>14, <1>16 DEF Spares
<1>25. Pausing' /\ Readies'
  <2>1. \A e \in All, v \in Workers : IsPaused(e, v) \/ IsReady(e, v) => e # t
    BY <1>1, <1>4 DEF Pausing, Readies
  <2>2. \A e \in All, v \in Workers : IsPaused(e, v) => Active(v)' # e
    BY <1>1, <1>13, <1>14 DEF Pausing
  <2>3. Pausing'
    BY <1>1, <1>6, <1>7, <1>9, <1>14, <2>1, <2>2 DEF Pausing
  <2>4. \A e \in All, v \in Workers : IsReady(e, v)' => Active(v)' # e
    BY <1>1, <1>14, <1>15 DEF Readies
  <2>5. Readies'
    BY <1>1, <1>6, <1>7, <1>9, <1>14, <1>15, <2>1, <2>4 DEF Readies
  <2> QED
    BY <2>3, <2>5
<1>26. Dues' /\ Markers' /\ OneMarker'
  BY <1>1, <1>6, <1>7, <1>9 DEF Dues, Markers, OneMarker
<1>27. Finders' /\ Entered'
  BY <1>1, <1>4, <1>6, <1>9, <1>14 DEF Finders, Entered
<1>28. MainPaused'
  BY <1>1, <1>4, <1>6, <1>7, <1>9, Names DEF MainPaused
<1>29. Lasting'
  BY <1>1, <1>2, <1>4, <1>8, Names DEF Lasting, Apart
<1> QED
  BY <1>17, <1>19, <1>20, <1>21, <1>22, <1>23, <1>24, <1>25, <1>26, <1>27, <1>28, <1>29 DEF Shape

\* A thread that is to go on is found among those that have paused.
LEMMA ShapeMarkWaiting ==
  ASSUME Typed, Shape, NEW a \in All, markWaiting(a)
  PROVE  Shape' /\ pc'[a] # "error"
<1>1. /\ Turns /\ Nonactive /\ Writers /\ OneWriter /\ Launchers /\ Handers /\ OneHander /\ Pausers
      /\ Spares /\ Pausing /\ Readies /\ Once
      /\ Dues /\ Markers /\ OneMarker /\ Finders /\ Entered /\ MainPaused /\ Lasting
  BY DEF Shape
<1>2. pc[a] = "markWaiting" /\ UNCHANGED <<settings, packages, paused, due, restarts>> /\ call' = call
  BY DEF markWaiting, At, life, history
<1>3. PICK w \in Workers : w = call[a].worker
  BY <1>2 DEF Typed, CallsTyped, CallTyped
<1>4. PICK d \in All : d = call[a].arg /\ d \in Known
  <2>1. call[a].arg \in Known
    BY <1>2 DEF Typed, CallsTyped, CallTyped
  <2> QED
    BY <2>1, Names DEF Known
<1>5. Finds(a, d, w)
  BY <1>2, <1>3, <1>4 DEF Finds
<1>6. IsPaused(d, w) /\ Role(d) = "paused" /\ pausedTasksToWorkers[d] = NoWorker
  BY <1>1, <1>5 DEF Finders
<1>7. Belongs(d, w) /\ Active(w) # d
  BY <1>1, <1>6 DEF Pausing
<1>8. /\ workers' = [workers EXCEPT ![w].pausedThreads = @ \ {d}, ![w].waitingThreads = Append(@, d)]
      /\ pc' = [pc EXCEPT ![a] = "markBusy"]
  BY <1>3, <1>4, <1>6 DEF markWaiting, Goto, IsPaused
<1>9. /\ Workers' = Workers /\ settings' = settings /\ due' = due /\ pausedTasksToWorkers' = pausedTasksToWorkers
      /\ pausedMainThreadDescriptor' = pausedMainThreadDescriptor
  BY <1>2, SameSettings DEF paused
<1>10. /\ \A b, v : Belongs(b, v)' <=> Belongs(b, v)
       /\ \A b : Completed(b)' <=> Completed(b)
       /\ \A e : Registered(e)' <=> Registered(e)
  BY <1>2, <1>9 DEF Belongs, Completed, Registered
<1>11. pc'[a] = "markBusy" /\ Apart(a)
  BY <1>2, <1>8 DEF Typed, PlacesTyped, Apart
<1>12. call[a].back \in {"task", "sleep", "poll", "polled", "asleep"}
  BY <1>2 DEF Typed, CallsTyped, CallTyped, BacksOf, Calls
<1>13. /\ \A b \in All : Role(b)' = Role(b)
       /\ \A b \in All, v \in Workers : Writes(b, v)' => Writes(b, v)
       /\ \A b \in All, v \in Workers : Launching(b, v)' => Launching(b, v)
       /\ \A b, e \in All : Marks(b, e)' => Marks(b, e)
       /\ \A b, e \in All, v \in Workers : Finds(b, e, v)' => Finds(b, e, v) /\ b # a
  <2>1. Role(a)' = Role(a)
    BY <1>2, <1>11, <1>12, RoleInCall DEF Role, Calls
  <2>2. \A v : ~Writes(a, v)' /\ ~Launching(a, v)' /\ \A e : ~Marks(a, e)' /\ ~Finds(a, e, v)'
    BY <1>11 DEF Writes, Launching, Marks, Finds, Writing
  <2> QED
    BY <1>11, <2>1, <2>2, ApartViews
<1>14. \A b \in All \ {a} : pc[b] # "markWaiting"
  <2>1. pausedTasks \in Mutexes
    BY WorkerNumbers DEF Typed, OthersTyped
  <2>2. \A b \in All : pc[b] = "markWaiting" => owner[pausedTasks] = b
    BY <2>1 DEF Typed, Owners, Holds
  <2> QED
    BY <1>2, <2>2
<1> DEFINE s == workers[w].waitingThreads
<1>15. workers[w] \in WorkerType(Known) /\ s \in Seq(Known)
  BY DEF Typed, WorkersTyped, WorkerType
<1>16. /\ \A v \in Workers \ {w} : workers'[v] = workers[v]
       /\ workers'[w].activeThread = workers[w].activeThread /\ workers'[w].waitingThreads = Append(s, d)
       /\ workers'[w].idleThreads = workers[w].idleThreads
       /\ workers'[w].pausedThreads = workers[w].pausedThreads \ {d}
       /\ workers'[w].threadBusy = workers[w].threadBusy
  BY <1>8, <1>15 DEF Typed, WorkersTyped, WorkerType
<1>17. /\ \A v \in Workers : Active(v)' = Active(v)
       /\ \A v \in Workers : Busy(v)' = Busy(v)
       /\ \A v \in Workers, e \in All : IsSpare(e, v)' <=> IsSpare(e, v)
  BY <1>16 DEF Active, Busy, IsSpare
<1>18. \A v \in Workers, e \in All : IsPaused(e, v)' <=> IsPaused(e, v) /\ (v = w => e # d)
  BY <1>16 DEF IsPaused
<1>19. \A v \in Workers, e \in All : IsReady(e, v)' => IsReady(e, v) \/ (v = w /\ e = d)
  <2>1. \A e : InSeq(e, workers'[w].waitingThreads) <=> InSeq(e, s) \/ e = d
    BY <1>4, <1>15, <1>16, AppendFacts
  <2> QED
    BY <1>16, <2>1 DEF IsReady
<1>20. Once'
  <2>1. ~InSeq(d, s) /\ OneToOne(s)
    BY <1>1, <1>6 DEF Readies, IsReady, Once
  <2>2. OneToOne(workers'[w].waitingThreads)
    BY <1>4, <1>15, <1>16, <2>1, AppendFacts
  <2>3. ASSUME NEW v \in Workers PROVE OneToOne(workers'[v].idleThreads) /\ OneToOne(workers'[v].waitingThreads)
    BY <1>1, <1>16, <2>2 DEF Once
  <2> QED
    BY <1>9, <2>3 DEF Once, OneToOne
<1>21. \A v \in Workers : IsPaused(d, v) => v = w
  BY <1>1, <1>7, BelongsFacts DEF Pausing
<1>22. Turns' /\ Nonactive'
  BY <1>1, <1>9, <1>10, <1>13, <1>17 DEF Turns, Nonactive
<1>23. Writers' /\ OneWriter' /\ Launchers'
  BY <1>1, <1>9, <1>10, <1>13, <1>17 DEF Writers, OneWriter, Launchers
<1>24. Handers' /\ OneHander'
  BY <1>1, <1>9, <1>10, <1>13, <1>17 DEF Handers, OneHander
<1>25. Pausers'
  <2>1. ASSUME NEW b \in All, NEW v, call[b].worker = v, pc'[b] \in {"pauseActive", "pauseMap"}
        PROVE  Belongs(b, v)' /\ (pc'[b] = "pauseMap" => IsPaused(b, v)')
    <3>1. pc[b] = pc'[b]
      BY <1>11, <2>1 DEF Apart
    <3>2. v \in Workers
      BY <2>1, <3>1 DEF Typed, CallsTyped, CallTyped
    <3>3. pc[b] = "pauseMap" => b # d
      BY <1>6 DEF Role, RoleOf, Calls, Polls
    <3> QED
      BY <1>1, <1>10, <1>18, <2>1, <3>1, <3>2, <3>3 DEF Pausers
  <2> QED
    BY <1>2, <2>1 DEF Pausers, Belongs, IsPaused
<1>26. Spares' /\ Pausing'
  BY <1>1, <1>9, <1>10, <1>13, <1>17, <1>18 DEF Spares, Pausing
<1>27. Readies'
  <2>1. ASSUME NEW v \in Workers, NEW e \in All, IsReady(e, v)'
        PROVE  Belongs(e, v) /\ Active(v) # e /\ Role(e) = "paused" /\ ~IsPaused(e, v)'
    <3>1. CASE v = w /\ e = d
      BY <1>6, <1>7, <1>18, <3>1
    <3>2. CASE IsReady(e, v)
      BY <1>1, <1>18, <3>2 DEF Readies
    <3> QED
      BY <1>19, <2>1, <3>1, <3>2
  <2> QED
    BY <1>9, <1>10, <1>13, <1>17, <2>1 DEF Readies
<1>28. Dues' /\ Markers' /\ OneMarker'
  BY <1>1, <1>9, <1>10, <1>13 DEF Dues, Markers, OneMarker
<1>29. Finders'
  <2>1. \A b, e \in All, v \in Workers : ~Finds(b, e, v)'
    BY <1>13, <1>14 DEF Finds
  <2> QED
    BY <1>9, <2>1 DEF Finders
<1>30. Entered'
  <2>1. \A e \in All, v \in Workers : pausedTasksToWorkers[e] = v => e # d
    BY <1>6, WorkerNumbers DEF Typed, OthersTyped
  <2> QED
    BY <1>1, <1>9, <1>13, <1>18, <2>1 DEF Entered
<1>31. MainPaused' /\ Lasting'
  <2>1. MainPaused'
    BY <1>1, <1>9, <1>10, <1>13, Names DEF MainPaused
  <2>2. Lasting'
    BY <1>1, <1>2, <1>11, Names DEF Lasting, Apart
  <2> QED
    BY <2>1, <2>2
<1> QED
  BY <1>11, <1>20, <1>22, <1>23, <1>24, <1>25, <1>26, <1>27, <1>28, <1>29, <1>30, <1>31 DEF Shape

\* The main thread goes to sleep, and its worker gets a new thread.
LEMMA ShapeNotify ==
  ASSUME Typed, Shape, notifyMainThreadIsSleeping, settings.mainIsWorker
  PROVE  Shape'
<1>1. /\ Turns /\ Nonactive /\ Writers /\ OneWriter /\ Launchers /\ Handers /\ OneHander /\ Pausers
      /\ Spares /\ Pausing /\ Readies /\ Once
      /\ Dues /\ Markers /\ OneMarker /\ Finders /\ Entered /\ MainPaused /\ Lasting
  BY DEF Shape
<1>2. /\ pc[Main] = "notify" /\ UNCHANGED <<settings, paused, due, restarts>>
      /\ packages' = [packages EXCEPT ![NextThread] = newPackage(0)]
      /\ workers' = [workers EXCEPT ![0].threadBusy = FALSE, ![0].activeThread = NextThread]
      /\ \/ pc' = [pc EXCEPT ![Main] = "sleep"] /\ call' = call
         \/ /\ pc' = [pc EXCEPT ![Main] = "launch"]
            /\ call' = [call EXCEPT ![Main] = [arg |-> NoTask, worker |-> NoWorker, back |-> "sleep"]]
  BY DEF notifyMainThreadIsSleeping, At, Goto, Call, life, history, LeftToThread
<1>3. PICK n \in Threads : n = NextThread /\ ~Created(n)
  <2>1. ~Left
    BY <1>2 DEF Left, InCall, Calls
  <2>2. Bound <= Needed(settings)
    BY <2>1, BoundFacts
  <2> QED
    BY <2>2, NextExists
<1>4. n \in All /\ n # Main /\ Main \in All /\ 0 \in Workers
  BY Names, WorkerNumbers DEF Typed, OthersTyped
<1>5. pc[n] = "asleep" /\ ~Completed(n)
  BY <1>3 DEF Typed, Fresh, Completed
<1>6. Role(n) = "rest" /\ \A v \in Workers : ~Belongs(n, v)
  <2>1. \A v \in Workers : v # NoWorker
    BY WorkerNumbers DEF Typed, OthersTyped
  <2> QED
    BY <1>3, <1>4, <1>5, <2>1 DEF Role, RoleOf, Calls, Belongs, Created
<1>7. Belongs(Main, 0) /\ Role(Main) = "awake"
  BY <1>2 DEF Belongs, Role, RoleOf
<1>8. /\ Active(0) = Main /\ ~Completed(Main) /\ (\A b \in All : ~Writes(b, 0))
      /\ \A b \in All : Belongs(b, 0) => Role(b) # "handOver"
  BY <1>4, <1>7, AwakeActive
<1>9. /\ Workers' = Workers /\ settings' = settings /\ due' = due /\ pausedTasksToWorkers' = pausedTasksToWorkers
      /\ pausedMainThreadDescriptor' = pausedMainThreadDescriptor
  BY <1>2, SameSettings DEF paused
<1>10. /\ \A b \in All \ {n} : packages'[b] = packages[b]
       /\ packages'[n] = newPackage(0)
  BY <1>2, <1>3, <1>4 DEF Typed, PackagesTyped
<1>11. /\ \A b \in All \ {n} : \A v : Belongs(b, v)' <=> Belongs(b, v)
       /\ \A v : Belongs(n, v)' <=> v = 0
       /\ \A b \in All : Completed(b)' <=> Completed(b)
       /\ \A e : Registered(e)' <=> Registered(e)
       /\ \A b \in All : ~packages'[b].abort_thread
  <2>1. \A b \in All \ {n} : \A v : Belongs(b, v)' <=> Belongs(b, v)
    BY <1>9, <1>10 DEF Belongs
  <2>2. \A v : Belongs(n, v)' <=> v = 0
    BY <1>4, <1>10 DEF Belongs, newPackage
  <2>3. \A b \in All : Completed(b)' <=> Completed(b)
    BY <1>5, <1>10 DEF Completed, newPackage
  <2>4. \A b \in All : ~packages'[b].abort_thread
    BY <1>1, <1>10 DEF Lasting, newPackage
  <2> QED
    BY <1>9, <2>1, <2>2, <2>3, <2>4 DEF Registered
<1>12. /\ pc'[Main] \in {"sleep", "launch"} /\ (pc'[Main] = "launch" => call'[Main].back = "sleep")
       /\ Apart(Main)
  BY <1>2, <1>4 DEF Typed, PlacesTyped, CallsTyped, Apart
<1>13. /\ Role(Main)' = "other"
       /\ \A b \in All \ {Main} : Role(b)' = Role(b)
       /\ \A b \in All, v \in Workers : Writes(b, v)' => Writes(b, v)
       /\ \A b \in All, v \in Workers : Launching(b, v)' => Launching(b, v)
       /\ \A b, d \in All : Marks(b, d)' => Marks(b, d)
       /\ \A b, d \in All, v \in Workers : Finds(b, d, v)' => Finds(b, d, v)
  <2>1. Role(Main)' = "other"
    BY <1>12 DEF Role, RoleOf, Calls, Polls
  <2>2. \A v : ~Writes(Main, v)' /\ ~Launching(Main, v)' /\ \A d : ~Marks(Main, d)' /\ ~Finds(Main, d, v)'
    BY <1>12 DEF Writes, Launching, Marks, Finds, Writing
  <2> QED
    BY <1>4, <1>12, <2>1, <2>2, ApartViews
<1>14. /\ \A v \in Workers \ {0} : workers'[v] = workers[v]
       /\ workers'[0] = [workers[0] EXCEPT !.threadBusy = FALSE, !.activeThread = n]
  BY <1>2, <1>3, <1>4 DEF Typed, WorkersTyped
<1>15. workers[0] \in WorkerType(Known)
  BY <1>4 DEF Typed, WorkersTyped
<1>16. /\ \A v \in Workers \ {0} : Active(v)' = Active(v) /\ Busy(v)' = Busy(v)
       /\ Active(0)' = n /\ ~Busy(0)'
       /\ \A v \in Workers, e \in All : IsPaused(e, v)' <=> IsPaused(e, v)
       /\ \A v \in Workers, e \in All : IsReady(e, v)' <=> IsReady(e, v)
       /\ \A v \in Workers, e \in All : IsSpare(e, v)' <=> IsSpare(e, v)
       /\ Once'
  <2>1. /\ workers'[0].activeThread = n /\ workers'[0].threadBusy = FALSE
        /\ workers'[0].pausedThreads = workers[0].pausedThreads
        /\ workers'[0].waitingThreads = workers[0].waitingThreads
        /\ workers'[0].idleThreads = workers[0].idleThreads
    BY <1>14, <1>15 DEF WorkerType
  <2>2. \A v \in Workers : /\ workers'[v].pausedThreads = workers[v].pausedThreads
                           /\ workers'[v].waitingThreads = workers[v].waitingThreads
                           /\ workers'[v].idleThreads = workers[v].idleThreads
    BY <1>14, <2>1
  <2>3. /\ \A v \in Workers, e \in All : IsPaused(e, v)' <=> IsPaused(e, v)
        /\ \A v \in Workers, e \in All : IsReady(e, v)' <=> IsReady(e, v)
        /\ \A v \in Workers, e \in All : IsSpare(e, v)' <=> IsSpare(e, v)
    BY <2>2 DEF IsPaused, IsReady, IsSpare, InSeq
  <2>4. Once'
    BY <1>1, <1>9, <2>2 DEF Once, OneToOne
  <2>5. \A v \in Workers \ {0} : Active(v)' = Active(v) /\ Busy(v)' = Busy(v)
    BY <1>14 DEF Active, Busy
  <2>6. Active(0)' = n /\ ~Busy(0)'
    BY <2>1 DEF Active, Busy
  <2> QED
    BY <2>3, <2>4, <2>5, <2>6
<1>17. \A v \in Workers \ {0} : Active(v) # n /\ Active(v) # Main
  BY <1>1, <1>4, <1>6, <1>7, BelongsFacts DEF Turns
<1>18. Turns'
  <2>1. ASSUME NEW v \in Workers, NEW u \in All, Active(v)' = u
        PROVE  /\ Belongs(u, v)' /\ Role(u)' \in {"awake", "rest", "spare", "paused"}
               /\ Role(u)' = "awake" => ~Completed(u)
               /\ Role(u)' = "spare" => Completed(u)
    <3>1. CASE v = 0
      BY <1>4, <1>6, <1>11, <1>13, <1>16, <2>1, <3>1
    <3>2. CASE v # 0
      <4>1. Active(v) = u /\ u # n /\ u # Main
        BY <1>16, <1>17, <2>1, <3>2
      <4> QED
        BY <1>1, <1>11, <1>13, <4>1 DEF Turns
    <3> QED
      BY <3>1, <3>2
  <2> QED
    BY <1>9, <1>11, <2>1 DEF Turns
<1>19. Nonactive'
  <2>1. ASSUME NEW v \in Workers, NEW b \in All, Belongs(b, v)', Active(v)' # b
        PROVE  ~Completed(b) /\ Role(b)' \notin {"awake", "rest"}
    <3>1. b # n
      BY <1>11, <1>16, <2>1
    <3>2. CASE b = Main
      BY <1>8, <1>13, <3>2
    <3>3. CASE b # Main
      <4>1. Belongs(b, v) /\ Active(v) # b
        BY <1>8, <1>11, <1>16, <2>1, <3>1, <3>3
      <4> QED
        BY <1>1, <1>13, <3>3, <4>1 DEF Nonactive
    <3> QED
      BY <3>2, <3>3
  <2> QED
    BY <1>9, <1>11, <2>1 DEF Nonactive
<1>20. Writers' /\ OneWriter' /\ Launchers'
  <2>1. \A b \in All, v \in Workers : Writes(b, v)' => Writes(b, v) /\ v # 0
    BY <1>8, <1>13
  <2>2. Writers'
    BY <1>1, <1>9, <1>11, <1>13, <1>16, <1>17, <2>1 DEF Writers
  <2>3. Launchers'
    BY <1>1, <1>9, <1>13, <1>16 DEF Launchers
  <2> QED
    BY <1>1, <1>9, <2>1, <2>2, <2>3 DEF OneWriter
<1>21. Handers' /\ OneHander'
  <2>1. \A b \in All, v \in Workers : Belongs(b, v)' /\ Role(b)' = "handOver" => Belongs(b, v) /\ Role(b) = "handOver" /\ v # 0
    BY <1>4, <1>6, <1>8, <1>11, <1>13
  <2>2. Handers'
    BY <1>1, <1>9, <1>11, <1>13, <1>16, <1>17, <2>1 DEF Handers
  <2>3. OneHander'
    BY <1>1, <1>9, <2>1 DEF OneHander
  <2> QED
    BY <2>2, <2>3
<1>22. \A b \in All, v \in Workers : Belongs(b, v) => Belongs(b, v)' /\ b # n
  BY <1>6, <1>11
<1>23. Pausers'
  <2>1. ASSUME NEW b \in All, NEW v, call'[b].worker = v, pc'[b] \in {"pauseActive", "pauseMap"}
        PROVE  Belongs(b, v)' /\ (pc'[b] = "pauseMap" => IsPaused(b, v)')
    <3>1. pc[b] = pc'[b] /\ call[b] = call'[b]
      BY <1>12, <2>1 DEF Apart
    <3>2. v \in Workers
      BY <2>1, <3>1 DEF Typed, CallsTyped, CallTyped
    <3> QED
      BY <1>1, <1>16, <1>22, <2>1, <3>1, <3>2 DEF Pausers
  <2> QED
    BY <2>1 DEF Pausers, Belongs, IsPaused
<1>24. Spares' /\ Pausing' /\ Readies'
  <2>1. \A e \in All, v \in Workers : IsSpare(e, v) \/ IsPaused(e, v) \/ IsReady(e, v) =>
          e # Main /\ e # n /\ Active(v)' # e /\ Belongs(e, v)'
    BY <1>1, <1>7, <1>16, <1>22 DEF Spares, Pausing, Readies
  <2> QED
    BY <1>1, <1>9, <1>13, <1>16, <2>1 DEF Spares, Pausing, Readies
<1>25. Dues' /\ Markers' /\ OneMarker'
  BY <1>1, <1>9, <1>11, <1>13 DEF Dues, Markers, OneMarker
<1>26. Finders' /\ Entered'
  BY <1>1, <1>7, <1>9, <1>13, <1>16 DEF Finders, Entered
<1>27. MainPaused' /\ Lasting'
  <2>1. MainPaused'
    BY <1>1, <1>9 DEF MainPaused
  <2>2. Lasting'
    BY <1>11, <1>12 DEF Lasting
  <2> QED
    BY <2>1, <2>2
<1> QED
  BY <1>16, <1>18, <1>19, <1>20, <1>21, <1>23, <1>24, <1>25, <1>26, <1>27 DEF Shape

\* The thread that takes over a worker, a spare one or a new one.
Successor(w) == IF workers[w].idleThreads = <<>> THEN NextThread ELSE Head(workers[w].idleThreads)

\* It belongs to no other worker, and is in no other list.
LEMMA TakesOver ==
  ASSUME Typed, Shape, NEW a \in All, pc[a] = "pauseActive", NEW w \in Workers, w = call[a].worker,
         NEW n, n = Successor(w)
  PROVE  /\ n \in Threads /\ n \in All /\ n # Main /\ n # a /\ \A v \in Workers : v # w => ~Belongs(n, v)
         /\ Role(n) \in {"rest", "spare"}
         /\ \A v \in Workers, e \in All : IsPaused(e, v) \/ IsReady(e, v) => e # n
         /\ \A v \in Workers, e \in All : IsSpare(e, v) /\ e = n => workers[w].idleThreads # <<>> /\ v = w
<1>1. /\ Turns /\ Nonactive /\ Writers /\ OneWriter /\ Launchers /\ Handers /\ OneHander /\ Pausers
      /\ Spares /\ Pausing /\ Readies /\ Once
  BY DEF Shape
<1>2. Belongs(a, w) /\ Role(a) = "awake" /\ a \in Known
  <2>1. Belongs(a, w) /\ Role(a) = "awake"
    BY <1>1 DEF Pausers, Role, RoleOf
  <2> QED
    BY <2>1, BelongsFacts
<1>3. /\ Active(w) = a /\ ~Completed(a) /\ (\A b \in All : ~Writes(b, w))
      /\ \A b \in All : Belongs(b, w) => Role(b) # "handOver"
  BY <1>2, AwakeActive
<1> DEFINE s == workers[w].idleThreads
<1>4. workers[w] \in WorkerType(Known) /\ s \in Seq(Known \ {Main})
  BY DEF Typed, WorkersTyped, WorkerType
<1>5. CASE s = <<>>
  <2>1. \E b \in All : pc[b] \in {"pause", "pauseActive"}
    OBVIOUS
  <2>2. Pending = 1
    BY <2>1 DEF Pending
  <2>3. Bound <= Needed(settings)
    BY <2>2, BoundFacts
  <2>4. n \in Threads /\ ~Created(n)
    BY <1>5, <2>3, NextExists DEF Successor
  <2>5. n \in All /\ n # Main /\ pc[n] = "asleep"
    BY <2>4, Names DEF Typed, Fresh
  <2>6. \A v \in Workers : ~Belongs(n, v)
    BY <2>4, <2>5, WorkerNumbers DEF Belongs, Created, Typed, OthersTyped
  <2>7. Role(n) = "rest"
    BY <2>5 DEF Role, RoleOf, Calls
  <2>8. \A v \in Workers, e \in All : IsPaused(e, v) \/ IsReady(e, v) \/ IsSpare(e, v) => e # n
    BY <1>1, <2>6 DEF Pausing, Readies, Spares
  <2>9. n # a
    BY <1>2, <2>6
  <2> QED
    BY <2>4, <2>5, <2>6, <2>7, <2>8, <2>9
<1>6. CASE s # <<>>
  <2>1. IsSpare(n, w) /\ n \in Known \ {Main}
    BY <1>4, <1>6, TailFacts DEF IsSpare, Successor
  <2>2. n \in Threads /\ n \in All /\ n # Main
    BY <2>1, Names DEF Known
  <2>3. Belongs(n, w) /\ Active(w) # n /\ Role(n) = "spare"
    BY <1>1, <1>3, <2>1, <2>2 DEF Spares
  <2>4. \A v \in Workers : Belongs(n, v) => v = w
    BY <2>2, <2>3, BelongsFacts
  <2>5. \A v \in Workers, e \in All : IsPaused(e, v) \/ IsReady(e, v) => e # n
    BY <1>1, <2>3 DEF Pausing, Readies
  <2>6. \A v \in Workers, e \in All : IsSpare(e, v) /\ e = n => v = w
    BY <1>1, <2>4 DEF Spares
  <2> QED
    BY <1>3, <1>6, <2>2, <2>3, <2>4, <2>5, <2>6
<1> QED
  BY <1>5, <1>6

\* A thread gives its worker to a spare thread, or to a new one.
LEMMA ShapePauseActive ==
  ASSUME Typed, Shape, NEW a \in All, pauseActive(a)
  PROVE  Shape'
<1>1. /\ Turns /\ Nonactive /\ Writers /\ OneWriter /\ Launchers /\ Handers /\ OneHander /\ Pausers
      /\ Spares /\ Pausing /\ Readies /\ Once
      /\ Dues /\ Markers /\ OneMarker /\ Finders /\ Entered /\ MainPaused /\ Lasting
  BY DEF Shape
<1>2. PICK w \in Workers : w = call[a].worker
  BY DEF pauseActive, At, Typed, CallsTyped, CallTyped
<1>3. PICK n : n = Successor(w)
  OBVIOUS
<1>4. /\ pc[a] = "pauseActive" /\ UNCHANGED <<settings, paused, due, restarts>> /\ call' = call
      /\ pc' = [pc EXCEPT ![a] = "pauseMap"]
      /\ workers' = TakenOver(w, a, n)
      /\ packages' = [packages EXCEPT ![n].worker = w, ![n].completed = TRUE]
  BY <1>2, <1>3 DEF pauseActive, At, Goto, life, history, Successor
<1>5. Belongs(a, w) /\ Role(a) = "awake" /\ a \in Known
  <2>1. Belongs(a, w) /\ Role(a) = "awake"
    BY <1>1, <1>2, <1>4 DEF Pausers, Role, RoleOf
  <2> QED
    BY <2>1, BelongsFacts
<1>6. /\ Active(w) = a /\ ~Completed(a) /\ (\A b \in All : ~Writes(b, w))
      /\ \A b \in All : Belongs(b, w) => Role(b) # "handOver"
  BY <1>5, AwakeActive
<1> DEFINE s == workers[w].idleThreads
<1>7. workers[w] \in WorkerType(Known) /\ s \in Seq(Known \ {Main})
  BY DEF Typed, WorkersTyped, WorkerType
<1>8. /\ n \in Threads /\ n \in All /\ n # Main /\ n # a /\ \A v \in Workers : v # w => ~Belongs(n, v)
      /\ Role(n) \in {"rest", "spare"}
      /\ \A v \in Workers, e \in All : IsPaused(e, v) \/ IsReady(e, v) => e # n
      /\ \A v \in Workers, e \in All : IsSpare(e, v) /\ e = n => s # <<>> /\ v = w
  BY <1>2, <1>3, <1>4, TakesOver
<1>9. /\ Workers' = Workers /\ settings' = settings /\ due' = due /\ pausedTasksToWorkers' = pausedTasksToWorkers
      /\ pausedMainThreadDescriptor' = pausedMainThreadDescriptor
  BY <1>4, SameSettings DEF paused
<1>10. /\ \A b \in All \ {n} : packages'[b] = packages[b]
       /\ packages'[n].worker = w /\ packages'[n].completed = TRUE
       /\ packages'[n].abort_thread = packages[n].abort_thread
  BY <1>4, <1>8 DEF Typed, PackagesTyped
<1>11. /\ \A b \in All \ {n} : \A v : Belongs(b, v)' <=> Belongs(b, v)
       /\ \A v : Belongs(n, v)' <=> v = w
       /\ Completed(n)'
       /\ \A b \in All \ {n} : Completed(b)' <=> Completed(b)
       /\ \A e : Registered(e)' <=> Registered(e)
       /\ \A b \in All : ~packages'[b].abort_thread
  <2>1. \A b \in All \ {n} : \A v : Belongs(b, v)' <=> Belongs(b, v)
    BY <1>9, <1>10 DEF Belongs
  <2>2. \A v : Belongs(n, v)' <=> v = w
    BY <1>8, <1>10 DEF Belongs
  <2>3. Completed(n)' /\ \A b \in All \ {n} : Completed(b)' <=> Completed(b)
    BY <1>10 DEF Completed
  <2>4. \A b \in All : ~packages'[b].abort_thread
    BY <1>1, <1>8, <1>10 DEF Lasting
  <2> QED
    BY <1>9, <2>1, <2>2, <2>3, <2>4 DEF Registered
<1>12. pc'[a] = "pauseMap" /\ Apart(a)
  BY <1>4 DEF Typed, PlacesTyped, CallsTyped, Apart
<1>13. /\ Role(a)' = "pauseMap"
       /\ \A b \in All \ {a} : Role(b)' = Role(b)
       /\ \A b \in All, v \in Workers : Writes(b, v)' => Writes(b, v)
       /\ \A b \in All, v \in Workers : Launching(b, v)' => Launching(b, v)
       /\ \A b, d \in All : Marks(b, d)' => Marks(b, d)
       /\ \A b, d \in All, v \in Workers : Finds(b, d, v)' => Finds(b, d, v)
  <2>1. Role(a)' = "pauseMap"
    BY <1>12 DEF Role, RoleOf, Calls, Polls
  <2>2. \A v : ~Writes(a, v)' /\ ~Launching(a, v)' /\ \A d : ~Marks(a, d)' /\ ~Finds(a, d, v)'
    BY <1>12 DEF Writes, Launching, Marks, Finds, Writing
  <2> QED
    BY <1>12, <2>1, <2>2, ApartViews
<1>14. /\ \A v \in Workers \ {w} : workers'[v] = workers[v]
       /\ workers'[w].activeThread = n /\ workers'[w].threadBusy = FALSE
       /\ workers'[w].pausedThreads = workers[w].pausedThreads \union {a}
       /\ workers'[w].waitingThreads = workers[w].waitingThreads
       /\ workers'[w].idleThreads = IF s = <<>> THEN s ELSE Tail(s)
  BY <1>4, <1>7 DEF Typed, WorkersTyped, WorkerType, TakenOver
<1>15. /\ \A v \in Workers \ {w} : Active(v)' = Active(v) /\ Busy(v)' = Busy(v)
       /\ Active(w)' = n /\ ~Busy(w)'
  BY <1>14 DEF Active, Busy
<1>16. /\ \A v \in Workers, e \in All : IsPaused(e, v)' <=> IsPaused(e, v) \/ (v = w /\ e = a)
       /\ \A v \in Workers, e \in All : IsReady(e, v)' <=> IsReady(e, v)
  <2>1. \A v \in Workers : workers'[v].waitingThreads = workers[v].waitingThreads
    BY <1>14
  <2> QED
    BY <1>14, <2>1 DEF IsPaused, IsReady
<1>17. /\ \A v \in Workers, e \in All : IsSpare(e, v)' => IsSpare(e, v) /\ e # n
       /\ Once'
  <2>1. CASE s = <<>>
    <3>1. \A v \in Workers : /\ workers'[v].idleThreads = workers[v].idleThreads
                             /\ workers'[v].waitingThreads = workers[v].waitingThreads
      BY <1>14, <2>1
    <3>2. \A v \in Workers, e \in All : IsSpare(e, v)' => IsSpare(e, v) /\ e # n
      BY <1>8, <2>1, <3>1 DEF IsSpare
    <3> QED
      BY <1>1, <1>9, <3>1, <3>2 DEF Once, OneToOne
  <2>2. CASE s # <<>>
    <3>1. OneToOne(s)
      BY <1>1 DEF Once
    <3>2. /\ \A e : InSeq(e, Tail(s)) => InSeq(e, s)
          /\ OneToOne(Tail(s)) /\ ~InSeq(n, Tail(s))
      BY <1>3, <1>7, <2>2, <3>1, TailFacts DEF Successor
    <3>3. \A v \in Workers, e \in All : IsSpare(e, v)' => IsSpare(e, v) /\ e # n
      BY <1>8, <1>14, <2>2, <3>2 DEF IsSpare
    <3>4. ASSUME NEW v \in Workers PROVE OneToOne(workers'[v].idleThreads) /\ OneToOne(workers'[v].waitingThreads)
      BY <1>1, <1>14, <2>2, <3>2 DEF Once
    <3> QED
      BY <1>9, <3>3, <3>4 DEF Once, OneToOne
  <2> QED
    BY <2>1, <2>2
<1>18. \A v \in Workers \ {w} : Active(v) # n /\ Active(v) # a
  BY <1>1, <1>5, <1>8, BelongsFacts DEF Turns
<1>19. Turns'
  <2>1. ASSUME NEW v \in Workers, NEW u \in All, Active(v)' = u
        PROVE  /\ Belongs(u, v)' /\ Role(u)' \in {"awake", "rest", "spare", "paused"}
               /\ Role(u)' = "awake" => ~Completed(u)'
               /\ Role(u)' = "spare" => Completed(u)'
    <3>1. CASE v = w
      BY <1>8, <1>11, <1>13, <1>15, <2>1, <3>1
    <3>2. CASE v # w
      <4>1. Active(v) = u /\ u # n /\ u # a
        BY <1>15, <1>18, <2>1, <3>2
      <4> QED
        BY <1>1, <1>11, <1>13, <4>1 DEF Turns
    <3> QED
      BY <3>1, <3>2
  <2> QED
    BY <1>9, <2>1 DEF Turns
<1>20. Nonactive'
  <2>1. ASSUME NEW v \in Workers, NEW b \in All, Belongs(b, v)', Active(v)' # b
        PROVE  ~Completed(b)' /\ Role(b)' \notin {"awake", "rest"}
    <3>1. b # n
      BY <1>11, <1>15, <2>1
    <3>2. CASE b = a
      BY <1>6, <1>11, <1>13, <3>1, <3>2
    <3>3. CASE b # a
      <4>1. Belongs(b, v) /\ Active(v) # b
        BY <1>6, <1>11, <1>15, <2>1, <3>1, <3>3
      <4> QED
        BY <1>1, <1>11, <1>13, <3>1, <3>3, <4>1 DEF Nonactive
    <3> QED
      BY <3>2, <3>3
  <2> QED
    BY <1>9, <2>1 DEF Nonactive
<1>21. Writers' /\ OneWriter' /\ Launchers'
  <2>1. \A b \in All, v \in Workers : Writes(b, v)' => Writes(b, v) /\ v # w
    BY <1>6, <1>13
  <2>2. Writers'
    BY <1>1, <1>9, <1>11, <1>13, <1>15, <1>18, <2>1 DEF Writers
  <2>3. Launchers'
    BY <1>1, <1>9, <1>13, <1>15 DEF Launchers
  <2> QED
    BY <1>1, <1>9, <2>1, <2>2, <2>3 DEF OneWriter
<1>22. Handers' /\ OneHander'
  <2>1. \A b \in All, v \in Workers : Belongs(b, v)' /\ Role(b)' = "handOver" => Belongs(b, v) /\ Role(b) = "handOver" /\ v # w
    BY <1>6, <1>8, <1>11, <1>13
  <2>2. Handers'
    BY <1>1, <1>9, <1>11, <1>13, <1>15, <1>18, <2>1 DEF Handers
  <2>3. OneHander'
    BY <1>1, <1>9, <2>1 DEF OneHander
  <2> QED
    BY <2>2, <2>3
<1>23. \A b \in All, v \in Workers : Belongs(b, v) => Belongs(b, v)'
  BY <1>8, <1>11
<1>24. Pausers'
  <2>1. ASSUME NEW b \in All, NEW v, call[b].worker = v, pc'[b] \in {"pauseActive", "pauseMap"}
        PROVE  Belongs(b, v)' /\ (pc'[b] = "pauseMap" => IsPaused(b, v)')
    <3>1. CASE b = a
      BY <1>2, <1>5, <1>16, <1>23, <2>1, <3>1
    <3>2. CASE b # a
      <4>1. pc[b] = pc'[b]
        BY <1>12, <2>1, <3>2 DEF Apart
      <4>2. v \in Workers
        BY <2>1, <4>1 DEF Typed, CallsTyped, CallTyped
      <4> QED
        BY <1>1, <1>16, <1>23, <2>1, <4>1, <4>2 DEF Pausers
    <3> QED
      BY <3>1, <3>2
  <2> QED
    BY <1>4, <2>1 DEF Pausers, Belongs, IsPaused
<1>25. Spares' /\ Pausing' /\ Readies'
  <2>1. \A e \in All, v \in Workers : IsSpare(e, v)' \/ IsPaused(e, v) \/ IsReady(e, v) =>
          e # a /\ e # n /\ Active(v)' # e /\ Belongs(e, v)'
    BY <1>1, <1>5, <1>8, <1>15, <1>17, <1>23 DEF Spares, Pausing, Readies
  <2>2. Spares'
    BY <1>1, <1>9, <1>13, <1>17, <2>1 DEF Spares
  <2>3. ASSUME NEW e \in All, NEW v \in Workers, IsPaused(e, v)'
        PROVE  Belongs(e, v)' /\ Active(v)' # e /\ Role(e)' \in {"pauseMap", "paused"}
    <3>1. CASE v = w /\ e = a
      BY <1>5, <1>8, <1>13, <1>15, <1>23, <3>1
    <3>2. CASE IsPaused(e, v)
      BY <1>1, <1>13, <2>1, <3>2 DEF Pausing
    <3> QED
      BY <1>16, <2>3, <3>1, <3>2
  <2>4. Pausing'
    BY <1>9, <2>3 DEF Pausing
  <2>5. Readies'
    BY <1>1, <1>9, <1>13, <1>16, <2>1 DEF Readies
  <2> QED
    BY <2>2, <2>4, <2>5
<1>26. Dues' /\ Markers' /\ OneMarker'
  BY <1>1, <1>9, <1>11, <1>13 DEF Dues, Markers, OneMarker
<1>27. Finders' /\ Entered'
  BY <1>1, <1>5, <1>9, <1>13, <1>16 DEF Finders, Entered
<1>28. MainPaused'
  <2>1. ~settings.mainIsWorker => a # Main
    BY <1>5 DEF Belongs
  <2> QED
    BY <1>1, <1>8, <1>9, <1>11, <1>13, <2>1, Names DEF MainPaused
<1>29. Lasting'
  BY <1>1, <1>4, <1>11, <1>12, Names DEF Lasting, Apart
<1> QED
  BY <1>17, <1>19, <1>20, <1>21, <1>22, <1>24, <1>25, <1>26, <1>27, <1>28, <1>29 DEF Shape

\* What a step says that changes nobody's turn, but perhaps who waits for what.
WaitsOnly(a) ==
  /\ Apart(a) /\ UNCHANGED <<settings, workers>> /\ \A b \in All : ~packages'[b].abort_thread
  /\ \A b \in All : \A v \in Workers : Belongs(b, v)' <=> Belongs(b, v)
  /\ \A b \in All : \A v \in Workers : Belongs(b, v) => (Completed(b)' <=> Completed(b))
  /\ \A v \in Workers : Belongs(a, v) => Role(a)' = Role(a) \/ (Role(a) = "pauseMap" /\ Role(a)' = "paused")
  /\ pc'[a] \notin Writing \union {"awaitPoller", "pauseActive", "pauseMap", "reset"}

\* Such a step keeps the rest of the invariant.
LEMMA WaitsOnlyShape ==
  ASSUME Typed, Shape, NEW a \in All, WaitsOnly(a),
         Dues', Markers', OneMarker', Finders', Entered', MainPaused', UNCHANGED restarts
  PROVE  Shape'
<1>1. /\ Turns /\ Nonactive /\ Writers /\ OneWriter /\ Launchers /\ Handers /\ OneHander /\ Pausers
      /\ Spares /\ Pausing /\ Readies /\ Once /\ Lasting
  BY DEF Shape
<1>2. Workers' = Workers /\ settings' = settings
  BY SameSettings DEF WaitsOnly
<1>3. /\ \A b \in All : \A v \in Workers : Belongs(b, v)' <=> Belongs(b, v)
      /\ \A b \in All : \A v \in Workers : Belongs(b, v) => (Completed(b)' <=> Completed(b))
  BY DEF WaitsOnly
<1>4. /\ \A b \in All, v \in Workers : Belongs(b, v) =>
           Role(b)' = Role(b) \/ (Role(b) = "pauseMap" /\ Role(b)' = "paused")
      /\ \A b \in All, v \in Workers : Writes(b, v)' => Writes(b, v)
      /\ \A b \in All, v \in Workers : Launching(b, v)' => Launching(b, v)
  <2>1. \A v : ~Writes(a, v)' /\ ~Launching(a, v)'
    BY DEF Writes, Launching, WaitsOnly
  <2>2. /\ \A b \in All \ {a} : Role(b)' = Role(b)
        /\ \A b \in All \ {a}, v \in Workers : Writes(b, v)' <=> Writes(b, v)
        /\ \A b \in All \ {a}, v \in Workers : Launching(b, v)' <=> Launching(b, v)
    BY ApartViews DEF WaitsOnly
  <2> QED
    BY <2>1, <2>2 DEF WaitsOnly
<1>5. \A v \in Workers :
           /\ Active(v)' = Active(v) /\ (Busy(v)' <=> Busy(v))
           /\ \A d : IsPaused(d, v)' <=> IsPaused(d, v)
           /\ \A d : IsReady(d, v)' <=> IsReady(d, v)
           /\ \A d : IsSpare(d, v)' <=> IsSpare(d, v)
           /\ (OneToOne(workers[v].idleThreads) /\ OneToOne(workers[v].waitingThreads))'
                <=> (OneToOne(workers[v].idleThreads) /\ OneToOne(workers[v].waitingThreads))
  BY DEF WaitsOnly, Active, Busy, IsPaused, IsReady, IsSpare
<1>6. \A v \in Workers, t \in All : Active(v) = t =>
           Belongs(t, v) /\ Role(t)' = Role(t) /\ (Completed(t)' <=> Completed(t))
  BY <1>1, <1>3, <1>4 DEF Turns
<1>7. Turns'
  BY <1>1, <1>2, <1>3, <1>5, <1>6 DEF Turns
<1>8. Nonactive'
  BY <1>1, <1>2, <1>3, <1>4, <1>5 DEF Nonactive
<1>9. Writers' /\ OneWriter' /\ Launchers'
  BY <1>1, <1>2, <1>4, <1>5, <1>6 DEF Writers, OneWriter, Launchers
<1>10. Handers' /\ OneHander'
  BY <1>1, <1>2, <1>3, <1>4, <1>5, <1>6 DEF Handers, OneHander
<1>11. Pausers'
  <2>1. ASSUME NEW b \in All, NEW v, call'[b].worker = v, pc'[b] \in {"pauseActive", "pauseMap"}
        PROVE  Belongs(b, v)' /\ (pc'[b] = "pauseMap" => IsPaused(b, v)')
    <3>1. pc[b] = pc'[b] /\ call[b] = call'[b]
      BY <2>1 DEF Apart, WaitsOnly
    <3>2. v \in Workers
      BY <2>1, <3>1 DEF Typed, CallsTyped, CallTyped
    <3> QED
      BY <1>1, <1>3, <1>5, <2>1, <3>1, <3>2 DEF Pausers
  <2> QED
    BY <2>1 DEF Pausers, Belongs, IsPaused
<1>12. Spares' /\ Pausing' /\ Readies' /\ Once'
  BY <1>1, <1>2, <1>3, <1>4, <1>5 DEF Spares, Pausing, Readies, Once
<1>13. Lasting'
  BY <1>1, Names DEF WaitsOnly, Lasting, Apart
<1> QED
  BY <1>7, <1>8, <1>9, <1>10, <1>11, <1>12, <1>13 DEF Shape

\* A thread that is to wait is that of a worker, or the main thread.
LEMMA ShapePause ==
  ASSUME Typed, Shape, NEW a \in All, pauseThread(a)
  PROVE  Shape' /\ pc'[a] # "error"
<1>1. pc[a] = "pause" /\ UNCHANGED <<settings, workers, packages, pausedTasksToWorkers, restarts>>
  BY DEF pauseThread, At, life
<1>2. a # Progress /\ Role(a) = "awake" /\ call[a].back = "task"
  BY <1>1, WaitingThread DEF Role, RoleOf, Waiting
<1>3. \A v \in Workers : Belongs(a, v) => Active(v) = a
  BY <1>2, AwakeActive
<1>4. a \in Threads => \E v \in Workers : Belongs(a, v)
  BY <1>1, EntryBelongs
<1>5. settings \in Settings
  BY DEF Typed, OthersTyped
<1>6. findIndexFromThreadId(a) # NoWorker => Active(findIndexFromThreadId(a)) = a
  BY <1>5, FoundWorker DEF Active
<1>7. findIndexFromThreadId(a) = NoWorker => \A v \in Workers : Active(v) # a
  BY <1>5, FoundWorker DEF Active
<1>8. CASE findIndexFromThreadId(a) # NoWorker
  <2>1. PICK w \in Workers : w = findIndexFromThreadId(a) /\ Active(w) = a
    BY <1>5, <1>6, <1>8, FoundWorker
  <2>2. /\ pc' = [pc EXCEPT ![a] = "pauseActive"] /\ call' = [call EXCEPT ![a].worker = w]
        /\ UNCHANGED <<due, pausedMainThreadDescriptor>>
    BY <1>8, <2>1 DEF pauseThread, Goto
  <2>3. Belongs(a, w)
    BY <2>1 DEF Shape, Turns
  <2>4. call'[a].worker = w /\ call'[a].back = "task" /\ \A b \in All \ {a} : call'[b] = call[b]
    BY <1>2, <2>2 DEF Typed, CallsTyped
  <2>5. RoleOf("pauseActive", call'[a].back) = Role(a)
    BY <1>2 DEF RoleOf
  <2>6. ListsSame /\ \A v \in Workers : Busy(v)' <=> Busy(v)
    BY <1>1, ListsStay DEF Busy
  <2>7. pc'[a] = "pauseActive"
    BY <2>2 DEF Typed, PlacesTyped
  <2>8. UNCHANGED paused
    BY <1>1, <2>2 DEF paused
  <2> QED
    BY <1>1, <2>2, <2>3, <2>4, <2>5, <2>6, <2>7, <2>8, TurnMoves DEF Writing
<1>9. CASE findIndexFromThreadId(a) = NoWorker
  <2>1. \A v \in Workers : ~Belongs(a, v)
    BY <1>3, <1>7, <1>9
  <2>2. a = Main
    BY <1>2, <1>4, <2>1, Names
  <2>3. ~settings.mainIsWorker
    BY <1>5, <2>1, <2>2, WorkerNumbers DEF Belongs
  <2>4. /\ pausedMainThreadDescriptor' = TRUE /\ due' = due \union {Main} /\ call' = call
        /\ pc' = [pc EXCEPT ![Main] = "paused"]
    BY <1>9, <2>2 DEF pauseThread, Goto
  <2>5. pc'[Main] = "paused" /\ Apart(Main) /\ Role(Main)' = "paused"
    BY <2>2, <2>4 DEF Typed, PlacesTyped, Apart, Role, RoleOf, Calls, Polls
  <2>6. /\ Dues /\ Markers /\ OneMarker /\ Finders /\ Entered /\ MainPaused /\ Lasting
    BY DEF Shape
  <2>7. ~Completed(Main) /\ ~Registered(Main)
    <3>1. ~Completed(Main) /\ ~pausedMainThreadDescriptor
      BY <1>2, <2>2, <2>3, <2>6 DEF MainPaused
    <3>2. pausedTasksToWorkers[Main] = NoWorker
      BY <1>2, <2>2, <2>6 DEF Entered, Typed, OthersTyped
    <3> QED
      BY <3>1, <3>2 DEF Registered
  <2>8. /\ \A b, v : Belongs(b, v)' <=> Belongs(b, v)
        /\ \A b : Completed(b)' <=> Completed(b)
        /\ \A d : Registered(d)' <=> Registered(d) \/ d = Main
    BY <1>1, <2>4 DEF Belongs, Completed, Registered
  <2>9. /\ \A b \in All \ {Main} : Role(b)' = Role(b)
        /\ \A b, d \in All : Marks(b, d)' => Marks(b, d)
        /\ \A b, d \in All, v \in Workers : Finds(b, d, v)' => Finds(b, d, v)
    <3>1. \A d, v : ~Marks(Main, d)' /\ ~Finds(Main, d, v)'
      BY <2>5 DEF Marks, Finds
    <3> QED
      BY <2>2, <2>5, <3>1, ApartViews
  <2>10. WaitsOnly(Main)
    BY <1>1, <2>1, <2>2, <2>5, <2>6, <2>8 DEF WaitsOnly, Lasting, Writing
  <2>11. Dues' /\ Markers' /\ OneMarker'
    <3>1. \A b \in All : ~Marks(b, Main)
      BY <2>2, <2>6, <2>7 DEF Markers
    <3> QED
      BY <2>4, <2>6, <2>8, <2>9, <3>1 DEF Dues, Markers, OneMarker
  <2>12. Workers' = Workers
    BY <1>1, SameSettings
  <2>13. \A v \in Workers : \A d : IsPaused(d, v)' <=> IsPaused(d, v)
    BY <1>1 DEF IsPaused
  <2>14. Finders' /\ Entered'
    BY <1>1, <2>5, <2>6, <2>9, <2>12, <2>13 DEF Finders, Entered
  <2>15. MainPaused'
    BY <1>1, <2>3, <2>5, <2>7, <2>8 DEF MainPaused
  <2> QED
    BY <1>1, <2>2, <2>5, <2>10, <2>11, <2>14, <2>15, WaitsOnlyShape
<1> QED
  BY <1>8, <1>9

\* A thread has paused, and its wait is registered.
LEMMA ShapePauseMap ==
  ASSUME Typed, Shape, NEW a \in All, pauseMap(a)
  PROVE  Shape'
<1>1. PICK w \in Workers : w = call[a].worker
  BY DEF pauseMap, At, Typed, CallsTyped, CallTyped
<1>2. /\ pc[a] = "pauseMap" /\ UNCHANGED <<settings, workers, packages, pausedMainThreadDescriptor, restarts, call>>
      /\ pausedTasksToWorkers' = [pausedTasksToWorkers EXCEPT ![a] = w] /\ due' = due \union {a}
      /\ pc' = [pc EXCEPT ![a] = "paused"]
  BY <1>1 DEF pauseMap, At, Goto, life
<1>3. Belongs(a, w) /\ IsPaused(a, w) /\ Role(a) = "pauseMap"
  BY <1>1, <1>2 DEF Shape, Pausers, Role, RoleOf, Calls, Polls
<1>4. pc'[a] = "paused" /\ Apart(a) /\ Role(a)' = "paused"
  BY <1>2 DEF Typed, PlacesTyped, Apart, Role, RoleOf, Calls, Polls
<1>5. /\ Dues /\ Markers /\ OneMarker /\ Finders /\ Entered /\ MainPaused /\ Lasting
  BY DEF Shape
<1>6. ~Registered(a)
  BY <1>3, <1>5 DEF Registered, Entered, MainPaused, Typed, OthersTyped
<1>7. /\ \A b, v : Belongs(b, v)' <=> Belongs(b, v)
      /\ \A b : Completed(b)' <=> Completed(b)
  BY <1>2 DEF Belongs, Completed
<1>8. /\ pausedTasksToWorkers'[a] = w /\ w # NoWorker
      /\ \A d \in All \ {a} : pausedTasksToWorkers'[d] = pausedTasksToWorkers[d]
  BY <1>2, WorkerNumbers DEF Typed, OthersTyped
<1>9. \A d \in All : Registered(d)' <=> Registered(d) \/ d = a
  BY <1>2, <1>8 DEF Registered
<1>10. /\ \A b \in All \ {a} : Role(b)' = Role(b)
       /\ \A b, d \in All : Marks(b, d)' => Marks(b, d)
       /\ \A b, d \in All, v \in Workers : Finds(b, d, v)' => Finds(b, d, v)
  <2>1. \A d, v : ~Marks(a, d)' /\ ~Finds(a, d, v)'
    BY <1>4 DEF Marks, Finds
  <2> QED
    BY <1>4, <2>1, ApartViews
<1>11. WaitsOnly(a)
  BY <1>2, <1>3, <1>4, <1>5, <1>7 DEF WaitsOnly, Lasting, Writing
<1>12. Dues' /\ Markers' /\ OneMarker'
  <2>1. \A b \in All : ~Marks(b, a)
    BY <1>5, <1>6 DEF Markers
  <2> QED
    BY <1>2, <1>5, <1>9, <1>10, <2>1 DEF Dues, Markers, OneMarker
<1>13. Workers' = Workers
  BY <1>2, SameSettings
<1>14. \A v \in Workers : \A d : IsPaused(d, v)' <=> IsPaused(d, v)
  BY <1>2 DEF IsPaused
<1>15. Finders'
  <2>1. \A b, d \in All, v \in Workers : Finds(b, d, v) => d # a
    BY <1>3, <1>5 DEF Finders
  <2> QED
    BY <1>5, <1>8, <1>10, <1>13, <1>14, <2>1 DEF Finders
<1>16. Entered'
  BY <1>3, <1>4, <1>5, <1>8, <1>10, <1>13, <1>14 DEF Entered
<1>17. MainPaused'
  <2>1. ~settings.mainIsWorker => a # Main
    BY <1>3 DEF Belongs
  <2> QED
    BY <1>2, <1>5, <1>7, <1>10, <2>1, Names DEF MainPaused
<1> QED
  BY <1>2, <1>11, <1>12, <1>15, <1>16, <1>17, WaitsOnlyShape

\* The last event of a wait comes: the wait is registered, and marked only once.
LEMMA ShapeFire ==
  ASSUME Typed, Shape, NEW a \in All, Caller(a), fire(a, BackOf(a))
  PROVE  Shape'
<1>1. PICK d \in due :
        /\ due' = due \ {d} /\ pc' = [pc EXCEPT ![a] = "mark"]
        /\ call' = [call EXCEPT ![a] = [arg |-> d, worker |-> NoWorker, back |-> BackOf(a)]]
  BY DEF fire, Call, Goto
<1>2. d \in All /\ UNCHANGED <<settings, workers, packages, paused, restarts>>
  BY Names DEF fire, life, Typed, OthersTyped, Known
<1>3. pc'[a] = "mark" /\ call'[a].arg = d /\ call'[a].back = BackOf(a) /\ Apart(a)
  BY <1>1 DEF Typed, PlacesTyped, CallsTyped, Apart
<1>4. Role(a)' = Role(a) /\ Role(a) # "paused"
  BY <1>3 DEF Caller, BackOf, Polled, Role, RoleOf, Calls, Polls
<1>5. /\ Dues /\ Markers /\ OneMarker /\ Finders /\ Entered /\ MainPaused /\ Lasting
  BY DEF Shape
<1>6. /\ \A b, v : Belongs(b, v)' <=> Belongs(b, v)
      /\ \A b : Completed(b)' <=> Completed(b)
      /\ \A e : Registered(e)' <=> Registered(e)
  BY <1>2 DEF Belongs, Completed, Registered, paused
<1>7. /\ \A b \in All : Role(b)' = Role(b)
      /\ \A b, e \in All : Marks(b, e)' => Marks(b, e) \/ (b = a /\ e = d)
      /\ \A b, e \in All, v \in Workers : Finds(b, e, v)' => Finds(b, e, v)
  <2>1. \A e, v : ~Finds(a, e, v)'
    BY <1>3 DEF Finds
  <2>2. \A e : Marks(a, e)' => e = d
    BY <1>3 DEF Marks
  <2> QED
    BY <1>3, <1>4, <2>1, <2>2, ApartViews
<1>8. WaitsOnly(a)
  BY <1>2, <1>3, <1>4, <1>5, <1>6 DEF WaitsOnly, Lasting, Writing
<1>9. Dues' /\ Markers' /\ OneMarker'
  <2>1. \A b \in All : ~Marks(b, d)
    BY <1>1, <1>2, <1>5 DEF Markers
  <2> QED
    BY <1>1, <1>2, <1>5, <1>6, <1>7, <2>1 DEF Dues, Markers, OneMarker
<1>10. Workers' = Workers
  BY <1>2, SameSettings
<1>11. \A v \in Workers : \A e : IsPaused(e, v)' <=> IsPaused(e, v)
  BY <1>2 DEF IsPaused
<1>12. Finders' /\ Entered'
  BY <1>2, <1>5, <1>7, <1>10, <1>11 DEF Finders, Entered, paused
<1>13. MainPaused'
  BY <1>2, <1>5, <1>6, <1>7, Names DEF MainPaused, paused
<1> QED
  BY <1>2, <1>8, <1>9, <1>12, <1>13, WaitsOnlyShape

\* A wait is taken from its register, or the main thread goes on; it is there.
LEMMA ShapeMark ==
  ASSUME Typed, Shape, NEW a \in All, markThreadResume(a)
  PROVE  Shape' /\ pc'[a] # "error"
<1>1. PICK d : d = call[a].arg
  OBVIOUS
<1>2. pc[a] = "mark" /\ UNCHANGED <<settings, workers, due, restarts>>
  BY DEF markThreadResume, At, life, history
<1>3. /\ Dues /\ Markers /\ OneMarker /\ Finders /\ Entered /\ MainPaused /\ Lasting
  BY DEF Shape
<1>4. d \in All
  BY <1>1, <1>2, Names DEF Typed, CallsTyped, CallTyped, Known
<1>5. Marks(a, d) /\ Registered(d) /\ d \notin due
  BY <1>1, <1>2, <1>3, <1>4 DEF Marks, Markers
<1>6. Workers' = Workers
  BY <1>2, SameSettings
<1>7. \A v \in Workers : \A e : IsPaused(e, v)' <=> IsPaused(e, v)
  BY <1>2 DEF IsPaused
<1>8. CASE pausedTasksToWorkers[d] # NoWorker
  <2>1. PICK w \in Workers : w = pausedTasksToWorkers[d]
    BY <1>4, <1>8 DEF Typed, OthersTyped
  <2>2. /\ pausedTasksToWorkers' = [pausedTasksToWorkers EXCEPT ![d] = NoWorker]
        /\ call' = [call EXCEPT ![a].worker = w] /\ pc' = [pc EXCEPT ![a] = "markWaiting"]
        /\ UNCHANGED <<pausedMainThreadDescriptor, packages>>
    BY <1>1, <1>8, <2>1 DEF markThreadResume, Goto
  <2>3. IsPaused(d, w) /\ Role(d) = "paused"
    BY <1>3, <1>4, <2>1 DEF Entered
  <2>4. /\ pc'[a] = "markWaiting" /\ call'[a].arg = d /\ call'[a].worker = w /\ call'[a].back = call[a].back
        /\ Apart(a)
    BY <1>1, <2>2 DEF Typed, PlacesTyped, CallsTyped, CallTyped, Apart
  <2>5. Role(a)' = Role(a)
    BY <1>2, <2>4 DEF Role, RoleOf, Calls, Polls
  <2>6. /\ \A b, v : Belongs(b, v)' <=> Belongs(b, v)
        /\ \A b : Completed(b)' <=> Completed(b)
    BY <1>2, <2>2 DEF Belongs, Completed
  <2>7. /\ pausedTasksToWorkers'[d] = NoWorker
        /\ \A e \in All \ {d} : pausedTasksToWorkers'[e] = pausedTasksToWorkers[e]
    BY <1>4, <2>2 DEF Typed, OthersTyped
  <2>8. /\ \A b \in All : Role(b)' = Role(b)
        /\ \A b, e \in All : Marks(b, e)' => Marks(b, e) /\ b # a
        /\ \A b, e \in All, v \in Workers : Finds(b, e, v)' => Finds(b, e, v) \/ (e = d /\ v = w)
    <3>1. \A e : ~Marks(a, e)'
      BY <2>4 DEF Marks
    <3>2. \A e, v : Finds(a, e, v)' => e = d /\ v = w
      BY <2>4 DEF Finds
    <3> QED
      BY <2>4, <2>5, <3>1, <3>2, ApartViews
  <2>9. \A e \in All \ {d} : Registered(e)' <=> Registered(e)
    BY <2>2, <2>7 DEF Registered
  <2>10. WaitsOnly(a)
    BY <1>2, <1>3, <2>2, <2>4, <2>5, <2>6 DEF WaitsOnly, Lasting, Writing
  <2>11. Dues' /\ Markers' /\ OneMarker'
    <3>1. \A b \in All : Marks(b, d) => b = a
      BY <1>3, <1>4, <1>5 DEF OneMarker
    <3> QED
      BY <1>2, <1>3, <1>5, <2>8, <2>9, <3>1 DEF Dues, Markers, OneMarker
  <2>12. Finders'
    BY <1>3, <1>6, <1>7, <2>3, <2>7, <2>8 DEF Finders
  <2>13. Entered'
    <3>1. NoWorker \notin Workers
      BY WorkerNumbers DEF Typed, OthersTyped
    <3> QED
      BY <1>3, <1>4, <1>6, <1>7, <2>7, <2>8, <3>1 DEF Entered
  <2>14. MainPaused'
    BY <1>2, <1>3, <2>2, <2>6, <2>8, Names DEF MainPaused
  <2> QED
    BY <1>2, <2>4, <2>10, <2>11, <2>12, <2>13, <2>14, WaitsOnlyShape
<1>9. CASE pausedTasksToWorkers[d] = NoWorker
  <2>1. d = Main /\ pausedMainThreadDescriptor
    BY <1>5, <1>9 DEF Registered
  <2>2. /\ pausedMainThreadDescriptor' = FALSE /\ packages' = [packages EXCEPT ![Main].completed = TRUE]
        /\ pc' = [pc EXCEPT ![a] = call[a].back] /\ UNCHANGED <<pausedTasksToWorkers, call>>
    BY <1>1, <1>9, <2>1 DEF markThreadResume, resume, Goto, Return
  <2>3. ~settings.mainIsWorker /\ Role(Main) = "paused" /\ ~Completed(Main)
    BY <1>3, <2>1 DEF MainPaused
  <2>4. a # Main
    BY <1>2, <2>3 DEF Role, RoleOf, Calls, Polls
  <2>5. pc'[a] = call[a].back /\ Apart(a) /\ call[a].back \in {"task", "polled", "poll", "asleep", "sleep"}
    <3>1. pc'[a] = call[a].back /\ Apart(a)
      BY <2>2 DEF Typed, PlacesTyped, Apart
    <3>2. call[a].back \in BacksOf(a)
      BY <1>2 DEF Typed, CallsTyped, CallTyped, InCall, Calls
    <3> QED
      BY <3>1, <3>2 DEF BacksOf
  <2>6. Role(a)' = Role(a)
    <3>1. RoleOf("mark", call[a].back) = RoleOf(call[a].back, call[a].back)
      BY <2>5, RoleInCall DEF Calls
    <3>2. call'[a].back = call[a].back
      BY <2>2
    <3> QED
      BY <1>2, <2>5, <3>1, <3>2 DEF Role
  <2>7. /\ \A b \in All : \A v : Belongs(b, v)' <=> Belongs(b, v)
        /\ Completed(Main)' /\ \A b \in All \ {Main} : Completed(b)' <=> Completed(b)
        /\ \A b \in All : packages'[b].abort_thread = packages[b].abort_thread
    BY <1>2, <2>2, CompletedSet, Names
  <2>8. /\ \A b \in All : Role(b)' = Role(b)
        /\ \A b, e \in All : Marks(b, e)' => Marks(b, e) /\ b # a
        /\ \A b, e \in All, v \in Workers : Finds(b, e, v)' => Finds(b, e, v)
    <3>1. \A e, v : ~Marks(a, e)' /\ ~Finds(a, e, v)'
      BY <2>5 DEF Marks, Finds
    <3> QED
      BY <2>5, <2>6, <3>1, ApartViews
  <2>9. \A e \in All \ {Main} : Registered(e)' <=> Registered(e)
    BY <2>2 DEF Registered
  <2>10. WaitsOnly(a)
    <3>1. \A v : ~Belongs(Main, v)
      BY <2>3 DEF Belongs
    <3>2. \A b \in All : ~packages'[b].abort_thread
      BY <1>3, <2>7 DEF Lasting
    <3> QED
      BY <1>2, <2>5, <2>6, <2>7, <3>1, <3>2 DEF WaitsOnly, Writing
  <2>11. Dues' /\ Markers' /\ OneMarker'
    <3>1. \A b \in All : Marks(b, Main) => b = a
      BY <1>3, <1>4, <1>5, <2>1 DEF OneMarker
    <3> QED
      BY <1>2, <1>3, <1>5, <2>1, <2>8, <2>9, <3>1 DEF Dues, Markers, OneMarker
  <2>12. Finders' /\ Entered'
    BY <1>3, <1>6, <1>7, <2>2, <2>8 DEF Finders, Entered
  <2>13. MainPaused'
    BY <2>2, <2>3, <2>8, Names DEF MainPaused
  <2>14. pc'[a] # "error"
    BY <2>5
  <2> QED
    BY <1>2, <2>10, <2>11, <2>12, <2>13, <2>14, WaitsOnlyShape
<1> QED
  BY <1>8, <1>9

\* edatRestart: neither the main thread nor the progress thread has a worker.
LEMMA ShapeRestart ==
  ASSUME Typed, PollersOK, Shape, RestartsBeside, edatRestart
  PROVE  Shape'
<1>1. /\ Turns /\ Nonactive /\ Writers /\ OneWriter /\ Launchers /\ Handers /\ OneHander /\ Pausers
      /\ Spares /\ Pausing /\ Readies /\ Once
      /\ Dues /\ Markers /\ OneMarker /\ Finders /\ Entered /\ MainPaused /\ Lasting
  BY DEF Shape
<1>2. /\ pc[Main] = "finalised" /\ restarts < settings.restarts /\ restarts' = restarts + 1
      /\ \E l \in {"poll", "gone"} : pc' = [pc EXCEPT ![Main] = "reset", ![Progress] = l]
      /\ UNCHANGED <<settings, workers, paused, packages, call, due>>
  BY DEF edatRestart, At, history
<1>3. pc[Progress] = "gone"
  BY <1>2 DEF edatRestart, At, PollersOK
<1>4. restarts \in Nat /\ restarts' > 0 /\ settings \in Settings /\ settings.restarts # 0
  BY <1>2, BoundFacts DEF Typed, OthersTyped
<1>5. ~settings.mainIsWorker
  BY <1>4 DEF RestartsBeside
<1>6. Workers' = Workers
  BY <1>2, SameSettings
<1>7. /\ pc'[Main] = "reset" /\ pc'[Progress] \in {"poll", "gone"} /\ call' = call
      /\ \A b \in All \ {Main, Progress} : pc'[b] = pc[b]
  BY <1>2, Names DEF Typed, PlacesTyped
<1>8. \A b \in All \ {Main, Progress} : Role(b)' = Role(b)
  BY <1>7 DEF Role
<1>9. \A v : ~Belongs(Main, v) /\ ~Belongs(Progress, v)
  BY <1>5, Names DEF Belongs
<1>10. /\ \A b, v : Belongs(b, v)' <=> Belongs(b, v)
       /\ \A b : Completed(b)' <=> Completed(b)
       /\ \A d : Registered(d)' <=> Registered(d)
  BY <1>2 DEF Belongs, Completed, Registered, paused
<1>11. \A b \in All : \A v : Belongs(b, v) => Role(b)' = Role(b)
  BY <1>8, <1>9
<1>12. \A d \in All : Role(d) = "paused" => Role(d)' = "paused"
  <2>1. Role(Main) # "paused" /\ Role(Progress) # "paused"
    BY <1>2, <1>3 DEF Role, RoleOf, Calls, Polls
  <2> QED
    BY <1>8, <2>1
<1>13. /\ \A b \in All : \A v : Writes(b, v)' <=> Writes(b, v)
       /\ \A b \in All : \A v : Launching(b, v)' <=> Launching(b, v)
       /\ \A b \in All : \A d : Marks(b, d)' <=> Marks(b, d)
       /\ \A b \in All : \A d, v : Finds(b, d, v)' <=> Finds(b, d, v)
  <2>1. ASSUME NEW b \in {Main, Progress}, NEW d, NEW v
        PROVE  /\ ~Writes(b, v)' /\ ~Writes(b, v) /\ ~Launching(b, v)' /\ ~Launching(b, v)
               /\ ~Marks(b, d)' /\ ~Marks(b, d) /\ ~Finds(b, d, v)' /\ ~Finds(b, d, v)
    BY <1>2, <1>3, <1>7 DEF Writes, Launching, Marks, Finds, Writing
  <2>2. ASSUME NEW b \in All \ {Main, Progress}, NEW d, NEW v
        PROVE  /\ Writes(b, v)' <=> Writes(b, v)
               /\ Launching(b, v)' <=> Launching(b, v)
               /\ Marks(b, d)' <=> Marks(b, d)
               /\ Finds(b, d, v)' <=> Finds(b, d, v)
    BY <1>7 DEF Writes, Launching, Marks, Finds
  <2> QED
    BY <2>1, <2>2
<1>14. \A v \in Workers :
           /\ Active(v)' = Active(v) /\ (Busy(v)' <=> Busy(v))
           /\ \A d : IsPaused(d, v)' <=> IsPaused(d, v)
           /\ \A d : IsReady(d, v)' <=> IsReady(d, v)
           /\ \A d : IsSpare(d, v)' <=> IsSpare(d, v)
           /\ (OneToOne(workers[v].idleThreads) /\ OneToOne(workers[v].waitingThreads))'
                <=> (OneToOne(workers[v].idleThreads) /\ OneToOne(workers[v].waitingThreads))
  BY <1>2 DEF Active, Busy, IsPaused, IsReady, IsSpare
<1>15. \A v \in Workers, t \in All : Active(v) = t => Belongs(t, v) /\ Role(t)' = Role(t)
  BY <1>1, <1>11 DEF Turns
<1>16. Turns' /\ Nonactive'
  BY <1>1, <1>6, <1>10, <1>11, <1>14, <1>15 DEF Turns, Nonactive
<1>17. Writers' /\ OneWriter' /\ Launchers'
  BY <1>1, <1>6, <1>10, <1>13, <1>14, <1>15 DEF Writers, OneWriter, Launchers
<1>18. Handers' /\ OneHander'
  BY <1>1, <1>6, <1>10, <1>11, <1>14, <1>15 DEF Handers, OneHander
<1>19. Pausers'
  <2>1. ASSUME NEW b \in All, NEW v, call'[b].worker = v, pc'[b] \in {"pauseActive", "pauseMap"}
        PROVE  Belongs(b, v)' /\ (pc'[b] = "pauseMap" => IsPaused(b, v)')
    <3>1. pc[b] = pc'[b] /\ call[b] = call'[b]
      BY <1>7, <2>1
    <3>2. v \in Workers
      BY <2>1, <3>1 DEF Typed, CallsTyped, CallTyped
    <3> QED
      BY <1>1, <1>10, <1>14, <2>1, <3>1, <3>2 DEF Pausers
  <2> QED
    BY <2>1 DEF Pausers, Belongs, IsPaused
<1>20. Spares' /\ Pausing' /\ Readies' /\ Once'
  BY <1>1, <1>6, <1>10, <1>11, <1>14 DEF Spares, Pausing, Readies, Once
<1>21. Dues' /\ Markers' /\ OneMarker'
  BY <1>1, <1>2, <1>10, <1>13 DEF Dues, Markers, OneMarker
<1>22. Finders' /\ Entered'
  BY <1>1, <1>2, <1>6, <1>12, <1>13, <1>14 DEF Finders, Entered, paused
<1>23. MainPaused'
  BY <1>1, <1>2, <1>10, <1>12, Names DEF MainPaused, paused
<1>24. Lasting'
  BY <1>1, <1>2, <1>4 DEF Lasting
<1> QED
  BY <1>16, <1>17, <1>18, <1>19, <1>20, <1>21, <1>22, <1>23, <1>24 DEF Shape

\* At the start each worker has one thread, which is at rest, or the main thread.
LEMMA ShapeInit ==
  ASSUME Init
  PROVE  Shape
<1>1. Typed
  BY TypedInit
<1>2. /\ settings \in Settings /\ settings.mainIsWorker \in BOOLEAN /\ settings.report \in BOOLEAN
      /\ 0 \in Workers /\ Workers \subseteq Threads /\ Workers = 0 .. settings.workers - 1 /\ NoWorker \notin Workers
  BY <1>1, SettingsAssumption, WorkerNumbers DEF Init
<1>3. \A w \in Workers : workers[w] = IF w \in firstThreads THEN newWorkerThread(settings.report, w)
                                                            ELSE newWorkerThread(TRUE, Main)
  BY DEF Init
<1>4. \A w \in Workers : w \in firstThreads <=> w > 0 \/ ~settings.mainIsWorker
  BY <1>2 DEF firstThreads
<1>5. \A w \in Workers : /\ workers[w].pausedThreads = {} /\ workers[w].waitingThreads = <<>>
                         /\ workers[w].idleThreads = <<>>
                         /\ Active(w) = IF w \in firstThreads THEN w ELSE Main
  <2> SUFFICES ASSUME NEW w \in Workers
               PROVE  /\ workers[w].pausedThreads = {} /\ workers[w].waitingThreads = <<>>
                      /\ workers[w].idleThreads = <<>>
                      /\ workers[w].activeThread = IF w \in firstThreads THEN w ELSE Main
    BY DEF Active
  <2>1. CASE w \in firstThreads
    <3>1. workers[w] = newWorkerThread(settings.report, w)
      BY <1>3, <2>1
    <3> QED
      BY <2>1, <3>1 DEF newWorkerThread
  <2>2. CASE w \notin firstThreads
    <3>1. workers[w] = newWorkerThread(TRUE, Main)
      BY <1>3, <2>2
    <3> QED
      BY <2>2, <3>1 DEF newWorkerThread
  <2> QED
    BY <2>1, <2>2
<1>6. /\ \A a \in All : packages[a].worker = IF a \in firstThreads THEN a ELSE NoWorker
      /\ \A a \in All : ~packages[a].abort_thread
      /\ \A a \in All : a \notin firstThreads => ~Completed(a)
  <2>1. \A a \in All : packages[a] = IF a \in firstThreads THEN [newPackage(a) EXCEPT !.completed = settings.report]
                                                           ELSE newPackage(NoWorker)
    BY DEF Init
  <2>2. ASSUME NEW a \in All, a \in firstThreads
        PROVE  packages[a].worker = a /\ ~packages[a].abort_thread
    <3>1. packages[a] = [newPackage(a) EXCEPT !.completed = settings.report]
      BY <2>1, <2>2
    <3> QED
      BY <3>1 DEF newPackage
  <2>3. ASSUME NEW a \in All, a \notin firstThreads
        PROVE  packages[a].worker = NoWorker /\ ~packages[a].abort_thread /\ ~packages[a].completed
    <3>1. packages[a] = newPackage(NoWorker)
      BY <2>1, <2>3
    <3> QED
      BY <3>1 DEF newPackage
  <2> QED
    BY <2>2, <2>3 DEF Completed
<1>7. /\ pc[Main] = "init" /\ pc[Progress] \in {"poll", "gone"} /\ \A t \in Threads : pc[t] = "asleep"
      /\ \A a \in All : pc[a] \in {"init", "poll", "gone", "asleep"}
  <2>1. pc[Main] = "init" /\ pc[Progress] \in {"poll", "gone"} /\ \A t \in Threads : pc[t] = "asleep"
    BY Names DEF Init
  <2> QED
    BY <2>1, Names
<1>8. Role(Main) = "awake" /\ \A t \in Threads : Role(t) = "rest"
  BY <1>7 DEF Role, RoleOf, Calls
<1>9. \A a \in All : Role(a) \in {"awake", "rest", "other"}
  BY <1>7 DEF Role, RoleOf, Calls
<1>10. Main \notin Threads /\ Main \notin firstThreads /\ firstThreads \subseteq Workers
  BY <1>2, Names DEF firstThreads
<1>11. \A a \in All, w \in Workers : Belongs(a, w) => Active(w) = a
  <2>1. ASSUME NEW a \in All, NEW w \in Workers, Belongs(a, w), a = Main PROVE Active(w) = a
    BY <1>2, <1>4, <1>5, <2>1 DEF Belongs
  <2>2. ASSUME NEW a \in All, NEW w \in Workers, Belongs(a, w), a # Main PROVE Active(w) = a
    BY <1>2, <1>5, <1>6, <2>2 DEF Belongs
  <2> QED
    BY <2>1, <2>2
<1>12. Turns
  <2>1. ASSUME NEW w \in Workers, w \in firstThreads PROVE Active(w) = w /\ Belongs(w, w) /\ w \in Threads
    BY <1>2, <1>5, <1>6, <1>10, <2>1, Names DEF Belongs
  <2>2. ASSUME NEW w \in Workers, w \notin firstThreads PROVE Active(w) = Main /\ Belongs(Main, w)
    BY <1>2, <1>4, <1>5, <2>2 DEF Belongs
  <2> QED
    BY <1>6, <1>8, <1>10, <2>1, <2>2 DEF Turns
<1>13. Nonactive
  BY <1>11 DEF Nonactive
<1>14. Writers /\ OneWriter /\ Launchers
  BY <1>7 DEF Writers, OneWriter, Launchers, Writes, Launching, Writing
<1>15. Handers /\ OneHander /\ Pausers
  BY <1>7, <1>9 DEF Handers, OneHander, Pausers
<1>16. Spares /\ Pausing /\ Readies /\ Once
  BY <1>5 DEF Spares, Pausing, Readies, Once, IsSpare, IsPaused, IsReady, InSeq, OneToOne
<1>17. Dues /\ Markers /\ OneMarker /\ Finders
  BY <1>7 DEF Init, Dues, Markers, OneMarker, Finders, Marks, Finds
<1>18. Entered
  BY <1>2 DEF Init, Entered
<1>19. MainPaused
  BY <1>6, <1>10, Names DEF Init, MainPaused
<1>20. Lasting
  BY <1>6, <1>7 DEF Lasting
<1> QED
  BY <1>12, <1>13, <1>14, <1>15, <1>16, <1>17, <1>18, <1>19, <1>20 DEF Shape

\* Steps that change nothing keep the invariant.
LEMMA ShapeStutters ==
  ASSUME Shape, vars' = vars
  PROVE  Shape'
<1>1. UNCHANGED <<settings, workers, queue, paused, pollers, packages, owner, pc, call, task, life, history>>
  BY DEF vars
<1>2. /\ UNCHANGED <<settings, workers, pausedTasksToWorkers, pausedMainThreadDescriptor, packages, pc, call>>
      /\ UNCHANGED <<due, restarts>>
  BY <1>1 DEF paused, life, history
<1>3. Workers' = Workers
  BY <1>2, SameSettings
<1>4. /\ \A a, w : Belongs(a, w)' <=> Belongs(a, w)
      /\ \A a : Role(a)' = Role(a) /\ (Completed(a)' <=> Completed(a)) /\ (Registered(a)' <=> Registered(a))
      /\ \A w : Active(w)' = Active(w) /\ (Busy(w)' <=> Busy(w))
      /\ \A a, w : IsSpare(a, w)' <=> IsSpare(a, w)
      /\ \A a, w : IsPaused(a, w)' <=> IsPaused(a, w)
      /\ \A a, w : IsReady(a, w)' <=> IsReady(a, w)
  BY <1>2 DEF Belongs, Role, Completed, Registered, Active, Busy, IsSpare, IsPaused, IsReady
<1>5. /\ \A a, w : Writes(a, w)' <=> Writes(a, w)
      /\ \A a, w : Launching(a, w)' <=> Launching(a, w)
      /\ \A a, d : Marks(a, d)' <=> Marks(a, d)
      /\ \A a, d, w : Finds(a, d, w)' <=> Finds(a, d, w)
  BY <1>2 DEF Writes, Launching, Marks, Finds
<1>6. Turns' /\ Nonactive' /\ Writers' /\ OneWriter' /\ Launchers' /\ Handers' /\ OneHander'
  BY <1>3, <1>4, <1>5 DEF Shape, Turns, Nonactive, Writers, OneWriter, Launchers, Handers, OneHander
<1>7. Pausers' /\ Spares' /\ Pausing' /\ Readies' /\ Once'
  <2>1. Pausers'
    BY <1>2 DEF Shape, Pausers, Belongs, IsPaused
  <2>2. Once'
    BY <1>2, <1>3 DEF Shape, Once
  <2> QED
    BY <1>3, <1>4, <2>1, <2>2 DEF Shape, Spares, Pausing, Readies
<1>8. Dues' /\ Markers' /\ OneMarker' /\ Finders' /\ Entered' /\ MainPaused' /\ Lasting'
  BY <1>2, <1>3, <1>4, <1>5 DEF Shape, Dues, Markers, OneMarker, Finders, Entered, MainPaused, Lasting
<1> QED
  BY <1>6, <1>7, <1>8 DEF Shape

-----------------------------------------------------------------------------
(* The invariant of a calm behaviour                                       *)

InTurn == Typed /\ PollersOK /\ Shape

\* A state that has the types is not one after an error.
LEMMA TypedNoError == Typed => NoError
<1>1. \A a : "error" \notin PlacesOf(a)
  BY DEF PlacesOf, Calls, Waiting, Polls
<1> QED
  BY <1>1 DEF Typed, PlacesTyped, NoError

\* An error is one of the thread that makes the step.
LEMMA NoErrorMoves ==
  ASSUME Typed, NEW a \in All, NEW l, pc' = [pc EXCEPT ![a] = l], pc'[a] # "error"
  PROVE  NoError'
<1>1. \A b \in All \ {a} : pc'[b] = pc[b]
  BY DEF Typed, PlacesTyped
<1> QED
  BY <1>1, TypedNoError DEF NoError

\* Once an error is excluded, the types follow.
LEMMA InTurnFollows ==
  ASSUME TInv', Shape', NoError'
  PROVE  InTurn'
  BY DEF TInv, Stuck, InTurn

\* A step in a function of the pool.
LEMMA InTurnSteps ==
  ASSUME InTurn, Calm, NEW a \in All, Steps(a)
  PROVE  InTurn'
<1> USE DEF InTurn
<1>1. CASE pauseThread(a) \/ markThreadResume(a) \/ markWaiting(a)
  <2>1. \E l : pc' = [pc EXCEPT ![a] = l]
    BY <1>1 DEF pauseThread, markThreadResume, markWaiting, Goto, Return
  <2>2. Shape' /\ pc'[a] # "error"
    BY <1>1, ShapePause, ShapeMark, ShapeMarkWaiting
  <2> QED
    BY <2>1, <2>2, NoErrorMoves, TInvSteps, InTurnFollows
<1>2. CASE ~pauseThread(a) /\ ~markThreadResume(a) /\ ~markWaiting(a)
  <2>1. Typed'
    BY <1>2, TypedStart, TypedCallFunction, TypedData, TypedResumeActive, TypedLaunch, TypedAwaitPoller,
       TypedClear, TypedPauseActive, TypedPauseMap, TypedWaitReturns,
       TypedMarkBusy, TypedMarkPoller, TypedLockPool, TypedFinished DEF Steps
  <2>2. Shape'
    BY <1>2, ShapeStart, ShapeCommand, ShapeResumeActive, ShapeLaunch, ShapeAwaitPoller, ShapePauseActive,
       ShapePauseMap, ShapeGoesOn, ShapeMarkBusy, ShapeMarkPoller, ShapeTest DEF Steps
  <2>3. NoError'
    BY <2>1, TypedNoError, PTL
  <2> QED
    BY <2>2, <2>3, TInvSteps, InTurnFollows
<1> QED
  BY <1>1, <1>2

\* A step of user code, or of a poll.
LEMMA InTurnCalls ==
  ASSUME InTurn, NEW a \in All, UserCode(a) \/ pollDelivers(a) \/ checkForLocalTermination(a)
  PROVE  InTurn'
<1> USE DEF InTurn
<1>1. TInv'
  BY TInvUser, TInvPoll
<1>2. \E l \in {"start", "mark", "pause", "notify", "loop", "lockPool"} : pc' = [pc EXCEPT ![a] = l]
  BY DEF UserCode, pollDelivers, checkForLocalTermination, submit, fire, edatWait, attachMainThread, taskEnds,
         Call, Goto
<1>3. NoError'
  <2>1. pc'[a] # "error"
    BY <1>2 DEF Typed, PlacesTyped
  <2> QED
    BY <1>2, <2>1, NoErrorMoves
<1>4. Shape'
  <2>1. CASE UserCode(a)
    <3>1. pc[a] = "task" /\ Caller(a) /\ BackOf(a) = "task"
      BY <2>1 DEF UserCode, At, Caller, BackOf
    <3> QED
      BY <2>1, <3>1, ShapeUser, ShapeFire DEF UserCode
  <2>2. CASE pollDelivers(a)
    <3>1. Caller(a) /\ BackOf(a) = Polled(a)
      BY <2>2 DEF pollDelivers, At, Caller, BackOf
    <3> QED
      BY <2>2, <3>1, ShapeUser, ShapeFire DEF pollDelivers
  <2>3. CASE checkForLocalTermination(a)
    BY <2>3, ShapeTest
  <2> QED
    BY <2>1, <2>2, <2>3
<1> QED
  BY <1>1, <1>3, <1>4, InTurnFollows

\* A step of a thread of the pool.
LEMMA InTurnEntry ==
  ASSUME InTurn, NEW t \in Threads, Entry(t)
  PROVE  InTurn'
<1> USE DEF InTurn
<1>1. Typed'
  BY TypedWake, TypedIssue, TypedTake, TypedLookForWaiting, TypedHandOver, TypedResumeWaiting, TypedReactivated,
     TypedGoIdle, TypedStartPolling, TypedPollReturns, TypedCheckBusy, TypedStopPolling DEF Entry
<1>2. NoError'
  BY <1>1, TypedNoError, PTL
<1>3. Shape'
  <2>1. t \in All
    BY Names
  <2> QED
    BY <2>1, ShapeGoesOn, ShapeEntry, ShapeHandOver, ShapeResumeWaiting, ShapeGoIdle DEF Entry
<1> QED
  BY <1>2, <1>3, TInvEntry, InTurnFollows

\* A step of the main thread.
LEMMA InTurnMain ==
  ASSUME InTurn, RestartsBeside, MainSteps \/ edatRestart
  PROVE  InTurn'
<1> USE DEF InTurn
<1>1. Typed'
  <2>1. edatRestart => pc[Progress] = "gone"
    BY DEF edatRestart, At, PollersOK
  <2> QED
    BY <2>1, TypedSetMessaging, TypedNotify, TypedWoken, TypedReset, TypedRestart DEF MainSteps
<1>2. NoError'
  BY <1>1, TypedNoError, PTL
<1>3. Shape'
  BY ShapeMain, ShapeNotify, ShapeRestart DEF MainSteps
<1> QED
  BY <1>2, <1>3, TInvMain, InTurnFollows

\* Every calm step keeps the invariant.
LEMMA InTurnNext ==
  ASSUME RestartsBeside, InTurn, [Next]_vars, [Calm]_vars
  PROVE  InTurn'
<1>1. CASE vars' = vars
  <2>1. TInv' /\ Shape'
    BY <1>1, TInvStutters, ShapeStutters DEF InTurn, TInv
  <2>2. NoError'
    BY <1>1, TypedNoError DEF InTurn, NoError, vars
  <2> QED
    BY <2>1, <2>2, InTurnFollows
<1>2. CASE Next /\ Calm /\ vars' # vars
  <2>1. ASSUME NEW a \in All, Steps(a) \/ UserCode(a) \/ pollDelivers(a) \/ checkForLocalTermination(a)
        PROVE  InTurn'
    BY <1>2, <2>1, InTurnSteps, InTurnCalls
  <2>2. ASSUME NEW t \in Threads, Entry(t) PROVE InTurn'
    BY <2>2, InTurnEntry
  <2>3. MainSteps \/ edatRestart => InTurn'
    BY InTurnMain
  <2> QED
    BY <1>2, <2>1, <2>2, <2>3 DEF Next, Stopped
<1> QED
  BY <1>1, <1>2

\* It holds in every calm behaviour.
LEMMA AlwaysInTurn ==
  ASSUME RestartsBeside
  PROVE  CalmSpec => []InTurn
<1>1. Init => InTurn
  BY TypedInit, TInvInit, ShapeInit, TypedNoError DEF InTurn, TInv, Stuck
<1>2. InTurn /\ [Next]_vars /\ [Calm]_vars => InTurn'
  BY InTurnNext
<1> QED
  BY <1>1, <1>2, PTL DEF CalmSpec, Spec

\* raiseError is never called: a thread that is to wait in edatWait is the one
\* of a worker or the main thread, and a thread that is to go on is found where
\* pauseThread has put it, however many workers and waits there are.
THEOREM CalmNoError ==
  ASSUME RestartsBeside
  PROVE  CalmSpec => []NoError
<1>1. InTurn => NoError
  BY TypedNoError DEF InTurn
<1> QED
  BY <1>1, AlwaysInTurn, PTL

\* While the events of a wait have not all come its thread stays in edatWait:
\* no wake-up that was meant for something else lets it return, unless it comes
\* in the window that Calm leaves out.
LEMMA CalmWaitOver ==
  ASSUME RestartsBeside
  PROVE  CalmSpec => []WaitOver
<1>1. InTurn => WaitOver
  <2> SUFFICES ASSUME InTurn, NEW d \in due PROVE pc[d] = "paused"
    BY DEF WaitOver
  <2>1. d \in All /\ Registered(d)
    BY Names DEF InTurn, Typed, OthersTyped, Known, Shape, Dues
  <2>2. Role(d) = "paused"
    <3>1. CASE pausedTasksToWorkers[d] # NoWorker
      <4>1. PICK w \in Workers : pausedTasksToWorkers[d] = w
        BY <2>1, <3>1 DEF InTurn, Typed, OthersTyped
      <4> QED
        BY <2>1, <4>1 DEF InTurn, Shape, Entered
    <3>2. CASE d = Main /\ pausedMainThreadDescriptor
      BY <3>2 DEF InTurn, Shape, MainPaused
    <3> QED
      BY <2>1, <3>1, <3>2 DEF Registered
  <2> QED
    BY <2>2 DEF Role, RoleOf
<1> QED
  BY <1>1, AlwaysInTurn, PTL
=============================================================================
