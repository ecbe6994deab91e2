------------------------------ MODULE Scheduler ------------------------------
(***************************************************************************)
(* The scheduler of one EDAT process (src/src/scheduler.cpp): tasks and    *)
(* events are matched under one mutex, taskAndEvent_mutex, which every     *)
(* entry point takes and which the longer ones give up and retake.         *)
(*                                                                         *)
(* A thread inside the scheduler is a stack of frames, todo[t]: the call   *)
(* it is executing, and what is left of its callers.  Every iteration of   *)
(* a loop of the code is one step, so that a step needs no recursion; the  *)
(* mutex keeps the steps of one critical section together.                 *)
(*                                                                         *)
(* A std::map<DependencyKey, ...> is a total function on Keys in which an  *)
(* absent entry is 0 (a counter) or <<>> (a queue).                        *)
(***************************************************************************)
EXTENDS Integers, FiniteSets, SequencesExt

CONSTANTS
  Ranks,         \* the ranks events come from
  MyRank,        \* the rank of the process that is modelled
  EventIds,      \* event identifiers
  Threads,       \* the threads that call into the scheduler
  Poller,        \* the one of them that receives remote events
  NoThread,      \* the owner of a free mutex
  Names, NoName, \* the names of tasks; the name of a task submitted without one
  Programs       \* the programs, one of which a behaviour runs, with its bounds

EDAT_ANY == -2

Keys == [eid : EventIds, src : Ranks \union {EDAT_ANY}]
EventKeys == [eid : EventIds, src : Ranks]
Kind == [key : EventKeys, persistent : BOOLEAN]
Submission ==
  [order : Seq(Keys), persistent : BOOLEAN, greedy : BOOLEAN, name : Names \union {NoName}]

ASSUME RanksAssumption == Ranks \subseteq Nat /\ MyRank \in Ranks
ASSUME ThreadsAssumption == Poller \in Threads /\ NoThread \notin Threads

\* What user code may do, and how often: the menus of submissions, of
\* dependency lists of edatWait and of edatRetrieveAny, of events; the
\* threads it runs on; EDAT_BATCH_EVENTS; and bounds on the events fired, the
\* tasks submitted and waits made, the retrievals and removals, and the events
\* of one batch.
Program ==
  [tasks : SUBSET Submission, waits : SUBSET Seq(Keys), retrievals : SUBSET Seq(Keys),
   kinds : SUBSET Kind, callers : SUBSET Threads, batching : BOOLEAN,
   maxEvents : Nat, maxCalls : Nat, maxQueries : Nat, maxBatch : Nat]

ASSUME ProgramsAssumption ==
  \A p \in DOMAIN Programs : Programs[p] \in Program /\ Poller \notin Programs[p].callers
ASSUME GreedyAssumption ==  \* edat.cpp and edat.F90 only offer greedy persistent tasks
  \A p \in DOMAIN Programs : \A s \in Programs[p].tasks : s.greedy => s.persistent

VARIABLES
  program,                  \* never changes
  registeredTasks,          \* std::vector<PendingTaskDescriptor*>
  pausedTasks,              \* std::vector<PausedTaskDescriptor*>
  outstandingEvents,        \* stored events, a queue per key
  outstandingEventsToHandle,
  taskAndEvent_mutex,       \* its owner, or NoThread
  todo,                     \* per thread, the frames of its calls, innermost first
  ready,                    \* tasks handed to the thread pool that have not begun
  aborted,                  \* raiseError was called
  \* history
  fired,                    \* every event that reached the scheduler
  delivered,                \* those handed to user code
  removed,                  \* those lost with a task that was removed by name
  calls, queries            \* counters of the bounds

Menu == Programs[program]

vars == <<program, registeredTasks, pausedTasks, outstandingEvents, outstandingEventsToHandle,
          taskAndEvent_mutex, todo, ready, aborted, fired, delivered, removed, calls, queries>>

-----------------------------------------------------------------------------
(* Dependency keys and the maps indexed by them                            *)

Equivalent(k, l) ==
  k.eid = l.eid /\ (k.src = l.src \/ k.src = EDAT_ANY \/ l.src = EDAT_ANY)

LeastSource(ks) == CHOOSE k \in ks : \A l \in ks : k.src <= l.src

\* The entry that find and insert use for k when the entries in use are
\* "present": the leftmost of those that compare equivalent to it.
Slot(present, k) ==
  LET same == {l \in present : Equivalent(k, l)}
  IN  IF same = {} THEN k ELSE LeastSource(same)

Counted(m) == {k \in Keys : m[k] # 0}
Queued(m) == {k \in Keys : m[k] # <<>>}
NoCount == [k \in Keys |-> 0]
NoQueue == [k \in Keys |-> <<>>]

\* Mistake: the newest event goes to the front.
PushFront(m, k, e) == [m EXCEPT ![Slot(Queued(m), k)] = <<e>> \o @]

Bump(m, k) == [m EXCEPT ![Slot(Counted(m), k)] = @ + 1]
Push(m, k, e) == [m EXCEPT ![Slot(Queued(m), k)] = Append(@, e)]
Depends(m, k) == \E l \in Counted(m) : Equivalent(l, k)

Event == [id : Nat, key : EventKeys, persistent : BOOLEAN]

-----------------------------------------------------------------------------
(* Task descriptors, pending and paused                                    *)

NewTask(s) ==
  [id |-> calls, order |-> s.order, persistent |-> s.persistent, greedy |-> s.greedy,
   name |-> s.name, original |-> NoCount, outstanding |-> NoCount, arrived |-> NoQueue,
   numArrivedEvents |-> 0]

\* Mistake: one dependency that is met is enough.
CompleteEarly(task) == task.numArrivedEvents > 0

Complete(task) == Counted(task.outstanding) = {}

\* Mistake: the events that arrived are not reset.
RearmKeeping(task) == [task EXCEPT !.outstanding = task.original]

\* A persistent task that fires keeps its descriptor; a copy of it runs.
Rearm(task) ==
  [task EXCEPT !.outstanding = task.original, !.arrived = NoQueue, !.numArrivedEvents = 0]

Arrive(task, k, e) ==
  [task EXCEPT !.arrived = Push(@, k, e), !.numArrivedEvents = @ + 1]

\* updateMatchingEventInTaskDescriptor: one outstanding dependency less.
Satisfy(task, k, e) ==
  LET slot == Slot(Counted(task.outstanding), k)
  IN  Arrive([task EXCEPT !.outstanding[slot] = @ - 1], k, e)

\* Mistake: the dependencies are walked from the other end.
QueueOfLast(task, i) == Slot(Queued(task.arrived), task.order[Len(task.order) + 1 - i])

\* generateEventsPayload: the i-th event handed to a task is the next one of
\* the queue that the i-th dependency finds.
QueueOf(task, i) == Slot(Queued(task.arrived), task.order[i])
Turn(task, i) == Cardinality({j \in 1..i : QueueOf(task, j) = QueueOf(task, i)})
PayloadExists(task) ==
  task.greedy \/ \A i \in 1..Len(task.order) :
                    Turn(task, i) <= Len(task.arrived[QueueOf(task, i)])
PayloadEvent(task, i) == task.arrived[QueueOf(task, i)][Turn(task, i)]
ArrivedEvents(task) == UNION {ToSet(task.arrived[k]) : k \in Keys}

\* User code gets the payload, or the process stops in raiseError.
Deliver(task) ==
  /\ aborted' = ~PayloadExists(task)
  /\ delivered' = IF PayloadExists(task) THEN delivered \union ArrivedEvents(task)
                                         ELSE delivered

-----------------------------------------------------------------------------
(* The store of events nobody waited for                                   *)

Store(k) == Slot(Queued(outstandingEvents), k)
IsStored(k) == outstandingEvents[Store(k)] # <<>>
First(k) == Head(outstandingEvents[Store(k)])

\* Mistake: the event is handed out but not popped.
TakeFirstKeeping(k) ==
  /\ outstandingEventsToHandle' = outstandingEventsToHandle - (IF First(k).persistent THEN 0 ELSE 1)
  /\ UNCHANGED outstandingEvents

\* A persistent event stays in its queue, and is copied.
TakeFirst(k) ==
  IF First(k).persistent
    THEN UNCHANGED <<outstandingEvents, outstandingEventsToHandle>>
    ELSE /\ outstandingEvents' = [outstandingEvents EXCEPT ![Store(k)] = Tail(@)]
         /\ outstandingEventsToHandle' = outstandingEventsToHandle - 1

-----------------------------------------------------------------------------
(* Threads, their frames and the mutex                                     *)

Top(t) == Head(todo[t])
In(t, op) == todo[t] # <<>> /\ Top(t).op = op
At(t, op) == ~aborted /\ In(t, op)
Outside(t) == ~aborted /\ todo[t] = <<>>
Replace(t, frames) == todo' = [todo EXCEPT ![t] = frames \o Tail(@)]
Return(t) == Replace(t, <<>>)

Free == taskAndEvent_mutex = NoThread
Holds(t) == taskAndEvent_mutex = t
Lock(t) == Free /\ taskAndEvent_mutex' = t
Unlock == taskAndEvent_mutex' = NoThread

StartFrame(task) == [op |-> "start", task |-> task]
ConsumeFrame == [op |-> "consume", at |-> 0, keys |-> {}, progress |-> FALSE]
EventFrame(e) == [op |-> "event", event |-> e]

\* User code runs on other threads than the one that polls.
MayCall(t) == t \in Menu.callers /\ Outside(t)

Init ==
  /\ program \in DOMAIN Programs
  /\ registeredTasks = <<>> /\ pausedTasks = <<>>
  /\ outstandingEvents = NoQueue /\ outstandingEventsToHandle = 0
  /\ taskAndEvent_mutex = NoThread
  /\ todo = [t \in Threads |-> <<>>]
  /\ ready = <<>> /\ aborted = FALSE
  /\ fired = {} /\ delivered = {} /\ removed = {}
  /\ calls = 0 /\ queries = 0

-----------------------------------------------------------------------------
(* registerTask and pauseTask                                              *)

Gather(t, call, s) ==
  /\ MayCall(t) /\ Lock(t)
  /\ calls < Menu.maxCalls /\ calls' = calls + 1
  /\ todo' = [todo EXCEPT ![t] =
       <<[op |-> "gather", call |-> call, task |-> NewTask(s), next |-> 1, found |-> FALSE]>>]
  /\ UNCHANGED <<program, registeredTasks, pausedTasks, outstandingEvents, outstandingEventsToHandle,
                 ready, aborted, fired, delivered, removed, queries>>

RegisterTask(t) == \E s \in Menu.tasks : Gather(t, "register", s)

PauseTask(t) ==
  \E order \in Menu.waits :
    Gather(t, "wait", [order |-> order, persistent |-> FALSE, greedy |-> FALSE, name |-> NoName])

Gathering(t) ==
  At(t, "gather") /\ Holds(t) /\ Top(t).next \in 1..Len(Top(t).task.order)

\* The descriptor once the dependency at hand is counted among the original ones.
Noted(f) ==
  IF f.found THEN f.task
  ELSE [f.task EXCEPT !.original = Bump(@, f.task.order[f.next])]

\* A stored event is taken at once; a greedy task takes all that are stored.
GatherStored(t) ==
  /\ Gathering(t)
  /\ LET f == Top(t)  k == f.task.order[f.next] IN
       /\ IsStored(k)
       /\ TakeFirst(k)
       /\ Replace(t, <<[f EXCEPT !.task = Arrive(Noted(f), k, First(k)),
                                 !.next = IF f.task.greedy THEN @ ELSE @ + 1,
                                 !.found = f.task.greedy]>>)
  /\ UNCHANGED <<program, registeredTasks, pausedTasks, taskAndEvent_mutex, ready, aborted, fired,
                 delivered, removed, calls, queries>>

GatherMissing(t) ==
  /\ Gathering(t)
  /\ LET f == Top(t)  k == f.task.order[f.next] IN
       /\ ~IsStored(k)
       /\ Replace(t, <<[f EXCEPT !.task = IF f.found THEN @
                                          ELSE [Noted(f) EXCEPT !.outstanding = Bump(@, k)],
                                 !.next = @ + 1, !.found = FALSE]>>)
  /\ UNCHANGED <<program, registeredTasks, pausedTasks, outstandingEvents, outstandingEventsToHandle,
                 taskAndEvent_mutex, ready, aborted, fired, delivered, removed, calls, queries>>

Gathered(t, call) ==
  At(t, "gather") /\ Holds(t) /\ Top(t).call = call /\ Top(t).next > Len(Top(t).task.order)

FinishRegisterTask(t) ==
  /\ Gathered(t, "register")
  /\ LET task == Top(t).task IN
       IF Complete(task)
         THEN /\ registeredTasks' = IF task.persistent THEN Append(registeredTasks, Rearm(task))
                                                       ELSE registeredTasks
              /\ Replace(t, <<StartFrame(task), ConsumeFrame>>)
         ELSE /\ registeredTasks' = Append(registeredTasks, task)
              /\ Return(t)
  /\ Unlock
  /\ UNCHANGED <<program, pausedTasks, outstandingEvents, outstandingEventsToHandle, ready, aborted,
                 fired, delivered, removed, calls, queries>>

\* With everything there the wait is over; otherwise the thread pool pauses
\* the thread, and releases the mutex once the thread can be found.
FinishPauseTask(t) ==
  /\ Gathered(t, "wait")
  /\ LET task == Top(t).task IN
       IF Complete(task)
         THEN /\ Deliver(task)
              /\ Return(t)
              /\ UNCHANGED pausedTasks
         ELSE /\ pausedTasks' = Append(pausedTasks, task)
              /\ Replace(t, <<[op |-> "paused", id |-> task.id]>>)
              /\ UNCHANGED <<aborted, delivered>>
  /\ Unlock
  /\ UNCHANGED <<program, registeredTasks, outstandingEvents, outstandingEventsToHandle, ready, fired,
                 removed, calls, queries>>

-----------------------------------------------------------------------------
(* registerEvent                                                           *)

NewEvent(kind, n) ==
  [id |-> Cardinality(fired) + n, key |-> kind.key, persistent |-> kind.persistent]

\* Local events are fired by user code, remote ones arrive at the poller.
RegisterEvent(t) ==
  /\ Outside(t) /\ Lock(t)
  /\ IF t = Poller THEN ~Menu.batching ELSE t \in Menu.callers
  /\ Cardinality(fired) < Menu.maxEvents
  /\ \E kind \in Menu.kinds :
       /\ (t = Poller) <=> (kind.key.src # MyRank)
       /\ fired' = fired \union {NewEvent(kind, 1)}
       /\ todo' = [todo EXCEPT ![t] = <<EventFrame(NewEvent(kind, 1))>>]
  /\ UNCHANGED <<program, registeredTasks, pausedTasks, outstandingEvents, outstandingEventsToHandle,
                 ready, aborted, delivered, removed, calls, queries>>

\* Mistake: only the oldest task is looked at.
MatchingOldest(tasks, k) == {i \in DOMAIN tasks : i = 1 /\ Depends(tasks[i].outstanding, k)}

Matching(tasks, k) == {i \in DOMAIN tasks : Depends(tasks[i].outstanding, k)}
LeastIndex(is) == CHOOSE i \in is : \A j \in is : i <= j

Registering(t) == At(t, "event") /\ (Free \/ Holds(t))

\* Mistake: a persistent event is consumed like any other.
AgainNever(t) == <<>>

\* A persistent event is tried again until nothing waits for it.
Again(t) == IF Top(t).event.persistent THEN <<Top(t)>> ELSE <<>>

MatchRegistered(t) ==
  /\ Registering(t)
  /\ LET e == Top(t).event
         candidates == Matching(registeredTasks, e.key)
         i == LeastIndex(candidates)
         task == Satisfy(registeredTasks[i], e.key, e)
     IN  /\ candidates # {}
         /\ IF Complete(task)
              THEN /\ registeredTasks' = IF task.persistent
                                           THEN [registeredTasks EXCEPT ![i] = Rearm(task)]
                                           ELSE RemoveAt(registeredTasks, i)
                   /\ Replace(t, <<StartFrame(task), ConsumeFrame>> \o Again(t))
                   /\ Unlock
              ELSE /\ registeredTasks' = [registeredTasks EXCEPT ![i] = task]
                   /\ Replace(t, Again(t))
                   /\ taskAndEvent_mutex' = IF e.persistent THEN t ELSE NoThread
  /\ UNCHANGED <<program, pausedTasks, outstandingEvents, outstandingEventsToHandle, ready, aborted,
                 fired, delivered, removed, calls, queries>>

MatchPaused(t) ==
  /\ Registering(t)
  /\ LET e == Top(t).event
         candidates == Matching(pausedTasks, e.key)
         i == LeastIndex(candidates)
         task == Satisfy(pausedTasks[i], e.key, e)
     IN  /\ Matching(registeredTasks, e.key) = {} /\ candidates # {}
         /\ IF Complete(task)
              THEN /\ pausedTasks' = RemoveAt(pausedTasks, i)
                   /\ Replace(t, <<[op |-> "resume", task |-> task]>> \o Again(t))
                   /\ Unlock
              ELSE /\ pausedTasks' = [pausedTasks EXCEPT ![i] = task]
                   /\ Replace(t, Again(t))
                   /\ taskAndEvent_mutex' = IF e.persistent THEN t ELSE NoThread
  /\ UNCHANGED <<program, registeredTasks, outstandingEvents, outstandingEventsToHandle, ready, aborted,
                 fired, delivered, removed, calls, queries>>

\* Mistake: an event that is stored is not counted.
TallyNone(e) == 0

\* What an event adds to outstandingEventsToHandle.
Tally(e) == IF e.persistent THEN 0 ELSE 1

StoreEvent(t) ==
  /\ Registering(t)
  /\ LET e == Top(t).event IN
       /\ Matching(registeredTasks, e.key) = {} /\ Matching(pausedTasks, e.key) = {}
       /\ outstandingEvents' = Push(outstandingEvents, e.key, e)
       /\ outstandingEventsToHandle' = outstandingEventsToHandle + Tally(e)
  /\ Return(t) /\ Unlock
  /\ UNCHANGED <<program, registeredTasks, pausedTasks, ready, aborted, fired, delivered, removed,
                 calls, queries>>

-----------------------------------------------------------------------------
(* registerEvents: a batch, offered to greedy tasks first                  *)

BatchKeys(i) ==
  IF i \in DOMAIN registeredTasks /\ registeredTasks[i].greedy
    THEN Counted(registeredTasks[i].outstanding) ELSE {}

RegisterEvents(t) ==
  /\ t = Poller /\ Menu.batching /\ Outside(t) /\ Lock(t)
  /\ \E n \in 1..Menu.maxBatch :
     \E kinds \in [1..n -> {kind \in Menu.kinds : kind.key.src # MyRank}] :
       LET events == [j \in 1..n |-> NewEvent(kinds[j], j)] IN
         /\ Cardinality(fired) + n <= Menu.maxEvents
         /\ fired' = fired \union ToSet(events)
         /\ todo' = [todo EXCEPT ![t] =
              <<[op |-> "batch", events |-> events, at |-> 1, keys |-> BatchKeys(1),
                 run |-> <<>>]>>]
  /\ UNCHANGED <<program, registeredTasks, pausedTasks, outstandingEvents, outstandingEventsToHandle,
                 ready, aborted, delivered, removed, calls, queries>>

Scanning(t) == At(t, "batch") /\ Holds(t) /\ Top(t).at \in DOMAIN registeredTasks

\* Every event of the batch that one dependency matches moves to the task,
\* a persistent one too; the dependency is met by the first and stays met.
GreedyTake(t) ==
  /\ Scanning(t) /\ Top(t).keys # {}
  /\ LET f == Top(t)
         k == LeastSource(f.keys)
         hits == {j \in DOMAIN f.events : Equivalent(f.events[j].key, k)}
         j == LeastIndex(hits)
         e == f.events[j]
         task == registeredTasks[f.at]
         met == [task EXCEPT !.outstanding[k] = IF @ > 0 THEN @ - 1 ELSE 0]
     IN  IF hits = {}
           THEN /\ Replace(t, <<[f EXCEPT !.keys = @ \ {k}]>>)
                /\ UNCHANGED registeredTasks
           ELSE /\ registeredTasks' = [registeredTasks EXCEPT ![f.at] = Arrive(met, e.key, e)]
                /\ Replace(t, <<[f EXCEPT !.events = RemoveAt(@, j)]>>)
  /\ UNCHANGED <<program, pausedTasks, outstandingEvents, outstandingEventsToHandle, taskAndEvent_mutex,
                 ready, aborted, fired, delivered, removed, calls, queries>>

GreedyNext(t) ==
  /\ Scanning(t) /\ Top(t).keys = {}
  /\ LET f == Top(t)
         task == registeredTasks[f.at]
         fires == task.greedy /\ Complete(task)
     IN  /\ registeredTasks' = IF fires THEN [registeredTasks EXCEPT ![f.at] = Rearm(task)]
                                        ELSE registeredTasks
         /\ Replace(t, <<[f EXCEPT !.at = @ + 1, !.keys = BatchKeys(f.at + 1),
                                   !.run = IF fires THEN Append(@, task) ELSE @]>>)
  /\ UNCHANGED <<program, pausedTasks, outstandingEvents, outstandingEventsToHandle, taskAndEvent_mutex,
                 ready, aborted, fired, delivered, removed, calls, queries>>

\* The tasks that fired are started, then the events left are registered one by one.
FinishBatch(t) ==
  /\ At(t, "batch") /\ Holds(t) /\ Top(t).at > Len(registeredTasks)
  /\ LET f == Top(t) IN
       Replace(t, [j \in 1..Len(f.run) |-> StartFrame(f.run[j])]
                    \o [j \in 1..Len(f.events) |-> EventFrame(f.events[j])])
  /\ Unlock
  /\ UNCHANGED <<program, registeredTasks, pausedTasks, outstandingEvents, outstandingEventsToHandle,
                 ready, aborted, fired, delivered, removed, calls, queries>>

-----------------------------------------------------------------------------
(* readyToRunTask, consumeEventsByPersistentTasks, the thread pool         *)

ReadyToRunTask(t) ==
  /\ At(t, "start")
  /\ ready' = Append(ready, Top(t).task)
  /\ Return(t)
  /\ UNCHANGED <<program, registeredTasks, pausedTasks, outstandingEvents, outstandingEventsToHandle,
                 taskAndEvent_mutex, aborted, fired, delivered, removed, calls, queries>>

\* Mistake: stored events are left to the events that arrive next.
ConsumableNone(i) == {}

\* The dependencies of the i-th task that a pass looks at with success.
Consumable(i) ==
  IF i \in DOMAIN registeredTasks /\ registeredTasks[i].persistent
    THEN {k \in Counted(registeredTasks[i].outstanding) : IsStored(k)} ELSE {}

ConsumeBegin(t) ==
  /\ At(t, "consume") /\ Top(t).at = 0 /\ Lock(t)
  /\ Replace(t, <<[Top(t) EXCEPT !.at = 1, !.keys = Consumable(1)]>>)
  /\ UNCHANGED <<program, registeredTasks, pausedTasks, outstandingEvents, outstandingEventsToHandle,
                 ready, aborted, fired, delivered, removed, calls, queries>>

Consuming(t) == At(t, "consume") /\ Holds(t) /\ Top(t).at \in DOMAIN registeredTasks

\* checkProgressPersistentTasks takes one stored event per outstanding dependency.
ConsumeStored(t) ==
  /\ Consuming(t) /\ Top(t).keys # {}
  /\ LET f == Top(t)  k == LeastSource(f.keys)  task == registeredTasks[f.at] IN
       /\ TakeFirst(k)
       /\ registeredTasks' = [registeredTasks EXCEPT ![f.at] =
            Arrive([task EXCEPT !.outstanding[k] = @ - 1], k, First(k))]
       /\ Replace(t, <<[f EXCEPT !.keys = @ \ {k}]>>)
  /\ UNCHANGED <<program, pausedTasks, taskAndEvent_mutex, ready, aborted, fired, delivered, removed,
                 calls, queries>>

ConsumeNext(t) ==
  /\ Consuming(t) /\ Top(t).keys = {}
  /\ LET f == Top(t)
         task == registeredTasks[f.at]
         fires == task.persistent /\ Complete(task)
     IN  /\ registeredTasks' = IF fires THEN [registeredTasks EXCEPT ![f.at] = Rearm(task)]
                                        ELSE registeredTasks
         /\ ready' = IF fires THEN Append(ready, task) ELSE ready
         /\ Replace(t, <<[f EXCEPT !.at = @ + 1, !.keys = Consumable(f.at + 1),
                                   !.progress = @ \/ fires]>>)
  /\ UNCHANGED <<program, pausedTasks, outstandingEvents, outstandingEventsToHandle, taskAndEvent_mutex,
                 aborted, fired, delivered, removed, calls, queries>>

\* Mistake: the pass after one that fired a task is followed by yet another.
AnewForever(f) == [f EXCEPT !.at = 1, !.keys = Consumable(1)]

Anew(f) == [f EXCEPT !.at = 1, !.keys = Consumable(1), !.progress = FALSE]

\* A pass in which a task fired is followed by another.
ConsumeEnd(t) ==
  /\ At(t, "consume") /\ Holds(t) /\ Top(t).at > Len(registeredTasks)
  /\ IF Top(t).progress
       THEN /\ Replace(t, <<Anew(Top(t))>>)
            /\ UNCHANGED taskAndEvent_mutex
       ELSE Return(t) /\ Unlock
  /\ UNCHANGED <<program, registeredTasks, pausedTasks, outstandingEvents, outstandingEventsToHandle,
                 ready, aborted, fired, delivered, removed, calls, queries>>

\* A worker begins a task: threadBootstrapperFunction builds its payload.
RunTask ==
  \E i \in DOMAIN ready :
    /\ ~aborted /\ Deliver(ready[i])
    /\ ready' = RemoveAt(ready, i)
    /\ UNCHANGED <<program, registeredTasks, pausedTasks, outstandingEvents, outstandingEventsToHandle,
                   taskAndEvent_mutex, todo, fired, removed, calls, queries>>

\* Mistake: the wake-up is lost.
MarkThreadResumeLost(t) ==
  /\ At(t, "resume")
  /\ Return(t)
  /\ UNCHANGED <<program, registeredTasks, pausedTasks, outstandingEvents, outstandingEventsToHandle,
                 taskAndEvent_mutex, ready, aborted, fired, delivered, removed, calls, queries>>

\* markThreadResume wakes the thread that paused with this descriptor ...
MarkThreadResume(t) ==
  /\ At(t, "resume")
  /\ \E u \in Threads :
       /\ In(u, "paused") /\ Top(u).id = Top(t).task.id
       /\ todo' = [todo EXCEPT ![t] = Tail(@),
                               ![u] = <<[op |-> "resumed", task |-> Top(t).task]>>]
  /\ UNCHANGED <<program, registeredTasks, pausedTasks, outstandingEvents, outstandingEventsToHandle,
                 taskAndEvent_mutex, ready, aborted, fired, delivered, removed, calls, queries>>

\* ... which then hands the payload to the caller of edatWait.
Resumed(t) ==
  /\ At(t, "resumed")
  /\ Deliver(Top(t).task)
  /\ Return(t)
  /\ UNCHANGED <<program, registeredTasks, pausedTasks, outstandingEvents, outstandingEventsToHandle,
                 taskAndEvent_mutex, ready, fired, removed, calls, queries>>

-----------------------------------------------------------------------------
(* retrieveAnyMatchingEvents and removeTask                                *)

RetrieveAny(t) ==
  /\ MayCall(t) /\ Lock(t)
  /\ queries < Menu.maxQueries /\ queries' = queries + 1
  /\ \E order \in Menu.retrievals :
       todo' = [todo EXCEPT ![t] = <<[op |-> "retrieve", order |-> order]>>]
  /\ UNCHANGED <<program, registeredTasks, pausedTasks, outstandingEvents, outstandingEventsToHandle,
                 ready, aborted, fired, delivered, removed, calls>>

RetrieveNext(t) ==
  /\ At(t, "retrieve") /\ Holds(t)
  /\ LET order == Top(t).order IN
       IF order = <<>>
         THEN /\ Return(t) /\ Unlock
              /\ UNCHANGED <<outstandingEvents, outstandingEventsToHandle, delivered>>
         ELSE /\ Replace(t, <<[Top(t) EXCEPT !.order = Tail(@)]>>)
              /\ IF IsStored(Head(order))
                   THEN TakeFirst(Head(order)) /\ delivered' = delivered \union {First(Head(order))}
                   ELSE UNCHANGED <<outstandingEvents, outstandingEventsToHandle, delivered>>
              /\ UNCHANGED taskAndEvent_mutex
  /\ UNCHANGED <<program, registeredTasks, pausedTasks, ready, aborted, fired, removed, calls, queries>>

\* locatePendingTaskFromName; the events the task had consumed go with it.
Named(name) == {i \in DOMAIN registeredTasks : registeredTasks[i].name = name}

RemoveTask(t) ==
  /\ MayCall(t) /\ Free
  /\ queries < Menu.maxQueries /\ queries' = queries + 1
  /\ \E name \in Names \ {NoName} :
       IF Named(name) = {}
         THEN UNCHANGED <<registeredTasks, removed>>
         ELSE LET i == LeastIndex(Named(name)) IN
              /\ registeredTasks' = RemoveAt(registeredTasks, i)
              /\ removed' = removed \union ArrivedEvents(registeredTasks[i])
  /\ UNCHANGED <<program, pausedTasks, outstandingEvents, outstandingEventsToHandle, taskAndEvent_mutex,
                 todo, ready, aborted, fired, delivered, calls>>

-----------------------------------------------------------------------------
(* isFinished, tested by the poller with the mutex held, and the           *)
(* conditions of the thread pool that are tested with it                   *)

isFinished ==
  outstandingEventsToHandle = 0 /\ \A i \in DOMAIN registeredTasks : registeredTasks[i].persistent

Idle == ready = <<>> /\ \A t \in Threads : todo[t] = <<>>

-----------------------------------------------------------------------------
Call(t) ==
  \/ RegisterTask(t) \/ PauseTask(t) \/ RetrieveAny(t) \/ RemoveTask(t)
  \/ RegisterEvent(t) \/ RegisterEvents(t)

Step(t) ==
  \/ GatherStored(t) \/ GatherMissing(t) \/ FinishRegisterTask(t) \/ FinishPauseTask(t)
  \/ MatchRegistered(t) \/ MatchPaused(t) \/ StoreEvent(t)
  \/ GreedyTake(t) \/ GreedyNext(t) \/ FinishBatch(t)
  \/ ReadyToRunTask(t) \/ ConsumeBegin(t) \/ ConsumeStored(t) \/ ConsumeNext(t) \/ ConsumeEnd(t)
  \/ MarkThreadResume(t) \/ Resumed(t) \/ RetrieveNext(t)

\* Every call has returned, or waits for events.
Quiescent == ready = <<>> /\ \A t \in Threads : todo[t] = <<>> \/ In(t, "paused")

\* Nothing is left to do: not a deadlock.
Stopped == (aborted \/ Quiescent) /\ UNCHANGED vars

Next == RunTask \/ (\E t \in Threads : Call(t) \/ Step(t)) \/ Stopped

\* A thread inside the scheduler runs, and the pool gets to every task.
Fairness ==
  /\ \A t \in Threads : WF_vars(Step(t))
  /\ WF_vars(RunTask)

Spec == Init /\ [][Next]_vars /\ Fairness
=============================================================================
