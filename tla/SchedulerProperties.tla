------------------------- MODULE SchedulerProperties -------------------------
(***************************************************************************)
(* What the scheduler of one process is relied upon to do.                 *)
(***************************************************************************)
EXTENDS Scheduler

-----------------------------------------------------------------------------
(* Types                                                                   *)

Count == [Keys -> Nat]
Queue == [Keys -> Seq(Event)]

Task ==
  [id : Nat, order : Seq(Keys), persistent : BOOLEAN, greedy : BOOLEAN,
   name : Names \union {NoName}, original : Count, outstanding : Count, arrived : Queue,
   numArrivedEvents : Nat]

Frame ==
  [op : {"gather"}, call : {"register", "wait"}, task : Task, next : Nat, found : BOOLEAN]
    \union [op : {"start", "resume", "resumed"}, task : Task]
    \union [op : {"consume"}, at : Nat, keys : SUBSET Keys, progress : BOOLEAN]
    \union [op : {"event"}, event : Event]
    \union [op : {"paused"}, id : Nat]
    \union [op : {"batch"}, events : Seq(Event), at : Nat, keys : SUBSET Keys, run : Seq(Task)]
    \union [op : {"retrieve"}, order : Seq(Keys)]

\* The type invariant.
TypeOK ==
  /\ program \in DOMAIN Programs
  /\ registeredTasks \in Seq(Task) /\ pausedTasks \in Seq(Task) /\ ready \in Seq(Task)
  /\ outstandingEvents \in Queue
  /\ outstandingEventsToHandle \in Nat
  /\ taskAndEvent_mutex \in Threads \union {NoThread}
  /\ todo \in [Threads -> Seq(Frame)]
  /\ aborted \in BOOLEAN
  /\ fired \in SUBSET Event /\ delivered \in SUBSET Event /\ removed \in SUBSET Event
  /\ calls \in Nat /\ queries \in Nat

-----------------------------------------------------------------------------
(* Events are neither lost nor duplicated                                  *)

StoredEvents == UNION {ToSet(outstandingEvents[k]) : k \in Keys}
Transient(events) == {e \in events : ~e.persistent}

FrameEvents(f) ==
  CASE f.op \in {"gather", "start", "resume", "resumed"} -> ArrivedEvents(f.task)
    [] f.op = "event" -> {f.event}
    [] f.op = "batch" -> ToSet(f.events) \union UNION {ArrivedEvents(task) : task \in ToSet(f.run)}
    [] OTHER -> {}

\* Everywhere an event may be.
Places(e) ==
  {<<"stored", k>> : k \in {k \in Keys : e \in ToSet(outstandingEvents[k])}}
    \union {<<"registered", i>> :
              i \in {i \in DOMAIN registeredTasks : e \in ArrivedEvents(registeredTasks[i])}}
    \union {<<"paused", i>> :
              i \in {i \in DOMAIN pausedTasks : e \in ArrivedEvents(pausedTasks[i])}}
    \union {<<"ready", i>> : i \in {i \in DOMAIN ready : e \in ArrivedEvents(ready[i])}}
    \union {<<"call", p>> :
              p \in {p \in UNION {{t} \X DOMAIN todo[t] : t \in Threads} :
                       e \in FrameEvents(todo[p[1]][p[2]])}}
    \union {place \in {"delivered", "removed"} :
              e \in IF place = "delivered" THEN delivered ELSE removed}

\* A transient event is in exactly one place from the moment it reaches the
\* scheduler: no interleaving of calls loses it or hands it out twice.
EventConservation ==
  ~aborted => \A e \in Transient(fired) : Cardinality(Places(e)) = 1

\* The counter that termination is decided by counts the transient events in
\* the store, whoever put them there or took them out.
HandleCountExact == outstandingEventsToHandle = Cardinality(Transient(StoredEvents))

\* When the finalisation test succeeds with every thread idle, no transient
\* event is left anywhere but with a persistent task that waits for more.
FinishedMeansHandled ==
  (~aborted /\ Idle /\ isFinished) =>
     Transient(fired) \subseteq
       delivered \union removed
         \union UNION {ArrivedEvents(registeredTasks[i]) : i \in DOMAIN registeredTasks}

\* A persistent event stays available: once no call is under way it is stored.
PersistentEventsStay ==
  (~aborted /\ Quiescent) => \A e \in fired : e.persistent => e \in StoredEvents

-----------------------------------------------------------------------------
(* Matching                                                                *)

WaitingTasks == ToSet(registeredTasks) \union ToSet(pausedTasks)

\* Once no call is under way, no stored event is one that a registered or a
\* paused task still waits for.
NoMissedMatch ==
  (~aborted /\ Quiescent) =>
     \A task \in WaitingTasks : \A k \in Queued(outstandingEvents) :
        ~Depends(task.outstanding, k)

\* The same, at every instant at which the mutex is free, for tasks that run
\* once and for waits.
NoMissedTransientMatch ==
  Free => \A task \in WaitingTasks : \A k \in Queued(outstandingEvents) :
             task.persistent \/ ~Depends(task.outstanding, k)

Outgoing ==  \* the tasks whose payload is about to be built
  ToSet(ready) \union {Top(t).task : t \in {t \in Threads : In(t, "resumed")}}

\* A task that is about to run has one event per dependency, and the i-th
\* event it is given is one that its i-th dependency names.
PayloadMatchesOrder ==
  \A task \in Outgoing :
    (~task.greedy /\ PayloadExists(task)) =>
       /\ task.numArrivedEvents = Len(task.order)
       /\ \A i \in 1..Len(task.order) : Equivalent(PayloadEvent(task, i).key, task.order[i])

\* A task that is about to run has the events its payload is built from:
\* generateEventsPayload does not end in raiseError.
NoAbort == ~aborted

Consumed ==
  delivered \union removed
    \union UNION {ArrivedEvents(task) : task \in WaitingTasks \union ToSet(ready)}

\* Events of one source and one identifier are consumed in the order in which
\* they arrived: none is consumed while an older one is still in the store.
NoOvertaking ==
  \A e \in Transient(Consumed), f \in Transient(StoredEvents) : e.key = f.key => e.id < f.id

-----------------------------------------------------------------------------
(* Progress                                                                *)

\* A persistent task all of whose dependencies persistent events meet.
Perpetual(task) ==
  task.persistent
  /\ \A i \in DOMAIN task.order : \E e \in fired : e.persistent /\ Equivalent(e.key, task.order[i])

\* docs/tasks.md:3: calls return to user code, unless they wait for events to
\* come.  There is one exception: while a perpetual task is registered the pass
\* over the store and the loop of registerEvent start it for ever.
EveryCallReturns ==
  []<>(\/ aborted \/ \A t \in Threads : todo[t] = <<>> \/ In(t, "paused")
       \/ \E task \in ToSet(registeredTasks) : Perpetual(task))

\* A wait whose last event has been matched ends, and does so with its payload.
MatchedWaitResumes ==
  \A t \in Threads \ {Poller} :
    (In(t, "paused") /\ \A i \in DOMAIN pausedTasks : pausedTasks[i].id # Top(t).id)
      ~> (aborted \/ todo[t] = <<>>)
=============================================================================
