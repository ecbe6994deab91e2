----------------------------- MODULE MCScheduler -----------------------------
(***************************************************************************)
(* Small instances of the scheduler: rank 0 of two ranks.                  *)
(***************************************************************************)
EXTENDS SchedulerProperties

key(eid, src) == [eid |-> eid, src |-> src]
once(order) == [order |-> order, persistent |-> FALSE, greedy |-> FALSE, name |-> NoName]
named(order, name) == [once(order) EXCEPT !.name = name]
always(order) == [once(order) EXCEPT !.persistent = TRUE]
greedily(order) == [always(order) EXCEPT !.greedy = TRUE]
event(eid, src) == [key |-> key(eid, src), persistent |-> FALSE]
lasting(eid, src) == [key |-> key(eid, src), persistent |-> TRUE]
any == EDAT_ANY

\* The menu of a program and the threads of its user code; its bounds follow.
offer(tasks, waits, retrievals, kinds, callers) ==
  [tasks |-> tasks, waits |-> waits, retrievals |-> retrievals, kinds |-> kinds,
   callers |-> callers, batching |-> FALSE,
   maxEvents |-> 0, maxCalls |-> 0, maxQueries |-> 0, maxBatch |-> 0]
bounded(p, events, calls_, queries_) ==
  [p EXCEPT !.maxEvents = events, !.maxCalls = calls_, !.maxQueries = queries_]

\* tasks that run once, waits, a wildcard, a dependency that occurs twice
Once == bounded(offer(
  {once(<<key("a", any)>>), named(<<key("a", 0), key("b", 1), key("a", 0)>>, "t")},
  {<<key("b", any), key("a", 1)>>},
  {<<key("a", 0), key("b", any)>>},
  {event("a", 0), event("a", 1), event("b", 1)},
  {"main", "worker"}), 4, 2, 1)

\* a persistent task with a local and a remote dependency, beside a task or a
\* wait that competes with it for one of them
Sums == always(<<key("a", 0), key("b", 1)>>)
beside(tasks, waits) == bounded(offer(
  {Sums} \union tasks, waits, {}, {event("a", 0), event("b", 1)}, {"main", "worker"}), 4, 3, 0)
Rivals == beside({once(<<key("b", any)>>)}, {})
Interrupted == beside({}, {<<key("a", 0)>>})

\* greedy tasks, and one that is not, fed in batches from two ranks
Batch == [bounded(offer(
  {greedily(<<key("a", any)>>), greedily(<<key("a", 1), key("b", 2)>>), once(<<key("a", 2)>>)},
  {}, {},
  {event("a", 1), event("a", 2), event("b", 2)},
  {"main"}), 3, 2, 0) EXCEPT !.batching = TRUE, !.maxBatch = 3]

\* a persistent event among transient ones
Lasting == bounded(offer(
  {once(<<key("a", any), key("a", 1)>>), always(<<key("b", 0), key("a", 1)>>)},
  {<<key("a", 1), key("b", 0)>>},
  {<<key("a", any)>>},
  {lasting("a", 1), event("b", 0)},
  {"main"}), 3, 2, 1)

\* a persistent event that is all a persistent task needs
Endless == bounded(offer({always(<<key("a", 1)>>)}, {}, {}, {lasting("a", 1)}, {"main"}), 1, 1, 0)

TransientPrograms == [Once |-> Once, Batch |-> Batch]
PersistentPrograms ==
  [Rivals |-> Rivals, Interrupted |-> Interrupted, Lasting |-> Lasting, Endless |-> Endless]

\* The task of Endless is started over and over.  The bound is on those that
\* have not begun; every behaviour of BoundedSpec is one of Spec.
FewReady == program = "Endless" => Len(ready) <= 2
BoundedSpec == Init /\ [][Next /\ FewReady']_vars /\ Fairness
=============================================================================
