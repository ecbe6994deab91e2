---------------------------- MODULE SchedulerPayload ----------------------------
(***************************************************************************)
(* What a task is given.  If the dependencies of a task can be told apart, *)
(* its payload has one event for each, in their order, and it can be       *)
(* built: a counter of dependencies, a queue of events and the order agree *)
(* from the first dependency that is gathered to the last event.           *)
(***************************************************************************)
EXTENDS SchedulerProofs

\* Two dependencies that compare equal are on the same key, and no dependency
\* on EDAT_ANY occurs twice.
Distinguished(order) ==
  \A i, j \in DOMAIN order : Equivalent(order[i], order[j]) =>
     order[i] = order[j] /\ (i = j \/ order[i].src # EDAT_ANY)

MenusDistinguished ==
  \A p \in DOMAIN Programs :
    /\ \A s \in Programs[p].tasks : s.greedy \/ Distinguished(s.order)
    /\ \A order \in Programs[p].waits : Distinguished(order)

-----------------------------------------------------------------------------
(* The invariant                                                           *)

\* The dependencies on d among the first n.
Uses(order, n, d) == {j \in 1 .. n : order[j] = d}

\* Events that a dependency on d takes may be in the queue of k.
Admits(d, k) == k = d \/ (d.src = EDAT_ANY /\ k.eid = d.eid)

\* The dependencies on d that are not outstanding have their events, which
\* are in one queue.
Serves(task, d) == \E k \in Keys :
  /\ Admits(d, k)
  /\ \A l \in Queued(task.arrived) : Equivalent(l, d) => l = k
  /\ Len(task.arrived[k]) + task.outstanding[d] = task.original[d]
  /\ \A e \in ToSet(task.arrived[k]) : Equivalent(e.key, d)

\* One for each dependency that is counted in m.
Units(m) == {u \in Keys \X Nat : 1 <= u[2] /\ u[2] <= m[u[1]]}

\* The counters and the queues of a task stand for its first n dependencies.
Balanced(task, n) ==
  /\ Distinguished(task.order) /\ n \in 0 .. Len(task.order)
  /\ \A d \in Keys : /\ task.original[d] = Cardinality(Uses(task.order, n, d))
                     /\ task.outstanding[d] <= task.original[d]
  /\ \A k \in Queued(task.arrived) : \E d \in Counted(task.original) : Admits(d, k)
  /\ \A d \in Counted(task.original) : Serves(task, d)
  /\ IsFiniteSet(Units(task.original)) /\ Cardinality(Units(task.original)) = n
  /\ IsFiniteSet(Units(task.outstanding))
  /\ task.numArrivedEvents + Cardinality(Units(task.outstanding)) = n

\* A task in a list.
Settled(task) == task.greedy \/ Balanced(task, Len(task.order))

\* A task that is about to run.
Given(task) ==
  \/ task.greedy
  \/ /\ PayloadExists(task) /\ task.numArrivedEvents = Len(task.order)
     /\ \A i \in 1 .. Len(task.order) : Equivalent(PayloadEvent(task, i).key, task.order[i])

\* A task in a frame.
FrameRight(f) ==
  /\ f.op = "gather" =>
       f.task.greedy \/ (~f.found /\ f.next >= 1 /\ Balanced(f.task, f.next - 1))
  /\ f.op \in {"start", "resume", "resumed"} => Given(f.task)
  /\ f.op = "batch" => \A i \in DOMAIN f.run : f.run[i].greedy

AllSettled(tasks) == \A i \in DOMAIN tasks : Settled(tasks[i])
AllGiven(tasks) == \A i \in DOMAIN tasks : Given(tasks[i])
AllRight(s) == \A i \in DOMAIN s : FrameRight(s[i])

\* A batch is offered to greedy tasks.
Offers(t) ==
  In(t, "batch") /\ Top(t).at \in DOMAIN registeredTasks /\ Top(t).keys # {} =>
    registeredTasks[Top(t).at].greedy

Payloads ==
  /\ AllSettled(registeredTasks) /\ AllSettled(pausedTasks) /\ AllGiven(ready)
  /\ \A t \in Threads : AllRight(todo[t]) /\ Offers(t)
  /\ ~aborted
-----------------------------------------------------------------------------
(* Counting dependencies                                                   *)

\* Keys that a dependency admits compare equal to it.
LEMMA AdmitsEquivalent ==
  ASSUME NEW d \in Keys, NEW k \in Keys, Admits(d, k)
  PROVE  Equivalent(d, k) /\ Equivalent(k, d) /\ k.eid = d.eid
BY DEF Admits, Equivalent

\* A dependency that is counted is one of the order, and those of the order
\* are not mixed up.
LEMMA Known ==
  ASSUME NEW task \in CleanTask, NEW n, Balanced(task, n)
  PROVE  /\ task.order \in Seq(Keys) /\ n \in 0 .. Len(task.order)
         /\ task.original \in Count /\ task.outstanding \in Count /\ task.arrived \in Queue
         /\ Counted(task.outstanding) \subseteq Counted(task.original)
         /\ \A d \in Counted(task.original) : \E j \in 1 .. n : task.order[j] = d
         /\ \A d \in Counted(task.original), j \in 1 .. Len(task.order) :
              Equivalent(d, task.order[j]) => d = task.order[j]
         /\ \A c, d \in Counted(task.original) : Equivalent(c, d) => c = d
<1>1. /\ task.order \in Seq(Keys) /\ n \in 0 .. Len(task.order)
      /\ task.original \in Count /\ task.outstanding \in Count /\ task.arrived \in Queue
  BY DEF CleanTask, Task, Balanced
<1>2. Counted(task.outstanding) \subseteq Counted(task.original)
  BY <1>1 DEF Balanced, Counted, Count
<1>3. \A d \in Counted(task.original) : \E j \in 1 .. n : task.order[j] = d
  <2> SUFFICES ASSUME NEW d \in Counted(task.original), ~ \E j \in 1 .. n : task.order[j] = d
               PROVE  FALSE
    OBVIOUS
  <2>1. Uses(task.order, n, d) = {}
    BY DEF Uses
  <2>2. Cardinality(Uses(task.order, n, d)) = 0
    BY <2>1, FS_EmptySet
  <2> QED BY <2>2 DEF Balanced, Counted
<1>4. \A d \in Counted(task.original), j \in 1 .. Len(task.order) :
         Equivalent(d, task.order[j]) => d = task.order[j]
  BY <1>1, <1>3 DEF Balanced, Distinguished
<1>5. \A c, d \in Counted(task.original) : Equivalent(c, d) => c = d
  BY <1>1, <1>3, <1>4
<1> QED BY <1>1, <1>2, <1>3, <1>4, <1>5

\* The next dependency is one more of its kind.
LEMMA OneMoreUse ==
  ASSUME NEW order \in Seq(Keys), NEW n \in Nat, n < Len(order), NEW d \in Keys
  PROVE  /\ IsFiniteSet(Uses(order, n, d)) /\ Cardinality(Uses(order, n, d)) \in Nat
         /\ order[n + 1] = d => Cardinality(Uses(order, n + 1, d)) = Cardinality(Uses(order, n, d)) + 1
         /\ order[n + 1] # d => Cardinality(Uses(order, n + 1, d)) = Cardinality(Uses(order, n, d))
<1>1. IsFiniteSet(Uses(order, n, d)) /\ Cardinality(Uses(order, n, d)) \in Nat
  <2>1. IsFiniteSet(1 .. n)
    BY FS_Interval
  <2>2. Uses(order, n, d) \subseteq 1 .. n
    BY DEF Uses
  <2>3. IsFiniteSet(Uses(order, n, d))
    BY <2>1, <2>2, FS_Subset
  <2> QED BY <2>3, FS_CardinalityType
<1>2. CASE order[n + 1] = d
  <2>1. Uses(order, n + 1, d) = Uses(order, n, d) \union {n + 1} /\ n + 1 \notin Uses(order, n, d)
    BY <1>2 DEF Uses
  <2> QED BY <1>1, <1>2, <2>1, FS_AddElement
<1>3. CASE order[n + 1] # d
  <2>1. Uses(order, n + 1, d) = Uses(order, n, d)
    BY <1>3 DEF Uses
  <2> QED BY <1>1, <1>3, <2>1
<1> QED BY <1>2, <1>3

\* One dependency more is one unit more.
LEMMA OneMoreUnit ==
  ASSUME NEW m \in Count, NEW k \in Keys, NEW q, q = [m EXCEPT ![k] = @ + 1]
  PROVE  /\ q \in Count
         /\ IsFiniteSet(Units(m)) <=> IsFiniteSet(Units(q))
         /\ IsFiniteSet(Units(m)) => /\ Cardinality(Units(m)) \in Nat
                                     /\ Cardinality(Units(q)) = Cardinality(Units(m)) + 1
<1> DEFINE u == <<k, m[k] + 1>>
<1>1. q \in Count /\ m[k] \in Nat
  BY DEF Count
<1>2. Units(q) = Units(m) \union {u} /\ u \notin Units(m)
  <2>1. \A v \in Keys \X Nat : v \in Units(q) <=> v \in Units(m) \/ v = u
    <3> SUFFICES ASSUME NEW v \in Keys \X Nat
                 PROVE  v \in Units(q) <=> v \in Units(m) \/ v = u
      OBVIOUS
    <3>1. v = <<v[1], v[2]>> /\ v[1] \in Keys /\ v[2] \in Nat
      OBVIOUS
    <3>2. m[v[1]] \in Nat
      BY <3>1 DEF Count
    <3>3. CASE v[1] = k
      BY <1>1, <3>1, <3>2, <3>3 DEF Units, Count
    <3>4. CASE v[1] # k
      BY <1>1, <3>1, <3>2, <3>4 DEF Units, Count
    <3> QED BY <3>3, <3>4
  <2>2. u \in Keys \X Nat
    BY <1>1
  <2>3. u \notin Units(m)
    BY <1>1 DEF Units
  <2> QED BY <2>1, <2>2, <2>3 DEF Units
<1> HIDE DEF u
<1>3. ASSUME IsFiniteSet(Units(m))
      PROVE  IsFiniteSet(Units(q)) /\ Cardinality(Units(q)) = Cardinality(Units(m)) + 1
  <2>1. /\ IsFiniteSet(Units(m) \union {u})
        /\ Cardinality(Units(m) \union {u}) = Cardinality(Units(m)) + 1
    BY <1>2, <1>3, FS_AddElement
  <2> QED BY <2>1, <1>2
<1>4. IsFiniteSet(Units(q)) => IsFiniteSet(Units(m))
  BY <1>2, FS_Subset
<1>5. IsFiniteSet(Units(m)) => Cardinality(Units(m)) \in Nat
  BY FS_CardinalityType
<1> QED BY <1>1, <1>3, <1>4, <1>5

-----------------------------------------------------------------------------
(* The counters and queues of a task                                       *)

\* The next dependency has an entry of its own or shares one with its like:
\* std::map finds no other.
LEMMA NextSlot ==
  ASSUME NEW task \in CleanTask, NEW n, Balanced(task, n), n < Len(task.order),
         NEW k, k = task.order[n + 1]
  PROVE  /\ k \in Keys /\ n \in Nat
         /\ Slot(Counted(task.original), k) = k
         /\ Slot(Counted(task.outstanding), k) = k
         /\ \A d \in Counted(task.original) : Equivalent(d, k) => d = k
<1>1. task.order \in Seq(Keys) /\ n \in 0 .. Len(task.order)
  BY Known
<1>2. k \in Keys /\ n \in Nat /\ n + 1 \in 1 .. Len(task.order)
  BY <1>1
<1>3. \A d \in Counted(task.original) : Equivalent(d, k) => d = k
  BY <1>2, Known
<1>4. Counted(task.outstanding) \subseteq Counted(task.original)
  BY Known
<1>5. Counted(task.original) \in SUBSET Keys /\ Counted(task.outstanding) \in SUBSET Keys
  BY DEF Counted
<1>6. Slot(Counted(task.original), k) = k
  BY <1>2, <1>3, <1>5, SlotFound
<1>7. Slot(Counted(task.outstanding), k) = k
  BY <1>2, <1>3, <1>4, <1>5, SlotFound
<1> QED BY <1>2, <1>3, <1>6, <1>7

\* The task with one more dependency, which is outstanding.
LEMMA NextBalanced ==
  ASSUME NEW task \in CleanTask, NEW n, Balanced(task, n), n < Len(task.order),
         NEW k, k = task.order[n + 1],
         NEW more, more = [task EXCEPT !.original = Bump(@, k), !.outstanding = Bump(@, k)]
  PROVE  more \in CleanTask /\ Balanced(more, n + 1)
<1>1. /\ task.order \in Seq(Keys) /\ n \in Nat /\ n + 1 \in 1 .. Len(task.order)
      /\ task.original \in Count /\ task.outstanding \in Count /\ task.arrived \in Queue
      /\ k \in Keys
  BY Known, NextSlot
<1>2. /\ Bump(task.original, k) = [task.original EXCEPT ![k] = @ + 1]
      /\ Bump(task.outstanding, k) = [task.outstanding EXCEPT ![k] = @ + 1]
  BY NextSlot DEF Bump
<1> DEFINE a == [task.original EXCEPT ![k] = @ + 1]
           b == [task.outstanding EXCEPT ![k] = @ + 1]
<1>3. more = [task EXCEPT !.original = a, !.outstanding = b]
  BY <1>2
<1>4. a \in Count /\ b \in Count
  BY <1>1, OneMoreUnit
<1>5. /\ \A d \in Keys : a[d] = IF d = k THEN task.original[d] + 1 ELSE task.original[d]
      /\ \A d \in Keys : b[d] = IF d = k THEN task.outstanding[d] + 1 ELSE task.outstanding[d]
      /\ \A d \in Keys : task.original[d] \in Nat /\ task.outstanding[d] \in Nat
  BY <1>1 DEF Count
<1>6. Clean(a) /\ Clean(b)
  BY <1>1, <1>2, BumpCounts DEF CleanTask
<1> HIDE DEF a, b
<1>7. /\ more \in Task /\ more.order = task.order /\ more.original = a /\ more.outstanding = b
      /\ more.arrived = task.arrived /\ more.numArrivedEvents = task.numArrivedEvents
  BY <1>3, <1>4 DEF CleanTask, Task
<1>8. Counted(a) = Counted(task.original) \union {k}
  BY <1>1, <1>5 DEF Counted
<1>9. \A d \in Keys : a[d] = Cardinality(Uses(task.order, n + 1, d)) /\ b[d] <= a[d]
  <2> TAKE d \in Keys
  <2>1. task.original[d] = Cardinality(Uses(task.order, n, d)) /\ task.outstanding[d] <= task.original[d]
    BY DEF Balanced
  <2>2. Cardinality(Uses(task.order, n + 1, d)) =
          IF d = k THEN Cardinality(Uses(task.order, n, d)) + 1 ELSE Cardinality(Uses(task.order, n, d))
    BY <1>1, OneMoreUse
  <2> QED BY <2>1, <2>2, <1>5
<1>10. \A l \in Queued(task.arrived) : \E d \in Counted(task.original) : Admits(d, l)
  BY DEF Balanced
<1>11. \A d \in Counted(a) : Serves(more, d)
  <2> TAKE d \in Counted(a)
  <2>1. d \in Keys
    BY DEF Counted
  <2>2. CASE d \in Counted(task.original)
    <3>1. PICK l \in Keys :
             /\ Admits(d, l)
             /\ \A j \in Queued(task.arrived) : Equivalent(j, d) => j = l
             /\ Len(task.arrived[l]) + task.outstanding[d] = task.original[d]
             /\ \A e \in ToSet(task.arrived[l]) : Equivalent(e.key, d)
      BY <2>2 DEF Balanced, Serves
    <3>2. Len(task.arrived[l]) \in Nat
      BY <1>1 DEF Queue
    <3>3. /\ task.original[d] \in Nat /\ task.outstanding[d] \in Nat
          /\ \/ a[d] = task.original[d] /\ b[d] = task.outstanding[d]
             \/ a[d] = task.original[d] + 1 /\ b[d] = task.outstanding[d] + 1
      BY <2>1, <1>5
    <3>4. Len(task.arrived[l]) + task.outstanding[d] = task.original[d]
      BY <3>1
    <3>5. Len(task.arrived[l]) + b[d] = a[d]
      <4>1. PICK x \in Nat, y \in Nat, z \in Nat :
               x = Len(task.arrived[l]) /\ y = task.outstanding[d] /\ z = task.original[d]
        BY <3>2, <3>3
      <4>2. CASE a[d] = task.original[d] /\ b[d] = task.outstanding[d]
        BY <3>4, <4>2
      <4>3. CASE a[d] = task.original[d] + 1 /\ b[d] = task.outstanding[d] + 1
        <5>1. x + y = z
          BY <3>4, <4>1
        <5>2. a[d] = z + 1 /\ b[d] = y + 1
          BY <4>1, <4>3
        <5>3. x + (y + 1) = z + 1
          BY <5>1
        <5> QED BY <5>2, <5>3, <4>1
      <4> QED BY <3>3, <4>2, <4>3
    <3> QED BY <3>1, <3>5, <1>7 DEF Serves
  <2>3. CASE d \notin Counted(task.original)
    <3>1. d = k
      BY <2>3, <1>8
    <3>2. \A l \in Queued(task.arrived) : ~Equivalent(l, k)
      <4> SUFFICES ASSUME NEW l \in Queued(task.arrived), Equivalent(l, k)
                   PROVE  FALSE
        OBVIOUS
      <4>1. PICK c \in Counted(task.original) : Admits(c, l)
        BY <1>10
      <4>2. Equivalent(c, k)
        BY <4>1 DEF Admits, Equivalent
      <4> QED BY <4>2, <3>1, <2>3, NextSlot
    <3>3. task.arrived[k] = <<>>
      BY <3>2, <1>1 DEF Queued, Equivalent
    <3>4. a[k] = 1 /\ b[k] = 1
      <4>1. task.original[k] = 0
        BY <3>1, <2>3, <1>1 DEF Counted
      <4>2. task.outstanding[k] = 0
        BY <4>1, <1>1, <1>5 DEF Balanced
      <4> QED BY <4>1, <4>2, <1>1, <1>5
    <3>5. ToSet(task.arrived[k]) = {} /\ Len(task.arrived[k]) + b[k] = a[k]
      BY <3>3, <3>4 DEF ToSet
    <3>6. Admits(k, k)
      BY DEF Admits
    <3> QED BY <3>1, <3>2, <3>5, <3>6, <1>1, <1>7 DEF Serves
  <2> QED BY <2>2, <2>3
<1>12. /\ IsFiniteSet(Units(a)) /\ Cardinality(Units(a)) = n + 1
       /\ IsFiniteSet(Units(b)) /\ task.numArrivedEvents + Cardinality(Units(b)) = n + 1
  <2>1. /\ IsFiniteSet(Units(task.original)) /\ Cardinality(Units(task.original)) = n
        /\ IsFiniteSet(Units(task.outstanding))
        /\ task.numArrivedEvents + Cardinality(Units(task.outstanding)) = n
    BY DEF Balanced
  <2>2. IsFiniteSet(Units(a)) /\ Cardinality(Units(a)) = n + 1
    BY <2>1, <1>1, OneMoreUnit DEF a
  <2>3. /\ IsFiniteSet(Units(b)) /\ Cardinality(Units(task.outstanding)) \in Nat
        /\ Cardinality(Units(b)) = Cardinality(Units(task.outstanding)) + 1
    BY <2>1, <1>1, OneMoreUnit DEF b
  <2>4. task.numArrivedEvents \in Nat
    BY DEF CleanTask, Task
  <2>5. task.numArrivedEvents + Cardinality(Units(b)) = n + 1
    BY ONLY <2>1, <2>3, <2>4, n \in Nat, <1>1
  <2> QED BY <2>2, <2>3, <2>5
<1>13. Distinguished(task.order)
  BY DEF Balanced
<1>14. n + 1 \in 0 .. Len(task.order)
  BY <1>1
<1>15. \A l \in Queued(task.arrived) : \E d \in Counted(a) : Admits(d, l)
  BY <1>8, <1>10
<1>16. more \in CleanTask
  BY <1>6, <1>7 DEF CleanTask
<1>17. Balanced(more, n + 1)
  BY <1>7, <1>9, <1>11, <1>12, <1>13, <1>14, <1>15 DEF Balanced
<1> QED BY <1>16, <1>17

\* Where an event goes that a dependency still waits for: to the queue that
\* serves the dependency, and no other.
LEMMA ArrivalQueue ==
  ASSUME NEW task \in CleanTask, NEW n, Balanced(task, n), NEW d \in Counted(task.outstanding),
         NEW k \in Keys, Admits(d, k), NEW s, s = Slot(Queued(task.arrived), k)
  PROVE  /\ s \in Keys /\ Admits(d, s)
         /\ \A l \in Queued(task.arrived) : Equivalent(l, d) => l = s
         /\ Len(task.arrived[s]) + task.outstanding[d] = task.original[d]
         /\ \A e \in ToSet(task.arrived[s]) : Equivalent(e.key, d)
<1>1. /\ task.order \in Seq(Keys) /\ n \in 0 .. Len(task.order)
      /\ task.original \in Count /\ task.outstanding \in Count /\ task.arrived \in Queue
      /\ d \in Counted(task.original) /\ d \in Keys
  BY Known DEF Counted
<1>2. PICK q \in Keys :
         /\ Admits(d, q)
         /\ \A j \in Queued(task.arrived) : Equivalent(j, d) => j = q
         /\ Len(task.arrived[q]) + task.outstanding[d] = task.original[d]
         /\ \A e \in ToSet(task.arrived[q]) : Equivalent(e.key, d)
  BY <1>1 DEF Balanced, Serves
<1>3. /\ s \in Keys
      /\ \/ s \in Queued(task.arrived) /\ Equivalent(s, k)
         \/ s = k /\ \A l \in Queued(task.arrived) : ~Equivalent(l, k)
  <2>1. Queued(task.arrived) \in SUBSET Keys
    BY DEF Queued
  <2> QED BY <2>1, SlotFound
<1>4. CASE d.src # EDAT_ANY
  <2>1. k = d /\ q = d
    BY <1>2, <1>4 DEF Admits
  <2>2. CASE s \in Queued(task.arrived) /\ Equivalent(s, k)
    BY <2>1, <2>2, <1>2
  <2>3. CASE s = k /\ \A l \in Queued(task.arrived) : ~Equivalent(l, k)
    BY <2>1, <2>3, <1>2
  <2> QED BY <2>2, <2>3, <1>3
<1>5. CASE d.src = EDAT_ANY
  <2>1. task.original[d] = 1 /\ task.outstanding[d] = 1
    <3>1. Cardinality(Uses(task.order, n, d)) = 1
      <4>1. PICK j \in 1 .. n : task.order[j] = d
        BY <1>1, Known
      <4>2. \A i \in 1 .. n : task.order[i] = d => i = j
        BY <4>1, <1>1, <1>5 DEF Balanced, Distinguished, Equivalent
      <4>3. Uses(task.order, n, d) = {j}
        BY <4>1, <4>2 DEF Uses
      <4> QED BY <4>3, FS_Singleton
    <3>2. task.original[d] = 1
      BY <3>1, <1>1 DEF Balanced
    <3>3. task.outstanding[d] \in Nat /\ task.outstanding[d] # 0 /\ task.outstanding[d] <= task.original[d]
      BY <1>1 DEF Balanced, Counted, Count
    <3> QED BY <3>2, <3>3
  <2>2. Len(task.arrived[q]) = 0 /\ task.arrived[q] = <<>>
    <3>1. task.arrived[q] \in Seq(Event)
      BY <1>1 DEF Queue
    <3>2. Len(task.arrived[q]) = 0
      BY <3>1, <2>1, <1>2
    <3> QED BY <3>1, <3>2, EmptySeq
  <2>3. \A l \in Queued(task.arrived) : ~Equivalent(l, d)
    BY <2>2, <1>2 DEF Queued
  <2>4. \A l \in Queued(task.arrived) : ~Equivalent(l, k)
    BY <2>3, <1>5 DEF Admits, Equivalent, Queued
  <2>5. s = k
    BY <2>4, <1>3
  <2>6. task.arrived[k] = <<>>
    BY <2>4 DEF Queued, Equivalent
  <2>7. Len(task.arrived[k]) = 0 /\ ToSet(task.arrived[k]) = {}
    BY <2>6 DEF ToSet
  <2> QED BY <2>1, <2>3, <2>5, <2>7, <1>3
<1> QED BY <1>4, <1>5

\* An event arrives for a dependency that waits for one.
LEMMA ArrivalBalanced ==
  ASSUME NEW task \in CleanTask, NEW n, Balanced(task, n), NEW d \in Counted(task.outstanding),
         NEW k \in Keys, Admits(d, k), NEW e \in Event, Equivalent(e.key, d),
         NEW met, met = [task EXCEPT !.outstanding[d] = @ - 1]
  PROVE  /\ Balanced(Arrive(met, k, e), n)
         /\ Arrive(met, k, e).order = task.order /\ Arrive(met, k, e).greedy = task.greedy
<1> DEFINE s == Slot(Queued(task.arrived), k)
           b == [task.outstanding EXCEPT ![d] = @ - 1]
           q == [task.arrived EXCEPT ![s] = Append(@, e)]
           more == Arrive(met, k, e)
<1>1. /\ task.order \in Seq(Keys) /\ n \in 0 .. Len(task.order)
      /\ task.original \in Count /\ task.outstanding \in Count /\ task.arrived \in Queue
      /\ d \in Counted(task.original) /\ d \in Keys /\ task \in Task
  BY Known DEF Counted, CleanTask
<1>2. /\ s \in Keys /\ Admits(d, s)
      /\ \A l \in Queued(task.arrived) : Equivalent(l, d) => l = s
      /\ Len(task.arrived[s]) + task.outstanding[d] = task.original[d]
      /\ \A f \in ToSet(task.arrived[s]) : Equivalent(f.key, d)
  BY ArrivalQueue
<1>3. task.outstanding[d] \in Nat /\ task.outstanding[d] # 0 /\ task.outstanding[d] - 1 \in Nat
  BY <1>1 DEF Counted, Count
<1>4. b \in Count
  BY <1>1, <1>3 DEF Count
<1>5. task.outstanding = [b EXCEPT ![d] = @ + 1]
  BY <1>1, <1>3 DEF Count
<1>6. /\ b[d] = task.outstanding[d] - 1
      /\ \A c \in Keys : c # d => b[c] = task.outstanding[c]
      /\ \A c \in Keys : b[c] <= task.outstanding[c]
  BY <1>1, <1>3 DEF Count
<1>7. /\ met = [task EXCEPT !.outstanding = b]
      /\ Push(task.arrived, k, e) = q
  BY <1>1 DEF Push, Task
<1> HIDE DEF s
<1>8. /\ q \in Queue
      /\ q[s] = Append(task.arrived[s], e) /\ q[s] # <<>>
      /\ Len(q[s]) = Len(task.arrived[s]) + 1 /\ Len(task.arrived[s]) \in Nat
      /\ ToSet(q[s]) = ToSet(task.arrived[s]) \union {e}
      /\ \A l \in Keys : l # s => q[l] = task.arrived[l]
  <2>1. task.arrived[s] \in Seq(Event)
    BY <1>1, <1>2 DEF Queue
  <2>2. Append(task.arrived[s], e) \in Seq(Event) /\ Append(task.arrived[s], e) # <<>>
        /\ Len(Append(task.arrived[s], e)) = Len(task.arrived[s]) + 1
    BY <2>1, AppendProperties
  <2>3. ToSet(Append(task.arrived[s], e)) = ToSet(task.arrived[s]) \union {e}
    BY <2>1, SetOfSequence
  <2> QED BY <2>1, <2>2, <2>3, <1>1, <1>2, LenProperties DEF Queue
<1> HIDE DEF b, q
<1>9. /\ more.order = task.order /\ more.greedy = task.greedy /\ more.original = task.original
      /\ more.outstanding = b /\ more.arrived = q
      /\ more.numArrivedEvents = task.numArrivedEvents + 1
  BY <1>1, <1>7 DEF Arrive, Task
<1> HIDE DEF more
<1>10. Queued(q) = Queued(task.arrived) \union {s}
  BY <1>2, <1>8 DEF Queued
<1>11. \A l \in Queued(q) : \E c \in Counted(task.original) : Admits(c, l)
  BY <1>1, <1>2, <1>10 DEF Balanced
<1>12. \A c \in Counted(task.original) : Serves(more, c)
  <2> TAKE c \in Counted(task.original)
  <2>1. c \in Keys
    BY DEF Counted
  <2>2. CASE c = d
    <3>1. \A l \in Queued(q) : Equivalent(l, d) => l = s
      BY <1>2, <1>10
    <3>2. Len(q[s]) + b[d] = task.original[d]
      <4>1. PICK x \in Nat, y \in Nat, z \in Nat :
               x = Len(task.arrived[s]) /\ y = b[d] /\ z = task.original[d]
        BY <1>1, <1>4, <1>8 DEF Count
      <4>2. task.outstanding[d] = y + 1
        BY <4>1, <1>3, <1>6
      <4>3. x + (y + 1) = z
        BY <4>1, <4>2, <1>2
      <4>4. (x + 1) + y = z
        BY <4>3
      <4> QED BY <4>1, <4>4, <1>8
    <3>3. \A f \in ToSet(q[s]) : Equivalent(f.key, d)
      BY <1>2, <1>8
    <3> QED BY <2>2, <3>1, <3>2, <3>3, <1>2, <1>9 DEF Serves
  <2>3. CASE c # d
    <3>1. PICK l \in Keys :
             /\ Admits(c, l)
             /\ \A j \in Queued(task.arrived) : Equivalent(j, c) => j = l
             /\ Len(task.arrived[l]) + task.outstanding[c] = task.original[c]
             /\ \A f \in ToSet(task.arrived[l]) : Equivalent(f.key, c)
      BY DEF Balanced, Serves
    <3>2. ~Equivalent(s, c)
      <4>1. Equivalent(s, c) => Equivalent(d, c)
        BY <1>2 DEF Admits, Equivalent
      <4> QED BY <4>1, <2>3, <1>1, Known
    <3>3. l # s
      BY <3>1, <3>2 DEF Admits, Equivalent
    <3>4. q[l] = task.arrived[l] /\ b[c] = task.outstanding[c]
      BY <3>3, <1>6, <1>8, <2>1, <2>3
    <3>5. \A j \in Queued(q) : Equivalent(j, c) => j = l
      BY <3>1, <3>2, <1>10
    <3> QED BY <3>1, <3>4, <3>5, <1>9 DEF Serves
  <2> QED BY <2>2, <2>3
<1>13. IsFiniteSet(Units(b)) /\ (task.numArrivedEvents + 1) + Cardinality(Units(b)) = n
  <2>1. /\ IsFiniteSet(Units(task.outstanding))
        /\ task.numArrivedEvents + Cardinality(Units(task.outstanding)) = n
    BY DEF Balanced
  <2>2. /\ IsFiniteSet(Units(b)) /\ Cardinality(Units(b)) \in Nat
        /\ Cardinality(Units(task.outstanding)) = Cardinality(Units(b)) + 1
    BY <2>1, <1>1, <1>4, <1>5, OneMoreUnit
  <2>3. task.numArrivedEvents \in Nat
    BY <1>1 DEF Task
  <2>4. (task.numArrivedEvents + 1) + Cardinality(Units(b)) = n
    <3>1. PICK x \in Nat, y \in Nat : x = task.numArrivedEvents /\ y = Cardinality(Units(b))
      BY <2>2, <2>3
    <3>2. x + (y + 1) = n
      BY <3>1, <2>1, <2>2
    <3>3. (x + 1) + y = x + (y + 1)
      BY <3>1
    <3> QED BY <3>1, <3>2, <3>3
  <2> QED BY <2>2, <2>4
<1>14. \A c \in Keys : task.original[c] = Cardinality(Uses(task.order, n, c)) /\ b[c] <= task.original[c]
  <2> TAKE c \in Keys
  <2>1. task.original[c] = Cardinality(Uses(task.order, n, c)) /\ task.outstanding[c] <= task.original[c]
    BY DEF Balanced
  <2>2. b[c] \in Nat /\ task.outstanding[c] \in Nat /\ task.original[c] \in Nat
    BY <1>1, <1>4 DEF Count
  <2> QED BY <2>1, <2>2, <1>6
<1>15. /\ Distinguished(task.order) /\ IsFiniteSet(Units(task.original))
       /\ Cardinality(Units(task.original)) = n
  BY DEF Balanced
<1>16. Balanced(more, n)
  BY <1>1, <1>9, <1>11, <1>12, <1>13, <1>14, <1>15 DEF Balanced
<1> QED BY <1>9, <1>16 DEF more

\* registerEvent or checkProgressPersistentTasks gives a task an event that one
\* of its dependencies waits for.
LEMMA SatisfyBalanced ==
  ASSUME NEW task \in CleanTask, NEW n, Balanced(task, n), NEW e \in Event, Depends(task.outstanding, e.key)
  PROVE  Balanced(Satisfy(task, e.key, e), n) /\ Satisfy(task, e.key, e).order = task.order
<1> DEFINE d == Slot(Counted(task.outstanding), e.key)
<1>1. e.key \in EventKeys /\ e.key \in Keys /\ e.key.src # EDAT_ANY
  <2>1. e.key \in EventKeys
    BY DEF Event
  <2> QED BY <2>1, KeysInt DEF EDAT_ANY
<1>2. d \in Counted(task.outstanding) /\ Equivalent(d, e.key)
  <2>1. Counted(task.outstanding) \in SUBSET Keys
    BY DEF Counted
  <2> QED BY <2>1, <1>1, SlotFound DEF Depends
<1>3. Satisfy(task, e.key, e) = Arrive([task EXCEPT !.outstanding[d] = @ - 1], e.key, e)
  BY DEF Satisfy
<1> HIDE DEF d
<1>4. d \in Keys
  BY <1>2 DEF Counted
<1>5. Admits(d, e.key) /\ Equivalent(e.key, d)
  BY <1>1, <1>2, <1>4, KeysInt DEF Admits, Equivalent
<1> QED BY <1>1, <1>2, <1>3, <1>5, ArrivalBalanced

\* A persistent task that is armed again waits for all of its dependencies.
LEMMA RearmBalanced ==
  ASSUME NEW task \in CleanTask, NEW n, Balanced(task, n)
  PROVE  Balanced(Rearm(task), n) /\ Rearm(task).order = task.order
<1>1. /\ Rearm(task).order = task.order /\ Rearm(task).original = task.original
      /\ Rearm(task).outstanding = task.original /\ Rearm(task).arrived = NoQueue
      /\ Rearm(task).numArrivedEvents = 0
  BY DEF Rearm, CleanTask, Task
<1>2. task.original \in Count /\ n \in Nat
  BY Known
<1>3. Queued(NoQueue) = {}
  BY DEF Queued, NoQueue
<1>4. \A d \in Counted(task.original) : Serves(Rearm(task), d)
  <2> TAKE d \in Counted(task.original)
  <2>1. d \in Keys /\ task.original[d] \in Nat
    BY <1>2 DEF Counted, Count
  <2>2. NoQueue[d] = <<>> /\ ToSet(NoQueue[d]) = {} /\ Len(NoQueue[d]) = 0
    BY <2>1 DEF NoQueue, ToSet
  <2>3. Len(NoQueue[d]) + task.original[d] = task.original[d]
    BY <2>1, <2>2
  <2> QED BY <2>1, <2>2, <2>3, <1>1, <1>3 DEF Serves, Admits
<1>5. \A d \in Keys : task.original[d] <= task.original[d]
  BY <1>2 DEF Count
<1>6. 0 + Cardinality(Units(task.original)) = n
  BY <1>2 DEF Balanced
<1> QED BY <1>1, <1>3, <1>4, <1>5, <1>6 DEF Balanced

\* Nothing is counted for a new task.
LEMMA NewTaskBalanced ==
  ASSUME NEW s \in Submission, Distinguished(s.order)
  PROVE  Balanced(NewTask(s), 0)
<1>1. /\ NewTask(s).order = s.order /\ NewTask(s).original = NoCount
      /\ NewTask(s).outstanding = NoCount /\ NewTask(s).arrived = NoQueue
      /\ NewTask(s).numArrivedEvents = 0
  BY DEF NewTask
<1>2. Queued(NoQueue) = {} /\ Counted(NoCount) = {} /\ Units(NoCount) = {}
  BY DEF Queued, NoQueue, Counted, NoCount, Units
<1>3. \A d \in Keys : NoCount[d] = Cardinality(Uses(s.order, 0, d)) /\ NoCount[d] <= NoCount[d]
  <2> TAKE d \in Keys
  <2>1. Uses(s.order, 0, d) = {}
    BY DEF Uses
  <2> QED BY <2>1, FS_EmptySet DEF NoCount
<1>4. IsFiniteSet(Units(NoCount)) /\ Cardinality(Units(NoCount)) = 0
  BY <1>2, FS_EmptySet
<1>5. 0 \in 0 .. Len(s.order)
  BY LenProperties DEF Submission
<1>6. 0 + Cardinality(Units(NoCount)) = 0
  BY <1>4
<1> QED BY <1>1, <1>2, <1>3, <1>4, <1>5, <1>6 DEF Balanced

\* Once all dependencies are met, generateEventsPayload finds an event for each
\* of them, in the queue of its own.
LEMMA CompleteGiven ==
  ASSUME NEW task \in CleanTask, Balanced(task, Len(task.order)), Complete(task)
  PROVE  Given(task)
<1> DEFINE n == Len(task.order)
<1>1. /\ task.order \in Seq(Keys) /\ n \in Nat
      /\ task.original \in Count /\ task.outstanding \in Count /\ task.arrived \in Queue
      /\ task.numArrivedEvents \in Nat
  BY Known DEF CleanTask, Task
<1>2. \A d \in Keys : task.outstanding[d] = 0
  BY DEF Complete, Counted
<1>3. task.numArrivedEvents = n
  <2>1. Units(task.outstanding) = {}
    BY <1>2 DEF Units
  <2>2. Cardinality(Units(task.outstanding)) = 0
    BY <2>1, FS_EmptySet
  <2> QED BY <2>2, <1>1 DEF Balanced
<1>4. ASSUME NEW i \in 1 .. n
      PROVE  /\ Turn(task, i) <= Len(task.arrived[QueueOf(task, i)])
             /\ Equivalent(PayloadEvent(task, i).key, task.order[i])
  <2> DEFINE d == task.order[i]
             q == QueueOf(task, i)
             uses == Uses(task.order, n, d)
             before == {j \in 1 .. i : QueueOf(task, j) = q}
  <2>1. \A j \in 1 .. n :
          /\ task.order[j] \in Keys /\ task.order[j] \in Counted(task.original)
          /\ Admits(task.order[j], QueueOf(task, j)) /\ QueueOf(task, j) \in Keys
          /\ Len(task.arrived[QueueOf(task, j)]) = Cardinality(Uses(task.order, n, task.order[j]))
          /\ \A e \in ToSet(task.arrived[QueueOf(task, j)]) : Equivalent(e.key, task.order[j])
    <3> TAKE j \in 1 .. n
    <3> DEFINE c == task.order[j]
    <3>1. c \in Keys
      BY <1>1
    <3>2. /\ IsFiniteSet(Uses(task.order, n, c)) /\ j \in Uses(task.order, n, c)
      <4>1. Uses(task.order, n, c) \subseteq 1 .. n
        BY DEF Uses
      <4>2. IsFiniteSet(1 .. n)
        BY <1>1, FS_Interval
      <4> QED BY <4>1, <4>2, FS_Subset DEF Uses
    <3>3. Cardinality(Uses(task.order, n, c)) \in Nat /\ Cardinality(Uses(task.order, n, c)) # 0
      BY <3>2, FS_CardinalityType, FS_EmptySet
    <3>4. task.original[c] = Cardinality(Uses(task.order, n, c)) /\ c \in Counted(task.original)
      BY <3>1, <3>3 DEF Balanced, Counted
    <3> HIDE DEF c
    <3>5. PICK l \in Keys :
             /\ Admits(c, l)
             /\ \A m \in Queued(task.arrived) : Equivalent(m, c) => m = l
             /\ Len(task.arrived[l]) + task.outstanding[c] = task.original[c]
             /\ \A e \in ToSet(task.arrived[l]) : Equivalent(e.key, c)
      BY <3>4 DEF Balanced, Serves
    <3>6. Len(task.arrived[l]) = Cardinality(Uses(task.order, n, c))
      <4>1. task.arrived[l] \in Seq(Event)
        BY <1>1 DEF Queue
      <4>2. Len(task.arrived[l]) \in Nat
        BY <4>1, LenProperties
      <4>3. Len(task.arrived[l]) + 0 = task.original[c]
        BY <3>1, <3>5, <1>2
      <4> QED BY <4>2, <4>3, <3>4
    <3>7. l \in Queued(task.arrived)
      BY <3>3, <3>6, EmptySeq DEF Queued
    <3>8. QueueOf(task, j) = Slot(Queued(task.arrived), c)
      BY DEF QueueOf, c
    <3>9. Equivalent(l, c)
      BY <3>5, <3>1, AdmitsEquivalent
    <3>10. QueueOf(task, j) = l
      <4>1. Queued(task.arrived) \in SUBSET Keys
        BY DEF Queued
      <4> QED BY <4>1, <3>1, <3>5, <3>7, <3>8, <3>9, SlotFound
    <3> QED BY <3>1, <3>4, <3>5, <3>6, <3>10 DEF c
  <2>2. d \in Keys /\ q \in Keys /\ Admits(d, q) /\ Len(task.arrived[q]) = Cardinality(uses)
        /\ \A e \in ToSet(task.arrived[q]) : Equivalent(e.key, d)
    BY <2>1
  <2>3. before \subseteq uses
    <3> SUFFICES ASSUME NEW j \in 1 .. i, QueueOf(task, j) = q
                 PROVE  j \in 1 .. n /\ task.order[j] = d
      BY DEF Uses
    <3>1. j \in 1 .. n
      BY <1>1
    <3>2. Admits(task.order[j], q) /\ task.order[j] \in Counted(task.original)
      BY <3>1, <2>1
    <3>3. Equivalent(task.order[j], d)
      BY <3>2, <2>2 DEF Admits, Equivalent
    <3> QED BY <3>1, <3>2, <3>3, Known
  <2>4. IsFiniteSet(uses)
    <3>1. uses \subseteq 1 .. n
      BY DEF Uses
    <3>2. IsFiniteSet(1 .. n)
      BY <1>1, FS_Interval
    <3> QED BY <3>1, <3>2, FS_Subset
  <2>5. IsFiniteSet(before) /\ Cardinality(before) <= Cardinality(uses) /\ Cardinality(before) \in Nat
    BY <2>3, <2>4, FS_Subset, FS_CardinalityType
  <2>6. i \in before
    BY <1>1
  <2>7. Cardinality(before) # 0
    BY <2>5, <2>6, FS_EmptySet
  <2>8. Turn(task, i) = Cardinality(before)
    BY DEF Turn
  <2> HIDE DEF before, uses, q
  <2>9. Turn(task, i) <= Len(task.arrived[q]) /\ Turn(task, i) \in 1 .. Len(task.arrived[q])
    <3>1. task.arrived[q] \in Seq(Event)
      BY <2>2, <1>1 DEF Queue
    <3>2. Len(task.arrived[q]) \in Nat
      BY <3>1, LenProperties
    <3> QED BY <2>2, <2>5, <2>7, <2>8, <3>2
  <2>10. task.arrived[q][Turn(task, i)] \in ToSet(task.arrived[q])
    <3>1. task.arrived[q] \in Seq(Event)
      BY <2>2, <1>1 DEF Queue
    <3> QED BY <3>1, <2>9, SetOfSequence
  <2> QED BY <2>2, <2>9, <2>10 DEF PayloadEvent, q
<1> QED BY <1>3, <1>4 DEF Given, PayloadExists

-----------------------------------------------------------------------------
(* Lists and frames                                                        *)

\* What the code does to a list: a task is added, replaced or removed.
LEMMA SettledLists ==
  ASSUME NEW tasks \in Seq(CleanTask), AllSettled(tasks)
  PROVE  /\ \A b \in CleanTask : Settled(b) => AllSettled(Append(tasks, b))
         /\ \A i \in 1 .. Len(tasks) : AllSettled(RemoveAt(tasks, i))
         /\ \A i \in 1 .. Len(tasks) : \A b : Settled(b) => AllSettled([tasks EXCEPT ![i] = b])
         /\ \A i \in 1 .. Len(tasks) : Settled(tasks[i])
<1>1. ASSUME NEW b \in CleanTask, Settled(b) PROVE AllSettled(Append(tasks, b))
  <2> SUFFICES ASSUME NEW j \in DOMAIN Append(tasks, b) PROVE Settled(Append(tasks, b)[j])
    BY DEF AllSettled
  <2>1. /\ j \in 1 .. Len(tasks) + 1
        /\ j \in 1 .. Len(tasks) => Append(tasks, b)[j] = tasks[j]
        /\ j = Len(tasks) + 1 => Append(tasks, b)[j] = b
    BY AppendProperties
  <2>2. CASE j \in 1 .. Len(tasks)
    BY <2>1, <2>2 DEF AllSettled
  <2>3. CASE j = Len(tasks) + 1
    BY <2>1, <2>3, <1>1
  <2> QED BY <2>1, <2>2, <2>3
<1>2. ASSUME NEW i \in 1 .. Len(tasks) PROVE AllSettled(RemoveAt(tasks, i))
  <2> DEFINE r == RemoveAt(tasks, i)
  <2>1. /\ r \in Seq(CleanTask) /\ Len(r) = Len(tasks) - 1
        /\ \A j \in 1 .. Len(tasks) - 1 : r[j] = IF j < i THEN tasks[j] ELSE tasks[j + 1]
    BY Removal
  <2> HIDE DEF r
  <2> SUFFICES ASSUME NEW j \in DOMAIN r PROVE Settled(r[j])
    BY DEF AllSettled, r
  <2>2. j \in 1 .. Len(tasks) - 1 /\ j \in 1 .. Len(tasks) /\ j + 1 \in 1 .. Len(tasks)
    BY <2>1
  <2>3. r[j] = tasks[j] \/ r[j] = tasks[j + 1]
    BY <2>1, <2>2
  <2> QED BY <2>2, <2>3 DEF AllSettled
<1>3. ASSUME NEW i \in 1 .. Len(tasks), NEW b, Settled(b)
      PROVE  AllSettled([tasks EXCEPT ![i] = b])
  BY <1>3 DEF AllSettled
<1>4. \A i \in 1 .. Len(tasks) : Settled(tasks[i])
  BY DEF AllSettled
<1> QED BY <1>1, <1>2, <1>3, <1>4

\* The same for the tasks that are about to run.
LEMMA GivenLists ==
  ASSUME NEW tasks \in Seq(Task), AllGiven(tasks)
  PROVE  /\ \A b \in Task : Given(b) => AllGiven(Append(tasks, b))
         /\ \A i \in 1 .. Len(tasks) : AllGiven(RemoveAt(tasks, i))
<1>1. ASSUME NEW b \in Task, Given(b) PROVE AllGiven(Append(tasks, b))
  <2> SUFFICES ASSUME NEW j \in DOMAIN Append(tasks, b) PROVE Given(Append(tasks, b)[j])
    BY DEF AllGiven
  <2>1. /\ j \in 1 .. Len(tasks) + 1
        /\ j \in 1 .. Len(tasks) => Append(tasks, b)[j] = tasks[j]
        /\ j = Len(tasks) + 1 => Append(tasks, b)[j] = b
    BY AppendProperties
  <2>2. CASE j \in 1 .. Len(tasks)
    BY <2>1, <2>2 DEF AllGiven
  <2>3. CASE j = Len(tasks) + 1
    BY <2>1, <2>3, <1>1
  <2> QED BY <2>1, <2>2, <2>3
<1>2. ASSUME NEW i \in 1 .. Len(tasks) PROVE AllGiven(RemoveAt(tasks, i))
  <2> DEFINE r == RemoveAt(tasks, i)
  <2>1. /\ r \in Seq(Task) /\ Len(r) = Len(tasks) - 1
        /\ \A j \in 1 .. Len(tasks) - 1 : r[j] = IF j < i THEN tasks[j] ELSE tasks[j + 1]
    BY Removal
  <2> HIDE DEF r
  <2> SUFFICES ASSUME NEW j \in DOMAIN r PROVE Given(r[j])
    BY DEF AllGiven, r
  <2>2. j \in 1 .. Len(tasks) - 1 /\ j \in 1 .. Len(tasks) /\ j + 1 \in 1 .. Len(tasks)
    BY <2>1
  <2>3. r[j] = tasks[j] \/ r[j] = tasks[j + 1]
    BY <2>1, <2>2
  <2> QED BY <2>2, <2>3 DEF AllGiven
<1> QED BY <1>1, <1>2

\* Frames, one after the other.
LEMMA FramesJoined ==
  ASSUME NEW S, NEW a \in Seq(S), NEW b \in Seq(S), AllRight(a), AllRight(b)
  PROVE  a \o b \in Seq(S) /\ AllRight(a \o b)
<1> DEFINE c == a \o b
<1>1. /\ c \in Seq(S) /\ Len(c) = Len(a) + Len(b) /\ Len(a) \in Nat /\ Len(b) \in Nat
      /\ \A i \in 1 .. Len(a) + Len(b) : c[i] = IF i <= Len(a) THEN a[i] ELSE b[i - Len(a)]
  <2> HIDE DEF c
  <2> QED BY ConcatProperties, LenProperties DEF c
<1> HIDE DEF c
<1> SUFFICES ASSUME NEW i \in 1 .. Len(a) + Len(b) PROVE FrameRight(c[i])
  BY <1>1 DEF AllRight, c
<1>2. CASE i <= Len(a)
  BY <1>1, <1>2 DEF AllRight
<1>3. CASE ~(i <= Len(a))
  <2>1. i - Len(a) \in 1 .. Len(b) /\ c[i] = b[i - Len(a)]
    BY <1>1, <1>3
  <2> QED BY <2>1 DEF AllRight
<1> QED BY <1>2, <1>3

\* One frame, and frames of calls that carry no task.
LEMMA OneFrame ==
  /\ AllRight(<<>>)
  /\ \A f : FrameRight(f) => AllRight(<<f>>)
  /\ \A f : f.op \in {"consume", "event", "paused", "retrieve"} => FrameRight(f)
<1>1. AllRight(<<>>)
  BY DEF AllRight
<1>2. ASSUME NEW f, FrameRight(f) PROVE AllRight(<<f>>)
  <2>1. DOMAIN <<f>> = {1} /\ <<f>>[1] = f
    OBVIOUS
  <2> QED BY <1>2, <2>1 DEF AllRight
<1>3. \A f : f.op \in {"consume", "event", "paused", "retrieve"} => FrameRight(f)
  BY DEF FrameRight
<1> QED BY <1>1, <1>2, <1>3

\* A thread whose first frame is replaced.
LEMMA RightReplaced ==
  ASSUME Stacks, NEW t \in Threads, todo[t] # <<>>, AllRight(todo[t]),
         NEW T, NEW fs \in Seq(T), AllRight(fs), Replace(t, fs)
  PROVE  /\ \A u \in Threads \ {t} : todo'[u] = todo[u]
         /\ AllRight(todo'[t])
         /\ fs # <<>> => todo'[t] # <<>> /\ Top(t)' = Head(fs)
         /\ fs = <<>> \/ Head(fs).op # "batch" => Offers(t)'
<1> DEFINE r == Tail(todo[t])
           U == T \union Frame
<1>1. /\ \A u \in Threads \ {t} : todo'[u] = todo[u]
      /\ fs # <<>> => todo'[t] # <<>> /\ Top(t)' = Head(fs)
      /\ fs = <<>> /\ todo'[t] # <<>> => Top(t)' \in Resting
  BY NewTop
<1>2. todo[t] \in Seq(Frame) /\ todo' = [todo EXCEPT ![t] = fs \o r] /\ todo \in [Threads -> Seq(Frame)]
  BY DEF Stacks, StackOK, Replace
<1>3. /\ r \in Seq(Frame) /\ Len(r) = Len(todo[t]) - 1
      /\ \A i \in 1 .. Len(r) : r[i] = todo[t][i + 1]
  BY <1>2, HeadTailProperties
<1>4. AllRight(r)
  <2>1. \A i \in 1 .. Len(r) : i + 1 \in 1 .. Len(todo[t])
    BY <1>2, <1>3, LenProperties
  <2>2. \A i \in 1 .. Len(todo[t]) : FrameRight(todo[t][i])
    BY <1>2 DEF AllRight
  <2> HIDE DEF r
  <2>3. \A i \in 1 .. Len(r) : FrameRight(r[i])
    BY <1>3, <2>1, <2>2
  <2> QED BY <1>3, <2>3 DEF AllRight
<1> HIDE DEF r
<1>5. fs \in Seq(U) /\ r \in Seq(U)
  BY <1>3
<1> HIDE DEF U
<1>6. AllRight(fs \o r)
  BY <1>4, <1>5, FramesJoined
<1>7. todo'[t] = fs \o r
  BY <1>2
<1>8. fs = <<>> \/ Head(fs).op # "batch" => Offers(t)'
  <2>1. CASE fs = <<>>
    BY <1>1, <2>1, FrameKinds DEF Offers, In, Lonely
  <2>2. CASE fs # <<>> /\ Head(fs).op # "batch"
    BY <1>1, <2>2 DEF Offers, In
  <2> QED BY <2>1, <2>2
<1> QED BY <1>1, <1>6, <1>7, <1>8

\* A single frame in place of the first one.
LEMMA RightChanged ==
  ASSUME Stacks, NEW t \in Threads, todo[t] # <<>>, AllRight(todo[t]),
         NEW f, FrameRight(f), Replace(t, <<f>>)
  PROVE  /\ \A u \in Threads \ {t} : todo'[u] = todo[u]
         /\ AllRight(todo'[t])
         /\ todo'[t] # <<>> /\ Top(t)' = f
         /\ f.op # "batch" => Offers(t)'
<1> DEFINE fs == <<f>>
<1>1. fs \in Seq({f}) /\ fs # <<>> /\ Head(fs) = f /\ Replace(t, fs)
  OBVIOUS
<1>2. AllRight(fs)
  BY OneFrame
<1> HIDE DEF fs
<1> QED BY <1>1, <1>2, RightReplaced

\* A call begins.
LEMMA RightEntered ==
  ASSUME Stacks, NEW t \in Threads, NEW f, FrameRight(f), todo' = [todo EXCEPT ![t] = <<f>>]
  PROVE  /\ \A u \in Threads \ {t} : todo'[u] = todo[u]
         /\ AllRight(todo'[t])
         /\ todo'[t] # <<>> /\ Top(t)' = f
         /\ f.op # "batch" => Offers(t)'
<1>1. todo'[t] = <<f>> /\ \A u \in Threads \ {t} : todo'[u] = todo[u]
  BY DEF Stacks
<1>2. AllRight(<<f>>)
  BY OneFrame
<1>3. <<f>> # <<>> /\ Head(<<f>>) = f
  OBVIOUS
<1>4. Top(t)' = f
  BY <1>1, <1>3 DEF Top
<1> QED BY <1>1, <1>2, <1>3, <1>4 DEF Offers, In

\* What a step of one thread has to leave behind.
LEMMA PayloadStep ==
  ASSUME Sound, Payloads, NEW t \in Threads, \A u \in Threads \ {t} : todo'[u] = todo[u],
         AllRight(todo'[t]), Offers(t)',
         Free \/ Holds(t) \/ UNCHANGED registeredTasks,
         AllSettled(registeredTasks'), AllSettled(pausedTasks'), AllGiven(ready'), ~aborted'
  PROVE  Payloads'
<1> SUFFICES ASSUME NEW u \in Threads, u # t PROVE AllRight(todo'[u]) /\ Offers(u)'
  BY DEF Payloads
<1>1. todo'[u] = todo[u] /\ Top(u)' = Top(u) /\ (In(u, "batch")' <=> In(u, "batch"))
  BY DEF Top, In
<1>2. AllRight(todo'[u])
  BY <1>1 DEF Payloads
<1>3. Offers(u)'
  <2>1. CASE UNCHANGED registeredTasks
    BY <1>1, <2>1 DEF Payloads, Offers
  <2>2. CASE Free \/ Holds(t)
    <3>1. ~Holds(u)
      BY <2>2, ThreadsAssumption DEF Free, Holds
    <3>2. ~In(u, "batch")
      BY <3>1 DEF Sound, AllCritical, Critical, In
    <3> QED BY <1>1, <3>2 DEF Offers
  <2> QED BY <2>1, <2>2
<1> QED BY <1>2, <1>3

\* A step that leaves the lists alone.
LEMMA PayloadQuiet ==
  ASSUME Sound, Payloads, NEW t \in Threads, \A u \in Threads \ {t} : todo'[u] = todo[u],
         AllRight(todo'[t]), Offers(t)', UNCHANGED <<registeredTasks, pausedTasks, ready, aborted>>
  PROVE  Payloads'
<1>1. /\ AllSettled(registeredTasks') /\ AllSettled(pausedTasks') /\ AllGiven(ready') /\ ~aborted'
  BY DEF Payloads
<1> QED BY <1>1, PayloadStep

-----------------------------------------------------------------------------
(* registerTask and pauseTask                                              *)

\* A new task has counted nothing.
LEMMA GatherPayload ==
  ASSUME Sound, Payloads, NEW t \in Threads, NEW call \in {"register", "wait"}, NEW s \in Submission,
         s.greedy \/ Distinguished(s.order), Gather(t, call, s)
  PROVE  Payloads'
<1> DEFINE f == [op |-> "gather", call |-> call, task |-> NewTask(s), next |-> 1, found |-> FALSE]
<1>1. todo' = [todo EXCEPT ![t] = <<f>>] /\ UNCHANGED <<registeredTasks, pausedTasks, ready, aborted>>
  BY DEF Gather
<1>2. NewTask(s).greedy \/ Balanced(NewTask(s), 0)
  <2>1. NewTask(s).greedy = s.greedy
    BY DEF NewTask
  <2> QED BY <2>1, NewTaskBalanced
<1>3. f.op = "gather" /\ FrameRight(f)
  BY <1>2 DEF FrameRight
<1> HIDE DEF f
<1> QED BY <1>1, <1>3, RightEntered, PayloadQuiet DEF Sound

\* registerTask takes the mutex: payloads stay right.
LEMMA RegisterTaskPayload ==
  ASSUME MenusDistinguished, Sound, Payloads, NEW t \in Threads, RegisterTask(t)
  PROVE  Payloads'
<1>1. Menu \in Program
  BY MenuTypes DEF Sound, Plain
<1>2. PICK s \in Menu.tasks : Gather(t, "register", s)
  BY DEF RegisterTask
<1>3. s \in Submission
  BY <1>1 DEF Program
<1>4. s.greedy \/ Distinguished(s.order)
  BY DEF Sound, Plain, Menu, MenusDistinguished
<1> QED BY <1>2, <1>3, <1>4, GatherPayload

\* pauseTask takes the mutex: payloads stay right.
LEMMA PauseTaskPayload ==
  ASSUME MenusDistinguished, Sound, Payloads, NEW t \in Threads, PauseTask(t)
  PROVE  Payloads'
<1>1. Menu \in Program
  BY MenuTypes DEF Sound, Plain
<1> DEFINE s(order) == [order |-> order, persistent |-> FALSE, greedy |-> FALSE, name |-> NoName]
<1>2. PICK order \in Menu.waits : Gather(t, "wait", s(order))
  BY DEF PauseTask
<1>3. order \in Seq(Keys) /\ Distinguished(order)
  BY <1>1 DEF Program, Sound, Plain, Menu, MenusDistinguished
<1>4. s(order) \in Submission /\ (s(order).greedy \/ Distinguished(s(order).order))
  BY <1>3 DEF Submission
<1> HIDE DEF s
<1> QED BY <1>2, <1>4, GatherPayload

\* The first dependency that a call still has to look at, of a task that is not
\* greedy.
LEMMA GatheringBalanced ==
  ASSUME Sound, Payloads, NEW t \in Threads, Gathering(t), ~Top(t).task.greedy
  PROVE  /\ ~Top(t).found /\ Top(t).next \in 1 .. Len(Top(t).task.order)
         /\ Balanced(Top(t).task, Top(t).next - 1)
         /\ Noted(Top(t)) = [Top(t).task EXCEPT !.original = Bump(@, Top(t).task.order[Top(t).next])]
<1>1. todo[t] # <<>> /\ Top(t).op = "gather" /\ Top(t).next \in 1 .. Len(Top(t).task.order)
  BY GatheringTypes DEF Gathering, Sound
<1>2. FrameRight(Top(t))
  <2>1. todo[t] \in Seq(Frame) /\ AllRight(todo[t])
    BY DEF Payloads, Sound, Stacks, StackOK
  <2>2. 1 \in 1 .. Len(todo[t]) /\ Top(t) = todo[t][1]
    BY <1>1, <2>1, HeadTailProperties, EmptySeq DEF Top
  <2> QED BY <2>1, <2>2 DEF AllRight
<1> QED BY <1>1, <1>2 DEF FrameRight, Noted

\* An event that is stored is counted and taken for one dependency.
LEMMA GatherStoredPayload ==
  ASSUME Sound, Payloads, NEW t \in Threads, GatherStored(t)
  PROVE  Payloads'
<1> DEFINE f == Top(t)
           k == f.task.order[f.next]
           e == First(k)
           a == Arrive(Noted(f), k, e)
           n == IF f.task.greedy THEN f.next ELSE f.next + 1
           b == f.task.greedy
           g == [f EXCEPT !.task = a, !.next = n, !.found = b]
<1>1. Gathering(t) /\ IsStored(k) /\ TakeFirst(k) /\ Replace(t, <<g>>)
      /\ UNCHANGED <<registeredTasks, pausedTasks, ready, aborted>>
  BY DEF GatherStored
<1>2. /\ todo[t] # <<>> /\ f.op = "gather" /\ f.task \in CleanTask /\ k \in Keys
      /\ f \in [op : {"gather"}, call : {"register", "wait"}, task : Task,
                next : Nat, found : BOOLEAN]
      /\ Noted(f) \in CleanTask
      /\ Noted(f) = [f.task EXCEPT !.original = Noted(f).original]
  BY <1>1, GatheringTypes DEF Sound
<1>3. e \in Event /\ Equivalent(e.key, k)
  <2> HIDE DEF k
  <2> QED BY <1>1, <1>2, StoreTake DEF Sound, Plain
<1>4. a.greedy = f.task.greedy
  <2>1. a.greedy = Noted(f).greedy
    BY DEF Arrive
  <2>2. Noted(f).greedy = f.task.greedy
    <3> HIDE DEF f
    <3> QED BY <1>2 DEF CleanTask, Task
  <2> QED BY <2>1, <2>2
<1>5. ~f.task.greedy => Balanced(a, f.next)
  <2> SUFFICES ASSUME ~f.task.greedy PROVE Balanced(a, f.next)
    OBVIOUS
  <2> DEFINE task == f.task
             m == f.next - 1
             more == [task EXCEPT !.original = Bump(@, k), !.outstanding = Bump(@, k)]
             met == [more EXCEPT !.outstanding[k] = @ - 1]
  <2>1. f.next \in 1 .. Len(task.order) /\ Balanced(task, m)
        /\ Noted(f) = [task EXCEPT !.original = Bump(@, k)]
    BY <1>1, GatheringBalanced
  <2>2. task.order \in Seq(Keys) /\ Len(task.order) \in Nat /\ task \in CleanTask
    BY <1>2 DEF CleanTask, Task
  <2>3. m \in Nat /\ m < Len(task.order) /\ m + 1 = f.next /\ k = task.order[m + 1]
    BY <2>1, <2>2
  <2> HIDE DEF f, k, e, a, m, task
  <2>4. more \in CleanTask /\ Balanced(more, m + 1)
    BY <2>1, <2>2, <2>3, NextBalanced
  <2>5. /\ task.outstanding \in Count /\ k \in Keys
        /\ Bump(task.outstanding, k) = [task.outstanding EXCEPT ![k] = @ + 1]
    BY <2>1, <2>2, <2>3, NextSlot, SMTT(60) DEF Bump, CleanTask, Task
  <2>6. more.outstanding = [task.outstanding EXCEPT ![k] = @ + 1]
    BY <2>2, <2>5 DEF CleanTask, Task
  <2>7. k \in Counted(more.outstanding)
    BY <2>5, <2>6 DEF Counted, Count
  <2>8. [more.outstanding EXCEPT ![k] = @ - 1] = task.outstanding
    <3> DEFINE q == [task.outstanding EXCEPT ![k] = @ + 1]
    <3>1. [q EXCEPT ![k] = @ - 1] = task.outstanding
      BY <2>5 DEF Count
    <3> QED BY <2>6, <3>1
  <2>9. met = [task EXCEPT !.original = Bump(@, k)]
    <3>1. more \in Task /\ task \in Task
      BY <2>2, <2>4 DEF CleanTask
    <3>2. met = [more EXCEPT !.outstanding = task.outstanding]
      BY <2>8
    <3> QED BY <3>1, <3>2 DEF Task
  <2>10. Admits(k, k)
    BY DEF Admits
  <2> HIDE DEF more, met
  <2>11. Balanced(Arrive(met, k, e), m + 1)
    BY <1>3, <2>4, <2>5, <2>7, <2>10, ArrivalBalanced DEF met
  <2> QED BY <2>1, <2>3, <2>9, <2>11 DEF a
<1>6. g.op = "gather" /\ FrameRight(g)
  <2>1. g.op = "gather" /\ g.task = a /\ g.next = n /\ g.found = b
    <3> HIDE DEF f, a, n, b
    <3> QED BY <1>2
  <2>2. CASE f.task.greedy
    BY <1>4, <2>1, <2>2 DEF FrameRight
  <2>3. CASE ~f.task.greedy
    <3>1. g.next - 1 = f.next /\ g.next >= 1
      <4>1. n = f.next + 1 /\ f.next \in Nat
        BY <1>2, <2>3
      <4> HIDE DEF n, f
      <4> QED BY <4>1, <2>1
    <3> QED BY <1>5, <2>1, <2>3, <3>1 DEF FrameRight
  <2> QED BY <2>2, <2>3
<1>7. AllRight(todo[t]) /\ Stacks
  BY DEF Payloads, Sound
<1> HIDE DEF g
<1> QED BY <1>1, <1>2, <1>6, <1>7, RightChanged, PayloadQuiet

\* A dependency that is not met is counted as outstanding.
LEMMA GatherMissingPayload ==
  ASSUME Sound, Payloads, NEW t \in Threads, GatherMissing(t)
  PROVE  Payloads'
<1> DEFINE f == Top(t)
           k == f.task.order[f.next]
           a == IF f.found THEN f.task ELSE [Noted(f) EXCEPT !.outstanding = Bump(@, k)]
           n == f.next + 1
           g == [f EXCEPT !.task = a, !.next = n, !.found = FALSE]
<1>1. Gathering(t) /\ Replace(t, <<g>>) /\ UNCHANGED <<registeredTasks, pausedTasks, ready, aborted>>
  BY DEF GatherMissing
<1>2. /\ todo[t] # <<>> /\ f.op = "gather" /\ f.task \in CleanTask
      /\ f \in [op : {"gather"}, call : {"register", "wait"}, task : Task,
                next : Nat, found : BOOLEAN]
      /\ Noted(f) \in CleanTask
      /\ Noted(f) = [f.task EXCEPT !.original = Noted(f).original]
  BY <1>1, GatheringTypes DEF Sound
<1>3. a.greedy = f.task.greedy
  <2>1. [Noted(f) EXCEPT !.outstanding = Bump(@, k)].greedy = Noted(f).greedy
    <3> DEFINE b == Noted(f)
    <3>1. b \in Task
      BY <1>2 DEF CleanTask
    <3> HIDE DEF f, k, b
    <3> QED BY <3>1 DEF Task, b
  <2>2. Noted(f).greedy = f.task.greedy
    <3> HIDE DEF f
    <3> QED BY <1>2 DEF CleanTask, Task
  <2> QED BY <2>1, <2>2
<1>4. ~f.task.greedy => Balanced(a, f.next)
  <2> SUFFICES ASSUME ~f.task.greedy PROVE Balanced(a, f.next)
    OBVIOUS
  <2> DEFINE task == f.task
             m == f.next - 1
             more == [task EXCEPT !.original = Bump(@, k), !.outstanding = Bump(@, k)]
  <2>1. f.next \in 1 .. Len(task.order) /\ Balanced(task, m) /\ ~f.found
        /\ Noted(f) = [task EXCEPT !.original = Bump(@, k)]
    BY <1>1, GatheringBalanced
  <2>2. task.order \in Seq(Keys) /\ Len(task.order) \in Nat /\ task \in CleanTask /\ task \in Task
    BY <1>2 DEF CleanTask, Task
  <2>3. m \in Nat /\ m < Len(task.order) /\ m + 1 = f.next /\ k = task.order[m + 1]
    BY <2>1, <2>2
  <2>4. a = [[task EXCEPT !.original = Bump(@, k)] EXCEPT !.outstanding = Bump(@, k)]
    BY <2>1
  <2> HIDE DEF f, k, a, m, task
  <2>5. a = more
    BY <2>2, <2>4 DEF Task
  <2> HIDE DEF more
  <2>6. Balanced(more, m + 1)
    BY <2>1, <2>2, <2>3, NextBalanced DEF more
  <2> QED BY <2>3, <2>5, <2>6
<1>5. g.op = "gather" /\ FrameRight(g)
  <2>1. g.op = "gather" /\ g.task = a /\ g.next = n /\ g.found = FALSE
    <3> HIDE DEF f, a, n
    <3> QED BY <1>2
  <2>2. CASE f.task.greedy
    BY <1>3, <2>1, <2>2 DEF FrameRight
  <2>3. CASE ~f.task.greedy
    <3>1. g.next - 1 = f.next /\ g.next >= 1
      <4>1. n = f.next + 1 /\ f.next \in Nat
        BY <1>2
      <4> HIDE DEF n, f
      <4> QED BY <4>1, <2>1
    <3> QED BY <1>4, <2>1, <2>3, <3>1 DEF FrameRight
  <2> QED BY <2>2, <2>3
<1>6. AllRight(todo[t]) /\ Stacks
  BY DEF Payloads, Sound
<1> HIDE DEF g
<1> QED BY <1>1, <1>2, <1>5, <1>6, RightChanged, PayloadQuiet

\* A task, or a wait, whose dependencies were all looked at.
LEMMA GatheredSettled ==
  ASSUME Sound, Payloads, NEW t \in Threads, NEW call, Gathered(t, call)
  PROVE  /\ todo[t] # <<>> /\ Holds(t) /\ Top(t).task \in CleanTask
         /\ Settled(Top(t).task)
         /\ Complete(Top(t).task) => Given(Top(t).task) /\ Settled(Rearm(Top(t).task))
<1> DEFINE f == Top(t)  task == f.task
<1>1. todo[t] # <<>> /\ f.op = "gather" /\ Holds(t) /\ f.next > Len(task.order)
  BY DEF Gathered, At, In
<1>2. task \in CleanTask /\ f.next \in Nat
  BY <1>1, TopTypes, FrameKinds DEF Sound
<1>3. FrameRight(f)
  <2>1. todo[t] \in Seq(Frame) /\ AllRight(todo[t])
    BY DEF Payloads, Sound, Stacks, StackOK
  <2>2. 1 \in 1 .. Len(todo[t]) /\ f = todo[t][1]
    BY <1>1, <2>1, HeadTailProperties, EmptySeq DEF Top
  <2> QED BY <2>1, <2>2 DEF AllRight
<1>4. CASE task.greedy
  <2>1. Rearm(task).greedy
    BY <1>2, <1>4, RearmKeeps
  <2> QED BY <1>1, <1>2, <1>4, <2>1 DEF Settled, Given
<1>5. CASE ~task.greedy
  <2>1. Balanced(task, f.next - 1)
    BY <1>1, <1>3, <1>5 DEF FrameRight
  <2>2. f.next - 1 = Len(task.order)
    <3>1. f.next - 1 \in 0 .. Len(task.order) /\ task.order \in Seq(Keys)
      BY <1>2, <2>1, Known
    <3> QED BY <1>1, <1>2, <3>1, LenProperties
  <2>3. Balanced(task, Len(task.order))
    BY <2>1, <2>2
  <2> HIDE DEF task, f
  <2>4. Complete(task) => Given(task)
    BY <1>2, <2>3, CompleteGiven
  <2>5. Balanced(Rearm(task), Len(task.order)) /\ Rearm(task).order = task.order
    BY <1>2, <2>3, RearmBalanced
  <2> QED BY <1>1, <1>2, <2>3, <2>4, <2>5 DEF Settled, task, f
<1> QED BY <1>4, <1>5

\* registerTask runs, registers or re-arms the task and gives up the mutex:
\* payloads stay right.
LEMMA FinishRegisterTaskPayload ==
  ASSUME Sound, Payloads, NEW t \in Threads, FinishRegisterTask(t)
  PROVE  Payloads'
<1> DEFINE task == Top(t).task
           fs == IF Complete(task) THEN <<StartFrame(task), ConsumeFrame>> ELSE <<>>
<1>1. /\ todo[t] # <<>> /\ Holds(t) /\ task \in CleanTask /\ Settled(task)
      /\ Complete(task) => Given(task) /\ Settled(Rearm(task))
  BY GatheredSettled DEF FinishRegisterTask
<1>2. /\ \/ registeredTasks' = registeredTasks
         \/ Complete(task) /\ registeredTasks' = Append(registeredTasks, Rearm(task))
         \/ registeredTasks' = Append(registeredTasks, task)
      /\ Replace(t, fs) /\ UNCHANGED <<pausedTasks, ready, aborted>>
  BY DEF FinishRegisterTask, Return
<1> HIDE DEF task
<1>3. fs \in Seq(Resting \union {StartFrame(task)}) /\ AllRight(fs) /\ (fs = <<>> \/ Head(fs).op # "batch")
  <2>1. CASE Complete(task)
    <3> DEFINE a == StartFrame(task)
    <3>1. a.op = "start" /\ FrameRight(a)
      BY <1>1, <2>1 DEF StartFrame, FrameRight
    <3> HIDE DEF a
    <3>2. ConsumeFrame \in Resting /\ FrameRight(ConsumeFrame)
      BY OneFrame DEF Resting, ConsumeFrame
    <3>3. fs = <<a, ConsumeFrame>>
      BY <2>1 DEF a
    <3>4. DOMAIN <<a, ConsumeFrame>> = {1, 2} /\ <<a, ConsumeFrame>>[1] = a
          /\ <<a, ConsumeFrame>>[2] = ConsumeFrame /\ Head(<<a, ConsumeFrame>>) = a
      OBVIOUS
    <3>5. AllRight(<<a, ConsumeFrame>>)
      BY <3>1, <3>2, <3>4 DEF AllRight
    <3>6. <<a, ConsumeFrame>> \in Seq(Resting \union {a})
      BY <3>2
    <3> QED BY <3>1, <3>3, <3>4, <3>5, <3>6 DEF a
  <2>2. CASE ~Complete(task)
    <3>1. fs = <<>>
      BY <2>2
    <3>2. <<>> \in Seq(Resting \union {StartFrame(task)})
      BY EmptySeq
    <3> QED BY <3>1, <3>2, OneFrame
  <2> QED BY <2>1, <2>2
<1> HIDE DEF fs
<1>4. /\ \A u \in Threads \ {t} : todo'[u] = todo[u]
      /\ AllRight(todo'[t]) /\ Offers(t)'
  BY <1>1, <1>2, <1>3, RightReplaced DEF Sound, Payloads
<1>5. AllSettled(registeredTasks')
  <2>1. registeredTasks \in Seq(CleanTask) /\ AllSettled(registeredTasks)
    BY DEF Sound, TaskLists, Payloads
  <2>2. Rearm(task) \in CleanTask
    BY <1>1, RearmKeeps
  <2> QED BY <1>1, <1>2, <2>1, <2>2, SettledLists
<1>6. AllSettled(pausedTasks') /\ AllGiven(ready') /\ ~aborted'
  BY <1>2 DEF Payloads
<1> QED BY <1>1, <1>4, <1>5, <1>6, PayloadStep

\* pauseTask hands over the events of the wait or goes to sleep: payloads stay
\* right.
LEMMA FinishPauseTaskPayload ==
  ASSUME Sound, Payloads, NEW t \in Threads, FinishPauseTask(t)
  PROVE  Payloads'
<1> DEFINE task == Top(t).task
           f == [op |-> "paused", id |-> task.id]
<1>1. /\ todo[t] # <<>> /\ Holds(t) /\ task \in CleanTask /\ Settled(task)
      /\ Complete(task) => Given(task)
  BY GatheredSettled DEF FinishPauseTask
<1>2. /\ \/ Complete(task) /\ Deliver(task) /\ Return(t) /\ UNCHANGED pausedTasks
         \/ /\ pausedTasks' = Append(pausedTasks, task)
            /\ Replace(t, <<f>>) /\ UNCHANGED aborted
      /\ UNCHANGED <<registeredTasks, ready>>
  BY DEF FinishPauseTask
<1>3. f.op = "paused" /\ FrameRight(f)
  BY OneFrame
<1> HIDE DEF task, f
<1>4. /\ \A u \in Threads \ {t} : todo'[u] = todo[u]
      /\ AllRight(todo'[t]) /\ Offers(t)'
  <2>1. CASE Replace(t, <<f>>)
    BY <1>1, <1>3, <2>1, RightChanged DEF Sound, Payloads
  <2>2. CASE Return(t)
    <3>1. Replace(t, <<>>) /\ <<>> \in Seq(Frame) /\ AllRight(<<>>)
      BY <2>2, OneFrame, EmptySeq DEF Return
    <3> QED BY <1>1, <3>1, RightReplaced DEF Sound, Payloads
  <2> QED BY <1>2, <2>1, <2>2
<1>5. AllSettled(pausedTasks') /\ ~aborted'
  <2>1. pausedTasks \in Seq(CleanTask) /\ AllSettled(pausedTasks) /\ ~aborted
    BY DEF Sound, TaskLists, Payloads
  <2>2. CASE Complete(task) /\ Deliver(task) /\ UNCHANGED pausedTasks
    BY <1>1, <2>1, <2>2 DEF Deliver, Given, PayloadExists
  <2>3. CASE pausedTasks' = Append(pausedTasks, task) /\ UNCHANGED aborted
    BY <1>1, <2>1, <2>3, SettledLists
  <2> QED BY <1>2, <2>2, <2>3
<1>6. AllSettled(registeredTasks') /\ AllGiven(ready')
  BY <1>2 DEF Payloads
<1> QED BY <1>1, <1>4, <1>5, <1>6, PayloadStep

-----------------------------------------------------------------------------
(* registerEvent                                                           *)

\* registerEvent takes the mutex with a new event: payloads stay right.
LEMMA RegisterEventPayload ==
  ASSUME Sound, Payloads, NEW t \in Threads, RegisterEvent(t)
  PROVE  Payloads'
<1>1. PICK kind \in Menu.kinds : todo' = [todo EXCEPT ![t] = <<EventFrame(NewEvent(kind, 1))>>]
  BY DEF RegisterEvent
<1> DEFINE f == EventFrame(NewEvent(kind, 1))
<1>2. f.op = "event" /\ FrameRight(f)
  BY OneFrame DEF EventFrame
<1> HIDE DEF f
<1>3. UNCHANGED <<registeredTasks, pausedTasks, ready, aborted>>
  BY DEF RegisterEvent
<1>4. todo' = [todo EXCEPT ![t] = <<f>>]
  BY <1>1 DEF f
<1> QED BY <1>2, <1>3, <1>4, RightEntered, PayloadQuiet DEF Sound

\* What is left of a call that registers an event.
LEMMA AgainRight ==
  ASSUME Sound, NEW t \in Threads, Registering(t)
  PROVE  Again(t) \in Seq(Frame) /\ AllRight(Again(t)) /\ (Again(t) = <<>> \/ Head(Again(t)).op # "batch")
<1>1. /\ Again(t) = <<>> \/ Again(t) = <<Top(t)>>
      /\ Again(t) # <<>> => Head(Again(t)).op = "event"
      /\ Top(t).op = "event"
  BY AgainFrames, RegisteringTypes
<1>2. AllRight(Again(t))
  BY <1>1, OneFrame
<1>3. Again(t) = <<>> \/ Head(Again(t)).op # "batch"
  BY <1>1
<1>4. Again(t) \in Seq(Frame)
  BY AgainFrames
<1> QED BY <1>2, <1>3, <1>4

\* The task that an event is matched with is given the event.
LEMMA MatchedSettled ==
  ASSUME NEW tasks \in Seq(CleanTask), AllSettled(tasks), NEW e \in Event,
         Matching(tasks, e.key) # {}, NEW i, i = LeastIndex(Matching(tasks, e.key)),
         NEW task, task = Satisfy(tasks[i], e.key, e)
  PROVE  /\ i \in 1 .. Len(tasks) /\ task \in CleanTask
         /\ Settled(task)
         /\ Complete(task) => Given(task) /\ Settled(Rearm(task))
<1> DEFINE a == tasks[i]
<1>1. /\ i \in 1 .. Len(tasks) /\ a \in CleanTask
      /\ Depends(a.outstanding, e.key) /\ task \in CleanTask
  BY MatchingTask
<1>2. task = Satisfy(a, e.key, e) /\ e.key \in Keys /\ Settled(a)
  BY <1>1, KeysInt DEF Event, AllSettled
<1> HIDE DEF a
<1>3. task.greedy = a.greedy
  BY <1>1, <1>2, SatisfyKeeps
<1>4. CASE a.greedy
  <2>1. task.greedy /\ Rearm(task).greedy
    BY <1>1, <1>3, <1>4, RearmKeeps
  <2> QED BY <1>1, <2>1 DEF Settled, Given
<1>5. CASE ~a.greedy
  <2>1. Balanced(a, Len(a.order))
    BY <1>2, <1>5 DEF Settled
  <2>2. Balanced(task, Len(task.order))
    BY <1>1, <1>2, <2>1, SatisfyBalanced
  <2>3. Complete(task) => Given(task)
    BY <1>1, <2>2, CompleteGiven
  <2>4. Balanced(Rearm(task), Len(task.order)) /\ Rearm(task).order = task.order
    BY <1>1, <2>2, RearmBalanced
  <2> QED BY <1>1, <2>2, <2>3, <2>4 DEF Settled
<1> QED BY <1>4, <1>5

\* What the innermost frame of a thread holds.
LEMMA TopRight ==
  ASSUME Sound, Payloads, NEW t \in Threads, todo[t] # <<>>
  PROVE  FrameRight(Top(t)) /\ AllRight(todo[t]) /\ Stacks
<1>1. todo[t] \in Seq(Frame) /\ AllRight(todo[t]) /\ Stacks
  BY DEF Payloads, Sound, Stacks, StackOK
<1>2. 1 \in 1 .. Len(todo[t]) /\ Top(t) = todo[t][1]
  BY <1>1, HeadTailProperties, EmptySeq DEF Top
<1> QED BY <1>1, <1>2 DEF AllRight

\* The frames that a task is started with, before what is left of the call.
LEMMA StartRight ==
  ASSUME NEW task \in Task, Given(task), NEW rest \in Seq(Frame), AllRight(rest)
  PROVE  LET fs == <<StartFrame(task), ConsumeFrame>> \o rest
         IN  fs \in Seq(Frame) /\ AllRight(fs) /\ fs # <<>> /\ Head(fs).op # "batch"
<1> DEFINE a == StartFrame(task)  s == <<a, ConsumeFrame>>
<1>1. a.op = "start" /\ FrameRight(a) /\ a \in Frame
  BY DEF StartFrame, FrameRight, Frame
<1>2. ConsumeFrame \in Frame /\ FrameRight(ConsumeFrame)
  BY OneFrame DEF Frame, ConsumeFrame
<1> HIDE DEF a
<1>3. s \in Seq(Frame) /\ Len(s) = 2 /\ s[1] = a /\ s[2] = ConsumeFrame /\ Head(s) = a
  BY <1>1, <1>2
<1>4. AllRight(s)
  BY <1>1, <1>2, <1>3 DEF AllRight
<1> HIDE DEF s
<1>5. s \o rest \in Seq(Frame) /\ AllRight(s \o rest)
  BY <1>3, <1>4, FramesJoined
<1>6. s \o rest # <<>> /\ Head(s \o rest) = a
  <2>1. Len(s \o rest) = 2 + Len(rest) /\ Len(rest) \in Nat /\ (s \o rest)[1] = s[1]
    <3>1. Len(rest) \in Nat /\ 1 \in 1 .. 2 + Len(rest)
      BY LenProperties
    <3>2. /\ Len(s \o rest) = Len(s) + Len(rest)
          /\ \A i \in 1 .. Len(s) + Len(rest) :
                (s \o rest)[i] = IF i <= Len(s) THEN s[i] ELSE rest[i - Len(s)]
      <4>1. s \in Seq(Frame)
        BY <1>3
      <4> QED BY <4>1, ConcatProperties, Zenon
    <3> HIDE DEF s
    <3> DEFINE c == s \o rest
    <3>3. /\ Len(c) = Len(s) + Len(rest)
          /\ \A i \in 1 .. Len(s) + Len(rest) : c[i] = IF i <= Len(s) THEN s[i] ELSE rest[i - Len(s)]
      BY <3>2
    <3> HIDE DEF c
    <3>4. Len(c) = 2 + Len(rest) /\ c[1] = s[1]
      BY <1>3, <3>1, <3>3
    <3> QED BY <3>1, <3>4 DEF c
  <2>2. Len(s \o rest) # 0
    BY <2>1
  <2> QED BY <1>3, <1>5, <2>1, <2>2, EmptySeq, HeadTailProperties
<1> QED BY <1>1, <1>5, <1>6 DEF s, a

\* The same for the frame that wakes a thread.
LEMMA WakeRight ==
  ASSUME NEW task \in Task, Given(task), NEW rest \in Seq(Frame), AllRight(rest)
  PROVE  LET fs == <<[op |-> "resume", task |-> task]>> \o rest
         IN  fs \in Seq(Frame) /\ AllRight(fs) /\ fs # <<>> /\ Head(fs).op # "batch"
<1> DEFINE a == [op |-> "resume", task |-> task]  s == <<a>>
<1>1. a.op = "resume" /\ FrameRight(a) /\ a \in Frame
  BY DEF FrameRight, Frame
<1> HIDE DEF a
<1>3. s \in Seq(Frame) /\ Len(s) = 1 /\ s[1] = a /\ Head(s) = a
  BY <1>1
<1>4. AllRight(s)
  BY <1>1, OneFrame
<1> HIDE DEF s
<1>5. s \o rest \in Seq(Frame) /\ AllRight(s \o rest)
  BY <1>3, <1>4, FramesJoined
<1>6. s \o rest # <<>> /\ Head(s \o rest) = a
  <2>1. Len(s \o rest) = 1 + Len(rest) /\ Len(rest) \in Nat /\ (s \o rest)[1] = s[1]
    BY <1>3, ConcatProperties, LenProperties
  <2>2. Len(s \o rest) # 0
    BY <2>1
  <2> QED BY <1>3, <1>5, <2>1, <2>2, EmptySeq, HeadTailProperties
<1> QED BY <1>1, <1>5, <1>6 DEF s, a

\* registerEvent gives the event to a registered task: payloads stay right.
LEMMA MatchRegisteredPayload ==
  ASSUME Sound, Payloads, NEW t \in Threads, MatchRegistered(t)
  PROVE  Payloads'
<1> DEFINE e == Top(t).event
           i == LeastIndex(Matching(registeredTasks, e.key))
           task == Satisfy(registeredTasks[i], e.key, e)
           fs == IF Complete(task) THEN <<StartFrame(task), ConsumeFrame>> \o Again(t) ELSE Again(t)
<1>1. /\ todo[t] # <<>> /\ e \in Event /\ (Free \/ Holds(t))
      /\ UNCHANGED <<pausedTasks, ready, aborted>>
      /\ Replace(t, fs)
  BY RegisteringTypes DEF MatchRegistered
<1>2. /\ Matching(registeredTasks, e.key) # {} /\ registeredTasks \in Seq(CleanTask)
      /\ AllSettled(registeredTasks)
  BY DEF MatchRegistered, Sound, TaskLists, Payloads
<1>3. \/ Complete(task) /\ registeredTasks' = [registeredTasks EXCEPT ![i] = Rearm(task)]
      \/ registeredTasks' = RemoveAt(registeredTasks, i)
      \/ registeredTasks' = [registeredTasks EXCEPT ![i] = task]
  BY DEF MatchRegistered
<1>4. /\ i \in 1 .. Len(registeredTasks) /\ task \in CleanTask /\ Settled(task)
      /\ Complete(task) => Given(task) /\ Settled(Rearm(task))
  <2> DEFINE a == task  j == i  x == e
  <2>1. x \in Event /\ Matching(registeredTasks, x.key) # {}
        /\ j = LeastIndex(Matching(registeredTasks, x.key))
        /\ a = Satisfy(registeredTasks[j], x.key, x)
    BY <1>1, <1>2
  <2> HIDE DEF a, j, x
  <2>2. /\ j \in 1 .. Len(registeredTasks) /\ a \in CleanTask /\ Settled(a)
        /\ Complete(a) => Given(a) /\ Settled(Rearm(a))
    BY <1>2, <2>1, MatchedSettled
  <2> QED BY <2>2 DEF a, j
<1> HIDE DEF e, i, task
<1>5. Again(t) \in Seq(Frame) /\ AllRight(Again(t)) /\ (Again(t) = <<>> \/ Head(Again(t)).op # "batch")
  BY AgainRight DEF MatchRegistered
<1>6. fs \in Seq(Frame) /\ AllRight(fs) /\ (fs = <<>> \/ Head(fs).op # "batch")
  <2>1. task \in Task
    BY <1>4 DEF CleanTask
  <2>2. CASE Complete(task)
    BY <1>4, <1>5, <2>1, <2>2, StartRight
  <2>3. CASE ~Complete(task)
    BY <1>5, <2>3
  <2> QED BY <2>2, <2>3
<1> HIDE DEF fs
<1>7. /\ \A u \in Threads \ {t} : todo'[u] = todo[u]
      /\ AllRight(todo'[t]) /\ Offers(t)'
  BY <1>1, <1>6, TopRight, RightReplaced
<1>8. AllSettled(registeredTasks')
  BY <1>2, <1>3, <1>4, SettledLists
<1>9. AllSettled(pausedTasks') /\ AllGiven(ready') /\ ~aborted'
  BY <1>1 DEF Payloads
<1> QED BY <1>1, <1>7, <1>8, <1>9, PayloadStep

\* registerEvent gives the event to a paused task: payloads stay right.
LEMMA MatchPausedPayload ==
  ASSUME Sound, Payloads, NEW t \in Threads, MatchPaused(t)
  PROVE  Payloads'
<1> DEFINE e == Top(t).event
           i == LeastIndex(Matching(pausedTasks, e.key))
           task == Satisfy(pausedTasks[i], e.key, e)
           fs == IF Complete(task) THEN <<[op |-> "resume", task |-> task]>> \o Again(t) ELSE Again(t)
<1>1. /\ todo[t] # <<>> /\ e \in Event
      /\ UNCHANGED <<registeredTasks, ready, aborted>>
      /\ Replace(t, fs)
  BY RegisteringTypes DEF MatchPaused
<1>2. /\ Matching(pausedTasks, e.key) # {} /\ pausedTasks \in Seq(CleanTask)
      /\ AllSettled(pausedTasks)
  BY DEF MatchPaused, Sound, TaskLists, Payloads
<1>3. \/ pausedTasks' = RemoveAt(pausedTasks, i)
      \/ pausedTasks' = [pausedTasks EXCEPT ![i] = task]
  BY DEF MatchPaused
<1>4. /\ i \in 1 .. Len(pausedTasks) /\ task \in CleanTask /\ Settled(task)
      /\ Complete(task) => Given(task)
  <2> DEFINE a == task  j == i  x == e
  <2>1. x \in Event /\ Matching(pausedTasks, x.key) # {}
        /\ j = LeastIndex(Matching(pausedTasks, x.key))
        /\ a = Satisfy(pausedTasks[j], x.key, x)
    BY <1>1, <1>2
  <2> HIDE DEF a, j, x
  <2>2. /\ j \in 1 .. Len(pausedTasks) /\ a \in CleanTask /\ Settled(a)
        /\ Complete(a) => Given(a)
    BY <1>2, <2>1, MatchedSettled
  <2> QED BY <2>2 DEF a, j
<1> HIDE DEF e, i, task
<1>5. Again(t) \in Seq(Frame) /\ AllRight(Again(t)) /\ (Again(t) = <<>> \/ Head(Again(t)).op # "batch")
  BY AgainRight DEF MatchPaused
<1>6. fs \in Seq(Frame) /\ AllRight(fs) /\ (fs = <<>> \/ Head(fs).op # "batch")
  <2>1. task \in Task
    BY <1>4 DEF CleanTask
  <2>2. CASE Complete(task)
    BY <1>4, <1>5, <2>1, <2>2, WakeRight
  <2>3. CASE ~Complete(task)
    BY <1>5, <2>3
  <2> QED BY <2>2, <2>3
<1> HIDE DEF fs
<1>7. /\ \A u \in Threads \ {t} : todo'[u] = todo[u]
      /\ AllRight(todo'[t]) /\ Offers(t)'
  BY <1>1, <1>6, TopRight, RightReplaced
<1>8. AllSettled(pausedTasks')
  BY <1>2, <1>3, <1>4, SettledLists
<1>9. AllSettled(registeredTasks') /\ AllGiven(ready') /\ ~aborted'
  BY <1>1 DEF Payloads
<1> QED BY <1>1, <1>7, <1>8, <1>9, PayloadStep

\* A call of a thread that ends and touches no list: payloads stay right.
LEMMA ReturnPayload ==
  ASSUME Sound, Payloads, NEW t \in Threads, todo[t] # <<>>, Return(t),
         UNCHANGED <<registeredTasks, pausedTasks, ready, aborted>>
  PROVE  Payloads'
<1>1. Replace(t, <<>>) /\ <<>> \in Seq(Frame) /\ AllRight(<<>>)
  BY OneFrame, EmptySeq DEF Return
<1>2. /\ \A u \in Threads \ {t} : todo'[u] = todo[u]
      /\ AllRight(todo'[t]) /\ Offers(t)'
  BY <1>1, TopRight, RightReplaced
<1> QED BY <1>2, PayloadQuiet

\* An event that nobody waits for is stored: payloads stay right.
LEMMA StoreEventPayload ==
  ASSUME Sound, Payloads, NEW t \in Threads, StoreEvent(t)
  PROVE  Payloads'
  BY RegisteringTypes, ReturnPayload DEF StoreEvent

-----------------------------------------------------------------------------
(* registerEvents                                                          *)

\* What a step of registerEvents has to leave behind.
LEMMA BatchStep ==
  ASSUME Sound, Payloads, NEW t \in Threads, Free \/ Holds(t),
         \A u \in Threads \ {t} : todo'[u] = todo[u], AllRight(todo'[t]),
         NEW g, todo'[t] # <<>>, Top(t)' = g, NEW tasks, registeredTasks' = tasks,
         g.at \in DOMAIN tasks /\ g.keys # {} => tasks[g.at].greedy,
         AllSettled(tasks), UNCHANGED <<pausedTasks, ready, aborted>>
  PROVE  Payloads'
<1>1. Offers(t)'
  BY DEF Offers
<1>2. AllSettled(registeredTasks') /\ AllSettled(pausedTasks') /\ AllGiven(ready') /\ ~aborted'
  BY DEF Payloads
<1> QED BY <1>1, <1>2, PayloadStep

\* The events of a batch are offered to greedy tasks only.
LEMMA BatchOffers ==
  ASSUME NEW i \in DOMAIN registeredTasks, BatchKeys(i) # {}
  PROVE  registeredTasks[i].greedy
  BY DEF BatchKeys

\* registerEvents takes the mutex with a new batch: payloads stay right.
LEMMA RegisterEventsPayload ==
  ASSUME Sound, Payloads, NEW t \in Threads, RegisterEvents(t)
  PROVE  Payloads'
<1>0. PICK n \in 1 .. Menu.maxBatch :
        \E kinds \in [1 .. n -> {kind \in Menu.kinds : kind.key.src # MyRank}] :
          LET events == [j \in 1 .. n |-> NewEvent(kinds[j], j)]
              f == [op |-> "batch", events |-> events, at |-> 1, keys |-> BatchKeys(1), run |-> <<>>]
          IN  todo' = [todo EXCEPT ![t] = <<f>>]
  BY DEF RegisterEvents
<1>1. PICK kinds \in [1 .. n -> {kind \in Menu.kinds : kind.key.src # MyRank}] :
        LET events == [j \in 1 .. n |-> NewEvent(kinds[j], j)]
            f == [op |-> "batch", events |-> events, at |-> 1, keys |-> BatchKeys(1), run |-> <<>>]
        IN  todo' = [todo EXCEPT ![t] = <<f>>]
  BY <1>0
<1> DEFINE events == [j \in 1 .. n |-> NewEvent(kinds[j], j)]
           f == [op |-> "batch", events |-> events, at |-> 1, keys |-> BatchKeys(1), run |-> <<>>]
<1>2. todo' = [todo EXCEPT ![t] = <<f>>]
  BY <1>1
<1>3. f.op = "batch" /\ f.at = 1 /\ f.keys = BatchKeys(1) /\ f.run = <<>>
  OBVIOUS
<1> HIDE DEF f
<1>4. FrameRight(f)
  BY <1>3 DEF FrameRight
<1>5. /\ \A u \in Threads \ {t} : todo'[u] = todo[u]
      /\ AllRight(todo'[t]) /\ todo'[t] # <<>> /\ Top(t)' = f
  BY <1>2, <1>4, RightEntered DEF Sound
<1>6. Free /\ UNCHANGED <<registeredTasks, pausedTasks, ready, aborted>>
  BY DEF RegisterEvents, Lock
<1>7. f.at \in DOMAIN registeredTasks /\ f.keys # {} => registeredTasks[f.at].greedy
  BY <1>3, BatchOffers
<1>8. AllSettled(registeredTasks)
  BY DEF Payloads
<1> QED BY <1>5, <1>6, <1>7, <1>8, BatchStep

\* A greedy task takes its events out of the batch: payloads stay right.
LEMMA GreedyTakePayload ==
  ASSUME Sound, Payloads, NEW t \in Threads, GreedyTake(t)
  PROVE  Payloads'
<1> DEFINE f == Top(t)
           k == LeastSource(f.keys)
           hits == {j \in DOMAIN f.events : Equivalent(f.events[j].key, k)}
           j == LeastIndex(hits)
           e == f.events[j]
           task == registeredTasks[f.at]
           met == [task EXCEPT !.outstanding[k] = IF @ > 0 THEN @ - 1 ELSE 0]
           g == [f EXCEPT !.keys = @ \ {k}]
           h == [f EXCEPT !.events = RemoveAt(f.events, j)]
<1>1. /\ todo[t] # <<>> /\ f.op = "batch" /\ Holds(t)
      /\ f \in [op : {"batch"}, events : Seq(Event), at : Nat, keys : SUBSET Keys, run : Seq(Task)]
      /\ f.at \in 1 .. Len(registeredTasks) /\ registeredTasks \in Seq(CleanTask)
      /\ task \in CleanTask
  BY ScanningTypes DEF GreedyTake
<1>2. \/ Replace(t, <<g>>) /\ UNCHANGED registeredTasks
      \/ /\ registeredTasks' = [registeredTasks EXCEPT ![f.at] = Arrive(met, e.key, e)]
         /\ Replace(t, <<h>>)
  BY DEF GreedyTake
<1>3. f.keys # {} /\ UNCHANGED <<pausedTasks, ready, aborted>>
  BY DEF GreedyTake
<1>4. task.greedy /\ AllSettled(registeredTasks) /\ FrameRight(f)
  <2>1. In(t, "batch") /\ f.at \in DOMAIN registeredTasks
    BY <1>1 DEF In
  <2>2. FrameRight(f)
    BY <1>1, TopRight
  <2> QED BY <1>3, <2>1, <2>2 DEF Payloads, Offers
<1>5. Arrive(met, e.key, e).greedy
  <2>1. met.greedy = task.greedy
    <3> HIDE DEF task, k
    <3> QED BY <1>1 DEF CleanTask, Task
  <2>2. Arrive(met, e.key, e).greedy = met.greedy
    <3>1. DOMAIN met = DOMAIN task /\ "greedy" \in DOMAIN task
      <4> HIDE DEF task, k
      <4> QED BY <1>1 DEF CleanTask, Task
    <3> HIDE DEF met, task, e
    <3> QED BY <3>1 DEF Arrive
  <2> QED BY <1>4, <2>1, <2>2
<1>6. /\ g.op = "batch" /\ g.at = f.at /\ g.run = f.run
      /\ h.op = "batch" /\ h.at = f.at /\ h.run = f.run
  <2> HIDE DEF f, k, j
  <2> QED BY <1>1
<1>7. FrameRight(g) /\ FrameRight(h)
  <2>1. \A i \in DOMAIN f.run : f.run[i].greedy
    BY <1>1, <1>4 DEF FrameRight
  <2> HIDE DEF g, h, f
  <2> QED BY <1>6, <2>1 DEF FrameRight
<1> DEFINE b == Arrive(met, e.key, e)  a == f.at
<1>8. /\ b.greedy /\ a \in 1 .. Len(registeredTasks)
      /\ g.at = a /\ h.at = a /\ registeredTasks[a].greedy
      /\ \/ Replace(t, <<g>>) /\ UNCHANGED registeredTasks
         \/ registeredTasks' = [registeredTasks EXCEPT ![a] = b] /\ Replace(t, <<h>>)
  BY <1>1, <1>2, <1>4, <1>5, <1>6
<1> HIDE DEF g, h, f, k, hits, j, e, task, met, b, a
<1>9. CASE Replace(t, <<g>>) /\ UNCHANGED registeredTasks
  <2>1. /\ \A u \in Threads \ {t} : todo'[u] = todo[u]
        /\ AllRight(todo'[t]) /\ todo'[t] # <<>> /\ Top(t)' = g
    BY <1>1, <1>7, <1>9, TopRight, RightChanged
  <2> QED BY <1>1, <1>3, <1>4, <1>8, <1>9, <2>1, BatchStep
<1>10. CASE registeredTasks' = [registeredTasks EXCEPT ![a] = b] /\ Replace(t, <<h>>)
  <2>1. /\ \A u \in Threads \ {t} : todo'[u] = todo[u]
        /\ AllRight(todo'[t]) /\ todo'[t] # <<>> /\ Top(t)' = h
    BY <1>1, <1>7, <1>10, TopRight, RightChanged
  <2> DEFINE tasks == [registeredTasks EXCEPT ![a] = b]
  <2>2. AllSettled(tasks)
    BY <1>1, <1>4, <1>8, SettledLists DEF Settled
  <2>3. tasks[h.at].greedy /\ registeredTasks' = tasks
    BY <1>1, <1>8, <1>10
  <2> HIDE DEF tasks
  <2> QED BY <1>1, <1>3, <2>1, <2>2, <2>3, BatchStep
<1> QED BY <1>8, <1>9, <1>10

\* registerEvents is done with a greedy task: payloads stay right.
LEMMA GreedyNextPayload ==
  ASSUME Sound, Payloads, NEW t \in Threads, GreedyNext(t)
  PROVE  Payloads'
<1> DEFINE f == Top(t)
           task == registeredTasks[f.at]
           n == f.at + 1
           run == IF task.greedy /\ Complete(task) THEN Append(f.run, task) ELSE f.run
           keys == BatchKeys(n)
           g == [f EXCEPT !.at = n, !.keys = keys, !.run = run]
<1>1. /\ todo[t] # <<>> /\ f.op = "batch" /\ Holds(t)
      /\ f \in [op : {"batch"}, events : Seq(Event), at : Nat, keys : SUBSET Keys, run : Seq(Task)]
      /\ f.at \in 1 .. Len(registeredTasks) /\ registeredTasks \in Seq(CleanTask)
      /\ task \in CleanTask
  BY ScanningTypes DEF GreedyNext
<1>2. /\ Replace(t, <<g>>)
      /\ registeredTasks' = registeredTasks
           \/ (task.greedy /\ registeredTasks' = [registeredTasks EXCEPT ![f.at] = Rearm(task)])
      /\ UNCHANGED <<pausedTasks, ready, aborted>>
  BY DEF GreedyNext
<1>3. AllSettled(registeredTasks) /\ \A i \in DOMAIN f.run : f.run[i].greedy
  BY <1>1, TopRight DEF Payloads, FrameRight
<1>4. n \in DOMAIN registeredTasks /\ keys # {} => registeredTasks[n].greedy
  BY BatchOffers
<1>5. \A i \in DOMAIN run : run[i].greedy
  <2>1. f.run \in Seq(Task)
    BY <1>1
  <2>2. CASE task.greedy /\ Complete(task)
    <3> DEFINE s == f.run
    <3>1. task \in Task /\ s \in Seq(Task) /\ \A i \in 1 .. Len(s) : s[i].greedy
      BY <1>1, <1>3 DEF CleanTask
    <3>2. run = Append(s, task)
      BY <2>2
    <3> HIDE DEF s, task, run
    <3>3. /\ run \in Seq(Task) /\ Len(run) = Len(s) + 1 /\ run[Len(s) + 1] = task
          /\ \A i \in 1 .. Len(s) : run[i] = s[i]
      BY <3>1, <3>2, AppendProperties
    <3>4. \A i \in DOMAIN run : i \in 1 .. Len(s) \/ i = Len(s) + 1
      BY <3>1, <3>3
    <3> QED BY <2>2, <3>1, <3>3, <3>4
  <2>3. CASE ~(task.greedy /\ Complete(task))
    BY <1>3, <2>3
  <2> QED BY <2>2, <2>3
<1>6. g.op = "batch" /\ g.at = n /\ g.keys = keys /\ g.run = run
  <2> HIDE DEF f, n, keys, run
  <2> QED BY <1>1
<1>7. task.greedy => Rearm(task).greedy /\ Settled(Rearm(task))
  BY <1>1, RearmKeeps DEF Settled
<1>8. n # f.at
  BY <1>1
<1> HIDE DEF g, run, keys, n
<1>9. FrameRight(g)
  BY <1>5, <1>6 DEF FrameRight
<1>10. /\ \A u \in Threads \ {t} : todo'[u] = todo[u]
       /\ AllRight(todo'[t]) /\ todo'[t] # <<>> /\ Top(t)' = g
  BY <1>1, <1>2, <1>9, TopRight, RightChanged
<1> DEFINE a == f.at  b == Rearm(task)
<1>11. /\ a \in 1 .. Len(registeredTasks) /\ n # a
       /\ registeredTasks' = registeredTasks
            \/ (Settled(b) /\ registeredTasks' = [registeredTasks EXCEPT ![a] = b])
  BY <1>1, <1>2, <1>7, <1>8
<1> HIDE DEF a, b, f, task
<1>12. /\ AllSettled(registeredTasks')
       /\ n \in DOMAIN registeredTasks' => n \in DOMAIN registeredTasks /\ registeredTasks'[n] = registeredTasks[n]
  BY <1>1, <1>3, <1>11, SettledLists
<1> DEFINE tasks == registeredTasks'
<1>13. g.at \in DOMAIN tasks /\ g.keys # {} => tasks[g.at].greedy
  BY <1>4, <1>6, <1>12
<1>14. AllSettled(tasks) /\ registeredTasks' = tasks
  BY <1>12
<1> QED BY <1>1, <1>2, <1>10, <1>13, <1>14, BatchStep

\* registerEvents goes on to start tasks and register the rest one by one:
\* payloads stay right.
LEMMA FinishBatchPayload ==
  ASSUME Sound, Payloads, NEW t \in Threads, FinishBatch(t)
  PROVE  Payloads'
<1> DEFINE f == Top(t)
           fs == BatchFrames(f)
<1>1. /\ todo[t] # <<>> /\ f.op = "batch"
      /\ UNCHANGED <<registeredTasks, pausedTasks, ready, aborted>>
  BY DEF FinishBatch, At, In
<1>2. Replace(t, fs)
  BY DEF FinishBatch, BatchFrames
<1>3. f.run \in Seq(Task) /\ f.events \in Seq(Event)
  BY <1>1, TopTypes, FrameKinds DEF Sound
<1>4. \A i \in 1 .. Len(f.run) : f.run[i].greedy
  BY <1>1, <1>3, TopRight DEF FrameRight
<1> DEFINE m == Len(f.run)  n == Len(f.events)
<1>5. /\ fs \in Seq(Frame) /\ Len(fs) = m + n /\ m \in Nat /\ n \in Nat
      /\ \A i \in 1 .. m : fs[i] = StartFrame(f.run[i])
      /\ \A i \in 1 .. n : fs[m + i] = EventFrame(f.events[i])
      /\ \A i \in 1 .. m + n : fs[i] \in Resting
  BY <1>3, BatchFramesTypes, LenProperties
<1>6. \A i \in 1 .. m : FrameRight(fs[i])
  <2> TAKE i \in 1 .. m
  <2>1. Given(f.run[i])
    BY <1>4 DEF Given
  <2>2. FrameRight(StartFrame(f.run[i]))
    BY <2>1 DEF FrameRight, StartFrame
  <2> QED BY <1>5, <2>2
<1>7. \A i \in 1 .. n : FrameRight(fs[m + i])
  <2> TAKE i \in 1 .. n
  <2>1. FrameRight(EventFrame(f.events[i]))
    BY OneFrame DEF EventFrame
  <2> QED BY <1>5, <2>1
<1> HIDE DEF fs, m, n
<1>8. AllRight(fs)
  <2> SUFFICES ASSUME NEW i \in 1 .. m + n PROVE FrameRight(fs[i])
    BY <1>5 DEF AllRight
  <2>1. CASE i <= m
    BY <1>6, <2>1
  <2>2. CASE ~(i <= m)
    <3>1. i - m \in 1 .. n /\ m + (i - m) = i
      BY <1>5, <2>2
    <3> QED BY <1>7, <3>1
  <2> QED BY <2>1, <2>2
<1>9. fs = <<>> \/ Head(fs).op # "batch"
  <2>1. fs # <<>> => Head(fs) \in Resting
    BY <1>5
  <2> QED BY <2>1, FrameKinds DEF Lonely
<1>10. /\ \A u \in Threads \ {t} : todo'[u] = todo[u]
       /\ AllRight(todo'[t]) /\ Offers(t)'
  BY <1>1, <1>2, <1>5, <1>8, <1>9, TopRight, RightReplaced
<1> QED BY <1>1, <1>10, PayloadQuiet

-----------------------------------------------------------------------------
(* readyToRunTask and consumeEventsByPersistentTasks                       *)

\* readyToRunTask gives a task to the pool: payloads stay right.
LEMMA ReadyToRunTaskPayload ==
  ASSUME Sound, Payloads, NEW t \in Threads, ReadyToRunTask(t)
  PROVE  Payloads'
<1> DEFINE task == Top(t).task
<1>1. /\ todo[t] # <<>> /\ Top(t).op = "start" /\ Return(t)
      /\ ready' = Append(ready, task)
      /\ UNCHANGED <<registeredTasks, pausedTasks, aborted>>
  BY DEF ReadyToRunTask, At, In
<1>2. task \in Task /\ Given(task)
  <2>1. Top(t) \in Frame
    BY <1>1, TopTypes DEF Sound
  <2> QED BY <1>1, <2>1, TopRight, FrameKinds DEF FrameRight
<1>3. Replace(t, <<>>) /\ <<>> \in Seq(Frame) /\ AllRight(<<>>)
  BY <1>1, OneFrame, EmptySeq DEF Return
<1> HIDE DEF task
<1>4. /\ \A u \in Threads \ {t} : todo'[u] = todo[u]
      /\ AllRight(todo'[t]) /\ Offers(t)'
  BY <1>1, <1>3, TopRight, RightReplaced
<1>5. AllGiven(ready')
  BY <1>1, <1>2, GivenLists DEF Sound, TaskLists, Payloads
<1>6. AllSettled(registeredTasks') /\ AllSettled(pausedTasks') /\ ~aborted'
  BY <1>1 DEF Payloads
<1> QED BY <1>1, <1>4, <1>5, <1>6, PayloadStep

\* consumeEventsByPersistentTasks takes the mutex: payloads stay right.
LEMMA ConsumeBeginPayload ==
  ASSUME Sound, Payloads, NEW t \in Threads, ConsumeBegin(t)
  PROVE  Payloads'
<1> DEFINE f == Top(t)
           g == [f EXCEPT !.at = 1, !.keys = Consumable(1)]
<1>1. /\ todo[t] # <<>> /\ f.op = "consume"
      /\ Replace(t, <<g>>)
      /\ UNCHANGED <<registeredTasks, pausedTasks, ready, aborted>>
  BY DEF ConsumeBegin, At, In
<1>2. f \in [op : {"consume"}, at : Nat, keys : SUBSET Keys, progress : BOOLEAN]
  BY <1>1, TopTypes, FrameKinds DEF Sound
<1>3. g.op = "consume" /\ FrameRight(g)
  <2>1. g.op = "consume"
    <3> HIDE DEF f
    <3> QED BY <1>2
  <2> HIDE DEF g
  <2> QED BY <2>1, OneFrame
<1> HIDE DEF g
<1>4. /\ \A u \in Threads \ {t} : todo'[u] = todo[u]
      /\ AllRight(todo'[t]) /\ Offers(t)'
  BY <1>1, <1>3, TopRight, RightChanged
<1> QED BY <1>1, <1>4, PayloadQuiet

\* A persistent task takes a stored event: payloads stay right.
LEMMA ConsumeStoredPayload ==
  ASSUME Sound, Payloads, NEW t \in Threads, ConsumeStored(t)
  PROVE  Payloads'
<1> DEFINE f == Top(t)
           k == LeastSource(f.keys)
           a == f.at
           task == registeredTasks[a]
           less == [task EXCEPT !.outstanding[k] = @ - 1]
           e == First(k)
           b == Arrive(less, k, e)
           g == [f EXCEPT !.keys = @ \ {k}]
<1>1. /\ todo[t] # <<>> /\ f.op = "consume" /\ Holds(t)
      /\ f \in [op : {"consume"}, at : Nat, keys : SUBSET Keys, progress : BOOLEAN]
      /\ a \in 1 .. Len(registeredTasks) /\ registeredTasks \in Seq(CleanTask)
      /\ task \in CleanTask
      /\ f.keys \subseteq {j \in Counted(task.outstanding) : IsStored(j)}
  BY ConsumingTypes DEF ConsumeStored
<1>2. /\ TakeFirst(k) /\ Replace(t, <<g>>)
      /\ registeredTasks' = [registeredTasks EXCEPT ![a] = b]
      /\ f.keys # {} /\ UNCHANGED <<pausedTasks, ready, aborted>>
  BY DEF ConsumeStored
<1>3. k \in f.keys /\ k \in Keys
  BY <1>1, <1>2, LeastSourceIn
<1>4. Settled(task) /\ AllSettled(registeredTasks)
  BY <1>1 DEF Payloads, AllSettled
<1>5. g.op = "consume" /\ FrameRight(g)
  <2>1. g.op = "consume"
    <3> HIDE DEF f, k
    <3> QED BY <1>1
  <2> HIDE DEF g
  <2> QED BY <2>1, OneFrame
<1> HIDE DEF g
<1>6. /\ \A u \in Threads \ {t} : todo'[u] = todo[u]
      /\ AllRight(todo'[t]) /\ Offers(t)'
  BY <1>1, <1>2, <1>5, TopRight, RightChanged
<1> HIDE DEF f, k, a, task
<1>7. k \in Counted(task.outstanding) /\ IsStored(k)
  BY <1>1, <1>3
<1>8. e \in Event /\ Equivalent(e.key, k)
  BY <1>2, <1>3, <1>7, StoreTake DEF Sound, Plain
<1> HIDE DEF e
<1>9. Settled(b)
  <2>1. CASE task.greedy
    <3>1. DOMAIN less = DOMAIN task /\ less.greedy = task.greedy /\ "greedy" \in DOMAIN task
      BY <1>1 DEF CleanTask, Task
    <3> HIDE DEF less
    <3>2. b.greedy = less.greedy
      BY <3>1 DEF Arrive
    <3> QED BY <2>1, <3>1, <3>2 DEF Settled
  <2>2. CASE ~task.greedy
    <3>1. Balanced(task, Len(task.order)) /\ task \in CleanTask
      BY <1>1, <1>4, <2>2 DEF Settled
    <3>2. Admits(k, k)
      BY DEF Admits
    <3>3. less = [task EXCEPT !.outstanding[k] = @ - 1]
      OBVIOUS
    <3> DEFINE n == Len(task.order)
    <3>4. Balanced(task, n) /\ k \in Counted(task.outstanding) /\ Equivalent(e.key, k)
      BY <1>7, <1>8, <3>1
    <3> HIDE DEF less, n
    <3>5. Balanced(Arrive(less, k, e), n) /\ Arrive(less, k, e).order = task.order
      BY <1>3, <1>8, <3>1, <3>2, <3>3, <3>4, ArrivalBalanced
    <3> QED BY <3>5 DEF Settled, n
  <2> QED BY <2>1, <2>2
<1> HIDE DEF b
<1>10. AllSettled(registeredTasks')
  BY <1>1, <1>2, <1>4, <1>9, SettledLists
<1>11. AllSettled(pausedTasks') /\ AllGiven(ready') /\ ~aborted'
  BY <1>2 DEF Payloads
<1> QED BY <1>1, <1>6, <1>10, <1>11, PayloadStep

\* consumeEventsByPersistentTasks runs a task that is complete and goes on to
\* the next one: payloads stay right.
LEMMA ConsumeNextPayload ==
  ASSUME Sound, Payloads, NEW t \in Threads, ConsumeNext(t)
  PROVE  Payloads'
<1> DEFINE f == Top(t)
           a == f.at
           task == registeredTasks[a]
           n == f.at + 1
           fires == task.persistent /\ Complete(task)
           b == f.progress \/ fires
           g == [f EXCEPT !.at = n, !.keys = Consumable(n), !.progress = b]
<1>1. /\ todo[t] # <<>> /\ f.op = "consume" /\ Holds(t)
      /\ f \in [op : {"consume"}, at : Nat, keys : SUBSET Keys, progress : BOOLEAN]
      /\ a \in 1 .. Len(registeredTasks) /\ registeredTasks \in Seq(CleanTask)
      /\ task \in CleanTask
  BY ConsumingTypes DEF ConsumeNext
<1>2. /\ Replace(t, <<g>>)
      /\ \/ UNCHANGED <<registeredTasks, ready>>
         \/ /\ Complete(task) /\ ready' = Append(ready, task)
            /\ registeredTasks' = [registeredTasks EXCEPT ![a] = Rearm(task)]
      /\ UNCHANGED <<pausedTasks, aborted>>
  BY DEF ConsumeNext
<1>3. Settled(task) /\ AllSettled(registeredTasks)
  BY <1>1 DEF Payloads, AllSettled
<1>4. g.op = "consume" /\ FrameRight(g)
  <2>1. g.op = "consume"
    <3> HIDE DEF f, n, b
    <3> QED BY <1>1
  <2> HIDE DEF g
  <2> QED BY <2>1, OneFrame
<1> HIDE DEF g
<1>5. /\ \A u \in Threads \ {t} : todo'[u] = todo[u]
      /\ AllRight(todo'[t]) /\ Offers(t)'
  BY <1>1, <1>2, <1>4, TopRight, RightChanged
<1> HIDE DEF f, a, task, n, fires, b
<1>6. Complete(task) => Given(task) /\ Settled(Rearm(task))
  <2>1. CASE task.greedy
    BY <1>1, <2>1, RearmKeeps DEF Given, Settled
  <2>2. CASE ~task.greedy
    <3>1. Balanced(task, Len(task.order))
      BY <1>3, <2>2 DEF Settled
    <3>2. Complete(task) => Given(task)
      BY <1>1, <3>1, CompleteGiven
    <3>3. Balanced(Rearm(task), Len(task.order)) /\ Rearm(task).order = task.order
      BY <1>1, <3>1, RearmBalanced
    <3> QED BY <3>2, <3>3 DEF Settled
  <2> QED BY <2>1, <2>2
<1>7. AllSettled(registeredTasks') /\ AllGiven(ready')
  <2>1. ready \in Seq(Task) /\ AllGiven(ready) /\ task \in Task
    BY <1>1 DEF Sound, TaskLists, Payloads, CleanTask
  <2>2. CASE UNCHANGED <<registeredTasks, ready>>
    BY <1>3, <2>1, <2>2
  <2>3. CASE /\ Complete(task) /\ ready' = Append(ready, task)
             /\ registeredTasks' = [registeredTasks EXCEPT ![a] = Rearm(task)]
    <3>1. AllGiven(ready')
      BY <1>6, <2>1, <2>3, GivenLists
    <3>2. AllSettled(registeredTasks')
      BY <1>1, <1>3, <1>6, <2>3, SettledLists
    <3> QED BY <3>1, <3>2
  <2> QED BY <1>2, <2>2, <2>3
<1>8. AllSettled(pausedTasks') /\ ~aborted'
  BY <1>2 DEF Payloads
<1> QED BY <1>1, <1>5, <1>7, <1>8, PayloadStep

\* consumeEventsByPersistentTasks gives up the mutex: payloads stay right.
LEMMA ConsumeEndPayload ==
  ASSUME Sound, Payloads, NEW t \in Threads, ConsumeEnd(t)
  PROVE  Payloads'
<1> DEFINE f == Top(t)
           g == Anew(f)
<1>1. /\ todo[t] # <<>> /\ f.op = "consume"
      /\ Replace(t, <<g>>) \/ Return(t)
      /\ UNCHANGED <<registeredTasks, pausedTasks, ready, aborted>>
  BY DEF ConsumeEnd, At, In
<1>2. f \in [op : {"consume"}, at : Nat, keys : SUBSET Keys, progress : BOOLEAN]
  BY <1>1, TopTypes, FrameKinds DEF Sound
<1>3. g.op = "consume" /\ FrameRight(g)
  <2>1. g.op = "consume"
    <3> HIDE DEF f
    <3> QED BY <1>2 DEF Anew
  <2> HIDE DEF g
  <2> QED BY <2>1, OneFrame
<1> HIDE DEF g
<1>4. CASE Replace(t, <<g>>)
  <2>1. /\ \A u \in Threads \ {t} : todo'[u] = todo[u]
        /\ AllRight(todo'[t]) /\ Offers(t)'
    BY <1>1, <1>3, <1>4, TopRight, RightChanged
  <2> QED BY <1>1, <2>1, PayloadQuiet
<1>5. CASE Return(t)
  BY <1>1, <1>5, ReturnPayload
<1> QED BY <1>1, <1>4, <1>5

-----------------------------------------------------------------------------
(* Tasks begin, waits end, events are retrieved, tasks are removed         *)

\* A payload that exists is delivered: generateEventsPayload raises no error.
LEMMA DeliverPayload ==
  ASSUME NEW task, Given(task), Deliver(task)
  PROVE  ~aborted'
  BY DEF Given, PayloadExists, Deliver

\* A worker begins a task: payloads stay right.
LEMMA RunTaskPayload ==
  ASSUME Sound, Payloads, RunTask
  PROVE  Payloads'
<1>1. PICK i \in DOMAIN ready : Deliver(ready[i]) /\ ready' = RemoveAt(ready, i)
  BY DEF RunTask
<1>2. ready \in Seq(Task) /\ AllGiven(ready) /\ i \in 1 .. Len(ready)
  BY <1>1 DEF Sound, TaskLists, Payloads
<1>3. AllGiven(ready')
  BY <1>1, <1>2, GivenLists
<1>4. Given(ready[i])
  BY <1>2 DEF AllGiven
<1>5. ~aborted'
  BY <1>1, <1>4, DeliverPayload
<1>6. UNCHANGED <<registeredTasks, pausedTasks, todo>>
  BY DEF RunTask
<1> QED BY <1>3, <1>5, <1>6 DEF Payloads, Offers, In, Top

\* A thread whose wait is over is found and resumed: payloads stay right.
LEMMA MarkThreadResumePayload ==
  ASSUME Sound, Payloads, NEW t \in Threads, MarkThreadResume(t)
  PROVE  Payloads'
<1> DEFINE f == [op |-> "resumed", task |-> Top(t).task]
<1>1. PICK u \in Threads :
        In(u, "paused") /\ todo' = [todo EXCEPT ![t] = Tail(@), ![u] = <<f>>]
  BY DEF MarkThreadResume
<1>2. At(t, "resume") /\ UNCHANGED <<registeredTasks, pausedTasks, ready, aborted>>
  BY DEF MarkThreadResume
<1>3. f = [op |-> "resumed", task |-> Top(t).task] /\ f.op = "resumed" /\ f.task = Top(t).task
  OBVIOUS
<1>4. todo[t] # <<>> /\ Top(t).op = "resume"
  BY <1>2 DEF At, In
<1>5. Given(Top(t).task) /\ AllRight(todo[t])
  BY <1>4, TopRight DEF FrameRight
<1> HIDE DEF f
<1>6. FrameRight(f)
  BY <1>3, <1>5 DEF FrameRight
<1>7. /\ Top(u)' = f /\ todo'[u] = <<f>> /\ todo'[t] = Tail(todo[t])
      /\ todo'[t] # <<>> => Top(t)' \in Resting
      /\ \A v \in Threads \ {t, u} : todo'[v] = todo[v]
  <2>1. Stacks /\ At(t, "resume") /\ In(u, "paused") /\ f = [op |-> "resumed", task |-> Top(t).task]
    BY <1>1, <1>2, <1>3 DEF Sound
  <2>2. todo' = [todo EXCEPT ![t] = Tail(@), ![u] = <<f>>]
    BY <1>1
  <2> QED BY <2>1, <2>2, Woken, ZenonT(60)
<1>8. AllRight(todo'[u]) /\ Offers(u)'
  <2>1. AllRight(<<f>>)
    BY <1>6, OneFrame
  <2>2. ~In(u, "batch")'
    BY <1>3, <1>7 DEF In
  <2> QED BY <1>7, <2>1, <2>2 DEF Offers
<1>9. AllRight(todo'[t]) /\ Offers(t)'
  <2> DEFINE s == todo[t]
  <2>1. s \in Seq(Frame) /\ s # <<>> /\ AllRight(s)
    BY <1>4, <1>5 DEF Sound, Stacks, StackOK
  <2> HIDE DEF s
  <2>2. AllRight(Tail(s))
    <3>1. /\ Tail(s) \in Seq(Frame) /\ Len(Tail(s)) = Len(s) - 1 /\ Len(s) \in Nat
          /\ \A i \in 1 .. Len(Tail(s)) : Tail(s)[i] = s[i + 1]
      BY <2>1, HeadTailProperties, LenProperties
    <3>2. \A i \in 1 .. Len(Tail(s)) : i + 1 \in 1 .. Len(s)
      BY <3>1
    <3>3. \A i \in 1 .. Len(s) : FrameRight(s[i])
      BY <2>1 DEF AllRight
    <3> DEFINE r == Tail(s)
    <3>4. r \in Seq(Frame) /\ \A i \in 1 .. Len(r) : FrameRight(r[i])
      BY <3>1, <3>2, <3>3
    <3> HIDE DEF r
    <3>5. AllRight(r)
      BY <3>4 DEF AllRight
    <3> QED BY <3>5 DEF r
  <2>3. ~In(t, "batch")'
    BY <1>7, FrameKinds DEF In, Lonely
  <2> QED BY <1>7, <2>2, <2>3 DEF Offers, s
<1>10. \A v \in Threads \ {t, u} : AllRight(todo'[v]) /\ Offers(v)'
  <2> TAKE v \in Threads \ {t, u}
  <2>1. todo'[v] = todo[v] /\ Top(v)' = Top(v) /\ (In(v, "batch")' <=> In(v, "batch"))
    BY <1>7 DEF Top, In
  <2> QED BY <1>2, <2>1 DEF Payloads, Offers
<1>11. \A v \in Threads : AllRight(todo'[v]) /\ Offers(v)'
  BY <1>8, <1>9, <1>10
<1> QED BY <1>2, <1>11 DEF Payloads

\* pauseTask returns the events of the wait: payloads stay right.
LEMMA ResumedPayload ==
  ASSUME Sound, Payloads, NEW t \in Threads, Resumed(t)
  PROVE  Payloads'
<1>1. /\ todo[t] # <<>> /\ Top(t).op = "resumed" /\ Deliver(Top(t).task) /\ Return(t)
      /\ UNCHANGED <<registeredTasks, pausedTasks, ready>>
  BY DEF Resumed, At, In
<1>2. Given(Top(t).task)
  BY <1>1, TopRight DEF FrameRight
<1>3. UNCHANGED aborted
  <2>1. PayloadExists(Top(t).task)
    BY <1>2 DEF Given, PayloadExists
  <2>2. aborted' = FALSE
    BY <1>1, <2>1 DEF Deliver
  <2>3. aborted = FALSE
    BY DEF Sound, Plain, Payloads
  <2> QED BY <2>2, <2>3
<1> QED BY <1>1, <1>3, ReturnPayload

\* retrieveAnyMatchingEvents takes the mutex: payloads stay right.
LEMMA RetrieveAnyPayload ==
  ASSUME Sound, Payloads, NEW t \in Threads, RetrieveAny(t)
  PROVE  Payloads'
<1>1. PICK order \in Menu.retrievals :
        todo' = [todo EXCEPT ![t] = <<[op |-> "retrieve", order |-> order]>>]
  BY DEF RetrieveAny
<1> DEFINE f == [op |-> "retrieve", order |-> order]
<1>2. todo' = [todo EXCEPT ![t] = <<f>>] /\ f.op = "retrieve" /\ FrameRight(f)
  BY <1>1, OneFrame
<1> HIDE DEF f
<1>3. UNCHANGED <<registeredTasks, pausedTasks, ready, aborted>>
  BY DEF RetrieveAny
<1> QED BY <1>2, <1>3, RightEntered, PayloadQuiet DEF Sound

\* retrieveAnyMatchingEvents takes an event out of the store, or is done:
\* payloads stay right.
LEMMA RetrieveNextPayload ==
  ASSUME Sound, Payloads, NEW t \in Threads, RetrieveNext(t)
  PROVE  Payloads'
<1> DEFINE f == Top(t)
           g == [f EXCEPT !.order = Tail(@)]
<1>1. /\ todo[t] # <<>> /\ f.op = "retrieve"
      /\ Replace(t, <<g>>) \/ Return(t)
      /\ UNCHANGED <<registeredTasks, pausedTasks, ready, aborted>>
  BY DEF RetrieveNext, At, In
<1>2. f \in [op : {"retrieve"}, order : Seq(Keys)]
  BY <1>1, TopTypes, FrameKinds DEF Sound
<1>3. g.op = "retrieve" /\ FrameRight(g)
  <2>1. g.op = "retrieve"
    <3> HIDE DEF f
    <3> QED BY <1>2
  <2> HIDE DEF g
  <2> QED BY <2>1, OneFrame
<1> HIDE DEF g
<1>4. CASE Replace(t, <<g>>)
  <2>1. /\ \A u \in Threads \ {t} : todo'[u] = todo[u]
        /\ AllRight(todo'[t]) /\ Offers(t)'
    BY <1>1, <1>3, <1>4, TopRight, RightChanged
  <2> QED BY <1>1, <2>1, PayloadQuiet
<1>5. CASE Return(t)
  BY <1>1, <1>5, ReturnPayload
<1> QED BY <1>1, <1>4, <1>5

\* removeTask removes a task with its events: payloads stay right.
LEMMA RemoveTaskPayload ==
  ASSUME Sound, Payloads, NEW t \in Threads, RemoveTask(t)
  PROVE  Payloads'
<1>1. Free /\ UNCHANGED <<pausedTasks, ready, todo, aborted>>
  BY DEF RemoveTask
<1>2. PICK name \in Names \ {NoName} :
        \/ UNCHANGED registeredTasks
        \/ /\ Named(name) # {}
           /\ registeredTasks' = RemoveAt(registeredTasks, LeastIndex(Named(name)))
  BY DEF RemoveTask
<1>3. registeredTasks \in Seq(CleanTask) /\ AllSettled(registeredTasks)
  BY DEF Sound, TaskLists, Payloads
<1>4. AllSettled(registeredTasks')
  BY <1>2, <1>3, NamedTask, SettledLists
<1>5. todo[t] = <<>>
  BY DEF RemoveTask, MayCall, Outside
<1>6. \A u \in Threads \ {t} : todo'[u] = todo[u]
  BY <1>1
<1>7. AllRight(todo'[t]) /\ Offers(t)'
  BY <1>1, <1>5 DEF Payloads, Offers, In
<1>8. AllSettled(pausedTasks') /\ AllGiven(ready') /\ ~aborted'
  BY <1>1 DEF Payloads
<1> QED BY <1>1, <1>4, <1>6, <1>7, <1>8, PayloadStep

-----------------------------------------------------------------------------
(* The theorems                                                            *)

\* Nothing is listed at the start.
LEMMA InitPayloads == Init => Payloads
  BY DEF Init, Payloads, AllSettled, AllGiven, AllRight, Offers, In

\* No step leaves a task with the wrong events.
LEMMA StepPayloads ==
  ASSUME MenusDistinguished, Sound, Payloads, [Next]_vars
  PROVE  Payloads'
<1>1. CASE RunTask
  BY <1>1, RunTaskPayload
<1>2. ASSUME NEW t \in Threads, Call(t) PROVE Payloads'
  BY <1>2, RegisterTaskPayload, PauseTaskPayload, RetrieveAnyPayload, RemoveTaskPayload,
     RegisterEventPayload, RegisterEventsPayload DEF Call
<1>3. ASSUME NEW t \in Threads, Step(t) PROVE Payloads'
  BY <1>3, GatherStoredPayload, GatherMissingPayload, FinishRegisterTaskPayload,
     FinishPauseTaskPayload, MatchRegisteredPayload, MatchPausedPayload, StoreEventPayload,
     GreedyTakePayload, GreedyNextPayload, FinishBatchPayload, ReadyToRunTaskPayload,
     ConsumeBeginPayload, ConsumeStoredPayload, ConsumeNextPayload, ConsumeEndPayload,
     MarkThreadResumePayload, ResumedPayload, RetrieveNextPayload DEF Step
<1>4. CASE UNCHANGED vars
  BY <1>4 DEF vars, Payloads, Offers, In, Top
<1> QED BY <1>1, <1>2, <1>3, <1>4 DEF Next, Stopped

\* The invariant holds in all states.
LEMMA PayloadsInvariant ==
  ASSUME MenusDistinguished
  PROVE  Spec => [](Sound /\ Payloads)
<1>1. Init => Payloads
  BY InitPayloads
<1>2. Sound /\ Payloads /\ [Next]_vars => Payloads'
  BY StepPayloads
<1> QED BY <1>1, <1>2, Soundness, PTL DEF Spec

\* What is about to run is given.
LEMMA OutgoingGiven ==
  ASSUME Sound, Payloads
  PROVE  PayloadMatchesOrder
<1>1. \A task \in Outgoing : Given(task)
  <2> SUFFICES ASSUME NEW task \in Outgoing PROVE Given(task)
    OBVIOUS
  <2>1. CASE task \in ToSet(ready)
    <3>1. ready \in Seq(Task) /\ AllGiven(ready)
      BY DEF Sound, TaskLists, Payloads
    <3>2. PICK i \in 1 .. Len(ready) : task = ready[i]
      BY <2>1, <3>1, SetOfSequence
    <3> QED BY <3>1, <3>2 DEF AllGiven
  <2>2. CASE \E t \in Threads : In(t, "resumed") /\ task = Top(t).task
    BY <2>2, TopRight DEF In, FrameRight
  <2> QED BY <2>1, <2>2 DEF Outgoing
<1> QED BY <1>1 DEF PayloadMatchesOrder, Given

\* Whatever the threads do, in whatever order: a task or a wait gets one event
\* for each of its dependencies, in their order, as edatSubmitTask and edatWait
\* promise, if the program can tell its dependencies apart.
THEOREM PayloadsMatch ==
  ASSUME MenusDistinguished
  PROVE  Spec => []PayloadMatchesOrder
<1>1. Sound /\ Payloads => PayloadMatchesOrder
  BY OutgoingGiven
<1> QED BY <1>1, PayloadsInvariant, PTL

\* And generateEventsPayload never ends in raiseError.
THEOREM NothingAborts ==
  ASSUME MenusDistinguished
  PROVE  Spec => []NoAbort
<1>1. Sound /\ Payloads => NoAbort
  BY DEF Payloads, NoAbort
<1> QED BY <1>1, PayloadsInvariant, PTL

=============================================================================
