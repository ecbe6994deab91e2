---------------------------- MODULE SchedulerProofs ----------------------------
(***************************************************************************)
(* Proofs about the scheduler: its types, and the matching of events with  *)
(* the tasks and waits that need them.                                     *)
(***************************************************************************)
EXTENDS SchedulerProperties, FiniteSetTheorems, SequenceTheorems, TLAPS

-----------------------------------------------------------------------------
(* Keys                                                                    *)

\* Sources of keys are integers, EDAT_ANY is -2, and the key of an event is a
\* key.
LEMMA KeysInt ==
  /\ \A k \in Keys : k.eid \in EventIds /\ k.src \in Int /\ k.src + 2 \in Nat
  /\ EventKeys \subseteq Keys
  /\ \A k \in EventKeys : k \in Keys /\ k.src \in Nat
  /\ \A k, l \in Keys : k.eid = l.eid /\ k.src = l.src => k = l
<1>1. /\ \A k \in Keys : k.eid \in EventIds /\ k.src \in Ranks \union {-2}
      /\ \A k \in EventKeys : k.eid \in EventIds /\ k.src \in Ranks
  BY DEF Keys, EventKeys, EDAT_ANY
<1>2. EventKeys \subseteq Keys
  BY DEF Keys, EventKeys
<1>3. \A k, l \in Keys : k.eid = l.eid /\ k.src = l.src => k = l
  BY DEF Keys
<1>4. \A n \in Ranks \union {-2} : n \in Int /\ n + 2 \in Nat
  BY RanksAssumption
<1> QED BY <1>1, <1>2, <1>3, <1>4, RanksAssumption

\* A set of numbers has a least one.
LEMMA LeastNumber ==
  ASSUME NEW S \in SUBSET Nat, S # {}
  PROVE  \E n \in S : \A m \in S : n <= m
<1> DEFINE R == OpToRel(<, Nat)
<1>1. IsWellFoundedOn(R, Nat)
  BY NatLessThanWellFounded, Zenon
<1>2. \A m, n \in Nat : m < n => <<m, n>> \in R
  <2> TAKE m, n \in Nat
  <2> HAVE m < n
  <2>1. <<m, n>> \in Nat \X Nat /\ <<m, n>>[1] < <<m, n>>[2]
    OBVIOUS
  <2> QED BY <2>1, Zenon DEF OpToRel
<1> HIDE DEF R
<1>3. \E n \in S : \A m \in S : ~(<<m, n>> \in R)
  BY <1>1, WFMin
<1>4. PICK n \in S : \A m \in S : ~(<<m, n>> \in R)
  BY <1>3
<1>5. \A m \in S : n <= m
  <2> TAKE m \in S
  <2>1. m \in Nat /\ n \in Nat /\ ~(<<m, n>> \in R)
    BY <1>4
  <2>2. ~(m < n)
    BY <1>2, <2>1, Zenon
  <2> QED BY <2>1, <2>2
<1> QED BY <1>5

\* A nonempty set of keys has one with the least source.
LEMMA LeastSourceIn ==
  ASSUME NEW ks \in SUBSET Keys, ks # {}
  PROVE  LeastSource(ks) \in ks
<1> DEFINE S == {k.src + 2 : k \in ks}
<1>1. S \in SUBSET Nat /\ S # {}
  BY KeysInt
<1>2. PICK n \in S : \A m \in S : n <= m
  <2> HIDE DEF S
  <2> QED BY <1>1, LeastNumber
<1>3. PICK k \in ks : n = k.src + 2
  OBVIOUS
<1>4. \A l \in ks : k.src <= l.src
  <2> TAKE l \in ks
  <2>1. l.src + 2 \in S /\ n <= l.src + 2
    BY <1>2
  <2> QED BY <2>1, <1>3, KeysInt
<1> QED BY <1>4 DEF LeastSource

\* A nonempty set of positions has a least one.
LEMMA LeastIndexIn ==
  ASSUME NEW is \in SUBSET Nat, is # {}
  PROVE  LeastIndex(is) \in is
  BY LeastNumber DEF LeastIndex

\* The entry that is found for a key compares equal to it.
LEMMA SlotFound ==
  ASSUME NEW present \in SUBSET Keys, NEW k \in Keys
  PROVE  /\ Slot(present, k) \in Keys
         /\ Equivalent(Slot(present, k), k)
         /\ \/ Slot(present, k) \in present
            \/ Slot(present, k) = k /\ \A l \in present : ~Equivalent(l, k)
<1> DEFINE same == {l \in present : Equivalent(k, l)}
<1>a. \A l : Equivalent(k, l) <=> Equivalent(l, k)
  BY DEF Equivalent
<1>1. CASE same = {}
  <2>1. Slot(present, k) = k
    BY <1>1 DEF Slot
  <2> QED BY <1>1, <1>a, <2>1 DEF Equivalent
<1>2. CASE same # {}
  <2>1. Slot(present, k) = LeastSource(same)
    BY <1>2 DEF Slot
  <2>2. same \in SUBSET Keys
    OBVIOUS
  <2>3. LeastSource(same) \in same
    <3> HIDE DEF same
    <3> QED BY <2>2, <1>2, LeastSourceIn
  <2> QED BY <1>a, <2>1, <2>3
<1> QED BY <1>1, <1>2

\* Keys without a wildcard only compare equal to themselves.
LEMMA Concrete ==
  ASSUME NEW k \in EventKeys, NEW l \in EventKeys, Equivalent(k, l)
  PROVE  k = l
  BY KeysInt DEF Equivalent, EDAT_ANY

-----------------------------------------------------------------------------
(* Sequences, queues and counters                                          *)

\* What is left of a sequence when one element is removed.
LEMMA Removal ==
  ASSUME NEW S, NEW s \in Seq(S), NEW i \in 1 .. Len(s)
  PROVE  /\ RemoveAt(s, i) \in Seq(S)
         /\ Len(RemoveAt(s, i)) = Len(s) - 1
         /\ \A j \in 1 .. Len(s) - 1 : RemoveAt(s, i)[j] = IF j < i THEN s[j] ELSE s[j + 1]
<1> DEFINE a == SubSeq(s, 1, i - 1)
           b == SubSeq(s, i + 1, Len(s))
<1>0. Len(s) \in Nat /\ i \in Nat /\ 1 <= i /\ i <= Len(s)
  OBVIOUS
<1>1. a \in Seq(S) /\ Len(a) = i - 1 /\ \A j \in 1 .. i - 1 : a[j] = s[j]
  OBVIOUS
<1>2. /\ b \in Seq(S) /\ Len(b) = Len(s) - i
      /\ \A j \in 1 .. Len(s) - i : b[j] = s[i + j]
  OBVIOUS
<1>3. RemoveAt(s, i) = a \o b
  BY DEF RemoveAt
<1> HIDE DEF a, b
<1>4. /\ a \o b \in Seq(S)
      /\ Len(a \o b) = Len(a) + Len(b)
      /\ \A j \in 1 .. Len(a) + Len(b) :
            (a \o b)[j] = IF j <= Len(a) THEN a[j] ELSE b[j - Len(a)]
  BY <1>1, <1>2, ConcatProperties
<1>5. Len(a) + Len(b) = Len(s) - 1
  BY <1>0, <1>1, <1>2
<1>6. ASSUME NEW j \in 1 .. Len(s) - 1
      PROVE  (a \o b)[j] = IF j < i THEN s[j] ELSE s[j + 1]
  <2>0. j \in Nat /\ 1 <= j /\ j <= Len(s) - 1 /\ j \in 1 .. Len(a) + Len(b)
    BY <1>0, <1>5
  <2>1. CASE j < i
    <3>1. j <= Len(a) /\ j \in 1 .. i - 1
      BY <2>0, <2>1, <1>0, <1>1
    <3> QED BY <2>0, <2>1, <3>1, <1>1, <1>4
  <2>2. CASE ~(j < i)
    <3>1. ~(j <= Len(a)) /\ j - Len(a) = j - (i - 1) /\ j - (i - 1) \in 1 .. Len(s) - i
          /\ i + (j - (i - 1)) = j + 1
      BY <2>0, <2>2, <1>0, <1>1
    <3>2. (a \o b)[j] = b[j - (i - 1)]
      BY <2>0, <3>1, <1>4
    <3> QED BY <2>2, <3>1, <3>2, <1>2
  <2> QED BY <2>1, <2>2
<1> QED BY <1>3, <1>4, <1>5, <1>6

\* The elements of a sequence, of a longer one and of the empty one.
LEMMA SetOfSequence ==
  ASSUME NEW S, NEW s \in Seq(S)
  PROVE  /\ \A x : x \in ToSet(s) <=> \E i \in 1 .. Len(s) : x = s[i]
         /\ ToSet(s) \subseteq S
         /\ \A x \in S : ToSet(Append(s, x)) = ToSet(s) \union {x}
         /\ ToSet(s) = {} <=> s = <<>>
<1>1. \A x : x \in ToSet(s) <=> \E i \in 1 .. Len(s) : x = s[i]
  BY DEF ToSet
<1>2. ToSet(s) \subseteq S
  BY <1>1
<1>3. ASSUME NEW x \in S PROVE ToSet(Append(s, x)) = ToSet(s) \union {x}
  <2>1. \A y : y \in ToSet(Append(s, x)) <=> \E i \in 1 .. Len(s) + 1 : y = Append(s, x)[i]
    BY DEF ToSet
  <2>2. \A i \in 1 .. Len(s) : Append(s, x)[i] = s[i]
    OBVIOUS
  <2>3. Append(s, x)[Len(s) + 1] = x
    OBVIOUS
  <2> QED BY <2>1, <2>2, <2>3, <1>1
<1>4. ToSet(s) = {} <=> s = <<>>
  <2>1. CASE s = <<>>
    BY <2>1, <1>1
  <2>2. CASE s # <<>>
    <3>1. s[1] \in ToSet(s)
      BY <2>2, <1>1
    <3> QED BY <2>2, <3>1
  <2> QED BY <2>1, <2>2
<1> QED BY <1>1, <1>2, <1>3, <1>4

\* No two keys in use compare equal to each other.
Clean(m) == \A k, l \in Counted(m) : Equivalent(k, l) => k = l

\* One more dependency on a key: it goes to the entry found for the key.
LEMMA BumpCounts ==
  ASSUME NEW m \in Count, NEW k \in Keys
  PROVE  /\ Bump(m, k) \in Count
         /\ Counted(Bump(m, k)) = Counted(m) \union {Slot(Counted(m), k)}
         /\ Clean(m) => Clean(Bump(m, k))
<1> DEFINE slot == Slot(Counted(m), k)
<1>1. Counted(m) \in SUBSET Keys
  BY DEF Counted
<1>2. slot \in Keys /\ Equivalent(slot, k)
      /\ (slot \in Counted(m) \/ (slot = k /\ \A l \in Counted(m) : ~Equivalent(l, k)))
  BY <1>1, SlotFound
<1>3. Bump(m, k) = [m EXCEPT ![slot] = @ + 1]
  BY DEF Bump
<1> HIDE DEF slot
<1>4. Bump(m, k) \in Count
  BY <1>2, <1>3 DEF Count
<1>5. Counted(Bump(m, k)) = Counted(m) \union {slot}
  BY <1>2, <1>3 DEF Count, Counted
<1>6. Clean(m) => Clean(Bump(m, k))
  BY <1>2, <1>5 DEF Clean, Equivalent
<1> QED BY <1>4, <1>5, <1>6 DEF slot

\* One more event in a map of queues: it goes to the entry found for the key.
LEMMA PushQueues ==
  ASSUME NEW m \in Queue, NEW k \in Keys, NEW e \in Event
  PROVE  /\ Push(m, k, e) \in Queue
         /\ \A l \in Keys : ToSet(Push(m, k, e)[l]) =
              IF l = Slot(Queued(m), k) THEN ToSet(m[l]) \union {e} ELSE ToSet(m[l])
         /\ Queued(Push(m, k, e)) = Queued(m) \union {Slot(Queued(m), k)}
<1> DEFINE slot == Slot(Queued(m), k)
<1>1. Queued(m) \in SUBSET Keys
  BY DEF Queued
<1>2. slot \in Keys
  BY <1>1, SlotFound
<1>3. Push(m, k, e) = [m EXCEPT ![slot] = Append(@, e)]
  BY DEF Push
<1> HIDE DEF slot
<1>4. m[slot] \in Seq(Event) /\ Append(m[slot], e) \in Seq(Event) /\ Append(m[slot], e) # <<>>
  <2>1. m[slot] \in Seq(Event)
    BY <1>2 DEF Queue
  <2> QED BY <2>1, AppendProperties
<1>5. Push(m, k, e) \in Queue
  BY <1>2, <1>3, <1>4 DEF Queue
<1>6. \A l \in Keys : Push(m, k, e)[l] = IF l = slot THEN Append(m[slot], e) ELSE m[l]
  BY <1>2, <1>3 DEF Queue
<1>7. ToSet(Append(m[slot], e)) = ToSet(m[slot]) \union {e}
  BY <1>4, SetOfSequence
<1>8. Queued(Push(m, k, e)) = Queued(m) \union {slot}
  BY <1>2, <1>4, <1>6 DEF Queued
<1> QED BY <1>5, <1>6, <1>7, <1>8 DEF slot

-----------------------------------------------------------------------------
(* Task descriptors                                                        *)

\* An arriving event is added to the arrived events of a task and to nothing
\* else.
LEMMA ArriveKeeps ==
  ASSUME NEW task \in Task, NEW k \in Keys, NEW e \in Event
  PROVE  /\ Arrive(task, k, e) \in Task
         /\ Arrive(task, k, e) = [task EXCEPT !.arrived = Arrive(task, k, e).arrived,
                                              !.numArrivedEvents = task.numArrivedEvents + 1]
         /\ ArrivedEvents(Arrive(task, k, e)) = ArrivedEvents(task) \union {e}
<1>1. task.arrived \in Queue
  BY DEF Task
<1>2. /\ Push(task.arrived, k, e) \in Queue
      /\ \A l \in Keys : ToSet(Push(task.arrived, k, e)[l]) =
           IF l = Slot(Queued(task.arrived), k) THEN ToSet(task.arrived[l]) \union {e}
                                                ELSE ToSet(task.arrived[l])
  <2> DEFINE m == task.arrived
  <2>1. m \in Queue
    BY <1>1
  <2> HIDE DEF m
  <2>2. /\ Push(m, k, e) \in Queue
        /\ \A l \in Keys : ToSet(Push(m, k, e)[l]) =
             IF l = Slot(Queued(m), k) THEN ToSet(m[l]) \union {e} ELSE ToSet(m[l])
    BY <2>1, PushQueues, ZenonT(60)
  <2> QED BY <2>2 DEF m
<1>3. Slot(Queued(task.arrived), k) \in Keys
  <2>1. Queued(task.arrived) \in SUBSET Keys
    BY DEF Queued
  <2> QED BY <2>1, SlotFound
<1>4. Arrive(task, k, e) = [task EXCEPT !.arrived = Push(task.arrived, k, e),
                                       !.numArrivedEvents = task.numArrivedEvents + 1]
  BY DEF Arrive
<1>5. /\ Arrive(task, k, e) \in Task
      /\ Arrive(task, k, e).arrived = Push(task.arrived, k, e)
  <2>1. Push(task.arrived, k, e) \in Queue
    BY <1>2
  <2>2. task.numArrivedEvents + 1 \in Nat
    BY DEF Task
  <2> QED BY <2>1, <2>2, <1>4 DEF Task
<1>6. ArrivedEvents(Arrive(task, k, e)) = ArrivedEvents(task) \union {e}
  <2>1. \A x : x \in ArrivedEvents(task) <=> \E l \in Keys : x \in ToSet(task.arrived[l])
    BY DEF ArrivedEvents
  <2>2. \A x : x \in ArrivedEvents(Arrive(task, k, e)) <=>
               \E l \in Keys : x \in ToSet(Push(task.arrived, k, e)[l])
    BY <1>5 DEF ArrivedEvents
  <2>3. \A x : (\E l \in Keys : x \in ToSet(Push(task.arrived, k, e)[l])) <=>
               (\E l \in Keys : x \in ToSet(task.arrived[l])) \/ x = e
    BY <1>2, <1>3
  <2> QED BY <2>1, <2>2, <2>3
<1> QED BY <1>4, <1>5, <1>6

CleanTask == {task \in Task : Clean(task.outstanding) /\ Clean(task.original)}

\* An event that satisfies a dependency leaves a task with no new dependency
\* and one more event.
LEMMA SatisfyKeeps ==
  ASSUME NEW task \in CleanTask, NEW k \in Keys, NEW e \in Event, Depends(task.outstanding, k)
  PROVE  /\ Satisfy(task, k, e) \in CleanTask
         /\ Counted(Satisfy(task, k, e).outstanding) \subseteq Counted(task.outstanding)
         /\ ArrivedEvents(Satisfy(task, k, e)) = ArrivedEvents(task) \union {e}
         /\ Satisfy(task, k, e).id = task.id
         /\ Satisfy(task, k, e).persistent = task.persistent
         /\ Satisfy(task, k, e).greedy = task.greedy
<1> DEFINE slot == Slot(Counted(task.outstanding), k)
           less == [task EXCEPT !.outstanding[slot] = @ - 1]
<1>1. task \in Task /\ task.outstanding \in Count /\ task.original \in Count
  BY DEF CleanTask, Task
<1>2. slot \in Counted(task.outstanding)
  <2>1. Counted(task.outstanding) \in SUBSET Keys
    BY DEF Counted
  <2> QED BY <2>1, SlotFound DEF Depends
<1>3. slot \in Keys /\ task.outstanding[slot] \in Nat /\ task.outstanding[slot] # 0
  BY <1>1, <1>2 DEF Counted, Count
<1>4. Satisfy(task, k, e) = Arrive(less, k, e)
  BY DEF Satisfy
<1> HIDE DEF slot
<1>5. /\ less = [task EXCEPT !.outstanding = less.outstanding]
      /\ less.outstanding = [task.outstanding EXCEPT ![slot] = @ - 1]
  BY <1>1 DEF Task
<1>6. less.outstanding \in Count /\ Counted(less.outstanding) \subseteq Counted(task.outstanding)
  BY <1>1, <1>3, <1>5 DEF Count, Counted
<1> HIDE DEF less
<1>7. /\ less \in Task /\ less.original = task.original /\ less.arrived = task.arrived
      /\ less.id = task.id /\ less.persistent = task.persistent /\ less.greedy = task.greedy
  BY <1>1, <1>5, <1>6 DEF Task
<1>8. /\ Arrive(less, k, e) \in Task
      /\ Arrive(less, k, e) = [less EXCEPT !.arrived = Arrive(less, k, e).arrived,
                                           !.numArrivedEvents = less.numArrivedEvents + 1]
      /\ ArrivedEvents(Arrive(less, k, e)) = ArrivedEvents(less) \union {e}
  BY <1>7, ArriveKeeps
<1>9. /\ Arrive(less, k, e).outstanding = less.outstanding
      /\ Arrive(less, k, e).original = less.original
      /\ Arrive(less, k, e).id = less.id
      /\ Arrive(less, k, e).persistent = less.persistent
      /\ Arrive(less, k, e).greedy = less.greedy
  BY <1>7, <1>8 DEF Task
<1>10. ArrivedEvents(less) = ArrivedEvents(task)
  BY <1>7 DEF ArrivedEvents
<1>11. Clean(less.outstanding) /\ Clean(less.original)
  BY <1>6, <1>7 DEF CleanTask, Clean
<1> QED BY <1>4, <1>6, <1>7, <1>8, <1>9, <1>10, <1>11 DEF CleanTask

\* A persistent task that is armed again has no events.
LEMMA RearmKeeps ==
  ASSUME NEW task \in CleanTask
  PROVE  /\ Rearm(task) \in CleanTask
         /\ ArrivedEvents(Rearm(task)) = {}
         /\ Rearm(task).persistent = task.persistent
         /\ Rearm(task).greedy = task.greedy
<1>1. task \in Task /\ Clean(task.original)
  BY DEF CleanTask
<1>2. NoQueue \in Queue
  BY DEF NoQueue, Queue
<1>3. /\ Rearm(task) \in Task /\ Rearm(task).outstanding = task.original
      /\ Rearm(task).original = task.original /\ Rearm(task).arrived = NoQueue
      /\ Rearm(task).persistent = task.persistent /\ Rearm(task).greedy = task.greedy
  BY <1>1, <1>2 DEF Rearm, Task
<1>4. ArrivedEvents(Rearm(task)) = {}
  BY <1>3 DEF ArrivedEvents, NoQueue, ToSet
<1> QED BY <1>1, <1>3, <1>4 DEF CleanTask

\* A new task has no events and no dependencies yet.
LEMMA NewTaskClean ==
  ASSUME calls \in Nat, NEW s \in Submission
  PROVE  /\ NewTask(s) \in CleanTask
         /\ ArrivedEvents(NewTask(s)) = {}
         /\ Counted(NewTask(s).outstanding) = {}
         /\ NewTask(s).id = calls
         /\ NewTask(s).persistent = s.persistent /\ NewTask(s).greedy = s.greedy
<1>1. NoQueue \in Queue /\ NoCount \in Count
  BY DEF NoQueue, Queue, NoCount, Count
<1>2. /\ NewTask(s) \in Task /\ NewTask(s).outstanding = NoCount
      /\ NewTask(s).original = NoCount /\ NewTask(s).arrived = NoQueue /\ NewTask(s).id = calls
      /\ NewTask(s).persistent = s.persistent /\ NewTask(s).greedy = s.greedy
  BY <1>1 DEF NewTask, Task, Submission
<1>3. Counted(NoCount) = {}
  BY DEF Counted, NoCount
<1>4. ArrivedEvents(NewTask(s)) = {}
  BY <1>2 DEF ArrivedEvents, NoQueue, ToSet
<1> QED BY <1>2, <1>3, <1>4 DEF CleanTask, Clean

-----------------------------------------------------------------------------
(* The store                                                               *)

\* The events of a queue have its key; there are no queues for wildcards.
StoreOK ==
  /\ outstandingEvents \in Queue
  /\ \A k \in Keys : \A e \in ToSet(outstandingEvents[k]) : e.key = k

\* The store has entries for the keys of events only, never for EDAT_ANY.
LEMMA StoredKeys ==
  ASSUME StoreOK
  PROVE  Queued(outstandingEvents) \subseteq EventKeys
<1> SUFFICES ASSUME NEW k \in Keys, outstandingEvents[k] # <<>>
             PROVE  k \in EventKeys
  BY DEF Queued
<1>1. outstandingEvents[k] \in Seq(Event)
  BY DEF StoreOK, Queue
<1>2. PICK e \in ToSet(outstandingEvents[k]) : e \in Event
  BY <1>1, SetOfSequence
<1> QED BY <1>2 DEF StoreOK, Event

\* An event is found for a key exactly if one is stored that matches it.
LEMMA FoundIff ==
  ASSUME NEW m, NEW k \in Keys
  PROVE  /\ m[Slot(Queued(m), k)] # <<>> <=> \E l \in Queued(m) : Equivalent(l, k)
         /\ m[Slot(Queued(m), k)] # <<>> =>
              Slot(Queued(m), k) \in Queued(m) /\ Equivalent(Slot(Queued(m), k), k)
<1> DEFINE slot == Slot(Queued(m), k)
<1>1. Queued(m) \in SUBSET Keys
  BY DEF Queued
<1>2. /\ slot \in Keys /\ Equivalent(slot, k)
      /\ \/ slot \in Queued(m)
         \/ slot = k /\ \A l \in Queued(m) : ~Equivalent(l, k)
  BY <1>1, SlotFound
<1>3. m[slot] # <<>> <=> slot \in Queued(m)
  BY <1>2 DEF Queued
<1> QED BY <1>2, <1>3

\* A key finds something in the store if an entry compares equal to it.
LEMMA StoredIff ==
  ASSUME NEW k \in Keys
  PROVE  /\ IsStored(k) <=> \E l \in Queued(outstandingEvents) : Equivalent(l, k)
         /\ IsStored(k) => Store(k) \in Queued(outstandingEvents) /\ Equivalent(Store(k), k)
  BY FoundIff DEF IsStored, Store

\* The same after a step.
LEMMA StoredIffThen ==
  ASSUME NEW k \in Keys
  PROVE  IsStored(k)' <=> \E l \in Queued(outstandingEvents') : Equivalent(l, k)
  BY FoundIff DEF IsStored, Store, Queued

\* An event is put into the queue of its own key.
LEMMA StorePush ==
  ASSUME StoreOK, NEW e \in Event, outstandingEvents' = Push(outstandingEvents, e.key, e)
  PROVE  /\ StoreOK'
         /\ Slot(Queued(outstandingEvents), e.key) = e.key
         /\ Queued(outstandingEvents') = Queued(outstandingEvents) \union {e.key}
         /\ outstandingEvents' = [outstandingEvents EXCEPT ![e.key] = Append(@, e)]
<1>1. e.key \in EventKeys /\ e.key \in Keys
  BY KeysInt DEF Event
<1>2. Queued(outstandingEvents) \in SUBSET Keys /\ Queued(outstandingEvents) \subseteq EventKeys
  BY StoredKeys DEF Queued
<1>3. Slot(Queued(outstandingEvents), e.key) = e.key
  BY <1>1, <1>2, SlotFound, Concrete
<1>4. outstandingEvents \in Queue
  BY DEF StoreOK
<1>5. /\ outstandingEvents' \in Queue
      /\ \A l \in Keys : ToSet(outstandingEvents'[l]) =
           IF l = e.key THEN ToSet(outstandingEvents[l]) \union {e} ELSE ToSet(outstandingEvents[l])
      /\ Queued(outstandingEvents') = Queued(outstandingEvents) \union {e.key}
  <2> DEFINE q == Push(outstandingEvents, e.key, e)
  <2>1. /\ q \in Queue
        /\ \A l \in Keys : ToSet(q[l]) =
             IF l = Slot(Queued(outstandingEvents), e.key) THEN ToSet(outstandingEvents[l]) \union {e}
                                                           ELSE ToSet(outstandingEvents[l])
        /\ Queued(q) = Queued(outstandingEvents) \union {Slot(Queued(outstandingEvents), e.key)}
    BY <1>1, <1>4, PushQueues
  <2> HIDE DEF q
  <2>2. q = outstandingEvents'
    BY DEF q
  <2> QED BY <2>1, <2>2, <1>3
<1>6. StoreOK'
  BY <1>5 DEF StoreOK
<1> QED BY <1>3, <1>5, <1>6 DEF Push

\* Taking an event removes the first of the queue that is
\* found, unless it is persistent.
LEMMA StoreTake ==
  ASSUME StoreOK, outstandingEventsToHandle \in Int, NEW k \in Keys, IsStored(k), TakeFirst(k)
  PROVE  /\ StoreOK'
         /\ outstandingEventsToHandle' \in Int
         /\ First(k) \in Event /\ First(k) \in ToSet(outstandingEvents[Store(k)])
         /\ Equivalent(First(k).key, k) /\ First(k).key = Store(k)
         /\ First(k).persistent => UNCHANGED <<outstandingEvents, outstandingEventsToHandle>>
         /\ ~First(k).persistent =>
              /\ outstandingEvents' = [outstandingEvents EXCEPT ![Store(k)] = Tail(@)]
              /\ outstandingEventsToHandle' = outstandingEventsToHandle - 1
         /\ \A l \in Keys : l # Store(k) => outstandingEvents'[l] = outstandingEvents[l]
         /\ Queued(outstandingEvents') \subseteq Queued(outstandingEvents)
<1>1. Store(k) \in Queued(outstandingEvents) /\ Equivalent(Store(k), k)
  BY StoredIff
<1> DEFINE l == Store(k)  q == outstandingEvents[l]
<1>2. l \in Keys /\ q \in Seq(Event) /\ q # <<>>
  BY <1>1 DEF Queued, StoreOK, Queue
<1> HIDE DEF l
<1>3. First(k) = q[1]
  BY DEF First, l
<1>4. First(k) \in Event /\ First(k) \in ToSet(q)
  BY <1>2, <1>3, SetOfSequence
<1>5. First(k).key = l
  BY <1>2, <1>4 DEF StoreOK
<1>6. First(k).persistent => UNCHANGED <<outstandingEvents, outstandingEventsToHandle>>
  BY DEF TakeFirst
<1>7. ~First(k).persistent =>
         /\ outstandingEvents' = [outstandingEvents EXCEPT ![l] = Tail(@)]
         /\ outstandingEventsToHandle' = outstandingEventsToHandle - 1
  BY DEF TakeFirst, l
<1>8. Tail(q) \in Seq(Event) /\ ToSet(Tail(q)) \subseteq ToSet(q)
  <2>1. /\ Tail(q) \in Seq(Event) /\ Len(Tail(q)) = Len(q) - 1
        /\ \A i \in 1 .. Len(Tail(q)) : Tail(q)[i] = q[i + 1]
    BY <1>2, HeadTailProperties
  <2>2. \A i \in 1 .. Len(Tail(q)) : i + 1 \in 1 .. Len(q)
    BY <1>2, <2>1
  <2>3. \A x \in ToSet(Tail(q)) : x \in ToSet(q)
    <3> TAKE x \in ToSet(Tail(q))
    <3>1. PICK i \in 1 .. Len(Tail(q)) : x = Tail(q)[i]
      BY <2>1, SetOfSequence
    <3>2. x = q[i + 1]
      BY <2>1, <3>1
    <3> QED BY <1>2, <2>2, <3>2, SetOfSequence
  <2> QED BY <2>1, <2>3
<1>9. outstandingEvents \in [Keys -> Seq(Event)]
  BY DEF StoreOK, Queue
<1>10. /\ outstandingEvents' \in Queue
       /\ \A j \in Keys : j # l => outstandingEvents'[j] = outstandingEvents[j]
       /\ outstandingEvents'[l] = q \/ outstandingEvents'[l] = Tail(q)
  <2>1. CASE First(k).persistent
    BY <2>1, <1>6, <1>9 DEF Queue
  <2>2. CASE ~First(k).persistent
    BY <2>2, <1>2, <1>7, <1>8, <1>9 DEF Queue
  <2> QED BY <2>1, <2>2
<1>11. \A j \in Keys : ToSet(outstandingEvents'[j]) \subseteq ToSet(outstandingEvents[j])
  BY <1>8, <1>10
<1>12. StoreOK'
  BY <1>10, <1>11 DEF StoreOK
<1>13. Queued(outstandingEvents') \subseteq Queued(outstandingEvents)
  <2> SUFFICES ASSUME NEW j \in Keys, outstandingEvents[j] = <<>>
               PROVE  outstandingEvents'[j] = <<>>
    BY DEF Queued
  <2> QED BY <1>2, <1>10
<1>14. outstandingEventsToHandle' \in Int
  BY <1>6, <1>7
<1> QED BY <1>1, <1>4, <1>5, <1>6, <1>7, <1>10, <1>12, <1>13, <1>14 DEF l

-----------------------------------------------------------------------------
(* The stacks of the threads                                               *)

\* The frames that may lie below another one.
Resting ==
  [op : {"start"}, task : Task] \union {ConsumeFrame} \union [op : {"event"}, event : Event]

Lonely == {"gather", "batch", "retrieve", "paused", "resumed"}

StackOK(s) ==
  /\ s \in Seq(Frame)
  /\ \A i \in 2 .. Len(s) : s[i] \in Resting
  /\ s # <<>> /\ Head(s).op \in Lonely => Len(s) = 1
  /\ s # <<>> /\ Head(s).op = "gather" => Head(s).task \in CleanTask

\* What the frames of each kind hold.
LEMMA FrameKinds ==
  /\ \A f \in Frame :
       /\ f.op = "gather" => f \in [op : {"gather"}, call : {"register", "wait"}, task : Task,
                                    next : Nat, found : BOOLEAN]
       /\ f.op \in {"start", "resume", "resumed"} =>
            f \in [op : {"start", "resume", "resumed"}, task : Task]
       /\ f.op = "consume" =>
            f \in [op : {"consume"}, at : Nat, keys : SUBSET Keys, progress : BOOLEAN]
       /\ f.op = "event" => f \in [op : {"event"}, event : Event]
       /\ f.op = "batch" =>
            f \in [op : {"batch"}, events : Seq(Event), at : Nat, keys : SUBSET Keys,
                   run : Seq(Task)]
       /\ f.op = "retrieve" => f \in [op : {"retrieve"}, order : Seq(Keys)]
  /\ Resting \subseteq Frame
  /\ \A f \in Resting : f.op \notin Lonely
  /\ \A f \in Resting : f.op = "consume" => f.at = 0
<1>1. Resting \subseteq Frame
  <2>1. [op : {"start"}, task : Task] \subseteq Frame
    BY DEF Frame
  <2>2. ConsumeFrame \in Frame
    BY DEF Frame, ConsumeFrame
  <2>3. [op : {"event"}, event : Event] \subseteq Frame
    BY DEF Frame
  <2> QED BY <2>1, <2>2, <2>3 DEF Resting
<1>2. /\ \A f \in Resting : f.op \notin Lonely
      /\ \A f \in Resting : f.op = "consume" => f.at = 0
  BY DEF Resting, ConsumeFrame, Lonely
<1>3. \A f \in Frame :
       /\ f.op = "gather" => f \in [op : {"gather"}, call : {"register", "wait"}, task : Task,
                                    next : Nat, found : BOOLEAN]
       /\ f.op \in {"start", "resume", "resumed"} =>
            f \in [op : {"start", "resume", "resumed"}, task : Task]
       /\ f.op = "consume" =>
            f \in [op : {"consume"}, at : Nat, keys : SUBSET Keys, progress : BOOLEAN]
       /\ f.op = "event" => f \in [op : {"event"}, event : Event]
       /\ f.op = "batch" =>
            f \in [op : {"batch"}, events : Seq(Event), at : Nat, keys : SUBSET Keys,
                   run : Seq(Task)]
       /\ f.op = "retrieve" => f \in [op : {"retrieve"}, order : Seq(Keys)]
  BY DEF Frame
<1> QED BY <1>1, <1>2, <1>3

\* What replaces the innermost frame of a thread.
Follows(s, fs) ==
  /\ fs \in Seq(Frame)
  /\ \A i \in 2 .. Len(fs) : fs[i] \in Resting
  /\ fs # <<>> /\ Head(fs).op \in Lonely => Len(fs) = 1 /\ Head(s).op \in Lonely
  /\ fs # <<>> /\ Head(fs).op = "gather" => Head(fs).task \in CleanTask

\* A stack whose first frame is replaced stays a stack.
LEMMA StackReplaced ==
  ASSUME NEW s, StackOK(s), s # <<>>, NEW fs, Follows(s, fs)
  PROVE  /\ StackOK(fs \o Tail(s))
         /\ fs = <<>> => fs \o Tail(s) = Tail(s)
         /\ fs = <<>> /\ Tail(s) # <<>> => Head(Tail(s)) \in Resting
         /\ fs # <<>> => fs \o Tail(s) # <<>> /\ Head(fs \o Tail(s)) = Head(fs)
<1> DEFINE r == Tail(s)
<1>1. s \in Seq(Frame) /\ fs \in Seq(Frame)
  BY DEF StackOK, Follows
<1>2. /\ r \in Seq(Frame) /\ Len(r) = Len(s) - 1
      /\ \A i \in 1 .. Len(r) : r[i] = s[i + 1]
  BY <1>1, HeadTailProperties
<1>3. \A i \in 1 .. Len(r) : r[i] \in Resting
  <2> TAKE i \in 1 .. Len(r)
  <2>1. i + 1 \in 2 .. Len(s) /\ r[i] = s[i + 1]
    BY <1>1, <1>2
  <2> QED BY <2>1 DEF StackOK
<1> HIDE DEF r
<1>4. /\ fs \o r \in Seq(Frame)
      /\ Len(fs \o r) = Len(fs) + Len(r)
      /\ \A i \in 1 .. Len(fs) + Len(r) :
            (fs \o r)[i] = IF i <= Len(fs) THEN fs[i] ELSE r[i - Len(fs)]
  BY <1>1, <1>2, ConcatProperties
<1>5. Len(fs) \in Nat /\ Len(r) \in Nat
  BY <1>1, <1>2
<1>6. CASE fs = <<>>
  <2>1. fs \o r = r
    BY <1>2, <1>6, ConcatEmptySeq
  <2>2. r # <<>> => Head(r) \in Resting
    BY <1>2, <1>3, HeadTailProperties
  <2>3. r # <<>> => Head(r).op \notin Lonely
    BY <2>2, FrameKinds
  <2>4. StackOK(r)
    <3>1. \A i \in 2 .. Len(r) : r[i] \in Resting
      BY <1>3
    <3> QED BY <1>2, <2>3, <3>1 DEF StackOK, Lonely
  <2> QED BY <1>6, <2>1, <2>2, <2>4 DEF r
<1>7. CASE fs # <<>>
  <2>1. Len(fs) >= 1 /\ Head(fs) = fs[1]
    BY <1>1, <1>7
  <2>2. fs \o r # <<>> /\ Head(fs \o r) = Head(fs)
    <3>1. Len(fs \o r) >= 1 /\ (fs \o r)[1] = fs[1]
      BY <1>4, <1>5, <2>1
    <3> QED BY <1>4, <2>1, <3>1
  <2>3. \A i \in 2 .. Len(fs \o r) : (fs \o r)[i] \in Resting
    <3> TAKE i \in 2 .. Len(fs \o r)
    <3>1. CASE i <= Len(fs)
      <4>1. i \in 2 .. Len(fs) /\ i \in 1 .. Len(fs) + Len(r)
        BY <1>4, <1>5, <3>1
      <4> QED BY <1>4, <3>1, <4>1 DEF Follows
    <3>2. CASE ~(i <= Len(fs))
      <4>1. i \in 1 .. Len(fs) + Len(r) /\ i - Len(fs) \in 1 .. Len(r)
        BY <1>4, <1>5, <3>2
      <4> QED BY <1>3, <1>4, <3>2, <4>1
    <3> QED BY <3>1, <3>2
  <2>4. Head(fs \o r).op \in Lonely => Len(fs \o r) = 1
    <3> SUFFICES ASSUME Head(fs).op \in Lonely PROVE Len(fs \o r) = 1
      BY <2>2
    <3>1. Len(fs) = 1 /\ Len(s) = 1
      BY <1>7 DEF Follows, StackOK
    <3> QED BY <1>2, <1>4, <3>1
  <2>5. Head(fs \o r).op = "gather" => Head(fs \o r).task \in CleanTask
    BY <1>7, <2>2 DEF Follows
  <2>6. StackOK(fs \o r)
    BY <1>4, <2>3, <2>4, <2>5 DEF StackOK
  <2> QED BY <1>7, <2>2, <2>6 DEF r
<1> QED BY <1>6, <1>7

Stacks ==
  /\ todo \in [Threads -> Seq(Frame)]
  /\ \A t \in Threads : StackOK(todo[t])

\* A thread that replaces its first frame leaves the other threads alone.
LEMMA FrameReplaced ==
  ASSUME Stacks, NEW t \in Threads, todo[t] # <<>>, NEW fs, Follows(todo[t], fs), Replace(t, fs)
  PROVE  /\ Stacks'
         /\ todo'[t] = fs \o Tail(todo[t])
         /\ \A u \in Threads \ {t} : todo'[u] = todo[u]
         /\ fs = <<>> /\ todo'[t] # <<>> => Top(t)' \in Resting
         /\ fs # <<>> => todo'[t] # <<>> /\ Top(t)' = Head(fs)
<1> DEFINE s == todo[t]
<1>1. StackOK(s) /\ todo \in [Threads -> Seq(Frame)]
  BY DEF Stacks
<1>2. todo' = [todo EXCEPT ![t] = fs \o Tail(s)]
  BY DEF Replace
<1>3. /\ StackOK(fs \o Tail(s))
      /\ fs = <<>> => fs \o Tail(s) = Tail(s)
      /\ fs = <<>> /\ Tail(s) # <<>> => Head(Tail(s)) \in Resting
      /\ fs # <<>> => fs \o Tail(s) # <<>> /\ Head(fs \o Tail(s)) = Head(fs)
  <2> HIDE DEF s
  <2> QED BY <1>1, StackReplaced DEF s
<1>4. fs \o Tail(s) \in Seq(Frame)
  BY <1>3 DEF StackOK
<1>5. /\ todo' \in [Threads -> Seq(Frame)]
      /\ todo'[t] = fs \o Tail(s)
      /\ \A u \in Threads \ {t} : todo'[u] = todo[u]
  BY <1>1, <1>2, <1>4
<1>6. Stacks'
  BY <1>1, <1>3, <1>5 DEF Stacks
<1> QED BY <1>3, <1>5, <1>6 DEF Top

\* One frame takes the place of another one.
LEMMA FrameChanged ==
  ASSUME Stacks, NEW t \in Threads, todo[t] # <<>>, NEW f \in Frame, Replace(t, <<f>>),
         f.op \in Lonely => Top(t).op \in Lonely,
         f.op = "gather" => f.task \in CleanTask
  PROVE  /\ Stacks'
         /\ todo'[t] = <<f>> \o Tail(todo[t])
         /\ \A u \in Threads \ {t} : todo'[u] = todo[u]
         /\ todo'[t] # <<>> /\ Top(t)' = f
<1>1. Follows(todo[t], <<f>>)
  BY DEF Follows, Top
<1>2. <<f>> # <<>> /\ Head(<<f>>) = f
  OBVIOUS
<1> QED BY <1>1, <1>2, FrameReplaced

\* A thread that is done with its first frame goes on with one outside of the
\* mutex.
LEMMA FrameReturned ==
  ASSUME Stacks, NEW t \in Threads, todo[t] # <<>>, Return(t)
  PROVE  /\ Stacks'
         /\ \A u \in Threads \ {t} : todo'[u] = todo[u]
         /\ todo'[t] = Tail(todo[t])
         /\ todo'[t] # <<>> => Top(t)' \in Resting
<1>1. Follows(todo[t], <<>>)
  BY DEF Follows
<1>2. todo[t] \in Seq(Frame) /\ Tail(todo[t]) \in Seq(Frame)
  BY DEF Stacks
<1>3. <<>> \o Tail(todo[t]) = Tail(todo[t])
  BY <1>2, ConcatEmptySeq
<1> QED BY <1>1, <1>3, FrameReplaced DEF Return

\* A call begins.
LEMMA FrameEntered ==
  ASSUME Stacks, NEW t \in Threads, NEW f \in Frame, todo' = [todo EXCEPT ![t] = <<f>>],
         f.op = "gather" => f.task \in CleanTask
  PROVE  /\ Stacks'
         /\ \A u \in Threads \ {t} : todo'[u] = todo[u]
         /\ todo'[t] = <<f>> /\ todo'[t] # <<>> /\ Top(t)' = f
<1>1. StackOK(<<f>>)
  BY DEF StackOK
<1>2. todo' \in [Threads -> Seq(Frame)] /\ todo'[t] = <<f>>
      /\ \A u \in Threads \ {t} : todo'[u] = todo[u]
  BY DEF Stacks
<1>3. Head(<<f>>) = f /\ <<f>> # <<>>
  OBVIOUS
<1> QED BY <1>1, <1>2, <1>3 DEF Stacks, Top

-----------------------------------------------------------------------------
(* The mutex                                                               *)

\* What a pass over the persistent tasks still looks at is there to be taken.
Takes(t) ==
  Top(t).at \in DOMAIN registeredTasks =>
    Top(t).keys \subseteq {k \in Counted(registeredTasks[Top(t).at].outstanding) : IsStored(k)}

\* A thread in the middle of one of these calls has the mutex.
Critical(t) ==
  todo[t] # <<>> =>
    /\ Top(t).op \in {"gather", "batch", "retrieve"} => Holds(t)
    /\ Top(t).op = "consume" /\ Top(t).at # 0 => Holds(t) /\ Takes(t)

AllCritical == \A t \in Threads : Critical(t)

\* A thread outside of the mutex has no duties of a critical section.
LEMMA RestingCritical ==
  ASSUME NEW t \in Threads, todo[t] # <<>> => Top(t) \in Resting
  PROVE  Critical(t)
  BY FrameKinds DEF Critical, Lonely

\* What one thread does in its critical section breaks no other thread's.
LEMMA OthersCritical ==
  ASSUME AllCritical, NEW t \in Threads, \A u \in Threads \ {t} : todo'[u] = todo[u],
         \/ Free
         \/ Holds(t)
         \/ UNCHANGED <<taskAndEvent_mutex, registeredTasks, outstandingEvents>>,
         Critical(t)'
  PROVE  AllCritical'
<1> SUFFICES ASSUME NEW u \in Threads, u # t PROVE Critical(u)'
  BY DEF AllCritical
<1>1. Critical(u) /\ todo'[u] = todo[u] /\ Top(u)' = Top(u)
  BY DEF AllCritical, Top
<1>2. CASE Free \/ Holds(t)
  <2>1. ~Holds(u)
    BY <1>2, ThreadsAssumption DEF Free, Holds
  <2> QED BY <1>1, <2>1 DEF Critical
<1>3. CASE UNCHANGED <<taskAndEvent_mutex, registeredTasks, outstandingEvents>>
  BY <1>1, <1>3 DEF Critical, Takes, Holds, IsStored, Store, Queued
<1> QED BY <1>2, <1>3

-----------------------------------------------------------------------------
(* The inductive invariant of the types.  outstandingEventsToHandle is     *)
(* never negative because it counts events: see SchedulerConservation.     *)

TaskLists ==
  registeredTasks \in Seq(CleanTask) /\ pausedTasks \in Seq(CleanTask) /\ ready \in Seq(Task)

Plain ==
  /\ program \in DOMAIN Programs
  /\ outstandingEventsToHandle \in Int
  /\ taskAndEvent_mutex \in Threads \union {NoThread}
  /\ aborted \in BOOLEAN
  /\ fired \in SUBSET Event /\ IsFiniteSet(fired)
  /\ delivered \in SUBSET Event /\ removed \in SUBSET Event
  /\ calls \in Nat /\ queries \in Nat

Sound == Plain /\ TaskLists /\ StoreOK /\ Stacks /\ AllCritical

\* The program that is followed is one of the programs.
LEMMA MenuTypes ==
  ASSUME program \in DOMAIN Programs
  PROVE  Menu \in Program
  BY ProgramsAssumption DEF Menu

\* What a thread does first is a frame, and its task is clean while it gathers.
LEMMA TopTypes ==
  ASSUME Stacks, NEW t \in Threads, todo[t] # <<>>
  PROVE  /\ Top(t) \in Frame
         /\ Top(t).op = "gather" => Top(t).task \in CleanTask
         /\ StackOK(todo[t])
         /\ Top(t).op \in Lonely => Len(todo[t]) = 1 /\ Tail(todo[t]) = <<>>
<1>1. StackOK(todo[t]) /\ todo[t] \in Seq(Frame)
  BY DEF Stacks
<1>2. Top(t) \in Frame
  BY <1>1 DEF Top
<1>3. Top(t).op \in Lonely => Len(todo[t]) = 1 /\ Tail(todo[t]) = <<>>
  BY <1>1 DEF StackOK, Top
<1> QED BY <1>1, <1>2, <1>3 DEF StackOK, Top

\* Clean tasks are tasks.
LEMMA TaskListTypes ==
  /\ CleanTask \subseteq Task
  /\ Seq(CleanTask) \subseteq Seq(Task)
  BY DEF CleanTask

\* What has arrived at a task are events.
LEMMA ArrivedTypes ==
  ASSUME NEW task \in Task
  PROVE  ArrivedEvents(task) \subseteq Event
<1> SUFFICES ASSUME NEW k \in Keys PROVE ToSet(task.arrived[k]) \subseteq Event
  BY DEF ArrivedEvents
<1>1. task.arrived[k] \in Seq(Event)
  BY DEF Task, Queue
<1> QED BY <1>1, SetOfSequence

-----------------------------------------------------------------------------
(* registerTask and pauseTask                                              *)

\* updateOutstandingEvents begins to gather for a new task: the state stays
\* sound.
LEMMA GatherSound ==
  ASSUME Sound, NEW t \in Threads, NEW call \in {"register", "wait"}, NEW s \in Submission,
         Gather(t, call, s)
  PROVE  Sound'
<1> DEFINE f == [op |-> "gather", call |-> call, task |-> NewTask(s), next |-> 1, found |-> FALSE]
<1> USE DEF Sound
<1>1. NewTask(s) \in CleanTask
  BY NewTaskClean DEF Plain
<1>2. f \in Frame /\ f.op = "gather" /\ f.task = NewTask(s)
  BY <1>1 DEF Frame, CleanTask
<1>3. todo' = [todo EXCEPT ![t] = <<f>>] /\ Free /\ taskAndEvent_mutex' = t
  BY DEF Gather, Lock
<1> HIDE DEF f
<1>4. /\ Stacks' /\ \A u \in Threads \ {t} : todo'[u] = todo[u]
      /\ Top(t)' = f
  BY <1>1, <1>2, <1>3, FrameEntered
<1>5. Critical(t)'
  BY <1>2, <1>3, <1>4 DEF Critical, Holds
<1>6. AllCritical'
  BY <1>3, <1>4, <1>5, OthersCritical
<1>7. Plain' /\ TaskLists' /\ StoreOK'
  BY <1>3 DEF Gather, Plain, TaskLists, StoreOK
<1> QED BY <1>4, <1>6, <1>7

\* registerTask takes the mutex: the state stays sound.
LEMMA RegisterTaskSound ==
  ASSUME Sound, NEW t \in Threads, RegisterTask(t)
  PROVE  Sound'
<1>1. Menu \in Program
  BY MenuTypes DEF Sound, Plain
<1>2. PICK s \in Menu.tasks : Gather(t, "register", s)
  BY DEF RegisterTask
<1>3. s \in Submission
  BY <1>1 DEF Program
<1> QED BY <1>2, <1>3, GatherSound

\* pauseTask takes the mutex: the state stays sound.
LEMMA PauseTaskSound ==
  ASSUME Sound, NEW t \in Threads, PauseTask(t)
  PROVE  Sound'
<1>1. Menu \in Program
  BY MenuTypes DEF Sound, Plain
<1> DEFINE s(order) == [order |-> order, persistent |-> FALSE, greedy |-> FALSE, name |-> NoName]
<1>2. PICK order \in Menu.waits : Gather(t, "wait", s(order))
  BY DEF PauseTask
<1>3. order \in Seq(Keys)
  BY <1>1 DEF Program
<1>4. s(order) \in Submission
  BY <1>3 DEF Submission
<1> HIDE DEF s
<1> QED BY <1>2, <1>4, GatherSound

\* The frame of a thread that gathers, and the dependency at hand.
LEMMA GatheringTypes ==
  ASSUME Stacks, NEW t \in Threads, Gathering(t)
  PROVE  /\ todo[t] # <<>> /\ Top(t).op = "gather" /\ Top(t) \in Frame
         /\ Top(t) \in [op : {"gather"}, call : {"register", "wait"}, task : Task,
                        next : Nat, found : BOOLEAN]
         /\ Top(t).task \in CleanTask
         /\ Top(t).task.order[Top(t).next] \in Keys
         /\ Noted(Top(t)) \in CleanTask
         /\ Noted(Top(t)) = [Top(t).task EXCEPT !.original = Noted(Top(t)).original]
         /\ ArrivedEvents(Noted(Top(t))) = ArrivedEvents(Top(t).task)
         /\ Holds(t)
<1> DEFINE f == Top(t)  k == f.task.order[f.next]
<1>1. todo[t] # <<>> /\ f.op = "gather" /\ Holds(t) /\ f.next \in 1 .. Len(f.task.order)
  BY DEF Gathering, At, In
<1>2. f \in Frame /\ f.task \in CleanTask
  BY <1>1, TopTypes
<1>3. f \in [op : {"gather"}, call : {"register", "wait"}, task : Task, next : Nat, found : BOOLEAN]
  BY <1>1, <1>2, FrameKinds
<1>4. f.task \in Task /\ f.task.order \in Seq(Keys)
  BY <1>2 DEF CleanTask, Task
<1>5. k \in Keys
  BY <1>1, <1>4
<1>6. /\ Noted(f) \in CleanTask
      /\ Noted(f) = [f.task EXCEPT !.original = Noted(f).original]
      /\ Noted(f).arrived = f.task.arrived
  <2>1. CASE f.found
    BY <2>1, <1>2, <1>4 DEF Noted, Task
  <2>2. CASE ~f.found
    <3>1. Noted(f) = [f.task EXCEPT !.original = Bump(f.task.original, k)]
      BY <2>2 DEF Noted
    <3>2. f.task.original \in Count /\ Clean(f.task.original) /\ Clean(f.task.outstanding)
      BY <1>2, <1>4 DEF CleanTask, Task
    <3>3. Bump(f.task.original, k) \in Count /\ Clean(Bump(f.task.original, k))
      BY <1>5, <3>2, BumpCounts
    <3> HIDE DEF f, k
    <3>4. /\ Noted(f) \in Task /\ Noted(f).original = Bump(f.task.original, k)
          /\ Noted(f).outstanding = f.task.outstanding
          /\ Noted(f).arrived = f.task.arrived
      BY <1>4, <3>1, <3>3 DEF Task
    <3> QED BY <3>1, <3>2, <3>3, <3>4 DEF CleanTask
  <2> QED BY <2>1, <2>2
<1>7. ArrivedEvents(Noted(f)) = ArrivedEvents(f.task)
  BY <1>6 DEF ArrivedEvents
<1> QED BY <1>1, <1>2, <1>3, <1>5, <1>6, <1>7

\* A dependency that is found in the store: the state stays sound.
LEMMA GatherStoredSound ==
  ASSUME Sound, NEW t \in Threads, GatherStored(t)
  PROVE  Sound'
<1> DEFINE f == Top(t)
           k == f.task.order[f.next]
           g == [f EXCEPT !.task = Arrive(Noted(f), k, First(k)),
                          !.next = IF f.task.greedy THEN @ ELSE @ + 1,
                          !.found = f.task.greedy]
<1> USE DEF Sound
<1>1. Gathering(t) /\ IsStored(k) /\ TakeFirst(k) /\ Replace(t, <<g>>)
  BY DEF GatherStored
<1>2. /\ todo[t] # <<>> /\ f.op = "gather" /\ f \in Frame
      /\ f \in [op : {"gather"}, call : {"register", "wait"}, task : Task,
                next : Nat, found : BOOLEAN]
      /\ f.task \in CleanTask /\ k \in Keys
      /\ Noted(f) \in CleanTask
      /\ Holds(t)
  BY <1>1, GatheringTypes
<1>3. StoreOK' /\ outstandingEventsToHandle' \in Int /\ First(k) \in Event
  <2> HIDE DEF k
  <2> QED BY <1>1, <1>2, StoreTake DEF Plain
<1>4. Arrive(Noted(f), k, First(k)) \in CleanTask
  <2> DEFINE e == First(k)
  <2> HIDE DEF f, k, e
  <2>1. Noted(f) \in Task /\ Clean(Noted(f).outstanding) /\ Clean(Noted(f).original) /\ e \in Event
    BY <1>2, <1>3 DEF CleanTask, e
  <2>2. /\ Arrive(Noted(f), k, e) \in Task
        /\ Arrive(Noted(f), k, e) = [Noted(f) EXCEPT !.arrived = Arrive(Noted(f), k, e).arrived,
                                       !.numArrivedEvents = Noted(f).numArrivedEvents + 1]
    BY <1>2, <2>1, ArriveKeeps
  <2>3. /\ Arrive(Noted(f), k, e).outstanding = Noted(f).outstanding
        /\ Arrive(Noted(f), k, e).original = Noted(f).original
    BY <2>1, <2>2 DEF Task
  <2> QED BY <2>1, <2>2, <2>3 DEF CleanTask, e
<1>5. g \in Frame /\ g.op = "gather" /\ g.task \in CleanTask
  <2> DEFINE a == Arrive(Noted(f), k, First(k))
  <2>1. a \in CleanTask /\ a \in Task /\ f.task.greedy \in BOOLEAN
    BY <1>2, <1>4 DEF CleanTask, Task
  <2> DEFINE n == IF f.task.greedy THEN f.next ELSE f.next + 1
             b == f.task.greedy
  <2>2. g = [f EXCEPT !.task = a, !.next = n, !.found = b]
    OBVIOUS
  <2>3. n \in Nat /\ b \in BOOLEAN
    BY <1>2, <2>1
  <2> HIDE DEF f, k, a, n, b, g
  <2>4. /\ g \in [op : {"gather"}, call : {"register", "wait"}, task : Task, next : Nat, found : BOOLEAN]
        /\ g.task = a
    BY <1>2, <2>1, <2>2, <2>3
  <2> QED BY <2>1, <2>4 DEF Frame
<1> HIDE DEF f, g, k
<1>6. /\ Stacks' /\ \A u \in Threads \ {t} : todo'[u] = todo[u]
      /\ Top(t)' = g
  BY <1>1, <1>2, <1>5, FrameChanged DEF f, Lonely
<1>7. taskAndEvent_mutex' = taskAndEvent_mutex
  BY DEF GatherStored
<1>8. Critical(t)'
  BY <1>2, <1>5, <1>6, <1>7 DEF Critical, Holds
<1>9. AllCritical'
  BY <1>2, <1>6, <1>8, OthersCritical
<1>10. Plain' /\ TaskLists'
  BY <1>3 DEF GatherStored, Plain, TaskLists
<1> QED BY <1>3, <1>6, <1>9, <1>10

\* A dependency that is not found in the store: the state stays sound.
LEMMA GatherMissingSound ==
  ASSUME Sound, NEW t \in Threads, GatherMissing(t)
  PROVE  Sound'
<1> DEFINE f == Top(t)
           k == f.task.order[f.next]
           a == IF f.found THEN f.task ELSE [Noted(f) EXCEPT !.outstanding = Bump(@, k)]
           g == [f EXCEPT !.task = a, !.next = @ + 1, !.found = FALSE]
<1> USE DEF Sound
<1>1. Gathering(t) /\ Replace(t, <<g>>)
  BY DEF GatherMissing
<1>2. /\ todo[t] # <<>> /\ f.op = "gather" /\ f \in Frame
      /\ f \in [op : {"gather"}, call : {"register", "wait"}, task : Task,
                next : Nat, found : BOOLEAN]
      /\ f.task \in CleanTask /\ k \in Keys
      /\ Noted(f) \in CleanTask
      /\ Holds(t)
  BY <1>1, GatheringTypes
<1>3. a \in CleanTask
  <2>1. CASE f.found
    BY <2>1, <1>2
  <2>2. CASE ~f.found
    <3> HIDE DEF f, k
    <3>1. a = [Noted(f) EXCEPT !.outstanding = Bump(Noted(f).outstanding, k)]
      BY <2>2
    <3>2. Noted(f) \in Task /\ Noted(f).outstanding \in Count
          /\ Clean(Noted(f).outstanding) /\ Clean(Noted(f).original)
      BY <1>2 DEF CleanTask, Task
    <3>3. /\ Bump(Noted(f).outstanding, k) \in Count
          /\ Clean(Bump(Noted(f).outstanding, k))
      BY <1>2, <3>2, BumpCounts
    <3> HIDE DEF a
    <3>4. /\ a \in Task /\ a.outstanding = Bump(Noted(f).outstanding, k)
          /\ a.original = Noted(f).original
      BY <3>1, <3>2, <3>3 DEF Task
    <3> QED BY <3>2, <3>3, <3>4 DEF CleanTask
  <2> QED BY <2>1, <2>2
<1> HIDE DEF f, a, k
<1>4. g \in Frame /\ g.op = "gather" /\ g.task \in CleanTask
  <2>1. a \in Task
    BY <1>3 DEF CleanTask
  <2>2. /\ g \in [op : {"gather"}, call : {"register", "wait"}, task : Task, next : Nat, found : BOOLEAN]
        /\ g.task = a
    <3> DEFINE n == f.next + 1
    <3>1. g = [f EXCEPT !.task = a, !.next = n, !.found = FALSE]
      OBVIOUS
    <3>2. n \in Nat
      BY <1>2
    <3> HIDE DEF n, g
    <3> QED BY <1>2, <2>1, <3>1, <3>2
  <2> HIDE DEF g
  <2> QED BY <1>3, <2>2 DEF Frame
<1> HIDE DEF g
<1>5. /\ Stacks' /\ \A u \in Threads \ {t} : todo'[u] = todo[u]
      /\ Top(t)' = g
  BY <1>1, <1>2, <1>4, FrameChanged DEF f, Lonely
<1>6. taskAndEvent_mutex' = taskAndEvent_mutex
  BY DEF GatherMissing
<1>7. Critical(t)'
  BY <1>2, <1>4, <1>5, <1>6 DEF Critical, Holds
<1>8. AllCritical'
  BY <1>2, <1>5, <1>7, OthersCritical
<1>9. Plain' /\ TaskLists' /\ StoreOK'
  BY DEF GatherMissing, Plain, TaskLists, StoreOK
<1> QED BY <1>5, <1>8, <1>9

\* The frames that a task is started with.
LEMMA StartFollows ==
  ASSUME Stacks, NEW t \in Threads, todo[t] # <<>>, NEW task \in Task,
         NEW rest, rest = <<>> \/ (Top(t).op = "event" /\ rest = <<Top(t)>>)
  PROVE  /\ Follows(todo[t], <<StartFrame(task), ConsumeFrame>> \o rest)
         /\ <<StartFrame(task), ConsumeFrame>> \o rest # <<>>
         /\ Head(<<StartFrame(task), ConsumeFrame>> \o rest) = StartFrame(task)
         /\ StartFrame(task) \in Resting
<1> DEFINE s == StartFrame(task)
<1>1. s \in Resting /\ ConsumeFrame \in Resting
  BY DEF Resting, StartFrame
<1>2. s \in Frame /\ ConsumeFrame \in Frame /\ s.op = "start"
  BY <1>1, FrameKinds DEF StartFrame
<1> HIDE DEF s
<1>3. /\ <<s, ConsumeFrame>> \in Seq(Frame) /\ Len(<<s, ConsumeFrame>>) = 2
      /\ <<s, ConsumeFrame>>[1] = s /\ <<s, ConsumeFrame>>[2] = ConsumeFrame
  BY <1>2
<1>4. rest \in Seq(Frame) /\ \A i \in 1 .. Len(rest) : rest[i] \in Resting
  <2>1. CASE rest = <<>>
    BY <2>1
  <2>2. CASE Top(t).op = "event" /\ rest = <<Top(t)>>
    <3>1. Top(t) \in Frame
      BY TopTypes
    <3>2. Top(t) \in Resting
      BY <2>2, <3>1, FrameKinds DEF Resting
    <3> QED BY <2>2, <3>1, <3>2
  <2> QED BY <2>1, <2>2
<1> DEFINE fs == <<s, ConsumeFrame>> \o rest
<1>5. /\ fs \in Seq(Frame) /\ Len(fs) = 2 + Len(rest)
      /\ \A i \in 1 .. 2 + Len(rest) :
            fs[i] = IF i <= 2 THEN <<s, ConsumeFrame>>[i] ELSE rest[i - 2]
  <2> HIDE DEF fs
  <2> QED BY <1>3, <1>4, ConcatProperties DEF fs
<1> HIDE DEF fs
<1>6. fs # <<>> /\ Head(fs) = s
  BY <1>3, <1>4, <1>5
<1>7. \A i \in 2 .. Len(fs) : fs[i] \in Resting
  <2> TAKE i \in 2 .. Len(fs)
  <2>1. CASE i = 2
    BY <2>1, <1>1, <1>3, <1>4, <1>5
  <2>2. CASE i # 2
    <3>1. i \in 1 .. 2 + Len(rest) /\ ~(i <= 2) /\ i - 2 \in 1 .. Len(rest)
      BY <2>2, <1>4, <1>5
    <3> QED BY <3>1, <1>4, <1>5
  <2> QED BY <2>1, <2>2
<1>8. Follows(todo[t], fs)
  BY <1>2, <1>5, <1>6, <1>7 DEF Follows, Lonely
<1> QED BY <1>1, <1>6, <1>8 DEF fs, s

\* A frame that may stand above others, with frames outside of the mutex behind
\* it.
LEMMA FrameFollows ==
  ASSUME NEW s, NEW f \in Frame, f.op \notin Lonely,
         NEW rest \in Seq(Frame), \A i \in 1 .. Len(rest) : rest[i] \in Resting
  PROVE  /\ Follows(s, <<f>> \o rest)
         /\ <<f>> \o rest # <<>> /\ Head(<<f>> \o rest) = f
<1> DEFINE fs == <<f>> \o rest
<1>1. <<f>> \in Seq(Frame) /\ Len(<<f>>) = 1 /\ <<f>>[1] = f
  OBVIOUS
<1>2. /\ fs \in Seq(Frame) /\ Len(fs) = 1 + Len(rest)
      /\ \A i \in 1 .. 1 + Len(rest) : fs[i] = IF i <= 1 THEN <<f>>[i] ELSE rest[i - 1]
  <2> HIDE DEF fs
  <2> QED BY <1>1, ConcatProperties DEF fs
<1> HIDE DEF fs
<1>3. fs # <<>> /\ Head(fs) = f
  BY <1>1, <1>2
<1>4. \A i \in 2 .. Len(fs) : fs[i] \in Resting
  <2> TAKE i \in 2 .. Len(fs)
  <2>1. i \in 1 .. 1 + Len(rest) /\ ~(i <= 1) /\ i - 1 \in 1 .. Len(rest)
    BY <1>2
  <2> QED BY <2>1, <1>2
<1> QED BY <1>2, <1>3, <1>4 DEF fs, Follows, Lonely

\* registerTask runs, registers or re-arms the task and gives up the mutex: the
\* state stays sound.
LEMMA FinishRegisterTaskSound ==
  ASSUME Sound, NEW t \in Threads, FinishRegisterTask(t)
  PROVE  Sound'
<1> DEFINE task == Top(t).task
<1> USE DEF Sound
<1>1. todo[t] # <<>> /\ Top(t).op = "gather" /\ Holds(t) /\ taskAndEvent_mutex' = NoThread
  BY DEF FinishRegisterTask, Gathered, At, In, Unlock
<1>2. task \in CleanTask /\ task \in Task
  BY <1>1, TopTypes DEF CleanTask
<1>3. /\ registeredTasks' = registeredTasks \/ registeredTasks' = Append(registeredTasks, task)
         \/ registeredTasks' = Append(registeredTasks, Rearm(task))
      /\ Replace(t, <<StartFrame(task), ConsumeFrame>>) \/ Return(t)
  BY DEF FinishRegisterTask
<1>4. Rearm(task) \in CleanTask
  BY <1>2, RearmKeeps
<1> HIDE DEF task
<1>5. registeredTasks' \in Seq(CleanTask)
  <2>1. registeredTasks \in Seq(CleanTask)
    BY DEF TaskLists
  <2>2. /\ Append(registeredTasks, task) \in Seq(CleanTask)
        /\ Append(registeredTasks, Rearm(task)) \in Seq(CleanTask)
    BY <2>1, <1>2, <1>4, AppendProperties
  <2> QED BY <2>1, <2>2, <1>3
<1>6. /\ Stacks' /\ \A u \in Threads \ {t} : todo'[u] = todo[u]
      /\ todo'[t] # <<>> => Top(t)' \in Resting
  <2>1. CASE Replace(t, <<StartFrame(task), ConsumeFrame>>)
    <3>1. <<StartFrame(task), ConsumeFrame>> \o <<>> = <<StartFrame(task), ConsumeFrame>>
      OBVIOUS
    <3>2. /\ Follows(todo[t], <<StartFrame(task), ConsumeFrame>>)
          /\ <<StartFrame(task), ConsumeFrame>> # <<>>
          /\ Head(<<StartFrame(task), ConsumeFrame>>) \in Resting
      BY <1>1, <1>2, <3>1, StartFollows
    <3> QED BY <2>1, <1>1, <3>2, FrameReplaced
  <2>2. CASE Return(t)
    BY <2>2, <1>1, FrameReturned
  <2> QED BY <2>1, <2>2, <1>3
<1>7. Critical(t)'
  <2>1. todo'[t] # <<>> => Top(t)' \in Resting
    BY <1>6
  <2> QED BY <2>1, FrameKinds DEF Critical, Lonely
<1>8. AllCritical'
  BY <1>1, <1>6, <1>7, OthersCritical
<1>9. Plain' /\ TaskLists' /\ StoreOK'
  BY <1>1, <1>5 DEF FinishRegisterTask, Plain, TaskLists, StoreOK
<1> QED BY <1>6, <1>8, <1>9

\* pauseTask goes on or goes to sleep: the state stays sound.
LEMMA FinishPauseTaskSound ==
  ASSUME Sound, NEW t \in Threads, FinishPauseTask(t)
  PROVE  Sound'
<1> DEFINE task == Top(t).task
           f == [op |-> "paused", id |-> task.id]
<1> USE DEF Sound
<1>1. /\ todo[t] # <<>> /\ Top(t).op = "gather" /\ Holds(t) /\ taskAndEvent_mutex' = NoThread
      /\ UNCHANGED <<registeredTasks, outstandingEvents, outstandingEventsToHandle, ready, fired,
                     removed, calls, queries, program>>
  BY DEF FinishPauseTask, Gathered, At, In, Unlock
<1>2. task \in CleanTask /\ task \in Task
  BY <1>1, TopTypes DEF CleanTask
<1>3. \/ Deliver(task) /\ Return(t) /\ UNCHANGED pausedTasks
      \/ /\ pausedTasks' = Append(pausedTasks, task)
         /\ Replace(t, <<f>>)
         /\ UNCHANGED <<aborted, delivered>>
  BY DEF FinishPauseTask
<1>4. f \in Frame /\ f.op = "paused"
  BY <1>2 DEF Frame, Task
<1> HIDE DEF task, f
<1>5. pausedTasks' \in Seq(CleanTask) /\ aborted' \in BOOLEAN /\ delivered' \in SUBSET Event
  <2>1. pausedTasks \in Seq(CleanTask) /\ Append(pausedTasks, task) \in Seq(CleanTask)
    BY <1>2, AppendProperties DEF TaskLists
  <2>2. CASE UNCHANGED <<aborted, delivered>> /\ pausedTasks' = Append(pausedTasks, task)
    BY <2>1, <2>2 DEF Plain
  <2>3. CASE Deliver(task) /\ UNCHANGED pausedTasks
    <3>1. ArrivedEvents(task) \subseteq Event
      BY <1>2, ArrivedTypes
    <3> QED BY <2>1, <2>3, <3>1 DEF Deliver, Plain
  <2> QED BY <1>3, <2>2, <2>3
<1>6. /\ Stacks' /\ \A u \in Threads \ {t} : todo'[u] = todo[u]
      /\ todo'[t] # <<>> => Top(t)' \in Resting \/ Top(t)' = f
  <2>1. CASE Replace(t, <<f>>)
    BY <2>1, <1>1, <1>4, FrameChanged DEF Lonely
  <2>2. CASE Return(t)
    BY <2>2, <1>1, FrameReturned
  <2> QED BY <2>1, <2>2, <1>3
<1>7. Critical(t)'
  <2>1. todo'[t] # <<>> => Top(t)' \in Resting \/ Top(t)' = f
    BY <1>6
  <2> QED BY <2>1, <1>4, FrameKinds DEF Critical, Lonely
<1>8. AllCritical'
  BY <1>1, <1>6, <1>7, OthersCritical
<1>9. Plain' /\ TaskLists' /\ StoreOK'
  BY <1>1, <1>5 DEF Plain, TaskLists, StoreOK
<1> QED BY <1>6, <1>8, <1>9

-----------------------------------------------------------------------------
(* registerEvent                                                           *)

\* An event that is fired is an event.
LEMMA NewEventTypes ==
  ASSUME IsFiniteSet(fired), NEW kind \in Kind, NEW n \in Nat
  PROVE  NewEvent(kind, n) \in Event
<1>1. Cardinality(fired) \in Nat
  BY FS_CardinalityType
<1> QED BY <1>1 DEF NewEvent, Kind, Event

\* registerEvent takes the mutex with a new event: the state stays sound.
LEMMA RegisterEventSound ==
  ASSUME Sound, NEW t \in Threads, RegisterEvent(t)
  PROVE  Sound'
<1> USE DEF Sound
<1>1. PICK kind \in Menu.kinds : todo' = [todo EXCEPT ![t] = <<EventFrame(NewEvent(kind, 1))>>]
                                 /\ fired' = fired \union {NewEvent(kind, 1)}
  BY DEF RegisterEvent
<1>2. kind \in Kind
  BY MenuTypes DEF Plain, Program
<1> DEFINE e == NewEvent(kind, 1)
<1>3. e \in Event
  BY <1>2, NewEventTypes DEF Plain
<1>a. IsFiniteSet(fired')
  BY <1>1, FS_AddElement DEF Plain
<1> HIDE DEF e
<1>4. EventFrame(e) \in Frame /\ EventFrame(e).op = "event" /\ EventFrame(e) \in Resting
  BY <1>3, FrameKinds DEF EventFrame, Resting
<1>5. /\ Stacks' /\ \A u \in Threads \ {t} : todo'[u] = todo[u]
      /\ Top(t)' = EventFrame(e)
  BY <1>1, <1>4, FrameEntered DEF e
<1>6. Free /\ taskAndEvent_mutex' = t
  BY DEF RegisterEvent, Lock
<1>7. Critical(t)'
  BY <1>4, <1>5 DEF Critical
<1>8. AllCritical'
  BY <1>5, <1>6, <1>7, OthersCritical
<1>9. Plain' /\ TaskLists' /\ StoreOK'
  BY <1>1, <1>3, <1>6, <1>a DEF RegisterEvent, Plain, TaskLists, StoreOK, e
<1> QED BY <1>5, <1>8, <1>9

\* The event that a thread registers, and the tasks that it matches.
LEMMA RegisteringTypes ==
  ASSUME Sound, NEW t \in Threads, Registering(t)
  PROVE  /\ todo[t] # <<>> /\ Top(t).op = "event" /\ Top(t) \in Frame
         /\ Top(t).event \in Event /\ Top(t).event.key \in Keys
         /\ Free \/ Holds(t)
         /\ Again(t) = <<>> \/ Again(t) = <<Top(t)>>
         /\ ~Top(t).event.persistent => Again(t) = <<>>
<1>1. todo[t] # <<>> /\ Top(t).op = "event" /\ (Free \/ Holds(t))
  BY DEF Registering, At, In
<1>2. Top(t) \in Frame
  BY <1>1, TopTypes DEF Sound
<1>3. Top(t).event \in Event
  BY <1>1, <1>2, FrameKinds
<1>4. Top(t).event.key \in Keys
  BY <1>3, KeysInt DEF Event
<1> QED BY <1>1, <1>2, <1>3, <1>4 DEF Again

\* The task that findTaskMatchingEventAndUpdate chooses depends on the event.
LEMMA MatchingTask ==
  ASSUME NEW tasks \in Seq(CleanTask), NEW e \in Event, Matching(tasks, e.key) # {}
  PROVE  LET i == LeastIndex(Matching(tasks, e.key)) IN
           /\ i \in 1 .. Len(tasks)
           /\ tasks[i] \in CleanTask
           /\ Depends(tasks[i].outstanding, e.key)
           /\ Satisfy(tasks[i], e.key, e) \in CleanTask
<1> DEFINE is == Matching(tasks, e.key)
<1>1. is \in SUBSET Nat
  BY DEF Matching
<1>2. LeastIndex(is) \in is
  BY <1>1, LeastIndexIn
<1> DEFINE i == LeastIndex(is)
<1>3. i \in 1 .. Len(tasks) /\ Depends(tasks[i].outstanding, e.key) /\ tasks[i] \in CleanTask
  BY <1>2 DEF Matching
<1> HIDE DEF i, is
<1>4. e.key \in Keys
  BY KeysInt DEF Event
<1>5. Satisfy(tasks[i], e.key, e) \in CleanTask
  BY <1>3, <1>4, SatisfyKeeps
<1> QED BY <1>3, <1>5 DEF i, is

\* What is left to do once an event has been matched.
LEMMA AgainFollows ==
  ASSUME Stacks, NEW t \in Threads, todo[t] # <<>>, Top(t).op = "event",
         NEW rest, rest = <<>> \/ rest = <<Top(t)>>, Replace(t, rest)
  PROVE  /\ Stacks' /\ \A u \in Threads \ {t} : todo'[u] = todo[u]
         /\ todo'[t] # <<>> => Top(t)' \in Resting
<1>1. Top(t) \in Frame
  BY TopTypes
<1>2. Top(t) \in Resting
  BY <1>1, FrameKinds DEF Resting
<1>3. CASE rest = <<>>
  BY <1>3, FrameReturned DEF Return
<1>4. CASE rest = <<Top(t)>>
  BY <1>1, <1>2, <1>4, FrameChanged DEF Lonely
<1> QED BY <1>3, <1>4

\* registerEvent gives the event to a registered task: the state stays sound.
LEMMA MatchRegisteredSound ==
  ASSUME Sound, NEW t \in Threads, MatchRegistered(t)
  PROVE  Sound'
<1> DEFINE e == Top(t).event
           i == LeastIndex(Matching(registeredTasks, e.key))
           task == Satisfy(registeredTasks[i], e.key, e)
           fs == <<StartFrame(task), ConsumeFrame>> \o Again(t)
<1> USE DEF Sound
<1>1. /\ todo[t] # <<>> /\ Top(t).op = "event" /\ e \in Event /\ (Free \/ Holds(t))
      /\ Again(t) = <<>> \/ Again(t) = <<Top(t)>>
  BY RegisteringTypes DEF MatchRegistered
<1>2. Matching(registeredTasks, e.key) # {} /\ registeredTasks \in Seq(CleanTask)
  BY DEF MatchRegistered, TaskLists
<1>3. i \in 1 .. Len(registeredTasks) /\ task \in CleanTask
  BY <1>1, <1>2, MatchingTask
<1>4. \/ /\ registeredTasks' = [registeredTasks EXCEPT ![i] = Rearm(task)]
            \/ registeredTasks' = RemoveAt(registeredTasks, i)
         /\ Replace(t, fs) /\ taskAndEvent_mutex' = NoThread
      \/ /\ registeredTasks' = [registeredTasks EXCEPT ![i] = task]
         /\ Replace(t, Again(t))
         /\ taskAndEvent_mutex' = t \/ taskAndEvent_mutex' = NoThread
  BY DEF MatchRegistered, Unlock
<1> HIDE DEF e, i, task
<1>5. registeredTasks' \in Seq(CleanTask)
  <2>1. Rearm(task) \in CleanTask
    BY <1>3, RearmKeeps
  <2>2. /\ [registeredTasks EXCEPT ![i] = Rearm(task)] \in Seq(CleanTask)
        /\ [registeredTasks EXCEPT ![i] = task] \in Seq(CleanTask)
    BY <2>1, <1>2, <1>3, ExceptSeq
  <2>3. RemoveAt(registeredTasks, i) \in Seq(CleanTask)
    BY <1>2, <1>3, Removal
  <2> QED BY <2>2, <2>3, <1>4
<1>6. /\ Stacks' /\ \A u \in Threads \ {t} : todo'[u] = todo[u]
      /\ todo'[t] # <<>> => Top(t)' \in Resting
  <2>1. CASE Replace(t, fs)
    <3>1. task \in Task
      BY <1>3 DEF CleanTask
    <3>2. Follows(todo[t], fs) /\ fs # <<>> /\ Head(fs) \in Resting
      BY <3>1, <1>1, StartFollows
    <3> HIDE DEF fs
    <3> QED BY <2>1, <1>1, <3>2, FrameReplaced
  <2>2. CASE Replace(t, Again(t))
    BY <2>2, <1>1, AgainFollows
  <2> QED BY <2>1, <2>2, <1>4
<1> HIDE DEF fs
<1>7. Critical(t)'
  <2>1. todo'[t] # <<>> => Top(t)' \in Resting
    BY <1>6
  <2> QED BY <2>1, FrameKinds DEF Critical, Lonely
<1>8. AllCritical'
  BY <1>1, <1>6, <1>7, OthersCritical
<1>9. taskAndEvent_mutex' \in Threads \union {NoThread}
  BY <1>4
<1>10. Plain' /\ TaskLists' /\ StoreOK'
  BY <1>5, <1>9 DEF MatchRegistered, Plain, TaskLists, StoreOK
<1> QED BY <1>6, <1>8, <1>10

\* registerEvent gives the event to a paused task: the state stays sound.
LEMMA MatchPausedSound ==
  ASSUME Sound, NEW t \in Threads, MatchPaused(t)
  PROVE  Sound'
<1> DEFINE e == Top(t).event
           i == LeastIndex(Matching(pausedTasks, e.key))
           task == Satisfy(pausedTasks[i], e.key, e)
           f == [op |-> "resume", task |-> task]
           fs == <<f>> \o Again(t)
<1> USE DEF Sound
<1>1. /\ todo[t] # <<>> /\ Top(t).op = "event" /\ e \in Event /\ (Free \/ Holds(t))
      /\ Top(t) \in Frame
      /\ Again(t) = <<>> \/ Again(t) = <<Top(t)>>
  BY RegisteringTypes DEF MatchPaused
<1>2. Matching(pausedTasks, e.key) # {} /\ pausedTasks \in Seq(CleanTask)
  BY DEF MatchPaused, TaskLists
<1>3. i \in 1 .. Len(pausedTasks) /\ task \in CleanTask
  BY <1>1, <1>2, MatchingTask
<1>4. \/ /\ pausedTasks' = RemoveAt(pausedTasks, i)
         /\ Replace(t, fs) /\ taskAndEvent_mutex' = NoThread
      \/ /\ pausedTasks' = [pausedTasks EXCEPT ![i] = task]
         /\ Replace(t, Again(t))
         /\ taskAndEvent_mutex' = t \/ taskAndEvent_mutex' = NoThread
  BY DEF MatchPaused, Unlock
<1> HIDE DEF e, i, task
<1>5. pausedTasks' \in Seq(CleanTask)
  <2>1. [pausedTasks EXCEPT ![i] = task] \in Seq(CleanTask)
    BY <1>2, <1>3, ExceptSeq
  <2>2. RemoveAt(pausedTasks, i) \in Seq(CleanTask)
    BY <1>2, <1>3, Removal
  <2> QED BY <2>1, <2>2, <1>4
<1>6. /\ Stacks' /\ \A u \in Threads \ {t} : todo'[u] = todo[u]
      /\ todo'[t] # <<>> => Top(t)' \in Resting \/ Top(t)' = f
  <2>1. CASE Replace(t, fs)
    <3>1. task \in Task
      BY <1>3 DEF CleanTask
    <3>2. f \in Frame /\ f.op = "resume"
      BY <3>1 DEF Frame
    <3>3. Top(t) \in Resting
      BY <1>1, FrameKinds DEF Resting
    <3> HIDE DEF f
    <3>4. Again(t) \in Seq(Frame) /\ \A j \in 1 .. Len(Again(t)) : Again(t)[j] \in Resting
      <4>1. CASE Again(t) = <<>>
        BY <4>1
      <4>2. CASE Again(t) = <<Top(t)>>
        BY <4>2, <3>3, <1>1
      <4> QED BY <4>1, <4>2, <1>1
    <3>5. Follows(todo[t], fs) /\ fs # <<>> /\ Head(fs) = f
      BY <3>2, <3>4, FrameFollows DEF Lonely
    <3> HIDE DEF fs
    <3> QED BY <2>1, <1>1, <3>5, FrameReplaced
  <2>2. CASE Replace(t, Again(t))
    BY <2>2, <1>1, AgainFollows
  <2> QED BY <2>1, <2>2, <1>4
<1>7. Critical(t)'
  <2>1. todo'[t] # <<>> => Top(t)' \in Resting \/ Top(t)' = f
    BY <1>6
  <2> QED BY <2>1, FrameKinds DEF Critical, Lonely
<1>8. AllCritical'
  BY <1>1, <1>6, <1>7, OthersCritical
<1>9. taskAndEvent_mutex' \in Threads \union {NoThread}
  BY <1>4
<1>10. Plain' /\ TaskLists' /\ StoreOK'
  BY <1>5, <1>9 DEF MatchPaused, Plain, TaskLists, StoreOK
<1> QED BY <1>6, <1>8, <1>10

\* registerEvent stores the event: the state stays sound.
LEMMA StoreEventSound ==
  ASSUME Sound, NEW t \in Threads, StoreEvent(t)
  PROVE  Sound'
<1> USE DEF Sound
<1>1. todo[t] # <<>> /\ Top(t).event \in Event /\ (Free \/ Holds(t))
  BY RegisteringTypes DEF StoreEvent
<1>2. StoreOK'
  BY <1>1, StorePush DEF StoreEvent
<1>3. /\ Stacks' /\ \A u \in Threads \ {t} : todo'[u] = todo[u]
      /\ todo'[t] # <<>> => Top(t)' \in Resting
  BY <1>1, FrameReturned DEF StoreEvent
<1>4. Critical(t)'
  <2>1. todo'[t] # <<>> => Top(t)' \in Resting
    BY <1>3
  <2> QED BY <2>1, FrameKinds DEF Critical, Lonely
<1>5. AllCritical'
  BY <1>1, <1>3, <1>4, OthersCritical
<1>6. Plain' /\ TaskLists'
  BY DEF StoreEvent, Plain, TaskLists, Tally, Unlock
<1> QED BY <1>2, <1>3, <1>5, <1>6

-----------------------------------------------------------------------------
(* registerEvents                                                          *)

\* The keys a greedy task takes from a batch are keys.
LEMMA BatchKeysTypes ==
  ASSUME TaskLists, NEW i \in Nat
  PROVE  BatchKeys(i) \in SUBSET Keys
  BY DEF BatchKeys, Counted

\* A sequence has finitely many elements.
LEMMA FiniteSequence ==
  ASSUME NEW S, NEW s \in Seq(S)
  PROVE  IsFiniteSet(ToSet(s))
<1>1. s \in Surjection(1 .. Len(s), ToSet(s))
  BY SetOfSequence DEF Surjection
<1>2. IsFiniteSet(1 .. Len(s))
  BY FS_Interval
<1> QED BY <1>1, <1>2, FS_Surjection

\* registerEvents takes the mutex with a new batch: the state stays sound.
LEMMA RegisterEventsSound ==
  ASSUME Sound, NEW t \in Threads, RegisterEvents(t)
  PROVE  Sound'
<1> USE DEF Sound
<1>0. PICK n \in 1 .. Menu.maxBatch :
        \E kinds \in [1 .. n -> {kind \in Menu.kinds : kind.key.src # MyRank}] :
          LET events == [j \in 1 .. n |-> NewEvent(kinds[j], j)]
              f == [op |-> "batch", events |-> events, at |-> 1, keys |-> BatchKeys(1), run |-> <<>>]
          IN  /\ fired' = fired \union ToSet(events)
              /\ todo' = [todo EXCEPT ![t] = <<f>>]
  BY DEF RegisterEvents
<1>1. PICK kinds \in [1 .. n -> {kind \in Menu.kinds : kind.key.src # MyRank}] :
        LET events == [j \in 1 .. n |-> NewEvent(kinds[j], j)]
            f == [op |-> "batch", events |-> events, at |-> 1, keys |-> BatchKeys(1), run |-> <<>>]
        IN  /\ fired' = fired \union ToSet(events)
            /\ todo' = [todo EXCEPT ![t] = <<f>>]
  BY <1>0
<1> DEFINE events == [j \in 1 .. n |-> NewEvent(kinds[j], j)]
           f == [op |-> "batch", events |-> events, at |-> 1, keys |-> BatchKeys(1), run |-> <<>>]
<1>2. n \in Nat
  BY MenuTypes DEF Plain, Program
<1>3. events \in Seq(Event)
  <2>1. ASSUME NEW j \in 1 .. n PROVE NewEvent(kinds[j], j) \in Event
    <3>1. kinds[j] \in Kind
      BY MenuTypes DEF Plain, Program
    <3> QED BY <3>1, NewEventTypes DEF Plain
  <2> QED BY <1>2, <2>1
<1>4. fired' = fired \union ToSet(events) /\ todo' = [todo EXCEPT ![t] = <<f>>]
  BY <1>1
<1> HIDE DEF events
<1>5. ToSet(events) \subseteq Event /\ IsFiniteSet(ToSet(events))
  BY <1>3, SetOfSequence, FiniteSequence
<1>6. IsFiniteSet(fired')
  BY <1>4, <1>5, FS_Union DEF Plain
<1>7. f \in Frame /\ f.op = "batch"
  BY <1>3, BatchKeysTypes DEF Frame
<1> HIDE DEF f
<1>8. /\ Stacks' /\ \A u \in Threads \ {t} : todo'[u] = todo[u]
      /\ Top(t)' = f
  BY <1>4, <1>7, FrameEntered
<1>9. Free /\ taskAndEvent_mutex' = t
  BY DEF RegisterEvents, Lock
<1>10. Critical(t)'
  BY <1>7, <1>8, <1>9 DEF Critical, Holds
<1>11. AllCritical'
  BY <1>8, <1>9, <1>10, OthersCritical
<1>12. Plain' /\ TaskLists' /\ StoreOK'
  BY <1>4, <1>5, <1>6, <1>9 DEF RegisterEvents, Plain, TaskLists, StoreOK
<1> QED BY <1>8, <1>11, <1>12

\* The batch that a thread scans, and the task it has come to.
LEMMA ScanningTypes ==
  ASSUME Sound, NEW t \in Threads, Scanning(t)
  PROVE  /\ todo[t] # <<>> /\ Top(t).op = "batch" /\ Holds(t)
         /\ Top(t) \in [op : {"batch"}, events : Seq(Event), at : Nat, keys : SUBSET Keys,
                        run : Seq(Task)]
         /\ Top(t).at \in 1 .. Len(registeredTasks)
         /\ registeredTasks \in Seq(CleanTask)
         /\ registeredTasks[Top(t).at] \in CleanTask
<1>1. /\ todo[t] # <<>> /\ Top(t).op = "batch" /\ Holds(t)
      /\ Top(t).at \in DOMAIN registeredTasks
  BY DEF Scanning, At, In
<1>2. Top(t) \in [op : {"batch"}, events : Seq(Event), at : Nat, keys : SUBSET Keys,
                  run : Seq(Task)]
  BY <1>1, TopTypes, FrameKinds DEF Sound
<1>3. registeredTasks \in Seq(CleanTask)
  BY DEF Sound, TaskLists
<1> QED BY <1>1, <1>2, <1>3

\* A dependency that is met once more, or for the first time.
LEMMA MetOnce ==
  ASSUME NEW task \in CleanTask, NEW k \in Keys, NEW e \in Event, NEW l \in Keys,
         NEW n \in Nat, n # 0 => task.outstanding[k] # 0,
         NEW met, met = [task EXCEPT !.outstanding = [task.outstanding EXCEPT ![k] = n]]
  PROVE  /\ Arrive(met, l, e) \in CleanTask
         /\ Counted(Arrive(met, l, e).outstanding) \subseteq Counted(task.outstanding)
         /\ \A j \in Keys : j # k => Arrive(met, l, e).outstanding[j] = task.outstanding[j]
         /\ ArrivedEvents(Arrive(met, l, e)) = ArrivedEvents(task) \union {e}
         /\ Arrive(met, l, e).persistent = task.persistent
         /\ Arrive(met, l, e).greedy = task.greedy
<1>1. task \in Task /\ task.outstanding \in Count /\ Clean(task.original)
      /\ Clean(task.outstanding)
  BY DEF CleanTask, Task
<1>5. /\ met \in Task /\ met.outstanding = [task.outstanding EXCEPT ![k] = n]
      /\ met.original = task.original /\ met.arrived = task.arrived
      /\ met.persistent = task.persistent /\ met.greedy = task.greedy
  BY <1>1 DEF Task, Count
<1>6. /\ Counted(met.outstanding) \subseteq Counted(task.outstanding)
      /\ \A j \in Keys : j # k => met.outstanding[j] = task.outstanding[j]
  <2> DEFINE a == met.outstanding  b == task.outstanding
  <2>1. b \in [Keys -> Nat] /\ a = [b EXCEPT ![k] = n] /\ (n # 0 => b[k] # 0)
    BY <1>1, <1>5 DEF Count
  <2> HIDE DEF a, b
  <2>2. \A j \in Keys : (j # k => a[j] = b[j]) /\ (j = k => a[j] = n)
    BY <2>1
  <2>3. Counted(a) \subseteq Counted(b)
    BY <2>1, <2>2 DEF Counted
  <2> QED BY <2>2, <2>3 DEF a, b
<1>7. /\ Arrive(met, l, e) \in Task
      /\ Arrive(met, l, e) = [met EXCEPT !.arrived = Arrive(met, l, e).arrived,
                                         !.numArrivedEvents = met.numArrivedEvents + 1]
      /\ ArrivedEvents(Arrive(met, l, e)) = ArrivedEvents(met) \union {e}
  BY <1>5, ArriveKeeps, ZenonT(60)
<1>8. /\ Arrive(met, l, e).outstanding = met.outstanding
      /\ Arrive(met, l, e).original = met.original
      /\ Arrive(met, l, e).persistent = met.persistent
      /\ Arrive(met, l, e).greedy = met.greedy
  BY <1>5, <1>7 DEF Task
<1>9. ArrivedEvents(met) = ArrivedEvents(task)
  BY <1>5 DEF ArrivedEvents
<1>10. Clean(met.outstanding) /\ Clean(met.original)
  BY <1>1, <1>5, <1>6 DEF Clean
<1> DEFINE a == Arrive(met, l, e)
<1>11. a \in Task /\ Clean(a.outstanding) /\ Clean(a.original)
  BY <1>7, <1>8, <1>10
<1>12. a \in CleanTask
  <2> HIDE DEF a
  <2> QED BY <1>11 DEF CleanTask
<1>13. ArrivedEvents(a) = ArrivedEvents(task) \union {e}
  BY <1>7, <1>9
<1> QED BY <1>5, <1>6, <1>8, <1>12, <1>13

\* A greedy task takes its events out of the batch: the state stays sound.
LEMMA GreedyTakeSound ==
  ASSUME Sound, NEW t \in Threads, GreedyTake(t)
  PROVE  Sound'
<1> DEFINE f == Top(t)
           k == LeastSource(f.keys)
           hits == {j \in DOMAIN f.events : Equivalent(f.events[j].key, k)}
           j == LeastIndex(hits)
           e == f.events[j]
           task == registeredTasks[f.at]
           met == [task EXCEPT !.outstanding[k] = IF @ > 0 THEN @ - 1 ELSE 0]
           g == [f EXCEPT !.keys = @ \ {k}]
           h == [f EXCEPT !.events = RemoveAt(f.events, j)]
<1> USE DEF Sound
<1>1. /\ todo[t] # <<>> /\ f.op = "batch" /\ Holds(t)
      /\ f \in [op : {"batch"}, events : Seq(Event), at : Nat, keys : SUBSET Keys, run : Seq(Task)]
      /\ f.at \in 1 .. Len(registeredTasks) /\ registeredTasks \in Seq(CleanTask)
      /\ task \in CleanTask
  BY ScanningTypes DEF GreedyTake
<1>2. \/ Replace(t, <<g>>) /\ UNCHANGED registeredTasks
      \/ /\ hits # {}
         /\ registeredTasks' = [registeredTasks EXCEPT ![f.at] = Arrive(met, e.key, e)]
         /\ Replace(t, <<h>>)
  BY DEF GreedyTake
<1>3. f.keys # {} /\ taskAndEvent_mutex' = taskAndEvent_mutex
  BY DEF GreedyTake
<1>4. g \in Frame /\ g.op = "batch"
  <2> HIDE DEF f, k
  <2>1. g \in [op : {"batch"}, events : Seq(Event), at : Nat, keys : SUBSET Keys, run : Seq(Task)]
    BY <1>1
  <2> QED BY <2>1 DEF Frame
<1>5. CASE Replace(t, <<g>>) /\ UNCHANGED registeredTasks
  <2> HIDE DEF f, g
  <2>1. /\ Stacks' /\ \A u \in Threads \ {t} : todo'[u] = todo[u]
        /\ Top(t)' = g
    BY <1>1, <1>4, <1>5, FrameChanged DEF f
  <2>2. Critical(t)'
    BY <1>1, <1>3, <1>4, <2>1 DEF Critical, Holds
  <2>3. AllCritical'
    BY <1>1, <2>1, <2>2, OthersCritical
  <2>4. Plain' /\ TaskLists' /\ StoreOK'
    BY <1>5 DEF GreedyTake, Plain, TaskLists, StoreOK
  <2> QED BY <2>1, <2>3, <2>4
<1>6. CASE /\ hits # {}
           /\ registeredTasks' = [registeredTasks EXCEPT ![f.at] = Arrive(met, e.key, e)]
           /\ Replace(t, <<h>>)
  <2>1. k \in Keys
    BY <1>1, <1>3, LeastSourceIn
  <2>2. j \in 1 .. Len(f.events)
    <3>1. hits \in SUBSET Nat
      BY <1>1
    <3>2. j \in hits
      <4> HIDE DEF hits
      <4> QED BY <3>1, <1>6, LeastIndexIn
    <3> QED BY <3>2, <1>1
  <2>3. e \in Event /\ e.key \in Keys
    <3>1. f.events \in Seq(Event)
      BY <1>1
    <3> HIDE DEF f, j
    <3>2. f.events[j] \in Event
      BY <2>2, <3>1
    <3> HIDE DEF e
    <3>3. \A x \in Event : x.key \in Keys
      BY KeysInt DEF Event
    <3> QED BY <3>2, <3>3 DEF e
  <2> HIDE DEF f, j, k, hits, e, task
  <2>4. Arrive(met, e.key, e) \in CleanTask
    <3> DEFINE n == IF task.outstanding[k] > 0 THEN task.outstanding[k] - 1 ELSE 0
    <3>1. task \in Task /\ task.outstanding[k] \in Nat
      BY <1>1, <2>1 DEF CleanTask, Task, Count
    <3>2. n \in Nat /\ (n # 0 => task.outstanding[k] # 0)
      BY <3>1
    <3>3. met = [task EXCEPT !.outstanding = [task.outstanding EXCEPT ![k] = n]]
      BY <3>1 DEF Task
    <3> HIDE DEF met, n
    <3> QED BY <1>1, <2>1, <2>3, <3>2, <3>3, MetOnce
  <2>5. RemoveAt(f.events, j) \in Seq(Event)
    BY <1>1, <2>2, Removal
  <2>6. h \in Frame /\ h.op = "batch"
    <3>1. h \in [op : {"batch"}, events : Seq(Event), at : Nat, keys : SUBSET Keys, run : Seq(Task)]
      BY <1>1, <2>5
    <3> QED BY <3>1 DEF Frame
  <2> HIDE DEF h, met
  <2>7. /\ Stacks' /\ \A u \in Threads \ {t} : todo'[u] = todo[u]
        /\ Top(t)' = h
    BY <1>1, <1>6, <2>6, FrameChanged DEF f
  <2>8. Critical(t)'
    BY <1>1, <1>3, <2>6, <2>7 DEF Critical, Holds
  <2>9. AllCritical'
    BY <1>1, <2>7, <2>8, OthersCritical
  <2>10. registeredTasks' \in Seq(CleanTask)
    BY <1>1, <1>6, <2>4, ExceptSeq
  <2>11. Plain' /\ TaskLists' /\ StoreOK'
    BY <2>10 DEF GreedyTake, Plain, TaskLists, StoreOK
  <2> QED BY <2>7, <2>9, <2>11
<1> QED BY <1>2, <1>5, <1>6

\* registerEvents is done with a greedy task: the state stays sound.
LEMMA GreedyNextSound ==
  ASSUME Sound, NEW t \in Threads, GreedyNext(t)
  PROVE  Sound'
<1> DEFINE f == Top(t)
           task == registeredTasks[f.at]
           n == f.at + 1
           run == IF task.greedy /\ Complete(task) THEN Append(f.run, task) ELSE f.run
           g == [f EXCEPT !.at = n, !.keys = BatchKeys(n), !.run = run]
<1> USE DEF Sound
<1>1. /\ todo[t] # <<>> /\ f.op = "batch" /\ Holds(t)
      /\ f \in [op : {"batch"}, events : Seq(Event), at : Nat, keys : SUBSET Keys, run : Seq(Task)]
      /\ f.at \in 1 .. Len(registeredTasks) /\ registeredTasks \in Seq(CleanTask)
      /\ task \in CleanTask
  BY ScanningTypes DEF GreedyNext
<1>2. /\ Replace(t, <<g>>)
      /\ registeredTasks' = registeredTasks
           \/ registeredTasks' = [registeredTasks EXCEPT ![f.at] = Rearm(task)]
      /\ taskAndEvent_mutex' = taskAndEvent_mutex
  BY DEF GreedyNext
<1>3. n \in Nat /\ BatchKeys(n) \in SUBSET Keys
  BY <1>1, BatchKeysTypes
<1>4. run \in Seq(Task)
  BY <1>1 DEF CleanTask
<1> HIDE DEF f, task, n, run
<1>5. g \in Frame /\ g.op = "batch"
  <2>1. g \in [op : {"batch"}, events : Seq(Event), at : Nat, keys : SUBSET Keys, run : Seq(Task)]
    BY <1>1, <1>3, <1>4
  <2> QED BY <2>1 DEF Frame
<1> HIDE DEF g
<1>6. /\ Stacks' /\ \A u \in Threads \ {t} : todo'[u] = todo[u]
      /\ Top(t)' = g
  BY <1>1, <1>2, <1>5, FrameChanged DEF f
<1>7. Critical(t)'
  BY <1>1, <1>2, <1>5, <1>6 DEF Critical, Holds
<1>8. AllCritical'
  BY <1>1, <1>6, <1>7, OthersCritical
<1>9. registeredTasks' \in Seq(CleanTask)
  <2> DEFINE x == Rearm(task)  i == f.at  s == registeredTasks
  <2>1. x \in CleanTask
    BY <1>1, RearmKeeps
  <2>2. s \in Seq(CleanTask) /\ i \in 1 .. Len(s)
    BY <1>1
  <2> HIDE DEF x, i
  <2>3. [s EXCEPT ![i] = x] \in Seq(CleanTask)
    BY <2>1, <2>2, ExceptSeq
  <2> QED BY <1>2, <2>2, <2>3 DEF x, i
<1>10. Plain' /\ TaskLists' /\ StoreOK'
  BY <1>9 DEF GreedyNext, Plain, TaskLists, StoreOK
<1> QED BY <1>6, <1>8, <1>10

\* The frames that are left when a batch has been scanned.
BatchFrames(f) ==
  [j \in 1 .. Len(f.run) |-> StartFrame(f.run[j])]
    \o [j \in 1 .. Len(f.events) |-> EventFrame(f.events[j])]

\* What is left of a batch: the tasks to start, then the events to register.
LEMMA BatchFramesTypes ==
  ASSUME NEW f, f.run \in Seq(Task), f.events \in Seq(Event)
  PROVE  /\ BatchFrames(f) \in Seq(Frame)
         /\ Len(BatchFrames(f)) = Len(f.run) + Len(f.events)
         /\ \A i \in 1 .. Len(f.run) : BatchFrames(f)[i] = StartFrame(f.run[i])
         /\ \A i \in 1 .. Len(f.events) :
               BatchFrames(f)[Len(f.run) + i] = EventFrame(f.events[i])
         /\ \A i \in 1 .. Len(f.run) + Len(f.events) : BatchFrames(f)[i] \in Resting
<1> DEFINE a == [j \in 1 .. Len(f.run) |-> StartFrame(f.run[j])]
           b == [j \in 1 .. Len(f.events) |-> EventFrame(f.events[j])]
<1>0. Len(f.run) \in Nat /\ Len(f.events) \in Nat
  OBVIOUS
<1>1. \A i \in 1 .. Len(f.run) : StartFrame(f.run[i]) \in Resting
  <2> TAKE i \in 1 .. Len(f.run)
  <2>1. f.run[i] \in Task
    OBVIOUS
  <2> QED BY <2>1 DEF Resting, StartFrame
<1>2. \A i \in 1 .. Len(f.events) : EventFrame(f.events[i]) \in Resting
  <2> TAKE i \in 1 .. Len(f.events)
  <2>1. f.events[i] \in Event
    OBVIOUS
  <2> QED BY <2>1 DEF Resting, EventFrame
<1>3. /\ a \in Seq(Resting) /\ Len(a) = Len(f.run)
      /\ \A i \in 1 .. Len(f.run) : a[i] = StartFrame(f.run[i])
  BY <1>0, <1>1
<1>4. /\ b \in Seq(Resting) /\ Len(b) = Len(f.events)
      /\ \A i \in 1 .. Len(f.events) : b[i] = EventFrame(f.events[i])
  BY <1>0, <1>2
<1>5. BatchFrames(f) = a \o b
  BY DEF BatchFrames
<1> HIDE DEF a, b
<1>6. a \in Seq(Resting) /\ b \in Seq(Resting)
  BY <1>3, <1>4
<1>7. /\ a \o b \in Seq(Resting) /\ Len(a \o b) = Len(a) + Len(b)
      /\ \A i \in 1 .. Len(a) + Len(b) :
            (a \o b)[i] = IF i <= Len(a) THEN a[i] ELSE b[i - Len(a)]
  BY <1>6, ConcatProperties
<1> DEFINE m == Len(f.run)  n == Len(f.events)
<1>8. Len(a) = m /\ Len(b) = n /\ m \in Nat /\ n \in Nat
  BY <1>0, <1>3, <1>4
<1> HIDE DEF m, n
<1>9. a \o b \in Seq(Frame)
  BY <1>7, FrameKinds
<1>10. \A i \in 1 .. m : (a \o b)[i] = StartFrame(f.run[i])
  <2> TAKE i \in 1 .. m
  <2>1. i \in 1 .. Len(a) + Len(b) /\ i <= Len(a)
    BY <1>8
  <2>2. (a \o b)[i] = a[i]
    BY <2>1, <1>7
  <2> QED BY <2>2, <1>3 DEF m
<1>11. \A i \in 1 .. n : (a \o b)[m + i] = EventFrame(f.events[i])
  <2> TAKE i \in 1 .. n
  <2>1. m + i \in 1 .. Len(a) + Len(b) /\ ~(m + i <= Len(a)) /\ (m + i) - Len(a) = i
    BY <1>8
  <2>2. (a \o b)[m + i] = b[i]
    BY <2>1, <1>7
  <2> QED BY <2>2, <1>4 DEF n
<1>12. \A i \in 1 .. m + n : (a \o b)[i] \in Resting
  <2> TAKE i \in 1 .. m + n
  <2>1. i \in 1 .. Len(a \o b)
    BY <1>7, <1>8
  <2> QED BY <2>1, <1>7
<1> QED BY <1>5, <1>7, <1>8, <1>9, <1>10, <1>11, <1>12 DEF m, n

\* registerEvents goes on to start tasks and register the rest one by one: the
\* state stays sound.
LEMMA FinishBatchSound ==
  ASSUME Sound, NEW t \in Threads, FinishBatch(t)
  PROVE  Sound'
<1> DEFINE f == Top(t)
           fs == BatchFrames(f)
<1> USE DEF Sound
<1>1. /\ todo[t] # <<>> /\ f.op = "batch" /\ Holds(t)
      /\ taskAndEvent_mutex' = NoThread
      /\ UNCHANGED <<program, registeredTasks, pausedTasks, outstandingEvents,
                     outstandingEventsToHandle, ready, aborted, fired, delivered, removed, calls,
                     queries>>
  BY DEF FinishBatch, At, In, Unlock
<1>2. Replace(t, fs)
  BY DEF FinishBatch, BatchFrames
<1>3. f.run \in Seq(Task) /\ f.events \in Seq(Event)
  BY <1>1, TopTypes, FrameKinds
<1>4. fs \in Seq(Frame) /\ \A i \in 1 .. Len(fs) : fs[i] \in Resting
  BY <1>3, BatchFramesTypes
<1> HIDE DEF fs
<1>5. fs # <<>> => Head(fs) \in Resting
  BY <1>4
<1>6. Follows(todo[t], fs)
  <2>1. \A i \in 2 .. Len(fs) : fs[i] \in Resting
    BY <1>4
  <2> QED BY <2>1, <1>4, <1>5, FrameKinds DEF Follows, Lonely
<1>7. /\ Stacks' /\ \A u \in Threads \ {t} : todo'[u] = todo[u]
      /\ todo'[t] # <<>> => Top(t)' \in Resting
  BY <1>1, <1>2, <1>5, <1>6, FrameReplaced
<1>8. Critical(t)'
  <2>1. todo'[t] # <<>> => Top(t)' \in Resting
    BY <1>7
  <2> QED BY <2>1, FrameKinds DEF Critical, Lonely
<1>9. AllCritical'
  BY <1>1, <1>7, <1>8, OthersCritical
<1>10. Plain' /\ TaskLists' /\ StoreOK'
  BY <1>1 DEF Plain, TaskLists, StoreOK
<1> QED BY <1>7, <1>9, <1>10

-----------------------------------------------------------------------------
(* readyToRunTask and consumeEventsByPersistentTasks                       *)

\* readyToRunTask gives a task to the pool: the state stays sound.
LEMMA ReadyToRunTaskSound ==
  ASSUME Sound, NEW t \in Threads, ReadyToRunTask(t)
  PROVE  Sound'
<1> USE DEF Sound
<1>1. /\ todo[t] # <<>> /\ Top(t).op = "start" /\ Return(t)
      /\ ready' = Append(ready, Top(t).task)
  BY DEF ReadyToRunTask, At, In
<1>2. Top(t).task \in Task
  BY <1>1, TopTypes, FrameKinds
<1>3. ready' \in Seq(Task)
  BY <1>1, <1>2, AppendProperties DEF TaskLists
<1>4. /\ Stacks' /\ \A u \in Threads \ {t} : todo'[u] = todo[u]
      /\ todo'[t] # <<>> => Top(t)' \in Resting
  BY <1>1, FrameReturned
<1>5. Critical(t)'
  <2>1. todo'[t] # <<>> => Top(t)' \in Resting
    BY <1>4
  <2> QED BY <2>1, FrameKinds DEF Critical, Lonely
<1>6. UNCHANGED <<taskAndEvent_mutex, registeredTasks, outstandingEvents>>
  BY DEF ReadyToRunTask
<1>7. AllCritical'
  BY <1>4, <1>5, <1>6, OthersCritical
<1>8. Plain' /\ TaskLists' /\ StoreOK'
  BY <1>3 DEF ReadyToRunTask, Plain, TaskLists, StoreOK
<1> QED BY <1>4, <1>7, <1>8

\* What a pass is to look at when it comes to the i-th task.
LEMMA ConsumableTypes ==
  ASSUME TaskLists, NEW i \in Nat
  PROVE  /\ Consumable(i) \in SUBSET Keys
         /\ i \in DOMAIN registeredTasks =>
              Consumable(i) \subseteq {k \in Counted(registeredTasks[i].outstanding) : IsStored(k)}
  BY DEF Consumable, Counted

\* consumeEventsByPersistentTasks takes the mutex: the state stays sound.
LEMMA ConsumeBeginSound ==
  ASSUME Sound, NEW t \in Threads, ConsumeBegin(t)
  PROVE  Sound'
<1> DEFINE f == Top(t)
           g == [f EXCEPT !.at = 1, !.keys = Consumable(1)]
<1> USE DEF Sound
<1>1. /\ todo[t] # <<>> /\ f.op = "consume" /\ Free /\ taskAndEvent_mutex' = t
      /\ Replace(t, <<g>>)
      /\ UNCHANGED <<registeredTasks, outstandingEvents>>
  BY DEF ConsumeBegin, At, In, Lock
<1>2. f \in [op : {"consume"}, at : Nat, keys : SUBSET Keys, progress : BOOLEAN]
  BY <1>1, TopTypes, FrameKinds
<1>3. Consumable(1) \in SUBSET Keys
  BY ConsumableTypes
<1> HIDE DEF f
<1>4. /\ g \in [op : {"consume"}, at : Nat, keys : SUBSET Keys, progress : BOOLEAN]
      /\ g.op = "consume" /\ g.at = 1 /\ g.keys = Consumable(1)
  BY <1>2, <1>3
<1>5. g \in Frame
  BY <1>4 DEF Frame
<1> HIDE DEF g
<1>6. /\ Stacks' /\ \A u \in Threads \ {t} : todo'[u] = todo[u]
      /\ Top(t)' = g
  BY <1>1, <1>4, <1>5, FrameChanged DEF f, Lonely
<1>7. Takes(t)'
  <2>1. 1 \in DOMAIN registeredTasks =>
          Consumable(1) \subseteq {k \in Counted(registeredTasks[1].outstanding) : IsStored(k)}
    BY ConsumableTypes
  <2> DEFINE ks == Consumable(1)
  <2>2. Top(t)'.at = 1 /\ Top(t)'.keys = ks
    BY <1>4, <1>6
  <2> HIDE DEF ks
  <2>3. \A k \in Keys : IsStored(k)' <=> IsStored(k)
    BY <1>1 DEF IsStored, Store, Queued
  <2>4. 1 \in DOMAIN registeredTasks =>
          ks \subseteq {k \in Counted(registeredTasks[1].outstanding) : IsStored(k)'}
    BY <2>1, <2>3 DEF ks, Counted
  <2> QED BY <1>1, <2>2, <2>4 DEF Takes
<1>8. Critical(t)'
  BY <1>1, <1>4, <1>6, <1>7 DEF Critical, Holds
<1>9. AllCritical'
  BY <1>1, <1>6, <1>8, OthersCritical
<1>10. Plain' /\ TaskLists' /\ StoreOK'
  BY <1>1 DEF ConsumeBegin, Plain, TaskLists, StoreOK
<1> QED BY <1>6, <1>9, <1>10

\* The pass that a thread makes, and the task it has come to.
LEMMA ConsumingTypes ==
  ASSUME Sound, NEW t \in Threads, Consuming(t)
  PROVE  /\ todo[t] # <<>> /\ Top(t).op = "consume" /\ Holds(t)
         /\ Top(t) \in [op : {"consume"}, at : Nat, keys : SUBSET Keys, progress : BOOLEAN]
         /\ Top(t).at \in 1 .. Len(registeredTasks)
         /\ registeredTasks \in Seq(CleanTask)
         /\ registeredTasks[Top(t).at] \in CleanTask
         /\ Top(t).keys \subseteq
              {k \in Counted(registeredTasks[Top(t).at].outstanding) : IsStored(k)}
<1>1. /\ todo[t] # <<>> /\ Top(t).op = "consume" /\ Holds(t)
      /\ Top(t).at \in DOMAIN registeredTasks
  BY DEF Consuming, At, In
<1>2. Top(t) \in [op : {"consume"}, at : Nat, keys : SUBSET Keys, progress : BOOLEAN]
  BY <1>1, TopTypes, FrameKinds DEF Sound
<1>3. registeredTasks \in Seq(CleanTask)
  BY DEF Sound, TaskLists
<1>4. Top(t).at \in 1 .. Len(registeredTasks) /\ Top(t).at # 0
  BY <1>1, <1>3
<1>5. Takes(t)
  BY <1>1, <1>4 DEF Sound, AllCritical, Critical
<1> QED BY <1>1, <1>2, <1>3, <1>4, <1>5 DEF Takes

\* Taking the event of one dependency leaves those of the others in the store.
LEMMA OthersStayStored ==
  ASSUME StoreOK, outstandingEventsToHandle \in Int, NEW m \in Count, Clean(m),
         NEW k \in Counted(m), IsStored(k), TakeFirst(k),
         NEW l \in Counted(m), l # k, IsStored(l)
  PROVE  IsStored(l)'
<1>1. k \in Keys /\ l \in Keys
  BY DEF Counted
<1>2. /\ Store(k) \in Queued(outstandingEvents) /\ Equivalent(Store(k), k)
      /\ Store(l) \in Queued(outstandingEvents) /\ Equivalent(Store(l), l)
  BY <1>1, StoredIff
<1>3. Store(k) # Store(l)
  <2> SUFFICES ASSUME Store(k) = Store(l) PROVE FALSE
    OBVIOUS
  <2>1. Store(k) \in EventKeys
    BY <1>2, StoredKeys
  <2>2. Store(k).src # EDAT_ANY
    BY <2>1, KeysInt DEF EDAT_ANY
  <2>3. Equivalent(k, l)
    BY <1>2, <2>2 DEF Equivalent
  <2> QED BY <2>3 DEF Clean
<1>4. StoreOK' /\ \A j \in Keys : j # Store(k) => outstandingEvents'[j] = outstandingEvents[j]
  BY <1>1, StoreTake
<1>5. Store(l) \in Keys /\ outstandingEvents[Store(l)] # <<>>
  BY <1>2 DEF Queued
<1>6. outstandingEvents'[Store(l)] # <<>>
  BY <1>3, <1>4, <1>5
<1> DEFINE q == Store(l)
<1>7. q \in Queued(outstandingEvents') /\ Equivalent(q, l)
  BY <1>2, <1>5, <1>6 DEF Queued
<1> HIDE DEF q
<1> QED BY <1>1, <1>7, StoredIffThen

\* A persistent task takes a stored event: the state stays sound.
LEMMA ConsumeStoredSound ==
  ASSUME Sound, NEW t \in Threads, ConsumeStored(t)
  PROVE  Sound'
<1> DEFINE f == Top(t)
           k == LeastSource(f.keys)
           task == registeredTasks[f.at]
           less == [task EXCEPT !.outstanding[k] = @ - 1]
           e == First(k)
           g == [f EXCEPT !.keys = @ \ {k}]
<1> USE DEF Sound
<1>1. /\ todo[t] # <<>> /\ f.op = "consume" /\ Holds(t)
      /\ f \in [op : {"consume"}, at : Nat, keys : SUBSET Keys, progress : BOOLEAN]
      /\ f.at \in 1 .. Len(registeredTasks) /\ registeredTasks \in Seq(CleanTask)
      /\ task \in CleanTask
      /\ f.keys \subseteq {j \in Counted(task.outstanding) : IsStored(j)}
  BY ConsumingTypes DEF ConsumeStored
<1>2. /\ TakeFirst(k) /\ Replace(t, <<g>>)
      /\ registeredTasks' = [registeredTasks EXCEPT ![f.at] = Arrive(less, k, e)]
      /\ f.keys # {} /\ taskAndEvent_mutex' = taskAndEvent_mutex
  BY DEF ConsumeStored
<1>3. k \in f.keys /\ k \in Keys
  BY <1>1, <1>2, LeastSourceIn
<1> HIDE DEF f, k, task
<1>4. k \in Counted(task.outstanding) /\ IsStored(k)
  BY <1>1, <1>3
<1>5. /\ StoreOK' /\ outstandingEventsToHandle' \in Int /\ e \in Event
  BY <1>2, <1>3, <1>4, StoreTake DEF Plain
<1> HIDE DEF e
<1>6. /\ Arrive(less, k, e) \in CleanTask
      /\ \A j \in Keys : j # k => Arrive(less, k, e).outstanding[j] = task.outstanding[j]
  <2>1. task.outstanding \in Count
    BY <1>1 DEF CleanTask, Task
  <2>2. task.outstanding[k] \in Nat /\ task.outstanding[k] # 0
    BY <1>3, <1>4, <2>1 DEF Counted, Count
  <2> DEFINE n == task.outstanding[k] - 1
  <2>3. n \in Nat
    BY <2>2
  <2>4. less = [task EXCEPT !.outstanding = [task.outstanding EXCEPT ![k] = n]]
    BY <1>1 DEF CleanTask, Task
  <2> HIDE DEF less, n
  <2> QED BY <1>1, <1>3, <1>5, <2>2, <2>3, <2>4, MetOnce
<1> HIDE DEF less
<1>7. g \in [op : {"consume"}, at : Nat, keys : SUBSET Keys, progress : BOOLEAN]
      /\ g.op = "consume" /\ g.at = f.at /\ g.keys = f.keys \ {k}
  BY <1>1
<1>8. g \in Frame
  BY <1>7 DEF Frame
<1> HIDE DEF g
<1>9. /\ Stacks' /\ \A u \in Threads \ {t} : todo'[u] = todo[u]
      /\ Top(t)' = g
  BY <1>1, <1>2, <1>7, <1>8, FrameChanged DEF f, Lonely
<1>10. registeredTasks' \in Seq(CleanTask)
  BY <1>1, <1>2, <1>6, ExceptSeq
<1>11. registeredTasks'[f.at] = Arrive(less, k, e)
  BY <1>1, <1>2
<1>12. Takes(t)'
  <2> SUFFICES ASSUME NEW j \in f.keys, j # k
               PROVE  j \in Counted(Arrive(less, k, e).outstanding) /\ IsStored(j)'
    BY <1>7, <1>9, <1>11 DEF Takes
  <2>1. j \in Counted(task.outstanding) /\ IsStored(j) /\ j \in Keys
    BY <1>1 DEF Counted
  <2>2. j \in Counted(Arrive(less, k, e).outstanding)
    BY <1>6, <2>1 DEF Counted
  <2>3. task.outstanding \in Count /\ Clean(task.outstanding)
    BY <1>1 DEF CleanTask, Task
  <2>4. IsStored(j)'
    BY <1>2, <1>4, <2>1, <2>3, OthersStayStored DEF Plain
  <2> QED BY <2>2, <2>4
<1>13. Critical(t)'
  BY <1>1, <1>2, <1>7, <1>9, <1>12 DEF Critical, Holds
<1>14. AllCritical'
  BY <1>1, <1>9, <1>13, OthersCritical
<1>15. Plain' /\ TaskLists'
  BY <1>5, <1>10 DEF ConsumeStored, Plain, TaskLists
<1> QED BY <1>5, <1>9, <1>14, <1>15

\* consumeEventsByPersistentTasks goes on to the next task, or again after one
\* fired: the state stays sound.
LEMMA ConsumeNextSound ==
  ASSUME Sound, NEW t \in Threads, ConsumeNext(t)
  PROVE  Sound'
<1> DEFINE f == Top(t)
           task == registeredTasks[f.at]
           n == f.at + 1
           fires == task.persistent /\ Complete(task)
           b == f.progress \/ fires
           g == [f EXCEPT !.at = n, !.keys = Consumable(n), !.progress = b]
<1> USE DEF Sound
<1>1. /\ todo[t] # <<>> /\ f.op = "consume" /\ Holds(t)
      /\ f \in [op : {"consume"}, at : Nat, keys : SUBSET Keys, progress : BOOLEAN]
      /\ f.at \in 1 .. Len(registeredTasks) /\ registeredTasks \in Seq(CleanTask)
      /\ task \in CleanTask
  BY ConsumingTypes DEF ConsumeNext
<1>2. /\ Replace(t, <<g>>)
      /\ registeredTasks' = IF fires THEN [registeredTasks EXCEPT ![f.at] = Rearm(task)]
                                     ELSE registeredTasks
      /\ ready' = IF fires THEN Append(ready, task) ELSE ready
      /\ UNCHANGED <<taskAndEvent_mutex, outstandingEvents>>
  BY DEF ConsumeNext
<1>3. /\ n \in Nat /\ Consumable(n) \in SUBSET Keys /\ n # f.at
      /\ n \in DOMAIN registeredTasks =>
           Consumable(n) \subseteq {k \in Counted(registeredTasks[n].outstanding) : IsStored(k)}
  BY <1>1, ConsumableTypes
<1>4. b \in BOOLEAN
  BY <1>1 DEF CleanTask, Task
<1> HIDE DEF f, task, n, fires, b
<1>5. /\ g \in [op : {"consume"}, at : Nat, keys : SUBSET Keys, progress : BOOLEAN]
      /\ g.op = "consume" /\ g.at = n /\ g.keys = Consumable(n)
  BY <1>1, <1>3, <1>4
<1>6. g \in Frame
  BY <1>5 DEF Frame
<1> HIDE DEF g
<1>7. /\ Stacks' /\ \A u \in Threads \ {t} : todo'[u] = todo[u]
      /\ Top(t)' = g
  BY <1>1, <1>2, <1>5, <1>6, FrameChanged DEF f, Lonely
<1>8. registeredTasks' \in Seq(CleanTask) /\ ready' \in Seq(Task)
  <2>1. Rearm(task) \in CleanTask /\ task \in Task
    BY <1>1, RearmKeeps DEF CleanTask
  <2>2. [registeredTasks EXCEPT ![f.at] = Rearm(task)] \in Seq(CleanTask)
    BY <1>1, <2>1, ExceptSeq
  <2>3. ready \in Seq(Task) /\ Append(ready, task) \in Seq(Task)
    BY <2>1, AppendProperties DEF TaskLists
  <2> QED BY <1>1, <1>2, <2>2, <2>3
<1>9. /\ DOMAIN registeredTasks' = DOMAIN registeredTasks
      /\ n \in DOMAIN registeredTasks => registeredTasks'[n] = registeredTasks[n]
  BY <1>1, <1>2, <1>3
<1>10. Takes(t)'
  BY <1>2, <1>3, <1>5, <1>7, <1>9 DEF Takes, IsStored, Store, Queued
<1>11. Critical(t)'
  BY <1>1, <1>2, <1>5, <1>7, <1>10 DEF Critical, Holds
<1>12. AllCritical'
  BY <1>1, <1>7, <1>11, OthersCritical
<1>13. Plain' /\ TaskLists' /\ StoreOK'
  BY <1>8 DEF ConsumeNext, Plain, TaskLists, StoreOK
<1> QED BY <1>7, <1>12, <1>13

\* consumeEventsByPersistentTasks gives up the mutex: the state stays sound.
LEMMA ConsumeEndSound ==
  ASSUME Sound, NEW t \in Threads, ConsumeEnd(t)
  PROVE  Sound'
<1> DEFINE f == Top(t)
           g == Anew(f)
<1> USE DEF Sound
<1>1. /\ todo[t] # <<>> /\ f.op = "consume" /\ Holds(t)
      /\ \/ Replace(t, <<g>>) /\ UNCHANGED taskAndEvent_mutex
         \/ Return(t) /\ taskAndEvent_mutex' = NoThread
      /\ UNCHANGED <<program, registeredTasks, pausedTasks, outstandingEvents,
                     outstandingEventsToHandle, ready, aborted, fired, delivered, removed, calls,
                     queries>>
  BY DEF ConsumeEnd, At, In, Unlock
<1>2. f \in [op : {"consume"}, at : Nat, keys : SUBSET Keys, progress : BOOLEAN]
  BY <1>1, TopTypes, FrameKinds
<1>3. Consumable(1) \in SUBSET Keys
      /\ (1 \in DOMAIN registeredTasks =>
            Consumable(1) \subseteq {k \in Counted(registeredTasks[1].outstanding) : IsStored(k)})
  BY ConsumableTypes
<1> HIDE DEF f
<1>4. /\ g \in [op : {"consume"}, at : Nat, keys : SUBSET Keys, progress : BOOLEAN]
      /\ g.op = "consume" /\ g.at = 1 /\ g.keys = Consumable(1)
  BY <1>2, <1>3 DEF Anew
<1>5. g \in Frame
  BY <1>4 DEF Frame
<1> HIDE DEF g
<1>6. CASE Replace(t, <<g>>) /\ UNCHANGED taskAndEvent_mutex
  <2>1. /\ Stacks' /\ \A u \in Threads \ {t} : todo'[u] = todo[u]
        /\ Top(t)' = g
    BY <1>1, <1>4, <1>5, <1>6, FrameChanged DEF f, Lonely
  <2>2. Takes(t)'
    BY <1>1, <1>3, <1>4, <2>1 DEF Takes, IsStored, Store, Queued
  <2>3. Critical(t)'
    BY <1>1, <1>4, <1>6, <2>1, <2>2 DEF Critical, Holds
  <2>4. AllCritical'
    BY <1>1, <2>1, <2>3, OthersCritical
  <2> QED BY <1>1, <1>6, <2>1, <2>4 DEF Plain, TaskLists, StoreOK
<1>7. CASE Return(t) /\ taskAndEvent_mutex' = NoThread
  <2>1. /\ Stacks' /\ \A u \in Threads \ {t} : todo'[u] = todo[u]
        /\ todo'[t] # <<>> => Top(t)' \in Resting
    BY <1>1, <1>7, FrameReturned
  <2>2. Critical(t)'
    <3>1. todo'[t] # <<>> => Top(t)' \in Resting
      BY <2>1
    <3> QED BY <3>1, FrameKinds DEF Critical, Lonely
  <2>3. AllCritical'
    BY <1>1, <2>1, <2>2, OthersCritical
  <2> QED BY <1>1, <1>7, <2>1, <2>3 DEF Plain, TaskLists, StoreOK
<1> QED BY <1>1, <1>6, <1>7

-----------------------------------------------------------------------------
(* Tasks begin, waits end, events are retrieved, tasks are removed         *)

\* What is delivered to a task are events.
LEMMA DeliverTypes ==
  ASSUME Plain, NEW task \in Task, Deliver(task)
  PROVE  aborted' \in BOOLEAN /\ delivered' \in SUBSET Event
<1>1. ArrivedEvents(task) \subseteq Event
  BY ArrivedTypes
<1> QED BY <1>1 DEF Deliver, Plain

\* A task runs with its events: the state stays sound.
LEMMA RunTaskSound ==
  ASSUME Sound, RunTask
  PROVE  Sound'
<1> USE DEF Sound
<1>1. PICK i \in DOMAIN ready : Deliver(ready[i]) /\ ready' = RemoveAt(ready, i)
  BY DEF RunTask
<1>2. ready \in Seq(Task) /\ ready[i] \in Task /\ i \in 1 .. Len(ready)
  BY <1>1 DEF TaskLists
<1>3. UNCHANGED <<program, registeredTasks, pausedTasks, outstandingEvents,
                  outstandingEventsToHandle, taskAndEvent_mutex, todo, fired, removed, calls, queries>>
  BY DEF RunTask
<1>4. ready' \in Seq(Task)
  BY <1>1, <1>2, Removal
<1>5. aborted' \in BOOLEAN /\ delivered' \in SUBSET Event
  BY <1>1, <1>2, DeliverTypes
<1>6. Plain' /\ TaskLists' /\ StoreOK'
  BY <1>3, <1>4, <1>5 DEF Plain, TaskLists, StoreOK
<1>7. Stacks'
  BY <1>3 DEF Stacks
<1>8. AllCritical'
  BY <1>3 DEF AllCritical, Critical, Takes, Holds, Top, IsStored, Store, Queued
<1> QED BY <1>6, <1>7, <1>8

\* The thread that is woken, and what the thread that wakes it goes on with.
LEMMA Woken ==
  ASSUME Stacks, NEW t \in Threads, NEW u \in Threads, NEW f,
         At(t, "resume"), In(u, "paused"), f = [op |-> "resumed", task |-> Top(t).task],
         todo' = [todo EXCEPT ![t] = Tail(@), ![u] = <<f>>]
  PROVE  /\ u # t
         /\ Top(t).task \in Task /\ f \in Frame
         /\ Stacks'
         /\ todo'[u] = <<f>> /\ todo'[t] = Tail(todo[t])
         /\ Top(u)' = f
         /\ todo'[t] # <<>> => Top(t)' \in Resting
         /\ \A v \in Threads \ {t, u} : todo'[v] = todo[v]
<1>1. /\ todo[t] # <<>> /\ Top(t).op = "resume"
      /\ todo[u] # <<>> /\ Top(u).op = "paused"
  BY DEF At, In
<1>2. u # t
  BY <1>1
<1>3. Top(t).task \in Task
  BY <1>1, TopTypes, FrameKinds
<1>4. f \in Frame /\ f.op = "resumed"
  BY <1>3 DEF Frame
<1>5. /\ StackOK(Tail(todo[t]))
      /\ Tail(todo[t]) # <<>> => Head(Tail(todo[t])) \in Resting
  <2>1. StackOK(todo[t]) /\ todo[t] \in Seq(Frame)
    BY DEF Stacks
  <2>2. Follows(todo[t], <<>>)
    BY DEF Follows
  <2>3. <<>> = <<>> /\ StackOK(<<>> \o Tail(todo[t]))
        /\ <<>> \o Tail(todo[t]) = Tail(todo[t])
        /\ (Tail(todo[t]) # <<>> => Head(Tail(todo[t])) \in Resting)
    BY <1>1, <2>1, <2>2, StackReplaced
  <2> QED BY <2>3
<1>6. StackOK(<<f>>)
  BY <1>4 DEF StackOK
<1>7. /\ todo'[u] = <<f>> /\ todo'[t] = Tail(todo[t])
      /\ \A v \in Threads \ {t, u} : todo'[v] = todo[v]
      /\ todo' \in [Threads -> Seq(Frame)]
  BY <1>2, <1>5, <1>6 DEF Stacks, StackOK
<1>8. Stacks'
  BY <1>5, <1>6, <1>7 DEF Stacks
<1>9. Head(<<f>>) = f
  OBVIOUS
<1>10. Top(u)' = f
  BY <1>7, <1>9 DEF Top
<1>11. todo'[t] # <<>> => Top(t)' \in Resting
  BY <1>5, <1>7 DEF Top
<1> QED BY <1>2, <1>3, <1>4, <1>7, <1>8, <1>10, <1>11

\* A thread whose wait is over is found and resumed: the state stays sound.
LEMMA MarkThreadResumeSound ==
  ASSUME Sound, NEW t \in Threads, MarkThreadResume(t)
  PROVE  Sound'
<1> DEFINE f == [op |-> "resumed", task |-> Top(t).task]
<1> USE DEF Sound
<1>1. PICK u \in Threads :
        In(u, "paused") /\ todo' = [todo EXCEPT ![t] = Tail(@), ![u] = <<f>>]
  BY DEF MarkThreadResume
<1>2. At(t, "resume")
      /\ UNCHANGED <<program, registeredTasks, pausedTasks, outstandingEvents,
                     outstandingEventsToHandle, taskAndEvent_mutex, ready, aborted, fired, delivered,
                     removed, calls, queries>>
  BY DEF MarkThreadResume
<1>3. f = [op |-> "resumed", task |-> Top(t).task] /\ f.op = "resumed"
  OBVIOUS
<1> HIDE DEF f
<1>4. /\ Stacks'
      /\ Top(u)' = f
      /\ todo'[t] # <<>> => Top(t)' \in Resting
      /\ \A v \in Threads \ {t, u} : todo'[v] = todo[v]
  BY <1>1, <1>2, <1>3, Woken
<1>5. Critical(t)'
  <2>1. todo'[t] # <<>> => Top(t)' \in Resting
    BY <1>4
  <2> QED BY <2>1, FrameKinds DEF Critical, Lonely
<1>6. Critical(u)'
  BY <1>3, <1>4 DEF Critical
<1>7. ASSUME NEW v \in Threads \ {t, u} PROVE Critical(v)'
  <2>1. Critical(v) /\ todo'[v] = todo[v]
    BY <1>4 DEF AllCritical
  <2> QED BY <1>2, <2>1 DEF Critical, Takes, Holds, Top, IsStored, Store, Queued
<1>8. AllCritical'
  BY <1>5, <1>6, <1>7 DEF AllCritical
<1>9. Plain' /\ TaskLists' /\ StoreOK'
  BY <1>2 DEF Plain, TaskLists, StoreOK
<1> QED BY <1>4, <1>8, <1>9

\* pauseTask returns the events of the wait: the state stays sound.
LEMMA ResumedSound ==
  ASSUME Sound, NEW t \in Threads, Resumed(t)
  PROVE  Sound'
<1> USE DEF Sound
<1>1. todo[t] # <<>> /\ Top(t).op = "resumed" /\ Deliver(Top(t).task) /\ Return(t)
  BY DEF Resumed, At, In
<1>2. Top(t).task \in Task
  BY <1>1, TopTypes, FrameKinds
<1>3. UNCHANGED <<program, registeredTasks, pausedTasks, outstandingEvents,
                  outstandingEventsToHandle, taskAndEvent_mutex, ready, fired, removed, calls, queries>>
  BY DEF Resumed
<1>4. aborted' \in BOOLEAN /\ delivered' \in SUBSET Event
  BY <1>1, <1>2, DeliverTypes
<1>5. /\ Stacks' /\ \A u \in Threads \ {t} : todo'[u] = todo[u]
      /\ todo'[t] # <<>> => Top(t)' \in Resting
  BY <1>1, FrameReturned
<1>6. Critical(t)'
  <2>1. todo'[t] # <<>> => Top(t)' \in Resting
    BY <1>5
  <2> QED BY <2>1, FrameKinds DEF Critical, Lonely
<1>7. AllCritical'
  BY <1>3, <1>5, <1>6, OthersCritical
<1>8. Plain' /\ TaskLists' /\ StoreOK'
  BY <1>3, <1>4 DEF Plain, TaskLists, StoreOK
<1> QED BY <1>5, <1>7, <1>8

\* retrieveAnyMatchingEvents takes the mutex: the state stays sound.
LEMMA RetrieveAnySound ==
  ASSUME Sound, NEW t \in Threads, RetrieveAny(t)
  PROVE  Sound'
<1> USE DEF Sound
<1>1. PICK order \in Menu.retrievals :
        todo' = [todo EXCEPT ![t] = <<[op |-> "retrieve", order |-> order]>>]
  BY DEF RetrieveAny
<1> DEFINE f == [op |-> "retrieve", order |-> order]
<1>2. order \in Seq(Keys)
  BY MenuTypes DEF Plain, Program
<1>3. f \in Frame /\ f.op = "retrieve"
  BY <1>2 DEF Frame
<1>4. todo' = [todo EXCEPT ![t] = <<f>>] /\ Free /\ taskAndEvent_mutex' = t
  BY <1>1 DEF RetrieveAny, Lock
<1> HIDE DEF f
<1>5. /\ Stacks' /\ \A u \in Threads \ {t} : todo'[u] = todo[u]
      /\ Top(t)' = f
  BY <1>3, <1>4, FrameEntered
<1>6. Critical(t)'
  BY <1>3, <1>4, <1>5 DEF Critical, Holds
<1>7. AllCritical'
  BY <1>4, <1>5, <1>6, OthersCritical
<1>8. Plain' /\ TaskLists' /\ StoreOK'
  BY <1>4 DEF RetrieveAny, Plain, TaskLists, StoreOK
<1> QED BY <1>5, <1>7, <1>8

\* retrieveAnyMatchingEvents takes an event out of the store, or is done: the
\* state stays sound.
LEMMA RetrieveNextSound ==
  ASSUME Sound, NEW t \in Threads, RetrieveNext(t)
  PROVE  Sound'
<1> DEFINE f == Top(t)
           k == Head(f.order)
           g == [f EXCEPT !.order = Tail(@)]
<1> USE DEF Sound
<1>1. /\ todo[t] # <<>> /\ f.op = "retrieve" /\ Holds(t)
      /\ UNCHANGED <<program, registeredTasks, pausedTasks, ready, aborted, fired, removed, calls,
                     queries>>
  BY DEF RetrieveNext, At, In
<1>2. \/ /\ Return(t) /\ taskAndEvent_mutex' = NoThread
         /\ UNCHANGED <<outstandingEvents, outstandingEventsToHandle, delivered>>
      \/ /\ f.order # <<>> /\ Replace(t, <<g>>) /\ UNCHANGED taskAndEvent_mutex
         /\ \/ UNCHANGED <<outstandingEvents, outstandingEventsToHandle, delivered>>
            \/ IsStored(k) /\ TakeFirst(k) /\ delivered' = delivered \union {First(k)}
  BY DEF RetrieveNext, Unlock
<1>3. f \in [op : {"retrieve"}, order : Seq(Keys)]
  BY <1>1, TopTypes, FrameKinds
<1>4. CASE /\ Return(t) /\ taskAndEvent_mutex' = NoThread
           /\ UNCHANGED <<outstandingEvents, outstandingEventsToHandle, delivered>>
  <2>1. /\ Stacks' /\ \A u \in Threads \ {t} : todo'[u] = todo[u]
        /\ todo'[t] # <<>> => Top(t)' \in Resting
    BY <1>1, <1>4, FrameReturned
  <2>2. Critical(t)'
    <3>1. todo'[t] # <<>> => Top(t)' \in Resting
      BY <2>1
    <3> QED BY <3>1, FrameKinds DEF Critical, Lonely
  <2>3. AllCritical'
    BY <1>1, <2>1, <2>2, OthersCritical
  <2>4. Plain' /\ TaskLists' /\ StoreOK'
    BY <1>1, <1>4 DEF Plain, TaskLists, StoreOK
  <2> QED BY <2>1, <2>3, <2>4
<1>5. CASE /\ f.order # <<>> /\ Replace(t, <<g>>) /\ UNCHANGED taskAndEvent_mutex
           /\ \/ UNCHANGED <<outstandingEvents, outstandingEventsToHandle, delivered>>
              \/ IsStored(k) /\ TakeFirst(k) /\ delivered' = delivered \union {First(k)}
  <2>1. k \in Keys /\ Tail(f.order) \in Seq(Keys)
    BY <1>3, <1>5
  <2>2. StoreOK' /\ outstandingEventsToHandle' \in Int /\ delivered' \in SUBSET Event
    <3>1. CASE UNCHANGED <<outstandingEvents, outstandingEventsToHandle, delivered>>
      BY <3>1 DEF StoreOK, Plain
    <3>2. CASE IsStored(k) /\ TakeFirst(k) /\ delivered' = delivered \union {First(k)}
      <4> HIDE DEF k
      <4>1. StoreOK' /\ outstandingEventsToHandle' \in Int /\ First(k) \in Event
        BY <2>1, <3>2, StoreTake DEF Plain
      <4> QED BY <3>2, <4>1 DEF Plain
    <3> QED BY <1>5, <3>1, <3>2
  <2> HIDE DEF f, k
  <2>3. g \in [op : {"retrieve"}, order : Seq(Keys)] /\ g.op = "retrieve"
    BY <1>3, <2>1
  <2>4. g \in Frame
    BY <2>3 DEF Frame
  <2> HIDE DEF g
  <2>5. /\ Stacks' /\ \A u \in Threads \ {t} : todo'[u] = todo[u]
        /\ Top(t)' = g
    BY <1>1, <1>5, <2>3, <2>4, FrameChanged DEF f, Lonely
  <2>6. Critical(t)'
    BY <1>1, <1>5, <2>3, <2>5 DEF Critical, Holds
  <2>7. AllCritical'
    BY <1>1, <2>5, <2>6, OthersCritical
  <2>8. Plain' /\ TaskLists'
    BY <1>1, <1>5, <2>2 DEF Plain, TaskLists
  <2> QED BY <2>2, <2>5, <2>7, <2>8
<1> QED BY <1>2, <1>4, <1>5

\* The task that is removed.
LEMMA NamedTask ==
  ASSUME registeredTasks \in Seq(CleanTask), NEW name, Named(name) # {}
  PROVE  /\ LeastIndex(Named(name)) \in 1 .. Len(registeredTasks)
         /\ registeredTasks[LeastIndex(Named(name))] \in CleanTask
<1> DEFINE is == Named(name)
<1>1. is \in SUBSET Nat
  BY DEF Named
<1>2. LeastIndex(is) \in is
  BY <1>1, LeastIndexIn
<1> QED BY <1>2 DEF Named

\* removeTask removes a task with its events: the state stays sound.
LEMMA RemoveTaskSound ==
  ASSUME Sound, NEW t \in Threads, RemoveTask(t)
  PROVE  Sound'
<1> USE DEF Sound
<1>1. /\ queries' = queries + 1
      /\ UNCHANGED <<program, pausedTasks, outstandingEvents, outstandingEventsToHandle,
                     taskAndEvent_mutex, todo, ready, aborted, fired, delivered, calls>>
      /\ Free
  BY DEF RemoveTask
<1>2. PICK name \in Names \ {NoName} :
        \/ UNCHANGED <<registeredTasks, removed>>
        \/ LET i == LeastIndex(Named(name)) IN
             /\ Named(name) # {}
             /\ registeredTasks' = RemoveAt(registeredTasks, i)
             /\ removed' = removed \union ArrivedEvents(registeredTasks[i])
  BY DEF RemoveTask
<1>3. registeredTasks' \in Seq(CleanTask) /\ removed' \in SUBSET Event
  <2>1. CASE UNCHANGED <<registeredTasks, removed>>
    BY <2>1 DEF Plain, TaskLists
  <2>2. CASE ~UNCHANGED <<registeredTasks, removed>>
    <3> DEFINE i == LeastIndex(Named(name))
    <3>1. /\ Named(name) # {} /\ registeredTasks' = RemoveAt(registeredTasks, i)
          /\ removed' = removed \union ArrivedEvents(registeredTasks[i])
      BY <1>2, <2>2
    <3>2. /\ registeredTasks \in Seq(CleanTask) /\ i \in 1 .. Len(registeredTasks)
          /\ registeredTasks[i] \in Task
      BY <3>1, NamedTask DEF TaskLists, CleanTask
    <3> HIDE DEF i
    <3>3. RemoveAt(registeredTasks, i) \in Seq(CleanTask)
      BY <3>2, Removal
    <3> QED BY <3>1, <3>2, <3>3, ArrivedTypes DEF Plain
  <2> QED BY <2>1, <2>2
<1>4. Plain' /\ TaskLists' /\ StoreOK' /\ Stacks'
  BY <1>1, <1>3 DEF Plain, TaskLists, StoreOK, Stacks
<1>5. AllCritical'
  <2> SUFFICES ASSUME NEW u \in Threads PROVE Critical(u)'
    BY DEF AllCritical
  <2>1. Critical(u) /\ ~Holds(u)
    BY <1>1, ThreadsAssumption DEF AllCritical, Free, Holds
  <2> QED BY <1>1, <2>1 DEF Critical, Top
<1> QED BY <1>4, <1>5

-----------------------------------------------------------------------------
(* Types and mutual exclusion are kept by every step                       *)

\* The initial state is sound.
LEMMA InitSound == Init => Sound
<1> SUFFICES ASSUME Init PROVE Sound
  OBVIOUS
<1>1. NoQueue \in Queue /\ \A k \in Keys : ToSet(NoQueue[k]) = {}
  BY DEF NoQueue, Queue, ToSet
<1>2. StoreOK
  BY <1>1 DEF Init, StoreOK
<1>3. Plain
  <2>1. IsFiniteSet({})
    BY FS_EmptySet
  <2>2. fired = {}
    BY DEF Init
  <2>3. IsFiniteSet(fired)
    BY <2>1, <2>2, Zenon
  <2>4. program \in DOMAIN Programs /\ aborted \in BOOLEAN
    BY DEF Init
  <2>5. outstandingEventsToHandle \in Int /\ calls \in Nat /\ queries \in Nat
    BY DEF Init
  <2>6. fired \in SUBSET Event /\ delivered \in SUBSET Event /\ removed \in SUBSET Event
    BY DEF Init
  <2>7. taskAndEvent_mutex \in Threads \union {NoThread}
    BY DEF Init
  <2> QED BY <2>3, <2>4, <2>5, <2>6, <2>7 DEF Plain
<1>4. TaskLists
  BY DEF Init, TaskLists
<1>5. Stacks /\ AllCritical
  BY DEF Init, Stacks, StackOK, AllCritical, Critical
<1> QED BY <1>2, <1>3, <1>4, <1>5 DEF Sound

\* Every step keeps the state sound.
LEMMA StepSound ==
  ASSUME Sound, [Next]_vars
  PROVE  Sound'
<1>1. CASE RunTask
  BY <1>1, RunTaskSound
<1>2. ASSUME NEW t \in Threads, Call(t) PROVE Sound'
  BY <1>2, RegisterTaskSound, PauseTaskSound, RetrieveAnySound, RemoveTaskSound,
     RegisterEventSound, RegisterEventsSound DEF Call
<1>3. ASSUME NEW t \in Threads, Step(t) PROVE Sound'
  BY <1>3, GatherStoredSound, GatherMissingSound, FinishRegisterTaskSound, FinishPauseTaskSound,
     MatchRegisteredSound, MatchPausedSound, StoreEventSound, GreedyTakeSound, GreedyNextSound,
     FinishBatchSound, ReadyToRunTaskSound, ConsumeBeginSound, ConsumeStoredSound, ConsumeNextSound,
     ConsumeEndSound, MarkThreadResumeSound, ResumedSound, RetrieveNextSound DEF Step
<1>4. CASE UNCHANGED vars
  BY <1>4 DEF vars, Sound, Plain, TaskLists, StoreOK, Stacks, AllCritical, Critical, Takes, Holds,
              Top, IsStored, Store, Queued
<1> QED BY <1>1, <1>2, <1>3, <1>4 DEF Next, Stopped

\* Whatever the program, the threads and the interleaving: the lists and the
\* stacks hold what their types say, every stored event is in the queue of its
\* own key, no task counts two dependencies that compare equal, and a thread in
\* the middle of a critical section of the scheduler owns the mutex, and finds
\* in the store what it has seen there.
THEOREM Soundness == Spec => []Sound
<1>1. Sound /\ [Next]_vars => Sound'
  BY StepSound
<1> QED BY InitSound, <1>1, PTL DEF Spec

-----------------------------------------------------------------------------
(* No stored event is one that a task or a wait still needs.  The property *)
(* is about the lists; while a call gathers the events of a new task, its  *)
(* frame has to have it too, and a greedy task that fires is rearmed,      *)
(* which is only harmless because greedy tasks are persistent.             *)
(*                                                                         *)
(* Then: every paused task has a thread of its own that sleeps in the      *)
(* wait, which is what makes an idle process one that no wait is left in.  *)

\* The task runs more than once, or nothing in the store m would serve it.
Patient(task, m) ==
  /\ task.greedy => task.persistent
  /\ task.persistent \/ \A k \in Queued(m) : ~Depends(task.outstanding, k)

AllPatient(tasks, m) == \A i \in DOMAIN tasks : Patient(tasks[i], m)

\* Nothing in the store m would serve the task, though it may run more than once.
Served(task, m) == \A k \in Queued(m) : ~Depends(task.outstanding, k)
Attended(task, m) == Patient(task, m) /\ Served(task, m)

PatientFrames ==
  \A t \in Threads : In(t, "gather") => Attended(Top(t).task, outstandingEvents)

Matched ==
  /\ AllPatient(registeredTasks, outstandingEvents)
  /\ AllPatient(pausedTasks, outstandingEvents)
  /\ PatientFrames

-----------------------------------------------------------------------------
(* Patient tasks and lists of them                                         *)

\* A task that needs less, or a store that offers less, changes nothing.
LEMMA StaysPatient ==
  ASSUME NEW a, NEW m, Patient(a, m), NEW b, NEW n,
         b.greedy = a.greedy, b.persistent = a.persistent,
         Counted(b.outstanding) \subseteq Counted(a.outstanding), Queued(n) \subseteq Queued(m)
  PROVE  /\ Patient(b, n)
         /\ Served(a, m) => Served(b, n)
  BY DEF Patient, Served, Depends

\* The same for a list.
LEMMA ListStaysPatient ==
  ASSUME NEW tasks, NEW m, AllPatient(tasks, m), NEW n, Queued(n) \subseteq Queued(m)
  PROVE  AllPatient(tasks, n)
  BY DEF AllPatient, Patient

\* What the code does to a list: a task is added, replaced or removed.
LEMMA ListChanged ==
  ASSUME NEW tasks \in Seq(CleanTask), NEW m, AllPatient(tasks, m)
  PROVE  /\ \A b \in CleanTask : Patient(b, m) => AllPatient(Append(tasks, b), m)
         /\ \A i \in 1 .. Len(tasks) : AllPatient(RemoveAt(tasks, i), m)
         /\ \A i \in 1 .. Len(tasks) : \A b : Patient(b, m) => AllPatient([tasks EXCEPT ![i] = b], m)
<1>1. ASSUME NEW b \in CleanTask, Patient(b, m) PROVE AllPatient(Append(tasks, b), m)
  <2> SUFFICES ASSUME NEW j \in DOMAIN Append(tasks, b) PROVE Patient(Append(tasks, b)[j], m)
    BY DEF AllPatient
  <2>1. /\ j \in 1 .. Len(tasks) + 1
        /\ j \in 1 .. Len(tasks) => Append(tasks, b)[j] = tasks[j]
        /\ j = Len(tasks) + 1 => Append(tasks, b)[j] = b
    BY AppendProperties
  <2>2. CASE j \in 1 .. Len(tasks)
    BY <2>1, <2>2 DEF AllPatient
  <2>3. CASE j = Len(tasks) + 1
    BY <2>1, <2>3, <1>1
  <2> QED BY <2>1, <2>2, <2>3
<1>2. ASSUME NEW i \in 1 .. Len(tasks) PROVE AllPatient(RemoveAt(tasks, i), m)
  <2> DEFINE r == RemoveAt(tasks, i)
  <2>1. /\ r \in Seq(CleanTask) /\ Len(r) = Len(tasks) - 1
        /\ \A j \in 1 .. Len(tasks) - 1 : r[j] = IF j < i THEN tasks[j] ELSE tasks[j + 1]
    BY Removal
  <2> HIDE DEF r
  <2> SUFFICES ASSUME NEW j \in DOMAIN r PROVE Patient(r[j], m)
    BY DEF AllPatient, r
  <2>2. j \in 1 .. Len(tasks) - 1 /\ j \in 1 .. Len(tasks) /\ j + 1 \in 1 .. Len(tasks)
    BY <2>1
  <2>3. r[j] = tasks[j] \/ r[j] = tasks[j + 1]
    BY <2>1, <2>2
  <2> QED BY <2>2, <2>3 DEF AllPatient
<1>3. ASSUME NEW i \in 1 .. Len(tasks), NEW b, Patient(b, m)
      PROVE  AllPatient([tasks EXCEPT ![i] = b], m)
  BY <1>3 DEF AllPatient
<1> QED BY <1>1, <1>2, <1>3

\* A persistent task is patient whatever it waits for.
LEMMA PersistentPatient ==
  ASSUME NEW task, task.persistent, NEW m
  PROVE  Patient(task, m)
  BY DEF Patient

-----------------------------------------------------------------------------
(* Frames                                                                  *)

\* The frames of the threads that a step is not about stay as they are.
LEMMA FramesPatient ==
  ASSUME Matched, NEW t \in Threads, \A u \in Threads \ {t} : todo'[u] = todo[u],
         Queued(outstandingEvents') \subseteq Queued(outstandingEvents),
         In(t, "gather")' => Attended(Top(t).task, outstandingEvents)'
  PROVE  PatientFrames'
<1> SUFFICES ASSUME NEW u \in Threads, u # t, In(u, "gather")'
             PROVE  Attended(Top(u).task, outstandingEvents)'
  BY DEF PatientFrames
<1>1. In(u, "gather") /\ Top(u)' = Top(u)
  BY DEF In, Top
<1>2. Attended(Top(u).task, outstandingEvents)
  BY <1>1 DEF Matched, PatientFrames
<1> QED BY <1>1, <1>2 DEF Attended, Served, Patient, Queued

\* A step after which its thread is not gathering.
LEMMA NotGathering ==
  ASSUME Stacks, NEW t \in Threads, todo[t] # <<>>, NEW fs \in Seq(Frame), Replace(t, fs),
         fs # <<>> => Head(fs).op # "gather"
  PROVE  /\ ~In(t, "gather")'
         /\ \A u \in Threads \ {t} : todo'[u] = todo[u]
<1> DEFINE r == Tail(todo[t])
<1>1. StackOK(todo[t]) /\ todo[t] \in Seq(Frame) /\ todo \in [Threads -> Seq(Frame)]
  BY DEF Stacks
<1>2. /\ r \in Seq(Frame)
      /\ r # <<>> => Head(r) \in Resting
  <2>1. Follows(todo[t], <<>>)
    BY DEF Follows
  <2>2. <<>> = <<>> /\ <<>> \o Tail(todo[t]) = Tail(todo[t])
        /\ (Tail(todo[t]) # <<>> => Head(Tail(todo[t])) \in Resting)
    BY <1>1, <2>1, StackReplaced
  <2> QED BY <1>1, <2>2
<1>3. todo' = [todo EXCEPT ![t] = fs \o r]
  BY DEF Replace
<1> HIDE DEF r
<1>4. fs \o r # <<>> => Head(fs \o r).op # "gather"
  <2>1. CASE fs = <<>>
    <3>1. fs \o r = r
      BY <1>2, <2>1, ConcatEmptySeq
    <3> QED BY <1>2, <3>1, FrameKinds DEF Lonely
  <2>2. CASE fs # <<>>
    <3>1. Len(fs \o r) >= 1 /\ (fs \o r)[1] = fs[1] /\ fs \o r \in Seq(Frame)
      BY <1>2, <2>2, ConcatProperties
    <3>2. Head(fs \o r) = Head(fs)
      BY <2>2, <3>1
    <3> QED BY <2>2, <3>2
  <2> QED BY <2>1, <2>2
<1>5. /\ todo'[t] = fs \o r
      /\ \A u \in Threads \ {t} : todo'[u] = todo[u]
  BY <1>1, <1>3
<1> QED BY <1>4, <1>5 DEF In, Top

\* A thread that is done with a frame does not gather afterwards.
LEMMA ReturnedNotGathering ==
  ASSUME Stacks, NEW t \in Threads, todo[t] # <<>>, Return(t)
  PROVE  /\ ~In(t, "gather")'
         /\ \A u \in Threads \ {t} : todo'[u] = todo[u]
<1>1. /\ \A u \in Threads \ {t} : todo'[u] = todo[u]
      /\ todo'[t] # <<>> => Top(t)' \in Resting
  BY FrameReturned
<1> QED BY <1>1, FrameKinds DEF In, Lonely

\* A step that leaves the lists and the frames that gather alone, and the store
\* at most with less.
LEMMA QuietMatched ==
  ASSUME Matched, UNCHANGED <<registeredTasks, pausedTasks>>, NEW t \in Threads,
         \A u \in Threads \ {t} : todo'[u] = todo[u], ~In(t, "gather")',
         Queued(outstandingEvents') \subseteq Queued(outstandingEvents)
  PROVE  Matched'
<1>1. PatientFrames'
  BY FramesPatient
<1>2. /\ AllPatient(registeredTasks, outstandingEvents')
      /\ AllPatient(pausedTasks, outstandingEvents')
  BY ListStaysPatient DEF Matched
<1> QED BY <1>1, <1>2 DEF Matched, AllPatient

-----------------------------------------------------------------------------
(* registerTask and pauseTask                                              *)

\* A new task waits for nothing yet.
LEMMA GatherMatched ==
  ASSUME Sound, Matched, NEW t \in Threads, NEW call \in {"register", "wait"}, NEW s \in Submission,
         s.greedy => s.persistent, Gather(t, call, s)
  PROVE  Matched'
<1> DEFINE f == [op |-> "gather", call |-> call, task |-> NewTask(s), next |-> 1, found |-> FALSE]
<1>1. /\ NewTask(s) \in CleanTask /\ Counted(NewTask(s).outstanding) = {}
      /\ NewTask(s).persistent = s.persistent /\ NewTask(s).greedy = s.greedy
  BY NewTaskClean DEF Sound, Plain
<1>2. Attended(NewTask(s), outstandingEvents)
  BY <1>1 DEF Attended, Served, Patient, Depends
<1>3. f \in Frame /\ f.op = "gather" /\ f.task = NewTask(s)
  BY <1>1 DEF Frame, CleanTask
<1>4. todo' = [todo EXCEPT ![t] = <<f>>]
      /\ UNCHANGED <<registeredTasks, pausedTasks, outstandingEvents>>
  BY DEF Gather
<1> HIDE DEF f
<1>5. /\ \A u \in Threads \ {t} : todo'[u] = todo[u]
      /\ Top(t)' = f
  BY <1>1, <1>3, <1>4, FrameEntered DEF Sound
<1>6. Attended(Top(t).task, outstandingEvents)'
  BY <1>2, <1>3, <1>4, <1>5 DEF Attended, Served, Patient, Queued
<1>7. PatientFrames'
  BY <1>4, <1>5, <1>6, FramesPatient DEF Queued
<1> QED BY <1>4, <1>7 DEF Matched, AllPatient, Patient, Queued

\* registerTask takes the mutex: nothing stored is missed.
LEMMA RegisterTaskMatched ==
  ASSUME Sound, Matched, NEW t \in Threads, RegisterTask(t)
  PROVE  Matched'
<1>1. Menu \in Program
  BY MenuTypes DEF Sound, Plain
<1>2. PICK s \in Menu.tasks : Gather(t, "register", s)
  BY DEF RegisterTask
<1>3. s \in Submission
  BY <1>1 DEF Program
<1>4. s.greedy => s.persistent
  BY GreedyAssumption DEF Sound, Plain, Menu
<1> QED BY <1>2, <1>3, <1>4, GatherMatched

\* pauseTask takes the mutex: nothing stored is missed.
LEMMA PauseTaskMatched ==
  ASSUME Sound, Matched, NEW t \in Threads, PauseTask(t)
  PROVE  Matched'
<1>1. Menu \in Program
  BY MenuTypes DEF Sound, Plain
<1> DEFINE s(order) == [order |-> order, persistent |-> FALSE, greedy |-> FALSE, name |-> NoName]
<1>2. PICK order \in Menu.waits : Gather(t, "wait", s(order))
  BY DEF PauseTask
<1>3. order \in Seq(Keys)
  BY <1>1 DEF Program
<1>4. s(order) \in Submission /\ (s(order).greedy => s(order).persistent)
  BY <1>3 DEF Submission
<1> HIDE DEF s
<1> QED BY <1>2, <1>4, GatherMatched

\* An event that is stored is taken, and no dependency is added.
LEMMA GatherStoredMatched ==
  ASSUME Sound, Matched, NEW t \in Threads, GatherStored(t)
  PROVE  Matched'
<1> DEFINE f == Top(t)
           k == f.task.order[f.next]
           a == Arrive(Noted(f), k, First(k))
           g == [f EXCEPT !.task = a,
                          !.next = IF f.task.greedy THEN @ ELSE @ + 1,
                          !.found = f.task.greedy]
<1>1. Gathering(t) /\ IsStored(k) /\ TakeFirst(k) /\ Replace(t, <<g>>)
      /\ UNCHANGED <<registeredTasks, pausedTasks>>
  BY DEF GatherStored
<1>2. /\ todo[t] # <<>> /\ f.op = "gather" /\ f.task \in CleanTask /\ k \in Keys
      /\ f \in [op : {"gather"}, call : {"register", "wait"}, task : Task,
                next : Nat, found : BOOLEAN]
      /\ Noted(f) \in CleanTask
      /\ Noted(f) = [f.task EXCEPT !.original = Noted(f).original]
  BY <1>1, GatheringTypes DEF Sound
<1>3. Queued(outstandingEvents') \subseteq Queued(outstandingEvents) /\ First(k) \in Event
  <2> HIDE DEF k
  <2> QED BY <1>1, <1>2, StoreTake DEF Sound, Plain
<1>4. a \in Task /\ a.greedy = f.task.greedy /\ a.persistent = f.task.persistent
      /\ a.outstanding = f.task.outstanding
  <2> DEFINE e == First(k)  b == Noted(f)
  <2> HIDE DEF f, k, e
  <2>1. b \in Task /\ e \in Event
    BY <1>2, <1>3 DEF CleanTask, e
  <2>2. /\ b.greedy = f.task.greedy /\ b.persistent = f.task.persistent
        /\ b.outstanding = f.task.outstanding
    BY <1>2 DEF CleanTask, Task
  <2> HIDE DEF b
  <2>3. /\ Arrive(b, k, e) \in Task
        /\ Arrive(b, k, e) = [b EXCEPT !.arrived = Arrive(b, k, e).arrived,
                                       !.numArrivedEvents = b.numArrivedEvents + 1]
    <3>1. k \in Keys
      BY <1>2
    <3> QED BY <2>1, <3>1, ArriveKeeps
  <2>4. /\ Arrive(b, k, e).greedy = b.greedy /\ Arrive(b, k, e).persistent = b.persistent
        /\ Arrive(b, k, e).outstanding = b.outstanding
    BY <2>1, <2>3 DEF Task
  <2> QED BY <2>2, <2>3, <2>4 DEF e, b
<1>5. Attended(f.task, outstandingEvents)
  BY <1>2 DEF Matched, PatientFrames, In
<1>6. Attended(a, outstandingEvents')
  <2> HIDE DEF a, f
  <2> QED BY <1>3, <1>4, <1>5, StaysPatient DEF Attended
<1>7. Top(t)'.task = a /\ \A u \in Threads \ {t} : todo'[u] = todo[u]
  <2> DEFINE n == IF f.task.greedy THEN f.next ELSE f.next + 1
             b == f.task.greedy
  <2>1. g = [f EXCEPT !.task = a, !.next = n, !.found = b]
    OBVIOUS
  <2> HIDE DEF a, n, b
  <2>2. g.task = a
    BY <1>2, <2>1
  <2> HIDE DEF f
  <2>3. todo \in [Threads -> Seq(Frame)]
    BY DEF Sound, Stacks
  <2> HIDE DEF g
  <2>4. todo'[t] = <<g>> \o Tail(todo[t]) /\ \A u \in Threads \ {t} : todo'[u] = todo[u]
    BY <1>1, <2>3 DEF Replace
  <2>5. Head(<<g>> \o Tail(todo[t])) = g
    <3>1. Tail(todo[t]) = <<>>
      BY <1>2, TopTypes DEF f, Sound, Lonely
    <3> QED BY <3>1
  <2> QED BY <2>2, <2>4, <2>5 DEF Top
<1>8. Attended(Top(t).task, outstandingEvents)'
  BY <1>6, <1>7
<1>9. PatientFrames'
  BY <1>3, <1>7, <1>8, FramesPatient
<1>10. AllPatient(registeredTasks, outstandingEvents') /\ AllPatient(pausedTasks, outstandingEvents')
  BY <1>3, ListStaysPatient DEF Matched
<1> QED BY <1>1, <1>9, <1>10 DEF Matched, AllPatient

\* A dependency is added that nothing in the store serves.
LEMMA GatherMissingMatched ==
  ASSUME Sound, Matched, NEW t \in Threads, GatherMissing(t)
  PROVE  Matched'
<1> DEFINE f == Top(t)
           k == f.task.order[f.next]
           a == IF f.found THEN f.task ELSE [Noted(f) EXCEPT !.outstanding = Bump(@, k)]
           g == [f EXCEPT !.task = a, !.next = @ + 1, !.found = FALSE]
<1>1. Gathering(t) /\ ~IsStored(k) /\ Replace(t, <<g>>)
      /\ UNCHANGED <<registeredTasks, pausedTasks, outstandingEvents>>
  BY DEF GatherMissing
<1>2. /\ todo[t] # <<>> /\ f.op = "gather" /\ f.task \in CleanTask /\ k \in Keys
      /\ f \in [op : {"gather"}, call : {"register", "wait"}, task : Task,
                next : Nat, found : BOOLEAN]
      /\ Noted(f) \in CleanTask
      /\ Noted(f) = [f.task EXCEPT !.original = Noted(f).original]
  BY <1>1, GatheringTypes DEF Sound
<1>3. Attended(f.task, outstandingEvents)
  BY <1>2 DEF Matched, PatientFrames, In
<1>4. \A l \in Queued(outstandingEvents) : ~Equivalent(l, k)
  <2> HIDE DEF k
  <2> QED BY <1>1, <1>2, StoredIff
<1>5. Attended(a, outstandingEvents)
  <2>1. CASE f.found
    BY <2>1, <1>3
  <2>2. CASE ~f.found
    <3> DEFINE b == Noted(f)
    <3>1. /\ b \in Task /\ b.outstanding = f.task.outstanding /\ b.greedy = f.task.greedy
          /\ b.persistent = f.task.persistent /\ b.outstanding \in Count
      <4> HIDE DEF f
      <4> QED BY <1>2 DEF CleanTask, Task
    <3> HIDE DEF f, k, b
    <3>2. a = [b EXCEPT !.outstanding = Bump(b.outstanding, k)]
      BY <2>2 DEF b
    <3>3. Bump(b.outstanding, k) \in Count
          /\ Counted(Bump(b.outstanding, k)) =
               Counted(b.outstanding) \union {Slot(Counted(b.outstanding), k)}
      BY <1>2, <3>1, BumpCounts
    <3> HIDE DEF a
    <3>4. /\ a.outstanding = Bump(b.outstanding, k) /\ a.greedy = b.greedy
          /\ a.persistent = b.persistent
      BY <3>1, <3>2 DEF Task
    <3>5. Counted(b.outstanding) \in SUBSET Keys
      BY DEF Counted
    <3>6. Slot(Counted(b.outstanding), k) \in Counted(b.outstanding) \union {k}
      BY <1>2, <3>5, SlotFound
    <3>7. \A l \in Counted(a.outstanding) : l \in Counted(f.task.outstanding) \/ l = k
      BY <3>1, <3>3, <3>4, <3>6
    <3>8. \A l \in Queued(outstandingEvents) : ~Equivalent(k, l)
      BY <1>4 DEF Equivalent
    <3> QED BY <1>3, <3>1, <3>4, <3>7, <3>8 DEF Attended, Served, Patient, Depends
  <2> QED BY <2>1, <2>2
<1>6. Top(t)'.task = a /\ \A u \in Threads \ {t} : todo'[u] = todo[u]
  <2> DEFINE n == f.next + 1
  <2>1. g = [f EXCEPT !.task = a, !.next = n, !.found = FALSE]
    OBVIOUS
  <2> HIDE DEF a, n
  <2>2. g.task = a
    BY <1>2, <2>1
  <2> HIDE DEF f
  <2>3. todo \in [Threads -> Seq(Frame)]
    BY DEF Sound, Stacks
  <2> HIDE DEF g
  <2>4. todo'[t] = <<g>> \o Tail(todo[t]) /\ \A u \in Threads \ {t} : todo'[u] = todo[u]
    BY <1>1, <2>3 DEF Replace
  <2>5. Head(<<g>> \o Tail(todo[t])) = g
    <3>1. Tail(todo[t]) = <<>>
      BY <1>2, TopTypes DEF f, Sound, Lonely
    <3> QED BY <3>1
  <2> QED BY <2>2, <2>4, <2>5 DEF Top
<1> HIDE DEF a
<1>7. Attended(Top(t).task, outstandingEvents)'
  BY <1>1, <1>5, <1>6
<1>8. PatientFrames'
  BY <1>1, <1>6, <1>7, FramesPatient DEF Queued
<1> QED BY <1>1, <1>8 DEF Matched, AllPatient, Patient, Queued

\* registerTask runs, registers or re-arms the task and gives up the mutex:
\* nothing stored is missed.
LEMMA FinishRegisterTaskMatched ==
  ASSUME Sound, Matched, NEW t \in Threads, FinishRegisterTask(t)
  PROVE  Matched'
<1> DEFINE task == Top(t).task
           fs == IF Complete(task) THEN <<StartFrame(task), ConsumeFrame>> ELSE <<>>
<1>1. todo[t] # <<>> /\ Top(t).op = "gather"
      /\ UNCHANGED <<pausedTasks, outstandingEvents>>
  BY DEF FinishRegisterTask, Gathered, At, In
<1>2. task \in CleanTask /\ task \in Task /\ Patient(task, outstandingEvents)
  BY <1>1, TopTypes DEF Sound, Matched, PatientFrames, In, CleanTask, Attended
<1>3. /\ \/ registeredTasks' = registeredTasks
         \/ registeredTasks' = Append(registeredTasks, task)
         \/ task.persistent /\ registeredTasks' = Append(registeredTasks, Rearm(task))
      /\ Replace(t, fs)
  BY DEF FinishRegisterTask, Return
<1> HIDE DEF task
<1>4. fs \in Seq(Frame) /\ (fs # <<>> => Head(fs).op # "gather")
  <2>1. StartFrame(task) \in Frame /\ ConsumeFrame \in Frame /\ StartFrame(task).op = "start"
    BY <1>2 DEF StartFrame, ConsumeFrame, Frame
  <2> DEFINE b == StartFrame(task)
  <2> HIDE DEF b
  <2> QED BY <2>1 DEF b
<1> HIDE DEF fs
<1>5. ~In(t, "gather")' /\ \A u \in Threads \ {t} : todo'[u] = todo[u]
  BY <1>1, <1>3, <1>4, NotGathering DEF Sound
<1>6. PatientFrames'
  BY <1>1, <1>5, FramesPatient DEF Queued
<1>7. Rearm(task) \in CleanTask /\ (task.persistent => Patient(Rearm(task), outstandingEvents))
  BY <1>2, RearmKeeps, PersistentPatient
<1>8. registeredTasks \in Seq(CleanTask) /\ AllPatient(registeredTasks, outstandingEvents)
  BY DEF Sound, TaskLists, Matched
<1>9. AllPatient(registeredTasks', outstandingEvents)
  BY <1>2, <1>3, <1>7, <1>8, ListChanged
<1> QED BY <1>1, <1>6, <1>9 DEF Matched

\* pauseTask goes on or goes to sleep: nothing stored is missed.
LEMMA FinishPauseTaskMatched ==
  ASSUME Sound, Matched, NEW t \in Threads, FinishPauseTask(t)
  PROVE  Matched'
<1> DEFINE task == Top(t).task
           f == [op |-> "paused", id |-> task.id]
           fs == IF Complete(task) THEN <<>> ELSE <<f>>
<1>1. todo[t] # <<>> /\ Top(t).op = "gather"
      /\ UNCHANGED <<registeredTasks, outstandingEvents>>
  BY DEF FinishPauseTask, Gathered, At, In
<1>2. task \in CleanTask /\ task \in Task /\ Patient(task, outstandingEvents)
  BY <1>1, TopTypes DEF Sound, Matched, PatientFrames, In, CleanTask, Attended
<1>3. /\ pausedTasks' = pausedTasks \/ pausedTasks' = Append(pausedTasks, task)
      /\ Replace(t, fs)
  BY DEF FinishPauseTask, Return
<1>4. f \in Frame /\ f.op = "paused"
  BY <1>2 DEF Frame, Task
<1> HIDE DEF task, f
<1>5. fs \in Seq(Frame) /\ (fs # <<>> => Head(fs).op # "gather")
  BY <1>4
<1> HIDE DEF fs
<1>6. ~In(t, "gather")' /\ \A u \in Threads \ {t} : todo'[u] = todo[u]
  BY <1>1, <1>3, <1>5, NotGathering DEF Sound
<1>7. PatientFrames'
  BY <1>1, <1>6, FramesPatient DEF Queued
<1>8. pausedTasks \in Seq(CleanTask) /\ AllPatient(pausedTasks, outstandingEvents)
  BY DEF Sound, TaskLists, Matched
<1>9. AllPatient(pausedTasks', outstandingEvents)
  BY <1>2, <1>3, <1>8, ListChanged
<1> QED BY <1>1, <1>7, <1>9 DEF Matched

-----------------------------------------------------------------------------
(* registerEvent                                                           *)

\* registerEvent takes the mutex with a new event: nothing stored is missed.
LEMMA RegisterEventMatched ==
  ASSUME Sound, Matched, NEW t \in Threads, RegisterEvent(t)
  PROVE  Matched'
<1>1. PICK kind \in Menu.kinds : todo' = [todo EXCEPT ![t] = <<EventFrame(NewEvent(kind, 1))>>]
  BY DEF RegisterEvent
<1> DEFINE e == NewEvent(kind, 1)
<1>2. kind \in Kind
  BY MenuTypes DEF Sound, Plain, Program
<1>3. e \in Event
  BY <1>2, NewEventTypes DEF Sound, Plain
<1> HIDE DEF e
<1>4. EventFrame(e) \in Frame /\ EventFrame(e).op = "event"
  BY <1>3 DEF EventFrame, Frame
<1>5. /\ \A u \in Threads \ {t} : todo'[u] = todo[u]
      /\ Top(t)' = EventFrame(e)
  BY <1>1, <1>4, FrameEntered DEF e, Sound
<1>6. ~In(t, "gather")'
  BY <1>4, <1>5 DEF In
<1>7. UNCHANGED <<registeredTasks, pausedTasks, outstandingEvents>>
  BY DEF RegisterEvent
<1> QED BY <1>5, <1>6, <1>7, QuietMatched DEF Queued

\* What is left of a call that registers an event.
LEMMA AgainFrames ==
  ASSUME Sound, NEW t \in Threads, Registering(t)
  PROVE  /\ Again(t) \in Seq(Frame)
         /\ \A i \in 1 .. Len(Again(t)) : Again(t)[i] \in Resting
         /\ Again(t) # <<>> => Head(Again(t)).op = "event"
<1>1. /\ Top(t) \in Frame /\ Top(t).op = "event"
      /\ Again(t) = <<>> \/ Again(t) = <<Top(t)>>
  BY RegisteringTypes
<1>2. Top(t) \in Resting
  BY <1>1, FrameKinds DEF Resting
<1> DEFINE f == Top(t)  s == Again(t)
<1>3. f \in Frame /\ f.op = "event" /\ f \in Resting /\ (s = <<>> \/ s = <<f>>)
  BY <1>1, <1>2
<1> HIDE DEF f, s
<1>4. /\ s \in Seq(Frame)
      /\ \A i \in 1 .. Len(s) : s[i] \in Resting
      /\ s # <<>> => Head(s).op = "event"
  <2>1. CASE s = <<>>
    BY <2>1
  <2>2. CASE s = <<f>>
    <3>1. <<f>> \in Seq(Frame) /\ Len(<<f>>) = 1 /\ <<f>>[1] = f /\ Head(<<f>>) = f
      BY <1>3
    <3> QED BY <1>3, <2>2, <3>1
  <2> QED BY <1>3, <2>1, <2>2
<1> QED BY <1>4 DEF s

\* The task that an event is matched with waits for less than before.
LEMMA MatchedTask ==
  ASSUME NEW tasks \in Seq(CleanTask), NEW m, AllPatient(tasks, m), NEW e \in Event,
         Matching(tasks, e.key) # {}, NEW i, i = LeastIndex(Matching(tasks, e.key)),
         NEW task, task = Satisfy(tasks[i], e.key, e)
  PROVE  /\ i \in 1 .. Len(tasks) /\ task \in CleanTask
         /\ Patient(task, m)
         /\ task.persistent = tasks[i].persistent
<1>1. /\ i \in 1 .. Len(tasks) /\ tasks[i] \in CleanTask
      /\ Depends(tasks[i].outstanding, e.key) /\ task \in CleanTask
  BY MatchingTask
<1>2. e.key \in Keys
  BY KeysInt DEF Event
<1>3. /\ Counted(task.outstanding) \subseteq Counted(tasks[i].outstanding)
      /\ task.persistent = tasks[i].persistent /\ task.greedy = tasks[i].greedy
  <2> DEFINE a == tasks[i]  k == e.key
  <2>1. a \in CleanTask /\ k \in Keys /\ Depends(a.outstanding, k)
    BY <1>1, <1>2
  <2>2. task = Satisfy(a, k, e)
    OBVIOUS
  <2> HIDE DEF a, k
  <2>3. /\ Counted(Satisfy(a, k, e).outstanding) \subseteq Counted(a.outstanding)
        /\ Satisfy(a, k, e).persistent = a.persistent /\ Satisfy(a, k, e).greedy = a.greedy
    BY <2>1, SatisfyKeeps
  <2> QED BY <2>2, <2>3 DEF a
<1>4. Patient(tasks[i], m)
  BY <1>1 DEF AllPatient
<1>5. Patient(task, m)
  BY <1>3, <1>4, StaysPatient
<1> QED BY <1>1, <1>3, <1>5

\* registerEvent gives the event to a registered task: nothing stored is
\* missed.
LEMMA MatchRegisteredMatched ==
  ASSUME Sound, Matched, NEW t \in Threads, MatchRegistered(t)
  PROVE  Matched'
<1> DEFINE e == Top(t).event
           i == LeastIndex(Matching(registeredTasks, e.key))
           task == Satisfy(registeredTasks[i], e.key, e)
           fs == IF Complete(task) THEN <<StartFrame(task), ConsumeFrame>> \o Again(t) ELSE Again(t)
<1>1. /\ todo[t] # <<>> /\ Top(t).op = "event" /\ e \in Event /\ Top(t) \in Frame
      /\ Again(t) = <<>> \/ Again(t) = <<Top(t)>>
      /\ UNCHANGED <<pausedTasks, outstandingEvents>>
      /\ Replace(t, fs)
  BY RegisteringTypes DEF MatchRegistered
<1>2. /\ Matching(registeredTasks, e.key) # {} /\ registeredTasks \in Seq(CleanTask)
      /\ AllPatient(registeredTasks, outstandingEvents)
  BY DEF MatchRegistered, Sound, TaskLists, Matched
<1>3. \/ task.persistent /\ registeredTasks' = [registeredTasks EXCEPT ![i] = Rearm(task)]
      \/ registeredTasks' = RemoveAt(registeredTasks, i)
      \/ registeredTasks' = [registeredTasks EXCEPT ![i] = task]
  BY DEF MatchRegistered
<1>4. /\ i \in 1 .. Len(registeredTasks) /\ task \in CleanTask
      /\ Patient(task, outstandingEvents)
  <2> DEFINE a == task  j == i  x == e
  <2>1. x \in Event /\ Matching(registeredTasks, x.key) # {}
        /\ j = LeastIndex(Matching(registeredTasks, x.key))
        /\ a = Satisfy(registeredTasks[j], x.key, x)
    BY <1>1, <1>2
  <2> HIDE DEF a, j, x
  <2>2. /\ j \in 1 .. Len(registeredTasks) /\ a \in CleanTask
        /\ Patient(a, outstandingEvents)
    BY <1>2, <2>1, MatchedTask
  <2> QED BY <2>2 DEF a, j
<1> HIDE DEF e, i, task
<1>5. fs \in Seq(Frame) /\ (fs # <<>> => Head(fs).op # "gather")
  <2>1. task \in Task
    BY <1>4 DEF CleanTask
  <2>2. CASE Complete(task)
    <3>1. /\ Follows(todo[t], <<StartFrame(task), ConsumeFrame>> \o Again(t))
          /\ Head(<<StartFrame(task), ConsumeFrame>> \o Again(t)) = StartFrame(task)
      BY <1>1, <2>1, StartFollows DEF Sound
    <3> QED BY <2>2, <3>1 DEF Follows, StartFrame
  <2>3. CASE ~Complete(task)
    <3>1. Registering(t)
      BY DEF MatchRegistered
    <3> QED BY <2>3, <3>1, AgainFrames
  <2> QED BY <2>2, <2>3
<1> HIDE DEF fs
<1>6. ~In(t, "gather")' /\ \A u \in Threads \ {t} : todo'[u] = todo[u]
  BY <1>1, <1>5, NotGathering DEF Sound
<1>7. PatientFrames'
  BY <1>1, <1>6, FramesPatient DEF Queued
<1>8. task.persistent => Patient(Rearm(task), outstandingEvents)
  BY <1>4, RearmKeeps, PersistentPatient
<1>9. AllPatient(registeredTasks', outstandingEvents)
  BY <1>2, <1>3, <1>4, <1>8, ListChanged
<1> QED BY <1>1, <1>7, <1>9 DEF Matched

\* registerEvent gives the event to a paused task: nothing stored is missed.
LEMMA MatchPausedMatched ==
  ASSUME Sound, Matched, NEW t \in Threads, MatchPaused(t)
  PROVE  Matched'
<1> DEFINE e == Top(t).event
           i == LeastIndex(Matching(pausedTasks, e.key))
           task == Satisfy(pausedTasks[i], e.key, e)
           f == [op |-> "resume", task |-> task]
           fs == IF Complete(task) THEN <<f>> \o Again(t) ELSE Again(t)
<1>1. /\ todo[t] # <<>> /\ Top(t).op = "event" /\ e \in Event /\ Top(t) \in Frame
      /\ Again(t) = <<>> \/ Again(t) = <<Top(t)>>
      /\ UNCHANGED <<registeredTasks, outstandingEvents>>
      /\ Replace(t, fs)
  BY RegisteringTypes DEF MatchPaused
<1>2. /\ Matching(pausedTasks, e.key) # {} /\ pausedTasks \in Seq(CleanTask)
      /\ AllPatient(pausedTasks, outstandingEvents)
  BY DEF MatchPaused, Sound, TaskLists, Matched
<1>3. \/ pausedTasks' = RemoveAt(pausedTasks, i)
      \/ pausedTasks' = [pausedTasks EXCEPT ![i] = task]
  BY DEF MatchPaused
<1>4. /\ i \in 1 .. Len(pausedTasks) /\ task \in CleanTask
      /\ Patient(task, outstandingEvents)
  <2> DEFINE a == task  j == i  x == e
  <2>1. x \in Event /\ Matching(pausedTasks, x.key) # {}
        /\ j = LeastIndex(Matching(pausedTasks, x.key))
        /\ a = Satisfy(pausedTasks[j], x.key, x)
    BY <1>1, <1>2
  <2> HIDE DEF a, j, x
  <2>2. /\ j \in 1 .. Len(pausedTasks) /\ a \in CleanTask
        /\ Patient(a, outstandingEvents)
    BY <1>2, <2>1, MatchedTask
  <2> QED BY <2>2 DEF a, j
<1> HIDE DEF e, i, task
<1>5. fs \in Seq(Frame) /\ (fs # <<>> => Head(fs).op # "gather")
  <2>1. f \in Frame /\ f.op = "resume"
    BY <1>4 DEF CleanTask, Frame
  <2> HIDE DEF f
  <2>2. /\ Again(t) \in Seq(Frame) /\ \A j \in 1 .. Len(Again(t)) : Again(t)[j] \in Resting
        /\ Again(t) # <<>> => Head(Again(t)).op = "event"
    BY AgainFrames DEF MatchPaused
  <2>3. CASE Complete(task)
    <3>1. Follows(todo[t], <<f>> \o Again(t)) /\ Head(<<f>> \o Again(t)) = f
      BY <2>1, <2>2, FrameFollows DEF Lonely
    <3> QED BY <2>1, <2>3, <3>1 DEF Follows
  <2>4. CASE ~Complete(task)
    BY <2>2, <2>4
  <2> QED BY <2>3, <2>4
<1> HIDE DEF fs
<1>6. ~In(t, "gather")' /\ \A u \in Threads \ {t} : todo'[u] = todo[u]
  BY <1>1, <1>5, NotGathering DEF Sound
<1>7. PatientFrames'
  BY <1>1, <1>6, FramesPatient DEF Queued
<1>8. AllPatient(pausedTasks', outstandingEvents)
  BY <1>2, <1>3, <1>4, ListChanged
<1> QED BY <1>1, <1>7, <1>8 DEF Matched

\* An event is only stored when no task and no wait needs it, and no other
\* thread is in the middle of gathering.
LEMMA StoreEventMatched ==
  ASSUME Sound, Matched, NEW t \in Threads, StoreEvent(t)
  PROVE  Matched'
<1> DEFINE e == Top(t).event
<1>1. /\ todo[t] # <<>> /\ Top(t).op = "event" /\ e \in Event /\ (Free \/ Holds(t))
      /\ Matching(registeredTasks, e.key) = {} /\ Matching(pausedTasks, e.key) = {}
      /\ outstandingEvents' = Push(outstandingEvents, e.key, e)
      /\ UNCHANGED <<registeredTasks, pausedTasks>>
      /\ Replace(t, <<>>)
  BY RegisteringTypes DEF StoreEvent, Return
<1> HIDE DEF e
<1>2. Queued(outstandingEvents') = Queued(outstandingEvents) \union {e.key}
  BY <1>1, StorePush DEF Sound
<1>3. \A task : Patient(task, outstandingEvents) /\ ~Depends(task.outstanding, e.key)
                  => Patient(task, outstandingEvents')
  BY <1>2 DEF Patient
<1>4. AllPatient(registeredTasks, outstandingEvents') /\ AllPatient(pausedTasks, outstandingEvents')
  BY <1>1, <1>3 DEF Matched, AllPatient, Matching
<1>5. ~In(t, "gather")' /\ \A u \in Threads \ {t} : todo'[u] = todo[u]
  BY <1>1, ReturnedNotGathering DEF Sound, Return
<1>6. PatientFrames'
  <2> SUFFICES ASSUME NEW u \in Threads, u # t, In(u, "gather")'
               PROVE  Attended(Top(u).task, outstandingEvents)'
    BY <1>5 DEF PatientFrames
  <2>1. todo[u] # <<>> /\ Top(u).op = "gather"
    BY <1>5 DEF In, Top
  <2>2. Holds(u)
    BY <2>1 DEF Sound, AllCritical, Critical
  <2> QED BY <1>1, <2>2, ThreadsAssumption DEF Free, Holds
<1> QED BY <1>1, <1>4, <1>6 DEF Matched, AllPatient

-----------------------------------------------------------------------------
(* registerEvents                                                          *)

\* registerEvents takes the mutex with a new batch: nothing stored is missed.
LEMMA RegisterEventsMatched ==
  ASSUME Sound, Matched, NEW t \in Threads, RegisterEvents(t)
  PROVE  Matched'
<1>0. PICK n \in 1 .. Menu.maxBatch :
        \E kinds \in [1 .. n -> {kind \in Menu.kinds : kind.key.src # MyRank}] :
          LET events == [j \in 1 .. n |-> NewEvent(kinds[j], j)]
              f == [op |-> "batch", events |-> events, at |-> 1, keys |-> BatchKeys(1), run |-> <<>>]
          IN  todo' = [todo EXCEPT ![t] = <<f>>]
  BY DEF RegisterEvents
<1>1. PICK kinds \in [1 .. n -> {kind \in Menu.kinds : kind.key.src # MyRank}] :
        LET events == [j \in 1 .. n |-> NewEvent(kinds[j], j)]
            f == [op |-> "batch", events |-> events, at |-> 1, keys |-> BatchKeys(1), run |-> <<>>]
        IN  todo' = [todo EXCEPT ![t] = <<f>>]
  BY <1>0
<1> DEFINE events == [j \in 1 .. n |-> NewEvent(kinds[j], j)]
           f == [op |-> "batch", events |-> events, at |-> 1, keys |-> BatchKeys(1), run |-> <<>>]
<1>2. todo' = [todo EXCEPT ![t] = <<f>>] /\ todo \in [Threads -> Seq(Frame)]
  BY <1>1 DEF Sound, Stacks
<1>3. f.op = "batch"
  OBVIOUS
<1> HIDE DEF f
<1>4. /\ \A u \in Threads \ {t} : todo'[u] = todo[u]
      /\ todo'[t] = <<f>>
  BY <1>2
<1>5. Head(<<f>>) = f
  OBVIOUS
<1>6. ~In(t, "gather")'
  BY <1>3, <1>4, <1>5 DEF In, Top
<1>7. UNCHANGED <<registeredTasks, pausedTasks, outstandingEvents>>
  BY DEF RegisterEvents
<1> QED BY <1>4, <1>6, <1>7, QuietMatched DEF Queued

\* A greedy task takes its events out of the batch: nothing stored is missed.
LEMMA GreedyTakeMatched ==
  ASSUME Sound, Matched, NEW t \in Threads, GreedyTake(t)
  PROVE  Matched'
<1> DEFINE f == Top(t)
           k == LeastSource(f.keys)
           hits == {j \in DOMAIN f.events : Equivalent(f.events[j].key, k)}
           j == LeastIndex(hits)
           e == f.events[j]
           task == registeredTasks[f.at]
           met == [task EXCEPT !.outstanding[k] = IF @ > 0 THEN @ - 1 ELSE 0]
           g == [f EXCEPT !.keys = @ \ {k}]
           h == [f EXCEPT !.events = RemoveAt(f.events, j)]
<1>1. /\ todo[t] # <<>> /\ f.op = "batch" /\ Holds(t)
      /\ f \in [op : {"batch"}, events : Seq(Event), at : Nat, keys : SUBSET Keys, run : Seq(Task)]
      /\ f.at \in 1 .. Len(registeredTasks) /\ registeredTasks \in Seq(CleanTask)
      /\ task \in CleanTask
  BY ScanningTypes DEF GreedyTake
<1>2. \/ Replace(t, <<g>>) /\ UNCHANGED registeredTasks
      \/ /\ hits # {}
         /\ registeredTasks' = [registeredTasks EXCEPT ![f.at] = Arrive(met, e.key, e)]
         /\ Replace(t, <<h>>)
  BY DEF GreedyTake
<1>3. f.keys # {} /\ UNCHANGED <<pausedTasks, outstandingEvents>>
  BY DEF GreedyTake
<1>4. g \in Frame /\ g.op = "batch"
  <2> HIDE DEF f, k
  <2>1. g \in [op : {"batch"}, events : Seq(Event), at : Nat, keys : SUBSET Keys, run : Seq(Task)]
    BY <1>1
  <2> QED BY <2>1 DEF Frame
<1>5. CASE Replace(t, <<g>>) /\ UNCHANGED registeredTasks
  <2> HIDE DEF f, g
  <2>1. /\ \A u \in Threads \ {t} : todo'[u] = todo[u]
        /\ Top(t)' = g
    BY <1>1, <1>4, <1>5, FrameChanged DEF f, Sound
  <2>2. ~In(t, "gather")'
    BY <1>4, <2>1 DEF In
  <2> QED BY <1>3, <1>5, <2>1, <2>2, QuietMatched DEF Queued
<1>6. CASE /\ hits # {}
           /\ registeredTasks' = [registeredTasks EXCEPT ![f.at] = Arrive(met, e.key, e)]
           /\ Replace(t, <<h>>)
  <2>1. k \in Keys
    BY <1>1, <1>3, LeastSourceIn
  <2>2. j \in 1 .. Len(f.events)
    <3>1. hits \in SUBSET Nat
      BY <1>1
    <3>2. j \in hits
      <4> HIDE DEF hits
      <4> QED BY <3>1, <1>6, LeastIndexIn
    <3> QED BY <3>2, <1>1
  <2>3. e \in Event /\ e.key \in Keys
    <3>1. f.events \in Seq(Event)
      BY <1>1
    <3> HIDE DEF f, j
    <3>2. f.events[j] \in Event
      BY <2>2, <3>1
    <3> HIDE DEF e
    <3>3. \A x \in Event : x.key \in Keys
      BY KeysInt DEF Event
    <3> QED BY <3>2, <3>3 DEF e
  <2> HIDE DEF f, j, k, hits, e, task
  <2>4. /\ Counted(Arrive(met, e.key, e).outstanding) \subseteq Counted(task.outstanding)
        /\ Arrive(met, e.key, e).persistent = task.persistent
        /\ Arrive(met, e.key, e).greedy = task.greedy
    <3> DEFINE n == IF task.outstanding[k] > 0 THEN task.outstanding[k] - 1 ELSE 0
    <3>1. task \in Task /\ task.outstanding[k] \in Nat
      BY <1>1, <2>1 DEF CleanTask, Task, Count
    <3>2. n \in Nat /\ (n # 0 => task.outstanding[k] # 0)
      BY <3>1
    <3>3. met = [task EXCEPT !.outstanding = [task.outstanding EXCEPT ![k] = n]]
      BY <3>1 DEF Task
    <3>4. task \in CleanTask
      BY <1>1
    <3> HIDE DEF met, n
    <3> DEFINE l == e.key
    <3>5. l \in Keys
      BY <2>3
    <3> HIDE DEF l
    <3>6. /\ Counted(Arrive(met, l, e).outstanding) \subseteq Counted(task.outstanding)
          /\ Arrive(met, l, e).persistent = task.persistent
          /\ Arrive(met, l, e).greedy = task.greedy
      BY <2>1, <2>3, <3>2, <3>3, <3>4, <3>5, MetOnce, SMTT(30)
    <3> QED BY <3>6 DEF l
  <2>5. RemoveAt(f.events, j) \in Seq(Event)
    BY <1>1, <2>2, Removal
  <2>6. h \in Frame /\ h.op = "batch"
    <3>1. h \in [op : {"batch"}, events : Seq(Event), at : Nat, keys : SUBSET Keys, run : Seq(Task)]
      BY <1>1, <2>5
    <3> QED BY <3>1 DEF Frame
  <2> HIDE DEF h, met
  <2>7. /\ \A u \in Threads \ {t} : todo'[u] = todo[u]
        /\ Top(t)' = h
    BY <1>1, <1>6, <2>6, FrameChanged DEF f, Sound
  <2>8. ~In(t, "gather")'
    BY <2>6, <2>7 DEF In
  <2>9. PatientFrames'
    BY <1>3, <2>7, <2>8, FramesPatient DEF Queued
  <2>10. Patient(task, outstandingEvents)
    BY <1>1 DEF Matched, AllPatient, task
  <2> DEFINE b == Arrive(met, e.key, e)
  <2> HIDE DEF b
  <2>11. Patient(b, outstandingEvents)
    BY <2>4, <2>10, StaysPatient DEF b
  <2>12. AllPatient(registeredTasks', outstandingEvents)
    BY <1>1, <1>6, <2>11, ListChanged DEF Matched, b
  <2> QED BY <1>3, <2>9, <2>12 DEF Matched
<1> QED BY <1>2, <1>5, <1>6

\* registerEvents is done with a greedy task: nothing stored is missed.
LEMMA GreedyNextMatched ==
  ASSUME Sound, Matched, NEW t \in Threads, GreedyNext(t)
  PROVE  Matched'
<1> DEFINE f == Top(t)
           task == registeredTasks[f.at]
           n == f.at + 1
           run == IF task.greedy /\ Complete(task) THEN Append(f.run, task) ELSE f.run
           g == [f EXCEPT !.at = n, !.keys = BatchKeys(n), !.run = run]
<1>1. /\ todo[t] # <<>> /\ f.op = "batch" /\ Holds(t)
      /\ f \in [op : {"batch"}, events : Seq(Event), at : Nat, keys : SUBSET Keys, run : Seq(Task)]
      /\ f.at \in 1 .. Len(registeredTasks) /\ registeredTasks \in Seq(CleanTask)
      /\ task \in CleanTask
  BY ScanningTypes DEF GreedyNext
<1>2. /\ Replace(t, <<g>>)
      /\ registeredTasks' = registeredTasks
           \/ (task.greedy /\ registeredTasks' = [registeredTasks EXCEPT ![f.at] = Rearm(task)])
      /\ UNCHANGED <<pausedTasks, outstandingEvents>>
  BY DEF GreedyNext
<1>3. n \in Nat /\ BatchKeys(n) \in SUBSET Keys
  BY <1>1, BatchKeysTypes DEF Sound
<1>4. run \in Seq(Task)
  BY <1>1 DEF CleanTask
<1>5. Patient(task, outstandingEvents)
  BY <1>1 DEF Matched, AllPatient
<1>6. task.greedy => Patient(Rearm(task), outstandingEvents)
  <2> HIDE DEF task
  <2>1. task.greedy => task.persistent
    BY <1>5 DEF Patient
  <2> QED BY <1>1, <2>1, RearmKeeps, PersistentPatient
<1> HIDE DEF f, task, n, run
<1>7. g \in Frame /\ g.op = "batch"
  <2>1. g \in [op : {"batch"}, events : Seq(Event), at : Nat, keys : SUBSET Keys, run : Seq(Task)]
    BY <1>1, <1>3, <1>4
  <2> QED BY <2>1 DEF Frame
<1> HIDE DEF g
<1>8. /\ \A u \in Threads \ {t} : todo'[u] = todo[u]
      /\ Top(t)' = g
  BY <1>1, <1>2, <1>7, FrameChanged DEF f, Sound
<1>9. ~In(t, "gather")'
  BY <1>7, <1>8 DEF In
<1>10. PatientFrames'
  BY <1>2, <1>8, <1>9, FramesPatient DEF Queued
<1>11. AllPatient(registeredTasks, outstandingEvents)
  BY DEF Matched
<1>12. AllPatient(registeredTasks', outstandingEvents)
  BY <1>1, <1>2, <1>6, <1>11, ListChanged
<1> QED BY <1>2, <1>10, <1>12 DEF Matched

\* registerEvents goes on to start tasks and register the rest one by one:
\* nothing stored is missed.
LEMMA FinishBatchMatched ==
  ASSUME Sound, Matched, NEW t \in Threads, FinishBatch(t)
  PROVE  Matched'
<1> DEFINE f == Top(t)
           fs == BatchFrames(f)
<1>1. /\ todo[t] # <<>> /\ f.op = "batch"
      /\ UNCHANGED <<registeredTasks, pausedTasks, outstandingEvents>>
  BY DEF FinishBatch, At, In
<1>2. Replace(t, fs)
  BY DEF FinishBatch, BatchFrames
<1>3. f.run \in Seq(Task) /\ f.events \in Seq(Event)
  BY <1>1, TopTypes, FrameKinds DEF Sound
<1>4. fs \in Seq(Frame) /\ \A i \in 1 .. Len(fs) : fs[i] \in Resting
  BY <1>3, BatchFramesTypes
<1> HIDE DEF fs
<1>5. fs # <<>> => Head(fs) \in Resting
  BY <1>4
<1>6. fs # <<>> => Head(fs).op # "gather"
  BY <1>5, FrameKinds DEF Lonely
<1>7. ~In(t, "gather")' /\ \A u \in Threads \ {t} : todo'[u] = todo[u]
  BY <1>1, <1>2, <1>4, <1>6, NotGathering DEF Sound
<1> QED BY <1>1, <1>7, QuietMatched DEF Queued

-----------------------------------------------------------------------------
(* readyToRunTask and consumeEventsByPersistentTasks                       *)

\* readyToRunTask gives a task to the pool: nothing stored is missed.
LEMMA ReadyToRunTaskMatched ==
  ASSUME Sound, Matched, NEW t \in Threads, ReadyToRunTask(t)
  PROVE  Matched'
<1>1. todo[t] # <<>> /\ Return(t) /\ UNCHANGED <<registeredTasks, pausedTasks, outstandingEvents>>
  BY DEF ReadyToRunTask, At, In
<1>2. ~In(t, "gather")' /\ \A u \in Threads \ {t} : todo'[u] = todo[u]
  BY <1>1, ReturnedNotGathering DEF Sound
<1> QED BY <1>1, <1>2, QuietMatched DEF Queued

\* consumeEventsByPersistentTasks takes the mutex: nothing stored is missed.
LEMMA ConsumeBeginMatched ==
  ASSUME Sound, Matched, NEW t \in Threads, ConsumeBegin(t)
  PROVE  Matched'
<1> DEFINE f == Top(t)
           g == [f EXCEPT !.at = 1, !.keys = Consumable(1)]
<1>1. /\ todo[t] # <<>> /\ f.op = "consume"
      /\ Replace(t, <<g>>)
      /\ UNCHANGED <<registeredTasks, pausedTasks, outstandingEvents>>
  BY DEF ConsumeBegin, At, In
<1>2. f \in [op : {"consume"}, at : Nat, keys : SUBSET Keys, progress : BOOLEAN]
  BY <1>1, TopTypes, FrameKinds DEF Sound
<1>3. Consumable(1) \in SUBSET Keys
  BY ConsumableTypes DEF Sound
<1> HIDE DEF f
<1>4. g \in [op : {"consume"}, at : Nat, keys : SUBSET Keys, progress : BOOLEAN] /\ g.op = "consume"
  BY <1>2, <1>3
<1>5. g \in Frame
  BY <1>4 DEF Frame
<1> HIDE DEF g
<1>6. /\ \A u \in Threads \ {t} : todo'[u] = todo[u]
      /\ Top(t)' = g
  BY <1>1, <1>4, <1>5, FrameChanged DEF f, Lonely, Sound
<1>7. ~In(t, "gather")'
  BY <1>4, <1>6 DEF In
<1> QED BY <1>1, <1>6, <1>7, QuietMatched DEF Queued

\* A persistent task takes a stored event: nothing stored is missed.
LEMMA ConsumeStoredMatched ==
  ASSUME Sound, Matched, NEW t \in Threads, ConsumeStored(t)
  PROVE  Matched'
<1> DEFINE f == Top(t)
           k == LeastSource(f.keys)
           task == registeredTasks[f.at]
           less == [task EXCEPT !.outstanding[k] = @ - 1]
           e == First(k)
           b == Arrive(less, k, e)
           g == [f EXCEPT !.keys = @ \ {k}]
<1>1. /\ todo[t] # <<>> /\ f.op = "consume" /\ Holds(t)
      /\ f \in [op : {"consume"}, at : Nat, keys : SUBSET Keys, progress : BOOLEAN]
      /\ f.at \in 1 .. Len(registeredTasks) /\ registeredTasks \in Seq(CleanTask)
      /\ task \in CleanTask
      /\ f.keys \subseteq {j \in Counted(task.outstanding) : IsStored(j)}
  BY ConsumingTypes DEF ConsumeStored
<1>2. /\ TakeFirst(k) /\ Replace(t, <<g>>)
      /\ registeredTasks' = [registeredTasks EXCEPT ![f.at] = b]
      /\ f.keys # {} /\ pausedTasks' = pausedTasks
  BY DEF ConsumeStored
<1>3. k \in f.keys /\ k \in Keys
  BY <1>1, <1>2, LeastSourceIn
<1>4. Patient(task, outstandingEvents)
  BY <1>1 DEF Matched, AllPatient
<1> HIDE DEF f, k, task
<1>5. k \in Counted(task.outstanding) /\ IsStored(k)
  BY <1>1, <1>3
<1>6. Queued(outstandingEvents') \subseteq Queued(outstandingEvents) /\ e \in Event
  BY <1>2, <1>3, <1>5, StoreTake DEF Sound, Plain
<1> HIDE DEF e
<1>7. /\ Counted(b.outstanding) \subseteq Counted(task.outstanding)
      /\ b.persistent = task.persistent /\ b.greedy = task.greedy
  <2>1. task.outstanding \in Count
    BY <1>1 DEF CleanTask, Task
  <2>2. task.outstanding[k] \in Nat /\ task.outstanding[k] # 0
    BY <1>3, <1>5, <2>1 DEF Counted, Count
  <2> DEFINE n == task.outstanding[k] - 1
  <2>3. n \in Nat
    BY <2>2
  <2>4. less = [task EXCEPT !.outstanding = [task.outstanding EXCEPT ![k] = n]]
    BY <1>1 DEF CleanTask, Task
  <2>5. task \in CleanTask
    BY <1>1
  <2> HIDE DEF less, n
  <2>6. /\ Counted(Arrive(less, k, e).outstanding) \subseteq Counted(task.outstanding)
        /\ Arrive(less, k, e).persistent = task.persistent
        /\ Arrive(less, k, e).greedy = task.greedy
    BY <1>3, <1>6, <2>2, <2>3, <2>4, <2>5, MetOnce
  <2> QED BY <2>6
<1> HIDE DEF b
<1>8. Patient(b, outstandingEvents)
  BY <1>4, <1>7, StaysPatient
<1>9. AllPatient(registeredTasks', outstandingEvents)
  BY <1>1, <1>2, <1>8, ListChanged DEF Matched
<1>10. AllPatient(registeredTasks', outstandingEvents') /\ AllPatient(pausedTasks, outstandingEvents')
  BY <1>6, <1>9, ListStaysPatient DEF Matched
<1>11. g \in [op : {"consume"}, at : Nat, keys : SUBSET Keys, progress : BOOLEAN] /\ g.op = "consume"
  BY <1>1
<1>12. g \in Frame
  BY <1>11 DEF Frame
<1> HIDE DEF g
<1>13. /\ \A u \in Threads \ {t} : todo'[u] = todo[u]
       /\ Top(t)' = g
  BY <1>1, <1>2, <1>11, <1>12, FrameChanged DEF f, Lonely, Sound
<1>14. ~In(t, "gather")'
  BY <1>11, <1>13 DEF In
<1>15. PatientFrames'
  BY <1>6, <1>13, <1>14, FramesPatient
<1> QED BY <1>2, <1>10, <1>15 DEF Matched

\* consumeEventsByPersistentTasks goes on to the next task, or again after one
\* fired: nothing stored is missed.
LEMMA ConsumeNextMatched ==
  ASSUME Sound, Matched, NEW t \in Threads, ConsumeNext(t)
  PROVE  Matched'
<1> DEFINE f == Top(t)
           task == registeredTasks[f.at]
           n == f.at + 1
           fires == task.persistent /\ Complete(task)
           b == f.progress \/ fires
           g == [f EXCEPT !.at = n, !.keys = Consumable(n), !.progress = b]
<1>1. /\ todo[t] # <<>> /\ f.op = "consume" /\ Holds(t)
      /\ f \in [op : {"consume"}, at : Nat, keys : SUBSET Keys, progress : BOOLEAN]
      /\ f.at \in 1 .. Len(registeredTasks) /\ registeredTasks \in Seq(CleanTask)
      /\ task \in CleanTask
  BY ConsumingTypes DEF ConsumeNext
<1>2. /\ Replace(t, <<g>>)
      /\ registeredTasks' = registeredTasks
           \/ (task.persistent /\ registeredTasks' = [registeredTasks EXCEPT ![f.at] = Rearm(task)])
      /\ UNCHANGED <<pausedTasks, outstandingEvents>>
  BY DEF ConsumeNext
<1>3. n \in Nat /\ Consumable(n) \in SUBSET Keys
  BY <1>1, ConsumableTypes DEF Sound
<1>4. b \in BOOLEAN
  BY <1>1 DEF CleanTask, Task
<1> HIDE DEF f, task, n, fires, b
<1>5. g \in [op : {"consume"}, at : Nat, keys : SUBSET Keys, progress : BOOLEAN] /\ g.op = "consume"
  BY <1>1, <1>3, <1>4
<1>6. g \in Frame
  BY <1>5 DEF Frame
<1> HIDE DEF g
<1>7. /\ \A u \in Threads \ {t} : todo'[u] = todo[u]
      /\ Top(t)' = g
  BY <1>1, <1>2, <1>5, <1>6, FrameChanged DEF f, Lonely, Sound
<1>8. ~In(t, "gather")'
  BY <1>5, <1>7 DEF In
<1>9. PatientFrames'
  BY <1>2, <1>7, <1>8, FramesPatient DEF Queued
<1>10. task.persistent => Patient(Rearm(task), outstandingEvents)
  BY <1>1, RearmKeeps, PersistentPatient
<1>11. AllPatient(registeredTasks, outstandingEvents)
  BY DEF Matched
<1>12. AllPatient(registeredTasks', outstandingEvents)
  BY <1>1, <1>2, <1>10, <1>11, ListChanged
<1> QED BY <1>2, <1>9, <1>12 DEF Matched

\* consumeEventsByPersistentTasks gives up the mutex: nothing stored is missed.
LEMMA ConsumeEndMatched ==
  ASSUME Sound, Matched, NEW t \in Threads, ConsumeEnd(t)
  PROVE  Matched'
<1> DEFINE f == Top(t)
           g == Anew(f)
<1>1. /\ todo[t] # <<>> /\ f.op = "consume"
      /\ Replace(t, <<g>>) \/ Return(t)
      /\ UNCHANGED <<registeredTasks, pausedTasks, outstandingEvents>>
  BY DEF ConsumeEnd, At, In
<1>2. f \in [op : {"consume"}, at : Nat, keys : SUBSET Keys, progress : BOOLEAN]
  BY <1>1, TopTypes, FrameKinds DEF Sound
<1>3. Consumable(1) \in SUBSET Keys
  BY ConsumableTypes DEF Sound
<1> HIDE DEF f
<1>4. g \in [op : {"consume"}, at : Nat, keys : SUBSET Keys, progress : BOOLEAN] /\ g.op = "consume"
  BY <1>2, <1>3 DEF Anew
<1>5. g \in Frame
  BY <1>4 DEF Frame
<1> HIDE DEF g
<1>6. ~In(t, "gather")' /\ \A u \in Threads \ {t} : todo'[u] = todo[u]
  <2>1. CASE Replace(t, <<g>>)
    <3>1. /\ \A u \in Threads \ {t} : todo'[u] = todo[u]
          /\ Top(t)' = g
      BY <1>1, <1>4, <1>5, <2>1, FrameChanged DEF f, Lonely, Sound
    <3> QED BY <1>4, <3>1 DEF In
  <2>2. CASE Return(t)
    BY <1>1, <2>2, ReturnedNotGathering DEF Sound
  <2> QED BY <1>1, <2>1, <2>2
<1> QED BY <1>1, <1>6, QuietMatched DEF Queued

-----------------------------------------------------------------------------
(* Tasks begin, waits end, events are retrieved, tasks are removed         *)

\* A task runs with its events: nothing stored is missed.
LEMMA RunTaskMatched ==
  ASSUME Matched, RunTask
  PROVE  Matched'
<1>1. UNCHANGED <<registeredTasks, pausedTasks, outstandingEvents, todo>>
  BY DEF RunTask
<1> QED BY <1>1 DEF Matched, PatientFrames, In, Top, AllPatient, Attended, Served, Patient,
                      Queued

\* A thread whose wait is over is found and resumed: nothing stored is missed.
LEMMA MarkThreadResumeMatched ==
  ASSUME Sound, Matched, NEW t \in Threads, MarkThreadResume(t)
  PROVE  Matched'
<1> DEFINE f == [op |-> "resumed", task |-> Top(t).task]
<1>1. PICK u \in Threads :
        In(u, "paused") /\ todo' = [todo EXCEPT ![t] = Tail(@), ![u] = <<f>>]
  BY DEF MarkThreadResume
<1>2. At(t, "resume") /\ UNCHANGED <<registeredTasks, pausedTasks, outstandingEvents>>
  BY DEF MarkThreadResume
<1>3. f = [op |-> "resumed", task |-> Top(t).task] /\ f.op = "resumed"
  OBVIOUS
<1> HIDE DEF f
<1>4. /\ Top(u)' = f
      /\ todo'[t] # <<>> => Top(t)' \in Resting
      /\ \A v \in Threads \ {t, u} : todo'[v] = todo[v]
  BY <1>1, <1>2, <1>3, Woken DEF Sound
<1>5. ~In(u, "gather")' /\ ~In(t, "gather")'
  <2>1. ~In(u, "gather")'
    BY <1>3, <1>4 DEF In
  <2>2. todo'[t] # <<>> => Top(t)'.op \notin Lonely
    BY <1>4, FrameKinds
  <2>3. ~In(t, "gather")'
    BY <2>2 DEF In, Lonely
  <2> QED BY <2>1, <2>3
<1>6. PatientFrames'
  <2> SUFFICES ASSUME NEW v \in Threads \ {t, u}, In(v, "gather")'
               PROVE  Attended(Top(v).task, outstandingEvents)'
    BY <1>5 DEF PatientFrames
  <2>1. In(v, "gather") /\ Top(v)' = Top(v)
    BY <1>4 DEF In, Top
  <2>2. Attended(Top(v).task, outstandingEvents)
    BY <2>1 DEF Matched, PatientFrames
  <2> QED BY <1>2, <2>1, <2>2 DEF Attended, Served, Patient, Queued
<1> QED BY <1>2, <1>6 DEF Matched, AllPatient, Patient, Queued

\* pauseTask returns the events of the wait: nothing stored is missed.
LEMMA ResumedMatched ==
  ASSUME Sound, Matched, NEW t \in Threads, Resumed(t)
  PROVE  Matched'
<1>1. todo[t] # <<>> /\ Return(t) /\ UNCHANGED <<registeredTasks, pausedTasks, outstandingEvents>>
  BY DEF Resumed, At, In
<1>2. ~In(t, "gather")' /\ \A u \in Threads \ {t} : todo'[u] = todo[u]
  BY <1>1, ReturnedNotGathering DEF Sound
<1> QED BY <1>1, <1>2, QuietMatched DEF Queued

\* retrieveAnyMatchingEvents takes the mutex: nothing stored is missed.
LEMMA RetrieveAnyMatched ==
  ASSUME Sound, Matched, NEW t \in Threads, RetrieveAny(t)
  PROVE  Matched'
<1>1. PICK order \in Menu.retrievals :
        todo' = [todo EXCEPT ![t] = <<[op |-> "retrieve", order |-> order]>>]
  BY DEF RetrieveAny
<1> DEFINE f == [op |-> "retrieve", order |-> order]
<1>2. todo' = [todo EXCEPT ![t] = <<f>>] /\ todo \in [Threads -> Seq(Frame)] /\ f.op = "retrieve"
  BY <1>1 DEF Sound, Stacks
<1> HIDE DEF f
<1>3. todo'[t] = <<f>> /\ \A u \in Threads \ {t} : todo'[u] = todo[u]
  BY <1>2
<1>4. Head(<<f>>) = f
  OBVIOUS
<1>5. ~In(t, "gather")'
  BY <1>2, <1>3, <1>4 DEF In, Top
<1>6. UNCHANGED <<registeredTasks, pausedTasks, outstandingEvents>>
  BY DEF RetrieveAny
<1> QED BY <1>3, <1>5, <1>6, QuietMatched DEF Queued

\* retrieveAnyMatchingEvents takes an event out of the store, or is done:
\* nothing stored is missed.
LEMMA RetrieveNextMatched ==
  ASSUME Sound, Matched, NEW t \in Threads, RetrieveNext(t)
  PROVE  Matched'
<1> DEFINE f == Top(t)
           k == Head(f.order)
           g == [f EXCEPT !.order = Tail(@)]
<1>1. /\ todo[t] # <<>> /\ f.op = "retrieve"
      /\ UNCHANGED <<registeredTasks, pausedTasks>>
  BY DEF RetrieveNext, At, In
<1>2. \/ Return(t) /\ UNCHANGED outstandingEvents
      \/ /\ f.order # <<>> /\ Replace(t, <<g>>)
         /\ UNCHANGED outstandingEvents \/ (IsStored(k) /\ TakeFirst(k))
  BY DEF RetrieveNext
<1>3. f \in [op : {"retrieve"}, order : Seq(Keys)]
  BY <1>1, TopTypes, FrameKinds DEF Sound
<1>4. CASE Return(t) /\ UNCHANGED outstandingEvents
  <2>1. ~In(t, "gather")' /\ \A u \in Threads \ {t} : todo'[u] = todo[u]
    BY <1>1, <1>4, ReturnedNotGathering DEF Sound
  <2> QED BY <1>1, <1>4, <2>1, QuietMatched DEF Queued
<1>5. CASE /\ f.order # <<>> /\ Replace(t, <<g>>)
           /\ UNCHANGED outstandingEvents \/ (IsStored(k) /\ TakeFirst(k))
  <2>1. k \in Keys /\ Tail(f.order) \in Seq(Keys)
    BY <1>3, <1>5
  <2>2. Queued(outstandingEvents') \subseteq Queued(outstandingEvents)
    <3>1. CASE UNCHANGED outstandingEvents
      BY <3>1 DEF Queued
    <3>2. CASE IsStored(k) /\ TakeFirst(k)
      <4> HIDE DEF k
      <4> QED BY <2>1, <3>2, StoreTake DEF Sound, Plain
    <3> QED BY <1>5, <3>1, <3>2
  <2> HIDE DEF f, k
  <2>3. g \in [op : {"retrieve"}, order : Seq(Keys)] /\ g.op = "retrieve"
    BY <1>3, <2>1
  <2>4. g \in Frame
    BY <2>3 DEF Frame
  <2> HIDE DEF g
  <2>5. /\ \A u \in Threads \ {t} : todo'[u] = todo[u]
        /\ Top(t)' = g
    BY <1>1, <1>5, <2>3, <2>4, FrameChanged DEF f, Lonely, Sound
  <2>6. ~In(t, "gather")'
    BY <2>3, <2>5 DEF In
  <2> QED BY <1>1, <2>2, <2>5, <2>6, QuietMatched
<1> QED BY <1>2, <1>4, <1>5

\* removeTask removes a task with its events: nothing stored is missed.
LEMMA RemoveTaskMatched ==
  ASSUME Sound, Matched, NEW t \in Threads, RemoveTask(t)
  PROVE  Matched'
<1>1. UNCHANGED <<pausedTasks, outstandingEvents, todo>>
  BY DEF RemoveTask
<1>2. PICK name \in Names \ {NoName} :
        \/ UNCHANGED registeredTasks
        \/ /\ Named(name) # {}
           /\ registeredTasks' = RemoveAt(registeredTasks, LeastIndex(Named(name)))
  BY DEF RemoveTask
<1>3. registeredTasks \in Seq(CleanTask) /\ AllPatient(registeredTasks, outstandingEvents)
  BY DEF Sound, TaskLists, Matched
<1>4. AllPatient(registeredTasks', outstandingEvents)
  <2>1. CASE UNCHANGED registeredTasks
    BY <1>3, <2>1 DEF AllPatient
  <2>2. CASE /\ Named(name) # {}
             /\ registeredTasks' = RemoveAt(registeredTasks, LeastIndex(Named(name)))
    <3>1. LeastIndex(Named(name)) \in 1 .. Len(registeredTasks)
      BY <1>3, <2>2, NamedTask
    <3> QED BY <1>3, <2>2, <3>1, ListChanged
  <2> QED BY <1>2, <2>1, <2>2
<1>5. PatientFrames'
  BY <1>1 DEF Matched, PatientFrames, In, Top, Attended, Served, Patient, Queued
<1> QED BY <1>1, <1>4, <1>5 DEF Matched

-----------------------------------------------------------------------------
(* The theorem                                                             *)

\* Nothing is stored at the start.
LEMMA InitMatched == Init => Matched
  BY DEF Init, Matched, AllPatient, PatientFrames, In

\* No step leaves a stored event beside a task that waits for it.
LEMMA StepMatched ==
  ASSUME Sound, Matched, [Next]_vars
  PROVE  Matched'
<1>1. CASE RunTask
  BY <1>1, RunTaskMatched
<1>2. ASSUME NEW t \in Threads, Call(t) PROVE Matched'
  BY <1>2, RegisterTaskMatched, PauseTaskMatched, RetrieveAnyMatched, RemoveTaskMatched,
     RegisterEventMatched, RegisterEventsMatched DEF Call
<1>3. ASSUME NEW t \in Threads, Step(t) PROVE Matched'
  BY <1>3, GatherStoredMatched, GatherMissingMatched, FinishRegisterTaskMatched,
     FinishPauseTaskMatched, MatchRegisteredMatched, MatchPausedMatched, StoreEventMatched,
     GreedyTakeMatched, GreedyNextMatched, FinishBatchMatched, ReadyToRunTaskMatched,
     ConsumeBeginMatched, ConsumeStoredMatched, ConsumeNextMatched, ConsumeEndMatched,
     MarkThreadResumeMatched, ResumedMatched, RetrieveNextMatched DEF Step
<1>4. CASE UNCHANGED vars
  BY <1>4 DEF vars, Matched, AllPatient, PatientFrames, Attended, Served, Patient, In, Top, Queued
<1> QED BY <1>1, <1>2, <1>3, <1>4 DEF Next, Stopped

\* No event is kept in the store while a task that runs once, or a wait, still
\* needs it: whatever threads submit, wait, fire and retrieve, each event of
\* registerEvent is offered to every task and wait before it is stored, and a
\* new task or wait has looked at the whole store before it is listed.
THEOREM NothingMissed == Spec => []NoMissedTransientMatch
<1>1. Sound /\ Matched /\ [Next]_vars => Matched'
  BY StepMatched
<1>2. Sound /\ Matched => NoMissedTransientMatch
  <2> SUFFICES ASSUME Sound, Matched, NEW task \in WaitingTasks
               PROVE  Patient(task, outstandingEvents)
    BY DEF NoMissedTransientMatch, Patient
  <2>1. registeredTasks \in Seq(CleanTask) /\ pausedTasks \in Seq(CleanTask)
    BY DEF Sound, TaskLists
  <2>2. CASE task \in ToSet(registeredTasks)
    BY <2>1, <2>2, SetOfSequence DEF Matched, AllPatient
  <2>3. CASE task \in ToSet(pausedTasks)
    BY <2>1, <2>3, SetOfSequence DEF Matched, AllPatient
  <2> QED BY <2>2, <2>3 DEF WaitingTasks
<1> QED BY InitMatched, Soundness, <1>1, <1>2, PTL DEF Spec

-----------------------------------------------------------------------------
(* Threads that wait                                                       *)

\* A thread sleeps in the wait; the wait is among the paused tasks.
Asleep(id) == \E u \in Threads : In(u, "paused") /\ Top(u).id = id
Filed(id) == \E i \in DOMAIN pausedTasks : pausedTasks[i].id = id

\* The wait, or task, that a thread is about to register or to end.
Handles(t) == In(t, "gather") \/ In(t, "resume")

\* Every paused task has its own thread that sleeps, and a task that is not
\* registered yet, or a wait that is over, is none of the paused ones.
Sleeping ==
  /\ \A i, j \in DOMAIN pausedTasks : pausedTasks[i].id = pausedTasks[j].id => i = j
  /\ \A i \in DOMAIN pausedTasks : pausedTasks[i].id < calls /\ Asleep(pausedTasks[i].id)
  /\ \A t \in Threads : Handles(t) => Top(t).task.id < calls /\ ~Filed(Top(t).task.id)
  /\ \A t, u \in Threads : In(t, "gather") /\ In(u, "resume") => Top(t).task.id # Top(u).task.id

\* The frame that comes first after a step.
LEMMA NewTop ==
  ASSUME Stacks, NEW t \in Threads, todo[t] # <<>>, NEW T, NEW fs \in Seq(T), Replace(t, fs)
  PROVE  /\ \A u \in Threads \ {t} : todo'[u] = todo[u]
         /\ fs # <<>> => todo'[t] # <<>> /\ Top(t)' = Head(fs)
         /\ fs = <<>> /\ todo'[t] # <<>> => Top(t)' \in Resting
<1> DEFINE r == Tail(todo[t])
<1>1. StackOK(todo[t]) /\ todo[t] \in Seq(Frame) /\ todo \in [Threads -> Seq(Frame)]
  BY DEF Stacks
<1>2. r \in Seq(Frame) /\ (r # <<>> => Head(r) \in Resting)
  <2>1. Follows(todo[t], <<>>)
    BY DEF Follows
  <2>2. <<>> = <<>> /\ <<>> \o Tail(todo[t]) = Tail(todo[t])
        /\ (Tail(todo[t]) # <<>> => Head(Tail(todo[t])) \in Resting)
    BY <1>1, <2>1, StackReplaced
  <2> QED BY <1>1, <2>2
<1>3. todo' = [todo EXCEPT ![t] = fs \o r]
  BY DEF Replace
<1> HIDE DEF r
<1>4. /\ todo'[t] = fs \o r
      /\ \A u \in Threads \ {t} : todo'[u] = todo[u]
  BY <1>1, <1>3
<1>5. CASE fs = <<>>
  <2>1. fs \o r = r
    BY <1>2, <1>5, ConcatEmptySeq
  <2> QED BY <1>2, <1>4, <1>5, <2>1 DEF Top
<1>6. CASE fs # <<>>
  <2> DEFINE U == T \union Frame
  <2>1. fs \in Seq(U) /\ r \in Seq(U)
    BY <1>2
  <2> HIDE DEF U
  <2>2. Len(fs \o r) >= 1 /\ (fs \o r)[1] = fs[1] /\ fs \o r \in Seq(U)
    BY <2>1, <1>6, ConcatProperties
  <2>3. fs \o r # <<>> /\ Head(fs \o r) = Head(fs)
    BY <1>6, <2>2
  <2> QED BY <1>4, <1>6, <2>3 DEF Top
<1> QED BY <1>5, <1>6

\* A single frame in place of the first one.
LEMMA NewFrame ==
  ASSUME Stacks, NEW t \in Threads, todo[t] # <<>>, NEW f, Replace(t, <<f>>)
  PROVE  /\ \A u \in Threads \ {t} : todo'[u] = todo[u]
         /\ todo'[t] # <<>> /\ Top(t)' = f
<1> DEFINE fs == <<f>>
<1>1. fs \in Seq({f}) /\ fs # <<>> /\ Head(fs) = f /\ Replace(t, fs)
  OBVIOUS
<1> HIDE DEF fs
<1> QED BY <1>1, NewTop

\* The tasks that are handled have numbers.
LEMMA HandledTypes ==
  ASSUME Stacks, NEW t \in Threads, Handles(t)
  PROVE  Top(t).task.id \in Nat /\ Top(t).task \in Task
<1>1. todo[t] # <<>> /\ Top(t).op \in {"gather", "resume"}
  BY DEF Handles, In
<1>2. Top(t).task \in Task
  BY <1>1, TopTypes, FrameKinds
<1> QED BY <1>2 DEF Task

\* Steps that neither file a wait nor end one.
LEMMA SleepStep ==
  ASSUME Sound, Sleeping, NEW t \in Threads, \A u \in Threads \ {t} : todo'[u] = todo[u],
         pausedTasks' = pausedTasks, calls' \in {calls, calls + 1},
         ~In(t, "paused"), ~In(t, "resume")',
         In(t, "gather")' => /\ Top(t)'.task.id < calls' /\ ~Filed(Top(t)'.task.id)
                             /\ \A u \in Threads \ {t} :
                                  In(u, "resume") => Top(u).task.id # Top(t)'.task.id
  PROVE  Sleeping'
<1>1. \A u \in Threads \ {t} : Top(u)' = Top(u) /\ \A op : In(u, op)' <=> In(u, op)
  BY DEF In, Top
<1>2. calls \in Nat /\ pausedTasks \in Seq(CleanTask)
  BY DEF Sound, Plain, TaskLists
<1>3. (\A i \in DOMAIN pausedTasks : pausedTasks[i].id < calls /\ Asleep(pausedTasks[i].id))'
  <2> SUFFICES ASSUME NEW i \in DOMAIN pausedTasks
               PROVE  /\ pausedTasks[i].id < calls'
                      /\ \E u \in Threads : In(u, "paused")' /\ Top(u)'.id = pausedTasks[i].id
    BY DEF Asleep
  <2>1. pausedTasks[i].id < calls /\ pausedTasks[i].id \in Nat
    BY <1>2 DEF Sleeping, CleanTask, Task
  <2>2. PICK u \in Threads : In(u, "paused") /\ Top(u).id = pausedTasks[i].id
    BY DEF Sleeping, Asleep
  <2>3. u # t
    BY <2>2
  <2>4. In(u, "paused")' /\ Top(u)'.id = pausedTasks[i].id
    BY <1>1, <2>2, <2>3
  <2> QED BY <1>2, <2>1, <2>4
<1>4. ASSUME NEW u \in Threads, Handles(u)'
      PROVE  (Top(u).task.id < calls /\ ~Filed(Top(u).task.id))'
  <2>1. Filed(Top(u).task.id)' <=> \E i \in DOMAIN pausedTasks' : pausedTasks'[i].id = Top(u)'.task.id
    BY DEF Filed
  <2>2. Filed(Top(u).task.id)' <=> Filed(Top(u)'.task.id)
    BY <2>1 DEF Filed
  <2>3. CASE u = t
    BY <1>4, <2>2, <2>3 DEF Handles
  <2>4. CASE u # t
    <3>1. Handles(u) /\ Top(u)' = Top(u)
      BY <1>1, <1>4, <2>4 DEF Handles
    <3>2. Top(u).task.id < calls /\ ~Filed(Top(u).task.id) /\ Top(u).task.id \in Nat
      BY <3>1, HandledTypes DEF Sleeping, Sound
    <3> QED BY <1>2, <2>2, <3>1, <3>2
  <2> QED BY <2>3, <2>4
<1>5. ASSUME NEW u \in Threads, NEW v \in Threads, In(u, "gather")', In(v, "resume")'
      PROVE  Top(u)'.task.id # Top(v)'.task.id
  <2>1. v # t /\ In(v, "resume") /\ Top(v)' = Top(v)
    BY <1>1, <1>5
  <2>2. CASE u = t
    BY <1>5, <2>1, <2>2
  <2>3. CASE u # t
    BY <1>1, <1>5, <2>1, <2>3 DEF Sleeping
  <2> QED BY <2>2, <2>3
<1>6. (\A i, j \in DOMAIN pausedTasks : pausedTasks[i].id = pausedTasks[j].id => i = j)'
  BY DEF Sleeping
<1> QED BY <1>3, <1>4, <1>5, <1>6 DEF Sleeping

\* The same for a thread that handles no task afterwards.
LEMMA SleepOn ==
  ASSUME Sound, Sleeping, NEW t \in Threads, \A u \in Threads \ {t} : todo'[u] = todo[u],
         UNCHANGED <<pausedTasks, calls>>,
         ~In(t, "paused"), ~In(t, "resume")', ~In(t, "gather")'
  PROVE  Sleeping'
BY SleepStep

\* The same for a thread that is done with its first frame.
LEMMA SleepReturned ==
  ASSUME Sound, Sleeping, NEW t \in Threads, todo[t] # <<>>, Top(t).op # "paused", Return(t),
         UNCHANGED <<pausedTasks, calls>>
  PROVE  Sleeping'
<1>1. /\ \A u \in Threads \ {t} : todo'[u] = todo[u]
      /\ todo'[t] # <<>> => Top(t)' \in Resting
  BY FrameReturned DEF Sound
<1>2. ~In(t, "paused") /\ ~In(t, "resume")' /\ ~In(t, "gather")'
  BY <1>1 DEF In, Resting, ConsumeFrame
<1> QED BY <1>1, <1>2, SleepOn

\* The same for a thread whose first frame is replaced by another.
LEMMA SleepReplaced ==
  ASSUME Sound, Sleeping, NEW t \in Threads, todo[t] # <<>>, Top(t).op # "paused",
         NEW f, Replace(t, <<f>>), f.op \notin {"gather", "resume"}, UNCHANGED <<pausedTasks, calls>>
  PROVE  Sleeping'
<1>1. (\A u \in Threads \ {t} : todo'[u] = todo[u]) /\ Top(t)' = f
  BY NewFrame DEF Sound
<1>2. ~In(t, "paused") /\ ~In(t, "resume")' /\ ~In(t, "gather")'
  BY <1>1 DEF In
<1> QED BY <1>1, <1>2, SleepOn

\* The same for a thread that goes on with other frames.
LEMMA SleepFrames ==
  ASSUME Sound, Sleeping, NEW t \in Threads, todo[t] # <<>>, Top(t).op # "paused",
         NEW fs \in Seq(Frame), Replace(t, fs), fs # <<>> => Head(fs).op \notin {"gather", "resume"},
         UNCHANGED <<pausedTasks, calls>>
  PROVE  Sleeping'
<1>1. /\ \A u \in Threads \ {t} : todo'[u] = todo[u]
      /\ fs # <<>> => todo'[t] # <<>> /\ Top(t)' = Head(fs)
      /\ fs = <<>> /\ todo'[t] # <<>> => Top(t)' \in Resting
  BY NewTop DEF Sound
<1>2. ~In(t, "resume")' /\ ~In(t, "gather")' /\ ~In(t, "paused")
  BY <1>1 DEF In, Resting, ConsumeFrame
<1> QED BY <1>1, <1>2, SleepOn
\* A new task has a number that no other one has.
LEMMA GatherSleeps ==
  ASSUME Sound, Sleeping, NEW t \in Threads, NEW call \in {"register", "wait"}, NEW s \in Submission,
         Gather(t, call, s)
  PROVE  Sleeping'
<1> DEFINE f == [op |-> "gather", call |-> call, task |-> NewTask(s), next |-> 1, found |-> FALSE]
<1>1. /\ todo' = [todo EXCEPT ![t] = <<f>>] /\ todo[t] = <<>>
      /\ calls' = calls + 1 /\ pausedTasks' = pausedTasks
  BY DEF Gather, MayCall, Outside
<1>2. calls \in Nat /\ pausedTasks \in Seq(CleanTask)
  BY DEF Sound, Plain, TaskLists
<1>3. f.op = "gather" /\ f.task.id = calls /\ f.task \in CleanTask
  BY <1>2, NewTaskClean
<1>4. f \in Frame
  BY <1>3 DEF Frame, CleanTask
<1> HIDE DEF f
<1>5. (\A u \in Threads \ {t} : todo'[u] = todo[u]) /\ todo'[t] # <<>> /\ Top(t)' = f
  BY <1>1, <1>3, <1>4, FrameEntered DEF Sound
<1>6. ~In(t, "paused") /\ ~In(t, "resume")'
  BY <1>1, <1>3, <1>5 DEF In
<1>7. ~Filed(calls)
  BY <1>2 DEF Filed, Sleeping, CleanTask, Task
<1>8. ASSUME NEW u \in Threads, In(u, "resume") PROVE Top(u).task.id # calls
  <2>1. Handles(u)
    BY <1>8 DEF Handles
  <2>2. Top(u).task.id \in Nat /\ Top(u).task.id < calls
    BY <2>1, HandledTypes DEF Sleeping, Sound
  <2> QED BY <1>2, <2>2
<1> QED BY <1>1, <1>2, <1>3, <1>5, <1>6, <1>7, <1>8, SleepStep

\* A step that goes on gathering for the same task.
LEMMA GatheringSleeps ==
  ASSUME Sound, Sleeping, NEW t \in Threads, In(t, "gather"), NEW f, Replace(t, <<f>>),
         f.op = "gather", f.task.id = Top(t).task.id, UNCHANGED <<pausedTasks, calls>>
  PROVE  Sleeping'
<1>1. todo[t] # <<>> /\ Handles(t)
  BY DEF In, Handles
<1>2. (\A u \in Threads \ {t} : todo'[u] = todo[u]) /\ Top(t)' = f
  BY <1>1, NewFrame DEF Sound
<1>3. ~In(t, "paused") /\ ~In(t, "resume")'
  BY <1>2 DEF In
<1>4. /\ Top(t).task.id < calls /\ ~Filed(Top(t).task.id)
      /\ \A u \in Threads : In(u, "resume") => Top(u).task.id # Top(t).task.id
  BY <1>1 DEF Sleeping
<1> QED BY <1>2, <1>3, <1>4, SleepStep

\* A dependency that is found in the store: sleeping waits stay paired.
LEMMA GatherStoredSleeps ==
  ASSUME Sound, Sleeping, NEW t \in Threads, GatherStored(t)
  PROVE  Sleeping'
<1> DEFINE f == Top(t)  k == f.task.order[f.next]
           task == Arrive(Noted(f), k, First(k))
           g == [f EXCEPT !.task = task, !.next = IF f.task.greedy THEN @ ELSE @ + 1,
                          !.found = f.task.greedy]
<1>1. /\ In(t, "gather") /\ todo[t] # <<>> /\ f.op = "gather"
      /\ Replace(t, <<g>>) /\ UNCHANGED <<pausedTasks, calls>>
  BY DEF GatherStored, Gathering, At, In
<1>2. /\ f \in [op : {"gather"}, call : {"register", "wait"}, task : Task, next : Nat, found : BOOLEAN]
      /\ f.task \in Task
  BY <1>1, TopTypes, FrameKinds DEF Sound
<1>3. task.id = f.task.id
  <2> DEFINE noted == Noted(f)
  <2>1. noted.id = f.task.id /\ \E x, y, z : noted = [f.task EXCEPT !.original = x] \/ noted = f.task
    <3> HIDE DEF f, k
    <3> QED BY <1>2 DEF Noted, Task
  <2>2. [noted EXCEPT !.arrived = Push(@, k, First(k)), !.numArrivedEvents = @ + 1].id = noted.id
    <3> HIDE DEF f, k
    <3> QED BY <1>2, <2>1 DEF Task
  <2> QED BY <2>1, <2>2 DEF Arrive
<1> HIDE DEF task
<1>4. g.op = "gather" /\ g.task = task
  <2> HIDE DEF f, k
  <2> QED BY <1>2
<1> HIDE DEF g
<1> QED BY <1>1, <1>3, <1>4, GatheringSleeps

\* A dependency that is not found in the store: sleeping waits stay paired.
LEMMA GatherMissingSleeps ==
  ASSUME Sound, Sleeping, NEW t \in Threads, GatherMissing(t)
  PROVE  Sleeping'
<1> DEFINE f == Top(t)  k == f.task.order[f.next]
           noted == [Noted(f) EXCEPT !.outstanding = Bump(@, k)]
           task == IF f.found THEN f.task ELSE noted
           g == [f EXCEPT !.task = task, !.next = @ + 1, !.found = FALSE]
<1>1. /\ In(t, "gather") /\ todo[t] # <<>> /\ f.op = "gather"
      /\ Replace(t, <<g>>) /\ UNCHANGED <<pausedTasks, calls>>
  BY DEF GatherMissing, Gathering, At, In
<1>2. /\ f \in [op : {"gather"}, call : {"register", "wait"}, task : Task, next : Nat, found : BOOLEAN]
      /\ f.task \in Task
  BY <1>1, TopTypes, FrameKinds DEF Sound
<1>3. task.id = f.task.id
  <2> HIDE DEF f, k
  <2> QED BY <1>2 DEF Noted, Task
<1> HIDE DEF task
<1>4. g.op = "gather" /\ g.task = task
  <2> HIDE DEF f, k
  <2> QED BY <1>2
<1> HIDE DEF g
<1> QED BY <1>1, <1>3, <1>4, GatheringSleeps

\* registerTask runs, registers or re-arms the task: sleeping waits stay paired.
LEMMA FinishRegisterTaskSleeps ==
  ASSUME Sound, Sleeping, NEW t \in Threads, FinishRegisterTask(t)
  PROVE  Sleeping'
<1> DEFINE a == StartFrame(Top(t).task)
           fs == <<a, ConsumeFrame>>
<1>1. /\ In(t, "gather") /\ todo[t] # <<>> /\ Top(t).op = "gather"
      /\ Replace(t, fs) \/ Return(t)
      /\ UNCHANGED <<pausedTasks, calls>>
  BY DEF FinishRegisterTask, Gathered, At, In
<1>2. Top(t).task \in Task
  BY <1>1, TopTypes, FrameKinds DEF Sound
<1>3. a \in Frame /\ a.op = "start" /\ ConsumeFrame \in Frame
  BY <1>2 DEF StartFrame, Frame, ConsumeFrame
<1> HIDE DEF a
<1>4. fs \in Seq(Frame) /\ fs # <<>> /\ Head(fs) = a
  BY <1>3
<1> HIDE DEF fs
<1>5. CASE Replace(t, fs)
  BY <1>1, <1>3, <1>4, <1>5, SleepFrames
<1> QED BY <1>1, <1>5, SleepReturned

\* The same for a thread that begins a call.
LEMMA SleepEntered ==
  ASSUME Sound, Sleeping, NEW t \in Threads, todo[t] = <<>>, NEW f, todo' = [todo EXCEPT ![t] = <<f>>],
         f.op \notin {"gather", "resume"}, UNCHANGED <<pausedTasks, calls>>
  PROVE  Sleeping'
<1>1. (\A u \in Threads \ {t} : todo'[u] = todo[u]) /\ todo'[t] = <<f>>
  BY DEF Sound, Stacks
<1>2. Head(<<f>>) = f
  OBVIOUS
<1>3. ~In(t, "paused") /\ ~In(t, "resume")' /\ ~In(t, "gather")'
  BY <1>1, <1>2 DEF In, Top
<1> QED BY <1>1, <1>3, SleepOn

\* A wait that is not over is filed, and its thread sleeps.
LEMMA FinishPauseTaskSleeps ==
  ASSUME Sound, Sleeping, NEW t \in Threads, FinishPauseTask(t)
  PROVE  Sleeping'
<1> DEFINE task == Top(t).task
           f == [op |-> "paused", id |-> task.id]
<1>1. /\ In(t, "gather") /\ todo[t] # <<>> /\ Top(t).op = "gather" /\ calls' = calls
      /\ \/ Return(t) /\ pausedTasks' = pausedTasks
         \/ pausedTasks' = Append(pausedTasks, task) /\ Replace(t, <<f>>)
  BY DEF FinishPauseTask, Gathered, At, In
<1>2. CASE Return(t) /\ pausedTasks' = pausedTasks
  BY <1>1, <1>2, SleepReturned
<1>3. CASE pausedTasks' = Append(pausedTasks, task) /\ Replace(t, <<f>>)
  <2>1. f.op = "paused" /\ f.id = task.id
    OBVIOUS
  <2>2. /\ Handles(t) /\ task.id \in Nat
        /\ task.id < calls /\ ~Filed(task.id)
    BY <1>1, HandledTypes DEF Handles, Sleeping, Sound
  <2> HIDE DEF task, f
  <2>3. (\A u \in Threads \ {t} : todo'[u] = todo[u]) /\ todo'[t] # <<>> /\ Top(t)' = f
    BY <1>1, <1>3, NewFrame DEF Sound
  <2>4. \A u \in Threads \ {t} : Top(u)' = Top(u) /\ \A op : In(u, op)' <=> In(u, op)
    BY <2>3 DEF In, Top
  <2>5. In(t, "paused")' /\ ~Handles(t)'
    BY <2>1, <2>3 DEF In, Handles
  <2> DEFINE p == pausedTasks  n == Len(pausedTasks)
  <2>6. /\ p \in Seq(CleanTask) /\ n \in Nat
        /\ \A i \in 1 .. n : p[i].id \in Nat
    BY DEF Sound, TaskLists, CleanTask, Task
  <2>7. /\ DOMAIN p = 1 .. n /\ DOMAIN p' = 1 .. n + 1
        /\ \A i \in 1 .. n : p'[i] = p[i]
        /\ p'[n + 1] = task
    BY <2>6, <1>3
  <2>8. \A i \in 1 .. n : p[i].id # task.id
    BY <2>2, <2>7 DEF Filed
  <2> HIDE DEF n, p
  <2>9. (\A i, j \in DOMAIN pausedTasks : pausedTasks[i].id = pausedTasks[j].id => i = j)'
    <3> SUFFICES ASSUME NEW i \in DOMAIN p', NEW j \in DOMAIN p', p'[i].id = p'[j].id PROVE i = j
      BY DEF p
    <3>1. \A a, b \in 1 .. n : p[a].id = p[b].id => a = b
      BY <2>7 DEF Sleeping, p
    <3>2. (i \in 1 .. n \/ i = n + 1) /\ (j \in 1 .. n \/ j = n + 1)
      BY <2>6, <2>7
    <3> QED BY <2>7, <2>8, <3>1, <3>2
  <2>10. (\A i \in DOMAIN pausedTasks : pausedTasks[i].id < calls /\ Asleep(pausedTasks[i].id))'
    <3> SUFFICES ASSUME NEW i \in DOMAIN p'
                 PROVE  /\ p'[i].id < calls'
                        /\ \E u \in Threads : In(u, "paused")' /\ Top(u)'.id = p'[i].id
      BY DEF Asleep, p
    <3>1. CASE i = n + 1
      BY <1>1, <2>1, <2>2, <2>3, <2>5, <2>7, <3>1
    <3>2. CASE i \in 1 .. n
      <4>1. p'[i] = p[i] /\ p[i].id < calls /\ Asleep(p[i].id)
        BY <2>7, <3>2 DEF Sleeping, p
      <4>2. PICK u \in Threads : In(u, "paused") /\ Top(u).id = p[i].id
        BY <4>1 DEF Asleep
      <4>3. u # t
        BY <1>1, <4>2 DEF In
      <4> QED BY <1>1, <2>4, <4>1, <4>2, <4>3
    <3> QED BY <2>6, <2>7, <3>1, <3>2
  <2>11. ASSUME NEW u \in Threads, Handles(u)'
         PROVE  (Top(u).task.id < calls /\ ~Filed(Top(u).task.id))'
    <3>1. u # t /\ Handles(u) /\ Top(u)' = Top(u)
      BY <2>4, <2>5, <2>11 DEF Handles
    <3>2. Top(u).task.id < calls /\ ~Filed(Top(u).task.id)
      BY <3>1 DEF Sleeping
    <3>3. Top(u).task.id # task.id
      <4>1. CASE In(u, "resume")
        BY <1>1, <4>1 DEF Sleeping, task
      <4>2. CASE In(u, "gather")
        <5>1. Holds(u) /\ Holds(t)
          BY <1>1, <4>2 DEF Sound, AllCritical, Critical, In
        <5> QED BY <3>1, <5>1 DEF Holds
      <4> QED BY <3>1, <4>1, <4>2 DEF Handles
    <3>4. \A i \in DOMAIN p' : p'[i].id # Top(u)'.task.id
      <4> SUFFICES ASSUME NEW i \in DOMAIN p' PROVE p'[i].id # Top(u).task.id
        BY <3>1
      <4>1. \A j \in 1 .. n : p[j].id # Top(u).task.id
        BY <2>7, <3>2 DEF Filed, p
      <4>2. i \in 1 .. n \/ i = n + 1
        BY <2>6, <2>7
      <4> QED BY <2>7, <3>3, <4>1, <4>2
    <3> QED BY <1>1, <3>1, <3>2, <3>4 DEF Filed, p
  <2>12. ASSUME NEW u \in Threads, NEW v \in Threads, In(u, "gather")', In(v, "resume")'
         PROVE  Top(u)'.task.id # Top(v)'.task.id
    <3>1. u # t /\ v # t
      BY <2>5, <2>12 DEF Handles
    <3> QED BY <2>4, <2>12, <3>1 DEF Sleeping
  <2> QED BY <2>9, <2>10, <2>11, <2>12 DEF Sleeping
<1> QED BY <1>1, <1>2, <1>3

\* A step that takes waits out of the paused ones, or changes them but not
\* their numbers.
LEMMA FewerFiled ==
  ASSUME Sound, Sleeping, NEW t \in Threads, \A u \in Threads \ {t} : todo'[u] = todo[u],
         calls' = calls, ~In(t, "paused"), ~In(t, "gather")',
         \A i, j \in DOMAIN pausedTasks' : pausedTasks'[i].id = pausedTasks'[j].id => i = j,
         \A j \in DOMAIN pausedTasks' :
            \E i \in DOMAIN pausedTasks : pausedTasks'[j].id = pausedTasks[i].id,
         In(t, "resume")' =>
           /\ \E i \in DOMAIN pausedTasks : Top(t)'.task.id = pausedTasks[i].id
           /\ \A j \in DOMAIN pausedTasks' : pausedTasks'[j].id # Top(t)'.task.id
  PROVE  Sleeping'
<1>1. \A u \in Threads \ {t} : Top(u)' = Top(u) /\ \A op : In(u, op)' <=> In(u, op)
  BY DEF In, Top
<1>2. (\A i \in DOMAIN pausedTasks : pausedTasks[i].id < calls /\ Asleep(pausedTasks[i].id))'
  <2> SUFFICES ASSUME NEW j \in DOMAIN pausedTasks'
               PROVE  /\ pausedTasks'[j].id < calls
                      /\ \E u \in Threads : In(u, "paused")' /\ Top(u)'.id = pausedTasks'[j].id
    BY DEF Asleep
  <2>1. PICK i \in DOMAIN pausedTasks : pausedTasks'[j].id = pausedTasks[i].id
    OBVIOUS
  <2>2. PICK u \in Threads : In(u, "paused") /\ Top(u).id = pausedTasks[i].id
    BY DEF Sleeping, Asleep
  <2>3. u # t
    BY <2>2
  <2> QED BY <1>1, <2>1, <2>2, <2>3 DEF Sleeping
<1>3. ASSUME NEW u \in Threads, Handles(u)'
      PROVE  (Top(u).task.id < calls /\ ~Filed(Top(u).task.id))'
  <2>1. CASE u = t
    <3>1. In(t, "resume")'
      BY <1>3, <2>1 DEF Handles
    <3>2. PICK i \in DOMAIN pausedTasks : Top(t)'.task.id = pausedTasks[i].id
      BY <3>1
    <3> QED BY <2>1, <3>1, <3>2 DEF Sleeping, Filed
  <2>2. CASE u # t
    <3>1. Handles(u) /\ Top(u)' = Top(u)
      BY <1>1, <1>3, <2>2 DEF Handles
    <3> QED BY <3>1 DEF Sleeping, Filed
  <2> QED BY <2>1, <2>2
<1>4. ASSUME NEW u \in Threads, NEW v \in Threads, In(u, "gather")', In(v, "resume")'
      PROVE  Top(u)'.task.id # Top(v)'.task.id
  <2>1. u # t /\ In(u, "gather") /\ Top(u)' = Top(u)
    BY <1>1, <1>4
  <2>2. CASE v = t
    <3>1. PICK i \in DOMAIN pausedTasks : Top(t)'.task.id = pausedTasks[i].id
      BY <1>4, <2>2
    <3>2. ~Filed(Top(u).task.id)
      BY <2>1 DEF Sleeping, Handles
    <3> QED BY <2>1, <2>2, <3>1, <3>2 DEF Filed
  <2>3. CASE v # t
    BY <1>1, <1>4, <2>1, <2>3 DEF Sleeping
  <2> QED BY <2>2, <2>3
<1> QED BY <1>2, <1>3, <1>4 DEF Sleeping

\* registerEvent gives the event to a paused task: a wait that is over is no
\* longer filed, and is handed to its thread.
LEMMA MatchPausedSleeps ==
  ASSUME Sound, Sleeping, NEW t \in Threads, MatchPaused(t)
  PROVE  Sleeping'
<1> DEFINE e == Top(t).event
           i == LeastIndex(Matching(pausedTasks, e.key))
           task == Satisfy(pausedTasks[i], e.key, e)
           f == [op |-> "resume", task |-> task]
           s == Again(t)
           fs == <<f>> \o s
           p == pausedTasks
<1>1. /\ todo[t] # <<>> /\ Top(t).op = "event" /\ e \in Event /\ calls' = calls
      /\ \/ p' = RemoveAt(p, i) /\ Replace(t, fs)
         \/ p' = [p EXCEPT ![i] = task] /\ Replace(t, s)
  BY RegisteringTypes DEF MatchPaused
<1>2. /\ Matching(p, e.key) # {} /\ p \in Seq(CleanTask)
  BY DEF MatchPaused, Sound, TaskLists
<1>3. /\ i \in 1 .. Len(p) /\ task \in CleanTask /\ task.id = p[i].id
  <2> DEFINE a == task  j == i  x == e
  <2>1. x \in Event /\ Matching(pausedTasks, x.key) # {}
        /\ j = LeastIndex(Matching(pausedTasks, x.key))
        /\ a = Satisfy(pausedTasks[j], x.key, x)
    BY <1>1, <1>2
  <2> HIDE DEF a, j, x
  <2>2. /\ j \in 1 .. Len(pausedTasks) /\ a \in CleanTask
        /\ pausedTasks[j] \in CleanTask /\ Depends(pausedTasks[j].outstanding, x.key)
    BY <1>2, <2>1, MatchingTask
  <2>3. x.key \in Keys
    BY <2>1, KeysInt DEF Event
  <2>4. a.id = pausedTasks[j].id
    BY <2>1, <2>2, <2>3, SatisfyKeeps
  <2> QED BY <2>2, <2>4 DEF a, j
<1>4. /\ s \in Seq(Frame) /\ (s # <<>> => Head(s).op = "event")
      /\ \A j \in 1 .. Len(s) : s[j] \in Resting
  BY AgainFrames DEF MatchPaused
<1>5. f.op = "resume" /\ f.task = task
  OBVIOUS
<1>6. f \in Frame
  BY <1>3 DEF CleanTask, Frame
<1> HIDE DEF e, i, task, f, s
<1>7. fs \in Seq(Frame) /\ fs # <<>> /\ Head(fs) = f
  <2>1. Follows(todo[t], fs) /\ fs # <<>> /\ Head(fs) = f
    BY <1>4, <1>5, <1>6, FrameFollows DEF Lonely
  <2> QED BY <2>1 DEF Follows
<1> HIDE DEF fs
<1>8. ~In(t, "paused")
  BY <1>1 DEF In
<1>9. \A a, b \in 1 .. Len(p) : p[a].id = p[b].id => a = b
  BY <1>2 DEF Sleeping
<1>10. CASE p' = RemoveAt(p, i) /\ Replace(t, fs)
  <2>1. (\A u \in Threads \ {t} : todo'[u] = todo[u]) /\ todo'[t] # <<>> /\ Top(t)' = f
    BY <1>1, <1>7, <1>10, NewTop DEF Sound
  <2>2. ~In(t, "gather")'
    BY <1>5, <2>1 DEF In
  <2> DEFINE r == RemoveAt(p, i)
  <2>3. /\ DOMAIN r = 1 .. Len(p) - 1 /\ Len(p) \in Nat
        /\ \A j \in 1 .. Len(p) - 1 : r[j] = IF j < i THEN p[j] ELSE p[j + 1]
    BY <1>2, <1>3, Removal
  <2> HIDE DEF r
  <2>4. ASSUME NEW j \in DOMAIN r, NEW k \in DOMAIN r, r[j].id = r[k].id PROVE j = k
    <3>1. j \in 1 .. Len(p) /\ j + 1 \in 1 .. Len(p) /\ k \in 1 .. Len(p) /\ k + 1 \in 1 .. Len(p)
      BY <2>3
    <3> QED BY <1>3, <1>9, <2>3, <2>4, <3>1
  <2>5. ASSUME NEW j \in DOMAIN r
        PROVE  r[j].id # p[i].id /\ \E k \in 1 .. Len(p) : r[j].id = p[k].id
    <3>1. j \in 1 .. Len(p) /\ j + 1 \in 1 .. Len(p)
      BY <2>3
    <3> QED BY <1>3, <1>9, <2>3, <3>1
  <2>6. p' = r /\ DOMAIN p = 1 .. Len(p)
    BY <1>2, <1>10 DEF r
  <2>7. Top(t)'.task.id = p[i].id
    BY <1>3, <1>5, <2>1
  <2> HIDE DEF p
  <2> QED BY <1>1, <1>3, <1>8, <2>1, <2>2, <2>4, <2>5, <2>6, <2>7, FewerFiled DEF p
<1>11. CASE p' = [p EXCEPT ![i] = task] /\ Replace(t, s)
  <2>1. /\ \A u \in Threads \ {t} : todo'[u] = todo[u]
        /\ s # <<>> => todo'[t] # <<>> /\ Top(t)' = Head(s)
        /\ s = <<>> /\ todo'[t] # <<>> => Top(t)' \in Resting
    BY <1>1, <1>4, <1>11, NewTop DEF Sound
  <2>2. ~In(t, "gather")' /\ ~In(t, "resume")'
    BY <1>4, <2>1 DEF In, Resting, ConsumeFrame
  <2>3. DOMAIN p = 1 .. Len(p) /\ DOMAIN p' = 1 .. Len(p)
    BY <1>2, <1>11
  <2>4. \A j \in 1 .. Len(p) : p'[j].id = p[j].id
    BY <1>2, <1>3, <1>11
  <2> HIDE DEF p
  <2> QED BY <1>1, <1>8, <1>9, <2>1, <2>2, <2>3, <2>4, FewerFiled DEF p
<1> QED BY <1>1, <1>10, <1>11

\* A thread whose wait is over is found and resumed: no other wait has it.
LEMMA MarkThreadResumeSleeps ==
  ASSUME Sound, Sleeping, NEW t \in Threads, MarkThreadResume(t)
  PROVE  Sleeping'
<1> DEFINE f == [op |-> "resumed", task |-> Top(t).task]
<1>1. PICK u \in Threads :
        /\ In(u, "paused") /\ Top(u).id = Top(t).task.id
        /\ todo' = [todo EXCEPT ![t] = Tail(@), ![u] = <<f>>]
  BY DEF MarkThreadResume
<1>2. At(t, "resume") /\ In(t, "resume") /\ UNCHANGED <<pausedTasks, calls>>
  BY DEF MarkThreadResume, At
<1>3. f = [op |-> "resumed", task |-> Top(t).task] /\ f.op = "resumed"
  OBVIOUS
<1> HIDE DEF f
<1>4. /\ Top(u)' = f
      /\ todo'[t] # <<>> => Top(t)' \in Resting
      /\ \A v \in Threads \ {t, u} : todo'[v] = todo[v]
  BY <1>1, <1>2, <1>3, Woken, ZenonT(60) DEF Sound
<1>5. ~Handles(u)' /\ ~Handles(t)'
  BY <1>3, <1>4 DEF Handles, In, Resting, ConsumeFrame
<1>6. \A v \in Threads \ {t, u} : Top(v)' = Top(v) /\ \A op : In(v, op)' <=> In(v, op)
  BY <1>4 DEF In, Top
<1>7. (\A i \in DOMAIN pausedTasks : pausedTasks[i].id < calls /\ Asleep(pausedTasks[i].id))'
  <2> SUFFICES ASSUME NEW i \in DOMAIN pausedTasks
               PROVE  /\ pausedTasks[i].id < calls
                      /\ \E v \in Threads : In(v, "paused")' /\ Top(v)'.id = pausedTasks[i].id
    BY <1>2 DEF Asleep
  <2>1. PICK v \in Threads : In(v, "paused") /\ Top(v).id = pausedTasks[i].id
    BY DEF Sleeping, Asleep
  <2>2. ~Filed(Top(t).task.id)
    BY <1>2 DEF Sleeping, Handles
  <2>3. v # u
    BY <1>1, <2>1, <2>2 DEF Filed
  <2>4. v # t
    BY <1>2, <2>1 DEF In
  <2> QED BY <1>6, <2>1, <2>3, <2>4 DEF Sleeping
<1>8. ASSUME NEW v \in Threads, Handles(v)'
      PROVE  (Top(v).task.id < calls /\ ~Filed(Top(v).task.id))'
  <2>1. v # t /\ v # u
    BY <1>5, <1>8
  <2>2. Handles(v) /\ Top(v)' = Top(v)
    BY <1>6, <1>8, <2>1 DEF Handles
  <2> QED BY <1>2, <2>2 DEF Sleeping, Filed
<1>9. ASSUME NEW v \in Threads, NEW w \in Threads, In(v, "gather")', In(w, "resume")'
      PROVE  Top(v)'.task.id # Top(w)'.task.id
  <2>1. v # t /\ v # u /\ w # t /\ w # u
    BY <1>5, <1>9 DEF Handles
  <2> QED BY <1>6, <1>9, <2>1 DEF Sleeping
<1>10. (\A i, j \in DOMAIN pausedTasks : pausedTasks[i].id = pausedTasks[j].id => i = j)'
  BY <1>2 DEF Sleeping
<1> QED BY <1>7, <1>8, <1>9, <1>10 DEF Sleeping

\* registerTask takes the mutex: sleeping waits stay paired.
LEMMA RegisterTaskSleeps ==
  ASSUME Sound, Sleeping, NEW t \in Threads, RegisterTask(t)
  PROVE  Sleeping'
<1>1. Menu \in Program
  BY MenuTypes DEF Sound, Plain
<1>2. PICK s \in Menu.tasks : Gather(t, "register", s)
  BY DEF RegisterTask
<1>3. s \in Submission
  BY <1>1 DEF Program
<1> QED BY <1>2, <1>3, GatherSleeps

\* pauseTask takes the mutex: sleeping waits stay paired.
LEMMA PauseTaskSleeps ==
  ASSUME Sound, Sleeping, NEW t \in Threads, PauseTask(t)
  PROVE  Sleeping'
<1>1. Menu \in Program
  BY MenuTypes DEF Sound, Plain
<1> DEFINE s(order) == [order |-> order, persistent |-> FALSE, greedy |-> FALSE, name |-> NoName]
<1>2. PICK order \in Menu.waits : Gather(t, "wait", s(order))
  BY DEF PauseTask
<1>3. order \in Seq(Keys)
  BY <1>1 DEF Program
<1>4. s(order) \in Submission
  BY <1>3 DEF Submission
<1> HIDE DEF s
<1> QED BY <1>2, <1>4, GatherSleeps

\* registerEvent takes the mutex with a new event: sleeping waits stay paired.
LEMMA RegisterEventSleeps ==
  ASSUME Sound, Sleeping, NEW t \in Threads, RegisterEvent(t)
  PROVE  Sleeping'
<1>1. todo[t] = <<>> /\ UNCHANGED <<pausedTasks, calls>>
  BY DEF RegisterEvent, Outside
<1>2. PICK kind \in Menu.kinds : todo' = [todo EXCEPT ![t] = <<EventFrame(NewEvent(kind, 1))>>]
  BY DEF RegisterEvent
<1>3. EventFrame(NewEvent(kind, 1)).op = "event"
  BY DEF EventFrame
<1> QED BY <1>1, <1>2, <1>3, SleepEntered

\* registerEvent gives the event to a registered task: sleeping waits stay paired.
LEMMA MatchRegisteredSleeps ==
  ASSUME Sound, Sleeping, NEW t \in Threads, MatchRegistered(t)
  PROVE  Sleeping'
<1> DEFINE e == Top(t).event
           i == LeastIndex(Matching(registeredTasks, e.key))
           task == Satisfy(registeredTasks[i], e.key, e)
           a == StartFrame(task)
           b == <<a, ConsumeFrame>>
           s == Again(t)
<1>1. /\ todo[t] # <<>> /\ Top(t).op = "event" /\ e \in Event
      /\ Replace(t, b \o s) \/ Replace(t, s)
      /\ UNCHANGED <<pausedTasks, calls>>
  BY RegisteringTypes DEF MatchRegistered
<1>2. Matching(registeredTasks, e.key) # {} /\ registeredTasks \in Seq(CleanTask)
  BY DEF MatchRegistered, Sound, TaskLists
<1>3. task \in CleanTask
  <2> DEFINE x == e  j == i
  <2>1. x \in Event /\ Matching(registeredTasks, x.key) # {}
        /\ j = LeastIndex(Matching(registeredTasks, x.key))
        /\ task = Satisfy(registeredTasks[j], x.key, x)
    BY <1>1, <1>2
  <2> HIDE DEF task, j, x
  <2> QED BY <1>2, <2>1, MatchingTask
<1>4. a \in Frame /\ a.op = "start" /\ ConsumeFrame \in Frame
  <2> HIDE DEF task
  <2> QED BY <1>3 DEF StartFrame, Frame, ConsumeFrame, CleanTask
<1>5. s \in Seq(Frame) /\ (s # <<>> => Head(s).op = "event")
  BY AgainFrames DEF MatchRegistered
<1> HIDE DEF a, s
<1>6. b \in Seq(Frame) /\ Len(b) = 2 /\ b[1] = a
  BY <1>4
<1> HIDE DEF b
<1>7. b \o s \in Seq(Frame) /\ b \o s # <<>> /\ Head(b \o s) = a
  <2>1. Len(b \o s) >= 2 /\ (b \o s)[1] = a /\ b \o s \in Seq(Frame)
    BY <1>5, <1>6, ConcatProperties, SMTT(30)
  <2> DEFINE q == b \o s
  <2> HIDE DEF q
  <2>2. q \in Seq(Frame) /\ Len(q) >= 2 /\ q[1] = a
    BY <2>1 DEF q
  <2>3. q \in Seq(Frame) /\ q # <<>> /\ Head(q) = a
    BY <2>2
  <2> QED BY <2>3 DEF q
<1>8. CASE Replace(t, b \o s)
  BY <1>1, <1>4, <1>7, <1>8, SleepFrames
<1>9. CASE Replace(t, s)
  BY <1>1, <1>5, <1>9, SleepFrames
<1> QED BY <1>1, <1>8, <1>9

\* registerEvent stores the event: sleeping waits stay paired.
LEMMA StoreEventSleeps ==
  ASSUME Sound, Sleeping, NEW t \in Threads, StoreEvent(t)
  PROVE  Sleeping'
<1>1. /\ todo[t] # <<>> /\ Top(t).op = "event" /\ Return(t) /\ UNCHANGED <<pausedTasks, calls>>
  BY RegisteringTypes DEF StoreEvent
<1> QED BY <1>1, SleepReturned

\* registerEvents takes the mutex with a new batch: sleeping waits stay paired.
LEMMA RegisterEventsSleeps ==
  ASSUME Sound, Sleeping, NEW t \in Threads, RegisterEvents(t)
  PROVE  Sleeping'
<1>1. todo[t] = <<>> /\ UNCHANGED <<pausedTasks, calls>>
  BY DEF RegisterEvents, Outside
<1>2. \E events : todo' = [todo EXCEPT ![t] =
         <<[op |-> "batch", events |-> events, at |-> 1, keys |-> BatchKeys(1), run |-> <<>>]>>]
  BY DEF RegisterEvents
<1>3. PICK f : f.op = "batch" /\ todo' = [todo EXCEPT ![t] = <<f>>]
  BY <1>2
<1> QED BY <1>1, <1>3, SleepEntered

\* A step from one frame of a pass to the next: sleeping waits stay paired.
LEMMA PassSleeps ==
  ASSUME Sound, Sleeping, NEW t \in Threads, NEW op \in {"batch", "consume", "retrieve"}, In(t, op),
         NEW f, Replace(t, <<f>>), f.op = op, UNCHANGED <<pausedTasks, calls>>
  PROVE  Sleeping'
<1>1. todo[t] # <<>> /\ Top(t).op # "paused"
  BY DEF In
<1> QED BY <1>1, SleepReplaced

\* What kind of record the frame of a pass is.
LEMMA PassFrames ==
  ASSUME Sound, NEW t \in Threads
  PROVE  /\ In(t, "batch") => Top(t) \in [op : {"batch"}, events : Seq(Event), at : Nat,
                                          keys : SUBSET Keys, run : Seq(Task)]
         /\ In(t, "consume") => Top(t) \in [op : {"consume"}, at : Nat, keys : SUBSET Keys,
                                            progress : BOOLEAN]
         /\ In(t, "retrieve") => Top(t) \in [op : {"retrieve"}, order : Seq(Keys)]
BY TopTypes, FrameKinds DEF Sound, In

\* A greedy task takes its events out of the batch: sleeping waits stay paired.
LEMMA GreedyTakeSleeps ==
  ASSUME Sound, Sleeping, NEW t \in Threads, GreedyTake(t)
  PROVE  Sleeping'
<1>1. In(t, "batch") /\ UNCHANGED <<pausedTasks, calls>>
  BY DEF GreedyTake, Scanning, At
<1>2. \E x : Replace(t, <<[Top(t) EXCEPT !.keys = x]>>) \/ Replace(t, <<[Top(t) EXCEPT !.events = x]>>)
  BY DEF GreedyTake
<1>3. PICK x : Replace(t, <<[Top(t) EXCEPT !.keys = x]>>) \/ Replace(t, <<[Top(t) EXCEPT !.events = x]>>)
  BY <1>2
<1>4. [Top(t) EXCEPT !.keys = x].op = "batch" /\ [Top(t) EXCEPT !.events = x].op = "batch"
  BY <1>1, PassFrames
<1> QED BY <1>1, <1>3, <1>4, PassSleeps

\* registerEvents is done with a greedy task: sleeping waits stay paired.
LEMMA GreedyNextSleeps ==
  ASSUME Sound, Sleeping, NEW t \in Threads, GreedyNext(t)
  PROVE  Sleeping'
<1>1. In(t, "batch") /\ UNCHANGED <<pausedTasks, calls>>
  BY DEF GreedyNext, Scanning, At
<1>2. \E x, y, z : Replace(t, <<[Top(t) EXCEPT !.at = x, !.keys = y, !.run = z]>>)
  BY DEF GreedyNext
<1>3. PICK x, y, z : Replace(t, <<[Top(t) EXCEPT !.at = x, !.keys = y, !.run = z]>>)
  BY <1>2
<1>4. [Top(t) EXCEPT !.at = x, !.keys = y, !.run = z].op = "batch"
  BY <1>1, PassFrames
<1> QED BY <1>1, <1>3, <1>4, PassSleeps

\* registerEvents goes on to start tasks and register the rest one by one:
\* sleeping waits stay paired.
LEMMA FinishBatchSleeps ==
  ASSUME Sound, Sleeping, NEW t \in Threads, FinishBatch(t)
  PROVE  Sleeping'
<1> DEFINE f == Top(t)
           fs == BatchFrames(f)
<1>1. /\ In(t, "batch") /\ todo[t] # <<>> /\ f.op # "paused"
      /\ Replace(t, fs) /\ UNCHANGED <<pausedTasks, calls>>
  BY DEF FinishBatch, At, In, BatchFrames
<1>2. f.run \in Seq(Task) /\ f.events \in Seq(Event)
  BY <1>1, PassFrames
<1> HIDE DEF f
<1>3. /\ fs \in Seq(Frame) /\ Len(fs) = Len(f.run) + Len(f.events)
      /\ \A i \in 1 .. Len(f.run) + Len(f.events) : fs[i] \in Resting
  BY <1>2, BatchFramesTypes
<1> HIDE DEF fs
<1>4. fs # <<>> => Head(fs) \in Resting
  <2>1. fs \in Seq(Frame)
    BY <1>3
  <2>2. \A i \in 1 .. Len(fs) : fs[i] \in Resting
    BY <1>3
  <2>3. fs # <<>> => Head(fs) = fs[1] /\ 1 \in 1 .. Len(fs)
    BY <2>1
  <2> QED BY <2>2, <2>3
<1>5. fs # <<>> => Head(fs).op \notin {"gather", "resume"}
  BY <1>4 DEF Resting, ConsumeFrame
<1> QED BY <1>1, <1>3, <1>5, SleepFrames DEF f

\* readyToRunTask gives a task to the pool, or pauseTask returns the events of
\* the wait: sleeping waits stay paired.
LEMMA ReadyToRunTaskSleeps ==
  ASSUME Sound, Sleeping, NEW t \in Threads, ReadyToRunTask(t) \/ Resumed(t)
  PROVE  Sleeping'
<1>1. todo[t] # <<>> /\ Top(t).op # "paused" /\ Return(t) /\ UNCHANGED <<pausedTasks, calls>>
  BY DEF ReadyToRunTask, Resumed, At, In
<1> QED BY <1>1, SleepReturned

\* consumeEventsByPersistentTasks looks at the tasks in turn: sleeping waits
\* stay paired.
LEMMA ConsumeSleeps ==
  ASSUME Sound, Sleeping, NEW t \in Threads,
         ConsumeBegin(t) \/ ConsumeStored(t) \/ ConsumeNext(t) \/ ConsumeEnd(t)
  PROVE  Sleeping'
<1>1. In(t, "consume") /\ UNCHANGED <<pausedTasks, calls>>
  BY DEF ConsumeBegin, ConsumeStored, ConsumeNext, ConsumeEnd, Consuming, At
<1>2. \/ Return(t)
      \/ \E x, y : Replace(t, <<[Top(t) EXCEPT !.at = x, !.keys = y]>>)
      \/ \E x : Replace(t, <<[Top(t) EXCEPT !.keys = x]>>)
      \/ \E x, y, z : Replace(t, <<[Top(t) EXCEPT !.at = x, !.keys = y, !.progress = z]>>)
  BY DEF ConsumeBegin, ConsumeStored, ConsumeNext, ConsumeEnd, Anew
<1>3. \A x, y, z : /\ [Top(t) EXCEPT !.at = x, !.keys = y].op = "consume"
                   /\ [Top(t) EXCEPT !.keys = x].op = "consume"
                   /\ [Top(t) EXCEPT !.at = x, !.keys = y, !.progress = z].op = "consume"
  BY <1>1, PassFrames
<1>4. CASE Return(t)
  BY <1>1, <1>4, SleepReturned DEF In
<1>5. CASE ~Return(t)
  <2> DEFINE Goes(f) == f.op = "consume" /\ Replace(t, <<f>>)
  <2>1. ASSUME NEW x, NEW y, Replace(t, <<[Top(t) EXCEPT !.at = x, !.keys = y]>>) PROVE \E f : Goes(f)
    <3>1. Goes([Top(t) EXCEPT !.at = x, !.keys = y])
      BY <1>3, <2>1
    <3> QED BY <3>1
  <2>2. ASSUME NEW x, Replace(t, <<[Top(t) EXCEPT !.keys = x]>>) PROVE \E f : Goes(f)
    <3>1. Goes([Top(t) EXCEPT !.keys = x])
      BY <1>3, <2>2
    <3> QED BY <3>1
  <2>3. ASSUME NEW x, NEW y, NEW z, Replace(t, <<[Top(t) EXCEPT !.at = x, !.keys = y, !.progress = z]>>)
        PROVE  \E f : Goes(f)
    <3>1. Goes([Top(t) EXCEPT !.at = x, !.keys = y, !.progress = z])
      BY <1>3, <2>3
    <3> QED BY <3>1
  <2>4. \E f : Goes(f)
    <3> HIDE DEF Goes
    <3> QED BY <1>2, <1>5, <2>1, <2>2, <2>3, Zenon
  <2>5. PICK f : f.op = "consume" /\ Replace(t, <<f>>)
    BY <2>4
  <2> QED BY <1>1, <2>5, PassSleeps
<1> QED BY <1>4, <1>5

\* retrieveAnyMatchingEvents takes the mutex: sleeping waits stay paired.
LEMMA RetrieveAnySleeps ==
  ASSUME Sound, Sleeping, NEW t \in Threads, RetrieveAny(t)
  PROVE  Sleeping'
<1>1. todo[t] = <<>> /\ UNCHANGED <<pausedTasks, calls>>
  BY DEF RetrieveAny, MayCall, Outside
<1>2. PICK f : f.op = "retrieve" /\ todo' = [todo EXCEPT ![t] = <<f>>]
  BY DEF RetrieveAny
<1> QED BY <1>1, <1>2, SleepEntered

\* retrieveAnyMatchingEvents takes an event, or is done: sleeping waits stay paired.
LEMMA RetrieveNextSleeps ==
  ASSUME Sound, Sleeping, NEW t \in Threads, RetrieveNext(t)
  PROVE  Sleeping'
<1>1. In(t, "retrieve") /\ UNCHANGED <<pausedTasks, calls>>
  BY DEF RetrieveNext, At
<1>2. Return(t) \/ \E x : Replace(t, <<[Top(t) EXCEPT !.order = x]>>)
  BY DEF RetrieveNext
<1>3. \A x : [Top(t) EXCEPT !.order = x].op = "retrieve"
  BY <1>1, PassFrames
<1>4. CASE Return(t)
  BY <1>1, <1>4, SleepReturned DEF In
<1>5. CASE ~Return(t)
  <2>1. PICK f : f.op = "retrieve" /\ Replace(t, <<f>>)
    BY <1>2, <1>3, <1>5
  <2> QED BY <1>1, <2>1, PassSleeps
<1> QED BY <1>4, <1>5

\* Steps that leave paused tasks and frames alone.
LEMMA SleepUndisturbed ==
  ASSUME Sleeping, UNCHANGED <<pausedTasks, calls, todo>>
  PROVE  Sleeping'
BY DEF Sleeping, Asleep, Filed, Handles, In, Top

\* Nobody waits at the start.
LEMMA InitSleeping == Init => Sleeping
BY DEF Init, Sleeping, Handles, In

\* No step separates a wait from its thread.
LEMMA StepSleeping ==
  ASSUME Sound, Sleeping, [Next]_vars
  PROVE  Sleeping'
<1>1. CASE RunTask
  <2>1. UNCHANGED <<pausedTasks, calls, todo>>
    BY <1>1 DEF RunTask
  <2> QED BY <2>1, SleepUndisturbed
<1>2. ASSUME NEW t \in Threads, Call(t) PROVE Sleeping'
  <2>1. CASE RemoveTask(t)
    <3>1. UNCHANGED <<pausedTasks, calls, todo>>
      BY <2>1 DEF RemoveTask
    <3> QED BY <3>1, SleepUndisturbed
  <2> QED BY <1>2, <2>1, RegisterTaskSleeps, PauseTaskSleeps, RetrieveAnySleeps, RegisterEventSleeps,
             RegisterEventsSleeps DEF Call
<1>3. ASSUME NEW t \in Threads, Step(t) PROVE Sleeping'
  BY <1>3, GatherStoredSleeps, GatherMissingSleeps, FinishRegisterTaskSleeps, FinishPauseTaskSleeps,
     MatchRegisteredSleeps, MatchPausedSleeps, StoreEventSleeps, GreedyTakeSleeps, GreedyNextSleeps,
     FinishBatchSleeps, ReadyToRunTaskSleeps, ConsumeSleeps, MarkThreadResumeSleeps,
     RetrieveNextSleeps DEF Step
<1>4. CASE UNCHANGED vars
  BY <1>4, SleepUndisturbed DEF vars
<1> QED BY <1>1, <1>2, <1>3, <1>4 DEF Next, Stopped

=============================================================================
