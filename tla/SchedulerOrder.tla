---------------------------- MODULE SchedulerOrder ----------------------------
(***************************************************************************)
(* What the scheduler promises to programs that avoid some combinations of *)
(* its features: persistent events stay available, persistent tasks miss   *)
(* no stored event, and events of one source and identifier are consumed   *)
(* in the order in which they arrived.                                     *)
(***************************************************************************)
EXTENDS SchedulerConservation

\* A program that fires batches has no greedy tasks.
NoGreedyBatches ==
  \A p \in DOMAIN Programs : Programs[p].batching => \A s \in Programs[p].tasks : ~s.greedy

\* No two dependencies of a persistent task compare equal.
PersistentTasksDistinct ==
  \A p \in DOMAIN Programs : \A s \in Programs[p].tasks : s.persistent =>
     \A i, j \in DOMAIN s.order : Equivalent(s.order[i], s.order[j]) => i = j

\* Every task runs once.
NoPersistentTasks == \A p \in DOMAIN Programs : \A s \in Programs[p].tasks : ~s.persistent

-----------------------------------------------------------------------------
(* Sequences                                                               *)

\* The elements of a concatenation, and of a sequence without its first one.
LEMMA Parts ==
  ASSUME NEW S
  PROVE  /\ \A s, r \in Seq(S) : ToSet(s \o r) = ToSet(s) \union ToSet(r)
         /\ \A s \in Seq(S) : s # <<>> => /\ Head(s) \in S /\ Tail(s) \in Seq(S)
                                          /\ ToSet(s) = {Head(s)} \union ToSet(Tail(s))
         /\ ToSet(<<>>) = {}
         /\ \A x : ToSet(<<x>>) = {x}
<1>1. ASSUME NEW s \in Seq(S), NEW r \in Seq(S) PROVE ToSet(s \o r) = ToSet(s) \union ToSet(r)
  <2>1. /\ Len(s \o r) = Len(s) + Len(r) /\ DOMAIN (s \o r) = 1 .. Len(s) + Len(r)
        /\ \A i \in 1 .. Len(s) : (s \o r)[i] = s[i]
        /\ \A i \in 1 .. Len(r) : (s \o r)[Len(s) + i] = r[i]
    OBVIOUS
  <2>2. /\ Len(s) \in Nat /\ Len(r) \in Nat
        /\ DOMAIN s = 1 .. Len(s) /\ DOMAIN r = 1 .. Len(r)
    OBVIOUS
  <2>3. ASSUME NEW i \in 1 .. Len(s) + Len(r)
        PROVE  i \in 1 .. Len(s) \/ \E j \in 1 .. Len(r) : i = Len(s) + j
    <3>1. ~(i \in 1 .. Len(s)) => i - Len(s) \in 1 .. Len(r) /\ i = Len(s) + (i - Len(s))
      BY <2>2
    <3> QED BY <3>1
  <2>4. \A j \in 1 .. Len(s) : j \in 1 .. Len(s) + Len(r)
    BY <2>2
  <2>5. \A j \in 1 .. Len(r) : Len(s) + j \in 1 .. Len(s) + Len(r)
    BY <2>2
  <2>6. ASSUME NEW x PROVE x \in ToSet(s \o r) <=> x \in ToSet(s) \/ x \in ToSet(r)
    <3>1. x \in ToSet(s \o r) <=> \E i \in 1 .. Len(s) + Len(r) : (s \o r)[i] = x
      BY <2>1 DEF ToSet
    <3>2. x \in ToSet(s) <=> \E i \in 1 .. Len(s) : s[i] = x
      BY <2>2 DEF ToSet
    <3>3. x \in ToSet(r) <=> \E i \in 1 .. Len(r) : r[i] = x
      BY <2>2 DEF ToSet
    <3> QED BY <2>1, <2>3, <2>4, <2>5, <3>1, <3>2, <3>3
  <2> QED BY <2>6
<1>2. ASSUME NEW s \in Seq(S), s # <<>>
      PROVE  Head(s) \in S /\ Tail(s) \in Seq(S) /\ ToSet(s) = {Head(s)} \union ToSet(Tail(s))
  <2>1. <<Head(s)>> \in Seq(S) /\ Tail(s) \in Seq(S) /\ s = <<Head(s)>> \o Tail(s) /\ Head(s) \in S
    BY <1>2
  <2>2. ToSet(<<Head(s)>>) = {Head(s)}
    BY DEF ToSet
  <2>3. ToSet(<<Head(s)>> \o Tail(s)) = ToSet(<<Head(s)>>) \union ToSet(Tail(s))
    BY <2>1, <1>1
  <2> QED BY <2>1, <2>2, <2>3
<1>3. ToSet(<<>>) = {} /\ \A x : ToSet(<<x>>) = {x}
  BY DEF ToSet
<1> QED BY <1>1, <1>2, <1>3

\* What the code does to a list keeps its elements in a set that contains the
\* new ones.
LEMMA ListKept ==
  ASSUME NEW S, NEW tasks \in Seq(S)
  PROVE  /\ \A i \in 1 .. Len(tasks) : tasks[i] \in S
         /\ \A b \in S : Append(tasks, b) \in Seq(S)
         /\ \A i \in 1 .. Len(tasks) : RemoveAt(tasks, i) \in Seq(S)
         /\ \A i \in 1 .. Len(tasks) : \A b \in S : [tasks EXCEPT ![i] = b] \in Seq(S)
<1>1. \A i \in 1 .. Len(tasks) : RemoveAt(tasks, i) \in Seq(S)
  BY Removal
<1> QED BY <1>1

-----------------------------------------------------------------------------
(* Events that are still to be registered                                  *)

\* What a thread still has to do, a batch as the frames it will leave behind.
Agenda(t) == Unfolded(todo[t])
ComingIn(s) == {e \in Event : EventFrame(e) \in ToSet(s)}
Coming == UNION {ComingIn(Agenda(t)) : t \in Threads}

\* The transient events of a stack come in the order of their numbers.
Lined(s) ==
  \A i, j \in DOMAIN s : \A e, f \in Transient(Event) :
    i < j /\ s[i] = EventFrame(e) /\ s[j] = EventFrame(f) /\ e.key = f.key => e.id < f.id

\* A step after which a thread has the same events to register, in the same
\* order, and is as far with the one it is registering.
SameEvents(t) ==
  /\ ComingIn(Agenda(t))' = ComingIn(Agenda(t)) /\ (Lined(Agenda(t)) => Lined(Agenda(t))')
  /\ In(t, "event") => todo'[t] = todo[t]

\* A stack is lined up if what comes after its first frame is, ...
LEMMA LinedTail ==
  ASSUME NEW T, NEW s \in Seq(T), s # <<>>, Lined(s)
  PROVE  /\ Lined(Tail(s))
         /\ \A e, f \in Transient(Event) :
              Head(s) = EventFrame(e) /\ f \in ComingIn(Tail(s)) /\ e.key = f.key => e.id < f.id
<1>1. /\ Tail(s) \in Seq(T) /\ Len(s) \in Nat /\ Len(s) >= 1 /\ Len(Tail(s)) = Len(s) - 1
      /\ DOMAIN s = 1 .. Len(s) /\ DOMAIN Tail(s) = 1 .. Len(s) - 1
      /\ Head(s) = s[1]
      /\ \A i \in 1 .. Len(s) - 1 : Tail(s)[i] = s[i + 1]
  OBVIOUS
<1>2. \A i, j \in 1 .. Len(s) - 1 : i < j => i + 1 \in 1 .. Len(s) /\ j + 1 \in 1 .. Len(s) /\ i + 1 < j + 1
  BY <1>1
<1>3. \A j \in 1 .. Len(s) - 1 : 1 \in 1 .. Len(s) /\ j + 1 \in 1 .. Len(s) /\ 1 < j + 1
  BY <1>1
<1>4. Lined(Tail(s))
  BY <1>1, <1>2 DEF Lined
<1>5. ASSUME NEW e \in Transient(Event), NEW f \in Transient(Event),
             Head(s) = EventFrame(e), f \in ComingIn(Tail(s)), e.key = f.key
      PROVE  e.id < f.id
  <2>1. PICK j \in 1 .. Len(s) - 1 : EventFrame(f) = Tail(s)[j]
    BY <1>1, <1>5 DEF ComingIn, ToSet
  <2>2. s[1] = EventFrame(e) /\ s[j + 1] = EventFrame(f)
    BY <1>1, <1>5, <2>1
  <2> QED BY <1>1, <1>3, <1>5, <2>2 DEF Lined
<1> QED BY <1>4, <1>5

\* ... and what is put before it has no transient event.
LEMMA LinedJoin ==
  ASSUME NEW T, NEW s \in Seq(T), NEW r \in Seq(T), Lined(r), Transient(ComingIn(s)) = {}
  PROVE  Lined(s \o r)
<1>1. /\ Len(s) \in Nat /\ Len(r) \in Nat /\ DOMAIN (s \o r) = 1 .. Len(s) + Len(r)
      /\ DOMAIN s = 1 .. Len(s) /\ DOMAIN r = 1 .. Len(r)
      /\ \A i \in 1 .. Len(s) : (s \o r)[i] = s[i]
      /\ \A i \in 1 .. Len(s) + Len(r) : i > Len(s) => i - Len(s) \in 1 .. Len(r) /\ (s \o r)[i] = r[i - Len(s)]
  OBVIOUS
<1>2. ASSUME NEW i \in 1 .. Len(s) + Len(r), NEW e \in Transient(Event), (s \o r)[i] = EventFrame(e)
      PROVE  i > Len(s)
  <2> SUFFICES ASSUME i \in 1 .. Len(s) PROVE FALSE
    BY <1>1
  <2>1. s[i] = EventFrame(e)
    BY <1>1, <1>2
  <2>2. e \in Transient(ComingIn(s))
    BY <1>1, <2>1 DEF ComingIn, Transient, ToSet
  <2> QED BY <2>2
<1> SUFFICES ASSUME NEW i \in 1 .. Len(s) + Len(r), NEW j \in 1 .. Len(s) + Len(r),
                    NEW e \in Transient(Event), NEW f \in Transient(Event),
                    i < j, (s \o r)[i] = EventFrame(e), (s \o r)[j] = EventFrame(f), e.key = f.key
             PROVE  e.id < f.id
  BY <1>1 DEF Lined
<1>3. i > Len(s) /\ j > Len(s)
  BY <1>2
<1> DEFINE k == i - Len(s)  l == j - Len(s)
<1>4. k \in 1 .. Len(r) /\ l \in 1 .. Len(r) /\ k < l /\ r[k] = EventFrame(e) /\ r[l] = EventFrame(f)
  BY <1>1, <1>3
<1> HIDE DEF k, l
<1> QED BY <1>1, <1>4 DEF Lined

\* Which frames are events.
LEMMA EventFrames ==
  /\ ComingIn(<<>>) = {}
  /\ \A f : f.op # "event" => ComingIn(<<f>>) = {}
  /\ \A e \in Event : ComingIn(<<EventFrame(e)>>) = {e}
  /\ \A f \in Frame : f.op = "event" => f.event \in Event /\ f = EventFrame(f.event)
<1>1. \A f : ToSet(<<f>>) = {f}
  BY Parts
<1>2. ComingIn(<<>>) = {}
  BY Parts DEF ComingIn
<1>3. \A f : f.op # "event" => ComingIn(<<f>>) = {}
  <2>1. \A e : EventFrame(e).op = "event"
    BY DEF EventFrame
  <2>2. \A f, e : f.op # "event" => EventFrame(e) # f
    BY <2>1, Zenon
  <2>3. \A f : f.op # "event" => \A e \in Event : EventFrame(e) \notin ToSet(<<f>>)
    BY <1>1, <2>2
  <2> QED BY <2>3 DEF ComingIn
<1>4. \A e \in Event : ComingIn(<<EventFrame(e)>>) = {e}
  <2>1. \A d, e \in Event : EventFrame(d) = EventFrame(e) => d = e
    BY DEF EventFrame
  <2> QED BY <1>1, <2>1 DEF ComingIn
<1>5. \A f \in Frame : f.op = "event" => f.event \in Event /\ f = EventFrame(f.event)
  <2> SUFFICES ASSUME NEW f \in Frame, f.op = "event"
               PROVE  f.event \in Event /\ f = EventFrame(f.event)
    OBVIOUS
  <2>1. f \in [op : {"event"}, event : Event]
    BY FrameKinds
  <2> QED BY <2>1 DEF EventFrame
<1> QED BY <1>2, <1>3, <1>4, <1>5

\* The events of a concatenation.
LEMMA ComingJoined ==
  ASSUME NEW T
  PROVE  /\ \A s, r \in Seq(T) : ComingIn(s \o r) = ComingIn(s) \union ComingIn(r)
         /\ \A s \in Seq(T) : s # <<>> => ComingIn(s) = ComingIn(<<Head(s)>>) \union ComingIn(Tail(s))
<1>1. \A s, r \in Seq(T) : ToSet(s \o r) = ToSet(s) \union ToSet(r)
  BY Parts
<1>2. \A s \in Seq(T) : s # <<>> =>
         ToSet(s) = {Head(s)} \union ToSet(Tail(s)) /\ ToSet(<<Head(s)>>) = {Head(s)}
  BY Parts
<1>3. ASSUME NEW s, NEW a, NEW b, ToSet(s) = ToSet(a) \union ToSet(b)
      PROVE  ComingIn(s) = ComingIn(a) \union ComingIn(b)
  BY <1>3 DEF ComingIn
<1>4. \A s, a, b : ToSet(s) = ToSet(a) \union ToSet(b) => ComingIn(s) = ComingIn(a) \union ComingIn(b)
  BY <1>3
<1> QED BY <1>1, <1>2, <1>4

\* A thread that a step is not about has the same events to register.
LEMMA SameElsewhere ==
  ASSUME NEW u \in Threads, todo'[u] = todo[u]
  PROVE  SameEvents(u)
<1>1. Agenda(u)' = Agenda(u)
  BY DEF Agenda, Unfolded, BatchFrames
<1> QED BY <1>1 DEF SameEvents, Lined, ComingIn

\* What a step that goes on with the first call of a thread leaves to be done.
LEMMA AgendaReplaced ==
  ASSUME Stacks, NEW t \in Threads, todo[t] # <<>>, Top(t).op # "batch",
         NEW T, NEW fs \in Seq(T), fs # <<>> => Head(fs).op # "batch", Replace(t, fs)
  PROVE  /\ Agenda(t) = todo[t] /\ todo[t] \in Seq(Frame) /\ Tail(todo[t]) \in Seq(Frame)
         /\ Agenda(t)' = fs \o Tail(todo[t])
         /\ \A u \in Threads \ {t} : todo'[u] = todo[u] /\ SameEvents(u)
         /\ ComingIn(Agenda(t)) = ComingIn(<<Top(t)>>) \union ComingIn(Tail(todo[t]))
         /\ ComingIn(Agenda(t))' = ComingIn(fs) \union ComingIn(Tail(todo[t]))
<1> DEFINE r == Tail(todo[t])
<1>1. todo \in [Threads -> Seq(Frame)] /\ todo[t] \in Seq(Frame) /\ r \in Seq(Frame)
  BY DEF Stacks
<1>2. /\ \A u \in Threads \ {t} : todo'[u] = todo[u]
      /\ fs # <<>> => todo'[t] # <<>> /\ Top(t)' = Head(fs)
      /\ fs = <<>> /\ todo'[t] # <<>> => Top(t)' \in Resting
  BY NewTop
<1>3. todo'[t] = fs \o r
  BY <1>1 DEF Replace
<1>4. todo'[t] # <<>> => Top(t)'.op # "batch"
  BY <1>2, FrameKinds DEF Lonely
<1>5. Agenda(t) = todo[t] /\ Agenda(t)' = fs \o r
  <2>1. Agenda(t) = todo[t]
    BY DEF Agenda, Unfolded, Top
  <2>2. todo'[t] # <<>> => Head(todo'[t]).op # "batch"
    BY <1>4 DEF Top
  <2>3. Agenda(t)' = todo'[t]
    BY <2>2 DEF Agenda, Unfolded
  <2> QED BY <1>3, <2>1, <2>3
<1>6. ComingIn(todo[t]) = ComingIn(<<Top(t)>>) \union ComingIn(r)
  BY <1>1, ComingJoined DEF Top
<1>7. ComingIn(fs \o r) = ComingIn(fs) \union ComingIn(r)
  <2> DEFINE U == T \union Frame
  <2>1. fs \in Seq(U) /\ r \in Seq(U)
    BY <1>1
  <2> HIDE DEF U, r
  <2>2. \A a, b \in Seq(U) : ComingIn(a \o b) = ComingIn(a) \union ComingIn(b)
    BY ComingJoined
  <2> QED BY <2>1, <2>2
<1>8. ComingIn(Agenda(t))' = ComingIn(fs \o r)
  BY <1>5 DEF ComingIn
<1>9. \A u \in Threads \ {t} : SameEvents(u)
  BY <1>2, SameElsewhere
<1> HIDE DEF r
<1> QED BY <1>1, <1>2, <1>5, <1>6, <1>7, <1>8, <1>9 DEF r

\* A step that takes no event from the calls and adds none.
LEMMA EventsKept ==
  ASSUME Stacks, NEW t \in Threads, todo[t] # <<>>, Top(t).op \notin {"batch", "event"},
         NEW T, NEW fs \in Seq(T), fs # <<>> => Head(fs).op # "batch", ComingIn(fs) = {},
         Replace(t, fs)
  PROVE  \A u \in Threads : SameEvents(u)
<1> DEFINE r == Tail(todo[t])
<1>1. /\ Agenda(t) = todo[t] /\ todo[t] \in Seq(Frame) /\ r \in Seq(Frame)
      /\ Agenda(t)' = fs \o r
      /\ \A u \in Threads \ {t} : SameEvents(u)
      /\ ComingIn(Agenda(t)) = ComingIn(<<Top(t)>>) \union ComingIn(r)
      /\ ComingIn(Agenda(t))' = ComingIn(fs) \union ComingIn(r)
  BY AgendaReplaced
<1>2. ComingIn(<<Top(t)>>) = {}
  BY EventFrames
<1>3. Lined(todo[t]) => Lined(r)
  BY <1>1, LinedTail
<1>4. Lined(r) => Lined(fs \o r)
  <2> DEFINE U == T \union Frame
  <2>1. fs \in Seq(U) /\ r \in Seq(U)
    BY <1>1
  <2>2. Transient(ComingIn(fs)) = {}
    BY DEF Transient
  <2> HIDE DEF U, r
  <2> QED BY <2>1, <2>2, LinedJoin
<1>5. SameEvents(t)
  <2>1. Lined(Agenda(t))' <=> Lined(fs \o r)
    BY <1>1 DEF Lined
  <2> QED BY <1>1, <1>2, <1>3, <1>4, <2>1 DEF SameEvents, In
<1> QED BY <1>1, <1>5

\* The same for one new frame, ...
LEMMA EventsKeptFrame ==
  ASSUME Stacks, NEW t \in Threads, todo[t] # <<>>, Top(t).op \notin {"batch", "event"},
         NEW f, f.op \notin {"batch", "event"}, Replace(t, <<f>>)
  PROVE  \A u \in Threads : SameEvents(u)
<1> DEFINE fs == <<f>>
<1>1. fs \in Seq({f}) /\ fs # <<>> /\ Head(fs) = f /\ Replace(t, fs)
  OBVIOUS
<1>2. ComingIn(fs) = {}
  BY EventFrames
<1> HIDE DEF fs
<1> QED BY <1>1, <1>2, EventsKept

\* ... and for a call that returns.
LEMMA EventsKeptReturn ==
  ASSUME Stacks, NEW t \in Threads, todo[t] # <<>>, Top(t).op \notin {"batch", "event"}, Return(t)
  PROVE  \A u \in Threads : SameEvents(u)
<1>1. <<>> \in Seq(Frame) /\ Replace(t, <<>>) /\ ComingIn(<<>>) = {}
  BY EventFrames DEF Return
<1> QED BY <1>1, EventsKept

-----------------------------------------------------------------------------
(* Tasks that are not greedy, and tasks that run once                      *)

\* A task of a program that has no greedy tasks.
Mild(task) == ~task.greedy /\ (NoPersistentTasks => ~task.persistent)
Modesty == {task \in CleanTask : Mild(task)}

\* The program that runs has no greedy tasks.
Limited == Menu.batching \/ NoPersistentTasks

\* What registerTask and pauseTask are working on.
Careful(f) == (Limited => Mild(f.task)) /\ (f.call = "wait" => ~f.task.persistent)

\* While batches may come no task is greedy, and a batch finds none.
Modest ==
  /\ \A t \in Threads : In(t, "batch") => Menu.batching /\ Top(t).keys = {}
  /\ Limited => registeredTasks \in Seq(Modesty)
  /\ \A t \in Threads : In(t, "gather") => Careful(Top(t))

\* A step in which one thread goes on.
LEMMA ModestStep ==
  ASSUME Modest, UNCHANGED program, NEW t \in Threads, \A u \in Threads \ {t} : todo'[u] = todo[u],
         In(t, "batch")' => Menu.batching /\ Top(t)'.keys = {},
         Limited => registeredTasks' \in Seq(Modesty),
         In(t, "gather")' => Careful(Top(t)')
  PROVE  Modest'
<1>1. Menu' = Menu /\ Limited' = Limited
  BY DEF Menu, Limited
<1>2. \A u \in Threads \ {t} : \A op : In(u, op)' = In(u, op) /\ Top(u)' = Top(u)
  BY DEF In, Top
<1>3. ASSUME NEW u \in Threads
      PROVE  /\ In(u, "batch")' => Menu.batching /\ Top(u)'.keys = {}
             /\ In(u, "gather")' => Careful(Top(u)')
  <2>1. CASE u = t
    BY <2>1
  <2>2. CASE u # t
    BY <1>2, <2>2 DEF Modest
  <2> QED BY <2>1, <2>2
<1> QED BY <1>1, <1>3 DEF Modest, Careful

\* The same for a call that goes on with frames of other kinds.
LEMMA ModestReplaced ==
  ASSUME Stacks, Modest, UNCHANGED program, NEW t \in Threads, todo[t] # <<>>,
         NEW T, NEW fs \in Seq(T), fs # <<>> => Head(fs).op \notin {"gather", "batch"}, Replace(t, fs),
         Limited => registeredTasks' \in Seq(Modesty)
  PROVE  Modest'
<1>1. /\ \A u \in Threads \ {t} : todo'[u] = todo[u]
      /\ fs # <<>> => todo'[t] # <<>> /\ Top(t)' = Head(fs)
      /\ fs = <<>> /\ todo'[t] # <<>> => Top(t)' \in Resting
  BY NewTop
<1>2. todo'[t] # <<>> => Top(t)'.op \notin {"gather", "batch"}
  BY <1>1 DEF Resting, ConsumeFrame
<1>3. ~In(t, "batch")' /\ ~In(t, "gather")'
  BY <1>2 DEF In
<1> QED BY <1>1, <1>3, ModestStep

\* The same for one frame, ...
LEMMA ModestFrame ==
  ASSUME Stacks, Modest, UNCHANGED program, NEW t \in Threads, todo[t] # <<>>,
         NEW f, f.op \notin {"gather", "batch"}, Replace(t, <<f>>),
         Limited => registeredTasks' \in Seq(Modesty)
  PROVE  Modest'
<1> DEFINE fs == <<f>>
<1>1. fs \in Seq({f}) /\ Head(fs) = f /\ Replace(t, fs)
  OBVIOUS
<1> HIDE DEF fs
<1> QED BY <1>1, ModestReplaced

\* ... and for a call that returns.
LEMMA ModestReturn ==
  ASSUME Stacks, Modest, UNCHANGED program, NEW t \in Threads, todo[t] # <<>>, Return(t),
         Limited => registeredTasks' \in Seq(Modesty)
  PROVE  Modest'
<1>1. <<>> \in Seq(Frame) /\ Replace(t, <<>>)
  BY DEF Return
<1> QED BY <1>1, ModestReplaced

\* The task with one dependency on k less.
Less(task, k) ==
  [task EXCEPT !.outstanding = [task.outstanding EXCEPT ![k] = task.outstanding[k] - 1]]

\* What happens to a listed task leaves it in the set S.
Closed(S) == \A task \in S :
  /\ Rearm(task) \in S
  /\ \A k \in Keys, e \in Event : Arrive(task, k, e) \in S
  /\ \A k \in Keys, e \in Event : Depends(task.outstanding, k) => Satisfy(task, k, e) \in S
  /\ \A k \in Counted(task.outstanding) : Less(task, k) \in S

\* What happens to a task does not make it greedy, or persistent.
LEMMA ModestTask == Closed(Modesty)
<1> SUFFICES ASSUME NEW task \in Modesty
             PROVE  /\ Rearm(task) \in Modesty
                    /\ \A k \in Keys, e \in Event : Arrive(task, k, e) \in Modesty
                    /\ \A k \in Keys, e \in Event :
                         Depends(task.outstanding, k) => Satisfy(task, k, e) \in Modesty
                    /\ \A k \in Counted(task.outstanding) : Less(task, k) \in Modesty
  BY DEF Closed
<1>1. task \in CleanTask /\ Mild(task)
  BY DEF Modesty
<1>2. Rearm(task) \in Modesty
  BY <1>1, RearmKeeps DEF Modesty, Mild
<1>3. ASSUME NEW k \in Keys, NEW e \in Event, Depends(task.outstanding, k)
      PROVE  Satisfy(task, k, e) \in Modesty
  BY <1>1, <1>3, SatisfyKeeps DEF Modesty, Mild
<1>4. ASSUME NEW k \in Keys, NEW e \in Event PROVE Arrive(task, k, e) \in Modesty
  <2>1. task \in Task /\ Clean(task.outstanding) /\ Clean(task.original)
    BY <1>1 DEF CleanTask
  <2> DEFINE a == Arrive(task, k, e)
  <2>2. /\ a \in Task
        /\ a = [task EXCEPT !.arrived = a.arrived, !.numArrivedEvents = task.numArrivedEvents + 1]
    BY <2>1, ArriveKeeps
  <2> HIDE DEF a
  <2>3. /\ a.outstanding = task.outstanding /\ a.original = task.original
        /\ a.greedy = task.greedy /\ a.persistent = task.persistent
    BY <2>1, <2>2 DEF Task
  <2> QED BY <1>1, <2>1, <2>2, <2>3 DEF Modesty, Mild, CleanTask, a
<1>5. ASSUME NEW k \in Counted(task.outstanding) PROVE Less(task, k) \in Modesty
  <2> DEFINE m == [task.outstanding EXCEPT ![k] = task.outstanding[k] - 1]
             b == [task EXCEPT !.outstanding = m]
  <2>1. task \in Task /\ Clean(task.outstanding) /\ Clean(task.original) /\ task.outstanding \in Count
    BY <1>1 DEF CleanTask, Task
  <2>2. m \in Count /\ Counted(m) \subseteq Counted(task.outstanding)
    BY <2>1 DEF Count, Counted
  <2>3. Clean(m)
    BY <2>1, <2>2 DEF Clean
  <2> HIDE DEF m
  <2>4. /\ b \in Task /\ b.outstanding = m /\ b.original = task.original
        /\ b.greedy = task.greedy /\ b.persistent = task.persistent
    BY <2>1, <2>2 DEF Task
  <2> QED BY <1>1, <2>1, <2>3, <2>4 DEF Modesty, Mild, CleanTask, m, Less
<1> QED BY <1>2, <1>3, <1>4, <1>5

\* registerTask and pauseTask take the mutex.
LEMMA GatherModest ==
  ASSUME Sound, Modest, NEW t \in Threads, NEW call \in {"register", "wait"}, NEW s \in Submission,
         Limited => Mild(s), call = "wait" => ~s.persistent, Gather(t, call, s)
  PROVE  Modest'
<1> DEFINE f == [op |-> "gather", call |-> call, task |-> NewTask(s), next |-> 1, found |-> FALSE]
<1>1. todo' = [todo EXCEPT ![t] = <<f>>] /\ UNCHANGED <<program, registeredTasks>>
  BY DEF Gather
<1>2. f.op = "gather" /\ Careful(f)
  BY DEF NewTask, Careful, Mild
<1> HIDE DEF f
<1>3. /\ todo'[t] = <<f>> /\ \A u \in Threads \ {t} : todo'[u] = todo[u]
  BY <1>1 DEF Sound, Stacks
<1>4. Top(t)' = f /\ ~In(t, "batch")'
  BY <1>2, <1>3 DEF Top, In
<1> QED BY <1>1, <1>2, <1>3, <1>4, ModestStep DEF Modest

\* A dependency is looked up in the store.
LEMMA GatheringModest ==
  ASSUME Sound, Modest, NEW t \in Threads, GatherStored(t) \/ GatherMissing(t)
  PROVE  Modest' /\ \A u \in Threads : SameEvents(u)
<1> DEFINE f == Top(t)
<1>1. /\ In(t, "gather") /\ Gathering(t) /\ UNCHANGED <<program, registeredTasks>>
      /\ Stacks /\ TaskLists
  BY DEF GatherStored, GatherMissing, Gathering, At, Sound
<1>2. /\ f \in [op : {"gather"}, call : {"register", "wait"}, task : Task, next : Nat, found : BOOLEAN]
      /\ todo[t] # <<>> /\ f.op = "gather"
      /\ Noted(f) = [f.task EXCEPT !.original = Noted(f).original]
  BY <1>1, GatheringTypes
<1>3. Noted(f).greedy = f.task.greedy /\ Noted(f).persistent = f.task.persistent
  <2> HIDE DEF f
  <2> QED BY <1>2 DEF Task
<1> DEFINE Alike(a) == a.greedy = f.task.greedy /\ a.persistent = f.task.persistent
           Goes(g) == g.op = "gather" /\ g.call = f.call /\ Alike(g.task) /\ Replace(t, <<g>>)
<1>4. \E g : Goes(g)
  <2>1. CASE GatherStored(t)
    <3> DEFINE k == f.task.order[f.next]
               a == Arrive(Noted(f), k, First(k))
               n == IF f.task.greedy THEN f.next ELSE f.next + 1
               b == f.task.greedy
               g == [f EXCEPT !.task = a, !.next = n, !.found = b]
    <3>1. Replace(t, <<g>>)
      BY <2>1 DEF GatherStored
    <3>2. g.op = "gather" /\ g.call = f.call /\ g.task = a
      <4> HIDE DEF f, a, n, b
      <4> QED BY <1>2
    <3>3. Alike(a)
      <4>1. \A x, y : LET b0 == [Noted(f) EXCEPT !.arrived = x, !.numArrivedEvents = y]
                      IN  b0.greedy = Noted(f).greedy /\ b0.persistent = Noted(f).persistent
        <5> HIDE DEF f
        <5> QED BY <1>2 DEF Task
      <4> HIDE DEF f, k
      <4> QED BY <1>3, <4>1 DEF Arrive
    <3> HIDE DEF g, a, f
    <3>4. Goes(g)
      BY <3>1, <3>2, <3>3
    <3> QED BY <3>4
  <2>2. CASE GatherMissing(t)
    <3> DEFINE k == f.task.order[f.next]
               a == IF f.found THEN f.task ELSE [Noted(f) EXCEPT !.outstanding = Bump(@, k)]
               n == f.next + 1
               g == [f EXCEPT !.task = a, !.next = n, !.found = FALSE]
    <3>1. Replace(t, <<g>>)
      BY <2>2 DEF GatherMissing
    <3>2. g.op = "gather" /\ g.call = f.call /\ g.task = a
      <4> HIDE DEF f, a, n
      <4> QED BY <1>2
    <3>3. Alike(a)
      <4>1. \A x : LET b0 == [Noted(f) EXCEPT !.outstanding = x]
                   IN  b0.greedy = Noted(f).greedy /\ b0.persistent = Noted(f).persistent
        <5> HIDE DEF f
        <5> QED BY <1>2 DEF Task
      <4> HIDE DEF f, k
      <4> QED BY <1>3, <4>1
    <3> HIDE DEF g, a, f
    <3>4. Goes(g)
      BY <3>1, <3>2, <3>3
    <3> QED BY <3>4
  <2> QED BY <2>1, <2>2
<1>5. PICK g : g.op = "gather" /\ g.call = f.call /\ Alike(g.task) /\ Replace(t, <<g>>)
  BY <1>4
<1> HIDE DEF Goes
<1>6. (\A u \in Threads \ {t} : todo'[u] = todo[u]) /\ todo'[t] # <<>> /\ Top(t)' = g
  BY <1>1, <1>2, <1>5, NewFrame
<1>7. ~In(t, "batch")'
  BY <1>5, <1>6 DEF In
<1>8. (Limited => registeredTasks' \in Seq(Modesty)) /\ Careful(f) /\ Careful(g)
  BY <1>1, <1>5 DEF Modest, Careful, Mild
<1>9. Modest'
  <2> HIDE DEF f
  <2> QED BY <1>1, <1>5, <1>6, <1>7, <1>8, ModestStep
<1>10. \A u \in Threads : SameEvents(u)
  BY <1>1, <1>2, <1>5, EventsKeptFrame
<1> QED BY <1>9, <1>10

\* The frames that start a task have no event of their own.
LEMMA StartsComing ==
  ASSUME NEW task \in Task, NEW rest \in Seq(Frame)
  PROVE  LET fs == <<StartFrame(task), ConsumeFrame>> \o rest IN
           /\ fs \in Seq(Frame) /\ fs # <<>> /\ Head(fs).op = "start"
           /\ ComingIn(fs) = ComingIn(rest)
<1> DEFINE a == StartFrame(task)  b == ConsumeFrame  fs == <<a, b>> \o rest
<1>1. a \in Frame /\ b \in Frame /\ a.op = "start" /\ b.op = "consume"
  BY DEF StartFrame, ConsumeFrame, Frame
<1> HIDE DEF a, b
<1>2. fs \in Seq(Frame) /\ fs # <<>> /\ Head(fs) = a
  BY <1>1
<1>3. \A s, r \in Seq(Frame) : ComingIn(s \o r) = ComingIn(s) \union ComingIn(r)
  BY ComingJoined
<1>4. ToSet(<<a, b>>) = {a, b} /\ <<a, b>> \in Seq(Frame)
  BY <1>1 DEF ToSet
<1>5. ComingIn(<<a, b>>) = {}
  <2>1. \A e : EventFrame(e).op = "event"
    BY DEF EventFrame
  <2>2. \A e : EventFrame(e) \notin {a, b}
    BY <1>1, <2>1
  <2> QED BY <1>4, <2>2 DEF ComingIn
<1>6. ComingIn(fs) = ComingIn(<<a, b>>) \union ComingIn(rest)
  BY <1>3, <1>4
<1> HIDE DEF fs
<1> QED BY <1>1, <1>2, <1>5, <1>6 DEF a, b, fs

\* A frame before others has no event of its own, unless it is one.
LEMMA LeadComing ==
  ASSUME NEW f \in Frame, f.op # "event", NEW rest \in Seq(Frame)
  PROVE  LET fs == <<f>> \o rest IN
           fs \in Seq(Frame) /\ fs # <<>> /\ Head(fs) = f /\ ComingIn(fs) = ComingIn(rest)
<1> DEFINE fs == <<f>> \o rest
<1>1. fs \in Seq(Frame) /\ fs # <<>> /\ Head(fs) = f /\ <<f>> \in Seq(Frame)
  OBVIOUS
<1>2. ComingIn(<<f>>) = {}
  BY EventFrames
<1>3. \A s, r \in Seq(Frame) : ComingIn(s \o r) = ComingIn(s) \union ComingIn(r)
  BY ComingJoined
<1>4. ComingIn(fs) = ComingIn(<<f>>) \union ComingIn(rest)
  BY <1>1, <1>3
<1> HIDE DEF fs
<1> QED BY <1>1, <1>2, <1>4 DEF fs

\* registerTask is done with the dependencies.
LEMMA FinishRegisterTaskModest ==
  ASSUME Sound, Modest, NEW t \in Threads, FinishRegisterTask(t)
  PROVE  Modest' /\ \A u \in Threads : SameEvents(u)
<1> DEFINE task == Top(t).task
           fs == IF Complete(task) THEN <<StartFrame(task), ConsumeFrame>> ELSE <<>>
<1>1. /\ todo[t] # <<>> /\ Top(t).op = "gather" /\ In(t, "gather") /\ program' = program
      /\ Stacks /\ registeredTasks \in Seq(CleanTask)
  BY DEF FinishRegisterTask, Gathered, At, In, Sound, TaskLists
<1>2. task \in CleanTask /\ task \in Task /\ (Limited => Mild(task))
  BY <1>1, TopTypes DEF Modest, Careful, CleanTask
<1>3. /\ \/ registeredTasks' = registeredTasks
         \/ registeredTasks' = Append(registeredTasks, task)
         \/ registeredTasks' = Append(registeredTasks, Rearm(task))
      /\ Replace(t, fs)
  BY DEF FinishRegisterTask, Return
<1> HIDE DEF task
<1>4. fs \in Seq(Frame) /\ (fs # <<>> => Head(fs).op = "start") /\ ComingIn(fs) = {}
  <2> DEFINE gs == <<StartFrame(task), ConsumeFrame>> \o <<>>
  <2>1. StartFrame(task) \in Frame /\ ConsumeFrame \in Frame /\ <<>> \in Seq(Frame)
    BY <1>2 DEF StartFrame, ConsumeFrame, Frame
  <2>2. gs = <<StartFrame(task), ConsumeFrame>>
    BY <2>1
  <2>3. gs \in Seq(Frame) /\ gs # <<>> /\ Head(gs).op = "start" /\ ComingIn(gs) = ComingIn(<<>>)
    BY <1>2, <2>1, StartsComing
  <2> HIDE DEF gs
  <2> QED BY <2>1, <2>2, <2>3, EventFrames
<1> HIDE DEF fs
<1>5. Limited => registeredTasks' \in Seq(Modesty)
  <2> SUFFICES ASSUME Limited PROVE registeredTasks' \in Seq(Modesty)
    OBVIOUS
  <2>1. registeredTasks \in Seq(Modesty) /\ task \in Modesty
    BY <1>2 DEF Modest, Modesty
  <2>2. Rearm(task) \in Modesty
    BY <2>1, ModestTask DEF Closed
  <2> QED BY <1>3, <2>1, <2>2
<1>6. Modest'
  BY <1>1, <1>3, <1>4, <1>5, ModestReplaced
<1>7. \A u \in Threads : SameEvents(u)
  BY <1>1, <1>3, <1>4, EventsKept
<1> QED BY <1>6, <1>7

\* A call that returns without touching the tasks, or goes on as another one
\* that is not a task or a batch.
LEMMA PlainModest ==
  ASSUME Sound, Modest, NEW t \in Threads, todo[t] # <<>>, Top(t).op \notin {"batch", "event"},
         UNCHANGED <<program, registeredTasks>>,
         Return(t) \/ \E f : f.op \notin {"gather", "batch", "event"} /\ Replace(t, <<f>>)
  PROVE  Modest' /\ \A u \in Threads : SameEvents(u)
<1>1. Stacks /\ (Limited => registeredTasks' \in Seq(Modesty))
  BY DEF Sound, Modest
<1>2. CASE Return(t)
  BY <1>1, <1>2, ModestReturn, EventsKeptReturn
<1>3. CASE ~Return(t)
  <2>1. PICK f : f.op \notin {"gather", "batch", "event"} /\ Replace(t, <<f>>)
    BY <1>3
  <2> QED BY <1>1, <2>1, ModestFrame, EventsKeptFrame
<1> QED BY <1>2, <1>3

\* pauseTask returns or sleeps, a task is handed to the pool, a wait ends.
LEMMA ReturnsModest ==
  ASSUME Sound, Modest, NEW t \in Threads, FinishPauseTask(t) \/ ReadyToRunTask(t) \/ Resumed(t)
  PROVE  Modest' /\ \A u \in Threads : SameEvents(u)
<1>1. todo[t] # <<>> /\ Top(t).op \notin {"batch", "event"} /\ UNCHANGED <<program, registeredTasks>>
  BY DEF FinishPauseTask, ReadyToRunTask, Resumed, Gathered, At, In
<1>2. Return(t) \/ Replace(t, <<[op |-> "paused", id |-> Top(t).task.id]>>)
  BY DEF FinishPauseTask, ReadyToRunTask, Resumed
<1>3. Return(t) \/ \E f : f.op \notin {"gather", "batch", "event"} /\ Replace(t, <<f>>)
  <2> DEFINE f == [op |-> "paused", id |-> Top(t).task.id]
  <2>1. f.op \notin {"gather", "batch", "event"}
    OBVIOUS
  <2> HIDE DEF f
  <2> QED BY <1>2, <2>1 DEF f
<1> QED BY <1>1, <1>3, PlainModest

\* What matching leaves of the list of tasks.
LEMMA MatchedKept ==
  ASSUME Sound, NEW S \in SUBSET CleanTask, Closed(S), registeredTasks \in Seq(S),
         NEW t \in Threads, MatchRegistered(t)
  PROVE  registeredTasks' \in Seq(S)
<1> DEFINE e == Top(t).event
           i == LeastIndex(Matching(registeredTasks, e.key))
           task == Satisfy(registeredTasks[i], e.key, e)
<1>1. \/ registeredTasks' = [registeredTasks EXCEPT ![i] = Rearm(task)]
      \/ registeredTasks' = RemoveAt(registeredTasks, i)
      \/ registeredTasks' = [registeredTasks EXCEPT ![i] = task]
  BY DEF MatchRegistered
<1>2. e \in Event /\ e.key \in Keys /\ Matching(registeredTasks, e.key) # {}
  BY RegisteringTypes DEF MatchRegistered
<1>3. registeredTasks \in Seq(CleanTask)
  BY DEF Sound, TaskLists
<1> HIDE DEF e
<1>4. i \in 1 .. Len(registeredTasks) /\ Depends(registeredTasks[i].outstanding, e.key)
  BY <1>2, <1>3, MatchingTask
<1> HIDE DEF i
<1>5. registeredTasks[i] \in S
  BY <1>4, ListKept
<1>6. task \in S
  BY <1>2, <1>4, <1>5 DEF Closed
<1> HIDE DEF task
<1>7. Rearm(task) \in S
  BY <1>6 DEF Closed
<1>8. /\ RemoveAt(registeredTasks, i) \in Seq(S)
      /\ [registeredTasks EXCEPT ![i] = task] \in Seq(S)
      /\ [registeredTasks EXCEPT ![i] = Rearm(task)] \in Seq(S)
  BY <1>4, <1>6, <1>7, ListKept
<1> QED BY <1>1, <1>8

\* What a thread leaves when it is done with an event: e comes before the
\* events that are left, ...
Taken(t, e) ==
  /\ \A u \in Threads \ {t} : SameEvents(u)
  /\ ComingIn(Agenda(t)) = {e} \union ComingIn(Agenda(t))'
  /\ Lined(Agenda(t)) =>
       /\ Lined(Agenda(t))'
       /\ e \in Transient(Event) =>
            \A f \in Transient(ComingIn(Agenda(t))') : e.key = f.key => e.id < f.id
  /\ ~e.persistent => ComingIn(Agenda(t))' = ComingIn(Tail(todo[t]))

\* ... and a persistent one may be left too.
LEMMA EventTaken ==
  ASSUME Stacks, NEW t \in Threads, In(t, "event"), NEW e, e = Top(t).event,
         NEW T, NEW fs \in Seq(T), fs # <<>> => Head(fs).op # "batch", Replace(t, fs),
         ComingIn(fs) \subseteq {e}, ~e.persistent => ComingIn(fs) = {}
  PROVE  e \in Event /\ Taken(t, e) /\ (ComingIn(fs) # {} => e \in ComingIn(Agenda(t))')
<1> DEFINE r == Tail(todo[t])
<1>1. todo[t] # <<>> /\ Top(t).op = "event" /\ Top(t) \in Frame
  BY TopTypes DEF In
<1>2. e \in Event /\ Top(t) = EventFrame(e) /\ ComingIn(<<Top(t)>>) = {e}
  BY <1>1, EventFrames
<1>3. /\ Agenda(t) = todo[t] /\ todo[t] \in Seq(Frame) /\ r \in Seq(Frame)
      /\ Agenda(t)' = fs \o r
      /\ \A u \in Threads \ {t} : SameEvents(u)
      /\ ComingIn(Agenda(t)) = ComingIn(<<Top(t)>>) \union ComingIn(r)
      /\ ComingIn(Agenda(t))' = ComingIn(fs) \union ComingIn(r)
  BY <1>1, AgendaReplaced
<1>4. ComingIn(Agenda(t)) = {e} \union ComingIn(Agenda(t))'
  BY <1>2, <1>3
<1>5. ASSUME Lined(todo[t])
      PROVE  /\ Lined(r)
             /\ e \in Transient(Event) =>
                  \A f \in Transient(Event) : f \in ComingIn(r) /\ e.key = f.key => e.id < f.id
  <2>1. /\ Lined(r)
        /\ \A d, f \in Transient(Event) :
             Head(todo[t]) = EventFrame(d) /\ f \in ComingIn(r) /\ d.key = f.key => d.id < f.id
    BY <1>1, <1>3, <1>5, LinedTail
  <2> QED BY <1>2, <2>1 DEF Top
<1>6. Lined(r) => Lined(fs \o r)
  <2> DEFINE U == T \union Frame
  <2>1. fs \in Seq(U) /\ r \in Seq(U)
    BY <1>3
  <2>2. Transient(ComingIn(fs)) = {}
    BY DEF Transient
  <2> HIDE DEF U, r
  <2> QED BY <2>1, <2>2, LinedJoin
<1>7. Lined(Agenda(t))' <=> Lined(fs \o r)
  BY <1>3 DEF Lined
<1>8. ASSUME ~e.persistent PROVE ComingIn(Agenda(t))' = ComingIn(r)
  BY <1>3, <1>8
<1>9. ASSUME Lined(Agenda(t)), e \in Transient(Event), NEW f \in Transient(ComingIn(Agenda(t))'),
             e.key = f.key
      PROVE  e.id < f.id
  <2>1. f \in ComingIn(r) /\ f \in Transient(Event)
    BY <1>8, <1>9 DEF Transient, ComingIn
  <2> QED BY <1>3, <1>5, <1>9, <2>1
<1>10. ComingIn(fs) # {} => e \in ComingIn(Agenda(t))'
  BY <1>3
<1> QED BY <1>2, <1>3, <1>4, <1>5, <1>6, <1>7, <1>8, <1>9, <1>10 DEF Taken

\* What is left of a persistent event that has been matched.
LEMMA AgainComing ==
  ASSUME Sound, NEW t \in Threads, Registering(t)
  PROVE  /\ Again(t) \in Seq(Frame) /\ (Again(t) # <<>> => Head(Again(t)).op = "event")
         /\ ComingIn(Again(t)) = IF Top(t).event.persistent THEN {Top(t).event} ELSE {}
<1>1. Top(t) \in Frame /\ Top(t).op = "event"
  BY RegisteringTypes
<1>2. ComingIn(<<Top(t)>>) = {Top(t).event} /\ ComingIn(<<>>) = {}
  BY <1>1, EventFrames
<1>3. ComingIn(Again(t)) = IF Top(t).event.persistent THEN {Top(t).event} ELSE {}
  BY <1>2 DEF Again
<1> QED BY <1>3, AgainFrames

\* The frames of a thread that has matched an event: a persistent one comes
\* again, and a task that is complete is started, and followed by a pass over
\* the persistent tasks.
LEMMA MatchFrames ==
  ASSUME Sound, NEW t \in Threads, MatchRegistered(t) \/ MatchPaused(t)
  PROVE  \E fs \in Seq(Frame) :
           /\ Replace(t, fs) /\ (fs # <<>> => Head(fs).op \in {"start", "resume", "event"})
           /\ ComingIn(fs) = ComingIn(Again(t))
           /\ \/ ConsumeFrame \in ToSet(fs)
              \/ registeredTasks' = registeredTasks
              \/ LET e == Top(t).event  i == LeastIndex(Matching(registeredTasks, e.key))
                 IN  registeredTasks' =
                       [registeredTasks EXCEPT ![i] = Satisfy(registeredTasks[i], e.key, e)]
<1> DEFINE e == Top(t).event  s == Again(t)
           i == LeastIndex(Matching(registeredTasks, e.key))
           Changes(fs) == /\ ComingIn(fs) = ComingIn(s)
                          /\ \/ ConsumeFrame \in ToSet(fs)
                             \/ registeredTasks' = registeredTasks
                             \/ registeredTasks' =
                                  [registeredTasks EXCEPT ![i] = Satisfy(registeredTasks[i], e.key, e)]
<1> SUFFICES \E fs \in Seq(Frame) :
               /\ Replace(t, fs) /\ (fs # <<>> => Head(fs).op \in {"start", "resume", "event"})
               /\ Changes(fs)
  OBVIOUS
<1>1. Registering(t) /\ e \in Event
  BY RegisteringTypes DEF MatchRegistered, MatchPaused
<1>2. s \in Seq(Frame) /\ (s # <<>> => Head(s).op = "event")
  BY <1>1, AgainComing
<1>3. CASE Replace(t, s) /\ (MatchRegistered(t) =>
             registeredTasks' = [registeredTasks EXCEPT ![i] = Satisfy(registeredTasks[i], e.key, e)])
  <2>1. MatchPaused(t) => registeredTasks' = registeredTasks
    BY DEF MatchPaused
  <2>2. Changes(s)
    BY <1>3, <2>1
  <2> HIDE DEF Changes
  <2> QED BY <1>2, <1>3, <2>2
<1>4. CASE MatchRegistered(t) /\ Replace(t, <<StartFrame(Satisfy(registeredTasks[i], e.key, e)), ConsumeFrame>> \o s)
  <2> DEFINE task == Satisfy(registeredTasks[i], e.key, e)
             fs == <<StartFrame(task), ConsumeFrame>> \o s
  <2>1. task \in Task
    <3>1. registeredTasks \in Seq(CleanTask) /\ Matching(registeredTasks, e.key) # {}
      BY <1>4 DEF MatchRegistered, Sound, TaskLists
    <3>2. task \in CleanTask
      BY <1>1, <3>1, MatchingTask
    <3> HIDE DEF task
    <3> QED BY <3>2 DEF CleanTask
  <2> HIDE DEF task, s
  <2>2. fs \in Seq(Frame) /\ fs # <<>> /\ Head(fs).op = "start" /\ ComingIn(fs) = ComingIn(s)
    BY <1>2, <2>1, StartsComing
  <2>3. ConsumeFrame \in ToSet(fs)
    <3>1. Len(fs) = 2 + Len(s) /\ fs[2] = ConsumeFrame
      BY <1>2
    <3> HIDE DEF fs
    <3>2. Len(s) \in Nat /\ 2 \in 1 .. Len(fs)
      BY <1>2, <3>1
    <3> QED BY <2>2, <3>1, <3>2, SetOfSequence
  <2> HIDE DEF fs
  <2> QED BY <1>4, <2>2, <2>3 DEF fs, task
<1>5. CASE MatchPaused(t) /\ ~Replace(t, s)
  <2> DEFINE i0 == LeastIndex(Matching(pausedTasks, e.key))
             task == Satisfy(pausedTasks[i0], e.key, e)
             f == [op |-> "resume", task |-> task]
             fs == <<f>> \o s
  <2>1. Replace(t, fs) /\ registeredTasks' = registeredTasks
    BY <1>5 DEF MatchPaused
  <2>2. task \in Task
    <3>1. pausedTasks \in Seq(CleanTask) /\ Matching(pausedTasks, e.key) # {}
      BY <1>5 DEF MatchPaused, Sound, TaskLists
    <3>2. task \in CleanTask
      BY <1>1, <3>1, MatchingTask
    <3> HIDE DEF task
    <3> QED BY <3>2 DEF CleanTask
  <2>3. f \in Frame /\ f.op = "resume"
    BY <2>2 DEF Frame
  <2> HIDE DEF f, s
  <2>4. fs \in Seq(Frame) /\ fs # <<>> /\ Head(fs) = f /\ ComingIn(fs) = ComingIn(s)
    BY <1>2, <2>3, LeadComing
  <2> HIDE DEF fs
  <2> QED BY <2>1, <2>3, <2>4
<1>6. MatchRegistered(t) =>
        \/ Replace(t, <<StartFrame(Satisfy(registeredTasks[i], e.key, e)), ConsumeFrame>> \o s)
        \/ /\ Replace(t, s)
           /\ registeredTasks' = [registeredTasks EXCEPT ![i] = Satisfy(registeredTasks[i], e.key, e)]
  BY DEF MatchRegistered
<1> QED BY <1>3, <1>4, <1>5, <1>6

\* registerEvent matches an event: a persistent one comes again.
LEMMA MatchSteps ==
  ASSUME Sound, Modest, NEW t \in Threads, MatchRegistered(t) \/ MatchPaused(t),
         NEW e, e = Top(t).event
  PROVE  Modest' /\ In(t, "event") /\ Registering(t) /\ e \in Event /\ Taken(t, e)
         /\ (e.persistent => e \in ComingIn(Agenda(t))')
         /\ UNCHANGED <<outstandingEvents, fired>>
<1>1. In(t, "event") /\ Registering(t) /\ UNCHANGED <<outstandingEvents, fired, program>> /\ Stacks
      /\ todo[t] # <<>> /\ e.key \in Keys
  BY RegisteringTypes DEF MatchRegistered, MatchPaused, Registering, At, In, Sound
<1> DEFINE s == Again(t)
<1>2. /\ s \in Seq(Frame) /\ (s # <<>> => Head(s).op = "event")
      /\ ComingIn(s) = IF e.persistent THEN {e} ELSE {}
  BY <1>1, AgainComing
<1>3. Limited => registeredTasks' \in Seq(Modesty)
  <2>1. CASE MatchRegistered(t)
    BY <2>1, ModestTask, MatchedKept DEF Modest, Modesty
  <2>2. CASE MatchPaused(t)
    BY <2>2 DEF MatchPaused, Modest
  <2> QED BY <2>1, <2>2
<1>4. PICK fs \in Seq(Frame) : /\ Replace(t, fs) /\ (fs # <<>> => Head(fs).op \in {"start", "resume", "event"})
                               /\ ComingIn(fs) = ComingIn(s)
  BY MatchFrames
<1>5. ComingIn(fs) \subseteq {e} /\ (~e.persistent => ComingIn(fs) = {})
      /\ (e.persistent => ComingIn(fs) # {})
  BY <1>2, <1>4
<1>6. e \in Event /\ Taken(t, e) /\ (ComingIn(fs) # {} => e \in ComingIn(Agenda(t))')
  BY <1>1, <1>4, <1>5, EventTaken
<1>7. Modest'
  BY <1>1, <1>3, <1>4, ModestReplaced
<1> QED BY <1>1, <1>5, <1>6, <1>7

\* registerEvent stores an event.
LEMMA StoreSteps ==
  ASSUME Sound, Modest, NEW t \in Threads, StoreEvent(t), NEW e, e = Top(t).event
  PROVE  Modest' /\ In(t, "event") /\ Registering(t) /\ e \in Event /\ Taken(t, e)
         /\ outstandingEvents' = Push(outstandingEvents, e.key, e) /\ fired' = fired
<1>1. In(t, "event") /\ Registering(t) /\ UNCHANGED <<registeredTasks, fired, program>> /\ Stacks
      /\ todo[t] # <<>> /\ Return(t) /\ outstandingEvents' = Push(outstandingEvents, e.key, e)
  BY DEF StoreEvent, Registering, At, In, Sound
<1>2. <<>> \in Seq(Frame) /\ Replace(t, <<>>) /\ ComingIn(<<>>) = {}
  BY <1>1, EventFrames DEF Return
<1>3. e \in Event /\ Taken(t, e)
  BY <1>1, <1>2, EventTaken
<1>4. Modest'
  BY <1>1, ModestReturn DEF Modest
<1> QED BY <1>1, <1>3, <1>4

\* A thread whose list of frames to come is the same.
LEMMA SameAgenda ==
  ASSUME NEW t \in Threads, ~In(t, "event"), Agenda(t)' = Agenda(t),
         \A u \in Threads \ {t} : todo'[u] = todo[u]
  PROVE  \A u \in Threads : SameEvents(u)
<1>1. \A u \in Threads \ {t} : SameEvents(u)
  BY SameElsewhere
<1>2. SameEvents(t)
  BY DEF SameEvents, Lined, ComingIn
<1> QED BY <1>1, <1>2

\* registerEvents passes over the tasks, none of which is greedy.
LEMMA GreedySteps ==
  ASSUME Sound, Modest, NEW t \in Threads, GreedyTake(t) \/ GreedyNext(t)
  PROVE  /\ Modest' /\ \A u \in Threads : SameEvents(u)
         /\ GreedyNext(t) /\ registeredTasks' = registeredTasks
<1> DEFINE f == Top(t)
<1>1. /\ Scanning(t) /\ In(t, "batch") /\ UNCHANGED <<program, outstandingEvents>> /\ Stacks
  BY DEF GreedyTake, GreedyNext, Scanning, At, Sound
<1>2. /\ todo[t] # <<>> /\ f.op = "batch"
      /\ f \in [op : {"batch"}, events : Seq(Event), at : Nat, keys : SUBSET Keys, run : Seq(Task)]
      /\ f.at \in 1 .. Len(registeredTasks)
  BY <1>1, ScanningTypes
<1>3. Menu.batching /\ f.keys = {} /\ registeredTasks \in Seq(Modesty)
  BY <1>1 DEF Modest, Limited
<1>4. GreedyNext(t)
  BY <1>3 DEF GreedyTake
<1>5. ~registeredTasks[f.at].greedy /\ BatchKeys(f.at + 1) = {}
  <2>1. \A i \in DOMAIN registeredTasks : ~registeredTasks[i].greedy
    BY <1>3 DEF Modesty, Mild
  <2> QED BY <1>2, <1>3, <2>1 DEF BatchKeys
<1> DEFINE n == f.at + 1  g == [f EXCEPT !.at = n, !.keys = {}]
<1>6. registeredTasks' = registeredTasks /\ Replace(t, <<g>>)
  <2>1. Replace(t, <<[f EXCEPT !.at = @ + 1, !.keys = {}, !.run = f.run]>>)
    BY <1>4, <1>5 DEF GreedyNext
  <2>2. [f EXCEPT !.at = @ + 1, !.keys = {}, !.run = f.run] = g
    <3> HIDE DEF f
    <3> QED BY <1>2
  <2> QED BY <1>4, <1>5, <2>1, <2>2 DEF GreedyNext
<1>7. g.op = "batch" /\ g.keys = {} /\ g.run = f.run /\ g.events = f.events
  <2> HIDE DEF f, n
  <2> QED BY <1>2
<1> HIDE DEF g
<1>8. (\A u \in Threads \ {t} : todo'[u] = todo[u]) /\ todo'[t] # <<>> /\ Top(t)' = g
  BY <1>1, <1>2, <1>6, NewFrame
<1>9. Modest'
  <2>1. ~In(t, "gather")'
    BY <1>7, <1>8 DEF In
  <2> QED BY <1>1, <1>3, <1>6, <1>7, <1>8, <2>1, ModestStep
<1>10. Agenda(t)' = Agenda(t)
  <2>1. Agenda(t) = BatchFrames(f)
    BY <1>2 DEF Agenda, Unfolded, Top
  <2>2. Agenda(t)' = BatchFrames(g)
    <3>1. Head(todo'[t]) = g
      BY <1>8 DEF Top
    <3> QED BY <1>7, <1>8, <3>1 DEF Agenda, Unfolded, BatchFrames
  <2> HIDE DEF f
  <2> QED BY <1>7, <2>1, <2>2 DEF BatchFrames
<1>11. ~In(t, "event")
  BY <1>2 DEF In
<1> HIDE DEF f
<1> QED BY <1>4, <1>6, <1>8, <1>9, <1>10, <1>11, SameAgenda

\* The frames of a batch are left as they were announced.
LEMMA FinishBatchSteps ==
  ASSUME Sound, Modest, NEW t \in Threads, FinishBatch(t)
  PROVE  Modest' /\ \A u \in Threads : SameEvents(u)
<1> DEFINE f == Top(t)  fs == BatchFrames(f)
<1>1. /\ In(t, "batch") /\ todo[t] # <<>> /\ f.op = "batch" /\ Stacks
      /\ Replace(t, fs) /\ UNCHANGED <<program, registeredTasks>>
  BY DEF FinishBatch, At, In, BatchFrames, Sound
<1>2. f.run \in Seq(Task) /\ f.events \in Seq(Event)
  BY <1>1, PassFrames
<1>3. Tail(todo[t]) = <<>> /\ Agenda(t) = fs
  BY <1>1, TopTypes DEF Lonely, Agenda, Unfolded, Top
<1> HIDE DEF f
<1>4. /\ fs \in Seq(Frame) /\ Len(fs) = Len(f.run) + Len(f.events)
      /\ \A i \in 1 .. Len(f.run) + Len(f.events) : fs[i] \in Resting
  BY <1>2, BatchFramesTypes
<1> HIDE DEF fs
<1>5. fs # <<>> => Head(fs).op \notin {"gather", "batch"}
  <2>1. \A i \in 1 .. Len(fs) : fs[i] \in Resting
    BY <1>4
  <2>a. fs \in Seq(Frame)
    BY <1>4
  <2>2. fs # <<>> => Head(fs) = fs[1] /\ 1 \in 1 .. Len(fs)
    BY <2>a
  <2> QED BY <2>1, <2>2 DEF Resting, ConsumeFrame
<1>6. Modest'
  BY <1>1, <1>4, <1>5, ModestReplaced DEF Modest
<1>7. todo'[t] = fs /\ \A u \in Threads \ {t} : todo'[u] = todo[u]
  <2>1. fs \o <<>> = fs
    BY <1>4, ConcatEmptySeq
  <2> QED BY <1>1, <1>3, <2>1 DEF Stacks, Replace
<1>8. Agenda(t)' = Agenda(t)
  <2>1. fs # <<>> => Head(fs).op # "batch"
    BY <1>5
  <2> QED BY <1>3, <1>7, <2>1 DEF Agenda, Unfolded
<1>9. ~In(t, "event")
  BY <1>1 DEF In
<1> QED BY <1>6, <1>7, <1>8, <1>9, SameAgenda

\* What a pass over the persistent tasks leaves of the list of tasks.
LEMMA ConsumedKept ==
  ASSUME Sound, NEW S \in SUBSET CleanTask, Closed(S), registeredTasks \in Seq(S), NEW t \in Threads,
         ConsumeBegin(t) \/ ConsumeStored(t) \/ ConsumeNext(t) \/ ConsumeEnd(t)
  PROVE  registeredTasks' \in Seq(S)
<1> DEFINE i == Top(t).at
<1>1. CASE ConsumeStored(t)
  <2> DEFINE k == LeastSource(Top(t).keys)
             task == registeredTasks[i]
             b == Less(task, k)
             a == Arrive(b, k, First(k))
  <2>1. registeredTasks' = [registeredTasks EXCEPT ![i] = a] /\ Consuming(t) /\ Top(t).keys # {}
        /\ TakeFirst(k)
    BY <1>1 DEF ConsumeStored, Less
  <2>2. /\ i \in 1 .. Len(registeredTasks)
        /\ Top(t).keys \subseteq {l \in Counted(task.outstanding) : IsStored(l)}
    BY <2>1, ConsumingTypes
  <2>3. k \in Keys /\ k \in Counted(task.outstanding) /\ IsStored(k)
    <3>1. Top(t).keys \in SUBSET Keys
      BY <2>2 DEF Counted
    <3>2. k \in Top(t).keys
      BY <2>1, <3>1, LeastSourceIn
    <3> QED BY <2>2, <3>2 DEF Counted
  <2>4. task \in S
    BY <2>2, ListKept
  <2> HIDE DEF k
  <2>5. First(k) \in Event
    BY <2>1, <2>3, StoreTake DEF Sound, Plain
  <2> HIDE DEF task
  <2>6. b \in S
    BY <2>3, <2>4 DEF Closed
  <2> HIDE DEF b
  <2>7. a \in S
    BY <2>3, <2>5, <2>6 DEF Closed
  <2> HIDE DEF a, i
  <2> QED BY <2>1, <2>2, <2>7, ListKept
<1>2. CASE ConsumeNext(t)
  <2>1. /\ Consuming(t)
        /\ \/ registeredTasks' = registeredTasks
           \/ registeredTasks' = [registeredTasks EXCEPT ![i] = Rearm(registeredTasks[i])]
    BY <1>2 DEF ConsumeNext
  <2>2. i \in 1 .. Len(registeredTasks)
    BY <2>1, ConsumingTypes
  <2> HIDE DEF i
  <2>3. Rearm(registeredTasks[i]) \in S
    BY <2>2, ListKept DEF Closed
  <2> QED BY <2>1, <2>2, <2>3, ListKept
<1>3. CASE ConsumeBegin(t) \/ ConsumeEnd(t)
  BY <1>3 DEF ConsumeBegin, ConsumeEnd
<1> QED BY <1>1, <1>2, <1>3

\* A pass over the persistent tasks.
LEMMA ConsumeSteps ==
  ASSUME Sound, Modest, NEW t \in Threads,
         ConsumeBegin(t) \/ ConsumeStored(t) \/ ConsumeNext(t) \/ ConsumeEnd(t)
  PROVE  Modest' /\ \A u \in Threads : SameEvents(u)
<1>1. In(t, "consume") /\ program' = program /\ todo[t] # <<>> /\ Top(t).op = "consume" /\ Stacks
  BY DEF ConsumeBegin, ConsumeStored, ConsumeNext, ConsumeEnd, Consuming, At, In, Sound
<1>2. \/ Return(t)
      \/ \E x, y : Replace(t, <<[Top(t) EXCEPT !.at = x, !.keys = y]>>)
      \/ \E x : Replace(t, <<[Top(t) EXCEPT !.keys = x]>>)
      \/ \E x, y, z : Replace(t, <<[Top(t) EXCEPT !.at = x, !.keys = y, !.progress = z]>>)
  BY DEF ConsumeBegin, ConsumeStored, ConsumeNext, ConsumeEnd, Anew
<1>3. \A x, y, z : /\ [Top(t) EXCEPT !.at = x, !.keys = y].op = "consume"
                   /\ [Top(t) EXCEPT !.keys = x].op = "consume"
                   /\ [Top(t) EXCEPT !.at = x, !.keys = y, !.progress = z].op = "consume"
  BY <1>1, PassFrames
<1> DEFINE Goes(f) == f.op = "consume" /\ Replace(t, <<f>>)
<1>4. Return(t) \/ \E f : Goes(f)
  <2>1. ASSUME NEW x, NEW y, Replace(t, <<[Top(t) EXCEPT !.at = x, !.keys = y]>>) PROVE \E f : Goes(f)
    <3>1. Goes([Top(t) EXCEPT !.at = x, !.keys = y])
      BY <1>3, <2>1
    <3> QED BY <3>1
  <2>2. ASSUME NEW x, Replace(t, <<[Top(t) EXCEPT !.keys = x]>>) PROVE \E f : Goes(f)
    <3>1. Goes([Top(t) EXCEPT !.keys = x])
      BY <1>3, <2>2
    <3> QED BY <3>1
  <2>3. ASSUME NEW x, NEW y, NEW z, Replace(t, <<[Top(t) EXCEPT !.at = x, !.keys = y, !.progress = z]>>)
        PROVE  \E f : Goes(f)
    <3>1. Goes([Top(t) EXCEPT !.at = x, !.keys = y, !.progress = z])
      BY <1>3, <2>3
    <3> QED BY <3>1
  <2> HIDE DEF Goes
  <2> QED BY <1>2, <2>1, <2>2, <2>3, Zenon
<1>5. Limited => registeredTasks' \in Seq(Modesty)
  BY ModestTask, ConsumedKept DEF Modest, Modesty
<1>6. CASE Return(t)
  BY <1>1, <1>5, <1>6, ModestReturn, EventsKeptReturn
<1>7. CASE \E f : Goes(f)
  <2>1. PICK f : f.op = "consume" /\ Replace(t, <<f>>)
    BY <1>7
  <2> QED BY <1>1, <1>5, <2>1, ModestFrame, EventsKeptFrame
<1> QED BY <1>4, <1>6, <1>7

\* markThreadResume wakes a thread, which goes on with its wait.
LEMMA MarkThreadResumeSteps ==
  ASSUME Sound, Modest, NEW t \in Threads, MarkThreadResume(t)
  PROVE  Modest' /\ \A u \in Threads : SameEvents(u)
<1> DEFINE f == [op |-> "resumed", task |-> Top(t).task]
<1>1. PICK u \in Threads :
        In(u, "paused") /\ todo' = [todo EXCEPT ![t] = Tail(@), ![u] = <<f>>]
  BY DEF MarkThreadResume
<1>2. /\ At(t, "resume") /\ UNCHANGED <<program, registeredTasks, outstandingEvents>> /\ Stacks
      /\ todo[t] # <<>> /\ Top(t).op = "resume" /\ todo[u] # <<>> /\ Top(u).op = "paused"
  BY <1>1 DEF MarkThreadResume, At, In, Sound
<1>a. At(t, "resume") /\ Stacks /\ f = [op |-> "resumed", task |-> Top(t).task]
  BY <1>2
<1>3. f.op = "resumed"
  OBVIOUS
<1> HIDE DEF f
<1>4. /\ u # t
      /\ Top(t).task \in Task /\ f \in Frame
      /\ Stacks'
      /\ todo'[u] = <<f>> /\ todo'[t] = Tail(todo[t])
      /\ Top(u)' = f
      /\ todo'[t] # <<>> => Top(t)' \in Resting
      /\ \A v \in Threads \ {t, u} : todo'[v] = todo[v]
  BY <1>1, <1>a, Woken, ZenonT(60)
<1>5. todo'[t] # <<>> => Top(t)'.op \notin {"gather", "batch"}
  BY <1>4 DEF Resting, ConsumeFrame
<1>6. Modest'
  <2> SUFFICES ASSUME NEW v \in Threads
               PROVE  /\ In(v, "batch")' => Menu.batching /\ Top(v)'.keys = {}
                      /\ In(v, "gather")' => Careful(Top(v)')
    BY <1>2 DEF Modest, Careful, Limited, Menu
  <2>1. CASE v \in {t, u}
    BY <1>3, <1>4, <1>5, <2>1 DEF In
  <2>2. CASE v \notin {t, u}
    BY <1>4, <2>2 DEF In, Top, Modest
  <2> QED BY <2>1, <2>2
<1>7. SameEvents(t)
  <2> DEFINE r == Tail(todo[t])
  <2>1. todo[t] \in Seq(Frame) /\ r \in Seq(Frame)
    BY <1>2 DEF Stacks
  <2>2. Agenda(t) = todo[t] /\ Agenda(t)' = r
    <3>1. Agenda(t) = todo[t]
      BY <1>2 DEF Agenda, Unfolded, Top
    <3>2. todo'[t] # <<>> => Head(todo'[t]).op # "batch"
      BY <1>5 DEF Top
    <3>3. Agenda(t)' = todo'[t]
      BY <3>2 DEF Agenda, Unfolded
    <3> QED BY <1>4, <3>1, <3>3
  <2>3. ComingIn(todo[t]) = ComingIn(<<Top(t)>>) \union ComingIn(r)
    BY <1>2, <2>1, ComingJoined DEF Top
  <2>4. ComingIn(<<Top(t)>>) = {}
    BY <1>2, EventFrames
  <2>5. Lined(todo[t]) => Lined(r)
    BY <1>2, <2>1, LinedTail
  <2>6. ComingIn(Agenda(t))' = ComingIn(r) /\ (Lined(Agenda(t))' <=> Lined(r))
    BY <2>2 DEF ComingIn, Lined
  <2>7. ~In(t, "event")
    BY <1>2 DEF In
  <2> HIDE DEF r
  <2> QED BY <2>2, <2>3, <2>4, <2>5, <2>6, <2>7 DEF SameEvents
<1>8. SameEvents(u)
  <2>1. todo[u] = <<Top(u)>>
    <3>1. Len(todo[u]) = 1 /\ todo[u] \in Seq(Frame)
      BY <1>2, TopTypes DEF Lonely, StackOK
    <3> QED BY <3>1 DEF Top
  <2>2. Agenda(u) = <<Top(u)>> /\ Agenda(u)' = <<f>>
    <3>1. Agenda(u) = <<Top(u)>>
      BY <1>2, <2>1 DEF Agenda, Unfolded, Top
    <3>2. Head(<<f>>) = f /\ f.op # "batch"
      BY <1>3
    <3>3. Agenda(u)' = <<f>>
      BY <1>4, <3>2 DEF Agenda, Unfolded
    <3> QED BY <3>1, <3>3
  <2>3. ComingIn(<<Top(u)>>) = {} /\ ComingIn(<<f>>) = {}
    BY <1>2, <1>3, EventFrames
  <2>4. Lined(<<f>>)
    <3>1. \A i, j \in DOMAIN <<f>> : ~(i < j)
      OBVIOUS
    <3> QED BY <3>1 DEF Lined
  <2>5. ComingIn(Agenda(u))' = ComingIn(<<f>>) /\ (Lined(Agenda(u))' <=> Lined(<<f>>))
    BY <2>2 DEF ComingIn, Lined
  <2>6. ~In(u, "event")
    BY <1>2 DEF In
  <2> QED BY <2>2, <2>3, <2>4, <2>5, <2>6 DEF SameEvents
<1>9. \A v \in Threads : SameEvents(v)
  BY <1>4, <1>7, <1>8, SameElsewhere
<1> QED BY <1>6, <1>9

\* retrieveAnyMatchingEvents goes on.
LEMMA RetrieveNextSteps ==
  ASSUME Sound, Modest, NEW t \in Threads, RetrieveNext(t)
  PROVE  Modest' /\ \A u \in Threads : SameEvents(u)
<1>1. /\ In(t, "retrieve") /\ todo[t] # <<>> /\ Top(t).op = "retrieve"
      /\ UNCHANGED <<program, registeredTasks>>
  BY DEF RetrieveNext, At, In
<1>2. Return(t) \/ \E x : Replace(t, <<[Top(t) EXCEPT !.order = x]>>)
  BY DEF RetrieveNext
<1>3. \A x : [Top(t) EXCEPT !.order = x].op = "retrieve"
  BY <1>1, PassFrames
<1>4. Return(t) \/ \E f : f.op \notin {"gather", "batch", "event"} /\ Replace(t, <<f>>)
  BY <1>2, <1>3
<1> QED BY <1>1, <1>4, PlainModest

\* A call begins with one frame, that is not a batch.
LEMMA AgendaEntered ==
  ASSUME Stacks, NEW t \in Threads, todo[t] = <<>>, NEW f, f.op # "batch",
         todo' = [todo EXCEPT ![t] = <<f>>]
  PROVE  /\ todo'[t] = <<f>> /\ Top(t)' = f /\ \A u \in Threads \ {t} : todo'[u] = todo[u]
         /\ ComingIn(Agenda(t)) = {} /\ ComingIn(Agenda(t))' = ComingIn(<<f>>) /\ Lined(Agenda(t))'
<1>1. /\ todo'[t] = <<f>> /\ \A u \in Threads \ {t} : todo'[u] = todo[u]
  BY DEF Stacks
<1>2. Head(<<f>>) = f /\ \A i, j \in DOMAIN <<f>> : ~(i < j)
  OBVIOUS
<1>3. Agenda(t) = <<>> /\ Agenda(t)' = <<f>> /\ Top(t)' = f
  BY <1>1, <1>2 DEF Agenda, Unfolded, Top
<1>4. ComingIn(Agenda(t)) = {}
  BY <1>3, EventFrames
<1>5. ComingIn(Agenda(t))' = ComingIn(<<f>>) /\ Lined(Agenda(t))'
  BY <1>2, <1>3 DEF ComingIn, Lined
<1> QED BY <1>1, <1>3, <1>4, <1>5

\* Calls that bring no event.
LEMMA CallSteps ==
  ASSUME NoGreedyBatches, Sound, Modest, NEW t \in Threads,
         RegisterTask(t) \/ PauseTask(t) \/ RetrieveAny(t) \/ RemoveTask(t)
  PROVE  Modest' /\ (\A u \in Threads : SameEvents(u)) /\ fired' = fired
         /\ outstandingEvents' = outstandingEvents
<1>0. Menu \in Program /\ program \in DOMAIN Programs /\ Stacks
  BY MenuTypes DEF Sound, Plain
<1>1. ASSUME NEW f, f.op \notin {"event", "batch"}, todo[t] = <<>>, todo' = [todo EXCEPT ![t] = <<f>>]
      PROVE  \A u \in Threads : SameEvents(u)
  <2>1. /\ \A u \in Threads \ {t} : todo'[u] = todo[u]
        /\ ComingIn(Agenda(t)) = {} /\ ComingIn(Agenda(t))' = ComingIn(<<f>>) /\ Lined(Agenda(t))'
    BY <1>0, <1>1, AgendaEntered
  <2>2. SameEvents(t)
    BY <1>1, <2>1, EventFrames DEF SameEvents, In
  <2> QED BY <2>1, <2>2, SameElsewhere
<1>2. ASSUME NEW call \in {"register", "wait"}, NEW s \in Submission, Gather(t, call, s),
             Limited => Mild(s), call = "wait" => ~s.persistent
      PROVE  Modest' /\ (\A u \in Threads : SameEvents(u)) /\ fired' = fired
             /\ outstandingEvents' = outstandingEvents
  <2>1. Modest'
    BY <1>2, GatherModest
  <2> DEFINE f == [op |-> "gather", call |-> call, task |-> NewTask(s), next |-> 1, found |-> FALSE]
  <2>2. f.op \notin {"event", "batch"}
    OBVIOUS
  <2>3. todo[t] = <<>> /\ todo' = [todo EXCEPT ![t] = <<f>>] /\ UNCHANGED <<fired, outstandingEvents>>
    BY <1>2 DEF Gather, MayCall, Outside
  <2> HIDE DEF f
  <2> QED BY <1>1, <2>1, <2>2, <2>3
<1>3. CASE RegisterTask(t)
  <2>1. PICK s \in Menu.tasks : Gather(t, "register", s)
    BY <1>3 DEF RegisterTask
  <2>2. s \in Submission /\ (Limited => Mild(s))
    BY <1>0, <2>1, GreedyAssumption
       DEF Program, NoGreedyBatches, NoPersistentTasks, Limited, Mild, Menu
  <2> QED BY <1>2, <2>1, <2>2
<1>4. CASE PauseTask(t)
  <2> DEFINE s(order) == [order |-> order, persistent |-> FALSE, greedy |-> FALSE, name |-> NoName]
  <2>1. PICK order \in Menu.waits : Gather(t, "wait", s(order))
    BY <1>4 DEF PauseTask
  <2>2. s(order) \in Submission /\ Mild(s(order)) /\ ~s(order).persistent
    BY <1>0 DEF Submission, Program, Mild
  <2> HIDE DEF s
  <2> QED BY <1>2, <2>1, <2>2
<1>5. CASE RetrieveAny(t)
  <2>1. PICK f : f.op = "retrieve" /\ todo' = [todo EXCEPT ![t] = <<f>>]
    BY <1>5 DEF RetrieveAny
  <2>2. todo[t] = <<>> /\ UNCHANGED <<fired, outstandingEvents, program, registeredTasks>>
    BY <1>5 DEF RetrieveAny, MayCall, Outside
  <2>3. /\ Top(t)' = f /\ \A u \in Threads \ {t} : todo'[u] = todo[u]
    BY <1>0, <2>1, <2>2, AgendaEntered
  <2>4. ~In(t, "batch")' /\ ~In(t, "gather")'
    BY <2>1, <2>3 DEF In
  <2>5. Modest'
    BY <2>2, <2>3, <2>4, ModestStep DEF Modest
  <2> QED BY <1>1, <2>1, <2>2, <2>5
<1>6. CASE RemoveTask(t)
  <2>1. UNCHANGED <<program, todo, fired, outstandingEvents>>
    BY <1>6 DEF RemoveTask
  <2>2. PICK name \in Names \ {NoName} :
          \/ UNCHANGED registeredTasks
          \/ /\ Named(name) # {}
             /\ registeredTasks' = RemoveAt(registeredTasks, LeastIndex(Named(name)))
    BY <1>6 DEF RemoveTask
  <2>3. Limited => registeredTasks' \in Seq(Modesty)
    <3> SUFFICES ASSUME Limited PROVE registeredTasks' \in Seq(Modesty)
      OBVIOUS
    <3>1. registeredTasks \in Seq(Modesty) /\ registeredTasks \in Seq(CleanTask)
      BY DEF Modest, Sound, TaskLists
    <3>2. Named(name) # {} => LeastIndex(Named(name)) \in 1 .. Len(registeredTasks)
      BY <3>1, NamedTask
    <3> QED BY <2>2, <3>1, <3>2, ListKept
  <2>4. Modest'
    BY <2>1, <2>3 DEF Modest, Careful, Limited, In, Top, Menu
  <2>5. \A u \in Threads : SameEvents(u)
    BY <2>1, SameElsewhere
  <2> QED BY <2>1, <2>4, <2>5
<1> QED BY <1>3, <1>4, <1>5, <1>6

\* New events come, all of them with greater numbers than those before.
Arrival(t, new) ==
  /\ todo[t] = <<>> /\ \A u \in Threads \ {t} : todo'[u] = todo[u]
  /\ outstandingEvents' = outstandingEvents
  /\ new \in SUBSET Event /\ fired' = fired \union new
  /\ \A e \in new : e \notin fired /\ \A f \in fired : f.id < e.id
  /\ \A e \in new : (t = Poller) <=> (e.key.src # MyRank)
  /\ ComingIn(Agenda(t)) = {} /\ ComingIn(Agenda(t))' = new /\ Lined(Agenda(t))'
  /\ t # Poller => In(t, "event")' /\ Tail(todo'[t]) = <<>> /\ Holds(t)'

\* registerEvent is called with a new event.
LEMMA RegisterEventSteps ==
  ASSUME Sound, Numbered, Modest, NEW t \in Threads, RegisterEvent(t)
  PROVE  Modest' /\ \E new : Arrival(t, new)
<1>1. PICK kind \in Menu.kinds : /\ todo' = [todo EXCEPT ![t] = <<EventFrame(NewEvent(kind, 1))>>]
                                 /\ fired' = fired \union {NewEvent(kind, 1)}
                                 /\ (t = Poller) <=> (kind.key.src # MyRank)
  BY DEF RegisterEvent
<1>2. kind \in Kind
  BY MenuTypes DEF Sound, Plain, Program
<1> DEFINE x == NewEvent(kind, 1)  f == EventFrame(x)
<1>3. /\ x \in Event /\ x \notin fired /\ x.id = Cardinality(fired) + 1 /\ x.key = kind.key
      /\ Cardinality(fired) \in Nat
  BY <1>2, NewEventTypes, NewlyNumbered DEF Sound, Plain, NewEvent
<1>4. /\ todo' = [todo EXCEPT ![t] = <<f>>] /\ fired' = fired \union {x} /\ todo[t] = <<>>
      /\ (t = Poller) <=> (x.key.src # MyRank)
      /\ UNCHANGED <<program, registeredTasks, outstandingEvents>> /\ taskAndEvent_mutex' = t
      /\ Stacks
  BY <1>1, <1>3 DEF RegisterEvent, Outside, Lock, Sound
<1>5. \A d \in fired : d.id < x.id
  <2>1. \A d \in fired : d.id \in Nat /\ d.id <= Cardinality(fired)
    BY DEF Numbered, Sound, Plain, Event
  <2> HIDE DEF x
  <2> QED BY <1>3, <2>1
<1> HIDE DEF x
<1>6. f.op = "event"
  BY DEF EventFrame
<1>7. ComingIn(<<f>>) = {x}
  BY <1>3, EventFrames
<1> HIDE DEF f
<1>8. /\ todo'[t] = <<f>> /\ Top(t)' = f /\ \A u \in Threads \ {t} : todo'[u] = todo[u]
      /\ ComingIn(Agenda(t)) = {} /\ ComingIn(Agenda(t))' = ComingIn(<<f>>) /\ Lined(Agenda(t))'
  BY <1>4, <1>6, AgendaEntered
<1>9. In(t, "event")' /\ ~In(t, "gather")' /\ ~In(t, "batch")' /\ Tail(todo'[t]) = <<>>
  BY <1>6, <1>8 DEF In
<1>10. Modest'
  BY <1>4, <1>8, <1>9, ModestStep DEF Modest
<1>11. Arrival(t, {x})
  BY <1>3, <1>4, <1>5, <1>7, <1>8, <1>9 DEF Arrival, Holds
<1> QED BY <1>10, <1>11

\* registerEvents is called with a batch.
LEMMA RegisterEventsSteps ==
  ASSUME Sound, Numbered, Modest, NEW t \in Threads, RegisterEvents(t)
  PROVE  Modest' /\ \E new : Arrival(t, new)
<1>0. PICK n \in 1 .. Menu.maxBatch :
        \E kinds \in [1 .. n -> {kind \in Menu.kinds : kind.key.src # MyRank}] :
          LET events == [j \in 1 .. n |-> NewEvent(kinds[j], j)]
              f == [op |-> "batch", events |-> events, at |-> 1, keys |-> BatchKeys(1), run |-> <<>>]
          IN  /\ fired' = fired \union ToSet(events)
              /\ todo' = [todo EXCEPT ![t] = <<f>>]
  BY DEF RegisterEvents
<1>1. PICK kinds \in [1 .. n -> {kind \in Menu.kinds : kind.key.src # MyRank}] :
        LET events == [j \in 1 .. n |-> NewEvent(kinds[j], j)]
            f == [op |-> "batch", events |-> events, at |-> 1, keys |-> BatchKeys(1), run |-> <<>>]
        IN  /\ fired' = fired \union ToSet(events)
            /\ todo' = [todo EXCEPT ![t] = <<f>>]
  BY <1>0
<1> DEFINE events == [j \in 1 .. n |-> NewEvent(kinds[j], j)]
           f == [op |-> "batch", events |-> events, at |-> 1, keys |-> BatchKeys(1), run |-> <<>>]
           c == Cardinality(fired)
<1>2. n \in Nat /\ Menu \in Program /\ c \in Nat
  BY MenuTypes, FS_CardinalityType DEF Sound, Plain, Program
<1>3. ASSUME NEW j \in 1 .. n
      PROVE  /\ NewEvent(kinds[j], j) \in Event
             /\ NewEvent(kinds[j], j) \notin fired
             /\ NewEvent(kinds[j], j).id = c + j
             /\ NewEvent(kinds[j], j).key.src # MyRank
  <2>1. kinds[j] \in Kind /\ kinds[j].key.src # MyRank
    BY <1>2 DEF Program
  <2>2. j \in Nat /\ j > 0
    BY <1>2
  <2>3. NewEvent(kinds[j], j) \in Event
    BY <2>1, <2>2, NewEventTypes DEF Sound, Plain
  <2> DEFINE kind == kinds[j]
  <2> HIDE DEF kind
  <2>4. /\ NewEvent(kind, j) \notin fired
        /\ NewEvent(kind, j).id = c + j
    BY <2>2, NewlyNumbered DEF Sound, Plain
  <2>5. NewEvent(kind, j).key = kind.key
    BY DEF NewEvent
  <2> QED BY <2>1, <2>3, <2>4, <2>5 DEF kind
<1>4. events \in Seq(Event) /\ Len(events) = n /\ DOMAIN events = 1 .. n
  BY <1>2, <1>3
<1>5. \A j \in 1 .. n : /\ events[j] \notin fired /\ events[j].id = c + j
                        /\ events[j].key.src # MyRank
  BY <1>3
<1>6. /\ fired' = fired \union ToSet(events) /\ todo' = [todo EXCEPT ![t] = <<f>>] /\ todo[t] = <<>>
      /\ t = Poller /\ Menu.batching /\ UNCHANGED <<program, registeredTasks, outstandingEvents>>
  BY <1>1 DEF RegisterEvents, Outside
<1> HIDE DEF events, c
<1>7. f.op = "batch" /\ f.events = events /\ f.run = <<>> /\ f.keys = BatchKeys(1)
  OBVIOUS
<1> HIDE DEF f
<1>8. /\ todo'[t] = <<f>> /\ Top(t)' = f /\ \A u \in Threads \ {t} : todo'[u] = todo[u]
  BY <1>6 DEF Sound, Stacks, Top
<1>9. Modest'
  <2>1. BatchKeys(1) = {}
    BY <1>6 DEF Modest, Modesty, Mild, Limited, BatchKeys
  <2>2. ~In(t, "gather")'
    BY <1>7, <1>8 DEF In
  <2> QED BY <1>6, <1>7, <1>8, <2>1, <2>2, ModestStep DEF Modest
<1> DEFINE s == BatchFrames(f)
<1>10. /\ s \in Seq(Frame) /\ Len(s) = n /\ \A j \in 1 .. n : s[j] = EventFrame(events[j])
  <2>1. f.run \in Seq(Task) /\ f.events \in Seq(Event) /\ Len(f.run) = 0
    BY <1>4, <1>7
  <2>2. /\ s \in Seq(Frame) /\ Len(s) = Len(f.run) + Len(f.events)
        /\ \A i \in 1 .. Len(f.events) : s[Len(f.run) + i] = EventFrame(f.events[i])
    BY <2>1, BatchFramesTypes
  <2> HIDE DEF s
  <2> QED BY <1>2, <1>4, <1>7, <2>1, <2>2
<1>11. Agenda(t) = <<>> /\ Agenda(t)' = s
  <2>1. Head(<<f>>) = f
    OBVIOUS
  <2>2. Agenda(t)' = BatchFrames(f)
    BY <1>7, <1>8, <2>1 DEF Agenda, Unfolded
  <2>3. Agenda(t) = <<>>
    BY <1>6 DEF Agenda, Unfolded
  <2> QED BY <2>2, <2>3
<1> HIDE DEF s
<1>12. \A d, e \in Event : EventFrame(d) = EventFrame(e) => d = e
  BY DEF EventFrame
<1>13. \A x : x \in ToSet(events) <=> \E i \in 1 .. n : x = events[i]
  BY <1>4, SetOfSequence
<1>14. ComingIn(s) = ToSet(events)
  <2>1. \A x : x \in ToSet(s) <=> \E i \in 1 .. n : x = s[i]
    BY <1>10, SetOfSequence
  <2>2. \A i \in 1 .. n : events[i] \in Event
    BY <1>4
  <2> QED BY <1>10, <1>12, <1>13, <2>1, <2>2 DEF ComingIn
<1>15. Lined(s)
  <2> SUFFICES ASSUME NEW i \in 1 .. n, NEW j \in 1 .. n, NEW d \in Event, NEW e \in Event,
                      i < j, s[i] = EventFrame(d), s[j] = EventFrame(e)
               PROVE  d.id < e.id
    <3>1. DOMAIN s = 1 .. n
      BY <1>10
    <3> QED BY <3>1 DEF Lined, Transient
  <2>1. d = events[i] /\ e = events[j]
    BY <1>4, <1>10, <1>12
  <2>2. d.id = c + i /\ e.id = c + j
    BY <1>5, <2>1
  <2> QED BY <1>2, <2>2
<1>16. ComingIn(Agenda(t))' = ToSet(events) /\ Lined(Agenda(t))' /\ ComingIn(Agenda(t)) = {}
  BY <1>11, <1>14, <1>15, EventFrames DEF ComingIn, Lined
<1>17. \A e \in ToSet(events) : e \notin fired /\ (\A d \in fired : d.id < e.id) /\ e.key.src # MyRank
  <2>1. \A d \in fired : d.id \in Nat /\ d.id <= c
    BY DEF Numbered, Sound, Plain, Event, c
  <2> QED BY <1>2, <1>5, <1>13, <2>1
<1>18. ToSet(events) \in SUBSET Event
  BY <1>4, <1>13
<1>19. Arrival(t, ToSet(events))
  BY <1>6, <1>8, <1>16, <1>17, <1>18 DEF Arrival
<1> QED BY <1>9, <1>19

\* A step that takes no event from the calls and brings none.
Quiet ==
  /\ \A u \in Threads : SameEvents(u)
  /\ fired' = fired
  /\ outstandingEvents' = outstandingEvents \/ \E k \in Keys : IsStored(k) /\ TakeFirst(k)

\* What the steps of the scheduler do with events.
LEMMA OrderSteps ==
  ASSUME NoGreedyBatches, Sound, Numbered, Modest, [Next]_vars
  PROVE  /\ Modest'
         /\ \/ Quiet
            \/ \E t \in Threads : MatchRegistered(t) \/ MatchPaused(t) \/ StoreEvent(t)
            \/ \E t \in Threads : \E new : Arrival(t, new)
<1>1. ASSUME NEW t \in Threads, GatherStored(t) \/ GatherMissing(t)
      PROVE  Modest' /\ Quiet
  <2>1. Modest' /\ (\A u \in Threads : SameEvents(u)) /\ fired' = fired
    BY <1>1, GatheringModest DEF GatherStored, GatherMissing
  <2>2. outstandingEvents' = outstandingEvents \/ \E k \in Keys : IsStored(k) /\ TakeFirst(k)
    <3>1. Stacks /\ Gathering(t)
      BY <1>1 DEF Sound, GatherStored, GatherMissing
    <3>2. Top(t).task.order[Top(t).next] \in Keys
      BY <3>1, GatheringTypes
    <3> QED BY <1>1, <3>2 DEF GatherStored, GatherMissing
  <2> QED BY <2>1, <2>2 DEF Quiet
<1>2. ASSUME NEW t \in Threads,
             FinishRegisterTask(t) \/ FinishPauseTask(t) \/ ReadyToRunTask(t) \/ Resumed(t)
      PROVE  Modest' /\ Quiet
  <2>1. Modest' /\ \A u \in Threads : SameEvents(u)
    BY <1>2, FinishRegisterTaskModest, ReturnsModest
  <2>2. UNCHANGED <<fired, outstandingEvents>>
    BY <1>2 DEF FinishRegisterTask, FinishPauseTask, ReadyToRunTask, Resumed
  <2> QED BY <2>1, <2>2 DEF Quiet
<1>3. ASSUME NEW t \in Threads, GreedyTake(t) \/ GreedyNext(t) \/ FinishBatch(t) \/ MarkThreadResume(t)
      PROVE  Modest' /\ Quiet
  <2>1. Modest' /\ \A u \in Threads : SameEvents(u)
    BY <1>3, GreedySteps, FinishBatchSteps, MarkThreadResumeSteps
  <2>2. UNCHANGED <<fired, outstandingEvents>>
    BY <1>3 DEF GreedyTake, GreedyNext, FinishBatch, MarkThreadResume
  <2> QED BY <2>1, <2>2 DEF Quiet
<1>4. ASSUME NEW t \in Threads, ConsumeBegin(t) \/ ConsumeStored(t) \/ ConsumeNext(t) \/ ConsumeEnd(t)
      PROVE  Modest' /\ Quiet
  <2>1. Modest' /\ (\A u \in Threads : SameEvents(u)) /\ fired' = fired
    BY <1>4, ConsumeSteps DEF ConsumeBegin, ConsumeStored, ConsumeNext, ConsumeEnd
  <2>2. outstandingEvents' = outstandingEvents \/ \E k \in Keys : IsStored(k) /\ TakeFirst(k)
    <3>1. CASE ConsumeStored(t)
      <4> DEFINE k == LeastSource(Top(t).keys)
      <4>1. Consuming(t) /\ Top(t).keys # {} /\ TakeFirst(k)
        BY <3>1 DEF ConsumeStored
      <4>2. Top(t).keys \subseteq {l \in Counted(registeredTasks[Top(t).at].outstanding) : IsStored(l)}
        BY <4>1, ConsumingTypes
      <4>3. Top(t).keys \in SUBSET Keys
        BY <4>2 DEF Counted
      <4>4. k \in Keys /\ IsStored(k)
        BY <4>1, <4>2, <4>3, LeastSourceIn
      <4> QED BY <4>1, <4>4
    <3>2. CASE ConsumeBegin(t) \/ ConsumeNext(t) \/ ConsumeEnd(t)
      BY <3>2 DEF ConsumeBegin, ConsumeNext, ConsumeEnd
    <3> QED BY <1>4, <3>1, <3>2
  <2> QED BY <2>1, <2>2 DEF Quiet
<1>5. ASSUME NEW t \in Threads, RetrieveNext(t) PROVE Modest' /\ Quiet
  <2>1. Modest' /\ (\A u \in Threads : SameEvents(u)) /\ fired' = fired
    BY <1>5, RetrieveNextSteps DEF RetrieveNext
  <2>2. In(t, "retrieve") /\ Top(t) \in [op : {"retrieve"}, order : Seq(Keys)]
    BY <1>5, PassFrames DEF RetrieveNext, At
  <2>3. Top(t).order # <<>> => Head(Top(t).order) \in Keys
    BY <2>2
  <2>4. \/ outstandingEvents' = outstandingEvents
        \/ Top(t).order # <<>> /\ IsStored(Head(Top(t).order)) /\ TakeFirst(Head(Top(t).order))
    BY <1>5 DEF RetrieveNext
  <2> QED BY <2>1, <2>3, <2>4 DEF Quiet
<1>6. ASSUME NEW t \in Threads, Call(t)
      PROVE  Modest' /\ (Quiet \/ \E new : Arrival(t, new))
  <2>1. CASE RegisterTask(t) \/ PauseTask(t) \/ RetrieveAny(t) \/ RemoveTask(t)
    BY <2>1, CallSteps DEF Quiet
  <2>2. CASE RegisterEvent(t) \/ RegisterEvents(t)
    BY <2>2, RegisterEventSteps, RegisterEventsSteps
  <2> QED BY <1>6, <2>1, <2>2 DEF Call
<1>7. ASSUME NEW t \in Threads, MatchRegistered(t) \/ MatchPaused(t) \/ StoreEvent(t) PROVE Modest'
  BY <1>7, MatchSteps, StoreSteps
<1>8. CASE RunTask \/ UNCHANGED vars
  <2>1. UNCHANGED <<program, registeredTasks, outstandingEvents, todo, fired>>
    BY <1>8 DEF RunTask, vars
  <2>2. Modest'
    BY <2>1 DEF Modest, Careful, Limited, In, Top, Menu
  <2>3. \A u \in Threads : SameEvents(u)
    BY <2>1, SameElsewhere
  <2> QED BY <2>1, <2>2, <2>3 DEF Quiet
<1>9. ASSUME NEW t \in Threads, Step(t)
      PROVE  Modest' /\ (Quiet \/ MatchRegistered(t) \/ MatchPaused(t) \/ StoreEvent(t))
  BY <1>1, <1>2, <1>3, <1>4, <1>5, <1>7, <1>9 DEF Step
<1> QED BY <1>6, <1>8, <1>9 DEF Next, Stopped

-----------------------------------------------------------------------------
(* The events of the store and of the calls                                *)

\* What a step does to the events that are still to be registered.
LEMMA ComingSteps ==
  /\ (\A u \in Threads : SameEvents(u)) => Coming' = Coming
  /\ \A t \in Threads : \A e : Taken(t, e) => Coming = Coming' \union {e}
  /\ \A t \in Threads : \A new : Arrival(t, new) => Coming' = Coming \union new
<1>1. Coming' = UNION {ComingIn(Agenda(t))' : t \in Threads}
  BY DEF Coming
<1>2. ASSUME \A u \in Threads : SameEvents(u) PROVE Coming' = Coming
  BY <1>1, <1>2 DEF SameEvents, Coming
<1>3. ASSUME NEW t \in Threads, NEW e, Taken(t, e) PROVE Coming = Coming' \union {e}
  <2>1. /\ ComingIn(Agenda(t)) = ComingIn(Agenda(t))' \union {e}
        /\ \A u \in Threads \ {t} : ComingIn(Agenda(u))' = ComingIn(Agenda(u))
    BY <1>3 DEF Taken, SameEvents
  <2> QED BY <1>1, <2>1 DEF Coming
<1>4. ASSUME NEW t \in Threads, NEW new, Arrival(t, new) PROVE Coming' = Coming \union new
  <2>1. /\ ComingIn(Agenda(t)) = {} /\ ComingIn(Agenda(t))' = new
        /\ \A u \in Threads \ {t} : ComingIn(Agenda(u))' = ComingIn(Agenda(u))
    BY <1>4, SameElsewhere DEF Arrival, SameEvents
  <2> QED BY <1>1, <2>1 DEF Coming
<1> QED BY <1>2, <1>3, <1>4

\* Taking an event from the store leaves the others there.
LEMMA StoreTaken ==
  ASSUME Sound, NEW k \in Keys, IsStored(k), TakeFirst(k)
  PROVE  /\ StoredEvents' \subseteq StoredEvents
         /\ \A e \in StoredEvents : e \in StoredEvents' \/ (e = First(k) /\ ~e.persistent)
<1> DEFINE m == outstandingEvents  n == outstandingEvents'  s == Store(k)  x == First(k)
<1>1. m \in Queue /\ s \in Keys /\ m[s] # <<>> /\ x = Head(m[s])
  <2>1. s \in Keys
    BY SlotFound DEF Queued, Store
  <2> QED BY <2>1 DEF Sound, StoreOK, IsStored, First
<1>2. x.persistent => n = m
  BY DEF TakeFirst
<1>3. ~x.persistent => n = [m EXCEPT ![s] = Tail(m[s])]
  BY DEF TakeFirst
<1>4. StoredEvents = UNION {ToSet(m[l]) : l \in Keys} /\ StoredEvents' = UNION {ToSet(n[l]) : l \in Keys}
  BY DEF StoredEvents
<1> HIDE DEF m, n, s, x
<1>5. CASE x.persistent
  BY <1>2, <1>4, <1>5
<1>6. CASE ~x.persistent
  <2>1. \A l \in Keys : l # s => n[l] = m[l]
    BY <1>1, <1>3, <1>6 DEF Queue
  <2>2. m[s] \in Seq(Event) /\ n[s] = Tail(m[s])
    BY <1>1, <1>3, <1>6 DEF Queue
  <2>3. ToSet(m[s]) = {x} \union ToSet(n[s])
    BY <1>1, <2>2, Parts
  <2>4. ASSUME NEW e \in StoredEvents' PROVE e \in StoredEvents
    <3>1. PICK l \in Keys : e \in ToSet(n[l])
      BY <1>4, <2>4
    <3>2. e \in ToSet(m[l])
      BY <2>1, <2>3, <3>1
    <3> QED BY <1>4, <3>2
  <2>5. ASSUME NEW e \in StoredEvents, e # x PROVE e \in StoredEvents'
    <3>1. PICK l \in Keys : e \in ToSet(m[l])
      BY <1>4
    <3>2. e \in ToSet(n[l])
      BY <2>1, <2>3, <2>5, <3>1
    <3> QED BY <1>4, <3>2
  <2> QED BY <1>6, <2>4, <2>5 DEF x
<1> QED BY <1>5, <1>6

\* Storing an event adds it.
LEMMA StorePushed ==
  ASSUME Sound, NEW e \in Event, outstandingEvents' = Push(outstandingEvents, e.key, e)
  PROVE  StoredEvents' = StoredEvents \union {e}
<1> DEFINE m == outstandingEvents  n == outstandingEvents'  s == Slot(Queued(m), e.key)
<1>1. m \in Queue /\ e.key \in Keys
  BY KeysInt DEF Sound, StoreOK, Event
<1>2. \A l \in Keys : ToSet(n[l]) = IF l = s THEN ToSet(m[l]) \union {e} ELSE ToSet(m[l])
  <2> DEFINE q == Push(m, e.key, e)
  <2>1. \A l \in Keys : ToSet(q[l]) = IF l = s THEN ToSet(m[l]) \union {e} ELSE ToSet(m[l])
    BY <1>1, PushQueues, ZenonT(60)
  <2> HIDE DEF q
  <2>2. q = n
    BY DEF q
  <2> QED BY <2>1, <2>2
<1>3. s \in Keys
  BY <1>1, SlotFound DEF Queued
<1>4. StoredEvents = UNION {ToSet(m[l]) : l \in Keys} /\ StoredEvents' = UNION {ToSet(n[l]) : l \in Keys}
  BY DEF StoredEvents
<1> HIDE DEF m, n, s
<1> QED BY <1>2, <1>3, <1>4, ZenonT(60)

-----------------------------------------------------------------------------
(* Persistent events stay available                                        *)

\* A persistent event is stored or still to be registered.
Lasting == \A e \in fired : e.persistent => e \in StoredEvents \union Coming

\* When no call is under way there is no event to register.
LEMMA QuiescentCalls ==
  ASSUME Sound, Quiescent
  PROVE  Coming = {}
<1>1. ASSUME NEW t \in Threads PROVE ComingIn(Agenda(t)) = {}
  <2>1. CASE todo[t] = <<>>
    <3>1. Agenda(t) = <<>>
      BY <2>1 DEF Agenda, Unfolded
    <3> QED BY <3>1, EventFrames
  <2>2. CASE In(t, "paused")
    <3>1. todo[t] # <<>> /\ Top(t).op = "paused" /\ Stacks
      BY <2>2 DEF In, Sound
    <3>2. Len(todo[t]) = 1 /\ todo[t] \in Seq(Frame)
      BY <3>1, TopTypes DEF Lonely, StackOK
    <3>3. todo[t] = <<Top(t)>>
      BY <3>1, <3>2 DEF Top
    <3>4. Agenda(t) = <<Top(t)>>
      BY <3>1, <3>3 DEF Agenda, Unfolded, Top
    <3> QED BY <3>1, <3>4, EventFrames
  <2> QED BY <2>1, <2>2 DEF Quiescent
<1> QED BY <1>1 DEF Coming

\* No step takes a persistent event away.
LEMMA StepLasting ==
  ASSUME NoGreedyBatches, Sound, Numbered, Modest, Lasting, [Next]_vars
  PROVE  Lasting'
<1>1. \/ Quiet
      \/ \E t \in Threads : MatchRegistered(t) \/ MatchPaused(t)
      \/ \E t \in Threads : StoreEvent(t)
      \/ \E t \in Threads : \E new : Arrival(t, new)
  BY OrderSteps
<1>2. CASE Quiet
  <2>1. Coming' = Coming /\ fired' = fired
    BY <1>2, ComingSteps DEF Quiet
  <2>2. \A e \in StoredEvents : e \in StoredEvents' \/ ~e.persistent
    <3>1. CASE outstandingEvents' = outstandingEvents
      BY <3>1 DEF StoredEvents
    <3>2. CASE outstandingEvents' # outstandingEvents
      <4>1. PICK k \in Keys : IsStored(k) /\ TakeFirst(k)
        BY <1>2, <3>2 DEF Quiet
      <4> QED BY <4>1, StoreTaken
    <3> QED BY <3>1, <3>2
  <2> QED BY <2>1, <2>2 DEF Lasting
<1>3. ASSUME NEW t \in Threads, MatchRegistered(t) \/ MatchPaused(t) PROVE Lasting'
  <2> DEFINE e == Top(t).event
  <2>1. Taken(t, e) /\ (e.persistent => e \in ComingIn(Agenda(t))')
        /\ UNCHANGED <<outstandingEvents, fired>>
    BY <1>3, MatchSteps
  <2>2. Coming = Coming' \union {e}
    BY <2>1, ComingSteps
  <2>3. e.persistent => e \in Coming'
    BY <2>1 DEF Coming
  <2>4. StoredEvents' = StoredEvents
    BY <2>1 DEF StoredEvents
  <2> HIDE DEF e
  <2> QED BY <2>1, <2>2, <2>3, <2>4 DEF Lasting
<1>4. ASSUME NEW t \in Threads, StoreEvent(t) PROVE Lasting'
  <2> DEFINE e == Top(t).event
  <2>1. e \in Event /\ Taken(t, e) /\ outstandingEvents' = Push(outstandingEvents, e.key, e)
        /\ fired' = fired
    BY <1>4, StoreSteps
  <2>2. Coming = Coming' \union {e} /\ StoredEvents' = StoredEvents \union {e}
    BY <2>1, ComingSteps, StorePushed
  <2> HIDE DEF e
  <2> QED BY <2>1, <2>2 DEF Lasting
<1>5. ASSUME NEW t \in Threads, NEW new, Arrival(t, new) PROVE Lasting'
  <2>1. Coming' = Coming \union new /\ fired' = fired \union new /\ StoredEvents' = StoredEvents
    BY <1>5, ComingSteps DEF Arrival, StoredEvents
  <2> QED BY <2>1 DEF Lasting
<1> QED BY <1>1, <1>2, <1>3, <1>4, <1>5

\* Nothing has come at the start.
LEMMA InitLasting == Init => Modest /\ Lasting
<1>1. <<>> \in Seq(Modesty)
  OBVIOUS
<1> QED BY <1>1 DEF Init, Modest, Lasting, In

\* Persistent events stay available (registerEvent tries them again until no
\* task waits for them and then stores them, and the store hands out copies):
\* whenever no call is under way they are all stored, if batches do not meet
\* greedy tasks, which would take them.
THEOREM PersistentEventsKept ==
  ASSUME NoGreedyBatches
  PROVE  Spec => []PersistentEventsStay
<1> DEFINE I == Sound /\ Numbered /\ Modest /\ Lasting
<1>1. Init => I
  BY InitSound, InitConserved, InitLasting
<1>2. I /\ [Next]_vars => I'
  BY StepSound, NumberedSteps, OrderSteps, StepLasting
<1>3. I => PersistentEventsStay
  BY QuiescentCalls DEF PersistentEventsStay, Lasting
<1> QED BY <1>1, <1>2, <1>3, PTL DEF Spec

-----------------------------------------------------------------------------
(* The order of events                                                     *)

\* Waits end once.
WaitsOnce == \A i \in DOMAIN pausedTasks : ~pausedTasks[i].persistent

\* pauseTask adds waits, and registerEvent matches them.
LEMMA StepWaitsOnce ==
  ASSUME Sound, Modest, WaitsOnce, [Next]_vars
  PROVE  WaitsOnce'
<1>1. pausedTasks \in Seq(CleanTask)
  BY DEF Sound, TaskLists
<1> DEFINE Brief == {task \in CleanTask : ~task.persistent}
<1>2. pausedTasks \in Seq(Brief)
  BY <1>1 DEF WaitsOnce
<1>3. ASSUME NEW tasks \in Seq(Brief), pausedTasks' = tasks PROVE WaitsOnce'
  BY <1>3 DEF WaitsOnce
<1>4. ASSUME NEW t \in Threads, FinishPauseTask(t) PROVE WaitsOnce'
  <2> DEFINE task == Top(t).task
  <2>1. In(t, "gather") /\ Top(t).call = "wait" /\ todo[t] # <<>> /\ Top(t).op = "gather" /\ Stacks
    BY <1>4 DEF FinishPauseTask, Gathered, At, In, Sound
  <2>2. task \in Brief
    BY <2>1, TopTypes DEF Modest, Careful
  <2>3. pausedTasks' = pausedTasks \/ pausedTasks' = Append(pausedTasks, task)
    BY <1>4 DEF FinishPauseTask
  <2> HIDE DEF task, Brief
  <2>4. Append(pausedTasks, task) \in Seq(Brief)
    BY <1>2, <2>2, ListKept
  <2> QED BY <1>2, <1>3, <2>3, <2>4
<1>5. ASSUME NEW t \in Threads, MatchPaused(t) PROVE WaitsOnce'
  <2> DEFINE e == Top(t).event
             i == LeastIndex(Matching(pausedTasks, e.key))
             task == Satisfy(pausedTasks[i], e.key, e)
  <2>1. \/ pausedTasks' = RemoveAt(pausedTasks, i)
        \/ pausedTasks' = [pausedTasks EXCEPT ![i] = task]
    BY <1>5 DEF MatchPaused
  <2>2. e \in Event /\ e.key \in Keys /\ Matching(pausedTasks, e.key) # {}
    BY <1>5, RegisteringTypes DEF MatchPaused
  <2> HIDE DEF e
  <2>3. i \in 1 .. Len(pausedTasks) /\ Depends(pausedTasks[i].outstanding, e.key)
    BY <1>1, <2>2, MatchingTask
  <2> HIDE DEF i
  <2>4. pausedTasks[i] \in Brief
    BY <1>2, <2>3
  <2>5. task \in Brief
    BY <2>2, <2>3, <2>4, SatisfyKeeps
  <2> HIDE DEF task, Brief
  <2>6. RemoveAt(pausedTasks, i) \in Seq(Brief) /\ [pausedTasks EXCEPT ![i] = task] \in Seq(Brief)
    BY <1>2, <2>3, <2>5, ListKept
  <2> QED BY <1>3, <2>1, <2>6
<1>6. CASE pausedTasks' = pausedTasks
  BY <1>6 DEF WaitsOnce
<1>7. ASSUME NEW t \in Threads, Call(t) PROVE pausedTasks' = pausedTasks
  BY <1>7 DEF Call, RegisterTask, PauseTask, Gather, RetrieveAny, RemoveTask, RegisterEvent, RegisterEvents
<1>8. ASSUME NEW t \in Threads, Step(t), ~FinishPauseTask(t), ~MatchPaused(t)
      PROVE  pausedTasks' = pausedTasks
  BY <1>8 DEF Step, GatherStored, GatherMissing, FinishRegisterTask, MatchRegistered, StoreEvent,
              GreedyTake, GreedyNext, FinishBatch, ReadyToRunTask, ConsumeBegin, ConsumeStored,
              ConsumeNext, ConsumeEnd, MarkThreadResume, Resumed, RetrieveNext
<1>9. CASE RunTask \/ UNCHANGED vars
  BY <1>6, <1>9 DEF RunTask, vars
<1> QED BY <1>4, <1>5, <1>6, <1>7, <1>8, <1>9 DEF Next, Stopped

\* The mutex stays with a thread that is about to match an event.
LEMMA MutexHeld ==
  ASSUME NEW u \in Threads, Holds(u), In(u, "event"), [Next]_vars,
         ~(MatchRegistered(u) \/ MatchPaused(u) \/ StoreEvent(u))
  PROVE  Holds(u)'
<1>1. ~Free /\ \A t \in Threads : Holds(t) => t = u
  BY ThreadsAssumption DEF Free, Holds
<1>2. \A op : In(u, op) => op = "event"
  BY DEF In
<1>3. CASE taskAndEvent_mutex' = taskAndEvent_mutex
  BY <1>3 DEF Holds
<1>4. ASSUME NEW t \in Threads, Call(t) PROVE taskAndEvent_mutex' = taskAndEvent_mutex
  BY <1>1, <1>4 DEF Call, RegisterTask, PauseTask, Gather, RetrieveAny, RemoveTask, RegisterEvent,
                    RegisterEvents, Lock
<1>5. ASSUME NEW t \in Threads, MatchRegistered(t) \/ MatchPaused(t) \/ StoreEvent(t) PROVE FALSE
  BY <1>1, <1>5 DEF MatchRegistered, MatchPaused, StoreEvent, Registering
<1>6. ASSUME NEW t \in Threads,
             FinishRegisterTask(t) \/ FinishPauseTask(t) \/ FinishBatch(t) \/ ConsumeEnd(t) \/ RetrieveNext(t)
      PROVE  FALSE
  BY <1>1, <1>2, <1>6 DEF FinishRegisterTask, FinishPauseTask, Gathered, FinishBatch, ConsumeEnd,
                          RetrieveNext, At
<1>7. ASSUME NEW t \in Threads,
             \/ GatherStored(t) \/ GatherMissing(t) \/ GreedyTake(t) \/ GreedyNext(t) \/ ReadyToRunTask(t)
             \/ ConsumeBegin(t) \/ ConsumeStored(t) \/ ConsumeNext(t) \/ MarkThreadResume(t) \/ Resumed(t)
      PROVE  taskAndEvent_mutex' = taskAndEvent_mutex
  BY <1>1, <1>7 DEF GatherStored, GatherMissing, GreedyTake, GreedyNext, ReadyToRunTask, ConsumeBegin,
                    ConsumeStored, ConsumeNext, MarkThreadResume, Resumed, Lock
<1>8. CASE RunTask \/ UNCHANGED vars
  BY <1>3, <1>8 DEF RunTask, vars
<1> QED BY <1>3, <1>4, <1>5, <1>6, <1>7, <1>8 DEF Next, Step, Stopped

\* A transient event is stored, or still to be registered, or consumed.
LEMMA Apart ==
  ASSUME Sound, Conserved, ~aborted, NEW e \in Transient(Event)
  PROVE  /\ e \in StoredEvents => e \in fired /\ e \notin Coming /\ e \notin Consumed
         /\ e \in Coming => e \in fired /\ e \notin Consumed
         /\ e \in Consumed => e \in fired
<1> DEFINE a == InQueue(e)  b == InRegistered(e)  c == InPaused(e)
           d == InReady(e)  f == InCalls(e)  g == InHistory(e)
<1>1. e \in Event /\ IsFiniteSet(CallsIn(todo, e)) /\ Total(e) = Bit(e \in fired)
      /\ TaskLists /\ StoreOK /\ Stacks
  BY DEF Conserved, Balanced, Transient, Sound
<1>2. a \in Nat /\ b \in Nat /\ c \in Nat /\ d \in Nat /\ f \in Nat /\ g \in Nat
  BY <1>1, Numbers
<1>3. a + b + c + d + f + g = IF e \in fired THEN 1 ELSE 0
  BY <1>1 DEF Total, Bit
<1>4. e \in StoredEvents => a # 0
  <2>1. outstandingEvents \in Queue /\ \A k \in Keys : \A x \in ToSet(outstandingEvents[k]) : x.key = k
    BY <1>1 DEF StoreOK
  <2>2. Transient(StoredEvents) = InStore(outstandingEvents)
    BY <2>1, StoreMembers DEF StoredEvents
  <2> QED BY <2>2 DEF InStore, InQueue, Transient
<1>5. e \in Coming => f # 0
  <2> SUFFICES ASSUME e \in Coming PROVE f # 0
    OBVIOUS
  <2>1. PICK t \in Threads : EventFrame(e) \in ToSet(Agenda(t))
    BY DEF Coming, ComingIn
  <2>2. PICK i \in DOMAIN Agenda(t) : Agenda(t)[i] = EventFrame(e)
    BY <2>1 DEF ToSet
  <2>3. EventFrame(e) \in Frame /\ EventFrame(e).op = "event" /\ EventFrame(e).event = e
    BY <1>1 DEF EventFrame, Frame
  <2>4. EventFrame(e) \in Keepers(e)
    BY <2>3, KeeperFrames
  <2>5. i \in Held(todo[t], e)
    BY <2>2, <2>4 DEF Held, Hits, Agenda
  <2>6. <<t, i>> \in CallsIn(todo, e)
    BY <2>5 DEF CallsIn
  <2> QED BY <1>1, <2>6, FS_EmptySet DEF InCalls
<1>6. e \in Consumed => b + c + d + g # 0
  <2>1. registeredTasks \in Seq(Task) /\ pausedTasks \in Seq(Task) /\ ready \in Seq(Task)
    BY <1>1, TaskListTypes DEF TaskLists
  <2>2. ASSUME NEW tasks \in Seq(Task), NEW task \in ToSet(tasks), e \in ArrivedEvents(task)
        PROVE  Num(tasks, Holders(e)) # 0
    <3>1. PICK i \in 1 .. Len(tasks) : tasks[i] = task
      BY <2>2 DEF ToSet
    <3>2. task \in Holders(e)
      BY <2>2, <3>1, HolderTask
    <3> QED BY <3>1, <3>2, NumNumber
  <2>3. CASE e \in delivered \union removed
    <3>1. g # 0
      BY <2>3 DEF InHistory, Bit
    <3> QED BY <1>2, <3>1
  <2>4. ASSUME NEW task \in ToSet(registeredTasks), e \in ArrivedEvents(task) PROVE b # 0
    BY <2>1, <2>2, <2>4 DEF InRegistered
  <2>5. ASSUME NEW task \in ToSet(pausedTasks), e \in ArrivedEvents(task) PROVE c # 0
    BY <2>1, <2>2, <2>5 DEF InPaused
  <2>6. ASSUME NEW task \in ToSet(ready), e \in ArrivedEvents(task) PROVE d # 0
    BY <2>1, <2>2, <2>6 DEF InReady
  <2>7. e \in Consumed =>
          \/ e \in delivered \union removed
          \/ \E task \in ToSet(registeredTasks) \union ToSet(pausedTasks) \union ToSet(ready) :
               e \in ArrivedEvents(task)
    BY DEF Consumed, WaitingTasks
  <2> HIDE DEF b, c, d, g
  <2> QED BY <1>2, <2>3, <2>4, <2>5, <2>6, <2>7
<1> HIDE DEF a, b, c, d, f, g
<1> QED BY <1>2, <1>3, <1>4, <1>5, <1>6

\* The transient events that a thread has to register.
Approaching(t) == Transient(ComingIn(Agenda(t)))

\* Local events are registered by threads that have had the mutex since they
\* were fired, one each; remote events by the poller.
Placed(t) ==
  \/ Approaching(t) = {}
  \/ t = Poller /\ \A e \in Approaching(t) : e.key.src # MyRank
  \/ /\ t # Poller /\ \A e \in Approaching(t) : e.key.src = MyRank
     /\ In(t, "event") /\ Holds(t) /\ Transient(ComingIn(Tail(todo[t]))) = {}

\* The transient events of a queue are in the order of their numbers.
Rising(q) == \A i, j \in DOMAIN q : i < j /\ ~q[i].persistent /\ ~q[j].persistent => q[i].id < q[j].id

\* What is younger than a stored event has not been consumed, and what is
\* younger than an event to come is still to come.
Younger ==
  \A e, f \in Transient(fired) : e.key = f.key /\ f.id < e.id =>
    /\ f \in StoredEvents => e \in StoredEvents \union Coming
    /\ f \in Coming => e \in Coming

InLine == \A t \in Threads : Lined(Agenda(t)) /\ Placed(t)
AllRising == \A k \in Keys : Rising(outstandingEvents[k])
InTurn == InLine /\ AllRising /\ Younger

\* The events of a thread that registers one.
LEMMA EventAgenda ==
  ASSUME Stacks, NEW t \in Threads, In(t, "event")
  PROVE  ComingIn(Agenda(t)) = {Top(t).event} \union ComingIn(Tail(todo[t]))
<1>1. todo[t] # <<>> /\ Top(t).op = "event" /\ todo[t] \in Seq(Frame)
  BY DEF In, Stacks
<1>2. Agenda(t) = todo[t]
  BY <1>1 DEF Agenda, Unfolded, Top
<1>3. ComingIn(todo[t]) = ComingIn(<<Top(t)>>) \union ComingIn(Tail(todo[t]))
  BY <1>1, ComingJoined DEF Top
<1>4. Top(t).event \in Event /\ Top(t) = EventFrame(Top(t).event)
  BY <1>1, TopTypes, EventFrames
<1>5. ComingIn(<<Top(t)>>) = {Top(t).event}
  BY <1>4, EventFrames
<1> QED BY <1>2, <1>3, <1>5

\* The threads keep to their kinds of events.
LEMMA StepInLine ==
  ASSUME NoGreedyBatches, Sound, Numbered, Modest, InLine, [Next]_vars
  PROVE  InLine'
<1> DEFINE Matches(t) == MatchRegistered(t) \/ MatchPaused(t) \/ StoreEvent(t)
<1>1. \A u \in Threads : SameEvents(u) => /\ Approaching(u)' = Approaching(u)
                                          /\ Lined(Agenda(u))'
  BY DEF SameEvents, Approaching, Transient, InLine
<1>2. ASSUME NEW t \in Threads, Matches(t) PROVE InLine'
  <2> DEFINE e == Top(t).event
  <2>1. Taken(t, e) /\ In(t, "event") /\ Registering(t) /\ Stacks
    BY <1>2, MatchSteps, StoreSteps DEF Sound
  <2>2. ComingIn(Agenda(t)) = {e} \union ComingIn(Tail(todo[t]))
    BY <2>1, EventAgenda
  <2> HIDE DEF e, Matches
  <2>3. ASSUME NEW u \in Threads \ {t} PROVE Lined(Agenda(u))' /\ Placed(u)'
    <3>1. SameEvents(u)
      BY <2>1 DEF Taken
    <3>2. ~Holds(u)
      BY <2>1, ThreadsAssumption DEF Registering, Free, Holds
    <3>3. Approaching(u) = {} \/ (u = Poller /\ \A x \in Approaching(u) : x.key.src # MyRank)
      BY <3>2 DEF InLine, Placed
    <3> QED BY <1>1, <3>1, <3>3 DEF Placed
  <2>4. Lined(Agenda(t))'
    BY <2>1 DEF Taken, InLine
  <2>5. Approaching(t)' \subseteq Approaching(t)
    BY <2>1 DEF Taken, Approaching, Transient
  <2>6. ASSUME t # Poller PROVE Approaching(t)' = {}
    <3>1. CASE Approaching(t) = {}
      BY <2>5, <3>1
    <3>2. CASE Transient(ComingIn(Tail(todo[t]))) = {} /\ e.persistent
      BY <2>2, <2>5, <3>2 DEF Approaching, Transient
    <3>3. CASE Transient(ComingIn(Tail(todo[t]))) = {} /\ ~e.persistent
      <4>1. ComingIn(Agenda(t))' = ComingIn(Tail(todo[t]))
        BY <2>1, <3>3 DEF Taken
      <4> QED BY <3>3, <4>1 DEF Approaching, Transient
    <3> QED BY <2>6, <3>1, <3>2, <3>3 DEF InLine, Placed
  <2>7. Placed(t)'
    <3>1. CASE t = Poller
      BY <2>5, <3>1 DEF InLine, Placed
    <3>2. CASE t # Poller
      BY <2>6, <3>2 DEF Placed
    <3> QED BY <3>1, <3>2
  <2> QED BY <2>3, <2>4, <2>7 DEF InLine
<1>3. ASSUME NEW u \in Threads, SameEvents(u), ~Matches(u) PROVE Lined(Agenda(u))' /\ Placed(u)'
  <2>1. CASE ~(In(u, "event") /\ Holds(u))
    BY <1>1, <1>3, <2>1 DEF InLine, Placed
  <2>2. CASE In(u, "event") /\ Holds(u)
    <3>1. todo'[u] = todo[u] /\ Holds(u)'
      BY <1>3, <2>2, MutexHeld DEF SameEvents
    <3>2. In(u, "event")' /\ Transient(ComingIn(Tail(todo[u])))' = Transient(ComingIn(Tail(todo[u])))
      BY <2>2, <3>1 DEF In, Top, ComingIn, Transient
    <3> QED BY <1>1, <1>3, <3>1, <3>2 DEF InLine, Placed
  <2> QED BY <2>1, <2>2
<1>4. ASSUME \A t \in Threads : ~Matches(t), NEW t \in Threads, NEW new, Arrival(t, new)
      PROVE  InLine'
  <2>1. ASSUME NEW u \in Threads \ {t} PROVE SameEvents(u)
    BY <1>4, SameElsewhere DEF Arrival
  <2>2. Lined(Agenda(t))' /\ ComingIn(Agenda(t))' = new
    BY <1>4 DEF Arrival
  <2>3. Placed(t)'
    <3>1. CASE t = Poller
      <4>1. \A e \in Approaching(t)' : e.key.src # MyRank
        BY <1>4, <2>2, <3>1 DEF Approaching, Transient, Arrival
      <4> QED BY <3>1, <4>1 DEF Placed
    <3>2. CASE t # Poller
      <4>1. \A e \in Approaching(t)' : e.key.src = MyRank
        BY <1>4, <2>2, <3>2 DEF Approaching, Transient, Arrival
      <4>2. In(t, "event")' /\ Tail(todo'[t]) = <<>> /\ Holds(t)'
        BY <1>4, <3>2 DEF Arrival
      <4>3. Transient(ComingIn(Tail(todo[t])))' = {}
        BY <4>2, EventFrames DEF ComingIn, Transient
      <4> QED BY <3>2, <4>1, <4>2, <4>3 DEF Placed
    <3> QED BY <3>1, <3>2
  <2> QED BY <1>3, <1>4, <2>1, <2>2, <2>3 DEF InLine
<1>5. ASSUME \A t \in Threads : ~Matches(t), Quiet PROVE InLine'
  BY <1>3, <1>5 DEF Quiet, InLine
<1> QED BY <1>2, <1>4, <1>5, OrderSteps

\* The event that is registered is older than those of its key that are still
\* to be registered.
LEMMA Oldest ==
  ASSUME InLine, NEW t \in Threads, Registering(t), NEW e \in Transient(Event), Taken(t, e),
         NEW f \in Transient(Coming'), e.key = f.key, f \in Event
  PROVE  e.id < f.id
<1>1. PICK u \in Threads : f \in ComingIn(Agenda(u))'
  BY DEF Coming, Transient
<1>2. CASE u = t
  BY <1>1, <1>2 DEF Taken, InLine, Transient
<1>3. CASE u # t
  <2>1. f \in Approaching(u) /\ e \in Approaching(t)
    BY <1>1, <1>3 DEF Taken, SameEvents, Approaching, Transient
  <2>2. ~Holds(u)
    BY <1>3, ThreadsAssumption DEF Registering, Free, Holds
  <2>3. u = Poller /\ f.key.src # MyRank
    BY <2>1, <2>2 DEF InLine, Placed
  <2>4. e.key.src = MyRank
    BY <1>3, <2>1, <2>3 DEF InLine, Placed
  <2> QED BY <2>3, <2>4
<1> QED BY <1>2, <1>3

\* The first event of a queue is the oldest.
LEMMA RisingTail ==
  ASSUME NEW q \in Seq(Event), q # <<>>, Rising(q)
  PROVE  /\ Rising(Tail(q))
         /\ \A f \in ToSet(Tail(q)) : ~Head(q).persistent /\ ~f.persistent => Head(q).id < f.id
<1> DEFINE r == Tail(q)
<1>1. /\ Len(q) \in Nat /\ Len(q) > 0 /\ DOMAIN q = 1 .. Len(q)
      /\ r \in Seq(Event) /\ DOMAIN r = 1 .. Len(q) - 1 /\ Head(q) = q[1]
      /\ \A i \in 1 .. Len(q) - 1 : r[i] = q[i + 1]
  OBVIOUS
<1> HIDE DEF r
<1>2. \A i \in DOMAIN r : r[i] = q[i + 1] /\ i + 1 \in DOMAIN q /\ 1 < i + 1 /\ 1 \in DOMAIN q
  BY <1>1
<1>3. Rising(r)
  <2> SUFFICES ASSUME NEW i \in DOMAIN r, NEW j \in DOMAIN r, i < j, ~r[i].persistent, ~r[j].persistent
               PROVE  r[i].id < r[j].id
    BY DEF Rising
  <2>1. i + 1 < j + 1
    BY <1>1
  <2> QED BY <1>2, <2>1 DEF Rising
<1>4. ASSUME NEW f \in ToSet(r), ~Head(q).persistent, ~f.persistent PROVE Head(q).id < f.id
  <2>1. PICK i \in DOMAIN r : r[i] = f
    BY <1>4 DEF ToSet
  <2> QED BY <1>1, <1>2, <1>4, <2>1 DEF Rising
<1> QED BY <1>3, <1>4 DEF r

\* An event that is younger than those of a queue goes to its end.
LEMMA RisingAppend ==
  ASSUME NEW q \in Seq(Event), Rising(q), NEW e \in Event,
         ~e.persistent => \A f \in Transient(ToSet(q)) : f.id < e.id
  PROVE  Rising(Append(q, e))
<1> DEFINE r == Append(q, e)
<1>1. /\ Len(q) \in Nat /\ DOMAIN q = 1 .. Len(q) /\ DOMAIN r = 1 .. Len(q) + 1
      /\ r[Len(q) + 1] = e /\ \A i \in 1 .. Len(q) : r[i] = q[i]
  OBVIOUS
<1> HIDE DEF r
<1>2. ASSUME NEW i \in DOMAIN r, NEW j \in DOMAIN r, i < j, ~r[i].persistent, ~r[j].persistent
      PROVE  r[i].id < r[j].id
  <2>1. i \in DOMAIN q /\ r[i] = q[i]
    BY <1>1, <1>2
  <2>2. CASE j \in DOMAIN q
    BY <1>1, <1>2, <2>1, <2>2 DEF Rising
  <2>3. CASE j \notin DOMAIN q
    <3>1. r[j] = e
      BY <1>1, <2>3
    <3>2. q[i] \in Transient(ToSet(q))
      BY <1>2, <2>1 DEF Transient, ToSet
    <3> QED BY <1>2, <2>1, <3>1, <3>2
  <2> QED BY <2>2, <2>3
<1> QED BY <1>2 DEF Rising, r

\* What is taken is older than what stays, and the queues stay in order.
LEMMA TakenFirst ==
  ASSUME Sound, AllRising, NEW k \in Keys, IsStored(k), TakeFirst(k)
  PROVE  /\ AllRising'
         /\ ~First(k).persistent =>
              \A f \in Transient(StoredEvents') : f.key = First(k).key => First(k).id < f.id
<1> DEFINE m == outstandingEvents  n == outstandingEvents'  s == Store(k)  x == First(k)
<1>1. m \in Queue /\ s \in Keys /\ m[s] # <<>> /\ x = Head(m[s]) /\ StoreOK
      /\ outstandingEventsToHandle \in Int
  <2>1. s \in Keys
    BY SlotFound DEF Queued, Store
  <2> QED BY <2>1 DEF Sound, Plain, StoreOK, IsStored, First
<1>2. StoreOK' /\ x.key = s
  BY <1>1, StoreTake
<1>3. x.persistent => n = m
  BY DEF TakeFirst
<1>4. ~x.persistent => n = [m EXCEPT ![s] = Tail(m[s])]
  BY DEF TakeFirst
<1>5. StoredEvents' = UNION {ToSet(n[l]) : l \in Keys} /\ \A l \in Keys : \A f \in ToSet(n[l]) : f.key = l
  BY <1>2 DEF StoredEvents, StoreOK
<1>6. AllRising <=> \A l \in Keys : Rising(m[l])
  BY DEF AllRising
<1>7. AllRising' <=> \A l \in Keys : Rising(n[l])
  BY DEF AllRising, Rising
<1> HIDE DEF m, n, s, x
<1>8. CASE x.persistent
  BY <1>3, <1>6, <1>7, <1>8 DEF x
<1>9. CASE ~x.persistent
  <2>1. \A l \in Keys : l # s => n[l] = m[l]
    BY <1>1, <1>4, <1>9 DEF Queue
  <2>2. m[s] \in Seq(Event) /\ n[s] = Tail(m[s])
    BY <1>1, <1>4, <1>9 DEF Queue
  <2>3. Rising(m[s])
    BY <1>1, <1>6
  <2>4. /\ Rising(Tail(m[s]))
        /\ \A f \in ToSet(Tail(m[s])) : ~Head(m[s]).persistent /\ ~f.persistent => Head(m[s]).id < f.id
    BY <1>1, <2>2, <2>3, RisingTail
  <2>5. AllRising'
    BY <1>6, <1>7, <2>1, <2>2, <2>4
  <2>6. ASSUME NEW f \in Transient(StoredEvents'), f.key = x.key PROVE x.id < f.id
    <3>1. f \in ToSet(n[s]) /\ ~f.persistent
      BY <1>2, <1>5, <2>6 DEF Transient
    <3> QED BY <1>1, <1>9, <2>2, <2>4, <3>1
  <2> QED BY <2>5, <2>6 DEF x
<1> QED BY <1>8, <1>9

\* The queues of the store stay in order.
LEMMA StepRising ==
  ASSUME NoGreedyBatches, Sound, Conserved, Numbered, Modest, AllRising, Younger, [Next]_vars
  PROVE  AllRising'
<1>1. CASE outstandingEvents' = outstandingEvents
  BY <1>1 DEF AllRising, Rising
<1>2. ASSUME NEW k \in Keys, IsStored(k), TakeFirst(k) PROVE AllRising'
  BY <1>2, TakenFirst
<1>3. ASSUME NEW t \in Threads, StoreEvent(t) PROVE AllRising'
  <2> DEFINE e == Top(t).event
  <2>1. /\ In(t, "event") /\ e \in Event /\ Taken(t, e)
        /\ outstandingEvents' = Push(outstandingEvents, e.key, e)
    BY <1>3, StoreSteps
  <2>2. ~aborted
    BY <1>3 DEF StoreEvent, Registering, At
  <2>3. e \in Coming
    BY <2>1 DEF Taken, Coming
  <2> HIDE DEF e
  <2>4. StoreOK /\ e.key \in Keys /\ outstandingEvents[e.key] \in Seq(Event)
    BY <2>1, KeysInt DEF Sound, StoreOK, Event, Queue
  <2>5. outstandingEvents' = [outstandingEvents EXCEPT ![e.key] = Append(outstandingEvents[e.key], e)]
    BY <2>1, <2>4, StorePush
  <2>6. ASSUME ~e.persistent, NEW f \in Transient(ToSet(outstandingEvents[e.key])) PROVE f.id < e.id
    <3>1. f \in Event /\ ~f.persistent /\ f.key = e.key /\ f \in StoredEvents
      BY <2>4, <2>6 DEF Transient, StoreOK, ToSet, StoredEvents
    <3>2. e \in Transient(Event) /\ f \in Transient(Event)
      BY <2>1, <2>6, <3>1 DEF Transient
    <3>3. e \in Transient(fired) /\ f \in Transient(fired) /\ f \notin Coming
      BY <2>2, <2>3, <2>6, <3>1, <3>2, Apart DEF Transient
    <3>4. ~(e.id < f.id)
      BY <2>3, <3>1, <3>3 DEF Younger
    <3>5. e.id # f.id
      <4>1. e # f
        BY <2>3, <3>3
      <4> QED BY <2>1, <2>6, <3>1, <4>1 DEF Event
    <3> QED BY <2>1, <3>1, <3>4, <3>5 DEF Event
  <2>7. Rising(Append(outstandingEvents[e.key], e))
    BY <2>1, <2>4, <2>6, RisingAppend DEF AllRising
  <2>8. outstandingEvents'[e.key] = Append(outstandingEvents[e.key], e)
        /\ \A l \in Keys : l # e.key => outstandingEvents'[l] = outstandingEvents[l]
    BY <2>4, <2>5 DEF StoreOK, Queue
  <2>9. \A l \in Keys : Rising(outstandingEvents'[l])
    BY <2>7, <2>8 DEF AllRising
  <2> QED BY <2>9 DEF AllRising, Rising
<1>4. ASSUME NEW t \in Threads, MatchRegistered(t) \/ MatchPaused(t)
      PROVE  outstandingEvents' = outstandingEvents
  BY <1>4, MatchSteps
<1> QED BY <1>1, <1>2, <1>3, <1>4, OrderSteps DEF Quiet, Arrival

\* An event that a task waits for finds none of its key in the store, when all
\* tasks run once.
LEMMA NoneStored ==
  ASSUME NoPersistentTasks, Sound, Matched, Modest, WaitsOnce,
         NEW t \in Threads, MatchRegistered(t) \/ MatchPaused(t), NEW f \in StoredEvents
  PROVE  f.key # Top(t).event.key
<1> DEFINE e == Top(t).event
<1> SUFFICES ASSUME f.key = e.key PROVE FALSE
  OBVIOUS
<1>1. e \in Event
  BY RegisteringTypes DEF MatchRegistered, MatchPaused
<1>2. e.key \in Queued(outstandingEvents)
  <2>1. StoreOK
    BY DEF Sound
  <2>2. PICK k \in Keys : f \in ToSet(outstandingEvents[k])
    BY DEF StoredEvents
  <2>3. k = e.key
    BY <2>1, <2>2 DEF StoreOK
  <2>4. outstandingEvents[k] # <<>>
    BY <2>2, Parts
  <2> QED BY <2>3, <2>4 DEF Queued
<1>3. registeredTasks \in Seq(CleanTask) /\ pausedTasks \in Seq(CleanTask)
  BY DEF Sound, TaskLists
<1>4. ASSUME NEW tasks \in Seq(CleanTask), Matching(tasks, e.key) # {}, AllPatient(tasks, outstandingEvents),
             \A i \in DOMAIN tasks : ~tasks[i].persistent
      PROVE  FALSE
  <2>1. PICK i \in DOMAIN tasks : Depends(tasks[i].outstanding, e.key)
    BY <1>4 DEF Matching
  <2> QED BY <1>2, <1>4, <2>1 DEF AllPatient, Patient
<1>5. CASE MatchRegistered(t)
  <2>1. \A i \in DOMAIN registeredTasks : ~registeredTasks[i].persistent
    BY DEF Modest, Limited, Modesty, Mild
  <2> QED BY <1>3, <1>4, <1>5, <2>1 DEF MatchRegistered, Matched
<1>6. CASE MatchPaused(t)
  BY <1>3, <1>4, <1>6 DEF MatchPaused, Matched, WaitsOnce
<1> QED BY <1>5, <1>6

\* Events of one key leave the store, and are matched, in the order of their
\* numbers.
LEMMA StepYounger ==
  ASSUME NoPersistentTasks, NoGreedyBatches, Sound, Numbered, Matched, Modest, WaitsOnce,
         InTurn, [Next]_vars
  PROVE  Younger'
<1> DEFINE Late(e, f) == e.key = f.key /\ f.id < e.id
<1>1. fired \subseteq Event /\ StoreOK
  BY DEF Sound, Plain
<1>2. CASE Quiet
  <2>1. Coming' = Coming /\ fired' = fired
    BY <1>2, ComingSteps DEF Quiet
  <2>2. CASE outstandingEvents' = outstandingEvents
    BY <2>1, <2>2 DEF Younger, InTurn, StoredEvents
  <2>3. ASSUME NEW k \in Keys, IsStored(k), TakeFirst(k) PROVE Younger'
    <3> DEFINE x == First(k)
    <3>1. /\ StoredEvents' \subseteq StoredEvents
          /\ \A e \in StoredEvents : e \in StoredEvents' \/ (e = x /\ ~e.persistent)
      BY <2>3, StoreTaken
    <3>2. ~x.persistent => \A f \in Transient(StoredEvents') : f.key = x.key => x.id < f.id
      BY <2>3, TakenFirst DEF InTurn
    <3> HIDE DEF x
    <3>3. ASSUME NEW e \in Transient(fired), NEW f \in Transient(fired), Late(e, f), f \in StoredEvents'
          PROVE  e \in StoredEvents' \union Coming'
      <4>1. e \in StoredEvents \union Coming
        BY <3>1, <3>3 DEF InTurn, Younger
      <4>2. CASE e = x /\ ~e.persistent
        <5>1. x.id < f.id
          BY <3>2, <3>3, <4>2 DEF Transient
        <5> QED BY <1>1, <3>3, <4>2, <5>1 DEF Transient, Event
      <4> QED BY <2>1, <3>1, <4>1, <4>2
    <3> QED BY <2>1, <3>3 DEF InTurn, Younger
  <2> QED BY <1>2, <2>2, <2>3 DEF Quiet
<1>3. ASSUME NEW t \in Threads, MatchRegistered(t) \/ MatchPaused(t) PROVE Younger'
  <2> DEFINE x == Top(t).event
  <2>1. x \in Event /\ Taken(t, x) /\ Registering(t) /\ UNCHANGED <<outstandingEvents, fired>>
    BY <1>3, MatchSteps
  <2>2. Coming = Coming' \union {x} /\ StoredEvents' = StoredEvents
    BY <2>1, ComingSteps DEF StoredEvents
  <2>3. \A f \in StoredEvents : f.key # x.key
    BY <1>3, NoneStored
  <2> HIDE DEF x
  <2>4. ASSUME NEW e \in Transient(fired), NEW f \in Transient(fired), Late(e, f), f \in StoredEvents'
        PROVE  e \in StoredEvents' \union Coming'
    BY <2>1, <2>2, <2>3, <2>4 DEF InTurn, Younger
  <2>5. ASSUME NEW e \in Transient(fired), NEW f \in Transient(fired), Late(e, f), f \in Coming'
        PROVE  e \in Coming'
    <3>1. e \in Coming
      BY <2>2, <2>5 DEF InTurn, Younger
    <3>2. CASE e = x
      <4>1. x.id < f.id
        BY <1>1, <2>1, <2>5, <3>2, Oldest DEF InTurn, Transient
      <4> QED BY <1>1, <2>5, <3>2, <4>1 DEF Transient, Event
    <3> QED BY <2>2, <3>1, <3>2
  <2> QED BY <2>1, <2>4, <2>5 DEF Younger
<1>4. ASSUME NEW t \in Threads, StoreEvent(t) PROVE Younger'
  <2> DEFINE x == Top(t).event
  <2>1. /\ x \in Event /\ Taken(t, x) /\ Registering(t) /\ fired' = fired
        /\ outstandingEvents' = Push(outstandingEvents, x.key, x)
    BY <1>4, StoreSteps
  <2>2. Coming = Coming' \union {x} /\ StoredEvents' = StoredEvents \union {x}
    BY <2>1, ComingSteps, StorePushed
  <2> HIDE DEF x
  <2>3. ASSUME NEW e \in Transient(fired), NEW f \in Transient(fired), Late(e, f), f \in StoredEvents'
        PROVE  e \in StoredEvents' \union Coming'
    BY <2>2, <2>3 DEF InTurn, Younger
  <2>4. ASSUME NEW e \in Transient(fired), NEW f \in Transient(fired), Late(e, f), f \in Coming'
        PROVE  e \in Coming'
    <3>1. e \in Coming
      BY <2>2, <2>4 DEF InTurn, Younger
    <3>2. CASE e = x
      <4>1. x.id < f.id
        BY <1>1, <2>1, <2>4, <3>2, Oldest DEF InTurn, Transient
      <4> QED BY <1>1, <2>4, <3>2, <4>1 DEF Transient, Event
    <3> QED BY <2>2, <3>1, <3>2
  <2> QED BY <2>1, <2>3, <2>4 DEF Younger
<1>5. ASSUME NEW t \in Threads, NEW new, Arrival(t, new) PROVE Younger'
  <2>1. Coming' = Coming \union new /\ fired' = fired \union new /\ StoredEvents' = StoredEvents
        /\ new \subseteq Event /\ \A e \in new : e \notin fired /\ \A f \in fired : f.id < e.id
    BY <1>5, ComingSteps DEF Arrival, StoredEvents
  <2>2. ASSUME NEW e \in Transient(fired'), NEW f \in Transient(fired'), Late(e, f)
        PROVE  /\ f \in StoredEvents' => e \in StoredEvents' \union Coming'
               /\ f \in Coming' => e \in Coming'
    <3>1. CASE e \in new
      BY <2>1, <3>1
    <3>2. CASE e \notin new
      <4>1. e \in fired /\ f \in fired \union new
        BY <2>1, <2>2, <3>2 DEF Transient
      <4>2. f \notin new
        BY <1>1, <2>1, <2>2, <4>1 DEF Event
      <4>3. e \in Transient(fired) /\ f \in Transient(fired)
        BY <2>2, <4>1, <4>2 DEF Transient
      <4> QED BY <2>1, <2>2, <4>2, <4>3 DEF InTurn, Younger
    <3> QED BY <3>1, <3>2
  <2> QED BY <2>2 DEF Younger
<1> QED BY <1>2, <1>3, <1>4, <1>5, OrderSteps

\* There is nothing to order at the start.
LEMMA InitInTurn == Init => InTurn /\ WaitsOnce
<1> SUFFICES ASSUME Init PROVE InTurn /\ WaitsOnce
  OBVIOUS
<1>1. \A t \in Threads : Agenda(t) = <<>>
  BY DEF Init, Agenda, Unfolded
<1>2. InLine
  <2>1. Lined(<<>>)
    BY DEF Lined
  <2>2. \A t \in Threads : Approaching(t) = {}
    BY <1>1, EventFrames DEF Approaching, Transient
  <2> QED BY <1>1, <2>1, <2>2 DEF InLine, Placed
<1>3. AllRising
  BY DEF Init, NoQueue, AllRising, Rising
<1> QED BY <1>2, <1>3 DEF Init, InTurn, Younger, WaitsOnce, Transient

\* When it is the turn of every event, none is consumed before an older one.
LEMMA TurnsKept ==
  ASSUME Sound, Conserved, InTurn, ~aborted
  PROVE  NoOvertaking
<1> SUFFICES ASSUME NEW e \in Transient(Consumed), NEW f \in Transient(StoredEvents), e.key = f.key
             PROVE  e.id < f.id
  BY DEF NoOvertaking
<1>1. e \in Event /\ f \in Event
  <2>1. \A k \in Keys : outstandingEvents[k] \in Seq(Event)
    BY DEF Sound, StoreOK, Queue
  <2>2. f \in Event
    BY <2>1 DEF StoredEvents, Transient, ToSet
  <2>3. \A task \in Task : ArrivedEvents(task) \subseteq Event
    BY DEF ArrivedEvents, Task, Queue, ToSet
  <2>4. registeredTasks \in Seq(Task) /\ pausedTasks \in Seq(Task) /\ ready \in Seq(Task)
    BY TaskListTypes DEF Sound, TaskLists
  <2>5. \A task \in WaitingTasks \union ToSet(ready) : task \in Task
    BY <2>4 DEF WaitingTasks, ToSet
  <2>6. delivered \subseteq Event /\ removed \subseteq Event
    BY DEF Sound, Plain
  <2>7. e \in Event
    BY <2>3, <2>5, <2>6 DEF Consumed, Transient
  <2> QED BY <2>2, <2>7
<1>2. e \in Transient(Event) /\ f \in Transient(Event) /\ e \in Consumed /\ f \in StoredEvents
  BY <1>1 DEF Transient
<1>3. /\ e \in fired /\ e \notin StoredEvents /\ e \notin Coming
      /\ f \in fired /\ f \notin Consumed
  BY <1>2, Apart
<1>4. ~(f.id < e.id)
  BY <1>2, <1>3 DEF InTurn, Younger, Transient
<1>5. e.id # f.id
  <2>1. e # f
    BY <1>2, <1>3
  <2> QED BY <1>1, <1>2, <2>1 DEF Transient, Event
<1> QED BY <1>1, <1>4, <1>5 DEF Event

\* The end in raiseError leaves the order alone, and nothing comes after it.
LEMMA AbortKeepsOrder ==
  ASSUME Sound, NoOvertaking, [Next]_vars, aborted'
  PROVE  NoOvertaking'
<1>1. ASSUME NEW task, Deliver(task) PROVE delivered' = delivered
  BY <1>1 DEF Deliver
<1>2. ASSUME UNCHANGED <<registeredTasks, pausedTasks, outstandingEvents, delivered, removed>>,
             ToSet(ready') \subseteq ToSet(ready)
      PROVE  NoOvertaking'
  BY <1>2 DEF NoOvertaking, Consumed, WaitingTasks, StoredEvents, Transient
<1>3. CASE UNCHANGED vars
  BY <1>2, <1>3 DEF vars
<1>4. CASE RunTask
  <2>1. PICK i \in DOMAIN ready : Deliver(ready[i]) /\ ready' = RemoveAt(ready, i)
    BY <1>4 DEF RunTask
  <2>2. ready \in Seq(ToSet(ready)) /\ i \in 1 .. Len(ready)
    <3>1. ready \in Seq(Task)
      BY DEF Sound, TaskLists
    <3> QED BY <3>1 DEF ToSet
  <2> DEFINE S == ToSet(ready)
  <2> HIDE DEF S
  <2>3. ready' \in Seq(S)
    BY <2>1, <2>2, ListKept DEF S
  <2>4. ToSet(ready') \subseteq S
    BY <2>3 DEF ToSet
  <2> QED BY <1>1, <1>2, <1>4, <2>1, <2>4 DEF RunTask, S
<1>5. ASSUME NEW t \in Threads, Resumed(t) PROVE NoOvertaking'
  BY <1>1, <1>2, <1>5 DEF Resumed
<1>6. ASSUME NEW t \in Threads, FinishPauseTask(t) PROVE NoOvertaking'
  <2>1. Complete(Top(t).task)
    BY <1>6 DEF FinishPauseTask, Gathered, At
  <2> QED BY <1>1, <1>2, <1>6, <2>1 DEF FinishPauseTask
<1>7. ASSUME NEW t \in Threads, Call(t) PROVE FALSE
  <2>1. ~aborted /\ aborted' = aborted
    BY <1>7, Zenon DEF Call, RegisterTask, PauseTask, Gather, RetrieveAny, RemoveTask, RegisterEvent,
       RegisterEvents, MayCall, Outside
  <2> QED BY <2>1
<1>8. ASSUME NEW t \in Threads, Step(t), ~Resumed(t), ~FinishPauseTask(t) PROVE FALSE
  <2>1. \E op : At(t, op)
    BY <1>8, Zenon DEF Step, GatherStored, GatherMissing, FinishRegisterTask,
       MatchRegistered, MatchPaused, StoreEvent, GreedyTake, GreedyNext, FinishBatch, ReadyToRunTask,
       ConsumeBegin, ConsumeStored, ConsumeNext, ConsumeEnd, MarkThreadResume, RetrieveNext,
       Gathering, Gathered, Registering, Scanning, Consuming
  <2>2. aborted' = aborted
    BY <1>8 DEF Step, GatherStored, GatherMissing, FinishRegisterTask, MatchRegistered, MatchPaused,
       StoreEvent, GreedyTake, GreedyNext, FinishBatch, ReadyToRunTask, ConsumeBegin, ConsumeStored,
       ConsumeNext, ConsumeEnd, MarkThreadResume, RetrieveNext
  <2> QED BY <2>1, <2>2 DEF At
<1> QED BY <1>3, <1>4, <1>5, <1>6, <1>7, <1>8 DEF Next, Stopped

\* When every task runs once no task is greedy.
LEMMA OnceNotGreedy ==
  ASSUME NoPersistentTasks
  PROVE  NoGreedyBatches
BY GreedyAssumption DEF NoPersistentTasks, NoGreedyBatches

\* The events of one source and one identifier are consumed in the order in
\* which they arrived (an arriving event is matched or stored in one critical
\* section, tasks and waits take the oldest stored event first, and none of
\* them waits for an event that is stored), if every task runs once: a
\* persistent task that has just fired may be given an event that arrives while
\* older ones are still in the store.
THEOREM EventsInOrder ==
  ASSUME NoPersistentTasks
  PROVE  Spec => []NoOvertaking
<1> DEFINE I == Sound /\ Conserved /\ Numbered /\ Matched /\ Modest /\ WaitsOnce /\ InTurn /\ NoOvertaking
<1>1. Init => I
  <2>1. Init => Sound /\ Conserved /\ Numbered /\ Matched /\ Modest /\ WaitsOnce /\ InTurn
    BY InitSound, InitConserved, InitMatched, InitLasting, InitInTurn
  <2> QED BY <2>1, TurnsKept DEF Init
<1>2. I /\ [Next]_vars => I'
  <2> SUFFICES ASSUME I, [Next]_vars PROVE I'
    OBVIOUS
  <2>1. NoGreedyBatches
    BY OnceNotGreedy
  <2>2. Sound' /\ Conserved' /\ Numbered' /\ Matched' /\ Modest' /\ WaitsOnce'
    BY <2>1, StepSound, StepConserved, NumberedSteps, StepMatched, OrderSteps, StepWaitsOnce
  <2>3. InTurn'
    BY <2>1, StepInLine, StepRising, StepYounger DEF InTurn
  <2>4. NoOvertaking'
    <3>1. CASE aborted'
      BY <3>1, AbortKeepsOrder
    <3>2. CASE ~aborted'
      <4>1. (Sound /\ Conserved /\ InTurn /\ ~aborted)' => NoOvertaking'
        BY TurnsKept, PTL
      <4> QED BY <2>2, <2>3, <3>2, <4>1
    <3> QED BY <3>1, <3>2
  <2> QED BY <2>2, <2>3, <2>4
<1> QED BY <1>1, <1>2, PTL DEF Spec

-----------------------------------------------------------------------------
(* Passes over the persistent tasks                                        *)

\* A pass is still to begin.
PassAhead == \E t \in Threads : ConsumeFrame \in ToSet(todo[t])

\* The dependencies of the i-th task that stored events would serve.
Needs(i) == {k \in Counted(registeredTasks[i].outstanding) : IsStored(k)}

\* The pass of t will look at the i-th task again, and at all it needs.
PassReaches(t, i) ==
  /\ In(t, "consume") /\ Top(t).at # 0
  /\ \/ Top(t).progress
     \/ i > Top(t).at
     \/ i = Top(t).at /\ Needs(i) \subseteq Top(t).keys

\* What is stored for a task is not missed: a pass will take it.
Sated ==
  \A i \in DOMAIN registeredTasks :
    Needs(i) = {} \/ PassAhead \/ \E t \in Threads : PassReaches(t, i)

\* A step that leaves the passes of t alone.
PassKept(t) ==
  /\ ConsumeFrame \in ToSet(todo[t]) => ConsumeFrame \in ToSet(todo'[t])
  /\ In(t, "consume") /\ Top(t).at # 0 => todo'[t] = todo[t]

Consumes(t) == ConsumeBegin(t) \/ ConsumeStored(t) \/ ConsumeNext(t) \/ ConsumeEnd(t)

\* A step without a pass after which no task has more to take.
LEMMA SatedStep ==
  ASSUME Sated, \A t \in Threads : PassKept(t),
         \A i \in DOMAIN registeredTasks' :
            Needs(i)' = {} \/ (i \in DOMAIN registeredTasks /\ Needs(i)' \subseteq Needs(i))
  PROVE  Sated'
<1> SUFFICES ASSUME NEW i \in DOMAIN registeredTasks', Needs(i)' # {}, ~PassAhead'
             PROVE  \E t \in Threads : PassReaches(t, i)'
  BY DEF Sated
<1>1. i \in DOMAIN registeredTasks /\ Needs(i)' \subseteq Needs(i)
  OBVIOUS
<1>2. ~PassAhead
  BY DEF PassAhead, PassKept
<1>3. PICK t \in Threads : PassReaches(t, i)
  BY <1>1, <1>2 DEF Sated
<1>4. todo'[t] = todo[t]
  BY <1>3 DEF PassKept, PassReaches
<1>5. PassReaches(t, i)'
  BY <1>1, <1>3, <1>4 DEF PassReaches, In, Top
<1> QED BY <1>5

\* The frames of a thread that goes on.
LEMMA FramesLeft ==
  ASSUME Stacks, NEW t \in Threads, todo[t] # <<>>, NEW T, NEW fs \in Seq(T), Replace(t, fs)
  PROVE  /\ \A u \in Threads \ {t} : todo'[u] = todo[u]
         /\ ToSet(todo'[t]) = ToSet(fs) \union ToSet(Tail(todo[t]))
         /\ ToSet(todo[t]) = {Top(t)} \union ToSet(Tail(todo[t]))
<1>1. todo[t] \in Seq(Frame) /\ todo \in [Threads -> Seq(Frame)]
  BY DEF Stacks
<1>2. todo' = [todo EXCEPT ![t] = fs \o Tail(todo[t])]
  BY DEF Replace
<1>3. /\ todo'[t] = fs \o Tail(todo[t]) /\ \A u \in Threads \ {t} : todo'[u] = todo[u]
  BY <1>1, <1>2
<1> DEFINE U == T \union Frame
<1>4. todo[t] \in Seq(U) /\ fs \in Seq(U) /\ Tail(todo[t]) \in Seq(U)
  BY <1>1
<1> HIDE DEF U
<1>a. \A s, r \in Seq(U) : ToSet(s \o r) = ToSet(s) \union ToSet(r)
  BY Parts
<1>5. ToSet(fs \o Tail(todo[t])) = ToSet(fs) \union ToSet(Tail(todo[t]))
  BY <1>4, <1>a, Zenon
<1>6. ToSet(todo[t]) = {Top(t)} \union ToSet(Tail(todo[t]))
  BY <1>4, Parts DEF Top
<1> QED BY <1>3, <1>5, <1>6

\* The same, when it was not in a pass.
LEMMA PassesLeft ==
  ASSUME Stacks, NEW t \in Threads, todo[t] # <<>>, Top(t).op # "consume",
         NEW T, NEW fs \in Seq(T), Replace(t, fs)
  PROVE  \A u \in Threads : PassKept(u)
<1>1. /\ \A u \in Threads \ {t} : todo'[u] = todo[u]
      /\ ToSet(todo'[t]) = ToSet(fs) \union ToSet(Tail(todo[t]))
      /\ ToSet(todo[t]) = {Top(t)} \union ToSet(Tail(todo[t]))
  BY FramesLeft
<1>2. Top(t) # ConsumeFrame /\ ~In(t, "consume")
  BY DEF ConsumeFrame, In
<1> QED BY <1>1, <1>2 DEF PassKept

\* A step of a call that is not over, and does not gather, goes on with a frame
\* that does not gather.
Proceeds(t) ==
  todo[t] # <<>> /\ \E T : \E fs \in Seq(T) : Replace(t, fs) /\ (fs # <<>> => Head(fs).op # "gather")

\* A call that returns, or goes on with one frame that does not gather.
LEMMA OneFrame ==
  ASSUME NEW t \in Threads, todo[t] # <<>>,
         Return(t) \/ \E f : Replace(t, <<f>>) /\ f.op # "gather"
  PROVE  Proceeds(t)
<1>1. CASE Return(t)
  <2>1. <<>> \in Seq({})
    OBVIOUS
  <2> QED BY <1>1, <2>1 DEF Proceeds, Return
<1>2. CASE \E f : Replace(t, <<f>>) /\ f.op # "gather"
  <2>1. PICK f : Replace(t, <<f>>) /\ f.op # "gather"
    BY <1>2
  <2>2. <<f>> \in Seq({f}) /\ Head(<<f>>) = f
    OBVIOUS
  <2> QED BY <2>1, <2>2 DEF Proceeds
<1> QED BY <1>1, <1>2

\* Every call does, but those that gather, and the one that wakes a thread.
LEMMA CallProceeds ==
  ASSUME Sound, Modest, NEW t \in Threads, Step(t), ~MarkThreadResume(t),
         ~(GatherStored(t) \/ GatherMissing(t))
  PROVE  Proceeds(t)
<1>0. todo[t] # <<>>
  BY DEF Step, FinishRegisterTask, FinishPauseTask, Gathered, MatchRegistered, MatchPaused, StoreEvent,
         Registering, GreedyTake, GreedyNext, Scanning, FinishBatch, ReadyToRunTask, ConsumeBegin,
         ConsumeStored, ConsumeNext, Consuming, ConsumeEnd, Resumed, RetrieveNext, At, In
<1>1. CASE FinishRegisterTask(t)
  <2> DEFINE task == Top(t).task
  <2>1. Return(t) \/ Replace(t, <<StartFrame(task), ConsumeFrame>>)
    BY <1>1 DEF FinishRegisterTask
  <2> DEFINE b == StartFrame(task)  c == ConsumeFrame  fs == <<b, c>>
  <2>2. b.op # "gather"
    BY DEF StartFrame
  <2> HIDE DEF b, c
  <2>3. fs \in Seq({b, c}) /\ Head(fs) = b
    OBVIOUS
  <2>4. Replace(t, fs) => Proceeds(t)
    BY <1>0, <2>2, <2>3 DEF Proceeds
  <2> QED BY <1>0, <2>1, <2>4, OneFrame DEF b, c
<1>2. CASE FinishPauseTask(t)
  <2> DEFINE f == [op |-> "paused", id |-> Top(t).task.id]
  <2>1. Return(t) \/ Replace(t, <<f>>)
    BY <1>2 DEF FinishPauseTask
  <2>2. f.op # "gather"
    OBVIOUS
  <2> HIDE DEF f
  <2> QED BY <1>0, <2>1, <2>2, OneFrame
<1>3. CASE MatchRegistered(t) \/ MatchPaused(t)
  <2>1. PICK fs \in Seq(Frame) :
          Replace(t, fs) /\ (fs # <<>> => Head(fs).op \in {"start", "resume", "event"})
    BY <1>3, MatchFrames
  <2> QED BY <1>0, <2>1 DEF Proceeds
<1>4. CASE GreedyTake(t) \/ GreedyNext(t)
  <2>1. GreedyNext(t) /\ Top(t).op = "batch"
    BY <1>4, GreedySteps, ScanningTypes DEF GreedyNext
  <2>2. \E x, y, z : Replace(t, <<[Top(t) EXCEPT !.at = x, !.keys = y, !.run = z]>>)
    BY <2>1 DEF GreedyNext
  <2>3. \A x, y, z : [Top(t) EXCEPT !.at = x, !.keys = y, !.run = z].op = "batch"
    BY <1>0, <2>1, PassFrames DEF In
  <2> QED BY <1>0, <2>2, <2>3, OneFrame
<1>5. CASE FinishBatch(t)
  <2> DEFINE f == Top(t)  fs == BatchFrames(f)
  <2>1. f.run \in Seq(Task) /\ f.events \in Seq(Event) /\ Replace(t, fs)
    BY <1>0, <1>5, PassFrames DEF FinishBatch, At, BatchFrames
  <2> HIDE DEF f
  <2>2. /\ fs \in Seq(Frame) /\ Len(fs) = Len(f.run) + Len(f.events)
        /\ \A i \in 1 .. Len(f.run) + Len(f.events) : fs[i] \in Resting
    BY <2>1, BatchFramesTypes
  <2> HIDE DEF fs
  <2>3. fs # <<>> => Head(fs) \in Resting
    <3>1. fs \in Seq(Frame) /\ \A i \in 1 .. Len(fs) : fs[i] \in Resting
      BY <2>2
    <3>2. fs \in Seq(Frame)
      BY <3>1
    <3>3. fs # <<>> => Head(fs) = fs[1] /\ 1 \in 1 .. Len(fs)
      BY <3>2
    <3> QED BY <3>1, <3>3
  <2>4. fs # <<>> => Head(fs).op # "gather"
    BY <2>3, FrameKinds DEF Lonely
  <2> QED BY <1>0, <2>1, <2>2, <2>4 DEF Proceeds
<1>6. CASE ReadyToRunTask(t) \/ Resumed(t) \/ StoreEvent(t)
  BY <1>0, <1>6, OneFrame DEF ReadyToRunTask, Resumed, StoreEvent
<1>7. CASE Consumes(t)
  <2>1. In(t, "consume")
    BY <1>7 DEF Consumes, ConsumeBegin, ConsumeStored, ConsumeNext, ConsumeEnd, Consuming, At
  <2>2. \A x, y, z : /\ [Top(t) EXCEPT !.at = x, !.keys = y].op = "consume"
                     /\ [Top(t) EXCEPT !.keys = x].op = "consume"
                     /\ [Top(t) EXCEPT !.at = x, !.keys = y, !.progress = z].op = "consume"
    BY <2>1, PassFrames DEF In
  <2>3. \/ Return(t)
        \/ \E x, y : Replace(t, <<[Top(t) EXCEPT !.at = x, !.keys = y]>>)
        \/ \E x : Replace(t, <<[Top(t) EXCEPT !.keys = x]>>)
        \/ \E x, y, z : Replace(t, <<[Top(t) EXCEPT !.at = x, !.keys = y, !.progress = z]>>)
    BY <1>7 DEF Consumes, ConsumeBegin, ConsumeStored, ConsumeNext, ConsumeEnd, Anew
  <2>4. Return(t) \/ \E f : Replace(t, <<f>>) /\ f.op # "gather"
    BY <2>2, <2>3, ZenonT(60)
  <2> QED BY <1>0, <2>4, OneFrame
<1>8. CASE RetrieveNext(t)
  <2>1. Return(t) \/ \E x : Replace(t, <<[Top(t) EXCEPT !.order = x]>>)
    BY <1>8 DEF RetrieveNext
  <2>2. \A x : [Top(t) EXCEPT !.order = x].op = "retrieve"
    BY <1>8, PassFrames DEF RetrieveNext, At, In
  <2> QED BY <1>0, <2>1, <2>2, OneFrame
<1> QED BY <1>1, <1>2, <1>3, <1>4, <1>5, <1>6, <1>7, <1>8 DEF Step, Consumes

\* A thread that gathers after a step did so before, with the same frame, or
\* is the one that looks up a dependency, or begins to.
Gathers(u) ==
  \/ In(u, "gather") /\ Top(u)' = Top(u)
  \/ GatherStored(u) \/ GatherMissing(u) \/ RegisterTask(u) \/ PauseTask(u)

\* What a step leaves of the passes, and of the tasks that are gathered.
LEMMA StepLeaves ==
  ASSUME Sound, Modest, [Next]_vars
  PROVE  /\ (\E t \in Threads : Consumes(t)) \/ \A u \in Threads : PassKept(u)
         /\ \A u \in Threads : In(u, "gather")' => Gathers(u)
<1>1. CASE todo' = todo
  BY <1>1 DEF PassKept, Gathers, In, Top
<1>2. ASSUME NEW t \in Threads, Call(t) PROVE (\A u \in Threads : PassKept(u)) /\ \A u \in Threads : In(u, "gather")' => Gathers(u)
  <2>1. CASE todo' = todo
    BY <1>1, <2>1 DEF PassKept, Gathers, In, Top
  <2>2. CASE todo[t] = <<>> /\ \E f : todo' = [todo EXCEPT ![t] = <<f>>]
    <3>1. \A u \in Threads \ {t} : todo'[u] = todo[u]
      BY <2>2
    <3>2. ConsumeFrame \notin ToSet(todo[t]) /\ ~In(t, "consume")
      BY <2>2, Parts DEF In
    <3>3. \A u \in Threads : PassKept(u)
      BY <3>1, <3>2 DEF PassKept
    <3>4. In(t, "gather")' => Gathers(t)
      <4>1. CASE RegisterTask(t) \/ PauseTask(t)
        BY <4>1 DEF Gathers
      <4>2. CASE ~(RegisterTask(t) \/ PauseTask(t)) /\ ~RemoveTask(t)
        <5> DEFINE Begins(f) == todo' = [todo EXCEPT ![t] = <<f>>] /\ f.op \in {"retrieve", "event", "batch"}
        <5>a. ASSUME RetrieveAny(t) PROVE \E f : Begins(f)
          <6>1. PICK order : todo' = [todo EXCEPT ![t] = <<[op |-> "retrieve", order |-> order]>>]
            BY <5>a DEF RetrieveAny
          <6>2. Begins([op |-> "retrieve", order |-> order])
            BY <6>1
          <6> QED BY <6>2
        <5>b. ASSUME RegisterEvent(t) PROVE \E f : Begins(f)
          <6>1. PICK kind : todo' = [todo EXCEPT ![t] = <<EventFrame(NewEvent(kind, 1))>>]
            BY <5>b DEF RegisterEvent
          <6>2. Begins(EventFrame(NewEvent(kind, 1)))
            BY <6>1 DEF EventFrame
          <6> QED BY <6>2
        <5>c. ASSUME RegisterEvents(t) PROVE \E f : Begins(f)
          <6> DEFINE g(x) == [op |-> "batch", events |-> x, at |-> 1, keys |-> BatchKeys(1), run |-> <<>>]
          <6>1. \E n \in 1 .. Menu.maxBatch :
                  \E kinds \in [1 .. n -> {kind \in Menu.kinds : kind.key.src # MyRank}] :
                    todo' = [todo EXCEPT ![t] = <<g([j \in 1 .. n |-> NewEvent(kinds[j], j)])>>]
            BY <5>c DEF RegisterEvents
          <6>2. PICK x : todo' = [todo EXCEPT ![t] = <<g(x)>>]
            BY <6>1, Zenon
          <6>3. Begins(g(x))
            BY <6>2
          <6> QED BY <6>3
        <5>1. PICK f : todo' = [todo EXCEPT ![t] = <<f>>] /\ f.op \in {"retrieve", "event", "batch"}
          BY <1>2, <4>2, <5>a, <5>b, <5>c DEF Call
        <5>2. todo'[t] = <<f>> /\ Head(<<f>>) = f
          BY <5>1 DEF Sound, Stacks
        <5> QED BY <5>1, <5>2 DEF In, Top
      <4>3. CASE RemoveTask(t)
        BY <4>3, <2>2 DEF RemoveTask, In
      <4> QED BY <4>1, <4>2, <4>3
    <3> QED BY <3>1, <3>3, <3>4 DEF Gathers, In, Top
  <2>3. todo' = todo \/ (todo[t] = <<>> /\ \E f : todo' = [todo EXCEPT ![t] = <<f>>])
    BY <1>2 DEF Call, RegisterTask, PauseTask, Gather, RetrieveAny, RemoveTask, RegisterEvent,
                RegisterEvents, MayCall, Outside
  <2> QED BY <2>1, <2>2, <2>3
<1>3. ASSUME NEW t \in Threads, MarkThreadResume(t)
      PROVE  (\A u \in Threads : PassKept(u)) /\ \A u \in Threads : In(u, "gather")' => Gathers(u)
  <2> DEFINE f == [op |-> "resumed", task |-> Top(t).task]
  <2>1. PICK u \in Threads :
          In(u, "paused") /\ todo' = [todo EXCEPT ![t] = Tail(@), ![u] = <<f>>]
    BY <1>3 DEF MarkThreadResume
  <2>2. At(t, "resume") /\ Stacks /\ f = [op |-> "resumed", task |-> Top(t).task]
    BY <1>3 DEF MarkThreadResume, Sound
  <2>3. f.op = "resumed"
    OBVIOUS
  <2> HIDE DEF f
  <2>4. /\ u # t
        /\ Top(t).task \in Task /\ f \in Frame
        /\ Stacks'
        /\ todo'[u] = <<f>> /\ todo'[t] = Tail(todo[t])
        /\ Top(u)' = f
        /\ todo'[t] # <<>> => Top(t)' \in Resting
        /\ \A v \in Threads \ {t, u} : todo'[v] = todo[v]
    BY <2>1, <2>2, Woken, ZenonT(60)
  <2>5. ConsumeFrame \notin ToSet(todo[u])
    <3>1. todo[u] # <<>> /\ Top(u).op = "paused" /\ Len(todo[u]) = 1 /\ todo[u] \in Seq(Frame)
      BY <2>1, TopTypes DEF In, Sound, Lonely, StackOK
    <3>2. \A i \in 1 .. Len(todo[u]) : todo[u][i] = Top(u)
      BY <3>1 DEF Top
    <3>3. Top(u) # ConsumeFrame
      BY <3>1 DEF ConsumeFrame
    <3> QED BY <3>1, <3>2, <3>3, SetOfSequence
  <2>6. ConsumeFrame \in ToSet(todo[t]) => ConsumeFrame \in ToSet(Tail(todo[t]))
    <3>1. todo[t] \in Seq(Frame) /\ todo[t] # <<>> /\ Head(todo[t]).op = "resume"
      BY <2>2 DEF At, In, Top, Stacks
    <3>2. ToSet(todo[t]) = {Head(todo[t])} \union ToSet(Tail(todo[t]))
      BY <3>1, Parts
    <3> QED BY <3>1, <3>2 DEF ConsumeFrame
  <2>7. ~In(u, "consume") /\ ~In(t, "consume")
    BY <2>1, <2>2 DEF At, In
  <2>8. \A v \in Threads : PassKept(v)
    BY <2>4, <2>5, <2>6, <2>7 DEF PassKept
  <2>9. ~In(u, "gather")' /\ ~In(t, "gather")'
    <3>1. todo'[t] # <<>> => Top(t)'.op \notin Lonely
      BY <2>4, FrameKinds
    <3> QED BY <2>3, <2>4, <3>1 DEF In, Lonely
  <2> QED BY <2>4, <2>8, <2>9 DEF Gathers, In, Top
<1>4. ASSUME NEW t \in Threads, Step(t), ~MarkThreadResume(t), ~(GatherStored(t) \/ GatherMissing(t))
      PROVE  /\ Consumes(t) \/ \A u \in Threads : PassKept(u)
             /\ \A u \in Threads : In(u, "gather")' => Gathers(u)
  <2>1. Proceeds(t) /\ Stacks
    BY <1>4, CallProceeds DEF Sound
  <2>a. PICK T : \E fs \in Seq(T) : Replace(t, fs) /\ (fs # <<>> => Head(fs).op # "gather")
    BY <2>1 DEF Proceeds
  <2>2. PICK fs \in Seq(T) : Replace(t, fs) /\ (fs # <<>> => Head(fs).op # "gather")
    BY <2>a
  <2>3. /\ \A u \in Threads \ {t} : todo'[u] = todo[u]
        /\ fs # <<>> => todo'[t] # <<>> /\ Top(t)' = Head(fs)
        /\ fs = <<>> /\ todo'[t] # <<>> => Top(t)' \in Resting
    BY <2>1, <2>2, NewTop DEF Proceeds
  <2>4. ~In(t, "gather")'
    BY <2>2, <2>3, FrameKinds DEF In, Lonely
  <2>5. \A u \in Threads : In(u, "gather")' => Gathers(u)
    BY <2>3, <2>4 DEF Gathers, In, Top
  <2>6. Consumes(t) \/ Top(t).op # "consume"
    BY <1>4 DEF Step, Consumes, FinishRegisterTask, FinishPauseTask, Gathered, MatchRegistered,
         MatchPaused, StoreEvent, Registering, GreedyTake, GreedyNext, Scanning, FinishBatch,
         ReadyToRunTask, Resumed, RetrieveNext, At, In
  <2>7. Top(t).op # "consume" => \A u \in Threads : PassKept(u)
    BY <2>1, <2>2, PassesLeft DEF Proceeds
  <2> QED BY <2>5, <2>6, <2>7
<1>5. ASSUME NEW t \in Threads, GatherStored(t) \/ GatherMissing(t)
      PROVE  (\A u \in Threads : PassKept(u)) /\ \A u \in Threads : In(u, "gather")' => Gathers(u)
  <2>1. todo[t] # <<>> /\ Top(t).op = "gather" /\ Stacks /\ \E g : Replace(t, <<g>>)
    BY <1>5 DEF GatherStored, GatherMissing, Gathering, At, In, Sound
  <2>2. PICK g : Replace(t, <<g>>)
    BY <2>1
  <2>3. <<g>> \in Seq({g})
    OBVIOUS
  <2>4. \A u \in Threads : PassKept(u)
    BY <2>1, <2>2, <2>3, PassesLeft
  <2>5. \A u \in Threads \ {t} : todo'[u] = todo[u]
    BY <2>1, <2>2, NewFrame
  <2> QED BY <1>5, <2>4, <2>5 DEF Gathers, In, Top
<1>6. ASSUME NEW t \in Threads, Step(t)
      PROVE  /\ Consumes(t) \/ \A u \in Threads : PassKept(u)
             /\ \A u \in Threads : In(u, "gather")' => Gathers(u)
  BY <1>3, <1>4, <1>5, <1>6
<1>7. CASE RunTask \/ UNCHANGED vars
  BY <1>1, <1>7 DEF RunTask, vars
<1> QED BY <1>2, <1>6, <1>7 DEF Next, Stopped

-----------------------------------------------------------------------------
(* Persistent tasks whose dependencies differ                              *)

\* The task waits for at most one event of each key.
Simple(task) ==
  task.persistent => \A k \in Keys : task.original[k] <= 1 /\ task.outstanding[k] <= 1

SimpleTask == {task \in CleanTask : Simple(task)}

\* What registerTask works on has different dependencies, and counts those that
\* it has looked up.
Simply(f) ==
  f.task.persistent =>
    /\ Simple(f.task)
    /\ \A i, j \in DOMAIN f.task.order : Equivalent(f.task.order[i], f.task.order[j]) => i = j
    /\ \A k \in Counted(f.task.original) \union Counted(f.task.outstanding) :
         \E j \in DOMAIN f.task.order :
           f.task.order[j] = k /\ (j < f.next \/ (j = f.next /\ f.found))

SimpleTasks ==
  /\ registeredTasks \in Seq(SimpleTask)
  /\ \A t \in Threads : In(t, "gather") => Simply(Top(t))

\* What a matching event leaves to wait for.
LEMMA SatisfyLess ==
  ASSUME NEW task \in CleanTask, NEW k \in Keys, NEW e \in Event, Depends(task.outstanding, k)
  PROVE  \E l \in Counted(task.outstanding) :
           /\ Equivalent(l, k)
           /\ Satisfy(task, k, e).outstanding = [task.outstanding EXCEPT ![l] = task.outstanding[l] - 1]
           /\ Satisfy(task, k, e).original = task.original
<1> DEFINE l == Slot(Counted(task.outstanding), k)
           m == [task.outstanding EXCEPT ![l] = task.outstanding[l] - 1]
           b == [task EXCEPT !.outstanding = m]
<1>1. task \in Task /\ task.outstanding \in Count /\ Counted(task.outstanding) \in SUBSET Keys
  BY DEF CleanTask, Task, Counted
<1>2. l \in Counted(task.outstanding) /\ Equivalent(l, k)
  BY <1>1, SlotFound DEF Depends
<1> HIDE DEF l
<1>3. m \in Count
  <2>1. task.outstanding[l] \in Nat /\ task.outstanding[l] # 0 /\ l \in Keys
    BY <1>1, <1>2 DEF Counted, Count
  <2> QED BY <1>1, <2>1 DEF Count
<1> HIDE DEF m
<1>4. b \in Task /\ b.outstanding = m /\ b.original = task.original
  BY <1>1, <1>3 DEF Task
<1>5. Satisfy(task, k, e) = Arrive(b, k, e)
  BY <1>1 DEF Satisfy, m, l, Task
<1> HIDE DEF b
<1> DEFINE a == Arrive(b, k, e)
<1>6. a \in Task /\ a = [b EXCEPT !.arrived = a.arrived, !.numArrivedEvents = b.numArrivedEvents + 1]
  BY <1>4, ArriveKeeps
<1> HIDE DEF a
<1>7. a.outstanding = b.outstanding /\ a.original = b.original
  BY <1>4, <1>6 DEF Task
<1> QED BY <1>2, <1>4, <1>5, <1>7 DEF a, m

\* What an event that arrives leaves alone.
LEMMA ArriveLeaves ==
  ASSUME NEW task \in CleanTask, NEW k \in Keys, NEW e \in Event
  PROVE  /\ Arrive(task, k, e) \in CleanTask
         /\ Arrive(task, k, e).outstanding = task.outstanding
         /\ Arrive(task, k, e).original = task.original
         /\ Arrive(task, k, e).order = task.order
         /\ Arrive(task, k, e).greedy = task.greedy
         /\ Arrive(task, k, e).persistent = task.persistent
<1> DEFINE a == Arrive(task, k, e)
<1>1. task \in Task /\ Clean(task.outstanding) /\ Clean(task.original)
  BY DEF CleanTask
<1>2. a \in Task /\ a = [task EXCEPT !.arrived = a.arrived, !.numArrivedEvents = task.numArrivedEvents + 1]
  BY <1>1, ArriveKeeps
<1> HIDE DEF a
<1>3. /\ a.outstanding = task.outstanding /\ a.original = task.original /\ a.order = task.order
      /\ a.greedy = task.greedy /\ a.persistent = task.persistent
  BY <1>1, <1>2 DEF Task
<1> QED BY <1>1, <1>2, <1>3 DEF CleanTask, a

\* The task with one dependency less.
LEMMA LessLeaves ==
  ASSUME NEW task \in CleanTask, NEW k \in Counted(task.outstanding)
  PROVE  /\ Less(task, k) \in CleanTask
         /\ Less(task, k).outstanding = [task.outstanding EXCEPT ![k] = task.outstanding[k] - 1]
         /\ Less(task, k).outstanding[k] = task.outstanding[k] - 1
         /\ \A l \in Keys : l # k => Less(task, k).outstanding[l] = task.outstanding[l]
         /\ Less(task, k).original = task.original
         /\ Less(task, k).persistent = task.persistent
<1> DEFINE m == [task.outstanding EXCEPT ![k] = task.outstanding[k] - 1]
           b == [task EXCEPT !.outstanding = m]
<1>1. task \in Task /\ Clean(task.outstanding) /\ Clean(task.original) /\ task.outstanding \in Count
      /\ k \in Keys
  BY DEF CleanTask, Task, Counted
<1>2. m \in Count /\ Counted(m) \subseteq Counted(task.outstanding)
      /\ m[k] = task.outstanding[k] - 1 /\ \A l \in Keys : l # k => m[l] = task.outstanding[l]
  BY <1>1 DEF Count, Counted
<1>3. Clean(m)
  BY <1>1, <1>2 DEF Clean
<1> HIDE DEF m
<1>4. b \in Task /\ b.outstanding = m /\ b.original = task.original /\ b.persistent = task.persistent
  BY <1>1, <1>2 DEF Task
<1> QED BY <1>1, <1>2, <1>3, <1>4 DEF CleanTask, Less, m

\* What happens to a task leaves it simple.
LEMMA SimpleKept == Closed(SimpleTask) /\ SimpleTask \in SUBSET CleanTask
<1> SUFFICES ASSUME NEW task \in SimpleTask
             PROVE  /\ Rearm(task) \in SimpleTask
                    /\ \A k \in Keys, e \in Event : Arrive(task, k, e) \in SimpleTask
                    /\ \A k \in Keys, e \in Event :
                         Depends(task.outstanding, k) => Satisfy(task, k, e) \in SimpleTask
                    /\ \A k \in Counted(task.outstanding) : Less(task, k) \in SimpleTask
  BY DEF Closed, SimpleTask
<1>1. task \in CleanTask /\ Simple(task) /\ task \in Task
  BY DEF SimpleTask, CleanTask
<1>2. task.outstanding \in Count /\ task.original \in Count
  BY <1>1 DEF Task
<1>3. ASSUME NEW b \in CleanTask, b.persistent = task.persistent, b.original = task.original,
             NEW l \in Keys, b.outstanding = [task.outstanding EXCEPT ![l] = task.outstanding[l] - 1]
      PROVE  b \in SimpleTask
  <2>1. \A k \in Keys : task.outstanding[k] \in Nat
    BY <1>2 DEF Count
  <2>2. \A k \in Keys : b.outstanding[k] = IF k = l THEN task.outstanding[l] - 1 ELSE task.outstanding[k]
    BY <1>2, <1>3 DEF Count
  <2>3. \A k \in Keys : task.outstanding[k] <= 1 => b.outstanding[k] <= 1
    BY <2>1, <2>2
  <2> QED BY <1>1, <1>3, <2>3 DEF SimpleTask, Simple
<1>4. Rearm(task) \in SimpleTask
  <2>1. Rearm(task) \in CleanTask /\ Rearm(task).persistent = task.persistent
    BY <1>1, RearmKeeps
  <2>2. Rearm(task).outstanding = task.original /\ Rearm(task).original = task.original
    BY <1>1 DEF Rearm, Task
  <2> QED BY <1>1, <2>1, <2>2 DEF SimpleTask, Simple
<1>5. ASSUME NEW k \in Keys, NEW e \in Event PROVE Arrive(task, k, e) \in SimpleTask
  BY <1>1, ArriveLeaves DEF SimpleTask, Simple
<1>6. ASSUME NEW k \in Keys, NEW e \in Event, Depends(task.outstanding, k)
      PROVE  Satisfy(task, k, e) \in SimpleTask
  <2>1. PICK l \in Counted(task.outstanding) :
           /\ Satisfy(task, k, e).outstanding = [task.outstanding EXCEPT ![l] = task.outstanding[l] - 1]
           /\ Satisfy(task, k, e).original = task.original
    BY <1>1, <1>6, SatisfyLess
  <2>2. Satisfy(task, k, e) \in CleanTask /\ Satisfy(task, k, e).persistent = task.persistent
    BY <1>1, <1>6, SatisfyKeeps
  <2>3. l \in Keys
    BY DEF Counted
  <2> QED BY <1>3, <2>1, <2>2, <2>3
<1>7. ASSUME NEW k \in Counted(task.outstanding) PROVE Less(task, k) \in SimpleTask
  <2>1. k \in Keys
    BY DEF Counted
  <2> QED BY <1>1, <1>3, <2>1, LessLeaves
<1> QED BY <1>4, <1>5, <1>6, <1>7

\* The first dependency that a map counts and that compares equal to no other.
LEMMA BumpNew ==
  ASSUME NEW m \in Count, NEW k \in Keys, \A l \in Counted(m) : ~Equivalent(l, k)
  PROVE  /\ \A l \in Keys : Bump(m, k)[l] = IF l = k THEN 1 ELSE m[l]
         /\ Counted(Bump(m, k)) = Counted(m) \union {k}
<1>1. {l \in Counted(m) : Equivalent(k, l)} = {}
  BY DEF Equivalent
<1>2. Slot(Counted(m), k) = k
  BY <1>1 DEF Slot
<1>3. Equivalent(k, k)
  BY DEF Equivalent
<1>4. m[k] = 0
  BY <1>3 DEF Counted
<1>5. Bump(m, k) = [m EXCEPT ![k] = m[k] + 1]
  BY <1>2 DEF Bump
<1>6. \A l \in Keys : Bump(m, k)[l] = IF l = k THEN 1 ELSE m[l]
  BY <1>4, <1>5 DEF Count
<1>7. Counted(Bump(m, k)) = Counted(m) \union {k}
  BY <1>2, BumpCounts
<1> QED BY <1>6, <1>7

\* The dependency at hand is counted nowhere yet, and the task that takes note
\* of it is as simple as before.
LEMMA NotedSimple ==
  ASSUME Stacks, NEW t \in Threads, Gathering(t), Simply(Top(t)), NEW f, f = Top(t),
         NEW k, k = f.task.order[f.next]
  PROVE  /\ Noted(f) \in CleanTask /\ Noted(f).order = f.task.order
         /\ Noted(f).persistent = f.task.persistent /\ Noted(f).greedy = f.task.greedy
         /\ Noted(f).outstanding = f.task.outstanding
         /\ f.task.persistent =>
              /\ Simple(Noted(f))
              /\ Counted(Noted(f).original) \subseteq Counted(f.task.original) \union {k}
              /\ ~f.found => \A l \in Counted(f.task.outstanding) : ~Equivalent(l, k)
<1>1. /\ f \in [op : {"gather"}, call : {"register", "wait"}, task : Task, next : Nat, found : BOOLEAN]
      /\ f.task \in Task /\ k \in Keys
      /\ Noted(f) \in CleanTask /\ Noted(f) = [f.task EXCEPT !.original = Noted(f).original]
  BY GatheringTypes DEF CleanTask
<1>2. /\ Noted(f).order = f.task.order /\ Noted(f).persistent = f.task.persistent
      /\ Noted(f).outstanding = f.task.outstanding /\ Noted(f).greedy = f.task.greedy
  BY <1>1 DEF Task
<1>3. ASSUME f.task.persistent
      PROVE  /\ Simple(Noted(f))
             /\ Counted(Noted(f).original) \subseteq Counted(f.task.original) \union {k}
             /\ ~f.found => \A l \in Counted(f.task.outstanding) : ~Equivalent(l, k)
  <2>1. Simple(f.task) /\ f.task.original \in Count
    BY <1>1, <1>3 DEF Simply, Task
  <2>2. CASE f.found
    BY <2>1, <2>2 DEF Noted
  <2>3. CASE ~f.found
    <3>1. f.next \in DOMAIN f.task.order
      BY <1>1 DEF Gathering, Task
    <3>2. ASSUME NEW l \in Counted(f.task.original) \union Counted(f.task.outstanding), Equivalent(l, k)
          PROVE  FALSE
      <4>1. PICK j \in DOMAIN f.task.order : f.task.order[j] = l /\ j < f.next
        BY <1>3, <2>3 DEF Simply
      <4>2. j = f.next
        BY <1>3, <3>1, <3>2, <4>1 DEF Simply
      <4>3. j \in Nat /\ f.next \in Nat
        BY <1>1, <4>1 DEF Task
      <4> QED BY <4>1, <4>2, <4>3
    <3>3. \A l \in Counted(f.task.original) \union Counted(f.task.outstanding) : ~Equivalent(l, k)
      BY <3>2
    <3>4. Noted(f).original = Bump(f.task.original, k)
      BY <1>1, <2>3 DEF Noted, Task
    <3>5. /\ \A l \in Keys : Bump(f.task.original, k)[l] = IF l = k THEN 1 ELSE f.task.original[l]
          /\ Counted(Bump(f.task.original, k)) = Counted(f.task.original) \union {k}
      BY <1>1, <2>1, <3>3, BumpNew
    <3>6. Simple(Noted(f))
      BY <1>2, <1>3, <2>1, <3>4, <3>5 DEF Simple
    <3> QED BY <3>3, <3>4, <3>5, <3>6
  <2> QED BY <2>2, <2>3
<1> QED BY <1>1, <1>2, <1>3

\* registerTask goes on, with the same dependency or the next one.
LEMMA SimplyNext ==
  ASSUME NEW f \in [op : {"gather"}, call : {"register", "wait"}, task : Task, next : Nat, found : BOOLEAN],
         Simply(f), f.next \in DOMAIN f.task.order,
         NEW a, a.persistent = f.task.persistent, a.order = f.task.order,
         a.persistent =>
           /\ Simple(a)
           /\ Counted(a.original) \subseteq Counted(f.task.original) \union {f.task.order[f.next]}
           /\ Counted(a.outstanding) \subseteq Counted(f.task.outstanding) \union {f.task.order[f.next]}
                \/ Counted(a.outstanding) \subseteq Counted(f.task.outstanding),
         NEW n, NEW b, (n = f.next + 1 /\ ~b) \/ (n = f.next /\ b),
         NEW g, g.task = a, g.next = n, g.found = b
  PROVE  Simply(g)
<1> SUFFICES ASSUME a.persistent PROVE Simply(g)
  BY DEF Simply
<1>1. ASSUME NEW k \in Counted(a.original) \union Counted(a.outstanding)
      PROVE  \E j \in DOMAIN a.order : a.order[j] = k /\ (j < n \/ (j = n /\ b))
  <2>1. k = f.task.order[f.next] \/ k \in Counted(f.task.original) \union Counted(f.task.outstanding)
    BY <1>1
  <2>2. f.next \in Nat /\ \A j \in DOMAIN f.task.order : j \in Nat
    BY DEF Task
  <2>3. CASE k = f.task.order[f.next]
    BY <2>2, <2>3
  <2>4. CASE k \in Counted(f.task.original) \union Counted(f.task.outstanding)
    <3>1. PICK j \in DOMAIN f.task.order : f.task.order[j] = k /\ (j < f.next \/ j = f.next)
      BY <2>4 DEF Simply
    <3>2. j < n \/ (j = n /\ b)
      BY <2>2, <3>1
    <3> QED BY <3>1, <3>2
  <2> QED BY <2>1, <2>3, <2>4
<1>2. \A i, j \in DOMAIN a.order : Equivalent(a.order[i], a.order[j]) => i = j
  BY DEF Simply
<1> QED BY <1>1, <1>2 DEF Simply

\* A dependency is looked up in the store: the task stays simple.
LEMMA GatheredSimply ==
  ASSUME Sound, NEW t \in Threads, Simply(Top(t)), GatherStored(t) \/ GatherMissing(t)
  PROVE  Simply(Top(t)')
<1> DEFINE f == Top(t)  k == f.task.order[f.next]  b == Noted(f)
<1>1. Gathering(t) /\ Stacks
  BY DEF GatherStored, GatherMissing, Sound
<1>2. /\ f \in [op : {"gather"}, call : {"register", "wait"}, task : Task, next : Nat, found : BOOLEAN]
      /\ todo[t] # <<>> /\ f.task \in Task /\ f.task \in CleanTask /\ k \in Keys
  BY <1>1, GatheringTypes DEF CleanTask
<1>3. f.next \in DOMAIN f.task.order
  BY <1>1, <1>2 DEF Gathering, Task
<1>4. f = Top(t) /\ k = f.task.order[f.next]
  OBVIOUS
<1>5. /\ b \in CleanTask /\ b.order = f.task.order
      /\ b.persistent = f.task.persistent /\ b.greedy = f.task.greedy
      /\ b.outstanding = f.task.outstanding
      /\ f.task.persistent =>
           /\ Simple(b)
           /\ Counted(b.original) \subseteq Counted(f.task.original) \union {k}
           /\ ~f.found => \A l \in Counted(f.task.outstanding) : ~Equivalent(l, k)
  BY <1>1, NotedSimple
<1> HIDE DEF b
<1>6. CASE GatherStored(t)
  <2> DEFINE e == First(k)  a == Arrive(b, k, e)
             n == IF f.task.greedy THEN f.next ELSE f.next + 1
             c == f.task.greedy
             g == [f EXCEPT !.task = a, !.next = n, !.found = c]
  <2>1. Replace(t, <<g>>) /\ IsStored(k) /\ TakeFirst(k)
    BY <1>6 DEF GatherStored, b
  <2> HIDE DEF f
  <2>2. e \in Event
    <3> HIDE DEF k
    <3> QED BY <1>2, <2>1, StoreTake DEF Sound, Plain
  <2> HIDE DEF k, e
  <2>3. /\ a.outstanding = b.outstanding /\ a.original = b.original /\ a.order = b.order
        /\ a.persistent = b.persistent
    BY <1>2, <1>5, <2>2, ArriveLeaves
  <2> HIDE DEF a
  <2>4. (n = f.next + 1 /\ ~c) \/ (n = f.next /\ c)
    OBVIOUS
  <2> HIDE DEF n, c
  <2>5. g.task = a /\ g.next = n /\ g.found = c
    BY <1>2
  <2> HIDE DEF g
  <2>6. Top(t)' = g
    BY <1>1, <1>2, <2>1, NewFrame DEF f
  <2>7. a.persistent => Simple(a)
    BY <1>5, <2>3 DEF Simple
  <2>8. Simply(g)
    BY <1>2, <1>3, <1>4, <1>5, <2>3, <2>4, <2>5, <2>7, SimplyNext DEF f
  <2> QED BY <2>6, <2>8
<1>7. CASE GatherMissing(t)
  <2> DEFINE m == Bump(b.outstanding, k)
             a == IF f.found THEN f.task ELSE [b EXCEPT !.outstanding = m]
             n == f.next + 1
             g == [f EXCEPT !.task = a, !.next = n, !.found = FALSE]
  <2>1. Replace(t, <<g>>)
    BY <1>7 DEF GatherMissing, b
  <2> HIDE DEF f, k
  <2>2. b \in Task /\ b.outstanding \in Count /\ m \in Count
    <3>1. b \in Task /\ b.outstanding \in Count
      BY <1>5 DEF CleanTask, Task
    <3> QED BY <1>2, <3>1, BumpCounts
  <2>3. f.task.persistent /\ ~f.found =>
          /\ \A l \in Keys : m[l] = IF l = k THEN 1 ELSE b.outstanding[l]
          /\ Counted(m) = Counted(b.outstanding) \union {k}
    BY <1>2, <1>5, <2>2, BumpNew
  <2> HIDE DEF m
  <2>4. /\ a.order = f.task.order /\ a.persistent = f.task.persistent
        /\ f.found => a.outstanding = f.task.outstanding /\ a.original = f.task.original
        /\ ~f.found => a.outstanding = m /\ a.original = b.original
    BY <1>5, <2>2 DEF Task
  <2> HIDE DEF a
  <2>5. a.persistent =>
          /\ Simple(a)
          /\ Counted(a.original) \subseteq Counted(f.task.original) \union {k}
          /\ Counted(a.outstanding) \subseteq Counted(f.task.outstanding) \union {k}
    <3>1. CASE f.found
      BY <1>4, <2>4, <3>1 DEF Simply, Simple, f
    <3>2. CASE ~f.found
      <4>1. \A l \in Keys : b.outstanding[l] \in Nat
        BY <2>2 DEF Count
      <4> QED BY <1>5, <2>3, <2>4, <3>2, <4>1 DEF Simple
    <3> QED BY <3>1, <3>2
  <2> HIDE DEF n
  <2>6. g.task = a /\ g.next = n /\ g.found = FALSE
    BY <1>2
  <2> HIDE DEF g
  <2>7. Top(t)' = g
    BY <1>1, <1>2, <2>1, NewFrame DEF f
  <2>8. Simply(g)
    <3>1. n = f.next + 1 /\ ~FALSE
      BY DEF n
    <3> QED BY <1>2, <1>3, <1>4, <2>4, <2>5, <2>6, <3>1, SimplyNext DEF f
  <2> QED BY <2>7, <2>8
<1> QED BY <1>6, <1>7

\* What a step leaves of the list of tasks.
LEMMA ListSteps ==
  ASSUME Sound, Modest, NEW S \in SUBSET CleanTask, Closed(S), registeredTasks \in Seq(S),
         \A t \in Threads : In(t, "gather") => Top(t).task \in S, [Next]_vars
  PROVE  registeredTasks' \in Seq(S)
<1>1. ASSUME NEW t \in Threads, RemoveTask(t) PROVE registeredTasks' \in Seq(S)
  <2>1. PICK name \in Names \ {NoName} :
          \/ UNCHANGED registeredTasks
          \/ /\ Named(name) # {}
             /\ registeredTasks' = RemoveAt(registeredTasks, LeastIndex(Named(name)))
    BY <1>1 DEF RemoveTask
  <2>2. registeredTasks \in Seq(CleanTask)
    BY DEF Sound, TaskLists
  <2>3. Named(name) # {} => LeastIndex(Named(name)) \in 1 .. Len(registeredTasks)
    BY <2>2, NamedTask
  <2> QED BY <2>1, <2>3, ListKept
<1>2. ASSUME NEW t \in Threads, FinishRegisterTask(t) PROVE registeredTasks' \in Seq(S)
  <2>1. In(t, "gather")
    BY <1>2 DEF FinishRegisterTask, Gathered, At
  <2>2. Top(t).task \in S /\ Rearm(Top(t).task) \in S
    BY <2>1 DEF Closed
  <2>3. \/ registeredTasks' = registeredTasks
        \/ registeredTasks' = Append(registeredTasks, Top(t).task)
        \/ registeredTasks' = Append(registeredTasks, Rearm(Top(t).task))
    BY <1>2 DEF FinishRegisterTask
  <2> QED BY <2>2, <2>3, ListKept
<1>3. ASSUME NEW t \in Threads, GreedyTake(t) \/ GreedyNext(t) PROVE registeredTasks' \in Seq(S)
  BY <1>3, GreedySteps
<1>4. ASSUME NEW t \in Threads, MatchRegistered(t) PROVE registeredTasks' \in Seq(S)
  BY <1>4, MatchedKept
<1>5. ASSUME NEW t \in Threads, Consumes(t) PROVE registeredTasks' \in Seq(S)
  BY <1>5, ConsumedKept DEF Consumes
<1>6. ASSUME NEW t \in Threads, Call(t), ~RemoveTask(t) PROVE registeredTasks' = registeredTasks
  BY <1>6 DEF Call, RegisterTask, PauseTask, Gather, RetrieveAny, RegisterEvent, RegisterEvents
<1>7. ASSUME NEW t \in Threads, Step(t), ~FinishRegisterTask(t), ~(GreedyTake(t) \/ GreedyNext(t)),
             ~MatchRegistered(t), ~Consumes(t)
      PROVE  registeredTasks' = registeredTasks
  BY <1>7 DEF Step, Consumes, GatherStored, GatherMissing, FinishPauseTask, MatchPaused, StoreEvent,
              FinishBatch, ReadyToRunTask, MarkThreadResume, Resumed, RetrieveNext
<1>8. RunTask \/ UNCHANGED vars => registeredTasks' = registeredTasks
  BY DEF RunTask, vars
<1> QED BY <1>1, <1>2, <1>3, <1>4, <1>5, <1>6, <1>7, <1>8 DEF Next, Stopped

\* No step makes a task wait for two events of one key, or for one twice.
LEMMA StepSimple ==
  ASSUME PersistentTasksDistinct, Sound, Modest, SimpleTasks, [Next]_vars
  PROVE  SimpleTasks'
<1>1. registeredTasks' \in Seq(SimpleTask)
  <2>1. \A t \in Threads : In(t, "gather") => Top(t).task \in SimpleTask
    BY TopTypes DEF SimpleTasks, Simply, Simple, SimpleTask, In, Sound
  <2> QED BY <2>1, SimpleKept, ListSteps DEF SimpleTasks
<1>2. ASSUME NEW u \in Threads, In(u, "gather")' PROVE Simply(Top(u))'
  <2>1. Gathers(u)
    BY <1>2, StepLeaves
  <2>2. CASE In(u, "gather") /\ Top(u)' = Top(u)
    <3>1. Simply(Top(u))
      BY <2>2 DEF SimpleTasks
    <3> QED BY <2>2, <3>1 DEF Simply, Simple
  <2>3. CASE GatherStored(u) \/ GatherMissing(u)
    <3>1. In(u, "gather")
      BY <2>3 DEF GatherStored, GatherMissing, Gathering, At
    <3>2. Simply(Top(u)')
      BY <2>3, <3>1, GatheredSimply DEF SimpleTasks
    <3> QED BY <3>2 DEF Simply, Simple
  <2>4. ASSUME NEW call, NEW s \in Submission, Gather(u, call, s),
               s.persistent => \A i, j \in DOMAIN s.order : Equivalent(s.order[i], s.order[j]) => i = j
        PROVE  Simply(Top(u))'
    <3> DEFINE f == [op |-> "gather", call |-> call, task |-> NewTask(s), next |-> 1, found |-> FALSE]
    <3>1. todo' = [todo EXCEPT ![u] = <<f>>] /\ Stacks /\ todo \in [Threads -> Seq(Frame)]
      BY <2>4 DEF Gather, Sound, Stacks
    <3>2. /\ f.task.persistent = s.persistent /\ f.task.order = s.order
          /\ f.task.original = NoCount /\ f.task.outstanding = NoCount
      BY DEF NewTask
    <3> HIDE DEF f
    <3>3. todo'[u] = <<f>> /\ Head(<<f>>) = f
      BY <3>1
    <3>4. Top(u)' = f
      BY <3>3 DEF Top
    <3>5. Counted(NoCount) = {} /\ \A k \in Keys : NoCount[k] <= 1
      BY DEF NoCount, Counted
    <3>6. Simply(f)
      BY <2>4, <3>2, <3>5 DEF Simply, Simple
    <3> QED BY <3>4, <3>6 DEF Simply, Simple
  <2>5. CASE RegisterTask(u)
    <3>1. PICK s \in Menu.tasks : Gather(u, "register", s)
      BY <2>5 DEF RegisterTask
    <3>2. Menu \in Program /\ program \in DOMAIN Programs
      BY MenuTypes DEF Sound, Plain
    <3>3. s \in Submission
      BY <3>2 DEF Program
    <3>4. s.persistent => \A i, j \in DOMAIN s.order : Equivalent(s.order[i], s.order[j]) => i = j
      BY <3>2 DEF PersistentTasksDistinct, Menu
    <3> QED BY <2>4, <3>1, <3>3, <3>4
  <2>6. CASE PauseTask(u)
    <3> DEFINE s(order) == [order |-> order, persistent |-> FALSE, greedy |-> FALSE, name |-> NoName]
    <3>1. PICK order \in Menu.waits : Gather(u, "wait", s(order))
      BY <2>6 DEF PauseTask
    <3>2. Menu \in Program
      BY MenuTypes DEF Sound, Plain
    <3>3. s(order) \in Submission /\ ~s(order).persistent
      BY <3>2 DEF Submission, Program
    <3> HIDE DEF s
    <3> QED BY <2>4, <3>1, <3>3
  <2> QED BY <2>1, <2>2, <2>3, <2>5, <2>6 DEF Gathers
<1> QED BY <1>1, <1>2 DEF SimpleTasks

-----------------------------------------------------------------------------
(* Steps of a pass                                                         *)

\* The events a pass takes for a persistent task are all that it needs, and
\* the other tasks need nothing.
LEMMA ConsumableNeeds ==
  ASSUME Sound, Matched, NEW i \in DOMAIN registeredTasks, Needs(i) # {}
  PROVE  registeredTasks[i].persistent /\ Consumable(i) = Needs(i)
<1>1. registeredTasks[i].persistent
  <2> SUFFICES ASSUME ~registeredTasks[i].persistent PROVE FALSE
    OBVIOUS
  <2>1. PICK k \in Counted(registeredTasks[i].outstanding) : IsStored(k)
    BY DEF Needs
  <2>2. k \in Keys
    BY DEF Counted
  <2>3. PICK l \in Queued(outstandingEvents) : Equivalent(l, k)
    BY <2>1, <2>2, StoredIff
  <2>4. Equivalent(k, l)
    BY <2>3 DEF Equivalent
  <2>5. Depends(registeredTasks[i].outstanding, l)
    BY <2>1, <2>4 DEF Depends
  <2> QED BY <2>3, <2>5 DEF Matched, AllPatient, Patient
<1> QED BY <1>1 DEF Consumable, Needs

\* A thread that is in the middle of a pass.
LEMMA PassTypes ==
  ASSUME Sound, NEW t \in Threads, In(t, "consume")
  PROVE  /\ todo[t] # <<>> /\ Top(t).op = "consume" /\ Stacks
         /\ Top(t) \in [op : {"consume"}, at : Nat, keys : SUBSET Keys, progress : BOOLEAN]
         /\ Top(t).at # 0 => Holds(t) /\ Takes(t) /\ Top(t) # ConsumeFrame
<1>1. todo[t] # <<>> /\ Top(t).op = "consume" /\ Stacks
  BY DEF In, Sound
<1>2. Top(t) \in [op : {"consume"}, at : Nat, keys : SUBSET Keys, progress : BOOLEAN]
  BY <1>1, PassFrames
<1>3. Top(t).at # 0 => Holds(t) /\ Takes(t)
  BY <1>1 DEF Sound, AllCritical, Critical
<1>4. ConsumeFrame.at = 0
  BY DEF ConsumeFrame
<1> QED BY <1>1, <1>2, <1>3, <1>4

\* Only one pass is under way.
LEMMA OnePass ==
  ASSUME Sound, NEW t \in Threads, In(t, "consume"), Top(t).at # 0,
         NEW u \in Threads, In(u, "consume"), Top(u).at # 0
  PROVE  u = t
BY PassTypes DEF Holds

\* A pass goes on.
LEMMA PassGoes ==
  ASSUME Sound, NEW t \in Threads, In(t, "consume"), Top(t).at # 0,
         NEW g, Replace(t, <<g>>)
  PROVE  /\ PassAhead => PassAhead'
         /\ todo'[t] # <<>> /\ Top(t)' = g
<1>1. todo[t] # <<>> /\ Stacks /\ Top(t) # ConsumeFrame
  BY PassTypes
<1>2. <<g>> \in Seq({g})
  OBVIOUS
<1>3. /\ \A u \in Threads \ {t} : todo'[u] = todo[u]
      /\ ToSet(todo'[t]) = ToSet(<<g>>) \union ToSet(Tail(todo[t]))
      /\ ToSet(todo[t]) = {Top(t)} \union ToSet(Tail(todo[t]))
  BY <1>1, <1>2, FramesLeft
<1>4. todo'[t] # <<>> /\ Top(t)' = g
  BY <1>1, NewFrame
<1> QED BY <1>1, <1>3, <1>4 DEF PassAhead

\* A pass begins with the first task.
LEMMA PassBegins ==
  ASSUME Sound, Matched, NEW t \in Threads, todo'[t] # <<>>, UNCHANGED <<registeredTasks, outstandingEvents>>,
         NEW g, Top(t)' = g, g.op = "consume", g.at = 1, g.keys = Consumable(1)
  PROVE  Sated'
<1> SUFFICES ASSUME NEW i \in DOMAIN registeredTasks, Needs(i)' # {} PROVE PassReaches(t, i)'
  BY DEF Sated
<1>1. Needs(i)' = Needs(i)
  BY DEF Needs, IsStored, Store
<1>2. Consumable(i) = Needs(i)
  BY <1>1, ConsumableNeeds
<1>3. i \in Nat /\ i >= 1
  <2>1. registeredTasks \in Seq(CleanTask)
    BY DEF Sound, TaskLists
  <2> QED BY <2>1
<1>4. i = 1 \/ i > 1
  BY <1>3
<1>5. In(t, "consume")' /\ Top(t)'.at # 0 /\ (i > Top(t)'.at \/ (i = Top(t)'.at /\ Needs(i)' \subseteq Top(t)'.keys))
  BY <1>1, <1>2, <1>4 DEF In
<1> QED BY <1>5 DEF PassReaches

\* consumeEventsByPersistentTasks takes the mutex, or starts again.
LEMMA ConsumeBeginSated ==
  ASSUME Sound, Matched, NEW t \in Threads,
         ConsumeBegin(t) \/ (ConsumeEnd(t) /\ Top(t).progress)
  PROVE  Sated'
<1>1. In(t, "consume") /\ UNCHANGED <<registeredTasks, outstandingEvents>>
  BY DEF ConsumeBegin, ConsumeEnd, At
<1>2. /\ todo[t] # <<>> /\ Top(t).op = "consume" /\ Stacks
      /\ Top(t) \in [op : {"consume"}, at : Nat, keys : SUBSET Keys, progress : BOOLEAN]
  BY <1>1, PassTypes
<1> DEFINE x == Consumable(1)  f == Top(t)
           g == [f EXCEPT !.at = 1, !.keys = x]
           h == [f EXCEPT !.at = 1, !.keys = x, !.progress = FALSE]
<1>3. Replace(t, <<g>>) \/ Replace(t, <<h>>)
  BY DEF ConsumeBegin, ConsumeEnd, Anew
<1>4. /\ g.op = "consume" /\ g.at = 1 /\ g.keys = x
      /\ h.op = "consume" /\ h.at = 1 /\ h.keys = x
  <2> HIDE DEF f, x
  <2> QED BY <1>2 DEF f
<1> HIDE DEF g, h, f
<1>5. PICK b : b \in {g, h} /\ Replace(t, <<b>>)
  BY <1>3
<1>6. todo'[t] # <<>> /\ Top(t)' = b
  BY <1>2, <1>5, NewFrame
<1>7. b.op = "consume" /\ b.at = 1 /\ b.keys = x
  BY <1>4, <1>5
<1> QED BY <1>1, <1>6, <1>7, PassBegins

\* The pass gives up the mutex: it has looked at every task.
LEMMA ConsumeEndSated ==
  ASSUME Sound, Matched, Sated, NEW t \in Threads, ConsumeEnd(t), ~Top(t).progress
  PROVE  Sated'
<1>1. /\ In(t, "consume") /\ UNCHANGED <<registeredTasks, outstandingEvents>> /\ Holds(t)
      /\ Top(t).at > Len(registeredTasks) /\ Return(t) /\ registeredTasks \in Seq(CleanTask)
  BY DEF ConsumeEnd, At, Sound, TaskLists
<1>2. /\ todo[t] # <<>> /\ Stacks /\ Top(t).at \in Nat
  BY <1>1, PassTypes
<1>3. Top(t).at # 0 /\ \A i \in DOMAIN registeredTasks : ~(i > Top(t).at) /\ i # Top(t).at
  BY <1>1, <1>2
<1>4. <<>> \in Seq({}) /\ ToSet(<<>>) = {} /\ Replace(t, <<>>)
  BY <1>1, Parts DEF Return
<1>5. /\ \A u \in Threads \ {t} : todo'[u] = todo[u]
      /\ ToSet(todo'[t]) = ToSet(<<>>) \union ToSet(Tail(todo[t]))
      /\ ToSet(todo[t]) = {Top(t)} \union ToSet(Tail(todo[t]))
  BY <1>2, <1>4, FramesLeft
<1>6. Top(t) # ConsumeFrame
  BY <1>1, <1>3, PassTypes
<1>7. PassAhead => PassAhead'
  BY <1>5, <1>6 DEF PassAhead
<1>8. \A i \in DOMAIN registeredTasks : \A u \in Threads : ~PassReaches(u, i)
  BY <1>1, <1>3, OnePass DEF PassReaches
<1>9. \A i \in DOMAIN registeredTasks : Needs(i) = {} \/ PassAhead
  BY <1>8 DEF Sated
<1>10. \A i : Needs(i)' = Needs(i)
  BY <1>1 DEF Needs, IsStored, Store
<1> QED BY <1>1, <1>7, <1>9, <1>10 DEF Sated

\* The pass goes on to the next task, or will come again after one that fired.
LEMMA ConsumeNextSated ==
  ASSUME Sound, Matched, Sated, NEW t \in Threads, ConsumeNext(t)
  PROVE  Sated'
<1> DEFINE f == Top(t)  n == f.at + 1  x == Consumable(n)
           fires == registeredTasks[f.at].persistent /\ Complete(registeredTasks[f.at])
           b == f.progress \/ fires
           g == [f EXCEPT !.at = n, !.keys = x, !.progress = b]
<1>1. /\ Consuming(t) /\ f.keys = {} /\ outstandingEvents' = outstandingEvents
      /\ ~fires => registeredTasks' = registeredTasks
      /\ \/ registeredTasks' = registeredTasks
         \/ registeredTasks' = [registeredTasks EXCEPT ![f.at] = Rearm(registeredTasks[f.at])]
      /\ Replace(t, <<g>>)
  BY DEF ConsumeNext
<1>2. /\ f.at \in 1 .. Len(registeredTasks) /\ registeredTasks \in Seq(CleanTask) /\ Holds(t)
      /\ f \in [op : {"consume"}, at : Nat, keys : SUBSET Keys, progress : BOOLEAN]
      /\ In(t, "consume") /\ f.at # 0
  BY <1>1, ConsumingTypes DEF Consuming, At
<1> HIDE DEF fires
<1>3. g.op = "consume" /\ g.at = n /\ g.keys = x /\ g.progress = b /\ n \in Nat /\ n # 0
  <2>1. n \in Nat /\ n # 0
    BY <1>2
  <2> HIDE DEF f, n, x, b
  <2> QED BY <1>2, <2>1
<1> HIDE DEF g
<1>4. (PassAhead => PassAhead') /\ todo'[t] # <<>> /\ Top(t)' = g
  BY <1>1, <1>2, PassGoes
<1>5. CASE b
  <2>1. \A i : PassReaches(t, i)'
    BY <1>3, <1>4, <1>5 DEF PassReaches, In
  <2> QED BY <2>1 DEF Sated
<1>6. CASE ~b
  <2>1. registeredTasks' = registeredTasks /\ ~f.progress
    BY <1>1, <1>6
  <2> SUFFICES ASSUME NEW i \in DOMAIN registeredTasks, Needs(i)' # {}, ~PassAhead'
               PROVE  PassReaches(t, i)'
    BY <2>1 DEF Sated
  <2>2. Needs(i)' = Needs(i)
    BY <1>1, <2>1 DEF Needs, IsStored, Store
  <2>3. PICK u \in Threads : PassReaches(u, i)
    BY <1>4, <2>2 DEF Sated
  <2>4. u = t
    BY <1>2, <2>3, OnePass DEF PassReaches
  <2>5. i > f.at
    BY <1>1, <2>1, <2>2, <2>3, <2>4 DEF PassReaches
  <2>6. i > n \/ i = n
    <3>1. i \in Nat /\ f.at \in Nat
      BY <1>2
    <3> QED BY <2>5, <3>1
  <2>7. i = n => x = Needs(i)
    BY <2>2, ConsumableNeeds
  <2> HIDE DEF n, x, f
  <2> QED BY <1>3, <1>4, <2>2, <2>6, <2>7 DEF PassReaches, In
<1> QED BY <1>5, <1>6

\* A store that offers less serves less.
LEMMA LessStored ==
  ASSUME Queued(outstandingEvents') \subseteq Queued(outstandingEvents), NEW k \in Keys, IsStored(k)'
  PROVE  IsStored(k)
BY StoredIff, StoredIffThen

\* The pass takes a stored event for the task at hand, which then needs one
\* event less.
LEMMA ConsumeStoredSated ==
  ASSUME Sound, Matched, SimpleTasks, Sated, NEW t \in Threads, ConsumeStored(t)
  PROVE  Sated'
<1> DEFINE f == Top(t)  k == LeastSource(f.keys)  task == registeredTasks[f.at]
           x == f.keys \ {k}
           e == First(k)  a == Arrive(Less(task, k), k, e)
           g == [f EXCEPT !.keys = x]
<1>1. /\ Consuming(t) /\ f.keys # {} /\ TakeFirst(k)
      /\ registeredTasks' = [registeredTasks EXCEPT ![f.at] = a]
      /\ Replace(t, <<g>>)
  BY DEF ConsumeStored, Less
<1>2. /\ f.at \in 1 .. Len(registeredTasks) /\ registeredTasks \in Seq(CleanTask) /\ Holds(t)
      /\ f \in [op : {"consume"}, at : Nat, keys : SUBSET Keys, progress : BOOLEAN]
      /\ f.keys \subseteq {l \in Counted(task.outstanding) : IsStored(l)}
      /\ In(t, "consume") /\ f.at # 0
  BY <1>1, ConsumingTypes DEF Consuming, At
<1>3. k \in f.keys /\ k \in Keys
  BY <1>1, <1>2, LeastSourceIn
<1>4. k \in Counted(task.outstanding) /\ IsStored(k) /\ task \in SimpleTask
  BY <1>2, <1>3 DEF SimpleTasks
<1> HIDE DEF k
<1>5. Queued(outstandingEvents') \subseteq Queued(outstandingEvents) /\ e \in Event
  BY <1>1, <1>3, <1>4, StoreTake DEF Sound, Plain
<1>6. g.op = "consume" /\ g.at = f.at /\ g.keys = x /\ g.progress = f.progress
  <2> HIDE DEF f, x
  <2> QED BY <1>2
<1> HIDE DEF g
<1>7. (PassAhead => PassAhead') /\ todo'[t] # <<>> /\ Top(t)' = g
  BY <1>1, <1>2, PassGoes
<1>8. task.persistent
  <2>1. Needs(f.at) # {}
    BY <1>4 DEF Needs
  <2> QED BY <1>2, <2>1, ConsumableNeeds
<1> HIDE DEF e
<1>9. Counted(a.outstanding) \subseteq Counted(task.outstanding) \ {k}
  <2> HIDE DEF task
  <2>1. task \in CleanTask /\ task.outstanding[k] <= 1 /\ task.outstanding[k] # 0
    BY <1>3, <1>4, <1>8 DEF SimpleTask, Simple, Counted
  <2>2. task.outstanding[k] \in Nat
    BY <1>3, <2>1 DEF CleanTask, Task, Count
  <2>3. /\ Less(task, k) \in CleanTask
        /\ Less(task, k).outstanding[k] = task.outstanding[k] - 1
        /\ \A l \in Keys : l # k => Less(task, k).outstanding[l] = task.outstanding[l]
    BY <1>4, <2>1, LessLeaves
  <2>4. a.outstanding = Less(task, k).outstanding
    BY <1>3, <1>5, <2>3, ArriveLeaves
  <2>5. task.outstanding[k] - 1 = 0
    BY <2>1, <2>2
  <2> HIDE DEF a
  <2> QED BY <2>3, <2>4, <2>5 DEF Counted
<1> HIDE DEF a
<1>10. ASSUME NEW i \in DOMAIN registeredTasks
       PROVE  Needs(i)' \subseteq IF i = f.at THEN Needs(i) \ {k} ELSE Needs(i)
  <2>1. registeredTasks'[i] = IF i = f.at THEN a ELSE registeredTasks[i]
    BY <1>1, <1>2
  <2> SUFFICES ASSUME NEW l \in Counted(registeredTasks'[i].outstanding), IsStored(l)'
               PROVE  l \in IF i = f.at THEN Needs(i) \ {k} ELSE Needs(i)
    BY DEF Needs, Counted
  <2>2. IsStored(l)
    <3>1. l \in Keys
      BY DEF Counted
    <3> QED BY <1>5, <3>1, LessStored
  <2>3. CASE i = f.at
    BY <1>9, <2>1, <2>2, <2>3 DEF Needs
  <2>4. CASE i # f.at
    BY <2>1, <2>2, <2>4 DEF Needs
  <2> QED BY <2>3, <2>4
<1>11. DOMAIN registeredTasks' = DOMAIN registeredTasks
  BY <1>1
<1> SUFFICES ASSUME NEW i \in DOMAIN registeredTasks, Needs(i)' # {}, ~PassAhead'
             PROVE  PassReaches(t, i)'
  BY <1>11 DEF Sated
<1>12. PICK u \in Threads : PassReaches(u, i)
  <2>1. Needs(i) # {}
    BY <1>10
  <2> QED BY <1>7, <2>1 DEF Sated
<1>13. u = t
  BY <1>2, <1>12, OnePass DEF PassReaches
<1>14. i = f.at /\ Needs(i) \subseteq f.keys => Needs(i)' \subseteq x
  BY <1>10
<1> QED BY <1>2, <1>6, <1>7, <1>12, <1>13, <1>14 DEF PassReaches, In

-----------------------------------------------------------------------------
(* The steps of the other calls                                            *)

\* A pass that is still to begin will look at every task.
LEMMA SatedAhead ==
  ASSUME PassAhead'
  PROVE  Sated'
BY DEF Sated

\* A step that changes no task and puts nothing into the store.
LEMMA SatedQuiet ==
  ASSUME Sated, \A t \in Threads : PassKept(t), registeredTasks' = registeredTasks,
         Queued(outstandingEvents') \subseteq Queued(outstandingEvents)
  PROVE  Sated'
<1>1. ASSUME NEW i \in DOMAIN registeredTasks PROVE Needs(i)' \subseteq Needs(i)
  <2> SUFFICES ASSUME NEW k \in Counted(registeredTasks[i].outstanding), IsStored(k)' PROVE k \in Needs(i)
    BY DEF Needs, Counted
  <2>1. k \in Keys
    BY DEF Counted
  <2> QED BY <2>1, LessStored DEF Needs
<1> QED BY <1>1, SatedStep

\* An event is stored only if no registered task needs it.
LEMMA StoreEventSated ==
  ASSUME Sound, Sated, \A t \in Threads : PassKept(t), NEW t \in Threads, StoreEvent(t)
  PROVE  Sated'
<1> DEFINE e == Top(t).event
<1>1. e \in Event
  BY RegisteringTypes DEF StoreEvent, Sound
<1>2. /\ registeredTasks' = registeredTasks /\ Matching(registeredTasks, e.key) = {}
      /\ outstandingEvents' = Push(outstandingEvents, e.key, e)
  BY DEF StoreEvent
<1> HIDE DEF e
<1>3. Queued(outstandingEvents') = Queued(outstandingEvents) \union {e.key}
  BY <1>1, <1>2, StorePush DEF Sound
<1>4. ASSUME NEW i \in DOMAIN registeredTasks PROVE Needs(i)' \subseteq Needs(i)
  <2> SUFFICES ASSUME NEW k \in Counted(registeredTasks[i].outstanding), IsStored(k)' PROVE k \in Needs(i)
    BY <1>2 DEF Needs, Counted
  <2>1. k \in Keys
    BY DEF Counted
  <2>2. PICK l \in Queued(outstandingEvents') : Equivalent(l, k)
    BY <2>1, StoredIffThen
  <2>3. l # e.key
    <3> SUFFICES ASSUME l = e.key PROVE FALSE
      OBVIOUS
    <3>1. Equivalent(k, e.key)
      BY <2>2 DEF Equivalent
    <3>2. i \in Matching(registeredTasks, e.key)
      BY <3>1 DEF Matching, Depends
    <3> QED BY <1>2, <3>2
  <2>4. IsStored(k)
    BY <1>3, <2>1, <2>2, <2>3, StoredIff
  <2> QED BY <2>4 DEF Needs
<1> QED BY <1>2, <1>4, SatedStep

\* An event that is matched makes a task fire, which announces a pass, or
\* leaves one that needs less.
LEMMA MatchRegisteredSated ==
  ASSUME Sound, Sated, \A t \in Threads : PassKept(t), NEW t \in Threads, MatchRegistered(t)
  PROVE  Sated'
<1> DEFINE e == Top(t).event  j == LeastIndex(Matching(registeredTasks, e.key))
<1>1. PICK fs \in Seq(Frame) :
        /\ Replace(t, fs)
        /\ \/ ConsumeFrame \in ToSet(fs)
           \/ registeredTasks' = registeredTasks
           \/ registeredTasks' = [registeredTasks EXCEPT ![j] = Satisfy(registeredTasks[j], e.key, e)]
  <2>1. MatchRegistered(t) \/ MatchPaused(t)
    OBVIOUS
  <2> QED BY <2>1, MatchFrames
<1>2. /\ e \in Event /\ todo[t] # <<>> /\ Stacks /\ outstandingEvents' = outstandingEvents
      /\ Matching(registeredTasks, e.key) # {} /\ registeredTasks \in Seq(CleanTask)
  BY RegisteringTypes DEF MatchRegistered, Sound, TaskLists
<1>3. CASE ConsumeFrame \in ToSet(fs)
  <2>1. ToSet(todo'[t]) = ToSet(fs) \union ToSet(Tail(todo[t]))
    BY <1>1, <1>2, FramesLeft
  <2>2. PassAhead'
    BY <1>3, <2>1 DEF PassAhead
  <2> QED BY <2>2, SatedAhead
<1>4. CASE registeredTasks' = registeredTasks
  BY <1>2, <1>4, SatedQuiet
<1>5. CASE registeredTasks' = [registeredTasks EXCEPT ![j] = Satisfy(registeredTasks[j], e.key, e)]
  <2>1. /\ j \in 1 .. Len(registeredTasks) /\ registeredTasks[j] \in CleanTask
        /\ Depends(registeredTasks[j].outstanding, e.key) /\ e.key \in Keys
    <3>1. e.key \in Keys
      BY <1>2, KeysInt DEF Event
    <3> QED BY <1>2, <3>1, MatchingTask
  <2> DEFINE a == Satisfy(registeredTasks[j], e.key, e)
  <2> HIDE DEF j, e
  <2>2. Counted(a.outstanding) \subseteq Counted(registeredTasks[j].outstanding)
    BY <1>2, <2>1, SatisfyKeeps
  <2> HIDE DEF a
  <2>3. registeredTasks' = [registeredTasks EXCEPT ![j] = a]
    BY <1>5 DEF a
  <2>4. ASSUME NEW i \in DOMAIN registeredTasks'
        PROVE  i \in DOMAIN registeredTasks /\ Needs(i)' \subseteq Needs(i)
    <3>1. i \in DOMAIN registeredTasks /\ registeredTasks'[i] = IF i = j THEN a ELSE registeredTasks[i]
      BY <1>2, <2>1, <2>3
    <3>2. Counted(registeredTasks'[i].outstanding) \subseteq Counted(registeredTasks[i].outstanding)
      BY <2>2, <3>1
    <3>3. \A k : IsStored(k)' = IsStored(k)
      BY <1>2 DEF IsStored, Store
    <3>4. Counted(registeredTasks[i].outstanding)' = Counted(registeredTasks'[i].outstanding)
      BY DEF Counted
    <3> QED BY <3>1, <3>2, <3>3, <3>4 DEF Needs
  <2> QED BY <2>4, SatedStep
<1> QED BY <1>1, <1>3, <1>4, <1>5

\* A task that is registered has what was stored for it; one that has it all
\* runs, and announces a pass.
LEMMA FinishRegisterTaskSated ==
  ASSUME Sound, Matched, Sated, \A t \in Threads : PassKept(t), NEW t \in Threads, FinishRegisterTask(t)
  PROVE  Sated'
<1> DEFINE task == Top(t).task
<1>1. /\ In(t, "gather") /\ todo[t] # <<>> /\ Top(t).op = "gather" /\ outstandingEvents' = outstandingEvents
      /\ Stacks /\ registeredTasks \in Seq(CleanTask)
  BY DEF FinishRegisterTask, Gathered, At, In, Sound, TaskLists
<1>2. task \in CleanTask /\ task \in Task /\ Served(task, outstandingEvents)
  BY <1>1, TopTypes DEF Sound, Matched, PatientFrames, CleanTask, Attended
<1>3. CASE Complete(task)
  <2>1. Replace(t, <<StartFrame(task), ConsumeFrame>>)
    BY <1>3 DEF FinishRegisterTask
  <2> HIDE DEF task
  <2> DEFINE b == StartFrame(task)  c == ConsumeFrame
  <2>2. b \in Frame /\ c \in Frame
    BY <1>2 DEF StartFrame, ConsumeFrame, Frame
  <2> HIDE DEF b, c
  <2>3. <<b, c>> \in Seq(Frame) /\ c \in ToSet(<<b, c>>)
    <3>1. <<b, c>> \in Seq(Frame) /\ 2 \in DOMAIN <<b, c>> /\ <<b, c>>[2] = c
      BY <2>2
    <3> QED BY <3>1 DEF ToSet
  <2>4. ToSet(todo'[t]) = ToSet(<<b, c>>) \union ToSet(Tail(todo[t]))
    BY <1>1, <2>1, <2>3, FramesLeft DEF b, c
  <2>5. PassAhead'
    BY <2>3, <2>4 DEF PassAhead, c
  <2> QED BY <2>5, SatedAhead
<1>4. CASE ~Complete(task)
  <2>1. registeredTasks' = Append(registeredTasks, task)
    BY <1>4 DEF FinishRegisterTask
  <2> HIDE DEF task
  <2>2. \A k : IsStored(k)' = IsStored(k)
    BY <1>1 DEF IsStored, Store
  <2>3. PICK n : n = Len(registeredTasks) + 1
    OBVIOUS
  <2>4. /\ DOMAIN registeredTasks' = DOMAIN registeredTasks \union {n} /\ registeredTasks'[n] = task
        /\ \A i \in DOMAIN registeredTasks : registeredTasks'[i] = registeredTasks[i]
    BY <1>1, <1>2, <2>1, <2>3
  <2>5. Needs(n)' = {}
    <3> SUFFICES ASSUME NEW k \in Counted(task.outstanding), IsStored(k) PROVE FALSE
      BY <2>2, <2>4 DEF Needs, Counted
    <3>1. k \in Keys
      BY DEF Counted
    <3>2. PICK l \in Queued(outstandingEvents) : Equivalent(l, k)
      BY <3>1, StoredIff
    <3>3. Equivalent(k, l)
      BY <3>2 DEF Equivalent
    <3> QED BY <1>2, <3>2, <3>3 DEF Served, Depends
  <2>6. \A i \in DOMAIN registeredTasks : Needs(i)' = Needs(i)
    BY <2>2, <2>4 DEF Needs, Counted
  <2> QED BY <2>4, <2>5, <2>6, SatedStep
<1> QED BY <1>3, <1>4

\* removeTask finds the mutex free, when no pass is under way: no task has
\* anything to take, unless a pass is still to begin.
LEMMA RemoveTaskSated ==
  ASSUME Sound, Sated, NEW t \in Threads, RemoveTask(t)
  PROVE  Sated'
<1>1. UNCHANGED <<todo, outstandingEvents>> /\ Free /\ registeredTasks \in Seq(CleanTask)
  BY DEF RemoveTask, Sound, TaskLists
<1>2. PICK name : \/ registeredTasks' = registeredTasks
                  \/ /\ Named(name) # {}
                     /\ registeredTasks' = RemoveAt(registeredTasks, LeastIndex(Named(name)))
  BY DEF RemoveTask
<1>3. PassAhead' = PassAhead
  BY <1>1 DEF PassAhead
<1>4. ASSUME NEW u \in Threads, NEW i \in DOMAIN registeredTasks PROVE ~PassReaches(u, i)
  BY <1>1, PassTypes, ThreadsAssumption DEF PassReaches, Free, Holds
<1>5. CASE ~PassAhead
  <2> DEFINE S == {task \in CleanTask : \A k \in Counted(task.outstanding) : ~IsStored(k)}
  <2>1. registeredTasks \in Seq(S)
    <3>1. \A i \in DOMAIN registeredTasks : registeredTasks[i] \in S
      BY <1>1, <1>4, <1>5 DEF Sated, Needs
    <3> HIDE DEF S
    <3> QED BY <1>1, <3>1
  <2>2. Named(name) # {} => LeastIndex(Named(name)) \in 1 .. Len(registeredTasks)
    BY <1>1, NamedTask
  <2>3. registeredTasks' \in Seq(S)
    <3> HIDE DEF S
    <3> QED BY <1>2, <2>1, <2>2, ListKept
  <2>4. ASSUME NEW i \in DOMAIN registeredTasks' PROVE Needs(i)' = {}
    <3>1. registeredTasks'[i] \in S
      BY <2>3
    <3>2. \A k : IsStored(k)' = IsStored(k)
      BY <1>1 DEF IsStored, Store
    <3> QED BY <3>1, <3>2 DEF Needs, Counted
  <2> QED BY <2>4 DEF Sated
<1> QED BY <1>3, <1>5 DEF Sated

\* What a step does to the store.
LEMMA StoreChange ==
  ASSUME NoGreedyBatches, Sound, Numbered, Modest, [Next]_vars
  PROVE  \/ Queued(outstandingEvents') \subseteq Queued(outstandingEvents)
         \/ \E t \in Threads : StoreEvent(t)
<1>1. \/ outstandingEvents' = outstandingEvents
      \/ \E k \in Keys : IsStored(k) /\ TakeFirst(k)
      \/ \E t \in Threads : StoreEvent(t)
  <2>1. \/ Quiet
        \/ \E t \in Threads : MatchRegistered(t) \/ MatchPaused(t)
        \/ \E t \in Threads : StoreEvent(t)
        \/ \E t \in Threads : \E new : Arrival(t, new)
    BY OrderSteps
  <2>2. ASSUME NEW t \in Threads, MatchRegistered(t) \/ MatchPaused(t)
        PROVE  outstandingEvents' = outstandingEvents
    BY <2>2 DEF MatchRegistered, MatchPaused
  <2> QED BY <2>1, <2>2 DEF Quiet, Arrival
<1>2. ASSUME NEW k \in Keys, IsStored(k), TakeFirst(k)
      PROVE  Queued(outstandingEvents') \subseteq Queued(outstandingEvents)
  BY <1>2, StoreTake DEF Sound, Plain
<1> QED BY <1>1, <1>2

\* The steps that change the list of registered tasks.
LEMMA ListChange ==
  ASSUME Sound, Modest, [Next]_vars
  PROVE  \/ registeredTasks' = registeredTasks
         \/ \E t \in Threads : RemoveTask(t) \/ FinishRegisterTask(t) \/ MatchRegistered(t) \/ Consumes(t)
<1>1. ASSUME NEW t \in Threads, GreedyTake(t) \/ GreedyNext(t) PROVE registeredTasks' = registeredTasks
  BY <1>1, GreedySteps
<1>2. ASSUME NEW t \in Threads, Call(t), ~RemoveTask(t) PROVE registeredTasks' = registeredTasks
  BY <1>2 DEF Call, RegisterTask, PauseTask, Gather, RetrieveAny, RegisterEvent, RegisterEvents
<1>3. ASSUME NEW t \in Threads, Step(t), ~FinishRegisterTask(t), ~MatchRegistered(t), ~Consumes(t)
      PROVE  registeredTasks' = registeredTasks
  BY <1>1, <1>3 DEF Step, Consumes, GatherStored, GatherMissing, FinishPauseTask, MatchPaused, StoreEvent,
              FinishBatch, ReadyToRunTask, MarkThreadResume, Resumed, RetrieveNext
<1>4. RunTask \/ UNCHANGED vars => registeredTasks' = registeredTasks
  BY DEF RunTask, vars
<1> QED BY <1>2, <1>3, <1>4 DEF Next, Stopped

\* No step leaves anything in the store that a task needs and no pass finds.
LEMMA StepSated ==
  ASSUME NoGreedyBatches, Sound, Numbered, Modest, Matched, SimpleTasks, Sated, [Next]_vars
  PROVE  Sated'
<1>1. CASE \E t \in Threads : Consumes(t)
  BY <1>1, ConsumeBeginSated, ConsumeStoredSated, ConsumeNextSated, ConsumeEndSated DEF Consumes
<1>2. CASE ~\E t \in Threads : Consumes(t)
  <2>1. \A t \in Threads : PassKept(t)
    BY <1>2, StepLeaves
  <2>2. CASE \E t \in Threads : RemoveTask(t) \/ FinishRegisterTask(t) \/ MatchRegistered(t) \/ StoreEvent(t)
    BY <2>1, <2>2, RemoveTaskSated, FinishRegisterTaskSated, MatchRegisteredSated, StoreEventSated
  <2>3. CASE ~\E t \in Threads : RemoveTask(t) \/ FinishRegisterTask(t) \/ MatchRegistered(t) \/ StoreEvent(t)
    <3>1. registeredTasks' = registeredTasks
      BY <1>2, <2>3, ListChange
    <3>2. Queued(outstandingEvents') \subseteq Queued(outstandingEvents)
      BY <2>3, StoreChange
    <3> QED BY <2>1, <3>1, <3>2, SatedQuiet
  <2> QED BY <2>2, <2>3
<1> QED BY <1>1, <1>2

\* Nothing waits and nothing is stored at the start.
LEMMA InitSated == Init => SimpleTasks /\ Sated
<1>1. <<>> \in Seq(SimpleTask)
  OBVIOUS
<1> QED BY <1>1 DEF Init, SimpleTasks, Sated, In

\* When no call is under way, no pass is under way or still to begin, and no
\* stored event is one that a task needs.
LEMMA SatedServes ==
  ASSUME Sound, Matched, WaitsOnce, Sated
  PROVE  NoMissedMatch
<1> SUFFICES ASSUME Quiescent,
                    NEW task \in WaitingTasks, NEW k \in Queued(outstandingEvents), Depends(task.outstanding, k)
             PROVE  FALSE
  BY DEF NoMissedMatch
<1>1. ASSUME NEW t \in Threads PROVE ConsumeFrame \notin ToSet(todo[t]) /\ ~In(t, "consume")
  <2>1. CASE todo[t] = <<>>
    BY <2>1, Parts DEF In
  <2>2. CASE In(t, "paused")
    <3>1. todo[t] # <<>> /\ Top(t).op = "paused" /\ Stacks
      BY <2>2 DEF In, Sound
    <3>2. Len(todo[t]) = 1 /\ todo[t] \in Seq(Frame)
      BY <3>1, TopTypes DEF Lonely, StackOK
    <3>3. todo[t] = <<Top(t)>>
      BY <3>1, <3>2 DEF Top
    <3>4. ToSet(todo[t]) = {Top(t)}
      BY <3>3, Parts
    <3>5. ConsumeFrame.op = "consume"
      BY DEF ConsumeFrame
    <3> QED BY <3>1, <3>4, <3>5 DEF In
  <2> QED BY <2>1, <2>2 DEF Quiescent
<1>2. \A i \in DOMAIN registeredTasks : Needs(i) = {}
  BY <1>1 DEF Sated, PassAhead, PassReaches
<1>3. /\ registeredTasks \in Seq(CleanTask) /\ pausedTasks \in Seq(CleanTask)
  BY DEF Sound, TaskLists
<1>4. CASE task \in ToSet(pausedTasks)
  <2>1. PICK i \in DOMAIN pausedTasks : task = pausedTasks[i]
    BY <1>4 DEF ToSet
  <2> QED BY <2>1 DEF Matched, AllPatient, Patient, WaitsOnce
<1>5. CASE task \in ToSet(registeredTasks)
  <2>1. PICK i \in DOMAIN registeredTasks : task = registeredTasks[i]
    BY <1>5 DEF ToSet
  <2>2. PICK l \in Counted(task.outstanding) : Equivalent(l, k)
    BY DEF Depends
  <2>3. l \in Keys /\ Equivalent(k, l)
    BY <2>2 DEF Counted, Equivalent
  <2>4. IsStored(l)
    BY <2>3, StoredIff
  <2> QED BY <1>2, <2>1, <2>2, <2>4 DEF Needs
<1> QED BY <1>4, <1>5 DEF WaitingTasks

\* Once no call is under way, no stored event is one that a registered or a
\* paused task still waits for (consumeEventsByPersistentTasks goes over the
\* persistent tasks, again and again until none fires, whenever a task has been
\* started), if batches do not meet greedy tasks and no persistent task has two
\* dependencies that compare equal: such a task may be given its events in a
\* way that leaves one in the store.
THEOREM StoredEventsServed ==
  ASSUME NoGreedyBatches, PersistentTasksDistinct
  PROVE  Spec => []NoMissedMatch
<1> DEFINE I == Sound /\ Numbered /\ Modest /\ Matched /\ WaitsOnce /\ SimpleTasks /\ Sated
<1>1. Init => I
  BY InitSound, InitConserved, InitLasting, InitMatched, InitInTurn, InitSated
<1>2. I /\ [Next]_vars => I'
  <2> SUFFICES ASSUME I, [Next]_vars PROVE I'
    OBVIOUS
  <2>1. Sound' /\ Numbered' /\ Modest' /\ Matched' /\ WaitsOnce'
    BY StepSound, NumberedSteps, OrderSteps, StepMatched, StepWaitsOnce
  <2>2. SimpleTasks' /\ Sated'
    BY StepSimple, StepSated
  <2> QED BY <2>1, <2>2
<1>3. I => NoMissedMatch
  BY SatedServes
<1> QED BY <1>1, <1>2, <1>3, PTL DEF Spec
=============================================================================
