------------------------ MODULE SchedulerConservation ------------------------
(***************************************************************************)
(* Proofs that the scheduler neither loses nor duplicates a transient      *)
(* event: the places where an event may be are counted, and no step        *)
(* changes their number but the one in which the event arrives.  From the  *)
(* count follow the exact counter of the stored events, the type invariant *)
(* and that a process which may terminate has handled its events.          *)
(***************************************************************************)
EXTENDS SchedulerProofs

-----------------------------------------------------------------------------
(* Counting                                                                *)

Bit(b) == IF b THEN 1 ELSE 0

\* Where the elements of a sequence are in S, and how often that is.
Hits(s, S) == {i \in DOMAIN s : s[i] \in S}
Num(s, S) == Cardinality(Hits(s, S))

\* The number of hits is a number.
LEMMA NumNumber ==
  ASSUME NEW T, NEW s \in Seq(T), NEW S
  PROVE  /\ IsFiniteSet(Hits(s, S)) /\ Hits(s, S) \subseteq 1 .. Len(s)
         /\ Num(s, S) \in Nat
         /\ Num(s, S) = 0 <=> \A i \in 1 .. Len(s) : s[i] \notin S
<1>1. Hits(s, S) \in SUBSET (1 .. Len(s)) /\ Hits(s, S) = {i \in 1 .. Len(s) : s[i] \in S}
  BY DEF Hits
<1>2. IsFiniteSet(1 .. Len(s))
  <2>1. 1 \in Int /\ Len(s) \in Int
    OBVIOUS
  <2> QED BY <2>1, FS_Interval
<1>3. IsFiniteSet(Hits(s, S))
  BY <1>1, <1>2, FS_Subset
<1>4. Num(s, S) \in Nat /\ (Num(s, S) = 0 <=> Hits(s, S) = {})
  BY <1>3, FS_CardinalityType, FS_EmptySet DEF Num
<1> QED BY <1>1, <1>3, <1>4

\* As many hits in two sequences as in the one they make up.
LEMMA NumConcat ==
  ASSUME NEW T, NEW a \in Seq(T), NEW b \in Seq(T), NEW S
  PROVE  Num(a \o b, S) = Num(a, S) + Num(b, S)
<1> DEFINE m == Len(a)  n == Len(b)
           A == Hits(a, S)  B == Hits(b, S)  C == {m + i : i \in B}
<1>0. m \in Nat /\ n \in Nat
  OBVIOUS
<1>1. /\ a \o b \in Seq(T) /\ Len(a \o b) = m + n
      /\ \A i \in 1 .. m + n : (a \o b)[i] = IF i <= m THEN a[i] ELSE b[i - m]
  BY ConcatProperties
<1>2. IsFiniteSet(A) /\ A \subseteq 1 .. m /\ IsFiniteSet(B) /\ B \subseteq 1 .. n
  BY NumNumber
<1>3. A = {i \in 1 .. m : a[i] \in S} /\ B = {i \in 1 .. n : b[i] \in S}
  BY DEF Hits
<1>4. Hits(a \o b, S) = {i \in 1 .. m + n : (a \o b)[i] \in S}
  BY <1>1 DEF Hits
<1> HIDE DEF A, B, m, n
<1>5. Hits(a \o b, S) = A \union C
  <2>1. ASSUME NEW i \in 1 .. m + n, (a \o b)[i] \in S PROVE i \in A \union C
    <3>1. CASE i <= m
      BY <3>1, <2>1, <1>0, <1>1, <1>3
    <3>2. CASE ~(i <= m)
      <4>1. i - m \in 1 .. n /\ b[i - m] \in S
        BY <3>2, <2>1, <1>0, <1>1
      <4>2. i - m \in B /\ i = m + (i - m)
        BY <4>1, <1>0, <1>3
      <4> QED BY <4>2
    <3> QED BY <3>1, <3>2
  <2>2. ASSUME NEW i \in A PROVE i \in 1 .. m + n /\ (a \o b)[i] \in S
    BY <1>0, <1>1, <1>3
  <2>3. ASSUME NEW j \in B PROVE m + j \in 1 .. m + n /\ (a \o b)[m + j] \in S
    <3>1. j \in 1 .. n /\ b[j] \in S
      BY <1>3
    <3>2. m + j \in 1 .. m + n /\ ~(m + j <= m) /\ (m + j) - m = j
      BY <3>1, <1>0
    <3> QED BY <3>1, <3>2, <1>1
  <2> QED BY <1>4, <2>1, <2>2, <2>3
<1>6. IsFiniteSet(C) /\ Cardinality(C) = Cardinality(B)
  <2> DEFINE g == [i \in B |-> m + i]
  <2>1. g \in Bijection(B, C)
    <3>1. \A i, j \in B : m + i = m + j => i = j
      BY <1>0, <1>2
    <3> QED BY <3>1 DEF Bijection, Injection, Surjection, IsInjective
  <2> HIDE DEF g
  <2>2. ExistsBijection(B, C)
    BY <2>1 DEF ExistsBijection
  <2> HIDE DEF C
  <2> QED BY <2>2, <1>2, FS_Bijection
<1>7. A \cap C = {}
  BY <1>0, <1>2
<1> HIDE DEF C
<1>8. Cardinality(A \union C) = Cardinality(A) + Cardinality(C) - Cardinality(A \cap C)
  BY <1>2, <1>6, FS_Union
<1>9. Cardinality(A \cap C) = 0
  BY <1>7, FS_EmptySet
<1>10. Cardinality(A) \in Nat /\ Cardinality(C) \in Nat
  BY <1>2, <1>6, FS_CardinalityType
<1> QED BY <1>5, <1>6, <1>8, <1>9, <1>10 DEF Num, A, B

\* Hits in sequences of no or one element.
LEMMA NumShort ==
  ASSUME NEW S
  PROVE  Num(<<>>, S) = 0 /\ \A x : Num(<<x>>, S) = Bit(x \in S)
<1>1. Hits(<<>>, S) = {}
  BY DEF Hits
<1>2. ASSUME NEW x PROVE Num(<<x>>, S) = Bit(x \in S)
  <2>1. DOMAIN <<x>> = {1} /\ <<x>>[1] = x
    OBVIOUS
  <2>2. Hits(<<x>>, S) = IF x \in S THEN {1} ELSE {}
    BY <2>1 DEF Hits
  <2> QED BY <2>2, FS_EmptySet, FS_Singleton DEF Num, Bit
<1> QED BY <1>1, <1>2, FS_EmptySet DEF Num

\* How many hits an element more, an element less or another element makes.
LEMMA NumAppend ==
  ASSUME NEW T, NEW s \in Seq(T), NEW x \in T, NEW S
  PROVE  Num(Append(s, x), S) = Num(s, S) + Bit(x \in S)
<1>1. Append(s, x) = s \o <<x>> /\ <<x>> \in Seq(T)
  OBVIOUS
<1>2. Num(<<x>>, S) = Bit(x \in S)
  BY NumShort
<1> DEFINE r == <<x>>
<1>3. r \in Seq(T)
  BY <1>1
<1> HIDE DEF r
<1>4. Num(s \o r, S) = Num(s, S) + Num(r, S)
  BY <1>3, NumConcat
<1> QED BY <1>1, <1>2, <1>4 DEF r

\* Hits in a sequence, by its head and its tail.
LEMMA NumTail ==
  ASSUME NEW T, NEW s \in Seq(T), s # <<>>, NEW S
  PROVE  /\ Num(s, S) = Bit(Head(s) \in S) + Num(Tail(s), S)
         /\ Tail(s) \in Seq(T) /\ Num(Tail(s), S) \in Nat
<1>1. Tail(s) \in Seq(T) /\ <<Head(s)>> \in Seq(T) /\ s = <<Head(s)>> \o Tail(s)
  OBVIOUS
<1> DEFINE h == <<Head(s)>>  r == Tail(s)
<1>3. Num(h, S) = Bit(Head(s) \in S)
  BY NumShort
<1>a. h \in Seq(T) /\ r \in Seq(T) /\ s = h \o r
  BY <1>1
<1> HIDE DEF h, r
<1>b. Num(h \o r, S) = Num(h, S) + Num(r, S)
  BY <1>a, NumConcat
<1>2. Num(s, S) = Num(h, S) + Num(r, S)
  BY <1>a, <1>b
<1>4. Num(r, S) \in Nat
  BY <1>a, NumNumber
<1> QED BY <1>1, <1>2, <1>3, <1>4 DEF r

\* Hits after an element is removed.
LEMMA NumRemove ==
  ASSUME NEW T, NEW s \in Seq(T), NEW i \in 1 .. Len(s), NEW S
  PROVE  /\ Num(RemoveAt(s, i), S) = Num(s, S) - Bit(s[i] \in S)
         /\ Num(RemoveAt(s, i), S) \in Nat
<1> DEFINE a == SubSeq(s, 1, i - 1)
           b == SubSeq(s, i + 1, Len(s))
<1>0. Len(s) \in Nat /\ i \in Nat /\ 1 <= i /\ i <= Len(s)
  OBVIOUS
<1>1. a \in Seq(T) /\ Len(a) = i - 1 /\ \A j \in 1 .. i - 1 : a[j] = s[j]
  OBVIOUS
<1>2. /\ b \in Seq(T) /\ Len(b) = Len(s) - i
      /\ \A j \in 1 .. Len(s) - i : b[j] = s[i + j]
  OBVIOUS
<1>3. RemoveAt(s, i) = a \o b
  BY DEF RemoveAt
<1> HIDE DEF a, b
<1>4. ASSUME NEW x \in T, NEW r \in Seq(T), Len(r) = Len(s), r[i] = x,
             \A j \in 1 .. Len(s) : j # i => r[j] = s[j]
      PROVE  r = a \o (<<x>> \o b)
  <2>1. /\ <<x>> \o b \in Seq(T) /\ Len(<<x>> \o b) = 1 + Len(b)
        /\ \A j \in 1 .. 1 + Len(b) : (<<x>> \o b)[j] = IF j <= 1 THEN x ELSE b[j - 1]
    <3>1. <<x>> \in Seq(T) /\ Len(<<x>>) = 1 /\ <<x>>[1] = x
      OBVIOUS
    <3>2. /\ <<x>> \o b \in Seq(T) /\ Len(<<x>> \o b) = Len(<<x>>) + Len(b)
          /\ \A j \in 1 .. Len(<<x>>) + Len(b) :
                (<<x>> \o b)[j] = IF j <= Len(<<x>>) THEN <<x>>[j] ELSE b[j - Len(<<x>>)]
      BY <3>1, <1>2, ConcatProperties
    <3>3. \A j \in 1 .. 1 + Len(b) : j <= 1 => j = 1
      OBVIOUS
    <3> QED BY <3>1, <3>2, <3>3
  <2> DEFINE c == <<x>> \o b
  <2> HIDE DEF c
  <2>2. /\ a \o c \in Seq(T) /\ Len(a \o c) = Len(a) + Len(c)
        /\ \A j \in 1 .. Len(a) + Len(c) : (a \o c)[j] = IF j <= Len(a) THEN a[j] ELSE c[j - Len(a)]
    BY <2>1, <1>1, ConcatProperties DEF c
  <2>3. Len(c) = 1 + (Len(s) - i) /\ Len(a) + Len(c) = Len(s)
    BY <1>0, <1>1, <1>2, <2>1 DEF c
  <2>4. \A j \in 1 .. 1 + Len(b) : c[j] = IF j <= 1 THEN x ELSE b[j - 1]
    BY <2>1 DEF c
  <2>5. ASSUME NEW j \in 1 .. Len(s) PROVE r[j] = (a \o c)[j]
    <3>1. CASE j < i
      <4>1. j <= Len(a) /\ j \in 1 .. i - 1 /\ j # i
        BY <1>0, <1>1, <3>1
      <4> QED BY <4>1, <1>1, <1>4, <2>2, <2>3
    <3>2. CASE j = i
      <4>1. ~(j <= Len(a)) /\ j - Len(a) = 1 /\ 1 \in 1 .. 1 + Len(b)
        BY <1>0, <1>1, <1>2, <3>2
      <4> QED BY <4>1, <3>2, <1>4, <2>2, <2>3, <2>4
    <3>3. CASE j > i
      <4>1. /\ ~(j <= Len(a)) /\ j - Len(a) = j - i + 1 /\ j - i + 1 \in 1 .. 1 + Len(b)
            /\ ~(j - i + 1 <= 1) /\ (j - i + 1) - 1 = j - i /\ j - i \in 1 .. Len(s) - i
            /\ i + (j - i) = j /\ j # i
        BY <1>0, <1>1, <1>2, <3>3
      <4>2. (a \o c)[j] = b[j - i]
        BY <4>1, <2>2, <2>3, <2>4
      <4> QED BY <4>1, <4>2, <1>2, <1>4
    <3>4. j < i \/ j = i \/ j > i
      BY <1>0
    <3> QED BY <3>1, <3>2, <3>3, <3>4
  <2>6. Len(r) = Len(a \o c)
    BY <1>4, <2>2, <2>3
  <2> QED BY <1>4, <2>2, <2>5, <2>6, SeqEqual DEF c
<1>5. ASSUME NEW x \in T
      PROVE  Num(a \o (<<x>> \o b), S) = Num(a, S) + Bit(x \in S) + Num(b, S)
  <2>1. <<x>> \in Seq(T)
    OBVIOUS
  <2>2. <<x>> \o b \in Seq(T)
    BY <2>1, <1>2, ConcatProperties
  <2>3. Num(<<x>> \o b, S) = Num(<<x>>, S) + Num(b, S)
    BY <2>1, <1>2, NumConcat
  <2> DEFINE c == <<x>> \o b
  <2>4. c \in Seq(T)
    BY <2>2
  <2> HIDE DEF c
  <2>5. Num(a \o c, S) = Num(a, S) + Num(c, S)
    BY <2>4, <1>1, NumConcat
  <2>6. Num(<<x>>, S) = Bit(x \in S)
    BY NumShort
  <2>7. Num(a, S) \in Nat /\ Num(b, S) \in Nat /\ Bit(x \in S) \in Nat
    BY <1>1, <1>2, NumNumber DEF Bit
  <2> QED BY <2>3, <2>5, <2>6, <2>7 DEF c
<1>6. s[i] \in T
  OBVIOUS
<1>7. s = a \o (<<s[i]>> \o b)
  BY <1>4, <1>6
<1>8. Num(s, S) = Num(a, S) + Bit(s[i] \in S) + Num(b, S)
  BY <1>5, <1>6, <1>7
<1>9. Num(a \o b, S) = Num(a, S) + Num(b, S)
  BY <1>1, <1>2, NumConcat
<1>10. Num(a, S) \in Nat /\ Num(b, S) \in Nat /\ Bit(s[i] \in S) \in Nat
  BY <1>1, <1>2, NumNumber DEF Bit
<1> QED BY <1>3, <1>8, <1>9, <1>10

\* r is s but for the i-th element, which is x.
Changed(r, s, i, x) == r = [s EXCEPT ![i] = x]

\* Hits after an element is replaced.
LEMMA NumChanged ==
  ASSUME NEW T, NEW s \in Seq(T), NEW i \in 1 .. Len(s), NEW x \in T,
         NEW r, Changed(r, s, i, x), NEW S
  PROVE  r \in Seq(T) /\ Num(r, S) = Num(s, S) - Bit(s[i] \in S) + Bit(x \in S)
<1>1. /\ r \in Seq(T) /\ Len(r) = Len(s) /\ r[i] = x
      /\ \A j \in 1 .. Len(s) : j # i => r[j] = s[j]
  BY ExceptSeq DEF Changed
<1>2. /\ RemoveAt(r, i) \in Seq(T) /\ Len(RemoveAt(r, i)) = Len(s) - 1
      /\ \A j \in 1 .. Len(s) - 1 : RemoveAt(r, i)[j] = IF j < i THEN r[j] ELSE r[j + 1]
  BY <1>1, Removal
<1>3. /\ RemoveAt(s, i) \in Seq(T) /\ Len(RemoveAt(s, i)) = Len(s) - 1
      /\ \A j \in 1 .. Len(s) - 1 : RemoveAt(s, i)[j] = IF j < i THEN s[j] ELSE s[j + 1]
  BY Removal
<1> DEFINE a == RemoveAt(r, i)  b == RemoveAt(s, i)
<1>4. ASSUME NEW j \in 1 .. Len(s) - 1 PROVE a[j] = b[j]
  <2>1. /\ j \in 1 .. Len(s) /\ j + 1 \in 1 .. Len(s)
        /\ j < i => j # i
        /\ ~(j < i) => j + 1 # i
    OBVIOUS
  <2> QED BY <2>1, <1>1, <1>2, <1>3
<1>5. RemoveAt(r, i) = RemoveAt(s, i)
  <2>1. a \in Seq(T) /\ b \in Seq(T) /\ Len(a) = Len(b) /\ \A j \in 1 .. Len(a) : a[j] = b[j]
    BY <1>2, <1>3, <1>4
  <2> HIDE DEF a, b
  <2>2. a = b
    BY <2>1, SeqEqual
  <2> QED BY <2>2 DEF a, b
<1> HIDE DEF a, b
<1>6. /\ Num(RemoveAt(r, i), S) = Num(r, S) - Bit(r[i] \in S)
      /\ Num(RemoveAt(s, i), S) = Num(s, S) - Bit(s[i] \in S)
  BY <1>1, NumRemove
<1>7. /\ Num(r, S) \in Nat /\ Num(s, S) \in Nat
      /\ Bit(r[i] \in S) \in Nat /\ Bit(s[i] \in S) \in Nat
  BY <1>1, NumNumber DEF Bit
<1>8. Num(r, S) = Num(s, S) - Bit(s[i] \in S) + Bit(r[i] \in S)
  BY <1>5, <1>6, <1>7
<1> QED BY <1>1, <1>8

-----------------------------------------------------------------------------
(* The places of an event                                                  *)

\* The tasks and the frames of calls that hold an event.
Holders(e) == {task \in Task : e \in ArrivedEvents(task)}
Keepers(e) == {f \in Frame : f.op # "batch" /\ e \in FrameEvents(f)}

\* A batch counts as the frames it will leave behind.
Unfolded(s) == IF s # <<>> /\ Head(s).op = "batch" THEN BatchFrames(Head(s)) ELSE s
Held(s, e) == Hits(Unfolded(s), Keepers(e))
CallsIn(f, e) == UNION {{t} \X Held(f[t], e) : t \in Threads}

InQueue(e) == Num(outstandingEvents[e.key], {e})
InRegistered(e) == Num(registeredTasks, Holders(e))
InPaused(e) == Num(pausedTasks, Holders(e))
InReady(e) == Num(ready, Holders(e))
InCalls(e) == Cardinality(CallsIn(todo, e))
InHistory(e) == Bit(e \in delivered) + Bit(e \in removed)

Total(e) ==
  InQueue(e) + InRegistered(e) + InPaused(e) + InReady(e) + InCalls(e) + InHistory(e)

\* A transient event that has been fired is in one place, any other in none.
Balanced(e) == IsFiniteSet(CallsIn(todo, e)) /\ Total(e) = Bit(e \in fired)
Conserved == ~aborted => \A e \in Transient(Event) : Balanced(e)

\* Events are numbered in the order in which they arrive.
Numbered == \A e \in fired : e.id <= Cardinality(fired)

-----------------------------------------------------------------------------
(* The places in the calls                                                 *)

\* Which frames hold an event.
LEMMA KeeperFrames ==
  ASSUME NEW f \in Frame, NEW e
  PROVE  /\ f.op \in {"gather", "start", "resume", "resumed"} =>
              (f \in Keepers(e) <=> e \in ArrivedEvents(f.task))
         /\ f.op = "event" => (f \in Keepers(e) <=> e = f.event)
         /\ f.op \in {"consume", "paused", "retrieve"} => f \notin Keepers(e)
<1>1. CASE f.op \in {"gather", "start", "resume", "resumed"}
  <2>1. FrameEvents(f) = ArrivedEvents(f.task) /\ f.op # "batch"
    BY <1>1 DEF FrameEvents
  <2> QED BY <1>1, <2>1 DEF Keepers
<1>2. CASE f.op = "event"
  <2>1. FrameEvents(f) = {f.event}
    BY <1>2 DEF FrameEvents
  <2> QED BY <1>2, <2>1 DEF Keepers
<1>3. CASE f.op \in {"consume", "paused", "retrieve"}
  <2>1. FrameEvents(f) = {}
    BY <1>3 DEF FrameEvents
  <2> QED BY <1>3, <2>1 DEF Keepers
<1> QED BY <1>1, <1>2, <1>3

\* A batch holds what its tasks and its events are.
LEMMA BatchHeld ==
  ASSUME NEW f \in Frame, f.op = "batch", NEW e
  PROVE  /\ BatchFrames(f) \in Seq(Frame)
         /\ Held(<<f>>, e) = Hits(BatchFrames(f), Keepers(e))
         /\ Num(BatchFrames(f), Keepers(e)) = Num(f.run, Holders(e)) + Num(f.events, {e})
<1>1. f.run \in Seq(Task) /\ f.events \in Seq(Event)
  BY FrameKinds
<1> DEFINE a == [j \in 1 .. Len(f.run) |-> StartFrame(f.run[j])]
           b == [j \in 1 .. Len(f.events) |-> EventFrame(f.events[j])]
<1>2. ASSUME NEW j \in 1 .. Len(f.run)
      PROVE  a[j] \in Frame /\ (a[j] \in Keepers(e) <=> f.run[j] \in Holders(e))
  <2>1. f.run[j] \in Task
    BY <1>1
  <2>2. StartFrame(f.run[j]) \in Frame
    BY <2>1 DEF StartFrame, Frame
  <2>3. StartFrame(f.run[j]).op = "start" /\ StartFrame(f.run[j]).task = f.run[j]
    BY DEF StartFrame
  <2>4. a[j] = StartFrame(f.run[j])
    OBVIOUS
  <2> HIDE DEF a
  <2>5. StartFrame(f.run[j]) \in Keepers(e) <=> e \in ArrivedEvents(f.run[j])
    BY <2>2, <2>3, KeeperFrames
  <2> QED BY <2>1, <2>2, <2>4, <2>5 DEF Holders
<1>3. ASSUME NEW j \in 1 .. Len(f.events)
      PROVE  b[j] \in Frame /\ (b[j] \in Keepers(e) <=> f.events[j] \in {e})
  <2>1. f.events[j] \in Event
    BY <1>1
  <2>2. EventFrame(f.events[j]) \in Frame
    BY <2>1 DEF EventFrame, Frame
  <2>3. EventFrame(f.events[j]).op = "event" /\ EventFrame(f.events[j]).event = f.events[j]
    BY DEF EventFrame
  <2>4. b[j] = EventFrame(f.events[j])
    OBVIOUS
  <2> HIDE DEF b
  <2>5. EventFrame(f.events[j]) \in Keepers(e) <=> e = f.events[j]
    BY <2>2, <2>3, KeeperFrames
  <2> QED BY <2>2, <2>4, <2>5
<1>4. Len(f.run) \in Nat /\ Len(f.events) \in Nat
  BY <1>1
<1>5. a \in Seq(Frame) /\ Hits(a, Keepers(e)) = Hits(f.run, Holders(e))
  <2>1. DOMAIN a = 1 .. Len(f.run) /\ DOMAIN f.run = 1 .. Len(f.run)
    BY <1>1
  <2>2. a \in [1 .. Len(f.run) -> Frame]
    BY <1>2
  <2>3. a \in Seq(Frame)
    BY <2>2, <1>4
  <2> HIDE DEF a
  <2> QED BY <1>2, <2>1, <2>3 DEF Hits
<1>6. b \in Seq(Frame) /\ Hits(b, Keepers(e)) = Hits(f.events, {e})
  <2>1. DOMAIN b = 1 .. Len(f.events) /\ DOMAIN f.events = 1 .. Len(f.events)
    BY <1>1
  <2>2. b \in [1 .. Len(f.events) -> Frame]
    BY <1>3
  <2>3. b \in Seq(Frame)
    BY <2>2, <1>4
  <2> HIDE DEF b
  <2> QED BY <1>3, <2>1, <2>3 DEF Hits
<1>7. BatchFrames(f) = a \o b
  BY DEF BatchFrames
<1> HIDE DEF a, b
<1>8. Num(a \o b, Keepers(e)) = Num(a, Keepers(e)) + Num(b, Keepers(e))
  BY <1>5, <1>6, NumConcat
<1>9. a \o b \in Seq(Frame)
  BY <1>5, <1>6, ConcatProperties
<1>10. <<f>> # <<>> /\ Head(<<f>>) = f
  OBVIOUS
<1> QED BY <1>5, <1>6, <1>7, <1>8, <1>9, <1>10 DEF Num, Held, Unfolded

\* A stack whose innermost call is not a batch is what it is.
LEMMA PlainHeld ==
  ASSUME NEW s, s = <<>> \/ Head(s).op # "batch", NEW e
  PROVE  Held(s, e) = Hits(s, Keepers(e))
  BY DEF Held, Unfolded

Rows == [Threads -> Seq(Frame)]

\* One thread goes on and the others stay where they are.
LEMMA RowChanged ==
  ASSUME NEW f \in Rows, NEW g \in Rows, NEW t \in Threads, \A u \in Threads \ {t} : g[u] = f[u], NEW e,
         IsFiniteSet(CallsIn(f, e)), IsFiniteSet(Held(g[t], e))
  PROVE  /\ IsFiniteSet(CallsIn(g, e)) /\ IsFiniteSet(Held(f[t], e))
         /\ Cardinality(CallsIn(f, e)) \in Nat /\ Cardinality(CallsIn(g, e)) \in Nat
         /\ Cardinality(Held(f[t], e)) \in Nat /\ Cardinality(Held(g[t], e)) \in Nat
         /\ Cardinality(Held(f[t], e)) <= Cardinality(CallsIn(f, e))
         /\ Cardinality(CallsIn(g, e)) =
              Cardinality(CallsIn(f, e)) - Cardinality(Held(f[t], e)) + Cardinality(Held(g[t], e))
<1> DEFINE A == UNION {{u} \X Held(f[u], e) : u \in Threads \ {t}}
           F == {t} \X Held(f[t], e)
           G == {t} \X Held(g[t], e)
<1>1. CallsIn(f, e) = A \union F
  BY DEF CallsIn
<1>2. CallsIn(g, e) = A \union G
  <2>1. A = UNION {{u} \X Held(g[u], e) : u \in Threads \ {t}}
    <3>1. \A u \in Threads \ {t} : Held(g[u], e) = Held(f[u], e)
      OBVIOUS
    <3> QED BY <3>1
  <2> QED BY <2>1 DEF CallsIn
<1>3. A \cap F = {} /\ A \cap G = {}
  <2>1. \A p \in A : p[1] # t
    OBVIOUS
  <2>2. (\A p \in F : p[1] = t) /\ (\A p \in G : p[1] = t)
    OBVIOUS
  <2> HIDE DEF A, F, G
  <2> QED BY <2>1, <2>2
<1>4. /\ IsFiniteSet(Held(f[t], e)) /\ Cardinality(F) = Cardinality(Held(f[t], e))
      /\ IsFiniteSet(A) /\ IsFiniteSet(F)
  <2> DEFINE H == Held(f[t], e)
  <2>1. A \in SUBSET CallsIn(f, e) /\ F \in SUBSET CallsIn(f, e)
    <3> HIDE DEF A, F
    <3> QED BY <1>1
  <2> HIDE DEF A
  <2>2. IsFiniteSet(A) /\ IsFiniteSet(F)
    <3> HIDE DEF F
    <3> QED BY <2>1, FS_Subset
  <2> DEFINE h == [p \in F |-> p[2]]
  <2>3. h \in Bijection(F, H)
    <3> HIDE DEF H
    <3>1. \A p, q \in F : p[2] = q[2] => p = q
      BY DEF H
    <3>2. \A p \in F : p[2] \in H
      BY DEF H
    <3>3. \A i \in H : <<t, i>> \in F /\ <<t, i>>[2] = i
      BY DEF H
    <3> HIDE DEF F
    <3> QED BY <3>1, <3>2, <3>3 DEF Bijection, Injection, Surjection, IsInjective
  <2> HIDE DEF h, F, H
  <2>4. IsFiniteSet(H) /\ Cardinality(H) = Cardinality(F)
    BY <2>2, <2>3, FS_Bijection DEF ExistsBijection
  <2> QED BY <2>2, <2>4 DEF H
<1>5. IsFiniteSet(G) /\ Cardinality(G) = Cardinality(Held(g[t], e))
  <2> DEFINE H == Held(g[t], e)
  <2> HIDE DEF A, F
  <2> DEFINE h == [i \in H |-> <<t, i>>]
  <2>1. h \in Bijection(H, G)
    <3> HIDE DEF H
    <3>1. \A p \in G : p = <<t, p[2]>> /\ p[2] \in H
      BY DEF H
    <3>2. \A i \in H : <<t, i>> \in G
      BY DEF H
    <3> HIDE DEF G
    <3> QED BY <3>1, <3>2 DEF Bijection, Injection, Surjection, IsInjective
  <2> HIDE DEF h, G, H
  <2>2. IsFiniteSet(H)
    BY DEF H
  <2>3. IsFiniteSet(G) /\ Cardinality(G) = Cardinality(H)
    BY <2>1, <2>2, FS_Bijection DEF ExistsBijection
  <2> QED BY <2>3 DEF H
<1> HIDE DEF A, F, G
<1>6. ASSUME NEW S, NEW R, IsFiniteSet(S), IsFiniteSet(R), S \cap R = {}
      PROVE  /\ IsFiniteSet(S \union R)
             /\ Cardinality(S \union R) = Cardinality(S) + Cardinality(R)
             /\ Cardinality(S) \in Nat /\ Cardinality(R) \in Nat
  <2>1. Cardinality(S \cap R) = 0
    BY <1>6, FS_EmptySet
  <2>2. Cardinality(S) \in Nat /\ Cardinality(R) \in Nat
    BY <1>6, FS_CardinalityType
  <2>3. IsFiniteSet(S \union R) /\
        Cardinality(S \union R) = Cardinality(S) + Cardinality(R) - Cardinality(S \cap R)
    BY <1>6, FS_Union
  <2> QED BY <2>1, <2>2, <2>3
<1>7. /\ Cardinality(A \union F) = Cardinality(A) + Cardinality(F)
      /\ Cardinality(A) \in Nat /\ Cardinality(F) \in Nat
  BY <1>3, <1>4, <1>6
<1>8. /\ Cardinality(A \union G) = Cardinality(A) + Cardinality(G)
      /\ IsFiniteSet(A \union G) /\ Cardinality(G) \in Nat
  BY <1>3, <1>4, <1>5, <1>6
<1> QED BY <1>1, <1>2, <1>4, <1>5, <1>7, <1>8

\* What a thread changes in its own stack is what changes in all of them
\* together.
LEMMA CallsMoved ==
  ASSUME todo \in Rows, todo' \in Rows,
         NEW t \in Threads, \A u \in Threads \ {t} : todo'[u] = todo[u], NEW e,
         IsFiniteSet(CallsIn(todo, e)), IsFiniteSet(Held(todo'[t], e))
  PROVE  /\ IsFiniteSet(CallsIn(todo', e))
         /\ InCalls(e) \in Nat /\ InCalls(e)' \in Nat
         /\ Cardinality(Held(todo[t], e)) \in Nat /\ Cardinality(Held(todo'[t], e)) \in Nat
         /\ Cardinality(Held(todo[t], e)) <= InCalls(e)
         /\ InCalls(e)' = InCalls(e) - Cardinality(Held(todo[t], e)) + Cardinality(Held(todo'[t], e))
<1> DEFINE f == todo  g == todo'
<1>1. /\ f \in Rows /\ g \in Rows
      /\ \A u \in Threads \ {t} : g[u] = f[u]
      /\ IsFiniteSet(CallsIn(f, e)) /\ IsFiniteSet(Held(g[t], e))
  BY DEF Rows
<1> HIDE DEF f, g
<1>2. /\ IsFiniteSet(CallsIn(g, e))
      /\ Cardinality(CallsIn(f, e)) \in Nat /\ Cardinality(CallsIn(g, e)) \in Nat
      /\ Cardinality(Held(f[t], e)) \in Nat /\ Cardinality(Held(g[t], e)) \in Nat
      /\ Cardinality(Held(f[t], e)) <= Cardinality(CallsIn(f, e))
      /\ Cardinality(CallsIn(g, e)) =
           Cardinality(CallsIn(f, e)) - Cardinality(Held(f[t], e)) + Cardinality(Held(g[t], e))
  BY <1>1, RowChanged
<1> QED BY <1>2 DEF InCalls, f, g

\* A thread replaces the innermost frame of its call, which is not a batch.
LEMMA CallsReplaced ==
  ASSUME Stacks, NEW t \in Threads, todo[t] # <<>>, Top(t).op # "batch",
         NEW fs \in Seq(Frame), fs # <<>> => Head(fs).op # "batch", Replace(t, fs),
         NEW e, IsFiniteSet(CallsIn(todo, e))
  PROVE  /\ IsFiniteSet(CallsIn(todo, e))'
         /\ InCalls(e) \in Nat /\ InCalls(e)' \in Nat
         /\ Bit(Top(t) \in Keepers(e)) <= InCalls(e)
         /\ InCalls(e)' = InCalls(e) - Bit(Top(t) \in Keepers(e)) + Num(fs, Keepers(e))
<1> DEFINE s == todo[t]  r == Tail(s)  K == Keepers(e)
<1>1. StackOK(s) /\ s \in Seq(Frame) /\ s # <<>> /\ Head(s) = Top(t)
  BY DEF Stacks, Top
<1>2. /\ r \in Seq(Frame) /\ Num(s, K) = Bit(Head(s) \in K) + Num(r, K)
      /\ Num(r, K) \in Nat
  <2> HIDE DEF s, K
  <2> QED BY <1>1, NumTail
<1>3. r # <<>> => Head(r).op # "batch"
  <2>1. Follows(s, <<>>)
    BY DEF Follows
  <2>2. <<>> = <<>> /\ <<>> \o r = r
    BY <1>2, ConcatEmptySeq
  <2>3. r # <<>> => Head(r) \in Resting
    <3> HIDE DEF s
    <3> QED BY <1>1, <2>1, <2>2, StackReplaced
  <2> QED BY <2>3, FrameKinds DEF Lonely
<1>4. todo'[t] = fs \o r /\ \A u \in Threads \ {t} : todo'[u] = todo[u]
  BY DEF Stacks, Replace
<1> HIDE DEF s, r, K
<1>5. Num(fs \o r, K) = Num(fs, K) + Num(r, K) /\ fs \o r \in Seq(Frame)
  BY <1>2, NumConcat, ConcatProperties
<1>6. fs \o r # <<>> => Head(fs \o r).op # "batch"
  <2>1. CASE fs = <<>>
    BY <2>1, <1>2, <1>3, ConcatEmptySeq
  <2>2. CASE fs # <<>>
    <3>1. /\ Len(fs \o r) = Len(fs) + Len(r)
          /\ \A i \in 1 .. Len(fs) + Len(r) :
                (fs \o r)[i] = IF i <= Len(fs) THEN fs[i] ELSE r[i - Len(fs)]
      BY <1>2, ConcatProperties
    <3>2. 1 <= Len(fs) /\ Len(r) \in Nat /\ Len(fs) \in Nat
      BY <2>2, <1>2
    <3>3. (fs \o r)[1] = fs[1]
      BY <3>1, <3>2
    <3>4. Head(fs \o r) = Head(fs)
      BY <1>5, <2>2, <3>1, <3>2, <3>3
    <3> QED BY <2>2, <3>4
  <2> QED BY <2>1, <2>2
<1>7. Held(todo[t], e) = Hits(s, K) /\ Held(todo'[t], e) = Hits(fs \o r, K)
  BY <1>1, <1>4, <1>6, PlainHeld DEF s, K
<1>8. IsFiniteSet(Held(todo'[t], e))
  <2> DEFINE q == fs \o r
  <2>1. q \in Seq(Frame) /\ Held(todo'[t], e) = Hits(q, K)
    BY <1>5, <1>7
  <2> HIDE DEF q
  <2>2. IsFiniteSet(Hits(q, K))
    BY <2>1, NumNumber
  <2> QED BY <2>1, <2>2
<1>a. \A u \in Threads \ {t} : todo'[u] = todo[u]
  BY <1>4
<1>b. todo \in Rows /\ todo' \in Rows
  <2> DEFINE q == fs \o r
  <2>1. q \in Seq(Frame) /\ todo' = [todo EXCEPT ![t] = q]
    BY <1>5 DEF Replace, r, s
  <2> HIDE DEF q
  <2> QED BY <2>1 DEF Stacks, Rows
<1>9. /\ IsFiniteSet(CallsIn(todo', e))
      /\ InCalls(e) \in Nat /\ InCalls(e)' \in Nat
      /\ Cardinality(Held(todo[t], e)) <= InCalls(e)
      /\ InCalls(e)' = InCalls(e) - Cardinality(Held(todo[t], e)) + Cardinality(Held(todo'[t], e))
  BY <1>8, <1>a, <1>b, CallsMoved
<1>10. Num(fs, K) \in Nat
  BY NumNumber
<1>11. Cardinality(Held(todo[t], e)) = Bit(Top(t) \in K) + Num(r, K)
       /\ Cardinality(Held(todo'[t], e)) = Num(fs, K) + Num(r, K)
  BY <1>1, <1>2, <1>5, <1>7 DEF Num
<1>12. Bit(Top(t) \in K) \in Nat
  BY DEF Bit
<1> QED BY <1>2, <1>9, <1>10, <1>11, <1>12 DEF K

\* A call begins, with one frame.
LEMMA CallsEntered ==
  ASSUME Stacks, NEW t \in Threads, todo[t] = <<>>, NEW f \in Frame,
         todo' = [todo EXCEPT ![t] = <<f>>], NEW e, IsFiniteSet(CallsIn(todo, e))
  PROVE  /\ IsFiniteSet(CallsIn(todo, e))'
         /\ InCalls(e) \in Nat /\ InCalls(e)' \in Nat
         /\ f.op # "batch" => InCalls(e)' = InCalls(e) + Bit(f \in Keepers(e))
         /\ f.op = "batch" => InCalls(e)' = InCalls(e) + Num(f.run, Holders(e)) + Num(f.events, {e})
<1>1. todo'[t] = <<f>> /\ \A u \in Threads \ {t} : todo'[u] = todo[u]
  BY DEF Stacks
<1>2. Head(<<f>>) = f /\ <<f>> # <<>> /\ <<f>> \in Seq(Frame)
  OBVIOUS
<1>3. Held(todo[t], e) = {}
  <2>1. Hits(<<>>, Keepers(e)) = {}
    BY DEF Hits
  <2> QED BY <2>1, PlainHeld
<1>4. Cardinality(Held(todo[t], e)) = 0
  BY <1>3, FS_EmptySet
<1>5. /\ IsFiniteSet(Held(<<f>>, e))
      /\ f.op # "batch" => Cardinality(Held(<<f>>, e)) = Bit(f \in Keepers(e))
      /\ f.op = "batch" =>
           Cardinality(Held(<<f>>, e)) = Num(f.run, Holders(e)) + Num(f.events, {e})
  <2>1. CASE f.op # "batch"
    <3>1. Held(<<f>>, e) = Hits(<<f>>, Keepers(e))
      BY <2>1, <1>2, PlainHeld
    <3>2. IsFiniteSet(Hits(<<f>>, Keepers(e)))
      BY <1>2, NumNumber
    <3>3. Num(<<f>>, Keepers(e)) = Bit(f \in Keepers(e))
      BY NumShort
    <3> QED BY <2>1, <3>1, <3>2, <3>3 DEF Num
  <2>2. CASE f.op = "batch"
    <3>1. /\ BatchFrames(f) \in Seq(Frame)
          /\ Held(<<f>>, e) = Hits(BatchFrames(f), Keepers(e))
          /\ Num(BatchFrames(f), Keepers(e)) = Num(f.run, Holders(e)) + Num(f.events, {e})
      BY <2>2, BatchHeld
    <3>2. IsFiniteSet(Hits(BatchFrames(f), Keepers(e)))
      BY <3>1, NumNumber
    <3> QED BY <2>2, <3>1, <3>2 DEF Num
  <2> QED BY <2>1, <2>2
<1>a. IsFiniteSet(Held(todo'[t], e)) /\ \A u \in Threads \ {t} : todo'[u] = todo[u]
  BY <1>1, <1>5
<1>b. todo \in Rows /\ todo' \in Rows
  BY <1>2 DEF Stacks, Rows
<1>6. /\ IsFiniteSet(CallsIn(todo', e))
      /\ InCalls(e) \in Nat /\ InCalls(e)' \in Nat
      /\ InCalls(e)' = InCalls(e) - Cardinality(Held(todo[t], e)) + Cardinality(Held(todo'[t], e))
  BY <1>a, <1>b, CallsMoved
<1>7. InCalls(e)' = InCalls(e) + Cardinality(Held(<<f>>, e)) /\ InCalls(e) \in Nat /\ InCalls(e)' \in Nat
  BY <1>1, <1>4, <1>6
<1>8. f.op = "batch" => Num(f.run, Holders(e)) \in Nat /\ Num(f.events, {e}) \in Nat
  BY FrameKinds, NumNumber
<1> QED BY <1>5, <1>6, <1>7, <1>8

\* A batch is scanned on.
LEMMA CallsScanned ==
  ASSUME Stacks, NEW t \in Threads, todo[t] # <<>>, Top(t).op = "batch",
         NEW g \in Frame, g.op = "batch", Replace(t, <<g>>), NEW e, IsFiniteSet(CallsIn(todo, e))
  PROVE  /\ IsFiniteSet(CallsIn(todo, e))'
         /\ InCalls(e) \in Nat /\ InCalls(e)' \in Nat
         /\ Num(Top(t).run, Holders(e)) + Num(Top(t).events, {e}) <= InCalls(e)
         /\ InCalls(e)' = InCalls(e) - Num(Top(t).run, Holders(e)) - Num(Top(t).events, {e})
                            + Num(g.run, Holders(e)) + Num(g.events, {e})
<1> DEFINE f == Top(t)
<1>1. f \in Frame /\ Len(todo[t]) = 1 /\ Tail(todo[t]) = <<>> /\ todo[t] \in Seq(Frame)
  BY TopTypes DEF Lonely, StackOK
<1>2. todo[t] = <<f>> /\ f.op = "batch"
  BY <1>1 DEF Top
<1> HIDE DEF f
<1>3. <<g>> \o <<>> = <<g>>
  OBVIOUS
<1>4. todo'[t] = <<g>> /\ \A u \in Threads \ {t} : todo'[u] = todo[u]
  BY <1>1, <1>3 DEF Stacks, Replace
<1>5. ASSUME NEW h \in Frame, h.op = "batch"
      PROVE  /\ IsFiniteSet(Held(<<h>>, e))
             /\ Cardinality(Held(<<h>>, e)) = Num(h.run, Holders(e)) + Num(h.events, {e})
  <2>1. /\ BatchFrames(h) \in Seq(Frame)
        /\ Held(<<h>>, e) = Hits(BatchFrames(h), Keepers(e))
        /\ Num(BatchFrames(h), Keepers(e)) = Num(h.run, Holders(e)) + Num(h.events, {e})
    BY <1>5, BatchHeld
  <2>2. IsFiniteSet(Hits(BatchFrames(h), Keepers(e)))
    BY <2>1, NumNumber
  <2> QED BY <2>1, <2>2 DEF Num
<1>6. IsFiniteSet(Held(todo'[t], e))
  BY <1>4, <1>5
<1>a. todo \in Rows /\ todo' \in Rows /\ \A u \in Threads \ {t} : todo'[u] = todo[u]
  <2>1. <<g>> \in Seq(Frame)
    OBVIOUS
  <2> QED BY <1>1, <1>3, <1>4, <2>1 DEF Stacks, Rows, Replace
<1>7. /\ IsFiniteSet(CallsIn(todo', e))
      /\ InCalls(e) \in Nat /\ InCalls(e)' \in Nat
      /\ Cardinality(Held(todo[t], e)) <= InCalls(e)
      /\ InCalls(e)' = InCalls(e) - Cardinality(Held(todo[t], e)) + Cardinality(Held(todo'[t], e))
  BY <1>6, <1>a, CallsMoved
<1>8. /\ Cardinality(Held(todo[t], e)) = Num(f.run, Holders(e)) + Num(f.events, {e})
      /\ Cardinality(Held(todo'[t], e)) = Num(g.run, Holders(e)) + Num(g.events, {e})
  BY <1>1, <1>2, <1>4, <1>5
<1>9. /\ Num(f.run, Holders(e)) \in Nat /\ Num(f.events, {e}) \in Nat
      /\ Num(g.run, Holders(e)) \in Nat /\ Num(g.events, {e}) \in Nat
  BY <1>1, <1>2, FrameKinds, NumNumber
<1> QED BY <1>7, <1>8, <1>9 DEF f

\* Nothing moves when the batch becomes the frames it stands for.
LEMMA CallsUnfolded ==
  ASSUME Stacks, NEW t \in Threads, todo[t] # <<>>, Top(t).op = "batch",
         Replace(t, BatchFrames(Top(t))), NEW e, IsFiniteSet(CallsIn(todo, e))
  PROVE  IsFiniteSet(CallsIn(todo, e))' /\ InCalls(e)' = InCalls(e)
<1> DEFINE f == Top(t)  fs == BatchFrames(f)
<1>1. f \in Frame /\ Len(todo[t]) = 1 /\ Tail(todo[t]) = <<>> /\ todo[t] \in Seq(Frame)
  BY TopTypes DEF Lonely, StackOK
<1>2. todo[t] = <<f>> /\ f.op = "batch"
  BY <1>1 DEF Top
<1> HIDE DEF f
<1>3. /\ fs \in Seq(Frame) /\ Held(<<f>>, e) = Hits(fs, Keepers(e))
  BY <1>1, <1>2, BatchHeld
<1>4. fs # <<>> => Head(fs).op # "batch"
  <2>1. f.run \in Seq(Task) /\ f.events \in Seq(Event)
    BY <1>1, <1>2, FrameKinds
  <2>2. /\ Len(fs) = Len(f.run) + Len(f.events)
        /\ \A i \in 1 .. Len(f.run) + Len(f.events) : fs[i] \in Resting
    BY <2>1, BatchFramesTypes
  <2> HIDE DEF fs
  <2>a. \A i \in 1 .. Len(fs) : fs[i] \in Resting
    BY <2>2
  <2>3. fs # <<>> => Head(fs) \in Resting
    BY <1>3, <2>a
  <2> QED BY <2>3, FrameKinds DEF Lonely
<1>5. todo'[t] = fs /\ \A u \in Threads \ {t} : todo'[u] = todo[u]
  <2> HIDE DEF fs
  <2>1. fs \o <<>> = fs
    BY <1>3, ConcatEmptySeq
  <2> QED BY <1>1, <2>1 DEF Stacks, Replace, fs, f
<1> HIDE DEF fs
<1>6. Held(todo'[t], e) = Held(todo[t], e)
  BY <1>2, <1>3, <1>4, <1>5, PlainHeld
<1>7. CallsIn(todo', e) = CallsIn(todo, e)
  <2>1. \A u \in Threads : Held(todo'[u], e) = Held(todo[u], e)
    BY <1>5, <1>6
  <2> QED BY <2>1 DEF CallsIn
<1> QED BY <1>7 DEF InCalls

\* The thread that is woken is handed the task of the thread that wakes it.
LEMMA CallsWoken ==
  ASSUME Stacks, NEW t \in Threads, NEW u \in Threads, NEW f,
         At(t, "resume"), In(u, "paused"), f = [op |-> "resumed", task |-> Top(t).task],
         todo' = [todo EXCEPT ![t] = Tail(@), ![u] = <<f>>], NEW e, IsFiniteSet(CallsIn(todo, e))
  PROVE  IsFiniteSet(CallsIn(todo, e))' /\ InCalls(e)' = InCalls(e)
<1> DEFINE s == todo[t]  r == Tail(s)  K == Keepers(e)
           g == [todo EXCEPT ![t] = r]  h == todo'
<1>1. /\ todo[t] # <<>> /\ Top(t).op = "resume" /\ todo[u] # <<>> /\ Top(u).op = "paused"
      /\ u # t /\ f \in Frame /\ f.op = "resumed" /\ f.task = Top(t).task
  BY Woken DEF At, In
<1>2. StackOK(s) /\ s \in Seq(Frame) /\ s # <<>> /\ Head(s) = Top(t) /\ Head(s) \in Frame
  BY <1>1 DEF Stacks, Top
<1>3. /\ r \in Seq(Frame) /\ Num(s, K) = Bit(Head(s) \in K) + Num(r, K)
      /\ Num(r, K) \in Nat
  <2> HIDE DEF s, K
  <2> QED BY <1>2, NumTail
<1>4. r # <<>> => Head(r).op # "batch"
  <2>1. Follows(s, <<>>)
    BY DEF Follows
  <2>2. <<>> = <<>> /\ <<>> \o r = r
    BY <1>3, ConcatEmptySeq
  <2>3. r # <<>> => Head(r) \in Resting
    <3> HIDE DEF s
    <3> QED BY <1>2, <2>1, <2>2, StackReplaced
  <2> QED BY <2>3, FrameKinds DEF Lonely
<1>5. Top(u) \in Frame /\ todo[u] = <<Top(u)>>
  <2>1. Top(u) \in Frame /\ Len(todo[u]) = 1 /\ todo[u] \in Seq(Frame)
    BY <1>1, TopTypes DEF Lonely, StackOK
  <2> QED BY <2>1 DEF Top
<1>6. /\ g \in Rows /\ g[t] = r /\ \A v \in Threads \ {t} : g[v] = todo[v]
      /\ todo \in Rows
  BY <1>3 DEF Stacks, Rows
<1>7. /\ h \in Rows /\ h[u] = <<f>> /\ \A v \in Threads \ {u} : h[v] = g[v]
  <2>1. /\ Stacks' /\ todo'[u] = <<f>> /\ todo'[t] = Tail(todo[t])
        /\ \A v \in Threads \ {t, u} : todo'[v] = todo[v]
    BY Woken, ZenonT(60)
  <2>2. h[t] = g[t]
    BY <1>6, <2>1
  <2>3. \A v \in Threads \ {t, u} : h[v] = g[v]
    BY <1>6, <2>1
  <2> QED BY <2>1, <2>2, <2>3 DEF Stacks, Rows
<1>8. /\ Held(todo[t], e) = Hits(s, K) /\ Held(g[t], e) = Hits(r, K)
      /\ Held(g[u], e) = Hits(todo[u], K)
      /\ Held(h[u], e) = Hits(<<f>>, K)
  <2>1. Head(<<f>>) = f
    OBVIOUS
  <2>2. Held(s, e) = Hits(s, K) /\ Held(r, e) = Hits(r, K)
    BY <1>1, <1>2, <1>4, PlainHeld
  <2>3. Held(todo[u], e) = Hits(todo[u], K) /\ Held(<<f>>, e) = Hits(<<f>>, K)
    BY <1>1, <2>1, PlainHeld DEF Top
  <2> QED BY <1>1, <1>6, <1>7, <2>2, <2>3
<1>9. /\ Num(s, K) = Bit(Head(s) \in K) + Num(r, K)
      /\ Num(todo[u], K) = Bit(Top(u) \in K)
      /\ Num(<<f>>, K) = Bit(f \in K)
  <2>1. Num(<<Top(u)>>, K) = Bit(Top(u) \in K)
    BY NumShort
  <2>2. Num(<<f>>, K) = Bit(f \in K)
    BY NumShort
  <2> QED BY <1>3, <1>5, <2>1, <2>2
<1>10. (f \in K <=> Head(s) \in K) /\ Top(u) \notin K
  BY <1>1, <1>2, <1>5, KeeperFrames
<1>11. IsFiniteSet(Hits(r, K)) /\ IsFiniteSet(Hits(<<f>>, K))
  <2>1. <<f>> \in Seq(Frame)
    BY <1>1
  <2> HIDE DEF r, K
  <2> QED BY <1>3, <2>1, NumNumber
<1>12. /\ IsFiniteSet(CallsIn(g, e))
       /\ Cardinality(CallsIn(todo, e)) \in Nat /\ Cardinality(CallsIn(g, e)) \in Nat
       /\ Cardinality(CallsIn(g, e)) = Cardinality(CallsIn(todo, e)) - Num(s, K) + Num(r, K)
  <2> DEFINE a == todo
  <2>1. /\ a \in Rows /\ g \in Rows /\ \A v \in Threads \ {t} : g[v] = a[v]
        /\ IsFiniteSet(CallsIn(a, e)) /\ IsFiniteSet(Held(g[t], e))
    BY <1>6, <1>8, <1>11
  <2> HIDE DEF a, g
  <2>2. /\ IsFiniteSet(CallsIn(g, e))
        /\ Cardinality(CallsIn(a, e)) \in Nat /\ Cardinality(CallsIn(g, e)) \in Nat
        /\ Cardinality(CallsIn(g, e)) =
             Cardinality(CallsIn(a, e)) - Cardinality(Held(a[t], e)) + Cardinality(Held(g[t], e))
    BY <2>1, RowChanged
  <2> HIDE DEF s, r, K
  <2> QED BY <2>2, <1>8 DEF Num, a
<1>13. /\ IsFiniteSet(CallsIn(h, e))
       /\ Cardinality(CallsIn(h, e)) \in Nat
       /\ Cardinality(CallsIn(h, e)) = Cardinality(CallsIn(g, e)) - Num(todo[u], K) + Num(<<f>>, K)
  <2>1. /\ g \in Rows /\ h \in Rows /\ \A v \in Threads \ {u} : h[v] = g[v]
        /\ IsFiniteSet(CallsIn(g, e)) /\ IsFiniteSet(Held(h[u], e))
    BY <1>6, <1>7, <1>8, <1>11, <1>12
  <2> HIDE DEF g, h
  <2>2. /\ IsFiniteSet(CallsIn(h, e))
        /\ Cardinality(CallsIn(g, e)) \in Nat /\ Cardinality(CallsIn(h, e)) \in Nat
        /\ Cardinality(CallsIn(h, e)) =
             Cardinality(CallsIn(g, e)) - Cardinality(Held(g[u], e)) + Cardinality(Held(h[u], e))
    BY <2>1, RowChanged
  <2> HIDE DEF s, r, K
  <2> QED BY <2>2, <1>8 DEF Num
<1> HIDE DEF s, r, K, g
<1> QED BY <1>3, <1>9, <1>10, <1>12, <1>13 DEF InCalls, Bit

-----------------------------------------------------------------------------
(* The places in the lists and in the store                                *)

\* A task holds the events that arrived at it.
LEMMA HolderTask ==
  ASSUME NEW task \in Task, NEW e
  PROVE  task \in Holders(e) <=> e \in ArrivedEvents(task)
  BY DEF Holders

\* The counts of places are numbers.
LEMMA Numbers ==
  ASSUME TaskLists, StoreOK, NEW e \in Event
  PROVE  /\ InQueue(e) \in Nat /\ InRegistered(e) \in Nat /\ InPaused(e) \in Nat
         /\ InReady(e) \in Nat /\ InHistory(e) \in Nat
         /\ IsFiniteSet(CallsIn(todo, e)) => InCalls(e) \in Nat
<1>1. e.key \in Keys
  BY KeysInt DEF Event
<1>2. outstandingEvents[e.key] \in Seq(Event)
  BY <1>1 DEF StoreOK, Queue
<1>3. InQueue(e) \in Nat
  BY <1>2, NumNumber DEF InQueue
<1>4. registeredTasks \in Seq(CleanTask) /\ pausedTasks \in Seq(CleanTask) /\ ready \in Seq(Task)
  BY DEF TaskLists
<1>5. InRegistered(e) \in Nat /\ InPaused(e) \in Nat /\ InReady(e) \in Nat
  BY <1>4, NumNumber DEF InRegistered, InPaused, InReady
<1>6. InHistory(e) \in Nat
  BY DEF InHistory, Bit
<1>7. IsFiniteSet(CallsIn(todo, e)) => InCalls(e) \in Nat
  BY FS_CardinalityType DEF InCalls
<1> QED BY <1>3, <1>5, <1>6, <1>7

\* What is not touched holds as many events as before.
LEMMA StillThere ==
  ASSUME NEW e
  PROVE  /\ outstandingEvents' = outstandingEvents => InQueue(e)' = InQueue(e)
         /\ registeredTasks' = registeredTasks => InRegistered(e)' = InRegistered(e)
         /\ pausedTasks' = pausedTasks => InPaused(e)' = InPaused(e)
         /\ ready' = ready => InReady(e)' = InReady(e)
         /\ delivered' = delivered /\ removed' = removed => InHistory(e)' = InHistory(e)
         /\ todo' = todo => InCalls(e)' = InCalls(e) /\ CallsIn(todo, e)' = CallsIn(todo, e)
  BY DEF InQueue, InRegistered, InPaused, InReady, InHistory, InCalls

\* A transient event leaves the store when it is taken.
LEMMA QueueTaken ==
  ASSUME StoreOK, outstandingEventsToHandle \in Int, NEW k \in Keys, IsStored(k), TakeFirst(k),
         NEW e \in Transient(Event), NEW x, x = First(k)
  PROVE  /\ x \in Event
         /\ InQueue(e) \in Nat /\ Bit(e = x) <= InQueue(e)
         /\ InQueue(e)' = InQueue(e) - Bit(e = x)
<1> DEFINE l == Store(k)  q == outstandingEvents[l]
<1>1. /\ x \in Event /\ x.key = l
      /\ x.persistent => outstandingEvents' = outstandingEvents
      /\ ~x.persistent => outstandingEvents' = [outstandingEvents EXCEPT ![l] = Tail(@)]
  BY StoreTake
<1>2. l \in Keys /\ q # <<>>
  BY StoredIff DEF Queued
<1>3. x = Head(q)
  BY DEF First
<1> HIDE DEF l
<1>4. outstandingEvents \in [Keys -> Seq(Event)]
  BY DEF StoreOK, Queue
<1>5. e \in Event /\ ~e.persistent
  BY DEF Transient
<1>6. e.key \in Keys
  BY <1>5, KeysInt DEF Event
<1>7. outstandingEvents[e.key] \in Seq(Event) /\ InQueue(e) \in Nat
  <2>1. outstandingEvents[e.key] \in Seq(Event)
    BY <1>4, <1>6
  <2> QED BY <2>1, NumNumber DEF InQueue
<1>8. CASE x.persistent
  <2>1. e # x /\ outstandingEvents' = outstandingEvents
    BY <1>1, <1>5, <1>8
  <2> QED BY <2>1, <1>1, <1>7 DEF InQueue, Bit
<1>9. CASE ~x.persistent /\ e.key = l
  <2>1. outstandingEvents'[e.key] = Tail(q) /\ outstandingEvents[e.key] = q
    BY <1>1, <1>4, <1>6, <1>9
  <2>2. q \in Seq(Event)
    BY <1>2, <1>4
  <2> HIDE DEF q
  <2>3. Num(q, {e}) = Bit(x \in {e}) + Num(Tail(q), {e}) /\ Num(Tail(q), {e}) \in Nat
    BY <1>2, <1>3, <2>2, NumTail DEF q
  <2>4. Bit(x \in {e}) = Bit(e = x) /\ Bit(e = x) \in Nat
    BY DEF Bit
  <2> QED BY <1>1, <1>7, <2>1, <2>3, <2>4 DEF InQueue
<1>10. CASE ~x.persistent /\ e.key # l
  <2>1. outstandingEvents'[e.key] = outstandingEvents[e.key]
    BY <1>1, <1>4, <1>6, <1>10
  <2>2. e # x
    BY <1>1, <1>10
  <2> QED BY <1>1, <1>7, <2>1, <2>2 DEF InQueue, Bit
<1> QED BY <1>8, <1>9, <1>10

\* A stored event is one more event in the store, and no other changes.
LEMMA QueuePushed ==
  ASSUME StoreOK, NEW x \in Event, outstandingEvents' = Push(outstandingEvents, x.key, x),
         NEW e \in Event
  PROVE  InQueue(e)' = InQueue(e) + Bit(e = x)
<1>1. outstandingEvents' = [outstandingEvents EXCEPT ![x.key] = Append(@, x)]
  BY StorePush
<1>2. outstandingEvents \in [Keys -> Seq(Event)]
  BY DEF StoreOK, Queue
<1>3. e.key \in Keys /\ x.key \in Keys
  BY KeysInt DEF Event
<1> DEFINE q == outstandingEvents[e.key]
<1>4. q \in Seq(Event)
  BY <1>2, <1>3
<1>5. Num(q, {e}) \in Nat
  <2> HIDE DEF q
  <2> QED BY <1>4, NumNumber
<1>6. CASE e.key = x.key
  <2>1. outstandingEvents'[e.key] = Append(q, x)
    BY <1>1, <1>2, <1>3, <1>6
  <2> HIDE DEF q
  <2>2. Num(Append(q, x), {e}) = Num(q, {e}) + Bit(x \in {e})
    BY <1>4, NumAppend
  <2>3. Bit(x \in {e}) = Bit(e = x)
    BY DEF Bit
  <2> QED BY <2>1, <2>2, <2>3 DEF InQueue, q
<1>7. CASE e.key # x.key
  <2>1. outstandingEvents'[e.key] = q /\ e # x
    BY <1>1, <1>2, <1>3, <1>7
  <2> QED BY <1>5, <2>1 DEF InQueue, Bit
<1> QED BY <1>6, <1>7

\* What a frame that starts a task holds, and what is left of a persistent event.
LEMMA StartsHeld ==
  ASSUME NEW task \in Task, NEW rest \in Seq(Frame), NEW e, Num(rest, Keepers(e)) = 0
  PROVE  LET fs == <<StartFrame(task), ConsumeFrame>> \o rest IN
           /\ fs \in Seq(Frame) /\ fs # <<>> /\ Head(fs).op = "start"
           /\ Num(fs, Keepers(e)) = Bit(e \in ArrivedEvents(task))
<1> DEFINE a == StartFrame(task)  b == ConsumeFrame  K == Keepers(e)
<1>1. /\ a \in Frame /\ b \in Frame /\ a.op = "start" /\ b.op = "consume" /\ a.task = task
  BY DEF StartFrame, ConsumeFrame, Frame
<1>2. (a \in K <=> e \in ArrivedEvents(task)) /\ b \notin K
  <2> HIDE DEF a, b
  <2> QED BY <1>1, KeeperFrames
<1> HIDE DEF a, b, K
<1> DEFINE p == <<a, b>>
<1>3. p \in Seq(Frame) /\ p = Append(<<a>>, b) /\ Len(p) = 2 /\ p[1] = a
  BY <1>1
<1>4. Num(p, K) = Bit(a \in K) + Bit(b \in K)
  <2>1. Num(<<a>>, K) = Bit(a \in K)
    BY NumShort
  <2> DEFINE c == <<a>>
  <2>2. c \in Seq(Frame)
    BY <1>1
  <2> HIDE DEF c
  <2>3. Num(Append(c, b), K) = Num(c, K) + Bit(b \in K)
    BY <1>1, <2>2, NumAppend
  <2> QED BY <1>3, <2>1, <2>3 DEF c
<1> HIDE DEF p
<1>5. Num(p \o rest, K) = Num(p, K) + Num(rest, K)
  BY <1>3, NumConcat
<1>6. Num(p \o rest, K) = Bit(e \in ArrivedEvents(task))
  BY <1>2, <1>4, <1>5 DEF Bit, K
<1>7. /\ p \o rest \in Seq(Frame) /\ Len(p \o rest) = Len(p) + Len(rest)
      /\ \A i \in 1 .. Len(p) + Len(rest) :
            (p \o rest)[i] = IF i <= Len(p) THEN p[i] ELSE rest[i - Len(p)]
  BY <1>3, ConcatProperties
<1>8. p \o rest # <<>> /\ Head(p \o rest) = a
  <2>1. Len(p \o rest) >= 2 /\ (p \o rest)[1] = a
    BY <1>3, <1>7
  <2> QED BY <1>7, <2>1
<1> QED BY <1>1, <1>6, <1>7, <1>8 DEF p, a, b, K

\* Only a persistent event is registered again, so that no transient one is
\* kept for it.
LEMMA AgainHeld ==
  ASSUME Sound, NEW t \in Threads, Registering(t), NEW e \in Transient(Event)
  PROVE  /\ Again(t) \in Seq(Frame) /\ Num(Again(t), Keepers(e)) = 0
         /\ Again(t) # <<>> => Head(Again(t)).op # "batch"
<1>1. /\ Again(t) \in Seq(Frame) /\ (Again(t) # <<>> => Head(Again(t)).op = "event")
  BY AgainFrames
<1>2. /\ Top(t) \in Frame /\ Top(t).op = "event"
      /\ Again(t) = <<>> \/ Again(t) = <<Top(t)>>
      /\ ~Top(t).event.persistent => Again(t) = <<>>
  BY RegisteringTypes
<1>3. Top(t) \in Keepers(e) <=> e = Top(t).event
  BY <1>2, KeeperFrames
<1>4. ~e.persistent
  BY DEF Transient
<1>5. CASE Again(t) = <<>>
  BY <1>1, <1>5, NumShort
<1>6. CASE Again(t) # <<>>
  <2>1. Top(t) \notin Keepers(e) /\ Again(t) = <<Top(t)>>
    BY <1>2, <1>3, <1>4, <1>6
  <2>2. Num(<<Top(t)>>, Keepers(e)) = Bit(Top(t) \in Keepers(e))
    BY NumShort
  <2> QED BY <1>1, <2>1, <2>2 DEF Bit
<1> QED BY <1>5, <1>6

-----------------------------------------------------------------------------
(* registerTask and pauseTask                                              *)

\* A step that only moves frames that hold no event, or the same as before.
LEMMA CallsOnly ==
  ASSUME NEW e, Balanced(e), IsFiniteSet(CallsIn(todo, e))', InCalls(e)' = InCalls(e),
         UNCHANGED <<outstandingEvents, registeredTasks, pausedTasks, ready, delivered, removed, fired>>
  PROVE  Balanced(e)'
<1>1. /\ InQueue(e)' = InQueue(e) /\ InRegistered(e)' = InRegistered(e)
      /\ InPaused(e)' = InPaused(e) /\ InReady(e)' = InReady(e) /\ InHistory(e)' = InHistory(e)
  BY StillThere
<1>2. Total(e)' = Total(e)
  BY <1>1 DEF Total
<1> QED BY <1>2 DEF Balanced

\* User code is handed the events of a task, none of them for the second time.
LEMMA Delivered ==
  ASSUME NEW task, Deliver(task), ~aborted', removed' = removed, NEW e,
         ~(e \in delivered /\ e \in ArrivedEvents(task))
  PROVE  InHistory(e)' = InHistory(e) + Bit(e \in ArrivedEvents(task))
<1> DEFINE A == ArrivedEvents(task)
<1>1. delivered' = delivered \union A
  BY DEF Deliver
<1> HIDE DEF A
<1>2. Bit(e \in delivered)' = IF e \in delivered' THEN 1 ELSE 0
  BY DEF Bit
<1>3. Bit(e \in removed)' = Bit(e \in removed)
  OBVIOUS
<1>4. Bit(e \in delivered)' = Bit(e \in delivered) + Bit(e \in A)
  BY <1>1, <1>2 DEF Bit, A
<1>5. Bit(e \in delivered) \in Nat /\ Bit(e \in A) \in Nat /\ Bit(e \in removed) \in Nat
  BY DEF Bit
<1> QED BY <1>3, <1>4, <1>5 DEF InHistory, A

\* Nothing has arrived at a new task.
LEMMA NewTaskEmpty ==
  ASSUME NEW s
  PROVE  ArrivedEvents(NewTask(s)) = {}
<1>1. \A k \in Keys : NewTask(s).arrived[k] = <<>>
  BY DEF NewTask, NoQueue
<1>2. \A k \in Keys : ToSet(NewTask(s).arrived[k]) = {}
  BY <1>1 DEF ToSet
<1> QED BY <1>2 DEF ArrivedEvents

\* updateOutstandingEvents begins to gather for a new task: no event gains or
\* loses a place.
LEMMA GatherConserved ==
  ASSUME Sound, NEW t \in Threads, NEW call \in {"register", "wait"}, NEW s \in Submission,
         Gather(t, call, s), NEW e \in Transient(Event), Balanced(e)
  PROVE  Balanced(e)'
<1> DEFINE f == [op |-> "gather", call |-> call, task |-> NewTask(s), next |-> 1, found |-> FALSE]
<1>1. NewTask(s) \in CleanTask
  BY NewTaskClean DEF Sound, Plain
<1>2. f \in Frame /\ f.op = "gather" /\ f.task = NewTask(s)
  BY <1>1 DEF Frame, CleanTask
<1>3. todo' = [todo EXCEPT ![t] = <<f>>] /\ todo[t] = <<>>
      /\ UNCHANGED <<outstandingEvents, registeredTasks, pausedTasks, ready, delivered, removed, fired>>
  BY DEF Gather, MayCall, Outside
<1> HIDE DEF f
<1>4. f \notin Keepers(e)
  BY <1>2, KeeperFrames, NewTaskEmpty
<1>5. /\ IsFiniteSet(CallsIn(todo, e))' /\ InCalls(e) \in Nat
      /\ InCalls(e)' = InCalls(e) + Bit(f \in Keepers(e))
  BY <1>2, <1>3, CallsEntered DEF Sound, Balanced
<1>6. Bit(f \in Keepers(e)) = 0
  BY <1>4 DEF Bit
<1>7. InCalls(e)' = InCalls(e)
  BY <1>5, <1>6
<1> QED BY <1>3, <1>5, <1>7, CallsOnly

\* registerTask takes the mutex: no event gains or loses a place.
LEMMA RegisterTaskConserved ==
  ASSUME Sound, NEW t \in Threads, RegisterTask(t), NEW e \in Transient(Event), Balanced(e)
  PROVE  Balanced(e)'
<1>1. PICK s \in Menu.tasks : Gather(t, "register", s)
  BY DEF RegisterTask
<1>2. s \in Submission
  BY MenuTypes DEF Sound, Plain, Program
<1> QED BY <1>1, <1>2, GatherConserved

\* pauseTask takes the mutex: no event gains or loses a place.
LEMMA PauseTaskConserved ==
  ASSUME Sound, NEW t \in Threads, PauseTask(t), NEW e \in Transient(Event), Balanced(e)
  PROVE  Balanced(e)'
<1> DEFINE s(order) == [order |-> order, persistent |-> FALSE, greedy |-> FALSE, name |-> NoName]
<1>1. PICK order \in Menu.waits : Gather(t, "wait", s(order))
  BY DEF PauseTask
<1>2. order \in Seq(Keys)
  BY MenuTypes DEF Sound, Plain, Program
<1>3. s(order) \in Submission
  BY <1>2 DEF Submission
<1> HIDE DEF s
<1> QED BY <1>1, <1>3, GatherConserved

\* A dependency that is found in the store: no event gains or loses a place.
LEMMA GatherStoredConserved ==
  ASSUME Sound, NEW t \in Threads, GatherStored(t), NEW e \in Transient(Event), Balanced(e)
  PROVE  Balanced(e)'
<1> DEFINE f == Top(t)
           k == f.task.order[f.next]
           x == First(k)
           a == Arrive(Noted(f), k, x)
           g == [f EXCEPT !.task = a, !.next = IF f.task.greedy THEN @ ELSE @ + 1,
                          !.found = f.task.greedy]
<1>1. /\ Gathering(t) /\ IsStored(k) /\ TakeFirst(k) /\ Replace(t, <<g>>)
      /\ UNCHANGED <<registeredTasks, pausedTasks, ready, delivered, removed, fired>>
  BY DEF GatherStored
<1>2. /\ todo[t] # <<>> /\ f.op = "gather" /\ f \in Frame
      /\ f.task \in CleanTask /\ k \in Keys
      /\ Noted(f) \in CleanTask
      /\ f \in [op : {"gather"}, call : {"register", "wait"}, task : Task,
                next : Nat, found : BOOLEAN]
      /\ ArrivedEvents(Noted(f)) = ArrivedEvents(f.task)
  BY <1>1, GatheringTypes DEF Sound
<1>3. /\ x \in Event /\ InQueue(e) \in Nat /\ Bit(e = x) <= InQueue(e)
      /\ InQueue(e)' = InQueue(e) - Bit(e = x)
  <2> HIDE DEF k
  <2> QED BY <1>1, <1>2, QueueTaken DEF Sound, Plain
<1> HIDE DEF x, k
<1>4. a \in Task /\ ArrivedEvents(a) = ArrivedEvents(f.task) \union {x}
  <2> DEFINE noted == Noted(f)
  <2>1. noted \in Task /\ ArrivedEvents(noted) = ArrivedEvents(f.task) /\ k \in Keys /\ x \in Event
    BY <1>2, <1>3 DEF CleanTask
  <2>2. a = Arrive(noted, k, x)
    BY DEF x
  <2> HIDE DEF noted, a
  <2>3. Arrive(noted, k, x) \in Task
        /\ ArrivedEvents(Arrive(noted, k, x)) = ArrivedEvents(noted) \union {x}
    BY <2>1, ArriveKeeps
  <2> QED BY <2>1, <2>2, <2>3
<1>5. g \in Frame /\ g.op = "gather" /\ g.task = a
  <2>1. f.task.greedy \in BOOLEAN
    BY <1>2 DEF CleanTask, Task
  <2> DEFINE n == IF f.task.greedy THEN f.next ELSE f.next + 1
             b == f.task.greedy
  <2>2. g = [f EXCEPT !.task = a, !.next = n, !.found = b]
    OBVIOUS
  <2>3. n \in Nat /\ b \in BOOLEAN
    BY <1>2, <2>1
  <2> HIDE DEF f, a, n, b, g
  <2>4. /\ g \in [op : {"gather"}, call : {"register", "wait"}, task : Task, next : Nat, found : BOOLEAN]
        /\ g.task = a
    BY <1>2, <1>4, <2>2, <2>3
  <2> QED BY <2>4 DEF Frame
<1> HIDE DEF a, g
<1>6. /\ f \in Keepers(e) <=> e \in ArrivedEvents(f.task)
      /\ g \in Keepers(e) <=> e \in ArrivedEvents(f.task) \/ e = x
  BY <1>2, <1>4, <1>5, KeeperFrames
<1>7. /\ IsFiniteSet(CallsIn(todo, e))' /\ InCalls(e) \in Nat
      /\ Bit(f \in Keepers(e)) <= InCalls(e)
      /\ InCalls(e)' = InCalls(e) - Bit(f \in Keepers(e)) + Num(<<g>>, Keepers(e))
  <2>1. <<g>> \in Seq(Frame) /\ Head(<<g>>) = g
    BY <1>5
  <2> DEFINE fs == <<g>>
  <2>2. fs \in Seq(Frame) /\ Head(fs).op # "batch" /\ Replace(t, fs)
    BY <1>1, <1>5, <2>1
  <2> HIDE DEF fs
  <2>3. /\ IsFiniteSet(CallsIn(todo, e))' /\ InCalls(e) \in Nat
        /\ Bit(f \in Keepers(e)) <= InCalls(e)
        /\ InCalls(e)' = InCalls(e) - Bit(f \in Keepers(e)) + Num(fs, Keepers(e))
    BY <1>2, <2>2, CallsReplaced DEF Sound, Balanced
  <2> QED BY <2>3 DEF fs
<1>8. Num(<<g>>, Keepers(e)) = Bit(g \in Keepers(e))
  BY NumShort
<1>9. /\ InRegistered(e)' = InRegistered(e) /\ InPaused(e)' = InPaused(e)
      /\ InReady(e)' = InReady(e) /\ InHistory(e)' = InHistory(e) /\ fired' = fired
  BY <1>1, StillThere
<1>10. /\ InRegistered(e) \in Nat /\ InPaused(e) \in Nat /\ InReady(e) \in Nat
       /\ InHistory(e) \in Nat
  BY Numbers DEF Sound, Transient
<1> HIDE DEF f
<1>11. Total(e)' = Total(e)
  BY <1>3, <1>6, <1>7, <1>8, <1>9, <1>10 DEF Total, Balanced, Bit
<1> QED BY <1>7, <1>9, <1>11 DEF Balanced

\* A frame is replaced by one that holds the event as well, or neither does.
LEMMA FrameSwapped ==
  ASSUME Stacks, NEW t \in Threads, todo[t] # <<>>, Top(t).op # "batch",
         NEW g \in Frame, g.op # "batch", Replace(t, <<g>>), NEW e, IsFiniteSet(CallsIn(todo, e))
  PROVE  /\ IsFiniteSet(CallsIn(todo, e))'
         /\ InCalls(e) \in Nat /\ Bit(Top(t) \in Keepers(e)) <= InCalls(e)
         /\ InCalls(e)' = InCalls(e) - Bit(Top(t) \in Keepers(e)) + Bit(g \in Keepers(e))
<1> DEFINE fs == <<g>>
<1>1. fs \in Seq(Frame) /\ Head(fs).op # "batch" /\ Replace(t, fs)
  OBVIOUS
<1>2. Num(fs, Keepers(e)) = Bit(g \in Keepers(e))
  BY NumShort
<1> HIDE DEF fs
<1>3. /\ IsFiniteSet(CallsIn(todo, e))' /\ InCalls(e) \in Nat
      /\ Bit(Top(t) \in Keepers(e)) <= InCalls(e)
      /\ InCalls(e)' = InCalls(e) - Bit(Top(t) \in Keepers(e)) + Num(fs, Keepers(e))
  BY <1>1, CallsReplaced
<1> QED BY <1>2, <1>3

\* A frame is popped, with what it holds.
LEMMA FramePopped ==
  ASSUME Stacks, NEW t \in Threads, todo[t] # <<>>, Top(t).op # "batch", Return(t),
         NEW e, IsFiniteSet(CallsIn(todo, e))
  PROVE  /\ IsFiniteSet(CallsIn(todo, e))'
         /\ InCalls(e) \in Nat /\ Bit(Top(t) \in Keepers(e)) <= InCalls(e)
         /\ InCalls(e)' = InCalls(e) - Bit(Top(t) \in Keepers(e))
<1>1. <<>> \in Seq(Frame) /\ Replace(t, <<>>)
  BY DEF Return
<1>2. Num(<<>>, Keepers(e)) = 0
  BY NumShort
<1> DEFINE fs == <<>>
<1>3. fs \in Seq(Frame) /\ fs = <<>> /\ Replace(t, fs) /\ Num(fs, Keepers(e)) = 0
  BY <1>1, <1>2
<1> HIDE DEF fs
<1>4. /\ IsFiniteSet(CallsIn(todo, e))' /\ InCalls(e) \in Nat
      /\ Bit(Top(t) \in Keepers(e)) <= InCalls(e)
      /\ InCalls(e)' = InCalls(e) - Bit(Top(t) \in Keepers(e)) + Num(fs, Keepers(e))
  BY <1>3, CallsReplaced
<1>5. Bit(Top(t) \in Keepers(e)) \in Nat
  BY DEF Bit
<1> QED BY <1>3, <1>4, <1>5

\* A dependency that is not found in the store: no event gains or loses a
\* place.
LEMMA GatherMissingConserved ==
  ASSUME Sound, NEW t \in Threads, GatherMissing(t), NEW e \in Transient(Event), Balanced(e)
  PROVE  Balanced(e)'
<1> DEFINE f == Top(t)
           k == f.task.order[f.next]
           a == IF f.found THEN f.task ELSE [Noted(f) EXCEPT !.outstanding = Bump(@, k)]
           g == [f EXCEPT !.task = a, !.next = @ + 1, !.found = FALSE]
<1>1. /\ Gathering(t) /\ Replace(t, <<g>>)
      /\ UNCHANGED <<outstandingEvents, registeredTasks, pausedTasks, ready, delivered, removed, fired>>
  BY DEF GatherMissing
<1>2. /\ todo[t] # <<>> /\ f.op = "gather" /\ f \in Frame
      /\ f \in [op : {"gather"}, call : {"register", "wait"}, task : Task,
                next : Nat, found : BOOLEAN]
      /\ f.task \in CleanTask /\ k \in Keys
      /\ Noted(f) \in CleanTask
      /\ ArrivedEvents(Noted(f)) = ArrivedEvents(f.task)
  BY <1>1, GatheringTypes DEF Sound
<1>3. a \in Task /\ ArrivedEvents(a) = ArrivedEvents(f.task)
  <2>1. CASE f.found
    BY <2>1, <1>2 DEF CleanTask
  <2>2. CASE ~f.found
    <3> HIDE DEF f, k
    <3>1. a = [Noted(f) EXCEPT !.outstanding = Bump(Noted(f).outstanding, k)]
      BY <2>2
    <3>2. Noted(f) \in Task /\ Noted(f).outstanding \in Count
      BY <1>2 DEF CleanTask, Task
    <3>3. Bump(Noted(f).outstanding, k) \in Count
      BY <1>2, <3>2, BumpCounts
    <3> HIDE DEF a
    <3>4. a \in Task /\ a.arrived = Noted(f).arrived
      BY <3>1, <3>2, <3>3 DEF Task
    <3>5. ArrivedEvents(a) = ArrivedEvents(Noted(f))
      BY <3>4 DEF ArrivedEvents
    <3> QED BY <1>2, <3>4, <3>5
  <2> QED BY <2>1, <2>2
<1> HIDE DEF f, a, k
<1>4. g \in Frame /\ g.op = "gather" /\ g.task = a
  <2> DEFINE n == f.next + 1
  <2>1. g = [f EXCEPT !.task = a, !.next = n, !.found = FALSE] /\ n \in Nat
    BY <1>2
  <2> HIDE DEF n, g
  <2>2. /\ g \in [op : {"gather"}, call : {"register", "wait"}, task : Task, next : Nat, found : BOOLEAN]
        /\ g.task = a
    BY <1>2, <1>3, <2>1
  <2> QED BY <2>2 DEF Frame
<1> HIDE DEF g
<1>5. f \in Keepers(e) <=> g \in Keepers(e)
  BY <1>2, <1>3, <1>4, KeeperFrames
<1>6. /\ IsFiniteSet(CallsIn(todo, e))' /\ InCalls(e) \in Nat
      /\ InCalls(e)' = InCalls(e) - Bit(f \in Keepers(e)) + Bit(g \in Keepers(e))
  BY <1>1, <1>2, <1>4, FrameSwapped DEF Sound, Balanced, f
<1>7. InCalls(e)' = InCalls(e)
  BY <1>5, <1>6 DEF Bit
<1> QED BY <1>1, <1>6, <1>7, CallsOnly

\* registerEvents goes on to start tasks and register the rest one by one: no
\* event gains or loses a place.
LEMMA FinishBatchConserved ==
  ASSUME Sound, NEW t \in Threads, FinishBatch(t), NEW e \in Transient(Event), Balanced(e)
  PROVE  Balanced(e)'
<1>1. /\ todo[t] # <<>> /\ Top(t).op = "batch" /\ Replace(t, BatchFrames(Top(t)))
      /\ UNCHANGED <<outstandingEvents, registeredTasks, pausedTasks, ready, delivered, removed, fired>>
  BY DEF FinishBatch, At, In, BatchFrames
<1>2. IsFiniteSet(CallsIn(todo, e))' /\ InCalls(e)' = InCalls(e)
  BY <1>1, CallsUnfolded DEF Sound, Balanced
<1> QED BY <1>1, <1>2, CallsOnly

\* The frame of a pass over the persistent tasks holds no event.
LEMMA PassConserved ==
  ASSUME Sound, NEW t \in Threads, todo[t] # <<>>, Top(t).op = "consume",
         NEW g \in Frame, g.op = "consume", Return(t) \/ Replace(t, <<g>>),
         NEW e, IsFiniteSet(CallsIn(todo, e))
  PROVE  IsFiniteSet(CallsIn(todo, e))' /\ InCalls(e)' = InCalls(e) /\ InCalls(e) \in Nat
<1> DEFINE f == Top(t)
<1>1. f \in Frame /\ f \notin Keepers(e) /\ g \notin Keepers(e)
  BY TopTypes, KeeperFrames DEF Sound
<1>2. Bit(f \in Keepers(e)) = 0 /\ Bit(g \in Keepers(e)) = 0
  BY <1>1 DEF Bit
<1>3. CASE Return(t)
  <2>1. /\ IsFiniteSet(CallsIn(todo, e))' /\ InCalls(e) \in Nat
        /\ InCalls(e)' = InCalls(e) - Bit(f \in Keepers(e))
    BY <1>1, <1>3, FramePopped DEF Sound
  <2> QED BY <1>2, <2>1
<1>4. CASE Replace(t, <<g>>)
  <2>1. /\ IsFiniteSet(CallsIn(todo, e))' /\ InCalls(e) \in Nat
        /\ InCalls(e)' = InCalls(e) - Bit(f \in Keepers(e)) + Bit(g \in Keepers(e))
    BY <1>1, <1>4, FrameSwapped DEF Sound
  <2> QED BY <1>2, <2>1
<1> QED BY <1>3, <1>4

\* consumeEventsByPersistentTasks takes the mutex: no event gains or loses a
\* place.
LEMMA ConsumeBeginConserved ==
  ASSUME Sound, NEW t \in Threads, ConsumeBegin(t), NEW e \in Transient(Event), Balanced(e)
  PROVE  Balanced(e)'
<1> DEFINE f == Top(t)
           g == [f EXCEPT !.at = 1, !.keys = Consumable(1)]
<1>1. /\ todo[t] # <<>> /\ f.op = "consume" /\ Replace(t, <<g>>)
      /\ UNCHANGED <<outstandingEvents, registeredTasks, pausedTasks, ready, delivered, removed, fired>>
  BY DEF ConsumeBegin, At, In
<1>2. f \in [op : {"consume"}, at : Nat, keys : SUBSET Keys, progress : BOOLEAN]
  BY <1>1, TopTypes, FrameKinds DEF Sound
<1>3. Consumable(1) \in SUBSET Keys
  BY ConsumableTypes DEF Sound
<1>4. g \in Frame /\ g.op = "consume"
  <2> HIDE DEF f
  <2>1. g \in [op : {"consume"}, at : Nat, keys : SUBSET Keys, progress : BOOLEAN]
    BY <1>2, <1>3
  <2> QED BY <2>1 DEF Frame
<1> HIDE DEF g
<1>5. IsFiniteSet(CallsIn(todo, e))' /\ InCalls(e)' = InCalls(e)
  BY <1>1, <1>4, PassConserved DEF Balanced
<1> QED BY <1>1, <1>5, CallsOnly

\* consumeEventsByPersistentTasks gives up the mutex: no event gains or loses a
\* place.
LEMMA ConsumeEndConserved ==
  ASSUME Sound, NEW t \in Threads, ConsumeEnd(t), NEW e \in Transient(Event), Balanced(e)
  PROVE  Balanced(e)'
<1> DEFINE f == Top(t)
           g == Anew(f)
<1>1. /\ todo[t] # <<>> /\ f.op = "consume"
      /\ Return(t) \/ Replace(t, <<g>>)
      /\ UNCHANGED <<outstandingEvents, registeredTasks, pausedTasks, ready, delivered, removed, fired>>
  BY DEF ConsumeEnd, At, In
<1>2. f \in [op : {"consume"}, at : Nat, keys : SUBSET Keys, progress : BOOLEAN]
  BY <1>1, TopTypes, FrameKinds DEF Sound
<1>3. Consumable(1) \in SUBSET Keys
  BY ConsumableTypes DEF Sound
<1>4. g \in Frame /\ g.op = "consume"
  <2> HIDE DEF f
  <2>1. g \in [op : {"consume"}, at : Nat, keys : SUBSET Keys, progress : BOOLEAN]
    BY <1>2, <1>3 DEF Anew
  <2> QED BY <2>1 DEF Frame
<1> HIDE DEF g
<1>5. IsFiniteSet(CallsIn(todo, e))' /\ InCalls(e)' = InCalls(e)
  BY <1>1, <1>4, PassConserved DEF Balanced
<1> QED BY <1>1, <1>5, CallsOnly

\* retrieveAnyMatchingEvents takes the mutex: no event gains or loses a place.
LEMMA RetrieveAnyConserved ==
  ASSUME Sound, NEW t \in Threads, RetrieveAny(t), NEW e \in Transient(Event), Balanced(e)
  PROVE  Balanced(e)'
<1>1. PICK order \in Menu.retrievals :
        todo' = [todo EXCEPT ![t] = <<[op |-> "retrieve", order |-> order]>>]
  BY DEF RetrieveAny
<1> DEFINE f == [op |-> "retrieve", order |-> order]
<1>2. order \in Seq(Keys)
  BY MenuTypes DEF Sound, Plain, Program
<1>3. f \in Frame /\ f.op = "retrieve"
  BY <1>2 DEF Frame
<1>4. /\ todo' = [todo EXCEPT ![t] = <<f>>] /\ todo[t] = <<>>
      /\ UNCHANGED <<outstandingEvents, registeredTasks, pausedTasks, ready, delivered, removed, fired>>
  BY <1>1 DEF RetrieveAny, MayCall, Outside
<1> HIDE DEF f
<1>5. f \notin Keepers(e)
  BY <1>3, KeeperFrames
<1>6. /\ IsFiniteSet(CallsIn(todo, e))' /\ InCalls(e) \in Nat
      /\ InCalls(e)' = InCalls(e) + Bit(f \in Keepers(e))
  BY <1>3, <1>4, CallsEntered DEF Sound, Balanced
<1>7. Bit(f \in Keepers(e)) = 0
  BY <1>5 DEF Bit
<1>8. InCalls(e)' = InCalls(e)
  BY <1>6, <1>7
<1> QED BY <1>4, <1>6, <1>8, CallsOnly

\* A thread whose wait is over is found and resumed: no event gains or loses a
\* place.
LEMMA MarkThreadResumeConserved ==
  ASSUME Sound, NEW t \in Threads, MarkThreadResume(t), NEW e \in Transient(Event), Balanced(e)
  PROVE  Balanced(e)'
<1> DEFINE f == [op |-> "resumed", task |-> Top(t).task]
<1>1. PICK u \in Threads :
        In(u, "paused") /\ todo' = [todo EXCEPT ![t] = Tail(@), ![u] = <<f>>]
  BY DEF MarkThreadResume
<1>2. /\ At(t, "resume") /\ f = [op |-> "resumed", task |-> Top(t).task]
      /\ UNCHANGED <<outstandingEvents, registeredTasks, pausedTasks, ready, delivered, removed, fired>>
  BY DEF MarkThreadResume
<1> HIDE DEF f
<1>3. IsFiniteSet(CallsIn(todo, e))' /\ InCalls(e)' = InCalls(e)
  BY <1>1, <1>2, CallsWoken DEF Sound, Balanced
<1> QED BY <1>2, <1>3, CallsOnly

\* What a list of tasks holds when it gains a task or loses one.
LEMMA ListCounts ==
  ASSUME NEW s \in Seq(Task), NEW e
  PROVE  /\ Num(s, Holders(e)) \in Nat
         /\ \A task \in Task :
              Num(Append(s, task), Holders(e)) = Num(s, Holders(e)) + Bit(e \in ArrivedEvents(task))
         /\ \A i \in 1 .. Len(s) :
              /\ Bit(e \in ArrivedEvents(s[i])) <= Num(s, Holders(e))
              /\ Num(RemoveAt(s, i), Holders(e)) =
                   Num(s, Holders(e)) - Bit(e \in ArrivedEvents(s[i]))
<1> DEFINE H == Holders(e)
<1>1. \A task \in Task : Bit(task \in H) = Bit(e \in ArrivedEvents(task))
  BY HolderTask DEF Bit
<1> HIDE DEF H
<1>2. Num(s, H) \in Nat
  BY NumNumber
<1>3. \A task \in Task : Num(Append(s, task), H) = Num(s, H) + Bit(task \in H)
  BY NumAppend
<1>4. ASSUME NEW i \in 1 .. Len(s)
      PROVE  /\ s[i] \in Task
             /\ Bit(s[i] \in H) <= Num(s, H)
             /\ Num(RemoveAt(s, i), H) = Num(s, H) - Bit(s[i] \in H)
  <2>1. /\ Num(RemoveAt(s, i), H) = Num(s, H) - Bit(s[i] \in H)
        /\ Num(RemoveAt(s, i), H) \in Nat
    BY NumRemove
  <2>2. s[i] \in Task
    OBVIOUS
  <2>3. Bit(s[i] \in H) \in Nat
    BY DEF Bit
  <2>4. Bit(s[i] \in H) <= Num(s, H)
    BY <1>2, <2>1, <2>3
  <2> QED BY <2>1, <2>2, <2>4
<1>5. \A task \in Task :
        Num(Append(s, task), H) = Num(s, H) + Bit(e \in ArrivedEvents(task))
  BY <1>1, <1>3
<1>6. ASSUME NEW i \in 1 .. Len(s)
      PROVE  /\ Bit(e \in ArrivedEvents(s[i])) <= Num(s, H)
             /\ Num(RemoveAt(s, i), H) = Num(s, H) - Bit(e \in ArrivedEvents(s[i]))
  <2>1. Bit(s[i] \in H) = Bit(e \in ArrivedEvents(s[i]))
    BY <1>1, <1>4
  <2> QED BY <1>4, <2>1
<1> QED BY <1>2, <1>5, <1>6 DEF H

\* The same, of a list in which one task is another afterwards.
LEMMA ListReplaced ==
  ASSUME NEW s \in Seq(Task), NEW i \in 1 .. Len(s), NEW task \in Task,
         NEW r, Changed(r, s, i, task), NEW e
  PROVE  /\ Bit(e \in ArrivedEvents(s[i])) <= Num(s, Holders(e))
         /\ Num(r, Holders(e)) =
              Num(s, Holders(e)) - Bit(e \in ArrivedEvents(s[i])) + Bit(e \in ArrivedEvents(task))
<1>1. /\ s[i] \in Task
      /\ s[i] \in Holders(e) <=> e \in ArrivedEvents(s[i])
      /\ task \in Holders(e) <=> e \in ArrivedEvents(task)
  BY HolderTask
<1>2. Bit(e \in ArrivedEvents(s[i])) <= Num(s, Holders(e))
  BY ListCounts
<1>3. Num(r, Holders(e)) =
        Num(s, Holders(e)) - Bit(s[i] \in Holders(e)) + Bit(task \in Holders(e))
  BY NumChanged
<1>4. /\ Bit(s[i] \in Holders(e)) = Bit(e \in ArrivedEvents(s[i]))
      /\ Bit(task \in Holders(e)) = Bit(e \in ArrivedEvents(task))
  BY <1>1 DEF Bit
<1> QED BY <1>2, <1>3, <1>4

\* The same, of a list from which a task is removed.
LEMMA ListRemoved ==
  ASSUME NEW s \in Seq(Task), NEW i \in 1 .. Len(s), NEW r, r = RemoveAt(s, i), NEW e
  PROVE  /\ Bit(e \in ArrivedEvents(s[i])) <= Num(s, Holders(e))
         /\ Num(r, Holders(e)) = Num(s, Holders(e)) - Bit(e \in ArrivedEvents(s[i]))
<1> DEFINE n == Bit(e \in ArrivedEvents(s[i]))
<1>1. n <= Num(s, Holders(e)) /\ Num(RemoveAt(s, i), Holders(e)) = Num(s, Holders(e)) - n
  BY ListCounts
<1> HIDE DEF n
<1>2. Num(r, Holders(e)) = Num(s, Holders(e)) - n
  BY <1>1
<1> QED BY <1>1, <1>2 DEF n

\* registerTask runs, registers or re-arms the task and gives up the mutex: no
\* event gains or loses a place.
LEMMA FinishRegisterTaskConserved ==
  ASSUME Sound, NEW t \in Threads, FinishRegisterTask(t), NEW e \in Transient(Event), Balanced(e)
  PROVE  Balanced(e)'
<1> DEFINE task == Top(t).task
<1>1. /\ todo[t] # <<>> /\ Top(t).op = "gather"
      /\ UNCHANGED <<outstandingEvents, pausedTasks, ready, delivered, removed, fired>>
  BY DEF FinishRegisterTask, Gathered, At, In
<1>2. Top(t) \in Frame /\ task \in CleanTask /\ task \in Task
  BY <1>1, TopTypes DEF Sound, CleanTask
<1>3. \/ /\ Replace(t, <<StartFrame(task), ConsumeFrame>>)
         /\ \/ registeredTasks' = registeredTasks
            \/ registeredTasks' = Append(registeredTasks, Rearm(task))
      \/ Return(t) /\ registeredTasks' = Append(registeredTasks, task)
  BY DEF FinishRegisterTask
<1>4. Rearm(task) \in Task /\ ArrivedEvents(Rearm(task)) = {}
  BY <1>2, RearmKeeps DEF CleanTask
<1>5. Top(t) \in Keepers(e) <=> e \in ArrivedEvents(task)
  BY <1>1, <1>2, KeeperFrames
<1> HIDE DEF task
<1>6. registeredTasks \in Seq(Task)
  BY TaskListTypes DEF Sound, TaskLists
<1>7. /\ InRegistered(e) \in Nat
      /\ registeredTasks' = Append(registeredTasks, Rearm(task)) => InRegistered(e)' = InRegistered(e)
      /\ registeredTasks' = Append(registeredTasks, task) =>
           InRegistered(e)' = InRegistered(e) + Bit(e \in ArrivedEvents(task))
  <2>1. Bit(e \in ArrivedEvents(Rearm(task))) = 0
    BY <1>4 DEF Bit
  <2> DEFINE r == Rearm(task)
  <2>2. r \in Task /\ Bit(e \in ArrivedEvents(r)) = 0
    BY <1>4, <2>1
  <2> HIDE DEF r
  <2>3. /\ Num(registeredTasks, Holders(e)) \in Nat
        /\ Num(Append(registeredTasks, r), Holders(e)) =
             Num(registeredTasks, Holders(e)) + Bit(e \in ArrivedEvents(r))
        /\ Num(Append(registeredTasks, task), Holders(e)) =
             Num(registeredTasks, Holders(e)) + Bit(e \in ArrivedEvents(task))
    BY <1>2, <1>6, <2>2, ListCounts
  <2>4. registeredTasks' = Append(registeredTasks, r) => InRegistered(e)' = InRegistered(e)
    BY <2>2, <2>3 DEF InRegistered
  <2>5. registeredTasks' = Append(registeredTasks, task) =>
          InRegistered(e)' = InRegistered(e) + Bit(e \in ArrivedEvents(task))
    BY <2>3 DEF InRegistered
  <2> QED BY <2>3, <2>4, <2>5 DEF InRegistered, r
<1>8. /\ InQueue(e)' = InQueue(e) /\ InPaused(e)' = InPaused(e)
      /\ InReady(e)' = InReady(e) /\ InHistory(e)' = InHistory(e) /\ fired' = fired
      /\ registeredTasks' = registeredTasks => InRegistered(e)' = InRegistered(e)
  BY <1>1, StillThere
<1>9. /\ InQueue(e) \in Nat /\ InPaused(e) \in Nat /\ InReady(e) \in Nat /\ InHistory(e) \in Nat
  BY Numbers DEF Sound, Transient
<1>10. CASE Replace(t, <<StartFrame(task), ConsumeFrame>>)
            /\ (registeredTasks' = registeredTasks
                  \/ registeredTasks' = Append(registeredTasks, Rearm(task)))
  <2> DEFINE fs == <<StartFrame(task), ConsumeFrame>>
  <2>1. fs \in Seq(Frame) /\ Head(fs).op # "batch"
        /\ Num(fs, Keepers(e)) = Bit(e \in ArrivedEvents(task))
    <3>1. Num(<<>>, Keepers(e)) = 0 /\ <<>> \in Seq(Frame)
      BY NumShort
    <3> DEFINE r == <<>>  gs == fs \o r
    <3>2. gs = fs
      OBVIOUS
    <3>3. r \in Seq(Frame) /\ Num(r, Keepers(e)) = 0
      BY <3>1
    <3> HIDE DEF r
    <3>4. gs \in Seq(Frame) /\ Head(gs).op = "start"
          /\ Num(gs, Keepers(e)) = Bit(e \in ArrivedEvents(task))
      BY <1>2, <3>3, StartsHeld
    <3> HIDE DEF gs, fs
    <3> QED BY <3>2, <3>4
  <2>2. Replace(t, fs)
    BY <1>10
  <2> HIDE DEF fs
  <2>3. /\ IsFiniteSet(CallsIn(todo, e))' /\ InCalls(e) \in Nat
        /\ Bit(Top(t) \in Keepers(e)) <= InCalls(e)
        /\ InCalls(e)' = InCalls(e) - Bit(Top(t) \in Keepers(e)) + Num(fs, Keepers(e))
    BY <1>1, <2>1, <2>2, CallsReplaced DEF Sound, Balanced
  <2>4. InCalls(e)' = InCalls(e)
    BY <1>5, <2>1, <2>3 DEF Bit
  <2>5. InRegistered(e)' = InRegistered(e)
    BY <1>7, <1>8, <1>10
  <2>6. Total(e)' = Total(e)
    BY <1>8, <2>4, <2>5 DEF Total
  <2> QED BY <1>8, <2>3, <2>6 DEF Balanced
<1>11. CASE Return(t) /\ registeredTasks' = Append(registeredTasks, task)
  <2>1. /\ IsFiniteSet(CallsIn(todo, e))' /\ InCalls(e) \in Nat
        /\ InCalls(e)' = InCalls(e) - Bit(Top(t) \in Keepers(e))
    BY <1>1, <1>11, FramePopped DEF Sound, Balanced
  <2>2. InCalls(e)' = InCalls(e) - Bit(e \in ArrivedEvents(task))
    BY <1>5, <2>1 DEF Bit
  <2>3. InRegistered(e)' = InRegistered(e) + Bit(e \in ArrivedEvents(task))
    BY <1>7, <1>11
  <2>4. Bit(e \in ArrivedEvents(task)) \in Nat
    BY DEF Bit
  <2>5. Total(e)' = Total(e)
    BY <1>7, <1>8, <1>9, <2>1, <2>2, <2>3, <2>4 DEF Total
  <2> QED BY <1>8, <2>1, <2>5 DEF Balanced
<1> QED BY <1>3, <1>10, <1>11

\* pauseTask goes on or goes to sleep: no event gains or loses a place.
LEMMA FinishPauseTaskConserved ==
  ASSUME Sound, NEW t \in Threads, FinishPauseTask(t), ~aborted',
         NEW e \in Transient(Event), Balanced(e)
  PROVE  Balanced(e)'
<1> DEFINE task == Top(t).task
           f == [op |-> "paused", id |-> task.id]
<1>1. /\ todo[t] # <<>> /\ Top(t).op = "gather"
      /\ UNCHANGED <<outstandingEvents, registeredTasks, ready, removed, fired>>
  BY DEF FinishPauseTask, Gathered, At, In
<1>2. Top(t) \in Frame /\ task \in CleanTask /\ task \in Task
  BY <1>1, TopTypes DEF Sound, CleanTask
<1>3. \/ Deliver(task) /\ Return(t) /\ pausedTasks' = pausedTasks
      \/ /\ pausedTasks' = Append(pausedTasks, task)
         /\ Replace(t, <<f>>) /\ delivered' = delivered
  BY DEF FinishPauseTask
<1>4. f \in Frame /\ f.op = "paused"
  BY <1>2 DEF Frame, Task
<1>5. (Top(t) \in Keepers(e) <=> e \in ArrivedEvents(task)) /\ f \notin Keepers(e)
  <2>1. Top(t) \in Keepers(e) <=> e \in ArrivedEvents(task)
    BY <1>1, <1>2, KeeperFrames
  <2> HIDE DEF f
  <2>2. f \notin Keepers(e)
    BY <1>4, KeeperFrames
  <2> QED BY <2>1, <2>2
<1> HIDE DEF task, f
<1> DEFINE n == Bit(e \in ArrivedEvents(task))
<1>6. n \in Nat /\ Bit(Top(t) \in Keepers(e)) = n /\ Bit(f \in Keepers(e)) = 0
  BY <1>5 DEF Bit
<1>7. /\ InQueue(e)' = InQueue(e) /\ InRegistered(e)' = InRegistered(e)
      /\ InReady(e)' = InReady(e) /\ fired' = fired
      /\ pausedTasks' = pausedTasks => InPaused(e)' = InPaused(e)
      /\ delivered' = delivered => InHistory(e)' = InHistory(e)
  BY <1>1, StillThere
<1>8. /\ InQueue(e) \in Nat /\ InRegistered(e) \in Nat /\ InPaused(e) \in Nat
      /\ InReady(e) \in Nat /\ InHistory(e) \in Nat
      /\ Total(e) \in {0, 1}
  <2>1. Total(e) \in {0, 1}
    BY DEF Balanced, Bit
  <2> QED BY <2>1, Numbers DEF Sound, Transient
<1>9. CASE Deliver(task) /\ Return(t) /\ pausedTasks' = pausedTasks
  <2>1. /\ IsFiniteSet(CallsIn(todo, e))' /\ InCalls(e) \in Nat /\ n <= InCalls(e)
        /\ InCalls(e)' = InCalls(e) - n
    BY <1>1, <1>6, <1>9, FramePopped DEF Sound, Balanced
  <2>2. ~(e \in delivered /\ e \in ArrivedEvents(task))
    <3> SUFFICES ASSUME e \in delivered, e \in ArrivedEvents(task) PROVE FALSE
      OBVIOUS
    <3>1. n = 1 /\ Bit(e \in delivered) = 1 /\ Bit(e \in removed) \in Nat
      BY DEF Bit
    <3>2. InHistory(e) >= 1
      BY <3>1 DEF InHistory
    <3> HIDE DEF n
    <3> QED BY <1>8, <2>1, <3>1, <3>2 DEF Total
  <2>3. InHistory(e)' = InHistory(e) + n
    BY <1>1, <1>9, <2>2, Delivered
  <2> HIDE DEF n
  <2>4. Total(e)' = Total(e)
    BY <1>6, <1>7, <1>8, <1>9, <2>1, <2>3 DEF Total
  <2> QED BY <1>7, <2>1, <2>4 DEF Balanced
<1>10. CASE /\ pausedTasks' = Append(pausedTasks, task)
            /\ Replace(t, <<f>>) /\ delivered' = delivered
  <2>1. /\ IsFiniteSet(CallsIn(todo, e))' /\ InCalls(e) \in Nat
        /\ InCalls(e)' = InCalls(e) - n
    <3>1. f.op # "batch"
      BY <1>4
    <3>2. /\ IsFiniteSet(CallsIn(todo, e))' /\ InCalls(e) \in Nat
          /\ InCalls(e)' = InCalls(e) - Bit(Top(t) \in Keepers(e)) + Bit(f \in Keepers(e))
      BY <1>1, <1>4, <1>10, <3>1, FrameSwapped DEF Sound, Balanced
    <3> HIDE DEF n
    <3> QED BY <1>6, <3>2
  <2>2. InPaused(e)' = InPaused(e) + n
    <3>1. pausedTasks \in Seq(Task)
      BY TaskListTypes DEF Sound, TaskLists
    <3> QED BY <1>2, <1>10, <3>1, ListCounts DEF InPaused
  <2> HIDE DEF n
  <2>3. Total(e)' = Total(e)
    BY <1>6, <1>7, <1>8, <1>10, <2>1, <2>2 DEF Total
  <2> QED BY <1>7, <2>1, <2>3 DEF Balanced
<1> QED BY <1>3, <1>9, <1>10

-----------------------------------------------------------------------------
(* readyToRunTask, the thread pool and the end of a wait                   *)

\* readyToRunTask gives a task to the pool: no event gains or loses a place.
LEMMA ReadyToRunTaskConserved ==
  ASSUME Sound, NEW t \in Threads, ReadyToRunTask(t), NEW e \in Transient(Event), Balanced(e)
  PROVE  Balanced(e)'
<1> DEFINE task == Top(t).task
           n == Bit(e \in ArrivedEvents(task))
<1>1. /\ todo[t] # <<>> /\ Top(t).op = "start" /\ Return(t) /\ ready' = Append(ready, task)
      /\ UNCHANGED <<outstandingEvents, registeredTasks, pausedTasks, delivered, removed, fired>>
  BY DEF ReadyToRunTask, At, In
<1>2. Top(t) \in Frame /\ task \in Task
  BY <1>1, TopTypes, FrameKinds DEF Sound
<1>3. Top(t) \in Keepers(e) <=> e \in ArrivedEvents(task)
  BY <1>1, <1>2, KeeperFrames
<1>4. n \in Nat /\ Bit(Top(t) \in Keepers(e)) = n
  BY <1>3 DEF Bit
<1> HIDE DEF task
<1>5. InReady(e)' = InReady(e) + n
  <2>1. ready \in Seq(Task)
    BY DEF Sound, TaskLists
  <2> QED BY <1>1, <1>2, <2>1, ListCounts DEF InReady
<1> HIDE DEF n
<1>6. /\ IsFiniteSet(CallsIn(todo, e))' /\ InCalls(e) \in Nat
      /\ InCalls(e)' = InCalls(e) - n
  BY <1>1, <1>4, FramePopped DEF Sound, Balanced
<1>7. /\ InQueue(e)' = InQueue(e) /\ InRegistered(e)' = InRegistered(e)
      /\ InPaused(e)' = InPaused(e) /\ InHistory(e)' = InHistory(e) /\ fired' = fired
  BY <1>1, StillThere
<1>8. /\ InQueue(e) \in Nat /\ InRegistered(e) \in Nat /\ InPaused(e) \in Nat
      /\ InReady(e) \in Nat /\ InHistory(e) \in Nat
  BY Numbers DEF Sound, Transient
<1>9. Total(e)' = Total(e)
  BY <1>4, <1>5, <1>6, <1>7, <1>8 DEF Total
<1> QED BY <1>6, <1>7, <1>9 DEF Balanced

\* A task runs with its events: no event gains or loses a place.
LEMMA RunTaskConserved ==
  ASSUME Sound, RunTask, ~aborted', NEW e \in Transient(Event), Balanced(e)
  PROVE  Balanced(e)'
<1>1. PICK i \in DOMAIN ready : Deliver(ready[i]) /\ ready' = RemoveAt(ready, i)
  BY DEF RunTask
<1> DEFINE task == ready[i]
           n == Bit(e \in ArrivedEvents(task))
<1>2. ready \in Seq(Task) /\ i \in 1 .. Len(ready)
  BY DEF Sound, TaskLists
<1>3. /\ removed' = removed /\ todo' = todo /\ fired' = fired
      /\ UNCHANGED <<outstandingEvents, registeredTasks, pausedTasks>>
  BY DEF RunTask
<1>4. n <= InReady(e) /\ InReady(e)' = InReady(e) - n /\ n \in Nat
  <2>1. n \in Nat
    BY DEF Bit
  <2> QED BY <1>1, <1>2, <2>1, ListCounts DEF InReady
<1>5. /\ InQueue(e)' = InQueue(e) /\ InRegistered(e)' = InRegistered(e)
      /\ InPaused(e)' = InPaused(e) /\ InCalls(e)' = InCalls(e)
      /\ CallsIn(todo, e)' = CallsIn(todo, e)
  BY <1>3, StillThere
<1>6. /\ InQueue(e) \in Nat /\ InRegistered(e) \in Nat /\ InPaused(e) \in Nat
      /\ InReady(e) \in Nat /\ InHistory(e) \in Nat /\ InCalls(e) \in Nat
      /\ Total(e) \in {0, 1}
  <2>1. Total(e) \in {0, 1} /\ IsFiniteSet(CallsIn(todo, e))
    BY DEF Balanced, Bit
  <2> QED BY <2>1, Numbers DEF Sound, Transient
<1>7. ~(e \in delivered /\ e \in ArrivedEvents(task))
  <2> SUFFICES ASSUME e \in delivered, e \in ArrivedEvents(task) PROVE FALSE
    OBVIOUS
  <2>1. n = 1 /\ Bit(e \in delivered) = 1 /\ Bit(e \in removed) \in Nat
    BY DEF Bit
  <2>2. InHistory(e) >= 1
    BY <2>1 DEF InHistory
  <2> HIDE DEF n
  <2> QED BY <1>4, <1>6, <2>1, <2>2 DEF Total
<1>8. InHistory(e)' = InHistory(e) + n
  BY <1>1, <1>3, <1>7, Delivered
<1> HIDE DEF n
<1>9. Total(e)' = Total(e)
  BY <1>4, <1>5, <1>6, <1>8 DEF Total
<1>10. IsFiniteSet(CallsIn(todo, e))'
  BY <1>5 DEF Balanced
<1> QED BY <1>3, <1>9, <1>10 DEF Balanced

\* pauseTask returns the events of the wait: no event gains or loses a place.
LEMMA ResumedConserved ==
  ASSUME Sound, NEW t \in Threads, Resumed(t), ~aborted', NEW e \in Transient(Event), Balanced(e)
  PROVE  Balanced(e)'
<1> DEFINE task == Top(t).task
           n == Bit(e \in ArrivedEvents(task))
<1>1. /\ todo[t] # <<>> /\ Top(t).op = "resumed" /\ Deliver(task) /\ Return(t)
      /\ UNCHANGED <<outstandingEvents, registeredTasks, pausedTasks, ready, removed, fired>>
  BY DEF Resumed, At, In
<1>2. Top(t) \in Frame /\ task \in Task
  BY <1>1, TopTypes, FrameKinds DEF Sound
<1>3. Top(t) \in Keepers(e) <=> e \in ArrivedEvents(task)
  BY <1>1, <1>2, KeeperFrames
<1>4. n \in Nat /\ Bit(Top(t) \in Keepers(e)) = n
  BY <1>3 DEF Bit
<1> HIDE DEF task
<1>5. /\ IsFiniteSet(CallsIn(todo, e))' /\ InCalls(e) \in Nat /\ n <= InCalls(e)
      /\ InCalls(e)' = InCalls(e) - n
  BY <1>1, <1>4, FramePopped DEF Sound, Balanced
<1>6. /\ InQueue(e)' = InQueue(e) /\ InRegistered(e)' = InRegistered(e)
      /\ InPaused(e)' = InPaused(e) /\ InReady(e)' = InReady(e) /\ fired' = fired
  BY <1>1, StillThere
<1>7. /\ InQueue(e) \in Nat /\ InRegistered(e) \in Nat /\ InPaused(e) \in Nat
      /\ InReady(e) \in Nat /\ InHistory(e) \in Nat /\ Total(e) \in {0, 1}
  <2>1. Total(e) \in {0, 1}
    BY DEF Balanced, Bit
  <2> QED BY <2>1, Numbers DEF Sound, Transient
<1>8. ~(e \in delivered /\ e \in ArrivedEvents(task))
  <2> SUFFICES ASSUME e \in delivered, e \in ArrivedEvents(task) PROVE FALSE
    OBVIOUS
  <2>1. n = 1 /\ Bit(e \in delivered) = 1 /\ Bit(e \in removed) \in Nat
    BY DEF Bit
  <2>2. InHistory(e) >= 1
    BY <2>1 DEF InHistory
  <2> HIDE DEF n
  <2> QED BY <1>5, <1>7, <2>1, <2>2 DEF Total
<1>9. InHistory(e)' = InHistory(e) + n
  BY <1>1, <1>8, Delivered
<1> HIDE DEF n
<1>10. Total(e)' = Total(e)
  BY <1>4, <1>5, <1>6, <1>7, <1>9 DEF Total
<1> QED BY <1>5, <1>6, <1>10 DEF Balanced

\* removeTask removes a task with its events: no event gains or loses a place.
LEMMA RemoveTaskConserved ==
  ASSUME Sound, NEW t \in Threads, RemoveTask(t), NEW e \in Transient(Event), Balanced(e)
  PROVE  Balanced(e)'
<1>1. /\ UNCHANGED <<outstandingEvents, pausedTasks, ready, delivered, fired>>
      /\ todo' = todo
  BY DEF RemoveTask
<1>2. PICK name \in Names \ {NoName} :
        \/ UNCHANGED <<registeredTasks, removed>>
        \/ LET i == LeastIndex(Named(name)) IN
             /\ Named(name) # {}
             /\ registeredTasks' = RemoveAt(registeredTasks, i)
             /\ removed' = removed \union ArrivedEvents(registeredTasks[i])
  BY DEF RemoveTask
<1>3. /\ InQueue(e)' = InQueue(e) /\ InPaused(e)' = InPaused(e) /\ InReady(e)' = InReady(e)
      /\ InCalls(e)' = InCalls(e) /\ CallsIn(todo, e)' = CallsIn(todo, e) /\ fired' = fired
      /\ registeredTasks' = registeredTasks => InRegistered(e)' = InRegistered(e)
      /\ removed' = removed => InHistory(e)' = InHistory(e)
  BY <1>1, StillThere
<1>4. /\ InQueue(e) \in Nat /\ InRegistered(e) \in Nat /\ InPaused(e) \in Nat
      /\ InReady(e) \in Nat /\ InHistory(e) \in Nat /\ InCalls(e) \in Nat
      /\ Total(e) \in {0, 1}
  <2>1. Total(e) \in {0, 1} /\ IsFiniteSet(CallsIn(todo, e))
    BY DEF Balanced, Bit
  <2> QED BY <2>1, Numbers DEF Sound, Transient
<1>5. Total(e)' = Total(e)
  <2>1. CASE UNCHANGED <<registeredTasks, removed>>
    BY <2>1, <1>3 DEF Total
  <2>2. CASE ~UNCHANGED <<registeredTasks, removed>>
    <3> DEFINE i == LeastIndex(Named(name))  A == ArrivedEvents(registeredTasks[i])
               n == Bit(e \in A)
    <3>1. /\ Named(name) # {} /\ registeredTasks' = RemoveAt(registeredTasks, i)
          /\ removed' = removed \union A
      BY <1>2, <2>2
    <3>2. /\ registeredTasks \in Seq(Task) /\ i \in 1 .. Len(registeredTasks)
      BY <3>1, NamedTask, TaskListTypes DEF Sound, TaskLists
    <3> HIDE DEF i
    <3>3. n \in Nat /\ n <= InRegistered(e) /\ InRegistered(e)' = InRegistered(e) - n
      <4>1. n \in Nat
        BY DEF Bit
      <4> QED BY <3>1, <3>2, <4>1, ListCounts DEF InRegistered
    <3> HIDE DEF A
    <3>4. ~(e \in removed /\ e \in A)
      <4> SUFFICES ASSUME e \in removed, e \in A PROVE FALSE
        OBVIOUS
      <4>1. n = 1 /\ Bit(e \in removed) = 1 /\ Bit(e \in delivered) \in Nat
        BY DEF Bit
      <4>2. InHistory(e) >= 1
        BY <4>1 DEF InHistory
      <4> HIDE DEF n
      <4> QED BY <1>4, <3>3, <4>1, <4>2 DEF Total
    <3>5. InHistory(e)' = InHistory(e) + n
      <4>1. Bit(e \in removed)' = IF e \in removed' THEN 1 ELSE 0
        BY DEF Bit
      <4>2. Bit(e \in removed)' = Bit(e \in removed) + n
        BY <3>1, <3>4, <4>1 DEF Bit
      <4>3. Bit(e \in removed) \in Nat /\ Bit(e \in delivered) \in Nat
        BY DEF Bit
      <4>4. Bit(e \in delivered)' = Bit(e \in delivered)
        BY <1>1
      <4> HIDE DEF n
      <4> QED BY <3>3, <4>2, <4>3, <4>4 DEF InHistory
    <3> HIDE DEF n
    <3> QED BY <1>3, <1>4, <3>3, <3>5 DEF Total
  <2> QED BY <2>1, <2>2
<1>6. IsFiniteSet(CallsIn(todo, e))'
  BY <1>3 DEF Balanced
<1> QED BY <1>3, <1>5, <1>6 DEF Balanced

\* retrieveAnyMatchingEvents takes an event out of the store, or is done: no
\* event gains or loses a place.
LEMMA RetrieveNextConserved ==
  ASSUME Sound, NEW t \in Threads, RetrieveNext(t), NEW e \in Transient(Event), Balanced(e)
  PROVE  Balanced(e)'
<1> DEFINE f == Top(t)
           k == Head(f.order)
           g == [f EXCEPT !.order = Tail(@)]
<1>1. /\ todo[t] # <<>> /\ f.op = "retrieve"
      /\ UNCHANGED <<registeredTasks, pausedTasks, ready, removed, fired>>
  BY DEF RetrieveNext, At, In
<1>2. \/ Return(t) /\ UNCHANGED <<outstandingEvents, delivered>>
      \/ /\ f.order # <<>> /\ Replace(t, <<g>>)
         /\ UNCHANGED <<outstandingEvents, delivered>>
      \/ /\ f.order # <<>> /\ Replace(t, <<g>>)
         /\ IsStored(k) /\ TakeFirst(k) /\ delivered' = delivered \union {First(k)}
  BY DEF RetrieveNext
<1>3. f \in [op : {"retrieve"}, order : Seq(Keys)] /\ f \in Frame
  BY <1>1, TopTypes, FrameKinds DEF Sound
<1>4. f.order # <<>> => k \in Keys /\ g \in Frame /\ g.op = "retrieve"
  <2> SUFFICES ASSUME f.order # <<>> PROVE k \in Keys /\ g \in Frame /\ g.op = "retrieve"
    OBVIOUS
  <2>1. k \in Keys /\ Tail(f.order) \in Seq(Keys)
    BY <1>3
  <2> HIDE DEF f
  <2>2. g \in [op : {"retrieve"}, order : Seq(Keys)] /\ g.op = "retrieve"
    BY <1>3, <2>1
  <2> HIDE DEF g
  <2>3. g \in Frame
    BY <2>2 DEF Frame
  <2> QED BY <2>1, <2>2, <2>3
<1> HIDE DEF f, k, g
<1>5. IsFiniteSet(CallsIn(todo, e))' /\ InCalls(e)' = InCalls(e) /\ InCalls(e) \in Nat
  <2>1. f \notin Keepers(e) /\ (f.order # <<>> => g \notin Keepers(e))
    BY <1>1, <1>3, <1>4, KeeperFrames
  <2>2. Bit(f \in Keepers(e)) = 0 /\ (f.order # <<>> => Bit(g \in Keepers(e)) = 0)
    BY <2>1 DEF Bit
  <2>3. CASE Return(t)
    <3>1. /\ IsFiniteSet(CallsIn(todo, e))' /\ InCalls(e) \in Nat
          /\ InCalls(e)' = InCalls(e) - Bit(f \in Keepers(e))
      BY <1>1, <2>3, FramePopped DEF Sound, Balanced, f
    <3> QED BY <2>2, <3>1
  <2>4. CASE f.order # <<>> /\ Replace(t, <<g>>)
    <3>1. /\ IsFiniteSet(CallsIn(todo, e))' /\ InCalls(e) \in Nat
          /\ InCalls(e)' = InCalls(e) - Bit(f \in Keepers(e)) + Bit(g \in Keepers(e))
      BY <1>1, <1>4, <2>4, FrameSwapped DEF Sound, Balanced, f
    <3> QED BY <2>2, <2>4, <3>1
  <2> QED BY <1>2, <2>3, <2>4
<1>6. CASE UNCHANGED <<outstandingEvents, delivered>>
  BY <1>1, <1>5, <1>6, CallsOnly
<1>7. CASE /\ f.order # <<>>
           /\ IsStored(k) /\ TakeFirst(k) /\ delivered' = delivered \union {First(k)}
  <2> DEFINE x == First(k)  n == Bit(e = x)
  <2>1. InQueue(e) \in Nat /\ n <= InQueue(e) /\ InQueue(e)' = InQueue(e) - n
    BY <1>4, <1>7, QueueTaken DEF Sound, Plain
  <2>2. /\ InRegistered(e)' = InRegistered(e)
        /\ InPaused(e)' = InPaused(e) /\ InReady(e)' = InReady(e) /\ fired' = fired
    BY <1>1, StillThere
  <2>3. /\ InRegistered(e) \in Nat /\ InPaused(e) \in Nat
        /\ InReady(e) \in Nat /\ InHistory(e) \in Nat /\ Total(e) \in {0, 1}
    <3>1. Total(e) \in {0, 1}
      BY DEF Balanced, Bit
    <3> QED BY <3>1, Numbers DEF Sound, Transient
  <2>a. delivered' = delivered \union {x}
    BY <1>7
  <2> HIDE DEF x
  <2>4. ~(e \in delivered /\ e = x)
    <3> SUFFICES ASSUME e \in delivered, e = x PROVE FALSE
      OBVIOUS
    <3>1. n = 1 /\ Bit(e \in delivered) = 1 /\ Bit(e \in removed) \in Nat
      BY DEF Bit
    <3>2. InHistory(e) >= 1
      BY <3>1 DEF InHistory
    <3> HIDE DEF n
    <3> QED BY <1>5, <2>1, <2>3, <3>1, <3>2 DEF Total
  <2>5. InHistory(e)' = InHistory(e) + n /\ n \in Nat
    <3>1. Bit(e \in delivered)' = IF e \in delivered' THEN 1 ELSE 0
      BY DEF Bit
    <3>2. Bit(e \in delivered)' = Bit(e \in delivered) + n
      BY <2>a, <2>4, <3>1 DEF Bit
    <3>3. Bit(e \in delivered) \in Nat /\ Bit(e \in removed) \in Nat /\ n \in Nat
      BY DEF Bit
    <3>4. Bit(e \in removed)' = Bit(e \in removed)
      BY <1>1
    <3> HIDE DEF n
    <3> QED BY <3>2, <3>3, <3>4 DEF InHistory
  <2> HIDE DEF n
  <2>6. Total(e)' = Total(e)
    BY <1>5, <2>1, <2>2, <2>3, <2>5 DEF Total
  <2> QED BY <1>5, <2>2, <2>6 DEF Balanced
<1> QED BY <1>2, <1>6, <1>7

-----------------------------------------------------------------------------
(* registerEvent                                                           *)

\* registerEvent gives the event to a registered task: no event gains or loses
\* a place.
LEMMA MatchRegisteredConserved ==
  ASSUME Sound, NEW t \in Threads, MatchRegistered(t), NEW e \in Transient(Event), Balanced(e)
  PROVE  Balanced(e)'
<1> DEFINE x == Top(t).event
           i == LeastIndex(Matching(registeredTasks, x.key))
           old == registeredTasks[i]
           task == Satisfy(old, x.key, x)
           fs == <<StartFrame(task), ConsumeFrame>> \o Again(t)
<1>1. /\ Registering(t)
      /\ UNCHANGED <<outstandingEvents, pausedTasks, ready, delivered, removed, fired>>
  BY DEF MatchRegistered
<1>2. /\ todo[t] # <<>> /\ Top(t).op = "event" /\ Top(t) \in Frame /\ x \in Event /\ x.key \in Keys
      /\ Again(t) = <<>> \/ Again(t) = <<Top(t)>>
      /\ ~x.persistent => Again(t) = <<>>
  BY <1>1, RegisteringTypes
<1>3. Matching(registeredTasks, x.key) # {} /\ registeredTasks \in Seq(CleanTask)
  BY DEF MatchRegistered, Sound, TaskLists
<1>4. /\ i \in 1 .. Len(registeredTasks) /\ task \in CleanTask /\ task \in Task
      /\ old \in CleanTask /\ Depends(old.outstanding, x.key)
  BY <1>2, <1>3, MatchingTask DEF CleanTask
<1>5. ArrivedEvents(task) = ArrivedEvents(old) \union {x}
  <2> HIDE DEF i, old, x
  <2> QED BY <1>2, <1>4, SatisfyKeeps
<1>6. \/ /\ registeredTasks' = [registeredTasks EXCEPT ![i] = Rearm(task)]
            \/ registeredTasks' = RemoveAt(registeredTasks, i)
         /\ Replace(t, fs)
      \/ /\ registeredTasks' = [registeredTasks EXCEPT ![i] = task]
         /\ Replace(t, Again(t))
  BY DEF MatchRegistered
<1>7. (Top(t) \in Keepers(e) <=> e = x)
  BY <1>2, KeeperFrames
<1>8. /\ Again(t) \in Seq(Frame) /\ Num(Again(t), Keepers(e)) = 0
      /\ Again(t) # <<>> => Head(Again(t)).op # "batch"
  BY <1>1, AgainHeld
<1>9. Rearm(task) \in Task /\ ArrivedEvents(Rearm(task)) = {}
  BY <1>4, RearmKeeps DEF CleanTask
<1>10. fs \in Seq(Frame) /\ Head(fs).op = "start" /\ fs # <<>>
       /\ Num(fs, Keepers(e)) = Bit(e \in ArrivedEvents(task))
  <2> HIDE DEF x, i, old, task
  <2> DEFINE r == Again(t)  gs == <<StartFrame(task), ConsumeFrame>> \o r
  <2>1. r \in Seq(Frame) /\ Num(r, Keepers(e)) = 0
    BY <1>8
  <2> HIDE DEF r
  <2>2. gs \in Seq(Frame) /\ Head(gs).op = "start" /\ gs # <<>>
        /\ Num(gs, Keepers(e)) = Bit(e \in ArrivedEvents(task))
    BY <1>4, <2>1, StartsHeld
  <2>3. fs = gs
    BY DEF r
  <2> HIDE DEF gs, fs
  <2> QED BY <2>2, <2>3
<1> HIDE DEF x, i, old, task, fs
<1> DEFINE n == Bit(e \in ArrivedEvents(old))  b == Bit(e = x)
           c == Bit(e \in ArrivedEvents(task))
<1>11. /\ n \in Nat /\ b \in Nat /\ c \in Nat /\ Bit(Top(t) \in Keepers(e)) = b
       /\ n + b <= 1 => c = n + b
  BY <1>5, <1>7 DEF Bit
<1>12. InRegistered(e) \in Nat /\ n <= InRegistered(e)
  <2>1. registeredTasks \in Seq(Task)
    BY <1>3, TaskListTypes
  <2>2. n <= Num(registeredTasks, Holders(e))
    BY <1>4, <2>1, ListCounts DEF old
  <2>3. Num(registeredTasks, Holders(e)) \in Nat
    BY <2>1, ListCounts
  <2> QED BY <2>2, <2>3 DEF InRegistered
<1>a. /\ registeredTasks' = RemoveAt(registeredTasks, i) => InRegistered(e)' = InRegistered(e) - n
      /\ registeredTasks' = [registeredTasks EXCEPT ![i] = Rearm(task)] =>
           InRegistered(e)' = InRegistered(e) - n
      /\ registeredTasks' = [registeredTasks EXCEPT ![i] = task] =>
           InRegistered(e)' = InRegistered(e) - n + c
  <2>1. registeredTasks \in Seq(Task)
    BY <1>3, TaskListTypes
  <2> DEFINE r == Rearm(task)
  <2>2. r \in Task /\ Bit(e \in ArrivedEvents(r)) = 0
    BY <1>9 DEF Bit
  <2> HIDE DEF r, n, c
  <2>3. ASSUME registeredTasks' = RemoveAt(registeredTasks, i)
        PROVE  InRegistered(e)' = InRegistered(e) - n
    BY <1>4, <2>1, <2>3, ListRemoved DEF InRegistered, n, old
  <2>4. ASSUME registeredTasks' = [registeredTasks EXCEPT ![i] = r]
        PROVE  InRegistered(e)' = InRegistered(e) - n
    <3>0. Changed(registeredTasks', registeredTasks, i, r)
      BY <2>4 DEF Changed
    <3>1. InRegistered(e)' = InRegistered(e) - n + Bit(e \in ArrivedEvents(r))
      BY <1>4, <2>1, <2>2, <3>0, ListReplaced DEF InRegistered, n, old
    <3> QED BY <1>11, <1>12, <2>2, <3>1
  <2>5. ASSUME registeredTasks' = [registeredTasks EXCEPT ![i] = task]
        PROVE  InRegistered(e)' = InRegistered(e) - n + c
    <3>0. Changed(registeredTasks', registeredTasks, i, task)
      BY <2>5 DEF Changed
    <3> QED BY <1>4, <2>1, <3>0, ListReplaced DEF InRegistered, n, c, old
  <2> QED BY <2>3, <2>4, <2>5 DEF r
<1>13. /\ InQueue(e)' = InQueue(e) /\ InPaused(e)' = InPaused(e)
       /\ InReady(e)' = InReady(e) /\ InHistory(e)' = InHistory(e) /\ fired' = fired
  BY <1>1, StillThere
<1>14. /\ InQueue(e) \in Nat /\ InPaused(e) \in Nat /\ InReady(e) \in Nat
       /\ InHistory(e) \in Nat /\ Total(e) \in {0, 1}
  <2>1. Total(e) \in {0, 1}
    BY DEF Balanced, Bit
  <2> QED BY <2>1, Numbers DEF Sound, Transient
<1>15. CASE /\ registeredTasks' = [registeredTasks EXCEPT ![i] = Rearm(task)]
               \/ registeredTasks' = RemoveAt(registeredTasks, i)
            /\ Replace(t, fs)
  <2>1. /\ IsFiniteSet(CallsIn(todo, e))' /\ InCalls(e) \in Nat /\ b <= InCalls(e)
        /\ InCalls(e)' = InCalls(e) - b + c
    <3>1. /\ IsFiniteSet(CallsIn(todo, e))' /\ InCalls(e) \in Nat
          /\ Bit(Top(t) \in Keepers(e)) <= InCalls(e)
          /\ InCalls(e)' = InCalls(e) - Bit(Top(t) \in Keepers(e)) + Num(fs, Keepers(e))
      BY <1>2, <1>10, <1>15, CallsReplaced DEF Sound, Balanced
    <3> QED BY <1>10, <1>11, <3>1
  <2>2. InRegistered(e)' = InRegistered(e) - n
    BY <1>a, <1>15
  <2> HIDE DEF n, b, c
  <2>3. n + b <= 1
    BY <1>11, <1>12, <1>14, <2>1 DEF Total
  <2>4. Total(e)' = Total(e)
    BY <1>11, <1>12, <1>13, <1>14, <2>1, <2>2, <2>3 DEF Total
  <2> QED BY <1>13, <2>1, <2>4 DEF Balanced
<1>16. CASE registeredTasks' = [registeredTasks EXCEPT ![i] = task] /\ Replace(t, Again(t))
  <2>1. /\ IsFiniteSet(CallsIn(todo, e))' /\ InCalls(e) \in Nat /\ b <= InCalls(e)
        /\ InCalls(e)' = InCalls(e) - b
    <3>1. /\ IsFiniteSet(CallsIn(todo, e))' /\ InCalls(e) \in Nat
          /\ Bit(Top(t) \in Keepers(e)) <= InCalls(e)
          /\ InCalls(e)' = InCalls(e) - Bit(Top(t) \in Keepers(e)) + Num(Again(t), Keepers(e))
      BY <1>2, <1>8, <1>16, CallsReplaced DEF Sound, Balanced
    <3> HIDE DEF b
    <3> QED BY <1>8, <1>11, <3>1
  <2>2. InRegistered(e)' = InRegistered(e) - n + c
    BY <1>a, <1>16
  <2> HIDE DEF n, b, c
  <2>3. n + b <= 1
    BY <1>11, <1>12, <1>14, <2>1 DEF Total
  <2>4. Total(e)' = Total(e)
    BY <1>11, <1>12, <1>13, <1>14, <2>1, <2>2, <2>3 DEF Total
  <2> QED BY <1>13, <2>1, <2>4 DEF Balanced
<1> QED BY <1>6, <1>15, <1>16
\* What a frame holds that goes before what is left of a persistent event.
LEMMA LeadHeld ==
  ASSUME NEW f \in Frame, NEW rest \in Seq(Frame), NEW e, Num(rest, Keepers(e)) = 0
  PROVE  LET fs == <<f>> \o rest IN
           /\ fs \in Seq(Frame) /\ fs # <<>> /\ Head(fs) = f
           /\ Num(fs, Keepers(e)) = Bit(f \in Keepers(e))
<1> DEFINE p == <<f>>  K == Keepers(e)
<1>1. p \in Seq(Frame) /\ Len(p) = 1 /\ p[1] = f
  OBVIOUS
<1>2. Num(p, K) = Bit(f \in K)
  BY NumShort
<1> HIDE DEF p, K
<1>3. Num(p \o rest, K) = Num(p, K) + Num(rest, K)
  BY <1>1, NumConcat
<1>4. Bit(f \in K) \in Nat
  BY DEF Bit
<1>5. Num(p \o rest, K) = Bit(f \in K)
  BY <1>2, <1>3, <1>4 DEF K
<1>6. /\ p \o rest \in Seq(Frame) /\ Len(p \o rest) = Len(p) + Len(rest)
      /\ \A i \in 1 .. Len(p) + Len(rest) :
            (p \o rest)[i] = IF i <= Len(p) THEN p[i] ELSE rest[i - Len(p)]
  BY <1>1, ConcatProperties
<1>7. p \o rest # <<>> /\ Head(p \o rest) = f
  <2>1. Len(p \o rest) >= 1 /\ (p \o rest)[1] = f
    BY <1>1, <1>6
  <2> QED BY <1>6, <2>1
<1> QED BY <1>5, <1>6, <1>7 DEF p, K

\* registerEvent gives the event to a paused task: no event gains or loses a
\* place.
LEMMA MatchPausedConserved ==
  ASSUME Sound, NEW t \in Threads, MatchPaused(t), NEW e \in Transient(Event), Balanced(e)
  PROVE  Balanced(e)'
<1> DEFINE x == Top(t).event
           i == LeastIndex(Matching(pausedTasks, x.key))
           old == pausedTasks[i]
           task == Satisfy(old, x.key, x)
           f == [op |-> "resume", task |-> task]
           fs == <<f>> \o Again(t)
<1>1. /\ Registering(t)
      /\ UNCHANGED <<outstandingEvents, registeredTasks, ready, delivered, removed, fired>>
  BY DEF MatchPaused
<1>2. /\ todo[t] # <<>> /\ Top(t).op = "event" /\ Top(t) \in Frame /\ x \in Event /\ x.key \in Keys
      /\ Again(t) = <<>> \/ Again(t) = <<Top(t)>>
      /\ ~x.persistent => Again(t) = <<>>
  BY <1>1, RegisteringTypes
<1>3. Matching(pausedTasks, x.key) # {} /\ pausedTasks \in Seq(CleanTask)
  BY DEF MatchPaused, Sound, TaskLists
<1>4. /\ i \in 1 .. Len(pausedTasks) /\ task \in CleanTask /\ task \in Task
      /\ old \in CleanTask /\ Depends(old.outstanding, x.key)
  BY <1>2, <1>3, MatchingTask DEF CleanTask
<1>5. ArrivedEvents(task) = ArrivedEvents(old) \union {x}
  <2> HIDE DEF i, old, x
  <2> QED BY <1>2, <1>4, SatisfyKeeps
<1>6. \/ pausedTasks' = RemoveAt(pausedTasks, i) /\ Replace(t, fs)
      \/ /\ pausedTasks' = [pausedTasks EXCEPT ![i] = task]
         /\ Replace(t, Again(t))
  BY DEF MatchPaused
<1>7. (Top(t) \in Keepers(e) <=> e = x)
  BY <1>2, KeeperFrames
<1>8. /\ Again(t) \in Seq(Frame) /\ Num(Again(t), Keepers(e)) = 0
      /\ Again(t) # <<>> => Head(Again(t)).op # "batch"
  BY <1>1, AgainHeld
<1> HIDE DEF x, i, old, task
<1>9. f \in Frame /\ f.op = "resume" /\ f.task = task
  BY <1>4 DEF Frame
<1> HIDE DEF f
<1>10. fs \in Seq(Frame) /\ Head(fs).op = "resume" /\ fs # <<>>
       /\ Num(fs, Keepers(e)) = Bit(e \in ArrivedEvents(task))
  <2> DEFINE r == Again(t)  gs == <<f>> \o r
  <2>1. r \in Seq(Frame) /\ Num(r, Keepers(e)) = 0
    BY <1>8
  <2> HIDE DEF r
  <2>2. gs \in Seq(Frame) /\ Head(gs) = f /\ gs # <<>>
        /\ Num(gs, Keepers(e)) = Bit(f \in Keepers(e))
    BY <1>9, <2>1, LeadHeld
  <2>3. fs = gs
    BY DEF r
  <2>4. f \in Keepers(e) <=> e \in ArrivedEvents(task)
    BY <1>9, KeeperFrames
  <2>5. Bit(f \in Keepers(e)) = Bit(e \in ArrivedEvents(task))
    BY <2>4 DEF Bit
  <2> HIDE DEF gs, fs
  <2> QED BY <1>9, <2>2, <2>3, <2>5
<1> HIDE DEF fs
<1> DEFINE n == Bit(e \in ArrivedEvents(old))  b == Bit(e = x)
           c == Bit(e \in ArrivedEvents(task))
<1>11. /\ n \in Nat /\ b \in Nat /\ c \in Nat /\ Bit(Top(t) \in Keepers(e)) = b
       /\ n + b <= 1 => c = n + b
  BY <1>5, <1>7 DEF Bit
<1>12. InPaused(e) \in Nat /\ n <= InPaused(e)
  <2>1. pausedTasks \in Seq(Task)
    BY <1>3, TaskListTypes
  <2>2. n <= Num(pausedTasks, Holders(e))
    BY <1>4, <2>1, ListCounts DEF old
  <2>3. Num(pausedTasks, Holders(e)) \in Nat
    BY <2>1, ListCounts
  <2> QED BY <2>2, <2>3 DEF InPaused
<1>a. /\ pausedTasks' = RemoveAt(pausedTasks, i) => InPaused(e)' = InPaused(e) - n
      /\ pausedTasks' = [pausedTasks EXCEPT ![i] = task] => InPaused(e)' = InPaused(e) - n + c
  <2>1. pausedTasks \in Seq(Task)
    BY <1>3, TaskListTypes
  <2> HIDE DEF n, c
  <2>2. ASSUME pausedTasks' = RemoveAt(pausedTasks, i)
        PROVE  InPaused(e)' = InPaused(e) - n
    BY <1>4, <2>1, <2>2, ListRemoved DEF InPaused, n, old
  <2>3. ASSUME pausedTasks' = [pausedTasks EXCEPT ![i] = task]
        PROVE  InPaused(e)' = InPaused(e) - n + c
    <3>1. Changed(pausedTasks', pausedTasks, i, task)
      BY <2>3 DEF Changed
    <3> QED BY <1>4, <2>1, <3>1, ListReplaced DEF InPaused, n, c, old
  <2> QED BY <2>2, <2>3
<1>13. /\ InQueue(e)' = InQueue(e) /\ InRegistered(e)' = InRegistered(e)
       /\ InReady(e)' = InReady(e) /\ InHistory(e)' = InHistory(e) /\ fired' = fired
  BY <1>1, StillThere
<1>14. /\ InQueue(e) \in Nat /\ InRegistered(e) \in Nat /\ InReady(e) \in Nat
       /\ InHistory(e) \in Nat /\ Total(e) \in {0, 1}
  <2>1. Total(e) \in {0, 1}
    BY DEF Balanced, Bit
  <2> QED BY <2>1, Numbers DEF Sound, Transient
<1>15. CASE pausedTasks' = RemoveAt(pausedTasks, i) /\ Replace(t, fs)
  <2>1. /\ IsFiniteSet(CallsIn(todo, e))' /\ InCalls(e) \in Nat /\ b <= InCalls(e)
        /\ InCalls(e)' = InCalls(e) - b + c
    <3>1. /\ IsFiniteSet(CallsIn(todo, e))' /\ InCalls(e) \in Nat
          /\ Bit(Top(t) \in Keepers(e)) <= InCalls(e)
          /\ InCalls(e)' = InCalls(e) - Bit(Top(t) \in Keepers(e)) + Num(fs, Keepers(e))
      BY <1>2, <1>10, <1>15, CallsReplaced DEF Sound, Balanced
    <3> QED BY <1>10, <1>11, <3>1
  <2>2. InPaused(e)' = InPaused(e) - n
    BY <1>a, <1>15
  <2> HIDE DEF n, b, c
  <2>3. n + b <= 1
    BY <1>11, <1>12, <1>14, <2>1 DEF Total
  <2>4. Total(e)' = Total(e)
    BY <1>11, <1>12, <1>13, <1>14, <2>1, <2>2, <2>3 DEF Total
  <2> QED BY <1>13, <2>1, <2>4 DEF Balanced
<1>16. CASE pausedTasks' = [pausedTasks EXCEPT ![i] = task] /\ Replace(t, Again(t))
  <2>1. /\ IsFiniteSet(CallsIn(todo, e))' /\ InCalls(e) \in Nat /\ b <= InCalls(e)
        /\ InCalls(e)' = InCalls(e) - b
    <3>1. /\ IsFiniteSet(CallsIn(todo, e))' /\ InCalls(e) \in Nat
          /\ Bit(Top(t) \in Keepers(e)) <= InCalls(e)
          /\ InCalls(e)' = InCalls(e) - Bit(Top(t) \in Keepers(e)) + Num(Again(t), Keepers(e))
      BY <1>2, <1>8, <1>16, CallsReplaced DEF Sound, Balanced
    <3> HIDE DEF b
    <3> QED BY <1>8, <1>11, <3>1
  <2>2. InPaused(e)' = InPaused(e) - n + c
    BY <1>a, <1>16
  <2> HIDE DEF n, b, c
  <2>3. n + b <= 1
    BY <1>11, <1>12, <1>14, <2>1 DEF Total
  <2>4. Total(e)' = Total(e)
    BY <1>11, <1>12, <1>13, <1>14, <2>1, <2>2, <2>3 DEF Total
  <2> QED BY <1>13, <2>1, <2>4 DEF Balanced
<1> QED BY <1>6, <1>15, <1>16

\* registerEvent stores the event: no event gains or loses a place.
LEMMA StoreEventConserved ==
  ASSUME Sound, NEW t \in Threads, StoreEvent(t), NEW e \in Transient(Event), Balanced(e)
  PROVE  Balanced(e)'
<1> DEFINE x == Top(t).event  b == Bit(e = x)
<1>1. /\ Registering(t) /\ Return(t)
      /\ outstandingEvents' = Push(outstandingEvents, x.key, x)
      /\ UNCHANGED <<registeredTasks, pausedTasks, ready, delivered, removed, fired>>
  BY DEF StoreEvent
<1>2. /\ todo[t] # <<>> /\ Top(t).op = "event" /\ Top(t) \in Frame /\ x \in Event
  BY <1>1, RegisteringTypes
<1>3. Top(t) \in Keepers(e) <=> e = x
  BY <1>2, KeeperFrames
<1>4. b \in Nat /\ Bit(Top(t) \in Keepers(e)) = b
  BY <1>3 DEF Bit
<1>5. e \in Event
  BY DEF Transient
<1> HIDE DEF x
<1>6. InQueue(e)' = InQueue(e) + b
  BY <1>1, <1>2, <1>5, QueuePushed DEF Sound, b
<1>7. /\ IsFiniteSet(CallsIn(todo, e))' /\ InCalls(e) \in Nat /\ b <= InCalls(e)
      /\ InCalls(e)' = InCalls(e) - b
  <2>1. /\ IsFiniteSet(CallsIn(todo, e))' /\ InCalls(e) \in Nat
        /\ Bit(Top(t) \in Keepers(e)) <= InCalls(e)
        /\ InCalls(e)' = InCalls(e) - Bit(Top(t) \in Keepers(e))
    BY <1>1, <1>2, FramePopped DEF Sound, Balanced
  <2> QED BY <1>4, <2>1
<1>8. /\ InRegistered(e)' = InRegistered(e) /\ InPaused(e)' = InPaused(e)
      /\ InReady(e)' = InReady(e) /\ InHistory(e)' = InHistory(e) /\ fired' = fired
  BY <1>1, StillThere
<1>9. /\ InQueue(e) \in Nat /\ InRegistered(e) \in Nat /\ InPaused(e) \in Nat
      /\ InReady(e) \in Nat /\ InHistory(e) \in Nat
  BY <1>5, Numbers DEF Sound
<1> HIDE DEF b
<1>10. Total(e)' = Total(e)
  BY <1>4, <1>6, <1>7, <1>8, <1>9 DEF Total
<1> QED BY <1>7, <1>8, <1>10 DEF Balanced

-----------------------------------------------------------------------------
(* registerEvents                                                          *)

\* A registered task that runs is armed again, and has none of its events left.
LEMMA TaskRearmed ==
  ASSUME registeredTasks \in Seq(CleanTask), NEW i \in 1 .. Len(registeredTasks), NEW e,
         Changed(registeredTasks', registeredTasks, i, Rearm(registeredTasks[i]))
  PROVE  /\ InRegistered(e) \in Nat /\ Bit(e \in ArrivedEvents(registeredTasks[i])) <= InRegistered(e)
         /\ InRegistered(e)' = InRegistered(e) - Bit(e \in ArrivedEvents(registeredTasks[i]))
<1> DEFINE n == Bit(e \in ArrivedEvents(registeredTasks[i]))  r == Rearm(registeredTasks[i])
<1>1. registeredTasks \in Seq(Task) /\ registeredTasks[i] \in CleanTask
  BY TaskListTypes
<1>2. r \in Task /\ ArrivedEvents(r) = {}
  BY <1>1, RearmKeeps DEF CleanTask
<1>3. Changed(registeredTasks', registeredTasks, i, r)
  OBVIOUS
<1> HIDE DEF r
<1>4. n <= InRegistered(e) /\ InRegistered(e)' = InRegistered(e) - n + Bit(e \in ArrivedEvents(r))
  BY <1>1, <1>2, <1>3, ListReplaced DEF InRegistered
<1>5. InRegistered(e) \in Nat
  BY <1>1, NumNumber DEF InRegistered
<1>6. Bit(e \in ArrivedEvents(r)) = 0 /\ n \in Nat
  BY <1>2 DEF Bit
<1> HIDE DEF n
<1> QED BY <1>4, <1>5, <1>6 DEF n

\* A greedy task takes its events out of the batch: no event gains or loses a
\* place.
LEMMA GreedyTakeConserved ==
  ASSUME Sound, NEW t \in Threads, GreedyTake(t), NEW e \in Transient(Event), Balanced(e)
  PROVE  Balanced(e)'
<1> DEFINE f == Top(t)
           k == LeastSource(f.keys)
           hits == {j \in DOMAIN f.events : Equivalent(f.events[j].key, k)}
           j == LeastIndex(hits)
           x == f.events[j]
           task == registeredTasks[f.at]
           met == [task EXCEPT !.outstanding[k] = IF @ > 0 THEN @ - 1 ELSE 0]
           a == Arrive(met, x.key, x)
           g == [f EXCEPT !.keys = @ \ {k}]
           h == [f EXCEPT !.events = RemoveAt(f.events, j)]
<1>1. /\ todo[t] # <<>> /\ f.op = "batch"
      /\ f \in [op : {"batch"}, events : Seq(Event), at : Nat, keys : SUBSET Keys, run : Seq(Task)]
      /\ f.at \in 1 .. Len(registeredTasks) /\ registeredTasks \in Seq(CleanTask)
      /\ task \in CleanTask
  BY ScanningTypes DEF GreedyTake
<1>2. \/ Replace(t, <<g>>) /\ UNCHANGED registeredTasks
      \/ /\ hits # {}
         /\ registeredTasks' = [registeredTasks EXCEPT ![f.at] = a]
         /\ Replace(t, <<h>>)
  BY DEF GreedyTake
<1>3. f.keys # {} /\ UNCHANGED <<outstandingEvents, pausedTasks, ready, delivered, removed, fired>>
  BY DEF GreedyTake
<1>4. g \in Frame /\ g.op = "batch" /\ g.run = f.run /\ g.events = f.events
  <2> HIDE DEF f, k
  <2>1. g \in [op : {"batch"}, events : Seq(Event), at : Nat, keys : SUBSET Keys, run : Seq(Task)]
        /\ g.run = f.run /\ g.events = f.events
    BY <1>1
  <2> QED BY <2>1 DEF Frame
<1> DEFINE m == Num(f.run, Holders(e))  q == Num(f.events, {e})
<1>5. m \in Nat /\ q \in Nat
  BY <1>1, NumNumber
<1>6. CASE Replace(t, <<g>>) /\ UNCHANGED registeredTasks
  <2> HIDE DEF g, f, m, q
  <2>0. /\ Stacks /\ IsFiniteSet(CallsIn(todo, e)) /\ todo[t] # <<>> /\ f = Top(t)
        /\ f.op = "batch" /\ Replace(t, <<g>>)
    BY <1>1, <1>6 DEF Sound, Balanced, f
  <2>1. Num(g.run, Holders(e)) = m /\ Num(g.events, {e}) = q
    BY <1>4 DEF m, q
  <2>2. /\ IsFiniteSet(CallsIn(todo, e))' /\ InCalls(e) \in Nat
        /\ InCalls(e)' = InCalls(e) - m - q + Num(g.run, Holders(e)) + Num(g.events, {e})
    BY <1>4, <2>0, CallsScanned DEF f, m, q
  <2>3. InCalls(e)' = InCalls(e)
    BY <1>5, <2>1, <2>2
  <2> QED BY <1>3, <1>6, <2>2, <2>3, CallsOnly
<1>7. CASE /\ hits # {}
           /\ registeredTasks' = [registeredTasks EXCEPT ![f.at] = a]
           /\ Replace(t, <<h>>)
  <2>1. k \in Keys
    BY <1>1, <1>3, LeastSourceIn
  <2>2. j \in 1 .. Len(f.events)
    <3>1. hits \in SUBSET Nat
      BY <1>1
    <3>2. j \in hits
      <4> HIDE DEF hits
      <4> QED BY <3>1, <1>7, LeastIndexIn
    <3> QED BY <3>2, <1>1
  <2>3. x \in Event /\ x.key \in Keys
    <3>1. f.events \in Seq(Event)
      BY <1>1
    <3> HIDE DEF f, j
    <3>2. f.events[j] \in Event
      BY <2>2, <3>1
    <3> HIDE DEF x
    <3>3. \A y \in Event : y.key \in Keys
      BY KeysInt DEF Event
    <3> QED BY <3>2, <3>3 DEF x
  <2> HIDE DEF f, j, k, hits, x, task, a
  <2>4. a \in Task /\ ArrivedEvents(a) = ArrivedEvents(task) \union {x}
    <3> DEFINE n == IF task.outstanding[k] > 0 THEN task.outstanding[k] - 1 ELSE 0
    <3>1. task \in Task /\ task.outstanding[k] \in Nat
      BY <1>1, <2>1 DEF CleanTask, Task, Count
    <3>2. n \in Nat /\ (n # 0 => task.outstanding[k] # 0)
      BY <3>1
    <3>3. met = [task EXCEPT !.outstanding = [task.outstanding EXCEPT ![k] = n]]
      BY <3>1 DEF Task
    <3>4. a = Arrive(met, x.key, x)
      BY DEF a
    <3> HIDE DEF met, n
    <3>5. /\ Arrive(met, x.key, x) \in CleanTask
          /\ ArrivedEvents(Arrive(met, x.key, x)) = ArrivedEvents(task) \union {x}
      BY <1>1, <2>1, <2>3, <3>2, <3>3, MetOnce
    <3> QED BY <3>4, <3>5 DEF CleanTask
  <2> DEFINE r == RemoveAt(f.events, j)  b == Bit(e = x)
  <2>5. r \in Seq(Event)
    BY <1>1, <2>2, Removal
  <2>6. h \in Frame /\ h.op = "batch" /\ h.run = f.run /\ h.events = r
    <3> HIDE DEF r
    <3>1. h = [f EXCEPT !.events = r]
      BY DEF r
    <3>2. h \in [op : {"batch"}, events : Seq(Event), at : Nat, keys : SUBSET Keys, run : Seq(Task)]
          /\ h.run = f.run /\ h.events = r
      BY <1>1, <2>5, <3>1
    <3> QED BY <3>2 DEF Frame
  <2>7. Num(r, {e}) = q - b /\ Num(r, {e}) \in Nat /\ b \in Nat
    <3>1. Num(r, {e}) = q - Bit(f.events[j] \in {e}) /\ Num(r, {e}) \in Nat
      BY <1>1, <2>2, NumRemove
    <3>2. Bit(f.events[j] \in {e}) = b /\ b \in Nat
      BY DEF Bit, x
    <3> QED BY <3>1, <3>2
  <2> HIDE DEF h, met, r, m, q, b
  <2>8. /\ IsFiniteSet(CallsIn(todo, e))' /\ InCalls(e) \in Nat
        /\ m + q <= InCalls(e)
        /\ InCalls(e)' = InCalls(e) - (m + q) + (m + Num(r, {e}))
    <3>0. /\ Stacks /\ IsFiniteSet(CallsIn(todo, e)) /\ todo[t] # <<>> /\ f = Top(t)
          /\ f.op = "batch" /\ Replace(t, <<h>>)
      BY <1>1, <1>7 DEF Sound, Balanced, f
    <3>1. Num(h.run, Holders(e)) = m /\ Num(h.events, {e}) = Num(r, {e})
      BY <2>6 DEF m
    <3>2. /\ IsFiniteSet(CallsIn(todo, e))' /\ InCalls(e) \in Nat
          /\ m + q <= InCalls(e)
          /\ InCalls(e)' = InCalls(e) - m - q + Num(h.run, Holders(e)) + Num(h.events, {e})
      BY <2>6, <3>0, CallsScanned DEF f, m, q
    <3> QED BY <1>5, <2>7, <3>1, <3>2
  <2>9. /\ InQueue(e)' = InQueue(e) /\ InPaused(e)' = InPaused(e)
        /\ InReady(e)' = InReady(e) /\ InHistory(e)' = InHistory(e) /\ fired' = fired
    BY <1>3, StillThere
  <2>10. /\ InQueue(e) \in Nat /\ InPaused(e) \in Nat /\ InReady(e) \in Nat
         /\ InHistory(e) \in Nat /\ Total(e) \in {0, 1}
    <3>1. Total(e) \in {0, 1}
      BY DEF Balanced, Bit
    <3> QED BY <3>1, Numbers DEF Sound, Transient
  <2> DEFINE n == Bit(e \in ArrivedEvents(task))  c == Bit(e \in ArrivedEvents(a))
  <2>11. /\ InRegistered(e) \in Nat /\ n <= InRegistered(e)
         /\ InRegistered(e)' = InRegistered(e) - n + c
    <3>1. Changed(registeredTasks', registeredTasks, f.at, a)
      BY <1>7 DEF Changed
    <3>2. registeredTasks \in Seq(Task) /\ f.at \in 1 .. Len(registeredTasks)
      BY <1>1, TaskListTypes
    <3> HIDE DEF n, c
    <3> QED BY <2>4, <3>1, <3>2, ListReplaced, NumNumber DEF InRegistered, n, c, task
  <2>12. n \in Nat /\ b \in Nat /\ c \in Nat /\ (n + b <= 1 => c = n + b)
    BY <2>4 DEF Bit, b
  <2> HIDE DEF n, c
  <2>13. InCalls(e)' = InCalls(e) - b /\ b <= InCalls(e)
    BY <1>5, <2>7, <2>8
  <2>14. n + b <= 1
    BY <2>8, <2>10, <2>11, <2>12, <2>13 DEF Total
  <2>15. Total(e)' = Total(e)
    BY <2>8, <2>9, <2>10, <2>11, <2>12, <2>13, <2>14 DEF Total
  <2> QED BY <2>8, <2>9, <2>15 DEF Balanced
<1> QED BY <1>2, <1>6, <1>7

\* registerEvents is done with a greedy task: no event gains or loses a place.
LEMMA GreedyNextConserved ==
  ASSUME Sound, NEW t \in Threads, GreedyNext(t), NEW e \in Transient(Event), Balanced(e)
  PROVE  Balanced(e)'
<1> DEFINE f == Top(t)
           task == registeredTasks[f.at]
           fires == task.greedy /\ Complete(task)
           i == f.at + 1
           run == IF fires THEN Append(f.run, task) ELSE f.run
           g == [f EXCEPT !.at = i, !.keys = BatchKeys(i), !.run = run]
           n == IF fires THEN Bit(e \in ArrivedEvents(task)) ELSE 0
           m == Num(f.run, Holders(e))
           q == Num(f.events, {e})
<1>1. /\ todo[t] # <<>> /\ f.op = "batch"
      /\ f \in [op : {"batch"}, events : Seq(Event), at : Nat, keys : SUBSET Keys, run : Seq(Task)]
      /\ f.at \in 1 .. Len(registeredTasks) /\ registeredTasks \in Seq(CleanTask)
      /\ task \in CleanTask
  BY ScanningTypes DEF GreedyNext
<1>2. /\ Replace(t, <<g>>)
      /\ registeredTasks' = IF fires THEN [registeredTasks EXCEPT ![f.at] = Rearm(task)]
                                     ELSE registeredTasks
      /\ UNCHANGED <<outstandingEvents, pausedTasks, ready, delivered, removed, fired>>
  BY DEF GreedyNext
<1>3. i \in Nat /\ BatchKeys(i) \in SUBSET Keys
  BY <1>1, BatchKeysTypes DEF Sound
<1>4. run \in Seq(Task)
  BY <1>1 DEF CleanTask
<1>5. Num(run, Holders(e)) = m + n /\ m \in Nat /\ q \in Nat /\ n \in Nat
  <2>1. m \in Nat /\ q \in Nat
    BY <1>1, NumNumber
  <2>2. n \in Nat
    BY DEF Bit
  <2>3. CASE fires
    <3>1. task \in Task /\ f.run \in Seq(Task)
      BY <1>1 DEF CleanTask
    <3>2. Num(Append(f.run, task), Holders(e)) = m + Bit(e \in ArrivedEvents(task))
      <4> HIDE DEF task, f
      <4> QED BY <3>1, ListCounts
    <3> QED BY <2>1, <2>2, <2>3, <3>2
  <2>4. CASE ~fires
    BY <2>1, <2>4
  <2> QED BY <2>1, <2>2, <2>3, <2>4
<1> HIDE DEF f, run
<1>6. g \in Frame /\ g.op = "batch" /\ g.run = run /\ g.events = f.events
  <2> HIDE DEF i
  <2>1. /\ g \in [op : {"batch"}, events : Seq(Event), at : Nat, keys : SUBSET Keys, run : Seq(Task)]
        /\ g.run = run /\ g.events = f.events
    BY <1>1, <1>3, <1>4
  <2> QED BY <2>1 DEF Frame
<1> HIDE DEF g
<1>7. InRegistered(e) \in Nat /\ n <= InRegistered(e) /\ InRegistered(e)' = InRegistered(e) - n
  <2>1. InRegistered(e) \in Nat
    BY Numbers DEF Sound, Transient
  <2>2. CASE fires
    <3>1. Changed(registeredTasks', registeredTasks, f.at, Rearm(registeredTasks[f.at]))
      BY <1>2, <2>2 DEF Changed
    <3>2. /\ Bit(e \in ArrivedEvents(registeredTasks[f.at])) <= InRegistered(e)
          /\ InRegistered(e)' = InRegistered(e) - Bit(e \in ArrivedEvents(registeredTasks[f.at]))
      BY <1>1, <3>1, TaskRearmed
    <3> QED BY <2>1, <2>2, <3>2
  <2>3. CASE ~fires
    BY <1>2, <2>1, <2>3, StillThere
  <2> QED BY <2>1, <2>2, <2>3
<1> HIDE DEF task, n, m, q
<1>8. /\ IsFiniteSet(CallsIn(todo, e))' /\ InCalls(e) \in Nat /\ m + q <= InCalls(e)
      /\ InCalls(e)' = InCalls(e) - (m + q) + ((m + n) + q)
  <2>0. /\ Stacks /\ IsFiniteSet(CallsIn(todo, e)) /\ todo[t] # <<>> /\ f = Top(t)
        /\ f.op = "batch" /\ Replace(t, <<g>>)
    BY <1>1, <1>2 DEF Sound, Balanced, f
  <2>1. Num(g.run, Holders(e)) = m + n /\ Num(g.events, {e}) = q
    BY <1>5, <1>6 DEF q
  <2>2. /\ IsFiniteSet(CallsIn(todo, e))' /\ InCalls(e) \in Nat
        /\ m + q <= InCalls(e)
        /\ InCalls(e)' = InCalls(e) - m - q + Num(g.run, Holders(e)) + Num(g.events, {e})
    BY <1>6, <2>0, CallsScanned DEF f, m, q
  <2> QED BY <1>5, <2>1, <2>2
<1>9. /\ InQueue(e)' = InQueue(e) /\ InPaused(e)' = InPaused(e)
      /\ InReady(e)' = InReady(e) /\ InHistory(e)' = InHistory(e) /\ fired' = fired
  BY <1>2, StillThere
<1>10. /\ InQueue(e) \in Nat /\ InPaused(e) \in Nat /\ InReady(e) \in Nat /\ InHistory(e) \in Nat
  BY Numbers DEF Sound, Transient
<1>11. Total(e)' = Total(e)
  BY <1>5, <1>7, <1>8, <1>9, <1>10 DEF Total
<1> QED BY <1>8, <1>9, <1>11 DEF Balanced

-----------------------------------------------------------------------------
(* consumeEventsByPersistentTasks                                          *)

\* A persistent task takes a stored event: no event gains or loses a place.
LEMMA ConsumeStoredConserved ==
  ASSUME Sound, NEW t \in Threads, ConsumeStored(t), NEW e \in Transient(Event), Balanced(e)
  PROVE  Balanced(e)'
<1> DEFINE f == Top(t)
           k == LeastSource(f.keys)
           task == registeredTasks[f.at]
           less == [task EXCEPT !.outstanding[k] = @ - 1]
           x == First(k)
           a == Arrive(less, k, x)
           g == [f EXCEPT !.keys = @ \ {k}]
<1>1. /\ todo[t] # <<>> /\ f.op = "consume"
      /\ f \in [op : {"consume"}, at : Nat, keys : SUBSET Keys, progress : BOOLEAN]
      /\ f.at \in 1 .. Len(registeredTasks) /\ registeredTasks \in Seq(CleanTask)
      /\ task \in CleanTask
      /\ f.keys \subseteq {j \in Counted(task.outstanding) : IsStored(j)}
  BY ConsumingTypes DEF ConsumeStored
<1>2. /\ TakeFirst(k) /\ Replace(t, <<g>>)
      /\ registeredTasks' = [registeredTasks EXCEPT ![f.at] = a]
      /\ f.keys # {} /\ UNCHANGED <<pausedTasks, ready, delivered, removed, fired>>
  BY DEF ConsumeStored
<1>3. k \in f.keys /\ k \in Keys
  BY <1>1, <1>2, LeastSourceIn
<1> HIDE DEF f, k, task
<1>4. k \in Counted(task.outstanding) /\ IsStored(k)
  BY <1>1, <1>3
<1> DEFINE b == Bit(e = x)
<1>5. /\ x \in Event /\ InQueue(e) \in Nat /\ b <= InQueue(e)
      /\ InQueue(e)' = InQueue(e) - b
  BY <1>2, <1>3, <1>4, QueueTaken DEF Sound, Plain
<1> HIDE DEF x
<1>6. a \in Task /\ ArrivedEvents(a) = ArrivedEvents(task) \union {x}
  <2>1. task.outstanding \in Count
    BY <1>1 DEF CleanTask, Task
  <2>2. task.outstanding[k] \in Nat /\ task.outstanding[k] # 0
    BY <1>3, <1>4, <2>1 DEF Counted, Count
  <2> DEFINE n == task.outstanding[k] - 1
  <2>3. n \in Nat
    BY <2>2
  <2>4. less = [task EXCEPT !.outstanding = [task.outstanding EXCEPT ![k] = n]]
    BY <1>1 DEF CleanTask, Task
  <2> HIDE DEF less, n
  <2>5. Arrive(less, k, x) \in CleanTask /\ ArrivedEvents(Arrive(less, k, x)) = ArrivedEvents(task) \union {x}
    BY <1>1, <1>3, <1>5, <2>2, <2>3, <2>4, MetOnce
  <2> QED BY <2>5 DEF CleanTask
<1> HIDE DEF less, a
<1>7. g \in Frame /\ g.op = "consume"
  <2>1. g \in [op : {"consume"}, at : Nat, keys : SUBSET Keys, progress : BOOLEAN]
    BY <1>1
  <2> QED BY <2>1 DEF Frame
<1> HIDE DEF g
<1>8. IsFiniteSet(CallsIn(todo, e))' /\ InCalls(e)' = InCalls(e) /\ InCalls(e) \in Nat
  BY <1>1, <1>2, <1>7, PassConserved DEF Balanced, f
<1> DEFINE n == Bit(e \in ArrivedEvents(task))  c == Bit(e \in ArrivedEvents(a))
<1>9. /\ InRegistered(e) \in Nat /\ n <= InRegistered(e)
      /\ InRegistered(e)' = InRegistered(e) - n + c
  <2>1. Changed(registeredTasks', registeredTasks, f.at, a)
    BY <1>2 DEF Changed
  <2>2. registeredTasks \in Seq(Task) /\ f.at \in 1 .. Len(registeredTasks)
    BY <1>1, TaskListTypes
  <2> HIDE DEF n, c
  <2> QED BY <1>6, <2>1, <2>2, ListReplaced, NumNumber DEF InRegistered, n, c, task
<1>10. n \in Nat /\ b \in Nat /\ c \in Nat /\ (n + b <= 1 => c = n + b)
  BY <1>6 DEF Bit
<1> HIDE DEF n, b, c
<1>11. /\ InPaused(e)' = InPaused(e) /\ InReady(e)' = InReady(e)
       /\ InHistory(e)' = InHistory(e) /\ fired' = fired
  BY <1>2, StillThere
<1>12. /\ InPaused(e) \in Nat /\ InReady(e) \in Nat /\ InHistory(e) \in Nat /\ Total(e) \in {0, 1}
  <2>1. Total(e) \in {0, 1}
    BY DEF Balanced, Bit
  <2> QED BY <2>1, Numbers DEF Sound, Transient
<1>13. n + b <= 1
  BY <1>5, <1>8, <1>9, <1>10, <1>12 DEF Total
<1>14. Total(e)' = Total(e)
  BY <1>5, <1>8, <1>9, <1>10, <1>11, <1>12, <1>13 DEF Total
<1> QED BY <1>8, <1>11, <1>14 DEF Balanced

\* consumeEventsByPersistentTasks goes on to the next task, or again after one
\* fired: no event gains or loses a place.
LEMMA ConsumeNextConserved ==
  ASSUME Sound, NEW t \in Threads, ConsumeNext(t), NEW e \in Transient(Event), Balanced(e)
  PROVE  Balanced(e)'
<1> DEFINE f == Top(t)
           task == registeredTasks[f.at]
           i == f.at + 1
           fires == task.persistent /\ Complete(task)
           p == f.progress \/ fires
           g == [f EXCEPT !.at = i, !.keys = Consumable(i), !.progress = p]
           n == IF fires THEN Bit(e \in ArrivedEvents(task)) ELSE 0
<1>1. /\ todo[t] # <<>> /\ f.op = "consume"
      /\ f \in [op : {"consume"}, at : Nat, keys : SUBSET Keys, progress : BOOLEAN]
      /\ f.at \in 1 .. Len(registeredTasks) /\ registeredTasks \in Seq(CleanTask)
      /\ task \in CleanTask
  BY ConsumingTypes DEF ConsumeNext
<1>2. /\ Replace(t, <<g>>)
      /\ registeredTasks' = IF fires THEN [registeredTasks EXCEPT ![f.at] = Rearm(task)]
                                     ELSE registeredTasks
      /\ ready' = IF fires THEN Append(ready, task) ELSE ready
      /\ UNCHANGED <<outstandingEvents, pausedTasks, delivered, removed, fired>>
  BY DEF ConsumeNext
<1>3. i \in Nat /\ Consumable(i) \in SUBSET Keys
  BY <1>1, ConsumableTypes DEF Sound
<1>4. p \in BOOLEAN
  BY <1>1 DEF CleanTask, Task
<1>5. task \in Task /\ ready \in Seq(Task)
  BY <1>1 DEF CleanTask, Sound, TaskLists
<1> HIDE DEF f, i, p
<1>6. g \in Frame /\ g.op = "consume"
  <2> HIDE DEF fires
  <2>1. g \in [op : {"consume"}, at : Nat, keys : SUBSET Keys, progress : BOOLEAN]
    BY <1>1, <1>3, <1>4
  <2> QED BY <2>1 DEF Frame
<1> HIDE DEF g
<1>7. InReady(e) \in Nat /\ InReady(e)' = InReady(e) + n /\ n \in Nat
  <2>1. InReady(e) \in Nat /\ n \in Nat
    BY Numbers DEF Sound, Transient, Bit
  <2>2. CASE fires
    <3>1. ready' = Append(ready, task)
      BY <1>2, <2>2
    <3> HIDE DEF task, n
    <3>2. InReady(e)' = InReady(e) + Bit(e \in ArrivedEvents(task))
      BY <1>5, <3>1, ListCounts DEF InReady
    <3> QED BY <2>1, <2>2, <3>2 DEF n
  <2>3. CASE ~fires
    BY <1>2, <2>1, <2>3, StillThere
  <2> QED BY <2>1, <2>2, <2>3
<1>8. InRegistered(e) \in Nat /\ n <= InRegistered(e) /\ InRegistered(e)' = InRegistered(e) - n
  <2>1. InRegistered(e) \in Nat
    BY Numbers DEF Sound, Transient
  <2>2. CASE fires
    <3>1. Changed(registeredTasks', registeredTasks, f.at, Rearm(registeredTasks[f.at]))
      BY <1>2, <2>2 DEF Changed
    <3>2. /\ Bit(e \in ArrivedEvents(registeredTasks[f.at])) <= InRegistered(e)
          /\ InRegistered(e)' = InRegistered(e) - Bit(e \in ArrivedEvents(registeredTasks[f.at]))
      BY <1>1, <3>1, TaskRearmed
    <3> QED BY <2>1, <2>2, <3>2
  <2>3. CASE ~fires
    BY <1>2, <2>1, <2>3, StillThere
  <2> QED BY <2>1, <2>2, <2>3
<1> HIDE DEF task, fires, n
<1>9. IsFiniteSet(CallsIn(todo, e))' /\ InCalls(e)' = InCalls(e) /\ InCalls(e) \in Nat
  BY <1>1, <1>2, <1>6, PassConserved DEF Balanced, f
<1>10. /\ InQueue(e)' = InQueue(e) /\ InPaused(e)' = InPaused(e)
       /\ InHistory(e)' = InHistory(e) /\ fired' = fired
  BY <1>2, StillThere
<1>11. /\ InQueue(e) \in Nat /\ InPaused(e) \in Nat /\ InHistory(e) \in Nat
  BY Numbers DEF Sound, Transient
<1>12. Total(e)' = Total(e)
  BY <1>7, <1>8, <1>9, <1>10, <1>11 DEF Total
<1> QED BY <1>9, <1>10, <1>12 DEF Balanced

-----------------------------------------------------------------------------
(* Events arrive                                                           *)

\* A number that is given to a new event has not been given to another one.
LEMMA NewlyNumbered ==
  ASSUME IsFiniteSet(fired), Numbered, NEW kind, NEW n \in Nat, n > 0
  PROVE  /\ Cardinality(fired) \in Nat
         /\ NewEvent(kind, n) \notin fired
         /\ NewEvent(kind, n).id = Cardinality(fired) + n
<1>1. Cardinality(fired) \in Nat
  BY FS_CardinalityType
<1>2. NewEvent(kind, n).id = Cardinality(fired) + n
  BY DEF NewEvent
<1>3. ~(Cardinality(fired) + n <= Cardinality(fired))
  BY <1>1
<1> QED BY <1>1, <1>2, <1>3 DEF Numbered

\* A step that adds to the calls as many places as events arrive keeps the balance.
LEMMA CallsGrow ==
  ASSUME Sound, NEW e \in Transient(Event), Balanced(e), NEW d \in Nat,
         IsFiniteSet(CallsIn(todo, e))', InCalls(e)' = InCalls(e) + d,
         Bit(e \in fired)' = Bit(e \in fired) + d,
         UNCHANGED <<outstandingEvents, registeredTasks, pausedTasks, ready, delivered, removed>>
  PROVE  Balanced(e)'
<1>1. /\ InQueue(e)' = InQueue(e) /\ InRegistered(e)' = InRegistered(e)
      /\ InPaused(e)' = InPaused(e) /\ InReady(e)' = InReady(e) /\ InHistory(e)' = InHistory(e)
  BY StillThere
<1>2. /\ InQueue(e) \in Nat /\ InRegistered(e) \in Nat /\ InPaused(e) \in Nat
      /\ InReady(e) \in Nat /\ InHistory(e) \in Nat /\ InCalls(e) \in Nat
  BY Numbers DEF Sound, Transient, Balanced
<1>3. Total(e)' = Total(e) + d
  BY <1>1, <1>2 DEF Total
<1> QED BY <1>3 DEF Balanced

\* registerEvent takes the mutex with a new event: no event gains or loses a
\* place.
LEMMA RegisterEventConserved ==
  ASSUME Sound, Numbered, NEW t \in Threads, RegisterEvent(t), NEW e \in Transient(Event), Balanced(e)
  PROVE  Balanced(e)'
<1>1. PICK kind \in Menu.kinds : todo' = [todo EXCEPT ![t] = <<EventFrame(NewEvent(kind, 1))>>]
                                 /\ fired' = fired \union {NewEvent(kind, 1)}
  BY DEF RegisterEvent
<1>2. kind \in Kind
  BY MenuTypes DEF Sound, Plain, Program
<1> DEFINE x == NewEvent(kind, 1)  f == EventFrame(x)
<1>3. x \in Event /\ x \notin fired
  BY <1>2, NewEventTypes, NewlyNumbered DEF Sound, Plain
<1>4. /\ todo' = [todo EXCEPT ![t] = <<f>>] /\ fired' = fired \union {x} /\ todo[t] = <<>>
      /\ UNCHANGED <<outstandingEvents, registeredTasks, pausedTasks, ready, delivered, removed>>
  BY <1>1 DEF RegisterEvent, Outside
<1> HIDE DEF x
<1>5. f \in Frame /\ f.op = "event" /\ f.event = x
  BY <1>3 DEF EventFrame, Frame
<1> HIDE DEF f
<1>6. Bit(f \in Keepers(e)) = Bit(e = x) /\ Bit(e = x) \in Nat
  <2>1. f \in Keepers(e) <=> e = x
    BY <1>5, KeeperFrames
  <2> QED BY <2>1 DEF Bit
<1>7. /\ IsFiniteSet(CallsIn(todo, e))'
      /\ InCalls(e)' = InCalls(e) + Bit(e = x)
  <2>1. /\ IsFiniteSet(CallsIn(todo, e))'
        /\ InCalls(e)' = InCalls(e) + Bit(f \in Keepers(e))
    BY <1>4, <1>5, CallsEntered DEF Sound, Balanced
  <2> QED BY <2>1, <1>6
<1>8. Bit(e \in fired)' = Bit(e \in fired) + Bit(e = x)
  <2>1. Bit(e \in fired)' = IF e \in fired' THEN 1 ELSE 0
    BY DEF Bit
  <2> QED BY <2>1, <1>3, <1>4 DEF Bit
<1> QED BY <1>4, <1>6, <1>7, <1>8, CallsGrow

\* A batch arrives: the events it brings are new, and numbered one after the other.
LEMMA BatchArrives ==
  ASSUME Sound, Numbered, NEW t \in Threads, RegisterEvents(t)
  PROVE  \E f \in Frame :
           /\ f.op = "batch" /\ f.run = <<>> /\ f.events \in Seq(Event)
           /\ todo' = [todo EXCEPT ![t] = <<f>>] /\ todo[t] = <<>>
           /\ fired' = fired \union ToSet(f.events)
           /\ \A j \in 1 .. Len(f.events) :
                f.events[j] \notin fired /\ f.events[j].id = Cardinality(fired) + j
<1>0. PICK n \in 1 .. Menu.maxBatch :
        \E kinds \in [1 .. n -> {kind \in Menu.kinds : kind.key.src # MyRank}] :
          LET events == [j \in 1 .. n |-> NewEvent(kinds[j], j)]
              f == [op |-> "batch", events |-> events, at |-> 1, keys |-> BatchKeys(1), run |-> <<>>]
          IN  /\ fired' = fired \union ToSet(events)
              /\ todo' = [todo EXCEPT ![t] = <<f>>]
  BY DEF RegisterEvents
<1>1. PICK kinds \in [1 .. n -> {kind \in Menu.kinds : kind.key.src # MyRank}] :
        LET events == [j \in 1 .. n |-> NewEvent(kinds[j], j)]
            f == [op |-> "batch", events |-> events, at |-> 1, keys |-> BatchKeys(1), run |-> <<>>]
        IN  /\ fired' = fired \union ToSet(events)
            /\ todo' = [todo EXCEPT ![t] = <<f>>]
  BY <1>0
<1> DEFINE events == [j \in 1 .. n |-> NewEvent(kinds[j], j)]
           f == [op |-> "batch", events |-> events, at |-> 1, keys |-> BatchKeys(1), run |-> <<>>]
<1>2. n \in Nat
  BY MenuTypes DEF Sound, Plain, Program
<1>3. ASSUME NEW j \in 1 .. n
      PROVE  /\ NewEvent(kinds[j], j) \in Event
             /\ NewEvent(kinds[j], j) \notin fired
             /\ NewEvent(kinds[j], j).id = Cardinality(fired) + j
  <2>1. kinds[j] \in Kind
    BY MenuTypes DEF Sound, Plain, Program
  <2>2. j \in Nat /\ j > 0
    BY <1>2
  <2>3. NewEvent(kinds[j], j) \in Event
    BY <2>1, <2>2, NewEventTypes DEF Sound, Plain
  <2> DEFINE kind == kinds[j]
  <2> HIDE DEF kind
  <2>4. /\ NewEvent(kind, j) \notin fired
        /\ NewEvent(kind, j).id = Cardinality(fired) + j
    BY <2>2, NewlyNumbered DEF Sound, Plain
  <2> QED BY <2>3, <2>4 DEF kind
<1>4. events \in Seq(Event) /\ Len(events) = n
  BY <1>2, <1>3
<1>5. \A j \in 1 .. n : events[j] \notin fired /\ events[j].id = Cardinality(fired) + j
  BY <1>3
<1>6. fired' = fired \union ToSet(events) /\ todo' = [todo EXCEPT ![t] = <<f>>] /\ todo[t] = <<>>
  BY <1>1 DEF RegisterEvents, Outside
<1> HIDE DEF events
<1>7. BatchKeys(1) \in SUBSET Keys
  BY BatchKeysTypes DEF Sound
<1>8. f \in Frame /\ f.op = "batch" /\ f.events = events /\ f.run = <<>>
  BY <1>4, <1>7 DEF Frame
<1> HIDE DEF f
<1> QED BY <1>4, <1>5, <1>6, <1>8

\* registerEvents takes the mutex with a new batch: no event gains or loses a
\* place.
LEMMA RegisterEventsConserved ==
  ASSUME Sound, Numbered, NEW t \in Threads, RegisterEvents(t), NEW e \in Transient(Event), Balanced(e)
  PROVE  Balanced(e)'
<1>1. PICK f \in Frame :
        /\ f.op = "batch" /\ f.run = <<>> /\ f.events \in Seq(Event)
        /\ todo' = [todo EXCEPT ![t] = <<f>>] /\ todo[t] = <<>>
        /\ fired' = fired \union ToSet(f.events)
        /\ \A j \in 1 .. Len(f.events) :
             f.events[j] \notin fired /\ f.events[j].id = Cardinality(fired) + j
  BY BatchArrives
<1> DEFINE d == Num(f.events, {e})
<1>2. /\ IsFiniteSet(CallsIn(todo, e))'
      /\ InCalls(e)' = InCalls(e) + d
  <2>1. /\ IsFiniteSet(CallsIn(todo, e))'
        /\ InCalls(e)' = InCalls(e) + Num(f.run, Holders(e)) + Num(f.events, {e})
        /\ InCalls(e) \in Nat
    BY <1>1, CallsEntered DEF Sound, Balanced
  <2>2. Num(f.run, Holders(e)) = 0
    BY <1>1, NumShort
  <2>3. Num(f.events, {e}) \in Nat
    BY <1>1, NumNumber
  <2> QED BY <2>1, <2>2, <2>3
<1>3. d = Bit(e \in ToSet(f.events))
  <2>1. /\ d \in Nat /\ (d = 0 <=> \A j \in 1 .. Len(f.events) : f.events[j] # e)
        /\ Hits(f.events, {e}) = {j \in 1 .. Len(f.events) : f.events[j] = e}
    <3>1. d \in Nat /\ (d = 0 <=> \A j \in 1 .. Len(f.events) : f.events[j] \notin {e})
      BY <1>1, NumNumber
    <3>2. DOMAIN f.events = 1 .. Len(f.events)
      BY <1>1
    <3>3. Hits(f.events, {e}) = {j \in 1 .. Len(f.events) : f.events[j] \in {e}}
      BY <3>2 DEF Hits
    <3> HIDE DEF d
    <3> QED BY <3>1, <3>3
  <2>2. CASE e \in ToSet(f.events)
    <3>1. PICK i \in 1 .. Len(f.events) : e = f.events[i]
      BY <1>1, <2>2, SetOfSequence
    <3>2. Cardinality(fired) \in Nat
      BY FS_CardinalityType DEF Sound, Plain
    <3>3. ASSUME NEW j \in 1 .. Len(f.events), f.events[j] = e PROVE j = i
      <4>1. Cardinality(fired) + j = Cardinality(fired) + i
        BY <1>1, <3>1, <3>3
      <4> QED BY <3>2, <4>1
    <3>4. Hits(f.events, {e}) = {i}
      BY <2>1, <3>1, <3>3
    <3> QED BY <2>2, <3>4, FS_Singleton DEF Num, Bit
  <2>3. CASE e \notin ToSet(f.events)
    <3>1. \A j \in 1 .. Len(f.events) : f.events[j] # e
      BY <1>1, <2>3, SetOfSequence
    <3> QED BY <2>1, <2>3, <3>1 DEF Bit
  <2> QED BY <2>2, <2>3
<1>4. e \in ToSet(f.events) => e \notin fired
  BY <1>1, SetOfSequence
<1>5. d \in Nat
  BY <1>3 DEF Bit
<1>6. Bit(e \in fired)' = Bit(e \in fired) + d
  <2>1. Bit(e \in fired)' = IF e \in fired' THEN 1 ELSE 0
    BY DEF Bit
  <2> HIDE DEF d
  <2> QED BY <2>1, <1>1, <1>3, <1>4 DEF Bit
<1>7. UNCHANGED <<outstandingEvents, registeredTasks, pausedTasks, ready, delivered, removed>>
  BY DEF RegisterEvents
<1> HIDE DEF d
<1> QED BY <1>2, <1>5, <1>6, <1>7, CallsGrow

\* The numbers are given in turn.
LEMMA NumberedSteps ==
  ASSUME Sound, Numbered, [Next]_vars
  PROVE  Numbered'
<1>a. IsFiniteSet(fired) /\ Cardinality(fired) \in Nat
  BY FS_CardinalityType DEF Sound, Plain
<1>b. fired \in SUBSET Event
  BY DEF Sound, Plain
<1>1. ASSUME NEW t \in Threads, RegisterEvent(t) PROVE Numbered'
  <2>1. PICK kind \in Menu.kinds : fired' = fired \union {NewEvent(kind, 1)}
    BY <1>1 DEF RegisterEvent
  <2> DEFINE x == NewEvent(kind, 1)
  <2>2. x \notin fired /\ x.id = Cardinality(fired) + 1
    BY <1>a, NewlyNumbered
  <2>3. fired' = fired \union {x}
    BY <2>1
  <2> HIDE DEF x
  <2>4. Cardinality(fired') = Cardinality(fired) + 1
    BY <1>a, <2>2, <2>3, FS_AddElement
  <2>5. ASSUME NEW e \in fired' PROVE e.id <= Cardinality(fired')
    <3>1. CASE e \in fired
      <4>1. e.id \in Nat /\ e.id <= Cardinality(fired)
        BY <1>b, <3>1 DEF Event, Numbered
      <4> QED BY <4>1, <1>a, <2>4
    <3>2. CASE e = x
      BY <3>2, <1>a, <2>2, <2>4
    <3> QED BY <2>3, <3>1, <3>2
  <2> QED BY <2>5 DEF Numbered
<1>2. ASSUME NEW t \in Threads, RegisterEvents(t) PROVE Numbered'
  <2>1. PICK f \in Frame :
          /\ f.events \in Seq(Event)
          /\ fired' = fired \union ToSet(f.events)
          /\ \A j \in 1 .. Len(f.events) :
               f.events[j] \notin fired /\ f.events[j].id = Cardinality(fired) + j
    BY <1>2, BatchArrives
  <2> DEFINE s == f.events  n == Len(s)  N == ToSet(s)
  <2>2. n \in Nat /\ \A e : e \in N <=> \E i \in 1 .. n : e = s[i]
    BY <2>1, SetOfSequence
  <2>3. s \in Bijection(1 .. n, N)
    <3>1. \A i, j \in 1 .. n : s[i] = s[j] => i = j
      <4> TAKE i, j \in 1 .. n
      <4> HAVE s[i] = s[j]
      <4>1. Cardinality(fired) + i = Cardinality(fired) + j
        BY <2>1
      <4> QED BY <4>1, <1>a
    <3>2. s \in [1 .. n -> N]
      BY <2>1, <2>2
    <3> HIDE DEF s, n, N
    <3> QED BY <2>2, <3>1, <3>2 DEF Bijection, Injection, Surjection, IsInjective
  <2>4. IsFiniteSet(N) /\ Cardinality(N) = n
    <3> HIDE DEF s, n, N
    <3>1. ExistsBijection(1 .. n, N)
      BY <2>3 DEF ExistsBijection
    <3>2. IsFiniteSet(1 .. n) /\ Cardinality(1 .. n) = n
      <4>1. 1 \in Int /\ n \in Int
        BY <2>2
      <4>2. IsFiniteSet(1 .. n) /\ Cardinality(1 .. n) = IF 1 > n THEN 0 ELSE n - 1 + 1
        BY <4>1, FS_Interval
      <4> QED BY <4>2, <2>2
    <3> QED BY <3>1, <3>2, FS_Bijection
  <2>5. fired \intersect N = {}
    BY <2>1, <2>2
  <2>6. Cardinality(fired') = Cardinality(fired) + n
    <3> DEFINE c == Cardinality(fired \intersect N)
    <3>1. fired' = fired \union N
      BY <2>1
    <3>2. c = 0
      BY <2>5, FS_EmptySet
    <3> HIDE DEF s, n, N
    <3>3. Cardinality(fired \union N) = Cardinality(fired) + Cardinality(N) - c
      BY <1>a, <2>4, FS_Union
    <3> HIDE DEF c
    <3> QED BY <1>a, <2>2, <2>4, <3>1, <3>2, <3>3
  <2>7. ASSUME NEW e \in fired' PROVE e.id <= Cardinality(fired')
    <3>1. CASE e \in fired
      <4>1. e.id \in Nat /\ e.id <= Cardinality(fired)
        BY <1>b, <3>1 DEF Event, Numbered
      <4> QED BY <4>1, <1>a, <2>2, <2>6
    <3>2. CASE e \in N
      <4>1. PICK i \in 1 .. n : e = s[i]
        BY <3>2, <2>2
      <4>2. e.id = Cardinality(fired) + i
        BY <2>1, <4>1
      <4> QED BY <4>2, <1>a, <2>2, <2>6
    <3> QED BY <2>1, <3>1, <3>2
  <2> QED BY <2>7 DEF Numbered
<1>3. fired' = fired => Numbered'
  BY DEF Numbered
<1>4. ASSUME NEW t \in Threads, Call(t) PROVE Numbered'
  BY <1>1, <1>2, <1>3, <1>4 DEF Call, RegisterTask, PauseTask, Gather, RetrieveAny, RemoveTask
<1>5. ASSUME NEW t \in Threads, Step(t) PROVE fired' = fired
  BY <1>5 DEF Step, GatherStored, GatherMissing, FinishRegisterTask, FinishPauseTask,
     MatchRegistered, MatchPaused, StoreEvent, GreedyTake, GreedyNext, FinishBatch, ReadyToRunTask,
     ConsumeBegin, ConsumeStored, ConsumeNext, ConsumeEnd, MarkThreadResume, Resumed, RetrieveNext
<1>6. RunTask => fired' = fired
  BY DEF RunTask
<1>7. UNCHANGED vars => fired' = fired
  BY DEF vars
<1> QED BY <1>3, <1>4, <1>5, <1>6, <1>7 DEF Next, Stopped

-----------------------------------------------------------------------------
(* The number of places never changes but when the event arrives           *)

\* No event is in a call when every thread is in user code.
LEMMA NobodyCalls ==
  ASSUME \A t \in Threads : todo[t] = <<>>, NEW e
  PROVE  CallsIn(todo, e) = {} /\ InCalls(e) = 0
<1>1. Hits(<<>>, Keepers(e)) = {}
  BY DEF Hits
<1>2. Held(<<>>, e) = {}
  BY <1>1, PlainHeld
<1>3. \A t \in Threads : {t} \X Held(todo[t], e) = {}
  BY <1>2
<1>4. CallsIn(todo, e) = {}
  BY <1>3 DEF CallsIn
<1> QED BY <1>4, FS_EmptySet DEF InCalls

\* Nothing is fired at the start.
LEMMA InitConserved == Init => Conserved /\ Numbered
<1> SUFFICES ASSUME Init PROVE Conserved /\ Numbered
  OBVIOUS
<1>1. Numbered
  BY DEF Init, Numbered
<1>2. ASSUME NEW e \in Transient(Event) PROVE Balanced(e)
  <2>1. e.key \in Keys
    BY KeysInt DEF Transient, Event
  <2>2. InQueue(e) = 0
    <3>1. outstandingEvents[e.key] = <<>>
      BY <2>1 DEF Init, NoQueue
    <3>2. Num(<<>>, {e}) = 0
      BY NumShort
    <3> QED BY <3>1, <3>2 DEF InQueue
  <2>3. Num(<<>>, Holders(e)) = 0
    BY NumShort
  <2>4. InRegistered(e) = 0 /\ InPaused(e) = 0 /\ InReady(e) = 0
    BY <2>3 DEF Init, InRegistered, InPaused, InReady
  <2>5. \A t \in Threads : todo[t] = <<>>
    BY DEF Init
  <2>6. InCalls(e) = 0 /\ IsFiniteSet(CallsIn(todo, e))
    BY <2>5, NobodyCalls, FS_EmptySet
  <2>7. InHistory(e) = 0 /\ Bit(e \in fired) = 0
    BY DEF Init, InHistory, Bit
  <2>8. Total(e) = 0
    BY <2>2, <2>4, <2>6, <2>7 DEF Total
  <2> QED BY <2>6, <2>7, <2>8 DEF Balanced
<1> QED BY <1>1, <1>2 DEF Conserved

\* Nothing is done once raiseError has been called.
LEMMA AbortedStops ==
  ASSUME [Next]_vars, ~aborted'
  PROVE  ~aborted
<1>1. ASSUME NEW t \in Threads, Call(t) PROVE ~aborted
  BY <1>1, Zenon DEF Call, RegisterTask, PauseTask, Gather, RetrieveAny, RemoveTask, RegisterEvent,
     RegisterEvents, MayCall, Outside
<1>2. ASSUME NEW t \in Threads, Step(t) PROVE ~aborted
  <2>1. \E op : At(t, op)
    BY <1>2, Zenon DEF Step, GatherStored, GatherMissing, FinishRegisterTask, FinishPauseTask,
       MatchRegistered, MatchPaused, StoreEvent, GreedyTake, GreedyNext, FinishBatch, ReadyToRunTask,
       ConsumeBegin, ConsumeStored, ConsumeNext, ConsumeEnd, MarkThreadResume, Resumed, RetrieveNext,
       Gathering, Gathered, Registering, Scanning, Consuming
  <2> QED BY <2>1 DEF At
<1>3. RunTask => ~aborted
  BY DEF RunTask
<1>4. UNCHANGED vars => ~aborted
  BY DEF vars
<1> QED BY <1>1, <1>2, <1>3, <1>4 DEF Next, Stopped

\* No step makes an event lose or gain a place.
LEMMA StepConserved ==
  ASSUME Sound, Conserved, Numbered, [Next]_vars
  PROVE  Conserved'
<1> SUFFICES ASSUME ~aborted', NEW e \in Transient(Event) PROVE Balanced(e)'
  BY DEF Conserved, Transient
<1>a. ~aborted
  BY AbortedStops
<1>b. Balanced(e)
  BY <1>a DEF Conserved
<1>1. CASE RunTask
  BY <1>1, <1>b, RunTaskConserved
<1>2. ASSUME NEW t \in Threads, Call(t) PROVE Balanced(e)'
  BY <1>2, <1>b, RegisterTaskConserved, PauseTaskConserved, RetrieveAnyConserved,
     RemoveTaskConserved, RegisterEventConserved, RegisterEventsConserved DEF Call
<1>3. ASSUME NEW t \in Threads, Step(t) PROVE Balanced(e)'
  BY <1>3, <1>b, GatherStoredConserved, GatherMissingConserved, FinishRegisterTaskConserved,
     FinishPauseTaskConserved, MatchRegisteredConserved, MatchPausedConserved, StoreEventConserved,
     GreedyTakeConserved, GreedyNextConserved, FinishBatchConserved, ReadyToRunTaskConserved,
     ConsumeBeginConserved, ConsumeStoredConserved, ConsumeNextConserved, ConsumeEndConserved,
     MarkThreadResumeConserved, ResumedConserved, RetrieveNextConserved DEF Step
<1>4. CASE UNCHANGED vars
  <2>1. /\ UNCHANGED <<outstandingEvents, registeredTasks, pausedTasks, ready, delivered, removed, fired>>
        /\ todo' = todo
    BY <1>4 DEF vars
  <2>2. InCalls(e)' = InCalls(e) /\ CallsIn(todo, e)' = CallsIn(todo, e)
    BY <2>1, StillThere
  <2> QED BY <1>b, <2>1, <2>2, CallsOnly DEF Balanced
<1> QED BY <1>1, <1>2, <1>3, <1>4 DEF Next, Stopped

-----------------------------------------------------------------------------
(* From the counts to the places                                           *)

\* The places of each kind.
Marked(c, S) == {<<c, x>> : x \in S}
StoredAt(e) == {k \in Keys : e \in ToSet(outstandingEvents[k])}
Positions(s, e) == {i \in DOMAIN s : e \in ArrivedEvents(s[i])}
CallsAt(e) ==
  {p \in UNION {{t} \X DOMAIN todo[t] : t \in Threads} : e \in FrameEvents(todo[p[1]][p[2]])}
HistoryAt(e) ==
  {place \in {"delivered", "removed"} : e \in IF place = "delivered" THEN delivered ELSE removed}

\* S has n elements, if that is none or one.
AsMany(n, S) == (n = 0 => S = {}) /\ (n = 1 => \E x : S = {x})

\* There are as many places as positions.
LEMMA MarkedOnce ==
  ASSUME NEW c, NEW S, NEW n, AsMany(n, S)
  PROVE  AsMany(n, Marked(c, S))
<1>1. S = {} => Marked(c, S) = {}
  BY DEF Marked
<1>2. ASSUME NEW x, S = {x} PROVE Marked(c, S) = {<<c, x>>}
  BY <1>2 DEF Marked
<1> QED BY <1>1, <1>2 DEF AsMany

\* The places of a list, none or one of them.
LEMMA ListPlaces ==
  ASSUME NEW s \in Seq(Task), NEW e
  PROVE  AsMany(Num(s, Holders(e)), Positions(s, e))
<1> DEFINE H == Positions(s, e)
<1>1. Hits(s, Holders(e)) = H
  <2>1. \A i \in DOMAIN s : s[i] \in Holders(e) <=> e \in ArrivedEvents(s[i])
    <3> TAKE i \in DOMAIN s
    <3>1. s[i] \in Task
      OBVIOUS
    <3> QED BY <3>1, HolderTask
  <2> QED BY <2>1 DEF Hits, Positions
<1> HIDE DEF H
<1>2. IsFiniteSet(Hits(s, Holders(e)))
  BY NumNumber
<1>3. IsFiniteSet(H) /\ Num(s, Holders(e)) = Cardinality(H)
  BY <1>1, <1>2 DEF Num
<1>4. Cardinality(H) = 0 => H = {}
  BY <1>3, FS_EmptySet
<1>5. Cardinality(H) = 1 => \E x : H = {x}
  BY <1>3, FS_Singleton
<1>6. AsMany(Num(s, Holders(e)), H)
  BY <1>3, <1>4, <1>5 DEF AsMany
<1> QED BY <1>6 DEF H

\* The queue an event is in, if it is in one.
LEMMA StorePlaces ==
  ASSUME StoreOK, NEW e \in Event
  PROVE  AsMany(InQueue(e), StoredAt(e))
<1> DEFINE K == StoredAt(e)
           q == outstandingEvents[e.key]
<1>1. e.key \in Keys
  BY KeysInt DEF Event
<1>2. K \subseteq {e.key}
  BY DEF StoreOK, StoredAt
<1>3. q \in Seq(Event)
  BY <1>1 DEF StoreOK, Queue
<1>4. InQueue(e) = 0 <=> e \notin ToSet(q)
  <2> HIDE DEF q
  <2>1. Num(q, {e}) = 0 <=> \A i \in 1 .. Len(q) : q[i] \notin {e}
    BY <1>3, NumNumber
  <2>2. e \in ToSet(q) <=> \E i \in 1 .. Len(q) : e = q[i]
    BY <1>3, SetOfSequence
  <2> QED BY <2>1, <2>2 DEF InQueue, q
<1>5. e \in ToSet(q) <=> e.key \in K
  BY <1>1 DEF StoredAt
<1> HIDE DEF K, q
<1>6. InQueue(e) = 0 => K = {}
  BY <1>2, <1>4, <1>5
<1>7. InQueue(e) = 1 => K = {e.key}
  BY <1>2, <1>4, <1>5
<1>8. AsMany(InQueue(e), K)
  BY <1>6, <1>7 DEF AsMany
<1> QED BY <1>8 DEF K

\* The places in the calls of one thread.
LEMMA StackPlaces ==
  ASSUME NEW s, StackOK(s), NEW e
  PROVE  LET R == {i \in DOMAIN s : e \in FrameEvents(s[i])}
         IN  /\ Held(s, e) = {} => R = {}
             /\ \A j : Held(s, e) = {j} => \E i : R = {i}
<1> DEFINE R == {i \in DOMAIN s : e \in FrameEvents(s[i])}
<1>1. s \in Seq(Frame) /\ \A i \in 2 .. Len(s) : s[i] \in Resting
  BY DEF StackOK
<1>2. CASE s = <<>> \/ Head(s).op # "batch"
  <2>1. \A i \in DOMAIN s : s[i] \in Frame /\ s[i].op # "batch"
    <3> TAKE i \in DOMAIN s
    <3>1. s[i] \in Frame
      BY <1>1
    <3>2. CASE i = 1
      BY <1>1, <1>2, <3>1, <3>2
    <3>3. CASE i # 1
      <4>1. i \in 2 .. Len(s)
        BY <1>1, <3>3
      <4>2. s[i] \in Resting
        BY <1>1, <4>1
      <4> QED BY <3>1, <4>2, FrameKinds DEF Lonely
    <3> QED BY <3>2, <3>3
  <2>2. Held(s, e) = R
    BY <1>2, <2>1, PlainHeld DEF Hits, Keepers
  <2> QED BY <2>2
<1>3. CASE s # <<>> /\ Head(s).op = "batch"
  <2> DEFINE f == Head(s)
  <2>1. Len(s) = 1 /\ f \in Frame /\ f = s[1] /\ f.op = "batch"
    BY <1>1, <1>3 DEF StackOK, Lonely
  <2>2. DOMAIN s = {1}
    BY <1>1, <2>1
  <2>3. R = IF e \in FrameEvents(f) THEN {1} ELSE {}
    BY <2>1, <2>2
  <2> HIDE DEF R
  <2>4. Held(s, e) = Hits(BatchFrames(f), Keepers(e))
    BY <1>3 DEF Held, Unfolded
  <2> HIDE DEF f
  <2>5. /\ BatchFrames(f) \in Seq(Frame)
        /\ Num(BatchFrames(f), Keepers(e)) = Num(f.run, Holders(e)) + Num(f.events, {e})
    BY <2>1, BatchHeld
  <2>6. f.run \in Seq(Task) /\ f.events \in Seq(Event)
    BY <2>1, FrameKinds
  <2>7. ASSUME Held(s, e) = {} PROVE e \notin FrameEvents(f)
    <3>1. Num(BatchFrames(f), Keepers(e)) = 0
      BY <2>4, <2>7, FS_EmptySet DEF Num
    <3>2. Num(f.run, Holders(e)) \in Nat /\ Num(f.events, {e}) \in Nat
      BY <2>6, NumNumber
    <3>3. Num(f.run, Holders(e)) = 0 /\ Num(f.events, {e}) = 0
      BY <2>5, <3>1, <3>2
    <3>4. \A i \in 1 .. Len(f.run) : f.run[i] \notin Holders(e)
      BY <2>6, <3>3, NumNumber
    <3>5. \A i \in 1 .. Len(f.events) : f.events[i] \notin {e}
      BY <2>6, <3>3, NumNumber
    <3>6. e \notin ToSet(f.events)
      BY <2>6, <3>5, SetOfSequence
    <3>7. \A task \in ToSet(f.run) : e \notin ArrivedEvents(task)
      <4> TAKE task \in ToSet(f.run)
      <4>1. PICK i \in 1 .. Len(f.run) : task = f.run[i]
        BY <2>6, SetOfSequence
      <4>2. task \in Task
        BY <2>6, <4>1
      <4> QED BY <3>4, <4>1, <4>2, HolderTask
    <3>8. FrameEvents(f) = ToSet(f.events) \union UNION {ArrivedEvents(task) : task \in ToSet(f.run)}
      BY <2>1 DEF FrameEvents
    <3> QED BY <3>6, <3>7, <3>8
  <2>8. ASSUME NEW j, Held(s, e) = {j} PROVE e \in FrameEvents(f)
    <3>1. Num(BatchFrames(f), Keepers(e)) = 1
      BY <2>4, <2>8, FS_Singleton DEF Num
    <3>2. Num(f.run, Holders(e)) # 0 \/ Num(f.events, {e}) # 0
      BY <2>5, <3>1
    <3>3. FrameEvents(f) = ToSet(f.events) \union UNION {ArrivedEvents(task) : task \in ToSet(f.run)}
      BY <2>1 DEF FrameEvents
    <3>4. CASE Num(f.run, Holders(e)) # 0
      <4>1. PICK i \in 1 .. Len(f.run) : f.run[i] \in Holders(e)
        BY <2>6, <3>4, NumNumber
      <4>2. f.run[i] \in ToSet(f.run) /\ e \in ArrivedEvents(f.run[i])
        BY <2>6, <4>1, SetOfSequence DEF Holders
      <4> QED BY <3>3, <4>2
    <3>5. CASE Num(f.events, {e}) # 0
      <4>1. PICK i \in 1 .. Len(f.events) : f.events[i] \in {e}
        BY <2>6, <3>5, NumNumber
      <4>2. e \in ToSet(f.events)
        BY <2>6, <4>1, SetOfSequence
      <4> QED BY <3>3, <4>2
    <3> QED BY <3>2, <3>4, <3>5
  <2> QED BY <2>3, <2>7, <2>8 DEF R
<1> QED BY <1>2, <1>3

\* The places in the calls of all threads.
LEMMA CallPlaces ==
  ASSUME Stacks, NEW e, IsFiniteSet(CallsIn(todo, e))
  PROVE  AsMany(InCalls(e), CallsAt(e))
<1> DEFINE R(t) == {i \in DOMAIN todo[t] : e \in FrameEvents(todo[t][i])}
           D == CallsAt(e)
<1>1. \A t \in Threads : /\ Held(todo[t], e) = {} => R(t) = {}
                         /\ \A j : Held(todo[t], e) = {j} => \E i : R(t) = {i}
  <2> TAKE t \in Threads
  <2>1. StackOK(todo[t])
    BY DEF Stacks
  <2> DEFINE s == todo[t]
  <2> HIDE DEF s
  <2>2. StackOK(s)
    BY <2>1 DEF s
  <2> QED BY <2>2, StackPlaces DEF s
<1>2. D = UNION {{t} \X R(t) : t \in Threads}
  <2> USE DEF CallsAt
  <2>1. ASSUME NEW p \in D PROVE p \in UNION {{t} \X R(t) : t \in Threads}
    <3>1. PICK t \in Threads : p \in {t} \X DOMAIN todo[t]
      OBVIOUS
    <3>2. p[1] = t /\ p[2] \in DOMAIN todo[t] /\ p = <<t, p[2]>>
      BY <3>1
    <3>3. p[2] \in R(t)
      BY <3>2
    <3> QED BY <3>2, <3>3
  <2>2. ASSUME NEW t \in Threads, NEW p \in {t} \X R(t) PROVE p \in D
    <3>1. p[1] = t /\ p[2] \in R(t)
      OBVIOUS
    <3>2. p \in {t} \X DOMAIN todo[t]
      OBVIOUS
    <3> QED BY <3>1, <3>2
  <2> HIDE DEF R, D
  <2>3. UNION {{t} \X R(t) : t \in Threads} \subseteq D
    BY <2>2
  <2>4. D \subseteq UNION {{t} \X R(t) : t \in Threads}
    BY <2>1
  <2> QED BY <2>3, <2>4
<1> HIDE DEF R, D
<1>3. ASSUME InCalls(e) = 0 PROVE D = {}
  <2>1. CallsIn(todo, e) = {}
    BY <1>3, FS_EmptySet DEF InCalls
  <2>2. \A t \in Threads : Held(todo[t], e) = {}
    <3> TAKE t \in Threads
    <3>1. \A j : j \in Held(todo[t], e) => <<t, j>> \in CallsIn(todo, e)
      BY DEF CallsIn
    <3> QED BY <2>1, <3>1
  <2>3. \A t \in Threads : {t} \X R(t) = {}
    BY <1>1, <2>2
  <2> QED BY <1>2, <2>3
<1>4. ASSUME InCalls(e) = 1 PROVE \E x : D = {x}
  <2>1. PICK x : CallsIn(todo, e) = {x}
    BY <1>4, FS_Singleton DEF InCalls
  <2>2. PICK t \in Threads : x \in {t} \X Held(todo[t], e)
    BY <2>1 DEF CallsIn
  <2>3. PICK j \in Held(todo[t], e) : x = <<t, j>>
    BY <2>2
  <2>4. \A u \in Threads : \A k \in Held(todo[u], e) : <<u, k>> = x
    <3> TAKE u \in Threads
    <3> TAKE k \in Held(todo[u], e)
    <3>1. <<u, k>> \in {u} \X Held(todo[u], e)
      OBVIOUS
    <3>2. <<u, k>> \in CallsIn(todo, e)
      BY <3>1 DEF CallsIn
    <3> QED BY <2>1, <3>2
  <2>5. Held(todo[t], e) = {j} /\ \A u \in Threads \ {t} : Held(todo[u], e) = {}
    BY <2>3, <2>4
  <2>6. PICK i : R(t) = {i}
    BY <1>1, <2>5
  <2>7. \A u \in Threads \ {t} : R(u) = {}
    BY <1>1, <2>5
  <2>8. D = {<<t, i>>}
    BY <1>2, <2>6, <2>7
  <2> QED BY <2>8
<1>5. AsMany(InCalls(e), D)
  BY <1>3, <1>4 DEF AsMany
<1> QED BY <1>5 DEF D

\* User code has been handed the event, or has removed the task that had it.
LEMMA HistoryPlaces ==
  ASSUME NEW e
  PROVE  AsMany(InHistory(e), HistoryAt(e))
<1> DEFINE P == HistoryAt(e)
<1>1. /\ "delivered" \in P <=> e \in delivered
      /\ "removed" \in P <=> e \in removed
      /\ P \subseteq {"delivered", "removed"}
  BY DEF HistoryAt
<1> HIDE DEF P
<1>2. /\ InHistory(e) = 0 => e \notin delivered /\ e \notin removed
      /\ InHistory(e) = 1 => \/ e \in delivered /\ e \notin removed
                             \/ e \notin delivered /\ e \in removed
  BY DEF InHistory, Bit
<1>3. InHistory(e) = 0 => P = {}
  BY <1>1, <1>2
<1>4. ASSUME e \in delivered, e \notin removed PROVE P = {"delivered"}
  BY <1>1, <1>4
<1>5. ASSUME e \notin delivered, e \in removed PROVE P = {"removed"}
  BY <1>1, <1>5
<1>6. InHistory(e) = 1 => \E x : P = {x}
  BY <1>2, <1>4, <1>5, Zenon
<1>7. AsMany(InHistory(e), P)
  BY <1>3, <1>6 DEF AsMany
<1> QED BY <1>7 DEF P

\* What is counted once is in one place.
LEMMA PlaceOnce ==
  ASSUME Sound, NEW e \in Transient(Event), Balanced(e), e \in fired
  PROVE  Cardinality(Places(e)) = 1
<1> DEFINE A == Marked("stored", StoredAt(e))
           B == Marked("registered", Positions(registeredTasks, e))
           C == Marked("paused", Positions(pausedTasks, e))
           D == Marked("ready", Positions(ready, e))
           E == Marked("call", CallsAt(e))
           F == HistoryAt(e)
           a == InQueue(e)  b == InRegistered(e)  c == InPaused(e)
           d == InReady(e)  f == InCalls(e)  g == InHistory(e)
<1>1. Places(e) = A \union B \union C \union D \union E \union F
  BY DEF Places, Marked, StoredAt, Positions, CallsAt, HistoryAt
<1>2. a \in Nat /\ b \in Nat /\ c \in Nat /\ d \in Nat /\ f \in Nat /\ g \in Nat
  BY Numbers DEF Sound, Transient, Balanced
<1>3. a + b + c + d + f + g = 1
  BY DEF Balanced, Bit, Total
<1>4. registeredTasks \in Seq(Task) /\ pausedTasks \in Seq(Task) /\ ready \in Seq(Task)
  BY TaskListTypes DEF Sound, TaskLists
<1>5. AsMany(a, StoredAt(e)) /\ AsMany(f, CallsAt(e)) /\ AsMany(g, F)
  BY StorePlaces, CallPlaces, HistoryPlaces DEF Sound, Transient, Balanced
<1>6. /\ AsMany(b, Positions(registeredTasks, e))
      /\ AsMany(c, Positions(pausedTasks, e))
      /\ AsMany(d, Positions(ready, e))
  BY <1>4, ListPlaces DEF InRegistered, InPaused, InReady
<1> HIDE DEF F, a, b, c, d, f, g
<1>7. AsMany(a, A) /\ AsMany(b, B) /\ AsMany(c, C) /\ AsMany(d, D) /\ AsMany(f, E)
  BY <1>5, <1>6, MarkedOnce, Zenon
<1> HIDE DEF A, B, C, D, E
<1> DEFINE U == A \union B \union C \union D \union E \union F
<1>8. \/ a = 1 /\ b = 0 /\ c = 0 /\ d = 0 /\ f = 0 /\ g = 0
      \/ a = 0 /\ b = 1 /\ c = 0 /\ d = 0 /\ f = 0 /\ g = 0
      \/ a = 0 /\ b = 0 /\ c = 1 /\ d = 0 /\ f = 0 /\ g = 0
      \/ a = 0 /\ b = 0 /\ c = 0 /\ d = 1 /\ f = 0 /\ g = 0
      \/ a = 0 /\ b = 0 /\ c = 0 /\ d = 0 /\ f = 1 /\ g = 0
      \/ a = 0 /\ b = 0 /\ c = 0 /\ d = 0 /\ f = 0 /\ g = 1
  BY <1>2, <1>3
<1>9. /\ a = 0 => A = {}
      /\ b = 0 => B = {}
      /\ c = 0 => C = {}
      /\ d = 0 => D = {}
      /\ f = 0 => E = {}
      /\ g = 0 => F = {}
  BY <1>5, <1>7 DEF AsMany
<1>10. /\ a = 1 => \E y : A = {y}
       /\ b = 1 => \E y : B = {y}
       /\ c = 1 => \E y : C = {y}
       /\ d = 1 => \E y : D = {y}
       /\ f = 1 => \E y : E = {y}
       /\ g = 1 => \E y : F = {y}
  BY <1>5, <1>7 DEF AsMany
<1>11. \/ a = 1 /\ U = A
       \/ b = 1 /\ U = B
       \/ c = 1 /\ U = C
       \/ d = 1 /\ U = D
       \/ f = 1 /\ U = E
       \/ g = 1 /\ U = F
  BY <1>8, <1>9
<1> HIDE DEF U
<1>12. \E y : U = {y}
  BY <1>10, <1>11
<1> QED BY <1>1, <1>12, FS_Singleton DEF U

\* However the calls of the threads are interleaved, a transient event that has
\* reached the scheduler is in the store, with one task, in one call, or handed
\* out or removed once, and in one of these only: none is lost and none is
\* delivered twice, by registerEvent, by a batch, or by a retrieval.
THEOREM NoEventLost == Spec => []EventConservation
<1>1. Sound /\ Conserved /\ Numbered /\ [Next]_vars => Conserved' /\ Numbered'
  BY StepConserved, NumberedSteps
<1>2. Sound /\ Conserved => EventConservation
  <2> SUFFICES ASSUME Sound, Conserved, ~aborted, NEW e \in Transient(fired)
               PROVE  Cardinality(Places(e)) = 1
    BY DEF EventConservation
  <2>1. e \in Transient(Event) /\ e \in fired
    BY DEF Transient, Sound, Plain
  <2> QED BY <2>1, PlaceOnce DEF Conserved
<1> QED BY InitConserved, Soundness, <1>1, <1>2, PTL DEF Spec

-----------------------------------------------------------------------------
(* The counter of the stored events                                        *)

\* The counter is exact, and counts finitely many events.
Tallied == IsFiniteSet(Transient(StoredEvents)) /\ HandleCountExact

\* The transient events of a store whose queues hold what belongs to them.
InStore(m) == {e \in Transient(Event) : Num(m[e.key], {e}) # 0}

\* The transient events in the store, by their queues.
LEMMA StoreMembers ==
  ASSUME NEW m \in Queue, \A k \in Keys : \A e \in ToSet(m[k]) : e.key = k
  PROVE  Transient(UNION {ToSet(m[k]) : k \in Keys}) = InStore(m)
<1> DEFINE U == UNION {ToSet(m[k]) : k \in Keys}
<1>1. ASSUME NEW e \in Event PROVE e \in U <=> Num(m[e.key], {e}) # 0
  <2>1. e.key \in Keys
    BY KeysInt DEF Event
  <2>2. e \in U <=> e \in ToSet(m[e.key])
    BY <2>1
  <2> DEFINE q == m[e.key]
  <2>3. q \in Seq(Event)
    BY <2>1 DEF Queue
  <2> HIDE DEF q
  <2>4. Num(q, {e}) = 0 <=> \A i \in 1 .. Len(q) : q[i] \notin {e}
    BY <2>3, NumNumber
  <2>5. e \in ToSet(q) <=> \E i \in 1 .. Len(q) : e = q[i]
    BY <2>3, SetOfSequence
  <2>6. e \in ToSet(q) <=> Num(q, {e}) # 0
    BY <2>4, <2>5
  <2> HIDE DEF U
  <2> QED BY <2>2, <2>6 DEF q
<1>2. U \subseteq Event
  <2> SUFFICES ASSUME NEW k \in Keys PROVE ToSet(m[k]) \subseteq Event
    OBVIOUS
  <2>1. m[k] \in Seq(Event)
    BY DEF Queue
  <2> QED BY <2>1, SetOfSequence
<1> HIDE DEF U
<1>3. Transient(U) = InStore(m)
  BY <1>1, <1>2 DEF Transient, InStore
<1> QED BY <1>3 DEF U

\* The same of the store before and after a step.
LEMMA StoreBothMembers ==
  ASSUME StoreOK, StoreOK'
  PROVE  /\ Transient(StoredEvents) = {e \in Transient(Event) : InQueue(e) # 0}
         /\ Transient(StoredEvents') = {e \in Transient(Event) : InQueue(e)' # 0}
<1>1. Transient(StoredEvents) = InStore(outstandingEvents)
  BY StoreMembers DEF StoreOK, StoredEvents
<1>2. Transient(StoredEvents') = InStore(outstandingEvents')
  <2> DEFINE m == outstandingEvents'
  <2>1. m \in Queue /\ \A k \in Keys : \A e \in ToSet(m[k]) : e.key = k
    BY DEF StoreOK
  <2> HIDE DEF m
  <2>2. Transient(UNION {ToSet(m[k]) : k \in Keys}) = InStore(m)
    BY <2>1, StoreMembers
  <2> QED BY <2>2 DEF m, StoredEvents
<1> QED BY <1>1, <1>2 DEF InStore, InQueue

\* No transient event is stored twice.
LEMMA StoredOnce ==
  ASSUME Sound, NEW e \in Transient(Event), Balanced(e)
  PROVE  InQueue(e) \in {0, 1}
<1>1. /\ InQueue(e) \in Nat /\ InRegistered(e) \in Nat /\ InPaused(e) \in Nat
      /\ InReady(e) \in Nat /\ InHistory(e) \in Nat /\ InCalls(e) \in Nat
  BY Numbers DEF Sound, Transient, Balanced
<1>2. Total(e) \in {0, 1}
  BY DEF Balanced, Bit
<1> QED BY <1>1, <1>2 DEF Total

\* A transient event that is taken from the store is counted out.
LEMMA TakeTallied ==
  ASSUME Sound, Conserved, Tallied, ~aborted, NEW k \in Keys, IsStored(k), TakeFirst(k)
  PROVE  Tallied'
<1> DEFINE x == First(k)  S == Transient(StoredEvents)
<1>1. /\ StoreOK' /\ x \in Event
      /\ x.persistent => UNCHANGED <<outstandingEvents, outstandingEventsToHandle>>
      /\ ~x.persistent => outstandingEventsToHandle' = outstandingEventsToHandle - 1
  BY StoreTake DEF Sound, Plain
<1>2. CASE x.persistent
  <2>1. UNCHANGED <<outstandingEvents, outstandingEventsToHandle>>
    BY <1>1, <1>2
  <2> QED BY <2>1 DEF Tallied, HandleCountExact, StoredEvents
<1>3. CASE ~x.persistent
  <2>1. S = {e \in Transient(Event) : InQueue(e) # 0}
        /\ Transient(StoredEvents') = {e \in Transient(Event) : InQueue(e)' # 0}
    BY <1>1, StoreBothMembers DEF Sound
  <2>2. ASSUME NEW e \in Transient(Event)
        PROVE  InQueue(e) \in {0, 1} /\ (e = x => InQueue(e) = 1)
               /\ InQueue(e)' = IF e = x THEN 0 ELSE InQueue(e)
    <3>1. InQueue(e) \in {0, 1}
      BY StoredOnce DEF Conserved
    <3>2. Bit(e = x) <= InQueue(e) /\ InQueue(e)' = InQueue(e) - Bit(e = x)
      BY QueueTaken DEF Sound, Plain
    <3> HIDE DEF x
    <3> QED BY <3>1, <3>2 DEF Bit
  <2>3. x \in Transient(Event)
    BY <1>1, <1>3 DEF Transient
  <2> HIDE DEF x, S
  <2>4. x \in S /\ Transient(StoredEvents') = S \ {x}
    BY <2>1, <2>2, <2>3
  <2>5. IsFiniteSet(S) /\ outstandingEventsToHandle = Cardinality(S)
    BY DEF Tallied, HandleCountExact, S
  <2>6. IsFiniteSet(S \ {x}) /\ Cardinality(S \ {x}) = Cardinality(S) - 1
    BY <2>4, <2>5, FS_RemoveElement
  <2>7. outstandingEventsToHandle' = Cardinality(S \ {x})
    BY <1>1, <1>3, <2>5, <2>6 DEF x
  <2> QED BY <2>4, <2>6, <2>7 DEF Tallied, HandleCountExact, Transient
<1> QED BY <1>2, <1>3

\* A transient event that is stored is counted in.
LEMMA StoreTallied ==
  ASSUME Sound, Conserved, Tallied, NEW t \in Threads, StoreEvent(t)
  PROVE  Tallied'
<1> DEFINE x == Top(t).event  S == Transient(StoredEvents)
<1>1. /\ outstandingEvents' = Push(outstandingEvents, x.key, x)
      /\ outstandingEventsToHandle' = outstandingEventsToHandle + Tally(x)
      /\ ~aborted
  BY DEF StoreEvent, Registering, At
<1>2. x \in Event
  BY RegisteringTypes DEF StoreEvent
<1>3. StoreOK' /\ Sound'
  BY StoreEventSound DEF Sound
<1>4. ASSUME NEW e \in Transient(Event) PROVE Balanced(e) /\ Balanced(e)'
  BY <1>1, StoreEventConserved DEF Conserved
<1> HIDE DEF x
<1>5. S = {e \in Transient(Event) : InQueue(e) # 0}
      /\ Transient(StoredEvents') = {e \in Transient(Event) : InQueue(e)' # 0}
  BY <1>3, StoreBothMembers DEF Sound
<1>6. ASSUME NEW e \in Transient(Event)
      PROVE  InQueue(e) \in {0, 1} /\ InQueue(e)' = InQueue(e) + Bit(e = x)
  <2>1. InQueue(e) \in {0, 1}
    BY <1>4, StoredOnce
  <2>2. e \in Event
    BY DEF Transient
  <2> QED BY <1>1, <1>2, <2>1, <2>2, QueuePushed DEF Sound
<1>7. ASSUME NEW e \in Transient(Event), e = x PROVE InQueue(e) = 0
  <2>1. /\ InQueue(e)' \in Nat /\ InRegistered(e)' \in Nat /\ InPaused(e)' \in Nat
        /\ InReady(e)' \in Nat /\ InHistory(e)' \in Nat /\ InCalls(e)' \in Nat
    <3>1. /\ InRegistered(e)' = InRegistered(e) /\ InPaused(e)' = InPaused(e)
          /\ InReady(e)' = InReady(e) /\ InHistory(e)' = InHistory(e)
      BY StillThere DEF StoreEvent
    <3>2. /\ InRegistered(e) \in Nat /\ InPaused(e) \in Nat
          /\ InReady(e) \in Nat /\ InHistory(e) \in Nat
      BY Numbers DEF Sound, Transient
    <3>3. InCalls(e)' \in Nat
      BY <1>4, FS_CardinalityType DEF Balanced, InCalls
    <3>4. InQueue(e)' \in Nat
      BY <1>6 DEF Bit
    <3> QED BY <3>1, <3>2, <3>3, <3>4
  <2>2. Total(e)' \in {0, 1}
    <3>1. Total(e)' = Bit(e \in fired)'
      BY <1>4 DEF Balanced
    <3> QED BY <3>1 DEF Bit
  <2>3. InQueue(e)' = InQueue(e) + 1 /\ InQueue(e) \in {0, 1}
    BY <1>6, <1>7 DEF Bit
  <2> QED BY <2>1, <2>2, <2>3 DEF Total
<1> HIDE DEF S
<1>8. IsFiniteSet(S) /\ outstandingEventsToHandle = Cardinality(S) /\ Cardinality(S) \in Nat
  BY FS_CardinalityType DEF Tallied, HandleCountExact, S
<1>9. CASE x.persistent
  <2>1. \A e \in Transient(Event) : e # x
    BY <1>9 DEF Transient
  <2>2. Transient(StoredEvents') = S
    BY <1>5, <1>6, <2>1 DEF Bit
  <2>3. outstandingEventsToHandle' = outstandingEventsToHandle
    BY <1>1, <1>8, <1>9 DEF Tally
  <2> QED BY <1>8, <2>2, <2>3 DEF Tallied, HandleCountExact, Transient
<1>10. CASE ~x.persistent
  <2>1. x \in Transient(Event)
    BY <1>2, <1>10 DEF Transient
  <2>2. x \notin S
    BY <1>5, <1>7, <2>1
  <2>3. Transient(StoredEvents') = S \union {x}
    <3>1. ASSUME NEW e \in Transient(Event) PROVE InQueue(e)' # 0 <=> InQueue(e) # 0 \/ e = x
      BY <1>6 DEF Bit
    <3> QED BY <1>5, <2>1, <3>1
  <2>4. IsFiniteSet(S \union {x}) /\ Cardinality(S \union {x}) = Cardinality(S) + 1
    BY <1>8, <2>2, FS_AddElement
  <2>5. outstandingEventsToHandle' = Cardinality(S \union {x})
    BY <1>1, <1>8, <1>10, <2>4 DEF Tally
  <2> QED BY <2>3, <2>4, <2>5 DEF Tallied, HandleCountExact, Transient
<1> QED BY <1>9, <1>10

\* A step changes the count of stored events as it changes the store.
LEMMA StepTallied ==
  ASSUME Sound, Conserved, Tallied, [Next]_vars
  PROVE  Tallied'
<1>1. UNCHANGED <<outstandingEvents, outstandingEventsToHandle>> => Tallied'
  BY DEF Tallied, HandleCountExact, StoredEvents
<1>2. ASSUME NEW t \in Threads, GatherStored(t) PROVE Tallied'
  <2> DEFINE k == Top(t).task.order[Top(t).next]
  <2>1. Gathering(t) /\ IsStored(k) /\ TakeFirst(k) /\ ~aborted
    BY <1>2 DEF GatherStored, Gathering, At
  <2>2. k \in Keys
    BY <2>1, GatheringTypes DEF Sound
  <2> HIDE DEF k
  <2> QED BY <2>1, <2>2, TakeTallied
<1>3. ASSUME NEW t \in Threads, ConsumeStored(t) PROVE Tallied'
  <2> DEFINE f == Top(t)  k == LeastSource(f.keys)
  <2>1. Consuming(t) /\ TakeFirst(k) /\ ~aborted /\ f.keys # {}
    BY <1>3 DEF ConsumeStored, Consuming, At
  <2>2. /\ f.keys \in SUBSET Keys
        /\ f.keys \subseteq {j \in Counted(registeredTasks[f.at].outstanding) : IsStored(j)}
    BY <2>1, ConsumingTypes
  <2>3. k \in f.keys
    BY <2>1, <2>2, LeastSourceIn
  <2>4. k \in Keys /\ IsStored(k)
    BY <2>2, <2>3
  <2> HIDE DEF k
  <2> QED BY <2>1, <2>4, TakeTallied
<1>4. ASSUME NEW t \in Threads, RetrieveNext(t) PROVE Tallied'
  <2> DEFINE f == Top(t)  k == Head(f.order)
  <2>1. ~aborted /\ todo[t] # <<>> /\ f.op = "retrieve"
    BY <1>4 DEF RetrieveNext, At, In
  <2>2. \/ UNCHANGED <<outstandingEvents, outstandingEventsToHandle>>
        \/ f.order # <<>> /\ IsStored(k) /\ TakeFirst(k)
    BY <1>4 DEF RetrieveNext
  <2>3. f \in [op : {"retrieve"}, order : Seq(Keys)]
    BY <2>1, TopTypes, FrameKinds DEF Sound
  <2>4. f.order # <<>> => k \in Keys
    BY <2>3
  <2> HIDE DEF f, k
  <2> QED BY <1>1, <2>1, <2>2, <2>4, TakeTallied
<1>5. ASSUME NEW t \in Threads, Call(t)
      PROVE  UNCHANGED <<outstandingEvents, outstandingEventsToHandle>>
  BY <1>5 DEF Call, RegisterTask, PauseTask, Gather, RetrieveAny, RemoveTask, RegisterEvent,
     RegisterEvents
<1>6. ASSUME NEW t \in Threads, Step(t)
      PROVE  \/ UNCHANGED <<outstandingEvents, outstandingEventsToHandle>>
             \/ GatherStored(t) \/ ConsumeStored(t) \/ RetrieveNext(t) \/ StoreEvent(t)
  BY <1>6 DEF Step, GatherMissing, FinishRegisterTask, FinishPauseTask, MatchRegistered, MatchPaused,
     GreedyTake, GreedyNext, FinishBatch, ReadyToRunTask, ConsumeBegin, ConsumeNext, ConsumeEnd,
     MarkThreadResume, Resumed
<1>7. RunTask => UNCHANGED <<outstandingEvents, outstandingEventsToHandle>>
  BY DEF RunTask
<1>8. UNCHANGED vars => UNCHANGED <<outstandingEvents, outstandingEventsToHandle>>
  BY DEF vars
<1> QED BY <1>1, <1>2, <1>3, <1>4, <1>5, <1>6, <1>7, <1>8, StoreTallied DEF Next, Stopped

\* Nothing is stored and nothing counted at the start.
LEMMA InitTallied == Init => Tallied
<1> SUFFICES ASSUME Init PROVE Tallied
  OBVIOUS
<1>1. \A k \in Keys : ToSet(outstandingEvents[k]) = {}
  BY DEF Init, NoQueue, ToSet
<1>2. Transient(StoredEvents) = {}
  BY <1>1 DEF Transient, StoredEvents
<1>3. outstandingEventsToHandle = 0
  BY DEF Init
<1> QED BY <1>2, <1>3, FS_EmptySet DEF Tallied, HandleCountExact

\* All of it at once.
LEMMA Invariance == Spec => [](Sound /\ Conserved /\ Numbered /\ Tallied)
<1>1. Sound /\ Conserved /\ Numbered /\ Tallied /\ [Next]_vars => Conserved' /\ Numbered' /\ Tallied'
  BY StepConserved, NumberedSteps, StepTallied
<1> QED BY InitConserved, InitTallied, Soundness, <1>1, PTL DEF Spec

\* outstandingEventsToHandle, which the decision to terminate rests on, is at
\* every instant the number of transient events in the store, whichever of
\* registerEvent, registerTask, edatWait, the passes over the persistent tasks
\* and the retrievals changed the store.
THEOREM CounterExact == Spec => []HandleCountExact
<1>1. Tallied => HandleCountExact
  BY DEF Tallied
<1> QED BY Invariance, <1>1, PTL

\* Every variable holds what its declaration says; outstandingEventsToHandle,
\* which is decremented whenever an event is taken, is never negative.
THEOREM TypeCorrect == Spec => []TypeOK
<1>1. Sound /\ Tallied => TypeOK
  <2> SUFFICES ASSUME Sound, Tallied PROVE TypeOK
    OBVIOUS
  <2>1. outstandingEventsToHandle \in Nat
    BY FS_CardinalityType DEF Tallied, HandleCountExact
  <2>2. registeredTasks \in Seq(Task) /\ pausedTasks \in Seq(Task) /\ ready \in Seq(Task)
    BY TaskListTypes DEF Sound, TaskLists
  <2>3. outstandingEvents \in Queue /\ todo \in [Threads -> Seq(Frame)]
    BY DEF Sound, StoreOK, Stacks
  <2> QED BY <2>1, <2>2, <2>3 DEF TypeOK, Sound, Plain
<1> QED BY Invariance, <1>1, PTL

-----------------------------------------------------------------------------
(* What an idle process has done                                           *)

\* When every thread is in user code, no task is paused.
LEMMA IdleWaits ==
  ASSUME Sound, Sleeping, Idle
  PROVE  pausedTasks = <<>> /\ ready = <<>> /\ \A t \in Threads : todo[t] = <<>>
<1>1. \A t \in Threads : ~In(t, "paused")
  BY DEF Idle, In
<1>2. DOMAIN pausedTasks = {}
  BY <1>1 DEF Sleeping, Asleep
<1>3. pausedTasks \in Seq(CleanTask)
  BY DEF Sound, TaskLists
<1> QED BY <1>2, <1>3 DEF Idle

\* A transient event that has been fired was delivered, or is with a task, once
\* the counter is zero and nobody is left to handle it.
LEMMA IdleHandled ==
  ASSUME Sound, Conserved, Tallied, Sleeping, ~aborted, Idle, isFinished,
         NEW e \in Transient(fired)
  PROVE  \/ e \in delivered \union removed
         \/ \E i \in DOMAIN registeredTasks : e \in ArrivedEvents(registeredTasks[i])
<1>1. e \in Transient(Event) /\ e \in Event /\ e \in fired
  BY DEF Sound, Plain, Transient
<1>2. Balanced(e) /\ Total(e) = 1
  BY <1>1 DEF Conserved, Balanced, Bit
<1>3. InQueue(e) = 0
  <2>1. outstandingEventsToHandle = 0
    BY DEF isFinished
  <2>2. Transient(StoredEvents) = {}
    BY <2>1, FS_EmptySet DEF Tallied, HandleCountExact
  <2>3. Transient(StoredEvents) = InStore(outstandingEvents)
    BY StoreMembers DEF Sound, StoreOK, StoredEvents
  <2> QED BY <1>1, <2>2, <2>3 DEF InStore, InQueue
<1>4. InPaused(e) = 0 /\ InReady(e) = 0
  <2>1. pausedTasks = <<>> /\ ready = <<>>
    BY IdleWaits
  <2>2. Num(<<>>, Holders(e)) = 0
    BY NumShort
  <2> QED BY <2>1, <2>2 DEF InPaused, InReady
<1>5. InCalls(e) = 0
  BY NobodyCalls DEF Idle
<1>6. InRegistered(e) \in Nat /\ InHistory(e) \in Nat
  BY <1>1, Numbers DEF Sound
<1>7. InRegistered(e) # 0 \/ InHistory(e) # 0
  BY <1>2, <1>3, <1>4, <1>5, <1>6 DEF Total
<1>8. CASE InHistory(e) # 0
  BY <1>8 DEF InHistory, Bit
<1>9. CASE InRegistered(e) # 0
  <2>1. registeredTasks \in Seq(CleanTask)
    BY DEF Sound, TaskLists
  <2>2. PICK i \in 1 .. Len(registeredTasks) : registeredTasks[i] \in Holders(e)
    BY <1>9, <2>1, NumNumber DEF InRegistered
  <2>3. i \in DOMAIN registeredTasks /\ e \in ArrivedEvents(registeredTasks[i])
    BY <2>1, <2>2 DEF Holders
  <2> QED BY <2>3
<1> QED BY <1>7, <1>8, <1>9

\* When isFinished holds while every thread is idle, which is when the process
\* votes to terminate, each transient event that ever arrived has been handed to
\* user code, was dropped by edatRemoveTask or is with a persistent task that
\* waits for more: none is in the store, at a wait or in a half-done call.
THEOREM NothingUnhandled == Spec => []FinishedMeansHandled
<1>1. Spec => []Sleeping
  <2>1. Sound /\ Sleeping /\ [Next]_vars => Sleeping'
    BY StepSleeping
  <2> QED BY InitSleeping, Soundness, <2>1, PTL DEF Spec
<1>2. Sound /\ Conserved /\ Tallied /\ Sleeping => FinishedMeansHandled
  BY IdleHandled DEF FinishedMeansHandled
<1> QED BY Invariance, <1>1, <1>2, PTL

=============================================================================
