-------------------------- MODULE TerminationProofs --------------------------
(***************************************************************************)
(* Proofs about Termination: types, and that no process leaves             *)
(* edatFinalise before the whole system is quiet, for any number of        *)
(* workers, any polling period and any number of events.                   *)
(***************************************************************************)
EXTENDS Termination, SequenceTheorems, TLAPS

\* An action of the next-state relation, and what it preserves, is looked at
\* once for every invariant: the shape of Next.
LEMMA NextCases ==
  ASSUME [Next]_vars
  PROVE  \/ \E r \in Ranks : Environment(r)
         \/ \E r \in Ranks : Poll(r)
         \/ \E m \in Messages : Arrive(m)
         \/ MasterGoesOn
         \/ \E w \in Workers : ReceiveCode(w) \/ ReceiveConfirm(w)
         \/ \E w \in Workers : WorkerGoesOn(w)
         \/ \E w \in Workers : AnswerPing(w) \/ TakeReply(w)
         \/ UNCHANGED vars
  BY DEF Next

-----------------------------------------------------------------------------
(* Types                                                                   *)

\* The variables have their types at the start.
LEMMA InitType == Init => TypeOK
  BY PeriodAssumption, RanksAssumption
  DEF Init, TypeOK, Ranks, Code, Active

\* User code and MPI keep the types.
LEMMA EnvironmentType ==
  ASSUME TypeOK, NEW r \in Ranks, Environment(r)
  PROVE  TypeOK'
<1>1. CASE sendSingleEvent(r)
  BY <1>1, SMTT(30) DEF sendSingleEvent, TypeOK, channels, local, posted, master
<1>2. CASE MainWorks(r)
  BY <1>2 DEF MainWorks, TypeOK, channels, local, posted, master
<1>3. CASE TasksEnd(r)
  BY <1>3 DEF TasksEnd, TypeOK, channels, local, posted, master
<1>4. CASE attachMainThread(r)
  BY <1>4 DEF attachMainThread, TypeOK, channels, local, posted, master
<1>5. CASE setEligableForTermination(r)
  BY <1>5 DEF setEligableForTermination, TypeOK, channels, local, posted, master
<1> QED
  BY <1>1, <1>2, <1>3, <1>4, <1>5 DEF Environment

\* A poll keeps the types.
LEMMA PollType ==
  ASSUME TypeOK, NEW r \in Ranks, Poll(r)
  PROVE  TypeOK'
<1> USE PeriodAssumption DEF TypeOK, process, channels, local, posted, master, Code, Active
<1>1. CASE ReceiveEvent(r)
  <2>1. request' \in [Messages -> {"free", "transit", "arrived", "received"}]
    BY <1>1 DEF ReceiveEvent, Tested, Pending
  <2>2. iteration_counter' \in [Ranks -> 0..SEND_PROGRESS_PERIOD]
    BY <1>1 DEF ReceiveEvent, Counted
  <2>3. termination_codes' \in [Ranks -> Code]
    BY <1>1 DEF ReceiveEvent, OwnCode
  <2>4. active' \in [Ranks -> BOOLEAN]
    BY <1>1 DEF ReceiveEvent, EventsRegistered
  <2>5. eventShortTermStore' \in [Ranks -> Nat]
    <3>1. \/ eventShortTermStore' = [eventShortTermStore EXCEPT ![r] = eventShortTermStore[r] + 1]
          \/ eventShortTermStore' = [eventShortTermStore EXCEPT ![r] = 0]
      BY <1>1 DEF ReceiveEvent
    <3>2. CASE eventShortTermStore' = [eventShortTermStore EXCEPT ![r] = eventShortTermStore[r] + 1]
      BY <3>2
    <3>3. CASE eventShortTermStore' = [eventShortTermStore EXCEPT ![r] = 0]
      BY <3>3
    <3> QED
      BY <3>1, <3>2, <3>3
  <2> QED
    BY <1>1, <2>1, <2>2, <2>3, <2>4, <2>5 DEF ReceiveEvent
<1>2. CASE NoEvent(r)
  BY <1>2 DEF NoEvent, Tested, Counted
<1>3. CASE FlushBatch(r)
  BY <1>3 DEF FlushBatch, EventsRegistered
<1>4. CASE StillActive(r)
  BY <1>4 DEF StillActive, OwnCode
<1>5. CASE StillTerminated(r)
  BY <1>5 DEF StillTerminated, OwnCode
<1>6. CASE BecomeTerminated(r)
  <2>1. PICK id \in Ids(r) :
          /\ terminated_id' = [terminated_id EXCEPT ![r] = id]
          /\ draws' = [draws EXCEPT ![r] = IF id > @ THEN id ELSE @]
          /\ OwnCode(r, TRUE, id)
          /\ codesSent' = [w \in Workers |-> IF w = r THEN Append(codesSent[w], id)
                                             ELSE codesSent[w]]
    BY <1>6 DEF BecomeTerminated
  <2>2. id \in Nat
    BY <2>1 DEF Ids
  <2>3. codesSent' \in [Workers -> Seq(Nat)]
    BY <2>1, <2>2
  <2>4. termination_codes' \in [Ranks -> Code]
    BY <2>1, <2>2 DEF OwnCode
  <2> QED
    BY <1>6, <2>1, <2>2, <2>3, <2>4 DEF BecomeTerminated
<1>7. CASE NotEligable(r)
  BY <1>7 DEF NotEligable
<1> QED
  BY <1>1, <1>2, <1>3, <1>4, <1>5, <1>6, <1>7 DEF Poll

\* The master's part of the protocol keeps the types.
LEMMA MasterType ==
  ASSUME TypeOK, MasterGoesOn
  PROVE  TypeOK'
<1> USE DEF TypeOK, process, channels, local, posted, master, Code, Active, Awaited, Ranks
<1>1. CASE Ping
  BY <1>1, SMTT(30) DEF Ping
<1>2. CASE NoPing
  BY <1>2 DEF NoPing
<1>3. CASE AwaitConfirms
  BY <1>3 DEF AwaitConfirms
<1>4. CASE Terminate
  BY <1>4 DEF Terminate, Tell
<1>5. CASE TryAgain
  BY <1>5 DEF TryAgain, Tell, Decided, Everywhere
<1> QED
  BY <1>1, <1>2, <1>3, <1>4, <1>5 DEF MasterGoesOn

\* The receipt of codes and confirmations keeps the types.
LEMMA ReceiveType ==
  ASSUME TypeOK, NEW w \in Workers, ReceiveCode(w) \/ ReceiveConfirm(w)
  PROVE  TypeOK'
<1> USE DEF TypeOK, process, channels, local, posted, master, Code, Active, Ranks
<1>1. CASE ReceiveCode(w)
  <2>1. Head(codesSent[w]) \in Nat /\ Tail(codesSent[w]) \in Seq(Nat)
    BY <1>1, HeadTailProperties DEF ReceiveCode
  <2> QED
    BY <1>1, <2>1 DEF ReceiveCode
<1>2. CASE ReceiveConfirm(w)
  <2>1. Head(confirms[w]) \in Code /\ Tail(confirms[w]) \in Seq(Code)
    BY <1>2, HeadTailProperties DEF ReceiveConfirm
  <2> QED
    BY <1>2, <2>1 DEF ReceiveConfirm
<1> QED
  BY <1>1, <1>2

\* A worker's part of the protocol keeps the types.
LEMMA WorkerType ==
  ASSUME TypeOK, NEW w \in Workers, WorkerGoesOn(w) \/ AnswerPing(w) \/ TakeReply(w)
  PROVE  TypeOK'
<1> USE DEF TypeOK, process, channels, local, posted, master, Code, Active, Ranks
<1>1. CASE WorkerGoesOn(w)
  BY <1>1, ZenonT(60) DEF WorkerGoesOn, NoAnswer, NoReply
<1>2. CASE AnswerPing(w)
  <2>1. (IF terminated[w] THEN terminated_id[w] ELSE Active) \in Code
    OBVIOUS
  <2>2. confirms' \in [Workers -> Seq(Code)]
    BY <1>2, <2>1, AppendProperties DEF AnswerPing
  <2>3. pings' \in [Workers -> Nat] /\ repliesPosted' \in [Workers -> Nat]
    BY <1>2, SMTT(30) DEF AnswerPing
  <2> QED
    BY <1>2, <2>2, <2>3 DEF AnswerPing
<1>3. CASE TakeReply(w)
  <2>1. SubSeq(replies[w], repliesPosted[w] + 1, Len(replies[w])) \in Seq({0, 1})
    BY SubSeqProperties
  <2> QED
    BY <1>3, <2>1 DEF TakeReply, PostPingback
<1> QED
  BY <1>1, <1>2, <1>3

\* Every step keeps the types.
LEMMA NextType == TypeOK /\ [Next]_vars => TypeOK'
<1> SUFFICES ASSUME TypeOK, [Next]_vars PROVE TypeOK'
  OBVIOUS
<1>1. CASE \E m \in Messages : Arrive(m)
  BY <1>1 DEF Arrive, TypeOK, process, channels, local, posted, master
<1>2. CASE UNCHANGED vars
  BY <1>2 DEF vars, TypeOK, process, channels, local, posted, master
<1> QED
  BY <1>1, <1>2, NextCases, EnvironmentType, PollType, MasterType, ReceiveType, WorkerType

\* Every variable keeps its type, in particular the lists of codes: the
\* master never copies the mark Awaited into termination_codes.
THEOREM TypeCorrect == Spec => []TypeOK
  BY InitType, NextType, PTL DEF Spec
-----------------------------------------------------------------------------
(* The inductive invariant                                                 *)

\* A process that counts itself as terminated is quiet.
Sleep == \A r \in Ranks : terminated[r] => Quiet(r)

AllDrawn(codes, n) == \A i \in 1..Len(codes) : codes[i] <= n

\* No id of a worker that is on its way, or in a list of the master, is
\* higher than the ids the worker has drawn: the next one will be new.
Drawn ==
  /\ \A r \in Ranks : terminated_id[r] <= draws[r]
  /\ \A w \in Workers :
       /\ termination_codes[w] <= draws[w] /\ pingback_termination_codes[w] <= draws[w]
       /\ AllDrawn(codesSent[w], draws[w]) /\ AllDrawn(confirms[w], draws[w])

\* The master compares the lists only in a round.
Round == OneAnswerPerRound /\ (pc[Master] = "confirm" => mode = 1)

\* What the master knows of w is out of date, and the answer of w to the
\* ping, given or still to be given, will show it.
Stale(w) ==
  \/ pings[w] = 1 /\ ~(terminated[w] /\ terminated_id[w] = termination_codes[w])
  \/ Len(confirms[w]) = 1 /\ confirms[w][1] # termination_codes[w]
  \/ /\ pings[w] = 0 /\ confirms[w] = <<>>
     /\ pingback_termination_codes[w] # termination_codes[w]

\* In a round, either the system is quiet or some answer will differ.
Verdict ==
  mode = 1 => /\ \A w \in Workers : termination_codes[w] # Active
              /\ AllQuiet \/ \E w \in Workers : Stale(w)

\* Until the system is quiet nobody is told to terminate.
Told ==
  ~AllQuiet => /\ \A r \in Ranks : pc[r] # "done"
               /\ \A w \in Workers : \A i \in 1..Len(replies[w]) : replies[w][i] # 1

Inductive == TypeOK /\ Sleep /\ Drawn /\ Round /\ Verdict /\ Told

-----------------------------------------------------------------------------
(* A quiet process                                                         *)

\* A rank that loses none of what makes it quiet stays quiet.
LEMMA QuietKept ==
  ASSUME NEW r \in Ranks, Quiet(r), attached'[r], ~active'[r], eventShortTermStore'[r] = 0,
         \A m \in Messages : m.src = r /\ request[m] = "free" => request'[m] = "free"
  PROVE  Quiet(r)'
  BY DEF Quiet, Outstanding

\* Only a message that arrives ends the quiet of a process.
LEMMA QuietStep ==
  ASSUME TypeOK, [Next]_vars, NEW r \in Ranks, Quiet(r), ~ReceiveEvent(r)
  PROVE  Quiet(r)'
<1> USE DEF TypeOK, Quiet, Outstanding, process, channels, local, posted, master
<1>1. CASE \E q \in Ranks : Environment(q)
  <2>1. PICK q \in Ranks : Environment(q)
    BY <1>1
  <2>2. CASE sendSingleEvent(q)
    BY <2>2 DEF sendSingleEvent, Messages
  <2>3. CASE MainWorks(q) \/ TasksEnd(q)
    BY <2>3 DEF MainWorks, TasksEnd
  <2>4. CASE attachMainThread(q)
    <3>1. attached'[r] /\ UNCHANGED <<active, eventShortTermStore, request>>
      BY <2>4 DEF attachMainThread
    <3> QED
      BY <3>1, QuietKept
  <2>5. CASE setEligableForTermination(q)
    BY <2>5 DEF setEligableForTermination
  <2> QED
    BY <2>1, <2>2, <2>3, <2>4, <2>5 DEF Environment
<1>2. CASE \E q \in Ranks : Poll(q)
  <2>1. PICK q \in Ranks : Poll(q)
    BY <1>2
  <2>2. CASE ReceiveEvent(q)
    <3>1. q # r /\ UNCHANGED attached
      BY <2>2 DEF ReceiveEvent
    <3>2. active'[r] = active[r]
      BY <2>2, <3>1 DEF ReceiveEvent, EventsRegistered
    <3>3. eventShortTermStore'[r] = eventShortTermStore[r]
      BY <2>2, <3>1 DEF ReceiveEvent
    <3>4. ASSUME NEW m \in Messages, request[m] = "free" PROVE request'[m] = "free"
      BY <2>2, <3>4 DEF ReceiveEvent, Pending, Tested
    <3> QED
      BY <3>1, <3>2, <3>3, <3>4, QuietKept
  <2>3. CASE NoEvent(q)
    <3>1. UNCHANGED <<active, attached, eventShortTermStore>>
      BY <2>3 DEF NoEvent
    <3>2. ASSUME NEW m \in Messages, request[m] = "free" PROVE request'[m] = "free"
      BY <2>3, <3>2 DEF NoEvent, Tested
    <3> QED
      BY <3>1, <3>2, QuietKept
  <2>4. CASE FlushBatch(q)
    <3>1. q # r /\ UNCHANGED <<attached, request>>
      BY <2>4 DEF FlushBatch
    <3>2. active'[r] = active[r]
      BY <2>4, <3>1 DEF FlushBatch, EventsRegistered
    <3>3. eventShortTermStore'[r] = eventShortTermStore[r]
      BY <2>4, <3>1 DEF FlushBatch
    <3>4. ASSUME NEW m \in Messages, request[m] = "free" PROVE request'[m] = "free"
      BY <3>1, <3>4
    <3> QED
      BY <3>1, <3>2, <3>3, <3>4, QuietKept
  <2>5. CASE StillActive(q) \/ StillTerminated(q) \/ BecomeTerminated(q) \/ NotEligable(q)
    <3>1. UNCHANGED <<active, attached, eventShortTermStore, request>>
      BY <2>5 DEF StillActive, StillTerminated, BecomeTerminated, NotEligable
    <3> QED
      BY <3>1
  <2> QED
    BY <2>1, <2>2, <2>3, <2>4, <2>5 DEF Poll
<1>3. CASE \E m \in Messages : Arrive(m)
  BY <1>3 DEF Arrive
<1>4. CASE MasterGoesOn
  BY <1>4 DEF MasterGoesOn, Ping, NoPing, AwaitConfirms, Terminate, TryAgain
<1>5. CASE \E w \in Workers : ReceiveCode(w) \/ ReceiveConfirm(w)
  BY <1>5 DEF ReceiveCode, ReceiveConfirm
<1>6. CASE \E w \in Workers : WorkerGoesOn(w) \/ AnswerPing(w) \/ TakeReply(w)
  BY <1>6 DEF WorkerGoesOn, NoAnswer, NoReply, AnswerPing, TakeReply
<1>7. CASE UNCHANGED vars
  BY <1>7 DEF vars
<1> QED
  BY <1>1, <1>2, <1>3, <1>4, <1>5, <1>6, <1>7, NextCases

\* A quiet system stays quiet: no message is left that could arrive.
LEMMA AllQuietStep ==
  ASSUME TypeOK, [Next]_vars, AllQuiet
  PROVE  AllQuiet'
<1>1. ASSUME NEW r \in Ranks PROVE ~ReceiveEvent(r)
  BY DEF ReceiveEvent, Pending, AllQuiet, Quiet, Outstanding, Messages
<1> QED
  BY <1>1, QuietStep DEF AllQuiet, Ranks

\* A process declares itself terminated only when it is quiet.
LEMMA SleepStep ==
  ASSUME TypeOK, Sleep, [Next]_vars
  PROVE  Sleep'
<1> SUFFICES ASSUME NEW r \in Ranks, terminated'[r] PROVE Quiet(r)'
  BY DEF Sleep
<1>1. ~ReceiveEvent(r)
  BY DEF ReceiveEvent, TypeOK
<1>2. Quiet(r)
  <2>1. CASE \E q \in Ranks : BecomeTerminated(q)
    BY <2>1 DEF BecomeTerminated, LocalTermination, Quiet, Sleep, TypeOK
  <2>2. CASE ~\E q \in Ranks : BecomeTerminated(q)
    <3>1. terminated[r]
      <4> USE <2>2 DEF TypeOK, process, channels, local, posted, master
      <4>1. CASE \E q \in Ranks : Environment(q)
        BY <4>1 DEF Environment, sendSingleEvent, MainWorks, TasksEnd, attachMainThread,
                    setEligableForTermination
      <4>2. CASE \E q \in Ranks : Poll(q)
        BY <4>2, ZenonT(60) DEF Poll, ReceiveEvent, NoEvent, FlushBatch, StillActive, StillTerminated,
                    NotEligable
      <4>3. CASE \E m \in Messages : Arrive(m)
        BY <4>3 DEF Arrive
      <4>4. CASE MasterGoesOn
        BY <4>4 DEF MasterGoesOn, Ping, NoPing, AwaitConfirms, Terminate, TryAgain
      <4>5. CASE \E w \in Workers : ReceiveCode(w) \/ ReceiveConfirm(w)
        BY <4>5 DEF ReceiveCode, ReceiveConfirm
      <4>6. CASE \E w \in Workers : WorkerGoesOn(w) \/ AnswerPing(w) \/ TakeReply(w)
        BY <4>6 DEF WorkerGoesOn, NoAnswer, NoReply, AnswerPing, TakeReply
      <4>7. CASE UNCHANGED vars
        BY <4>7 DEF vars
      <4> QED
        BY <4>1, <4>2, <4>3, <4>4, <4>5, <4>6, <4>7, NextCases
    <3> QED
      BY <3>1 DEF Sleep
  <2> QED
    BY <2>1, <2>2
<1> QED
  BY <1>1, <1>2, QuietStep

-----------------------------------------------------------------------------
(* Rounds                                                                  *)

\* What the steps of tasks and of the polls leave alone.
LEMMA OutsideProtocol ==
  ASSUME TypeOK, NEW r \in Ranks,
         Environment(r) \/ Poll(r)
  PROVE  /\ UNCHANGED <<mode, pings, confirms, replies, pingback_termination_codes>>
         /\ \A q \in Ranks : pc'[q] = pc[q] \/ pc'[q] \in {"check", "protocol", "poll"}
         /\ \A w \in Workers : termination_codes'[w] = termination_codes[w]
<1> USE RanksAssumption DEF TypeOK, Ranks, process, channels, local, posted, master
<1>1. CASE Environment(r)
  BY <1>1 DEF Environment, sendSingleEvent, MainWorks, TasksEnd, attachMainThread,
              setEligableForTermination
<1>2. CASE ReceiveEvent(r)
  BY <1>2 DEF ReceiveEvent, OwnCode
<1>3. CASE NoEvent(r) \/ FlushBatch(r) \/ NotEligable(r)
  BY <1>3 DEF NoEvent, FlushBatch, NotEligable
<1>4. CASE StillActive(r) \/ StillTerminated(r)
  BY <1>4, SMTT(30) DEF StillActive, StillTerminated, OwnCode
<1>5. CASE BecomeTerminated(r)
  BY <1>5 DEF BecomeTerminated, OwnCode
<1> QED
  BY <1>1, <1>2, <1>3, <1>4, <1>5 DEF Poll

\* Between the master and a worker there is nothing, or a ping, or an answer.
LEMMA RoundCases ==
  ASSUME TypeOK, Round, NEW w \in Workers
  PROVE  \/ pings[w] = 0 /\ confirms[w] = <<>>
         \/ /\ mode = 1 /\ pings[w] = 1 /\ confirms[w] = <<>>
            /\ pingback_termination_codes[w] = Awaited
         \/ /\ mode = 1 /\ pings[w] = 0 /\ confirms[w] # <<>> /\ Len(confirms[w]) = 1
            /\ pingback_termination_codes[w] = Awaited
<1>1. mode \in {0, 1} /\ pings[w] \in Nat /\ confirms[w] \in Seq(Code)
  BY DEF TypeOK
<1>2. /\ mode = 0 => pings[w] = 0 /\ confirms[w] = <<>>
      /\ pings[w] + Len(confirms[w]) <= 1
      /\ pings[w] + Len(confirms[w]) = 1 => pingback_termination_codes[w] = Awaited
  BY DEF Round, OneAnswerPerRound
<1>3. CASE confirms[w] = <<>>
  <2>1. Len(confirms[w]) = 0
    BY <1>3
  <2> QED
    BY <1>1, <1>2, <1>3, <2>1
<1>4. CASE confirms[w] # <<>>
  <2>1. Len(confirms[w]) \in Nat \ {0}
    BY <1>1, <1>4, EmptySeq
  <2>2. pings[w] = 0 /\ Len(confirms[w]) = 1
    <3>1. ASSUME NEW p \in Nat, NEW n \in Nat \ {0}, p + n <= 1 PROVE p = 0 /\ n = 1
      BY <3>1
    <3> QED
      BY <1>1, <1>2, <2>1, <3>1
  <2>3. mode = 1
    BY <1>1, <1>2, <1>4
  <2> QED
    BY <1>2, <1>4, <2>2, <2>3
<1> QED
  BY <1>3, <1>4

\* A round is opened and closed by the master alone, and closed only when
\* every answer has been received.
LEMMA RoundStep ==
  ASSUME TypeOK, Round, [Next]_vars
  PROVE  Round'
<1> USE RanksAssumption DEF Round, OneAnswerPerRound
<1>0. /\ mode \in {0, 1} /\ pings \in [Workers -> Nat] /\ confirms \in [Workers -> Seq(Code)]
      /\ pingback_termination_codes \in [Ranks -> Code \union {Awaited}]
      /\ pc \in [Ranks -> {"poll", "check", "protocol", "confirm", "reply", "done"}]
      /\ Workers \subseteq Ranks /\ Master \in Ranks
  BY DEF TypeOK, Ranks
<1>1. CASE \E r \in Ranks : Environment(r) \/ Poll(r)
  <2>1. /\ UNCHANGED <<mode, pings, confirms, pingback_termination_codes>>
        /\ pc'[Master] = "confirm" => pc[Master] = "confirm"
    BY <1>0, <1>1, OutsideProtocol
  <2> QED
    BY <2>1
<1>2. CASE \/ \E m \in Messages : Arrive(m)
           \/ \E w \in Workers : ReceiveCode(w) \/ WorkerGoesOn(w) \/ TakeReply(w)
           \/ UNCHANGED vars
  <2>1. UNCHANGED <<mode, pings, confirms, pingback_termination_codes>> /\ pc'[Master] = pc[Master]
    BY <1>0, <1>2
    DEF Arrive, ReceiveCode, WorkerGoesOn, NoAnswer, NoReply, TakeReply, vars, channels, master
  <2> QED
    BY <2>1
<1>3. CASE Ping
  <2>1. mode' = 1 /\ UNCHANGED confirms
    BY <1>3 DEF Ping
  <2>2. ASSUME NEW w \in Workers
        PROVE  pings'[w] = 1 /\ confirms[w] = <<>> /\ pingback_termination_codes'[w] = Awaited
    BY <1>0, <1>3 DEF Ping
  <2> QED
    BY <2>1, <2>2
<1>4. CASE NoPing \/ AwaitConfirms
  <2>1. /\ UNCHANGED <<mode, pings, confirms, pingback_termination_codes>>
        /\ pc'[Master] = "confirm" => mode = 1
    BY <1>0, <1>4 DEF NoPing, AwaitConfirms, channels, master
  <2> QED
    BY <2>1
<1>5. CASE Terminate
  <2>1. UNCHANGED <<mode, pings, confirms, pingback_termination_codes>> /\ pc'[Master] = "done"
    BY <1>0, <1>5 DEF Terminate, master
  <2> QED
    BY <2>1
<1>6. CASE TryAgain
  <2>1. ASSUME NEW w \in Workers PROVE pings[w] = 0 /\ confirms[w] = <<>>
    BY <1>0, <1>6, RoundCases DEF TryAgain, Decided, Everywhere
  <2>2. /\ UNCHANGED <<pings, confirms, pingback_termination_codes>> /\ mode' = 0
        /\ pc'[Master] = "poll"
    BY <1>0, <1>6 DEF TryAgain
  <2> QED
    BY <2>1, <2>2
<1>7. CASE \E w \in Workers : ReceiveConfirm(w)
  <2>1. PICK w \in Workers : ReceiveConfirm(w)
    BY <1>7
  <2>2. mode = 1 /\ pings[w] = 0 /\ Len(confirms[w]) = 1
    BY <2>1, RoundCases DEF ReceiveConfirm
  <2>3. /\ UNCHANGED <<mode, pings, pc>> /\ Len(confirms'[w]) = 0
        /\ \A v \in Workers : v # w =>
             /\ confirms'[v] = confirms[v]
             /\ pingback_termination_codes'[v] = pingback_termination_codes[v]
    BY <1>0, <2>1, <2>2 DEF ReceiveConfirm, master
  <2> QED
    BY <2>2, <2>3
<1>8. CASE \E w \in Workers : AnswerPing(w)
  <2>1. PICK w \in Workers : AnswerPing(w)
    BY <1>8
  <2>2. /\ mode = 1 /\ pings[w] = 1 /\ confirms[w] = <<>>
        /\ pingback_termination_codes[w] = Awaited
    BY <2>1, RoundCases DEF AnswerPing
  <2>3. pings'[w] = 0 /\ Len(confirms'[w]) = 1
    BY <1>0, <2>1, <2>2 DEF AnswerPing
  <2>4. /\ UNCHANGED <<mode, pingback_termination_codes>> /\ pc'[Master] = pc[Master]
        /\ \A v \in Workers : v # w => pings'[v] = pings[v] /\ confirms'[v] = confirms[v]
    BY <1>0, <2>1 DEF AnswerPing, master
  <2>5. ASSUME NEW v \in Workers
        PROVE  /\ pings'[v] + Len(confirms'[v]) <= 1
               /\ pings'[v] + Len(confirms'[v]) = 1 => pingback_termination_codes'[v] = Awaited
    <3>1. CASE v = w
      <4>1. pings'[v] = 0 /\ Len(confirms'[v]) = 1
        BY <2>3, <3>1
      <4>2. pingback_termination_codes'[v] = Awaited
        BY <2>2, <2>4, <3>1
      <4> QED
        BY <4>1, <4>2
    <3>2. CASE v # w
      BY <2>4, <3>2
    <3> QED
      BY <3>1, <3>2
  <2> QED
    BY <2>2, <2>4, <2>5
<1> QED
  BY <1>1, <1>2, <1>3, <1>4, <1>5, <1>6, <1>7, <1>8, NextCases DEF MasterGoesOn

\* No round is open at the start.
LEMMA InitRound == Init => Round
<1>1. Len(<<>>) = 0
  OBVIOUS
<1> QED
  BY <1>1 DEF Init, Round, OneAnswerPerRound, Ranks

\* At most one ping or answer of a worker is on its way, and only in a round
\* in which the master waits for it, whatever ids are drawn.
THEOREM AnswersInRounds == Spec => []OneAnswerPerRound
<1>1. TypeOK /\ Round /\ [Next]_vars => (TypeOK /\ Round)'
  BY NextType, RoundStep
<1>2. Round => OneAnswerPerRound
  BY DEF Round
<1> QED
  BY InitType, InitRound, <1>1, <1>2, PTL DEF Spec

-----------------------------------------------------------------------------
(* Ids                                                                     *)

\* At most is transitive.
LEMMA AtMost == \A a, b, c \in Int : a <= b /\ b <= c => a <= c
  OBVIOUS

\* Ids that were drawn stay drawn.
LEMMA AllDrawnMore ==
  ASSUME NEW S \in SUBSET Int, NEW codes \in Seq(S), NEW n \in Nat, NEW m \in Nat, n <= m,
         AllDrawn(codes, n)
  PROVE  AllDrawn(codes, m)
<1>1. ASSUME NEW i \in 1..Len(codes) PROVE codes[i] <= m
  <2>1. codes[i] \in Int /\ codes[i] <= n
    BY ElementOfSeq DEF AllDrawn
  <2> QED
    BY <2>1
<1> QED
  BY <1>1 DEF AllDrawn

\* An id that was drawn can be added to a list of drawn ones.
LEMMA AllDrawnAppend ==
  ASSUME NEW S \in SUBSET Int, NEW codes \in Seq(S), NEW n \in Nat, AllDrawn(codes, n),
         NEW id \in S, id <= n
  PROVE  AllDrawn(Append(codes, id), n)
<1>1. ASSUME NEW i \in 1..Len(Append(codes, id)) PROVE Append(codes, id)[i] <= n
  <2>1. Len(codes) \in Nat /\ Len(Append(codes, id)) = Len(codes) + 1
    BY AppendProperties
  <2>2. CASE i = Len(codes) + 1
    BY <2>1, <2>2, AppendProperties
  <2>3. CASE i # Len(codes) + 1
    <3>1. i \in 1..Len(codes)
      BY <2>1, <2>3
    <3>2. Append(codes, id)[i] = codes[i]
      BY <3>1, AppendProperties
    <3> QED
      BY <3>1, <3>2 DEF AllDrawn
  <2> QED
    BY <2>2, <2>3
<1> QED
  BY <1>1 DEF AllDrawn

\* The parts of a list of drawn ids are drawn.
LEMMA AllDrawnHeadTail ==
  ASSUME NEW S \in SUBSET Int, NEW codes \in Seq(S), NEW n \in Nat, AllDrawn(codes, n),
         codes # <<>>
  PROVE  Head(codes) <= n /\ AllDrawn(Tail(codes), n)
<1>1. Len(codes) \in Nat \ {0} /\ Len(Tail(codes)) = Len(codes) - 1 /\ Head(codes) = codes[1]
  BY EmptySeq, HeadTailProperties
<1>2. ASSUME NEW i \in 1..Len(Tail(codes)) PROVE Tail(codes)[i] <= n
  <2>1. i + 1 \in 1..Len(codes) /\ Tail(codes)[i] = codes[i + 1]
    BY <1>1, HeadTailProperties
  <2> QED
    BY <2>1 DEF AllDrawn
<1> QED
  BY <1>1, <1>2 DEF AllDrawn

\* The ids known of a worker never run ahead of those it drew.
LEMMA DrawnStep ==
  ASSUME TypeOK, Drawn, [Next]_vars
  PROVE  Drawn'
<1>0. /\ terminated_id \in [Ranks -> Nat] /\ draws \in [Ranks -> Nat]
      /\ codesSent \in [Workers -> Seq(Nat)] /\ confirms \in [Workers -> Seq(Code)]
      /\ termination_codes \in [Ranks -> Code]
      /\ pingback_termination_codes \in [Ranks -> Code \union {Awaited}]
      /\ Workers \subseteq Ranks /\ Nat \subseteq Int
  BY DEF TypeOK, Ranks
<1>01. Code \subseteq Int /\ Code \union {Awaited} \subseteq Int
  BY DEF Code, Active, Awaited
<1>02. ASSUME NEW w \in Workers
       PROVE  termination_codes[w] \in Int /\ pingback_termination_codes[w] \in Int
  BY <1>0, <1>01
<1>1. CASE \E r \in Ranks : BecomeTerminated(r)
  <2>0. PICK r \in Ranks : BecomeTerminated(r)
    BY <1>1
  <2>1. PICK id \in Ids(r) :
          /\ terminated_id' = [terminated_id EXCEPT ![r] = id]
          /\ draws' = [draws EXCEPT ![r] = IF id > @ THEN id ELSE @]
          /\ OwnCode(r, TRUE, id)
          /\ codesSent' = [w \in Workers |-> IF w = r THEN Append(codesSent[w], id)
                                             ELSE codesSent[w]]
          /\ UNCHANGED <<confirms, pingback_termination_codes>>
    BY <2>0 DEF BecomeTerminated
  <2>2. id \in Nat /\ id <= draws'[r] /\ draws' \in [Ranks -> Nat]
    BY <1>0, <2>1 DEF Ids
  <2>3. ASSUME NEW q \in Ranks PROVE draws[q] <= draws'[q]
    BY <1>0, <2>1, <2>2
  <2>4. ASSUME NEW q \in Ranks PROVE terminated_id'[q] <= draws'[q]
    BY <1>0, <2>1, <2>2, <2>3 DEF Drawn
  <2>5. ASSUME NEW w \in Workers
        PROVE  /\ termination_codes'[w] <= draws'[w] /\ pingback_termination_codes'[w] <= draws'[w]
               /\ AllDrawn(codesSent'[w], draws'[w]) /\ AllDrawn(confirms'[w], draws'[w])
    <3>1. draws[w] <= draws'[w] /\ draws[w] \in Nat /\ draws'[w] \in Nat
      BY <1>0, <2>2, <2>3
    <3>2. termination_codes'[w] = termination_codes[w]
      BY <1>0, <2>1, RanksAssumption DEF OwnCode
    <3>3. termination_codes'[w] <= draws'[w]
      BY <1>02, <3>1, <3>2, AtMost DEF Drawn
    <3>4. pingback_termination_codes'[w] <= draws'[w]
      <4>1. pingback_termination_codes[w] <= draws[w]
        BY DEF Drawn
      <4> QED
        BY <1>02, <2>1, <3>1, <4>1, AtMost
    <3>5. AllDrawn(codesSent[w], draws'[w]) /\ AllDrawn(confirms[w], draws'[w])
      BY <1>0, <1>01, <3>1, AllDrawnMore DEF Drawn
    <3>6. AllDrawn(codesSent'[w], draws'[w])
      <4>1. CASE w = r
        BY <1>0, <2>1, <2>2, <3>1, <3>5, <4>1, AllDrawnAppend
      <4>2. CASE w # r
        BY <1>0, <2>1, <3>5, <4>2
      <4> QED
        BY <4>1, <4>2
    <3>7. AllDrawn(confirms'[w], draws'[w])
      BY <2>1, <3>5
    <3> QED
      BY <3>3, <3>4, <3>6, <3>7
  <2> QED
    BY <2>4, <2>5 DEF Drawn
<1>2. CASE \E r \in Ranks : (Environment(r) \/ Poll(r)) /\ ~BecomeTerminated(r)
  <2>1. PICK r \in Ranks : (Environment(r) \/ Poll(r)) /\ ~BecomeTerminated(r)
    BY <1>2
  <2>2. UNCHANGED <<terminated_id, draws, codesSent>>
    BY <2>1 DEF Environment, sendSingleEvent, MainWorks, TasksEnd, attachMainThread,
                setEligableForTermination, Poll, ReceiveEvent, NoEvent, FlushBatch, StillActive,
                StillTerminated, NotEligable, local, channels
  <2>3. /\ UNCHANGED <<confirms, pingback_termination_codes>>
        /\ \A w \in Workers : termination_codes'[w] = termination_codes[w]
    BY <2>1, OutsideProtocol
  <2> QED
    BY <2>2, <2>3 DEF Drawn
<1>3. CASE \/ \E m \in Messages : Arrive(m)
           \/ NoPing \/ AwaitConfirms \/ Terminate
           \/ \E w \in Workers : WorkerGoesOn(w) \/ TakeReply(w)
           \/ UNCHANGED vars
  <2>1. UNCHANGED <<terminated_id, draws, codesSent, confirms, termination_codes,
                    pingback_termination_codes>>
    BY <1>3 DEF Arrive, NoPing, AwaitConfirms, Terminate, WorkerGoesOn, NoAnswer, NoReply,
                TakeReply, vars, channels, local, master
  <2> QED
    BY <2>1 DEF Drawn
<1>4. CASE Ping
  <2>1. UNCHANGED <<terminated_id, draws, codesSent, confirms, termination_codes>>
    BY <1>4 DEF Ping, local
  <2>2. ASSUME NEW w \in Workers PROVE pingback_termination_codes'[w] <= draws[w]
    <3>1. pingback_termination_codes'[w] = Awaited
      BY <1>0, <1>4, RanksAssumption DEF Ping
    <3> QED
      BY <1>0, <3>1 DEF Awaited
  <2> QED
    BY <2>1, <2>2 DEF Drawn
<1>5. CASE TryAgain
  BY <1>0, <1>5 DEF TryAgain, local, Drawn
<1>6. CASE \E w \in Workers : ReceiveCode(w)
  <2>1. PICK w \in Workers : ReceiveCode(w)
    BY <1>6
  <2>2. Head(codesSent[w]) <= draws[w] /\ AllDrawn(Tail(codesSent[w]), draws[w])
    BY <1>0, <2>1, AllDrawnHeadTail DEF ReceiveCode, Drawn
  <2> QED
    BY <1>0, <2>1, <2>2 DEF ReceiveCode, Drawn, local
<1>7. CASE \E w \in Workers : ReceiveConfirm(w)
  <2>1. PICK w \in Workers : ReceiveConfirm(w)
    BY <1>7
  <2>2. Head(confirms[w]) <= draws[w] /\ AllDrawn(Tail(confirms[w]), draws[w])
    BY <1>0, <1>01, <2>1, AllDrawnHeadTail DEF ReceiveConfirm, Drawn
  <2> QED
    BY <1>0, <2>1, <2>2 DEF ReceiveConfirm, Drawn, local
<1>8. CASE \E w \in Workers : AnswerPing(w)
  <2>1. PICK w \in Workers : AnswerPing(w)
    BY <1>8
  <2> DEFINE answer == IF terminated[w] THEN terminated_id[w] ELSE Active
  <2>2. answer \in Code /\ answer <= draws[w]
    BY <1>0 DEF Drawn, Active, Code
  <2> HIDE DEF answer
  <2>3. AllDrawn(confirms[w], draws[w]) /\ confirms[w] \in Seq(Code) /\ draws[w] \in Nat
    BY <1>0 DEF Drawn
  <2>4. AllDrawn(Append(confirms[w], answer), draws[w])
    BY <1>01, <2>2, <2>3, AllDrawnAppend
  <2> USE DEF answer
  <2> QED
    BY <1>0, <2>1, <2>4 DEF AnswerPing, Drawn, local, master
<1> QED
  BY <1>1, <1>2, <1>3, <1>4, <1>5, <1>6, <1>7, <1>8, NextCases DEF MasterGoesOn

-----------------------------------------------------------------------------
(* Verdicts                                                                *)

\* The id a process draws when it becomes terminated is not one the master
\* may know, as long as no id is drawn twice.
LEMMA NewId ==
  ASSUME TypeOK, Drawn, ~RandRepeats, NEW w \in Workers, BecomeTerminated(w)
  PROVE  terminated_id'[w] # termination_codes[w]
<1>1. terminated_id'[w] = draws[w] + 1
  BY DEF BecomeTerminated, Ids, TypeOK, Ranks
<1>2. draws[w] \in Nat /\ termination_codes[w] <= draws[w]
  BY DEF TypeOK, Drawn, Ranks
<1> QED
  BY <1>1, <1>2

\* Once the master is wrong about a worker it stays so until the round ends.
LEMMA StaleStep ==
  ASSUME TypeOK, Drawn, Round, ~RandRepeats, [Next]_vars,
         mode = 1, mode' = 1, NEW w \in Workers, termination_codes[w] # Active, Stale(w)
  PROVE  Stale(w)'
<1>0. /\ terminated \in [Ranks -> BOOLEAN] /\ terminated_id \in [Ranks -> Nat]
      /\ pings \in [Workers -> Nat] /\ confirms \in [Workers -> Seq(Code)]
      /\ pingback_termination_codes \in [Ranks -> Code \union {Awaited}]
      /\ termination_codes \in [Ranks -> Code]
      /\ Workers \subseteq Ranks /\ Master \notin Workers
  BY RanksAssumption DEF TypeOK, Ranks
<1>1. CASE \E r \in Ranks : Environment(r) \/ Poll(r)
  <2>1. PICK r \in Ranks : Environment(r) \/ Poll(r)
    BY <1>1
  <2>2. /\ UNCHANGED <<pings, confirms, pingback_termination_codes>>
        /\ termination_codes'[w] = termination_codes[w]
    BY <2>1, OutsideProtocol
  <2>3. CASE BecomeTerminated(r) /\ r = w
    BY <2>2, <2>3, NewId DEF Stale
  <2>4. CASE ~BecomeTerminated(r) \/ r # w
    <3>1. terminated'[w] => terminated[w] /\ terminated_id'[w] = terminated_id[w]
      BY <1>0, <2>1, <2>4
      DEF Environment, sendSingleEvent, MainWorks, TasksEnd, attachMainThread,
          setEligableForTermination, Poll, ReceiveEvent, NoEvent, FlushBatch, StillActive,
          StillTerminated, BecomeTerminated, NotEligable, local
    <3> QED
      BY <2>2, <3>1 DEF Stale
  <2> QED
    BY <2>3, <2>4
<1>2. CASE \/ \E m \in Messages : Arrive(m)
           \/ NoPing \/ AwaitConfirms \/ Terminate
           \/ \E v \in Workers : ReceiveCode(v) \/ WorkerGoesOn(v) \/ TakeReply(v)
           \/ UNCHANGED vars
  <2>1. UNCHANGED <<pings, confirms, pingback_termination_codes, termination_codes, terminated,
                    terminated_id>>
    BY <1>2 DEF Arrive, NoPing, AwaitConfirms, Terminate, ReceiveCode, WorkerGoesOn, NoAnswer,
                NoReply, TakeReply, vars, channels, local, master
  <2> QED
    BY <2>1 DEF Stale
<1>3. CASE Ping \/ TryAgain
  BY <1>3 DEF Ping, TryAgain
<1>4. CASE \E v \in Workers : ReceiveConfirm(v)
  <2>1. PICK v \in Workers : ReceiveConfirm(v)
    BY <1>4
  <2>2. UNCHANGED <<pings, termination_codes, terminated, terminated_id>>
    BY <2>1 DEF ReceiveConfirm, local
  <2>3. CASE v = w
    <3>1. pings[w] = 0 /\ confirms[w] # <<>> /\ Len(confirms[w]) = 1
      BY <2>1, <2>3, RoundCases DEF ReceiveConfirm
    <3>2. confirms[w][1] # termination_codes[w]
      BY <3>1 DEF Stale
    <3>3. pingback_termination_codes'[w] = confirms[w][1]
      BY <1>0, <2>1, <2>3 DEF ReceiveConfirm
    <3>4. confirms'[w] = <<>>
      <4>1. confirms'[w] = Tail(confirms[w])
        BY <1>0, <2>1, <2>3 DEF ReceiveConfirm
      <4>2. Tail(confirms[w]) \in Seq(Code) /\ Len(Tail(confirms[w])) = 0
        BY <1>0, <3>1, HeadTailProperties
      <4> QED
        BY <4>1, <4>2, EmptySeq
    <3> QED
      BY <2>2, <3>1, <3>2, <3>3, <3>4 DEF Stale
  <2>4. CASE v # w
    <3>1. /\ confirms'[w] = confirms[w]
          /\ pingback_termination_codes'[w] = pingback_termination_codes[w]
      BY <1>0, <2>1, <2>4 DEF ReceiveConfirm
    <3> QED
      BY <2>2, <3>1 DEF Stale
  <2> QED
    BY <2>3, <2>4
<1>5. CASE \E v \in Workers : AnswerPing(v)
  <2>1. PICK v \in Workers : AnswerPing(v)
    BY <1>5
  <2>2. UNCHANGED <<termination_codes, pingback_termination_codes, terminated, terminated_id>>
    BY <2>1 DEF AnswerPing, local, master
  <2>3. CASE v = w
    <3>1. pings[w] = 1 /\ confirms[w] = <<>>
      BY <2>1, <2>3, RoundCases DEF AnswerPing
    <3>2. ~(terminated[w] /\ terminated_id[w] = termination_codes[w])
      <4>1. Len(confirms[w]) = 0
        BY <3>1
      <4> QED
        BY <3>1, <4>1 DEF Stale
    <3> DEFINE answer == IF terminated[w] THEN terminated_id[w] ELSE Active
    <3>3. answer # termination_codes[w]
      BY <3>2
    <3>4. confirms'[w] = Append(<<>>, answer)
      BY <1>0, <2>1, <2>3, <3>1 DEF AnswerPing
    <3> HIDE DEF answer
    <3>5. Len(confirms'[w]) = 1 /\ confirms'[w][1] = answer
      BY <3>4
    <3> QED
      BY <2>2, <3>3, <3>5 DEF Stale
  <2>4. CASE v # w
    <3>1. pings'[w] = pings[w] /\ confirms'[w] = confirms[w]
      BY <1>0, <2>1, <2>4 DEF AnswerPing
    <3> QED
      BY <2>2, <3>1 DEF Stale
  <2> QED
    BY <2>3, <2>4
<1> QED
  BY <1>1, <1>2, <1>3, <1>4, <1>5, NextCases DEF MasterGoesOn

\* In a round the lists of the master are equal at the end only if the
\* system was quiet when it began, and so still is.
LEMMA VerdictStep ==
  ASSUME TypeOK, Sleep, Drawn, Round, Verdict, ~RandRepeats, [Next]_vars
  PROVE  Verdict'
<1> SUFFICES ASSUME mode' = 1
             PROVE  /\ \A w \in Workers : termination_codes'[w] # Active
                    /\ AllQuiet' \/ \E w \in Workers : Stale(w)'
  BY DEF Verdict
<1>0. /\ mode \in {0, 1} /\ termination_codes \in [Ranks -> Code]
      /\ Workers \subseteq Ranks /\ Master \notin Workers
  BY RanksAssumption DEF TypeOK, Ranks
<1>1. CASE mode = 1
  <2>1. \A w \in Workers : termination_codes'[w] = termination_codes[w]
    <3>1. CASE \E r \in Ranks : Environment(r) \/ Poll(r)
      BY <3>1, OutsideProtocol
    <3>2. CASE \/ \E m \in Messages : Arrive(m)
               \/ NoPing \/ AwaitConfirms \/ Terminate
               \/ \E w \in Workers : ReceiveConfirm(w) \/ WorkerGoesOn(w) \/ AnswerPing(w)
                                       \/ TakeReply(w)
               \/ UNCHANGED vars
      BY <3>2 DEF Arrive, NoPing, AwaitConfirms, Terminate, ReceiveConfirm, WorkerGoesOn,
                  NoAnswer, NoReply, AnswerPing, TakeReply, vars, master
    <3>3. CASE Ping \/ TryAgain \/ \E w \in Workers : ReceiveCode(w)
      BY <1>1, <3>3 DEF Ping, TryAgain, ReceiveCode
    <3> QED
      BY <3>1, <3>2, <3>3, NextCases DEF MasterGoesOn
  <2>2. CASE AllQuiet
    BY <1>1, <2>1, <2>2, AllQuietStep DEF Verdict
  <2>3. CASE ~AllQuiet
    <3>1. PICK w \in Workers : Stale(w)
      BY <1>1, <2>3 DEF Verdict
    <3>2. Stale(w)'
      BY <1>1, <3>1, StaleStep DEF Verdict
    <3> QED
      BY <1>1, <2>1, <3>2 DEF Verdict
  <2> QED
    BY <2>2, <2>3
<1>2. CASE mode = 0
  <2>1. Ping
    <3>1. CASE \E r \in Ranks : Environment(r) \/ Poll(r)
      BY <1>2, <3>1, OutsideProtocol
    <3>2. CASE \/ \E m \in Messages : Arrive(m)
               \/ NoPing \/ AwaitConfirms \/ Terminate \/ TryAgain
               \/ \E w \in Workers : ReceiveCode(w) \/ ReceiveConfirm(w) \/ WorkerGoesOn(w)
                                       \/ AnswerPing(w) \/ TakeReply(w)
               \/ UNCHANGED vars
      BY <1>2, <3>2 DEF Arrive, NoPing, AwaitConfirms, Terminate, TryAgain, ReceiveCode,
                        ReceiveConfirm, WorkerGoesOn, NoAnswer, NoReply, AnswerPing, TakeReply,
                        vars, master
    <3> QED
      BY <3>1, <3>2, NextCases DEF MasterGoesOn
  <2>2. /\ UNCHANGED <<termination_codes, terminated, terminated_id>>
        /\ terminated[Master]
        /\ \A r \in Ranks : termination_codes[r] # Active
    BY <2>1 DEF Ping, MayPing, Everywhere, local
  <2>3. CASE \A w \in Workers : terminated[w]
    <3>1. AllQuiet
      BY <2>2, <2>3 DEF Sleep, AllQuiet, Ranks
    <3> QED
      BY <1>0, <2>2, <3>1, AllQuietStep
  <2>4. CASE \E w \in Workers : ~terminated[w]
    <3>1. PICK w \in Workers : ~terminated[w]
      BY <2>4
    <3>2. pings'[w] = 1
      BY <1>2, <2>1, <3>1 DEF Ping, Round, OneAnswerPerRound
    <3>3. Stale(w)'
      BY <2>2, <3>1, <3>2 DEF Stale
    <3> QED
      BY <1>0, <2>2, <3>3
  <2> QED
    BY <2>3, <2>4
<1> QED
  BY <1>0, <1>1, <1>2

\* The master gives the verdict only to a quiet system.
LEMMA TerminateQuiet ==
  ASSUME TypeOK, Round, Verdict, Terminate
  PROVE  AllQuiet
<1>1. mode = 1
  BY DEF Terminate, Decided, Round
<1>2. ASSUME NEW w \in Workers PROVE ~Stale(w)
  <2>1. /\ pingback_termination_codes[w] # Awaited
        /\ termination_codes[w] = pingback_termination_codes[w]
    BY DEF Terminate, Decided, AllConfirmed, Everywhere, Ranks
  <2>2. pings[w] = 0 /\ confirms[w] = <<>>
    BY <2>1, RoundCases
  <2>3. Len(confirms[w]) = 0
    BY <2>2
  <2> QED
    BY <2>1, <2>2, <2>3 DEF Stale
<1> QED
  BY <1>1, <1>2 DEF Verdict

\* Until the system is quiet, no step tells a rank to leave.
LEMMA ToldStep ==
  ASSUME TypeOK, Round, Verdict, Told, [Next]_vars
  PROVE  Told'
<1> SUFFICES ASSUME ~AllQuiet'
             PROVE  /\ \A r \in Ranks : pc'[r] # "done"
                    /\ \A w \in Workers : \A i \in 1..Len(replies'[w]) : replies'[w][i] # 1
  BY DEF Told
<1>0. /\ ~AllQuiet /\ pc \in [Ranks -> {"poll", "check", "protocol", "confirm", "reply", "done"}]
      /\ replies \in [Workers -> Seq({0, 1})]
      /\ Workers \subseteq Ranks /\ Master \in Ranks
      /\ \A w \in Workers : repliesPosted[w] \in Nat
  BY AllQuietStep DEF TypeOK, Ranks
<1>00. /\ \A r \in Ranks : pc[r] # "done"
       /\ \A w \in Workers : \A i \in 1..Len(replies[w]) : replies[w][i] # 1
  BY <1>0 DEF Told
<1>1. CASE \E r \in Ranks : Environment(r) \/ Poll(r)
  BY <1>0, <1>00, <1>1, OutsideProtocol
<1>2. CASE \/ \E m \in Messages : Arrive(m)
           \/ \E w \in Workers : ReceiveCode(w) \/ ReceiveConfirm(w)
           \/ UNCHANGED vars
  <2>1. UNCHANGED <<pc, replies>>
    BY <1>2 DEF Arrive, ReceiveCode, ReceiveConfirm, vars, channels
  <2> QED
    BY <1>00, <2>1
<1>3. CASE Ping \/ NoPing \/ AwaitConfirms
  <2>1. UNCHANGED replies /\ \A r \in Ranks : pc'[r] = pc[r] \/ pc'[r] \in {"confirm", "poll"}
    BY <1>0, <1>3 DEF Ping, NoPing, AwaitConfirms, channels
  <2> QED
    BY <1>00, <2>1
<1>4. CASE Terminate
  BY <1>0, <1>4, TerminateQuiet
<1>5. CASE TryAgain
  <2>1. \A r \in Ranks : pc'[r] = pc[r] \/ pc'[r] = "poll"
    BY <1>0, <1>5 DEF TryAgain
  <2>2. ASSUME NEW w \in Workers, NEW i \in 1..Len(replies'[w]) PROVE replies'[w][i] # 1
    <3>1. replies'[w] = Append(replies[w], 0) /\ replies[w] \in Seq({0, 1})
      BY <1>0, <1>5 DEF TryAgain, Tell
    <3>2. i \in 1..(Len(replies[w]) + 1) /\ Len(replies[w]) \in Nat
      BY <3>1, AppendProperties
    <3>3. CASE i = Len(replies[w]) + 1
      BY <3>1, <3>3, AppendProperties
    <3>4. CASE i \in 1..Len(replies[w])
      BY <1>00, <3>1, <3>4, AppendProperties
    <3> QED
      BY <3>2, <3>3, <3>4
  <2> QED
    BY <1>00, <2>1, <2>2
<1>6. CASE \E w \in Workers : WorkerGoesOn(w) \/ AnswerPing(w)
  <2>1. UNCHANGED replies /\ \A r \in Ranks : pc'[r] = pc[r] \/ pc'[r] \in {"reply", "poll"}
    BY <1>0, <1>6 DEF WorkerGoesOn, NoAnswer, NoReply, AnswerPing, channels
  <2> QED
    BY <1>00, <2>1
<1>7. CASE \E w \in Workers : TakeReply(w)
  <2>1. PICK w \in Workers : TakeReply(w)
    BY <1>7
  <2>2. repliesPosted[w] \in 1..Len(replies[w]) /\ Len(replies[w]) \in Nat
    BY <1>0, <2>1 DEF TakeReply
  <2>3. replies[w][repliesPosted[w]] # 1
    BY <1>00, <2>2
  <2>4. \A r \in Ranks : pc'[r] = pc[r] \/ pc'[r] = "poll"
    BY <1>0, <2>1, <2>3 DEF TakeReply
  <2>5. ASSUME NEW v \in Workers, NEW i \in 1..Len(replies'[v]) PROVE replies'[v][i] # 1
    <3>1. CASE v = w
      <4> DEFINE n == repliesPosted[w]
                 s == replies[w]
      <4>1. replies'[w] = SubSeq(s, n + 1, Len(s))
        BY <1>0, <2>1 DEF TakeReply
      <4>2. s \in Seq({0, 1}) /\ n \in 1..Len(s) /\ Len(s) \in Nat
        BY <1>0, <2>2
      <4>3. \A j \in 1..Len(s) : s[j] # 1
        BY <1>00
      <4> HIDE DEF s, n
      <4>4. Len(SubSeq(s, n + 1, Len(s))) = Len(s) - n
        BY <4>2
      <4>5. i \in 1..(Len(s) - n)
        BY <3>1, <4>1, <4>4
      <4>6. SubSeq(s, n + 1, Len(s))[i] = s[n + i]
        BY <4>2, <4>5
      <4>7. n + i \in 1..Len(s)
        BY <4>2, <4>5
      <4> QED
        BY <3>1, <4>1, <4>3, <4>6, <4>7
    <3>2. CASE v # w
      <4>1. replies'[v] = replies[v]
        BY <1>0, <2>1, <3>2 DEF TakeReply
      <4> QED
        BY <1>00, <4>1
    <3> QED
      BY <3>1, <3>2
  <2> QED
    BY <1>00, <2>4, <2>5
<1> QED
  BY <1>1, <1>2, <1>3, <1>4, <1>5, <1>6, <1>7, NextCases DEF MasterGoesOn

\* The invariant of the protocol holds at the start.
LEMMA InductiveInit == Init => Inductive
<1> SUFFICES ASSUME Init PROVE Inductive
  OBVIOUS
<1>1. Sleep
  BY DEF Init, Sleep
<1>2. Drawn
  <2>1. AllDrawn(<<>>, 0)
    BY DEF AllDrawn
  <2> QED
    BY <2>1 DEF Init, Drawn, Ranks, Active
<1>3. Verdict
  BY DEF Init, Verdict
<1>4. Told
  <2>1. \A w \in Workers : Len(replies[w]) = 0
    BY DEF Init
  <2>2. \A r \in Ranks : pc[r] = "poll"
    BY DEF Init
  <2> QED
    BY <2>1, <2>2 DEF Told
<1> QED
  BY <1>1, <1>2, <1>3, <1>4, InitType, InitRound DEF Inductive

\* Every step keeps the invariant of the protocol, if ids do not repeat.
LEMMA InductiveStep == ~RandRepeats /\ Inductive /\ [Next]_vars => Inductive'
  BY NextType, SleepStep, DrawnStep, RoundStep, VerdictStep, ToldStep DEF Inductive

\* As long as no process draws the same id twice, none leaves edatFinalise
\* before every main thread is in it, no task and no event is left on any
\* process, and no event is on its way, for any number of workers, any
\* polling period and any batches.
THEOREM Safety ==
  ASSUME ~RandRepeats
  PROVE  Spec => []TerminationSafe
<1>1. Inductive /\ [Next]_vars => Inductive'
  BY InductiveStep
<1>2. Inductive => TerminationSafe
  BY DEF Inductive, Told, TerminationSafe
<1> QED
  BY InductiveInit, <1>1, <1>2, PTL DEF Spec

-----------------------------------------------------------------------------
(* Termination implements TerminationDetector: each step of a process or   *)
(* of the protocol lets one process settle, be woken or leave, or is not   *)
(* seen by the detector.                                                   *)
-----------------------------------------------------------------------------
(* What one step changes of the mapping                                    *)

SameQuiet(r) == Quiet(r)' <=> Quiet(r)

\* A rank of which nothing changes that quiescence reads is quiet if it was.
LEMMA SameParts ==
  ASSUME NEW r \in Ranks,
         attached'[r] = attached[r], active'[r] = active[r],
         eventShortTermStore'[r] = eventShortTermStore[r],
         \A m \in Messages : m.src = r => (request'[m] = "free" <=> request[m] = "free")
  PROVE  SameQuiet(r)
  BY DEF SameQuiet, Quiet, Outstanding

\* A step of a task, of the main thread or of a poll of one process is not
\* seen in the others: what is received is still outstanding at its sender.
LEMMA OwnStep ==
  ASSUME TypeOK, NEW r \in Ranks, Environment(r) \/ Poll(r), NEW s \in Ranks \ {r}
  PROVE  SameQuiet(s)
<1> USE DEF TypeOK
<1>1. ASSUME sendSingleEvent(r) PROVE SameQuiet(s)
  <2>1. UNCHANGED <<attached, active, eventShortTermStore>>
    BY <1>1 DEF sendSingleEvent, local
  <2>2. ASSUME NEW m \in Messages, m.src = s PROVE request'[m] = request[m]
    BY <1>1, <2>2 DEF sendSingleEvent
  <2> QED
    BY <2>1, <2>2, SameParts
<1>2. ASSUME MainWorks(r) \/ TasksEnd(r) PROVE SameQuiet(s)
  <2>1. active'[s] = active[s] /\ UNCHANGED <<attached, eventShortTermStore, request>>
    BY <1>2 DEF MainWorks, TasksEnd, local
  <2> QED
    BY <2>1, SameParts
<1>3. ASSUME attachMainThread(r) \/ setEligableForTermination(r) PROVE SameQuiet(s)
  <2>1. attached'[s] = attached[s] /\ UNCHANGED <<active, eventShortTermStore, request>>
    BY <1>3 DEF attachMainThread, setEligableForTermination, local
  <2> QED
    BY <2>1, SameParts
<1>4. ASSUME NEW m \in Messages, m.src = s PROVE Tested(r)[m] = request[m]
  BY <1>4 DEF Tested
<1>5. ASSUME ReceiveEvent(r) PROVE SameQuiet(s)
  <2>1. /\ attached'[s] = attached[s] /\ active'[s] = active[s]
        /\ eventShortTermStore'[s] = eventShortTermStore[s]
    BY <1>5 DEF ReceiveEvent, EventsRegistered
  <2>2. PICK n \in Pending(r) : request' = [Tested(r) EXCEPT ![n] = "received"]
    BY <1>5 DEF ReceiveEvent
  <2>3. n \in Messages /\ request[n] = "arrived"
    BY <2>2 DEF Pending
  <2>4. Tested(r) \in [Messages -> {"free", "transit", "arrived", "received"}]
    BY DEF Tested
  <2>5. ASSUME NEW m \in Messages, m.src = s PROVE request'[m] = "free" <=> request[m] = "free"
    BY <1>4, <2>2, <2>3, <2>4, <2>5
  <2> QED
    BY <2>1, <2>5, SameParts
<1>6. ASSUME NoEvent(r) PROVE SameQuiet(s)
  <2>1. UNCHANGED <<attached, active, eventShortTermStore>> /\ request' = Tested(r)
    BY <1>6 DEF NoEvent, process
  <2> QED
    BY <1>4, <2>1, SameParts
<1>7. ASSUME FlushBatch(r) PROVE SameQuiet(s)
  <2>1. /\ UNCHANGED <<attached, request>> /\ active'[s] = active[s]
        /\ eventShortTermStore'[s] = eventShortTermStore[s]
    BY <1>7 DEF FlushBatch, EventsRegistered
  <2> QED
    BY <2>1, SameParts
<1>8. ASSUME StillActive(r) \/ StillTerminated(r) \/ BecomeTerminated(r) \/ NotEligable(r)
      PROVE  SameQuiet(s)
  <2>1. UNCHANGED <<attached, active, eventShortTermStore, request>>
    BY <1>8 DEF StillActive, StillTerminated, BecomeTerminated, NotEligable, process, local
  <2> QED
    BY <2>1, SameParts
<1> QED
  BY <1>1, <1>2, <1>3, <1>5, <1>6, <1>7, <1>8 DEF Environment, Poll

\* The other steps are not seen at any process.
LEMMA ProtocolStep ==
  ASSUME TypeOK, [Next]_vars, ~\E r \in Ranks : Environment(r) \/ Poll(r), NEW s \in Ranks
  PROVE  SameQuiet(s)
<1>1. ASSUME NEW m \in Messages, Arrive(m) PROVE SameQuiet(s)
  <2>1. UNCHANGED <<attached, active, eventShortTermStore>>
    BY <1>1 DEF Arrive, process, local
  <2>2. \A n \in Messages : request'[n] = "free" <=> request[n] = "free"
    BY <1>1 DEF Arrive, TypeOK
  <2> QED
    BY <2>1, <2>2, SameParts
<1>2. CASE UNCHANGED <<process, request, local>>
  <2>1. UNCHANGED <<attached, active, eventShortTermStore, request>>
    BY <1>2 DEF process, local
  <2> QED
    BY <2>1, SameParts
<1>3. MasterGoesOn => UNCHANGED <<process, request, local>>
  BY DEF MasterGoesOn, Ping, NoPing, AwaitConfirms, Terminate, TryAgain
<1>4. ASSUME NEW w \in Workers
      PROVE  /\ ReceiveCode(w) \/ ReceiveConfirm(w) => UNCHANGED <<process, request, local>>
             /\ WorkerGoesOn(w) \/ AnswerPing(w) \/ TakeReply(w)
                  => UNCHANGED <<process, request, local>>
  BY DEF ReceiveCode, ReceiveConfirm, WorkerGoesOn, NoAnswer, NoReply, AnswerPing, TakeReply
<1>5. UNCHANGED vars => UNCHANGED <<process, request, local>>
  BY DEF vars
<1> QED
  BY <1>1, <1>2, <1>3, <1>4, <1>5, NextCases

\* A quiet process is woken by an event, whose sender is not quiet.
LEMMA WokenBy ==
  ASSUME TypeOK, [Next]_vars, NEW r \in Ranks, Quiet(r), ~Quiet(r)'
  PROVE  \E s \in Ranks : ~Quiet(s)
<1>1. ReceiveEvent(r)
  BY QuietStep
<1>2. PICK m \in Messages : m.dst = r /\ request[m] = "arrived"
  BY <1>1 DEF ReceiveEvent, Pending
<1>3. m.src \in Ranks /\ m \in Outstanding(m.src)
  BY <1>2 DEF Messages, Outstanding
<1> QED
  BY <1>3 DEF Quiet

\* Quiescence is kept where it is said to be kept.
LEMMA SameTruth == ASSUME NEW r \in Ranks, SameQuiet(r) PROVE Quiet(r)' = Quiet(r)
<1>1. CASE attached[r] /\ ~active[r] /\ eventShortTermStore[r] = 0 /\ Outstanding(r) = {}
  <2>1. Quiet(r) = TRUE
    BY <1>1 DEF Quiet
  <2>2. Quiet(r)' = TRUE
    BY <2>1 DEF SameQuiet, Quiet
  <2> QED
    BY <2>1, <2>2
<1>2. CASE ~(attached[r] /\ ~active[r] /\ eventShortTermStore[r] = 0 /\ Outstanding(r) = {})
  <2>1. Quiet(r) = FALSE
    BY <1>2 DEF Quiet
  <2>2. Quiet(r)' = FALSE
    BY <2>1 DEF SameQuiet, Quiet
  <2> QED
    BY <2>1, <2>2
<1> QED
  BY <1>1, <1>2

\* If one rank changes and the others do not, so does the function the detector
\* sees.
LEMMA AtRestChange ==
  ASSUME NEW r \in Ranks, NEW b \in BOOLEAN, Quiet(r)' = b, \A s \in Ranks \ {r} : SameQuiet(s)
  PROVE  atRest' = [atRest EXCEPT ![r] = b]
<1>1. ASSUME NEW s \in Ranks PROVE Quiet(s)' = (IF s = r THEN b ELSE Quiet(s))
  <2>1. CASE s = r
    BY <2>1, Zenon
  <2>2. CASE s # r
    <3>1. Quiet(s)' = Quiet(s)
      BY <2>2, SameTruth
    <3> QED
      BY <2>2, <3>1, Zenon
  <2> QED
    BY <2>1, <2>2
<1>2. atRest' = [s \in Ranks |-> IF s = r THEN b ELSE Quiet(s)]
  BY <1>1, Zenon DEF atRest
<1>3. [atRest EXCEPT ![r] = b] = [s \in Ranks |-> IF s = r THEN b ELSE Quiet(s)]
  BY Zenon DEF atRest
<1> QED
  BY <1>2, <1>3

\* A step settles one rank, wakes one by another that is not quiet, or changes
\* no rank.
LEMMA AtRestStep ==
  ASSUME TypeOK, [Next]_vars
  PROVE  \/ UNCHANGED atRest
         \/ \E r \in Ranks : ~atRest[r] /\ atRest' = [atRest EXCEPT ![r] = TRUE]
         \/ \E r, s \in Ranks :
              atRest[r] /\ ~atRest[s] /\ atRest' = [atRest EXCEPT ![r] = FALSE]
<1>0. \A r \in Ranks : atRest[r] = Quiet(r)
  BY Zenon DEF atRest
<1>1. CASE \A s \in Ranks : SameQuiet(s)
  <2>1. \A s \in Ranks : Quiet(s)' = Quiet(s)
    BY <1>1, SameTruth
  <2> QED
    BY <2>1, Zenon DEF atRest
<1>2. CASE \E r \in Ranks : ~SameQuiet(r)
  <2>1. PICK r \in Ranks : ~SameQuiet(r)
    BY <1>2
  <2>2. PICK q \in Ranks : Environment(q) \/ Poll(q)
    BY <2>1, ProtocolStep
  <2>3. q = r
    BY <2>1, <2>2, OwnStep
  <2>4. \A s \in Ranks \ {r} : SameQuiet(s)
    BY <2>2, <2>3, OwnStep
  <2>5. CASE Quiet(r)
    <3>1. ~Quiet(r)'
      BY <2>1, <2>5 DEF SameQuiet
    <3>2. PICK s \in Ranks : ~Quiet(s)
      BY <2>5, <3>1, WokenBy
    <3>3. Quiet(r)' = FALSE
      BY <3>1 DEF Quiet
    <3>4. atRest' = [atRest EXCEPT ![r] = FALSE]
      BY <2>4, <3>3, AtRestChange, Zenon
    <3> QED
      BY <1>0, <2>5, <3>2, <3>4, Zenon
  <2>6. CASE ~Quiet(r)
    <3>1. Quiet(r)'
      BY <2>1, <2>6 DEF SameQuiet
    <3>2. Quiet(r)' = TRUE
      BY <3>1 DEF Quiet
    <3>3. atRest' = [atRest EXCEPT ![r] = TRUE]
      BY <2>4, <3>2, AtRestChange, Zenon
    <3> QED
      BY <1>0, <2>6, <3>3, Zenon
  <2> QED
    BY <2>5, <2>6
<1> QED
  BY <1>1, <1>2

-----------------------------------------------------------------------------
(* Who leaves                                                              *)

\* The thread that polls for a process that is done takes no further step.
LEMMA DoneStep ==
  ASSUME TypeOK, [Next]_vars
  PROVE  \/ UNCHANGED done
         \/ Terminate /\ done' = done \union {Master}
         \/ \E w \in Workers : TakeReply(w) /\ done' = done \union {w}
<1>0. /\ pc \in [Ranks -> {"poll", "check", "protocol", "confirm", "reply", "done"}]
      /\ Master \in Ranks /\ Workers \subseteq Ranks
  BY DEF TypeOK, Ranks
<1>1. ASSUME NEW r \in Ranks, Environment(r) \/ Poll(r) PROVE UNCHANGED done
  <2>1. CASE UNCHANGED pc
    BY <2>1 DEF done
  <2>2. CASE pc[r] # "done" /\ \E l \in {"poll", "check", "protocol"} : pc' = [pc EXCEPT ![r] = l]
    BY <1>0, <2>2 DEF done
  <2>3. Environment(r) => UNCHANGED pc
    BY DEF Environment, sendSingleEvent, MainWorks, TasksEnd, attachMainThread,
           setEligableForTermination
  <2>4. FlushBatch(r) => UNCHANGED pc
    BY DEF FlushBatch
  <2>5. ReceiveEvent(r) \/ NoEvent(r) \/ StillActive(r) \/ StillTerminated(r)
        \/ BecomeTerminated(r) \/ NotEligable(r)
          => pc[r] # "done" /\ \E l \in {"poll", "check", "protocol"} : pc' = [pc EXCEPT ![r] = l]
    BY DEF ReceiveEvent, NoEvent, StillActive, StillTerminated, BecomeTerminated, NotEligable
  <2> QED
    BY <1>1, <2>1, <2>2, <2>3, <2>4, <2>5 DEF Poll
<1>2. ASSUME NEW m \in Messages, Arrive(m) PROVE UNCHANGED done
  BY <1>2 DEF Arrive, done
<1>3. CASE Ping \/ NoPing \/ AwaitConfirms \/ TryAgain
  <2>1. pc[Master] # "done" /\ \E l \in {"poll", "confirm"} : pc' = [pc EXCEPT ![Master] = l]
    BY <1>3 DEF Ping, NoPing, AwaitConfirms, TryAgain, InProtocol, Decided
  <2> QED
    BY <1>0, <2>1 DEF done
<1>4. CASE Terminate
  <2>1. pc' = [pc EXCEPT ![Master] = "done"]
    BY <1>4 DEF Terminate
  <2>2. done' = done \union {Master}
    BY <1>0, <2>1 DEF done
  <2> QED
    BY <1>4, <2>2
<1>5. ASSUME NEW w \in Workers, ReceiveCode(w) \/ ReceiveConfirm(w) PROVE UNCHANGED done
  BY <1>5 DEF ReceiveCode, ReceiveConfirm, done
<1>6. ASSUME NEW w \in Workers, WorkerGoesOn(w) \/ AnswerPing(w) PROVE UNCHANGED done
  <2>1. pc[w] # "done" /\ \E l \in {"poll", "reply"} : pc' = [pc EXCEPT ![w] = l]
    BY <1>6 DEF WorkerGoesOn, NoAnswer, NoReply, AnswerPing, InProtocol
  <2> QED
    BY <1>0, <2>1 DEF done
<1>7. ASSUME NEW w \in Workers, TakeReply(w)
      PROVE  UNCHANGED done \/ done' = done \union {w}
  <2>1. pc[w] # "done" /\ \E l \in {"poll", "done"} : pc' = [pc EXCEPT ![w] = l]
    BY <1>7 DEF TakeReply
  <2> QED
    BY <1>0, <2>1 DEF done
<1>8. CASE UNCHANGED vars
  BY <1>8 DEF vars, done
<1> QED
  BY <1>1, <1>2, <1>3, <1>4, <1>5, <1>6, <1>7, <1>8, NextCases DEF MasterGoesOn

\* Whoever leaves does so when the system is quiet, and the step is not one
\* that changes that of any process.
LEMMA LeavesQuiet ==
  ASSUME TypeOK, Round, Verdict, Told, [Next]_vars, ~UNCHANGED done
  PROVE  /\ AllQuiet /\ UNCHANGED atRest
         /\ \E r \in Ranks : done' = done \union {r}
<1>1. CASE Terminate /\ done' = done \union {Master}
  <2>1. AllQuiet
    BY <1>1, TerminateQuiet
  <2>2. UNCHANGED <<process, request, local>>
    BY <1>1 DEF Terminate
  <2> QED
    BY <1>1, <2>1, <2>2 DEF process, local, atRest, Quiet, Outstanding, Ranks
<1>2. ASSUME NEW w \in Workers, TakeReply(w), done' = done \union {w}
      PROVE  AllQuiet /\ UNCHANGED atRest
  <2>1. replies[w][repliesPosted[w]] = 1
    BY <1>2 DEF TakeReply, TypeOK, done, Ranks
  <2>2. repliesPosted[w] \in 1..Len(replies[w])
    BY <1>2 DEF TakeReply, TypeOK
  <2>3. AllQuiet
    BY <2>1, <2>2 DEF Told
  <2>4. UNCHANGED <<process, request, local>>
    BY <1>2 DEF TakeReply
  <2> QED
    BY <2>3, <2>4 DEF process, local, atRest, Quiet, Outstanding
<1> QED
  BY <1>1, <1>2, DoneStep DEF Ranks

-----------------------------------------------------------------------------
(* The theorem                                                             *)

\* Nobody is done at the start.
LEMMA DetectorInit == Init => Detector!Init
<1> SUFFICES ASSUME Init PROVE Detector!Init
  OBVIOUS
<1>1. \A r \in Ranks : Quiet(r) = FALSE
  BY DEF Init, Quiet
<1>2. atRest = [r \in Ranks |-> FALSE]
  BY <1>1, Zenon DEF atRest
<1>3. done = {}
  BY DEF Init, done
<1> QED
  BY <1>2, <1>3 DEF Detector!Init

\* Every step of the protocol is one of the abstract detector, or is not seen.
LEMMA DetectorStep ==
  ASSUME Inductive, [Next]_vars
  PROVE  [Detector!Next]_<<atRest, done>>
<1>1. CASE UNCHANGED done
  <2>1. ASSUME NEW r \in Ranks, ~atRest[r], atRest' = [atRest EXCEPT ![r] = TRUE]
        PROVE  Detector!Settle(r)
    BY <1>1, <2>1 DEF Detector!Settle
  <2>2. ASSUME NEW r \in Ranks, NEW s \in Ranks, atRest[r], ~atRest[s],
               atRest' = [atRest EXCEPT ![r] = FALSE]
        PROVE  Detector!Wake(r, s)
    BY <1>1, <2>2 DEF Detector!Wake
  <2> QED
    BY <1>1, <2>1, <2>2, AtRestStep DEF Inductive, Detector!Next
<1>2. CASE ~UNCHANGED done
  <2>1. AllQuiet /\ UNCHANGED atRest
    BY <1>2, LeavesQuiet DEF Inductive
  <2>2. PICK r \in Ranks : done' = done \union {r}
    BY <1>2, LeavesQuiet DEF Inductive
  <2>3. \A s \in Ranks : atRest[s]
    BY <2>1, Zenon DEF AllQuiet, atRest
  <2> QED
    BY <2>1, <2>2, <2>3 DEF Detector!Next, Detector!Leave
<1> QED
  BY <1>1, <1>2

\* As long as no process draws an id twice, the messages, ids and rounds of
\* performSinglePoll implement the detector, for any number of processes, any
\* period and any batches: a quiet process is woken only by an event of one
\* that is not quiet, none leaves before all are quiet, and none comes back.
THEOREM Refinement ==
  ASSUME ~RandRepeats
  PROVE  Spec => DetectsTermination
<1>1. Inductive /\ [Next]_vars => Inductive'
  BY InductiveStep
<1>2. Inductive /\ [Next]_vars => [Detector!Next]_<<atRest, done>>
  BY DetectorStep
<1> QED
  BY InductiveInit, DetectorInit, <1>1, <1>2, PTL DEF Spec, DetectsTermination, Detector!Spec

=============================================================================
