----------------------------- MODULE Termination -----------------------------
(***************************************************************************)
(* Events between processes and the detection of global termination, as in *)
(* src/src/mpi_p2p_messaging.cpp and src/src/messaging.cpp.                *)
(*                                                                         *)
(* Every process has one thread at a time in performSinglePoll; pc tells   *)
(* how far it is.  Of the scheduler and the thread pool of a process only  *)
(* "active" is kept: whether there is a task, an event or a busy worker    *)
(* that keeps the process from terminating.  Rank 0 is Master.             *)
(*                                                                         *)
(* Events travel by synchronous sends: request[m] follows one MPI_Issend   *)
(* from the call to the MPI_Testsome that reports it.  The messages of the *)
(* protocol are single integers that MPI buffers (eager sends), in order.  *)
(***************************************************************************)
EXTENDS Integers, Sequences, FiniteSets

CONSTANTS
  Master, Workers,       \* rank 0, and the other ranks
  Handles,               \* bound: sends of one rank to another that may be outstanding
  SEND_PROGRESS_PERIOD,  \* polls between two looks at the outstanding sends
  Batching,              \* EDAT_BATCH_EVENTS
  MaxBatched,            \* EDAT_MAX_BATCHED_EVENTS
  RandRepeats,           \* std::rand may return an id it has returned before
  MaxSends               \* bound: events sent between processes in a behaviour

Ranks == Workers \union {Master}
Messages == {m \in [src : Ranks, dst : Ranks, handle : Handles] : m.src # m.dst}

Active == -1    \* "no termination id", in a list of codes and in an answer to a ping
Awaited == -2   \* in the ping-back list: not answered yet

ASSUME RanksAssumption == Master \notin Workers
ASSUME FiniteAssumption == IsFiniteSet(Workers)
ASSUME PeriodAssumption == SEND_PROGRESS_PERIOD \in Nat
ASSUME BatchAssumption == Batching \in BOOLEAN /\ MaxBatched \in Nat \ {0}
ASSUME RandAssumption == RandRepeats \in BOOLEAN
ASSUME MaxSendsAssumption == MaxSends \in Nat

VARIABLES
  \* the rest of each process
  active,               \* the scheduler or the thread pool is not finished
  attached,             \* the main thread sleeps in edatFinalise
  eligable_for_termination,
  sent,                 \* counter of the bound MaxSends
  \* MPI
  request,              \* per message: free, transit, arrived or received
  codesSent,            \* per worker: ids on their way to the master
  pings,                \* per worker: pings on their way to it
  confirms,             \* per worker: answers to pings on their way to the master
  replies,              \* per worker: verdicts on their way to it
  \* every process
  pc,
  iteration_counter,
  eventShortTermStore,  \* the number of events kept for a batch
  terminated,
  terminated_id,
  draws,                \* the highest id drawn so far (history)
  \* workers
  pingbackPosted,       \* termination_pingback_request is not MPI_REQUEST_NULL
  repliesPosted,        \* receives posted for verdicts, the last is termination_completed_request
  \* the master
  mode,
  termination_codes,
  pingback_termination_codes

process == <<active, attached, eligable_for_termination, sent>>
local == <<iteration_counter, eventShortTermStore, terminated, terminated_id, draws>>
posted == <<pingbackPosted, repliesPosted>>
master == <<mode, termination_codes, pingback_termination_codes>>
channels == <<codesSent, pings, confirms, replies>>

vars == <<process, request, channels, pc, local, posted, master>>

Init ==
  /\ active = [r \in Ranks |-> FALSE]
  /\ attached = [r \in Ranks |-> FALSE]
  /\ eligable_for_termination = [r \in Ranks |-> FALSE]
  /\ sent = 0
  /\ request = [m \in Messages |-> "free"]
  /\ codesSent = [w \in Workers |-> <<>>]
  /\ pings = [w \in Workers |-> 0]
  /\ confirms = [w \in Workers |-> <<>>]
  /\ replies = [w \in Workers |-> <<>>]
  /\ pc = [r \in Ranks |-> "poll"]
  /\ iteration_counter = [r \in Ranks |-> 0]
  /\ eventShortTermStore = [r \in Ranks |-> 0]
  /\ terminated = [r \in Ranks |-> FALSE]
  /\ terminated_id = [r \in Ranks |-> 0]
  /\ draws = [r \in Ranks |-> 0]
  /\ pingbackPosted = [w \in Workers |-> FALSE]
  /\ repliesPosted = [w \in Workers |-> 0]
  /\ mode = 0
  /\ termination_codes = [r \in Ranks |-> Active]
  /\ pingback_termination_codes = [r \in Ranks |-> Active]

-----------------------------------------------------------------------------
(* Tasks and the main thread                                               *)

\* The main thread until it sleeps, and running tasks, send events.
sendSingleEvent(r) ==
  /\ ~attached[r] \/ active[r]
  /\ sent < MaxSends /\ sent' = sent + 1
  /\ \E m \in Messages :
       m.src = r /\ request[m] = "free" /\ request' = [request EXCEPT ![m] = "transit"]
  /\ UNCHANGED <<active, attached, eligable_for_termination, channels, pc, local, posted, master>>

\* The main thread submits a task, or fires an event to its own process.
MainWorks(r) ==
  /\ ~attached[r] /\ ~active[r]
  /\ active' = [active EXCEPT ![r] = TRUE]
  /\ UNCHANGED <<attached, eligable_for_termination, sent, request, channels, pc, local, posted,
                 master>>

\* The last task ends, and the last event is consumed.
TasksEnd(r) ==
  /\ active[r]
  /\ active' = [active EXCEPT ![r] = FALSE]
  /\ UNCHANGED <<attached, eligable_for_termination, sent, request, channels, pc, local, posted,
                 master>>

\* edatFinalise, its two calls that matter here.
attachMainThread(r) ==
  /\ ~attached[r]
  /\ attached' = [attached EXCEPT ![r] = TRUE]
  /\ UNCHANGED <<active, eligable_for_termination, sent, request, channels, pc, local, posted,
                 master>>

setEligableForTermination(r) ==
  /\ attached[r] /\ ~eligable_for_termination[r]
  /\ eligable_for_termination' = [eligable_for_termination EXCEPT ![r] = TRUE]
  /\ UNCHANGED <<active, attached, sent, request, channels, pc, local, posted, master>>

-----------------------------------------------------------------------------
(* performSinglePoll                                                       *)

Outstanding(r) == {m \in Messages : m.src = r /\ request[m] # "free"}
Pending(r) == {m \in Messages : m.dst = r /\ request[m] = "arrived"}

Arrive(m) ==
  /\ request[m] = "transit"
  /\ request' = [request EXCEPT ![m] = "arrived"]
  /\ UNCHANGED <<process, channels, pc, local, posted, master>>

\* checkSendRequestsForProgress every so many polls frees the sends that
\* their targets have begun to receive.
Tested(r) ==
  IF iteration_counter[r] = SEND_PROGRESS_PERIOD
    THEN [m \in Messages |-> IF m.src = r /\ request[m] = "received" THEN "free" ELSE request[m]]
    ELSE request

\* Mistake: one poll more between two looks.
CountedLate(r) ==
  iteration_counter' = [iteration_counter EXCEPT ![r] =
                          IF @ > SEND_PROGRESS_PERIOD THEN 0 ELSE @ + 1]

Counted(r) ==
  iteration_counter' = [iteration_counter EXCEPT ![r] =
                          IF @ = SEND_PROGRESS_PERIOD THEN 0 ELSE @ + 1]

\* The last thing before the protocol: rank 0 keeps its own code up to date.
OwnCode(r, isTerminated, id) ==
  termination_codes' = IF r = Master
                         THEN [termination_codes EXCEPT ![Master] =
                                 IF isTerminated THEN id ELSE Active]
                         ELSE termination_codes

\* What becomes of an event is up to the scheduler: it may start a task, or
\* wait for one, or join the others of a persistent task.
EventsRegistered(r) == active' \in {active, [active EXCEPT ![r] = TRUE]}

\* handleRemoteMessageArrival: the event may be kept for a batch, and may
\* complete one.
ReceiveEvent(r) ==
  /\ pc[r] = "poll"
  /\ Counted(r)
  /\ \E m \in Pending(r) : request' = [Tested(r) EXCEPT ![m] = "received"]
  /\ terminated' = [terminated EXCEPT ![r] = FALSE]
  /\ IF Batching /\ eventShortTermStore[r] + 1 < MaxBatched
       THEN /\ eventShortTermStore' = [eventShortTermStore EXCEPT ![r] = @ + 1]
            /\ UNCHANGED active
       ELSE /\ eventShortTermStore' = [eventShortTermStore EXCEPT ![r] = 0]
            /\ EventsRegistered(r)
  /\ OwnCode(r, FALSE, terminated_id[r])
  /\ pc' = [pc EXCEPT ![r] = "protocol"]
  /\ UNCHANGED <<attached, eligable_for_termination, sent, channels, terminated_id, draws, posted,
                 mode, pingback_termination_codes>>

NoEvent(r) ==
  /\ pc[r] = "poll"
  /\ Pending(r) = {}
  /\ Counted(r)
  /\ request' = Tested(r)
  /\ pc' = [pc EXCEPT ![r] = "check"]
  /\ UNCHANGED <<process, channels, eventShortTermStore, terminated, terminated_id, draws, posted,
                 master>>

\* The batch waited long enough.
FlushBatch(r) ==
  /\ pc[r] = "check"
  /\ eventShortTermStore[r] > 0
  /\ eventShortTermStore' = [eventShortTermStore EXCEPT ![r] = 0]
  /\ EventsRegistered(r)
  /\ UNCHANGED <<attached, eligable_for_termination, sent, request, channels, pc,
                 iteration_counter, terminated, terminated_id, draws, posted, master>>

\* Mistake: sends are not waited for.
LocalTerminationAsync(r) ==
  attached[r] /\ Pending(r) = {} /\ eventShortTermStore[r] = 0 /\ ~active[r]

\* checkForLocalTermination holds all the mutexes at once.
LocalTermination(r) ==
  /\ attached[r]
  /\ Pending(r) = {} /\ Outstanding(r) = {} /\ eventShortTermStore[r] = 0
  /\ ~active[r]

\* std::rand
Ids(r) == IF RandRepeats THEN 1..(draws[r] + 1) ELSE {draws[r] + 1}

StillActive(r) ==
  /\ pc[r] = "check" /\ ~LocalTermination(r)
  /\ terminated' = [terminated EXCEPT ![r] = FALSE]
  /\ OwnCode(r, FALSE, terminated_id[r])
  /\ pc' = [pc EXCEPT ![r] = "protocol"]
  /\ UNCHANGED <<process, request, channels, iteration_counter, eventShortTermStore, terminated_id,
                 draws, posted, mode, pingback_termination_codes>>

StillTerminated(r) ==
  /\ pc[r] = "check" /\ LocalTermination(r) /\ terminated[r]
  /\ OwnCode(r, TRUE, terminated_id[r])
  /\ pc' = [pc EXCEPT ![r] = "protocol"]
  /\ UNCHANGED <<process, request, channels, local, posted, mode, pingback_termination_codes>>

\* A process that becomes idle draws an id; a worker tells the master.
BecomeTerminated(r) ==
  /\ pc[r] = "check" /\ LocalTermination(r) /\ ~terminated[r]
  /\ terminated' = [terminated EXCEPT ![r] = TRUE]
  /\ \E id \in Ids(r) :
       /\ terminated_id' = [terminated_id EXCEPT ![r] = id]
       /\ draws' = [draws EXCEPT ![r] = IF id > @ THEN id ELSE @]
       /\ OwnCode(r, TRUE, id)
       /\ codesSent' = [w \in Workers |-> IF w = r THEN Append(codesSent[w], id) ELSE codesSent[w]]
  /\ pingbackPosted' = [w \in Workers |-> w = r \/ pingbackPosted[w]]
  /\ pc' = [pc EXCEPT ![r] = "protocol"]
  /\ UNCHANGED <<process, request, pings, confirms, replies, iteration_counter,
                 eventShortTermStore, repliesPosted, mode, pingback_termination_codes>>

\* Before finalisation the protocol is not run.
NotEligable(r) ==
  /\ pc[r] = "protocol" /\ ~eligable_for_termination[r]
  /\ pc' = [pc EXCEPT ![r] = "poll"]
  /\ UNCHANGED <<process, request, channels, local, posted, master>>

InProtocol(r) == pc[r] = "protocol" /\ eligable_for_termination[r]

-----------------------------------------------------------------------------
(* The master                                                              *)

\* Mistake: only the first entry of the list is looked at.
EverywhereFirst(codes, code) == codes[Master] # code

Everywhere(codes, code) == \A r \in Ranks : codes[r] # code

\* trackTentativeTerminationCodes takes the ids that have arrived.
ReceiveCode(w) ==
  /\ InProtocol(Master) /\ mode = 0 /\ codesSent[w] # <<>>
  /\ termination_codes' = [termination_codes EXCEPT ![w] = Head(codesSent[w])]
  /\ codesSent' = [codesSent EXCEPT ![w] = Tail(@)]
  /\ UNCHANGED <<process, request, pings, confirms, replies, pc, local, posted, mode,
                 pingback_termination_codes>>

MayPing == terminated[Master] /\ Everywhere(termination_codes, Active)

\* All have terminated at some time: ask every worker for its current id.
Ping ==
  /\ InProtocol(Master) /\ mode = 0 /\ MayPing
  /\ mode' = 1
  /\ pingback_termination_codes' =
       [r \in Ranks |-> IF r = Master THEN terminated_id[Master] ELSE Awaited]
  /\ pings' = [w \in Workers |-> pings[w] + 1]
  /\ pc' = [pc EXCEPT ![Master] = "confirm"]
  /\ UNCHANGED <<process, request, codesSent, confirms, replies, local, posted, termination_codes>>

NoPing ==
  /\ InProtocol(Master)
  /\ IF mode = 1 THEN pc' = [pc EXCEPT ![Master] = "confirm"]
                 ELSE ~MayPing /\ pc' = [pc EXCEPT ![Master] = "poll"]
  /\ UNCHANGED <<process, request, channels, local, posted, master>>

\* confirmTerminationCodes takes the answers that have arrived.
ReceiveConfirm(w) ==
  /\ pc[Master] = "confirm" /\ confirms[w] # <<>>
  /\ pingback_termination_codes' = [pingback_termination_codes EXCEPT ![w] = Head(confirms[w])]
  /\ confirms' = [confirms EXCEPT ![w] = Tail(@)]
  /\ UNCHANGED <<process, request, codesSent, pings, replies, pc, local, posted, mode,
                 termination_codes>>

AwaitConfirms ==
  /\ pc[Master] = "confirm" /\ ~Everywhere(pingback_termination_codes, Awaited)
  /\ pc' = [pc EXCEPT ![Master] = "poll"]
  /\ UNCHANGED <<process, request, channels, local, posted, master>>

\* compareTerminationRanks
AllConfirmed ==
  /\ Everywhere(pingback_termination_codes, Active)
  /\ \A r \in Ranks : termination_codes[r] = pingback_termination_codes[r]

\* Mistake: the answers that are missing are not waited for.
DecidedEarly == pc[Master] = "confirm"

Decided == pc[Master] = "confirm" /\ Everywhere(pingback_termination_codes, Awaited)
Tell(command) == replies' = [w \in Workers |-> Append(replies[w], command)]

Terminate ==
  /\ Decided /\ AllConfirmed
  /\ Tell(1)
  /\ pc' = [pc EXCEPT ![Master] = "done"]
  /\ UNCHANGED <<process, request, codesSent, pings, confirms, local, posted, master>>

TryAgain ==
  /\ Decided /\ ~AllConfirmed
  /\ Tell(0)
  /\ mode' = 0
  /\ termination_codes' = pingback_termination_codes
  /\ pc' = [pc EXCEPT ![Master] = "poll"]
  /\ UNCHANGED <<process, request, codesSent, pings, confirms, local, posted,
                 pingback_termination_codes>>

-----------------------------------------------------------------------------
(* The workers: handleTerminationProtocolMessagesAsWorker                  *)

\* The ping has arrived: tell the id, or that the process is active, and
\* post a receive for the verdict, whether or not one is still posted.
AnswerPing(w) ==
  /\ InProtocol(w) /\ pingbackPosted[w] /\ pings[w] > 0
  /\ pings' = [pings EXCEPT ![w] = @ - 1]
  /\ pingbackPosted' = [pingbackPosted EXCEPT ![w] = FALSE]
  /\ confirms' = [confirms EXCEPT ![w] =
                    Append(@, IF terminated[w] THEN terminated_id[w] ELSE Active)]
  /\ repliesPosted' = [repliesPosted EXCEPT ![w] = @ + 1]
  /\ pc' = [pc EXCEPT ![w] = "reply"]
  /\ UNCHANGED <<process, request, codesSent, replies, local, master>>

\* No ping is awaited, or it has not arrived.
NoAnswer(w) ==
  /\ InProtocol(w)
  /\ pc' = [pc EXCEPT ![w] = "reply"]
  /\ UNCHANGED <<process, request, channels, local, posted, master>>

\* Mistake: the next ping is not listened for.
PostPingbackNever(w) == UNCHANGED pingbackPosted

PostPingback(w) == pingbackPosted' = [pingbackPosted EXCEPT ![w] = TRUE]

\* The receive posted last has completed; the earlier ones took the verdicts before.
TakeReply(w) ==
  /\ pc[w] = "reply" /\ repliesPosted[w] > 0 /\ Len(replies[w]) >= repliesPosted[w]
  /\ LET reply_from_master == replies[w][repliesPosted[w]] IN
       IF reply_from_master = 1
         THEN pc' = [pc EXCEPT ![w] = "done"] /\ UNCHANGED pingbackPosted
         ELSE /\ pc' = [pc EXCEPT ![w] = "poll"]
              /\ PostPingback(w)
  /\ replies' = [replies EXCEPT ![w] = SubSeq(@, repliesPosted[w] + 1, Len(@))]
  /\ repliesPosted' = [repliesPosted EXCEPT ![w] = 0]
  /\ UNCHANGED <<process, request, codesSent, pings, confirms, local, master>>

NoReply(w) ==
  /\ pc[w] = "reply"
  /\ pc' = [pc EXCEPT ![w] = "poll"]
  /\ UNCHANGED <<process, request, channels, local, posted, master>>

-----------------------------------------------------------------------------
Environment(r) ==
  \/ sendSingleEvent(r) \/ MainWorks(r) \/ TasksEnd(r)
  \/ attachMainThread(r) \/ setEligableForTermination(r)

Poll(r) ==
  \/ ReceiveEvent(r) \/ NoEvent(r) \/ FlushBatch(r)
  \/ StillActive(r) \/ StillTerminated(r) \/ BecomeTerminated(r)
  \/ NotEligable(r)

\* Once there is nothing to receive, the master goes on.
MasterGoesOn == Ping \/ NoPing \/ AwaitConfirms \/ Terminate \/ TryAgain
WorkerGoesOn(w) == NoAnswer(w) \/ NoReply(w)

AllDone == \A r \in Ranks : pc[r] = "done"

Next ==
  \/ \E r \in Ranks : Environment(r) \/ Poll(r)
  \/ \E m \in Messages : Arrive(m)
  \/ MasterGoesOn
  \/ \E w \in Workers :
       \/ ReceiveCode(w) \/ ReceiveConfirm(w)
       \/ WorkerGoesOn(w) \/ AnswerPing(w) \/ TakeReply(w)
  \/ AllDone /\ UNCHANGED vars

\* Tasks end, main threads finalise, the pollers poll, MPI delivers: a
\* message is received by one of the tests that are made for it, again and
\* again.
Fairness ==
  /\ \A r \in Ranks :
       /\ WF_vars(TasksEnd(r)) /\ WF_vars(attachMainThread(r))
       /\ WF_vars(setEligableForTermination(r))
       /\ WF_vars(Poll(r))
       /\ SF_vars(FlushBatch(r))
  /\ \A m \in Messages : WF_vars(Arrive(m))
  /\ WF_vars(MasterGoesOn)
  /\ \A w \in Workers :
       /\ WF_vars(WorkerGoesOn(w))
       /\ SF_vars(ReceiveCode(w)) /\ SF_vars(ReceiveConfirm(w))
       /\ SF_vars(AnswerPing(w)) /\ SF_vars(TakeReply(w))

Spec == Init /\ [][Next]_vars /\ Fairness

-----------------------------------------------------------------------------
(* Correctness                                                             *)

Code == Nat \union {Active}

\* The type invariant.
TypeOK ==
  /\ active \in [Ranks -> BOOLEAN] /\ attached \in [Ranks -> BOOLEAN]
  /\ eligable_for_termination \in [Ranks -> BOOLEAN]
  /\ sent \in Nat
  /\ request \in [Messages -> {"free", "transit", "arrived", "received"}]
  /\ codesSent \in [Workers -> Seq(Nat)]
  /\ pings \in [Workers -> Nat]
  /\ confirms \in [Workers -> Seq(Code)]
  /\ replies \in [Workers -> Seq({0, 1})]
  /\ pc \in [Ranks -> {"poll", "check", "protocol", "confirm", "reply", "done"}]
  /\ iteration_counter \in [Ranks -> 0..SEND_PROGRESS_PERIOD]
  /\ eventShortTermStore \in [Ranks -> Nat]
  /\ terminated \in [Ranks -> BOOLEAN]
  /\ terminated_id \in [Ranks -> Nat] /\ draws \in [Ranks -> Nat]
  /\ pingbackPosted \in [Workers -> BOOLEAN] /\ repliesPosted \in [Workers -> Nat]
  /\ mode \in {0, 1}
  /\ termination_codes \in [Ranks -> Code]
  /\ pingback_termination_codes \in [Ranks -> Code \union {Awaited}]

\* A process is quiet when nothing in it, and none of its sends, is left.
Quiet(r) == attached[r] /\ ~active[r] /\ eventShortTermStore[r] = 0 /\ Outstanding(r) = {}

AllQuiet == \A r \in Ranks : Quiet(r)

\* The conditions for termination of docs/concepts.md: a process leaves
\* edatFinalise only when every main thread is in edatFinalise, no task and
\* no event is left on any process, and no event is on its way.
TerminationSafe == (\E r \in Ranks : pc[r] = "done") => AllQuiet

\* An answer to a ping is on its way only while the round it belongs to is
\* open, and a worker never has two: MPI_Cancel never meets a message that
\* the master would still have to receive.
OneAnswerPerRound ==
  \A w \in Workers :
    /\ mode = 0 => pings[w] = 0 /\ confirms[w] = <<>>
    /\ pings[w] + Len(confirms[w]) <= 1
    /\ pings[w] + Len(confirms[w]) = 1 => pingback_termination_codes[w] = Awaited

\* What TerminationDetector sees of the state.
atRest == [r \in Ranks |-> Quiet(r)]
done == {r \in Ranks : pc[r] = "done"}

Detector == INSTANCE TerminationDetector WITH quiet <- atRest, over <- done

\* The protocol detects termination: the counters, ids and rounds implement
\* TerminationDetector.  Beyond TerminationSafe this says that nothing wakes a
\* quiet process but an event of one that is not quiet, and that no process
\* which has left comes back.
DetectsTermination == Detector!Spec

\* Once the system is quiet, every process terminates.
QuietTerminates == AllQuiet ~> AllDone
=============================================================================
