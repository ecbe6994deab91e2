-------------------------- MODULE ConcurrencyControl --------------------------
(***************************************************************************)
(* Named locks (src/src/concurrency_ctrl.cpp).  A lock belongs to a worker *)
(* rather than to a task: what a task still holds when it ends or waits is *)
(* released, and taken again after the wait.                               *)
(*                                                                         *)
(* A caller is the id that the thread pool gives the calling thread.  The  *)
(* threads of one worker take turns, and swap only when they hold nothing, *)
(* so that a worker is one caller.  NoWorker is the main thread when it is *)
(* not a worker, and the owner of a lock that is free.                     *)
(***************************************************************************)
EXTENDS Integers, FiniteSets

CONSTANTS
  Callers,   \* the ids of the threads that run user code
  Names,     \* lock names, numbered in alphabetical order
  Ordered,   \* tasks take their locks in that order
  MaxCalls   \* bound: calls of edatLock and edatWait in a behaviour

NoWorker == -1
Nobody == -2   \* the owner of a std::mutex that is not locked

ASSUME CallersAssumption == Callers \subseteq Nat \union {NoWorker}
ASSUME NamesAssumption == Names \subseteq Nat /\ IsFiniteSet(Names)
ASSUME OrderedAssumption == Ordered \in BOOLEAN
ASSUME MaxCallsAssumption == MaxCalls \in Nat

VARIABLES
  locks,                \* the names that have a LockContext
  mutex, acquired, acquiredWorker,   \* its members, per name
  workerAcquiredLocks,  \* per caller
  activeLocks,
  locks_mtx,            \* its owner, or Nobody
  pc,                   \* per caller: user, issue, blocked, acquired, paused
  wanted,               \* per caller: the locks its call has still to take
  unwritten,            \* per caller: the members it has not written yet
  raised,               \* raiseError was called
  held,                 \* history, per caller: the locks the programmer counts on
  calls                 \* counter of the bound

context == <<locks, mutex, acquired, acquiredWorker>>
books == <<workerAcquiredLocks, activeLocks, locks_mtx>>
call == <<pc, wanted, unwritten>>
vars == <<context, books, call, raised, held, calls>>

Init ==
  /\ locks = {}
  /\ mutex = [n \in Names |-> Nobody]
  /\ acquired = [n \in Names |-> FALSE]
  /\ acquiredWorker = [n \in Names |-> NoWorker]
  /\ workerAcquiredLocks = [c \in Callers |-> {}]
  /\ activeLocks = 0
  /\ locks_mtx = Nobody
  /\ pc = [c \in Callers |-> "user"]
  /\ wanted = [c \in Callers |-> {}]
  /\ unwritten = [c \in Callers |-> {}]
  /\ raised = FALSE
  /\ held = [c \in Callers |-> {}]
  /\ calls = 0

-----------------------------------------------------------------------------
(* Taking locks                                                            *)

InUserCode(c) == pc[c] = "user" /\ ~raised

\* edatLock, up to issueLock.
lock(c) ==
  /\ InUserCode(c) /\ locks_mtx = Nobody
  /\ calls < MaxCalls /\ calls' = calls + 1
  /\ \E n \in Names :
       /\ Ordered => n \in held[c] \/ \A m \in held[c] : m < n
       /\ wanted' = [wanted EXCEPT ![c] = {n}]
       /\ held' = [held EXCEPT ![c] = @ \union {n}]
  /\ locks_mtx' = c
  /\ pc' = [pc EXCEPT ![c] = "issue"]
  /\ UNCHANGED <<context, workerAcquiredLocks, activeLocks, unwritten, raised>>

\* Mistake: the locks are taken again in the opposite order.
NextNameLast(c) == CHOOSE n \in wanted[c] : \A m \in wanted[c] : m <= n

\* aquireLocks sorts the names.
NextName(c) == CHOOSE n \in wanted[c] : \A m \in wanted[c] : n <= m

Issuing(c) == pc[c] = "issue" /\ locks_mtx = c /\ wanted[c] # {}

\* A lock that has been issued is booked for the worker.
Book(c, n) ==
  /\ workerAcquiredLocks' = [workerAcquiredLocks EXCEPT ![c] = @ \union {n}]
  /\ wanted' = [wanted EXCEPT ![c] = @ \ {n}]

\* Mistake: a lock that is issued is not counted.
OneMoreNot == activeLocks

OneMore == activeLocks + 1

\* The caller has the lock already.
issueOwnLock(c) ==
  /\ Issuing(c) /\ NextName(c) \in locks /\ acquiredWorker[NextName(c)] = c
  /\ Book(c, NextName(c))
  /\ UNCHANGED <<context, activeLocks, locks_mtx, pc, unwritten, raised, held, calls>>

issueNewLock(c) ==
  /\ Issuing(c) /\ NextName(c) \notin locks
  /\ locks' = locks \union {NextName(c)}
  /\ mutex' = [mutex EXCEPT ![NextName(c)] = c]
  /\ acquired' = [acquired EXCEPT ![NextName(c)] = TRUE]
  /\ acquiredWorker' = [acquiredWorker EXCEPT ![NextName(c)] = c]
  /\ Book(c, NextName(c))
  /\ activeLocks' = OneMore
  /\ UNCHANGED <<locks_mtx, pc, unwritten, raised, held, calls>>

\* Otherwise the caller gives up locks_mtx, and queues for the lock.
issueLockBlocks(c) ==
  /\ Issuing(c) /\ NextName(c) \in locks /\ acquiredWorker[NextName(c)] # c
  /\ locks_mtx' = Nobody
  /\ pc' = [pc EXCEPT ![c] = "blocked"]
  /\ UNCHANGED <<context, workerAcquiredLocks, activeLocks, wanted, unwritten, raised, held, calls>>

acquire(c) ==
  /\ pc[c] = "blocked" /\ mutex[NextName(c)] = Nobody
  /\ mutex' = [mutex EXCEPT ![NextName(c)] = c]
  /\ unwritten' = [unwritten EXCEPT ![c] = {"acquired", "acquiredWorker"}]
  /\ pc' = [pc EXCEPT ![c] = "acquired"]
  /\ UNCHANGED <<locks, acquired, acquiredWorker, books, wanted, raised, held, calls>>

\* The two members are written without locks_mtx, in whatever order other
\* threads come to see it.
writeMember(c, member) ==
  /\ pc[c] = "acquired" /\ member \in unwritten[c]
  /\ IF member = "acquired"
       THEN acquired' = [acquired EXCEPT ![NextName(c)] = TRUE] /\ UNCHANGED acquiredWorker
       ELSE acquiredWorker' = [acquiredWorker EXCEPT ![NextName(c)] = c] /\ UNCHANGED acquired
  /\ unwritten' = [unwritten EXCEPT ![c] = @ \ {member}]
  /\ UNCHANGED <<locks, mutex, books, pc, wanted, raised, held, calls>>

issueLockReturns(c) ==
  /\ pc[c] = "acquired" /\ unwritten[c] = {} /\ locks_mtx = Nobody
  /\ locks_mtx' = c
  /\ Book(c, NextName(c))
  /\ activeLocks' = OneMore
  /\ pc' = [pc EXCEPT ![c] = "issue"]
  /\ UNCHANGED <<context, unwritten, raised, held, calls>>

\* lock and aquireLocks return to user code.
return(c) ==
  /\ pc[c] = "issue" /\ locks_mtx = c /\ wanted[c] = {}
  /\ locks_mtx' = Nobody
  /\ pc' = [pc EXCEPT ![c] = "user"]
  /\ UNCHANGED <<context, workerAcquiredLocks, activeLocks, wanted, unwritten, raised, held, calls>>

-----------------------------------------------------------------------------
(* Giving locks back                                                       *)

Owns(c, n) == n \in locks /\ acquired[n] /\ acquiredWorker[n] = c

\* Mistake: the worker stays the owner of what it gives back.
FreeKeepingOwner(ns) ==
  /\ mutex' = [n \in Names |-> IF n \in ns THEN Nobody ELSE mutex[n]]
  /\ acquired' = [n \in Names |-> acquired[n] /\ n \notin ns]
  /\ activeLocks' = activeLocks - Cardinality(ns)
  /\ UNCHANGED acquiredWorker

Free(ns) ==
  /\ mutex' = [n \in Names |-> IF n \in ns THEN Nobody ELSE mutex[n]]
  /\ acquired' = [n \in Names |-> acquired[n] /\ n \notin ns]
  /\ acquiredWorker' = [n \in Names |-> IF n \in ns THEN NoWorker ELSE acquiredWorker[n]]
  /\ activeLocks' = activeLocks - Cardinality(ns)

unlock(c) ==
  /\ InUserCode(c) /\ locks_mtx = Nobody
  /\ \E n \in held[c] :
       /\ held' = [held EXCEPT ![c] = @ \ {n}]
       /\ IF Owns(c, n)
            THEN /\ Free({n})
                 /\ workerAcquiredLocks' = [workerAcquiredLocks EXCEPT ![c] = @ \ {n}]
                 /\ UNCHANGED raised
            ELSE /\ raised' = TRUE
                 /\ UNCHANGED <<mutex, acquired, acquiredWorker, activeLocks, workerAcquiredLocks>>
  /\ UNCHANGED <<locks, locks_mtx, call, calls>>

\* Mistake: the locks released are not struck out of the list of the worker.
StruckOutNot(c) == workerAcquiredLocks

StruckOut(c) == [workerAcquiredLocks EXCEPT ![c] = {}]

releaseCurrentWorkerLocks(c) ==
  IF activeLocks > 0
    THEN /\ Free({n \in workerAcquiredLocks[c] : Owns(c, n)})
         /\ workerAcquiredLocks' = StruckOut(c)
    ELSE UNCHANGED <<mutex, acquired, acquiredWorker, activeLocks, workerAcquiredLocks>>

\* A task ends (threadBootstrapperFunction), and the worker goes on to the next.
taskEnds(c) ==
  /\ InUserCode(c) /\ locks_mtx = Nobody /\ c # NoWorker
  /\ releaseCurrentWorkerLocks(c)
  /\ held' = [held EXCEPT ![c] = {}]
  /\ UNCHANGED <<locks, locks_mtx, call, raised, calls>>

\* edatWait (pauseTask) remembers the names it released ...
pause(c) ==
  /\ InUserCode(c) /\ locks_mtx = Nobody
  /\ calls < MaxCalls /\ calls' = calls + 1
  /\ releaseCurrentWorkerLocks(c)
  /\ wanted' = [wanted EXCEPT ![c] = IF activeLocks > 0 THEN workerAcquiredLocks[c] ELSE {}]
  /\ pc' = [pc EXCEPT ![c] = "paused"]
  /\ UNCHANGED <<locks, locks_mtx, unwritten, raised, held>>

\* ... and takes them again when the events have come.
aquireLocks(c) ==
  /\ pc[c] = "paused" /\ locks_mtx = Nobody
  /\ locks_mtx' = c
  /\ pc' = [pc EXCEPT ![c] = "issue"]
  /\ UNCHANGED <<context, workerAcquiredLocks, activeLocks, wanted, unwritten, raised, held, calls>>

-----------------------------------------------------------------------------
UserCode(c) == lock(c) \/ unlock(c) \/ pause(c) \/ taskEnds(c)

Call(c) ==
  \/ issueOwnLock(c) \/ issueNewLock(c) \/ issueLockBlocks(c)
  \/ acquire(c) \/ (\E member \in {"acquired", "acquiredWorker"} : writeMember(c, member))
  \/ issueLockReturns(c) \/ return(c) \/ aquireLocks(c)

Next == \E c \in Callers : UserCode(c) \/ Call(c)

\* Calls go on, and tasks end.  No fairness between threads that wait for a
\* mutex is assumed: std::mutex promises none.
Fairness == \A c \in Callers : WF_vars(Call(c)) /\ WF_vars(taskEnds(c))

Spec == Init /\ [][Next]_vars /\ Fairness

-----------------------------------------------------------------------------
(* Correctness                                                             *)

\* The type invariant.
TypeOK ==
  /\ locks \in SUBSET Names
  /\ mutex \in [Names -> Callers \union {Nobody}]
  /\ acquired \in [Names -> BOOLEAN]
  /\ acquiredWorker \in [Names -> Callers \union {NoWorker}]
  /\ workerAcquiredLocks \in [Callers -> SUBSET Names]
  /\ activeLocks \in Nat
  /\ locks_mtx \in Callers \union {Nobody}
  /\ pc \in [Callers -> {"user", "issue", "blocked", "acquired", "paused"}]
  /\ wanted \in [Callers -> SUBSET Names]
  /\ unwritten \in [Callers -> SUBSET {"acquired", "acquiredWorker"}]
  /\ raised \in BOOLEAN
  /\ held \in [Callers -> SUBSET Names]
  /\ calls \in Nat

\* The locks a caller holds: those the programmer counts on without those
\* that a wait has released, or that a call has still to take.
Holding(c) == held[c] \ wanted[c]

\* docs/protecting_shared_data.md: no two callers hold one lock.
MutualExclusion == \A c, d \in Callers : c # d => Holding(c) \intersect Holding(d) = {}

\* No lock stays locked on behalf of a task that has ended, that waits, or
\* that has unlocked it, and no lock gets locked that the task did not ask for.
NothingLeftLocked ==
  \A n \in Names, c \in Callers : mutex[n] = c => n \in held[c] /\ pc[c] # "paused"

test_lock(c, n) == Owns(c, n)

\* edatTestLock tells user code the truth, whatever others are about to write.
TestLockTruthful ==
  ~raised => \A c \in Callers, n \in Names : pc[c] = "user" => (test_lock(c, n) <=> n \in held[c])

\* A lock that is held can be unlocked.
NoError == ~raised

\* What LockManager sees of the state: what a caller has are the mutexes it
\* owns, whatever the books say.
Owned(c) == {n \in Names : mutex[n] = c}

Phase(c) == CASE pc[c] = "user" -> "works" [] pc[c] = "paused" -> "waits" [] OTHER -> "asks"

granted == [c \in Callers |-> Owned(c)]
missing == [c \in Callers |-> wanted[c] \ Owned(c)]
doing == [c \in Callers |-> Phase(c)]

Manager == INSTANCE LockManager WITH has <- granted, due <- missing, phase <- doing

\* The class implements LockManager.  Beyond the invariants this says that
\* edatWait gives back exactly what the task had and returns with exactly that,
\* and that no call returns before all its locks have been granted.
ManagesLocks == Manager!Spec

\* Tasks that take their locks in order never block each other for good, and
\* the order in which locks are taken again after a wait does not change that.
EveryCallReturns == \A c \in Callers : pc[c] # "user" ~> pc[c] = "user"
=============================================================================
