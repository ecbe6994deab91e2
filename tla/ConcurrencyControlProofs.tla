----------------------- MODULE ConcurrencyControlProofs -----------------------
(***************************************************************************)
(* Proofs about ConcurrencyControl: for any number of workers and locks,   *)
(* no lock has two holders, none stays locked by a task that is over or    *)
(* waits, and no task is refused to unlock what it holds.                  *)
(*                                                                         *)
(* Callers are workers here.  The main thread when it is no worker has the *)
(* id that marks a free lock, and breaks all of this: see                  *)
(* MCConcurrencyControlMain.cfg.                                           *)
(***************************************************************************)
EXTENDS ConcurrencyControl, FiniteSetTheorems, WellFoundedInduction, TLAPS

OnlyWorkers == NoWorker \notin Callers

-----------------------------------------------------------------------------
(* The next lock to be taken                                               *)

Before == {p \in Nat \X Nat : p[1] < p[2]}

\* The order of numbers is well-founded.
LEMMA BeforeWellFounded == IsWellFoundedOn(Before, Nat)
<1>1. Before = OpToRel(<, Nat)
  BY Zenon DEF Before, OpToRel
<1> QED
  BY NatLessThanWellFounded, <1>1, Zenon

\* A nonempty set of numbers has a least one.
LEMMA Least ==
  ASSUME NEW S \in SUBSET Nat, S # {}
  PROVE  \E n \in S : \A m \in S : n <= m
<1>1. PICK n \in S : \A m \in S : <<m, n>> \notin Before
  BY WFMin, BeforeWellFounded, Zenon
<1>2. \A m \in S : ~(m < n)
  BY <1>1 DEF Before
<1> QED
  BY <1>2

\* The next lock in order is one of those that are wanted.
LEMMA NextNameWanted ==
  ASSUME TypeOK, NEW c \in Callers, wanted[c] # {}
  PROVE  NextName(c) \in wanted[c] /\ NextName(c) \in Names
<1>1. wanted[c] \in SUBSET Names /\ wanted[c] \in SUBSET Nat
  BY NamesAssumption DEF TypeOK
<1>2. NextName(c) \in wanted[c]
  BY <1>1, Least, Zenon DEF NextName
<1> QED
  BY <1>1, <1>2

\* The next lock is the same as long as the same ones are wanted.
LEMMA NextNameKept ==
  ASSUME NEW c \in Callers, wanted'[c] = wanted[c]
  PROVE  NextName(c)' = NextName(c)
  BY DEF NextName

-----------------------------------------------------------------------------
(* The inductive invariant                                                 *)

\* A lock that is booked for a worker is locked, and knows its owner.
Booked ==
  \A c \in Callers : \A n \in workerAcquiredLocks[c] :
    n \in locks /\ mutex[n] = c /\ acquired[n] /\ acquiredWorker[n] = c

\* Conversely, a mutex is booked for the worker that locked it, or about to be.
Explained ==
  \A n \in Names, c \in Callers : mutex[n] = c =>
    n \in workerAcquiredLocks[c] \/ (pc[c] = "acquired" /\ n = NextName(c))

\* No worker is named as the owner of a mutex that it has not locked.
OwnersLock == \A n \in Names, c \in Callers : acquiredWorker[n] = c => mutex[n] = c

\* What a worker knows of a lock it queues for ...
Queues ==
  \A c \in Callers : pc[c] \in {"blocked", "acquired"} =>
    /\ wanted[c] # {}
    /\ NextName(c) \in locks /\ NextName(c) \notin workerAcquiredLocks[c]

\* ... and of one it has got.
Gets ==
  \A c \in Callers : pc[c] = "acquired" =>
    /\ mutex[NextName(c)] = c
    /\ "acquired" \notin unwritten[c] => acquired[NextName(c)]
    /\ "acquiredWorker" \notin unwritten[c] => acquiredWorker[NextName(c)] = c

\* What the programmer counts on is booked, or about to be taken.
CountedOn ==
  \A c \in Callers :
    /\ held[c] = workerAcquiredLocks[c] \union wanted[c]
    /\ pc[c] = "user" => wanted[c] = {}
    /\ pc[c] = "paused" => workerAcquiredLocks[c] = {}

Taken == {n \in Names : \E c \in Callers : n \in workerAcquiredLocks[c]}

\* activeLocks, which decides whether anything is released, is the number of
\* locks that are booked.
Counted == activeLocks = Cardinality(Taken)

Inv ==
  /\ TypeOK /\ NoError
  /\ Booked /\ Explained /\ OwnersLock /\ Queues /\ Gets /\ CountedOn /\ Counted

\* At the start no lock exists and nothing is booked.
LEMMA InitInv ==
  ASSUME OnlyWorkers, Init
  PROVE  Inv
<1>1. TypeOK /\ NoError
  BY DEF Init, TypeOK, NoError, NoWorker, Nobody
<1>2. Booked /\ Explained /\ OwnersLock /\ Queues /\ Gets /\ CountedOn
  BY CallersAssumption, OnlyWorkers
  DEF Init, Booked, Explained, OwnersLock, Queues, Gets, CountedOn, NoWorker, Nobody, OnlyWorkers
<1>3. Taken = {}
  BY DEF Init, Taken
<1> QED
  BY <1>1, <1>2, <1>3, FS_EmptySet DEF Init, Inv, Counted

-----------------------------------------------------------------------------
(* Counting                                                                *)

\* Finitely many locks are booked.
LEMMA TakenFinite == IsFiniteSet(Taken) /\ Cardinality(Taken) \in Nat
<1>1. Taken \in SUBSET Names
  BY DEF Taken
<1> QED
  BY <1>1, NamesAssumption, FS_Subset, FS_CardinalityType

\* activeLocks follows one more booked lock.
LEMMA OneMoreTaken ==
  ASSUME TypeOK, Counted, NEW c \in Callers, NEW n \in Names \ Taken,
         workerAcquiredLocks' = [workerAcquiredLocks EXCEPT ![c] = @ \union {n}],
         activeLocks' = activeLocks + 1
  PROVE  Counted'
<1>1. Taken' = Taken \union {n}
  BY DEF Taken, TypeOK
<1> QED
  BY <1>1, TakenFinite, FS_AddElement DEF Counted

\* activeLocks follows locks that are released together.
LEMMA FewerTaken ==
  ASSUME TypeOK, Counted, Booked, NEW c \in Callers, NEW ns \in SUBSET workerAcquiredLocks[c],
         workerAcquiredLocks' = [workerAcquiredLocks EXCEPT ![c] = @ \ ns],
         activeLocks' = activeLocks - Cardinality(ns)
  PROVE  Counted' /\ activeLocks' \in Nat
<1>1. Taken' = Taken \ ns
  BY DEF Taken, TypeOK, Booked
<1>2. Taken \cap ns = ns
  BY DEF Taken, TypeOK
<1>3. IsFiniteSet(Taken \ ns) /\ Cardinality(Taken \ ns) = Cardinality(Taken) - Cardinality(ns)
  BY <1>2, TakenFinite, FS_Difference, ZenonT(60)
<1>4. Cardinality(Taken \ ns) \in Nat
  BY <1>3, FS_CardinalityType
<1> QED
  BY <1>1, <1>3, <1>4 DEF Counted

\* activeLocks is right as long as neither it nor the books change.
LEMMA SameTaken ==
  ASSUME Counted, UNCHANGED <<workerAcquiredLocks, activeLocks>>
  PROVE  Counted'
  BY DEF Counted, Taken

-----------------------------------------------------------------------------
(* Steps that leave locks and books alone                                  *)

\* A step that leaves locks and books alone keeps what relates them.
LEMMA SameContext ==
  ASSUME Inv, UNCHANGED <<context, workerAcquiredLocks, raised>>
  PROVE  NoError' /\ Booked' /\ OwnersLock'
  BY DEF Inv, NoError, Booked, OwnersLock, context

\* The caller is the only one to move, and neither was in a call for a lock
\* nor gets into one.
LEMMA SameForOthers ==
  ASSUME Inv, UNCHANGED <<context, workerAcquiredLocks>>, NEW c \in Callers,
         pc[c] \notin {"blocked", "acquired"}, pc'[c] \notin {"blocked", "acquired"},
         \A d \in Callers \ {c} : pc'[d] = pc[d] /\ wanted'[d] = wanted[d] /\ unwritten'[d] = unwritten[d]
  PROVE  Explained' /\ Queues' /\ Gets'
<1>1. \A d \in Callers \ {c} : NextName(d)' = NextName(d)
  BY NextNameKept
<1> QED
  BY <1>1 DEF Inv, Explained, Queues, Gets, context

\* edatLock and the end of a wait only say what the caller wants.
LEMMA BoundaryInv ==
  ASSUME Inv, NEW c \in Callers, lock(c) \/ return(c) \/ aquireLocks(c)
  PROVE  Inv'
<1> USE DEF lock, InUserCode, return, aquireLocks
<1>1. TypeOK'
  BY DEF Inv, TypeOK, context
<1>2. CountedOn'
  BY DEF Inv, CountedOn, TypeOK
<1>3. Explained' /\ Queues' /\ Gets'
  BY SameForOthers DEF Inv, TypeOK
<1> QED
  BY <1>1, <1>2, <1>3, SameContext, SameTaken DEF Inv

\* A lock that another worker owns is not booked for the caller.
LEMMA issueLockBlocksInv ==
  ASSUME Inv, NEW c \in Callers, issueLockBlocks(c)
  PROVE  Inv'
<1> USE DEF issueLockBlocks, Issuing
<1>1. TypeOK'
  BY DEF Inv, TypeOK, context
<1>2. CountedOn'
  BY DEF Inv, CountedOn, TypeOK
<1>3. \A d \in Callers : NextName(d)' = NextName(d)
  BY NextNameKept
<1>4. Explained' /\ Gets'
  BY <1>3 DEF Inv, TypeOK, Explained, Gets, context
<1>5. NextName(c) \notin workerAcquiredLocks[c]
  BY DEF Inv, Booked
<1>6. Queues'
  BY <1>3, <1>5 DEF Inv, TypeOK, Queues, context
<1> QED
  BY <1>1, <1>2, <1>4, <1>6, SameContext, SameTaken DEF Inv

-----------------------------------------------------------------------------
(* Taking a lock that another worker had                                   *)

\* A caller that gets the mutex of a lock: nobody had it.
LEMMA acquireInv ==
  ASSUME Inv, NEW c \in Callers, acquire(c)
  PROVE  Inv'
<1> USE DEF acquire
<1>1. NextName(c) \in Names
  BY NextNameWanted DEF Inv, Queues
<1>2. TypeOK'
  BY DEF Inv, TypeOK, books
<1>3. \A d \in Callers : NextName(d)' = NextName(d)
  BY NextNameKept
<1>4. c # Nobody /\ \A d \in Callers : d # Nobody
  BY CallersAssumption DEF NoWorker, Nobody
<1>5. Booked'
  BY <1>1, <1>4 DEF Inv, TypeOK, Booked, books
<1>6. Explained'
  BY <1>1, <1>3 DEF Inv, TypeOK, Explained, books
<1>7. OwnersLock'
  BY <1>1, <1>4 DEF Inv, TypeOK, OwnersLock
<1>8. Queues'
  BY <1>3 DEF Inv, TypeOK, Queues, books
<1>9. Gets'
  BY <1>1, <1>3, <1>4 DEF Inv, TypeOK, Gets
<1>10. CountedOn'
  BY DEF Inv, TypeOK, CountedOn, books
<1> QED
  BY <1>2, <1>5, <1>6, <1>7, <1>8, <1>9, <1>10, SameTaken DEF Inv, NoError, books

\* The two members written without locks_mtx are those of a lock the caller has.
LEMMA writeMemberInv ==
  ASSUME Inv, NEW c \in Callers, NEW member \in {"acquired", "acquiredWorker"},
         writeMember(c, member)
  PROVE  Inv'
<1> USE DEF writeMember
<1>1. NextName(c) \in Names
  BY NextNameWanted DEF Inv, Queues
<1>2. TypeOK'
  BY <1>1 DEF Inv, TypeOK, books
<1>3. \A d \in Callers : NextName(d)' = NextName(d)
  BY NextNameKept
<1>4. mutex[NextName(c)] = c
  BY DEF Inv, Gets
<1>5. Booked'
  BY <1>1, <1>4 DEF Inv, TypeOK, Booked, books
<1>6. Explained' /\ Queues'
  BY <1>3 DEF Inv, Explained, Queues, books
<1>7. OwnersLock'
  BY <1>1, <1>4 DEF Inv, TypeOK, OwnersLock
<1>8. Gets'
  <2> SUFFICES ASSUME NEW d \in Callers, pc[d] = "acquired"
               PROVE  /\ mutex[NextName(d)] = d
                      /\ "acquired" \notin unwritten'[d] => acquired'[NextName(d)]
                      /\ "acquiredWorker" \notin unwritten'[d] => acquiredWorker'[NextName(d)] = d
    BY <1>3 DEF Gets
  <2>1. /\ mutex[NextName(d)] = d
        /\ "acquired" \notin unwritten[d] => acquired[NextName(d)]
        /\ "acquiredWorker" \notin unwritten[d] => acquiredWorker[NextName(d)] = d
    BY DEF Inv, Gets
  <2>2. CASE d # c
    <3>1. NextName(d) # NextName(c)
      BY <1>4, <2>1, <2>2
    <3>2. unwritten'[d] = unwritten[d]
      BY <2>2 DEF Inv, TypeOK
    <3>3. \/ acquired' = [acquired EXCEPT ![NextName(c)] = TRUE] /\ acquiredWorker' = acquiredWorker
          \/ acquiredWorker' = [acquiredWorker EXCEPT ![NextName(c)] = c] /\ acquired' = acquired
      BY Zenon
    <3>4. /\ acquired'[NextName(d)] = acquired[NextName(d)]
          /\ acquiredWorker'[NextName(d)] = acquiredWorker[NextName(d)]
      <4>1. NextName(d) \in Names
        BY NextNameWanted DEF Inv, Queues
      <4> HIDE DEF writeMember
      <4> QED
        BY <3>1, <3>3, <4>1 DEF Inv, TypeOK
    <3> QED
      BY <2>1, <3>2, <3>3, <3>4
  <2>3. CASE d = c /\ member = "acquired"
    <3>1. acquired'[NextName(c)] /\ acquiredWorker' = acquiredWorker /\ mutex' = mutex
      BY <1>1, <2>3 DEF Inv, TypeOK
    <3>2. unwritten'[c] = unwritten[c] \ {"acquired"}
      BY <2>3 DEF Inv, TypeOK
    <3> QED
      BY <2>1, <2>3, <3>1, <3>2
  <2>4. CASE d = c /\ member = "acquiredWorker"
    BY <1>1, <2>1, <2>4 DEF Inv, TypeOK
  <2> QED
    BY <2>2, <2>3, <2>4
<1>9. CountedOn'
  BY DEF Inv, TypeOK, CountedOn, books
<1> QED
  BY <1>2, <1>5, <1>6, <1>7, <1>8, <1>9, SameTaken DEF Inv, NoError, books

-----------------------------------------------------------------------------
(* Booking                                                                 *)

\* The worker named as the owner has the lock booked: nothing changes but that
\* one lock less is wanted.
LEMMA issueOwnLockInv ==
  ASSUME Inv, NEW c \in Callers, issueOwnLock(c)
  PROVE  Inv'
<1> USE DEF issueOwnLock, Issuing, Book
<1>1. NextName(c) \in wanted[c] /\ NextName(c) \in Names
  BY NextNameWanted DEF Inv
<1>2. NextName(c) \in workerAcquiredLocks[c]
  BY <1>1 DEF Inv, OwnersLock, Explained
<1>3. workerAcquiredLocks' = workerAcquiredLocks
  BY <1>2 DEF Inv, TypeOK
<1>4. TypeOK'
  BY <1>1 DEF Inv, TypeOK, context
<1>5. CountedOn'
  BY <1>1, <1>2, <1>3 DEF Inv, CountedOn, TypeOK
<1>6. Explained' /\ Queues' /\ Gets'
  BY <1>3, SameForOthers DEF Inv, TypeOK
<1> QED
  BY <1>3, <1>4, <1>5, <1>6, SameContext, SameTaken DEF Inv

\* A lock without a LockContext is booked for nobody.
LEMMA issueNewLockInv ==
  ASSUME Inv, NEW c \in Callers, issueNewLock(c)
  PROVE  Inv'
<1> USE DEF issueNewLock, Issuing, Book
<1>1. NextName(c) \in wanted[c] /\ NextName(c) \in Names
  BY NextNameWanted DEF Inv
<1>2. NextName(c) \notin Taken
  BY DEF Inv, Booked, Taken
<1>3. Counted'
  BY <1>1, <1>2, OneMoreTaken DEF Inv, OneMore
<1>4. TypeOK'
  <2>1. activeLocks' \in Nat
    BY DEF Inv, TypeOK, OneMore
  <2> QED
    BY <1>1, <2>1 DEF Inv, TypeOK
<1>5. \A d \in Callers \ {c} : NextName(d)' = NextName(d)
  BY NextNameKept DEF Inv, TypeOK
<1>6. Booked'
  BY <1>1, <1>2 DEF Inv, TypeOK, Booked, Taken
<1>7. Explained'
  BY <1>1, <1>5 DEF Inv, TypeOK, Explained
<1>8. OwnersLock'
  BY <1>1, <1>2 DEF Inv, TypeOK, OwnersLock, Explained, Queues, Taken
<1>9. Queues'
  BY <1>1, <1>5 DEF Inv, TypeOK, Queues
<1>10. Gets'
  BY <1>1, <1>5 DEF Inv, TypeOK, Gets, Queues
<1>11. CountedOn'
  BY <1>1 DEF Inv, TypeOK, CountedOn
<1> QED
  BY <1>3, <1>4, <1>6, <1>7, <1>8, <1>9, <1>10, <1>11 DEF Inv, NoError

\* issueLock books the lock it has acquired.
LEMMA issueLockReturnsInv ==
  ASSUME Inv, NEW c \in Callers, issueLockReturns(c)
  PROVE  Inv'
<1> USE DEF issueLockReturns, Book
<1>1. NextName(c) \in wanted[c] /\ NextName(c) \in Names
  BY NextNameWanted DEF Inv, Queues
<1>2. /\ NextName(c) \in locks /\ mutex[NextName(c)] = c
      /\ acquired[NextName(c)] /\ acquiredWorker[NextName(c)] = c
  BY DEF Inv, Queues, Gets
<1>3. NextName(c) \notin Taken
  BY <1>2 DEF Inv, Booked, Queues, Taken
<1>4. Counted'
  BY <1>1, <1>3, OneMoreTaken DEF Inv, OneMore
<1>5. TypeOK'
  <2>1. activeLocks' \in Nat
    BY DEF Inv, TypeOK, OneMore
  <2> QED
    BY <1>1, <2>1 DEF Inv, TypeOK, context
<1>6. \A d \in Callers \ {c} : NextName(d)' = NextName(d)
  BY NextNameKept DEF Inv, TypeOK
<1>7. Booked'
  BY <1>1, <1>2 DEF Inv, TypeOK, Booked, context
<1>8. Explained'
  BY <1>1, <1>6 DEF Inv, TypeOK, Explained, context
<1>9. OwnersLock'
  BY DEF Inv, OwnersLock, context
<1>10. Queues'
  BY <1>6 DEF Inv, TypeOK, Queues, context
<1>11. Gets'
  BY <1>6 DEF Inv, TypeOK, Gets, context
<1>12. CountedOn'
  BY <1>1 DEF Inv, TypeOK, CountedOn
<1> QED
  BY <1>4, <1>5, <1>7, <1>8, <1>9, <1>10, <1>11, <1>12 DEF Inv, NoError

-----------------------------------------------------------------------------
(* Giving back                                                             *)

\* What becomes of locks that are booked for the caller and are freed.
LEMMA FreeInv ==
  ASSUME Inv, NEW c \in Callers, NEW ns \in SUBSET workerAcquiredLocks[c], OnlyWorkers,
         pc[c] = "user", Free(ns),
         workerAcquiredLocks' = [workerAcquiredLocks EXCEPT ![c] = @ \ ns],
         UNCHANGED <<locks, unwritten>>,
         pc'[c] \in {"user", "paused"},
         \A d \in Callers \ {c} : pc'[d] = pc[d] /\ wanted'[d] = wanted[d]
  PROVE  /\ Booked' /\ Explained' /\ OwnersLock' /\ Queues' /\ Gets' /\ Counted'
         /\ activeLocks' \in Nat
<1> USE DEF Free
<1>1. \A n \in ns : n \in Names /\ mutex[n] = c
  BY DEF Inv, TypeOK, Booked
<1>2. \A d \in Callers \ {c} : NextName(d)' = NextName(d)
  BY NextNameKept
<1>3. \A d \in Callers \ {c} : workerAcquiredLocks'[d] = workerAcquiredLocks[d]
  BY DEF Inv, TypeOK
<1>4. \A d \in Callers : d # NoWorker /\ d # Nobody
  BY CallersAssumption DEF OnlyWorkers, NoWorker, Nobody
<1>5. Booked'
  BY <1>1 DEF Inv, TypeOK, Booked
<1>6. Explained'
  BY <1>1, <1>2, <1>3, <1>4 DEF Inv, TypeOK, Explained
<1>7. OwnersLock'
  BY <1>1, <1>4 DEF Inv, TypeOK, OwnersLock
<1>8. Queues'
  BY <1>2, <1>3 DEF Inv, Queues
<1>9. Gets'
  <2> SUFFICES ASSUME NEW d \in Callers \ {c}, pc[d] = "acquired"
               PROVE  /\ mutex'[NextName(d)] = d
                      /\ "acquired" \notin unwritten[d] => acquired'[NextName(d)]
                      /\ "acquiredWorker" \notin unwritten[d] => acquiredWorker'[NextName(d)] = d
    BY <1>2 DEF Gets
  <2>1. NextName(d) \in Names
    BY NextNameWanted DEF Inv, Queues
  <2>2. NextName(d) \notin ns
    BY <1>1 DEF Inv, Gets
  <2> QED
    BY <2>1, <2>2 DEF Inv, Gets
<1>10. Counted' /\ activeLocks' \in Nat
  BY FewerTaken DEF Inv
<1> QED
  BY <1>5, <1>6, <1>7, <1>8, <1>9, <1>10

\* edatUnlock gives back a lock the caller has.
LEMMA unlockInv ==
  ASSUME Inv, OnlyWorkers, NEW c \in Callers, unlock(c)
  PROVE  Inv'
<1>1. PICK n \in held[c] :
        /\ held' = [held EXCEPT ![c] = @ \ {n}]
        /\ IF Owns(c, n)
             THEN /\ Free({n})
                  /\ workerAcquiredLocks' = [workerAcquiredLocks EXCEPT ![c] = @ \ {n}]
                  /\ UNCHANGED raised
             ELSE /\ raised' = TRUE
                  /\ UNCHANGED <<mutex, acquired, acquiredWorker, activeLocks, workerAcquiredLocks>>
  BY DEF unlock
<1>2. pc[c] = "user" /\ UNCHANGED <<locks, locks_mtx, call, calls>>
  BY DEF unlock, InUserCode
<1>3. n \in workerAcquiredLocks[c] /\ wanted[c] = {}
  BY <1>2 DEF Inv, CountedOn
<1>4. Owns(c, n)
  BY <1>3 DEF Inv, Booked, Owns
<1>5. /\ Booked' /\ Explained' /\ OwnersLock' /\ Queues' /\ Gets' /\ Counted'
      /\ activeLocks' \in Nat
  BY <1>1, <1>2, <1>3, <1>4, FreeInv DEF call
<1>6. TypeOK'
  <2>1. /\ mutex' \in [Names -> Callers \union {Nobody}]
        /\ acquired' \in [Names -> BOOLEAN]
        /\ acquiredWorker' \in [Names -> Callers \union {NoWorker}]
    <3>1. Free({n})
      BY <1>1, <1>4
    <3> QED
      BY <3>1 DEF Inv, TypeOK, Free
  <2>2. /\ workerAcquiredLocks' \in [Callers -> SUBSET Names]
        /\ held' \in [Callers -> SUBSET Names]
    BY <1>1, <1>4 DEF Inv, TypeOK
  <2> QED
    BY <1>1, <1>2, <1>4, <1>5, <2>1, <2>2 DEF Inv, TypeOK, call
<1>7. CountedOn'
  BY <1>1, <1>2, <1>3, <1>4 DEF Inv, TypeOK, CountedOn, call
<1> QED
  BY <1>1, <1>4, <1>5, <1>6, <1>7 DEF Inv, NoError

\* Releasing frees all that is booked for the caller: with activeLocks = 0
\* nothing is.
LEMMA releaseFrees ==
  ASSUME Inv, NEW c \in Callers, releaseCurrentWorkerLocks(c)
  PROVE  /\ workerAcquiredLocks' = [workerAcquiredLocks EXCEPT ![c] = @ \ workerAcquiredLocks[c]]
         /\ Free(workerAcquiredLocks[c])
         /\ activeLocks = 0 => workerAcquiredLocks[c] = {}
<1>1. CASE activeLocks > 0
  <2>1. {n \in workerAcquiredLocks[c] : Owns(c, n)} = workerAcquiredLocks[c]
    BY DEF Inv, Booked, Owns
  <2>2. StruckOut(c) = [workerAcquiredLocks EXCEPT ![c] = @ \ workerAcquiredLocks[c]]
    BY DEF StruckOut, Inv, TypeOK
  <2>3. Free({n \in workerAcquiredLocks[c] : Owns(c, n)}) /\ workerAcquiredLocks' = StruckOut(c)
    BY <1>1 DEF releaseCurrentWorkerLocks
  <2>4. Free(workerAcquiredLocks[c])
    BY <2>1, <2>3, Zenon
  <2> QED
    BY <1>1, <2>2, <2>3, <2>4
<1>2. CASE activeLocks = 0
  <2>1. Taken = {}
    BY <1>2, TakenFinite, FS_EmptySet DEF Inv, Counted
  <2>2. workerAcquiredLocks[c] = {}
    BY <2>1 DEF Taken, Inv, TypeOK
  <2>3. Free({})
    BY <1>2, FS_EmptySet DEF Free, releaseCurrentWorkerLocks, Inv, TypeOK
  <2> QED
    BY <1>2, <2>2, <2>3 DEF releaseCurrentWorkerLocks, Inv, TypeOK
<1> QED
  BY <1>1, <1>2 DEF Inv, TypeOK

\* The end of a task gives back all it has.
LEMMA taskEndsInv ==
  ASSUME Inv, OnlyWorkers, NEW c \in Callers, taskEnds(c)
  PROVE  Inv'
<1> USE DEF taskEnds, InUserCode
<1>1. /\ Booked' /\ Explained' /\ OwnersLock' /\ Queues' /\ Gets' /\ Counted'
      /\ activeLocks' \in Nat
  BY releaseFrees, FreeInv DEF call
<1>2. TypeOK'
  BY <1>1, releaseFrees DEF Inv, TypeOK, Free, call
<1>3. CountedOn'
  BY releaseFrees DEF Inv, TypeOK, CountedOn, call
<1> QED
  BY <1>1, <1>2, <1>3 DEF Inv, NoError

\* A wait gives back all a task has, and says what it will want.
LEMMA pauseInv ==
  ASSUME Inv, OnlyWorkers, NEW c \in Callers, pause(c)
  PROVE  Inv'
<1> USE DEF pause, InUserCode
<1>1. wanted' = [wanted EXCEPT ![c] = workerAcquiredLocks[c]]
  <2>1. releaseCurrentWorkerLocks(c)
    OBVIOUS
  <2>2. (IF activeLocks > 0 THEN workerAcquiredLocks[c] ELSE {}) = workerAcquiredLocks[c]
    BY <2>1, releaseFrees DEF Inv, TypeOK
  <2> QED
    BY <2>2
<1>2. /\ Booked' /\ Explained' /\ OwnersLock' /\ Queues' /\ Gets' /\ Counted'
      /\ activeLocks' \in Nat
  BY <1>1, releaseFrees, FreeInv DEF Inv, TypeOK
<1>3. TypeOK'
  BY <1>1, <1>2, releaseFrees DEF Inv, TypeOK, Free
<1>4. CountedOn'
  BY <1>1, releaseFrees DEF Inv, TypeOK, CountedOn
<1> QED
  BY <1>2, <1>3, <1>4 DEF Inv, NoError

-----------------------------------------------------------------------------
(* The theorems                                                            *)

\* Every step keeps the books consistent.
LEMMA NextInv == OnlyWorkers /\ Inv /\ [Next]_vars => Inv'
<1> SUFFICES ASSUME OnlyWorkers, Inv, [Next]_vars PROVE Inv'
  OBVIOUS
<1>1. CASE UNCHANGED vars
  BY <1>1, NextNameKept
  DEF vars, context, books, call, Inv, TypeOK, NoError, Booked, Explained, OwnersLock, Queues, Gets,
      CountedOn, Counted, Taken
<1>2. ASSUME NEW c \in Callers, UserCode(c) PROVE Inv'
  BY <1>2, BoundaryInv, unlockInv, pauseInv, taskEndsInv DEF UserCode
<1>3. ASSUME NEW c \in Callers, Call(c) PROVE Inv'
  BY <1>3, BoundaryInv, issueOwnLockInv, issueNewLockInv, issueLockBlocksInv, acquireInv,
     writeMemberInv, issueLockReturnsInv DEF Call
<1> QED
  BY <1>1, <1>2, <1>3 DEF Next

\* The books of the locks agree in every reachable state.
LEMMA Invariant ==
  ASSUME OnlyWorkers
  PROVE  Spec => []Inv
<1>1. Init => Inv
  BY InitInv
<1>2. Inv /\ [Next]_vars => Inv'
  BY NextInv
<1> QED
  BY <1>1, <1>2, PTL DEF Spec

\* Every variable keeps its type: activeLocks never falls below zero.
THEOREM TypeCorrect ==
  ASSUME OnlyWorkers
  PROVE  Spec => []TypeOK
<1>1. Inv => TypeOK
  BY DEF Inv
<1> QED
  BY <1>1, Invariant, PTL

\* However many workers take, wait with and give back locks, none is refused
\* to unlock what its task holds.
THEOREM NothingRefused ==
  ASSUME OnlyWorkers
  PROVE  Spec => []NoError
<1>1. Inv => NoError
  BY DEF Inv
<1> QED
  BY <1>1, Invariant, PTL

\* Two workers never hold one lock at a time (issueLock, unlock,
\* releaseCurrentWorkerLocks).
THEOREM Exclusion ==
  ASSUME OnlyWorkers
  PROVE  Spec => []MutualExclusion
<1>1. Inv => MutualExclusion
  BY DEF Inv, MutualExclusion, Holding, Booked, CountedOn
<1> QED
  BY <1>1, Invariant, PTL

\* A mutex that is locked is one that the task of its owner counts on, and
\* that task does not wait for events.
THEOREM NothingLeft ==
  ASSUME OnlyWorkers
  PROVE  Spec => []NothingLeftLocked
<1>1. ASSUME Inv, NEW c \in Callers, pc[c] = "acquired" PROVE NextName(c) \in held[c]
  BY <1>1, NextNameWanted DEF Inv, Queues, CountedOn
<1>2. Inv => NothingLeftLocked
  BY <1>1 DEF Inv, NothingLeftLocked, Explained, CountedOn
<1> QED
  BY <1>2, Invariant, PTL

\* test_lock answers what the programmer counts on.
THEOREM TestsTruthful ==
  ASSUME OnlyWorkers
  PROVE  Spec => []TestLockTruthful
<1>1. Inv => TestLockTruthful
  BY DEF Inv, TestLockTruthful, test_lock, Owns, Booked, OwnersLock, Explained, CountedOn
<1> QED
  BY <1>1, Invariant, PTL

-----------------------------------------------------------------------------
(* ConcurrencyControl implements LockManager when all callers are workers: *)
(* each step of a call requests, grants or gives back what the manager     *)
(* knows of, or only moves locks between the books of the class.           *)


\* Between calls the mutexes a worker owns are those booked for it.
LEMMA OwnedBooked ==
  ASSUME Inv, NEW c \in Callers, pc[c] # "acquired"
  PROVE  Owned(c) = workerAcquiredLocks[c]
  BY DEF Inv, TypeOK, Booked, Explained, Owned

\* Where nothing changes but for one caller.
Others(c) ==
  \A d \in Callers \ {c} : Owned(d)' = Owned(d) /\ wanted'[d] = wanted[d] /\ pc'[d] = pc[d]

\* A step of one caller changes what the abstract manager sees of that caller only.
LEMMA OnlyCaller ==
  ASSUME NEW c \in Callers, Others(c)
  PROVE  /\ granted' = [granted EXCEPT ![c] = Owned(c)']
         /\ missing' = [missing EXCEPT ![c] = wanted'[c] \ Owned(c)']
         /\ doing' = [doing EXCEPT ![c] = Phase(c)']
<1>1. \A d \in Callers \ {c} : Phase(d)' = Phase(d)
  BY DEF Others, Phase
<1> QED
  BY <1>1 DEF Others, granted, missing, doing

\* What the abstract manager sees of a caller.
LEMMA MappedAt ==
  \A c \in Callers : granted[c] = Owned(c) /\ missing[c] = wanted[c] \ Owned(c) /\ doing[c] = Phase(c)
  BY DEF granted, missing, doing

\* A step that changes neither owner, request nor phase is not seen.
LEMMA SameMapping ==
  ASSUME NEW c \in Callers, Others(c), Owned(c)' = Owned(c), Phase(c)' = Phase(c),
         wanted'[c] \ Owned(c) = wanted[c] \ Owned(c)
  PROVE  UNCHANGED <<granted, missing, doing>>
<1>1. /\ granted' = [granted EXCEPT ![c] = granted[c]]
      /\ missing' = [missing EXCEPT ![c] = missing[c]]
      /\ doing' = [doing EXCEPT ![c] = doing[c]]
  BY OnlyCaller, MappedAt
<1> QED
  BY <1>1 DEF granted, missing, doing

-----------------------------------------------------------------------------
(* Steps that the manager does not see                                     *)

\* To book a lock that one has is not seen by the abstract manager.
LEMMA BookingUnseen ==
  ASSUME Inv, NEW c \in Callers, issueOwnLock(c) \/ issueLockReturns(c)
  PROVE  UNCHANGED <<granted, missing, doing>>
<1>1. mutex' = mutex /\ wanted' = [wanted EXCEPT ![c] = @ \ {NextName(c)}]
  BY DEF issueOwnLock, issueLockReturns, Book, context
<1>2. Others(c)
  BY <1>1 DEF Others, Owned, issueOwnLock, issueLockReturns, Inv, TypeOK
<1>3. Phase(c)' = Phase(c)
  BY DEF Phase, issueOwnLock, issueLockReturns, Inv, TypeOK
<1>4. mutex[NextName(c)] = c
  <2>1. CASE issueOwnLock(c)
    <3>1. NextName(c) \in Names
      BY <2>1, NextNameWanted DEF Inv, issueOwnLock, Issuing
    <3> QED
      BY <2>1, <3>1 DEF issueOwnLock, Inv, OwnersLock
  <2>2. CASE issueLockReturns(c)
    BY <2>2 DEF issueLockReturns, Inv, Gets
  <2> QED
    BY <2>1, <2>2
<1>5. wanted'[c] \ Owned(c) = wanted[c] \ Owned(c)
  BY <1>1, <1>4 DEF Owned, Inv, TypeOK
<1>6. Owned(c)' = Owned(c)
  BY <1>1 DEF Owned
<1> QED
  BY <1>2, <1>3, <1>5, <1>6, SameMapping

\* To queue for a lock, or to write its members, is not seen by the abstract manager.
LEMMA QueueingUnseen ==
  ASSUME Inv, NEW c \in Callers,
         issueLockBlocks(c) \/ \E member \in {"acquired", "acquiredWorker"} : writeMember(c, member)
  PROVE  UNCHANGED <<granted, missing, doing>>
<1> USE DEF issueLockBlocks, Issuing, writeMember
<1>1. mutex' = mutex /\ wanted' = wanted
  BY DEF context
<1>2. Others(c) /\ Phase(c)' = Phase(c)
  BY <1>1 DEF Others, Owned, Phase, Inv, TypeOK
<1>3. Owned(c)' = Owned(c)
  BY <1>1 DEF Owned
<1> QED
  BY <1>1, <1>2, <1>3, SameMapping

-----------------------------------------------------------------------------
(* Steps of the manager                                                    *)

\* edatLock is a request.
LEMMA lockRequests ==
  ASSUME Inv, NEW c \in Callers, lock(c)
  PROVE  \E n \in Names : Manager!Request(c, n)
<1> USE DEF lock, InUserCode
<1>1. PICK n \in Names : wanted' = [wanted EXCEPT ![c] = {n}]
  OBVIOUS
<1>2. Others(c) /\ Owned(c)' = Owned(c) /\ Phase(c) = "works" /\ Phase(c)' = "asks"
  BY <1>1 DEF Others, Owned, Phase, context, Inv, TypeOK
<1>3. wanted'[c] = {n}
  BY <1>1 DEF Inv, TypeOK
<1>4. /\ granted' = [granted EXCEPT ![c] = granted[c]]
      /\ missing' = [missing EXCEPT ![c] = {n} \ granted[c]]
      /\ doing[c] = "works" /\ doing' = [doing EXCEPT ![c] = "asks"]
  BY <1>2, <1>3, OnlyCaller, MappedAt
<1>5. granted' = granted
  BY <1>4 DEF granted
<1> QED
  BY <1>4, <1>5 DEF Manager!Request, Manager!Move

\* A lock is granted when its mutex is taken, which is then free: for a name
\* without a LockContext because nobody can have locked it.
LEMMA Grants ==
  ASSUME Inv, NEW c \in Callers, issueNewLock(c) \/ acquire(c)
  PROVE  \E n \in Names : Manager!Grant(c, n)
<1> DEFINE n == NextName(c)
<1>1. wanted[c] # {}
  BY DEF issueNewLock, Issuing, acquire, Inv, Queues
<1>2. n \in wanted[c] /\ n \in Names
  BY <1>1, NextNameWanted DEF Inv
<1>3. \A d \in Callers : d # Nobody
  BY CallersAssumption DEF NoWorker, Nobody
<1>4. mutex[n] = Nobody
  <2>1. CASE issueNewLock(c)
    <3>1. n \notin locks
      BY <2>1 DEF issueNewLock
    <3>2. \A d \in Callers : mutex[n] # d
      BY <1>2, <3>1 DEF Inv, Explained, Booked, Queues
    <3> QED
      BY <1>2, <3>2 DEF Inv, TypeOK
  <2>2. CASE acquire(c)
    BY <2>2 DEF acquire
  <2> QED
    BY <2>1, <2>2
<1>5. mutex' = [mutex EXCEPT ![n] = c]
  BY DEF issueNewLock, acquire
<1>6. \/ wanted' = [wanted EXCEPT ![c] = @ \ {n}]
      \/ wanted' = wanted
  BY DEF issueNewLock, acquire, Book
<1>7. Owned(c)' = Owned(c) \union {n}
  BY <1>2, <1>5 DEF Owned, Inv, TypeOK
<1>8. \A d \in Callers \ {c} : Owned(d)' = Owned(d)
  BY <1>2, <1>3, <1>4, <1>5 DEF Owned, Inv, TypeOK
<1>9. pc[c] \in {"issue", "blocked"} /\ pc'[c] \in {"issue", "acquired"}
      /\ \A d \in Callers \ {c} : pc'[d] = pc[d] /\ wanted'[d] = wanted[d]
  BY DEF issueNewLock, acquire, Issuing, Book, Inv, TypeOK
<1>10. wanted'[c] \ Owned(c)' = (wanted[c] \ Owned(c)) \ {n}
  BY <1>6, <1>7 DEF Inv, TypeOK
<1>11. Phase(c) = "asks" /\ Phase(c)' = Phase(c) /\ Others(c)
  BY <1>8, <1>9 DEF Phase, Others
<1> HIDE DEF n
<1>12. /\ granted' = [granted EXCEPT ![c] = granted[c] \union {n}]
       /\ missing' = [missing EXCEPT ![c] = missing[c] \ {n}]
       /\ doing' = [doing EXCEPT ![c] = doing[c]] /\ doing[c] = "asks"
  BY <1>7, <1>10, <1>11, OnlyCaller, MappedAt
<1>13. doing' = doing
  BY <1>12 DEF doing
<1>14. n \in missing[c] /\ \A d \in Callers : n \notin granted[d]
  BY <1>2, <1>3, <1>4, MappedAt DEF Owned
<1> QED
  BY <1>2, <1>12, <1>13, <1>14 DEF Manager!Grant

\* A call that has its locks returns.
LEMMA returnReturns ==
  ASSUME Inv, NEW c \in Callers, return(c)
  PROVE  Manager!Return(c)
<1> USE DEF return
<1>1. Others(c) /\ Owned(c)' = Owned(c) /\ Phase(c) = "asks" /\ Phase(c)' = "works"
  BY DEF Others, Owned, Phase, context, Inv, TypeOK
<1>2. /\ granted' = [granted EXCEPT ![c] = granted[c]]
      /\ missing' = [missing EXCEPT ![c] = missing[c]] /\ missing[c] = {}
      /\ doing[c] = "asks" /\ doing' = [doing EXCEPT ![c] = "works"]
  BY <1>1, OnlyCaller, MappedAt, SMTT(30)
<1>3. granted' = granted /\ missing' = missing
  BY <1>2 DEF granted, missing
<1> QED
  BY <1>2, <1>3 DEF Manager!Return, Manager!Move

\* aquireLocks asks for what was laid aside.
LEMMA aquireLocksResumes ==
  ASSUME Inv, NEW c \in Callers, aquireLocks(c)
  PROVE  Manager!Resume(c)
<1> USE DEF aquireLocks
<1>1. Others(c) /\ Owned(c)' = Owned(c) /\ Phase(c) = "waits" /\ Phase(c)' = "asks"
  BY DEF Others, Owned, Phase, context, Inv, TypeOK
<1>2. /\ granted' = [granted EXCEPT ![c] = granted[c]]
      /\ missing' = [missing EXCEPT ![c] = missing[c]]
      /\ doing[c] = "waits" /\ doing' = [doing EXCEPT ![c] = "asks"]
  BY <1>1, OnlyCaller, MappedAt, SMTT(30)
<1>3. granted' = granted /\ missing' = missing
  BY <1>2 DEF granted, missing
<1> QED
  BY <1>2, <1>3 DEF Manager!Resume, Manager!Move

\* Freeing what is booked for one worker takes nothing from another.
LEMMA FreeOwned ==
  ASSUME Inv, NEW c \in Callers, NEW ns \in SUBSET workerAcquiredLocks[c], Free(ns)
  PROVE  Owned(c)' = Owned(c) \ ns /\ \A d \in Callers \ {c} : Owned(d)' = Owned(d)
<1>1. \A n \in ns : n \in Names /\ mutex[n] = c
  BY DEF Inv, TypeOK, Booked
<1>2. mutex' = [n \in Names |-> IF n \in ns THEN Nobody ELSE mutex[n]]
  BY DEF Free
<1>3. \A d \in Callers : d # Nobody
  BY CallersAssumption DEF NoWorker, Nobody
<1> QED
  BY <1>1, <1>2, <1>3 DEF Owned

\* edatUnlock is a release.
LEMMA unlockReleases ==
  ASSUME Inv, NEW c \in Callers, unlock(c)
  PROVE  \E n \in Names : Manager!Release(c, n)
<1>1. PICK n \in held[c] : IF Owns(c, n) THEN Free({n}) ELSE TRUE
  BY DEF unlock
<1>2. n \in workerAcquiredLocks[c] /\ wanted[c] = {} /\ pc[c] = "user"
  BY DEF unlock, InUserCode, Inv, CountedOn
<1>3. Free({n}) /\ n \in Names
  BY <1>1, <1>2 DEF Inv, TypeOK, Booked, Owns
<1>4. UNCHANGED <<pc, wanted>>
  BY DEF unlock, call
<1>5. Owned(c)' = Owned(c) \ {n} /\ Others(c)
  BY <1>2, <1>3, <1>4, FreeOwned DEF Others
<1>6. Phase(c) = "works" /\ Phase(c)' = Phase(c)
  BY <1>2, <1>4 DEF Phase
<1>7. /\ granted' = [granted EXCEPT ![c] = granted[c] \ {n}]
      /\ missing' = [missing EXCEPT ![c] = missing[c]]
      /\ doing' = [doing EXCEPT ![c] = doing[c]] /\ doing[c] = "works"
  BY <1>2, <1>4, <1>5, <1>6, OnlyCaller, MappedAt, SMTT(30)
<1>8. missing' = missing /\ doing' = doing
  BY <1>7 DEF missing, doing
<1>9. n \in granted[c]
  BY <1>2, <1>3, MappedAt DEF Inv, Booked, Owned
<1> QED
  BY <1>3, <1>7, <1>8, <1>9 DEF Manager!Release

\* releaseCurrentWorkerLocks leaves its caller without locks, and others with theirs.
LEMMA releaseOwned ==
  ASSUME Inv, NEW c \in Callers, releaseCurrentWorkerLocks(c), pc[c] = "user"
  PROVE  Owned(c)' = {} /\ \A d \in Callers \ {c} : Owned(d)' = Owned(d)
<1>1. Free(workerAcquiredLocks[c])
  BY releaseFrees
<1> QED
  BY <1>1, FreeOwned, OwnedBooked

\* The end of a task gives back everything.
LEMMA taskEndsEnds ==
  ASSUME Inv, NEW c \in Callers, taskEnds(c)
  PROVE  Manager!EndTask(c)
<1> USE DEF taskEnds, InUserCode
<1>1. Owned(c)' = {} /\ Others(c)
  BY releaseOwned DEF Others, call
<1>2. Phase(c) = "works" /\ Phase(c)' = Phase(c) /\ wanted[c] = {} /\ wanted'[c] = {}
  BY DEF Phase, call, Inv, CountedOn
<1>3. /\ granted' = [granted EXCEPT ![c] = {}]
      /\ missing' = [missing EXCEPT ![c] = missing[c]]
      /\ doing' = [doing EXCEPT ![c] = doing[c]] /\ doing[c] = "works"
  BY <1>1, <1>2, OnlyCaller, MappedAt
<1>4. missing' = missing /\ doing' = doing
  BY <1>3 DEF missing, doing
<1> QED
  BY <1>3, <1>4 DEF Manager!EndTask

\* edatWait asks for what it has given back, although it looks at activeLocks
\* and at the books rather than at the mutexes.
LEMMA pauseSuspends ==
  ASSUME Inv, NEW c \in Callers, pause(c)
  PROVE  Manager!Suspend(c)
<1> USE DEF pause, InUserCode
<1>1. wanted' = [wanted EXCEPT ![c] = workerAcquiredLocks[c]]
  <2>1. releaseCurrentWorkerLocks(c)
    OBVIOUS
  <2>2. (IF activeLocks > 0 THEN workerAcquiredLocks[c] ELSE {}) = workerAcquiredLocks[c]
    BY <2>1, releaseFrees DEF Inv, TypeOK
  <2> QED
    BY <2>2
<1>2. Owned(c)' = {} /\ Others(c)
  BY <1>1, releaseOwned DEF Others, Inv, TypeOK
<1>3. Phase(c) = "works" /\ Phase(c)' = "waits" /\ wanted'[c] = Owned(c)
  BY <1>1, OwnedBooked DEF Phase, Inv, TypeOK
<1>4. /\ granted' = [granted EXCEPT ![c] = {}]
      /\ missing' = [missing EXCEPT ![c] = granted[c]]
      /\ doing[c] = "works" /\ doing' = [doing EXCEPT ![c] = "waits"]
  <2>1. wanted'[c] \ Owned(c)' = granted[c]
    BY <1>2, <1>3, MappedAt
  <2> HIDE DEF pause, InUserCode
  <2> QED
    BY <1>2, <1>3, <2>1, OnlyCaller, MappedAt
<1> QED
  BY <1>4 DEF Manager!Suspend, Manager!Move

-----------------------------------------------------------------------------
(* The theorem                                                             *)

\* Nobody owns a lock at the start.
LEMMA ManagerInit ==
  ASSUME OnlyWorkers, Init
  PROVE  Manager!Init
<1>1. \A c \in Callers : Owned(c) = {} /\ wanted[c] \ Owned(c) = {} /\ Phase(c) = "works"
  BY CallersAssumption DEF Init, Owned, Phase, NoWorker, Nobody
<1> QED
  BY <1>1 DEF Manager!Init, granted, missing, doing

\* Every step of the locks is one of the abstract manager, or is not seen.
LEMMA ManagerStep ==
  ASSUME OnlyWorkers, Inv, [Next]_vars
  PROVE  [Manager!Next]_<<granted, missing, doing>>
<1>1. CASE UNCHANGED vars
  BY <1>1 DEF vars, context, call, granted, missing, doing, Owned, Phase
<1>2. ASSUME NEW c \in Callers, UserCode(c)
      PROVE  Manager!Next
  BY <1>2, lockRequests, unlockReleases, pauseSuspends, taskEndsEnds DEF UserCode, Manager!Next
<1>3. ASSUME NEW c \in Callers, Call(c)
      PROVE  Manager!Next \/ UNCHANGED <<granted, missing, doing>>
  <2>1. CASE issueNewLock(c) \/ acquire(c) \/ return(c) \/ aquireLocks(c)
    BY <2>1, Grants, returnReturns, aquireLocksResumes DEF Manager!Next
  <2>2. CASE ~(issueNewLock(c) \/ acquire(c) \/ return(c) \/ aquireLocks(c))
    BY <1>3, <2>2, BookingUnseen, QueueingUnseen DEF Call
  <2> QED
    BY <2>1, <2>2
<1> QED
  BY <1>1, <1>2, <1>3 DEF Next

\* Whatever the interleaving of calls, each step of the class is one of the
\* manager or leaves it as it is: mutual exclusion, and a wait that returns
\* with what it gave back, for any workers, names and number of calls.
THEOREM Refinement ==
  ASSUME OnlyWorkers
  PROVE  Spec => ManagesLocks
<1>1. Init => Manager!Init
  BY ManagerInit
<1>2. Inv /\ [Next]_vars => [Manager!Next]_<<granted, missing, doing>>
  BY ManagerStep
<1> QED
  BY <1>1, <1>2, Invariant, PTL DEF Spec, ManagesLocks, Manager!Spec
=============================================================================
