------------------------ MODULE KernelSemaphoreProofs ------------------------
(***************************************************************************)
(* Theorems about KernelSemaphore for any set of threads, any priorities   *)
(* and any maximal count.                                                  *)
(***************************************************************************)
EXTENDS KernelSemaphore, QueueLemmas

Blocking == {"infinite", "arm", "timed"}

-----------------------------------------------------------------------------
(* The inductive invariant.                                                 *)

TypeOK ==
  /\ alive \in BOOLEAN /\ deleting \in BOOLEAN
  /\ dwMaxSem \in Nat /\ dwCurrSem \in Nat
  /\ lpWaitingQueue \in Seq(Threads)
  /\ popped \in Threads \union {NoThread}
  /\ dwThreadStatus \in [Threads -> {"READY", "BLOCKED"}]
  /\ dwWaitingStatus \in [Threads -> {"WAITING", "RESOURCE", "TIMEOUT", "DELETED"}]
  /\ pc \in [Threads -> {"run", "cancel", "again", "againTimed"} \union Blocking]
  /\ timer \in [Threads -> {"none", "armed", "fired"}]
  /\ late \in [Threads -> BOOLEAN]

\* A thread that has blocked and that nobody has made ready.
Waits(t) ==
  pc[t] \in Blocking /\ dwThreadStatus[t] = "BLOCKED" /\ dwWaitingStatus[t] = "WAITING"

\* Queued threads wait, once each, in order of priority.
QueueHoldsWaiters ==
  /\ IsInjective(lpWaitingQueue) /\ Sorted(lpWaitingQueue, Priority)
  /\ \A t \in Threads : ObjectInQueue(lpWaitingQueue, t) => Waits(t) /\ t # popped

\* The thread taken out last waits until its lock is obtained.
PoppedWaits == popped # NoThread => Waits(popped)

\* While the semaphore exists nobody else is blocked.
BlockedAreKnown ==
  alive => \A t \in Threads :
    dwThreadStatus[t] = "BLOCKED" => ObjectInQueue(lpWaitingQueue, t) \/ popped = t

\* Of a semaphore that is gone nothing is left to wake anybody.
GoneIsEmpty == ~alive => lpWaitingQueue = <<>> /\ popped = NoThread /\ ~deleting

\* Only finitely many threads are on their way at any time, however many exist.
UnitsAreAwaited == IsFiniteSet(Woken) /\ NoLostWakeUp

IInv ==
  /\ TypeOK
  /\ QueueHoldsWaiters
  /\ PoppedWaits
  /\ BlockedAreKnown
  /\ GoneIsEmpty
  /\ UnitsAreAwaited

-----------------------------------------------------------------------------
(* Every step preserves it.                                                 *)

\* The count of units and the threads on their way, before and after a step.
LEMMA UnitsStayAwaited ==
  ASSUME TypeOK, UnitsAreAwaited,
         \/ Woken' \subseteq Woken
              /\ (alive' /\ ~deleting' /\ lpWaitingQueue' # <<>> => dwCurrSem' = 0)
         \/ \E t \in Threads : Woken' = Woken \ {t}
              /\ (alive' /\ ~deleting' /\ lpWaitingQueue' # <<>> =>
                    /\ alive /\ ~deleting /\ lpWaitingQueue # <<>>
                    /\ dwCurrSem' = dwCurrSem - 1)
         \/ Woken' = Woken
              /\ (alive' /\ ~deleting' /\ lpWaitingQueue' # <<>> =>
                    /\ alive /\ ~deleting /\ lpWaitingQueue # <<>>
                    /\ dwCurrSem' = dwCurrSem)
         \/ \E t \in Threads : Woken' = Woken \union {t}
              /\ (alive' /\ ~deleting' /\ lpWaitingQueue' # <<>> =>
                    /\ alive /\ ~deleting /\ lpWaitingQueue # <<>>
                    /\ t \notin Woken /\ dwCurrSem' = dwCurrSem + 1)
  PROVE  UnitsAreAwaited'
<1> USE DEF UnitsAreAwaited, NoLostWakeUp
<1>1. IsFiniteSet(Woken) /\ Cardinality(Woken) \in Nat /\ dwCurrSem \in Nat
  BY FS_CardinalityType DEF TypeOK
<1>2. ASSUME Woken' \subseteq Woken,
             alive' /\ ~deleting' /\ lpWaitingQueue' # <<>> => dwCurrSem' = 0
      PROVE  UnitsAreAwaited'
  <2>1. IsFiniteSet(Woken')
    BY <1>1, <1>2, FS_Subset
  <2>2. Cardinality(Woken') \in Nat
    BY <2>1, FS_CardinalityType
  <2> QED BY <1>2, <2>1, <2>2
<1>3. ASSUME NEW t \in Threads, Woken' = Woken \ {t},
             alive' /\ ~deleting' /\ lpWaitingQueue' # <<>> =>
                    /\ alive /\ ~deleting /\ lpWaitingQueue # <<>>
                    /\ dwCurrSem' = dwCurrSem - 1
      PROVE  UnitsAreAwaited'
  <2>1. /\ IsFiniteSet(Woken')
        /\ Cardinality(Woken') = IF t \in Woken THEN Cardinality(Woken) - 1
                                 ELSE Cardinality(Woken)
    BY <1>1, <1>3, FS_RemoveElement
  <2> QED BY <1>1, <1>3, <2>1
<1>4. ASSUME Woken' = Woken,
             alive' /\ ~deleting' /\ lpWaitingQueue' # <<>> =>
                    /\ alive /\ ~deleting /\ lpWaitingQueue # <<>>
                    /\ dwCurrSem' = dwCurrSem
      PROVE  UnitsAreAwaited'
  BY <1>1, <1>4
<1>5. ASSUME NEW t \in Threads, Woken' = Woken \union {t},
             alive' /\ ~deleting' /\ lpWaitingQueue' # <<>> =>
                    /\ alive /\ ~deleting /\ lpWaitingQueue # <<>>
                    /\ t \notin Woken /\ dwCurrSem' = dwCurrSem + 1
      PROVE  UnitsAreAwaited'
  <2>1. /\ IsFiniteSet(Woken')
        /\ Cardinality(Woken') = IF t \in Woken THEN Cardinality(Woken)
                                 ELSE Cardinality(Woken) + 1
    BY <1>1, <1>5, FS_AddElement
  <2> QED BY <1>1, <1>5, <2>1
<1> QED BY <1>2, <1>3, <1>4, <1>5, Zenon

LEMMA InitIInv == Init => IInv
<1> SUFFICES ASSUME Init
             PROVE  IInv
  OBVIOUS
<1>1. TypeOK
  <2>1. dwMaxSem \in Nat /\ dwCurrSem \in Nat
    BY SemaphoreAssumption DEF Init
  <2>2. lpWaitingQueue \in Seq(Threads)
    BY DEF Init
  <2> QED BY <2>1, <2>2 DEF Init, TypeOK, Blocking
<1>2. QueueHoldsWaiters
  <2>1. Sorted(lpWaitingQueue, Priority)
    BY DEF Init, Sorted
  <2> QED BY <1>1, <2>1, EmptyQueue DEF Init, QueueHoldsWaiters, TypeOK
<1>3. PoppedWaits /\ BlockedAreKnown /\ GoneIsEmpty
  BY DEF Init, PoppedWaits, BlockedAreKnown, GoneIsEmpty
<1>4. Woken = {}
  BY SemaphoreAssumption DEF Init, Woken
<1>5. UnitsAreAwaited
  BY <1>4, FS_EmptySet DEF Init, UnitsAreAwaited, NoLostWakeUp
<1> QED BY <1>1, <1>2, <1>3, <1>5 DEF IInv

LEMMA TakeUnitPreserves ==
  ASSUME IInv, NEW t \in Threads, TakeUnit(t)
  PROVE  IInv'
<1> USE SemaphoreAssumption DEF TakeUnit, Attempting, Unlocked, Return, IInv
<1>1. TypeOK'
  BY DEF TypeOK
<1>2. QueueHoldsWaiters'
  BY DEF TypeOK, QueueHoldsWaiters, Waits, Blocking
<1>3. PoppedWaits' /\ BlockedAreKnown' /\ GoneIsEmpty'
  BY DEF PoppedWaits, BlockedAreKnown, GoneIsEmpty
<1>4. Woken' = Woken \ {t}
  BY DEF Woken, TypeOK
<1>5. UnitsAreAwaited'
  BY <1>4, UnitsStayAwaited
<1> QED BY <1>1, <1>2, <1>3, <1>5

LEMMA GiveUpPreserves ==
  ASSUME IInv, NEW t \in Threads, GiveUp(t)
  PROVE  IInv'
<1> USE SemaphoreAssumption DEF GiveUp, Attempting, Unlocked, Return, semVars, IInv
<1>1. TypeOK'
  BY DEF TypeOK
<1>2. QueueHoldsWaiters'
  BY DEF TypeOK, QueueHoldsWaiters, Waits, Blocking
<1>3. PoppedWaits' /\ BlockedAreKnown' /\ GoneIsEmpty'
  BY DEF PoppedWaits, BlockedAreKnown, GoneIsEmpty
<1>4. Woken' \subseteq Woken
  BY DEF Woken, TypeOK
<1>5. UnitsAreAwaited'
  BY <1>4, UnitsStayAwaited
<1> QED BY <1>1, <1>2, <1>3, <1>5

\* Both waits queue their caller the same way; they differ in where it goes on.
LEMMA BlockPreserves ==
  ASSUME IInv, NEW t \in Threads, NEW next \in {"infinite", "arm"}, Block(t, next)
  PROVE  IInv'
<1> USE SemaphoreAssumption DEF Block, Attempting, Unlocked, IInv
<1>1. ~ObjectInQueue(lpWaitingQueue, t)
  BY DEF QueueHoldsWaiters, Waits, Blocking
<1>2. /\ lpWaitingQueue' \in Seq(Threads)
      /\ IsInjective(lpWaitingQueue')
      /\ \A u : ObjectInQueue(lpWaitingQueue', u) <=> ObjectInQueue(lpWaitingQueue, u) \/ u = t
      /\ Sorted(lpWaitingQueue', Priority)
  BY <1>1, InsertKeeps DEF TypeOK, QueueHoldsWaiters, ByPriority
<1>3. TypeOK'
  BY <1>2 DEF TypeOK, Blocking
<1>4. QueueHoldsWaiters'
  BY <1>2 DEF TypeOK, QueueHoldsWaiters, Waits, Blocking
<1>5. PoppedWaits' /\ BlockedAreKnown' /\ GoneIsEmpty'
  BY <1>2 DEF TypeOK, PoppedWaits, BlockedAreKnown, GoneIsEmpty
<1>6. Woken' \subseteq Woken
  BY DEF Woken, TypeOK
<1>7. UnitsAreAwaited'
  BY <1>6, UnitsStayAwaited
<1> QED BY <1>3, <1>4, <1>5, <1>7

LEMMA ReachTimeOutTickPreserves ==
  ASSUME IInv, NEW t \in Threads, ReachTimeOutTick(t)
  PROVE  IInv'
<1> USE DEF ReachTimeOutTick, semVars, IInv
<1>1. TypeOK'
  BY DEF TypeOK
<1>2. QueueHoldsWaiters' /\ PoppedWaits' /\ BlockedAreKnown' /\ GoneIsEmpty'
  BY DEF QueueHoldsWaiters, Waits, PoppedWaits, BlockedAreKnown, GoneIsEmpty
<1>3. Woken' = Woken
  BY DEF Woken
<1>4. UnitsAreAwaited'
  BY <1>3, UnitsStayAwaited
<1> QED BY <1>1, <1>2, <1>4

LEMMA SetTimerPreserves ==
  ASSUME IInv, NEW t \in Threads, SetTimer(t)
  PROVE  IInv'
<1> USE SemaphoreAssumption DEF SetTimer, semVars, IInv
<1>1. TypeOK'
  BY DEF TypeOK, Blocking
<1>2. QueueHoldsWaiters'
  BY DEF TypeOK, QueueHoldsWaiters, Waits, Blocking
<1>3. PoppedWaits' /\ BlockedAreKnown' /\ GoneIsEmpty'
  BY DEF TypeOK, PoppedWaits, Waits, Blocking, BlockedAreKnown, GoneIsEmpty
<1>4. Woken' = Woken
  BY DEF Woken, TypeOK
<1>5. UnitsAreAwaited'
  BY <1>4, UnitsStayAwaited
<1> QED BY <1>1, <1>2, <1>3, <1>5

LEMMA WaitingTimerHandlerPreserves ==
  ASSUME IInv, NEW t \in Threads, WaitingTimerHandler(t)
  PROVE  IInv'
<1> USE SemaphoreAssumption DEF WaitingTimerHandler, IInv
<1>1. CASE Expires(t)
  <2>1. ObjectInQueue(lpWaitingQueue, t) /\ t # popped /\ Waits(t)
    BY <1>1 DEF Expires, QueueHoldsWaiters
  <2>2. /\ lpWaitingQueue' \in Seq(Threads)
        /\ IsInjective(lpWaitingQueue')
        /\ \A u : ObjectInQueue(lpWaitingQueue', u) <=> ObjectInQueue(lpWaitingQueue, u) /\ u # t
    BY <1>1, DeleteKeeps DEF TypeOK, QueueHoldsWaiters
  <2>3. Sorted(lpWaitingQueue', Priority)
    <3>1. lpWaitingQueue' = DeleteFromQueue(lpWaitingQueue, t)
      BY <1>1
    <3>2. lpWaitingQueue \in Seq(Threads) /\ Sorted(lpWaitingQueue, Priority)
      BY DEF TypeOK, QueueHoldsWaiters
    <3> QED BY <3>1, <3>2, SortedKept
  <2>4. TypeOK'
    BY <1>1, <2>2 DEF TypeOK
  <2>5. QueueHoldsWaiters'
    BY <1>1, <2>2, <2>3 DEF TypeOK, QueueHoldsWaiters, Waits
  <2>6. PoppedWaits'
    BY <1>1, <2>1 DEF TypeOK, PoppedWaits, Waits
  <2>7. BlockedAreKnown'
    BY <1>1, <2>2 DEF TypeOK, BlockedAreKnown
  <2>8. lpWaitingQueue # <<>> /\ GoneIsEmpty'
    BY <2>1, EmptyQueue DEF TypeOK, GoneIsEmpty
  <2>9. Woken' = Woken
    BY <1>1, <2>1 DEF Woken, Waits, Blocking, TypeOK
  <2>10. UnitsAreAwaited'
    BY <2>8, <2>9, UnitsStayAwaited
  <2> QED BY <2>4, <2>5, <2>6, <2>7, <2>8, <2>10
<1>2. CASE ~Expires(t)
  <2>1. UNCHANGED <<semVars, dwThreadStatus, dwWaitingStatus, pc, late>>
    BY <1>2 DEF semVars
  <2>2. TypeOK'
    BY <2>1 DEF TypeOK, semVars
  <2>3. QueueHoldsWaiters' /\ PoppedWaits' /\ BlockedAreKnown' /\ GoneIsEmpty'
    BY <2>1 DEF semVars, QueueHoldsWaiters, PoppedWaits, BlockedAreKnown, GoneIsEmpty, Waits
  <2>4. Woken' = Woken
    BY <2>1 DEF Woken, semVars
  <2>5. UnitsAreAwaited'
    BY <2>1, <2>4, UnitsStayAwaited DEF semVars
  <2> QED BY <2>2, <2>3, <2>5
<1> QED BY <1>1, <1>2

\* The ways of a woken thread back to __TRY_AGAIN, or out of the wait.
LEMMA WayBackPreserves ==
  ASSUME IInv, NEW t \in Threads, WokenUp(t) \/ WokenUpTimed(t) \/ CancelTimer(t)
  PROVE  IInv'
<1> USE SemaphoreAssumption DEF WokenUp, WokenUpTimed, CancelTimer, Return, semVars, IInv
<1>1. TypeOK'
  BY DEF TypeOK, Blocking
<1>2. ~Waits(t)
  BY DEF Waits, Blocking
<1>3. \A u \in Threads : Waits(u) => Waits(u)'
  BY <1>2 DEF TypeOK, Waits, Blocking
<1>4. QueueHoldsWaiters'
  BY <1>3 DEF QueueHoldsWaiters
<1>5. PoppedWaits'
  BY <1>3 DEF TypeOK, PoppedWaits
<1>6. BlockedAreKnown' /\ GoneIsEmpty'
  BY DEF BlockedAreKnown, GoneIsEmpty
<1>7. popped # t
  BY <1>2 DEF PoppedWaits
<1>8. Woken' = Woken \/ Woken' = Woken \union {t}
  BY <1>7 DEF Woken, TypeOK
<1>9. IsFiniteSet(Woken') /\ Cardinality(Woken') >= Cardinality(Woken)
  <2>1. IsFiniteSet(Woken) /\ Cardinality(Woken) \in Nat
    BY FS_CardinalityType DEF UnitsAreAwaited
  <2>2. /\ IsFiniteSet(Woken \union {t})
        /\ Cardinality(Woken \union {t}) = IF t \in Woken THEN Cardinality(Woken)
                                           ELSE Cardinality(Woken) + 1
    BY <2>1, FS_AddElement
  <2>3. Cardinality(Woken \union {t}) >= Cardinality(Woken)
    BY <2>1, <2>2
  <2>4. Cardinality(Woken) >= Cardinality(Woken)
    BY <2>1
  <2> QED BY <1>8, <2>1, <2>2, <2>3, <2>4, Zenon
<1>10. UnitsAreAwaited'
  <2>1. Cardinality(Woken) \in Nat /\ Cardinality(Woken') \in Nat /\ dwCurrSem \in Nat
    BY <1>9, FS_CardinalityType DEF UnitsAreAwaited, TypeOK
  <2> QED BY <1>9, <2>1 DEF UnitsAreAwaited, NoLostWakeUp
<1> QED BY <1>1, <1>4, <1>5, <1>6, <1>10

LEMMA TryFreedPreserves ==
  ASSUME IInv, NEW t \in Threads, TryFreed(t)
  PROVE  IInv'
<1> USE SemaphoreAssumption DEF TryFreed, Return, semVars, IInv
<1>1. TypeOK'
  BY DEF TypeOK, Blocking
<1>2. QueueHoldsWaiters' /\ PoppedWaits' /\ BlockedAreKnown' /\ GoneIsEmpty'
  BY EmptyQueue DEF QueueHoldsWaiters, PoppedWaits, BlockedAreKnown, GoneIsEmpty, TypeOK
<1>3. Woken' \subseteq Woken
  BY DEF Woken, TypeOK
<1>4. UnitsAreAwaited'
  BY <1>3, UnitsStayAwaited
<1> QED BY <1>1, <1>2, <1>4

\* The header of the queue, when it is taken out.
LEMMA HeaderWaits ==
  ASSUME IInv, lpWaitingQueue # <<>>
  PROVE  LET h == HeaderElement(lpWaitingQueue)
             r == WithoutHeader(lpWaitingQueue)
         IN /\ h \in Threads /\ ObjectInQueue(lpWaitingQueue, h) /\ Waits(h)
            /\ r \in Seq(Threads) /\ IsInjective(r) /\ Sorted(r, Priority)
            /\ \A u : ObjectInQueue(r, u) <=> ObjectInQueue(lpWaitingQueue, u) /\ u # h
<1>1. /\ HeaderElement(lpWaitingQueue) \in Threads
      /\ ObjectInQueue(lpWaitingQueue, HeaderElement(lpWaitingQueue))
      /\ WithoutHeader(lpWaitingQueue) \in Seq(Threads)
      /\ IsInjective(WithoutHeader(lpWaitingQueue))
      /\ \A u : ObjectInQueue(WithoutHeader(lpWaitingQueue), u)
                  <=> ObjectInQueue(lpWaitingQueue, u) /\ u # HeaderElement(lpWaitingQueue)
  BY HeaderTaken DEF IInv, TypeOK, QueueHoldsWaiters
<1>2. Sorted(WithoutHeader(lpWaitingQueue), Priority)
  BY SortedKept, SemaphoreAssumption DEF IInv, TypeOK, QueueHoldsWaiters
<1> QED BY <1>1, <1>2 DEF IInv, QueueHoldsWaiters

LEMMA ReleaseSemaphorePreserves ==
  ASSUME IInv, ReleaseSemaphore
  PROVE  IInv'
<1> USE SemaphoreAssumption DEF ReleaseSemaphore, Unlocked, WakesOne, threadVars, IInv
<1>1. CASE lpWaitingQueue = <<>>
  <2>1. TypeOK'
    BY <1>1 DEF TypeOK
  <2>2. QueueHoldsWaiters' /\ PoppedWaits' /\ BlockedAreKnown' /\ GoneIsEmpty'
    BY <1>1 DEF QueueHoldsWaiters, PoppedWaits, BlockedAreKnown, GoneIsEmpty, Waits
  <2>3. Woken' = Woken
    BY <1>1 DEF Woken
  <2>4. UnitsAreAwaited'
    BY <1>1, <2>3, UnitsStayAwaited
  <2> QED BY <2>1, <2>2, <2>4
<1>2. CASE lpWaitingQueue # <<>>
  <2> DEFINE h == HeaderElement(lpWaitingQueue)
  <2>1. /\ h \in Threads /\ ObjectInQueue(lpWaitingQueue, h) /\ Waits(h)
        /\ lpWaitingQueue' \in Seq(Threads) /\ IsInjective(lpWaitingQueue')
        /\ Sorted(lpWaitingQueue', Priority)
        /\ \A u : ObjectInQueue(lpWaitingQueue', u) <=> ObjectInQueue(lpWaitingQueue, u) /\ u # h
        /\ popped' = h
    BY <1>2, HeaderWaits
  <2> HIDE DEF h
  <2>2. TypeOK'
    BY <2>1 DEF TypeOK
  <2>3. QueueHoldsWaiters' /\ PoppedWaits'
    BY <2>1 DEF QueueHoldsWaiters, PoppedWaits, Waits
  <2>4. BlockedAreKnown' /\ GoneIsEmpty'
    BY <2>1 DEF BlockedAreKnown, GoneIsEmpty
  <2>5. Woken' = Woken \union {h} /\ h \notin Woken
    BY <2>1 DEF Woken, Waits, Blocking, TypeOK
  <2>6. alive /\ UNCHANGED <<alive, deleting>> /\ ~deleting /\ dwCurrSem' = dwCurrSem + 1
    OBVIOUS
  <2>7. UnitsAreAwaited'
    BY <1>2, <2>1, <2>5, <2>6, UnitsStayAwaited
  <2> QED BY <2>2, <2>3, <2>4, <2>7
<1> QED BY <1>1, <1>2

LEMMA WakePoppedPreserves ==
  ASSUME IInv, WakePopped
  PROVE  IInv'
<1> USE SemaphoreAssumption DEF WakePopped, IInv
<1>1. popped \in Threads /\ Waits(popped)
  BY DEF TypeOK, PoppedWaits
<1>2. TypeOK'
  BY <1>1 DEF TypeOK
<1>3. QueueHoldsWaiters' /\ PoppedWaits'
  BY <1>1 DEF TypeOK, QueueHoldsWaiters, PoppedWaits, Waits
<1>4. BlockedAreKnown' /\ GoneIsEmpty'
  BY <1>1 DEF TypeOK, BlockedAreKnown, GoneIsEmpty
<1>5. CASE deleting
  <2>1. Woken' \subseteq Woken
    BY <1>1, <1>5 DEF Woken, TypeOK
  <2> QED BY <1>2, <1>3, <1>4, <1>5, <2>1, UnitsStayAwaited
<1>6. CASE ~deleting
  <2>1. Woken' = Woken
    BY <1>1, <1>6 DEF Woken, Waits, Blocking, TypeOK
  <2> QED BY <1>2, <1>3, <1>4, <1>6, <2>1, UnitsStayAwaited
<1> QED BY <1>5, <1>6

LEMMA SemUninitializePreserves ==
  ASSUME IInv, SemUninitialize
  PROVE  IInv'
<1> USE SemaphoreAssumption DEF SemUninitialize, Unlocked, threadVars, IInv
<1>1. TypeOK'
  <2>1. <<>> \in Seq(Threads)
    OBVIOUS
  <2>2. lpWaitingQueue' \in {lpWaitingQueue, <<>>}
    OBVIOUS
  <2>3. lpWaitingQueue' \in Seq(Threads)
    BY <2>1, <2>2 DEF TypeOK
  <2> QED BY <2>3 DEF TypeOK
<1>2. QueueHoldsWaiters'
  <2>1. CASE WakesWaiters
    BY <2>1 DEF QueueHoldsWaiters, Waits
  <2>2. CASE ~WakesWaiters
    <3>1. lpWaitingQueue' = <<>> /\ Sorted(<<>>, Priority)
      BY <2>2 DEF Sorted
    <3> QED BY <3>1, EmptyQueue DEF QueueHoldsWaiters, TypeOK
  <2> QED BY <2>1, <2>2
<1>3. PoppedWaits' /\ BlockedAreKnown' /\ GoneIsEmpty'
  BY DEF PoppedWaits, BlockedAreKnown, GoneIsEmpty
<1>4. Woken' = Woken
  BY DEF Woken
<1>5. UnitsAreAwaited'
  BY <1>4, UnitsStayAwaited
<1> QED BY <1>1, <1>2, <1>3, <1>5

LEMMA DeleteLoopPreserves ==
  ASSUME IInv, DeleteLoop
  PROVE  IInv'
<1> USE SemaphoreAssumption DEF DeleteLoop, threadVars, IInv
<1>1. CASE lpWaitingQueue = <<>>
  <2>1. TypeOK'
    BY <1>1 DEF TypeOK
  <2>2. QueueHoldsWaiters' /\ PoppedWaits' /\ BlockedAreKnown' /\ GoneIsEmpty'
    BY <1>1 DEF QueueHoldsWaiters, PoppedWaits, BlockedAreKnown, GoneIsEmpty, Waits
  <2>3. Woken' = Woken
    BY <1>1 DEF Woken
  <2>4. UnitsAreAwaited'
    BY <1>1, <2>3, UnitsStayAwaited
  <2> QED BY <2>1, <2>2, <2>4
<1>2. CASE lpWaitingQueue # <<>>
  <2> DEFINE h == HeaderElement(lpWaitingQueue)
  <2>1. /\ h \in Threads /\ ObjectInQueue(lpWaitingQueue, h) /\ Waits(h)
        /\ lpWaitingQueue' \in Seq(Threads) /\ IsInjective(lpWaitingQueue')
        /\ Sorted(lpWaitingQueue', Priority)
        /\ \A u : ObjectInQueue(lpWaitingQueue', u) <=> ObjectInQueue(lpWaitingQueue, u) /\ u # h
        /\ popped' = h
    BY <1>2, HeaderWaits
  <2> HIDE DEF h
  <2>2. TypeOK'
    BY <1>2, <2>1 DEF TypeOK
  <2>3. QueueHoldsWaiters' /\ PoppedWaits'
    BY <2>1 DEF QueueHoldsWaiters, PoppedWaits, Waits
  <2>4. BlockedAreKnown' /\ GoneIsEmpty'
    BY <1>2, <2>1 DEF BlockedAreKnown, GoneIsEmpty
  <2>5. Woken' = Woken \union {h}
    BY <2>1 DEF Woken, TypeOK
  <2>6. UnitsAreAwaited'
    BY <1>2, <2>1, <2>5, UnitsStayAwaited
  <2> QED BY <2>2, <2>3, <2>4, <2>6
<1> QED BY <1>1, <1>2

LEMMA NextPreserves ==
  ASSUME IInv, [Next]_vars
  PROVE  IInv'
<1>1. CASE UNCHANGED vars
  <2>1. Woken' = Woken
    BY <1>1 DEF vars, semVars, threadVars, Woken
  <2>2. UnitsAreAwaited'
    BY <1>1, <2>1 DEF vars, semVars, UnitsAreAwaited, NoLostWakeUp, IInv
  <2> QED BY <1>1, <2>2 DEF vars, semVars, threadVars, IInv, TypeOK, QueueHoldsWaiters,
              PoppedWaits, BlockedAreKnown, GoneIsEmpty, Waits
<1>2. ASSUME NEW t \in Threads,
             \/ TakeUnit(t) \/ GiveUp(t)
             \/ WaitForSemObject(t) \/ WaitForSemObjectEx(t) \/ ReachTimeOutTick(t)
             \/ SetTimer(t) \/ WaitingTimerHandler(t)
             \/ WokenUp(t) \/ WokenUpTimed(t) \/ CancelTimer(t)
             \/ TryFreed(t)
      PROVE  IInv'
  BY <1>2, TakeUnitPreserves, GiveUpPreserves, BlockPreserves, ReachTimeOutTickPreserves,
     SetTimerPreserves, WaitingTimerHandlerPreserves, WayBackPreserves, TryFreedPreserves
  DEF WaitForSemObject, WaitForSemObjectEx
<1>3. CASE ReleaseSemaphore \/ WakePopped \/ SemUninitialize \/ DeleteLoop
  BY <1>3, ReleaseSemaphorePreserves, WakePoppedPreserves, SemUninitializePreserves,
     DeleteLoopPreserves
<1> QED BY <1>1, <1>2, <1>3 DEF Next

-----------------------------------------------------------------------------
(* What follows from it.                                                    *)

\* The inductive invariant holds of every behaviour of the semaphore.
THEOREM Invariance == Spec => []IInv
<1>1. Init => IInv
  BY InitIInv
<1>2. IInv /\ [Next]_vars => IInv'
  BY NextPreserves
<1> QED BY <1>1, <1>2, PTL DEF Spec

\* No wake-up is lost, whoever takes the units and whatever times out: for any
\* number of threads, also if they are infinitely many.
THEOREM WakeUpsAreNotLost == Spec => []NoLostWakeUp
<1>1. IInv => NoLostWakeUp
  BY DEF IInv, UnitsAreAwaited
<1> QED BY <1>1, Invariance, PTL

\* A semaphore that exists has in its queue exactly the threads that block on it.
THEOREM QueueIsExact == Spec => []QueueIsTheWaiters
<1>1. ASSUME IInv
      PROVE  QueueIsTheWaiters
  <2>1. Cardinality(ToSet(lpWaitingQueue)) = Len(lpWaitingQueue)
    BY <1>1, QueueMembers DEF IInv, TypeOK, QueueHoldsWaiters
  <2>2. ASSUME alive, NEW t \in Threads
        PROVE  dwThreadStatus[t] = "BLOCKED" <=> ObjectInQueue(lpWaitingQueue, t) \/ popped = t
    BY <1>1, <2>2, SemaphoreAssumption
    DEF IInv, QueueHoldsWaiters, PoppedWaits, Waits, BlockedAreKnown
  <2> QED BY <2>1, <2>2 DEF QueueIsTheWaiters
<1> QED BY <1>1, Invariance, PTL

LEMMA StepServesByPriority ==
  ASSUME IInv, [Next]_vars
  PROVE  [\A t, u \in Threads :
            popped' = t /\ popped # t /\ ObjectInQueue(lpWaitingQueue, u)
              => Priority[u] <= Priority[t]]_vars
<1> SUFFICES ASSUME Next, NEW t \in Threads, NEW u \in Threads,
                    popped' = t, popped # t, ObjectInQueue(lpWaitingQueue, u)
             PROVE  Priority[u] <= Priority[t]
  OBVIOUS
<1>1. popped' # popped /\ popped' # NoThread
  BY SemaphoreAssumption
<1>2. ReleaseSemaphore \/ DeleteLoop
  BY <1>1 DEF Next, TakeUnit, GiveUp, WaitForSemObject, WaitForSemObjectEx, Block,
     ReachTimeOutTick, SetTimer, WaitingTimerHandler, WokenUp, WokenUpTimed, CancelTimer,
     TryFreed, WakePopped, SemUninitialize, semVars
<1>3. t = HeaderElement(lpWaitingQueue)
  BY <1>1, <1>2 DEF ReleaseSemaphore, DeleteLoop
<1> QED BY <1>3, SortedKept, SemaphoreAssumption DEF IInv, TypeOK, QueueHoldsWaiters

\* Whoever is taken out of the queue outranks or equals everybody left in it.
THEOREM PriorityDecides == Spec => ServedByPriority
<1>1. IInv /\ [Next]_vars
        => [\A t, u \in Threads :
              popped' = t /\ popped # t /\ ObjectInQueue(lpWaitingQueue, u)
                => Priority[u] <= Priority[t]]_vars
  BY StepServesByPriority
<1> QED BY <1>1, Invariance, PTL DEF Spec, ServedByPriority
=============================================================================
