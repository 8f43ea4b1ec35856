------------------------- MODULE KernelMutexProofs -------------------------
(***************************************************************************)
(* Theorems about KernelMutex for any set of threads, any recursion depth, *)
(* with or without allocation failures; and about KernelCondition, which   *)
(* is composed with it and uses its steps.                                 *)
(***************************************************************************)
EXTENDS KernelCondition, QueueLemmas

-----------------------------------------------------------------------------
(* The inductive invariant.  MutexInv is what the steps of the mutex keep in *)
(* any composition; its first four parts speak of a mutex that exists, in a  *)
(* machine that has not stopped.                                             *)

Live == alive /\ ~panic

\* A free mutex has no owner, no count and no waiter.
FreeIsIdle ==
  dwMutexStatus = "FREE" =>
    lpCurrentOwner = NoThread /\ dwWaitingNum = 0 /\ lpWaitingQueue = <<>>

\* An occupied one has an owner, counted, and every queued thread is counted;
\* nothing else is, as long as no insertion fails.
OccupiedIsCounted ==
  dwMutexStatus = "OCCUPIED" =>
    /\ lpCurrentOwner \in Threads
    /\ nCurrOwnCount > 0
    /\ dwWaitingNum > Len(lpWaitingQueue)
    /\ ~AllocMayFail => dwWaitingNum = Len(lpWaitingQueue) + 1

\* The owner holds the mutex, or was handed it and is still inside its wait;
\* nobody else does either.
OwnerHolds ==
  \A t \in Threads :
    /\ held[t] > 0 => lpCurrentOwner = t /\ nCurrOwnCount = held[t] /\ ~Served(t)
    /\ Served(t) => lpCurrentOwner = t /\ nCurrOwnCount = 1 /\ held[t] = 0
    /\ lpCurrentOwner = t => held[t] > 0 \/ Served(t)

\* A queued thread waits, is queued once, and no thread that waits is anywhere
\* else (unless its insertion failed).
QueueHoldsWaiters ==
  /\ \A i \in 1..Len(lpWaitingQueue) :
       LET t == lpWaitingQueue[i] IN
         pc[t] \in Blocking /\ dwWaitingStatus[t] = "WAITING"
  /\ \A i, j \in 1..Len(lpWaitingQueue) :
       lpWaitingQueue[i] = lpWaitingQueue[j] => i = j

\* A thread leaves a call only awake, and wakes only with a reason; TIMEOUT is a
\* reason only a timer gives.
WaitersBlock ==
  \A t \in Threads :
    /\ pc[t] \in {"run", "cancel"} => dwThreadStatus[t] = "READY"
    /\ pc[t] \in Blocking /\ dwWaitingStatus[t] = "WAITING" =>
         dwThreadStatus[t] = "BLOCKED"
    /\ dwThreadStatus[t] = "BLOCKED" => dwWaitingStatus[t] = "WAITING"
    /\ pc[t] \in {"infinite", "arm"} => dwWaitingStatus[t] # "TIMEOUT"
    /\ pc[t] = "cancel" => dwWaitingStatus[t] # "WAITING"

NothingHeldOfDeleted ==
  ~alive => lpWaitingQueue = <<>> /\ \A t \in Threads : held[t] = 0

OneHolder == \A t, u \in Threads : held[t] > 0 /\ held[u] > 0 => t = u

\* The types, with the places of a thread inside the calls of a condition.
Places == {"run", "cancel"} \union Blocking \union CondPC

MutexTypes ==
  /\ alive \in BOOLEAN
  /\ dwMutexStatus \in {"FREE", "OCCUPIED"}
  /\ dwWaitingNum \in Nat
  /\ lpCurrentOwner \in Threads \union {NoThread}
  /\ nCurrOwnCount \in 0..MaxOwn
  /\ lpWaitingQueue \in Seq(Threads)
  /\ dwThreadStatus \in [Threads -> {"READY", "BLOCKED"}]
  /\ dwWaitingStatus \in [Threads -> WaitStatus]
  /\ pc \in [Threads -> Places]
  /\ timer \in [Threads -> {"none", "armed", "fired"}]
  /\ result \in [Threads -> WaitStatus]
  /\ held \in [Threads -> 0..MaxOwn]
  /\ panic \in BOOLEAN

MutexInv ==
  /\ MutexTypes
  /\ Live => FreeIsIdle /\ OccupiedIsCounted /\ OwnerHolds /\ QueueHoldsWaiters
  /\ WaitersBlock
  /\ NothingHeldOfDeleted
  /\ OneHolder

\* The mutex alone: its threads are nowhere else.
IInv == MutexInv /\ TypeOK /\ TimerWithinCall

-----------------------------------------------------------------------------
(* Every step preserves MutexInv: one lemma per action, one step per part   *)
(* that the action disturbs.                                                *)

LEMMA InitMutexInv == Init => MutexInv
<1> SUFFICES ASSUME Init
             PROVE  MutexInv
  OBVIOUS
<1>1. MutexTypes
  <2>1. lpWaitingQueue \in Seq(Threads) /\ dwWaitingNum \in Nat
    BY DEF Init, InitializedMutex
  <2>2. nCurrOwnCount \in 0..MaxOwn /\ held \in [Threads -> 0..MaxOwn]
    BY MutexAssumption DEF Init, InitializedMutex
  <2> QED
    BY <2>1, <2>2 DEF Init, InitializedMutex, MutexTypes, Blocking, Places, WaitStatus
<1>2. FreeIsIdle /\ OccupiedIsCounted /\ QueueHoldsWaiters
  BY DEF Init, InitializedMutex, FreeIsIdle, OccupiedIsCounted, QueueHoldsWaiters
<1>3. OwnerHolds
  BY MutexAssumption DEF Init, InitializedMutex, OwnerHolds, Served, Blocking
<1>4. WaitersBlock /\ NothingHeldOfDeleted /\ OneHolder
  BY DEF Init, WaitersBlock, NothingHeldOfDeleted, OneHolder,
         Blocking
<1> QED BY <1>1, <1>2, <1>3, <1>4 DEF MutexInv

LEMMA TakeFreePreserves ==
  ASSUME MutexInv, NEW t \in Threads, TakeFree(t)
  PROVE  MutexInv'
<1> USE MutexAssumption
    DEF TakeFree, CanCall, CountOwner, MutexInv, MutexTypes, Live, Blocking, Places, CondPC, Served, WaitStatus
<1>1. MutexTypes'
  BY DEF FreeIsIdle, OwnerHolds
<1>2. Live' => FreeIsIdle'
  BY DEF FreeIsIdle
<1>3. Live' => OccupiedIsCounted'
  BY DEF OccupiedIsCounted, FreeIsIdle
<1>4. Live' => OwnerHolds'
  BY DEF OwnerHolds, FreeIsIdle
<1>5. Live' => QueueHoldsWaiters'
  BY DEF QueueHoldsWaiters, FreeIsIdle
<1>6. OneHolder'
  BY DEF OneHolder, OwnerHolds, FreeIsIdle
<1>7. /\ WaitersBlock'
      /\ NothingHeldOfDeleted'
  BY DEF WaitersBlock, NothingHeldOfDeleted
<1> QED BY <1>1, <1>2, <1>3, <1>4, <1>5, <1>6, <1>7

LEMMA TakeAgainPreserves ==
  ASSUME MutexInv, NEW t \in Threads, TakeAgain(t)
  PROVE  MutexInv'
<1> USE MutexAssumption
    DEF TakeAgain, CanCall, MutexInv, MutexTypes, Live, Blocking, Places, CondPC, Served, WaitStatus
<1>1. MutexTypes'
  <2>1. held[t] = nCurrOwnCount
    BY DEF OwnerHolds
  <2> QED BY <2>1
<1>2. Live' => OccupiedIsCounted'
  BY DEF OccupiedIsCounted
<1>3. Live' => OwnerHolds'
  BY DEF OwnerHolds
<1>4. OneHolder'
  BY DEF OneHolder, OwnerHolds
<1>5. /\ (Live' => FreeIsIdle' /\ QueueHoldsWaiters')
      /\ WaitersBlock'
      /\ NothingHeldOfDeleted'
  BY DEF FreeIsIdle, QueueHoldsWaiters, WaitersBlock, NothingHeldOfDeleted
<1> QED BY <1>1, <1>2, <1>3, <1>4, <1>5

LEMMA TryFailsPreserves ==
  ASSUME MutexInv, NEW t \in Threads, TryFails(t)
  PROVE  MutexInv'
<1> USE MutexAssumption
    DEF TryFails, CanCall, mutexVars, MutexInv, MutexTypes, Live, Blocking, Places, CondPC, Served, WaitStatus
<1>1. MutexTypes'
  OBVIOUS
<1>2. /\ (Live' => FreeIsIdle' /\ OccupiedIsCounted' /\ OwnerHolds' /\ QueueHoldsWaiters')
      /\ WaitersBlock'
      /\ NothingHeldOfDeleted'
      /\ OneHolder'
  BY DEF FreeIsIdle, OccupiedIsCounted, OwnerHolds, QueueHoldsWaiters, WaitersBlock, NothingHeldOfDeleted, OneHolder
<1> QED BY <1>1, <1>2

LEMMA SetTimerPreserves ==
  ASSUME MutexInv, NEW t \in Threads, SetTimer(t)
  PROVE  MutexInv'
<1> USE MutexAssumption
    DEF SetTimer, NewTimer, mutexVars, MutexInv, MutexTypes, Live, Blocking, Places, CondPC, Served, WaitStatus
<1>1. MutexTypes'
  OBVIOUS
<1>2. Live' => OwnerHolds'
  BY DEF OwnerHolds
<1>3. Live' => QueueHoldsWaiters'
  <2>1. \A i \in 1..Len(lpWaitingQueue) : lpWaitingQueue[i] \in Threads
    OBVIOUS
  <2>2. \A u \in Threads : pc[u] \in Blocking => pc'[u] \in Blocking
    OBVIOUS
  <2>3. UNCHANGED <<lpWaitingQueue, dwWaitingStatus, alive>> /\ (~panic' => ~panic)
    OBVIOUS
  <2> HIDE DEF SetTimer, MutexInv, Live
  <2>4. ASSUME QueueHoldsWaiters PROVE QueueHoldsWaiters'
    BY <2>1, <2>2, <2>3, <2>4 DEF QueueHoldsWaiters
  <2> QED BY <2>3, <2>4 DEF MutexInv, Live
<1>4. WaitersBlock'
  BY DEF WaitersBlock
<1>6. /\ (Live' => FreeIsIdle' /\ OccupiedIsCounted')
      /\ NothingHeldOfDeleted'
      /\ OneHolder'
  BY DEF FreeIsIdle, OccupiedIsCounted, NothingHeldOfDeleted, OneHolder
<1> QED BY <1>1, <1>2, <1>3, <1>4, <1>6

LEMMA WokenUpPreserves ==
  ASSUME MutexInv, NEW t \in Threads, WokenUp(t)
  PROVE  MutexInv'
<1> USE MutexAssumption
    DEF WokenUp, Return, mutexVars, MutexInv, MutexTypes, Live, Blocking, Places, CondPC, Served, WaitStatus
<1>1. MutexTypes'
  BY DEF OwnerHolds, WaitersBlock
<1>2. Live' => OwnerHolds'
  BY DEF OwnerHolds, WaitersBlock
<1>3. Live' => QueueHoldsWaiters'
  BY DEF QueueHoldsWaiters, WaitersBlock
<1>4. WaitersBlock'
  BY DEF WaitersBlock
<1>5. NothingHeldOfDeleted'
  BY DEF NothingHeldOfDeleted
<1>6. OneHolder'
  BY DEF OneHolder, OwnerHolds, WaitersBlock
<1>8. /\ (Live' => FreeIsIdle' /\ OccupiedIsCounted')
  BY DEF FreeIsIdle, OccupiedIsCounted
<1> QED BY <1>1, <1>2, <1>3, <1>4, <1>5, <1>6, <1>8

LEMMA WokenUpTimedPreserves ==
  ASSUME MutexInv, NEW t \in Threads, WokenUpTimed(t)
  PROVE  MutexInv'
<1> USE MutexAssumption
    DEF WokenUpTimed, mutexVars, MutexInv, MutexTypes, Live, Blocking, Places, CondPC, Served, WaitStatus
<1>1. MutexTypes'
  BY DEF OwnerHolds, WaitersBlock
<1>2. Live' => OwnerHolds'
  BY DEF OwnerHolds
<1>3. Live' => QueueHoldsWaiters'
  BY DEF QueueHoldsWaiters, WaitersBlock
<1>4. WaitersBlock'
  BY DEF WaitersBlock
<1>6. /\ (Live' => FreeIsIdle' /\ OccupiedIsCounted')
      /\ NothingHeldOfDeleted'
      /\ OneHolder'
  BY DEF FreeIsIdle, OccupiedIsCounted, NothingHeldOfDeleted, OneHolder
<1> QED BY <1>1, <1>2, <1>3, <1>4, <1>6

LEMMA CancelTimerPreserves ==
  ASSUME MutexInv, NEW t \in Threads, CancelTimer(t)
  PROVE  MutexInv'
<1> USE MutexAssumption
    DEF CancelTimer, Return, Cancelled, TimedResult, mutexVars, MutexInv, MutexTypes, Live, Blocking, Places, CondPC, Served, WaitStatus
<1>1. MutexTypes'
  BY DEF OwnerHolds
<1>2. Live' => OwnerHolds'
  BY DEF OwnerHolds, WaitersBlock
<1>3. Live' => QueueHoldsWaiters'
  BY DEF QueueHoldsWaiters, WaitersBlock
<1>4. WaitersBlock'
  BY DEF WaitersBlock
<1>5. NothingHeldOfDeleted'
  BY DEF NothingHeldOfDeleted
<1>6. OneHolder'
  BY DEF OneHolder, OwnerHolds, WaitersBlock
<1>8. /\ (Live' => FreeIsIdle' /\ OccupiedIsCounted')
  BY DEF FreeIsIdle, OccupiedIsCounted
<1> QED BY <1>1, <1>2, <1>3, <1>4, <1>5, <1>6, <1>8

LEMMA ReleaseInnerPreserves ==
  ASSUME MutexInv, NEW t \in Threads, ReleaseInner(t)
  PROVE  MutexInv'
<1> USE MutexAssumption
    DEF ReleaseInner, CanCall, MutexInv, MutexTypes, Live, Blocking, Places, CondPC, Served, WaitStatus
<1>1. MutexTypes'
  OBVIOUS
<1>2. Live' => OccupiedIsCounted'
  BY DEF OccupiedIsCounted
<1>3. Live' => OwnerHolds'
  BY DEF OwnerHolds
<1>4. OneHolder'
  BY DEF OneHolder
<1>5. /\ (Live' => FreeIsIdle' /\ QueueHoldsWaiters')
      /\ WaitersBlock'
      /\ NothingHeldOfDeleted'
  BY DEF FreeIsIdle, QueueHoldsWaiters, WaitersBlock, NothingHeldOfDeleted
<1> QED BY <1>1, <1>2, <1>3, <1>4, <1>5

LEMMA ReleaseFreePreserves ==
  ASSUME MutexInv, NEW t \in Threads, ReleaseFree(t)
  PROVE  MutexInv'
<1> USE MutexAssumption
    DEF ReleaseFree, CanCall, WaitingNumLeft, MutexInv, MutexTypes, Live, Blocking, Places, CondPC, Served, WaitStatus
<1>1. MutexTypes'
  OBVIOUS
<1>2. Live' => FreeIsIdle'
  BY DEF FreeIsIdle, OccupiedIsCounted
<1>3. Live' => OccupiedIsCounted'
  BY DEF OccupiedIsCounted
<1>4. Live' => OwnerHolds'
  BY DEF OwnerHolds, OneHolder
<1>5. OneHolder'
  BY DEF OneHolder
<1>6. /\ (Live' => QueueHoldsWaiters')
      /\ WaitersBlock'
      /\ NothingHeldOfDeleted'
  BY DEF QueueHoldsWaiters, WaitersBlock, NothingHeldOfDeleted
<1> QED BY <1>1, <1>2, <1>3, <1>4, <1>5, <1>6

\* Both waits queue their caller the same way; they differ in where it goes on.
LEMMA EnqueuePreserves ==
  ASSUME MutexInv, NEW t \in Threads, NEW next \in {"infinite", "arm"},
         Enqueue(t, next)
  PROVE  MutexInv'
<1> USE MutexAssumption
    DEF Enqueue, CanCall, Queued, MutexInv, MutexTypes, Live, Blocking, Places, CondPC, Served, WaitStatus
<1>1. /\ lpWaitingQueue' \in Seq(Threads)
      /\ Len(lpWaitingQueue') <= Len(lpWaitingQueue) + 1
      /\ ~AllocMayFail => Len(lpWaitingQueue') = Len(lpWaitingQueue) + 1
      /\ \A i \in 1..Len(lpWaitingQueue') :
           lpWaitingQueue'[i] = IF i <= Len(lpWaitingQueue)
                                THEN lpWaitingQueue[i] ELSE t
  <2>1. CASE lpWaitingQueue' = Append(lpWaitingQueue, t)
    BY <2>1
  <2>2. CASE AllocMayFail /\ UNCHANGED lpWaitingQueue
    BY <2>2
  <2> QED BY <2>1, <2>2
<1>2. MutexTypes'
  <2>1. pc' \in [Threads -> Places]
    OBVIOUS
  <2> QED BY <1>1, <2>1
<1>3. Live' => FreeIsIdle' /\ OccupiedIsCounted'
  BY <1>1 DEF FreeIsIdle, OccupiedIsCounted
<1>4. Live' => OwnerHolds'
  BY DEF OwnerHolds, OccupiedIsCounted
<1>5. Live' => QueueHoldsWaiters'
  <2>1. QueueHoldsWaiters /\ \A i \in 1..Len(lpWaitingQueue) : lpWaitingQueue[i] # t
    BY DEF QueueHoldsWaiters
  <2>2. \A i \in 1..Len(lpWaitingQueue') :
          LET u == lpWaitingQueue'[i] IN
            pc'[u] \in Blocking /\ dwWaitingStatus'[u] = "WAITING"
    BY <1>1, <2>1 DEF QueueHoldsWaiters
  <2>3. \A i, j \in 1..Len(lpWaitingQueue') :
          lpWaitingQueue'[i] = lpWaitingQueue'[j] => i = j
    <3> TAKE i, j \in 1..Len(lpWaitingQueue')
    <3>1. Len(lpWaitingQueue) \in Nat /\ Len(lpWaitingQueue') \in Nat
      BY <1>1
    <3>2. CASE i <= Len(lpWaitingQueue) /\ j <= Len(lpWaitingQueue)
      BY <1>1, <2>1, <3>1, <3>2 DEF QueueHoldsWaiters
    <3>3. ASSUME NEW m \in 1..Len(lpWaitingQueue'), m <= Len(lpWaitingQueue)
          PROVE  lpWaitingQueue'[m] # t
      <4>1. m \in 1..Len(lpWaitingQueue)
        BY <3>1, <3>3
      <4>2. lpWaitingQueue'[m] = lpWaitingQueue[m]
        BY <1>1, <3>3
      <4> QED BY <2>1, <4>1, <4>2
    <3>4. ASSUME NEW m \in 1..Len(lpWaitingQueue'), ~(m <= Len(lpWaitingQueue))
          PROVE  lpWaitingQueue'[m] = t /\ m = Len(lpWaitingQueue) + 1
      BY <1>1, <3>1, <3>4
    <3> QED BY <3>2, <3>3, <3>4
  <2> QED BY <2>2, <2>3 DEF QueueHoldsWaiters
<1>6. WaitersBlock'
  BY DEF WaitersBlock
<1>7. NothingHeldOfDeleted' /\ OneHolder'
  BY DEF NothingHeldOfDeleted, OneHolder
<1> QED BY <1>2, <1>3, <1>4, <1>5, <1>6, <1>7

LEMMA WaitingTimerHandlerPreserves ==
  ASSUME MutexInv, TimerWithinCall, NEW t \in Threads, WaitingTimerHandler(t)
  PROVE  MutexInv'
<1> USE MutexAssumption DEF WaitingTimerHandler, MutexInv, Live
<1>1. CASE ~Expires(t)
  <2> USE <1>1 DEF MutexTypes, Blocking, Places, CondPC, Served, WaitStatus
  <2>1. MutexTypes'
    OBVIOUS
  <2>2. Live' => FreeIsIdle' /\ OccupiedIsCounted' /\ OwnerHolds' /\ QueueHoldsWaiters'
    BY DEF FreeIsIdle, OccupiedIsCounted, OwnerHolds, QueueHoldsWaiters
  <2>3. WaitersBlock' /\ NothingHeldOfDeleted' /\ OneHolder'
    BY DEF WaitersBlock, NothingHeldOfDeleted, OneHolder
  <2> QED BY <2>1, <2>2, <2>3
<1>2. CASE Expires(t)
  <2>1. lpWaitingQueue \in Seq(Threads) /\ ObjectInQueue(lpWaitingQueue, t)
    BY <1>2 DEF Expires, MutexTypes
  <2>2. PICK k \in 1..Len(lpWaitingQueue) :
          /\ lpWaitingQueue[k] = t
          /\ lpWaitingQueue' = [i \in 1..(Len(lpWaitingQueue) - 1) |->
               IF i < k THEN lpWaitingQueue[i] ELSE lpWaitingQueue[i + 1]]
    BY <1>2, <2>1, DeleteFromQueueFact
  <2>3. lpWaitingQueue' \in Seq(Threads) /\ Len(lpWaitingQueue') = Len(lpWaitingQueue) - 1
    BY <2>1, <2>2
  <2>4. alive /\ ~panic /\ alive' /\ ~panic' /\ dwMutexStatus = "OCCUPIED"
    BY <1>2, <2>2 DEF MutexTypes, NothingHeldOfDeleted, FreeIsIdle
  <2>5. pc[t] = "timed" /\ dwWaitingStatus[t] = "WAITING"
    BY <1>2 DEF Expires, MutexTypes, WaitersBlock, TimerWithinCall
  <2> USE <1>2, <2>3, <2>4, <2>5 DEF WaitingNumAfterTimeOut, Blocking, Places, CondPC, Served, WaitStatus
  <2>6. MutexTypes'
    <3>1. dwWaitingNum' \in Nat
      BY <2>1 DEF MutexTypes, OccupiedIsCounted
    <3> QED BY <3>1 DEF MutexTypes
  <2>7. FreeIsIdle' /\ OccupiedIsCounted'
    <3>1. Len(lpWaitingQueue) \in Nat /\ dwWaitingNum \in Nat
      BY <2>1 DEF MutexTypes
    <3> QED BY <3>1 DEF FreeIsIdle, OccupiedIsCounted
  <2>8. OwnerHolds'
    BY DEF MutexTypes, OwnerHolds
  <2>9. QueueHoldsWaiters'
    <3>1. \A i \in 1..Len(lpWaitingQueue') : \E j \in 1..Len(lpWaitingQueue) :
            /\ lpWaitingQueue'[i] = lpWaitingQueue[j]
            /\ j # k
            /\ j = IF i < k THEN i ELSE i + 1
      BY <2>1, <2>2
    <3>2. \A i \in 1..Len(lpWaitingQueue') : lpWaitingQueue'[i] # t
      BY <3>1, <2>2 DEF QueueHoldsWaiters
    <3>3. \A i, j \in 1..Len(lpWaitingQueue') :
            lpWaitingQueue'[i] = lpWaitingQueue'[j] => i = j
      BY <2>2, <3>1 DEF QueueHoldsWaiters
    <3>4. \A i \in 1..Len(lpWaitingQueue') :
            LET u == lpWaitingQueue'[i] IN
              pc'[u] \in Blocking /\ dwWaitingStatus'[u] = "WAITING"
      <4> TAKE i \in 1..Len(lpWaitingQueue')
      <4>1. /\ lpWaitingQueue'[i] \in Threads
            /\ pc[lpWaitingQueue'[i]] \in Blocking
            /\ dwWaitingStatus[lpWaitingQueue'[i]] = "WAITING"
        BY <2>1, <3>1 DEF QueueHoldsWaiters
      <4>2. lpWaitingQueue'[i] # t
        BY <3>2
      <4> QED BY <4>1, <4>2 DEF MutexTypes
    <3> QED BY <3>3, <3>4 DEF QueueHoldsWaiters
  <2>10. WaitersBlock'
    BY DEF MutexTypes, WaitersBlock
  <2>11. NothingHeldOfDeleted' /\ OneHolder'
    BY DEF MutexTypes, NothingHeldOfDeleted, OneHolder
  <2> QED BY <2>6, <2>7, <2>8, <2>9, <2>10, <2>11
<1> QED BY <1>1, <1>2

LEMMA ReleaseHandOffPreserves ==
  ASSUME MutexInv, NEW t \in Threads, ReleaseHandOff(t)
  PROVE  MutexInv'
<1> USE MutexAssumption DEF ReleaseHandOff, CanCall, MutexInv, Live, WaitStatus
<1>1. CASE lpWaitingQueue = <<>>
  BY <1>1 DEF MutexTypes, WaitingNumLeft, WaitersBlock, NothingHeldOfDeleted,
              OneHolder, Blocking
<1>2. CASE lpWaitingQueue # <<>>
  <2> DEFINE next == lpWaitingQueue[1]
  <2>1. /\ lpWaitingQueue \in Seq(Threads) /\ Len(lpWaitingQueue) > 0
        /\ next = HeaderElement(lpWaitingQueue)
        /\ lpWaitingQueue' \in Seq(Threads)
        /\ Len(lpWaitingQueue') = Len(lpWaitingQueue) - 1
        /\ \A i \in 1..Len(lpWaitingQueue') : lpWaitingQueue'[i] = lpWaitingQueue[i + 1]
    <3>1. lpWaitingQueue \in Seq(Threads)
      BY DEF MutexTypes
    <3>2. lpWaitingQueue' = Tail(lpWaitingQueue)
      BY <1>2 DEF WithoutHeader
    <3> QED BY <1>2, <3>1, <3>2 DEF HeaderElement
  <2>2. /\ lpCurrentOwner' = next /\ nCurrOwnCount' = 1
        /\ dwThreadStatus' = [dwThreadStatus EXCEPT ![next] = "READY"]
        /\ dwWaitingStatus' = [dwWaitingStatus EXCEPT ![next] = "RESOURCE"]
    BY <1>2, <2>1
  <2>3. /\ next \in Threads /\ pc[next] \in Blocking
        /\ dwWaitingStatus[next] = "WAITING"
        /\ \A i \in 1..Len(lpWaitingQueue') : lpWaitingQueue'[i] # next
    BY <2>1 DEF QueueHoldsWaiters
  <2> HIDE DEF next
  <2>4. next # t /\ held[next] = 0
    BY <2>3 DEF MutexTypes, OwnerHolds, Blocking
  <2> USE <1>2, <2>1, <2>2, <2>3, <2>4 DEF Blocking, Places, CondPC, Served
  <2>5. MutexTypes'
    BY DEF MutexTypes, WaitingNumLeft
  <2>6. FreeIsIdle' /\ OccupiedIsCounted'
    BY DEF MutexTypes, FreeIsIdle, OccupiedIsCounted, WaitingNumLeft
  <2>7. OwnerHolds'
    BY DEF MutexTypes, OwnerHolds
  <2>8. QueueHoldsWaiters'
    <3>1. \A i \in 1..Len(lpWaitingQueue') :
            /\ lpWaitingQueue'[i] \in Threads
            /\ pc[lpWaitingQueue'[i]] \in Blocking
            /\ dwWaitingStatus[lpWaitingQueue'[i]] = "WAITING"
      <4> TAKE i \in 1..Len(lpWaitingQueue')
      <4>1. i + 1 \in 1..Len(lpWaitingQueue) /\ lpWaitingQueue'[i] = lpWaitingQueue[i + 1]
        OBVIOUS
      <4> QED BY <4>1 DEF QueueHoldsWaiters
    <3>2. \A i \in 1..Len(lpWaitingQueue') :
            dwWaitingStatus'[lpWaitingQueue'[i]] = "WAITING"
      BY <3>1 DEF MutexTypes
    <3>3. \A i, j \in 1..Len(lpWaitingQueue') :
            lpWaitingQueue'[i] = lpWaitingQueue'[j] => i = j
      BY DEF QueueHoldsWaiters
    <3> QED BY <3>1, <3>2, <3>3 DEF QueueHoldsWaiters
  <2>9. WaitersBlock' /\ NothingHeldOfDeleted' /\ OneHolder'
    BY DEF MutexTypes, WaitersBlock, NothingHeldOfDeleted, OneHolder
  <2> QED BY <2>5, <2>6, <2>7, <2>8, <2>9
<1> QED BY <1>1, <1>2

LEMMA MutexUninitializePreserves ==
  ASSUME MutexInv, MutexUninitialize
  PROVE  MutexInv'
<1> USE DEF MutexUninitialize, AllQueued, MutexInv, Live
<1>1. MutexTypes'
  <2>1. lpWaitingQueue' \in Seq(Threads) /\ held' \in [Threads -> 0..MaxOwn]
    BY MutexAssumption
  <2> QED BY <2>1 DEF MutexTypes, WaitStatus
<1>2. \A t \in Threads : t \in ToSet(lpWaitingQueue) =>
        pc[t] \in Blocking /\ dwWaitingStatus[t] = "WAITING"
  <2>1. lpWaitingQueue \in Seq(Threads) /\ QueueHoldsWaiters
    BY DEF MutexTypes
  <2>2. \A t : t \in ToSet(lpWaitingQueue)
                => \E i \in 1..Len(lpWaitingQueue) : lpWaitingQueue[i] = t
    BY <2>1 DEF ToSet
  <2> QED BY <2>1, <2>2 DEF QueueHoldsWaiters
<1>3. WaitersBlock'
  BY <1>2 DEF MutexTypes, WaitersBlock, Blocking, Places, CondPC
<1>4. NothingHeldOfDeleted' /\ OneHolder'
  BY DEF NothingHeldOfDeleted, OneHolder
<1> QED BY <1>1, <1>3, <1>4

LEMMA MutexInitializePreserves ==
  ASSUME MutexInv, MutexInitialize
  PROVE  MutexInv'
<1> USE MutexAssumption DEF MutexInitialize, threadVars, MutexInv, Live
<1>1. MutexTypes'
  BY DEF MutexTypes
<1>2. FreeIsIdle' /\ OccupiedIsCounted' /\ QueueHoldsWaiters'
  BY DEF FreeIsIdle, OccupiedIsCounted, QueueHoldsWaiters
<1>3. OwnerHolds'
  BY DEF OwnerHolds, NothingHeldOfDeleted, Served, Blocking
<1>4. WaitersBlock' /\ NothingHeldOfDeleted' /\ OneHolder'
  BY DEF WaitersBlock, NothingHeldOfDeleted, OneHolder
<1> QED BY <1>1, <1>2, <1>3, <1>4

\* A thread of the mutex is in a call of the mutex, and its timer within the call.
LEMMA PlacesPreserved ==
  ASSUME IInv, [Next]_vars
  PROVE  pc' \in [Threads -> {"run", "cancel"} \union Blocking] /\ TimerWithinCall'
<1> DEFINE Inside == pc \in [Threads -> {"run", "cancel"} \union Blocking] /\ TimerWithinCall
<1> USE DEF IInv, TypeOK, TimerWithinCall, Blocking
<1>1. ASSUME \/ UNCHANGED vars \/ MutexUninitialize \/ MutexInitialize
             \/ \E t \in Threads :
                  \/ TakeFree(t) \/ TakeAgain(t) \/ TryFails(t)
                  \/ ReleaseInner(t) \/ ReleaseFree(t) \/ ReleaseHandOff(t)
      PROVE  Inside'
  <2>1. UNCHANGED <<pc, timer>>
    BY <1>1 DEF TakeFree, TakeAgain, TryFails, ReleaseInner, ReleaseFree, ReleaseHandOff,
                MutexUninitialize, MutexInitialize, vars, threadVars
  <2> QED BY <2>1
<1>2. ASSUME NEW t \in Threads, NEW next \in {"infinite", "arm"}, Enqueue(t, next)
      PROVE  Inside'
  BY <1>2 DEF Enqueue, CanCall
<1>3. ASSUME NEW t \in Threads, SetTimer(t)
      PROVE  Inside'
  BY <1>3 DEF SetTimer, NewTimer
<1>4. ASSUME NEW t \in Threads, WaitingTimerHandler(t)
      PROVE  Inside'
  BY <1>4 DEF WaitingTimerHandler
<1>5. ASSUME NEW t \in Threads, WokenUp(t)
      PROVE  Inside'
  BY <1>5 DEF WokenUp
<1>6. ASSUME NEW t \in Threads, WokenUpTimed(t)
      PROVE  Inside'
  BY <1>6 DEF WokenUpTimed
<1>7. ASSUME NEW t \in Threads, CancelTimer(t)
      PROVE  Inside'
  BY <1>7 DEF CancelTimer, Cancelled
<1> HIDE DEF IInv, TypeOK, TimerWithinCall, Blocking
<1> QED
  BY <1>1, <1>2, <1>3, <1>4, <1>5, <1>6, <1>7
  DEF Next, WaitForMutexObject, WaitForMutexObjectEx

LEMMA NextPreserves ==
  ASSUME IInv, [Next]_vars
  PROVE  IInv'
<1>1. CASE UNCHANGED vars
  BY <1>1 DEF vars, mutexVars, threadVars, IInv, MutexInv, MutexTypes, TypeOK, Live,
              FreeIsIdle, OccupiedIsCounted, OwnerHolds, QueueHoldsWaiters,
              WaitersBlock, NothingHeldOfDeleted, OneHolder, TimerWithinCall, Served
<1>2. ASSUME NEW t \in Threads,
             \/ TakeFree(t) \/ TakeAgain(t) \/ TryFails(t)
             \/ WaitForMutexObject(t) \/ WaitForMutexObjectEx(t)
             \/ SetTimer(t) \/ WaitingTimerHandler(t)
             \/ WokenUp(t) \/ WokenUpTimed(t) \/ CancelTimer(t)
             \/ ReleaseInner(t) \/ ReleaseFree(t) \/ ReleaseHandOff(t)
      PROVE  MutexInv'
  BY <1>2, TakeFreePreserves, TakeAgainPreserves, TryFailsPreserves,
     EnqueuePreserves, SetTimerPreserves, WaitingTimerHandlerPreserves,
     WokenUpPreserves, WokenUpTimedPreserves, CancelTimerPreserves,
     ReleaseInnerPreserves, ReleaseFreePreserves, ReleaseHandOffPreserves
  DEF WaitForMutexObject, WaitForMutexObjectEx, IInv
<1>3. CASE MutexUninitialize \/ MutexInitialize
  <2>1. MutexInv'
    BY <1>3, MutexUninitializePreserves, MutexInitializePreserves DEF IInv
  <2> QED BY <2>1, <1>3, PlacesPreserved DEF Next, IInv, TypeOK, MutexInv, MutexTypes
<1>4. ASSUME MutexInv'
      PROVE  IInv'
  BY <1>4, PlacesPreserved DEF IInv, MutexInv, MutexTypes, TypeOK
<1> QED BY <1>1, <1>2, <1>3, <1>4 DEF Next

-----------------------------------------------------------------------------
(* What follows from it.                                                    *)

\* The inductive invariant holds of every behaviour of the mutex.
THEOREM Invariance == Spec => []IInv
<1>1. Init => IInv
  BY InitMutexInv
  DEF Init, IInv, MutexInv, MutexTypes, TypeOK, TimerWithinCall, Blocking
<1>2. IInv /\ [Next]_vars => IInv'
  BY NextPreserves
<1> QED BY <1>1, <1>2, PTL DEF Spec

\* Every variable keeps its type, in particular dwWaitingNum never goes below
\* zero and the recursion count never exceeds its bound.
THEOREM TypeCorrect == Spec => []TypeOK
<1>1. IInv => TypeOK
  BY DEF IInv
<1> QED BY <1>1, Invariance, PTL

\* At most one thread holds the mutex, and it is the recorded owner: for any
\* number of threads, hand-offs racing timeouts, destruction and allocation
\* failures included.  The BUG_ON of ReleaseMutex is therefore unreachable.
THEOREM MutexExcludes == Spec => []MutualExclusion
<1>1. IInv => MutualExclusion
  BY DEF IInv, MutexInv, Live, OwnerHolds, OneHolder, MutualExclusion
<1> QED BY <1>1, Invariance, PTL

\* A hand-off always reaches a thread that will return with the mutex.
THEOREM HandOffReaches == Spec => []NoLostHandOff
<1>1. IInv => NoLostHandOff
  BY DEF IInv, MutexInv, Live, OccupiedIsCounted, OwnerHolds, NoLostHandOff
<1> QED BY <1>1, Invariance, PTL

\* No timer outlives the stack frame its handler parameter lives in.
THEOREM TimersStayWithinCalls == Spec => []TimerWithinCall
<1>1. IInv => TimerWithinCall
  BY DEF IInv
<1> QED BY <1>1, Invariance, PTL

\* As long as allocations succeed, dwWaitingNum is exactly the owner plus the
\* queued threads.
THEOREM CountIsExact == ASSUME ~AllocMayFail PROVE Spec => []WaitingNumCounts
<1>1. IInv => WaitingNumCounts
  BY MutexAssumption DEF IInv, MutexInv, TypeOK, Live, FreeIsIdle, OccupiedIsCounted, WaitingNumCounts
<1> QED BY <1>1, Invariance, PTL

-----------------------------------------------------------------------------
(* No BUG or BUG_ON is reached.  This needs one more part, which is not a    *)
(* consequence of IInv: a timer that has not fired cannot find its own       *)
(* time-out, since nobody but its handler reports one.                       *)

ArmedIsNotTimedOut ==
  \A t \in Threads : timer[t] = "armed" => dwWaitingStatus[t] # "TIMEOUT"

LEMMA InitArmed == Init => ArmedIsNotTimedOut
BY DEF Init, ArmedIsNotTimedOut

LEMMA ArmedPreserved ==
  ASSUME IInv, ArmedIsNotTimedOut, [Next]_vars
  PROVE  ArmedIsNotTimedOut'
<1> USE DEF IInv, MutexInv, TypeOK, ArmedIsNotTimedOut
<1>1. ASSUME NEW t \in Threads,
             \/ TakeFree(t) \/ TakeAgain(t) \/ TryFails(t) \/ WokenUp(t)
             \/ WokenUpTimed(t) \/ CancelTimer(t) \/ ReleaseInner(t) \/ ReleaseFree(t)
      PROVE  ArmedIsNotTimedOut'
  <2>1. UNCHANGED dwWaitingStatus /\ (UNCHANGED timer \/ timer' = [timer EXCEPT ![t] = "none"])
    BY <1>1 DEF TakeFree, TakeAgain, TryFails, WokenUp, WokenUpTimed, CancelTimer,
                Cancelled, ReleaseInner, ReleaseFree, mutexVars
  <2> QED BY <2>1
<1>2. ASSUME NEW t \in Threads, NEW next, Enqueue(t, next)
      PROVE  ArmedIsNotTimedOut'
  BY <1>2 DEF Enqueue
<1>3. ASSUME NEW t \in Threads, SetTimer(t)
      PROVE  ArmedIsNotTimedOut'
  BY <1>3 DEF SetTimer, NewTimer, mutexVars, WaitersBlock
<1>4. ASSUME NEW t \in Threads, WaitingTimerHandler(t)
      PROVE  ArmedIsNotTimedOut'
  BY <1>4 DEF WaitingTimerHandler
<1>5. ASSUME NEW t \in Threads, ReleaseHandOff(t)
      PROVE  ArmedIsNotTimedOut'
  BY <1>5 DEF ReleaseHandOff
<1>6. CASE MutexUninitialize
  BY <1>6 DEF MutexUninitialize
<1>7. CASE MutexInitialize
  BY <1>7 DEF MutexInitialize, threadVars
<1>8. CASE UNCHANGED vars
  BY <1>8 DEF vars, threadVars
<1> QED
  BY <1>1, <1>2, <1>3, <1>4, <1>5, <1>6, <1>7, <1>8
  DEF Next, WaitForMutexObject, WaitForMutexObjectEx

\* The four places that stop the machine: no memory for a timer, a waiter that
\* runs while it waits, a timer handler that finds a time-out it did not report,
\* a count of waiters without a waiter.
LEMMA StepDoesNotPanic ==
  ASSUME ~AllocMayFail, IInv, ArmedIsNotTimedOut, ~panic, [Next]_vars
  PROVE  ~panic'
<1> USE DEF IInv, MutexInv
<1>1. ASSUME NEW t \in Threads, SetTimer(t)
      PROVE  ~panic'
  BY <1>1 DEF SetTimer
<1>2. ASSUME NEW t \in Threads, WaitingTimerHandler(t)
      PROVE  ~panic'
  BY <1>2 DEF WaitingTimerHandler, ArmedIsNotTimedOut, TypeOK
<1>3. ASSUME NEW t \in Threads, WokenUpTimed(t)
      PROVE  ~panic'
  BY <1>3 DEF WokenUpTimed, WaitersBlock, Blocking
<1>4. ASSUME NEW t \in Threads, ReleaseHandOff(t)
      PROVE  ~panic'
  BY <1>4, MutexAssumption
  DEF ReleaseHandOff, CanCall, WaitingNumLeft, Live, FreeIsIdle, OccupiedIsCounted, TypeOK
<1>5. ASSUME NEW t \in Threads,
             \/ TakeFree(t) \/ TakeAgain(t) \/ TryFails(t)
             \/ WaitForMutexObject(t) \/ WaitForMutexObjectEx(t)
             \/ WokenUp(t) \/ CancelTimer(t) \/ ReleaseInner(t) \/ ReleaseFree(t)
      PROVE  ~panic'
  BY <1>5 DEF TakeFree, TakeAgain, TryFails, WaitForMutexObject, WaitForMutexObjectEx,
              Enqueue, WokenUp, CancelTimer, ReleaseInner, ReleaseFree
<1>6. CASE MutexUninitialize \/ MutexInitialize \/ UNCHANGED vars
  BY <1>6 DEF MutexUninitialize, MutexInitialize, vars
<1> QED BY <1>1, <1>2, <1>3, <1>4, <1>5, <1>6 DEF Next

\* As long as allocations succeed no BUG or BUG_ON is reached, by any number of
\* threads in any order of calls, time-outs, hand-offs and destructions.
THEOREM NoBugIsReached == ASSUME ~AllocMayFail PROVE Spec => []NoPanic
<1>1. Init => ArmedIsNotTimedOut /\ NoPanic
  BY InitArmed DEF Init, NoPanic
<1>2. IInv /\ ArmedIsNotTimedOut /\ NoPanic /\ [Next]_vars
        => (ArmedIsNotTimedOut /\ NoPanic)'
  BY ArmedPreserved, StepDoesNotPanic DEF NoPanic
<1> QED BY <1>1, <1>2, Invariance, PTL DEF Spec

-----------------------------------------------------------------------------
(* The mutex implements the hand-off lock.                                  *)

LEMMA InitRefines == Init => Lock!Init
  BY DEF Init, InitializedMutex, Lock!Init

\* The instance has its own copies of the sequence operators; they agree.
LEMMA SameOperators ==
  ASSUME NEW q, NEW x
  PROVE  /\ Lock!Contains(q, x) <=> Contains(q, x)
         /\ Lock!RemoveFirst(q, x) = RemoveFirst(q, x)
  BY Zenon DEF Lock!Contains, Contains, Lock!RemoveFirst, RemoveFirst,
     Lock!RemoveAt, RemoveAt, Lock!SelectInSeq, SelectInSeq, Lock!Min, Min

\* A release that decides by the counter does what one that looked at the line
\* would do, because the count is exact.
LEMMA ClientStepRefines ==
  ASSUME ~AllocMayFail, MutexInv, NEW t \in Threads,
         \/ TakeFree(t) \/ TakeAgain(t)
         \/ WaitForMutexObject(t) \/ WaitForMutexObjectEx(t) \/ WokenUp(t)
         \/ ReleaseInner(t) \/ ReleaseFree(t) \/ ReleaseHandOff(t)
  PROVE  [Lock!Next]_(Lock!lockVars)
<1> USE MutexAssumption DEF MutexInv, Live, Lock!lockVars, CanCall
<1>1. CASE TakeFree(t)
  <2>1. Lock!Acquire(t)
    BY <1>1 DEF TakeFree, Lock!Acquire, FreeIsIdle
  <2> QED BY <2>1 DEF Lock!Next
<1>2. CASE TakeAgain(t)
  <2>1. Lock!Reacquire(t)
    BY <1>2 DEF TakeAgain, Lock!Reacquire
  <2> QED BY <2>1 DEF Lock!Next
<1>3. ASSUME NEW next \in {"infinite", "arm"}, Enqueue(t, next)
      PROVE  [Lock!Next]_(Lock!lockVars)
  <2>1. ~Contains(lpWaitingQueue, t)
    BY <1>3 DEF Enqueue, QueueHoldsWaiters, Contains, Blocking
  <2>2. lpWaitingQueue' = Append(lpWaitingQueue, t)
    BY <1>3 DEF Enqueue, Queued
  <2>3. lpCurrentOwner \notin {NoThread, t}
    BY <1>3 DEF Enqueue, OccupiedIsCounted
  <2>4. alive /\ UNCHANGED <<alive, lpCurrentOwner, nCurrOwnCount>>
    BY <1>3 DEF Enqueue
  <2>5. Lock!JoinLine(t)
    BY <2>1, <2>2, <2>3, <2>4, SameOperators DEF Lock!JoinLine
  <2> QED BY <2>5 DEF Lock!Next
<1>4. CASE ReleaseInner(t)
  <2>1. Lock!Release(t)
    BY <1>4 DEF ReleaseInner, Lock!Release
  <2> QED BY <2>1 DEF Lock!Next
<1>5. CASE ReleaseFree(t)
  <2>1. lpWaitingQueue = <<>>
    BY <1>5 DEF ReleaseFree, WaitingNumLeft, MutexTypes, FreeIsIdle, OccupiedIsCounted
  <2>2. Lock!Release(t)
    BY <1>5, <2>1 DEF ReleaseFree, Lock!Release
  <2> QED BY <2>2 DEF Lock!Next
<1>6. CASE ReleaseHandOff(t)
  <2>1. lpWaitingQueue # <<>>
    BY <1>6 DEF ReleaseHandOff, WaitingNumLeft, MutexTypes, FreeIsIdle, OccupiedIsCounted
  <2>2. Lock!Release(t)
    BY <1>6, <2>1 DEF ReleaseHandOff, HeaderElement, WithoutHeader, Lock!Release
  <2> QED BY <2>2 DEF Lock!Next
<1>7. CASE WokenUp(t)
  BY <1>7 DEF WokenUp, mutexVars
<1> QED
  BY <1>1, <1>2, <1>3, <1>4, <1>5, <1>6, <1>7 DEF WaitForMutexObject, WaitForMutexObjectEx

LEMMA StepRefines ==
  ASSUME ~AllocMayFail, IInv, [Next]_vars
  PROVE  [Lock!Next]_(Lock!lockVars)
<1> USE DEF Lock!lockVars
<1>1. ASSUME NEW t \in Threads, WaitingTimerHandler(t)
      PROVE  Lock!LeaveLine(t) \/ UNCHANGED Lock!lockVars
  <2>1. UNCHANGED <<alive, lpCurrentOwner, nCurrOwnCount>>
    BY <1>1 DEF WaitingTimerHandler
  <2>2. CASE Expires(t)
    <3>1. Contains(lpWaitingQueue, t)
      BY <2>2 DEF Expires, ObjectInQueue
    <3>2. lpWaitingQueue' = RemoveFirst(lpWaitingQueue, t)
      BY <1>1, <2>2 DEF WaitingTimerHandler, DeleteFromQueue
    <3> QED BY <2>1, <3>1, <3>2, SameOperators DEF Lock!LeaveLine
  <2>3. CASE ~Expires(t)
    BY <1>1, <2>1, <2>3 DEF WaitingTimerHandler
  <2> QED BY <2>2, <2>3
<1>2. ASSUME NEW t \in Threads,
             TryFails(t) \/ SetTimer(t) \/ WokenUpTimed(t) \/ CancelTimer(t)
      PROVE  UNCHANGED Lock!lockVars
  BY <1>2 DEF TryFails, SetTimer, WokenUpTimed, CancelTimer, mutexVars
<1>3. ASSUME MutexUninitialize \/ MutexInitialize
      PROVE  Lock!Reset
  BY <1>3 DEF MutexUninitialize, MutexInitialize, Lock!Reset
<1>4. CASE UNCHANGED vars
  BY <1>4 DEF vars, mutexVars
<1> HIDE DEF Lock!lockVars
<1> QED BY <1>1, <1>2, <1>3, <1>4, ClientStepRefines DEF Next, Lock!Next, IInv

\* As long as allocations succeed every behaviour of the mutex is one of a lock
\* that serves its line in order and never lets anybody jump it.
THEOREM MutexIsHandOffLock ==
  ASSUME ~AllocMayFail PROVE Spec => ImplementsHandOffLock
<1>1. Init => Lock!Init
  BY InitRefines
<1>2. IInv /\ [Next]_vars => [Lock!Next]_(Lock!lockVars)
  BY StepRefines
<1> QED BY <1>1, <1>2, Invariance, PTL DEF Spec, Lock!Spec, ImplementsHandOffLock

-----------------------------------------------------------------------------
(* The condition.  Its own state, on top of the invariant of the mutex; the *)
(* mutex exists and the machine runs all the time.                          *)

CondTypes ==
  /\ condAlive \in BOOLEAN
  /\ nThreadNum \in Nat
  /\ lpPendingQueue \in Seq(Threads) /\ IsInjective(lpPendingQueue)
  /\ condCall \in [Threads -> {"none", "CondWait", "CondWaitTimeout"}]
  /\ condResult \in [Threads -> WaitStatus]
  /\ signalled \subseteq Threads

TimedPC == {"condArm", "condTimed", "condCancel"}

\* Where a thread may be in which call; the mutex is never destroyed under it.
CallsHavePlaces ==
  \A t \in Threads :
    /\ pc[t] \in {"run", "infinite"} \union CondPC
    /\ pc[t] = "condWait" => condCall[t] = "CondWait"
    /\ pc[t] \in TimedPC => condCall[t] = "CondWaitTimeout"
    /\ pc[t] = "infinite" => dwWaitingStatus[t] # "DELETED"

\* A thread sleeps in the condition exactly as long as it has no reason to wake.
SleepersWait ==
  \A t \in Threads :
    /\ pc[t] \in CondPC =>
         (dwThreadStatus[t] = "BLOCKED" <=> dwWaitingStatus[t] = "WAITING")
    /\ pc[t] = "condCancel" => dwThreadStatus[t] = "READY"

\* The count is the queue and the queue is the sleepers.
QueueIsSleepers ==
  /\ nThreadNum = Len(lpPendingQueue)
  /\ \A t \in Threads : ObjectInQueue(lpPendingQueue, t) <=> t \in Waiters

\* A signal is spent on a timed wait exactly if that is what woke it, until the
\* call returns.
SignalsAreReasons ==
  \A t \in Threads :
    /\ condCall[t] = "none" => t \notin signalled
    /\ pc[t] \in TimedPC => (t \in signalled <=> dwWaitingStatus[t] = "RESOURCE")
    /\ pc[t] \notin CondPC /\ condCall[t] = "CondWaitTimeout" =>
         /\ t \in signalled <=> condResult[t] = "RESOURCE"
         /\ condResult[t] # "WAITING"

CondIInv ==
  /\ alive /\ ~panic
  /\ MutexInv
  /\ CondTypes
  /\ CallsHavePlaces
  /\ SleepersWait
  /\ QueueIsSleepers
  /\ SignalsAreReasons

\* A step of the mutex by a thread that runs it as a client or on its way back.
MutexStep(t) ==
  \/ TakeFree(t) \/ TakeAgain(t) \/ WaitForMutexObject(t) \/ WokenUp(t)
  \/ ReleaseInner(t) \/ ReleaseFree(t) \/ ReleaseHandOff(t)

\* Such a step keeps the mutex as it should be and does not touch a thread that
\* sleeps in the condition or was woken there: a hand-off goes to a thread in the
\* queue of the mutex.
LEMMA MutexStepFrame ==
  ASSUME ~AllocMayFail, CondIInv, NEW t \in Threads, MutexStep(t)
  PROVE  /\ MutexInv' /\ alive' /\ ~panic'
         /\ pc[t] \in {"run", "infinite"} /\ pc'[t] \in {"run", "infinite"}
         /\ \A u \in Threads \ {t} : pc'[u] = pc[u]
         /\ \A u \in Threads : pc[u] \in CondPC =>
              /\ dwThreadStatus'[u] = dwThreadStatus[u]
              /\ dwWaitingStatus'[u] = dwWaitingStatus[u]
         /\ \A u \in Threads : pc'[u] = "infinite" => dwWaitingStatus'[u] # "DELETED"
<1> USE DEF CondIInv
<1>1. MutexInv'
  BY TakeFreePreserves, TakeAgainPreserves, EnqueuePreserves, WokenUpPreserves,
     ReleaseInnerPreserves, ReleaseFreePreserves, ReleaseHandOffPreserves
  DEF MutexStep, WaitForMutexObject
<1>2. /\ dwThreadStatus \in [Threads -> {"READY", "BLOCKED"}]
      /\ dwWaitingStatus \in [Threads -> WaitStatus] /\ pc \in [Threads -> Places]
  BY DEF MutexInv, MutexTypes
<1>3. CASE TakeFree(t) \/ TakeAgain(t) \/ ReleaseInner(t) \/ ReleaseFree(t)
  <2>1. /\ UNCHANGED <<alive, panic, pc, dwThreadStatus, dwWaitingStatus>>
        /\ pc[t] = "run"
    BY <1>3 DEF TakeFree, TakeAgain, ReleaseInner, ReleaseFree, CanCall
  <2> QED BY <1>1, <2>1 DEF CallsHavePlaces
<1>4. CASE WokenUp(t)
  <2>1. /\ UNCHANGED <<alive, panic, dwThreadStatus, dwWaitingStatus>>
        /\ pc[t] = "infinite" /\ pc' = [pc EXCEPT ![t] = "run"]
    BY <1>4 DEF WokenUp, mutexVars
  <2> QED BY <1>1, <1>2, <2>1 DEF CallsHavePlaces
<1>5. CASE WaitForMutexObject(t)
  <2>1. /\ UNCHANGED <<alive, panic>>
        /\ dwWaitingStatus' = [dwWaitingStatus EXCEPT ![t] = "WAITING"]
        /\ dwThreadStatus' = [dwThreadStatus EXCEPT ![t] = "BLOCKED"]
        /\ pc[t] = "run" /\ pc' = [pc EXCEPT ![t] = "infinite"]
    BY <1>5 DEF WaitForMutexObject, Enqueue, CanCall
  <2> QED BY <1>1, <1>2, <2>1 DEF CallsHavePlaces, CondPC
<1>6. CASE ReleaseHandOff(t)
  <2>1. lpWaitingQueue # <<>>
    BY <1>6, MutexAssumption
    DEF ReleaseHandOff, CanCall, WaitingNumLeft, MutexInv, Live, FreeIsIdle,
        OccupiedIsCounted, MutexTypes
  <2> DEFINE next == HeaderElement(lpWaitingQueue)
  <2>2. /\ UNCHANGED <<alive, panic, pc>> /\ pc[t] = "run"
        /\ dwThreadStatus' = [dwThreadStatus EXCEPT ![next] = "READY"]
        /\ dwWaitingStatus' = [dwWaitingStatus EXCEPT ![next] = "RESOURCE"]
    BY <1>6, <2>1 DEF ReleaseHandOff, CanCall
  <2>3. next \in Threads /\ pc[next] \in Blocking
    <3>1. lpWaitingQueue \in Seq(Threads) /\ 1 \in 1..Len(lpWaitingQueue)
      BY <2>1 DEF MutexInv, MutexTypes
    <3>2. next = lpWaitingQueue[1]
      BY <3>1 DEF HeaderElement
    <3> QED BY <3>1, <3>2 DEF MutexInv, Live, QueueHoldsWaiters
  <2> HIDE DEF next
  <2> QED BY <1>1, <1>2, <2>2, <2>3 DEF CallsHavePlaces, CondPC, Blocking
<1> QED BY <1>3, <1>4, <1>5, <1>6 DEF MutexStep

\* What a step changes in threads that are in the condition does not concern the
\* mutex.
LEMMA CondStepFrame ==
  ASSUME MutexInv, MutexTypes', UNCHANGED <<mutexVars, held, panic>>,
         \A u \in Threads : pc[u] \notin CondPC =>
           /\ pc'[u] = pc[u]
           /\ dwThreadStatus'[u] = dwThreadStatus[u]
           /\ dwWaitingStatus'[u] = dwWaitingStatus[u],
         \A u \in Threads : pc[u] \in CondPC =>
           /\ pc'[u] \in CondPC \union {"run"}
           /\ pc'[u] = "run" => dwThreadStatus'[u] = "READY"
           /\ dwThreadStatus'[u] = "BLOCKED" => dwWaitingStatus'[u] = "WAITING"
  PROVE  MutexInv'
<1> USE DEF MutexInv, mutexVars, CondPC, Blocking
<1>1. \A u \in Threads : Served(u)' <=> Served(u)
  BY DEF Served
<1>2. Live' => Live /\ FreeIsIdle' /\ OccupiedIsCounted'
  BY DEF Live, FreeIsIdle, OccupiedIsCounted
<1>3. Live' => OwnerHolds'
  BY <1>1 DEF Live, OwnerHolds
<1>4. Live' => QueueHoldsWaiters'
  <2>1. \A i \in 1..Len(lpWaitingQueue) : lpWaitingQueue[i] \in Threads
    BY DEF MutexTypes
  <2> QED BY <2>1 DEF Live, QueueHoldsWaiters
<1>5. WaitersBlock'
  BY DEF WaitersBlock
<1>6. NothingHeldOfDeleted' /\ OneHolder'
  BY DEF NothingHeldOfDeleted, OneHolder
<1> QED BY <1>2, <1>3, <1>4, <1>5, <1>6

\* The mutex a waiter releases in its own call is released as by ReleaseMutex.
LEMMA EnterWaitReleases ==
  ASSUME ~AllocMayFail, CondIInv, NEW t \in Threads, NEW call, NEW next \in CondPC,
         EnterWait(t, call, next)
  PROVE  MutexInv'
<1> USE MutexAssumption DEF CondIInv, MutexInv
<1>1. /\ UNCHANGED <<alive, timer, result, panic>>
      /\ pc[t] = "run" /\ held[t] > 0 /\ lpCurrentOwner = t
      /\ held' = [held EXCEPT ![t] = @ - 1]
      /\ pc' = [pc EXCEPT ![t] = next]
  BY DEF EnterWait, CanCall
<1>2. Live /\ FreeIsIdle /\ OccupiedIsCounted /\ OwnerHolds /\ QueueHoldsWaiters
  BY DEF Live
<1>3. held[t] = nCurrOwnCount /\ nCurrOwnCount \in 1..MaxOwn /\ dwMutexStatus = "OCCUPIED"
      /\ dwWaitingNum = Len(lpWaitingQueue) + 1 /\ lpWaitingQueue \in Seq(Threads)
      /\ \A u \in Threads \ {t} : held[u] = 0
  BY <1>1, <1>2 DEF MutexTypes, OwnerHolds, FreeIsIdle, OccupiedIsCounted, OneHolder
<1>4. held' \in [Threads -> 0..MaxOwn] /\ pc' \in [Threads -> Places] /\ held'[t] = held[t] - 1
      /\ OneHolder'
  BY <1>1, <1>3 DEF MutexTypes, OneHolder, Places
<1>5. NothingHeldOfDeleted'
  BY <1>1 DEF NothingHeldOfDeleted
<1>6. CASE /\ nCurrOwnCount > 1 \/ WaitingNumLeft = 0
           /\ UNCHANGED lpWaitingQueue
           /\ dwThreadStatus' = [dwThreadStatus EXCEPT ![t] = "BLOCKED"]
           /\ dwWaitingStatus' = [dwWaitingStatus EXCEPT ![t] = "WAITING"]
           /\ dwMutexStatus' \in {"FREE", "OCCUPIED"} /\ dwWaitingNum' \in Nat
           /\ lpCurrentOwner' \in Threads \union {NoThread} /\ nCurrOwnCount' \in 0..MaxOwn
  <2>1. MutexTypes'
    BY <1>1, <1>4, <1>6 DEF MutexTypes, WaitStatus
  <2>2. QueueHoldsWaiters'
    <3>1. \A i \in 1..Len(lpWaitingQueue) :
            lpWaitingQueue[i] \in Threads /\ lpWaitingQueue[i] # t
      BY <1>1, <1>2, <1>3 DEF QueueHoldsWaiters, Blocking
    <3> QED BY <1>1, <1>2, <1>6, <3>1 DEF QueueHoldsWaiters, MutexTypes
  <2>3. WaitersBlock'
    BY <1>1, <1>6 DEF WaitersBlock, MutexTypes, Blocking, CondPC
  <2>4. \A u \in Threads : Served(u)' <=> Served(u)
    BY <1>1, <1>6 DEF Served, MutexTypes, Blocking, CondPC
  <2>5. CASE /\ nCurrOwnCount > 1 /\ nCurrOwnCount' = nCurrOwnCount - 1
             /\ UNCHANGED <<dwMutexStatus, dwWaitingNum, lpCurrentOwner>>
    <3>1. FreeIsIdle' /\ OccupiedIsCounted'
      BY <1>1, <1>2, <1>3, <1>6, <2>5 DEF FreeIsIdle, OccupiedIsCounted
    <3>2. OwnerHolds'
      BY <1>1, <1>2, <1>3, <1>4, <2>4, <2>5 DEF OwnerHolds, MutexTypes
    <3> QED BY <1>4, <1>5, <2>1, <2>2, <2>3, <3>1, <3>2
  <2>6. CASE /\ nCurrOwnCount = 1 /\ WaitingNumLeft = 0
             /\ dwMutexStatus' = "FREE" /\ dwWaitingNum' = 0
             /\ lpCurrentOwner' = NoThread /\ nCurrOwnCount' = 0
    <3>1. lpWaitingQueue = <<>>
      BY <1>3, <2>6 DEF WaitingNumLeft
    <3>2. FreeIsIdle' /\ OccupiedIsCounted'
      BY <1>6, <2>6, <3>1 DEF FreeIsIdle, OccupiedIsCounted
    <3>3. OwnerHolds'
      BY <1>1, <1>2, <1>3, <1>4, <2>4, <2>6 DEF OwnerHolds, MutexTypes
    <3> QED BY <1>4, <1>5, <2>1, <2>2, <2>3, <3>2, <3>3
  <2> QED BY <1>6, <2>5, <2>6, <1>3 DEF EnterWait, cond_ReleaseMutex
<1>7. CASE /\ nCurrOwnCount = 1 /\ WaitingNumLeft > 0
           /\ dwWaitingNum' = WaitingNumLeft
           /\ lpWaitingQueue' = WithoutHeader(lpWaitingQueue)
           /\ lpCurrentOwner' = HeaderElement(lpWaitingQueue)
           /\ dwThreadStatus' = [dwThreadStatus EXCEPT ![t] = "BLOCKED",
                                   ![HeaderElement(lpWaitingQueue)] = "READY"]
           /\ dwWaitingStatus' = [dwWaitingStatus EXCEPT ![t] = "WAITING",
                                   ![HeaderElement(lpWaitingQueue)] = "RESOURCE"]
           /\ UNCHANGED <<dwMutexStatus, nCurrOwnCount>>
  <2> PICK head : head = HeaderElement(lpWaitingQueue)
    OBVIOUS
  <2>1. /\ Len(lpWaitingQueue) > 0 /\ head = lpWaitingQueue[1] /\ head \in Threads
        /\ lpWaitingQueue' \in Seq(Threads)
        /\ Len(lpWaitingQueue') = Len(lpWaitingQueue) - 1
        /\ \A i \in 1..Len(lpWaitingQueue') : lpWaitingQueue'[i] = lpWaitingQueue[i + 1]
    <3>1. Len(lpWaitingQueue) > 0
      BY <1>3, <1>7 DEF WaitingNumLeft
    <3> QED BY <1>3, <1>7, <3>1 DEF HeaderElement, WithoutHeader
  <2>2. /\ pc[head] \in Blocking /\ dwWaitingStatus[head] = "WAITING"
        /\ \A i \in 1..Len(lpWaitingQueue') : lpWaitingQueue'[i] # head
    BY <1>2, <2>1 DEF QueueHoldsWaiters
  <2>3. head # t /\ pc'[head] = pc[head] /\ held'[head] = 0
    BY <1>1, <1>3, <2>1, <2>2 DEF Blocking, MutexTypes
  <2>4. /\ dwThreadStatus' \in [Threads -> {"READY", "BLOCKED"}]
        /\ dwWaitingStatus' \in [Threads -> WaitStatus]
        /\ dwThreadStatus'[t] = "BLOCKED" /\ dwWaitingStatus'[t] = "WAITING"
        /\ dwThreadStatus'[head] = "READY" /\ dwWaitingStatus'[head] = "RESOURCE"
        /\ \A u \in Threads \ {t, head} : /\ dwThreadStatus'[u] = dwThreadStatus[u]
                                          /\ dwWaitingStatus'[u] = dwWaitingStatus[u]
    BY <1>7, <2>1, <2>3 DEF MutexTypes, WaitStatus
  <2>5. dwWaitingNum' = dwWaitingNum - 1 /\ lpCurrentOwner' = head
        /\ UNCHANGED <<dwMutexStatus, nCurrOwnCount>> /\ nCurrOwnCount = 1
    BY <1>3, <1>7 DEF WaitingNumLeft
  <2>6. MutexTypes'
    BY <1>1, <1>3, <1>4, <2>1, <2>4, <2>5 DEF MutexTypes
  <2>7. FreeIsIdle' /\ OccupiedIsCounted'
    BY <1>3, <2>1, <2>5 DEF FreeIsIdle, OccupiedIsCounted
  <2>8. OwnerHolds'
    <3>1. Served(head)' /\ ~Served(t)'
      BY <1>1, <2>2, <2>3, <2>4 DEF Served, Blocking, MutexTypes, CondPC
    <3>2. \A u \in Threads \ {t, head} : Served(u)' = Served(u) /\ ~Served(u)
      BY <1>1, <1>2, <2>4 DEF Served, OwnerHolds, MutexTypes
    <3>3. held'[t] = 0 /\ \A u \in Threads : held'[u] = 0
      BY <1>1, <1>3, <1>4, <2>5 DEF MutexTypes
    <3> QED BY <2>1, <2>5, <3>1, <3>2, <3>3 DEF OwnerHolds
  <2>9. QueueHoldsWaiters'
    <3>1. \A i \in 1..Len(lpWaitingQueue') :
            /\ lpWaitingQueue'[i] \in Threads \ {t, head}
            /\ pc[lpWaitingQueue'[i]] \in Blocking
            /\ dwWaitingStatus[lpWaitingQueue'[i]] = "WAITING"
      <4> TAKE i \in 1..Len(lpWaitingQueue')
      <4>1. i + 1 \in 1..Len(lpWaitingQueue) /\ lpWaitingQueue'[i] = lpWaitingQueue[i + 1]
        BY <2>1, <1>3
      <4> QED BY <1>1, <1>2, <2>1, <2>2, <4>1 DEF QueueHoldsWaiters, Blocking
    <3>2. \A i, j \in 1..Len(lpWaitingQueue') :
            lpWaitingQueue'[i] = lpWaitingQueue'[j] => i = j
      BY <1>2, <1>3, <2>1 DEF QueueHoldsWaiters
    <3>3. \A u \in Threads \ {t} : pc'[u] = pc[u]
      BY <1>1 DEF MutexTypes
    <3> QED BY <3>1, <3>2, <3>3, <2>4 DEF QueueHoldsWaiters
  <2>10. WaitersBlock'
    BY <1>1, <2>2, <2>3, <2>4 DEF WaitersBlock, MutexTypes, Blocking, CondPC
  <2> QED BY <1>4, <1>5, <2>6, <2>7, <2>8, <2>9, <2>10
<1> QED
  BY <1>3, <1>6, <1>7 DEF EnterWait, cond_ReleaseMutex, OwnerAfterHandOff, MutexTypes, WaitingNumLeft

LEMMA InitCondIInv == CondInit => CondIInv
<1> SUFFICES ASSUME CondInit
             PROVE  CondIInv
  OBVIOUS
<1>1. MutexInv /\ alive /\ ~panic
  BY InitMutexInv DEF CondInit, Init
<1>2. \A t \in Threads : /\ pc[t] = "run" /\ condCall[t] = "none"
                         /\ t \notin signalled
  BY DEF CondInit, Init
<1>3. CondTypes
  BY EmptyQueue DEF CondInit, CondTypes, WaitStatus, IsInjective
<1>4. QueueIsSleepers
  <2>1. lpPendingQueue \in Seq(Threads) /\ nThreadNum = Len(lpPendingQueue)
    BY DEF CondInit
  <2>2. \A t : ~ObjectInQueue(lpPendingQueue, t)
    <3> lpPendingQueue = <<>>
      BY DEF CondInit
    <3> QED BY <2>1, EmptyQueue
  <2> QED BY <1>2, <2>1, <2>2 DEF QueueIsSleepers, Waiters, CondPC
<1>5. CallsHavePlaces /\ SleepersWait /\ SignalsAreReasons
  BY <1>2 DEF CallsHavePlaces, SleepersWait, SignalsAreReasons, CondPC, TimedPC
<1> QED BY <1>1, <1>3, <1>4, <1>5 DEF CondIInv

\* Clients, and threads on their way back, take and release the mutex.
LEMMA MutexClientPreserves ==
  ASSUME ~AllocMayFail, CondIInv, NEW t \in Threads, MutexClient(t)
  PROVE  CondIInv'
<1>1. MutexStep(t) /\ UNCHANGED condVars /\ condCall[t] = "none"
  BY DEF MutexClient, MutexStep
<1>2. /\ MutexInv' /\ alive' /\ ~panic'
      /\ pc[t] \in {"run", "infinite"} /\ pc'[t] \in {"run", "infinite"}
      /\ \A u \in Threads \ {t} : pc'[u] = pc[u]
      /\ \A u \in Threads : pc[u] \in CondPC =>
           /\ dwThreadStatus'[u] = dwThreadStatus[u]
           /\ dwWaitingStatus'[u] = dwWaitingStatus[u]
      /\ \A u \in Threads : pc'[u] = "infinite" => dwWaitingStatus'[u] # "DELETED"
  BY <1>1, MutexStepFrame
<1> USE <1>1, <1>2 DEF CondIInv, condVars, CondPC, TimedPC
<1>3. CondTypes' /\ CallsHavePlaces' /\ SleepersWait'
  BY DEF CondTypes, CallsHavePlaces, SleepersWait
<1>4. QueueIsSleepers'
  BY DEF QueueIsSleepers, Waiters
<1>5. SignalsAreReasons'
  BY DEF SignalsAreReasons
<1> QED BY <1>3, <1>4, <1>5

LEMMA TakeBackPreserves ==
  ASSUME ~AllocMayFail, CondIInv, NEW t \in Threads, TakeBack(t)
  PROVE  CondIInv'
<1>1. MutexStep(t) /\ condCall[t] # "none"
      /\ \/ UNCHANGED condVars
         \/ pc'[t] = "run" /\ CondReturn(t)
  BY DEF TakeBack, MutexStep, TakeFree, TakeAgain, WokenUp, CanCall, CondIInv, MutexInv,
         MutexTypes
<1>2. /\ MutexInv' /\ alive' /\ ~panic'
      /\ pc[t] \in {"run", "infinite"} /\ pc'[t] \in {"run", "infinite"}
      /\ \A u \in Threads \ {t} : pc'[u] = pc[u]
      /\ \A u \in Threads : pc[u] \in CondPC =>
           /\ dwThreadStatus'[u] = dwThreadStatus[u]
           /\ dwWaitingStatus'[u] = dwWaitingStatus[u]
      /\ \A u \in Threads : pc'[u] = "infinite" => dwWaitingStatus'[u] # "DELETED"
  BY <1>1, MutexStepFrame
<1> USE <1>2 DEF CondIInv, CondPC, TimedPC
<1>3. /\ UNCHANGED <<condAlive, nThreadNum, lpPendingQueue>>
      /\ condCall' \in [Threads -> {"none", "CondWait", "CondWaitTimeout"}]
      /\ condResult' \in [Threads -> WaitStatus]
      /\ signalled' \subseteq Threads
      /\ \A u \in Threads \ {t} : /\ condCall'[u] = condCall[u]
                                  /\ condResult'[u] = condResult[u]
                                  /\ u \in signalled' <=> u \in signalled
      /\ \/ /\ condCall'[t] = condCall[t] /\ condResult'[t] = condResult[t]
            /\ t \in signalled' <=> t \in signalled
         \/ condCall'[t] = "none" /\ t \notin signalled'
  <2>1. CASE UNCHANGED condVars
    BY <2>1 DEF condVars, CondTypes
  <2>2. CASE CondReturn(t)
    <3>1. result' \in [Threads -> WaitStatus]
      BY DEF MutexInv, MutexTypes
    <3> QED BY <2>2, <3>1 DEF CondReturn, CondTypes
  <2> QED BY <1>1, <2>1, <2>2
<1>4. CondTypes'
  BY <1>3 DEF CondTypes
<1>5. CallsHavePlaces' /\ SleepersWait'
  BY <1>3 DEF CallsHavePlaces, SleepersWait
<1>6. QueueIsSleepers'
  BY <1>3 DEF QueueIsSleepers, Waiters
<1>7. SignalsAreReasons'
  BY <1>3 DEF SignalsAreReasons
<1> QED BY <1>4, <1>5, <1>6, <1>7

LEMMA EnterWaitPreserves ==
  ASSUME ~AllocMayFail, CondIInv, NEW t \in Threads,
         NEW call \in {"CondWait", "CondWaitTimeout"}, NEW next \in CondPC,
         next = IF call = "CondWait" THEN "condWait" ELSE "condArm",
         EnterWait(t, call, next)
  PROVE  CondIInv'
<1>1. MutexInv'
  BY EnterWaitReleases
<1> USE DEF CondIInv
<1>2. /\ UNCHANGED <<alive, panic, condAlive, condResult, signalled>>
      /\ pc[t] = "run" /\ condCall[t] = "none"
      /\ lpPendingQueue' = InsertIntoQueue(lpPendingQueue, t, Priority)
      /\ nThreadNum' = nThreadNum + 1
      /\ pc' = [pc EXCEPT ![t] = next]
      /\ condCall' = [condCall EXCEPT ![t] = call]
  BY DEF EnterWait, CanCall
<1>3. pc \in [Threads -> Places] /\ condCall \in [Threads -> {"none", "CondWait", "CondWaitTimeout"}]
  BY DEF MutexInv, MutexTypes, CondTypes
\* The mutex goes to a thread in its queue, or to none.
<1>4. /\ dwThreadStatus'[t] = "BLOCKED" /\ dwWaitingStatus'[t] = "WAITING"
      /\ \A u \in Threads \ {t} : pc[u] \in CondPC =>
           /\ dwThreadStatus'[u] = dwThreadStatus[u]
           /\ dwWaitingStatus'[u] = dwWaitingStatus[u]
      /\ \A u \in Threads \ {t} : pc[u] = "infinite" => dwWaitingStatus'[u] # "DELETED"
  <2>1. /\ dwThreadStatus \in [Threads -> {"READY", "BLOCKED"}]
        /\ dwWaitingStatus \in [Threads -> WaitStatus]
        /\ lpWaitingQueue \in Seq(Threads)
    BY DEF MutexInv, MutexTypes
  <2>2. CASE /\ dwThreadStatus' = [dwThreadStatus EXCEPT ![t] = "BLOCKED"]
             /\ dwWaitingStatus' = [dwWaitingStatus EXCEPT ![t] = "WAITING"]
    BY <2>1, <2>2 DEF CallsHavePlaces
  <2>3. CASE WaitingNumLeft > 0
             /\ dwThreadStatus' = [dwThreadStatus EXCEPT ![t] = "BLOCKED",
                                     ![HeaderElement(lpWaitingQueue)] = "READY"]
             /\ dwWaitingStatus' = [dwWaitingStatus EXCEPT ![t] = "WAITING",
                                     ![HeaderElement(lpWaitingQueue)] = "RESOURCE"]
    <3>1. Live /\ QueueHoldsWaiters /\ dwWaitingNum = Len(lpWaitingQueue) + 1
      BY <1>2, <2>3
      DEF Live, MutexInv, OccupiedIsCounted, FreeIsIdle, WaitingNumLeft, MutexTypes
    <3>2. 1 \in 1..Len(lpWaitingQueue) /\ HeaderElement(lpWaitingQueue) = lpWaitingQueue[1]
      BY <2>1, <2>3, <3>1 DEF WaitingNumLeft, HeaderElement
    <3>3. lpWaitingQueue[1] \in Threads /\ pc[lpWaitingQueue[1]] \in Blocking
      BY <2>1, <3>1, <3>2 DEF QueueHoldsWaiters
    <3> QED BY <1>2, <2>1, <2>3, <3>2, <3>3 DEF CallsHavePlaces, Blocking, CondPC
  <2> QED BY <2>2, <2>3 DEF EnterWait, cond_ReleaseMutex
<1>5. ~ObjectInQueue(lpPendingQueue, t)
  BY <1>2 DEF QueueIsSleepers, Waiters, CondPC
<1>6. /\ lpPendingQueue' \in Seq(Threads) /\ IsInjective(lpPendingQueue')
      /\ Len(lpPendingQueue') = Len(lpPendingQueue) + 1
      /\ \A y : ObjectInQueue(lpPendingQueue', y) <=> ObjectInQueue(lpPendingQueue, y) \/ y = t
  <2>1. /\ lpPendingQueue \in Seq(Threads) /\ IsInjective(lpPendingQueue)
        /\ Priority \in [Threads -> Nat]
    BY ConditionAssumption DEF CondTypes
  <2>2. lpPendingQueue' = InsertIntoQueue(lpPendingQueue, t, Priority)
    BY <1>2
  <2>3. Len(lpPendingQueue') = Len(lpPendingQueue) + 1
    BY <2>1, <2>2, InsertIntoQueueFact
  <2> QED BY <1>5, <2>1, <2>2, <2>3, InsertKeeps
<1> USE <1>2, <1>3, <1>4, <1>6
<1>7. CondTypes'
  BY DEF CondTypes
<1>8. CallsHavePlaces'
  BY DEF CallsHavePlaces, CondPC, TimedPC
<1>9. SleepersWait'
  BY DEF SleepersWait, CondPC
<1>10. QueueIsSleepers'
  <2>1. nThreadNum' = Len(lpPendingQueue')
    BY DEF QueueIsSleepers
  <2>2. \A u \in Threads : u \in Waiters' <=> u \in Waiters \/ u = t
    BY DEF Waiters, CondPC
  <2> QED BY <2>1, <2>2 DEF QueueIsSleepers
<1>11. SignalsAreReasons'
  BY DEF SignalsAreReasons, CondPC, TimedPC
<1> QED BY <1>1, <1>7, <1>8, <1>9, <1>10, <1>11

\* The steps inside TimeOutWaiting and CondWait that change nothing a thread waits
\* for: only the place of the caller, its timer and its result.
LEMMA OwnStepPreserves ==
  ASSUME CondIInv, NEW t \in Threads,
         CondSetTimer(t) \/ CondWokenUp(t) \/ CondWokenUpTimed(t) \/ CondCancelTimer(t)
  PROVE  CondIInv'
<1> USE DEF CondIInv
<1>1. /\ dwThreadStatus \in [Threads -> {"READY", "BLOCKED"}]
      /\ dwWaitingStatus \in [Threads -> WaitStatus] /\ pc \in [Threads -> Places]
      /\ timer \in [Threads -> {"none", "armed", "fired"}]
      /\ condResult \in [Threads -> WaitStatus]
  BY DEF MutexInv, MutexTypes, CondTypes
<1>2. /\ UNCHANGED <<mutexVars, held, panic, dwThreadStatus, dwWaitingStatus, result>>
      /\ UNCHANGED <<condAlive, nThreadNum, lpPendingQueue, condCall, signalled>>
      /\ timer' \in [Threads -> {"none", "armed", "fired"}]
      /\ \A u \in Threads \ {t} : condResult'[u] = condResult[u]
      /\ \/ /\ pc[t] = "condArm" /\ pc' = [pc EXCEPT ![t] = "condTimed"]
            /\ UNCHANGED condResult
         \/ /\ pc[t] = "condWait" /\ pc' = [pc EXCEPT ![t] = "run"]
            /\ dwThreadStatus[t] = "READY" /\ UNCHANGED condResult
         \/ /\ pc[t] = "condTimed" /\ pc' = [pc EXCEPT ![t] = "condCancel"]
            /\ dwThreadStatus[t] = "READY" /\ UNCHANGED condResult
         \/ /\ pc[t] = "condCancel" /\ pc' = [pc EXCEPT ![t] = "run"]
            /\ condResult' = [condResult EXCEPT ![t] = dwWaitingStatus[t]]
  <2>1. CASE CondSetTimer(t)
    BY <1>1, <2>1 DEF CondSetTimer, condVars
  <2>2. CASE CondWokenUp(t)
    BY <1>1, <2>2 DEF CondWokenUp, condVars
  <2>3. CASE CondWokenUpTimed(t)
    <3>1. dwWaitingStatus[t] # "WAITING"
      BY <1>1, <2>3 DEF CondWokenUpTimed, SleepersWait, CondPC
    <3> QED BY <1>1, <2>3, <3>1 DEF CondWokenUpTimed, condVars
  <2>4. CASE CondCancelTimer(t)
    BY <1>1, <2>4 DEF CondCancelTimer, ResultOfWait
  <2> QED BY <2>1, <2>2, <2>3, <2>4
<1> USE DEF CondPC, TimedPC
<1>3. MutexInv'
  <2>1. MutexTypes'
    BY <1>1, <1>2 DEF MutexInv, MutexTypes, mutexVars, Places
  <2>2. \A u \in Threads : dwThreadStatus[u] = "BLOCKED" => dwWaitingStatus[u] = "WAITING"
    BY DEF MutexInv, WaitersBlock
  <2>3. pc[t] = "condCancel" => dwThreadStatus[t] = "READY"
    BY DEF SleepersWait
  <2> QED BY <1>1, <1>2, <2>1, <2>2, <2>3, CondStepFrame
<1> USE <1>1, <1>2
<1>4. CondTypes'
  BY DEF CondTypes
<1>5. CallsHavePlaces' /\ SleepersWait'
  BY DEF CallsHavePlaces, SleepersWait
<1>6. QueueIsSleepers'
  <2>1. \A u \in Threads : u \in Waiters' <=> u \in Waiters
    BY DEF Waiters, SleepersWait
  <2> QED BY <2>1 DEF QueueIsSleepers
<1>7. SignalsAreReasons'
  BY DEF SignalsAreReasons, CallsHavePlaces, SleepersWait
<1> QED BY <1>3, <1>4, <1>5, <1>6, <1>7 DEF mutexVars

\* A step that takes the threads of S, all of them asleep, out of the queue and makes
\* them ready for one reason.
LEMMA WakeUpPreserves ==
  ASSUME CondIInv, NEW S, S \subseteq Waiters, NEW status \in WaitStatus \ {"WAITING"},
         dwThreadStatus' = [u \in Threads |-> IF u \in S THEN "READY" ELSE dwThreadStatus[u]],
         dwWaitingStatus' = [u \in Threads |-> IF u \in S THEN status ELSE dwWaitingStatus[u]],
         UNCHANGED <<mutexVars, pc, result, held, panic, condCall, condResult>>,
         timer' \in [Threads -> {"none", "armed", "fired"}],
         condAlive' \in BOOLEAN,
         lpPendingQueue' \in Seq(Threads), IsInjective(lpPendingQueue'),
         nThreadNum' = Len(lpPendingQueue'),
         \A u \in Threads :
           ObjectInQueue(lpPendingQueue', u) <=> ObjectInQueue(lpPendingQueue, u) /\ u \notin S,
         signalled' = IF status = "RESOURCE" THEN signalled \union S ELSE signalled
  PROVE  CondIInv'
<1> USE DEF CondIInv
<1>1. /\ dwThreadStatus \in [Threads -> {"READY", "BLOCKED"}]
      /\ dwWaitingStatus \in [Threads -> WaitStatus] /\ S \subseteq Threads
      /\ \A u \in S : pc[u] \in CondPC /\ dwThreadStatus[u] = "BLOCKED"
                      /\ dwWaitingStatus[u] = "WAITING" /\ condCall[u] # "none"
  BY DEF MutexInv, MutexTypes, Waiters, SleepersWait, CallsHavePlaces, CondPC, TimedPC
<1>2. MutexInv'
  <2>1. MutexTypes'
    BY <1>1 DEF MutexInv, MutexTypes, mutexVars
  <2>2. \A u \in Threads : pc[u] \notin CondPC =>
          /\ pc'[u] = pc[u]
          /\ dwThreadStatus'[u] = dwThreadStatus[u]
          /\ dwWaitingStatus'[u] = dwWaitingStatus[u]
    BY <1>1
  <2>3. \A u \in Threads : pc[u] \in CondPC =>
          /\ pc'[u] \in CondPC \union {"run"}
          /\ pc'[u] = "run" => dwThreadStatus'[u] = "READY"
          /\ dwThreadStatus'[u] = "BLOCKED" => dwWaitingStatus'[u] = "WAITING"
    BY <1>1 DEF MutexInv, WaitersBlock, CondPC
  <2> QED BY <2>1, <2>2, <2>3, CondStepFrame
<1>3. CondTypes'
  <2>1. nThreadNum' \in Nat
    OBVIOUS
  <2> QED BY <1>1, <2>1 DEF CondTypes
<1> USE <1>1
<1>4. CallsHavePlaces' /\ SleepersWait'
  BY DEF CallsHavePlaces, SleepersWait, CondPC, TimedPC
<1>5. QueueIsSleepers'
  <2>1. \A u \in Threads : u \in Waiters' <=> u \in Waiters /\ u \notin S
    BY DEF Waiters
  <2> QED BY <2>1 DEF QueueIsSleepers
<1>6. SignalsAreReasons'
  BY DEF SignalsAreReasons, SleepersWait, CondPC, TimedPC
<1> QED BY <1>2, <1>3, <1>4, <1>5, <1>6 DEF mutexVars

LEMMA CondTimeOutCallbackPreserves ==
  ASSUME CondIInv, NEW t \in Threads, CondTimeOutCallback(t)
  PROVE  CondIInv'
<1> USE DEF CondIInv
<1>1. /\ UNCHANGED <<mutexVars, pc, result, held, panic, condAlive, condCall, condResult,
                     signalled>>
      /\ pc[t] \in {"condTimed", "condCancel"}
      /\ timer' \in [Threads -> {"none", "armed", "fired"}]
  BY DEF CondTimeOutCallback, MutexInv, MutexTypes
<1>2. lpPendingQueue \in Seq(Threads) /\ IsInjective(lpPendingQueue) /\ condAlive \in BOOLEAN
  BY DEF CondTypes
<1>3. CASE dwWaitingStatus[t] = "WAITING"
  <2>1. t \in Waiters /\ ObjectInQueue(lpPendingQueue, t)
    BY <1>1, <1>3 DEF SleepersWait, QueueIsSleepers, Waiters, CondPC
  <2>2. /\ lpPendingQueue' = DeleteFromQueue(lpPendingQueue, t)
        /\ nThreadNum' = nThreadNum - 1
        /\ dwWaitingStatus' = [dwWaitingStatus EXCEPT ![t] = "TIMEOUT"]
        /\ dwThreadStatus' = [dwThreadStatus EXCEPT ![t] = "READY"]
    BY <1>3 DEF CondTimeOutCallback, CondExpires, ThreadNumAfterTimeOut
  <2>3. /\ lpPendingQueue' \in Seq(Threads) /\ IsInjective(lpPendingQueue')
        /\ \A u : ObjectInQueue(lpPendingQueue', u) <=> ObjectInQueue(lpPendingQueue, u) /\ u # t
    BY <1>2, <2>2, DeleteKeeps
  <2>4. nThreadNum' = Len(lpPendingQueue')
    <3>1. PICK k \in 1..Len(lpPendingQueue) :
            /\ lpPendingQueue[k] = t
            /\ DeleteFromQueue(lpPendingQueue, t) =
                 [i \in 1..(Len(lpPendingQueue) - 1) |->
                    IF i < k THEN lpPendingQueue[i] ELSE lpPendingQueue[i + 1]]
      BY <1>2, <2>1, DeleteFromQueueFact
    <3>2. Len(lpPendingQueue') = Len(lpPendingQueue) - 1
      BY <1>2, <2>2, <2>3, <3>1
    <3> QED BY <2>2, <3>2 DEF QueueIsSleepers
  <2>5. /\ dwThreadStatus' = [u \in Threads |-> IF u \in {t} THEN "READY" ELSE dwThreadStatus[u]]
        /\ dwWaitingStatus' = [u \in Threads |-> IF u \in {t} THEN "TIMEOUT" ELSE dwWaitingStatus[u]]
    BY <2>2 DEF MutexInv, MutexTypes
  <2>6. {t} \subseteq Waiters /\ "TIMEOUT" \in WaitStatus \ {"WAITING"}
        /\ signalled' = IF "TIMEOUT" = "RESOURCE" THEN signalled \union {t} ELSE signalled
    BY <1>1, <2>1 DEF WaitStatus
  <2> QED BY <1>1, <1>2, <2>3, <2>4, <2>5, <2>6, WakeUpPreserves
<1>4. CASE dwWaitingStatus[t] # "WAITING"
  <2>1. UNCHANGED <<lpPendingQueue, nThreadNum, dwWaitingStatus, dwThreadStatus>>
    BY <1>4 DEF CondTimeOutCallback, CondExpires
  <2> USE <1>1, <2>1
  <2>2. MutexInv'
    <3>1. MutexTypes'
      BY DEF MutexInv, MutexTypes, mutexVars
    <3>2. \A u \in Threads : pc[u] \in CondPC /\ dwThreadStatus[u] = "BLOCKED" =>
            dwWaitingStatus[u] = "WAITING"
      BY DEF SleepersWait
    <3> QED BY <3>1, <3>2, CondStepFrame DEF CondPC
  <2> QED BY <2>2 DEF CondTypes, CallsHavePlaces, SleepersWait, QueueIsSleepers, Waiters,
                      SignalsAreReasons, mutexVars
<1> QED BY <1>3, <1>4

LEMMA CondSignalPreserves ==
  ASSUME CondIInv, CondSignal
  PROVE  CondIInv'
<1> USE DEF CondIInv
<1>1. /\ lpPendingQueue \in Seq(Threads) /\ IsInjective(lpPendingQueue)
      /\ nThreadNum = Len(lpPendingQueue) /\ lpPendingQueue # <<>>
      /\ condAlive \in BOOLEAN /\ timer \in [Threads -> {"none", "armed", "fired"}]
  BY DEF CondSignal, QueueIsSleepers, CondTypes, MutexInv, MutexTypes
<1> PICK head : head = HeaderElement(lpPendingQueue)
  OBVIOUS
<1>2. /\ UNCHANGED <<mutexVars, pc, timer, result, held, condAlive, condCall, condResult, panic>>
      /\ WakeWaiters({head}, "RESOURCE")
      /\ signalled' = signalled \union {head}
      /\ lpPendingQueue' = WithoutHeader(lpPendingQueue)
      /\ nThreadNum' = nThreadNum - 1
  BY <1>1 DEF CondSignal
<1>3. /\ head \in Threads /\ ObjectInQueue(lpPendingQueue, head)
      /\ lpPendingQueue' \in Seq(Threads) /\ IsInjective(lpPendingQueue')
      /\ \A u : ObjectInQueue(lpPendingQueue', u) <=> ObjectInQueue(lpPendingQueue, u) /\ u # head
  BY <1>1, <1>2, HeaderTaken
<1>4. nThreadNum' = Len(lpPendingQueue')
  BY <1>1, <1>2 DEF WithoutHeader
<1>5. {head} \subseteq Waiters
  BY <1>3 DEF QueueIsSleepers
<1>6. "RESOURCE" \in WaitStatus \ {"WAITING"}
      /\ signalled' = IF "RESOURCE" = "RESOURCE" THEN signalled \union {head} ELSE signalled
  BY <1>2 DEF WaitStatus
<1>7. \A u \in Threads :
        ObjectInQueue(lpPendingQueue', u) <=> ObjectInQueue(lpPendingQueue, u) /\ u \notin {head}
  BY <1>3
<1> QED BY <1>1, <1>2, <1>3, <1>4, <1>5, <1>6, <1>7, WakeUpPreserves DEF WakeWaiters

\* A broadcast and a destruction take out as many threads as are counted, that is
\* all of them.
LEMMA WakeAllPreserves ==
  ASSUME CondIInv, NEW status \in WaitStatus \ {"WAITING"}, WakeAll(status),
         condAlive' \in BOOLEAN,
         signalled' = IF status = "RESOURCE" THEN signalled \union ToSet(lpPendingQueue)
                                             ELSE signalled
  PROVE  CondIInv'
<1> USE DEF CondIInv
<1>1. /\ lpPendingQueue \in Seq(Threads) /\ nThreadNum = Len(lpPendingQueue)
      /\ timer \in [Threads -> {"none", "armed", "fired"}]
  BY DEF QueueIsSleepers, CondTypes, MutexInv, MutexTypes
<1>2. /\ SubSeq(lpPendingQueue, 1, nThreadNum) = lpPendingQueue
      /\ SubSeq(lpPendingQueue, nThreadNum + 1, Len(lpPendingQueue)) = <<>>
      /\ Len(lpPendingQueue) \in Nat /\ ~(nThreadNum > Len(lpPendingQueue))
  BY <1>1
<1>3. /\ UNCHANGED <<mutexVars, pc, timer, result, held, condCall, condResult, panic>>
      /\ WakeWaiters(ToSet(lpPendingQueue), status)
      /\ lpPendingQueue' = <<>> /\ nThreadNum' = 0
  <2>1. panic' = FALSE
    <3> DEFINE count == nThreadNum
               length == Len(lpPendingQueue)
    <3>1. panic' = (count > length) /\ ~(count > length)
      BY <1>2 DEF WakeAll
    <3>2. (count > length) \in BOOLEAN
      BY <1>1, <1>2
    <3> HIDE DEF count, length
    <3> QED BY <3>1, <3>2
  <2>2. panic = FALSE
    BY DEF MutexInv, MutexTypes
  <2> QED BY <1>2, <2>1, <2>2 DEF WakeAll
<1>4. /\ lpPendingQueue' \in Seq(Threads) /\ IsInjective(lpPendingQueue')
      /\ nThreadNum' = Len(lpPendingQueue')
      /\ \A u : ~ObjectInQueue(lpPendingQueue', u)
  BY <1>1, <1>3, EmptyQueue
<1>5. \A u : u \in ToSet(lpPendingQueue) <=> ObjectInQueue(lpPendingQueue, u)
  BY <1>1, QueueMembers
<1>6. ToSet(lpPendingQueue) \subseteq Waiters
  <2>1. \A u : ObjectInQueue(lpPendingQueue, u) => u \in Threads
    BY <1>1, EmptyQueue
  <2> QED BY <1>5, <2>1 DEF QueueIsSleepers
<1>7. \A u \in Threads :
        ObjectInQueue(lpPendingQueue', u)
          <=> ObjectInQueue(lpPendingQueue, u) /\ u \notin ToSet(lpPendingQueue)
  BY <1>4, <1>5
<1> DEFINE S == ToSet(lpPendingQueue)
<1> HIDE DEF S
<1> QED BY <1>1, <1>3, <1>4, <1>6, <1>7, WakeUpPreserves DEF WakeWaiters

LEMMA ConditionInitializePreserves ==
  ASSUME CondIInv, ConditionInitialize
  PROVE  CondIInv'
<1> USE DEF CondIInv
<1>1. /\ UNCHANGED <<vars, condCall, condResult, signalled>> /\ condAlive' = TRUE
      /\ nThreadNum' = 0 /\ lpPendingQueue' = <<>>
      /\ \A u \in Threads : condCall[u] = "none"
  BY DEF ConditionInitialize
<1>2. UNCHANGED <<alive, panic, pc, dwThreadStatus, dwWaitingStatus>> /\ MutexInv'
  BY <1>1 DEF vars, mutexVars, threadVars, MutexInv, MutexTypes, Live, FreeIsIdle,
              OccupiedIsCounted, OwnerHolds, QueueHoldsWaiters, WaitersBlock,
              NothingHeldOfDeleted, OneHolder, Served
<1>3. lpPendingQueue \in Seq(Threads)
  BY DEF CondTypes
<1>4. /\ lpPendingQueue' \in Seq(Threads) /\ IsInjective(lpPendingQueue')
      /\ nThreadNum' = Len(lpPendingQueue')
      /\ \A u : ~ObjectInQueue(lpPendingQueue', u)
  BY <1>1, <1>3, EmptyQueue
<1>5. CondTypes'
  BY <1>1, <1>4 DEF CondTypes
<1>6. QueueIsSleepers'
  BY <1>1, <1>2, <1>4 DEF QueueIsSleepers, Waiters, CallsHavePlaces, CondPC, TimedPC
<1>7. CallsHavePlaces' /\ SleepersWait' /\ SignalsAreReasons'
  BY <1>1, <1>2 DEF CallsHavePlaces, SleepersWait, SignalsAreReasons
<1> QED BY <1>2, <1>5, <1>6, <1>7

LEMMA CondNextPreserves ==
  ASSUME ~AllocMayFail, CondIInv, [CondNext]_allVars
  PROVE  CondIInv'
<1>1. CASE UNCHANGED allVars
  <2>1. MutexInv'
    BY <1>1 DEF allVars, vars, mutexVars, threadVars, CondIInv, MutexInv, MutexTypes, Live,
                FreeIsIdle, OccupiedIsCounted, OwnerHolds, QueueHoldsWaiters, WaitersBlock,
                NothingHeldOfDeleted, OneHolder, Served
  <2> QED BY <1>1, <2>1 DEF allVars, vars, mutexVars, threadVars, condVars, CondIInv, CondTypes,
                CallsHavePlaces, SleepersWait, QueueIsSleepers, Waiters, SignalsAreReasons
<1>2. ASSUME NEW t \in Threads, CondWait(t) \/ CondWaitTimeout(t)
      PROVE  CondIInv'
  BY <1>2, EnterWaitPreserves DEF CondWait, CondWaitTimeout, CondPC
<1>3. CASE CondBroadcast
  <2>1. WakeAll("RESOURCE") /\ condAlive' \in BOOLEAN
        /\ signalled' = IF "RESOURCE" = "RESOURCE" THEN signalled \union ToSet(lpPendingQueue)
                                                   ELSE signalled
    BY <1>3 DEF CondBroadcast, CondIInv, CondTypes
  <2> QED BY <2>1, WakeAllPreserves DEF WaitStatus
<1>4. CASE ConditionUninitialize
  <2>1. WakeAll("DELETED") /\ condAlive' \in BOOLEAN
        /\ signalled' = IF "DELETED" = "RESOURCE" THEN signalled \union ToSet(lpPendingQueue)
                                                  ELSE signalled
    BY <1>4 DEF ConditionUninitialize
  <2> QED BY <2>1, WakeAllPreserves DEF WaitStatus
<1> QED
  BY <1>1, <1>2, <1>3, <1>4, MutexClientPreserves, TakeBackPreserves, OwnStepPreserves,
     CondTimeOutCallbackPreserves, CondSignalPreserves, ConditionInitializePreserves
  DEF CondNext

-----------------------------------------------------------------------------
(* What follows for the condition.                                          *)

LEMMA CondInvariance == ASSUME ~AllocMayFail PROVE CondSpec => []CondIInv
<1>1. CondInit => CondIInv
  BY InitCondIInv
<1>2. CondIInv /\ [CondNext]_allVars => CondIInv'
  BY CondNextPreserves
<1> QED BY <1>1, <1>2, PTL DEF CondSpec

\* nThreadNum, by which signal and broadcast decide whom to wake, is exactly the
\* number of threads that sleep in the condition and the length of its queue, however
\* many threads wait, time out and are signalled.
THEOREM CondCountIsExact == ASSUME ~AllocMayFail PROVE CondSpec => []CountIsWaiters
<1>1. CondIInv => CountIsWaiters
  <2> SUFFICES ASSUME CondIInv
               PROVE  CountIsWaiters
    OBVIOUS
  <2>1. /\ lpPendingQueue \in Seq(Threads) /\ IsInjective(lpPendingQueue)
        /\ nThreadNum = Len(lpPendingQueue)
        /\ \A t \in Threads : ObjectInQueue(lpPendingQueue, t) <=> t \in Waiters
    BY DEF CondIInv, CondTypes, QueueIsSleepers
  <2>2. \A t : ObjectInQueue(lpPendingQueue, t) => t \in Threads
    BY <2>1, EmptyQueue
  <2>3. /\ \A t : t \in ToSet(lpPendingQueue) <=> ObjectInQueue(lpPendingQueue, t)
        /\ Cardinality(ToSet(lpPendingQueue)) = Len(lpPendingQueue)
    BY <2>1, QueueMembers
  <2>4. Waiters \subseteq Threads
    BY DEF Waiters
  <2>5. ToSet(lpPendingQueue) = Waiters
    BY <2>1, <2>2, <2>3, <2>4
  <2> QED BY <2>1, <2>3, <2>5 DEF CountIsWaiters
<1> QED BY <1>1, CondInvariance, PTL

\* No BUG_ON of the condition or of the mutex is reached, and the mutex excludes, when
\* waits on a condition release and retake it.
THEOREM MutexOfConditionExcludes ==
  ASSUME ~AllocMayFail PROVE CondSpec => [](NoPanic /\ MutualExclusion)
<1>1. CondIInv => NoPanic /\ MutualExclusion
  BY DEF CondIInv, MutexInv, Live, OwnerHolds, OneHolder, NoPanic, MutualExclusion
<1> QED BY <1>1, CondInvariance, PTL

\* A call on the condition returns by taking the mutex, and in no other step.
LEMMA ReturnTakesMutex ==
  ASSUME ~AllocMayFail, CondIInv, [CondNext]_allVars, NEW t \in Threads,
         condCall[t] # "none", condCall'[t] = "none"
  PROVE  (TakeFree(t) \/ TakeAgain(t) \/ WokenUp(t)) /\ CondReturn(t)
<1>1. condCall \in [Threads -> {"none", "CondWait", "CondWaitTimeout"}]
  BY DEF CondIInv, CondTypes
<1>2. ASSUME UNCHANGED condCall
      PROVE  FALSE
  BY <1>2
<1>3. ASSUME NEW u \in Threads, CondWait(u) \/ CondWaitTimeout(u)
      PROVE  FALSE
  <2>1. PICK call \in {"CondWait", "CondWaitTimeout"} : condCall' = [condCall EXCEPT ![u] = call]
    BY <1>3 DEF CondWait, CondWaitTimeout, EnterWait
  <2> QED BY <1>1, <2>1
<1>4. ASSUME NEW u \in Threads, TakeBack(u)
      PROVE  (TakeFree(t) \/ TakeAgain(t) \/ WokenUp(t)) /\ CondReturn(t)
  <2>1. (TakeFree(u) \/ TakeAgain(u) \/ WokenUp(u)) /\ CondReturn(u)
    BY <1>2, <1>4 DEF TakeBack, condVars
  <2>2. u = t
    BY <1>1, <2>1 DEF CondReturn
  <2> QED BY <2>1, <2>2
<1>5. \/ \E u \in Threads : CondWait(u) \/ CondWaitTimeout(u) \/ TakeBack(u)
      \/ UNCHANGED condCall
  BY DEF CondNext, MutexClient, CondSetTimer, CondTimeOutCallback, CondWokenUp,
         CondWokenUpTimed, CondCancelTimer, CondSignal, CondBroadcast, ConditionUninitialize,
         WakeAll, ConditionInitialize, condVars, allVars
<1> QED BY <1>2, <1>3, <1>4, <1>5

\* Whoever returns from a wait on the condition owns the mutex again, one level deeper
\* than it kept it; also after a time-out and after the destruction of the condition.
THEOREM WaitReturnsOwning == ASSUME ~AllocMayFail PROVE CondSpec => ReturnsOwning
<1>1. CondIInv /\ [CondNext]_allVars =>
        [\A t \in Threads : condCall[t] # "none" /\ condCall'[t] = "none" =>
           /\ lpCurrentOwner' = t
           /\ held'[t] = held[t] + 1
           /\ nCurrOwnCount' = held'[t]]_allVars
  <2> SUFFICES ASSUME CondIInv, [CondNext]_allVars, NEW t \in Threads,
                      condCall[t] # "none", condCall'[t] = "none"
               PROVE  /\ lpCurrentOwner' = t
                      /\ held'[t] = held[t] + 1
                      /\ nCurrOwnCount' = held'[t]
    OBVIOUS
  <2>1. TakeFree(t) \/ TakeAgain(t) \/ WokenUp(t)
    BY ReturnTakesMutex
  <2>2. /\ FreeIsIdle /\ OwnerHolds /\ WaitersBlock /\ alive
        /\ held \in [Threads -> 0..MaxOwn] /\ nCurrOwnCount \in 0..MaxOwn
        /\ pc[t] = "infinite" => dwWaitingStatus[t] # "DELETED"
        /\ dwWaitingStatus[t] \in WaitStatus
    BY DEF CondIInv, MutexInv, Live, MutexTypes, CallsHavePlaces
  <2>3. CASE TakeFree(t)
    <3>1. held[t] = 0
      BY <2>2, <2>3, MutexAssumption DEF TakeFree, FreeIsIdle, OwnerHolds
    <3> QED BY <2>2, <2>3, <3>1 DEF TakeFree
  <2>4. CASE TakeAgain(t)
    <3>1. held[t] = nCurrOwnCount
      BY <2>2, <2>4 DEF TakeAgain, CanCall, OwnerHolds, Served, Blocking
    <3> QED BY <2>2, <2>4, <3>1, MutexAssumption DEF TakeAgain
  <2>5. CASE WokenUp(t)
    <3>1. dwWaitingStatus[t] = "RESOURCE"
      BY <2>2, <2>5 DEF WokenUp, WaitersBlock, Blocking, WaitStatus
    <3>2. lpCurrentOwner = t /\ nCurrOwnCount = 1 /\ held[t] = 0
      BY <2>2, <2>5, <3>1 DEF WokenUp, OwnerHolds, Served, Blocking
    <3> QED BY <2>2, <2>5, <3>1, <3>2 DEF WokenUp, Return, mutexVars
  <2> QED BY <2>1, <2>3, <2>4, <2>5
<1> QED BY <1>1, CondInvariance, PTL DEF CondSpec, ReturnsOwning

\* A timed wait is told RESOURCE exactly if a signal was spent on it, and never leaves
\* without a reason, whatever races with its timer.
THEOREM TimeOutsAreHonest == ASSUME ~AllocMayFail PROVE CondSpec => TimeOutMeansNoSignal
<1>1. CondIInv /\ [CondNext]_allVars =>
        [\A t \in Threads :
           condCall[t] = "CondWaitTimeout" /\ condCall'[t] = "none" =>
             /\ condResult'[t] = "RESOURCE" <=> t \in signalled
             /\ condResult'[t] # "WAITING"]_allVars
  <2> SUFFICES ASSUME CondIInv, [CondNext]_allVars, NEW t \in Threads,
                      condCall[t] = "CondWaitTimeout", condCall'[t] = "none"
               PROVE  /\ condResult'[t] = "RESOURCE" <=> t \in signalled
                      /\ condResult'[t] # "WAITING"
    OBVIOUS
  <2>1. (TakeFree(t) \/ TakeAgain(t) \/ WokenUp(t)) /\ CondReturn(t)
    BY ReturnTakesMutex
  <2>2. pc[t] \notin CondPC
    BY <2>1 DEF TakeFree, TakeAgain, WokenUp, CanCall, CondPC
  <2>3. condResult' = condResult
    BY <2>1 DEF CondReturn
  <2> QED BY <2>2, <2>3 DEF CondIInv, SignalsAreReasons
<1> QED BY <1>1, CondInvariance, PTL DEF CondSpec, TimeOutMeansNoSignal

LEMMA CondStepRefines ==
  ASSUME ~AllocMayFail, CondIInv, [CondNext]_allVars
  PROVE  [Lock!Next]_(Lock!lockVars)
<1>1. ASSUME NEW t \in Threads, MutexClient(t) \/ TakeBack(t)
      PROVE  [Lock!Next]_(Lock!lockVars)
  BY <1>1, ClientStepRefines DEF MutexClient, TakeBack, CondIInv
<1>2. ASSUME NEW t \in Threads, CondWait(t) \/ CondWaitTimeout(t)
      PROVE  [Lock!Next]_(Lock!lockVars)
  <2>1. alive /\ alive' /\ lpCurrentOwner = t /\ cond_ReleaseMutex(t)
    BY <1>2 DEF CondWait, CondWaitTimeout, EnterWait, CondIInv
  <2>2. lpWaitingQueue = <<>> <=> WaitingNumLeft = 0
    BY <2>1, MutexAssumption
    DEF WaitingNumLeft, CondIInv, MutexInv, MutexTypes, Live, FreeIsIdle, OccupiedIsCounted
  <2>3. Lock!Release(t)
    BY <2>1, <2>2
    DEF cond_ReleaseMutex, OwnerAfterHandOff, HeaderElement, WithoutHeader, Lock!Release
  <2> QED BY <2>3 DEF Lock!Next
<1>3. ASSUME UNCHANGED mutexVars
      PROVE  UNCHANGED Lock!lockVars
  BY <1>3 DEF mutexVars, Lock!lockVars
<1>4. \/ \E t \in Threads : MutexClient(t) \/ TakeBack(t) \/ CondWait(t) \/ CondWaitTimeout(t)
      \/ UNCHANGED mutexVars
  BY DEF CondNext, CondSetTimer, CondTimeOutCallback, CondWokenUp, CondWokenUpTimed,
         CondCancelTimer, CondSignal, CondBroadcast, ConditionUninitialize, WakeAll,
         ConditionInitialize, allVars, vars
<1> QED BY <1>1, <1>2, <1>3, <1>4

\* To its clients the mutex is still a lock that serves its line in order, although
\* waits on the condition release it by a copy of the code and take it back.
THEOREM MutexOfConditionIsHandOffLock ==
  ASSUME ~AllocMayFail PROVE CondSpec => ImplementsHandOffLock
<1>1. CondInit => Lock!Init
  BY InitRefines DEF CondInit
<1>2. CondIInv /\ [CondNext]_allVars => [Lock!Next]_(Lock!lockVars)
  BY CondStepRefines
<1> QED BY <1>1, <1>2, CondInvariance, PTL DEF CondSpec, Lock!Spec, ImplementsHandOffLock
=============================================================================
