-------------------------- MODULE KernelCondition --------------------------
(***************************************************************************)
(* The condition object of kernel/condvar.c, composed with the mutex that  *)
(* its callers hold: CondWait, CondWaitTimeout, CondSignal, CondBroadcast  *)
(* and destruction while threads wait.                                     *)
(*                                                                         *)
(* A wait queues its caller and releases the mutex in one critical section *)
(* of the condition, blocks, and after the wake-up takes the mutex again   *)
(* with the infinite wait of KernelMutex.  That last part is made of the   *)
(* mutex's own steps: condCall tells a thread that is on its way back from *)
(* a client that calls the mutex.                                          *)
(***************************************************************************)
EXTENDS KernelMutex, FiniteSets

CONSTANT Priority   \* dwThreadPriority of each thread

\* What a failed allocation leaves behind is not modelled here: the instances and
\* the theorems take AllocMayFail to be FALSE.
ASSUME ConditionAssumption == Priority \in [Threads -> Nat]

VARIABLES
  condAlive,        \* dwObjectSignature is set
  nThreadNum,
  lpPendingQueue,
  condCall,         \* the condition call each thread is in
  condResult,       \* what the last condition call of the thread returned
  signalled         \* waiters that CondSignal or CondBroadcast took off the queue
                    \* and that have not returned (a history variable)

condVars == <<condAlive, nThreadNum, lpPendingQueue, condCall, condResult,
              signalled>>
allVars == <<vars, condVars>>

CondPC == {"condWait", "condArm", "condTimed", "condCancel"}
Waiters == {t \in Threads : pc[t] \in CondPC /\ dwThreadStatus[t] = "BLOCKED"}

CondInit ==
  /\ Init
  /\ condAlive = TRUE
  /\ nThreadNum = 0
  /\ lpPendingQueue = <<>>
  /\ condCall = [t \in Threads |-> "none"]
  /\ condResult = [t \in Threads |-> "WAITING"]
  /\ signalled = {}

-----------------------------------------------------------------------------
(* Waiting.                                                                 *)

ClearedOwner == NoThread
OwnerAfterHandOff == HeaderElement(lpWaitingQueue)

\* __cond_ReleaseMutex, a copy of ReleaseMutex that does not reschedule.  The
\* caller is already blocked when the mutex goes to the next thread; a nested
\* acquisition is only undone, so its caller waits while it owns the mutex.
cond_ReleaseMutex(t) ==
  \/ /\ nCurrOwnCount > 1
     /\ nCurrOwnCount' = nCurrOwnCount - 1
     /\ dwThreadStatus' = [dwThreadStatus EXCEPT ![t] = "BLOCKED"]
     /\ dwWaitingStatus' = [dwWaitingStatus EXCEPT ![t] = "WAITING"]
     /\ UNCHANGED <<dwMutexStatus, dwWaitingNum, lpCurrentOwner, lpWaitingQueue>>
  \/ /\ nCurrOwnCount = 1 /\ WaitingNumLeft = 0
     /\ dwMutexStatus' = "FREE"
     /\ dwWaitingNum' = 0
     /\ lpCurrentOwner' = NoThread
     /\ nCurrOwnCount' = 0
     /\ dwThreadStatus' = [dwThreadStatus EXCEPT ![t] = "BLOCKED"]
     /\ dwWaitingStatus' = [dwWaitingStatus EXCEPT ![t] = "WAITING"]
     /\ UNCHANGED lpWaitingQueue
  \/ /\ nCurrOwnCount = 1 /\ WaitingNumLeft > 0
     /\ dwWaitingNum' = WaitingNumLeft
     /\ LET next == HeaderElement(lpWaitingQueue) IN
        /\ lpWaitingQueue' = WithoutHeader(lpWaitingQueue)
        /\ lpCurrentOwner' = OwnerAfterHandOff
        /\ dwThreadStatus' =
             [dwThreadStatus EXCEPT ![t] = "BLOCKED", ![next] = "READY"]
        /\ dwWaitingStatus' =
             [dwWaitingStatus EXCEPT ![t] = "WAITING", ![next] = "RESOURCE"]
     /\ UNCHANGED <<dwMutexStatus, nCurrOwnCount>>

\* Only an owner may wait (BUG_ON in the release).
EnterWait(t, call, next) ==
  /\ condAlive /\ CanCall(t)
  /\ condCall[t] = "none"
  /\ held[t] > 0 /\ lpCurrentOwner = t
  /\ lpPendingQueue' = InsertIntoQueue(lpPendingQueue, t, Priority)
  /\ nThreadNum' = nThreadNum + 1
  /\ cond_ReleaseMutex(t)
  /\ held' = [held EXCEPT ![t] = @ - 1]
  /\ pc' = [pc EXCEPT ![t] = next]
  /\ condCall' = [condCall EXCEPT ![t] = call]
  /\ UNCHANGED <<alive, timer, result, panic, condAlive, condResult, signalled>>

CondWait(t)        == EnterWait(t, "CondWait", "condWait")
CondWaitTimeout(t) == EnterWait(t, "CondWaitTimeout", "condArm")

\* TimeOutWaiting sets its timer after the condition lock was left.
CondSetTimer(t) ==
  /\ pc[t] = "condArm"
  /\ timer' = [timer EXCEPT ![t] = "armed"]
  /\ pc' = [pc EXCEPT ![t] = "condTimed"]
  /\ UNCHANGED <<mutexVars, dwThreadStatus, dwWaitingStatus, result, held,
                 panic, condVars>>

StaleThreadNum == nThreadNum
ThreadNumAfterTimeOut == nThreadNum - 1

\* The handler acts unless the waiter was served or the condition destroyed.
CondExpires(t) == dwWaitingStatus[t] = "WAITING"

\* WaitingTimerHandler calls CondTimeOutCallback, which does not look at whether
\* the waiter was still queued.
CondTimeOutCallback(t) ==
  /\ pc[t] \in {"condTimed", "condCancel"}
  /\ timer[t] = "armed"
  /\ timer' = [timer EXCEPT ![t] = "fired"]
  /\ IF CondExpires(t)
     THEN /\ lpPendingQueue' = DeleteFromQueue(lpPendingQueue, t)
          /\ nThreadNum' = ThreadNumAfterTimeOut
          /\ dwWaitingStatus' = [dwWaitingStatus EXCEPT ![t] = "TIMEOUT"]
          /\ dwThreadStatus' = [dwThreadStatus EXCEPT ![t] = "READY"]
     ELSE UNCHANGED <<lpPendingQueue, nThreadNum, dwWaitingStatus,
                      dwThreadStatus>>
  /\ UNCHANGED <<mutexVars, pc, result, held, panic, condAlive, condCall,
                 condResult, signalled>>

\* CondWait runs again; it does not look at why.
CondWokenUp(t) ==
  /\ pc[t] = "condWait"
  /\ dwThreadStatus[t] = "READY"
  /\ pc' = [pc EXCEPT ![t] = "run"]
  /\ UNCHANGED <<mutexVars, dwThreadStatus, dwWaitingStatus, timer, result,
                 held, panic, condVars>>

\* TimeOutWaiting runs again, ...
CondWokenUpTimed(t) ==
  /\ pc[t] = "condTimed"
  /\ dwThreadStatus[t] = "READY"
  /\ IF dwWaitingStatus[t] = "WAITING"
     THEN panic' = TRUE /\ UNCHANGED pc
     ELSE pc' = [pc EXCEPT ![t] = "condCancel"] /\ UNCHANGED panic
  /\ UNCHANGED <<mutexVars, dwThreadStatus, dwWaitingStatus, timer, result,
                 held, condVars>>

ResultOfTimer(t) == IF timer[t] = "fired" THEN "TIMEOUT" ELSE dwWaitingStatus[t]
ResultOfWait(t) == dwWaitingStatus[t]

\* ... cancels its timer and tells CondWaitTimeout why it was woken.
CondCancelTimer(t) ==
  /\ pc[t] = "condCancel"
  /\ timer' = [timer EXCEPT ![t] = "none"]
  /\ pc' = [pc EXCEPT ![t] = "run"]
  /\ condResult' = [condResult EXCEPT ![t] = ResultOfWait(t)]
  /\ UNCHANGED <<mutexVars, dwThreadStatus, dwWaitingStatus, result, held,
                 panic, condAlive, nThreadNum, lpPendingQueue, condCall,
                 signalled>>

\* The call returns once the mutex is taken: CondWait with what the mutex said.
CondReturn(t) ==
  /\ condCall' = [condCall EXCEPT ![t] = "none"]
  /\ condResult' = IF condCall[t] = "CondWait"
                   THEN [condResult EXCEPT ![t] = result'[t]]
                   ELSE condResult
  /\ signalled' = signalled \ {t}
  /\ UNCHANGED <<condAlive, nThreadNum, lpPendingQueue>>

\* A wait that gives up the mutex when its time is over.
ReturnAfterTimeOut(t) ==
  /\ condCall[t] = "CondWaitTimeout" /\ pc[t] = "run"
  /\ CondReturn(t)
  /\ UNCHANGED vars

\* WaitForThisObject of the mutex, on the way back.
TakeBack(t) ==
  /\ condCall[t] # "none"
  /\ \/ (TakeFree(t) \/ TakeAgain(t) \/ WokenUp(t)) /\ CondReturn(t)
     \/ WaitForMutexObject(t) /\ UNCHANGED condVars

-----------------------------------------------------------------------------
(* Waking, by threads that run: they need not hold the mutex.               *)

CanWake ==
  condAlive /\ ~panic /\ \E t \in Threads : pc[t] = "run" /\ condCall[t] = "none"

WakeWaiters(S, status) ==
  /\ dwThreadStatus' = [t \in Threads |-> IF t \in S THEN "READY" ELSE dwThreadStatus[t]]
  /\ dwWaitingStatus' = [t \in Threads |-> IF t \in S THEN status ELSE dwWaitingStatus[t]]

\* nThreadNum decides whether there is somebody to wake; a count without a
\* queued thread is a BUG_ON.
CondSignal ==
  /\ CanWake
  /\ nThreadNum > 0
  /\ IF lpPendingQueue = <<>>
     THEN panic' = TRUE
          /\ UNCHANGED <<dwThreadStatus, dwWaitingStatus, lpPendingQueue,
                         nThreadNum, signalled>>
     ELSE /\ WakeWaiters({HeaderElement(lpPendingQueue)}, "RESOURCE")
          /\ signalled' = signalled \union {HeaderElement(lpPendingQueue)}
          /\ lpPendingQueue' = WithoutHeader(lpPendingQueue)
          /\ nThreadNum' = nThreadNum - 1
          /\ UNCHANGED panic
  /\ UNCHANGED <<mutexVars, pc, timer, result, held, condAlive, condCall,
                 condResult>>

\* Broadcast and destruction wake nThreadNum threads.
WakeAll(status) ==
  /\ panic' = (nThreadNum > Len(lpPendingQueue))
  /\ WakeWaiters(ToSet(SubSeq(lpPendingQueue, 1, nThreadNum)), status)
  /\ lpPendingQueue' = SubSeq(lpPendingQueue, nThreadNum + 1, Len(lpPendingQueue))
  /\ nThreadNum' = 0
  /\ UNCHANGED <<mutexVars, pc, timer, result, held, condCall, condResult>>

CondBroadcast ==
  /\ CanWake
  /\ WakeAll("RESOURCE")
  /\ signalled' = signalled \union ToSet(lpPendingQueue)
  /\ UNCHANGED condAlive

ConditionUninitialize ==
  /\ CanWake
  /\ WakeAll("DELETED")
  /\ condAlive' = FALSE
  /\ UNCHANGED signalled

\* A new condition, once no call on the old one is under way.
ConditionInitialize ==
  /\ ~condAlive /\ ~panic
  /\ \A t \in Threads : condCall[t] = "none"
  /\ condAlive' = TRUE
  /\ nThreadNum' = 0
  /\ lpPendingQueue' = <<>>
  /\ UNCHANGED <<vars, condCall, condResult, signalled>>

-----------------------------------------------------------------------------
\* Clients of the mutex.  Its timed waits are the subject of KernelMutex.
MutexClient(t) ==
  /\ condCall[t] = "none"
  /\ \/ TakeFree(t) \/ TakeAgain(t) \/ WaitForMutexObject(t) \/ WokenUp(t)
     \/ ReleaseInner(t) \/ ReleaseFree(t) \/ ReleaseHandOff(t)
  /\ UNCHANGED condVars

CondNext ==
  \/ \E t \in Threads :
       \/ MutexClient(t)
       \/ CondWait(t) \/ CondWaitTimeout(t)
       \/ CondSetTimer(t) \/ CondTimeOutCallback(t)
       \/ CondWokenUp(t) \/ CondWokenUpTimed(t) \/ CondCancelTimer(t)
       \/ TakeBack(t)
  \/ CondSignal \/ CondBroadcast
  \/ ConditionUninitialize \/ ConditionInitialize

CondSpec == CondInit /\ [][CondNext]_allVars

-----------------------------------------------------------------------------
(* Properties.                                                              *)

\* nThreadNum, by which a signal decides whether to look at the queue at all
\* and a broadcast how often, is exactly the threads that sleep in the
\* condition, and those are the queued ones: with a lower count a sleeper
\* is missed, with a higher one BUG_ON is reached, whatever time-outs race.
CountIsWaiters ==
  /\ nThreadNum = Len(lpPendingQueue)
  /\ ToSet(lpPendingQueue) = Waiters
  /\ Cardinality(Waiters) = nThreadNum

\* Every wait on a condition returns to a caller that owns the mutex again at
\* the depth it was left with plus one, also after a time-out and after the
\* destruction of the condition.
ReturnsOwning ==
  [][\A t \in Threads : condCall[t] # "none" /\ condCall'[t] = "none" =>
       /\ lpCurrentOwner' = t
       /\ held'[t] = held[t] + 1
       /\ nCurrOwnCount' = held'[t]]_allVars

\* A timed wait says TIMEOUT only if no signal was spent on it, and RESOURCE
\* only if one was: a timer that fires after the signal, or while the mutex is
\* being taken back, changes nothing.
TimeOutMeansNoSignal ==
  [][\A t \in Threads :
       condCall[t] = "CondWaitTimeout" /\ condCall'[t] = "none" =>
         /\ condResult'[t] = "RESOURCE" <=> t \in signalled
         /\ condResult'[t] # "WAITING"]_allVars
=============================================================================
