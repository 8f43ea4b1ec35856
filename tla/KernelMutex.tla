---------------------------- MODULE KernelMutex ----------------------------
(***************************************************************************)
(* The mutex object of kernel/synobj.c: WaitForThisObject (infinite),      *)
(* WaitForThisObjectEx (with a one-shot timer), ReleaseMutex with direct   *)
(* hand-off, and destruction while threads wait.                           *)
(*                                                                         *)
(* One step is one critical section: the code holds the mutex spin lock    *)
(* (and, nested in it, the lock of the waiter it touches).  Between two    *)
(* critical sections of one call anything else may run on other CPUs, so   *)
(* a call that blocks is split at each of them; pc says where it is.       *)
(* Waits for a spin lock that never end are the subject of SpinLockOrder.  *)
(***************************************************************************)
EXTENDS Naturals, PriorityQueue

CONSTANTS
  Threads,        \* kernel threads that use the mutex
  NoThread,       \* lpCurrentOwner == NULL
  MaxOwn,         \* bound on recursive acquisitions, not in the code
  AllocMayFail    \* may KMemAlloc fail for a queue element or a timer?

ASSUME MutexAssumption ==
  /\ NoThread \notin Threads
  /\ MaxOwn \in Nat \ {0}
  /\ AllocMayFail \in BOOLEAN

VARIABLES
  alive,            \* the object exists (between Initialize and Uninitialize)
  dwMutexStatus,
  dwWaitingNum,
  lpCurrentOwner,
  nCurrOwnCount,
  lpWaitingQueue,
  dwThreadStatus,   \* READY stands for READY and RUNNING
  dwWaitingStatus,
  pc,               \* where each thread is inside a call on the mutex
  timer,            \* the timer object of TimeOutWaiting, per thread
  result,           \* what the last wait of the thread returned
  held,             \* client view: acquisitions it has not yet released
  panic             \* BUG or BUG_ON was reached: the machine stops

mutexVars  == <<alive, dwMutexStatus, dwWaitingNum, lpCurrentOwner,
                nCurrOwnCount, lpWaitingQueue>>
threadVars == <<dwThreadStatus, dwWaitingStatus, pc, timer, result, held>>
vars == <<mutexVars, threadVars, panic>>

WaitStatus == {"WAITING", "RESOURCE", "TIMEOUT", "DELETED"}
\* run: outside any call; infinite: past the critical section of
\* WaitForMutexObject; arm: queued but TimeOutWaiting has not yet called
\* SetTimer; timed: timer set; cancel: status read, CancelTimer not yet called.
Blocking  == {"infinite", "arm", "timed"}
InCall(t) == pc[t] # "run"

TypeOK ==
  /\ alive \in BOOLEAN
  /\ dwMutexStatus \in {"FREE", "OCCUPIED"}
  /\ dwWaitingNum \in Nat
  /\ lpCurrentOwner \in Threads \union {NoThread}
  /\ nCurrOwnCount \in 0..MaxOwn
  /\ lpWaitingQueue \in Seq(Threads)
  /\ dwThreadStatus \in [Threads -> {"READY", "BLOCKED"}]
  /\ dwWaitingStatus \in [Threads -> WaitStatus]
  /\ pc \in [Threads -> {"run", "cancel"} \union Blocking]
  /\ timer \in [Threads -> {"none", "armed", "fired"}]
  /\ result \in [Threads -> WaitStatus]
  /\ held \in [Threads -> 0..MaxOwn]
  /\ panic \in BOOLEAN

\* MutexInitialize
InitializedMutex ==
  /\ dwMutexStatus = "FREE"
  /\ dwWaitingNum = 0
  /\ lpCurrentOwner = NoThread
  /\ nCurrOwnCount = 0
  /\ lpWaitingQueue = <<>>

Init ==
  /\ alive = TRUE
  /\ InitializedMutex
  /\ dwThreadStatus = [t \in Threads |-> "READY"]
  /\ dwWaitingStatus = [t \in Threads |-> "WAITING"]
  /\ pc = [t \in Threads |-> "run"]
  /\ timer = [t \in Threads |-> "none"]
  /\ result = [t \in Threads |-> "WAITING"]
  /\ held = [t \in Threads |-> 0]
  /\ panic = FALSE

-----------------------------------------------------------------------------
(* Acquisition.  Both wait routines take a free mutex, or one the caller    *)
(* already owns, without blocking.                                          *)

CanCall(t) == ~panic /\ alive /\ pc[t] = "run"

\* A new owner counts as a waiter too.
UncountedOwner == dwWaitingNum
CountOwner == dwWaitingNum + 1

\* Mutex is free: occupy it.
TakeFree(t) ==
  /\ CanCall(t)
  /\ dwMutexStatus = "FREE"
  /\ dwMutexStatus' = "OCCUPIED"
  /\ dwWaitingNum' = CountOwner
  /\ lpCurrentOwner' = t
  /\ nCurrOwnCount' = 1
  /\ held' = [held EXCEPT ![t] = @ + 1]
  /\ result' = [result EXCEPT ![t] = "RESOURCE"]
  /\ UNCHANGED <<alive, lpWaitingQueue, dwThreadStatus, dwWaitingStatus, pc,
                 timer, panic>>

\* The current owner asks again.
TakeAgain(t) ==
  /\ CanCall(t)
  /\ dwMutexStatus = "OCCUPIED" /\ lpCurrentOwner = t
  /\ nCurrOwnCount < MaxOwn
  /\ nCurrOwnCount' = nCurrOwnCount + 1
  /\ held' = [held EXCEPT ![t] = @ + 1]
  /\ result' = [result EXCEPT ![t] = "RESOURCE"]
  /\ UNCHANGED <<alive, dwMutexStatus, dwWaitingNum, lpCurrentOwner,
                 lpWaitingQueue, dwThreadStatus, dwWaitingStatus, pc, timer,
                 panic>>

\* WaitForMutexObjectEx with a zero time on a mutex of somebody else.
TryFails(t) ==
  /\ CanCall(t)
  /\ dwMutexStatus = "OCCUPIED" /\ lpCurrentOwner # t
  /\ result' = [result EXCEPT ![t] = "TIMEOUT"]
  /\ UNCHANGED <<mutexVars, dwThreadStatus, dwWaitingStatus, pc, timer, held,
                 panic>>

\* All waiters are inserted with priority 0, so in order of arrival.
QueuedFirst(t) == <<t>> \o lpWaitingQueue
Queued(t) == Append(lpWaitingQueue, t)

\* Queue the caller and block it.  The
\* return value of InsertIntoQueue is ignored: when it fails the caller is
\* counted and blocked, but not queued.
Enqueue(t, next) ==
  /\ CanCall(t)
  /\ dwMutexStatus = "OCCUPIED" /\ lpCurrentOwner # t
  /\ dwWaitingStatus' = [dwWaitingStatus EXCEPT ![t] = "WAITING"]
  /\ dwThreadStatus' = [dwThreadStatus EXCEPT ![t] = "BLOCKED"]
  /\ dwWaitingNum' = dwWaitingNum + 1
  /\ \/ lpWaitingQueue' = Queued(t)
     \/ AllocMayFail /\ UNCHANGED lpWaitingQueue
  /\ pc' = [pc EXCEPT ![t] = next]
  /\ UNCHANGED <<alive, dwMutexStatus, lpCurrentOwner, nCurrOwnCount, timer,
                 result, held, panic>>

WaitForMutexObject(t)   == Enqueue(t, "infinite")
WaitForMutexObjectEx(t) == Enqueue(t, "arm")

-----------------------------------------------------------------------------
(* TimeOutWaiting, the part every timed wait shares.                        *)

ForgottenTimer == "none"
NewTimer == "armed"

\* SetTimer runs after the mutex lock was left.  Without memory for the timer
\* TimeOutWaiting returns OBJECT_WAIT_FAILED, which the caller answers by BUG.
SetTimer(t) ==
  /\ ~panic
  /\ pc[t] = "arm"
  /\ \/ /\ timer' = [timer EXCEPT ![t] = NewTimer]
        /\ pc' = [pc EXCEPT ![t] = "timed"]
        /\ UNCHANGED panic
     \/ /\ AllocMayFail
        /\ panic' = TRUE
        /\ UNCHANGED <<timer, pc>>
  /\ UNCHANGED <<mutexVars, dwThreadStatus, dwWaitingStatus, result, held>>

\* MutexTimeOutCallback acts only if the waiter is still in the queue, and then
\* no longer counts it.
UncheckedExpiry(t) == TRUE
Expires(t) == dwWaitingStatus[t] = "WAITING" /\ ObjectInQueue(lpWaitingQueue, t)

StaleWaitingNum == dwWaitingNum
WaitingNumAfterTimeOut == dwWaitingNum - 1

\* WaitingTimerHandler, in the timer interrupt: nothing to do once the waiter
\* was served or the mutex deleted.
WaitingTimerHandler(t) ==
  /\ ~panic
  /\ timer[t] = "armed"
  /\ timer' = [timer EXCEPT ![t] = "fired"]
  /\ IF Expires(t)
     THEN /\ lpWaitingQueue' = DeleteFromQueue(lpWaitingQueue, t)
          /\ dwWaitingNum' = WaitingNumAfterTimeOut
          /\ dwWaitingStatus' = [dwWaitingStatus EXCEPT ![t] = "TIMEOUT"]
          /\ dwThreadStatus' = [dwThreadStatus EXCEPT ![t] = "READY"]
          /\ UNCHANGED panic
     ELSE /\ panic' = (dwWaitingStatus[t] = "TIMEOUT")
          /\ UNCHANGED <<lpWaitingQueue, dwWaitingNum, dwWaitingStatus,
                         dwThreadStatus>>
  /\ UNCHANGED <<alive, dwMutexStatus, lpCurrentOwner, nCurrOwnCount, pc,
                 result, held>>

\* What a wait hands to its caller: the client counts an acquisition, unless
\* the mutex was destroyed after the hand-off.
Return(t, status) ==
  /\ result' = [result EXCEPT ![t] = status]
  /\ held' = [held EXCEPT ![t] =
                IF status = "RESOURCE" /\ alive THEN @ + 1 ELSE @]

\* The waiter runs again and WaitForMutexObject returns: DELETED if that bit
\* is set, RESOURCE for anything else.
WokenUp(t) ==
  /\ ~panic
  /\ pc[t] = "infinite"
  /\ dwThreadStatus[t] = "READY"
  /\ Return(t, IF dwWaitingStatus[t] = "DELETED" THEN "DELETED"
               ELSE "RESOURCE")
  /\ pc' = [pc EXCEPT ![t] = "run"]
  /\ UNCHANGED <<mutexVars, dwThreadStatus, dwWaitingStatus, timer, panic>>

\* The waiter runs again inside TimeOutWaiting and reads its status.
WokenUpTimed(t) ==
  /\ ~panic
  /\ pc[t] = "timed"
  /\ dwThreadStatus[t] = "READY"
  /\ IF dwWaitingStatus[t] = "WAITING"
     THEN panic' = TRUE /\ UNCHANGED pc
     ELSE pc' = [pc EXCEPT ![t] = "cancel"] /\ UNCHANGED panic
  /\ UNCHANGED <<mutexVars, dwThreadStatus, dwWaitingStatus, timer, result,
                 held>>

\* CancelTimer destroys the timer object whether or not it has fired.
KeptUnlessFired(t) == IF timer[t] = "fired" THEN "none" ELSE timer[t]
Cancelled(t) == "none"

\* The value TimeOutWaiting returns, passed on by WaitForMutexObjectEx.
TimedResult(t) == dwWaitingStatus[t]

CancelTimer(t) ==
  /\ ~panic
  /\ pc[t] = "cancel"
  /\ timer' = [timer EXCEPT ![t] = Cancelled(t)]
  /\ pc' = [pc EXCEPT ![t] = "run"]
  /\ Return(t, TimedResult(t))
  /\ UNCHANGED <<mutexVars, dwThreadStatus, dwWaitingStatus, panic>>

-----------------------------------------------------------------------------
(* Release.  Only the owner may call it (BUG_ON otherwise): a client        *)
(* releases what it holds, and MutualExclusion says that makes it the owner. *)

\* A recursive acquisition is undone.
ReleaseInner(t) ==
  /\ CanCall(t) /\ held[t] > 0
  /\ lpCurrentOwner = t /\ nCurrOwnCount > 1
  /\ nCurrOwnCount' = nCurrOwnCount - 1
  /\ held' = [held EXCEPT ![t] = @ - 1]
  /\ UNCHANGED <<alive, dwMutexStatus, dwWaitingNum, lpCurrentOwner,
                 lpWaitingQueue, dwThreadStatus, dwWaitingStatus, pc, timer,
                 result, panic>>

\* dwWaitingNum after the decrement at the last release.
WaitingNumLeft == IF dwWaitingNum > 0 THEN dwWaitingNum - 1 ELSE 0

\* Nobody is counted as waiting: the mutex becomes free.
ReleaseFree(t) ==
  /\ CanCall(t) /\ held[t] > 0
  /\ lpCurrentOwner = t /\ nCurrOwnCount = 1
  /\ WaitingNumLeft = 0
  /\ dwWaitingNum' = 0
  /\ dwMutexStatus' = "FREE"
  /\ lpCurrentOwner' = NoThread
  /\ nCurrOwnCount' = 0
  /\ held' = [held EXCEPT ![t] = @ - 1]
  /\ UNCHANGED <<alive, lpWaitingQueue, dwThreadStatus, dwWaitingStatus, pc,
                 timer, result, panic>>

\* Somebody is counted as waiting: the head of the queue becomes the owner
\* before it runs.  A count without a queued thread is a BUG_ON.
ReleaseHandOff(t) ==
  /\ CanCall(t) /\ held[t] > 0
  /\ lpCurrentOwner = t /\ nCurrOwnCount = 1
  /\ WaitingNumLeft > 0
  /\ dwWaitingNum' = WaitingNumLeft
  /\ held' = [held EXCEPT ![t] = @ - 1]
  /\ IF lpWaitingQueue = <<>>
     THEN /\ panic' = TRUE
          /\ nCurrOwnCount' = 0
          /\ UNCHANGED <<lpWaitingQueue, lpCurrentOwner, dwThreadStatus,
                         dwWaitingStatus>>
     ELSE LET next == HeaderElement(lpWaitingQueue) IN
          /\ lpWaitingQueue' = WithoutHeader(lpWaitingQueue)
          /\ lpCurrentOwner' = next
          /\ nCurrOwnCount' = 1
          /\ dwThreadStatus' = [dwThreadStatus EXCEPT ![next] = "READY"]
          /\ dwWaitingStatus' = [dwWaitingStatus EXCEPT ![next] = "RESOURCE"]
          /\ UNCHANGED panic
  /\ UNCHANGED <<alive, dwMutexStatus, pc, timer, result>>

-----------------------------------------------------------------------------
(* Destruction, by any thread that runs, while others wait or own.          *)

FirstQueued == IF lpWaitingQueue = <<>> THEN {} ELSE {Head(lpWaitingQueue)}
AllQueued == ToSet(lpWaitingQueue)

\* Every queued thread is woken with DELETED.  The fields of the object are
\* not reset; the memory goes away.  Acquisitions of the old object are void.
MutexUninitialize ==
  /\ ~panic /\ alive
  /\ \E t \in Threads : pc[t] = "run"
  /\ alive' = FALSE
  /\ dwThreadStatus' = [t \in Threads |->
       IF t \in AllQueued THEN "READY" ELSE dwThreadStatus[t]]
  /\ dwWaitingStatus' = [t \in Threads |->
       IF t \in AllQueued THEN "DELETED" ELSE dwWaitingStatus[t]]
  /\ lpWaitingQueue' = <<>>
  /\ held' = [t \in Threads |-> 0]
  /\ UNCHANGED <<dwMutexStatus, dwWaitingNum, lpCurrentOwner, nCurrOwnCount,
                 pc, timer, result, panic>>

\* A new mutex, once no call on the old one is under way.
MutexInitialize ==
  /\ ~panic /\ ~alive
  /\ \A t \in Threads : pc[t] = "run"
  /\ alive' = TRUE
  /\ dwMutexStatus' = "FREE"
  /\ dwWaitingNum' = 0
  /\ lpCurrentOwner' = NoThread
  /\ nCurrOwnCount' = 0
  /\ lpWaitingQueue' = <<>>
  /\ UNCHANGED <<threadVars, panic>>

-----------------------------------------------------------------------------
Next ==
  \/ \E t \in Threads :
       \/ TakeFree(t) \/ TakeAgain(t) \/ TryFails(t)
       \/ WaitForMutexObject(t) \/ WaitForMutexObjectEx(t)
       \/ SetTimer(t) \/ WaitingTimerHandler(t)
       \/ WokenUp(t) \/ WokenUpTimed(t) \/ CancelTimer(t)
       \/ ReleaseInner(t) \/ ReleaseFree(t) \/ ReleaseHandOff(t)
  \/ MutexUninitialize \/ MutexInitialize

Spec == Init /\ [][Next]_vars

\* The scheduler runs every ready thread and the clock keeps ticking.  Nothing
\* is assumed of clients: they may never call, and never release.
SystemFairness ==
  \A t \in Threads :
    /\ WF_vars(SetTimer(t))
    /\ WF_vars(WaitingTimerHandler(t))
    /\ WF_vars(WokenUp(t))
    /\ WF_vars(WokenUpTimed(t))
    /\ WF_vars(CancelTimer(t))

FairSpec == Spec /\ SystemFairness

-----------------------------------------------------------------------------
(* Properties.                                                              *)

Served(t) == pc[t] \in Blocking \union {"cancel"} /\ dwWaitingStatus[t] = "RESOURCE"

\* Two threads never both believe that they hold the mutex, and the one that
\* does is the recorded owner with the recorded depth, across hand-offs that
\* race timeouts.
MutualExclusion ==
  /\ \A t, u \in Threads : held[t] > 0 /\ held[u] > 0 => t = u
  /\ alive /\ ~panic => \A t \in Threads :
       held[t] > 0 => lpCurrentOwner = t /\ nCurrOwnCount = held[t]

\* Ownership is never given to nobody: an occupied mutex belongs to a thread
\* that holds it, or that was handed it and is about to return RESOURCE.  A
\* hand-off to a waiter that timed out at the same moment would break this.
NoLostHandOff ==
  alive /\ ~panic /\ dwMutexStatus = "OCCUPIED" =>
    \E t \in Threads : lpCurrentOwner = t /\ (held[t] > 0 \/ Served(t))

\* dwWaitingNum, on which release decides between freeing and handing off, is
\* the owner plus the queued threads.
WaitingNumCounts ==
  alive /\ ~panic =>
    dwWaitingNum = Len(lpWaitingQueue) + (IF lpCurrentOwner = NoThread THEN 0 ELSE 1)

\* No BUG or BUG_ON is reachable.
NoPanic == ~panic

\* A timer that can still fire never outlives the call that set it: its
\* handler parameter is on that call's stack.
TimerWithinCall ==
  \A t \in Threads : timer[t] # "none" => pc[t] \in {"timed", "cancel"}

\* The mutex is a hand-off lock: no barging, waiters served in order of
\* arrival, although release looks at dwWaitingNum and never at the queue.
Lock == INSTANCE HandOffLock WITH
          owner <- IF alive THEN lpCurrentOwner ELSE NoThread,
          depth <- IF alive THEN nCurrOwnCount ELSE 0,
          line  <- lpWaitingQueue
ImplementsHandOffLock == Lock!Spec

\* A timed wait returns, whatever the owner does.
TimedWaitReturns ==
  \A t \in Threads : (pc[t] = "timed") ~> (pc[t] = "run" \/ panic)

\* Destroying the mutex lets every waiter return.
DeleteReleasesWaiters ==
  \A t \in Threads : (~alive /\ InCall(t)) ~> (pc[t] = "run" \/ panic)
=============================================================================
