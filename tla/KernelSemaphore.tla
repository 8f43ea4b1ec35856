-------------------------- MODULE KernelSemaphore --------------------------
(***************************************************************************)
(* The semaphore object of kernel/synobj2.c.  ReleaseSemaphore adds a unit *)
(* and wakes one waiter, but the unit is not handed over: the woken thread *)
(* goes back to __TRY_AGAIN and competes for it with threads that just     *)
(* arrive.  Timed waits use TimeOutWaiting with the default handler, which *)
(* takes the waiter's spin lock but not the semaphore's.                   *)
(*                                                                         *)
(* Steps are the critical sections of the semaphore spin lock, except that *)
(* ReleaseSemaphore and SemUninitialize are split where they have taken a  *)
(* waiter out of the queue and wait for its spin lock: the timer handler   *)
(* may run for that very thread there.  Allocations succeed.               *)
(***************************************************************************)
EXTENDS Integers, FiniteSets, PriorityQueue

CONSTANTS
  Threads,
  NoThread,
  Priority,         \* dwThreadPriority of each thread
  MaxSem            \* the values dwMaxSem may be created with are 1..MaxSem

ASSUME SemaphoreAssumption ==
  /\ NoThread \notin Threads
  /\ Priority \in [Threads -> Nat]
  /\ MaxSem \in Nat \ {0}

VARIABLES
  alive,            \* dwObjectSignature is intact
  dwMaxSem,
  dwCurrSem,
  lpWaitingQueue,
  popped,           \* waiter taken out of the queue, its lock not yet held
  deleting,         \* SemUninitialize is in its loop
  dwThreadStatus,   \* READY stands for READY and RUNNING
  dwWaitingStatus,
  pc,
  timer,            \* the timer of TimeOutWaiting, per thread
  late              \* dwTimeOutTick of the thread's timed wait has passed

semVars    == <<alive, dwMaxSem, dwCurrSem, lpWaitingQueue, popped, deleting>>
threadVars == <<dwThreadStatus, dwWaitingStatus, pc, timer, late>>
vars == <<semVars, threadVars>>

\* pc: infinite, timed: blocked; arm: queued, SetTimer not yet called; cancel:
\* status read, CancelTimer not yet called; again, againTimed: woken, back at
\* __TRY_AGAIN.

\* SemInitialize, then SetSemaphoreCount before anybody else sees the object
\* (kapi.c CreateSemaphore).
Init ==
  /\ alive = TRUE /\ deleting = FALSE
  /\ dwMaxSem \in 1..MaxSem
  /\ dwCurrSem \in 0..dwMaxSem
  /\ lpWaitingQueue = <<>>
  /\ popped = NoThread
  /\ dwThreadStatus = [t \in Threads |-> "READY"]
  /\ dwWaitingStatus = [t \in Threads |-> "WAITING"]
  /\ pc = [t \in Threads |-> "run"]
  /\ timer = [t \in Threads |-> "none"]
  /\ late = [t \in Threads |-> FALSE]

\* The semaphore spin lock is free.
Unlocked == popped = NoThread /\ ~deleting

-----------------------------------------------------------------------------
(* __TRY_AGAIN: one attempt, of a new call (run) or of a woken waiter.      *)

\* The wait returns; dwTimeOutTick is a local of the call.
Return(t) ==
  /\ pc' = [pc EXCEPT ![t] = "run"]
  /\ late' = [late EXCEPT ![t] = FALSE]

Attempting(t) == alive /\ Unlocked /\ pc[t] \in {"run", "again", "againTimed"}

\* Resource available, got it.
TakeUnit(t) ==
  /\ Attempting(t)
  /\ dwCurrSem > 0
  /\ dwCurrSem' = dwCurrSem - 1
  /\ Return(t)
  /\ UNCHANGED <<alive, dwMaxSem, lpWaitingQueue, popped, deleting,
                 dwThreadStatus, dwWaitingStatus, timer>>

\* dwTimeOutTick has passed.  (A wait of zero time gives up at once, and changes
\* nothing.)
GiveUp(t) ==
  /\ Attempting(t)
  /\ dwCurrSem = 0
  /\ pc[t] = "againTimed" /\ late[t]
  /\ Return(t)
  /\ UNCHANGED <<semVars, dwThreadStatus, dwWaitingStatus, timer>>

ArrivalOrder(t) == Append(lpWaitingQueue, t)
ByPriority(t) == InsertIntoQueue(lpWaitingQueue, t, Priority)

Block(t, next) ==
  /\ Attempting(t)
  /\ dwCurrSem = 0
  /\ dwWaitingStatus' = [dwWaitingStatus EXCEPT ![t] = "WAITING"]
  /\ dwThreadStatus' = [dwThreadStatus EXCEPT ![t] = "BLOCKED"]
  /\ lpWaitingQueue' = ByPriority(t)
  /\ pc' = [pc EXCEPT ![t] = next]
  /\ UNCHANGED <<alive, dwMaxSem, dwCurrSem, popped, deleting, timer, late>>

\* WaitForSemObject, and WaitForSemObjectEx with WAIT_TIME_INFINITE.
WaitForSemObject(t) ==
  /\ pc[t] \in {"run", "again"}
  /\ Block(t, "infinite")

\* The time-out check of a woken waiter: without it, it would always wait anew.
NeverLate(t) == pc[t] \in {"run", "againTimed"}
InTime(t) == pc[t] = "run" \/ (pc[t] = "againTimed" /\ ~late[t])

WaitForSemObjectEx(t) ==
  /\ InTime(t)
  /\ Block(t, "arm")

\* The system clock reaches dwTimeOutTick of a timed wait.
ReachTimeOutTick(t) ==
  /\ pc[t] \in {"arm", "timed", "cancel", "againTimed"}
  /\ ~late[t]
  /\ late' = [late EXCEPT ![t] = TRUE]
  /\ UNCHANGED <<semVars, dwThreadStatus, dwWaitingStatus, pc, timer>>

-----------------------------------------------------------------------------
(* TimeOutWaiting with the default handler.                                 *)

SetTimer(t) ==
  /\ pc[t] = "arm"
  /\ timer' = [timer EXCEPT ![t] = "armed"]
  /\ pc' = [pc EXCEPT ![t] = "timed"]
  /\ UNCHANGED <<semVars, dwThreadStatus, dwWaitingStatus, late>>

\* The handler holds the waiter's lock only.  The waiter may already be out of
\* the queue, with ReleaseSemaphore about to wake it: then the queue says so.
ByStatusOnly(t) == dwWaitingStatus[t] = "WAITING"
Expires(t) == dwWaitingStatus[t] = "WAITING" /\ ObjectInQueue(lpWaitingQueue, t)

WaitingTimerHandler(t) ==
  /\ timer[t] = "armed"
  /\ timer' = [timer EXCEPT ![t] = "fired"]
  /\ IF Expires(t)
     THEN /\ lpWaitingQueue' = DeleteFromQueue(lpWaitingQueue, t)
          /\ dwWaitingStatus' = [dwWaitingStatus EXCEPT ![t] = "TIMEOUT"]
          /\ dwThreadStatus' = [dwThreadStatus EXCEPT ![t] = "READY"]
     ELSE UNCHANGED <<lpWaitingQueue, dwWaitingStatus, dwThreadStatus>>
  /\ UNCHANGED <<alive, dwMaxSem, dwCurrSem, popped, deleting, pc, late>>

\* An infinite waiter runs again.
WokenUp(t) ==
  /\ pc[t] = "infinite" /\ dwThreadStatus[t] = "READY"
  /\ IF dwWaitingStatus[t] = "DELETED"
     THEN Return(t)
     ELSE pc' = [pc EXCEPT ![t] = "again"] /\ UNCHANGED late
  /\ UNCHANGED <<semVars, dwThreadStatus, dwWaitingStatus, timer>>

\* A timed waiter runs again (a status of WAITING would be a BUG).
WokenUpTimed(t) ==
  /\ pc[t] = "timed" /\ dwThreadStatus[t] = "READY"
  /\ dwWaitingStatus[t] # "WAITING"
  /\ pc' = [pc EXCEPT ![t] = "cancel"]
  /\ UNCHANGED <<semVars, dwThreadStatus, dwWaitingStatus, timer, late>>

CancelTimer(t) ==
  /\ pc[t] = "cancel"
  /\ timer' = [timer EXCEPT ![t] = "none"]
  /\ IF dwWaitingStatus[t] = "RESOURCE"
     THEN pc' = [pc EXCEPT ![t] = "againTimed"] /\ UNCHANGED late
     ELSE Return(t)
  /\ UNCHANGED <<semVars, dwThreadStatus, dwWaitingStatus>>

-----------------------------------------------------------------------------
(* Release and destruction.                                                 *)

\* A full semaphore refuses the unit and wakes nobody.
MayAddUnit == dwCurrSem < dwMaxSem

\* Every unit wakes a waiter, not only the first one.
WakesOnFirstUnit == lpWaitingQueue # <<>> /\ dwCurrSem = 0
WakesOne == lpWaitingQueue # <<>>

\* Units are added by any thread that runs, whether or not it took one.
ReleaseSemaphore ==
  /\ alive /\ Unlocked
  /\ \E t \in Threads : pc[t] = "run"
  /\ MayAddUnit
  /\ dwCurrSem' = dwCurrSem + 1
  /\ IF WakesOne
     THEN /\ popped' = HeaderElement(lpWaitingQueue)
          /\ lpWaitingQueue' = WithoutHeader(lpWaitingQueue)
     ELSE UNCHANGED <<lpWaitingQueue, popped>>
  /\ UNCHANGED <<alive, dwMaxSem, deleting, threadVars>>

\* The waiter's lock is obtained: make it ready.
WakePopped ==
  /\ popped # NoThread
  /\ dwThreadStatus' = [dwThreadStatus EXCEPT ![popped] = "READY"]
  /\ dwWaitingStatus' = [dwWaitingStatus EXCEPT ![popped] =
                           IF deleting THEN "DELETED" ELSE "RESOURCE"]
  /\ popped' = NoThread
  /\ UNCHANGED <<alive, dwMaxSem, dwCurrSem, lpWaitingQueue, deleting, pc,
                 timer, late>>

\* Waiters are woken only if no unit is available; the queue is destroyed in
\* any case.
WakesWaiters == dwCurrSem = 0

SemUninitialize ==
  /\ alive /\ Unlocked
  /\ \E t \in Threads : pc[t] = "run"
  /\ IF WakesWaiters
     THEN deleting' = TRUE /\ UNCHANGED <<alive, lpWaitingQueue>>
     ELSE alive' = FALSE /\ lpWaitingQueue' = <<>> /\ UNCHANGED deleting
  /\ UNCHANGED <<dwMaxSem, dwCurrSem, popped, threadVars>>

\* One round of the loop, or its end: the signature is cleared.
DeleteLoop ==
  /\ deleting /\ popped = NoThread
  /\ IF lpWaitingQueue = <<>>
     THEN /\ alive' = FALSE /\ deleting' = FALSE
          /\ UNCHANGED <<popped, lpWaitingQueue>>
     ELSE /\ popped' = HeaderElement(lpWaitingQueue)
          /\ lpWaitingQueue' = WithoutHeader(lpWaitingQueue)
          /\ UNCHANGED <<alive, deleting>>
  /\ UNCHANGED <<dwMaxSem, dwCurrSem, threadVars>>

\* A waiter woken by ReleaseSemaphore goes back to a semaphore that is gone:
\* nothing on the way to __TRY_AGAIN looks at the signature.  The freed memory
\* may show a unit or none; in a queue that is gone nobody finds the waiter.
TryFreed(t) ==
  /\ ~alive
  /\ pc[t] \in {"again", "againTimed"}
  /\ \/ Return(t) /\ UNCHANGED <<dwThreadStatus, dwWaitingStatus>>
     \/ /\ pc[t] = "again" \/ ~late[t]
        /\ pc' = [pc EXCEPT ![t] = IF pc[t] = "again" THEN "infinite" ELSE "arm"]
        /\ dwThreadStatus' = [dwThreadStatus EXCEPT ![t] = "BLOCKED"]
        /\ dwWaitingStatus' = [dwWaitingStatus EXCEPT ![t] = "WAITING"]
        /\ UNCHANGED late
  /\ UNCHANGED <<semVars, timer>>

-----------------------------------------------------------------------------
Next ==
  \/ \E t \in Threads :
       \/ TakeUnit(t) \/ GiveUp(t)
       \/ WaitForSemObject(t) \/ WaitForSemObjectEx(t) \/ ReachTimeOutTick(t)
       \/ SetTimer(t) \/ WaitingTimerHandler(t)
       \/ WokenUp(t) \/ WokenUpTimed(t) \/ CancelTimer(t)
       \/ TryFreed(t)
  \/ ReleaseSemaphore \/ WakePopped
  \/ SemUninitialize \/ DeleteLoop

Spec == Init /\ [][Next]_vars

\* Ready threads run, a spin lock is obtained, the clock ticks.  A woken waiter
\* completes its attempt, one way or the other; new calls are not owed.
Attempt(t) == pc[t] # "run" /\ (TakeUnit(t) \/ GiveUp(t) \/ WaitForSemObject(t)
                                \/ WaitForSemObjectEx(t) \/ TryFreed(t))
SystemFairness ==
  /\ WF_vars(WakePopped) /\ WF_vars(DeleteLoop)
  /\ \A t \in Threads :
       /\ WF_vars(SetTimer(t)) /\ WF_vars(WaitingTimerHandler(t))
       /\ WF_vars(ReachTimeOutTick(t))
       /\ WF_vars(WokenUp(t)) /\ WF_vars(WokenUpTimed(t)) /\ WF_vars(CancelTimer(t))
       /\ SF_vars(Attempt(t))

FairSpec == Spec /\ SystemFairness

-----------------------------------------------------------------------------
(* Properties.                                                              *)

\* Threads that were woken for a unit and have not yet tried to take it.
Woken == {t \in Threads :
            \/ popped = t
            \/ pc[t] \in {"infinite", "arm", "timed", "cancel"} /\ dwWaitingStatus[t] = "RESOURCE"
            \/ pc[t] \in {"again", "againTimed"}}

\* No lost wake-up: while threads are queued, no more units are free than
\* there are woken threads on their way to them, whoever takes the units, and
\* whatever times out in between.
NoLostWakeUp ==
  alive /\ ~deleting /\ lpWaitingQueue # <<>> => dwCurrSem <= Cardinality(Woken)

\* The wait queue holds exactly the threads that block in a wait, each once;
\* only the one being woken is neither queued nor awake.
QueueIsTheWaiters ==
  /\ Cardinality(ToSet(lpWaitingQueue)) = Len(lpWaitingQueue)
  /\ alive => \A t \in Threads :
       dwThreadStatus[t] = "BLOCKED" <=> ObjectInQueue(lpWaitingQueue, t) \/ popped = t

\* The queue is served by priority: whoever is taken out of it outranks or
\* equals everybody left in it.
ServedByPriority ==
  [][\A t, u \in Threads :
       popped' = t /\ popped # t /\ ObjectInQueue(lpWaitingQueue, u)
         => Priority[u] <= Priority[t]]_vars

\* A timed wait comes to an end even if every unit it is woken for is taken by
\* somebody else.  (Not promised once the semaphore was destroyed.)
TimedWaitReturns ==
  \A t \in Threads : (pc[t] = "timed" /\ alive) ~> (pc[t] = "run" \/ ~alive)
=============================================================================
