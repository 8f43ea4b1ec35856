---------------------------- MODULE KernelEvent ----------------------------
(***************************************************************************)
(* The event of kernel/synobj.c.  SetEvent frees it and wakes everybody,   *)
(* PulseEvent wakes everybody and leaves it occupied, ResetEvent occupies  *)
(* it.  A woken waiter does not look at the event again: what it returns   *)
(* was decided when it was taken out of the queue.                         *)
(*                                                                         *)
(* SetEvent, PulseEvent and EventUninitialize keep the event spin lock     *)
(* while they empty the queue, but take each waiter's own lock only after  *)
(* they have taken the waiter out: the timer handler, which needs that     *)
(* lock only, runs in between.  Allocations succeed.                       *)
(***************************************************************************)
EXTENDS Naturals, FiniteSets, PriorityQueue

CONSTANTS Threads, NoThread

ASSUME EventAssumption == NoThread \notin Threads

VARIABLES
  alive,            \* EventUninitialize has not finished
  dwEventStatus,
  lpWaitingQueue,
  waking,           \* the loop under way, with the event lock held
  popped,           \* waiter taken out of the queue, its lock not yet held
  dwThreadStatus,   \* READY stands for READY and RUNNING
  dwWaitingStatus,
  pc,
  timer,            \* the timer of TimeOutWaiting, per thread
  result,           \* what the last wait of the thread returned
  takenFor          \* history: why the thread was taken out of the queue

eventVars  == <<alive, dwEventStatus, lpWaitingQueue, waking, popped>>
threadVars == <<dwThreadStatus, dwWaitingStatus, pc, timer, result>>
vars == <<eventVars, threadVars, takenFor>>

\* pc: infinite, timed: blocked; arm: queued, SetTimer not yet called; cancel:
\* status read, CancelTimer not yet called.

\* EventInitialize
Init ==
  /\ alive = TRUE
  /\ dwEventStatus = "OCCUPIED"
  /\ lpWaitingQueue = <<>>
  /\ waking = "nobody"
  /\ popped = NoThread
  /\ dwThreadStatus = [t \in Threads |-> "READY"]
  /\ dwWaitingStatus = [t \in Threads |-> "WAITING"]
  /\ pc = [t \in Threads |-> "run"]
  /\ timer = [t \in Threads |-> "none"]
  /\ result = [t \in Threads |-> "none"]
  /\ takenFor = [t \in Threads |-> "none"]

-----------------------------------------------------------------------------
(* The wait calls.                                                          *)

\* The event spin lock is obtained, by a thread outside any wait.
MayEnter(t) == alive /\ waking = "nobody" /\ pc[t] = "run"

Return(t, status) ==
  /\ result' = [result EXCEPT ![t] = status]
  /\ pc' = [pc EXCEPT ![t] = "run"]
  /\ takenFor' = [takenFor EXCEPT ![t] = "none"]

WaitOnFree(t) ==
  /\ MayEnter(t)
  /\ dwEventStatus = "FREE"
  /\ Return(t, "RESOURCE")
  /\ UNCHANGED <<eventVars, dwThreadStatus, dwWaitingStatus, timer>>

\* No time to wait, or the time is over before the lock is obtained.
NoTimeToWait(t) ==
  /\ MayEnter(t)
  /\ dwEventStatus = "OCCUPIED"
  /\ Return(t, "TIMEOUT")
  /\ UNCHANGED <<eventVars, dwThreadStatus, dwWaitingStatus, timer>>

\* Of equal priority, so in order of arrival.
Enqueue(t, next) ==
  /\ MayEnter(t)
  /\ dwEventStatus = "OCCUPIED"
  /\ dwThreadStatus' = [dwThreadStatus EXCEPT ![t] = "BLOCKED"]
  /\ dwWaitingStatus' = [dwWaitingStatus EXCEPT ![t] = "WAITING"]
  /\ lpWaitingQueue' = Append(lpWaitingQueue, t)
  /\ pc' = [pc EXCEPT ![t] = next]
  /\ UNCHANGED <<alive, dwEventStatus, waking, popped, timer, result, takenFor>>

kWaitForEventObject(t)   == Enqueue(t, "infinite")
kWaitForEventObjectEx(t) == Enqueue(t, "arm")

\* The infinite wait does not look at the waiting status.
WokenUp(t) ==
  /\ pc[t] = "infinite" /\ dwThreadStatus[t] = "READY"
  /\ Return(t, "RESOURCE")
  /\ UNCHANGED <<eventVars, dwThreadStatus, dwWaitingStatus, timer>>

-----------------------------------------------------------------------------
(* TimeOutWaiting with the default handler.                                 *)

SetTimer(t) ==
  /\ pc[t] = "arm"
  /\ timer' = [timer EXCEPT ![t] = "armed"]
  /\ pc' = [pc EXCEPT ![t] = "timed"]
  /\ UNCHANGED <<eventVars, dwThreadStatus, dwWaitingStatus, result, takenFor>>

\* The deletion from the queue decides between the handler and the waker.
ByStatusOnly(t) == dwWaitingStatus[t] = "WAITING"
Expires(t) == dwWaitingStatus[t] = "WAITING" /\ ObjectInQueue(lpWaitingQueue, t)

WaitingTimerHandler(t) ==
  /\ timer[t] = "armed"
  /\ timer' = [timer EXCEPT ![t] = "fired"]
  /\ IF Expires(t)
     THEN /\ lpWaitingQueue' = DeleteFromQueue(lpWaitingQueue, t)
          /\ dwWaitingStatus' = [dwWaitingStatus EXCEPT ![t] = "TIMEOUT"]
          /\ dwThreadStatus' = [dwThreadStatus EXCEPT ![t] = "READY"]
     ELSE UNCHANGED <<lpWaitingQueue, dwWaitingStatus, dwThreadStatus>>
  /\ UNCHANGED <<alive, dwEventStatus, waking, popped, pc, result, takenFor>>

\* The waiter runs again (a status of WAITING would be a BUG).
WokenUpTimed(t) ==
  /\ pc[t] = "timed" /\ dwThreadStatus[t] = "READY"
  /\ dwWaitingStatus[t] # "WAITING"
  /\ pc' = [pc EXCEPT ![t] = "cancel"]
  /\ UNCHANGED <<eventVars, dwThreadStatus, dwWaitingStatus, timer, result, takenFor>>

CancelTimer(t) ==
  /\ pc[t] = "cancel"
  /\ timer' = [timer EXCEPT ![t] = "none"]
  /\ Return(t, dwWaitingStatus[t])
  /\ UNCHANGED <<eventVars, dwThreadStatus, dwWaitingStatus>>

-----------------------------------------------------------------------------
(* The calls that wake.  An interrupt handler may set an event, so they need *)
(* no running thread.                                                       *)

Lockable == alive /\ waking = "nobody"

SetEvent ==
  /\ Lockable
  /\ dwEventStatus' = "FREE"
  /\ waking' = "set"
  /\ UNCHANGED <<alive, lpWaitingQueue, popped, threadVars, takenFor>>

\* Nothing to do while the event is free.
PulseEvent ==
  /\ Lockable
  /\ dwEventStatus = "OCCUPIED"
  /\ waking' = "pulse"
  /\ UNCHANGED <<alive, dwEventStatus, lpWaitingQueue, popped, threadVars, takenFor>>

ResetEvent ==
  /\ Lockable
  /\ dwEventStatus' = "OCCUPIED"
  /\ UNCHANGED <<alive, lpWaitingQueue, waking, popped, threadVars, takenFor>>

\* A free event is taken to have no waiters.
EventUninitialize ==
  /\ Lockable
  /\ IF dwEventStatus # "FREE"
     THEN waking' = "delete" /\ UNCHANGED alive
     ELSE alive' = FALSE /\ UNCHANGED waking
  /\ UNCHANGED <<dwEventStatus, lpWaitingQueue, popped, threadVars, takenFor>>

WakeStatus == IF waking = "delete" THEN "DELETED" ELSE "RESOURCE"

\* The loops end when the queue is empty.
OneWoken == lpWaitingQueue = <<>> \/ \E t \in Threads : takenFor[t] # "none"
AllWoken == lpWaitingQueue = <<>>

TakeWaiter ==
  /\ waking # "nobody" /\ popped = NoThread
  /\ ~AllWoken
  /\ popped' = HeaderElement(lpWaitingQueue)
  /\ lpWaitingQueue' = WithoutHeader(lpWaitingQueue)
  /\ takenFor' = [takenFor EXCEPT ![HeaderElement(lpWaitingQueue)] = WakeStatus]
  /\ UNCHANGED <<alive, dwEventStatus, waking, threadVars>>

WakeWaiter ==
  /\ popped # NoThread
  /\ dwThreadStatus' = [dwThreadStatus EXCEPT ![popped] = "READY"]
  /\ dwWaitingStatus' = [dwWaitingStatus EXCEPT ![popped] = WakeStatus]
  /\ popped' = NoThread
  /\ UNCHANGED <<alive, dwEventStatus, lpWaitingQueue, waking, pc, timer, result, takenFor>>

EndOfLoop ==
  /\ waking # "nobody" /\ popped = NoThread
  /\ AllWoken
  /\ waking' = "nobody"
  /\ alive' = (waking # "delete")
  /\ UNCHANGED <<dwEventStatus, lpWaitingQueue, popped, threadVars, takenFor>>

-----------------------------------------------------------------------------
Next ==
  \/ \E t \in Threads :
       \/ WaitOnFree(t) \/ NoTimeToWait(t)
       \/ kWaitForEventObject(t) \/ kWaitForEventObjectEx(t)
       \/ WokenUp(t)
       \/ SetTimer(t) \/ WaitingTimerHandler(t) \/ WokenUpTimed(t) \/ CancelTimer(t)
  \/ SetEvent \/ PulseEvent \/ ResetEvent \/ EventUninitialize
  \/ TakeWaiter \/ WakeWaiter \/ EndOfLoop

Spec == Init /\ [][Next]_vars

\* Ready threads run, a thread that holds the lock goes on, the clock ticks.
SystemFairness ==
  /\ WF_vars(TakeWaiter) /\ WF_vars(WakeWaiter) /\ WF_vars(EndOfLoop)
  /\ \A t \in Threads :
       /\ WF_vars(WokenUp(t))
       /\ WF_vars(SetTimer(t)) /\ WF_vars(WaitingTimerHandler(t))
       /\ WF_vars(WokenUpTimed(t)) /\ WF_vars(CancelTimer(t))

FairSpec == Spec /\ SystemFairness

-----------------------------------------------------------------------------
(* Properties.                                                              *)

\* Nobody waits for a free event, whatever sets, pulses and resets came
\* before: EventUninitialize wakes nobody then.
FreeMeansNobodyWaits ==
  alive /\ dwEventStatus = "FREE" /\ waking # "set" => lpWaitingQueue = <<>>

\* A timed wait reports the signal, or the destruction, that took the thread
\* out of the queue, though its timer fires or the event is reset before it
\* runs; and it reports a time-out only if there was no signal.
TimedWaitReportsSignal ==
  [][\A t \in Threads : pc[t] = "cancel" /\ pc'[t] = "run" =>
       \/ takenFor[t] = result'[t]
       \/ takenFor[t] = "none" /\ result'[t] = "TIMEOUT"]_vars

\* A pulse or a set releases everybody who waited when it was called, even if
\* the event is reset at once; and so does the destruction.
SignalReleasesAll ==
  \A t \in Threads :
    (waking # "nobody" /\ ObjectInQueue(lpWaitingQueue, t)) ~> pc[t] = "run"
=============================================================================
