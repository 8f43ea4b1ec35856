-------------------------- MODULE KernelEventProofs --------------------------
(***************************************************************************)
(* Theorems about KernelEvent for any set of threads.                      *)
(***************************************************************************)
EXTENDS KernelEvent, QueueLemmas

Blocking == {"infinite", "arm", "timed"}

-----------------------------------------------------------------------------
(* The inductive invariant.                                                 *)

TypeOK ==
  /\ alive \in BOOLEAN
  /\ dwEventStatus \in {"FREE", "OCCUPIED"}
  /\ lpWaitingQueue \in Seq(Threads)
  /\ waking \in {"nobody", "set", "pulse", "delete"}
  /\ popped \in Threads \union {NoThread}
  /\ dwThreadStatus \in [Threads -> {"READY", "BLOCKED"}]
  /\ dwWaitingStatus \in [Threads -> {"WAITING", "RESOURCE", "TIMEOUT", "DELETED"}]
  /\ pc \in [Threads -> {"run", "cancel"} \union Blocking]
  /\ timer \in [Threads -> {"none", "armed", "fired"}]
  /\ result \in [Threads -> {"none", "WAITING", "RESOURCE", "TIMEOUT", "DELETED"}]
  /\ takenFor \in [Threads -> {"none", "RESOURCE", "DELETED"}]

\* A thread that has blocked and that nobody has made ready.
Waits(t) ==
  pc[t] \in Blocking /\ dwThreadStatus[t] = "BLOCKED" /\ dwWaitingStatus[t] = "WAITING"

\* Queued threads wait, each is queued once, and no signal has reached them.
QueueHoldsWaiters ==
  /\ IsInjective(lpWaitingQueue)
  /\ \A t \in Threads : ObjectInQueue(lpWaitingQueue, t) =>
       Waits(t) /\ takenFor[t] = "none" /\ t # popped

\* The thread taken out last still waits, for the loop that goes on.
PoppedWaits ==
  popped # NoThread =>
    waking # "nobody" /\ Waits(popped) /\ takenFor[popped] = WakeStatus

\* Why a thread was taken out of the queue is what its status says, once its
\* lock was obtained; nothing of it is left after the call.
SignalIsRecorded ==
  \A t \in Threads :
    /\ pc[t] = "run" => takenFor[t] = "none"
    /\ pc[t] = "cancel" => dwWaitingStatus[t] # "WAITING"
    /\ pc[t] # "run" /\ dwWaitingStatus[t] \in {"RESOURCE", "DELETED"} =>
         takenFor[t] = dwWaitingStatus[t]
    /\ dwWaitingStatus[t] = "TIMEOUT" => takenFor[t] = "none"

IInv ==
  /\ TypeOK
  /\ QueueHoldsWaiters
  /\ PoppedWaits
  /\ SignalIsRecorded
  /\ FreeMeansNobodyWaits

-----------------------------------------------------------------------------
(* Every step preserves it.                                                 *)

LEMMA InitIInv == Init => IInv
<1> SUFFICES ASSUME Init
             PROVE  IInv
  OBVIOUS
<1>1. TypeOK
  BY EventAssumption DEF Init, TypeOK, Blocking
<1>2. QueueHoldsWaiters
  BY <1>1, EmptyQueue DEF Init, QueueHoldsWaiters, TypeOK
<1>3. PoppedWaits /\ SignalIsRecorded /\ FreeMeansNobodyWaits
  BY DEF Init, PoppedWaits, SignalIsRecorded, FreeMeansNobodyWaits
<1> QED BY <1>1, <1>2, <1>3 DEF IInv

\* The calls that return at once.
LEMMA ReturnAtOncePreserves ==
  ASSUME IInv, NEW t \in Threads, WaitOnFree(t) \/ NoTimeToWait(t)
  PROVE  IInv'
<1> USE EventAssumption
    DEF WaitOnFree, NoTimeToWait, MayEnter, Return, eventVars, IInv, TypeOK, Blocking
<1>1. TypeOK'
  OBVIOUS
<1>2. QueueHoldsWaiters'
  BY DEF QueueHoldsWaiters, Waits
<1>3. PoppedWaits'
  BY DEF PoppedWaits, Waits, WakeStatus
<1>4. SignalIsRecorded' /\ FreeMeansNobodyWaits'
  BY DEF SignalIsRecorded, FreeMeansNobodyWaits
<1> QED BY <1>1, <1>2, <1>3, <1>4

LEMMA EnqueuePreserves ==
  ASSUME IInv, NEW t \in Threads, NEW next \in {"infinite", "arm"}, Enqueue(t, next)
  PROVE  IInv'
<1> USE EventAssumption DEF Enqueue, MayEnter, IInv
<1>1. ~ObjectInQueue(lpWaitingQueue, t)
  BY DEF QueueHoldsWaiters, Waits, Blocking
<1>2. /\ lpWaitingQueue' \in Seq(Threads)
      /\ IsInjective(lpWaitingQueue')
      /\ \A u : ObjectInQueue(lpWaitingQueue', u) <=> ObjectInQueue(lpWaitingQueue, u) \/ u = t
  BY <1>1, AppendKeeps DEF TypeOK, QueueHoldsWaiters
<1>3. TypeOK'
  BY <1>2 DEF TypeOK, Blocking
<1>4. popped = NoThread
  BY DEF PoppedWaits
<1>5. QueueHoldsWaiters'
  BY <1>2, <1>4 DEF TypeOK, QueueHoldsWaiters, SignalIsRecorded, Waits, Blocking
<1>6. PoppedWaits'
  BY <1>4 DEF PoppedWaits
<1>7. SignalIsRecorded'
  BY DEF TypeOK, SignalIsRecorded
<1>8. FreeMeansNobodyWaits'
  BY DEF FreeMeansNobodyWaits
<1> QED BY <1>3, <1>5, <1>6, <1>7, <1>8

LEMMA WokenUpPreserves ==
  ASSUME IInv, NEW t \in Threads, WokenUp(t)
  PROVE  IInv'
<1> USE EventAssumption DEF WokenUp, Return, eventVars, IInv, TypeOK, Blocking
<1>1. TypeOK'
  OBVIOUS
<1>2. QueueHoldsWaiters'
  BY DEF QueueHoldsWaiters, Waits
<1>3. PoppedWaits'
  BY DEF PoppedWaits, Waits, WakeStatus
<1>4. SignalIsRecorded' /\ FreeMeansNobodyWaits'
  BY DEF SignalIsRecorded, FreeMeansNobodyWaits
<1> QED BY <1>1, <1>2, <1>3, <1>4

LEMMA SetTimerPreserves ==
  ASSUME IInv, NEW t \in Threads, SetTimer(t)
  PROVE  IInv'
<1> USE EventAssumption DEF SetTimer, eventVars, IInv, TypeOK, Blocking
<1>1. TypeOK'
  OBVIOUS
<1>2. QueueHoldsWaiters'
  BY DEF QueueHoldsWaiters, Waits
<1>3. PoppedWaits'
  BY DEF PoppedWaits, Waits, WakeStatus
<1>4. SignalIsRecorded' /\ FreeMeansNobodyWaits'
  BY DEF SignalIsRecorded, FreeMeansNobodyWaits
<1> QED BY <1>1, <1>2, <1>3, <1>4

LEMMA WaitingTimerHandlerPreserves ==
  ASSUME IInv, NEW t \in Threads, WaitingTimerHandler(t)
  PROVE  IInv'
<1> USE EventAssumption DEF WaitingTimerHandler, IInv
<1>1. CASE Expires(t)
  <2>1. ObjectInQueue(lpWaitingQueue, t) /\ takenFor[t] = "none" /\ t # popped /\ Waits(t)
    BY <1>1 DEF Expires, QueueHoldsWaiters
  <2>2. /\ lpWaitingQueue' \in Seq(Threads)
        /\ IsInjective(lpWaitingQueue')
        /\ \A u : ObjectInQueue(lpWaitingQueue', u) <=> ObjectInQueue(lpWaitingQueue, u) /\ u # t
    BY <1>1, DeleteKeeps DEF TypeOK, QueueHoldsWaiters
  <2>3. TypeOK'
    BY <1>1, <2>2 DEF TypeOK, Blocking
  <2>4. QueueHoldsWaiters'
    BY <1>1, <2>2 DEF TypeOK, QueueHoldsWaiters, Waits, Blocking
  <2>5. PoppedWaits'
    BY <1>1, <2>1 DEF TypeOK, PoppedWaits, Waits, Blocking, WakeStatus
  <2>6. SignalIsRecorded'
    BY <1>1, <2>1 DEF TypeOK, SignalIsRecorded, Waits, Blocking
  <2>7. FreeMeansNobodyWaits'
    BY <2>1, EmptyQueue DEF TypeOK, FreeMeansNobodyWaits
  <2> QED BY <2>3, <2>4, <2>5, <2>6, <2>7
<1>2. CASE ~Expires(t)
  <2>1. UNCHANGED <<alive, dwEventStatus, lpWaitingQueue, waking, popped, dwThreadStatus,
                    dwWaitingStatus, pc, result, takenFor>>
    BY <1>2
  <2>2. TypeOK'
    BY <2>1 DEF TypeOK
  <2>3. QueueHoldsWaiters' /\ PoppedWaits' /\ SignalIsRecorded' /\ FreeMeansNobodyWaits'
    BY <2>1 DEF QueueHoldsWaiters, PoppedWaits, SignalIsRecorded, FreeMeansNobodyWaits,
                Waits, WakeStatus
  <2> QED BY <2>2, <2>3
<1> QED BY <1>1, <1>2

LEMMA WokenUpTimedPreserves ==
  ASSUME IInv, NEW t \in Threads, WokenUpTimed(t)
  PROVE  IInv'
<1> USE EventAssumption DEF WokenUpTimed, eventVars, IInv, TypeOK, Blocking
<1>1. TypeOK'
  OBVIOUS
<1>2. QueueHoldsWaiters'
  BY DEF QueueHoldsWaiters, Waits
<1>3. PoppedWaits'
  BY DEF PoppedWaits, Waits, WakeStatus
<1>4. SignalIsRecorded' /\ FreeMeansNobodyWaits'
  BY DEF SignalIsRecorded, FreeMeansNobodyWaits
<1> QED BY <1>1, <1>2, <1>3, <1>4

LEMMA CancelTimerPreserves ==
  ASSUME IInv, NEW t \in Threads, CancelTimer(t)
  PROVE  IInv'
<1> USE EventAssumption DEF CancelTimer, Return, eventVars, IInv, TypeOK, Blocking
<1>1. TypeOK'
  OBVIOUS
<1>2. QueueHoldsWaiters'
  BY DEF QueueHoldsWaiters, Waits
<1>3. PoppedWaits'
  BY DEF PoppedWaits, Waits, WakeStatus
<1>4. SignalIsRecorded' /\ FreeMeansNobodyWaits'
  BY DEF SignalIsRecorded, FreeMeansNobodyWaits
<1> QED BY <1>1, <1>2, <1>3, <1>4

\* The calls that take the event lock touch no thread.
LEMMA SignalCallsPreserve ==
  ASSUME IInv, SetEvent \/ PulseEvent \/ ResetEvent \/ EventUninitialize
  PROVE  IInv'
<1> USE EventAssumption
    DEF SetEvent, PulseEvent, ResetEvent, EventUninitialize, Lockable, threadVars, IInv
<1>1. TypeOK'
  BY DEF TypeOK
<1>2. popped = NoThread
  BY DEF PoppedWaits
<1>3. QueueHoldsWaiters' /\ PoppedWaits' /\ SignalIsRecorded'
  BY <1>2 DEF QueueHoldsWaiters, PoppedWaits, SignalIsRecorded, Waits
<1>4. FreeMeansNobodyWaits'
  BY DEF FreeMeansNobodyWaits, TypeOK
<1> QED BY <1>1, <1>3, <1>4

LEMMA TakeWaiterPreserves ==
  ASSUME IInv, TakeWaiter
  PROVE  IInv'
<1> DEFINE h == HeaderElement(lpWaitingQueue)
<1> USE EventAssumption DEF TakeWaiter, AllWoken, threadVars, IInv
<1>1. /\ h \in Threads /\ ObjectInQueue(lpWaitingQueue, h)
      /\ lpWaitingQueue' \in Seq(Threads)
      /\ IsInjective(lpWaitingQueue')
      /\ \A u : ObjectInQueue(lpWaitingQueue', u) <=> ObjectInQueue(lpWaitingQueue, u) /\ u # h
  BY HeaderTaken DEF TypeOK, QueueHoldsWaiters
<1>2. popped' = h /\ takenFor' = [takenFor EXCEPT ![h] = WakeStatus]
  OBVIOUS
<1>3. Waits(h)
  BY <1>1 DEF QueueHoldsWaiters
<1> HIDE DEF h
<1>4. WakeStatus \in {"RESOURCE", "DELETED"} /\ WakeStatus' = WakeStatus
  BY DEF WakeStatus
<1>5. TypeOK'
  BY <1>1, <1>2, <1>4 DEF TypeOK
<1>6. QueueHoldsWaiters'
  BY <1>1, <1>2 DEF TypeOK, QueueHoldsWaiters, Waits
<1>7. PoppedWaits'
  BY <1>1, <1>2, <1>3, <1>4 DEF TypeOK, PoppedWaits, Waits
<1>8. SignalIsRecorded'
  BY <1>2, <1>3 DEF TypeOK, SignalIsRecorded, Waits, Blocking
<1>9. FreeMeansNobodyWaits'
  BY DEF FreeMeansNobodyWaits
<1> QED BY <1>5, <1>6, <1>7, <1>8, <1>9

LEMMA WakeWaiterPreserves ==
  ASSUME IInv, WakeWaiter
  PROVE  IInv'
<1> USE EventAssumption DEF WakeWaiter, IInv
<1>1. popped \in Threads /\ WakeStatus \in {"RESOURCE", "DELETED"}
  BY DEF TypeOK, WakeStatus
<1>2. TypeOK'
  BY <1>1 DEF TypeOK
<1>3. QueueHoldsWaiters'
  BY <1>1 DEF TypeOK, QueueHoldsWaiters, Waits
<1>4. PoppedWaits'
  BY DEF PoppedWaits
<1>5. SignalIsRecorded'
  BY <1>1 DEF TypeOK, SignalIsRecorded, PoppedWaits, Waits, Blocking
<1>6. FreeMeansNobodyWaits'
  BY DEF FreeMeansNobodyWaits
<1> QED BY <1>2, <1>3, <1>4, <1>5, <1>6

LEMMA EndOfLoopPreserves ==
  ASSUME IInv, EndOfLoop
  PROVE  IInv'
<1> USE EventAssumption DEF EndOfLoop, AllWoken, threadVars, IInv
<1>1. TypeOK'
  BY DEF TypeOK
<1>2. QueueHoldsWaiters' /\ PoppedWaits' /\ SignalIsRecorded' /\ FreeMeansNobodyWaits'
  BY DEF QueueHoldsWaiters, PoppedWaits, SignalIsRecorded, FreeMeansNobodyWaits, Waits
<1> QED BY <1>1, <1>2

LEMMA NextPreserves ==
  ASSUME IInv, [Next]_vars
  PROVE  IInv'
<1>1. CASE UNCHANGED vars
  BY <1>1 DEF vars, eventVars, threadVars, IInv, TypeOK, QueueHoldsWaiters, PoppedWaits,
              SignalIsRecorded, FreeMeansNobodyWaits, Waits, WakeStatus
<1>2. ASSUME NEW t \in Threads,
             \/ WaitOnFree(t) \/ NoTimeToWait(t)
             \/ kWaitForEventObject(t) \/ kWaitForEventObjectEx(t)
             \/ WokenUp(t)
             \/ SetTimer(t) \/ WaitingTimerHandler(t) \/ WokenUpTimed(t) \/ CancelTimer(t)
      PROVE  IInv'
  BY <1>2, ReturnAtOncePreserves, EnqueuePreserves, WokenUpPreserves, SetTimerPreserves,
     WaitingTimerHandlerPreserves, WokenUpTimedPreserves, CancelTimerPreserves
  DEF kWaitForEventObject, kWaitForEventObjectEx
<1>3. CASE SetEvent \/ PulseEvent \/ ResetEvent \/ EventUninitialize
  BY <1>3, SignalCallsPreserve
<1>4. CASE TakeWaiter \/ WakeWaiter \/ EndOfLoop
  BY <1>4, TakeWaiterPreserves, WakeWaiterPreserves, EndOfLoopPreserves
<1> QED BY <1>1, <1>2, <1>3, <1>4 DEF Next

-----------------------------------------------------------------------------
(* What follows from it.                                                    *)

\* The inductive invariant holds of every behaviour of the event.
THEOREM Invariance == Spec => []IInv
<1>1. Init => IInv
  BY InitIInv
<1>2. IInv /\ [Next]_vars => IInv'
  BY NextPreserves
<1> QED BY <1>1, <1>2, PTL DEF Spec

\* Nobody waits for a free event, so the destruction of a free event, which
\* wakes nobody, leaves nobody behind.
THEOREM NobodyWaitsForFree == Spec => []FreeMeansNobodyWaits
<1>1. IInv => FreeMeansNobodyWaits
  BY DEF IInv
<1> QED BY <1>1, Invariance, PTL

\* What a timed wait returns: the reason for which the thread was taken out of
\* the queue, and a time-out only if nobody took it out.
LEMMA StepReportsSignal ==
  ASSUME IInv, [Next]_vars
  PROVE  [\A t \in Threads : pc[t] = "cancel" /\ pc'[t] = "run" =>
            \/ takenFor[t] = result'[t]
            \/ takenFor[t] = "none" /\ result'[t] = "TIMEOUT"]_vars
<1> SUFFICES ASSUME Next, NEW t \in Threads, pc[t] = "cancel", pc'[t] = "run"
             PROVE  \/ takenFor[t] = result'[t]
                    \/ takenFor[t] = "none" /\ result'[t] = "TIMEOUT"
  OBVIOUS
<1> USE DEF IInv, TypeOK
<1>1. ASSUME NEW u \in Threads,
             \/ WaitOnFree(u) \/ NoTimeToWait(u)
             \/ kWaitForEventObject(u) \/ kWaitForEventObjectEx(u)
             \/ WokenUp(u)
             \/ SetTimer(u) \/ WaitingTimerHandler(u) \/ WokenUpTimed(u)
      PROVE  pc'[t] = "cancel"
  BY <1>1 DEF WaitOnFree, NoTimeToWait, kWaitForEventObject, kWaitForEventObjectEx, Enqueue,
     MayEnter, WokenUp, Return, SetTimer, WaitingTimerHandler, WokenUpTimed, eventVars
<1>2. ASSUME \/ SetEvent \/ PulseEvent \/ ResetEvent \/ EventUninitialize
             \/ TakeWaiter \/ WakeWaiter \/ EndOfLoop
      PROVE  pc'[t] = "cancel"
  BY <1>2 DEF SetEvent, PulseEvent, ResetEvent, EventUninitialize, TakeWaiter, WakeWaiter,
     EndOfLoop, threadVars
<1>3. ASSUME NEW u \in Threads, CancelTimer(u)
      PROVE  u = t /\ result'[t] = dwWaitingStatus[t]
  BY <1>3 DEF CancelTimer, Return, eventVars
<1>4. PICK u \in Threads : CancelTimer(u)
  BY <1>1, <1>2 DEF Next
<1>5. result'[t] = dwWaitingStatus[t]
  BY <1>3, <1>4
<1> QED BY <1>5 DEF SignalIsRecorded

\* A timer that fires late, a reset of the event or a second signal before the
\* waiter runs never changes what its wait returns.
THEOREM SignalIsReported == Spec => TimedWaitReportsSignal
<1>1. IInv /\ [Next]_vars
        => [\A t \in Threads : pc[t] = "cancel" /\ pc'[t] = "run" =>
              \/ takenFor[t] = result'[t]
              \/ takenFor[t] = "none" /\ result'[t] = "TIMEOUT"]_vars
  BY StepReportsSignal
<1> QED BY <1>1, Invariance, PTL DEF Spec, TimedWaitReportsSignal
=============================================================================
