--------------------------- MODULE KernelMailbox ---------------------------
(***************************************************************************)
(* The mailbox of kernel/synobj2.c: a ring of messages with a queue of     *)
(* threads that wait to send and one of threads that wait to get.  Nothing *)
(* is handed over: a woken thread goes back to __TRY_AGAIN.                *)
(*                                                                         *)
(* One step is one critical section of the mailbox spin lock.  A waiter is *)
(* taken out of a queue and made ready in the same step: the timer handler *)
(* that runs in between finds it in no queue and does nothing, as          *)
(* KernelSemaphore shows.  Allocations succeed; max_total_msg_num (a       *)
(* statistic) and the priority of messages (which the code ignores) are    *)
(* left out.                                                               *)
(***************************************************************************)
EXTENDS Integers, FiniteSets, PriorityQueue

CONSTANTS
  Threads,
  Priority,         \* dwThreadPriority of each thread
  Messages,
  NoMessage,        \* a zeroed slot
  MaxSize           \* bound on dwMaxMessageNum, not in the code

ASSUME MailboxAssumption ==
  /\ NoMessage \notin Messages
  /\ Priority \in [Threads -> Nat]
  /\ MaxSize \in Nat \ {0}

VARIABLES
  alive,            \* dwObjectSignature is intact
  dwMaxMessageNum,
  pMessageArray,
  dwMessageHeader,
  dwMessageTail,
  dwCurrMessageNum,
  lpGettingQueue,
  lpSendingQueue,
  delivered,        \* the message GetMail returned last
  dwThreadStatus,   \* READY stands for READY and RUNNING
  dwWaitingStatus,
  pc,
  call,             \* the call a thread is in: get, send, or none
  mail,             \* the message a thread in SendMail has not put yet
  timer             \* the timer of TimeOutWaiting, per thread

ringVars   == <<dwMaxMessageNum, pMessageArray, dwMessageHeader, dwMessageTail,
                dwCurrMessageNum, delivered>>
queueVars  == <<lpGettingQueue, lpSendingQueue>>
statusVars == <<dwThreadStatus, dwWaitingStatus>>
callVars   == <<pc, call, mail, timer>>
vars == <<alive, ringVars, queueVars, statusVars, callVars>>

\* pc: infinite, timed: blocked; arm: queued, SetTimer not yet called; cancel:
\* status read, CancelTimer not yet called; again, againTimed: woken, back at
\* __TRY_AGAIN.

\* SetMailboxSize, and MailboxInitialize with the size CreateMailbox sets.
EmptyRing(size) == [i \in 0..size-1 |-> NoMessage]

Init ==
  /\ alive = TRUE
  /\ dwMaxMessageNum \in 1..MaxSize
  /\ pMessageArray = EmptyRing(dwMaxMessageNum)
  /\ dwMessageHeader = 0 /\ dwMessageTail = 0 /\ dwCurrMessageNum = 0
  /\ lpGettingQueue = <<>> /\ lpSendingQueue = <<>>
  /\ delivered = NoMessage
  /\ dwThreadStatus = [t \in Threads |-> "READY"]
  /\ dwWaitingStatus = [t \in Threads |-> "WAITING"]
  /\ pc = [t \in Threads |-> "run"]
  /\ call = [t \in Threads |-> "none"]
  /\ mail = [t \in Threads |-> NoMessage]
  /\ timer = [t \in Threads |-> "none"]

-----------------------------------------------------------------------------
(* Common parts of the two calls.                                           *)

\* A new call, or a woken waiter of the same kind, at __TRY_AGAIN.
Attempting(t, kind) ==
  /\ alive
  /\ \/ pc[t] = "run"
     \/ pc[t] \in {"again", "againTimed"} /\ call[t] = kind

Return(t) ==
  /\ pc' = [pc EXCEPT ![t] = "run"]
  /\ call' = [call EXCEPT ![t] = "none"]
  /\ mail' = [mail EXCEPT ![t] = NoMessage]

Wake(woken, status) ==
  /\ dwThreadStatus' = [t \in Threads |-> IF t \in woken THEN "READY" ELSE dwThreadStatus[t]]
  /\ dwWaitingStatus' = [t \in Threads |-> IF t \in woken THEN status ELSE dwWaitingStatus[t]]

\* The caller blocks for ever (pc infinite) or with a time-out (pc arm).
BlockCaller(t, kind, m) ==
  /\ dwThreadStatus' = [dwThreadStatus EXCEPT ![t] = "BLOCKED"]
  /\ dwWaitingStatus' = [dwWaitingStatus EXCEPT ![t] = "WAITING"]
  /\ \E next \in {"infinite", "arm"} :
       /\ pc[t] = "again" => next = "infinite"
       /\ pc[t] = "againTimed" => next = "arm"
       /\ pc' = [pc EXCEPT ![t] = next]
  /\ call' = [call EXCEPT ![t] = kind]
  /\ mail' = [mail EXCEPT ![t] = m]

WaitIn(queue, t) == InsertIntoQueue(queue, t, Priority)

-----------------------------------------------------------------------------
(* GetMail and SendMail.  A call with no time to wait that finds the mailbox *)
(* empty or full changes nothing.                                           *)

\* The loop of GetMail goes on until the queue of senders is empty.
OneTaken(queue) == IF queue = <<>> THEN <<>> ELSE WithoutHeader(queue)
AllTaken(queue) == <<>>

\* A slot of a full mailbox becomes free: the senders are taken out and woken.
SendersLeft ==
  IF dwCurrMessageNum = dwMaxMessageNum THEN AllTaken(lpSendingQueue) ELSE lpSendingQueue
WokenSenders == ToSet(lpSendingQueue) \ ToSet(SendersLeft)

NextSlot(i) == (i + 1) % dwMaxMessageNum

GetMail(t) ==
  /\ Attempting(t, "get")
  /\ dwCurrMessageNum > 0
  /\ lpSendingQueue' = SendersLeft
  /\ Wake(WokenSenders, "RESOURCE")
  /\ delivered' = pMessageArray[dwMessageHeader]
  /\ dwCurrMessageNum' = dwCurrMessageNum - 1
  /\ dwMessageHeader' = NextSlot(dwMessageHeader)
  /\ Return(t)
  /\ UNCHANGED <<alive, dwMaxMessageNum, pMessageArray, dwMessageTail,
                 lpGettingQueue, timer>>

WaitForMail(t) ==
  /\ Attempting(t, "get")
  /\ dwCurrMessageNum = 0
  /\ lpGettingQueue' = WaitIn(lpGettingQueue, t)
  /\ BlockCaller(t, "get", NoMessage)
  /\ UNCHANGED <<alive, ringVars, lpSendingQueue, timer>>

\* Only a message that arrives in an empty mailbox wakes a getter.
WakesGetter == dwCurrMessageNum = 0 /\ lpGettingQueue # <<>>

\* A full mailbox takes no message.
NeverFull == dwCurrMessageNum <= dwMaxMessageNum
HasSlot == dwCurrMessageNum < dwMaxMessageNum

\* A new call brings its message; a woken sender still has it.
SendMail(t, m) ==
  /\ Attempting(t, "send")
  /\ pc[t] # "run" => m = mail[t]
  /\ HasSlot
  /\ IF WakesGetter
     THEN /\ Wake({HeaderElement(lpGettingQueue)}, "RESOURCE")
          /\ lpGettingQueue' = WithoutHeader(lpGettingQueue)
     ELSE UNCHANGED <<statusVars, lpGettingQueue>>
  /\ pMessageArray' = [pMessageArray EXCEPT ![dwMessageTail] = m]
  /\ dwCurrMessageNum' = dwCurrMessageNum + 1
  /\ dwMessageTail' = NextSlot(dwMessageTail)
  /\ Return(t)
  /\ UNCHANGED <<alive, dwMaxMessageNum, dwMessageHeader, delivered,
                 lpSendingQueue, timer>>

WaitToSend(t, m) ==
  /\ Attempting(t, "send")
  /\ pc[t] # "run" => m = mail[t]
  /\ ~HasSlot
  /\ lpSendingQueue' = WaitIn(lpSendingQueue, t)
  /\ BlockCaller(t, "send", m)
  /\ UNCHANGED <<alive, ringVars, lpGettingQueue, timer>>

-----------------------------------------------------------------------------
(* TimeOutWaiting with the default handler, and the ways back from a wait.  *)

SetTimer(t) ==
  /\ pc[t] = "arm"
  /\ timer' = [timer EXCEPT ![t] = "armed"]
  /\ pc' = [pc EXCEPT ![t] = "timed"]
  /\ UNCHANGED <<alive, ringVars, queueVars, statusVars, call, mail>>

Expires(t) ==
  /\ dwWaitingStatus[t] = "WAITING"
  /\ ObjectInQueue(lpGettingQueue, t) \/ ObjectInQueue(lpSendingQueue, t)

\* What the handler leaves of the queue its parameter names.
StillQueued(queue, t) == queue
Dequeued(queue, t) == DeleteFromQueue(queue, t)

WaitingTimerHandler(t) ==
  /\ timer[t] = "armed"
  /\ timer' = [timer EXCEPT ![t] = "fired"]
  /\ IF Expires(t)
     THEN /\ lpGettingQueue' = Dequeued(lpGettingQueue, t)
          /\ lpSendingQueue' = Dequeued(lpSendingQueue, t)
          /\ Wake({t}, "TIMEOUT")
     ELSE UNCHANGED <<queueVars, statusVars>>
  /\ UNCHANGED <<alive, ringVars, pc, call, mail>>

\* The infinite waiter runs again; the status is read without a lock.
WokenUp(t) ==
  /\ pc[t] = "infinite" /\ dwThreadStatus[t] = "READY"
  /\ IF dwWaitingStatus[t] = "DELETED"
     THEN Return(t)
     ELSE pc' = [pc EXCEPT ![t] = "again"] /\ UNCHANGED <<call, mail>>
  /\ UNCHANGED <<alive, ringVars, queueVars, statusVars, timer>>

WokenUpTimed(t) ==
  /\ pc[t] = "timed" /\ dwThreadStatus[t] = "READY"
  /\ dwWaitingStatus[t] # "WAITING"
  /\ pc' = [pc EXCEPT ![t] = "cancel"]
  /\ UNCHANGED <<alive, ringVars, queueVars, statusVars, call, mail, timer>>

\* A woken thread tries again, for the whole time anew: the comparison with
\* dwTimeOutTick is disabled.
CancelTimer(t) ==
  /\ pc[t] = "cancel"
  /\ timer' = [timer EXCEPT ![t] = "none"]
  /\ IF dwWaitingStatus[t] = "RESOURCE"
     THEN pc' = [pc EXCEPT ![t] = "againTimed"] /\ UNCHANGED <<call, mail>>
     ELSE Return(t)
  /\ UNCHANGED <<alive, ringVars, queueVars, statusVars>>

-----------------------------------------------------------------------------
(* The size, and destruction.                                               *)

\* Refused while there are messages or getters.
Unused == dwCurrMessageNum = 0 /\ lpGettingQueue = <<>>

SetMailboxSize(size) ==
  /\ alive
  /\ \E t \in Threads : pc[t] = "run"
  /\ Unused
  /\ dwMaxMessageNum' = size
  /\ pMessageArray' = EmptyRing(size)
  /\ dwMessageHeader' = 0 /\ dwMessageTail' = 0
  /\ UNCHANGED <<alive, dwCurrMessageNum, delivered, queueVars, statusVars, callVars>>

\* Getters are woken if there is no message, senders if there is no slot.  The
\* queues are destroyed whether or not they are empty.
MailboxUninitialize ==
  /\ alive
  /\ \E t \in Threads : pc[t] = "run"
  /\ alive' = FALSE
  /\ Wake((IF dwCurrMessageNum = 0 THEN ToSet(lpGettingQueue) ELSE {})
            \union (IF dwCurrMessageNum = dwMaxMessageNum THEN ToSet(lpSendingQueue) ELSE {}),
          "DELETED")
  /\ lpGettingQueue' = <<>> /\ lpSendingQueue' = <<>>
  /\ UNCHANGED <<ringVars, callVars>>

\* A thread woken before the destruction tries again on freed memory, which may
\* look like a success or like a reason to wait, in queues that are gone.
TryFreed(t) ==
  /\ ~alive
  /\ pc[t] \in {"again", "againTimed"}
  /\ \/ Return(t) /\ UNCHANGED statusVars
     \/ BlockCaller(t, call[t], mail[t])
  /\ UNCHANGED <<alive, ringVars, queueVars, timer>>

-----------------------------------------------------------------------------
Next ==
  \/ \E t \in Threads :
       \/ GetMail(t) \/ WaitForMail(t)
       \/ \E m \in Messages : SendMail(t, m) \/ WaitToSend(t, m)
       \/ SetTimer(t) \/ WaitingTimerHandler(t)
       \/ WokenUp(t) \/ WokenUpTimed(t) \/ CancelTimer(t)
       \/ TryFreed(t)
  \/ \E size \in 1..MaxSize : SetMailboxSize(size)
  \/ MailboxUninitialize

Spec == Init /\ [][Next]_vars

-----------------------------------------------------------------------------
(* Properties.                                                              *)

\* The messages in the ring, oldest first.
Content ==
  IF alive
  THEN [i \in 1..dwCurrMessageNum |->
          pMessageArray[(dwMessageHeader + i - 1) % dwMaxMessageNum]]
  ELSE <<>>

\* The ring is a FIFO channel: no message is lost, duplicated or overtaken,
\* across wrap-around, retries of woken senders and changes of the size.
Channel == INSTANCE BoundedChannel WITH
             buffer <- Content, capacity <- IF alive THEN dwMaxMessageNum ELSE 0
ImplementsBoundedChannel == Channel!Spec

\* Threads wait to send only while the mailbox is full: that is why it is
\* enough that GetMail wakes senders of a full mailbox only.
SendersWaitOnFull ==
  alive /\ lpSendingQueue # <<>> => dwCurrMessageNum = dwMaxMessageNum

\* A blocked thread is in the queue of the call it is in, once, and nobody else
\* is in a queue.
QueuesAreTheWaiters ==
  alive =>
    /\ Len(lpGettingQueue) = Cardinality(ToSet(lpGettingQueue))
    /\ Len(lpSendingQueue) = Cardinality(ToSet(lpSendingQueue))
    /\ \A t \in Threads :
         /\ ObjectInQueue(lpGettingQueue, t) <=> dwThreadStatus[t] = "BLOCKED" /\ call[t] = "get"
         /\ ObjectInQueue(lpSendingQueue, t) <=> dwThreadStatus[t] = "BLOCKED" /\ call[t] = "send"
=============================================================================
