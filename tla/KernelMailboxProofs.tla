------------------------ MODULE KernelMailboxProofs ------------------------
(***************************************************************************)
(* Theorems about KernelMailbox for any set of threads, any priorities,    *)
(* any messages and any size of the ring.                                  *)
(***************************************************************************)
EXTENDS KernelMailbox, QueueLemmas

Blocking == {"infinite", "arm", "timed"}

-----------------------------------------------------------------------------
(* The inductive invariant.                                                 *)

TypeOK ==
  /\ alive \in BOOLEAN
  /\ dwMaxMessageNum \in 1..MaxSize
  /\ pMessageArray \in [0..dwMaxMessageNum-1 -> Messages \union {NoMessage}]
  /\ dwMessageHeader \in 0..dwMaxMessageNum-1
  /\ dwMessageTail \in 0..dwMaxMessageNum-1
  /\ dwCurrMessageNum \in 0..dwMaxMessageNum
  /\ lpGettingQueue \in Seq(Threads) /\ lpSendingQueue \in Seq(Threads)
  /\ delivered \in Messages \union {NoMessage}
  /\ dwThreadStatus \in [Threads -> {"READY", "BLOCKED"}]
  /\ dwWaitingStatus \in [Threads -> {"WAITING", "RESOURCE", "TIMEOUT", "DELETED"}]
  /\ pc \in [Threads -> {"run", "cancel", "again", "againTimed"} \union Blocking]
  /\ call \in [Threads -> {"none", "get", "send"}]
  /\ mail \in [Threads -> Messages \union {NoMessage}]
  /\ timer \in [Threads -> {"none", "armed", "fired"}]

\* The counter tells how far the tail is behind the header, around the ring.
TailFollowsHeader ==
  dwMessageTail = (dwMessageHeader + dwCurrMessageNum) % dwMaxMessageNum

Waits(t, kind) == dwThreadStatus[t] = "BLOCKED" /\ call[t] = kind

\* Who is blocked in a call is in its queue, once; the queues of a mailbox that
\* is gone are empty.
QueuesHoldWaiters ==
  /\ IsInjective(lpGettingQueue) /\ IsInjective(lpSendingQueue)
  /\ alive => \A t \in Threads : /\ ObjectInQueue(lpGettingQueue, t) <=> Waits(t, "get")
                                 /\ ObjectInQueue(lpSendingQueue, t) <=> Waits(t, "send")
  /\ ~alive => lpGettingQueue = <<>> /\ lpSendingQueue = <<>>

\* Only a thread inside a wait is blocked, so one that tries again is not.
BlockedInsideWait == \A t \in Threads : dwThreadStatus[t] = "BLOCKED" => pc[t] \in Blocking

IInv ==
  /\ TypeOK
  /\ TailFollowsHeader
  /\ QueuesHoldWaiters
  /\ BlockedInsideWait
  /\ SendersWaitOnFull

-----------------------------------------------------------------------------
(* The arithmetic of the ring.                                              *)

\* Less than twice the size, the remainder is a subtraction.
LEMMA WrapAround ==
  ASSUME NEW m \in Nat \ {0}, NEW a \in Nat
  PROVE  /\ a % m \in 0..m-1
         /\ a < m => a % m = a
         /\ a >= m /\ a < 2 * m => a % m = a - m
<1>1. a % m \in 0..m-1
  OBVIOUS
<1>2. a < m => a % m = a
  OBVIOUS
<1>3. a >= m /\ a < 2 * m => a % m = a - m
  OBVIOUS
<1> QED BY <1>1, <1>2, <1>3

\* One slot on from a place in the ring is the place one further on.
LEMMA OneFurther ==
  ASSUME NEW m \in Nat \ {0}, NEW h \in 0..m-1, NEW n \in 0..m
  PROVE  /\ n < m => (((h + n) % m) + 1) % m = (h + n + 1) % m
         /\ n > 0 => (((h + 1) % m) + (n - 1)) % m = (h + n) % m
<1>1. \A a \in Nat : /\ a < m => a % m = a
                     /\ a >= m /\ a < 2 * m => a % m = a - m
  BY WrapAround
<1>2. ASSUME n < m
      PROVE  (((h + n) % m) + 1) % m = (h + n + 1) % m
  <2>1. CASE h + n + 1 < m
    <3>1. (h + n) % m = h + n
      BY <1>1, <2>1
    <3> QED BY <3>1
  <2>2. CASE h + n + 1 >= m /\ h + n < m
    <3>1. (h + n) % m = h + n
      BY <1>1, <2>2
    <3> QED BY <3>1
  <2>3. CASE h + n >= m
    <3>1. (h + n) % m = h + n - m
      BY <1>1, <2>3
    <3>2. h + n - m + 1 \in Nat /\ h + n - m + 1 < m
      BY <1>2, <2>3
    <3>3. (h + n - m + 1) % m = h + n - m + 1
      BY <1>1, <3>2
    <3>4. (h + n + 1) % m = h + n + 1 - m
      BY <1>1, <1>2, <2>3
    <3> QED BY <3>1, <3>3, <3>4
  <2> QED BY <2>1, <2>2, <2>3
<1>3. ASSUME n > 0
      PROVE  (((h + 1) % m) + (n - 1)) % m = (h + n) % m
  <2>1. CASE h + 1 < m
    <3>1. (h + 1) % m = h + 1
      BY <1>1, <2>1
    <3>2. h + 1 + (n - 1) = h + n
      BY <1>3
    <3> QED BY <3>1, <3>2
  <2>2. CASE h + 1 = m
    <3>1. (h + 1) % m = 0
      BY <1>1, <2>2
    <3>2. (h + n) % m = h + n - m /\ h + n - m = n - 1
      BY <1>1, <1>3, <2>2
    <3>3. (n - 1) % m = n - 1
      BY <1>1, <1>3
    <3> QED BY <3>1, <3>2, <3>3
  <2> QED BY <2>1, <2>2
<1> QED BY <1>2, <1>3

-----------------------------------------------------------------------------
(* Every step preserves it.                                                 *)

LEMMA InitIInv == Init => IInv
<1> SUFFICES ASSUME Init
             PROVE  IInv
  OBVIOUS
<1> USE MailboxAssumption DEF Init
<1>1. dwMaxMessageNum \in Nat \ {0} /\ 0 \in 0..dwMaxMessageNum-1 /\ 0 \in 0..dwMaxMessageNum
  OBVIOUS
<1>2. <<>> \in Seq(Threads)
  OBVIOUS
<1>3. TypeOK
  BY <1>1, <1>2 DEF TypeOK, EmptyRing, Blocking
<1>4. TailFollowsHeader
  BY <1>1, WrapAround DEF TailFollowsHeader
<1>5. QueuesHoldWaiters
  BY <1>2, EmptyQueue DEF QueuesHoldWaiters, Waits
<1>6. BlockedInsideWait /\ SendersWaitOnFull
  BY DEF BlockedInsideWait, SendersWaitOnFull
<1> QED BY <1>3, <1>4, <1>5, <1>6 DEF IInv

\* The ring moves on by one slot at either end.
LEMMA SlotsInRing ==
  ASSUME IInv
  PROVE  /\ dwMaxMessageNum \in Nat \ {0}
         /\ \A i \in Nat : NextSlot(i) \in 0..dwMaxMessageNum-1
         /\ dwCurrMessageNum < dwMaxMessageNum =>
              NextSlot(dwMessageTail)
                = (dwMessageHeader + (dwCurrMessageNum + 1)) % dwMaxMessageNum
         /\ dwCurrMessageNum > 0 =>
              dwMessageTail
                = (NextSlot(dwMessageHeader) + (dwCurrMessageNum - 1)) % dwMaxMessageNum
<1>1. /\ dwMaxMessageNum \in Nat \ {0} /\ dwMessageHeader \in 0..dwMaxMessageNum-1
      /\ dwCurrMessageNum \in 0..dwMaxMessageNum
  BY MailboxAssumption DEF IInv, TypeOK
<1>2. \A i \in Nat : NextSlot(i) \in 0..dwMaxMessageNum-1
  BY <1>1, WrapAround DEF NextSlot
<1>3. dwMessageTail = (dwMessageHeader + dwCurrMessageNum) % dwMaxMessageNum
  BY DEF IInv, TailFollowsHeader
<1>4. dwMessageHeader + (dwCurrMessageNum + 1) = dwMessageHeader + dwCurrMessageNum + 1
  BY <1>1
<1> QED BY <1>1, <1>2, <1>3, <1>4, OneFurther DEF NextSlot

\* A thread that starts a call or tries again is in no queue.
LEMMA AttemptingIsNotQueued ==
  ASSUME IInv, NEW t \in Threads, NEW kind, Attempting(t, kind)
  PROVE  /\ alive /\ dwThreadStatus[t] = "READY"
         /\ ~ObjectInQueue(lpGettingQueue, t) /\ ~ObjectInQueue(lpSendingQueue, t)
  BY DEF Attempting, IInv, TypeOK, BlockedInsideWait, QueuesHoldWaiters, Waits, Blocking

LEMMA GetMailPreserves ==
  ASSUME IInv, NEW t \in Threads, GetMail(t)
  PROVE  IInv'
<1> USE MailboxAssumption DEF GetMail, Return, IInv
<1>1. /\ alive /\ dwThreadStatus[t] = "READY"
      /\ ~ObjectInQueue(lpGettingQueue, t) /\ ~ObjectInQueue(lpSendingQueue, t)
  BY AttemptingIsNotQueued
<1>2. lpSendingQueue \in Seq(Threads) /\ lpGettingQueue \in Seq(Threads) /\ <<>> \in Seq(Threads)
  BY DEF TypeOK
<1>3. /\ lpSendingQueue' \in {<<>>, lpSendingQueue}
      /\ dwCurrMessageNum = dwMaxMessageNum => lpSendingQueue' = <<>>
      /\ dwCurrMessageNum # dwMaxMessageNum => lpSendingQueue' = lpSendingQueue
  BY DEF SendersLeft, AllTaken
<1>4. \A u \in Threads : u \in WokenSenders
                           <=> ObjectInQueue(lpSendingQueue, u) /\ ~ObjectInQueue(lpSendingQueue', u)
  <2>1. lpSendingQueue' \in Seq(Threads) /\ lpSendingQueue' = SendersLeft
    BY <1>2, <1>3
  <2> QED BY <1>2, <2>1, QueueMembers DEF WokenSenders
<1>5. /\ dwThreadStatus' = [u \in Threads |-> IF u \in WokenSenders THEN "READY"
                                               ELSE dwThreadStatus[u]]
      /\ dwWaitingStatus' = [u \in Threads |-> IF u \in WokenSenders THEN "RESOURCE"
                                                ELSE dwWaitingStatus[u]]
  BY DEF Wake
<1>6. /\ dwCurrMessageNum' \in 0..dwMaxMessageNum'
      /\ dwMessageHeader' \in 0..dwMaxMessageNum'-1
      /\ delivered' \in Messages \union {NoMessage}
  BY SlotsInRing DEF TypeOK
<1>7. TypeOK'
  BY <1>2, <1>3, <1>5, <1>6 DEF TypeOK
<1>8. TailFollowsHeader'
  BY SlotsInRing DEF TailFollowsHeader
<1>9. QueuesHoldWaiters'
  <2>1. IsInjective(lpSendingQueue') /\ IsInjective(lpGettingQueue')
    BY <1>2, <1>3, EmptyQueue DEF QueuesHoldWaiters
  <2>2. ASSUME NEW u \in Threads
        PROVE  /\ ObjectInQueue(lpGettingQueue', u) <=> Waits(u, "get")'
               /\ ObjectInQueue(lpSendingQueue', u) <=> Waits(u, "send")'
    <3>1. CASE u = t
      <4>1. ~ObjectInQueue(lpSendingQueue', t)
        BY <1>1, <1>2, <1>3, EmptyQueue
      <4> QED BY <1>1, <1>5, <3>1, <4>1 DEF TypeOK, Waits
    <3>2. CASE u # t
      <4>1. call'[u] = call[u]
        BY <3>2 DEF TypeOK
      <4>2. ObjectInQueue(lpSendingQueue', u) => ObjectInQueue(lpSendingQueue, u)
        BY <1>2, <1>3, EmptyQueue
      <4> QED BY <1>1, <1>4, <1>5, <4>1, <4>2 DEF QueuesHoldWaiters, Waits
    <3> QED BY <3>1, <3>2
  <2> QED BY <1>1, <2>1, <2>2 DEF QueuesHoldWaiters
<1>10. BlockedInsideWait'
  BY <1>1, <1>5 DEF TypeOK, BlockedInsideWait
<1>11. SendersWaitOnFull'
  BY <1>1, <1>3 DEF SendersWaitOnFull
<1> QED BY <1>7, <1>8, <1>9, <1>10, <1>11

\* A thread that blocks enters the queue of its call.
LEMMA BlockCallerKeeps ==
  ASSUME TypeOK, NEW t \in Threads, NEW kind \in {"none", "get", "send"},
         NEW m \in Messages \union {NoMessage}, BlockCaller(t, kind, m)
  PROVE  /\ dwThreadStatus' \in [Threads -> {"READY", "BLOCKED"}]
         /\ dwWaitingStatus' \in [Threads -> {"WAITING", "RESOURCE", "TIMEOUT", "DELETED"}]
         /\ pc' \in [Threads -> {"run", "cancel", "again", "againTimed"} \union Blocking]
         /\ call' \in [Threads -> {"none", "get", "send"}]
         /\ mail' \in [Threads -> Messages \union {NoMessage}]
         /\ BlockedInsideWait => BlockedInsideWait'
         /\ Waits(t, kind)'
         /\ \A u \in Threads \ {t} : \A k : Waits(u, k)' <=> Waits(u, k)
         /\ \A k : k # kind => ~Waits(t, k)'
<1> USE DEF BlockCaller, TypeOK, Blocking
<1>1. PICK next \in {"infinite", "arm"} : pc' = [pc EXCEPT ![t] = next]
  OBVIOUS
<1>2. /\ dwThreadStatus' \in [Threads -> {"READY", "BLOCKED"}]
      /\ dwWaitingStatus' \in [Threads -> {"WAITING", "RESOURCE", "TIMEOUT", "DELETED"}]
      /\ call' \in [Threads -> {"none", "get", "send"}]
      /\ mail' \in [Threads -> Messages \union {NoMessage}]
  OBVIOUS
<1>3. pc' \in [Threads -> {"run", "cancel", "again", "againTimed"} \union Blocking]
  BY <1>1
<1>4. BlockedInsideWait => BlockedInsideWait'
  BY <1>1 DEF BlockedInsideWait
<1>5. /\ Waits(t, kind)'
      /\ \A u \in Threads \ {t} : \A k : Waits(u, k)' <=> Waits(u, k)
      /\ \A k : k # kind => ~Waits(t, k)'
  BY DEF Waits
<1> QED BY <1>2, <1>3, <1>4, <1>5

LEMMA WaitForMailPreserves ==
  ASSUME IInv, NEW t \in Threads, WaitForMail(t)
  PROVE  IInv'
<1> USE MailboxAssumption DEF WaitForMail, ringVars, IInv
<1>1. /\ alive /\ dwThreadStatus[t] = "READY"
      /\ ~ObjectInQueue(lpGettingQueue, t) /\ ~ObjectInQueue(lpSendingQueue, t)
  BY AttemptingIsNotQueued
<1>2. /\ lpGettingQueue' \in Seq(Threads) /\ IsInjective(lpGettingQueue')
      /\ \A u : ObjectInQueue(lpGettingQueue', u) <=> ObjectInQueue(lpGettingQueue, u) \/ u = t
  <2>1. lpGettingQueue' = InsertIntoQueue(lpGettingQueue, t, Priority)
    BY DEF WaitIn
  <2>2. lpGettingQueue \in Seq(Threads) /\ IsInjective(lpGettingQueue)
    BY DEF TypeOK, QueuesHoldWaiters
  <2> QED BY <1>1, <2>1, <2>2, InsertKeeps
<1>3. TypeOK'
  BY <1>2, BlockCallerKeeps DEF TypeOK
<1>4. TailFollowsHeader' /\ SendersWaitOnFull'
  BY DEF TailFollowsHeader, SendersWaitOnFull
<1>5. BlockedInsideWait'
  BY BlockCallerKeeps
<1>6. QueuesHoldWaiters'
  <2>1. /\ Waits(t, "get")' /\ ~Waits(t, "send")'
        /\ \A u \in Threads \ {t} : \A k : Waits(u, k)' <=> Waits(u, k)
    BY BlockCallerKeeps DEF TypeOK
  <2> QED BY <1>1, <1>2, <2>1 DEF QueuesHoldWaiters
<1> QED BY <1>3, <1>4, <1>5, <1>6

LEMMA WaitToSendPreserves ==
  ASSUME IInv, NEW t \in Threads, NEW m \in Messages, WaitToSend(t, m)
  PROVE  IInv'
<1> USE MailboxAssumption DEF WaitToSend, ringVars, IInv
<1>1. /\ alive /\ dwThreadStatus[t] = "READY"
      /\ ~ObjectInQueue(lpGettingQueue, t) /\ ~ObjectInQueue(lpSendingQueue, t)
  BY AttemptingIsNotQueued
<1>2. /\ lpSendingQueue' \in Seq(Threads) /\ IsInjective(lpSendingQueue')
      /\ \A u : ObjectInQueue(lpSendingQueue', u) <=> ObjectInQueue(lpSendingQueue, u) \/ u = t
  <2>1. lpSendingQueue' = InsertIntoQueue(lpSendingQueue, t, Priority)
    BY DEF WaitIn
  <2>2. lpSendingQueue \in Seq(Threads) /\ IsInjective(lpSendingQueue)
    BY DEF TypeOK, QueuesHoldWaiters
  <2> QED BY <1>1, <2>1, <2>2, InsertKeeps
<1>3. TypeOK'
  BY <1>2, BlockCallerKeeps DEF TypeOK
<1>4. TailFollowsHeader'
  BY DEF TailFollowsHeader
<1>5. SendersWaitOnFull'
  BY DEF SendersWaitOnFull, HasSlot, TypeOK
<1>6. BlockedInsideWait'
  BY BlockCallerKeeps
<1>7. QueuesHoldWaiters'
  <2>1. /\ Waits(t, "send")' /\ ~Waits(t, "get")'
        /\ \A u \in Threads \ {t} : \A k : Waits(u, k)' <=> Waits(u, k)
    BY BlockCallerKeeps DEF TypeOK
  <2> QED BY <1>1, <1>2, <2>1 DEF QueuesHoldWaiters
<1> QED BY <1>3, <1>4, <1>5, <1>6, <1>7

LEMMA SendMailPreserves ==
  ASSUME IInv, NEW t \in Threads, NEW m \in Messages, SendMail(t, m)
  PROVE  IInv'
<1> USE MailboxAssumption DEF SendMail, Return, IInv
<1>1. /\ alive /\ dwThreadStatus[t] = "READY"
      /\ ~ObjectInQueue(lpGettingQueue, t) /\ ~ObjectInQueue(lpSendingQueue, t)
  BY AttemptingIsNotQueued
<1>2. dwCurrMessageNum < dwMaxMessageNum
  BY DEF HasSlot
<1>3. /\ lpGettingQueue' \in Seq(Threads) /\ IsInjective(lpGettingQueue')
      /\ dwThreadStatus' \in [Threads -> {"READY", "BLOCKED"}]
      /\ dwWaitingStatus' \in [Threads -> {"WAITING", "RESOURCE", "TIMEOUT", "DELETED"}]
      /\ \A u \in Threads :
           /\ dwThreadStatus'[u] = "BLOCKED" => dwThreadStatus[u] = "BLOCKED"
           /\ ObjectInQueue(lpGettingQueue', u)
                <=> ObjectInQueue(lpGettingQueue, u) /\ dwThreadStatus'[u] = "BLOCKED"
           /\ Waits(u, "send") => dwThreadStatus'[u] = "BLOCKED"
  <2>1. CASE WakesGetter
    <3>1. lpGettingQueue # <<>> /\ lpGettingQueue \in Seq(Threads) /\ IsInjective(lpGettingQueue)
      BY <2>1 DEF WakesGetter, TypeOK, QueuesHoldWaiters
    <3>2. /\ HeaderElement(lpGettingQueue) \in Threads
          /\ ObjectInQueue(lpGettingQueue, HeaderElement(lpGettingQueue))
          /\ WithoutHeader(lpGettingQueue) \in Seq(Threads)
          /\ IsInjective(WithoutHeader(lpGettingQueue))
          /\ \A y : ObjectInQueue(WithoutHeader(lpGettingQueue), y)
                      <=> ObjectInQueue(lpGettingQueue, y) /\ y # HeaderElement(lpGettingQueue)
      BY <3>1, HeaderTaken
    <3>3. PICK h \in Threads :
            /\ ObjectInQueue(lpGettingQueue, h)
            /\ lpGettingQueue' \in Seq(Threads) /\ IsInjective(lpGettingQueue')
            /\ \A y : ObjectInQueue(lpGettingQueue', y) <=> ObjectInQueue(lpGettingQueue, y) /\ y # h
            /\ Wake({h}, "RESOURCE")
      BY <2>1, <3>2
    <3>4. Waits(h, "get") /\ \A u \in Threads : ObjectInQueue(lpGettingQueue, u) => Waits(u, "get")
      BY <1>1, <3>3 DEF QueuesHoldWaiters
    <3> QED BY <3>3, <3>4 DEF Wake, TypeOK, Waits
  <2>2. CASE ~WakesGetter
    <3>1. /\ dwThreadStatus' = dwThreadStatus /\ dwWaitingStatus' = dwWaitingStatus
          /\ lpGettingQueue' = lpGettingQueue
      BY <2>2 DEF statusVars
    <3> QED BY <1>1, <3>1 DEF TypeOK, QueuesHoldWaiters, Waits
  <2> QED BY <2>1, <2>2
<1>4. /\ dwCurrMessageNum' \in 0..dwMaxMessageNum'
      /\ dwMessageTail' \in 0..dwMaxMessageNum'-1
      /\ pMessageArray' \in [0..dwMaxMessageNum'-1 -> Messages \union {NoMessage}]
  BY <1>2, SlotsInRing DEF TypeOK
<1>5. TypeOK'
  BY <1>3, <1>4 DEF TypeOK
<1>6. TailFollowsHeader'
  BY <1>2, SlotsInRing DEF TailFollowsHeader
<1>7. QueuesHoldWaiters'
  <2>1. ASSUME NEW u \in Threads
        PROVE  /\ ObjectInQueue(lpGettingQueue', u) <=> Waits(u, "get")'
               /\ ObjectInQueue(lpSendingQueue', u) <=> Waits(u, "send")'
    <3>1. CASE u = t
      BY <1>1, <1>3, <3>1 DEF TypeOK, Waits
    <3>2. CASE u # t
      <4>1. call'[u] = call[u]
        BY <3>2 DEF TypeOK
      <4> QED BY <1>1, <1>3, <4>1 DEF QueuesHoldWaiters, Waits
    <3> QED BY <3>1, <3>2
  <2> QED BY <1>1, <1>3, <2>1 DEF QueuesHoldWaiters
<1>8. BlockedInsideWait'
  BY <1>1, <1>3 DEF TypeOK, BlockedInsideWait
<1>9. SendersWaitOnFull'
  BY <1>2, <1>1 DEF SendersWaitOnFull, TypeOK
<1> QED BY <1>5, <1>6, <1>7, <1>8, <1>9

\* Steps of a thread inside its wait that no queue and no status changes by.
LEMMA InsideWaitPreserves ==
  ASSUME IInv, NEW t \in Threads,
         SetTimer(t) \/ WokenUp(t) \/ WokenUpTimed(t) \/ CancelTimer(t)
  PROVE  IInv'
<1> USE MailboxAssumption
    DEF SetTimer, WokenUp, WokenUpTimed, CancelTimer, Return, ringVars, queueVars, statusVars, IInv
<1>1. TypeOK'
  <2>1. CASE SetTimer(t)
    BY <2>1 DEF TypeOK, Blocking
  <2>2. CASE WokenUp(t) \/ WokenUpTimed(t)
    BY <2>2 DEF TypeOK, Blocking
  <2>3. CASE CancelTimer(t)
    BY <2>3 DEF TypeOK, Blocking
  <2> QED BY <2>1, <2>2, <2>3
<1>2. TailFollowsHeader' /\ SendersWaitOnFull'
  BY DEF TailFollowsHeader, SendersWaitOnFull
<1>3. BlockedInsideWait'
  BY DEF TypeOK, BlockedInsideWait, Blocking
<1>4. QueuesHoldWaiters'
  BY DEF TypeOK, QueuesHoldWaiters, BlockedInsideWait, Blocking, Waits
<1> QED BY <1>1, <1>2, <1>3, <1>4

LEMMA WaitingTimerHandlerPreserves ==
  ASSUME IInv, NEW t \in Threads, WaitingTimerHandler(t)
  PROVE  IInv'
<1> USE MailboxAssumption DEF WaitingTimerHandler, ringVars, queueVars, statusVars, IInv
<1>1. lpGettingQueue \in Seq(Threads) /\ lpSendingQueue \in Seq(Threads)
      /\ IsInjective(lpGettingQueue) /\ IsInjective(lpSendingQueue)
  BY DEF TypeOK, QueuesHoldWaiters
<1>2. CASE Expires(t)
  <2>1. alive
    BY <1>1, <1>2, EmptyQueue DEF Expires, QueuesHoldWaiters
  <2>2. lpGettingQueue' = DeleteFromQueue(lpGettingQueue, t)
        /\ lpSendingQueue' = DeleteFromQueue(lpSendingQueue, t)
    BY <1>2 DEF Dequeued
  <2>3. /\ lpGettingQueue' \in Seq(Threads) /\ IsInjective(lpGettingQueue')
        /\ \A u : ObjectInQueue(lpGettingQueue', u) <=> ObjectInQueue(lpGettingQueue, u) /\ u # t
    BY <1>1, <2>2, DeleteKeeps
  <2>4. /\ lpSendingQueue' \in Seq(Threads) /\ IsInjective(lpSendingQueue')
        /\ \A u : ObjectInQueue(lpSendingQueue', u) <=> ObjectInQueue(lpSendingQueue, u) /\ u # t
    BY <1>1, <2>2, DeleteKeeps
  <2>5. /\ dwThreadStatus' = [u \in Threads |-> IF u \in {t} THEN "READY" ELSE dwThreadStatus[u]]
        /\ dwWaitingStatus' = [u \in Threads |-> IF u \in {t} THEN "TIMEOUT"
                                                  ELSE dwWaitingStatus[u]]
    BY <1>2 DEF Wake
  <2>6. TypeOK'
    BY <2>3, <2>4, <2>5 DEF TypeOK
  <2>7. TailFollowsHeader' /\ BlockedInsideWait'
    BY <2>5 DEF TailFollowsHeader, BlockedInsideWait
  <2>8. SendersWaitOnFull'
    <3>1. lpSendingQueue' # <<>> => lpSendingQueue # <<>>
      BY <1>1, <2>3, <2>4, EmptyQueue
    <3> QED BY <3>1 DEF SendersWaitOnFull
  <2>9. QueuesHoldWaiters'
    BY <2>1, <2>3, <2>4, <2>5 DEF QueuesHoldWaiters, Waits
  <2> QED BY <2>6, <2>7, <2>8, <2>9
<1>3. CASE ~Expires(t)
  <2>1. TypeOK'
    BY <1>3 DEF TypeOK
  <2>2. TailFollowsHeader' /\ SendersWaitOnFull' /\ BlockedInsideWait' /\ QueuesHoldWaiters'
    BY <1>3 DEF TailFollowsHeader, SendersWaitOnFull, BlockedInsideWait, QueuesHoldWaiters, Waits
  <2> QED BY <2>1, <2>2
<1> QED BY <1>2, <1>3

LEMMA SetMailboxSizePreserves ==
  ASSUME IInv, NEW size \in 1..MaxSize, SetMailboxSize(size)
  PROVE  IInv'
<1> USE MailboxAssumption DEF SetMailboxSize, Unused, queueVars, statusVars, callVars, IInv
<1>1. size \in Nat \ {0} /\ 0 \in 0..size-1 /\ 0 \in 0..size
  OBVIOUS
<1>2. TypeOK'
  BY <1>1 DEF TypeOK, EmptyRing
<1>3. TailFollowsHeader'
  BY <1>1, WrapAround DEF TailFollowsHeader
<1>4. SendersWaitOnFull'
  <2>1. lpSendingQueue = <<>>
    BY DEF SendersWaitOnFull, TypeOK
  <2> QED BY <2>1 DEF SendersWaitOnFull
<1>5. BlockedInsideWait' /\ QueuesHoldWaiters'
  BY DEF BlockedInsideWait, QueuesHoldWaiters, Waits
<1> QED BY <1>2, <1>3, <1>4, <1>5

\* Destruction, and what a thread does that comes back after it.
LEMMA DestructionPreserves ==
  ASSUME IInv, MailboxUninitialize \/ \E t \in Threads : TryFreed(t)
  PROVE  IInv'
<1> USE MailboxAssumption DEF ringVars, queueVars, statusVars, callVars, IInv
<1>1. CASE MailboxUninitialize
  <2> USE <1>1 DEF MailboxUninitialize
  <2>1. <<>> \in Seq(Threads) /\ lpGettingQueue' = <<>> /\ lpSendingQueue' = <<>> /\ ~alive'
    OBVIOUS
  <2>2. PICK woken :
          /\ dwThreadStatus' = [u \in Threads |-> IF u \in woken THEN "READY"
                                                   ELSE dwThreadStatus[u]]
          /\ dwWaitingStatus' = [u \in Threads |-> IF u \in woken THEN "DELETED"
                                                    ELSE dwWaitingStatus[u]]
    BY DEF Wake
  <2>3. TypeOK'
    BY <2>1, <2>2 DEF TypeOK
  <2>4. QueuesHoldWaiters'
    BY <2>1, EmptyQueue DEF QueuesHoldWaiters
  <2>5. TailFollowsHeader' /\ SendersWaitOnFull' /\ BlockedInsideWait'
    BY <2>1, <2>2 DEF TailFollowsHeader, SendersWaitOnFull, BlockedInsideWait
  <2> QED BY <2>3, <2>4, <2>5
<1>2. ASSUME NEW t \in Threads, TryFreed(t)
      PROVE  IInv'
  <2> USE <1>2 DEF TryFreed
  <2>1. CASE Return(t) /\ UNCHANGED statusVars
    <3> USE <2>1 DEF Return
    <3>1. TypeOK'
      BY DEF TypeOK
    <3>2. BlockedInsideWait'
      BY DEF TypeOK, BlockedInsideWait, Blocking
    <3> QED BY <3>1, <3>2 DEF TailFollowsHeader, SendersWaitOnFull, QueuesHoldWaiters
  <2>2. CASE BlockCaller(t, call[t], mail[t])
    <3>1. TypeOK' /\ BlockedInsideWait'
      BY <2>2, BlockCallerKeeps DEF TypeOK
    <3> QED BY <3>1 DEF TailFollowsHeader, SendersWaitOnFull, QueuesHoldWaiters
  <2> QED BY <2>1, <2>2
<1> QED BY <1>1, <1>2

LEMMA NextPreserves == IInv /\ [Next]_vars => IInv'
<1> SUFFICES ASSUME IInv, [Next]_vars
             PROVE  IInv'
  OBVIOUS
<1>1. ASSUME NEW t \in Threads, GetMail(t) \/ WaitForMail(t)
      PROVE  IInv'
  BY <1>1, GetMailPreserves, WaitForMailPreserves
<1>2. ASSUME NEW t \in Threads, NEW m \in Messages, SendMail(t, m) \/ WaitToSend(t, m)
      PROVE  IInv'
  BY <1>2, SendMailPreserves, WaitToSendPreserves
<1>3. ASSUME NEW t \in Threads,
             SetTimer(t) \/ WokenUp(t) \/ WokenUpTimed(t) \/ CancelTimer(t)
      PROVE  IInv'
  BY <1>3, InsideWaitPreserves
<1>4. ASSUME NEW t \in Threads, WaitingTimerHandler(t)
      PROVE  IInv'
  BY <1>4, WaitingTimerHandlerPreserves
<1>5. ASSUME NEW size \in 1..MaxSize, SetMailboxSize(size)
      PROVE  IInv'
  BY <1>5, SetMailboxSizePreserves
<1>6. CASE MailboxUninitialize \/ \E t \in Threads : TryFreed(t)
  BY <1>6, DestructionPreserves
<1>7. CASE UNCHANGED vars
  BY <1>7 DEF vars, ringVars, queueVars, statusVars, callVars, IInv, TypeOK,
              TailFollowsHeader, QueuesHoldWaiters, BlockedInsideWait, SendersWaitOnFull, Waits
<1> QED BY <1>1, <1>2, <1>3, <1>4, <1>5, <1>6, <1>7 DEF Next

-----------------------------------------------------------------------------
(* The theorems.                                                            *)

\* The ring, its counter, the two queues and the threads agree at every moment.
THEOREM Invariance == Spec => []IInv
<1> QED BY InitIInv, NextPreserves, PTL DEF Spec

\* Nobody waits to send while there is a free slot, so a getter need not wake
\* senders of a mailbox that was not full.
THEOREM NobodyWaitsBesideSlots == Spec => []SendersWaitOnFull
<1>1. IInv => SendersWaitOnFull
  BY DEF IInv
<1> QED BY <1>1, Invariance, PTL

\* The queues hold exactly the threads blocked in the calls, once each.
THEOREM QueuesAreExact == Spec => []QueuesAreTheWaiters
<1>1. IInv => QueuesAreTheWaiters
  BY QueueMembers DEF IInv, TypeOK, QueuesHoldWaiters, QueuesAreTheWaiters, Waits
<1> QED BY <1>1, Invariance, PTL

-----------------------------------------------------------------------------
(* The mailbox is a bounded channel.                                        *)

\* The content of a mailbox that exists is a sequence as long as its counter.
LEMMA ContentIsSequence ==
  ASSUME IInv, alive
  PROVE  /\ Content \in Seq(Messages \union {NoMessage})
         /\ Len(Content) = dwCurrMessageNum
         /\ \A i \in 1..dwCurrMessageNum :
              Content[i] = pMessageArray[(dwMessageHeader + i - 1) % dwMaxMessageNum]
<1>1. /\ dwMaxMessageNum \in Nat \ {0} /\ dwMessageHeader \in Nat /\ dwCurrMessageNum \in Nat
      /\ pMessageArray \in [0..dwMaxMessageNum-1 -> Messages \union {NoMessage}]
  BY MailboxAssumption DEF IInv, TypeOK
<1>2. Content = [i \in 1..dwCurrMessageNum |->
                   pMessageArray[(dwMessageHeader + i - 1) % dwMaxMessageNum]]
  BY DEF Content
<1>3. \A i \in 1..dwCurrMessageNum :
        pMessageArray[(dwMessageHeader + i - 1) % dwMaxMessageNum]
          \in Messages \union {NoMessage}
  <2> SUFFICES ASSUME NEW i \in 1..dwCurrMessageNum
               PROVE  (dwMessageHeader + i - 1) % dwMaxMessageNum \in 0..dwMaxMessageNum-1
    BY <1>1
  <2>1. dwMessageHeader + i - 1 \in Nat
    BY <1>1
  <2> QED BY <1>1, <2>1, WrapAround
<1> HIDE DEF Content
<1> QED BY <1>1, <1>2, <1>3

\* SendMail appends its message: the slot of the tail is behind the last one.
LEMMA SendMailAppends ==
  ASSUME IInv, IInv', NEW t \in Threads, NEW m \in Messages, SendMail(t, m)
  PROVE  Len(Content) < dwMaxMessageNum /\ Content' = Append(Content, m)
<1>1. /\ alive /\ alive' /\ dwCurrMessageNum < dwMaxMessageNum
      /\ dwCurrMessageNum' = dwCurrMessageNum + 1 /\ dwMaxMessageNum' = dwMaxMessageNum
      /\ dwMessageHeader' = dwMessageHeader
      /\ pMessageArray' = [pMessageArray EXCEPT ![dwMessageTail] = m]
  BY DEF SendMail, Attempting, HasSlot
<1>2. /\ dwMaxMessageNum \in Nat \ {0} /\ dwMessageHeader \in 0..dwMaxMessageNum-1
      /\ dwCurrMessageNum \in 0..dwMaxMessageNum /\ dwMessageTail \in 0..dwMaxMessageNum-1
      /\ pMessageArray \in [0..dwMaxMessageNum-1 -> Messages \union {NoMessage}]
      /\ dwMessageTail = (dwMessageHeader + dwCurrMessageNum) % dwMaxMessageNum
  <2>1. dwMessageTail = (dwMessageHeader + dwCurrMessageNum) % dwMaxMessageNum
    BY DEF IInv, TailFollowsHeader
  <2> QED BY <2>1, MailboxAssumption DEF IInv, TypeOK
<1>3. /\ Content \in Seq(Messages \union {NoMessage}) /\ Len(Content) = dwCurrMessageNum
      /\ \A i \in 1..dwCurrMessageNum :
           Content[i] = pMessageArray[(dwMessageHeader + i - 1) % dwMaxMessageNum]
  BY <1>1, ContentIsSequence
<1>4. /\ Content' \in Seq(Messages \union {NoMessage}) /\ Len(Content') = dwCurrMessageNum + 1
      /\ \A i \in 1..dwCurrMessageNum + 1 :
           Content'[i] = pMessageArray'[(dwMessageHeader + i - 1) % dwMaxMessageNum]
  <2>1. (IInv /\ alive =>
          /\ Content \in Seq(Messages \union {NoMessage}) /\ Len(Content) = dwCurrMessageNum
          /\ \A i \in 1..dwCurrMessageNum :
               Content[i] = pMessageArray[(dwMessageHeader + i - 1) % dwMaxMessageNum])'
    BY ContentIsSequence, PTL
  <2> QED BY <1>1, <2>1
<1> HIDE DEF Content
<1>5. Content'[dwCurrMessageNum + 1] = m
  <2>1. dwMessageHeader + (dwCurrMessageNum + 1) - 1 = dwMessageHeader + dwCurrMessageNum
        /\ dwCurrMessageNum + 1 \in 1..dwCurrMessageNum + 1
    BY <1>2
  <2>2. Content'[dwCurrMessageNum + 1] = pMessageArray'[dwMessageTail]
    BY <1>2, <1>4, <2>1
  <2> QED BY <1>1, <1>2, <2>2
<1>6. ASSUME NEW i \in 1..dwCurrMessageNum
      PROVE  Content'[i] = Content[i]
  <2> DEFINE a == dwMessageHeader + i - 1
             b == dwMessageHeader + dwCurrMessageNum
  <2>1. a \in Nat /\ b \in Nat /\ a < b /\ b - a < dwMaxMessageNum + 1
        /\ a < 2 * dwMaxMessageNum /\ b < 2 * dwMaxMessageNum
        /\ b - a <= dwCurrMessageNum
    BY <1>1, <1>2
  <2>2. /\ a % dwMaxMessageNum \in 0..dwMaxMessageNum-1
        /\ a < dwMaxMessageNum => a % dwMaxMessageNum = a
        /\ a >= dwMaxMessageNum => a % dwMaxMessageNum = a - dwMaxMessageNum
    BY <1>2, <2>1, WrapAround
  <2>3. /\ b < dwMaxMessageNum => b % dwMaxMessageNum = b
        /\ b >= dwMaxMessageNum => b % dwMaxMessageNum = b - dwMaxMessageNum
    BY <1>2, <2>1, WrapAround
  <2>4. dwMessageTail = b % dwMaxMessageNum
    BY <1>2
  <2>5. i \in 1..dwCurrMessageNum + 1
        /\ Content[i] = pMessageArray[a % dwMaxMessageNum]
        /\ Content'[i] = pMessageArray'[a % dwMaxMessageNum]
    <3>1. i \in 1..dwCurrMessageNum + 1
      BY <1>2
    <3> QED BY <1>3, <1>4, <3>1
  <2> HIDE DEF a, b
  <2>6. a % dwMaxMessageNum # dwMessageTail
    BY <1>1, <1>2, <2>1, <2>2, <2>3, <2>4
  <2> QED BY <1>1, <1>2, <2>2, <2>5, <2>6
<1>7. Len(Content) < dwMaxMessageNum
  BY <1>1, <1>3
<1>8. Content' = Append(Content, m)
  <2>1. /\ Append(Content, m) \in Seq(Messages \union {NoMessage})
        /\ Len(Append(Content, m)) = dwCurrMessageNum + 1
        /\ Append(Content, m)[dwCurrMessageNum + 1] = m
        /\ \A i \in 1..dwCurrMessageNum : Append(Content, m)[i] = Content[i]
    BY <1>2, <1>3
  <2>2. \A i \in 1..dwCurrMessageNum + 1 : Content'[i] = Append(Content, m)[i]
    <3>1. \A i \in 1..dwCurrMessageNum + 1 :
            i \in 1..dwCurrMessageNum \/ i = dwCurrMessageNum + 1
      BY <1>2
    <3> QED BY <1>5, <1>6, <2>1, <3>1
  <2> QED BY <1>4, <2>1, <2>2, SeqEqual
<1> QED BY <1>7, <1>8

\* GetMail delivers the oldest message and leaves the rest.
LEMMA GetMailDelivers ==
  ASSUME IInv, IInv', NEW t \in Threads, GetMail(t)
  PROVE  Content # <<>> /\ delivered' = Head(Content) /\ Content' = Tail(Content)
<1>1. /\ alive /\ alive' /\ dwCurrMessageNum > 0
      /\ dwCurrMessageNum' = dwCurrMessageNum - 1 /\ dwMaxMessageNum' = dwMaxMessageNum
      /\ dwMessageHeader' = (dwMessageHeader + 1) % dwMaxMessageNum
      /\ pMessageArray' = pMessageArray /\ delivered' = pMessageArray[dwMessageHeader]
  BY DEF GetMail, Attempting, NextSlot
<1>2. /\ dwMaxMessageNum \in Nat \ {0} /\ dwMessageHeader \in 0..dwMaxMessageNum-1
      /\ dwCurrMessageNum \in 0..dwMaxMessageNum
  BY MailboxAssumption DEF IInv, TypeOK
<1>3. /\ Content \in Seq(Messages \union {NoMessage}) /\ Len(Content) = dwCurrMessageNum
      /\ \A i \in 1..dwCurrMessageNum :
           Content[i] = pMessageArray[(dwMessageHeader + i - 1) % dwMaxMessageNum]
  BY <1>1, ContentIsSequence
<1>4. /\ Content' \in Seq(Messages \union {NoMessage}) /\ Len(Content') = dwCurrMessageNum - 1
      /\ \A i \in 1..dwCurrMessageNum - 1 :
           Content'[i] = pMessageArray[(dwMessageHeader' + i - 1) % dwMaxMessageNum]
  <2>1. (IInv /\ alive =>
          /\ Content \in Seq(Messages \union {NoMessage}) /\ Len(Content) = dwCurrMessageNum
          /\ \A i \in 1..dwCurrMessageNum :
               Content[i] = pMessageArray[(dwMessageHeader + i - 1) % dwMaxMessageNum])'
    BY ContentIsSequence, PTL
  <2> QED BY <1>1, <2>1
<1> HIDE DEF Content
<1>5. Content # <<>> /\ Head(Content) = Content[1] /\ Content[1] = pMessageArray[dwMessageHeader]
  <2>1. dwMessageHeader + 1 - 1 = dwMessageHeader /\ 1 \in 1..dwCurrMessageNum
        /\ dwMessageHeader \in Nat /\ dwMessageHeader < dwMaxMessageNum
    BY <1>1, <1>2
  <2>2. dwMessageHeader % dwMaxMessageNum = dwMessageHeader
    BY <1>2, <2>1, WrapAround
  <2>3. Content[1] = pMessageArray[dwMessageHeader]
    BY <1>3, <2>1, <2>2
  <2> QED BY <1>1, <1>2, <1>3, <2>3
<1>6. ASSUME NEW i \in 1..dwCurrMessageNum - 1
      PROVE  Content'[i] = Content[i + 1]
  <2>1. i \in 0..dwMaxMessageNum /\ i > 0 /\ i + 1 \in 1..dwCurrMessageNum
    BY <1>2
  <2>2. (((dwMessageHeader + 1) % dwMaxMessageNum) + (i - 1)) % dwMaxMessageNum
          = (dwMessageHeader + i) % dwMaxMessageNum
    BY <1>2, <2>1, OneFurther
  <2>3. dwMessageHeader' \in Nat
    BY <1>1, <1>2, WrapAround
  <2>4. dwMessageHeader' + i - 1 = dwMessageHeader' + (i - 1)
        /\ dwMessageHeader + (i + 1) - 1 = dwMessageHeader + i
    BY <1>2, <2>1, <2>3
  <2>5. Content'[i] = pMessageArray[(dwMessageHeader' + (i - 1)) % dwMaxMessageNum]
    BY <1>4, <2>4
  <2>6. Content[i + 1] = pMessageArray[(dwMessageHeader + i) % dwMaxMessageNum]
    BY <1>3, <2>1, <2>4
  <2>7. (dwMessageHeader' + (i - 1)) % dwMaxMessageNum
          = (dwMessageHeader + i) % dwMaxMessageNum
    BY <1>1, <2>2
  <2> QED BY <2>5, <2>6, <2>7
<1>7. Content' = Tail(Content)
  <2>1. /\ Tail(Content) \in Seq(Messages \union {NoMessage})
        /\ Len(Tail(Content)) = dwCurrMessageNum - 1
        /\ \A i \in 1..dwCurrMessageNum - 1 : Tail(Content)[i] = Content[i + 1]
    BY <1>1, <1>2, <1>3
  <2> QED BY <1>4, <1>6, <2>1, SeqEqual
<1> QED BY <1>1, <1>5, <1>7

\* A step that leaves the ring of a mailbox alone leaves the channel alone.
LEMMA RingUnchanged ==
  ASSUME alive' = alive, UNCHANGED ringVars
  PROVE  UNCHANGED <<Content, IF alive THEN dwMaxMessageNum ELSE 0, delivered>>
  BY DEF ringVars, Content

\* Every step of the mailbox is one of the channel, or none.
LEMMA StepRefines ==
  ASSUME IInv, IInv', [Next]_vars
  PROVE  [Channel!Next]_(Channel!channelVars)
<1> USE DEF Channel!Next, Channel!channelVars
<1>1. ASSUME NEW t \in Threads, GetMail(t)
      PROVE  Channel!Deliver
  <2>1. alive' = alive /\ dwMaxMessageNum' = dwMaxMessageNum
    BY <1>1 DEF GetMail
  <2>2. Content # <<>> /\ delivered' = Head(Content) /\ Content' = Tail(Content)
    BY <1>1, GetMailDelivers
  <2> QED BY <2>1, <2>2 DEF Channel!Deliver
<1>2. ASSUME NEW t \in Threads, NEW m \in Messages, SendMail(t, m)
      PROVE  Channel!Send(m)
  <2>1. alive /\ alive' /\ dwMaxMessageNum' = dwMaxMessageNum /\ delivered' = delivered
    BY <1>2 DEF SendMail, Attempting
  <2>2. Len(Content) < dwMaxMessageNum /\ Content' = Append(Content, m)
    BY <1>2, SendMailAppends
  <2> QED BY <2>1, <2>2 DEF Channel!Send
<1>3. ASSUME NEW size \in 1..MaxSize, SetMailboxSize(size)
      PROVE  Channel!Resize
  <2>1. /\ alive /\ alive' /\ dwMaxMessageNum' = size /\ dwCurrMessageNum = 0
        /\ dwCurrMessageNum' = 0 /\ delivered' = delivered /\ dwMaxMessageNum > 0
    BY <1>3, MailboxAssumption DEF SetMailboxSize, Unused, IInv, TypeOK
  <2>2. Content = <<>> /\ Content' = <<>>
    BY <2>1 DEF Content
  <2> QED BY <2>1, <2>2 DEF Channel!Resize
<1>4. CASE MailboxUninitialize
  <2>1. ~alive' /\ delivered' = delivered
    BY <1>4 DEF MailboxUninitialize, ringVars
  <2>2. Content' = <<>>
    BY <2>1 DEF Content
  <2> QED BY <2>1, <2>2 DEF Channel!Close
<1>5. ASSUME NEW t \in Threads,
             \/ WaitForMail(t) \/ SetTimer(t) \/ WaitingTimerHandler(t)
             \/ WokenUp(t) \/ WokenUpTimed(t) \/ CancelTimer(t) \/ TryFreed(t)
             \/ \E m \in Messages : WaitToSend(t, m)
      PROVE  UNCHANGED Channel!channelVars
  <2>1. alive' = alive /\ UNCHANGED ringVars
    BY <1>5 DEF WaitForMail, SetTimer, WaitingTimerHandler, WokenUp, WokenUpTimed,
                CancelTimer, TryFreed, WaitToSend, ringVars
  <2> QED BY <2>1, RingUnchanged
<1>6. CASE UNCHANGED vars
  <2>1. alive' = alive /\ UNCHANGED ringVars
    BY <1>6 DEF vars, ringVars
  <2> QED BY <2>1, RingUnchanged
<1> QED BY <1>1, <1>2, <1>3, <1>4, <1>5, <1>6 DEF Next

\* A mailbox is a FIFO channel of bounded capacity: through retries, time-outs,
\* wrap-around, resizing and destruction every message that was sent is
\* delivered once, in order.
THEOREM MailboxIsChannel == Spec => ImplementsBoundedChannel
<1>1. Init => Channel!Init
  BY MailboxAssumption DEF Init, Channel!Init, Content
<1>2. IInv /\ IInv' /\ [Next]_vars => [Channel!Next]_(Channel!channelVars)
  BY StepRefines
<1> QED BY <1>1, <1>2, Invariance, PTL DEF Spec, ImplementsBoundedChannel, Channel!Spec
=============================================================================
