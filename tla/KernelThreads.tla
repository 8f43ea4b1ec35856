--------------------------- MODULE KernelThreads ---------------------------
(***************************************************************************)
(* The kernel threads of kernel/ktmgr.c and kernel/ktmgr2.c on several     *)
(* processors: creation, suspension and resumption, thread messages, end   *)
(* of a thread and the threads that wait for it, the reference count of    *)
(* the thread object, and both schedulers, ScheduleFromProc and            *)
(* ScheduleFromInt, with the ready queues of the processors.               *)
(*                                                                         *)
(* Changing the status of a thread and swapping it out are separate steps, *)
(* as they are in the code: between them its own processor may take an     *)
(* interrupt, and another processor may wake it.  A step here is a         *)
(* critical section of the thread's spin lock, but for the end of a        *)
(* thread, which holds its own lock while it marks each waiter READY and   *)
(* then adds it to a ready queue, without the waiter's lock.               *)
(***************************************************************************)
EXTENDS PriorityQueue, FiniteSets

CONSTANTS
  CPU,
  Workers,
  IdleKernelThread,     \* of each processor
  Root,                 \* the worker that runs when scheduling starts
  Priority,             \* dwThreadPriority of each thread
  Placement,            \* the processors clients put each worker on
  Receivers,            \* the workers that read messages
  MAX_KTHREAD_MSG_NUM,
  NoThread

Idle == {IdleKernelThread[c] : c \in CPU}
Threads == Workers \union Idle
Levels == {Priority[t] : t \in Threads}

ASSUME ThreadsAssumption ==
  /\ Workers \intersect Idle = {}
  /\ Root \in Workers /\ Receivers \subseteq Workers
  /\ \A t \in Workers : Placement[t] # {} /\ Placement[t] \subseteq CPU
  /\ MAX_KTHREAD_MSG_NUM \in Nat \ {0}
  /\ NoThread \notin Threads
  /\ \A c, d \in CPU : IdleKernelThread[c] = IdleKernelThread[d] => c = d
  /\ \A t \in Threads : Priority[t] \in Nat
  /\ IsFiniteSet(Levels)
  /\ \A t \in Idle, w \in Workers : Priority[t] < Priority[w]

VARIABLES
  dwThreadStatus,
  cpuAffinity,
  ThreadQueue,          \* the ready queues, by processor and priority
  CurrentKernelThread,  \* by processor
  lpSuspendedQueue,     \* a set: threads are only inserted and deleted
  lpTerminalQueue,      \* a set, likewise
  lpWaitingQueue,       \* the threads that wait for each thread to end
  lpMsgWaitingQueue,
  ucCurrentMsgNum,
  refCount,             \* of the thread object
  pc,                   \* where each thread is, see Places
  waking,               \* the waiter a thread that ends has marked READY
  panic                 \* a BUG_ON was reached: the system has stopped

vars == <<dwThreadStatus, cpuAffinity, ThreadQueue, CurrentKernelThread,
          lpSuspendedQueue, lpTerminalQueue, lpWaitingQueue,
          lpMsgWaitingQueue, ucCurrentMsgNum, refCount, pc, waking, panic>>
objectVars == <<lpTerminalQueue, refCount>>
messageVars == <<lpMsgWaitingQueue, ucCurrentMsgNum>>
waitVars == <<lpWaitingQueue, waking>>

\* "schedule" and "scheduleGet" are on the way to ScheduleFromProc, the second
\* one from GetMessage, which tries "again"; "wake" is the end of a thread,
\* which holds its spin lock, and a "dead" thread never runs again.
Places == {"run", "schedule", "scheduleGet", "again", "wake", "dead"}

\* Scheduling was started: the idle threads run, but where Root does.
Init ==
  \E c \in Placement[Root] :
    /\ dwThreadStatus = [t \in Threads |->
         IF t \in Workers \ {Root} THEN "DESTROYED"
         ELSE IF t = IdleKernelThread[c] THEN "READY" ELSE "RUNNING"]
    /\ cpuAffinity = [t \in Threads |->
         IF t \in Idle THEN CHOOSE d \in CPU : t = IdleKernelThread[d] ELSE c]
    /\ ThreadQueue = [d \in CPU |-> [p \in Levels |->
         IF d = c /\ p = Priority[IdleKernelThread[c]]
         THEN <<IdleKernelThread[c]>> ELSE <<>>]]
    /\ CurrentKernelThread = [d \in CPU |->
         IF d = c THEN Root ELSE IdleKernelThread[d]]
    /\ lpSuspendedQueue = {} /\ lpTerminalQueue = {}
    /\ lpWaitingQueue = [t \in Threads |-> <<>>]
    /\ lpMsgWaitingQueue = [t \in Threads |-> <<>>]
    /\ ucCurrentMsgNum = [t \in Threads |-> 0]
    /\ refCount = [t \in Threads |-> IF t \in Workers \ {Root} THEN 0 ELSE 2]
    /\ pc = [t \in Threads |-> IF t \in Workers \ {Root} THEN "dead" ELSE "run"]
    /\ waking = [t \in Threads |-> NoThread]
    /\ panic = FALSE

-----------------------------------------------------------------------------
(* The ready queues and the two schedulers.                                 *)

InReadyQueue(t) == \E c \in CPU, p \in Levels : ObjectInQueue(ThreadQueue[c][p], t)

\* AddReadyKernelThread: to the tail of the queue of the thread's own
\* processor and priority.
AddReady(queues, t) ==
  [queues EXCEPT ![cpuAffinity[t]][Priority[t]] = Append(@, t)]

ReadyLevels(c, lowest) == {p \in Levels : p >= lowest /\ ThreadQueue[c][p] # <<>>}
TopLevel(c, lowest) ==
  CHOOSE p \in ReadyLevels(c, lowest) : \A q \in ReadyLevels(c, lowest) : q <= p

\* GetScheduleKernelThread on processor c, from priority lowest upwards.
GetScheduleKernelThread(c, lowest) ==
  IF ReadyLevels(c, lowest) = {} THEN NoThread
  ELSE HeaderElement(ThreadQueue[c][TopLevel(c, lowest)])
Fetched(c, lowest) ==
  [ThreadQueue EXCEPT ![c][TopLevel(c, lowest)] = WithoutHeader(@)]

OnlyHigherPriority(t) == Priority[t] + 1
LowestToPreempt(t) == Priority[t]

SwitchTo(c, new, statuses) ==
  /\ CurrentKernelThread' = [CurrentKernelThread EXCEPT ![c] = new]
  /\ dwThreadStatus' = [statuses EXCEPT ![new] = "RUNNING"]

\* A RUNNING thread gives way to a ready one of its own priority or above.
Preempt(c) ==
  LET current == CurrentKernelThread[c]
      lowest == LowestToPreempt(current)
  IN /\ ReadyLevels(c, lowest) # {}
     /\ ThreadQueue' = AddReady(Fetched(c, lowest), current)
     /\ SwitchTo(c, GetScheduleKernelThread(c, lowest),
                 [dwThreadStatus EXCEPT ![current] = "READY"])

\* Any ready thread will do for one that cannot go on.
SwapOut(c) ==
  IF ReadyLevels(c, 0) = {}
  THEN panic' = TRUE /\ UNCHANGED <<ThreadQueue, CurrentKernelThread, dwThreadStatus>>
  ELSE /\ ThreadQueue' = Fetched(c, 0)
       /\ SwitchTo(c, GetScheduleKernelThread(c, 0), dwThreadStatus)
       /\ UNCHANGED panic

\* The last reference destroys the thread object.
DestroyObject(t) ==
  /\ refCount' = [refCount EXCEPT ![t] = @ - 1]
  /\ lpTerminalQueue' = IF refCount[t] = 1 THEN lpTerminalQueue \ {t}
                        ELSE lpTerminalQueue
AfterDestroy(statuses, t) ==
  IF refCount[t] = 1 THEN [statuses EXCEPT ![t] = "DESTROYED"] ELSE statuses

\* Where a thread goes on when ScheduleFromProc returns to it.
AfterSchedule(t) == IF pc[t] = "scheduleGet" THEN "again" ELSE "run"

\* The current thread of c, RUNNING, keeps the processor or gives way to
\* another one.
ScheduleRunning(c) ==
  /\ dwThreadStatus[CurrentKernelThread[c]] = "RUNNING"
  /\ \/ ReadyLevels(c, LowestToPreempt(CurrentKernelThread[c])) = {}
        /\ UNCHANGED <<ThreadQueue, CurrentKernelThread, dwThreadStatus>>
     \/ Preempt(c)
  /\ UNCHANGED <<panic, objectVars>>

\* Without a look at whether the current thread is in the ready queue already.
AddWokenAgain(c) ==
  /\ dwThreadStatus[CurrentKernelThread[c]] = "READY"
  /\ Preempt(c)
  /\ UNCHANGED <<panic, objectVars>>

\* It was woken between blocking and getting here, and so waits in the ready
\* queue of its own processor: it is fetched again, or another one before it.
ScheduleReady(c) ==
  LET current == CurrentKernelThread[c] IN
  /\ dwThreadStatus[current] = "READY"
  /\ IF ReadyLevels(c, Priority[current]) = {}
     THEN panic' = TRUE /\ UNCHANGED <<ThreadQueue, CurrentKernelThread, dwThreadStatus>>
     ELSE /\ ThreadQueue' = Fetched(c, Priority[current])
          /\ SwitchTo(c, GetScheduleKernelThread(c, Priority[current]), dwThreadStatus)
          /\ UNCHANGED panic
  /\ UNCHANGED objectVars

ScheduleWaiting(c) ==
  /\ dwThreadStatus[CurrentKernelThread[c]] \in {"BLOCKED", "SUSPENDED"}
  /\ SwapOut(c)
  /\ UNCHANGED objectVars

\* The reference a thread holds on itself ends with it.
ScheduleTerminal(c) ==
  LET current == CurrentKernelThread[c] IN
  /\ dwThreadStatus[current] = "TERMINAL"
  /\ ReadyLevels(c, 0) # {}
  /\ ThreadQueue' = Fetched(c, 0)
  /\ SwitchTo(c, GetScheduleKernelThread(c, 0), AfterDestroy(dwThreadStatus, current))
  /\ DestroyObject(current)
  /\ UNCHANGED panic

ScheduleFromProc(c) ==
  LET current == CurrentKernelThread[c] IN
  /\ ~panic
  /\ pc[current] \in {"schedule", "scheduleGet"}
  /\ \/ ScheduleTerminal(c) /\ pc' = [pc EXCEPT ![current] = "dead"]
     \/ /\ ScheduleRunning(c) \/ ScheduleReady(c) \/ ScheduleWaiting(c)
        /\ pc' = [pc EXCEPT ![current] = AfterSchedule(current)]
  /\ UNCHANGED <<cpuAffinity, lpSuspendedQueue, messageVars, waitVars>>

\* An interrupt of processor c reschedules.  A thread that was interrupted on
\* its way to ScheduleFromProc goes on, but for a suspended one.  Interrupts are
\* off while a thread holds its lock.
ScheduleFromInt(c) ==
  LET current == CurrentKernelThread[c] IN
  /\ ~panic
  /\ pc[current] # "wake"
  /\ \/ dwThreadStatus[current] = "SUSPENDED" /\ SwapOut(c)
     \/ dwThreadStatus[current] = "RUNNING" /\ Preempt(c) /\ UNCHANGED panic
  /\ UNCHANGED <<cpuAffinity, lpSuspendedQueue, pc, messageVars, waitVars, objectVars>>

-----------------------------------------------------------------------------
(* What a running thread t does.                                            *)

Current(t) == \E c \in CPU : CurrentKernelThread[c] = t
Runs(t) == t \in Workers /\ ~panic /\ Current(t) /\ pc[t] = "run"

\* The references are that of the thread itself and the creator's handle.
\* Clients use a thread only by its handle.
HandleOpen(u) == refCount[u] = (IF pc[u] = "dead" THEN 1 ELSE 2)

\* The spin lock of u, which only the end of u holds for more than a step.
LockIsFree(u) == pc[u] # "wake"

Reschedules(t) == pc' = [pc EXCEPT ![t] = "schedule"]

\* u is a fresh object under the name of a thread that is no more.
Create(t, u) ==
  /\ Runs(t) /\ dwThreadStatus[u] = "DESTROYED"
  /\ refCount' = [refCount EXCEPT ![u] = 2]
  /\ \E c \in CPU :
       /\ CurrentKernelThread[c] = t
       /\ cpuAffinity' = [cpuAffinity EXCEPT ![u] = c]
       /\ \/ /\ c \in Placement[u]
             /\ dwThreadStatus' = [dwThreadStatus EXCEPT ![u] = "READY"]
             /\ ThreadQueue' = [ThreadQueue EXCEPT ![c][Priority[u]] = Append(@, u)]
             /\ UNCHANGED lpSuspendedQueue
          \/ /\ dwThreadStatus' = [dwThreadStatus EXCEPT ![u] = "SUSPENDED"]
             /\ lpSuspendedQueue' = lpSuspendedQueue \union {u}
             /\ UNCHANGED ThreadQueue
  /\ pc' = [pc EXCEPT ![u] = "run"]
  /\ ucCurrentMsgNum' = [ucCurrentMsgNum EXCEPT ![u] = 0]
  /\ lpWaitingQueue' = [lpWaitingQueue EXCEPT ![u] = <<>>]
  /\ lpMsgWaitingQueue' = [lpMsgWaitingQueue EXCEPT ![u] = <<>>]
  /\ UNCHANGED <<CurrentKernelThread, lpTerminalQueue, waking, panic>>

\* Clients move a thread to another processor while it is suspended, a new one
\* before they resume it.
ChangeAffinity(t, u, c) ==
  /\ Runs(t) /\ HandleOpen(u)
  /\ dwThreadStatus[u] = "SUSPENDED" /\ ~Current(u)
  /\ c \in Placement[u] \ {cpuAffinity[u]}
  /\ cpuAffinity' = [cpuAffinity EXCEPT ![u] = c]
  /\ UNCHANGED <<dwThreadStatus, ThreadQueue, CurrentKernelThread,
                 lpSuspendedQueue, pc, panic, objectVars, messageVars, waitVars>>

\* Clients suspend only themselves: the suspend counter is 1 exactly in a
\* thread that did, and no thread of a ready queue has one.
kSuspendKernelThread(t) ==
  /\ Runs(t)
  /\ dwThreadStatus' = [dwThreadStatus EXCEPT ![t] = "SUSPENDED"]
  /\ lpSuspendedQueue' = lpSuspendedQueue \union {t}
  /\ Reschedules(t)
  /\ UNCHANGED <<cpuAffinity, ThreadQueue, CurrentKernelThread, panic,
                 objectVars, messageVars, waitVars>>

kResumeKernelThread(t, u) ==
  /\ Runs(t) /\ t # u /\ HandleOpen(u) /\ LockIsFree(u)
  /\ cpuAffinity[u] \in Placement[u]
  /\ IF dwThreadStatus[u] = "SUSPENDED"
     THEN /\ lpSuspendedQueue' = lpSuspendedQueue \ {u}
          /\ dwThreadStatus' = [dwThreadStatus EXCEPT ![u] = "READY"]
          /\ panic' = InReadyQueue(u)
          /\ ThreadQueue' = AddReady(ThreadQueue, u)
     ELSE UNCHANGED <<lpSuspendedQueue, dwThreadStatus, panic, ThreadQueue>>
  /\ Reschedules(t)
  /\ UNCHANGED <<cpuAffinity, CurrentKernelThread, objectVars, messageVars, waitVars>>

WakeReceiver(u) ==
  IF lpMsgWaitingQueue[u] = <<>>
  THEN UNCHANGED <<lpMsgWaitingQueue, dwThreadStatus, ThreadQueue, panic>>
  ELSE LET w == HeaderElement(lpMsgWaitingQueue[u]) IN
       /\ lpMsgWaitingQueue' =
            [lpMsgWaitingQueue EXCEPT ![u] = WithoutHeader(@)]
       /\ dwThreadStatus' = [dwThreadStatus EXCEPT ![w] = "READY"]
       /\ panic' = InReadyQueue(w)
       /\ ThreadQueue' = AddReady(ThreadQueue, w)

\* A full ring drops the message, and a thread that has ended takes none.
PutMessage(u) ==
  /\ u \in Receivers /\ LockIsFree(u)
  /\ dwThreadStatus[u] \notin {"TERMINAL", "DESTROYED"}
  /\ ucCurrentMsgNum[u] < MAX_KTHREAD_MSG_NUM
  /\ ucCurrentMsgNum' = [ucCurrentMsgNum EXCEPT ![u] = @ + 1]
  /\ WakeReceiver(u)
  /\ UNCHANGED <<cpuAffinity, CurrentKernelThread, lpSuspendedQueue,
                 objectVars, waitVars>>

SendMessage(t, u) ==
  /\ Runs(t) /\ HandleOpen(u)
  /\ PutMessage(u)
  /\ Reschedules(t)

\* A timer of u sends from an interrupt, which does not reschedule by itself.
SendTimerMessage(u) ==
  /\ ~panic
  /\ \E c \in CPU : pc[CurrentKernelThread[c]] # "wake"
  /\ PutMessage(u)
  /\ UNCHANGED pc

GetMessage(t) ==
  /\ t \in Receivers /\ ~panic /\ Current(t) /\ pc[t] \in {"run", "again"}
  /\ \/ /\ ucCurrentMsgNum[t] = 0
        /\ dwThreadStatus' = [dwThreadStatus EXCEPT ![t] = "BLOCKED"]
        /\ lpMsgWaitingQueue' = [lpMsgWaitingQueue EXCEPT ![t] = Append(@, t)]
        /\ pc' = [pc EXCEPT ![t] = "scheduleGet"]
        /\ UNCHANGED ucCurrentMsgNum
     \/ /\ ucCurrentMsgNum[t] > 0
        /\ ucCurrentMsgNum' = [ucCurrentMsgNum EXCEPT ![t] = @ - 1]
        /\ pc' = [pc EXCEPT ![t] = "run"]
        /\ UNCHANGED <<dwThreadStatus, lpMsgWaitingQueue>>
  /\ UNCHANGED <<cpuAffinity, ThreadQueue, CurrentKernelThread,
                 lpSuspendedQueue, panic, objectVars, waitVars>>

-----------------------------------------------------------------------------
(* The end of a thread.                                                     *)

HasNoObject(u) == dwThreadStatus[u] = "DESTROYED"
HasEnded(u) == dwThreadStatus[u] = "TERMINAL"

\* A wait for a thread that has ended returns at once.
WaitForKernelThreadObject(t, u) ==
  /\ Runs(t) /\ t # u /\ HandleOpen(u) /\ LockIsFree(u)
  /\ ~HasEnded(u)
  /\ dwThreadStatus' = [dwThreadStatus EXCEPT ![t] = "BLOCKED"]
  /\ lpWaitingQueue' = [lpWaitingQueue EXCEPT ![u] = Append(@, t)]
  /\ Reschedules(t)
  /\ UNCHANGED <<cpuAffinity, ThreadQueue, CurrentKernelThread, waking,
                 lpSuspendedQueue, panic, objectVars, messageVars>>

\* CloseHandle or DestroyKernelThread, at any time after the creation.
DestroyKernelThread(t, u) ==
  /\ Runs(t) /\ t # u /\ HandleOpen(u)
  /\ DestroyObject(u)
  /\ dwThreadStatus' = AfterDestroy(dwThreadStatus, u)
  /\ UNCHANGED <<cpuAffinity, ThreadQueue, CurrentKernelThread, pc,
                 lpSuspendedQueue, panic, messageVars, waitVars>>

\* The thread returned or called TerminateKernelThread for itself.
KernelThreadClean(t) ==
  /\ Runs(t)
  /\ dwThreadStatus' = [dwThreadStatus EXCEPT ![t] = "TERMINAL"]
  /\ lpTerminalQueue' = lpTerminalQueue \union {t}
  /\ pc' = [pc EXCEPT ![t] = "wake"]
  /\ UNCHANGED <<cpuAffinity, ThreadQueue, CurrentKernelThread,
                 lpSuspendedQueue, refCount, panic, messageVars, waitVars>>

MarkWaiter(t) ==
  /\ ~panic /\ pc[t] = "wake" /\ waking[t] = NoThread
  /\ lpWaitingQueue[t] # <<>>
  /\ LET w == HeaderElement(lpWaitingQueue[t]) IN
     /\ lpWaitingQueue' = [lpWaitingQueue EXCEPT ![t] = WithoutHeader(@)]
     /\ waking' = [waking EXCEPT ![t] = w]
     /\ dwThreadStatus' = [dwThreadStatus EXCEPT ![w] = "READY"]
  /\ UNCHANGED <<cpuAffinity, ThreadQueue, CurrentKernelThread,
                 lpSuspendedQueue, pc, panic, objectVars, messageVars>>

\* AddReadyKernelThread refuses a thread that is not READY.
AddWaiter(t) ==
  /\ ~panic /\ waking[t] # NoThread
  /\ waking' = [waking EXCEPT ![t] = NoThread]
  /\ IF dwThreadStatus[waking[t]] = "READY"
     THEN /\ panic' = InReadyQueue(waking[t])
          /\ ThreadQueue' = AddReady(ThreadQueue, waking[t])
     ELSE UNCHANGED <<panic, ThreadQueue>>
  /\ UNCHANGED <<dwThreadStatus, cpuAffinity, CurrentKernelThread,
                 lpSuspendedQueue, lpWaitingQueue, pc, objectVars, messageVars>>

AllWoken(t) ==
  /\ ~panic /\ pc[t] = "wake" /\ waking[t] = NoThread
  /\ lpWaitingQueue[t] = <<>>
  /\ Reschedules(t)
  /\ UNCHANGED <<dwThreadStatus, cpuAffinity, ThreadQueue,
                 CurrentKernelThread, lpSuspendedQueue, panic, objectVars,
                 messageVars, waitVars>>

-----------------------------------------------------------------------------
\* What processor c has to do of the kernel itself: it goes on once it can.
KernelStep(c) ==
  \/ ScheduleFromProc(c)
  \/ \E t \in Workers :
       /\ CurrentKernelThread[c] = t
       /\ \/ MarkWaiter(t) \/ AddWaiter(t) \/ AllWoken(t)
          \/ pc[t] = "again" /\ GetMessage(t)

ClientStep ==
  \E t \in Workers :
    \/ kSuspendKernelThread(t)
    \/ pc[t] = "run" /\ GetMessage(t)
    \/ KernelThreadClean(t)
    \/ SendTimerMessage(t)
    \/ \E u \in Workers :
         \/ Create(t, u) \/ \E c \in CPU : ChangeAffinity(t, u, c)
         \/ kResumeKernelThread(t, u)
         \/ SendMessage(t, u)
         \/ WaitForKernelThreadObject(t, u)
         \/ DestroyKernelThread(t, u)

Next == ClientStep \/ \E c \in CPU : KernelStep(c) \/ ScheduleFromInt(c)

\* Each processor gets interrupts again and again (its clock), and code of the
\* kernel that can go on does.
Fairness == \A c \in CPU : WF_vars(ScheduleFromInt(c)) /\ WF_vars(KernelStep(c))

Spec == Init /\ [][Next]_vars
FairSpec == Spec /\ Fairness

-----------------------------------------------------------------------------
(* Properties.                                                              *)

Copies(q, t) == Cardinality({i \in DOMAIN q : q[i] = t})
BeingWoken(t) == \E u \in Workers : waking[u] = t

\* The assumption ScheduleFromProc rests on: a READY thread is in the ready queue
\* of its own processor and priority, once, unless the end of another thread has
\* marked it and not yet added it, and no other thread is in a ready queue.
\* With it a RUNNING thread runs on exactly one processor, and every other one is
\* in the one queue that its status says.
EveryThreadIsInItsPlace ==
  \A t \in Threads :
    LET status == dwThreadStatus[t]
        runsOn == {c \in CPU : CurrentKernelThread[c] = t}
    IN /\ \A c \in CPU, p \in Levels :
            Copies(ThreadQueue[c][p], t) =
              IF /\ status = "READY" /\ ~BeingWoken(t)
                 /\ c = cpuAffinity[t] /\ p = Priority[t]
              THEN 1 ELSE 0
       /\ runsOn \subseteq {cpuAffinity[t]}
       /\ status = "RUNNING" => runsOn # {}
       /\ t \in lpSuspendedQueue <=> status = "SUSPENDED"
       /\ t \in lpTerminalQueue <=> status = "TERMINAL"
       /\ status = "DESTROYED" => runsOn = {} /\ lpWaitingQueue[t] = <<>>

\* Nobody sleeps for what has already happened: a thread that waits for a message
\* has none, a thread that waits for another one waits for one that has not
\* ended or that is still waking its waiters, and a blocked thread is in exactly
\* one of these queues.
NobodyWaitsInVain ==
  \A t \in Workers :
    /\ lpMsgWaitingQueue[t] # <<>> => ucCurrentMsgNum[t] = 0
    /\ lpWaitingQueue[t] # <<>> => dwThreadStatus[t] # "TERMINAL" \/ pc[t] = "wake"
    /\ Copies(lpMsgWaitingQueue[t], t)
         + Cardinality({u \in Workers : ObjectInQueue(lpWaitingQueue[u], t)})
         = IF dwThreadStatus[t] = "BLOCKED" THEN 1 ELSE 0

\* A ready thread of the highest priority gets to run, however its processor's
\* other threads of that priority behave: the schedulers take turns.
ReadyThreadRuns ==
  \A t \in {w \in Workers : \A p \in Levels : p <= Priority[w]} :
    dwThreadStatus[t] = "READY" ~> panic \/ dwThreadStatus[t] = "RUNNING"
=============================================================================
