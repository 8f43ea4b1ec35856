--------------------------- MODULE SpinLockOrder ---------------------------
(***************************************************************************)
(* The order in which the kernel's code paths enter and leave spin locks   *)
(* on several CPUs, and what happens between two of them.  The modules of  *)
(* the single objects take a whole critical section as one step; here it   *)
(* is taken apart: a thread leaves the waiting queue of its object before  *)
(* the CPU that serves it has the lock of the thread, and meanwhile the    *)
(* time-out of the same thread may run on another CPU.                     *)
(*                                                                         *)
(* A CPU with interrupts off runs one path to its end.  A path is the      *)
(* sequence of steps that are left to do; calls are split where they hold  *)
(* no lock, because there the CPU may be interrupted or switch threads.    *)
(* Locks under which no other lock is entered (those of the queues, the    *)
(* ready queues and the memory pool) cannot close a cycle and are left out.*)
(***************************************************************************)
EXTENDS Naturals, Sequences, FiniteSets

CONSTANTS
  CPUs, NoCPU,
  Threads, NoThread,
  Plain,                \* events, semaphores and mailboxes: no time-out call back
  Mutexes, Conditions,  \* time-outs run MutexTimeOutCallback, CondTimeOutCallback
  TimedObjects,         \* objects some thread waits for with a time-out
  System, KernelThreadManager, NoObject

WaitObjects == Plain \union Mutexes \union Conditions
Locks == WaitObjects \union Threads \union {System, KernelThreadManager}

ASSUME LockAssumption ==
  /\ NoCPU \notin CPUs
  /\ NoThread \notin Threads
  /\ NoObject \notin WaitObjects
  /\ TimedObjects \subseteq WaitObjects
  \* Each spin lock is embedded in one structure, an object has one type.
  /\ Plain \intersect Mutexes = {} /\ Conditions \intersect (Plain \union Mutexes) = {}
  /\ Threads \intersect WaitObjects = {}
  /\ {System, KernelThreadManager} \intersect (Threads \union WaitObjects) = {}
  /\ System # KernelThreadManager

VARIABLES
  holder,     \* the CPU that holds a spin lock
  path,       \* the steps a CPU has yet to do
  runner,     \* the thread whose call a CPU runs, NoThread in an interrupt
  pc,         \* where a thread is in its wait call
  waitsFor,   \* the object of its last wait
  queued,     \* the threads in waiting queues
  sleeping,   \* the threads in the sleeping queue
  timer,      \* the timer of TimeOutWaiting is set
  readied     \* times a thread was made ready since it blocked: 0 is
              \* OBJECT_WAIT_WAITING

lockVars   == <<holder, path, runner>>
threadVars == <<pc, waitsFor, queued, sleeping, timer, readied>>
spinVars == <<lockVars, threadVars>>

SpinInit ==
  /\ holder = [l \in Locks |-> NoCPU]
  /\ path = [c \in CPUs |-> <<>>]
  /\ runner = [c \in CPUs |-> NoThread]
  /\ pc = [t \in Threads |-> "run"]
  /\ waitsFor = [t \in Threads |-> NoObject]
  /\ queued = {}
  /\ sleeping = {}
  /\ timer = [t \in Threads |-> FALSE]
  /\ readied = [t \in Threads |-> 0]

-----------------------------------------------------------------------------
(* The code paths.                                                          *)

Enter(l) == <<"enter", l>>
Leave(l) == <<"leave", l>>
Under(l, steps) == <<Enter(l)>> \o steps \o <<Leave(l)>>

\* The caller blocks itself under both locks.
WaitPath(o, t, how)    == Under(o, Under(t, <<<<"block", t, o, how>>>>))
\* A wake-up takes the header of the queue, then locks it.
WakePath(o)            == Under(o, <<<<"serve", o>>>>)
LeftToTimer(t)         == IF timer[t] THEN <<>> ELSE Under(t, <<<<"ready", t>>>>)
ReadyPath(t)           == Under(t, <<<<"ready", t>>>>)
\* __cond_ReleaseMutex runs under the lock of the condition.
CondWaitPath(o, t, m, how) ==
  Under(o, Under(t, <<<<"block", t, o, how>>>>) \o WakePath(m))
ReadStatusPath(t)      == Under(t, <<<<"return", t>>>>)
SetTimerPath(t)        == Under(System, <<<<"arm", t>>>>)
CancelTimerPath(t)     == Under(System, <<<<"disarm", t>>>>)
SleepPath(t)           == Under(KernelThreadManager, Under(t, <<<<"sleep", t>>>>))
TimerPath              == Under(System, <<<<"fire">>>>)
WakeSleepersPath       == Under(System, Under(KernelThreadManager, <<<<"sleepers">>>>))
\* The handler has the lock of the waiter; a call back enters the object too.
ExpirePath(t)          == Under(t, <<<<"expire", t>>>>)
LockedTimeOut(t) == Under(waitsFor[t], <<<<"timeout", t>>>>)
TimeOutPath(t) ==
  IF waitsFor[t] \in Plain
  THEN <<<<"timeout", t>>>>
  ELSE Under(waitsFor[t], <<<<"timeout", t>>>>)

Idle(c)    == path[c] = <<>>
OnCPU(t)   == \E c \in CPUs : runner[c] = t
MayRun(t)  == pc[t] = "run" /\ ~OnCPU(t)

Start(c, t, steps) ==
  /\ Idle(c)
  /\ path' = [path EXCEPT ![c] = steps]
  /\ runner' = [runner EXCEPT ![c] = t]
  /\ UNCHANGED <<holder, threadVars>>

Hows(o) == {"infinite"} \union (IF o \in TimedObjects THEN {"arm"} ELSE {})

CallWait(c, t) ==
  /\ MayRun(t)
  /\ \E o \in Plain \union Mutexes : \E how \in Hows(o) : Start(c, t, WaitPath(o, t, how))

CallCondWait(c, t) ==
  /\ MayRun(t)
  /\ \E o \in Conditions, m \in Mutexes : \E how \in Hows(o) :
       Start(c, t, CondWaitPath(o, t, m, how))

\* ReleaseMutex, kSetEvent, PulseEvent, _ReleaseSemaphore, _SendMail, _GetMail,
\* CondSignal, CondBroadcast and the destructions.
CallWake(c, t) ==
  /\ MayRun(t)
  /\ \E o \in WaitObjects : Start(c, t, WakePath(o))

CallSleep(c, t) == MayRun(t) /\ Start(c, t, SleepPath(t))

CallSetTimer(c, t) == pc[t] = "arm" /\ ~OnCPU(t) /\ Start(c, t, SetTimerPath(t))

\* The thread runs again once it was made ready.
RunAgain(c, t) ==
  /\ pc[t] \in {"infinite", "timed"} /\ readied[t] > 0 /\ ~OnCPU(t)
  /\ Start(c, t, ReadStatusPath(t))

CallCancelTimer(c, t) ==
  pc[t] = "cancel" /\ ~OnCPU(t) /\ Start(c, t, CancelTimerPath(t))

TimerInterrupt(c) ==
  \E steps \in {TimerPath, WakeSleepersPath} : Start(c, NoThread, steps)

-----------------------------------------------------------------------------
(* The steps.                                                               *)

Does(c, what) == ~Idle(c) /\ Head(path[c])[1] = what
Subject(c)    == Head(path[c])[2]

\* Do the first step and put others in its place; an empty path ends the call.
Continue(c, steps) ==
  LET rest == steps \o Tail(path[c]) IN
  /\ path' = [path EXCEPT ![c] = rest]
  /\ runner' = [runner EXCEPT ![c] = IF rest = <<>> THEN NoThread ELSE @]

EnterLock(c) ==
  /\ Does(c, "enter") /\ holder[Subject(c)] = NoCPU
  /\ holder' = [holder EXCEPT ![Subject(c)] = c]
  /\ Continue(c, <<>>)
  /\ UNCHANGED threadVars

LeaveLock(c) ==
  /\ Does(c, "leave")
  /\ holder' = [holder EXCEPT ![Subject(c)] = NoCPU]
  /\ Continue(c, <<>>)
  /\ UNCHANGED threadVars

Block(c) ==
  /\ Does(c, "block")
  /\ LET t == Subject(c) IN
     /\ pc' = [pc EXCEPT ![t] = Head(path[c])[4]]
     /\ waitsFor' = [waitsFor EXCEPT ![t] = Head(path[c])[3]]
     /\ queued' = queued \union {t}
     /\ readied' = [readied EXCEPT ![t] = 0]
  /\ Continue(c, <<>>)
  /\ UNCHANGED <<holder, sleeping, timer>>

Waiters(o) == {t \in queued : waitsFor[t] = o}

\* Take one waiter, or in the loops (destruction, SetEvent, CondBroadcast)
\* perhaps another one after it.
ServeHeader(c) ==
  /\ Does(c, "serve")
  /\ \E t \in Waiters(Subject(c)) : \E more \in {<<>>, <<Head(path[c])>>} :
       /\ queued' = queued \ {t}
       /\ Continue(c, ReadyPath(t) \o more)
  /\ UNCHANGED <<holder, pc, waitsFor, sleeping, timer, readied>>

ServeNobody(c) ==
  /\ Does(c, "serve")
  /\ Waiters(Subject(c)) = {}
  /\ Continue(c, <<>>)
  /\ UNCHANGED <<holder, threadVars>>

Ready(c) ==
  /\ Does(c, "ready")
  /\ readied' = [readied EXCEPT ![Subject(c)] = @ + 1]
  /\ Continue(c, <<>>)
  /\ UNCHANGED <<holder, pc, waitsFor, queued, sleeping, timer>>

\* A sleeper leaves the queue and is ready: its Sleep returns.
WakeSleeper(c) ==
  /\ Does(c, "sleepers")
  /\ \E t \in sleeping :
       /\ sleeping' = sleeping \ {t}
       /\ Continue(c, Under(t, <<<<"awake", t>>>>) \o <<Head(path[c])>>)
  /\ UNCHANGED <<holder, pc, waitsFor, queued, timer, readied>>

Awake(c) ==
  /\ Does(c, "awake")
  /\ pc' = [pc EXCEPT ![Subject(c)] = "run"]
  /\ Continue(c, <<>>)
  /\ UNCHANGED <<holder, waitsFor, queued, sleeping, timer, readied>>

\* The next sleeper, or timer, is not yet due.
NothingDue(c) ==
  /\ Does(c, "sleepers") \/ Does(c, "fire")
  /\ Continue(c, <<>>)
  /\ UNCHANGED <<holder, threadVars>>

SleepIn(c) ==
  /\ Does(c, "sleep")
  /\ pc' = [pc EXCEPT ![Subject(c)] = "sleep"]
  /\ sleeping' = sleeping \union {Subject(c)}
  /\ Continue(c, <<>>)
  /\ UNCHANGED <<holder, waitsFor, queued, timer, readied>>

\* The timer is one-shot: it leaves the timer queue before its handler runs.
Fire(c) ==
  /\ Does(c, "fire")
  /\ \E t \in Threads :
       /\ timer[t]
       /\ timer' = [timer EXCEPT ![t] = FALSE]
       /\ Continue(c, ExpirePath(t) \o <<Head(path[c])>>)
  /\ UNCHANGED <<holder, pc, waitsFor, queued, sleeping, readied>>

\* WaitingTimerHandler: only a thread that still waits times out.
StillWaits(t) == readied[t] = 0

Expire(c) ==
  /\ Does(c, "expire")
  /\ Continue(c, IF StillWaits(Subject(c)) THEN TimeOutPath(Subject(c)) ELSE <<>>)
  /\ UNCHANGED <<holder, threadVars>>

\* The default handler and MutexTimeOutCallback make the thread ready only if
\* they took it from the queue; CondTimeOutCallback does not look.
AlwaysTimesOut(t) == TRUE
TimesOut(t) == t \in queued \/ waitsFor[t] \in Conditions

TimeOut(c) ==
  /\ Does(c, "timeout")
  /\ LET t == Subject(c) IN
     IF TimesOut(t)
     THEN /\ queued' = queued \ {t}
          /\ readied' = [readied EXCEPT ![t] = @ + 1]
     ELSE UNCHANGED <<queued, readied>>
  /\ Continue(c, <<>>)
  /\ UNCHANGED <<holder, pc, waitsFor, sleeping, timer>>

SetTimer(c) ==
  /\ Does(c, "arm")
  /\ timer' = [timer EXCEPT ![Subject(c)] = TRUE]
  /\ pc' = [pc EXCEPT ![Subject(c)] = "timed"]
  /\ Continue(c, <<>>)
  /\ UNCHANGED <<holder, waitsFor, queued, sleeping, readied>>

ReadStatus(c) ==
  /\ Does(c, "return")
  /\ pc' = [pc EXCEPT ![Subject(c)] = IF @ = "timed" THEN "cancel" ELSE "run"]
  /\ Continue(c, <<>>)
  /\ UNCHANGED <<holder, waitsFor, queued, sleeping, timer, readied>>

CancelTimer(c) ==
  /\ Does(c, "disarm")
  /\ timer' = [timer EXCEPT ![Subject(c)] = FALSE]
  /\ pc' = [pc EXCEPT ![Subject(c)] = "run"]
  /\ Continue(c, <<>>)
  /\ UNCHANGED <<holder, waitsFor, queued, sleeping, readied>>

SpinNext ==
  \E c \in CPUs :
    \/ \E t \in Threads :
         \/ CallWait(c, t) \/ CallCondWait(c, t) \/ CallWake(c, t) \/ CallSleep(c, t)
         \/ CallSetTimer(c, t) \/ RunAgain(c, t) \/ CallCancelTimer(c, t)
    \/ TimerInterrupt(c)
    \/ EnterLock(c) \/ LeaveLock(c)
    \/ Block(c) \/ ServeHeader(c) \/ ServeNobody(c) \/ Ready(c)
    \/ WakeSleeper(c) \/ Awake(c) \/ NothingDue(c) \/ SleepIn(c)
    \/ Fire(c) \/ Expire(c) \/ TimeOut(c)
    \/ SetTimer(c) \/ ReadStatus(c) \/ CancelTimer(c)

SpinSpec == SpinInit /\ [][SpinNext]_spinVars

-----------------------------------------------------------------------------
(* Properties.                                                              *)

\* The CPUs of no group all spin for a lock that one of the group holds:
\* __raw_spin_lock never gives up, so the BUG_ON in
\* __ENTER_CRITICAL_SECTION_SMP holds.
NoCircularWait ==
  \A group \in SUBSET CPUs :
    group # {} =>
      ~ \A c \in group : Does(c, "enter") /\ holder[Subject(c)] \in group

\* However a time-out races a wake-up, a thread is put into the ready queue
\* once for each time it blocked.
NoDoubleWake == \A t \in Threads : readied[t] <= 1

\* Nobody is left behind: a blocked thread is in a waiting queue, or a CPU
\* has taken it from there and will make it ready.
NobodyStranded ==
  \A t \in Threads :
    pc[t] \in {"infinite", "arm", "timed"} /\ readied[t] = 0 =>
      \/ t \in queued
      \/ \E c \in CPUs : \E i \in 1..Len(path[c]) : path[c][i] = <<"ready", t>>
=============================================================================
