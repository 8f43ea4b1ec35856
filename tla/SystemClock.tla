---------------------------- MODULE SystemClock ----------------------------
(***************************************************************************)
(* The clock of kernel/system.c: the timer queue with SetTimer and         *)
(* CancelTimer, the sleeping queue with Sleep (kernel/ktmgr.c), and the    *)
(* timer interrupt that serves both and advances dwClockTickCounter.       *)
(*                                                                         *)
(* Both queues are sorted by MAX_DWORD_VALUE - tick, and the interrupt     *)
(* looks at a queue only when the counter is EQUAL to the tick that was    *)
(* noted for its header (dwNextTimerTick, dwNextWakeupTick).  Time is      *)
(* counted in ticks of SYSTEM_TIME_SLICE; the counter has MaxTick for      *)
(* MAX_DWORD_VALUE and wraps as the 32-bit one does.                       *)
(*                                                                         *)
(* The interrupt has two critical sections.  In the first, under System's  *)
(* lock, it takes one timer after the other, and each is a step here; in   *)
(* the second it also holds KernelThreadManager's lock, wakes the sleepers *)
(* and counts the tick.  Handlers do not set or cancel timers (they would  *)
(* wait for the lock the interrupt holds).                                 *)
(***************************************************************************)
EXTENDS Integers, PriorityQueue

CONSTANTS
  Timers,       \* timer objects
  Sleepers,     \* kernel threads that sleep
  Spans,        \* time spans, in ticks
  MaxTick,      \* MAX_DWORD_VALUE
  LastTick      \* bound on the clock; above MaxTick there is none

ASSUME ClockAssumption ==
  /\ MaxTick \in Nat /\ LastTick \in Nat
  /\ Spans \subseteq 1..MaxTick

VARIABLES
  dwClockTickCounter,
  interrupt,          \* the section the timer interrupt is in
  dwNextTimerTick,
  lpTimerQueue,
  flags,              \* timer flags; none: there is no such timer object
  dwTimeSpan,
  timerTick,          \* MAX_DWORD_VALUE - priority, per timer
  dwNextWakeupTick,
  lpSleepingQueue,
  wakeupTick          \* MAX_DWORD_VALUE - priority, per sleeper

timerVars == <<dwNextTimerTick, lpTimerQueue, flags, dwTimeSpan, timerTick>>
sleepVars == <<dwNextWakeupTick, lpSleepingQueue, wakeupTick>>
vars == <<dwClockTickCounter, interrupt, timerVars, sleepVars>>

\* flags: once: ONCE; kept: ONCE | NOAUTODEL; fired: kept, with FIRED; always:
\* ALWAYS.

Tick == 0..MaxTick

Init ==
  /\ dwClockTickCounter = 0
  /\ interrupt = "none"
  /\ dwNextTimerTick = 0 /\ dwNextWakeupTick = 0
  /\ lpTimerQueue = <<>> /\ lpSleepingQueue = <<>>
  /\ flags = [t \in Timers |-> "none"]
  /\ dwTimeSpan = [t \in Timers |-> 0]
  /\ timerTick = [t \in Timers |-> 0]
  /\ wakeupTick = [s \in Sleepers |-> 0]

TickAfter(span) == (dwClockTickCounter + span) % (MaxTick + 1)

\* Sorted by descending priority MaxTick - tick, later objects behind earlier
\* ones of the same tick.
InsertByTick(queue, x, ticks) ==
  InsertIntoQueue(queue, x, [y \in DOMAIN ticks |-> MaxTick - ticks[y]])

\* A header that was taken out only to read its priority goes back in, behind
\* its equals.
PutBack(queue, ticks) ==
  IF queue = <<>> THEN <<>>
  ELSE InsertByTick(WithoutHeader(queue), HeaderElement(queue), ticks)

TickOfHeader(queue, ticks) == IF queue = <<>> THEN 0 ELSE ticks[HeaderElement(queue)]

-----------------------------------------------------------------------------
(* SetTimer and CancelTimer, under System's lock.                           *)

SystemUnlocked == interrupt # "timers"

\* No timer, or only later ones, are noted.
NeverEarlier(next, tick) == next = 0
Earlier(next, tick) == next > tick \/ next = 0

SetTimer(t, flag, span) ==
  /\ SystemUnlocked
  /\ flags[t] = "none"
  /\ flags' = [flags EXCEPT ![t] = flag]
  /\ dwTimeSpan' = [dwTimeSpan EXCEPT ![t] = span]
  /\ timerTick' = [timerTick EXCEPT ![t] = TickAfter(span)]
  /\ lpTimerQueue' = InsertByTick(lpTimerQueue, t, timerTick')
  /\ dwNextTimerTick' = IF Earlier(dwNextTimerTick, TickAfter(span))
                        THEN TickAfter(span) ELSE dwNextTimerTick
  /\ UNCHANGED <<dwClockTickCounter, interrupt, sleepVars>>

Destroy(t) ==
  /\ flags' = [flags EXCEPT ![t] = "none"]
  /\ dwTimeSpan' = [dwTimeSpan EXCEPT ![t] = 0]

\* The tick noted after the queue has lost a timer: it is only ever raised.
NextTickKept(queue) == IF queue = <<>> THEN 0 ELSE dwNextTimerTick
NextTickAfterCancel(queue) ==
  IF queue # <<>> /\ dwNextTimerTick >= TickOfHeader(queue, timerTick)
  THEN dwNextTimerTick ELSE TickOfHeader(queue, timerTick)

\* On a timer that is gone (its signature is cleared) nothing happens.
CancelTimer(t) ==
  /\ SystemUnlocked
  /\ flags[t] # "none"
  /\ LET rest == DeleteFromQueue(lpTimerQueue, t) IN
     /\ lpTimerQueue' = PutBack(rest, timerTick)
     /\ dwNextTimerTick' = NextTickAfterCancel(rest)
  /\ Destroy(t)
  /\ timerTick' = [timerTick EXCEPT ![t] = 0]
  /\ UNCHANGED <<dwClockTickCounter, interrupt, sleepVars>>

-----------------------------------------------------------------------------
(* The timer interrupt, first section: expired timers.                      *)

TimerInterrupt ==
  /\ interrupt = "none"
  /\ dwClockTickCounter # LastTick
  /\ interrupt' = IF dwClockTickCounter = dwNextTimerTick /\ lpTimerQueue # <<>>
                  THEN "timers" ELSE "sleepers"
  /\ UNCHANGED <<dwClockTickCounter, timerVars, sleepVars>>

\* The header t of the queue has expired.
AnyHeader(t) ==
  /\ interrupt = "timers"
  /\ lpTimerQueue # <<>> /\ t = HeaderElement(lpTimerQueue)
Expired(t) ==
  /\ interrupt = "timers"
  /\ lpTimerQueue # <<>> /\ t = HeaderElement(lpTimerQueue)
  /\ timerTick[t] <= dwNextTimerTick

Requeue(t, tick) ==
  /\ timerTick' = [timerTick EXCEPT ![t] = tick]
  /\ lpTimerQueue' = InsertByTick(WithoutHeader(lpTimerQueue), t, timerTick')

\* Run the handler, delete the timer.
FireOnce(t) ==
  /\ Expired(t) /\ flags[t] = "once"
  /\ lpTimerQueue' = WithoutHeader(lpTimerQueue)
  /\ Destroy(t)
  /\ timerTick' = [timerTick EXCEPT ![t] = 0]
  /\ UNCHANGED <<dwClockTickCounter, interrupt, dwNextTimerTick, sleepVars>>

\* Run the handler once, and keep the timer at the end of the queue (with
\* priority 0) for CancelTimer.
FireKept(t) ==
  /\ Expired(t) /\ flags[t] \in {"kept", "fired"}
  /\ flags' = [flags EXCEPT ![t] = "fired"]
  /\ Requeue(t, MaxTick)
  /\ UNCHANGED <<dwClockTickCounter, interrupt, dwNextTimerTick, dwTimeSpan, sleepVars>>

\* The next time of a periodic timer is counted from the clock.
SameTick(t) == dwClockTickCounter
NextPeriod(t) == TickAfter(dwTimeSpan[t])

FirePeriodic(t) ==
  /\ Expired(t) /\ flags[t] = "always"
  /\ Requeue(t, NextPeriod(t))
  /\ UNCHANGED <<dwClockTickCounter, interrupt, dwNextTimerTick, flags, dwTimeSpan, sleepVars>>

\* No timer is left, or the header has not expired.
EndOfTimers ==
  /\ interrupt = "timers"
  /\ \A t \in Timers : ~Expired(t)
  /\ dwNextTimerTick' = TickOfHeader(lpTimerQueue, timerTick)
  /\ lpTimerQueue' = PutBack(lpTimerQueue, timerTick)
  /\ interrupt' = "sleepers"
  /\ UNCHANGED <<dwClockTickCounter, flags, dwTimeSpan, timerTick, sleepVars>>

-----------------------------------------------------------------------------
(* Second section: sleepers, and the tick is counted.                       *)

\* Less than a tick is no sleep at all.
Sleep(s, span) ==
  /\ ~ObjectInQueue(lpSleepingQueue, s)
  /\ wakeupTick' = [wakeupTick EXCEPT ![s] = TickAfter(span)]
  /\ lpSleepingQueue' = InsertByTick(lpSleepingQueue, s, wakeupTick')
  /\ dwNextWakeupTick' = IF Earlier(dwNextWakeupTick, TickAfter(span))
                         THEN TickAfter(span) ELSE dwNextWakeupTick
  /\ UNCHANGED <<dwClockTickCounter, interrupt, timerVars>>

\* The sleepers whose time has come.
AllSleepers == ToSet(lpSleepingQueue)
FirstOnly == IF lpSleepingQueue = <<>> THEN {} ELSE {HeaderElement(lpSleepingQueue)}
DueSleepers == {s \in ToSet(lpSleepingQueue) : wakeupTick[s] <= dwClockTickCounter}

\* Headers are taken as long as they are due: this many.
NumberDue ==
  CHOOSE n \in 0..Len(lpSleepingQueue) :
    /\ \A i \in 1..n : lpSleepingQueue[i] \in DueSleepers
    /\ n < Len(lpSleepingQueue) => lpSleepingQueue[n + 1] \notin DueSleepers

WakeupSleepers ==
  /\ interrupt = "sleepers"
  /\ IF dwClockTickCounter = dwNextWakeupTick
     THEN LET rest == SubSeq(lpSleepingQueue, NumberDue + 1, Len(lpSleepingQueue)) IN
          /\ lpSleepingQueue' = PutBack(rest, wakeupTick)
          /\ dwNextWakeupTick' = TickOfHeader(rest, wakeupTick)
          /\ wakeupTick' = [s \in Sleepers |-> IF s \in ToSet(rest) THEN wakeupTick[s] ELSE 0]
     ELSE UNCHANGED sleepVars
  /\ dwClockTickCounter' = TickAfter(1)
  /\ interrupt' = "none"
  /\ UNCHANGED timerVars

-----------------------------------------------------------------------------
ServeTimer == \E t \in Timers : FireOnce(t) \/ FireKept(t) \/ FirePeriodic(t)

Next ==
  \/ \E t \in Timers :
       \/ \E flag \in {"once", "kept", "always"}, span \in Spans : SetTimer(t, flag, span)
       \/ CancelTimer(t)
  \/ \E s \in Sleepers, span \in Spans : Sleep(s, span)
  \/ TimerInterrupt \/ ServeTimer \/ EndOfTimers \/ WakeupSleepers

Spec == Init /\ [][Next]_vars

\* An interrupt handler, once entered, goes on.
FairSpec == Spec /\ WF_vars(ServeTimer) /\ WF_vars(EndOfTimers) /\ WF_vars(WakeupSleepers)

-----------------------------------------------------------------------------
(* Properties.                                                              *)

\* Ticks from now until the given one, on the wrapping counter.
TicksUntil(tick) == (tick - dwClockTickCounter) % (MaxTick + 1)

Pending(t) == flags[t] \in {"once", "kept", "always"}

\* The tick noted for the timer queue is that of its first timer.  The
\* interrupt compares for equality, so a note that is too late, or too early
\* by one, would hold up every timer.
NoteMatchesHeader ==
  /\ SystemUnlocked /\ lpTimerQueue # <<>> =>
       dwNextTimerTick = TickOfHeader(lpTimerQueue, timerTick)
  /\ lpSleepingQueue # <<>> => dwNextWakeupTick = TickOfHeader(lpSleepingQueue, wakeupTick)

\* No timer is missed: its tick is still to come, and no further away than its
\* span, whatever is set, cancelled and fired around it.
NoTimerMissed ==
  \A t \in Timers : Pending(t) =>
    IF interrupt = "sleepers"
    THEN TicksUntil(timerTick[t]) \in 1..dwTimeSpan[t]
    ELSE TicksUntil(timerTick[t]) \in 0..dwTimeSpan[t]

\* No sleeper is missed either.
NoSleeperMissed ==
  \A s \in ToSet(lpSleepingQueue) : \E span \in Spans : TicksUntil(wakeupTick[s]) <= span

\* A handler runs on the tick its timer was set for, never before.
FiresOnTick ==
  [][\A t \in Timers :
       FireOnce(t) \/ FirePeriodic(t) \/ (FireKept(t) /\ flags[t] = "kept")
         => dwClockTickCounter = timerTick[t]]_vars

\* Nobody is woken before the tick the sleep was to last until.
SleepsToTheEnd ==
  [][\A s \in ToSet(lpSleepingQueue) \ ToSet(lpSleepingQueue') :
       dwClockTickCounter = wakeupTick[s]]_vars

\* The interrupt counts its tick: it does not serve timers for ever.
InterruptEnds == interrupt = "timers" ~> interrupt = "none"
=============================================================================
