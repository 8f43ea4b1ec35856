------------------------- MODULE SystemClockProofs -------------------------
(***************************************************************************)
(* Theorems about SystemClock for any number of timers and sleepers, any   *)
(* spans and any width of the tick counter, as long as it has not wrapped. *)
(***************************************************************************)
EXTENDS SystemClock, QueueLemmas

\* Up to its last tick the clock reaches nothing behind MaxTick: every tick that is
\* ever asked for fits the counter, and the place behind all of them, where fired
\* timers are kept, is never due.  Without this the properties are false of the code.
NoWrap ==
  /\ LastTick < MaxTick
  /\ \A span \in Spans : LastTick + span <= MaxTick

-----------------------------------------------------------------------------
(* Queues sorted by ticks.                                                  *)

ByTick(ticks) == [y \in DOMAIN ticks |-> MaxTick - ticks[y]]

TickQueue(q, S, ticks) ==
  /\ q \in Seq(S) /\ IsInjective(q)
  /\ ticks \in [S -> Tick]
  /\ Sorted(q, ByTick(ticks))

-----------------------------------------------------------------------------
(* The inductive invariant.                                                 *)

ClockTypes ==
  /\ dwClockTickCounter \in 0..LastTick
  /\ interrupt \in {"none", "timers", "sleepers"}
  /\ dwNextTimerTick \in Tick /\ dwNextWakeupTick \in Tick
  /\ flags \in [Timers -> {"none", "once", "kept", "fired", "always"}]
  /\ dwTimeSpan \in [Timers -> {0} \union Spans]

\* The interrupt does not start at the bound of the clock.
TickIsCounted == interrupt # "none" => dwClockTickCounter < LastTick

\* The timer queue is sorted and holds the timers that exist.
TimersAreQueued ==
  /\ TickQueue(lpTimerQueue, Timers, timerTick)
  /\ \A t \in Timers : ObjectInQueue(lpTimerQueue, t) <=> flags[t] # "none"

\* What a timer waits for is ahead, by no more than its span; a fired one is kept
\* behind everything.
TimersAreAhead ==
  \A t \in Timers :
    /\ Pending(t) =>
         /\ dwTimeSpan[t] \in Spans
         /\ timerTick[t] > 0
         /\ dwClockTickCounter <= timerTick[t]
         /\ interrupt = "sleepers" => dwClockTickCounter < timerTick[t]
         /\ timerTick[t] <= dwClockTickCounter + dwTimeSpan[t]
    /\ flags[t] = "fired" => timerTick[t] = MaxTick

\* The note is the tick of the header, and none is noted of an empty queue.  While
\* the interrupt serves timers the note is the present tick.
TimerNote ==
  IF interrupt = "timers" THEN dwNextTimerTick = dwClockTickCounter
  ELSE dwNextTimerTick = TickOfHeader(lpTimerQueue, timerTick)

SleepersAreQueued == TickQueue(lpSleepingQueue, Sleepers, wakeupTick)

SleepersAreAhead ==
  \A s \in Sleepers : ObjectInQueue(lpSleepingQueue, s) =>
    /\ wakeupTick[s] > 0
    /\ dwClockTickCounter <= wakeupTick[s]
    /\ \E span \in Spans : wakeupTick[s] <= dwClockTickCounter + span

SleeperNote == dwNextWakeupTick = TickOfHeader(lpSleepingQueue, wakeupTick)

IInv ==
  /\ ClockTypes /\ TickIsCounted
  /\ TimersAreQueued /\ TimersAreAhead /\ TimerNote
  /\ SleepersAreQueued /\ SleepersAreAhead /\ SleeperNote

-----------------------------------------------------------------------------
(* What the operations do to a queue sorted by ticks.                       *)

LEMMA ByTickFact ==
  ASSUME NEW S, NEW ticks \in [S -> Tick]
  PROVE  ByTick(ticks) \in [S -> Nat] /\ \A y \in S : ByTick(ticks)[y] = MaxTick - ticks[y]
BY ClockAssumption DEF ByTick, Tick

\* The header comes first.
LEMMA HeaderIsNext ==
  ASSUME NEW S, NEW ticks, NEW q, TickQueue(q, S, ticks), q # <<>>
  PROVE  /\ HeaderElement(q) \in S /\ ObjectInQueue(q, HeaderElement(q))
         /\ TickOfHeader(q, ticks) = ticks[HeaderElement(q)]
         /\ \A y \in S : ObjectInQueue(q, y) => TickOfHeader(q, ticks) <= ticks[y]
<1>1. q \in Seq(S) /\ IsInjective(q) /\ ticks \in [S -> Tick] /\ Sorted(q, ByTick(ticks))
  BY DEF TickQueue
<1>2. HeaderElement(q) \in S /\ ObjectInQueue(q, HeaderElement(q))
  BY <1>1, HeaderTaken
<1>3. ByTick(ticks) \in [S -> Nat] /\ \A y \in S : ByTick(ticks)[y] = MaxTick - ticks[y]
  BY <1>1, ByTickFact
<1>4. \A y : ObjectInQueue(q, y) => ByTick(ticks)[y] <= ByTick(ticks)[HeaderElement(q)]
  BY <1>1, <1>3, SortedKept
<1>5. \A y \in S : ObjectInQueue(q, y) => ticks[HeaderElement(q)] <= ticks[y]
  BY <1>1, <1>2, <1>3, <1>4, ClockAssumption DEF Tick
<1> QED BY <1>2, <1>5 DEF TickOfHeader

\* Only the ticks of queued objects matter.
LEMMA OtherTicks ==
  ASSUME NEW S, NEW ticks, NEW q, TickQueue(q, S, ticks), NEW new \in [S -> Tick],
         \A y \in S : ObjectInQueue(q, y) => new[y] = ticks[y]
  PROVE  TickQueue(q, S, new) /\ TickOfHeader(q, new) = TickOfHeader(q, ticks)
<1>1. q \in Seq(S) /\ IsInjective(q) /\ ticks \in [S -> Tick] /\ Sorted(q, ByTick(ticks))
  BY DEF TickQueue
<1>2. /\ \A y \in S : ByTick(ticks)[y] = MaxTick - ticks[y]
      /\ \A y \in S : ByTick(new)[y] = MaxTick - new[y]
  BY <1>1, ByTickFact
<1>3. \A i \in 1..Len(q) : q[i] \in S /\ ObjectInQueue(q, q[i])
  BY <1>1 DEF ObjectInQueue, Contains
<1>4. \A i \in 1..Len(q) : ByTick(new)[q[i]] = ByTick(ticks)[q[i]]
  BY <1>2, <1>3
<1>5. Sorted(q, ByTick(new))
  BY <1>1, <1>4 DEF Sorted
<1>6. TickOfHeader(q, new) = TickOfHeader(q, ticks)
  BY HeaderIsNext DEF TickOfHeader
<1> QED BY <1>1, <1>5, <1>6 DEF TickQueue

LEMMA TickInserted ==
  ASSUME NEW S, NEW ticks, NEW q, TickQueue(q, S, ticks), NEW x \in S, ~ObjectInQueue(q, x),
         NEW r, r = InsertByTick(q, x, ticks)
  PROVE  /\ TickQueue(r, S, ticks) /\ r # <<>>
         /\ \A y : ObjectInQueue(r, y) <=> ObjectInQueue(q, y) \/ y = x
<1>1. q \in Seq(S) /\ IsInjective(q) /\ ticks \in [S -> Tick] /\ Sorted(q, ByTick(ticks))
  BY DEF TickQueue
<1>2. ByTick(ticks) \in [S -> Nat]
  BY <1>1, ByTickFact
<1>3. r = InsertIntoQueue(q, x, ByTick(ticks))
  BY DEF InsertByTick, ByTick
<1>4. /\ r \in Seq(S) /\ IsInjective(r) /\ Sorted(r, ByTick(ticks))
      /\ \A y : ObjectInQueue(r, y) <=> ObjectInQueue(q, y) \/ y = x
  BY <1>1, <1>2, <1>3, InsertKeeps
<1>5. r # <<>>
  BY <1>4, EmptyQueue
<1> QED BY <1>1, <1>4, <1>5 DEF TickQueue

LEMMA TickDeleted ==
  ASSUME NEW S, NEW ticks, NEW q, TickQueue(q, S, ticks), NEW x,
         NEW r, r = DeleteFromQueue(q, x)
  PROVE  /\ TickQueue(r, S, ticks)
         /\ \A y : ObjectInQueue(r, y) <=> ObjectInQueue(q, y) /\ y # x
<1>1. q \in Seq(S) /\ IsInjective(q) /\ ticks \in [S -> Tick] /\ Sorted(q, ByTick(ticks))
  BY DEF TickQueue
<1>2. ByTick(ticks) \in [S -> Nat]
  BY <1>1, ByTickFact
<1>3. /\ r \in Seq(S) /\ IsInjective(r)
      /\ \A y : ObjectInQueue(r, y) <=> ObjectInQueue(q, y) /\ y # x
  BY <1>1, DeleteKeeps
<1>4. Sorted(r, ByTick(ticks))
  BY <1>1, <1>2, SortedKept
<1> QED BY <1>1, <1>3, <1>4 DEF TickQueue

LEMMA TickHeaderTaken ==
  ASSUME NEW S, NEW ticks, NEW q, TickQueue(q, S, ticks), q # <<>>,
         NEW r, r = WithoutHeader(q)
  PROVE  /\ TickQueue(r, S, ticks)
         /\ \A y : ObjectInQueue(r, y) <=> ObjectInQueue(q, y) /\ y # HeaderElement(q)
<1>1. q \in Seq(S) /\ IsInjective(q) /\ ticks \in [S -> Tick] /\ Sorted(q, ByTick(ticks))
  BY DEF TickQueue
<1>2. ByTick(ticks) \in [S -> Nat]
  BY <1>1, ByTickFact
<1>3. /\ r \in Seq(S) /\ IsInjective(r)
      /\ \A y : ObjectInQueue(r, y) <=> ObjectInQueue(q, y) /\ y # HeaderElement(q)
  BY <1>1, HeaderTaken
<1>4. Sorted(r, ByTick(ticks))
  BY <1>1, <1>2, SortedKept
<1> QED BY <1>1, <1>3, <1>4 DEF TickQueue

\* Two queues of the same objects may differ in the order of equals, but not in the
\* tick of their headers.
LEMMA SameHeaderTick ==
  ASSUME NEW S, NEW ticks, NEW q, NEW r, TickQueue(q, S, ticks), TickQueue(r, S, ticks),
         \A y : ObjectInQueue(r, y) <=> ObjectInQueue(q, y)
  PROVE  TickOfHeader(r, ticks) = TickOfHeader(q, ticks)
<1>1. /\ q = <<>> <=> \A y : ~ObjectInQueue(q, y)
      /\ r = <<>> <=> \A y : ~ObjectInQueue(r, y)
  BY EmptyQueue DEF TickQueue
<1>2. CASE q = <<>>
  BY <1>1, <1>2 DEF TickOfHeader
<1>3. CASE q # <<>>
  <2>1. r # <<>>
    BY <1>1, <1>3
  <2>2. /\ HeaderElement(q) \in S /\ ObjectInQueue(q, HeaderElement(q))
        /\ TickOfHeader(q, ticks) = ticks[HeaderElement(q)]
        /\ \A y \in S : ObjectInQueue(q, y) => TickOfHeader(q, ticks) <= ticks[y]
    BY <1>3, HeaderIsNext
  <2>3. /\ HeaderElement(r) \in S /\ ObjectInQueue(r, HeaderElement(r))
        /\ TickOfHeader(r, ticks) = ticks[HeaderElement(r)]
        /\ \A y \in S : ObjectInQueue(r, y) => TickOfHeader(r, ticks) <= ticks[y]
    BY <2>1, HeaderIsNext
  <2>4. /\ TickOfHeader(r, ticks) <= TickOfHeader(q, ticks)
        /\ TickOfHeader(q, ticks) <= TickOfHeader(r, ticks)
    BY <2>2, <2>3
  <2>5. ticks[HeaderElement(q)] \in Nat /\ ticks[HeaderElement(r)] \in Nat
    BY <2>2, <2>3 DEF TickQueue, Tick
  <2> QED BY <2>2, <2>3, <2>4, <2>5
<1> QED BY <1>2, <1>3

LEMMA PutBackKeeps ==
  ASSUME NEW S, NEW ticks, NEW q, TickQueue(q, S, ticks), NEW r, r = PutBack(q, ticks)
  PROVE  /\ TickQueue(r, S, ticks)
         /\ \A y : ObjectInQueue(r, y) <=> ObjectInQueue(q, y)
         /\ TickOfHeader(r, ticks) = TickOfHeader(q, ticks)
<1>1. CASE q = <<>>
  BY <1>1 DEF PutBack
<1>2. CASE q # <<>>
  <2> DEFINE h == HeaderElement(q)
             w == WithoutHeader(q)
  <2>1. h \in S /\ ObjectInQueue(q, h)
    BY <1>2, HeaderIsNext
  <2>2. TickQueue(w, S, ticks) /\ \A y : ObjectInQueue(w, y) <=> ObjectInQueue(q, y) /\ y # h
    BY <1>2, TickHeaderTaken
  <2>3. r = InsertByTick(w, h, ticks)
    BY <1>2 DEF PutBack
  <2> HIDE DEF h, w
  <2>4. TickQueue(r, S, ticks) /\ \A y : ObjectInQueue(r, y) <=> ObjectInQueue(w, y) \/ y = h
    BY <2>1, <2>2, <2>3, TickInserted
  <2>5. \A y : ObjectInQueue(r, y) <=> ObjectInQueue(q, y)
    BY <2>1, <2>2, <2>4
  <2> QED BY <2>4, <2>5, SameHeaderTick
<1> QED BY <1>1, <1>2

\* The header after an insertion is the earlier of the new object and the old header.
LEMMA HeaderAfterInsertion ==
  ASSUME NEW S, NEW ticks, NEW q, NEW r, NEW x \in S,
         TickQueue(q, S, ticks), TickQueue(r, S, ticks),
         \A y : ObjectInQueue(r, y) <=> ObjectInQueue(q, y) \/ y = x
  PROVE  TickOfHeader(r, ticks) =
           IF q = <<>> \/ TickOfHeader(q, ticks) > ticks[x] THEN ticks[x]
           ELSE TickOfHeader(q, ticks)
<1>1. /\ q = <<>> <=> \A y : ~ObjectInQueue(q, y)
      /\ r # <<>>
  BY EmptyQueue DEF TickQueue
<1>2. /\ HeaderElement(r) \in S /\ ObjectInQueue(r, HeaderElement(r))
      /\ TickOfHeader(r, ticks) = ticks[HeaderElement(r)]
      /\ \A y \in S : ObjectInQueue(r, y) => TickOfHeader(r, ticks) <= ticks[y]
  BY <1>1, HeaderIsNext
<1>3. ticks[x] \in Nat /\ ticks[HeaderElement(r)] \in Nat
  BY <1>2 DEF TickQueue, Tick
<1>4. CASE q = <<>>
  BY <1>1, <1>2, <1>4
<1>5. CASE q # <<>>
  <2>1. /\ HeaderElement(q) \in S /\ ObjectInQueue(q, HeaderElement(q))
        /\ TickOfHeader(q, ticks) = ticks[HeaderElement(q)]
        /\ \A y \in S : ObjectInQueue(q, y) => TickOfHeader(q, ticks) <= ticks[y]
    BY <1>5, HeaderIsNext
  <2>2. ticks[HeaderElement(q)] \in Nat
    BY <2>1 DEF TickQueue, Tick
  <2>3. TickOfHeader(r, ticks) <= ticks[x] /\ TickOfHeader(r, ticks) <= TickOfHeader(q, ticks)
    BY <1>2, <2>1
  <2>4. HeaderElement(r) = x \/ TickOfHeader(q, ticks) <= TickOfHeader(r, ticks)
    BY <1>2, <2>1
  <2> QED BY <1>2, <1>3, <1>5, <2>1, <2>2, <2>3, <2>4
<1> QED BY <1>4, <1>5

\* An object enters the queue with a new tick.
LEMMA TickQueued ==
  ASSUME NEW S, NEW ticks, NEW q, TickQueue(q, S, ticks), NEW x \in S, ~ObjectInQueue(q, x),
         NEW new \in [S -> Tick], \A y \in S \ {x} : new[y] = ticks[y],
         NEW r, r = InsertByTick(q, x, new)
  PROVE  /\ TickQueue(r, S, new) /\ r # <<>>
         /\ \A y : ObjectInQueue(r, y) <=> ObjectInQueue(q, y) \/ y = x
         /\ TickOfHeader(r, new) =
              IF q = <<>> \/ TickOfHeader(q, ticks) > new[x] THEN new[x]
              ELSE TickOfHeader(q, ticks)
<1>2. \A y \in S : ObjectInQueue(q, y) => new[y] = ticks[y]
  OBVIOUS
<1>3. TickQueue(q, S, new) /\ TickOfHeader(q, new) = TickOfHeader(q, ticks)
  BY <1>2, OtherTicks
<1>4. /\ TickQueue(r, S, new) /\ r # <<>>
      /\ \A y : ObjectInQueue(r, y) <=> ObjectInQueue(q, y) \/ y = x
  BY <1>3, TickInserted
<1>5. TickOfHeader(r, new) =
        IF q = <<>> \/ TickOfHeader(q, new) > new[x] THEN new[x] ELSE TickOfHeader(q, new)
  BY <1>3, <1>4, HeaderAfterInsertion
<1> QED BY <1>3, <1>4, <1>5

-----------------------------------------------------------------------------
(* Arithmetic before the wrap, and the part of the invariant that says what  *)
(* the timers rest on, for a step of the timers.                             *)

LEMMA SmallRemainder ==
  ASSUME NEW m \in Nat, NEW a \in 0..m
  PROVE  a % (m + 1) = a
OBVIOUS

LEMMA TickAfterFact ==
  ASSUME NoWrap, ClockTypes
  PROVE  /\ \A span \in Spans : /\ TickAfter(span) = dwClockTickCounter + span
                                /\ span \in Nat /\ span > 0
                                /\ TickAfter(span) \in Tick
         /\ dwClockTickCounter < LastTick => TickAfter(1) = dwClockTickCounter + 1
<1> USE ClockAssumption DEF NoWrap, ClockTypes, Tick
<1>1. ASSUME NEW span \in Spans
      PROVE  /\ TickAfter(span) = dwClockTickCounter + span
             /\ span \in Nat /\ span > 0
             /\ TickAfter(span) \in Tick
  <2>1. MaxTick \in Nat /\ dwClockTickCounter + span \in 0..MaxTick /\ span \in Nat /\ span > 0
    OBVIOUS
  <2> QED BY <2>1, SmallRemainder DEF TickAfter
<1>2. ASSUME dwClockTickCounter < LastTick
      PROVE  TickAfter(1) = dwClockTickCounter + 1
  <2>1. MaxTick \in Nat /\ dwClockTickCounter + 1 \in 0..MaxTick
    BY <1>2
  <2> QED BY <2>1, SmallRemainder DEF TickAfter
<1> QED BY <1>1, <1>2

LEMMA InitIInv == Init => IInv
<1> SUFFICES ASSUME Init
             PROVE  IInv
  OBVIOUS
<1> USE ClockAssumption DEF Init, Tick
<1>1. ClockTypes /\ TickIsCounted
  BY DEF ClockTypes, TickIsCounted
<1>2. ASSUME NEW S, NEW q, q = <<>>
      PROVE  /\ TickQueue(q, S, [x \in S |-> 0])
             /\ \A y : ~ObjectInQueue(q, y)
  <2>1. q \in Seq(S)
    BY <1>2
  <2>2. IsInjective(q) /\ \A y : ~ObjectInQueue(q, y)
    BY <1>2, <2>1, EmptyQueue
  <2>3. Sorted(q, ByTick([x \in S |-> 0]))
    BY <1>2 DEF Sorted
  <2> QED BY <2>1, <2>2, <2>3 DEF TickQueue
<1>3. TimersAreQueued /\ SleepersAreQueued /\ SleepersAreAhead
  BY <1>2 DEF TimersAreQueued, SleepersAreQueued, SleepersAreAhead
<1>4. TimersAreAhead
  BY DEF TimersAreAhead, Pending
<1>5. TimerNote /\ SleeperNote
  BY DEF TimerNote, SleeperNote, TickOfHeader
<1> QED BY <1>1, <1>3, <1>4, <1>5 DEF IInv

\* Every queued timer waits for a tick that is not zero.
LEMMA QueuedTicks ==
  ASSUME NoWrap, IInv, NEW t \in Timers, ObjectInQueue(lpTimerQueue, t)
  PROVE  /\ timerTick[t] \in Nat /\ timerTick[t] > 0
         /\ dwClockTickCounter <= timerTick[t]
         /\ interrupt = "sleepers" => dwClockTickCounter < timerTick[t]
         /\ Pending(t) \/ (flags[t] = "fired" /\ timerTick[t] = MaxTick)
<1>1. flags[t] \in {"once", "kept", "always"} \/ flags[t] = "fired"
  BY DEF IInv, ClockTypes, TimersAreQueued
<1>2. timerTick[t] \in 0..MaxTick /\ dwClockTickCounter \in 0..LastTick
  BY DEF IInv, ClockTypes, TimersAreQueued, TickQueue, Tick
<1>3. LastTick < MaxTick
  BY DEF NoWrap
<1>4. Pending(t) => /\ timerTick[t] > 0 /\ dwClockTickCounter <= timerTick[t]
                    /\ interrupt = "sleepers" => dwClockTickCounter < timerTick[t]
  BY DEF IInv, TimersAreAhead
<1>5. flags[t] = "fired" => /\ timerTick[t] = MaxTick
                            /\ timerTick[t] > 0 /\ dwClockTickCounter < timerTick[t]
  BY <1>2, <1>3, ClockAssumption DEF IInv, TimersAreAhead
<1>6. Pending(t) \/ flags[t] = "fired"
  BY <1>1 DEF Pending
<1>7. /\ timerTick[t] > 0 /\ dwClockTickCounter <= timerTick[t]
      /\ interrupt = "sleepers" => dwClockTickCounter < timerTick[t]
  <2>1. CASE Pending(t)
    BY <1>4, <2>1
  <2>2. CASE flags[t] = "fired"
    BY <1>2, <1>5, <2>2, ClockAssumption
  <2> QED BY <1>6, <2>1, <2>2
<1>8. timerTick[t] \in Nat
  BY <1>2, ClockAssumption
<1> QED BY <1>5, <1>6, <1>7, <1>8

\* The timers do not touch what the sleepers rest on.
LEMMA SleepersUnchanged ==
  ASSUME IInv, UNCHANGED <<dwClockTickCounter, sleepVars>>
  PROVE  SleepersAreQueued' /\ SleepersAreAhead' /\ SleeperNote'
BY DEF IInv, sleepVars, SleepersAreQueued, SleepersAreAhead, SleeperNote, TickQueue,
       TickOfHeader, Sorted, ByTick

LEMMA SetTimerPreserves ==
  ASSUME NoWrap, IInv, NEW t \in Timers, NEW flag \in {"once", "kept", "always"},
         NEW span \in Spans, SetTimer(t, flag, span)
  PROVE  IInv'
<1> PICK tick : tick = TickAfter(span)
  OBVIOUS
<1>1. tick = dwClockTickCounter + span /\ span \in Nat /\ span > 0 /\ tick \in Tick
  BY TickAfterFact DEF IInv
<1>2. /\ interrupt # "timers" /\ flags[t] = "none"
      /\ flags' = [flags EXCEPT ![t] = flag]
      /\ dwTimeSpan' = [dwTimeSpan EXCEPT ![t] = span]
      /\ timerTick' = [timerTick EXCEPT ![t] = tick]
      /\ lpTimerQueue' = InsertByTick(lpTimerQueue, t, timerTick')
      /\ dwNextTimerTick' = IF Earlier(dwNextTimerTick, tick) THEN tick ELSE dwNextTimerTick
      /\ UNCHANGED <<dwClockTickCounter, interrupt, sleepVars>>
  BY DEF SetTimer, SystemUnlocked
<1>3. /\ ClockTypes /\ TickIsCounted /\ TickQueue(lpTimerQueue, Timers, timerTick)
      /\ ~ObjectInQueue(lpTimerQueue, t) /\ timerTick \in [Timers -> Tick]
      /\ \A u \in Timers : ObjectInQueue(lpTimerQueue, u) <=> flags[u] # "none"
      /\ dwNextTimerTick = TickOfHeader(lpTimerQueue, timerTick)
  BY <1>2 DEF IInv, TimersAreQueued, TimerNote, TickQueue
<1>4. PICK new, r : /\ new = timerTick' /\ r = lpTimerQueue'
                    /\ new \in [Timers -> Tick] /\ new[t] = tick
                    /\ \A u \in Timers \ {t} : new[u] = timerTick[u]
                    /\ r = InsertByTick(lpTimerQueue, t, new)
  <2>1. /\ timerTick' \in [Timers -> Tick] /\ timerTick'[t] = tick
        /\ \A u \in Timers \ {t} : timerTick'[u] = timerTick[u]
    BY <1>1, <1>2, <1>3
  <2>2. lpTimerQueue' = InsertByTick(lpTimerQueue, t, timerTick')
    BY <1>2
  <2> QED BY <2>1, <2>2
<1>5. /\ TickQueue(r, Timers, new) /\ r # <<>>
      /\ \A y : ObjectInQueue(r, y) <=> ObjectInQueue(lpTimerQueue, y) \/ y = t
      /\ TickOfHeader(r, new) =
           IF lpTimerQueue = <<>> \/ TickOfHeader(lpTimerQueue, timerTick) > new[t] THEN new[t]
           ELSE TickOfHeader(lpTimerQueue, timerTick)
  BY <1>3, <1>4, TickQueued
<1>7. TimersAreQueued'
  BY <1>2, <1>3, <1>4, <1>5 DEF TimersAreQueued, ClockTypes
<1>8. TimersAreAhead'
  BY <1>1, <1>2, <1>3, <1>4, <1>5, ClockAssumption DEF IInv, TimersAreAhead, Pending, ClockTypes
<1>9. TimerNote'
  <2>1. dwNextTimerTick = 0 <=> lpTimerQueue = <<>>
    <3>1. CASE lpTimerQueue = <<>>
      BY <1>3, <3>1 DEF TickOfHeader
    <3>2. CASE lpTimerQueue # <<>>
      BY <1>3, <3>2, HeaderIsNext, QueuedTicks
    <3> QED BY <3>1, <3>2
  <2> QED BY <1>2, <1>3, <1>4, <1>5, <2>1 DEF TimerNote, Earlier
<1>10. ClockTypes' /\ TickIsCounted'
  BY <1>1, <1>2, <1>3 DEF ClockTypes, TickIsCounted, sleepVars
<1> QED BY <1>2, <1>7, <1>8, <1>9, <1>10, SleepersUnchanged DEF IInv

LEMMA CancelTimerPreserves ==
  ASSUME NoWrap, IInv, NEW t \in Timers, CancelTimer(t)
  PROVE  IInv'
<1> PICK rest : rest = DeleteFromQueue(lpTimerQueue, t)
  OBVIOUS
<1>1. /\ interrupt # "timers"
      /\ lpTimerQueue' = PutBack(rest, timerTick)
      /\ dwNextTimerTick' = NextTickAfterCancel(rest)
      /\ flags' = [flags EXCEPT ![t] = "none"]
      /\ dwTimeSpan' = [dwTimeSpan EXCEPT ![t] = 0]
      /\ timerTick' = [timerTick EXCEPT ![t] = 0]
      /\ UNCHANGED <<dwClockTickCounter, interrupt, sleepVars>>
  BY DEF CancelTimer, SystemUnlocked, Destroy
<1>2. /\ ClockTypes /\ TickIsCounted /\ TickQueue(lpTimerQueue, Timers, timerTick)
      /\ timerTick \in [Timers -> Tick]
      /\ \A u \in Timers : ObjectInQueue(lpTimerQueue, u) <=> flags[u] # "none"
      /\ dwNextTimerTick = TickOfHeader(lpTimerQueue, timerTick)
  BY <1>1 DEF IInv, TimersAreQueued, TimerNote, TickQueue
<1>3. /\ TickQueue(rest, Timers, timerTick)
      /\ \A y : ObjectInQueue(rest, y) <=> ObjectInQueue(lpTimerQueue, y) /\ y # t
  BY <1>2, TickDeleted
<1>4. /\ TickQueue(lpTimerQueue', Timers, timerTick)
      /\ \A y : ObjectInQueue(lpTimerQueue', y) <=> ObjectInQueue(rest, y)
      /\ TickOfHeader(lpTimerQueue', timerTick) = TickOfHeader(rest, timerTick)
  BY <1>1, <1>3, PutBackKeeps
<1>5. /\ timerTick' \in [Timers -> Tick]
      /\ \A u \in Timers \ {t} : timerTick'[u] = timerTick[u]
  BY <1>1, <1>2, ClockAssumption DEF Tick
<1>6. /\ TickQueue(lpTimerQueue', Timers, timerTick')
      /\ TickOfHeader(lpTimerQueue', timerTick') = TickOfHeader(rest, timerTick)
  <2>1. \A u \in Timers : ObjectInQueue(lpTimerQueue', u) => timerTick'[u] = timerTick[u]
    BY <1>3, <1>4, <1>5
  <2> QED BY <1>4, <1>5, <2>1, OtherTicks
<1>7. TimersAreQueued'
  BY <1>1, <1>2, <1>3, <1>4, <1>6 DEF TimersAreQueued, ClockTypes
<1>8. TimersAreAhead'
  BY <1>1, <1>2, <1>5 DEF IInv, TimersAreAhead, Pending, ClockTypes
\* The note is raised to the tick of the new header, which is not before the old one.
<1>9. dwNextTimerTick' = TickOfHeader(rest, timerTick) /\ dwNextTimerTick' \in Tick
  <2>1. CASE rest = <<>>
    BY <1>1, <2>1, ClockAssumption DEF NextTickAfterCancel, TickOfHeader, Tick
  <2>2. CASE rest # <<>>
    <3>1. /\ HeaderElement(rest) \in Timers /\ ObjectInQueue(lpTimerQueue, HeaderElement(rest))
          /\ TickOfHeader(rest, timerTick) = timerTick[HeaderElement(rest)]
      BY <1>3, <2>2, HeaderIsNext
    <3>2. lpTimerQueue # <<>>
      BY <1>2, <3>1, EmptyQueue DEF TickQueue
    <3>3. dwNextTimerTick <= TickOfHeader(rest, timerTick)
      BY <1>2, <3>1, <3>2, HeaderIsNext
    <3> QED BY <1>1, <1>2, <3>1, <3>3, ClockAssumption DEF NextTickAfterCancel, ClockTypes, Tick
  <2> QED BY <2>1, <2>2
<1>10. TimerNote'
  BY <1>1, <1>6, <1>9 DEF TimerNote
<1>11. ClockTypes' /\ TickIsCounted'
  BY <1>1, <1>2, <1>9 DEF ClockTypes, TickIsCounted, sleepVars
<1> QED BY <1>1, <1>7, <1>8, <1>10, <1>11, SleepersUnchanged DEF IInv

\* The interrupt passes over the timers only if none is due.
LEMMA TimerInterruptPreserves ==
  ASSUME NoWrap, IInv, TimerInterrupt
  PROVE  IInv'
<1>1. /\ interrupt = "none" /\ dwClockTickCounter # LastTick
      /\ interrupt' \in {"timers", "sleepers"}
      /\ interrupt' = "timers" => dwNextTimerTick = dwClockTickCounter
      /\ interrupt' = "sleepers" => dwClockTickCounter # dwNextTimerTick \/ lpTimerQueue = <<>>
      /\ UNCHANGED <<dwClockTickCounter, sleepVars>>
      /\ UNCHANGED <<dwNextTimerTick, lpTimerQueue, flags, dwTimeSpan, timerTick>>
  BY DEF TimerInterrupt, timerVars
<1>2. /\ ClockTypes /\ TimersAreQueued /\ TickQueue(lpTimerQueue, Timers, timerTick)
      /\ dwNextTimerTick = TickOfHeader(lpTimerQueue, timerTick)
  BY <1>1 DEF IInv, TimersAreQueued, TimerNote
<1>3. ClockTypes' /\ TickIsCounted'
  BY <1>1, <1>2, ClockAssumption DEF ClockTypes, TickIsCounted, sleepVars
<1>4. TimersAreQueued'
  BY <1>1, <1>2 DEF TimersAreQueued, TickQueue, Sorted, ByTick
<1>5. ASSUME interrupt' = "sleepers", NEW t \in Timers, Pending(t)
      PROVE  dwClockTickCounter < timerTick[t]
  <2>1. ObjectInQueue(lpTimerQueue, t)
    BY <1>2, <1>5 DEF TimersAreQueued, Pending
  <2>2. lpTimerQueue # <<>>
    BY <1>2, <2>1, EmptyQueue DEF TickQueue
  <2>3. /\ HeaderElement(lpTimerQueue) \in Timers
        /\ ObjectInQueue(lpTimerQueue, HeaderElement(lpTimerQueue))
        /\ dwNextTimerTick = timerTick[HeaderElement(lpTimerQueue)]
        /\ dwNextTimerTick <= timerTick[t]
    BY <1>2, <2>1, <2>2, HeaderIsNext
  <2>4. dwClockTickCounter <= dwNextTimerTick
    BY <2>3, QueuedTicks
  <2>5. timerTick[t] \in Nat
    BY <2>1, QueuedTicks
  <2> QED BY <1>1, <1>2, <1>5, <2>2, <2>3, <2>4, <2>5, ClockAssumption DEF ClockTypes, Tick
<1>6. TimersAreAhead'
  BY <1>1, <1>5 DEF IInv, TimersAreAhead, Pending
<1>7. TimerNote'
  BY <1>1, <1>2 DEF TimerNote, TickOfHeader
<1> QED BY <1>1, <1>3, <1>4, <1>6, <1>7, SleepersUnchanged DEF IInv

\* What is left of the queue when its header is being served.
LEMMA HeaderServed ==
  ASSUME NoWrap, IInv, NEW t \in Timers, Expired(t), NEW w, w = WithoutHeader(lpTimerQueue)
  PROVE  /\ interrupt = "timers" /\ dwNextTimerTick = dwClockTickCounter
         /\ flags[t] # "none" /\ timerTick[t] <= dwClockTickCounter
         /\ TickQueue(w, Timers, timerTick) /\ timerTick \in [Timers -> Tick]
         /\ \A u \in Timers : ObjectInQueue(w, u) <=> flags[u] # "none" /\ u # t
         /\ ~ObjectInQueue(w, t)
<1>1. /\ interrupt = "timers" /\ lpTimerQueue # <<>> /\ t = HeaderElement(lpTimerQueue)
      /\ timerTick[t] <= dwNextTimerTick
  BY DEF Expired
<1>2. /\ dwNextTimerTick = dwClockTickCounter
      /\ TickQueue(lpTimerQueue, Timers, timerTick) /\ timerTick \in [Timers -> Tick]
      /\ \A u \in Timers : ObjectInQueue(lpTimerQueue, u) <=> flags[u] # "none"
  BY <1>1 DEF IInv, TimerNote, TimersAreQueued, TickQueue
<1>3. ObjectInQueue(lpTimerQueue, t)
  BY <1>1, <1>2, HeaderIsNext
<1>4. /\ TickQueue(w, Timers, timerTick)
      /\ \A y : ObjectInQueue(w, y) <=> ObjectInQueue(lpTimerQueue, y) /\ y # t
  BY <1>1, <1>2, TickHeaderTaken
<1> QED BY <1>1, <1>2, <1>3, <1>4

LEMMA FireOncePreserves ==
  ASSUME NoWrap, IInv, NEW t \in Timers, FireOnce(t)
  PROVE  IInv'
<1> PICK w : w = WithoutHeader(lpTimerQueue)
  OBVIOUS
<1>1. /\ Expired(t) /\ flags[t] = "once"
      /\ lpTimerQueue' = w
      /\ flags' = [flags EXCEPT ![t] = "none"]
      /\ dwTimeSpan' = [dwTimeSpan EXCEPT ![t] = 0]
      /\ timerTick' = [timerTick EXCEPT ![t] = 0]
      /\ UNCHANGED <<dwClockTickCounter, interrupt, dwNextTimerTick, sleepVars>>
  BY DEF FireOnce, Destroy
<1>2. /\ interrupt = "timers" /\ dwNextTimerTick = dwClockTickCounter
      /\ TickQueue(w, Timers, timerTick) /\ timerTick \in [Timers -> Tick]
      /\ \A u \in Timers : ObjectInQueue(w, u) <=> flags[u] # "none" /\ u # t
  BY <1>1, HeaderServed
<1>3. ClockTypes /\ TickIsCounted
  BY DEF IInv
<1>4. PICK new : /\ new = timerTick' /\ new \in [Timers -> Tick]
                 /\ \A u \in Timers : ObjectInQueue(w, u) => new[u] = timerTick[u]
  <2>1. /\ timerTick' \in [Timers -> Tick]
        /\ \A u \in Timers : ObjectInQueue(w, u) => timerTick'[u] = timerTick[u]
    BY <1>1, <1>2, ClockAssumption DEF Tick
  <2> QED BY <2>1
<1>5. TickQueue(w, Timers, new)
  BY <1>2, <1>4, OtherTicks
<1>6. TimersAreQueued'
  BY <1>1, <1>2, <1>3, <1>4, <1>5 DEF TimersAreQueued, ClockTypes
<1>7. TimersAreAhead'
  BY <1>1, <1>2, <1>3 DEF IInv, TimersAreAhead, Pending, ClockTypes
<1>8. ClockTypes' /\ TickIsCounted' /\ TimerNote'
  BY <1>1, <1>2, <1>3 DEF ClockTypes, TickIsCounted, TimerNote, sleepVars
<1> QED BY <1>1, <1>6, <1>7, <1>8, SleepersUnchanged DEF IInv

\* A timer that is served and goes back into the queue.
LEMMA RequeuePreserves ==
  ASSUME NoWrap, IInv, NEW t \in Timers, Expired(t),
         NEW tick \in Tick, Requeue(t, tick), NEW flag \in {"once", "kept", "always", "fired"},
         flags' = [flags EXCEPT ![t] = flag],
         IF flag = "fired" THEN tick = MaxTick
         ELSE dwTimeSpan[t] \in Spans /\ tick = dwClockTickCounter + dwTimeSpan[t],
         UNCHANGED <<dwClockTickCounter, interrupt, dwNextTimerTick, dwTimeSpan, sleepVars>>
  PROVE  IInv'
<1> PICK w : w = WithoutHeader(lpTimerQueue)
  OBVIOUS
<1>1. /\ timerTick' = [timerTick EXCEPT ![t] = tick]
      /\ lpTimerQueue' = InsertByTick(w, t, timerTick')
  BY DEF Requeue
<1>2. /\ interrupt = "timers" /\ dwNextTimerTick = dwClockTickCounter
      /\ TickQueue(w, Timers, timerTick) /\ timerTick \in [Timers -> Tick]
      /\ \A u \in Timers : ObjectInQueue(w, u) <=> flags[u] # "none" /\ u # t
      /\ ~ObjectInQueue(w, t)
  BY HeaderServed
<1>3. ClockTypes /\ TickIsCounted
  BY DEF IInv
<1>4. PICK new, r : /\ new = timerTick' /\ r = lpTimerQueue'
                    /\ new \in [Timers -> Tick] /\ new[t] = tick
                    /\ \A u \in Timers \ {t} : new[u] = timerTick[u]
                    /\ r = InsertByTick(w, t, new)
  <2>1. /\ timerTick' \in [Timers -> Tick] /\ timerTick'[t] = tick
        /\ \A u \in Timers \ {t} : timerTick'[u] = timerTick[u]
    BY <1>1, <1>2
  <2> QED BY <1>1, <2>1
<1>5. /\ TickQueue(r, Timers, new)
      /\ \A y : ObjectInQueue(r, y) <=> ObjectInQueue(w, y) \/ y = t
  BY <1>2, <1>4, TickQueued
<1>6. TimersAreQueued'
  BY <1>2, <1>3, <1>4, <1>5 DEF TimersAreQueued, ClockTypes
<1>7. TimersAreAhead'
  <2>1. ASSUME NEW u \in Timers, u # t
        PROVE  flags'[u] = flags[u] /\ timerTick'[u] = timerTick[u]
    BY <1>3, <1>4, <2>1 DEF ClockTypes
  <2>2. flags'[t] = flag /\ timerTick'[t] = tick
    BY <1>3, <1>4 DEF ClockTypes
  <2>3. \A span \in Spans : span \in Nat /\ span > 0
    BY ClockAssumption
  <2>4. flag # "fired" => /\ dwTimeSpan[t] \in Spans /\ tick > 0
                          /\ dwClockTickCounter <= tick
                          /\ tick <= dwClockTickCounter + dwTimeSpan[t]
    <3>1. dwClockTickCounter \in Nat
      BY <1>3, ClockAssumption DEF ClockTypes
    <3>2. ASSUME flag # "fired"
          PROVE  dwTimeSpan[t] \in Spans /\ tick = dwClockTickCounter + dwTimeSpan[t]
      BY <3>2
    <3> QED BY <2>3, <3>1, <3>2
  <2> QED BY <1>2, <2>1, <2>2, <2>4 DEF IInv, TimersAreAhead, Pending
<1>8. ClockTypes' /\ TickIsCounted' /\ TimerNote'
  BY <1>2, <1>3 DEF ClockTypes, TickIsCounted, TimerNote, sleepVars
<1> QED BY <1>6, <1>7, <1>8, SleepersUnchanged DEF IInv

LEMMA FireKeptPreserves ==
  ASSUME NoWrap, IInv, NEW t \in Timers, FireKept(t)
  PROVE  IInv'
<1>1. /\ Expired(t) /\ Requeue(t, MaxTick)
      /\ flags' = [flags EXCEPT ![t] = "fired"]
      /\ UNCHANGED <<dwClockTickCounter, interrupt, dwNextTimerTick, dwTimeSpan, sleepVars>>
  BY DEF FireKept
<1>2. MaxTick \in Tick
  BY ClockAssumption DEF Tick
<1> QED BY <1>1, <1>2, RequeuePreserves

\* The next time is counted from the clock, not from the tick that is served.
LEMMA FirePeriodicPreserves ==
  ASSUME NoWrap, IInv, NEW t \in Timers, FirePeriodic(t)
  PROVE  IInv'
<1>1. /\ Expired(t) /\ flags[t] = "always" /\ Requeue(t, NextPeriod(t))
      /\ UNCHANGED <<dwClockTickCounter, interrupt, dwNextTimerTick, flags, dwTimeSpan, sleepVars>>
  BY DEF FirePeriodic
<1>2. flags' = [flags EXCEPT ![t] = "always"]
  BY <1>1 DEF IInv, ClockTypes
<1>3. dwTimeSpan[t] \in Spans
  BY <1>1 DEF IInv, TimersAreAhead, Pending
<1>4. NextPeriod(t) = dwClockTickCounter + dwTimeSpan[t] /\ NextPeriod(t) \in Tick
  BY <1>3, TickAfterFact DEF NextPeriod, IInv
<1> QED BY <1>1, <1>2, <1>3, <1>4, RequeuePreserves

\* When the header is not due, nothing behind it is.
LEMMA EndOfTimersPreserves ==
  ASSUME NoWrap, IInv, EndOfTimers
  PROVE  IInv'
<1>1. /\ interrupt = "timers" /\ interrupt' = "sleepers"
      /\ \A t \in Timers : ~Expired(t)
      /\ dwNextTimerTick' = TickOfHeader(lpTimerQueue, timerTick)
      /\ lpTimerQueue' = PutBack(lpTimerQueue, timerTick)
      /\ UNCHANGED <<dwClockTickCounter, flags, dwTimeSpan, timerTick, sleepVars>>
  BY DEF EndOfTimers
<1>2. /\ ClockTypes /\ TickIsCounted /\ TickQueue(lpTimerQueue, Timers, timerTick)
      /\ \A u \in Timers : ObjectInQueue(lpTimerQueue, u) <=> flags[u] # "none"
      /\ dwNextTimerTick = dwClockTickCounter
  BY <1>1 DEF IInv, TimersAreQueued, TimerNote
<1>3. PICK r : r = lpTimerQueue'
  OBVIOUS
<1>4. /\ TickQueue(r, Timers, timerTick)
      /\ \A y : ObjectInQueue(r, y) <=> ObjectInQueue(lpTimerQueue, y)
      /\ TickOfHeader(r, timerTick) = TickOfHeader(lpTimerQueue, timerTick)
  BY <1>1, <1>2, <1>3, PutBackKeeps
<1>5. TimersAreQueued'
  BY <1>1, <1>2, <1>3, <1>4 DEF TimersAreQueued
<1>6. ASSUME NEW t \in Timers, Pending(t)
      PROVE  dwClockTickCounter < timerTick[t]
  <2>1. ObjectInQueue(lpTimerQueue, t)
    BY <1>2, <1>6 DEF Pending
  <2>2. lpTimerQueue # <<>>
    BY <1>2, <2>1, EmptyQueue DEF TickQueue
  <2> PICK h : h = HeaderElement(lpTimerQueue)
    OBVIOUS
  <2>3. h \in Timers /\ ObjectInQueue(lpTimerQueue, h) /\ timerTick[h] <= timerTick[t]
    BY <1>2, <2>1, <2>2, HeaderIsNext
  <2>4. ~(timerTick[h] <= dwClockTickCounter)
    BY <1>1, <1>2, <2>2, <2>3 DEF Expired
  <2>5. timerTick[t] \in Nat /\ timerTick[h] \in Nat /\ dwClockTickCounter \in Nat
    BY <1>2, <2>1, <2>3, QueuedTicks, ClockAssumption DEF ClockTypes
  <2> QED BY <2>3, <2>4, <2>5
<1>7. TimersAreAhead'
  BY <1>1, <1>6 DEF IInv, TimersAreAhead, Pending
<1>8. TimerNote'
  BY <1>1, <1>3, <1>4 DEF TimerNote
<1>9. TickOfHeader(lpTimerQueue, timerTick) \in Tick
  <2>1. CASE lpTimerQueue = <<>>
    BY <2>1, ClockAssumption DEF TickOfHeader, Tick
  <2>2. CASE lpTimerQueue # <<>>
    BY <1>2, <2>2, HeaderIsNext DEF TickQueue
  <2> QED BY <2>1, <2>2
<1>10. ClockTypes' /\ TickIsCounted'
  BY <1>1, <1>2, <1>9 DEF ClockTypes, TickIsCounted, sleepVars
<1> QED BY <1>1, <1>5, <1>7, <1>8, <1>10, SleepersUnchanged DEF IInv

-----------------------------------------------------------------------------
(* The sleepers.                                                            *)

\* Whoever sleeps until a tick sleeps until one that is not zero.
LEMMA SleepingTicks ==
  ASSUME IInv, NEW s \in Sleepers, ObjectInQueue(lpSleepingQueue, s)
  PROVE  /\ wakeupTick[s] \in Nat /\ wakeupTick[s] > 0 /\ wakeupTick[s] \in Tick
         /\ dwClockTickCounter \in Nat /\ dwClockTickCounter <= wakeupTick[s]
         /\ \E span \in Spans : wakeupTick[s] <= dwClockTickCounter + span
<1>1. wakeupTick[s] \in 0..MaxTick /\ wakeupTick[s] \in Tick /\ dwClockTickCounter \in 0..LastTick
  BY DEF IInv, ClockTypes, SleepersAreQueued, TickQueue, Tick
<1>2. wakeupTick[s] \in Nat /\ dwClockTickCounter \in Nat
  BY <1>1, ClockAssumption
<1>3. /\ wakeupTick[s] > 0 /\ dwClockTickCounter <= wakeupTick[s]
      /\ \E span \in Spans : wakeupTick[s] <= dwClockTickCounter + span
  BY DEF IInv, SleepersAreAhead
<1> QED BY <1>1, <1>2, <1>3

\* A sleeper joins the queue.
LEMMA SleepFact ==
  ASSUME NoWrap, IInv, NEW s \in Sleepers, NEW span \in Spans, Sleep(s, span),
         NEW tick, tick = dwClockTickCounter + span
  PROVE  /\ dwNextWakeupTick' = IF Earlier(dwNextWakeupTick, tick) THEN tick ELSE dwNextWakeupTick
         /\ \E new, r :
              /\ new = wakeupTick' /\ r = lpSleepingQueue'
              /\ TickQueue(r, Sleepers, new) /\ new[s] = tick
              /\ \A u \in Sleepers : ObjectInQueue(lpSleepingQueue, u) => new[u] = wakeupTick[u]
              /\ \A y : ObjectInQueue(r, y) <=> ObjectInQueue(lpSleepingQueue, y) \/ y = s
              /\ TickOfHeader(r, new) =
                   IF lpSleepingQueue = <<>> \/ dwNextWakeupTick > tick
                   THEN tick ELSE dwNextWakeupTick
<1>1. tick = TickAfter(span) /\ tick \in Tick
  BY TickAfterFact DEF IInv
<1>2. /\ ~ObjectInQueue(lpSleepingQueue, s)
      /\ wakeupTick' = [wakeupTick EXCEPT ![s] = tick]
      /\ lpSleepingQueue' = InsertByTick(lpSleepingQueue, s, wakeupTick')
      /\ dwNextWakeupTick' = IF Earlier(dwNextWakeupTick, tick) THEN tick ELSE dwNextWakeupTick
  BY <1>1 DEF Sleep
<1>3. /\ TickQueue(lpSleepingQueue, Sleepers, wakeupTick)
      /\ wakeupTick \in [Sleepers -> Tick] /\ ~ObjectInQueue(lpSleepingQueue, s)
      /\ dwNextWakeupTick = TickOfHeader(lpSleepingQueue, wakeupTick)
  BY <1>2 DEF IInv, SleepersAreQueued, SleeperNote, TickQueue
<1>4. PICK new, r : /\ new = wakeupTick' /\ r = lpSleepingQueue'
                    /\ new \in [Sleepers -> Tick] /\ new[s] = tick
                    /\ \A u \in Sleepers \ {s} : new[u] = wakeupTick[u]
                    /\ r = InsertByTick(lpSleepingQueue, s, new)
  <2>1. /\ wakeupTick' \in [Sleepers -> Tick] /\ wakeupTick'[s] = tick
        /\ \A u \in Sleepers \ {s} : wakeupTick'[u] = wakeupTick[u]
    BY <1>1, <1>2, <1>3
  <2> QED BY <1>2, <2>1
<1>5. /\ TickQueue(r, Sleepers, new)
      /\ \A y : ObjectInQueue(r, y) <=> ObjectInQueue(lpSleepingQueue, y) \/ y = s
      /\ TickOfHeader(r, new) =
           IF lpSleepingQueue = <<>> \/ TickOfHeader(lpSleepingQueue, wakeupTick) > new[s]
           THEN new[s] ELSE TickOfHeader(lpSleepingQueue, wakeupTick)
  BY <1>3, <1>4, TickQueued
<1>6. \A u \in Sleepers : ObjectInQueue(lpSleepingQueue, u) => new[u] = wakeupTick[u]
  BY <1>3, <1>4
<1>7. TickOfHeader(r, new) =
        IF lpSleepingQueue = <<>> \/ dwNextWakeupTick > tick THEN tick ELSE dwNextWakeupTick
  BY <1>3, <1>4, <1>5
<1> QED BY <1>2, <1>4, <1>5, <1>6, <1>7

LEMMA SleepPreserves ==
  ASSUME NoWrap, IInv, NEW s \in Sleepers, NEW span \in Spans, Sleep(s, span)
  PROVE  IInv'
<1> PICK tick : tick = dwClockTickCounter + span
  OBVIOUS
<1>1. tick = dwClockTickCounter + span /\ span \in Nat /\ span > 0 /\ tick \in Tick
  BY TickAfterFact DEF IInv
<1>2. /\ UNCHANGED <<dwClockTickCounter, interrupt>>
      /\ UNCHANGED <<dwNextTimerTick, lpTimerQueue, flags, dwTimeSpan, timerTick>>
  BY DEF Sleep, timerVars
<1>3. /\ ClockTypes /\ TickIsCounted /\ TickQueue(lpSleepingQueue, Sleepers, wakeupTick)
      /\ dwNextWakeupTick = TickOfHeader(lpSleepingQueue, wakeupTick)
  BY DEF IInv, SleepersAreQueued, SleeperNote
<1>4. dwNextWakeupTick' = IF Earlier(dwNextWakeupTick, tick) THEN tick ELSE dwNextWakeupTick
  BY SleepFact
<1>5. PICK new, r :
        /\ new = wakeupTick' /\ r = lpSleepingQueue'
        /\ TickQueue(r, Sleepers, new) /\ new[s] = tick
        /\ \A u \in Sleepers : ObjectInQueue(lpSleepingQueue, u) => new[u] = wakeupTick[u]
        /\ \A y : ObjectInQueue(r, y) <=> ObjectInQueue(lpSleepingQueue, y) \/ y = s
        /\ TickOfHeader(r, new) =
             IF lpSleepingQueue = <<>> \/ dwNextWakeupTick > tick THEN tick ELSE dwNextWakeupTick
  BY SleepFact
<1>6. SleepersAreQueued'
  BY <1>5 DEF SleepersAreQueued
<1>7. SleepersAreAhead'
  <2>2. dwClockTickCounter \in Nat
    BY <1>3, ClockAssumption DEF ClockTypes
  <2>3. tick > 0 /\ dwClockTickCounter <= tick /\ tick <= dwClockTickCounter + span
    BY <1>1, <2>2
  <2> QED BY <1>2, <1>5, <2>3 DEF IInv, SleepersAreAhead
<1>8. SleeperNote'
  <2>1. dwNextWakeupTick = 0 <=> lpSleepingQueue = <<>>
    <3>1. CASE lpSleepingQueue = <<>>
      BY <1>3, <3>1 DEF TickOfHeader
    <3>2. CASE lpSleepingQueue # <<>>
      BY <1>3, <3>2, HeaderIsNext, SleepingTicks
    <3> QED BY <3>1, <3>2
  <2> QED BY <1>4, <1>5, <2>1 DEF SleeperNote, Earlier
<1>9. ClockTypes' /\ TickIsCounted'
  BY <1>1, <1>2, <1>3, <1>4 DEF ClockTypes, TickIsCounted
<1>10. TimersAreQueued' /\ TimersAreAhead' /\ TimerNote'
  BY <1>2 DEF IInv, TimersAreQueued, TimersAreAhead, TimerNote, TickQueue, TickOfHeader,
              Sorted, ByTick, Pending
<1> QED BY <1>6, <1>7, <1>8, <1>9, <1>10 DEF IInv

\* The number of sleepers that are due is well defined.
LEMMA NumberDueFact ==
  ASSUME SleepersAreQueued
  PROVE  /\ NumberDue \in 0..Len(lpSleepingQueue)
         /\ \A i \in 1..NumberDue : lpSleepingQueue[i] \in DueSleepers
         /\ NumberDue < Len(lpSleepingQueue) => lpSleepingQueue[NumberDue + 1] \notin DueSleepers
<1> PICK q, due : q = lpSleepingQueue /\ due = DueSleepers
  OBVIOUS
<1>1. Len(q) \in Nat
  BY DEF SleepersAreQueued, TickQueue
<1> DEFINE J == {i \in 1..Len(q) : q[i] \notin due}
<1>2. \E n \in 0..Len(q) : /\ \A i \in 1..n : q[i] \in due
                           /\ n < Len(q) => q[n + 1] \notin due
  <2>1. CASE J = {}
    BY <1>1, <2>1
  <2>2. CASE J # {}
    <3>1. PICK m \in J : \A n \in J : m <= n
      <4>1. J \subseteq Nat
        BY <1>1
      <4> HIDE DEF J
      <4> QED BY <2>2, <4>1, LeastNatural
    <3>2. m \in 1..Len(q) /\ q[m] \notin due /\ m - 1 \in 0..Len(q)
      BY <1>1, <3>1
    <3>3. \A i \in 1..(m - 1) : q[i] \in due
      BY <1>1, <3>1, <3>2
    <3>4. PICK n \in 0..Len(q) : n = m - 1
      BY <3>2
    <3>5. n + 1 = m
      BY <1>1, <3>2, <3>4
    <3> QED BY <3>2, <3>3, <3>4, <3>5
  <2> QED BY <2>1, <2>2
<1>3. \E n \in 0..Len(lpSleepingQueue) :
        /\ \A i \in 1..n : lpSleepingQueue[i] \in DueSleepers
        /\ n < Len(lpSleepingQueue) => lpSleepingQueue[n + 1] \notin DueSleepers
  BY <1>2
<1> QED BY <1>3, Zenon DEF NumberDue

\* The rest of a queue sorted by ticks.
LEMMA SuffixKeeps ==
  ASSUME NEW S, NEW ticks, NEW q, TickQueue(q, S, ticks), NEW n \in 0..Len(q),
         NEW r \in Seq(S), Len(r) = Len(q) - n,
         \A i \in 1..Len(r) : r[i] = q[n + i] /\ n + i \in 1..Len(q)
  PROVE  /\ TickQueue(r, S, ticks)
         /\ \A y : ObjectInQueue(r, y) => ObjectInQueue(q, y)
         /\ \A y : ObjectInQueue(q, y) => ObjectInQueue(r, y) \/ \E i \in 1..n : q[i] = y
         /\ r # <<>> => n < Len(q) /\ HeaderElement(r) = q[n + 1]
<1>1. q \in Seq(S) /\ IsInjective(q) /\ ticks \in [S -> Tick] /\ Sorted(q, ByTick(ticks))
  BY DEF TickQueue
<1>2. /\ r \in Seq(S) /\ Len(r) = Len(q) - n
      /\ \A i \in 1..Len(r) : r[i] = q[n + i] /\ n + i \in 1..Len(q)
  OBVIOUS
<1>3. n \in Nat /\ Len(q) \in Nat /\ n <= Len(q) /\ DOMAIN r = 1..Len(r) /\ DOMAIN q = 1..Len(q)
  BY <1>1, <1>2
<1>4. IsInjective(r)
  <2>1. \A i, j \in 1..Len(q) : q[i] = q[j] => i = j
    BY <1>1, <1>3 DEF IsInjective
  <2>2. \A i, j \in 1..Len(r) : r[i] = r[j] => i = j
    BY <1>2, <1>3, <2>1
  <2> QED BY <1>3, <2>2 DEF IsInjective
<1>5. Sorted(r, ByTick(ticks))
  <2> PICK pri : pri = ByTick(ticks)
    OBVIOUS
  <2>1. \A i, j \in 1..Len(q) : i < j => pri[q[j]] <= pri[q[i]]
    BY <1>1 DEF Sorted
  <2>2. ASSUME NEW i \in 1..Len(r), NEW j \in 1..Len(r), i < j
        PROVE  pri[r[j]] <= pri[r[i]]
    <3>1. n + i \in 1..Len(q) /\ n + j \in 1..Len(q) /\ n + i < n + j
      BY <1>2, <1>3, <2>2
    <3>2. pri[q[n + j]] <= pri[q[n + i]]
      BY <2>1, <3>1
    <3> QED BY <1>2, <3>2
  <2> QED BY <2>2 DEF Sorted
<1>6. \A y : ObjectInQueue(r, y) => ObjectInQueue(q, y)
  BY <1>2, <1>3 DEF ObjectInQueue, Contains
<1>7. ASSUME NEW y, ObjectInQueue(q, y)
      PROVE  ObjectInQueue(r, y) \/ \E i \in 1..n : q[i] = y
  <2>1. PICK k \in 1..Len(q) : q[k] = y
    BY <1>3, <1>7 DEF ObjectInQueue, Contains
  <2>2. CASE k <= n
    BY <1>3, <2>1, <2>2
  <2>3. CASE k > n
    <3>1. k - n \in 1..Len(r) /\ n + (k - n) = k
      BY <1>2, <1>3, <2>3
    <3>2. r[k - n] = y
      BY <1>2, <2>1, <3>1
    <3> QED BY <1>3, <3>1, <3>2 DEF ObjectInQueue, Contains
  <2> QED BY <1>3, <2>1, <2>2, <2>3
<1>8. r # <<>> => n < Len(q) /\ HeaderElement(r) = q[n + 1]
  BY <1>2, <1>3 DEF HeaderElement
<1> QED BY <1>1, <1>2, <1>4, <1>5, <1>6, <1>7, <1>8 DEF TickQueue

\* What WakeupSleepers leaves: it takes whoever is due, and nobody else.
LEMMA WakeupFact ==
  ASSUME IInv
  PROVE  \E rest :
           /\ rest = SubSeq(lpSleepingQueue, NumberDue + 1, Len(lpSleepingQueue))
           /\ TickQueue(rest, Sleepers, wakeupTick)
           /\ \A y : ObjectInQueue(rest, y) =>
                ObjectInQueue(lpSleepingQueue, y) /\ dwClockTickCounter < wakeupTick[y]
           /\ \A y : ObjectInQueue(lpSleepingQueue, y) /\ ~ObjectInQueue(rest, y) =>
                y \in Sleepers /\ wakeupTick[y] <= dwClockTickCounter
<1>q. PICK q, n : q = lpSleepingQueue /\ n = NumberDue
  OBVIOUS
<1>r. PICK rest : rest = SubSeq(lpSleepingQueue, NumberDue + 1, Len(lpSleepingQueue))
  OBVIOUS
<1>1. TickQueue(q, Sleepers, wakeupTick)
  BY <1>q DEF IInv, SleepersAreQueued
<1>2. /\ n \in 0..Len(q)
      /\ \A i \in 1..n : q[i] \in DueSleepers
      /\ n < Len(q) => q[n + 1] \notin DueSleepers
  BY <1>q, NumberDueFact DEF IInv
<1>a. /\ rest \in Seq(Sleepers) /\ Len(rest) = Len(q) - n
      /\ \A i \in 1..Len(rest) : rest[i] = q[n + i] /\ n + i \in 1..Len(q)
  BY <1>1, <1>2, <1>q, <1>r DEF TickQueue
<1>3. /\ TickQueue(rest, Sleepers, wakeupTick)
      /\ \A y : ObjectInQueue(rest, y) => ObjectInQueue(q, y)
      /\ \A y : ObjectInQueue(q, y) => ObjectInQueue(rest, y) \/ \E i \in 1..n : q[i] = y
      /\ rest # <<>> => n < Len(q) /\ HeaderElement(rest) = q[n + 1]
  BY <1>1, <1>2, <1>a, SuffixKeeps
<1>4. q \in Seq(Sleepers) /\ rest \in Seq(Sleepers)
  BY <1>1, <1>3 DEF TickQueue
<1>5. ASSUME NEW y, ObjectInQueue(rest, y)
      PROVE  dwClockTickCounter < wakeupTick[y]
  <2> PICK h : h = HeaderElement(rest)
    OBVIOUS
  <2>1. rest # <<>> /\ y \in Sleepers
    BY <1>4, <1>5, EmptyQueue
  <2>2. h \in Sleepers /\ ObjectInQueue(rest, h) /\ wakeupTick[h] <= wakeupTick[y]
    BY <1>3, <1>5, <2>1, HeaderIsNext
  <2>3. h \in ToSet(lpSleepingQueue) /\ h \notin DueSleepers
    BY <1>2, <1>3, <1>4, <1>q, <2>1, <2>2, QueueMembers
  <2>4. ~(wakeupTick[h] <= dwClockTickCounter)
    BY <2>3 DEF DueSleepers
  <2>5. wakeupTick[h] \in Nat /\ wakeupTick[y] \in Nat /\ dwClockTickCounter \in Nat
    BY <1>3, <1>5, <1>q, <2>1, <2>2, SleepingTicks
  <2> QED BY <2>2, <2>4, <2>5
<1>6. ASSUME NEW y, ObjectInQueue(q, y), ~ObjectInQueue(rest, y)
      PROVE  y \in Sleepers /\ wakeupTick[y] <= dwClockTickCounter
  <2>1. y \in DueSleepers
    BY <1>2, <1>3, <1>6
  <2>2. y \in Sleepers
    BY <1>4, <1>6, EmptyQueue
  <2> QED BY <2>1, <2>2 DEF DueSleepers
<1> QED BY <1>q, <1>r, <1>3, <1>5, <1>6

\* The interrupt passes over the sleepers only if none is due, and otherwise takes all
\* that are.
LEMMA NobodyDueIsLeft ==
  ASSUME IInv, WakeupSleepers
  PROVE  /\ SleepersAreQueued' /\ SleeperNote' /\ dwNextWakeupTick' \in Tick
         /\ \A s \in Sleepers : ObjectInQueue(lpSleepingQueue', s) =>
              /\ ObjectInQueue(lpSleepingQueue, s) /\ dwClockTickCounter < wakeupTick[s]
              /\ wakeupTick'[s] = wakeupTick[s]
<1>1. PICK rest :
        /\ rest = SubSeq(lpSleepingQueue, NumberDue + 1, Len(lpSleepingQueue))
        /\ TickQueue(rest, Sleepers, wakeupTick)
        /\ \A y : ObjectInQueue(rest, y) =>
             ObjectInQueue(lpSleepingQueue, y) /\ dwClockTickCounter < wakeupTick[y]
  BY WakeupFact
<1>3. CASE dwClockTickCounter = dwNextWakeupTick
  <2>1. /\ lpSleepingQueue' = PutBack(rest, wakeupTick)
        /\ dwNextWakeupTick' = TickOfHeader(rest, wakeupTick)
        /\ wakeupTick' = [s \in Sleepers |-> IF s \in ToSet(rest) THEN wakeupTick[s] ELSE 0]
    BY <1>1, <1>3 DEF WakeupSleepers
  <2>2. PICK r, new : r = lpSleepingQueue' /\ new = wakeupTick'
    OBVIOUS
  <2>3. /\ TickQueue(r, Sleepers, wakeupTick)
        /\ \A y : ObjectInQueue(r, y) <=> ObjectInQueue(rest, y)
        /\ TickOfHeader(r, wakeupTick) = TickOfHeader(rest, wakeupTick)
    BY <1>1, <2>1, <2>2, PutBackKeeps
  <2>4. wakeupTick \in [Sleepers -> Tick] /\ rest \in Seq(Sleepers)
    BY <1>1 DEF TickQueue
  <2>5. \A y : y \in ToSet(rest) <=> ObjectInQueue(rest, y)
    BY <2>4, QueueMembers
  <2>6. /\ new \in [Sleepers -> Tick]
        /\ \A s \in Sleepers : ObjectInQueue(r, s) => new[s] = wakeupTick[s]
    BY <2>1, <2>2, <2>3, <2>4, <2>5, ClockAssumption DEF Tick
  <2>7. TickQueue(r, Sleepers, new) /\ TickOfHeader(r, new) = TickOfHeader(r, wakeupTick)
    BY <2>3, <2>6, OtherTicks
  <2>8. \A s \in Sleepers : ObjectInQueue(lpSleepingQueue', s) =>
          /\ ObjectInQueue(lpSleepingQueue, s) /\ dwClockTickCounter < wakeupTick[s]
          /\ wakeupTick'[s] = wakeupTick[s]
    BY <1>1, <2>2, <2>3, <2>6
  <2>9. SleepersAreQueued' /\ SleeperNote'
    BY <2>1, <2>2, <2>3, <2>7 DEF SleepersAreQueued, SleeperNote
  <2>10. dwNextWakeupTick' \in Tick
    <3>1. CASE rest = <<>>
      BY <2>1, <3>1, ClockAssumption DEF TickOfHeader, Tick
    <3>2. CASE rest # <<>>
      <4> PICK h : h = HeaderElement(rest)
        OBVIOUS
      <4>1. h \in Sleepers /\ TickOfHeader(rest, wakeupTick) = wakeupTick[h]
        BY <1>1, <3>2, HeaderIsNext
      <4> QED BY <2>1, <2>4, <4>1
    <3> QED BY <3>1, <3>2
  <2> QED BY <2>8, <2>9, <2>10
<1>4. CASE dwClockTickCounter # dwNextWakeupTick
  <2>1. UNCHANGED <<dwNextWakeupTick, lpSleepingQueue, wakeupTick>>
    BY <1>4 DEF WakeupSleepers, sleepVars
  <2>2. SleepersAreQueued' /\ SleeperNote' /\ dwNextWakeupTick' \in Tick
    BY <2>1 DEF IInv, ClockTypes, SleepersAreQueued, SleeperNote, TickQueue, TickOfHeader,
                Sorted, ByTick
  <2>3. ASSUME NEW s \in Sleepers, ObjectInQueue(lpSleepingQueue, s)
        PROVE  dwClockTickCounter < wakeupTick[s]
    <3>1. TickQueue(lpSleepingQueue, Sleepers, wakeupTick)
      BY DEF IInv, SleepersAreQueued
    <3>2. lpSleepingQueue # <<>>
      BY <2>3, <3>1, EmptyQueue DEF TickQueue
    <3> PICK h : h = HeaderElement(lpSleepingQueue)
      OBVIOUS
    <3>3. /\ h \in Sleepers /\ ObjectInQueue(lpSleepingQueue, h)
          /\ dwNextWakeupTick = wakeupTick[h] /\ wakeupTick[h] <= wakeupTick[s]
      BY <2>3, <3>1, <3>2, HeaderIsNext DEF IInv, SleeperNote
    <3>4. /\ wakeupTick[h] \in Nat /\ wakeupTick[s] \in Nat /\ dwClockTickCounter \in Nat
          /\ dwClockTickCounter <= wakeupTick[h]
      BY <2>3, <3>3, SleepingTicks
    <3> QED BY <1>4, <3>3, <3>4
  <2> QED BY <2>1, <2>2, <2>3
<1> QED BY <1>3, <1>4

LEMMA WakeupSleepersPreserves ==
  ASSUME NoWrap, IInv, WakeupSleepers
  PROVE  IInv'
<1>1. /\ interrupt = "sleepers" /\ interrupt' = "none"
      /\ dwClockTickCounter' = TickAfter(1)
      /\ UNCHANGED <<dwNextTimerTick, lpTimerQueue, flags, dwTimeSpan, timerTick>>
  BY DEF WakeupSleepers, timerVars
<1>2. ClockTypes /\ dwClockTickCounter < LastTick
  BY <1>1 DEF IInv, TickIsCounted
<1>3. /\ dwClockTickCounter' = dwClockTickCounter + 1
      /\ dwClockTickCounter \in Nat /\ LastTick \in Nat
  BY <1>1, <1>2, TickAfterFact, ClockAssumption DEF ClockTypes
<1>4. /\ SleepersAreQueued' /\ SleeperNote' /\ dwNextWakeupTick' \in Tick
      /\ \A s \in Sleepers : ObjectInQueue(lpSleepingQueue', s) =>
           /\ ObjectInQueue(lpSleepingQueue, s) /\ dwClockTickCounter < wakeupTick[s]
           /\ wakeupTick'[s] = wakeupTick[s]
  BY NobodyDueIsLeft
<1>5. SleepersAreAhead'
  <2> SUFFICES ASSUME NEW s \in Sleepers, ObjectInQueue(lpSleepingQueue', s)
               PROVE  /\ wakeupTick'[s] > 0 /\ dwClockTickCounter' <= wakeupTick'[s]
                      /\ \E span \in Spans : wakeupTick'[s] <= dwClockTickCounter' + span
    BY DEF SleepersAreAhead
  <2>1. /\ ObjectInQueue(lpSleepingQueue, s) /\ dwClockTickCounter < wakeupTick[s]
        /\ wakeupTick'[s] = wakeupTick[s]
    BY <1>4
  <2>2. wakeupTick[s] \in Nat
    BY <2>1, SleepingTicks
  <2>3. PICK span \in Spans : wakeupTick[s] <= dwClockTickCounter + span
    BY <2>1, SleepingTicks
  <2>4. span \in Nat
    BY ClockAssumption
  <2>5. wakeupTick[s] <= dwClockTickCounter + 1 + span
    BY <1>3, <2>2, <2>3, <2>4
  <2> QED BY <1>3, <2>1, <2>2, <2>5
<1>6. TimersAreQueued' /\ TimerNote'
  BY <1>1 DEF IInv, TimersAreQueued, TimerNote, TickQueue, TickOfHeader, Sorted, ByTick
<1>7. TimersAreAhead'
  <2> SUFFICES ASSUME NEW t \in Timers
               PROVE  /\ Pending(t) =>
                           /\ dwTimeSpan[t] \in Spans
                           /\ timerTick[t] > 0
                           /\ dwClockTickCounter + 1 <= timerTick[t]
                           /\ timerTick[t] <= dwClockTickCounter + 1 + dwTimeSpan[t]
                      /\ flags[t] = "fired" => timerTick[t] = MaxTick
    BY <1>1, <1>3 DEF TimersAreAhead, Pending
  <2>1. ASSUME Pending(t)
        PROVE  /\ dwTimeSpan[t] \in Spans
               /\ timerTick[t] > 0
               /\ dwClockTickCounter + 1 <= timerTick[t]
               /\ timerTick[t] <= dwClockTickCounter + 1 + dwTimeSpan[t]
    <3>1. /\ dwTimeSpan[t] \in Spans /\ timerTick[t] > 0
          /\ dwClockTickCounter < timerTick[t]
          /\ timerTick[t] <= dwClockTickCounter + dwTimeSpan[t]
      BY <1>1, <2>1 DEF IInv, TimersAreAhead
    <3>2. dwTimeSpan[t] \in Nat
      <4>1. \A span \in Spans : span \in Nat
        BY ClockAssumption
      <4> QED BY <3>1, <4>1
    <3>3. timerTick[t] \in Nat
      BY ClockAssumption DEF IInv, TimersAreQueued, TickQueue, Tick
    <3> QED BY <1>3, <3>1, <3>2, <3>3
  <2> QED BY <2>1 DEF IInv, TimersAreAhead
<1>8. ClockTypes' /\ TickIsCounted'
  BY <1>1, <1>2, <1>3, <1>4 DEF ClockTypes, TickIsCounted
<1> QED BY <1>4, <1>5, <1>6, <1>7, <1>8 DEF IInv

LEMMA NextPreserves ==
  ASSUME NoWrap, IInv, [Next]_vars
  PROVE  IInv'
<1>1. ASSUME NEW t \in Timers, NEW flag \in {"once", "kept", "always"}, NEW span \in Spans,
             SetTimer(t, flag, span)
      PROVE  IInv'
  BY <1>1, SetTimerPreserves
<1>2. ASSUME NEW t \in Timers, CancelTimer(t)
      PROVE  IInv'
  BY <1>2, CancelTimerPreserves
<1>3. ASSUME NEW s \in Sleepers, NEW span \in Spans, Sleep(s, span)
      PROVE  IInv'
  BY <1>3, SleepPreserves
<1>4. CASE TimerInterrupt
  BY <1>4, TimerInterruptPreserves
<1>5. CASE ServeTimer
  BY <1>5, FireOncePreserves, FireKeptPreserves, FirePeriodicPreserves DEF ServeTimer
<1>6. CASE EndOfTimers
  BY <1>6, EndOfTimersPreserves
<1>7. CASE WakeupSleepers
  BY <1>7, WakeupSleepersPreserves
<1>8. CASE UNCHANGED vars
  BY <1>8 DEF vars, timerVars, sleepVars, IInv, ClockTypes, TickIsCounted, TimersAreQueued,
              TimersAreAhead, TimerNote, SleepersAreQueued, SleepersAreAhead, SleeperNote,
              Pending, TickQueue, TickOfHeader, Sorted, ByTick
<1> QED BY <1>1, <1>2, <1>3, <1>4, <1>5, <1>6, <1>7, <1>8 DEF Next

\* What the interrupt rests on when it compares the clock with a noted tick for equality
\* holds of SetTimer, CancelTimer, Sleep and the interrupt itself.
THEOREM Invariance == ASSUME NoWrap PROVE Spec => []IInv
<1>1. IInv /\ [Next]_vars => IInv'
  BY NextPreserves
<1> QED BY <1>1, InitIInv, PTL DEF Spec

\* The tick that is noted for a queue is that of its first object (SetTimer, CancelTimer,
\* Sleep and the two halves of the timer interrupt): a queue is never held up by its
\* note.
THEOREM NotesMatchHeaders == ASSUME NoWrap PROVE Spec => []NoteMatchesHeader
<1>1. IInv => NoteMatchesHeader
  BY DEF IInv, TimerNote, SleeperNote, NoteMatchesHeader, SystemUnlocked
<1> QED BY <1>1, Invariance, PTL

LEMMA TicksUntilFact ==
  ASSUME IInv, NEW tick \in Tick, dwClockTickCounter <= tick
  PROVE  TicksUntil(tick) = tick - dwClockTickCounter /\ dwClockTickCounter \in Nat
<1>1. MaxTick \in Nat /\ tick \in 0..MaxTick /\ dwClockTickCounter \in Nat
  BY ClockAssumption DEF IInv, ClockTypes, Tick
<1>2. tick - dwClockTickCounter \in 0..MaxTick
  BY <1>1
<1> QED BY <1>1, <1>2, SmallRemainder DEF TicksUntil

\* The tick of a timer that is set and has not fired is never behind the clock, nor
\* further ahead than its span, however timers are set, cancelled and fired around it.
THEOREM NoTimerIsMissed == ASSUME NoWrap PROVE Spec => []NoTimerMissed
<1>1. ASSUME IInv, NEW t \in Timers, Pending(t)
      PROVE  IF interrupt = "sleepers"
             THEN TicksUntil(timerTick[t]) \in 1..dwTimeSpan[t]
             ELSE TicksUntil(timerTick[t]) \in 0..dwTimeSpan[t]
  <2>1. /\ dwTimeSpan[t] \in Spans
        /\ dwClockTickCounter <= timerTick[t]
        /\ interrupt = "sleepers" => dwClockTickCounter < timerTick[t]
        /\ timerTick[t] <= dwClockTickCounter + dwTimeSpan[t]
    BY <1>1 DEF IInv, TimersAreAhead
  <2>2. timerTick[t] \in Tick /\ timerTick[t] \in Nat /\ dwTimeSpan[t] \in Nat
    <3>1. timerTick[t] \in Tick
      BY <1>1 DEF IInv, TimersAreQueued, TickQueue
    <3>2. \A span \in Spans : span \in Nat
      BY ClockAssumption
    <3>3. timerTick[t] \in Nat
      BY <3>1, ClockAssumption DEF Tick
    <3> QED BY <2>1, <3>1, <3>2, <3>3
  <2>3. TicksUntil(timerTick[t]) = timerTick[t] - dwClockTickCounter /\ dwClockTickCounter \in Nat
    BY <1>1, <2>1, <2>2, TicksUntilFact
  <2> QED BY <2>1, <2>2, <2>3
<1>2. IInv => NoTimerMissed
  BY <1>1 DEF NoTimerMissed
<1> QED BY <1>2, Invariance, PTL

\* Nobody sleeps past the tick the sleep was to last until (Sleep in ktmgr.c, and the
\* second half of the interrupt).
THEOREM NoSleeperIsMissed == ASSUME NoWrap PROVE Spec => []NoSleeperMissed
<1>1. ASSUME IInv, NEW s \in ToSet(lpSleepingQueue)
      PROVE  \E span \in Spans : TicksUntil(wakeupTick[s]) <= span
  <2>1. s \in Sleepers /\ ObjectInQueue(lpSleepingQueue, s)
    BY <1>1, QueueMembers, EmptyQueue DEF IInv, SleepersAreQueued, TickQueue
  <2>2. PICK span \in Spans :
          /\ wakeupTick[s] \in Nat /\ wakeupTick[s] \in Tick
          /\ dwClockTickCounter <= wakeupTick[s]
          /\ wakeupTick[s] <= dwClockTickCounter + span
    BY <1>1, <2>1, SleepingTicks
  <2>3. TicksUntil(wakeupTick[s]) = wakeupTick[s] - dwClockTickCounter /\ dwClockTickCounter \in Nat
    BY <1>1, <2>2, TicksUntilFact
  <2>4. span \in Nat
    BY ClockAssumption
  <2> QED BY <2>2, <2>3, <2>4
<1>2. IInv => NoSleeperMissed
  BY <1>1 DEF NoSleeperMissed
<1> QED BY <1>2, Invariance, PTL

\* A handler runs on the very tick its timer was set for: serving the headers up to the
\* noted tick never takes one early, nor one that is late.
THEOREM HandlersRunOnTheirTick == ASSUME NoWrap PROVE Spec => FiresOnTick
<1>1. ASSUME IInv, NEW t \in Timers,
             FireOnce(t) \/ FirePeriodic(t) \/ (FireKept(t) /\ flags[t] = "kept")
      PROVE  dwClockTickCounter = timerTick[t]
  <2>1. Expired(t) /\ Pending(t)
    BY <1>1 DEF FireOnce, FirePeriodic, FireKept, Pending
  <2>2. interrupt = "timers" /\ timerTick[t] <= dwClockTickCounter
    BY <1>1, <2>1 DEF Expired, IInv, TimerNote
  <2>3. dwClockTickCounter <= timerTick[t]
    BY <1>1, <2>1 DEF IInv, TimersAreAhead
  <2>4. timerTick[t] \in Nat /\ dwClockTickCounter \in Nat
    BY <1>1, ClockAssumption DEF IInv, ClockTypes, TimersAreQueued, TickQueue, Tick
  <2> QED BY <2>2, <2>3, <2>4
<1>2. IInv => [\A t \in Timers :
                 FireOnce(t) \/ FirePeriodic(t) \/ (FireKept(t) /\ flags[t] = "kept")
                   => dwClockTickCounter = timerTick[t]]_vars
  BY <1>1
<1> QED BY <1>2, Invariance, PTL DEF FiresOnTick

\* Nobody is woken before the tick the sleep was to last until.
THEOREM SleepsAreNotCutShort == ASSUME NoWrap PROVE Spec => SleepsToTheEnd
<1>1. ASSUME IInv, [Next]_vars, NEW s \in ToSet(lpSleepingQueue) \ ToSet(lpSleepingQueue')
      PROVE  dwClockTickCounter = wakeupTick[s]
  <2>1. IInv /\ SleepersAreQueued /\ lpSleepingQueue \in Seq(Sleepers)
    BY <1>1 DEF IInv, SleepersAreQueued, TickQueue
  <2>2. s \in Sleepers /\ ObjectInQueue(lpSleepingQueue, s)
    BY <1>1, <2>1, QueueMembers, EmptyQueue
  <2>3. CASE UNCHANGED lpSleepingQueue
    BY <1>1, <2>3
  <2>4. CASE WakeupSleepers
    <3>1. PICK rest :
            /\ rest = SubSeq(lpSleepingQueue, NumberDue + 1, Len(lpSleepingQueue))
            /\ TickQueue(rest, Sleepers, wakeupTick)
            /\ \A y : ObjectInQueue(lpSleepingQueue, y) /\ ~ObjectInQueue(rest, y) =>
                 y \in Sleepers /\ wakeupTick[y] <= dwClockTickCounter
      BY <2>1, WakeupFact
    <3>2. CASE lpSleepingQueue' = PutBack(rest, wakeupTick)
      <4>1. PICK r : r = lpSleepingQueue'
        OBVIOUS
      <4>2. /\ TickQueue(r, Sleepers, wakeupTick)
            /\ \A y : ObjectInQueue(r, y) <=> ObjectInQueue(rest, y)
        BY <3>1, <3>2, <4>1, PutBackKeeps
      <4>3. ~ObjectInQueue(rest, s)
        BY <1>1, <4>1, <4>2, QueueMembers DEF TickQueue
      <4>4. wakeupTick[s] <= dwClockTickCounter
        BY <2>2, <3>1, <4>3
      <4> QED BY <2>1, <2>2, <4>4, SleepingTicks
    <3> QED BY <2>3, <2>4, <3>1, <3>2 DEF WakeupSleepers, sleepVars
  <2>5. ASSUME NEW u \in Sleepers, NEW span \in Spans, Sleep(u, span)
        PROVE  FALSE
    <3>1. PICK r : /\ r = lpSleepingQueue' /\ ObjectInQueue(r, s) /\ r \in Seq(Sleepers)
      BY <2>1, <2>2, <2>5, SleepFact DEF TickQueue
    <3> QED BY <1>1, <3>1, QueueMembers
  <2> QED BY <1>1, <2>3, <2>4, <2>5 DEF Next, SetTimer, CancelTimer, TimerInterrupt, ServeTimer,
              FireOnce, FireKept, FirePeriodic, EndOfTimers, sleepVars, vars
<1>2. IInv /\ [Next]_vars =>
        [\A s \in ToSet(lpSleepingQueue) \ ToSet(lpSleepingQueue') :
           dwClockTickCounter = wakeupTick[s]]_vars
  BY <1>1
<1> QED BY <1>2, Invariance, PTL DEF SleepsToTheEnd, Spec
=============================================================================
