------------------------ MODULE KernelThreadsProofs ------------------------
(***************************************************************************)
(* Theorems about KernelThreads for any processors, any threads of any     *)
(* priorities and any placement.                                           *)
(***************************************************************************)
EXTENDS KernelThreads, QueueLemmas

Statuses == {"DESTROYED", "READY", "RUNNING", "SUSPENDED", "BLOCKED", "TERMINAL"}

-----------------------------------------------------------------------------
(* The inductive invariant.                                                 *)

TypeOK ==
  /\ dwThreadStatus \in [Threads -> Statuses]
  /\ cpuAffinity \in [Threads -> CPU]
  /\ CurrentKernelThread \in [CPU -> Threads]
  /\ lpSuspendedQueue \subseteq Threads /\ lpTerminalQueue \subseteq Threads
  /\ lpWaitingQueue \in [Threads -> Seq(Workers)]
  /\ lpMsgWaitingQueue \in [Threads -> Seq(Workers)]
  /\ ucCurrentMsgNum \in [Threads -> Nat]
  /\ refCount \in [Threads -> {0, 1, 2}]
  /\ pc \in [Threads -> Places]
  /\ waking \in [Threads -> Workers \union {NoThread}]
  /\ panic \in BOOLEAN

\* The ready queues Q hold the threads of S, each once, in the queue of its
\* priority on the processor aff gives it.
QueuesHold(Q, S, aff) ==
  /\ Q \in [CPU -> [Levels -> Seq(Threads)]]
  /\ \A c \in CPU, p \in Levels :
       /\ IsInjective(Q[c][p])
       /\ \A t \in Threads :
            ObjectInQueue(Q[c][p], t) <=> t \in S /\ c = aff[t] /\ p = Priority[t]

QueuedThreads == {t \in Threads : dwThreadStatus[t] = "READY" /\ ~BeingWoken(t)}
ReadyAreQueued == QueuesHold(ThreadQueue, QueuedThreads, cpuAffinity)

\* A processor runs a thread of its own, and a RUNNING thread is the current one.
CurrentIsOwn ==
  /\ \A c \in CPU : cpuAffinity[CurrentKernelThread[c]] = c
  /\ \A t \in Threads : dwThreadStatus[t] = "RUNNING" => CurrentKernelThread[cpuAffinity[t]] = t

\* An idle thread is always there to be scheduled.
IdleIsReady ==
  \A c \in CPU : LET i == IdleKernelThread[c] IN
    cpuAffinity[i] = c /\ dwThreadStatus[i] \in {"READY", "RUNNING"} /\ pc[i] = "run"

\* A thread in client code runs, until the system has stopped.
ClientsRun ==
  ~panic => \A c \in CPU :
    pc[CurrentKernelThread[c]] \in {"run", "again"} =>
      dwThreadStatus[CurrentKernelThread[c]] = "RUNNING"

StatusIsQueue ==
  \A t \in Threads :
    /\ t \in lpSuspendedQueue <=> dwThreadStatus[t] = "SUSPENDED"
    /\ t \in lpTerminalQueue <=> dwThreadStatus[t] = "TERMINAL"

\* The stages of the end of a thread: it wakes its waiters and gives up the
\* processor for good; its object is gone with the last of two references.
EndInOrder ==
  \A t \in Threads :
    /\ pc[t] = "wake" => dwThreadStatus[t] = "TERMINAL"
    /\ dwThreadStatus[t] = "TERMINAL" => pc[t] \in {"wake", "schedule", "dead"}
    /\ dwThreadStatus[t] = "TERMINAL" /\ pc[t] # "dead" => CurrentKernelThread[cpuAffinity[t]] = t
    /\ pc[t] = "dead" => /\ dwThreadStatus[t] \in {"TERMINAL", "DESTROYED"}
                         /\ CurrentKernelThread[cpuAffinity[t]] # t
    /\ dwThreadStatus[t] = "DESTROYED" <=> refCount[t] = 0
    /\ dwThreadStatus[t] = "DESTROYED" => pc[t] = "dead"
    /\ pc[t] = "dead" => refCount[t] # 2

\* A thread marked READY by the end of another one, by that one alone.
WakingIsReady ==
  \A u \in Workers : waking[u] # NoThread =>
    /\ pc[u] = "wake" /\ dwThreadStatus[waking[u]] = "READY"
    /\ \A v \in Workers : waking[v] = waking[u] => v = u

InMessageQueue(t) == ObjectInQueue(lpMsgWaitingQueue[t], t)
WaitsForEnd(t, u) == ObjectInQueue(lpWaitingQueue[u], t)

\* Who is BLOCKED is in one waiting queue, once, and nobody else is in any.
BlockedAreQueued ==
  /\ \A u \in Threads : IsInjective(lpWaitingQueue[u]) /\ IsInjective(lpMsgWaitingQueue[u])
  /\ \A t, u \in Threads :
       /\ ObjectInQueue(lpMsgWaitingQueue[u], t) => t = u /\ dwThreadStatus[t] = "BLOCKED"
       /\ WaitsForEnd(t, u) =>
            /\ dwThreadStatus[t] = "BLOCKED" /\ ~InMessageQueue(t) /\ u \in Workers
            /\ \A v \in Threads : WaitsForEnd(t, v) => v = u
  /\ \A t \in Threads : dwThreadStatus[t] = "BLOCKED" =>
       InMessageQueue(t) \/ \E u \in Workers : WaitsForEnd(t, u)

\* What a queued thread waits for has not happened.
NotYetHappened ==
  \A t \in Threads :
    /\ lpMsgWaitingQueue[t] # <<>> => ucCurrentMsgNum[t] = 0
    /\ lpWaitingQueue[t] # <<>> =>
         dwThreadStatus[t] # "DESTROYED" /\ (dwThreadStatus[t] # "TERMINAL" \/ pc[t] = "wake")

IInv ==
  /\ TypeOK
  /\ ReadyAreQueued
  /\ CurrentIsOwn
  /\ IdleIsReady
  /\ ClientsRun
  /\ StatusIsQueue
  /\ EndInOrder
  /\ WakingIsReady
  /\ BlockedAreQueued
  /\ NotYetHappened

-----------------------------------------------------------------------------
(* Ready queues.                                                            *)

\* There are finitely many priority levels, so a highest one of some of them.
LEMMA HighestLevel ==
  ASSUME NEW L, L \subseteq Levels, L # {}
  PROVE  \E p \in L : \A q \in L : q <= p
<1> DEFINE NoTop(T) == T # {} /\ ~\E p \in T : \A q \in T : q <= p
           sizes == {Cardinality(T) : T \in {U \in SUBSET Levels : NoTop(U)}}
<1>1. Levels \subseteq Nat /\ IsFiniteSet(Levels)
  BY ThreadsAssumption DEF Levels
<1>2. \A T \in SUBSET Levels : IsFiniteSet(T) /\ Cardinality(T) \in Nat
  BY <1>1, FS_Subset, FS_CardinalityType
<1>3. SUFFICES ASSUME NoTop(L)
               PROVE  FALSE
  OBVIOUS
<1>4. sizes # {} /\ sizes \subseteq Nat
  BY <1>2, <1>3
<1>5. PICK n \in sizes : \A k \in sizes : n <= k
  <2> HIDE DEF sizes
  <2> QED BY <1>4, LeastNatural
<1>6. PICK T \in SUBSET Levels : NoTop(T) /\ Cardinality(T) = n
  BY <1>5
<1>7. PICK p \in T : TRUE
  BY <1>6
<1>8. /\ T \ {p} \in SUBSET Levels /\ Cardinality(T \ {p}) = Cardinality(T) - 1
  BY <1>2, <1>6, <1>7, FS_RemoveElement
<1>9. ~NoTop(T \ {p})
  <2>1. ASSUME NoTop(T \ {p})
        PROVE  n <= n - 1 /\ n \in Nat
    <3>1. n - 1 \in sizes
      BY <1>6, <1>8, <2>1
    <3>2. n \in Nat
      BY <1>4, <1>5
    <3> HIDE DEF sizes
    <3> QED BY <1>5, <3>1, <3>2
  <2> QED BY <2>1
<1>10. CASE T \ {p} = {}
  <2>1. T = {p} /\ p <= p
    BY <1>1, <1>6, <1>7, <1>10
  <2> QED BY <1>6, <2>1
<1>11. CASE T \ {p} # {}
  <2>1. PICK m \in T \ {p} : \A q \in T \ {p} : q <= m
    BY <1>9, <1>11
  <2>2. m \in Nat /\ p \in Nat /\ \A q \in T : q \in Nat
    BY <1>1, <1>6, <1>7
  <2>3. CASE m <= p
    BY <1>6, <1>7, <2>1, <2>2, <2>3
  <2>4. CASE p <= m
    BY <1>6, <1>7, <2>1, <2>2, <2>4
  <2> QED BY <2>2, <2>3, <2>4
<1> QED BY <1>10, <1>11

\* In a queue without repetitions, copies are membership.
LEMMA OneCopy ==
  ASSUME NEW S, NEW q \in Seq(S), IsInjective(q), NEW t
  PROVE  Copies(q, t) = IF ObjectInQueue(q, t) THEN 1 ELSE 0
<1> DEFINE places == {i \in DOMAIN q : q[i] = t}
<1>1. DOMAIN q = 1..Len(q)
  OBVIOUS
<1>2. CASE ObjectInQueue(q, t)
  <2>1. PICK i \in DOMAIN q : q[i] = t
    BY <1>1, <1>2 DEF ObjectInQueue, Contains
  <2>2. places = {i}
    BY <2>1 DEF IsInjective
  <2> QED BY <1>2, <2>2, FS_Singleton DEF Copies
<1>3. CASE ~ObjectInQueue(q, t)
  <2>1. places = {}
    BY <1>1, <1>3 DEF ObjectInQueue, Contains
  <2> QED BY <1>3, <2>1, FS_EmptySet DEF Copies
<1> QED BY <1>2, <1>3

\* AddReadyKernelThread adds a thread that was in none of the queues.
LEMMA AddHolds ==
  ASSUME NEW Q, NEW S, NEW aff \in [Threads -> CPU], QueuesHold(Q, S, aff),
         NEW t \in Threads, t \notin S
  PROVE  QueuesHold([Q EXCEPT ![aff[t]][Priority[t]] = Append(@, t)], S \union {t}, aff)
<1> DEFINE c == aff[t]
           p == Priority[t]
           R == [Q EXCEPT ![c][p] = Append(@, t)]
<1>1. c \in CPU /\ p \in Levels
  BY DEF Levels
<1>2. /\ Q \in [CPU -> [Levels -> Seq(Threads)]]
      /\ \A d \in CPU, l \in Levels :
           /\ IsInjective(Q[d][l])
           /\ \A x \in Threads : ObjectInQueue(Q[d][l], x) <=> x \in S /\ d = aff[x] /\ l = Priority[x]
  BY DEF QueuesHold
<1>3. Q[c][p] \in Seq(Threads) /\ IsInjective(Q[c][p]) /\ ~ObjectInQueue(Q[c][p], t)
  BY <1>1, <1>2
<1>4. /\ Append(Q[c][p], t) \in Seq(Threads) /\ IsInjective(Append(Q[c][p], t))
      /\ \A y : ObjectInQueue(Append(Q[c][p], t), y) <=> ObjectInQueue(Q[c][p], y) \/ y = t
  <2> HIDE DEF c, p
  <2> QED BY <1>3, AppendKeeps
<1>5. /\ R \in [CPU -> [Levels -> Seq(Threads)]]
      /\ R[c][p] = Append(Q[c][p], t)
      /\ \A d \in CPU, l \in Levels : d # c \/ l # p => R[d][l] = Q[d][l]
  <2> HIDE DEF c, p
  <2> QED BY <1>1, <1>2, <1>4
<1> HIDE DEF R
<1>6. ASSUME NEW d \in CPU, NEW l \in Levels
      PROVE  /\ IsInjective(R[d][l])
             /\ \A x \in Threads : ObjectInQueue(R[d][l], x)
                                     <=> x \in S \union {t} /\ d = aff[x] /\ l = Priority[x]
  <2>1. /\ IsInjective(R[c][p])
        /\ \A x \in Threads : ObjectInQueue(R[c][p], x)
                                <=> (x \in S /\ c = aff[x] /\ p = Priority[x]) \/ x = t
    <3> HIDE DEF c, p
    <3>1. IsInjective(R[c][p])
      BY <1>4, <1>5
    <3>2. ASSUME NEW x \in Threads
          PROVE  ObjectInQueue(R[c][p], x)
                   <=> (x \in S /\ c = aff[x] /\ p = Priority[x]) \/ x = t
      <4>1. ObjectInQueue(Q[c][p], x) <=> x \in S /\ c = aff[x] /\ p = Priority[x]
        BY <1>1, <1>2
      <4>2. ObjectInQueue(R[c][p], x) <=> ObjectInQueue(Q[c][p], x) \/ x = t
        BY <1>4, <1>5
      <4> QED BY <4>1, <4>2
    <3> QED BY <3>1, <3>2
  <2>2. CASE ~(d = c /\ l = p)
    BY <1>2, <1>5, <2>2
  <2> QED BY <2>1, <2>2
<1>7. QueuesHold(R, S \union {t}, aff)
  BY <1>5, <1>6 DEF QueuesHold
<1> QED BY <1>7 DEF R

\* Where a thread outside the queues belongs does not matter to them.
LEMMA HoldsWithout ==
  ASSUME NEW Q, NEW S, NEW aff, QueuesHold(Q, S, aff),
         NEW aff2, \A t \in Threads : t \in S => aff2[t] = aff[t]
  PROVE  QueuesHold(Q, S, aff2)
  BY DEF QueuesHold

\* GetScheduleKernelThread takes a queued thread of the processor out.
LEMMA FetchHolds ==
  ASSUME NEW S, NEW aff, QueuesHold(ThreadQueue, S, aff),
         NEW c \in CPU, NEW lowest, ReadyLevels(c, lowest) # {}
  PROVE  LET new == GetScheduleKernelThread(c, lowest) IN
         /\ new \in Threads /\ new \in S /\ aff[new] = c
         /\ Priority[new] >= lowest
         /\ \A p \in ReadyLevels(c, lowest) : p <= Priority[new]
         /\ QueuesHold(Fetched(c, lowest), S \ {new}, aff)
<1> DEFINE L   == ReadyLevels(c, lowest)
           p   == TopLevel(c, lowest)
           q   == ThreadQueue[c][p]
           new == HeaderElement(q)
           R   == [ThreadQueue EXCEPT ![c][p] = WithoutHeader(@)]
<1>1. L \subseteq Levels
  BY DEF ReadyLevels
<1>2. p \in L /\ \A l \in L : l <= p
  BY <1>1, HighestLevel DEF TopLevel
<1>3. p \in Levels /\ p >= lowest /\ q # <<>>
  BY <1>1, <1>2 DEF ReadyLevels
<1>4. /\ ThreadQueue \in [CPU -> [Levels -> Seq(Threads)]]
      /\ \A d \in CPU, l \in Levels :
           /\ IsInjective(ThreadQueue[d][l])
           /\ \A x \in Threads : ObjectInQueue(ThreadQueue[d][l], x)
                                   <=> x \in S /\ d = aff[x] /\ l = Priority[x]
  BY DEF QueuesHold
<1>5. q \in Seq(Threads) /\ IsInjective(q)
  BY <1>3, <1>4
<1>6. /\ new \in Threads /\ ObjectInQueue(q, new)
      /\ WithoutHeader(q) \in Seq(Threads) /\ IsInjective(WithoutHeader(q))
      /\ \A y : ObjectInQueue(WithoutHeader(q), y) <=> ObjectInQueue(q, y) /\ y # new
  <2> HIDE DEF q
  <2> QED BY <1>3, <1>5, HeaderTaken
<1>7. new \in S /\ aff[new] = c /\ Priority[new] = p
  BY <1>3, <1>4, <1>6
<1>8. GetScheduleKernelThread(c, lowest) = new /\ Fetched(c, lowest) = R
  BY DEF GetScheduleKernelThread, Fetched
<1>9. /\ R \in [CPU -> [Levels -> Seq(Threads)]]
      /\ R[c][p] = WithoutHeader(q)
      /\ \A d \in CPU, l \in Levels : d # c \/ l # p => R[d][l] = ThreadQueue[d][l]
  <2> HIDE DEF p
  <2> QED BY <1>3, <1>4, <1>6
<1> HIDE DEF R, new, p
<1>10. ASSUME NEW d \in CPU, NEW l \in Levels
       PROVE  /\ IsInjective(R[d][l])
              /\ \A x \in Threads : ObjectInQueue(R[d][l], x)
                                      <=> x \in S \ {new} /\ d = aff[x] /\ l = Priority[x]
  <2>1. CASE d = c /\ l = p
    BY <1>3, <1>4, <1>6, <1>9, <2>1
  <2>2. CASE ~(d = c /\ l = p)
    BY <1>4, <1>7, <1>9, <2>2
  <2> QED BY <2>1, <2>2
<1>11. QueuesHold(R, S \ {new}, aff)
  BY <1>9, <1>10 DEF QueuesHold
<1> QED BY <1>2, <1>3, <1>6, <1>7, <1>8, <1>11

\* A queued thread of the processor that ranks high enough can be scheduled.
LEMMA QueuedIsReadyLevel ==
  ASSUME NEW S, NEW aff, QueuesHold(ThreadQueue, S, aff),
         NEW t \in Threads, t \in S, aff[t] \in CPU, NEW lowest, Priority[t] >= lowest
  PROVE  ReadyLevels(aff[t], lowest) # {}
<1>1. Priority[t] \in Levels
  BY DEF Levels
<1>2. /\ ThreadQueue[aff[t]][Priority[t]] \in Seq(Threads)
      /\ ObjectInQueue(ThreadQueue[aff[t]][Priority[t]], t)
  BY <1>1 DEF QueuesHold
<1>3. ThreadQueue[aff[t]][Priority[t]] # <<>>
  BY <1>2, EmptyQueue
<1> QED BY <1>1, <1>3 DEF ReadyLevels

-----------------------------------------------------------------------------
(* What the invariant says of one thread.                                   *)

\* A thread that is in client code, or tries again to get a message.
LEMMA ClientThread ==
  ASSUME IInv, ~panic, NEW t \in Workers, Current(t), pc[t] \in {"run", "again"}
  PROVE  /\ t \in Threads /\ dwThreadStatus[t] = "RUNNING"
         /\ CurrentKernelThread[cpuAffinity[t]] = t
         /\ t \notin QueuedThreads /\ ~BeingWoken(t)
         /\ \A c \in CPU : IdleKernelThread[c] # t
<1> USE DEF IInv
<1>1. t \in Threads /\ \A c \in CPU : IdleKernelThread[c] # t
  BY ThreadsAssumption DEF Threads, Idle
<1>2. PICK c \in CPU : CurrentKernelThread[c] = t
  BY DEF Current
<1>3. cpuAffinity[t] = c /\ dwThreadStatus[t] = "RUNNING"
  BY <1>2 DEF CurrentIsOwn, ClientsRun
<1>4. t # NoThread
  BY <1>1, ThreadsAssumption
<1>5. ~BeingWoken(t)
  BY <1>3, <1>4 DEF BeingWoken, WakingIsReady
<1> QED BY <1>1, <1>2, <1>3, <1>5 DEF QueuedThreads

\* The threads that the end of another one wakes are READY.
LEMMA WokenIsReady ==
  ASSUME IInv, NEW t \in Threads, BeingWoken(t)
  PROVE  dwThreadStatus[t] = "READY" /\ t \in Workers
<1>1. PICK u \in Workers : waking[u] = t
  BY DEF BeingWoken
<1>2. t # NoThread /\ u \in Threads
  BY ThreadsAssumption DEF Threads
<1> QED BY <1>1, <1>2 DEF IInv, TypeOK, WakingIsReady

\* A processor whose thread cannot go on has another one: its idle thread.
LEMMA IdleToTheRescue ==
  ASSUME IInv, NEW c \in CPU,
         dwThreadStatus[CurrentKernelThread[c]] \notin {"READY", "RUNNING"}
  PROVE  ReadyLevels(c, 0) # {}
<1> DEFINE i == IdleKernelThread[c]
<1>1. i \in Threads /\ i \notin Workers /\ Priority[i] \in Nat
  BY ThreadsAssumption DEF Threads, Idle
<1>2. cpuAffinity[i] = c /\ dwThreadStatus[i] \in {"READY", "RUNNING"}
  BY DEF IInv, IdleIsReady
<1>3. CurrentKernelThread[c] # i
  BY <1>2
<1>4. dwThreadStatus[i] = "READY"
  BY <1>1, <1>2, <1>3 DEF IInv, CurrentIsOwn
<1>5. i \in QueuedThreads
  BY <1>1, <1>4, WokenIsReady DEF QueuedThreads
<1>6. QueuesHold(ThreadQueue, QueuedThreads, cpuAffinity)
  BY DEF IInv, ReadyAreQueued
<1>7. Priority[i] >= 0
  BY <1>1
<1> HIDE DEF i
<1> QED BY <1>1, <1>2, <1>5, <1>6, <1>7, QueuedIsReadyLevel

-----------------------------------------------------------------------------
(* The schedulers.                                                          *)

\* The threads and queues after processor c went from one thread to another.
LEMMA SwitchKeeps ==
  ASSUME IInv, NEW c \in CPU, NEW lowest, ReadyLevels(c, lowest) # {},
         NEW s \in Statuses \ {"RUNNING"},
         LET current == CurrentKernelThread[c] IN
           /\ dwThreadStatus[current] = "READY" => s = "READY"
           /\ SwitchTo(c, GetScheduleKernelThread(c, lowest),
                       [dwThreadStatus EXCEPT ![current] = s]),
         UNCHANGED cpuAffinity
  PROVE  LET current == CurrentKernelThread[c]
             new == GetScheduleKernelThread(c, lowest)
         IN /\ current \in Threads /\ cpuAffinity[current] = c
            /\ new \in Threads /\ new \in QueuedThreads /\ cpuAffinity[new] = c
            /\ dwThreadStatus[new] = "READY" /\ ~BeingWoken(new)
            /\ QueuesHold(Fetched(c, lowest), QueuedThreads \ {new}, cpuAffinity)
            /\ CurrentKernelThread' \in [CPU -> Threads]
            /\ CurrentKernelThread'[c] = new
            /\ \A d \in CPU \ {c} : /\ CurrentKernelThread'[d] = CurrentKernelThread[d]
                                    /\ CurrentKernelThread[d] # current
                                    /\ CurrentKernelThread[d] # new
            /\ dwThreadStatus' \in [Threads -> Statuses]
            /\ dwThreadStatus'[new] = "RUNNING"
            /\ current # new => dwThreadStatus'[current] = s
            /\ \A t \in Threads \ {current, new} : dwThreadStatus'[t] = dwThreadStatus[t]
            /\ CurrentIsOwn'
<1> USE DEF IInv
<1> DEFINE current == CurrentKernelThread[c]
           new == GetScheduleKernelThread(c, lowest)
<1>1. current \in Threads /\ cpuAffinity[current] = c
  BY DEF TypeOK, CurrentIsOwn
<1>2. /\ new \in Threads /\ new \in QueuedThreads /\ cpuAffinity[new] = c
      /\ QueuesHold(Fetched(c, lowest), QueuedThreads \ {new}, cpuAffinity)
  BY FetchHolds DEF ReadyAreQueued
<1>3. /\ CurrentKernelThread' = [CurrentKernelThread EXCEPT ![c] = new]
      /\ dwThreadStatus' = [[dwThreadStatus EXCEPT ![current] = s] EXCEPT ![new] = "RUNNING"]
  BY DEF SwitchTo
<1> HIDE DEF current, new
<1>4. dwThreadStatus[new] = "READY" /\ ~BeingWoken(new)
  BY <1>2 DEF QueuedThreads
<1>5. /\ CurrentKernelThread' \in [CPU -> Threads] /\ CurrentKernelThread'[c] = new
      /\ \A d \in CPU \ {c} : CurrentKernelThread'[d] = CurrentKernelThread[d]
  BY <1>2, <1>3 DEF TypeOK
<1>6. \A d \in CPU \ {c} : CurrentKernelThread[d] # current /\ CurrentKernelThread[d] # new
  BY <1>1, <1>2 DEF CurrentIsOwn
<1>7. /\ dwThreadStatus' \in [Threads -> Statuses]
      /\ dwThreadStatus'[new] = "RUNNING"
      /\ current # new => dwThreadStatus'[current] = s
      /\ \A t \in Threads \ {current, new} : dwThreadStatus'[t] = dwThreadStatus[t]
  BY <1>1, <1>2, <1>3 DEF TypeOK, Statuses
<1>8. CurrentIsOwn'
  <2>1. \A d \in CPU : cpuAffinity'[CurrentKernelThread'[d]] = d
    BY <1>2, <1>5 DEF CurrentIsOwn
  <2>2. ASSUME NEW t \in Threads, dwThreadStatus'[t] = "RUNNING"
        PROVE  CurrentKernelThread'[cpuAffinity'[t]] = t
    <3>1. CASE t = new
      BY <1>2, <1>5, <3>1
    <3>2. CASE t # new
      <4>1. t # current /\ dwThreadStatus[t] = "RUNNING"
        BY <1>7, <2>2, <3>2
      <4>2. CurrentKernelThread[cpuAffinity[t]] = t /\ cpuAffinity[t] \in CPU
        BY <4>1 DEF CurrentIsOwn, TypeOK
      <4>3. cpuAffinity[t] # c
        BY <4>1, <4>2 DEF current
      <4> QED BY <1>5, <4>2, <4>3
    <3> QED BY <3>1, <3>2
  <2> QED BY <2>1, <2>2 DEF CurrentIsOwn
<1> QED BY <1>1, <1>2, <1>4, <1>5, <1>6, <1>7, <1>8 DEF current, new

\* A processor goes from a thread that may come back to another one: the
\* first one is ready again (Preempt), or not (SwapOut), or was woken meanwhile.
LEMMA SwitchPreserves ==
  ASSUME IInv, NEW c \in CPU, NEW lowest, ReadyLevels(c, lowest) # {},
         NEW s \in {"READY", "BLOCKED", "SUSPENDED"},
         LET current == CurrentKernelThread[c] IN
           /\ SwitchTo(c, GetScheduleKernelThread(c, lowest),
                       [dwThreadStatus EXCEPT ![current] = s])
           /\ \/ dwThreadStatus[current] = s /\ ThreadQueue' = Fetched(c, lowest)
              \/ /\ dwThreadStatus[current] = "RUNNING" /\ s = "READY"
                 /\ ThreadQueue' = AddReady(Fetched(c, lowest), current)
           /\ \/ pc' = pc
              \/ /\ pc[current] \in {"schedule", "scheduleGet"}
                 /\ pc' = [pc EXCEPT ![current] = AfterSchedule(current)],
         UNCHANGED <<cpuAffinity, lpSuspendedQueue, lpTerminalQueue, refCount,
                     lpMsgWaitingQueue, ucCurrentMsgNum, lpWaitingQueue, waking, panic>>
  PROVE  IInv'
<1> USE DEF IInv
<1> DEFINE current == CurrentKernelThread[c]
           new == GetScheduleKernelThread(c, lowest)
<1>1. /\ current \in Threads /\ cpuAffinity[current] = c
      /\ new \in Threads /\ new \in QueuedThreads /\ cpuAffinity[new] = c
      /\ dwThreadStatus[new] = "READY" /\ ~BeingWoken(new)
      /\ QueuesHold(Fetched(c, lowest), QueuedThreads \ {new}, cpuAffinity)
      /\ CurrentKernelThread' \in [CPU -> Threads]
      /\ CurrentKernelThread'[c] = new
      /\ \A d \in CPU \ {c} : /\ CurrentKernelThread'[d] = CurrentKernelThread[d]
                              /\ CurrentKernelThread[d] # current
                              /\ CurrentKernelThread[d] # new
      /\ dwThreadStatus' \in [Threads -> Statuses]
      /\ dwThreadStatus'[new] = "RUNNING"
      /\ current # new => dwThreadStatus'[current] = s
      /\ \A t \in Threads \ {current, new} : dwThreadStatus'[t] = dwThreadStatus[t]
      /\ CurrentIsOwn'
  BY SwitchKeeps DEF Statuses
<1>2. \/ dwThreadStatus[current] = s /\ ThreadQueue' = Fetched(c, lowest)
      \/ /\ dwThreadStatus[current] = "RUNNING" /\ s = "READY"
         /\ ThreadQueue' = AddReady(Fetched(c, lowest), current)
  OBVIOUS
<1>3. /\ pc' \in [Threads -> Places]
      /\ \A t \in Threads \ {current} : pc'[t] = pc[t]
      /\ \/ pc'[current] = pc[current]
         \/ pc[current] \in {"schedule", "scheduleGet"} /\ pc'[current] \in {"run", "again"}
  BY <1>1 DEF TypeOK, AfterSchedule, Places
<1> HIDE DEF current, new
<1>4. /\ dwThreadStatus[current] = s \/ (dwThreadStatus[current] = "RUNNING" /\ s = "READY")
      /\ \A t \in Threads, st \in {"BLOCKED", "SUSPENDED", "TERMINAL", "DESTROYED"} :
           dwThreadStatus'[t] = st <=> dwThreadStatus[t] = st
  BY <1>1, <1>2
<1>5. TypeOK'
  BY <1>1, <1>3 DEF TypeOK
<1>6. \A t \in Threads : BeingWoken(t)' <=> BeingWoken(t)
  BY DEF BeingWoken
<1>7. ReadyAreQueued'
  <2>1. CASE dwThreadStatus[current] = s /\ ThreadQueue' = Fetched(c, lowest)
    <3>1. QueuedThreads' = QueuedThreads \ {new}
      BY <1>1, <1>4, <1>6, <2>1 DEF QueuedThreads
    <3> QED BY <1>1, <2>1, <3>1 DEF ReadyAreQueued
  <2>2. CASE dwThreadStatus[current] = "RUNNING" /\ s = "READY"
             /\ ThreadQueue' = AddReady(Fetched(c, lowest), current)
    <3>1. ~BeingWoken(current) /\ current # new /\ current \notin QueuedThreads
      BY <1>1, <2>2, WokenIsReady DEF QueuedThreads
    <3>2. QueuedThreads' = (QueuedThreads \ {new}) \union {current}
      BY <1>1, <1>6, <2>2, <3>1 DEF QueuedThreads
    <3>3. QueuesHold([Fetched(c, lowest) EXCEPT
                        ![cpuAffinity[current]][Priority[current]] = Append(@, current)],
                     (QueuedThreads \ {new}) \union {current}, cpuAffinity)
      BY <1>1, <3>1, AddHolds DEF TypeOK
    <3> QED BY <2>2, <3>2, <3>3 DEF ReadyAreQueued, AddReady
  <2> QED BY <1>2, <2>1, <2>2
<1>8. IdleIsReady'
  <2> SUFFICES ASSUME NEW d \in CPU
               PROVE  /\ dwThreadStatus'[IdleKernelThread[d]] \in {"READY", "RUNNING"}
                      /\ pc'[IdleKernelThread[d]] = "run"
    BY DEF IdleIsReady
  <2>1. IdleKernelThread[d] \in Threads /\ pc[IdleKernelThread[d]] = "run"
        /\ dwThreadStatus[IdleKernelThread[d]] \in {"READY", "RUNNING"}
    BY ThreadsAssumption DEF Threads, Idle, IdleIsReady
  <2> QED BY <1>1, <1>3, <1>4, <2>1
<1>9. ClientsRun'
  <2> SUFFICES ASSUME ~panic, NEW d \in CPU, pc'[CurrentKernelThread'[d]] \in {"run", "again"}
               PROVE  dwThreadStatus'[CurrentKernelThread'[d]] = "RUNNING"
    BY DEF ClientsRun
  <2>1. CASE d = c
    BY <1>1, <2>1
  <2>2. CASE d # c
    <3>1. /\ CurrentKernelThread'[d] = CurrentKernelThread[d]
          /\ CurrentKernelThread[d] \in Threads \ {current, new}
      BY <1>1, <2>2 DEF TypeOK
    <3>2. /\ pc[CurrentKernelThread[d]] \in {"run", "again"}
          /\ dwThreadStatus'[CurrentKernelThread[d]] = dwThreadStatus[CurrentKernelThread[d]]
      BY <1>1, <1>3, <3>1
    <3> QED BY <3>1, <3>2 DEF ClientsRun
  <2> QED BY <2>1, <2>2
<1>10. StatusIsQueue'
  BY <1>4 DEF StatusIsQueue
<1>11. EndInOrder'
  <2> SUFFICES ASSUME NEW t \in Threads
               PROVE  /\ pc'[t] = "wake" => dwThreadStatus'[t] = "TERMINAL"
                      /\ dwThreadStatus'[t] = "TERMINAL" =>
                           pc'[t] \in {"wake", "schedule", "dead"}
                      /\ dwThreadStatus'[t] = "TERMINAL" /\ pc'[t] # "dead" =>
                           CurrentKernelThread'[cpuAffinity[t]] = t
                      /\ pc'[t] = "dead" =>
                           /\ dwThreadStatus'[t] \in {"TERMINAL", "DESTROYED"}
                           /\ CurrentKernelThread'[cpuAffinity[t]] # t
                      /\ dwThreadStatus'[t] = "DESTROYED" <=> refCount[t] = 0
                      /\ dwThreadStatus'[t] = "DESTROYED" => pc'[t] = "dead"
                      /\ pc'[t] = "dead" => refCount[t] # 2
    BY DEF EndInOrder
  <2>1. CASE t = current
    BY <1>1, <1>3, <1>4, <2>1 DEF EndInOrder
  <2>2. CASE t # current
    <3>1. pc'[t] = pc[t] /\ cpuAffinity[t] \in CPU
      BY <1>3, <2>2 DEF TypeOK
    <3>2. CASE cpuAffinity[t] = c
      <4>1. dwThreadStatus[t] = "TERMINAL" => pc[t] = "dead"
        BY <2>2, <3>2 DEF EndInOrder, current
      <4> QED BY <1>1, <1>4, <3>1, <3>2, <4>1 DEF EndInOrder
    <3>3. CASE cpuAffinity[t] # c
      BY <1>1, <1>4, <3>1, <3>3 DEF EndInOrder
    <3> QED BY <3>2, <3>3
  <2> QED BY <2>1, <2>2
<1>12. WakingIsReady'
  <2> SUFFICES ASSUME NEW u \in Workers, waking[u] # NoThread
               PROVE  pc'[u] = "wake" /\ dwThreadStatus'[waking[u]] = "READY"
    BY DEF WakingIsReady
  <2>1. u \in Threads /\ waking[u] \in Threads /\ BeingWoken(waking[u])
    BY DEF TypeOK, Threads, BeingWoken
  <2>2. pc[u] = "wake" /\ dwThreadStatus[waking[u]] = "READY"
    BY DEF WakingIsReady
  <2>3. waking[u] # new
    BY <1>1, <2>1
  <2>4. pc'[u] = "wake"
    BY <1>3, <2>1, <2>2, <1>4 DEF EndInOrder
  <2> QED BY <1>1, <1>4, <2>1, <2>2, <2>3, <2>4
<1>13. BlockedAreQueued'
  BY <1>4 DEF BlockedAreQueued, InMessageQueue, WaitsForEnd
<1>14. NotYetHappened'
  BY <1>1, <1>3, <1>4 DEF NotYetHappened, EndInOrder
<1> QED BY <1>1, <1>5, <1>7, <1>8, <1>9, <1>10, <1>11, <1>12, <1>13, <1>14

\* A RUNNING thread that goes on to another place of the code.
LEMMA RunningGoesOn ==
  ASSUME IInv, NEW t \in Threads, dwThreadStatus[t] = "RUNNING",
         \A c \in CPU : IdleKernelThread[c] # t,
         NEW place \in {"run", "again", "schedule"}, pc' = [pc EXCEPT ![t] = place],
         UNCHANGED <<dwThreadStatus, cpuAffinity, ThreadQueue, CurrentKernelThread,
                     lpSuspendedQueue, panic, objectVars, waitVars>>
  PROVE  /\ ReadyAreQueued' /\ CurrentIsOwn' /\ IdleIsReady' /\ ClientsRun'
         /\ StatusIsQueue' /\ EndInOrder' /\ WakingIsReady'
         /\ pc' \in [Threads -> Places]
         /\ \A x \in Threads : dwThreadStatus[x] = "TERMINAL" => pc'[x] = pc[x]
<1> USE DEF IInv, objectVars, waitVars
<1>1. /\ pc' \in [Threads -> Places] /\ pc'[t] = place
      /\ \A x \in Threads \ {t} : pc'[x] = pc[x]
  BY DEF TypeOK, Places
<1>2. ReadyAreQueued'
  BY DEF ReadyAreQueued, QueuedThreads, BeingWoken
<1>3. CurrentIsOwn' /\ StatusIsQueue'
  BY DEF CurrentIsOwn, StatusIsQueue
<1>4. IdleIsReady'
  BY <1>1, ThreadsAssumption DEF IdleIsReady, Threads, Idle
<1>5. ClientsRun'
  BY <1>1 DEF ClientsRun, TypeOK
<1>6. EndInOrder'
  BY <1>1 DEF EndInOrder
<1>7. WakingIsReady'
  BY <1>1 DEF WakingIsReady, EndInOrder, Threads
<1> QED BY <1>1, <1>2, <1>3, <1>4, <1>5, <1>6, <1>7

\* The system stops in the scheduler.
LEMMA StopPreserves ==
  ASSUME IInv, NEW c \in CPU, dwThreadStatus[CurrentKernelThread[c]] = "READY",
         LET current == CurrentKernelThread[c] IN
           /\ pc[current] \in {"schedule", "scheduleGet"}
           /\ pc' = [pc EXCEPT ![current] = AfterSchedule(current)],
         panic' = TRUE,
         UNCHANGED <<dwThreadStatus, cpuAffinity, ThreadQueue, CurrentKernelThread,
                     lpSuspendedQueue, objectVars, messageVars, waitVars>>
  PROVE  IInv'
<1> USE DEF IInv, objectVars, waitVars, messageVars
<1> DEFINE t == CurrentKernelThread[c]
<1>1. t \in Threads /\ dwThreadStatus[t] = "READY" /\ pc[t] \in {"schedule", "scheduleGet"}
  BY DEF TypeOK
<1>2. /\ pc' \in [Threads -> Places] /\ pc'[t] \in {"run", "again"}
      /\ \A x \in Threads \ {t} : pc'[x] = pc[x]
  BY <1>1 DEF TypeOK, Places, AfterSchedule
<1> HIDE DEF t
<1>3. TypeOK'
  BY <1>2 DEF TypeOK
<1>4. ReadyAreQueued' /\ BlockedAreQueued'
  BY DEF ReadyAreQueued, QueuedThreads, BeingWoken, BlockedAreQueued, InMessageQueue, WaitsForEnd
<1>5. CurrentIsOwn' /\ StatusIsQueue' /\ ClientsRun'
  BY DEF CurrentIsOwn, StatusIsQueue, ClientsRun
<1>6. IdleIsReady'
  BY <1>1, <1>2, ThreadsAssumption DEF IdleIsReady, Threads, Idle
<1>7. EndInOrder'
  BY <1>1, <1>2 DEF EndInOrder
<1>8. WakingIsReady'
  BY <1>1, <1>2 DEF WakingIsReady, EndInOrder, Threads
<1>9. NotYetHappened'
  BY <1>1, <1>2 DEF NotYetHappened
<1> QED BY <1>3, <1>4, <1>5, <1>6, <1>7, <1>8, <1>9

\* A thread that has ended gives up its processor and its own reference.
LEMMA TerminalPreserves ==
  ASSUME IInv, NEW c \in CPU, pc[CurrentKernelThread[c]] \in {"schedule", "scheduleGet"},
         ScheduleTerminal(c), pc' = [pc EXCEPT ![CurrentKernelThread[c]] = "dead"],
         UNCHANGED <<cpuAffinity, lpSuspendedQueue, messageVars, waitVars>>
  PROVE  IInv'
<1> USE DEF IInv, waitVars, messageVars
<1> DEFINE current == CurrentKernelThread[c]
           new == GetScheduleKernelThread(c, 0)
           s == IF refCount[current] = 1 THEN "DESTROYED" ELSE "TERMINAL"
<1>1. /\ dwThreadStatus[current] = "TERMINAL" /\ ReadyLevels(c, 0) # {}
      /\ ThreadQueue' = Fetched(c, 0) /\ panic' = panic
      /\ refCount' = [refCount EXCEPT ![current] = @ - 1]
      /\ lpTerminalQueue' = IF refCount[current] = 1 THEN lpTerminalQueue \ {current}
                            ELSE lpTerminalQueue
      /\ SwitchTo(c, new, AfterDestroy(dwThreadStatus, current))
  BY DEF ScheduleTerminal, DestroyObject
<1>2. current \in Threads /\ AfterDestroy(dwThreadStatus, current) = [dwThreadStatus EXCEPT ![current] = s]
  BY <1>1 DEF AfterDestroy, TypeOK
<1>3. /\ current \in Threads /\ cpuAffinity[current] = c
      /\ new \in Threads /\ new \in QueuedThreads /\ cpuAffinity[new] = c
      /\ dwThreadStatus[new] = "READY" /\ ~BeingWoken(new)
      /\ QueuesHold(Fetched(c, 0), QueuedThreads \ {new}, cpuAffinity)
      /\ CurrentKernelThread' \in [CPU -> Threads]
      /\ CurrentKernelThread'[c] = new
      /\ \A d \in CPU \ {c} : /\ CurrentKernelThread'[d] = CurrentKernelThread[d]
                              /\ CurrentKernelThread[d] # current
                              /\ CurrentKernelThread[d] # new
      /\ dwThreadStatus' \in [Threads -> Statuses]
      /\ dwThreadStatus'[new] = "RUNNING"
      /\ current # new => dwThreadStatus'[current] = s
      /\ \A t \in Threads \ {current, new} : dwThreadStatus'[t] = dwThreadStatus[t]
      /\ CurrentIsOwn'
  <2>1. s \in Statuses \ {"RUNNING"}
    BY DEF Statuses
  <2>2. SwitchTo(c, new, [dwThreadStatus EXCEPT ![current] = s])
    BY <1>1, <1>2
  <2> HIDE DEF s
  <2> QED BY <1>1, <2>1, <2>2, SwitchKeeps
<1>4. /\ refCount[current] \in {1, 2} /\ pc[current] = "schedule"
      /\ lpWaitingQueue[current] = <<>>
  BY <1>1, <1>2 DEF TypeOK, EndInOrder, NotYetHappened
<1>5. /\ refCount' \in [Threads -> {0, 1, 2}]
      /\ refCount'[current] = refCount[current] - 1
      /\ \A t \in Threads \ {current} : refCount'[t] = refCount[t]
  BY <1>1, <1>2, <1>4 DEF TypeOK
<1>6. /\ pc' \in [Threads -> Places] /\ pc'[current] = "dead"
      /\ \A t \in Threads \ {current} : pc'[t] = pc[t]
  BY <1>2 DEF TypeOK, Places
<1> HIDE DEF current, new
<1>7. current # new /\ dwThreadStatus'[current] = s /\ s \in {"DESTROYED", "TERMINAL"}
  BY <1>1, <1>3
<1>8. TypeOK'
  <2>1. lpTerminalQueue' \subseteq Threads
    BY <1>1 DEF TypeOK
  <2> QED BY <1>1, <1>3, <1>5, <1>6, <2>1 DEF TypeOK
<1>9. ReadyAreQueued'
  <2>1. QueuedThreads' = QueuedThreads \ {new}
    BY <1>1, <1>3, <1>7 DEF QueuedThreads, BeingWoken
  <2> QED BY <1>1, <1>3, <2>1 DEF ReadyAreQueued
<1>10. IdleIsReady'
  <2> SUFFICES ASSUME NEW d \in CPU
               PROVE  /\ dwThreadStatus'[IdleKernelThread[d]] \in {"READY", "RUNNING"}
                      /\ pc'[IdleKernelThread[d]] = "run"
    BY DEF IdleIsReady
  <2>1. IdleKernelThread[d] \in Threads /\ pc[IdleKernelThread[d]] = "run"
        /\ dwThreadStatus[IdleKernelThread[d]] \in {"READY", "RUNNING"}
    BY ThreadsAssumption DEF Threads, Idle, IdleIsReady
  <2> QED BY <1>1, <1>3, <1>6, <2>1
<1>11. ClientsRun'
  <2> SUFFICES ASSUME ~panic, NEW d \in CPU, pc'[CurrentKernelThread'[d]] \in {"run", "again"}
               PROVE  dwThreadStatus'[CurrentKernelThread'[d]] = "RUNNING"
    BY <1>1 DEF ClientsRun
  <2>1. CASE d = c
    BY <1>3, <2>1
  <2>2. CASE d # c
    <3>1. /\ CurrentKernelThread'[d] = CurrentKernelThread[d]
          /\ CurrentKernelThread[d] \in Threads \ {current, new}
      BY <1>3, <2>2 DEF TypeOK
    <3>2. /\ pc[CurrentKernelThread[d]] \in {"run", "again"}
          /\ dwThreadStatus'[CurrentKernelThread[d]] = dwThreadStatus[CurrentKernelThread[d]]
      BY <1>3, <1>6, <3>1
    <3> QED BY <3>1, <3>2 DEF ClientsRun
  <2> QED BY <2>1, <2>2
<1>12. StatusIsQueue'
  <2> SUFFICES ASSUME NEW t \in Threads
               PROVE  /\ t \in lpSuspendedQueue <=> dwThreadStatus'[t] = "SUSPENDED"
                      /\ t \in lpTerminalQueue' <=> dwThreadStatus'[t] = "TERMINAL"
    BY DEF StatusIsQueue
  <2>1. CASE t = current
    BY <1>1, <1>7, <2>1 DEF StatusIsQueue
  <2>2. CASE t # current
    BY <1>1, <1>3, <2>2 DEF StatusIsQueue
  <2> QED BY <2>1, <2>2
<1>13. EndInOrder'
  <2> SUFFICES ASSUME NEW t \in Threads
               PROVE  /\ pc'[t] = "wake" => dwThreadStatus'[t] = "TERMINAL"
                      /\ dwThreadStatus'[t] = "TERMINAL" =>
                           pc'[t] \in {"wake", "schedule", "dead"}
                      /\ dwThreadStatus'[t] = "TERMINAL" /\ pc'[t] # "dead" =>
                           CurrentKernelThread'[cpuAffinity[t]] = t
                      /\ pc'[t] = "dead" =>
                           /\ dwThreadStatus'[t] \in {"TERMINAL", "DESTROYED"}
                           /\ CurrentKernelThread'[cpuAffinity[t]] # t
                      /\ dwThreadStatus'[t] = "DESTROYED" <=> refCount'[t] = 0
                      /\ dwThreadStatus'[t] = "DESTROYED" => pc'[t] = "dead"
                      /\ pc'[t] = "dead" => refCount'[t] # 2
    BY DEF EndInOrder
  <2>1. CASE t = current
    BY <1>3, <1>4, <1>5, <1>6, <1>7, <2>1
  <2>2. CASE t = new
    BY <1>3, <1>5, <1>6, <1>7, <2>2 DEF EndInOrder
  <2>3. CASE t \notin {current, new}
    <3>1. /\ dwThreadStatus'[t] = dwThreadStatus[t] /\ pc'[t] = pc[t]
          /\ refCount'[t] = refCount[t] /\ cpuAffinity[t] \in CPU
      BY <1>3, <1>5, <1>6, <2>3 DEF TypeOK
    <3>2. CASE cpuAffinity[t] = c
      <4>1. dwThreadStatus[t] = "TERMINAL" => pc[t] = "dead"
        BY <2>3, <3>2 DEF EndInOrder, current
      <4> QED BY <1>3, <2>3, <3>1, <3>2, <4>1 DEF EndInOrder
    <3>3. CASE cpuAffinity[t] # c
      BY <1>3, <3>1, <3>3 DEF EndInOrder
    <3> QED BY <3>2, <3>3
  <2> QED BY <2>1, <2>2, <2>3
<1>14. WakingIsReady'
  <2> SUFFICES ASSUME NEW u \in Workers, waking[u] # NoThread
               PROVE  pc'[u] = "wake" /\ dwThreadStatus'[waking[u]] = "READY"
    BY DEF WakingIsReady
  <2>1. u \in Threads /\ waking[u] \in Threads /\ BeingWoken(waking[u])
    BY DEF TypeOK, Threads, BeingWoken
  <2>2. pc[u] = "wake" /\ dwThreadStatus[waking[u]] = "READY"
    BY DEF WakingIsReady
  <2>3. waking[u] # new /\ waking[u] # current /\ u # current
    BY <1>1, <1>3, <1>4, <2>1, <2>2
  <2> QED BY <1>3, <1>6, <2>1, <2>2, <2>3
<1>15. BlockedAreQueued'
  <2>1. \A t \in Threads : dwThreadStatus'[t] = "BLOCKED" <=> dwThreadStatus[t] = "BLOCKED"
    BY <1>1, <1>3, <1>7
  <2> QED BY <2>1 DEF BlockedAreQueued, InMessageQueue, WaitsForEnd
<1>16. NotYetHappened'
  BY <1>3, <1>4, <1>6, <1>7 DEF NotYetHappened
<1> QED BY <1>3, <1>8, <1>9, <1>10, <1>11, <1>12, <1>13, <1>14, <1>15, <1>16

LEMMA ScheduleFromProcPreserves ==
  ASSUME IInv, NEW c \in CPU, ScheduleFromProc(c)
  PROVE  IInv'
<1> DEFINE current == CurrentKernelThread[c]
<1> USE DEF messageVars, waitVars, objectVars
<1>1. /\ ~panic /\ pc[current] \in {"schedule", "scheduleGet"}
      /\ UNCHANGED <<cpuAffinity, lpSuspendedQueue, lpMsgWaitingQueue, ucCurrentMsgNum,
                     lpWaitingQueue, waking>>
  BY DEF ScheduleFromProc
<1>2. CASE ScheduleTerminal(c) /\ pc' = [pc EXCEPT ![current] = "dead"]
  BY <1>1, <1>2, TerminalPreserves
<1>3. CASE ScheduleRunning(c) /\ pc' = [pc EXCEPT ![current] = AfterSchedule(current)]
  <2>1. CASE UNCHANGED <<ThreadQueue, CurrentKernelThread, dwThreadStatus>>
    <3>1. /\ current \in Threads /\ dwThreadStatus[current] = "RUNNING"
          /\ AfterSchedule(current) \in {"run", "again", "schedule"}
          /\ \A d \in CPU : IdleKernelThread[d] # current
      BY <1>1, <1>3 DEF IInv, TypeOK, ScheduleRunning, AfterSchedule, IdleIsReady
    <3>2. UNCHANGED <<panic, objectVars>>
      BY <1>3 DEF ScheduleRunning
    <3> HIDE DEF current
    <3>3. /\ ReadyAreQueued' /\ CurrentIsOwn' /\ IdleIsReady' /\ ClientsRun'
          /\ StatusIsQueue' /\ EndInOrder' /\ WakingIsReady'
          /\ pc' \in [Threads -> Places]
          /\ \A x \in Threads : dwThreadStatus[x] = "TERMINAL" => pc'[x] = pc[x]
      BY <1>1, <1>3, <2>1, <3>1, <3>2, RunningGoesOn
    <3>4. TypeOK'
      BY <1>1, <2>1, <3>2, <3>3 DEF IInv, TypeOK
    <3>5. BlockedAreQueued' /\ NotYetHappened'
      BY <1>1, <2>1, <3>3
      DEF IInv, BlockedAreQueued, InMessageQueue, WaitsForEnd, NotYetHappened
    <3> QED BY <3>3, <3>4, <3>5 DEF IInv
  <2>2. CASE Preempt(c)
    <3>1. "READY" \in {"READY", "BLOCKED", "SUSPENDED"}
      OBVIOUS
    <3> QED BY <1>1, <1>3, <2>2, <3>1, SwitchPreserves DEF ScheduleRunning, Preempt
  <2> QED BY <1>3, <2>1, <2>2 DEF ScheduleRunning
<1>4. CASE ScheduleReady(c) /\ pc' = [pc EXCEPT ![current] = AfterSchedule(current)]
  <2> DEFINE lowest == Priority[current]
  <2>1. dwThreadStatus[current] = "READY" /\ UNCHANGED objectVars
    BY <1>4 DEF ScheduleReady
  <2>2. CASE ReadyLevels(c, lowest) = {}
    <3>1. panic' = TRUE /\ UNCHANGED <<ThreadQueue, CurrentKernelThread, dwThreadStatus>>
      BY <1>4, <2>2 DEF ScheduleReady
    <3> QED BY <1>1, <1>4, <2>1, <3>1, StopPreserves
  <2>3. CASE ReadyLevels(c, lowest) # {}
    <3>1. /\ ThreadQueue' = Fetched(c, lowest) /\ UNCHANGED panic
          /\ SwitchTo(c, GetScheduleKernelThread(c, lowest), dwThreadStatus)
      BY <1>4, <2>3 DEF ScheduleReady
    <3>2. dwThreadStatus = [dwThreadStatus EXCEPT ![current] = "READY"]
      BY <2>1 DEF IInv, TypeOK
    <3>3. "READY" \in {"READY", "BLOCKED", "SUSPENDED"}
      OBVIOUS
    <3> QED BY <1>1, <1>4, <2>1, <2>3, <3>1, <3>2, <3>3, SwitchPreserves
  <2> QED BY <2>2, <2>3
<1>5. CASE ScheduleWaiting(c) /\ pc' = [pc EXCEPT ![current] = AfterSchedule(current)]
  <2> DEFINE s == dwThreadStatus[current]
  <2>1. s \in {"BLOCKED", "SUSPENDED"} /\ SwapOut(c) /\ UNCHANGED objectVars
    BY <1>5 DEF ScheduleWaiting
  <2>2. ReadyLevels(c, 0) # {}
    BY <2>1, IdleToTheRescue
  <2>3. /\ ThreadQueue' = Fetched(c, 0) /\ UNCHANGED panic
        /\ SwitchTo(c, GetScheduleKernelThread(c, 0), dwThreadStatus)
    BY <2>1, <2>2 DEF SwapOut
  <2>4. dwThreadStatus = [dwThreadStatus EXCEPT ![current] = s]
    BY DEF IInv, TypeOK
  <2> QED BY <1>1, <1>5, <2>1, <2>2, <2>3, <2>4, SwitchPreserves
<1> QED BY <1>2, <1>3, <1>4, <1>5 DEF ScheduleFromProc

LEMMA ScheduleFromIntPreserves ==
  ASSUME IInv, NEW c \in CPU, ScheduleFromInt(c)
  PROVE  IInv'
<1> DEFINE current == CurrentKernelThread[c]
<1> USE DEF messageVars, waitVars, objectVars
<1>1. UNCHANGED <<cpuAffinity, lpSuspendedQueue, pc, lpMsgWaitingQueue, ucCurrentMsgNum,
                  lpWaitingQueue, waking, lpTerminalQueue, refCount>>
  BY DEF ScheduleFromInt
<1>2. CASE dwThreadStatus[current] = "SUSPENDED" /\ SwapOut(c)
  <2>1. ReadyLevels(c, 0) # {}
    BY <1>2, IdleToTheRescue
  <2>2. /\ ThreadQueue' = Fetched(c, 0) /\ UNCHANGED panic
        /\ SwitchTo(c, GetScheduleKernelThread(c, 0), dwThreadStatus)
    BY <1>2, <2>1 DEF SwapOut
  <2>3. dwThreadStatus = [dwThreadStatus EXCEPT ![current] = "SUSPENDED"]
    BY <1>2 DEF IInv, TypeOK
  <2>4. "SUSPENDED" \in {"READY", "BLOCKED", "SUSPENDED"}
    OBVIOUS
  <2> QED BY <1>1, <1>2, <2>1, <2>2, <2>3, <2>4, SwitchPreserves
<1>3. CASE dwThreadStatus[current] = "RUNNING" /\ Preempt(c) /\ UNCHANGED panic
  <2>1. "READY" \in {"READY", "BLOCKED", "SUSPENDED"}
    OBVIOUS
  <2> QED BY <1>1, <1>3, <2>1, SwitchPreserves DEF Preempt
<1> QED BY <1>2, <1>3 DEF ScheduleFromInt

-----------------------------------------------------------------------------
(* Threads that stop running and threads that are made ready.               *)

\* A running thread suspends itself, blocks or ends: it keeps its processor
\* until it is scheduled, and is in no ready queue.
LEMMA StopsRunning ==
  ASSUME IInv, ~panic, NEW t \in Workers, Current(t), pc[t] \in {"run", "again"},
         NEW s \in {"SUSPENDED", "BLOCKED", "TERMINAL"}, NEW place,
         IF s = "TERMINAL" THEN place = "wake" ELSE place \in {"schedule", "scheduleGet"},
         dwThreadStatus' = [dwThreadStatus EXCEPT ![t] = s],
         pc' = [pc EXCEPT ![t] = place],
         UNCHANGED <<cpuAffinity, ThreadQueue, CurrentKernelThread, refCount, waking, panic>>
  PROVE  /\ ReadyAreQueued' /\ CurrentIsOwn' /\ IdleIsReady' /\ ClientsRun'
         /\ EndInOrder' /\ WakingIsReady'
         /\ t \in Threads /\ dwThreadStatus[t] = "RUNNING"
         /\ dwThreadStatus' \in [Threads -> Statuses] /\ dwThreadStatus'[t] = s
         /\ pc' \in [Threads -> Places] /\ pc'[t] = place
         /\ \A x \in Threads \ {t} : dwThreadStatus'[x] = dwThreadStatus[x] /\ pc'[x] = pc[x]
<1>1. /\ t \in Threads /\ dwThreadStatus[t] = "RUNNING"
      /\ CurrentKernelThread[cpuAffinity[t]] = t
      /\ t \notin QueuedThreads /\ ~BeingWoken(t)
      /\ \A c \in CPU : IdleKernelThread[c] # t
  BY ClientThread
<1> USE DEF IInv
<1>2. /\ dwThreadStatus' \in [Threads -> Statuses] /\ dwThreadStatus'[t] = s
      /\ pc' \in [Threads -> Places] /\ pc'[t] = place
      /\ \A x \in Threads \ {t} : dwThreadStatus'[x] = dwThreadStatus[x] /\ pc'[x] = pc[x]
  BY <1>1 DEF TypeOK, Places, Statuses
<1>3. ReadyAreQueued'
  <2>1. QueuedThreads' = QueuedThreads
    BY <1>1, <1>2 DEF QueuedThreads, BeingWoken
  <2> QED BY <2>1 DEF ReadyAreQueued
<1>4. CurrentIsOwn'
  BY <1>2 DEF CurrentIsOwn
<1>5. IdleIsReady'
  BY <1>1, <1>2, ThreadsAssumption DEF IdleIsReady, Threads, Idle
<1>6. ClientsRun'
  BY <1>2 DEF ClientsRun, TypeOK
<1>7. EndInOrder'
  BY <1>1, <1>2 DEF EndInOrder
<1>8. WakingIsReady'
  <2> SUFFICES ASSUME NEW u \in Workers, waking[u] # NoThread
               PROVE  pc'[u] = "wake" /\ dwThreadStatus'[waking[u]] = "READY"
    BY DEF WakingIsReady
  <2>1. u \in Threads /\ waking[u] \in Threads /\ BeingWoken(waking[u])
    BY DEF TypeOK, Threads, BeingWoken
  <2>2. pc[u] = "wake" /\ dwThreadStatus[waking[u]] = "READY"
    BY DEF WakingIsReady
  <2> QED BY <1>1, <1>2, <2>1, <2>2
<1> QED BY <1>1, <1>2, <1>3, <1>4, <1>5, <1>6, <1>7, <1>8

\* AddReadyKernelThread for a thread that waited: the ready queues do not hold
\* it yet, so its BUG_ON is not reached.
LEMMA MadeReady ==
  ASSUME IInv, ~panic, NEW u \in Threads, dwThreadStatus[u] \in {"SUSPENDED", "BLOCKED"},
         dwThreadStatus' = [dwThreadStatus EXCEPT ![u] = "READY"],
         panic' = InReadyQueue(u), ThreadQueue' = AddReady(ThreadQueue, u),
         pc' = pc \/ \E t \in Workers : Runs(t) /\ Reschedules(t),
         UNCHANGED <<cpuAffinity, CurrentKernelThread, objectVars, waitVars>>
  PROVE  /\ ReadyAreQueued' /\ CurrentIsOwn' /\ IdleIsReady' /\ ClientsRun'
         /\ EndInOrder' /\ WakingIsReady'
         /\ panic' = FALSE
         /\ dwThreadStatus' \in [Threads -> Statuses] /\ dwThreadStatus'[u] = "READY"
         /\ \A x \in Threads \ {u} : dwThreadStatus'[x] = dwThreadStatus[x]
         /\ pc' \in [Threads -> Places]
         /\ \A x \in Threads : dwThreadStatus[x] = "TERMINAL" => pc'[x] = pc[x]
<1> USE DEF objectVars, waitVars
<1>1. /\ pc' \in [Threads -> Places]
      /\ \A x \in Threads :
           \/ pc'[x] = pc[x]
           \/ /\ pc'[x] = "schedule" /\ pc[x] = "run" /\ dwThreadStatus[x] = "RUNNING"
              /\ \A c \in CPU : IdleKernelThread[c] # x
  <2>1. CASE pc' = pc
    BY <2>1 DEF IInv, TypeOK
  <2>2. CASE \E t \in Workers : Runs(t) /\ Reschedules(t)
    <3>1. PICK t \in Workers : Runs(t) /\ Reschedules(t)
      BY <2>2
    <3>2. /\ t \in Threads /\ dwThreadStatus[t] = "RUNNING" /\ pc[t] = "run"
          /\ \A c \in CPU : IdleKernelThread[c] # t
      BY <3>1, ClientThread DEF Runs
    <3> QED BY <3>1, <3>2 DEF Reschedules, IInv, TypeOK, Places
  <2> QED BY <2>1, <2>2
<1>2. ~BeingWoken(u) /\ u \notin QueuedThreads
  BY WokenIsReady DEF QueuedThreads
<1> USE DEF IInv
<1>3. QueuesHold(ThreadQueue, QueuedThreads, cpuAffinity)
  BY DEF ReadyAreQueued
<1>4. panic' = FALSE
  BY <1>2, <1>3 DEF InReadyQueue, QueuesHold
<1>5. /\ dwThreadStatus' \in [Threads -> Statuses] /\ dwThreadStatus'[u] = "READY"
      /\ \A x \in Threads \ {u} : dwThreadStatus'[x] = dwThreadStatus[x]
  BY DEF TypeOK, Statuses
<1>6. ReadyAreQueued'
  <2>1. QueuedThreads' = QueuedThreads \union {u}
    BY <1>2, <1>5 DEF QueuedThreads, BeingWoken
  <2>2. QueuesHold([ThreadQueue EXCEPT ![cpuAffinity[u]][Priority[u]] = Append(@, u)],
                   QueuedThreads \union {u}, cpuAffinity)
    BY <1>2, <1>3, AddHolds DEF TypeOK
  <2> QED BY <2>1, <2>2 DEF ReadyAreQueued, AddReady
<1>7. CurrentIsOwn'
  BY <1>5 DEF CurrentIsOwn
<1>8. IdleIsReady'
  <2> SUFFICES ASSUME NEW d \in CPU
               PROVE  /\ dwThreadStatus'[IdleKernelThread[d]] \in {"READY", "RUNNING"}
                      /\ pc'[IdleKernelThread[d]] = "run"
    BY DEF IdleIsReady
  <2>1. IdleKernelThread[d] \in Threads
    BY ThreadsAssumption DEF Threads, Idle
  <2> QED BY <1>1, <1>5, <2>1 DEF IdleIsReady
<1>9. ClientsRun'
  BY <1>1, <1>5 DEF ClientsRun, TypeOK
<1>10. EndInOrder'
  BY <1>1, <1>5 DEF EndInOrder
<1>11. WakingIsReady'
  <2> SUFFICES ASSUME NEW v \in Workers, waking[v] # NoThread
               PROVE  pc'[v] = "wake" /\ dwThreadStatus'[waking[v]] = "READY"
    BY DEF WakingIsReady
  <2>1. v \in Threads /\ waking[v] \in Threads
    BY DEF TypeOK, Threads
  <2>2. pc[v] = "wake" /\ dwThreadStatus[waking[v]] = "READY"
    BY DEF WakingIsReady
  <2> QED BY <1>1, <1>5, <2>1, <2>2
<1>12. \A x \in Threads : dwThreadStatus[x] = "TERMINAL" => pc'[x] = pc[x]
  BY <1>1
<1> QED BY <1>1, <1>4, <1>5, <1>6, <1>7, <1>8, <1>9, <1>10, <1>11, <1>12

-----------------------------------------------------------------------------
(* The operations of clients.                                               *)

LEMMA SuspendPreserves ==
  ASSUME IInv, NEW t \in Workers, kSuspendKernelThread(t)
  PROVE  IInv'
<1> USE DEF objectVars, messageVars, waitVars
<1>1. /\ ~panic /\ Current(t) /\ pc[t] \in {"run", "again"}
      /\ dwThreadStatus' = [dwThreadStatus EXCEPT ![t] = "SUSPENDED"]
      /\ lpSuspendedQueue' = lpSuspendedQueue \union {t}
      /\ pc' = [pc EXCEPT ![t] = "schedule"]
      /\ UNCHANGED <<cpuAffinity, ThreadQueue, CurrentKernelThread, panic, lpTerminalQueue,
                     refCount, lpMsgWaitingQueue, ucCurrentMsgNum, lpWaitingQueue, waking>>
  BY DEF kSuspendKernelThread, Runs, Reschedules
<1> DEFINE s == "SUSPENDED"
           place == "schedule"
<1>2. /\ s \in {"SUSPENDED", "BLOCKED", "TERMINAL"}
      /\ IF s = "TERMINAL" THEN place = "wake" ELSE place \in {"schedule", "scheduleGet"}
  OBVIOUS
<1>3. /\ ReadyAreQueued' /\ CurrentIsOwn' /\ IdleIsReady' /\ ClientsRun'
      /\ EndInOrder' /\ WakingIsReady'
      /\ t \in Threads /\ dwThreadStatus[t] = "RUNNING"
      /\ dwThreadStatus' \in [Threads -> Statuses] /\ dwThreadStatus'[t] = s
      /\ pc' \in [Threads -> Places] /\ pc'[t] = place
      /\ \A x \in Threads \ {t} : dwThreadStatus'[x] = dwThreadStatus[x] /\ pc'[x] = pc[x]
  BY <1>1, <1>2, StopsRunning
<1> USE DEF IInv
<1>4. TypeOK'
  BY <1>1, <1>3 DEF TypeOK
<1>5. StatusIsQueue'
  BY <1>1, <1>3 DEF StatusIsQueue
<1>6. BlockedAreQueued'
  BY <1>1, <1>3 DEF BlockedAreQueued, InMessageQueue, WaitsForEnd
<1>7. NotYetHappened'
  BY <1>1, <1>3 DEF NotYetHappened
<1> QED BY <1>3, <1>4, <1>5, <1>6, <1>7

LEMMA CleanPreserves ==
  ASSUME IInv, NEW t \in Workers, KernelThreadClean(t)
  PROVE  IInv'
<1> USE DEF messageVars, waitVars
<1>1. /\ ~panic /\ Current(t) /\ pc[t] \in {"run", "again"}
      /\ dwThreadStatus' = [dwThreadStatus EXCEPT ![t] = "TERMINAL"]
      /\ lpTerminalQueue' = lpTerminalQueue \union {t}
      /\ pc' = [pc EXCEPT ![t] = "wake"]
      /\ UNCHANGED <<cpuAffinity, ThreadQueue, CurrentKernelThread, panic, lpSuspendedQueue,
                     refCount, lpMsgWaitingQueue, ucCurrentMsgNum, lpWaitingQueue, waking>>
  BY DEF KernelThreadClean, Runs
<1> DEFINE s == "TERMINAL"
           place == "wake"
<1>2. /\ s \in {"SUSPENDED", "BLOCKED", "TERMINAL"}
      /\ IF s = "TERMINAL" THEN place = "wake" ELSE place \in {"schedule", "scheduleGet"}
  OBVIOUS
<1>3. /\ ReadyAreQueued' /\ CurrentIsOwn' /\ IdleIsReady' /\ ClientsRun'
      /\ EndInOrder' /\ WakingIsReady'
      /\ t \in Threads /\ dwThreadStatus[t] = "RUNNING"
      /\ dwThreadStatus' \in [Threads -> Statuses] /\ dwThreadStatus'[t] = s
      /\ pc' \in [Threads -> Places] /\ pc'[t] = place
      /\ \A x \in Threads \ {t} : dwThreadStatus'[x] = dwThreadStatus[x] /\ pc'[x] = pc[x]
  BY <1>1, <1>2, StopsRunning
<1> USE DEF IInv
<1>4. TypeOK'
  BY <1>1, <1>3 DEF TypeOK
<1>5. StatusIsQueue'
  BY <1>1, <1>3 DEF StatusIsQueue
<1>6. BlockedAreQueued'
  BY <1>1, <1>3 DEF BlockedAreQueued, InMessageQueue, WaitsForEnd
<1>7. NotYetHappened'
  BY <1>1, <1>3 DEF NotYetHappened
<1> QED BY <1>3, <1>4, <1>5, <1>6, <1>7

LEMMA GetMessagePreserves ==
  ASSUME IInv, NEW t \in Workers, GetMessage(t)
  PROVE  IInv'
<1> USE DEF objectVars, waitVars
<1>1. /\ ~panic /\ Current(t) /\ pc[t] \in {"run", "again"}
      /\ UNCHANGED <<cpuAffinity, ThreadQueue, CurrentKernelThread, lpSuspendedQueue, panic,
                     lpTerminalQueue, refCount, lpWaitingQueue, waking>>
  BY DEF GetMessage
<1>2. /\ t \in Threads /\ dwThreadStatus[t] = "RUNNING"
      /\ \A c \in CPU : IdleKernelThread[c] # t
  BY <1>1, ClientThread
<1> USE DEF IInv
<1>3. CASE /\ ucCurrentMsgNum[t] = 0
           /\ dwThreadStatus' = [dwThreadStatus EXCEPT ![t] = "BLOCKED"]
           /\ lpMsgWaitingQueue' = [lpMsgWaitingQueue EXCEPT ![t] = Append(@, t)]
           /\ pc' = [pc EXCEPT ![t] = "scheduleGet"]
           /\ UNCHANGED ucCurrentMsgNum
  <2> DEFINE s == "BLOCKED"
             place == "scheduleGet"
             q == lpMsgWaitingQueue[t]
  <2>1. /\ s \in {"SUSPENDED", "BLOCKED", "TERMINAL"}
        /\ IF s = "TERMINAL" THEN place = "wake" ELSE place \in {"schedule", "scheduleGet"}
    OBVIOUS
  <2>2. /\ ReadyAreQueued' /\ CurrentIsOwn' /\ IdleIsReady' /\ ClientsRun'
        /\ EndInOrder' /\ WakingIsReady'
        /\ t \in Threads /\ dwThreadStatus[t] = "RUNNING"
        /\ dwThreadStatus' \in [Threads -> Statuses] /\ dwThreadStatus'[t] = s
        /\ pc' \in [Threads -> Places] /\ pc'[t] = place
        /\ \A x \in Threads \ {t} : dwThreadStatus'[x] = dwThreadStatus[x] /\ pc'[x] = pc[x]
    BY <1>1, <1>3, <2>1, StopsRunning
  <2>3. /\ q \in Seq(Workers) /\ IsInjective(q) /\ ~ObjectInQueue(q, t)
        /\ \A u \in Threads : ~WaitsForEnd(t, u)
    BY <2>2 DEF TypeOK, BlockedAreQueued
  <2>4. /\ Append(q, t) \in Seq(Workers) /\ IsInjective(Append(q, t))
        /\ \A y : ObjectInQueue(Append(q, t), y) <=> ObjectInQueue(q, y) \/ y = t
    <3> HIDE DEF q
    <3> QED BY <2>3, AppendKeeps
  <2>5. /\ lpMsgWaitingQueue' \in [Threads -> Seq(Workers)]
        /\ lpMsgWaitingQueue'[t] = Append(q, t)
        /\ \A x \in Threads \ {t} : lpMsgWaitingQueue'[x] = lpMsgWaitingQueue[x]
    BY <1>3, <2>2, <2>4 DEF TypeOK
  <2> HIDE DEF q
  <2>6. TypeOK'
    BY <1>1, <1>3, <2>2, <2>5 DEF TypeOK
  <2>7. StatusIsQueue'
    BY <1>1, <2>2 DEF StatusIsQueue
  <2>8. BlockedAreQueued'
    <3>1. \A x, y \in Threads :
            ObjectInQueue(lpMsgWaitingQueue'[x], y)
              <=> ObjectInQueue(lpMsgWaitingQueue[x], y) \/ (x = t /\ y = t)
      BY <2>4, <2>5 DEF q
    <3>2. \A x \in Threads : IsInjective(lpMsgWaitingQueue'[x])
      BY <2>4, <2>5 DEF BlockedAreQueued
    <3>3. \A x, y \in Threads : WaitsForEnd(x, y)' <=> WaitsForEnd(x, y)
      BY <1>1 DEF WaitsForEnd
    <3>4. \A x \in Threads : dwThreadStatus'[x] = "BLOCKED" <=>
            dwThreadStatus[x] = "BLOCKED" \/ x = t
      BY <2>2
    <3>5. \A x \in Threads : InMessageQueue(x)' <=> InMessageQueue(x) \/ x = t
      BY <3>1 DEF InMessageQueue
    <3>6. ASSUME NEW x \in Threads, NEW y \in Threads
          PROVE  /\ ObjectInQueue(lpMsgWaitingQueue'[y], x) => x = y /\ dwThreadStatus'[x] = "BLOCKED"
                 /\ WaitsForEnd(x, y)' =>
                      /\ dwThreadStatus'[x] = "BLOCKED" /\ ~InMessageQueue(x)' /\ y \in Workers
                      /\ \A v \in Threads : WaitsForEnd(x, v)' => v = y
      BY <2>3, <3>1, <3>3, <3>4, <3>5 DEF BlockedAreQueued
    <3>7. ASSUME NEW x \in Threads, dwThreadStatus'[x] = "BLOCKED"
          PROVE  InMessageQueue(x)' \/ \E y \in Workers : WaitsForEnd(x, y)'
      BY <3>3, <3>4, <3>5, <3>7 DEF BlockedAreQueued, Threads
    <3>8. \A x \in Threads : IsInjective(lpWaitingQueue'[x])
      BY <1>1 DEF BlockedAreQueued
    <3> QED BY <3>2, <3>6, <3>7, <3>8 DEF BlockedAreQueued
  <2>9. NotYetHappened'
    BY <1>1, <1>3, <2>2, <2>5 DEF NotYetHappened
  <2> QED BY <2>2, <2>6, <2>7, <2>8, <2>9
<1>4. CASE /\ ucCurrentMsgNum[t] > 0
           /\ ucCurrentMsgNum' = [ucCurrentMsgNum EXCEPT ![t] = @ - 1]
           /\ pc' = [pc EXCEPT ![t] = "run"]
           /\ UNCHANGED <<dwThreadStatus, lpMsgWaitingQueue>>
  <2> DEFINE place == "run"
  <2>1. place \in {"run", "again", "schedule"}
    OBVIOUS
  <2>2. /\ ReadyAreQueued' /\ CurrentIsOwn' /\ IdleIsReady' /\ ClientsRun'
        /\ StatusIsQueue' /\ EndInOrder' /\ WakingIsReady'
        /\ pc' \in [Threads -> Places]
        /\ \A x \in Threads : dwThreadStatus[x] = "TERMINAL" => pc'[x] = pc[x]
    BY <1>1, <1>2, <1>4, <2>1, RunningGoesOn
  <2>3. /\ ucCurrentMsgNum' \in [Threads -> Nat]
        /\ \A x \in Threads : ucCurrentMsgNum[x] = 0 => ucCurrentMsgNum'[x] = 0
    BY <1>2, <1>4 DEF TypeOK
  <2>4. TypeOK'
    BY <1>1, <1>4, <2>2, <2>3 DEF TypeOK
  <2>5. BlockedAreQueued'
    BY <1>1, <1>4 DEF BlockedAreQueued, InMessageQueue, WaitsForEnd
  <2>6. NotYetHappened'
    BY <1>1, <1>4, <2>2, <2>3 DEF NotYetHappened
  <2> QED BY <2>2, <2>4, <2>5, <2>6
<1> QED BY <1>3, <1>4 DEF GetMessage

LEMMA WaitPreserves ==
  ASSUME IInv, NEW t \in Workers, NEW u \in Workers, WaitForKernelThreadObject(t, u)
  PROVE  IInv'
<1> USE DEF objectVars, messageVars
<1> DEFINE s == "BLOCKED"
           place == "schedule"
           q == lpWaitingQueue[u]
<1>1. /\ ~panic /\ Current(t) /\ pc[t] \in {"run", "again"} /\ t # u
      /\ HandleOpen(u) /\ dwThreadStatus[u] # "TERMINAL"
      /\ dwThreadStatus' = [dwThreadStatus EXCEPT ![t] = s]
      /\ lpWaitingQueue' = [lpWaitingQueue EXCEPT ![u] = Append(@, t)]
      /\ pc' = [pc EXCEPT ![t] = place]
      /\ UNCHANGED <<cpuAffinity, ThreadQueue, CurrentKernelThread, lpSuspendedQueue, panic,
                     lpTerminalQueue, refCount, lpMsgWaitingQueue, ucCurrentMsgNum, waking>>
  BY DEF WaitForKernelThreadObject, Runs, Reschedules, HasEnded
<1>2. /\ s \in {"SUSPENDED", "BLOCKED", "TERMINAL"}
      /\ IF s = "TERMINAL" THEN place = "wake" ELSE place \in {"schedule", "scheduleGet"}
  OBVIOUS
<1>3. /\ ReadyAreQueued' /\ CurrentIsOwn' /\ IdleIsReady' /\ ClientsRun'
      /\ EndInOrder' /\ WakingIsReady'
      /\ t \in Threads /\ dwThreadStatus[t] = "RUNNING"
      /\ dwThreadStatus' \in [Threads -> Statuses] /\ dwThreadStatus'[t] = s
      /\ pc' \in [Threads -> Places] /\ pc'[t] = place
      /\ \A x \in Threads \ {t} : dwThreadStatus'[x] = dwThreadStatus[x] /\ pc'[x] = pc[x]
  BY <1>1, <1>2, StopsRunning
<1> USE DEF IInv
<1>4. u \in Threads /\ dwThreadStatus[u] # "DESTROYED"
  BY <1>1 DEF HandleOpen, EndInOrder, Threads
<1>5. /\ q \in Seq(Workers) /\ IsInjective(q) /\ ~ObjectInQueue(q, t)
      /\ ~InMessageQueue(t) /\ \A x \in Threads : ~WaitsForEnd(t, x)
  BY <1>3, <1>4 DEF TypeOK, BlockedAreQueued, WaitsForEnd, InMessageQueue
<1>6. /\ Append(q, t) \in Seq(Workers) /\ IsInjective(Append(q, t))
      /\ \A y : ObjectInQueue(Append(q, t), y) <=> ObjectInQueue(q, y) \/ y = t
  <2> HIDE DEF q
  <2> QED BY <1>5, AppendKeeps
<1>7. /\ lpWaitingQueue' \in [Threads -> Seq(Workers)]
      /\ lpWaitingQueue'[u] = Append(q, t)
      /\ \A x \in Threads \ {u} : lpWaitingQueue'[x] = lpWaitingQueue[x]
  BY <1>1, <1>4, <1>6 DEF TypeOK
<1> HIDE DEF q
<1>8. TypeOK'
  BY <1>1, <1>3, <1>7 DEF TypeOK
<1>9. StatusIsQueue'
  BY <1>1, <1>3 DEF StatusIsQueue
<1>10. BlockedAreQueued'
  <2>1. \A x, y \in Threads : WaitsForEnd(y, x)' <=> WaitsForEnd(y, x) \/ (x = u /\ y = t)
    BY <1>6, <1>7 DEF q, WaitsForEnd
  <2>2. \A x \in Threads : IsInjective(lpWaitingQueue'[x])
    BY <1>6, <1>7 DEF BlockedAreQueued
  <2>3. /\ \A x \in Threads : InMessageQueue(x)' <=> InMessageQueue(x)
        /\ \A x, y \in Threads : ObjectInQueue(lpMsgWaitingQueue'[x], y)
                                   <=> ObjectInQueue(lpMsgWaitingQueue[x], y)
    BY <1>1 DEF InMessageQueue
  <2>4. \A x \in Threads : dwThreadStatus'[x] = "BLOCKED" <=>
          dwThreadStatus[x] = "BLOCKED" \/ x = t
    BY <1>3
  <2>5. ASSUME NEW x \in Threads, NEW y \in Threads
        PROVE  /\ ObjectInQueue(lpMsgWaitingQueue'[y], x) => x = y /\ dwThreadStatus'[x] = "BLOCKED"
               /\ WaitsForEnd(x, y)' =>
                    /\ dwThreadStatus'[x] = "BLOCKED" /\ ~InMessageQueue(x)' /\ y \in Workers
                    /\ \A v \in Threads : WaitsForEnd(x, v)' => v = y
    BY <1>5, <2>1, <2>3, <2>4 DEF BlockedAreQueued
  <2>6. ASSUME NEW x \in Threads, dwThreadStatus'[x] = "BLOCKED"
        PROVE  InMessageQueue(x)' \/ \E y \in Workers : WaitsForEnd(x, y)'
    BY <1>4, <2>1, <2>3, <2>4, <2>6 DEF BlockedAreQueued, Threads
  <2>7. \A x \in Threads : IsInjective(lpMsgWaitingQueue'[x])
    BY <1>1 DEF BlockedAreQueued
  <2> QED BY <2>2, <2>5, <2>6, <2>7 DEF BlockedAreQueued
<1>11. NotYetHappened'
  BY <1>1, <1>3, <1>4, <1>7 DEF NotYetHappened
<1> QED BY <1>3, <1>8, <1>9, <1>10, <1>11

LEMMA ResumePreserves ==
  ASSUME IInv, NEW t \in Workers, NEW u \in Workers, kResumeKernelThread(t, u)
  PROVE  IInv'
<1> USE DEF objectVars, messageVars, waitVars
<1>1. /\ ~panic /\ Current(t) /\ pc[t] = "run" /\ Runs(t) /\ Reschedules(t)
      /\ UNCHANGED <<cpuAffinity, CurrentKernelThread, lpTerminalQueue, refCount,
                     lpMsgWaitingQueue, ucCurrentMsgNum, lpWaitingQueue, waking>>
  BY DEF kResumeKernelThread, Runs
<1>2. CASE dwThreadStatus[u] = "SUSPENDED"
  <2>1. /\ lpSuspendedQueue' = lpSuspendedQueue \ {u}
        /\ dwThreadStatus' = [dwThreadStatus EXCEPT ![u] = "READY"]
        /\ panic' = InReadyQueue(u) /\ ThreadQueue' = AddReady(ThreadQueue, u)
    BY <1>2 DEF kResumeKernelThread
  <2>2. u \in Threads
    BY DEF Threads
  <2>3. /\ ReadyAreQueued' /\ CurrentIsOwn' /\ IdleIsReady' /\ ClientsRun'
        /\ EndInOrder' /\ WakingIsReady'
        /\ panic' = FALSE
        /\ dwThreadStatus' \in [Threads -> Statuses] /\ dwThreadStatus'[u] = "READY"
        /\ \A x \in Threads \ {u} : dwThreadStatus'[x] = dwThreadStatus[x]
        /\ pc' \in [Threads -> Places]
        /\ \A x \in Threads : dwThreadStatus[x] = "TERMINAL" => pc'[x] = pc[x]
    BY <1>1, <1>2, <2>1, <2>2, MadeReady
  <2> USE DEF IInv
  <2>4. TypeOK'
    BY <1>1, <2>1, <2>3 DEF TypeOK
  <2>5. StatusIsQueue'
    BY <1>1, <1>2, <2>1, <2>3 DEF StatusIsQueue
  <2>6. BlockedAreQueued'
    <3>1. \A x \in Threads : dwThreadStatus'[x] = "BLOCKED" <=> dwThreadStatus[x] = "BLOCKED"
      BY <1>2, <2>2, <2>3
    <3> QED BY <1>1, <3>1 DEF BlockedAreQueued, InMessageQueue, WaitsForEnd
  <2>7. NotYetHappened'
    BY <1>1, <2>3 DEF NotYetHappened
  <2> QED BY <2>3, <2>4, <2>5, <2>6, <2>7
<1>3. CASE dwThreadStatus[u] # "SUSPENDED"
  <2>1. UNCHANGED <<lpSuspendedQueue, dwThreadStatus, panic, ThreadQueue>>
    BY <1>3 DEF kResumeKernelThread
  <2> DEFINE place == "schedule"
  <2>2. /\ t \in Threads /\ dwThreadStatus[t] = "RUNNING"
        /\ \A c \in CPU : IdleKernelThread[c] # t
    BY <1>1, ClientThread
  <2>3. /\ place \in {"run", "again", "schedule"} /\ pc' = [pc EXCEPT ![t] = place]
    BY <1>1 DEF Reschedules
  <2>4. /\ ReadyAreQueued' /\ CurrentIsOwn' /\ IdleIsReady' /\ ClientsRun'
        /\ StatusIsQueue' /\ EndInOrder' /\ WakingIsReady'
        /\ pc' \in [Threads -> Places]
        /\ \A x \in Threads : dwThreadStatus[x] = "TERMINAL" => pc'[x] = pc[x]
    BY <1>1, <2>1, <2>2, <2>3, RunningGoesOn
  <2> USE DEF IInv
  <2>5. TypeOK'
    BY <1>1, <2>1, <2>4 DEF TypeOK
  <2>6. BlockedAreQueued'
    BY <1>1, <2>1 DEF BlockedAreQueued, InMessageQueue, WaitsForEnd
  <2>7. NotYetHappened'
    BY <1>1, <2>1, <2>4 DEF NotYetHappened
  <2> QED BY <2>4, <2>5, <2>6, <2>7
<1> QED BY <1>2, <1>3

\* A message comes from a thread or from a timer.
LEMMA PutMessagePreserves ==
  ASSUME IInv, ~panic, NEW u \in Workers, PutMessage(u),
         pc' = pc \/ \E t \in Workers : Runs(t) /\ Reschedules(t)
  PROVE  IInv'
<1> USE DEF objectVars, waitVars
<1>1. /\ ucCurrentMsgNum' = [ucCurrentMsgNum EXCEPT ![u] = @ + 1] /\ WakeReceiver(u)
      /\ UNCHANGED <<cpuAffinity, CurrentKernelThread, lpSuspendedQueue, lpTerminalQueue,
                     refCount, lpWaitingQueue, waking>>
  BY DEF PutMessage
<1>2. u \in Threads
  BY DEF Threads
<1>3. /\ ucCurrentMsgNum' \in [Threads -> Nat]
      /\ \A x \in Threads \ {u} : ucCurrentMsgNum'[x] = ucCurrentMsgNum[x]
  BY <1>1, <1>2 DEF IInv, TypeOK
<1>4. CASE lpMsgWaitingQueue[u] = <<>>
  <2>1. UNCHANGED <<lpMsgWaitingQueue, dwThreadStatus, ThreadQueue, panic>>
    BY <1>1, <1>4 DEF WakeReceiver
  <2>2. /\ ReadyAreQueued' /\ CurrentIsOwn' /\ IdleIsReady' /\ ClientsRun'
        /\ StatusIsQueue' /\ EndInOrder' /\ WakingIsReady'
        /\ pc' \in [Threads -> Places]
        /\ \A x \in Threads : dwThreadStatus[x] = "TERMINAL" => pc'[x] = pc[x]
    <3>1. CASE pc' = pc
      <4> USE DEF IInv
      <4>1. ReadyAreQueued' /\ CurrentIsOwn' /\ IdleIsReady' /\ ClientsRun'
        BY <1>1, <2>1, <3>1 DEF ReadyAreQueued, QueuedThreads, BeingWoken, CurrentIsOwn,
           IdleIsReady, ClientsRun
      <4>2. StatusIsQueue' /\ EndInOrder' /\ WakingIsReady'
        BY <1>1, <2>1, <3>1 DEF StatusIsQueue, EndInOrder, WakingIsReady
      <4> QED BY <3>1, <4>1, <4>2 DEF TypeOK
    <3>2. CASE \E t \in Workers : Runs(t) /\ Reschedules(t)
      <4>1. PICK t \in Workers : Runs(t) /\ Reschedules(t)
        BY <3>2
      <4> DEFINE place == "schedule"
      <4>2. /\ t \in Threads /\ dwThreadStatus[t] = "RUNNING"
            /\ \A c \in CPU : IdleKernelThread[c] # t
        BY <4>1, ClientThread DEF Runs
      <4>3. place \in {"run", "again", "schedule"} /\ pc' = [pc EXCEPT ![t] = place]
        BY <4>1 DEF Reschedules
      <4> QED BY <1>1, <2>1, <4>2, <4>3, RunningGoesOn
    <3> QED BY <3>1, <3>2
  <2> USE DEF IInv
  <2>3. TypeOK'
    BY <1>1, <1>3, <2>1, <2>2 DEF TypeOK
  <2>4. BlockedAreQueued'
    BY <1>1, <2>1 DEF BlockedAreQueued, InMessageQueue, WaitsForEnd
  <2>5. NotYetHappened'
    BY <1>1, <1>3, <1>4, <2>1, <2>2 DEF NotYetHappened
  <2> QED BY <2>2, <2>3, <2>4, <2>5
<1>5. CASE lpMsgWaitingQueue[u] # <<>>
  <2> DEFINE q == lpMsgWaitingQueue[u]
             w == HeaderElement(q)
  <2>1. /\ lpMsgWaitingQueue' = [lpMsgWaitingQueue EXCEPT ![u] = WithoutHeader(q)]
        /\ dwThreadStatus' = [dwThreadStatus EXCEPT ![w] = "READY"]
        /\ panic' = InReadyQueue(w) /\ ThreadQueue' = AddReady(ThreadQueue, w)
    BY <1>1, <1>5 DEF WakeReceiver
  <2>2. q \in Seq(Workers) /\ IsInjective(q) /\ q # <<>>
    BY <1>2, <1>5 DEF IInv, TypeOK, BlockedAreQueued
  <2>3. /\ w \in Workers /\ ObjectInQueue(q, w) /\ WithoutHeader(q) \in Seq(Workers)
        /\ IsInjective(WithoutHeader(q))
        /\ \A y : ObjectInQueue(WithoutHeader(q), y) <=> ObjectInQueue(q, y) /\ y # w
    <3> HIDE DEF q
    <3> QED BY <2>2, HeaderTaken
  <2>4. w = u /\ dwThreadStatus[u] = "BLOCKED" /\ InMessageQueue(u)
    BY <1>2, <2>3 DEF IInv, BlockedAreQueued, InMessageQueue, Threads
  <2>5. \A y : ~ObjectInQueue(WithoutHeader(q), y)
    <3>1. \A y \in Threads : ObjectInQueue(q, y) => y = u
      BY <1>2 DEF IInv, BlockedAreQueued
    <3>2. \A y : ObjectInQueue(q, y) => y \in Threads
      BY <2>2, EmptyQueue DEF Threads
    <3> HIDE DEF q, w
    <3> QED BY <2>3, <2>4, <3>1, <3>2
  <2>6. WithoutHeader(q) = <<>>
    <3> HIDE DEF q, w
    <3> QED BY <2>3, <2>5, EmptyQueue
  <2>7. /\ lpMsgWaitingQueue' \in [Threads -> Seq(Workers)]
        /\ lpMsgWaitingQueue'[u] = <<>>
        /\ \A x \in Threads \ {u} : lpMsgWaitingQueue'[x] = lpMsgWaitingQueue[x]
    <3> HIDE DEF q, w
    <3> QED BY <1>2, <2>1, <2>3, <2>6 DEF IInv, TypeOK
  <2>8. /\ ReadyAreQueued' /\ CurrentIsOwn' /\ IdleIsReady' /\ ClientsRun'
        /\ EndInOrder' /\ WakingIsReady'
        /\ panic' = FALSE
        /\ dwThreadStatus' \in [Threads -> Statuses] /\ dwThreadStatus'[u] = "READY"
        /\ \A x \in Threads \ {u} : dwThreadStatus'[x] = dwThreadStatus[x]
        /\ pc' \in [Threads -> Places]
        /\ \A x \in Threads : dwThreadStatus[x] = "TERMINAL" => pc'[x] = pc[x]
    <3> HIDE DEF q, w
    <3> QED BY <1>1, <1>2, <2>1, <2>4, MadeReady
  <2> HIDE DEF q, w
  <2> USE DEF IInv
  <2>9. TypeOK'
    BY <1>1, <1>3, <2>7, <2>8 DEF TypeOK
  <2>10. StatusIsQueue'
    BY <1>1, <2>4, <2>8 DEF StatusIsQueue
  <2>11. BlockedAreQueued'
    <3>1. \A x, y \in Threads :
            ObjectInQueue(lpMsgWaitingQueue'[x], y)
              <=> ObjectInQueue(lpMsgWaitingQueue[x], y) /\ x # u
      <4>1. \A y : ~ObjectInQueue(<<>>, y)
        BY <2>5, <2>6
      <4> QED BY <2>7, <4>1
    <3>2. \A x \in Threads : IsInjective(lpMsgWaitingQueue'[x])
      BY <2>3, <2>6, <2>7 DEF BlockedAreQueued
    <3>3. \A x, y \in Threads : WaitsForEnd(y, x)' <=> WaitsForEnd(y, x)
      BY <1>1 DEF WaitsForEnd
    <3>4. \A x \in Threads : dwThreadStatus'[x] = "BLOCKED" <=>
            dwThreadStatus[x] = "BLOCKED" /\ x # u
      BY <2>8
    <3>5. \A x \in Threads : InMessageQueue(x)' <=> InMessageQueue(x) /\ x # u
      BY <3>1 DEF InMessageQueue
    <3>6. ASSUME NEW x \in Threads, NEW y \in Threads
          PROVE  /\ ObjectInQueue(lpMsgWaitingQueue'[y], x) => x = y /\ dwThreadStatus'[x] = "BLOCKED"
                 /\ WaitsForEnd(x, y)' =>
                      /\ dwThreadStatus'[x] = "BLOCKED" /\ ~InMessageQueue(x)' /\ y \in Workers
                      /\ \A v \in Threads : WaitsForEnd(x, v)' => v = y
      BY <2>4, <3>1, <3>3, <3>4, <3>5 DEF BlockedAreQueued
    <3>7. ASSUME NEW x \in Threads, dwThreadStatus'[x] = "BLOCKED"
          PROVE  InMessageQueue(x)' \/ \E y \in Workers : WaitsForEnd(x, y)'
      BY <3>3, <3>4, <3>5, <3>7 DEF BlockedAreQueued, Threads
    <3>8. \A x \in Threads : IsInjective(lpWaitingQueue'[x])
      BY <1>1 DEF BlockedAreQueued
    <3> QED BY <3>2, <3>6, <3>7, <3>8 DEF BlockedAreQueued
  <2>12. NotYetHappened'
    BY <1>1, <1>3, <2>7, <2>8 DEF NotYetHappened
  <2> QED BY <2>8, <2>9, <2>10, <2>11, <2>12
<1> QED BY <1>4, <1>5

LEMMA CreatePreserves ==
  ASSUME IInv, NEW t \in Workers, NEW u \in Workers, Create(t, u)
  PROVE  IInv'
<1>1. PICK c \in CPU :
        /\ CurrentKernelThread[c] = t
        /\ cpuAffinity' = [cpuAffinity EXCEPT ![u] = c]
        /\ \/ /\ dwThreadStatus' = [dwThreadStatus EXCEPT ![u] = "READY"]
              /\ ThreadQueue' = [ThreadQueue EXCEPT ![c][Priority[u]] = Append(@, u)]
              /\ UNCHANGED lpSuspendedQueue
           \/ /\ dwThreadStatus' = [dwThreadStatus EXCEPT ![u] = "SUSPENDED"]
              /\ lpSuspendedQueue' = lpSuspendedQueue \union {u}
              /\ UNCHANGED ThreadQueue
  BY DEF Create
<1>2. /\ Runs(t) /\ dwThreadStatus[u] = "DESTROYED"
      /\ refCount' = [refCount EXCEPT ![u] = 2]
      /\ pc' = [pc EXCEPT ![u] = "run"]
      /\ ucCurrentMsgNum' = [ucCurrentMsgNum EXCEPT ![u] = 0]
      /\ lpWaitingQueue' = [lpWaitingQueue EXCEPT ![u] = <<>>]
      /\ lpMsgWaitingQueue' = [lpMsgWaitingQueue EXCEPT ![u] = <<>>]
      /\ UNCHANGED <<CurrentKernelThread, lpTerminalQueue, waking, panic>>
  BY DEF Create
<1>3. u \in Threads /\ u \notin QueuedThreads /\ ~BeingWoken(u)
  BY <1>2, WokenIsReady DEF QueuedThreads, Threads
<1> USE DEF IInv
<1>4. pc[u] = "dead" /\ \A d \in CPU : CurrentKernelThread[d] # u
  BY <1>2, <1>3 DEF EndInOrder, CurrentIsOwn
<1>5. lpWaitingQueue' = lpWaitingQueue /\ lpMsgWaitingQueue' = lpMsgWaitingQueue
  <2>1. lpWaitingQueue[u] = <<>>
    BY <1>2, <1>3 DEF NotYetHappened
  <2>2. lpMsgWaitingQueue[u] \in Seq(Workers) /\ lpWaitingQueue[u] \in Seq(Workers)
    BY <1>3 DEF TypeOK
  <2>3. \A x : ~ObjectInQueue(lpMsgWaitingQueue[u], x)
    BY <1>2, <1>3, <2>2, EmptyQueue DEF BlockedAreQueued, Threads
  <2>4. lpMsgWaitingQueue[u] = <<>>
    BY <2>2, <2>3, EmptyQueue
  <2> QED BY <1>2, <2>1, <2>4 DEF TypeOK
<1>6. /\ dwThreadStatus' \in [Threads -> Statuses] /\ dwThreadStatus'[u] \in {"READY", "SUSPENDED"}
      /\ \A x \in Threads \ {u} : dwThreadStatus'[x] = dwThreadStatus[x]
  BY <1>1, <1>3 DEF TypeOK, Statuses
<1>7. /\ pc' \in [Threads -> Places] /\ pc'[u] = "run"
      /\ refCount' \in [Threads -> {0, 1, 2}] /\ refCount'[u] = 2
      /\ cpuAffinity' \in [Threads -> CPU] /\ cpuAffinity'[u] = c
      /\ ucCurrentMsgNum' \in [Threads -> Nat] /\ ucCurrentMsgNum'[u] = 0
      /\ \A x \in Threads \ {u} :
           /\ pc'[x] = pc[x] /\ refCount'[x] = refCount[x]
           /\ cpuAffinity'[x] = cpuAffinity[x]
           /\ ucCurrentMsgNum'[x] = ucCurrentMsgNum[x]
  BY <1>1, <1>2, <1>3 DEF TypeOK, Places
<1>8. TypeOK'
  <2>1. lpSuspendedQueue' \subseteq Threads
    BY <1>1, <1>3 DEF TypeOK
  <2> QED BY <1>2, <1>5, <1>6, <1>7, <2>1 DEF TypeOK
<1>9. ReadyAreQueued'
  <2>1. QueuesHold(ThreadQueue, QueuedThreads, cpuAffinity')
    <3>1. QueuesHold(ThreadQueue, QueuedThreads, cpuAffinity)
      BY DEF ReadyAreQueued
    <3>2. \A x \in Threads : x \in QueuedThreads => cpuAffinity'[x] = cpuAffinity[x]
      BY <1>3, <1>7
    <3> HIDE DEF IInv
    <3> QED BY <3>1, <3>2, HoldsWithout
  <2>2. \A x \in Threads : BeingWoken(x)' <=> BeingWoken(x)
    BY <1>2 DEF BeingWoken
  <2>3. CASE dwThreadStatus' = [dwThreadStatus EXCEPT ![u] = "SUSPENDED"] /\ UNCHANGED ThreadQueue
    <3>1. QueuedThreads' = QueuedThreads
      BY <1>2, <1>3, <1>6, <2>2, <2>3 DEF QueuedThreads, TypeOK
    <3> QED BY <2>1, <2>3, <3>1 DEF ReadyAreQueued
  <2>4. CASE /\ dwThreadStatus' = [dwThreadStatus EXCEPT ![u] = "READY"]
             /\ ThreadQueue' = [ThreadQueue EXCEPT ![c][Priority[u]] = Append(@, u)]
    <3>1. QueuedThreads' = QueuedThreads \union {u}
      BY <1>2, <1>3, <1>6, <2>2, <2>4 DEF QueuedThreads, TypeOK
    <3>2. QueuesHold([ThreadQueue EXCEPT ![cpuAffinity'[u]][Priority[u]] = Append(@, u)],
                     QueuedThreads \union {u}, cpuAffinity')
      BY <1>3, <1>7, <2>1, AddHolds
    <3> QED BY <1>7, <2>4, <3>1, <3>2 DEF ReadyAreQueued
  <2> QED BY <1>1, <2>3, <2>4
<1>10. CurrentIsOwn'
  <2>1. ASSUME NEW d \in CPU
        PROVE  cpuAffinity'[CurrentKernelThread'[d]] = d
    <3>1. CurrentKernelThread'[d] = CurrentKernelThread[d]
      BY <1>2
    <3>2. CurrentKernelThread[d] \in Threads \ {u}
      BY <1>4 DEF TypeOK
    <3> QED BY <1>7, <3>1, <3>2 DEF CurrentIsOwn
  <2>2. ASSUME NEW x \in Threads, dwThreadStatus'[x] = "RUNNING"
        PROVE  CurrentKernelThread'[cpuAffinity'[x]] = x
    <3>1. x # u /\ dwThreadStatus[x] = "RUNNING"
      BY <1>6, <2>2
    <3> QED BY <1>2, <1>7, <3>1 DEF CurrentIsOwn
  <2> QED BY <2>1, <2>2 DEF CurrentIsOwn
<1>11. IdleIsReady'
  <2> SUFFICES ASSUME NEW d \in CPU
               PROVE  /\ cpuAffinity'[IdleKernelThread[d]] = d
                      /\ dwThreadStatus'[IdleKernelThread[d]] \in {"READY", "RUNNING"}
                      /\ pc'[IdleKernelThread[d]] = "run"
    BY DEF IdleIsReady
  <2>1. IdleKernelThread[d] \in Threads \ {u}
    BY ThreadsAssumption DEF Threads, Idle
  <2> QED BY <1>6, <1>7, <2>1 DEF IdleIsReady
<1>12. ClientsRun'
  BY <1>2, <1>4, <1>6, <1>7 DEF ClientsRun, TypeOK
<1>13. StatusIsQueue'
  BY <1>1, <1>2, <1>3, <1>6 DEF StatusIsQueue
<1>14. EndInOrder'
  BY <1>2, <1>6, <1>7 DEF EndInOrder
<1>15. WakingIsReady'
  <2> SUFFICES ASSUME NEW v \in Workers, waking[v] # NoThread
               PROVE  pc'[v] = "wake" /\ dwThreadStatus'[waking[v]] = "READY"
    BY <1>2 DEF WakingIsReady
  <2>1. v \in Threads /\ waking[v] \in Threads /\ waking[v] # u
    BY <1>3 DEF TypeOK, Threads, BeingWoken
  <2>2. pc[v] = "wake" /\ dwThreadStatus[waking[v]] = "READY"
    BY DEF WakingIsReady
  <2> QED BY <1>4, <1>6, <1>7, <2>1, <2>2
<1>16. BlockedAreQueued'
  <2>1. \A x \in Threads : dwThreadStatus'[x] = "BLOCKED" <=> dwThreadStatus[x] = "BLOCKED"
    BY <1>2, <1>6
  <2> QED BY <1>5, <2>1 DEF BlockedAreQueued, InMessageQueue, WaitsForEnd
<1>17. NotYetHappened'
  BY <1>2, <1>3, <1>5, <1>6, <1>7 DEF NotYetHappened
<1> QED BY <1>8, <1>9, <1>10, <1>11, <1>12, <1>13, <1>14, <1>15, <1>16, <1>17

LEMMA AffinityPreserves ==
  ASSUME IInv, NEW t \in Workers, NEW u \in Workers, NEW c \in CPU, ChangeAffinity(t, u, c)
  PROVE  IInv'
<1> USE DEF objectVars, messageVars, waitVars
<1>1. /\ dwThreadStatus[u] = "SUSPENDED" /\ ~Current(u)
      /\ cpuAffinity' = [cpuAffinity EXCEPT ![u] = c]
      /\ UNCHANGED <<dwThreadStatus, ThreadQueue, CurrentKernelThread, lpSuspendedQueue, pc,
                     panic, lpTerminalQueue, refCount, lpMsgWaitingQueue, ucCurrentMsgNum,
                     lpWaitingQueue, waking>>
  BY DEF ChangeAffinity
<1>2. u \in Threads /\ u \notin QueuedThreads /\ \A d \in CPU : CurrentKernelThread[d] # u
  BY <1>1 DEF QueuedThreads, Threads, Current
<1> USE DEF IInv
<1>3. /\ cpuAffinity' \in [Threads -> CPU] /\ cpuAffinity'[u] = c
      /\ \A x \in Threads \ {u} : cpuAffinity'[x] = cpuAffinity[x]
  BY <1>1, <1>2 DEF TypeOK
<1>4. TypeOK'
  BY <1>1, <1>3 DEF TypeOK
<1>5. ReadyAreQueued'
  <2>1. QueuedThreads' = QueuedThreads
    BY <1>1 DEF QueuedThreads, BeingWoken
  <2>2. \A x \in Threads : x \in QueuedThreads => cpuAffinity'[x] = cpuAffinity[x]
    BY <1>2, <1>3
  <2>3. QueuesHold(ThreadQueue, QueuedThreads, cpuAffinity)
    BY DEF ReadyAreQueued
  <2>4. QueuesHold(ThreadQueue, QueuedThreads, cpuAffinity')
    <3> HIDE DEF IInv
    <3> QED BY <2>2, <2>3, HoldsWithout
  <2> QED BY <1>1, <2>1, <2>4 DEF ReadyAreQueued
<1>6. CurrentIsOwn'
  <2>1. ASSUME NEW d \in CPU
        PROVE  cpuAffinity'[CurrentKernelThread'[d]] = d
    <3>1. CurrentKernelThread'[d] = CurrentKernelThread[d]
      BY <1>1
    <3>2. CurrentKernelThread[d] \in Threads \ {u}
      BY <1>2 DEF TypeOK
    <3> QED BY <1>3, <3>1, <3>2 DEF CurrentIsOwn
  <2>2. ASSUME NEW x \in Threads, dwThreadStatus'[x] = "RUNNING"
        PROVE  CurrentKernelThread'[cpuAffinity'[x]] = x
    <3>1. x # u /\ dwThreadStatus[x] = "RUNNING"
      BY <1>1, <2>2
    <3> QED BY <1>1, <1>3, <3>1 DEF CurrentIsOwn
  <2> QED BY <2>1, <2>2 DEF CurrentIsOwn
<1>7. IdleIsReady'
  <2> SUFFICES ASSUME NEW d \in CPU
               PROVE  /\ cpuAffinity'[IdleKernelThread[d]] = d
                      /\ dwThreadStatus[IdleKernelThread[d]] \in {"READY", "RUNNING"}
                      /\ pc[IdleKernelThread[d]] = "run"
    BY <1>1 DEF IdleIsReady
  <2>1. IdleKernelThread[d] \in Threads \ {u}
    BY ThreadsAssumption DEF Threads, Idle
  <2> QED BY <1>3, <2>1 DEF IdleIsReady
<1>8. ClientsRun' /\ StatusIsQueue' /\ WakingIsReady'
  BY <1>1 DEF ClientsRun, StatusIsQueue, WakingIsReady
<1>9. EndInOrder'
  BY <1>1, <1>3 DEF EndInOrder
<1>10. BlockedAreQueued' /\ NotYetHappened'
  BY <1>1 DEF BlockedAreQueued, InMessageQueue, WaitsForEnd, NotYetHappened
<1> QED BY <1>4, <1>5, <1>6, <1>7, <1>8, <1>9, <1>10

LEMMA DestroyPreserves ==
  ASSUME IInv, NEW t \in Workers, NEW u \in Workers, DestroyKernelThread(t, u)
  PROVE  IInv'
<1> USE DEF messageVars, waitVars
<1>1. /\ HandleOpen(u)
      /\ refCount' = [refCount EXCEPT ![u] = @ - 1]
      /\ lpTerminalQueue' = IF refCount[u] = 1 THEN lpTerminalQueue \ {u} ELSE lpTerminalQueue
      /\ dwThreadStatus' = AfterDestroy(dwThreadStatus, u)
      /\ UNCHANGED <<cpuAffinity, ThreadQueue, CurrentKernelThread, lpSuspendedQueue, pc,
                     panic, lpMsgWaitingQueue, ucCurrentMsgNum, lpWaitingQueue, waking>>
  BY DEF DestroyKernelThread, DestroyObject
<1> USE DEF IInv
<1>2. /\ u \in Threads
      /\ \/ /\ refCount[u] = 1 /\ pc[u] = "dead" /\ dwThreadStatus[u] = "TERMINAL"
            /\ dwThreadStatus' = [dwThreadStatus EXCEPT ![u] = "DESTROYED"]
         \/ /\ refCount[u] = 2 /\ pc[u] # "dead" /\ dwThreadStatus' = dwThreadStatus
            /\ dwThreadStatus[u] # "DESTROYED"
  BY <1>1 DEF HandleOpen, AfterDestroy, EndInOrder, Threads
<1>3. /\ refCount' \in [Threads -> {0, 1, 2}] /\ refCount'[u] = refCount[u] - 1
      /\ \A x \in Threads \ {u} : refCount'[x] = refCount[x]
  BY <1>1, <1>2 DEF TypeOK
<1>4. /\ dwThreadStatus' \in [Threads -> Statuses]
      /\ \/ /\ refCount[u] = 1 /\ pc[u] = "dead" /\ dwThreadStatus[u] = "TERMINAL"
            /\ dwThreadStatus'[u] = "DESTROYED"
         \/ /\ refCount[u] = 2 /\ pc[u] # "dead" /\ dwThreadStatus'[u] = dwThreadStatus[u]
            /\ dwThreadStatus[u] # "DESTROYED"
      /\ \A x \in Threads \ {u} : dwThreadStatus'[x] = dwThreadStatus[x]
  BY <1>2 DEF TypeOK, Statuses
<1>5. TypeOK'
  <2>1. lpTerminalQueue' \subseteq Threads
    BY <1>1 DEF TypeOK
  <2> QED BY <1>1, <1>3, <1>4, <2>1 DEF TypeOK
<1>6. \A x \in Threads, st \in {"READY", "RUNNING", "BLOCKED", "SUSPENDED"} :
        dwThreadStatus'[x] = st <=> dwThreadStatus[x] = st
  BY <1>4
<1>7. ReadyAreQueued'
  <2>1. QueuedThreads' = QueuedThreads
    BY <1>1, <1>6 DEF QueuedThreads, BeingWoken
  <2> QED BY <1>1, <2>1 DEF ReadyAreQueued
<1>8. CurrentIsOwn'
  BY <1>1, <1>6 DEF CurrentIsOwn
<1>9. IdleIsReady'
  BY <1>1, <1>6, ThreadsAssumption DEF IdleIsReady, Threads, Idle
<1>10. ClientsRun'
  BY <1>1, <1>6 DEF ClientsRun, TypeOK
<1>11. StatusIsQueue'
  <2> SUFFICES ASSUME NEW x \in Threads
               PROVE  /\ x \in lpSuspendedQueue <=> dwThreadStatus'[x] = "SUSPENDED"
                      /\ x \in lpTerminalQueue' <=> dwThreadStatus'[x] = "TERMINAL"
    BY <1>1 DEF StatusIsQueue
  <2>1. x \in lpTerminalQueue' <=> dwThreadStatus'[x] = "TERMINAL"
    BY <1>1, <1>4 DEF StatusIsQueue
  <2> QED BY <1>6, <2>1 DEF StatusIsQueue
<1>12. EndInOrder'
  BY <1>1, <1>3, <1>4 DEF EndInOrder
<1>13. WakingIsReady'
  <2> SUFFICES ASSUME NEW v \in Workers, waking[v] # NoThread
               PROVE  pc[v] = "wake" /\ dwThreadStatus'[waking[v]] = "READY"
    BY <1>1 DEF WakingIsReady
  <2>1. waking[v] \in Threads
    BY DEF TypeOK, Threads
  <2> QED BY <1>6, <2>1 DEF WakingIsReady
<1>14. BlockedAreQueued'
  BY <1>1, <1>6 DEF BlockedAreQueued, InMessageQueue, WaitsForEnd
<1>15. NotYetHappened'
  BY <1>1, <1>4 DEF NotYetHappened
<1> QED BY <1>5, <1>7, <1>8, <1>9, <1>10, <1>11, <1>12, <1>13, <1>14, <1>15

-----------------------------------------------------------------------------
(* The end of a thread.                                                     *)

LEMMA MarkWaiterPreserves ==
  ASSUME IInv, NEW t \in Workers, MarkWaiter(t)
  PROVE  IInv'
<1> USE DEF objectVars, messageVars
<1> DEFINE q == lpWaitingQueue[t]
           w == HeaderElement(q)
<1>1. /\ ~panic /\ pc[t] = "wake" /\ waking[t] = NoThread /\ q # <<>>
      /\ lpWaitingQueue' = [lpWaitingQueue EXCEPT ![t] = WithoutHeader(q)]
      /\ waking' = [waking EXCEPT ![t] = w]
      /\ dwThreadStatus' = [dwThreadStatus EXCEPT ![w] = "READY"]
      /\ UNCHANGED <<cpuAffinity, ThreadQueue, CurrentKernelThread, lpSuspendedQueue, pc,
                     panic, lpTerminalQueue, refCount, lpMsgWaitingQueue, ucCurrentMsgNum>>
  BY DEF MarkWaiter
<1>2. t \in Threads /\ q \in Seq(Workers) /\ IsInjective(q)
  BY DEF IInv, TypeOK, BlockedAreQueued, Threads
<1>3. /\ w \in Workers /\ ObjectInQueue(q, w) /\ WithoutHeader(q) \in Seq(Workers)
      /\ IsInjective(WithoutHeader(q))
      /\ \A y : ObjectInQueue(WithoutHeader(q), y) <=> ObjectInQueue(q, y) /\ y # w
  <2> HIDE DEF q
  <2> QED BY <1>1, <1>2, HeaderTaken
<1>4. w \in Threads /\ dwThreadStatus[w] = "BLOCKED" /\ ~InMessageQueue(w)
      /\ \A v \in Threads : WaitsForEnd(w, v) <=> v = t
  BY <1>2, <1>3 DEF IInv, BlockedAreQueued, WaitsForEnd, Threads
<1>5. ~BeingWoken(w)
  BY <1>4, WokenIsReady
<1> HIDE DEF w
<1> USE DEF IInv
<1>6. /\ dwThreadStatus' \in [Threads -> Statuses] /\ dwThreadStatus'[w] = "READY"
      /\ \A x \in Threads \ {w} : dwThreadStatus'[x] = dwThreadStatus[x]
  BY <1>1, <1>4 DEF TypeOK, Statuses
<1>7. /\ waking' \in [Threads -> Workers \union {NoThread}] /\ waking'[t] = w
      /\ \A x \in Threads \ {t} : waking'[x] = waking[x]
  BY <1>1, <1>2, <1>3 DEF TypeOK
<1>8. /\ lpWaitingQueue' \in [Threads -> Seq(Workers)]
      /\ lpWaitingQueue'[t] = WithoutHeader(q)
      /\ \A x \in Threads \ {t} : lpWaitingQueue'[x] = lpWaitingQueue[x]
  BY <1>1, <1>2, <1>3 DEF TypeOK
<1> HIDE DEF q
<1>9. \A x \in Threads : BeingWoken(x)' <=> BeingWoken(x) \/ x = w
  <2>1. \A x \in Threads : x # NoThread
    BY ThreadsAssumption
  <2> QED BY <1>1, <1>7, <2>1 DEF BeingWoken, Threads
<1>10. TypeOK'
  BY <1>1, <1>6, <1>7, <1>8 DEF TypeOK
<1>11. ReadyAreQueued'
  <2>1. QueuedThreads' = QueuedThreads
    BY <1>4, <1>6, <1>9 DEF QueuedThreads
  <2> QED BY <1>1, <2>1 DEF ReadyAreQueued
<1>12. CurrentIsOwn' /\ StatusIsQueue'
  BY <1>1, <1>4, <1>6 DEF CurrentIsOwn, StatusIsQueue
<1>13. IdleIsReady'
  BY <1>1, <1>6, ThreadsAssumption DEF IdleIsReady, Threads, Idle
<1>14. ClientsRun'
  BY <1>1, <1>4, <1>6 DEF ClientsRun, TypeOK
<1>15. EndInOrder'
  BY <1>1, <1>4, <1>6 DEF EndInOrder
<1>16. WakingIsReady'
  <2> SUFFICES ASSUME NEW v \in Workers, waking'[v] # NoThread
               PROVE  /\ pc[v] = "wake" /\ dwThreadStatus'[waking'[v]] = "READY"
                      /\ \A x \in Workers : waking'[x] = waking'[v] => x = v
    BY <1>1 DEF WakingIsReady
  <2>1. \A x \in Workers : x \in Threads /\ (waking[x] = w => x = v)
    BY <1>5 DEF BeingWoken, Threads
  <2>2. CASE v = t
    BY <1>1, <1>6, <1>7, <2>1, <2>2, <1>5 DEF BeingWoken
  <2>3. CASE v # t
    <3>1. waking'[v] = waking[v] /\ waking[v] \in Threads /\ waking[v] # w
      BY <1>5, <1>7, <2>1, <2>3 DEF BeingWoken, Threads
    <3>2. pc[v] = "wake" /\ dwThreadStatus[waking[v]] = "READY"
          /\ \A x \in Workers : waking[x] = waking[v] => x = v
      BY <3>1 DEF WakingIsReady
    <3> QED BY <1>6, <1>7, <2>1, <3>1, <3>2
  <2> QED BY <2>2, <2>3
<1>17. BlockedAreQueued'
  <2>1. \A x, y \in Threads : WaitsForEnd(y, x)' <=> WaitsForEnd(y, x) /\ y # w
    BY <1>3, <1>4, <1>8 DEF q, WaitsForEnd
  <2>2. \A x \in Threads : IsInjective(lpWaitingQueue'[x]) /\ IsInjective(lpMsgWaitingQueue'[x])
    BY <1>1, <1>3, <1>8 DEF BlockedAreQueued
  <2>3. /\ \A x \in Threads : InMessageQueue(x)' <=> InMessageQueue(x)
        /\ \A x, y \in Threads : ObjectInQueue(lpMsgWaitingQueue'[x], y)
                                   <=> ObjectInQueue(lpMsgWaitingQueue[x], y)
    BY <1>1 DEF InMessageQueue
  <2>4. \A x \in Threads : dwThreadStatus'[x] = "BLOCKED" <=>
          dwThreadStatus[x] = "BLOCKED" /\ x # w
    BY <1>6
  <2>5. ASSUME NEW x \in Threads, NEW y \in Threads
        PROVE  /\ ObjectInQueue(lpMsgWaitingQueue'[y], x) => x = y /\ dwThreadStatus'[x] = "BLOCKED"
               /\ WaitsForEnd(x, y)' =>
                    /\ dwThreadStatus'[x] = "BLOCKED" /\ ~InMessageQueue(x)' /\ y \in Workers
                    /\ \A v \in Threads : WaitsForEnd(x, v)' => v = y
    BY <1>4, <2>1, <2>3, <2>4 DEF BlockedAreQueued, InMessageQueue
  <2>6. ASSUME NEW x \in Threads, dwThreadStatus'[x] = "BLOCKED"
        PROVE  InMessageQueue(x)' \/ \E y \in Workers : WaitsForEnd(x, y)'
    BY <2>1, <2>3, <2>4, <2>6 DEF BlockedAreQueued, Threads
  <2> QED BY <2>2, <2>5, <2>6 DEF BlockedAreQueued
<1>18. NotYetHappened'
  BY <1>1, <1>6, <1>8, <1>4 DEF NotYetHappened, EndInOrder
<1> QED BY <1>10, <1>11, <1>12, <1>13, <1>14, <1>15, <1>16, <1>17, <1>18

LEMMA AddWaiterPreserves ==
  ASSUME IInv, NEW t \in Workers, AddWaiter(t)
  PROVE  IInv'
<1> USE DEF objectVars, messageVars
<1> DEFINE w == waking[t]
<1>1. /\ ~panic /\ w # NoThread /\ waking' = [waking EXCEPT ![t] = NoThread]
      /\ UNCHANGED <<dwThreadStatus, cpuAffinity, CurrentKernelThread, lpSuspendedQueue, pc,
                     lpWaitingQueue, lpTerminalQueue, refCount, lpMsgWaitingQueue,
                     ucCurrentMsgNum>>
  BY DEF AddWaiter
<1> USE DEF IInv
<1>2. /\ w \in Threads /\ dwThreadStatus[w] = "READY" /\ BeingWoken(w)
      /\ \A v \in Workers : waking[v] = w => v = t
  BY <1>1 DEF TypeOK, WakingIsReady, BeingWoken, Threads
<1>3. panic' = InReadyQueue(w) /\ ThreadQueue' = AddReady(ThreadQueue, w)
  BY <1>2 DEF AddWaiter
<1>4. w \notin QueuedThreads /\ QueuesHold(ThreadQueue, QueuedThreads, cpuAffinity)
  BY <1>2 DEF QueuedThreads, ReadyAreQueued
<1> HIDE DEF w
<1>5. panic' = FALSE
  BY <1>2, <1>3, <1>4 DEF InReadyQueue, QueuesHold
<1>6. /\ waking' \in [Threads -> Workers \union {NoThread}] /\ waking'[t] = NoThread
      /\ \A x \in Threads \ {t} : waking'[x] = waking[x]
  BY <1>1 DEF TypeOK, Threads
<1>7. \A x \in Threads : BeingWoken(x)' <=> BeingWoken(x) /\ x # w
  <2>1. \A x \in Threads : x # NoThread
    BY ThreadsAssumption
  <2>2. \A v \in Workers : v \in Threads
    BY DEF Threads
  <2>3. waking[t] = w
    BY DEF w
  <2> QED BY <1>2, <1>6, <2>1, <2>2, <2>3 DEF BeingWoken
<1>8. TypeOK'
  BY <1>1, <1>5, <1>6 DEF TypeOK
<1>9. ReadyAreQueued'
  <2>1. QueuedThreads' = QueuedThreads \union {w}
    BY <1>1, <1>2, <1>7 DEF QueuedThreads
  <2>2. QueuesHold([ThreadQueue EXCEPT ![cpuAffinity[w]][Priority[w]] = Append(@, w)],
                   QueuedThreads \union {w}, cpuAffinity)
    BY <1>2, <1>4, AddHolds DEF TypeOK
  <2> QED BY <1>1, <1>3, <2>1, <2>2 DEF ReadyAreQueued, AddReady
<1>10. CurrentIsOwn' /\ IdleIsReady' /\ StatusIsQueue' /\ EndInOrder'
  BY <1>1 DEF CurrentIsOwn, IdleIsReady, StatusIsQueue, EndInOrder
<1>11. ClientsRun'
  BY <1>1 DEF ClientsRun
<1>12. WakingIsReady'
  BY <1>1, <1>6 DEF WakingIsReady, Threads
<1>13. BlockedAreQueued' /\ NotYetHappened'
  BY <1>1 DEF BlockedAreQueued, InMessageQueue, WaitsForEnd, NotYetHappened
<1> QED BY <1>8, <1>9, <1>10, <1>11, <1>12, <1>13

LEMMA AllWokenPreserves ==
  ASSUME IInv, NEW t \in Workers, AllWoken(t)
  PROVE  IInv'
<1> USE DEF objectVars, messageVars, waitVars
<1>1. /\ pc[t] = "wake" /\ waking[t] = NoThread /\ lpWaitingQueue[t] = <<>>
      /\ pc' = [pc EXCEPT ![t] = "schedule"]
      /\ UNCHANGED <<dwThreadStatus, cpuAffinity, ThreadQueue, CurrentKernelThread,
                     lpSuspendedQueue, panic, lpTerminalQueue, refCount, lpMsgWaitingQueue,
                     ucCurrentMsgNum, lpWaitingQueue, waking>>
  BY DEF AllWoken, Reschedules
<1> USE DEF IInv
<1>2. /\ t \in Threads /\ pc' \in [Threads -> Places] /\ pc'[t] = "schedule"
      /\ \A x \in Threads \ {t} : pc'[x] = pc[x]
  BY <1>1 DEF TypeOK, Places, Threads
<1>3. TypeOK'
  BY <1>1, <1>2 DEF TypeOK
<1>4. ReadyAreQueued' /\ CurrentIsOwn' /\ StatusIsQueue'
  BY <1>1 DEF ReadyAreQueued, QueuedThreads, BeingWoken, CurrentIsOwn, StatusIsQueue
<1>5. IdleIsReady'
  BY <1>1, <1>2, ThreadsAssumption DEF IdleIsReady, Threads, Idle
<1>6. ClientsRun'
  BY <1>1, <1>2 DEF ClientsRun, TypeOK
<1>7. EndInOrder'
  BY <1>1, <1>2 DEF EndInOrder
<1>8. WakingIsReady'
  BY <1>1, <1>2 DEF WakingIsReady, Threads
<1>9. BlockedAreQueued'
  BY <1>1 DEF BlockedAreQueued, InMessageQueue, WaitsForEnd
<1>10. NotYetHappened'
  BY <1>1, <1>2 DEF NotYetHappened
<1> QED BY <1>3, <1>4, <1>5, <1>6, <1>7, <1>8, <1>9, <1>10

-----------------------------------------------------------------------------
LEMMA InitIInv ==
  ASSUME Init
  PROVE  IInv
<1>1. PICK c \in Placement[Root] :
        /\ dwThreadStatus = [t \in Threads |->
             IF t \in Workers \ {Root} THEN "DESTROYED"
             ELSE IF t = IdleKernelThread[c] THEN "READY" ELSE "RUNNING"]
        /\ cpuAffinity = [t \in Threads |->
             IF t \in Idle THEN CHOOSE d \in CPU : t = IdleKernelThread[d] ELSE c]
        /\ ThreadQueue = [d \in CPU |-> [p \in Levels |->
             IF d = c /\ p = Priority[IdleKernelThread[c]]
             THEN <<IdleKernelThread[c]>> ELSE <<>>]]
        /\ CurrentKernelThread = [d \in CPU |->
             IF d = c THEN Root ELSE IdleKernelThread[d]]
        /\ lpSuspendedQueue = {} /\ lpTerminalQueue = {}
        /\ lpWaitingQueue = [t \in Threads |-> <<>>]
        /\ lpMsgWaitingQueue = [t \in Threads |-> <<>>]
        /\ ucCurrentMsgNum = [t \in Threads |-> 0]
        /\ refCount = [t \in Threads |-> IF t \in Workers \ {Root} THEN 0 ELSE 2]
        /\ pc = [t \in Threads |-> IF t \in Workers \ {Root} THEN "dead" ELSE "run"]
        /\ waking = [t \in Threads |-> NoThread]
        /\ panic = FALSE
  BY DEF Init
<1> DEFINE i == IdleKernelThread[c]
<1>2. /\ c \in CPU /\ i \in Threads /\ i \in Idle /\ Root \in Threads /\ Root \in Workers
      /\ Priority[i] \in Levels
      /\ \A d \in CPU : IdleKernelThread[d] \in Threads /\ IdleKernelThread[d] \in Idle
      /\ \A t \in Idle : t \notin Workers
      /\ \A d, e \in CPU : IdleKernelThread[d] = IdleKernelThread[e] => d = e
      /\ \A t \in Threads : t \in Idle <=> t \notin Workers
  BY ThreadsAssumption DEF Threads, Idle, Levels
<1>3. /\ \A d \in CPU : cpuAffinity[IdleKernelThread[d]] = d
      /\ \A t \in Threads \ Idle : cpuAffinity[t] = c
  <2>1. \A d \in CPU : (CHOOSE e \in CPU : IdleKernelThread[d] = IdleKernelThread[e]) = d
    BY <1>2
  <2> QED BY <1>1, <1>2, <2>1
<1>4. \A t \in Threads : cpuAffinity[t] \in CPU
  BY <1>2, <1>3 DEF Idle
<1>5. /\ <<>> \in Seq(Workers) /\ <<>> \in Seq(Threads) /\ IsInjective(<<>>)
      /\ \A x : ~ObjectInQueue(<<>>, x)
  <2>1. <<>> \in Seq(Workers) /\ <<>> \in Seq(Threads)
    OBVIOUS
  <2> QED BY <2>1, EmptyQueue
<1>6. TypeOK
  <2>1. cpuAffinity \in [Threads -> CPU]
    BY <1>1, <1>4
  <2>2. /\ dwThreadStatus \in [Threads -> Statuses] /\ pc \in [Threads -> Places]
        /\ refCount \in [Threads -> {0, 1, 2}] /\ CurrentKernelThread \in [CPU -> Threads]
    BY <1>1, <1>2 DEF Statuses, Places
  <2> QED BY <1>1, <1>5, <2>1, <2>2 DEF TypeOK
<1>7. ReadyAreQueued
  <2>1. \A t \in Threads : ~BeingWoken(t)
    BY <1>1, ThreadsAssumption DEF BeingWoken, Threads
  <2>2. QueuedThreads = {i}
    BY <1>1, <1>2, <2>1 DEF QueuedThreads
  <2> HIDE DEF i
  <2>3. /\ <<i>> \in Seq(Threads) /\ IsInjective(<<i>>)
        /\ \A x : ObjectInQueue(<<i>>, x) <=> x = i
    <3> DEFINE q == <<>>
    <3>1. Append(q, i) = <<i>> /\ q \in Seq(Threads)
      BY <1>5
    <3>2. IsInjective(q) /\ \A x : ~ObjectInQueue(q, x)
      BY <1>5
    <3> HIDE DEF q
    <3>3. /\ Append(q, i) \in Seq(Threads) /\ IsInjective(Append(q, i))
          /\ \A x : ObjectInQueue(Append(q, i), x) <=> ObjectInQueue(q, x) \/ x = i
      BY <1>2, <3>1, <3>2, AppendKeeps
    <3> QED BY <3>1, <3>2, <3>3
  <2>4. /\ ThreadQueue \in [CPU -> [Levels -> Seq(Threads)]]
        /\ ThreadQueue[c][Priority[i]] = <<i>>
        /\ \A d \in CPU, p \in Levels : ~(d = c /\ p = Priority[i]) => ThreadQueue[d][p] = <<>>
    BY <1>1, <1>2, <1>5, <2>3 DEF i
  <2>5. cpuAffinity[i] = c
    BY <1>2, <1>3 DEF i
  <2>6. ASSUME NEW d \in CPU, NEW p \in Levels
        PROVE  /\ IsInjective(ThreadQueue[d][p])
               /\ \A t \in Threads : ObjectInQueue(ThreadQueue[d][p], t)
                                       <=> t \in {i} /\ d = cpuAffinity[t] /\ p = Priority[t]
    <3>1. CASE d = c /\ p = Priority[i]
      BY <2>3, <2>4, <2>5, <3>1
    <3>2. CASE ~(d = c /\ p = Priority[i])
      BY <1>5, <2>4, <2>5, <3>2
    <3> QED BY <3>1, <3>2
  <2> QED BY <2>2, <2>4, <2>6 DEF ReadyAreQueued, QueuesHold
<1>8. CurrentIsOwn
  <2>1. ASSUME NEW d \in CPU
        PROVE  cpuAffinity[CurrentKernelThread[d]] = d
    BY <1>1, <1>2, <1>3
  <2>2. ASSUME NEW t \in Threads, dwThreadStatus[t] = "RUNNING"
        PROVE  CurrentKernelThread[cpuAffinity[t]] = t
    <3>1. CASE t \in Workers
      BY <1>1, <1>2, <1>3, <2>2, <3>1
    <3>2. CASE t \notin Workers
      <4>1. PICK d \in CPU : t = IdleKernelThread[d]
        BY <1>2, <3>2 DEF Idle
      <4> QED BY <1>1, <1>2, <1>3, <2>2, <4>1
    <3> QED BY <3>1, <3>2
  <2> QED BY <2>1, <2>2 DEF CurrentIsOwn
<1>9. IdleIsReady
  BY <1>1, <1>2, <1>3 DEF IdleIsReady
<1>10. ClientsRun
  BY <1>1, <1>2 DEF ClientsRun
<1>11. StatusIsQueue
  BY <1>1 DEF StatusIsQueue
<1>12. EndInOrder
  <2>1. \A d \in CPU : CurrentKernelThread[d] \notin Workers \ {Root}
    BY <1>1, <1>2
  <2> QED BY <1>1, <1>4, <2>1 DEF EndInOrder
<1>13. WakingIsReady
  BY <1>1 DEF WakingIsReady, Threads
<1>14. BlockedAreQueued
  <2>1. \A t \in Threads : dwThreadStatus[t] # "BLOCKED"
    BY <1>1
  <2> QED BY <1>1, <1>5, <2>1 DEF BlockedAreQueued, InMessageQueue, WaitsForEnd
<1>15. NotYetHappened
  BY <1>1 DEF NotYetHappened
<1> QED
  BY <1>6, <1>7, <1>8, <1>9, <1>10, <1>11, <1>12, <1>13, <1>14, <1>15 DEF IInv

LEMMA NextPreserves ==
  ASSUME IInv, [Next]_vars
  PROVE  IInv'
<1>1. CASE ClientStep
  <2>1. PICK t \in Workers :
          \/ kSuspendKernelThread(t)
          \/ GetMessage(t)
          \/ KernelThreadClean(t)
          \/ SendTimerMessage(t)
          \/ \E u \in Workers :
               \/ Create(t, u) \/ \E c \in CPU : ChangeAffinity(t, u, c)
               \/ kResumeKernelThread(t, u)
               \/ SendMessage(t, u)
               \/ WaitForKernelThreadObject(t, u)
               \/ DestroyKernelThread(t, u)
    BY <1>1, Zenon DEF ClientStep
  <2>2. CASE kSuspendKernelThread(t)
    BY <2>2, SuspendPreserves
  <2>3. CASE GetMessage(t)
    BY <2>3, GetMessagePreserves
  <2>4. CASE KernelThreadClean(t)
    BY <2>4, CleanPreserves
  <2>5. CASE SendTimerMessage(t)
    BY <2>5, PutMessagePreserves DEF SendTimerMessage
  <2>6. ASSUME NEW u \in Workers, Create(t, u)
        PROVE  IInv'
    BY <2>6, CreatePreserves
  <2>7. ASSUME NEW u \in Workers, NEW c \in CPU, ChangeAffinity(t, u, c)
        PROVE  IInv'
    BY <2>7, AffinityPreserves
  <2>8. ASSUME NEW u \in Workers, kResumeKernelThread(t, u)
        PROVE  IInv'
    BY <2>8, ResumePreserves
  <2>9. ASSUME NEW u \in Workers, SendMessage(t, u)
        PROVE  IInv'
    BY <2>9, PutMessagePreserves DEF SendMessage, Runs
  <2>10. ASSUME NEW u \in Workers, WaitForKernelThreadObject(t, u)
         PROVE  IInv'
    BY <2>10, WaitPreserves
  <2>11. ASSUME NEW u \in Workers, DestroyKernelThread(t, u)
         PROVE  IInv'
    BY <2>11, DestroyPreserves
  <2> QED BY <2>1, <2>2, <2>3, <2>4, <2>5, <2>6, <2>7, <2>8, <2>9, <2>10, <2>11
<1>2. CASE \E c \in CPU : KernelStep(c) \/ ScheduleFromInt(c)
  <2>1. PICK c \in CPU : KernelStep(c) \/ ScheduleFromInt(c)
    BY <1>2
  <2>2. CASE ScheduleFromInt(c)
    BY <2>2, ScheduleFromIntPreserves
  <2>3. CASE ScheduleFromProc(c)
    BY <2>3, ScheduleFromProcPreserves
  <2>4. CASE \E t \in Workers : MarkWaiter(t) \/ AddWaiter(t) \/ AllWoken(t) \/ GetMessage(t)
    BY <2>4, MarkWaiterPreserves, AddWaiterPreserves, AllWokenPreserves, GetMessagePreserves
  <2> QED BY <2>1, <2>2, <2>3, <2>4 DEF KernelStep
<1>3. CASE UNCHANGED vars
  <2> USE DEF IInv
  <2>1. TypeOK' /\ CurrentIsOwn' /\ IdleIsReady' /\ ClientsRun'
    BY <1>3 DEF vars, TypeOK, CurrentIsOwn, IdleIsReady, ClientsRun
  <2>2. ReadyAreQueued'
    BY <1>3 DEF vars, ReadyAreQueued, QueuedThreads, BeingWoken
  <2>3. StatusIsQueue' /\ EndInOrder' /\ WakingIsReady'
    BY <1>3 DEF vars, StatusIsQueue, EndInOrder, WakingIsReady
  <2>4. BlockedAreQueued' /\ NotYetHappened'
    BY <1>3 DEF vars, BlockedAreQueued, InMessageQueue, WaitsForEnd, NotYetHappened
  <2> QED BY <2>1, <2>2, <2>3, <2>4
<1> QED BY <1>1, <1>2, <1>3 DEF Next

THEOREM Invariance == Spec => []IInv
<1>1. Init => IInv
  BY InitIInv
<1>2. IInv /\ [Next]_vars => IInv'
  BY NextPreserves
<1> QED BY <1>1, <1>2, PTL DEF Spec

-----------------------------------------------------------------------------
(* What follows from the invariant.                                         *)

\* The assumption ScheduleFromProc rests on: every READY thread is in the ready
\* queue of its processor and priority, once, unless it is being woken, nobody
\* else is in one, and the other queues and the processors agree with the status
\* of the threads.
THEOREM ReadyQueuesAreExact == Spec => []EveryThreadIsInItsPlace
<1>1. ASSUME IInv
      PROVE  EveryThreadIsInItsPlace
  <2> USE <1>1 DEF IInv
  <2> SUFFICES ASSUME NEW t \in Threads
               PROVE  LET status == dwThreadStatus[t]
                          runsOn == {c \in CPU : CurrentKernelThread[c] = t}
                      IN /\ \A c \in CPU, p \in Levels :
                              Copies(ThreadQueue[c][p], t) =
                                IF /\ status = "READY" /\ ~BeingWoken(t)
                                   /\ c = cpuAffinity[t] /\ p = Priority[t]
                                THEN 1 ELSE 0
                         /\ runsOn \subseteq {cpuAffinity[t]}
                         /\ status = "RUNNING" => runsOn # {}
                         /\ t \in lpSuspendedQueue <=> status = "SUSPENDED"
                         /\ t \in lpTerminalQueue <=> status = "TERMINAL"
                         /\ status = "DESTROYED" => runsOn = {} /\ lpWaitingQueue[t] = <<>>
    BY DEF EveryThreadIsInItsPlace
  <2>1. ASSUME NEW c \in CPU, NEW p \in Levels
        PROVE  Copies(ThreadQueue[c][p], t) =
                 IF /\ dwThreadStatus[t] = "READY" /\ ~BeingWoken(t)
                    /\ c = cpuAffinity[t] /\ p = Priority[t]
                 THEN 1 ELSE 0
    <3>1. /\ ThreadQueue[c][p] \in Seq(Threads) /\ IsInjective(ThreadQueue[c][p])
          /\ ObjectInQueue(ThreadQueue[c][p], t)
               <=> t \in QueuedThreads /\ c = cpuAffinity[t] /\ p = Priority[t]
      BY DEF ReadyAreQueued, QueuesHold
    <3>2. Copies(ThreadQueue[c][p], t) = IF ObjectInQueue(ThreadQueue[c][p], t) THEN 1 ELSE 0
      BY <3>1, OneCopy
    <3> QED BY <3>1, <3>2 DEF QueuedThreads
  <2>2. \A c \in CPU : CurrentKernelThread[c] = t => c = cpuAffinity[t]
    BY DEF CurrentIsOwn
  <2>3. dwThreadStatus[t] = "RUNNING" =>
          cpuAffinity[t] \in CPU /\ CurrentKernelThread[cpuAffinity[t]] = t
    BY DEF CurrentIsOwn, TypeOK
  <2>4. dwThreadStatus[t] = "DESTROYED" =>
          CurrentKernelThread[cpuAffinity[t]] # t /\ lpWaitingQueue[t] = <<>>
    BY DEF EndInOrder, NotYetHappened
  <2> QED BY <2>1, <2>2, <2>3, <2>4 DEF StatusIsQueue
<1> QED BY <1>1, Invariance, PTL

\* Nobody sleeps for what has already happened, and a BLOCKED thread is in
\* exactly one queue of waiting threads, once: GetMessage, SendMessage,
\* WaitForKernelThreadObject and KernelThreadClean cannot miss each other.
THEOREM WaitersCanBeFound == Spec => []NobodyWaitsInVain
<1>1. ASSUME IInv
      PROVE  NobodyWaitsInVain
  <2> USE <1>1 DEF IInv
  <2> SUFFICES ASSUME NEW t \in Workers
               PROVE  /\ lpMsgWaitingQueue[t] # <<>> => ucCurrentMsgNum[t] = 0
                      /\ lpWaitingQueue[t] # <<>> =>
                           dwThreadStatus[t] # "TERMINAL" \/ pc[t] = "wake"
                      /\ Copies(lpMsgWaitingQueue[t], t)
                           + Cardinality({u \in Workers : ObjectInQueue(lpWaitingQueue[u], t)})
                           = IF dwThreadStatus[t] = "BLOCKED" THEN 1 ELSE 0
    BY DEF NobodyWaitsInVain
  <2> DEFINE ends == {u \in Workers : ObjectInQueue(lpWaitingQueue[u], t)}
  <2>1. t \in Threads /\ \A u \in Workers : u \in Threads
    BY DEF Threads
  <2>2. Copies(lpMsgWaitingQueue[t], t) = IF InMessageQueue(t) THEN 1 ELSE 0
    BY <2>1, OneCopy DEF TypeOK, BlockedAreQueued, InMessageQueue
  <2>3. Copies(lpMsgWaitingQueue[t], t) + Cardinality(ends)
          = IF dwThreadStatus[t] = "BLOCKED" THEN 1 ELSE 0
    <3>1. CASE dwThreadStatus[t] # "BLOCKED"
      <4>1. ends = {} /\ ~InMessageQueue(t)
        BY <2>1, <3>1 DEF BlockedAreQueued, WaitsForEnd, InMessageQueue
      <4> QED BY <2>2, <3>1, <4>1, FS_EmptySet
    <3>2. CASE dwThreadStatus[t] = "BLOCKED" /\ InMessageQueue(t)
      <4>1. ends = {}
        BY <2>1, <3>2 DEF BlockedAreQueued, WaitsForEnd
      <4> QED BY <2>2, <3>2, <4>1, FS_EmptySet
    <3>3. CASE dwThreadStatus[t] = "BLOCKED" /\ ~InMessageQueue(t)
      <4>1. PICK u \in Workers : WaitsForEnd(t, u)
        BY <2>1, <3>3 DEF BlockedAreQueued
      <4>2. ends = {u}
        BY <2>1, <4>1 DEF BlockedAreQueued, WaitsForEnd
      <4> QED BY <2>2, <3>3, <4>2, FS_Singleton
    <3> QED BY <3>1, <3>2, <3>3
  <2> QED BY <2>1, <2>3 DEF NotYetHappened
<1> QED BY <1>1, Invariance, PTL

\* The only BUG_ON that is ever reached is that of ScheduleFromProc for a thread
\* that the end of another thread has marked READY and not yet added to a ready
\* queue: AddReadyKernelThread never meets a thread that is queued already.
OnlyAWakeUpStops ==
  [][~panic /\ panic' =>
       \E c \in CPU : /\ ScheduleFromProc(c) /\ ScheduleReady(c)
                      /\ BeingWoken(CurrentKernelThread[c])]_vars

LEMMA NotQueued ==
  ASSUME IInv, NEW t \in Threads, t \notin QueuedThreads
  PROVE  InReadyQueue(t) = FALSE
<1>1. QueuesHold(ThreadQueue, QueuedThreads, cpuAffinity)
  BY DEF IInv, ReadyAreQueued
<1> QED BY <1>1 DEF InReadyQueue, QueuesHold

LEMMA SchedulerStops ==
  ASSUME IInv, NEW c \in CPU, ScheduleFromProc(c), ~panic, panic'
  PROVE  ScheduleReady(c) /\ BeingWoken(CurrentKernelThread[c])
<1> DEFINE current == CurrentKernelThread[c]
<1>1. ScheduleTerminal(c) \/ ScheduleRunning(c) \/ ScheduleReady(c) \/ ScheduleWaiting(c)
  BY DEF ScheduleFromProc
<1>2. ~ScheduleTerminal(c) /\ ~ScheduleRunning(c)
  BY DEF ScheduleTerminal, ScheduleRunning
<1>3. ~ScheduleWaiting(c)
  <2>1. ASSUME ScheduleWaiting(c)
        PROVE  FALSE
    <3>1. ReadyLevels(c, 0) # {}
      BY <2>1, IdleToTheRescue DEF ScheduleWaiting
    <3> QED BY <2>1, <3>1 DEF ScheduleWaiting, SwapOut
  <2> QED BY <2>1
<1>4. ScheduleReady(c)
  BY <1>1, <1>2, <1>3
<1>5. dwThreadStatus[current] = "READY" /\ ReadyLevels(c, Priority[current]) = {}
  BY <1>4 DEF ScheduleReady
<1>6. current \in Threads /\ cpuAffinity[current] = c /\ Priority[current] \in Nat
  BY ThreadsAssumption DEF IInv, TypeOK, CurrentIsOwn
<1>7. QueuesHold(ThreadQueue, QueuedThreads, cpuAffinity)
  BY DEF IInv, ReadyAreQueued
<1> HIDE DEF current
<1>8. Priority[current] >= Priority[current]
  BY <1>6
<1>9. current \notin QueuedThreads
  BY <1>5, <1>6, <1>7, <1>8, QueuedIsReadyLevel
<1>10. BeingWoken(current)
  BY <1>5, <1>6, <1>9 DEF QueuedThreads
<1> QED BY <1>4, <1>10 DEF current

THEOREM WakeUpIsTheOnlyStop == Spec => OnlyAWakeUpStops
<1>1. ASSUME IInv, Next, ~panic, panic'
      PROVE  \E c \in CPU : /\ ScheduleFromProc(c) /\ ScheduleReady(c)
                            /\ BeingWoken(CurrentKernelThread[c])
  <2>1. ~\E t \in Workers : KernelThreadClean(t) \/ kSuspendKernelThread(t) \/ GetMessage(t)
                            \/ MarkWaiter(t) \/ AllWoken(t)
    BY <1>1 DEF KernelThreadClean, kSuspendKernelThread, GetMessage, MarkWaiter, AllWoken
  <2>2. ~\E t, u \in Workers : Create(t, u) \/ (\E c \in CPU : ChangeAffinity(t, u, c))
                               \/ WaitForKernelThreadObject(t, u) \/ DestroyKernelThread(t, u)
    BY <1>1 DEF Create, ChangeAffinity, WaitForKernelThreadObject, DestroyKernelThread
  <2>3. ASSUME NEW t \in Workers, NEW u \in Workers, kResumeKernelThread(t, u)
        PROVE  FALSE
    <3>1. dwThreadStatus[u] = "SUSPENDED" => u \in Threads /\ u \notin QueuedThreads
      BY DEF QueuedThreads, Threads
    <3> QED BY <1>1, <2>3, <3>1, NotQueued DEF kResumeKernelThread
  <2>4. ASSUME NEW u \in Workers, PutMessage(u)
        PROVE  FALSE
    <3> DEFINE w == HeaderElement(lpMsgWaitingQueue[u])
    <3>1. WakeReceiver(u) /\ u \in Threads
      BY <2>4 DEF PutMessage, Threads
    <3>2. lpMsgWaitingQueue[u] # <<>> /\ panic' = InReadyQueue(w)
      BY <1>1, <3>1 DEF WakeReceiver
    <3>3. lpMsgWaitingQueue[u] \in Seq(Workers) /\ IsInjective(lpMsgWaitingQueue[u])
      BY <1>1, <3>1 DEF IInv, TypeOK, BlockedAreQueued
    <3>4. w \in Workers /\ ObjectInQueue(lpMsgWaitingQueue[u], w)
      BY <3>2, <3>3, HeaderTaken
    <3>5. w \in Threads /\ dwThreadStatus[w] = "BLOCKED"
      BY <1>1, <3>1, <3>4 DEF IInv, BlockedAreQueued, Threads
    <3>6. w \notin QueuedThreads
      BY <3>5 DEF QueuedThreads
    <3> HIDE DEF w
    <3> QED BY <1>1, <3>2, <3>5, <3>6, NotQueued
  <2>5. ASSUME NEW t \in Workers, AddWaiter(t)
        PROVE  FALSE
    <3>1. /\ waking[t] # NoThread /\ panic' = InReadyQueue(waking[t])
      BY <1>1, <2>5 DEF AddWaiter
    <3>2. waking[t] \in Threads /\ BeingWoken(waking[t])
      BY <1>1, <3>1 DEF IInv, TypeOK, BeingWoken, Threads
    <3>3. waking[t] \notin QueuedThreads
      BY <3>2 DEF QueuedThreads
    <3> QED BY <1>1, <3>1, <3>2, <3>3, NotQueued
  <2>6. ASSUME NEW c \in CPU, ScheduleFromInt(c)
        PROVE  FALSE
    <3>1. dwThreadStatus[CurrentKernelThread[c]] = "SUSPENDED" /\ SwapOut(c)
      BY <1>1, <2>6 DEF ScheduleFromInt
    <3>2. ReadyLevels(c, 0) # {}
      BY <1>1, <3>1, IdleToTheRescue
    <3> QED BY <1>1, <3>1, <3>2 DEF SwapOut
  <2>7. ~ClientStep
    BY <2>1, <2>2, <2>3, <2>4 DEF ClientStep, SendMessage, SendTimerMessage
  <2>8. PICK c \in CPU : ScheduleFromProc(c)
    BY <1>1, <2>1, <2>5, <2>6, <2>7 DEF Next, KernelStep
  <2> QED BY <1>1, <2>8, SchedulerStops
<1>2. IInv /\ [Next]_vars =>
        [~panic /\ panic' => \E c \in CPU : /\ ScheduleFromProc(c) /\ ScheduleReady(c)
                                            /\ BeingWoken(CurrentKernelThread[c])]_vars
  BY <1>1
<1> QED BY <1>2, Invariance, PTL DEF Spec, OnlyAWakeUpStops
=============================================================================
