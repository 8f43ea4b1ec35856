# Verification of the HelloX kernel

TLA+ models of the HelloX operating system kernel (`src/kernel/kernel`), the TLC
instances that check them and the theorems that TLAPS proves about them.  The
subject is the code as it is built with the repository's configuration
(`src/kernel/config/config.h`): IA32, SMP, with the interrupt, VMM and process
options on.  What the project knows of the code it takes from the code; comments
and documents are quoted only where the code disagrees with them.

- [Inventory](#inventory): the parts of the system, what is hard about each
- [Plan](#plan): modules, order, abstract specifications, theorems
- [The modules](#the-modules): how state and actions correspond to the code
- [Runs](#runs): what each run asks, its bounds, what it shows
- [Fairness](#fairness)
- [Proofs](#proofs)
- [What the models leave out](#what-the-models-leave-out)

## Inventory

HelloX is a kernel (1,003 files below `src/kernel`), a network stack (lwIP and a
newer one, `netcore`), USB, file systems, a shell, a JavaScript engine
(`JerryEngine`), a GUI, applications and tools.  The kernel proper is the 24,500
lines of `src/kernel/kernel`, and the parts that everything else rests on are the
ones below.  "Modelled" parts have a module; the others are listed with the reason
they have none, and again under "components" in `PROJECT.json`.

### Synchronisation objects (modelled)

All have a spin lock, a waiting queue, `WaitForThisObject` (for ever) and
`WaitForThisObjectEx` (with a time-out).  A wait that blocks queues the caller
under the lock of the object *and* that of the thread, leaves both and calls
`ScheduleFromProc`.  Waking takes the header of the queue under the object's lock
and marks it READY under the thread's lock.  A timed wait goes through
`TimeOutWaiting` (`synobj.c:81`), which sets a one-shot timer; its handler runs in
the timer interrupt, holds the lock of the *thread*, and decides by
`dwWaitingStatus` and by the success of `DeleteFromQueue` whether the thread has
timed out.  So a wake-up and a time-out of the same thread race, and a thread that
was decided upon runs only later.

| Part | State | Operations | What is hard | What makes it correct |
|---|---|---|---|---|
| mutex (`synobj.c:546-945`) | status, owner, depth, `dwWaitingNum`, queue | wait, timed wait, try, release, destroy | direct hand-off decided by a *count*, while time-outs, with a call back of their own, change count and queue | one owner; ownership is never given to a thread that gave up; the count is owner plus queue |
| semaphore (`synobj2.c:20-437`) | units, limit, queue by priority | wait, timed wait, release, destroy | units are not handed over: barging, retries with a remaining time | no unit beside a sleeping waiter; a wait does not outlive its time |
| mailbox (`synobj2.c:440-1106`) | ring of messages, two queues | get, send, timed, set size, destroy | wake conditions "was full" / "was empty", retries, wrap-around | a FIFO channel; nobody sleeps beside mail or beside a free slot |
| event (`synobj.c:180-543`) | FREE or OCCUPIED, queue | wait, timed wait, set, pulse, reset, destroy | loops that wake one thread after the other while timers fire | a signal reaches whoever waits, a wait reports what it got |
| condition (`condvar.c`) | queue, counter | wait, timed wait, signal, broadcast | releases a mutex under its own lock and takes it again; a counter beside the queue; a time-out call back | the count is the sleepers; the mutex is held on return; a time-out is reported only if no signal was spent |
| multi-object wait (`synobj.c:948-1440`) | - | - | - | not compiled under SMP |

### Time (modelled): `system.c`, `ktmgr.c:1355`

`SetTimer`, `CancelTimer`, `Sleep` and the timer interrupt keep a timer queue and a
sleeping queue sorted by `MAX_DWORD_VALUE - tick`, and one noted tick per queue with
which the clock is compared for *equality*.  Hard: the note must be exact after
every insertion, deletion and expiry, and the 32-bit counter wraps.

### Spin locks (modelled): the nesting of `__ENTER_CRITICAL_SECTION_SMP`

Each object, each thread, `System` and `KernelThreadManager` has a spin lock, and
the paths nest up to three of them.  Hard: an order over all paths that no test on
one CPU exercises.

### Object manager (modelled): `objmgr.c`

Lists of objects by type, identifiers, reference counts.  Destruction leaves the
lock twice, once to run the object's `Uninitialize`, which may refuse.

### Kernel threads and scheduling (modelled in part): `ktmgr.c`, `ktmgr2.c`

Ready queues by CPU and priority, suspended, sleeping, killed and terminal queues,
suspend counters, thread-end waiters, affinity, a ring of 32 messages for each
thread, and two schedulers: `ScheduleFromProc`, which a thread calls after it has
changed its status, and `ScheduleFromInt`.  Hard: a status and a queue have to agree
under transitions that several CPUs start: a thread can be woken, or interrupted,
after it has blocked and before it is swapped out.  What makes it correct: the
status says which queue a thread is in, nobody sleeps for what has happened, and the
threads of one priority take turns.

### Memory (modelled in part): `mem_fbl.c`, `kmemmgr.c`, `memmgr.c`

A free list with splitting and combination of neighbours, pools of 4K pages as bit
maps with a cache of the largest free run, and a buddy allocator of page frames.
Hard: links in two directions, counters and caches that have to follow every split
and merge, in any order of calls.  What makes them correct: blocks tile the memory,
the lists hold exactly the free blocks, neighbours are combined, caches are exact.
`heap.c` is called by nothing; `pageidx.c` fills the page tables of the hardware,
`vmm.c` and `vmm2.c` keep the areas of a process: not modelled.

### Processes and user threads (not modelled): `process.c`, `process2.c`

Link between a process and its threads, TLS keys, destruction of a process when its
last thread ends.

### Input and output managers, devices, drivers (not modelled)

`iomgr.c`, `iomgr2.c`, `devmgr.c`, `dim.c`, `pci_drv.c`, `drivers/`: dispatch tables
and hardware registers.  Their concurrency is that of the objects above.

### Everything above the kernel (not modelled)

lwIP (`network/`), `netcore/`, `usb/`, `ssh/`, `fs/`, `shell/`, `JerryEngine/`,
`gui/`, `app/`, `hxlib/`, `iotcloud/`, `sdk/`, `tools/`: vendored, generated, or
clients of the kernel interface.

## Plan

The order is that of importance: what every other part of the system waits on comes
first.

1. `PriorityQueue`, `KernelMutex`, its abstract specification `HandOffLock`, and the
   proofs `KernelMutexProofs` with `QueueLemmas`. *Done.*
2. `KernelSemaphore`; `KernelMailbox` with its abstract specification
   `BoundedChannel`; `KernelEvent`. *Done.*
3. `SystemClock`. *Done.*
4. `ObjectManager`. *Done.*
5. `SpinLockOrder`: the critical sections of 1 to 3 taken apart. *Done.*
6. `KernelCondition`, which composes the mutex: the count, the mutex on return, the
   result of a timed wait, and the mutex seen by its other clients.  *Done.*
7. `KernelThreads`: thread states and queues, both schedulers, resumption, messages,
   the end of a thread against its waiters, the reference count.  *Done.*
8. `KernelMemory` and `PageFrames`: the allocators against what an allocator is.
   *Done.*
9. Termination of another thread, the killed queue and its clean-up by the idle
   threads; suspension of another thread.  Virtual areas; links between processes
   and threads.

Theorems, most important first (what they say is under [Proofs](#proofs)):

- mutex: type, exclusion, hand-off, timers, count, no BUG, refinement. *Proved.*
- condition, on top of the invariant of the mutex: count, result, mutex on return, the
  mutex still a hand-off lock. *Proved.*
- semaphore: no lost wake-up, exact queue, priority. event: no waiter of a free event,
  honest reports. mailbox: waiters, the ring implements the channel. *Proved.*
- threads: every thread is in its place, nobody waits in vain, where the machine
  stops. *Proved.*
- object manager: exact counts, no use of the destroyed. *Proved.*
- clock: exact notes, nothing missed, nothing early, before the counter
  wraps. *Proved.*
- spin locks: no thread is made ready twice or left behind; no circular wait when no
  object with a time-out call back is waited for with a time-out, from the order of
  the locks. *Proved.*
- memory: blocks tile the regions, the free list is in order and coalesced, counters
  and pools are exact. *Proved.*

## The modules

`PriorityQueue` models `objqueue.c`: a queue is a sequence, an insertion goes behind
all elements of equal or higher priority (the C code scans from the tail).  A queue
has a spin lock of its own, so its operations are atomic and the other modules use
them as functions.  The four operations are the ones the kernel calls.

**`KernelMutex`**.  One step is one critical section of the mutex spin lock.  The
variables `dwMutexStatus`, `dwWaitingNum`, `lpCurrentOwner`, `nCurrOwnCount` and
`lpWaitingQueue` are the fields of the object, `dwThreadStatus` and
`dwWaitingStatus` those of the threads; `pc` says where a thread is between the
critical sections of one call, `timer` what has become of the timer of
`TimeOutWaiting`.  `held` is the client's view: what it was told it acquired and has
not released.  `panic` is a reached `BUG`.  `TakeFree`, `TakeAgain`, `TryFails`,
`WaitForMutexObject` and `WaitForMutexObjectEx` are the branches of the wait calls;
`SetTimer`, `WaitingTimerHandler`, `WokenUpTimed` and `CancelTimer` those of
`TimeOutWaiting`, with `MutexTimeOutCallback` inside the handler; `ReleaseInner`,
`ReleaseFree` and `ReleaseHandOff` those of `__ReleaseMutex`.  With `AllocMayFail`
the memory for a queue element or for a timer may be missing.  The thread's status
is READY in the model from the moment it is made ready, whether or not a CPU has
taken it up.  The critical sections are atomic here: that two CPUs may wait for each
other inside them is the subject of `SpinLockOrder`.

**`HandOffLock`** says what a mutex is, with an owner, a depth and a line.
`KernelMutex` implements it under a mapping that forgets all counters and statuses.

**`KernelSemaphore`**.  `ReleaseSemaphore` and `SemUninitialize` are split where
they have taken a thread out of the queue (`popped`) and do not have its lock yet,
because the timer handler needs only the latter.  A thread that was woken goes back
to `__TRY_AGAIN` (`again`, `againTimed`); `late` says that the tick its time ends
with has passed.  `TryFreed` is a thread that was woken before a destruction and
tries again after it: what it finds in freed memory is left open.

**`KernelMailbox`** has the ring with its two indices and its counter, and the two
queues.  The body of `__SendMail` and the wake-up loop of `_GetMail` are parts of
the steps that put and get.  **`BoundedChannel`** says what it promises: the buffer
of the channel is read off the ring by the refinement mapping.

**`KernelEvent`** keeps the event lock while a loop wakes thread after thread
(`waking`), with the same split as the semaphore.  `takenFor` is a history variable:
why a thread was taken out of the queue.

**`SystemClock`** counts in ticks.  `timerTick` and `wakeupTick` are the ticks the
code keeps as priorities; the arithmetic is modulo `MaxTick + 1`.  The interrupt is
two critical sections, and inside the first each expired timer is a step
(`FireOnce`, `FireKept`, `FirePeriodic` for the three kinds of flags).  The loop that
takes sleepers off the queue as long as the header is due is one step that takes
`NumberDue` of them.

**`ObjectManager`** has one step for each time the object manager holds its lock:
`DestroyObject` (the last reference: unlink), `Relink` or `Free` (after
`Uninitialize`), and the search for the maximal identifier, `UpdateMaxID`, which the
code does after it has freed the object.

**`SpinLockOrder`** has CPUs, spin locks and code paths.  A path is the sequence of
steps that are left to do, for instance "enter the object, take the header of its
queue, enter that thread, make it ready, leave, leave".  The paths are those of all
the objects above, of the condition (which enters a mutex inside its own section),
of `Sleep`, `SetTimer`, `CancelTimer` and of the timer interrupt, whose handler runs
under `System`'s lock.  Calls are split where they hold no lock: there an interrupt
may come in, which is then a path of an idle CPU.

**`KernelCondition`** extends `KernelMutex` and takes its steps apart: `CondWait` and
`CondWaitTimeout` queue the caller and release the mutex by `cond_ReleaseMutex`, the
copy of `__ReleaseMutex` in `condvar.c:104` that does not reschedule; afterwards the
thread is a client that takes the mutex by the mutex's own steps (`TakeBack`), and
`condCall` tells the two apart.  `CondTimeOutCallback` is the handler with its call
back.  `signalled` is a history variable: whom a signal was spent on.  The property
`ImplementsHandOffLock` is that of the mutex, asked of the composition.  The steps of
the condition take it that memory for queue elements and timers is there: the
composition is run with `AllocMayFail = FALSE`, and its theorems have `~AllocMayFail`
as a hypothesis.

**`KernelThreads`** has the current thread of each CPU, the ready queues by CPU and
priority, and the status of each thread.  A thread changes its status in one step
and calls `ScheduleFromProc` in another (`pc` is "schedule" or, from `GetMessage`,
"scheduleGet"): between them another CPU may make it ready again and its own CPU may
take an interrupt.  `ScheduleRunning`, `ScheduleReady`, `ScheduleWaiting` and
`ScheduleTerminal` are the cases of its switch.  `ScheduleFromInt` is the scheduler
of interrupts; a thread that was interrupted in state BLOCKED, READY or TERMINAL is
on its way to `ScheduleFromProc` and goes on, as the code has it.  The end of a
thread is taken apart into `KernelThreadClean`, then for each waiter `MarkWaiter`
and `AddWaiter`, then `AllWoken`, since this is the one waker that does not hold the
lock of the thread it wakes.  `DestroyObject` drops a reference: that of the thread
itself in `ScheduleTerminal`, that of the creator in `DestroyKernelThread`.  A ring of
messages is its length.  `panic` is a reached `BUG_ON`.

**`KernelMemory`** has the blocks of `mem_fbl.c` as records at their addresses, with
the links of the code in both directions, and the pools of `kmemmgr.c` as sets of
pages whose bit is set.  `Allocate` is first fit with `Separate` or `AllocateWhole`;
`KMemFree` and the regions added at start-up (`AppendBuffer`) both are
`ReleaseAndCombine`.  The words of a bit map, and the search for a run in it word by
word, are abstracted to the set of pages.

**`PageFrames`** keeps the fields of the control record of each frame, also those a
block leaves behind when it is taken from a list, because the code reads them again.

## Runs

Each run is a `.cfg` file and an MC module that only adds symmetry sets and constant
functions.  Deadlock is checked where the system can always do something
(`mutex`, `spin_lock`, `memory`, `page_frames_bug`).  The others may stop: an object is
destroyed or a bound is reached; all threads wait in the condition, one of them perhaps
owning the mutex it took twice; all CPUs are idle or a `BUG_ON` has stopped the
machine.

| Run | Instance | Asks | Answer |
|---|---|---|---|
| `mutex` | 3 threads, depth 2 | types; exclusion; hand-off; count; no BUG; timers do not outlive calls; implements `HandOffLock`; timed waits return; destruction releases waiters | holds, 182,416 states |
| `semaphore` | 3 threads, 2 priorities, up to 2 units | no lost wake-up; queue; priority; a timed wait returns | holds, 126,730 states |
| `mailbox` | 3 threads, 2 messages, 1 or 2 slots | FIFO channel; who waits where | holds, 247,103 states |
| `event` | 2 threads | no waiter of a free event; reports; a signal releases all | holds, 16,607 states |
| `condition` | 3 threads, 2 priorities, depth 2 | count; the mutex on return; results of timed waits; the mutex still implements `HandOffLock` | holds, 1,074,183 states |
| `clock` | 2 timers, 2 sleepers, spans 1 to 3 | notes; nothing missed; nothing early; the interrupt ends | holds up to the wrap, 254,835 states |
| `threads` | 2 CPUs, 3 threads beside the idle ones | status and queues agree; nobody waits in vain; a ready thread runs | holds, 112,908 states |
| `memory` | 4 regions (17 cells), 2 pools of 3 pages | tiling; coalesced list; exact pools | holds, 155,483 states |
| `objects` | 2 types, 4 objects, 2 references | counts; no use of the destroyed | holds, 15,120 states |
| `spin_lock` | 3 CPUs, 2 threads, an event, a mutex, a condition | no circular wait; one wake-up; nobody stranded | holds, 154,439 states |
| `spin_lock_time_out_bug` | a mutex waited for with a time-out | no circular wait | violated |
| `page_frames_bug` | 4 frames, 2 levels | a block taken or combined has left its list | violated |

Why the bounds are enough to meet the interesting cases:

- Three threads are an owner and two waiters, so the order of a queue matters, a
  waiter can time out beside another one, and a thread can barge between a wake-up
  and the woken thread.  Depth 2 meets the recursive release.
- In the condition, three threads are two waiters and the one that signals, or a
  waiter, the owner and a thread in the queue of the mutex, to which the wait
  hands over.  One thread has a higher priority than the two others.
- An event needs no thread to signal it (an interrupt handler may), so two threads
  are two waiters: one taken out of the queue, one still in it, and a timer for
  each.
- Two slots and three threads meet a full and an empty mailbox, wrap-around and a
  change of the size (`MaxSize` bounds the sizes).  Two messages are enough to tell
  an order.
- Two timers with spans 1 to 3 give equal ticks, an earlier timer after a later
  one, cancellation of the header and of another one, and every pair of kinds in
  one interrupt; two sleepers the same.  `LastTick` bounds the clock so that
  no timer is due at `MaxTick` or after the wrap.
- Two workers of one priority share the first CPU, so they take turns and can wake
  each other on one CPU; the third, of lower priority, is placed on the second
  (`Placement`) and wakes across CPUs; a thread is created on its creator's CPU and
  moved before it is resumed.  One worker of each CPU reads messages (`Receivers`);
  a ring of one message is full and empty (`MAX_KTHREAD_MSG_NUM`).
- The regions are one, a second that touches it, one that is too small and one apart;
  a header is one cell and so is the smallest block, so that a rest can be too small
  for a block.  A pool of three pages has two runs around a used page, and the second
  pool serves what the first cannot.
- `MaxObjects` bounds the identifiers ever given out, `MaxRefs` the references.
- `MaxOwn` bounds the recursion of a mutex and `MaxSem` the limit of a semaphore.
  None of these bounds is in the code.

### What the violations say

1. *Spin locks.*  `WaitingTimerHandler` enters the thread and then, by the call back,
   the mutex; `__ReleaseMutex` enters the mutex and then the thread.  The
   same holds of `CondTimeOutCallback`.  Both CPUs spin until `__raw_spin_lock`
   gives up, and `__ENTER_CRITICAL_SECTION_SMP` then reaches its `BUG_ON`.
2. *Page frames.*  When `__FrameAlloc` takes the first block of a list, it resets
   `lpPrevFrame` of the block it takes and not that of the block that becomes the
   first (`memmgr.c:465-467`).  When that one is later combined with its buddy,
   `__FrameFree` takes it for a block further down (`memmgr.c:596`) and does not move the
   head of the list: the list still leads to a block that is now part of a
   larger one, and would give it out again.

### Seen while modelling

These follow from the code and have no run of their own.

- *Semaphore destruction* wakes the waiters only if no unit is free
  (`synobj2.c:412`).  Waiters and a free unit exist together after a wake-up whose
  thread has not run yet; those waiters stay blocked.
- *Mail without a getter.*  `__SendMail` wakes one getter, and only when the mailbox
  was empty (`synobj2.c:776`).  Two messages sent in a row to two getters wake one;
  the other stays blocked although mail is available.
- *Lost objects.*  The search for the maximal identifier runs only when the largest
  object goes; when another one goes, *its* identifier is recorded as the maximum
  (`objmgr.c:446`), and `GetObjectByID` no longer finds larger ones.
- *End of a thread.*  The waiters of a thread that ends are marked READY without
  their locks and added to a ready queue afterwards (`ktmgr2.c:509-514`).  If the
  waiter has blocked on another CPU and is on its way to `ScheduleFromProc`, that finds
  it READY and in no ready queue, against the assumption in the comment at
  `ktmgr.c:838`, and may reach `BUG_ON(NULL == lpNew)` (`ktmgr.c:845`).
  `KernelThreads` has this as `panic`: `~panic` fails as an invariant of `MCThreads`
  after ten steps.
- *Suspension of another thread.*  `kSuspendKernelThread` (`ktmgr.c:706`) puts a thread
  into the suspended queue whatever its status.  A READY one stays in its ready queue
  as well, and the next resumption reaches the `BUG_ON` of `AddReadyKernelThread`; a
  BLOCKED one stays in the queue of its object and is resumed as if it had been
  served.
- *Priority of a queued thread.*  `kSetThreadPriority` changes the priority of a
  thread that is in a ready queue; `AddReadyKernelThread` then looks for it in another
  queue than the one it is in.
- *Affinity.*  `_ChangeAffinity` of a thread that is still running lets another CPU
  run it before its context was saved.  Its callers (`sys_arch.c:68`, `hhtt.c:1030`)
  move new, suspended threads only, and so does the model.
- *Termination of another thread* only sets a flag (`ktmgr.c:1340`), which is looked
  at when the thread is next made ready: the thread is then put into the killed queue
  with its status unchanged, and whatever object it waits for still has it queued.
- *Own stack.*  A thread that ends may drop the last reference to its own object in
  `ScheduleFromProc` (`ktmgr.c:913`), which frees the stack it is running on
  before it switches to the next thread.
- *4K pools.*  `_4kAllocate` and `_4kFree` (`kmemmgr.c:215`) have no lock, and their
  callers hold that of a process at most.
- *Result of `CondWait`.*  It returns what the mutex said (`condvar.c:298`), so a
  waiter of a destroyed condition is told RESOURCE.
- *Owner of a block.*  `Free` accounts the size to the thread that allocated the block if
  that thread object still looks alive (`mem_fbl.c:414-417`); a new thread in
  the same memory would reach its `BUG_ON`.

- *Mutex without memory.*  `WaitForMutexObject` counts a waiter and blocks it but
  ignores whether `InsertIntoQueue` could allocate its element (`synobj.c:688`).
  The next release finds a count without a thread and stops in
  `BUG_ON(NULL == lpKernelThread)` (`synobj.c:619`).  With `AllocMayFail` the model
  has this as `panic`; `NoPanic` holds without it.
- *Timed get.*  The check of `dwTimeOutTick` in `_GetMail` (`synobj2.c:675`) is in
  `#if 0`, so a getter that is woken and overtaken waits for the whole time again,
  although the comment at `synobj2.c:587` promises a return.
- *Destroyed event.*  `kWaitForEventObject` returns `OBJECT_WAIT_RESOURCE` without a
  look at `dwWaitingStatus` (`synobj.c:463`).
- *Clock wrap.*  `MAX_DWORD_VALUE - tick` (`system.c:958`) sorts a tick after the
  wrap before the ones that come earlier, and the comparison for equality never
  meets those.  With `LastTick` beyond `MaxTick`, `NoTimerMissed` fails.
- *Interrupt at the last tick.*  A fired `NOAUTODEL` timer is put back with priority
  0, that is for the last tick (`system.c:140`); when the clock gets there the loop
  serves it without end.  With `LastTick` beyond `MaxTick`, `InterruptEnds` fails.

## Fairness

Runs with a liveness property use `FairSpec` (their safety properties do not depend
on it), the others `Spec` (`CondSpec`, `SpinSpec` and `MemSpec` where a module's
names are prefixed, so that modules can be extended together).  Nothing is ever assumed of clients: they need not call,
release, send or signal.

- Weak fairness of the steps of a thread that is ready (`WokenUp`, `SetTimer`,
  `CancelTimer`, ...): the scheduler runs ready threads.  With strict priorities
  this is an assumption about the load: threads of higher priority block now and
  then.
- Weak fairness of `WaitingTimerHandler` (and of `ReachTimeOutTick`): the clock
  ticks; `SystemClock` is about what that takes.
- Weak fairness of the loops that wake waiters: a CPU that holds a spin lock with
  its interrupts off goes on.
- Weak fairness of `ScheduleFromInt` on each CPU: its clock interrupts.  Weak
  fairness of `KernelStep`: what a CPU is doing inside the kernel it goes on with.
  Both are what the hardware does; `ReadyThreadRuns` asks nothing of clients.
- Strong fairness of `Attempt` in `KernelSemaphore`: a thread that goes back to
  `__TRY_AGAIN` has to obtain the spin lock of the semaphore, which others hold for
  the time of a section only, now and then; a spinning CPU obtains it in the end.
  That is the one place where weak fairness is not enough, since the model shows
  the lock as held.

## Proofs

A theorem holds for every value of the constants that the named assumption of the
module allows (any set of threads, timers or objects, any bound), where TLC checks
one instance. Sets of threads need not even be finite; `ThreadsAssumption` says that
there are finitely many priority levels, as in the code. All are proved from one
inductive invariant per module, `IInv` (`CondIInv`, `SpinIInv`, `MemIInv`), in the
same form: `Init => IInv`, one lemma `<Action>Preserves` for each action,
`NextPreserves`, `Invariance`; the properties then follow from `IInv`, or from
`IInv` and one step. Each `IInv` was first checked by TLC on the instance of the
module's run (`RegionsCovered` for the addresses of the instance, the annotation of
`LocksBracketed` computed from the path). `KernelBaseProofs` holds the theorems of
three modules that share nothing but the lemmas about queues; it takes a quarter of
an hour to check from nothing. `QueueLemmas` has what the operations of a queue do
in general: deletion, insertion by priority, taking the header and appending keep a
queue free of duplicates, change its members as they say, and keep it sorted; a
header of a sorted queue has the highest priority.

| Theorem | States | Hypothesis |
|---|---|---|
| **`KernelMutexProofs`**: `TypeCorrect` | `[]TypeOK` | |
| `MutexExcludes` | `[]MutualExclusion` | |
| `HandOffReaches` | `[]NoLostHandOff` | |
| `TimersStayWithinCalls` | `[]TimerWithinCall` | |
| `CountIsExact` | `[]WaitingNumCounts` | allocations do not fail |
| `NoBugIsReached` | `[]NoPanic` | allocations do not fail |
| `MutexIsHandOffLock` | `ImplementsHandOffLock` | allocations do not fail |
| `CondCountIsExact` | `CondSpec => []CountIsWaiters` | allocations do not fail |
| `MutexOfConditionExcludes` | `CondSpec => [](NoPanic /\ MutualExclusion)` | allocations do not fail |
| `WaitReturnsOwning` | `CondSpec => ReturnsOwning` | allocations do not fail |
| `TimeOutsAreHonest` | `CondSpec => TimeOutMeansNoSignal` | allocations do not fail |
| `MutexOfConditionIsHandOffLock` | `CondSpec => ImplementsHandOffLock` | allocations do not fail |
| **`KernelSemaphoreProofs`**: `WakeUpsAreNotLost` | `[]NoLostWakeUp` | |
| `QueueIsExact` | `[]QueueIsTheWaiters` | |
| `PriorityDecides` | `ServedByPriority` | |
| **`KernelEventProofs`**: `NobodyWaitsForFree` | `[]FreeMeansNobodyWaits` | |
| `SignalIsReported` | `TimedWaitReportsSignal` | |
| **`KernelMailboxProofs`**: `NobodyWaitsBesideSlots` | `[]SendersWaitOnFull` | |
| `QueuesAreExact` | `[]QueuesAreTheWaiters` | |
| `MailboxIsChannel` | `ImplementsBoundedChannel` | |
| **`KernelThreadsProofs`**: `ReadyQueuesAreExact` | `[]EveryThreadIsInItsPlace` | |
| `WaitersCanBeFound` | `[]NobodyWaitsInVain` | |
| `WakeUpIsTheOnlyStop` | `OnlyAWakeUpStops` | |
| **`KernelBaseProofs`**, object manager: `CountIsExact` | `[]RefCountIsHolders` | |
| `DestroyedIsUnused` | `[]NobodyUsesDestroyed` | |
| spin locks: `SpinInvariance` | `SpinSpec => []SpinIInv` | no time-out on a condition |
| `ReadiedOnce`, `NobodyIsStranded` | `[]NoDoubleWake`, `[]NobodyStranded` | no time-out on a condition |
| `NoSpinDeadlock` | `[]NoCircularWait` | no time-out on a condition or a mutex |
| memory: `MemInvariance` | `MemSpec => []MemIInv` | |
| `MemoryIsTiled` | `[]BlocksTileRegions` | |
| `FreeListStaysCoalesced` | `[]FreeListIsCoalesced` | |
| `PoolsStayExact` | `[]PoolsAreExact` | |
| **`SystemClockProofs`**: `NotesMatchHeaders` | `[]NoteMatchesHeader` | `NoWrap` |
| `NoTimerIsMissed`, `NoSleeperIsMissed` | `[]NoTimerMissed`, `[]NoSleeperMissed` | `NoWrap` |
| `HandlersRunOnTheirTick` | `FiresOnTick` | `NoWrap` |
| `SleepsAreNotCutShort` | `SleepsToTheEnd` | `NoWrap` |

### Why the invariants are what they are

*Mutex.*  Exclusion alone is not inductive: that a thread which was handed the mutex
becomes its only holder depends on the waiting status of every thread agreeing with
where the thread is in its call, on the queue holding no thread twice and none
that was already served, and on an owner being either a holder or a served waiter.
The count needs a part of its own (owner plus queue), which a failed allocation
breaks: hence the hypothesis `~AllocMayFail`.  `NoPanic` needs one more fact, that
a timer which has not fired cannot find its own time-out (`ArmedIsNotTimedOut`).
The refinement maps each action to a step of `HandOffLock` or to a stutter.

*Condition.*  The parts that speak of the mutex only are `MutexInv`, and the lemmas of
the mutex's steps prove that they keep it whatever the rest of the state is.
`CondIInv` adds what the condition has: a call has its places, a thread sleeps
in the condition exactly as long as it has no reason to wake, the queue is the
sleepers, and whether a signal was spent on a timed wait is known until the call
returns, although the thread competes for the mutex in between and its
`dwWaitingStatus` is overwritten there.  `cond_ReleaseMutex` is treated as a release of
the mutex, so that the refinement follows from that of the mutex's own release.

*Semaphore.*  Between taking a thread out of the queue and entering its lock the timer
handler may decide; `PoppedWaits` says what the popped thread can still be, and
`UnitsAreAwaited` is the lost wake-up argument: a free unit beside sleepers is known
to a thread that is about to try for it.  *Event.*  The same split, and
`SignalIsRecorded` ties the history of why a thread was taken out to its status.

*Mailbox.*  `TailFollowsHeader` (the tail is the header plus the count, modulo the size)
turns the wrapping ring into a sequence; the lemmas about it are arithmetic modulo the
size, and getting and sending are shown to be `Tail` and `Append` of the channel's
buffer.

*Threads.*  `StatusIsQueue` relates status and queue, but a thread can be marked and not
yet moved, or moved and not yet marked; `WakingIsReady`, `EndInOrder` and
`NotYetHappened` say in which of the steps of a wake-up or an end each side is. The
idle thread of a CPU is always ready or running there (`IdleIsReady`), so that the
schedulers find a thread.  `OnlyAWakeUpStops` says what follows of the `BUG_ON`s: the
only step that reaches one is `ScheduleFromProc` of a thread that is marked READY and
not in a ready queue, the case described under "End of a thread" above.

*Object manager.*  The lists are the linked objects, `dwObjectNum` is their length, a linked
object is referenced, and the count is the references given out.

*Clock.*  Both queues are sorted, hold the timers and sleepers there are, have exact
notes and nothing behind the clock.  The note is exact between the sections of the
interrupt only; while the interrupt serves timers it is the present tick
(`TimerNote`), and a header is served until it is ahead of that, which makes
everything behind it ahead too.  `NoWrap` says that the clock, up to the last tick that
is looked at, plus any span fits the counter, and that the place where fired timers
are kept (the last tick) is not reached.  The code does not ensure that for ever: the
two entries about the clock under "Seen while modelling" say what happens after it.

*Spin locks.*  A path is a sequence of steps, so the invariant annotates it: for every
position there is the set of locks the CPU holds when it gets there, which is what it
holds now at the first and nothing at the end, and every step is legal with its set
(`LocksBracketed`).  Legal means that a lock is entered once and, without time-outs on
mutexes and conditions, only above all that are held, in the order System,
KernelThreadManager, condition, other object, thread; that only what is held is left;
and that the handlers run under the locks of the interrupt.  From that, `NoSpinDeadlock` is
the usual argument: a CPU of a circle wants a lock above all it holds, so does the
one that holds it, and there are five ranks.  `StepsFit` and `OnceEach` say what the
steps that are still to come take for granted of the thread they are about, which is
why a wake-up and a time-out on two CPUs make it ready once.  The two hypotheses are
about the code, not about the proof: with a time-out call back on a waited-for mutex or
condition the order is broken, which `spin_lock_time_out_bug` shows, and
`CondTimeOutCallback` does not look whether it found the thread in the queue, so that
who makes it ready would have to be decided by the status alone.  No code in the kernel
restricts time-outs to other objects; the theorems are about the objects without
such a call back, beside mutexes and conditions that are waited for without time-out.

*Memory.*  `FreeListIsCoalesced` follows the pointers from the header of the list, and
what following them meets cannot be said of one step.  The invariant says instead
that both pointers of each free block are its neighbours *by address*
(`LinkedByAddress`); that the list reaches everything then follows by counting, since
every free block below the k-th element is among the first k (`NthInOrder`).  Blocks are `Beside` each
other, which two that touch also are; no two free ones touch (`Coalesced`).  The
tiling is stated address by address (`RegionsCovered`), and `dwFreeSize` is the number
of the addresses in the payloads of free blocks (`CountsExact`), so that a merge, which
turns a header into payload, has to count `Header` in.  `ReleaseAndCombine` is an
insertion that keeps all but `Coalesced`, followed by up to two merges that restore it
(`InsertFact`, `CombineFact`); both decisions to merge are made before either merge, so
`CombineFact` has to show that the second is still right after the first.  An allocation
takes a block out, or puts the rest in its place (`AllocateWholeTakes`,
`SeparateTakes`); `Taken` is what both leave behind.  `MemoryAssumption` says of the
regions what `mem_scat.c` has: disjoint, not at address 0, the first one large enough
for a header.  For the pools: the map is the runs lent, runs are disjoint and end inside
the pool.  The last part is what `Find0String` needs, which goes on behind the end of
the map and takes what lies there for clear: a request that the cache admits has a
run inside, and the first one found is that or an earlier one.

### Only model-checked

- The liveness properties (a timed wait returns, a signal releases all, a ready thread
  runs, the interrupt ends, a destruction releases the waiters): fairness and ENABLED
  are out of reach of the provers used here.
- The deadlock check of the runs, which is about ENABLED too.
- `SpinLockOrder` with time-outs on mutexes and conditions, and `PageFrames`: each has
  a run that shows a violation.

All invariants and action properties of the passing runs are theorems, under the
hypotheses of the table.

## What the models leave out

- Wording, logging, statistics (`max_total_msg_num`), object signatures except as
  "the object exists", and parameters a call rejects before it does anything.
- In the modules of the synchronisation objects `ScheduleFromProc` is "the thread
  goes on once it is READY"; `KernelThreads` is about what that takes.
- Of threads: suspension by others, `kEnableSuspend`, a change of priority,
  termination by others with the killed queue and its clean-up, hooks, user stacks,
  and `LockKernelThread`, which nothing calls.  All are listed above with what they
  would do to the properties.  Sleep is in `SystemClock`.
- Of memory: `dwTotalMemSize` of threads, wrong addresses and sizes handed to
  `KMemFree`, two CPUs inside the 4K pools at once.
- Processes, virtual areas and everything above the kernel.  The share of the
  repository that the models cover is small because the repository is large:
  1.5 million lines, most of them vendored libraries (wolfSSL, lwIP, JerryScript,
  drivers) in `app`, `network` and their like, against 24,500 of the kernel proper.
- Failing allocations are modelled for the mutex only.
- In the mailbox, taking a waiter from a queue and making it ready is one step; the
  semaphore and the event show that the step between the two is harmless.
- A timer handler that calls `SetTimer` or `CancelTimer`: it would wait for
  `System`'s lock, which the interrupt holds.
- Interrupts do not nest, and spin locks under which no other is entered (queues,
  ready queues, the memory pool) are not in `SpinLockOrder`.
