# A TLA+ model of Theseus

Theseus is an operating system in which every part runs in one address space and
one privilege level, and the Rust compiler takes the place of hardware
protection. What the compiler does not check is what happens between tasks, CPUs
and interrupt handlers: who is woken, who is still on a stack that is being
freed, which frame is in some TLB. That is the subject of these modules.

Each definition is written from the Rust source. `PROJECT.json` gives, for every
definition that models code, the file and the lines (`map`), the questions TLC
answers (`runs`), a faulty variant of the code that each property detects
(`mutants`), the places where something can go wrong that a test would hardly
reach (`hazards`), and disagreements between code and documentation that a run
shows (`findings`). Section 8 lists all disagreements that were met on the way.

## 1. The system and its parts

A **task** (`kernel/task`) has a run state, one of Initing, Runnable, Blocked,
Exited and Reaped, held in an atomic cell that its own CPU, other tasks and
interrupt handlers change without a common lock. A **scheduler**
(`kernel/scheduler`, `kernel/scheduler_*`) takes the next runnable task from the
**runqueue** of a CPU (`kernel/runqueue*`), and `task_switch()` changes to its
stack. `kernel/spawn` creates tasks and cleans up after them.

On top of block() and unblock() stand the **wait queue** (`kernel/wait_queue`),
the **sleeping locks** (`kernel/mutex_sleep`), the **channels**
(`kernel/async_channel`, `kernel/rendezvous`), the **executor** of asynchronous
code (`kernel/dreadnought`) and **timed sleep** (`kernel/sleep`), whose wakeups
come from the timer interrupt. Beside them is **memory**: page tables, the
allocators of pages and frames, heaps, and the **TLB shootdown** that keeps the
CPUs' translation caches in step.

Everything else is listed under `components` in `PROJECT.json`, with the reason
when it is not modelled. For the parts that matter here:

| part | state | operations | what is hard | what should hold |
|---|---|---|---|---|
| wait_queue | queue of tasks | wait, wait_until, notify_one, notify_all, notify_specific | condition and queue are tested together, run states change outside the lock; tasks die or are woken by others while queued | no wakeup lost, no notification spent on a dead task |
| mutex_sleep | spin lock, queue | lock, read, write, try forms, drop of a guard | notify and release are two steps | exclusion; a free lock has no sleepers |
| async_channel | bounded queue, status, two counts, two wait queues | send, receive, try and slice forms, clone, drop | fast paths outside the wait queue's lock; count and status are two steps | no message beside a sleeping receiver, status says what is there |
| rendezvous | exchange state, two slots, two wait queues | send, receive | four hand-overs between two sides, WaitGuards that unblock on drop | each message exchanged once, both sides return |
| task, spawn | run state, exit mailbox, joinable flag, TASKLIST, runqueue | spawn, exit, kill, join, drop, suspend | check-then-store on the run state; cleanup in parallel with join | exit value taken once, nobody joins a running task, nothing is left behind |
| task_switch | current task, TLS, last reference | schedule, switch, first run, exit | a task drops its own last reference on its own stack | the stack in use is alive, one CPU per task |
| runqueue | double-ended queue | add, remove, select | tasks wake up during a scan | bounded bypass |
| dreadnought | waker flag under a sleeping lock | block_on, wake, poll of a join | blocks while it holds a lock its waker needs | block_on returns |
| tlb_shootdown, unmap | lock, counter, pages, NMIs | unmap, shootdown, NMI handler | spinning CPUs with interrupts off | a freed frame is in no TLB |
| sleep | binary heap, next time | sleep, timer handler | next time and heap are updated separately | nobody wakes early, everybody wakes |
| other schedulers | tokens, periods | select, set | division of tokens, epochs | shares follow priorities |
| page and frame allocators | sorted chunks | allocate at, allocate any, split, merge, drop | chunks that touch, reserved regions | no overlap, nothing lost |
| heaps | slabs per core | allocate, free, exchange of empty pages | freeing on another core | a page is on one list |
| crate management | sections and dependencies | load, swap | weak and strong dependents change under a swap | no dangling dependency |

## 2. Plan

The order is that of dependence: what everyone sleeps on first, then what uses it.

1. **Done.** Run states and the wait queue with its proof; sleeping locks;
   channels; rendezvous with its abstract specification; exit, kill and join; task
   switching; block_on; timed sleep; TLB shootdown and unmap; the round robin
   runqueue with its proof.
2. **Next: memory.** Page and frame allocators (operators on sets of chunks,
   checked against a reference in which memory is a set of free numbers), the
   slab heaps' page exchange.
3. **Then: the rest of scheduling.** Priority and realtime policies, the choice
   of a CPU, deferred interrupt tasks, simple_ipc, restartable tasks, the
   bootstrap tasks, preemption guards, the asynchronous forms of sleep.
4. **Then: sequential structures.** Block cache, file tree, crate dependencies,
   descriptor rings, the lock-free list.
5. **Proofs, along the way.** Exclusion of the sleeping locks; refinement of
   RendezvousSpec; StackAlive of TaskSwitch; FreeIsUncached of TlbShootdown
   until an overlap; the allocators' disjointness.

## 3. Conventions

*Atomicity.* A step of a model is what the code does with one access to shared
state, or the whole of a critical section when nothing outside it can observe its
parts. Every read outside a lock is a step of its own, and so is what is done
with its result. Interrupt handlers are separate actors; where the code disables
interrupts or preemption, the model does not let them in.

*Shared operators.* `RunState` has the transitions of the run state that
`block()`, `unblock()` and the others make or refuse. `WaitQueueOps` has the
queue operations as sets of outcomes, so that every module that uses a wait queue
uses the same one.

*Data.* Messages are identities or just counted, closures are their effect,
time is a bounded counter.

*History variables.* Some promises hold only until something the code does not
guard against: a kill, an unblock from outside, a channel that is opened again, a
race, a performance sample. The models let these happen, at any moment, and a
history variable (`disturbed`, `reopened`, `raced`, `overlap`, `clash`) records that
one has. The properties
that it voids are stated for the behaviours before it, the others without
condition; section 8 says what it voids and why.

*Bounds.* `MaxAvail`, `MaxTime` and `Capacity` are named constants.
Three tasks are the least with which one is notified, one sleeps and one
interferes, and they are used throughout except where noted in section 5.

*Deadlock.* `CHECK_DEADLOCK FALSE` appears where all tasks may be asleep or
finished, which the system allows: nobody has to notify, send or sleep again.

## 4. Modules

| module | models | state and steps |
|---|---|---|
| `RunState` | `Task::block`, `unblock` and the run states | pure operators |
| `WaitQueueOps` | `kernel/wait_queue` | enqueue-and-block, the notify operations as outcome sets |
| `WaitQueue` | wait queue with its users | tasks wait for `avail > 0`; killing and outside unblocking are parameters |
| `QueueLemmas`, `WaitQueue_proof` | | proofs |
| `SleepLock` | `kernel/mutex_sleep` | `kind` says whether it is a MutexSleep or a RwLockSleep; dropping a guard is two steps: notify, release |
| `AsyncChannel` | `kernel/async_channel`, one object at a time | fast and slow paths; counts and status in two steps |
| `RendezvousSpec` | what a rendezvous channel promises | Offer, Want, Meet, Return |
| `Rendezvous` | `kernel/rendezvous` | slots, ExchangeState, WaitGuards; implements RendezvousSpec |
| `TaskExit` | exit, kill, join, reap of one task | each store of `internal_exit()`, the cleanup and `join()` is a step; so are the two ends of a switch, where `running_on_cpu` is cleared and where the stack is left |
| `TaskSwitch` | `schedule()`, `task_switch()`, spawn, exit | references to a task are counted by where they are; a task without any is freed |
| `Dreadnought` | `block_on()` and the wakers | the future awaits tasks in turn; composes RunState, the wait queue and MutexSleep's protocol (`SleepLock`) |
| `TlbShootdown` | `MappedPages::unmap`, shootdown, NMI handler, `handle_sample` | TLB entries per CPU, frames given back; the NMI of a shootdown and that of a sample are the same to the handler |
| `Sleep` | `sleep()`, timer handler | heap and next time; each load and store is a step |
| `RoundRobin` | round robin runqueue and `select_next_task()` | one step per queue entry looked at |
| `RoundRobin_proof` | | proofs |
| `MCTaskSwitch`, `MCDreadnought`, `MCTlbShootdown` | | values for constants that are functions or sequences |

Interactions: every module about sleeping uses `RunState`, and those with a wait
queue use `WaitQueueOps`. `RoundRobin` refines the choice that `TaskSwitch` leaves
open, and justifies the weak fairness of a Runnable task that the others assume.
The unblocking from outside that `WaitQueue` and `Rendezvous` allow is what the
shell's `fg` and `bg` do to a job.

## 5. Runs

| run | config | expected | properties | what it shows |
|---|---|---|---|---|
| `wait_queue` | `WaitQueue.cfg` | holds | `TypeOK`, `SleepersQueued`, `NoDuplicates`, `NoLostWakeup`, `NotifyOneWakes`, `WaitersServed` | Three tasks wait for, take and provide up to two resources through one wait queue, one of them may be killed and one unblocked from outside: sleepers stay on the queue, exited tasks absorb no notification, and until the first such disturbance no wakeup is lost. |
| `sleep_lock` | `SleepLock.cfg` | holds | `Exclusion`, `QueueIsSleepers`, `SleepersWokenWhileUsed` | Three tasks lock, try and unlock a MutexSleep, or read and write under a RwLockSleep: exclusion holds through the two steps of dropping a guard, and while a lock stays in use sleepers are woken. |
| `sleep_lock_lost_wakeup` | `SleepLockLost.cfg` | violated | `SleepersWokenWhenFree` | The guards notify before they release: the woken task, or one that queues in between, finds the lock taken, sleeps, and the release wakes nobody. |
| `async_channel` | `AsyncChannel.cfg` | holds | `MessagesAnnounced`, `StatusTruthful`, `DisconnectHeard`, `ReceiversServed`, `SendersServed` | Three tasks send, receive, clone, drop and re-open endpoints of one channel: nobody sleeps on a channel marked as disconnected, and until a side is opened again no message waits beside a sleeping receiver, the status is right, and sleepers hear of space, messages and disconnection. |
| `rendezvous` | `Rendezvous.cfg` | holds | `NoBugBranch`, `SlotNotReplaced`, `ExchangesOnce`, `ExchangesHappen` | Two senders and two receivers, one of each side unblocked by others at any moment: the branches marked BUG stay out of reach, slots are never given back twice, each message is exchanged once and nobody returns before the exchange (refinement of RendezvousSpec); exchanges go on while both sides are present, until the first unblock from outside. |
| `task_exit` | `TaskExit.cfg` | holds | `JoinReturnsValue`, `JoinedNeverRuns`, `RunqueueClean`, `ValueTakenOnce`, `JoinEnds` | A task completes, is joined or orphaned, blocked, suspended, preempted, and killed by two others at any moment: join() always gets a value and comes to an end. Until the first kill, join() returns only when the task has executed its last step and its CPU has nothing left to do than the rest of the switch, a dead task is off its runqueue, and its value is taken by exactly one party. |
| `task_switch` | `TaskSwitch.cfg` | holds | `StackAlive`, `OneCpuPerTask`, `ReapedIsFreed`, `FirstRunSucceeds`, `ExitedStaysOff` | Two CPUs switch between spawned, blocking, exiting and joined tasks, two of which are killed at any moment: no CPU is on the stack of a freed task or on another CPU's task, and nobody switches to an exited task; a task that is never killed finds itself in the TASKLIST when it first runs and loses its last reference when it has been reaped. |
| `dreadnought` | `Dreadnought.cfg` | holds | `WakeNotLost`, `Completes` | block_on() of a future that awaits three tasks in turn, one of which wakes it after it has exited, with timer interrupts between block() and the release of activated: no wake-up falls between poll() and block(), and the future completes unless one of three named failures occurs. |
| `tlb_shootdown` | `TlbShootdown.cfg` | holds | `FreeIsUncached`, `NmiExpected`, `ShootdownEnds` | Two CPUs unmap memory, one of them of three frame ranges and one of a frame that it shares, three CPUs use it, and two of them take performance samples: until both take the lock at once or a sample comes in the way of a shootdown, frames are given back when no TLB has them (those between the first and the last range at the end of the shootdown), every NMI is expected, and every shootdown ends. |
| `tlb_shootdown_lock` | `TlbShootdownLock.cfg` | violated | `OneShootdown` | Two CPUs unmap at the same time: both take the lock. |
| `sleep` | `Sleep.cfg` | holds | `NotEarly`, `NextIsEarliest`, `WakesUp`, `HandlerEnds` | Two tasks sleep again and again, two CPUs handle timer interrupts: until one of three named races occurs, no task wakes early or misses its wake-up, the next time is that of the earliest sleeper, and the handler ends. |
| `round_robin` | `RoundRobin.cfg` | holds | `BoundedBypass`, `IInv`, `IdleIsLast` | Three tasks and the idle task are added, removed, blocked and woken, also during a scan: no runnable task is passed over more often than there are others, and the idle task is selected only when no other task was runnable throughout the scan. |

*Bounds.* Three tasks share the wait queue, the locks and the channel; the
rendezvous has two on each side, so that both sides have somebody waiting for a
slot. `TaskExit` follows one task with its parent, its CPU and two killers: two
are the least for a kill that races another. `TaskSwitch` has two CPUs, their idle
tasks and three spawned ones, so that a CPU has something else to run while a task
of its own ends; one of the tasks is never killed. `TlbShootdown` has three CPUs,
so that one may answer while another has not, two of which unmap. The first has
three frame ranges, the least with one in the middle, and the second has a frame of
its own and a shared one; every page but that is used by a CPU that does not unmap it
(`Uses`), and samples come on two CPUs (`Sampled`), of which one unmaps and one only
answers. Nothing is explored after both have taken the lock, or after a sample has
come in the way, since nothing is claimed of that. `Sleep`
has two tasks, two CPUs and time up to 3, enough for two resume times to be in the
wrong order and for one sleep to follow another. In `RoundRobin` three tasks and
the idle task are enough for a task to be moved past two others; its result is
proved for any number.

## 6. Fairness

A Runnable task that is inside an operation takes its next step (`WF`): the round
robin scheduler selects it after at most as many selections of others as there
are tasks, which is what `RoundRobin_proof` establishes, and the timer interrupt
makes the selections happen. A Blocked task has no fairness. Nobody is obliged to
begin an operation, except that holders of a guard drop it, and awaited tasks
finish, which are conditions on the users. In `Sleep` the task steps have strong
fairness: on a CPU whose timer interrupts again and again they are enabled only
between handlers, and the scheduler gives each task a turn again and again; time
and timers go on weakly fairly. In `TlbShootdown` CPUs execute their
instructions, and an unmap that was begun goes on. Strong fairness is used nowhere else.

## 7. What is proved

TLAPS proves the following for every value of the constants that satisfies the
named assumptions (finite sets of tasks; an idle task among them).

**WaitQueue.** `TypeCorrect`, `SleepersAreQueued` and `QueueHasNoDuplicates` hold
with any number of tasks, and with killing and unblocking from outside. The three
are inductive only together (`QueueInv`): the queue's elements and the run states
have to be of their types for the queue lemmas to apply, and a task that is taken
off the queue must not have a second entry. Each action is one step of the proof;
the notify operations are handled once, by lemmas about the outcome sets of
`WaitQueueOps`, which rest on facts about removing an element from a sequence
(`QueueLemmas`).

`NoWakeupIsLost` holds until somebody is killed or unblocked from outside
(`disturbed`): while some task sleeps, for every available resource there is a
task about to notify or awake in `wait_until`. It is made inductive by
`QueuedAsleep`: a queued task really sleeps, so that a notification trades the
notifier for exactly one woken sleeper and the count of tasks on their way does
not fall. Section 8 says why a disturbance ends this.

**RoundRobin.** `RunqueueInvariant` and `NoStarvation`: a task that stays runnable is
passed over by fewer selections than there are tasks. The difficulty is that
`move_to_end()` uses `swap_remove_front()`, which moves the task at the front back
to the place of the selected one, and that tasks wake up during a scan. The heart
of `IInv` is `PlacePaysForBypass`, the place of a task plus its bypasses is at most
the number of tasks: a selection either brings a waiting task one place forward,
or moves back a task that the scan had passed because it was not runnable then,
and whose count therefore starts at zero (`Passed`). The other conjuncts are the
types, that the queue has no duplicates, that a task which does not wait has
nothing to its account, and where the indices of a scan are (together `PlaceInv`).

`IdleOnlyWhenNoneWaits`: the idle task is selected only when no other task of the
runqueue stayed runnable since the scan began. The history variable `stayed` is the
set of those tasks. `StayedIsAhead`, the last conjunct of `IInv`, says that each of
them is in the queue at a place that the scan has still to look at: the scan would
have stopped at a runnable task, so at its end there is none. It does not follow
from `PlaceInv` and does not help it, so the proof keeps the two apart. TLC checks
`IInv` and `IdleIsLast` in the run `round_robin`.

Proofs rely on no unproved statement. Liveness under fairness stays with TLC, as
do all modules without a proof module.

## 8. Where the code does less than it says

Two disagreements have a run of their own, whose counterexample TLC prints:

- **sleep_lock_lost_wakeup** (`src/kernel/mutex_sleep/src/mutex.rs:142`). MutexSleepGuard::drop calls notify_one() while the spin guard is still held (so do the guards of RwLockSleep), so a task that looks between the notification and the release goes to sleep beside a lock that is then freed silently; src/kernel/mutex_sleep/src/mutex.rs:10 says "Once the lock becomes available, `Task`s that are sleeping while waiting for the lock will be notified (woken up) so they can attempt to acquire the lock again."
- **tlb_shootdown_lock** (`src/kernel/tlb_shootdown/src/lib.rs:79`). The lock is taken with compare_exchange_weak(old_lock_val, true) where old_lock_val is the value last seen, so a CPU that has seen true exchanges true for true and goes on beside the owner; src/kernel/tlb_shootdown/src/lib.rs:22 says "The lock that makes sure only one set of TLB shootdown IPIs is concurrently happening".

The others are the reasons for the conditions in properties that hold. In each
case TLC finds a counterexample when the condition is dropped.

| property, condition | where | why the condition |
|---|---|---|
| `NoLostWakeup`, `WaitersServed` (`WaitQueue`), `ExchangesHappen` (`Rendezvous`): not `disturbed` | `src/kernel/wait_queue/src/lib.rs:126`, `src/kernel/rendezvous/src/lib.rs:188` | `wait_until()` returns without removing the caller's entry when the condition holds after a wakeup that did not come from a notification (the shell's `fg` and `bg` unblock jobs directly). A later `notify_one()` is spent on that entry and a sleeping task is not woken. |
| `MessagesAnnounced`, `StatusTruthful`, `ReceiversServed`, `SendersServed`: not `reopened` | `src/kernel/async_channel/src/lib.rs:530` | `drop()` decrements the count and stores the status in a second step. An endpoint made in between by `add_sender()` stores `Connected` first, and the late store marks a channel with both sides as disconnected; a `send()` that has pushed then returns an error and notifies nobody. |
| `JoinedNeverRuns`: a CPU may be `leaving` the task | `src/kernel/task/src/lib.rs:1053` | `join()` waits for the task to "actually stop running on any CPU core" (line 1160), but the switch clears `running_on_cpu` before it leaves the task's stack (line 877), so the task is joined while its CPU is in the rest of the switch. What the CPU still uses then is covered by `StackAlive` of `TaskSwitch`. |
| `JoinedNeverRuns`: not `Killed` | `src/kernel/task/src/lib.rs:1161` | The scheduler tests the run state before `task_switch()` stores `running_on_cpu`; a task killed in between is joined and then runs. For the same reason `FirstRunSucceeds` excludes tasks that are killed. |
| `RunqueueClean`: not `Killed`; `ReapedIsFreed`: not in `Killable` | `src/kernel/task/src/lib.rs:1365` | A task killed while it is not running is not taken off its runqueue; the code has a `todo!()` there. |
| `ValueTakenOnce`: not `Killed` | `src/kernel/task/src/lib.rs:1355` | `internal_exit()` tests `has_exited()` and then stores value and run state in separate steps. A late killer replaces the value of a task that has exited ("does not overwrite the existing exit status", line 1342), and makes a Reaped task Exited again. |
| `Completes`: never `preempted` | `src/kernel/dreadnought/src/lib.rs:63` | `block_on()` blocks its task while it holds the guard of `activated`, with preemption enabled. After a timer interrupt at that point it is never scheduled to release it, and its waker sleeps on the lock. |
| `Completes`: no task `panicked` | `src/kernel/task/src/lib.rs:1375` | `internal_exit()` uses the waker when the run state is already Exited. If `activated` is contended, `block()` of an exited task fails, `expect()` panics, and the executor is not woken. |
| `Completes`: no task sleeps for ever before a free mutex | `src/kernel/mutex_sleep/src/mutex.rs:142` | The finding of `sleep_lock_lost_wakeup`. |
| `FreeIsUncached`, `NmiExpected`, `ShootdownEnds`: no `overlap` | `src/kernel/tlb_shootdown/src/lib.rs:79` | The finding of `tlb_shootdown_lock`. |
| `FreeIsUncached`, `NmiExpected`, `ShootdownEnds`: no `clash` | `src/kernel/exceptions_full/src/lib.rs:284` | The handler takes every NMI for that of a shootdown while pages are set. A CPU that gets a sample's NMI beside the shootdown's counts down twice: the sender goes on and gives frames back before another CPU has flushed them, whose NMI then finds no pages, or the count wraps around and the sender waits for ever. One handler may also deal with both, and the second NMI is then unexpected. A sample on the sending CPU waits in `handle_sample()` (`src/kernel/pmu_x86/src/lib.rs:886`) for the lock of the local APIC that the sender holds (`src/kernel/tlb_shootdown/src/lib.rs:41`). |
| `FreeIsUncached`: frame ranges in the middle, until the shootdown has ended (`InTheMiddle`, `NotShotDown`) | `src/kernel/memory/src/paging/mapper.rs:654` | `unmap()` drops every frame range but the first and the last inside its loop, before the other CPUs have flushed their TLBs. |
| `NotEarly`, `NextIsEarliest`, `WakesUp`, `HandlerEnds`: not `raced` | `src/kernel/sleep/src/lib.rs:94`, `:118`, `:132` | The next time is loaded, compared and stored outside the lock of the list, so a later time can overwrite an earlier one, a stored time can outlive its entry (the handler then loops on an empty list), and two handlers can act on one comparison; a task enters the list before it blocks, so a handler can unblock it too soon for it ever to wake. |

Four properties that the documentation suggests are not stated at all, since the
code does not have them:

- `WaitQueue::wait()` "blocks until the `Task` is woken up"
  (`src/kernel/wait_queue/src/lib.rs:101`): its condition is always `Some(())`, so
  it returns at once.
- `send()` returns `Ok(())` "if the message was sent successfully, otherwise
  returns an `Error`" (`src/kernel/async_channel/src/lib.rs:172`): the closure at
  line 219 also returns `ChannelDisconnected` when its push has just succeeded.
- `try_receive_buf()` returns "the number of objects received" (line 486): it
  returns one more when the channel runs empty (line 493).
- An orphan "will be auto-reaped after it exits (in order to avoid zombie tasks)"
  (`src/kernel/task/src/lib.rs:1113`): `reap_if_orphaned()` reads `joinable` once,
  and a `JoinableTaskRef` dropped after that read leaves the task Exited and in the
  TASKLIST for good.

## 9. What is not modelled

The parts with status `not_modelled` in `PROJECT.json`: some are planned
(section 2), the others are device registers, data layout, assembly, ELF and DWARF
interpretation, rendering, or wrappers of external code, where a state machine
would say nothing that the code does not. Within the modelled parts:

- memory ordering weaker than sequential consistency: the atomics of the modelled
  crates are taken as sequentially consistent, so results about them do not cover
  reorderings that a weaker ordering would allow;
- kill handlers, restartable tasks, the bootstrap tasks of a CPU, and the choice
  of a runqueue for a new task;
- the waker-based forms of sleep in `sleep::future` and the timed futures of
  dreadnought;
- the error returns of `MappedPages::unmap()`, for pages of another page table, pages
  that are not mapped or huge, and a missing callback: a `MappedPages` in use has
  none of these;
- the error of `block()` and `unblock()` when the task changes its state between
  their two compare-and-exchanges, so that both fail. The run states are those of a
  call that came earlier, but the caller is told that it failed: `notify_one()` goes
  on to the next task, and the callers that `unwrap()` or `expect()`, the drop of a
  WaitGuard and the timer handler, panic;
- of the performance counters everything but the status that `handle_sample()` tests
  and clears, and the lock of the local APIC; in particular the lock of its list of
  samples, which a sample may find taken on its own CPU;
- the contents of messages, closures that themselves block, and panics inside
  critical sections, except where a section above says so;
- the priority and realtime schedulers, and everything about mapping memory
  other than unmapping it.

## 10. Use

In this directory, `tlc -config <cfg> <module>` checks a run and
`tlapm <module>` the proofs of `QueueLemmas`, `WaitQueue_proof` and
`RoundRobin_proof`; the longest run takes two minutes or so, a proof module a few
minutes.
