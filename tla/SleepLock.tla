------------------------------ MODULE SleepLock -----------------------------
(***************************************************************************)
(* MutexSleep and RwLockSleep (kernel/mutex_sleep): a spin lock that is    *)
(* only ever tried, and one wait queue on which tasks sleep while it is    *)
(* taken, shared by readers and writers.  Dropping a guard is two steps:   *)
(* the guard's drop() notifies a sleeper, and after that the inner spin    *)
(* guard is dropped, which releases the lock.                              *)
(***************************************************************************)
EXTENDS WaitQueueOps

CONSTANT Tasks     \* the tasks that use the lock

VARIABLES
  kind,      \* "Mutex" or "RwLock"; it never changes
  runstate,  \* Task.runstate
  queue,     \* MutexSleep.queue, RwLockSleep.queue
  held,      \* the guards that hold the spin lock, as <<task, mode>>
  mode,      \* what each task asks for: lock(), read() or write()
  pc         \* where each task is

vars == <<kind, runstate, queue, held, mode, pc>>

Kinds == {"Mutex", "RwLock"}
Modes == {"lock", "read", "write"}

TypeOK ==
  /\ kind \in Kinds
  /\ runstate \in [Tasks -> {Runnable, Blocked}]
  /\ queue \in Seq(Tasks)
  /\ held \subseteq Tasks \X Modes
  /\ mode \in [Tasks -> Modes]
  /\ pc \in [Tasks -> {"idle", "waiting", "asleep", "locked", "unlocking"}]

Init ==
  /\ kind \in Kinds
  /\ runstate = [t \in Tasks |-> Runnable]
  /\ queue = <<>>
  /\ held = {}
  /\ mode = [t \in Tasks |-> "lock"]
  /\ pc = [t \in Tasks |-> "idle"]

(***************************************************************************)
(* The spin locks' try_lock(), try_read() and try_write(): a reader needs  *)
(* that there is no writer, the others that there is nobody.               *)
(***************************************************************************)
FreeForWriters(m) == \A g \in held : g[2] = "read"    \* mutant: writers join readers
Free(m) == IF m = "read" THEN \A g \in held : g[2] = "read" ELSE held = {}

Acquire(t, m) ==
  /\ Free(m)
  /\ held' = held \cup {<<t, m>>}
  /\ mode' = [mode EXCEPT ![t] = m]
  /\ pc' = [pc EXCEPT ![t] = "locked"]
  /\ UNCHANGED <<kind, runstate, queue>>

(***************************************************************************)
(* try_lock(), try_read() and try_write(), and the fast path of lock(),    *)
(* read() and write().  A try that fails changes nothing.                  *)
(***************************************************************************)
TryLock(t)  == kind = "Mutex" /\ pc[t] = "idle" /\ Acquire(t, "lock")
TryRead(t)  == kind = "RwLock" /\ pc[t] = "idle" /\ Acquire(t, "read")
TryWrite(t) == kind = "RwLock" /\ pc[t] = "idle" /\ Acquire(t, "write")

(***************************************************************************)
(* The slow path after a fast path that failed: wait_until, with a try as  *)
(* the condition.                                                          *)
(***************************************************************************)
Contended(t, m) ==
  /\ pc[t] = "idle"
  /\ ~Free(m)
  /\ mode' = [mode EXCEPT ![t] = m]
  /\ pc' = [pc EXCEPT ![t] = "waiting"]
  /\ UNCHANGED <<kind, runstate, queue, held>>

LockContended(t)  == kind = "Mutex" /\ Contended(t, "lock")
ReadContended(t)  == kind = "RwLock" /\ Contended(t, "read")
WriteContended(t) == kind = "RwLock" /\ Contended(t, "write")

WaitLocks(t) == pc[t] = "waiting" /\ Acquire(t, mode[t])

WaitBlocks(t) ==
  /\ pc[t] = "waiting"
  /\ ~Free(mode[t])
  /\ queue' = Enqueue(queue, t)
  /\ runstate' = Block(runstate, t)
  /\ pc' = [pc EXCEPT ![t] = "asleep"]
  /\ UNCHANGED <<kind, held, mode>>

Resume(t) ==
  /\ pc[t] = "asleep"
  /\ runstate[t] = Runnable
  /\ pc' = [pc EXCEPT ![t] = "waiting"]
  /\ UNCHANGED <<kind, runstate, queue, held, mode>>

(***************************************************************************)
(* Dropping a guard: notify one task, then release.                        *)
(***************************************************************************)
DropSilent(t, m) ==          \* mutant: readers do not notify
  /\ pc[t] = "locked" /\ mode[t] = m
  /\ \E o \in IF m = "read" THEN {[queue |-> queue, woken |-> {}]}
                            ELSE NotifyOneOutcomes(queue, runstate) :
       queue' = o.queue /\ runstate' = UnblockAll(runstate, o.woken)
  /\ pc' = [pc EXCEPT ![t] = "unlocking"]
  /\ UNCHANGED <<kind, held, mode>>

DropNotifies(t, m) ==
  /\ pc[t] = "locked" /\ mode[t] = m
  /\ \E o \in NotifyOneOutcomes(queue, runstate) :
       queue' = o.queue /\ runstate' = UnblockAll(runstate, o.woken)
  /\ pc' = [pc EXCEPT ![t] = "unlocking"]
  /\ UNCHANGED <<kind, held, mode>>

DropMutexGuard(t) == DropNotifies(t, "lock")
DropReadGuard(t)  == DropNotifies(t, "read")
DropWriteGuard(t) == DropNotifies(t, "write")

DropUnlocks(t) ==
  /\ pc[t] = "unlocking"
  /\ held' = held \ {<<t, mode[t]>>}
  /\ pc' = [pc EXCEPT ![t] = "idle"]
  /\ UNCHANGED <<kind, runstate, queue, mode>>

Inside(t) ==
  \/ WaitLocks(t) \/ WaitBlocks(t) \/ Resume(t)
  \/ DropMutexGuard(t) \/ DropReadGuard(t) \/ DropWriteGuard(t) \/ DropUnlocks(t)

Next ==
  \E t \in Tasks :
    \/ TryLock(t) \/ TryRead(t) \/ TryWrite(t)
    \/ LockContended(t) \/ ReadContended(t) \/ WriteContended(t)
    \/ Inside(t)

Spec == Init /\ [][Next]_vars

(***************************************************************************)
(* Fairness: a Runnable task inside an operation is scheduled, and every   *)
(* guard is eventually dropped.                                            *)
(***************************************************************************)
FairSpec == Spec /\ \A t \in Tasks : WF_vars(Inside(t))
-----------------------------------------------------------------------------
Asleep == {t \in Tasks : pc[t] = "asleep" /\ runstate[t] = Blocked}

(***************************************************************************)
(* The guard of a mutex or of a writer excludes every other guard, and the *)
(* spin lock's state is exactly the guards that exist, also between the    *)
(* notification and the release of one that is being dropped.              *)
(***************************************************************************)
Exclusion ==
  /\ held = {<<t, mode[t]>> : t \in {u \in Tasks : pc[u] \in {"locked", "unlocking"}}}
  /\ \A g, h \in held : g # h => g[2] = "read" /\ h[2] = "read"

(***************************************************************************)
(* The tasks that sleep in lock(), read() and write() are on the shared    *)
(* queue, each once, and nobody else is.                                   *)
(***************************************************************************)
QueueIsSleepers ==
  /\ Waiters(queue) = Asleep
  /\ \A i, j \in DOMAIN queue : queue[i] = queue[j] => i = j

(***************************************************************************)
(* As long as the lock goes on being taken and released, every sleeper is  *)
(* woken: the queue is first in, first out, and each drop wakes its head.  *)
(***************************************************************************)
SleepersWokenWhileUsed ==
  ([]<>(held # {}) /\ []<>(held = {})) =>
    \A t \in Tasks : t \in Asleep ~> t \notin Asleep

(***************************************************************************)
(* "Once the lock becomes available, Tasks that are sleeping while waiting *)
(* for the lock will be notified (woken up) so they can attempt to acquire *)
(* the lock again" (kernel/mutex_sleep/src/mutex.rs:10-11).  The code does *)
(* not achieve this: who looks between the notification and the release    *)
(* goes to sleep, and the release wakes nobody.                            *)
(***************************************************************************)
SleepersWokenWhenFree == (held = {} /\ Asleep # {}) ~> (held # {} \/ Asleep = {})
=============================================================================
