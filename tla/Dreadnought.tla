---------------------------- MODULE Dreadnought ----------------------------
(***************************************************************************)
(* The executor block_on() (kernel/dreadnought) running a future that      *)
(* awaits other tasks one after the other, and the wakers by which they    *)
(* wake it.  The flag activated is in a MutexSleep, whose steps are those  *)
(* of module SleepLock.                                                    *)
(***************************************************************************)
EXTENDS WaitQueueOps

CONSTANTS
  Executor,
  Awaited,  \* the tasks the future awaits, in order
  Exiting,  \* those awaited with JoinableAsyncTaskRef: they wake the
            \* executor when they have already exited
  NoTask

Producers == ToSet(Awaited)
Tasks == Producers \cup {Executor}

ASSUME DreadnoughtAssumption ==
  /\ Awaited \in Seq(Producers) /\ Executor \notin Producers /\ NoTask \notin Tasks
  /\ Exiting \subseteq Producers

VARIABLES
  runstate,   \* Task.runstate
  queue,      \* the wait queue of activated
  owner,      \* whose guard holds activated
  activated,  \* Waker.activated
  slot,       \* the tasks whose TaskInner.waker is the executor's
  done,       \* the tasks that have finished
  next,       \* the index of the task that the future awaits
  preempted,  \* the executor lost its CPU between block() and the release
  pc          \* where each task is

mutex == <<queue, owner>>
vars == <<runstate, mutex, activated, slot, done, next, preempted, pc>>

Init ==
  /\ runstate = [t \in Tasks |-> Runnable]
  /\ queue = <<>> /\ owner = NoTask
  /\ activated = FALSE /\ slot = {} /\ done = {} /\ next = 1 /\ preempted = FALSE
  /\ pc = [t \in Tasks |-> IF t = Executor THEN "poll" ELSE "work"]

Goto(t, from, to) == pc[t] = from /\ pc' = [pc EXCEPT ![t] = to]
Waking == {"lock", "waiting", "asleep", "locked", "drop", "unlock"}
-----------------------------------------------------------------------------
(***************************************************************************)
(* MutexSleep::lock() on activated.  A task that cannot be blocked has     *)
(* been queued when its block() fails, and expect() panics.                *)
(***************************************************************************)
TryLock(t) ==
  /\ owner = NoTask /\ owner' = t
  /\ Goto(t, "lock", "locked") \/ Goto(t, "waiting", "locked")
  /\ UNCHANGED <<runstate, queue, activated, slot, done, next, preempted>>

LockContended(t) ==
  /\ owner # NoTask /\ Goto(t, "lock", "waiting")
  /\ UNCHANGED <<runstate, mutex, activated, slot, done, next, preempted>>

WaitBlocks(t) ==
  /\ owner # NoTask
  /\ Goto(t, "waiting", IF CanBlock(runstate[t]) THEN "asleep" ELSE "panicked")
  /\ queue' = Enqueue(queue, t)
  /\ runstate' = Block(runstate, t)
  /\ UNCHANGED <<owner, activated, slot, done, next, preempted>>

Resume(t) ==
  /\ runstate[t] = Runnable /\ Goto(t, "asleep", "waiting")
  /\ UNCHANGED <<runstate, mutex, activated, slot, done, next, preempted>>

(***************************************************************************)
(* Dropping the guard.  The executor may have blocked itself before; it    *)
(* goes on if it is still on its CPU or has been made Runnable again.      *)
(***************************************************************************)
OnCpu(t) == t = Executor /\ preempted => runstate[Executor] = Runnable

DropNotifies(t) ==
  /\ OnCpu(t)
  /\ Goto(t, "drop", "unlock") \/ Goto(t, "blocked", "unlockBlocked")
  /\ \E o \in NotifyOneOutcomes(queue, runstate) :
       queue' = o.queue /\ runstate' = UnblockAll(runstate, o.woken)
  /\ UNCHANGED <<owner, activated, slot, done, next, preempted>>

DropUnlocks(t) ==
  /\ OnCpu(t)
  /\ \/ Goto(t, "unlock", IF t = Executor THEN "poll" ELSE "end")
     \/ Goto(t, "unlockBlocked", "sleep")
  /\ owner' = NoTask
  /\ UNCHANGED <<runstate, queue, activated, slot, done, next, preempted>>

(***************************************************************************)
(* A timer interrupt between block() and the release of activated in       *)
(* block_on().                                                             *)
(***************************************************************************)
Preempt ==
  /\ ~preempted /\ pc[Executor] \in {"blocked", "unlockBlocked"}
  /\ preempted' = TRUE
  /\ UNCHANGED <<runstate, mutex, activated, slot, done, next, pc>>
-----------------------------------------------------------------------------
(***************************************************************************)
(* JoinableAsyncTaskRef::poll() in the executor: leave the waker with the  *)
(* awaited task (under its inner lock, which is held while that task       *)
(* wakes), and then ask whether it has finished.                           *)
(***************************************************************************)
PollRegisters ==
  /\ pc[Awaited[next]] \notin Waking
  /\ Goto(Executor, "poll", "check")
  /\ slot' = slot \cup {Awaited[next]}
  /\ UNCHANGED <<runstate, mutex, activated, done, next, preempted>>

PollChecks ==
  /\ IF Awaited[next] \in done
     THEN IF next = Len(Awaited)
          THEN Goto(Executor, "check", "ready") /\ UNCHANGED next
          ELSE Goto(Executor, "check", "poll") /\ next' = next + 1
     ELSE Goto(Executor, "check", "lock") /\ UNCHANGED next
  /\ UNCHANGED <<runstate, mutex, activated, slot, done, preempted>>

(***************************************************************************)
(* block_on() after Pending, holding activated.                            *)
(***************************************************************************)
BlocksAnyway ==              \* mutant: does not look at the flag
  /\ Goto(Executor, "locked", "blocked")
  /\ runstate' = Block(runstate, Executor)
  /\ UNCHANGED <<mutex, activated, slot, done, next, preempted>>

TestActivated ==
  /\ IF activated
     THEN Goto(Executor, "locked", "drop") /\ activated' = FALSE /\ UNCHANGED runstate
     ELSE Goto(Executor, "locked", "blocked") /\ runstate' = Block(runstate, Executor) /\ UNCHANGED activated
  /\ UNCHANGED <<mutex, slot, done, next, preempted>>

Wakes ==
  /\ runstate[Executor] = Runnable /\ Goto(Executor, "sleep", "poll")
  /\ preempted' = FALSE
  /\ UNCHANGED <<runstate, mutex, activated, slot, done, next>>
-----------------------------------------------------------------------------
(***************************************************************************)
(* An awaited task finishes (internal_exit for those that exit), takes the *)
(* waker if there is one, and uses it: wake().                             *)
(***************************************************************************)
Finishes(p) ==
  /\ Goto(p, "work", "take")
  /\ done' = done \cup {p}
  /\ runstate' = IF p \in Exiting THEN [runstate EXCEPT ![p] = Exited] ELSE runstate
  /\ UNCHANGED <<mutex, activated, slot, next, preempted>>

TakesWaker(p) ==
  /\ Goto(p, "take", IF p \in slot THEN "lock" ELSE "end")
  /\ slot' = slot \ {p}
  /\ UNCHANGED <<runstate, mutex, activated, done, next, preempted>>

UnblocksOnly(p) ==           \* mutant: does not set the flag
  /\ Goto(p, "locked", "drop")
  /\ runstate' = Unblock(runstate, Executor)
  /\ UNCHANGED <<mutex, activated, slot, done, next, preempted>>

Activates(p) ==
  /\ Goto(p, "locked", "drop")
  /\ activated' = TRUE
  /\ runstate' = Unblock(runstate, Executor)
  /\ UNCHANGED <<mutex, slot, done, next, preempted>>

Lock(t) == TryLock(t) \/ LockContended(t) \/ WaitBlocks(t) \/ Resume(t) \/ DropNotifies(t) \/ DropUnlocks(t)
Execute == PollRegisters \/ PollChecks \/ TestActivated \/ Wakes \/ Lock(Executor)
Produce(p) == Finishes(p) \/ TakesWaker(p) \/ Activates(p) \/ Lock(p)

Next == Execute \/ Preempt \/ \E p \in Producers : Produce(p)

(***************************************************************************)
(* Fairness: a task that can go on does; every awaited task finishes.      *)
(***************************************************************************)
FairSpec == Init /\ [][Next]_vars /\ WF_vars(Execute) /\ \A p \in Producers : WF_vars(Produce(p))
-----------------------------------------------------------------------------
(***************************************************************************)
(* While the executor sleeps and what it awaits has finished, the waker is *)
(* on its way: the flag, tested and set with the lock held, leaves no gap  *)
(* between poll() and block().  A task that has already exited cannot wait *)
(* for the lock, and its wake() panics instead.                            *)
(***************************************************************************)
WakeNotLost ==
  pc[Executor] = "sleep" /\ runstate[Executor] = Blocked /\ Awaited[next] \in done
    => \/ pc[Awaited[next]] \in Waking \cup {"take"}
       \/ pc[Awaited[next]] = "panicked" /\ Awaited[next] \in Exiting

(***************************************************************************)
(* "When the future uses the waker, it unblocks the task, and the executor *)
(* loops around, polling the future again.  It will continue doing so      *)
(* until the future returns ready" (kernel/dreadnought/src/lib.rs:10-12),  *)
(* provided that                                                           *)
(*  - no task sleeps for ever in front of a free mutex, which MutexSleep   *)
(*    does not exclude (SleepersWokenWhenFree of module SleepLock);        *)
(*  - no timer interrupt finds the executor blocked and holding activated: *)
(*    it is never scheduled to release the lock its waker waits for;       *)
(*  - no wake() panics as above.                                           *)
(***************************************************************************)
Completes ==
  /\ \A t \in Tasks : []<>(pc[t] # "asleep" \/ owner # NoTask)
  /\ [](~preempted)
  /\ [](\A t \in Tasks : pc[t] # "panicked")
  => <>(pc[Executor] = "ready")
=============================================================================
