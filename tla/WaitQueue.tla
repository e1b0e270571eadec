----------------------------- MODULE WaitQueue ------------------------------
(***************************************************************************)
(* A WaitQueue (kernel/wait_queue) used the way its clients use it: tasks  *)
(* call wait_until with a condition that takes one of avail resources (a   *)
(* slot, a message, a permit), and other tasks make a resource available,  *)
(* outside the queue's lock, and then notify.                              *)
(*                                                                         *)
(* The queue, the condition closure and the change of the waiter's run     *)
(* state are covered by one MutexIrqSafe, so a pass through the loop body  *)
(* of wait_until is one step, and so is a whole notify.  Run states can    *)
(* also be changed by tasks that do not hold that lock (Kill,              *)
(* ExternalUnblock); such a change commutes with every part of a critical  *)
(* section before its one read of the run state, so nothing is lost by     *)
(* taking the section as one step.                                         *)
(***************************************************************************)
EXTENDS WaitQueueOps, FiniteSets

CONSTANTS
  Tasks,      \* the tasks that use the queue
  MaxAvail,   \* bound on the resources that are available at one time
  Killable,   \* tasks that may be killed (TaskRef::kill) at any time
  Spurious    \* tasks that may be unblocked by someone other than a notifier,
              \* as the shell's fg and bg commands do

ASSUME WaitQueueAssumption ==
  /\ IsFiniteSet(Tasks)
  /\ MaxAvail \in Nat
  /\ Killable \subseteq Tasks
  /\ Spurious \subseteq Tasks

VARIABLES
  runstate,   \* Task.runstate
  wq,         \* the VecDeque inside the WaitQueue
  pc,         \* where each task is
  avail,      \* the state the condition closures examine
  disturbed   \* history: a task has been killed, or unblocked from outside

vars == <<runstate, wq, pc, avail, disturbed>>

PCs == {"idle", "enter", "asleep", "wait", "notify", "failed"}

TypeOK ==
  /\ runstate \in [Tasks -> RunStates]
  /\ wq \in Seq(Tasks)
  /\ pc \in [Tasks -> PCs]
  /\ avail \in 0..MaxAvail
  /\ disturbed \in BOOLEAN

Init ==
  /\ runstate = [t \in Tasks |-> Runnable]
  /\ wq = <<>>
  /\ pc = [t \in Tasks |-> "idle"]
  /\ avail = 0
  /\ disturbed = FALSE

(***************************************************************************)
(* A task enters wait_until.                                               *)
(***************************************************************************)
CallWaitUntil(t) ==
  /\ pc[t] = "idle"
  /\ pc' = [pc EXCEPT ![t] = "enter"]
  /\ UNCHANGED <<runstate, wq, avail, disturbed>>

(***************************************************************************)
(* One pass through the loop of wait_until: the condition holds and the    *)
(* call returns at once, without touching the queue ...                    *)
(***************************************************************************)
ConditionIgnored(t) ==       \* mutant: returns whatever the condition says
  /\ pc[t] = "enter"
  /\ avail' = avail - 1
  /\ pc' = [pc EXCEPT ![t] = "idle"]
  /\ UNCHANGED <<runstate, wq, disturbed>>

ConditionHolds(t) ==
  /\ pc[t] = "enter"
  /\ avail > 0
  /\ avail' = avail - 1
  /\ pc' = [pc EXCEPT ![t] = "idle"]
  /\ UNCHANGED <<runstate, wq, disturbed>>

(***************************************************************************)
(* ... or it does not: the task enqueues itself and blocks itself.  If it  *)
(* cannot be blocked, wait_until returns CantBlockCurrentTask and leaves   *)
(* the task on the queue.                                                  *)
(***************************************************************************)
BlockOnStaleCheck(t) ==      \* mutant: the condition was checked before the lock
  /\ pc[t] = "enter"
  /\ wq' = Enqueue(wq, t)
  /\ runstate' = Block(runstate, t)
  /\ pc' = [pc EXCEPT ![t] = IF CanBlock(runstate[t]) THEN "asleep" ELSE "failed"]
  /\ UNCHANGED <<avail, disturbed>>

EnqueueAndBlock(t) ==
  /\ pc[t] = "enter"
  /\ avail = 0
  /\ wq' = Enqueue(wq, t)
  /\ runstate' = Block(runstate, t)
  /\ pc' = [pc EXCEPT ![t] = IF CanBlock(runstate[t]) THEN "asleep" ELSE "failed"]
  /\ UNCHANGED <<avail, disturbed>>

(***************************************************************************)
(* schedule() returns only when the scheduler picks the task again, which  *)
(* it does for a Runnable task only; the loop goes round.                  *)
(***************************************************************************)
Resume(t) ==
  /\ pc[t] = "asleep"
  /\ runstate[t] = Runnable
  /\ pc' = [pc EXCEPT ![t] = "enter"]
  /\ UNCHANGED <<runstate, wq, avail, disturbed>>

(***************************************************************************)
(* wait() is wait_until with a condition that is always Some(()), so it    *)
(* returns without having slept, whatever its documentation says.          *)
(***************************************************************************)
CallWait(t) ==
  /\ pc[t] = "idle"
  /\ pc' = [pc EXCEPT ![t] = "wait"]
  /\ UNCHANGED <<runstate, wq, avail, disturbed>>

ReturnFromWait(t) ==
  /\ pc[t] = "wait"
  /\ pc' = [pc EXCEPT ![t] = "idle"]
  /\ UNCHANGED <<runstate, wq, avail, disturbed>>

(***************************************************************************)
(* A client makes the condition true, without the queue's lock, and goes   *)
(* on to notify.                                                           *)
(***************************************************************************)
MakeAvailable(t) ==
  /\ pc[t] = "idle"
  /\ avail < MaxAvail
  /\ avail' = avail + 1
  /\ pc' = [pc EXCEPT ![t] = "notify"]
  /\ UNCHANGED <<runstate, wq, disturbed>>

Apply(o) ==
  /\ wq' = o.queue
  /\ runstate' = UnblockAll(runstate, o.woken)

NotifyOne(t) ==
  /\ pc[t] = "notify"
  /\ \E o \in NotifyOneOutcomes(wq, runstate) : Apply(o)
  /\ pc' = [pc EXCEPT ![t] = "idle"]
  /\ UNCHANGED <<avail, disturbed>>

NotifyAll(t) ==
  /\ pc[t] = "notify"
  /\ Apply(NotifyAllOutcome(wq))
  /\ pc' = [pc EXCEPT ![t] = "idle"]
  /\ UNCHANGED <<avail, disturbed>>

(***************************************************************************)
(* notify_specific() may be called at any time; the task it wakes finds    *)
(* out for itself whether its condition holds.                             *)
(***************************************************************************)
NotifySpecific(t, u) ==
  /\ pc[t] = "idle"
  /\ \E o \in NotifySpecificOutcomes(wq, u) : Apply(o)
  /\ UNCHANGED <<pc, avail, disturbed>>

(***************************************************************************)
(* TaskRef::kill() on a task that has not exited, whatever it is doing.    *)
(***************************************************************************)
Kill(t) ==
  /\ t \in Killable
  /\ ~HasExited(runstate[t])
  /\ runstate' = [runstate EXCEPT ![t] = Exited]
  /\ disturbed' = TRUE
  /\ UNCHANGED <<wq, pc, avail>>

(***************************************************************************)
(* Task::unblock() called directly on a task that sleeps in wait_until.    *)
(***************************************************************************)
ExternalUnblock(t) ==
  /\ t \in Spurious
  /\ runstate[t] = Blocked
  /\ runstate' = Unblock(runstate, t)
  /\ disturbed' = TRUE
  /\ UNCHANGED <<wq, pc, avail>>

Step(t) ==
  \/ ConditionHolds(t) \/ EnqueueAndBlock(t) \/ Resume(t)
  \/ NotifyOne(t) \/ NotifyAll(t)

Next ==
  \E t \in Tasks :
    \/ CallWaitUntil(t) \/ ConditionHolds(t) \/ EnqueueAndBlock(t) \/ Resume(t)
    \/ CallWait(t) \/ ReturnFromWait(t)
    \/ MakeAvailable(t) \/ NotifyOne(t) \/ NotifyAll(t)
    \/ \E u \in Tasks : NotifySpecific(t, u)
    \/ Kill(t) \/ ExternalUnblock(t)

Spec == Init /\ [][Next]_vars

(***************************************************************************)
(* Fairness: a task inside wait_until or about to notify is picked by the  *)
(* scheduler as long as it is Runnable (round robin over the runqueue).    *)
(***************************************************************************)
FairSpec ==
  Spec /\ \A t \in Tasks : WF_vars(runstate[t] = Runnable /\ Step(t))
-----------------------------------------------------------------------------
Asleep == {t \in Tasks : pc[t] = "asleep" /\ runstate[t] = Blocked}

(***************************************************************************)
(* A task that went to sleep in wait_until and is still Blocked is on the  *)
(* queue, where a notifier can find it.  This is what the implementation   *)
(* note of kernel/wait_queue/src/lib.rs:68-81 asks of every change of a    *)
(* run state: it holds also when tasks are killed or woken from outside.   *)
(***************************************************************************)
SleepersQueued == Asleep \subseteq Waiters(wq)

(***************************************************************************)
(* The queue never holds a task twice, even if the task is woken from      *)
(* outside and goes back to sleep while its old entry is still queued      *)
(* (the contains() test in wait_until).                                    *)
(***************************************************************************)
NoDuplicates == \A i, j \in DOMAIN wq : wq[i] = wq[j] => i = j

(***************************************************************************)
(* No wakeup is lost: while some task sleeps, there is for every available *)
(* resource a task that is about to notify, or one that is awake in        *)
(* wait_until and will look at the condition again.  A task that is killed *)
(* or unblocked behind the queue's back voids this: it may take a notify   *)
(* with it, or leave an entry that a later notify_one is spent on.         *)
(***************************************************************************)
InFlight ==
  {t \in Tasks : \/ pc[t] \in {"enter", "notify"}
                 \/ pc[t] = "asleep" /\ runstate[t] = Runnable}

Covered == Asleep # {} => avail <= Cardinality(InFlight)

NoLostWakeup == disturbed = FALSE => Covered

(***************************************************************************)
(* A notify_one, as long as a task sleeps, is spent on a queued task that  *)
(* can be unblocked: an exited task never absorbs it (the loop in          *)
(* notify()).  That task need not be asleep if it was unblocked from       *)
(* outside before.                                                         *)
(***************************************************************************)
NotifyOneWakes ==
  [][\A t \in Tasks : NotifyOne(t) =>
       \/ Asleep = {}
       \/ \E u \in Waiters(wq) \ Waiters(wq') :
            runstate'[u] = Runnable /\ (~disturbed => u \in Asleep)]_vars

(***************************************************************************)
(* Available resources do not stay beside sleeping tasks for ever, as long *)
(* as nobody is killed or unblocked from outside.                          *)
(***************************************************************************)
WaitersServed ==
  <>(disturbed = TRUE) \/ ((avail > 0 /\ Asleep # {}) ~> (avail = 0 \/ Asleep = {}))
=============================================================================
