---------------------------- MODULE RoundRobin -----------------------------
(***************************************************************************)
(* The round robin scheduler of one CPU (kernel/runqueue_round_robin,      *)
(* kernel/scheduler_round_robin).  select_next_task() holds the write lock *)
(* of the runqueue while it looks for a runnable task, but the run states  *)
(* it looks at are changed by others without that lock: each look is a     *)
(* step.                                                                   *)
(***************************************************************************)
EXTENDS Integers, FiniteSets, SequencesExt

CONSTANTS
  Tasks,
  Idle      \* the idle task of this CPU

ASSUME RoundRobinAssumption == IsFiniteSet(Tasks) /\ Idle \in Tasks

VARIABLES
  queue,    \* RunQueue.queue
  runnable, \* the tasks for which is_runnable() holds
  scan,     \* the index select_next_task() looks at next; 0 when it does not
            \* hold the lock
  idleAt,   \* idle_task_index; 0 for None
  bypass,   \* history: how often another task was selected while this one
            \* was in the queue and runnable, without a break
  stayed    \* history: the tasks but Idle that have been runnable ever since
            \* select_next_task() took the lock

vars == <<queue, runnable, scan, idleAt, bypass, stayed>>

TypeOK ==
  /\ queue \in Seq(Tasks) /\ runnable \subseteq Tasks
  /\ scan \in 0 .. Len(queue) + 1 /\ idleAt \in 0 .. Len(queue)
  /\ bypass \in [Tasks -> Nat] /\ stayed \subseteq Tasks

Init ==
  /\ queue = <<Idle>> /\ runnable = {Idle}
  /\ scan = 0 /\ idleAt = 0
  /\ bypass = [t \in Tasks |-> 0] /\ stayed = {}

Queued == ToSet(queue)
Reset(t) == bypass' = [bypass EXCEPT ![t] = 0]

(***************************************************************************)
(* add_task() pushes at the back.  remove_task() retains the others; a     *)
(* task is in the queue once.                                              *)
(***************************************************************************)
AddTask(t) ==
  /\ scan = 0 /\ t \notin Queued
  /\ queue' = Append(queue, t) /\ Reset(t)
  /\ UNCHANGED <<runnable, scan, idleAt, stayed>>

RemoveTask(t) ==
  /\ scan = 0 /\ t # Idle
  /\ \E i \in DOMAIN queue : queue[i] = t /\ queue' = RemoveAt(queue, i)
  /\ Reset(t)
  /\ UNCHANGED <<runnable, scan, idleAt, stayed>>

(***************************************************************************)
(* Tasks block or exit, and are unblocked, at any time.                    *)
(***************************************************************************)
Block(t) ==
  /\ t \in runnable \ {Idle} /\ runnable' = runnable \ {t} /\ Reset(t)
  /\ stayed' = stayed \ {t}
  /\ UNCHANGED <<queue, scan, idleAt>>

Unblock(t) ==
  /\ t \notin runnable /\ runnable' = runnable \cup {t} /\ Reset(t)
  /\ UNCHANGED <<queue, scan, idleAt, stayed>>
-----------------------------------------------------------------------------
(***************************************************************************)
(* move_to_end(): swap_remove_front() puts the front element in the place  *)
(* of the chosen one and closes the gap at the front; then push_back().    *)
(***************************************************************************)
SwapWithBack(q, k) ==        \* mutant: swap_remove_back()
  [i \in DOMAIN q |-> IF i = Len(q) THEN q[k] ELSE IF i = k THEN q[Len(q)] ELSE q[i]]

MoveToEnd(q, k) ==
  [i \in DOMAIN q |-> IF i = Len(q) THEN q[k] ELSE IF i = k - 1 THEN q[1] ELSE q[i + 1]]

Waiting == (Queued \cap runnable) \ {Idle}

Choose(k) ==
  /\ queue' = MoveToEnd(queue, k)
  /\ bypass' = [t \in Tasks |-> IF t \in Waiting \ {queue[k]} THEN bypass[t] + 1 ELSE 0]
  /\ scan' = 0 /\ idleAt' = 0 /\ stayed' = {}

(***************************************************************************)
(* select_next_task().                                                     *)
(***************************************************************************)
LockQueue ==
  /\ scan = 0 /\ scan' = 1
  /\ stayed' = Waiting
  /\ UNCHANGED <<queue, runnable, idleAt, bypass>>

TakesIdleToo ==              \* mutant: the idle task is not skipped
  /\ scan \in DOMAIN queue
  /\ IF queue[scan] \in runnable
     THEN Choose(scan)
     ELSE scan' = scan + 1 /\ UNCHANGED <<queue, idleAt, bypass, stayed>>
  /\ UNCHANGED runnable

Look ==
  /\ scan \in DOMAIN queue
  /\ IF queue[scan] # Idle /\ queue[scan] \in runnable
     THEN Choose(scan)
     ELSE /\ scan' = scan + 1
          /\ idleAt' = IF queue[scan] = Idle THEN scan ELSE idleAt
          /\ UNCHANGED <<queue, bypass, stayed>>
  /\ UNCHANGED runnable

TakeIdle ==
  /\ scan = Len(queue) + 1
  /\ IF idleAt # 0 THEN Choose(idleAt)
                   ELSE scan' = 0 /\ stayed' = {} /\ UNCHANGED <<queue, idleAt, bypass>>
  /\ UNCHANGED runnable

Next ==
  \/ \E t \in Tasks : AddTask(t) \/ RemoveTask(t) \/ Block(t) \/ Unblock(t)
  \/ LockQueue \/ Look \/ TakeIdle

Spec == Init /\ [][Next]_vars
-----------------------------------------------------------------------------
(***************************************************************************)
(* A task that stays runnable is selected after fewer selections of others *)
(* than there are tasks, although move_to_end() moves a task at the front  *)
(* backwards, and whatever wakes up during a scan.                         *)
(***************************************************************************)
BoundedBypass == \A t \in Tasks : bypass[t] < Cardinality(Tasks)

(***************************************************************************)
(* The idle task is selected only when no other task in the queue has been *)
(* runnable all through the scan: "only choose it if no other tasks are    *)
(* runnable" (kernel/scheduler_round_robin/src/lib.rs:33).  It can be      *)
(* selected over a task that woke up behind the scan.                      *)
(***************************************************************************)
IdleIsLast == [][scan # 0 /\ scan' = 0 /\ Last(queue') = Idle => stayed = {}]_vars

(***************************************************************************)
(* The inductive invariant behind BoundedBypass: every selection moves a   *)
(* waiting task one place forward, except one that the scan has passed,    *)
(* which was then not runnable and has not been bypassed since.            *)
(***************************************************************************)
Passed == \A i \in DOMAIN queue : i < scan => bypass[queue[i]] = 0
PlacePaysForBypass == \A i \in DOMAIN queue : bypass[queue[i]] + i <= Cardinality(Tasks)
OthersNotBypassed == \A t \in Tasks : t \notin Waiting => bypass[t] = 0
NoDuplicates == \A i, j \in DOMAIN queue : queue[i] = queue[j] => i = j

UnlockedIsReset == scan = 0 => idleAt = 0
NotPassedItself == idleAt < scan \/ idleAt = 0

PlaceInv ==
  /\ TypeOK /\ UnlockedIsReset /\ NotPassedItself /\ NoDuplicates
  /\ Passed /\ PlacePaysForBypass /\ OthersNotBypassed

(***************************************************************************)
(* And behind IdleIsLast: a task that has stayed runnable is ahead of the  *)
(* scan, in the queue.                                                     *)
(***************************************************************************)
StayedIsAhead ==
  /\ stayed \subseteq Waiting /\ (scan = 0 => stayed = {})
  /\ \A i \in DOMAIN queue : i < scan => queue[i] \notin stayed

IInv == PlaceInv /\ StayedIsAhead
=============================================================================
