---------------------------- MODULE WaitQueueOps ----------------------------
(***************************************************************************)
(* What WaitQueue::wait_until and WaitQueue::notify do to the queue of     *)
(* waiting tasks.  Both run entirely under the queue's interrupt-safe      *)
(* lock, so each is one step of the modules that use these operators.      *)
(***************************************************************************)
EXTENDS Integers, SequencesExt, RunState

Waiters(q) == ToSet(q)

(***************************************************************************)
(* The current task is appended unless it is already in the queue.         *)
(***************************************************************************)
EnqueueAlways(q, t) == Append(q, t)          \* mutant: no contains() test
Enqueue(q, t) == IF t \in Waiters(q) THEN q ELSE Append(q, t)

(***************************************************************************)
(* notify(None) pops tasks from the front until one of them can be         *)
(* unblocked (a task that has exited cannot) or the queue is empty.  There *)
(* is exactly one outcome: the queue that is left and the tasks woken.     *)
(***************************************************************************)
Live(q, rs) == {i \in DOMAIN q : CanUnblock(rs[q[i]])}

NotifyFrontOnly(q, rs) ==                    \* mutant: gives up on a dead task
  {IF q = <<>> THEN [queue |-> q, woken |-> {}]
               ELSE [queue |-> Tail(q), woken |-> {Head(q)}]}

NotifyOneOutcomes(q, rs) ==
  IF Live(q, rs) = {}
  THEN {[queue |-> <<>>, woken |-> {}]}
  ELSE {[queue |-> SubSeq(q, i + 1, Len(q)), woken |-> {q[i]}] :
          i \in {j \in Live(q, rs) : \A k \in Live(q, rs) : j <= k}}

(***************************************************************************)
(* notify(Some(t)) removes t, wherever it is in the queue, and unblocks it *)
(* if it can be.  (If it cannot, the loop searches again; as no task is    *)
(* queued twice it finds nothing.)  Without t in the queue there is no     *)
(* outcome: the call changes nothing and returns false.                    *)
(***************************************************************************)

NotifySpecificOutcomes(q, t) ==
  {[queue |-> RemoveAt(q, i), woken |-> {t}] : i \in {j \in DOMAIN q : q[j] = t}}

(***************************************************************************)
(* notify_all() drains the queue and unblocks whatever can be unblocked.   *)
(***************************************************************************)
NotifyAllOutcome(q) == [queue |-> <<>>, woken |-> Waiters(q)]
=============================================================================
