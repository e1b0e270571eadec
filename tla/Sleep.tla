------------------------------- MODULE Sleep -------------------------------
(***************************************************************************)
(* Timed sleep (kernel/sleep): tasks enter themselves in the               *)
(* DELAYED_TASKLIST, a heap ordered by resume time, lower                  *)
(* NEXT_DELAYED_TASK_UNBLOCK_TIME if theirs is earlier, and block.  The    *)
(* timer interrupt handler of every CPU unblocks the tasks that are due.   *)
(***************************************************************************)
EXTENDS Integers, FiniteSetsExt, RunState

CONSTANTS
  Tasks, CPUs,
  MaxTime     \* bound: the clock stops here, and no sleep reaches it

ASSUME SleepAssumption == MaxTime \in Nat

Never == MaxTime + 1         \* Instant::MAX

VARIABLES
  now,        \* the monotonic clock
  runstate,   \* Task.runstate
  resume,     \* resume_time of the sleep() that each task is in, or 0
  heap,       \* DELAYED_TASKLIST: the tasks in it
  next,       \* NEXT_DELAYED_TASK_UNBLOCK_TIME
  loaded,     \* next_unblock_time in add_to_delayed_tasklist(), or Never
  pc,         \* where each task is
  time,       \* the local variable of each CPU's handler; Never outside it
  due,        \* each CPU's handler has found time > next, and not yet acted
  raced       \* history: somebody acted on what was no longer so

vars == <<now, runstate, resume, heap, next, loaded, pc, time, due, raced>>

Init ==
  /\ now = 0
  /\ runstate = [t \in Tasks |-> Runnable] /\ pc = [t \in Tasks |-> "run"]
  /\ resume = [t \in Tasks |-> 0]
  /\ heap = {} /\ next = Never
  /\ loaded = [t \in Tasks |-> Never] /\ time = [c \in CPUs |-> Never]
  /\ due = [c \in CPUs |-> FALSE] /\ raced = FALSE

(***************************************************************************)
(* A task runs only while some CPU is not in its interrupt handler.        *)
(***************************************************************************)
Goto(t, from, to) ==
  /\ \E c \in CPUs : time[c] = Never
  /\ pc[t] = from /\ pc' = [pc EXCEPT ![t] = to]

Tick ==
  /\ now < MaxTime /\ now' = now + 1
  /\ UNCHANGED <<runstate, resume, heap, next, loaded, pc, time, due, raced>>
-----------------------------------------------------------------------------
(***************************************************************************)
(* sleep(), also by way of sleep_until(): compute the resume time, push,   *)
(* load, store, block.  A zero duration is allowed, and the clock may pass *)
(* the resume time before the push.                                        *)
(***************************************************************************)
Calls(t) ==
  /\ Goto(t, "run", "push")
  /\ \E r \in now .. MaxTime - 1 : resume' = [resume EXCEPT ![t] = r]
  /\ UNCHANGED <<now, runstate, heap, next, loaded, time, due, raced>>

Push(t) ==
  /\ Goto(t, "push", "load")
  /\ heap' = heap \cup {t}
  /\ UNCHANGED <<now, runstate, resume, next, loaded, time, due, raced>>

LoadNext(t) ==
  /\ Goto(t, "load", "store")
  /\ loaded' = [loaded EXCEPT ![t] = next]
  /\ UNCHANGED <<now, runstate, resume, heap, next, time, due, raced>>

NeverLowers(t) ==            \* mutant: the comparison is the wrong way round
  /\ Goto(t, "store", "block")
  /\ next' = IF resume[t] > loaded[t] THEN resume[t] ELSE next
  /\ loaded' = [loaded EXCEPT ![t] = Never]
  /\ raced' = (raced \/ (resume[t] > loaded[t] /\ loaded[t] # next))
  /\ UNCHANGED <<now, runstate, resume, heap, time, due>>

StoreNext(t) ==
  /\ Goto(t, "store", "block")
  /\ next' = IF resume[t] < loaded[t] THEN resume[t] ELSE next
  /\ loaded' = [loaded EXCEPT ![t] = Never]
  /\ raced' = (raced \/ (resume[t] < loaded[t] /\ loaded[t] # next))
  /\ UNCHANGED <<now, runstate, resume, heap, time, due>>

Blocks(t) ==
  /\ Goto(t, "block", "asleep")
  /\ runstate' = Block(runstate, t)
  /\ UNCHANGED <<now, resume, heap, next, loaded, time, due, raced>>

Returns(t) ==
  /\ runstate[t] = Runnable /\ Goto(t, "asleep", "run")
  /\ resume' = [resume EXCEPT ![t] = 0]
  /\ UNCHANGED <<now, runstate, heap, next, loaded, time, due, raced>>
-----------------------------------------------------------------------------
(***************************************************************************)
(* unblock_sleeping_tasks() in the timer interrupt handler of a CPU.       *)
(***************************************************************************)
TimerFires(c) ==
  /\ time[c] = Never /\ time' = [time EXCEPT ![c] = now]
  /\ UNCHANGED <<now, runstate, resume, heap, next, loaded, pc, due, raced>>

(***************************************************************************)
(* The condition of the while loop, read without the lock of the list.     *)
(***************************************************************************)
CheckNext(c) ==
  /\ time[c] # Never /\ ~due[c]
  /\ due' = [due EXCEPT ![c] = time[c] > next]
  /\ time' = [time EXCEPT ![c] = IF time[c] > next THEN @ ELSE Never]
  /\ UNCHANGED <<now, runstate, resume, heap, next, loaded, pc, raced>>

(***************************************************************************)
(* remove_next_task_from_delayed_tasklist(), under the lock of the list:   *)
(* with an empty list it does nothing at all.                              *)
(***************************************************************************)
Latest == {t \in heap : \A u \in heap : resume[t] >= resume[u]}  \* mutant: cmp() not reversed

Earliest == {t \in heap : \A u \in heap : resume[t] <= resume[u]}

MinResume(S) == IF S = {} THEN Never ELSE Min({resume[t] : t \in S})

KeepsNext(c) ==              \* mutant: next is not updated
  /\ due[c] /\ due' = [due EXCEPT ![c] = FALSE]
  /\ IF heap = {} THEN UNCHANGED <<heap, runstate, raced>>
     ELSE \E t \in Earliest :
            /\ heap' = heap \ {t}
            /\ runstate' = Unblock(runstate, t)
            /\ raced' = (raced \/ time[c] <= next \/ pc[t] # "asleep")
  /\ UNCHANGED <<now, resume, next, loaded, pc, time>>

RemoveNext(c) ==
  /\ due[c] /\ due' = [due EXCEPT ![c] = FALSE]
  /\ IF heap = {} THEN UNCHANGED <<heap, runstate, next, raced>>
     ELSE \E t \in Earliest :
            /\ heap' = heap \ {t}
            /\ runstate' = Unblock(runstate, t)
            /\ next' = MinResume(heap \ {t})
            /\ raced' = (raced \/ time[c] <= next \/ pc[t] # "asleep")
  /\ UNCHANGED <<now, resume, loaded, pc, time>>

Handle(c) == CheckNext(c) \/ RemoveNext(c)
Step(t) == Push(t) \/ LoadNext(t) \/ StoreNext(t) \/ Blocks(t) \/ Returns(t)

Next ==
  \/ Tick
  \/ \E t \in Tasks : Calls(t) \/ Step(t)
  \/ \E c \in CPUs : TimerFires(c) \/ Handle(c)

Spec == Init /\ [][Next]_vars

(***************************************************************************)
(* Fairness: time goes on, the timers keep firing and handlers run.  The   *)
(* scheduler runs every Runnable task again and again between handlers, so *)
(* a task that can step infinitely often does: strong fairness.            *)
(***************************************************************************)
FairSpec ==
  /\ Spec /\ WF_vars(Tick)
  /\ \A t \in Tasks : SF_vars(Step(t))
  /\ \A c \in CPUs : WF_vars(TimerFires(c)) /\ WF_vars(Handle(c))
-----------------------------------------------------------------------------
(***************************************************************************)
(* The lock of the list covers neither NEXT_DELAYED_TASK_UNBLOCK_TIME nor  *)
(* the block() of a sleeper, and raced records the three ways in which     *)
(* that shows: a task stores its resume time after next has changed since  *)
(* it was loaded; a handler removes a task that has pushed itself and not  *)
(* yet blocked; a handler acts on a comparison that another one has made   *)
(* void.  Any of them can wake a task early, late or never, or leave the   *)
(* handler in its loop for ever.  Without them:                            *)
(*                                                                         *)
(* no task leaves sleep() before its time: "Blocks the current task by     *)
(* putting it to sleep for duration ticks" (kernel/sleep/src/lib.rs:123);  *)
(***************************************************************************)
NotEarly ==
  ~raced =>
    \A t \in Tasks : pc[t] = "asleep" /\ runstate[t] = Runnable => now >= resume[t]

(***************************************************************************)
(* a task that sleeps is woken: it does not miss the handler;              *)
(***************************************************************************)
WakesUp == <>raced \/ \A t \in Tasks : pc[t] = "asleep" ~> pc[t] = "run"

(***************************************************************************)
(* "Keeps track of the next task that needs to unblock" (lib.rs:85): when  *)
(* no task is between its push and its store, next is the earliest resume  *)
(* time in the list;                                                       *)
(***************************************************************************)
NextIsEarliest ==
  ~raced /\ (\A t \in Tasks : pc[t] \notin {"load", "store"}) => next = MinResume(heap)

(***************************************************************************)
(* and the timer interrupt handler comes to an end: it removes "all tasks  *)
(* that have been delayed but are able to be unblocked now" (lib.rs:114),  *)
(* and no more.                                                            *)
(***************************************************************************)
HandlerEnds == <>raced \/ \A c \in CPUs : time[c] # Never ~> time[c] = Never
=============================================================================
