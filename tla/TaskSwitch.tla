----------------------------- MODULE TaskSwitch -----------------------------
(***************************************************************************)
(* Switching tasks on several CPUs (kernel/scheduler, kernel/task,         *)
(* kernel/spawn) and how long a task lives.  A task structure and its      *)
(* stack are freed when the last TaskRef to it is dropped; the references  *)
(* are in the TASKLIST, in a runqueue, in the task's own TLS area, in the  *)
(* parent's JoinableTaskRef, in the cleanup code that runs on the task's   *)
(* own stack, in the local variables of a task switch and, after it, in    *)
(* drop_after_task_switch of the next task.                                *)
(*                                                                         *)
(* TaskExit has the fine steps of exiting and joining.                     *)
(***************************************************************************)
EXTENDS RunState

CONSTANTS
  CPUs, Tasks,
  Idle,       \* the idle task of each CPU; the other tasks are spawned
  Home,       \* the CPU whose runqueue a task is put on
  Killable    \* tasks that others may kill

ASSUME TaskSwitchAssumption ==
  /\ Idle \in [CPUs -> Tasks] /\ \A c, d \in CPUs : Idle[c] = Idle[d] => c = d
  /\ Home \in [Tasks -> CPUs] /\ \A c \in CPUs : Home[Idle[c]] = c
  /\ Killable \subseteq Tasks

Idles == {Idle[c] : c \in CPUs}
None == "none"

VARIABLES
  runstate,   \* Task.runstate
  oncpu,      \* Task.running_on_cpu
  tls,        \* tasks whose CURRENT_TASK in TLS holds their TaskRef
  dropAfter,  \* TaskInner.drop_after_task_switch
  runq,       \* tasks that are in the runqueue of their CPU
  listed,     \* tasks in the TASKLIST
  joinRef,    \* tasks whose JoinableTaskRef still exists
  held,       \* tasks whose ExitableTaskRef is on their own stack
  building,   \* tasks that spawn() has listed but not put on a runqueue yet
  stack,      \* the task on whose stack each CPU is
  base,       \* the task whose TLS area each CPU uses
  next,       \* the local variable next of schedule() and task_switch()
  pc          \* where each CPU is

refs == <<tls, dropAfter, runq, listed, joinRef, held, building>>
vars == <<runstate, oncpu, refs, stack, base, next, pc>>

Alive(t) ==
  \/ t \in tls \cup runq \cup listed \cup joinRef \cup held \cup building
  \/ \E u \in Tasks : dropAfter[u] = t
  \/ \E c \in CPUs : next[c] = t

(***************************************************************************)
(* Every CPU runs its idle task; no other task exists.                     *)
(***************************************************************************)
Init ==
  /\ runstate = [t \in Tasks |-> IF t \in Idles THEN Runnable ELSE Initing]
  /\ oncpu = [t \in Tasks |-> IF t \in Idles THEN Home[t] ELSE None]
  /\ tls = Idles /\ runq = Idles /\ listed = Idles /\ held = Idles
  /\ joinRef = {} /\ building = {}
  /\ dropAfter = [t \in Tasks |-> None]
  /\ stack = Idle /\ base = Idle
  /\ next = [c \in CPUs |-> None]
  /\ pc = [c \in CPUs |-> "run"]

Goto(c, from, to) == pc[c] = from /\ pc' = [pc EXCEPT ![c] = to]

(***************************************************************************)
(* TaskBuilder::spawn(): the task is made Runnable and listed, and then    *)
(* put on a runqueue; the caller gets its JoinableTaskRef.                 *)
(***************************************************************************)
QueuedFirst(t) ==            \* mutant: on the runqueue before it is in the TASKLIST
  /\ runstate[t] = Initing
  /\ runstate' = [runstate EXCEPT ![t] = Runnable]
  /\ runq' = runq \cup {t} /\ building' = building \cup {t}
  /\ UNCHANGED <<oncpu, tls, dropAfter, listed, joinRef, held, stack, base, next, pc>>

Spawn(t) ==
  /\ runstate[t] = Initing
  /\ runstate' = [runstate EXCEPT ![t] = Runnable]
  /\ listed' = listed \cup {t} /\ building' = building \cup {t}
  /\ UNCHANGED <<oncpu, tls, dropAfter, runq, joinRef, held, stack, base, next, pc>>

SpawnReturns(t) ==
  /\ t \in building
  /\ building' = building \ {t}
  /\ runq' = runq \cup {t} /\ joinRef' = joinRef \cup {t}
  /\ UNCHANGED <<runstate, oncpu, tls, dropAfter, listed, held, stack, base, next, pc>>
-----------------------------------------------------------------------------
(***************************************************************************)
(* schedule() with select_next_task(): a Runnable task of this CPU's       *)
(* runqueue, the idle task if there is none.  If it is the current task,   *)
(* nothing happens.                                                        *)
(***************************************************************************)
Ready(c) == {t \in runq : Home[t] = c /\ t \notin Idles /\ runstate[t] = Runnable}

FromAnyQueue(c) ==           \* mutant: picks from another CPU's runqueue
  /\ Goto(c, "run", "mark") \/ Goto(c, "yield", "mark")
  /\ \E t \in {u \in runq : u \notin Idles /\ runstate[u] = Runnable} \ {stack[c]} :
       next' = [next EXCEPT ![c] = t]
  /\ UNCHANGED <<runstate, oncpu, refs, stack, base>>

EvenIfNotRunnable(c) ==      \* mutant: does not test is_runnable()
  /\ Goto(c, "run", "mark") \/ Goto(c, "yield", "mark")
  /\ \E t \in {u \in runq : Home[u] = c} \ {stack[c]} :
       next' = [next EXCEPT ![c] = t]
  /\ UNCHANGED <<runstate, oncpu, refs, stack, base>>

Schedule(c) ==
  /\ Goto(c, "run", "mark") \/ Goto(c, "yield", "mark")
  /\ \E t \in (IF Ready(c) = {} THEN {Idle[c]} ELSE Ready(c)) \ {stack[c]} :
       next' = [next EXCEPT ![c] = t]
  /\ UNCHANGED <<runstate, oncpu, refs, stack, base>>

(***************************************************************************)
(* task_switch_inner(): the current task is no longer running; if it has   *)
(* exited its TLS reference moves to the next task; the next task is       *)
(* current.  The local references end here.                                *)
(***************************************************************************)
MarkNotRunning(c) ==
  /\ Goto(c, "mark", "tls")
  /\ oncpu' = [oncpu EXCEPT ![stack[c]] = None]
  /\ UNCHANGED <<runstate, refs, stack, base, next>>

DropTls(c) ==                \* mutant: the reference is dropped on the spot
  /\ Goto(c, "tls", "set")
  /\ tls' = IF HasExited(runstate[stack[c]]) THEN tls \ {stack[c]} ELSE tls
  /\ UNCHANGED <<runstate, oncpu, dropAfter, runq, listed, joinRef, held, building, stack, base, next>>

KeepTls(c) ==                \* mutant: the TLS reference of an exited task stays
  /\ Goto(c, "tls", "set")
  /\ UNCHANGED <<runstate, oncpu, refs, stack, base, next>>

DeinitTls(c) ==
  /\ Goto(c, "tls", "set")
  /\ IF HasExited(runstate[stack[c]])
     THEN /\ tls' = tls \ {stack[c]}
          /\ dropAfter' = [dropAfter EXCEPT ![next[c]] = IF stack[c] \in tls THEN stack[c] ELSE None]
     ELSE UNCHANGED <<tls, dropAfter>>
  /\ UNCHANGED <<runstate, oncpu, runq, listed, joinRef, held, building, stack, base, next>>

SetCurrent(c) ==
  /\ Goto(c, "set", "context")
  /\ oncpu' = [oncpu EXCEPT ![next[c]] = c]
  /\ base' = [base EXCEPT ![c] = next[c]]
  /\ next' = [next EXCEPT ![c] = None]
  /\ UNCHANGED <<runstate, refs, stack>>

ContextSwitch(c) ==
  /\ Goto(c, "context", "post")
  /\ stack' = [stack EXCEPT ![c] = base[c]]
  /\ UNCHANGED <<runstate, oncpu, refs, base, next>>

(***************************************************************************)
(* After the context switch.  A task that runs for the first time looks    *)
(* itself up in the TASKLIST (task_wrapper, init_current_task), and panics *)
(* if it is not there; then the reference left behind is dropped.          *)
(***************************************************************************)
PostSwitch(c) ==
  LET t == stack[c] IN
  /\ IF t \in tls \cup listed
     THEN /\ Goto(c, "post", "run")
          /\ tls' = tls \cup {t}
          /\ held' = held \cup {t}
          /\ dropAfter' = [dropAfter EXCEPT ![t] = None]
     ELSE Goto(c, "post", "panic") /\ UNCHANGED <<tls, held, dropAfter>>
  /\ UNCHANGED <<runstate, oncpu, runq, listed, joinRef, building, stack, base, next>>
-----------------------------------------------------------------------------
(***************************************************************************)
(* The current task blocks itself; others unblock it.                      *)
(***************************************************************************)
Blocks(c) ==
  /\ pc[c] = "run" /\ stack[c] \notin Idles /\ CanBlock(runstate[stack[c]])
  /\ runstate' = Block(runstate, stack[c])
  /\ UNCHANGED <<oncpu, refs, stack, base, next, pc>>

Unblocks(t) ==
  /\ runstate[t] = Blocked
  /\ runstate' = Unblock(runstate, t)
  /\ UNCHANGED <<oncpu, refs, stack, base, next, pc>>

(***************************************************************************)
(* The current task ends: it marks itself as exited, leaves its runqueue,  *)
(* reaps itself if it is an orphan, drops its ExitableTaskRef and yields.  *)
(* Preemption is held meanwhile.                                           *)
(***************************************************************************)
Exits(c) ==
  /\ stack[c] \notin Idles
  /\ Goto(c, "run", "leave")
  /\ runstate' = [runstate EXCEPT ![stack[c]] = IF HasExited(@) THEN @ ELSE Exited]
  /\ UNCHANGED <<oncpu, refs, stack, base, next>>

LeavesRunqueue(c) ==
  /\ Goto(c, "leave", "reap")
  /\ runq' = runq \ {stack[c]}
  /\ UNCHANGED <<runstate, oncpu, tls, dropAfter, listed, joinRef, held, building, stack, base, next>>

Reaps(c) ==
  LET t == stack[c] IN
  /\ Goto(c, "reap", "drop")
  /\ IF t \notin joinRef /\ runstate[t] = Exited
     THEN runstate' = [runstate EXCEPT ![t] = Reaped] /\ listed' = listed \ {t}
     ELSE UNCHANGED <<runstate, listed>>
  /\ UNCHANGED <<oncpu, tls, dropAfter, runq, joinRef, held, building, stack, base, next>>

DropsOwnRef(c) ==
  /\ Goto(c, "drop", "yield")
  /\ held' = held \ {stack[c]}
  /\ UNCHANGED <<runstate, oncpu, tls, dropAfter, runq, listed, joinRef, building, stack, base, next>>

(***************************************************************************)
(* Other tasks: join() (past its loops), dropping the JoinableTaskRef, and *)
(* kill().                                                                 *)
(***************************************************************************)
Join(t) ==
  /\ t \in joinRef /\ runstate[t] = Exited /\ oncpu[t] = None
  /\ runstate' = [runstate EXCEPT ![t] = Reaped]
  /\ listed' = listed \ {t}
  /\ UNCHANGED <<oncpu, tls, dropAfter, runq, joinRef, held, building, stack, base, next, pc>>

DropJoinRef(t) ==
  /\ t \in joinRef
  /\ joinRef' = joinRef \ {t}
  /\ UNCHANGED <<runstate, oncpu, tls, dropAfter, runq, listed, held, building, stack, base, next, pc>>

Kill(t) ==
  /\ t \in Killable /\ t \in listed /\ ~HasExited(runstate[t])
  /\ runstate' = [runstate EXCEPT ![t] = Exited]
  /\ UNCHANGED <<oncpu, refs, stack, base, next, pc>>

CpuStep(c) ==
  \/ Schedule(c) \/ MarkNotRunning(c) \/ DeinitTls(c) \/ SetCurrent(c) \/ ContextSwitch(c)
  \/ PostSwitch(c) \/ Blocks(c) \/ Exits(c) \/ LeavesRunqueue(c) \/ Reaps(c) \/ DropsOwnRef(c)

Next ==
  \/ \E c \in CPUs : CpuStep(c)
  \/ \E t \in Tasks : Spawn(t) \/ SpawnReturns(t) \/ Unblocks(t) \/ Join(t) \/ DropJoinRef(t) \/ Kill(t)

Spec == Init /\ [][Next]_vars
-----------------------------------------------------------------------------
(***************************************************************************)
(* No CPU is on the stack, or in the TLS area, of a task that has been     *)
(* freed: drop_after_task_switch keeps an exited task until after the      *)
(* context switch, the runqueue and the TASKLIST keep the next one.        *)
(***************************************************************************)
StackAlive == \A c \in CPUs : Alive(stack[c]) /\ Alive(base[c])

(***************************************************************************)
(* No task runs on two CPUs, not even while one of them is still switching *)
(* away from it after it cleared running_on_cpu.                           *)
(***************************************************************************)
OneCpuPerTask ==
  \A c, d \in CPUs : c # d => {stack[c], base[c]} \cap {stack[d], base[d]} = {}

(***************************************************************************)
(* A task that is Reaped, off its CPU and out of its parent's hands is     *)
(* freed: nothing still refers to it, so that "its task struct will        *)
(* eventually be dropped" (comment in task_switch_inner).  A task killed   *)
(* by others is not taken off its runqueue, which keeps it.                *)
(***************************************************************************)
ReapedIsFreed ==
  \A t \in Tasks \ Killable :
    /\ runstate[t] = Reaped /\ t \notin joinRef
    /\ \A c \in CPUs : stack[c] # t /\ base[c] # t /\ dropAfter[stack[c]] # t
    => ~Alive(t)

(***************************************************************************)
(* A task that is switched to for the first time finds itself in the       *)
(* TASKLIST ("BUG: task_wrapper: couldn't init task as the current task"). *)
(* One that is killed and joined after the scheduler chose it does not.    *)
(***************************************************************************)
FirstRunSucceeds == \A c \in CPUs : pc[c] = "panic" => stack[c] \in Killable

(***************************************************************************)
(* A task that has exited, and that no CPU is on or about to switch to, is *)
(* never switched to again ("it will finish running its current timeslice, *)
(* and then never be run again", doc of kill()).                           *)
(***************************************************************************)
Uses(c, t) == t \in {stack[c], base[c], next[c]}
ExitedStaysOff ==
  [][\A t \in Tasks :
       HasExited(runstate[t]) /\ (\A c \in CPUs : ~Uses(c, t)) => \A c \in CPUs : ~Uses(c, t)']_vars
=============================================================================
