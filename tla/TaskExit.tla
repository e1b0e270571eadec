------------------------------ MODULE TaskExit ------------------------------
(***************************************************************************)
(* The end of a task's life (kernel/task, kernel/spawn): a task completes  *)
(* and cleans up after itself while other tasks kill it and its parent     *)
(* joins it or drops its JoinableTaskRef.  Run state, mailbox, joinable    *)
(* and running_on_cpu are separate atomics and locks, read and written one *)
(* at a time.                                                              *)
(*                                                                         *)
(* An exit value is named by who set it: Self, or the killer.  The parent  *)
(* never sets a waker (Dreadnought is about those that do).                *)
(***************************************************************************)
EXTENDS RunState

CONSTANTS
  Self,      \* the task
  Killers    \* tasks that may each call TaskRef::kill() once

ASSUME TaskExitAssumption == Self \notin Killers

Exiters == Killers \cup {Self}
None == "none"

VARIABLES
  runstate,  \* Task.runstate
  running,   \* Task.running_on_cpu is Some
  suspended, \* Task.suspended
  mailbox,   \* TaskRefInner.exit_value_mailbox
  joinable,  \* Task.joinable
  queued,    \* whether the task is in its runqueue
  listed,    \* whether the task is in the TASKLIST
  cpu,       \* where the task's CPU is in its switch to and from the task
  pc,        \* where the task's own code is
  xpc,       \* where each caller of internal_exit() is
  parent,    \* where the parent is
  joined     \* what join() returned

vars == <<runstate, running, suspended, mailbox, joinable, queued, listed, cpu, pc, xpc, parent, joined>>

Values == Exiters \cup {None}

TypeOK ==
  /\ runstate \in RunStates
  /\ running \in BOOLEAN /\ suspended \in BOOLEAN /\ joinable \in BOOLEAN /\ queued \in BOOLEAN /\ listed \in BOOLEAN
  /\ mailbox \in Values
  /\ cpu \in {"out", "chosen", "in", "leaving"}
  /\ pc \in {"run", "exit", "orphan", "reap", "unlist", "take", "end", "dead"}
  /\ xpc \in [Exiters -> {"idle", "check", "mail", "state", "ask", "ok", "err", "todo"}]
  /\ parent \in {"create", "list", "enqueue", "have", "stop", "reap", "unlist", "take", "joined", "dropped"}
  /\ joined \in Values \cup {"Err"}

Init ==
  /\ runstate = Initing /\ running = FALSE /\ suspended = FALSE /\ mailbox = None
  /\ joinable = FALSE /\ queued = FALSE /\ listed = FALSE
  /\ cpu = "out" /\ pc = "run"
  /\ xpc = [e \in Exiters |-> "idle"]
  /\ parent = "create" /\ joined = None

sched == <<running, suspended, cpu>>
-----------------------------------------------------------------------------
(***************************************************************************)
(* TaskBuilder::spawn(), in the parent: ready or blocked, then joinable,   *)
(* then in the TASKLIST, then in a runqueue.                               *)
(***************************************************************************)
SpawnCreate ==
  /\ parent = "create" /\ parent' = "list"
  /\ runstate' \in {Runnable, Blocked}
  /\ joinable' = TRUE
  /\ UNCHANGED <<sched, mailbox, queued, listed, pc, xpc, joined>>

SpawnList ==
  /\ parent = "list" /\ parent' = "enqueue"
  /\ listed' = TRUE
  /\ UNCHANGED <<runstate, sched, mailbox, joinable, queued, pc, xpc, joined>>

SpawnEnqueue ==
  /\ parent = "enqueue" /\ parent' = "have"
  /\ queued' = TRUE
  /\ UNCHANGED <<runstate, sched, mailbox, joinable, listed, pc, xpc, joined>>
-----------------------------------------------------------------------------
(***************************************************************************)
(* The scheduler: select_next_task() looks at the run state, task_switch() *)
(* then marks the task as running.  Switching away marks it as not running *)
(* first, and the CPU leaves its stack some time later, in the context     *)
(* switch.  The task cannot be switched out while its cleanup holds        *)
(* preemption.                                                             *)
(***************************************************************************)
Preemptible == pc \in {"run", "dead"}

Select ==
  /\ cpu = "out" /\ queued /\ runstate = Runnable /\ ~suspended
  /\ cpu' = "chosen"
  /\ UNCHANGED <<runstate, running, suspended, mailbox, joinable, queued, listed, pc, xpc, parent, joined>>

SwitchIn ==
  /\ cpu = "chosen" /\ cpu' = "in"
  /\ running' = TRUE
  /\ UNCHANGED <<runstate, suspended, mailbox, joinable, queued, listed, pc, xpc, parent, joined>>

SwitchAnytime ==             \* mutant: the cleanup does not hold preemption
  /\ cpu = "in" /\ cpu' = "leaving"
  /\ running' = FALSE
  /\ UNCHANGED <<runstate, suspended, mailbox, joinable, queued, listed, pc, xpc, parent, joined>>

StaysRunning ==              \* mutant: running_on_cpu is not reset
  /\ cpu = "in" /\ Preemptible /\ cpu' = "leaving"
  /\ UNCHANGED <<runstate, running, suspended, mailbox, joinable, queued, listed, pc, xpc, parent, joined>>

MarkNotRunning ==
  /\ cpu = "in" /\ Preemptible /\ cpu' = "leaving"
  /\ running' = FALSE
  /\ UNCHANGED <<runstate, suspended, mailbox, joinable, queued, listed, pc, xpc, parent, joined>>

SwitchOut ==
  /\ cpu = "leaving" /\ cpu' = "out"
  /\ UNCHANGED <<runstate, running, suspended, mailbox, joinable, queued, listed, pc, xpc, parent, joined>>

(***************************************************************************)
(* The task blocks itself, and others unblock it.                          *)
(***************************************************************************)
Blocks ==
  /\ cpu = "in" /\ pc = "run" /\ CanBlock(runstate)
  /\ runstate' = Blocked
  /\ UNCHANGED <<sched, mailbox, joinable, queued, listed, pc, xpc, parent, joined>>

Unblocks ==
  /\ runstate = Blocked
  /\ runstate' = Runnable
  /\ UNCHANGED <<sched, mailbox, joinable, queued, listed, pc, xpc, parent, joined>>

(***************************************************************************)
(* suspend() and unsuspend(), by anyone who has found the task.            *)
(***************************************************************************)
Suspends ==
  /\ listed
  /\ suspended' = ~suspended
  /\ UNCHANGED <<runstate, running, cpu, mailbox, joinable, queued, listed, pc, xpc, parent, joined>>
-----------------------------------------------------------------------------
(***************************************************************************)
(* internal_exit(), by the task itself (mark_as_exited, mark_as_killed) or *)
(* by a killer, who has found the task in the TASKLIST: check, store the   *)
(* value, store the run state, and ask whether the task is running, which  *)
(* is a todo!() if it is not.                                              *)
(***************************************************************************)
CallExit(e) ==
  /\ xpc[e] = "idle" /\ xpc' = [xpc EXCEPT ![e] = "check"]
  /\ IF e = Self THEN cpu = "in" /\ pc = "run" /\ pc' = "exit"
                 ELSE listed /\ UNCHANGED pc
  /\ UNCHANGED <<runstate, sched, mailbox, joinable, queued, listed, parent, joined>>

Running(e) == e = Self => cpu = "in"

ExitChecks(e) ==
  /\ xpc[e] = "check" /\ Running(e)
  /\ xpc' = [xpc EXCEPT ![e] = IF HasExited(runstate) THEN "err" ELSE "mail"]
  /\ UNCHANGED <<runstate, sched, mailbox, joinable, queued, listed, pc, parent, joined>>

ExitSetsValue(e) ==
  /\ xpc[e] = "mail" /\ Running(e)
  /\ xpc' = [xpc EXCEPT ![e] = "state"]
  /\ mailbox' = e
  /\ UNCHANGED <<runstate, sched, joinable, queued, listed, pc, parent, joined>>

ExitSetsState(e) ==
  /\ xpc[e] = "state" /\ Running(e)
  /\ xpc' = [xpc EXCEPT ![e] = "ask"]
  /\ runstate' = Exited
  /\ UNCHANGED <<sched, mailbox, joinable, queued, listed, pc, parent, joined>>

ExitAsks(e) ==
  /\ xpc[e] = "ask" /\ Running(e)
  /\ xpc' = [xpc EXCEPT ![e] = IF running THEN "ok" ELSE "todo"]
  /\ UNCHANGED <<runstate, sched, mailbox, joinable, queued, listed, pc, parent, joined>>
-----------------------------------------------------------------------------
(***************************************************************************)
(* The task's cleanup: leave the runqueue, reap itself if it is an orphan, *)
(* let go of preemption.                                                   *)
(***************************************************************************)
Step(from, to) == cpu = "in" /\ pc = from /\ pc' = to

LeaveRunqueue ==
  /\ xpc[Self] \in {"ok", "err"} /\ Step("exit", "orphan")
  /\ queued' = FALSE
  /\ UNCHANGED <<runstate, sched, mailbox, joinable, listed, xpc, parent, joined>>

ReapAnyway ==                \* mutant: joinable or not
  /\ Step("orphan", "reap")
  /\ UNCHANGED <<runstate, sched, mailbox, joinable, queued, listed, xpc, parent, joined>>

ReapIfOrphaned ==
  /\ Step("orphan", IF joinable THEN "end" ELSE "reap")
  /\ UNCHANGED <<runstate, sched, mailbox, joinable, queued, listed, xpc, parent, joined>>

Release ==
  /\ Step("end", "dead")
  /\ UNCHANGED <<runstate, sched, mailbox, joinable, queued, listed, xpc, parent, joined>>
-----------------------------------------------------------------------------
(***************************************************************************)
(* The parent: join() spins until the task has exited, then until it is    *)
(* not running, then reaps.  Or it drops its JoinableTaskRef.              *)
(***************************************************************************)
JoinSeesExit ==
  /\ parent = "have" /\ HasExited(runstate)
  /\ parent' = "stop"
  /\ UNCHANGED <<runstate, sched, mailbox, joinable, queued, listed, pc, xpc, joined>>

JoinIgnoresRunning ==        \* mutant: no second wait
  /\ parent = "stop"
  /\ parent' = "reap"
  /\ UNCHANGED <<runstate, sched, mailbox, joinable, queued, listed, pc, xpc, joined>>

JoinSeesStop ==
  /\ parent = "stop" /\ ~running
  /\ parent' = "reap"
  /\ UNCHANGED <<runstate, sched, mailbox, joinable, queued, listed, pc, xpc, joined>>

DropJoinable ==
  /\ parent \in {"have", "joined"} /\ parent' = "dropped"
  /\ joinable' = FALSE
  /\ UNCHANGED <<runstate, sched, mailbox, queued, listed, pc, xpc, joined>>

(***************************************************************************)
(* reap_exit_value(), by the task or by the parent: the compare-and-swap   *)
(* from Exited to Reaped lets one caller through, who takes the task off   *)
(* the TASKLIST and then takes the value.                                  *)
(***************************************************************************)
CanReap(s) == s = Exited

SelfReaps ==
  /\ Step("reap", IF CanReap(runstate) THEN "unlist" ELSE "end")
  /\ runstate' = IF CanReap(runstate) THEN Reaped ELSE runstate
  /\ UNCHANGED <<sched, mailbox, joinable, queued, listed, xpc, parent, joined>>

KeepsValue ==                \* mutant: an orphan leaves its value in the mailbox
  /\ Step("unlist", "end")
  /\ listed' = FALSE
  /\ UNCHANGED <<runstate, sched, mailbox, joinable, queued, xpc, parent, joined>>

SelfUnlists ==
  /\ Step("unlist", "take")
  /\ listed' = FALSE
  /\ UNCHANGED <<runstate, sched, mailbox, joinable, queued, xpc, parent, joined>>

SelfTakes ==
  /\ Step("take", "end")
  /\ mailbox' = None
  /\ UNCHANGED <<runstate, sched, joinable, queued, listed, xpc, parent, joined>>

JoinReaps ==
  /\ parent = "reap"
  /\ runstate' = IF CanReap(runstate) THEN Reaped ELSE runstate
  /\ IF CanReap(runstate) THEN parent' = "unlist" /\ UNCHANGED joined
                          ELSE parent' = "joined" /\ joined' = "Err"
  /\ UNCHANGED <<sched, mailbox, joinable, queued, listed, pc, xpc>>

JoinUnlists ==
  /\ parent = "unlist" /\ parent' = "take"
  /\ listed' = FALSE
  /\ UNCHANGED <<runstate, sched, mailbox, joinable, queued, pc, xpc, joined>>

JoinTakes ==
  /\ parent = "take" /\ parent' = "joined"
  /\ joined' = IF mailbox = None THEN "Err" ELSE mailbox
  /\ mailbox' = None
  /\ UNCHANGED <<runstate, sched, joinable, queued, listed, pc, xpc>>
-----------------------------------------------------------------------------
Exit(e) == ExitChecks(e) \/ ExitSetsValue(e) \/ ExitSetsState(e) \/ ExitAsks(e)

Cleanup ==
  LeaveRunqueue \/ ReapIfOrphaned \/ SelfReaps \/ SelfUnlists \/ SelfTakes \/ Release

Join == JoinSeesStop \/ JoinReaps \/ JoinUnlists \/ JoinTakes

Next ==
  \/ SpawnCreate \/ SpawnList \/ SpawnEnqueue
  \/ Select \/ SwitchIn \/ MarkNotRunning \/ SwitchOut \/ Blocks \/ Unblocks \/ Suspends
  \/ \E e \in Exiters : CallExit(e) \/ Exit(e)
  \/ Cleanup \/ JoinSeesExit \/ Join \/ DropJoinable

Spec == Init /\ [][Next]_vars

(***************************************************************************)
(* Fairness: what has been started goes on, and the timer interrupt takes  *)
(* a running task off its CPU.                                             *)
(***************************************************************************)
FairSpec ==
  /\ Spec
  /\ WF_vars(SwitchIn) /\ WF_vars(MarkNotRunning) /\ WF_vars(SwitchOut)
  /\ WF_vars(Cleanup) /\ WF_vars(Join)
  /\ \A e \in Exiters : WF_vars(Exit(e))
-----------------------------------------------------------------------------
(***************************************************************************)
(* join() never fails: whoever ended the task, the value is there when the *)
(* parent, past both of its loops, reaps it ("BUG: join() could not        *)
(* retrieve ExitValue after task had exited").                             *)
(***************************************************************************)
JoinReturnsValue == joined # "Err"

(***************************************************************************)
(* A join() that has seen the task exited comes to an end.                 *)
(***************************************************************************)
JoinEnds == (parent = "stop") ~> (parent = "joined")

(***************************************************************************)
(* Whether some other task has called kill().  What a kill voids: the      *)
(* scheduler looks at the run state before it stores running_on_cpu, so a  *)
(* task killed in between is joined and then runs; a task killed while it  *)
(* is off its CPU stays in its runqueue; and as internal_exit() checks and *)
(* stores in separate steps, a late killer replaces the exit value of a    *)
(* task that has exited, and makes a Reaped one Exited again.              *)
(***************************************************************************)
Killed == \E k \in Killers : xpc[k] # "idle"

(***************************************************************************)
(* Once join() has waited for the task "to actually stop running on any    *)
(* CPU core" (kernel/task/src/lib.rs:1160), the task has executed the last *)
(* step of its cleanup and no CPU runs it again or is about to.  It need   *)
(* not be off its CPU: running_on_cpu is cleared before the context        *)
(* switch, and the CPU may still be on the stack of the joined task        *)
(* (TaskSwitch is about that).                                             *)
(***************************************************************************)
PastJoin == parent \in {"reap", "unlist", "take", "joined"}
JoinedNeverRuns == ~Killed /\ PastJoin => pc = "dead" /\ cpu \in {"leaving", "out"}

(***************************************************************************)
(* A task that has exited and that its CPU leaves or has left, never to    *)
(* return to it, is off the runqueue: steps 1 and 2 of the cleanup are not *)
(* interrupted (comment in spawn::task_wrapper).                           *)
(***************************************************************************)
RunqueueClean == ~Killed /\ HasExited(runstate) /\ cpu # "in" => ~queued

(***************************************************************************)
(* No exit value is left behind in the mailbox of a Reaped task, whoever   *)
(* reaped it and whenever the parent let go of the task: it was taken, by  *)
(* one party, or that party is about to take it.                           *)
(***************************************************************************)
ValueTakenOnce ==
  ~Killed /\ runstate = Reaped =>
    IF mailbox = None THEN parent # "take" /\ pc # "take" /\ ~listed
    ELSE (parent \in {"unlist", "take"}) # (pc \in {"unlist", "take"})
=============================================================================
