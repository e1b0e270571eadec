------------------------------ MODULE RunState ------------------------------
(***************************************************************************)
(* The run states of a task (enum RunState of the task crate) and the      *)
(* transitions that the compare-and-exchange operations on a task's        *)
(* runstate field make.  Every component that puts tasks to sleep or wakes *)
(* them is written with these operators.                                   *)
(***************************************************************************)

Initing  == "Initing"
Runnable == "Runnable"
Blocked  == "Blocked"
Exited   == "Exited"
Reaped   == "Reaped"

RunStates == {Initing, Runnable, Blocked, Exited, Reaped}

(***************************************************************************)
(* Task::block() and Task::unblock() succeed exactly on a task that is     *)
(* Runnable or Blocked, whichever of the two it is; on every other state   *)
(* they change nothing and return an error.                                *)
(*                                                                         *)
(* Each makes two compare-and-exchanges, one for either state.  When the   *)
(* task goes from one to the other in between, both fail: the run states   *)
(* are as if the call had come before that change, and the caller gets an  *)
(* error in place of Ok.  That error is left out here.                     *)
(***************************************************************************)
CanBlock(s)   == s \in {Runnable, Blocked}
CanUnblock(s) == s \in {Blocked, Runnable}

Block(rs, t)    == [rs EXCEPT ![t] = IF CanBlock(@) THEN Blocked ELSE @]
UnblockNone(rs, S) == rs                     \* mutant: the wakeup does nothing
UnblockAll(rs, S) ==
  [t \in DOMAIN rs |-> IF t \in S /\ CanUnblock(rs[t]) THEN Runnable ELSE rs[t]]
Unblock(rs, t)  == UnblockAll(rs, {t})

(***************************************************************************)
(* Task::has_exited().                                                     *)
(***************************************************************************)
HasExited(s) == s \in {Exited, Reaped}
=============================================================================
