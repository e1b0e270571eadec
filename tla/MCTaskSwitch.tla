---------------------------- MODULE MCTaskSwitch ----------------------------
(* Two CPUs; two tasks on the first, one on the second. *)
EXTENDS TaskSwitch, TLC

CONSTANTS c1, c2, i1, i2, a, b, d

MCIdle == c1 :> i1 @@ c2 :> i2
MCHome == i1 :> c1 @@ i2 :> c2 @@ a :> c1 @@ b :> c1 @@ d :> c2
=============================================================================
