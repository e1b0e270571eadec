--------------------------- MODULE MCDreadnought ---------------------------
(* A future that awaits three tasks in turn. *)
EXTENDS Dreadnought

CONSTANTS p1, p2, p3

AwaitThree == <<p1, p2, p3>>
=============================================================================
