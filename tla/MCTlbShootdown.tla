--------------------------- MODULE MCTlbShootdown ---------------------------
(* Two CPUs drop memory of three frame ranges, and of one; or one frame each. *)
EXTENDS TlbShootdown, TLC

CONSTANTS c1, c2, c3

ThreeRanges == c1 :> <<1, 3, 5>> @@ c2 :> <<7, 8>>
OneFrame == c1 :> <<1>> @@ c2 :> <<2>>

(* c3 uses most pages, the two others one page of each other. *)
MostByOne == c1 :> {7} @@ c2 :> {3} @@ c3 :> {1, 3, 5, 7}
EachOther == c1 :> {2} @@ c2 :> {1} @@ c3 :> {1, 2}

(* Nothing is claimed of what follows a disturbance, and nothing is explored. *)
UntilDisturbed == Undisturbed
=============================================================================
