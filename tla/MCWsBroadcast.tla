--------------------------- MODULE MCWsBroadcast ---------------------------
(* Model checking of WsBroadcast: no action tells one browser or button    *)
(* from another.                                                           *)
EXTENDS WsBroadcast, TLC

Symmetry == Permutations(Browsers) \cup Permutations(Buttons)
=============================================================================
