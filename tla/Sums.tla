-------------------------------- MODULE Sums --------------------------------
(***************************************************************************)
(* The sum of a sequence of numbers, as a function of how many of them are *)
(* counted.                                                                *)
(***************************************************************************)
EXTENDS Integers, Sequences

Total(q) == LET t[k \in 0 .. Len(q)] == IF k = 0 THEN 0 ELSE t[k - 1] + q[k] IN t[Len(q)]
=============================================================================
