---------------------------- MODULE DurableTable ----------------------------
(***************************************************************************)
(* What the command table promises about flash: a single table in RAM, a   *)
(* single stored copy of it, and one short window in which the stored copy *)
(* is being swapped.                                                       *)
(*                                                                         *)
(* The stored copy only ever becomes the table as a whole (Commit) or      *)
(* nothing at all.  It can become nothing in two ways: the user erases the *)
(* hub (Erase), or the swap window is left by a reboot or by a failed      *)
(* rename (Reboot while swapping, Spoil).  A reboot at any other moment    *)
(* leaves it alone, and the table is not edited while the swap is open.    *)
(*                                                                         *)
(* CommandTable implements this specification.                             *)
(***************************************************************************)
CONSTANTS
  Blank,      \* the table a freshly booted hub has in RAM
  Nothing     \* what is stored when no table is stored

VARIABLES
  table,      \* the table in RAM
  stored,     \* the table the next boot restores, or Nothing
  swapping    \* the stored copy is being replaced

vars == <<table, stored, swapping>>

Init ==
  /\ table = Blank
  /\ stored = Nothing
  /\ swapping = FALSE

(***************************************************************************)
(* Any change of the table in RAM; only its moment is constrained.         *)
(***************************************************************************)
Edit ==
  /\ ~swapping
  /\ UNCHANGED <<stored, swapping>>

Commit ==
  /\ ~swapping
  /\ stored' = table
  /\ swapping' = TRUE
  /\ UNCHANGED table

Finish ==
  /\ swapping
  /\ swapping' = FALSE
  /\ UNCHANGED <<table, stored>>

Spoil ==
  /\ swapping
  /\ swapping' = FALSE
  /\ stored' = Nothing
  /\ UNCHANGED table

Reboot ==
  /\ table' = Blank
  /\ stored' = IF swapping THEN Nothing ELSE stored
  /\ swapping' = FALSE

Erase ==
  /\ ~swapping
  /\ table' = Blank
  /\ stored' = Nothing
  /\ UNCHANGED swapping

Next == Edit \/ Commit \/ Finish \/ Spoil \/ Reboot \/ Erase

Spec == Init /\ [][Next]_vars
=============================================================================
