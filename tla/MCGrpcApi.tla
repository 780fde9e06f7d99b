------------------------------ MODULE MCGrpcApi ------------------------------
(***************************************************************************)
(* The tasks and presses of the instances checked.                         *)
(***************************************************************************)
EXTENDS GrpcApi, TLC

CONSTANTS f1, f2, s1, s2, p1, p2

OneFetchTask == {f1}
TwoFetchTasks == {f1, f2}
OneSender == {s1}
TwoSenders == {s1, s2}
OnePress == {p1}
TwoPresses == {p1, p2}

Symmetry ==
  Permutations(FetchTasks) \cup Permutations(Senders) \cup Permutations(Presses)
=============================================================================
