--------------------------- MODULE MCCommandTable ---------------------------
(***************************************************************************)
(* The buttons, commands and names of the instances checked.               *)
(***************************************************************************)
EXTENDS CommandTable

CONSTANTS b1, g1, c1, u1

OneBeacon == {b1}
OneGpioButton == {g1}
OneCommand == {c1}
OneUserName == {u1}

\* A temporary file is only read by the rename that follows its writing: what
\* an interrupted save left in it tells no two states apart.
View ==
  <<ram, nvs, main, idsReset, IF http \in {"remove", "rename"} THEN tmp ELSE Absent>>
=============================================================================
