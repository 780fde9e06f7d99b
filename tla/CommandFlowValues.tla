------------------------- MODULE CommandFlowValues -------------------------
(***************************************************************************)
(* The buttons, choices and robots of the instances of CommandFlow.        *)
(***************************************************************************)
EXTENDS Integers, Sequences

A1 == <<0, 31, 160, 255, 9, 18>>
U1 == <<0, 1, 2, 3, 4, 5, 6, 7, 8, 9, 10, 11, 12, 13, 14, 15>>
Beacon(a, u, minor) == [type |-> "beacon", address |-> a, uuid |-> u, major |-> 12289, minor |-> minor]
MCData ==
  [b1 |-> Beacon(A1, U1, 0), b2 |-> Beacon([A1 EXCEPT ![6] = 33], U1, 0),
   b3 |-> Beacon(A1, [U1 EXCEPT ![10] = 144], 0), b4 |-> Beacon(A1, U1, 65535),
   m2 |-> [type |-> "m5", id |-> 2], g2 |-> [type |-> "gpio", id |-> 2]]

P(type, members) == [type |-> type, members |-> members]
MCPayloads ==
  {P("move_shelf", [shelf_id |-> "s1", location_id |-> "l1"]), P("return_shelf", [shelf_id |-> ""]),
   P("undock_shelf", << >>), P("move_to_location", [location_id |-> "l1"]), P("return_home", << >>),
   P("shortcut", [shortcut_id |-> "c1"]), P("speak", [text |-> "hello"]),
   P("dock_any_shelf", [location_id |-> "l1", dock_forward |-> TRUE]),
   P("proceed", << >>), P("cancel_command", << >>), P("set_emergency_stop", << >>),
   P("http_get", [url |-> "u"]), P("http_post", [url |-> "u", body |-> "b"])}

\* Every two options differ in one of these, and a duration is none, long, negative or too short.
MCOptions ==
  {[cancel_all |-> TRUE, tts |-> "done", deferrable |-> FALSE, lock |-> 0],
   [cancel_all |-> TRUE, tts |-> "", deferrable |-> TRUE, lock |-> 2],
   [cancel_all |-> FALSE, tts |-> "done", deferrable |-> FALSE, lock |-> -2],
   [cancel_all |-> FALSE, tts |-> "", deferrable |-> TRUE, lock |-> 1]}

\* 2.10.3, 3.1.0 and a developer's 3.2
MCRobotVersions ==
  {<<2, 10, 1, 0, 10, 3>>, <<3, 10, 1, 10, 0>>, <<3, 10, 2>>}
MCWaits == {<<3, 10, 1, 10, 0>>, <<3, 10, 2>>}
=============================================================================
