---------------------------- MODULE CommandFlow ----------------------------
(***************************************************************************)
(* The way of one command through the program: the editor of the settings  *)
(* page makes a JSON of what the user chose (useCommandEditor.tsx), the    *)
(* hub reads it (from_json.cpp), keeps it, writes it to the flash and to   *)
(* the browsers (to_json.cpp), reads it again after a reboot, and at a     *)
(* press makes the robot's requests of it (send_command.cpp, api.cpp).     *)
(* The editor starts from what the hub sent, so what one of these steps    *)
(* drops is lost for good.                                                 *)
(*                                                                         *)
(* The tasks that run these steps and what may happen between them are the *)
(* subject of CommandTable, GrpcApi and WsBroadcast; here each is one      *)
(* step.                                                                   *)
(***************************************************************************)
EXTENDS Integers, Sequences

CONSTANTS
  Buttons,       \* the buttons there are
  Taken,         \* ButtonJson's Taken of them: what becomes of a button in JSON
  Payloads,      \* the things a user may choose to do: [type, members]
  Options,       \* the options a user may choose with it
  RobotVersions, \* the versions a robot may have, as texts
  NotOlder,      \* RobotVersion's NotOlder of them and 2.6.0 and 3.1.0
  Waits,         \* those of them that know the option lock_on_end
  NoVersion,     \* the version that is not fetched yet
  Nobody         \* no button

VARIABLES
  button, \* the button that the user gives a command
  table,  \* its entry of registered_commands_: [button, command], the button as the names
          \* of those that are equal to it, or Unset
  flash,  \* the entry in the file: [button, command], the command in JSON, or Unset
  known,  \* the robot's version in the RobotInfoHolder
  robot,  \* the robot's version
  pressed, \* the button whose press the last step served, or Nobody
  sent,   \* the requests of that press, in order
  asked   \* what the editor showed when its command was saved: [payload, options], or Unknown

flowVars == <<button, table, flash, known, robot, pressed, sent, asked>>

Unset == [button |-> {}]
Unknown == [payload |-> "unknown"]

\* The threshold of a duration, 0.001 s, and the durations as multiples of it.
Threshold == 1
Abs(n) == IF n < 0 THEN -n ELSE n

NoOptions == [cancel_all |-> FALSE, tts |-> "", deferrable |-> FALSE, lock |-> 0]

-----------------------------------------------------------------------------
(* The members of the object that each type has in JSON, and the types     *)
(* whose commands have options.                                            *)

Members ==
  [move_shelf |-> {"shelf_id", "location_id"}, return_shelf |-> {"shelf_id"},
   undock_shelf |-> {}, move_to_location |-> {"location_id"}, return_home |-> {},
   shortcut |-> {"shortcut_id"}, speak |-> {"text"},
   dock_any_shelf |-> {"location_id", "dock_forward"},
   proceed |-> {}, cancel_command |-> {}, set_emergency_stop |-> {},
   http_get |-> {"url"}, http_post |-> {"url", "body"}]

Types == DOMAIN Members

WithOptions ==
  {"move_shelf", "return_shelf", "undock_shelf", "move_to_location", "return_home",
   "shortcut", "speak", "dock_any_shelf"}

\* disableOptions: the types for which the editor does not offer options.
Disabled == {"proceed", "cancel_command", "http_get", "http_post"}

-----------------------------------------------------------------------------
(***************************************************************************)
(* The JSON of a command: its type and the objects of its types, and of    *)
(* the other members, which may all be missing, the set of their values.   *)
(***************************************************************************)

Get(values, default) == IF values = {} THEN default ELSE CHOOSE v \in values : TRUE
If(condition, value) == IF condition THEN {value} ELSE {}
Object(type, members) == [t \in IF Members[type] = {} THEN {} ELSE {type} |-> members]
Over(new, old) ==
  [t \in DOMAIN new \cup DOMAIN old |-> IF t \in DOMAIN new THEN new[t] ELSE old[t]]

-----------------------------------------------------------------------------
(* The browser.                                                            *)

\* The command the editor opens with, when the button has none: App.tsx.
DefaultCommand ==
  [type |-> "speak", objects |-> [speak |-> [text |-> "name"]], cancel_all |-> {FALSE},
   tts_on_success |-> {}, deferrable |-> {FALSE}, lock_duration_sec |-> {0}]

\* newCommand: the old one, with the object of the new type over it.
NewCommand(old, payload, options) ==
  [type |-> payload.type, objects |-> Over(Object(payload.type, payload.members), old.objects),
   cancel_all |-> {options.cancel_all}, tts_on_success |-> If(options.tts # "", options.tts),
   deferrable |-> {options.deferrable}, lock_duration_sec |-> If(options.lock # 0, options.lock)]

-----------------------------------------------------------------------------
(* from_json.cpp                                                           *)

ReadOptions(json) ==
  [cancel_all |-> Get(json.cancel_all, FALSE), tts |-> Get(json.tts_on_success, ""),
   deferrable |-> Get(json.deferrable, FALSE), lock |-> Get(json.lock_duration_sec, 0)]

Complete(json) ==
  Members[json.type] # {} =>
    json.type \in DOMAIN json.objects /\ Members[json.type] \subseteq DOMAIN json.objects[json.type]

ReadMembers(json) ==
  [m \in Members[json.type] |-> json.objects[json.type][m]]

\* The cases of the commands that the robot runs, and of the others.
ReadRunning(json) ==
  [type |-> json.type, members |-> ReadMembers(json), options |-> ReadOptions(json)]
ReadPlain(json) ==
  [type |-> json.type, members |-> ReadMembers(json), options |-> NoOptions]

(***************************************************************************)
(* A type without a case leaves the Command as it was on the stack, where  *)
(* its strings are empty and the rest is unwritten, and succeeds.          *)
(***************************************************************************)
Unwritten ==
  {[type |-> t, members |-> << >>, options |-> [NoOptions EXCEPT !.cancel_all = c]] :
     t \in {"return_home", "unknown"}, c \in BOOLEAN}

\* The commands that ConvertCommandJson may give; none when it refuses.
ConvertCommandJson(json) ==
  IF json.type \notin Types THEN Unwritten
  ELSE IF ~Complete(json) THEN {}
  ELSE {IF json.type \in WithOptions THEN ReadRunning(json) ELSE ReadPlain(json)}

-----------------------------------------------------------------------------
(* to_json.cpp                                                             *)

FillCommandJson(command) ==
  LET o == command.options
  IN  [type |-> command.type,
       objects |-> IF command.type \in Types THEN Object(command.type, command.members) ELSE << >>,
       cancel_all |-> {o.cancel_all}, tts_on_success |-> If(o.tts # "", o.tts),
       deferrable |-> {o.deferrable},
       lock_duration_sec |-> If(Abs(o.lock) > Threshold, o.lock)]

-----------------------------------------------------------------------------
(* api.cpp: the requests to the robot.                                     *)

\* FillCommandCommon: a command with the options of its request; lock 0 is no lock_on_end.
StartCommand(which, members, options, lock, ok) ==
  [call |-> "StartCommand", which |-> which, members |-> members,
   options |-> [options EXCEPT !.lock = lock], ok |-> ok]

\* StartShortcut takes the options, and leaves them out of its request.
StartShortcut(members, options, lock, ok) ==
  [call |-> "StartShortcutCommand", which |-> "shortcut", members |-> members,
   options |-> NoOptions, ok |-> ok]

\* Proceed, CancelCommand and SetEmergencyStop.
EmptyRequest(which, ok) ==
  [call |-> which, which |-> which, members |-> << >>, options |-> NoOptions, ok |-> ok]

Lock(duration) ==
  StartCommand("lock", [duration_sec |-> duration], NoOptions, 0, TRUE)

-----------------------------------------------------------------------------
(* send_command.cpp                                                        *)

\* FetchHttp: not a request to the robot; SendCommand does not look at its result.
FetchHttp(command) ==
  [call |-> "http", which |-> command.type, members |-> command.members,
   options |-> NoOptions, ok |-> TRUE]

LockOnEndIsSupported == known # NoVersion /\ <<known, <<3, 1, 0>>>> \in NotOlder

\* The request of a command, with its result, as a sequence; none for a type without a case.
Request(command, ok) ==
  LET lock == IF command.options.lock > Threshold THEN command.options.lock ELSE 0
  IN  CASE command.type \in WithOptions \ {"shortcut"} ->
             <<StartCommand(command.type, command.members, command.options, lock, ok)>>
        [] command.type = "shortcut" ->
             <<StartShortcut(command.members, command.options, lock, ok)>>
        [] command.type \in {"proceed", "cancel_command", "set_emergency_stop"} ->
             <<EmptyRequest(command.type, ok)>>
        [] command.type \in {"http_get", "http_post"} -> <<FetchHttp(command)>>
        [] OTHER -> << >>

\* Mutant of SendCommand: the wait follows whether the robot's own option is used or not.
SendAndWait(command, ok) ==
  LET requests == Request(command, ok)
  IN  IF requests # << >> /\ requests[1].ok /\ command.options.lock > Threshold
      THEN Append(requests, Lock(command.options.lock)) ELSE requests

SendCommand(command, ok) ==
  LET requests == Request(command, ok)
  IN  IF /\ requests # << >> /\ requests[1].ok
         /\ command.options.lock > Threshold /\ ~LockOnEndIsSupported
      THEN Append(requests, Lock(command.options.lock)) ELSE requests

-----------------------------------------------------------------------------

Init ==
  /\ button \in Buttons
  /\ table = Unset /\ flash = Unset
  /\ known = NoVersion /\ robot \in RobotVersions
  /\ pressed = Nobody /\ sent = << >> /\ asked = Unknown

\* What the browser shows of the button: the latest ConvertCommands.
Shown == IF table = Unset THEN DefaultCommand ELSE FillCommandJson(table.command)

\* A button, given as the set of those equal to it, read from its JSON.
Read(names) == UNION {p[2] : p \in {p \in Taken : p[1] \in names}}

\* HandlePostCommand with a JSON that LoadCommand takes: set, saved, and sent to the browsers.
Post(json) ==
  \E command \in ConvertCommandJson(json) :
    /\ table' = [button |-> Read({button}), command |-> command]
    /\ flash' = [button |-> Read({button}), command |-> FillCommandJson(command)]

\* The editor shows a type only to robots that know it, and the duration likewise.
Offers(version) == known = NoVersion \/ <<known, version>> \in NotOlder
Offered(payload, options) ==
  /\ payload.type = "shortcut" => Offers(<<3, 1, 0>>)
  /\ payload.type = "proceed" => Offers(<<2, 6, 0>>)
  /\ options.lock # Get(Shown.lock_duration_sec, 0) => Offers(<<2, 6, 0>>)

\* The user saves the form.
Save(payload, options) ==
  /\ Offered(payload, options)
  /\ Post(NewCommand(Shown, payload, options))
  /\ asked' = [payload |-> payload, options |-> options]
  /\ pressed' = Nobody /\ sent' = << >>
  /\ UNCHANGED <<button, known, robot>>

\* Another client of the HTTP interface posts a type that SendCommand does not know.
PostUnknownType ==
  /\ Post([DefaultCommand EXCEPT !.type = "lock"])
  /\ asked' = Unknown
  /\ pressed' = Nobody /\ sent' = << >>
  /\ UNCHANGED <<button, known, robot>>

\* A button is pressed; the robot takes the command or does not.
Press(b) ==
  /\ LET found == b \in table.button
     IN  /\ pressed' = IF found \/ b = button THEN b ELSE Nobody
         /\ \E ok \in BOOLEAN : sent' = IF found THEN SendCommand(table.command, ok) ELSE << >>
  /\ UNCHANGED <<button, table, flash, known, robot, asked>>

\* The hub boots: the table is read from the file, the robot's version is not known yet.
Reboot ==
  /\ IF flash = Unset THEN table' = Unset
     ELSE \E command \in ConvertCommandJson(flash.command) :
            table' = [button |-> Read(flash.button),
                      command |-> command]
  /\ known' = NoVersion
  /\ pressed' = Nobody /\ sent' = << >>
  /\ UNCHANGED <<button, flash, robot, asked>>

FetchVersion ==
  /\ known' = robot
  /\ pressed' = Nobody /\ sent' = << >>
  /\ UNCHANGED <<button, table, flash, robot, asked>>

UpdateRobot ==
  /\ robot' \in RobotVersions
  /\ pressed' = Nobody /\ sent' = << >>
  /\ UNCHANGED <<button, table, flash, known, asked>>

Next ==
  \/ \E payload \in Payloads, options \in Options : Save(payload, options)
  \/ PostUnknownType
  \/ \E b \in Buttons : Press(b)
  \/ Reboot
  \/ FetchVersion
  \/ UpdateRobot

Spec == Init /\ [][Next]_flowVars

\* A user chooses what the editor offers, and the robots that know the option are those of
\* 3.1.0 and later.
FlowAssumption ==
  /\ Nobody \notin Buttons /\ NoVersion \notin RobotVersions
  /\ \A p \in Payloads :
       /\ p = [type |-> p.type, members |-> p.members] /\ p.type \in Types
       /\ p.members = [m \in Members[p.type] |-> p.members[m]]
  /\ \A o \in Options :
       /\ o = [cancel_all |-> o.cancel_all, tts |-> o.tts, deferrable |-> o.deferrable,
               lock |-> o.lock]
       /\ o.lock \in Int
  /\ \A v \in RobotVersions : v \in Waits <=> <<v, <<3, 1, 0>>>> \in NotOlder

-----------------------------------------------------------------------------
(* What the robot makes of the requests: lock_on_end is an option of the   *)
(* robots in Waits, the others do not see it.                              *)

WaitsFor(request) ==
  IF request.which = "lock" THEN <<request.members.duration_sec>>
  ELSE IF robot \in Waits /\ request.options.lock # 0 THEN <<request.options.lock>> ELSE << >>

Waited == IF Len(sent) = 1 THEN WaitsFor(sent[1]) ELSE WaitsFor(sent[1]) \o WaitsFor(sent[2])

(***************************************************************************)
(* After any number of edits and reboots a press of the button makes the   *)
(* robot do what the editor showed when its command was saved, with the    *)
(* options it showed, and no other button does.  A robot of the version    *)
(* that the hub knows waits exactly once when the user wants it to, and a  *)
(* robot that refuses the command is not told to wait for it               *)
(* (ConvertCommandJson, FillCommandJson, SendCommand).                     *)
(* The options of a shortcut and of an emergency stop are another story.   *)
(***************************************************************************)
RunsAsAsked ==
  /\ pressed \in {button, Nobody}
  /\ pressed = button /\ asked # Unknown =>
       /\ sent # << >>
       /\ sent[1].which = asked.payload.type
       /\ sent[1].members = asked.payload.members
       /\ asked.payload.type \notin {"shortcut", "set_emergency_stop"} =>
            LET wanted == IF asked.payload.type \in Disabled THEN NoOptions ELSE asked.options
            IN  /\ [sent[1].options EXCEPT !.lock = wanted.lock] = wanted
                /\ sent[1].ok /\ known = robot =>
                     Waited = IF wanted.lock > Threshold THEN <<wanted.lock>> ELSE << >>
                /\ ~sent[1].ok => Len(sent) = 1
=============================================================================
