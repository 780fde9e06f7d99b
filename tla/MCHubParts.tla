----------------------------- MODULE MCHubParts -----------------------------
(***************************************************************************)
(* The parts of the hub that are too small for runs of their own, in one:  *)
(* each behaviour is one of Ota, WifiSetup, ApScan, RequestBody, LogFiles, *)
(* GpioButton or CommandFlow, and the variables of the others stay as they *)
(* are.                                                                    *)
(***************************************************************************)
EXTENDS Integers, Sequences, TLC, Ota, CommandFlowValues

CONSTANTS
  WebRequests, BleRequests, Static, Good, Empty, MaxRequests,
  MaxScans,
  MaxFiles, MaxBoots, MaxLines,
  Half, IgnoreDuration, MaxUptime, MaxGap,
  Uploads, Pieces,
  Data,  \* the buttons of CommandFlow as the table has them, by name
  Payloads, Options, RobotVersions, Waits, NoVersion, Nobody

VARIABLES
  part,
  nvs, wifiMode, netAddress, web, ble, requests, mixed, whole, confirmed, tried, torn,
  driver, loop, station, phone, handler, shown, scans, failed, stolen,
  buffer, arrived, bodies, crossed,
  nextId, files, logStage, logId, queue, popped, boots, lines, written, cleared,
  wideTime, uptime, wasSwitchOn, lastOnTime, pushed, onSince,
  button, table, entry, known, robot, pressed, sent, form

wifiVars == <<nvs, wifiMode, netAddress, web, ble, requests, mixed, whole, confirmed, tried, torn>>
scanVars == <<driver, loop, station, phone, handler, shown, scans, failed, stolen>>
bodyVars == <<buffer, arrived, bodies, crossed>>
logVars == <<nextId, files, logStage, logId, queue, popped, boots, lines, written, cleared>>
gpioVars == <<wideTime, uptime, wasSwitchOn, lastOnTime, pushed, onSince>>
flowVars == <<button, table, entry, known, robot, pressed, sent, form>>
hubVars == <<part, vars, wifiVars, scanVars, bodyVars, logVars, gpioVars, flowVars>>

\* The requests of the run come in one, two and three pieces.
MCPieces == CHOOSE f \in [Uploads -> 1 .. 3] : \A q, r \in Uploads : f[q] = f[r] => q = r

W == INSTANCE WifiSetup WITH mode <- wifiMode
A == INSTANCE ApScan
R == INSTANCE RequestBody
L == INSTANCE LogFiles WITH stage <- logStage
G == INSTANCE GpioButton

Json == INSTANCE ButtonJson
Version == INSTANCE RobotVersion
TakenData == Json!Taken(Data)
Compared == Version!NotOlder(RobotVersions, {<<2, 6, 0>>, <<3, 1, 0>>})
F == INSTANCE CommandFlow WITH
       Buttons <- DOMAIN Data, Taken <- TakenData, NotOlder <- Compared, asked <- form, flash <- entry

ASSUME PartsAssumption ==
  /\ W!SetupAssumption /\ A!MaxScansAssumption /\ R!PiecesAssumption
  /\ L!LogAssumption /\ G!GpioAssumption

ASSUME FlowAssumption ==
  /\ F!FlowAssumption
  /\ \A b \in DOMAIN Data : Data[b] \in Json!KButtons
  /\ \A b, c \in DOMAIN Data : Data[b] = Data[c] => b = c

HubInit ==
  /\ part \in {"ota", "wifi", "scan", "body", "log", "gpio", "flow"}
  /\ Init /\ (part # "ota" => offered = Dev /\ version = Dev)
  /\ W!Init /\ A!Init /\ R!Init /\ L!Init
  /\ G!Init /\ (part # "gpio" => uptime = 0 /\ wideTime)
  /\ F!Init /\ (part # "flow" =>
                 button = (CHOOSE b \in DOMAIN Data : TRUE) /\ robot = CHOOSE v \in RobotVersions : TRUE)

HubNext ==
  /\ part' = part
  /\ \/ /\ part = "ota" /\ Next
        /\ UNCHANGED <<wifiVars, scanVars, bodyVars, logVars, gpioVars, flowVars>>
     \/ /\ part = "wifi" /\ W!Next
        /\ UNCHANGED <<vars, scanVars, bodyVars, logVars, gpioVars, flowVars>>
     \/ /\ part = "scan" /\ A!Next
        /\ UNCHANGED <<vars, wifiVars, bodyVars, logVars, gpioVars, flowVars>>
     \/ /\ part = "body" /\ R!Next
        /\ UNCHANGED <<vars, wifiVars, scanVars, logVars, gpioVars, flowVars>>
     \/ /\ part = "log" /\ L!Next
        /\ UNCHANGED <<vars, wifiVars, scanVars, bodyVars, gpioVars, flowVars>>
     \/ /\ part = "gpio" /\ G!Next
        /\ UNCHANGED <<vars, wifiVars, scanVars, bodyVars, logVars, flowVars>>
     \/ /\ part = "flow" /\ F!Next
        /\ UNCHANGED <<vars, wifiVars, scanVars, bodyVars, logVars, gpioVars>>

-----------------------------------------------------------------------------
(* The fairness of each part is that of its own module: a part that a      *)
(* behaviour is not about has no step to take.                             *)

FairOta ==
  /\ WF_vars(part = "ota" /\ Hub)
  /\ SF_vars(part = "ota" /\ AskServer /\ image' # None)

FairScan ==
  /\ WF_scanVars(part = "scan" /\ A!ScanEnds)
  /\ WF_scanVars(part = "scan" /\ A!Loop)
  /\ WF_scanVars(part = "scan" /\ A!Web)

HubSpec == HubInit /\ [][HubNext]_hubVars /\ FairOta /\ FairScan

-----------------------------------------------------------------------------
\* The properties of the other parts, by their names there; those of Ota are its own.

\* Wi-Fi settings are stored as one request sent them (HandleSetWiFi).
StoredAsSent == W!StoredAsSent

\* The hub joins the network that a phone was told is confirmed, with the address with
\* which it was tried (ProcessInitialSetting, ConnectToWiFi).
ConfirmedJoins == W!ConfirmedJoins

\* The scan's handler answers (server.cpp).
HandlerEnds == A!HandlerEnds

\* A handler gets the body of its own request (server.cpp).
OwnBody == R!OwnBody

\* Lines stay in order, and the log file that is removed is the oldest (logging.cpp).
LogsKept == L!LogsKept

\* A switch that bounces is one press (gpio_button.cpp).
Debounced == G!Debounced

\* A press makes the robot do what the editor showed (from_json.cpp, send_command.cpp).
RunsAsAsked == F!RunsAsAsked
=============================================================================
