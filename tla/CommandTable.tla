---------------------------- MODULE CommandTable ----------------------------
(***************************************************************************)
(* The table of button names and commands (command_table.cpp), the HTTP    *)
(* handlers that edit and save it (server_commands.cpp, server_info.cpp),  *)
(* the loop task that names the hub's own buttons, the file the table is   *)
(* saved to and the settings in NVS it depends on.                         *)
(*                                                                         *)
(* Two tasks run: the loop task (boot, hub button names, GPIO register and *)
(* unregister) and the web server's task (one request at a time).  Every   *)
(* CommandTable method holds mutex_ from its first to its last line, so a  *)
(* method is one step, except Save and LoadCommandArray, whose steps leave *)
(* traces in flash between which the power can go: while one of those is   *)
(* under way (Locked) no other step touches the table.                     *)
(*                                                                         *)
(* RAM is lost by a reboot; NVS and the two files are not.                 *)
(***************************************************************************)
EXTENDS Naturals, FiniteSets

CONSTANTS
  Beacons,      \* iBeacon buttons
  M5Buttons,    \* the buttons on the hub that setup() names
  GpioButtons,  \* the HubPlus buttons
  Commands,     \* what a button may be told to do
  UserNames,    \* names users choose
  HubName,      \* the fixed names of the hub's own buttons, taken as one
  NoName,       \* the button has no entry in button_names_
  Absent,       \* the file does not exist
  Torn,         \* the file is incomplete
  MaxButtonId   \* bound: automatic names given out between two resets

Buttons == Beacons \cup M5Buttons \cup GpioButtons

(***************************************************************************)
(* "ボタンN" is represented by N.                                          *)
(***************************************************************************)
AutoNames == 1 .. MaxButtonId
Names == AutoNames \cup UserNames \cup {HubName}
Items == Buttons \X Commands
Image == [names : [Buttons -> Names \cup {NoName}], commands : SUBSET Items]

ASSUME BoundAssumption == MaxButtonId \in Nat

ASSUME ButtonAssumption ==
  /\ Beacons \cap (M5Buttons \cup GpioButtons) = {}
  /\ M5Buttons \cap GpioButtons = {}

ASSUME NameAssumption ==
  /\ \A n \in UserNames \cup {HubName, NoName} : n \notin Nat
  /\ NoName \notin UserNames \cup {HubName}

ASSUME FileAssumption ==
  /\ Absent # Torn
  /\ Absent \notin Image
  /\ Torn \notin Image

VARIABLES
  \* RAM
  commands,      \* registered_commands_
  names,         \* button_names_
  http,          \* what the web server's task is doing
  loop,          \* what the loop task is doing
  todo,          \* array items LoadCommandArrayLocked has still to read
  valid,         \* its "ok"
  naming,        \* buttons the loop task has still to name or to forget
  gpioPrev,      \* prev: the GPIO buttons are registered
  \* NVS
  nextButtonId,  \* "next_button_id"
  gpioEnabled,   \* "gpio_button"
  \* SPIFFS
  main,          \* /command_table.dat
  tmp,           \* /command_table.tmp
  \* history
  idsReset       \* next_button_id was reset and the saved table was not

ram == <<commands, names, http, loop, todo, valid, naming, gpioPrev>>
nvs == <<nextButtonId, gpioEnabled>>
files == <<main, tmp>>
vars == <<ram, nvs, files, idsReset>>

NoNames == [b \in Buttons |-> NoName]
Blank == [names |-> NoNames, commands |-> {}]
Current == [names |-> names, commands |-> commands]

TypeOK ==
  /\ commands \in SUBSET Items
  /\ names \in [Buttons -> Names \cup {NoName}]
  /\ http \in {"idle", "put", "save", "write", "remove", "rename", "clear",
               "restart"}
  /\ loop \in {"load", "loading", "hubnames", "run", "register", "unregister"}
  /\ todo \in SUBSET Items
  /\ valid \in BOOLEAN
  /\ naming \in SUBSET Buttons
  /\ gpioPrev \in BOOLEAN
  /\ nextButtonId \in 1 .. (MaxButtonId + 1)
  /\ gpioEnabled \in BOOLEAN
  /\ main \in Image \cup {Absent, Torn}
  /\ tmp \in Image \cup {Absent, Torn}
  /\ idsReset \in BOOLEAN

Init ==
  /\ commands = {}
  /\ names = NoNames
  /\ http = "idle"
  /\ loop = "load"
  /\ todo = {}
  /\ valid = TRUE
  /\ naming = {}
  /\ gpioPrev = FALSE
  /\ nextButtonId = 1
  /\ gpioEnabled = FALSE
  /\ main = Absent
  /\ tmp = Absent
  /\ idsReset = FALSE

(***************************************************************************)
(* A web server step holds mutex_ across the next step as well.            *)
(***************************************************************************)
Locked == http \in {"put", "write", "remove", "rename"}

(***************************************************************************)
(* SetupHttpServer() is called after Load() has returned.                  *)
(***************************************************************************)
Ready == http = "idle" /\ loop \notin {"load", "loading"}

-----------------------------------------------------------------------------
(* The table                                                               *)

WithoutCommand(b) == {item \in commands : item[1] # b}

(***************************************************************************)
(* A button without a name gets the next automatic one, whose number is    *)
(* taken from NVS and counted there at once.                               *)
(***************************************************************************)
SetCommandLocked(b, c) ==
  /\ \/ /\ names[b] # NoName
        /\ UNCHANGED <<names, nextButtonId>>
     \/ /\ names[b] = NoName
        /\ nextButtonId <= MaxButtonId
        /\ names' = [names EXCEPT ![b] = nextButtonId]
        /\ nextButtonId' = nextButtonId + 1
  /\ commands' = WithoutCommand(b) \cup {<<b, c>>}

-----------------------------------------------------------------------------
(* Requests                                                                *)

HandlePostCommand(b, c) ==
  /\ Ready
  /\ SetCommandLocked(b, c)
  /\ http' = "save"
  /\ UNCHANGED <<loop, todo, valid, naming, gpioPrev, gpioEnabled, files,
                 idsReset>>

(***************************************************************************)
(* PUT /commands carries an array.  The table is emptied first; items that *)
(* do not parse are skipped and make the answer a 400, the others stay.    *)
(* The items are taken in any order: the table keeps no order that matters *)
(* here, and of two items for one button either may come last.             *)
(***************************************************************************)
HandlePutCommands(items, ok) ==
  /\ Ready
  /\ commands' = {}
  /\ todo' = items
  /\ valid' = ok
  /\ http' = "put"
  /\ UNCHANGED <<names, loop, naming, gpioPrev, nvs, files, idsReset>>

LoadCommandItem(item) ==
  /\ http = "put"
  /\ item \in todo
  /\ SetCommandLocked(item[1], item[2])
  /\ todo' = todo \ {item}
  /\ UNCHANGED <<http, loop, valid, naming, gpioPrev, gpioEnabled, files,
                 idsReset>>

LoadCommandArrayEnd ==
  /\ http = "put"
  /\ todo = {}
  /\ http' = IF valid THEN "save" ELSE "idle"
  /\ valid' = TRUE
  /\ UNCHANGED <<commands, names, loop, todo, naming, gpioPrev, nvs, files,
                 idsReset>>

(***************************************************************************)
(* Only a beacon loses its name with its command.                          *)
(***************************************************************************)
HandleDeleteCommand(b) ==
  /\ Ready
  /\ commands' = WithoutCommand(b)
  /\ names' = IF b \in Beacons THEN [names EXCEPT ![b] = NoName] ELSE names
  /\ http' = "save"
  /\ UNCHANGED <<loop, todo, valid, naming, gpioPrev, nvs, files, idsReset>>

HandleSetButtonName(b, n) ==
  /\ Ready
  /\ names' = [names EXCEPT ![b] = n]
  /\ http' = "save"
  /\ UNCHANGED <<commands, loop, todo, valid, naming, gpioPrev, nvs, files,
                 idsReset>>

HandleDeleteButtonName(b) ==
  /\ Ready
  /\ names' = [names EXCEPT ![b] = NoName]
  /\ http' = "save"
  /\ UNCHANGED <<commands, loop, todo, valid, naming, gpioPrev, nvs, files,
                 idsReset>>

HandleSetGpioButtonIsEnabled(v) ==
  /\ Ready
  /\ gpioEnabled' = v
  /\ UNCHANGED <<ram, nextButtonId, files, idsReset>>

(***************************************************************************)
(* GET /clear_all_data: the settings first, then the table, then a second  *)
(* of delay and ESP.restart() (Reboot).                                    *)
(***************************************************************************)
HandleClearAllData ==
  /\ Ready
  /\ nextButtonId' = 1
  /\ gpioEnabled' = FALSE
  /\ idsReset' = TRUE
  /\ http' = "clear"
  /\ UNCHANGED <<commands, names, loop, todo, valid, naming, gpioPrev, files>>

ResetTable ==
  /\ http = "clear"
  /\ commands' = {}
  /\ names' = NoNames
  /\ http' = "restart"
  /\ \/ /\ main' = Absent
        /\ idsReset' = FALSE
     \/ /\ main # Absent            \* SPIFFS.remove fails, nobody looks
        /\ UNCHANGED <<main, idsReset>>
  /\ UNCHANGED <<loop, todo, valid, naming, gpioPrev, nvs, tmp>>

-----------------------------------------------------------------------------
(* Save                                                                    *)

\* Mutant: the table is written in place.
SaveOpenInPlace ==
  /\ http = "save"
  /\ \/ main' = Torn /\ http' = "write"
     \/ http' = "idle" /\ UNCHANGED main
  /\ UNCHANGED <<commands, names, loop, todo, valid, naming, gpioPrev, nvs,
                 tmp, idsReset>>

(***************************************************************************)
(* open(tmp, "w") creates or truncates the file.                           *)
(***************************************************************************)
SaveOpen ==
  /\ http = "save"
  /\ \/ tmp' = Torn /\ http' = "write"
     \/ http' = "idle" /\ UNCHANGED tmp
  /\ UNCHANGED <<commands, names, loop, todo, valid, naming, gpioPrev, nvs,
                 main, idsReset>>

SaveWrite ==
  /\ http = "write"
  /\ \/ tmp' = Current /\ http' = "remove"
     \/ http' = "idle" /\ UNCHANGED tmp
  /\ UNCHANGED <<commands, names, loop, todo, valid, naming, gpioPrev, nvs,
                 main, idsReset>>

(***************************************************************************)
(* A failure to remove the old file is logged and ignored.                 *)
(***************************************************************************)
SaveRemove ==
  /\ http = "remove"
  /\ main' \in {Absent, main}
  /\ http' = "rename"
  /\ UNCHANGED <<commands, names, loop, todo, valid, naming, gpioPrev, nvs,
                 tmp, idsReset>>

(***************************************************************************)
(* SPIFFS does not rename over an existing file.  The handler answers 200  *)
(* whatever happened.                                                      *)
(***************************************************************************)
SaveRename ==
  /\ http = "rename"
  /\ \/ main = Absent /\ main' = tmp /\ tmp' = Absent
     \/ UNCHANGED files
  /\ http' = "idle"
  /\ UNCHANGED <<commands, names, loop, todo, valid, naming, gpioPrev, nvs,
                 idsReset>>

-----------------------------------------------------------------------------
(* The loop task                                                           *)

\* Mutant: the stored button names are not read.
LoadCommandsOnly ==
  /\ loop = "load"
  /\ \/ /\ main \in {Absent, Torn}
        /\ loop' = "hubnames"
        /\ naming' = M5Buttons
        /\ UNCHANGED todo
     \/ /\ main \notin {Absent, Torn}
        /\ loop' = "loading"
        /\ todo' = main.commands
        /\ UNCHANGED naming
  /\ UNCHANGED <<names, commands, http, valid, gpioPrev, nvs, files, idsReset>>

(***************************************************************************)
(* Load() at boot: the names as they are in the file, then one command     *)
(* after the other, naming those that have no name.  No other task runs.   *)
(***************************************************************************)
Load ==
  /\ loop = "load"
  /\ \/ /\ main \in {Absent, Torn}
        /\ loop' = "hubnames"
        /\ naming' = M5Buttons
        /\ UNCHANGED <<names, commands, todo>>
     \/ /\ main \notin {Absent, Torn}
        /\ loop' = "loading"
        /\ names' = main.names
        /\ commands' = {}
        /\ todo' = main.commands
        /\ UNCHANGED naming
  /\ UNCHANGED <<http, valid, gpioPrev, nvs, files, idsReset>>

LoadItem(item) ==
  /\ loop = "loading"
  /\ item \in todo
  /\ SetCommandLocked(item[1], item[2])
  /\ todo' = todo \ {item}
  /\ UNCHANGED <<http, loop, valid, naming, gpioPrev, gpioEnabled, files,
                 idsReset>>

LoadEnd ==
  /\ loop = "loading"
  /\ todo = {}
  /\ loop' = "hubnames"
  /\ naming' = M5Buttons
  /\ UNCHANGED <<commands, names, http, todo, valid, gpioPrev, nvs, files,
                 idsReset>>

(***************************************************************************)
(* setup() names the M5 buttons; the loop names or forgets the GPIO        *)
(* buttons when the setting has changed.  Nothing is saved here.           *)
(***************************************************************************)
GpioSettingChanged ==
  /\ loop = "run"
  /\ gpioEnabled # gpioPrev
  /\ loop' = IF gpioEnabled THEN "register" ELSE "unregister"
  /\ naming' = GpioButtons
  /\ UNCHANGED <<commands, names, http, todo, valid, gpioPrev, nvs, files,
                 idsReset>>

NameHubButton(b) ==
  /\ loop \in {"hubnames", "register", "unregister"}
  /\ b \in naming
  /\ ~Locked
  /\ names' = [names EXCEPT ![b] = IF loop = "unregister" THEN NoName
                                                          ELSE HubName]
  /\ naming' = naming \ {b}
  /\ UNCHANGED <<commands, http, loop, todo, valid, gpioPrev, nvs, files,
                 idsReset>>

NamingEnd ==
  /\ loop \in {"hubnames", "register", "unregister"}
  /\ naming = {}
  /\ loop' = "run"
  /\ gpioPrev' = IF loop = "hubnames" THEN gpioPrev ELSE loop = "register"
  /\ UNCHANGED <<commands, names, http, todo, valid, naming, nvs, files,
                 idsReset>>

\* Mutant: the counter of automatic names is kept in RAM.
RebootForgetsButtonId ==
  /\ commands' = {}
  /\ names' = NoNames
  /\ http' = "idle"
  /\ loop' = "load"
  /\ todo' = {}
  /\ valid' = TRUE
  /\ naming' = {}
  /\ gpioPrev' = FALSE
  /\ nextButtonId' = 1
  /\ UNCHANGED <<gpioEnabled, files, idsReset>>

(***************************************************************************)
(* The hub restarts: ESP.restart() in the loop task (5 a.m., a watchdog),  *)
(* in a handler, or the power.  It can come between any two steps.         *)
(***************************************************************************)
Reboot ==
  /\ commands' = {}
  /\ names' = NoNames
  /\ http' = "idle"
  /\ loop' = "load"
  /\ todo' = {}
  /\ valid' = TRUE
  /\ naming' = {}
  /\ gpioPrev' = FALSE
  /\ UNCHANGED <<nvs, files, idsReset>>

(***************************************************************************)
(* A hub that did not join a Wi-Fi network offers "reset all" over BLE: it *)
(* clears the settings, leaves the table file alone and restarts.  Such a  *)
(* hub does not load the table, so it is still at "load".                  *)
(***************************************************************************)
ProcessResetAllCommand ==
  /\ loop = "load"
  /\ nextButtonId' = 1
  /\ gpioEnabled' = FALSE
  /\ idsReset' = TRUE
  /\ UNCHANGED <<ram, files>>

-----------------------------------------------------------------------------
Request ==
  \/ \E b \in Buttons, c \in Commands : HandlePostCommand(b, c)
  \/ \E items \in SUBSET Items, ok \in BOOLEAN : HandlePutCommands(items, ok)
  \/ \E b \in Buttons : HandleDeleteCommand(b)
  \/ \E b \in Buttons, n \in UserNames : HandleSetButtonName(b, n)
  \/ \E b \in Buttons : HandleDeleteButtonName(b)
  \/ \E v \in BOOLEAN : HandleSetGpioButtonIsEnabled(v)
  \/ HandleClearAllData

Handler ==
  \/ \E item \in todo : LoadCommandItem(item)
  \/ LoadCommandArrayEnd
  \/ ResetTable
  \/ SaveOpen
  \/ SaveWrite
  \/ SaveRemove
  \/ SaveRename

LoopTask ==
  \/ Load
  \/ \E item \in todo : LoadItem(item)
  \/ LoadEnd
  \/ GpioSettingChanged
  \/ \E b \in naming : NameHubButton(b)
  \/ NamingEnd

Next ==
  \/ Request
  \/ Handler
  \/ LoopTask
  \/ Reboot
  \/ ProcessResetAllCommand

Spec == Init /\ [][Next]_vars

-----------------------------------------------------------------------------
(* Properties                                                              *)

IsImage(file) == file \notin {Absent, Torn}

UniquePerButton(items) == \A p, q \in items : p[1] = q[1] => p = q

(***************************************************************************)
(* A press of a button sends one command: neither the table nor a file     *)
(* ever holds two commands for one button, whatever an uploaded array      *)
(* repeats (SetCommandLocked, GetCommandByButton).                         *)
(***************************************************************************)
OneCommandPerButton ==
  /\ UniquePerButton(commands)
  /\ IsImage(main) => UniquePerButton(main.commands)
  /\ IsImage(tmp) => UniquePerButton(tmp.commands)

(***************************************************************************)
(* No automatic name used in ns can be given out again, and no two buttons *)
(* share one.                                                              *)
(***************************************************************************)
AutoNamesFresh(ns) ==
  \A b \in Buttons :
    ns[b] \in Nat =>
      /\ ns[b] < nextButtonId
      /\ \A d \in Buttons : ns[d] = ns[b] => d = b

(***************************************************************************)
(* Two buttons never get the same automatic name, and the stored table     *)
(* holds none that will be given out again: across reboots, failed saves   *)
(* and lost swaps the counter in NVS is never behind the names in use, as  *)
(* long as nobody reset the settings and left the table (GetNextButtonId). *)
(***************************************************************************)
AutoNamesUnique ==
  ~idsReset =>
    /\ AutoNamesFresh(names)
    /\ IsImage(main) => AutoNamesFresh(main.names)

(***************************************************************************)
(* Load puts every stored command back and no other, and keeps every       *)
(* stored name; only a button that had a command and no name gets one.     *)
(***************************************************************************)
LoadedAsStored ==
  loop = "loading" /\ loop' = "hubnames" =>
    /\ commands = main.commands
    /\ \A b \in Buttons :
         names[b] # main.names[b] =>
           main.names[b] = NoName /\ \E c \in Commands : <<b, c>> \in commands

RestoresStored == [][LoadedAsStored]_vars

(***************************************************************************)
(* What the boot and Save have done so far, on which the properties above  *)
(* and below rest: the boot is alone and has put back a part of the file;  *)
(* while Save swaps the files the table is what it wrote.                  *)
(***************************************************************************)
BootAlone == loop \in {"load", "loading"} => http = "idle"

Saving ==
  /\ http \in {"remove", "rename"} => tmp = Current
  /\ main # Torn

Restoring ==
  loop = "loading" =>
    /\ IsImage(main)
    /\ commands \cup todo = main.commands
    /\ \A b \in Buttons :
         names[b] # main.names[b] =>
           main.names[b] = NoName /\ \E c \in Commands : <<b, c>> \in commands

IInv ==
  /\ TypeOK
  /\ BootAlone
  /\ Saving
  /\ OneCommandPerButton
  /\ AutoNamesUnique
  /\ Restoring

(***************************************************************************)
(* The table and its file implement DurableTable: what the next boot       *)
(* restores is a table that was in RAM as a whole, it is replaced only by  *)
(* a complete save, and it is lost only in the window between remove and   *)
(* rename, or when the user clears all data.                               *)
(***************************************************************************)
Swapping == http = "rename" /\ main = Absent

Durable == INSTANCE DurableTable WITH
  Blank <- Blank,
  Nothing <- Absent,
  table <- Current,
  stored <- IF Swapping THEN tmp ELSE main,
  swapping <- Swapping

ImplementsDurable == Durable!Spec
=============================================================================
