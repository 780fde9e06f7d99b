----------------------------- MODULE Supervisor -----------------------------
(***************************************************************************)
(* The watchdogs of the hub (CheckReboot in button_hub.ino) and what they  *)
(* watch: the clock, the Wi-Fi, the Fetch task, the pings to the robot.    *)
(* They run in the loop task, which also handles the presses, waits for    *)
(* api_mutex as long as the Fetch task has it, and collects the results of *)
(* the Ping task only while it shows the main page.                        *)
(*                                                                         *)
(* Time goes by in minutes, the period of CheckReboot.  In a minute the    *)
(* robot is pinged and the loop task, unless a press holds it up, goes     *)
(* round.  Bound: one event a minute, of the world or of a user.           *)
(***************************************************************************)
EXTENDS Naturals

CONSTANT Limit  \* a watchdog's three minutes

ASSUME LimitAssumption == Limit \in Nat \ {0}

VARIABLES
  \* the world
  wifi,        \* the access point can be reached
  robot,       \* the robot answers
  hour,        \* 4, 5, or 3 for all others
  due,         \* what has still to happen in this minute
  \* the loop task
  mode,        \* setup() waits for the Wi-Fi, or loop() runs
  loop,        \* how far loop() has got
  press,       \* what HandleButtonPressed does
  page,        \* g_page
  timeKnown,   \* getLocalTime succeeds
  wasFour,     \* prev_hour is 4
  watching,    \* last_connected_time has been initialized
  offline,     \* minutes since last_connected_time
  sinceGood,   \* minutes since g_last_success
  \* the other tasks
  fetching,    \* fetch_state::g_state is kFetching
  sinceStart,  \* minutes since g_last_start_time
  known,       \* all has_... flags are set
  mutex,       \* who has api_mutex
  ping,        \* the result Update has not collected, or "none"
  \* history
  cause,       \* why the hub reboots
  sincePong,   \* minutes since the robot answered a ping
  sinceBlind,  \* minutes since a press or another page kept pings uncollected
  sinceIdle,   \* minutes since no fetch was running
  rebootedAtFive  \* the hub has rebooted since it was last four

world == <<wifi, robot, hour>>
hub == <<mode, loop, press, page>>
clock == <<timeKnown, wasFour, watching, offline>>
pings == <<sinceGood, ping>>
fetch == <<fetching, sinceStart, known, mutex>>
history == <<cause, sincePong, sinceBlind, sinceIdle, rebootedAtFive>>
vars == <<world, due, hub, clock, pings, fetch, history>>

Older(age) == IF mode = "boot" \/ age > Limit THEN age ELSE age + 1
Later(age) == IF mode = "boot" \/ age = Limit THEN age ELSE age + 1
Minute == {"check", "ping", "event"}

TypeOK ==
  /\ wifi \in BOOLEAN /\ robot \in BOOLEAN /\ hour \in 3 .. 5
  /\ due \in SUBSET Minute
  /\ mode \in {"boot", "run"}
  /\ loop \in {"page", "queue", "timers"}
  /\ press \in {"none", "waiting", "calling"}
  /\ page \in {"main", "setting"}
  /\ timeKnown \in BOOLEAN /\ wasFour \in BOOLEAN /\ watching \in BOOLEAN
  /\ fetching \in BOOLEAN /\ known \in BOOLEAN
  /\ {offline, sinceGood, sinceStart} \subseteq 0 .. (Limit + 1)
  /\ {sincePong, sinceBlind, sinceIdle} \subseteq 0 .. Limit
  /\ mutex \in {"none", "loop", "fetch"}
  /\ ping \in {"none", "good", "failed"}
  /\ cause \in {"none", "daily", "wifi", "fetch", "ping"}
  /\ rebootedAtFive \in BOOLEAN

(***************************************************************************)
(* The hub has just been switched on.                                      *)
(***************************************************************************)
Init ==
  /\ wifi \in BOOLEAN /\ robot \in BOOLEAN /\ hour \in 3 .. 5
  /\ due = Minute
  /\ mode = "boot"
  /\ loop = "page" /\ press = "none" /\ page = "main"
  /\ timeKnown = FALSE /\ wasFour = FALSE /\ watching = FALSE /\ offline = 0
  /\ sinceGood = 0
  /\ fetching = FALSE /\ sinceStart = 0 /\ known = FALSE
  /\ mutex = "none"
  /\ ping = "none"
  /\ cause = "none"
  /\ sincePong = 0 /\ sinceBlind = 0 /\ sinceIdle = 0
  /\ rebootedAtFive = FALSE

-----------------------------------------------------------------------------
(* The world                                                               *)

WifiChanges ==
  /\ "event" \in due
  /\ wifi' = ~wifi
  /\ due' = due \ {"event"}
  /\ UNCHANGED <<robot, hour, hub, clock, pings, fetch, history>>

RobotChanges ==
  /\ "event" \in due
  /\ robot' = ~robot
  /\ due' = due \ {"event"}
  /\ UNCHANGED <<wifi, hour, hub, clock, pings, fetch, history>>

(***************************************************************************)
(* A minute is over when the robot was pinged and the loop task has done   *)
(* its check and collected the result, unless a press holds it up.  Calls  *)
(* to the robot take a minute at most, waiting for api_mutex any time.     *)
(***************************************************************************)
Blind == press # "none" \/ page # "main"

Tick ==
  /\ mode = "run" =>
       /\ "ping" \notin due
       /\ \/ press = "waiting" /\ mutex = "fetch"
          \/ "check" \notin due /\ (Blind \/ ping = "none")
  /\ due' = Minute
  /\ hour' \in {hour, IF hour = 5 THEN 3 ELSE hour + 1}
  /\ rebootedAtFive' = (rebootedAtFive /\ ~(hour = 3 /\ hour' = 4))
  /\ offline' = IF watching THEN Older(offline) ELSE offline
  /\ sinceGood' = Older(sinceGood)
  /\ sinceStart' = Older(sinceStart)
  /\ sincePong' = Later(sincePong)
  /\ sinceBlind' = IF Blind THEN 0 ELSE Later(sinceBlind)
  /\ sinceIdle' = IF fetching THEN Later(sinceIdle) ELSE 0
  /\ UNCHANGED <<wifi, robot, hub, timeKnown, wasFour, watching, ping,
                 fetching, known, mutex, cause>>

(***************************************************************************)
(* The NTP server has answered.                                            *)
(***************************************************************************)
TimeSet ==
  /\ mode = "run" /\ wifi
  /\ timeKnown' = TRUE
  /\ UNCHANGED <<world, due, hub, wasFour, watching, offline, pings, fetch,
                 history>>

-----------------------------------------------------------------------------
(* Start and restart                                                       *)

(***************************************************************************)
(* setup() joins the Wi-Fi; until it has, it times out and restarts.       *)
(***************************************************************************)
ConnectToWiFi == mode = "boot" /\ wifi

(***************************************************************************)
(* GetDurationFromLastSuccess counts the time that joining took.           *)
(***************************************************************************)
SetupAsWiFiClient ==
  /\ ConnectToWiFi
  /\ mode' = "run"
  /\ due' = Minute
  /\ fetching' = TRUE
  /\ sinceStart' = 0
  /\ sinceGood' \in 0 .. 1
  /\ cause' = "none"
  /\ sincePong' = 0 /\ sinceBlind' = 0 /\ sinceIdle' = 0
  /\ UNCHANGED <<world, loop, press, page, clock, ping, known, mutex,
                 rebootedAtFive>>

(***************************************************************************)
(* ESP.restart(): what is in RAM is lost, the time may be.                 *)
(***************************************************************************)
Restart(why) ==
  /\ mode' = "boot"
  /\ loop' = "page" /\ press' = "none" /\ page' = "main"
  /\ timeKnown' \in {timeKnown, FALSE}
  /\ wasFour' = FALSE /\ watching' = FALSE /\ offline' = 0
  /\ sinceGood' = 0
  /\ fetching' = FALSE /\ sinceStart' = 0 /\ known' = FALSE
  /\ mutex' = "none"
  /\ ping' = "none"
  /\ cause' = why
  /\ rebootedAtFive' = (rebootedAtFive \/ why = "daily")
  /\ sincePong' = 0 /\ sinceBlind' = 0 /\ sinceIdle' = 0

-----------------------------------------------------------------------------
(* The other tasks                                                         *)

\* Mutant: the time of the start is not kept.
StartTimeKept == sinceStart

StartTime == 0

\* Mutant: whether a fetch is running is not asked.
MayFetchAlways == TRUE

MayFetch == ~fetching

(***************************************************************************)
(* A browser connects, the setting to fetch then is on, and the last fetch *)
(* is completed and was started some time ago.                             *)
(***************************************************************************)
FetchRobotInfoThrottled ==
  /\ mode = "run" /\ wifi /\ "event" \in due
  /\ MayFetch
  /\ fetching' = TRUE
  /\ sinceStart' = StartTime
  /\ due' = due \ {"event"}
  /\ UNCHANGED <<world, hub, clock, pings, known, mutex, history>>

RunFetchTask ==
  /\ fetching /\ mutex = "none"
  /\ mutex' = "fetch"
  /\ UNCHANGED <<world, due, hub, clock, pings, fetching, sinceStart, known,
                 history>>

(***************************************************************************)
(* FetchImpl tries again until the robot has answered all its calls.       *)
(***************************************************************************)
FetchCompleted ==
  /\ mutex = "fetch"
  /\ wifi /\ robot
  /\ fetching' = FALSE
  /\ known' = TRUE
  /\ mutex' = "none"
  /\ sinceIdle' = 0
  /\ UNCHANGED <<world, due, hub, clock, pings, sinceStart, cause, sincePong,
                 sinceBlind, rebootedAtFive>>

CheckPing ==
  /\ mode = "run" /\ "ping" \in due
  /\ due' = due \ {"ping"}
  /\ \/ wifi /\ robot /\ ping' = "good" /\ sincePong' = 0
     \/ ~(wifi /\ robot) /\ ping' = "failed" /\ UNCHANGED sincePong
  /\ UNCHANGED <<world, hub, clock, sinceGood, fetch, cause, sinceBlind,
                 sinceIdle, rebootedAtFive>>

-----------------------------------------------------------------------------
(* loop()                                                                  *)

NextPage == IF page = "main" THEN "setting" ELSE "main"

BtnA ==
  /\ mode = "run" /\ loop = "page" /\ press = "none" /\ "event" \in due
  /\ page' = NextPage
  /\ due' = due \ {"event"}
  /\ UNCHANGED <<world, mode, loop, press, clock, pings, fetch, history>>

(***************************************************************************)
(* A button that has a command: one of the hub, on the main page, or a     *)
(* beacon, which is heard when the robot's data are known.                 *)
(***************************************************************************)
HandleButtonPressed ==
  /\ mode = "run" /\ press = "none" /\ "event" \in due
  /\ \/ loop = "page" /\ page = "main"
     \/ loop = "queue" /\ known
  /\ press' = "waiting"
  /\ due' = due \ {"event"}
  /\ UNCHANGED <<world, mode, loop, page, clock, pings, fetch, history>>

LockApi ==
  /\ press = "waiting" /\ mutex = "none"
  /\ press' = "calling"
  /\ mutex' = "loop"
  /\ UNCHANGED <<world, due, mode, loop, page, clock, pings, fetching,
                 sinceStart, known, history>>

(***************************************************************************)
(* SendCommand returns; the loop goes on behind the press.                 *)
(***************************************************************************)
PressDone ==
  /\ press = "calling"
  /\ press' = "none"
  /\ mutex' = "none"
  /\ loop' = IF loop = "queue" THEN "timers" ELSE loop
  /\ UNCHANGED <<world, due, mode, page, clock, pings, fetching, sinceStart,
                 known, history>>

\* Mutant: the time of a success is not kept.
SuccessForgotten(result) == FALSE

\* Mutant: a failure counts like a success.
SuccessAny(result) == result # "none"

Success(result) == result = "good"

(***************************************************************************)
(* ping_to_robot::Update, called on the main page only.                    *)
(***************************************************************************)
CollectPing ==
  /\ mode = "run" /\ loop = "page" /\ press = "none"
  /\ loop' = "queue"
  /\ \/ page = "main" /\ ping' = "none"
     \/ page # "main" /\ UNCHANGED ping
  /\ sinceGood' = IF page = "main" /\ Success(ping) THEN 0 ELSE sinceGood
  /\ UNCHANGED <<world, due, mode, press, page, clock, fetch, history>>

QueueEmpty ==
  /\ mode = "run" /\ loop = "queue" /\ press = "none"
  /\ loop' = "timers"
  /\ UNCHANGED <<world, due, mode, press, page, clock, pings, fetch,
                 history>>

NotDue ==
  /\ loop = "timers" /\ "check" \notin due
  /\ loop' = "page"
  /\ UNCHANGED <<world, due, mode, press, page, clock, pings, fetch,
                 history>>

(***************************************************************************)
(* CheckReboot asks for the time first and looks at nothing without it.    *)
(***************************************************************************)
CheckRebootWithoutTime ==
  /\ loop = "timers" /\ "check" \in due
  /\ ~timeKnown
  /\ loop' = "page"
  /\ due' = due \ {"check"}
  /\ UNCHANGED <<world, mode, press, page, clock, pings, fetch, history>>

\* Mutant: only the hour is looked at.
FiveAmByHour == hour = 5

FiveAm == wasFour /\ hour = 5

WifiLost == watching /\ ~wifi /\ offline > Limit
FetchStuck == fetching /\ sinceStart > Limit
PingLost == sinceGood > Limit

(***************************************************************************)
(* The first of the reasons that holds restarts the hub.                   *)
(***************************************************************************)
CheckReboot ==
  /\ loop = "timers" /\ "check" \in due
  /\ timeKnown
  /\ due' = due \ {"check"}
  /\ \/ FiveAm /\ Restart("daily")
     \/ ~FiveAm /\ WifiLost /\ Restart("wifi")
     \/ ~FiveAm /\ ~WifiLost /\ FetchStuck /\ Restart("fetch")
     \/ ~FiveAm /\ ~WifiLost /\ ~FetchStuck /\ PingLost /\ Restart("ping")
     \/ /\ ~(FiveAm \/ WifiLost \/ FetchStuck \/ PingLost)
        /\ wasFour' = (hour = 4)
        /\ watching' = TRUE
        /\ offline' = IF wifi \/ ~watching THEN 0 ELSE offline
        /\ loop' = "page"
        /\ UNCHANGED <<mode, press, page, timeKnown, pings, fetch, history>>
  /\ UNCHANGED world

-----------------------------------------------------------------------------
LoopTask ==
  \/ LockApi
  \/ PressDone
  \/ CollectPing
  \/ QueueEmpty
  \/ NotDue
  \/ CheckRebootWithoutTime
  \/ CheckReboot

User == BtnA \/ HandleButtonPressed \/ FetchRobotInfoThrottled

Next ==
  \/ WifiChanges
  \/ RobotChanges
  \/ Tick
  \/ TimeSet
  \/ SetupAsWiFiClient
  \/ RunFetchTask
  \/ FetchCompleted
  \/ CheckPing
  \/ LoopTask
  \/ User

(***************************************************************************)
(* Time passes and every task gets to run, but for the Fetch task, which   *)
(* may not have been created.  Nothing is asked of the world, of the user, *)
(* or of the robot, which may answer pings and no calls.                   *)
(***************************************************************************)
Spec ==
  /\ Init
  /\ [][Next]_vars
  /\ WF_vars(Tick)
  /\ WF_vars(SetupAsWiFiClient)
  /\ WF_vars(CheckPing)
  /\ WF_vars(LoopTask)

-----------------------------------------------------------------------------
(* Properties                                                              *)

Reboots(why) == mode = "run" /\ mode' = "boot" /\ cause' = why

(***************************************************************************)
(* The hub reboots at five once a day, although it boots within the same   *)
(* hour (CheckReboot).                                                     *)
(***************************************************************************)
OnceADay == [][Reboots("daily") => ~rebootedAtFive]_vars

(***************************************************************************)
(* A reboot "due to ping failure" means that the robot answered no ping    *)
(* for three minutes, if in that time results were collected, and but for  *)
(* an answer that arrives in the very round of loop() that gives up.       *)
(***************************************************************************)
PingRebootJustified ==
  [][Reboots("ping") =>
       (sincePong >= Limit \/ sinceBlind < Limit \/ ping = "good")]_vars

(***************************************************************************)
(* A reboot "due to fetch timeout" means that the fetch that is running    *)
(* has been for three minutes, not an earlier one (g_last_start_time).     *)
(***************************************************************************)
FetchRebootJustified == [][Reboots("fetch") => sinceIdle >= Limit]_vars

(***************************************************************************)
(* A hub that knows the time and cannot reach its robot reboots, on        *)
(* whatever page and whatever the user does, unless a press waits for the  *)
(* Fetch task for ever.                                                    *)
(***************************************************************************)
Held == [](press = "waiting")

LostRobotReboots ==
  (mode = "run" /\ timeKnown /\ ~(wifi /\ robot)) ~>
    ((wifi /\ robot) \/ mode = "boot" \/ Held)

(***************************************************************************)
(* A fetch that does not end makes a hub that knows the time reboot,       *)
(* however often browsers connect, unless a press waits for it for ever.   *)
(***************************************************************************)
StuckFetchReboots ==
  (mode = "run" /\ timeKnown /\ fetching) ~>
    (~fetching \/ mode = "boot" \/ Held)
=============================================================================
