-------------------------------- MODULE Ota --------------------------------
(***************************************************************************)
(* The firmware update (ota.cpp, and setup, SetupOta and loop of           *)
(* button_hub.ino).  An update is made right after a boot, and ends in     *)
(* another one.  What it is about is kept in NVS: the URL a user has       *)
(* asked for, whether updates are automatic, whether there is to be one    *)
(* check, and how many updates were begun and not completed.               *)
(*                                                                         *)
(* The power may be lost between any two writes to NVS.  An image is its   *)
(* version; the server is assumed to give the image of the version that    *)
(* is asked for.  Time is counted in minutes.  Bound: MaxEvents requests   *)
(* of users, changes of the version that the server wants, and restarts by *)
(* a user or for lack of power before an update has begun.                 *)
(***************************************************************************)
EXTENDS Naturals, OtaConstants

VARIABLES
  \* the server and the users
  offered,    \* the version that the server wants the hub to have
  events,     \* what has happened, at most MaxEvents
  \* flash
  version,    \* of the image that boots
  url,        \* reboot_ota_url
  auto,       \* auto_ota
  oneShot,    \* 1shot_auto_ota
  failCount,  \* ota_fail_count
  \* RAM
  mode,       \* "boot", then g_mode
  stage,      \* how far setup() has got
  image,      \* ota_url, of setup()
  manual,     \* it is the URL of a user
  task,       \* the Ota task
  tries,      \* of FetchAndOta
  left,       \* reads until written reaches content_length
  watchdog,   \* the OtaWatchDog task runs
  idle,       \* minutes since g_last_update
  countDown,  \* of g_reboot_count_down: "off", "on", or it is over
  \* history
  asked,      \* requests of users that have not led to an update
  autoTries,  \* updates in a row that no URL asked for and that failed
  unreported  \* updates in a row without ClearOtaFailCount

flash == <<version, url, auto, oneShot, failCount>>
world == <<offered, events>>
setupVars == <<mode, stage, image, manual>>
update == <<task, tries, left, watchdog, idle, countDown>>
history == <<asked, autoTries, unreported>>
vars == <<world, flash, setupVars, update, history>>

Images == Versions \cup {Dev}

TypeOK ==
  /\ offered \in Images /\ events \in 0 .. MaxEvents
  /\ version \in Images
  /\ url \in Images \cup {None}
  /\ auto \in BOOLEAN /\ oneShot \in BOOLEAN
  /\ failCount \in Nat
  /\ mode \in {"boot", "app", "ota"}
  /\ stage \in {"url", "ask", "off", "clear", "asked", "go"}
  /\ image \in Images \cup {None}
  /\ manual \in BOOLEAN
  /\ task \in {"none", "created", "starting", "fetching", "reading",
               "written", "verified", "reported", "failed", "gone"}
  /\ tries \in 0 .. MaxTrials
  /\ left \in 0 .. Chunks
  /\ watchdog \in BOOLEAN
  /\ idle \in 0 .. Limit
  /\ countDown \in {"off", "on", "over"}
  /\ asked \subseteq {"url", "shot"}
  /\ autoTries \in Nat /\ unreported \in Nat

Updating == mode = "ota"

(***************************************************************************)
(* A hub as it is delivered, any version of it.                            *)
(***************************************************************************)
Init ==
  /\ offered \in Images /\ events = 0
  /\ version \in Images
  /\ url = None /\ auto = TRUE /\ oneShot = FALSE /\ failCount = 0
  /\ mode = "boot" /\ stage = "url" /\ image = None /\ manual = FALSE
  /\ task = "none" /\ tries = 0 /\ left = 0
  /\ watchdog = FALSE /\ idle = 0 /\ countDown = "off"
  /\ asked = {} /\ autoTries = 0 /\ unreported = 0

-----------------------------------------------------------------------------
(* Restarts: RAM is lost, flash is kept.                                   *)

Begun == task \in {"fetching", "reading", "written", "failed", "gone"}

OneMore(count, limit) == IF count < limit THEN count + 1 ELSE count

Restart ==
  /\ mode' = "boot" /\ stage' = "url" /\ image' = None /\ manual' = FALSE
  /\ task' = "none" /\ tries' = 0 /\ left' = 0
  /\ watchdog' = FALSE /\ idle' = 0 /\ countDown' = "off"
  /\ autoTries' = IF Begun /\ ~manual THEN OneMore(autoTries, MaxFails + 1)
                                      ELSE autoTries
  /\ unreported' = IF Begun \/ task = "verified"
                   THEN OneMore(unreported, MaxFails)
                   ELSE unreported

(***************************************************************************)
(* Before an update has begun, an interruption is one of the MaxEvents.    *)
(***************************************************************************)
Interrupted ==
  /\ Restart
  /\ Begun \/ task = "verified" \/ events < MaxEvents
  /\ events' = IF Begun \/ task = "verified" THEN events ELSE events + 1
  /\ UNCHANGED <<offered, flash, asked>>

PowerLoss == mode # "app" /\ Interrupted

(***************************************************************************)
(* The button server restarts: by the request /reboot, or each day.        *)
(***************************************************************************)
Reboot == mode = "app" /\ Restart /\ UNCHANGED <<world, flash, asked>>

\* BtnB, the reset button of the page.
BtnB == Updating /\ Interrupted

WatchdogNow ==
  /\ watchdog /\ idle = Limit
  /\ Restart
  /\ UNCHANGED <<world, flash, asked>>

CountDownReboot ==
  /\ countDown = "over"
  /\ Restart
  /\ UNCHANGED <<world, flash, asked>>

-----------------------------------------------------------------------------
(* setup(), one write to NVS at a time                                     *)

UrlCleared == None

\* Mutant: only a single check is asked for.
AutoWantedOnce == oneShot

AutoWanted == auto \/ oneShot

(***************************************************************************)
(* Only a hub with a URL skips what is automatic.                          *)
(***************************************************************************)
ReadUrl ==
  /\ mode = "boot" /\ stage = "url"
  /\ image' = url
  /\ manual' = (url # None)
  /\ url' = UrlCleared
  /\ stage' = IF url = None /\ AutoWanted THEN "ask" ELSE "go"
  /\ UNCHANGED <<world, version, auto, oneShot, failCount, mode, update,
                 history>>

CheckOtaIsRequired(current, new) ==
  current # Dev /\ new # Dev /\ current < new

\* Mutant: one update too many.
GivesUpLate == failCount > MaxFails

GivesUp == failCount >= MaxFails

(***************************************************************************)
(* The server may not answer, to either question.  The fail count is       *)
(* looked at afterwards.                                                   *)
(***************************************************************************)
AskServer ==
  /\ mode = "boot" /\ stage = "ask"
  /\ image' \in {None} \cup
       IF CheckOtaIsRequired(version, offered) THEN {offered} ELSE {}
  /\ stage' = IF GivesUp THEN "off" ELSE "asked"
  /\ UNCHANGED <<world, flash, mode, manual, update, history>>

AutoOff ==
  /\ mode = "boot" /\ stage = "off"
  /\ auto' = FALSE
  /\ stage' = "clear"
  /\ UNCHANGED <<world, version, url, oneShot, failCount, mode, image, manual,
                 update, history>>

ClearAndDrop ==
  /\ mode = "boot" /\ stage = "clear"
  /\ failCount' = 0
  /\ image' = None
  /\ stage' = "asked"
  /\ autoTries' = 0 /\ unreported' = 0
  /\ UNCHANGED <<world, version, url, auto, oneShot, mode, manual, update,
                 asked>>

TakeOneShot ==
  /\ mode = "boot" /\ stage = "asked"
  /\ oneShot' = FALSE
  /\ stage' = "go"
  /\ UNCHANGED <<world, version, url, auto, failCount, mode, image, manual,
                 update, history>>

SetupAsWiFiClient ==
  /\ mode = "boot" /\ stage = "go" /\ image = None
  /\ mode' = "app"
  /\ asked' = asked \ {"shot"}
  /\ UNCHANGED <<world, flash, stage, image, manual, update, autoTries,
                 unreported>>

(***************************************************************************)
(* StartOtaByUrl: without memory there is no task, and nobody asks.        *)
(***************************************************************************)
SetupAsOtaAfterBoot ==
  /\ mode = "boot" /\ stage = "go" /\ image # None
  /\ mode' = "ota"
  /\ task' \in {"created", "none"}
  /\ asked' = asked \ {IF manual THEN "url" ELSE "shot"}
  /\ UNCHANGED <<world, flash, stage, image, manual, tries, left, watchdog,
                 idle, countDown, autoTries, unreported>>

-----------------------------------------------------------------------------
(* The Ota task                                                            *)

(***************************************************************************)
(* The watchdog may not be created either.                                 *)
(***************************************************************************)
RunOtaTask ==
  /\ task = "created"
  /\ task' = "starting"
  /\ watchdog' \in BOOLEAN
  /\ UNCHANGED <<world, flash, setupVars, tries, left, idle, countDown,
                 history>>

\* Mutant: the count is not raised.
CountAtStartNot == failCount

CountAtStart == failCount + 1

OnStart ==
  /\ task = "starting"
  /\ task' = "fetching"
  /\ failCount' = CountAtStart
  /\ UNCHANGED <<world, version, url, auto, oneShot, setupVars, tries, left,
                 watchdog, idle, countDown, history>>

Exhausted(trials) == trials = MaxTrials

(***************************************************************************)
(* The GET fails, Update.begin fails, or more is sent than announced.      *)
(***************************************************************************)
TrialFails ==
  /\ task = "fetching" \/ (task = "reading" /\ left = 1)
  /\ tries' = tries + 1
  /\ task' = IF Exhausted(tries') THEN "failed" ELSE "fetching"
  /\ left' = 0
  /\ idle' = IF task = "reading" THEN 0 ELSE idle
  /\ UNCHANGED <<world, flash, setupVars, watchdog, countDown, history>>

GetOk ==
  /\ task = "fetching"
  /\ task' = "reading"
  /\ left' = Chunks
  /\ UNCHANGED <<world, flash, setupVars, tries, watchdog, idle, countDown,
                 history>>

Read ==
  /\ task = "reading"
  /\ left' = left - 1
  /\ idle' = 0
  /\ task' = IF left' = 0 THEN "written" ELSE "reading"
  /\ UNCHANGED <<world, flash, setupVars, tries, watchdog, countDown, history>>

(***************************************************************************)
(* Update.end() checks the image and makes it the one that boots.          *)
(***************************************************************************)
UpdateEnd ==
  /\ task = "written"
  /\ \/ /\ task' = "verified"
        /\ version' = image
        /\ autoTries' = 0
     \/ /\ task' = "failed"
        /\ UNCHANGED <<version, autoTries>>
  /\ UNCHANGED <<world, url, auto, oneShot, failCount, setupVars, tries, left,
                 watchdog, idle, countDown, asked, unreported>>

\* Mutant: a success leaves the count.
CountAtEndKept == failCount

CountAtEnd == 0

OnEndSuccess ==
  /\ task = "verified"
  /\ task' = "reported"
  /\ failCount' = CountAtEnd
  /\ unreported' = 0
  /\ UNCHANGED <<world, version, url, auto, oneShot, setupVars, tries, left,
                 watchdog, idle, countDown, asked, autoTries>>

RestartAfterUpdate ==
  task = "reported" /\ Restart /\ UNCHANGED <<world, flash, asked>>

(***************************************************************************)
(* The empty g_url ends the watchdog.                                      *)
(***************************************************************************)
OnEndFailure ==
  /\ task = "failed"
  /\ task' = "gone"
  /\ countDown' = "on"
  /\ watchdog' = FALSE
  /\ UNCHANGED <<world, flash, setupVars, tries, left, idle, history>>

(***************************************************************************)
(* A minute of which the Ota task could make no use.                       *)
(***************************************************************************)
Tick ==
  /\ Updating
  /\ task = "reading" \/ countDown = "on"
  /\ idle < Limit
  /\ idle' = idle + 1
  /\ countDown' = IF countDown = "on" THEN "over" ELSE countDown
  /\ UNCHANGED <<world, flash, setupVars, task, tries, left, watchdog, history>>

-----------------------------------------------------------------------------
(* Users, and the server                                                   *)

Event ==
  /\ events < MaxEvents
  /\ events' = events + 1

Publish ==
  /\ Event
  /\ offered' \in Images
  /\ UNCHANGED <<flash, setupVars, update, history>>

HandleOtaByImageUrl ==
  /\ mode = "app" /\ Event
  /\ url' \in Images
  /\ asked' = asked \cup {"url"}
  /\ Restart
  /\ UNCHANGED <<offered, version, auto, oneShot, failCount>>

HandleSetAutoOtaIsEnabled ==
  /\ mode = "app" /\ Event
  /\ auto' \in BOOLEAN
  /\ UNCHANGED <<offered, version, url, oneShot, failCount, setupVars, update,
                 history>>

HandleSetOneShotAutoOtaIsEnabled ==
  /\ mode = "app" /\ Event
  /\ oneShot' \in BOOLEAN
  /\ asked' = IF oneShot' THEN asked \cup {"shot"} ELSE asked \ {"shot"}
  /\ UNCHANGED <<offered, version, url, auto, failCount, setupVars, update,
                 autoTries, unreported>>

-----------------------------------------------------------------------------
Setup ==
  \/ ReadUrl
  \/ AskServer
  \/ AutoOff
  \/ ClearAndDrop
  \/ TakeOneShot
  \/ SetupAsWiFiClient
  \/ SetupAsOtaAfterBoot

OtaTask ==
  \/ RunOtaTask
  \/ OnStart
  \/ TrialFails
  \/ GetOk
  \/ UpdateEnd
  \/ OnEndSuccess
  \/ RestartAfterUpdate
  \/ OnEndFailure

User ==
  \/ HandleOtaByImageUrl
  \/ HandleSetAutoOtaIsEnabled
  \/ HandleSetOneShotAutoOtaIsEnabled

Hub == Setup \/ OtaTask \/ Tick \/ WatchdogNow \/ CountDownReboot \/ Reboot

Next ==
  \/ Hub
  \/ Read
  \/ BtnB
  \/ PowerLoss
  \/ Publish
  \/ User

(***************************************************************************)
(* The hub goes on, restarts each day, and the server answers some day.  A *)
(* download may stop at any point, and nothing is asked of the user.       *)
(***************************************************************************)
Fairness == WF_vars(Hub) /\ SF_vars(AskServer /\ image' # None)

Spec == Init /\ [][Next]_vars /\ Fairness

-----------------------------------------------------------------------------
(***************************************************************************)
(* An update is started only if it was asked for: by a URL once, by a      *)
(* single check once, else because updates are automatic, wherever the     *)
(* power is lost (setup clears both before the update).                    *)
(***************************************************************************)
AskedFor ==
  [][mode = "boot" /\ mode' = "ota" =>
       IF manual THEN "url" \in asked ELSE auto \/ "shot" \in asked]_vars

(***************************************************************************)
(* After MaxFails automatic updates that failed, however they did (the     *)
(* watchdog, the button, no power), no further one is begun.               *)
(***************************************************************************)
AutoGivesUp == autoTries <= MaxFails

(***************************************************************************)
(* Setup turns automatic updates off only after MaxFails updates in a row, *)
(* none of which got to report a success.                                  *)
(***************************************************************************)
TurnedOffJustified ==
  [][mode = "boot" /\ auto /\ ~auto' => unreported >= MaxFails]_vars

(***************************************************************************)
(* Nobody can restart the hub but the user: there was no memory for one    *)
(* of the tasks (StartOtaByUrl, RunOtaTask).                               *)
(***************************************************************************)
Unwatched == Updating /\ (task = "none" \/ (task = "reading" /\ ~watchdog))

(***************************************************************************)
(* The hub gets back to its buttons: no image, no server and no loss of    *)
(* power make it update for ever.                                          *)
(***************************************************************************)
ButtonsReturn == Updating ~> (mode = "app" \/ []Unwatched)

(***************************************************************************)
(* With automatic updates, a hub that is not up to date gets there, or     *)
(* turns them off.                                                         *)
(***************************************************************************)
Behind == version # Dev /\ offered # Dev /\ version < offered

UpToDate == (auto /\ Behind) ~> (~auto \/ ~Behind \/ []Unwatched)

(***************************************************************************)
(* What the settings page says of the single check: the hub reboots and    *)
(* updates.  An image that the server has for it is not dropped.           *)
(***************************************************************************)
OneShotUpdates ==
  [][(stage = "clear" /\ stage' = "asked" /\ "shot" \in asked) =>
       (image # None => image' # None)]_vars
=============================================================================
