-------------------------- MODULE SupervisorProofs --------------------------
(***************************************************************************)
(* No watchdog restarts the hub without its reason, for any number of      *)
(* minutes that a watchdog waits.                                          *)
(***************************************************************************)
EXTENDS Supervisor, TLAPS

(***************************************************************************)
(* A restart leaves nothing of what was going on.                          *)
(***************************************************************************)
BootsAfresh ==
  mode = "boot" =>
    /\ loop = "page" /\ press = "none" /\ page = "main"
    /\ ~wasFour /\ ~fetching
    /\ sinceGood = 0 /\ sinceStart = 0
    /\ mutex = "none" /\ ping = "none"

(***************************************************************************)
(* After the daily reboot the check has to see the next four before five.  *)
(***************************************************************************)
Daily == rebootedAtFive => hour # 4 /\ ~wasFour

(***************************************************************************)
(* A success is as recent as the last pong, unless its result got lost     *)
(* when nobody collected it.  What is still not collected when the next    *)
(* ping is due has waited for a press or another page.                     *)
(***************************************************************************)
Pongs ==
  /\ ping = "good" /\ "ping" \in due => sinceBlind = 0
  /\ ping # "good" => sincePong >= sinceBlind \/ sinceGood <= sincePong

(***************************************************************************)
(* The time of the start is the one of the fetch that is running.          *)
(***************************************************************************)
Fetches ==
  /\ ~fetching => sinceIdle = 0
  /\ fetching => sinceIdle >= Limit \/ sinceStart <= sinceIdle

(***************************************************************************)
(* The types in two parts: what is true or false, and the rest.            *)
(***************************************************************************)
Flags ==
  /\ wifi \in BOOLEAN /\ robot \in BOOLEAN
  /\ timeKnown \in BOOLEAN /\ wasFour \in BOOLEAN /\ watching \in BOOLEAN
  /\ fetching \in BOOLEAN /\ known \in BOOLEAN
  /\ rebootedAtFive \in BOOLEAN

Ranges ==
  /\ hour \in 3 .. 5
  /\ due \in SUBSET Minute
  /\ mode \in {"boot", "run"}
  /\ loop \in {"page", "queue", "timers"}
  /\ press \in {"none", "waiting", "calling"}
  /\ page \in {"main", "setting"}
  /\ {offline, sinceGood, sinceStart} \subseteq 0 .. (Limit + 1)
  /\ {sincePong, sinceBlind, sinceIdle} \subseteq 0 .. Limit
  /\ mutex \in {"none", "loop", "fetch"}
  /\ ping \in {"none", "good", "failed"}
  /\ cause \in {"none", "daily", "wifi", "fetch", "ping"}

IInv == TypeOK /\ BootsAfresh /\ Daily /\ Pongs /\ Fetches

USE LimitAssumption

-----------------------------------------------------------------------------
(***************************************************************************)
(* An age that the hub measures grows by a minute up to its bound.         *)
(***************************************************************************)
LEMMA OlderType ==
  ASSUME NEW age \in 0 .. (Limit + 1)
  PROVE  Older(age) \in 0 .. (Limit + 1) /\ age <= Older(age) /\ Older(age) <= age + 1
BY DEF Older

(***************************************************************************)
(* An age of the history grows by a minute up to the limit, in step with   *)
(* every other one.                                                        *)
(***************************************************************************)
LEMMA LaterType ==
  ASSUME NEW age \in 0 .. Limit
  PROVE  /\ Later(age) \in 0 .. Limit /\ age <= Later(age)
         /\ mode # "boot" => Later(age) = Limit \/ Later(age) = age + 1
BY DEF Later

(***************************************************************************)
(* The hub that was just switched on satisfies the invariant.              *)
(***************************************************************************)
LEMMA Initially == ASSUME Init PROVE IInv
<1>1. TypeOK
  <2>1. hour \in 3 .. 5
    BY DEF Init
  <2>2. \A age \in {offline, sinceGood, sinceStart} : age \in 0 .. (Limit + 1)
    BY DEF Init
  <2>3. \A age \in {sincePong, sinceBlind, sinceIdle} : age \in 0 .. Limit
    BY DEF Init
  <2>4. wifi \in BOOLEAN /\ robot \in BOOLEAN /\ timeKnown \in BOOLEAN
  /\ wasFour \in BOOLEAN /\ watching \in BOOLEAN
  /\ fetching \in BOOLEAN /\ known \in BOOLEAN /\ rebootedAtFive \in BOOLEAN
    BY Zenon DEF Init
  <2>5. due \in SUBSET Minute
    BY DEF Init, Minute
  <2> QED BY <2>1,<2>2,<2>3,<2>4,<2>5 DEF Init, TypeOK
<1>2. BootsAfresh /\ Daily /\ Pongs /\ Fetches
  BY DEF Init, BootsAfresh, Daily, Pongs, Fetches
<1> QED BY <1>1, <1>2 DEF IInv

(***************************************************************************)
(* A minute goes by: the history gets older with what it watches.          *)
(***************************************************************************)
LEMMA TickStep == ASSUME IInv, Tick PROVE IInv'
<1> USE DEF Tick, world, hub
<1>1. TypeOK'
  <2>1. {offline', sinceGood', sinceStart'} \subseteq 0 .. (Limit + 1)
    BY OlderType DEF IInv, TypeOK
  <2>2. {sincePong', sinceBlind', sinceIdle'} \subseteq 0 .. Limit
    BY LaterType DEF IInv, TypeOK
  <2> QED BY <2>1, <2>2 DEF IInv, TypeOK, Minute
<1>2. BootsAfresh'
  BY DEF IInv, BootsAfresh, TypeOK, Older
<1>3. Daily'
  BY DEF IInv, TypeOK, Daily
<1>4. Pongs'
  <2>1. ASSUME ping' = "good" PROVE sinceBlind' = 0
    BY <2>1 DEF IInv, BootsAfresh, TypeOK, Blind
  <2>2. ASSUME ping' # "good"
        PROVE  sincePong' >= sinceBlind' \/ sinceGood' <= sincePong'
    <3>1. CASE mode = "boot"
      BY <3>1, LaterType DEF IInv, BootsAfresh, TypeOK, Older
    <3>2. CASE mode # "boot" /\ sincePong >= sinceBlind
      BY <3>2, LaterType DEF IInv, TypeOK, Later
    <3>3. CASE mode # "boot" /\ sinceGood <= sincePong
      BY <3>3, LaterType, OlderType DEF IInv, TypeOK
    <3> QED BY <2>2, <3>1, <3>2, <3>3 DEF IInv, Pongs
  <2> QED BY <2>1, <2>2 DEF Pongs
<1>5. Fetches'
  BY LaterType, OlderType, SMTT(30) DEF IInv, BootsAfresh, TypeOK, Fetches
<1> QED BY <1>1, <1>2, <1>3, <1>4, <1>5 DEF IInv

(***************************************************************************)
(* The steps of the world and of the users.                                *)
(***************************************************************************)
LEMMA WorldStep ==
  ASSUME IInv, WifiChanges \/ RobotChanges \/ TimeSet \/ User
  PROVE  IInv'
<1> USE DEF IInv, TypeOK, BootsAfresh, Daily, Pongs, Fetches, Minute
<1>1. CASE WifiChanges
  BY <1>1 DEF WifiChanges, hub, clock, pings, fetch, history
<1>2. CASE RobotChanges
  BY <1>2 DEF RobotChanges, hub, clock, pings, fetch, history
<1>3. CASE TimeSet
  BY <1>3 DEF TimeSet, world, hub, pings, fetch, history
<1>4. CASE BtnA
  BY <1>4 DEF BtnA, NextPage, world, clock, pings, fetch, history
<1>5. CASE HandleButtonPressed
  BY <1>5 DEF HandleButtonPressed, world, clock, pings, fetch, history
<1>6. CASE FetchRobotInfoThrottled
  BY <1>6 DEF FetchRobotInfoThrottled, MayFetch, StartTime, world, hub, clock,
              pings, history
<1> QED BY <1>1, <1>2, <1>3, <1>4, <1>5, <1>6 DEF User

(***************************************************************************)
(* The steps of setup(), of the Fetch task and of the Ping task.           *)
(***************************************************************************)
LEMMA TaskStep ==
  ASSUME IInv, SetupAsWiFiClient \/ RunFetchTask \/ FetchCompleted \/ CheckPing
  PROVE  IInv'
<1> USE DEF IInv, TypeOK, BootsAfresh, Daily, Pongs, Fetches, Minute
<1>1. CASE SetupAsWiFiClient
  BY <1>1 DEF SetupAsWiFiClient, ConnectToWiFi, world, clock
<1>2. CASE RunFetchTask
  BY <1>2 DEF RunFetchTask, world, hub, clock, pings, history
<1>3. CASE FetchCompleted
  <2>1. TypeOK'
    <3>1. Flags'
      BY <1>3, Zenon DEF FetchCompleted, world, hub, clock, pings, Flags
    <3>2. Ranges'
      BY <1>3, SMT DEF FetchCompleted, world, hub, clock, pings, Ranges
    <3> QED BY <3>1, <3>2 DEF Flags, Ranges
  <2>2. BootsAfresh'
    BY <1>3 DEF FetchCompleted, world, hub, clock, pings
  <2>3. Daily'
    BY <1>3 DEF FetchCompleted, world, hub, clock, pings
  <2>4. Pongs'
    BY <1>3 DEF FetchCompleted, world, hub, clock, pings
  <2>5. Fetches'
    BY <1>3 DEF FetchCompleted, world, hub, clock, pings
  <2> QED BY <2>1, <2>2, <2>3, <2>4, <2>5
<1>4. CASE CheckPing
  BY <1>4 DEF CheckPing, world, hub, clock, fetch
<1> QED BY <1>1, <1>2, <1>3, <1>4

(***************************************************************************)
(* A restart, for whatever reason; the hub that restarts at five has seen  *)
(* five.                                                                   *)
(***************************************************************************)
LEMMA RestartStep ==
  ASSUME IInv, UNCHANGED world, due' \in SUBSET Minute,
         NEW why \in {"daily", "wifi", "fetch", "ping"}, Restart(why),
         why = "daily" => hour = 5
  PROVE  IInv'
<1> USE DEF IInv, TypeOK, BootsAfresh, Daily, Pongs, Fetches, Restart, world
<1>1. TypeOK'
  <2>1. Flags'
    BY Zenon DEF Flags
  <2>2. Ranges'
    BY SMT DEF Ranges
  <2> QED BY <2>1, <2>2 DEF Flags, Ranges
<1>2. BootsAfresh'
  OBVIOUS
<1>3. Daily'
  OBVIOUS
<1>4. Pongs'
  OBVIOUS
<1>5. Fetches'
  OBVIOUS
<1> QED BY <1>1, <1>2, <1>3, <1>4, <1>5

(***************************************************************************)
(* The steps of loop().                                                    *)
(***************************************************************************)
LEMMA LoopStep == ASSUME IInv, LoopTask PROVE IInv'
<1>1. CASE CheckReboot
  <2>1. UNCHANGED world /\ due' \in SUBSET Minute
    BY <1>1 DEF CheckReboot, IInv, TypeOK
  <2>2. CASE \E why \in {"daily", "wifi", "fetch", "ping"} :
               Restart(why) /\ (why = "daily" => hour = 5)
    BY <2>1, <2>2, RestartStep
  <2>3. CASE /\ wasFour' = (hour = 4)
             /\ watching' = TRUE
             /\ offline' = IF wifi \/ ~watching THEN 0 ELSE offline
             /\ loop' = "page"
             /\ UNCHANGED <<mode, press, page, timeKnown, pings, fetch, history>>
    <3> USE DEF CheckReboot, IInv, TypeOK, BootsAfresh, Daily, Pongs, Fetches, Minute,
        world, pings, fetch, history
    <3>1. TypeOK'
      <4>1. Flags'
        BY <1>1, <2>1, <2>3, Zenon DEF Flags
      <4>2. Ranges'
        <5>1. offline' \in {0, offline}
          BY <2>3
        <5>2. /\ loop' = "page" /\ hour' = hour
              /\ UNCHANGED <<mode, press, page, sinceGood, ping, sinceStart, mutex,
                             cause, sincePong, sinceBlind, sinceIdle>>
          BY <2>1, <2>3
        <5>3. Ranges
          BY DEF Ranges
        <5> HIDE DEF IInv
        <5> QED BY <2>1, <5>1, <5>2, <5>3, SMT DEF Ranges
      <4> QED BY <4>1, <4>2 DEF Flags, Ranges
    <3>2. BootsAfresh'
      BY <1>1, <2>1, <2>3
    <3>3. Daily'
      BY <1>1, <2>1, <2>3
    <3>4. Pongs'
      BY <1>1, <2>1, <2>3
    <3>5. Fetches'
      BY <1>1, <2>1, <2>3
    <3> QED BY <3>1, <3>2, <3>3, <3>4, <3>5
  <2> QED BY <1>1, <2>2, <2>3 DEF CheckReboot, FiveAm
<1> USE DEF IInv, TypeOK, BootsAfresh, Daily, Pongs, Fetches, Minute, world,
            clock, history
<1>2. CASE LockApi
  BY <1>2 DEF LockApi, pings
<1>3. CASE PressDone
  BY <1>3 DEF PressDone, pings
<1>4. CASE CollectPing
  <2>1. TypeOK'
    <3>1. Flags'
      BY <1>4, Zenon DEF CollectPing, Success, fetch, Flags
    <3>2. Ranges'
      <4>1. sinceGood' \in {0, sinceGood} /\ ping' \in {"none", ping}
        BY <1>4 DEF CollectPing
      <4>2. /\ loop' = "queue"
            /\ UNCHANGED <<world, due, mode, press, page, clock, fetch, history>>
        BY <1>4 DEF CollectPing
      <4> QED BY <4>1, <4>2, SMT DEF fetch, Ranges
    <3> QED BY <3>1, <3>2 DEF Flags, Ranges
  <2>2. BootsAfresh'
    BY <1>4 DEF CollectPing, Success, fetch
  <2>3. Daily'
    BY <1>4 DEF CollectPing, Success, fetch
  <2>4. Pongs'
    BY <1>4 DEF CollectPing, Success, fetch
  <2>5. Fetches'
    BY <1>4 DEF CollectPing, Success, fetch
  <2> QED BY <2>1, <2>2, <2>3, <2>4, <2>5
<1>5. CASE QueueEmpty
  BY <1>5 DEF QueueEmpty, pings, fetch
<1>6. CASE NotDue
  BY <1>6 DEF NotDue, pings, fetch
<1>7. CASE CheckRebootWithoutTime
  BY <1>7 DEF CheckRebootWithoutTime, pings, fetch
<1> QED BY <1>1, <1>2, <1>3, <1>4, <1>5, <1>6, <1>7 DEF LoopTask

(***************************************************************************)
(* A step that changes nothing.                                            *)
(***************************************************************************)
LEMMA Stutter == ASSUME IInv, UNCHANGED vars PROVE IInv'
BY DEF IInv, TypeOK, BootsAfresh, Daily, Pongs, Fetches, vars, world, hub,
       clock, pings, fetch, history

LEMMA Inductive == ASSUME IInv, [Next]_vars PROVE IInv'
BY TickStep, WorldStep, TaskStep, LoopStep, Stutter DEF Next

LEMMA Invariance == Spec => []IInv
<1>1. IInv /\ [Next]_vars => IInv'
  BY Inductive
<1> QED BY Initially, <1>1, PTL DEF Spec

-----------------------------------------------------------------------------
(***************************************************************************)
(* Every variable of the watchdogs keeps its type; the ages stay within    *)
(* their bounds.                                                           *)
(***************************************************************************)
THEOREM WatchdogTypes == Spec => []TypeOK
<1>1. IInv => TypeOK
  BY DEF IInv
<1> QED BY Invariance, <1>1, PTL

(***************************************************************************)
(* Only CheckReboot restarts a hub that runs, and for the reason it gives. *)
(***************************************************************************)
LEMMA OnlyCheckReboots ==
  ASSUME IInv, [Next]_vars, mode = "run", mode' = "boot"
  PROVE  /\ cause' = "daily" => FiveAm
         /\ cause' = "fetch" => FetchStuck
         /\ cause' = "ping" => PingLost
<1>1. CheckReboot
  <2> USE DEF world, hub, clock, pings, fetch, history
  <2>1. ~(WifiChanges \/ RobotChanges \/ TimeSet \/ User)
    BY DEF WifiChanges, RobotChanges, TimeSet, User, BtnA, HandleButtonPressed,
           FetchRobotInfoThrottled
  <2>2. ~(Tick \/ SetupAsWiFiClient \/ RunFetchTask \/ FetchCompleted \/ CheckPing)
    BY DEF Tick, SetupAsWiFiClient, ConnectToWiFi, RunFetchTask, FetchCompleted,
           CheckPing
  <2>3. ~(LockApi \/ PressDone \/ CollectPing \/ QueueEmpty \/ NotDue
            \/ CheckRebootWithoutTime)
    BY DEF LockApi, PressDone, CollectPing, QueueEmpty, NotDue,
           CheckRebootWithoutTime
  <2>4. ~UNCHANGED vars
    BY DEF vars
  <2> QED BY <2>1, <2>2, <2>3, <2>4 DEF Next, LoopTask
<1> QED BY <1>1 DEF CheckReboot, Restart

(***************************************************************************)
(* The hub reboots at five once a day: not again in the hour in which it   *)
(* comes back.                                                             *)
(***************************************************************************)
THEOREM RebootsOnceADay == Spec => OnceADay
<1>1. IInv /\ [Next]_vars => [Reboots("daily") => ~rebootedAtFive]_vars
  BY OnlyCheckReboots DEF Reboots, IInv, Daily, FiveAm
<1> QED BY Invariance, <1>1, PTL DEF Spec, OnceADay

(***************************************************************************)
(* The hub reboots for its pings only when the robot has answered none for *)
(* the limit, when results were not collected meanwhile, or when an answer *)
(* comes in while it gives up.                                             *)
(***************************************************************************)
THEOREM PingRebootsJustified == Spec => PingRebootJustified
<1>1. IInv /\ [Next]_vars =>
        [Reboots("ping") => (sincePong >= Limit \/ sinceBlind < Limit
                               \/ ping = "good")]_vars
  BY OnlyCheckReboots DEF Reboots, IInv, TypeOK, Pongs, PingLost
<1> QED BY Invariance, <1>1, PTL DEF Spec, PingRebootJustified

(***************************************************************************)
(* The hub reboots for a fetch only when a fetch has been running without  *)
(* a pause for the limit: the time of an earlier one is not counted.       *)
(***************************************************************************)
THEOREM FetchRebootsJustified == Spec => FetchRebootJustified
<1>1. IInv /\ [Next]_vars => [Reboots("fetch") => sinceIdle >= Limit]_vars
  BY OnlyCheckReboots DEF Reboots, IInv, TypeOK, Fetches, FetchStuck
<1> QED BY Invariance, <1>1, PTL DEF Spec, FetchRebootJustified
=============================================================================
