------------------------------- MODULE GrpcApi -------------------------------
(***************************************************************************)
(* Calls to the robot (api.cpp) and the two tasks that make them: the loop *)
(* task, which sends the command of a pressed button (HandleButtonPressed, *)
(* send_command.cpp), and the Fetch task, which asks for the robot's       *)
(* version, shelves, locations and shortcuts (fetch_state.cpp).            *)
(*                                                                         *)
(* A caller holds api_mutex, fills the one send buffer, creates a          *)
(* SendGrpcTask and waits up to 30 s to be notified by it.  The            *)
(* SendGrpcTasks share the buffer, g_result_code and g_request_finished    *)
(* with the callers and with each other, and one that is late is not       *)
(* stopped.                                                                *)
(***************************************************************************)
EXTENDS Naturals, FiniteSets

CONSTANTS
  Loop,         \* the loop task
  FetchTasks,   \* the tasks FetchRobotInfo may create
  Senders,      \* the tasks EncodeSendAndWait may create
  NoTask,       \* nullptr
  Presses,      \* button presses that have a command
  Late          \* may a call take longer than kDefaultTimeoutMsec?

Callers == FetchTasks \cup {Loop}

(***************************************************************************)
(* The functions of api.cpp; each has a static Service of its own.  The    *)
(* functions that send a button's command are one, "Command".              *)
(***************************************************************************)
Gets == {"GetRobotVersion", "GetShelves", "GetLocations", "GetShortcuts"}
Functions == Gets \cup {"Command", "Lock"}

After == [GetRobotVersion |-> "GetShelves",
          GetShelves      |-> "GetLocations",
          GetLocations    |-> "GetShortcuts"]

(***************************************************************************)
(* What a request carries.  All Gets send the same message.                *)
(***************************************************************************)
Bodies == Presses \cup {"get", "lock", "broken"}

ASSUME TaskAssumption == Loop \notin FetchTasks /\ NoTask \notin Callers

ASSUME LateAssumption == Late \in BOOLEAN

ASSUME BodyAssumption == {"get", "lock", "broken", "http"} \cap Presses = {}

VARIABLES
  holder,      \* the task that holds api_mutex
  pc,          \* what each caller is doing
  calling,     \* the function each caller calls, or is about to
  press,       \* the press the loop task handles, "http" when it goes to a web server
  pending,     \* presses the loop task has not taken from its queue
  fetchState,  \* fetch_state::g_state
  info,        \* RobotInfoHolder: copies of the answer it holds, by function
  has,         \* the has_... flags
  result,      \* g_result_code
  buffer,      \* g_send_buffer
  finished,    \* g_request_finished
  got,         \* the g_get_..._response variables: copies of the answer
  parent,      \* parent_task_handle of each function's Service
  notified,    \* the callers' notification values
  sender,      \* the SendGrpcTasks
  delivered    \* history: how often the robot got the command of a press

caller == <<holder, pc, calling, press, pending>>
fetched == <<fetchState, info, has>>
globals == <<result, buffer, finished, got, parent>>
vars == <<caller, fetched, globals, notified, sender, delivered>>

SenderStates == {"none", "connect", "exec", "sent", "answered", "notify"}

\* by and body are history: the caller that created the task, and what for.
NoSender == [state |-> "none", fn |-> "Command", by |-> Loop, body |-> "broken"]

TypeOK ==
  /\ holder \in Callers \cup {NoTask}
  /\ pc \in [Callers -> {"idle", "gone", "lock", "call", "wait", "http",
                         "finish", "unlock"}]
  /\ calling \in [Callers -> Functions]
  /\ press \in Presses \cup {"http"}
  /\ pending \in SUBSET Presses
  /\ fetchState \in {"uninitialized", "fetching", "completed"}
  /\ info \in [Gets -> Nat]
  /\ has \in SUBSET Gets
  /\ result \in {"ok", "encodeFailed", "notConnected", "timeout"}
  /\ buffer \in Bodies
  /\ finished \in BOOLEAN
  /\ got \in [Gets -> Nat]
  /\ parent \in [Functions -> Callers \cup {NoTask}]
  /\ notified \in [Callers -> BOOLEAN]
  /\ sender \in [Senders -> [state : SenderStates, fn : Functions,
                             by : Callers, body : Bodies]]
  /\ delivered \in [Presses -> Nat]

Init ==
  /\ holder = NoTask
  /\ pc = [c \in Callers |-> IF c = Loop THEN "idle" ELSE "gone"]
  /\ calling = [c \in Callers |-> IF c = Loop THEN "Command" ELSE "GetRobotVersion"]
  /\ press = "http"
  /\ pending = Presses
  /\ fetchState = "uninitialized"
  /\ info = [g \in Gets |-> 0]
  /\ has = {}
  /\ result = "ok"
  /\ buffer = "broken"
  /\ finished = FALSE
  /\ got = [g \in Gets |-> 0]
  /\ parent = [f \in Functions |-> NoTask]
  /\ notified = [c \in Callers |-> FALSE]
  /\ sender = [s \in Senders |-> NoSender]
  /\ delivered = [p \in Presses |-> 0]

Goto(c, label) == pc' = [pc EXCEPT ![c] = label]

-----------------------------------------------------------------------------
(* api_mutex                                                               *)

\* Mutant: the call is not guarded by api_mutex.
AcquireUnguarded(c) ==
  /\ pc[c] = "lock"
  /\ holder' = c
  /\ Goto(c, IF c = Loop /\ press = "http" THEN "http" ELSE "call")
  /\ UNCHANGED <<calling, press, pending, fetched, globals, notified, sender,
                 delivered>>

Acquire(c) ==
  /\ pc[c] = "lock"
  /\ holder = NoTask
  /\ holder' = c
  /\ Goto(c, IF c = Loop /\ press = "http" THEN "http" ELSE "call")
  /\ UNCHANGED <<calling, press, pending, fetched, globals, notified, sender, delivered>>

Release(c) ==
  /\ pc[c] = "unlock"
  /\ holder' = NoTask
  /\ Goto(c, IF c = Loop THEN "idle" ELSE "gone")
  /\ UNCHANGED <<calling, press, pending, fetched, globals, notified, sender, delivered>>

-----------------------------------------------------------------------------
(* EncodeSendAndWait                                                       *)

Body(c) ==
  CASE calling[c] = "Command" -> press
    [] calling[c] = "Lock"    -> "lock"
    [] OTHER                  -> "get"

(***************************************************************************)
(* A function of api.cpp from its first line to the wait: it names its     *)
(* caller, clears its response variable, fills the buffer and starts a     *)
(* task.                                                                   *)
(***************************************************************************)
StartCall(c) ==
  /\ pc[c] = "call"
  /\ parent' = [parent EXCEPT ![calling[c]] = c]
  /\ got' = [g \in Gets |-> IF g = calling[c] THEN 0 ELSE got[g]]
  /\ result' = "ok"
  /\ buffer' = Body(c)
  /\ Goto(c, "wait")
  /\ UNCHANGED <<holder, calling, press, pending, fetched, finished, notified,
                 delivered>>

Call(c, s) ==
  /\ StartCall(c)
  /\ sender[s].state = "none"
  /\ sender' = [sender EXCEPT ![s] = [state |-> "connect", fn |-> calling[c],
                                      by |-> c, body |-> Body(c)]]

(***************************************************************************)
(* There is no memory for one task more; xTaskCreate's result is not       *)
(* looked at, and the caller waits for the time to pass.                   *)
(***************************************************************************)
CallWithoutTask(c) ==
  /\ Late
  /\ StartCall(c)
  /\ \A s \in Senders : sender[s].state # "none"
  /\ UNCHANGED sender

\* Mutant: api_mutex is not given back.
EncodeFailsKeepsMutex(c) ==
  /\ pc[c] = "call"
  /\ calling[c] = "Command"
  /\ parent' = [parent EXCEPT ![calling[c]] = c]
  /\ result' = "encodeFailed"
  /\ buffer' = "broken"
  /\ Goto(c, "idle")
  /\ UNCHANGED <<holder, calling, press, pending, fetched, finished, got,
                 notified, sender, delivered>>

(***************************************************************************)
(* The command does not fit in the buffer, which is left half filled.      *)
(***************************************************************************)
EncodeFails(c) ==
  /\ pc[c] = "call"
  /\ calling[c] = "Command"
  /\ parent' = [parent EXCEPT ![calling[c]] = c]
  /\ result' = "encodeFailed"
  /\ buffer' = "broken"
  /\ Goto(c, "unlock")
  /\ UNCHANGED <<holder, calling, press, pending, fetched, finished, got,
                 notified, sender, delivered>>

\* Mutant: the answer is added to what the holder has.
ReturnToFetchAppends(c, ok) ==
  /\ c \in FetchTasks
  /\ \/ /\ ok
        /\ info' = [info EXCEPT ![calling[c]] = @ + got[calling[c]]]
        /\ has' = has \cup {calling[c]}
        /\ got' = [got EXCEPT ![calling[c]] = 0]
        /\ IF calling[c] = "GetShortcuts"
             THEN Goto(c, "finish") /\ UNCHANGED calling
             ELSE /\ Goto(c, "call")
                  /\ calling' = [calling EXCEPT ![c] = After[calling[c]]]
     \/ /\ ~ok
        /\ Goto(c, "call")
        /\ UNCHANGED <<calling, info, has, got>>

(***************************************************************************)
(* What the caller makes of the answer.  The Fetch task moves it to the    *)
(* RobotInfoHolder and goes on, or tries again; has_robot_version is the   *)
(* only flag a later fetch looks at.  The loop task is done, or sends Lock *)
(* after a command that the robot took but could not lock by itself.       *)
(***************************************************************************)
ReturnToFetch(c, ok) ==
  /\ c \in FetchTasks
  /\ \/ /\ ok
        /\ info' = [info EXCEPT ![calling[c]] = got[calling[c]]]
        /\ has' = has \cup {calling[c]}
        /\ got' = [got EXCEPT ![calling[c]] = 0]
        /\ IF calling[c] = "GetShortcuts"
             THEN Goto(c, "finish") /\ UNCHANGED calling
             ELSE /\ Goto(c, "call")
                  /\ calling' = [calling EXCEPT ![c] = After[calling[c]]]
     \/ /\ ~ok
        /\ Goto(c, "call")
        /\ UNCHANGED <<calling, info, has, got>>

ReturnToLoop(c, ok) ==
  /\ c = Loop
  /\ \/ /\ ok /\ calling[c] = "Command"
        /\ calling' = [calling EXCEPT ![c] = "Lock"]
        /\ Goto(c, "call")
     \/ Goto(c, "unlock") /\ UNCHANGED calling
  /\ UNCHANGED <<info, has, got>>

\* Mutant: ulTaskNotifyTake does not clear the notification.
WakeKeepsNotification(c) ==
  /\ pc[c] = "wait"
  /\ notified[c]
  /\ ReturnToFetch(c, result # "notConnected") \/ ReturnToLoop(c, result # "notConnected")
  /\ UNCHANGED <<holder, press, pending, fetchState, result, buffer, finished,
                 parent, notified, sender, delivered>>

(***************************************************************************)
(* ulTaskNotifyTake returns; g_result_code is read after it.               *)
(***************************************************************************)
Wake(c) ==
  /\ pc[c] = "wait"
  /\ notified[c]
  /\ notified' = [notified EXCEPT ![c] = FALSE]
  /\ ReturnToFetch(c, result # "notConnected") \/ ReturnToLoop(c, result # "notConnected")
  /\ UNCHANGED <<holder, press, pending, fetchState, result, buffer, finished,
                 parent, sender, delivered>>

Timeout(c) ==
  /\ pc[c] = "wait"
  /\ ~notified[c]
  /\ Late
  /\ result' = IF result = "notConnected" THEN result ELSE "timeout"
  /\ ReturnToFetch(c, FALSE) \/ ReturnToLoop(c, FALSE)
  /\ UNCHANGED <<holder, press, pending, fetchState, buffer, finished, parent,
                 notified, sender, delivered>>

-----------------------------------------------------------------------------
(* SendGrpcTask                                                            *)

To(s, state) == sender' = [sender EXCEPT ![s].state = state]

ConnectFails(s) ==
  /\ sender[s].state = "connect"
  /\ result' = "notConnected"
  /\ To(s, "notify")
  /\ UNCHANGED <<caller, fetched, buffer, finished, got, parent, notified, delivered>>

Connect(s) ==
  /\ sender[s].state = "connect"
  /\ finished' = FALSE
  /\ To(s, "exec")
  /\ UNCHANGED <<caller, fetched, result, buffer, got, parent, notified, delivered>>

(***************************************************************************)
(* The first sh2lib_execute: OnSendData copies what is in the buffer now.  *)
(***************************************************************************)
Send(s) ==
  /\ sender[s].state = "exec"
  /\ ~finished
  /\ delivered' = [p \in Presses |->
       IF p = buffer /\ sender[s].fn \in {"Command", "Lock"}
         THEN delivered[p] + 1 ELSE delivered[p]]
  /\ To(s, "sent")
  /\ UNCHANGED <<caller, fetched, globals, notified>>

(***************************************************************************)
(* The robot answers, or resets the stream.  Lists are appended to.        *)
(***************************************************************************)
Answer(s) ==
  /\ sender[s].state = "sent"
  /\ \/ /\ sender[s].fn \in Gets
        /\ got' = [got EXCEPT ![sender[s].fn] =
                     IF sender[s].fn = "GetRobotVersion" THEN 1 ELSE @ + 1]
     \/ UNCHANGED got
  /\ finished' = TRUE
  /\ To(s, "answered")
  /\ UNCHANGED <<caller, fetched, result, buffer, parent, notified,
                 delivered>>

(***************************************************************************)
(* The wait for the answer ends when g_request_finished is set, whoever    *)
(* set it, or when sh2lib_execute fails, which sets no result.             *)
(***************************************************************************)
LeaveExecute(s) ==
  /\ \/ sender[s].state \in {"exec", "sent", "answered"} /\ finished
     \/ sender[s].state \in {"exec", "sent"} /\ ~finished
  /\ To(s, "notify")
  /\ UNCHANGED <<caller, fetched, globals, notified, delivered>>

(***************************************************************************)
(* The last lines: the handle in the function's Service is notified, and   *)
(* the task deletes itself.                                                *)
(***************************************************************************)
NotifyParent(s) ==
  /\ sender[s].state = "notify"
  /\ LET c == parent[sender[s].fn]
     IN  notified' = [notified EXCEPT ![c] = @ \/ pc[c] # "gone"]
  /\ sender' = [sender EXCEPT ![s] = NoSender]
  /\ UNCHANGED <<caller, fetched, globals, delivered>>

-----------------------------------------------------------------------------
(* The loop task                                                           *)

(***************************************************************************)
(* The press of a button whose command goes to the robot, or to a web      *)
(* server.                                                                 *)
(***************************************************************************)
HandleButtonPressed(p) ==
  /\ pc[Loop] = "idle"
  /\ p \in pending
  /\ pending' = pending \ {p}
  /\ press' \in {p, "http"}
  /\ calling' = [calling EXCEPT ![Loop] = "Command"]
  /\ Goto(Loop, "lock")
  /\ UNCHANGED <<holder, fetched, globals, notified, sender, delivered>>

(***************************************************************************)
(* Whatever the web server says SendCommand goes on as after a success.    *)
(***************************************************************************)
FetchHttp ==
  /\ pc[Loop] = "http"
  /\ \/ Goto(Loop, "unlock") /\ UNCHANGED calling
     \/ Goto(Loop, "call") /\ calling' = [calling EXCEPT ![Loop] = "Lock"]
  /\ UNCHANGED <<holder, press, pending, fetched, globals, notified, sender, delivered>>

-----------------------------------------------------------------------------
(* Fetching                                                                *)

(***************************************************************************)
(* Called once by setup() and, throttled and only after a completed fetch, *)
(* whenever a browser connects.  The version is not asked for again.       *)
(***************************************************************************)
FetchRobotInfo(t) ==
  /\ fetchState # "fetching"
  /\ pc[t] = "gone"
  /\ fetchState' = "fetching"
  /\ calling' = [calling EXCEPT ![t] =
       IF "GetRobotVersion" \in has THEN "GetShelves" ELSE "GetRobotVersion"]
  /\ Goto(t, "lock")
  /\ notified' = [notified EXCEPT ![t] = FALSE]
  /\ UNCHANGED <<holder, press, pending, info, has, globals, sender,
                 delivered>>

(***************************************************************************)
(* There is no memory for the Fetch task; xTaskCreate's result is not      *)
(* looked at, and the state stays as it is until the hub restarts.         *)
(***************************************************************************)
FetchWithoutTask ==
  /\ fetchState # "fetching"
  /\ fetchState' = "fetching"
  /\ UNCHANGED <<caller, info, has, globals, notified, sender, delivered>>

(***************************************************************************)
(* No press is left and a fetch has no task: the hub waits for CheckReboot *)
(* to restart it.                                                          *)
(***************************************************************************)
WaitForReboot ==
  /\ fetchState = "fetching"
  /\ pending = {}
  /\ \A c \in Callers : pc[c] \in {"idle", "gone"}
  /\ \A s \in Senders : sender[s].state = "none"
  /\ UNCHANGED vars

\* Mutant: the task ends and keeps api_mutex.
FetchCompletedKeepsMutex(t) ==
  /\ pc[t] = "finish"
  /\ fetchState' = "completed"
  /\ Goto(t, "gone")
  /\ UNCHANGED <<holder, calling, press, pending, info, has, globals, notified,
                 sender, delivered>>

FetchCompleted(t) ==
  /\ pc[t] = "finish"
  /\ fetchState' = "completed"
  /\ Goto(t, "unlock")
  /\ UNCHANGED <<holder, calling, press, pending, info, has, globals, notified,
                 sender, delivered>>

-----------------------------------------------------------------------------
CallerNext(c) ==
  \/ Acquire(c)
  \/ Release(c)
  \/ \E s \in Senders : Call(c, s)
  \/ CallWithoutTask(c)
  \/ EncodeFails(c)
  \/ Wake(c)
  \/ Timeout(c)

SenderNext(s) ==
  \/ ConnectFails(s)
  \/ Connect(s)
  \/ Send(s)
  \/ Answer(s)
  \/ LeaveExecute(s)
  \/ NotifyParent(s)

Next ==
  \/ \E c \in Callers : CallerNext(c)
  \/ \E s \in Senders : SenderNext(s)
  \/ \E p \in Presses : HandleButtonPressed(p)
  \/ FetchHttp
  \/ \E t \in FetchTasks : FetchRobotInfo(t) \/ FetchCompleted(t)
  \/ FetchWithoutTask
  \/ WaitForReboot

Spec == Init /\ [][Next]_vars

(***************************************************************************)
(* Every task gets to run.  Nobody waits for api_mutex for ever: a fetch   *)
(* is started at most every 30 s, so the waiters change places.  The robot *)
(* can be reached and answers again and again, and from some time on each  *)
(* call that got its task ends within 30 s.                                *)
(***************************************************************************)
\* A SendGrpcTask works for c.
HasTask(c) == \E s \in Senders : sender[s].state # "none" /\ sender[s].by = c

CallerSteps(c) ==
  \/ Release(c)
  \/ ~HasTask(c) /\ Timeout(c)
  \/ \E s \in Senders : Call(c, s)
  \/ Wake(c)
  \/ FetchCompleted(c)
  \/ c = Loop /\ FetchHttp

Fairness ==
  /\ \A c \in Callers : WF_vars(CallerSteps(c)) /\ SF_vars(Acquire(c))
  /\ \A s \in Senders : WF_vars(SenderNext(s)) /\ SF_vars(Connect(s))

FairSpec ==
  /\ Spec
  /\ Fairness
  /\ <>[][\A c \in Callers : HasTask(c) => ~Timeout(c)]_vars

-----------------------------------------------------------------------------
(* Properties                                                              *)

Running == {s \in Senders : sender[s].state # "none"}

(***************************************************************************)
(* api_mutex.hpp: "The mutex to protect the gRPC API calls."  A            *)
(* SendGrpcTask, which works on the buffer and the results the mutex       *)
(* protects, runs only while the caller that created it holds the mutex    *)
(* and waits for it, and it is the only one (EncodeSendAndWait).           *)
(***************************************************************************)
CallsGuarded ==
  \A s \in Running :
    /\ holder = sender[s].by
    /\ pc[sender[s].by] = "wait"
    /\ Running = {s}

(***************************************************************************)
(* A caller is woken by the task of its own call: a notification finds no  *)
(* call that has not ended, and no caller that does not wait.              *)
(***************************************************************************)
OwnNotification ==
  \A c \in Callers :
    notified[c] => pc[c] = "wait" /\ \A s \in Running : sender[s].by # c

(***************************************************************************)
(* The robot is sent what the call was made with (OnSendData).             *)
(***************************************************************************)
SendsOwn ==
  \A s \in Senders :
    sender[s].state = "exec" /\ sender'[s].state = "sent" =>
      buffer = sender[s].body

SendsOwnBody == [][SendsOwn]_vars

(***************************************************************************)
(* A press makes the robot do the command at most once (SendCommand).      *)
(***************************************************************************)
StartedOnce == \A p \in Presses : delivered[p] <= 1

(***************************************************************************)
(* No list the UI shows has an entry twice (the Decode... callbacks append *)
(* to a variable that only the next call clears).                          *)
(***************************************************************************)
FetchedOnce == \A g \in Gets : info[g] <= 1

(***************************************************************************)
(* One task at most is between FetchRobotInfo and kCompleted, however many *)
(* browsers connect, so nobody else writes to the RobotInfoHolder; and the *)
(* task that has api_mutex is the only one past its lock.  A fetch whose   *)
(* task was not created has nobody between the two.                        *)
(***************************************************************************)
Fetching == {t \in FetchTasks : pc[t] \in {"lock", "call", "wait", "finish"}}
Inside == {c \in Callers : pc[c] \in {"call", "wait", "http", "finish", "unlock"}}

OneFetch ==
  /\ \A t, u \in Fetching : t = u
  /\ Fetching # {} => fetchState = "fetching"

MutexHeld == \A c \in Inside : holder = c

(***************************************************************************)
(* What the properties above rest on.  The holder of the mutex is the one  *)
(* task past its lock, whatever is late.                                   *)
(***************************************************************************)
CallerTypes ==
  /\ pc[Loop] \notin {"gone", "finish"}
  /\ calling[Loop] \in {"Command", "Lock"}
  /\ pc[Loop] = "call" /\ calling[Loop] = "Command" => press \in Presses
  /\ \A t \in FetchTasks : pc[t] \notin {"idle", "http"} /\ calling[t] \in Gets

MutexExact == \A c \in Callers : c \in Inside <=> holder = c

Discipline ==
  /\ TypeOK
  /\ CallerTypes
  /\ OneFetch
  /\ MutexExact

(***************************************************************************)
(* If nothing is late, the one SendGrpcTask works on its caller's buffer   *)
(* and ends by notifying it, and a press is delivered by its own call.     *)
(***************************************************************************)
Undelivered(p) ==
  \/ p \in pending
  \/ /\ press = p
     /\ \/ pc[Loop] = "lock"
        \/ calling[Loop] = "Command" /\ pc[Loop] = "call"
        \/ \E s \in Senders :
             sender[s].fn = "Command" /\ sender[s].state \in {"connect", "exec"}

Tended ==
  \A s \in Running :
    LET c == sender[s].by
    IN  /\ pc[c] = "wait" /\ ~notified[c]
        /\ parent[sender[s].fn] = c
        /\ sender[s].fn = calling[c]
        /\ sender[s].body = Body(c) /\ buffer = Body(c)

OneRuns == \A s, t \in Running : s = t

NotifiedLast == \A c \in Callers : notified[c] => pc[c] = "wait" /\ Running = {}

OwnDelivery ==
  /\ press \notin pending
  /\ \A p \in Presses : Undelivered(p) => delivered[p] = 0

Punctual ==
  /\ Tended
  /\ OneRuns
  /\ NotifiedLast
  /\ OwnDelivery
  /\ StartedOnce

IInv == Discipline /\ (~Late => Punctual)

(***************************************************************************)
(* A pressed button's command is dealt with although a fetch may have the  *)
(* mutex, and a fetch that got its task comes to its end, if the robot can *)
(* be reached.  (One without a task is ended by CheckReboot: Supervisor.)  *)
(***************************************************************************)
PressServed == pc[Loop] = "lock" ~> pc[Loop] = "idle"

FetchEnds == Fetching # {} ~> fetchState = "completed"
=============================================================================
