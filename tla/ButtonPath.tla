----------------------------- MODULE ButtonPath -----------------------------
(***************************************************************************)
(* The way of a beacon's press through the hub (button_hub.ino): the       *)
(* beacon advertises a press again and again for some seconds; the BLE     *)
(* host task calls BeaconCallback for what it has received, which ignores  *)
(* a button for kButtonIgnoreDurationSec after a press and queues the      *)
(* press; the loop task handles the queue's front and keeps the queue's    *)
(* mutex meanwhile, so that the host task may have to wait.                *)
(*                                                                         *)
(* Time goes by in seconds.  g_last_beacon_time holds times of the wall    *)
(* clock, which NTP may set; the model keeps what the code computes from   *)
(* them, how long ago they are by that clock.                              *)
(***************************************************************************)
EXTENDS Integers, Sequences

CONSTANTS
  Beacons,   \* buttons that are beacons
  Idle,      \* the host task is in no callback
  Ignore,    \* kButtonIgnoreDurationSec
  Burst,     \* how many seconds a beacon advertises a press
  MaxInbox,  \* bound: advertisements that the host task keeps
  MaxQueue,  \* bound: no one presses when so many presses are queued
  MaxSet     \* bound: NTP sets the clock once, by so many seconds at most

ASSUME IdleAssumption == Idle \notin Beacons
ASSUME TimeAssumption ==
  /\ Ignore \in Nat /\ Burst \in Nat
  /\ 0 < Burst /\ Burst < Ignore
ASSUME BoundAssumption ==
  MaxInbox \in Nat /\ MaxQueue \in Nat /\ MaxSet \in Nat

VARIABLES
  airing,    \* seconds the beacon still advertises its press
  inbox,     \* advertisements the host task has still to report
  heard,     \* the buttons in g_last_beacon_time
  diff,      \* seconds by the clock since the time noted there
  ble,       \* the button whose press waits to be queued, or Idle
  queue,     \* g_button_queue
  loop,      \* handles the queue's front, or a button of the hub, or neither
  clockSet,  \* NTP has set the clock
  \* history
  pending,   \* accepted presses that are not handled yet
  taken,     \* how often the beacon's last press was accepted
  age,       \* seconds since the beacon's last accepted press
  shift      \* by how much the clock was set since then

debounce == <<heard, diff>>
history == <<pending, taken, age, shift>>
vars == <<airing, inbox, debounce, ble, queue, loop, clockSet, history>>

\* What is older makes no difference any more, however the clock is set.
Oldest == Ignore + MaxSet
AtMost(limit, n) == IF n > limit THEN limit ELSE n

TypeOK ==
  /\ airing \in [Beacons -> 0 .. Burst]
  /\ inbox \in Seq([button : Beacons, wait : 0 .. Ignore])
  /\ heard \in SUBSET Beacons
  /\ diff \in [Beacons -> (- MaxSet) .. Oldest]
  /\ ble \in Beacons \union {Idle}
  /\ queue \in Seq(Beacons)
  /\ loop \in {"idle", "hub", "queue"}
  /\ loop = "queue" => queue # <<>>
  /\ clockSet \in BOOLEAN
  /\ pending \in Seq(Beacons)
  /\ taken \in [Beacons -> 0 .. 2]
  /\ age \in [Beacons -> 0 .. Ignore]
  /\ shift \in [Beacons -> (- MaxSet) .. MaxSet]

(***************************************************************************)
(* The beacons are heard from now on; no button has been.                  *)
(***************************************************************************)
Init ==
  /\ airing = [b \in Beacons |-> 0]
  /\ inbox = <<>>
  /\ heard = {}
  /\ diff = [b \in Beacons |-> 0]
  /\ ble = Idle
  /\ queue = <<>>
  /\ loop = "idle"
  /\ clockSet = FALSE
  /\ pending = <<>>
  /\ taken = [b \in Beacons |-> 0]
  /\ age = [b \in Beacons |-> 0]
  /\ shift = [b \in Beacons |-> 0]

-----------------------------------------------------------------------------
(* Beacons and time                                                        *)

(***************************************************************************)
(* A beacon is pressed, maybe while it still advertises the last press.    *)
(***************************************************************************)
Press(b) ==
  /\ Len(queue) < MaxQueue
  /\ airing' = [airing EXCEPT ![b] = Burst]
  /\ taken' = [taken EXCEPT ![b] = 0]
  /\ UNCHANGED <<inbox, debounce, ble, queue, loop, clockSet, pending, age,
                 shift>>

(***************************************************************************)
(* The hub receives an advertisement, or does not.                         *)
(***************************************************************************)
Advertise(b) ==
  /\ airing[b] > 0
  /\ Len(inbox) < MaxInbox
  /\ inbox' = Append(inbox, [button |-> b, wait |-> 0])
  /\ UNCHANGED <<airing, debounce, ble, queue, loop, clockSet, history>>

(***************************************************************************)
(* The tasks need no second for what they do, unless they wait: the host   *)
(* task for the queue's mutex, the loop task for the robot.                *)
(***************************************************************************)
Tick ==
  /\ IF ble = Idle THEN inbox = <<>> ELSE loop = "queue"
  /\ loop = "idle" => queue = <<>>
  /\ airing' = [b \in Beacons |-> IF airing[b] = 0 THEN 0 ELSE airing[b] - 1]
  /\ inbox' = [i \in 1 .. Len(inbox) |->
                 [inbox[i] EXCEPT !.wait = AtMost(Ignore, @ + 1)]]
  /\ diff' = [b \in Beacons |->
                IF b \in heard THEN AtMost(Oldest, diff[b] + 1) ELSE 0]
  /\ age' = [b \in Beacons |->
               IF b \in heard THEN AtMost(Ignore, age[b] + 1) ELSE 0]
  /\ UNCHANGED <<heard, ble, queue, loop, clockSet, pending, taken, shift>>

SetClock(seconds) ==
  /\ ~clockSet
  /\ clockSet' = TRUE
  /\ diff' = [b \in Beacons |->
                IF b \in heard THEN AtMost(Oldest, diff[b] + seconds) ELSE 0]
  /\ shift' = [b \in Beacons |-> IF b \in heard THEN seconds ELSE 0]
  /\ UNCHANGED <<airing, inbox, heard, ble, queue, loop, pending, taken, age>>

-----------------------------------------------------------------------------
(* The BLE host task                                                       *)

\* Mutant: the time is noted by insert, which keeps the first one.
NotedFirst(b) == [diff EXCEPT ![b] = IF b \in heard THEN @ ELSE 0]

Noted(b) == [diff EXCEPT ![b] = 0]

Accept(b) == b \in heard => diff[b] >= Ignore

CallbackAccepts(b) ==
  /\ Accept(b)
  /\ heard' = heard \union {b}
  /\ diff' = Noted(b)
  /\ ble' = b
  /\ pending' = Append(pending, b)
  /\ taken' = [taken EXCEPT ![b] = AtMost(2, @ + 1)]
  /\ age' = [age EXCEPT ![b] = 0]
  /\ shift' = [shift EXCEPT ![b] = 0]

CallbackIgnores(b) ==
  /\ ~Accept(b)
  /\ UNCHANGED <<debounce, ble, history>>

BeaconCallback ==
  /\ ble = Idle /\ inbox # <<>>
  /\ inbox' = Tail(inbox)
  /\ LET b == Head(inbox).button
     IN  CallbackAccepts(b) \/ CallbackIgnores(b)
  /\ UNCHANGED <<airing, queue, loop, clockSet>>

QueueFree == loop # "queue"

\* Mutant: the press is discarded if the mutex is taken.
EnqueueOrDiscard ==
  /\ ble # Idle
  /\ queue' = IF QueueFree THEN Append(queue, ble) ELSE queue
  /\ ble' = Idle
  /\ UNCHANGED <<airing, inbox, debounce, loop, clockSet, history>>

Enqueue ==
  /\ ble # Idle
  /\ QueueFree
  /\ queue' = Append(queue, ble)
  /\ ble' = Idle
  /\ UNCHANGED <<airing, inbox, debounce, loop, clockSet, history>>

-----------------------------------------------------------------------------
(* The loop task                                                           *)

HubButton ==
  /\ loop = "idle"
  /\ loop' = "hub"
  /\ UNCHANGED <<airing, inbox, debounce, ble, queue, clockSet, history>>

HubButtonHandled ==
  /\ loop = "hub"
  /\ loop' = "idle"
  /\ UNCHANGED <<airing, inbox, debounce, ble, queue, clockSet, history>>

LoopTakes ==
  /\ loop = "idle"
  /\ queue # <<>>
  /\ loop' = "queue"
  /\ UNCHANGED <<airing, inbox, debounce, ble, queue, clockSet, history>>

\* Mutant: pop_back.
PoppedLast == SubSeq(queue, 1, Len(queue) - 1)

Popped == Tail(queue)

(***************************************************************************)
(* HandleButtonPressed has returned, whatever the button's command is.     *)
(***************************************************************************)
LoopHandled ==
  /\ loop = "queue"
  /\ loop' = "idle"
  /\ queue' = Popped
  /\ pending' = Tail(pending)
  /\ UNCHANGED <<airing, inbox, debounce, ble, clockSet, taken, age, shift>>

-----------------------------------------------------------------------------
HostTask == BeaconCallback \/ Enqueue
LoopTask == LoopTakes \/ LoopHandled \/ HubButtonHandled

Next ==
  \/ \E b \in Beacons : Press(b) \/ Advertise(b)
  \/ Tick
  \/ \E seconds \in ((- MaxSet) .. MaxSet) \ {0} : SetClock(seconds)
  \/ HostTask
  \/ HubButton
  \/ LoopTask

(***************************************************************************)
(* Both tasks get to run, and the robot's answer or its timeout comes.     *)
(* The loop task goes round, so a button of the hub that is pressed again  *)
(* and again does not keep it from the queue.                              *)
(***************************************************************************)
Spec ==
  /\ Init
  /\ [][Next]_vars
  /\ WF_vars(HostTask)
  /\ WF_vars(LoopHandled) /\ WF_vars(HubButtonHandled)
  /\ SF_vars(LoopTakes)

-----------------------------------------------------------------------------
(* Properties                                                              *)

(***************************************************************************)
(* Every accepted press is queued, handled and taken from the queue once,  *)
(* in the order of their acceptance (BeaconCallback, loop).                *)
(***************************************************************************)
PressesInOrder ==
  pending = IF ble = Idle THEN queue ELSE Append(queue, ble)

(***************************************************************************)
(* While the loop task works on the front, to which it has a reference,    *)
(* nobody changes the queue (loop, BeaconCallback).                        *)
(***************************************************************************)
QueueGuarded ==
  [][loop = "queue" /\ loop' = "queue" => queue' = queue]_vars

Accepts(b) == ble = Idle /\ ble' = b

(***************************************************************************)
(* A press is accepted once.  If it is a second time, its advertisement    *)
(* waited for the host task, which waited for the loop task, longer than   *)
(* the ignored time exceeds the burst; or the clock was set forward        *)
(* (BeaconCallback).                                                       *)
(***************************************************************************)
OncePerPress ==
  [][\A b \in Beacons :
       Accepts(b) /\ taken[b] > 0 =>
         Head(inbox).wait > Ignore - Burst \/ shift[b] > 0]_vars

(***************************************************************************)
(* An advertisement is ignored only if a press of its button was accepted  *)
(* in the last Ignore seconds, or the clock was set back since             *)
(* (BeaconCallback).                                                       *)
(***************************************************************************)
JustIgnored ==
  [][\A b \in Beacons :
       ble = Idle /\ ble' = Idle /\ inbox # <<>> /\ inbox' = Tail(inbox)
         /\ Head(inbox).button = b =>
         b \in heard /\ (age[b] < Ignore \/ shift[b] < 0)]_vars

(***************************************************************************)
(* An accepted press is handled, whatever else is pressed (loop).          *)
(***************************************************************************)
EveryPressHandled ==
  \A b \in Beacons :
    (ble = b) ~> (loop = "queue" /\ queue[1] = b)
=============================================================================
