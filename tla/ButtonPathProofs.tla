-------------------------- MODULE ButtonPathProofs --------------------------
(***************************************************************************)
(* What the debounce and the queue guarantee for any number of beacons,    *)
(* any durations and any setting of the clock.                             *)
(***************************************************************************)
EXTENDS ButtonPath, SequenceTheorems, TLAPS

(***************************************************************************)
(* Both times since a press differ by what the clock was set.              *)
(***************************************************************************)
Clocked ==
  \A b \in Beacons :
    /\ ~clockSet => shift[b] = 0
    /\ taken[b] > 0 => b \in heard
    /\ b \in heard /\ shift[b] >= 0 => diff[b] >= age[b]
    /\ b \in heard /\ shift[b] <= 0 => diff[b] <= age[b] \/ age[b] = Ignore
    /\ b \notin heard => diff[b] = 0

(***************************************************************************)
(* An advertisement of a press that was accepted is as old as it waited    *)
(* and the burst lasts, at most.                                           *)
(***************************************************************************)
Fresh ==
  \A b \in Beacons : taken[b] > 0 =>
    /\ airing[b] > 0 => age[b] + airing[b] <= Burst
    /\ \A i \in 1 .. Len(inbox) :
         inbox[i].button = b => age[b] < inbox[i].wait + Burst

IInv == TypeOK /\ Clocked /\ Fresh /\ PressesInOrder

Ads == [button : Beacons, wait : 0 .. Ignore]

-----------------------------------------------------------------------------
(* Helpers                                                                 *)

(***************************************************************************)
(* A bounded count.                                                        *)
(***************************************************************************)
LEMMA AtMostBounds ==
  ASSUME NEW limit \in Int, NEW n \in Int
  PROVE  /\ AtMost(limit, n) \in Int
         /\ AtMost(limit, n) <= limit /\ AtMost(limit, n) <= n
         /\ AtMost(limit, n) = limit \/ AtMost(limit, n) = n
  BY DEF AtMost

(***************************************************************************)
(* The numbers that belong to one beacon.                                  *)
(***************************************************************************)
LEMMA Numbers ==
  ASSUME TypeOK, NEW b \in Beacons
  PROVE  /\ airing[b] \in 0 .. Burst /\ age[b] \in 0 .. Ignore
         /\ diff[b] \in Int /\ - MaxSet <= diff[b] /\ diff[b] <= Oldest
         /\ shift[b] \in Int /\ taken[b] \in 0 .. 2
         /\ Ignore \in Nat /\ Burst \in Nat /\ MaxSet \in Nat
         /\ Oldest \in Nat /\ Ignore <= Oldest
         /\ 0 < Burst /\ Burst < Ignore
<1>1. Oldest \in Nat /\ Ignore <= Oldest /\ MaxSet \in Nat
  BY TimeAssumption, BoundAssumption DEF Oldest
<1> HIDE DEF Oldest
<1>2. diff[b] \in (- MaxSet) .. Oldest /\ shift[b] \in (- MaxSet) .. MaxSet
  BY DEF TypeOK
<1> QED  BY <1>1, <1>2, TimeAssumption DEF TypeOK

LEMMA Waits ==
  ASSUME TypeOK, NEW i \in 1 .. Len(inbox)
  PROVE  inbox[i].wait \in 0 .. Ignore /\ inbox[i].button \in Beacons
<1>1. inbox \in Seq(Ads)
  BY DEF TypeOK, Ads
<1>2. inbox[i] \in Ads
  BY <1>1, ElementOfSeq
<1> QED  BY <1>2 DEF Ads

(***************************************************************************)
(* The advertisements that wait one second longer.                         *)
(***************************************************************************)
LEMMA Longer ==
  ASSUME TypeOK,
         NEW longer,
         longer = [i \in 1 .. Len(inbox) |->
                     [inbox[i] EXCEPT !.wait = AtMost(Ignore, @ + 1)]]
  PROVE  /\ longer \in Seq(Ads)
         /\ Len(longer) = Len(inbox)
         /\ \A i \in 1 .. Len(inbox) :
              /\ longer[i].button = inbox[i].button
              /\ longer[i].wait = AtMost(Ignore, inbox[i].wait + 1)
<1>1. /\ Len(inbox) \in Nat
      /\ \A i \in 1 .. Len(inbox) : inbox[i] \in Ads
  BY ElementOfSeq, LenProperties DEF TypeOK, Ads
<1>2. \A i \in 1 .. Len(inbox) :
        [inbox[i] EXCEPT !.wait = AtMost(Ignore, @ + 1)] \in Ads
  BY <1>1, TimeAssumption, SMTT(30) DEF Ads, AtMost
<1>3. longer \in [1 .. Len(inbox) -> Ads]
  BY <1>2
<1> QED  BY <1>1, <1>3 DEF Ads

-----------------------------------------------------------------------------
(* The initial states                                                      *)

LEMMA Initially == Init => IInv
<1> SUFFICES ASSUME Init PROVE IInv
  OBVIOUS
<1>1. TypeOK
  <2>1. 0 \in (- MaxSet) .. Oldest /\ 0 \in (- MaxSet) .. MaxSet
        /\ 0 \in 0 .. Burst /\ 0 \in 0 .. Ignore
    BY TimeAssumption, BoundAssumption DEF Oldest
  <2>2. /\ inbox \in Seq([button : Beacons, wait : 0 .. Ignore])
        /\ queue \in Seq(Beacons) /\ pending \in Seq(Beacons)
    BY EmptySeq DEF Init
  <2>3. /\ airing \in [Beacons -> 0 .. Burst]
        /\ diff \in [Beacons -> (- MaxSet) .. Oldest]
        /\ taken \in [Beacons -> 0 .. 2]
        /\ age \in [Beacons -> 0 .. Ignore]
        /\ shift \in [Beacons -> (- MaxSet) .. MaxSet]
    BY <2>1 DEF Init
  <2> QED  BY <2>2, <2>3 DEF Init, TypeOK
<1>2. Clocked /\ Fresh
  BY DEF Init, Clocked, Fresh
<1>3. PressesInOrder
  BY DEF Init, PressesInOrder
<1> QED  BY <1>1, <1>2, <1>3 DEF IInv

-----------------------------------------------------------------------------
(* Beacons and time                                                        *)

LEMMA PressKeeps ==
  ASSUME IInv, NEW b \in Beacons, Press(b)
  PROVE  IInv'
<1> USE DEF IInv
<1>1. TypeOK'
  <2>1. Burst \in 0 .. Burst
    BY TimeAssumption
  <2>2. airing' \in [Beacons -> 0 .. Burst] /\ taken' \in [Beacons -> 0 .. 2]
    BY <2>1, SMTT(30) DEF Press, TypeOK
  <2> QED  BY <2>2 DEF Press, TypeOK, debounce
<1>2. Clocked'
  BY DEF Press, TypeOK, Clocked, debounce
<1>3. Fresh'
  <2> SUFFICES ASSUME NEW c \in Beacons, taken'[c] > 0
               PROVE  /\ airing'[c] > 0 => age[c] + airing'[c] <= Burst
                      /\ \A i \in 1 .. Len(inbox) :
                           inbox[i].button = c => age[c] < inbox[i].wait + Burst
    BY DEF Press, Fresh
  <2>1. c # b
    BY DEF Press, TypeOK
  <2> QED  BY <2>1 DEF Press, TypeOK, Fresh
<1>4. PressesInOrder'
  BY DEF Press, PressesInOrder
<1> QED  BY <1>1, <1>2, <1>3, <1>4

LEMMA AdvertiseKeeps ==
  ASSUME IInv, NEW b \in Beacons, Advertise(b)
  PROVE  IInv'
<1> USE DEF IInv
<1> DEFINE ad == [button |-> b, wait |-> 0]
<1>1. ad \in Ads /\ inbox \in Seq(Ads)
  BY TimeAssumption DEF TypeOK, Ads
<1>2. /\ inbox' \in Seq(Ads)
      /\ Len(inbox') = Len(inbox) + 1
      /\ \A i \in 1 .. Len(inbox) : inbox'[i] = inbox[i]
      /\ inbox'[Len(inbox) + 1] = ad
  BY <1>1, AppendProperties DEF Advertise
<1>3. TypeOK'
  BY <1>2 DEF Advertise, TypeOK, Ads, debounce, history
<1>4. Clocked'
  BY DEF Advertise, Clocked, debounce, history
<1>5. Fresh'
  <2> SUFFICES ASSUME NEW c \in Beacons, taken[c] > 0,
                      NEW i \in 1 .. Len(inbox) + 1, inbox'[i].button = c
               PROVE  age[c] < inbox'[i].wait + Burst
    BY <1>2 DEF Advertise, Fresh, debounce, history
  <2>1. CASE i \in 1 .. Len(inbox)
    BY <1>2, <2>1 DEF Fresh
  <2>2. CASE i = Len(inbox) + 1
    <3>1. c = b /\ inbox'[i].wait = 0
      BY <1>2, <2>2
    <3>2. age[b] + airing[b] <= Burst /\ airing[b] > 0
      BY <3>1 DEF Fresh, Advertise
    <3> QED  BY <3>1, <3>2, TimeAssumption DEF TypeOK
  <2>3. Len(inbox) \in Nat
    BY <1>1, LenProperties
  <2> QED  BY <2>1, <2>2, <2>3
<1>6. PressesInOrder'
  BY DEF Advertise, PressesInOrder, history
<1> QED  BY <1>3, <1>4, <1>5, <1>6

LEMMA TickKeeps ==
  ASSUME IInv, Tick
  PROVE  IInv'
<1> USE DEF IInv
<1>1. /\ inbox' \in Seq(Ads)
      /\ Len(inbox') = Len(inbox)
      /\ \A i \in 1 .. Len(inbox) :
           /\ inbox'[i].button = inbox[i].button
           /\ inbox'[i].wait = AtMost(Ignore, inbox[i].wait + 1)
  BY Longer DEF Tick
<1>2. ASSUME NEW b \in Beacons
      PROVE  /\ airing'[b] = IF airing[b] = 0 THEN 0 ELSE airing[b] - 1
             /\ diff'[b] = IF b \in heard THEN AtMost(Oldest, diff[b] + 1) ELSE 0
             /\ age'[b] = IF b \in heard THEN AtMost(Ignore, age[b] + 1) ELSE 0
  BY DEF Tick
<1>3. TypeOK'
  <2>4. ASSUME NEW b \in Beacons
        PROVE  /\ airing'[b] \in 0 .. Burst
               /\ diff'[b] \in (- MaxSet) .. Oldest
               /\ age'[b] \in 0 .. Ignore
    BY <1>2, Numbers DEF AtMost
  <2>1. airing' \in [Beacons -> 0 .. Burst]
    BY <2>4 DEF Tick
  <2>2. diff' \in [Beacons -> (- MaxSet) .. Oldest]
    BY <2>4 DEF Tick
  <2>3. age' \in [Beacons -> 0 .. Ignore]
    BY <2>4 DEF Tick
  <2> QED  BY <1>1, <2>1, <2>2, <2>3 DEF Tick, TypeOK, Ads
<1>4. Clocked'
  <2> SUFFICES ASSUME NEW b \in Beacons
               PROVE  /\ ~clockSet => shift[b] = 0
                      /\ taken[b] > 0 => b \in heard
                      /\ b \in heard /\ shift[b] >= 0 => diff'[b] >= age'[b]
                      /\ b \in heard /\ shift[b] <= 0 =>
                           diff'[b] <= age'[b] \/ age'[b] = Ignore
                      /\ b \notin heard => diff'[b] = 0
    BY DEF Tick, Clocked
  <2> QED  BY <1>2, Numbers DEF Clocked, AtMost
<1>5. Fresh'
  <2> SUFFICES ASSUME NEW b \in Beacons, taken[b] > 0
               PROVE  /\ airing'[b] > 0 => age'[b] + airing'[b] <= Burst
                      /\ \A i \in 1 .. Len(inbox) : inbox[i].button = b =>
                           age'[b] < inbox'[i].wait + Burst
    BY <1>1 DEF Tick, Fresh
  <2>1. /\ b \in heard
        /\ age[b] \in 0 .. Ignore /\ airing[b] \in 0 .. Burst
        /\ age'[b] = AtMost(Ignore, age[b] + 1)
    BY <1>2 DEF Clocked, TypeOK
  <2>2. airing'[b] > 0 => age'[b] + airing'[b] <= Burst
    BY <1>2, <2>1, TimeAssumption DEF Fresh, AtMost
  <2>3. ASSUME NEW i \in 1 .. Len(inbox), inbox[i].button = b
        PROVE  age'[b] < inbox'[i].wait + Burst
    <3>1. inbox[i].wait \in 0 .. Ignore /\ age[b] < inbox[i].wait + Burst
      BY <2>3, Waits DEF Fresh
    <3>2. inbox'[i].wait = AtMost(Ignore, inbox[i].wait + 1)
      BY <1>1
    <3> QED  BY <2>1, <3>1, <3>2, TimeAssumption DEF AtMost
  <2> QED  BY <2>2, <2>3
<1>6. PressesInOrder'
  BY DEF Tick, PressesInOrder
<1> QED  BY <1>3, <1>4, <1>5, <1>6

LEMMA SetClockKeeps ==
  ASSUME IInv, NEW seconds \in ((- MaxSet) .. MaxSet) \ {0}, SetClock(seconds)
  PROVE  IInv'
<1> USE DEF IInv
<1>1. seconds \in Int /\ - MaxSet <= seconds /\ seconds <= MaxSet
  BY BoundAssumption
<1>5. ASSUME NEW b \in Beacons
      PROVE  /\ shift[b] = 0
             /\ b \in heard => diff[b] >= 0 /\ diff[b] >= age[b]
             /\ diff'[b] = IF b \in heard THEN AtMost(Oldest, diff[b] + seconds)
                                          ELSE 0
             /\ shift'[b] = IF b \in heard THEN seconds ELSE 0
  BY Numbers DEF SetClock, Clocked
<1>2. TypeOK'
  <2>1. ASSUME NEW b \in Beacons
        PROVE  /\ diff'[b] \in (- MaxSet) .. Oldest
               /\ shift'[b] \in (- MaxSet) .. MaxSet
    BY <1>1, <1>5, Numbers DEF AtMost
  <2>2. /\ diff' \in [Beacons -> (- MaxSet) .. Oldest]
        /\ shift' \in [Beacons -> (- MaxSet) .. MaxSet]
    BY <2>1 DEF SetClock
  <2> QED  BY <2>2 DEF SetClock, TypeOK
<1>3. Clocked'
  <2> SUFFICES ASSUME NEW b \in Beacons
               PROVE  /\ taken[b] > 0 => b \in heard
                      /\ b \in heard /\ shift'[b] >= 0 => diff'[b] >= age[b]
                      /\ b \in heard /\ shift'[b] <= 0 =>
                           diff'[b] <= age[b] \/ age[b] = Ignore
                      /\ b \notin heard => diff'[b] = 0
    BY DEF SetClock, Clocked
  <2> QED  BY <1>1, <1>5, Numbers DEF Clocked, AtMost
<1>4. Fresh'
  BY DEF SetClock, Fresh
<1>6. PressesInOrder'
  BY DEF SetClock, PressesInOrder
<1> QED  BY <1>2, <1>3, <1>4, <1>6

-----------------------------------------------------------------------------
(* The BLE host task                                                       *)

(***************************************************************************)
(* What is left of the inbox.                                              *)
(***************************************************************************)
LEMMA Rest ==
  ASSUME TypeOK, inbox # <<>>
  PROVE  /\ 1 \in 1 .. Len(inbox)
         /\ Head(inbox) = inbox[1]
         /\ Head(inbox).button \in Beacons
         /\ Tail(inbox) \in Seq(Ads)
         /\ \A i \in 1 .. Len(Tail(inbox)) :
              /\ i + 1 \in 1 .. Len(inbox)
              /\ Tail(inbox)[i] = inbox[i + 1]
<1>1. inbox \in Seq(Ads) /\ Len(inbox) \in Nat \ {0}
  BY EmptySeq DEF TypeOK, Ads
<1>2. /\ Tail(inbox) \in Seq(Ads)
      /\ Len(Tail(inbox)) = Len(inbox) - 1
      /\ \A i \in 1 .. Len(Tail(inbox)) : Tail(inbox)[i] = inbox[i + 1]
  BY <1>1, HeadTailProperties
<1>3. Head(inbox) = inbox[1] /\ 1 \in 1 .. Len(inbox)
  BY <1>1
<1> QED  BY <1>1, <1>2, <1>3, Waits

LEMMA CallbackKeeps ==
  ASSUME IInv, BeaconCallback
  PROVE  IInv'
<1> USE DEF IInv
<1> DEFINE b == Head(inbox).button
<1>1. inbox # <<>> /\ ble = Idle /\ b \in Beacons
  BY Rest DEF BeaconCallback
<1>2. /\ inbox' = Tail(inbox) /\ inbox' \in Seq(Ads)
      /\ \A i \in 1 .. Len(inbox') :
           i + 1 \in 1 .. Len(inbox) /\ inbox'[i] = inbox[i + 1]
  BY <1>1, Rest DEF BeaconCallback
<1>3. UNCHANGED <<airing, queue, loop, clockSet>>
  BY DEF BeaconCallback
<1>4. CASE CallbackAccepts(b)
  <2>1. TypeOK'
    <3>1. /\ diff' \in [Beacons -> (- MaxSet) .. Oldest]
          /\ age' \in [Beacons -> 0 .. Ignore]
          /\ shift' \in [Beacons -> (- MaxSet) .. MaxSet]
      <4>1. /\ 0 \in (- MaxSet) .. Oldest /\ 0 \in (- MaxSet) .. MaxSet
            /\ 0 \in 0 .. Ignore
        BY TimeAssumption, BoundAssumption DEF Oldest
      <4> QED  BY <1>1, <1>4, <4>1 DEF CallbackAccepts, Noted, TypeOK
    <3>2. taken' \in [Beacons -> 0 .. 2]
      <4>1. AtMost(2, taken[b] + 1) \in 0 .. 2
        BY <1>1, Numbers DEF AtMost
      <4> QED  BY <1>4, <4>1 DEF CallbackAccepts, TypeOK
    <3>3. pending' \in Seq(Beacons)
      BY <1>1, <1>4, AppendProperties DEF CallbackAccepts, TypeOK
    <3>4. heard' \in SUBSET Beacons /\ ble' \in Beacons
      BY <1>1, <1>4 DEF CallbackAccepts, TypeOK
    <3> QED  BY <1>2, <1>3, <3>1, <3>2, <3>3, <3>4 DEF TypeOK, Ads
  <2>2. ASSUME NEW c \in Beacons
        PROVE  /\ c = b => /\ diff'[c] = 0 /\ age'[c] = 0 /\ shift'[c] = 0
                           /\ c \in heard'
               /\ c # b => /\ diff'[c] = diff[c] /\ age'[c] = age[c]
                           /\ shift'[c] = shift[c] /\ taken'[c] = taken[c]
                           /\ c \in heard' <=> c \in heard
    BY <1>4 DEF CallbackAccepts, Noted, TypeOK
  <2>3. Clocked'
    <3> SUFFICES ASSUME NEW c \in Beacons
                 PROVE  /\ ~clockSet => shift'[c] = 0
                        /\ taken'[c] > 0 => c \in heard'
                        /\ c \in heard' /\ shift'[c] >= 0 => diff'[c] >= age'[c]
                        /\ c \in heard' /\ shift'[c] <= 0 =>
                             diff'[c] <= age'[c] \/ age'[c] = Ignore
                        /\ c \notin heard' => diff'[c] = 0
      BY <1>3 DEF Clocked
    <3> QED  BY <2>2 DEF Clocked
  <2>4. Fresh'
    <3> SUFFICES ASSUME NEW c \in Beacons, taken'[c] > 0
                 PROVE  /\ airing[c] > 0 => age'[c] + airing[c] <= Burst
                        /\ \A i \in 1 .. Len(inbox') : inbox'[i].button = c =>
                             age'[c] < inbox'[i].wait + Burst
      BY <1>3 DEF Fresh
    <3>1. \A i \in 1 .. Len(inbox') : inbox'[i].wait \in 0 .. Ignore
      BY <1>2, Waits
    <3>2. CASE c = b
      BY <2>2, <3>1, <3>2, Numbers, SMTT(30)
    <3>3. CASE c # b
      BY <1>2, <2>2, <3>3 DEF Fresh
    <3> QED  BY <3>2, <3>3
  <2>5. PressesInOrder'
    BY <1>1, <1>3, <1>4, IdleAssumption DEF CallbackAccepts, PressesInOrder
  <2> QED  BY <2>1, <2>3, <2>4, <2>5
<1>5. CASE CallbackIgnores(b)
  <2>1. UNCHANGED <<heard, diff, ble, pending, taken, age, shift>>
    BY <1>5 DEF CallbackIgnores, debounce, history
  <2>2. TypeOK'
    BY <1>2, <1>3, <2>1 DEF TypeOK, Ads
  <2>3. Clocked'
    BY <1>3, <2>1 DEF Clocked
  <2>4. Fresh'
    BY <1>2, <1>3, <2>1 DEF Fresh
  <2>5. PressesInOrder'
    BY <1>3, <2>1 DEF PressesInOrder
  <2> QED  BY <2>2, <2>3, <2>4, <2>5
<1> QED  BY <1>4, <1>5 DEF BeaconCallback

LEMMA EnqueueKeeps ==
  ASSUME IInv, Enqueue
  PROVE  IInv'
<1> USE DEF IInv
<1>1. queue' \in Seq(Beacons)
  BY AppendProperties DEF Enqueue, TypeOK
<1>2. TypeOK'
  BY <1>1 DEF Enqueue, QueueFree, TypeOK, debounce, history
<1>3. Clocked' /\ Fresh'
  BY DEF Enqueue, Clocked, Fresh, debounce, history
<1>4. PressesInOrder'
  BY DEF Enqueue, PressesInOrder, debounce, history
<1> QED  BY <1>2, <1>3, <1>4

-----------------------------------------------------------------------------
(* The loop task                                                           *)

LEMMA LoopKeeps ==
  ASSUME IInv, HubButton \/ HubButtonHandled \/ LoopTakes
  PROVE  IInv'
<1> USE DEF IInv
<1>1. /\ UNCHANGED <<airing, inbox, heard, diff, ble, queue, clockSet, pending,
                     taken, age, shift>>
      /\ loop' \in {"idle", "hub", "queue"}
      /\ loop' = "queue" => queue # <<>>
  BY DEF HubButton, HubButtonHandled, LoopTakes, debounce, history
<1>2. TypeOK'
  BY <1>1 DEF TypeOK
<1>3. Clocked' /\ Fresh' /\ PressesInOrder'
  BY <1>1 DEF Clocked, Fresh, PressesInOrder
<1> QED  BY <1>2, <1>3

LEMMA LoopHandledKeeps ==
  ASSUME IInv, LoopHandled
  PROVE  IInv'
<1> USE DEF IInv
<1>1. queue # <<>> /\ queue \in Seq(Beacons)
  BY DEF LoopHandled, TypeOK
<1>2. pending # <<>> /\ Tail(pending) \in Seq(Beacons)
  <2>1. pending # <<>>
    <3>1. ASSUME ble # Idle PROVE Append(queue, ble) # <<>>
      <4>1. ble \in Beacons
        BY <3>1 DEF TypeOK
      <4> QED  BY <1>1, <4>1, AppendProperties
    <3> QED  BY <1>1, <3>1 DEF PressesInOrder
  <2> QED  BY <2>1, HeadTailProperties DEF TypeOK
<1>3. Tail(queue) \in Seq(Beacons)
  BY <1>1, HeadTailProperties
<1>4. TypeOK'
  BY <1>2, <1>3 DEF LoopHandled, Popped, TypeOK, debounce
<1>5. Clocked' /\ Fresh'
  BY DEF LoopHandled, Clocked, Fresh, debounce
<1>6. PressesInOrder'
  <2>1. ble # Idle => Tail(Append(queue, ble)) = Append(Tail(queue), ble)
    BY <1>1, HeadTailAppend
  <2> QED  BY <2>1 DEF LoopHandled, Popped, PressesInOrder
<1> QED  BY <1>4, <1>5, <1>6

-----------------------------------------------------------------------------
(* What holds in every state                                               *)

(***************************************************************************)
(* The invariant is inductive.                                             *)
(***************************************************************************)
LEMMA Inductive == IInv /\ [Next]_vars => IInv'
<1> SUFFICES ASSUME IInv, [Next]_vars PROVE IInv'
  OBVIOUS
<1>1. CASE Next
  BY <1>1, PressKeeps, AdvertiseKeeps, TickKeeps, SetClockKeeps, CallbackKeeps,
     EnqueueKeeps, LoopKeeps, LoopHandledKeeps
     DEF Next, HostTask, LoopTask
<1>2. CASE UNCHANGED vars
  BY <1>2 DEF vars, debounce, history, IInv, TypeOK, Clocked, Fresh,
              PressesInOrder
<1> QED  BY <1>1, <1>2

(***************************************************************************)
(* The times since a press, by the clock and in truth, and how old the     *)
(* advertisements are, agree in every state (BeaconCallback).              *)
(***************************************************************************)
THEOREM Invariance == Spec => []IInv
  BY Initially, Inductive, PTL DEF Spec

(***************************************************************************)
(* The variables keep their types, and the loop task never takes the front *)
(* of an empty queue (loop).                                               *)
(***************************************************************************)
THEOREM TypeInvariant == Spec => []TypeOK
  BY Invariance, PTL DEF IInv

(***************************************************************************)
(* Accepted presses are queued and handled once each, in order, however    *)
(* the two tasks interleave (BeaconCallback, loop).                        *)
(***************************************************************************)
THEOREM InOrder == Spec => []PressesInOrder
  BY Invariance, PTL DEF IInv

-----------------------------------------------------------------------------
(* What no step does                                                       *)

LEMMA GuardedStep ==
  IInv /\ [Next]_vars => [loop = "queue" /\ loop' = "queue" => queue' = queue]_vars
<1> SUFFICES ASSUME IInv, [Next]_vars, loop = "queue", loop' = "queue"
             PROVE  queue' = queue
  OBVIOUS
<1> QED  BY DEF Next, vars, debounce, history, Press, Advertise, Tick, SetClock,
                HostTask, BeaconCallback, Enqueue, QueueFree, HubButton,
                LoopTask, LoopTakes, LoopHandled, HubButtonHandled

(***************************************************************************)
(* The queue does not change under the reference that the loop task has to *)
(* its front (loop, BeaconCallback).                                       *)
(***************************************************************************)
THEOREM FrontStays == Spec => QueueGuarded
  BY Invariance, GuardedStep, PTL DEF Spec, QueueGuarded

(***************************************************************************)
(* Only BeaconCallback changes ble to a button.                            *)
(***************************************************************************)
LEMMA OnlyCallbackAccepts ==
  ASSUME IInv, [Next]_vars, NEW b \in Beacons, Accepts(b)
  PROVE  inbox # <<>> /\ Head(inbox).button = b /\ CallbackAccepts(b)
<1>1. ble = Idle /\ ble' = b /\ b # Idle
  BY IdleAssumption DEF Accepts
<1>2. BeaconCallback
  BY <1>1 DEF Next, vars, debounce, history, Press, Advertise, Tick, SetClock,
              HostTask, Enqueue, HubButton, LoopTask, LoopTakes, LoopHandled,
              HubButtonHandled
<1>3. CallbackAccepts(Head(inbox).button)
  BY <1>1, <1>2 DEF BeaconCallback, CallbackIgnores
<1> QED  BY <1>1, <1>2, <1>3 DEF BeaconCallback, CallbackAccepts

(***************************************************************************)
(* A press that is accepted again had an advertisement that waited.        *)
(***************************************************************************)
LEMMA OnceStep ==
  ASSUME IInv, [Next]_vars, NEW b \in Beacons, Accepts(b), taken[b] > 0
  PROVE  Head(inbox).wait > Ignore - Burst \/ shift[b] > 0
<1> SUFFICES ASSUME ~(shift[b] > 0)
             PROVE  Head(inbox).wait > Ignore - Burst
  OBVIOUS
<1>1. inbox # <<>> /\ Head(inbox).button = b /\ Accept(b)
  BY OnlyCallbackAccepts DEF CallbackAccepts
<1>2. b \in heard /\ diff[b] >= Ignore
  BY <1>1 DEF Accept, IInv, Clocked
<1>3. age[b] >= Ignore
  BY <1>2, Numbers DEF IInv, Clocked
<1>4. age[b] < Head(inbox).wait + Burst /\ Head(inbox).wait \in 0 .. Ignore
  BY <1>1, Rest, Waits DEF IInv, Fresh
<1> QED  BY <1>3, <1>4, Numbers DEF IInv

(***************************************************************************)
(* A press is accepted once, unless the host task had to wait longer than  *)
(* the ignored time exceeds the burst, or the clock was set forward        *)
(* (BeaconCallback).                                                       *)
(***************************************************************************)
THEOREM AcceptedOnce == Spec => OncePerPress
<1>1. IInv /\ [Next]_vars =>
        [\A b \in Beacons :
           Accepts(b) /\ taken[b] > 0 =>
             Head(inbox).wait > Ignore - Burst \/ shift[b] > 0]_vars
  BY OnceStep
<1> QED  BY <1>1, Invariance, PTL DEF Spec, OncePerPress

(***************************************************************************)
(* What is ignored is known and recent, but for a clock that was set back. *)
(***************************************************************************)
LEMMA IgnoredStep ==
  ASSUME IInv, [Next]_vars, NEW b \in Beacons,
         ble = Idle, ble' = Idle, inbox # <<>>, inbox' = Tail(inbox),
         Head(inbox).button = b
  PROVE  b \in heard /\ (age[b] < Ignore \/ shift[b] < 0)
<1>1. /\ inbox \in Seq(Ads) /\ Len(inbox) \in Nat
      /\ Len(inbox') = Len(inbox) - 1
  <2>1. inbox \in Seq(Ads)
    BY DEF IInv, TypeOK, Ads
  <2> QED  BY <2>1, HeadTailProperties, LenProperties
<1>2. BeaconCallback
  <2>1. inbox' # inbox
    <3> SUFFICES ASSUME inbox' = inbox PROVE FALSE
      OBVIOUS
    <3>1. Len(inbox') = Len(inbox)
      OBVIOUS
    <3> QED  BY <1>1, <3>1
  <2>2. ASSUME NEW c \in Beacons PROVE ~Advertise(c)
    <3> SUFFICES ASSUME Advertise(c) PROVE FALSE
      OBVIOUS
    <3>1. [button |-> c, wait |-> 0] \in Ads
      BY TimeAssumption DEF Ads
    <3>2. Len(Append(inbox, [button |-> c, wait |-> 0])) = Len(inbox) + 1
      BY <1>1, <3>1, AppendProperties
    <3>3. inbox' = Append(inbox, [button |-> c, wait |-> 0])
      BY DEF Advertise
    <3> QED  BY <1>1, <3>2, <3>3
  <2>3. ~Tick
    BY DEF Tick
  <2>4. Next
    BY <2>1 DEF vars
  <2> QED  BY <2>1, <2>2, <2>3, <2>4
           DEF Next, Press, SetClock, HostTask, Enqueue, HubButton, LoopTask,
               LoopTakes, LoopHandled, HubButtonHandled
<1>3. ~Accept(b)
  BY <1>2, IdleAssumption DEF BeaconCallback, CallbackAccepts, CallbackIgnores
<1> QED  BY <1>3, Numbers DEF Accept, IInv, Clocked

(***************************************************************************)
(* No press is ignored but soon after an accepted one of the same button,  *)
(* unless the clock was set back since (BeaconCallback).                   *)
(***************************************************************************)
THEOREM RightlyIgnored == Spec => JustIgnored
<1>1. IInv /\ [Next]_vars =>
        [\A b \in Beacons :
           ble = Idle /\ ble' = Idle /\ inbox # <<>> /\ inbox' = Tail(inbox)
             /\ Head(inbox).button = b =>
             b \in heard /\ (age[b] < Ignore \/ shift[b] < 0)]_vars
  BY IgnoredStep
<1> QED  BY <1>1, Invariance, PTL DEF Spec, JustIgnored
=============================================================================
