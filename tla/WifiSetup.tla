----------------------------- MODULE WifiSetup -----------------------------
(***************************************************************************)
(* How the hub gets its network (setup() of button_hub.ino, wifi.cpp,      *)
(* HandleSetWiFi and HandleSetRobotHost of server_info.cpp, the callbacks  *)
(* of bluetooth_peripheral.cpp, init_setup.cpp, settings.cpp).  A hub that *)
(* has no network, or whose user gives up waiting for it, opens an access  *)
(* point and a Bluetooth service; a browser or a phone sends the settings. *)
(* They go to NVS key by key, and the hub restarts.                        *)
(*                                                                         *)
(* The web server's task and the Bluetooth host's task write without a     *)
(* lock between them, and either one, a button or a loss of power may      *)
(* restart the hub at any moment.  A stored value is abstracted to the     *)
(* request it came from.  The other settings are in Ota and Supervisor.    *)
(* Bound: MaxRequests requests, and restarts that nothing asked for.       *)
(***************************************************************************)
EXTENDS Naturals, Sequences

CONSTANTS
  WebRequests,  \* PUT /config/wifi
  BleRequests,  \* settings that a phone writes
  Static,       \* the web requests with an address, subnet mask and gateway
  Good,         \* requests with the name and password of a network in reach
  Empty,        \* the value of a key that was never written, or written ""
  MaxRequests

Requests == WebRequests \cup BleRequests

SetupAssumption ==
  /\ Static \subseteq WebRequests /\ Good \subseteq Requests
  /\ WebRequests \cap BleRequests = {} /\ Empty \notin Requests
  /\ MaxRequests \in Nat

\* The keys in the order in which HandleSetWiFi writes them, and those of
\* ProcessInitialSetting.
WebKeys == <<"wifi_ssid", "wifi_pass", "net_ip", "net_subnet", "net_gw",
             "net_dns1", "net_dns2">>
BleKeys == <<"wifi_ssid", "wifi_pass", "api_host">>
Keys == {WebKeys[i] : i \in 1 .. 7} \cup {"api_host"}

\* An address of one's own, with its mask, gateway and name servers; without
\* one, DHCP gives them.
AddressKeys == {"net_ip", "net_subnet", "net_gw", "net_dns1", "net_dns2"}
Dhcp == [k \in AddressKeys |-> Empty]

VARIABLES
  nvs,       \* the namespace "kachaka" of the flash
  mode,      \* "boot", then "setup" (kInitialSetup) or "run"
  netAddress, \* the address that the Wi-Fi driver was given since the boot
  web,       \* the request the web server's task handles, and its next key
  ble,       \* the request of the phone, and how far it has got
  \* history
  requests,  \* how many there have been, at most MaxRequests
  mixed,     \* a write began while another one was under way
  whole,     \* the last request to be stored, if nothing has been written since
  confirmed, \* the request a phone was told is connected and stored, likewise
  tried,     \* the address with which the robot answered the phone's check
  torn       \* the settings were last cleared while a browser stored its own

vars == <<nvs, mode, netAddress, web, ble, requests, mixed, whole, confirmed, tried, torn>>

Idle == [request |-> Empty, step |-> 0]

Init ==
  /\ nvs = [k \in Keys |-> Empty]
  /\ mode = "boot" /\ netAddress = Dhcp /\ web = Idle /\ ble = Idle
  /\ requests = 0 /\ mixed = FALSE /\ whole = Empty /\ confirmed = Empty
  /\ tried = Dhcp /\ torn = FALSE

-----------------------------------------------------------------------------
(* What a configuration does at boot: ConnectToWiFi *)

UsesStatic == \A k \in {"net_ip", "net_subnet", "net_gw"} : nvs[k] # Empty

\* What the boot gives to WiFi.config, which it calls for a static address only.
StoredAddress == IF UsesStatic THEN [k \in AddressKeys |-> nvs[k]] ELSE Dhcp

\* WL_CONNECTED: the name and password are right, whatever the address is.
Joins == nvs["wifi_ssid"] \in Good /\ nvs["wifi_pass"] = nvs["wifi_ssid"]

\* A timeout restarts the hub, which changes nothing here.
ConnectToWiFi ==
  /\ mode = "boot"
  /\ \/ nvs["wifi_ssid"] = Empty /\ mode' = "setup"       \* kEmptySsid
        /\ UNCHANGED netAddress
     \/ nvs["wifi_ssid"] # Empty /\ mode' = "setup"       \* kGiveup: button A
        /\ netAddress' = StoredAddress
     \/ nvs["wifi_ssid"] # Empty /\ Joins /\ mode' = "run"
        /\ netAddress' = StoredAddress
  /\ UNCHANGED <<nvs, web, ble, requests, mixed, whole, confirmed, tried, torn>>

Boot == mode' = "boot" /\ netAddress' = Dhcp /\ web' = Idle /\ ble' = Idle

\* A button in InitialSetup::RunLoop, GET /reboot, a reason of CheckReboot, or
\* the power.
RestartUnasked ==
  /\ mode # "boot" /\ requests < MaxRequests /\ requests' = requests + 1
  /\ Boot /\ UNCHANGED <<nvs, mixed, whole, confirmed, tried, torn>>

-----------------------------------------------------------------------------
(* The writers *)

Writing(who) == who.step > 0
\* ProcessInitialSetting tries the network and pings the robot.
Checking == 0

Value(r, key) ==
  IF key \in {"net_ip", "net_subnet", "net_gw", "net_dns1", "net_dns2"} /\ r \notin Static
  THEN Empty ELSE r

\* A write begins: what was stored before is no longer known to be whole.
Begin(other) ==
  mixed' = Writing(other) /\ whole' = Empty /\ confirmed' = Empty

PutWiFi(r) ==
  /\ mode \in {"setup", "run"} /\ web = Idle
  /\ requests < MaxRequests /\ requests' = requests + 1
  /\ web' = [request |-> r, step |-> 1]
  /\ Begin(ble)
  /\ UNCHANGED <<nvs, mode, netAddress, ble, tried, torn>>

\* Mutant of StoreWebKey: a key that the request does not contain is left alone.
StoreContainedKey ==
  /\ web.request \in WebRequests /\ web.step \in 1 .. 7
  /\ nvs' = IF Value(web.request, WebKeys[web.step]) = Empty THEN nvs
            ELSE [nvs EXCEPT ![WebKeys[web.step]] = web.request]
  /\ web' = [web EXCEPT !.step = @ + 1]
  /\ whole' = IF web.step = 7 /\ ~mixed /\ ~Writing(ble) THEN web.request ELSE Empty
  /\ UNCHANGED <<mode, netAddress, ble, requests, mixed, confirmed, tried, torn>>

\* One of the seven putString of HandleSetWiFi.
StoreWebKey ==
  /\ web.request \in WebRequests /\ web.step \in 1 .. 7
  /\ nvs' = [nvs EXCEPT ![WebKeys[web.step]] = Value(web.request, WebKeys[web.step])]
  /\ web' = [web EXCEPT !.step = @ + 1]
  /\ whole' = IF web.step = 7 /\ ~mixed /\ ~Writing(ble) THEN web.request ELSE Empty
  /\ UNCHANGED <<mode, netAddress, ble, requests, mixed, confirmed, tried, torn>>

\* delay(1000); ESP.restart() of HandleSetWiFi.
RestartAfterPut ==
  /\ web.step = 8 /\ Boot
  /\ UNCHANGED <<nvs, requests, mixed, whole, confirmed, tried, torn>>

\* onWrite of the initial setting.  The network is tried with no address of its
\* own: WiFi.config is not called, and the address of the boot stays in force.
WriteInitialSetting(r) ==
  /\ mode = "setup" /\ ble = Idle
  /\ requests < MaxRequests /\ requests' = requests + 1
  /\ ble' = [request |-> r, step |-> Checking]
  /\ UNCHANGED <<nvs, mode, netAddress, web, mixed, whole, confirmed, tried, torn>>

\* The network or the robot does not answer: nothing is written.
Reject ==
  /\ ble.request \in BleRequests /\ ble.step = Checking
  /\ ble' = Idle
  /\ UNCHANGED <<nvs, mode, netAddress, web, requests, mixed, whole, confirmed, tried, torn>>

\* Mutant of Accept: the network is tried by DHCP.
AcceptByDhcp ==
  /\ ble.request \in BleRequests \cap Good /\ ble.step = Checking
  /\ ble' = [ble EXCEPT !.step = 1]
  /\ Begin(web) /\ tried' = Dhcp
  /\ UNCHANGED <<nvs, mode, netAddress, web, requests, torn>>

\* The network is joined, and the robot answers by its serial or its address;
\* whether it does with a static address in force is for the networks to say.
Accept ==
  /\ ble.request \in BleRequests \cap Good /\ ble.step = Checking
  /\ ble' = [ble EXCEPT !.step = 1]
  /\ Begin(web) /\ tried' = netAddress
  /\ UNCHANGED <<nvs, mode, netAddress, web, requests, torn>>

\* The setters of ProcessInitialSetting; after the last one the phone is told.
StoreBleKey ==
  /\ ble.step \in 1 .. 3
  /\ nvs' = [nvs EXCEPT ![BleKeys[ble.step]] = ble.request]
  /\ ble' = [ble EXCEPT !.step = @ + 1]
  /\ LET stored == IF ble.step = 3 /\ ~mixed /\ ~Writing(web)
                   THEN ble.request ELSE Empty IN
     whole' = stored /\ confirmed' = stored
  /\ UNCHANGED <<mode, netAddress, web, requests, mixed, tried, torn>>

RestartAfterSetting ==
  /\ ble.step = 4 /\ Boot
  /\ UNCHANGED <<nvs, requests, mixed, whole, confirmed, tried, torn>>

\* The namespace is cleared; the hub restarts when the sound has been played.
Clear(other) ==
  /\ requests < MaxRequests /\ requests' = requests + 1
  /\ nvs' = [k \in Keys |-> Empty]
  /\ Begin(other)
  /\ torn' = Writing(web)

\* HandleClearAllData.
ClearAllData ==
  /\ mode = "run" /\ web = Idle /\ Clear(ble)
  /\ web' = [request |-> Empty, step |-> 8]
  /\ UNCHANGED <<mode, netAddress, ble, tried>>

\* ProcessResetAllCommand.
ResetAll ==
  /\ mode = "setup" /\ ble = Idle /\ Clear(web)
  /\ ble' = [request |-> Empty, step |-> 4]
  /\ UNCHANGED <<mode, netAddress, web, tried>>

\* HandleSetRobotHost: one key, and a restart.
PutRobotHost(r) ==
  /\ mode = "run" /\ web = Idle
  /\ requests < MaxRequests /\ requests' = requests + 1
  /\ nvs' = [nvs EXCEPT !["api_host"] = r]
  /\ web' = [request |-> Empty, step |-> 8]
  /\ UNCHANGED <<mode, netAddress, ble, mixed, confirmed, tried, torn>>
  /\ whole' = Empty

Next ==
  \/ ConnectToWiFi \/ RestartUnasked
  \/ \E r \in WebRequests : PutWiFi(r) \/ PutRobotHost(r)
  \/ StoreWebKey \/ RestartAfterPut
  \/ \E r \in BleRequests : WriteInitialSetting(r)
  \/ Reject \/ Accept \/ StoreBleKey \/ RestartAfterSetting
  \/ ClearAllData \/ ResetAll

Spec == Init /\ [][Next]_vars

-----------------------------------------------------------------------------
(* Properties *)

Step == [request : Requests \cup {Empty}, step : 0 .. 8]

\* The variables have the types that the code gives them.
TypeOK ==
  /\ nvs \in [Keys -> Requests \cup {Empty}]
  /\ mode \in {"boot", "setup", "run"}
  /\ web \in Step /\ ble \in Step
  /\ requests \in 0 .. MaxRequests /\ mixed \in BOOLEAN
  /\ whole \in Requests \cup {Empty} /\ confirmed \in BleRequests \cup {Empty}
  /\ netAddress \in [AddressKeys -> Requests \cup {Empty}]
  /\ tried \in [AddressKeys -> Requests \cup {Empty}] /\ torn \in BOOLEAN

\* Settings that were stored without another writer and without a restart in
\* between are what was sent; those of a browser leave no key of an earlier
\* request.
StoredAsSent ==
  /\ whole \in WebRequests =>
       \A i \in 1 .. 7 : nvs[WebKeys[i]] = Value(whole, WebKeys[i])
  /\ whole \in BleRequests => \A i \in 1 .. 3 : nvs[BleKeys[i]] = whole

\* A hub that told a phone that its network was checked joins that network at
\* the next boot, and with the address with which the robot answered the check,
\* though the phone did not send it.  The exception is a hub whose settings were
\* cleared by a phone while a browser stored a static address: without a name it
\* boots with DHCP, and with one it has that address.
ConfirmedJoins == confirmed # Empty => Joins /\ (torn \/ tried = StoredAddress)
=============================================================================
