--------------------------- MODULE HubPartsProofs ---------------------------
(***************************************************************************)
(* What the small parts of the hub keep, for any requests, files, uploads, *)
(* buttons, commands, limits and times: the Wi-Fi settings in NVS, the     *)
(* body of a request, the log files, a bouncing switch, the way of a       *)
(* command, and the firmware update (Spec, of Ota).                        *)
(***************************************************************************)
EXTENDS MCHubParts, FiniteSetTheorems, SequenceTheorems, WellFoundedInduction, TLAPS

-----------------------------------------------------------------------------
(* The Wi-Fi settings                                                      *)

(***************************************************************************)
(* The keys that a writer without a rival has passed hold its values.      *)
(***************************************************************************)
WebSoFar ==
  /\ web.step \in 1 .. 8 /\ web.request \in WebRequests
  /\ ~mixed /\ ~W!Writing(ble)
  => \A i \in 1 .. 7 : i < web.step => nvs[W!WebKeys[i]] = W!Value(web.request, W!WebKeys[i])

BleSoFar ==
  /\ ble.step \in 1 .. 4 /\ ble.request \in BleRequests
  /\ ~mixed /\ ~W!Writing(web)
  => \A i \in 1 .. 3 : i < ble.step => nvs[W!BleKeys[i]] = ble.request

(***************************************************************************)
(* Both tasks write only when the later one has noted it; the Bluetooth    *)
(* task has nothing to do outside of the initial setup, and it writes what *)
(* it has tried.                                                           *)
(***************************************************************************)
Writers ==
  /\ W!Writing(web) /\ W!Writing(ble) => mixed
  /\ wifiMode = "boot" => web.step = 0
  /\ wifiMode # "setup" => ble.step = 0 /\ ble.request = Empty
  /\ ble.step \in 1 .. 3 => ble.request \in BleRequests \cap Good

(***************************************************************************)
(* While a phone's word counts, nobody has touched the network's name and  *)
(* password.                                                               *)
(***************************************************************************)
Confirmed ==
  /\ web.step \in 1 .. 7 => confirmed = Empty
  /\ confirmed # Empty => nvs["wifi_ssid"] \in Good /\ nvs["wifi_pass"] = nvs["wifi_ssid"]

(***************************************************************************)
(* A browser stores the network's name first, so that a hub without a name *)
(* has no address, unless a phone cleared the settings in the middle.      *)
(***************************************************************************)
Named ==
  ~torn => /\ nvs["wifi_ssid"] = Empty => nvs["net_ip"] = Empty
           /\ web.step \in 2 .. 7 => nvs["wifi_ssid"] # Empty

(***************************************************************************)
(* As long as nobody writes, the address in force is the stored one; the   *)
(* phone's writes leave it alone, and so does what follows them.           *)
(***************************************************************************)
InForce ==
  /\ wifiMode = "boot" => netAddress = W!Dhcp
  /\ ~torn =>
       /\ wifiMode # "boot" /\ ~W!Writing(web) /\ ~W!Writing(ble) => netAddress = W!StoredAddress
       /\ ble.step \in 1 .. 3 /\ ~mixed /\ ~W!Writing(web) => tried = W!StoredAddress
       /\ confirmed # Empty => tried = W!StoredAddress

WifiInv ==
  /\ W!TypeOK /\ Writers /\ WebSoFar /\ BleSoFar /\ StoredAsSent /\ Confirmed
  /\ Named /\ InForce

-----------------------------------------------------------------------------
(* The body of a request                                                   *)

BodyTypes ==
  /\ arrived \in [Uploads -> Nat] /\ bodies \in [Uploads -> Seq(Uploads \X Nat)]
  /\ buffer \in Seq(Uploads \X Nat) /\ crossed \subseteq Uploads
  /\ \A r \in Uploads : arrived[r] <= Pieces[r]

\* The pieces of a request that none came between are what the buffer holds.
Gathered ==
  \A r \in Uploads \ crossed : R!Open(r) => buffer = [i \in 1 .. arrived[r] |-> <<r, i>>]

BodyInv == BodyTypes /\ Gathered /\ OwnBody

-----------------------------------------------------------------------------
(* The log files                                                           *)

LogTypes ==
  /\ nextId \in Nat \ {0} /\ logId \in Nat /\ popped \in Nat /\ boots \in Nat /\ lines \in Nat
  /\ logStage \in {"off", "begin", "on"} /\ cleared \in BOOLEAN
  /\ queue \in Seq(Nat)
  /\ DOMAIN files \subseteq Nat /\ files \in [DOMAIN files -> Seq(Nat)]
  /\ written \in [DOMAIN files -> Nat]

\* As long as the settings are not cleared, a file has the number of its boot.
Numbered ==
  ~cleared => /\ nextId = boots + 1
              /\ logStage # "off" => logId = boots
              /\ \A n \in DOMAIN files : n <= boots /\ written[n] = n

\* What is written is older than what Update holds, and that than what waits.
LinesInOrder ==
  /\ \A n \in DOMAIN files : \A i \in 1 .. Len(files[n]) :
       /\ files[n][i] <= lines
       /\ popped # 0 => files[n][i] < popped
       /\ \A j \in 1 .. Len(queue) : files[n][i] < queue[j]
  /\ popped <= lines /\ \A j \in 1 .. Len(queue) : popped < queue[j] /\ queue[j] <= lines
  /\ \A i, j \in 1 .. Len(queue) : i < j => queue[i] < queue[j]

LogInv == LogTypes /\ Numbered /\ LinesInOrder /\ L!InOrder

-----------------------------------------------------------------------------
(* A switch that bounces                                                   *)

GpioInv ==
  /\ wideTime \in BOOLEAN /\ uptime \in Nat /\ wasSwitchOn \in BOOLEAN
  /\ pushed \in BOOLEAN /\ onSince \in Nat /\ onSince <= uptime /\ lastOnTime \in Int
  /\ wasSwitchOn => lastOnTime = G!Signed(G!Millis(onSince))

-----------------------------------------------------------------------------
(* The Wi-Fi settings: proofs                                              *)

LEMMA KeysAre ==
  /\ W!WebKeys[1] = "wifi_ssid" /\ W!WebKeys[2] = "wifi_pass" /\ W!WebKeys[3] = "net_ip"
  /\ W!WebKeys[4] = "net_subnet" /\ W!WebKeys[5] = "net_gw"
  /\ W!WebKeys[6] = "net_dns1" /\ W!WebKeys[7] = "net_dns2"
  /\ W!BleKeys[1] = "wifi_ssid" /\ W!BleKeys[2] = "wifi_pass" /\ W!BleKeys[3] = "api_host"
  /\ W!Keys = {"wifi_ssid", "wifi_pass", "net_ip", "net_subnet", "net_gw", "net_dns1",
               "net_dns2", "api_host"}
<1>1. /\ W!WebKeys[1] = "wifi_ssid" /\ W!WebKeys[2] = "wifi_pass" /\ W!WebKeys[3] = "net_ip"
      /\ W!WebKeys[4] = "net_subnet" /\ W!WebKeys[5] = "net_gw"
      /\ W!WebKeys[6] = "net_dns1" /\ W!WebKeys[7] = "net_dns2"
      /\ W!BleKeys[1] = "wifi_ssid" /\ W!BleKeys[2] = "wifi_pass" /\ W!BleKeys[3] = "api_host"
  BY DEF W!WebKeys, W!BleKeys
<1>2. 1 .. 7 = {1, 2, 3, 4, 5, 6, 7}
  OBVIOUS
<1>3. {W!WebKeys[i] : i \in 1 .. 7} =
        {"wifi_ssid", "wifi_pass", "net_ip", "net_subnet", "net_gw", "net_dns1", "net_dns2"}
  BY <1>1, <1>2
<1> QED  BY <1>1, <1>3 DEF W!Keys

(***************************************************************************)
(* A key of the browser's is at one place of its seven, and one of the     *)
(* phone's at one of its three.                                            *)
(***************************************************************************)
LEMMA KeyPlaces ==
  /\ \A i \in 1 .. 7 : W!WebKeys[i] \in W!Keys
  /\ \A i, j \in 1 .. 7 : W!WebKeys[i] = W!WebKeys[j] => i = j
  /\ \A i \in 1 .. 3 : W!BleKeys[i] \in W!Keys
  /\ \A i, j \in 1 .. 3 : W!BleKeys[i] = W!BleKeys[j] => i = j
  /\ \A i \in 1 .. 7 : W!WebKeys[i] # "api_host"
BY KeysAre

LEMMA WifiAssumption ==
  /\ Static \subseteq WebRequests /\ Good \subseteq WebRequests \cup BleRequests
  /\ WebRequests \cap BleRequests = {} /\ Empty \notin WebRequests \cup BleRequests
  /\ MaxRequests \in Nat
BY PartsAssumption DEF W!SetupAssumption, W!Requests

LEMMA WifiInit == ASSUME W!Init PROVE WifiInv
<1>1. web = [request |-> Empty, step |-> 0] /\ ble = [request |-> Empty, step |-> 0]
  BY DEF W!Init, W!Idle
<1>2. W!TypeOK
  <2>1. web \in W!Step /\ ble \in W!Step
    BY <1>1 DEF W!Step
  <2>2. nvs \in [W!Keys -> W!Requests \cup {Empty}]
    BY DEF W!Init
  <2>3. requests \in 0 .. MaxRequests
    BY WifiAssumption DEF W!Init
  <2>4. netAddress \in [W!AddressKeys -> W!Requests \cup {Empty}] /\ tried = netAddress
    BY DEF W!Init, W!Dhcp
  <2> QED  BY <2>1, <2>2, <2>3, <2>4 DEF W!Init, W!TypeOK
<1>3. Writers /\ WebSoFar /\ BleSoFar /\ StoredAsSent /\ Confirmed
  BY <1>1, WifiAssumption
  DEF W!Init, Writers, WebSoFar, BleSoFar, StoredAsSent, W!StoredAsSent, Confirmed, W!Writing
<1>4. Named /\ InForce
  <2>1. nvs["wifi_ssid"] = Empty /\ nvs["net_ip"] = Empty
    BY KeysAre DEF W!Init
  <2> QED  BY <1>1, <2>1 DEF W!Init, Named, InForce
<1> QED  BY <1>2, <1>3, <1>4 DEF WifiInv

(***************************************************************************)
(* A restart leaves no writer at work.                                     *)
(***************************************************************************)
LEMMA WifiBoots ==
  ASSUME WifiInv, W!Boot, UNCHANGED <<nvs, mixed, whole, confirmed, tried, torn>>,
         requests' \in 0 .. MaxRequests, Named', InForce'
  PROVE  WifiInv'
<1>1. web' = [request |-> Empty, step |-> 0] /\ ble' = [request |-> Empty, step |-> 0]
  BY DEF W!Boot, W!Idle
<1>2. W!TypeOK'
  BY <1>1 DEF WifiInv, W!Boot, W!TypeOK, W!Step, W!Requests, W!Dhcp
<1>3. Writers' /\ WebSoFar' /\ BleSoFar'
  BY <1>1 DEF Writers, WebSoFar, BleSoFar, W!Writing
<1>4. StoredAsSent' /\ Confirmed'
  BY <1>1 DEF WifiInv, StoredAsSent, W!StoredAsSent, Confirmed
<1> QED  BY <1>2, <1>3, <1>4 DEF WifiInv

LEMMA WifiTypes == ASSUME WifiInv, W!Next PROVE W!TypeOK'
<1> USE DEF W!TypeOK, W!Step, W!Requests
<1>0. /\ W!TypeOK /\ Writers /\ MaxRequests \in Nat /\ Empty \notin WebRequests
      /\ W!Idle \in W!Step /\ Static \subseteq WebRequests
      /\ W!Dhcp \in [W!AddressKeys -> W!Requests \cup {Empty}]
      /\ W!StoredAddress \in [W!AddressKeys -> W!Requests \cup {Empty}]
  <2>1. W!AddressKeys \subseteq W!Keys
    BY KeysAre DEF W!AddressKeys
  <2>2. W!Dhcp \in [W!AddressKeys -> W!Requests \cup {Empty}]
    BY DEF W!Dhcp
  <2>3. W!StoredAddress \in [W!AddressKeys -> W!Requests \cup {Empty}]
    BY <2>1, <2>2 DEF WifiInv, W!StoredAddress
  <2> QED  BY <2>2, <2>3, WifiAssumption DEF WifiInv, W!Idle
<1>1. CASE W!ConnectToWiFi
  BY <1>0, <1>1 DEF W!ConnectToWiFi
<1>2. CASE W!RestartUnasked
  <2>1. requests' \in 0 .. MaxRequests
    BY <1>0, <1>2 DEF W!RestartUnasked
  <2> QED  BY <1>0, <1>2, <2>1 DEF W!RestartUnasked, W!Boot
<1>3. ASSUME NEW r \in WebRequests, W!PutWiFi(r)
      PROVE  W!TypeOK'
  <2>1. requests' \in 0 .. MaxRequests
    BY <1>0, <1>3 DEF W!PutWiFi
  <2> QED  BY <1>0, <1>3, <2>1 DEF W!PutWiFi, W!Begin, W!Writing
<1>4. ASSUME NEW r \in WebRequests, W!PutRobotHost(r)
      PROVE  W!TypeOK'
  <2>1. requests' \in 0 .. MaxRequests
    BY <1>0, <1>4 DEF W!PutRobotHost
  <2> QED  BY <1>0, <1>4, <2>1, KeysAre DEF W!PutRobotHost
<1>5. CASE W!StoreWebKey
  <2>1. W!Value(web.request, W!WebKeys[web.step]) \in WebRequests \cup {Empty}
    BY <1>0, <1>5 DEF W!StoreWebKey, W!Value
  <2>2. web.step \in 1 .. 7 /\ web' = [web EXCEPT !.step = web.step + 1]
    BY <1>5 DEF W!StoreWebKey
  <2>3. web' \in W!Step
    BY <1>0, <2>2
  <2> QED  BY <1>0, <1>5, <2>1, <2>3, KeyPlaces DEF W!StoreWebKey
<1>6. CASE W!RestartAfterPut
  BY <1>0, <1>6 DEF W!RestartAfterPut, W!Boot
<1>7. ASSUME NEW r \in BleRequests, W!WriteInitialSetting(r)
      PROVE  W!TypeOK'
  <2>1. requests' \in 0 .. MaxRequests
    BY <1>0, <1>7 DEF W!WriteInitialSetting
  <2> QED  BY <1>0, <1>7, <2>1 DEF W!WriteInitialSetting, W!Checking
<1>8. CASE W!Reject
  BY <1>0, <1>8 DEF W!Reject
<1>9. CASE W!Accept
  BY <1>0, <1>9 DEF W!Accept, W!Begin, W!Writing
<1>10. CASE W!StoreBleKey
  <2>1. ble.request \in BleRequests /\ ble.step \in 1 .. 3
    BY <1>0, <1>10 DEF W!StoreBleKey, Writers
  <2>2. ble' \in W!Step
    <3>1. ble' = [ble EXCEPT !.step = ble.step + 1]
      BY <1>10 DEF W!StoreBleKey
    <3> QED  BY <1>0, <2>1, <3>1
  <2>3. whole' \in BleRequests \cup {Empty} /\ confirmed' = whole'
    BY <1>10, <2>1 DEF W!StoreBleKey
  <2> QED  BY <1>0, <1>10, <2>1, <2>2, <2>3, KeyPlaces DEF W!StoreBleKey
<1>11. CASE W!RestartAfterSetting
  BY <1>0, <1>11 DEF W!RestartAfterSetting, W!Boot
<1>12. CASE W!ClearAllData
  <2>1. requests' \in 0 .. MaxRequests
    BY <1>0, <1>12 DEF W!ClearAllData, W!Clear
  <2> QED  BY <1>0, <1>12, <2>1 DEF W!ClearAllData, W!Clear, W!Begin, W!Writing
<1>13. CASE W!ResetAll
  <2>1. requests' \in 0 .. MaxRequests
    BY <1>0, <1>13 DEF W!ResetAll, W!Clear
  <2> QED  BY <1>0, <1>13, <2>1 DEF W!ResetAll, W!Clear, W!Begin, W!Writing
<1> QED  BY <1>1, <1>2, <1>3, <1>4, <1>5, <1>6, <1>7, <1>8, <1>9, <1>10, <1>11, <1>12, <1>13
            DEF W!Next

LEMMA StoredAddressKept ==
  ASSUME \A k \in W!AddressKeys : nvs'[k] = nvs[k]
  PROVE  W!StoredAddress' = W!StoredAddress
<1>1. {"net_ip", "net_subnet", "net_gw"} \subseteq W!AddressKeys
  BY DEF W!AddressKeys
<1>2. W!UsesStatic' <=> W!UsesStatic
  BY <1>1 DEF W!UsesStatic
<1>3. [k \in W!AddressKeys |-> nvs'[k]] = [k \in W!AddressKeys |-> nvs[k]]
  OBVIOUS
<1> QED  BY <1>2, <1>3 DEF W!StoredAddress, W!Dhcp

(***************************************************************************)
(* What each step does to the address, in the driver and in NVS.           *)
(***************************************************************************)
LEMMA AddressKept == ASSUME WifiInv, W!Next PROVE Named' /\ InForce'
<1>0. /\ W!TypeOK /\ Writers /\ Confirmed /\ Named /\ InForce
      /\ Empty \notin WebRequests \cup BleRequests
  BY WifiAssumption DEF WifiInv
<1>A. /\ {"wifi_ssid", "net_ip"} \subseteq W!Keys /\ "net_ip" \in W!AddressKeys
      /\ {"wifi_ssid", "wifi_pass", "api_host"} \cap W!AddressKeys = {}
      /\ W!AddressKeys \subseteq W!Keys
  BY KeysAre DEF W!AddressKeys
<1>1. CASE W!ConnectToWiFi
  <2>1. /\ wifiMode = "boot" /\ wifiMode' \in {"setup", "run"}
        /\ \/ nvs["wifi_ssid"] = Empty /\ netAddress' = netAddress
           \/ netAddress' = W!StoredAddress
        /\ UNCHANGED <<nvs, web, ble, requests, mixed, whole, confirmed, tried, torn>>
    BY <1>1 DEF W!ConnectToWiFi
  <2>2. Named' /\ W!StoredAddress' = W!StoredAddress
    BY <1>0, <2>1, StoredAddressKept DEF Named
  <2>3. ~torn => netAddress' = W!StoredAddress
    <3>1. ~torn /\ nvs["wifi_ssid"] = Empty => W!StoredAddress = W!Dhcp
      BY <1>0 DEF Named, W!StoredAddress, W!UsesStatic
    <3>2. netAddress = W!Dhcp
      BY <1>0, <2>1 DEF InForce
    <3> QED  BY <2>1, <3>1, <3>2
  <2> QED  BY <1>0, <2>1, <2>2, <2>3 DEF InForce, W!Writing
<1>2. CASE W!RestartUnasked \/ W!RestartAfterPut \/ W!RestartAfterSetting
  <2>1. /\ wifiMode' = "boot" /\ netAddress' = W!Dhcp
        /\ web'.step = 0 /\ ble'.step = 0
        /\ UNCHANGED <<nvs, mixed, whole, confirmed, tried, torn>>
    BY <1>2 DEF W!RestartUnasked, W!RestartAfterPut, W!RestartAfterSetting, W!Boot, W!Idle
  <2>2. W!StoredAddress' = W!StoredAddress
    BY <2>1, StoredAddressKept
  <2> QED  BY <1>0, <2>1, <2>2 DEF Named, InForce
<1>3. ASSUME NEW r \in WebRequests, W!PutWiFi(r)
      PROVE  Named' /\ InForce'
  <2>1. /\ web'.step = 1 /\ confirmed' = Empty /\ UNCHANGED <<nvs, wifiMode, netAddress, ble, tried, torn>>
        /\ web' = [request |-> r, step |-> 1]
    BY <1>3 DEF W!PutWiFi, W!Begin
  <2> QED  BY <1>0, <2>1 DEF Named, InForce, W!Writing
<1>4. ASSUME NEW r \in WebRequests, W!PutRobotHost(r)
      PROVE  Named' /\ InForce'
  <2>1. /\ web'.step = 8 /\ wifiMode = "run"
        /\ nvs' = [nvs EXCEPT !["api_host"] = r]
        /\ UNCHANGED <<wifiMode, netAddress, ble, mixed, confirmed, tried, torn>>
    BY <1>4 DEF W!PutRobotHost
  <2>2. nvs'["wifi_ssid"] = nvs["wifi_ssid"] /\ \A k \in W!AddressKeys : nvs'[k] = nvs[k]
    BY <1>0, <1>A, <2>1 DEF W!TypeOK
  <2>3. W!StoredAddress' = W!StoredAddress
    BY <2>2, StoredAddressKept
  <2> QED  BY <1>0, <1>A, <2>1, <2>2, <2>3 DEF Named, InForce, W!Writing, Writers
<1>5. CASE W!StoreWebKey
  <2> DEFINE i == web.step
  <2>1. /\ web.request \in WebRequests /\ i \in 1 .. 7
        /\ nvs' = [nvs EXCEPT ![W!WebKeys[i]] = W!Value(web.request, W!WebKeys[i])]
        /\ web' = [web EXCEPT !.step = i + 1]
        /\ UNCHANGED <<wifiMode, netAddress, ble, mixed, confirmed, tried, torn>>
    BY <1>5 DEF W!StoreWebKey
  <2>2. web'.step = i + 1
    BY <1>0, <2>1 DEF W!TypeOK, W!Step
  <2>3. confirmed' = Empty
    BY <1>0, <2>1 DEF Confirmed
  <2>4. InForce'
    <3>1. W!Writing(web)'
      BY <2>1, <2>2 DEF W!Writing
    <3> QED  BY <1>0, <2>1, <2>3, <3>1 DEF InForce, W!Writing
  <2>5. Named'
    <3>1. CASE i = 1
      <4>1. nvs'["wifi_ssid"] = web.request
        BY <1>0, <1>A, <2>1, <3>1, KeysAre DEF W!TypeOK, W!Value
      <4> QED  BY <1>0, <2>1, <4>1 DEF Named
    <3>2. CASE i # 1
      <4>1. nvs'["wifi_ssid"] = nvs["wifi_ssid"]
        BY <1>0, <1>A, <2>1, <3>2, KeysAre, KeyPlaces DEF W!TypeOK
      <4>2. i \in 2 .. 7
        BY <2>1, <3>2
      <4> QED  BY <1>0, <2>1, <4>1, <4>2 DEF Named
    <3> QED  BY <3>1, <3>2
  <2> QED  BY <2>4, <2>5
<1>6. ASSUME NEW r \in BleRequests, W!WriteInitialSetting(r)
      PROVE  Named' /\ InForce'
  <2>1. /\ ble.step = 0 /\ ble' = [request |-> r, step |-> 0]
        /\ UNCHANGED <<nvs, wifiMode, netAddress, web, mixed, confirmed, tried, torn>>
    BY <1>6 DEF W!WriteInitialSetting, W!Idle, W!Checking
  <2>2. W!StoredAddress' = W!StoredAddress
    BY <2>1, StoredAddressKept
  <2> QED  BY <1>0, <2>1, <2>2 DEF Named, InForce, W!Writing
<1>7. CASE W!Reject
  <2>1. /\ ble.step = 0 /\ ble' = [request |-> Empty, step |-> 0]
        /\ UNCHANGED <<nvs, wifiMode, netAddress, web, mixed, confirmed, tried, torn>>
    BY <1>7 DEF W!Reject, W!Idle, W!Checking
  <2>2. W!StoredAddress' = W!StoredAddress
    BY <2>1, StoredAddressKept
  <2> QED  BY <1>0, <2>1, <2>2 DEF Named, InForce, W!Writing
<1>8. CASE W!Accept
  <2>1. /\ ble.request \in BleRequests /\ ble.step = 0
        /\ ble' = [ble EXCEPT !.step = 1] /\ confirmed' = Empty /\ tried' = netAddress
        /\ UNCHANGED <<nvs, wifiMode, netAddress, web, torn>>
    BY <1>8 DEF W!Accept, W!Begin, W!Checking
  <2>2. ble'.step = 1 /\ wifiMode = "setup"
    BY <1>0, <2>1 DEF W!TypeOK, W!Step, Writers
  <2>3. W!StoredAddress' = W!StoredAddress
    BY <2>1, StoredAddressKept
  <2> QED  BY <1>0, <2>1, <2>2, <2>3 DEF Named, InForce, W!Writing
<1>9. CASE W!StoreBleKey
  <2> DEFINE i == ble.step
  <2>1. /\ i \in 1 .. 3 /\ nvs' = [nvs EXCEPT ![W!BleKeys[i]] = ble.request]
        /\ ble' = [ble EXCEPT !.step = i + 1]
        /\ confirmed' = IF i = 3 /\ ~mixed /\ ~W!Writing(web) THEN ble.request ELSE Empty
        /\ UNCHANGED <<wifiMode, netAddress, web, mixed, tried, torn>>
    BY <1>9 DEF W!StoreBleKey
  <2>2. ble'.step = i + 1 /\ ble.request \in BleRequests /\ W!BleKeys[i] \in W!Keys
    BY <1>0, <2>1, KeyPlaces DEF W!TypeOK, W!Step, Writers
  <2>3. /\ \A k \in W!AddressKeys : nvs'[k] = nvs[k]
        /\ nvs'["wifi_ssid"] \in {nvs["wifi_ssid"], ble.request}
    <3>1. W!BleKeys[i] \notin W!AddressKeys
      BY <1>A, <2>1, KeysAre
    <3> QED  BY <1>0, <1>A, <2>1, <2>2, <3>1 DEF W!TypeOK
  <2>4. W!StoredAddress' = W!StoredAddress
    BY <2>3, StoredAddressKept
  <2>5. Named'
    BY <1>0, <1>A, <2>1, <2>2, <2>3 DEF Named
  <2>6. InForce'
    BY <1>0, <2>1, <2>2, <2>4 DEF InForce, W!Writing
  <2> QED  BY <2>5, <2>6
<1>10. CASE W!ClearAllData
  <2>1. /\ web' = [request |-> Empty, step |-> 8] /\ confirmed' = Empty
        /\ nvs' = [k \in W!Keys |-> Empty]
        /\ UNCHANGED <<wifiMode, netAddress, ble>>
    BY <1>10 DEF W!ClearAllData, W!Clear, W!Begin
  <2> QED  BY <1>0, <1>A, <2>1 DEF Named, InForce, W!Writing
<1>11. CASE W!ResetAll
  <2>1. /\ ble' = [request |-> Empty, step |-> 4] /\ confirmed' = Empty
        /\ nvs' = [k \in W!Keys |-> Empty] /\ torn' = W!Writing(web)
        /\ UNCHANGED <<wifiMode, netAddress, web>>
    BY <1>11 DEF W!ResetAll, W!Clear, W!Begin
  <2>2. ~torn' => ~W!Writing(web)
    BY <2>1, Zenon
  <2>3. Named'
    BY <1>A, <2>1, <2>2 DEF Named, W!Writing
  <2> QED  BY <1>0, <2>1, <2>3 DEF InForce, W!Writing
<1> QED  BY <1>1, <1>2, <1>3, <1>4, <1>5, <1>6, <1>7, <1>8, <1>9, <1>10, <1>11 DEF W!Next

(***************************************************************************)
(* The steps that store one key, and those that store none.                *)
(***************************************************************************)
LEMMA StoreWebKeyKeeps == ASSUME WifiInv, W!StoreWebKey PROVE WifiInv'
<1> DEFINE i == web.step
           k == W!WebKeys[i]
           v == W!Value(web.request, k)
<1>0. /\ W!TypeOK /\ Writers /\ WebSoFar /\ Confirmed
      /\ Empty \notin WebRequests \cup BleRequests /\ WebRequests \cap BleRequests = {}
  BY WifiAssumption DEF WifiInv
<1>1. /\ web.request \in WebRequests /\ i \in 1 .. 7
      /\ nvs' = [nvs EXCEPT ![k] = v] /\ web' = [web EXCEPT !.step = i + 1]
      /\ whole' = IF i = 7 /\ ~mixed /\ ~W!Writing(ble) THEN web.request ELSE Empty
      /\ UNCHANGED <<wifiMode, ble, requests, mixed, confirmed>>
  BY DEF W!StoreWebKey
<1>2. web'.step = i + 1 /\ web'.request = web.request
  BY <1>0, <1>1 DEF W!TypeOK, W!Step
<1>3. /\ k \in W!Keys
      /\ nvs'[k] = v
      /\ \A key \in W!Keys : key # k => nvs'[key] = nvs[key]
  BY <1>0, <1>1, KeyPlaces DEF W!TypeOK
<1>4. WebSoFar'
  <2> SUFFICES ASSUME ~mixed, ~W!Writing(ble), NEW j \in 1 .. 7, j < i + 1
               PROVE  nvs'[W!WebKeys[j]] = W!Value(web.request, W!WebKeys[j])
    BY <1>1, <1>2 DEF WebSoFar, W!Writing, W!Value
  <2>1. CASE j = i
    BY <1>3, <2>1
  <2>2. CASE j # i
    <3>1. j < i /\ i \in 1 .. 8
      BY <1>1, <2>2
    <3>2. nvs[W!WebKeys[j]] = W!Value(web.request, W!WebKeys[j])
      BY <1>0, <1>1, <3>1 DEF WebSoFar
    <3>3. W!WebKeys[j] \in W!Keys /\ W!WebKeys[j] # k
      BY <1>1, <2>2, KeyPlaces
    <3> QED  BY <1>3, <3>2, <3>3
  <2> QED  BY <2>1, <2>2
<1>5. BleSoFar'
  BY <1>1, <1>2 DEF BleSoFar, W!Writing
<1>6. StoredAsSent'
  <2>1. whole' \notin BleRequests
    BY <1>0, <1>1
  <2>2. ASSUME whole' \in WebRequests, NEW j \in 1 .. 7
        PROVE  nvs'[W!WebKeys[j]] = W!Value(whole', W!WebKeys[j])
    <3>1. i = 7 /\ ~mixed /\ ~W!Writing(ble) /\ whole' = web.request
      BY <1>0, <1>1, <2>2
    <3> QED  BY <1>1, <1>2, <1>4, <3>1 DEF WebSoFar, W!Writing, W!Value
  <2> QED  BY <2>1, <2>2 DEF StoredAsSent, W!StoredAsSent, W!Value
<1>7. Writers' /\ Confirmed'
  <2>1. confirmed' = Empty
    BY <1>0, <1>1 DEF Confirmed
  <2> QED  BY <1>0, <1>1, <1>2, <2>1 DEF Writers, Confirmed, W!Writing
<1>8. W!TypeOK'
  BY WifiTypes DEF W!Next
<1>9. Named' /\ InForce'
  BY AddressKept DEF W!Next
<1> QED  BY <1>4, <1>5, <1>6, <1>7, <1>8, <1>9 DEF WifiInv

LEMMA StoreBleKeyKeeps == ASSUME WifiInv, W!StoreBleKey PROVE WifiInv'
<1> DEFINE i == ble.step
           k == W!BleKeys[i]
           stored == IF i = 3 /\ ~mixed /\ ~W!Writing(web) THEN ble.request ELSE Empty
<1>0. /\ W!TypeOK /\ Writers /\ BleSoFar /\ Confirmed
      /\ Empty \notin WebRequests \cup BleRequests /\ WebRequests \cap BleRequests = {}
  BY WifiAssumption DEF WifiInv
<1>1. /\ i \in 1 .. 3 /\ nvs' = [nvs EXCEPT ![k] = ble.request]
      /\ ble' = [ble EXCEPT !.step = i + 1]
      /\ whole' = stored /\ confirmed' = stored
      /\ UNCHANGED <<wifiMode, web, requests, mixed>>
  BY DEF W!StoreBleKey
<1>2. /\ ble'.step = i + 1 /\ ble'.request = ble.request
      /\ ble.request \in BleRequests \cap Good
  BY <1>0, <1>1 DEF W!TypeOK, W!Step, Writers
<1>3. /\ k \in W!Keys
      /\ nvs'[k] = ble.request
      /\ \A key \in W!Keys : key # k => nvs'[key] = nvs[key]
  BY <1>0, <1>1, KeyPlaces DEF W!TypeOK
<1>4. BleSoFar'
  <2> SUFFICES ASSUME ~mixed, ~W!Writing(web), NEW j \in 1 .. 3, j < i + 1
               PROVE  nvs'[W!BleKeys[j]] = ble.request
    BY <1>1, <1>2 DEF BleSoFar, W!Writing
  <2>1. CASE j = i
    BY <1>3, <2>1
  <2>2. CASE j # i
    <3>1. j < i /\ i \in 1 .. 4
      BY <1>1, <2>2
    <3>2. nvs[W!BleKeys[j]] = ble.request
      BY <1>0, <1>2, <3>1 DEF BleSoFar
    <3>3. W!BleKeys[j] \in W!Keys /\ W!BleKeys[j] # k
      BY <1>1, <2>2, KeyPlaces
    <3> QED  BY <1>3, <3>2, <3>3
  <2> QED  BY <2>1, <2>2
<1>5. WebSoFar'
  BY <1>1, <1>2 DEF WebSoFar, W!Writing
<1>6. ASSUME stored # Empty
      PROVE  /\ i = 3 /\ ~mixed /\ ~W!Writing(web) /\ stored = ble.request
             /\ \A j \in 1 .. 3 : nvs'[W!BleKeys[j]] = ble.request
  <2>1. i = 3 /\ ~mixed /\ ~W!Writing(web) /\ stored = ble.request
    BY <1>6
  <2> QED  BY <1>1, <1>2, <1>4, <2>1 DEF BleSoFar, W!Writing
<1>7. StoredAsSent'
  BY <1>0, <1>1, <1>2, <1>6 DEF StoredAsSent, W!StoredAsSent
<1>8. Writers' /\ Confirmed'
  <2>1. Writers'
    BY <1>0, <1>1, <1>2 DEF Writers, W!Writing
  <2>2. Confirmed'
    <3>1. W!Writing(web) \/ web.step \notin 1 .. 7
      BY DEF W!Writing
    <3>2. stored # Empty => nvs'["wifi_ssid"] = ble.request /\ nvs'["wifi_pass"] = ble.request
      BY <1>6, KeysAre
    <3> QED  BY <1>1, <1>2, <1>6, <3>1, <3>2 DEF Confirmed
  <2> QED  BY <2>1, <2>2
<1>9. W!TypeOK'
  BY WifiTypes DEF W!Next
<1>10. Named' /\ InForce'
  BY AddressKept DEF W!Next
<1> QED  BY <1>4, <1>5, <1>7, <1>8, <1>9, <1>10 DEF WifiInv

LEMMA WifiStep == ASSUME WifiInv, [W!Next]_(W!vars) PROVE WifiInv'
<1>0. /\ W!TypeOK /\ Writers /\ WebSoFar /\ BleSoFar /\ StoredAsSent /\ Confirmed
      /\ Empty \notin WebRequests \cup BleRequests /\ MaxRequests \in Nat
  BY WifiAssumption DEF WifiInv
<1>1. CASE W!ConnectToWiFi
  <2>1. W!TypeOK' /\ Named' /\ InForce'
        /\ UNCHANGED <<nvs, web, ble, mixed, whole, confirmed>>
    BY <1>1, WifiTypes, AddressKept DEF W!Next, W!ConnectToWiFi
  <2>2. Writers'
    BY <1>0, <1>1, <2>1 DEF Writers, W!ConnectToWiFi, W!Writing
  <2>3. WebSoFar' /\ BleSoFar' /\ StoredAsSent' /\ Confirmed'
    BY <1>0, <2>1
    DEF WebSoFar, BleSoFar, StoredAsSent, W!StoredAsSent, Confirmed, W!Writing, W!Value
  <2> QED  BY <2>1, <2>2, <2>3 DEF WifiInv
<1>2. CASE W!RestartUnasked \/ W!RestartAfterPut \/ W!RestartAfterSetting
  <2>1. requests' \in 0 .. MaxRequests
    BY <1>0, <1>2 DEF W!RestartUnasked, W!RestartAfterPut, W!RestartAfterSetting, W!TypeOK
  <2>2. Named' /\ InForce'
    BY <1>2, AddressKept DEF W!Next
  <2> QED
    BY <1>2, <2>1, <2>2, WifiBoots DEF W!RestartUnasked, W!RestartAfterPut, W!RestartAfterSetting
<1>3. ASSUME NEW r \in WebRequests, W!PutWiFi(r)
      PROVE  WifiInv'
  <2>1. /\ web' = [request |-> r, step |-> 1] /\ mixed' = W!Writing(ble)
        /\ whole' = Empty /\ confirmed' = Empty /\ wifiMode \in {"setup", "run"}
        /\ UNCHANGED <<nvs, wifiMode, ble>>
    BY <1>3 DEF W!PutWiFi, W!Begin
  <2>2. W!TypeOK' /\ Named' /\ InForce'
    BY <1>3, WifiTypes, AddressKept DEF W!Next
  <2>3. Writers'
    BY <1>0, <2>1 DEF Writers, W!Writing
  <2>4. WebSoFar' /\ BleSoFar'
    BY <1>0, <2>1 DEF WebSoFar, BleSoFar, W!Writing
  <2>5. StoredAsSent' /\ Confirmed'
    BY <1>0, <2>1, WifiAssumption DEF StoredAsSent, W!StoredAsSent, Confirmed
  <2> QED  BY <2>2, <2>3, <2>4, <2>5 DEF WifiInv
<1>4. ASSUME NEW r \in WebRequests, W!PutRobotHost(r)
      PROVE  WifiInv'
  <2>1. /\ wifiMode = "run" /\ web.step = 0
        /\ nvs' = [nvs EXCEPT !["api_host"] = r]
        /\ web' = [request |-> Empty, step |-> 8] /\ whole' = Empty
        /\ UNCHANGED <<wifiMode, ble, mixed, confirmed>>
    BY <1>4 DEF W!PutRobotHost, W!Idle
  <2>2. W!TypeOK' /\ Named' /\ InForce'
    BY <1>4, WifiTypes, AddressKept DEF W!Next
  <2>3. nvs'["wifi_ssid"] = nvs["wifi_ssid"] /\ nvs'["wifi_pass"] = nvs["wifi_pass"]
    BY <1>0, <2>1, KeysAre DEF W!TypeOK
  <2>4. Writers' /\ WebSoFar' /\ BleSoFar'
    BY <1>0, <2>1 DEF Writers, WebSoFar, BleSoFar, W!Writing
  <2>5. StoredAsSent' /\ Confirmed'
    BY <1>0, <2>1, <2>3 DEF StoredAsSent, W!StoredAsSent, Confirmed
  <2> QED  BY <2>2, <2>4, <2>5 DEF WifiInv
<1>5. CASE W!StoreWebKey
  BY <1>5, StoreWebKeyKeeps
<1>6. ASSUME NEW r \in BleRequests, W!WriteInitialSetting(r)
      PROVE  WifiInv'
  <2>1. /\ wifiMode = "setup" /\ ble.step = 0 /\ ble' = [request |-> r, step |-> 0]
        /\ UNCHANGED <<nvs, wifiMode, web, mixed, whole, confirmed>>
    BY <1>6 DEF W!WriteInitialSetting, W!Idle, W!Checking
  <2>2. W!TypeOK' /\ Named' /\ InForce'
    BY <1>6, WifiTypes, AddressKept DEF W!Next
  <2>3. Writers' /\ WebSoFar' /\ BleSoFar'
    BY <1>0, <2>1 DEF Writers, WebSoFar, BleSoFar, W!Writing, W!Value
  <2>4. StoredAsSent' /\ Confirmed'
    BY <1>0, <2>1 DEF StoredAsSent, W!StoredAsSent, Confirmed, W!Value
  <2> QED  BY <2>2, <2>3, <2>4 DEF WifiInv
<1>7. CASE W!Reject
  <2>1. /\ ble.step = 0 /\ ble' = [request |-> Empty, step |-> 0]
        /\ UNCHANGED <<nvs, wifiMode, web, mixed, whole, confirmed>>
    BY <1>7 DEF W!Reject, W!Idle, W!Checking
  <2>2. W!TypeOK' /\ Named' /\ InForce'
    BY <1>7, WifiTypes, AddressKept DEF W!Next
  <2>3. Writers' /\ WebSoFar' /\ BleSoFar'
    BY <1>0, <2>1 DEF Writers, WebSoFar, BleSoFar, W!Writing, W!Value
  <2>4. StoredAsSent' /\ Confirmed'
    BY <1>0, <2>1 DEF StoredAsSent, W!StoredAsSent, Confirmed, W!Value
  <2> QED  BY <2>2, <2>3, <2>4 DEF WifiInv
<1>8. CASE W!Accept
  <2>1. /\ ble.request \in BleRequests \cap Good /\ ble.step = 0
        /\ ble' = [ble EXCEPT !.step = 1]
        /\ mixed' = W!Writing(web) /\ whole' = Empty /\ confirmed' = Empty
        /\ UNCHANGED <<nvs, wifiMode, web>>
    BY <1>8 DEF W!Accept, W!Begin, W!Checking
  <2>2. W!TypeOK' /\ Named' /\ InForce'
    BY <1>8, WifiTypes, AddressKept DEF W!Next
  <2>3. ble'.step = 1 /\ ble'.request = ble.request
    BY <1>0, <2>1 DEF W!TypeOK, W!Step
  <2>4. Writers'
    <3>1. wifiMode = "setup"
      BY <1>0, <1>8 DEF W!Accept, Writers
    <3> QED  BY <1>0, <2>1, <2>3, <3>1 DEF Writers, W!Writing
  <2>5. WebSoFar' /\ BleSoFar' /\ StoredAsSent' /\ Confirmed'
    BY <1>0, <2>1, <2>3
    DEF WebSoFar, BleSoFar, StoredAsSent, W!StoredAsSent, Confirmed, W!Writing
  <2> QED  BY <2>2, <2>4, <2>5 DEF WifiInv
<1>9. CASE W!StoreBleKey
  BY <1>9, StoreBleKeyKeeps
<1>10. CASE W!ClearAllData
  <2>1. /\ wifiMode = "run" /\ web' = [request |-> Empty, step |-> 8]
        /\ mixed' = W!Writing(ble) /\ whole' = Empty /\ confirmed' = Empty
        /\ UNCHANGED <<wifiMode, ble>>
    BY <1>10 DEF W!ClearAllData, W!Clear, W!Begin
  <2>2. W!TypeOK' /\ Named' /\ InForce'
    BY <1>10, WifiTypes, AddressKept DEF W!Next
  <2>3. Writers'
    BY <1>0, <2>1 DEF Writers, W!Writing
  <2>4. WebSoFar' /\ BleSoFar'
    BY <1>0, <2>1 DEF WebSoFar, BleSoFar, W!Writing
  <2>5. StoredAsSent' /\ Confirmed'
    BY <1>0, <2>1, WifiAssumption DEF StoredAsSent, W!StoredAsSent, Confirmed
  <2> QED  BY <2>2, <2>3, <2>4, <2>5 DEF WifiInv
<1>11. CASE W!ResetAll
  <2>1. /\ wifiMode = "setup" /\ ble' = [request |-> Empty, step |-> 4]
        /\ mixed' = W!Writing(web) /\ whole' = Empty /\ confirmed' = Empty
        /\ UNCHANGED <<wifiMode, web>>
    BY <1>11 DEF W!ResetAll, W!Clear, W!Begin
  <2>2. W!TypeOK' /\ Named' /\ InForce'
    BY <1>11, WifiTypes, AddressKept DEF W!Next
  <2>3. Writers'
    <3>1. W!Writing(web)' => mixed'
      BY <2>1, Zenon DEF W!Writing
    <3> QED  BY <2>1, <3>1 DEF Writers
  <2>4. WebSoFar' /\ BleSoFar'
    BY <1>0, <2>1 DEF WebSoFar, BleSoFar, W!Writing
  <2>5. StoredAsSent' /\ Confirmed'
    BY <1>0, <2>1, WifiAssumption DEF StoredAsSent, W!StoredAsSent, Confirmed
  <2> QED  BY <2>2, <2>3, <2>4, <2>5 DEF WifiInv
<1>12. CASE UNCHANGED W!vars
  <2>1. UNCHANGED <<nvs, wifiMode, netAddress, web, ble, requests, mixed, whole, confirmed, tried, torn>>
    BY <1>12 DEF W!vars
  <2>2. W!StoredAddress' = W!StoredAddress
    BY <2>1, StoredAddressKept
  <2>3. Named' /\ InForce'
    BY <2>1, <2>2 DEF WifiInv, Named, InForce, W!Writing
  <2> QED  BY <1>0, <2>1, <2>3 DEF WifiInv, W!TypeOK, Writers, WebSoFar, BleSoFar, StoredAsSent,
              W!StoredAsSent, Confirmed, W!Writing, W!Value
<1> QED  BY <1>1, <1>2, <1>3, <1>4, <1>5, <1>6, <1>7, <1>8, <1>9, <1>10, <1>11, <1>12 DEF W!Next

-----------------------------------------------------------------------------
(* The body of a request: proofs                                           *)

LEMMA BodyInit == ASSUME R!Init PROVE BodyInv
<1>1. Pieces \in [Uploads -> Nat \ {0}]
  BY PartsAssumption DEF R!PiecesAssumption
<1>2. BodyTypes
  BY <1>1 DEF R!Init, BodyTypes
<1>3. Gathered /\ OwnBody
  BY DEF R!Init, Gathered, OwnBody, R!OwnBody, R!Open
<1> QED  BY <1>2, <1>3 DEF BodyInv

LEMMA BodyStep == ASSUME BodyInv, [R!Next]_(R!vars) PROVE BodyInv'
<1>0. BodyTypes /\ Gathered /\ OwnBody /\ Pieces \in [Uploads -> Nat \ {0}]
  BY PartsAssumption DEF BodyInv, R!PiecesAssumption
<1>1. ASSUME NEW r \in Uploads, R!OnBody(r)
      PROVE  BodyInv'
  <2> PICK n, old, new : /\ n = arrived[r] + 1 /\ new = R!Collected(r)
                         /\ old = IF arrived[r] = 0 THEN <<>> ELSE buffer
    OBVIOUS
  <2>1. /\ n <= Pieces[r] /\ buffer' = new
        /\ arrived' = [arrived EXCEPT ![r] = n]
        /\ bodies' = IF n = Pieces[r] THEN [bodies EXCEPT ![r] = new] ELSE bodies
        /\ crossed' = crossed \cup {q \in Uploads \ {r} : R!Open(q)}
    <3>1. arrived[r] < Pieces[r] /\ arrived[r] \in Nat /\ Pieces[r] \in Nat
      BY <1>0, <1>1 DEF R!OnBody, BodyTypes
    <3>2. n <= Pieces[r]
      BY <3>1
    <3> QED  BY <1>1, <3>2 DEF R!OnBody
  <2>2. /\ n \in Nat /\ n > 0 /\ arrived[r] = n - 1 /\ Pieces[r] \in Nat
        /\ n = 1 <=> arrived[r] = 0
    BY <1>0 DEF BodyTypes
  <2>3. old \in Seq(Uploads \X Nat) /\ new = Append(old, <<r, n>>) /\ <<r, n>> \in Uploads \X Nat
    BY <1>0, <2>2 DEF BodyTypes, R!Collected
  <2>4. new \in Seq(Uploads \X Nat)
    BY <2>3, AppendProperties
  <2>5. r \notin crossed => new = [i \in 1 .. n |-> <<r, i>>]
    <3> SUFFICES ASSUME r \notin crossed
                 PROVE  new = [i \in 1 .. n |-> <<r, i>>]
      OBVIOUS
    <3>1. old = [i \in 1 .. n - 1 |-> <<r, i>>]
      <4>1. CASE n = 1
        <5>1. old = <<>> /\ n - 1 = 0
          <6>1. n - 1 = 0
            BY <4>1
          <6> QED  BY <2>2, <4>1, <6>1, Zenon
        <5>2. <<>> = [i \in 1 .. 0 |-> <<r, i>>]
          OBVIOUS
        <5> QED  BY <5>1, <5>2, Zenon
      <4>2. CASE n # 1
        <5>1. R!Open(r) /\ arrived[r] = n - 1 /\ arrived[r] # 0
          BY <2>1, <2>2, <4>2 DEF R!Open
        <5>2. buffer = [i \in 1 .. arrived[r] |-> <<r, i>>]
          BY <1>0, <5>1 DEF Gathered
        <5> QED  BY <5>1, <5>2
      <4> QED  BY <4>1, <4>2
    <3>2. Len(old) = n - 1
      BY <2>2, <3>1
    <3>3. /\ Len(new) = n /\ \A i \in 1 .. n - 1 : new[i] = old[i]
          /\ new[n] = <<r, n>>
      BY <2>2, <2>3, <3>2, AppendProperties
    <3>4. new = [i \in 1 .. n |-> new[i]]
      BY <2>4, <3>3, LenProperties
    <3>5. \A i \in 1 .. n - 1 : old[i] = <<r, i>>
      BY <3>1, Zenon
    <3>6. \A i \in 1 .. n : new[i] = <<r, i>>
      <4> TAKE i \in 1 .. n
      <4>1. i = n \/ i \in 1 .. n - 1
        BY <2>2
      <4> QED  BY <3>3, <3>5, <4>1, Zenon
    <3> QED  BY <3>4, <3>6
  <2>6. BodyTypes'
    BY <1>0, <2>1, <2>2, <2>4 DEF BodyTypes
  <2>7. \A q \in Uploads \ {r} : R!Open(q) <=> R!Open(q)'
    BY <1>0, <2>1 DEF R!Open, BodyTypes
  <2>8. arrived'[r] = n
    BY <1>0, <2>1 DEF BodyTypes
  <2>9. Gathered'
    <3> SUFFICES ASSUME NEW q \in Uploads \ crossed', R!Open(q)'
                 PROVE  new = [i \in 1 .. arrived'[q] |-> <<q, i>>]
      BY <2>1 DEF Gathered
    <3>1. q = r
      BY <2>1, <2>7
    <3> QED  BY <2>1, <2>5, <2>8, <3>1
  <2>10. OwnBody'
    <3> SUFFICES ASSUME NEW q \in Uploads \ crossed'
                 PROVE  bodies'[q] \in {<<>>, [i \in 1 .. Pieces[q] |-> <<q, i>>]}
      BY DEF OwnBody, R!OwnBody, R!Body
    <3>1. q \notin crossed /\ bodies[q] \in {<<>>, [i \in 1 .. Pieces[q] |-> <<q, i>>]}
      BY <1>0, <2>1 DEF OwnBody, R!OwnBody, R!Body
    <3>2. CASE q = r /\ n = Pieces[r]
      BY <1>0, <2>1, <2>5, <3>1, <3>2 DEF BodyTypes
    <3>3. CASE q # r \/ n # Pieces[r]
      BY <1>0, <2>1, <3>1, <3>3 DEF BodyTypes
    <3> QED  BY <3>2, <3>3
  <2> QED  BY <2>6, <2>9, <2>10 DEF BodyInv
<1>2. ASSUME NEW r \in Uploads, R!Abandon(r)
      PROVE  BodyInv'
  <2>1. /\ arrived' = [arrived EXCEPT ![r] = Pieces[r]]
        /\ UNCHANGED <<buffer, bodies, crossed>>
    BY <1>2 DEF R!Abandon
  <2>2. \A q \in Uploads : R!Open(q)' => q # r /\ R!Open(q) /\ arrived'[q] = arrived[q]
    BY <1>0, <2>1 DEF R!Open, BodyTypes
  <2>3. BodyTypes'
    BY <1>0, <2>1 DEF BodyTypes
  <2>4. Gathered' /\ OwnBody'
    BY <1>0, <2>1, <2>2 DEF Gathered, OwnBody, R!OwnBody, R!Body
  <2> QED  BY <2>3, <2>4 DEF BodyInv
<1>3. ASSUME NEW r \in Uploads, R!Again(r)
      PROVE  BodyInv'
  <2>1. /\ arrived' = [arrived EXCEPT ![r] = 0] /\ bodies' = [bodies EXCEPT ![r] = <<>>]
        /\ crossed' = crossed \ {r} /\ buffer' = buffer
    BY <1>3 DEF R!Again
  <2>2. \A q \in Uploads : R!Open(q)' => q # r /\ R!Open(q) /\ arrived'[q] = arrived[q]
    BY <1>0, <2>1 DEF R!Open, BodyTypes
  <2>3. BodyTypes'
    BY <1>0, <2>1 DEF BodyTypes
  <2>4. Gathered'
    BY <1>0, <2>1, <2>2 DEF Gathered
  <2>5. OwnBody'
    <3> SUFFICES ASSUME NEW q \in Uploads \ crossed'
                 PROVE  bodies'[q] \in {<<>>, R!Body(q)}
      BY DEF OwnBody, R!OwnBody, R!Body
    <3>1. CASE q = r
      BY <1>0, <2>1, <3>1 DEF BodyTypes
    <3>2. CASE q # r
      <4>1. bodies'[q] = bodies[q] /\ q \in Uploads \ crossed
        BY <1>0, <2>1, <3>2 DEF BodyTypes
      <4> QED  BY <1>0, <4>1 DEF OwnBody, R!OwnBody
    <3> QED  BY <3>1, <3>2
  <2> QED  BY <2>3, <2>4, <2>5 DEF BodyInv
<1>4. CASE UNCHANGED R!vars
  BY <1>0, <1>4
  DEF R!vars, BodyInv, BodyTypes, Gathered, OwnBody, R!OwnBody, R!Open, R!Body
<1> QED  BY <1>1, <1>2, <1>3, <1>4 DEF R!Next

-----------------------------------------------------------------------------
(* The log files: proofs                                                   *)

LEMMA LogInit == ASSUME L!Init PROVE LogInv
<1>1. DOMAIN files = {} /\ DOMAIN written = {} /\ Len(queue) = 0
  BY DEF L!Init
<1>2. LogTypes
  <2>1. files \in [DOMAIN files -> Seq(Nat)] /\ written \in [DOMAIN files -> Nat]
    BY <1>1 DEF L!Init
  <2>2. queue \in Seq(Nat) /\ cleared \in BOOLEAN
    <3>1. queue = <<>> /\ cleared = FALSE
      BY DEF L!Init
    <3>2. queue \in Seq(Nat)
      BY <3>1
    <3>3. cleared \in BOOLEAN
      BY <3>1, Zenon
    <3> QED  BY <3>2, <3>3
  <2>3. /\ nextId \in Nat \ {0} /\ logId \in Nat /\ popped \in Nat /\ boots \in Nat
        /\ lines \in Nat /\ logStage \in {"off", "begin", "on"} /\ DOMAIN files \subseteq Nat
    BY <1>1 DEF L!Init
  <2> QED  BY <2>1, <2>2, <2>3 DEF LogTypes
<1>3. Numbered /\ LinesInOrder /\ L!InOrder
  BY <1>1 DEF L!Init, Numbered, LinesInOrder, L!InOrder, L!Existing
<1> QED  BY <1>2, <1>3 DEF LogInv

(***************************************************************************)
(* A file that goes takes nothing with it.                                 *)
(***************************************************************************)
LEMMA LogGoes ==
  ASSUME LogInv, NEW n, files' = L!Without(files, n), written' = L!Without(written, n),
         UNCHANGED <<nextId, logStage, logId, queue, popped, boots, lines, cleared>>
  PROVE  LogInv'
<1>0. LogTypes /\ Numbered /\ LinesInOrder /\ L!InOrder
  BY DEF LogInv
<1>1. /\ DOMAIN files' = DOMAIN files \ {n}
      /\ files' = [m \in DOMAIN files \ {n} |-> files[m]]
      /\ written' = [m \in DOMAIN files \ {n} |-> written[m]]
      /\ \A m \in DOMAIN files \ {n} : files'[m] = files[m] /\ written'[m] = written[m]
  <2>1. DOMAIN written = DOMAIN files
    BY <1>0 DEF LogTypes
  <2> QED  BY <2>1 DEF L!Without
<1>2. LogTypes'
  BY <1>0, <1>1 DEF LogTypes
<1>3. Numbered' /\ LinesInOrder'
  BY <1>0, <1>1 DEF Numbered, LinesInOrder
<1>4. L!InOrder'
  BY <1>0, <1>1 DEF L!InOrder, L!Existing
<1> QED  BY <1>2, <1>3, <1>4 DEF LogInv

LEMMA WriteKeeps == ASSUME LogInv, L!Write PROVE LogInv'
<1> PICK old, new : /\ old = IF logId \in DOMAIN files THEN files[logId] ELSE <<>>
                    /\ new = Append(old, popped)
  OBVIOUS
<1>0. LogTypes /\ Numbered /\ LinesInOrder /\ L!InOrder
  BY DEF LogInv
<1>1. /\ logStage = "on" /\ popped # 0 /\ popped' = 0
      /\ UNCHANGED <<nextId, logStage, logId, queue, boots, lines, cleared>>
  BY DEF L!Write
<1>2. CASE UNCHANGED <<files, written>>
  <2>1. Len(queue) \in Nat /\ \A j \in 1 .. Len(queue) : queue[j] \in Nat
    BY <1>0, LenProperties, ElementOfSeq DEF LogTypes
  <2>2. LogTypes' /\ Numbered'
    BY <1>0, <1>1, <1>2 DEF LogTypes, Numbered
  <2>3. LinesInOrder'
    <3>1. 0 <= lines /\ \A j \in 1 .. Len(queue) : 0 < queue[j] /\ queue[j] <= lines
      BY <1>0, <2>1, SMTT(30) DEF LinesInOrder, LogTypes
    <3>2. \A n \in DOMAIN files : \A i \in 1 .. Len(files[n]) :
            files[n][i] <= lines /\ \A j \in 1 .. Len(queue) : files[n][i] < queue[j]
      BY <1>0 DEF LinesInOrder
    <3>3. \A i, j \in 1 .. Len(queue) : i < j => queue[i] < queue[j]
      BY <1>0 DEF LinesInOrder
    <3> QED  BY <1>1, <1>2, <3>1, <3>2, <3>3 DEF LinesInOrder
  <2>4. L!InOrder'
    BY <1>0, <1>1, <1>2 DEF L!InOrder, L!Existing
  <2> QED  BY <2>2, <2>3, <2>4 DEF LogInv
<1>3. CASE /\ files' = L!With(files, logId, new)
           /\ written' = L!With(written, logId, boots)
  <2>1. /\ DOMAIN files' = DOMAIN files \cup {logId}
        /\ files' = [m \in DOMAIN files \cup {logId} |-> IF m = logId THEN new ELSE files[m]]
        /\ written' = [m \in DOMAIN files \cup {logId} |-> IF m = logId THEN boots ELSE written[m]]
    <3>1. DOMAIN written = DOMAIN files
      BY <1>0 DEF LogTypes
    <3> QED  BY <1>3, <3>1 DEF L!With
  <2>2. old \in Seq(Nat) /\ popped \in Nat /\ logId \in Nat
    BY <1>0 DEF LogTypes
  <2>3. /\ new \in Seq(Nat) /\ Len(old) \in Nat /\ Len(new) = Len(old) + 1
        /\ \A i \in 1 .. Len(old) : new[i] = old[i]
        /\ new[Len(old) + 1] = popped
    BY <2>2, AppendProperties, LenProperties
  <2>4. /\ \A i \in 1 .. Len(old) : logId \in DOMAIN files /\ old[i] = files[logId][i]
        /\ logId \in DOMAIN files => Len(old) = Len(files[logId])
    <3>1. CASE logId \in DOMAIN files
      BY <3>1
    <3>2. CASE logId \notin DOMAIN files
      <4>1. old = <<>> /\ Len(<<>>) = 0
        BY <3>2
      <4> QED  BY <3>2, <4>1
    <3> QED  BY <3>1, <3>2
  <2>5. LogTypes'
    BY <1>0, <1>1, <2>1, <2>2, <2>3 DEF LogTypes
  <2>6. Numbered'
    BY <1>0, <1>1, <2>1 DEF Numbered, LogTypes
  <2> HIDE <1>3
  <2>7. \A n \in DOMAIN files : \A i \in 1 .. Len(files[n]) : files[n][i] < popped
    BY <1>0, <1>1 DEF LinesInOrder
  <2>8. \A i \in 1 .. Len(old) : old[i] < popped
    BY <2>4, <2>7
  <2>9. LinesInOrder'
    <3>1. Len(queue) \in Nat /\ \A j \in 1 .. Len(queue) : queue[j] \in Nat
      BY <1>0, LenProperties, ElementOfSeq DEF LogTypes
    <3>2. \A i \in 1 .. Len(new) : new[i] <= lines /\ \A j \in 1 .. Len(queue) : new[i] < queue[j]
      <4> TAKE i \in 1 .. Len(new)
      <4>1. CASE i \in 1 .. Len(old)
        BY <1>0, <2>3, <2>4, <4>1 DEF LinesInOrder
      <4>2. CASE i = Len(old) + 1
        BY <1>0, <2>3, <4>2 DEF LinesInOrder
      <4> QED  BY <2>3, <4>1, <4>2
    <3>3. \A n \in DOMAIN files' : \A i \in 1 .. Len(files'[n]) :
            files'[n][i] <= lines /\ \A j \in 1 .. Len(queue) : files'[n][i] < queue[j]
      BY <1>0, <2>1, <3>2 DEF LinesInOrder
    <3>4. 0 <= lines /\ \A j \in 1 .. Len(queue) : 0 < queue[j] /\ queue[j] <= lines
      BY <1>0, <3>1, SMTT(30) DEF LinesInOrder, LogTypes
    <3>5. \A i, j \in 1 .. Len(queue) : i < j => queue[i] < queue[j]
      BY <1>0 DEF LinesInOrder
    <3> QED  BY <1>1, <3>3, <3>4, <3>5 DEF LinesInOrder
  <2>10. L!InOrder'
    <3> SUFFICES ASSUME NEW n \in DOMAIN files', NEW i \in 1 .. Len(files'[n]),
                        NEW m \in DOMAIN files', NEW j \in 1 .. Len(files'[m]),
                        (n = m /\ i < j) \/ (n < m /\ ~cleared)
                 PROVE  files'[n][i] < files'[m][j]
      BY <1>1 DEF L!InOrder, L!Existing
    <3>1. CASE n = logId
      <4>1. m = logId /\ i < j
        BY <1>0, <1>1, <2>1, <3>1 DEF Numbered, LogTypes
      <4>2. i \in 1 .. Len(old) /\ (j \in 1 .. Len(old) \/ j = Len(old) + 1)
        BY <2>1, <2>3, <3>1, <4>1
      <4>3. files'[n][i] = old[i] /\ files'[m][j] = new[j]
        BY <2>1, <2>3, <3>1, <4>1, <4>2
      <4>4. CASE j \in 1 .. Len(old)
        <5>1. old[i] < old[j]
          <6>1. /\ logId \in DOMAIN files /\ Len(old) = Len(files[logId])
                /\ old[i] = files[logId][i] /\ old[j] = files[logId][j]
            BY <2>4, <4>2, <4>4
          <6> QED  BY <1>0, <4>1, <4>2, <4>4, <6>1 DEF L!InOrder, L!Existing
        <5> QED  BY <2>3, <4>3, <4>4, <5>1
      <4>5. CASE j = Len(old) + 1
        BY <2>3, <2>8, <4>2, <4>3, <4>5
      <4> QED  BY <4>2, <4>4, <4>5
    <3>2. CASE n # logId
      <4>1. n \in DOMAIN files /\ files'[n] = files[n]
        BY <2>1, <3>2
      <4>2. CASE m # logId
        <5>1. m \in DOMAIN files /\ files'[m] = files[m]
          BY <2>1, <4>2
        <5> QED  BY <1>0, <4>1, <5>1 DEF L!InOrder, L!Existing
      <4>3. CASE m = logId
        <5>1. files'[m] = new /\ n < m /\ ~cleared
          BY <2>1, <3>2, <4>3
        <5>2. CASE j \in 1 .. Len(old)
          <6>1. /\ logId \in DOMAIN files /\ Len(old) = Len(files[logId])
                /\ new[j] = files[logId][j]
            BY <2>3, <2>4, <5>2
          <6> QED  BY <1>0, <4>1, <4>3, <5>1, <5>2, <6>1 DEF L!InOrder, L!Existing
        <5>3. CASE j = Len(old) + 1
          BY <2>3, <2>7, <4>1, <5>1, <5>3
        <5> QED  BY <2>3, <5>1, <5>2, <5>3
      <4> QED  BY <4>2, <4>3
    <3> QED  BY <3>1, <3>2
  <2> QED  BY <2>5, <2>6, <2>9, <2>10 DEF LogInv
<1> QED  BY <1>2, <1>3 DEF L!Write, L!Existing

LEMMA LogStep == ASSUME LogInv, [L!Next]_(L!vars) PROVE LogInv'
<1>0. /\ LogTypes /\ Numbered /\ LinesInOrder /\ L!InOrder
      /\ Len(queue) \in Nat /\ \A j \in 1 .. Len(queue) : queue[j] \in Nat
  <2>1. LogTypes /\ Numbered /\ LinesInOrder /\ L!InOrder
    BY DEF LogInv
  <2> QED  BY <2>1, LenProperties, ElementOfSeq DEF LogTypes
<1>1. CASE L!Boot
  <2>1. LogTypes' /\ Numbered'
    BY <1>0, <1>1 DEF L!Boot, LogTypes, Numbered
  <2>2. LinesInOrder' /\ L!InOrder'
    BY <1>0, <1>1 DEF L!Boot, LinesInOrder, L!InOrder, L!Existing
  <2> QED  BY <2>1, <2>2 DEF LogInv
<1>2. CASE L!RemoveOldLog
  BY <1>2, LogGoes DEF L!RemoveOldLog
<1>3. CASE L!OpenLog
  <2>1. LogTypes' /\ Numbered'
    BY <1>0, <1>3 DEF L!OpenLog, LogTypes, Numbered
  <2>2. LinesInOrder' /\ L!InOrder'
    BY <1>0, <1>3 DEF L!OpenLog, LinesInOrder, L!InOrder, L!Existing
  <2> QED  BY <2>1, <2>2 DEF LogInv
<1>4. CASE L!Log
  <2>1. /\ queue' = Append(queue, lines + 1) /\ lines' = lines + 1
        /\ UNCHANGED <<nextId, files, logStage, logId, popped, boots, written, cleared>>
    BY <1>4 DEF L!Log
  <2>2. /\ queue' \in Seq(Nat) /\ Len(queue') = Len(queue) + 1
        /\ \A i \in 1 .. Len(queue) : queue'[i] = queue[i]
        /\ queue'[Len(queue) + 1] = lines + 1 /\ lines \in Nat
    <3>1. queue \in Seq(Nat) /\ lines \in Nat /\ lines + 1 \in Nat
      BY <1>0 DEF LogTypes
    <3> QED  BY <2>1, <3>1, AppendProperties
  <2>3. LogTypes' /\ Numbered' /\ L!InOrder'
    BY <1>0, <2>1, <2>2 DEF LogTypes, Numbered, L!InOrder, L!Existing
  <2>4. \A j \in 1 .. Len(queue') : j \in 1 .. Len(queue) \/ j = Len(queue) + 1
    BY <1>0, <2>2
  <2>5. LinesInOrder'
    <3>1. \A n \in DOMAIN files : \A i \in 1 .. Len(files[n]) :
            files[n] \in Seq(Nat) /\ files[n][i] \in Nat
      <4>1. \A n \in DOMAIN files : files[n] \in Seq(Nat)
        BY <1>0 DEF LogTypes
      <4> QED  BY <4>1, ElementOfSeq
    <3>2. \A n \in DOMAIN files' : \A i \in 1 .. Len(files'[n]) :
            /\ files'[n][i] <= lines'
            /\ popped' # 0 => files'[n][i] < popped'
            /\ \A j \in 1 .. Len(queue') : files'[n][i] < queue'[j]
      BY <1>0, <2>1, <2>2, <2>4, <3>1 DEF LinesInOrder
    <3>3. popped' <= lines' /\ \A j \in 1 .. Len(queue') : popped' < queue'[j] /\ queue'[j] <= lines'
      BY <1>0, <2>1, <2>2, <2>4 DEF LinesInOrder, LogTypes
    <3>4. \A i, j \in 1 .. Len(queue') : i < j => queue'[i] < queue'[j]
      <4> TAKE i, j \in 1 .. Len(queue')
      <4>1. CASE i \in 1 .. Len(queue) /\ j \in 1 .. Len(queue)
        BY <1>0, <2>2, <4>1 DEF LinesInOrder
      <4>2. CASE i \in 1 .. Len(queue) /\ j = Len(queue) + 1
        <5>1. queue'[i] \in Nat /\ queue'[i] <= lines /\ queue'[j] = lines + 1
          BY <1>0, <2>2, <4>2 DEF LinesInOrder
        <5> QED  BY <2>2, <5>1
      <4>3. CASE i = Len(queue) + 1
        BY <1>0, <2>2, <4>3
      <4> QED  BY <2>4, <4>1, <4>2, <4>3
    <3> QED  BY <3>2, <3>3, <3>4 DEF LinesInOrder
  <2> QED  BY <2>3, <2>5 DEF LogInv
<1>5. CASE L!Pop
  <2>1. /\ popped = 0 /\ queue # <<>> /\ popped' = Head(queue) /\ queue' = Tail(queue)
        /\ UNCHANGED <<nextId, files, logStage, logId, boots, lines, written, cleared>>
    BY <1>5 DEF L!Pop
  <2>2. /\ Len(queue) > 0 /\ popped' = queue[1] /\ queue' \in Seq(Nat)
        /\ Len(queue') = Len(queue) - 1
        /\ \A j \in 1 .. Len(queue') : queue'[j] = queue[j + 1] /\ j + 1 \in 1 .. Len(queue)
    <3>1. queue \in Seq(Nat) /\ Len(queue) > 0
      BY <1>0, <2>1, EmptySeq DEF LogTypes
    <3>2. Tail(queue) \in Seq(Nat) /\ Len(Tail(queue)) = Len(queue) - 1
          /\ \A j \in 1 .. Len(Tail(queue)) : Tail(queue)[j] = queue[j + 1]
      BY <2>1, <3>1, HeadTailProperties
    <3>3. Head(queue) = queue[1]
      OBVIOUS
    <3> QED  BY <1>0, <2>1, <3>1, <3>2, <3>3
  <2>3. LogTypes' /\ Numbered' /\ L!InOrder'
    BY <1>0, <2>1, <2>2 DEF LogTypes, Numbered, L!InOrder, L!Existing
  <2>4. LinesInOrder'
    BY <1>0, <2>1, <2>2 DEF LinesInOrder
  <2> QED  BY <2>3, <2>4 DEF LogInv
<1>6. CASE L!Write
  BY <1>6, WriteKeeps
<1>7. ASSUME NEW n \in 1 .. MaxBoots, L!Delete(n)
      PROVE  LogInv'
  BY <1>7, LogGoes DEF L!Delete
<1>8. CASE L!PowerOff \/ L!ClearSettings
  <2>1. /\ logStage' = "off" /\ logId' = 0 /\ queue' = <<>> /\ popped' = 0 /\ Len(queue') = 0
        /\ nextId' \in Nat \ {0} /\ cleared' \in BOOLEAN
        /\ ~cleared' => ~cleared /\ nextId' = nextId
        /\ UNCHANGED <<files, boots, lines, written>>
    <3>1. CASE L!PowerOff
      BY <1>0, <3>1 DEF L!PowerOff, L!Off, LogTypes
    <3>2. CASE L!ClearSettings
      BY <1>0, <3>2 DEF L!ClearSettings, L!Off, LogTypes
    <3> QED  BY <1>8, <3>1, <3>2
  <2>2. LogTypes' /\ Numbered'
    BY <1>0, <2>1 DEF LogTypes, Numbered
  <2>3. LinesInOrder' /\ L!InOrder'
    <3>1. 0 <= lines /\ \A n \in DOMAIN files : \A i \in 1 .. Len(files[n]) : files[n][i] <= lines
      BY <1>0 DEF LinesInOrder, LogTypes
    <3>2. LinesInOrder'
      BY <2>1, <3>1 DEF LinesInOrder
    <3>3. L!InOrder'
      BY <1>0, <2>1 DEF L!InOrder, L!Existing
    <3> QED  BY <3>2, <3>3
  <2> QED  BY <2>2, <2>3 DEF LogInv
<1>9. CASE UNCHANGED L!vars
  <2>1. UNCHANGED <<nextId, files, logStage, logId, queue, popped, boots, lines, written, cleared>>
    BY <1>9 DEF L!vars
  <2>2. LogTypes' /\ Numbered'
    BY <1>0, <2>1 DEF LogTypes, Numbered
  <2>3. LinesInOrder' /\ L!InOrder'
    BY <1>0, <2>1 DEF LinesInOrder, L!InOrder, L!Existing
  <2> QED  BY <2>2, <2>3 DEF LogInv
<1> QED  BY <1>1, <1>2, <1>3, <1>4, <1>5, <1>6, <1>7, <1>8, <1>9 DEF L!Next

(***************************************************************************)
(* A set of numbers that is not empty has a least one.                     *)
(***************************************************************************)
LEMMA LeastExists ==
  ASSUME NEW T, T \subseteq Nat, T # {}
  PROVE  \E x \in T : \A y \in T : x <= y
<1>1. PICK x \in T : \A y \in T : ~ (<<y, x>> \in OpToRel(<, Nat))
  BY WFMin, NatLessThanWellFounded, Zenon
<1>2. \A y \in T : ~ (y < x)
  BY <1>1 DEF OpToRel
<1> QED  BY <1>2

(***************************************************************************)
(* The file that a boot removes has the lowest number, and so the oldest   *)
(* boot.                                                                   *)
(***************************************************************************)
LEMMA OldestIs ==
  ASSUME LogTypes, DOMAIN files # {}
  PROVE  L!Oldest \in DOMAIN files /\ \A m \in DOMAIN files : L!Oldest <= m
BY LeastExists DEF LogTypes, L!Oldest, L!Existing

LEMMA LogRemoves == ASSUME LogInv, [L!Next]_(L!vars) PROVE L!RemovesOldest
<1>0. LogTypes /\ Numbered
  BY DEF LogInv
<1> SUFFICES ASSUME logStage = "begin", ~cleared,
                    NEW gone \in DOMAIN files \ DOMAIN files', NEW kept \in DOMAIN files'
             PROVE  written[gone] < written[kept]
  BY DEF L!RemovesOldest, L!Existing
<1>1. L!RemoveOldLog
  <2>1. ~UNCHANGED files
    OBVIOUS
  <2> QED
    BY <2>1 DEF L!Next, L!vars, L!Boot, L!OpenLog, L!Log, L!Pop, L!Write, L!Delete, L!PowerOff,
       L!ClearSettings
<1>2. L!Oldest \in DOMAIN files /\ \A m \in DOMAIN files : L!Oldest <= m
  BY <1>0, OldestIs
<1>3. DOMAIN files' = DOMAIN files \ {L!Oldest}
  BY <1>1 DEF L!RemoveOldLog, L!Without
<1>4. gone = L!Oldest /\ kept \in DOMAIN files /\ kept # gone /\ gone <= kept
  BY <1>2, <1>3
<1> QED  BY <1>0, <1>4 DEF Numbered, LogTypes


-----------------------------------------------------------------------------
(* A switch that bounces: proofs                                           *)

(***************************************************************************)
(* Integer division, by a width that is not fixed.                         *)
(***************************************************************************)
LEMMA SmallMultiple ==
  ASSUME NEW m \in Nat \ {0}, NEW z \in Int, -m < m * z, m * z < m
  PROVE  z = 0
<1>1. z >= 1 => m * z >= m
  OBVIOUS
<1>2. z <= -1 => m * z <= -m
  OBVIOUS
<1> QED  BY <1>1, <1>2

LEMMA Division ==
  ASSUME NEW m \in Nat \ {0}, NEW n \in Int
  PROVE  /\ n \div m \in Int /\ n % m \in 0 .. m - 1
         /\ n = m * (n \div m) + (n % m)
<1>1. n % m \in 0 .. m - 1
  OBVIOUS
<1>2. n = m * (n \div m) + (n % m) /\ n \div m \in Int
  OBVIOUS
<1> QED  BY <1>1, <1>2

LEMMA Remainder ==
  ASSUME NEW m \in Nat \ {0}, NEW x \in 0 .. m - 1, NEW c \in Int
  PROVE  (x + m * c) % m = x
<1> PICK n \in Int : n = x + m * c
  OBVIOUS
<1> PICK q \in Int, r \in 0 .. m - 1 : n = m * q + r /\ r = n % m
  BY Division
<1>1. m * (c - q) = r - x
  OBVIOUS
<1>2. c - q = 0
  <2>1. c - q \in Int /\ -m < m * (c - q) /\ m * (c - q) < m
    BY <1>1
  <2> QED  BY <2>1, SmallMultiple
<1>3. r = x
  BY <1>2
<1> QED  BY <1>3

(***************************************************************************)
(* An int of millis() is the uptime but for whole turns of its clock, and  *)
(* there is one int for each uptime within half a turn.                    *)
(***************************************************************************)
LEMMA SignedIs ==
  ASSUME NEW n \in Int
  PROVE  /\ G!Signed(n) \in -Half .. Half - 1
         /\ \E c \in Int : G!Signed(n) = n + (2 * Half) * c
<1> PICK m \in Nat \ {0} : m = 2 * Half /\ Half \in Nat \ {0}
  BY PartsAssumption DEF G!GpioAssumption
<1> PICK q \in Int, r \in 0 .. m - 1 : n + Half = m * q + r /\ r = (n + Half) % m
  <2>1. n + Half \in Int
    OBVIOUS
  <2> QED  BY <2>1, Division
<1>1. G!Signed(n) = r - Half
  BY DEF G!Signed
<1>2. r - Half \in -Half .. Half - 1
  OBVIOUS
<1>3. r - Half = n + m * (-q) /\ -q \in Int
  OBVIOUS
<1>4. \E c \in Int : G!Signed(n) = n + m * c
  BY <1>1, <1>3
<1> QED  BY <1>1, <1>2, <1>4

LEMMA SignedOf ==
  ASSUME NEW x \in -Half .. Half - 1, NEW c \in Int
  PROVE  G!Signed(x + (2 * Half) * c) = x
<1> PICK m \in Nat \ {0} : m = 2 * Half /\ Half \in Nat \ {0}
  BY PartsAssumption DEF G!GpioAssumption
<1>1. x + Half \in 0 .. m - 1
  OBVIOUS
<1>2. (x + Half + m * c) % m = x + Half
  BY <1>1, Remainder
<1>3. x + m * c + Half = x + Half + m * c
  OBVIOUS
<1> QED  BY <1>2, <1>3 DEF G!Signed

LEMMA MillisIs ==
  ASSUME NEW t \in Nat
  PROVE  /\ G!Millis(t) \in Nat /\ \E c \in Int : G!Millis(t) = t + (2 * Half) * c
         /\ t < Half => G!Millis(t) = t
<1> PICK m \in Nat \ {0} : m = 2 * Half /\ Half \in Nat \ {0}
  BY PartsAssumption DEF G!GpioAssumption
<1> PICK q \in Int, r \in 0 .. m - 1 : t = m * q + r /\ r = t % m
  <2>1. t \in Int
    OBVIOUS
  <2> QED  BY <2>1, Division
<1>1. G!Millis(t) = r
  BY DEF G!Millis
<1>2. r = t + m * (-q) /\ -q \in Int
  OBVIOUS
<1>3. \E c \in Int : G!Millis(t) = t + m * c
  BY <1>1, <1>2
<1>4. ASSUME t < Half PROVE t % m = t
  <2>1. t \in 0 .. m - 1 /\ 0 \in Int /\ t + m * 0 = t
    BY <1>4
  <2>2. (t + m * 0) % m = t
    BY <2>1, Remainder
  <2> QED  BY <2>1, <2>2
<1>5. G!Millis(t) \in Nat
  BY <1>1
<1>6. t < Half => G!Millis(t) = t
  BY <1>4 DEF G!Millis
<1> QED  BY <1>3, <1>5, <1>6


LEMMA GpioInit == ASSUME G!Init PROVE GpioInv
<1>1. uptime \in Nat /\ onSince = uptime /\ ~wasSwitchOn /\ ~pushed /\ lastOnTime = 0
  BY PartsAssumption DEF G!Init, G!GpioAssumption
<1>2. wideTime \in BOOLEAN /\ wasSwitchOn \in BOOLEAN /\ pushed \in BOOLEAN
  BY DEF G!Init
<1>3. onSince <= uptime /\ onSince \in Nat /\ lastOnTime \in Int
  BY <1>1
<1> QED  BY <1>1, <1>2, <1>3 DEF GpioInv

LEMMA SignedMillis == ASSUME NEW t \in Nat PROVE G!Signed(G!Millis(t)) \in Int
<1>1. Half \in Nat
  BY PartsAssumption DEF G!GpioAssumption
<1>2. G!Millis(t) \in Int
  BY MillisIs
<1> QED  BY <1>1, <1>2, SignedIs

LEMMA GpioStep == ASSUME GpioInv, [G!Next]_(G!vars) PROVE GpioInv'
<1>1. ASSUME NEW on \in BOOLEAN, NEW gap \in 1 .. MaxGap, G!HandleEvents(on, gap)
      PROVE  GpioInv'
  <2> PICK t : t = uptime + gap
    OBVIOUS
  <2>1. MaxGap \in Nat
    BY PartsAssumption DEF G!GpioAssumption
  <2>2. t \in Nat /\ uptime <= t /\ uptime' = t
    BY <1>1, <2>1 DEF GpioInv, G!HandleEvents
  <2>3. /\ onSince' = IF on /\ ~wasSwitchOn THEN t ELSE onSince
        /\ G!UpdateButtonState(on, t) /\ wideTime' = wideTime
    BY <1>1 DEF G!HandleEvents
  <2>4. onSince' \in Nat /\ onSince' <= uptime'
    BY <2>2, <2>3 DEF GpioInv
  <2>5. wasSwitchOn' = on /\ wasSwitchOn' \in BOOLEAN /\ pushed' \in BOOLEAN
    BY <2>3 DEF G!UpdateButtonState
  <2>6. wideTime' \in BOOLEAN
    BY <2>3 DEF GpioInv
  <2>7. on => lastOnTime' = G!Signed(G!Millis(onSince'))
    BY <2>3 DEF G!UpdateButtonState, GpioInv
  <2>8. lastOnTime' \in Int
    <3>1. CASE on
      <4>1. G!Signed(G!Millis(onSince')) \in Int
        BY <2>4, SignedMillis
      <4> QED  BY <2>7, <3>1, <4>1
    <3>2. CASE ~on
      BY <2>3, <3>2 DEF G!UpdateButtonState
    <3> QED  BY <3>1, <3>2
  <2> QED  BY <2>2, <2>4, <2>5, <2>6, <2>7, <2>8 DEF GpioInv
<1>2. CASE G!Register
  <2>1. /\ wasSwitchOn' = FALSE /\ pushed' = FALSE /\ lastOnTime' = 0
        /\ wideTime' = wideTime /\ uptime' = uptime /\ onSince' = onSince
    BY <1>2 DEF G!Register
  <2>2. wideTime' \in BOOLEAN /\ wasSwitchOn' \in BOOLEAN /\ pushed' \in BOOLEAN
    BY <2>1, Zenon DEF GpioInv
  <2>3. /\ uptime' \in Nat /\ onSince' \in Nat /\ onSince' <= uptime' /\ lastOnTime' \in Int
        /\ ~wasSwitchOn'
    BY <2>1 DEF GpioInv
  <2> QED  BY <2>2, <2>3 DEF GpioInv
<1>3. CASE UNCHANGED G!vars
  BY <1>3 DEF G!vars, GpioInv
<1> QED  BY <1>1, <1>2, <1>3 DEF G!Next


(***************************************************************************)
(* The ints of two uptimes less than half a turn apart differ, as ints, by *)
(* the time between them.                                                  *)
(***************************************************************************)
LEMMA Difference ==
  ASSUME NEW s \in Nat, NEW t \in Nat, s <= t, t - s < Half
  PROVE  G!Signed(G!Signed(G!Millis(t)) - G!Signed(G!Millis(s))) = t - s
<1> PICK m \in Nat \ {0} : m = 2 * Half /\ Half \in Nat \ {0}
  BY PartsAssumption DEF G!GpioAssumption
<1>1. ASSUME NEW u \in Nat
      PROVE  \E c \in Int : G!Signed(G!Millis(u)) = u + m * c
  <2>1. PICK x \in Int : x = G!Millis(u)
    BY MillisIs
  <2>2. PICK c \in Int : x = u + m * c
    BY <2>1, MillisIs
  <2>3. PICK d \in Int : G!Signed(x) = x + m * d
    BY SignedIs
  <2>4. x + m * d = u + m * (c + d) /\ c + d \in Int
    BY <2>2
  <2> QED  BY <2>1, <2>3, <2>4
<1>2. PICK c \in Int : G!Signed(G!Millis(t)) = t + m * c
  BY <1>1
<1>3. PICK d \in Int : G!Signed(G!Millis(s)) = s + m * d
  BY <1>1
<1>4. G!Signed(G!Millis(t)) - G!Signed(G!Millis(s)) = (t - s) + m * (c - d) /\ c - d \in Int
  BY <1>2, <1>3
<1>5. t - s \in -Half .. Half - 1
  OBVIOUS
<1> QED  BY <1>4, <1>5, SignedOf

(***************************************************************************)
(* An int of millis() is the uptime itself before it reaches the sign bit. *)
(***************************************************************************)
LEMMA Early ==
  ASSUME NEW t \in Nat, t < Half
  PROVE  G!Millis(t) = t /\ G!Signed(t) = t
<1>1. Half \in Nat \ {0}
  BY PartsAssumption DEF G!GpioAssumption
<1>2. t \in -Half .. Half - 1 /\ t + (2 * Half) * 0 = t /\ 0 \in Int
  BY <1>1
<1>3. G!Signed(t + (2 * Half) * 0) = t
  BY <1>2, SignedOf
<1> QED  BY <1>2, <1>3, MillisIs

LEMMA GpioPushes ==
  ASSUME GpioInv, NEW on \in BOOLEAN, NEW gap \in 1 .. MaxGap, G!HandleEvents(on, gap),
         \/ uptime' < Half
         \/ ~wideTime /\ G!Signed(G!Millis(onSince)) # -1 /\ uptime' - onSince < Half
  PROVE  pushed' <=> wasSwitchOn /\ ~wasSwitchOn' /\ uptime' - onSince > IgnoreDuration
<1> PICK t : t = uptime + gap
  OBVIOUS
<1>1. MaxGap \in Nat /\ IgnoreDuration \in Nat
  BY PartsAssumption DEF G!GpioAssumption
<1>2. /\ t \in Nat /\ uptime' = t /\ onSince \in Nat /\ onSince <= t /\ t - onSince \in Nat
      /\ G!UpdateButtonState(on, t)
  BY <1>1 DEF GpioInv, G!HandleEvents
<1>3. wasSwitchOn' = on
  BY <1>2 DEF G!UpdateButtonState
<1>4. CASE ~(wasSwitchOn /\ ~on)
  <2>1. ~pushed'
    BY <1>2, <1>4 DEF G!UpdateButtonState
  <2> QED  BY <1>3, <1>4, <2>1
<1>5. CASE wasSwitchOn /\ ~on
  <2> PICK last \in Int : last = G!Signed(G!Millis(onSince))
    BY <1>2, SignedMillis
  <2> PICK now : now = IF wideTime THEN G!Millis(t) ELSE G!Signed(G!Millis(t))
    OBVIOUS
  <2>1. lastOnTime = last
    BY <1>5 DEF GpioInv
  <2>2. pushed' <=> last # -1 /\ G!LongerThanBounce(now, last)
    BY <1>2, <1>5, <2>1 DEF G!UpdateButtonState
  <2>3. last # -1 /\ (G!LongerThanBounce(now, last) <=> t - onSince > IgnoreDuration)
    <3>1. CASE t < Half
      <4>0. onSince < Half /\ t - onSince < Half
        BY <1>1, <1>2, <3>1, PartsAssumption DEF G!GpioAssumption
      <4>1. last = onSince /\ now = t
        <5>1. G!Millis(onSince) = onSince /\ G!Signed(onSince) = onSince
          BY <1>2, <4>0, Early
        <5>2. G!Millis(t) = t /\ G!Signed(t) = t
          BY <1>2, <3>1, Early
        <5> QED  BY <5>1, <5>2
      <4>2. G!Signed(t - onSince) = t - onSince
        BY <1>2, <4>0, Early
      <4>3. last # -1
        BY <1>2, <4>1
      <4> QED  BY <1>1, <1>2, <4>1, <4>2, <4>3 DEF G!LongerThanBounce
    <3>2. CASE ~wideTime /\ last # -1 /\ t - onSince < Half
      <4>1. G!Signed(now - last) = t - onSince
        BY <1>2, <3>2, Difference
      <4> QED  BY <1>1, <1>2, <3>2, <4>1 DEF G!LongerThanBounce
    <3> QED  BY <1>2, <3>1, <3>2
  <2> QED  BY <1>2, <1>3, <1>5, <2>2, <2>3
<1> QED  BY <1>4, <1>5


-----------------------------------------------------------------------------
(* A button in JSON                                                        *)

(***************************************************************************)
(* Bytes lie apart in a text when each has its own two places.             *)
(***************************************************************************)
Apart(places) ==
  /\ places \in Seq(Nat \ {0}) /\ Len(places) > 0
  /\ \A j, k \in DOMAIN places : j < k => places[j] + 1 < places[k]

LEMMA ApartInTexts == Apart(Json!AddressPlaces) /\ Apart(Json!UuidPlaces)
<1>1. Apart(Json!AddressPlaces)
  <2> DEFINE p == Json!AddressPlaces
  <2>1. p \in Seq(Nat \ {0}) /\ Len(p) = 6 /\ DOMAIN p = 1 .. 6
    BY DEF Json!AddressPlaces
  <2>2. \A k \in 1 .. 5 : p[k] + 1 < p[k + 1]
    BY DEF Json!AddressPlaces
  <2>3. \A j, k \in 1 .. 6 : j < k => p[j] + 1 < p[k]
    BY DEF Json!AddressPlaces
  <2> QED  BY <2>1, <2>3 DEF Apart
<1>2. Apart(Json!UuidPlaces)
  <2> DEFINE p == Json!UuidPlaces
  <2>1. p \in Seq(Nat \ {0}) /\ Len(p) = 16 /\ DOMAIN p = 1 .. 16
    BY DEF Json!UuidPlaces
  <2>3. \A j, k \in 1 .. 16 : j < k => p[j] + 1 < p[k]
    BY SMTT(60) DEF Json!UuidPlaces
  <2> QED  BY <2>1, <2>3 DEF Apart
<1> QED  BY <1>1, <1>2

LEMMA TextReads ==
  ASSUME NEW places, Apart(places), NEW bytes \in [DOMAIN places -> Json!UInt8],
         NEW separator \in Nat
  PROVE  Json!Scanned(Json!Printed(bytes, separator, places), separator, places) = bytes
<1> DEFINE text == Json!Printed(bytes, separator, places)
           length == Json!TextLength(places)
           high == Json!Firsts(places)
           low == Json!Seconds(places)
<1>1. /\ DOMAIN places = 1 .. Len(places) /\ Len(places) \in Nat \ {0}
      /\ \A k \in DOMAIN places : places[k] \in Nat \ {0}
  BY DEF Apart
<1>2. \A j, k \in DOMAIN places :
        /\ places[j] = places[k] => j = k
        /\ places[j] # places[k] + 1
  <2> TAKE j, k \in DOMAIN places
  <2>1. places[j] \in Nat /\ places[k] \in Nat /\ j \in Int /\ k \in Int
    BY <1>1
  <2>2. j < k \/ k < j \/ j = k
    BY <2>1
  <2>3. (j < k => places[j] + 1 < places[k]) /\ (k < j => places[k] + 1 < places[j])
    BY DEF Apart
  <2> QED  BY <2>1, <2>2, <2>3
<1>3. length \in Nat /\ \A k \in DOMAIN places : places[k] \in 1 .. length /\ places[k] + 1 \in 1 .. length
  <2>1. Len(places) \in DOMAIN places /\ length = places[Len(places)] + 1
    BY <1>1 DEF Json!TextLength
  <2>2. ASSUME NEW k \in DOMAIN places PROVE places[k] <= places[Len(places)]
    <3>1. k = Len(places) \/ k < Len(places)
      BY <1>1
    <3>2. k < Len(places) => places[k] + 1 < places[Len(places)]
      BY <2>1 DEF Apart
    <3> QED  BY <1>1, <2>1, <3>1, <3>2
  <2> QED  BY <1>1, <2>1, <2>2
<1>4. \A k \in DOMAIN places :
        Json!ByteAt(places, places[k]) = k /\ Json!ByteAt(places, places[k] + 1) = k
  <2> TAKE k \in DOMAIN places
  <2>1. \A j \in DOMAIN places : places[k] \in {places[j], places[j] + 1} <=> j = k
    BY <1>2
  <2>2. \A j \in DOMAIN places : places[k] + 1 \in {places[j], places[j] + 1} <=> j = k
    BY <1>1, <1>2
  <2> QED  BY <2>1, <2>2 DEF Json!ByteAt
<1>5. \A k \in DOMAIN places :
        /\ text[places[k]] = bytes[k] \div 16
        /\ text[places[k] + 1] = bytes[k] % 16
  <2> TAKE k \in DOMAIN places
  <2>1. places[k] \in high /\ places[k] + 1 \in low /\ places[k] + 1 \notin high
    BY <1>2 DEF Json!Firsts, Json!Seconds
  <2> QED  BY <1>3, <1>4, <2>1 DEF Json!Printed
<1>6. \A i \in 1 .. length : i \notin high \cup low => text[i] = separator
  BY DEF Json!Printed
<1>7. \A k \in DOMAIN places : bytes[k] \div 16 \in 0 .. 15 /\ bytes[k] % 16 \in 0 .. 15
        /\ 16 * (bytes[k] \div 16) + (bytes[k] % 16) = bytes[k]
  <2> TAKE k \in DOMAIN places
  <2>1. bytes[k] \in Json!UInt8
    OBVIOUS
  <2> QED  BY <2>1 DEF Json!UInt8
<1>8. \A i \in high \cup low : Json!IsXDigit(text[i])
  <2> TAKE i \in high \cup low
  <2>1. PICK k \in DOMAIN places : i = places[k] \/ i = places[k] + 1
    BY DEF Json!Firsts, Json!Seconds
  <2>2. text[i] \in 0 .. 15
    BY <1>5, <1>7, <2>1
  <2> QED  BY <2>2 DEF Json!IsXDigit
<1>9. Len(text) = length
  <2>1. DOMAIN text = 1 .. length
    BY DEF Json!Printed
  <2>2. ASSUME NEW i \in 1 .. length PROVE text[i] \in Int
    <3>1. CASE i \in high \cup low
      <4>1. PICK k \in DOMAIN places : i = places[k] \/ i = places[k] + 1
        BY <3>1 DEF Json!Firsts, Json!Seconds
      <4> QED  BY <1>5, <1>7, <4>1
    <3>2. CASE i \notin high \cup low
      BY <1>6, <3>2
    <3> QED  BY <3>1, <3>2
  <2>3. text = [i \in 1 .. length |-> text[i]]
    BY DEF Json!Printed
  <2> HIDE DEF text, length
  <2>4. text \in Seq(Int)
    <3>1. text \in [1 .. length -> Int]
      BY <2>2, <2>3
    <3> QED  BY <1>3, <3>1, SeqDef
  <2> QED  BY <1>3, <2>1, <2>4
<1>10. \A k \in DOMAIN places :
         16 * Json!Digit(text[places[k]]) + Json!Digit(text[places[k] + 1]) = bytes[k]
  <2> TAKE k \in DOMAIN places
  <2> HIDE DEF text
  <2> DEFINE a == bytes[k] \div 16
             b == bytes[k] % 16
  <2>1. a \in 0 .. 15 /\ b \in 0 .. 15 /\ 16 * a + b = bytes[k]
    BY <1>7
  <2>2. text[places[k]] = a /\ text[places[k] + 1] = b
    BY <1>5
  <2> HIDE DEF a, b
  <2>3. a % 16 = a /\ b % 16 = b
    BY <2>1
  <2> QED  BY <2>1, <2>2, <2>3 DEF Json!Digit
<1>11. Json!Scanned(text, separator, places) =
         [k \in DOMAIN places |-> 16 * Json!Digit(text[places[k]]) + Json!Digit(text[places[k] + 1])]
  <2> HIDE DEF text
  <2> QED  BY <1>6, <1>8, <1>9 DEF Json!Scanned
<1> HIDE DEF text
<1>12. [k \in DOMAIN places |-> 16 * Json!Digit(text[places[k]]) + Json!Digit(text[places[k] + 1])] = bytes
  BY <1>10
<1> USE DEF text
<1> QED  BY <1>11, <1>12

LEMMA ButtonReadsBack ==
  ASSUME NEW d \in Json!KButtons
  PROVE  Json!ConvertButtonJson(Json!FillButtonJson(d)) = d
<1> DEFINE Beacons == [type : {"beacon"}, address : [1 .. 6 -> Json!UInt8],
                       uuid : [1 .. 16 -> Json!UInt8], major : Json!UInt16, minor : Json!UInt16]
           Others == [type : {"m5", "gpio"}, id : Json!UInt8]
<1>3. d \in Beacons \/ d \in Others
  BY DEF Json!KButtons
<1>1. CASE d \in Beacons
  <2>0. /\ d.type = "beacon" /\ d.address \in [1 .. 6 -> Json!UInt8] /\ d.uuid \in [1 .. 16 -> Json!UInt8]
        /\ d.major \in Json!UInt16 /\ d.minor \in Json!UInt16
    BY <1>1
  <2>1. DOMAIN Json!AddressPlaces = 1 .. 6 /\ DOMAIN Json!UuidPlaces = 1 .. 16
    BY DEF Json!AddressPlaces, Json!UuidPlaces
  <2>2. Json!DeserializeAddressToString(Json!SerializeAddressToString(d.address)) = d.address
    <3>1. Json!Colon \in Nat
      BY DEF Json!Colon
    <3> QED  BY <2>0, <2>1, <3>1, ApartInTexts, TextReads, Zenon
               DEF Json!DeserializeAddressToString, Json!SerializeAddressToString
  <2>3. Json!DeserializeUuidToString(Json!SerializeUuidToString(d.uuid)) = d.uuid
    <3>1. Json!Dash \in Nat
      BY DEF Json!Dash
    <3> QED  BY <2>0, <2>1, <3>1, ApartInTexts, TextReads, Zenon
               DEF Json!DeserializeUuidToString, Json!SerializeUuidToString
  <2> DEFINE b == [address |-> Json!SerializeAddressToString(d.address),
                   uuid |-> Json!SerializeUuidToString(d.uuid),
                   major |-> d.major, minor |-> d.minor]
             json == [apple_i_beacon |-> b]
  <2>4. Json!FillButtonJson(d) = json
    BY <2>0 DEF Json!FillButtonJson
  <2>5. DOMAIN json = {"apple_i_beacon"} /\ json["apple_i_beacon"] = b
    OBVIOUS
  <2>6. Json!HasMembers(json, "apple_i_beacon", {"address", "uuid", "major", "minor"})
    BY DEF Json!HasMembers
  <2>7. Json!AsUInt16(d.major) = d.major /\ Json!AsUInt16(d.minor) = d.minor
    BY <2>0 DEF Json!AsUInt16
  <2>8. /\ b.address = Json!SerializeAddressToString(d.address) /\ b.major = d.major
        /\ b.uuid = Json!SerializeUuidToString(d.uuid) /\ b.minor = d.minor
    OBVIOUS
  <2> HIDE DEF b, json
  <2>9. Json!ConvertButtonJson(json) =
          [type |-> "beacon",
           address |-> Json!DeserializeAddressToString(b.address),
           uuid |-> Json!DeserializeUuidToString(b.uuid),
           major |-> Json!AsUInt16(b.major), minor |-> Json!AsUInt16(b.minor)]
    BY <2>5, <2>6 DEF Json!ConvertButtonJson
  <2>10. d = [type |-> "beacon", address |-> d.address, uuid |-> d.uuid,
              major |-> d.major, minor |-> d.minor]
    <3>1. d = [type |-> d.type, address |-> d.address, uuid |-> d.uuid,
               major |-> d.major, minor |-> d.minor]
      BY <1>1, Zenon
    <3> QED  BY <2>0, <3>1
  <2> QED  BY <2>2, <2>3, <2>4, <2>7, <2>8, <2>9, <2>10
<1>2. CASE d \in Others
  <2>1. d.id % 256 = d.id /\ d = [type |-> d.type, id |-> d.id]
    BY <1>2 DEF Json!UInt8
  <2>2. CASE d.type = "m5"
    <3> DEFINE json == [m5_button |-> [id |-> d.id]]
    <3>1. Json!FillButtonJson(d) = json
      BY <2>2 DEF Json!FillButtonJson
    <3>2. DOMAIN json = {"m5_button"} /\ json["m5_button"].id = d.id
          /\ Json!HasMembers(json, "m5_button", {"id"})
      BY DEF Json!HasMembers
    <3> HIDE DEF json
    <3>3. Json!ConvertButtonJson(json) = [type |-> "m5", id |-> d.id % 256]
      BY <3>2 DEF Json!ConvertButtonJson
    <3> QED  BY <2>1, <2>2, <3>1, <3>3
  <2>3. CASE d.type = "gpio"
    <3> DEFINE json == [gpio_button |-> [id |-> d.id]]
    <3>1. Json!FillButtonJson(d) = json
      BY <2>3 DEF Json!FillButtonJson
    <3>2. DOMAIN json = {"gpio_button"} /\ json["gpio_button"].id = d.id
          /\ Json!HasMembers(json, "gpio_button", {"id"})
      BY DEF Json!HasMembers
    <3> HIDE DEF json
    <3>3. Json!ConvertButtonJson(json) = [type |-> "gpio", id |-> d.id % 256]
      BY <3>2 DEF Json!ConvertButtonJson
    <3> QED  BY <2>1, <2>3, <3>1, <3>3
  <2> QED  BY <1>2, <2>2, <2>3
<1> QED  BY <1>1, <1>2, <1>3

LEMMA ReadsItself ==
  ASSUME NEW b \in DOMAIN Data
  PROVE  F!Read({b}) = {b}
<1>1. {c \in DOMAIN Data : Data[c] = Json!ConvertButtonJson(Json!FillButtonJson(Data[b]))} = {b}
  <2>1. Json!ConvertButtonJson(Json!FillButtonJson(Data[b])) = Data[b]
    BY FlowAssumption, ButtonReadsBack
  <2> QED  BY <2>1, FlowAssumption
<1> DEFINE own(n) == {c \in DOMAIN Data : Data[c] = Json!ConvertButtonJson(Json!FillButtonJson(Data[n]))}
<1>2. TakenData = {<<n, own(n)>> : n \in DOMAIN Data}
  BY DEF TakenData, Json!Taken
<1>3. own(b) = {b}
  BY <1>1
<1> HIDE DEF own
<1>4. {p \in TakenData : p[1] \in {b}} = {<<b, {b}>>}
  BY <1>2, <1>3
<1>5. F!Read({b}) = UNION {p[2] : p \in {<<b, {b}>>}}
  BY <1>4 DEF F!Read
<1>6. {p[2] : p \in {<<b, {b}>>}} = {{b}}
  OBVIOUS
<1> QED  BY <1>5, <1>6

-----------------------------------------------------------------------------
(* The way of a command                                                    *)

(***************************************************************************)
(* A command, and an object of JSON, that do what the editor showed.       *)
(***************************************************************************)
OptionsHeld(o) ==
  /\ o = [cancel_all |-> o.cancel_all, tts |-> o.tts, deferrable |-> o.deferrable, lock |-> o.lock]
  /\ o.lock \in Int

Chosen(a) == \E p \in Payloads : \E o \in Options : a = [payload |-> p, options |-> o]

Fits(c, a) ==
  /\ c.type = a.payload.type /\ c.members = a.payload.members
  /\ OptionsHeld(c.options)
  /\ c.type \in F!WithOptions =>
       /\ c.options.cancel_all = a.options.cancel_all /\ c.options.tts = a.options.tts
       /\ c.options.deferrable = a.options.deferrable
       /\ \/ c.options.lock = a.options.lock
          \/ c.options.lock = 0 /\ F!Abs(a.options.lock) <= F!Threshold
  /\ c.type \notin F!WithOptions => c.options = F!NoOptions

JsonFits(json, a) ==
  /\ json.type = a.payload.type
  /\ F!Members[json.type] # {} =>
       json.type \in DOMAIN json.objects /\ json.objects[json.type] = a.payload.members
  /\ json.type \in F!WithOptions =>
       /\ json.cancel_all = {a.options.cancel_all} /\ json.deferrable = {a.options.deferrable}
       /\ json.tts_on_success = IF a.options.tts # "" THEN {a.options.tts} ELSE {}
       /\ \/ json.lock_duration_sec = {a.options.lock}
          \/ json.lock_duration_sec = {} /\ F!Abs(a.options.lock) <= F!Threshold

\* What the robot gets at a press.
WaitedFor(s) == IF Len(s) = 1 THEN F!WaitsFor(s[1]) ELSE F!WaitsFor(s[1]) \o F!WaitsFor(s[2])

Obeys(s, wanted) ==
  /\ [s[1].options EXCEPT !.lock = wanted.lock] = wanted
  /\ s[1].ok /\ known = robot =>
       WaitedFor(s) = IF wanted.lock > F!Threshold THEN <<wanted.lock>> ELSE << >>
  /\ ~s[1].ok => Len(s) = 1

Wanted(a) == IF a.payload.type \in F!Disabled THEN F!NoOptions ELSE a.options

Runs(s, a) ==
  /\ s # << >>
  /\ s[1].which = a.payload.type
  /\ s[1].members = a.payload.members
  /\ a.payload.type \notin {"shortcut", "set_emergency_stop"} => Obeys(s, Wanted(a))

FlowInv ==
  /\ button \in DOMAIN Data /\ robot \in RobotVersions
  /\ table = F!Unset \/ table.button = {button}
  /\ entry = F!Unset \/ entry.button = {button}
  /\ form # F!Unknown =>
       /\ Chosen(form)
       /\ table # F!Unset /\ Fits(table.command, form)
       /\ entry # F!Unset /\ JsonFits(entry.command, form)
  /\ pressed \in {button, Nobody}
  /\ pressed = button /\ form # F!Unknown => Runs(sent, form)

-----------------------------------------------------------------------------
(* The way of a command: proofs                                            *)

LEMMA ChoiceIs ==
  ASSUME NEW a, Chosen(a)
  PROVE  /\ a.payload \in Payloads /\ a.options \in Options
         /\ a.payload.type \in F!Types
         /\ a.payload.members = [m \in F!Members[a.payload.type] |-> a.payload.members[m]]
         /\ OptionsHeld(a.options)
<1>1. PICK p \in Payloads : \E o \in Options : a = [payload |-> p, options |-> o]
  BY DEF Chosen
<1>2. PICK o \in Options : a = [payload |-> p, options |-> o]
  BY <1>1
<1>3. a.payload = p /\ a.options = o
  BY <1>2
<1>4. F!FlowAssumption
  BY FlowAssumption
<1>5. /\ p.type \in F!Types /\ p.members = [m \in F!Members[p.type] |-> p.members[m]]
      /\ OptionsHeld(o)
  BY <1>4 DEF F!FlowAssumption, OptionsHeld
<1> QED  BY <1>3, <1>5

LEMMA GetIs == \A v, default : F!Get({v}, default) = v /\ F!Get({}, default) = default
<1>1. ASSUME NEW v, NEW default PROVE F!Get({v}, default) = v
  <2>1. (CHOOSE x \in {v} : TRUE) = v /\ {v} # {}
    OBVIOUS
  <2> QED  BY <2>1 DEF F!Get
<1> QED  BY <1>1 DEF F!Get

LEMMA TypesAre ==
  /\ F!Types = {"move_shelf", "return_shelf", "undock_shelf", "move_to_location", "return_home",
                "shortcut", "speak", "dock_any_shelf", "proceed", "cancel_command",
                "set_emergency_stop", "http_get", "http_post"}
  /\ F!Members["undock_shelf"] = {} /\ F!Members["return_home"] = {} /\ F!Members["proceed"] = {}
  /\ F!Members["cancel_command"] = {} /\ F!Members["set_emergency_stop"] = {}
BY DEF F!Types, F!Members

LEMMA NoOptionsAre == OptionsHeld(F!NoOptions) /\ F!NoOptions.lock = 0
BY DEF OptionsHeld, F!NoOptions

\* What the hub reads of an object is what the object says.
LEMMA Reads ==
  ASSUME NEW json, NEW a, Chosen(a), JsonFits(json, a), NEW c \in F!ConvertCommandJson(json)
  PROVE  Fits(c, a)
<1>1. json.type = a.payload.type /\ json.type \in F!Types
  BY ChoiceIs DEF JsonFits
<1>2. F!ReadMembers(json) = a.payload.members
  <2>1. CASE F!Members[json.type] = {}
    <3>1. a.payload.members = [m \in {} |-> a.payload.members[m]]
      BY <1>1, <2>1, ChoiceIs
    <3>2. F!ReadMembers(json) = [m \in {} |-> json.objects[json.type][m]]
      BY <2>1 DEF F!ReadMembers
    <3> QED  BY <3>1, <3>2
  <2>2. CASE F!Members[json.type] # {}
    <3>1. json.objects[json.type] = a.payload.members
      BY <2>2 DEF JsonFits
    <3> QED  BY <1>1, <3>1, ChoiceIs DEF F!ReadMembers
  <2> QED  BY <2>1, <2>2
<1>3. c = IF json.type \in F!WithOptions THEN F!ReadRunning(json) ELSE F!ReadPlain(json)
  BY <1>1 DEF F!ConvertCommandJson
<1>4. CASE json.type \in F!WithOptions
  <2> DEFINE o == F!ReadOptions(json)
  <2>1. c = [type |-> json.type, members |-> F!ReadMembers(json), options |-> o]
    BY <1>3, <1>4 DEF F!ReadRunning
  <2>2. OptionsHeld(a.options)
    BY ChoiceIs
  <2>3. F!Get(json.cancel_all, FALSE) = a.options.cancel_all
    BY <1>4, GetIs, Zenon DEF JsonFits
  <2>4. F!Get(json.deferrable, FALSE) = a.options.deferrable
    BY <1>4, GetIs, Zenon DEF JsonFits
  <2>5. F!Get(json.tts_on_success, "") = a.options.tts
    BY <1>4, GetIs DEF JsonFits
  <2>6. \/ F!Get(json.lock_duration_sec, 0) = a.options.lock
        \/ F!Get(json.lock_duration_sec, 0) = 0 /\ F!Abs(a.options.lock) <= F!Threshold
    BY <1>4, GetIs DEF JsonFits
  <2>7. /\ o.cancel_all = F!Get(json.cancel_all, FALSE) /\ o.tts = F!Get(json.tts_on_success, "")
        /\ o.deferrable = F!Get(json.deferrable, FALSE) /\ o.lock = F!Get(json.lock_duration_sec, 0)
        /\ o = [cancel_all |-> o.cancel_all, tts |-> o.tts, deferrable |-> o.deferrable, lock |-> o.lock]
    BY DEF F!ReadOptions
  <2> HIDE DEF o
  <2>8. /\ o.cancel_all = a.options.cancel_all /\ o.deferrable = a.options.deferrable
        /\ o.tts = a.options.tts
        /\ o.lock = a.options.lock \/ (o.lock = 0 /\ F!Abs(a.options.lock) <= F!Threshold)
        /\ o = [cancel_all |-> o.cancel_all, tts |-> o.tts, deferrable |-> o.deferrable, lock |-> o.lock]
    BY <2>3, <2>4, <2>5, <2>6, <2>7, Zenon
  <2>9. OptionsHeld(o)
    <3>1. a.options.lock \in Int
      BY <2>2 DEF OptionsHeld
    <3>2. o.lock = a.options.lock \/ o.lock = 0
      BY <2>8, Zenon
    <3>3. o.lock \in Int
      BY <3>1, <3>2
    <3> QED  BY <2>8, <3>3, Zenon DEF OptionsHeld
  <2>10. c.type = json.type /\ c.members = F!ReadMembers(json) /\ c.options = o
    BY <2>1
  <2> QED  BY <1>1, <1>2, <1>4, <2>8, <2>9, <2>10, Zenon DEF Fits
<1>5. CASE json.type \notin F!WithOptions
  <2>1. c = [type |-> json.type, members |-> F!ReadMembers(json), options |-> F!NoOptions]
    BY <1>3, <1>5 DEF F!ReadPlain
  <2>2. OptionsHeld(F!NoOptions)
    BY NoOptionsAre
  <2>3. c.type = json.type /\ c.members = F!ReadMembers(json) /\ c.options = F!NoOptions
    BY <2>1
  <2> QED  BY <1>1, <1>2, <1>5, <2>2, <2>3 DEF Fits
<1> QED  BY <1>4, <1>5

\* What the editor sends is what it showed, whatever the old command was.
LEMMA EditorFits ==
  ASSUME NEW old, NEW p \in Payloads, NEW o \in Options
  PROVE  JsonFits(F!NewCommand(old, p, o), [payload |-> p, options |-> o])
<1> DEFINE a == [payload |-> p, options |-> o]
           json == F!NewCommand(old, p, o)
<1>1. Chosen(a) /\ a.payload = p /\ a.options = o
  BY DEF Chosen
<1>2. /\ p.type \in F!Types /\ p.members = [m \in F!Members[p.type] |-> p.members[m]]
      /\ OptionsHeld(o)
  BY <1>1, ChoiceIs
<1>3. /\ json.type = p.type /\ json.objects = F!Over(F!Object(p.type, p.members), old.objects)
      /\ json.cancel_all = {o.cancel_all} /\ json.tts_on_success = F!If(o.tts # "", o.tts)
      /\ json.deferrable = {o.deferrable} /\ json.lock_duration_sec = F!If(o.lock # 0, o.lock)
  BY DEF F!NewCommand
<1> HIDE DEF json
<1>4. ASSUME F!Members[p.type] # {}
      PROVE  p.type \in DOMAIN json.objects /\ json.objects[p.type] = p.members
  <2>1. F!Object(p.type, p.members) = [t \in {p.type} |-> p.members]
    BY <1>4 DEF F!Object
  <2> QED  BY <1>3, <2>1 DEF F!Over
<1>5. json.tts_on_success = IF o.tts # "" THEN {o.tts} ELSE {}
  BY <1>3 DEF F!If
<1>6. \/ json.lock_duration_sec = {o.lock}
      \/ json.lock_duration_sec = {} /\ F!Abs(o.lock) <= F!Threshold
  <2> DEFINE n == o.lock
  <2>1. n \in Int /\ json.lock_duration_sec = IF n # 0 THEN {n} ELSE {}
    BY <1>2, <1>3 DEF F!If, OptionsHeld
  <2> HIDE DEF n
  <2>2. n = 0 => F!Abs(n) <= F!Threshold
    BY DEF F!Abs, F!Threshold
  <2>3. json.lock_duration_sec = {n} \/ (json.lock_duration_sec = {} /\ F!Abs(n) <= F!Threshold)
    BY <2>1, <2>2, Zenon
  <2> QED  BY <2>3 DEF n
<1>7. JsonFits(json, a)
  <2> HIDE DEF a
  <2> QED  BY <1>1, <1>3, <1>4, <1>5, <1>6 DEF JsonFits
<1> USE DEF json
<1> QED  BY <1>7

\* What the hub writes of a command is what the command says.
LEMMA WritesFit ==
  ASSUME NEW c, NEW a, Chosen(a), Fits(c, a)
  PROVE  JsonFits(F!FillCommandJson(c), a)
<1> DEFINE json == F!FillCommandJson(c)
           o == c.options
<1>1. c.type = a.payload.type /\ c.type \in F!Types /\ c.members = a.payload.members
  BY ChoiceIs DEF Fits
<1>2. /\ json.type = c.type
      /\ json.objects = IF c.type \in F!Types THEN F!Object(c.type, c.members) ELSE << >>
      /\ json.cancel_all = {o.cancel_all} /\ json.tts_on_success = F!If(o.tts # "", o.tts)
      /\ json.deferrable = {o.deferrable}
      /\ json.lock_duration_sec = F!If(F!Abs(o.lock) > F!Threshold, o.lock)
  BY DEF F!FillCommandJson
<1> HIDE DEF json
<1>3. ASSUME F!Members[c.type] # {}
      PROVE  c.type \in DOMAIN json.objects /\ json.objects[c.type] = c.members
  <2>1. F!Object(c.type, c.members) = [t \in {c.type} |-> c.members]
    BY <1>3 DEF F!Object
  <2> QED  BY <1>1, <1>2, <2>1
<1>4. ASSUME c.type \in F!WithOptions
      PROVE  /\ json.cancel_all = {a.options.cancel_all} /\ json.deferrable = {a.options.deferrable}
             /\ json.tts_on_success = IF a.options.tts # "" THEN {a.options.tts} ELSE {}
             /\ \/ json.lock_duration_sec = {a.options.lock}
                \/ json.lock_duration_sec = {} /\ F!Abs(a.options.lock) <= F!Threshold
  <2>1. /\ o.cancel_all = a.options.cancel_all /\ o.tts = a.options.tts
        /\ o.deferrable = a.options.deferrable
        /\ \/ o.lock = a.options.lock
           \/ o.lock = 0 /\ F!Abs(a.options.lock) <= F!Threshold
    BY <1>4 DEF Fits
  <2> HIDE DEF o
  <2>2. json.cancel_all = {a.options.cancel_all} /\ json.deferrable = {a.options.deferrable}
    BY <1>2, <2>1, Zenon
  <2>3. json.tts_on_success = IF a.options.tts # "" THEN {a.options.tts} ELSE {}
    BY <1>2, <2>1, Zenon DEF F!If
  <2>4. \/ json.lock_duration_sec = {a.options.lock}
        \/ json.lock_duration_sec = {} /\ F!Abs(a.options.lock) <= F!Threshold
    <3>1. a.options.lock \in Int
      BY ChoiceIs DEF OptionsHeld
    <3>2. json.lock_duration_sec = IF F!Abs(o.lock) > F!Threshold THEN {o.lock} ELSE {}
      BY <1>2 DEF F!If
    <3> DEFINE k == o.lock
               n == a.options.lock
    <3>3. k = n \/ (k = 0 /\ F!Abs(n) <= F!Threshold)
      BY <2>1
    <3>4. json.lock_duration_sec = IF F!Abs(k) > F!Threshold THEN {k} ELSE {}
      BY <3>2
    <3>5. n \in Int
      BY <3>1
    <3> HIDE DEF k, n
    <3>6. json.lock_duration_sec = {n} \/ (json.lock_duration_sec = {} /\ F!Abs(n) <= F!Threshold)
      BY <3>3, <3>4, <3>5 DEF F!Abs, F!Threshold
    <3> QED  BY <3>6 DEF n
  <2> QED  BY <2>2, <2>3, <2>4
<1>5. JsonFits(json, a)
  BY <1>1, <1>2, <1>3, <1>4 DEF JsonFits
<1> USE DEF json
<1> QED  BY <1>5

LEMMA EmptyMembers == ASSUME NEW f, f = [m \in {} |-> f[m]] PROVE f = << >>
<1>1. f \in [1 .. 0 -> Int]
  OBVIOUS
<1>2. f \in Seq(Int)
  BY <1>1, SeqDef
<1>3. Len(f) = 0
  BY <1>1, <1>2
<1> QED  BY <1>2, <1>3, EmptySeq

\* The robot waits, by its own option or by a second request, exactly when asked to.
LEMMA WaitsOnce ==
  ASSUME robot \in RobotVersions, known = robot, NEW lock \in Int, lock > F!Threshold,
         NEW r, r.which # "lock", r.options.lock = lock, NEW s,
         s = IF F!LockOnEndIsSupported THEN <<r>> ELSE <<r, F!Lock(lock)>>
  PROVE  WaitedFor(s) = <<lock>>
<1>1. known # NoVersion /\ (robot \in Waits <=> <<robot, <<3, 1, 0>>>> \in Compared)
  BY FlowAssumption DEF F!FlowAssumption
<1>2. lock # 0
  BY DEF F!Threshold
<1>3. CASE robot \in Waits
  <2>1. s = <<r>>
    BY <1>1, <1>3 DEF F!LockOnEndIsSupported
  <2>2. F!WaitsFor(r) = <<lock>>
    BY <1>2, <1>3 DEF F!WaitsFor
  <2> QED  BY <2>1, <2>2 DEF WaitedFor
<1>4. CASE robot \notin Waits
  <2> DEFINE l == F!Lock(lock)
  <2>1. s = <<r, l>>
    BY <1>1, <1>4 DEF F!LockOnEndIsSupported
  <2>2. F!WaitsFor(r) = << >>
    BY <1>4 DEF F!WaitsFor
  <2>3. l.which = "lock" /\ l.members = [duration_sec |-> lock]
    BY DEF F!Lock, F!StartCommand
  <2>4. F!WaitsFor(l) = <<lock>>
    BY <2>3 DEF F!WaitsFor
  <2> HIDE DEF l
  <2>5. Len(s) = 2 /\ s[1] = r /\ s[2] = l
    BY <2>1
  <2>6. << >> \o <<lock>> = <<lock>>
    BY <<lock>> \in Seq(Int), ConcatEmptySeq
  <2> QED  BY <2>2, <2>4, <2>5, <2>6 DEF WaitedFor
<1> QED  BY <1>3, <1>4

\* The requests of a command, given its first.
LEMMA SendsThese ==
  ASSUME NEW c, NEW ok, NEW r, F!Request(c, ok) = <<r>>
  PROVE  F!SendCommand(c, ok) =
           IF r.ok /\ c.options.lock > F!Threshold /\ ~F!LockOnEndIsSupported
           THEN <<r, F!Lock(c.options.lock)>> ELSE <<r>>
<1> DEFINE q == F!Request(c, ok)
           l == F!Lock(c.options.lock)
<1>1. q = <<r>>
  OBVIOUS
<1>2. F!SendCommand(c, ok) =
        IF /\ q # << >> /\ q[1].ok
           /\ c.options.lock > F!Threshold /\ ~F!LockOnEndIsSupported
        THEN Append(q, l) ELSE q
  BY Zenon DEF F!SendCommand
<1> HIDE DEF q, l
<1>3. q # << >> /\ q[1] = r /\ Append(q, l) = <<r, l>>
  <2>1. <<r>> \in Seq({r, l}) /\ l \in {r, l} /\ Len(<<r>>) = 1 /\ <<r>>[1] = r
    OBVIOUS
  <2> DEFINE a == Append(<<r>>, l)
             b == <<r, l>>
  <2>2. a \in Seq({r, l}) /\ Len(a) = 2 /\ a[1] = r /\ a[2] = l
    BY <2>1, AppendProperties
  <2>3. b \in Seq({r, l}) /\ Len(b) = 2 /\ b[1] = r /\ b[2] = l
    OBVIOUS
  <2> HIDE DEF a, b
  <2>4. a = b
    BY <2>2, <2>3, SeqEqual
  <2> USE DEF a, b
  <2>5. <<r>> # << >>
    OBVIOUS
  <2> QED  BY <1>1, <2>1, <2>4, <2>5, Zenon
<1>4. F!SendCommand(c, ok) =
        IF r.ok /\ c.options.lock > F!Threshold /\ ~F!LockOnEndIsSupported
        THEN <<r, l>> ELSE <<r>>
  BY <1>1, <1>2, <1>3, Zenon
<1> USE DEF l
<1> QED  BY <1>4, Zenon

LEMMA Sends ==
  ASSUME robot \in RobotVersions, NEW c, NEW a, Chosen(a), Fits(c, a), NEW ok \in BOOLEAN
  PROVE  Runs(F!SendCommand(c, ok), a)
<1> DEFINE s == F!SendCommand(c, ok)
           k == c.options.lock
           n == a.options.lock
           lock == IF k > F!Threshold THEN k ELSE 0
<1>1. /\ c.type = a.payload.type /\ c.type \in F!Types /\ c.members = a.payload.members
      /\ OptionsHeld(c.options) /\ OptionsHeld(a.options)
  BY ChoiceIs DEF Fits
<1>2. ASSUME NEW r, F!Request(c, ok) = <<r>>
      PROVE  s # << >> /\ s[1] = r
  <2> DEFINE l == F!Lock(c.options.lock)
  <2>1. s = <<r>> \/ s = <<r, l>>
    BY <1>2, SendsThese, Zenon
  <2> HIDE DEF s, l
  <2> QED  BY <2>1
<1>3. CASE c.type \in F!WithOptions \ {"shortcut"}
  <2> DEFINE r == F!StartCommand(c.type, c.members, c.options, lock, ok)
             o == [c.options EXCEPT !.lock = lock]
  <2>1. F!Request(c, ok) = <<r>>
    BY <1>3 DEF F!Request, F!WithOptions
  <2>2. /\ r.ok = ok /\ r.which = c.type /\ r.members = c.members /\ r.options = o
        /\ r.which # "lock"
    BY <1>3 DEF F!StartCommand, F!WithOptions
  <2>3. s # << >> /\ s[1] = r
    BY <1>2, <2>1, <2>2
  <2>4. a.payload.type \notin F!Disabled
    BY <1>1, <1>3 DEF F!Disabled, F!WithOptions
  <2>5. /\ k \in Int /\ n \in Int
        /\ k = n \/ (k = 0 /\ F!Abs(n) <= F!Threshold)
        /\ c.options.cancel_all = a.options.cancel_all /\ c.options.tts = a.options.tts
        /\ c.options.deferrable = a.options.deferrable
    BY <1>1, <1>3 DEF Fits, OptionsHeld
  <2>6. [o EXCEPT !.lock = n] = a.options
    <3>1. o = [cancel_all |-> c.options.cancel_all, tts |-> c.options.tts,
               deferrable |-> c.options.deferrable, lock |-> lock]
      BY <1>1 DEF OptionsHeld
    <3>2. a.options = [cancel_all |-> a.options.cancel_all, tts |-> a.options.tts,
                       deferrable |-> a.options.deferrable, lock |-> n]
      BY <1>1 DEF OptionsHeld
    <3> HIDE DEF o, n, lock
    <3>3. [o EXCEPT !.lock = n] = [cancel_all |-> c.options.cancel_all, tts |-> c.options.tts,
                                   deferrable |-> c.options.deferrable, lock |-> n]
      BY <3>1
    <3> QED  BY <2>5, <3>2, <3>3
  <2>7. (k > F!Threshold <=> n > F!Threshold) /\ (n > F!Threshold => k = n)
    <3> HIDE DEF k, n
    <3> QED  BY <2>5 DEF F!Abs, F!Threshold
  <2>8. o.lock = lock
    BY <1>1 DEF OptionsHeld
  <2>9. ASSUME ok, known = robot
        PROVE  WaitedFor(s) = IF n > F!Threshold THEN <<n>> ELSE << >>
    <3>1. CASE n > F!Threshold
      <4>1. k > F!Threshold /\ k = n /\ lock = k
        BY <2>7, <3>1
      <4>2. s = IF F!LockOnEndIsSupported THEN <<r>> ELSE <<r, F!Lock(k)>>
        <5>1. s = IF r.ok /\ k > F!Threshold /\ ~F!LockOnEndIsSupported
                  THEN <<r, F!Lock(k)>> ELSE <<r>>
          BY <2>1, SendsThese, Zenon
        <5>2. r.ok
          BY <2>2, <2>9
        <5> HIDE DEF r, s, k
        <5> QED  BY <4>1, <5>1, <5>2, Zenon
      <4>3. r.options.lock = k
        BY <2>2, <2>8, <4>1
      <4> HIDE DEF r, s, k, n, lock
      <4>4. r.which # "lock" /\ k \in Int /\ k > F!Threshold
        BY <2>2, <2>5, <4>1
      <4>5. WaitedFor(s) = <<k>>
        BY <2>9, <4>2, <4>3, <4>4, WaitsOnce, Zenon
      <4> QED  BY <3>1, <4>1, <4>5, Zenon
    <3>2. CASE ~ (n > F!Threshold)
      <4>1. ~ (k > F!Threshold) /\ lock = 0
        BY <2>7, <3>2
      <4>2. s = <<r>>
        BY <2>1, <4>1, SendsThese, Zenon
      <4>3. r.options.lock = 0
        BY <2>2, <2>8, <4>1
      <4> HIDE DEF r, s, k, n, lock
      <4>4. F!WaitsFor(r) = << >>
        BY <2>2, <4>3 DEF F!WaitsFor
      <4> QED  BY <3>2, <4>2, <4>4 DEF WaitedFor
    <3> QED  BY <3>1, <3>2
  <2>10. ~ok => Len(s) = 1
    <3>1. ASSUME ~ok PROVE s = <<r>>
      <4>1. ~ r.ok
        BY <2>2, <3>1
      <4> HIDE DEF r
      <4> QED  BY <2>1, <4>1, SendsThese, Zenon
    <3> HIDE DEF r, s
    <3> QED  BY <3>1
  <2> HIDE DEF r, s, k, o, lock
  <2>11. s[1].ok = ok /\ s[1].options = o /\ s[1].which = a.payload.type
         /\ s[1].members = a.payload.members
    BY <1>1, <2>2, <2>3
  <2>12. /\ [s[1].options EXCEPT !.lock = n] = a.options
         /\ s[1].ok /\ known = robot =>
              WaitedFor(s) = IF n > F!Threshold THEN <<n>> ELSE << >>
         /\ ~s[1].ok => Len(s) = 1
    BY <2>6, <2>9, <2>10, <2>11, Zenon
  <2> HIDE DEF n
  <2>13. n = a.options.lock
    BY DEF n
  <2>14. Wanted(a) = a.options
    BY <2>4 DEF Wanted
  <2>15. Obeys(s, a.options)
    BY <2>12, <2>13, Zenon DEF Obeys
  <2>16. Runs(s, a)
    BY <2>3, <2>11, <2>14, <2>15, Zenon DEF Runs
  <2> QED  BY <2>16, Zenon DEF s
<1>4. ASSUME NEW r, F!Request(c, ok) = <<r>>, r.which = c.type, r.members = c.members,
             r.options = F!NoOptions, c.type \notin F!WithOptions, c.type # "set_emergency_stop"
      PROVE  Runs(s, a)
  <2>1. c.options = F!NoOptions /\ k = 0
    BY <1>4, NoOptionsAre DEF Fits
  <2>2. s = <<r>>
    <3>1. ~ (k > F!Threshold)
      BY <2>1 DEF F!Threshold
    <3> QED  BY <1>4, <3>1, SendsThese, Zenon
  <2>3. a.payload.type \in F!Disabled
    BY <1>1, <1>4, TypesAre DEF F!Disabled, F!WithOptions
  <2>4. F!WaitsFor(r) = << >>
    <3>1. c.type # "lock"
      BY <1>1, TypesAre
    <3> QED  BY <1>4, <3>1, NoOptionsAre DEF F!WaitsFor
  <2>5. [F!NoOptions EXCEPT !.lock = F!NoOptions.lock] = F!NoOptions
    BY NoOptionsAre DEF OptionsHeld
  <2>6. ~ (F!NoOptions.lock > F!Threshold)
    BY NoOptionsAre DEF F!Threshold
  <2> HIDE DEF s
  <2>7. s # << >> /\ s[1] = r /\ Len(s) = 1
    BY <2>2
  <2>8. Wanted(a) = F!NoOptions
    BY <2>3 DEF Wanted
  <2>9. Obeys(s, F!NoOptions)
    BY <1>4, <2>4, <2>5, <2>6, <2>7 DEF Obeys, WaitedFor
  <2> QED  BY <1>1, <1>4, <2>7, <2>8, <2>9 DEF Runs
<1>5. ASSUME F!Members[c.type] = {} PROVE c.members = << >>
  <2>1. c.members = [m \in {} |-> c.members[m]]
    BY <1>1, <1>5, ChoiceIs
  <2> QED  BY <2>1, EmptyMembers
<1>6. CASE c.type = "shortcut"
  <2> DEFINE r == F!StartShortcut(c.members, c.options, lock, ok)
  <2>1. F!Request(c, ok) = <<r>>
    BY <1>6 DEF F!Request
  <2>2. r.ok = ok /\ r.which = c.type /\ r.members = c.members
    BY <1>6 DEF F!StartShortcut
  <2> HIDE DEF r
  <2> QED  BY <1>1, <1>2, <1>6, <2>1, <2>2 DEF Runs
<1>7. CASE c.type \in {"proceed", "cancel_command", "set_emergency_stop"}
  <2> DEFINE r == F!EmptyRequest(c.type, ok)
  <2>1. F!Request(c, ok) = <<r>>
    BY <1>7 DEF F!Request, F!WithOptions
  <2>2. r.ok = ok /\ r.which = c.type /\ r.members = << >> /\ r.options = F!NoOptions
    BY DEF F!EmptyRequest
  <2> HIDE DEF r
  <2>3. c.members = << >> /\ c.type \notin F!WithOptions
    BY <1>5, <1>7, TypesAre DEF F!WithOptions
  <2>4. CASE c.type = "set_emergency_stop"
    BY <1>1, <1>2, <2>1, <2>2, <2>3, <2>4 DEF Runs
  <2>5. CASE c.type # "set_emergency_stop"
    BY <1>4, <2>1, <2>2, <2>3, <2>5
  <2> QED  BY <2>4, <2>5
<1>8. CASE c.type \in {"http_get", "http_post"}
  <2> DEFINE r == F!FetchHttp(c)
  <2>1. F!Request(c, ok) = <<r>>
    BY <1>8 DEF F!Request, F!WithOptions
  <2>2. r.which = c.type /\ r.members = c.members /\ r.options = F!NoOptions
    BY DEF F!FetchHttp
  <2>3. c.type \notin F!WithOptions /\ c.type # "set_emergency_stop"
    BY <1>8 DEF F!WithOptions
  <2> HIDE DEF r
  <2> QED  BY <1>4, <2>1, <2>2, <2>3
<1> QED  BY <1>1, <1>3, <1>6, <1>7, <1>8, TypesAre DEF F!WithOptions

LEMMA ButtonsAre == Nobody \notin DOMAIN Data
BY FlowAssumption DEF F!FlowAssumption

LEMMA UnsetIs == ASSUME NEW b, NEW e, e.button = {b} PROVE e # F!Unset
BY DEF F!Unset

LEMMA FlowInit == ASSUME F!Init PROVE FlowInv
BY ButtonsAre DEF F!Init, FlowInv

\* A command that the editor or another client posts.
LEMMA Posts ==
  ASSUME FlowInv, NEW json, F!Post(json), NEW a, Chosen(a), JsonFits(json, a)
  PROVE  /\ table' # F!Unset /\ table'.button = {button} /\ Fits(table'.command, a)
         /\ entry' # F!Unset /\ entry'.button = {button} /\ JsonFits(entry'.command, a)
<1>1. PICK c \in F!ConvertCommandJson(json) :
        /\ table' = [button |-> F!Read({button}), command |-> c]
        /\ entry' = [button |-> F!Read({button}), command |-> F!FillCommandJson(c)]
  BY Zenon DEF F!Post
<1>2. F!Read({button}) = {button}
  BY ReadsItself DEF FlowInv
<1>3. Fits(c, a) /\ JsonFits(F!FillCommandJson(c), a)
  BY Reads, WritesFit
<1>4. /\ table'.button = {button} /\ table'.command = c
      /\ entry'.button = {button} /\ entry'.command = F!FillCommandJson(c)
  BY <1>1, <1>2
<1> QED  BY <1>3, <1>4, UnsetIs, Zenon

LEMMA PostsAnything ==
  ASSUME FlowInv, NEW json, F!Post(json)
  PROVE  table'.button = {button} /\ entry'.button = {button}
<1>1. PICK c \in F!ConvertCommandJson(json) :
        /\ table' = [button |-> F!Read({button}), command |-> c]
        /\ entry' = [button |-> F!Read({button}), command |-> F!FillCommandJson(c)]
  BY Zenon DEF F!Post
<1>2. F!Read({button}) = {button}
  BY ReadsItself DEF FlowInv
<1> QED  BY <1>1, <1>2

LEMMA SavesAsShown ==
  ASSUME FlowInv, NEW p \in Payloads, NEW o \in Options, F!Save(p, o)
  PROVE  FlowInv'
<1> DEFINE a == [payload |-> p, options |-> o]
           json == F!NewCommand(F!Shown, p, o)
<1>1. Chosen(a) /\ JsonFits(json, a)
  BY EditorFits DEF Chosen
<1>2. F!Post(json) /\ form' = a
  BY DEF F!Save
<1>3. pressed' = Nobody /\ button' = button /\ known' = known /\ robot' = robot
  BY DEF F!Save
<1> HIDE DEF a, json
<1>4. /\ table' # F!Unset /\ table'.button = {button} /\ Fits(table'.command, a)
      /\ entry' # F!Unset /\ entry'.button = {button} /\ JsonFits(entry'.command, a)
  BY <1>1, <1>2, Posts
<1>5. pressed' # button'
  BY <1>3, ButtonsAre DEF FlowInv
<1> QED  BY <1>1, <1>2, <1>3, <1>4, <1>5 DEF FlowInv, Chosen

LEMMA PressRuns ==
  ASSUME FlowInv, NEW b \in DOMAIN Data, F!Press(b)
  PROVE  FlowInv'
<1> DEFINE found == b \in table.button
<1>1. /\ pressed' = IF found \/ b = button THEN b ELSE Nobody
      /\ \E ok \in BOOLEAN : sent' = IF found THEN F!SendCommand(table.command, ok) ELSE << >>
      /\ UNCHANGED <<button, table, entry, known, robot, form>>
  BY DEF F!Press
<1>2. table = F!Unset => ~found
  BY DEF F!Unset
<1>3. found => b = button
  BY <1>2 DEF FlowInv
<1>4. pressed' \in {button, Nobody}
  BY <1>1, <1>3
<1>5. ASSUME pressed' = button, form # F!Unknown PROVE Runs(sent', form)
  <2>1. b = button
    BY <1>1, <1>3, <1>5, ButtonsAre DEF FlowInv
  <2>2. /\ Chosen(form) /\ Fits(table.command, form) /\ robot \in RobotVersions
        /\ table # F!Unset /\ table.button = {button}
    BY <1>5 DEF FlowInv
  <2>3. found
    BY <2>1, <2>2
  <2>4. PICK ok \in BOOLEAN : sent' = F!SendCommand(table.command, ok)
    BY <1>1, <2>3
  <2> QED  BY <2>2, <2>4, Sends
<1>6. ASSUME Runs(sent', form) PROVE Runs(sent, form)'
  BY <1>1, <1>6 DEF Runs, Obeys, Wanted, WaitedFor, F!WaitsFor
<1> QED  BY <1>1, <1>4, <1>5, <1>6 DEF FlowInv, Chosen

LEMMA BootReads == ASSUME FlowInv, F!Reboot PROVE FlowInv'
<1>1. pressed' = Nobody /\ UNCHANGED <<button, entry, robot, form>>
  BY DEF F!Reboot
<1>2. pressed' # button'
  BY <1>1, ButtonsAre DEF FlowInv
<1>3. CASE entry = F!Unset
  BY <1>1, <1>2, <1>3 DEF FlowInv, F!Reboot, Chosen
<1>4. CASE entry # F!Unset
  <2>1. PICK c \in F!ConvertCommandJson(entry.command) :
          table' = [button |-> F!Read(entry.button), command |-> c]
    BY <1>4 DEF F!Reboot
  <2>2. F!Read(entry.button) = {button}
    BY <1>4, ReadsItself DEF FlowInv
  <2>3. table'.button = {button} /\ table'.command = c
    BY <2>1, <2>2
  <2>4. table' # F!Unset
    BY <2>3, UnsetIs
  <2>5. form # F!Unknown => Fits(c, form)
    BY Reads DEF FlowInv
  <2> QED  BY <1>1, <1>2, <2>3, <2>4, <2>5 DEF FlowInv, Chosen
<1> QED  BY <1>3, <1>4

LEMMA FlowStep == ASSUME FlowInv, [F!Next]_(F!flowVars) PROVE FlowInv'
<1>1. CASE UNCHANGED F!flowVars
  BY <1>1 DEF F!flowVars, FlowInv, Chosen, Runs, Obeys, Wanted, WaitedFor, F!WaitsFor
<1>2. ASSUME NEW p \in Payloads, NEW o \in Options, F!Save(p, o) PROVE FlowInv'
  BY <1>2, SavesAsShown
<1>3. CASE F!PostUnknownType
  <2>1. PICK json : F!Post(json)
    BY <1>3 DEF F!PostUnknownType
  <2>2. table'.button = {button} /\ entry'.button = {button}
    BY <2>1, PostsAnything
  <2>3. form' = F!Unknown /\ pressed' = Nobody /\ UNCHANGED <<button, known, robot>>
    BY <1>3 DEF F!PostUnknownType
  <2> QED  BY <2>2, <2>3 DEF FlowInv
<1>4. ASSUME NEW b \in DOMAIN Data, F!Press(b) PROVE FlowInv'
  BY <1>4, PressRuns
<1>5. CASE F!Reboot
  BY <1>5, BootReads
<1>6. CASE F!FetchVersion
  <2>1. pressed' # button'
    BY <1>6, ButtonsAre DEF FlowInv, F!FetchVersion
  <2> QED  BY <1>6, <2>1 DEF F!FetchVersion, FlowInv, Chosen
<1>7. CASE F!UpdateRobot
  <2>1. pressed' # button'
    BY <1>7, ButtonsAre DEF FlowInv, F!UpdateRobot
  <2> QED  BY <1>7, <2>1 DEF F!UpdateRobot, FlowInv, Chosen
<1> QED  BY <1>1, <1>2, <1>3, <1>4, <1>5, <1>6, <1>7 DEF F!Next

\* The invariant says what the property does.
LEMMA FlowRuns == ASSUME FlowInv PROVE RunsAsAsked
<1>1. pressed \in {button, Nobody}
  BY DEF FlowInv
<1>2. ASSUME pressed = button, form # F!Unknown PROVE Runs(sent, form)
  BY <1>2 DEF FlowInv
<1> QED  BY <1>1, <1>2, Zenon DEF RunsAsAsked, F!RunsAsAsked, F!Waited, Runs, Obeys, Wanted, WaitedFor

-----------------------------------------------------------------------------
(* The hub                                                                 *)

HubInv == WifiInv /\ BodyInv /\ LogInv /\ GpioInv /\ FlowInv

LEMMA HubInvInit == ASSUME HubInit PROVE HubInv
BY WifiInit, BodyInit, LogInit, GpioInit, FlowInit DEF HubInit, HubInv

(***************************************************************************)
(* A step of the hub is one of the part that the behaviour is about, and   *)
(* nothing to the others.                                                  *)
(***************************************************************************)
LEMMA PartSteps ==
  ASSUME [HubNext]_hubVars
  PROVE  /\ [W!Next]_(W!vars) /\ [R!Next]_(R!vars) /\ [L!Next]_(L!vars) /\ [G!Next]_(G!vars)
         /\ [F!Next]_(F!flowVars)
<1>1. W!Next \/ UNCHANGED wifiVars
  BY DEF HubNext, hubVars
<1>2. R!Next \/ UNCHANGED bodyVars
  BY DEF HubNext, hubVars
<1>3. L!Next \/ UNCHANGED logVars
  BY DEF HubNext, hubVars
<1>4. G!Next \/ UNCHANGED gpioVars
  BY DEF HubNext, hubVars
<1>5. F!Next \/ UNCHANGED flowVars
  BY DEF HubNext, hubVars
<1>6. flowVars = F!flowVars /\ flowVars' = F!flowVars'
  BY DEF flowVars, F!flowVars
<1>7. wifiVars = W!vars /\ bodyVars = R!vars /\ logVars = L!vars /\ gpioVars = G!vars
  BY DEF wifiVars, W!vars, bodyVars, R!vars, logVars, L!vars, gpioVars, G!vars
<1>8. wifiVars' = W!vars' /\ bodyVars' = R!vars' /\ logVars' = L!vars' /\ gpioVars' = G!vars'
  BY DEF wifiVars, W!vars, bodyVars, R!vars, logVars, L!vars, gpioVars, G!vars
<1> QED  BY <1>1, <1>2, <1>3, <1>4, <1>5, <1>6, <1>7, <1>8

LEMMA HubInvStep == ASSUME HubInv, [HubNext]_hubVars PROVE HubInv'
BY PartSteps, WifiStep, BodyStep, LogStep, GpioStep, FlowStep DEF HubInv

LEMMA HubKeeps == HubSpec => []HubInv
<1>1. HubInit => HubInv
  BY HubInvInit
<1>2. HubInv /\ [HubNext]_hubVars => HubInv'
  BY HubInvStep
<1> QED  BY <1>1, <1>2, PTL DEF HubSpec

(***************************************************************************)
(* When no two writers were at work at the same time, the Wi-Fi settings   *)
(* in NVS are those of one request.                                        *)
(***************************************************************************)
THEOREM StoresOneRequest == HubSpec => []StoredAsSent
<1>1. HubInv => StoredAsSent
  BY DEF HubInv, WifiInv
<1> QED  BY <1>1, HubKeeps, PTL


(***************************************************************************)
(* A hub that told a phone that its network is confirmed joins it at the   *)
(* next boot with the address with which it was tried, unless a phone      *)
(* cleared the settings while a browser stored an address.                 *)
(***************************************************************************)
THEOREM JoinsAsConfirmed == HubSpec => []ConfirmedJoins
<1>1. HubInv => ConfirmedJoins
  BY DEF HubInv, WifiInv, Confirmed, InForce, ConfirmedJoins, W!ConfirmedJoins, W!Joins
<1> QED  BY <1>1, HubKeeps, PTL

(***************************************************************************)
(* A handler of the web server gets the body of its own request, for any   *)
(* number of requests in any number of pieces, unless pieces of two        *)
(* requests mix.                                                           *)
(***************************************************************************)
THEOREM BodyIsOwn == HubSpec => []OwnBody
<1>1. HubInv => OwnBody
  BY DEF HubInv, BodyInv
<1> QED  BY <1>1, HubKeeps, PTL

(***************************************************************************)
(* A press makes the robot do what the editor showed, for all buttons,     *)
(* commands, options and versions, after any number of edits, updates and  *)
(* reboots, and no other button does.  A robot that knows lock_on_end, as  *)
(* those of 3.1.0 and later are taken to, waits once as well.              *)
(***************************************************************************)
THEOREM DoesAsAsked == HubSpec => []RunsAsAsked
<1>1. HubInv => RunsAsAsked
  BY FlowRuns DEF HubInv
<1> QED  BY <1>1, HubKeeps, PTL

(***************************************************************************)
(* Lines stay in the order in which they were logged, and the file that a  *)
(* boot removes is older than what it keeps.                               *)
(***************************************************************************)
THEOREM LogFilesKept == HubSpec => LogsKept
<1>1. HubInv => L!InOrder
  BY DEF HubInv, LogInv
<1>2. HubInv /\ [HubNext]_hubVars => [L!RemovesOldest]_(L!vars)
  BY PartSteps, LogRemoves DEF HubInv
<1>3. HubSpec => []L!InOrder /\ [][L!RemovesOldest]_(L!vars)
  BY <1>1, <1>2, HubKeeps, PTL DEF HubSpec
<1> QED  BY <1>3 DEF LogsKept, L!LogsKept

(***************************************************************************)
(* A switch that bounces is one press, for ints of any width and any times *)
(* between two looks at it.                                                *)
(***************************************************************************)
THEOREM BouncesOnce == HubSpec => Debounced
<1> DEFINE Push == LET held == uptime' - onSince IN
              (uptime' # uptime /\ \/ uptime' < Half
                                   \/ ~wideTime /\ G!Signed(G!Millis(onSince)) # -1
                                      /\ held < Half) =>
                (pushed' <=> wasSwitchOn /\ ~wasSwitchOn' /\ held > IgnoreDuration)
<1>1. GpioInv /\ [G!Next]_(G!vars) => [Push]_(G!vars)
  <2> SUFFICES ASSUME GpioInv, G!Next, uptime' # uptime,
                      \/ uptime' < Half
                      \/ ~wideTime /\ G!Signed(G!Millis(onSince)) # -1 /\ uptime' - onSince < Half
               PROVE  pushed' <=> wasSwitchOn /\ ~wasSwitchOn' /\ uptime' - onSince > IgnoreDuration
    OBVIOUS
  <2>1. PICK on \in BOOLEAN, gap \in 1 .. MaxGap : G!HandleEvents(on, gap)
    BY DEF G!Next, G!Register
  <2> QED  BY <2>1, GpioPushes
<1>2. HubInv /\ [HubNext]_hubVars => [Push]_(G!vars)
  BY <1>1, PartSteps DEF HubInv
<1>3. HubSpec => [][Push]_(G!vars)
  BY <1>2, HubKeeps, PTL DEF HubSpec
<1> QED  BY <1>3 DEF Debounced, G!Debounced

-----------------------------------------------------------------------------
(* The firmware update                                                     *)

(***************************************************************************)
(* What belongs to which part of a run of the hub.                         *)
(***************************************************************************)
Placed ==
  /\ mode # "boot" => stage = "go"
  /\ mode # "ota" => task = "none"
  /\ mode = "ota" => image # None
  /\ mode = "boot" /\ manual => stage = "go" /\ image # None
  /\ stage = "off" => failCount >= MaxFails
  /\ task = "reading" => left > 0
  /\ task \in {"none", "created", "starting"} => tries = 0
  /\ task \in {"fetching", "reading"} => tries < MaxTrials

(***************************************************************************)
(* The count is raised before the update can fail.                         *)
(***************************************************************************)
Counted ==
  /\ autoTries <= MaxFails /\ autoTries <= failCount
  /\ ~manual /\ image # None /\ stage \in {"asked", "go"} /\
     task \in {"none", "created", "starting"} => failCount < MaxFails
  /\ ~manual /\ Begun => autoTries < failCount /\ failCount <= MaxFails
  /\ task \in {"verified", "reported"} => autoTries = 0

(***************************************************************************)
(* Every update that is counted has been begun.                            *)
(***************************************************************************)
Streak ==
  \/ unreported >= failCount
  \/ unreported >= MaxFails
  \/ (Begun \/ task = "verified") /\ unreported + 1 >= failCount

(***************************************************************************)
(* Where a request is while it waits for its update.                       *)
(***************************************************************************)
Requests ==
  /\ url # None => "url" \in asked
  /\ oneShot => "shot" \in asked
  /\ stage # "url" /\ mode # "app" => url = None
  /\ mode = "boot" /\ manual => "url" \in asked
  /\ mode = "boot" /\ stage = "ask" => auto \/ oneShot
  /\ mode = "boot" /\ stage \in {"asked", "go"} /\ ~manual /\ image # None =>
       auto \/ "shot" \in asked
  /\ mode = "boot" /\ stage = "go" /\ ~manual => ~oneShot

IInv == TypeOK /\ Placed /\ Counted /\ Streak /\ Requests

-----------------------------------------------------------------------------
(***************************************************************************)
(* No image is not an image.                                               *)
(***************************************************************************)
LEMMA NoImage == None \notin Images /\ MaxFails \in Nat /\ MaxFails > 0
                 /\ MaxTrials \in Nat /\ MaxTrials > 0 /\ Chunks \in Nat
                 /\ Chunks > 0 /\ Limit \in Nat /\ Limit > 0 /\ MaxEvents \in Nat
  BY VersionsAssumption, NumbersAssumption DEF Images

LEMMA Initially == Init => IInv
<1> SUFFICES ASSUME Init PROVE IInv
  OBVIOUS
<1>1. TypeOK
  <2>1. {events, tries, left, idle} = {0} /\ asked = {}
    BY DEF Init
  <2>2. events \in 0 .. MaxEvents /\ tries \in 0 .. MaxTrials
        /\ left \in 0 .. Chunks /\ idle \in 0 .. Limit
    BY <2>1, NoImage
  <2> QED  BY <2>1, <2>2 DEF Init, TypeOK
<1>2. Placed
  BY NoImage DEF Init, Placed
<1>3. Counted /\ Streak
  BY NoImage DEF Init, Counted, Streak, Begun
<1>4. Requests
  BY DEF Init, Requests
<1> QED  BY <1>1, <1>2, <1>3, <1>4 DEF IInv

(***************************************************************************)
(* However the hub restarts, it keeps the invariant: what was begun was    *)
(* counted.                                                                *)
(***************************************************************************)
LEMMA RestartKeeps ==
  ASSUME IInv, Restart,
         UNCHANGED <<offered, version, auto, oneShot, failCount>>,
         events' \in 0 .. MaxEvents,
         \/ UNCHANGED <<url, asked>>
         \/ url' \in Images /\ asked' = asked \cup {"url"}
  PROVE  IInv'
<1> USE NoImage
<1>1. TypeOK'
  <2>1. autoTries' \in Nat /\ unreported' \in Nat
    BY DEF IInv, TypeOK, Restart, OneMore
  <2>2. tries' \in 0 .. MaxTrials /\ left' \in 0 .. Chunks
        /\ idle' \in 0 .. Limit
    BY DEF Restart
  <2>3. url' \in Images \cup {None} /\ asked' \subseteq {"url", "shot"}
    BY DEF IInv, TypeOK
  <2> QED  BY <2>1, <2>2, <2>3 DEF IInv, TypeOK, Restart
<1>2. Placed'
  BY DEF Restart, Placed
<1>3. Counted'
  <2>1. CASE Begun /\ ~manual
    BY <2>1 DEF IInv, TypeOK, Counted, Restart, OneMore, Begun
  <2>2. CASE ~(Begun /\ ~manual)
    BY <2>2 DEF IInv, TypeOK, Counted, Restart, OneMore, Begun
  <2> QED  BY <2>1, <2>2
<1>4. Streak'
  BY DEF IInv, TypeOK, Streak, Restart, OneMore, Begun
<1>5. Requests'
  BY DEF IInv, Requests, Restart
<1> QED  BY <1>1, <1>2, <1>3, <1>4, <1>5 DEF IInv

(***************************************************************************)
(* The restarts.                                                           *)
(***************************************************************************)
LEMMA Restarts ==
  ASSUME IInv,
         \/ PowerLoss \/ BtnB \/ Reboot \/ WatchdogNow \/ CountDownReboot
         \/ RestartAfterUpdate \/ HandleOtaByImageUrl
  PROVE  IInv'
<1> USE NoImage
<1>1. CASE PowerLoss \/ BtnB
  <2>1. Interrupted
    BY <1>1 DEF PowerLoss, BtnB
  <2>2. events' \in 0 .. MaxEvents
    BY <2>1 DEF Interrupted, IInv, TypeOK
  <2> QED  BY <2>1, <2>2, RestartKeeps DEF Interrupted, flash
<1>2. CASE Reboot \/ WatchdogNow \/ CountDownReboot \/ RestartAfterUpdate
  <2>1. Restart /\ UNCHANGED <<world, flash, asked>>
    BY <1>2 DEF Reboot, WatchdogNow, CountDownReboot, RestartAfterUpdate
  <2>2. events' \in 0 .. MaxEvents
    BY <2>1 DEF world, IInv, TypeOK
  <2> QED  BY <2>1, <2>2, RestartKeeps DEF world, flash
<1>3. CASE HandleOtaByImageUrl
  <2>1. events' \in 0 .. MaxEvents
    BY <1>3 DEF HandleOtaByImageUrl, Event, IInv, TypeOK
  <2> QED  BY <1>3, <2>1, RestartKeeps DEF HandleOtaByImageUrl
<1> QED  BY <1>1, <1>2, <1>3

(***************************************************************************)
(* setup() up to the decision.                                             *)
(***************************************************************************)
LEMMA Decides ==
  ASSUME IInv, ReadUrl \/ AskServer \/ AutoOff \/ ClearAndDrop \/ TakeOneShot
  PROVE  IInv'
<1> USE NoImage DEF IInv, world, flash, update, history
<1>1. CASE ReadUrl
  <2> USE <1>1 DEF ReadUrl, UrlCleared
  <2>1. TypeOK'
    BY DEF TypeOK
  <2>2. Placed'
    BY DEF TypeOK, Placed
  <2>3. Counted' /\ Streak'
    BY DEF TypeOK, Placed, Counted, Streak, Begun
  <2>4. Requests'
    BY DEF Requests, AutoWanted
  <2> QED  BY <2>1, <2>2, <2>3, <2>4
<1>2. CASE AskServer
  <2> USE <1>2 DEF AskServer, GivesUp
  <2>1. TypeOK'
    BY DEF TypeOK, Images
  <2>2. Placed'
    BY DEF TypeOK, Placed
  <2>3. Counted' /\ Streak'
    BY DEF TypeOK, Placed, Counted, Streak, Begun
  <2>4. Requests'
    BY DEF TypeOK, Requests, Placed
  <2> QED  BY <2>1, <2>2, <2>3, <2>4
<1>3. CASE AutoOff
  <2> USE <1>3 DEF AutoOff
  <2>1. TypeOK' /\ Placed'
    BY DEF TypeOK, Placed
  <2>2. Counted' /\ Streak'
    BY DEF TypeOK, Counted, Streak, Begun
  <2>3. Requests'
    BY DEF Requests
  <2> QED  BY <2>1, <2>2, <2>3
<1>4. CASE ClearAndDrop
  <2> USE <1>4 DEF ClearAndDrop
  <2>1. TypeOK' /\ Placed'
    BY DEF TypeOK, Placed
  <2>2. Counted' /\ Streak'
    BY DEF TypeOK, Placed, Counted, Streak, Begun
  <2>3. Requests'
    BY DEF Requests
  <2> QED  BY <2>1, <2>2, <2>3
<1>5. CASE TakeOneShot
  <2> USE <1>5 DEF TakeOneShot
  <2>1. TypeOK' /\ Placed'
    BY DEF TypeOK, Placed
  <2>2. Counted' /\ Streak'
    BY DEF TypeOK, Counted, Streak, Begun
  <2>3. Requests'
    BY DEF Requests, Placed
  <2> QED  BY <2>1, <2>2, <2>3
<1> QED  BY <1>1, <1>2, <1>3, <1>4, <1>5

(***************************************************************************)
(* Button server or update.                                                *)
(***************************************************************************)
LEMMA SetsUp ==
  ASSUME IInv, SetupAsWiFiClient \/ SetupAsOtaAfterBoot
  PROVE  IInv'
<1> USE NoImage DEF IInv, world, flash, update
<1>1. CASE SetupAsWiFiClient
  <2> USE <1>1 DEF SetupAsWiFiClient
  <2>1. TypeOK' /\ Placed'
    BY DEF TypeOK, Placed
  <2>2. Counted' /\ Streak'
    BY DEF TypeOK, Counted, Streak, Begun
  <2>3. Requests'
    BY DEF Requests, Placed
  <2> QED  BY <2>1, <2>2, <2>3
<1>2. CASE SetupAsOtaAfterBoot
  <2> USE <1>2 DEF SetupAsOtaAfterBoot
  <2>1. TypeOK' /\ Placed'
    BY DEF TypeOK, Placed
  <2>2. Counted' /\ Streak'
    BY DEF TypeOK, Placed, Counted, Streak, Begun
  <2>3. Requests'
    BY DEF Requests, Placed
  <2> QED  BY <2>1, <2>2, <2>3
<1> QED  BY <1>1, <1>2

(***************************************************************************)
(* The Ota task writes nothing that a request or setup() uses but the      *)
(* version and the count.                                                  *)
(***************************************************************************)
LEMMA Updates ==
  ASSUME IInv,
         \/ RunOtaTask \/ OnStart \/ TrialFails \/ GetOk \/ Read \/ UpdateEnd
         \/ OnEndSuccess \/ OnEndFailure \/ Tick
  PROVE  IInv'
<1> USE NoImage DEF IInv, world, flash, setupVars, history
<1>1. CASE RunOtaTask
  BY <1>1 DEF RunOtaTask, TypeOK, Placed, Counted, Streak, Begun, Requests
<1>2. CASE OnStart
  <2> USE <1>2 DEF OnStart, CountAtStart
  <2>1. TypeOK' /\ Placed'
    BY DEF TypeOK, Placed
  <2>2. Counted' /\ Streak'
    BY DEF TypeOK, Placed, Counted, Streak, Begun
  <2>3. Requests'
    BY DEF Requests
  <2> QED  BY <2>1, <2>2, <2>3
<1>3. CASE TrialFails
  <2> USE <1>3 DEF TrialFails, Exhausted
  <2>1. TypeOK' /\ Placed'
    BY DEF TypeOK, Placed
  <2>2. Counted' /\ Streak'
    BY DEF TypeOK, Counted, Streak, Begun
  <2>3. Requests'
    BY DEF Requests
  <2> QED  BY <2>1, <2>2, <2>3
<1>4. CASE GetOk
  BY <1>4 DEF GetOk, TypeOK, Placed, Counted, Streak, Begun, Requests
<1>5. CASE Read
  <2> USE <1>5 DEF Read
  <2>1. TypeOK' /\ Placed'
    BY DEF TypeOK, Placed
  <2>2. Counted' /\ Streak'
    BY DEF TypeOK, Counted, Streak, Begun
  <2>3. Requests'
    BY DEF Requests
  <2> QED  BY <2>1, <2>2, <2>3
<1>6. CASE UpdateEnd
  <2> USE <1>6 DEF UpdateEnd
  <2>1. TypeOK' /\ Placed'
    BY DEF TypeOK, Placed
  <2>2. Counted' /\ Streak'
    BY DEF TypeOK, Counted, Streak, Begun
  <2>3. Requests'
    BY DEF Requests
  <2> QED  BY <2>1, <2>2, <2>3
<1>7. CASE OnEndSuccess
  <2> USE <1>7 DEF OnEndSuccess, CountAtEnd
  <2>1. TypeOK' /\ Placed'
    BY DEF TypeOK, Placed
  <2>2. Counted' /\ Streak'
    BY DEF TypeOK, Counted, Streak, Begun
  <2>3. Requests'
    BY DEF Requests
  <2> QED  BY <2>1, <2>2, <2>3
<1>8. CASE OnEndFailure
  BY <1>8 DEF OnEndFailure, TypeOK, Placed, Counted, Streak, Begun, Requests
<1>9. CASE Tick
  BY <1>9 DEF Tick, TypeOK, Placed, Counted, Streak, Begun, Requests
<1> QED  BY <1>1, <1>2, <1>3, <1>4, <1>5, <1>6, <1>7, <1>8, <1>9

(***************************************************************************)
(* Settings and the server's wish.                                         *)
(***************************************************************************)
LEMMA Wishes ==
  ASSUME IInv,
         \/ Publish
         \/ HandleSetAutoOtaIsEnabled
         \/ HandleSetOneShotAutoOtaIsEnabled
  PROVE  IInv'
<1> USE NoImage DEF IInv, Event, flash, setupVars, update, history
<1>1. CASE Publish
  BY <1>1 DEF Publish, TypeOK, Placed, Counted, Streak, Begun, Requests
<1>2. CASE HandleSetAutoOtaIsEnabled
  BY <1>2 DEF HandleSetAutoOtaIsEnabled, TypeOK, Placed, Counted, Streak, Begun,
              Requests
<1>3. CASE HandleSetOneShotAutoOtaIsEnabled
  <2> USE <1>3 DEF HandleSetOneShotAutoOtaIsEnabled
  <2>1. TypeOK' /\ Placed'
    BY DEF TypeOK, Placed
  <2>2. Counted' /\ Streak'
    BY DEF Counted, Streak, Begun
  <2>3. Requests'
    BY DEF Requests, TypeOK
  <2> QED  BY <2>1, <2>2, <2>3
<1> QED  BY <1>1, <1>2, <1>3

LEMMA Stutters == IInv /\ UNCHANGED vars => IInv'
  BY DEF IInv, TypeOK, Placed, Counted, Streak, Begun, Requests, vars, world,
         flash, setupVars, update, history

LEMMA Steps == IInv /\ [Next]_vars => IInv'
  BY Restarts, Decides, SetsUp, Updates, Wishes, Stutters
  DEF Next, Hub, Setup, OtaTask, User

(***************************************************************************)
(* The inductive invariant holds.                                          *)
(***************************************************************************)
THEOREM Invariance == Spec => []IInv
  BY Initially, Steps, PTL DEF Spec

-----------------------------------------------------------------------------
(***************************************************************************)
(* Every variable has its type: FetchAndOta's trials and reads, and the    *)
(* watchdog's minutes, are within their limits.                            *)
(***************************************************************************)
THEOREM TypeInvariant == Spec => []TypeOK
  BY Invariance, PTL DEF IInv

(***************************************************************************)
(* The fail count bounds the automatic updates that fail in a row.         *)
(***************************************************************************)
THEOREM Bounded == Spec => []AutoGivesUp
<1>1. IInv => AutoGivesUp
  BY DEF IInv, Counted, AutoGivesUp
<1> QED  BY <1>1, Invariance, PTL

(***************************************************************************)
(* Updates are turned off for what ClearOtaFailCount has not cleared.      *)
(***************************************************************************)
THEOREM OffForFailures == Spec => TurnedOffJustified
<1>1. IInv /\ [Next]_vars =>
        [mode = "boot" /\ auto /\ ~auto' => unreported >= MaxFails]_vars
  <2> SUFFICES ASSUME IInv, Next, mode = "boot", auto, ~auto'
               PROVE  unreported >= MaxFails
    OBVIOUS
  <2>1. AutoOff
    BY DEF Next, Hub, Setup, OtaTask, User, ReadUrl, AskServer, ClearAndDrop,
           TakeOneShot, SetupAsWiFiClient, SetupAsOtaAfterBoot, RunOtaTask,
           OnStart, TrialFails, GetOk, Read, UpdateEnd, OnEndSuccess,
           RestartAfterUpdate, OnEndFailure, Tick, WatchdogNow,
           CountDownReboot, Reboot, BtnB, PowerLoss, Interrupted, Publish,
           HandleOtaByImageUrl, HandleSetAutoOtaIsEnabled,
           HandleSetOneShotAutoOtaIsEnabled, flash
  <2>2. failCount >= MaxFails /\ task = "none"
    BY <2>1 DEF AutoOff, IInv, Placed
  <2> QED  BY <2>2, NoImage DEF IInv, TypeOK, Streak, Begun
<1> QED  BY <1>1, Invariance, PTL DEF Spec, TurnedOffJustified

(***************************************************************************)
(* An update has been asked for, and is the only one for that request.     *)
(***************************************************************************)
THEOREM OncePerRequest == Spec => AskedFor
<1>1. IInv /\ [Next]_vars =>
        [mode = "boot" /\ mode' = "ota" =>
           IF manual THEN "url" \in asked ELSE auto \/ "shot" \in asked]_vars
  <2> SUFFICES ASSUME IInv, Next, mode = "boot", mode' = "ota"
               PROVE  IF manual THEN "url" \in asked
                                ELSE auto \/ "shot" \in asked
    OBVIOUS
  <2>1. SetupAsOtaAfterBoot
    BY DEF Next, Hub, Setup, OtaTask, User, ReadUrl, AskServer, AutoOff,
           ClearAndDrop, TakeOneShot, SetupAsWiFiClient, RunOtaTask,
           OnStart, TrialFails, GetOk, Read, UpdateEnd, OnEndSuccess,
           RestartAfterUpdate, OnEndFailure, Tick, WatchdogNow,
           CountDownReboot, Reboot, BtnB, PowerLoss, Interrupted, Publish,
           HandleOtaByImageUrl, HandleSetAutoOtaIsEnabled,
           HandleSetOneShotAutoOtaIsEnabled, Restart, setupVars
  <2> QED  BY <2>1 DEF SetupAsOtaAfterBoot, IInv, Requests
<1> QED  BY <1>1, Invariance, PTL DEF Spec, AskedFor
=============================================================================
