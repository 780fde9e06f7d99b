------------------------------- MODULE ApScan -------------------------------
(***************************************************************************)
(* Looking for access points while the hub is being set up (the handler of *)
(* /wifi_scan in server.cpp, InitialSetup::RunLoop of init_setup.cpp,      *)
(* StartApScan and GetScannedWiFiApList of wifi.cpp, setWifiApList of      *)
(* webui/src/hooks.tsx).  The web server's task and loop() both start      *)
(* scans, and both take the result from the one driver: who takes it first *)
(* deletes it for the other.                                               *)
(*                                                                         *)
(* The driver is external: it blocks who starts a scan until it is over,   *)
(* returns at once when one is running, and has no result after a failure  *)
(* or after scanDelete.  Bound: MaxScans scans.                            *)
(***************************************************************************)
EXTENDS Naturals

CONSTANT MaxScans
MaxScansAssumption == MaxScans \in Nat \ {0}

VARIABLES
  driver,    \* "none", "running", "found", or "nothing": no access point in reach
  loop,      \* RunLoop: "waiting" for a connection, "scanning", "announce", "settings"
  station,   \* a browser's computer has joined the hub's access point
  phone,     \* a phone is connected over Bluetooth
  handler,       \* /wifi_scan: "idle", "delay", "scanning", "polling"
  shown,     \* the page: "none", "scanning" or "list"
  scans,     \* how many scans have begun
  \* history
  failed,    \* a scan failed, or found nothing
  stolen     \* the result was taken before loop() said that there is a scan

vars == <<driver, loop, station, phone, handler, shown, scans, failed, stolen>>

Init ==
  /\ driver = "none" /\ loop = "waiting" /\ station = FALSE /\ phone = FALSE
  /\ handler = "idle" /\ shown = "none" /\ scans = 0
  /\ failed = FALSE /\ stolen = FALSE

-----------------------------------------------------------------------------
(* The driver *)

\* WiFi.scanNetworks(false): a running scan goes on; otherwise the old result
\* is dropped and a scan begins, or fails to.
ScanNetworks ==
  \/ driver = "running" /\ UNCHANGED <<driver, failed>>
  \/ driver # "running" /\ driver' = "running" /\ UNCHANGED failed
  \/ driver # "running" /\ driver' = "none" /\ failed' = TRUE

ScanEnds ==
  /\ driver = "running"
  /\ \/ driver' = "found" /\ UNCHANGED failed
     \/ driver' = "nothing" /\ failed' = TRUE
     \/ driver' = "none" /\ failed' = TRUE
  /\ UNCHANGED <<loop, station, phone, handler, shown, scans, stolen>>

\* Mutant of ScanState: no result is taken for a scan that goes on.
ScanStateNoFailure == IF driver = "found" THEN "succeeded" ELSE "scanning"

\* What GetScannedWiFiApList returns: n <= 0 is "still scanning".
ScanState == CASE driver = "none" -> "failed"
               [] driver = "found" -> "succeeded"
               [] OTHER -> "scanning"

-----------------------------------------------------------------------------
(* loop(): RunLoop *)

Join == /\ ~station /\ station' = TRUE
        /\ UNCHANGED <<driver, loop, phone, handler, shown, scans, failed, stolen>>
Leave == /\ station /\ station' = FALSE
         /\ shown' = "none"
         /\ UNCHANGED <<driver, loop, phone, handler, scans, failed, stolen>>

ConnectPhone == /\ phone' = ~phone
                /\ UNCHANGED <<driver, loop, station, handler, shown, scans, failed, stolen>>

\* The page is opened, or its WebSocket opens again: SendAllToClient tells
\* whether a scan is running, and the list of the last one.
Load ==
  /\ station /\ shown = "none"
  /\ shown' = IF driver = "running" THEN "scanning" ELSE "list"
  /\ UNCHANGED <<driver, loop, station, phone, handler, scans, failed, stolen>>

Tell(what) == shown' = IF shown = "none" THEN shown ELSE what

LoopStartsScan ==
  /\ loop = "waiting" /\ station
  /\ scans < MaxScans /\ scans' = scans + 1
  /\ ScanNetworks
  /\ loop' = IF driver = "running" THEN "announce" ELSE "scanning"
  /\ UNCHANGED <<station, phone, handler, shown, stolen>>

\* Only a phone is there: no scan, neither now nor when a station joins later.
LoopSkipsScan ==
  /\ loop = "waiting" /\ phone /\ ~station /\ loop' = "settings"
  /\ UNCHANGED <<driver, station, phone, handler, shown, scans, failed, stolen>>

LoopScanReturns ==
  /\ loop = "scanning" /\ driver # "running"
  /\ loop' = "announce"
  /\ UNCHANGED <<driver, station, phone, handler, shown, scans, failed, stolen>>

\* Only now is the page told that there is a scan.
LoopAnnounces ==
  /\ loop = "announce" /\ loop' = "settings"
  /\ Tell("scanning")
  /\ stolen' = (stolen \/ driver = "none")
  /\ UNCHANGED <<driver, station, phone, handler, scans, failed>>

LoopTakes ==
  /\ loop = "settings" /\ station /\ ScanState = "succeeded"
  /\ driver' = "none"
  /\ Tell("list")
  /\ UNCHANGED <<loop, station, phone, handler, scans, failed, stolen>>

LoopWaits ==
  /\ loop = "settings" /\ ~station /\ ~phone /\ loop' = "waiting"
  /\ UNCHANGED <<driver, station, phone, handler, shown, scans, failed, stolen>>

-----------------------------------------------------------------------------
(* The web server's task: GET /wifi_scan *)

WebAnnounces ==
  /\ handler = "idle" /\ station /\ shown # "none"
  /\ scans < MaxScans /\ scans' = scans + 1
  /\ handler' = "delay" /\ Tell("scanning")
  /\ UNCHANGED <<driver, loop, station, phone, failed, stolen>>

WebStartsScan ==
  /\ handler = "delay"
  /\ ScanNetworks
  /\ handler' = IF driver = "running" THEN "polling" ELSE "scanning"
  /\ UNCHANGED <<loop, station, phone, shown, scans, stolen>>

WebScanReturns ==
  /\ handler = "scanning" /\ driver # "running"
  /\ handler' = "polling"
  /\ UNCHANGED <<driver, loop, station, phone, shown, scans, failed, stolen>>

\* while (true): it ends with a result or without one, and says so only with one.
WebTakes ==
  /\ handler = "polling" /\ handler' = "idle"
  /\ \/ /\ ScanState = "succeeded" /\ driver' = "none" /\ Tell("list")
     \/ /\ ScanState = "failed" /\ UNCHANGED <<driver, shown>>
  /\ UNCHANGED <<loop, station, phone, scans, failed, stolen>>

Loop == \/ LoopStartsScan \/ LoopSkipsScan \/ LoopScanReturns \/ LoopAnnounces
        \/ LoopTakes \/ LoopWaits
Web == WebStartsScan \/ WebScanReturns \/ WebTakes

Next == ScanEnds \/ Join \/ Leave \/ ConnectPhone \/ Load \/ Loop \/ WebAnnounces \/ Web

Spec == Init /\ [][Next]_vars
\* Both tasks are scheduled, and a scan ends after some seconds.
Fairness == WF_vars(ScanEnds) /\ WF_vars(Loop) /\ WF_vars(Web)
FairSpec == Spec /\ Fairness

-----------------------------------------------------------------------------
(* Properties *)

\* The handler of /wifi_scan, which holds up all requests while it waits, comes
\* to an end, whoever takes the result; but when no access point is in reach it
\* waits until a later scan finds one.  A page that shows a scan comes to show a
\* list, unless a scan failed or found nothing, or the handler took the result of
\* loop()'s scan before loop() said that it was scanning.
HandlerEnds ==
  /\ (handler # "idle") ~> (handler = "idle" \/ driver = "nothing")
  /\ (shown = "scanning") ~> (shown # "scanning" \/ failed \/ stolen)
=============================================================================
