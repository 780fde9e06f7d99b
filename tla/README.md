# kachaka-button-hub in TLA+

The hub is an ESP32 program (`button_hub/`): it hears the presses of iBeacon
buttons, of its own buttons and of wired (GPIO) buttons, looks the button up in
a table, and sends the command it finds there to a Kachaka robot over gRPC or
to a web server. Browsers configure it over HTTP and watch it over a WebSocket.
This directory models the parts of it that run concurrently, survive power
losses or have to recover by themselves, and the HTTP/2 library (`src/nghttp2`)
through which it speaks to the robot; it checks them with TLC on small
instances, and proves the most important results with TLAPS for all instances.

1. [Inventory](#inventory)
2. [How the modules model the code](#how-the-modules-model-the-code)
3. [The runs](#the-runs)
4. [The proofs](#the-proofs)
5. [What is not modelled](#what-is-not-modelled)
6. [Plan](#plan)

## Inventory

Tasks of the program, all on FreeRTOS: the **loop** task (`setup` and `loop` of
`button_hub.ino`), the **web server's** task (`async_tcp`, one request or
WebSocket event at a time), the **BLE host** task (it calls `BeaconCallback`),
the **Fetch** task (one at a time, `fetch_state.cpp`), a **SendGrpcTask** per
call to the robot (`api.cpp`), the **Ping** task, and during an update the
**Ota** and **OtaWatchDog** tasks. They share state under mutexes that are
always taken in this order: `g_button_queue_mutex`, then `api_mutex`, then the
short ones (`CommandTable::mutex_`, the WebSocket queue's, `fetch_state`'s, the
log's); no two tasks take two of them in opposite orders, so they cannot wait
on each other in a circle. `SendGrpcTask` takes none.

| Component | State | Operations | What makes it correct |
|---|---|---|---|
| command table (`command_table.cpp`) | `registered_commands_`, `button_names_`, `observed_buttons_` in RAM; `/command_table.dat` and `.tmp` in SPIFFS | `SetCommand`, `DeleteCommand`, `LoadCommandArray`, `SetButtonName`, `DeleteButtonName`, `Save`, `Load`, `Reset`, `NotifyObservedButton` | one command per button; automatic names unique for ever; a boot restores what was saved; a save replaces the stored table as a whole |
| handlers (`server_commands.cpp`, `server_info.cpp`) | none | POST, PUT, DELETE of commands and names; settings; clear all; OTA by URL | what was answered 200 is in the table, is saved and is broadcast |
| settings (`settings.cpp`) | NVS keys with copies in RAM | getters, setters, counters, `Reset` | counters never go back without a reset |
| robot API (`api.cpp`, `api_mutex`) | `g_send_buffer`, `g_result_code`, `g_request_finished`, one `Service` per function, the response variables | one function per RPC; `EncodeSendAndWait`; `SendGrpcTask` | calls do not meet; an answer goes to its call; the robot gets what was meant |
| fetch (`fetch_state.cpp`) | `g_state`, `g_last_start_time`, the `RobotInfoHolder` | `FetchRobotInfo`, its throttled form, the Fetch task | one fetch at a time; lists without duplicates; a fetch that has its task ends when the robot is there |
| commands (`send_command.cpp`) | none | `SendCommand` | a press starts a command at most once |
| main program (`button_hub.ino`) | `g_last_beacon_time`, `g_button_queue`, `g_page`, `g_reboot_count_down` | `BeaconCallback`, `HandleButtonPressed`, `CheckReboot`, `CountDownReboot`, `setup`, `loop` | every accepted press is handled once, in order; the hub reboots when it is stuck and only then |
| GPIO buttons (`gpio_button.cpp`) | per pin: level, time, event flag | `Register`, `Unregister`, `HandleEvents` | one event per press longer than 50 ms |
| web server (`server.cpp`) | WebSocket queue and client count, `wifi_scan` state, one static body buffer | broadcast, connect and disconnect, body assembly, scan | the last message a browser gets is the last state; bodies do not mix |
| Wi-Fi and initial setup (`wifi.cpp`, `init_setup.cpp`, `bluetooth_peripheral.cpp`) | connection state, BLE characteristics | join, time out, offer an access point, reset all | either joined, or being set up, or restarting |
| ping (`ping_to_robot.cpp`) | last success, a result queue | `Begin`, `Update`, `Stop` | a robot that answers is seen to answer |
| update (`ota.cpp`) | fail count and URL in NVS, progress, watchdog | check, start, end, error, restart | no endless loop of failing updates; none is lost |
| logs (`logging.cpp`) | queue, files by number | `Log`, `Update`, remove old files | bounded, the newest kept |
| JSON (`from_json.cpp`, `to_json.cpp`) | none | a command or a button to JSON and back | what was written is what is read |
| robot version (`robot_version.cpp`) | none | parse, compare | a total order that agrees with the numbers: it decides how `SendCommand` makes the robot wait |
| HTTP/2 session (`src/nghttp2`, `sh2lib.c`) | streams, windows, queues of frames, the tables of header compression, a partial frame | submit, send, receive, close | frames and headers arrive as they were sent; limits are kept; nothing is lost from a window; requests end |
| resolver (`ip_resolver.cpp`) | last name and its address | resolve, cached | the address belongs to the name |
| beacon scanner, screen, beeper, QR code | little or none | conversion and output | |

How they interact. `loop` takes a press from the queue (or from a button of the
hub) and calls `HandleButtonPressed`: it tells the table, broadcasts the list of
observed buttons, looks the command up, takes `api_mutex` and calls
`SendCommand`, which calls one or two functions of `api.cpp`; each creates a
`SendGrpcTask` and waits up to 30 s for its notification. The Fetch task holds
`api_mutex` from its first call to its last, retries included. A browser that
connects may start a fetch (throttled), a request edits the table and saves it.
The watchdogs in `CheckReboot` look at the clock, the Wi-Fi, the fetch and the
ping, and restart the hub, which loses the RAM and keeps NVS and SPIFFS.

The hard parts, in the order of their weight: a call to the robot that outlives
its 30 s and shares its variables with the next one; power lost in the middle of
a save, and counters and tables stored in different places; presses, fetches and
requests interleaved by five tasks; long waits under a mutex that others need;
watchdogs that must fire when the hub is stuck and must not otherwise; updates
that fail at boot; snapshots for the browsers that are taken in one place and
sent in another; a table of commands that four conversions pass on to each other;
an HTTP/2 session that a peer may reset, throttle or leave at any frame.
`PROJECT.json` lists each hazard at its line.

## How the modules model the code

### DurableTable, CommandTable, MCCommandTable

`CommandTable` is the table, its file and every step that touches either: the
handlers of the web server's task, `Save` as its four file operations, the boot
(`Load`, item by item), and the loop task's naming of the hub's own buttons.

| Variable | Code |
|---|---|
| `commands`, `names` | `registered_commands_`, `button_names_` |
| `http`, `loop` | where the web server's task and the loop task are |
| `todo`, `valid` | what `LoadCommandArrayLocked` has still to read, and its `ok` |
| `naming`, `gpioPrev` | the buttons `Register`/`Unregister`/`setup` have still to do; the static `prev` |
| `nextButtonId`, `gpioEnabled` | the NVS keys `next_button_id`, `gpio_button` |
| `main`, `tmp` | `/command_table.dat`, `/command_table.tmp`: `Absent`, `Torn` (opened for writing, incomplete) or a complete image |
| `idsReset` | history: the counter was reset and the stored table was not |

Each method of `CommandTable` holds `mutex_` throughout, so it is one step,
except where the power can go in between: `Save` is `SaveOpen`, `SaveWrite`,
`SaveRemove`, `SaveRename`, and `LoadCommandArray` takes one item at a time,
because each item may count `next_button_id` in NVS. While such a method is
under way (`Locked`) no other step of the table is enabled. Every file operation
may fail, as the code allows. `Reboot` is enabled in every state and stands for
all restarts and power losses.

The order of `registered_commands_` is left out (nothing but the order in the
browser depends on it). "ボタンN" is the number N. Users are assumed not to choose
names of this form: if one does, the program gives the name out a second time,
and uniqueness of names was never promised for those. All fixed names of the
hub's buttons are one name, `HubName`.

External, assumed of SPIFFS: removing and renaming are atomic; renaming fails
when the new name exists; a file that was not closed after its last write may be
incomplete after a power loss.

`DurableTable` states what all this is for, in six actions: the stored table
becomes the table in RAM as a whole, or nothing; it becomes nothing only by an
erase or in one short window (between `remove` and `rename`).
`CommandTable` is shown to implement it, with the temporary file as the stored
copy inside the window.

### GrpcApi, MCGrpcApi

`GrpcApi` is `api.cpp` with its two callers.

| Variable | Code |
|---|---|
| `holder` | who has `api_mutex` |
| `pc`, `calling` | where each caller is, and in which function of `api.cpp` |
| `press`, `pending` | the press the loop task handles, and those to come |
| `fetchState`, `info`, `has` | `g_state`, the `RobotInfoHolder`'s lists (how many copies of the answer they hold) and its flags |
| `result`, `buffer`, `finished`, `got` | `g_result_code`, `g_send_buffer`, `g_request_finished`, the response variables |
| `parent` | `parent_task_handle` of each function's static `Service` |
| `notified` | the callers' FreeRTOS notification values |
| `sender` | the `SendGrpcTask`s; `by` and `body` are history |
| `delivered` | history: how often the robot was given a press's command |

A caller goes `lock`, `call`, `wait` and on (`ReturnToFetch`, `ReturnToLoop`); a
`SendGrpcTask` goes `connect`, `exec`, `sent`, `answered`, `notify` and is gone.
The functions that send a button's command differ only in the body they encode
and are one function here; `Lock` is apart, since `SendCommand` calls it second.
What the robot answers is one fact: the lists grow by one copy, or the stream
ends without an answer.

`Late` says whether a call may outlive `kDefaultTimeoutMsec` (30 s). With
`Late = FALSE` every caller waits for its task; with `Late = TRUE` it may leave
at any time, and the task goes on as the code has it: it reads the buffer, sets
the result, ends other tasks' waits and notifies whatever its `Service` names.
The handle of a deleted Fetch task, which the code may still notify, is modelled
as the task being gone: its value is not touched.

No result of `xTaskCreate` is looked at, in `FetchRobotInfo` no more than in
`SendGrpcTask`'s callers. A fetch whose task was not created (`FetchWithoutTask`)
stays `kFetching`, and no other starts, until the restart by `CheckReboot`, which
is `Supervisor`'s: `StuckFetchReboots` there says that it comes. Here such a hub
goes on with its presses. `FetchEnds` is about a fetch that has its task.

### ButtonPath

`ButtonPath` is the way of a beacon's press to `HandleButtonPressed`.

| Variable | Code |
|---|---|
| `airing`, `inbox` | external: the beacon's burst of advertisements, and those the BLE host has still to report |
| `heard`, `diff` | the keys of `g_last_beacon_time`, and what `now - it->second` gives for each |
| `ble` | the button whose press `BeaconCallback` has accepted and not yet queued |
| `queue` | `g_button_queue` |
| `loop` | whether the loop task handles the queue's front (and has `g_button_queue_mutex`) or a button of the hub |
| `pending`, `taken`, `age`, `shift` | history |

`BeaconCallback` is two steps, since it may wait for the mutex between them. How
long `HandleButtonPressed` takes, and whether the button has a command, is left
open: any number of `Tick`s may pass. `Tick` (a second) does not happen while a
task has something to do at once. Times older than `Oldest` are one: they make
no difference however the clock is set. External, assumed of the beacons and of
NimBLE: a press is advertised for less than `kButtonIgnoreDurationSec`, which is
what that duration is for; advertisements may be lost and are reported in order,
those that arrive during a callback after it.

### Supervisor

`Supervisor` is `CheckReboot` with all it looks at: the clock, the Wi-Fi, the
Fetch task, the pings, and with what can keep it from looking, since it runs in
the loop task.

| Variable | Code |
|---|---|
| `mode`, `loop`, `press`, `page` | `setup` or `loop`; the place in `loop`; `HandleButtonPressed` before and behind its lock; `g_page` |
| `timeKnown`, `wasFour` | `getLocalTime` succeeds; the static `prev_hour` is 4 |
| `watching`, `offline` | the static `last_connected_time`: initialized, minutes since |
| `sinceGood`, `ping` | `g_last_success`; `g_available` and `g_ping_result` |
| `fetching`, `sinceStart`, `known` | `g_state`, `g_last_start_time`, all `has_` flags |
| `mutex` | who has `api_mutex` |
| `wifi`, `robot`, `hour`, `due` | the world, and what is still to happen in this minute |
| `cause`, `sincePong`, `sinceBlind`, `sinceIdle`, `rebootedAtFive` | history |

Time is counted in minutes, the period of `CheckReboot`; `Tick` ends a minute
when everything that runs in each minute has run. A press waits for `api_mutex`
any number of minutes, because the Fetch task keeps it over all its retries;
then neither the pings are collected nor the watchdogs run. Pings are also not
collected while the setting page is shown. The calls of a press and of a fetch,
which `GrpcApi` has in detail, are one step here. The other restarts (a reset
button, clear-all, an update) are left out: they stop the watchdogs for reasons
of their own.

### Ota

`Ota` is the firmware update: `setup`'s decision between the button server and an
update, the Ota task, its watchdog, the count-down, and the requests of users.

| Variable | Code |
|---|---|
| `url`, `auto`, `oneShot`, `failCount` | the NVS keys `reboot_ota_url`, `auto_ota`, `1shot_auto_ota`, `ota_fail_count` |
| `version` | `kVersion` of the firmware that boots |
| `mode`, `stage`, `image`, `manual` | `g_mode`; the place in `setup`; its `ota_url`, and whether that came from a user |
| `task`, `tries`, `left` | the Ota task; the trial; reads until `written` is `content_length` |
| `watchdog`, `idle` | the OtaWatchDog task; minutes since `g_last_update` |
| `countDown` | `g_reboot_count_down`, the minute after a failure |
| `offered`, `events` | the version the server wants; the bound |
| `asked`, `autoTries`, `unreported` | history |

`setup` is one step per write to NVS, because the power may be lost between any
two; everything in RAM is then lost. `Restart` is the common part of the power
loss, the reset button, the watchdog, the count-down and the restart after a
success. The server may answer or not, a download may fail, send too much, or
stop (then only the watchdog ends it), `Update.end` may reject the image, and
either task may not be created. External, assumed of the server: the image it
names for a version is of that version (with another one the hub would update
again and again, each time with success); of the Update library: `end` switches
to an image that is whole, or not at all. Left out: clear-all, which sets the
keys back (`CommandTable` has it), and the initial setup (`WifiSetup`).
`OtaConstants` holds the constants that the component and its proofs share.

### WsBroadcast, MCWsBroadcast

What the browsers are told, and when.

| Variable | Code |
|---|---|
| `version`, `observed`, `writing` | the topics in RAM, each as the number of its changes; `observed_buttons_` itself; who is in the middle of a write that readers do not lock out |
| `todo`, `held`, `joining`, `fetch` | what each of the three tasks has still to announce; the snapshot it has converted and not enqueued; `SendAllToClient`; the lists still to fetch |
| `clearing` | how far `HandleClearAllData` has got: the settings, the tables in the middle of `CommandTable::Reset`, all of it; then it waits for the restart |
| `queue`, `clients`, `view` | `g_ws_message_queue`, `g_ws_clients`, what each browser shows |
| the others | history |

A snapshot and its enqueueing are two steps, as they are in the code, with any
other task between them. A snapshot read in the middle of a write is `Garbled`:
`to_json` reads the `RobotInfoHolder`, and the web server's task the list that
`GetObservedButtons` returns by reference, without the writer's mutex.

The list of observed buttons has two writers, `NotifyObservedButton` in the loop task
and `Reset`, which clear-all calls in the web server's task; each holds the table's
mutex. After `Reset` that task beeps and waits for a second while the others
go on, so that presses fill the list again before the restart: `ObservedLatest` counts
them from the boot or from the moment the data was cleared.

`SettledViews` says that when nothing is left to announce, every browser shows
the present state, and its three exceptions are facts about the code: topics
changed by code that announces nothing (a PUT of all commands that names buttons or
fails half way, the one-shot setting, the registering of GPIO buttons, clear-all); topics whose last two snapshots were enqueued in
the wrong order; texts the library dropped because a browser was slow.

### WifiSetup, ApScan, RequestBody, LogFiles, GpioButton

Five small parts of the hub, each with its own variables, checked together in
`MCHubParts` with `Ota` and `CommandFlow` (a behaviour is of one of them; the
variables of the others keep still).

- `WifiSetup`: `setup()`'s connection, the two ways in which settings come
  (`HandleSetWiFi`, seven keys of NVS one by one; `ProcessInitialSetting`, three),
  each interrupted by the other, by a reset or by a loss of power. A value is
  the request it came from, so that a key left over from an earlier request shows.
  A boot that finds a name and a static address gives the address to `WiFi.config`
  (`netAddress`), and nothing takes it back before the next boot: the phone's check comes with
  empty strings, for which `ConnectToWiFi` skips that call, so it tries the network
  with the address in force. `WL_CONNECTED` says that the name and password are right
  (`Joins`), not that the address is; the ping of the robot is what depends on the
  address, and its outcome is open in the model. `ConfirmedJoins` relates the two boots:
  the network that a phone was told is confirmed is joined, with the address that was tried.
- `ApScan`: the Wi-Fi driver (external), `RunLoop`, the handler of `/wifi_scan`
  and the page, two of which start scans and both of which take results away.
- `RequestBody`: the one static `String` in which bodies are put together.
- `LogFiles`: the numbers of log files, the queue, the popped line; numbers come
  again when NVS is cleared and the files are not.
- `GpioButton`: the debounce, with times in integers below `Half` and not below its negative: `millis()`
  wraps, `last_on_time_` is signed with -1 for "off", `time_t` is wider than an
  `int` or not, depending on the toolchain.

### CommandFlow, CommandFlowValues, ButtonJson, RobotVersion

The way of one command: chosen in the editor, sent as JSON, read by
`ConvertCommandJson`, kept, written by `FillCommandJson` to the flash and to the
browsers, read again after a boot, and at a press turned into one or two requests
to the robot, depending on the robot's version. The editor starts from what the
hub sent, so what one step drops is lost for good.

| Variable | Code |
|---|---|
| `button`, `table`, `flash` | the button that is edited; its `CommandItem`; its entry in the file |
| `known`, `robot` | the version in the `RobotInfoHolder` and the robot's own |
| `pressed`, `sent` | the press that was served, and the requests it made |
| `asked` | history: what the editor showed when the command was saved |

Each step is atomic here; what may happen between is the subject of
`CommandTable`, `GrpcApi` and `WsBroadcast`. The browser's view is taken to be the
latest broadcast. `MCHubParts` puts `ButtonJson` and `RobotVersion` in, and
`CommandFlowValues` has the instance: 13 payloads with four combinations of options, lock times of zero,
at the code's threshold, above it and negative; the versions 2.10.3,
3.1.0 and a developer's 3.2 as texts that `RobotVersion` parses and compares;
six buttons whose addresses and UUIDs go through `ButtonJson` byte by byte.
Titles are left out.

`RunsAsAsked` excepts two types. `api::StartShortcut` (`api.cpp:572`) drops
`cancel_all`, `tts`, `deferrable` and the lock, though `kachaka-api.proto:657`
has the first and the editor (`webui/src/CommandEditor.tsx:209`) offers them all; TLC shows it in
three states when the exception is taken out. The same holds of an emergency stop.
Two more facts the model has: an unknown type of command is accepted and stored
(`from_json.cpp`), and a robot of 3.1.0 or later whose version the hub does not
know yet, or no longer knows, waits twice.

### The HTTP/2 session

The vendored nghttp2 as a client's library, in one module per part, because the
parts meet in narrow interfaces and each has its own kind of case. `Http2Parts`
composes those that theorems are about (`Hpack`, `HttpMessages`, `LocalWindow`, `StreamMap`,
`BinaryHeap`); `MCHttp2`
adds the others, of which some use RECURSIVE operators and are for TLC. `Sums` has the sum
of a sequence, as a recursive function, so that theorems can speak of it.

| Module | Code | What is a parameter or left out |
|---|---|---|
| `StreamMap` | `nghttp2_map.c` | the hash is any function with few bits |
| `BinaryHeap` | `nghttp2_pq.c` | `nghttp2_pq_update`, which nobody calls |
| `StreamTree` | `nghttp2_stream.c`: dependencies, weights, cycles | the heap (queues are sets with least members) |
| `Hpack` | the two tables of `nghttp2_hd.c`, over an ordered connection | bytes; names are compared as a whole |
| `HpackLiterals` | integers, strings and Huffman codes in pieces | bytes of four bits, a small complete code |
| `HeaderTokens` | `static_table`, `lookup_token`, the choice of a representation | the hash column; the dynamic table (`Hpack`) |
| `HeaderText` | `nghttp2_helper.c`'s tables of characters, `parse_uint` | 18 bytes: every border of every table |
| `Http2Inbound` | `nghttp2_session_mem_recv2`: frames out of pieces | lengths of fields; what a frame does is its "verdict" |
| `Http2Outbound` | `nghttp2_frame_pack_*`, `nghttp2_buf.c`, padding, CONTINUATION, `session_after_frame_sent*` | a cell is what the code puts with one call |
| `HttpMessages` | `nghttp2_http.c` | characters (`HeaderText`), servers, CONNECT and upgrades |
| `LocalWindow` | `nghttp2_adjust_local_window_size` and its callers | data: their number |
| `Http2Session` | streams, queues, flow control, SETTINGS, GOAWAY, push, `sh2lib_execute`, `OnSendData` | frames are whole (`Http2Inbound` has pieces), headers are good or bad (`HttpMessages`), any stream may be next (`StreamTree`) |

`Http2Session`:

| Variable | Code |
|---|---|
| `c` | `nghttp2_session` and its streams: states, windows, the three outbound queues, `aob`, `goaway_flags`, limits |
| `turn` | where the loop of `sh2lib_execute` is |
| `down`, `server`, `extras` | external: frames on their way, what the server knows, how many more it may add |

The server keeps to the protocol, but for "wrong" frames about streams it knows;
it answers what it was asked, resets, changes its SETTINGS, promises, says it
goes away, at any time. `session_recv` reads until nothing is left, so a turn of
"recv" may take any number of frames. `nghttp2_session_mem_recv2` looks at
`want_read` at its start only. TLS is external: bytes come in order or the
connection fails.

What was left out of all of them: the client's magic, the extension frames
ALTSVC, ORIGIN and PRIORITY_UPDATE (the hub does not turn them on), DATA without copy, the new priority
scheme (`sfparse.c`), failing allocations. The parts that are data in the code were compared with
it by a script: the static table and `lookup_token` with `HeaderTokens`, and
`huff_decode_table` with the table that `HpackLiterals!DecodeTable` makes of
`huff_sym_table`.

## The runs

| Run | Question | Instance | Result |
|---|---|---|---|
| `table_flash` | names, boots, durability | 1 beacon, 1 GPIO button, 1 command, 1 user name, 2 automatic names | no error |
| `grpc` | do calls meet when none is late? | 2 fetch tasks, 2 senders, 2 presses (symmetric) | no error |
| `grpc_live` | presses end, and fetches that have their task | 1 fetch task, 1 sender, 1 press, calls late for some time, fairness | no error |
| `grpc_timeout` | api_mutex.hpp: the mutex protects the calls | as `grpc`, calls late | violated |
| `supervisor` | does a hub that is stuck restart, and only then? | limit of 2 minutes, fairness | no error |
| `buttons` | is each press handled once and in order? | 2 beacons, ignored for 2 s after a press, bursts of 1 s, fairness | no error |
| `ota_one_shot` | the settings page: restart and update | 2 versions, 3 failures | violated |
| `broadcast` | do browsers come to show the present state? | 2 browsers, 3 buttons of which 2 are listed, 3 changes | no error |
| `hub_parts` | seven small parts: updates, network settings, scans, bodies, logs, debounce, a command's way | see below, fairness | no error |
| `http2` | the parts of the HTTP/2 library beside its session, each by itself | see below | no error |
| `http2_session` | does a session lose nothing, keep to the limits, and end? | 1 request, 1 promise, 1 extra frame, fairness | no error |

Bounds. `MaxButtonId = 2` lets both buttons of the instance be named
automatically and, after a name was deleted, a number be needed again; the
states in which a third number would be needed are cut off. Two buttons are
enough for the uniqueness properties, which relate two buttons; the theorems below hold
for any number. `MCCommandTable!View` leaves the temporary file out of a state
in which nobody will read it. Two fetch tasks and two senders let a second of
each exist beside the first, which is what the properties exclude; two presses
let one be handled after the other.

`Ignore = 2` and `Burst = 1` are the smallest durations in which an advertisement
can come within the ignored time, at its end and after it; two advertisements
that wait, and two presses in the queue, let the order of two matter; the clock
is set once, by one second, forward or back. `ButtonPathProofs` proves the safety
properties without these bounds.

`Limit = 2` in `supervisor` stands for the three minutes of the watchdogs: `> 2` fires in the
third check after the last good one, so that a single good result in between is
seen to postpone it. One event a minute (the Wi-Fi or the robot goes or comes, a
button, a browser) keeps the instance small; as the minutes go on for ever, any
order of events is possible.

`broadcast`: three changes let a snapshot of one task be overtaken by another's and
a third change follow; with three buttons and a list of two, the list overflows.

`hub_parts`, by part. Updates: three failures are the code's; two trials and two reads let
one be followed by another; two minutes are the watchdog's. An event is a user's
request, a new version at the server, or an interruption before an update has
begun; interruptions during an update are not bounded, since each is counted in
`failCount`, which is what the properties are about. `HubPartsProofs` proves the safety
properties without these bounds. Network settings: two requests of each kind, one
with a static address, five requests and interruptions in all, so that one request
can be cut off by a second and followed by a third. Scans: three. Bodies: three
requests of one, two and three pieces, any number of times. Logs: files of two boots
are kept and there are five boots, so that old ones go and numbers come again.
Debounce: integers of five bits wrap within 40 ms of uptime. Commands: see `CommandFlow`.
The run does not ask for the absence of deadlocks: a hub whose Ota task could not be
created waits for its user.

`http2`, by part: four keys in tables of four and eight buckets, with every
assignment of three-bit hashes; trees of two streams with frames that differ in length
and of three streams, four changes; heaps of six entries with two ranks, so that
removal from the middle must sometimes go up; two blocks of headers around a change of
the table's size, with names that share a bucket; texts that end at every place in a byte; every name of
the static table and every value in it; texts of three characters; one frame of every kind and every length
around what is right, every block of up to three frames, and all cuts of them into
pieces; messages of four, three and one fields; blocks of one to three buffers
and one cell more or less, in all portions; windows of up to five; two requests with
two settings of the server, one of them with `OnSendData`'s body. `MaxBlock` is three times `MaxPayload`,
as the code's 16 buffers are to 64 KiB: every block below the limit has room.
`http2_session` adds a promise and one frame that nothing asked for (a reset, SETTINGS, GOAWAY, PING, a
wrong frame). Checked once and not kept: messages whose requests are kept whole (8.5
million states), a session whose only body is `OnSendData`'s, with all properties of
`http2_session` (128 thousand), and random behaviours of a session with two requests, a promise and three extra frames.
Both runs leave deadlock out: a part is done when its input is.

Fairness (`GrpcApi!Fairness`). Each caller's own steps and each SendGrpcTask's
are weakly fair: FreeRTOS runs every ready task. `Acquire` is strongly fair: a
fetch is started at most every 30 s (`kInterval`), so no waiter finds the mutex
taken each time it looks. `Connect` is strongly fair: the robot can be reached
again and again. `FairSpec` asks besides that from some time on a call that got its
task ends within 30 s; before that, any number may be late. Without `Connect`'s fairness
the Fetch task tries for ever and keeps the
mutex, and a press waits for ever; this is what the code does.

`ButtonPath!Spec`: the tasks are weakly fair and `HandleButtonPressed` returns
(`GrpcApi`'s `PressServed` says when). `LoopTakes` is strongly fair, because each
round of `loop` comes to the queue, buttons of the hub or not.

`Supervisor!Spec` asks that time goes on, that the Ping task and the loop task
run, and that setup joins a Wi-Fi that stays. It asks nothing of the Fetch task,
which need not have been created (`xTaskCreate`'s result is not looked at).

`Ota!Fairness`: what the hub does by itself goes on (`Hub`, weakly fair), with
the daily restart of the button server, and the server answers some day
(strongly fair). `Read` is not fair: a download may stop anywhere. Nothing is
asked of the power during an update. Both liveness properties make an exception of
`Unwatched`: without memory for the Ota task, or for the watchdog of a download
that stops, nothing but the user restarts the hub.

`ApScan!Fairness`: a scan of the driver ends, with or without a result, and the two
tasks run. `Http2Session!Fairness`: the loop of `sh2lib_execute` goes on (`Execute`,
weakly), what can be written is written and what has arrived is read (`WriteFrame`,
`Receive`, strongly: the loop turns between the two), and the server serves what it
owes (`Serve`, weakly). It need not acknowledge anything else.

The findings. `grpc_timeout`: after a timeout the
SendGrpcTask is neither stopped nor waited for, and goes on using what
`api_mutex` is said to protect. `ota_one_shot`: the update a
user asks for on the settings page is dropped, when earlier ones failed.

Observations, of which no text of the repository promises otherwise:

- `OncePerPress` needs its exceptions. If the loop task keeps the queue's mutex for a slow command while
  a second button is pressed, the advertisements of that press that arrive during
  the wait are looked at afterwards, with the time of then, and the press may be
  taken a second time.
- The hub restarts "due to ping failure" although the robot answered every ping, when the setting page was open
  or a press was waiting for three minutes; "due to fetch
  timeout" never comes if a button was pressed during the fetch. The properties
  `PingRebootJustified`, `LostRobotReboots` and `StuckFetchReboots` of `supervisor`
  say what is true: with these two cases excluded, each restart has the
  cause it names and comes when it must. They also need the time (`timeKnown`):
  without an answer from an NTP server `CheckReboot` looks at nothing.
- Clear-all deletes the counter of automatic names before the table; a restart in between
  gives names out again (`idsReset` in `AutoNamesUnique`).
- A phone's settings leave a static address of an earlier browser's request in NVS, and the hub uses it
  in the phone's network. The phone's check is made with that address too, so that the next boot
  does as the check did (`ConfirmedJoins`), but for one order of events (`torn`): a phone clears
  all settings while a browser's PUT is under way, the PUT goes on to store its address, the hub boots
  without a name and with DHCP, and a phone sends a network that is then tried without that address.
- With no access point in reach the handler of `/wifi_scan` waits, and the web
  server with it, until a later scan finds one (`HandlerEnds`).
- `OnSendData` (`api.cpp:42`) says that the body ends before it looks whether the
  message fits: with a window or a frame that is smaller than the message, the robot
  gets an empty body.
- This copy of nghttp2 takes frames of 4096 bytes at most (`nghttp2_frame.h:47`), where the
  protocol lets a peer that was told nothing send 16384; `sh2lib.c` sends empty
  SETTINGS. A larger frame ends the session with FRAME_SIZE_ERROR.
- `num_continuations` counts the pieces of a frame's header, not frames
  (`nghttp2_session.c:6957`).
- `nghttp2_submit_window_update` leaves a reduction that was repaid to the next
  DATA frame: a peer whose window was used up is not told of it. With manual
  window updates, updates of the application and consumed data add up until a peer
  that did nothing wrong is accused. The hub uses neither.
- In the tree, `last_cycle` of a stream goes back to zero when a part of the tree is cut off, so that
  a queued stream may come to be further away than `NGHTTP2_MAX_CYCLE_DISTANCE`; the hub never changes dependencies.

Every property of a passing run has a mutant, an operator next to the original
that changes it the way a slip in the code would; TLC finds the property
violated with it.

## The proofs

One module of proofs for each of `CommandTable`, `GrpcApi`, `ButtonPath`,
`Supervisor` and `WsBroadcast`; one for the parts that `MCHubParts` composes, the update
among them (`HubPartsProofs`); one for
the session (`Http2SessionProofs`) and one for five of its parts (`Http2PartsProofs`). They are for every value of the constants
under their named assumptions (button kinds are disjoint, names are not numbers,
files are not images; tasks are distinct; a burst is shorter than the ignored
time; limits are positive and `None` is not a version; a message is none of the
other values that stand next to it; streams of requests are odd and those of
promises even; SETTINGS name no window that is larger than the greatest, which would end
the session; the bounce time fits into an int; buttons differ in their data, and the robots that
know `lock_on_end` are those that `RobotVersion` does not take to be older than 3.1.0).

- `CommandTable`: the inductive invariant `IInv` is the type invariant with
  `BootAlone` (no request before the boot is over), `Saving` (while the files are
  swapped, the temporary one is the table in RAM; the main one is never torn),
  `OneCommandPerButton`, `AutoNamesUnique` and `Restoring` (what a boot has put
  back so far). From it: `TypeInvariant`, `OneCommand`, `NoAutoNameTwice`,
  `StoredIsRestored`, and `Refinement`, that `CommandTable` implements
  `DurableTable`. `AutoNamesUnique` alone is not inductive: the file may be
  restored, so it speaks of the file too, and a save must store the table that
  satisfies it, which is `Saving`.
- `GrpcApi`: `IInv` is `Discipline`, which holds however late calls are (types,
  one fetch at most has a task, the holder of the mutex is exactly the one task past its lock), and,
  if no call is late, `Punctual`: the one running SendGrpcTask works on its
  waiting caller's buffer, with its caller's handle, a notification means that it
  has ended, and a press that is still to be delivered has not been. From it
  `TypeInvariant`, `OneTaskFetches` and `MutualExclusion` without condition, and
  `GuardedUnlessLate`, `WokenByOwn`, `PressStartsOnce`, `OwnBodyIsSent` under
  `~Late`. The condition is not for the proof's convenience: `grpc_timeout` shows
  the first of them false without it.
- `ButtonPath`: `IInv` is the types with `Clocked` (the time since a press by the
  clock and in truth differ by what the clock was set since), `Fresh` (an
  advertisement of an accepted press is as old as it waited and the burst lasts,
  at most) and `PressesInOrder`. From it `TypeInvariant`, `InOrder`, `FrontStays`,
  `AcceptedOnce` and `RightlyIgnored`, for any durations, any number of beacons and
  any size of the queue. `OncePerPress` speaks of how long an advertisement waited;
  `Fresh` is what relates that to the time since the press.

- `Ota`: `IInv` is the types with `Placed` (what belongs to which part of a run),
  `Counted` (an automatic update that can fail has been counted, and was begun
  below the limit), `Streak` (what was counted has been begun) and `Requests` (a
  request is in flash, or with the boot that serves it). From it `TypeInvariant`,
  `Bounded`, `OffForFailures` and `OncePerRequest`, for any limits and versions.
  `AutoGivesUp` alone is not inductive: `autoTries` rises when the hub restarts,
  `failCount` when the update begins, and `Counted` keeps them together in
  between. The version switch and the clearing of the count are two steps, which
  is why `Streak` bounds the count from above and not exactly.

- `Supervisor`: `IInv` is the types with `BootsAfresh`, `Daily` (after the daily
  reboot, neither it is four nor was four seen), `Pongs` and `Fetches`, which
  relate the ages that the hub measures to those of the history. From it
  `RebootsOnceADay`, `PingRebootsJustified` and `FetchRebootsJustified`, for any
  number of minutes. The three are action properties: what has to be
  invariant is that an age the hub measures is never larger than the true one, with
  the excepted cases told apart (`sinceBlind`, an answer not yet collected).
- `WsBroadcast`: `Settling` says where the present state of a topic is, for every
  topic and browser: shown, or in the queue, or in the hands of a task, or still to be read, or
  among the exceptions. `SettledViews` follows when nothing is left to do.
  A message that a task holds may be torn or old, and then a newer one must be coming:
  that is `HeldAsRead`, without which the rest is not inductive.
  `ObservedAreTheLatest` needs what `remove_if` does to a list without repetition.
- `HubPartsProofs` is about the composition of `MCHubParts`, so that its theorems
  state what the run checks: each step of the composition is one of a part and
  nothing to the others. `StoresOneRequest` and `JoinsAsConfirmed` rest on
  `WebSoFar` and `BleSoFar` (the keys that a writer without a rival has passed
  hold its values), the latter also on `Named` (a hub without a name has no address, since a browser
  stores the name first) and `InForce` (as long as nobody writes, the address in force is the stored one), `BodyIsOwn` on `Gathered` (the buffer is the pieces so far,
  in order), `LogFilesKept` on `Numbered` and `LinesInOrder` (file, popped line,
  queue are in order, each below the next). `BouncesOnce` is arithmetic: with
  lemmas about `%` it holds for any width of an `int`, where the run has one of 32 values.
- `CommandFlow`, in `HubPartsProofs`: `FlowInv` says that as long as it is known what the editor
  showed, the command in the table says the same (`Fits`) and so does its JSON in the file
  (`JsonFits`); a lock time that the hub does not write is one that no step acts on.
  Each way from one to the other is a lemma, whatever the command was before: `EditorFits`, `Reads`,
  `WritesFit`, `Sends`. That table and file are about the same button after any number of boots
  is `ButtonReadsBack`: any six and sixteen bytes come back out of the text of an address
  and of a UUID (`TextReads`), and any two numbers of 16 bits out of theirs. From it `DoesAsAsked`,
  for any buttons, payloads, options and versions.
- `Http2Session`: `IInv` says that requests wait in one queue, in order and
  nowhere else (`InLine`, `Shape`), that the server has begun nothing that is not sent
  (`ServerKnows`), that a frame on its way that refuses a request is about one the server
  has not begun and never will (`OnTheWay`), and the same of what is reported (`RefusedNever`).
  `RefusedUnprocessed` alone is not inductive: a GOAWAY and a request
  may cross, and what makes the GOAWAY true is that the server's last stream only falls.
  What each operation of the session does to requests is one lemma, of the
  form "s leads to t" (`Leads`), so that none of its other fields matters.
- `Http2Session`, its flow control: `Ledger` is `Balance`, where every unit of the
  connection's window is while the session goes on (with the server, on its way, or to
  be given back), with `Books`, what decides whether it goes on: streams are counted
  as they are, pushed ones are no requests, a closing session stays one. Again one lemma for each operation
  (`Goes`: s becomes t, and n units more are accounted for). From it `NothingIsLost`.
  That sums change by what is appended, taken off or cut (`TotalAppend`, `TotalTail`, ...)
  is proved by the well-foundedness of the numbers, in the form that each set of them has a least member.
  "While the session goes on" (`GoesOn`) is necessary. Between a GOAWAY that
  leaves no request and the end, a WINDOW_UPDATE is dropped on its way out
  (`session_is_closing`). When what keeps the session alive is then a
  promise whose headers come, its window stays smaller. TLC finds this with two requests, a promise,
  and three extra frames.

- `Http2Session`, what its peer allows: `LimitsKept` needs to know
  that the client never believes it may send more than it may. For windows that is
  `Room`: a window of the client, with the updates on their way to it, is no larger than
  the server's. A stream's window is compared by its distance from the initial one (`Level`), since
  SETTINGS move all windows at once. When they move is `Crossing`: the server knows
  which SETTINGS are not acknowledged, some of those are still on their way and the
  others are taken and wait for their acknowledgement to be written, and the limit and
  initial window of the client are those of the last it has taken (`Places`).
  So a frame that was prepared under old SETTINGS is written before their
  acknowledgement, and the server judges it by the old ones (`Sending`), provided that
  acknowledgements go first, as they do in the code (`urgent`). For the number of streams
  it is `Held`: each stream that counts for the server still exists in the
  client, or its reset waits; and a stream the client has shut on its side was
  ended by data that the server has (`Halves`). `Crossing` and `Held` have an exception
  for sessions that end, which may drop an acknowledgement or forget their streams.
  From it `LimitsAreKept`. What each operation does to windows, limits and ends of
  streams is again one lemma (`Moves`: s becomes t for a frame f).

- `Hpack`, in `Http2PartsProofs`: `HpackInv` says that what is on its way takes the
  inflater, element by element, from where it is to where it agrees with the deflater (`Path`), and
  that each element makes the right header come out, the ones that `expected` has, in their
  order (`Reads`). What a step puts on the wire makes the path longer at its end, what
  one takes makes it shorter at its start, and SETTINGS and headers that come later wait behind
  (`More`). To agree between two blocks (`Agree`) is not to be equal: the inflater may still have a larger
  or smaller limit, but not so that it would lose an entry before the deflater tells it
  (`min`, the least size since the last block, is what both need). That the least and the last size
  of each frame are enough, where the deflater took every size in between, rests on
  `ShrunkTwice` (shrinking in steps is the same as at once) and `ShrunkFits`, for entries of
  any size. From it `HeadersComeOut`, for any headers, static table, buckets and sizes.
- `LocalWindow`, in `Http2PartsProofs`: `WindowInv` says that what the peer may send, with the
  updates that wait, is what the session counts (its window without what has come), unless the
  peer was told of an error, which only happens without automatic updates; and that a window
  with what was taken out of it is no larger than the greatest (`Sound`). The last bounds what the
  peer may send, since what has come may count as less than nothing, down to what was taken
  out. From it `PeerCountsAlike`.
- `HttpMessages`: the code notes a few flags, a number and a length for each field as it
  comes, and `MessagesValid` is about all the fields that have come. `Judged` relates the
  two for every state of a stream: what is remembered of the list (`Tracks`), that the list so
  far is fine as long as the stream is not reset, and that it cannot be fine any more once
  it is. Each field is one step for each kind of list (request, answer, trailers), and what the end of
  a block forgets must be what the next part does not need: that is where
  an answer after an interim one, a HEAD request or a 204 could go wrong. From it
  `MessagesAreJudged`, for any fields, in any number, with any numbers in them.

- `StreamMap`, in `Http2PartsProofs`: what keeps a key within reach of a search that gives up
  at the first entry nearer to its home is `Robin`: an entry away from home has
  one before it, and is at most by one farther from home than that one. It follows (`WayIs`) that no bucket
  is empty from the home of a key up to it. While a key is put in, what it displaces
  goes on from where it was (`Going`); while a hole is filled, one bucket alone may be out
  of order, by two (`Shifting`). Each loop is a function of its rounds, and `LoopEnds` says where it
  is after as many rounds as the table has buckets: at rest, if each round leads closer to
  an empty bucket (`Until`). There is one because at most three of four buckets are taken
  (`RoomIs`, by counting), which growing keeps (`MovedIs`). No step needs the order of the hashes,
  with which TLC saves states: the theorem holds for any hash.
- `BinaryHeap`, in `Http2PartsProofs`: a parent comes before its children, except around the
  entry that is on its way: up (`Rising`) or down (`Sinking`), where its parent is also in order with its
  children, so that a step restores what it breaks. Taking an entry out of the middle puts the last
  one in its place, which then goes down or up, never both. From it
  `QueueKeepsOrder`, and with the map `ContainersAreExact`.

Some theorems are about what no run lists, because TLC shows them as a part of something
else or because they are steps of the argument: `OneTaskFetches`, `MutualExclusion`,
`PressStartsOnce`, `OwnBodyIsSent`, `FrontStays`, `RightlyIgnored`, `OncePerRequest`
and the type invariants.

Only model-checked, and why:

- liveness: `PressServed`, `FetchEnds`, `EveryPressHandled`, `LostRobotReboots`,
  `StuckFetchReboots`, `ButtonsReturn`, `UpToDate`, `HandlerEnds`, `RequestsEnd`
  (fairness and ENABLED are beyond the prover);
- `ValidTree`, `ConnectionShared` and `FramesAsSent` of `http2`: what they say needs
  RECURSIVE operators (of `StreamTree`, `HpackLiterals`, `Http2Inbound`, `Http2Outbound`),
  which the prover cannot read.

## What is not modelled

- The screen, the beeper, the QR code, the layout of the browser's pages: output only.
- `ip_resolver.cpp`: a cache of one entry before the calls and the pings. A call that
  cannot connect and a ping that fails are in `GrpcApi` and `Supervisor`, whatever the
  address; that the Ping task may read the entry between the two writes is in
  `PROJECT.json` with the other reads without a lock.
- The texts of JSON (ArduinoJson) and of protobuf (nanopb): what the program puts into
  them and takes out of them is in `CommandFlow` and `ButtonJson`.
- `sfparse.c`, which reads the priority field that this client does not send, and what
  nghttp2 does only for servers.
- Texts of `SendAllToClient` that the library drops, as it may when a new browser is slower than its list
  of states is long; the same loss of a broadcast is in the model (`lost`).
- The restarts by a reset button or by clear-all in `Supervisor`; the beacon scanner's
  parsing of advertisements (NimBLE).

## Plan

1. `CommandTable`, `DurableTable`, proofs: done.
2. `GrpcApi`, proofs: done.
3. `ButtonPath`, proofs: done.
4. `Supervisor`, proofs: done.
5. `Ota`, proofs: done.
6. `WsBroadcast`, proofs; `WifiSetup`, `ApScan`, `RequestBody`, `LogFiles`, `GpioButton`,
   proofs: done.
7. `CommandFlow`, `ButtonJson`, `RobotVersion`, proofs: done.
8. The HTTP/2 session and its parts, proofs for `Http2Session`, `Hpack`, `LocalWindow`,
   `HttpMessages`, `StreamMap` and `BinaryHeap`: done.
