---------------------------- MODULE WsBroadcast ----------------------------
(***************************************************************************)
(* What the browsers are told (server.cpp, server_commands.cpp,            *)
(* server_info.cpp, fetch_state.cpp, button_hub.ino, and the handlers of   *)
(* webui/src/hooks.tsx).  Three tasks change what a browser shows: the web *)
(* server's task, loop(), and the Fetch task.  After a change a task takes *)
(* a snapshot of the topic and puts it in one queue; loop() empties the    *)
(* queue into every open WebSocket.  The snapshot is taken without the     *)
(* queue's mutex, so other tasks run between a snapshot and its enqueueing,*)
(* and two of the topics are read while another task writes them.          *)
(*                                                                         *)
(* The content of a topic is abstracted to its version, the number of      *)
(* times it was changed; only the list of observed buttons is itself kept. *)
(* A snapshot read in the middle of a write is Garbled.  The commands of a *)
(* PUT, POST or DELETE are the steps that CommandTable details.            *)
(*                                                                         *)
(* Bounds: MaxChanges changes, connections and restarts in all; Parts      *)
(* stands for the four lists of a fetch.                                   *)
(***************************************************************************)
EXTENDS Naturals, Sequences, FiniteSets

CONSTANTS
  Browsers,     \* the browsers that open a WebSocket
  Buttons,
  MaxObserved,  \* max_observed_buttons_
  Parts,        \* the lists that FetchImpl gets, one by one
  MaxChanges,
  Garbled,      \* a snapshot that is neither the old content nor the new one
  None          \* no message, no content

Topics == {"hub_info", "robot_info", "settings", "observed_buttons", "commands"}
Tasks == {"web", "loop", "fetch"}

\* at is history: the version when the snapshot was taken.
Messages == [topic : Topics, seen : Nat \cup {Garbled}, at : Nat]
Joins == [client : Browsers, left : Seq(Topics) \ {<<>>}]

ASSUME WsAssumption ==
  /\ MaxObserved \in Nat \ {0} /\ Parts \in Nat \ {0} /\ MaxChanges \in Nat
  /\ Garbled \notin Nat /\ Garbled # None
  /\ None \notin Nat \cup Messages \cup Joins \cup Tasks

VARIABLES
  version,   \* of each topic in RAM
  observed,  \* observed_buttons_
  writing,   \* the tasks in the middle of a write that readers do not lock out
  todo,      \* topics a task has still to announce, in the order of its code
  held,      \* the message a task has converted and not yet enqueued
  clients,   \* g_ws_clients
  clearing,  \* how far the web task is with clearing all data
  joining,   \* the client SendAllToClient works on, and what it still sends
  fetch,     \* lists that the Fetch task has still to get; 0: kCompleted
  queue,     \* g_ws_message_queue
  view,      \* what each browser shows
  \* the environment and history
  changes,   \* how many changes there have been
  presses,   \* the buttons pressed since boot or since all data was cleared, the newest first
  lost,      \* topics whose newest text did not reach a browser
  silent,    \* topics changed since they were last announced, by a step that does not announce
  newest,    \* the newest snapshot of each topic that was enqueued
  overtaken  \* topics whose last enqueued snapshot is older than an earlier one

data == <<version, observed, writing, clearing>>
tasks == <<todo, held, joining, fetch>>
history == <<changes, presses, lost, silent, newest, overtaken>>
vars == <<data, tasks, clients, queue, view, history>>

Idle(k) == todo[k] = <<>> /\ held[k] = None
WebIdle == Idle("web") /\ joining = None /\ clearing = "no"
\* g_ws_mutex is held over the whole of SendAllToClient.
MutexFree == joining = None

Init ==
  /\ version = [t \in Topics |-> 0] /\ observed = <<>>
  /\ writing = {} /\ clearing = "no"
  /\ todo = [k \in Tasks |-> IF k = "fetch" THEN <<"robot_info">> ELSE <<>>]
  /\ held = [k \in Tasks |-> None]
  /\ joining = None /\ clients = {} /\ queue = <<>>
  /\ fetch = Parts
  /\ view = [b \in Browsers |-> [t \in Topics |-> None]]
  /\ changes = 0 /\ presses = <<>>
  /\ lost = [b \in Browsers |-> {}]
  /\ silent = {} /\ overtaken = {}
  /\ newest = [t \in Topics |-> 0]

-----------------------------------------------------------------------------
(* Changes, and what is announced of them *)

Changed(topics) ==
  version' = [t \in Topics |-> IF t \in topics THEN version[t] + 1 ELSE version[t]]

\* A task changes topics and goes on to announce what, in this order; quiet are
\* the topics of which the code knows that it announces nothing.
Change(k, topics, what, quiet) ==
  /\ changes < MaxChanges /\ changes' = changes + 1
  /\ Changed(topics)
  /\ todo' = [todo EXCEPT ![k] = what]
  /\ silent' = silent \cup quiet
  /\ UNCHANGED <<observed, writing, clearing, held, joining, fetch, clients, queue,
                 view, presses, lost, newest, overtaken>>

\* A new command may name its button.
PostCommand ==
  WebIdle /\ Change("web", {"commands", "observed_buttons"},
                    <<"observed_buttons", "commands">>, {})

\* The commands in the body may name buttons, but only the commands are announced.
PutCommands ==
  WebIdle /\ \E named \in SUBSET {"observed_buttons"} :
    Change("web", {"commands"} \cup named, <<"commands">>, named)

\* LoadCommandArray has emptied the table and kept the good part of the body.
PutCommandsFails ==
  WebIdle /\ \E named \in SUBSET {"observed_buttons"} :
    Change("web", {"commands"} \cup named, <<>>, {"commands"} \cup named)

\* Mutant of DeleteCommand: the names that went with the commands are not announced.
DeleteCommandOnlyCommands ==
  WebIdle /\ Change("web", {"commands", "observed_buttons"}, <<"commands">>, {})

DeleteCommand ==
  WebIdle /\ Change("web", {"commands", "observed_buttons"},
                    <<"commands", "observed_buttons">>, {})

SetOrDeleteButtonName ==
  WebIdle /\ Change("web", {"observed_buttons"}, <<"observed_buttons">>, {})

SetSetting == WebIdle /\ Change("web", {"settings"}, <<"settings">>, {})

\* HandleSetOneShotAutoOtaIsEnabled enqueues nothing.
SetOneShot == WebIdle /\ Change("web", {"settings"}, <<>>, {"settings"})

\* gpio_button::Register and Unregister name or forget the GPIO buttons.
RegisterOrUnregisterGpioButtons ==
  /\ Idle("loop") /\ "loop" \notin writing /\ clearing # "table"
  /\ Change("loop", {"observed_buttons"}, <<>>, {"observed_buttons"})

-----------------------------------------------------------------------------
(* Clearing all data: the settings first, then the table under its mutex,  *)
(* and nothing is announced.  The web server's task then beeps and waits a *)
(* second for the restart, while the other tasks go on.                    *)

HandleClearAllData ==
  /\ WebIdle /\ clearing' = "settings"
  /\ changes < MaxChanges /\ changes' = changes + 1
  /\ Changed({"settings"})
  /\ silent' = silent \cup {"settings"}
  /\ UNCHANGED <<observed, writing, tasks, clients, queue, view, presses, lost,
                 newest, overtaken>>

BeginReset ==
  /\ clearing = "settings" /\ "loop" \notin writing /\ clearing' = "table"
  /\ UNCHANGED <<version, observed, writing, tasks, clients, queue, view, history>>

\* CommandTable::Reset
ResetTable ==
  /\ clearing = "table" /\ clearing' = "done"
  /\ observed' = <<>> /\ presses' = <<>>
  /\ Changed({"observed_buttons", "commands"})
  /\ silent' = silent \cup {"observed_buttons", "commands"}
  /\ UNCHANGED <<writing, tasks, clients, queue, view, changes, lost, newest,
                 overtaken>>

-----------------------------------------------------------------------------
(* loop(): HandleButtonPressed, and the Fetch task *)

\* Mutant of Others: the button's earlier entry stays in the list.
OthersAll(list, b) == list

\* std::remove_if moves the elements it keeps together and leaves their order.
Kept(list, b) == {i \in 1 .. Len(list) : list[i] # b}
Place(list, b, i) == Cardinality({h \in Kept(list, b) : h <= i})

Others(list, b) ==
  [j \in 1 .. Cardinality(Kept(list, b)) |->
     list[CHOOSE i \in Kept(list, b) : Place(list, b, i) = j]]

AtMost(list, n) == SubSeq(list, 1, IF Len(list) < n THEN Len(list) ELSE n)

\* NotifyObservedButton, under a mutex that GetObservedButtons does not take.
BeginPress ==
  /\ Idle("loop") /\ "loop" \notin writing /\ clearing # "table"
  /\ changes < MaxChanges /\ changes' = changes + 1
  /\ writing' = writing \cup {"loop"}
  /\ UNCHANGED <<version, observed, clearing, tasks, clients, queue, view, presses,
                 lost, silent, newest, overtaken>>

NotifyObservedButton(b) ==
  /\ "loop" \in writing
  /\ writing' = writing \ {"loop"}
  /\ observed' = AtMost(<<b>> \o Others(observed, b), MaxObserved)
  /\ presses' = <<b>> \o presses
  /\ Changed({"observed_buttons"})
  /\ todo' = [todo EXCEPT !["loop"] = <<"observed_buttons">>]
  /\ UNCHANGED <<clearing, held, joining, fetch, clients, queue, view, changes,
                 lost, silent, newest, overtaken>>

\* The next list arrives and is moved into RobotInfoHolder, which has no mutex.
BeginFetched ==
  /\ Idle("fetch") /\ "fetch" \notin writing /\ fetch \in 1 .. Parts
  /\ writing' = writing \cup {"fetch"}
  /\ UNCHANGED <<version, observed, clearing, tasks, clients, queue, view, history>>

EndFetched ==
  /\ "fetch" \in writing
  /\ writing' = writing \ {"fetch"}
  /\ Changed({"robot_info"})
  /\ todo' = [todo EXCEPT !["fetch"] = <<"robot_info">>]
  /\ fetch' = fetch - 1
  /\ UNCHANGED <<observed, clearing, held, joining, clients, queue, view, history>>

-----------------------------------------------------------------------------
(* Announcing: EnqueueWsMessage(Convert...(...)) *)

Writer(t) == CASE t = "observed_buttons" -> "loop"
               [] t = "robot_info" -> "fetch"
               [] OTHER -> None

\* Another task writes what a reader of topic t reads.
Torn(t) ==
  \/ Writer(t) \in writing
  \/ t = "observed_buttons" /\ clearing = "table"

\* What a reader of topic t may get.
Readable(t) == {version[t]} \cup (IF Torn(t) THEN {Garbled} ELSE {})

Snapshot(k) ==
  /\ todo[k] # <<>> /\ held[k] = None /\ (k = "web" => joining = None)
  /\ LET t == Head(todo[k]) IN
     \E v \in Readable(t) :
       held' = [held EXCEPT ![k] = [topic |-> t, seen |-> v, at |-> version[t]]]
  /\ todo' = [todo EXCEPT ![k] = Tail(@)]
  /\ UNCHANGED <<data, joining, fetch, clients, queue, view, history>>

Enqueue(k) ==
  /\ held[k] # None /\ MutexFree
  /\ LET t == held[k].topic
         late == held[k].at < newest[t] IN
     /\ queue' = Append(queue, held[k])
     /\ newest' = [newest EXCEPT ![t] = IF late THEN @ ELSE held[k].at]
     /\ overtaken' = IF late THEN overtaken \cup {t} ELSE overtaken \ {t}
     /\ silent' = IF held[k].seen = version[t] THEN silent \ {t} ELSE silent
  /\ held' = [held EXCEPT ![k] = None]
  /\ UNCHANGED <<data, todo, joining, fetch, clients, view, changes, presses, lost>>

\* What a browser that shows shown is left with after the messages of q.
Received(shown, q) ==
  [t \in Topics |->
     LET at == {i \in 1 .. Len(q) : q[i].topic = t} IN
     IF at = {} THEN shown[t] ELSE q[CHOOSE i \in at : \A j \in at : j <= i].seen]

\* FlushWsMessageQueue, at the end of loop(); the texts for the browsers in
\* full, whose connections take no more, are dropped.
Flush(full) ==
  /\ Idle("loop") /\ "loop" \notin writing /\ MutexFree /\ queue # <<>>
  /\ LET topics == {queue[i].topic : i \in 1 .. Len(queue)} IN
     /\ view' = [b \in Browsers |-> IF b \in clients \ full
                                    THEN Received(view[b], queue) ELSE view[b]]
     /\ lost' = [b \in Browsers |-> IF b \notin clients THEN lost[b]
                                    ELSE IF b \in full THEN lost[b] \cup topics
                                    ELSE lost[b] \ topics]
  /\ queue' = <<>>
  /\ UNCHANGED <<data, tasks, clients, changes, presses, silent, newest, overtaken>>

-----------------------------------------------------------------------------
(* Browsers come and go: OnWebSocketEvent *)

Connect(b) ==
  /\ WebIdle /\ b \notin clients
  /\ changes < MaxChanges /\ changes' = changes + 1
  /\ clients' = clients \cup {b}
  /\ Changed({"hub_info"})
  /\ joining' = [client |-> b,
                 left |-> <<"hub_info", "robot_info", "settings",
                            "observed_buttons", "commands">>]
  /\ todo' = [todo EXCEPT !["web"] = <<"hub_info">>]
  /\ UNCHANGED <<observed, writing, clearing, held, fetch, queue, view, presses, lost,
                 silent, newest, overtaken>>

\* One text of SendAllToClient.  After the last one a new fetch is started, if
\* the setting and the throttle allow it and none is running.
SendToClient(refetch) ==
  /\ joining # None
  /\ LET b == joining.client
         t == Head(joining.left)
         last == Len(joining.left) = 1 IN
     /\ \E v \in Readable(t) : view' = [view EXCEPT ![b][t] = v]
     /\ lost' = [lost EXCEPT ![b] = @ \ {t}]
     /\ joining' = IF last THEN None ELSE [joining EXCEPT !.left = Tail(@)]
     /\ refetch => last /\ fetch = 0 /\ Idle("fetch") /\ changes < MaxChanges
     /\ fetch' = IF refetch THEN Parts ELSE fetch
     /\ todo' = IF refetch THEN [todo EXCEPT !["fetch"] = <<"robot_info">>] ELSE todo
     /\ changes' = IF refetch THEN changes + 1 ELSE changes
  /\ UNCHANGED <<data, held, clients, queue, presses, silent, newest, overtaken>>

\* The page forgets its buttons and commands when the connection is gone.
Closed(shown) == [shown EXCEPT !["observed_buttons"] = None, !["commands"] = None]

Disconnect(b) ==
  /\ WebIdle /\ b \in clients
  /\ changes < MaxChanges /\ changes' = changes + 1
  /\ clients' = clients \ {b}
  /\ Changed({"hub_info"})
  /\ todo' = [todo EXCEPT !["web"] = <<"hub_info">>]
  /\ view' = [view EXCEPT ![b] = Closed(@)]
  /\ UNCHANGED <<observed, writing, clearing, held, joining, fetch, queue, presses,
                 lost, silent, newest, overtaken>>

\* A restart of the hub, or a loss of power: RAM is as Init leaves it, and the
\* browsers show what they have until they connect again.
Restart ==
  /\ changes < MaxChanges /\ changes' = changes + 1
  /\ observed' = <<>> /\ writing' = {} /\ clearing' = "no"
  /\ clients' = {} /\ queue' = <<>>
  /\ todo' = [k \in Tasks |-> IF k = "fetch" THEN <<"robot_info">> ELSE <<>>]
  /\ held' = [k \in Tasks |-> None]
  /\ joining' = None /\ fetch' = Parts
  /\ Changed({"hub_info", "robot_info", "observed_buttons"})
  /\ view' = [b \in Browsers |-> Closed(view[b])]
  /\ presses' = <<>> /\ silent' = {} /\ overtaken' = {}
  /\ newest' = [t \in Topics |-> 0]
  /\ UNCHANGED lost

Next ==
  \/ PostCommand \/ PutCommands \/ PutCommandsFails \/ DeleteCommand
  \/ SetOrDeleteButtonName \/ SetSetting \/ SetOneShot
  \/ RegisterOrUnregisterGpioButtons
  \/ HandleClearAllData \/ BeginReset \/ ResetTable
  \/ BeginPress \/ \E b \in Buttons : NotifyObservedButton(b)
  \/ BeginFetched \/ EndFetched
  \/ \E k \in Tasks : Snapshot(k) \/ Enqueue(k)
  \/ \E full \in SUBSET clients : Flush(full)
  \/ \E b \in Browsers : Connect(b) \/ Disconnect(b)
  \/ \E refetch \in BOOLEAN : SendToClient(refetch)
  \/ Restart

Spec == Init /\ [][Next]_vars

-----------------------------------------------------------------------------
(* Properties *)

\* The variables have the types that the code gives them.
TypeOK ==
  /\ version \in [Topics -> Nat] /\ newest \in [Topics -> Nat]
  /\ observed \in Seq(Buttons) /\ presses \in Seq(Buttons)
  /\ writing \subseteq {"loop", "fetch"}
  /\ clearing \in {"no", "settings", "table", "done"}
  /\ todo \in [Tasks -> Seq(Topics)] /\ held \in [Tasks -> Messages \cup {None}]
  /\ clients \subseteq Browsers
  /\ joining \in Joins \cup {None} /\ (joining # None => joining.client \in clients)
  /\ fetch \in 0 .. Parts /\ queue \in Seq(Messages)
  /\ view \in [Browsers -> [Topics -> Nat \cup {Garbled, None}]]
  /\ changes \in 0 .. MaxChanges
  /\ lost \in [Browsers -> SUBSET Topics]
  /\ silent \subseteq Topics /\ overtaken \subseteq Topics

Settled == /\ \A k \in Tasks : Idle(k)
           /\ joining = None /\ queue = <<>>
           /\ writing = {} /\ clearing # "table"

\* Once the tasks have nothing left to announce, every connected browser shows
\* the present state of each topic, whatever torn or old snapshots it was sent
\* before.  Excepted are the topics last changed by the code that announces
\* nothing, those whose last two snapshots were enqueued in the wrong order, and
\* texts that the library dropped.
SettledViews ==
  Settled => \A b \in clients : \A t \in Topics \ (silent \cup overtaken \cup lost[b]) :
               view[b][t] = version[t]

\* The buttons the hub offers to configure are the last MaxObserved different
\* buttons pressed since boot, or since all data was cleared, the newest first,
\* each once.
ObservedLatest ==
  LET first(b) == CHOOSE i \in 1 .. Len(presses) :
                    presses[i] = b /\ \A j \in 1 .. i - 1 : presses[j] # b
      newerThan(b) == {presses[j] : j \in 1 .. first(b) - 1}
      pressed == {presses[i] : i \in 1 .. Len(presses)}
  IN \A b \in Buttons :
       LET at == {i \in 1 .. Len(observed) : observed[i] = b} IN
       at = IF b \in pressed /\ Cardinality(newerThan(b)) < MaxObserved
            THEN {Cardinality(newerThan(b)) + 1} ELSE {}
=============================================================================
