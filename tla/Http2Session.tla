---------------------------- MODULE Http2Session ----------------------------
(***************************************************************************)
(* A client's session of the vendored nghttp2 as sh2lib and api.cpp drive  *)
(* it: the requests are submitted first, then sh2lib_execute sends what    *)
(* can be sent and takes what has arrived, until all streams are closed or *)
(* the connection fails.  One action is one frame sent or received.        *)
(*                                                                         *)
(* The server is external: it keeps to the protocol but for "wrong"        *)
(* frames.  It takes a frame when it is sent; what it sends waits in       *)
(* "down", in order, and is taken any time later.  A body has units of     *)
(* data; headers are good or "bad" (they break the rules of HTTP); which   *)
(* stream's data are next is in the module StreamTree, and any is here.    *)
(*                                                                         *)
(* Bounds: the units, MaxExtras frames beyond the answers themselves.      *)
(***************************************************************************)
EXTENDS Integers, Sequences, FiniteSets, SequencesExt, Sums

CONSTANTS
  Requests,      \* the streams of the requests: odd numbers
  Promises,      \* the streams a server may promise: even numbers
  Whole,         \* the requests whose body comes from OnSendData of api.cpp
  Body, Answer,  \* units of a request's and of an answer's body
  FrameSize,     \* remote max_frame_size
  Window,        \* initial windows, of the connection and of a stream
  MaxWindow,     \* NGHTTP2_MAX_WINDOW_SIZE
  NoLimit,       \* DEFAULT_MAX_CONCURRENT_STREAMS, and the 100 before SETTINGS
  Settings,      \* what the server's SETTINGS may say: [limit, initial]
  MaxAcks,       \* max_outbound_ack
  MaxReserved,   \* max_incoming_reserved_streams
  MaxExtras

\* SETTINGS with a larger initial window end the session (on_settings_received): the server
\* keeps to the protocol.
SessionAssumption ==
  /\ Requests \subseteq {i \in 1 .. 9 : i % 2 = 1} /\ Promises \subseteq {i \in 1 .. 9 : i % 2 = 0}
  /\ Whole \subseteq Requests
  /\ {Body, Answer, FrameSize, Window, MaxWindow, NoLimit, MaxAcks} \subseteq Nat \ {0}
  /\ Window <= MaxWindow
  /\ \A x \in Settings : x.limit \in Nat /\ x.initial \in 0 .. MaxWindow

ASSUME SessionAssumed == SessionAssumption

VARIABLES
  c,       \* nghttp2_session and its streams
  turn,    \* what sh2lib_execute does: "send", "recv", or the loop is over
  down,    \* the frames on their way to the client
  server,  \* what the server knows
  extras   \* how many frames it may still add

sessionVars == <<c, turn, down, server, extras>>

Ids == Requests \cup Promises
IsMine(i) == i % 2 = 1
Least(a, b) == IF a < b THEN a ELSE b
LastId == 9  \* the largest stream id

Frame(type, i) == [type |-> type, id |-> i]
Headers(i, bad, end) == [type |-> "headers", id |-> i, bad |-> bad, end |-> end]
Data(i, n, end) == [type |-> "data", id |-> i, n |-> n, end |-> end]
Update(i, n) == [type |-> "window", id |-> i, n |-> n]
NoFrame == Frame("none", 0)

\* A stream that is not in session->streams
NoStream == [state |-> "none", shut |-> {}, push |-> FALSE, item |-> "none",
             window |-> 0, recvd |-> 0, updating |-> FALSE]

-----------------------------------------------------------------------------
(* Queries *)

Exists(s, i) == s.streams[i].state # "none"

\* session_detect_idle_stream, of a stream that does not exist
Idle(s, i) == IF IsMine(i) THEN s.lastSent < i ELSE s.lastRecv < i

\* session_is_outgoing_concurrent_streams_max
Full(s) == s.limit <= s.out
Ready(s) == {i \in Ids : s.streams[i].item = "ready"}

WantRead(s) ==
  /\ "TERM_SENT" \notin s.goaway
  /\ s.out + s.in > 0 \/ s.goaway \cap {"SENT", "RECV"} = {}

WantWrite(s) ==
  /\ "TERM_SENT" \notin s.goaway
  /\ \/ s.aob # NoFrame \/ s.urgent # <<>> \/ s.reg # <<>>
     \/ Ready(s) # {} /\ s.window > 0
     \/ s.syn # <<>> /\ ~Full(s)

\* session_is_closing
Closing(s) == "TERM_ON_SEND" \in s.goaway \/ ~(WantRead(s) \/ WantWrite(s))

\* nghttp2_session_pop_next_ob_item
NextItems(s) ==
  CASE s.urgent # <<>>           -> {Head(s.urgent)}
    [] s.urgent = <<>> /\ s.reg # <<>> -> {Head(s.reg)}
    [] s.urgent = <<>> /\ s.reg = <<>> /\ s.syn # <<>> /\ ~Full(s) -> {Head(s.syn)}
    [] OTHER -> IF s.window > 0 THEN {Frame("data", i) : i \in Ready(s)} ELSE {}

Popped(s, f) ==
  CASE s.urgent # <<>>  -> [s EXCEPT !.urgent = Tail(@)]
    [] s.urgent = <<>> /\ s.reg # <<>> -> [s EXCEPT !.reg = Tail(@)]
    [] OTHER -> IF f.type = "data" THEN s ELSE [s EXCEPT !.syn = Tail(@)]

-----------------------------------------------------------------------------
(* What the operations on a session are made of: each gives the session it *)
(* leaves.                                                                 *)

\* nghttp2_session_open_stream
Open(s, i, state, flags) ==
  LET t == [s EXCEPT !.streams[i] =
              [NoStream EXCEPT !.state = state, !.shut = flags, !.window = s.initial,
                               !.push = state = "RESERVED"]] IN
  IF state = "RESERVED" THEN [t EXCEPT !.reserved = @ + 1] ELSE [t EXCEPT !.out = @ + 1]

\* nghttp2_session_close_stream for each of some streams, with DATA_RECV_RST_STREAM for
\* the application
CloseAll(s, ids, why) ==
  LET reserved == {i \in ids : s.streams[i].push}
      mine == {i \in ids \ reserved : IsMine(i)} IN
  [s EXCEPT !.streams = [i \in Ids |-> IF i \in ids THEN NoStream ELSE @[i]],
            !.closed = [i \in Ids |-> IF i \in ids THEN why ELSE @[i]],
            !.finished = @ \cup ids,
            !.reserved = @ - Cardinality(reserved), !.out = @ - Cardinality(mine),
            !.in = @ - Cardinality(ids \ (reserved \cup mine))]

Close(s, i, why) == IF Exists(s, i) THEN CloseAll(s, {i}, why) ELSE s

\* nghttp2_stream_shutdown and nghttp2_session_close_stream_if_shut_rdwr
Shut(s, i, flag) == [s EXCEPT !.streams[i].shut = @ \cup {flag}]
ShutAndClose(s, i, flag) ==
  LET t == Shut(s, i, flag) IN
  IF t.streams[i].shut = {"RD", "WR"} THEN Close(t, i, "done") ELSE t

\* nghttp2_session_add_rst_stream; that of a request still in ob_syn comes from an
\* application only.
AddRst(s, i) ==
  IF s.streams[i].state = "CLOSING" \/ (~IsMine(i) /\ s.lastRecv < i) THEN s
  ELSE [s EXCEPT !.streams[i].state = IF Exists(s, i) THEN "CLOSING" ELSE @,
                 !.reg = Append(@, Frame("rst", i))]

\* session_terminate_session
Terminate(s) ==
  IF "TERM_ON_SEND" \in s.goaway THEN s
  ELSE [s EXCEPT !.ignoring = TRUE, !.goaway = @ \cup {"TERM_ON_SEND"},
                 !.reg = Append(@, Frame("goaway", s.lastProc))]

\* nghttp2_session_add_settings and _add_ping, as acknowledgements; FLOODED is fatal.
AddAck(s, type) ==
  IF s.acks >= MaxAcks THEN [s EXCEPT !.failed = TRUE]
  ELSE [s EXCEPT !.acks = @ + 1, !.urgent = Append(@, Frame(type, 0))]

\* nghttp2_should_send_window_update
Due(recvd) == recvd > 0 /\ recvd >= Window \div 2

\* nghttp2_session_update_recv_connection_window_size
RecvConnection(s, n) ==
  IF s.recvd > Window - n THEN Terminate(s)
  ELSE IF ~s.updating /\ Due(s.recvd + n)
  THEN [s EXCEPT !.updating = TRUE, !.recvd = 0, !.reg = Append(@, Update(0, s.recvd + n))]
  ELSE [s EXCEPT !.recvd = @ + n]

\* nghttp2_session_update_recv_stream_window_size
RecvStream(s, i, n, update) ==
  LET st == s.streams[i] IN
  IF st.recvd > Window - n THEN AddRst(s, i)
  ELSE IF update /\ ~st.updating /\ Due(st.recvd + n)
  THEN [s EXCEPT !.streams[i].updating = TRUE, !.streams[i].recvd = 0,
                 !.reg = Append(@, Update(i, st.recvd + n))]
  ELSE [s EXCEPT !.streams[i].recvd = @ + n]

\* session_resume_deferred_stream_item, when the window has become positive
Resume(st) ==
  IF st.window > 0 /\ st.item = "deferred" THEN [st EXCEPT !.item = "ready"] ELSE st

-----------------------------------------------------------------------------
(* Sending: session_prep_frame, then the frame is written, then            *)
(* session_after_frame_sent1 and _sent2.                                   *)

Sends(s, f) == [s EXCEPT !.aob = f]

\* OnSendData gives the whole body if it fits and else nothing, and that is all.
Read(i, left, n) ==
  IF i \in Whole THEN [n |-> IF Body <= n THEN Body ELSE 0, eof |-> TRUE]
  ELSE [n |-> Least(left, n), eof |-> left <= n]

PrepData(s, i) ==
  LET st == s.streams[i]
      n == Least(Least(st.window, s.window), FrameSize)
      read == Read(i, s.left[i], n) IN
  IF Closing(s) \/ "WR" \in st.shut \/ st.state = "CLOSING"
  THEN [s EXCEPT !.streams[i].item = "none"]
  ELSE IF n <= 0 THEN [s EXCEPT !.streams[i].item = "deferred"]
  ELSE Sends([s EXCEPT !.left[i] = @ - read.n], Data(i, read.n, read.eof))

\* session_predicate_request_headers_send, after the stream has been opened; if it
\* fails mem_send_internal closes the stream as refused.
PrepRequest(s, f) ==
  LET t == Open(s, f.id, "INITIAL", {}) IN
  IF "RECV" \in s.goaway \/ Closing(t) THEN Close(t, f.id, "refused")
  ELSE Sends([t EXCEPT !.lastSent = f.id], f)

PrepUpdate(s, f) ==
  IF Closing(s) \/ (f.id # 0 /\ s.streams[f.id].state \in {"none", "CLOSING"}) THEN s
  ELSE Sends(s, f)

Prep(s0, f) ==
  LET s == IF f.type \in {"ack", "pong"} THEN [s0 EXCEPT !.acks = @ - 1] ELSE s0 IN
  CASE f.type = "data"    -> PrepData(s, f.id)
    [] f.type = "headers" -> PrepRequest(s, f)
    [] f.type = "window"  -> PrepUpdate(s, f)
    [] f.type \in {"rst", "ack"} -> IF Closing(s) THEN s ELSE Sends(s, f)
    [] f.type = "pong"    -> IF "TERM_ON_SEND" \in s.goaway THEN s ELSE Sends(s, f)
    [] OTHER              -> Sends(s, f)     \* SETTINGS, GOAWAY

DataSent(s, f) ==
  LET t == [s EXCEPT !.window = @ - f.n,
                     !.streams[f.id].window = IF Exists(s, f.id) THEN @ - f.n ELSE @] IN
  IF ~Exists(t, f.id) THEN t
  ELSE IF f.end THEN ShutAndClose([t EXCEPT !.streams[f.id].item = "none"], f.id, "WR")
  ELSE IF Closing(t) \/ t.streams[f.id].state = "CLOSING"
  THEN [t EXCEPT !.streams[f.id].item = "none"] ELSE t

RequestSent(s, f) ==
  IF ~Exists(s, f.id) THEN s
  ELSE [s EXCEPT !.streams[f.id].state = "OPENING", !.streams[f.id].item = "ready"]

GoawaySent(s, f) ==
  LET t == [s EXCEPT !.goaway = @ \cup {"TERM_SENT", "SENT"}] IN
  CloseAll(t, {i \in Promises : Exists(t, i) /\ i > f.id}, "refused")

UpdateSent(s, f) ==
  IF f.id = 0 THEN RecvConnection([s EXCEPT !.updating = FALSE], 0)
  ELSE IF ~Exists(s, f.id) THEN s
  ELSE LET t == [s EXCEPT !.streams[f.id].updating = FALSE] IN
       IF "RD" \in t.streams[f.id].shut THEN t ELSE RecvStream(t, f.id, 0, TRUE)

AfterSent(s0) ==
  LET f == s0.aob
      s == [s0 EXCEPT !.aob = NoFrame] IN
  CASE f.type = "data"    -> DataSent(s, f)
    [] f.type = "headers" -> RequestSent(s, f)
    [] f.type = "rst"     -> Close(s, f.id, "reset")
    [] f.type = "goaway"  -> GoawaySent(s, f)
    [] f.type = "window"  -> UpdateSent(s, f)
    [] OTHER              -> s

-----------------------------------------------------------------------------
(* Receiving *)

\* session_allow_incoming_new_stream
AllowNew(s) == s.goaway \cap {"TERM_ON_SEND", "SENT"} = {}

\* session_after_header_block_received
BlockReceived(s, f) ==
  IF f.bad THEN IF f.end THEN Shut(AddRst(s, f.id), f.id, "RD") ELSE AddRst(s, f.id)
  ELSE IF f.end THEN ShutAndClose(s, f.id, "RD") ELSE s

OnHeaders(s, f) ==
  LET st == s.streams[f.id]
      opened == [s EXCEPT !.streams[f.id].state = "OPENED"] IN
  CASE st.state = "none" -> IF Idle(s, f.id) THEN Terminate(s) ELSE s
    [] st.state = "RESERVED" ->
         IF ~AllowNew(s) THEN s
         ELSE BlockReceived([opened EXCEPT !.streams[f.id].push = FALSE, !.reserved = @ - 1,
                                           !.in = @ + 1], f)
    [] st.state \notin {"none", "RESERVED"} /\ "RD" \in st.shut -> Terminate(s)
    [] st.state = "OPENING" /\ "RD" \notin st.shut -> BlockReceived(opened, f)
    [] st.state = "OPENED" /\ "RD" \notin st.shut -> BlockReceived(s, f)
    [] OTHER -> s     \* CLOSING, INITIAL

\* NGHTTP2_IB_READ_DATA and nghttp2_session_on_data_received
TakeData(s, f) ==
  LET t == RecvConnection(s, f.n)
      u == RecvStream(t, f.id, f.n, ~f.end)
      v == [u EXCEPT !.finished = @ \cup {f.id}] IN    \* DATA_RECV_FRAME_COMPLETE
  IF f.n > 0 /\ t.ignoring THEN t
  ELSE IF u.streams[f.id].state = "CLOSING" THEN u
  ELSE IF f.end THEN ShutAndClose(v, f.id, "RD") ELSE v

\* Mutant of IgnoreData: the connection's window is not charged for it.
IgnoreFree(s, n) == s

\* NGHTTP2_IB_IGN_DATA
IgnoreData(s, n) == RecvConnection(s, n)

\* session_on_data_received_fail_fast
OnData(s, f) ==
  LET st == s.streams[f.id] IN
  CASE st.state = "none" -> IF Idle(s, f.id) THEN Terminate(s) ELSE IgnoreData(s, f.n)
    [] st.state # "none" /\ "RD" \in st.shut -> Terminate(s)
    [] st.state = "CLOSING" /\ "RD" \notin st.shut -> IgnoreData(s, f.n)
    [] st.state = "OPENED" /\ "RD" \notin st.shut -> TakeData(s, f)
    [] OTHER -> Terminate(s)

OnRst(s, f) == IF Idle(s, f.id) THEN Terminate(s) ELSE Close(s, f.id, f.why)

\* Mutant of InitialWindow: data that wait for the window stay deferred.
InitialWindowOnly(s, i, new) == [s.streams[i] EXCEPT !.window = @ + new - s.initial]

\* Mutant of InitialWindow: only streams to come get the new window.
InitialWindowLater(s, i, new) == s.streams[i]

\* update_remote_initial_window_size_func
InitialWindow(s, i, new) == Resume([s.streams[i] EXCEPT !.window = @ + new - s.initial])

Overflows(s, i, new) == s.streams[i].window + new - s.initial > MaxWindow

\* A stream whose window would overflow is reset, as AddRst does.
OnSettings(s, f) ==
  LET over == {i \in Ids : Exists(s, i) /\ Overflows(s, i, f.initial)}
      reset == {i \in over : s.streams[i].state # "CLOSING"}
      rsts == [k \in 1 .. Cardinality(reset) |-> Frame("rst", SetToSeq(reset)[k])]
      t == [s EXCEPT !.streams = [i \in Ids |->
                       CASE i \in reset -> [@[i] EXCEPT !.state = "CLOSING"]
                         [] Exists(s, i) /\ i \notin over -> InitialWindow(s, i, f.initial)
                         [] OTHER -> @[i]],
                     !.reg = @ \o rsts, !.limit = f.limit, !.initial = f.initial] IN
  IF Closing(t) THEN t ELSE AddAck(t, "ack")

OnSettingsAck(s) == IF s.inflight = 0 THEN Terminate(s) ELSE [s EXCEPT !.inflight = @ - 1]

\* Mutant of AboveLast: the last stream that is processed is closed, too.
FromLast(s, last) == {i \in Requests : Exists(s, i) /\ i >= last}

AboveLast(s, last) == {i \in Requests : Exists(s, i) /\ i > last}

OnGoaway(s, f) ==
  IF (f.id > 0 /\ ~IsMine(f.id)) \/ s.remoteLast < f.id THEN Terminate(s)
  ELSE LET t == [s EXCEPT !.goaway = @ \cup {"RECV"}, !.remoteLast = f.id] IN
       CloseAll(t, AboveLast(t, f.id), "refused")

OnUpdate(s, f) ==
  LET st == s.streams[f.id]
      wider == [st EXCEPT !.window = @ + f.n] IN
  IF f.id = 0
  THEN IF f.n = 0 \/ MaxWindow - f.n < s.window THEN Terminate(s)
       ELSE [s EXCEPT !.window = @ + f.n]
  ELSE IF st.state = "none" THEN IF Idle(s, f.id) THEN Terminate(s) ELSE s
  ELSE IF st.state = "RESERVED" \/ f.n = 0 THEN Terminate(s)
  ELSE IF MaxWindow - f.n < st.window THEN AddRst(s, f.id)
  ELSE [s EXCEPT !.streams[f.id] = Resume(wider)]

OnPush(s, f) ==
  LET st == s.streams[f.id]
      t == [s EXCEPT !.lastRecv = f.promised] IN
  IF ~IsMine(f.id) THEN Terminate(s)
  ELSE IF ~AllowNew(s) THEN s
  ELSE IF f.promised <= s.lastRecv \/ s.lastSent < f.id THEN Terminate(s)
  ELSE IF st.state \in {"none", "CLOSING"} \/ s.reserved >= MaxReserved THEN AddRst(t, f.promised)
  ELSE IF "RD" \in st.shut THEN Terminate(t)
  ELSE [Open(t, f.promised, "RESERVED", {"WR"}) EXCEPT !.lastProc = f.promised]

Received(s, f) ==
  CASE f.type = "headers"  -> OnHeaders(s, f)
    [] f.type = "data"     -> OnData(s, f)
    [] f.type = "rst"      -> OnRst(s, f)
    [] f.type = "settings" -> OnSettings(s, f)
    [] f.type = "ack"      -> OnSettingsAck(s)
    [] f.type = "ping"     -> IF Closing(s) THEN s ELSE AddAck(s, "pong")
    [] f.type = "goaway"   -> OnGoaway(s, f)
    [] f.type = "window"   -> OnUpdate(s, f)
    [] OTHER               -> OnPush(s, f)

-----------------------------------------------------------------------------
(* The client's steps *)

\* session_new, after the requests are submitted
Session(syn) ==
  [streams |-> [i \in Ids |-> NoStream],
   urgent |-> <<Frame("settings", 0)>>, reg |-> <<>>,
   syn |-> syn,
   aob |-> NoFrame,
   left |-> [i \in Requests |-> Body],
   out |-> 0, in |-> 0, reserved |-> 0,
   goaway |-> {}, ignoring |-> FALSE, failed |-> FALSE,
   lastSent |-> 0, lastRecv |-> 0, lastProc |-> 0, remoteLast |-> LastId,
   limit |-> NoLimit, initial |-> Window, window |-> Window,
   recvd |-> 0, updating |-> FALSE,
   acks |-> 0, inflight |-> 1,
   closed |-> [i \in Ids |-> "no"], finished |-> {}]

Init ==
  /\ \E order \in [1 .. Cardinality(Requests) -> Requests] :
       /\ \A j, k \in DOMAIN order : j < k => order[j] < order[k]
       /\ c = Session([k \in DOMAIN order |-> Headers(order[k], FALSE, FALSE)])
  /\ turn = "send"
  /\ down = <<>>
  /\ server = [mode |-> "starting", pending |-> <<>>, limit |-> NoLimit, initial |-> Window,
               window |-> Window, windows |-> [i \in Ids |-> 0],
               credit |-> Window, credits |-> [i \in Ids |-> Window],
               phase |-> [i \in Ids |-> "idle"], done |-> {}, processed |-> {},
               got |-> [i \in Requests |-> 0], sent |-> [i \in Ids |-> 0], last |-> LastId,
               overrun |-> FALSE, crowded |-> FALSE]
  /\ extras = MaxExtras

\* nghttp2_session_mem_send_internal takes the next frame.
PrepFrame ==
  /\ turn = "send" /\ c.aob = NoFrame
  /\ \E f \in NextItems(c) : c' = Prep(Popped(c, f), f)
  /\ UNCHANGED <<turn, down, server, extras>>

\* The streams that count for the server
Concurrent(v) ==
  {i \in Requests : v.phase[i] \in {"open", "answering"} \/ (v.phase[i] = "ended" /\ i \notin v.done)}

Taken(v, f) ==
  CASE f.type = "ack" ->
         LET x == Head(v.pending) IN
         [v EXCEPT !.pending = Tail(@), !.limit = x.limit, !.initial = x.initial,
                   !.windows = [i \in Ids |-> @[i] + x.initial - v.initial]]
    [] f.type = "headers" ->
         IF f.id > v.last THEN v
         ELSE [v EXCEPT !.phase[f.id] = "open", !.windows[f.id] = v.initial,
                        !.crowded = @ \/ Cardinality(Concurrent(v)) >= v.limit]
    [] f.type = "data" ->
         [v EXCEPT !.window = @ - f.n, !.windows[f.id] = @ - f.n, !.got[f.id] = @ + f.n,
                   !.done = IF f.end THEN @ \cup {f.id} ELSE @,
                   !.overrun = @ \/ f.n > v.window
                                 \/ (v.phase[f.id] \notin {"idle", "reset"} /\ f.n > v.windows[f.id])]
    [] f.type = "rst" -> [v EXCEPT !.phase[f.id] = "reset"]
    [] f.type = "window" ->
         IF f.id = 0 THEN [v EXCEPT !.credit = @ + f.n] ELSE [v EXCEPT !.credits[f.id] = @ + f.n]
    [] f.type = "goaway" -> [v EXCEPT !.mode = "closed"]
    [] OTHER -> v

\* callback_send has written all of the frame.
WriteFrame ==
  /\ turn = "send" /\ c.aob # NoFrame
  /\ c' = AfterSent(c)
  /\ server' = Taken(server, c.aob)
  /\ down' = IF c.aob.type = "settings" THEN Append(down, Frame("ack", 0)) ELSE down
  /\ UNCHANGED <<turn, extras>>

\* There is nothing to send, or callback_send would block.
SendDone ==
  /\ turn = "send"
  /\ c.aob # NoFrame \/ NextItems(c) = {}
  /\ turn' = "recv"
  /\ UNCHANGED <<c, down, server, extras>>

\* mem_recv2 asks whether to read at the first byte only of what has arrived; once it does
\* not, it never reads again.
Receive ==
  /\ turn = "recv" /\ down # <<>>
  /\ c' \in (IF c.ignoring THEN {c} ELSE {Received(c, Head(down))})
              \cup (IF WantRead(c) THEN {} ELSE {[c EXCEPT !.ignoring = TRUE]})
  /\ down' = Tail(down)
  /\ turn' = IF c'.failed THEN "failed" ELSE turn
  /\ UNCHANGED <<server, extras>>

\* callback_recv would block, or the server has closed the connection.
RecvDone ==
  /\ turn = "recv"
  /\ turn' = IF down = <<>> /\ server.mode = "closed" THEN "failed"
             ELSE IF Requests \subseteq c.finished THEN "finished" ELSE "send"
  /\ UNCHANGED <<c, down, server, extras>>

Execute == PrepFrame \/ WriteFrame \/ SendDone \/ Receive \/ RecvDone

-----------------------------------------------------------------------------
(* The server *)

Send(f) == down' = Append(down, f) /\ UNCHANGED <<c, turn>>
Up == server.mode \in {"up", "leaving"}
Extra == Up /\ extras > 0 /\ extras' = extras - 1

SettingsFrame(x) == [type |-> "settings", id |-> 0, limit |-> x.limit, initial |-> x.initial]

ServerPreface ==
  /\ server.mode = "starting"
  /\ \E x \in Settings :
       /\ Send(SettingsFrame(x))
       /\ server' = [server EXCEPT !.mode = "up", !.pending = <<x>>]
  /\ UNCHANGED extras

Respond(i) ==
  /\ Up /\ server.phase[i] \in {"open", "promised"}
  /\ Send(Headers(i, FALSE, FALSE))
  /\ server' = [server EXCEPT !.phase[i] = "answering", !.processed = @ \cup {i}]
  /\ UNCHANGED extras

SendAnswer(i) ==
  /\ Up /\ server.phase[i] = "answering" /\ server.sent[i] < Answer
  /\ \E n \in 1 .. Least(Answer - server.sent[i], Least(server.credit, server.credits[i])) :
     \E end \in {FALSE, n + server.sent[i] = Answer} :
       /\ Send(Data(i, n, end))
       /\ server' = [server EXCEPT !.sent[i] = @ + n, !.credit = @ - n, !.credits[i] = @ - n,
                                   !.phase[i] = IF end THEN "ended" ELSE @]
  /\ UNCHANGED extras

Trailers(i) ==
  /\ Up /\ server.phase[i] = "answering" /\ server.sent[i] = Answer
  /\ Send(Headers(i, FALSE, TRUE))
  /\ server' = [server EXCEPT !.phase[i] = "ended"]
  /\ UNCHANGED extras

\* It opens a window that is used up, and lets a request begin.
Grant ==
  /\ Up
  /\ \/ /\ server.window <= 0
        /\ Send(Update(0, Window - server.window))
        /\ server' = [server EXCEPT !.window = Window]
     \/ \E i \in Requests :
          /\ server.phase[i] \in {"open", "answering", "ended"} /\ i \notin server.done
          /\ server.windows[i] <= 0
          /\ Send(Update(i, Window - server.windows[i]))
          /\ server' = [server EXCEPT !.windows[i] = Window]
     \/ /\ server.pending = <<>> /\ server.limit = 0
        /\ LET x == [limit |-> 1, initial |-> server.initial] IN
           /\ Send(SettingsFrame(x))
           /\ server' = [server EXCEPT !.pending = <<x>>]
  /\ UNCHANGED extras

\* After a GOAWAY it closes the connection when it has answered.
CloseConnection ==
  /\ server.mode = "leaving"
  /\ \A i \in Ids : server.phase[i] \notin {"open", "answering"}
  /\ server' = [server EXCEPT !.mode = "closed"]
  /\ UNCHANGED <<c, turn, down, extras>>

ChangeSettings ==
  /\ Extra
  /\ \E x \in Settings :
       Send(SettingsFrame(x)) /\ server' = [server EXCEPT !.pending = Append(@, x)]

Ping == Extra /\ Send(Frame("ping", 0)) /\ UNCHANGED server

Reset(i) ==
  /\ Extra
  /\ server.phase[i] \in {"open", "answering", "promised"}
  /\ \E why \in {"reset"} \cup (IF server.phase[i] = "open" THEN {"refused"} ELSE {}) :
       Send([type |-> "rst", id |-> i, why |-> why])
  /\ server' = [server EXCEPT !.phase[i] = "reset"]

\* What is above the last stream it has begun to process is not processed.
GoAway ==
  /\ Extra
  /\ \E last \in {0} \cup Requests :
       /\ last <= server.last /\ \A i \in server.processed \cap Requests : i <= last
       /\ Send(Frame("goaway", last))
       /\ server' = [server EXCEPT !.mode = "leaving", !.last = last,
            !.phase = [i \in Ids |-> IF i \in Requests /\ i > last /\ @[i] = "open" THEN "reset"
                                     ELSE @[i]]]

Promise(i, p) ==
  /\ Extra
  /\ server.phase[i] \in {"open", "answering"} /\ server.phase[p] = "idle"
  /\ Send([type |-> "push", id |-> i, promised |-> p])
  /\ server' = [server EXCEPT !.phase[p] = "promised"]

\* The streams a wrong frame is about: no request the client may be opening.
Known == Promises \cup {i \in Requests : server.phase[i] # "idle"}

WrongPushes == {[type |-> "push", id |-> i, promised |-> p] : i \in Known, p \in Promises}

WrongFrames ==
  {Headers(i, FALSE, FALSE) : i \in Known} \cup {Headers(i, TRUE, TRUE) : i \in Known}
    \cup {Frame("ack", 0), Frame("goaway", 2)}
    \cup {[type |-> "rst", id |-> i, why |-> "reset"] : i \in {p \in Promises : server.phase[p] = "idle"}}
    \cup WrongPushes

Misbehave ==
  /\ Extra
  /\ \/ \E f \in WrongFrames : Send(f) /\ UNCHANGED server
     \/ \E i \in Known, n \in {0, MaxWindow} :
          Send(Update(i, n)) /\ server' = [server EXCEPT !.windows[i] = @ + n]
     \/ \E n \in {0, MaxWindow} :
          Send(Update(0, n)) /\ server' = [server EXCEPT !.window = @ + n]
     \/ /\ server.credit > 0
        /\ \E i \in Known :
             Send(Data(i, 1, FALSE)) /\ server' = [server EXCEPT !.credit = @ - 1]

\* A server of gRPC answers a request when it has all of it; others may be earlier.
Answers ==
  \/ \E i \in Promises \cup server.done : Respond(i)
  \/ \E i \in Ids : SendAnswer(i) \/ Trailers(i)

Serve == ServerPreface \/ Answers \/ Grant \/ CloseConnection

Disturb ==
  \/ ChangeSettings \/ Ping \/ GoAway \/ Misbehave
  \/ \E i \in Ids : Reset(i) \/ Respond(i)
  \/ \E i \in Requests, p \in Promises : Promise(i, p)

Next == Execute \/ Serve \/ Disturb

-----------------------------------------------------------------------------
(* What the session promises *)

Spec == Init /\ [][Next]_sessionVars

\* The loop of SendGrpcRequestAndWait goes on, the socket takes and delivers what is sent,
\* and the server answers.
Fairness ==
  /\ WF_sessionVars(Execute) /\ SF_sessionVars(WriteFrame) /\ SF_sessionVars(Receive)
  /\ WF_sessionVars(Serve)

LiveSpec == Spec /\ Fairness

\* No DATA frame is larger than the windows the server has given, whatever changes of
\* the initial window cross it, and there are never more streams open than it allows
\* (session_prep_frame, session_is_outgoing_concurrent_streams_max).
LimitsKept == ~server.overrun /\ ~server.crowded

\* The session goes on: it does not end the connection, and after a GOAWAY a request is
\* still under way.
GoesOn(s) ==
  /\ ~s.ignoring /\ s.goaway \cap {"TERM_ON_SEND", "TERM_SENT"} = {}
  /\ "RECV" \in s.goaway => \E i \in Requests : Exists(s, i)

\* The units of data in some frames, and those some frames give back on the connection
DataIn(f) == IF f.type = "data" THEN f.n ELSE 0
Returned(f) == IF f.type = "window" /\ f.id = 0 THEN f.n ELSE 0
AllData(q) == Total([k \in DOMAIN q |-> DataIn(q[k])])
AllReturned(q) == Total([k \in DOMAIN q |-> Returned(q[k])])

\* Every unit of data the server sends is counted once and its place on the connection
\* given back while the session goes on, those of streams that are gone included; else a
\* long answer would stall
\* (session_update_recv_connection_window_size).
WindowsConserved ==
  GoesOn(c) =>
    server.credit + AllData(down) + c.recvd + AllReturned(c.reg) + Returned(c.aob) = Window

\* A stream that is reported as refused can be tried again: the server has done nothing
\* for it (nghttp2_session_on_goaway_received).
RefusedUnprocessed == \A i \in Requests : c.closed[i] = "refused" => i \notin server.processed

\* The loop ends: data that wait for a window or for a stream to end are sent then
\* (session_resume_deferred_stream_item).
RequestsEnd == <>(turn \in {"finished", "failed"})
=============================================================================
