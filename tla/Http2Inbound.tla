---------------------------- MODULE Http2Inbound ----------------------------
(***************************************************************************)
(* How a session of the vendored nghttp2 takes frames out of the bytes     *)
(* that arrive (nghttp2_session_mem_recv2), in whatever pieces TLS hands   *)
(* them over.                                                              *)
(*                                                                         *)
(* Only the number of the bytes matters: a frame is a record, of which the *)
(* code knows the first fields when it has read the header, and "pad" when *)
(* it has read the byte for it.  What the session does with a frame is in  *)
(* the module Http2Session; here it is the frame's "verdict": "ok",        *)
(* "ignore" (its payload), "terminate" (the connection), and in a block of *)
(* headers "comp" (its first byte cannot be decompressed) and "reset" (the *)
(* first byte completes a header that is not allowed).  The hub sets no    *)
(* options: types that are not in RFC 9113 are skipped, and windows are    *)
(* opened again without the application.                                   *)
(*                                                                         *)
(* The lengths of fields are parameters to keep the instance small; the    *)
(* code has 9, 5, 6, 4 and 8 for the first five.                           *)
(***************************************************************************)
EXTENDS Naturals, Sequences, SequencesExt

CONSTANTS
  HeadLength, PriorityLength, EntryLength, WordLength, PingLength,
  MaxFrameSize,      \* local_settings.max_frame_size
  MaxEntries,        \* max_settings
  MaxContinuations,  \* max_continuations
  FrameSequences     \* what the peer may send

InboundAssumption ==
  /\ {HeadLength, PriorityLength, EntryLength, WordLength, PingLength} \subseteq Nat \ {0}
  /\ {MaxFrameSize, MaxEntries, MaxContinuations} \subseteq Nat

VARIABLES
  frames,  \* all that the peer sends
  bytes,   \* how many bytes of it have not arrived
  iframe,  \* session->iframe, and the counters next to it
  events   \* history: what the session was told, in the order of it

inboundVars == <<frames, bytes, iframe, events>>

Size(f) == HeadLength + f.length
Sum(list) == FoldLeft(+, 0, [i \in DOMAIN list |-> Size(list[i])])

Init ==
  /\ frames \in FrameSequences
  /\ bytes = Sum(frames)
  /\ iframe = [state |-> "FIRST_SETTINGS",
               next   |-> 1,           \* the frame whose header comes next
               hd     |-> frames[1],   \* frame.hd, once it has been read
               mark   |-> HeadLength,  \* nghttp2_buf_mark_avail(&sbuf)
               left   |-> 0,           \* payloadleft
               padlen |-> 0,           \* with the byte that says so
               body   |-> 0,           \* payload given to the session so far
               charged |-> 0,          \* taken from the connection's window
               continuations |-> 0]
  /\ events = <<>>

-----------------------------------------------------------------------------
(* A step of the loop: s has the fields of iframe, the bytes that are there *)
(* ("avail"), the events, whether to go on without any ("busy"), and        *)
(* whether to return.                                                       *)

Least(a, b) == IF a < b THEN a ELSE b

Go(s, state) == [s EXCEPT !.state = state]
Busy(s, state) == [s EXCEPT !.state = state, !.busy = TRUE]
Marked(s, n) == [s EXCEPT !.state = "NBYTE", !.mark = n]
Told(s, what) == [s EXCEPT !.events = Append(@, [kind |-> what, body |-> s.body])]

\* session_inbound_frame_reset
Reset(s) == [s EXCEPT !.state = "HEAD", !.mark = HeadLength, !.left = 0, !.padlen = 0, !.body = 0]

\* session_terminate_session; what has arrived is dropped.
Terminated(s) ==
  [s EXCEPT !.state = "IGN_ALL", !.avail = 0, !.return = TRUE,
            !.events = Append(@, [kind |-> "terminated", body |-> 0])]

\* inbound_frame_buf_read, and its return while bytes are missing
Filled(s) ==
  LET n == Least(s.avail, s.mark) IN
  [s EXCEPT !.avail = @ - n, !.mark = @ - n, !.return = n < s.mark]

\* inbound_frame_payload_readlen
Readable(s) == Least(s.avail, s.left)
Read(s, n) == [s EXCEPT !.avail = @ - n, !.left = @ - n]

\* nghttp2_frame_trail_padlen
Trail(s) == IF s.padlen = 0 THEN 0 ELSE s.padlen - (IF s.hd.padded THEN 1 ELSE 0)

\* Mutant of Effective: padding that an earlier piece held is counted again.
EffectiveTwice(s, left, n) == IF Trail(s) > n THEN 0 ELSE n - (IF left = 0 THEN Trail(s) ELSE 0)

\* inbound_frame_effective_readlen: the bytes among n that are not padding, left
\* being what comes after them.
Effective(s, left, n) ==
  LET padding == Trail(s) - left IN
  IF Trail(s) <= left THEN n ELSE IF n < padding THEN 0 ELSE n - padding

PriorityLen(f) == IF f.priority THEN PriorityLength ELSE 0

\* session_process_headers_frame and _push_promise_frame, and what follows
ProcessedHeaders(s) ==
  CASE s.hd.verdict = "terminate" -> Terminated(s)
    [] s.hd.verdict = "ignore"    -> Busy(s, "IGN_HEADER_BLOCK")
    [] OTHER                      -> Busy(s, "READ_HEADER_BLOCK")

\* A frame that is complete: session_process_..._frame
Processed(s) ==
  IF s.hd.verdict = "terminate" THEN Terminated(s) ELSE Reset(Told(s, s.hd.type))

-----------------------------------------------------------------------------
(* NGHTTP2_IB_READ_HEAD, by the type of the frame *)

HeadOfData(s) ==
  CASE s.hd.verdict = "terminate" -> Terminated(s)
    [] s.hd.verdict = "ignore"    -> Busy(s, "IGN_DATA")
    [] OTHER -> IF ~s.hd.padded THEN Busy(s, "READ_DATA")
                ELSE IF s.hd.length < 1 THEN Terminated(s)
                ELSE [s EXCEPT !.state = "READ_PAD_DATA", !.mark = 1, !.busy = TRUE]

HeadOfHeaders(s) ==
  LET pri == PriorityLen(s.hd) IN
  IF s.hd.padded THEN IF s.hd.length < 1 THEN Terminated(s) ELSE Marked(s, 1)
  ELSE IF pri > s.left THEN Busy(s, "FRAME_SIZE_ERROR")
  ELSE IF pri > 0 THEN Marked(s, pri)
  ELSE ProcessedHeaders(s)

HeadOfPush(s) ==
  IF s.hd.padded THEN IF s.hd.length < 1 THEN Terminated(s) ELSE Marked(s, 1)
  ELSE IF s.left < WordLength THEN Busy(s, "FRAME_SIZE_ERROR")
  ELSE Marked(s, WordLength)

HeadOfSettings(s) ==
  IF s.left % EntryLength # 0 \/ (s.hd.ack /\ s.left > 0) THEN Busy(s, "FRAME_SIZE_ERROR")
  ELSE IF s.left \div EntryLength > MaxEntries THEN Terminated(s)
  ELSE IF s.left > 0 THEN [s EXCEPT !.state = "READ_SETTINGS", !.mark = EntryLength]
  ELSE [s EXCEPT !.state = "READ_SETTINGS", !.mark = 0, !.busy = TRUE]

\* PRIORITY, RST_STREAM, WINDOW_UPDATE, PING: the length is fixed.
HeadOfFixed(s, n) == IF s.left # n THEN Busy(s, "FRAME_SIZE_ERROR") ELSE Marked(s, n)

HeadOfGoaway(s) ==
  IF s.left < PingLength THEN Busy(s, "FRAME_SIZE_ERROR") ELSE Marked(s, PingLength)

ReadHead(s0) ==
  LET f == frames[s0.next]
      s == [s0 EXCEPT !.hd = f, !.left = f.length, !.next = @ + 1] IN
  IF f.length > MaxFrameSize THEN Terminated(s)
  ELSE CASE f.type = "data"         -> HeadOfData(s)
         [] f.type = "headers"      -> HeadOfHeaders(s)
         [] f.type = "push"         -> HeadOfPush(s)
         [] f.type = "settings"     -> HeadOfSettings(s)
         [] f.type = "priority"     -> HeadOfFixed(s, PriorityLength)
         [] f.type \in {"rst", "window"} -> HeadOfFixed(s, WordLength)
         [] f.type = "ping"         -> HeadOfFixed(s, PingLength)
         [] f.type = "goaway"       -> HeadOfGoaway(s)
         [] f.type = "continuation" -> Terminated(s)
         [] OTHER                   -> Busy(s, "IGN_PAYLOAD")

\* NGHTTP2_IB_READ_FIRST_SETTINGS, which falls through to READ_HEAD
FirstSettings(s) ==
  LET f == frames[s.next] IN
  IF f.type # "settings" \/ f.ack THEN Terminated(s) ELSE ReadHead(s)

-----------------------------------------------------------------------------
(* The other states *)

\* NGHTTP2_IB_READ_NBYTE of HEADERS: the byte for the padding, then the priority
NbyteOfHeaders(s) ==
  LET pri == PriorityLen(s.hd)
      t == [s EXCEPT !.padlen = s.hd.pad + 1] IN
  IF s.padlen # 0 \/ ~s.hd.padded THEN ProcessedHeaders(s)
  ELSE IF s.hd.pad > s.left \/ s.hd.pad + pri > s.left THEN Terminated(s)
  ELSE IF pri > 0 THEN Marked(t, pri)
  ELSE ProcessedHeaders(t)

NbyteOfPush(s) ==
  IF s.padlen # 0 \/ ~s.hd.padded THEN ProcessedHeaders(s)
  ELSE IF s.hd.pad > s.left \/ s.hd.pad + WordLength > s.left THEN Terminated(s)
  ELSE Marked([s EXCEPT !.padlen = s.hd.pad + 1], WordLength)

ReadNbyte(s0) ==
  LET s == [Filled(s0) EXCEPT !.left = @ - Least(s0.avail, s0.mark)] IN
  IF s.return THEN s
  ELSE CASE s.hd.type = "headers" -> NbyteOfHeaders(s)
         [] s.hd.type = "push"    -> NbyteOfPush(s)
         [] s.hd.type = "goaway"  -> Busy(s, "READ_GOAWAY_DEBUG")
         [] OTHER                 -> Processed(s)

\* The end of a frame in a block of headers
BlockEnds(s) ==
  IF s.left > 0 THEN s
  ELSE IF ~s.hd.end
  THEN [s EXCEPT !.state = IF s.state = "READ_HEADER_BLOCK" THEN "EXPECT_CONTINUATION"
                           ELSE "IGN_CONTINUATION",
                 !.mark = HeadLength, !.padlen = 0]
  ELSE LET t == IF s.state = "READ_HEADER_BLOCK" THEN Told(s, s.hd.type)
                ELSE Told(s, "ignored") IN
       [Reset(t) EXCEPT !.continuations = 0]

\* NGHTTP2_IB_READ_HEADER_BLOCK and _IGN_HEADER_BLOCK, with inflate_header_block
ReadHeaderBlock(s) ==
  LET n == Readable(s)
      k == Effective(s, s.left - n, n)
      final == s.hd.end /\ s.left - k = Trail(s)
      t == Read([s EXCEPT !.body = @ + k], n) IN
  IF k = 0 /\ ~final THEN BlockEnds(t)
  ELSE IF s.hd.verdict = "comp" /\ (k > 0 \/ s.body > 0) THEN Terminated(s)
  ELSE IF s.hd.verdict = "reset" /\ s.state = "READ_HEADER_BLOCK" /\ k > 0
       THEN Busy(Read([s EXCEPT !.body = @ + 1], 1), "IGN_HEADER_BLOCK")
  ELSE BlockEnds(t)

\* NGHTTP2_IB_EXPECT_CONTINUATION and _IGN_CONTINUATION: every piece of the header
\* counts, not only the last.
ReadContinuation(s0) ==
  LET s == [Filled(s0) EXCEPT !.continuations = @ + 1]
      f == frames[s.next] IN
  IF s.continuations > MaxContinuations
  THEN [s EXCEPT !.state = "FAILED", !.return = TRUE]    \* ERR_TOO_MANY_CONTINUATIONS
  ELSE IF s.return THEN s
  ELSE IF f.type # "continuation" \/ f.verdict = "terminate" THEN Terminated(s)
  ELSE Busy([s EXCEPT !.hd.end = s.hd.end \/ f.end, !.left = f.length, !.next = @ + 1],
            IF s.state = "EXPECT_CONTINUATION" THEN "READ_HEADER_BLOCK" ELSE "IGN_HEADER_BLOCK")

ReadSettings(s0) ==
  LET s == [Filled(s0) EXCEPT !.left = @ - Least(s0.avail, s0.mark), !.return = FALSE] IN
  IF s.mark > 0 THEN s
  ELSE LET t == IF s0.mark > 0 THEN [s EXCEPT !.body = @ + 1] ELSE s IN
       IF t.left > 0 THEN [t EXCEPT !.mark = EntryLength] ELSE Processed(t)

\* NGHTTP2_IB_READ_GOAWAY_DEBUG
ReadGoawayDebug(s) ==
  LET t == Read([s EXCEPT !.body = @ + Readable(s)], Readable(s)) IN
  IF t.left > 0 THEN t ELSE Processed(t)

\* NGHTTP2_IB_READ_PAD_DATA: the byte for the padding counts for the window.
ReadPadData(s0) ==
  LET s == [Filled(s0) EXCEPT !.left = @ - Least(s0.avail, s0.mark),
                              !.charged = @ + Least(s0.avail, s0.mark)] IN
  IF s.return THEN s
  ELSE IF s.hd.pad > s.left THEN Terminated(s)
  ELSE Busy([s EXCEPT !.padlen = s.hd.pad + 1], "READ_DATA")

ReadData(s) ==
  LET n == Readable(s)
      k == Effective(s, s.left - n, n)
      t == Read([s EXCEPT !.body = @ + k, !.charged = @ + n], n) IN
  IF s.hd.verdict = "reset" /\ k > 0 THEN Busy([t EXCEPT !.body = 0], "IGN_DATA")
  ELSE IF t.left > 0 THEN t ELSE Processed(t)

\* NGHTTP2_IB_IGN_DATA
IgnoreData(s) ==
  LET t == Read([s EXCEPT !.charged = @ + Readable(s)], Readable(s)) IN
  IF t.left > 0 THEN t ELSE Reset(Told(t, "ignored"))

IgnorePayload(s) ==
  LET t == Read(s, Readable(s)) IN
  IF t.left > 0 THEN t ELSE Reset(Told(t, "ignored"))

Stepped(s) ==
  CASE s.state \in {"FIRST_SETTINGS", "HEAD"} ->
         LET t == Filled(s) IN
         IF t.return THEN t ELSE IF s.state = "HEAD" THEN ReadHead(t) ELSE FirstSettings(t)
    [] s.state = "NBYTE"             -> ReadNbyte(s)
    [] s.state \in {"READ_HEADER_BLOCK", "IGN_HEADER_BLOCK"} -> ReadHeaderBlock(s)
    [] s.state \in {"EXPECT_CONTINUATION", "IGN_CONTINUATION"} -> ReadContinuation(s)
    [] s.state = "READ_SETTINGS"     -> ReadSettings(s)
    [] s.state = "READ_GOAWAY_DEBUG" -> ReadGoawayDebug(s)
    [] s.state = "READ_PAD_DATA"     -> ReadPadData(s)
    [] s.state = "READ_DATA"         -> ReadData(s)
    [] s.state = "IGN_DATA"          -> IgnoreData(s)
    [] s.state = "IGN_PAYLOAD"       -> IgnorePayload(s)
    [] OTHER                         -> Terminated(s)    \* FRAME_SIZE_ERROR

\* "for (;;) { ... if (!busy && in == last) break; }"
RECURSIVE Run(_)
Run(s) ==
  LET t == Stepped([s EXCEPT !.busy = FALSE]) IN
  IF t.return \/ (~t.busy /\ t.avail = 0) THEN t ELSE Run(t)

\* nghttp2_session_mem_recv2 with the next n bytes
Recv(n) ==
  /\ iframe.state \notin {"IGN_ALL", "FAILED"}
  /\ LET s == Run(iframe @@ [avail |-> n, events |-> events, busy |-> FALSE, return |-> FALSE]) IN
     /\ iframe' = [k \in DOMAIN iframe |-> s[k]]
     /\ events' = s.events
  /\ bytes' = bytes - n
  /\ UNCHANGED frames

Next == \E n \in 1 .. bytes : Recv(n)

Spec == Init /\ [][Next]_inboundVars

-----------------------------------------------------------------------------
(* Properties *)

Event(what, n) == [kind |-> what, body |-> n]
Block(f) == IF f.padded THEN f.length - 1 - f.pad ELSE f.length
Fixed(f) == CASE f.type = "headers" -> PriorityLen(f) [] f.type = "push" -> WordLength
              [] OTHER -> 0

\* The length of a frame does not fit what is in it.
BadSize(f) ==
  \/ f.length > MaxFrameSize
  \/ f.type \in {"data", "headers", "push"} /\ f.verdict # "ignore" /\ f.padded
       /\ (f.length = 0 \/ f.pad >= f.length)
  \/ f.type \in {"headers", "push"} /\ (IF f.padded THEN 1 + f.pad ELSE 0) + Fixed(f) > f.length
  \/ f.type = "settings" /\ \/ f.length % EntryLength # 0 \/ (f.ack /\ f.length > 0)
                            \/ f.length \div EntryLength > MaxEntries
  \/ f.type = "priority" /\ f.length # PriorityLength
  \/ f.type \in {"rst", "window"} /\ f.length # WordLength
  \/ f.type = "ping" /\ f.length # PingLength
  \/ f.type = "goaway" /\ f.length < PingLength

\* Where the block of headers that begins a list of frames ends
BlockEnd(list) == SelectInSeq(list, LAMBDA f : f.end)

Complete(list) ==
  BlockEnd(list) > 0
    /\ \A i \in 2 .. BlockEnd(list) : list[i].type = "continuation" /\ list[i].verdict = "ok"

BlockLength(list) ==
  FoldLeft(LAMBDA n, f : n + f.length, Block(list[1]) - Fixed(list[1]),
           SubSeq(list, 2, BlockEnd(list)))

\* The headers, and whether anything of them is to be kept
Headers(list) ==
  LET f == list[1] IN
  Event(IF f.verdict = "ignore" \/ (f.verdict = "reset" /\ BlockLength(list) > 0)
        THEN "ignored" ELSE f.type, BlockLength(list))

Single(f) ==
  CASE f.type = "data" /\ (f.verdict = "ok" \/ Block(f) = 0) /\ f.verdict # "ignore"
                         -> Event("data", Block(f))
    [] f.type = "settings" -> Event("settings", f.length \div EntryLength)
    [] f.type = "goaway"   -> Event("goaway", f.length - PingLength)
    [] f.type \in {"data", "unknown"} -> Event("ignored", 0)
    [] OTHER               -> Event(f.type, 0)

\* What the session is to be told, by the definition of the protocol: of one frame
\* after the other, and of a block of headers as a whole.
RECURSIVE Meaning(_)
Meaning(list) ==
  IF list = <<>> THEN <<>>
  ELSE LET f == list[1] IN
  IF BadSize(f) \/ f.verdict = "terminate" \/ f.type = "continuation"
  THEN <<Event("terminated", 0)>>
  ELSE IF f.type \in {"headers", "push"}
  THEN IF ~Complete(list) \/ (f.verdict = "comp" /\ BlockLength(list) > 0)
       THEN <<Event("terminated", 0)>>
       ELSE <<Headers(list)>> \o Meaning(SubSeq(list, BlockEnd(list) + 1, Len(list)))
  ELSE <<Single(f)>> \o Meaning(Tail(list))

Connection ==
  IF frames[1].type = "settings" /\ ~frames[1].ack THEN Meaning(frames)
  ELSE <<Event("terminated", 0)>>

Charge(f) == IF f.type = "data" THEN f.length ELSE 0

\* In whatever pieces the bytes come, the session is told the same: each frame once
\* and in order, without its padding; and every byte of a DATA frame is taken from the
\* connection's window once, that of padding and of an ignored frame too.
FramesAsSent ==
  iframe.state # "FAILED" =>
    /\ IsPrefix(events, Connection)
    /\ bytes = 0 => events = Connection
    /\ (bytes = 0 /\ iframe.state = "HEAD") =>
         iframe.charged = FoldLeft(LAMBDA n, f : n + Charge(f), 0, frames)
=============================================================================
