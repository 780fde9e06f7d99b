------------------------------ MODULE MCHttp2 -------------------------------
(***************************************************************************)
(* The parts of the vendored nghttp2 in one run: each behaviour is one of  *)
(* StreamMap, StreamTree, BinaryHeap, Hpack, HpackLiterals, HeaderTokens,  *)
(* HeaderText, HttpMessages, Http2Inbound, Http2Outbound, LocalWindow or   *)
(* Http2Session, and the others stand still.  StreamTree has two           *)
(* instances.                                                              *)
(***************************************************************************)
EXTENDS Http2Parts, Http2Session, TLC

CONSTANT None

VARIABLES
  part,
  tree, passed, ops, sends,
  task, rest, reader,
  given, coded, emitted,
  text,
  frames, bytes, iframe, events,
  framebufs, item, asked, pieces, taken

mapVars == <<hash, bits, buckets, entries, stored>>
treeVars == <<tree, passed, ops, sends>>
heapVars == <<rank, heap, held>>
hpackVars == <<deflater, inflater, wire, settings, unacked, expected, wrong, blocks, changes>>
literalVars == <<task, rest, reader>>
tokenVars == <<given, coded, emitted>>
textVars == <<text>>
inboundVars == <<frames, bytes, iframe, events>>
messageVars == <<stream, message>>
outboundVars == <<framebufs, item, asked, pieces, taken>>
windowVars == <<auto, w, updates, peer, unread, failed>>
allVars == <<part, mapVars, treeVars, heapVars, hpackVars, literalVars, tokenVars, textVars,
          inboundVars, messageVars, outboundVars, windowVars, sessionVars>>

-----------------------------------------------------------------------------
\* Two streams and frames that differ in length, and three streams.
T2 == INSTANCE StreamTree WITH
        Streams <- {1, 2}, Root <- 0, Weights <- {1, 4}, MaxWeight <- 4, MaxWrite <- 3,
        MaxOps <- 4, MaxSends <- 3
T3 == INSTANCE StreamTree WITH
        Streams <- {1, 2, 3}, Root <- 0, Weights <- {1, 2}, MaxWeight <- 2, MaxWrite <- 1,
        MaxOps <- 4, MaxSends <- 1

\* Hpack: two names share a bucket, one takes two places, one is never indexed.
Names == {"a", "b", "c"}
Values == {"v", "w"}
AlwaysPlain == {"c"}
KnownHeaders == <<[name |-> "a", value |-> "v"]>>
BucketOf == [a |-> 1, b |-> 1, c |-> 2]
RoomFor == [a |-> 1, b |-> 2, c |-> 1]
HeadersOfBlocks == UNION {[1 .. n -> [name : Names, value : Values]] : n \in 1 .. 2}
SizesOfFrames == UNION {[1 .. n -> {1, 3}] : n \in 1 .. 2}

\* Bytes of four bits: the codes have two, three and four.
P == INSTANCE HpackLiterals WITH
       ByteBits <- 4, WordBits <- 8,
       Code <- << <<0, 0>>, <<0, 1>>, <<1, 0>>, <<1, 1, 0>>, <<1, 1, 1, 0>>, <<1, 1, 1, 1>> >>,
       EndOfString <- 6, TextLetters <- {1, 5}, MaxText <- 8,
       PrefixSizes <- {2, 3}, Limits <- {20, 255}

-----------------------------------------------------------------------------
(* Frames for Http2Inbound: one of every kind between SETTINGS and PING,   *)
(* with every length around what is right, and blocks with continuations.  *)

Verdicts == {"ok", "ignore", "terminate", "comp", "reset"}

PingFrame == [type |-> "ping", length |-> 3, padded |-> FALSE, pad |-> 0, priority |-> FALSE,
              end |-> TRUE, ack |-> FALSE, verdict |-> "ok"]
FirstSettings == [PingFrame EXCEPT !.type = "settings", !.length = 2]

Coming(type, length, pad, verdict) ==
  [PingFrame EXCEPT !.type = type, !.length = length, !.verdict = verdict,
                    !.padded = pad > 0, !.pad = IF pad > 0 THEN pad - 1 ELSE 0]

WholeBlocks ==
  {[Coming(t, n, p, v) EXCEPT !.priority = pri] :
     t \in {"headers", "push"}, n \in 0 .. 6, p \in 0 .. 3, v \in Verdicts, pri \in BOOLEAN}
Unfinished ==
  {[Coming(t, n, p, v) EXCEPT !.end = FALSE] :
     t \in {"headers", "push"}, n \in {2, 3, 5}, p \in {0, 2}, v \in Verdicts}
Continued ==
  {[Coming("continuation", n, 0, v) EXCEPT !.end = e] :
     n \in {0, 2}, e \in BOOLEAN, v \in {"ok", "terminate"}}
DataFrames == {Coming("data", n, p, v) : n \in 0 .. 6, p \in 0 .. 3, v \in Verdicts \ {"comp"}}
OtherFrames ==
  {[Coming(t, n, 0, "ok") EXCEPT !.ack = a] :
     t \in {"settings", "priority", "rst", "window", "ping", "goaway", "continuation", "unknown"},
     n \in 0 .. 5, a \in BOOLEAN}

FrameSequences ==
  {<<PingFrame>>, <<[FirstSettings EXCEPT !.ack = TRUE]>>}
  \cup {<<FirstSettings, f, PingFrame>> : f \in WholeBlocks \cup DataFrames \cup OtherFrames}
  \cup {<<FirstSettings, b, f, g, PingFrame>> :
          b \in Unfinished, f \in Continued, g \in {Coming("continuation", 1, 0, "ok"), PingFrame}}

I == INSTANCE Http2Inbound WITH
       HeadLength <- 2, PriorityLength <- 2, EntryLength <- 2, WordLength <- 2,
       PingLength <- 3, MaxFrameSize <- 5, MaxEntries <- 1, MaxContinuations <- 99

-----------------------------------------------------------------------------
(* Header fields for HttpMessages: each rule kept and broken.  No status   *)
(* is -1.                                                                  *)

OneField(name, value) == [name |-> name, value |-> value, n |-> -1, form |-> "ok"]
Number(name, value, n) == [OneField(name, value) EXCEPT !.n = n]
Formed(name, form) == [OneField(name, "") EXCEPT !.form = form]

SomeFields ==
  {OneField("method", v) : v \in {"GET", "HEAD", "CONNECT", "OPTIONS"}}
  \cup {OneField("path", v) : v \in {"/", "*", "x"}} \cup {OneField("scheme", v) : v \in {"http", "x"}}
  \cup {OneField(name, "x") : name \in {"authority", "host", "other", "connection", "x"}}
  \cup {Number("status", "x", n) : n \in {101, 103, 200, 204, 304, -1}}
  \cup {Number("content-length", "0", 0), Number("content-length", "1", 1),
        OneField("content-length", "x")}
  \cup {OneField("te", v) : v \in {"trailers", "gzip"}}
  \cup {Formed(name, "empty") : name \in {"authority", "host"}}
  \cup {Formed("path", "value"), Formed("content-length", "value"), Formed("x", "name"),
        Formed("x", "upper")}

FieldBounds == [request |-> 4, final |-> 3, trailer |-> 1]
NoNumber == -1

\* Every byte of a table's border, and the number 255 in the place of INT64_MAX.
X == INSTANCE HeaderText WITH
       Bytes <- {0, 9, 32, 33, 43, 46, 48, 49, 50, 53, 54, 57, 58, 64, 65, 97, 127, 128},
       MaxText <- 3, MaxInt <- 255
N == INSTANCE HeaderTokens

-----------------------------------------------------------------------------
(* Frames for Http2Outbound: blocks around the lengths at which a buffer   *)
(* or the padding's room ends; three buffers, as in the code.              *)

Cells(n) == [k \in 1 .. n |-> k]
Dependency == [stream |-> 3, exclusive |-> TRUE, weight |-> 16]
Sent(type, flags, members) == members @@ [type |-> type, id |-> 5, flags |-> flags]

OutFrames ==
  {Sent("headers", {"END_HEADERS"} \cup more, [block |-> Cells(n), spec |-> Dependency]) :
     more \in {{}, {"PRIORITY"}, {"END_STREAM"}}, n \in {1, 8, 9, 10, 11, 12, 20, 22, 30, 31}}
  \cup {Sent("push", {"END_HEADERS"}, [block |-> Cells(n), promised |-> 4]) :
          n \in {1, 10, 11, 21, 32, 33}}
  \cup {Sent("data", fl, [data |-> Cells(n), datamax |-> 11]) :
          n \in {0, 2, 11}, fl \in {{}, {"END_STREAM"}}}
  \cup {Sent("data", {}, [data |-> Cells(2), datamax |-> 3]),
        Sent("priority", {}, [spec |-> [Dependency EXCEPT !.exclusive = FALSE]]),
        Sent("rst", {}, [code |-> 8]), Sent("window", {}, [increment |-> 9]),
        Sent("ping", {"ACK"}, [opaque |-> Cells(2)])}
  \cup {Sent("goaway", {}, [last |-> 3, code |-> 1, opaque |-> Cells(n)]) : n \in {0, 5}}
  \cup {Sent("settings", {}, [iv |-> [k \in 1 .. n |-> [settings_id |-> k, value |-> k]]]) :
          n \in {0, 1, 3}}

O == INSTANCE Http2Outbound WITH
       Outgoing <- OutFrames, MaxPayload <- 11, MaxBlock <- 33, MaxPad <- 3, Top <- 128,
       MaxFrames <- 2

-----------------------------------------------------------------------------
\* Http2Session: two requests share the connection and the limit; the body of one comes as
\* a whole or not at all, as that of api.cpp does.
TwoSettings == {[limit |-> 1, initial |-> 1], [limit |-> 0, initial |-> 3]}

ASSUME /\ T2!TreeAssumption /\ T3!TreeAssumption
       /\ P!LiteralsAssumption /\ I!InboundAssumption /\ X!TextAssumption /\ O!OutboundAssumption

-----------------------------------------------------------------------------
\* The parts that stand still: 0, or where they start.
NoTree == tree = 0 /\ passed = 0 /\ ops = 0 /\ sends = 0
NoLiteral == task = 0 /\ rest = 0 /\ reader = 0
NoTokens == given = 0 /\ coded = 0 /\ emitted = 0
NoText == text = 0
NoInbound == frames = 0 /\ bytes = 0 /\ iframe = 0 /\ events = 0
NoOutbound == framebufs = 0 /\ item = 0 /\ asked = 0 /\ pieces = 0 /\ taken = 0

PartsInit ==
  /\ part \in {"map", "two streams", "three streams", "heap", "hpack", "literals", "tokens",
               "text", "inbound", "messages", "outbound", "window", "session"}
  /\ M!Init /\ (part = "map" \/ hash = [k \in Keys |-> 0])
  /\ CASE part = "two streams" -> T2!Init
       [] part = "three streams" -> T3!Init
       [] OTHER -> NoTree
  /\ Q!Init /\ (part = "heap" \/ rank = [e \in Entries |-> 1])
  /\ H!Init
  /\ IF part = "literals" THEN P!Init ELSE NoLiteral
  /\ IF part = "tokens" THEN N!Init ELSE NoTokens
  /\ IF part = "text" THEN X!Init ELSE NoText
  /\ IF part = "inbound" THEN I!Init ELSE NoInbound
  /\ G!Init /\ (part = "messages" \/ stream.awaits = "first")
  /\ IF part = "outbound" THEN O!Init ELSE NoOutbound
  /\ L!Init /\ (part = "window" \/ auto)
  /\ Init

\* Only the part's own variables change.
Others ==
  /\ part' = part
  /\ part # "map" => UNCHANGED mapVars
  /\ part \notin {"two streams", "three streams"} => UNCHANGED treeVars
  /\ part # "heap" => UNCHANGED heapVars
  /\ part # "hpack" => UNCHANGED hpackVars
  /\ part # "literals" => UNCHANGED literalVars
  /\ part # "tokens" => UNCHANGED tokenVars
  /\ part # "text" => UNCHANGED textVars
  /\ part # "inbound" => UNCHANGED inboundVars
  /\ part # "messages" => UNCHANGED messageVars
  /\ part # "outbound" => UNCHANGED outboundVars
  /\ part # "window" => UNCHANGED windowVars
  /\ part # "session" => UNCHANGED sessionVars

PartsNext ==
  \/ part = "map" /\ M!Next /\ Others
  \/ part = "two streams" /\ T2!Next /\ Others
  \/ part = "three streams" /\ T3!Next /\ Others
  \/ part = "heap" /\ Q!Next /\ Others
  \/ part = "hpack" /\ H!Next /\ Others
  \/ part = "literals" /\ P!Next /\ Others
  \/ part = "tokens" /\ N!Next /\ Others
  \/ part = "text" /\ X!Next /\ Others
  \/ part = "inbound" /\ I!Next /\ Others
  \/ part = "messages" /\ G!Next /\ Others
  \/ part = "outbound" /\ O!Next /\ Others
  \/ part = "window" /\ L!Next /\ Others
  \/ part = "session" /\ Next /\ Others

PartsSpec == PartsInit /\ [][PartsNext]_allVars

-----------------------------------------------------------------------------
\* The properties of the parts, by their names there; ContainersExact, HeadersArrive,
\* MessagesValid and WindowsAgree are in Http2Parts.

\* The fields of the streams agree, and a stream waits for no other than its
\* ancestors (stream.c).
ValidTree ==
  (part = "two streams" => T2!ValidTree) /\ (part = "three streams" => T3!ValidTree)

\* Siblings share the connection by their weights (stream_next_cycle), and all streams
\* together keep to what the server allows (session.c).
ConnectionShared ==
  (part = "two streams" => T2!WeightedShare) /\ (part = "session" => LimitsKept)

\* The session is told of each frame once, however the bytes arrive, and what it sends
\* reads as it was meant, however the bytes are taken; integers, strings and numbers too,
\* wherever they are cut and however they are spelt (session.c, frame.c, buf.c, hd.c,
\* http.c, helper.c).
FramesAsSent ==
  /\ part = "inbound" => I!FramesAsSent
  /\ part = "outbound" => O!ReadAsPacked
  /\ part = "literals" => P!DecodesAsCoded
  /\ part = "text" => X!TextsRead
  /\ part = "tokens" => N!TokensAgree
=============================================================================
