---------------------------- MODULE Http2Outbound ----------------------------
(***************************************************************************)
(* How nghttp2 writes its frames: session_prep_frame packs one into        *)
(* aob.framebufs, a chain of buffers of one size that is used again for    *)
(* every frame; nghttp2_session_send hands the buffers to the callback,    *)
(* which may take any part of what it is given.  A block of headers that   *)
(* does not fit one buffer goes on in the next as CONTINUATION.            *)
(*                                                                         *)
(* A cell of a buffer holds what the code puts there with one call: a      *)
(* number of a few bytes (a word has a top bit, Top), a type, a set of     *)
(* flags, a byte of a block.  A length is a number of cells.               *)
(*                                                                         *)
(* Unpack is the reading of these frames (Http2Inbound takes them out of   *)
(* bytes that arrive in pieces).                                           *)
(***************************************************************************)
EXTENDS Integers, Sequences, SequencesExt

CONSTANTS
  Outgoing,    \* the frames: records with the members of their types
  MaxPayload,  \* NGHTTP2_MAX_PAYLOADLEN
  MaxBlock,    \* max_send_header_block_length
  MaxPad,      \* NGHTTP2_MAX_PADLEN
  Top,         \* the top bit of a word
  MaxFrames    \* how many frames a session sends

OutboundAssumption ==
  /\ {MaxPayload, MaxBlock, MaxPad, Top, MaxFrames} \subseteq Nat \ {0}
  /\ \A f \in Outgoing : {"type", "id", "flags"} \subseteq DOMAIN f

VARIABLES
  framebufs, \* nghttp2_bufs: [chain, cur, failed]
  item,      \* the frame that is being sent, or NoItem
  asked,     \* the frame that was taken last, and the padding
  pieces,    \* what the callback has taken of it
  taken      \* how many frames were taken

outboundVars == <<framebufs, item, asked, pieces, taken>>

NoItem == [type |-> "none"]

-----------------------------------------------------------------------------
(* nghttp2_buf.c: a buffer has the cells [pos, last) in it.                *)

HeadLength == 4                     \* length, type, flags, stream
Offset == HeadLength + 1            \* for the length of a padding
ChunkLength == Offset + MaxPayload
MaxChunk == (MaxBlock + ChunkLength - 1) \div ChunkLength

BufLen(buf) == buf.last - buf.pos
BufAvail(buf) == ChunkLength + 1 - buf.last

\* Writing cells over those that are there.
Put(buf, at, cells) ==
  [buf EXCEPT !.mem = [k \in 1 .. ChunkLength |->
                         IF k \in at .. at + Len(cells) - 1 THEN cells[k - at + 1] ELSE @[k]]]
PutLast(buf, cells) == [Put(buf, buf.last, cells) EXCEPT !.last = @ + Len(cells)]

ChainNew == [mem |-> [k \in 1 .. ChunkLength |-> 0], pos |-> Offset + 1, last |-> Offset + 1]
BufsInit == [chain |-> <<ChainNew>>, cur |-> 1, failed |-> FALSE]

Cur(bufs) == bufs.chain[bufs.cur]
BufsLen(bufs) == FoldLeft(LAMBDA n, buf : n + BufLen(buf), 0, bufs.chain)

AllocChain(bufs) ==
  CASE bufs.cur < Len(bufs.chain) -> [bufs EXCEPT !.cur = @ + 1]
    [] bufs.cur = Len(bufs.chain) /\ Len(bufs.chain) < MaxChunk ->
         [bufs EXCEPT !.chain = Append(@, ChainNew), !.cur = @ + 1]
    [] OTHER -> [bufs EXCEPT !.failed = TRUE]

EnsureAddb(bufs) == IF BufAvail(Cur(bufs)) > 0 THEN bufs ELSE AllocChain(bufs)

Addb(bufs, cell) ==
  LET b == EnsureAddb(bufs)
  IN  IF b.failed THEN b ELSE [b EXCEPT !.chain[b.cur] = PutLast(@, <<cell>>)]

\* nghttp2_bufs_add; a block of the deflater comes in calls of all of these.
BufsAdd(bufs, cells) == FoldLeft(LAMBDA b, cell : IF b.failed THEN b ELSE Addb(b, cell), bufs, cells)

\* The first buffer is kept, with its cells.
BufsReset(bufs) ==
  [BufsInit EXCEPT !.chain[1].mem = bufs.chain[1].mem]

NextPresent(bufs) == bufs.cur < Len(bufs.chain) /\ BufLen(bufs.chain[bufs.cur + 1]) > 0

-----------------------------------------------------------------------------
(* nghttp2_frame.c: packing                                                *)

Hd(length, type, flags, id) == <<length, type, flags, id>>

PackFrameHd(buf, hd) ==
  LET b == [buf EXCEPT !.pos = @ - HeadLength] IN Put(b, b.pos, hd)

PackPrioritySpec(spec) ==
  <<IF spec.exclusive THEN spec.stream + Top ELSE spec.stream, spec.weight - 1>>

PriorityLen(f) == IF "PRIORITY" \in f.flags THEN 2 ELSE 0

\* The head of the k-th buffer of a block.
HeadOf(bufs, f, k) ==
  LET last == bufs.cur
      flags == IF k = 1 THEN IF last = 1 THEN f.flags ELSE f.flags \ {"END_HEADERS"}
               ELSE IF k = last THEN {"END_HEADERS"} ELSE {}
  IN  Hd(BufLen(bufs.chain[k]), IF k = 1 THEN f.type ELSE "continuation", flags, f.id)

PackHeadersShared(bufs, f) ==
  [bufs EXCEPT !.chain = [k \in 1 .. Len(@) |->
                            IF k <= bufs.cur THEN PackFrameHd(@[k], HeadOf(bufs, f, k)) ELSE @[k]]]

\* The block after room for "fields", then these before it.
PackBlock(bufs, f, fields) ==
  LET room == [bufs EXCEPT !.chain[1].pos = @ + Len(fields), !.chain[1].last = @ + Len(fields)]
      deflated == BufsAdd(room, f.block)
      back == [deflated EXCEPT !.chain[1].pos = @ - Len(fields)]
      put == [back EXCEPT !.chain[1] = Put(@, @.pos, fields)]
  IN  IF deflated.failed THEN deflated ELSE PackHeadersShared(put, f)

PackHeaders(bufs, f) ==
  PackBlock(bufs, f, IF PriorityLen(f) > 0 THEN PackPrioritySpec(f.spec) ELSE <<>>)
PackPushPromise(bufs, f) == PackBlock(bufs, f, <<f.promised>>)

\* A frame of one buffer: its head before the payload, which follows at last.
PackShort(bufs, f, length, payload) ==
  [bufs EXCEPT !.chain[1] = PutLast(PackFrameHd(@, Hd(length, f.type, f.flags, f.id)), payload)]

PackPriority(bufs, f) == PackShort(bufs, f, 2, PackPrioritySpec(f.spec))
PackRstStream(bufs, f) == PackShort(bufs, f, 1, <<f.code>>)
PackSettings(bufs, f) ==
  IF BufAvail(bufs.chain[1]) < 2 * Len(f.iv) THEN [bufs EXCEPT !.failed = TRUE]
  ELSE PackShort(bufs, f, 2 * Len(f.iv),
                 FoldLeft(LAMBDA s, e : s \o <<e.settings_id, e.value>>, <<>>, f.iv))
PackPing(bufs, f) == PackShort(bufs, f, Len(f.opaque), f.opaque)
PackGoaway(bufs, f) ==
  BufsAdd(PackShort(bufs, f, 2 + Len(f.opaque), <<f.last, f.code>>), f.opaque)
PackWindowUpdate(bufs, f) == PackShort(bufs, f, 1, <<f.increment>>)

\* nghttp2_session_pack_data, with what the application read.
PackData(bufs, f) ==
  [bufs EXCEPT !.chain[1] = PackFrameHd(PutLast(@, f.data), Hd(Len(f.data), "data", f.flags, f.id))]

\* frame_set_pad: the head moves to the left, the length of the padding takes its last
\* cell, and the padding follows.
SetPad(buf, pad) ==
  LET hd == SubSeq(buf.mem, buf.pos, buf.pos + HeadLength - 1)
      moved == Put(buf, buf.pos - 1,
                   Hd(hd[1] + pad, hd[2], hd[3] \cup {"PADDED"}, hd[4]) \o <<pad - 1>>)
  IN  PutLast([moved EXCEPT !.pos = @ - 1], [k \in 1 .. pad - 1 |-> 0])

AddPad(bufs, pad) == IF pad = 0 THEN bufs ELSE [bufs EXCEPT !.chain[1] = SetPad(@, pad)]

-----------------------------------------------------------------------------
(* nghttp2_session.c                                                       *)

Least(a, b) == IF a < b THEN a ELSE b

\* session_call_select_padding: the paddings that the application may choose.
SelectPadding(length, maxPayload) ==
  IF length >= maxPayload THEN {0} ELSE 0 .. Least(length + MaxPad, maxPayload) - length

\* session_headers_add_pad and the end of nghttp2_session_pack_data.
Paddings(bufs, f) ==
  CASE f.type \in {"headers", "push"} ->
         LET length == BufsLen(bufs) - HeadLength * bufs.cur
         IN  SelectPadding(length, Least(MaxPayload, length + MaxPad))
    [] f.type = "data" -> SelectPadding(Len(f.data), Least(f.datamax, Len(f.data) + MaxPad))
    [] OTHER -> {0}

\* session_estimate_headers_payload: nghttp2_hd_deflate_bound is above the block's length
\* by at least the room of a promised stream.
Estimated(f) == Len(f.block) + 1 + IF f.type = "headers" THEN 2 ELSE 0

Packed(bufs, f) ==
  CASE f.type = "headers" -> PackHeaders(bufs, f)
    [] f.type = "push" -> PackPushPromise(bufs, f)
    [] f.type = "data" -> PackData(bufs, f)
    [] f.type = "priority" -> PackPriority(bufs, f)
    [] f.type = "rst" -> PackRstStream(bufs, f)
    [] f.type = "settings" -> PackSettings(bufs, f)
    [] f.type = "ping" -> PackPing(bufs, f)
    [] f.type = "goaway" -> PackGoaway(bufs, f)
    [] OTHER -> PackWindowUpdate(bufs, f)

TooLong(f) == f.type \in {"headers", "push"} /\ Estimated(f) > MaxBlock

Init ==
  /\ framebufs = BufsInit /\ item = NoItem /\ asked = NoItem
  /\ pieces = <<>> /\ taken = 0

\* The next item: it is packed and padded, or refused.
PrepFrame(f) ==
  /\ item = NoItem /\ taken < MaxFrames
  /\ taken' = taken + 1 /\ pieces' = <<>>
  /\ IF TooLong(f) THEN asked' = NoItem /\ UNCHANGED <<framebufs, item>>
     ELSE LET packed == Packed(framebufs, f)
          IN  \E pad \in Paddings(packed, f) :
                /\ asked' = [frame |-> f, pad |-> pad]
                /\ IF packed.failed THEN framebufs' = BufsReset(packed) /\ item' = NoItem
                   ELSE framebufs' = [AddPad(packed, pad) EXCEPT !.cur = 1] /\ item' = f

\* nghttp2_session_send: the callback takes n cells of the buffer; 0 for WOULDBLOCK.
Send ==
  /\ item # NoItem /\ BufLen(Cur(framebufs)) > 0
  /\ \E n \in 0 .. BufLen(Cur(framebufs)) :
       LET buf == Cur(framebufs)
       IN  /\ pieces' = pieces \o SubSeq(buf.mem, buf.pos, buf.pos + n - 1)
           /\ framebufs' = [framebufs EXCEPT !.chain[framebufs.cur].pos = @ + n]
  /\ UNCHANGED <<item, asked, taken>>

\* session_after_frame_sent2
FrameSent ==
  /\ item # NoItem /\ BufLen(Cur(framebufs)) = 0
  /\ IF item.type \in {"headers", "push"} /\ NextPresent(framebufs)
     THEN framebufs' = [framebufs EXCEPT !.cur = @ + 1] /\ UNCHANGED item
     ELSE framebufs' = BufsReset(framebufs) /\ item' = NoItem
  /\ UNCHANGED <<asked, pieces, taken>>

Next == (\E f \in Outgoing : PrepFrame(f)) \/ Send \/ FrameSent

Spec == Init /\ [][Next]_outboundVars

-----------------------------------------------------------------------------
(* nghttp2_frame.c: unpacking                                              *)

UnpackFrameHd(cells) ==
  [length |-> cells[1], type |-> cells[2], flags |-> cells[3], id |-> cells[4] % Top]

\* The frames in cells, with their payloads.
RECURSIVE Frames(_)
Frames(cells) ==
  IF cells = <<>> THEN <<>>
  ELSE LET hd == UnpackFrameHd(cells)
           end == HeadLength + hd.length
       IN  <<[hd |-> hd, payload |-> SubSeq(cells, HeadLength + 1, end)]>>
             \o Frames(SubSeq(cells, end + 1, Len(cells)))

UnpackPrioritySpec(payload) ==
  [stream |-> payload[1] % Top, exclusive |-> payload[1] >= Top, weight |-> payload[2] + 1]

UnpackSettings(payload) ==
  [k \in 1 .. Len(payload) \div 2 |->
     [settings_id |-> payload[2 * k - 1], value |-> payload[2 * k]]]

\* nghttp2_frame_trail_padlen: the payload without its padding.
Unpadded(frame) ==
  IF "PADDED" \in frame.hd.flags
  THEN SubSeq(frame.payload, 2, frame.hd.length - frame.payload[1]) ELSE frame.payload

\* What the members of a frame are, given what is left of its payload, after the blocks
\* of its continuations.
Members(hd, payload) ==
  CASE hd.type = "headers" /\ "PRIORITY" \in hd.flags ->
         <<UnpackPrioritySpec(payload), SubSeq(payload, 3, Len(payload))>>
    [] hd.type = "push" -> <<payload[1] % Top, Tail(payload)>>
    [] hd.type = "priority" -> <<UnpackPrioritySpec(payload)>>
    [] hd.type = "settings" -> UnpackSettings(payload)
    [] hd.type = "goaway" -> <<payload[1] % Top, payload[2], SubSeq(payload, 3, Len(payload))>>
    [] hd.type = "window" -> <<payload[1] % Top>>
    [] OTHER -> payload

\* The same of a frame that is sent.
MembersOf(f) ==
  CASE f.type = "headers" -> IF PriorityLen(f) > 0 THEN <<f.spec, f.block>> ELSE f.block
    [] f.type = "push" -> <<f.promised, f.block>>
    [] f.type = "priority" -> <<f.spec>>
    [] f.type = "settings" -> f.iv
    [] f.type = "goaway" -> <<f.last, f.code, f.opaque>>
    [] f.type = "window" -> <<f.increment>>
    [] f.type = "data" -> f.data
    [] f.type = "ping" -> f.opaque
    [] OTHER -> <<f.code>>

JoinedPayload(frames) == FoldLeft(LAMBDA s, frame : s \o frame.payload, Unpadded(frames[1]), Tail(frames))

(***************************************************************************)
(* What the other side reads from the bytes that the callback took is the  *)
(* frame that was sent, whatever the frame before has left in the buffers  *)
(* and in whatever portions they were taken: its members, its flags, and   *)
(* as many cells of padding as chosen, in the first frame.  Only the last  *)
(* frame of a block ends it, no payload is longer than allowed, and every  *)
(* block within the limit finds room in the buffers (nghttp2_frame_pack_*, *)
(* frame_set_pad, nghttp2_bufs_addb, session_after_frame_sent2).           *)
(***************************************************************************)
ReadAsPacked ==
  item = NoItem /\ asked # NoItem =>
    LET f == asked.frame
        frames == Frames(pieces)
        flags == IF asked.pad > 0 THEN f.flags \cup {"PADDED"} ELSE f.flags
        joined == UNION {frames[k].hd.flags : k \in DOMAIN frames}
    IN  /\ frames # <<>>
        /\ frames[1].hd.type = f.type /\ joined = flags
        /\ Members([frames[1].hd EXCEPT !.flags = flags], JoinedPayload(frames)) = MembersOf(f)
        /\ frames[1].hd.length = Len(Unpadded(frames[1])) + asked.pad
        /\ \A k \in DOMAIN frames :
             /\ frames[k].hd.id = f.id
             /\ Len(frames[k].payload) = frames[k].hd.length /\ frames[k].hd.length <= MaxPayload
             /\ k > 1 => frames[k].hd.type = "continuation"
             /\ f.type \in {"headers", "push"} =>
                  ("END_HEADERS" \in frames[k].hd.flags <=> k = Len(frames))
=============================================================================
