------------------------------- MODULE Hpack -------------------------------
(***************************************************************************)
(* Header compression of the vendored nghttp2 (nghttp2_hd.c): a deflater   *)
(* and, behind a connection that keeps the order, an inflater, each with a *)
(* table of the latest headers.  The inflater's side may change the size   *)
(* of its table by SETTINGS while blocks are under way: the deflater takes *)
(* the new size at once and tells it at the start of its next block, the   *)
(* inflater when the acknowledgement arrives.  The hub is the deflater for *)
(* its requests and the inflater for the robot's answers.                  *)
(*                                                                         *)
(* A block is a sequence of elements: an integer with its first byte, or a *)
(* string.  Names are compared as a whole, where the code takes tokens for *)
(* the known ones; entries that push others out are freed in the code.     *)
(* Bounds: MaxBlocks blocks, MaxSettings changes.                          *)
(***************************************************************************)
EXTENDS Integers, Sequences

CONSTANTS
  StaticTable,       \* static_table: a sequence of headers [name, value]
  HeaderNames, HeaderValues,
  NeverNames,        \* "authorization" and short cookies
  PlainNames,        \* ":path" and the others not worth a place
  Bucket,            \* the bucket of hd_map for each name
  EntryRoom,         \* entry_room, by name
  DefaultSize,       \* NGHTTP2_HD_DEFAULT_MAX_BUFFER_SIZE, the largest of the deflater too
  NoSize,            \* UINT32_MAX
  HeaderLists,       \* the headers of a block
  SizeLists,         \* the values for SETTINGS_HEADER_TABLE_SIZE in one frame
  MaxBlocks, MaxSettings

Headers == [name : HeaderNames, value : HeaderValues]

HpackAssumption ==
  /\ StaticTable \in Seq(Headers)
  /\ EntryRoom \in [HeaderNames -> Nat \ {0}] /\ DOMAIN Bucket = HeaderNames
  /\ NoSize \in Nat /\ DefaultSize \in 1 .. NoSize - 1
  /\ HeaderLists \subseteq Seq(Headers) /\ SizeLists \subseteq Seq(0 .. NoSize - 1) \ {<<>>}
  /\ {MaxBlocks, MaxSettings} \subseteq Nat

VARIABLES
  deflater, inflater,
  wire,        \* elements and acknowledgements on their way to the inflater
  settings,    \* sent by the inflater's side and not received yet
  unacked,     \* and those whose acknowledgement has not come
  expected,    \* history: headers that were compressed and have not come out
  wrong,       \* history: something else came out
  blocks, changes

hpackVars == <<deflater, inflater, wire, settings, unacked, expected, wrong, blocks, changes>>

\* table: the newest entry first; size: hd_table_bufsize; max: hd_table_bufsize_max
Context == [table |-> <<>>, size |-> 0, max |-> DefaultSize, nextSeq |-> 0]

Init ==
  /\ deflater = [ctx |-> Context, map |-> [b \in {Bucket[n] : n \in HeaderNames} |-> {}],
                 min |-> NoSize, notify |-> FALSE]
  /\ inflater = [ctx |-> Context, state |-> "start", min |-> NoSize, max |-> DefaultSize,
                 name |-> <<>>, indexing |-> FALSE, bad |-> FALSE]
  /\ wire = <<>> /\ settings = <<>> /\ unacked = <<>>
  /\ expected = <<>> /\ wrong = FALSE /\ blocks = 0 /\ changes = 0

-----------------------------------------------------------------------------
(* The tables *)

Lesser(a, b) == IF a < b THEN a ELSE b

RoomOf(e) == EntryRoom[e.name]

\* hd_context_shrink_table_size, and the loop that makes room for a new entry: the
\* oldest entries are dropped until the others fit, or none is left.
Shrunk(c, limit) ==
  LET n == Len(c.table)
      size[k \in 0 .. n] == IF k = 0 THEN c.size ELSE size[k - 1] - RoomOf(c.table[n + 1 - k])
      enough == {k \in 0 .. n : k = n \/ size[k] <= limit}
      dropped == CHOOSE k \in enough : \A j \in enough : k <= j IN
  [c EXCEPT !.table = SubSeq(@, 1, n - dropped), !.size = size[dropped]]

\* add_hd_table_incremental: an entry that is too large empties the table.
Added(c, h) ==
  LET room == EntryRoom[h.name]
      s == IF room > c.max THEN Shrunk(c, 0) ELSE Shrunk(c, c.max - room) IN
  IF room > c.max THEN s
  ELSE [s EXCEPT !.table = <<[header |-> h, name |-> h.name, seq |-> c.nextSeq]>> \o @,
                 !.size = @ + room, !.nextSeq = @ + 1]

\* hd_map_insert and hd_map_remove: each bucket has the entries of the table that are its own.
Mapped(map, c) ==
  [b \in DOMAIN map |-> {c.table[k] : k \in {j \in DOMAIN c.table : Bucket[c.table[j].name] = b}}]

WithTable(d, c) == [d EXCEPT !.ctx = c, !.map = Mapped(d.map, c)]

\* nghttp2_hd_table_get
Get(c, i) == IF i <= Len(StaticTable) THEN StaticTable[i]
             ELSE c.table[i - Len(StaticTable)].header

First(places) == CHOOSE i \in places : \A j \in places : i <= j

\* search_hd_table: in a bucket the newest is first, and 0 is no index.
Searched(d, h, nameOnly) ==
  LET chain == d.map[Bucket[h.name]]
      named == {e \in chain : e.name = h.name}
      exact == {e \in named : ~nameOnly /\ e.header = h}
      token == {i \in DOMAIN StaticTable : StaticTable[i].name = h.name}
      same == {i \in token : ~nameOnly /\ StaticTable[i] = h}
      newest(set) == CHOOSE e \in set : \A f \in set : f.seq <= e.seq
      place(e) == d.ctx.nextSeq - 1 - e.seq + Len(StaticTable) + 1 IN
  CASE exact # {}                -> [index |-> place(newest(exact)), match |-> TRUE]
    [] exact = {} /\ same # {}   -> [index |-> First(same), match |-> TRUE]
    [] exact = {} /\ same = {} /\ token # {} -> [index |-> First(token), match |-> FALSE]
    [] OTHER -> [index |-> IF named = {} THEN 0 ELSE place(newest(named)), match |-> FALSE]

-----------------------------------------------------------------------------
(* The deflater *)

\* Where the name is sensitive, and hd_deflate_decide_indexing
Mode(d, h) ==
  IF h.name \in NeverNames THEN "never"
  ELSE IF h.name \in PlainNames \/ EntryRoom[h.name] > (d.ctx.max * 3) \div 4 THEN "without"
  ELSE "with"

\* deflate_nv, for one more header of a block; the index is that of before the
\* header takes its place.
Deflated(acc, h) ==
  LET mode == Mode(acc.d, h)
      r == Searched(acc.d, h, mode = "never")
      d == IF mode = "with" /\ ~r.match THEN WithTable(acc.d, Added(acc.d.ctx, h)) ELSE acc.d
      name == IF r.index = 0
              THEN <<[kind |-> "newname", indexing |-> mode = "with"], [kind |-> "name", name |-> h.name]>>
              ELSE <<[kind |-> "indname", index |-> r.index, indexing |-> mode = "with"]>> IN
  [d |-> d,
   out |-> acc.out \o IF r.match THEN <<[kind |-> "indexed", index |-> r.index]>>
                      ELSE Append(name, [kind |-> "value", value |-> h.value])]

Update(n) == [kind |-> "size", size |-> n]

\* Mutant of Updates: only the size that holds in the end is told.
UpdatesLast(d) == IF d.notify THEN <<Update(d.ctx.max)>> ELSE <<>>

\* The least size since the last block comes first.
Updates(d) ==
  IF ~d.notify THEN <<>>
  ELSE (IF d.ctx.max > d.min THEN <<Update(d.min)>> ELSE <<>>) \o <<Update(d.ctx.max)>>

\* nghttp2_hd_deflate_hd_bufs: one header after the other.
Compressed(start, list) ==
  LET done[k \in 0 .. Len(list)] == IF k = 0 THEN start ELSE Deflated(done[k - 1], list[k]) IN
  done[Len(list)]

\* A block, with END_HEADERS
Deflate(list) ==
  /\ blocks < MaxBlocks /\ blocks' = blocks + 1
  /\ LET d == [deflater EXCEPT !.notify = FALSE, !.min = NoSize]
         r == Compressed([d |-> d, out |-> Updates(deflater)], list) IN
     /\ deflater' = r.d
     /\ wire' = wire \o Append(r.out, [kind |-> "end"])
  /\ expected' = expected \o list
  /\ UNCHANGED <<inflater, settings, unacked, wrong, changes>>

\* nghttp2_hd_deflate_change_table_size
Resized(d, n) ==
  LET size == Lesser(n, DefaultSize) IN
  [WithTable(d, Shrunk([d.ctx EXCEPT !.max = size], size)) EXCEPT
     !.min = Lesser(@, size), !.notify = TRUE]

ResizedAll(start, list) ==
  LET done[k \in 0 .. Len(list)] == IF k = 0 THEN start ELSE Resized(done[k - 1], list[k]) IN
  done[Len(list)]

\* The peer's SETTINGS arrive: each value in its order, then the acknowledgement.
ReceiveSettings ==
  /\ settings # <<>>
  /\ deflater' = ResizedAll(deflater, Head(settings))
  /\ settings' = Tail(settings)
  /\ wire' = Append(wire, [kind |-> "ack"])
  /\ UNCHANGED <<inflater, unacked, expected, wrong, blocks, changes>>

-----------------------------------------------------------------------------
(* The inflater *)

SendSettings(list) ==
  /\ changes < MaxSettings /\ changes' = changes + 1
  /\ settings' = Append(settings, list)
  /\ unacked' = Append(unacked, list)
  /\ UNCHANGED <<deflater, inflater, wire, expected, wrong, blocks>>

\* nghttp2_hd_inflate_change_table_size; a size that is not less is left to the
\* deflater to tell.
ChangedTableSize(f, n) ==
  IF f.ctx.max > n
  THEN [f EXCEPT !.max = n, !.state = "expect", !.min = n,
                 !.ctx = Shrunk([f.ctx EXCEPT !.max = n], n)]
  ELSE [f EXCEPT !.max = n]

\* session_update_local_settings: the least of the sizes, and the last.
Acknowledged(f, list) ==
  LET last == list[Len(list)]
      least == CHOOSE n \in {list[k] : k \in DOMAIN list} : \A k \in DOMAIN list : n <= list[k] IN
  ChangedTableSize(IF least < last THEN ChangedTableSize(f, least) ELSE f, last)

ReceiveAck ==
  /\ wire # <<>> /\ Head(wire).kind = "ack"
  /\ inflater' = Acknowledged(inflater, Head(unacked))
  /\ unacked' = Tail(unacked)
  /\ wire' = Tail(wire)
  /\ UNCHANGED <<deflater, settings, expected, wrong, blocks, changes>>

Bad(f) == [f EXCEPT !.bad = TRUE]

\* NGHTTP2_HD_STATE_READ_TABLE_SIZE, which may only come before the first header.
ReadTableSize(f, n) ==
  IF f.state = "opcode" \/ n > Lesser(f.min, f.max) THEN Bad(f)
  ELSE [f EXCEPT !.state = "start", !.min = NoSize,
                 !.ctx = Shrunk([f.ctx EXCEPT !.max = n], n)]

ValidIndex(f, i) == i \in 1 .. Len(StaticTable) + Len(f.ctx.table)

\* The opcode, the integer with it, and NGHTTP2_HD_STATE_READ_INDEX
ReadOpcode(f, e) ==
  IF f.state = "expect" THEN Bad(f)
  ELSE IF e.kind = "newname" THEN [f EXCEPT !.state = "name", !.indexing = e.indexing]
  ELSE IF ~ValidIndex(f, e.index) THEN Bad(f)
  ELSE IF e.kind = "indexed" THEN [f EXCEPT !.state = "opcode"]
  ELSE [f EXCEPT !.state = "value", !.indexing = e.indexing, !.name = Get(f.ctx, e.index).name]

\* hd_inflate_commit_indname and _newname
Commit(f, h) ==
  [f EXCEPT !.state = "opcode", !.name = <<>>,
            !.ctx = IF f.indexing THEN Added(f.ctx, h) ELSE @]

\* nghttp2_hd_inflate_hd_nv: one element, and the headers it makes complete.
Read(f, e) ==
  CASE e.kind = "size"  -> ReadTableSize(f, e.size)
    [] e.kind = "name"  -> [f EXCEPT !.state = "value", !.name = e.name]
    [] e.kind = "value" -> Commit(f, [name |-> f.name, value |-> e.value])
    [] OTHER            -> ReadOpcode(f, e)

Emitted(f, e) ==
  CASE e.kind = "value" -> <<[name |-> f.name, value |-> e.value]>>
    [] e.kind = "indexed" /\ f.state # "expect" /\ ValidIndex(f, e.index) -> <<Get(f.ctx, e.index)>>
    [] OTHER -> <<>>

Inflate ==
  /\ wire # <<>> /\ Head(wire).kind \notin {"ack", "end"} /\ ~inflater.bad
  /\ LET emitted == Emitted(inflater, Head(wire)) IN
     IF emitted = <<>> THEN UNCHANGED <<expected, wrong>>
     ELSE /\ wrong' = (wrong \/ expected = <<>> \/ Head(expected) # Head(emitted))
          /\ expected' = IF expected = <<>> THEN <<>> ELSE Tail(expected)
  /\ inflater' = Read(inflater, Head(wire))
  /\ wire' = Tail(wire)
  /\ UNCHANGED <<deflater, settings, unacked, blocks, changes>>

\* The end of the block: in_final, and nghttp2_hd_inflate_end_headers
Ended(f) == IF f.state \in {"start", "opcode"} THEN [f EXCEPT !.state = "start"] ELSE Bad(f)

EndHeaders ==
  /\ wire # <<>> /\ Head(wire).kind = "end" /\ ~inflater.bad
  /\ inflater' = Ended(inflater)
  /\ wire' = Tail(wire)
  /\ UNCHANGED <<deflater, settings, unacked, expected, wrong, blocks, changes>>

Next ==
  \/ \E list \in HeaderLists : Deflate(list)
  \/ \E list \in SizeLists : SendSettings(list)
  \/ ReceiveSettings \/ ReceiveAck \/ Inflate \/ EndHeaders

Spec == Init /\ [][Next]_hpackVars

-----------------------------------------------------------------------------
(* Properties *)

\* However the size of the table changes while blocks are under way, the headers
\* come out as they went in, no block is refused, and when everything has arrived
\* the tables agree.
HeadersArrive ==
  /\ ~wrong /\ ~inflater.bad
  /\ wire = <<>> => /\ expected = <<>>
                    /\ deflater.ctx.table = inflater.ctx.table
                    /\ deflater.ctx.size = inflater.ctx.size
=============================================================================
