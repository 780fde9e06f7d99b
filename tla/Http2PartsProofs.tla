-------------------------- MODULE Http2PartsProofs --------------------------
(***************************************************************************)
(* The parts of nghttp2 beside its session, for any headers, fields, sizes *)
(* and windows: headers come out of their compression as they went in, a   *)
(* window that the application changes is counted alike by the session and *)
(* by its peer, a stream is judged by the rules of HTTP as its message     *)
(* comes, the streams that wait stand in the order of their turn, and the  *)
(* map in which a session keeps its streams finds each of them.            *)
(***************************************************************************)
EXTENDS Http2Parts, Sums, FiniteSetTheorems, SequenceTheorems, WellFoundedInduction, TLAPS

-----------------------------------------------------------------------------
(* Sums                                                                    *)

(***************************************************************************)
(* g counts the numbers of q together.                                     *)
(***************************************************************************)
Adds(q, g) == g[0] = 0 /\ \A k \in 1 .. Len(q) : g[k] = g[k - 1] + q[k]

LEMMA LeastExists ==
  ASSUME NEW T, T \subseteq Nat, T # {}
  PROVE  \E x \in T : \A y \in T : x <= y
<1>1. PICK x \in T : \A y \in T : ~ (<<y, x>> \in OpToRel(<, Nat))
  BY WFMin, NatLessThanWellFounded, Zenon
<1>2. \A y \in T : ~ (y < x)
  BY <1>1 DEF OpToRel
<1> QED  BY <1>2

LEMMA AddsExists ==
  ASSUME NEW q \in Seq(Int)
  PROVE  \E g \in [0 .. Len(q) -> Int] : Adds(q, g)
<1> DEFINE Part(n, g) == g[0] = 0 /\ \A k \in 1 .. n : g[k] = g[k - 1] + q[k]
           Made(n) == \E g \in [0 .. n -> Int] : Part(n, g)
           T == {n \in 0 .. Len(q) : ~ Made(n)}
<1>1. Len(q) \in Nat /\ \A k \in 1 .. Len(q) : q[k] \in Int
  OBVIOUS
<1>2. SUFFICES ASSUME T # {} PROVE FALSE
  <2>1. Made(Len(q)) => \E g \in [0 .. Len(q) -> Int] : Adds(q, g)
    BY DEF Adds
  <2> HIDE DEF Made
  <2> QED  BY <1>1, <2>1
<1>3. PICK n \in T : \A m \in T : n <= m
  <2>1. T \subseteq Nat
    OBVIOUS
  <2> QED  BY <1>2, <2>1, LeastExists
<1>4. n # 0
  <2>1. [k \in 0 .. 0 |-> 0] \in [0 .. 0 -> Int] /\ Part(0, [k \in 0 .. 0 |-> 0])
    OBVIOUS
  <2> QED  BY <2>1
<1>5. n \in 1 .. Len(q) /\ n - 1 \in 0 .. Len(q)
  BY <1>1, <1>4
<1>6. PICK g \in [0 .. n - 1 -> Int] : Part(n - 1, g)
  <2> HIDE DEF Made
  <2>1. Made(n - 1)
    <3>1. n - 1 \notin T
      BY <1>3, <1>5
    <3> QED  BY <1>5, <3>1
  <2> USE DEF Made
  <2> QED  BY <2>1
<1> DEFINE h == [k \in 0 .. n |-> IF k = n THEN g[n - 1] + q[n] ELSE g[k]]
<1>7. h \in [0 .. n -> Int]
  <2>1. n - 1 \in 0 .. n - 1 /\ g[n - 1] + q[n] \in Int
    BY <1>1, <1>5
  <2>2. \A k \in 0 .. n : k # n => k \in 0 .. n - 1
    BY <1>5
  <2> QED  BY <2>1, <2>2
<1>8. Part(n, h)
  BY <1>5, <1>6
<1> QED  BY <1>7, <1>8

LEMMA TotalIs ==
  ASSUME NEW q \in Seq(Int), NEW g \in [0 .. Len(q) -> Int], Adds(q, g)
  PROVE  Total(q) = g[Len(q)]
<1> DEFINE Longer(f) == [k \in 0 .. Len(q) |-> IF k = 0 THEN 0 ELSE f[k - 1] + q[k]]
           t == CHOOSE f : f = Longer(f)
           T == {k \in 0 .. Len(q) : t[k] # g[k]}
<1>1. Len(q) \in Nat
  OBVIOUS
<1>2. g = Longer(g)
  <2>1. \A k \in 0 .. Len(q) : g[k] = IF k = 0 THEN 0 ELSE g[k - 1] + q[k]
    BY <1>1 DEF Adds
  <2> QED  BY <2>1
<1>3. t = Longer(t)
  BY <1>2
<1>4. Total(q) = t[Len(q)]
  BY DEF Total
<1> HIDE DEF t
<1>5. T = {}
  <2>1. SUFFICES ASSUME T # {} PROVE FALSE
    OBVIOUS
  <2>2. PICK n \in T : \A m \in T : n <= m
    <3>1. T \subseteq Nat
      OBVIOUS
    <3> QED  BY <2>1, <3>1, LeastExists
  <2>3. t[0] = 0
    BY <1>1, <1>3
  <2>4. n \in 1 .. Len(q) /\ n - 1 \in 0 .. Len(q)
    BY <1>1, <2>2, <2>3 DEF Adds
  <2>5. t[n - 1] = g[n - 1]
    BY <2>2, <2>4
  <2>6. t[n] = t[n - 1] + q[n]
    BY <1>3, <2>4
  <2> QED  BY <2>2, <2>4, <2>5, <2>6 DEF Adds
<1> QED  BY <1>1, <1>4, <1>5

LEMMA TotalInt == ASSUME NEW q \in Seq(Int) PROVE Total(q) \in Int
<1>1. PICK g \in [0 .. Len(q) -> Int] : Adds(q, g)
  BY AddsExists
<1>2. Len(q) \in 0 .. Len(q)
  OBVIOUS
<1> QED  BY <1>1, <1>2, TotalIs

LEMMA TotalEmpty == ASSUME NEW q, q = <<>> PROVE Total(q) = 0
<1> DEFINE g == [k \in 0 .. 0 |-> 0]
<1>1. q \in Seq(Int) /\ Len(q) = 0
  OBVIOUS
<1>2. g \in [0 .. Len(q) -> Int] /\ Adds(q, g) /\ g[Len(q)] = 0
  BY <1>1 DEF Adds
<1> HIDE DEF g
<1> QED  BY <1>1, <1>2, TotalIs

LEMMA TotalAppend ==
  ASSUME NEW q \in Seq(Int), NEW x \in Int
  PROVE  Total(Append(q, x)) = Total(q) + x
<1>1. PICK g \in [0 .. Len(q) -> Int] : Adds(q, g)
  BY AddsExists
<1> DEFINE n == Len(q)
           h == [k \in 0 .. n + 1 |-> IF k = n + 1 THEN g[n] + x ELSE g[k]]
<1>2. /\ n \in Nat /\ Append(q, x) \in Seq(Int) /\ Len(Append(q, x)) = n + 1
      /\ \A k \in 1 .. n : Append(q, x)[k] = q[k]
      /\ Append(q, x)[n + 1] = x
  OBVIOUS
<1>3. g[n] \in Int /\ \A k \in 0 .. n + 1 : k # n + 1 => k \in 0 .. n /\ g[k] \in Int
  BY <1>2
<1>4. h \in [0 .. n + 1 -> Int] /\ h[n + 1] = g[n] + x
  BY <1>2, <1>3
<1>5. Adds(Append(q, x), h)
  <2>1. h[0] = 0
    BY <1>1, <1>2 DEF Adds
  <2>2. ASSUME NEW k \in 1 .. n + 1 PROVE h[k] = h[k - 1] + Append(q, x)[k]
    <3>1. k - 1 \in 0 .. n /\ h[k - 1] = g[k - 1]
      BY <1>2
    <3>2. CASE k = n + 1
      BY <1>2, <1>4, <3>1, <3>2
    <3>3. CASE k # n + 1
      <4>1. k \in 1 .. n /\ h[k] = g[k]
        BY <1>2, <3>3
      <4> QED  BY <1>1, <1>2, <3>1, <4>1 DEF Adds
    <3> QED  BY <3>2, <3>3
  <2> QED  BY <1>2, <2>1, <2>2 DEF Adds
<1> HIDE DEF h
<1>6. Total(Append(q, x)) = h[n + 1]
  BY <1>2, <1>4, <1>5, TotalIs
<1>7. Total(q) = g[n]
  BY <1>1, TotalIs
<1> QED  BY <1>4, <1>6, <1>7

LEMMA TotalTail ==
  ASSUME NEW q \in Seq(Int), q # <<>>
  PROVE  Total(q) = Head(q) + Total(Tail(q))
<1>1. PICK g \in [0 .. Len(q) -> Int] : Adds(q, g)
  BY AddsExists
<1> DEFINE n == Len(q)
           h == [k \in 0 .. n - 1 |-> g[k + 1] - Head(q)]
<1>2. /\ n \in Nat \ {0} /\ Tail(q) \in Seq(Int) /\ Len(Tail(q)) = n - 1
      /\ \A k \in 1 .. n - 1 : Tail(q)[k] = q[k + 1]
      /\ Head(q) = q[1] /\ Head(q) \in Int
  OBVIOUS
<1>3. \A k \in 0 .. n - 1 : k + 1 \in 0 .. n /\ g[k + 1] \in Int
  BY <1>2
<1>4. h \in [0 .. n - 1 -> Int] /\ h[n - 1] = g[n] - Head(q)
  BY <1>2, <1>3
<1>5. Adds(Tail(q), h)
  <2>1. h[0] = 0
    <3>1. g[1] = 0 + q[1]
      <4>1. 1 \in 1 .. n /\ 1 - 1 = 0
        BY <1>2
      <4> QED  BY <1>1, <4>1 DEF Adds
    <3> QED  BY <1>2, <3>1
  <2>2. ASSUME NEW k \in 1 .. n - 1 PROVE h[k] = h[k - 1] + Tail(q)[k]
    <3>1. /\ k + 1 \in 1 .. n /\ k - 1 \in 0 .. n - 1 /\ k \in 0 .. n - 1
          /\ (k + 1) - 1 = k /\ (k - 1) + 1 = k /\ g[k] \in Int
      BY <1>2
    <3>2. g[k + 1] = g[k] + q[k + 1]
      BY <1>1, <3>1 DEF Adds
    <3> QED  BY <1>2, <1>3, <3>1, <3>2
  <2> QED  BY <1>2, <2>1, <2>2 DEF Adds
<1> HIDE DEF h
<1>6. Total(Tail(q)) = h[n - 1]
  BY <1>2, <1>4, <1>5, TotalIs
<1>7. Total(q) = g[n] /\ g[n] \in Int
  BY <1>1, <1>2, TotalIs
<1> QED  BY <1>2, <1>4, <1>6, <1>7

LEMMA TotalNat == ASSUME NEW q \in Seq(Nat) PROVE q \in Seq(Int) /\ Total(q) \in Nat
<1>1. q \in Seq(Int)
  OBVIOUS
<1>2. PICK g \in [0 .. Len(q) -> Int] : Adds(q, g)
  BY <1>1, AddsExists
<1> DEFINE T == {k \in 0 .. Len(q) : g[k] < 0}
<1>3. Len(q) \in Nat /\ \A k \in 1 .. Len(q) : q[k] \in Nat
  OBVIOUS
<1>4. T = {}
  <2>1. SUFFICES ASSUME T # {} PROVE FALSE
    OBVIOUS
  <2>2. PICK n \in T : \A k \in T : n <= k
    <3>1. T \subseteq Nat
      OBVIOUS
    <3> QED  BY <2>1, <3>1, LeastExists
  <2>3. n \in 1 .. Len(q) /\ n - 1 \in 0 .. Len(q)
    BY <1>2, <1>3, <2>2 DEF Adds
  <2>4. g[n - 1] \in Int /\ g[n - 1] >= 0
    BY <1>3, <2>2, <2>3
  <2>5. g[n] = g[n - 1] + q[n] /\ q[n] \in Nat /\ g[n] < 0
    BY <1>2, <1>3, <2>2, <2>3 DEF Adds
  <2> QED  BY <2>4, <2>5
<1> QED  BY <1>1, <1>2, <1>3, <1>4, TotalIs

-----------------------------------------------------------------------------
(* Headers: what the tables hold                                           *)

TableEntries == [header : H!Headers, name : HeaderNames, seq : Nat]
Contexts == [table : Seq(TableEntries), size : Nat, max : Nat, nextSeq : Nat]

\* The rooms of the first entries of a table, as many as are counted
Rooms(table, g) ==
  /\ g \in [0 .. Len(table) -> Nat] /\ g[0] = 0
  /\ \A k \in 1 .. Len(table) : g[k] = g[k - 1] + H!RoomOf(table[k])

Numbered(c) ==
  \A k \in DOMAIN c.table : /\ c.table[k].name = c.table[k].header.name
                            /\ c.table[k].seq = c.nextSeq - k

SizeCounted(c) == \E g : Rooms(c.table, g) /\ c.size = g[Len(c.table)]

TableOk(c) == c \in Contexts /\ Numbered(c) /\ SizeCounted(c)

Buckets == {Bucket[n] : n \in HeaderNames}
OfBucket(c, b) == {c.table[k] : k \in {j \in DOMAIN c.table : Bucket[c.table[j].name] = b}}

Deflaters == [ctx : Contexts, map : [Buckets -> SUBSET TableEntries], min : Nat, notify : BOOLEAN]

DeflaterOk(d) ==
  /\ d \in Deflaters /\ TableOk(d.ctx) /\ d.map = [b \in Buckets |-> OfBucket(d.ctx, b)]

Inflaters ==
  [ctx : Contexts, state : {"start", "opcode", "expect", "name", "value"}, min : Nat, max : Nat,
   name : HeaderNames \cup {<<>>}, indexing : BOOLEAN, bad : BOOLEAN]

\* Between two blocks, when all that was sent has been read
Agree(f, d) ==
  /\ DeflaterOk(d) /\ f \in Inflaters /\ ~f.bad /\ f.state \in {"start", "expect"}
  /\ f.ctx = [d.ctx EXCEPT !.max = f.ctx.max]
  /\ d.ctx.size <= f.ctx.max /\ f.ctx.max <= DefaultSize
  /\ d.ctx.size <= d.min /\ d.ctx.max = H!Lesser(f.max, DefaultSize)
  /\ d.notify => d.min <= d.ctx.max /\ d.min <= f.min
  /\ ~d.notify => /\ d.min = NoSize /\ f.min = NoSize
                  /\ f.state = "start" /\ f.ctx.max = d.ctx.max

\* Within a block, between two headers
AgreeWithin(f, d) ==
  /\ DeflaterOk(d) /\ f \in Inflaters /\ ~f.bad /\ f.state \in {"start", "opcode"}
  /\ f.ctx = d.ctx /\ d.ctx.size <= d.ctx.max /\ d.ctx.max = H!Lesser(f.max, DefaultSize)
  /\ d.min = NoSize /\ ~d.notify /\ f.min = NoSize

Elements ==
  [kind : {"ack", "end"}] \cup [kind : {"size"}, size : Nat]
  \cup [kind : {"newname"}, indexing : BOOLEAN] \cup [kind : {"name"}, name : HeaderNames]
  \cup [kind : {"value"}, value : HeaderValues] \cup [kind : {"indexed"}, index : Nat]
  \cup [kind : {"indname"}, index : Nat, indexing : BOOLEAN]

\* The inflater, with the SETTINGS whose acknowledgement is still to come and the headers
\* that are still to come out
Receiver(f, u, x) == [f |-> f, u |-> u, x |-> x]

Waits(r) ==
  r = Receiver(r.f, r.u, r.x) /\ r.u \in Seq(SizeLists) /\ r.x \in Seq(H!Headers)

\* From r to s by one element, which is taken and makes the right header come out, if any
Reads(r, e, s) ==
  CASE e.kind = "ack" -> /\ r.u # <<>> /\ s.f = H!Acknowledged(r.f, Head(r.u)) /\ ~s.f.bad
                         /\ s.u = Tail(r.u) /\ s.x = r.x
    [] e.kind = "end" -> s.f = H!Ended(r.f) /\ ~s.f.bad /\ s.u = r.u /\ s.x = r.x
    [] OTHER -> /\ s.f = H!Read(r.f, e) /\ ~s.f.bad /\ s.u = r.u
                /\ IF H!Emitted(r.f, e) = <<>> THEN s.x = r.x
                   ELSE r.x # <<>> /\ Head(r.x) = Head(H!Emitted(r.f, e)) /\ s.x = Tail(r.x)

Path(r, q, s) ==
  \E g : /\ g[0] = r /\ g[Len(q)] = s /\ \A k \in 0 .. Len(q) : Waits(g[k])
         /\ \A k \in 1 .. Len(q) : Reads(g[k - 1], q[k], g[k])

Now == Receiver(inflater, unacked, expected)

\* What is on its way takes the inflater, element by element, to where it agrees with the
\* deflater.
HpackInv ==
  /\ wire \in Seq(Elements) /\ ~wrong /\ ~inflater.bad
  /\ settings \in Seq(SizeLists)
  /\ \E r : Path(Now, wire, r) /\ r.u = settings /\ r.x = <<>> /\ Agree(r.f, deflater)


-----------------------------------------------------------------------------
LEMMA SizesAre ==
  /\ DefaultSize \in Nat /\ NoSize \in Nat /\ DefaultSize < NoSize
  /\ \A name \in HeaderNames : EntryRoom[name] \in Nat
  /\ StaticTable \in Seq(H!Headers)
  /\ HeaderLists \subseteq Seq(H!Headers)
  /\ SizeLists \subseteq Seq(Nat) \ {<<>>}
  /\ \A list \in SizeLists : \A k \in DOMAIN list : list[k] < NoSize
<1>1. DefaultSize \in Nat /\ NoSize \in Nat /\ DefaultSize < NoSize
  BY HpackAssumed DEF H!HpackAssumption
<1>2. \A name \in HeaderNames : EntryRoom[name] \in Nat
  BY HpackAssumed DEF H!HpackAssumption
<1>3. StaticTable \in Seq(H!Headers) /\ HeaderLists \subseteq Seq(H!Headers)
  BY HpackAssumed DEF H!HpackAssumption
<1>4. ASSUME NEW list \in SizeLists
      PROVE  list \in Seq(Nat) \ {<<>>} /\ \A k \in DOMAIN list : list[k] < NoSize
  <2>1. list \in Seq(0 .. NoSize - 1) \ {<<>>}
    BY HpackAssumed DEF H!HpackAssumption
  <2>2. ASSUME NEW k \in DOMAIN list PROVE list[k] \in 0 .. NoSize - 1
    <3>1. list \in Seq(0 .. NoSize - 1) /\ k \in 1 .. Len(list)
      BY <2>1
    <3> HIDE <2>1
    <3> QED  BY <3>1, ElementOfSeq
  <2>3. list \in Seq(Nat)
    BY <1>1, <2>1, <2>2
  <2> QED  BY <1>1, <2>1, <2>2, <2>3
<1> QED  BY <1>1, <1>2, <1>3, <1>4

\* The newest j entries of c
Newest(c, j, g) == [c EXCEPT !.table = SubSeq(@, 1, j), !.size = g[j]]

\* j is the greatest number of entries that fit.
Fitting(n, g, limit, j) == j \in 0 .. n /\ g[j] <= limit /\ \A i \in j + 1 .. n : g[i] > limit

LEMMA ShrunkIs ==
  ASSUME NEW c, c \in Contexts, NEW g, Rooms(c.table, g), c.size = g[Len(c.table)],
         NEW limit \in Nat
  PROVE  \E j : Fitting(Len(c.table), g, limit, j) /\ H!Shrunk(c, limit) = Newest(c, j, g)
<1> DEFINE n == Len(c.table)
           Longer(f) ==
             [k \in 0 .. n |-> IF k = 0 THEN c.size ELSE f[k - 1] - H!RoomOf(c.table[n + 1 - k])]
           t == CHOOSE f : f = Longer(f)
           back == [k \in 0 .. n |-> g[n - k]]
<1>1. n \in Nat /\ g \in [0 .. n -> Nat] /\ g[0] = 0
      /\ \A k \in 1 .. n : H!RoomOf(c.table[k]) \in Nat /\ g[k] = g[k - 1] + H!RoomOf(c.table[k])
  <2>1. c.table \in Seq(TableEntries) /\ n \in Nat
    BY DEF Contexts
  <2>2. ASSUME NEW k \in 1 .. n PROVE H!RoomOf(c.table[k]) \in Nat
    <3>1. c.table[k] \in TableEntries
      BY <2>1
    <3> QED  BY <3>1, SizesAre DEF TableEntries, H!RoomOf
  <2> QED  BY <2>1, <2>2 DEF Rooms
<1>2. back = Longer(back)
  <2>1. ASSUME NEW k \in 0 .. n
        PROVE  back[k] = IF k = 0 THEN c.size ELSE back[k - 1] - H!RoomOf(c.table[n + 1 - k])
    <3>1. CASE k = 0
      BY <1>1, <3>1
    <3>2. CASE k # 0
      <4> DEFINE i == n + 1 - k
      <4>1. i \in 1 .. n /\ i - 1 = n - k /\ n - (k - 1) = i /\ k - 1 \in 0 .. n
        BY <1>1, <3>2
      <4>2. g[i] = g[i - 1] + H!RoomOf(c.table[i]) /\ g[i - 1] \in Nat /\ H!RoomOf(c.table[i]) \in Nat
        <5> HIDE DEF i, n
        <5>1. i - 1 \in 0 .. n
          BY <1>1, <4>1
        <5> QED  BY <1>1, <4>1, <5>1
      <4>3. back[k] = g[n - k] /\ back[k - 1] = g[n - (k - 1)]
        <5> HIDE DEF n
        <5> QED  BY <4>1
      <4> HIDE DEF back, n
      <4> QED  BY <3>2, <4>1, <4>2, <4>3
    <3> QED  BY <3>1, <3>2
  <2> QED  BY <2>1
<1>3. t = Longer(t)
  BY <1>2
<1> DEFINE enough == {k \in 0 .. n : k = n \/ t[k] <= limit}
           dropped == CHOOSE k \in enough : \A j \in enough : k <= j
<1>4. H!Shrunk(c, limit) = [c EXCEPT !.table = SubSeq(@, 1, n - dropped), !.size = t[dropped]]
  BY DEF H!Shrunk
<1> HIDE DEF t
<1>5. \A k \in 0 .. n : t[k] = g[n - k]
  <2> DEFINE T == {k \in 0 .. n : t[k] # g[n - k]}
  <2>1. SUFFICES ASSUME T # {} PROVE FALSE
    OBVIOUS
  <2>2. PICK k \in T : \A m \in T : k <= m
    <3>1. T \subseteq Nat
      BY <1>1
    <3> QED  BY <2>1, <3>1, LeastExists
  <2>3. t[k] = IF k = 0 THEN c.size ELSE t[k - 1] - H!RoomOf(c.table[n + 1 - k])
    BY <1>3, <2>2
  <2>4. back[k] = IF k = 0 THEN c.size ELSE back[k - 1] - H!RoomOf(c.table[n + 1 - k])
    BY <1>2, <2>2
  <2>5. k # 0 => k - 1 \in 0 .. n /\ k - 1 \notin T
    <3>1. k \in 0 .. n
      BY <2>2
    <3> HIDE DEF n, T
    <3>2. k # 0 => k - 1 \in 0 .. n /\ ~ (k <= k - 1)
      BY <1>1, <3>1
    <3> QED  BY <2>2, <3>2
  <2>6. k # 0 => t[k - 1] = g[n - (k - 1)]
    BY <2>5
  <2>7. k \in 0 .. n /\ t[k] # back[k] /\ (k # 0 => t[k - 1] = back[k - 1])
    BY <2>2, <2>5, <2>6
  <2> HIDE DEF back, n
  <2> QED  BY <2>3, <2>4, <2>7
<1>6. dropped \in enough /\ \A j \in enough : dropped <= j
  <2>1. n \in enough /\ enough \subseteq Nat
    BY <1>1
  <2> HIDE DEF enough
  <2>2. \E k \in enough : \A j \in enough : k <= j
    BY <2>1, LeastExists
  <2> QED  BY <2>2
<1> HIDE DEF dropped
<1> DEFINE j == n - dropped
<1>7. j \in 0 .. n /\ t[dropped] = g[j] /\ g[j] <= limit
  <2>1. dropped \in 0 .. n /\ (dropped = n \/ t[dropped] <= limit)
    BY <1>6
  <2> QED  BY <1>1, <1>5, <2>1
<1>8. ASSUME NEW i \in j + 1 .. n PROVE g[i] > limit
  <2>1. dropped \in 0 .. n
    BY <1>6
  <2>2. n - i \in 0 .. n /\ ~ (dropped <= n - i) /\ n - (n - i) = i /\ i \in 0 .. n
    BY <1>1, <1>7, <2>1
  <2>3. ~ (t[n - i] <= limit)
    BY <1>6, <2>2
  <2>4. t[n - i] = g[i] /\ g[i] \in Nat
    BY <1>1, <1>5, <2>2
  <2> QED  BY <2>3, <2>4
<1>9. H!Shrunk(c, limit) = Newest(c, j, g)
  BY <1>4, <1>7 DEF Newest
<1>10. Fitting(n, g, limit, j)
  BY <1>7, <1>8 DEF Fitting
<1> QED  BY <1>9, <1>10

LEMMA NewestOk ==
  ASSUME NEW c, c \in Contexts, Numbered(c), NEW g, Rooms(c.table, g), NEW j \in 0 .. Len(c.table)
  PROVE  LET d == Newest(c, j, g) IN
         /\ TableOk(d) /\ Len(d.table) = j /\ d.size = g[j] /\ d.max = c.max /\ d.nextSeq = c.nextSeq
         /\ \A i \in 1 .. j : d.table[i] = c.table[i]
         /\ Rooms(d.table, [k \in 0 .. j |-> g[k]])
<1> DEFINE d == Newest(c, j, g)
           q == SubSeq(c.table, 1, j)
           h == [k \in 0 .. j |-> g[k]]
           n == Len(c.table)
<1>1. c.table \in Seq(TableEntries) /\ n \in Nat /\ j \in 0 .. n /\ g \in [0 .. n -> Nat]
  BY DEF Contexts, Rooms
<1>2. q \in Seq(TableEntries) /\ Len(q) = j /\ \A i \in 1 .. j : q[i] = c.table[i]
  BY <1>1, SubSeqProperties
<1>3. d = [table |-> q, size |-> g[j], max |-> c.max, nextSeq |-> c.nextSeq]
  <2>1. d = [c EXCEPT !.table = q, !.size = g[j]]
    BY DEF Newest
  <2> HIDE DEF d, q
  <2> QED  BY <2>1 DEF Contexts
<1> HIDE DEF d, q, n
<1>4. d \in Contexts
  BY <1>1, <1>2, <1>3 DEF Contexts
<1>5. /\ d.table = q /\ d.size = g[j] /\ d.max = c.max /\ d.nextSeq = c.nextSeq
  BY <1>3
<1>6. Numbered(d)
  BY <1>1, <1>2, <1>5 DEF Numbered, n
<1>7. Rooms(q, h)
  <2>1. h \in [0 .. Len(q) -> Nat] /\ h[0] = 0
    BY <1>1, <1>2 DEF Rooms
  <2>2. ASSUME NEW k \in 1 .. Len(q) PROVE h[k] = h[k - 1] + H!RoomOf(q[k])
    <3>1. k \in 1 .. n /\ k \in 0 .. j /\ k - 1 \in 0 .. j /\ q[k] = c.table[k]
      BY <1>1, <1>2
    <3>2. g[k] = g[k - 1] + H!RoomOf(c.table[k])
      BY <3>1 DEF Rooms, n
    <3> QED  BY <3>1, <3>2
  <2> QED  BY <2>1, <2>2 DEF Rooms
<1>8. SizeCounted(d)
  <2>1. h[Len(q)] = g[j]
    BY <1>1, <1>2
  <2> HIDE DEF h
  <2> QED  BY <1>5, <1>7, <2>1 DEF SizeCounted
<1>9. TableOk(d) /\ Len(d.table) = j /\ (\A i \in 1 .. j : d.table[i] = c.table[i]) /\ Rooms(d.table, h)
  BY <1>2, <1>4, <1>5, <1>6, <1>7, <1>8 DEF TableOk
<1> QED  BY <1>5, <1>9 DEF d

LEMMA FittingOnce ==
  ASSUME NEW n \in Nat, NEW g \in [0 .. n -> Nat], NEW limit \in Nat,
         NEW i, Fitting(n, g, limit, i), NEW j, Fitting(n, g, limit, j)
  PROVE  i = j
<1>1. i \in 0 .. n /\ j \in 0 .. n /\ g[i] \in Nat /\ g[j] \in Nat /\ g[i] <= limit /\ g[j] <= limit
  BY DEF Fitting
<1>2. CASE i < j
  <2>1. j \in i + 1 .. n
    BY <1>1, <1>2
  <2>2. g[j] > limit
    BY <2>1 DEF Fitting
  <2> QED  BY <1>1, <2>2
<1>3. CASE j < i
  <2>1. i \in j + 1 .. n
    BY <1>1, <1>3
  <2>2. g[i] > limit
    BY <2>1 DEF Fitting
  <2> QED  BY <1>1, <2>2
<1> QED  BY <1>1, <1>2, <1>3

LEMMA ShrunkOk ==
  ASSUME NEW c, TableOk(c), NEW limit \in Nat
  PROVE  LET d == H!Shrunk(c, limit) IN
         TableOk(d) /\ d.size <= limit /\ d.max = c.max /\ d.nextSeq = c.nextSeq
<1>1. PICK g : Rooms(c.table, g) /\ c.size = g[Len(c.table)]
  BY DEF TableOk, SizeCounted
<1>2. c \in Contexts /\ Numbered(c)
  BY DEF TableOk
<1>3. PICK j : Fitting(Len(c.table), g, limit, j) /\ H!Shrunk(c, limit) = Newest(c, j, g)
  BY <1>1, <1>2, ShrunkIs
<1>4. j \in 0 .. Len(c.table) /\ g[j] <= limit
  BY <1>3 DEF Fitting
<1> DEFINE kept == Newest(c, j, g)
<1>5. /\ TableOk(kept) /\ kept.size = g[j] /\ kept.max = c.max /\ kept.nextSeq = c.nextSeq
      /\ Rooms(kept.table, [k \in 0 .. j |-> g[k]])
  BY <1>1, <1>2, <1>4, NewestOk
<1> HIDE DEF kept
<1> QED  BY <1>3, <1>4, <1>5 DEF kept

(***************************************************************************)
(* A table that fits loses nothing (hd_context_shrink_table_size).         *)
(***************************************************************************)
LEMMA ShrunkFits ==
  ASSUME NEW c, TableOk(c), NEW limit \in Nat, c.size <= limit
  PROVE  H!Shrunk(c, limit) = c
<1>1. PICK g : Rooms(c.table, g) /\ c.size = g[Len(c.table)]
  BY DEF TableOk, SizeCounted
<1> DEFINE n == Len(c.table)
<1>2. c \in Contexts /\ n \in Nat /\ g \in [0 .. n -> Nat] /\ c.table \in Seq(TableEntries)
  BY <1>1 DEF TableOk, Contexts, Rooms
<1>3. PICK j : Fitting(n, g, limit, j) /\ H!Shrunk(c, limit) = Newest(c, j, g)
  BY <1>1, <1>2, ShrunkIs
<1>4. Fitting(n, g, limit, n)
  <2> HIDE DEF n
  <2> QED  BY <1>1, <1>2 DEF Fitting, n
<1>5. j = n
  <2> HIDE DEF n
  <2> QED  BY <1>2, <1>3, <1>4, FittingOnce
<1>6. SubSeq(c.table, 1, n) = c.table
  BY <1>2
<1> QED  BY <1>1, <1>2, <1>3, <1>5, <1>6 DEF Newest, Contexts

(***************************************************************************)
(* Shrinking in two steps is the same as at once.                          *)
(***************************************************************************)
LEMMA ShrunkTwice ==
  ASSUME NEW c, TableOk(c), NEW a \in Nat, NEW b \in Nat, b <= a
  PROVE  H!Shrunk(H!Shrunk(c, a), b) = H!Shrunk(c, b)
<1>1. PICK g : Rooms(c.table, g) /\ c.size = g[Len(c.table)]
  BY DEF TableOk, SizeCounted
<1> DEFINE n == Len(c.table)
<1>2. /\ c \in Contexts /\ Numbered(c) /\ n \in Nat /\ g \in [0 .. n -> Nat]
      /\ c.table \in Seq(TableEntries)
  BY <1>1 DEF TableOk, Contexts, Rooms
<1>3. PICK i : Fitting(n, g, a, i) /\ H!Shrunk(c, a) = Newest(c, i, g)
  BY <1>1, <1>2, ShrunkIs
<1>4. PICK j : Fitting(n, g, b, j) /\ H!Shrunk(c, b) = Newest(c, j, g)
  BY <1>1, <1>2, ShrunkIs
<1> DEFINE d == Newest(c, i, g)
           h == [k \in 0 .. i |-> g[k]]
<1>5. i \in 0 .. n /\ TableOk(d) /\ Len(d.table) = i /\ d.size = g[i] /\ Rooms(d.table, h)
  <2>1. i \in 0 .. n
    BY <1>3 DEF Fitting
  <2> QED  BY <1>1, <1>2, <2>1, NewestOk
<1>6. h[i] = g[i] /\ h \in [0 .. i -> Nat] /\ i \in Nat
  <2> HIDE DEF n, d
  <2> QED  BY <1>2, <1>5
<1>7. PICK m : Fitting(i, h, b, m) /\ H!Shrunk(d, b) = Newest(d, m, h)
  <2>1. d \in Contexts /\ d.size = h[Len(d.table)]
    BY <1>5, <1>6 DEF TableOk
  <2> HIDE DEF d, h
  <2> QED  BY <1>5, <2>1, ShrunkIs
<1>8. j <= i
  <2> HIDE DEF n
  <2>1. j \in 0 .. n /\ g[j] \in Nat /\ g[j] <= b
    BY <1>2, <1>4 DEF Fitting
  <2>2. ASSUME j > i PROVE FALSE
    <3>1. j \in i + 1 .. n
      BY <1>2, <1>5, <2>1, <2>2
    <3>2. g[j] > a
      BY <1>3, <3>1 DEF Fitting
    <3> QED  BY <2>1, <3>2
  <2> QED  BY <1>5, <2>1, <2>2
<1>9. Fitting(i, h, b, j)
  <2> HIDE DEF n
  <2>1. j \in 0 .. i
    BY <1>2, <1>4, <1>5, <1>8 DEF Fitting
  <2>2. ASSUME NEW k \in j + 1 .. i PROVE h[k] > b
    <3>1. k \in j + 1 .. n /\ k \in 0 .. i
      BY <1>2, <1>5, <2>1
    <3> QED  BY <1>4, <3>1 DEF Fitting
  <2> QED  BY <1>4, <2>1, <2>2 DEF Fitting
<1>10. m = j /\ h[j] = g[j] /\ j \in 0 .. i
  <2>1. m = j
    <3> HIDE DEF h
    <3> QED  BY <1>6, <1>7, <1>9, FittingOnce
  <2> QED  BY <1>9, <2>1 DEF Fitting
<1>11. SubSeq(SubSeq(c.table, 1, i), 1, j) = SubSeq(c.table, 1, j)
  <2>1. i \in 0 .. Len(c.table) /\ j \in 0 .. i /\ c.table \in Seq(TableEntries)
    BY <1>2, <1>5, <1>10
  <2> QED  BY <2>1
<1>12. Newest(d, j, h) = Newest(c, j, g)
  BY <1>2, <1>10, <1>11 DEF Newest, Contexts
<1> QED  BY <1>3, <1>4, <1>7, <1>10, <1>12

(***************************************************************************)
(* What the size may be at most is told apart from the table itself.       *)
(***************************************************************************)
LEMMA ShrunkMax ==
  ASSUME NEW c, TableOk(c), NEW max \in Nat, NEW limit \in Nat
  PROVE  LET d == [c EXCEPT !.max = max] IN
         TableOk(d) /\ H!Shrunk(d, limit) = [H!Shrunk(c, limit) EXCEPT !.max = max]
<1> DEFINE d == [c EXCEPT !.max = max]
           n == Len(c.table)
<1>1. PICK g : Rooms(c.table, g) /\ c.size = g[n]
  BY DEF TableOk, SizeCounted
<1>2. c \in Contexts /\ d \in Contexts /\ d.table = c.table /\ d.size = c.size /\ d.nextSeq = c.nextSeq
  BY DEF TableOk, Contexts
<1>3. n \in Nat /\ g \in [0 .. n -> Nat]
  BY <1>1, <1>2 DEF Rooms, Contexts
<1>4. TableOk(d)
  <2> HIDE DEF d
  <2> QED  BY <1>2 DEF TableOk, Numbered, SizeCounted
<1>5. PICK j : Fitting(n, g, limit, j) /\ H!Shrunk(c, limit) = Newest(c, j, g)
  BY <1>1, <1>2, ShrunkIs
<1>6. PICK i : Fitting(n, g, limit, i) /\ H!Shrunk(d, limit) = Newest(d, i, g)
  <2> HIDE DEF d
  <2> QED  BY <1>1, <1>2, ShrunkIs
<1>7. i = j
  <2> HIDE DEF n
  <2> QED  BY <1>3, <1>5, <1>6, FittingOnce
<1>8. Newest(d, j, g) = [Newest(c, j, g) EXCEPT !.max = max]
  BY <1>2 DEF Newest, Contexts
<1> QED  BY <1>4, <1>5, <1>6, <1>7, <1>8

LEMMA AddedOk ==
  ASSUME NEW c, TableOk(c), NEW h \in H!Headers
  PROVE  LET d == H!Added(c, h) IN TableOk(d) /\ d.size <= d.max /\ d.max = c.max
<1> DEFINE room == EntryRoom[h.name]
           added == H!Added(c, h)
<1>1. /\ room \in Nat /\ c.max \in Nat /\ c.nextSeq \in Nat
      /\ h.name \in HeaderNames
  BY SizesAre DEF TableOk, Contexts, H!Headers
<1>2. CASE room > c.max
  <2>1. added = H!Shrunk(c, 0)
    BY <1>2 DEF H!Added
  <2> HIDE DEF added
  <2>2. TableOk(added) /\ added.size <= 0 /\ added.max = c.max
    BY <2>1, ShrunkOk
  <2>3. added.size \in Nat
    BY <2>2 DEF TableOk, Contexts
  <2> USE DEF added
  <2> QED  BY <1>1, <2>2, <2>3
<1>3. CASE ~ (room > c.max)
  <2> DEFINE s == H!Shrunk(c, c.max - room)
             e == [header |-> h, name |-> h.name, seq |-> c.nextSeq]
             q == <<e>> \o s.table
  <2>1. added = [s EXCEPT !.table = q, !.size = @ + room, !.nextSeq = @ + 1]
    BY <1>3 DEF H!Added
  <2>2. c.max - room \in Nat
    BY <1>1, <1>3
  <2>3. TableOk(s) /\ s.size <= c.max - room /\ s.max = c.max /\ s.nextSeq = c.nextSeq
    BY <2>2, ShrunkOk
  <2> HIDE DEF s, added
  <2>4. s \in Contexts /\ s.table \in Seq(TableEntries) /\ s.size \in Nat /\ Numbered(s)
    BY <2>3 DEF TableOk, Contexts
  <2> DEFINE n == Len(s.table)
  <2>5. e \in TableEntries
    BY <1>1 DEF TableEntries
  <2>6. /\ q \in Seq(TableEntries) /\ Len(q) = n + 1 /\ q[1] = e /\ n \in Nat
        /\ \A k \in 1 .. n : q[k + 1] = s.table[k]
    <3> HIDE DEF e
    <3> QED  BY <2>4, <2>5
  <2> HIDE DEF q
  <2>7. added = [table |-> q, size |-> s.size + room, max |-> c.max, nextSeq |-> c.nextSeq + 1]
    BY <2>1, <2>3, <2>4 DEF Contexts
  <2>8. /\ added.table = q /\ added.size = s.size + room /\ added.max = c.max
        /\ added.nextSeq = c.nextSeq + 1
    BY <2>7
  <2>9. added \in Contexts
    BY <1>1, <2>4, <2>6, <2>7 DEF Contexts
  <2>10. Numbered(added)
    <3>1. ASSUME NEW k \in 1 .. n + 1
          PROVE  q[k].name = q[k].header.name /\ q[k].seq = (c.nextSeq + 1) - k
      <4>1. CASE k = 1
        BY <1>1, <2>6, <4>1
      <4>2. CASE k # 1
        <5> DEFINE i == k - 1
        <5>1. i \in 1 .. n /\ k = i + 1
          BY <2>6, <4>2
        <5> HIDE DEF i, n, e
        <5>2. q[k] = s.table[i] /\ i \in DOMAIN s.table
          BY <2>4, <2>6, <5>1 DEF n
        <5>3. s.table[i].name = s.table[i].header.name /\ s.table[i].seq = c.nextSeq - i
          BY <2>3, <2>4, <5>2 DEF Numbered
        <5>4. c.nextSeq - i = (c.nextSeq + 1) - k
          <6>1. i \in Nat /\ k = i + 1 /\ c.nextSeq \in Nat
            BY <1>1, <2>6, <5>1
          <6> QED  BY <6>1
        <5> QED  BY <5>2, <5>3, <5>4
      <4> QED  BY <4>1, <4>2
    <3>2. DOMAIN q = 1 .. n + 1
      BY <2>6
    <3>3. \A k \in DOMAIN added.table :
            added.table[k].name = added.table[k].header.name /\ added.table[k].seq = added.nextSeq - k
      BY <2>8, <3>1, <3>2
    <3> QED  BY <3>3 DEF Numbered
  <2>11. SizeCounted(added)
    <3>1. PICK g : Rooms(s.table, g) /\ s.size = g[n]
      BY <2>3 DEF TableOk, SizeCounted
    <3> DEFINE g2 == [k \in 0 .. n + 1 |-> IF k = 0 THEN 0 ELSE g[k - 1] + room]
    <3>2. g \in [0 .. n -> Nat] /\ g[0] = 0
      BY <3>1 DEF Rooms
    <3>3. g2 \in [0 .. n + 1 -> Nat] /\ g2[0] = 0 /\ g2[n + 1] = s.size + room
      <4> HIDE DEF room, n
      <4>1. ASSUME NEW k \in 0 .. n + 1 PROVE (IF k = 0 THEN 0 ELSE g[k - 1] + room) \in Nat
        <5>1. k # 0 => k - 1 \in 0 .. n
          BY <2>6
        <5> QED  BY <1>1, <3>2, <5>1
      <4>2. g2 \in [0 .. n + 1 -> Nat]
        BY <4>1
      <4> QED  BY <2>6, <3>1, <4>2
    <3>4. ASSUME NEW k \in 1 .. n + 1 PROVE g2[k] = g2[k - 1] + H!RoomOf(q[k])
      <4>1. CASE k = 1
        <5>1. H!RoomOf(q[1]) = room
          BY <2>6 DEF H!RoomOf
        <5>2. g2[1] = g[0] + room /\ g2[0] = 0
          BY <2>6
        <5> HIDE DEF room, g2
        <5> QED  BY <1>1, <3>2, <4>1, <5>1, <5>2
      <4>2. CASE k # 1
        <5> DEFINE i == k - 1
        <5> HIDE DEF room, n, e
        <5>1. i \in 1 .. n /\ k = i + 1 /\ i - 1 \in 0 .. n /\ i \in 0 .. n
          BY <2>6, <4>2
        <5>2. g2[k] = g[i] + room /\ g2[i] = g[i - 1] + room
          BY <2>6, <5>1
        <5> HIDE DEF i, g2
        <5>3. q[k] = s.table[i]
          BY <2>6, <5>1
        <5>4. g[i] = g[i - 1] + H!RoomOf(s.table[i])
          BY <3>1, <5>1 DEF Rooms, n
        <5>5. /\ g[i - 1] \in Nat /\ g[i] \in Nat
          BY <3>2, <5>1
        <5>6. H!RoomOf(s.table[i]) \in Nat
          <6>1. s.table[i] \in TableEntries
            BY <2>4, <5>1 DEF n
          <6> QED  BY <6>1, SizesAre DEF H!RoomOf, TableEntries
        <5> QED  BY <1>1, <2>6, <5>1, <5>2, <5>3, <5>4, <5>5, <5>6
      <4> QED  BY <4>1, <4>2
    <3> HIDE DEF g2, room, n
    <3>5. Rooms(q, g2)
      BY <2>6, <3>3, <3>4 DEF Rooms
    <3> QED  BY <2>6, <2>8, <3>3, <3>5 DEF SizeCounted
  <2>12. added.size <= added.max
    <3> HIDE DEF room
    <3> QED  BY <1>1, <2>3, <2>4, <2>8
  <2> QED  BY <2>8, <2>9, <2>10, <2>11, <2>12 DEF TableOk, added
<1> QED  BY <1>2, <1>3

LEMMA WithTableOk ==
  ASSUME NEW d \in Deflaters, NEW c, TableOk(c)
  PROVE  /\ DeflaterOk(H!WithTable(d, c)) /\ H!WithTable(d, c).ctx = c
         /\ H!WithTable(d, c).min = d.min /\ H!WithTable(d, c).notify = d.notify
<1> DEFINE x == H!WithTable(d, c)
<1>1. c \in Contexts /\ d.min \in Nat /\ d.notify \in BOOLEAN /\ DOMAIN d.map = Buckets
  BY DEF TableOk, Deflaters
<1>2. H!Mapped(d.map, c) = [b \in Buckets |-> OfBucket(c, b)]
  BY <1>1 DEF H!Mapped, OfBucket
<1>3. [b \in Buckets |-> OfBucket(c, b)] \in [Buckets -> SUBSET TableEntries]
  <2>1. c.table \in Seq(TableEntries)
    BY <1>1 DEF Contexts
  <2>2. ASSUME NEW b \in Buckets PROVE OfBucket(c, b) \subseteq TableEntries
    BY <2>1 DEF OfBucket
  <2> QED  BY <2>2
<1> DEFINE m == [b \in Buckets |-> OfBucket(c, b)]
<1>4. x = [ctx |-> c, map |-> m, min |-> d.min, notify |-> d.notify]
  <2>1. x = [d EXCEPT !.ctx = c, !.map = m]
    BY <1>2 DEF H!WithTable
  <2> HIDE DEF x, m
  <2> QED  BY <2>1 DEF Deflaters
<1>5. x \in Deflaters
  <2> HIDE DEF x, m
  <2> QED  BY <1>1, <1>3, <1>4 DEF Deflaters, m
<1>6. x.ctx = c /\ x.map = m /\ x.min = d.min /\ x.notify = d.notify
  <2> HIDE DEF x, m
  <2> QED  BY <1>4
<1> HIDE DEF x
<1> QED  BY <1>5, <1>6 DEF DeflaterOk, x

-----------------------------------------------------------------------------
(* Headers: what is found in the tables                                    *)

Known(c, i) == i \in 1 .. Len(StaticTable) + Len(c.table)

Place(c, e) == c.nextSeq - 1 - e.seq + Len(StaticTable) + 1

LEMMA PlaceIs ==
  ASSUME NEW c, TableOk(c), NEW k \in DOMAIN c.table
  PROVE  LET e == c.table[k] IN
         /\ e \in TableEntries /\ Known(c, Place(c, e)) /\ H!Get(c, Place(c, e)) = e.header
         /\ e.header.name = e.name
<1> DEFINE e == c.table[k]
           n == Len(c.table)
           s == Len(StaticTable)
<1>1. c.table \in Seq(TableEntries) /\ c.nextSeq \in Nat /\ n \in Nat /\ s \in Nat
  BY SizesAre DEF TableOk, Contexts
<1>2. k \in 1 .. n /\ e \in TableEntries
  BY <1>1
<1>3. e.name = e.header.name /\ e.seq = c.nextSeq - k
  BY DEF TableOk, Numbered
<1>4. Place(c, e) = s + k
  <2> HIDE DEF e, n, s
  <2>1. k \in Nat
    BY <1>1, <1>2
  <2>2. Place(c, e) = c.nextSeq - 1 - (c.nextSeq - k) + s + 1
    BY <1>3 DEF Place, s
  <2> QED  BY <1>1, <2>1, <2>2
<1> HIDE DEF e
<1>5. Known(c, s + k) /\ ~ (s + k <= s) /\ (s + k) - s = k
  <2> HIDE DEF n, s
  <2>1. s + k \in 1 .. s + n /\ ~ (s + k <= s) /\ (s + k) - s = k
    BY <1>1, <1>2
  <2>2. Known(c, s + k) <=> s + k \in 1 .. s + n
    BY DEF Known, n, s
  <2> QED  BY <2>1, <2>2
<1>6. H!Get(c, s + k) = e.header
  BY <1>5 DEF H!Get, e
<1> QED  BY <1>2, <1>3, <1>4, <1>5, <1>6 DEF e

LEMMA NewestIs ==
  ASSUME NEW c, TableOk(c), NEW set, set # {},
         \A e \in set : \E k \in DOMAIN c.table : e = c.table[k]
  PROVE  (CHOOSE e \in set : \A f \in set : f.seq <= e.seq) \in set
<1> DEFINE T == {k \in DOMAIN c.table : c.table[k] \in set}
<1>1. c.table \in Seq(TableEntries) /\ c.nextSeq \in Nat
  BY DEF TableOk, Contexts
<1>2. T \subseteq Nat /\ T # {}
  BY <1>1
<1>3. PICK i \in T : \A k \in T : i <= k
  <2> HIDE DEF T
  <2> QED  BY <1>2, LeastExists
<1>4. \A k \in T : c.table[k].seq = c.nextSeq - k /\ k \in Nat
  BY <1>2 DEF TableOk, Numbered
<1>5. ASSUME NEW f \in set PROVE f.seq <= c.table[i].seq
  <2>1. PICK k \in T : f = c.table[k]
    OBVIOUS
  <2> HIDE DEF T
  <2>2. i <= k /\ i \in Nat /\ k \in Nat /\ f.seq = c.nextSeq - k /\ c.table[i].seq = c.nextSeq - i
    BY <1>3, <1>4, <2>1
  <2> QED  BY <1>1, <2>2
<1>6. c.table[i] \in set
  OBVIOUS
<1>7. \E e \in set : \A f \in set : f.seq <= e.seq
  BY <1>5, <1>6
<1> QED  BY <1>7

LEMMA FirstIs ==
  ASSUME NEW places, places \subseteq Nat, places # {}
  PROVE  H!First(places) \in places
<1>1. \E i \in places : \A j \in places : i <= j
  BY LeastExists
<1> QED  BY <1>1 DEF H!First

(***************************************************************************)
(* What is found stands for the header, or for its name                    *)
(* (search_hd_table).                                                      *)
(***************************************************************************)
LEMMA SearchedIs ==
  ASSUME NEW d, DeflaterOk(d), NEW h \in H!Headers, NEW mode
  PROVE  LET r == H!Searched(d, h, mode = "never") IN
         /\ r.match \in BOOLEAN
         /\ r.match => Known(d.ctx, r.index) /\ H!Get(d.ctx, r.index) = h
         /\ r.index # 0 => Known(d.ctx, r.index) /\ H!Get(d.ctx, r.index).name = h.name
         /\ r.match => r.index # 0
<1> DEFINE c == d.ctx
           chain == d.map[Bucket[h.name]]
           named == {e \in chain : e.name = h.name}
           exact == {e \in named : ~ (mode = "never") /\ e.header = h}
           token == {i \in DOMAIN StaticTable : StaticTable[i].name = h.name}
           same == {i \in token : ~ (mode = "never") /\ StaticTable[i] = h}
           newest(set) == CHOOSE e \in set : \A f \in set : f.seq <= e.seq
           r == H!Searched(d, h, mode = "never")
<1>1. TableOk(c) /\ h.name \in HeaderNames /\ StaticTable \in Seq(H!Headers)
  BY SizesAre DEF DeflaterOk, H!Headers
<1>2. \A e \in chain : \E k \in DOMAIN c.table : e = c.table[k]
  <2>1. chain = OfBucket(c, Bucket[h.name])
    BY <1>1 DEF DeflaterOk, Buckets
  <2> QED  BY <2>1 DEF OfBucket
<1>3. ASSUME NEW i \in token
      PROVE  Known(c, i) /\ H!Get(c, i).name = h.name /\ i # 0 /\ H!Get(c, i) = StaticTable[i]
  <2>1. i \in 1 .. Len(StaticTable) /\ Len(StaticTable) \in Nat
    BY <1>1
  <2>2. Len(c.table) \in Nat
    BY <1>1 DEF TableOk, Contexts
  <2>3. H!Get(c, i) = StaticTable[i]
    BY <2>1 DEF H!Get
  <2>4. StaticTable[i].name = h.name
    OBVIOUS
  <2> QED  BY <2>1, <2>2, <2>3, <2>4 DEF Known
<1>4. token \subseteq Nat
  BY <1>1
<1>5. ASSUME NEW e \in named
      PROVE  /\ Known(c, Place(c, e)) /\ H!Get(c, Place(c, e)).name = h.name /\ Place(c, e) # 0
             /\ H!Get(c, Place(c, e)) = e.header
  <2>1. e \in chain /\ e.name = h.name
    OBVIOUS
  <2> HIDE DEF chain, named, c
  <2>2. PICK k \in DOMAIN c.table : e = c.table[k]
    BY <1>2, <2>1
  <2>3. Known(c, Place(c, e)) /\ H!Get(c, Place(c, e)) = e.header /\ e.header.name = e.name
    BY <1>1, <2>2, PlaceIs
  <2>4. Place(c, e) # 0
    BY <2>3 DEF Known
  <2> QED  BY <2>1, <2>3, <2>4
<1>6. CASE exact # {}
  <2>1. r = [index |-> Place(c, newest(exact)), match |-> TRUE]
    BY <1>6 DEF H!Searched, Place
  <2>2. newest(exact) \in exact
    <3>1. \A e \in exact : \E k \in DOMAIN c.table : e = c.table[k]
      BY <1>2
    <3> HIDE DEF exact, c
    <3> QED  BY <1>1, <1>6, <3>1, NewestIs
  <2> DEFINE e == newest(exact)
  <2>3. e \in named /\ e.header = h
    BY <2>2
  <2> HIDE DEF e, r, named
  <2>4. r.match = TRUE /\ r.index = Place(c, e)
    BY <2>1 DEF e
  <2> QED  BY <1>5, <2>3, <2>4 DEF r
<1>7. CASE exact = {} /\ same # {}
  <2>1. r = [index |-> H!First(same), match |-> TRUE]
    BY <1>7 DEF H!Searched
  <2>2. H!First(same) \in same
    <3>1. same \subseteq Nat
      BY <1>4
    <3> HIDE DEF same
    <3> QED  BY <1>7, <3>1, FirstIs
  <2> DEFINE i == H!First(same)
  <2>3. i \in token /\ StaticTable[i] = h
    BY <2>2
  <2> HIDE DEF i, r, token
  <2>4. r.match = TRUE /\ r.index = i
    BY <2>1 DEF i
  <2> QED  BY <1>3, <2>3, <2>4 DEF r
<1>8. CASE exact = {} /\ same = {} /\ token # {}
  <2>1. r = [index |-> H!First(token), match |-> FALSE]
    BY <1>8 DEF H!Searched
  <2>2. H!First(token) \in token
    <3> HIDE DEF token
    <3> QED  BY <1>4, <1>8, FirstIs
  <2> DEFINE i == H!First(token)
  <2> HIDE DEF i, r, token
  <2>3. r.match = FALSE /\ r.index = i /\ i \in token
    BY <2>1, <2>2 DEF i
  <2> QED  BY <1>3, <2>3 DEF r
<1>9. CASE exact = {} /\ same = {} /\ token = {}
  <2>1. r = [index |-> IF named = {} THEN 0 ELSE Place(c, newest(named)), match |-> FALSE]
    BY <1>9 DEF H!Searched, Place
  <2>2. CASE named = {}
    <3> HIDE DEF r, named
    <3>1. r.match = FALSE /\ r.index = 0
      BY <2>1, <2>2
    <3> QED  BY <3>1 DEF r
  <2>3. CASE named # {}
    <3> DEFINE e == newest(named)
    <3>1. \A f \in named : \E k \in DOMAIN c.table : f = c.table[k]
      BY <1>2
    <3>2. e \in named
      <4> HIDE DEF named, c
      <4> QED  BY <1>1, <2>3, <3>1, NewestIs
    <3> HIDE DEF named, r, c
    <3>3. r = [index |-> Place(c, e), match |-> FALSE]
      BY <2>1, <2>3
    <3> HIDE DEF e
    <3>4. r.match = FALSE /\ r.index = Place(c, e)
      BY <3>3
    <3> QED  BY <1>5, <3>2, <3>4 DEF r, c
  <2> QED  BY <2>2, <2>3
<1> QED  BY <1>6, <1>7, <1>8, <1>9

-----------------------------------------------------------------------------
(* Headers: what is on its way                                             *)

LEMMA PathEmpty == ASSUME NEW r, Waits(r) PROVE Path(r, <<>>, r)
<1> DEFINE g == [k \in 0 .. 0 |-> r]
<1>1. g[0] = r /\ Len(<<>>) = 0 /\ \A k \in 0 .. 0 : k = 0
  OBVIOUS
<1>2. /\ g[0] = r /\ g[Len(<<>>)] = r /\ \A k \in 0 .. Len(<<>>) : Waits(g[k])
      /\ \A k \in 1 .. Len(<<>>) : Reads(g[k - 1], <<>>[k], g[k])
  <2> HIDE DEF g
  <2> QED  BY <1>1
<1> HIDE DEF g
<1> QED  BY <1>2 DEF Path

LEMMA PathOver ==
  ASSUME NEW r, NEW s, Path(r, <<>>, s)
  PROVE  r = s
<1>1. Len(<<>>) = 0
  OBVIOUS
<1> QED  BY <1>1 DEF Path

LEMMA PathWaits ==
  ASSUME NEW r, NEW q \in Seq(Elements), NEW s, Path(r, q, s)
  PROVE  Waits(r) /\ Waits(s)
<1>1. Len(q) \in Nat
  OBVIOUS
<1> QED  BY <1>1 DEF Path

LEMMA PathJoined ==
  ASSUME NEW r, NEW p \in Seq(Elements), NEW s, NEW q \in Seq(Elements), NEW t,
         Path(r, p, s), Path(s, q, t)
  PROVE  Path(r, p \o q, t)
<1> DEFINE m == Len(p)
           n == Len(q)
           pq == p \o q
<1>1. m \in Nat /\ n \in Nat /\ Len(pq) = m + n
  OBVIOUS
<1>2. (\A k \in 1 .. m : pq[k] = p[k]) /\ (\A k \in 1 .. n : pq[m + k] = q[k])
  OBVIOUS
<1>3. PICK g : /\ g[0] = r /\ g[m] = s /\ \A k \in 0 .. m : Waits(g[k])
               /\ \A k \in 1 .. m : Reads(g[k - 1], p[k], g[k])
  BY DEF Path
<1>4. PICK h : /\ h[0] = s /\ h[n] = t /\ \A k \in 0 .. n : Waits(h[k])
               /\ \A k \in 1 .. n : Reads(h[k - 1], q[k], h[k])
  BY DEF Path
<1> DEFINE a == [k \in 0 .. m + n |-> IF k <= m THEN g[k] ELSE h[k - m]]
<1> HIDE DEF m, n, pq
<1>5. ASSUME NEW k \in 0 .. n PROVE a[m + k] = h[k]
  <2>1. m + k \in 0 .. m + n /\ (m + k) - m = k /\ (m + k <= m <=> k = 0)
    BY <1>1
  <2>2. a[m + k] = IF m + k <= m THEN g[m + k] ELSE h[(m + k) - m]
    BY <2>1
  <2> HIDE DEF a
  <2>3. CASE k = 0
    BY <1>1, <1>3, <1>4, <2>1, <2>2, <2>3
  <2>4. CASE k # 0
    BY <2>1, <2>2, <2>4
  <2> QED  BY <2>3, <2>4
<1>6. ASSUME NEW k \in 0 .. m PROVE a[k] = g[k]
  <2>1. k \in 0 .. m + n /\ k <= m
    BY <1>1
  <2> QED  BY <2>1
<1> HIDE DEF a
<1>7. a[0] = r /\ a[m + n] = t
  BY <1>1, <1>3, <1>4, <1>5, <1>6
<1>8. ASSUME NEW k \in 0 .. m + n PROVE Waits(a[k])
  <2>1. CASE k <= m
    BY <1>1, <1>3, <1>6, <2>1
  <2>2. CASE ~ (k <= m)
    <3> DEFINE i == k - m
    <3>1. i \in 0 .. n /\ k = m + i
      BY <1>1, <2>2
    <3> HIDE DEF i
    <3> QED  BY <1>4, <1>5, <3>1
  <2> QED  BY <2>1, <2>2
<1>9. ASSUME NEW k \in 1 .. m + n PROVE Reads(a[k - 1], pq[k], a[k])
  <2>1. CASE k <= m
    <3>1. k \in 1 .. m /\ k \in 0 .. m /\ k - 1 \in 0 .. m
      BY <1>1, <2>1
    <3>2. Reads(g[k - 1], p[k], g[k])
      BY <1>3, <3>1
    <3> QED  BY <1>2, <1>6, <3>1, <3>2
  <2>2. CASE ~ (k <= m)
    <3> DEFINE i == k - m
    <3>1. i \in 1 .. n /\ i \in 0 .. n /\ i - 1 \in 0 .. n /\ k = m + i /\ k - 1 = m + (i - 1)
      BY <1>1, <2>2
    <3> HIDE DEF i
    <3>2. Reads(h[i - 1], q[i], h[i])
      BY <1>4, <3>1
    <3>3. a[k] = h[i] /\ a[k - 1] = h[i - 1] /\ pq[k] = q[i]
      BY <1>2, <1>5, <3>1
    <3> QED  BY <3>2, <3>3
  <2> QED  BY <2>1, <2>2
<1>10. Path(r, pq, t)
  BY <1>1, <1>7, <1>8, <1>9 DEF Path
<1> QED  BY <1>10 DEF pq

LEMMA PathOne ==
  ASSUME NEW r, NEW e \in Elements, NEW s, Waits(r), Waits(s), Reads(r, e, s)
  PROVE  <<e>> \in Seq(Elements) /\ Path(r, <<e>>, s)
<1> DEFINE g == [k \in 0 .. 1 |-> IF k = 0 THEN r ELSE s]
           q == <<e>>
<1>1. g[0] = r /\ g[1] = s /\ Len(q) = 1 /\ q[1] = e /\ q \in Seq(Elements)
  OBVIOUS
<1> HIDE DEF g, q
<1>2. \A k \in 0 .. Len(q) : Waits(g[k])
  <2>1. \A k \in 0 .. 1 : k = 0 \/ k = 1
    OBVIOUS
  <2> QED  BY <1>1, <2>1
<1>3. \A k \in 1 .. Len(q) : Reads(g[k - 1], q[k], g[k])
  <2>1. \A k \in 1 .. 1 : k = 1 /\ k - 1 = 0
    OBVIOUS
  <2> QED  BY <1>1, <2>1
<1>4. Path(r, q, s)
  BY <1>1, <1>2, <1>3 DEF Path
<1> QED  BY <1>1, <1>4 DEF q

LEMMA PathAppended ==
  ASSUME NEW r, NEW q \in Seq(Elements), NEW s, NEW e \in Elements, NEW t,
         Path(r, q, s), Waits(t), Reads(s, e, t)
  PROVE  Append(q, e) \in Seq(Elements) /\ Path(r, Append(q, e), t)
<1>1. Waits(s)
  BY PathWaits
<1>2. <<e>> \in Seq(Elements) /\ Path(s, <<e>>, t)
  BY <1>1, PathOne
<1>3. Path(r, q \o <<e>>, t)
  BY <1>2, PathJoined
<1>4. Append(q, e) = q \o <<e>> /\ Append(q, e) \in Seq(Elements)
  OBVIOUS
<1> QED  BY <1>3, <1>4

LEMMA PathTail ==
  ASSUME NEW r, NEW q \in Seq(Elements), NEW s, Path(r, q, s), q # <<>>
  PROVE  \E t : Waits(t) /\ Reads(r, Head(q), t) /\ Path(t, Tail(q), s)
<1> DEFINE n == Len(q)
           rest == Tail(q)
<1>1. /\ n \in Nat /\ n >= 1 /\ Head(q) = q[1] /\ Len(rest) = n - 1
      /\ \A k \in 1 .. n - 1 : rest[k] = q[k + 1]
  OBVIOUS
<1>2. PICK g : /\ g[0] = r /\ g[n] = s /\ \A k \in 0 .. n : Waits(g[k])
               /\ \A k \in 1 .. n : Reads(g[k - 1], q[k], g[k])
  BY DEF Path
<1> DEFINE h == [k \in 0 .. n - 1 |-> g[k + 1]]
<1> HIDE DEF n, rest
<1>3. ASSUME NEW k \in 0 .. n - 1 PROVE h[k] = g[k + 1] /\ Waits(h[k])
  <2>1. k + 1 \in 0 .. n
    BY <1>1
  <2> QED  BY <1>2, <2>1
<1>4. ASSUME NEW k \in 1 .. n - 1 PROVE Reads(h[k - 1], rest[k], h[k])
  <2>1. k \in 0 .. n - 1 /\ k - 1 \in 0 .. n - 1 /\ k + 1 \in 1 .. n /\ (k - 1) + 1 = k
        /\ (k + 1) - 1 = k
    BY <1>1
  <2>2. h[k] = g[k + 1] /\ h[k - 1] = g[k]
    BY <2>1
  <2>3. Reads(g[k], q[k + 1], g[k + 1])
    BY <1>2, <2>1
  <2> QED  BY <1>1, <2>2, <2>3
<1>5. h[0] = g[1] /\ h[n - 1] = s
  <2>1. 0 \in 0 .. n - 1 /\ n - 1 \in 0 .. n - 1 /\ (n - 1) + 1 = n /\ 0 + 1 = 1
    BY <1>1
  <2> QED  BY <1>2, <2>1
<1> HIDE DEF h
<1>6. Path(g[1], rest, s)
  BY <1>1, <1>3, <1>4, <1>5 DEF Path
<1>7. Waits(g[1]) /\ Reads(r, q[1], g[1])
  <2>1. 1 \in 0 .. n /\ 1 \in 1 .. n /\ 1 - 1 = 0
    BY <1>1
  <2> QED  BY <1>2, <2>1
<1> QED  BY <1>1, <1>6, <1>7 DEF rest

\* What comes later waits behind what is on its way.
More(r, v, l) == Receiver(r.f, r.u \o v, r.x \o l)

LEMMA HeadOfConcat ==
  ASSUME NEW S, NEW p \in Seq(S), p # <<>>, NEW q \in Seq(S)
  PROVE  p \o q # <<>> /\ Head(p \o q) = Head(p) /\ Tail(p \o q) = Tail(p) \o q
<1> DEFINE pq == p \o q
           m == Len(p)
           n == Len(q)
<1>1. /\ m \in Nat /\ m >= 1 /\ n \in Nat /\ pq \in Seq(S) /\ Len(pq) = m + n
      /\ (\A k \in 1 .. m : pq[k] = p[k]) /\ (\A k \in 1 .. n : pq[m + k] = q[k])
  BY ConcatProperties
<1>2. /\ Tail(p) \in Seq(S) /\ Len(Tail(p)) = m - 1 /\ Head(p) = p[1]
      /\ \A k \in 1 .. m - 1 : Tail(p)[k] = p[k + 1]
  OBVIOUS
<1> DEFINE t == Tail(p)
           tq == t \o q
<1>3. /\ tq \in Seq(S) /\ Len(tq) = (m - 1) + n
      /\ (\A k \in 1 .. m - 1 : tq[k] = t[k]) /\ (\A k \in 1 .. n : tq[(m - 1) + k] = q[k])
  <2>1. t \in Seq(S) /\ Len(t) = m - 1
    BY <1>2
  <2> HIDE DEF t
  <2>2. /\ tq \in Seq(S) /\ Len(tq) = Len(t) + n
        /\ (\A k \in 1 .. Len(t) : tq[k] = t[k]) /\ (\A k \in 1 .. n : tq[Len(t) + k] = q[k])
    <3>1. t \in Seq(S) /\ q \in Seq(S)
      BY <2>1
    <3> HIDE <2>1
    <3> QED  BY <3>1, ConcatProperties
  <2> HIDE DEF tq, n, m
  <2> QED  BY <2>1, <2>2
<1> HIDE DEF pq, m, n
<1>4. pq # <<>> /\ Head(pq) = pq[1] /\ Tail(pq) \in Seq(S) /\ Len(Tail(pq)) = m + n - 1
      /\ \A k \in 1 .. m + n - 1 : Tail(pq)[k] = pq[k + 1]
  <2>1. pq # <<>>
    BY <1>1
  <2> QED  BY <1>1, <2>1
<1>5. Head(pq) = Head(p)
  BY <1>1, <1>2, <1>4
<1> DEFINE tp == Tail(pq)
<1> HIDE DEF tp, tq, t
<1>6. ASSUME NEW k \in 1 .. m + n - 1 PROVE tp[k] = tq[k]
  <2>1. tp[k] = pq[k + 1]
    BY <1>4 DEF tp
  <2>2. CASE k <= m - 1
    <3>1. k \in 1 .. m - 1 /\ k + 1 \in 1 .. m
      BY <1>1, <2>2
    <3> QED  BY <1>1, <1>2, <1>3, <2>1, <3>1 DEF t
  <2>3. CASE ~ (k <= m - 1)
    <3> DEFINE i == k - (m - 1)
    <3>1. i \in 1 .. n /\ k = (m - 1) + i /\ k + 1 = m + i
      BY <1>1, <2>3
    <3> HIDE DEF i
    <3> QED  BY <1>1, <1>3, <2>1, <3>1
  <2> QED  BY <2>2, <2>3
<1>7. tp = tq
  <2>1. tp \in Seq(S) /\ Len(tp) = m + n - 1 /\ Len(tq) = m + n - 1
    BY <1>1, <1>3, <1>4 DEF tp
  <2> QED  BY <1>3, <1>6, <2>1, SeqEqual
<1> QED  BY <1>4, <1>5, <1>7 DEF pq, tp, tq, t

LEMMA MoreReads ==
  ASSUME NEW r, Waits(r), NEW s, Waits(s), NEW e, Reads(r, e, s),
         NEW v \in Seq(SizeLists), NEW l \in Seq(H!Headers)
  PROVE  Waits(More(s, v, l)) /\ Reads(More(r, v, l), e, More(s, v, l))
<1> DEFINE a == More(r, v, l)
           b == More(s, v, l)
<1>1. /\ a.f = r.f /\ a.u = r.u \o v /\ a.x = r.x \o l
      /\ b.f = s.f /\ b.u = s.u \o v /\ b.x = s.x \o l /\ b = Receiver(b.f, b.u, b.x)
  BY DEF More, Receiver
<1>2. /\ r.u \in Seq(SizeLists) /\ r.x \in Seq(H!Headers)
      /\ s.u \in Seq(SizeLists) /\ s.x \in Seq(H!Headers)
  BY DEF Waits
<1>3. r.u # <<>> => a.u # <<>> /\ Head(a.u) = Head(r.u) /\ Tail(a.u) = Tail(r.u) \o v
  <2>1. r.u # <<>> => /\ r.u \o v # <<>> /\ Head(r.u \o v) = Head(r.u)
                      /\ Tail(r.u \o v) = Tail(r.u) \o v
    BY <1>2, HeadOfConcat
  <2> HIDE DEF a
  <2> QED  BY <1>1, <2>1
<1>4. r.x # <<>> => a.x # <<>> /\ Head(a.x) = Head(r.x) /\ Tail(a.x) = Tail(r.x) \o l
  <2>1. r.x # <<>> => /\ r.x \o l # <<>> /\ Head(r.x \o l) = Head(r.x)
                      /\ Tail(r.x \o l) = Tail(r.x) \o l
    BY <1>2, HeadOfConcat
  <2> HIDE DEF a
  <2> QED  BY <1>1, <2>1
<1>5. Waits(b)
  <2>1. b.u \in Seq(SizeLists) /\ b.x \in Seq(H!Headers)
    BY <1>1, <1>2
  <2> HIDE DEF b
  <2> QED  BY <1>1, <2>1 DEF Waits
<1> HIDE DEF a, b
<1>6. Reads(a, e, b)
  <2>1. CASE e.kind = "ack"
    BY <1>1, <1>3, <2>1 DEF Reads
  <2>2. CASE e.kind = "end"
    BY <1>1, <2>2 DEF Reads
  <2>3. CASE e.kind # "ack" /\ e.kind # "end"
    <3>1. /\ s.f = H!Read(r.f, e) /\ ~s.f.bad /\ s.u = r.u
          /\ IF H!Emitted(r.f, e) = <<>> THEN s.x = r.x
             ELSE r.x # <<>> /\ Head(r.x) = Head(H!Emitted(r.f, e)) /\ s.x = Tail(r.x)
      BY <2>3 DEF Reads
    <3>2. /\ b.f = H!Read(a.f, e) /\ ~b.f.bad /\ b.u = a.u
          /\ IF H!Emitted(a.f, e) = <<>> THEN b.x = a.x
             ELSE a.x # <<>> /\ Head(a.x) = Head(H!Emitted(a.f, e)) /\ b.x = Tail(a.x)
      BY <1>1, <1>4, <3>1
    <3> QED  BY <2>3, <3>2 DEF Reads
  <2> QED  BY <2>1, <2>2, <2>3
<1> QED  BY <1>5, <1>6 DEF a, b

LEMMA PathMore ==
  ASSUME NEW r, NEW q \in Seq(Elements), NEW s, Path(r, q, s),
         NEW v \in Seq(SizeLists), NEW l \in Seq(H!Headers)
  PROVE  Path(More(r, v, l), q, More(s, v, l))
<1> DEFINE n == Len(q)
<1>1. PICK g : /\ g[0] = r /\ g[n] = s /\ \A k \in 0 .. n : Waits(g[k])
               /\ \A k \in 1 .. n : Reads(g[k - 1], q[k], g[k])
  BY DEF Path
<1>2. n \in Nat
  OBVIOUS
<1> DEFINE h == [k \in 0 .. n |-> More(g[k], v, l)]
<1> HIDE DEF n
<1>3. ASSUME NEW k \in 0 .. n PROVE h[k] = More(g[k], v, l) /\ Waits(h[k])
  <2>1. Waits(g[k])
    BY <1>1
  <2>2. g[k].u \o v \in Seq(SizeLists) /\ g[k].x \o l \in Seq(H!Headers)
    BY <2>1 DEF Waits
  <2>3. Waits(More(g[k], v, l))
    BY <2>2 DEF Waits, More, Receiver
  <2> QED  BY <2>3
<1>4. ASSUME NEW k \in 1 .. n PROVE Reads(h[k - 1], q[k], h[k])
  <2>1. k - 1 \in 0 .. n /\ k \in 0 .. n
    BY <1>2
  <2>2. Waits(g[k - 1]) /\ Waits(g[k]) /\ Reads(g[k - 1], q[k], g[k])
    BY <1>1, <2>1
  <2>3. Reads(More(g[k - 1], v, l), q[k], More(g[k], v, l))
    BY <2>2, MoreReads
  <2> QED  BY <2>1, <2>3
<1>5. h[0] = More(r, v, l) /\ h[n] = More(s, v, l)
  BY <1>1, <1>2
<1> HIDE DEF h
<1> QED  BY <1>3, <1>4, <1>5 DEF Path, n

-----------------------------------------------------------------------------
(* Headers: one after the other                                            *)

(***************************************************************************)
(* The headers of a block, one by one (nghttp2_hd_deflate_hd_bufs).        *)
(***************************************************************************)
LEMMA CompressedSteps ==
  ASSUME NEW start, NEW list, Len(list) \in Nat
  PROVE  \E g : /\ g[0] = start /\ g[Len(list)] = H!Compressed(start, list)
               /\ \A k \in 1 .. Len(list) : g[k] = H!Deflated(g[k - 1], list[k])
<1> DEFINE n == Len(list)
           Part(m, g) == g[0] = start /\ \A k \in 1 .. m : g[k] = H!Deflated(g[k - 1], list[k])
           Made(m) == \E g : Part(m, g)
           T == {m \in 0 .. n : ~ Made(m)}
           Longer(f) == [k \in 0 .. n |-> IF k = 0 THEN start ELSE H!Deflated(f[k - 1], list[k])]
           t == CHOOSE f : f = Longer(f)
<1>1. T = {}
  <2>1. SUFFICES ASSUME T # {} PROVE FALSE
    OBVIOUS
  <2>2. PICK m \in T : \A i \in T : m <= i
    <3>1. T \subseteq Nat
      OBVIOUS
    <3> HIDE DEF T
    <3> QED  BY <2>1, <3>1, LeastExists
  <2>3. m # 0
    <3>1. Part(0, [k \in 0 .. 0 |-> start])
      OBVIOUS
    <3> QED  BY <3>1
  <2>4. m \in 1 .. n /\ m - 1 \in 0 .. n /\ ~ Made(m)
    BY <2>3
  <2>5. PICK g : Part(m - 1, g)
    <3>1. m - 1 \notin T
      <4> HIDE DEF T, n
      <4>1. ~ (m <= m - 1)
        BY <2>4
      <4> QED  BY <2>2, <4>1
    <3> HIDE DEF Part
    <3> QED  BY <2>4, <3>1
  <2> DEFINE h == [k \in 0 .. m |-> IF k = m THEN H!Deflated(g[m - 1], list[m]) ELSE g[k]]
  <2> HIDE DEF n, T
  <2>6. m \in Nat
    BY <2>4
  <2>7. h[0] = start
    BY <2>4, <2>5, <2>6
  <2>8. ASSUME NEW k \in 1 .. m PROVE h[k] = H!Deflated(h[k - 1], list[k])
    <3>1. k \in 0 .. m /\ k - 1 \in 0 .. m /\ k - 1 # m
      BY <2>6
    <3>2. /\ h[k - 1] = g[k - 1] /\ (k = m => h[k] = H!Deflated(g[m - 1], list[m]))
          /\ (k # m => h[k] = g[k])
      BY <3>1
    <3>3. k # m => k \in 1 .. m - 1
      BY <2>6
    <3> HIDE DEF h
    <3> QED  BY <2>5, <3>2, <3>3
  <2>9. Part(m, h)
    <3> HIDE DEF h
    <3> QED  BY <2>7, <2>8
  <2> HIDE DEF h, Part
  <2> QED  BY <2>4, <2>9
<1>2. PICK g : Part(n, g)
  <2>1. n \in 0 .. n
    OBVIOUS
  <2> HIDE DEF Part, n
  <2> QED  BY <1>1, <2>1
<1>3. H!Compressed(start, list) = t[n]
  BY DEF H!Compressed
<1> DEFINE f == [k \in 0 .. n |-> g[k]]
<1>4. f = Longer(f)
  <2>1. ASSUME NEW k \in 0 .. n PROVE f[k] = IF k = 0 THEN start ELSE H!Deflated(f[k - 1], list[k])
    <3>1. k # 0 => k - 1 \in 0 .. n /\ k \in 1 .. n
      OBVIOUS
    <3> HIDE DEF n
    <3>2. f[k] = g[k] /\ (k # 0 => f[k - 1] = g[k - 1])
      BY <3>1
    <3> HIDE DEF f
    <3> QED  BY <1>2, <3>1, <3>2
  <2> HIDE DEF n
  <2> QED  BY <2>1
<1>5. t = Longer(t)
  <2> HIDE DEF f, Longer
  <2> QED  BY <1>4
<1> HIDE DEF t, f
<1>6. t[0] = start /\ \A k \in 1 .. n : t[k] = H!Deflated(t[k - 1], list[k])
  <2>1. 0 \in 0 .. n
    OBVIOUS
  <2>2. \A k \in 1 .. n : k \in 0 .. n /\ k # 0
    OBVIOUS
  <2> HIDE DEF n
  <2> QED  BY <1>5, <2>1, <2>2
<1> QED  BY <1>3, <1>6

(***************************************************************************)
(* The sizes of a SETTINGS frame, one by one.                              *)
(***************************************************************************)
LEMMA ResizedSteps ==
  ASSUME NEW start, NEW list, Len(list) \in Nat
  PROVE  \E g : /\ g[0] = start /\ g[Len(list)] = H!ResizedAll(start, list)
               /\ \A k \in 1 .. Len(list) : g[k] = H!Resized(g[k - 1], list[k])
<1> DEFINE n == Len(list)
           Part(m, g) == g[0] = start /\ \A k \in 1 .. m : g[k] = H!Resized(g[k - 1], list[k])
           Made(m) == \E g : Part(m, g)
           T == {m \in 0 .. n : ~ Made(m)}
           Longer(f) == [k \in 0 .. n |-> IF k = 0 THEN start ELSE H!Resized(f[k - 1], list[k])]
           t == CHOOSE f : f = Longer(f)
<1>1. T = {}
  <2>1. SUFFICES ASSUME T # {} PROVE FALSE
    OBVIOUS
  <2>2. PICK m \in T : \A i \in T : m <= i
    <3>1. T \subseteq Nat
      OBVIOUS
    <3> HIDE DEF T
    <3> QED  BY <2>1, <3>1, LeastExists
  <2>3. m # 0
    <3>1. Part(0, [k \in 0 .. 0 |-> start])
      OBVIOUS
    <3> QED  BY <3>1
  <2>4. m \in 1 .. n /\ m - 1 \in 0 .. n /\ ~ Made(m)
    BY <2>3
  <2>5. PICK g : Part(m - 1, g)
    <3>1. m - 1 \notin T
      <4> HIDE DEF T, n
      <4>1. ~ (m <= m - 1)
        BY <2>4
      <4> QED  BY <2>2, <4>1
    <3> HIDE DEF Part
    <3> QED  BY <2>4, <3>1
  <2> DEFINE h == [k \in 0 .. m |-> IF k = m THEN H!Resized(g[m - 1], list[m]) ELSE g[k]]
  <2> HIDE DEF n, T
  <2>6. m \in Nat
    BY <2>4
  <2>7. h[0] = start
    BY <2>4, <2>5, <2>6
  <2>8. ASSUME NEW k \in 1 .. m PROVE h[k] = H!Resized(h[k - 1], list[k])
    <3>1. k \in 0 .. m /\ k - 1 \in 0 .. m /\ k - 1 # m
      BY <2>6
    <3>2. /\ h[k - 1] = g[k - 1] /\ (k = m => h[k] = H!Resized(g[m - 1], list[m]))
          /\ (k # m => h[k] = g[k])
      BY <3>1
    <3>3. k # m => k \in 1 .. m - 1
      BY <2>6
    <3> HIDE DEF h
    <3> QED  BY <2>5, <3>2, <3>3
  <2>9. Part(m, h)
    <3> HIDE DEF h
    <3> QED  BY <2>7, <2>8
  <2> HIDE DEF h, Part
  <2> QED  BY <2>4, <2>9
<1>2. PICK g : Part(n, g)
  <2>1. n \in 0 .. n
    OBVIOUS
  <2> HIDE DEF Part, n
  <2> QED  BY <1>1, <2>1
<1>3. H!ResizedAll(start, list) = t[n]
  BY DEF H!ResizedAll
<1> DEFINE f == [k \in 0 .. n |-> g[k]]
<1>4. f = Longer(f)
  <2>1. ASSUME NEW k \in 0 .. n PROVE f[k] = IF k = 0 THEN start ELSE H!Resized(f[k - 1], list[k])
    <3>1. k # 0 => k - 1 \in 0 .. n /\ k \in 1 .. n
      OBVIOUS
    <3> HIDE DEF n
    <3>2. f[k] = g[k] /\ (k # 0 => f[k - 1] = g[k - 1])
      BY <3>1
    <3> HIDE DEF f
    <3> QED  BY <1>2, <3>1, <3>2
  <2> HIDE DEF n
  <2> QED  BY <2>1
<1>5. t = Longer(t)
  <2> HIDE DEF f, Longer
  <2> QED  BY <1>4
<1> HIDE DEF t, f
<1>6. t[0] = start /\ \A k \in 1 .. n : t[k] = H!Resized(t[k - 1], list[k])
  <2>1. 0 \in 0 .. n
    OBVIOUS
  <2>2. \A k \in 1 .. n : k \in 0 .. n /\ k # 0
    OBVIOUS
  <2> HIDE DEF n
  <2> QED  BY <1>5, <2>1, <2>2
<1> QED  BY <1>3, <1>6

-----------------------------------------------------------------------------
(* Headers: a block is read                                                *)

Inflater(c, state, min, max, name, indexing) ==
  [ctx |-> c, state |-> state, min |-> min, max |-> max, name |-> name, indexing |-> indexing,
   bad |-> FALSE]

LEMMA InflaterIs ==
  ASSUME NEW f \in Inflaters, ~f.bad
  PROVE  f = Inflater(f.ctx, f.state, f.min, f.max, f.name, f.indexing)
<1>1. f.bad = FALSE
  BY DEF Inflaters
<1> QED  BY <1>1 DEF Inflaters, Inflater

LEMMA ReceiverWaits ==
  ASSUME NEW f, NEW u \in Seq(SizeLists), NEW x \in Seq(H!Headers)
  PROVE  /\ Waits(Receiver(f, u, x)) /\ Receiver(f, u, x).f = f
         /\ Receiver(f, u, x).u = u /\ Receiver(f, u, x).x = x
BY DEF Waits, Receiver

(***************************************************************************)
(* A size for a table that fits is read (NGHTTP2_HD_STATE_READ_TABLE_SIZE).*)
(***************************************************************************)
LEMMA SizeRead ==
  ASSUME NEW f \in Inflaters, ~f.bad, f.state \in {"start", "expect"}, TableOk(f.ctx),
         NEW n \in Nat, f.ctx.size <= n, n <= f.min, n <= f.max,
         NEW u \in Seq(SizeLists), NEW x \in Seq(H!Headers)
  PROVE  LET g == Inflater([f.ctx EXCEPT !.max = n], "start", NoSize, f.max, f.name, f.indexing) IN
         /\ g \in Inflaters /\ ~g.bad /\ TableOk(g.ctx) /\ g.ctx.size = f.ctx.size
         /\ H!Update(n) \in Elements
         /\ Path(Receiver(f, u, x), <<H!Update(n)>>, Receiver(g, u, x))
         /\ <<H!Update(n)>> \in Seq(Elements)
<1> DEFINE c == [f.ctx EXCEPT !.max = n]
           g == Inflater(c, "start", NoSize, f.max, f.name, f.indexing)
           e == H!Update(n)
<1>1. f = Inflater(f.ctx, f.state, f.min, f.max, f.name, f.indexing)
  BY InflaterIs
<1>2. TableOk(c) /\ H!Shrunk(c, n) = c /\ c.size = f.ctx.size
  <2>1. TableOk(c) /\ H!Shrunk(c, n) = [H!Shrunk(f.ctx, n) EXCEPT !.max = n]
    BY ShrunkMax
  <2>2. H!Shrunk(f.ctx, n) = f.ctx
    BY ShrunkFits
  <2>3. c.size = f.ctx.size
    BY DEF TableOk, Contexts
  <2> QED  BY <2>1, <2>2, <2>3
<1>3. NoSize \in Nat /\ f.min \in Nat /\ f.max \in Nat /\ f.name \in HeaderNames \cup {<<>>}
      /\ f.indexing \in BOOLEAN
  BY SizesAre DEF Inflaters
<1>4. ~ (n > H!Lesser(f.min, f.max)) /\ f.state # "opcode"
  BY <1>3 DEF H!Lesser
<1>5. e \in Elements /\ e.kind = "size" /\ e.size = n
  BY DEF H!Update, Elements
<1> HIDE DEF c, e
<1>6. g \in Inflaters /\ ~g.bad /\ g.ctx = c
  <2>1. c \in Contexts
    BY <1>2 DEF TableOk
  <2> QED  BY <1>3, <2>1 DEF Inflaters, Inflater
<1>7. H!Read(f, e) = g
  <2>1. H!Read(f, e) = H!ReadTableSize(f, n)
    BY <1>5 DEF H!Read
  <2>2. H!ReadTableSize(f, n) = [f EXCEPT !.state = "start", !.min = NoSize, !.ctx = H!Shrunk(c, n)]
    BY <1>4 DEF H!ReadTableSize, c
  <2>3. [f EXCEPT !.state = "start", !.min = NoSize, !.ctx = c] = g
    <3> DEFINE q == [f EXCEPT !.state = "start", !.min = NoSize, !.ctx = c]
    <3>1. q = [f EXCEPT !.state = "start", !.min = NoSize, !.ctx = c] /\ f.bad = FALSE
      BY DEF Inflaters
    <3> HIDE DEF q
    <3>2. q = g
      BY <3>1 DEF Inflaters, Inflater
    <3> QED  BY <3>1, <3>2
  <2> QED  BY <1>2, <2>1, <2>2, <2>3
<1>8. H!Emitted(f, e) = <<>>
  BY <1>5 DEF H!Emitted
<1>9. Reads(Receiver(f, u, x), e, Receiver(g, u, x))
  <2> HIDE DEF g
  <2> QED  BY <1>5, <1>6, <1>7, <1>8, ReceiverWaits DEF Reads
<1>10. <<e>> \in Seq(Elements) /\ Path(Receiver(f, u, x), <<e>>, Receiver(g, u, x))
  <2>1. Waits(Receiver(f, u, x)) /\ Waits(Receiver(g, u, x))
    BY ReceiverWaits
  <2> HIDE DEF g
  <2> QED  BY <1>5, <1>9, <2>1, PathOne
<1> HIDE DEF g
<1> QED  BY <1>2, <1>5, <1>6, <1>10 DEF g, c, e

LEMMA QuietOk ==
  ASSUME NEW d, DeflaterOk(d)
  PROVE  LET e == [d EXCEPT !.notify = FALSE, !.min = NoSize] IN
         DeflaterOk(e) /\ e.ctx = d.ctx /\ e.min = NoSize /\ ~e.notify
<1> DEFINE e == [d EXCEPT !.notify = FALSE, !.min = NoSize]
<1>1. d \in Deflaters /\ NoSize \in Nat
  BY SizesAre DEF DeflaterOk
<1>2. e \in Deflaters /\ e.ctx = d.ctx /\ e.min = NoSize /\ e.notify = FALSE /\ e.map = d.map
  BY <1>1 DEF Deflaters
<1> HIDE DEF e
<1> QED  BY <1>2 DEF DeflaterOk, e

(***************************************************************************)
(* The sizes that a block starts with bring the tables together: the least *)
(* since the last block, then the one that holds.                          *)
(***************************************************************************)
LEMMA UpdatesRead ==
  ASSUME NEW f, NEW d, Agree(f, d), NEW u \in Seq(SizeLists), NEW x \in Seq(H!Headers)
  PROVE  LET e == [d EXCEPT !.notify = FALSE, !.min = NoSize] IN
         /\ H!Updates(d) \in Seq(Elements)
         /\ \E g : AgreeWithin(g, e) /\ Path(Receiver(f, u, x), H!Updates(d), Receiver(g, u, x))
<1> DEFINE e == [d EXCEPT !.notify = FALSE, !.min = NoSize]
<1>1. DeflaterOk(e) /\ e.ctx = d.ctx /\ e.min = NoSize /\ ~e.notify
  BY QuietOk DEF Agree
<1> HIDE DEF e
<1>2. /\ f \in Inflaters /\ ~f.bad /\ f.state \in {"start", "expect"} /\ TableOk(d.ctx)
      /\ d \in Deflaters
  BY DEF Agree, DeflaterOk
<1>3. /\ f.min \in Nat /\ f.max \in Nat /\ f.ctx \in Contexts /\ d.ctx \in Contexts /\ d.min \in Nat
      /\ d.notify \in BOOLEAN /\ d.ctx.size \in Nat /\ d.ctx.max \in Nat /\ f.ctx.max \in Nat
      /\ NoSize \in Nat /\ DefaultSize \in Nat /\ DefaultSize < NoSize
  BY <1>2, SizesAre DEF Inflaters, Deflaters, Contexts
<1>4. d.ctx.max <= f.max /\ d.ctx.max <= DefaultSize /\ d.ctx.max = H!Lesser(f.max, DefaultSize)
  BY <1>3 DEF Agree, H!Lesser
<1>5. CASE ~d.notify
  <2>1. d.min = NoSize /\ f.min = NoSize /\ f.state = "start" /\ f.ctx.max = d.ctx.max
        /\ d.ctx.size <= f.ctx.max /\ f.ctx = [d.ctx EXCEPT !.max = f.ctx.max]
    BY <1>5 DEF Agree
  <2>2. f.ctx = d.ctx
    BY <1>3, <2>1 DEF Contexts
  <2>3. AgreeWithin(f, e)
    BY <1>1, <1>2, <1>4, <2>1, <2>2 DEF AgreeWithin
  <2>4. H!Updates(d) = <<>>
    BY <1>5 DEF H!Updates
  <2>5. Path(Receiver(f, u, x), <<>>, Receiver(f, u, x))
    BY ReceiverWaits, PathEmpty
  <2> QED  BY <2>3, <2>4, <2>5 DEF e
<1>6. CASE d.notify
  <2>1. /\ d.min <= d.ctx.max /\ d.min <= f.min /\ d.ctx.size <= d.min
        /\ f.ctx = [d.ctx EXCEPT !.max = f.ctx.max]
    BY <1>6 DEF Agree
  <2>2. f.ctx.size = d.ctx.size /\ TableOk(f.ctx)
    <3>1. TableOk([d.ctx EXCEPT !.max = f.ctx.max])
      BY <1>2, <1>3, ShrunkMax
    <3> QED  BY <1>3, <2>1, <3>1 DEF Contexts
  <2> DEFINE m == d.ctx.max
             last == <<H!Update(m)>>
             told(v) == Inflater([v.ctx EXCEPT !.max = m], "start", NoSize, v.max, v.name, v.indexing)
  <2>3. ASSUME NEW v \in Inflaters, ~v.bad, v.state \in {"start", "expect"}, TableOk(v.ctx),
               v.ctx.size = d.ctx.size, m <= v.min, v.max = f.max,
               v.ctx = [d.ctx EXCEPT !.max = v.ctx.max]
        PROVE  /\ AgreeWithin(told(v), e) /\ Path(Receiver(v, u, x), last, Receiver(told(v), u, x))
               /\ last \in Seq(Elements)
    <3> DEFINE g == told(v)
    <3>1. v.ctx.size <= m /\ m <= v.max
      BY <1>3, <1>4, <2>1, <2>3
    <3>2. /\ g \in Inflaters /\ ~g.bad /\ Path(Receiver(v, u, x), last, Receiver(g, u, x))
          /\ last \in Seq(Elements)
      BY <1>3, <2>3, <3>1, SizeRead
    <3>3. [v.ctx EXCEPT !.max = m] = d.ctx
      BY <1>3, <2>3 DEF Contexts
    <3>4. g.ctx = d.ctx /\ g.state = "start" /\ g.min = NoSize /\ g.max = f.max
      BY <2>3, <3>3 DEF Inflater
    <3> HIDE DEF g, last
    <3>5. AgreeWithin(g, e)
      BY <1>1, <1>3, <1>4, <2>1, <3>2, <3>4 DEF AgreeWithin
    <3> QED  BY <3>2, <3>5 DEF g
  <2> HIDE DEF told
  <2>4. CASE ~ (m > d.min)
    <3>1. H!Updates(d) = <<>> \o last
      BY <1>6, <2>4 DEF H!Updates
    <3>2. m <= f.min
      BY <1>3, <2>1, <2>4
    <3>3. /\ AgreeWithin(told(f), e) /\ Path(Receiver(f, u, x), last, Receiver(told(f), u, x))
          /\ last \in Seq(Elements)
      <4> HIDE DEF last, m
      <4> QED  BY <1>2, <2>1, <2>2, <2>3, <3>2
    <3>4. H!Updates(d) = last
      <4> HIDE DEF last
      <4> QED  BY <3>1, <3>3, ConcatEmptySeq
    <3> HIDE DEF last
    <3> QED  BY <3>3, <3>4 DEF e
  <2>5. CASE m > d.min
    <3> DEFINE first == <<H!Update(d.min)>>
               g == Inflater([f.ctx EXCEPT !.max = d.min], "start", NoSize, f.max, f.name, f.indexing)
    <3>1. H!Updates(d) = first \o last
      BY <1>6, <2>5 DEF H!Updates
    <3>2. f.ctx.size <= d.min /\ d.min <= f.max
      BY <1>3, <1>4, <2>1, <2>2, <2>5
    <3>3. /\ g \in Inflaters /\ ~g.bad /\ TableOk(g.ctx) /\ g.ctx.size = f.ctx.size
          /\ Path(Receiver(f, u, x), first, Receiver(g, u, x)) /\ first \in Seq(Elements)
      BY <1>2, <1>3, <2>1, <2>2, <3>2, SizeRead
    <3>4. g.state = "start" /\ g.min = NoSize /\ g.max = f.max /\ g.ctx = [f.ctx EXCEPT !.max = d.min]
      BY DEF Inflater
    <3> HIDE DEF g, first, last
    <3>5. g.ctx = [d.ctx EXCEPT !.max = g.ctx.max] /\ m <= g.min
      <4>1. m <= NoSize
        BY <1>3, <1>4
      <4>2. [f.ctx EXCEPT !.max = d.min] = [d.ctx EXCEPT !.max = d.min]
            /\ [d.ctx EXCEPT !.max = d.min].max = d.min
        BY <1>3, <2>1 DEF Contexts
      <4> QED  BY <3>4, <4>1, <4>2
    <3>6. /\ AgreeWithin(told(g), e) /\ Path(Receiver(g, u, x), last, Receiver(told(g), u, x))
          /\ last \in Seq(Elements)
      <4> HIDE DEF m
      <4> QED  BY <2>2, <2>3, <3>3, <3>4, <3>5
    <3>7. /\ first \o last \in Seq(Elements)
          /\ Path(Receiver(f, u, x), first \o last, Receiver(told(g), u, x))
      BY <3>3, <3>6, PathJoined
    <3> QED  BY <3>1, <3>6, <3>7 DEF e
  <2> QED  BY <2>4, <2>5
<1> QED  BY <1>3, <1>5, <1>6

(***************************************************************************)
(* A header for which there is an index comes out of the table.            *)
(***************************************************************************)
LEMMA IndexedRead ==
  ASSUME NEW f \in Inflaters, ~f.bad, f.state \in {"start", "opcode"}, NEW h \in H!Headers,
         NEW i, Known(f.ctx, i), H!Get(f.ctx, i) = h,
         NEW u \in Seq(SizeLists), NEW x \in Seq(H!Headers)
  PROVE  LET e == [kind |-> "indexed", index |-> i]
             g == [f EXCEPT !.state = "opcode"] IN
         /\ e \in Elements /\ g \in Inflaters /\ ~g.bad /\ g.state = "opcode"
         /\ g.ctx = f.ctx /\ g.min = f.min /\ g.max = f.max
         /\ <<e>> \in Seq(Elements)
         /\ Path(Receiver(f, u, <<h>> \o x), <<e>>, Receiver(g, u, x))
<1> DEFINE e == [kind |-> "indexed", index |-> i]
           g == [f EXCEPT !.state = "opcode"]
           y == <<h>> \o x
<1>1. e.kind = "indexed" /\ e.index = i
  OBVIOUS
<1>2. e \in Elements
  <2>1. i \in Nat
    <3>1. Len(StaticTable) + Len(f.ctx.table) \in Int
      <4>1. f.ctx.table \in Seq(TableEntries) /\ StaticTable \in Seq(H!Headers)
        BY SizesAre DEF Inflaters, Contexts
      <4> QED  BY <4>1
    <3> QED  BY <3>1 DEF Known
  <2> QED  BY <2>1 DEF Elements
<1>3. g \in Inflaters /\ g.bad = f.bad /\ g.state = "opcode" /\ g.ctx = f.ctx /\ g.min = f.min
      /\ g.max = f.max
  BY DEF Inflaters
<1>4. y \in Seq(H!Headers) /\ y # <<>> /\ Head(y) = h /\ Tail(y) = x
  <2>1. <<h>> \in Seq(H!Headers) /\ <<h>> # <<>> /\ Head(<<h>>) = h /\ Tail(<<h>>) = <<>>
    OBVIOUS
  <2>2. /\ y # <<>> /\ Head(y) = Head(<<h>>) /\ Tail(y) = Tail(<<h>>) \o x
    BY <2>1, HeadOfConcat
  <2>3. Tail(<<h>>) \o x = x
    BY <2>1, ConcatEmptySeq
  <2> QED  BY <2>1, <2>2, <2>3
<1> HIDE DEF e, g, y
<1>5. H!Read(f, e) = g
  <2>1. H!Read(f, e) = H!ReadOpcode(f, e)
    BY <1>1 DEF H!Read
  <2>2. H!ValidIndex(f, e.index)
    BY <1>1 DEF Known, H!ValidIndex
  <2>3. H!ReadOpcode(f, e) = [f EXCEPT !.state = "opcode"]
    BY <1>1, <2>2 DEF H!ReadOpcode
  <2> QED  BY <2>1, <2>3 DEF g
<1>6. H!Emitted(f, e) = <<h>>
  <2>1. H!ValidIndex(f, e.index) /\ f.state # "expect"
    BY <1>1 DEF Known, H!ValidIndex
  <2> QED  BY <1>1, <2>1 DEF H!Emitted
<1>7. Reads(Receiver(f, u, y), e, Receiver(g, u, x))
  <2>1. Head(<<h>>) = h /\ <<h>> # <<>>
    OBVIOUS
  <2>2. /\ Receiver(f, u, y).f = f /\ Receiver(f, u, y).u = u /\ Receiver(f, u, y).x = y
        /\ Receiver(g, u, x).f = g /\ Receiver(g, u, x).u = u /\ Receiver(g, u, x).x = x
    BY DEF Receiver
  <2> QED  BY <1>1, <1>3, <1>4, <1>5, <1>6, <2>1, <2>2 DEF Reads
<1>8. <<e>> \in Seq(Elements) /\ Path(Receiver(f, u, y), <<e>>, Receiver(g, u, x))
  <2>1. Waits(Receiver(f, u, y)) /\ Waits(Receiver(g, u, x))
    BY <1>4, ReceiverWaits
  <2> QED  BY <1>2, <1>7, <2>1, PathOne
<1> QED  BY <1>2, <1>3, <1>8 DEF e, g, y

(***************************************************************************)
(* A name is read, by an index or as it is, and makes nothing come out.    *)
(***************************************************************************)
Naming(h, i, indexing) ==
  IF i = 0 THEN <<[kind |-> "newname", indexing |-> indexing], [kind |-> "name", name |-> h.name]>>
  ELSE <<[kind |-> "indname", index |-> i, indexing |-> indexing]>>

Named(f, h, i, mode, u, x) ==
  \E g \in Inflaters :
    /\ ~g.bad /\ g.state = "value" /\ g.name = h.name /\ g.indexing = (mode = "with")
    /\ g.ctx = f.ctx /\ g.min = f.min /\ g.max = f.max
    /\ Naming(h, i, mode = "with") \in Seq(Elements)
    /\ Path(Receiver(f, u, x), Naming(h, i, mode = "with"), Receiver(g, u, x))

LEMMA NameRead ==
  ASSUME NEW f \in Inflaters, ~f.bad, f.state \in {"start", "opcode"}, NEW h \in H!Headers,
         NEW i, i # 0 => Known(f.ctx, i) /\ H!Get(f.ctx, i).name = h.name, NEW mode,
         NEW u \in Seq(SizeLists), NEW x \in Seq(H!Headers)
  PROVE  Named(f, h, i, mode, u, x)
<1> DEFINE b == mode = "with"
           g == [f EXCEPT !.state = "value", !.indexing = b, !.name = h.name]
<1>1. b \in BOOLEAN /\ h.name \in HeaderNames
  BY DEF H!Headers
<1> HIDE DEF b
<1>2. /\ g \in Inflaters /\ g.bad = f.bad /\ g.state = "value" /\ g.name = h.name /\ g.indexing = b
      /\ g.ctx = f.ctx /\ g.min = f.min /\ g.max = f.max
  BY <1>1 DEF Inflaters
<1> HIDE DEF g
<1>3. CASE i = 0
  <2> DEFINE e == [kind |-> "newname", indexing |-> b]
             v == [f EXCEPT !.state = "name", !.indexing = b]
             e2 == [kind |-> "name", name |-> h.name]
  <2>1. e \in Elements /\ e.kind = "newname" /\ e.indexing = b
    BY <1>1 DEF Elements
  <2>2. e2 \in Elements /\ e2.kind = "name" /\ e2.name = h.name
    BY <1>1 DEF Elements
  <2>3. v \in Inflaters /\ v.bad = f.bad
    BY <1>1 DEF Inflaters
  <2> HIDE DEF e, e2, v
  <2>4. H!Read(f, e) = v /\ H!Emitted(f, e) = <<>>
    <3>1. H!Read(f, e) = H!ReadOpcode(f, e)
      BY <2>1 DEF H!Read
    <3>2. H!ReadOpcode(f, e) = [f EXCEPT !.state = "name", !.indexing = b]
      BY <2>1 DEF H!ReadOpcode
    <3>3. H!Emitted(f, e) = <<>>
      BY <2>1 DEF H!Emitted
    <3> QED  BY <3>1, <3>2, <3>3 DEF v
  <2>5. H!Read(v, e2) = g /\ H!Emitted(v, e2) = <<>>
    <3>1. H!Read(v, e2) = [v EXCEPT !.state = "value", !.name = h.name]
      BY <2>2 DEF H!Read
    <3> DEFINE q == [v EXCEPT !.state = "value", !.name = h.name]
    <3>2. q = [v EXCEPT !.state = "value", !.name = h.name]
      OBVIOUS
    <3> HIDE DEF q
    <3>3. q = g
      BY <1>1, <2>3, <3>2 DEF Inflaters, v, g
    <3>4. H!Emitted(v, e2) = <<>>
      BY <2>2 DEF H!Emitted
    <3> QED  BY <3>1, <3>2, <3>3, <3>4
  <2>6. Waits(Receiver(f, u, x)) /\ Waits(Receiver(v, u, x)) /\ Waits(Receiver(g, u, x))
    BY ReceiverWaits
  <2>7. /\ Receiver(f, u, x).f = f /\ Receiver(f, u, x).u = u /\ Receiver(f, u, x).x = x
        /\ Receiver(v, u, x).f = v /\ Receiver(v, u, x).u = u /\ Receiver(v, u, x).x = x
        /\ Receiver(g, u, x).f = g /\ Receiver(g, u, x).u = u /\ Receiver(g, u, x).x = x
    BY DEF Receiver
  <2>8. /\ Reads(Receiver(f, u, x), e, Receiver(v, u, x))
        /\ Reads(Receiver(v, u, x), e2, Receiver(g, u, x))
    BY <1>2, <2>1, <2>2, <2>3, <2>4, <2>5, <2>7 DEF Reads
  <2>9. <<e>> \in Seq(Elements) /\ Path(Receiver(f, u, x), <<e>>, Receiver(v, u, x))
    BY <2>1, <2>6, <2>8, PathOne
  <2>10. /\ Append(<<e>>, e2) \in Seq(Elements)
         /\ Path(Receiver(f, u, x), Append(<<e>>, e2), Receiver(g, u, x))
    BY <2>2, <2>6, <2>8, <2>9, PathAppended
  <2>11. Append(<<e>>, e2) = <<e, e2>>
    <3> DEFINE q == Append(<<e>>, e2)
               p == <<e, e2>>
    <3>1. q \in Seq(Elements) /\ Len(q) = 2 /\ q[1] = e /\ q[2] = e2
      BY <2>1, <2>2
    <3>2. p \in Seq(Elements) /\ Len(p) = 2 /\ p[1] = e /\ p[2] = e2
      BY <2>1, <2>2
    <3> HIDE DEF p, q
    <3>3. \A k \in 1 .. 2 : k = 1 \/ k = 2
      OBVIOUS
    <3>4. q = p
      BY <3>1, <3>2, <3>3, SeqEqual
    <3> QED  BY <3>4 DEF p, q
  <2>12. Naming(h, i, mode = "with") = <<e, e2>>
    BY <1>3 DEF Naming, e, e2, b
  <2> QED  BY <1>2, <2>10, <2>11, <2>12 DEF b, Named
<1>4. CASE i # 0
  <2> DEFINE e == [kind |-> "indname", index |-> i, indexing |-> b]
  <2>1. e \in Elements
    <3>1. i \in Nat
      <4>1. Len(StaticTable) + Len(f.ctx.table) \in Int
        <5>1. f.ctx.table \in Seq(TableEntries) /\ StaticTable \in Seq(H!Headers)
          BY SizesAre DEF Inflaters, Contexts
        <5> QED  BY <5>1
      <4> QED  BY <1>4, <4>1 DEF Known
    <3> QED  BY <1>1, <3>1 DEF Elements
  <2>2. e.kind = "indname" /\ e.index = i /\ e.indexing = b
    OBVIOUS
  <2> HIDE DEF e
  <2>3. H!Read(f, e) = g /\ H!Emitted(f, e) = <<>>
    <3>1. H!Read(f, e) = H!ReadOpcode(f, e)
      BY <2>2 DEF H!Read
    <3>2. H!ValidIndex(f, e.index)
      BY <1>4, <2>2 DEF Known, H!ValidIndex
    <3>3. H!ReadOpcode(f, e) = [f EXCEPT !.state = "value", !.indexing = b, !.name = h.name]
      BY <1>4, <2>2, <3>2 DEF H!ReadOpcode
    <3>4. H!Emitted(f, e) = <<>>
      BY <2>2 DEF H!Emitted
    <3> QED  BY <3>1, <3>3, <3>4 DEF g
  <2>4. Waits(Receiver(f, u, x)) /\ Waits(Receiver(g, u, x))
    BY ReceiverWaits
  <2>5. /\ Receiver(f, u, x).f = f /\ Receiver(f, u, x).u = u /\ Receiver(f, u, x).x = x
        /\ Receiver(g, u, x).f = g /\ Receiver(g, u, x).u = u /\ Receiver(g, u, x).x = x
    BY DEF Receiver
  <2>6. Reads(Receiver(f, u, x), e, Receiver(g, u, x))
    BY <1>2, <2>2, <2>3, <2>5 DEF Reads
  <2>7. <<e>> \in Seq(Elements) /\ Path(Receiver(f, u, x), <<e>>, Receiver(g, u, x))
    BY <2>1, <2>4, <2>6, PathOne
  <2>8. Naming(h, i, mode = "with") = <<e>>
    BY <1>4 DEF Naming, e, b
  <2> QED  BY <1>2, <2>7, <2>8 DEF b, Named
<1> QED  BY <1>3, <1>4

(***************************************************************************)
(* With its value the header comes out, and takes its place                *)
(* (hd_inflate_commit_indname, hd_inflate_commit_newname).                 *)
(***************************************************************************)
LEMMA ValueRead ==
  ASSUME NEW f \in Inflaters, ~f.bad, f.state = "value", NEW h \in H!Headers, f.name = h.name,
         TableOk(f.ctx), NEW u \in Seq(SizeLists), NEW x \in Seq(H!Headers)
  PROVE  LET e == [kind |-> "value", value |-> h.value]
             g == H!Commit(f, h) IN
         /\ e \in Elements /\ g \in Inflaters /\ ~g.bad /\ g.state = "opcode"
         /\ g.ctx = (IF f.indexing THEN H!Added(f.ctx, h) ELSE f.ctx)
         /\ g.min = f.min /\ g.max = f.max
         /\ Reads(Receiver(f, u, <<h>> \o x), e, Receiver(g, u, x))
         /\ Waits(Receiver(f, u, <<h>> \o x)) /\ Waits(Receiver(g, u, x))
<1> DEFINE e == [kind |-> "value", value |-> h.value]
           c == IF f.indexing THEN H!Added(f.ctx, h) ELSE f.ctx
           g == H!Commit(f, h)
           y == <<h>> \o x
<1>1. e \in Elements /\ e.kind = "value" /\ e.value = h.value
  BY DEF Elements, H!Headers
<1>2. c \in Contexts
  <2>1. TableOk(H!Added(f.ctx, h))
    BY AddedOk
  <2> QED  BY <2>1 DEF TableOk
<1>3. g = [f EXCEPT !.state = "opcode", !.name = <<>>, !.ctx = c]
  BY DEF H!Commit
<1> HIDE DEF c, g, e
<1>4. /\ g \in Inflaters /\ g.bad = f.bad /\ g.state = "opcode" /\ g.ctx = c /\ g.min = f.min
      /\ g.max = f.max
  BY <1>2, <1>3 DEF Inflaters
<1>5. y \in Seq(H!Headers) /\ y # <<>> /\ Head(y) = h /\ Tail(y) = x
  <2>1. <<h>> \in Seq(H!Headers) /\ <<h>> # <<>> /\ Head(<<h>>) = h /\ Tail(<<h>>) = <<>>
    OBVIOUS
  <2>2. /\ y # <<>> /\ Head(y) = Head(<<h>>) /\ Tail(y) = Tail(<<h>>) \o x
    BY <2>1, HeadOfConcat
  <2>3. Tail(<<h>>) \o x = x
    BY <2>1, ConcatEmptySeq
  <2> QED  BY <2>1, <2>2, <2>3
<1> HIDE DEF y
<1>6. [name |-> f.name, value |-> h.value] = h
  <2> DEFINE q == [name |-> h.name, value |-> h.value]
  <2>1. q = h
    BY DEF H!Headers
  <2> QED  BY <2>1
<1>7. H!Read(f, e) = g /\ H!Emitted(f, e) = <<h>>
  <2>1. H!Read(f, e) = H!Commit(f, [name |-> f.name, value |-> e.value])
    BY <1>1 DEF H!Read
  <2>2. H!Emitted(f, e) = <<[name |-> f.name, value |-> e.value]>>
    BY <1>1 DEF H!Emitted
  <2> QED  BY <1>1, <1>6, <2>1, <2>2 DEF g
<1>8. Reads(Receiver(f, u, y), e, Receiver(g, u, x))
  <2>1. Head(<<h>>) = h /\ <<h>> # <<>>
    OBVIOUS
  <2>2. /\ Receiver(f, u, y).f = f /\ Receiver(f, u, y).u = u /\ Receiver(f, u, y).x = y
        /\ Receiver(g, u, x).f = g /\ Receiver(g, u, x).u = u /\ Receiver(g, u, x).x = x
    BY DEF Receiver
  <2> QED  BY <1>1, <1>4, <1>5, <1>7, <2>1, <2>2 DEF Reads
<1>9. Waits(Receiver(f, u, y)) /\ Waits(Receiver(g, u, x))
  BY <1>5, ReceiverWaits
<1> QED  BY <1>1, <1>4, <1>8, <1>9 DEF e, g, y, c

(***************************************************************************)
(* One more header of a block: it comes out as it went in, and the tables  *)
(* stay alike (deflate_nv, nghttp2_hd_inflate_hd_nv).                      *)
(***************************************************************************)
LEMMA HeaderRead ==
  ASSUME NEW f, NEW acc, AgreeWithin(f, acc.d), NEW h \in H!Headers,
         NEW u \in Seq(SizeLists), NEW x \in Seq(H!Headers)
  PROVE  \E more \in Seq(Elements) : \E g :
           /\ H!Deflated(acc, h).out = acc.out \o more /\ AgreeWithin(g, H!Deflated(acc, h).d)
           /\ Path(Receiver(f, u, <<h>> \o x), more, Receiver(g, u, x))
<1> DEFINE d == acc.d
           mode == H!Mode(d, h)
           r == H!Searched(d, h, mode = "never")
           new == H!Deflated(acc, h)
           value == [kind |-> "value", value |-> h.value]
           indexed == [kind |-> "indexed", index |-> r.index]
           naming == Naming(h, r.index, mode = "with")
           kept == IF mode = "with" /\ ~r.match THEN H!WithTable(d, H!Added(d.ctx, h)) ELSE d
           taken == IF r.match THEN <<indexed>> ELSE Append(naming, value)
<1>1. new = [d |-> kept, out |-> acc.out \o taken]
  BY DEF H!Deflated, Naming
<1>2. /\ DeflaterOk(d) /\ f \in Inflaters /\ ~f.bad /\ f.state \in {"start", "opcode"}
      /\ f.ctx = d.ctx /\ d.ctx.size <= d.ctx.max /\ d.ctx.max = H!Lesser(f.max, DefaultSize)
      /\ d.min = NoSize /\ ~d.notify /\ f.min = NoSize
  BY DEF AgreeWithin
<1> HIDE DEF d, mode
<1>3. /\ r.match \in BOOLEAN
      /\ r.match => Known(f.ctx, r.index) /\ H!Get(f.ctx, r.index) = h
      /\ r.index # 0 => Known(f.ctx, r.index) /\ H!Get(f.ctx, r.index).name = h.name
  <2>1. LET found == H!Searched(d, h, mode = "never") IN
        /\ found.match \in BOOLEAN
        /\ found.match => Known(d.ctx, found.index) /\ H!Get(d.ctx, found.index) = h
        /\ found.index # 0 => Known(d.ctx, found.index) /\ H!Get(d.ctx, found.index).name = h.name
        /\ found.match => found.index # 0
    BY <1>2, SearchedIs, Zenon
  <2> QED  BY <1>2, <2>1, Zenon
<1> HIDE DEF r, value, indexed, naming, kept, taken
<1>4. new.d = kept /\ new.out = acc.out \o taken
  <2> HIDE DEF new
  <2> QED  BY <1>1
<1> HIDE DEF new
<1>5. CASE r.match
  <2> DEFINE g == [f EXCEPT !.state = "opcode"]
  <2>1. /\ g \in Inflaters /\ ~g.bad /\ g.state = "opcode"
        /\ g.ctx = f.ctx /\ g.min = f.min /\ g.max = f.max
        /\ <<indexed>> \in Seq(Elements)
        /\ Path(Receiver(f, u, <<h>> \o x), <<indexed>>, Receiver(g, u, x))
    BY <1>2, <1>3, <1>5, IndexedRead DEF indexed
  <2>2. kept = d /\ taken = <<indexed>>
    BY <1>5 DEF kept, taken
  <2> HIDE DEF g
  <2>3. AgreeWithin(g, d)
    BY <1>2, <2>1 DEF AgreeWithin
  <2> QED  BY <1>4, <2>1, <2>2, <2>3 DEF new
<1>6. CASE ~r.match
  <2> DEFINE y == <<h>> \o x
  <2>1. y \in Seq(H!Headers) /\ <<h>> \in Seq(H!Headers)
    OBVIOUS
  <2> HIDE DEF y
  <2>2. PICK v \in Inflaters :
           /\ ~v.bad /\ v.state = "value" /\ v.name = h.name /\ v.indexing = (mode = "with")
           /\ v.ctx = f.ctx /\ v.min = f.min /\ v.max = f.max
           /\ naming \in Seq(Elements)
           /\ Path(Receiver(f, u, y), naming, Receiver(v, u, y))
    <3>1. r.index # 0 => Known(f.ctx, r.index) /\ H!Get(f.ctx, r.index).name = h.name
      BY <1>3
    <3>2. Named(f, h, r.index, mode, u, y)
      BY <1>2, <2>1, <3>1, NameRead
    <3> QED  BY <3>2 DEF naming, Named
  <2> DEFINE g == H!Commit(v, h)
             c == IF v.indexing THEN H!Added(v.ctx, h) ELSE v.ctx
  <2>3. TableOk(d.ctx)
    BY <1>2 DEF DeflaterOk
  <2>4. /\ value \in Elements /\ g \in Inflaters /\ ~g.bad /\ g.state = "opcode"
        /\ g.ctx = c /\ g.min = f.min /\ g.max = f.max
        /\ Reads(Receiver(v, u, y), value, Receiver(g, u, x)) /\ Waits(Receiver(g, u, x))
    BY <1>2, <2>2, <2>3, ValueRead DEF value, y
  <2> HIDE DEF g
  <2>5. /\ Append(naming, value) \in Seq(Elements)
        /\ Path(Receiver(f, u, y), Append(naming, value), Receiver(g, u, x))
    BY <2>2, <2>4, PathAppended
  <2>6. taken = Append(naming, value)
    BY <1>6 DEF taken
  <2>7. AgreeWithin(g, kept)
    <3>1. CASE mode = "with"
      <4>1. kept = H!WithTable(d, c) /\ c = H!Added(d.ctx, h)
        BY <1>2, <1>6, <2>2, <3>1 DEF kept
      <4>2. TableOk(c) /\ c.size <= c.max /\ c.max = d.ctx.max
        BY <2>3, <4>1, AddedOk
      <4> HIDE DEF c
      <4>3. /\ DeflaterOk(kept) /\ kept.ctx = c /\ kept.min = d.min /\ kept.notify = d.notify
        BY <1>2, <4>1, <4>2, WithTableOk DEF DeflaterOk
      <4> QED  BY <1>2, <2>4, <4>2, <4>3 DEF AgreeWithin
    <3>2. CASE mode # "with"
      <4>1. kept = d /\ c = d.ctx
        BY <1>2, <2>2, <3>2 DEF kept
      <4> HIDE DEF c
      <4> QED  BY <1>2, <2>4, <4>1 DEF AgreeWithin
    <3> QED  BY <3>1, <3>2
  <2> QED  BY <1>4, <2>5, <2>6, <2>7 DEF new, y
<1> QED  BY <1>3, <1>5, <1>6

LEMMA HeadersRead ==
  ASSUME NEW f, NEW start, AgreeWithin(f, start.d), start.out \in Seq(Elements),
         NEW list \in Seq(H!Headers), NEW u \in Seq(SizeLists)
  PROVE  \E more \in Seq(Elements) : \E g :
           /\ H!Compressed(start, list).out = start.out \o more
           /\ AgreeWithin(g, H!Compressed(start, list).d)
           /\ Path(Receiver(f, u, list), more, Receiver(g, u, <<>>))
<1> DEFINE n == Len(list)
           left(k) == SubSeq(list, k + 1, n)
<1>1. n \in Nat
  OBVIOUS
<1>2. PICK a : /\ a[0] = start /\ a[n] = H!Compressed(start, list)
               /\ \A k \in 1 .. n : a[k] = H!Deflated(a[k - 1], list[k])
  <2>1. Len(list) \in Nat
    OBVIOUS
  <2>2. \E g : /\ g[0] = start /\ g[Len(list)] = H!Compressed(start, list)
               /\ \A k \in 1 .. Len(list) : g[k] = H!Deflated(g[k - 1], list[k])
    BY <2>1, CompressedSteps
  <2> QED  BY <2>2
<1> DEFINE Done(k) == \E more \in Seq(Elements) : \E g :
                        /\ a[k].out = start.out \o more /\ AgreeWithin(g, a[k].d)
                        /\ Path(Receiver(f, u, list), more, Receiver(g, u, left(k)))
           T == {k \in 0 .. n : ~ Done(k)}
<1>3. Done(0)
  <2>1. left(0) = list
    BY SubSeqFull
  <2>2. Path(Receiver(f, u, list), <<>>, Receiver(f, u, list))
    BY ReceiverWaits, PathEmpty
  <2>3. <<>> \in Seq(Elements) /\ start.out \o <<>> = start.out
    BY ConcatEmptySeq
  <2> HIDE DEF left
  <2> QED  BY <1>2, <2>1, <2>2, <2>3
<1>4. ASSUME NEW k \in 1 .. n, Done(k - 1) PROVE Done(k)
  <2>1. PICK p \in Seq(Elements) : \E v :
           /\ a[k - 1].out = start.out \o p /\ AgreeWithin(v, a[k - 1].d)
           /\ Path(Receiver(f, u, list), p, Receiver(v, u, left(k - 1)))
    BY <1>4
  <2>11. PICK g :
           /\ a[k - 1].out = start.out \o p /\ AgreeWithin(g, a[k - 1].d)
           /\ Path(Receiver(f, u, list), p, Receiver(g, u, left(k - 1)))
    BY <2>1
  <2>2. left(k - 1) = <<list[k]>> \o left(k) /\ left(k) \in Seq(H!Headers) /\ list[k] \in H!Headers
    <3>1. k - 1 + 1 = k /\ k \in 1 .. n /\ n \in 1 .. n + 1 /\ k <= n
      BY <1>1
    <3>2. list[k] \in H!Headers
      BY <3>1
    <3>3. left(k) \in Seq(H!Headers)
      <4>1. \A i \in k + 1 .. n : list[i] \in H!Headers
        BY <1>1
      <4> QED  BY <1>1, <4>1, SubSeqProperties
    <3>4. SubSeq(list, k, n) = <<list[k]>> \o SubSeq(list, k + 1, n)
      <4>1. k \in 1 .. Len(list) + 1 /\ n \in 0 .. Len(list) /\ k <= n
        BY <1>1
      <4> QED  BY <4>1, SubSeqRecursiveFirst
    <3> QED  BY <3>1, <3>2, <3>3, <3>4
  <2> HIDE DEF left, n
  <2> DEFINE acc == a[k - 1]
             rest == left(k)
  <2>3. \E q \in Seq(Elements) : \E v :
           /\ H!Deflated(acc, list[k]).out = acc.out \o q
           /\ AgreeWithin(v, H!Deflated(acc, list[k]).d)
           /\ Path(Receiver(g, u, <<list[k]>> \o rest), q, Receiver(v, u, rest))
    <3>1. AgreeWithin(g, acc.d)
      BY <2>11
    <3> HIDE DEF acc, rest
    <3>2. list[k] \in H!Headers /\ rest \in Seq(H!Headers)
      BY <2>2 DEF rest
    <3> QED  BY <3>1, <3>2, HeaderRead
  <2>4. a[k] = H!Deflated(acc, list[k])
    BY <1>2
  <2>5. PICK q \in Seq(Elements) : \E v :
           /\ a[k].out = acc.out \o q /\ AgreeWithin(v, a[k].d)
           /\ Path(Receiver(g, u, <<list[k]>> \o rest), q, Receiver(v, u, rest))
    <3> HIDE DEF acc, rest
    <3> QED  BY <2>3, <2>4
  <2>6. PICK v :
           /\ a[k].out = acc.out \o q /\ AgreeWithin(v, a[k].d)
           /\ Path(Receiver(g, u, <<list[k]>> \o rest), q, Receiver(v, u, rest))
    BY <2>5
  <2>7. Path(Receiver(f, u, list), p, Receiver(g, u, <<list[k]>> \o rest))
    BY <2>2, <2>11
  <2>8. Path(Receiver(f, u, list), p \o q, Receiver(v, u, rest))
    <3> HIDE DEF rest, acc
    <3> QED  BY <2>6, <2>7, PathJoined
  <2>9. a[k].out = start.out \o (p \o q) /\ p \o q \in Seq(Elements)
    <3>1. (start.out \o p) \o q = start.out \o (p \o q)
      <4> DEFINE before == start.out
      <4>1. before \in Seq(Elements)
        OBVIOUS
      <4> HIDE DEF before
      <4>2. (before \o p) \o q = before \o (p \o q)
        BY <4>1, ConcatAssociative
      <4> QED  BY <4>2 DEF before
    <3>2. p \o q \in Seq(Elements)
      BY ConcatProperties
    <3> QED  BY <2>6, <2>11, <3>1, <3>2
  <2> HIDE DEF acc
  <2> QED  BY <2>6, <2>8, <2>9
<1> HIDE DEF Done
<1>5. T = {}
  <2>1. SUFFICES ASSUME T # {} PROVE FALSE
    OBVIOUS
  <2>2. PICK m \in T : \A i \in T : m <= i
    <3>1. T \subseteq Nat
      OBVIOUS
    <3> HIDE DEF T
    <3> QED  BY <2>1, <3>1, LeastExists
  <2>3. m # 0 /\ m \in 0 .. n /\ ~ Done(m)
    BY <1>3, <2>2
  <2>4. m \in 1 .. n /\ m - 1 \in 0 .. n /\ ~ (m <= m - 1)
    BY <1>1, <2>3
  <2>5. Done(m - 1)
    <3>1. m - 1 \notin T
      <4> HIDE DEF T
      <4> QED  BY <2>2, <2>4
    <3> QED  BY <2>4, <3>1
  <2> QED  BY <1>4, <2>3, <2>4, <2>5
<1>6. Done(n)
  <2>1. n \in 0 .. n
    BY <1>1
  <2> QED  BY <1>5, <2>1
<1>7. left(n) = <<>>
  <2>1. n + 1 > n
    BY <1>1
  <2>2. left(n) = SubSeq(list, n + 1, n)
    OBVIOUS
  <2> QED  BY <1>1, <2>1, <2>2
<1> HIDE DEF left, n
<1> QED  BY <1>2, <1>6, <1>7 DEF Done

LEMMA EndRead ==
  ASSUME NEW f, NEW d, AgreeWithin(f, d), NEW u \in Seq(SizeLists)
  PROVE  LET e == [kind |-> "end"] IN
         /\ e \in Elements /\ Agree(H!Ended(f), d)
         /\ Reads(Receiver(f, u, <<>>), e, Receiver(H!Ended(f), u, <<>>))
         /\ Waits(Receiver(H!Ended(f), u, <<>>))
<1> DEFINE g == [f EXCEPT !.state = "start"]
           e == [kind |-> "end"]
<1>1. /\ DeflaterOk(d) /\ f \in Inflaters /\ ~f.bad /\ f.state \in {"start", "opcode"}
      /\ f.ctx = d.ctx /\ d.ctx.size <= d.ctx.max /\ d.ctx.max = H!Lesser(f.max, DefaultSize)
      /\ d.min = NoSize /\ ~d.notify /\ f.min = NoSize
  BY DEF AgreeWithin
<1>2. H!Ended(f) = g
  BY <1>1 DEF H!Ended
<1>3. /\ g \in Inflaters /\ g.bad = f.bad /\ g.state = "start" /\ g.ctx = f.ctx /\ g.min = f.min
      /\ g.max = f.max
  BY <1>1 DEF Inflaters
<1>4. /\ d.ctx \in Contexts /\ d.ctx.max \in Nat /\ d.ctx.size \in Nat /\ d.notify = FALSE
  BY <1>1 DEF DeflaterOk, Deflaters, Contexts
<1>5. d.ctx.max <= DefaultSize /\ d.ctx.size <= NoSize
  BY <1>1, <1>4, SizesAre DEF H!Lesser, Inflaters
<1> HIDE DEF g
<1>6. g.ctx = [d.ctx EXCEPT !.max = g.ctx.max]
  BY <1>1, <1>3, <1>4 DEF Contexts
<1>7. Agree(g, d)
  BY <1>1, <1>3, <1>4, <1>5, <1>6 DEF Agree
<1>8. e \in Elements /\ e.kind = "end"
  BY DEF Elements
<1> HIDE DEF e
<1>9. <<>> \in Seq(H!Headers)
  OBVIOUS
<1>10. Waits(Receiver(g, u, <<>>)) /\ Reads(Receiver(f, u, <<>>), e, Receiver(g, u, <<>>))
  <2>1. Waits(Receiver(g, u, <<>>))
    BY <1>9, ReceiverWaits
  <2>2. /\ Receiver(f, u, <<>>).f = f /\ Receiver(f, u, <<>>).u = u /\ Receiver(f, u, <<>>).x = <<>>
        /\ Receiver(g, u, <<>>).f = g /\ Receiver(g, u, <<>>).u = u /\ Receiver(g, u, <<>>).x = <<>>
    BY DEF Receiver
  <2> QED  BY <1>1, <1>2, <1>3, <1>8, <2>1, <2>2 DEF Reads
<1> QED  BY <1>2, <1>7, <1>8, <1>10 DEF e

(***************************************************************************)
(* A block, read from where everything before it has been read.            *)
(***************************************************************************)
LEMMA BlockRead ==
  ASSUME NEW f, NEW d, Agree(f, d), NEW list \in Seq(H!Headers), NEW u \in Seq(SizeLists)
  PROVE  LET e == [d EXCEPT !.notify = FALSE, !.min = NoSize]
             r == H!Compressed([d |-> e, out |-> H!Updates(d)], list)
             q == Append(r.out, [kind |-> "end"]) IN
         /\ q \in Seq(Elements)
         /\ \E g : Agree(g, r.d) /\ Path(Receiver(f, u, list), q, Receiver(g, u, <<>>))
<1> DEFINE e == [d EXCEPT !.notify = FALSE, !.min = NoSize]
           start == [d |-> e, out |-> H!Updates(d)]
           r == H!Compressed(start, list)
           end == [kind |-> "end"]
<1>1. /\ H!Updates(d) \in Seq(Elements)
      /\ \E g : AgreeWithin(g, e) /\ Path(Receiver(f, u, list), H!Updates(d), Receiver(g, u, list))
  BY UpdatesRead
<1>2. PICK g : AgreeWithin(g, e) /\ Path(Receiver(f, u, list), H!Updates(d), Receiver(g, u, list))
  BY <1>1
<1> HIDE DEF e
<1>3. start.d = e /\ start.out = H!Updates(d)
  OBVIOUS
<1> HIDE DEF start
<1>4. PICK more \in Seq(Elements) : \E h :
           /\ r.out = start.out \o more /\ AgreeWithin(h, r.d)
           /\ Path(Receiver(g, u, list), more, Receiver(h, u, <<>>))
  BY <1>1, <1>2, <1>3, HeadersRead
<1>41. PICK h :
           /\ r.out = start.out \o more /\ AgreeWithin(h, r.d)
           /\ Path(Receiver(g, u, list), more, Receiver(h, u, <<>>))
  BY <1>4
<1> HIDE DEF r
<1>5. r.out \in Seq(Elements) /\ Path(Receiver(f, u, list), r.out, Receiver(h, u, <<>>))
  <2>1. r.out = H!Updates(d) \o more
    BY <1>3, <1>41
  <2>2. H!Updates(d) \o more \in Seq(Elements)
    BY <1>1
  <2> QED  BY <1>1, <1>2, <1>41, <2>1, <2>2, PathJoined
<1>6. /\ end \in Elements /\ Agree(H!Ended(h), r.d)
      /\ Reads(Receiver(h, u, <<>>), end, Receiver(H!Ended(h), u, <<>>))
      /\ Waits(Receiver(H!Ended(h), u, <<>>))
  BY <1>41, EndRead
<1> HIDE DEF end
<1>7. /\ Append(r.out, end) \in Seq(Elements)
      /\ Path(Receiver(f, u, list), Append(r.out, end), Receiver(H!Ended(h), u, <<>>))
  BY <1>5, <1>6, PathAppended
<1> QED  BY <1>6, <1>7 DEF r, start, e, end

-----------------------------------------------------------------------------
(* Headers: the size of the table changes                                  *)

LEMMA LesserIs ==
  ASSUME NEW a \in Nat, NEW b \in Nat
  PROVE  /\ H!Lesser(a, b) \in Nat /\ H!Lesser(a, b) <= a /\ H!Lesser(a, b) <= b
         /\ a <= b => H!Lesser(a, b) = a
         /\ b <= a => H!Lesser(a, b) = b
BY DEF H!Lesser

LEMMA ResizedIs ==
  ASSUME NEW d, DeflaterOk(d), NEW n \in Nat
  PROVE  LET size == H!Lesser(n, DefaultSize) IN
         /\ DeflaterOk(H!Resized(d, n)) /\ H!Resized(d, n).notify
         /\ H!Resized(d, n).ctx = [H!Shrunk(d.ctx, size) EXCEPT !.max = size]
         /\ H!Resized(d, n).min = H!Lesser(d.min, size)
<1> DEFINE size == H!Lesser(n, DefaultSize)
           c == H!Shrunk([d.ctx EXCEPT !.max = size], size)
           b == H!WithTable(d, c)
           r == H!Resized(d, n)
<1>1. size \in Nat
  BY LesserIs, SizesAre
<1>2. r = [b EXCEPT !.min = H!Lesser(@, size), !.notify = TRUE]
  BY DEF H!Resized
<1> HIDE DEF size
<1>3. TableOk(d.ctx) /\ d \in Deflaters /\ d.min \in Nat
  BY DEF DeflaterOk, Deflaters
<1>4. TableOk([d.ctx EXCEPT !.max = size]) /\ c = [H!Shrunk(d.ctx, size) EXCEPT !.max = size]
  BY <1>1, <1>3, ShrunkMax
<1>5. TableOk(c)
  <2> DEFINE e == [d.ctx EXCEPT !.max = size]
  <2> HIDE DEF e
  <2>1. TableOk(e)
    BY <1>4 DEF e
  <2>2. TableOk(H!Shrunk(e, size))
    BY <1>1, <2>1, ShrunkOk
  <2> QED  BY <2>2 DEF e
<1> HIDE DEF c
<1>6. DeflaterOk(b) /\ b.ctx = c /\ b.min = d.min /\ b.notify = d.notify
  BY <1>3, <1>5, WithTableOk
<1> HIDE DEF b, r
<1>7. H!Lesser(b.min, size) \in Nat
  BY <1>1, <1>3, <1>6, LesserIs
<1>8. b \in Deflaters
  BY <1>6 DEF DeflaterOk
<1>9. /\ r \in Deflaters /\ r.ctx = b.ctx /\ r.map = b.map /\ r.notify = TRUE
      /\ r.min = H!Lesser(b.min, size)
  <2> DEFINE m == H!Lesser(b.min, size)
  <2>1. r = [b EXCEPT !.min = m, !.notify = TRUE]
    BY <1>2, <1>8 DEF Deflaters
  <2> HIDE DEF m
  <2>2. m \in Nat
    BY <1>7 DEF m
  <2> QED  BY <1>8, <2>1, <2>2 DEF Deflaters, m
<1>10. DeflaterOk(r)
  BY <1>6, <1>9 DEF DeflaterOk
<1> QED  BY <1>4, <1>6, <1>9, <1>10 DEF r, size

LEMMA ShrunkLess ==
  ASSUME NEW c, TableOk(c), NEW limit \in Nat
  PROVE  H!Shrunk(c, limit).size <= c.size
<1>1. c.size \in Nat
  BY DEF TableOk, Contexts
<1>2. CASE c.size <= limit
  <2>1. H!Shrunk(c, limit) = c
    BY <1>2, ShrunkFits
  <2> QED  BY <1>1, <2>1
<1>3. CASE ~ (c.size <= limit)
  <2> DEFINE d == H!Shrunk(c, limit)
  <2>1. TableOk(d) /\ d.size <= limit
    BY ShrunkOk
  <2> HIDE DEF d
  <2>2. d.size \in Nat
    BY <2>1 DEF TableOk, Contexts
  <2>3. d.size <= c.size
    BY <1>1, <1>3, <2>1, <2>2
  <2> QED  BY <2>3 DEF d
<1> QED  BY <1>2, <1>3

\* After sizes whose least is n
Lessened(d, e, n, max) ==
  /\ DeflaterOk(e) /\ e.notify /\ e.min = H!Lesser(d.min, n)
  /\ e.ctx = [H!Shrunk(d.ctx, n) EXCEPT !.max = max]

LEMMA LessenedAgain ==
  ASSUME NEW d, DeflaterOk(d), NEW e, NEW n \in Nat, NEW max \in Nat, Lessened(d, e, n, max),
         NEW next \in Nat
  PROVE  LET size == H!Lesser(next, DefaultSize) IN
         Lessened(d, H!Resized(e, next), H!Lesser(n, size), size)
<1> DEFINE size == H!Lesser(next, DefaultSize)
           r == H!Resized(e, next)
           c == d.ctx
           s == H!Shrunk(c, n)
           least == H!Lesser(n, size)
<1>1. size \in Nat
  BY LesserIs, SizesAre
<1>2. DeflaterOk(e) /\ e.min = H!Lesser(d.min, n) /\ e.ctx = [s EXCEPT !.max = max]
  BY DEF Lessened
<1>3. /\ DeflaterOk(r) /\ r.notify /\ r.ctx = [H!Shrunk(e.ctx, size) EXCEPT !.max = size]
      /\ r.min = H!Lesser(e.min, size)
  BY <1>2, ResizedIs
<1> HIDE DEF size, r
<1>4. TableOk(c) /\ d.min \in Nat
  BY DEF DeflaterOk, Deflaters
<1>5. least \in Nat /\ (n <= size => least = n) /\ (size <= n => least = size)
  BY <1>1, LesserIs
<1> HIDE DEF c, least
<1>6. TableOk(s) /\ s.size <= n
  BY <1>4, ShrunkOk
<1>7. H!Shrunk(s, size) = H!Shrunk(c, least)
  <2>1. CASE size <= n
    BY <1>1, <1>4, <1>5, <2>1, ShrunkTwice
  <2>2. CASE ~ (size <= n)
    <3>1. n <= size /\ s.size \in Nat
      BY <1>1, <1>6, <2>2 DEF TableOk, Contexts
    <3>2. s.size <= size
      <4> HIDE DEF s
      <4> QED  BY <1>1, <1>6, <3>1
    <3>3. H!Shrunk(s, size) = s
      <4> HIDE DEF s
      <4> QED  BY <1>1, <1>6, <3>2, ShrunkFits
    <3> QED  BY <1>5, <3>1, <3>3
  <2> QED  BY <2>1, <2>2
<1> HIDE DEF s
<1>8. H!Shrunk(e.ctx, size) = [H!Shrunk(s, size) EXCEPT !.max = max]
  BY <1>1, <1>2, <1>6, ShrunkMax
<1>9. r.ctx = [H!Shrunk(c, least) EXCEPT !.max = size]
  <2> DEFINE z == H!Shrunk(c, least)
  <2>1. r.ctx = [[z EXCEPT !.max = max] EXCEPT !.max = size]
    BY <1>3, <1>7, <1>8
  <2>2. z \in Contexts
    <3>1. TableOk(z)
      BY <1>4, <1>5, ShrunkOk
    <3> QED  BY <3>1 DEF TableOk
  <2> DEFINE y == [[z EXCEPT !.max = max] EXCEPT !.max = size]
             v == [z EXCEPT !.max = size]
  <2>3. y = v
    <3> HIDE DEF z
    <3>1. y = [[z EXCEPT !.max = max] EXCEPT !.max = size] /\ v = [z EXCEPT !.max = size]
      OBVIOUS
    <3> HIDE DEF y, v
    <3> QED  BY <1>1, <2>2, <3>1 DEF Contexts
  <2> QED  BY <2>1, <2>3
<1>10. r.min = H!Lesser(d.min, least)
  BY <1>1, <1>2, <1>3, <1>4, <1>5 DEF H!Lesser
<1> QED  BY <1>3, <1>9, <1>10 DEF Lessened, r, c, least, size

LEMMA ResizedAllIs ==
  ASSUME NEW d, DeflaterOk(d), NEW list \in SizeLists
  PROVE  \E n \in Nat :
           /\ Lessened(d, H!ResizedAll(d, list), n, H!Lesser(list[Len(list)], DefaultSize))
           /\ \E i \in DOMAIN list : n = H!Lesser(list[i], DefaultSize)
           /\ \A i \in DOMAIN list : n <= H!Lesser(list[i], DefaultSize)
<1> DEFINE last == Len(list)
           size(i) == H!Lesser(list[i], DefaultSize)
           Least(k, n) == (\E i \in 1 .. k : n = size(i)) /\ \A i \in 1 .. k : n <= size(i)
<1>1. list \in Seq(Nat) /\ list # <<>>
  BY SizesAre
<1>2. last \in Nat /\ last >= 1 /\ DOMAIN list = 1 .. last /\ \A i \in 1 .. last : list[i] \in Nat
  BY <1>1
<1>3. \A i \in 1 .. last : size(i) \in Nat
  BY <1>2, SizesAre, LesserIs
<1>4. PICK a : /\ a[0] = d /\ a[last] = H!ResizedAll(d, list)
               /\ \A k \in 1 .. last : a[k] = H!Resized(a[k - 1], list[k])
  <2>1. Len(list) \in Nat
    BY <1>2
  <2> QED  BY <2>1, ResizedSteps
<1> HIDE DEF size, last
<1> DEFINE Done(k) == \E n \in Nat : Lessened(d, a[k], n, size(k)) /\ Least(k, n)
           T == {k \in 1 .. last : ~ Done(k)}
<1>5. Done(1)
  <2>1. 1 \in 1 .. last /\ 1 - 1 = 0
    BY <1>2
  <2>2. a[1] = H!Resized(d, list[1]) /\ list[1] \in Nat
    BY <1>2, <1>4, <2>1
  <2>3. /\ DeflaterOk(a[1]) /\ a[1].notify
        /\ a[1].ctx = [H!Shrunk(d.ctx, size(1)) EXCEPT !.max = size(1)]
        /\ a[1].min = H!Lesser(d.min, size(1))
    BY <2>2, ResizedIs DEF size
  <2>4. Lessened(d, a[1], size(1), size(1))
    BY <2>3 DEF Lessened
  <2>5. \A i \in 1 .. 1 : i = 1
    OBVIOUS
  <2>6. Least(1, size(1)) /\ size(1) \in Nat
    BY <1>3, <2>1, <2>5
  <2> HIDE DEF Least
  <2> QED  BY <2>4, <2>6
<1>6. ASSUME NEW k \in 2 .. last, Done(k - 1) PROVE Done(k)
  <2>1. PICK n \in Nat : Lessened(d, a[k - 1], n, size(k - 1)) /\ Least(k - 1, n)
    BY <1>6
  <2> DEFINE least == H!Lesser(n, size(k))
  <2>2. k \in 1 .. last /\ k - 1 \in 1 .. last /\ k \in Nat
    BY <1>2
  <2>3. a[k] = H!Resized(a[k - 1], list[k]) /\ list[k] \in Nat /\ size(k) \in Nat /\ size(k - 1) \in Nat
    BY <1>2, <1>3, <1>4, <2>2
  <2>4. Lessened(d, a[k], least, size(k))
    <3>1. Lessened(d, H!Resized(a[k - 1], list[k]), H!Lesser(n, H!Lesser(list[k], DefaultSize)),
                   H!Lesser(list[k], DefaultSize))
      <4> HIDE DEF Least
      <4> QED  BY <2>1, <2>3, LessenedAgain
    <3> QED  BY <2>3, <3>1 DEF size
  <2>5. least \in Nat /\ least <= n /\ least <= size(k) /\ (least = n \/ least = size(k))
    BY <2>3 DEF H!Lesser
  <2> HIDE DEF least
  <2>6. Least(k, least)
    <3>1. \A i \in 1 .. k : i = k \/ i \in 1 .. k - 1
      BY <2>2
    <3>2. ASSUME NEW i \in 1 .. k PROVE least <= size(i)
      <4>1. CASE i = k
        BY <2>5, <4>1
      <4>2. CASE i \in 1 .. k - 1
        <5>1. n <= size(i) /\ size(i) \in Nat
          <6>1. i \in 1 .. last
            BY <1>2, <2>2, <4>2
          <6> QED  BY <1>3, <2>1, <4>2, <6>1
        <5> QED  BY <2>5, <5>1
      <4> QED  BY <3>1, <4>1, <4>2
    <3>3. \E i \in 1 .. k : least = size(i)
      <4>1. CASE least = n
        <5>1. PICK i \in 1 .. k - 1 : n = size(i)
          BY <2>1
        <5>2. i \in 1 .. k
          BY <2>2
        <5> QED  BY <4>1, <5>1, <5>2
      <4>2. CASE least = size(k)
        <5>1. k \in 1 .. k
          BY <2>2
        <5> QED  BY <4>2, <5>1
      <4> QED  BY <2>5, <4>1, <4>2
    <3> QED  BY <3>2, <3>3
  <2> HIDE DEF Least
  <2> QED  BY <2>4, <2>5, <2>6
<1> HIDE DEF Done
<1>7. T = {}
  <2>1. SUFFICES ASSUME T # {} PROVE FALSE
    OBVIOUS
  <2>2. PICK m \in T : \A i \in T : m <= i
    <3>1. T \subseteq Nat
      OBVIOUS
    <3> HIDE DEF T
    <3> QED  BY <2>1, <3>1, LeastExists
  <2>3. m # 1 /\ m \in 1 .. last /\ ~ Done(m)
    BY <1>5, <2>2
  <2>4. m \in 2 .. last /\ m - 1 \in 1 .. last /\ ~ (m <= m - 1)
    BY <1>2, <2>3
  <2>5. Done(m - 1)
    <3>1. m - 1 \notin T
      <4> HIDE DEF T
      <4> QED  BY <2>2, <2>4
    <3> QED  BY <2>4, <3>1
  <2> QED  BY <1>6, <2>3, <2>4, <2>5
<1>8. Done(last)
  <2>1. last \in 1 .. last
    BY <1>2
  <2> QED  BY <1>7, <2>1
<1>9. PICK n \in Nat : Lessened(d, a[last], n, size(last)) /\ Least(last, n)
  BY <1>8 DEF Done
<1> QED  BY <1>2, <1>4, <1>9 DEF size, last

(***************************************************************************)
(* A size for a table that is larger (nghttp2_hd_inflate_change_table_size)*)
(* and one for a table that is not.                                        *)
(***************************************************************************)
LEMMA SmallerIs ==
  ASSUME NEW f \in Inflaters, TableOk(f.ctx), NEW n \in Nat, f.ctx.max > n
  PROVE  LET g == H!ChangedTableSize(f, n) IN
         /\ g \in Inflaters /\ g.bad = f.bad /\ g.state = "expect" /\ g.min = n /\ g.max = n
         /\ g.ctx = [H!Shrunk(f.ctx, n) EXCEPT !.max = n]
<1> DEFINE g == H!ChangedTableSize(f, n)
           c == H!Shrunk([f.ctx EXCEPT !.max = n], n)
<1>1. TableOk([f.ctx EXCEPT !.max = n]) /\ c = [H!Shrunk(f.ctx, n) EXCEPT !.max = n]
  BY ShrunkMax
<1>2. c \in Contexts
  <2> DEFINE e == [f.ctx EXCEPT !.max = n]
  <2> HIDE DEF e
  <2>1. TableOk(e)
    BY <1>1 DEF e
  <2>2. TableOk(H!Shrunk(e, n))
    BY <2>1, ShrunkOk
  <2> QED  BY <2>2 DEF e, TableOk
<1>3. g = [f EXCEPT !.max = n, !.state = "expect", !.min = n, !.ctx = c]
  BY DEF H!ChangedTableSize
<1> HIDE DEF c, g
<1>4. /\ g \in Inflaters /\ g.bad = f.bad /\ g.state = "expect" /\ g.min = n /\ g.max = n
      /\ g.ctx = c
  BY <1>2, <1>3 DEF Inflaters
<1> QED  BY <1>1, <1>4 DEF g

LEMMA LargerIs ==
  ASSUME NEW f \in Inflaters, NEW n \in Nat, ~ (f.ctx.max > n)
  PROVE  LET g == H!ChangedTableSize(f, n) IN
         /\ g \in Inflaters /\ g.bad = f.bad /\ g.state = f.state /\ g.min = f.min /\ g.max = n
         /\ g.ctx = f.ctx
<1>1. H!ChangedTableSize(f, n) = [f EXCEPT !.max = n]
  BY DEF H!ChangedTableSize
<1> DEFINE g == [f EXCEPT !.max = n]
<1>2. g \in Inflaters /\ g.bad = f.bad /\ g.state = f.state /\ g.min = f.min /\ g.max = n
      /\ g.ctx = f.ctx
  BY DEF Inflaters
<1> QED  BY <1>1, <1>2

(***************************************************************************)
(* The least and the last of the sizes in a SETTINGS frame                 *)
(* (session_update_local_settings): an inflater whose table is larger than *)
(* the least shrinks it and waits to be told, another goes on.             *)
(***************************************************************************)
LEMMA AcknowledgedIs ==
  ASSUME NEW f \in Inflaters, TableOk(f.ctx), NEW list \in SizeLists,
         NEW k \in DOMAIN list, \A i \in DOMAIN list : list[k] <= list[i]
  PROVE  LET g == H!Acknowledged(f, list) IN
         /\ g \in Inflaters /\ g.bad = f.bad /\ g.max = list[Len(list)]
         /\ f.ctx.max > list[k] =>
              /\ g.state = "expect" /\ g.min = list[k]
              /\ g.ctx = [H!Shrunk(f.ctx, list[k]) EXCEPT !.max = list[k]]
         /\ ~ (f.ctx.max > list[k]) => g.state = f.state /\ g.min = f.min /\ g.ctx = f.ctx
<1> DEFINE last == list[Len(list)]
           least == list[k]
           sizes == {list[i] : i \in DOMAIN list}
           f1 == IF least < last THEN H!ChangedTableSize(f, least) ELSE f
           g == H!Acknowledged(f, list)
<1>1. list \in Seq(Nat) /\ list # <<>>
  BY SizesAre
<1>2. Len(list) \in DOMAIN list /\ \A i \in DOMAIN list : list[i] \in Nat
  BY <1>1
<1>3. last \in Nat /\ least \in Nat /\ least <= last /\ f.ctx.max \in Nat
  BY <1>2 DEF Inflaters, Contexts
<1>4. (CHOOSE n \in sizes : \A i \in DOMAIN list : n <= list[i]) = least
  <2> DEFINE chosen == CHOOSE n \in sizes : \A i \in DOMAIN list : n <= list[i]
  <2>1. least \in sizes /\ \A i \in DOMAIN list : least <= list[i]
    OBVIOUS
  <2>2. \E n \in sizes : \A i \in DOMAIN list : n <= list[i]
    BY <2>1
  <2>3. chosen \in sizes /\ \A i \in DOMAIN list : chosen <= list[i]
    BY <2>2
  <2> HIDE DEF chosen
  <2>4. chosen \in Nat /\ chosen <= least /\ least <= chosen
    BY <1>2, <2>3
  <2> HIDE DEF least
  <2>5. chosen = least
    BY <1>3, <2>4
  <2> QED  BY <2>5 DEF chosen
<1>5. g = H!ChangedTableSize(f1, last)
  BY <1>4 DEF H!Acknowledged
<1> HIDE DEF g, last, least, f1
<1>6. CASE f.ctx.max > least
  <2>1. CASE least < last
    <3>1. f1 = H!ChangedTableSize(f, least)
      BY <2>1 DEF f1
    <3>2. /\ f1 \in Inflaters /\ f1.bad = f.bad /\ f1.state = "expect" /\ f1.min = least
          /\ f1.ctx = [H!Shrunk(f.ctx, least) EXCEPT !.max = least]
      BY <1>3, <1>6, <3>1, SmallerIs
    <3>3. f1.ctx.max = least
      <4>1. TableOk(H!Shrunk(f.ctx, least))
        BY <1>3, ShrunkOk
      <4> QED  BY <3>2, <4>1 DEF TableOk, Contexts
    <3>4. ~ (f1.ctx.max > last)
      BY <1>3, <3>3
    <3>5. /\ g \in Inflaters /\ g.bad = f1.bad /\ g.state = f1.state /\ g.min = f1.min /\ g.max = last
          /\ g.ctx = f1.ctx
      BY <1>3, <1>5, <3>2, <3>4, LargerIs
    <3> QED  BY <1>6, <3>2, <3>5 DEF g, last, least
  <2>2. CASE ~ (least < last)
    <3>1. f1 = f /\ least = last
      BY <1>3, <2>2 DEF f1
    <3>2. /\ g \in Inflaters /\ g.bad = f.bad /\ g.state = "expect" /\ g.min = least /\ g.max = last
          /\ g.ctx = [H!Shrunk(f.ctx, least) EXCEPT !.max = least]
      BY <1>3, <1>5, <1>6, <3>1, SmallerIs
    <3> QED  BY <1>6, <3>2 DEF g, last, least
  <2> QED  BY <2>1, <2>2
<1>7. CASE ~ (f.ctx.max > least)
  <2>1. /\ f1 \in Inflaters /\ f1.bad = f.bad /\ f1.state = f.state /\ f1.min = f.min
        /\ f1.ctx = f.ctx
    <3>1. CASE least < last
      BY <1>3, <1>7, <3>1, LargerIs DEF f1
    <3>2. CASE ~ (least < last)
      BY <3>2 DEF f1
    <3> QED  BY <3>1, <3>2
  <2>2. ~ (f1.ctx.max > last)
    BY <1>3, <1>7, <2>1
  <2>3. /\ g \in Inflaters /\ g.bad = f1.bad /\ g.state = f1.state /\ g.min = f1.min /\ g.max = last
        /\ g.ctx = f1.ctx
    BY <1>3, <1>5, <2>1, <2>2, LargerIs
  <2> QED  BY <1>7, <2>1, <2>3 DEF g, last, least
<1> QED  BY <1>6, <1>7

(***************************************************************************)
(* When an acknowledgement is read, the two sides have changed their       *)
(* tables alike, as far as the deflater has not to tell the rest.          *)
(***************************************************************************)
LEMMA AckRead ==
  ASSUME NEW f, NEW d, Agree(f, d), NEW list \in SizeLists
  PROVE  Agree(H!Acknowledged(f, list), H!ResizedAll(d, list))
<1> DEFINE c == d.ctx
           e == H!ResizedAll(d, list)
           g == H!Acknowledged(f, list)
           last == list[Len(list)]
           top == H!Lesser(last, DefaultSize)
<1>1. /\ DeflaterOk(d) /\ f \in Inflaters /\ ~f.bad /\ f.state \in {"start", "expect"}
      /\ f.ctx = [c EXCEPT !.max = f.ctx.max] /\ c.size <= f.ctx.max /\ f.ctx.max <= DefaultSize
      /\ c.size <= d.min /\ (d.notify => d.min <= f.min) /\ (~d.notify => f.min = NoSize)
  BY DEF Agree
<1>2. /\ TableOk(c) /\ c.size \in Nat /\ c.max \in Nat /\ d.min \in Nat /\ d.notify \in BOOLEAN
      /\ f.ctx.max \in Nat /\ f.min \in Nat
  BY <1>1 DEF DeflaterOk, Deflaters, TableOk, Inflaters, Contexts
<1>3. PICK n \in Nat :
           /\ Lessened(d, e, n, top)
           /\ \E i \in DOMAIN list : n = H!Lesser(list[i], DefaultSize)
           /\ \A i \in DOMAIN list : n <= H!Lesser(list[i], DefaultSize)
  BY <1>1, ResizedAllIs
<1>4. list \in Seq(Nat) /\ list # <<>>
  BY SizesAre
<1>5. Len(list) \in DOMAIN list /\ \A i \in DOMAIN list : list[i] \in Nat
  BY <1>4
<1>6. PICK k \in DOMAIN list : \A i \in DOMAIN list : list[k] <= list[i]
  <2> DEFINE T == {list[i] : i \in DOMAIN list}
  <2>1. T \subseteq Nat /\ T # {}
    BY <1>5
  <2>2. PICK v \in T : \A y \in T : v <= y
    <3> HIDE DEF T
    <3> QED  BY <2>1, LeastExists
  <2>3. PICK k \in DOMAIN list : v = list[k]
    OBVIOUS
  <2>4. \A i \in DOMAIN list : list[k] <= list[i]
    BY <2>2, <2>3
  <2> QED  BY <2>4
<1> DEFINE least == list[k]
<1>7. last \in Nat /\ least \in Nat /\ least <= last /\ DefaultSize \in Nat /\ NoSize \in Nat
      /\ DefaultSize < NoSize
  BY <1>5, <1>6, SizesAre
<1>8. n = H!Lesser(least, DefaultSize) /\ n <= top /\ top \in Nat
  <2>1. n <= H!Lesser(least, DefaultSize) /\ n <= top
    BY <1>3, <1>5
  <2>2. PICK i \in DOMAIN list : n = H!Lesser(list[i], DefaultSize)
    BY <1>3
  <2>3. least <= list[i] /\ list[i] \in Nat
    BY <1>5, <1>6
  <2> HIDE DEF least
  <2>4. H!Lesser(least, DefaultSize) <= H!Lesser(list[i], DefaultSize)
        /\ H!Lesser(least, DefaultSize) \in Nat
    BY <1>7, <2>3 DEF H!Lesser
  <2>5. n = H!Lesser(least, DefaultSize)
    BY <2>1, <2>2, <2>4
  <2>6. top \in Nat
    BY <1>7, LesserIs
  <2> QED  BY <2>1, <2>5, <2>6
<1>9. TableOk(f.ctx) /\ f.ctx.size = c.size
  <2> DEFINE fm == f.ctx.max
  <2>1. TableOk([c EXCEPT !.max = fm]) /\ [c EXCEPT !.max = fm].size = c.size
    BY <1>2, ShrunkMax DEF TableOk, Contexts
  <2> QED  BY <1>1, <2>1
<1>10. /\ g \in Inflaters /\ g.bad = f.bad /\ g.max = last
       /\ f.ctx.max > least =>
            /\ g.state = "expect" /\ g.min = least
            /\ g.ctx = [H!Shrunk(f.ctx, least) EXCEPT !.max = least]
       /\ ~ (f.ctx.max > least) => g.state = f.state /\ g.min = f.min /\ g.ctx = f.ctx
  BY <1>1, <1>6, <1>9, AcknowledgedIs
<1> HIDE DEF e, g, c, last, top, least
<1> DEFINE s == H!Shrunk(c, n)
<1>11. /\ DeflaterOk(e) /\ e.notify /\ e.min = H!Lesser(d.min, n) /\ e.ctx = [s EXCEPT !.max = top]
  BY <1>3 DEF Lessened, c
<1>12. TableOk(s) /\ s.size <= n /\ s.size <= c.size /\ s.size \in Nat /\ s \in Contexts
  <2>1. TableOk(s) /\ s.size <= n /\ s.size <= c.size
    BY <1>2, ShrunkOk, ShrunkLess
  <2> HIDE DEF s
  <2> QED  BY <2>1 DEF TableOk, Contexts
<1>13. e.ctx.size = s.size /\ e.ctx.max = top
  <2> HIDE DEF s
  <2> QED  BY <1>11, <1>12 DEF Contexts
<1>14. e.min \in Nat /\ e.min <= n /\ e.min <= d.min /\ e.ctx.size <= e.min
  <2> HIDE DEF s
  <2> QED  BY <1>1, <1>2, <1>11, <1>12, <1>13 DEF H!Lesser
<1>15. CASE f.ctx.max > least
  <2>1. n = least
    BY <1>1, <1>2, <1>7, <1>8, <1>15 DEF H!Lesser
  <2>2. g.ctx = [s EXCEPT !.max = least]
    <3> DEFINE fm == f.ctx.max
    <3>1. H!Shrunk([c EXCEPT !.max = fm], least) = [s EXCEPT !.max = fm]
      BY <1>2, <1>7, <2>1, ShrunkMax
    <3>2. g.ctx = [[s EXCEPT !.max = fm] EXCEPT !.max = least]
      BY <1>1, <1>10, <1>15, <3>1
    <3> HIDE DEF s, fm
    <3> DEFINE y == [[s EXCEPT !.max = fm] EXCEPT !.max = least]
               v == [s EXCEPT !.max = least]
    <3>3. y = [[s EXCEPT !.max = fm] EXCEPT !.max = least] /\ v = [s EXCEPT !.max = least]
      OBVIOUS
    <3> HIDE DEF y, v
    <3>4. y = v
      BY <1>12, <3>3 DEF Contexts
    <3> QED  BY <3>2, <3>3, <3>4
  <2> HIDE DEF s
  <2>3. g.ctx.max = least /\ g.ctx = [e.ctx EXCEPT !.max = least]
    <3> DEFINE y == [s EXCEPT !.max = least]
               v == [e.ctx EXCEPT !.max = least]
    <3>1. y = [s EXCEPT !.max = least] /\ v = [e.ctx EXCEPT !.max = least]
      OBVIOUS
    <3> HIDE DEF y, v
    <3>2. y = v /\ y.max = least
      BY <1>11, <1>12, <3>1 DEF Contexts
    <3> QED  BY <2>2, <3>1, <3>2
  <2>4. e.ctx.size <= g.ctx.max /\ g.ctx.max <= DefaultSize /\ e.min <= e.ctx.max /\ e.min <= g.min
    <3>1. g.min = least
      BY <1>10, <1>15
    <3>2. least <= DefaultSize
      BY <1>1, <1>2, <1>7, <1>15
    <3> QED  BY <1>7, <1>8, <1>12, <1>13, <1>14, <2>1, <2>3, <3>1, <3>2
  <2>5. ~g.bad /\ g.state \in {"start", "expect"} /\ e.ctx.max = H!Lesser(g.max, DefaultSize)
    BY <1>1, <1>10, <1>13, <1>15 DEF top
  <2>6. Agree(g, e)
    BY <1>10, <1>11, <1>14, <2>3, <2>4, <2>5 DEF Agree
  <2> QED  BY <2>6 DEF g, e
<1>16. CASE ~ (f.ctx.max > least)
  <2>1. f.ctx.max <= n
    BY <1>1, <1>2, <1>7, <1>8, <1>16 DEF H!Lesser
  <2>2. s = c
    <3>1. c.size <= n
      BY <1>1, <1>2, <2>1
    <3> QED  BY <1>2, <3>1, ShrunkFits
  <2> HIDE DEF s
  <2>3. g.ctx = f.ctx /\ g.state = f.state /\ g.min = f.min
    BY <1>10, <1>16
  <2>4. g.ctx = [e.ctx EXCEPT !.max = g.ctx.max]
    <3> DEFINE fm == f.ctx.max
               v == [e.ctx EXCEPT !.max = fm]
               y == [c EXCEPT !.max = fm]
    <3>1. y = [c EXCEPT !.max = fm] /\ v = [e.ctx EXCEPT !.max = fm]
      OBVIOUS
    <3> HIDE DEF v, y, fm
    <3>2. y = v
      BY <1>11, <1>12, <2>2, <3>1 DEF Contexts
    <3> QED  BY <1>1, <2>3, <3>1, <3>2 DEF fm
  <2>5. e.ctx.size <= g.ctx.max /\ g.ctx.max <= DefaultSize
    BY <1>1, <1>13, <2>2, <2>3
  <2>6. e.min <= e.ctx.max
    BY <1>8, <1>13, <1>14
  <2>7. e.min <= g.min
    <3>1. CASE d.notify
      BY <1>1, <1>2, <1>14, <2>3, <3>1
    <3>2. CASE ~d.notify
      <4>1. n <= DefaultSize /\ g.min = NoSize
        BY <1>1, <1>7, <1>8, <2>3, <3>2 DEF H!Lesser
      <4> QED  BY <1>7, <1>14, <4>1
    <3> QED  BY <3>1, <3>2
  <2>8. ~g.bad /\ g.state \in {"start", "expect"} /\ e.ctx.max = H!Lesser(g.max, DefaultSize)
    BY <1>1, <1>10, <1>13, <2>3 DEF top
  <2>9. Agree(g, e)
    BY <1>10, <1>11, <1>14, <2>4, <2>5, <2>6, <2>7, <2>8 DEF Agree
  <2> QED  BY <2>9 DEF g, e
<1> QED  BY <1>15, <1>16

-----------------------------------------------------------------------------
(* Headers: what every step keeps                                          *)

LEMMA HpackFacts ==
  ASSUME HpackInv
  PROVE  /\ wire \in Seq(Elements) /\ settings \in Seq(SizeLists)
         /\ unacked \in Seq(SizeLists) /\ expected \in Seq(H!Headers)
         /\ Now.f = inflater /\ Now.u = unacked /\ Now.x = expected
         /\ \E f : Path(Now, wire, Receiver(f, settings, <<>>)) /\ Agree(f, deflater)
<1>1. wire \in Seq(Elements) /\ settings \in Seq(SizeLists)
  BY DEF HpackInv
<1>2. PICK r : Path(Now, wire, r) /\ r.u = settings /\ r.x = <<>> /\ Agree(r.f, deflater)
  BY DEF HpackInv
<1>3. Waits(Now) /\ Waits(r)
  BY <1>1, <1>2, PathWaits
<1>4. Now.f = inflater /\ Now.u = unacked /\ Now.x = expected
  BY DEF Now, Receiver
<1>5. unacked \in Seq(SizeLists) /\ expected \in Seq(H!Headers)
  BY <1>3, <1>4 DEF Waits
<1>6. r = Receiver(r.f, settings, <<>>)
  BY <1>2, <1>3 DEF Waits
<1>7. Path(Now, wire, Receiver(r.f, settings, <<>>)) /\ Agree(r.f, deflater)
  BY <1>2, <1>6
<1> QED  BY <1>1, <1>4, <1>5, <1>7

LEMMA HpackInitKeeps == H!Init => HpackInv
<1> SUFFICES ASSUME H!Init PROVE HpackInv
  OBVIOUS
<1> DEFINE c == H!Context
<1>1. /\ deflater = [ctx |-> c, map |-> [b \in Buckets |-> {}], min |-> NoSize, notify |-> FALSE]
      /\ inflater = [ctx |-> c, state |-> "start", min |-> NoSize, max |-> DefaultSize,
                     name |-> <<>>, indexing |-> FALSE, bad |-> FALSE]
      /\ wire = <<>> /\ settings = <<>> /\ unacked = <<>> /\ expected = <<>> /\ wrong = FALSE
  BY DEF H!Init, Buckets
<1>2. c = [table |-> <<>>, size |-> 0, max |-> DefaultSize, nextSeq |-> 0]
  BY DEF H!Context
<1> HIDE DEF c
<1>3. c \in Contexts /\ c.table = <<>> /\ c.size = 0 /\ c.max = DefaultSize
  BY <1>2, SizesAre DEF Contexts
<1>4. TableOk(c)
  <2> DEFINE g == [k \in 0 .. 0 |-> 0]
  <2>1. g \in [0 .. 0 -> Nat] /\ g[0] = 0 /\ Len(<<>>) = 0 /\ DOMAIN <<>> = {} /\ 1 .. 0 = {}
    OBVIOUS
  <2> HIDE DEF g
  <2>2. Rooms(c.table, g) /\ c.size = g[Len(c.table)]
    BY <1>3, <2>1 DEF Rooms
  <2>3. SizeCounted(c)
    BY <2>2 DEF SizeCounted
  <2>4. Numbered(c)
    BY <1>3, <2>1 DEF Numbered
  <2> QED  BY <1>3, <2>3, <2>4 DEF TableOk
<1>5. DeflaterOk(deflater) /\ deflater.ctx = c /\ deflater.min = NoSize /\ ~deflater.notify
  <2>1. [b \in Buckets |-> {}] = [b \in Buckets |-> OfBucket(c, b)]
    <3>1. DOMAIN c.table = {}
      BY <1>3
    <3>2. \A b \in Buckets : OfBucket(c, b) = {}
      BY <3>1 DEF OfBucket
    <3> QED  BY <3>2
  <2>2. [b \in Buckets |-> {}] \in [Buckets -> SUBSET TableEntries]
    OBVIOUS
  <2>3. /\ deflater.ctx = c /\ deflater.map = [b \in Buckets |-> {}] /\ deflater.min = NoSize
        /\ deflater.notify = FALSE /\ deflater \in Deflaters
    BY <1>1, <1>3, <2>2, SizesAre DEF Deflaters
  <2> QED  BY <1>4, <2>1, <2>3 DEF DeflaterOk
<1>6. /\ inflater \in Inflaters /\ inflater.bad = FALSE /\ inflater.state = "start" /\ inflater.ctx = c
      /\ inflater.min = NoSize /\ inflater.max = DefaultSize
  BY <1>1, <1>3, SizesAre DEF Inflaters
<1>7. Agree(inflater, deflater)
  <2>1. c = [c EXCEPT !.max = c.max]
    BY <1>3 DEF Contexts
  <2>2. H!Lesser(DefaultSize, DefaultSize) = DefaultSize
    BY DEF H!Lesser
  <2> QED  BY <1>3, <1>5, <1>6, <2>1, <2>2, SizesAre DEF Agree
<1>8. Path(Now, wire, Now) /\ Now.f = inflater /\ Now.u = <<>> /\ Now.x = <<>>
  <2>1. <<>> \in Seq(SizeLists) /\ <<>> \in Seq(H!Headers)
    OBVIOUS
  <2>2. Waits(Receiver(inflater, <<>>, <<>>))
    BY <2>1, ReceiverWaits
  <2>3. Now = Receiver(inflater, <<>>, <<>>)
    BY <1>1 DEF Now
  <2>4. Path(Now, wire, Now)
    BY <1>1, <2>2, <2>3, PathEmpty
  <2> QED  BY <2>3, <2>4 DEF Receiver
<1>9. wire \in Seq(Elements) /\ settings \in Seq(SizeLists)
  BY <1>1
<1> QED  BY <1>1, <1>6, <1>7, <1>8, <1>9 DEF HpackInv

LEMMA DeflateKeeps ==
  ASSUME HpackInv, NEW list \in HeaderLists, H!Deflate(list)
  PROVE  HpackInv'
<1> DEFINE e == [deflater EXCEPT !.notify = FALSE, !.min = NoSize]
           r == H!Compressed([d |-> e, out |-> H!Updates(deflater)], list)
           q == Append(r.out, [kind |-> "end"])
<1>1. /\ deflater' = r.d /\ wire' = wire \o q /\ expected' = expected \o list
      /\ UNCHANGED <<inflater, settings, unacked, wrong>>
  BY DEF H!Deflate
<1>2. PICK f : Path(Now, wire, Receiver(f, settings, <<>>)) /\ Agree(f, deflater)
  BY HpackFacts
<1>3. list \in Seq(H!Headers)
  BY SizesAre
<1>4. /\ wire \in Seq(Elements) /\ settings \in Seq(SizeLists)
      /\ unacked \in Seq(SizeLists) /\ expected \in Seq(H!Headers)
      /\ Now.f = inflater /\ Now.u = unacked /\ Now.x = expected
  BY HpackFacts
<1>5. q \in Seq(Elements)
      /\ \E g : Agree(g, r.d) /\ Path(Receiver(f, settings, list), q, Receiver(g, settings, <<>>))
  BY <1>2, <1>3, <1>4, BlockRead
<1> HIDE DEF q, r
<1>6. PICK g : Agree(g, r.d) /\ Path(Receiver(f, settings, list), q, Receiver(g, settings, <<>>))
  BY <1>5
<1>7. <<>> \in Seq(SizeLists) /\ unacked \o <<>> = unacked /\ settings \o <<>> = settings
      /\ <<>> \o list = list
  BY <1>3, <1>4, ConcatEmptySeq
<1>8. Path(Receiver(inflater, unacked, expected \o list), wire, Receiver(f, settings, list))
  <2> DEFINE s == Receiver(f, settings, <<>>)
  <2>1. s.f = f /\ s.u = settings /\ s.x = <<>>
    BY DEF Receiver
  <2> HIDE DEF s
  <2>2. Path(More(Now, <<>>, list), wire, More(s, <<>>, list))
    BY <1>2, <1>3, <1>4, <1>7, PathMore DEF s
  <2>3. /\ More(Now, <<>>, list) = Receiver(inflater, unacked, expected \o list)
        /\ More(s, <<>>, list) = Receiver(f, settings, list)
    BY <1>4, <1>7, <2>1 DEF More
  <2> QED  BY <2>2, <2>3
<1>9. Path(Receiver(inflater, unacked, expected \o list), wire \o q, Receiver(g, settings, <<>>))
  BY <1>4, <1>5, <1>6, <1>8, PathJoined
<1>10. Now' = Receiver(inflater, unacked, expected \o list)
  BY <1>1 DEF Now, Receiver
<1>11. wire' \in Seq(Elements)
  BY <1>1, <1>4, <1>5
<1> DEFINE s == Receiver(g, settings, <<>>)
<1>12. s.f = g /\ s.u = settings' /\ s.x = <<>>
  BY <1>1 DEF Receiver
<1> HIDE DEF s
<1>13. Path(Now', wire', s) /\ Agree(s.f, deflater')
  BY <1>1, <1>6, <1>9, <1>10, <1>12 DEF s
<1>14. ~wrong' /\ ~inflater'.bad /\ settings' \in Seq(SizeLists)
  BY <1>1, <1>4 DEF HpackInv
<1> QED  BY <1>11, <1>12, <1>13, <1>14 DEF HpackInv

LEMMA SendSettingsKeeps ==
  ASSUME HpackInv, NEW list \in SizeLists, H!SendSettings(list)
  PROVE  HpackInv'
<1>1. /\ settings' = Append(settings, list) /\ unacked' = Append(unacked, list)
      /\ UNCHANGED <<deflater, inflater, wire, expected, wrong>>
  BY DEF H!SendSettings
<1>2. PICK f : Path(Now, wire, Receiver(f, settings, <<>>)) /\ Agree(f, deflater)
  BY HpackFacts
<1>3. /\ wire \in Seq(Elements) /\ settings \in Seq(SizeLists)
      /\ unacked \in Seq(SizeLists) /\ expected \in Seq(H!Headers)
      /\ Now.f = inflater /\ Now.u = unacked /\ Now.x = expected
  BY HpackFacts
<1> DEFINE v == <<list>>
<1>4. v \in Seq(SizeLists) /\ <<>> \in Seq(H!Headers) /\ <<>> \o <<>> = <<>>
      /\ expected \o <<>> = expected
  <2>1. <<>> \in Seq(H!Headers)
    OBVIOUS
  <2> QED  BY <1>3, <2>1, ConcatEmptySeq
<1>5. unacked \o v = unacked' /\ settings \o v = settings' /\ settings' \in Seq(SizeLists)
  BY <1>1, <1>3
<1> HIDE DEF v
<1>6. Path(Receiver(inflater, unacked', expected), wire, Receiver(f, settings', <<>>))
  <2> DEFINE s == Receiver(f, settings, <<>>)
  <2>1. s.f = f /\ s.u = settings /\ s.x = <<>>
    BY DEF Receiver
  <2> HIDE DEF s
  <2>2. Path(More(Now, v, <<>>), wire, More(s, v, <<>>))
    BY <1>2, <1>3, <1>4, PathMore DEF s
  <2>3. /\ More(Now, v, <<>>) = Receiver(inflater, unacked', expected)
        /\ More(s, v, <<>>) = Receiver(f, settings', <<>>)
    BY <1>3, <1>4, <1>5, <2>1 DEF More
  <2> QED  BY <2>2, <2>3
<1>7. Now' = Receiver(inflater, unacked', expected)
  BY <1>1 DEF Now, Receiver
<1> DEFINE s == Receiver(f, settings', <<>>)
<1>8. s.f = f /\ s.u = settings' /\ s.x = <<>>
  BY DEF Receiver
<1> HIDE DEF s
<1>9. Path(Now', wire', s) /\ Agree(s.f, deflater')
  BY <1>1, <1>2, <1>6, <1>7, <1>8 DEF s
<1>10. ~wrong' /\ ~inflater'.bad /\ wire' \in Seq(Elements)
  BY <1>1, <1>3 DEF HpackInv
<1> QED  BY <1>5, <1>8, <1>9, <1>10 DEF HpackInv

LEMMA ReceiveSettingsKeeps ==
  ASSUME HpackInv, H!ReceiveSettings
  PROVE  HpackInv'
<1> DEFINE list == Head(settings)
           e == [kind |-> "ack"]
<1>1. /\ settings # <<>> /\ deflater' = H!ResizedAll(deflater, list) /\ settings' = Tail(settings)
      /\ wire' = Append(wire, e) /\ UNCHANGED <<inflater, unacked, expected, wrong>>
  BY DEF H!ReceiveSettings
<1>2. PICK f : Path(Now, wire, Receiver(f, settings, <<>>)) /\ Agree(f, deflater)
  BY HpackFacts
<1>3. wire \in Seq(Elements) /\ settings \in Seq(SizeLists)
  BY HpackFacts
<1>4. list \in SizeLists /\ settings' \in Seq(SizeLists)
  BY <1>1, <1>3
<1> DEFINE g == H!Acknowledged(f, list)
           r == Receiver(f, settings, <<>>)
           s == Receiver(g, settings', <<>>)
<1>5. Agree(g, deflater')
  BY <1>1, <1>2, <1>4, AckRead
<1>6. ~g.bad
  BY <1>5 DEF Agree
<1>7. e \in Elements /\ e.kind = "ack"
  BY DEF Elements
<1>8. /\ r.f = f /\ r.u = settings /\ r.x = <<>> /\ s.f = g /\ s.u = settings' /\ s.x = <<>>
  BY DEF Receiver
<1>9. Waits(s)
  <2>1. <<>> \in Seq(H!Headers)
    OBVIOUS
  <2> QED  BY <1>4, <2>1, ReceiverWaits
<1> HIDE DEF e, r, s
<1>10. Reads(r, e, s)
  <2> HIDE DEF g, list
  <2>1. g = H!Acknowledged(f, Head(settings))
    BY DEF g, list
  <2> QED  BY <1>1, <1>6, <1>7, <1>8, <2>1 DEF Reads
<1>11. wire' \in Seq(Elements) /\ Path(Now, wire', s)
  BY <1>1, <1>2, <1>3, <1>7, <1>9, <1>10, PathAppended DEF r
<1>12. Now' = Now
  BY <1>1 DEF Now, Receiver
<1>13. ~wrong' /\ ~inflater'.bad
  BY <1>1 DEF HpackInv
<1> HIDE DEF g
<1> QED  BY <1>4, <1>5, <1>8, <1>11, <1>12, <1>13 DEF HpackInv

\* One element is taken from what is on its way.
LEMMA ElementTaken ==
  ASSUME HpackInv, wire # <<>>
  PROVE  /\ Tail(wire) \in Seq(Elements) /\ Head(wire) \in Elements
         /\ \E t, f : /\ t = Receiver(t.f, t.u, t.x) /\ Reads(Now, Head(wire), t)
                      /\ Path(t, Tail(wire), Receiver(f, settings, <<>>)) /\ Agree(f, deflater)
<1>1. PICK f : Path(Now, wire, Receiver(f, settings, <<>>)) /\ Agree(f, deflater)
  BY HpackFacts
<1>2. wire \in Seq(Elements)
  BY HpackFacts
<1>3. PICK t : /\ Waits(t) /\ Reads(Now, Head(wire), t)
               /\ Path(t, Tail(wire), Receiver(f, settings, <<>>))
  BY <1>1, <1>2, PathTail
<1>4. t = Receiver(t.f, t.u, t.x)
  BY <1>3 DEF Waits
<1> QED  BY <1>1, <1>2, <1>3, <1>4

LEMMA TakenKeeps ==
  ASSUME HpackInv, wire # <<>>, wire' = Tail(wire), UNCHANGED <<deflater, settings>>,
         Tail(wire) \in Seq(Elements), ~wrong', ~inflater'.bad,
         NEW t, t = Receiver(t.f, t.u, t.x), t.f = inflater', t.u = unacked', t.x = expected',
         NEW f, Path(t, Tail(wire), Receiver(f, settings, <<>>)), Agree(f, deflater)
  PROVE  HpackInv'
<1> DEFINE s == Receiver(f, settings, <<>>)
<1>1. Now' = t
  BY DEF Now, Receiver
<1>2. s.f = f /\ s.u = settings' /\ s.x = <<>>
  BY DEF Receiver
<1> HIDE DEF s
<1>3. Path(Now', wire', s) /\ Agree(s.f, deflater') /\ settings' \in Seq(SizeLists)
  BY <1>1, <1>2, HpackFacts DEF s
<1> QED  BY <1>2, <1>3 DEF HpackInv

LEMMA ReceiveAckKeeps ==
  ASSUME HpackInv, H!ReceiveAck
  PROVE  HpackInv'
<1>1. /\ wire # <<>> /\ Head(wire).kind = "ack" /\ inflater' = H!Acknowledged(inflater, Head(unacked))
      /\ unacked' = Tail(unacked) /\ wire' = Tail(wire)
      /\ UNCHANGED <<deflater, settings, expected, wrong>>
  BY DEF H!ReceiveAck
<1>2. PICK t, f : /\ t = Receiver(t.f, t.u, t.x) /\ Reads(Now, Head(wire), t)
                  /\ Path(t, Tail(wire), Receiver(f, settings, <<>>)) /\ Agree(f, deflater)
  BY <1>1, ElementTaken
<1>3. Now.f = inflater /\ Now.u = unacked /\ Now.x = expected
  BY HpackFacts
<1>4. t.f = inflater' /\ ~t.f.bad /\ t.u = unacked' /\ t.x = expected'
  BY <1>1, <1>2, <1>3 DEF Reads
<1>5. ~wrong'
  BY <1>1 DEF HpackInv
<1> QED  BY <1>1, <1>2, <1>4, <1>5, ElementTaken, TakenKeeps

LEMMA EndHeadersKeeps ==
  ASSUME HpackInv, H!EndHeaders
  PROVE  HpackInv'
<1>1. /\ wire # <<>> /\ Head(wire).kind = "end" /\ inflater' = H!Ended(inflater) /\ wire' = Tail(wire)
      /\ UNCHANGED <<deflater, settings, unacked, expected, wrong>>
  BY DEF H!EndHeaders
<1>2. PICK t, f : /\ t = Receiver(t.f, t.u, t.x) /\ Reads(Now, Head(wire), t)
                  /\ Path(t, Tail(wire), Receiver(f, settings, <<>>)) /\ Agree(f, deflater)
  BY <1>1, ElementTaken
<1>3. Now.f = inflater /\ Now.u = unacked /\ Now.x = expected
  BY HpackFacts
<1>4. t.f = inflater' /\ ~t.f.bad /\ t.u = unacked' /\ t.x = expected'
  BY <1>1, <1>2, <1>3 DEF Reads
<1>5. ~wrong'
  BY <1>1 DEF HpackInv
<1> QED  BY <1>1, <1>2, <1>4, <1>5, ElementTaken, TakenKeeps

LEMMA InflateKeeps ==
  ASSUME HpackInv, H!Inflate
  PROVE  HpackInv'
<1> DEFINE emitted == H!Emitted(inflater, Head(wire))
<1>1. /\ wire # <<>> /\ Head(wire).kind # "ack" /\ Head(wire).kind # "end"
      /\ inflater' = H!Read(inflater, Head(wire)) /\ wire' = Tail(wire)
      /\ UNCHANGED <<deflater, settings, unacked>>
  BY DEF H!Inflate
<1>2. IF emitted = <<>> THEN UNCHANGED <<expected, wrong>>
      ELSE /\ wrong' = (wrong \/ expected = <<>> \/ Head(expected) # Head(emitted))
           /\ expected' = IF expected = <<>> THEN <<>> ELSE Tail(expected)
  BY DEF H!Inflate
<1>3. PICK t, f : /\ t = Receiver(t.f, t.u, t.x) /\ Reads(Now, Head(wire), t)
                  /\ Path(t, Tail(wire), Receiver(f, settings, <<>>)) /\ Agree(f, deflater)
  BY <1>1, ElementTaken
<1>4. Now.f = inflater /\ Now.u = unacked /\ Now.x = expected
  BY HpackFacts
<1> HIDE DEF emitted
<1>5. /\ t.f = inflater' /\ ~t.f.bad /\ t.u = unacked'
      /\ IF emitted = <<>> THEN t.x = expected
         ELSE expected # <<>> /\ Head(expected) = Head(emitted) /\ t.x = Tail(expected)
  BY <1>1, <1>3, <1>4 DEF Reads, emitted
<1>6. ~wrong
  BY DEF HpackInv
<1>7. t.x = expected' /\ ~wrong'
  <2>1. t.x = expected'
    BY <1>2, <1>5
  <2>2. ~wrong'
    <3>1. CASE emitted = <<>>
      BY <1>2, <1>6, <3>1, Zenon
    <3>2. CASE emitted # <<>>
      <4>1. wrong' = (wrong \/ expected = <<>> \/ Head(expected) # Head(emitted))
        BY <1>2, <3>2, Zenon
      <4>2. expected # <<>> /\ Head(expected) = Head(emitted)
        BY <1>5, <3>2, Zenon
      <4> QED  BY <1>6, <4>1, <4>2, Zenon
    <3> QED  BY <3>1, <3>2
  <2> QED  BY <2>1, <2>2
<1> QED  BY <1>1, <1>3, <1>5, <1>7, ElementTaken, TakenKeeps

LEMMA HpackNextKeeps == HpackInv /\ [H!Next]_(H!hpackVars) => HpackInv'
<1> SUFFICES ASSUME HpackInv, [H!Next]_(H!hpackVars) PROVE HpackInv'
  OBVIOUS
<1>1. ASSUME NEW list \in HeaderLists, H!Deflate(list) PROVE HpackInv'
  BY <1>1, DeflateKeeps
<1>2. ASSUME NEW list \in SizeLists, H!SendSettings(list) PROVE HpackInv'
  BY <1>2, SendSettingsKeeps
<1>3. CASE H!ReceiveSettings
  BY <1>3, ReceiveSettingsKeeps
<1>4. CASE H!ReceiveAck
  BY <1>4, ReceiveAckKeeps
<1>5. CASE H!Inflate
  BY <1>5, InflateKeeps
<1>6. CASE H!EndHeaders
  BY <1>6, EndHeadersKeeps
<1>7. CASE UNCHANGED H!hpackVars
  <2>1. UNCHANGED <<deflater, inflater, wire, settings, unacked, expected, wrong>>
    BY <1>7 DEF H!hpackVars
  <2>2. Now' = Now
    BY <2>1 DEF Now, Receiver
  <2> QED  BY <2>1, <2>2 DEF HpackInv
<1> QED  BY <1>1, <1>2, <1>3, <1>4, <1>5, <1>6, <1>7 DEF H!Next

(***************************************************************************)
(* Headers come out as they went in, however the peers change the size of  *)
(* the tables, and when nothing is on its way the two tables are alike     *)
(* (nghttp2_hd_deflate_hd_bufs, nghttp2_hd_inflate_hd_nv).                 *)
(***************************************************************************)
THEOREM HeadersComeOut == H!Spec => []HeadersArrive
<1>1. HpackInv => HeadersArrive
  <2> SUFFICES ASSUME HpackInv PROVE HeadersArrive
    OBVIOUS
  <2>1. ~wrong /\ ~inflater.bad
    BY DEF HpackInv
  <2>2. ASSUME wire = <<>>
        PROVE  /\ expected = <<>> /\ deflater.ctx.table = inflater.ctx.table
               /\ deflater.ctx.size = inflater.ctx.size
    <3>1. PICK f : Path(Now, wire, Receiver(f, settings, <<>>)) /\ Agree(f, deflater)
      BY HpackFacts
    <3>2. Now = Receiver(f, settings, <<>>)
      BY <2>2, <3>1, PathOver
    <3>3. inflater = f /\ expected = <<>>
      BY <3>2, HpackFacts DEF Receiver
    <3>4. f.ctx = [deflater.ctx EXCEPT !.max = f.ctx.max] /\ deflater.ctx \in Contexts
      BY <3>1 DEF Agree, DeflaterOk, TableOk
    <3>5. f.ctx.table = deflater.ctx.table /\ f.ctx.size = deflater.ctx.size
      BY <3>4 DEF Contexts
    <3> QED  BY <3>3, <3>5
  <2> QED  BY <2>1, <2>2 DEF HeadersArrive, H!HeadersArrive
<1> QED  BY <1>1, HpackInitKeeps, HpackNextKeeps, PTL DEF H!Spec

-----------------------------------------------------------------------------
(* One window of the session, while the application changes it.            *)

WindowForm ==
  [local : Nat, recvd : Int, reduction : Nat, consumed : Int, queued : BOOLEAN]

\* What has been kept back is no more than what a smaller window took away.
Sound(v) ==
  /\ v \in WindowForm
  /\ v.local + v.reduction <= TopWindow
  /\ v.recvd + v.reduction >= 0

Counted(v) == v.local - v.recvd

\* Changed by n for the peer
Tells(v, u, n) ==
  Sound(u) /\ n \in Nat /\ Counted(v) \in Int /\ Counted(u) = Counted(v) + n

LEMMA WindowBounds == TopWindow \in Nat /\ StartWindow \in Nat /\ StartWindow <= TopWindow
BY WindowAssumed DEF L!WindowAssumption

LEMMA FieldsOf ==
  ASSUME NEW v, v \in WindowForm
  PROVE  v.local \in Nat /\ v.reduction \in Nat /\ v.recvd \in Int /\ v.consumed \in Int
BY DEF WindowForm

LEMMA CountedInt == ASSUME NEW v, Sound(v) PROVE Counted(v) \in Int
BY FieldsOf DEF Sound, Counted

LEMMA EnlargeTells ==
  ASSUME NEW v, Sound(v), NEW delta \in Nat \ {0}
  PROVE  Tells(v, L!Enlarge(v, delta).w, L!Enlarge(v, delta).delta)
<1> DEFINE r == L!Greatest(0, v.recvd) - delta
<1>1. TopWindow \in Nat
  BY WindowBounds
<1>2. CASE r >= 0
  <2>1. L!Enlarge(v, delta) = [ok |-> TRUE, w |-> [v EXCEPT !.recvd = r], delta |-> delta]
    BY <1>2 DEF L!Enlarge
  <2>2. v.recvd >= delta /\ r = v.recvd - delta
    BY <1>2 DEF L!Greatest, Sound, WindowForm
  <2> HIDE DEF r
  <2> QED  BY <1>1, <2>1, <2>2 DEF Tells, Sound, Counted, WindowForm
<1>3. CASE r < 0
  <2> DEFINE m == -r
             p == L!Repaid(v, m)
  <2>1. r \in Int /\ m \in Nat /\ m > 0 /\ m <= delta
        /\ m = IF v.recvd < 0 THEN delta ELSE delta - v.recvd
    BY <1>3 DEF L!Greatest, Sound, WindowForm
  <2>2. p \in Nat /\ p <= m /\ p <= v.reduction /\ (p = m \/ p = v.reduction)
    BY <2>1 DEF L!Repaid, L!Least, Sound, WindowForm
  <2>3. CASE v.local > TopWindow - m
    <3>1. L!Enlarge(v, delta) = [ok |-> FALSE, w |-> v, delta |-> 0]
      BY <1>3, <2>1, <2>3 DEF L!Enlarge, L!Refused
    <3> QED  BY <3>1 DEF Tells, Sound, Counted, WindowForm
  <2>4. CASE ~ (v.local > TopWindow - m)
    <3>1. L!Enlarge(v, delta) =
            [ok |-> TRUE, delta |-> delta - p,
             w |-> [v EXCEPT !.local = @ + m, !.reduction = @ - p,
                             !.recvd = IF @ < 0 THEN @ + p ELSE p]]
      BY <1>3, <2>1, <2>4 DEF L!Enlarge
    <3> HIDE DEF r, m, p
    <3>2. v.local + m <= TopWindow
      BY <1>1, <2>1, <2>4 DEF Sound, WindowForm
    <3> DEFINE u == [v EXCEPT !.local = @ + m, !.reduction = @ - p,
                              !.recvd = IF @ < 0 THEN @ + p ELSE p]
    <3>3. /\ u.local = v.local + m /\ u.reduction = v.reduction - p
          /\ u.recvd = IF v.recvd < 0 THEN v.recvd + p ELSE p
      BY DEF Sound, WindowForm
    <3>4. u \in WindowForm
      <4>1. /\ v.local + m \in Nat /\ v.reduction - p \in Nat
            /\ (IF v.recvd < 0 THEN v.recvd + p ELSE p) \in Int
        BY <2>1, <2>2, FieldsOf DEF Sound
      <4> QED  BY <4>1 DEF Sound, WindowForm
    <3> HIDE DEF u
    <3>5. Sound(u) /\ Counted(u) = Counted(v) + (delta - p) /\ Counted(v) \in Int
      BY <1>1, <2>1, <2>2, <3>2, <3>3, <3>4, FieldsOf DEF Sound, Counted
    <3>6. L!Enlarge(v, delta).w = u /\ L!Enlarge(v, delta).delta = delta - p
      BY <3>1 DEF u
    <3> QED  BY <2>1, <2>2, <3>5, <3>6 DEF Tells
  <2> QED  BY <2>3, <2>4
<1> QED  BY <1>2, <1>3 DEF L!Greatest, Sound, WindowForm

LEMMA ReduceTells ==
  ASSUME NEW v, Sound(v), NEW delta \in Int, delta < 0
  PROVE  L!Reduce(v, delta).delta = 0 /\ Tells(v, L!Reduce(v, delta).w, 0)
<1>1. TopWindow \in Nat
  BY WindowBounds
<1>2. CASE L!Reduce(v, delta) = L!Refused(v)
  BY <1>2 DEF L!Refused, Tells, Sound, Counted, WindowForm
<1>3. CASE L!Reduce(v, delta) # L!Refused(v)
  <2>1. ~ (v.local + delta < 0)
    BY <1>3 DEF L!Reduce
  <2>2. L!Reduce(v, delta) =
          [ok |-> TRUE, delta |-> 0,
           w |-> [v EXCEPT !.local = @ + delta, !.recvd = @ + delta, !.reduction = @ - delta]]
    BY <1>3 DEF L!Reduce
  <2> DEFINE u == [v EXCEPT !.local = @ + delta, !.recvd = @ + delta, !.reduction = @ - delta]
  <2>3. /\ u.local = v.local + delta /\ u.reduction = v.reduction - delta
        /\ u.recvd = v.recvd + delta
    BY DEF Sound, WindowForm
  <2>4. u \in WindowForm
    <3>1. v.local + delta \in Nat /\ v.reduction - delta \in Nat /\ v.recvd + delta \in Int
      BY <2>1, FieldsOf DEF Sound
    <3> QED  BY <3>1 DEF Sound, WindowForm
  <2> HIDE DEF u
  <2>5. Sound(u) /\ Counted(u) = Counted(v) /\ Counted(v) \in Int
    BY <1>1, <2>3, <2>4, FieldsOf DEF Sound, Counted
  <2>6. L!Reduce(v, delta).w = u /\ L!Reduce(v, delta).delta = 0
    BY <2>2 DEF u
  <2> QED  BY <2>5, <2>6 DEF Tells
<1> QED  BY <1>2, <1>3

LEMMA IncreaseTells ==
  ASSUME NEW v, Sound(v), NEW delta \in Nat \ {0}
  PROVE  Tells(v, L!Increase(v, delta).w, L!Increase(v, delta).delta)
<1> DEFINE p == L!Repaid(v, delta)
<1>1. TopWindow \in Nat
  BY WindowBounds
<1>2. p \in Nat /\ p <= delta /\ p <= v.reduction /\ (p = delta \/ p = v.reduction)
  BY DEF L!Repaid, L!Least, Sound, WindowForm
<1>3. CASE v.local > TopWindow - delta
  <2>1. L!Increase(v, delta) = [ok |-> FALSE, w |-> v, delta |-> 0]
    BY <1>3 DEF L!Increase, L!Refused
  <2> QED  BY <2>1, WindowBounds DEF Tells, Sound, Counted, WindowForm
<1>4. CASE ~ (v.local > TopWindow - delta)
  <2>1. L!Increase(v, delta) =
          [ok |-> TRUE, delta |-> delta - p,
           w |-> [v EXCEPT !.local = @ + delta, !.reduction = @ - p, !.recvd = @ + p]]
    BY <1>4 DEF L!Increase
  <2> HIDE DEF p
  <2>2. v.local + delta <= TopWindow
    BY <1>1, <1>4 DEF Sound, WindowForm
  <2> DEFINE u == [v EXCEPT !.local = @ + delta, !.reduction = @ - p, !.recvd = @ + p]
  <2>3. /\ u.local = v.local + delta /\ u.reduction = v.reduction - p
        /\ u.recvd = v.recvd + p
    BY DEF Sound, WindowForm
  <2>4. u \in WindowForm
    <3>1. v.local + delta \in Nat /\ v.reduction - p \in Nat /\ v.recvd + p \in Int
      BY <1>2, FieldsOf DEF Sound
    <3> QED  BY <3>1 DEF Sound, WindowForm
  <2> HIDE DEF u
  <2>5. Sound(u) /\ Counted(u) = Counted(v) + (delta - p) /\ Counted(v) \in Int
    BY <1>1, <1>2, <2>2, <2>3, <2>4, FieldsOf DEF Sound, Counted
  <2>6. L!Increase(v, delta).w = u /\ L!Increase(v, delta).delta = delta - p
    BY <2>1 DEF u
  <2> QED  BY <1>2, <2>5, <2>6 DEF Tells
<1> QED  BY <1>3, <1>4

\* A window with the frames to be added
IsTold(v, result) ==
  \E n \in Nat : /\ Tells(v, result.w, n)
                 /\ \/ result.frames = <<>> /\ n = 0
                    \/ result.frames = <<n>>

LEMMA AddUpdateTold ==
  ASSUME NEW v, NEW u, NEW n, Tells(v, u, n)
  PROVE  IsTold(v, L!AddUpdate(u, n))
<1>1. L!AddUpdate(u, n).frames = <<n>> /\ L!AddUpdate(u, n).w = [u EXCEPT !.queued = TRUE]
  BY DEF L!AddUpdate
<1>2. Tells(v, [u EXCEPT !.queued = TRUE], n)
  BY DEF Tells, Sound, Counted, WindowForm
<1> QED  BY <1>1, <1>2 DEF IsTold, Tells

LEMMA UpdateRecvdTold ==
  ASSUME NEW v, NEW u, Tells(v, u, 0)
  PROVE  IsTold(v, L!UpdateRecvd(u))
<1>1. CASE L!UpdateRecvd(u) = [w |-> u, frames |-> <<>>]
  BY <1>1 DEF IsTold
<1>2. CASE L!UpdateRecvd(u) # [w |-> u, frames |-> <<>>]
  <2>1. /\ u.recvd > 0
        /\ L!UpdateRecvd(u) = L!AddUpdate([u EXCEPT !.recvd = 0], u.recvd)
    BY <1>2 DEF L!UpdateRecvd, L!Due
  <2>2. Tells(v, [u EXCEPT !.recvd = 0], u.recvd)
    BY <2>1, WindowBounds DEF Tells, Sound, Counted, WindowForm
  <2> QED  BY <2>1, <2>2, AddUpdateTold
<1> QED  BY <1>1, <1>2

LEMMA UpdateConsumedTold ==
  ASSUME NEW v, NEW u, Tells(v, u, 0)
  PROVE  IsTold(v, L!UpdateConsumed(u))
<1> DEFINE n == L!Least(u.consumed, u.recvd)
<1>1. CASE L!UpdateConsumed(u) = [w |-> u, frames |-> <<>>]
  BY <1>1 DEF IsTold
<1>2. CASE L!UpdateConsumed(u) # [w |-> u, frames |-> <<>>]
  <2>1. /\ n > 0
        /\ L!UpdateConsumed(u) = L!AddUpdate([u EXCEPT !.recvd = @ - n, !.consumed = @ - n], n)
    BY <1>2 DEF L!UpdateConsumed, L!Due
  <2>2. n \in Int /\ n <= u.recvd
    BY DEF L!Least, Tells, Sound, WindowForm
  <2>3. Tells(v, [u EXCEPT !.recvd = @ - n, !.consumed = @ - n], n)
    <3> HIDE DEF n
    <3> DEFINE x == [u EXCEPT !.recvd = @ - n, !.consumed = @ - n]
    <3>1. /\ x.local = u.local /\ x.reduction = u.reduction /\ x.recvd = u.recvd - n
          /\ x \in WindowForm
      <4>1. u \in WindowForm /\ u.recvd - n \in Int /\ u.consumed - n \in Int
        BY <2>2, FieldsOf DEF Tells, Sound
      <4> QED  BY <4>1 DEF WindowForm
    <3> HIDE DEF x
    <3>2. Tells(v, x, n)
      BY <2>1, <2>2, <3>1, FieldsOf, WindowBounds DEF Tells, Sound, Counted
    <3> QED  BY <3>2 DEF x
  <2> QED  BY <2>1, <2>3, AddUpdateTold
<1> QED  BY <1>1, <1>2

-----------------------------------------------------------------------------
WindowTypes ==
  /\ Sound(w) /\ updates \in Seq(Nat) /\ peer \in Nat /\ unread \in Nat
  /\ auto \in BOOLEAN /\ failed \in BOOLEAN

WindowInv ==
  /\ WindowTypes
  /\ auto => ~failed
  /\ ~failed => peer + Total(updates) = Counted(w)

LEMMA LaterTold ==
  ASSUME NEW v, NEW result, NEW q \in Seq(Nat), IsTold(v, result)
  PROVE  /\ q \o result.frames \in Seq(Nat) /\ Sound(result.w)
         /\ Total(q \o result.frames) - Total(q) = Counted(result.w) - Counted(v)
<1>1. PICK n \in Nat : /\ Tells(v, result.w, n)
                       /\ \/ result.frames = <<>> /\ n = 0
                          \/ result.frames = <<n>>
  BY DEF IsTold
<1>2. Total(q) \in Nat /\ q \in Seq(Int)
  BY TotalNat
<1>3. CASE result.frames = <<>> /\ n = 0
  <2>1. q \o result.frames = q
    BY <1>3
  <2> QED  BY <1>1, <1>2, <1>3, <2>1 DEF Tells
<1>4. CASE result.frames = <<n>>
  <2>1. q \o result.frames = Append(q, n)
    BY <1>4
  <2> QED  BY <1>1, <1>2, <2>1, TotalAppend DEF Tells
<1> QED  BY <1>1, <1>3, <1>4

LEMMA BecomesTells ==
  ASSUME WindowInv, ~failed, NEW result, IsTold(w, result), L!Becomes(result)
  PROVE  /\ Sound(w') /\ updates' \in Seq(Nat)
         /\ peer + Total(updates)' = Counted(w)'
<1>1. w' = result.w /\ updates' = updates \o result.frames
  BY DEF L!Becomes
<1>2. Total(updates) \in Int /\ Counted(w) \in Int
  BY TotalNat DEF WindowInv, WindowTypes, Counted, Sound, WindowForm
<1>3. /\ updates' \in Seq(Nat) /\ Sound(w')
      /\ Total(updates') - Total(updates) = Counted(w') - Counted(w)
  BY <1>1, LaterTold DEF WindowInv, WindowTypes
<1>4. Total(updates') \in Int /\ Counted(w') \in Int
  BY <1>3, TotalNat DEF Counted, Sound, WindowForm
<1>5. peer \in Nat /\ peer + Total(updates) = Counted(w)
  BY DEF WindowInv, WindowTypes
<1> QED  BY <1>2, <1>3, <1>4, <1>5

LEMMA WindowInitKeeps == L!Init => WindowInv
<1> SUFFICES ASSUME L!Init PROVE WindowInv
  OBVIOUS
<1>1. Total(updates) = 0 /\ updates \in Seq(Nat)
  BY TotalEmpty DEF L!Init
<1>2. Sound(w) /\ Counted(w) = StartWindow
  BY WindowBounds DEF L!Init, Sound, WindowForm, Counted
<1>3. /\ peer = StartWindow /\ unread = 0 /\ auto \in BOOLEAN /\ failed = FALSE
  BY DEF L!Init
<1>4. peer \in Nat /\ unread \in Nat /\ peer + Total(updates) = Counted(w)
  BY <1>1, <1>2, <1>3, WindowBounds
<1> QED  BY <1>1, <1>2, <1>3, <1>4, Zenon DEF WindowInv, WindowTypes

LEMMA WindowReceiveKeeps ==
  ASSUME WindowInv, NEW n \in 1 .. TopWindow, L!Receive(n)
  PROVE  WindowInv'
<1>1. ~failed /\ n <= peer /\ peer' = peer - n /\ auto' = auto
  BY DEF L!Receive
<1>2. Total(updates) \in Nat
  BY TotalNat DEF WindowInv, WindowTypes
<1>3. ~ (w.recvd > w.local - n \/ w.recvd > TopWindow - n)
  BY <1>1, <1>2, WindowBounds DEF WindowInv, WindowTypes, Sound, WindowForm, Counted
<1> DEFINE u == [w EXCEPT !.recvd = @ + n]
<1>4. L!Becomes(L!UpdateRecvd(u)) /\ failed' = failed
  BY <1>3 DEF L!Receive
<1>5. Sound(u) /\ Counted(u) = Counted(w) - n
  <2>1. /\ u.local = w.local /\ u.reduction = w.reduction /\ u.recvd = w.recvd + n
        /\ u \in WindowForm
    BY DEF WindowInv, WindowTypes, Sound, WindowForm
  <2> HIDE DEF u
  <2> QED  BY <2>1, FieldsOf, WindowBounds DEF WindowInv, WindowTypes, Sound, Counted
<1>6. IsTold(u, L!UpdateRecvd(u))
  <2>1. Tells(u, u, 0)
    BY <1>5 DEF Tells, Counted, Sound, WindowForm
  <2> HIDE DEF u
  <2> QED  BY <2>1, UpdateRecvdTold
<1> HIDE DEF u
<1>7. w' = L!UpdateRecvd(u).w /\ updates' = updates \o L!UpdateRecvd(u).frames
  BY <1>4 DEF L!Becomes
<1>8. /\ updates' \in Seq(Nat) /\ Sound(w')
      /\ Total(updates') - Total(updates) = Counted(w') - Counted(u)
  BY <1>6, <1>7, LaterTold DEF WindowInv, WindowTypes
<1>9. Total(updates') \in Int /\ Counted(w') \in Int /\ Counted(w) \in Int
  BY <1>8, TotalNat, CountedInt DEF WindowInv, WindowTypes
<1>10. peer' \in Nat /\ unread' \in Nat
  BY <1>1 DEF L!Receive, WindowInv, WindowTypes
<1>11. peer' + Total(updates') = Counted(w')
  <2>1. peer \in Nat /\ peer + Total(updates) = Counted(w)
    BY <1>1 DEF WindowInv, WindowTypes
  <2> DEFINE all == Total(updates)  later == Total(updates')
             now == Counted(w)  then == Counted(w')
  <2>2. later - all = then - (now - n) /\ peer + all = now /\ peer' = peer - n
    BY <1>1, <1>5, <1>8, <2>1
  <2>3. all \in Int /\ later \in Int /\ now \in Int /\ then \in Int /\ peer \in Int /\ n \in Int
    BY <1>2, <1>9, <2>1
  <2> HIDE DEF all, later, now, then
  <2>4. peer' + later = then
    BY <2>2, <2>3
  <2> QED  BY <2>4 DEF later, then
<1> QED  BY <1>1, <1>4, <1>8, <1>10, <1>11 DEF WindowInv, WindowTypes

LEMMA WindowConsumeKeeps ==
  ASSUME WindowInv, NEW n \in 1 .. TopWindow, L!Consume(n)
  PROVE  WindowInv'
<1>1. ~auto /\ ~failed /\ auto' = auto /\ peer' = peer /\ unread' \in Nat
  BY DEF L!Consume, WindowInv, WindowTypes
<1>2. CASE failed' = TRUE /\ UNCHANGED <<w, updates>>
  BY <1>1, <1>2 DEF WindowInv, WindowTypes
<1>3. CASE L!Becomes(L!UpdateConsumed([w EXCEPT !.consumed = @ + n])) /\ UNCHANGED failed
  <2> DEFINE u == [w EXCEPT !.consumed = @ + n]
  <2>1. Tells(w, u, 0)
    <3>1. Sound(w) /\ w.consumed + n \in Int
      BY FieldsOf DEF Sound, WindowInv, WindowTypes
    <3>2. /\ u.local = w.local /\ u.reduction = w.reduction /\ u.recvd = w.recvd
          /\ u \in WindowForm
      BY <3>1 DEF Sound, WindowForm
    <3> HIDE DEF u
    <3> QED  BY <3>1, <3>2, FieldsOf, WindowBounds DEF Tells, Sound, Counted
  <2> HIDE DEF u
  <2>2. IsTold(w, L!UpdateConsumed(u))
    BY <2>1, UpdateConsumedTold
  <2>3. L!Becomes(L!UpdateConsumed(u))
    BY <1>3 DEF u
  <2>4. Sound(w') /\ updates' \in Seq(Nat) /\ peer + Total(updates)' = Counted(w)'
    BY <1>1, <2>2, <2>3, BecomesTells
  <2> QED  BY <1>1, <1>3, <2>4 DEF WindowInv, WindowTypes
<1> QED  BY <1>2, <1>3 DEF L!Consume

LEMMA SubmitKeeps ==
  ASSUME WindowInv, NEW n \in (-TopWindow .. TopWindow) \ {0},
         L!SubmitWindowUpdate(n)
  PROVE  WindowInv'
<1> DEFINE a == L!Adjust(w, n)
           u == [a.w EXCEPT !.consumed = L!Greatest(0, @ - a.delta)]
<1>1. ~failed /\ auto' = auto /\ peer' = peer /\ unread' = unread /\ failed' = failed
  BY DEF L!SubmitWindowUpdate
<1>2. TopWindow \in Nat /\ n \in Int
  BY WindowBounds
<1>3. Tells(w, a.w, a.delta)
  <2>1. CASE n > 0
    BY <1>2, <2>1, EnlargeTells DEF L!Adjust, WindowInv, WindowTypes
  <2>2. CASE ~ (n > 0)
    BY <1>2, <2>2, ReduceTells DEF L!Adjust, WindowInv, WindowTypes
  <2> QED  BY <2>1, <2>2
<1>4. CASE a.delta > 0
  <2>1. L!Becomes(L!AddUpdate(u, a.delta))
    BY <1>4 DEF L!SubmitWindowUpdate
  <2>2. Tells(w, u, a.delta)
    <3> HIDE DEF a
    <3> QED  BY <1>3 DEF Tells, Sound, Counted, WindowForm, L!Greatest
  <2> HIDE DEF a, u
  <2>3. IsTold(w, L!AddUpdate(u, a.delta))
    BY <2>2, AddUpdateTold
  <2>4. Sound(w') /\ updates' \in Seq(Nat) /\ peer + Total(updates)' = Counted(w)'
    BY <1>1, <2>1, <2>3, BecomesTells
  <2> QED  BY <1>1, <2>4 DEF WindowInv, WindowTypes
<1>5. CASE ~ (a.delta > 0)
  <2>1. w' = a.w /\ updates' = updates
    BY <1>5 DEF L!SubmitWindowUpdate
  <2> HIDE DEF a, u
  <2>2. Sound(w') /\ Counted(w') = Counted(w)
    <3>1. Tells(w, a.w, a.delta)
      BY <1>3 DEF a
    <3>2. a.delta = 0
      BY <1>5, <3>1 DEF Tells
    <3> QED  BY <2>1, <3>1, <3>2 DEF Tells
  <2> QED  BY <1>1, <2>1, <2>2 DEF WindowInv, WindowTypes
<1> QED  BY <1>4, <1>5

LEMMA SetSizeKeeps ==
  ASSUME WindowInv, NEW n \in 0 .. TopWindow, L!SetLocalWindowSize(n)
  PROVE  WindowInv'
<1> DEFINE d == n - w.local
           a == IF n < w.local THEN L!Reduce(w, d) ELSE L!Increase(w, d)
<1>1. /\ ~failed /\ auto' = auto /\ peer' = peer /\ unread' = unread /\ failed' = failed
      /\ n # w.local
  BY DEF L!SetLocalWindowSize
<1>2. TopWindow \in Nat /\ d \in Int /\ d # 0 /\ (n < w.local <=> d < 0)
  BY <1>1, WindowBounds DEF WindowInv, WindowTypes, Sound, WindowForm
<1>3. Tells(w, a.w, a.delta)
  <2>1. CASE n < w.local
    BY <1>2, <2>1, ReduceTells DEF WindowInv, WindowTypes
  <2>2. CASE ~ (n < w.local)
    BY <1>2, <2>2, IncreaseTells DEF WindowInv, WindowTypes
  <2> QED  BY <2>1, <2>2
<1>4. \/ a.delta > 0 /\ L!Becomes(L!AddUpdate(a.w, a.delta))
      \/ ~ (a.delta > 0) /\ L!Becomes(L!UpdateRecvd(a.w))
      \/ ~ (a.delta > 0) /\ w' = a.w /\ updates' = updates
  BY DEF L!SetLocalWindowSize
<1> HIDE DEF a
<1>5. ~ (a.delta > 0) => a.delta = 0
  BY <1>3 DEF Tells
<1>6. CASE L!Becomes(L!AddUpdate(a.w, a.delta))
  <2>1. Sound(w') /\ updates' \in Seq(Nat) /\ peer + Total(updates)' = Counted(w)'
    BY <1>1, <1>3, <1>6, AddUpdateTold, BecomesTells
  <2> QED  BY <1>1, <2>1 DEF WindowInv, WindowTypes
<1>7. CASE a.delta = 0 /\ L!Becomes(L!UpdateRecvd(a.w))
  <2>1. Sound(w') /\ updates' \in Seq(Nat) /\ peer + Total(updates)' = Counted(w)'
    BY <1>1, <1>3, <1>7, UpdateRecvdTold, BecomesTells
  <2> QED  BY <1>1, <2>1 DEF WindowInv, WindowTypes
<1>8. CASE a.delta = 0 /\ w' = a.w /\ updates' = updates
  <2>1. Sound(w') /\ Counted(w') = Counted(w)
    BY <1>3, <1>8 DEF Tells, Counted, Sound, WindowForm, WindowInv, WindowTypes
  <2> QED  BY <1>1, <1>8, <2>1 DEF WindowInv, WindowTypes
<1> QED  BY <1>4, <1>5, <1>6, <1>7, <1>8

LEMMA SendUpdateKeeps ==
  ASSUME WindowInv, L!SendUpdate PROVE WindowInv'
<1> DEFINE v == [w EXCEPT !.queued = FALSE]
           r == IF auto THEN L!UpdateRecvd(v) ELSE L!UpdateConsumed(v)
<1>1. /\ ~failed /\ updates # <<>> /\ auto' = auto /\ unread' = unread /\ failed' = failed
      /\ peer' = peer + Head(updates) /\ w' = r.w /\ updates' = Tail(updates) \o r.frames
  BY DEF L!SendUpdate
<1>2. /\ Head(updates) \in Nat /\ Tail(updates) \in Seq(Nat)
      /\ Total(updates) = Head(updates) + Total(Tail(updates)) /\ Total(Tail(updates)) \in Nat
  <2>1. updates \in Seq(Nat) /\ updates \in Seq(Int) /\ updates # <<>>
    BY <1>1, TotalNat DEF WindowInv, WindowTypes
  <2>2. Head(updates) \in Nat /\ Tail(updates) \in Seq(Nat)
    BY <2>1
  <2> QED  BY <2>1, <2>2, TotalTail, TotalNat
<1>3. Tells(w, v, 0)
  <2>1. Sound(w)
    BY DEF WindowInv, WindowTypes
  <2>2. /\ v.local = w.local /\ v.reduction = w.reduction /\ v.recvd = w.recvd
        /\ v \in WindowForm
    BY <2>1 DEF Sound, WindowForm
  <2> HIDE DEF v
  <2> QED  BY <2>1, <2>2, FieldsOf, WindowBounds DEF Tells, Sound, Counted
<1> HIDE DEF v
<1>4. IsTold(w, r)
  BY <1>3, UpdateRecvdTold, UpdateConsumedTold
<1> HIDE DEF r
<1>5. /\ updates' \in Seq(Nat) /\ Sound(w')
      /\ Total(updates') - Total(Tail(updates)) = Counted(w') - Counted(w)
  BY <1>1, <1>2, <1>4, LaterTold
<1>6. Total(updates') \in Int /\ Counted(w') \in Int /\ Counted(w) \in Int
  BY <1>5, TotalNat, CountedInt DEF WindowInv, WindowTypes
<1>7. peer' \in Nat /\ peer' + Total(updates') = Counted(w')
  <2>1. peer \in Nat /\ peer + Total(updates) = Counted(w)
    BY <1>1 DEF WindowInv, WindowTypes
  <2> DEFINE all == Total(updates)  later == Total(updates')  rest == Total(Tail(updates))
             now == Counted(w)  then == Counted(w')  n == Head(updates)
  <2>2. /\ later - rest = then - now /\ peer + all = now /\ peer' = peer + n
        /\ all = n + rest
    BY <1>1, <1>2, <1>5, <2>1
  <2>3. /\ all \in Int /\ later \in Int /\ rest \in Int /\ now \in Int /\ then \in Int
        /\ peer \in Nat /\ n \in Nat
    BY <1>2, <1>6, <2>1
  <2> HIDE DEF all, later, rest, now, then, n
  <2>4. peer' \in Nat /\ peer' + later = then
    BY <2>2, <2>3
  <2> QED  BY <2>4 DEF later, then
<1> QED  BY <1>1, <1>5, <1>7 DEF WindowInv, WindowTypes

LEMMA WindowStep == WindowInv /\ [L!Next]_L!windowVars => WindowInv'
<1> SUFFICES ASSUME WindowInv, [L!Next]_L!windowVars PROVE WindowInv'
  OBVIOUS
<1>1. CASE L!Next
  BY <1>1, WindowReceiveKeeps, WindowConsumeKeeps, SubmitKeeps, SetSizeKeeps, SendUpdateKeeps
     DEF L!Next
<1>2. CASE UNCHANGED L!windowVars
  BY <1>2 DEF L!windowVars, WindowInv, WindowTypes
<1> QED  BY <1>1, <1>2

(***************************************************************************)
(* However the application changes a window, the peer may send exactly     *)
(* what the session counts on, no more than the greatest window, and is    *)
(* not accused while the session gives back by itself                      *)
(* (nghttp2_submit_window_update, nghttp2_session_set_local_window_size).  *)
(***************************************************************************)
THEOREM PeerCountsAlike == L!Spec => []WindowsAgree
<1>1. WindowInv => WindowsAgree
  <2> SUFFICES ASSUME WindowInv PROVE WindowsAgree
    OBVIOUS
  <2>1. Total(updates) \in Nat /\ L!Total(updates) = Total(updates)
    BY TotalNat DEF WindowInv, WindowTypes, Total, L!Total
  <2> QED  BY <2>1, WindowBounds
           DEF WindowsAgree,
               L!WindowsAgree, L!Promised, WindowInv, WindowTypes, Sound, WindowForm, Counted
<1> QED  BY <1>1, WindowInitKeeps, WindowStep, PTL DEF L!Spec

-----------------------------------------------------------------------------
(* Messages: what is fine of each part, and what the stream remembers      *)

RequestPseudo == {"method", "path", "scheme", "authority"}

RequestOk(list) ==
  /\ G!WellFormed(list, RequestPseudo) /\ ~G!Has(list, "method", "CONNECT")
  /\ G!Once(G!Named(list, "host")) /\ \A i \in G!Named(list, "host") : list[i].form = "ok"
  /\ G!OneLength(list)

RequestWhole(list) ==
  /\ \A name \in {"method", "path", "scheme"} : G!Named(list, name) # {}
  /\ G!Named(list, "authority") # {} \/ G!Named(list, "host") # {}
  /\ G!Has(list, "scheme", "http") =>
       G!Has(list, "path", "/") \/ (G!Has(list, "path", "*") /\ G!Has(list, "method", "OPTIONS"))

FinalOk(list) ==
  /\ G!WellFormed(list, {"status"}) /\ G!Numbers(list, "status") \cap {NaN, 101} = {}
  /\ G!OneLength(list)
  /\ G!Numbers(list, "content-length") # {} =>
       /\ \A n \in G!Numbers(list, "status") : n \div 100 # 1
       /\ 204 \in G!Numbers(list, "status") =>
            \A i \in G!Named(list, "content-length") : list[i].value = "0"

Bodyless(request, final) ==
  G!Has(request, "method", "HEAD") \/ G!Numbers(final, "status") \cap {204, 304} # {}

TrailerOk(m) ==
  /\ G!WellFormed(m.trailer, {}) /\ G!OneLength(m.trailer)
  /\ G!Numbers(m.final, "content-length") = {} \/ G!Numbers(m.trailer, "content-length") = {}
  /\ Bodyless(m.request, m.final) => G!Numbers(m.trailer, "content-length") = {}
  /\ "trailer" \in m.closed => m.ended

LengthsLeft(m, said) == IF Bodyless(m.request, m.final) THEN {0} ELSE said

DataOk(m) ==
  /\ m.data > 0 => /\ "final" \in m.closed
                   /\ \A n \in LengthsLeft(m, G!Numbers(m.final, "content-length")) : m.data <= n
  /\ m.ended => /\ "final" \in m.closed
                /\ \A n \in LengthsLeft(m, G!Numbers(m.final, "content-length")
                                      \cup G!Numbers(m.trailer, "content-length")) : m.data = n

Fine(m) ==
  /\ RequestOk(m.request) /\ ("request" \in m.closed => RequestWhole(m.request))
  /\ FinalOk(m.final) /\ ("final" \in m.closed => G!Numbers(m.final, "status") # {})
  /\ TrailerOk(m) /\ DataOk(m)

\* A length is remembered as NaN if there is none.
Remembers(number, numbers) == (numbers = {} => number = NaN) /\ \A n \in numbers : number = n

TracksRequest(s, list) ==
  /\ \A name \in RequestPseudo \cup {"host"} : name \in s.flags <=> G!Named(list, name) # {}
  /\ "regular" \in s.flags <=> \E i \in DOMAIN list : ~G!IsPseudo(list[i])
  /\ \A name \in DOMAIN G!Flagged : \A value \in G!Flagged[name] :
       value \in s.flags <=> G!Has(list, name, value)
  /\ Remembers(s.length, G!Numbers(list, "content-length"))
  /\ s.status = NaN /\ s.received = 0 /\ s.awaits = "request"

\* A content-length of a 204 answer leaves no mark.
TracksFinal(s, request, list) ==
  /\ s.awaits \in {"first", "later"} /\ ("interim" \in s.flags <=> s.awaits = "later")
  /\ "HEAD" \in s.flags <=> G!Has(request, "method", "HEAD")
  /\ "status" \in s.flags <=> G!Named(list, "status") # {}
  /\ "regular" \in s.flags => \E i \in DOMAIN list : ~G!IsPseudo(list[i])
  /\ "regular" \notin s.flags /\ s.status # 204 => \A i \in DOMAIN list : G!IsPseudo(list[i])
  /\ Remembers(s.status, G!Numbers(list, "status"))
  /\ Remembers(s.length, G!Numbers(list, "content-length"))
  /\ s.received = 0

TracksTrailer(s, m) ==
  /\ s.awaits = "later" /\ "interim" \notin s.flags
  /\ \A n \in G!Numbers(m.final, "status") : s.status = n
  /\ s.status \div 100 # 1
  /\ Remembers(s.length, LengthsLeft(m, G!Numbers(m.final, "content-length")
                               \cup G!Numbers(m.trailer, "content-length")))
  /\ s.received = m.data

\* What the parts of the message are that have not begun yet.
Tracks(s, m) ==
  CASE m.part = "request" -> /\ TracksRequest(s, m.request)
                             /\ m.final = <<>> /\ m.trailer = <<>>
                             /\ m.closed = {} /\ m.data = 0
    [] m.part = "final"   -> /\ TracksFinal(s, m.request, m.final)
                             /\ m.trailer = <<>> /\ m.closed = {} /\ m.data = 0
    [] m.part = "trailer" -> TracksTrailer(s, m) /\ m.closed \ {"trailer"} = {"final"}

StreamTypes(s) ==
  /\ s \in [awaits : {"request", "first", "later"}, flags : {s.flags}, status : Int, length : Int,
            received : Nat, verdict : {"open", "reset", "done"}]

MessageTypes(m) ==
  m \in [part : {"request", "final", "trailer"}, request : Seq(Fields), final : Seq(Fields),
         trailer : Seq(Fields), closed : SUBSET {"request", "final", "trailer"}, data : Nat,
         ended : BOOLEAN]

Judged(s, m) ==
  /\ StreamTypes(s) /\ MessageTypes(m)
  /\ s.verdict = "reset" => ~Fine(m)
  /\ s.verdict # "reset" => Fine(m) /\ (s.verdict = "done" <=> m.ended)
  /\ s.verdict = "open" => Tracks(s, m) /\ m.closed \subseteq {"final"}

MessagesInv == Judged(stream, message)

LEMMA FineIs ==
  /\ Fine(message) <=> G!RequestFine /\ G!FinalFine /\ G!TrailerFine /\ G!DataFine
<1>1. RequestOk(message.request) /\ ("request" \in message.closed => RequestWhole(message.request))
        <=> G!RequestFine
  BY DEF RequestOk, RequestWhole, G!RequestFine, RequestPseudo
<1>2. FinalOk(message.final)
      /\ ("final" \in message.closed => G!Numbers(message.final, "status") # {}) <=> G!FinalFine
  BY DEF FinalOk, G!FinalFine, G!HeadLength, G!Status
<1>3. TrailerOk(message) <=> G!TrailerFine
  BY DEF TrailerOk, G!TrailerFine, G!HeadLength, G!TrailerLength, G!NoBody, G!Status, Bodyless
<1>4. DataOk(message) <=> G!DataFine
  BY DEF DataOk, G!DataFine, G!HeadLength, G!TrailerLength, G!NoBody, G!Status, Bodyless, LengthsLeft,
         G!Lengths
<1> QED  BY <1>1, <1>2, <1>3, <1>4 DEF Fine

LEMMA Extended ==
  ASSUME NEW list \in Seq(Fields), NEW f \in Fields
  PROVE  /\ Append(list, f) \in Seq(Fields)
         /\ DOMAIN list = 1 .. Len(list) /\ Len(list) \in Nat
         /\ DOMAIN Append(list, f) = 1 .. Len(list) + 1
         /\ Append(list, f)[Len(list) + 1] = f
         /\ \A i \in 1 .. Len(list) : Append(list, f)[i] = list[i] /\ list[i] \in Fields
OBVIOUS

LEMMA NamedAppend ==
  ASSUME NEW list \in Seq(Fields), NEW f \in Fields, NEW name
  PROVE  /\ G!Taken(f) /\ f.name = name =>
              G!Named(Append(list, f), name) = G!Named(list, name) \cup {Len(list) + 1}
         /\ ~(G!Taken(f) /\ f.name = name) => G!Named(Append(list, f), name) = G!Named(list, name)
BY Extended DEF G!Named

LEMMA NumbersAppend ==
  ASSUME NEW list \in Seq(Fields), NEW f \in Fields, NEW name
  PROVE  /\ G!Taken(f) /\ f.name = name =>
              G!Numbers(Append(list, f), name) = G!Numbers(list, name) \cup {f.n}
         /\ ~(G!Taken(f) /\ f.name = name) =>
              G!Numbers(Append(list, f), name) = G!Numbers(list, name)
<1> DEFINE more == Append(list, f)
<1>1. \A i \in G!Named(list, name) : more[i] = list[i]
  BY Extended DEF G!Named
<1>2. more[Len(list) + 1] = f
  BY Extended
<1>3. ASSUME G!Taken(f), f.name = name
      PROVE  G!Numbers(more, name) = G!Numbers(list, name) \cup {f.n}
  <2>1. G!Named(more, name) = G!Named(list, name) \cup {Len(list) + 1}
    BY <1>3, NamedAppend
  <2> HIDE DEF more
  <2> QED  BY <1>1, <1>2, <2>1 DEF G!Numbers
<1>4. ASSUME ~(G!Taken(f) /\ f.name = name) PROVE G!Numbers(more, name) = G!Numbers(list, name)
  <2>1. G!Named(more, name) = G!Named(list, name)
    BY <1>4, NamedAppend
  <2> HIDE DEF more
  <2> QED  BY <1>1, <2>1 DEF G!Numbers
<1> QED  BY <1>3, <1>4

LEMMA HasAppend ==
  ASSUME NEW list \in Seq(Fields), NEW f \in Fields, NEW name, NEW value
  PROVE  G!Has(Append(list, f), name, value) <=>
           G!Has(list, name, value) \/ (f.name = name /\ f.value = value)
<1> DEFINE more == Append(list, f)
<1>1. /\ DOMAIN list = 1 .. Len(list) /\ Len(list) \in Nat /\ DOMAIN more = 1 .. Len(list) + 1
      /\ more[Len(list) + 1] = f /\ \A i \in 1 .. Len(list) : more[i] = list[i]
  BY Extended
<1> QED  BY <1>1 DEF G!Has

LEMMA WellFormedAppend ==
  ASSUME NEW list \in Seq(Fields), NEW f \in Fields, NEW pseudo
  PROVE  G!WellFormed(Append(list, f), pseudo) <=>
           /\ G!WellFormed(list, pseudo)
           /\ f.form # "upper" /\ (G!Taken(f) => ~G!BadForAll(f))
           /\ G!IsPseudo(f) =>
                /\ f.form = "ok" /\ f.name \in pseudo
                /\ \A j \in DOMAIN list : G!IsPseudo(list[j]) /\ list[j].name # f.name
<1> DEFINE more == Append(list, f)
           n == Len(list)
           Good(q, i) ==
             /\ q[i].form # "upper" /\ (G!Taken(q[i]) => ~G!BadForAll(q[i]))
             /\ G!IsPseudo(q[i]) =>
                  /\ q[i].form = "ok" /\ q[i].name \in pseudo
                  /\ \A j \in 1 .. i - 1 : G!IsPseudo(q[j]) /\ q[j].name # q[i].name
<1>1. /\ DOMAIN list = 1 .. n /\ n \in Nat /\ DOMAIN more = 1 .. n + 1
      /\ more[n + 1] = f /\ \A i \in 1 .. n : more[i] = list[i]
  BY Extended
<1>2. G!WellFormed(list, pseudo) <=> \A i \in 1 .. n : Good(list, i)
  BY <1>1 DEF G!WellFormed
<1>3. G!WellFormed(more, pseudo) <=> \A i \in 1 .. n + 1 : Good(more, i)
  BY <1>1 DEF G!WellFormed
<1>4. ASSUME NEW i \in 1 .. n PROVE Good(more, i) <=> Good(list, i)
  <2>1. more[i] = list[i] /\ \A j \in 1 .. i - 1 : more[j] = list[j]
    BY <1>1
  <2> HIDE DEF more
  <2> QED  BY <2>1
<1>5. Good(more, n + 1) <=>
        /\ f.form # "upper" /\ (G!Taken(f) => ~G!BadForAll(f))
        /\ G!IsPseudo(f) =>
             /\ f.form = "ok" /\ f.name \in pseudo
             /\ \A j \in 1 .. n : G!IsPseudo(list[j]) /\ list[j].name # f.name
  <2>1. n + 1 - 1 = n /\ more[n + 1] = f /\ \A j \in 1 .. n : more[j] = list[j]
    BY <1>1
  <2> HIDE DEF more
  <2> QED  BY <2>1
<1>6. (\A i \in 1 .. n + 1 : Good(more, i)) <=> (\A i \in 1 .. n : Good(more, i)) /\ Good(more, n + 1)
  <2>1. 1 .. n + 1 = (1 .. n) \cup {n + 1}
    BY <1>1
  <2> HIDE DEF Good
  <2> QED  BY <2>1
<1> HIDE DEF Good, more
<1> QED  BY <1>1, <1>2, <1>3, <1>4, <1>5, <1>6 DEF more

LEMMA OnceMore ==
  ASSUME NEW places, NEW p, p \notin places
  PROVE  G!Once(places \cup {p}) <=> places = {}
BY DEF G!Once

LEMMA Nowhere ==
  ASSUME NEW list \in Seq(Fields), NEW name
  PROVE  /\ Len(list) + 1 \notin G!Named(list, name)
         /\ G!Numbers(list, name) = {} <=> G!Named(list, name) = {}
         /\ \A i \in G!Named(list, name) : i \in 1 .. Len(list)
<1>1. DOMAIN list = 1 .. Len(list) /\ Len(list) \in Nat
  OBVIOUS
<1>2. G!Named(list, name) \subseteq 1 .. Len(list)
  BY <1>1 DEF G!Named
<1>3. Len(list) + 1 \notin 1 .. Len(list)
  BY <1>1
<1>4. G!Numbers(list, name) = {} <=> G!Named(list, name) = {}
  BY DEF G!Numbers
<1> QED  BY <1>2, <1>3, <1>4

LEMMA OneLengthAppend ==
  ASSUME NEW list \in Seq(Fields), NEW f \in Fields
  PROVE  G!OneLength(Append(list, f)) <=>
           /\ G!OneLength(list)
           /\ G!Taken(f) /\ f.name = "content-length" =>
                G!Numbers(list, "content-length") = {} /\ f.n # NaN
<1> DEFINE more == Append(list, f)
           old == G!Named(list, "content-length")
<1>1. \A i \in old : more[i] = list[i]
  BY Extended DEF G!Named
<1>2. more[Len(list) + 1] = f
  BY Extended
<1>3. CASE G!Taken(f) /\ f.name = "content-length"
  <2>1. G!Named(more, "content-length") = old \cup {Len(list) + 1}
    BY <1>3, NamedAppend
  <2>2. G!Once(G!Named(more, "content-length")) <=> old = {}
    BY <2>1, OnceMore, Nowhere
  <2>3. old = {} => G!OneLength(list)
    BY DEF G!OneLength, G!Once
  <2>4. G!Numbers(list, "content-length") = {} <=> old = {}
    BY Nowhere
  <2>5. old = {} => (G!OneLength(more) <=> f.n # NaN)
    BY <1>2, <2>1, <2>2 DEF G!OneLength
  <2>6. old # {} => ~G!OneLength(more)
    BY <2>2 DEF G!OneLength
  <2> QED  BY <1>3, <2>3, <2>4, <2>5, <2>6
<1>4. CASE ~(G!Taken(f) /\ f.name = "content-length")
  <2>1. G!Named(more, "content-length") = old
    BY <1>4, NamedAppend
  <2> QED  BY <1>1, <1>4, <2>1 DEF G!OneLength
<1> QED  BY <1>3, <1>4

-----------------------------------------------------------------------------
(* One more field of a promised request                                    *)

LEMMA FlaggedIs ==
  /\ DOMAIN G!Flagged = {"method", "path", "scheme"}
  /\ G!Flagged["method"] = {"HEAD", "OPTIONS"} /\ G!Flagged["path"] = {"/", "*"}
  /\ G!Flagged["scheme"] = {"http"}
BY DEF G!Flagged, G!Methods

\* What a field leaves behind, by its kind.
LEMMA NotedIs ==
  ASSUME NEW s, StreamTypes(s), NEW f \in Fields
  PROVE  /\ G!Noted(s, f).awaits = s.awaits /\ G!Noted(s, f).received = s.received
         /\ G!Noted(s, f).verdict = s.verdict
         /\ G!Noted(s, f).status = IF f.name = "status" THEN f.n ELSE s.status
         /\ G!Noted(s, f).length = IF f.name = "content-length" /\ s.status = 204 THEN 0
                                   ELSE IF f.name = "content-length" THEN f.n ELSE s.length
         /\ \A x : x \in G!Noted(s, f).flags <=>
              \/ x \in s.flags
              \/ G!IsPseudo(f) /\ (x = f.name \/ (/\ f.name \in DOMAIN G!Flagged
                                                  /\ x = f.value /\ x \in G!Flagged[f.name]))
              \/ ~G!IsPseudo(f) /\ ~(f.name = "content-length" /\ s.status = 204)
                 /\ (x = "regular" \/ (x = "host" /\ f.name = "host"))
         /\ StreamTypes(G!Noted(s, f))
<1> DEFINE removed == f.name = "content-length" /\ s.status = 204
           values == IF f.name \in DOMAIN G!Flagged THEN {f.value} \cap G!Flagged[f.name] ELSE {}
           more == IF G!IsPseudo(f) THEN {f.name} \cup values
                   ELSE IF removed THEN {} ELSE {"regular"} \cup ({f.name} \cap {"host"})
           flags == s.flags \cup more
           status == IF f.name = "status" THEN f.n ELSE s.status
           length == IF removed THEN 0 ELSE IF f.name = "content-length" THEN f.n ELSE s.length
           t == [s EXCEPT !.flags = flags, !.status = status, !.length = length]
<1>1. G!Noted(s, f) = t
  BY DEF G!Noted, StreamTypes
<1>2. \A x : x \in flags <=>
        \/ x \in s.flags
        \/ G!IsPseudo(f) /\ (x = f.name \/ (/\ f.name \in DOMAIN G!Flagged
                                            /\ x = f.value /\ x \in G!Flagged[f.name]))
        \/ ~G!IsPseudo(f) /\ ~(f.name = "content-length" /\ s.status = 204)
           /\ (x = "regular" \/ (x = "host" /\ f.name = "host"))
  OBVIOUS
<1>3. f.n \in Int /\ s.status \in Int /\ s.length \in Int
  BY MessagesAssumed DEF G!MessagesAssumption, StreamTypes
<1>4. status \in Int /\ length \in Int
  BY <1>3
<1> HIDE DEF flags, status, length
<1>5. /\ t.awaits = s.awaits /\ t.received = s.received /\ t.verdict = s.verdict
      /\ t.status = status /\ t.length = length /\ t.flags = flags
      /\ t \in [awaits : {"request", "first", "later"}, flags : {flags}, status : Int,
               length : Int, received : Nat, verdict : {"open", "reset", "done"}]
  BY <1>4 DEF StreamTypes
<1> HIDE DEF t
<1>6. StreamTypes(t)
  BY <1>5 DEF StreamTypes
<1> QED  BY <1>1, <1>2, <1>5, <1>6 DEF status, length

LEMMA RejectIs ==
  ASSUME NEW s, StreamTypes(s)
  PROVE  G!Reject(s).verdict = "reset" /\ StreamTypes(G!Reject(s))
BY DEF G!Reject, StreamTypes

\* A field that is ignored leaves its mark.
IsIgnored(s, f) == f.form \in {"name", "value"} /\ ~G!IsPseudo(f)
Ignored(s) == [s EXCEPT !.flags = @ \cup {"regular"}]

LEMMA IgnoredIs ==
  ASSUME NEW s, StreamTypes(s)
  PROVE  /\ Ignored(s).awaits = s.awaits /\ Ignored(s).received = s.received
         /\ Ignored(s).verdict = s.verdict /\ Ignored(s).status = s.status
         /\ Ignored(s).length = s.length /\ Ignored(s).flags = s.flags \cup {"regular"}
         /\ StreamTypes(Ignored(s))
BY DEF Ignored, StreamTypes

LEMMA OnHeaderIs ==
  ASSUME NEW s, StreamTypes(s), NEW f \in Fields
  PROVE  /\ IsIgnored(s, f) => G!OnHeader(s, f) = Ignored(s)
         /\ f.form = "upper" \/ (f.form \in {"name", "value"} /\ G!IsPseudo(f)) =>
              G!OnHeader(s, f) = G!Reject(s)
         /\ f.form \notin {"name", "value", "upper"} =>
              /\ s.awaits = "request" /\ G!RequestRefuses(s, f) => G!OnHeader(s, f) = G!Reject(s)
              /\ s.awaits = "request" /\ ~G!RequestRefuses(s, f) => G!OnHeader(s, f) = G!Noted(s, f)
              /\ s.awaits # "request" /\ G!ResponseRefuses(s, f) => G!OnHeader(s, f) = G!Reject(s)
              /\ s.awaits # "request" /\ ~G!ResponseRefuses(s, f) => G!OnHeader(s, f) = G!Noted(s, f)
BY DEF G!OnHeader, IsIgnored, Ignored

LEMMA OnHeaderTypes ==
  ASSUME NEW s, StreamTypes(s), NEW f \in Fields
  PROVE  StreamTypes(G!OnHeader(s, f))
BY OnHeaderIs, RejectIs, NotedIs, IgnoredIs DEF IsIgnored

LEMMA PseudoIs == G!Pseudo = RequestPseudo \cup {"status", "other"}
BY DEF G!Pseudo, RequestPseudo

LEMMA NeverNumber == NaN \in Int /\ NaN < 0 /\ \A f \in Fields : f.n \in Int
BY MessagesAssumed DEF G!MessagesAssumption

\* When one more field leaves a request fine.
LEMMA RequestOkAppend ==
  ASSUME NEW list \in Seq(Fields), NEW f \in Fields, RequestOk(list)
  PROVE  RequestOk(Append(list, f)) <=>
           /\ f.form # "upper" /\ (G!Taken(f) => ~G!BadForAll(f))
           /\ G!IsPseudo(f) =>
                /\ f.form = "ok" /\ f.name \in RequestPseudo
                /\ \A j \in DOMAIN list : G!IsPseudo(list[j]) /\ list[j].name # f.name
           /\ ~(f.name = "method" /\ f.value = "CONNECT")
           /\ G!Taken(f) /\ f.name = "host" => f.form = "ok" /\ G!Named(list, "host") = {}
           /\ G!Taken(f) /\ f.name = "content-length" =>
                G!Numbers(list, "content-length") = {} /\ f.n # NaN
<1> DEFINE more == Append(list, f)
           Hosts(q) == G!Once(G!Named(q, "host")) /\ \A i \in G!Named(q, "host") : q[i].form = "ok"
<1>1. Hosts(more) <=> (G!Taken(f) /\ f.name = "host" => f.form = "ok" /\ G!Named(list, "host") = {})
  <2>1. \A i \in G!Named(list, "host") : more[i] = list[i]
    BY Extended DEF G!Named
  <2>2. more[Len(list) + 1] = f
    BY Extended
  <2>3. CASE G!Taken(f) /\ f.name = "host"
    <3>1. G!Named(more, "host") = G!Named(list, "host") \cup {Len(list) + 1}
      BY <2>3, NamedAppend
    <3>2. G!Once(G!Named(more, "host")) <=> G!Named(list, "host") = {}
      BY <3>1, OnceMore, Nowhere
    <3> HIDE DEF more
    <3> QED  BY <2>1, <2>2, <2>3, <3>1, <3>2
  <2>4. CASE ~(G!Taken(f) /\ f.name = "host")
    <3>1. G!Named(more, "host") = G!Named(list, "host")
      BY <2>4, NamedAppend
    <3>2. Hosts(list)
      BY DEF RequestOk
    <3> HIDE DEF more
    <3> QED  BY <2>1, <2>4, <3>1, <3>2
  <2> QED  BY <2>3, <2>4
<1>2. G!Has(more, "method", "CONNECT") <=> f.name = "method" /\ f.value = "CONNECT"
  BY HasAppend DEF RequestOk
<1>3. G!OneLength(more) <=> (G!Taken(f) /\ f.name = "content-length" =>
                              G!Numbers(list, "content-length") = {} /\ f.n # NaN)
  BY OneLengthAppend DEF RequestOk
<1>4. G!WellFormed(more, RequestPseudo) <=>
        /\ f.form # "upper" /\ (G!Taken(f) => ~G!BadForAll(f))
        /\ G!IsPseudo(f) =>
             /\ f.form = "ok" /\ f.name \in RequestPseudo
             /\ \A j \in DOMAIN list : G!IsPseudo(list[j]) /\ list[j].name # f.name
  BY WellFormedAppend DEF RequestOk
<1>5. RequestOk(more) <=> /\ G!WellFormed(more, RequestPseudo) /\ ~G!Has(more, "method", "CONNECT")
                          /\ Hosts(more) /\ G!OneLength(more)
  BY DEF RequestOk
<1> HIDE DEF more, Hosts
<1> QED  BY <1>1, <1>2, <1>3, <1>4, <1>5 DEF more

\* A pseudo-header of a fine request is taken.
LEMMA PseudoTaken ==
  ASSUME NEW list \in Seq(Fields), NEW pseudo, G!WellFormed(list, pseudo), NEW name \in G!Pseudo
  PROVE  G!Named(list, name) # {} <=> \E i \in DOMAIN list : list[i].name = name
BY DEF G!WellFormed, G!Named, G!IsPseudo, G!Taken

\* The stream's flags and length say which fields may still come.
LEMMA RequestFieldsKnown ==
  ASSUME NEW list \in Seq(Fields), RequestOk(list), NEW s, TracksRequest(s, list), NEW f \in Fields
  PROVE  /\ f.name \in RequestPseudo =>
              (f.name \in s.flags <=> \E j \in DOMAIN list : list[j].name = f.name)
         /\ "regular" \in s.flags <=> \E j \in DOMAIN list : ~G!IsPseudo(list[j])
         /\ f.name = "host" => (f.name \in s.flags <=> G!Named(list, "host") # {})
         /\ s.length = NaN <=> G!Numbers(list, "content-length") = {}
<1>1. ASSUME f.name \in RequestPseudo
      PROVE  f.name \in s.flags <=> \E j \in DOMAIN list : list[j].name = f.name
  BY <1>1, PseudoTaken, PseudoIs DEF TracksRequest, RequestOk
<1>2. s.length = NaN <=> G!Numbers(list, "content-length") = {}
  <2>1. \A n \in G!Numbers(list, "content-length") : n # NaN
    BY DEF RequestOk, G!OneLength, G!Numbers
  <2> QED  BY <2>1 DEF TracksRequest, Remembers
<1> QED  BY <1>1, <1>2 DEF TracksRequest

LEMMA RequestRefusesAsMeant ==
  ASSUME NEW list \in Seq(Fields), RequestOk(list), NEW s, StreamTypes(s), TracksRequest(s, list),
         NEW f \in Fields
  PROVE  G!OnHeader(s, f).verdict = "reset" \/ s.verdict = "reset" <=>
           ~RequestOk(Append(list, f)) \/ s.verdict = "reset"
<1>1. IsIgnored(s, f) => G!OnHeader(s, f).verdict = s.verdict /\ RequestOk(Append(list, f))
  <2> SUFFICES ASSUME IsIgnored(s, f)
               PROVE  G!OnHeader(s, f).verdict = s.verdict /\ RequestOk(Append(list, f))
    OBVIOUS
  <2>1. ~G!Taken(f) /\ f.form # "upper" /\ ~G!IsPseudo(f) /\ f.name # "method"
    BY DEF IsIgnored, G!Taken, G!IsPseudo, G!Pseudo
  <2> QED  BY <2>1, OnHeaderIs, IgnoredIs, RequestOkAppend
<1>2. f.form = "upper" \/ (f.form \in {"name", "value"} /\ G!IsPseudo(f)) =>
        G!OnHeader(s, f).verdict = "reset" /\ ~RequestOk(Append(list, f))
  BY OnHeaderIs, RejectIs, RequestOkAppend
<1>3. ASSUME f.form \notin {"name", "value", "upper"}
      PROVE  G!RequestRefuses(s, f) <=> ~RequestOk(Append(list, f))
  <2>1. f.form \in {"ok", "empty"} /\ G!Taken(f)
    BY <1>3, MessagesAssumed DEF G!Taken, G!MessagesAssumption
  <2>2. /\ f.name \in RequestPseudo =>
             (f.name \in s.flags <=> \E j \in DOMAIN list : list[j].name = f.name)
        /\ "regular" \in s.flags <=> \E j \in DOMAIN list : ~G!IsPseudo(list[j])
        /\ f.name = "host" => (f.name \in s.flags <=> G!Named(list, "host") # {})
        /\ s.length = NaN <=> G!Numbers(list, "content-length") = {}
    BY RequestFieldsKnown
  <2> DEFINE mixed == G!IsPseudo(f)
                      /\ ~(\A j \in DOMAIN list : G!IsPseudo(list[j]) /\ list[j].name # f.name)
             host == f.name = "host" /\ ~(f.form = "ok" /\ G!Named(list, "host") = {})
             length == f.name = "content-length"
                       /\ ~(G!Numbers(list, "content-length") = {} /\ f.n # NaN)
  <2>3. RequestOk(Append(list, f)) <=>
          /\ ~G!BadForAll(f) /\ (G!IsPseudo(f) => f.form = "ok" /\ f.name \in RequestPseudo)
          /\ ~mixed /\ ~(f.name = "method" /\ f.value = "CONNECT") /\ ~host /\ ~length
    BY <1>3, <2>1, RequestOkAppend
  <2>4. ~G!BadForAll(f) /\ f.form # "ok" => f.form = "empty"
    BY <2>1
  <2>5. G!IsPseudo(f) <=> f.name \in RequestPseudo \/ f.name \in {"status", "other"}
    BY PseudoIs DEF G!IsPseudo
  <2>6. "host" \notin RequestPseudo /\ "content-length" \notin RequestPseudo
        /\ "status" \notin RequestPseudo /\ "other" \notin RequestPseudo
    BY DEF RequestPseudo
  <2>7. length <=> f.name = "content-length" /\ (s.length # NaN \/ f.n = NaN)
    BY <2>2
  <2>8. host <=> f.name = "host" /\ G!Refused(s, f)
    BY <2>1, <2>2 DEF G!Refused
  <2>9. f.name \in RequestPseudo =>
          (mixed \/ f.form # "ok" <=> "regular" \in s.flags \/ G!Refused(s, f))
    BY <2>1, <2>2, <2>5 DEF G!Refused
  <2>10. f.name \in G!Pseudo <=> G!IsPseudo(f)
    BY DEF G!IsPseudo
  <2>11. mixed => G!IsPseudo(f)
    OBVIOUS
  <2>12. G!RequestRefuses(s, f) <=>
           \/ G!BadForAll(f) \/ f.name \in {"status", "other"}
           \/ G!IsPseudo(f) /\ "regular" \in s.flags
           \/ G!IsPseudo(f) /\ G!Refused(s, f)
           \/ host
           \/ f.name = "method" /\ f.value = "CONNECT"
           \/ length
    BY <2>7, <2>8, <2>10 DEF G!RequestRefuses
  <2> HIDE DEF mixed, host, length
  <2>13. CASE f.name \in RequestPseudo
    BY <2>3, <2>5, <2>6, <2>9, <2>12, <2>13
  <2>14. CASE f.name \notin RequestPseudo
    BY <2>3, <2>5, <2>11, <2>12, <2>14
  <2> QED  BY <2>13, <2>14
<1>4. s.awaits = "request" /\ G!Reject(s).verdict = "reset" /\ G!Noted(s, f).verdict = s.verdict
  BY RejectIs, NotedIs DEF TracksRequest
<1> QED  BY <1>1, <1>2, <1>3, <1>4, OnHeaderIs DEF IsIgnored

\* And it takes note of those that come.
LEMMA RequestTracked ==
  ASSUME NEW list \in Seq(Fields), RequestOk(list), NEW s, StreamTypes(s), TracksRequest(s, list),
         NEW f \in Fields, RequestOk(Append(list, f)), s.verdict = "open"
  PROVE  /\ TracksRequest(G!OnHeader(s, f), Append(list, f))
         /\ G!OnHeader(s, f).verdict = "open" /\ StreamTypes(G!OnHeader(s, f))
<1> DEFINE more == Append(list, f)
           t == G!OnHeader(s, f)
<1>1. G!OnHeader(s, f).verdict # "reset"
  BY RequestRefusesAsMeant
<1>2. s.awaits = "request" /\ s.status = NaN /\ s.received = 0
  BY DEF TracksRequest
<1>3. f.form = "upper" \/ (f.form \in {"name", "value"} /\ G!IsPseudo(f)) =>
        t.verdict = "reset"
  BY OnHeaderIs, RejectIs
<1>4. CASE IsIgnored(s, f)
  <2>1. t = Ignored(s)
    BY <1>4, OnHeaderIs
  <2>2. ~G!Taken(f) /\ ~G!IsPseudo(f)
    BY <1>4 DEF IsIgnored, G!Taken
  <2>3. \A name : G!Named(more, name) = G!Named(list, name)
                  /\ G!Numbers(more, name) = G!Numbers(list, name)
    BY <2>2, NamedAppend, NumbersAppend
  <2>4. \A name \in DOMAIN G!Flagged : f.name # name
    BY <2>2, FlaggedIs DEF G!IsPseudo, G!Pseudo
  <2>5. \A name \in DOMAIN G!Flagged : \A value : G!Has(more, name, value) <=> G!Has(list, name, value)
    BY <2>4, HasAppend
  <2>6. \E i \in DOMAIN more : ~G!IsPseudo(more[i])
    BY <2>2, Extended
  <2>7. /\ t.awaits = s.awaits /\ t.received = s.received /\ t.verdict = s.verdict
        /\ t.status = s.status /\ t.length = s.length /\ t.flags = s.flags \cup {"regular"}
        /\ StreamTypes(t)
    BY <2>1, IgnoredIs
  <2>8. \A name \in RequestPseudo \cup {"host"} : name \in t.flags <=> name \in s.flags
    BY <2>7 DEF RequestPseudo
  <2>9. \A name \in DOMAIN G!Flagged : \A value \in G!Flagged[name] :
          value \in t.flags <=> value \in s.flags
    BY <2>7, FlaggedIs
  <2>10. "regular" \in t.flags
    BY <2>7
  <2> HIDE DEF t, more, G!Flagged
  <2> QED  BY <2>3, <2>5, <2>6, <2>7, <2>8, <2>9, <2>10 DEF TracksRequest, more, t
<1>5. CASE ~IsIgnored(s, f)
  <2>1. f.form \notin {"name", "value", "upper"} /\ t = G!Noted(s, f)
    BY <1>1, <1>2, <1>3, <1>5, OnHeaderIs, RejectIs DEF IsIgnored
  <2>2. G!Taken(f)
    BY <2>1, MessagesAssumed DEF G!Taken, G!MessagesAssumption
  <2>3. /\ G!IsPseudo(f) => f.name \in RequestPseudo
        /\ f.name = "content-length" => G!Numbers(list, "content-length") = {}
    BY <2>2, RequestOkAppend
  <2>4. \A name : /\ f.name = name => G!Named(more, name) = G!Named(list, name) \cup {Len(list) + 1}
                                      /\ G!Numbers(more, name) = G!Numbers(list, name) \cup {f.n}
                  /\ f.name # name => G!Named(more, name) = G!Named(list, name)
                                      /\ G!Numbers(more, name) = G!Numbers(list, name)
    BY <2>2, NamedAppend, NumbersAppend
  <2>5. /\ t.awaits = s.awaits /\ t.received = s.received /\ t.verdict = s.verdict /\ StreamTypes(t)
        /\ t.status = IF f.name = "status" THEN f.n ELSE s.status
        /\ t.length = IF f.name = "content-length" /\ s.status = 204 THEN 0
                      ELSE IF f.name = "content-length" THEN f.n ELSE s.length
    BY <2>1, NotedIs
  <2>6. s.status # 204 /\ f.name # "status"
    BY <1>2, <2>3, NeverNumber DEF RequestPseudo, G!IsPseudo, G!Pseudo
  <2>7. \A x : x \in t.flags <=>
          \/ x \in s.flags
          \/ G!IsPseudo(f) /\ (x = f.name \/ (/\ f.name \in DOMAIN G!Flagged
                                              /\ x = f.value /\ x \in G!Flagged[f.name]))
          \/ ~G!IsPseudo(f) /\ (x = "regular" \/ (x = "host" /\ f.name = "host"))
    BY <2>1, <2>6, NotedIs
  <2> HIDE DEF t, more
  <2>8. ASSUME NEW name \in RequestPseudo \cup {"host"}
        PROVE  name \in t.flags <=> G!Named(more, name) # {}
    <3>1. G!IsPseudo(f) => f.name # "host" /\ f.name \in RequestPseudo
      BY <2>3 DEF RequestPseudo
    <3>2. ~G!IsPseudo(f) => f.name \notin RequestPseudo
      BY DEF G!IsPseudo, G!Pseudo, RequestPseudo
    <3>3. name # "regular" /\ \A k \in DOMAIN G!Flagged : name \notin G!Flagged[k]
      BY FlaggedIs DEF RequestPseudo
    <3>4. name \in t.flags <=> name \in s.flags \/ name = f.name
      BY <2>7, <3>1, <3>2, <3>3
    <3>5. name \in s.flags <=> G!Named(list, name) # {}
      BY DEF TracksRequest
    <3> QED  BY <2>4, <3>4, <3>5
  <2>9. "regular" \in t.flags <=> \E i \in DOMAIN more : ~G!IsPseudo(more[i])
    <3>1. (\E i \in DOMAIN more : ~G!IsPseudo(more[i])) <=>
            (\E i \in DOMAIN list : ~G!IsPseudo(list[i])) \/ ~G!IsPseudo(f)
      BY Extended DEF more
    <3>2. "regular" \notin DOMAIN G!Flagged /\ \A k \in DOMAIN G!Flagged : "regular" \notin G!Flagged[k]
      BY FlaggedIs
    <3>3. G!IsPseudo(f) => f.name # "regular"
      BY DEF G!IsPseudo, G!Pseudo
    <3>4. "regular" \in t.flags <=> "regular" \in s.flags \/ ~G!IsPseudo(f)
      BY <2>7, <3>2, <3>3
    <3> QED  BY <3>1, <3>4 DEF TracksRequest
  <2>10. ASSUME NEW name \in DOMAIN G!Flagged, NEW value \in G!Flagged[name]
         PROVE  value \in t.flags <=> G!Has(more, name, value)
    <3>1. value \notin G!Pseudo /\ value \notin {"regular", "host"}
          /\ \A k \in DOMAIN G!Flagged : value \in G!Flagged[k] => k = name
      BY FlaggedIs DEF G!Pseudo
    <3>2. f.name = name => G!IsPseudo(f)
      BY FlaggedIs DEF G!IsPseudo, G!Pseudo
    <3>3. G!IsPseudo(f) => value # f.name
      BY <3>1 DEF G!IsPseudo
    <3>4. value \in t.flags <=> value \in s.flags \/ (f.name = name /\ f.value = value)
      BY <2>7, <3>1, <3>2, <3>3
    <3>5. G!Has(more, name, value) <=> G!Has(list, name, value) \/ (f.name = name /\ f.value = value)
      BY HasAppend DEF more
    <3> QED  BY <3>4, <3>5 DEF TracksRequest
  <2>11. Remembers(t.length, G!Numbers(more, "content-length"))
    <3>1. /\ f.name = "content-length" =>
               G!Numbers(more, "content-length") = G!Numbers(list, "content-length") \cup {f.n}
          /\ f.name # "content-length" =>
               G!Numbers(more, "content-length") = G!Numbers(list, "content-length")
      BY <2>4
    <3> QED  BY <2>3, <2>5, <2>6, <3>1 DEF TracksRequest, Remembers
  <2> HIDE DEF G!Flagged
  <2> QED  BY <1>2, <2>5, <2>6, <2>8, <2>9, <2>10, <2>11 DEF TracksRequest, more, t
<1> QED  BY <1>4, <1>5

-----------------------------------------------------------------------------
(* One more field of an answer                                             *)

\* When one more field leaves an answer fine.
FinalTakes(list, f) ==
  /\ f.form # "upper" /\ (G!Taken(f) => ~G!BadForAll(f))
  /\ G!IsPseudo(f) => /\ f.form = "ok" /\ f.name = "status" /\ f.n \notin {NaN, 101}
                      /\ \A j \in DOMAIN list : G!IsPseudo(list[j]) /\ list[j].name # f.name
  /\ G!Taken(f) /\ f.name = "content-length" =>
       /\ G!Numbers(list, "content-length") = {} /\ f.n # NaN
       /\ \A n \in G!Numbers(list, "status") : n \div 100 # 1
       /\ 204 \in G!Numbers(list, "status") => f.value = "0"

LEMMA FinalOkAppend ==
  ASSUME NEW list \in Seq(Fields), NEW f \in Fields, FinalOk(list)
  PROVE  FinalOk(Append(list, f)) <=> FinalTakes(list, f)
<1> DEFINE more == Append(list, f)
           Form == /\ f.form # "upper" /\ (G!Taken(f) => ~G!BadForAll(f))
                   /\ G!IsPseudo(f) =>
                        /\ f.form = "ok" /\ f.name = "status"
                        /\ \A j \in DOMAIN list : G!IsPseudo(list[j]) /\ list[j].name # f.name
           Sized(q) ==
             G!Numbers(q, "content-length") # {} =>
               /\ \A n \in G!Numbers(q, "status") : n \div 100 # 1
               /\ 204 \in G!Numbers(q, "status") =>
                    \A i \in G!Named(q, "content-length") : q[i].value = "0"
<1>1. G!WellFormed(more, {"status"}) <=> Form
  BY WellFormedAppend DEF FinalOk
<1>2. G!OneLength(more) <=> (G!Taken(f) /\ f.name = "content-length" =>
                              G!Numbers(list, "content-length") = {} /\ f.n # NaN)
  BY OneLengthAppend DEF FinalOk
<1>3. FinalOk(more) <=> /\ Form /\ G!Numbers(more, "status") \cap {NaN, 101} = {}
                        /\ G!OneLength(more) /\ Sized(more)
  BY <1>1 DEF FinalOk
<1>4. Sized(list)
  BY DEF FinalOk
<1>5. "status" \in G!Pseudo /\ "content-length" \notin G!Pseudo
  BY DEF G!Pseudo
<1>6. \A i \in G!Named(list, "content-length") : more[i] = list[i]
  BY Extended DEF G!Named
<1>7. more[Len(list) + 1] = f
  BY Extended
<1>8. CASE ~G!Taken(f)
  <2>1. f.form # "ok"
    BY <1>8 DEF G!Taken
  <2>2. /\ G!Numbers(more, "status") = G!Numbers(list, "status")
        /\ G!Numbers(more, "content-length") = G!Numbers(list, "content-length")
        /\ G!Named(more, "content-length") = G!Named(list, "content-length")
    BY <1>8, NumbersAppend, NamedAppend
  <2>3. Sized(more)
    BY <1>4, <1>6, <2>2
  <2>4. G!Numbers(more, "status") \cap {NaN, 101} = {}
    BY <2>2 DEF FinalOk
  <2> HIDE DEF Sized
  <2> QED  BY <1>2, <1>3, <1>8, <2>1, <2>3, <2>4 DEF FinalTakes
<1>9. CASE G!Taken(f) /\ f.name = "status"
  <2>1. /\ G!Numbers(more, "status") = G!Numbers(list, "status") \cup {f.n}
        /\ G!Numbers(more, "content-length") = G!Numbers(list, "content-length")
    BY <1>9, NumbersAppend
  <2>2. G!IsPseudo(f)
    BY <1>5, <1>9 DEF G!IsPseudo
  <2>3. Form => G!Numbers(list, "content-length") = {}
    BY <1>5, <2>2 DEF G!Numbers, G!Named, G!IsPseudo
  <2>4. Form => Sized(more)
    BY <2>1, <2>3
  <2>5. G!Numbers(more, "status") \cap {NaN, 101} = {} <=> f.n \notin {NaN, 101}
    BY <2>1 DEF FinalOk
  <2>6. f.name # "content-length"
    BY <1>9
  <2> HIDE DEF Sized
  <2> QED  BY <1>2, <1>3, <1>9, <2>2, <2>4, <2>5, <2>6 DEF FinalTakes
<1>10. CASE G!Taken(f) /\ f.name = "content-length"
  <2>1. /\ G!Numbers(more, "content-length") = G!Numbers(list, "content-length") \cup {f.n}
        /\ G!Numbers(more, "status") = G!Numbers(list, "status")
        /\ G!Named(more, "content-length") = G!Named(list, "content-length") \cup {Len(list) + 1}
    BY <1>10, NumbersAppend, NamedAppend
  <2>2. ~G!IsPseudo(f)
    BY <1>5, <1>10 DEF G!IsPseudo
  <2>3. G!Numbers(list, "content-length") = {} => G!Named(list, "content-length") = {}
    BY Nowhere
  <2>4. G!Numbers(list, "content-length") = {} =>
          (Sized(more) <=> /\ \A n \in G!Numbers(list, "status") : n \div 100 # 1
                           /\ 204 \in G!Numbers(list, "status") => f.value = "0")
    <3> HIDE DEF more
    <3> QED  BY <1>7, <2>1, <2>3
  <2>5. G!Numbers(more, "status") \cap {NaN, 101} = {}
    BY <2>1 DEF FinalOk
  <2> HIDE DEF Sized
  <2> QED  BY <1>2, <1>3, <1>10, <2>2, <2>4, <2>5 DEF FinalTakes
<1>11. CASE G!Taken(f) /\ f.name \notin {"status", "content-length"}
  <2>1. /\ G!Numbers(more, "status") = G!Numbers(list, "status")
        /\ G!Numbers(more, "content-length") = G!Numbers(list, "content-length")
        /\ G!Named(more, "content-length") = G!Named(list, "content-length")
    BY <1>11, NumbersAppend, NamedAppend
  <2>2. Sized(more)
    BY <1>4, <1>6, <2>1
  <2>3. G!Numbers(more, "status") \cap {NaN, 101} = {}
    BY <2>1 DEF FinalOk
  <2> HIDE DEF Sized
  <2> QED  BY <1>2, <1>3, <1>11, <2>2, <2>3 DEF FinalTakes
<1> QED  BY <1>8, <1>9, <1>10, <1>11

\* What the stream knows of the fields that have come.
LEMMA FinalFieldsKnown ==
  ASSUME NEW list \in Seq(Fields), FinalOk(list), NEW s, NEW request, TracksFinal(s, request, list)
  PROVE  /\ "status" \in s.flags <=> \E j \in DOMAIN list : list[j].name = "status"
         /\ "regular" \in s.flags \/ "status" \in s.flags <=>
              \E j \in DOMAIN list : ~(G!IsPseudo(list[j]) /\ list[j].name # "status")
         /\ s.length = NaN <=> G!Numbers(list, "content-length") = {}
         /\ s.status = 204 <=> 204 \in G!Numbers(list, "status")
         /\ s.status \div 100 # 1 <=> \A n \in G!Numbers(list, "status") : n \div 100 # 1
         /\ "status" \notin s.flags => s.status = NaN
<1>1. "status" \in s.flags <=> \E j \in DOMAIN list : list[j].name = "status"
  <2>1. "status" \in G!Pseudo
    BY DEF G!Pseudo
  <2> QED  BY <2>1, PseudoTaken DEF TracksFinal, FinalOk
<1>2. "status" \notin s.flags => G!Numbers(list, "status") = {} /\ s.status = NaN
  BY Nowhere DEF TracksFinal, Remembers
<1>3. NaN # 204 /\ NaN \div 100 # 1
  BY NeverNumber
<1>4. "regular" \in s.flags \/ "status" \in s.flags <=>
        \E j \in DOMAIN list : ~(G!IsPseudo(list[j]) /\ list[j].name # "status")
  <2>1. "regular" \in s.flags => \E i \in DOMAIN list : ~G!IsPseudo(list[i])
    BY DEF TracksFinal
  <2>2. "regular" \notin s.flags /\ s.status # 204 => \A i \in DOMAIN list : G!IsPseudo(list[i])
    BY DEF TracksFinal
  <2> QED  BY <1>1, <1>2, <1>3, <2>1, <2>2
<1>5. s.length = NaN <=> G!Numbers(list, "content-length") = {}
  <2>1. \A n \in G!Numbers(list, "content-length") : n # NaN
    BY DEF FinalOk, G!OneLength, G!Numbers
  <2> QED  BY <2>1 DEF TracksFinal, Remembers
<1>6. /\ s.status = 204 <=> 204 \in G!Numbers(list, "status")
      /\ s.status \div 100 # 1 <=> \A n \in G!Numbers(list, "status") : n \div 100 # 1
  BY <1>3 DEF TracksFinal, Remembers
<1> QED  BY <1>1, <1>2, <1>4, <1>5, <1>6

LEMMA FinalRefusesAsMeant ==
  ASSUME NEW list \in Seq(Fields), FinalOk(list), NEW s, StreamTypes(s), NEW request,
         TracksFinal(s, request, list), NEW f \in Fields, s.verdict = "open"
  PROVE  G!OnHeader(s, f).verdict = "reset" <=> ~FinalTakes(list, f)
<1>1. s.awaits # "request" /\ ~G!Trailer(s) /\ G!Reject(s).verdict = "reset"
      /\ G!Noted(s, f).verdict = "open" /\ Ignored(s).verdict = "open"
  <2>1. s.awaits # "request" /\ ~G!Trailer(s)
    BY DEF TracksFinal, G!Trailer
  <2> QED  BY <2>1, RejectIs, NotedIs, IgnoredIs
<1>2. ASSUME IsIgnored(s, f) PROVE G!OnHeader(s, f).verdict = "open" /\ FinalTakes(list, f)
  <2>1. ~G!Taken(f) /\ f.form # "upper" /\ ~G!IsPseudo(f)
    BY <1>2 DEF IsIgnored, G!Taken
  <2> QED  BY <1>1, <1>2, <2>1, OnHeaderIs DEF FinalTakes
<1>3. ASSUME f.form = "upper" \/ (f.form \in {"name", "value"} /\ G!IsPseudo(f))
      PROVE  G!OnHeader(s, f).verdict = "reset" /\ ~FinalTakes(list, f)
  BY <1>1, <1>3, OnHeaderIs DEF FinalTakes
<1>4. ASSUME f.form \notin {"name", "value", "upper"}
      PROVE  G!ResponseRefuses(s, f) <=> ~FinalTakes(list, f)
  <2>1. f.form \in {"ok", "empty"} /\ G!Taken(f)
    BY <1>4, MessagesAssumed DEF G!Taken, G!MessagesAssumption
  <2>2. /\ "status" \in s.flags <=> \E j \in DOMAIN list : list[j].name = "status"
        /\ "regular" \in s.flags \/ "status" \in s.flags <=>
             \E j \in DOMAIN list : ~(G!IsPseudo(list[j]) /\ list[j].name # "status")
        /\ s.length = NaN <=> G!Numbers(list, "content-length") = {}
        /\ s.status = 204 <=> 204 \in G!Numbers(list, "status")
        /\ s.status \div 100 # 1 <=> \A n \in G!Numbers(list, "status") : n \div 100 # 1
    BY FinalFieldsKnown
  <2>3. CASE G!IsPseudo(f)
    <3>1. f.name \in G!Pseudo /\ f.name # "content-length"
      BY <2>3 DEF G!IsPseudo, G!Pseudo
    <3>2. CASE f.name # "status"
      BY <2>3, <3>1, <3>2 DEF G!ResponseRefuses, FinalTakes
    <3>3. CASE f.name = "status"
      <4>1. (\A j \in DOMAIN list : G!IsPseudo(list[j]) /\ list[j].name # f.name) <=>
              ~("regular" \in s.flags \/ "status" \in s.flags)
        BY <2>2, <3>3
      <4>2. FinalTakes(list, f) <=>
              ~G!BadForAll(f) /\ f.form = "ok" /\ f.n \notin {NaN, 101}
              /\ ~("regular" \in s.flags \/ "status" \in s.flags)
        BY <2>1, <2>3, <3>1, <3>3, <4>1 DEF FinalTakes
      <4> QED  BY <1>1, <2>1, <2>3, <3>1, <3>3, <4>2 DEF G!ResponseRefuses, G!Refused
    <3> QED  BY <3>2, <3>3
  <2>4. CASE ~G!IsPseudo(f) /\ f.name # "content-length"
    BY <2>1, <2>4 DEF G!ResponseRefuses, FinalTakes, G!IsPseudo, G!Pseudo
  <2>5. CASE f.name = "content-length"
    <3>1. ~G!IsPseudo(f) /\ f.name \notin G!Pseudo /\ f.name # "status"
      BY <2>5 DEF G!IsPseudo, G!Pseudo
    <3>2. G!ResponseRefuses(s, f) <=>
            \/ G!BadForAll(f) \/ s.length # NaN
            \/ IF s.status = 204 THEN f.value # "0" ELSE s.status \div 100 = 1 \/ f.n = NaN
      BY <2>5, <3>1 DEF G!ResponseRefuses
    <3>3. f.value = "0" => f.n # NaN
      BY <2>5, MessagesAssumed, NeverNumber DEF G!MessagesAssumption
    <3>4. s.status = 204 => s.status \div 100 # 1
      OBVIOUS
    <3>5. FinalTakes(list, f) <=>
            /\ ~G!BadForAll(f) /\ s.length = NaN /\ f.n # NaN /\ s.status \div 100 # 1
            /\ s.status = 204 => f.value = "0"
      BY <2>1, <2>2, <2>5, <3>1 DEF FinalTakes
    <3> QED  BY <3>2, <3>3, <3>4, <3>5
  <2> QED  BY <2>3, <2>4, <2>5
<1> QED  BY <1>1, <1>2, <1>3, <1>4, OnHeaderIs DEF IsIgnored

LEMMA FinalTracked ==
  ASSUME NEW list \in Seq(Fields), FinalOk(list), NEW s, StreamTypes(s), NEW request,
         TracksFinal(s, request, list), NEW f \in Fields, s.verdict = "open", FinalTakes(list, f)
  PROVE  /\ TracksFinal(G!OnHeader(s, f), request, Append(list, f))
         /\ G!OnHeader(s, f).verdict = "open" /\ StreamTypes(G!OnHeader(s, f))
<1> DEFINE more == Append(list, f)
           t == G!OnHeader(s, f)
<1>1. G!OnHeader(s, f).verdict # "reset"
  BY FinalRefusesAsMeant
<1>2. s.awaits # "request" /\ s.received = 0
  BY DEF TracksFinal
<1>3. f.form = "upper" \/ (f.form \in {"name", "value"} /\ G!IsPseudo(f)) => t.verdict = "reset"
  BY OnHeaderIs, RejectIs
<1>4. (\E i \in DOMAIN more : ~G!IsPseudo(more[i])) <=>
         (\E i \in DOMAIN list : ~G!IsPseudo(list[i])) \/ ~G!IsPseudo(f)
  BY Extended
<1>5. CASE IsIgnored(s, f)
  <2>1. t = Ignored(s)
    BY <1>5, OnHeaderIs
  <2>2. ~G!Taken(f) /\ ~G!IsPseudo(f)
    BY <1>5 DEF IsIgnored, G!Taken
  <2>3. /\ G!Named(more, "status") = G!Named(list, "status")
        /\ G!Numbers(more, "status") = G!Numbers(list, "status")
        /\ G!Numbers(more, "content-length") = G!Numbers(list, "content-length")
    BY <2>2, NamedAppend, NumbersAppend
  <2>4. /\ t.awaits = s.awaits /\ t.received = s.received /\ t.verdict = s.verdict
        /\ t.status = s.status /\ t.length = s.length /\ t.flags = s.flags \cup {"regular"}
        /\ StreamTypes(t)
    BY <2>1, IgnoredIs
  <2> HIDE DEF t, more
  <2>5. /\ "regular" \in t.flags /\ ("status" \in t.flags <=> "status" \in s.flags)
        /\ "interim" \in t.flags <=> "interim" \in s.flags
        /\ "HEAD" \in t.flags <=> "HEAD" \in s.flags
    BY <2>4
  <2> QED  BY <1>4, <2>2, <2>3, <2>4, <2>5 DEF TracksFinal, more, t
<1>6. CASE ~IsIgnored(s, f)
  <2>1. f.form \notin {"name", "value", "upper"} /\ t = G!Noted(s, f)
    BY <1>1, <1>2, <1>3, <1>6, OnHeaderIs, RejectIs DEF IsIgnored
  <2>2. G!Taken(f)
    BY <2>1, MessagesAssumed DEF G!Taken, G!MessagesAssumption
  <2>3. /\ t.awaits = s.awaits /\ t.received = s.received /\ t.verdict = s.verdict /\ StreamTypes(t)
        /\ t.status = IF f.name = "status" THEN f.n ELSE s.status
        /\ t.length = IF f.name = "content-length" /\ s.status = 204 THEN 0
                      ELSE IF f.name = "content-length" THEN f.n ELSE s.length
    BY <2>1, NotedIs
  <2>4. G!IsPseudo(f) => f.name = "status"
    BY DEF FinalTakes
  <2>5. \A x : x \in t.flags <=>
          \/ x \in s.flags
          \/ G!IsPseudo(f) /\ x = "status"
          \/ ~G!IsPseudo(f) /\ ~(f.name = "content-length" /\ s.status = 204)
             /\ (x = "regular" \/ (x = "host" /\ f.name = "host"))
    <3>1. "status" \notin DOMAIN G!Flagged
      BY FlaggedIs
    <3>2. \A x : x \in G!Noted(s, f).flags <=>
            \/ x \in s.flags
            \/ G!IsPseudo(f) /\ (x = f.name \/ (/\ f.name \in DOMAIN G!Flagged
                                                /\ x = f.value /\ x \in G!Flagged[f.name]))
            \/ ~G!IsPseudo(f) /\ ~(f.name = "content-length" /\ s.status = 204)
               /\ (x = "regular" \/ (x = "host" /\ f.name = "host"))
      BY NotedIs
    <3> QED  BY <2>1, <2>4, <3>1, <3>2
  <2>6. /\ f.name = "status" => G!Named(more, "status") = G!Named(list, "status") \cup {Len(list) + 1}
                                /\ G!Numbers(more, "status") = G!Numbers(list, "status") \cup {f.n}
        /\ f.name # "status" => G!Named(more, "status") = G!Named(list, "status")
                                /\ G!Numbers(more, "status") = G!Numbers(list, "status")
        /\ f.name = "content-length" =>
             G!Numbers(more, "content-length") = G!Numbers(list, "content-length") \cup {f.n}
        /\ f.name # "content-length" =>
             G!Numbers(more, "content-length") = G!Numbers(list, "content-length")
    BY <2>2, NamedAppend, NumbersAppend
  <2> HIDE DEF t, more
  <2>7. "status" \in G!Pseudo /\ "content-length" \notin G!Pseudo
    BY DEF G!Pseudo
  <2>8. /\ "interim" \in t.flags <=> "interim" \in s.flags
        /\ "HEAD" \in t.flags <=> "HEAD" \in s.flags
        /\ "status" \in t.flags <=> "status" \in s.flags \/ f.name = "status"
        /\ "regular" \in t.flags <=>
             \/ "regular" \in s.flags
             \/ ~G!IsPseudo(f) /\ ~(f.name = "content-length" /\ s.status = 204)
    BY <2>4, <2>5, <2>7 DEF G!IsPseudo
  <2>9. "status" \in t.flags <=> G!Named(more, "status") # {}
    BY <2>6, <2>8 DEF TracksFinal
  <2>10. f.name = "status" => G!Numbers(list, "status") = {} /\ f.n # NaN
    <3>1. f.name = "status" => G!IsPseudo(f)
      BY <2>7 DEF G!IsPseudo
    <3> QED  BY <3>1 DEF FinalTakes, G!Numbers, G!Named
  <2>11. Remembers(t.status, G!Numbers(more, "status"))
    BY <2>3, <2>6, <2>10 DEF TracksFinal, Remembers
  <2>12. f.name = "content-length" =>
           G!Numbers(list, "content-length") = {} /\ (s.status = 204 => f.n = 0)
    <3>1. f.name = "content-length" /\ f.value = "0" => f.n = 0
      BY MessagesAssumed DEF G!MessagesAssumption
    <3> QED  BY <2>2, <3>1, FinalFieldsKnown DEF FinalTakes
  <2>13. Remembers(t.length, G!Numbers(more, "content-length"))
    BY <2>3, <2>6, <2>12 DEF TracksFinal, Remembers
  <2>14. "regular" \in t.flags => \E i \in DOMAIN more : ~G!IsPseudo(more[i])
    BY <1>4, <2>8 DEF TracksFinal, more
  <2>15. "regular" \notin t.flags /\ t.status # 204 => \A i \in DOMAIN more : G!IsPseudo(more[i])
    <3> SUFFICES ASSUME "regular" \notin t.flags, t.status # 204
                 PROVE  \A i \in DOMAIN more : G!IsPseudo(more[i])
      OBVIOUS
    <3>1. "regular" \notin s.flags
      BY <2>8
    <3>2. CASE f.name = "status"
      <4>1. G!IsPseudo(f)
        BY <2>7, <3>2 DEF G!IsPseudo
      <4>2. \A j \in DOMAIN list : G!IsPseudo(list[j])
        BY <4>1 DEF FinalTakes
      <4> QED  BY <1>4, <4>1, <4>2 DEF more
    <3>3. CASE f.name # "status"
      <4>1. s.status # 204 /\ G!IsPseudo(f)
        BY <2>3, <2>8, <3>3
      <4> QED  BY <2>4, <3>3, <4>1
    <3> QED  BY <3>2, <3>3
  <2> QED  BY <1>2, <2>3, <2>8, <2>9, <2>11, <2>13, <2>14, <2>15 DEF TracksFinal, more, t
<1> QED  BY <1>5, <1>6

-----------------------------------------------------------------------------
(* One more field of the trailers                                          *)

TrailerTakes(m, f) ==
  /\ f.form # "upper" /\ (G!Taken(f) => ~G!BadForAll(f)) /\ ~G!IsPseudo(f)
  /\ G!Taken(f) /\ f.name = "content-length" =>
       /\ G!Numbers(m.trailer, "content-length") = {} /\ f.n # NaN
       /\ G!Numbers(m.final, "content-length") = {} /\ ~Bodyless(m.request, m.final)

\* The message with the field.
Extends(m, more, f) ==
  /\ more.trailer = Append(m.trailer, f) /\ more.request = m.request /\ more.final = m.final
  /\ more.closed = m.closed /\ more.ended = m.ended /\ more.data = m.data

LEMMA TrailerOkAppend ==
  ASSUME NEW m, MessageTypes(m), TrailerOk(m), NEW f \in Fields, NEW more, Extends(m, more, f)
  PROVE  TrailerOk(more) <=> TrailerTakes(m, f)
<1>1. m.trailer \in Seq(Fields)
  BY DEF MessageTypes
<1>2. G!WellFormed(more.trailer, {}) <=>
        f.form # "upper" /\ (G!Taken(f) => ~G!BadForAll(f)) /\ ~G!IsPseudo(f)
  BY <1>1, WellFormedAppend DEF TrailerOk, Extends
<1>3. G!OneLength(more.trailer) <=>
        (G!Taken(f) /\ f.name = "content-length" =>
           G!Numbers(m.trailer, "content-length") = {} /\ f.n # NaN)
  BY <1>1, OneLengthAppend DEF TrailerOk, Extends
<1>4. /\ G!Taken(f) /\ f.name = "content-length" => G!Numbers(more.trailer, "content-length") # {}
      /\ ~(G!Taken(f) /\ f.name = "content-length") =>
           G!Numbers(more.trailer, "content-length") = G!Numbers(m.trailer, "content-length")
  <2>1. more.trailer = Append(m.trailer, f)
    BY DEF Extends
  <2>2. CASE G!Taken(f) /\ f.name = "content-length"
    <3>1. G!Numbers(Append(m.trailer, f), "content-length") =
            G!Numbers(m.trailer, "content-length") \cup {f.n}
      BY <1>1, <2>2, NumbersAppend
    <3> QED  BY <2>1, <2>2, <3>1
  <2>3. CASE ~(G!Taken(f) /\ f.name = "content-length")
    BY <1>1, <2>1, <2>3, NumbersAppend
  <2> QED  BY <2>2, <2>3
<1>5. /\ G!Numbers(m.final, "content-length") = {} \/ G!Numbers(m.trailer, "content-length") = {}
      /\ Bodyless(m.request, m.final) => G!Numbers(m.trailer, "content-length") = {}
      /\ "trailer" \in more.closed => more.ended
  BY DEF TrailerOk, Extends
<1>6. TrailerOk(more) <=>
        /\ G!WellFormed(more.trailer, {}) /\ G!OneLength(more.trailer)
        /\ G!Numbers(m.final, "content-length") = {} \/ G!Numbers(more.trailer, "content-length") = {}
        /\ Bodyless(m.request, m.final) => G!Numbers(more.trailer, "content-length") = {}
  BY <1>5 DEF TrailerOk, Extends
<1> QED  BY <1>2, <1>3, <1>4, <1>5, <1>6 DEF TrailerTakes

\* The lengths that have been said are numbers.
LEMMA TrailerFieldsKnown ==
  ASSUME NEW m, MessageTypes(m), TrailerOk(m), FinalOk(m.final), NEW s, TracksTrailer(s, m),
         G!Numbers(m.final, "status") # {}
  PROVE  /\ s.length = NaN <=> /\ ~Bodyless(m.request, m.final)
                               /\ G!Numbers(m.final, "content-length") = {}
                               /\ G!Numbers(m.trailer, "content-length") = {}
         /\ s.length = NaN => s.status # 204
<1>1. /\ \A n \in G!Numbers(m.final, "content-length") : n # NaN
      /\ \A n \in G!Numbers(m.trailer, "content-length") : n # NaN
  BY DEF FinalOk, TrailerOk, G!OneLength, G!Numbers
<1>2. NaN # 0
  BY NeverNumber
<1>3. CASE Bodyless(m.request, m.final)
  <2>1. s.length = 0
    BY <1>3 DEF TracksTrailer, Remembers, LengthsLeft
  <2> QED  BY <1>2, <1>3, <2>1
<1>4. CASE ~Bodyless(m.request, m.final)
  <2>1. Remembers(s.length, G!Numbers(m.final, "content-length") \cup G!Numbers(m.trailer, "content-length"))
    BY <1>4 DEF TracksTrailer, LengthsLeft
  <2>2. s.status \in G!Numbers(m.final, "status")
    BY DEF TracksTrailer
  <2>3. 204 \notin G!Numbers(m.final, "status")
    BY <1>4 DEF Bodyless
  <2> QED  BY <1>1, <1>4, <2>1, <2>2, <2>3 DEF Remembers
<1> QED  BY <1>3, <1>4

LEMMA TrailerRefusesAsMeant ==
  ASSUME NEW m, MessageTypes(m), TrailerOk(m), FinalOk(m.final), G!Numbers(m.final, "status") # {},
         NEW s, StreamTypes(s), TracksTrailer(s, m), NEW f \in Fields, s.verdict = "open"
  PROVE  G!OnHeader(s, f).verdict = "reset" <=> ~TrailerTakes(m, f)
<1>1. s.awaits # "request" /\ G!Trailer(s)
  BY DEF TracksTrailer, G!Trailer
<1>2. G!Reject(s).verdict = "reset" /\ G!Noted(s, f).verdict = "open" /\ Ignored(s).verdict = "open"
  BY RejectIs, NotedIs, IgnoredIs
<1>3. ASSUME IsIgnored(s, f) PROVE G!OnHeader(s, f).verdict = "open" /\ TrailerTakes(m, f)
  <2>1. ~G!Taken(f) /\ f.form # "upper" /\ ~G!IsPseudo(f)
    BY <1>3 DEF IsIgnored, G!Taken
  <2> QED  BY <1>2, <1>3, <2>1, OnHeaderIs DEF TrailerTakes
<1>4. ASSUME f.form = "upper" \/ (f.form \in {"name", "value"} /\ G!IsPseudo(f))
      PROVE  G!OnHeader(s, f).verdict = "reset" /\ ~TrailerTakes(m, f)
  BY <1>2, <1>4, OnHeaderIs DEF TrailerTakes
<1>5. ASSUME f.form \notin {"name", "value", "upper"}
      PROVE  G!ResponseRefuses(s, f) <=> ~TrailerTakes(m, f)
  <2>1. G!Taken(f)
    BY <1>5, MessagesAssumed DEF G!Taken, G!MessagesAssumption
  <2>2. CASE G!IsPseudo(f)
    BY <1>1, <2>2 DEF G!ResponseRefuses, TrailerTakes
  <2>3. CASE ~G!IsPseudo(f)
    <3>1. f.name \notin G!Pseudo /\ f.name # "status"
      BY <2>3 DEF G!IsPseudo, G!Pseudo
    <3>2. G!ResponseRefuses(s, f) <=>
            \/ G!BadForAll(f)
            \/ f.name = "content-length"
               /\ (s.length # NaN \/ IF s.status = 204 THEN f.value # "0"
                                     ELSE s.status \div 100 = 1 \/ f.n = NaN)
      BY <2>3, <3>1 DEF G!ResponseRefuses
    <3>3. s.length = NaN => s.status # 204
      BY TrailerFieldsKnown
    <3>4. s.length = NaN <=> /\ ~Bodyless(m.request, m.final)
                             /\ G!Numbers(m.final, "content-length") = {}
                             /\ G!Numbers(m.trailer, "content-length") = {}
      BY TrailerFieldsKnown
    <3>5. s.status \div 100 # 1
      BY DEF TracksTrailer
    <3>6. f.form # "upper"
      BY <1>5
    <3> QED  BY <2>1, <2>3, <3>2, <3>3, <3>4, <3>5, <3>6 DEF TrailerTakes
  <2> QED  BY <2>2, <2>3
<1> QED  BY <1>1, <1>2, <1>3, <1>4, <1>5, OnHeaderIs DEF IsIgnored

LEMMA TrailerTracked ==
  ASSUME NEW m, MessageTypes(m), TrailerOk(m), FinalOk(m.final), G!Numbers(m.final, "status") # {},
         NEW s, StreamTypes(s), TracksTrailer(s, m), NEW f \in Fields, s.verdict = "open",
         TrailerTakes(m, f), NEW more, Extends(m, more, f)
  PROVE  /\ TracksTrailer(G!OnHeader(s, f), more)
         /\ G!OnHeader(s, f).verdict = "open" /\ StreamTypes(G!OnHeader(s, f))
<1> DEFINE t == G!OnHeader(s, f)
<1>1. G!OnHeader(s, f).verdict # "reset" /\ ~G!IsPseudo(f) /\ f.form # "upper"
  BY TrailerRefusesAsMeant DEF TrailerTakes
<1>2. m.trailer \in Seq(Fields) /\ s.awaits # "request"
  BY DEF MessageTypes, TracksTrailer
<1>3. Bodyless(more.request, more.final) <=> Bodyless(m.request, m.final)
  BY DEF Extends
<1>4. CASE IsIgnored(s, f)
  <2>1. t = Ignored(s)
    BY <1>4, OnHeaderIs
  <2>2. ~G!Taken(f)
    BY <1>4 DEF IsIgnored, G!Taken
  <2>3. G!Numbers(more.trailer, "content-length") = G!Numbers(m.trailer, "content-length")
    BY <1>2, <2>2, NumbersAppend DEF Extends
  <2>4. /\ t.awaits = s.awaits /\ t.received = s.received /\ t.verdict = s.verdict
        /\ t.status = s.status /\ t.length = s.length /\ t.flags = s.flags \cup {"regular"}
        /\ StreamTypes(t)
    BY <2>1, IgnoredIs
  <2>5. "interim" \in t.flags <=> "interim" \in s.flags
    BY <2>4
  <2> HIDE DEF t
  <2> QED  BY <1>3, <2>3, <2>4, <2>5 DEF TracksTrailer, LengthsLeft, Extends, t
<1>5. CASE ~IsIgnored(s, f)
  <2>1. f.form \notin {"name", "value", "upper"} /\ t = G!Noted(s, f)
    BY <1>1, <1>2, <1>5, OnHeaderIs, RejectIs DEF IsIgnored
  <2>2. G!Taken(f)
    BY <2>1, MessagesAssumed DEF G!Taken, G!MessagesAssumption
  <2>3. f.name # "status"
    BY <1>1 DEF G!IsPseudo, G!Pseudo
  <2>4. /\ t.awaits = s.awaits /\ t.received = s.received /\ t.verdict = s.verdict /\ StreamTypes(t)
        /\ t.status = s.status
        /\ t.length = IF f.name = "content-length" /\ s.status = 204 THEN 0
                      ELSE IF f.name = "content-length" THEN f.n ELSE s.length
    BY <2>1, <2>3, NotedIs
  <2>5. "interim" \notin t.flags
    BY <1>1, <2>1, NotedIs DEF TracksTrailer
  <2>6. CASE f.name = "content-length"
    <3>1. /\ ~Bodyless(m.request, m.final) /\ G!Numbers(m.final, "content-length") = {}
          /\ G!Numbers(m.trailer, "content-length") = {}
      BY <2>2, <2>6 DEF TrailerTakes
    <3>2. s.status # 204
      BY <3>1, TrailerFieldsKnown
    <3>3. G!Numbers(more.trailer, "content-length") = {f.n}
      BY <1>2, <2>2, <2>6, <3>1, NumbersAppend DEF Extends
    <3>4. Remembers(t.length, LengthsLeft(more, G!Numbers(more.final, "content-length")
                                       \cup G!Numbers(more.trailer, "content-length")))
      BY <1>3, <2>4, <2>6, <3>1, <3>2, <3>3 DEF Remembers, LengthsLeft, Extends
    <3> HIDE DEF t
    <3> QED  BY <2>4, <2>5, <3>4 DEF TracksTrailer, Extends, t
  <2>7. CASE f.name # "content-length"
    <3>1. G!Numbers(more.trailer, "content-length") = G!Numbers(m.trailer, "content-length")
      BY <1>2, <2>7, NumbersAppend DEF Extends
    <3>2. t.length = s.length
      BY <2>4, <2>7
    <3> HIDE DEF t
    <3> QED  BY <1>3, <2>4, <2>5, <3>1, <3>2 DEF TracksTrailer, LengthsLeft, Extends, t
  <2> QED  BY <2>6, <2>7
<1> QED  BY <1>4, <1>5

-----------------------------------------------------------------------------
(* Every step keeps the judgement                                          *)

LEMMA EmptyIs ==
  /\ \A name : G!Named(<<>>, name) = {} /\ G!Numbers(<<>>, name) = {}
  /\ \A name, value : ~G!Has(<<>>, name, value)
  /\ \A pseudo : G!WellFormed(<<>>, pseudo)
  /\ G!OneLength(<<>>) /\ RequestOk(<<>>) /\ FinalOk(<<>>) /\ <<>> \in Seq(Fields)
<1>1. DOMAIN <<>> = {} /\ <<>> \in Seq(Fields)
  OBVIOUS
<1>2. \A name : G!Named(<<>>, name) = {}
  BY <1>1 DEF G!Named
<1>3. \A name : G!Numbers(<<>>, name) = {}
  BY <1>2 DEF G!Numbers
<1>4. (\A name, value : ~G!Has(<<>>, name, value)) /\ \A pseudo : G!WellFormed(<<>>, pseudo)
  BY <1>1 DEF G!Has, G!WellFormed
<1>5. G!OneLength(<<>>) /\ G!Once(G!Named(<<>>, "host"))
  BY <1>2 DEF G!OneLength, G!Once
<1> QED  BY <1>1, <1>2, <1>3, <1>4, <1>5 DEF RequestOk, FinalOk

\* What is still to come is fine.
LEMMA FineBefore ==
  ASSUME NEW m, MessageTypes(m), m.trailer = <<>>, m.closed = {}, m.data = 0, ~m.ended
  PROVE  Fine(m) <=> RequestOk(m.request) /\ FinalOk(m.final)
<1>1. G!Numbers(m.trailer, "content-length") = {} /\ G!WellFormed(m.trailer, {})
      /\ G!OneLength(m.trailer)
  BY EmptyIs
<1>2. TrailerOk(m) /\ DataOk(m)
  BY <1>1 DEF TrailerOk, DataOk
<1> QED  BY <1>2 DEF Fine

LEMMA OpenIs ==
  ASSUME Judged(stream, message), stream.verdict = "open"
  PROVE  /\ Fine(message) /\ ~message.ended /\ message.closed \subseteq {"final"}
         /\ Tracks(stream, message) /\ StreamTypes(stream) /\ MessageTypes(message)
BY DEF Judged, MessageTypes

LEMMA RequestFieldKeeps ==
  ASSUME Judged(stream, message), NEW f \in Fields, G!Field(f), message.part = "request"
  PROVE  Judged(stream', message')
<1>1. stream.verdict = "open" /\ stream' = G!OnHeader(stream, f)
      /\ message' = [message EXCEPT !.request = Append(@, f)]
  BY DEF G!Field
<1>2. /\ Fine(message) /\ ~message.ended /\ message.closed \subseteq {"final"}
      /\ Tracks(stream, message) /\ StreamTypes(stream) /\ MessageTypes(message)
  BY <1>1, OpenIs
<1>3. /\ TracksRequest(stream, message.request) /\ message.final = <<>> /\ message.trailer = <<>>
      /\ message.closed = {} /\ message.data = 0
  BY <1>2 DEF Tracks
<1>4. message.request \in Seq(Fields) /\ RequestOk(message.request)
  BY <1>2 DEF MessageTypes, Fine
<1> DEFINE list == message.request
           more == message'
           s == stream'
<1>5. /\ more.part = "request" /\ more.request = Append(list, f) /\ more.final = <<>>
      /\ more.trailer = <<>> /\ more.closed = {} /\ more.data = 0 /\ ~more.ended
      /\ MessageTypes(more)
  <2>1. Append(list, f) \in Seq(Fields)
    BY <1>4
  <2> HIDE DEF list
  <2> QED  BY <1>1, <1>2, <1>3, <2>1 DEF MessageTypes, list
<1>6. Fine(more) <=> RequestOk(Append(list, f))
  BY <1>5, FineBefore, EmptyIs
<1>7. CASE RequestOk(Append(list, f))
  <2>1. TracksRequest(s, Append(list, f)) /\ s.verdict = "open" /\ StreamTypes(s)
    BY <1>1, <1>2, <1>3, <1>4, <1>7, RequestTracked
  <2> HIDE DEF list, more, s
  <2>2. Tracks(s, more)
    BY <1>5, <2>1 DEF Tracks
  <2> QED  BY <1>5, <1>6, <1>7, <2>1, <2>2 DEF Judged, s, more
<1>8. CASE ~RequestOk(Append(list, f))
  <2>1. s.verdict = "reset"
    BY <1>1, <1>2, <1>3, <1>4, <1>8, RequestRefusesAsMeant
  <2>2. StreamTypes(s)
    BY <1>1, <1>2, OnHeaderTypes
  <2> HIDE DEF list, more, s
  <2> QED  BY <1>5, <1>6, <1>8, <2>1, <2>2 DEF Judged, s, more
<1> QED  BY <1>7, <1>8

LEMMA FinalFieldKeeps ==
  ASSUME Judged(stream, message), NEW f \in Fields, G!Field(f), message.part = "final"
  PROVE  Judged(stream', message')
<1>1. stream.verdict = "open" /\ stream' = G!OnHeader(stream, f)
      /\ message' = [message EXCEPT !.final = Append(@, f)]
  BY DEF G!Field
<1>2. /\ Fine(message) /\ ~message.ended /\ message.closed \subseteq {"final"}
      /\ Tracks(stream, message) /\ StreamTypes(stream) /\ MessageTypes(message)
  BY <1>1, OpenIs
<1>3. /\ TracksFinal(stream, message.request, message.final) /\ message.trailer = <<>>
      /\ message.closed = {} /\ message.data = 0
  BY <1>2 DEF Tracks
<1>4. message.final \in Seq(Fields) /\ RequestOk(message.request) /\ FinalOk(message.final)
  BY <1>2 DEF MessageTypes, Fine
<1> DEFINE list == message.final
           more == message'
           s == stream'
<1>5. /\ more.part = "final" /\ more.request = message.request /\ more.final = Append(list, f)
      /\ more.trailer = <<>> /\ more.closed = {} /\ more.data = 0 /\ ~more.ended
      /\ MessageTypes(more)
  <2>1. Append(list, f) \in Seq(Fields)
    BY <1>4
  <2> HIDE DEF list
  <2> QED  BY <1>1, <1>2, <1>3, <2>1 DEF MessageTypes, list
<1>6. Fine(more) <=> FinalTakes(list, f)
  <2>1. Fine(more) <=> RequestOk(more.request) /\ FinalOk(more.final)
    BY <1>5, FineBefore
  <2> QED  BY <1>4, <1>5, <2>1, FinalOkAppend
<1>7. CASE FinalTakes(list, f)
  <2>1. TracksFinal(s, message.request, Append(list, f)) /\ s.verdict = "open" /\ StreamTypes(s)
    BY <1>1, <1>2, <1>3, <1>4, <1>7, FinalTracked
  <2> HIDE DEF list, more, s
  <2>2. Tracks(s, more)
    BY <1>5, <2>1 DEF Tracks
  <2> QED  BY <1>5, <1>6, <1>7, <2>1, <2>2 DEF Judged, s, more
<1>8. CASE ~FinalTakes(list, f)
  <2>1. s.verdict = "reset"
    BY <1>1, <1>2, <1>3, <1>4, <1>8, FinalRefusesAsMeant
  <2>2. StreamTypes(s)
    BY <1>1, <1>2, OnHeaderTypes
  <2> HIDE DEF list, more, s
  <2> QED  BY <1>5, <1>6, <1>8, <2>1, <2>2 DEF Judged, s, more
<1> QED  BY <1>7, <1>8

LEMMA TrailerFieldKeeps ==
  ASSUME Judged(stream, message), NEW f \in Fields, G!Field(f), message.part = "trailer"
  PROVE  Judged(stream', message')
<1>1. stream.verdict = "open" /\ stream' = G!OnHeader(stream, f)
      /\ message' = [message EXCEPT !.trailer = Append(@, f)]
  BY DEF G!Field
<1>2. /\ Fine(message) /\ ~message.ended /\ message.closed \subseteq {"final"}
      /\ Tracks(stream, message) /\ StreamTypes(stream) /\ MessageTypes(message)
  BY <1>1, OpenIs
<1>3. TracksTrailer(stream, message) /\ message.closed = {"final"}
  BY <1>2 DEF Tracks
<1>4. /\ message.trailer \in Seq(Fields) /\ RequestOk(message.request) /\ FinalOk(message.final)
      /\ G!Numbers(message.final, "status") # {} /\ TrailerOk(message) /\ DataOk(message)
  BY <1>2, <1>3 DEF MessageTypes, Fine
<1> DEFINE list == message.trailer
           more == message'
           s == stream'
<1>5. /\ more.part = "trailer" /\ more.request = message.request /\ more.final = message.final
      /\ more.trailer = Append(list, f) /\ more.closed = {"final"} /\ more.data = message.data
      /\ ~more.ended /\ more.ended = message.ended /\ MessageTypes(more)
  <2>1. Append(list, f) \in Seq(Fields)
    BY <1>4
  <2> HIDE DEF list
  <2> QED  BY <1>1, <1>2, <1>3, <2>1 DEF MessageTypes, list
<1>6. Extends(message, more, f)
  BY <1>3, <1>5 DEF Extends
<1>7. Fine(more) <=> TrailerTakes(message, f)
  <2>1. DataOk(more)
    BY <1>4, <1>5 DEF DataOk, LengthsLeft
  <2>2. TrailerOk(more) <=> TrailerTakes(message, f)
    BY <1>2, <1>4, <1>6, TrailerOkAppend
  <2> HIDE DEF more
  <2> QED  BY <1>4, <1>5, <2>1, <2>2 DEF Fine
<1>8. CASE TrailerTakes(message, f)
  <2>1. TracksTrailer(s, more) /\ s.verdict = "open" /\ StreamTypes(s)
    BY <1>1, <1>2, <1>3, <1>4, <1>6, <1>8, TrailerTracked
  <2> HIDE DEF list, more, s
  <2>2. Tracks(s, more)
    BY <1>5, <2>1 DEF Tracks
  <2> QED  BY <1>5, <1>7, <1>8, <2>1, <2>2 DEF Judged, s, more
<1>9. CASE ~TrailerTakes(message, f)
  <2>1. s.verdict = "reset"
    BY <1>1, <1>2, <1>3, <1>4, <1>9, TrailerRefusesAsMeant
  <2>2. StreamTypes(s)
    BY <1>1, <1>2, OnHeaderTypes
  <2> HIDE DEF list, more, s
  <2> QED  BY <1>5, <1>7, <1>9, <2>1, <2>2 DEF Judged, s, more
<1> QED  BY <1>8, <1>9

LEMMA HeadIs ==
  ASSUME NEW list \in Seq(Fields), RequestOk(list), NEW i \in DOMAIN list, G!IsHead(list[i])
  PROVE  /\ RequestOk(<<list[i]>>) /\ <<list[i]>> \in Seq(Fields)
         /\ G!Has(<<list[i]>>, "method", "HEAD")
<1> DEFINE one == <<list[i]>>
<1>1. /\ one \in Seq(Fields) /\ DOMAIN one = {1} /\ one[1] = list[i]
  OBVIOUS
<1>2. list[i].name = "method" /\ list[i].value = "HEAD"
  BY DEF G!IsHead
<1>3. G!IsPseudo(list[i]) /\ "method" \in RequestPseudo
  BY <1>2 DEF G!IsPseudo, G!Pseudo, RequestPseudo
<1>4. /\ list[i].form # "upper" /\ (G!Taken(list[i]) => ~G!BadForAll(list[i]))
      /\ list[i].form = "ok"
  BY <1>3 DEF RequestOk, G!WellFormed
<1> HIDE DEF one
<1>5. G!WellFormed(one, RequestPseudo)
  BY <1>1, <1>2, <1>3, <1>4 DEF G!WellFormed
<1>6. G!Named(one, "host") = {} /\ G!Named(one, "content-length") = {}
  BY <1>1, <1>2 DEF G!Named
<1>7. G!OneLength(one) /\ G!Once(G!Named(one, "host"))
  BY <1>6 DEF G!OneLength, G!Once
<1>8. G!Has(one, "method", "HEAD") /\ ~G!Has(one, "method", "CONNECT")
  BY <1>1, <1>2 DEF G!Has
<1> QED  BY <1>1, <1>5, <1>6, <1>7, <1>8 DEF RequestOk, one

LEMMA RequestTakenAsMeant ==
  ASSUME NEW list \in Seq(Fields), RequestOk(list), NEW s, StreamTypes(s), TracksRequest(s, list),
         s.verdict = "open"
  PROVE  /\ ~RequestWhole(list) => G!OnRequestHeaders(s) = G!Reject(s)
         /\ RequestWhole(list) => G!OnRequestHeaders(s) =
              [s EXCEPT !.awaits = "first", !.flags = @ \cap G!Methods, !.length = NaN]
<1>1. \A name \in RequestPseudo \cup {"host"} : name \in s.flags <=> G!Named(list, name) # {}
  BY DEF TracksRequest
<1>2. {"method", "path", "scheme"} \subseteq s.flags <=>
        \A name \in {"method", "path", "scheme"} : G!Named(list, name) # {}
  BY <1>1 DEF RequestPseudo
<1>3. s.flags \cap {"authority", "host"} = {} <=>
        ~(G!Named(list, "authority") # {} \/ G!Named(list, "host") # {})
  BY <1>1 DEF RequestPseudo
<1>4. /\ "http" \in s.flags <=> G!Has(list, "scheme", "http")
      /\ "/" \in s.flags <=> G!Has(list, "path", "/")
      /\ "*" \in s.flags <=> G!Has(list, "path", "*")
      /\ "OPTIONS" \in s.flags <=> G!Has(list, "method", "OPTIONS")
  BY FlaggedIs DEF TracksRequest
<1>5. G!PathOk(s) <=> (G!Has(list, "scheme", "http") =>
        G!Has(list, "path", "/") \/ (G!Has(list, "path", "*") /\ G!Has(list, "method", "OPTIONS")))
  BY <1>4 DEF G!PathOk
<1>6. RequestWhole(list) <=> /\ {"method", "path", "scheme"} \subseteq s.flags
                             /\ s.flags \cap {"authority", "host"} # {} /\ G!PathOk(s)
  BY <1>2, <1>3, <1>5 DEF RequestWhole
<1> QED  BY <1>6 DEF G!OnRequestHeaders

LEMMA RequestEndKeeps ==
  ASSUME Judged(stream, message), NEW end \in BOOLEAN, G!EndBlock(end), message.part = "request"
  PROVE  Judged(stream', message')
<1>1. stream.verdict = "open"
  BY DEF G!EndBlock
<1>2. /\ Fine(message) /\ ~message.ended /\ message.closed \subseteq {"final"}
      /\ Tracks(stream, message) /\ StreamTypes(stream) /\ MessageTypes(message)
  BY <1>1, OpenIs
<1>3. /\ TracksRequest(stream, message.request) /\ message.final = <<>> /\ message.trailer = <<>>
      /\ message.closed = {} /\ message.data = 0
  BY <1>2 DEF Tracks
<1>4. message.request \in Seq(Fields) /\ RequestOk(message.request)
  BY <1>2 DEF MessageTypes, Fine
<1>5. stream.awaits = "request" /\ ~end /\ stream' = G!OnRequestHeaders(stream)
      /\ message' = G!Closed(end, stream'.verdict # "reset")
  <2>1. stream.awaits = "request" /\ ~G!Trailer(stream)
    BY <1>3 DEF TracksRequest, G!Trailer
  <2>2. ~end /\ stream' = G!OnRequestHeaders(stream)
    BY <2>1 DEF G!EndBlock
  <2>3. message' = G!Closed(end, stream'.verdict # "reset")
    BY DEF G!EndBlock
  <2> QED  BY <2>1, <2>2, <2>3
<1>6. CASE ~RequestWhole(message.request)
  <2>1. stream' = G!Reject(stream)
    BY <1>1, <1>2, <1>3, <1>4, <1>5, <1>6, RequestTakenAsMeant
  <2>2. stream'.verdict = "reset" /\ StreamTypes(stream')
    BY <1>2, <2>1, RejectIs
  <2>3. message' = [message EXCEPT !.part = "trailer", !.closed = @ \cup {"request"}, !.ended = end]
    BY <1>5, <2>2 DEF G!Closed
  <2>4. /\ "request" \in message'.closed /\ message'.request = message.request
        /\ MessageTypes(message')
    BY <1>2, <2>3 DEF MessageTypes
  <2>5. ~Fine(message')
    BY <1>6, <2>4 DEF Fine
  <2> QED  BY <2>2, <2>4, <2>5 DEF Judged
<1>7. CASE RequestWhole(message.request)
  <2>1. stream' = [stream EXCEPT !.awaits = "first", !.flags = @ \cap G!Methods, !.length = NaN]
    BY <1>1, <1>2, <1>3, <1>4, <1>5, <1>7, RequestTakenAsMeant
  <2>2. /\ stream'.awaits = "first" /\ stream'.flags = stream.flags \cap G!Methods
        /\ stream'.length = NaN /\ stream'.status = NaN /\ stream'.received = 0
        /\ stream'.verdict = "open" /\ StreamTypes(stream')
    <3>1. stream' \in [awaits : {"request", "first", "later"}, flags : {stream.flags \cap G!Methods},
                       status : Int, length : Int, received : Nat, verdict : {"open", "reset", "done"}]
      BY <1>2, <2>1, NeverNumber DEF StreamTypes
    <3>2. /\ stream'.awaits = "first" /\ stream'.flags = stream.flags \cap G!Methods
          /\ stream'.length = NaN /\ stream'.status = stream.status
          /\ stream'.received = stream.received /\ stream'.verdict = stream.verdict
      BY <1>2, <2>1 DEF StreamTypes
    <3> QED  BY <1>1, <1>3, <3>1, <3>2 DEF StreamTypes, TracksRequest
  <2> DEFINE heads == {i \in DOMAIN message.request : G!IsHead(message.request[i])}
             kept == IF heads = {} THEN <<>> ELSE <<message.request[CHOOSE i \in heads : TRUE]>>
  <2>3. message' = [message EXCEPT !.part = "final", !.request = kept]
    BY <1>5, <2>2 DEF G!Closed
  <2>4. /\ kept \in Seq(Fields) /\ RequestOk(kept)
        /\ G!Has(kept, "method", "HEAD") <=> G!Has(message.request, "method", "HEAD")
    <3>1. G!Has(message.request, "method", "HEAD") <=> heads # {}
      BY DEF G!Has, G!IsHead
    <3>2. CASE heads = {}
      BY <3>1, <3>2, EmptyIs
    <3>3. CASE heads # {}
      <4>1. PICK i \in heads : i = CHOOSE k \in heads : TRUE
        BY <3>3
      <4>2. kept = <<message.request[i]>>
        BY <3>3, <4>1
      <4> QED  BY <1>4, <3>1, <3>3, <4>2, HeadIs
    <3> QED  BY <3>2, <3>3
  <2> HIDE DEF kept
  <2>5. /\ message'.part = "final" /\ message'.request = kept /\ message'.final = <<>>
        /\ message'.trailer = <<>> /\ message'.closed = {} /\ message'.data = 0 /\ ~message'.ended
        /\ MessageTypes(message')
    BY <1>2, <1>3, <2>3, <2>4 DEF MessageTypes
  <2>6. Fine(message')
    BY <2>4, <2>5, FineBefore, EmptyIs
  <2>7. "HEAD" \in stream.flags <=> G!Has(message.request, "method", "HEAD")
    BY <1>3, FlaggedIs DEF TracksRequest
  <2>8. /\ "HEAD" \in stream'.flags <=> "HEAD" \in stream.flags
        /\ "interim" \notin stream'.flags /\ "status" \notin stream'.flags
        /\ "regular" \notin stream'.flags
    BY <2>2 DEF G!Methods
  <2>9. TracksFinal(stream', kept, <<>>)
    BY <2>2, <2>4, <2>7, <2>8, EmptyIs DEF TracksFinal, Remembers
  <2>10. Tracks(stream', message')
    BY <2>5, <2>9 DEF Tracks
  <2> QED  BY <2>2, <2>5, <2>6, <2>10 DEF Judged
<1> QED  BY <1>6, <1>7

\* An answer is interim by its first field.
IsInterim(list) ==
  list # <<>> /\ list[1].name = "status" /\ list[1].n \div 100 = 1

LEMMA InterimIs ==
  ASSUME NEW list \in Seq(Fields), FinalOk(list), NEW s, NEW request, TracksFinal(s, request, list)
  PROVE  IsInterim(list) <=> "status" \in s.flags /\ s.status \div 100 = 1
<1>1. "status" \in G!Pseudo
  BY DEF G!Pseudo
<1>2. ASSUME IsInterim(list) PROVE "status" \in s.flags /\ s.status \div 100 = 1
  <2>1. 1 \in DOMAIN list /\ list[1].name = "status" /\ list[1].n \div 100 = 1
    BY <1>2 DEF IsInterim
  <2>2. list[1].form = "ok"
    BY <1>1, <2>1 DEF FinalOk, G!WellFormed, G!IsPseudo
  <2>3. 1 \in G!Named(list, "status")
    BY <2>1, <2>2 DEF G!Named, G!Taken
  <2>4. list[1].n \in G!Numbers(list, "status")
    BY <2>3 DEF G!Numbers
  <2> QED  BY <2>1, <2>3, <2>4 DEF TracksFinal, Remembers
<1>3. ASSUME "status" \in s.flags, s.status \div 100 = 1 PROVE IsInterim(list)
  <2>1. PICK i \in G!Named(list, "status") : TRUE
    BY <1>3 DEF TracksFinal
  <2>2. i \in DOMAIN list /\ list[i].name = "status" /\ list[i].n \in G!Numbers(list, "status")
    BY <2>1 DEF G!Named, G!Numbers
  <2>3. \A j \in 1 .. i - 1 : G!IsPseudo(list[j]) /\ list[j].name # "status"
    BY <1>1, <2>2 DEF FinalOk, G!WellFormed, G!IsPseudo
  <2>4. i = 1
    <3>1. i \in 1 .. Len(list) /\ DOMAIN list = 1 .. Len(list)
      BY <2>2
    <3>2. ASSUME i # 1 PROVE FALSE
      <4>1. 1 \in 1 .. i - 1 /\ 1 \in DOMAIN list
        BY <3>1, <3>2
      <4>2. G!IsPseudo(list[1]) /\ list[1].name # "status"
        BY <2>3, <4>1
      <4> QED  BY <4>1, <4>2 DEF FinalOk, G!WellFormed
    <3> QED  BY <3>2
  <2>5. s.status = list[1].n
    BY <2>2, <2>4 DEF TracksFinal, Remembers
  <2> QED  BY <1>3, <2>2, <2>4, <2>5 DEF IsInterim
<1> QED  BY <1>2, <1>3

LEMMA OnEndIs ==
  ASSUME NEW s, StreamTypes(s), NEW end \in BOOLEAN, s.verdict = "open"
  PROVE  /\ ~end => G!OnEnd(s, end) = s
         /\ end /\ ("interim" \in s.flags \/ s.length \notin {NaN, s.received}) =>
              G!OnEnd(s, end) = G!Reject(s)
         /\ end /\ "interim" \notin s.flags /\ s.length \in {NaN, s.received} =>
              G!OnEnd(s, end) = [s EXCEPT !.verdict = "done"]
         /\ StreamTypes([s EXCEPT !.verdict = "done"]) /\ [s EXCEPT !.verdict = "done"].verdict = "done"
BY DEF G!OnEnd, StreamTypes

\* An interim answer: all begins anew.
LEMMA InterimEndKeeps ==
  ASSUME Judged(stream, message), NEW end \in BOOLEAN, G!EndBlock(end), message.part = "final",
         IsInterim(message.final)
  PROVE  Judged(stream', message')
<1>1. stream.verdict = "open"
  BY DEF G!EndBlock
<1>2. /\ Fine(message) /\ ~message.ended /\ message.closed \subseteq {"final"}
      /\ Tracks(stream, message) /\ StreamTypes(stream) /\ MessageTypes(message)
  BY <1>1, OpenIs
<1>3. /\ TracksFinal(stream, message.request, message.final) /\ message.trailer = <<>>
      /\ message.closed = {} /\ message.data = 0
  BY <1>2 DEF Tracks
<1>4. message.final \in Seq(Fields) /\ FinalOk(message.final) /\ RequestOk(message.request)
  BY <1>2 DEF MessageTypes, Fine
<1>5. "status" \in stream.flags /\ stream.status \div 100 = 1
  BY <1>3, <1>4, InterimIs
<1> DEFINE flags == (stream.flags \cap G!Methods) \cup {"interim"}
           t == [stream EXCEPT !.awaits = "later", !.flags = flags, !.length = NaN, !.status = NaN]
<1>6. stream.awaits # "request" /\ ~G!Trailer(stream)
  BY <1>3 DEF TracksFinal, G!Trailer
<1>7. G!OnResponseHeaders(stream) = t
  BY <1>2, <1>5 DEF G!OnResponseHeaders, StreamTypes
<1>8. stream' = G!OnEnd(t, end) /\ message' = G!Closed(end, stream'.verdict # "reset")
  BY <1>6, <1>7 DEF G!EndBlock
<1>9. /\ t.awaits = "later" /\ t.flags = flags /\ t.length = NaN /\ t.status = NaN
      /\ t.received = 0 /\ t.verdict = "open" /\ StreamTypes(t)
  <2> HIDE DEF flags
  <2>1. t \in [awaits : {"request", "first", "later"}, flags : {flags},
               status : Int, length : Int, received : Nat, verdict : {"open", "reset", "done"}]
    BY <1>2, NeverNumber DEF StreamTypes
  <2>2. /\ t.awaits = "later" /\ t.flags = flags /\ t.length = NaN /\ t.status = NaN
        /\ t.received = stream.received /\ t.verdict = stream.verdict
    BY <1>2 DEF StreamTypes
  <2> HIDE DEF t
  <2> QED  BY <1>1, <1>3, <2>1, <2>2 DEF StreamTypes, TracksFinal
<1>10. message' = [message EXCEPT !.final = <<>>, !.ended = end]
  BY <1>8 DEF G!Closed, IsInterim
<1>11. /\ message'.part = "final" /\ message'.request = message.request /\ message'.final = <<>>
       /\ message'.trailer = <<>> /\ message'.closed = {} /\ message'.data = 0
       /\ message'.ended = end /\ MessageTypes(message')
  BY <1>2, <1>3, <1>10, EmptyIs DEF MessageTypes
<1> HIDE DEF t
<1>12. CASE end
  <2>1. "interim" \in t.flags
    BY <1>9
  <2>2. stream' = G!Reject(t)
    BY <1>8, <1>9, <1>12, <2>1, OnEndIs
  <2>3. ~DataOk(message')
    BY <1>11, <1>12 DEF DataOk
  <2> QED  BY <1>9, <1>11, <2>2, <2>3, RejectIs DEF Judged, Fine
<1>13. CASE ~end
  <2>1. stream' = t
    BY <1>8, <1>9, <1>13, OnEndIs
  <2>2. Fine(message')
    BY <1>4, <1>11, <1>13, FineBefore, EmptyIs
  <2>3. /\ "HEAD" \in t.flags <=> "HEAD" \in stream.flags
        /\ "interim" \in t.flags /\ "status" \notin t.flags /\ "regular" \notin t.flags
    BY <1>9 DEF G!Methods
  <2>4. TracksFinal(t, message.request, <<>>)
    BY <1>3, <1>9, <2>3, EmptyIs DEF TracksFinal, Remembers
  <2>5. Tracks(stream', message')
    BY <1>11, <2>1, <2>4 DEF Tracks
  <2> QED  BY <1>9, <1>11, <1>13, <2>1, <2>2, <2>5 DEF Judged
<1> QED  BY <1>12, <1>13

\* When the length allows the end.
LEMMA LengthIs ==
  ASSUME NEW s, NEW m, MessageTypes(m), StreamTypes(s), s.received = m.data,
         NEW said, \A n \in said : n # NaN, Remembers(s.length, LengthsLeft(m, said))
  PROVE  s.length \in {NaN, s.received} <=> \A n \in LengthsLeft(m, said) : m.data = n
<1>1. \A n \in LengthsLeft(m, said) : n # NaN
  BY NeverNumber DEF LengthsLeft
<1>2. CASE LengthsLeft(m, said) = {}
  BY <1>2 DEF Remembers
<1>3. CASE LengthsLeft(m, said) # {}
  <2>1. PICK n \in LengthsLeft(m, said) : s.length = n /\ n # NaN
    BY <1>1, <1>3 DEF Remembers
  <2>2. \A k \in LengthsLeft(m, said) : k = n
    BY <2>1 DEF Remembers
  <2> QED  BY <2>1, <2>2
<1> QED  BY <1>2, <1>3

LEMMA FinalEndKeeps ==
  ASSUME Judged(stream, message), NEW end \in BOOLEAN, G!EndBlock(end), message.part = "final",
         ~IsInterim(message.final)
  PROVE  Judged(stream', message')
<1>1. stream.verdict = "open"
  BY DEF G!EndBlock
<1>2. /\ Fine(message) /\ ~message.ended /\ message.closed \subseteq {"final"}
      /\ Tracks(stream, message) /\ StreamTypes(stream) /\ MessageTypes(message)
  BY <1>1, OpenIs
<1>3. /\ TracksFinal(stream, message.request, message.final) /\ message.trailer = <<>>
      /\ message.closed = {} /\ message.data = 0
  BY <1>2 DEF Tracks
<1>4. message.final \in Seq(Fields) /\ FinalOk(message.final) /\ RequestOk(message.request)
  BY <1>2 DEF MessageTypes, Fine
<1>5. ~("status" \in stream.flags /\ stream.status \div 100 = 1)
  BY <1>3, <1>4, InterimIs
<1>6. stream.awaits # "request" /\ ~G!Trailer(stream)
  BY <1>3 DEF TracksFinal, G!Trailer
<1>7. stream' = G!OnEnd(G!OnResponseHeaders(stream), end)
      /\ message' = G!Closed(end, stream'.verdict # "reset")
  BY <1>6 DEF G!EndBlock
<1>8. message' = [message EXCEPT !.part = "trailer", !.closed = @ \cup {"final"}, !.ended = end]
  <2>1. ~(message.part = "final" /\ message.final # <<>> /\ message.final[1].name = "status"
          /\ message.final[1].n \div 100 = 1)
    BY DEF IsInterim
  <2> QED  BY <1>7, <2>1 DEF G!Closed
<1>9. /\ message'.part = "trailer" /\ message'.request = message.request
      /\ message'.final = message.final /\ message'.trailer = <<>> /\ message'.closed = {"final"}
      /\ message'.data = 0 /\ message'.ended = end /\ MessageTypes(message')
  BY <1>2, <1>3, <1>8 DEF MessageTypes
<1> DEFINE heard == G!Numbers(message'.final, "content-length")
                    \cup G!Numbers(message'.trailer, "content-length")
<1>10. heard = G!Numbers(message.final, "content-length")
  BY <1>9, EmptyIs
<1>11. CASE "status" \notin stream.flags
  <2>1. G!OnResponseHeaders(stream) = G!Reject(stream)
    BY <1>11 DEF G!OnResponseHeaders
  <2>2. stream'.verdict = "reset" /\ StreamTypes(stream')
    BY <1>2, <1>7, <2>1, RejectIs DEF G!OnEnd
  <2>3. G!Numbers(message'.final, "status") = {}
    BY <1>3, <1>4, <1>9, <1>11, Nowhere DEF TracksFinal
  <2>4. ~Fine(message')
    BY <1>9, <2>3 DEF Fine
  <2> QED  BY <1>9, <2>2, <2>4 DEF Judged
<1>12. CASE "status" \in stream.flags
  <2> DEFINE flags == stream.flags \ {"interim"}
             length == IF G!ExpectsBody(stream) THEN stream.length ELSE 0
             t == [stream EXCEPT !.awaits = "later", !.flags = flags, !.length = length]
  <2>1. G!OnResponseHeaders(stream) = t
    <3>1. stream.status \div 100 # 1
      BY <1>5, <1>12
    <3>2. CASE G!ExpectsBody(stream)
      <4>1. [stream EXCEPT !.awaits = "later", !.flags = @ \ {"interim"}] = t
        BY <1>2, <3>2 DEF StreamTypes
      <4> HIDE DEF t
      <4> QED  BY <1>12, <3>1, <3>2, <4>1 DEF G!OnResponseHeaders
    <3>3. CASE ~G!ExpectsBody(stream)
      <4>1. [[stream EXCEPT !.awaits = "later", !.flags = @ \ {"interim"}] EXCEPT !.length = 0] = t
        BY <1>2, <3>3 DEF StreamTypes
      <4> HIDE DEF t
      <4> QED  BY <1>12, <3>1, <3>3, <4>1 DEF G!OnResponseHeaders
    <3> QED  BY <3>2, <3>3
  <2>2. /\ t.awaits = "later" /\ t.flags = flags /\ t.length = length /\ t.status = stream.status
        /\ t.received = 0 /\ t.verdict = "open" /\ StreamTypes(t)
    <3>1. length \in Int
      BY <1>2 DEF StreamTypes
    <3> HIDE DEF flags, length
    <3>2. t \in [awaits : {"request", "first", "later"}, flags : {flags},
                 status : Int, length : Int, received : Nat, verdict : {"open", "reset", "done"}]
      BY <1>2, <3>1 DEF StreamTypes
    <3>3. /\ t.awaits = "later" /\ t.flags = flags /\ t.length = length
          /\ t.status = stream.status /\ t.received = stream.received /\ t.verdict = stream.verdict
      BY <1>2 DEF StreamTypes
    <3> HIDE DEF t
    <3> QED  BY <1>1, <1>3, <3>2, <3>3 DEF StreamTypes, TracksFinal
  <2> HIDE DEF t
  <2>3. \A n \in G!Numbers(message.final, "status") : stream.status = n
    BY <1>3 DEF TracksFinal, Remembers
  <2>4. G!Numbers(message.final, "status") # {}
    BY <1>3, <1>4, <1>12, Nowhere DEF TracksFinal
  <2>5. G!ExpectsBody(stream) <=> ~Bodyless(message.request, message.final)
    BY <1>3, <2>3, <2>4 DEF G!ExpectsBody, Bodyless, TracksFinal
  <2>6. Remembers(t.length, LengthsLeft(message', heard))
    BY <1>3, <1>9, <1>10, <2>2, <2>5 DEF Remembers, LengthsLeft, TracksFinal
  <2>7. "interim" \notin t.flags
    BY <2>2
  <2>8. TracksTrailer(t, message')
    BY <1>5, <1>9, <1>12, <2>2, <2>3, <2>6, <2>7 DEF TracksTrailer
  <2>9. \A n \in heard : n # NaN
    BY <1>4, <1>10 DEF FinalOk, G!OneLength, G!Numbers
  <2>10. t.length \in {NaN, t.received} <=> \A n \in LengthsLeft(message', heard) : message'.data = n
    BY <1>9, <2>2, <2>6, <2>9, LengthIs
  <2>11. TrailerOk(message') /\ (message'.data > 0 =>
           \A n \in LengthsLeft(message', G!Numbers(message'.final, "content-length")) : message'.data <= n)
    BY <1>9, EmptyIs DEF TrailerOk
  <2>12. Fine(message') <=> (end => \A n \in LengthsLeft(message', heard) : message'.data = n)
    BY <1>4, <1>9, <2>4, <2>11, EmptyIs DEF Fine, DataOk
  <2>13. Tracks(t, message') /\ message'.closed \subseteq {"final"}
    BY <1>9, <2>8 DEF Tracks
  <2> HIDE DEF heard
  <2>14. CASE ~end
    <3>1. stream' = t
      BY <1>7, <2>1, <2>2, <2>14, OnEndIs
    <3> QED  BY <1>9, <2>2, <2>12, <2>13, <2>14, <3>1 DEF Judged
  <2>15. CASE end /\ t.length \in {NaN, t.received}
    <3>1. stream' = [t EXCEPT !.verdict = "done"]
      BY <1>7, <2>1, <2>2, <2>7, <2>15, OnEndIs
    <3>2. stream'.verdict = "done" /\ StreamTypes(stream')
      BY <2>2, <3>1, OnEndIs
    <3> QED  BY <1>9, <2>10, <2>12, <2>15, <3>2 DEF Judged
  <2>16. CASE end /\ t.length \notin {NaN, t.received}
    <3>1. stream' = G!Reject(t)
      BY <1>7, <2>1, <2>2, <2>16, OnEndIs
    <3>2. stream'.verdict = "reset" /\ StreamTypes(stream')
      BY <2>2, <3>1, RejectIs
    <3> QED  BY <1>9, <2>10, <2>12, <2>16, <3>2 DEF Judged
  <2> QED  BY <2>14, <2>15, <2>16
<1> QED  BY <1>11, <1>12

LEMMA TrailerEndKeeps ==
  ASSUME Judged(stream, message), NEW end \in BOOLEAN, G!EndBlock(end), message.part = "trailer"
  PROVE  Judged(stream', message')
<1>1. stream.verdict = "open"
  BY DEF G!EndBlock
<1>2. /\ Fine(message) /\ ~message.ended /\ message.closed \subseteq {"final"}
      /\ Tracks(stream, message) /\ StreamTypes(stream) /\ MessageTypes(message)
  BY <1>1, OpenIs
<1>3. TracksTrailer(stream, message) /\ message.closed = {"final"}
  BY <1>2 DEF Tracks
<1>4. /\ RequestOk(message.request) /\ FinalOk(message.final) /\ TrailerOk(message)
      /\ G!Numbers(message.final, "status") # {} /\ DataOk(message)
  BY <1>2, <1>3 DEF Fine
<1>5. G!Trailer(stream) /\ stream.awaits # "request"
  BY <1>3 DEF TracksTrailer, G!Trailer
<1>6. stream' = G!OnEnd(G!OnTrailerHeaders(stream, end), end)
      /\ message' = G!Closed(end, stream'.verdict # "reset")
  BY <1>5 DEF G!EndBlock
<1>7. message' = [message EXCEPT !.closed = @ \cup {"trailer"}, !.ended = end]
  BY <1>2, <1>6 DEF G!Closed, MessageTypes
<1>8. /\ message'.part = "trailer" /\ message'.request = message.request
      /\ message'.final = message.final /\ message'.trailer = message.trailer
      /\ message'.closed = {"final", "trailer"} /\ message'.data = message.data
      /\ message'.ended = end /\ MessageTypes(message')
  BY <1>2, <1>3, <1>7 DEF MessageTypes
<1>9. CASE ~end
  <2>1. stream' = G!Reject(stream)
    BY <1>6, <1>9 DEF G!OnTrailerHeaders, G!OnEnd
  <2>2. ~TrailerOk(message')
    BY <1>8, <1>9 DEF TrailerOk
  <2> QED  BY <1>2, <1>8, <2>1, <2>2, RejectIs DEF Judged, Fine
<1>10. CASE end
  <2> DEFINE heard == G!Numbers(message'.final, "content-length")
                      \cup G!Numbers(message'.trailer, "content-length")
  <2>1. stream' = G!OnEnd(stream, end)
    BY <1>6, <1>10 DEF G!OnTrailerHeaders
  <2>2. \A n \in heard : n # NaN
    BY <1>4, <1>8 DEF FinalOk, TrailerOk, G!OneLength, G!Numbers
  <2>3. Remembers(stream.length, LengthsLeft(message', heard)) /\ stream.received = message'.data
    BY <1>3, <1>8 DEF TracksTrailer, LengthsLeft
  <2>4. stream.length \in {NaN, stream.received} <=>
          \A n \in LengthsLeft(message', heard) : message'.data = n
    BY <1>2, <1>8, <2>2, <2>3, LengthIs
  <2>5. TrailerOk(message')
    BY <1>4, <1>8, <1>10 DEF TrailerOk
  <2>6. DataOk(message') <=> \A n \in LengthsLeft(message', heard) : message'.data = n
    BY <1>4, <1>8, <1>10 DEF DataOk, LengthsLeft
  <2>7. Fine(message') <=> \A n \in LengthsLeft(message', heard) : message'.data = n
    BY <1>4, <1>8, <2>5, <2>6 DEF Fine
  <2>8. "interim" \notin stream.flags
    BY <1>3 DEF TracksTrailer
  <2> HIDE DEF heard
  <2>9. CASE stream.length \in {NaN, stream.received}
    <3>1. stream' = [stream EXCEPT !.verdict = "done"]
      BY <1>1, <1>2, <1>10, <2>1, <2>8, <2>9, OnEndIs
    <3>2. stream'.verdict = "done" /\ StreamTypes(stream')
      BY <1>1, <1>2, <3>1, OnEndIs
    <3> QED  BY <1>8, <1>10, <2>4, <2>7, <2>9, <3>2 DEF Judged
  <2>10. CASE stream.length \notin {NaN, stream.received}
    <3>1. stream' = G!Reject(stream)
      BY <1>1, <1>2, <1>10, <2>1, <2>10, OnEndIs
    <3>2. stream'.verdict = "reset" /\ StreamTypes(stream')
      BY <1>2, <3>1, RejectIs
    <3> QED  BY <1>8, <2>4, <2>7, <2>10, <3>2 DEF Judged
  <2> QED  BY <2>9, <2>10
<1> QED  BY <1>9, <1>10

\* DATA before the final answer.
LEMMA EarlyDataKeeps ==
  ASSUME Judged(stream, message), NEW n \in Nat, NEW end \in BOOLEAN, G!Data(n, end),
         message.part = "final"
  PROVE  Judged(stream', message')
<1>1. stream.verdict = "open" /\ stream.awaits = "later" /\ message.final = <<>>
  BY DEF G!Data
<1>2. /\ Fine(message) /\ ~message.ended /\ message.closed \subseteq {"final"}
      /\ Tracks(stream, message) /\ StreamTypes(stream) /\ MessageTypes(message)
  BY <1>1, OpenIs
<1>3. /\ TracksFinal(stream, message.request, message.final) /\ message.trailer = <<>>
      /\ message.closed = {} /\ message.data = 0
  BY <1>2 DEF Tracks
<1>4. "interim" \in stream.flags /\ stream.received = 0 /\ RequestOk(message.request)
  BY <1>1, <1>2, <1>3 DEF TracksFinal, Fine
<1> DEFINE s == [stream EXCEPT !.received = @ + n]
<1>5. /\ s.received = n /\ s.flags = stream.flags /\ s.length = stream.length
      /\ s.verdict = "open" /\ StreamTypes(s)
  <2>1. 0 + n = n
    OBVIOUS
  <2> QED  BY <1>1, <1>2, <1>4, <2>1 DEF StreamTypes
<1>6. message' = [message EXCEPT !.data = @ + n, !.ended = end]
  BY DEF G!Data
<1>7. /\ message'.part = "final" /\ message'.request = message.request /\ message'.final = <<>>
      /\ message'.trailer = <<>> /\ message'.closed = {} /\ message'.data = n
      /\ message'.ended = end /\ MessageTypes(message')
  <2>1. message.data + n = n
    BY <1>3
  <2> QED  BY <1>1, <1>2, <1>3, <1>6, <2>1, EmptyIs DEF MessageTypes
<1>8. CASE n > 0
  <2>1. stream' = G!Reject(s)
    BY <1>4, <1>5, <1>8 DEF G!Data
  <2>2. ~DataOk(message')
    BY <1>7, <1>8 DEF DataOk
  <2> HIDE DEF s
  <2> QED  BY <1>5, <1>7, <2>1, <2>2, RejectIs DEF Judged, Fine
<1>9. CASE ~(n > 0)
  <2>1. stream' = G!OnEnd(s, end)
    BY <1>9 DEF G!Data
  <2> HIDE DEF s
  <2>2. CASE end
    <3>1. stream' = G!Reject(s)
      BY <1>4, <1>5, <2>1, <2>2, OnEndIs
    <3>2. ~DataOk(message')
      BY <1>7, <2>2 DEF DataOk
    <3> QED  BY <1>5, <1>7, <3>1, <3>2, RejectIs DEF Judged, Fine
  <2>3. CASE ~end
    <3>1. stream' = s
      BY <1>5, <2>1, <2>3, OnEndIs
    <3>2. n = 0 /\ s = stream
      BY <1>2, <1>4, <1>9 DEF s, StreamTypes
    <3>3. Tracks(stream', message')
      BY <1>1, <1>3, <1>7, <3>1, <3>2 DEF Tracks
    <3>4. Fine(message')
      BY <1>4, <1>7, <2>3, <3>2, FineBefore, EmptyIs
    <3> QED  BY <1>5, <1>7, <2>3, <3>1, <3>3, <3>4 DEF Judged
  <2> QED  BY <2>2, <2>3
<1> QED  BY <1>8, <1>9

\* DATA of the answer.
LEMMA LateDataKeeps ==
  ASSUME Judged(stream, message), NEW n \in Nat, NEW end \in BOOLEAN, G!Data(n, end),
         message.part = "trailer"
  PROVE  Judged(stream', message')
<1>1. stream.verdict = "open" /\ stream.awaits = "later" /\ message.trailer = <<>>
  BY DEF G!Data
<1>2. /\ Fine(message) /\ ~message.ended /\ message.closed \subseteq {"final"}
      /\ Tracks(stream, message) /\ StreamTypes(stream) /\ MessageTypes(message)
  BY <1>1, OpenIs
<1>3. TracksTrailer(stream, message) /\ message.closed = {"final"}
  BY <1>2 DEF Tracks
<1>4. /\ RequestOk(message.request) /\ FinalOk(message.final) /\ TrailerOk(message)
      /\ G!Numbers(message.final, "status") # {} /\ DataOk(message)
  BY <1>2, <1>3 DEF Fine
<1> DEFINE s == [stream EXCEPT !.received = @ + n]
           sum == message.data + n
           heard == G!Numbers(message.final, "content-length")
<1>5. sum \in Nat /\ stream.received + n = sum /\ message.data \in Nat
  BY <1>2, <1>3 DEF MessageTypes, TracksTrailer
<1> HIDE DEF sum
<1>6. /\ s.received = sum /\ s.flags = stream.flags /\ s.length = stream.length
      /\ s.verdict = "open" /\ s.awaits = stream.awaits /\ s.status = stream.status
      /\ StreamTypes(s)
  BY <1>1, <1>2, <1>5 DEF StreamTypes
<1>7. message' = [message EXCEPT !.data = sum, !.ended = end]
  BY DEF G!Data, sum
<1>8. /\ message'.part = "trailer" /\ message'.request = message.request
      /\ message'.final = message.final /\ message'.trailer = <<>> /\ message'.closed = {"final"}
      /\ message'.data = sum /\ message'.ended = end /\ MessageTypes(message')
  BY <1>1, <1>2, <1>3, <1>5, <1>7 DEF MessageTypes
<1>9. "interim" \notin stream.flags
  BY <1>3 DEF TracksTrailer
<1>10. G!Numbers(<<>>, "content-length") = {}
  BY EmptyIs
<1>11. \A n2 \in heard : n2 # NaN
  BY <1>4 DEF FinalOk, G!OneLength, G!Numbers
<1>12. LengthsLeft(message', heard) = LengthsLeft(message, heard)
  BY <1>8 DEF LengthsLeft
<1>13. Remembers(s.length, LengthsLeft(message', heard))
  BY <1>1, <1>3, <1>6, <1>10, <1>12 DEF TracksTrailer
<1>14. s.length \in {NaN, s.received} <=> \A k \in LengthsLeft(message', heard) : message'.data = k
  BY <1>6, <1>8, <1>11, <1>13, LengthIs
<1> DEFINE less == \A k \in LengthsLeft(message', heard) : sum <= k
           all == \A k \in LengthsLeft(message', heard) : sum = k
<1>15. s.length # NaN <=> LengthsLeft(message', heard) # {}
  <2>1. \A k \in LengthsLeft(message', heard) : k # NaN
    BY <1>11, NeverNumber DEF LengthsLeft
  <2> QED  BY <1>13, <2>1 DEF Remembers
<1>16. (s.length # NaN /\ s.received > s.length) <=> ~less
  <2>1. s.length \in Int
    BY <1>6 DEF StreamTypes
  <2>2. CASE s.length = NaN
    BY <1>15, <2>2
  <2>3. CASE s.length # NaN
    <3>1. LengthsLeft(message', heard) = {s.length}
      BY <1>13, <1>15, <2>3 DEF Remembers
    <3> QED  BY <1>5, <1>6, <2>1, <2>3, <3>1
  <2> QED  BY <2>2, <2>3
<1>17. TrailerOk(message')
  BY <1>4, <1>8, <1>10, EmptyIs DEF TrailerOk
<1>18. DataOk(message') <=> (sum > 0 => less) /\ (end => all)
  BY <1>8, <1>10 DEF DataOk
<1>19. Fine(message') <=> (sum > 0 => less) /\ (end => all)
  BY <1>4, <1>8, <1>17, <1>18 DEF Fine
<1>20. n = 0 => (sum > 0 => less)
  <2>1. n = 0 => sum = message.data
    BY <1>5 DEF sum
  <2>2. message.data > 0 => \A k \in LengthsLeft(message, heard) : message.data <= k
    BY <1>4 DEF DataOk
  <2> QED  BY <1>12, <2>1, <2>2
<1>21. n > 0 => sum > 0
  BY <1>5 DEF sum
<1>22. stream' = IF n > 0 /\ (s.length # NaN /\ s.received > s.length)
                 THEN G!Reject(s) ELSE G!OnEnd(s, end)
  BY <1>6, <1>9 DEF G!Data
<1>23. "interim" \notin s.flags /\ s.awaits = "later"
  BY <1>1, <1>6, <1>9
<1>24. Tracks(s, message')
  BY <1>3, <1>6, <1>8, <1>10, <1>13, <1>23 DEF Tracks, TracksTrailer
<1> HIDE DEF s, less, all, heard
<1>25. CASE n > 0 /\ ~less
  <2>1. stream' = G!Reject(s) /\ ~Fine(message')
    BY <1>16, <1>19, <1>21, <1>22, <1>25
  <2> QED  BY <1>6, <1>8, <2>1, RejectIs DEF Judged
<1>26. CASE ~(n > 0 /\ ~less)
  <2>1. stream' = G!OnEnd(s, end) /\ (Fine(message') <=> (end => all))
    BY <1>16, <1>19, <1>20, <1>22, <1>26
  <2>2. CASE ~end
    <3>1. stream' = s
      BY <1>6, <2>1, <2>2, OnEndIs
    <3> QED  BY <1>6, <1>8, <1>24, <2>1, <2>2, <3>1 DEF Judged
  <2>3. CASE end /\ s.length \in {NaN, s.received}
    <3>1. stream' = [s EXCEPT !.verdict = "done"] /\ all
      BY <1>6, <1>8, <1>14, <1>23, <2>1, <2>3, OnEndIs DEF all
    <3>2. stream'.verdict = "done" /\ StreamTypes(stream')
      BY <1>6, <3>1, OnEndIs
    <3> QED  BY <1>8, <2>1, <2>3, <3>1, <3>2 DEF Judged
  <2>4. CASE end /\ s.length \notin {NaN, s.received}
    <3>1. stream' = G!Reject(s) /\ ~all
      BY <1>6, <1>8, <1>14, <2>1, <2>4, OnEndIs DEF all
    <3>2. stream'.verdict = "reset" /\ StreamTypes(stream')
      BY <1>6, <3>1, RejectIs
    <3> QED  BY <1>8, <2>1, <2>4, <3>1, <3>2 DEF Judged
  <2> QED  BY <2>2, <2>3, <2>4
<1> QED  BY <1>25, <1>26

LEMMA MessagesInitKeeps == G!Init => MessagesInv
<1> SUFFICES ASSUME G!Init PROVE Judged(stream, message)
  BY DEF MessagesInv
<1>1. /\ stream.awaits \in {"request", "first"} /\ stream.flags = {} /\ stream.status = NaN
      /\ stream.length = NaN /\ stream.received = 0 /\ stream.verdict = "open"
      /\ StreamTypes(stream)
  BY NeverNumber DEF G!Init, StreamTypes
<1>2. /\ message.part = (IF stream.awaits = "request" THEN "request" ELSE "final")
      /\ message.request = <<>> /\ message.final = <<>> /\ message.trailer = <<>>
      /\ message.closed = {} /\ message.data = 0 /\ message.ended = FALSE /\ MessageTypes(message)
  BY EmptyIs DEF G!Init, MessageTypes
<1>3. Fine(message)
  BY <1>2, FineBefore, EmptyIs
<1>4. CASE stream.awaits = "request"
  <2>1. TracksRequest(stream, <<>>)
    BY <1>1, <1>4, EmptyIs DEF TracksRequest, Remembers
  <2>2. Tracks(stream, message)
    BY <1>2, <1>4, <2>1 DEF Tracks
  <2> QED  BY <1>1, <1>2, <1>3, <2>2 DEF Judged
<1>5. CASE stream.awaits = "first"
  <2>1. TracksFinal(stream, <<>>, <<>>)
    BY <1>1, <1>5, EmptyIs DEF TracksFinal, Remembers
  <2>2. Tracks(stream, message)
    BY <1>2, <1>5, <2>1 DEF Tracks
  <2> QED  BY <1>1, <1>2, <1>3, <2>2 DEF Judged
<1> QED  BY <1>1, <1>4, <1>5

LEMMA MessagesNextKeeps == MessagesInv /\ [G!Next]_(G!messageVars) => MessagesInv'
<1> SUFFICES ASSUME Judged(stream, message), [G!Next]_(G!messageVars)
             PROVE  Judged(stream', message')
  BY DEF MessagesInv
<1>1. MessageTypes(message)
  BY DEF Judged
<1>2. ASSUME NEW f \in Fields, G!Field(f) PROVE Judged(stream', message')
  BY <1>1, <1>2, RequestFieldKeeps, FinalFieldKeeps, TrailerFieldKeeps DEF MessageTypes
<1>3. ASSUME NEW end \in BOOLEAN, G!EndBlock(end) PROVE Judged(stream', message')
  BY <1>1, <1>3, RequestEndKeeps, InterimEndKeeps, FinalEndKeeps, TrailerEndKeeps DEF MessageTypes
<1>4. ASSUME NEW n \in 0 .. MaxData - message.data, NEW end \in BOOLEAN, G!Data(n, end)
      PROVE  Judged(stream', message')
  <2>1. n \in Nat
    BY <1>4, <1>1, MessagesAssumed DEF G!MessagesAssumption, MessageTypes
  <2>2. message.part # "request"
    <3>1. Tracks(stream, message) /\ stream.awaits = "later"
      BY <1>4, OpenIs DEF G!Data
    <3> QED  BY <3>1 DEF Tracks, TracksRequest
  <2> QED  BY <1>1, <1>4, <2>1, <2>2, EarlyDataKeeps, LateDataKeeps DEF MessageTypes
<1>5. CASE UNCHANGED G!messageVars
  BY <1>5 DEF G!messageVars
<1> QED  BY <1>2, <1>3, <1>4, <1>5 DEF G!Next

\* Every stream is judged by the whole of its message, for any fields and any lengths
\* (nghttp2_http.c, session_after_header_block_received and NGHTTP2_IB_READ_DATA).
THEOREM MessagesAreJudged == G!Spec => []MessagesValid
<1>1. MessagesInv => MessagesValid
  BY FineIs DEF MessagesInv, Judged, MessagesValid, G!MessagesValid, StreamTypes, MessageTypes
<1> QED  BY <1>1, MessagesInitKeeps, MessagesNextKeeps, PTL DEF G!Spec

-----------------------------------------------------------------------------
(* The heap                                                                *)

(***************************************************************************)
(* h holds the entries of E in the places below n, and each knows its own. *)
(***************************************************************************)
Holds(h, n, E) ==
  /\ n \in Nat /\ E \subseteq Entries
  /\ h = [q |-> h.q, index |-> h.index]
  /\ h.q \in [0 .. n - 1 -> E] /\ h.index \in [Entries -> Nat]
  /\ \A e \in E : h.index[e] \in 0 .. n - 1 /\ h.q[h.index[e]] = e
  /\ \A i \in 0 .. n - 1 : h.index[h.q[i]] = i

\* The entry at i may be above that at j.
Above(h, i, j) == rank[h.q[i]] <= rank[h.q[j]]
Ordered(h, n) == \A j \in 1 .. n - 1 : Above(h, Q!Parent(j), j)

\* Only the entry that rises, or sinks, may be out of order.
Rising(s, n, E) ==
  /\ Holds(s.h, n, E) /\ s = [h |-> s.h, i |-> s.i] /\ s.i \in 0 .. n - 1
  /\ \A j \in 1 .. n - 1 : j # s.i => Above(s.h, Q!Parent(j), j)
  /\ \A j \in 1 .. n - 1 : Q!Parent(j) = s.i /\ s.i # 0 => Above(s.h, Q!Parent(s.i), j)

Sinking(s, n, E) ==
  /\ Holds(s.h, n, E) /\ s = [h |-> s.h, i |-> s.i] /\ s.i \in Nat
  /\ \A j \in 1 .. n - 1 : Q!Parent(j) # s.i => Above(s.h, Q!Parent(j), j)
  /\ \A j \in 1 .. n - 1 : Q!Parent(j) = s.i /\ s.i # 0 => Above(s.h, Q!Parent(s.i), j)

HeapInv ==
  /\ rank \in [Entries -> Ranks]
  /\ \E n \in Nat : Holds(heap, n, held) /\ Ordered(heap, n)

LEMMA ParentIs ==
  /\ \A j \in Nat \ {0} :
       Q!Parent(j) \in Nat /\ Q!Parent(j) < j /\ j \in {2 * Q!Parent(j) + 1, 2 * Q!Parent(j) + 2}
  /\ \A p \in Nat : Q!Parent(2 * p + 1) = p /\ Q!Parent(2 * p + 2) = p
BY DEF Q!Parent

LEMMA RanksAre ==
  ASSUME rank \in [Entries -> Ranks], NEW h, NEW n, NEW E, Holds(h, n, E)
  PROVE  \A i \in 0 .. n - 1 : h.q[i] \in E /\ h.q[i] \in Entries /\ rank[h.q[i]] \in Nat
BY HeapAssumed DEF Q!HeapAssumption, Holds

LEMMA SwappedIs ==
  ASSUME NEW h, NEW n, NEW E, Holds(h, n, E), NEW i \in 0 .. n - 1, NEW j \in 0 .. n - 1, i # j
  PROVE  /\ Holds(Q!Swapped(h, i, j), n, E)
         /\ Q!Swapped(h, i, j).q =
              [k \in 0 .. n - 1 |-> IF k = i THEN h.q[j] ELSE IF k = j THEN h.q[i] ELSE h.q[k]]
<1> DEFINE a == h.q[i]
           b == h.q[j]
           t == Q!Put(h, i, b)
           u == Q!Put(t, j, a)
<1>1. /\ h.q \in [0 .. n - 1 -> E] /\ h.index \in [Entries -> Nat] /\ n \in Nat
      /\ a \in E /\ b \in E /\ E \subseteq Entries
      /\ h.index[a] = i /\ h.index[b] = j
  BY DEF Holds
<1>2. DOMAIN h.q = 0 .. n - 1 /\ (0 .. n - 1) \cup {i} = 0 .. n - 1 /\ (0 .. n - 1) \cup {j} = 0 .. n - 1
  BY <1>1
<1>3. t.q = [k \in 0 .. n - 1 |-> IF k = i THEN b ELSE h.q[k]] /\ t.index = [h.index EXCEPT ![b] = i]
  BY <1>2 DEF Q!Put
<1>4. DOMAIN t.q = 0 .. n - 1
  BY <1>3
<1>5. u.q = [k \in 0 .. n - 1 |-> IF k = j THEN a ELSE t.q[k]] /\ u.index = [t.index EXCEPT ![a] = j]
  BY <1>2, <1>4 DEF Q!Put
<1>6. u = [q |-> u.q, index |-> u.index]
  BY DEF Q!Put
<1>7. u = Q!Swapped(h, i, j)
  BY DEF Q!Swapped
<1> HIDE DEF t, u, a, b
<1>8. u.q = [k \in 0 .. n - 1 |-> IF k = i THEN b ELSE IF k = j THEN a ELSE h.q[k]]
  BY <1>3, <1>5
<1>9. u.index = [e \in Entries |-> IF e = a THEN j ELSE IF e = b THEN i ELSE h.index[e]]
  BY <1>1, <1>3, <1>5
<1>10. a # b /\ h.q[i] = a /\ h.q[j] = b
  BY <1>1 DEF a, b
<1>11. ASSUME NEW e \in E PROVE u.index[e] \in 0 .. n - 1 /\ u.q[u.index[e]] = e
  <2>1. h.index[e] \in 0 .. n - 1 /\ h.q[h.index[e]] = e
    BY DEF Holds
  <2>2. e \in Entries
    BY <1>1
  <2>3. CASE e = a
    BY <1>8, <1>9, <1>10, <2>2, <2>3
  <2>4. CASE e = b
    BY <1>8, <1>9, <1>10, <2>2, <2>4
  <2>5. CASE e # a /\ e # b
    <3>1. h.index[e] # i /\ h.index[e] # j
      BY <1>10, <2>1, <2>5
    <3> QED  BY <1>8, <1>9, <2>1, <2>2, <2>5, <3>1
  <2> QED  BY <2>3, <2>4, <2>5
<1>12. ASSUME NEW k \in 0 .. n - 1 PROVE u.index[u.q[k]] = k
  <2>1. h.index[h.q[k]] = k /\ h.q[k] \in Entries
    BY <1>1 DEF Holds
  <2>2. CASE k = i
    BY <1>1, <1>8, <1>9, <1>10, <2>2
  <2>3. CASE k = j
    BY <1>1, <1>8, <1>9, <1>10, <2>3
  <2>4. CASE k # i /\ k # j
    <3>1. h.q[k] # a /\ h.q[k] # b
      BY <1>1, <1>10, <2>1, <2>4
    <3> QED  BY <1>8, <1>9, <2>1, <2>4, <3>1
  <2> QED  BY <2>2, <2>3, <2>4
<1>13. u.q \in [0 .. n - 1 -> E] /\ u.index \in [Entries -> Nat]
  BY <1>1, <1>8, <1>9
<1>14. Holds(u, n, E)
  BY <1>1, <1>6, <1>11, <1>12, <1>13 DEF Holds
<1> QED  BY <1>7, <1>8, <1>14 DEF a, b

LEMMA RoundUpKeeps ==
  ASSUME rank \in [Entries -> Ranks], NEW s, NEW n, NEW E, Rising(s, n, E)
  PROVE  /\ Rising(Q!RoundUp(s), n, E)
         /\ Q!RoundUp(s) = s \/ Q!RoundUp(s).i < s.i
         /\ Q!RoundUp(s) = s => Ordered(s.h, n)
<1> DEFINE i == s.i
           p == Q!Parent(i)
           h == s.h
           t == Q!Swapped(h, p, i)
           r == [h |-> t, i |-> p]
<1>1. /\ Holds(h, n, E) /\ s = [h |-> h, i |-> i] /\ i \in 0 .. n - 1 /\ n \in Nat
      /\ \A j \in 1 .. n - 1 : j # i => Above(h, Q!Parent(j), j)
      /\ \A j \in 1 .. n - 1 : Q!Parent(j) = i /\ i # 0 => Above(h, p, j)
  BY DEF Rising, Holds
<1>2. Q!RoundUp(s) = IF i = 0 \/ ~Q!Precedes(h.q[i], h.q[p]) THEN s ELSE r
  BY DEF Q!RoundUp
<1> HIDE DEF h, r
<1>3. CASE i = 0 \/ ~Q!Precedes(h.q[i], h.q[p])
  <2>1. Q!RoundUp(s) = s
    BY <1>2, <1>3
  <2>2. ASSUME NEW j \in 1 .. n - 1 PROVE Above(h, Q!Parent(j), j)
    <3>1. CASE j # i
      BY <1>1, <3>1
    <3>2. CASE j = i
      <4>1. ~ (rank[h.q[i]] < rank[h.q[p]]) /\ i \in 0 .. n - 1 /\ p \in 0 .. n - 1
        BY <1>1, <1>3, <3>2, ParentIs DEF Q!Precedes
      <4>2. rank[h.q[i]] \in Nat /\ rank[h.q[p]] \in Nat
        BY <1>1, <4>1, RanksAre
      <4> QED  BY <3>2, <4>1, <4>2 DEF Above
    <3> QED  BY <3>1, <3>2
  <2> QED  BY <2>1, <2>2 DEF Ordered, h
<1>4. CASE i # 0 /\ Q!Precedes(h.q[i], h.q[p])
  <2>1. /\ p \in 0 .. n - 1 /\ p < i /\ i \in 1 .. n - 1
        /\ rank[h.q[i]] < rank[h.q[p]]
    BY <1>1, <1>4, ParentIs DEF Q!Precedes
  <2>2. Q!RoundUp(s) = r
    BY <1>2, <1>4
  <2>3. /\ Holds(t, n, E)
        /\ t.q = [k \in 0 .. n - 1 |-> IF k = p THEN h.q[i] ELSE IF k = i THEN h.q[p] ELSE h.q[k]]
    BY <1>1, <2>1, SwappedIs
  <2>4. \A k \in 0 .. n - 1 : rank[h.q[k]] \in Nat
    BY <1>1, RanksAre
  <2> HIDE DEF t
  <2>5. ASSUME NEW j \in 1 .. n - 1
        PROVE  /\ Q!Parent(j) \in 0 .. n - 1 /\ j \in 0 .. n - 1 /\ Q!Parent(j) < j /\ j \in Nat \ {0}
    BY <1>1, ParentIs
  <2>6. ASSUME NEW j \in 1 .. n - 1, j # p PROVE Above(t, Q!Parent(j), j)
    <3>0. /\ Q!Parent(j) \in 0 .. n - 1 /\ j \in 0 .. n - 1 /\ Q!Parent(j) # j
      BY <2>5
    <3>1. CASE j = i
      <4>1. t.q[j] = h.q[p] /\ t.q[Q!Parent(j)] = h.q[i]
        BY <2>1, <2>3, <3>1
      <4> QED  BY <2>1, <2>4, <4>1 DEF Above
    <3>2. CASE j # i /\ Q!Parent(j) = i
      <4>1. Above(h, p, j)
        BY <1>1, <1>4, <3>2
      <4>2. t.q[j] = h.q[j] /\ t.q[Q!Parent(j)] = h.q[p]
        BY <2>1, <2>3, <2>6, <3>0, <3>2
      <4> QED  BY <4>1, <4>2 DEF Above
    <3>3. CASE j # i /\ Q!Parent(j) = p
      <4>1. Above(h, p, j)
        BY <1>1, <3>3
      <4>2. t.q[j] = h.q[j] /\ t.q[Q!Parent(j)] = h.q[i]
        BY <2>1, <2>3, <2>6, <3>0, <3>3
      <4> QED  BY <2>1, <2>4, <3>0, <4>1, <4>2 DEF Above
    <3>4. CASE j # i /\ Q!Parent(j) # p /\ Q!Parent(j) # i
      <4>1. Above(h, Q!Parent(j), j)
        BY <1>1, <3>4
      <4>2. t.q[j] = h.q[j] /\ t.q[Q!Parent(j)] = h.q[Q!Parent(j)]
        BY <2>3, <2>6, <3>0, <3>4
      <4> QED  BY <4>1, <4>2 DEF Above
    <3> QED  BY <3>1, <3>2, <3>3, <3>4
  <2>7. ASSUME NEW j \in 1 .. n - 1, Q!Parent(j) = p, p # 0 PROVE Above(t, Q!Parent(p), j)
    <3>0. /\ p \in 1 .. n - 1 /\ Q!Parent(p) \in 0 .. n - 1 /\ Q!Parent(p) < p /\ p < j /\ j \in 0 .. n - 1
      BY <2>1, <2>5, <2>7
    <3>1. Above(h, Q!Parent(p), p)
      BY <1>1, <2>1, <3>0
    <3>2. t.q[Q!Parent(p)] = h.q[Q!Parent(p)]
      BY <2>1, <2>3, <3>0
    <3>3. CASE j = i
      <4>1. t.q[j] = h.q[p]
        BY <2>1, <2>3, <3>0, <3>3
      <4> QED  BY <3>1, <3>2, <4>1 DEF Above
    <3>4. CASE j # i
      <4>1. Above(h, p, j)
        BY <1>1, <2>7, <3>4
      <4>2. t.q[j] = h.q[j]
        BY <2>3, <3>0, <3>4
      <4> QED  BY <2>1, <2>4, <3>0, <3>1, <3>2, <4>1, <4>2 DEF Above
    <3> QED  BY <3>3, <3>4
  <2>8. r.h = t /\ r.i = p /\ r = [h |-> r.h, i |-> r.i]
    BY DEF r
  <2> HIDE DEF p, i
  <2>9. Rising(r, n, E)
    BY <2>1, <2>3, <2>6, <2>7, <2>8 DEF Rising
  <2>10. r.i < i /\ i = s.i /\ r # s
    BY <2>1, <2>8 DEF i
  <2> QED  BY <2>2, <2>9, <2>10
<1> QED  BY <1>3, <1>4

LEMMA RoundDownKeeps ==
  ASSUME rank \in [Entries -> Ranks], NEW s, NEW n, NEW E, Sinking(s, n, E)
  PROVE  /\ Sinking(Q!RoundDown(s), n, E)
         /\ Q!RoundDown(s) = s \/ (s.i < Q!RoundDown(s).i /\ Q!RoundDown(s).i < n)
         /\ Q!RoundDown(s) = s => Ordered(s.h, n)
<1> DEFINE i == s.i
           h == s.h
           lesser == {j \in {2 * i + 1, 2 * i + 2} \cap DOMAIN h.q : Q!Precedes(h.q[j], h.q[i])}
           Least(j) == \A k \in lesser : Q!Precedes(h.q[j], h.q[k])
                                         \/ (~Q!Precedes(h.q[k], h.q[j]) /\ j <= k)
           c == CHOOSE j \in lesser : Least(j)
           t == Q!Swapped(h, i, c)
           r == [h |-> t, i |-> c]
<1>1. /\ Holds(h, n, E) /\ s = [h |-> h, i |-> i] /\ i \in Nat /\ n \in Nat
      /\ \A j \in 1 .. n - 1 : Q!Parent(j) # i => Above(h, Q!Parent(j), j)
      /\ \A j \in 1 .. n - 1 : Q!Parent(j) = i /\ i # 0 => Above(h, Q!Parent(i), j)
  BY DEF Sinking, Holds
<1>2. Q!RoundDown(s) = IF lesser = {} THEN s ELSE r
  BY DEF Q!RoundDown
<1>3. DOMAIN h.q = 0 .. n - 1
  BY <1>1 DEF Holds
<1>4. \A k \in 0 .. n - 1 : rank[h.q[k]] \in Nat
  BY <1>1, RanksAre
<1>5. \A j \in 1 .. n - 1 :
        /\ Q!Parent(j) \in 0 .. n - 1 /\ j \in 0 .. n - 1 /\ Q!Parent(j) < j
        /\ Q!Parent(j) = i <=> j \in {2 * i + 1, 2 * i + 2}
  BY <1>1, ParentIs
<1>6. \A j \in lesser :
        /\ j \in 1 .. n - 1 /\ i \in 0 .. n - 1 /\ Q!Parent(j) = i /\ i < j
        /\ rank[h.q[j]] < rank[h.q[i]]
  BY <1>1, <1>3, <1>5 DEF Q!Precedes
<1>7. CASE lesser = {}
  <2>1. Q!RoundDown(s) = s
    BY <1>2, <1>7
  <2>2. ASSUME NEW j \in 1 .. n - 1 PROVE Above(h, Q!Parent(j), j)
    <3>1. CASE Q!Parent(j) # i
      BY <1>1, <3>1
    <3>2. CASE Q!Parent(j) = i
      <4>1. j \in {2 * i + 1, 2 * i + 2} /\ j \in DOMAIN h.q /\ i \in 0 .. n - 1
        BY <1>3, <1>5, <3>2
      <4>2. ~Q!Precedes(h.q[j], h.q[i])
        BY <1>7, <4>1
      <4> QED  BY <1>3, <1>4, <3>2, <4>1, <4>2 DEF Above, Q!Precedes
    <3> QED  BY <3>1, <3>2
  <2> QED  BY <2>1, <2>2 DEF Ordered
<1>8. CASE lesser # {}
  <2>1. Q!RoundDown(s) = r
    BY <1>2, <1>8
  <2>2. \E j \in lesser : Least(j)
    <3>1. lesser \subseteq {2 * i + 1, 2 * i + 2}
      OBVIOUS
    <3>2. \A j \in lesser : rank[h.q[j]] \in Nat /\ j \in Nat
      BY <1>4, <1>6
    <3> DEFINE x == 2 * i + 1
               y == 2 * i + 2
    <3>3. x \in Nat /\ y \in Nat /\ x < y
      BY <1>1
    <3> HIDE DEF x, y, lesser, h, i
    <3>4. lesser \subseteq {x, y}
      BY <3>1 DEF x, y
    <3>5. CASE x \notin lesser
      <4>1. y \in lesser /\ \A k \in lesser : k = y
        BY <1>8, <3>4, <3>5
      <4>2. Least(y)
        BY <3>2, <3>3, <4>1 DEF Q!Precedes
      <4> QED  BY <4>1, <4>2
    <3>6. CASE x \in lesser /\ (y \in lesser => rank[h.q[x]] <= rank[h.q[y]])
      <4>1. ASSUME NEW k \in lesser
            PROVE  Q!Precedes(h.q[x], h.q[k]) \/ (~Q!Precedes(h.q[k], h.q[x]) /\ x <= k)
        <5>1. rank[h.q[k]] \in Nat /\ rank[h.q[x]] \in Nat /\ (k = x \/ k = y)
          BY <3>2, <3>4, <3>6
        <5> QED  BY <3>3, <3>6, <5>1 DEF Q!Precedes
      <4>2. Least(x)
        BY <4>1
      <4> QED  BY <3>6, <4>2
    <3>7. CASE x \in lesser /\ y \in lesser /\ rank[h.q[y]] < rank[h.q[x]]
      <4>1. ASSUME NEW k \in lesser
            PROVE  Q!Precedes(h.q[y], h.q[k]) \/ (~Q!Precedes(h.q[k], h.q[y]) /\ y <= k)
        <5>1. rank[h.q[k]] \in Nat /\ rank[h.q[y]] \in Nat /\ (k = x \/ k = y)
          BY <3>2, <3>4, <3>7
        <5> QED  BY <3>3, <3>7, <5>1 DEF Q!Precedes
      <4>2. Least(y)
        BY <4>1
      <4> QED  BY <3>7, <4>2
    <3> QED  BY <3>2, <3>5, <3>6, <3>7
  <2>3. c \in lesser /\ Least(c)
    BY <2>2
  <2> HIDE DEF c, r
  <2>4. /\ c \in 1 .. n - 1 /\ c \in 0 .. n - 1 /\ i \in 0 .. n - 1 /\ Q!Parent(c) = i /\ i < c
        /\ rank[h.q[c]] < rank[h.q[i]]
    BY <1>1, <1>6, <2>3
  <2>5. /\ Holds(t, n, E)
        /\ t.q = [k \in 0 .. n - 1 |-> IF k = i THEN h.q[c] ELSE IF k = c THEN h.q[i] ELSE h.q[k]]
    BY <1>1, <2>4, SwappedIs
  <2>6. ASSUME NEW j \in 1 .. n - 1, Q!Parent(j) = i PROVE rank[h.q[c]] <= rank[h.q[j]]
    <3>1. j \in {2 * i + 1, 2 * i + 2} \cap DOMAIN h.q /\ j \in 0 .. n - 1
      BY <1>3, <1>5, <2>6
    <3>2. CASE j \in lesser
      <4>1. Q!Precedes(h.q[c], h.q[j]) \/ ~Q!Precedes(h.q[j], h.q[c])
        BY <2>3, <3>2
      <4> HIDE DEF lesser
      <4> QED  BY <1>4, <2>4, <3>1, <4>1 DEF Q!Precedes
    <3>3. CASE j \notin lesser
      <4>1. ~Q!Precedes(h.q[j], h.q[i])
        BY <3>1, <3>3
      <4> HIDE DEF lesser
      <4> QED  BY <1>4, <2>4, <3>1, <4>1 DEF Q!Precedes
    <3> QED  BY <3>2, <3>3
  <2> HIDE DEF t, lesser
  <2>7. ASSUME NEW j \in 1 .. n - 1, Q!Parent(j) # c PROVE Above(t, Q!Parent(j), j)
    <3>0. Q!Parent(j) \in 0 .. n - 1 /\ j \in 0 .. n - 1 /\ Q!Parent(j) # j
      BY <1>1, <1>5
    <3>1. CASE j = c
      <4>1. t.q[j] = h.q[i] /\ t.q[Q!Parent(j)] = h.q[c]
        BY <2>4, <2>5, <3>1
      <4> QED  BY <1>4, <2>4, <4>1 DEF Above
    <3>2. CASE j # c /\ Q!Parent(j) = i
      <4>1. t.q[j] = h.q[j] /\ t.q[Q!Parent(j)] = h.q[c]
        BY <2>4, <2>5, <3>0, <3>2
      <4> QED  BY <2>6, <3>2, <4>1 DEF Above
    <3>3. CASE j = i
      <4>1. Above(h, Q!Parent(i), c)
        BY <1>1, <2>4, <3>3
      <4>2. t.q[j] = h.q[c] /\ t.q[Q!Parent(j)] = h.q[Q!Parent(i)]
        BY <2>4, <2>5, <2>7, <3>0, <3>3
      <4> QED  BY <4>1, <4>2 DEF Above
    <3>4. CASE j # c /\ j # i /\ Q!Parent(j) # i
      <4>1. Above(h, Q!Parent(j), j)
        BY <1>1, <3>4
      <4>2. t.q[j] = h.q[j] /\ t.q[Q!Parent(j)] = h.q[Q!Parent(j)]
        BY <2>5, <2>7, <3>0, <3>4
      <4> QED  BY <4>1, <4>2 DEF Above
    <3> QED  BY <3>1, <3>2, <3>3, <3>4
  <2>8. ASSUME NEW j \in 1 .. n - 1, Q!Parent(j) = c PROVE Above(t, Q!Parent(c), j)
    <3>0. j \in 0 .. n - 1 /\ c < j
      BY <1>5, <2>8
    <3>1. Above(h, Q!Parent(j), j)
      BY <1>1, <2>4, <2>8
    <3>2. t.q[j] = h.q[j] /\ t.q[Q!Parent(c)] = h.q[c]
      BY <2>4, <2>5, <3>0
    <3> QED  BY <2>8, <3>1, <3>2 DEF Above
  <2>9. r.h = t /\ r.i = c /\ r = [h |-> r.h, i |-> r.i]
    BY DEF r
  <2> HIDE DEF i
  <2>10. Sinking(r, n, E)
    BY <2>4, <2>5, <2>7, <2>8, <2>9 DEF Sinking
  <2>11. i < r.i /\ r.i < n /\ i = s.i /\ r # s
    BY <1>1, <2>4, <2>9 DEF i
  <2> QED  BY <2>1, <2>10, <2>11
<1> QED  BY <1>7, <1>8

(***************************************************************************)
(* A loop whose rounds F stays in S comes to rest after as many rounds as  *)
(* it has to go.                                                           *)
(***************************************************************************)
Rounds(g, F, x, N) == g[0] = x /\ \A n \in 1 .. N : g[n] = F[g[n - 1]]

LEMMA RoundsExist ==
  ASSUME NEW S, NEW F \in [S -> S], NEW x \in S, NEW N \in Nat
  PROVE  \E g \in [0 .. N -> S] : Rounds(g, F, x, N)
<1> DEFINE Made(n) == \E g \in [0 .. n -> S] : Rounds(g, F, x, n)
           T == {n \in 0 .. N : ~Made(n)}
<1>1. SUFFICES ASSUME T # {} PROVE FALSE
  <2>1. N \in 0 .. N
    OBVIOUS
  <2> HIDE DEF Made
  <2>2. T = {} => Made(N)
    BY <2>1
  <2> QED  BY <2>2 DEF Made
<1>2. PICK n \in T : \A m \in T : n <= m
  <2>1. T \subseteq Nat
    OBVIOUS
  <2> QED  BY <1>1, <2>1, LeastExists
<1>3. n # 0
  <2>1. [k \in 0 .. 0 |-> x] \in [0 .. 0 -> S] /\ Rounds([k \in 0 .. 0 |-> x], F, x, 0)
    BY DEF Rounds
  <2> QED  BY <2>1
<1>4. n \in 1 .. N /\ n - 1 \in 0 .. N /\ n - 1 < n
  BY <1>3
<1>5. PICK g \in [0 .. n - 1 -> S] : Rounds(g, F, x, n - 1)
  <2> HIDE DEF Made
  <2>1. Made(n - 1)
    BY <1>2, <1>4
  <2> USE DEF Made
  <2> QED  BY <2>1
<1> DEFINE h == [k \in 0 .. n |-> IF k = n THEN F[g[n - 1]] ELSE g[k]]
<1>6. n - 1 \in 0 .. n - 1 /\ g[n - 1] \in S
  BY <1>4
<1>7. h \in [0 .. n -> S]
  <2>1. ASSUME NEW k \in 0 .. n PROVE h[k] \in S
    <3>1. k # n => k \in 0 .. n - 1
      BY <1>4
    <3> QED  BY <1>6, <3>1
  <2> QED  BY <2>1
<1>8. Rounds(h, F, x, n)
  <2>1. h[0] = x
    BY <1>4, <1>5 DEF Rounds
  <2>2. ASSUME NEW k \in 1 .. n PROVE h[k] = F[h[k - 1]]
    <3>1. k - 1 \in 0 .. n /\ k - 1 # n /\ k \in 0 .. n
      BY <1>4
    <3>2. CASE k = n
      BY <3>1, <3>2
    <3>3. CASE k # n
      <4>1. k \in 1 .. n - 1
        BY <1>4, <3>3
      <4> QED  BY <1>5, <3>1, <3>3, <4>1 DEF Rounds
    <3> QED  BY <3>2, <3>3
  <2> QED  BY <2>1, <2>2 DEF Rounds
<1>9. Made(n)
  BY <1>7, <1>8
<1> HIDE DEF Made
<1> QED  BY <1>9

\* D says how far there is to go.
Lessens(S, F, D) ==
  /\ F \in [S -> S] /\ D \in [S -> Nat]
  /\ \A s \in S : F[s] = s \/ D[F[s]] < D[s]

LEMMA RoundsEnd ==
  ASSUME NEW S, NEW F, NEW N, NEW g, NEW x, NEW D,
         N \in Nat, g \in [0 .. N -> S], Rounds(g, F, x, N), Lessens(S, F, D), D[x] <= N
  PROVE  F[g[N]] = g[N]
<1> USE DEF Lessens
<1> DEFINE T == {n \in 0 .. N : F[g[n]] # g[n] /\ ~ (D[g[n]] <= N - n)}
<1>1. T = {}
  <2>1. SUFFICES ASSUME T # {} PROVE FALSE
    OBVIOUS
  <2>2. PICK n \in T : \A m \in T : n <= m
    <3>1. T \subseteq Nat
      OBVIOUS
    <3> QED  BY <2>1, <3>1, LeastExists
  <2>3. g[0] = x
    BY DEF Rounds
  <2>4. n \in 1 .. N /\ n - 1 \in 0 .. N /\ n - 1 < n
    BY <2>2, <2>3
  <2>5. g[n] = F[g[n - 1]] /\ g[n - 1] \in S /\ g[n] \in S
    BY <2>4 DEF Rounds
  <2>6. F[g[n - 1]] # g[n - 1]
    BY <2>2, <2>5
  <2>7. D[g[n - 1]] <= N - (n - 1)
    BY <2>2, <2>4, <2>6
  <2>8. D[g[n]] < D[g[n - 1]] /\ D[g[n]] \in Nat /\ D[g[n - 1]] \in Nat
    BY <2>5, <2>6
  <2> QED  BY <2>2, <2>4, <2>7, <2>8
<1>2. N \in 0 .. N /\ g[N] \in S
  OBVIOUS
<1>3. ASSUME F[g[N]] # g[N] PROVE FALSE
  <2>1. D[g[N]] <= N - N
    BY <1>1, <1>2, <1>3
  <2>2. D[F[g[N]]] < D[g[N]] /\ F[g[N]] \in S
    BY <1>2, <1>3
  <2>3. D[g[N]] \in Nat /\ D[F[g[N]]] \in Nat
    BY <1>2, <2>2
  <2> QED  BY <2>1, <2>2, <2>3
<1> QED  BY <1>3

States(n, E) == [h : [q : [0 .. n - 1 -> E], index : [Entries -> Nat]], i : Nat]

LEMMA BubblesUp ==
  ASSUME rank \in [Entries -> Ranks], NEW h, NEW i, NEW n, NEW E, Rising([h |-> h, i |-> i], n, E)
  PROVE  Holds(Q!BubbleUp(h, i), n, E) /\ Ordered(Q!BubbleUp(h, i), n)
<1> DEFINE x == [h |-> h, i |-> i]
           S == {s \in States(n, E) : Rising(s, n, E)}
           F == [s \in S |-> Q!RoundUp(s)]
           D == [s \in S |-> s.i]
           Longer(f) == [k \in 0 .. i |-> IF k = 0 THEN x ELSE Q!RoundUp(f[k - 1])]
           up == CHOOSE f : f = Longer(f)
<1>1. ASSUME NEW s, Rising(s, n, E) PROVE s \in S /\ s.i \in Nat
  <2>1. s.h \in [q : [0 .. n - 1 -> E], index : [Entries -> Nat]] /\ s.i \in Nat
    <3>1. /\ s.h = [q |-> s.h.q, index |-> s.h.index]
          /\ s.h.q \in [0 .. n - 1 -> E] /\ s.h.index \in [Entries -> Nat]
      BY <1>1 DEF Rising, Holds
    <3> QED  BY <1>1, <3>1 DEF Rising
  <2>2. s = [h |-> s.h, i |-> s.i]
    BY <1>1 DEF Rising
  <2> QED  BY <1>1, <2>1, <2>2 DEF States
<1>2. ASSUME NEW s \in S
      PROVE  /\ Rising(s, n, E) /\ Q!RoundUp(s) \in S /\ s.i \in Nat
             /\ Q!RoundUp(s) = s \/ Q!RoundUp(s).i < s.i
             /\ Q!RoundUp(s) = s => Ordered(s.h, n)
  <2>1. Rising(s, n, E)
    OBVIOUS
  <2> HIDE DEF S
  <2> QED  BY <1>1, <2>1, RoundUpKeeps
<1>3. x \in S /\ x.i = i /\ i \in Nat
  <2>1. x.i = i
    OBVIOUS
  <2> HIDE DEF x, S
  <2> QED  BY <1>1, <2>1 DEF x
<1> HIDE DEF x, S
<1>4. F \in [S -> S] /\ D \in [S -> Nat] /\ D[x] <= i
  BY <1>2, <1>3
<1>5. \A s \in S : F[s] = s \/ D[F[s]] < D[s]
  BY <1>2
<1>6. PICK g \in [0 .. i -> S] : Rounds(g, F, x, i)
  BY <1>3, <1>4, RoundsExist
<1>7. F[g[i]] = g[i]
  <2> HIDE DEF F, D
  <2>1. Lessens(S, F, D)
    BY <1>4, <1>5 DEF Lessens
  <2> QED  BY <1>3, <1>4, <1>6, <2>1, RoundsEnd
<1>8. \A k \in 1 .. i : g[k] = Q!RoundUp(g[k - 1])
  <2>1. ASSUME NEW k \in 1 .. i PROVE g[k] = Q!RoundUp(g[k - 1])
    <3>1. k - 1 \in 0 .. i
      BY <1>3
    <3> QED  BY <1>6, <3>1 DEF Rounds
  <2> QED  BY <2>1
<1>9. g = Longer(g)
  <2>1. g[0] = x
    BY <1>6 DEF Rounds
  <2>2. \A k \in 0 .. i : g[k] = IF k = 0 THEN x ELSE Q!RoundUp(g[k - 1])
    BY <1>3, <1>8, <2>1
  <2> QED  BY <2>2
<1>10. up = Longer(up)
  BY <1>9
<1>11. Q!BubbleUp(h, i) = up[i].h
  BY DEF Q!BubbleUp, x
<1> HIDE DEF up, F
<1> DEFINE T == {k \in 0 .. i : up[k] # g[k]}
<1>12. T = {}
  <2>1. SUFFICES ASSUME T # {} PROVE FALSE
    OBVIOUS
  <2>2. PICK m \in T : \A k \in T : m <= k
    <3>1. T \subseteq Nat
      BY <1>3
    <3> QED  BY <2>1, <3>1, LeastExists
  <2>3. up[0] = x /\ g[0] = x
    BY <1>3, <1>6, <1>10 DEF Rounds
  <2>4. m \in 1 .. i /\ m - 1 \in 0 .. i /\ m - 1 < m
    BY <1>3, <2>2, <2>3
  <2>5. up[m - 1] = g[m - 1]
    BY <2>2, <2>4
  <2>6. up[m] = Q!RoundUp(up[m - 1])
    BY <1>10, <2>4
  <2> QED  BY <1>8, <2>2, <2>4, <2>5, <2>6
<1>13. i \in 0 .. i /\ g[i] \in S /\ up[i] = g[i]
  BY <1>3, <1>12
<1>14. Q!RoundUp(g[i]) = g[i]
  BY <1>7, <1>13 DEF F
<1>15. Ordered(g[i].h, n) /\ Holds(g[i].h, n, E)
  BY <1>2, <1>13, <1>14 DEF Rising
<1> QED  BY <1>11, <1>13, <1>15

LEMMA SameCardinality == ASSUME NEW T PROVE Q!Cardinality(T) = Cardinality(T)
BY DEF Q!Cardinality, Cardinality

LEMMA HeapLengthIs == ASSUME NEW h, NEW n, NEW E, Holds(h, n, E) PROVE Q!Length(h) = n
<1>1. DOMAIN h.q = 0 .. n - 1 /\ n \in Nat
  BY DEF Holds
<1>2. Cardinality(0 .. n - 1) = n
  BY <1>1, FS_Interval
<1> QED  BY <1>1, <1>2, SameCardinality, Zenon DEF Q!Length

LEMMA BubblesDown ==
  ASSUME rank \in [Entries -> Ranks], NEW h, NEW i, NEW n, NEW E, Sinking([h |-> h, i |-> i], n, E)
  PROVE  Holds(Q!BubbleDown(h, i), n, E) /\ Ordered(Q!BubbleDown(h, i), n)
<1> DEFINE x == [h |-> h, i |-> i]
           S == {s \in States(n, E) : Sinking(s, n, E)}
           F == [s \in S |-> Q!RoundDown(s)]
           D == [s \in S |-> IF s.i < n THEN n - s.i ELSE 0]
           Longer(f) == [k \in 0 .. n |-> IF k = 0 THEN x ELSE Q!RoundDown(f[k - 1])]
           down == CHOOSE f : f = Longer(f)
<1>1. ASSUME NEW s, Sinking(s, n, E) PROVE s \in S /\ s.i \in Nat
  <2>1. s.h \in [q : [0 .. n - 1 -> E], index : [Entries -> Nat]] /\ s.i \in Nat
    <3>1. /\ s.h = [q |-> s.h.q, index |-> s.h.index]
          /\ s.h.q \in [0 .. n - 1 -> E] /\ s.h.index \in [Entries -> Nat]
      BY <1>1 DEF Sinking, Holds
    <3> QED  BY <1>1, <3>1 DEF Sinking
  <2>2. s = [h |-> s.h, i |-> s.i]
    BY <1>1 DEF Sinking
  <2> QED  BY <1>1, <2>1, <2>2 DEF States
<1>2. ASSUME NEW s \in S
      PROVE  /\ Sinking(s, n, E) /\ Q!RoundDown(s) \in S /\ s.i \in Nat /\ Q!RoundDown(s).i \in Nat
             /\ Q!RoundDown(s) = s \/ (s.i < Q!RoundDown(s).i /\ Q!RoundDown(s).i < n)
             /\ Q!RoundDown(s) = s => Ordered(s.h, n)
  <2>1. Sinking(s, n, E)
    OBVIOUS
  <2> HIDE DEF S
  <2> QED  BY <1>1, <2>1, RoundDownKeeps
<1>3. x \in S /\ x.i = i /\ x.h = h /\ i \in Nat /\ n \in Nat /\ Q!Length(h) = n
  <2>1. x.i = i /\ x.h = h
    OBVIOUS
  <2> HIDE DEF x, S
  <2>2. x \in S /\ x.i \in Nat
    BY <1>1 DEF x
  <2>3. Holds(h, n, E)
    BY <2>1 DEF Sinking, x
  <2>4. Q!Length(h) = n
    BY <2>3, HeapLengthIs, Zenon
  <2> QED  BY <2>1, <2>2, <2>3, <2>4 DEF Holds
<1> HIDE DEF x, S
<1>4. F \in [S -> S] /\ D \in [S -> Nat] /\ D[x] <= n
  BY <1>2, <1>3
<1>5. \A s \in S : F[s] = s \/ D[F[s]] < D[s]
  <2>1. ASSUME NEW s \in S, F[s] # s PROVE D[F[s]] < D[s]
    <3>1. F[s] = Q!RoundDown(s) /\ F[s] \in S /\ s.i < F[s].i /\ F[s].i < n /\ s.i \in Nat /\ F[s].i \in Nat
      BY <1>2, <2>1
    <3>2. D[F[s]] = n - F[s].i /\ D[s] = n - s.i
      <4> HIDE DEF F
      <4> QED  BY <1>3, <3>1
    <3> HIDE DEF D, F
    <3> QED  BY <1>3, <3>1, <3>2
  <2> QED  BY <2>1
<1>6. PICK g \in [0 .. n -> S] : Rounds(g, F, x, n)
  BY <1>3, <1>4, RoundsExist
<1>7. F[g[n]] = g[n]
  <2> HIDE DEF F, D
  <2>1. Lessens(S, F, D)
    BY <1>4, <1>5 DEF Lessens
  <2> QED  BY <1>3, <1>4, <1>6, <2>1, RoundsEnd
<1>8. \A k \in 1 .. n : g[k] = Q!RoundDown(g[k - 1])
  <2>1. ASSUME NEW k \in 1 .. n PROVE g[k] = Q!RoundDown(g[k - 1])
    <3>1. k - 1 \in 0 .. n
      BY <1>3
    <3> QED  BY <1>6, <3>1 DEF Rounds
  <2> QED  BY <2>1
<1>9. g = Longer(g)
  <2>1. g[0] = x
    BY <1>6 DEF Rounds
  <2>2. \A k \in 0 .. n : g[k] = IF k = 0 THEN x ELSE Q!RoundDown(g[k - 1])
    BY <1>3, <1>8, <2>1
  <2> QED  BY <2>2
<1>10. down = Longer(down)
  BY <1>9
<1>11. Q!BubbleDown(h, i) = down[n].h
  BY <1>3 DEF Q!BubbleDown, x
<1> HIDE DEF down, F
<1> DEFINE T == {k \in 0 .. n : down[k] # g[k]}
<1>12. T = {}
  <2>1. SUFFICES ASSUME T # {} PROVE FALSE
    OBVIOUS
  <2>2. PICK m \in T : \A k \in T : m <= k
    <3>1. T \subseteq Nat
      BY <1>3
    <3> QED  BY <2>1, <3>1, LeastExists
  <2>3. down[0] = x /\ g[0] = x
    BY <1>3, <1>6, <1>10 DEF Rounds
  <2>4. m \in 1 .. n /\ m - 1 \in 0 .. n /\ m - 1 < m
    BY <1>3, <2>2, <2>3
  <2>5. down[m - 1] = g[m - 1]
    BY <2>2, <2>4
  <2>6. down[m] = Q!RoundDown(down[m - 1])
    BY <1>10, <2>4
  <2> QED  BY <1>8, <2>2, <2>4, <2>5, <2>6
<1>13. n \in 0 .. n /\ g[n] \in S /\ down[n] = g[n]
  BY <1>3, <1>12
<1>14. Q!RoundDown(g[n]) = g[n]
  BY <1>7, <1>13 DEF F
<1>15. Ordered(g[n].h, n) /\ Holds(g[n].h, n, E)
  BY <1>2, <1>13, <1>14 DEF Sinking
<1> QED  BY <1>11, <1>13, <1>15


\* What moves where when an entry goes: the last one takes its place.
LastAt(t, h, n, i) == \A k \in 0 .. n - 2 : t.q[k] = IF k = i THEN h.q[n - 1] ELSE h.q[k]

LEMMA VacatedIs ==
  ASSUME NEW h, NEW n, NEW E, Holds(h, n, E), NEW i \in 0 .. n - 1,
         NEW t, t = Q!Shorter(Q!Put(h, i, h.q[n - 1]))
  PROVE  Holds(t, n - 1, E \ {h.q[i]}) /\ LastAt(t, h, n, i)
<1> DEFINE m == h.q[n - 1]
           e == h.q[i]
           u == Q!Put(h, i, m)
<1>1. /\ h.q \in [0 .. n - 1 -> E] /\ h.index \in [Entries -> Nat] /\ n \in Nat /\ n - 1 \in 0 .. n - 1
      /\ m \in E /\ e \in E /\ E \subseteq Entries
      /\ h.index[m] = n - 1 /\ h.index[e] = i
  BY DEF Holds
<1>2. DOMAIN h.q = 0 .. n - 1 /\ (0 .. n - 1) \cup {i} = 0 .. n - 1
  BY <1>1
<1>3. /\ u.q = [k \in 0 .. n - 1 |-> IF k = i THEN m ELSE h.q[k]]
      /\ u.index = [h.index EXCEPT ![m] = i] /\ u = [q |-> u.q, index |-> u.index]
  BY <1>2 DEF Q!Put
<1> HIDE DEF u, m, e
<1>4. Q!Length(u) = n
  <2>1. DOMAIN u.q = 0 .. n - 1
    BY <1>3
  <2>2. Cardinality(0 .. n - 1) = n
    BY <1>1, FS_Interval
  <2> QED  BY <2>1, <2>2, SameCardinality, Zenon DEF Q!Length
<1>5. t = Q!Shorter(u)
  BY DEF u, m
<1>6. /\ t.q = [k \in 0 .. n - 2 |-> u.q[k]] /\ t.index = u.index
      /\ t = [q |-> t.q, index |-> t.index]
  BY <1>3, <1>4, <1>5 DEF Q!Shorter
<1>7. \A k \in 0 .. n - 2 : k \in 0 .. n - 1 /\ k # n - 1 /\ t.q[k] = IF k = i THEN m ELSE h.q[k]
  BY <1>1, <1>3, <1>6
<1>8. t.index = [a \in Entries |-> IF a = m THEN i ELSE h.index[a]]
  BY <1>1, <1>3, <1>6
<1>9. ASSUME NEW a \in E \ {e} PROVE t.index[a] \in 0 .. n - 2 /\ t.q[t.index[a]] = a
  <2>1. h.index[a] \in 0 .. n - 1 /\ h.q[h.index[a]] = a /\ a \in Entries /\ a # e
    BY <1>1 DEF Holds
  <2>2. h.q[i] = e /\ h.q[n - 1] = m
    BY DEF e, m
  <2>3. CASE a = m
    <3>1. i # n - 1
      BY <2>1, <2>2, <2>3
    <3> QED  BY <1>1, <1>7, <1>8, <2>1, <2>3, <3>1
  <2>4. CASE a # m
    <3>1. h.index[a] # i /\ h.index[a] # n - 1
      BY <2>1, <2>2, <2>4
    <3> QED  BY <1>1, <1>7, <1>8, <2>1, <2>4, <3>1
  <2> QED  BY <2>3, <2>4
<1>10. ASSUME NEW k \in 0 .. n - 2 PROVE t.q[k] \in E \ {e} /\ t.index[t.q[k]] = k
  <2>1. h.index[h.q[k]] = k /\ h.q[k] \in E /\ h.q[k] \in Entries /\ k # n - 1
    BY <1>1, <1>7 DEF Holds
  <2>2. CASE k = i
    BY <1>1, <1>7, <1>8, <2>1, <2>2
  <2>3. CASE k # i
    <3>1. h.q[k] # m /\ h.q[k] # e
      BY <1>1, <2>1, <2>3
    <3> QED  BY <1>7, <1>8, <2>1, <2>3, <3>1
  <2> QED  BY <2>2, <2>3
<1>11. t.q \in [0 .. n - 2 -> E \ {e}] /\ t.index \in [Entries -> Nat]
  BY <1>1, <1>6, <1>8, <1>10
<1>12. n - 1 \in Nat /\ E \ {e} \subseteq Entries /\ (n - 1) - 1 = n - 2
  BY <1>1
<1>13. Holds(t, n - 1, E \ {e})
  BY <1>6, <1>9, <1>10, <1>11, <1>12 DEF Holds
<1> QED  BY <1>7, <1>13 DEF e, m, LastAt

\* A push puts the entry behind the last one.
LEMMA AddedIs ==
  ASSUME NEW h, NEW n, NEW E, Holds(h, n, E), NEW e \in Entries, e \notin E, NEW t, t = Q!Put(h, n, e)
  PROVE  /\ Holds(t, n + 1, E \cup {e})
         /\ \A k \in 0 .. n - 1 : t.q[k] = h.q[k]
<1>1. /\ h.q \in [0 .. n - 1 -> E] /\ h.index \in [Entries -> Nat] /\ n \in Nat /\ E \subseteq Entries
  BY DEF Holds
<1>2. DOMAIN h.q = 0 .. n - 1 /\ (0 .. n - 1) \cup {n} = 0 .. n
  BY <1>1
<1>3. /\ t.q = [k \in 0 .. n |-> IF k = n THEN e ELSE h.q[k]]
      /\ t.index = [h.index EXCEPT ![e] = n] /\ t = [q |-> t.q, index |-> t.index]
  BY <1>2 DEF Q!Put
<1>4. t.index = [a \in Entries |-> IF a = e THEN n ELSE h.index[a]]
  BY <1>1, <1>3
<1>5. ASSUME NEW a \in E \cup {e} PROVE t.index[a] \in 0 .. n /\ t.q[t.index[a]] = a
  <2>1. CASE a = e
    BY <1>1, <1>3, <1>4, <2>1
  <2>2. CASE a # e
    <3>1. h.index[a] \in 0 .. n - 1 /\ h.q[h.index[a]] = a /\ a \in Entries
      BY <1>1, <2>2 DEF Holds
    <3>2. t.index[a] = h.index[a] /\ h.index[a] \in 0 .. n /\ h.index[a] # n
      BY <1>1, <1>4, <2>2, <3>1
    <3> QED  BY <1>3, <3>1, <3>2
  <2> QED  BY <2>1, <2>2
<1>6. ASSUME NEW k \in 0 .. n PROVE t.q[k] \in E \cup {e} /\ t.index[t.q[k]] = k
  <2>1. CASE k = n
    BY <1>1, <1>3, <1>4, <2>1
  <2>2. CASE k # n
    <3>1. k \in 0 .. n - 1 /\ h.index[h.q[k]] = k /\ h.q[k] \in E /\ h.q[k] # e
      BY <1>1, <2>2 DEF Holds
    <3>2. t.q[k] = h.q[k]
      BY <1>3, <2>2
    <3> QED  BY <1>1, <1>4, <3>1, <3>2
  <2> QED  BY <2>1, <2>2
<1>7. t.q \in [0 .. n -> E \cup {e}] /\ t.index \in [Entries -> Nat]
  BY <1>1, <1>3, <1>4, <1>6
<1>8. n + 1 \in Nat /\ (n + 1) - 1 = n /\ E \cup {e} \subseteq Entries
  BY <1>1
<1>9. Holds(t, n + 1, E \cup {e})
  BY <1>3, <1>5, <1>6, <1>7, <1>8 DEF Holds
<1> QED  BY <1>1, <1>3, <1>9

LEMMA WithoutKeeps ==
  ASSUME NEW h, NEW n, NEW E, Holds(h, n, E), Ordered(h, n), NEW e \in Entries, e \notin E
  PROVE  Holds(Q!Without(h, e), n, E) /\ Ordered(Q!Without(h, e), n)
<1> DEFINE t == Q!Without(h, e)
<1>1. h = [q |-> h.q, index |-> h.index] /\ h.index \in [Entries -> Nat]
  BY DEF Holds
<1>2. /\ t.q = h.q /\ t.index = [h.index EXCEPT ![e] = 0]
      /\ t = [q |-> t.q, index |-> t.index]
  BY <1>1 DEF Q!Without
<1> HIDE DEF t
<1>3. \A a \in E : t.index[a] = h.index[a]
  BY <1>1, <1>2 DEF Holds
<1>4. \A i \in 0 .. n - 1 : h.q[i] \in E
  BY DEF Holds
<1>5. Holds(t, n, E)
  BY <1>1, <1>2, <1>3, <1>4 DEF Holds
<1>6. Ordered(t, n)
  BY <1>2 DEF Ordered, Above
<1> QED  BY <1>5, <1>6 DEF t

\* A heap from whose middle an entry goes: the one that takes its place sinks or rises.
LEMMA VacatedInOrder ==
  ASSUME rank \in [Entries -> Ranks], NEW h, NEW n, NEW E, Holds(h, n, E), Ordered(h, n),
         NEW i \in 0 .. n - 2, NEW t, t = Q!Shorter(Q!Put(h, i, h.q[n - 1]))
  PROVE  /\ i = 0 \/ Q!Precedes(h.q[i], t.q[i]) => Sinking([h |-> t, i |-> i], n - 1, E \ {h.q[i]})
         /\ i # 0 /\ ~Q!Precedes(h.q[i], t.q[i]) => Rising([h |-> t, i |-> i], n - 1, E \ {h.q[i]})
<1> DEFINE F == E \ {h.q[i]}
           s == [h |-> t, i |-> i]
<1>1. n \in Nat /\ i \in 0 .. n - 1 /\ i \in Nat /\ (n - 1) - 1 = n - 2 /\ i \in 0 .. n - 2
  BY DEF Holds
<1>2. /\ Holds(t, n - 1, F)
      /\ \A k \in 0 .. n - 2 : t.q[k] = IF k = i THEN h.q[n - 1] ELSE h.q[k]
  <2>1. Holds(t, n - 1, E \ {h.q[i]}) /\ LastAt(t, h, n, i)
    BY <1>1, VacatedIs, Zenon
  <2> QED  BY <2>1 DEF LastAt
<1>3. \A k \in 0 .. n - 1 : rank[h.q[k]] \in Nat
  BY RanksAre
<1>4. \A k \in 0 .. n - 2 : rank[t.q[k]] \in Nat
  BY <1>1, <1>2, RanksAre
<1>5. ASSUME NEW j \in 1 .. n - 2
      PROVE  /\ Q!Parent(j) \in 0 .. n - 2 /\ j \in 0 .. n - 2 /\ Q!Parent(j) < j /\ j \in 0 .. n - 1
             /\ Q!Parent(j) \in 0 .. n - 1 /\ rank[h.q[Q!Parent(j)]] <= rank[h.q[j]]
  <2>1. j \in Nat \ {0} /\ j \in 1 .. n - 1
    BY <1>1
  <2>2. Above(h, Q!Parent(j), j)
    BY <2>1 DEF Ordered
  <2> QED  BY <1>1, <2>1, <2>2, ParentIs DEF Above
<1>6. ASSUME NEW j \in 1 .. n - 2, j # i, Q!Parent(j) # i PROVE Above(t, Q!Parent(j), j)
  BY <1>2, <1>5, <1>6 DEF Above
<1>7. ASSUME NEW j \in 1 .. n - 2, Q!Parent(j) = i, i # 0 PROVE Above(t, Q!Parent(i), j)
  <2>1. i \in 1 .. n - 2 /\ j # i /\ rank[h.q[i]] <= rank[h.q[j]]
    BY <1>1, <1>5, <1>7
  <2>2. Q!Parent(i) # i /\ Q!Parent(i) \in 0 .. n - 2 /\ rank[h.q[Q!Parent(i)]] <= rank[h.q[i]]
    BY <1>5, <2>1
  <2>3. t.q[j] = h.q[j] /\ t.q[Q!Parent(i)] = h.q[Q!Parent(i)]
    BY <1>2, <1>5, <2>1, <2>2
  <2>4. rank[h.q[i]] \in Nat /\ rank[h.q[j]] \in Nat /\ rank[h.q[Q!Parent(i)]] \in Nat
    BY <1>1, <1>3, <1>5, <2>1
  <2> QED  BY <2>1, <2>2, <2>3, <2>4 DEF Above
<1>8. s.h = t /\ s.i = i /\ s = [h |-> s.h, i |-> s.i]
  OBVIOUS
<1> HIDE DEF s, F
<1>9. CASE i = 0 \/ Q!Precedes(h.q[i], t.q[i])
  <2>1. ASSUME NEW j \in 1 .. n - 2, Q!Parent(j) # i PROVE Above(t, Q!Parent(j), j)
    <3>1. CASE j # i
      BY <1>6, <2>1, <3>1
    <3>2. CASE j = i
      <4>1. rank[h.q[i]] < rank[t.q[i]]
        BY <1>9, <3>2 DEF Q!Precedes
      <4>2. t.q[Q!Parent(j)] = h.q[Q!Parent(j)] /\ rank[h.q[Q!Parent(j)]] <= rank[h.q[i]]
        BY <1>2, <1>5, <3>2
      <4>3. rank[h.q[i]] \in Nat /\ rank[h.q[Q!Parent(j)]] \in Nat /\ rank[t.q[i]] \in Nat
        BY <1>1, <1>3, <1>4, <1>5
      <4> QED  BY <3>2, <4>1, <4>2, <4>3 DEF Above
    <3> QED  BY <3>1, <3>2
  <2>2. Sinking(s, n - 1, F)
    BY <1>1, <1>2, <1>7, <1>8, <2>1 DEF Sinking
  <2>3. ~ (i # 0 /\ ~Q!Precedes(h.q[i], t.q[i]))
    BY <1>9
  <2> QED  BY <2>2, <2>3 DEF s, F
<1>10. CASE i # 0 /\ ~Q!Precedes(h.q[i], t.q[i])
  <2>1. ASSUME NEW j \in 1 .. n - 2, j # i PROVE Above(t, Q!Parent(j), j)
    <3>1. CASE Q!Parent(j) # i
      BY <1>6, <2>1, <3>1
    <3>2. CASE Q!Parent(j) = i
      <4>1. ~ (rank[h.q[i]] < rank[t.q[i]])
        BY <1>10 DEF Q!Precedes
      <4>2. t.q[j] = h.q[j] /\ rank[h.q[i]] <= rank[h.q[j]]
        BY <1>2, <1>5, <2>1, <3>2
      <4>3. rank[h.q[i]] \in Nat /\ rank[h.q[j]] \in Nat /\ rank[t.q[i]] \in Nat
        BY <1>1, <1>3, <1>4, <1>5
      <4> QED  BY <3>2, <4>1, <4>2, <4>3 DEF Above
    <3> QED  BY <3>1, <3>2
  <2>2. Rising(s, n - 1, F)
    BY <1>1, <1>2, <1>7, <1>8, <2>1 DEF Rising
  <2> QED  BY <1>10, <2>2 DEF s, F
<1> QED  BY <1>9, <1>10

LEMMA HeapInit == Q!Init => HeapInv
<1> SUFFICES ASSUME Q!Init PROVE HeapInv
  OBVIOUS
<1>1. /\ rank \in [Entries -> Ranks] /\ held = {}
      /\ heap.q = <<>> /\ heap.index = [e \in Entries |-> 0] /\ heap = [q |-> heap.q, index |-> heap.index]
  BY DEF Q!Init
<1>2. 0 .. 0 - 1 = {} /\ <<>> \in [{} -> {}]
  OBVIOUS
<1>3. Holds(heap, 0, held) /\ Ordered(heap, 0)
  BY <1>1, <1>2 DEF Holds, Ordered
<1> QED  BY <1>1, <1>3 DEF HeapInv

LEMMA PoppedIs ==
  ASSUME rank \in [Entries -> Ranks], NEW n, NEW E, Holds(heap, n, E), Ordered(heap, n), n # 0
  PROVE  Holds(Q!Popped, n - 1, E \ {heap.q[0]}) /\ Ordered(Q!Popped, n - 1)
<1> DEFINE t == Q!Shorter(Q!Put(heap, 0, heap.q[n - 1]))
           F == E \ {heap.q[0]}
<1>1. n \in Nat /\ n - 1 \in Nat /\ Q!Length(heap) = n
  <2>1. Q!Length(heap) = n
    BY HeapLengthIs, Zenon
  <2> QED  BY <2>1 DEF Holds
<1>2. Q!Popped = Q!BubbleDown(t, 0)
  BY <1>1 DEF Q!Popped
<1>3. t = Q!Shorter(Q!Put(heap, 0, heap.q[n - 1]))
  OBVIOUS
<1> HIDE DEF t, F
<1>4. Sinking([h |-> t, i |-> 0], n - 1, F)
  <2>1. CASE n = 1
    <3> DEFINE s == [h |-> t, i |-> 0]
    <3>1. 0 \in 0 .. n - 1
      BY <2>1
    <3>2. Holds(t, n - 1, F)
      BY <1>3, <3>1, VacatedIs, Zenon DEF F
    <3>3. s.h = t /\ s.i = 0 /\ s = [h |-> s.h, i |-> s.i] /\ 0 \in Nat
      OBVIOUS
    <3> HIDE DEF s
    <3>4. 1 .. (n - 1) - 1 = {}
      BY <2>1
    <3>5. Sinking(s, n - 1, F)
      BY <3>2, <3>3, <3>4 DEF Sinking
    <3> QED  BY <3>5 DEF s
  <2>2. CASE n # 1
    <3>1. 0 \in 0 .. n - 2
      BY <1>1, <2>2
    <3>2. 0 = 0 \/ Q!Precedes(heap.q[0], t.q[0])
      OBVIOUS
    <3> QED  BY <1>3, <3>1, <3>2, VacatedInOrder, Zenon DEF F
  <2> QED  BY <2>1, <2>2
<1> QED  BY <1>2, <1>4, BubblesDown, Zenon DEF F

LEMMA TakenIs ==
  ASSUME rank \in [Entries -> Ranks], NEW n, NEW E, Holds(heap, n, E), Ordered(heap, n), NEW e \in E
  PROVE  Holds(Q!Taken(e), n - 1, E \ {e}) /\ Ordered(Q!Taken(e), n - 1)
<1> DEFINE i == heap.index[e]
           t == Q!Shorter(Q!Put(heap, i, heap.q[n - 1]))
           F == E \ {e}
<1>1. n \in Nat /\ i \in 0 .. n - 1 /\ heap.q[i] = e /\ n - 1 \in Nat /\ n # 0
  BY DEF Holds
<1>2. Q!Length(heap) = n
  BY HeapLengthIs, Zenon
<1>3. Q!Taken(e) = IF i = 0 THEN Q!Popped
                   ELSE IF i = n - 1 THEN Q!Shorter(heap)
                   ELSE IF Q!Precedes(e, t.q[i]) THEN Q!BubbleDown(t, i) ELSE Q!BubbleUp(t, i)
  BY <1>2 DEF Q!Taken
<1>4. t = Q!Shorter(Q!Put(heap, i, heap.q[n - 1]))
  OBVIOUS
<1> HIDE DEF t, F, i
<1>5. CASE i = 0
  BY <1>1, <1>3, <1>5, PoppedIs DEF F
<1>6. CASE i # 0 /\ i = n - 1
  <2>1. Q!Put(heap, i, heap.q[n - 1]) = heap
    <3> DEFINE u == Q!Put(heap, i, heap.q[n - 1])
    <3>1. /\ heap.q \in [0 .. n - 1 -> E] /\ heap.index \in [Entries -> Nat]
          /\ heap = [q |-> heap.q, index |-> heap.index] /\ e \in Entries
      BY DEF Holds
    <3>2. DOMAIN heap.q = 0 .. n - 1 /\ (0 .. n - 1) \cup {i} = 0 .. n - 1 /\ heap.q[n - 1] = e
      BY <1>1, <1>6, <3>1
    <3>3. /\ u.q = [k \in 0 .. n - 1 |-> IF k = i THEN e ELSE heap.q[k]]
          /\ u.index = [heap.index EXCEPT ![e] = i] /\ u = [q |-> u.q, index |-> u.index]
      BY <3>2 DEF Q!Put
    <3> HIDE DEF u
    <3>4. u.q = heap.q
      BY <1>1, <3>1, <3>3
    <3>5. u.index = heap.index
      BY <3>1, <3>3 DEF i
    <3>6. u = heap
      BY <3>1, <3>3, <3>4, <3>5
    <3> QED  BY <3>6 DEF u
  <2>2. Q!Taken(e) = t
    BY <1>3, <1>4, <1>6, <2>1
  <2>3. Holds(t, n - 1, E \ {heap.q[i]}) /\ \A k \in 0 .. n - 2 : t.q[k] = IF k = i THEN heap.q[n - 1] ELSE heap.q[k]
    <3>1. Holds(t, n - 1, E \ {heap.q[i]}) /\ LastAt(t, heap, n, i)
      BY <1>1, <1>4, VacatedIs, Zenon
    <3> QED  BY <3>1 DEF LastAt
  <2>4. ASSUME NEW j \in 1 .. (n - 1) - 1 PROVE Above(t, Q!Parent(j), j)
    <3>1. j \in 1 .. n - 1 /\ j \in 0 .. n - 2 /\ Q!Parent(j) \in 0 .. n - 2 /\ j # i /\ Q!Parent(j) # i
      BY <1>1, <1>6, ParentIs
    <3>2. Above(heap, Q!Parent(j), j)
      BY <3>1 DEF Ordered
    <3> QED  BY <2>3, <3>1, <3>2 DEF Above
  <2>5. Ordered(t, n - 1)
    BY <2>4 DEF Ordered
  <2> QED  BY <1>1, <2>2, <2>3, <2>5 DEF F
<1>7. CASE i # 0 /\ i # n - 1
  <2>1. i \in 0 .. n - 2
    BY <1>1, <1>7
  <2>2. /\ i = 0 \/ Q!Precedes(heap.q[i], t.q[i]) => Sinking([h |-> t, i |-> i], n - 1, E \ {heap.q[i]})
        /\ i # 0 /\ ~Q!Precedes(heap.q[i], t.q[i]) => Rising([h |-> t, i |-> i], n - 1, E \ {heap.q[i]})
    BY <1>4, <2>1, VacatedInOrder, Zenon
  <2>3. CASE Q!Precedes(e, t.q[i])
    <3>1. Sinking([h |-> t, i |-> i], n - 1, F)
      BY <1>1, <2>2, <2>3, Zenon DEF F
    <3>2. Holds(Q!BubbleDown(t, i), n - 1, F) /\ Ordered(Q!BubbleDown(t, i), n - 1)
      BY <3>1, BubblesDown, Zenon
    <3> QED  BY <1>3, <1>7, <2>3, <3>2 DEF F
  <2>4. CASE ~Q!Precedes(e, t.q[i])
    <3>1. Rising([h |-> t, i |-> i], n - 1, F)
      BY <1>1, <1>7, <2>2, <2>4, Zenon DEF F
    <3>2. Holds(Q!BubbleUp(t, i), n - 1, F) /\ Ordered(Q!BubbleUp(t, i), n - 1)
      BY <3>1, BubblesUp, Zenon
    <3> QED  BY <1>3, <1>7, <2>4, <3>2 DEF F
  <2> QED  BY <2>3, <2>4
<1> QED  BY <1>5, <1>6, <1>7

LEMMA HeapPush == ASSUME HeapInv, NEW e \in Entries, Q!Push(e) PROVE HeapInv'
<1>1. rank \in [Entries -> Ranks]
  BY DEF HeapInv
<1>2. PICK n \in Nat : Holds(heap, n, held) /\ Ordered(heap, n)
  BY DEF HeapInv
<1> DEFINE t == Q!Put(heap, n, e)
           E == held \cup {e}
           s == [h |-> t, i |-> n]
<1>3. Q!Length(heap) = n
  BY <1>2, HeapLengthIs, Zenon
<1>4. e \notin held /\ held' = E /\ rank' = rank /\ heap' = Q!BubbleUp(t, n)
  BY <1>3 DEF Q!Push
<1>5. Holds(t, n + 1, E) /\ \A k \in 0 .. n - 1 : t.q[k] = heap.q[k]
  BY <1>2, <1>4, AddedIs
<1>6. s.h = t /\ s.i = n /\ s = [h |-> s.h, i |-> s.i]
  OBVIOUS
<1> HIDE DEF t, E, s
<1>7. ASSUME NEW j \in 1 .. n PROVE Q!Parent(j) # n /\ (j # n => Above(t, Q!Parent(j), j))
  <2>1. Q!Parent(j) \in Nat /\ Q!Parent(j) < j
    BY ParentIs
  <2>2. ASSUME j # n PROVE Above(t, Q!Parent(j), j)
    <3>1. j \in 1 .. n - 1 /\ j \in 0 .. n - 1 /\ Q!Parent(j) \in 0 .. n - 1
      BY <2>1, <2>2
    <3>2. Above(heap, Q!Parent(j), j)
      BY <1>2, <3>1 DEF Ordered
    <3> QED  BY <1>5, <3>1, <3>2 DEF Above
  <2> QED  BY <2>1, <2>2
<1>8. Rising(s, n + 1, E)
  <2>1. (n + 1) - 1 = n /\ n \in 0 .. n
    OBVIOUS
  <2> QED  BY <1>5, <1>6, <1>7, <2>1 DEF Rising
<1>9. Holds(heap', n + 1, E) /\ Ordered(heap', n + 1)
  <2>1. Rising([h |-> t, i |-> n], n + 1, E)
    BY <1>8 DEF s
  <2>2. Holds(Q!BubbleUp(t, n), n + 1, E) /\ Ordered(Q!BubbleUp(t, n), n + 1)
    BY <1>1, <2>1, BubblesUp, Zenon
  <2> QED  BY <1>4, <2>2, Zenon
<1>10. n + 1 \in Nat
  OBVIOUS
<1> QED  BY <1>1, <1>4, <1>9, <1>10 DEF HeapInv, Ordered, Above

LEMMA HeapPop == ASSUME HeapInv, Q!Pop PROVE HeapInv'
<1>1. rank \in [Entries -> Ranks]
  BY DEF HeapInv
<1>2. PICK n \in Nat : Holds(heap, n, held) /\ Ordered(heap, n)
  BY DEF HeapInv
<1> DEFINE e == heap.q[0]
           E == held \ {e}
<1>3. heap.q # <<>> /\ held' = E /\ rank' = rank /\ heap' = Q!Without(Q!Popped, e)
  BY DEF Q!Pop
<1>4. n # 0
  <2>1. n = 0 => heap.q = <<>>
    <3>1. heap.q \in [0 .. n - 1 -> held]
      BY <1>2 DEF Holds
    <3>2. n = 0 => 0 .. n - 1 = {}
      OBVIOUS
    <3> QED  BY <3>1, <3>2
  <2> QED  BY <1>3, <2>1
<1>5. e \in Entries /\ e \notin E /\ n - 1 \in Nat
  BY <1>2, <1>4 DEF Holds
<1>6. Holds(Q!Popped, n - 1, E) /\ Ordered(Q!Popped, n - 1)
  BY <1>1, <1>2, <1>4, PoppedIs
<1> HIDE DEF e, E
<1>7. Holds(heap', n - 1, E) /\ Ordered(heap', n - 1)
  <2>1. Holds(Q!Without(Q!Popped, e), n - 1, E) /\ Ordered(Q!Without(Q!Popped, e), n - 1)
    BY <1>5, <1>6, WithoutKeeps, Zenon
  <2> QED  BY <1>3, <2>1, Zenon
<1> QED  BY <1>1, <1>3, <1>5, <1>7 DEF HeapInv, Ordered, Above

LEMMA HeapRemove == ASSUME HeapInv, NEW e \in Entries, Q!Remove(e) PROVE HeapInv'
<1>1. rank \in [Entries -> Ranks]
  BY DEF HeapInv
<1>2. PICK n \in Nat : Holds(heap, n, held) /\ Ordered(heap, n)
  BY DEF HeapInv
<1> DEFINE E == held \ {e}
<1>3. e \in held /\ held' = E /\ rank' = rank /\ heap' = Q!Without(Q!Taken(e), e)
  BY DEF Q!Remove
<1>4. e \notin E /\ n - 1 \in Nat
  BY <1>2, <1>3 DEF Holds
<1>5. Holds(Q!Taken(e), n - 1, E) /\ Ordered(Q!Taken(e), n - 1)
  BY <1>1, <1>2, <1>3, TakenIs, Zenon
<1> HIDE DEF E
<1>6. Holds(heap', n - 1, E) /\ Ordered(heap', n - 1)
  <2>1. Holds(Q!Without(Q!Taken(e), e), n - 1, E) /\ Ordered(Q!Without(Q!Taken(e), e), n - 1)
    BY <1>4, <1>5, WithoutKeeps, Zenon
  <2> QED  BY <1>3, <2>1, Zenon
<1> QED  BY <1>1, <1>3, <1>4, <1>6 DEF HeapInv, Ordered, Above

LEMMA HeapNext == ASSUME HeapInv, [Q!Next]_Q!heapVars PROVE HeapInv'
<1>1. CASE \E e \in Entries : Q!Push(e) \/ Q!Remove(e)
  BY <1>1, HeapPush, HeapRemove
<1>2. CASE Q!Pop
  BY <1>2, HeapPop
<1>3. CASE UNCHANGED Q!heapVars
  BY <1>3 DEF HeapInv, Ordered, Above, Q!heapVars
<1> QED  BY <1>1, <1>2, <1>3 DEF Q!Next

LEMMA HeapIsInOrder == ASSUME HeapInv PROVE Q!HeapInOrder
<1>1. PICK n \in Nat : Holds(heap, n, held) /\ Ordered(heap, n)
  BY DEF HeapInv
<1>2. /\ heap.q \in [0 .. n - 1 -> held] /\ DOMAIN heap.q = 0 .. n - 1
      /\ \A e \in held : heap.index[e] \in 0 .. n - 1 /\ heap.q[heap.index[e]] = e
      /\ \A i \in 0 .. n - 1 : heap.index[heap.q[i]] = i
  BY <1>1 DEF Holds
<1>3. {heap.q[i] : i \in DOMAIN heap.q} = held
  BY <1>2
<1>4. Q!Length(heap) = Q!Cardinality(held)
  <2>1. heap.q \in Bijection(0 .. n - 1, held)
    <3>1. heap.q \in Injection(0 .. n - 1, held)
      BY <1>2 DEF Injection, IsInjective
    <3>2. heap.q \in Surjection(0 .. n - 1, held)
      BY <1>2 DEF Surjection
    <3> QED  BY <3>1, <3>2 DEF Bijection
  <2>2. ExistsBijection(0 .. n - 1, held)
    BY <2>1 DEF ExistsBijection
  <2>3. IsFiniteSet(0 .. n - 1)
    BY FS_Interval
  <2>4. Cardinality(held) = Cardinality(0 .. n - 1)
    BY <2>2, <2>3, FS_Bijection
  <2> QED  BY <1>2, <2>4, SameCardinality DEF Q!Length
<1>5. ASSUME NEW i \in DOMAIN heap.q \ {0} PROVE ~Q!Precedes(heap.q[i], heap.q[Q!Parent(i)])
  <2>1. i \in 1 .. n - 1 /\ i \in 0 .. n - 1 /\ Q!Parent(i) \in 0 .. n - 1
    <3>1. i \in 0 .. n - 1 /\ i # 0 /\ i \in Nat \ {0}
      BY <1>2
    <3>2. Q!Parent(i) \in Nat /\ Q!Parent(i) < i
      BY <3>1, ParentIs
    <3> QED  BY <3>1, <3>2
  <2>2. Above(heap, Q!Parent(i), i)
    BY <1>1, <2>1 DEF Ordered
  <2>3. \A k \in 0 .. n - 1 : rank[heap.q[k]] \in Nat
    BY <1>1, RanksAre DEF HeapInv
  <2> QED  BY <2>1, <2>2, <2>3 DEF Above, Q!Precedes
<1> QED  BY <1>2, <1>3, <1>4, <1>5 DEF Q!HeapInOrder

\* Through pushes, pops and removals from the middle, of any entries: the queue holds what
\* was put in and not taken out, each entry knows its place, and none comes before a lesser
\* one (nghttp2_pq.c, whose top is the stream that session.c serves next).
THEOREM QueueKeepsOrder == Q!Spec => []Q!HeapInOrder
<1>1. Q!Init => HeapInv
  BY HeapInit
<1>2. HeapInv /\ [Q!Next]_Q!heapVars => HeapInv'
  BY HeapNext
<1>3. HeapInv => Q!HeapInOrder
  BY HeapIsInOrder
<1> QED  BY <1>1, <1>2, <1>3, PTL DEF Q!Spec

-----------------------------------------------------------------------------
(* The map of the streams: its loops                                       *)

\* f is iterated by F, as long as it stays in S.
Loops(f, S, F, x, N) == f[0] = x /\ \A j \in 1 .. N : f[j - 1] \in S => f[j] = F[f[j - 1]]

LEMMA LoopStays ==
  ASSUME NEW S, NEW F \in [S -> S], NEW x \in S, NEW N \in Nat, NEW f, Loops(f, S, F, x, N)
  PROVE  \A j \in 0 .. N : f[j] \in S
<1> DEFINE T == {j \in 0 .. N : f[j] \notin S}
<1>1. SUFFICES ASSUME T # {} PROVE FALSE
  OBVIOUS
<1>2. PICK j \in T : \A k \in T : j <= k
  <2>1. T \subseteq Nat
    OBVIOUS
  <2> QED  BY <1>1, <2>1, LeastExists
<1>3. j # 0
  BY <1>2 DEF Loops
<1>4. j \in 1 .. N /\ j - 1 \in 0 .. N /\ j - 1 < j
  BY <1>2, <1>3
<1>5. f[j - 1] \in S
  BY <1>2, <1>4
<1>6. f[j] = F[f[j - 1]]
  BY <1>4, <1>5 DEF Loops
<1> QED  BY <1>2, <1>5, <1>6

LEMMA LoopEnds ==
  ASSUME NEW S, NEW F, NEW x, NEW N, NEW f, NEW D,
         x \in S, N \in Nat, Loops(f, S, F, x, N), Lessens(S, F, D), D[x] <= N
  PROVE  f[N] \in S /\ F[f[N]] = f[N]
<1> DEFINE g == [j \in 0 .. N |-> f[j]]
<1>1. F \in [S -> S]
  BY DEF Lessens
<1>2. \A j \in 0 .. N : f[j] \in S
  BY <1>1, LoopStays
<1>3. g \in [0 .. N -> S] /\ N \in 0 .. N /\ 0 \in 0 .. N
  BY <1>2
<1>4. Rounds(g, F, x, N)
  <2>1. ASSUME NEW j \in 1 .. N PROVE g[j] = F[g[j - 1]]
    <3>1. j \in 0 .. N /\ j - 1 \in 0 .. N
      OBVIOUS
    <3> QED  BY <1>2, <3>1 DEF Loops
  <2> QED  BY <1>3, <2>1 DEF Rounds, Loops
<1> HIDE DEF g
<1>5. F[g[N]] = g[N]
  BY <1>3, <1>4, RoundsEnd
<1> QED  BY <1>2, <1>3, <1>5 DEF g

-----------------------------------------------------------------------------
(* The lengths of tables, and where keys are at home                       *)

LEMMA ModIs ==
  ASSUME NEW N \in Nat \ {0}, NEW x \in Nat
  PROVE  (x < N => x % N = x) /\ (N <= x /\ x < 2 * N => x % N = x - N)
OBVIOUS

LEMMA TableLengthIs == \A n \in 0 .. HashBits : M!Length[n] = IF n = 0 THEN 1 ELSE 2 * M!Length[n - 1]
<1> DEFINE F == [x \in Nat |-> 2 * x]
           Longer(f) == [n \in 0 .. HashBits |-> IF n = 0 THEN 1 ELSE 2 * f[n - 1]]
           length == CHOOSE f : f = Longer(f)
<1>1. HashBits \in Nat
  BY MapAssumed DEF M!MapAssumption
<1>2. F \in [Nat -> Nat] /\ 1 \in Nat
  OBVIOUS
<1>3. PICK g \in [0 .. HashBits -> Nat] : Rounds(g, F, 1, HashBits)
  <2> HIDE DEF F
  <2> QED  BY <1>1, <1>2, RoundsExist
<1>4. g = Longer(g)
  <2>1. ASSUME NEW n \in 0 .. HashBits PROVE g[n] = IF n = 0 THEN 1 ELSE 2 * g[n - 1]
    <3>1. n # 0 => n \in 1 .. HashBits /\ n - 1 \in 0 .. HashBits
      BY <1>1
    <3> QED  BY <1>3, <3>1 DEF Rounds
  <2> QED  BY <2>1
<1>5. length = Longer(length)
  BY <1>4
<1>6. M!Length = length
  BY DEF M!Length
<1> HIDE DEF length
<1> QED  BY <1>5, <1>6

LEMMA LengthsAre ==
  \A n \in 0 .. HashBits : /\ M!Length[n] \in Nat \ {0}
                           /\ n # 0 => M!Length[n] = 2 * M!Length[n - 1] /\ M!Length[n] >= 2
<1> DEFINE T == {n \in 0 .. HashBits : M!Length[n] \notin Nat \ {0}}
<1>1. HashBits \in Nat
  BY MapAssumed DEF M!MapAssumption
<1>2. T = {}
  <2>1. SUFFICES ASSUME T # {} PROVE FALSE
    OBVIOUS
  <2>2. PICK n \in T : \A k \in T : n <= k
    <3>1. T \subseteq Nat
      BY <1>1
    <3> QED  BY <2>1, <3>1, LeastExists
  <2>3. n # 0
    BY <1>1, <2>2, TableLengthIs
  <2>4. n \in 0 .. HashBits /\ n - 1 \in 0 .. HashBits /\ n - 1 < n
    BY <1>1, <2>2, <2>3
  <2>5. M!Length[n - 1] \in Nat \ {0}
    BY <2>2, <2>4
  <2>6. M!Length[n] = 2 * M!Length[n - 1]
    BY <2>3, <2>4, TableLengthIs
  <2> QED  BY <2>2, <2>5, <2>6
<1>3. ASSUME NEW n \in 0 .. HashBits, n # 0
      PROVE  M!Length[n] = 2 * M!Length[n - 1] /\ M!Length[n] >= 2
  <2>1. n - 1 \in 0 .. HashBits
    BY <1>1, <1>3
  <2>2. M!Length[n - 1] \in Nat \ {0}
    BY <1>2, <2>1
  <2>3. M!Length[n] = 2 * M!Length[n - 1]
    BY <1>3, TableLengthIs
  <2> QED  BY <2>2, <2>3
<1> QED  BY <1>2, <1>3

LEMMA ShiftedIs ==
  \A n \in 0 .. HashBits, h \in M!Hashes :
    M!Shifted[n][h] = IF n = 0 THEN h ELSE M!Shifted[n - 1][h] \div 2
<1> DEFINE hashes == M!Hashes
           S == [hashes -> Nat]
           F == [f \in S |-> [h \in hashes |-> f[h] \div 2]]
           x == [h \in hashes |-> h]
           Longer(f) == [n \in 0 .. HashBits |-> [h \in hashes |-> IF n = 0 THEN h ELSE f[n - 1][h] \div 2]]
           shifted == CHOOSE f : f = Longer(f)
<1>1. HashBits \in Nat
  BY MapAssumed DEF M!MapAssumption
<1>2. F \in [S -> S] /\ x \in S
  <2>1. hashes \subseteq Nat
    BY <1>1, LengthsAre DEF M!Hashes
  <2>2. ASSUME NEW f \in S PROVE [h \in hashes |-> f[h] \div 2] \in S
    OBVIOUS
  <2> QED  BY <2>1, <2>2
<1>3. PICK g \in [0 .. HashBits -> S] : Rounds(g, F, x, HashBits)
  <2> HIDE DEF F, S, x
  <2> QED  BY <1>1, <1>2, RoundsExist
<1>4. g = Longer(g)
  <2>1. ASSUME NEW n \in 0 .. HashBits
        PROVE  g[n] = [h \in hashes |-> IF n = 0 THEN h ELSE g[n - 1][h] \div 2]
    <3>1. n # 0 => n \in 1 .. HashBits /\ n - 1 \in 0 .. HashBits
      BY <1>1
    <3>2. CASE n = 0
      BY <1>3, <3>2 DEF Rounds
    <3>3. CASE n # 0
      <4>1. g[n] = F[g[n - 1]] /\ g[n - 1] \in S
        BY <1>3, <3>1, <3>3 DEF Rounds
      <4> QED  BY <3>3, <4>1
    <3> QED  BY <3>2, <3>3
  <2> QED  BY <2>1
<1>5. shifted = Longer(shifted)
  BY <1>4
<1>6. M!Shifted = shifted
  BY DEF M!Shifted
<1> HIDE DEF shifted
<1>7. ASSUME NEW n \in 0 .. HashBits, NEW h \in hashes
      PROVE  shifted[n][h] = IF n = 0 THEN h ELSE shifted[n - 1][h] \div 2
  <2>1. shifted[n] = [c \in hashes |-> IF n = 0 THEN c ELSE shifted[n - 1][c] \div 2]
    BY <1>5
  <2> QED  BY <2>1
<1> QED  BY <1>6, <1>7

\* A hash loses a bit, and so half of what it may be, with each shift.
LEMMA ShiftedRange ==
  \A n \in 0 .. HashBits, h \in M!Hashes :
    M!Shifted[n][h] \in Nat /\ M!Shifted[n][h] < M!Length[HashBits - n]
<1> DEFINE len(n) == M!Length[HashBits - n]
           Low(n) == \A h \in M!Hashes : M!Shifted[n][h] \in Nat /\ M!Shifted[n][h] < len(n)
           T == {n \in 0 .. HashBits : ~Low(n)}
<1>1. HashBits \in Nat
  BY MapAssumed DEF M!MapAssumption
<1>2. T = {}
  <2>1. SUFFICES ASSUME T # {} PROVE FALSE
    OBVIOUS
  <2>2. PICK n \in T : \A k \in T : n <= k
    <3>1. T \subseteq Nat
      BY <1>1
    <3> HIDE DEF T
    <3> QED  BY <2>1, <3>1, LeastExists
  <2>3. n \in 0 .. HashBits /\ ~Low(n)
    BY <2>2
  <2>4. n # 0
    <3>1. \A h \in M!Hashes : h \in Nat /\ h < M!Length[HashBits]
      BY <1>1, LengthsAre DEF M!Hashes
    <3>2. n = 0 => HashBits - n = HashBits /\ 0 \in 0 .. HashBits
      BY <1>1
    <3>3. n = 0 => Low(n)
      BY <3>1, <3>2, ShiftedIs
    <3> QED  BY <2>3, <3>3
  <2>5. n - 1 \in 0 .. HashBits /\ n - 1 < n /\ HashBits - n \in 0 .. HashBits
        /\ HashBits - (n - 1) \in 0 .. HashBits /\ HashBits - (n - 1) # 0
        /\ (HashBits - (n - 1)) - 1 = HashBits - n
    BY <1>1, <2>3, <2>4
  <2>6. Low(n - 1)
    BY <2>2, <2>5
  <2>7. len(n - 1) = 2 * len(n) /\ len(n) \in Nat
    BY <2>5, LengthsAre
  <2>8. ASSUME NEW h \in M!Hashes PROVE M!Shifted[n][h] \in Nat /\ M!Shifted[n][h] < len(n)
    <3>1. M!Shifted[n][h] = M!Shifted[n - 1][h] \div 2
      BY <2>3, <2>4, ShiftedIs
    <3>2. M!Shifted[n - 1][h] \in Nat /\ M!Shifted[n - 1][h] < len(n - 1)
      BY <2>6
    <3> HIDE DEF len
    <3> QED  BY <2>7, <3>1, <3>2
  <2> QED  BY <2>3, <2>8
<1> HIDE DEF Low
<1>3. \A n \in 0 .. HashBits : Low(n)
  BY <1>2
<1> QED  BY <1>3 DEF Low

\* A table of 2^n buckets, and what the places of one of its keys are.
Sized(n) == n \in InitialBits .. HashBits

LEMMA SizedIs ==
  ASSUME NEW n, Sized(n)
  PROVE  n \in 0 .. HashBits /\ n # 0 /\ M!Length[n] \in Nat /\ M!Length[n] >= 2 /\ HashBits \in Nat
<1>1. HashBits \in Nat /\ InitialBits \in Nat \ {0}
  BY MapAssumed DEF M!MapAssumption
<1>2. n \in 0 .. HashBits /\ n # 0
  BY <1>1 DEF Sized
<1> QED  BY <1>1, <1>2, LengthsAre

Hashed == hash \in [Keys -> M!Hashes]
Places(n) == 0 .. M!Length[n] - 1

LEMMA HomeIs ==
  ASSUME Hashed, NEW n, Sized(n), NEW k \in Keys
  PROVE  M!Home(k, n) \in Places(n)
<1>1. n \in 0 .. HashBits /\ HashBits \in Nat
  BY SizedIs
<1>2. HashBits - n \in 0 .. HashBits /\ HashBits - (HashBits - n) = n /\ hash[k] \in M!Hashes
  BY <1>1 DEF Hashed
<1>3. M!Home(k, n) \in Nat /\ M!Home(k, n) < M!Length[n]
  BY <1>2, ShiftedRange DEF M!Home
<1>4. M!Length[n] \in Nat
  BY SizedIs
<1> QED  BY <1>3, <1>4 DEF Places

Before(i, n) == IF i = 0 THEN M!Length[n] - 1 ELSE i - 1

LEMMA FollowingIs ==
  ASSUME NEW n, Sized(n), NEW i \in Places(n)
  PROVE  /\ M!Following(i, n) \in Places(n) /\ M!Following(i, n) # i
         /\ M!Following(i, n) = IF i = M!Length[n] - 1 THEN 0 ELSE i + 1
         /\ Before(M!Following(i, n), n) = i
         /\ Before(i, n) \in Places(n) /\ Before(i, n) # i /\ M!Following(Before(i, n), n) = i
<1> DEFINE N == M!Length[n]
           Next(j) == IF j = N - 1 THEN 0 ELSE j + 1
<1>1. N \in Nat \ {0} /\ N >= 2 /\ i \in 0 .. N - 1
  BY SizedIs DEF Places
<1> HIDE DEF N
<1>2. ASSUME NEW j \in 0 .. N - 1 PROVE (j + 1) % N = Next(j)
  <2>1. j + 1 \in Nat
    OBVIOUS
  <2>2. (j + 1 < N => (j + 1) % N = j + 1) /\ (N <= j + 1 /\ j + 1 < 2 * N => (j + 1) % N = (j + 1) - N)
    BY <1>1, <2>1, ModIs
  <2> QED  BY <1>1, <2>2
<1>3. Before(i, n) = IF i = 0 THEN N - 1 ELSE i - 1
  BY DEF Before, N
<1>4. Before(i, n) \in 0 .. N - 1 /\ Before(i, n) # i /\ Next(Before(i, n)) = i
  BY <1>1, <1>3
<1>5. M!Following(i, n) = Next(i) /\ M!Following(Before(i, n), n) = i
  BY <1>1, <1>2, <1>4 DEF M!Following, N
<1>6. Next(i) \in 0 .. N - 1 /\ Next(i) # i
  BY <1>1
<1>7. Before(Next(i), n) = IF Next(i) = 0 THEN N - 1 ELSE Next(i) - 1
  BY DEF Before, N
<1>8. Before(Next(i), n) = i
  BY <1>1, <1>7
<1> QED  BY <1>4, <1>5, <1>6, <1>8 DEF Places, N

LEMMA DistanceIs ==
  ASSUME Hashed, NEW n, Sized(n), NEW k \in Keys, NEW i \in Places(n)
  PROVE  /\ M!Distance(k, n, i) \in Places(n)
         /\ M!Distance(k, n, i) = 0 <=> i = M!Home(k, n)
         /\ M!Distance(k, n, M!Following(i, n)) =
              IF M!Distance(k, n, i) = M!Length[n] - 1 THEN 0 ELSE M!Distance(k, n, i) + 1
         /\ \A j \in Places(n) : M!Distance(k, n, i) = M!Distance(k, n, j) => i = j
<1> DEFINE N == M!Length[n]
           h == M!Home(k, n)
           Far(j) == IF j < h THEN j + N - h ELSE j - h
<1>1. N \in Nat \ {0} /\ N >= 2 /\ h \in 0 .. N - 1 /\ i \in 0 .. N - 1
  BY SizedIs, HomeIs DEF Places
<1> HIDE DEF N, h
<1>2. ASSUME NEW j \in 0 .. N - 1 PROVE (j + N - h) % N = Far(j)
  <2>1. j + N - h \in Nat
    BY <1>1
  <2>2. j < h => j + N - h < N
    BY <1>1
  <2>3. ~ (j < h) => N <= j + N - h /\ j + N - h < 2 * N /\ (j + N - h) - N = j - h
    BY <1>1
  <2> QED  BY <1>1, <2>1, <2>2, <2>3, ModIs
<1>3. \A j \in 0 .. N - 1 : M!Distance(k, n, j) = Far(j)
  BY <1>2 DEF M!Distance, N, h
<1>4. M!Following(i, n) \in 0 .. N - 1 /\ M!Following(i, n) = IF i = N - 1 THEN 0 ELSE i + 1
  BY FollowingIs DEF Places, N
<1>5. Far(i) \in 0 .. N - 1 /\ (Far(i) = 0 <=> i = h)
  BY <1>1
<1>6. Far(M!Following(i, n)) = IF Far(i) = N - 1 THEN 0 ELSE Far(i) + 1
  <2>1. CASE i = N - 1
    BY <1>1, <1>4, <2>1
  <2>2. CASE i # N - 1
    BY <1>1, <1>4, <2>2
  <2> QED  BY <2>1, <2>2
<1>7. \A j \in 0 .. N - 1 : Far(i) = Far(j) => i = j
  BY <1>1
<1> HIDE DEF Far
<1> QED  BY <1>1, <1>3, <1>4, <1>5, <1>6, <1>7 DEF Places, N, h

-----------------------------------------------------------------------------
(* A table                                                                 *)

(***************************************************************************)
(* t holds each key of E in one of its 2^n buckets.                        *)
(***************************************************************************)
Keeps(t, n, E) ==
  /\ Sized(n) /\ E \subseteq Keys
  /\ t \in [Places(n) -> E \cup {NoKey}]
  /\ \A k \in E : \E i \in Places(n) : t[i] = k
  /\ \A i, j \in Places(n) : t[i] = t[j] /\ t[i] # NoKey => i = j

Far(t, n, i) == M!Distance(t[i], n, i)

\* No entry is much farther from its home than the one before it, so that from the home of
\* a key on there are only entries that went before it.
RobinAt(t, n, i) ==
  t[i] # NoKey /\ Far(t, n, i) # 0 =>
    t[Before(i, n)] # NoKey /\ Far(t, n, i) <= Far(t, n, Before(i, n)) + 1

Robin(t, n) == \A i \in Places(n) : RobinAt(t, n, i)

LEMMA NoKeyIs == NoKey \notin Keys
BY MapAssumed DEF M!MapAssumption

LEMMA FarIs ==
  ASSUME Hashed, NEW t, NEW n, NEW E, Keeps(t, n, E), NEW i \in Places(n), t[i] # NoKey
  PROVE  /\ t[i] \in E /\ t[i] \in Keys
         /\ Far(t, n, i) \in Nat /\ Far(t, n, i) <= M!Length[n] - 1 /\ Far(t, n, i) \in Places(n)
<1>1. t[i] \in E /\ t[i] \in Keys /\ Sized(n)
  BY DEF Keeps
<1>2. Far(t, n, i) \in Places(n)
  BY <1>1, DistanceIs DEF Far
<1>3. M!Length[n] \in Nat
  BY <1>1, SizedIs
<1> QED  BY <1>1, <1>2, <1>3 DEF Places

\* From the home of an entry up to it no bucket is empty, nor its entry nearer to home than
\* the way is.
LEMMA WayIs ==
  ASSUME Hashed, NEW t, NEW n, NEW E, Keeps(t, n, E), Robin(t, n),
         NEW p \in Places(n), t[p] # NoKey, NEW i \in Places(n),
         M!Distance(t[p], n, i) <= Far(t, n, p)
  PROVE  t[i] # NoKey /\ M!Distance(t[p], n, i) <= Far(t, n, i)
<1> DEFINE k == t[p]
           D(j) == M!Distance(k, n, j)
           Good(j) == t[j] # NoKey /\ D(j) <= Far(t, n, j)
           T == {m \in Nat : \E j \in Places(n) : D(j) + m = D(p) /\ ~Good(j)}
<1>1. k \in Keys /\ Sized(n) /\ M!Length[n] \in Nat /\ M!Length[n] >= 2
  BY FarIs, SizedIs DEF Keeps
<1>2. \A j \in Places(n) : D(j) \in Nat /\ D(j) <= M!Length[n] - 1 /\ j \in Nat
  BY <1>1, DistanceIs DEF Places
<1>3. T = {}
  <2>1. SUFFICES ASSUME T # {} PROVE FALSE
    OBVIOUS
  <2>2. PICK m \in T : \A l \in T : m <= l
    <3>1. T \subseteq Nat
      OBVIOUS
    <3> HIDE DEF T
    <3> QED  BY <2>1, <3>1, LeastExists
  <2>3. m \in Nat /\ \E j \in Places(n) : D(j) + m = D(p) /\ ~Good(j)
    BY <2>2
  <2>4. PICK j \in Places(n) : D(j) + m = D(p) /\ ~Good(j)
    BY <2>3
  <2>5. j # p
    <3>1. Good(p)
      BY <1>2 DEF Far
    <3> QED  BY <2>4, <3>1
  <2>6. m # 0
    <3>1. \A l \in Places(n) : D(p) = D(l) => p = l
      BY <1>1, DistanceIs
    <3> QED  BY <1>2, <2>4, <2>5, <3>1
  <2> DEFINE f == M!Following(j, n)
  <2>7. f \in Places(n) /\ Before(f, n) = j
    BY <1>1, FollowingIs
  <2>8. D(f) = IF D(j) = M!Length[n] - 1 THEN 0 ELSE D(j) + 1
    BY <1>1, DistanceIs
  <2> HIDE DEF f, D
  <2>9. D(f) = D(j) + 1 /\ m - 1 \in Nat /\ D(f) + (m - 1) = D(p) /\ m - 1 < m
    BY <1>2, <2>3, <2>4, <2>6, <2>8
  <2>10. Good(f)
    <3>1. m - 1 \notin T
      BY <2>2, <2>3, <2>9
    <3> QED  BY <2>7, <2>9, <3>1
  <2>11. Far(t, n, f) \in Nat /\ Far(t, n, f) # 0 /\ t[f] # NoKey
    BY <1>2, <2>7, <2>9, <2>10, FarIs
  <2>12. t[j] # NoKey /\ Far(t, n, f) <= Far(t, n, j) + 1
    BY <2>7, <2>11 DEF Robin, RobinAt
  <2>13. Far(t, n, j) \in Nat
    BY <2>12, FarIs
  <2>14. D(j) <= Far(t, n, j)
    BY <1>2, <2>9, <2>10, <2>11, <2>12, <2>13
  <2> QED  BY <2>4, <2>12, <2>14
<1>4. D(p) = Far(t, n, p)
  BY DEF Far
<1> HIDE DEF D
<1>5. D(p) - D(i) \in Nat /\ D(i) + (D(p) - D(i)) = D(p)
  <2>1. D(i) <= D(p)
    BY <1>4 DEF D
  <2> QED  BY <1>2, <2>1
<1>6. Good(i)
  <2>1. D(p) - D(i) \notin T
    BY <1>3
  <2> QED  BY <1>5, <2>1
<1> QED  BY <1>6 DEF D

\* With an empty bucket no entry is as far from home as can be.
LEMMA NotFarthest ==
  ASSUME Hashed, NEW t, NEW n, NEW E, Keeps(t, n, E), Robin(t, n),
         NEW z \in Places(n), t[z] = NoKey, NEW i \in Places(n), t[i] # NoKey
  PROVE  Far(t, n, i) # M!Length[n] - 1
<1>1. t[i] \in Keys /\ Sized(n) /\ M!Length[n] \in Nat
  BY FarIs, SizedIs DEF Keeps
<1>2. M!Distance(t[i], n, z) <= M!Length[n] - 1
  BY <1>1, DistanceIs DEF Places
<1>3. ASSUME Far(t, n, i) = M!Length[n] - 1 PROVE FALSE
  <2>1. M!Distance(t[i], n, z) <= Far(t, n, i)
    BY <1>2, <1>3
  <2> QED  BY <2>1, WayIs
<1> QED  BY <1>3

\* The search goes from the home of a key to its bucket, if it has one.
LEMMA SearchIs ==
  ASSUME Hashed, Keeps(buckets, bits, stored), Robin(buckets, bits), entries # 0, NEW k \in Keys
  PROVE  /\ \A i \in M!Find(k) : i \in Places(bits) /\ buckets[i] = k
         /\ M!Find(k) # {} <=> k \in stored
<1> DEFINE N == M!Length[bits]
           x == [i |-> M!Home(k, bits), d |-> 0]
           S == {s \in [i : Places(bits), d : Nat] :
                   \A p \in Places(bits) : buckets[p] = k =>
                     s.d = M!Distance(k, bits, s.i) /\ s.d <= M!Distance(k, bits, p)}
           F == [s \in S |-> M!SearchRound(k, s)]
           Longer(f) == [j \in 0 .. N |-> IF j = 0 THEN x ELSE M!SearchRound(k, f[j - 1])]
           search == CHOOSE f : f = Longer(f)
<1>1. Sized(bits) /\ N \in Nat /\ N >= 2 /\ k # NoKey
  BY SizedIs, NoKeyIs DEF Keeps
<1>2. \A i \in Places(bits) : /\ M!Distance(k, bits, i) \in Nat /\ M!Distance(k, bits, i) <= N - 1
                              /\ M!Following(i, bits) \in Places(bits)
  BY <1>1, DistanceIs, FollowingIs DEF Places
<1>3. x \in S
  <2>1. x.i = M!Home(k, bits) /\ x.d = 0 /\ x \in [i : Places(bits), d : Nat]
    BY <1>1, HomeIs
  <2>2. M!Distance(k, bits, x.i) = 0
    BY <1>1, <2>1, HomeIs, DistanceIs
  <2> HIDE DEF x
  <2> QED  BY <1>2, <2>1, <2>2
<1>4. ASSUME NEW s \in S
      PROVE  /\ M!SearchRound(k, s) \in S
             /\ M!SearchRound(k, s) = s => ~M!Passes(k, s)
             /\ M!SearchRound(k, s) # s => M!SearchRound(k, s).d = s.d + 1
  <2> DEFINE f == M!Following(s.i, bits)
             r == [i |-> f, d |-> s.d + 1]
  <2>1. s.i \in Places(bits) /\ s.d \in Nat /\ f \in Places(bits)
    BY <1>2
  <2>2. r.i = f /\ r.d = s.d + 1 /\ r \in [i : Places(bits), d : Nat]
    BY <2>1
  <2>3. M!SearchRound(k, s) = IF M!Passes(k, s) THEN r ELSE s
    BY DEF M!SearchRound
  <2>4. \A p \in Places(bits) : buckets[p] = k =>
          s.d = M!Distance(k, bits, s.i) /\ s.d <= M!Distance(k, bits, p)
    OBVIOUS
  <2> HIDE DEF r
  <2>5. CASE M!Passes(k, s)
    <3>1. ASSUME NEW p \in Places(bits), buckets[p] = k
          PROVE  r.d = M!Distance(k, bits, r.i) /\ r.d <= M!Distance(k, bits, p)
      <4>1. s.d = M!Distance(k, bits, s.i) /\ s.d <= M!Distance(k, bits, p)
        BY <2>4, <3>1
      <4>2. s.i # p
        BY <2>5, <3>1 DEF M!Passes
      <4>3. s.d # M!Distance(k, bits, p)
        BY <1>1, <2>1, <4>1, <4>2, DistanceIs
      <4>4. M!Distance(k, bits, f) = IF s.d = N - 1 THEN 0 ELSE s.d + 1
        BY <1>1, <2>1, <4>1, DistanceIs
      <4>5. M!Distance(k, bits, p) \in Nat /\ M!Distance(k, bits, p) <= N - 1
        BY <1>2
      <4> HIDE DEF f, N
      <4> QED  BY <1>1, <2>1, <2>2, <4>1, <4>3, <4>4, <4>5
    <3>2. r \in S
      BY <2>2, <3>1
    <3>3. r # s
      BY <2>1, <2>2
    <3> QED  BY <2>2, <2>3, <2>5, <3>2, <3>3
  <2>6. CASE ~M!Passes(k, s)
    BY <2>3, <2>6
  <2> QED  BY <2>5, <2>6
<1>5. PICK g \in [0 .. N -> S] : Rounds(g, F, x, N)
  <2>1. F \in [S -> S] /\ N \in Nat
    BY <1>1, <1>4
  <2> HIDE DEF F, S, x, N
  <2> QED  BY <1>3, <2>1, RoundsExist
<1> HIDE DEF S
<1>6. g = Longer(g)
  <2>1. ASSUME NEW j \in 0 .. N PROVE g[j] = IF j = 0 THEN x ELSE M!SearchRound(k, g[j - 1])
    <3>1. j # 0 => j \in 1 .. N /\ j - 1 \in 0 .. N
      BY <1>1
    <3> QED  BY <1>5, <3>1 DEF Rounds
  <2> QED  BY <2>1
<1>7. search = Longer(search)
  BY <1>6
<1>8. M!Find(k) = LET end == search[N] IN
                  {i \in {end.i} : buckets[i] = k /\ end.d <= M!Distance(k, bits, i)}
  BY DEF M!Find, x
<1> HIDE DEF search, x, N
<1>9. Loops(search, S, F, x, N)
  <2>1. search[0] = x
    BY <1>1, <1>7
  <2>2. ASSUME NEW j \in 1 .. N, search[j - 1] \in S PROVE search[j] = F[search[j - 1]]
    <3>1. search[j] = M!SearchRound(k, search[j - 1])
      BY <1>1, <1>7
    <3> QED  BY <2>2, <3>1
  <2> QED  BY <2>1, <2>2 DEF Loops
<1> DEFINE end == search[N]
<1>10. end \in S
  <2>1. F \in [S -> S]
    BY <1>4
  <2> HIDE DEF F
  <2>2. \A j \in 0 .. N : search[j] \in S
    BY <1>1, <1>3, <1>9, <2>1, LoopStays
  <2> QED  BY <1>1, <2>2
<1>11. end.i \in Places(bits) /\ end.d \in Nat
  BY <1>10 DEF S
<1>12. \A i \in M!Find(k) : i = end.i /\ buckets[i] = k
  BY <1>8
<1>13. ASSUME k \in stored PROVE M!Find(k) # {}
  <2>1. PICK p \in Places(bits) : buckets[p] = k
    BY <1>13 DEF Keeps
  <2> DEFINE D == [s \in S |-> M!Distance(k, bits, p) - s.d]
  <2>2. M!Distance(k, bits, p) \in Nat /\ M!Distance(k, bits, p) <= N
    BY <1>1, <1>2 DEF N
  <2>3. \A s \in S : s.d \in Nat /\ s.i \in Places(bits) /\ s.d = M!Distance(k, bits, s.i)
                     /\ s.d <= M!Distance(k, bits, p)
    BY <2>1 DEF S
  <2>4. D \in [S -> Nat] /\ D[x] <= N
    BY <1>3, <2>2, <2>3 DEF x
  <2>5. F \in [S -> S] /\ \A s \in S : F[s] = s \/ D[F[s]] < D[s]
    <3>1. ASSUME NEW s \in S, F[s] # s PROVE D[F[s]] < D[s]
      <4>1. F[s] = M!SearchRound(k, s) /\ F[s] \in S /\ F[s].d = s.d + 1
        BY <1>4, <3>1
      <4> HIDE DEF F
      <4> QED  BY <2>2, <2>3, <4>1
    <3>2. F \in [S -> S]
      BY <1>4
    <3> QED  BY <3>1, <3>2
  <2>6. F[end] = end
    <3> HIDE DEF F, D
    <3>1. Lessens(S, F, D)
      BY <2>4, <2>5 DEF Lessens
    <3> QED  BY <1>1, <1>3, <1>9, <2>4, <3>1, LoopEnds
  <2>7. ~M!Passes(k, end)
    BY <1>4, <1>10, <2>6
  <2>8. end.d = M!Distance(k, bits, end.i) /\ end.d <= M!Distance(k, bits, p)
    BY <1>10, <2>3
  <2>9. buckets[end.i] # NoKey /\ end.d <= Far(buckets, bits, end.i)
    BY <1>1, <1>11, <2>1, <2>8, WayIs DEF Far
  <2>10. buckets[end.i] = k
    BY <2>7, <2>9 DEF M!Passes, Far
  <2>11. end.d <= M!Distance(k, bits, end.i)
    BY <1>1, <1>2, <1>11, <2>8
  <2> QED  BY <1>8, <2>10, <2>11
<1>14. ASSUME M!Find(k) # {} PROVE k \in stored
  <2>1. buckets[end.i] = k
    BY <1>12, <1>14
  <2> QED  BY <1>1, <1>11, <2>1 DEF Keeps
<1> HIDE DEF end
<1> QED  BY <1>11, <1>12, <1>13, <1>14

\* A key takes a bucket, and the place in the table of the entry there.
LEMMA PutKeeps ==
  ASSUME NEW t, NEW n, NEW E, Keeps(t, n, E), NEW i \in Places(n), NEW k \in Keys, k \notin E,
         NEW u, u = [t EXCEPT ![i] = k]
  PROVE  Keeps(u, n, (E \ {t[i]}) \cup {k})
<1> DEFINE F == (E \ {t[i]}) \cup {k}
           P == Places(n)
<1>1. /\ Sized(n) /\ E \subseteq Keys /\ t \in [P -> E \cup {NoKey}] /\ k # NoKey
      /\ \A e \in E : \E j \in P : t[j] = e
      /\ \A j, l \in P : t[j] = t[l] /\ t[j] # NoKey => j = l
  BY NoKeyIs DEF Keeps
<1> HIDE DEF P
<1>2. i \in P
  BY DEF P
<1>3. u = [j \in P |-> IF j = i THEN k ELSE t[j]]
  BY <1>1
<1>4. ASSUME NEW j \in P PROVE u[j] \in F \cup {NoKey}
  BY <1>1, <1>2, <1>3
<1>5. ASSUME NEW e \in F PROVE \E j \in P : u[j] = e
  <2>1. CASE e = k
    BY <1>2, <1>3, <2>1
  <2>2. CASE e # k
    <3>1. PICK j \in P : t[j] = e
      BY <1>1, <2>2
    <3>2. j # i
      BY <2>2, <3>1
    <3> QED  BY <1>3, <3>1, <3>2
  <2> QED  BY <2>1, <2>2
<1>6. ASSUME NEW j \in P, NEW l \in P, u[j] = u[l], u[j] # NoKey PROVE j = l
  <2>1. \A m \in P : t[m] # k
    BY <1>1
  <2> QED  BY <1>1, <1>2, <1>3, <1>6, <2>1
<1>7. F \subseteq Keys /\ u \in [P -> F \cup {NoKey}]
  BY <1>1, <1>3, <1>4
<1> HIDE DEF F
<1>8. Keeps(u, n, F)
  BY <1>1, <1>5, <1>6, <1>7 DEF Keeps, P
<1> QED  BY <1>8 DEF F

LEMMA PutRobin ==
  ASSUME Hashed, NEW t, NEW n, NEW E, Keeps(t, n, E), Robin(t, n), NEW i \in Places(n), NEW k \in Keys,
         M!Distance(k, n, i) # 0 =>
           t[Before(i, n)] # NoKey /\ M!Distance(k, n, i) <= Far(t, n, Before(i, n)) + 1,
         t[i] = NoKey \/ Far(t, n, i) < M!Distance(k, n, i),
         NEW u, u = [t EXCEPT ![i] = k]
  PROVE  Robin(u, n)
<1>1. Sized(n) /\ t \in [Places(n) -> E \cup {NoKey}] /\ k # NoKey
  BY NoKeyIs DEF Keeps
<1>2. u = [j \in Places(n) |-> IF j = i THEN k ELSE t[j]]
  BY <1>1
<1>3. Far(u, n, i) = M!Distance(k, n, i) /\ \A j \in Places(n) : j # i => Far(u, n, j) = Far(t, n, j)
  BY <1>2 DEF Far
<1>4. ASSUME NEW j \in Places(n), u[j] # NoKey, Far(u, n, j) # 0
      PROVE  u[Before(j, n)] # NoKey /\ Far(u, n, j) <= Far(u, n, Before(j, n)) + 1
  <2>1. Before(j, n) \in Places(n) /\ Before(j, n) # j /\ M!Following(Before(j, n), n) = j
    BY <1>1, FollowingIs
  <2>2. CASE j = i
    BY <1>2, <1>3, <1>4, <2>1, <2>2
  <2>3. CASE j # i
    <3>1. t[j] # NoKey /\ Far(t, n, j) # 0
      BY <1>2, <1>3, <1>4, <2>3
    <3>2. t[Before(j, n)] # NoKey /\ Far(t, n, j) <= Far(t, n, Before(j, n)) + 1
      BY <3>1 DEF Robin, RobinAt
    <3>3. CASE Before(j, n) # i
      BY <1>2, <1>3, <2>1, <2>3, <3>2, <3>3
    <3>4. CASE Before(j, n) = i
      <4>1. Far(t, n, i) < M!Distance(k, n, i)
        BY <3>2, <3>4
      <4>2. Far(t, n, j) \in Nat /\ Far(t, n, i) \in Nat
        BY <2>1, <3>1, <3>2, <3>4, FarIs
      <4>3. M!Distance(k, n, i) \in Nat
        BY <1>1, DistanceIs DEF Places
      <4>4. u[i] # NoKey /\ Far(u, n, j) = Far(t, n, j) /\ Far(u, n, i) = M!Distance(k, n, i)
        BY <1>1, <1>2, <1>3, <2>3
      <4> QED  BY <3>2, <3>4, <4>1, <4>2, <4>3, <4>4
    <3> QED  BY <3>3, <3>4
  <2> QED  BY <2>2, <2>3
<1> QED  BY <1>4 DEF Robin, RobinAt

(***************************************************************************)
(* The loop of insert, where A are the keys of the table and the one in    *)
(* hand, and z is empty.                                                   *)
(***************************************************************************)
Going(s, n, A, z) ==
  /\ s = [t |-> s.t, k |-> s.k, i |-> s.i, d |-> s.d]
  /\ s.k \in A \cup {NoKey} /\ s.i \in Places(n) /\ s.d \in Nat
  /\ Keeps(s.t, n, A \ {s.k}) /\ Robin(s.t, n)
  /\ s.k # NoKey =>
       /\ s.d = M!Distance(s.k, n, s.i) /\ s.t[z] = NoKey
       /\ s.d # 0 => s.t[Before(s.i, n)] # NoKey /\ s.d <= Far(s.t, n, Before(s.i, n)) + 1

LEMMA InsertRoundKeeps ==
  ASSUME Hashed, NEW n, NEW A, A \subseteq Keys, NEW z \in Places(n), NEW s, Going(s, n, A, z)
  PROVE  /\ Going(M!InsertRound(s, n), n, A, z)
         /\ s.k = NoKey => M!InsertRound(s, n) = s
         /\ s.k # NoKey => \/ M!InsertRound(s, n).k = NoKey
                           \/ s.i # z /\ M!InsertRound(s, n).i = M!Following(s.i, n)
<1> DEFINE i == s.i
           k == s.k
           t == s.t
           there == t[i]
           f == M!Following(i, n)
           u == [t EXCEPT ![i] = k]
           put == [t |-> u, k |-> NoKey, i |-> i, d |-> s.d]
           swap == [t |-> u, k |-> there, i |-> f, d |-> M!Distance(there, n, i) + 1]
           on == [t |-> t, k |-> k, i |-> f, d |-> s.d + 1]
<1>1. M!InsertRound(s, n) =
        IF k = NoKey THEN s
        ELSE IF there = NoKey THEN put
        ELSE IF s.d > M!Distance(there, n, i) THEN swap
        ELSE IF there = k THEN s ELSE on
  BY DEF M!InsertRound
<1>2. s = [t |-> t, k |-> k, i |-> i, d |-> s.d]
  BY DEF Going
<1>3. /\ put.t = u /\ put.k = NoKey /\ put.i = i /\ put.d = s.d
      /\ put = [t |-> put.t, k |-> put.k, i |-> put.i, d |-> put.d]
  OBVIOUS
<1>4. /\ on.t = t /\ on.k = k /\ on.i = f /\ on.d = s.d + 1
      /\ on = [t |-> on.t, k |-> on.k, i |-> on.i, d |-> on.d]
  OBVIOUS
<1>5. /\ swap.t = u /\ swap.k = there /\ swap.i = f /\ swap.d = M!Distance(there, n, i) + 1
      /\ swap = [t |-> swap.t, k |-> swap.k, i |-> swap.i, d |-> swap.d]
  OBVIOUS
<1> HIDE DEF put, on, swap, t, i, k
<1>6. /\ k \in A \cup {NoKey} /\ i \in Places(n) /\ s.d \in Nat
      /\ Keeps(t, n, A \ {k}) /\ Robin(t, n)
      /\ k # NoKey => /\ s.d = M!Distance(k, n, i) /\ t[z] = NoKey
                      /\ s.d # 0 => t[Before(i, n)] # NoKey /\ s.d <= Far(t, n, Before(i, n)) + 1
  BY DEF Going, t, i, k
<1>7. CASE k = NoKey
  BY <1>1, <1>7 DEF k
<1>8. CASE k # NoKey
  <2>1. k \in A /\ k \in Keys /\ Sized(n) /\ M!Length[n] \in Nat /\ NoKey \notin A
    BY <1>6, <1>8, NoKeyIs, SizedIs DEF Keeps
  <2>2. f \in Places(n) /\ Before(f, n) = i
    BY <1>6, <2>1, FollowingIs
  <2>3. there \in (A \ {k}) \cup {NoKey} /\ t \in [Places(n) -> (A \ {k}) \cup {NoKey}]
    BY <1>6 DEF Keeps
  <2>4. Keeps(u, n, ((A \ {k}) \ {there}) \cup {k})
    BY <1>6, <2>1, PutKeeps
  <2>5. ASSUME there = NoKey \/ Far(t, n, i) < s.d PROVE Robin(u, n)
    <3>1. M!Distance(k, n, i) # 0 =>
           t[Before(i, n)] # NoKey /\ M!Distance(k, n, i) <= Far(t, n, Before(i, n)) + 1
      BY <1>6, <1>8
    <3>2. t[i] = NoKey \/ Far(t, n, i) < M!Distance(k, n, i)
      BY <1>6, <1>8, <2>5
    <3> QED  BY <1>6, <2>1, <3>1, <3>2, PutRobin
  <2>6. s.d \in Nat /\ s.d <= M!Length[n] - 1
    BY <1>6, <1>8, <2>1, DistanceIs DEF Places
  <2>7. u = [j \in Places(n) |-> IF j = i THEN k ELSE t[j]]
    BY <2>3
  <2>8. k = s.k /\ i = s.i
    BY DEF k, i
  <2>9. CASE there = NoKey
    <3>1. ((A \ {k}) \ {there}) \cup {k} = A \ {NoKey}
      BY <2>1, <2>9
    <3>2. Keeps(u, n, A \ {NoKey})
      BY <2>4, <3>1
    <3> HIDE DEF u
    <3>3. Going(put, n, A, z)
      BY <1>3, <1>6, <2>5, <2>9, <3>2 DEF Going
    <3> QED  BY <1>1, <1>3, <1>8, <2>8, <2>9, <3>3
  <2>10. CASE there # NoKey /\ s.d > M!Distance(there, n, i)
    <3>1. there \in A /\ there \in Keys /\ there # k
      BY <2>1, <2>3, <2>10
    <3>2. M!Distance(there, n, i) \in Nat /\ M!Distance(there, n, i) # M!Length[n] - 1
          /\ Far(t, n, i) < s.d
      <4>1. M!Distance(there, n, i) \in Nat
        BY <1>6, <2>1, <3>1, DistanceIs DEF Places
      <4> QED  BY <2>1, <2>6, <2>10, <4>1 DEF Far
    <3>3. M!Distance(there, n, f) = M!Distance(there, n, i) + 1
      BY <1>6, <2>1, <3>1, <3>2, DistanceIs
    <3>4. ((A \ {k}) \ {there}) \cup {k} = A \ {there}
      BY <2>1, <3>1
    <3>5. u[i] = k /\ u[z] = NoKey /\ Far(u, n, i) = s.d
      BY <1>6, <1>8, <2>7, <2>10 DEF Far
    <3>6. swap.d <= Far(u, n, i) + 1 /\ swap.d \in Nat
      BY <1>5, <2>6, <2>10, <3>2, <3>5
    <3>7. Keeps(u, n, A \ {there}) /\ Robin(u, n)
      BY <2>4, <2>5, <3>2, <3>4
    <3>8. z # i
      BY <1>6, <1>8, <2>10
    <3>9. there \in A \cup {NoKey} /\ swap.d = M!Distance(there, n, f) /\ Before(f, n) = i /\ u[i] # NoKey
      BY <1>5, <1>8, <2>2, <3>1, <3>3, <3>5
    <3>10. M!InsertRound(s, n) = swap
      BY <1>1, <1>8, <2>10
    <3> HIDE DEF u, f, there
    <3>11. Going(swap, n, A, z)
      BY <1>5, <2>2, <3>5, <3>6, <3>7, <3>9 DEF Going
    <3> QED  BY <1>5, <1>8, <2>8, <3>8, <3>10, <3>11 DEF f
  <2>11. CASE there # NoKey /\ ~ (s.d > M!Distance(there, n, i))
    <3>1. there \in A /\ there \in Keys /\ there # k
      BY <2>1, <2>3, <2>11
    <3>2. M!Distance(there, n, i) \in Nat /\ M!Distance(there, n, i) <= M!Length[n] - 1
      BY <1>6, <2>1, <3>1, DistanceIs DEF Places
    <3>3. Far(t, n, i) # M!Length[n] - 1
      BY <1>6, <1>8, <2>11, NotFarthest
    <3>4. s.d # M!Length[n] - 1 /\ s.d <= Far(t, n, i)
      BY <2>1, <2>6, <2>11, <3>2, <3>3 DEF Far
    <3>5. M!Distance(k, n, f) = s.d + 1
      BY <1>6, <1>8, <2>1, <3>4, DistanceIs
    <3>6. on.d <= Far(t, n, i) + 1 /\ on.d \in Nat
      BY <1>4, <2>6, <3>2, <3>4 DEF Far
    <3>7. z # i
      BY <1>6, <1>8, <2>11
    <3>8. M!InsertRound(s, n) = on
      BY <1>1, <1>8, <2>11, <3>1
    <3>9. Before(f, n) = i /\ t[i] # NoKey /\ t[z] = NoKey
      BY <1>6, <1>8, <2>2, <2>11
    <3> HIDE DEF f, there
    <3>10. Going(on, n, A, z)
      BY <1>4, <1>6, <2>2, <3>5, <3>6, <3>9 DEF Going
    <3> QED  BY <1>4, <1>8, <2>8, <3>7, <3>8, <3>10 DEF f
  <2> QED  BY <2>9, <2>10, <2>11
<1> QED  BY <1>7, <1>8

\* How many buckets there are from i to z.
Until(i, z, n) == IF i <= z THEN z - i ELSE z + M!Length[n] - i

LEMMA UntilIs ==
  ASSUME NEW n, Sized(n), NEW i \in Places(n), NEW z \in Places(n)
  PROVE  /\ Until(i, z, n) \in Nat /\ Until(i, z, n) <= M!Length[n] - 1
         /\ i # z => Until(M!Following(i, n), z, n) < Until(i, z, n)
<1>1. M!Length[n] \in Nat /\ i \in 0 .. M!Length[n] - 1 /\ z \in 0 .. M!Length[n] - 1
  BY SizedIs DEF Places
<1>2. /\ M!Following(i, n) \in 0 .. M!Length[n] - 1
      /\ M!Following(i, n) = IF i = M!Length[n] - 1 THEN 0 ELSE i + 1
  BY FollowingIs DEF Places
<1> QED  BY <1>1, <1>2 DEF Until

\* insert puts a new key into a table that has room.
LEMMA InsertedIs ==
  ASSUME Hashed, NEW t, NEW n, NEW E, Keeps(t, n, E), Robin(t, n),
         NEW z \in Places(n), t[z] = NoKey, NEW k \in Keys, k \notin E
  PROVE  Keeps(M!Inserted(t, n, k), n, E \cup {k}) /\ Robin(M!Inserted(t, n, k), n)
<1> DEFINE N == M!Length[n]
           A == E \cup {k}
           x == [t |-> t, k |-> k, i |-> M!Home(k, n), d |-> 0]
           S == {s \in [t : [Places(n) -> A \cup {NoKey}], k : A \cup {NoKey}, i : Places(n), d : Nat] :
                   Going(s, n, A, z)}
           F == [s \in S |-> M!InsertRound(s, n)]
           D == [s \in S |-> IF s.k = NoKey THEN 0 ELSE Until(s.i, z, n) + 1]
           Longer(f) == [j \in 0 .. N |-> IF j = 0 THEN x ELSE M!InsertRound(f[j - 1], n)]
           loop == CHOOSE f : f = Longer(f)
<1>1. Sized(n) /\ N \in Nat /\ N >= 2 /\ k # NoKey /\ A \subseteq Keys
  BY SizedIs, NoKeyIs DEF Keeps
<1> HIDE DEF A, S, x, N
<1>2. ASSUME NEW s, Going(s, n, A, z) PROVE s \in S
  <2>1. s.t \in [Places(n) -> (A \ {s.k}) \cup {NoKey}]
    BY <1>2 DEF Going, Keeps
  <2>2. s.t \in [Places(n) -> A \cup {NoKey}]
    BY <2>1
  <2>3. s = [t |-> s.t, k |-> s.k, i |-> s.i, d |-> s.d] /\ s.k \in A \cup {NoKey}
        /\ s.i \in Places(n) /\ s.d \in Nat
    BY <1>2 DEF Going
  <2> QED  BY <1>2, <2>2, <2>3 DEF S
<1>3. \A s \in S : Going(s, n, A, z)
  BY DEF S
<1>4. x \in S
  <2>1. /\ x.t = t /\ x.k = k /\ x.i = M!Home(k, n) /\ x.d = 0
        /\ x = [t |-> x.t, k |-> x.k, i |-> x.i, d |-> x.d]
    BY DEF x
  <2>2. M!Home(k, n) \in Places(n) /\ A \ {k} = E /\ k \in A
    BY <1>1, HomeIs DEF A
  <2>3. M!Distance(k, n, M!Home(k, n)) = 0
    BY <1>1, <2>2, DistanceIs
  <2>4. Going(x, n, A, z)
    BY <2>1, <2>2, <2>3 DEF Going
  <2> QED  BY <1>2, <2>4
<1>5. ASSUME NEW s \in S
      PROVE  /\ M!InsertRound(s, n) \in S
             /\ s.k # NoKey => \/ M!InsertRound(s, n).k = NoKey
                               \/ s.i # z /\ M!InsertRound(s, n).i = M!Following(s.i, n)
             /\ s.k = NoKey => M!InsertRound(s, n) = s
             /\ s.i \in Places(n)
  <2>1. Going(s, n, A, z)
    BY <1>3
  <2>2. Going(M!InsertRound(s, n), n, A, z)
    BY <1>1, <2>1, InsertRoundKeeps
  <2>3. M!InsertRound(s, n) \in S
    BY <1>2, <2>2
  <2>4. s.k = NoKey => M!InsertRound(s, n) = s
    BY <1>1, <2>1, InsertRoundKeeps
  <2>5. s.k # NoKey => \/ M!InsertRound(s, n).k = NoKey
                       \/ s.i # z /\ M!InsertRound(s, n).i = M!Following(s.i, n)
    BY <1>1, <2>1, InsertRoundKeeps
  <2> QED  BY <2>1, <2>3, <2>4, <2>5 DEF Going
<1>6. F \in [S -> S] /\ D \in [S -> Nat] /\ D[x] <= N
  <2>1. ASSUME NEW s \in S PROVE Until(s.i, z, n) \in Nat /\ Until(s.i, z, n) <= N - 1
    BY <1>1, <1>5, UntilIs DEF N
  <2>2. F \in [S -> S]
    BY <1>5
  <2> QED  BY <1>1, <1>4, <2>1, <2>2
<1>7. ASSUME NEW s \in S, F[s] # s PROVE D[F[s]] < D[s]
  <2>1. F[s] = M!InsertRound(s, n) /\ F[s] \in S /\ s.i \in Places(n) /\ F[s].i \in Places(n)
    BY <1>5
  <2>2. s.k # NoKey
    BY <1>5, <1>7
  <2>3. Until(s.i, z, n) \in Nat /\ Until(F[s].i, z, n) \in Nat
    BY <1>1, <2>1, UntilIs
  <2>4. F[s].k = NoKey \/ Until(F[s].i, z, n) < Until(s.i, z, n)
    BY <1>1, <1>5, <2>1, <2>2, UntilIs
  <2>5. D[F[s]] = (IF F[s].k = NoKey THEN 0 ELSE Until(F[s].i, z, n) + 1) /\ D[s] = Until(s.i, z, n) + 1
    <3> HIDE DEF F
    <3> QED  BY <2>1, <2>2
  <2> HIDE DEF F, D
  <2> QED  BY <2>3, <2>4, <2>5
<1>8. PICK g \in [0 .. N -> S] : Rounds(g, F, x, N)
  <2> HIDE DEF F
  <2> QED  BY <1>1, <1>4, <1>6, RoundsExist
<1>9. g = Longer(g)
  <2>1. ASSUME NEW j \in 0 .. N PROVE g[j] = IF j = 0 THEN x ELSE M!InsertRound(g[j - 1], n)
    <3>1. j # 0 => j \in 1 .. N /\ j - 1 \in 0 .. N
      BY <1>1
    <3> QED  BY <1>8, <3>1 DEF Rounds
  <2> QED  BY <2>1
<1>10. loop = Longer(loop)
  BY <1>9
<1> DEFINE end == loop[N]
<1>11. M!Inserted(t, n, k) = IF end.k = NoKey THEN end.t ELSE <<>>
  BY DEF M!Inserted, x, N
<1> HIDE DEF loop
<1>12. Loops(loop, S, F, x, N)
  <2>1. loop[0] = x
    BY <1>1, <1>10
  <2>2. ASSUME NEW j \in 1 .. N, loop[j - 1] \in S PROVE loop[j] = F[loop[j - 1]]
    <3>1. loop[j] = M!InsertRound(loop[j - 1], n)
      BY <1>1, <1>10
    <3> QED  BY <2>2, <3>1
  <2> QED  BY <2>1, <2>2 DEF Loops
<1>13. end \in S /\ F[end] = end
  <2> HIDE DEF F, D
  <2>1. Lessens(S, F, D)
    BY <1>6, <1>7 DEF Lessens
  <2> QED  BY <1>1, <1>4, <1>6, <1>12, <2>1, LoopEnds
<1> HIDE DEF end
<1>14. end.k = NoKey
  <2>1. ASSUME end.k # NoKey PROVE FALSE
    <3>1. M!InsertRound(end, n) = end
      BY <1>13
    <3>2. end.i # z /\ end.i = M!Following(end.i, n) /\ end.i \in Places(n)
      BY <1>5, <1>13, <2>1, <3>1
    <3> QED  BY <1>1, <3>2, FollowingIs
  <2> QED  BY <2>1
<1>15. Keeps(end.t, n, A \ {NoKey}) /\ Robin(end.t, n)
  BY <1>3, <1>13, <1>14 DEF Going
<1>16. A \ {NoKey} = E \cup {k}
  BY <1>1, NoKeyIs DEF A
<1> QED  BY <1>11, <1>14, <1>15, <1>16

\* insert finds a key that is there already.
LEMMA DuplicateIs ==
  ASSUME Hashed, NEW t, NEW n, NEW E, Keeps(t, n, E), Robin(t, n), NEW k \in E
  PROVE  M!Inserted(t, n, k) = <<>>
<1> DEFINE N == M!Length[n]
           x == [t |-> t, k |-> k, i |-> M!Home(k, n), d |-> 0]
           S == {s \in [t : {t}, k : {k}, i : Places(n), d : Nat] :
                   \A p \in Places(n) : t[p] = k =>
                     s.d = M!Distance(k, n, s.i) /\ s.d <= M!Distance(k, n, p)}
           F == [s \in S |-> M!InsertRound(s, n)]
           Longer(f) == [j \in 0 .. N |-> IF j = 0 THEN x ELSE M!InsertRound(f[j - 1], n)]
           loop == CHOOSE f : f = Longer(f)
<1>1. Sized(n) /\ N \in Nat /\ N >= 2 /\ k \in Keys /\ k # NoKey
  BY SizedIs, NoKeyIs DEF Keeps
<1>2. PICK p \in Places(n) : t[p] = k
  BY DEF Keeps
<1>3. \A i \in Places(n) : /\ M!Distance(k, n, i) \in Nat /\ M!Distance(k, n, i) <= N - 1
                           /\ M!Following(i, n) \in Places(n)
  BY <1>1, DistanceIs, FollowingIs DEF Places
<1>4. \A q \in Places(n) : t[q] = k => q = p
  BY <1>1, <1>2 DEF Keeps
<1>5. x \in S
  <2>1. /\ x.i = M!Home(k, n) /\ x.d = 0
        /\ x \in [t : {t}, k : {k}, i : Places(n), d : Nat]
    BY <1>1, HomeIs
  <2>2. M!Distance(k, n, x.i) = 0
    BY <1>1, <2>1, HomeIs, DistanceIs
  <2> HIDE DEF x
  <2> QED  BY <1>3, <2>1, <2>2
<1>6. ASSUME NEW s \in S PROVE M!InsertRound(s, n) \in S
  <2> DEFINE i == s.i
             there == s.t[i]
             f == M!Following(i, n)
             on == [t |-> s.t, k |-> s.k, i |-> f, d |-> s.d + 1]
  <2>1. /\ s.t = t /\ s.k = k /\ i \in Places(n) /\ s.d \in Nat
        /\ s.d = M!Distance(k, n, i) /\ s.d <= M!Distance(k, n, p)
    BY <1>2
  <2>2. there # NoKey /\ s.d <= M!Distance(there, n, i)
    BY <1>1, <1>2, <2>1, WayIs DEF Far
  <2>3. ~ (s.d > M!Distance(there, n, i))
    <3>1. M!Distance(there, n, i) \in Nat
      BY <2>1, <2>2, FarIs DEF Far
    <3> QED  BY <2>1, <2>2, <3>1
  <2>4. M!InsertRound(s, n) = IF there = k THEN s ELSE on
    BY <1>1, <2>1, <2>2, <2>3 DEF M!InsertRound
  <2>5. CASE there = k
    BY <2>4, <2>5
  <2>6. CASE there # k
    <3>1. i # p
      BY <1>2, <2>1, <2>6
    <3>2. M!Distance(k, n, p) # s.d
      BY <1>1, <1>2, <2>1, <3>1, DistanceIs
    <3>3. M!Distance(k, n, f) = IF s.d = N - 1 THEN 0 ELSE s.d + 1
      BY <1>1, <2>1, DistanceIs
    <3>4. M!Distance(k, n, p) \in Nat /\ M!Distance(k, n, p) <= N - 1
      BY <1>2, <1>3
    <3>5. on \in [t : {t}, k : {k}, i : Places(n), d : Nat] /\ on.i = f /\ on.d = s.d + 1
      BY <1>3, <2>1
    <3> HIDE DEF on, f, N, i
    <3>6. s.d + 1 = M!Distance(k, n, f) /\ s.d + 1 <= M!Distance(k, n, p)
      BY <1>1, <2>1, <3>2, <3>3, <3>4
    <3>7. on \in S
      BY <1>4, <3>5, <3>6
    <3> QED  BY <2>4, <2>6, <3>7
  <2> QED  BY <2>5, <2>6
<1> HIDE DEF S
<1>7. F \in [S -> S]
  BY <1>6
<1>8. PICK g \in [0 .. N -> S] : Rounds(g, F, x, N)
  <2> HIDE DEF F, x, N
  <2> QED  BY <1>1, <1>5, <1>7, RoundsExist
<1>9. g = Longer(g)
  <2>1. ASSUME NEW j \in 0 .. N PROVE g[j] = IF j = 0 THEN x ELSE M!InsertRound(g[j - 1], n)
    <3>1. j # 0 => j \in 1 .. N /\ j - 1 \in 0 .. N
      BY <1>1
    <3> QED  BY <1>8, <3>1 DEF Rounds
  <2> QED  BY <2>1
<1>10. loop = Longer(loop)
  BY <1>9
<1>11. M!Inserted(t, n, k) = IF loop[N].k = NoKey THEN loop[N].t ELSE <<>>
  BY DEF M!Inserted
<1> HIDE DEF loop, x, N
<1>12. Loops(loop, S, F, x, N)
  <2>1. loop[0] = x
    BY <1>1, <1>10
  <2>2. ASSUME NEW j \in 1 .. N, loop[j - 1] \in S PROVE loop[j] = F[loop[j - 1]]
    <3>1. loop[j] = M!InsertRound(loop[j - 1], n)
      BY <1>1, <1>10
    <3> QED  BY <2>2, <3>1
  <2> QED  BY <2>1, <2>2 DEF Loops
<1>13. loop[N] \in S
  <2> HIDE DEF F
  <2>1. \A j \in 0 .. N : loop[j] \in S
    BY <1>1, <1>5, <1>7, <1>12, LoopStays
  <2> QED  BY <1>1, <2>1
<1>14. loop[N].k = k
  BY <1>13 DEF S
<1> QED  BY <1>1, <1>11, <1>14

-----------------------------------------------------------------------------
(* Taking a key out                                                        *)

LEMMA EmptiedKeeps ==
  ASSUME NEW t, NEW n, NEW E, Keeps(t, n, E), NEW p \in Places(n),
         NEW u, u = [t EXCEPT ![p] = NoKey]
  PROVE  Keeps(u, n, E \ {t[p]}) /\ u = [j \in Places(n) |-> IF j = p THEN NoKey ELSE t[j]]
<1>1. /\ Sized(n) /\ E \subseteq Keys /\ t \in [Places(n) -> E \cup {NoKey}]
      /\ \A e \in E : \E j \in Places(n) : t[j] = e
      /\ \A j, l \in Places(n) : t[j] = t[l] /\ t[j] # NoKey => j = l
  BY DEF Keeps
<1>2. u = [j \in Places(n) |-> IF j = p THEN NoKey ELSE t[j]]
  BY <1>1
<1>3. \A j \in Places(n) : u[j] \in (E \ {t[p]}) \cup {NoKey}
  BY <1>1, <1>2
<1>4. ASSUME NEW e \in E \ {t[p]} PROVE \E j \in Places(n) : u[j] = e
  <2>1. PICK j \in Places(n) : t[j] = e
    BY <1>1
  <2>2. j # p
    BY <2>1
  <2> QED  BY <1>2, <2>1, <2>2
<1>5. \A j, l \in Places(n) : u[j] = u[l] /\ u[j] # NoKey => j = l
  BY <1>1, <1>2
<1>6. u \in [Places(n) -> (E \ {t[p]}) \cup {NoKey}] /\ E \ {t[p]} \subseteq Keys
  BY <1>1, <1>2, <1>3
<1> QED  BY <1>1, <1>2, <1>4, <1>5, <1>6 DEF Keeps

LEMMA MovedKeeps ==
  ASSUME NEW t, NEW n, NEW E, Keeps(t, n, E), NEW p \in Places(n), NEW i \in Places(n), p # i,
         t[p] = NoKey, NEW u, u = [t EXCEPT ![p] = t[i], ![i] = NoKey]
  PROVE  /\ Keeps(u, n, E)
         /\ u = [j \in Places(n) |-> IF j = p THEN t[i] ELSE IF j = i THEN NoKey ELSE t[j]]
<1>1. /\ Sized(n) /\ E \subseteq Keys /\ t \in [Places(n) -> E \cup {NoKey}] /\ NoKey \notin E
      /\ \A e \in E : \E j \in Places(n) : t[j] = e
      /\ \A j, l \in Places(n) : t[j] = t[l] /\ t[j] # NoKey => j = l
  BY NoKeyIs DEF Keeps
<1>2. u = [j \in Places(n) |-> IF j = p THEN t[i] ELSE IF j = i THEN NoKey ELSE t[j]]
  BY <1>1
<1>3. u \in [Places(n) -> E \cup {NoKey}]
  BY <1>1, <1>2
<1>4. ASSUME NEW e \in E PROVE \E j \in Places(n) : u[j] = e
  <2>1. PICK j \in Places(n) : t[j] = e
    BY <1>1
  <2>2. j # p
    BY <1>1, <2>1
  <2>3. CASE j = i
    BY <1>2, <2>1, <2>3
  <2>4. CASE j # i
    BY <1>2, <2>1, <2>2, <2>4
  <2> QED  BY <2>3, <2>4
<1>5. ASSUME NEW j \in Places(n), NEW l \in Places(n), u[j] = u[l], u[j] # NoKey PROVE j = l
  <2>1. CASE j = p /\ l # p
    BY <1>1, <1>2, <1>5, <2>1
  <2>2. CASE j # p /\ l = p
    BY <1>1, <1>2, <1>5, <2>2
  <2>3. CASE j # p /\ l # p
    BY <1>1, <1>2, <1>5, <2>3
  <2> QED  BY <2>1, <2>2, <2>3
<1> QED  BY <1>1, <1>2, <1>3, <1>4, <1>5 DEF Keeps

(***************************************************************************)
(* The loop of remove: an entry may be farther behind the one before the   *)
(* hole by one, as the hole takes a bucket; z is empty too.                *)
(***************************************************************************)
Shifting(s, n, E, z) ==
  /\ s = [t |-> s.t, hole |-> s.hole] /\ s.hole \in Places(n)
  /\ Keeps(s.t, n, E) /\ s.t[s.hole] = NoKey /\ s.t[z] = NoKey /\ z # s.hole
  /\ \A j \in Places(n) : j # M!Following(s.hole, n) => RobinAt(s.t, n, j)
  /\ LET f == M!Following(s.hole, n)
         b == Before(s.hole, n) IN
     s.t[f] # NoKey /\ Far(s.t, n, f) > 1 => s.t[b] # NoKey /\ Far(s.t, n, f) <= Far(s.t, n, b) + 2

LEMMA ShiftRoundKeeps ==
  ASSUME Hashed, NEW n, NEW E, NEW z \in Places(n), NEW s, Shifting(s, n, E, z)
  PROVE  /\ Shifting(M!ShiftRound(s, n), n, E, z)
         /\ \/ M!ShiftRound(s, n) = s /\ Robin(s.t, n)
            \/ s.hole # z /\ M!ShiftRound(s, n).hole = M!Following(s.hole, n)
<1> DEFINE p == s.hole
           t == s.t
           i == M!Following(p, n)
           b == Before(p, n)
           f == M!Following(i, n)
           u == [t EXCEPT ![p] = t[i], ![i] = NoKey]
           r == [t |-> u, hole |-> i]
<1>1. M!ShiftRound(s, n) = IF t[i] = NoKey \/ M!Distance(t[i], n, i) = 0 THEN s ELSE r
  BY DEF M!ShiftRound
<1>2. r.t = u /\ r.hole = i /\ r = [t |-> r.t, hole |-> r.hole]
  OBVIOUS
<1>3. /\ p \in Places(n) /\ Keeps(t, n, E) /\ t[p] = NoKey /\ t[z] = NoKey /\ z # p
      /\ \A j \in Places(n) : j # i => RobinAt(t, n, j)
      /\ t[i] # NoKey /\ Far(t, n, i) > 1 => t[b] # NoKey /\ Far(t, n, i) <= Far(t, n, b) + 2
  BY DEF Shifting
<1>4. Sized(n)
  BY <1>3 DEF Keeps
<1>5. /\ i \in Places(n) /\ i # p /\ Before(i, n) = p
      /\ b \in Places(n) /\ b # p /\ M!Following(b, n) = p
      /\ f \in Places(n) /\ f # i /\ Before(f, n) = i
  BY <1>3, <1>4, FollowingIs
<1>6. \A j \in Places(n) : Before(j, n) \in Places(n) /\ Before(j, n) # j /\ M!Following(Before(j, n), n) = j
  BY <1>4, FollowingIs
<1>7. M!Length[n] \in Nat /\ M!Length[n] >= 2
  BY <1>4, SizedIs
<1>8. p = s.hole /\ t = s.t
  BY DEF p, t
<1> HIDE DEF r, f, b
<1>9. CASE t[i] = NoKey \/ M!Distance(t[i], n, i) = 0
  <2>1. M!ShiftRound(s, n) = s
    BY <1>1, <1>9
  <2>2. RobinAt(t, n, i)
    BY <1>9 DEF RobinAt, Far
  <2>3. Robin(t, n)
    BY <1>3, <2>2 DEF Robin
  <2> QED  BY <1>8, <2>1, <2>3
<1>10. CASE t[i] # NoKey /\ M!Distance(t[i], n, i) # 0
  <2>1. /\ Keeps(u, n, E)
        /\ u = [j \in Places(n) |-> IF j = p THEN t[i] ELSE IF j = i THEN NoKey ELSE t[j]]
    BY <1>3, <1>5, MovedKeeps
  <2> HIDE DEF u
  <2>2. M!Distance(t[i], n, p) = Far(t, n, i) - 1 /\ Far(t, n, i) \in Nat /\ Far(t, n, i) # 0
    <3>1. t[i] \in Keys /\ Far(t, n, i) \in Nat
      BY <1>3, <1>5, <1>10, FarIs
    <3>2. M!Distance(t[i], n, i) =
            IF M!Distance(t[i], n, p) = M!Length[n] - 1 THEN 0 ELSE M!Distance(t[i], n, p) + 1
      BY <1>3, <1>4, <3>1, DistanceIs
    <3>3. M!Distance(t[i], n, p) \in Nat
      BY <1>3, <1>4, <3>1, DistanceIs DEF Places
    <3> QED  BY <1>10, <3>1, <3>2, <3>3 DEF Far
  <2>3. /\ u[p] = t[i] /\ u[i] = NoKey /\ Far(u, n, p) = Far(t, n, i) - 1
        /\ \A j \in Places(n) : j # p /\ j # i => u[j] = t[j] /\ Far(u, n, j) = Far(t, n, j)
    <3>1. u[p] = t[i] /\ u[i] = NoKey
      BY <1>3, <1>5, <2>1
    <3>2. Far(u, n, p) = Far(t, n, i) - 1
      BY <2>2, <3>1 DEF Far
    <3>3. \A j \in Places(n) : j # p /\ j # i => u[j] = t[j]
      BY <2>1
    <3> QED  BY <3>1, <3>2, <3>3 DEF Far
  <2>4. ASSUME NEW j \in Places(n), j # f PROVE RobinAt(u, n, j)
    <3>1. CASE j = i
      BY <2>3, <3>1 DEF RobinAt
    <3>2. CASE j = p
      <4>1. b # i
        BY <1>5, <2>4, <3>2 DEF f
      <4>2. u[b] = t[b] /\ Far(u, n, b) = Far(t, n, b)
        BY <1>5, <2>3, <4>1
      <4>3. ASSUME Far(u, n, p) # 0
            PROVE  u[b] # NoKey /\ Far(u, n, p) <= Far(u, n, b) + 1
        <5>1. Far(t, n, i) > 1
          BY <2>2, <2>3, <4>3
        <5>2. t[b] # NoKey /\ Far(t, n, i) <= Far(t, n, b) + 2
          BY <1>3, <1>10, <5>1
        <5>3. Far(t, n, b) \in Nat
          BY <1>3, <1>5, <5>2, FarIs
        <5> QED  BY <2>2, <2>3, <4>2, <5>2, <5>3
      <4> QED  BY <3>2, <4>3 DEF RobinAt, b
    <3>3. CASE j # i /\ j # p
      <4>1. Before(j, n) # i /\ Before(j, n) # p
        BY <1>6, <2>4, <3>3 DEF f
      <4>2. u[Before(j, n)] = t[Before(j, n)] /\ Far(u, n, Before(j, n)) = Far(t, n, Before(j, n))
        BY <1>6, <2>3, <4>1
      <4>3. u[j] = t[j] /\ Far(u, n, j) = Far(t, n, j)
        BY <2>3, <3>3
      <4>4. RobinAt(t, n, j)
        BY <1>3, <3>3
      <4> QED  BY <4>2, <4>3, <4>4 DEF RobinAt
    <3> QED  BY <3>1, <3>2, <3>3
  <2>5. ASSUME u[f] # NoKey, Far(u, n, f) > 1
        PROVE  u[p] # NoKey /\ Far(u, n, f) <= Far(u, n, p) + 2
    <3>1. CASE f = p
      BY <1>10, <2>2, <2>3, <3>1
    <3>2. CASE f # p
      <4>1. u[f] = t[f] /\ Far(u, n, f) = Far(t, n, f) /\ RobinAt(t, n, f)
        BY <1>3, <1>5, <2>3, <3>2
      <4>2. Far(t, n, f) \in Nat
        BY <1>3, <1>5, <2>5, <4>1, FarIs
      <4>3. Far(t, n, f) <= Far(t, n, i) + 1
        BY <1>5, <2>5, <4>1, <4>2 DEF RobinAt
      <4> QED  BY <1>10, <2>2, <2>3, <4>1, <4>2, <4>3
    <3> QED  BY <3>1, <3>2
  <2>6. z # i /\ u[z] = NoKey
    BY <1>3, <1>10, <2>3
  <2>7. Shifting(r, n, E, z)
    BY <1>2, <1>5, <2>1, <2>3, <2>4, <2>5, <2>6 DEF Shifting, f
  <2>8. M!ShiftRound(s, n) = r
    BY <1>1, <1>10
  <2> QED  BY <1>2, <1>3, <1>8, <2>7, <2>8
<1> QED  BY <1>9, <1>10

\* remove takes a key out of the bucket that holds it, and leaves the table in order.
LEMMA ShiftedBackIs ==
  ASSUME Hashed, NEW t, NEW n, NEW E, Keeps(t, n, E), Robin(t, n),
         NEW z \in Places(n), t[z] = NoKey, NEW p \in Places(n), t[p] # NoKey
  PROVE  /\ Keeps(M!ShiftBack([t EXCEPT ![p] = NoKey], n, p), n, E \ {t[p]})
         /\ Robin(M!ShiftBack([t EXCEPT ![p] = NoKey], n, p), n)
<1> DEFINE u == [t EXCEPT ![p] = NoKey]
           N == M!Length[n]
           A == E \ {t[p]}
           x == [t |-> u, hole |-> p]
           S == {s \in [t : [Places(n) -> A \cup {NoKey}], hole : Places(n)] : Shifting(s, n, A, z)}
           F == [s \in S |-> M!ShiftRound(s, n)]
           D == [s \in S |-> Until(s.hole, z, n)]
           Longer(f) == [j \in 0 .. N |-> IF j = 0 THEN x ELSE M!ShiftRound(f[j - 1], n)]
           loop == CHOOSE f : f = Longer(f)
<1>1. Sized(n) /\ N \in Nat /\ N >= 2
  BY SizedIs DEF Keeps
<1> HIDE DEF A, S, x, N
<1>2. ASSUME NEW s, Shifting(s, n, A, z) PROVE s \in S
  <2>1. s.t \in [Places(n) -> A \cup {NoKey}]
    BY <1>2 DEF Shifting, Keeps
  <2>2. s = [t |-> s.t, hole |-> s.hole] /\ s.hole \in Places(n)
    BY <1>2 DEF Shifting
  <2> QED  BY <1>2, <2>1, <2>2 DEF S
<1>3. \A s \in S : Shifting(s, n, A, z) /\ s.hole \in Places(n)
  BY DEF S
<1>4. x \in S
  <2> DEFINE f == M!Following(p, n)
             b == Before(p, n)
  <2>1. x.t = u /\ x.hole = p /\ x = [t |-> x.t, hole |-> x.hole]
    BY DEF x
  <2>2. Keeps(u, n, A) /\ u = [j \in Places(n) |-> IF j = p THEN NoKey ELSE t[j]]
    <3>1. Keeps(u, n, E \ {t[p]}) /\ u = [j \in Places(n) |-> IF j = p THEN NoKey ELSE t[j]]
      BY EmptiedKeeps
    <3> QED  BY <3>1 DEF A
  <2>3. /\ f \in Places(n) /\ f # p /\ Before(f, n) = p /\ b \in Places(n) /\ b # p
        /\ \A j \in Places(n) : Before(j, n) \in Places(n) /\ M!Following(Before(j, n), n) = j
    BY <1>1, FollowingIs
  <2>4. \A j \in Places(n) : j # p => u[j] = t[j] /\ Far(u, n, j) = Far(t, n, j)
    BY <2>2 DEF Far
  <2>5. u[p] = NoKey /\ z # p /\ u[z] = NoKey
    BY <2>2
  <2>6. ASSUME NEW j \in Places(n), j # f PROVE RobinAt(u, n, j)
    <3>1. CASE j = p
      BY <2>5, <3>1 DEF RobinAt
    <3>2. CASE j # p
      <4>1. Before(j, n) # p /\ Before(j, n) \in Places(n)
        BY <2>3, <2>6
      <4>2. RobinAt(t, n, j)
        BY DEF Robin
      <4> QED  BY <2>4, <3>2, <4>1, <4>2 DEF RobinAt
    <3> QED  BY <3>1, <3>2
  <2> HIDE DEF f, b
  <2>7. ASSUME u[f] # NoKey, Far(u, n, f) > 1
        PROVE  u[b] # NoKey /\ Far(u, n, f) <= Far(u, n, b) + 2
    <3>1. t[f] # NoKey /\ Far(u, n, f) = Far(t, n, f) /\ u[b] = t[b] /\ Far(u, n, b) = Far(t, n, b)
      BY <2>3, <2>4, <2>7
    <3>2. Far(t, n, f) \in Nat /\ Far(t, n, p) \in Nat
      BY <2>3, <3>1, FarIs
    <3>3. Far(t, n, f) <= Far(t, n, p) + 1
      BY <2>3, <2>7, <3>1, <3>2 DEF Robin, RobinAt
    <3>4. Far(t, n, p) # 0
      BY <2>7, <3>1, <3>2, <3>3
    <3>5. t[b] # NoKey /\ Far(t, n, p) <= Far(t, n, b) + 1
      BY <3>4 DEF Robin, RobinAt, b
    <3>6. Far(t, n, b) \in Nat
      BY <2>3, <3>5, FarIs
    <3> QED  BY <3>1, <3>2, <3>3, <3>5, <3>6
  <2>8. Shifting(x, n, A, z)
    BY <2>1, <2>2, <2>5, <2>6, <2>7 DEF Shifting, f, b
  <2> QED  BY <1>2, <2>8
<1>5. ASSUME NEW s \in S
      PROVE  /\ M!ShiftRound(s, n) \in S
             /\ \/ M!ShiftRound(s, n) = s /\ Robin(s.t, n)
                \/ s.hole # z /\ M!ShiftRound(s, n).hole = M!Following(s.hole, n)
  <2>1. Shifting(s, n, A, z)
    BY <1>3
  <2>2. Shifting(M!ShiftRound(s, n), n, A, z)
    BY <2>1, ShiftRoundKeeps
  <2>3. \/ M!ShiftRound(s, n) = s /\ Robin(s.t, n)
        \/ s.hole # z /\ M!ShiftRound(s, n).hole = M!Following(s.hole, n)
    BY <2>1, ShiftRoundKeeps
  <2> QED  BY <1>2, <2>2, <2>3
<1>6. F \in [S -> S] /\ D \in [S -> Nat] /\ D[x] <= N
  <2>1. ASSUME NEW s \in S PROVE Until(s.hole, z, n) \in Nat /\ Until(s.hole, z, n) <= N - 1
    BY <1>1, <1>3, UntilIs DEF N
  <2>2. F \in [S -> S]
    BY <1>5
  <2> QED  BY <1>1, <1>4, <2>1, <2>2
<1>7. ASSUME NEW s \in S, F[s] # s PROVE D[F[s]] < D[s]
  <2>1. F[s] = M!ShiftRound(s, n) /\ F[s] \in S /\ s.hole \in Places(n)
    BY <1>3, <1>5
  <2>2. s.hole # z /\ F[s].hole = M!Following(s.hole, n)
    BY <1>5, <1>7, <2>1
  <2>3. Until(F[s].hole, z, n) < Until(s.hole, z, n)
    BY <1>1, <2>1, <2>2, UntilIs
  <2>4. D[F[s]] = Until(F[s].hole, z, n) /\ D[s] = Until(s.hole, z, n)
    <3> HIDE DEF F
    <3> QED  BY <2>1
  <2> HIDE DEF F, D
  <2> QED  BY <2>3, <2>4
<1>8. PICK g \in [0 .. N -> S] : Rounds(g, F, x, N)
  <2> HIDE DEF F
  <2> QED  BY <1>1, <1>4, <1>6, RoundsExist
<1>9. g = Longer(g)
  <2>1. ASSUME NEW j \in 0 .. N PROVE g[j] = IF j = 0 THEN x ELSE M!ShiftRound(g[j - 1], n)
    <3>1. j # 0 => j \in 1 .. N /\ j - 1 \in 0 .. N
      BY <1>1
    <3> QED  BY <1>8, <3>1 DEF Rounds
  <2> QED  BY <2>1
<1>10. loop = Longer(loop)
  BY <1>9
<1>11. M!ShiftBack(u, n, p) = loop[N].t
  BY DEF M!ShiftBack, x, N
<1> HIDE DEF loop
<1>12. Loops(loop, S, F, x, N)
  <2>1. loop[0] = x
    BY <1>1, <1>10
  <2>2. ASSUME NEW j \in 1 .. N, loop[j - 1] \in S PROVE loop[j] = F[loop[j - 1]]
    <3>1. j \in 0 .. N /\ j # 0
      BY <1>1
    <3>2. loop[j] = M!ShiftRound(loop[j - 1], n)
      BY <1>10, <3>1
    <3> QED  BY <2>2, <3>2
  <2> QED  BY <2>1, <2>2 DEF Loops
<1> DEFINE end == loop[N]
<1>13. end \in S /\ F[end] = end
  <2> HIDE DEF F, D
  <2>1. Lessens(S, F, D)
    BY <1>6, <1>7 DEF Lessens
  <2> QED  BY <1>1, <1>4, <1>6, <1>12, <2>1, LoopEnds
<1>14. M!ShiftRound(end, n) = end
  BY <1>13
<1> HIDE DEF end, F
<1>15. Robin(end.t, n)
  <2>1. end.hole \in Places(n) /\ M!Following(end.hole, n) # end.hole
    BY <1>1, <1>3, <1>13, FollowingIs
  <2> QED  BY <1>5, <1>13, <1>14, <2>1
<1>16. Keeps(end.t, n, A)
  BY <1>3, <1>13 DEF Shifting
<1> QED  BY <1>11, <1>15, <1>16 DEF A, end

-----------------------------------------------------------------------------
(* Growing                                                                 *)

LEMMA EmptyKeeps ==
  ASSUME NEW n, Sized(n)
  PROVE  Keeps(M!EmptyTable(n), n, {}) /\ Robin(M!EmptyTable(n), n)
<1> DEFINE t == M!EmptyTable(n)
<1>1. t = [i \in Places(n) |-> NoKey]
  BY DEF M!EmptyTable, Places
<1> HIDE DEF t
<1>2. Keeps(t, n, {})
  BY <1>1 DEF Keeps
<1>3. Robin(t, n)
  BY <1>1 DEF Robin, RobinAt
<1> QED  BY <1>2, <1>3 DEF t

\* A table with fewer keys than buckets has an empty bucket.
LEMMA RoomIs ==
  ASSUME NEW t, NEW n, NEW E, Keeps(t, n, E), IsFiniteSet(E), Cardinality(E) < M!Length[n]
  PROVE  \E z \in Places(n) : t[z] = NoKey
<1>1. SUFFICES ASSUME \A z \in Places(n) : t[z] # NoKey PROVE FALSE
  OBVIOUS
<1>2. Sized(n) /\ M!Length[n] \in Nat /\ M!Length[n] >= 2
  BY SizedIs DEF Keeps
<1>3. t \in [Places(n) -> E] /\ \A i, j \in Places(n) : t[i] = t[j] => i = j
  BY <1>1 DEF Keeps
<1>4. t \in Injection(Places(n), E)
  BY <1>3 DEF Injection, IsInjective
<1>5. Cardinality(Places(n)) <= Cardinality(E)
  BY <1>4, FS_Injection
<1>6. Cardinality(Places(n)) = M!Length[n]
  BY <1>2, FS_Interval DEF Places
<1>7. Cardinality(E) \in Nat
  BY FS_CardinalityType
<1> QED  BY <1>2, <1>5, <1>6, <1>7

\* The len buckets of an old table hold the keys of E.
Lists(old, len, E) ==
  /\ len \in Nat /\ DOMAIN old = 0 .. len - 1 /\ E \subseteq Keys
  /\ \A j \in 0 .. len - 1 : old[j] \in E \cup {NoKey}
  /\ \A e \in E : \E j \in 0 .. len - 1 : old[j] = e
  /\ \A i, j \in 0 .. len - 1 : old[i] = old[j] /\ old[i] # NoKey => i = j

Upto(old, i, E) == {e \in E : \E j \in 0 .. i - 1 : old[j] = e}

LEMMA UptoIs ==
  ASSUME NEW old, NEW len, NEW E, Lists(old, len, E), NEW i \in 0 .. len - 1
  PROVE  /\ old[i] = NoKey => Upto(old, i + 1, E) = Upto(old, i, E)
         /\ old[i] # NoKey => /\ old[i] \in Keys /\ old[i] \notin Upto(old, i, E)
                              /\ Upto(old, i + 1, E) = Upto(old, i, E) \cup {old[i]}
<1>1. /\ len \in Nat /\ E \subseteq Keys /\ NoKey \notin E /\ old[i] \in E \cup {NoKey}
      /\ \A l, j \in 0 .. len - 1 : old[l] = old[j] /\ old[l] # NoKey => l = j
  BY NoKeyIs DEF Lists
<1>2. 0 .. (i + 1) - 1 = (0 .. i - 1) \cup {i}
  BY <1>1
<1>3. \A e : (\E j \in 0 .. (i + 1) - 1 : old[j] = e) <=> old[i] = e \/ \E j \in 0 .. i - 1 : old[j] = e
  BY <1>2
<1>4. \A j \in 0 .. i - 1 : j \in 0 .. len - 1 /\ j # i
  BY <1>1
<1>5. old[i] # NoKey => \A j \in 0 .. i - 1 : old[j] # old[i]
  BY <1>1, <1>4
<1> QED  BY <1>1, <1>3, <1>5 DEF Upto

LEMMA MovedIs ==
  ASSUME Hashed, NEW old, NEW len, NEW E, Lists(old, len, E), NEW n, Sized(n),
         IsFiniteSet(E), Cardinality(E) < M!Length[n]
  PROVE  Keeps(M!Moved(old, n), n, E) /\ Robin(M!Moved(old, n), n)
<1> DEFINE x == [t |-> M!EmptyTable(n), i |-> 0]
           Held(s) == Keeps(s.t, n, Upto(old, s.i, E)) /\ Robin(s.t, n)
           S == {s \in [t : [Places(n) -> Keys \cup {NoKey}], i : 0 .. len] : Held(s)}
           F == [s \in S |-> M!MoveRound(old, s, n)]
           D == [s \in S |-> len - s.i]
           Longer(f) == [j \in 0 .. len |-> IF j = 0 THEN x ELSE M!MoveRound(old, f[j - 1], n)]
           loop == CHOOSE f : f = Longer(f)
<1>1. len \in Nat /\ E \subseteq Keys /\ DOMAIN old = 0 .. len - 1 /\ M!Length[n] \in Nat
  BY SizedIs DEF Lists
<1>2. M!Cardinality(DOMAIN old) = len
  <2>1. Cardinality(0 .. len - 1) = len
    BY <1>1, FS_Interval
  <2>2. M!Cardinality(0 .. len - 1) = Cardinality(0 .. len - 1)
    BY DEF M!Cardinality, Cardinality
  <2> QED  BY <1>1, <2>1, <2>2
<1>3. ASSUME NEW s, s = [t |-> s.t, i |-> s.i], s.i \in 0 .. len, Held(s) PROVE s \in S
  <2>1. s.t \in [Places(n) -> Upto(old, s.i, E) \cup {NoKey}]
    BY <1>3 DEF Keeps
  <2>2. Upto(old, s.i, E) \subseteq Keys
    BY <1>1 DEF Upto
  <2>3. s.t \in [Places(n) -> Keys \cup {NoKey}]
    BY <2>1, <2>2
  <2> QED  BY <1>3, <2>3
<1>4. \A s \in S : Held(s) /\ s.i \in 0 .. len
  OBVIOUS
<1>5. x \in S
  <2>1. x.t = M!EmptyTable(n) /\ x.i = 0 /\ x = [t |-> x.t, i |-> x.i]
    OBVIOUS
  <2>2. Upto(old, 0, E) = {}
    BY DEF Upto
  <2>3. Keeps(x.t, n, {}) /\ Robin(x.t, n)
    BY <2>1, EmptyKeeps
  <2> HIDE DEF x, S
  <2>4. Held(x)
    BY <2>1, <2>2, <2>3
  <2> QED  BY <1>1, <1>3, <2>1, <2>4
<1>6. ASSUME NEW s \in S
      PROVE  /\ M!MoveRound(old, s, n) \in S
             /\ s.i # len => M!MoveRound(old, s, n).i = s.i + 1
             /\ s.i = len => M!MoveRound(old, s, n) = s
  <2> DEFINE i == s.i
             k == old[i]
             u == IF k = NoKey THEN s.t ELSE M!Inserted(s.t, n, k)
             r == [t |-> u, i |-> i + 1]
  <2>1. Keeps(s.t, n, Upto(old, i, E)) /\ Robin(s.t, n) /\ i \in 0 .. len
    BY <1>4
  <2>2. M!MoveRound(old, s, n) = IF i \notin DOMAIN old THEN s ELSE r
    BY DEF M!MoveRound
  <2>3. r.t = u /\ r.i = i + 1 /\ r = [t |-> r.t, i |-> r.i]
    OBVIOUS
  <2> HIDE DEF r, S
  <2>4. CASE i = len
    <3>1. i \notin DOMAIN old
      BY <1>1, <2>4
    <3> QED  BY <2>2, <2>4, <3>1
  <2>5. CASE i # len
    <3>1. i \in 0 .. len - 1 /\ i + 1 \in 0 .. len
      BY <1>1, <2>1, <2>5
    <3>2. Keeps(u, n, Upto(old, i + 1, E)) /\ Robin(u, n)
      <4>1. CASE k = NoKey
        <5>1. Upto(old, i + 1, E) = Upto(old, i, E)
          BY <3>1, <4>1, UptoIs
        <5> QED  BY <2>1, <4>1, <5>1
      <4>2. CASE k # NoKey
        <5>1. /\ k \in Keys /\ k \notin Upto(old, i, E)
              /\ Upto(old, i + 1, E) = Upto(old, i, E) \cup {k}
          BY <3>1, <4>2, UptoIs
        <5>2. Upto(old, i, E) \in SUBSET E
          BY DEF Upto
        <5>3. IsFiniteSet(Upto(old, i, E)) /\ Cardinality(Upto(old, i, E)) <= Cardinality(E)
          BY <5>2, FS_Subset
        <5>4. Cardinality(Upto(old, i, E)) \in Nat /\ Cardinality(E) \in Nat
          BY <5>3, FS_CardinalityType
        <5>5. Cardinality(Upto(old, i, E)) < M!Length[n]
          BY <1>1, <5>3, <5>4
        <5>6. PICK z \in Places(n) : s.t[z] = NoKey
          BY <2>1, <5>3, <5>5, RoomIs
        <5> HIDE DEF k
        <5>7. /\ Keeps(M!Inserted(s.t, n, k), n, Upto(old, i, E) \cup {k})
              /\ Robin(M!Inserted(s.t, n, k), n)
          BY <2>1, <5>1, <5>6, InsertedIs
        <5> QED  BY <4>2, <5>1, <5>7
      <4> QED  BY <4>1, <4>2
    <3> HIDE DEF u, i
    <3>3. Held(r)
      BY <2>3, <3>2
    <3> HIDE DEF Held
    <3>4. r \in S
      BY <1>3, <2>3, <3>1, <3>3
    <3>5. M!MoveRound(old, s, n) = r
      BY <1>1, <2>2, <3>1
    <3> QED  BY <2>3, <2>5, <3>4, <3>5 DEF i
  <2> QED  BY <2>4, <2>5
<1> HIDE DEF S, x
<1>7. F \in [S -> S] /\ D \in [S -> Nat] /\ D[x] <= len
  <2>1. \A s \in S : len - s.i \in Nat /\ len - s.i <= len
    BY <1>1, <1>4
  <2>2. F \in [S -> S]
    BY <1>6
  <2> QED  BY <1>5, <2>1, <2>2
<1>8. ASSUME NEW s \in S, F[s] # s PROVE D[F[s]] < D[s]
  <2>1. F[s] = M!MoveRound(old, s, n) /\ F[s] \in S /\ s.i \in 0 .. len /\ F[s].i \in 0 .. len
    BY <1>4, <1>6
  <2>2. F[s].i = s.i + 1
    BY <1>6, <1>8, <2>1
  <2>3. D[F[s]] = len - F[s].i /\ D[s] = len - s.i
    <3> HIDE DEF F
    <3> QED  BY <2>1
  <2> HIDE DEF F, D
  <2> QED  BY <1>1, <2>1, <2>2, <2>3
<1>9. PICK g \in [0 .. len -> S] : Rounds(g, F, x, len)
  <2> HIDE DEF F
  <2> QED  BY <1>1, <1>5, <1>7, RoundsExist
<1>10. g = Longer(g)
  <2>1. ASSUME NEW j \in 0 .. len PROVE g[j] = IF j = 0 THEN x ELSE M!MoveRound(old, g[j - 1], n)
    <3>1. j # 0 => j \in 1 .. len /\ j - 1 \in 0 .. len
      BY <1>1
    <3> QED  BY <1>9, <3>1 DEF Rounds
  <2> QED  BY <2>1
<1>11. loop = Longer(loop)
  BY <1>10
<1>12. M!Moved(old, n) = loop[len].t
  BY <1>2 DEF M!Moved, x
<1> HIDE DEF loop
<1>13. Loops(loop, S, F, x, len)
  <2>1. loop[0] = x
    BY <1>1, <1>11
  <2>2. ASSUME NEW j \in 1 .. len, loop[j - 1] \in S PROVE loop[j] = F[loop[j - 1]]
    <3>1. j \in 0 .. len /\ j # 0
      BY <1>1
    <3>2. loop[j] = M!MoveRound(old, loop[j - 1], n)
      BY <1>11, <3>1
    <3> QED  BY <2>2, <3>2
  <2> QED  BY <2>1, <2>2 DEF Loops
<1> DEFINE end == loop[len]
<1>14. end \in S /\ F[end] = end
  <2> HIDE DEF F, D
  <2>1. Lessens(S, F, D)
    BY <1>7, <1>8 DEF Lessens
  <2> QED  BY <1>1, <1>5, <1>7, <1>13, <2>1, LoopEnds
<1>15. M!MoveRound(old, end, n) = end
  BY <1>14
<1> HIDE DEF end, F
<1>16. end.i = len
  <2>1. end.i \in 0 .. len
    BY <1>4, <1>14
  <2> QED  BY <1>1, <1>6, <1>14, <1>15, <2>1
<1>17. Upto(old, len, E) = E
  BY DEF Upto, Lists
<1>18. Keeps(end.t, n, E) /\ Robin(end.t, n)
  BY <1>4, <1>14, <1>16, <1>17
<1> QED  BY <1>12, <1>18 DEF end

-----------------------------------------------------------------------------
(* The map holds what an ideal one would                                   *)

(***************************************************************************)
(* What keeps every key within reach: no entry is much farther from home   *)
(* than the one before it, and of four buckets at most three are taken.    *)
(***************************************************************************)
MapInv ==
  /\ Hashed /\ stored \subseteq Keys /\ IsFiniteSet(stored) /\ entries = Cardinality(stored)
  /\ \/ bits = 0 /\ buckets = <<>> /\ stored = {}
     \/ Keeps(buckets, bits, stored) /\ Robin(buckets, bits) /\ entries * 4 <= M!Length[bits] * 3

LEMMA MapInvNext ==
  ASSUME MapInv, hash' = hash, NEW u, NEW n, NEW E, E \subseteq Keys, IsFiniteSet(E),
         Keeps(u, n, E), Robin(u, n), Cardinality(E) * 4 <= M!Length[n] * 3,
         buckets' = u, bits' = n, stored' = E, entries' = Cardinality(E)
  PROVE  MapInv'
<1>1. Hashed'
  BY DEF MapInv, Hashed
<1>2. Keeps(buckets, bits, stored)'
  BY DEF Keeps, Sized, Places
<1>3. Robin(buckets, bits)'
  BY DEF Robin, RobinAt, Far, M!Distance, M!Home, Places, Before
<1> QED  BY <1>1, <1>2, <1>3 DEF MapInv

LEMMA MapStarts == M!Init => MapInv
BY FS_EmptySet DEF M!Init, MapInv, Hashed

\* A key that the map does not hold is added to it.
LEMMA InsertKeepsMap == ASSUME MapInv, NEW k \in Keys, M!Insert(k) PROVE MapInv'
<1> DEFINE full == (entries + 1) * 4 > M!Cardinality(DOMAIN buckets) * 3
           n == IF ~full THEN bits ELSE IF bits = 0 THEN InitialBits ELSE bits + 1
           t == IF full THEN M!Moved(buckets, n) ELSE buckets
           done == M!Inserted(t, n, k)
<1>1. /\ n <= HashBits /\ bits' = n /\ hash' = hash
      /\ IF done = <<>> THEN buckets' = t /\ entries' = entries /\ stored' = stored
         ELSE buckets' = done /\ entries' = entries + 1 /\ stored' = stored \cup {k}
  BY DEF M!Insert
<1>2. /\ Hashed /\ stored \subseteq Keys /\ IsFiniteSet(stored) /\ entries = Cardinality(stored)
      /\ entries \in Nat /\ HashBits \in Nat /\ InitialBits \in Nat \ {0}
  BY FS_CardinalityType, MapAssumed DEF MapInv, M!MapAssumption
<1>3. /\ Sized(n) /\ Keeps(t, n, stored) /\ Robin(t, n)
      /\ (entries + 1) * 4 <= M!Length[n] * 3
  <2>1. CASE bits = 0 /\ buckets = <<>> /\ stored = {}
    <3>1. DOMAIN buckets = {} /\ M!Cardinality({}) = Cardinality({})
      BY <2>1 DEF M!Cardinality, Cardinality
    <3>2. full /\ entries = 0
      BY <1>2, <2>1, <3>1, FS_EmptySet
    <3>3. n = InitialBits /\ t = M!Moved(buckets, n) /\ Sized(n)
      BY <1>1, <1>2, <2>1, <3>2 DEF Sized
    <3> HIDE DEF n, t
    <3>4. M!Length[n] \in Nat /\ M!Length[n] >= 2
      BY <3>3, SizedIs
    <3>5. Lists(buckets, 0, stored)
      BY <2>1, <3>1 DEF Lists
    <3>6. Keeps(t, n, stored) /\ Robin(t, n)
      <4>1. Cardinality(stored) < M!Length[n]
        BY <1>2, <3>2, <3>4
      <4> QED  BY <1>2, <3>3, <3>5, <4>1, MovedIs
    <3> QED  BY <3>2, <3>3, <3>4, <3>6
  <2>2. CASE Keeps(buckets, bits, stored) /\ Robin(buckets, bits) /\ entries * 4 <= M!Length[bits] * 3
    <3> DEFINE N == M!Length[bits]
    <3>1. Sized(bits) /\ bits \in 0 .. HashBits /\ bits # 0 /\ N \in Nat /\ N >= 2
      BY <2>2, SizedIs DEF Keeps
    <3>2. DOMAIN buckets = 0 .. N - 1
      BY <2>2 DEF Keeps, Places
    <3>3. M!Cardinality(DOMAIN buckets) = N
      <4>1. Cardinality(0 .. N - 1) = N
        BY <3>1, FS_Interval
      <4>2. M!Cardinality(0 .. N - 1) = Cardinality(0 .. N - 1)
        BY DEF M!Cardinality, Cardinality
      <4> QED  BY <3>2, <4>1, <4>2
    <3>4. CASE full
      <4>1. n = bits + 1 /\ t = M!Moved(buckets, n)
        BY <3>1, <3>4
      <4>2. Sized(n) /\ n \in 0 .. HashBits /\ n # 0 /\ n - 1 = bits
        BY <1>1, <1>2, <3>1, <4>1 DEF Sized
      <4> HIDE DEF n, t, full, N
      <4>3. M!Length[n] = 2 * N
        BY <4>2, LengthsAre DEF N
      <4>4. (entries + 1) * 4 <= M!Length[n] * 3 /\ entries < M!Length[n]
        <5>1. entries * 4 <= N * 3
          BY <2>2 DEF N
        <5> QED  BY <1>2, <3>1, <4>3, <5>1
      <4>5. Lists(buckets, N, stored)
        BY <1>2, <2>2, <3>1 DEF Lists, Keeps, Places, N
      <4>6. Keeps(t, n, stored) /\ Robin(t, n)
        BY <1>2, <4>1, <4>2, <4>4, <4>5, MovedIs
      <4> QED  BY <4>2, <4>4, <4>6
    <3>5. CASE ~full
      <4>1. n = bits /\ t = buckets
        BY <3>5
      <4>2. ~ ((entries + 1) * 4 > N * 3)
        BY <3>3, <3>5
      <4> HIDE DEF n, t, full
      <4>3. (entries + 1) * 4 <= M!Length[n] * 3
        BY <1>2, <3>1, <4>1, <4>2
      <4> QED  BY <2>2, <3>1, <4>1, <4>3
    <3> QED  BY <3>4, <3>5
  <2> QED  BY <2>1, <2>2 DEF MapInv
<1> HIDE DEF n, t, full
<1>4. M!Length[n] \in Nat /\ M!Length[n] >= 2
  BY <1>3, SizedIs
<1>5. CASE k \in stored
  <2>1. done = <<>>
    BY <1>2, <1>3, <1>5, DuplicateIs
  <2>2. bits' = n /\ hash' = hash /\ buckets' = t /\ entries' = entries /\ stored' = stored
    BY <1>1, <2>1
  <2>3. entries * 4 <= M!Length[n] * 3
    BY <1>2, <1>3, <1>4
  <2> QED  BY <1>2, <1>3, <2>2, <2>3, MapInvNext
<1>6. CASE k \notin stored
  <2>1. PICK z \in Places(n) : t[z] = NoKey
    <3>1. entries < M!Length[n]
      BY <1>2, <1>3, <1>4
    <3> QED  BY <1>2, <1>3, <3>1, RoomIs
  <2>2. Keeps(done, n, stored \cup {k}) /\ Robin(done, n)
    BY <1>2, <1>3, <1>6, <2>1, InsertedIs
  <2> HIDE DEF done
  <2>3. done # <<>>
    <3>1. DOMAIN done = 0 .. M!Length[n] - 1
      BY <2>2 DEF Keeps, Places
    <3>2. 0 \in DOMAIN done
      BY <1>4, <3>1
    <3> QED  BY <3>2
  <2>4. bits' = n /\ hash' = hash /\ buckets' = done /\ entries' = entries + 1 /\ stored' = stored \cup {k}
    BY <1>1, <2>3
  <2>5. IsFiniteSet(stored \cup {k}) /\ Cardinality(stored \cup {k}) = entries + 1
    BY <1>2, <1>6, FS_AddElement
  <2>6. stored \cup {k} \subseteq Keys
    BY <1>2
  <2> QED  BY <1>3, <2>2, <2>4, <2>5, <2>6, MapInvNext
<1> QED  BY <1>5, <1>6

LEMMA RemoveKeepsMap == ASSUME MapInv, NEW k \in Keys, M!Remove(k) PROVE MapInv'
<1>1. PICK i \in M!Find(k) : buckets' = M!ShiftBack([buckets EXCEPT ![i] = NoKey], bits, i)
  BY DEF M!Remove
<1>2. entries' = entries - 1 /\ stored' = stored \ {k} /\ hash' = hash /\ bits' = bits
  BY DEF M!Remove
<1>3. entries # 0
  BY <1>1 DEF M!Find
<1>4. Hashed /\ stored \subseteq Keys /\ IsFiniteSet(stored) /\ entries = Cardinality(stored) /\ entries \in Nat
  BY FS_CardinalityType DEF MapInv
<1>5. Keeps(buckets, bits, stored) /\ Robin(buckets, bits) /\ entries * 4 <= M!Length[bits] * 3
  BY <1>3, FS_EmptySet DEF MapInv
<1>6. M!Length[bits] \in Nat /\ M!Length[bits] >= 2
  BY <1>5, SizedIs DEF Keeps
<1>7. i \in Places(bits) /\ buckets[i] = k /\ k # NoKey /\ k \in stored
  BY <1>1, <1>3, <1>4, <1>5, SearchIs, NoKeyIs
<1>8. PICK z \in Places(bits) : buckets[z] = NoKey
  <2>1. Cardinality(stored) < M!Length[bits]
    BY <1>4, <1>5, <1>6
  <2> QED  BY <1>4, <1>5, <2>1, RoomIs
<1>9. Keeps(buckets', bits, stored \ {k}) /\ Robin(buckets', bits)
  BY <1>1, <1>4, <1>5, <1>7, <1>8, ShiftedBackIs
<1>10. IsFiniteSet(stored \ {k}) /\ Cardinality(stored \ {k}) = entries - 1 /\ stored \ {k} \subseteq Keys
  BY <1>4, <1>7, FS_RemoveElement
<1>11. Cardinality(stored \ {k}) * 4 <= M!Length[bits] * 3
  BY <1>4, <1>5, <1>6, <1>10
<1> QED  BY <1>2, <1>9, <1>10, <1>11, MapInvNext

LEMMA ClearKeepsMap == ASSUME MapInv, M!Clear PROVE MapInv'
<1>1. bits # 0 /\ buckets' = M!EmptyTable(bits) /\ entries' = 0 /\ stored' = {} /\ hash' = hash /\ bits' = bits
  BY DEF M!Clear
<1>2. Keeps(buckets, bits, stored)
  BY <1>1 DEF MapInv
<1>3. Sized(bits) /\ M!Length[bits] \in Nat
  BY <1>2, SizedIs DEF Keeps
<1>4. Keeps(M!EmptyTable(bits), bits, {}) /\ Robin(M!EmptyTable(bits), bits)
  BY <1>3, EmptyKeeps
<1>5. IsFiniteSet({}) /\ Cardinality({}) = 0 /\ 0 * 4 <= M!Length[bits] * 3
  BY <1>3, FS_EmptySet
<1> QED  BY <1>1, <1>4, <1>5, MapInvNext

LEMMA MapKeeps == MapInv /\ [M!Next]_(M!mapVars) => MapInv'
<1> SUFFICES ASSUME MapInv, [M!Next]_(M!mapVars) PROVE MapInv'
  OBVIOUS
<1>1. ASSUME NEW k \in Keys, M!Insert(k) PROVE MapInv'
  BY <1>1, InsertKeepsMap
<1>2. ASSUME NEW k \in Keys, M!Remove(k) PROVE MapInv'
  BY <1>2, RemoveKeepsMap
<1>3. ASSUME M!Clear PROVE MapInv'
  BY <1>3, ClearKeepsMap
<1>4. CASE UNCHANGED M!mapVars
  <2>1. hash' = hash /\ bits' = bits /\ buckets' = buckets /\ entries' = entries /\ stored' = stored
    BY <1>4 DEF M!mapVars
  <2>2. CASE bits = 0 /\ buckets = <<>> /\ stored = {}
    BY <2>1, <2>2 DEF MapInv, Hashed
  <2>3. CASE Keeps(buckets, bits, stored) /\ Robin(buckets, bits) /\ entries * 4 <= M!Length[bits] * 3
    <3>1. stored \subseteq Keys /\ IsFiniteSet(stored) /\ entries = Cardinality(stored)
      BY DEF MapInv
    <3> QED  BY <2>1, <2>3, <3>1, MapInvNext
  <2> QED  BY <2>2, <2>3 DEF MapInv
<1> QED  BY <1>1, <1>2, <1>3, <1>4 DEF M!Next

LEMMA MapInvFinds == MapInv => M!FindsStored
<1> SUFFICES ASSUME MapInv PROVE M!FindsStored
  OBVIOUS
<1>1. Hashed /\ IsFiniteSet(stored) /\ entries = Cardinality(stored) /\ entries \in Nat
  BY FS_CardinalityType DEF MapInv
<1>2. ASSUME NEW k \in Keys PROVE M!Find(k) # {} <=> k \in stored
  <2>1. CASE entries = 0
    <3>1. M!Find(k) = {} /\ stored = {}
      BY <1>1, <2>1, FS_EmptySet DEF M!Find
    <3> QED  BY <3>1
  <2>2. CASE entries # 0
    <3>1. Keeps(buckets, bits, stored) /\ Robin(buckets, bits)
      BY <1>1, <2>2, FS_EmptySet DEF MapInv
    <3> QED  BY <1>1, <2>2, <3>1, SearchIs
  <2> QED  BY <2>1, <2>2
<1>3. entries = M!Cardinality(stored)
  <2>1. M!Cardinality(stored) = Cardinality(stored)
    BY DEF M!Cardinality, Cardinality
  <2> QED  BY <1>1, <2>1
<1>4. ASSUME bits # 0 PROVE \E i \in DOMAIN buckets : buckets[i] = NoKey
  <2>1. Keeps(buckets, bits, stored) /\ entries * 4 <= M!Length[bits] * 3
    BY <1>4 DEF MapInv
  <2>2. M!Length[bits] \in Nat /\ M!Length[bits] >= 2 /\ DOMAIN buckets = Places(bits)
    BY <2>1, SizedIs DEF Keeps
  <2>3. Cardinality(stored) < M!Length[bits]
    BY <1>1, <2>1, <2>2
  <2> QED  BY <1>1, <2>1, <2>2, <2>3, RoomIs
<1> QED  BY <1>2, <1>3, <1>4 DEF M!FindsStored

\* Whatever keys there are and however they collide, a session finds the streams that it
\* keeps and no other, the map's size is their number, and there is an empty bucket, where
\* the loops end.
THEOREM MapIsExact == M!Spec => []M!FindsStored
<1>1. M!Spec => []MapInv
  BY MapStarts, MapKeeps, PTL DEF M!Spec
<1> QED  BY <1>1, MapInvFinds, PTL

\* Both containers of a session, as each instance of Http2Parts runs them, keep to what an
\* ideal map and an ideal queue hold (nghttp2_map.c and nghttp2_pq.c).
THEOREM ContainersAreExact == M!Spec /\ Q!Spec => []ContainersExact
<1>1. M!Spec => []M!FindsStored
  BY MapIsExact
<1>2. Q!Spec => []Q!HeapInOrder
  BY QueueKeepsOrder
<1>3. M!FindsStored /\ Q!HeapInOrder => ContainersExact
  BY DEF ContainersExact
<1> QED  BY <1>1, <1>2, <1>3, PTL
=============================================================================
