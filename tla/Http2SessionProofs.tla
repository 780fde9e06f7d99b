------------------------- MODULE Http2SessionProofs -------------------------
(***************************************************************************)
(* The session of the vendored nghttp2, for any requests, promises,        *)
(* windows and settings, whatever the server sends that is wrong, and      *)
(* whatever crosses on the way: a request that is reported as refused was  *)
(* never processed, no unit of data is lost while the session goes on, no  *)
(* DATA frame is larger than the windows that the server has given, and    *)
(* there are never more streams than it takes.                             *)
(***************************************************************************)
EXTENDS Http2Session, FiniteSetTheorems, SequenceTheorems, WellFoundedInduction, TLAPS

-----------------------------------------------------------------------------
(* The inductive invariant                                                 *)

IsSequence(q) == q \in Seq({q[k] : k \in DOMAIN q})

\* Requests wait nowhere but in syn.
Plain(q) == IsSequence(q) /\ \A k \in DOMAIN q : q[k].type # "headers"

SessionFields ==
  {"streams", "urgent", "reg", "syn", "aob", "left", "out", "in", "reserved", "goaway", "ignoring",
   "failed", "lastSent", "lastRecv", "lastProc", "remoteLast", "limit", "initial", "window",
   "recvd", "updating", "acks", "inflight", "closed", "finished"}

Shape(s) == DOMAIN s = SessionFields /\ Plain(s.urgent) /\ Plain(s.reg)

ServerFields ==
  {"mode", "pending", "limit", "initial", "window", "windows", "credit", "credits", "phase", "done",
   "processed", "got", "sent", "last", "overrun", "crowded"}

ServerShape ==
  DOMAIN server = ServerFields /\ DOMAIN server.phase = Ids /\ server.last \in Nat

\* Each request waits once, in the order of their numbers.
InLine(s) ==
  /\ IsSequence(s.syn)
  /\ \A k \in DOMAIN s.syn : s.syn[k].type = "headers" /\ s.syn[k].id \in Requests
  /\ \A j, k \in DOMAIN s.syn : j < k => s.syn[j].id < s.syn[k].id
  /\ s.aob.type = "headers" =>
       s.aob.id \in Requests /\ \A k \in DOMAIN s.syn : s.aob.id < s.syn[k].id

Unsent(s, i) ==
  \/ s.aob.type = "headers" /\ s.aob.id = i
  \/ \E k \in DOMAIN s.syn : s.syn[k].id = i

\* What is not sent the server does not know; what it refuses by its last stream it has not begun.
ServerKnows ==
  \A i \in Requests :
    /\ Unsent(c, i) => server.phase[i] \in {"idle", "reset"} /\ i \notin server.processed
    /\ server.phase[i] = "open" => i \notin server.processed
    /\ server.phase[i] # "promised"
    /\ i > server.last => i \notin server.processed /\ server.phase[i] # "open"

\* The server has not begun request i and never will.
Never(i) ==
  /\ i \notin server.processed /\ server.phase[i] # "open"
  /\ Unsent(c, i) => i > server.last

Truthful(f) ==
  /\ f.type = "rst" /\ f.why = "refused" /\ f.id \in Requests => Never(f.id)
  /\ f.type = "goaway" => f.id \in Nat /\ (f.id = 0 \/ IsMine(f.id) => server.last <= f.id)

OnTheWay == IsSequence(down) /\ \A k \in DOMAIN down : Truthful(down[k])

RefusedNever == \A i \in Requests : c.closed[i] = "refused" => Never(i)

IInv == Shape(c) /\ ServerShape /\ InLine(c) /\ ServerKnows /\ OnTheWay /\ RefusedNever

-----------------------------------------------------------------------------
(* Sequences                                                               *)

LEMMA SequenceIs ==
  ASSUME NEW S, NEW q \in Seq(S)
  PROVE  IsSequence(q)
<1>1. q = [k \in 1 .. Len(q) |-> q[k]] /\ Len(q) \in Nat /\ DOMAIN q = 1 .. Len(q)
  OBVIOUS
<1> QED  BY <1>1 DEF IsSequence

LEMMA SequenceFacts ==
  ASSUME NEW q, IsSequence(q)
  PROVE  Len(q) \in Nat /\ DOMAIN q = 1 .. Len(q)
BY DEF IsSequence

LEMMA Appended ==
  ASSUME NEW q, IsSequence(q), NEW x
  PROVE  /\ IsSequence(Append(q, x)) /\ DOMAIN Append(q, x) = 1 .. Len(q) + 1
         /\ \A k \in 1 .. Len(q) : Append(q, x)[k] = q[k]
         /\ Append(q, x)[Len(q) + 1] = x
<1> DEFINE S == {q[k] : k \in DOMAIN q} \cup {x}
<1>1. q \in Seq(S) /\ x \in S
  BY DEF IsSequence
<1>2. Append(q, x) \in Seq(S)
  BY <1>1
<1>3. IsSequence(Append(q, x))
  BY <1>2, SequenceIs
<1> QED  BY <1>1, <1>3

LEMMA TailIs ==
  ASSUME NEW q, IsSequence(q), q # <<>>
  PROVE  /\ IsSequence(Tail(q)) /\ Len(q) \in Nat \ {0} /\ DOMAIN Tail(q) = 1 .. Len(q) - 1
         /\ \A k \in 1 .. Len(q) - 1 : Tail(q)[k] = q[k + 1] /\ k + 1 \in DOMAIN q
         /\ Head(q) = q[1] /\ 1 \in DOMAIN q
<1>1. q \in Seq({q[k] : k \in DOMAIN q})
  BY DEF IsSequence
<1>2. Tail(q) \in Seq({q[k] : k \in DOMAIN q})
  BY <1>1
<1>3. IsSequence(Tail(q))
  BY <1>2, SequenceIs
<1> QED  BY <1>1, <1>3

LEMMA Joined ==
  ASSUME NEW q, IsSequence(q), NEW r, IsSequence(r)
  PROVE  /\ IsSequence(q \o r) /\ DOMAIN (q \o r) = 1 .. Len(q) + Len(r)
         /\ \A k \in 1 .. Len(q) : (q \o r)[k] = q[k]
         /\ \A k \in 1 .. Len(q) + Len(r) : k > Len(q) => (q \o r)[k] = r[k - Len(q)]
<1> DEFINE S == {q[k] : k \in DOMAIN q} \cup {r[k] : k \in DOMAIN r}
<1>1. q \in Seq(S) /\ r \in Seq(S)
  BY DEF IsSequence
<1>2. q \o r \in Seq(S)
  BY <1>1
<1>3. IsSequence(q \o r)
  BY <1>2, SequenceIs
<1> QED  BY <1>1, <1>3

LEMMA AppendedIs ==
  ASSUME NEW q, IsSequence(q), NEW x
  PROVE  /\ IsSequence(Append(q, x))
         /\ \A k \in DOMAIN Append(q, x) :
              \/ Append(q, x)[k] = x
              \/ k \in DOMAIN q /\ Append(q, x)[k] = q[k]
<1>1. Len(q) \in Nat /\ DOMAIN q = 1 .. Len(q)
  BY SequenceFacts
<1>2. /\ IsSequence(Append(q, x)) /\ DOMAIN Append(q, x) = 1 .. Len(q) + 1
      /\ \A k \in 1 .. Len(q) : Append(q, x)[k] = q[k]
      /\ Append(q, x)[Len(q) + 1] = x
  BY Appended
<1>3. \A k \in 1 .. Len(q) + 1 : k \in 1 .. Len(q) \/ k = Len(q) + 1
  BY <1>1
<1> QED  BY <1>1, <1>2, <1>3

LEMMA PlainAppended ==
  ASSUME NEW q, Plain(q), NEW f, f.type # "headers"
  PROVE  Plain(Append(q, f))
BY AppendedIs DEF Plain

LEMMA PlainTail ==
  ASSUME NEW q, Plain(q), q # <<>>
  PROVE  Plain(Tail(q)) /\ Head(q).type # "headers"
<1>1. /\ IsSequence(Tail(q)) /\ Len(q) \in Nat \ {0} /\ DOMAIN Tail(q) = 1 .. Len(q) - 1
      /\ \A k \in 1 .. Len(q) - 1 : Tail(q)[k] = q[k + 1] /\ k + 1 \in DOMAIN q
      /\ Head(q) = q[1] /\ 1 \in DOMAIN q
  BY TailIs DEF Plain
<1> QED  BY <1>1 DEF Plain

-----------------------------------------------------------------------------
(* What the operations on a session do to its requests                     *)

(***************************************************************************)
(* s leads to t: no request begins to wait or is sent, and only requests   *)
(* of R are reported as refused.                                           *)
(***************************************************************************)
Leads(s, t, R) ==
  /\ Shape(t) /\ t.syn = s.syn /\ t.aob = s.aob
  /\ \A i \in Requests : t.closed[i] = "refused" => s.closed[i] = "refused" \/ i \in R

LEMMA LeadsOn ==
  ASSUME NEW s, NEW t, NEW u, NEW R, Leads(s, t, {}), Leads(t, u, R)
  PROVE  Leads(s, u, R)
BY DEF Leads

LEMMA Stays == ASSUME NEW s, Shape(s) PROVE Leads(s, s, {})
BY DEF Leads

(***************************************************************************)
(* A session that differs in nothing that a request waits in.              *)
(***************************************************************************)
LEMMA Alike ==
  ASSUME NEW s, Shape(s), NEW t, DOMAIN t = DOMAIN s,
         t.syn = s.syn, t.aob = s.aob, t.closed = s.closed, t.urgent = s.urgent, t.reg = s.reg
  PROVE  Leads(s, t, {})
BY DEF Leads, Shape

LEMMA Queued ==
  ASSUME NEW s, Shape(s), NEW f, f.type # "headers", NEW t, DOMAIN t = DOMAIN s,
         t.syn = s.syn, t.aob = s.aob, t.closed = s.closed, t.urgent = s.urgent,
         t.reg = Append(s.reg, f)
  PROVE  Leads(s, t, {})
<1>1. Plain(t.reg)
  BY PlainAppended DEF Shape
<1> QED  BY <1>1 DEF Leads, Shape

LEMMA ParityIs ==
  /\ \A i \in Promises : i \in Int /\ ~ IsMine(i) /\ i \notin Requests
  /\ \A i \in Requests : i \in Nat /\ IsMine(i)
<1>1. Requests \subseteq {i \in 1 .. 9 : i % 2 = 1} /\ Promises \subseteq {i \in 1 .. 9 : i % 2 = 0}
  BY SessionAssumed DEF SessionAssumption
<1> QED  BY <1>1 DEF IsMine

LEMMA CloseAllLeads ==
  ASSUME NEW s, Shape(s), NEW ids, NEW why
  PROVE  Leads(s, CloseAll(s, ids, why), IF why = "refused" THEN ids ELSE {})
<1> DEFINE t == CloseAll(s, ids, why)
<1>1. DOMAIN t = DOMAIN s
  BY DEF CloseAll
<1>2. t.syn = s.syn /\ t.aob = s.aob /\ t.urgent = s.urgent /\ t.reg = s.reg
  BY DEF CloseAll, Shape, SessionFields
<1>3. t.closed = [i \in Ids |-> IF i \in ids THEN why ELSE s.closed[i]]
  BY DEF CloseAll, Shape, SessionFields
<1>4. \A i \in Requests : t.closed[i] = IF i \in ids THEN why ELSE s.closed[i]
  BY <1>3 DEF Ids
<1>5. Shape(t)
  BY <1>1, <1>2 DEF Shape
<1> HIDE DEF t
<1>6. CASE why = "refused"
  BY <1>2, <1>4, <1>5, <1>6 DEF Leads, t
<1>7. CASE why # "refused"
  BY <1>2, <1>4, <1>5, <1>7 DEF Leads, t
<1> QED  BY <1>6, <1>7

LEMMA CloseLeads ==
  ASSUME NEW s, Shape(s), NEW i, NEW why
  PROVE  Leads(s, Close(s, i, why), IF why = "refused" THEN {i} ELSE {})
BY CloseAllLeads, Stays DEF Close, Leads

LEMMA ShutLeads ==
  ASSUME NEW s, Shape(s), NEW i, NEW flag
  PROVE  Leads(s, Shut(s, i, flag), {})
<1> DEFINE t == Shut(s, i, flag)
<1>1. /\ DOMAIN t = DOMAIN s /\ t.syn = s.syn /\ t.aob = s.aob /\ t.closed = s.closed
      /\ t.urgent = s.urgent /\ t.reg = s.reg
  BY DEF Shut, Shape, SessionFields
<1> HIDE DEF t
<1> QED  BY <1>1, Alike DEF t

LEMMA ShutAndCloseLeads ==
  ASSUME NEW s, Shape(s), NEW i, NEW flag
  PROVE  Leads(s, ShutAndClose(s, i, flag), {})
<1> DEFINE t == Shut(s, i, flag)
<1>1. Leads(s, t, {}) /\ Shape(t)
  BY ShutLeads DEF Leads
<1>2. Leads(t, Close(t, i, "done"), {})
  BY <1>1, CloseLeads
<1>3. ShutAndClose(s, i, flag) \in {t, Close(t, i, "done")}
  BY DEF ShutAndClose
<1> HIDE DEF t
<1> QED  BY <1>1, <1>2, <1>3, LeadsOn

LEMMA OpenLeads ==
  ASSUME NEW s, Shape(s), NEW i, NEW state, NEW flags
  PROVE  Leads(s, Open(s, i, state, flags), {})
<1> DEFINE t == Open(s, i, state, flags)
<1>1. /\ DOMAIN t = DOMAIN s /\ t.syn = s.syn /\ t.aob = s.aob /\ t.closed = s.closed
      /\ t.urgent = s.urgent /\ t.reg = s.reg
  BY DEF Open, Shape, SessionFields
<1> HIDE DEF t
<1> QED  BY <1>1, Alike DEF t

LEMMA AddRstLeads ==
  ASSUME NEW s, Shape(s), NEW i
  PROVE  Leads(s, AddRst(s, i), {})
<1> DEFINE t == [s EXCEPT !.streams[i].state = IF Exists(s, i) THEN "CLOSING" ELSE @,
                          !.reg = Append(@, Frame("rst", i))]
<1>1. /\ DOMAIN t = DOMAIN s /\ t.syn = s.syn /\ t.aob = s.aob /\ t.closed = s.closed
      /\ t.urgent = s.urgent /\ t.reg = Append(s.reg, Frame("rst", i))
  BY DEF Shape, SessionFields
<1>2. Frame("rst", i).type # "headers"
  BY DEF Frame
<1>3. AddRst(s, i) \in {s, t}
  BY DEF AddRst
<1> HIDE DEF t
<1>4. Leads(s, t, {})
  BY <1>1, <1>2, Queued
<1> QED  BY <1>3, <1>4, Stays

LEMMA TerminateLeads ==
  ASSUME NEW s, Shape(s)
  PROVE  Leads(s, Terminate(s), {})
<1> DEFINE t == [s EXCEPT !.ignoring = TRUE, !.goaway = @ \cup {"TERM_ON_SEND"},
                          !.reg = Append(@, Frame("goaway", s.lastProc))]
<1>1. /\ DOMAIN t = DOMAIN s /\ t.syn = s.syn /\ t.aob = s.aob /\ t.closed = s.closed
      /\ t.urgent = s.urgent /\ t.reg = Append(s.reg, Frame("goaway", s.lastProc))
  BY DEF Shape, SessionFields
<1>2. Frame("goaway", s.lastProc).type # "headers"
  BY DEF Frame
<1>3. Terminate(s) \in {s, t}
  BY DEF Terminate
<1> HIDE DEF t
<1>4. Leads(s, t, {})
  BY <1>1, <1>2, Queued
<1> QED  BY <1>3, <1>4, Stays

LEMMA AddAckLeads ==
  ASSUME NEW s, Shape(s), NEW type, type # "headers"
  PROVE  Leads(s, AddAck(s, type), {})
<1> DEFINE t == [s EXCEPT !.failed = TRUE]
           u == [s EXCEPT !.acks = @ + 1, !.urgent = Append(@, Frame(type, 0))]
<1>1. /\ DOMAIN t = DOMAIN s /\ t.syn = s.syn /\ t.aob = s.aob /\ t.closed = s.closed
      /\ t.urgent = s.urgent /\ t.reg = s.reg
  BY DEF Shape, SessionFields
<1>2. /\ DOMAIN u = DOMAIN s /\ u.syn = s.syn /\ u.aob = s.aob /\ u.closed = s.closed
      /\ u.urgent = Append(s.urgent, Frame(type, 0)) /\ u.reg = s.reg
  BY DEF Shape, SessionFields
<1>3. Frame(type, 0).type # "headers"
  BY DEF Frame
<1>4. AddAck(s, type) \in {t, u}
  BY DEF AddAck
<1> HIDE DEF t, u
<1>5. Leads(s, t, {})
  BY <1>1, Alike
<1>6. Plain(u.urgent)
  BY <1>2, <1>3, PlainAppended DEF Shape
<1>7. Leads(s, u, {})
  BY <1>2, <1>6 DEF Leads, Shape
<1> QED  BY <1>4, <1>5, <1>7

LEMMA RecvConnectionLeads ==
  ASSUME NEW s, Shape(s), NEW n
  PROVE  Leads(s, RecvConnection(s, n), {})
<1> DEFINE t == [s EXCEPT !.updating = TRUE, !.recvd = 0,
                          !.reg = Append(@, Update(0, s.recvd + n))]
           u == [s EXCEPT !.recvd = @ + n]
<1>1. /\ DOMAIN t = DOMAIN s /\ t.syn = s.syn /\ t.aob = s.aob /\ t.closed = s.closed
      /\ t.urgent = s.urgent /\ t.reg = Append(s.reg, Update(0, s.recvd + n))
  BY DEF Shape, SessionFields
<1>2. /\ DOMAIN u = DOMAIN s /\ u.syn = s.syn /\ u.aob = s.aob /\ u.closed = s.closed
      /\ u.urgent = s.urgent /\ u.reg = s.reg
  BY DEF Shape, SessionFields
<1>3. Update(0, s.recvd + n).type # "headers"
  BY DEF Update
<1>4. RecvConnection(s, n) \in {Terminate(s), t, u}
  BY DEF RecvConnection
<1> HIDE DEF t, u
<1>5. Leads(s, t, {}) /\ Leads(s, u, {})
  BY <1>1, <1>2, <1>3, Alike, Queued
<1> QED  BY <1>4, <1>5, TerminateLeads

LEMMA RecvStreamLeads ==
  ASSUME NEW s, Shape(s), NEW i, NEW n, NEW update
  PROVE  Leads(s, RecvStream(s, i, n, update), {})
<1> DEFINE m == s.streams[i].recvd + n
           t == [s EXCEPT !.streams[i].updating = TRUE, !.streams[i].recvd = 0,
                          !.reg = Append(@, Update(i, m))]
           u == [s EXCEPT !.streams[i].recvd = @ + n]
<1>1. /\ DOMAIN t = DOMAIN s /\ t.syn = s.syn /\ t.aob = s.aob /\ t.closed = s.closed
      /\ t.urgent = s.urgent /\ t.reg = Append(s.reg, Update(i, m))
  BY DEF Shape, SessionFields
<1>2. /\ DOMAIN u = DOMAIN s /\ u.syn = s.syn /\ u.aob = s.aob /\ u.closed = s.closed
      /\ u.urgent = s.urgent /\ u.reg = s.reg
  BY DEF Shape, SessionFields
<1>3. Update(i, m).type # "headers"
  BY DEF Update
<1>4. RecvStream(s, i, n, update) \in {AddRst(s, i), t, u}
  BY DEF RecvStream
<1> HIDE DEF t, u
<1>5. Leads(s, t, {}) /\ Leads(s, u, {})
  BY <1>1, <1>2, <1>3, Alike, Queued
<1> QED  BY <1>4, <1>5, AddRstLeads

-----------------------------------------------------------------------------
(* What is done after a frame is sent                                      *)

Alikes(s, t) ==
  /\ DOMAIN t = DOMAIN s /\ t.syn = s.syn /\ t.aob = s.aob /\ t.closed = s.closed
  /\ t.urgent = s.urgent /\ t.reg = s.reg

LEMMA AlikesLead == ASSUME NEW s, Shape(s), NEW t, Alikes(s, t) PROVE Leads(s, t, {})
BY DEF Leads, Shape, Alikes

LEMMA DataSentLeads ==
  ASSUME NEW s, Shape(s), NEW f
  PROVE  Leads(s, DataSent(s, f), {})
<1> DEFINE t == [s EXCEPT !.window = @ - f.n,
                          !.streams[f.id].window = IF Exists(s, f.id) THEN @ - f.n ELSE @]
           u == [t EXCEPT !.streams[f.id].item = "none"]
<1>1. Alikes(s, t)
  BY DEF Alikes, Shape, SessionFields
<1>2. Shape(t) /\ Leads(s, t, {})
  BY <1>1, AlikesLead DEF Leads
<1>3. DataSent(s, f) \in {t, u, ShutAndClose(u, f.id, "WR")}
  BY DEF DataSent
<1> HIDE DEF t
<1>4. Alikes(t, u)
  BY <1>2 DEF Alikes, Shape, SessionFields
<1> HIDE DEF u
<1>5. Shape(u) /\ Leads(s, u, {})
  BY <1>2, <1>4, AlikesLead, LeadsOn DEF Leads
<1>6. Leads(s, ShutAndClose(u, f.id, "WR"), {})
  BY <1>5, ShutAndCloseLeads, LeadsOn
<1> QED  BY <1>2, <1>3, <1>5, <1>6

LEMMA RequestSentLeads ==
  ASSUME NEW s, Shape(s), NEW f
  PROVE  Leads(s, RequestSent(s, f), {})
<1> DEFINE t == [s EXCEPT !.streams[f.id].state = "OPENING", !.streams[f.id].item = "ready"]
<1>1. Alikes(s, t)
  BY DEF Alikes, Shape, SessionFields
<1>2. RequestSent(s, f) \in {s, t}
  BY DEF RequestSent
<1> HIDE DEF t
<1> QED  BY <1>1, <1>2, AlikesLead, Stays

LEMMA GoawaySentLeads ==
  ASSUME NEW s, Shape(s), NEW f
  PROVE  Leads(s, GoawaySent(s, f), {})
<1> DEFINE t == [s EXCEPT !.goaway = @ \cup {"TERM_SENT", "SENT"}]
           ids == {i \in Promises : Exists(t, i) /\ i > f.id}
<1>1. Alikes(s, t)
  BY DEF Alikes, Shape, SessionFields
<1>2. GoawaySent(s, f) = CloseAll(t, ids, "refused")
  BY DEF GoawaySent
<1>3. \A i \in Requests : i \notin ids
  BY ParityIs
<1> HIDE DEF t, ids
<1>4. Shape(t) /\ Leads(s, t, {})
  BY <1>1, AlikesLead DEF Leads
<1>5. Leads(t, CloseAll(t, ids, "refused"), ids)
  BY <1>4, CloseAllLeads
<1>6. Leads(t, CloseAll(t, ids, "refused"), {})
  BY <1>3, <1>5 DEF Leads
<1> QED  BY <1>2, <1>4, <1>6, LeadsOn

LEMMA UpdateSentLeads ==
  ASSUME NEW s, Shape(s), NEW f
  PROVE  Leads(s, UpdateSent(s, f), {})
<1> DEFINE t == [s EXCEPT !.updating = FALSE]
           u == [s EXCEPT !.streams[f.id].updating = FALSE]
<1>1. Alikes(s, t) /\ Alikes(s, u)
  BY DEF Alikes, Shape, SessionFields
<1>2. UpdateSent(s, f) \in {s, u, RecvConnection(t, 0), RecvStream(u, f.id, 0, TRUE)}
  BY DEF UpdateSent
<1> HIDE DEF t, u
<1>3. /\ Shape(t) /\ Leads(s, t, {})
      /\ Shape(u) /\ Leads(s, u, {})
  BY <1>1, AlikesLead DEF Leads
<1>4. Leads(s, RecvConnection(t, 0), {})
  BY <1>3, RecvConnectionLeads, LeadsOn
<1>5. Leads(s, RecvStream(u, f.id, 0, TRUE), {})
  BY <1>3, RecvStreamLeads, LeadsOn
<1> QED  BY <1>2, <1>3, <1>4, <1>5, Stays

LEMMA AfterSentLeads ==
  ASSUME NEW s0, Shape(s0)
  PROVE  Leads([s0 EXCEPT !.aob = NoFrame], AfterSent(s0), {})
<1> DEFINE f == s0.aob
           s == [s0 EXCEPT !.aob = NoFrame]
<1>1. DOMAIN s = DOMAIN s0 /\ s.urgent = s0.urgent /\ s.reg = s0.reg
  BY DEF Shape, SessionFields
<1>2. AfterSent(s0) \in {DataSent(s, f), RequestSent(s, f), Close(s, f.id, "reset"),
                         GoawaySent(s, f), UpdateSent(s, f), s}
  BY DEF AfterSent
<1> HIDE DEF f, s
<1>3. Shape(s)
  BY <1>1 DEF Shape
<1>4. Leads(s, Close(s, f.id, "reset"), {})
  BY <1>3, CloseLeads
<1>5. Leads(s, AfterSent(s0), {})
  BY <1>2, <1>3, <1>4, DataSentLeads, RequestSentLeads, GoawaySentLeads, UpdateSentLeads, Stays
<1> QED  BY <1>5 DEF s

-----------------------------------------------------------------------------
(* What is done with a frame that is received                              *)

LEMMA BlockReceivedLeads ==
  ASSUME NEW s, Shape(s), NEW f
  PROVE  Leads(s, BlockReceived(s, f), {})
<1> DEFINE t == AddRst(s, f.id)
<1>1. BlockReceived(s, f) \in {t, Shut(t, f.id, "RD"), ShutAndClose(s, f.id, "RD"), s}
  BY DEF BlockReceived
<1>2. Leads(s, t, {}) /\ Shape(t)
  BY AddRstLeads DEF Leads
<1> HIDE DEF t
<1>3. Leads(s, Shut(t, f.id, "RD"), {})
  BY <1>2, ShutLeads, LeadsOn
<1> QED  BY <1>1, <1>2, <1>3, ShutAndCloseLeads, Stays

LEMMA OnHeadersLeads ==
  ASSUME NEW s, Shape(s), NEW f
  PROVE  Leads(s, OnHeaders(s, f), {})
<1> DEFINE t == [s EXCEPT !.streams[f.id].state = "OPENED"]
           u == [t EXCEPT !.streams[f.id].push = FALSE, !.reserved = @ - 1, !.in = @ + 1]
<1>1. OnHeaders(s, f) \in {s, Terminate(s), BlockReceived(s, f), BlockReceived(t, f),
                           BlockReceived(u, f)}
  BY DEF OnHeaders
<1>2. Alikes(s, t)
  BY DEF Alikes, Shape, SessionFields
<1> HIDE DEF t
<1>3. Shape(t) /\ Leads(s, t, {})
  BY <1>2, AlikesLead DEF Leads
<1>4. Alikes(t, u)
  BY <1>3 DEF Alikes, Shape, SessionFields
<1> HIDE DEF u
<1>5. Shape(u) /\ Leads(s, u, {})
  BY <1>3, <1>4, AlikesLead, LeadsOn DEF Leads
<1>6. Leads(s, BlockReceived(t, f), {}) /\ Leads(s, BlockReceived(u, f), {})
  BY <1>3, <1>5, BlockReceivedLeads, LeadsOn
<1> QED  BY <1>1, <1>6, BlockReceivedLeads, TerminateLeads, Stays

LEMMA TakeDataLeads ==
  ASSUME NEW s, Shape(s), NEW f
  PROVE  Leads(s, TakeData(s, f), {})
<1> DEFINE t == RecvConnection(s, f.n)
           u == RecvStream(t, f.id, f.n, ~f.end)
           v == [u EXCEPT !.finished = @ \cup {f.id}]
<1>1. TakeData(s, f) \in {t, u, v, ShutAndClose(v, f.id, "RD")}
  BY DEF TakeData
<1>2. Leads(s, t, {}) /\ Shape(t)
  BY RecvConnectionLeads DEF Leads
<1> HIDE DEF t
<1>3. Leads(s, u, {}) /\ Shape(u)
  BY <1>2, RecvStreamLeads, LeadsOn DEF Leads
<1> HIDE DEF u
<1>4. Alikes(u, v)
  BY <1>3 DEF Alikes, Shape, SessionFields
<1> HIDE DEF v
<1>5. Leads(s, v, {}) /\ Shape(v)
  BY <1>3, <1>4, AlikesLead, LeadsOn DEF Leads
<1>6. Leads(s, ShutAndClose(v, f.id, "RD"), {})
  BY <1>5, ShutAndCloseLeads, LeadsOn
<1> QED  BY <1>1, <1>2, <1>3, <1>5, <1>6

LEMMA OnDataLeads ==
  ASSUME NEW s, Shape(s), NEW f
  PROVE  Leads(s, OnData(s, f), {})
<1>1. OnData(s, f) \in {Terminate(s), RecvConnection(s, f.n), TakeData(s, f)}
  BY DEF OnData, IgnoreData
<1> QED  BY <1>1, TerminateLeads, RecvConnectionLeads, TakeDataLeads

LEMMA OnSettingsAckLeads ==
  ASSUME NEW s, Shape(s)
  PROVE  Leads(s, OnSettingsAck(s), {})
<1> DEFINE t == [s EXCEPT !.inflight = @ - 1]
<1>1. Alikes(s, t)
  BY DEF Alikes, Shape, SessionFields
<1>2. OnSettingsAck(s) \in {Terminate(s), t}
  BY DEF OnSettingsAck
<1> HIDE DEF t
<1> QED  BY <1>1, <1>2, AlikesLead, TerminateLeads

LEMMA OnUpdateLeads ==
  ASSUME NEW s, Shape(s), NEW f
  PROVE  Leads(s, OnUpdate(s, f), {})
<1> DEFINE t == [s EXCEPT !.window = @ + f.n]
           x == [s.streams[f.id] EXCEPT !.window = @ + f.n]
           u == [s EXCEPT !.streams[f.id] = Resume(x)]
<1>1. Alikes(s, t) /\ Alikes(s, u)
  BY DEF Alikes, Shape, SessionFields
<1>2. OnUpdate(s, f) \in {s, t, u, Terminate(s), AddRst(s, f.id)}
  BY DEF OnUpdate
<1> HIDE DEF t, u
<1> QED  BY <1>1, <1>2, AlikesLead, TerminateLeads, AddRstLeads, Stays

LEMMA OnPushLeads ==
  ASSUME NEW s, Shape(s), NEW f
  PROVE  Leads(s, OnPush(s, f), {})
<1> DEFINE t == [s EXCEPT !.lastRecv = f.promised]
           u == Open(t, f.promised, "RESERVED", {"WR"})
           v == [u EXCEPT !.lastProc = f.promised]
<1>1. OnPush(s, f) \in {s, Terminate(s), AddRst(t, f.promised), Terminate(t), v}
  BY DEF OnPush
<1>2. Alikes(s, t)
  BY DEF Alikes, Shape, SessionFields
<1> HIDE DEF t
<1>3. Leads(s, t, {}) /\ Shape(t)
  BY <1>2, AlikesLead DEF Leads
<1>4. Leads(s, u, {}) /\ Shape(u)
  BY <1>3, OpenLeads, LeadsOn DEF Leads
<1> HIDE DEF u
<1>5. Alikes(u, v)
  BY <1>4 DEF Alikes, Shape, SessionFields
<1> HIDE DEF v
<1>6. Leads(s, v, {})
  BY <1>4, <1>5, AlikesLead, LeadsOn
<1>7. Leads(s, AddRst(t, f.promised), {}) /\ Leads(s, Terminate(t), {})
  BY <1>3, AddRstLeads, TerminateLeads, LeadsOn
<1> QED  BY <1>1, <1>6, <1>7, TerminateLeads, Stays

LEMMA IdsFinite == ASSUME NEW S \in SUBSET Ids PROVE Cardinality(S) \in Nat
<1> PICK n \in Nat : n = 9
  OBVIOUS
<1>1. Ids \subseteq 1 .. n
  BY SessionAssumed DEF SessionAssumption, Ids
<1>2. \A m \in Nat : IsFiniteSet(1 .. m)
  <2> TAKE m \in Nat
  <2> QED  BY FS_Interval
<1>3. IsFiniteSet(S)
  BY <1>1, <1>2, FS_Subset
<1> QED  BY <1>3, FS_CardinalityType

LEMMA LineIs ==
  ASSUME NEW n \in Nat, NEW q, q = [k \in 1 .. n |-> q[k]]
  PROVE  IsSequence(q) /\ DOMAIN q = 1 .. n
<1> DEFINE S == {q[k] : k \in 1 .. n}
<1>1. q \in [1 .. n -> S] /\ DOMAIN q = 1 .. n
  OBVIOUS
<1>2. q \in Seq(S)
  BY <1>1
<1> QED  BY <1>1, <1>2, SequenceIs

LEMMA ResetsPlain ==
  ASSUME NEW n \in Nat, NEW g
  PROVE  Plain([k \in 1 .. n |-> Frame("rst", g[k])])
<1> DEFINE q == [k \in 1 .. n |-> Frame("rst", g[k])]
<1>1. q = [k \in 1 .. n |-> q[k]]
  OBVIOUS
<1>2. \A k \in 1 .. n : q[k].type # "headers"
  BY DEF Frame
<1> HIDE DEF q
<1>3. Plain(q)
  BY <1>1, <1>2, LineIs DEF Plain
<1> QED  BY <1>3 DEF q

LEMMA PlainJoined ==
  ASSUME NEW q, Plain(q), NEW r, Plain(r)
  PROVE  Plain(q \o r)
<1>1. /\ IsSequence(q) /\ DOMAIN q = 1 .. Len(q) /\ Len(q) \in Nat
      /\ IsSequence(r) /\ DOMAIN r = 1 .. Len(r) /\ Len(r) \in Nat
  BY SequenceFacts DEF Plain
<1>2. /\ IsSequence(q \o r) /\ DOMAIN (q \o r) = 1 .. Len(q) + Len(r)
      /\ \A k \in 1 .. Len(q) : (q \o r)[k] = q[k]
      /\ \A k \in 1 .. Len(q) + Len(r) : k > Len(q) => (q \o r)[k] = r[k - Len(q)]
  BY <1>1, Joined
<1>3. ASSUME NEW k \in 1 .. Len(q) + Len(r) PROVE (q \o r)[k].type # "headers"
  <2>1. CASE k <= Len(q)
    <3>1. k \in 1 .. Len(q) /\ k \in DOMAIN q
      BY <1>1, <2>1
    <3> QED  BY <1>2, <3>1 DEF Plain
  <2>2. CASE k > Len(q)
    <3>1. (q \o r)[k] = r[k - Len(q)] /\ k - Len(q) \in DOMAIN r
      BY <1>1, <1>2, <2>2
    <3> QED  BY <3>1 DEF Plain
  <2> QED  BY <1>1, <2>1, <2>2
<1> QED  BY <1>2, <1>3 DEF Plain

LEMMA OnSettingsLeads ==
  ASSUME NEW s, Shape(s), NEW f
  PROVE  Leads(s, OnSettings(s, f), {})
<1> DEFINE over == {i \in Ids : Exists(s, i) /\ Overflows(s, i, f.initial)}
           reset == {i \in over : s.streams[i].state # "CLOSING"}
           rsts == [k \in 1 .. Cardinality(reset) |-> Frame("rst", SetToSeq(reset)[k])]
           t == [s EXCEPT !.streams = [i \in Ids |->
                            CASE i \in reset -> [@[i] EXCEPT !.state = "CLOSING"]
                              [] Exists(s, i) /\ i \notin over -> InitialWindow(s, i, f.initial)
                              [] OTHER -> @[i]],
                          !.reg = @ \o rsts, !.limit = f.limit, !.initial = f.initial]
<1>1. OnSettings(s, f) \in {t, AddAck(t, "ack")}
  BY DEF OnSettings
<1>2. Plain(rsts)
  <2>1. reset \in SUBSET Ids
    OBVIOUS
  <2> HIDE DEF reset
  <2>2. Cardinality(reset) \in Nat
    BY <2>1, IdsFinite
  <2> QED  BY <2>2, ResetsPlain
<1> HIDE DEF rsts, reset, over
<1>3. /\ DOMAIN t = DOMAIN s /\ t.syn = s.syn /\ t.aob = s.aob /\ t.closed = s.closed
      /\ t.urgent = s.urgent /\ t.reg = s.reg \o rsts
  BY DEF Shape, SessionFields
<1> HIDE DEF t
<1>4. Shape(t) /\ Leads(s, t, {})
  BY <1>2, <1>3, PlainJoined DEF Shape, Leads
<1>5. Leads(s, AddAck(t, "ack"), {})
  BY <1>4, AddAckLeads, LeadsOn
<1> QED  BY <1>1, <1>4, <1>5

\* The requests that a frame refuses
RefusedBy(f) ==
  {i \in Requests : \/ f.type = "rst" /\ f.why = "refused" /\ i = f.id
                    \/ f.type = "goaway" /\ (f.id = 0 \/ IsMine(f.id)) /\ i > f.id}

LEMMA OnRstLeads ==
  ASSUME NEW s, Shape(s), NEW f, f.type = "rst"
  PROVE  Leads(s, OnRst(s, f), RefusedBy(f))
<1>1. Leads(s, Terminate(s), {}) /\ OnRst(s, f) \in {Terminate(s), Close(s, f.id, f.why)}
  BY TerminateLeads DEF OnRst
<1>2. Leads(s, Close(s, f.id, f.why), IF f.why = "refused" THEN {f.id} ELSE {})
  BY CloseLeads
<1> QED  BY <1>1, <1>2 DEF Leads, RefusedBy

LEMMA OnGoawayLeads ==
  ASSUME NEW s, Shape(s), NEW f, f.type = "goaway", f.id \in Nat
  PROVE  Leads(s, OnGoaway(s, f), RefusedBy(f))
<1> DEFINE t == [s EXCEPT !.goaway = @ \cup {"RECV"}, !.remoteLast = f.id]
           ids == AboveLast(t, f.id)
<1>1. Leads(s, Terminate(s), {})
  BY TerminateLeads
<1>2. Alikes(s, t)
  BY DEF Alikes, Shape, SessionFields
<1>3. \/ OnGoaway(s, f) = Terminate(s)
      \/ OnGoaway(s, f) = CloseAll(t, ids, "refused") /\ ~(f.id > 0 /\ ~IsMine(f.id))
  BY DEF OnGoaway
<1>4. ids \subseteq {i \in Requests : i > f.id}
  BY DEF AboveLast
<1> HIDE DEF t, ids
<1>5. Shape(t) /\ Leads(s, t, {})
  BY <1>2, AlikesLead DEF Leads
<1>6. Leads(s, CloseAll(t, ids, "refused"), ids)
  BY <1>5, CloseAllLeads, LeadsOn
<1>7. CASE OnGoaway(s, f) = Terminate(s)
  BY <1>1, <1>7 DEF Leads
<1>8. CASE OnGoaway(s, f) = CloseAll(t, ids, "refused") /\ ~(f.id > 0 /\ ~IsMine(f.id))
  <2>1. ids \subseteq RefusedBy(f)
    BY <1>4, <1>8 DEF RefusedBy
  <2> QED  BY <1>6, <1>8, <2>1 DEF Leads
<1> QED  BY <1>3, <1>7, <1>8

LEMMA ReceivedLeads ==
  ASSUME NEW s, Shape(s), NEW f, f.type = "goaway" => f.id \in Nat
  PROVE  Leads(s, Received(s, f), RefusedBy(f))
<1>1. CASE f.type = "rst"
  BY <1>1, OnRstLeads DEF Received
<1>2. CASE f.type = "goaway"
  BY <1>2, OnGoawayLeads DEF Received
<1>3. CASE f.type \notin {"rst", "goaway"}
  <2>1. Received(s, f) \in {OnHeaders(s, f), OnData(s, f), OnSettings(s, f), OnSettingsAck(s), s,
                            AddAck(s, "pong"), OnUpdate(s, f), OnPush(s, f)}
    BY <1>3 DEF Received
  <2>2. Leads(s, AddAck(s, "pong"), {})
    BY AddAckLeads
  <2>3. Leads(s, Received(s, f), {})
    BY <2>1, <2>2, OnHeadersLeads, OnDataLeads, OnSettingsLeads, OnSettingsAckLeads, OnUpdateLeads,
       OnPushLeads, Stays
  <2> QED  BY <2>3 DEF Leads
<1> QED  BY <1>1, <1>2, <1>3

-----------------------------------------------------------------------------
(* What is done before a frame is sent                                     *)

(***************************************************************************)
(* s is readied for f: a request that is not going to be sent is refused.  *)
(***************************************************************************)
Readied(s, t, f) ==
  /\ Shape(t) /\ t.syn = s.syn
  /\ t.aob.type = "headers" => t.aob = f
  /\ \A i \in Requests : t.closed[i] = "refused" =>
       \/ s.closed[i] = "refused"
       \/ f.type = "headers" /\ i = f.id /\ t.aob.type # "headers"

LEMMA LeadsReadies ==
  ASSUME NEW s, s.aob = NoFrame, NEW f, NEW t, Leads(s, t, {})
  PROVE  Readied(s, t, f)
BY DEF Leads, Readied, NoFrame, Frame

LEMMA SendsReadies ==
  ASSUME NEW s, NEW t, Leads(s, t, {}), NEW f, NEW g, g.type # "headers" \/ g = f
  PROVE  Readied(s, Sends(t, g), f)
<1> DEFINE u == Sends(t, g)
<1>1. /\ DOMAIN u = DOMAIN t /\ u.syn = t.syn /\ u.aob = g /\ u.closed = t.closed
      /\ u.urgent = t.urgent /\ u.reg = t.reg
  BY DEF Leads, Sends, Shape, SessionFields
<1> HIDE DEF u
<1>2. Shape(u)
  BY <1>1 DEF Leads, Shape
<1>3. Readied(s, u, f)
  BY <1>1, <1>2 DEF Leads, Readied
<1> QED  BY <1>3 DEF u

LEMMA PrepDataReadies ==
  ASSUME NEW s, Shape(s), s.aob = NoFrame, NEW f
  PROVE  Readied(s, PrepData(s, f.id), f)
<1> DEFINE i == f.id
           st == s.streams[i]
           n == Least(Least(st.window, s.window), FrameSize)
           read == Read(i, s.left[i], n)
           t == [s EXCEPT !.streams[i].item = "none"]
           u == [s EXCEPT !.streams[i].item = "deferred"]
           v == [s EXCEPT !.left[i] = @ - read.n]
           g == Data(i, read.n, read.eof)
<1>1. PrepData(s, i) \in {t, u, Sends(v, g)}
  BY DEF PrepData
<1>2. g.type # "headers"
  BY DEF Data
<1> HIDE DEF st, n, read, i
<1>3. Alikes(s, t) /\ Alikes(s, u) /\ Alikes(s, v)
  BY DEF Alikes, Shape, SessionFields
<1> HIDE DEF t, u, v, g
<1>4. Leads(s, t, {}) /\ Leads(s, u, {}) /\ Leads(s, v, {})
  BY <1>3, AlikesLead
<1>5. Readied(s, Sends(v, g), f)
  BY <1>2, <1>4, SendsReadies
<1>6. Readied(s, t, f) /\ Readied(s, u, f)
  BY <1>4, LeadsReadies
<1>7. Readied(s, PrepData(s, i), f)
  BY <1>1, <1>5, <1>6
<1> QED  BY <1>7 DEF i

LEMMA PrepRequestReadies ==
  ASSUME NEW s, Shape(s), s.aob = NoFrame, NEW f, f.type = "headers"
  PROVE  Readied(s, PrepRequest(s, f), f)
<1> DEFINE t == Open(s, f.id, "INITIAL", {})
           u == [t EXCEPT !.lastSent = f.id]
           v == Close(t, f.id, "refused")
<1>1. PrepRequest(s, f) \in {v, Sends(u, f)}
  BY DEF PrepRequest
<1>2. Shape(t) /\ Leads(s, t, {})
  BY OpenLeads DEF Leads
<1> HIDE DEF t
<1>3. Alikes(t, u)
  BY <1>2 DEF Alikes, Shape, SessionFields
<1>4. Leads(t, v, {f.id})
  BY <1>2, CloseLeads
<1> HIDE DEF u, v
<1>5. Leads(s, u, {}) /\ Leads(s, v, {f.id})
  BY <1>2, <1>3, <1>4, AlikesLead, LeadsOn
<1>6. Readied(s, v, f)
  BY <1>5 DEF Leads, Readied, NoFrame, Frame
<1>7. Readied(s, Sends(u, f), f)
  BY <1>5, SendsReadies
<1> QED  BY <1>1, <1>6, <1>7

LEMMA PrepReadies ==
  ASSUME NEW s0, Shape(s0), s0.aob = NoFrame, NEW f
  PROVE  Readied(s0, Prep(s0, f), f)
<1> DEFINE t == [s0 EXCEPT !.acks = @ - 1]
           s == IF f.type \in {"ack", "pong"} THEN t ELSE s0
<1>1. Prep(s0, f) = CASE f.type = "data"    -> PrepData(s, f.id)
                      [] f.type = "headers" -> PrepRequest(s, f)
                      [] f.type = "window"  -> PrepUpdate(s, f)
                      [] f.type \in {"rst", "ack"} -> IF Closing(s) THEN s ELSE Sends(s, f)
                      [] f.type = "pong"    -> IF "TERM_ON_SEND" \in s.goaway THEN s ELSE Sends(s, f)
                      [] OTHER              -> Sends(s, f)
  BY DEF Prep
<1>2. Alikes(s0, t)
  BY DEF Alikes, Shape, SessionFields
<1> HIDE DEF t
<1>3. Leads(s0, t, {})
  BY <1>2, AlikesLead
<1>4. Leads(s0, s, {})
  BY <1>3, Stays
<1> HIDE DEF s
<1>5. Shape(s) /\ s.aob = NoFrame
  BY <1>4 DEF Leads
<1>6. Readied(s, Prep(s0, f), f)
  <2>1. CASE f.type = "data"
    BY <1>1, <1>5, <2>1, PrepDataReadies
  <2>2. CASE f.type = "headers"
    BY <1>1, <1>5, <2>2, PrepRequestReadies
  <2>3. CASE f.type \notin {"data", "headers"}
    <3>1. Readied(s, s, f) /\ Readied(s, Sends(s, f), f)
      BY <1>5, <2>3, Stays, LeadsReadies, SendsReadies
    <3>2. Prep(s0, f) \in {s, Sends(s, f)}
      BY <1>1, <2>3 DEF PrepUpdate
    <3> QED  BY <3>1, <3>2
  <2> QED  BY <2>1, <2>2, <2>3
<1> QED  BY <1>4, <1>6 DEF Readied, Leads

-----------------------------------------------------------------------------
(* The steps of the client                                                 *)

LEMMA NextItem ==
  ASSUME Shape(c), InLine(c), NEW f \in NextItems(c)
  PROVE  LET s == Popped(c, f) IN
         /\ Shape(s) /\ s.aob = c.aob /\ s.closed = c.closed
         /\ \/ f.type # "headers" /\ s.syn = c.syn
            \/ c.syn # <<>> /\ f = Head(c.syn) /\ s.syn = Tail(c.syn)
<1> DEFINE s == Popped(c, f)
<1>1. CASE c.urgent # <<>>
  <2>1. f = Head(c.urgent) /\ s = [c EXCEPT !.urgent = Tail(@)]
    BY <1>1 DEF NextItems, Popped
  <2>2. /\ DOMAIN s = DOMAIN c /\ s.syn = c.syn /\ s.aob = c.aob /\ s.closed = c.closed
        /\ s.urgent = Tail(c.urgent) /\ s.reg = c.reg
    BY <2>1 DEF Shape, SessionFields
  <2> HIDE DEF s
  <2>3. Plain(Tail(c.urgent)) /\ f.type # "headers"
    BY <1>1, <2>1, PlainTail DEF Shape
  <2>4. Shape(s)
    BY <2>2, <2>3 DEF Shape
  <2> QED  BY <2>2, <2>3, <2>4 DEF s
<1>2. CASE c.urgent = <<>> /\ c.reg # <<>>
  <2>1. f = Head(c.reg) /\ s = [c EXCEPT !.reg = Tail(@)]
    BY <1>2 DEF NextItems, Popped
  <2>2. /\ DOMAIN s = DOMAIN c /\ s.syn = c.syn /\ s.aob = c.aob /\ s.closed = c.closed
        /\ s.urgent = c.urgent /\ s.reg = Tail(c.reg)
    BY <2>1 DEF Shape, SessionFields
  <2> HIDE DEF s
  <2>3. Plain(Tail(c.reg)) /\ f.type # "headers"
    BY <1>2, <2>1, PlainTail DEF Shape
  <2>4. Shape(s)
    BY <2>2, <2>3 DEF Shape
  <2> QED  BY <2>2, <2>3, <2>4 DEF s
<1>3. CASE c.urgent = <<>> /\ c.reg = <<>>
  <2>1. \/ c.syn # <<>> /\ f = Head(c.syn)
        \/ f \in {Frame("data", i) : i \in Ready(c)}
    BY <1>3 DEF NextItems
  <2>2. CASE c.syn # <<>> /\ f = Head(c.syn)
    <3>1. f.type = "headers"
      BY <2>2, TailIs DEF InLine
    <3>2. s = [c EXCEPT !.syn = Tail(@)]
      BY <1>3, <3>1 DEF Popped
    <3>3. /\ DOMAIN s = DOMAIN c /\ s.syn = Tail(c.syn) /\ s.aob = c.aob /\ s.closed = c.closed
          /\ s.urgent = c.urgent /\ s.reg = c.reg
      BY <3>2 DEF Shape, SessionFields
    <3> HIDE DEF s
    <3>4. Shape(s)
      BY <3>3 DEF Shape
    <3> QED  BY <2>2, <3>3, <3>4 DEF s
  <2>3. CASE f \in {Frame("data", i) : i \in Ready(c)}
    <3>1. f.type = "data"
      BY <2>3 DEF Frame
    <3>2. s = c
      BY <1>3, <3>1 DEF Popped
    <3> QED  BY <3>1, <3>2
  <2> QED  BY <2>1, <2>2, <2>3
<1> QED  BY <1>1, <1>2, <1>3

(***************************************************************************)
(* What the server will never begin it will not begin when fewer requests  *)
(* wait.                                                                   *)
(***************************************************************************)
LEMMA FewerWait ==
  ASSUME ServerKnows, server' = server, \A i \in Requests : Unsent(c, i)' => Unsent(c, i)
  PROVE  /\ ServerKnows'
         /\ \A i \in Requests : Never(i) => Never(i)'
         /\ down' = down /\ OnTheWay => OnTheWay'
<1>1. ServerKnows'
  BY DEF ServerKnows
<1>2. ASSUME NEW i \in Requests, Never(i) PROVE Never(i)'
  BY <1>2 DEF Never
<1>3. ASSUME down' = down, OnTheWay PROVE OnTheWay'
  <2>1. ASSUME NEW k \in DOMAIN down PROVE Truthful(down[k])'
    <3>1. Truthful(down[k])
      BY <1>3, <2>1 DEF OnTheWay
    <3>2. down'[k] = down[k]
      BY <1>3
    <3> QED  BY <1>2, <3>1, <3>2 DEF Truthful
  <2> QED  BY <1>3, <2>1 DEF OnTheWay
<1> QED  BY <1>1, <1>2, <1>3

LEMMA PrepFrameKeeps == ASSUME IInv, PrepFrame PROVE IInv'
<1>0. Shape(c) /\ ServerShape /\ InLine(c) /\ ServerKnows /\ OnTheWay /\ RefusedNever
  BY DEF IInv
<1>1. PICK f \in NextItems(c) : c' = Prep(Popped(c, f), f)
  BY DEF PrepFrame
<1> PICK s : s = Popped(c, f)
  OBVIOUS
<1>2. c.aob = NoFrame /\ server' = server /\ down' = down
  BY DEF PrepFrame
<1>3. /\ Shape(s) /\ s.aob = NoFrame /\ s.closed = c.closed
      /\ \/ f.type # "headers" /\ s.syn = c.syn
         \/ c.syn # <<>> /\ f = Head(c.syn) /\ s.syn = Tail(c.syn)
  BY <1>0, <1>2, NextItem
<1>4. Readied(s, c', f)
  BY <1>1, <1>3, PrepReadies
<1>5. NoFrame.type # "headers"
  BY DEF NoFrame, Frame
<1>6. CASE f.type # "headers" /\ s.syn = c.syn
  <2>1. c'.syn = c.syn /\ c'.aob.type # "headers"
    BY <1>4, <1>6 DEF Readied
  <2>2. InLine(c') /\ \A i \in Requests : Unsent(c', i) => Unsent(c, i)
    BY <1>0, <2>1 DEF InLine, Unsent
  <2>3. \A i \in Requests : c'.closed[i] = "refused" => Never(i)
    BY <1>0, <1>3, <1>4, <1>6 DEF Readied, RefusedNever
  <2>4. \A i \in Requests : Unsent(c, i)' => Unsent(c, i)
    BY <2>2 DEF Unsent
  <2> QED  BY <1>0, <1>2, <1>4, <2>2, <2>3, <2>4, FewerWait
           DEF IInv, Readied, ServerShape, OnTheWay, RefusedNever
<1>7. CASE f.type = "headers"
  <2>1. /\ IsSequence(Tail(c.syn)) /\ Len(c.syn) \in Nat \ {0}
        /\ DOMAIN Tail(c.syn) = 1 .. Len(c.syn) - 1 /\ DOMAIN c.syn = 1 .. Len(c.syn)
        /\ \A k \in 1 .. Len(c.syn) - 1 : Tail(c.syn)[k] = c.syn[k + 1] /\ k + 1 \in DOMAIN c.syn
        /\ f = c.syn[1] /\ 1 \in DOMAIN c.syn
    BY <1>0, <1>3, <1>7, TailIs, SequenceFacts DEF InLine
  <2>2. c'.syn = Tail(c.syn) /\ (c'.aob.type = "headers" => c'.aob = f)
    BY <1>3, <1>4, <1>7 DEF Readied
  <2>3. f.id \in Requests /\ \A k \in DOMAIN c'.syn : f.id < c'.syn[k].id
    BY <1>0, <2>1, <2>2 DEF InLine
  <2>4. InLine(c')
    <3>1. \A k \in DOMAIN c'.syn : c'.syn[k].type = "headers" /\ c'.syn[k].id \in Requests
      BY <1>0, <2>1, <2>2 DEF InLine
    <3>2. \A j, k \in DOMAIN c'.syn : j < k => c'.syn[j].id < c'.syn[k].id
      BY <1>0, <2>1, <2>2, SMTT(30) DEF InLine
    <3> QED  BY <2>1, <2>2, <2>3, <3>1, <3>2 DEF InLine
  <2>5. Unsent(c, f.id)
    BY <2>1 DEF Unsent
  <2>6. \A i \in Requests : Unsent(c, i)' => Unsent(c, i)
    BY <2>1, <2>2, <2>5 DEF Unsent
  <2>7. c'.aob.type # "headers" => ~Unsent(c', f.id)
    BY <2>3, ParityIs DEF Unsent
  <2>8. ServerKnows' /\ (\A i \in Requests : Never(i) => Never(i)') /\ OnTheWay'
    BY <1>0, <1>2, <2>6, FewerWait DEF OnTheWay
  <2>9. RefusedNever'
    <3> SUFFICES ASSUME NEW i \in Requests, c'.closed[i] = "refused"
                 PROVE  Never(i)'
      BY DEF RefusedNever
    <3>1. CASE c.closed[i] = "refused"
      BY <1>0, <2>8, <3>1 DEF RefusedNever
    <3>2. CASE c.closed[i] # "refused"
      <4>1. i = f.id /\ c'.aob.type # "headers"
        BY <1>3, <1>4, <3>2 DEF Readied
      <4>2. i \notin server.processed /\ server.phase[i] # "open"
        BY <1>0, <2>5, <4>1 DEF ServerKnows
      <4> QED  BY <1>2, <2>7, <4>1, <4>2 DEF Never
    <3> QED  BY <3>1, <3>2
  <2> QED  BY <1>0, <1>2, <1>4, <2>4, <2>8, <2>9 DEF IInv, Readied, ServerShape
<1>8. \/ f.type = "headers"
      \/ f.type # "headers" /\ s.syn = c.syn
  <2>1. CASE c.syn # <<>> /\ f = Head(c.syn)
    <3>1. f = c.syn[1] /\ 1 \in DOMAIN c.syn
      BY <1>0, <2>1, TailIs DEF InLine
    <3> QED  BY <1>0, <3>1 DEF InLine
  <2> QED  BY <1>3, <2>1
<1> QED  BY <1>6, <1>7, <1>8

(***************************************************************************)
(* What the server does when it takes a frame                              *)
(***************************************************************************)
LEMMA TakenIs ==
  ASSUME ServerShape, NEW f, server' = Taken(server, f), f.type = "headers" => f.id \in Requests
  PROVE  /\ ServerShape' /\ server'.last = server.last /\ server'.processed = server.processed
         /\ \A i \in Ids : \/ server'.phase[i] = server.phase[i]
                           \/ server'.phase[i] = "reset"
                           \/ /\ server'.phase[i] = "open" /\ f.type = "headers" /\ i = f.id
                              /\ f.id <= server.last
<1>1. CASE f.type = "headers"
  <2>1. CASE f.id > server.last
    BY <1>1, <2>1 DEF Taken, ServerShape
  <2>2. CASE ~(f.id > server.last)
    <3>1. /\ DOMAIN server' = ServerFields /\ server'.last = server.last
          /\ server'.processed = server.processed
          /\ server'.phase = [server.phase EXCEPT ![f.id] = "open"]
      BY <1>1, <2>2 DEF Taken, ServerShape, ServerFields
    <3>2. f.id <= server.last
      BY <1>1, <2>2, ParityIs DEF ServerShape
    <3> QED  BY <1>1, <3>1, <3>2 DEF ServerShape
  <2> QED  BY <2>1, <2>2
<1>2. CASE f.type = "rst"
  <2>1. /\ DOMAIN server' = ServerFields /\ server'.last = server.last
        /\ server'.processed = server.processed
        /\ server'.phase = [server.phase EXCEPT ![f.id] = "reset"]
    BY <1>2 DEF Taken, ServerShape, ServerFields
  <2> QED  BY <2>1 DEF ServerShape
<1>3. CASE f.type \notin {"headers", "rst"}
  <2>1. /\ DOMAIN server' = ServerFields /\ server'.last = server.last
        /\ server'.processed = server.processed /\ server'.phase = server.phase
    BY <1>3 DEF Taken, ServerShape, ServerFields
  <2> QED  BY <2>1 DEF ServerShape
<1> QED  BY <1>1, <1>2, <1>3

(***************************************************************************)
(* One more frame on the way                                               *)
(***************************************************************************)
LEMMA Sent ==
  ASSUME OnTheWay, \A g : Truthful(g) => Truthful(g)',
         down' = down \/ \E f : down' = Append(down, f) /\ Truthful(f)'
  PROVE  OnTheWay'
<1>1. CASE down' = down
  BY <1>1 DEF OnTheWay
<1>2. CASE \E f : down' = Append(down, f) /\ Truthful(f)'
  <2> PICK f : down' = Append(down, f) /\ Truthful(f)'
    BY <1>2
  <2>1. /\ IsSequence(Append(down, f))
        /\ \A k \in DOMAIN Append(down, f) :
             \/ Append(down, f)[k] = f
             \/ k \in DOMAIN down /\ Append(down, f)[k] = down[k]
    BY AppendedIs DEF OnTheWay
  <2>2. ASSUME NEW k \in DOMAIN down' PROVE Truthful(down[k])'
    <3>1. CASE down'[k] = f
      BY <3>1 DEF Truthful
    <3>2. CASE k \in DOMAIN down /\ down'[k] = down[k]
      <4>1. Truthful(down[k])
        BY <3>2 DEF OnTheWay
      <4> PICK g : g = down[k]
        OBVIOUS
      <4>2. Truthful(g)'
        BY <4>1
      <4> QED  BY <3>2, <4>2 DEF Truthful
    <3> QED  BY <2>1, <2>2, <3>1, <3>2
  <2> QED  BY <2>1, <2>2 DEF OnTheWay
<1> QED  BY <1>1, <1>2

LEMMA WriteFrameKeeps == ASSUME IInv, WriteFrame PROVE IInv'
<1>0. Shape(c) /\ ServerShape /\ InLine(c) /\ ServerKnows /\ OnTheWay /\ RefusedNever
  BY DEF IInv
<1>1. c.aob # NoFrame /\ c' = AfterSent(c) /\ server' = Taken(server, c.aob)
  BY DEF WriteFrame
<1> DEFINE s == [c EXCEPT !.aob = NoFrame]
           f == c.aob
<1>2. s.syn = c.syn /\ s.aob = NoFrame /\ s.closed = c.closed
  BY <1>0 DEF Shape, SessionFields
<1>3. Leads(s, c', {})
  BY <1>0, <1>1, AfterSentLeads
<1> HIDE DEF s
<1>4. /\ Shape(c') /\ c'.syn = c.syn /\ c'.aob.type # "headers"
      /\ \A i \in Requests : c'.closed[i] = "refused" => c.closed[i] = "refused"
  BY <1>2, <1>3 DEF Leads, NoFrame, Frame
<1>5. InLine(c')
  BY <1>0, <1>4 DEF InLine
<1>6. \A i \in Requests : Unsent(c, i)' => Unsent(c, i) /\ ~(f.type = "headers" /\ i = f.id)
  BY <1>0, <1>4, ParityIs DEF InLine, Unsent
<1>7. f.type = "headers" => f.id \in Requests /\ Unsent(c, f.id)
  BY <1>0 DEF InLine, Unsent
<1>8. /\ ServerShape' /\ server'.last = server.last /\ server'.processed = server.processed
      /\ \A i \in Ids : \/ server'.phase[i] = server.phase[i]
                        \/ server'.phase[i] = "reset"
                        \/ /\ server'.phase[i] = "open" /\ f.type = "headers" /\ i = f.id
                           /\ f.id <= server.last
  BY <1>0, <1>1, <1>7, TakenIs
<1>9. \A i \in Requests : i \in Ids
  BY DEF Ids
<1>10. ASSUME NEW i \in Requests, Never(i) PROVE Never(i)'
  <2>1. server'.phase[i] # "open"
    <3>1. CASE f.type = "headers" /\ i = f.id /\ f.id <= server.last
      <4>1. i > server.last
        BY <1>7, <1>10, <3>1 DEF Never
      <4> QED  BY <1>0, <3>1, <4>1, ParityIs DEF ServerShape
    <3> QED  BY <1>8, <1>9, <1>10, <3>1 DEF Never
  <2> QED  BY <1>6, <1>8, <1>10, <2>1 DEF Never
<1>11. ServerKnows'
  <2> SUFFICES ASSUME NEW i \in Requests
               PROVE  /\ Unsent(c, i)' => /\ server'.phase[i] \in {"idle", "reset"}
                                          /\ i \notin server'.processed
                      /\ server'.phase[i] = "open" => i \notin server'.processed
                      /\ server'.phase[i] # "promised"
                      /\ i > server'.last => i \notin server'.processed /\ server'.phase[i] # "open"
    BY DEF ServerKnows
  <2>1. /\ Unsent(c, i) => server.phase[i] \in {"idle", "reset"} /\ i \notin server.processed
        /\ server.phase[i] = "open" => i \notin server.processed
        /\ server.phase[i] # "promised"
        /\ i > server.last => i \notin server.processed /\ server.phase[i] # "open"
    BY <1>0 DEF ServerKnows
  <2>2. \/ server'.phase[i] = server.phase[i]
        \/ server'.phase[i] = "reset"
        \/ /\ server'.phase[i] = "open" /\ f.type = "headers" /\ i = f.id
           /\ f.id <= server.last
    BY <1>8, <1>9
  <2>3. CASE server'.phase[i] = server.phase[i]
    BY <1>6, <1>8, <2>1, <2>3
  <2>4. CASE server'.phase[i] = "reset"
    BY <1>6, <1>8, <2>1, <2>4
  <2>5. CASE /\ server'.phase[i] = "open" /\ f.type = "headers" /\ i = f.id
             /\ f.id <= server.last
    <3>1. ~Unsent(c, i)' /\ i \notin server.processed
      BY <1>6, <1>7, <2>1, <2>5
    <3>2. ~(i > server.last)
      BY <1>0, <2>5, ParityIs DEF ServerShape
    <3> QED  BY <1>8, <2>5, <3>1, <3>2
  <2> QED  BY <2>2, <2>3, <2>4, <2>5
<1>12. OnTheWay'
  <2>1. \A g : Truthful(g) => Truthful(g)'
    BY <1>8, <1>10 DEF Truthful
  <2>2. Truthful(Frame("ack", 0))'
    BY DEF Truthful, Frame
  <2> QED  BY <1>0, <2>1, <2>2, Sent DEF WriteFrame
<1>13. RefusedNever'
  BY <1>0, <1>4, <1>10 DEF RefusedNever
<1> QED  BY <1>4, <1>5, <1>8, <1>11, <1>12, <1>13 DEF IInv

LEMMA WaitKeeps == ASSUME IInv, SendDone \/ RecvDone PROVE IInv'
<1>0. Shape(c) /\ ServerShape /\ InLine(c) /\ ServerKnows /\ OnTheWay /\ RefusedNever
  BY DEF IInv
<1>1. c' = c /\ down' = down /\ server' = server
  BY DEF SendDone, RecvDone
<1>2. \A i \in Requests : Unsent(c, i)' => Unsent(c, i)
  BY <1>1 DEF Unsent
<1>3. ServerKnows' /\ OnTheWay' /\ \A i \in Requests : Never(i) => Never(i)'
  BY <1>0, <1>1, <1>2, FewerWait
<1>4. RefusedNever'
  BY <1>0, <1>1, <1>3 DEF RefusedNever
<1> QED  BY <1>0, <1>1, <1>3, <1>4 DEF IInv, ServerShape

LEMMA ReceiveKeeps == ASSUME IInv, Receive PROVE IInv'
<1>0. Shape(c) /\ ServerShape /\ InLine(c) /\ ServerKnows /\ OnTheWay /\ RefusedNever
  BY DEF IInv
<1>1. down # <<>> /\ down' = Tail(down) /\ server' = server
  BY DEF Receive
<1> PICK f : f = Head(down)
  OBVIOUS
<1>2. /\ IsSequence(Tail(down)) /\ Len(down) \in Nat \ {0} /\ DOMAIN Tail(down) = 1 .. Len(down) - 1
      /\ \A k \in 1 .. Len(down) - 1 : Tail(down)[k] = down[k + 1] /\ k + 1 \in DOMAIN down
      /\ f = down[1] /\ 1 \in DOMAIN down
  BY <1>0, <1>1, TailIs DEF OnTheWay
<1>3. Truthful(f)
  BY <1>0, <1>2 DEF OnTheWay
<1>4. Leads(c, c', RefusedBy(f))
  <2> DEFINE t == [c EXCEPT !.ignoring = TRUE]
  <2>1. c' \in {c, Received(c, f), t}
    BY DEF Receive
  <2>2. Alikes(c, t)
    BY <1>0 DEF Alikes, Shape, SessionFields
  <2> HIDE DEF t
  <2>3. Leads(c, t, {}) /\ Leads(c, c, {})
    BY <1>0, <2>2, AlikesLead, Stays
  <2>4. Leads(c, Received(c, f), RefusedBy(f))
    BY <1>0, <1>3, ReceivedLeads DEF Truthful
  <2> QED  BY <2>1, <2>3, <2>4 DEF Leads
<1>5. InLine(c')
  BY <1>0, <1>4 DEF Leads, InLine
<1>6. \A i \in Requests : Unsent(c, i)' => Unsent(c, i)
  BY <1>4 DEF Leads, Unsent
<1>7. ServerKnows' /\ \A i \in Requests : Never(i) => Never(i)'
  BY <1>0, <1>1, <1>6, FewerWait
<1>8. OnTheWay'
  <2>1. ASSUME NEW k \in DOMAIN down' PROVE Truthful(down[k])'
    <3> PICK g : g = down'[k]
      OBVIOUS
    <3>1. Truthful(g)
      BY <1>0, <1>1, <1>2, <2>1 DEF OnTheWay
    <3> QED  BY <1>1, <1>7, <3>1 DEF Truthful
  <2> QED  BY <1>1, <1>2, <2>1 DEF OnTheWay
<1>9. RefusedNever'
  <2>1. \A i \in RefusedBy(f) : Never(i)
    <3> SUFFICES ASSUME NEW i \in RefusedBy(f) PROVE Never(i)
      OBVIOUS
    <3>1. i \in Requests /\ i \in Nat
      BY ParityIs DEF RefusedBy
    <3>2. CASE f.type = "rst" /\ f.why = "refused" /\ i = f.id
      BY <1>3, <3>1, <3>2 DEF Truthful
    <3>3. CASE f.type = "goaway" /\ (f.id = 0 \/ IsMine(f.id)) /\ i > f.id
      <4>1. server.last <= f.id /\ f.id \in Nat
        BY <1>3, <3>3 DEF Truthful
      <4>2. i > server.last
        BY <1>0, <3>1, <3>3, <4>1 DEF ServerShape
      <4> QED  BY <1>0, <3>1, <4>2 DEF ServerKnows, Never
    <3> QED  BY <3>2, <3>3 DEF RefusedBy
  <2> QED  BY <1>0, <1>4, <1>7, <2>1 DEF Leads, RefusedNever
<1>10. Shape(c') /\ ServerShape'
  BY <1>0, <1>1, <1>4 DEF Leads, ServerShape
<1> QED  BY <1>5, <1>7, <1>8, <1>9, <1>10 DEF IInv

-----------------------------------------------------------------------------
(* The steps of the server                                                 *)

(***************************************************************************)
(* It answers what is open, opens nothing, and its last stream only falls. *)
(***************************************************************************)
Serves ==
  /\ c' = c /\ ServerShape' /\ server'.last <= server.last
  /\ \A i \in Requests :
       /\ i \in server'.processed =>
            i \in server.processed \/ (server.phase[i] = "open" /\ server'.phase[i] # "open")
       /\ server'.phase[i] = "open" => server.phase[i] = "open"
       /\ server'.phase[i] # "promised"
       /\ server.phase[i] \in {"idle", "reset"} => server'.phase[i] \in {"idle", "reset"}
       /\ i > server'.last => i \notin server'.processed /\ server'.phase[i] # "open"

LEMMA ServesKeeps ==
  ASSUME IInv, Serves, down' = down \/ \E f : down' = Append(down, f) /\ Truthful(f)'
  PROVE  IInv'
<1>0. Shape(c) /\ ServerShape /\ InLine(c) /\ ServerKnows /\ OnTheWay /\ RefusedNever
  BY DEF IInv
<1>1. /\ c' = c /\ ServerShape' /\ server'.last <= server.last
      /\ server'.last \in Nat /\ server.last \in Nat
  BY <1>0 DEF Serves, ServerShape
<1>2. \A i \in Requests : Unsent(c, i)' <=> Unsent(c, i)
  BY <1>1 DEF Unsent
<1>3. ASSUME NEW i \in Requests
      PROVE  /\ Unsent(c, i)' => server'.phase[i] \in {"idle", "reset"} /\ i \notin server'.processed
             /\ server'.phase[i] = "open" => i \notin server'.processed
             /\ server'.phase[i] # "promised"
             /\ i > server'.last => i \notin server'.processed /\ server'.phase[i] # "open"
  <2>1. /\ Unsent(c, i) => server.phase[i] \in {"idle", "reset"} /\ i \notin server.processed
        /\ server.phase[i] = "open" => i \notin server.processed
    BY <1>0 DEF ServerKnows
  <2>2. /\ i \in server'.processed =>
             i \in server.processed \/ (server.phase[i] = "open" /\ server'.phase[i] # "open")
        /\ server'.phase[i] = "open" => server.phase[i] = "open"
        /\ server'.phase[i] # "promised"
        /\ server.phase[i] \in {"idle", "reset"} => server'.phase[i] \in {"idle", "reset"}
        /\ i > server'.last => i \notin server'.processed /\ server'.phase[i] # "open"
    BY DEF Serves
  <2> QED  BY <1>2, <2>1, <2>2
<1>4. ServerKnows'
  BY <1>3 DEF ServerKnows
<1>5. ASSUME NEW i \in Requests, Never(i) PROVE Never(i)'
  <2>1. /\ i \notin server.processed /\ server.phase[i] # "open"
        /\ Unsent(c, i) => i > server.last
    BY <1>5 DEF Never
  <2>2. i \notin server'.processed /\ server'.phase[i] # "open"
    BY <2>1 DEF Serves
  <2>3. Unsent(c, i)' => i > server'.last
    BY <1>1, <1>2, <2>1, ParityIs
  <2> QED  BY <2>2, <2>3 DEF Never
<1>6. ASSUME NEW g, Truthful(g) PROVE Truthful(g)'
  <2>1. g.type = "rst" /\ g.why = "refused" /\ g.id \in Requests => Never(g.id)'
    BY <1>5, <1>6 DEF Truthful
  <2>2. g.type = "goaway" =>
          g.id \in Nat /\ (g.id = 0 \/ IsMine(g.id) => server'.last <= g.id)
    BY <1>1, <1>6 DEF Truthful
  <2> QED  BY <2>1, <2>2 DEF Truthful
<1>7. OnTheWay'
  BY <1>0, <1>6, Sent
<1>8. RefusedNever'
  BY <1>0, <1>1, <1>5 DEF RefusedNever
<1> QED  BY <1>0, <1>1, <1>4, <1>7, <1>8 DEF IInv

LEMMA Harmless == ASSUME NEW f, f.type \notin {"rst", "goaway"} PROVE Truthful(f)'
BY DEF Truthful

\* A step that begins, ends and resets nothing
LEMMA QuietServes ==
  ASSUME IInv, c' = c, DOMAIN server' = ServerFields, server'.phase = server.phase,
         server'.processed = server.processed, server'.last = server.last
  PROVE  Serves
<1>0. ServerShape /\ ServerKnows
  BY DEF IInv
<1>1. ServerShape'
  BY <1>0 DEF ServerShape
<1>2. server'.last <= server.last
  BY <1>0 DEF ServerShape
<1> QED  BY <1>0, <1>1, <1>2 DEF Serves, ServerKnows

\* A step of one stream that is known
LEMMA StreamServes ==
  ASSUME IInv, c' = c, DOMAIN server' = ServerFields, NEW i, NEW x,
         server'.phase = [server.phase EXCEPT ![i] = x], server'.last = server.last,
         \/ i \notin Requests
         \/ x \notin {"open", "promised"} /\ server.phase[i] \notin {"idle", "reset"},
         \/ server'.processed = server.processed
         \/ /\ server'.processed = server.processed \cup {i}
            /\ i \notin Requests \/ server.phase[i] = "open"
  PROVE  Serves
<1>0. ServerShape /\ ServerKnows
  BY DEF IInv
<1>1. ServerShape' /\ server'.last <= server.last
  BY <1>0 DEF ServerShape
<1>2. ASSUME NEW j \in Requests
      PROVE  /\ j \in server'.processed =>
                  j \in server.processed \/ (server.phase[j] = "open" /\ server'.phase[j] # "open")
             /\ server'.phase[j] = "open" => server.phase[j] = "open"
             /\ server'.phase[j] # "promised"
             /\ server.phase[j] \in {"idle", "reset"} => server'.phase[j] \in {"idle", "reset"}
             /\ j > server'.last => j \notin server'.processed /\ server'.phase[j] # "open"
  <2>1. server.phase[j] # "promised" /\ (j > server.last => j \notin server.processed /\ server.phase[j] # "open")
    BY <1>0 DEF ServerKnows
  <2>2. server'.phase[j] = IF j = i THEN x ELSE server.phase[j]
    BY <1>0 DEF ServerShape, Ids
  <2> QED  BY <2>1, <2>2
<1> QED  BY <1>1, <1>2 DEF Serves

LEMMA ServerPrefaceKeeps == ASSUME IInv, ServerPreface PROVE IInv'
<1>1. PICK x \in Settings : /\ Send(SettingsFrame(x))
                            /\ server' = [server EXCEPT !.mode = "up", !.pending = <<x>>]
  BY DEF ServerPreface
<1>2. Serves
  BY <1>1, QuietServes DEF IInv, ServerShape, ServerFields, Send
<1>3. Truthful(SettingsFrame(x))'
  BY Harmless DEF SettingsFrame
<1> QED  BY <1>1, <1>2, <1>3, ServesKeeps DEF Send

LEMMA RespondKeeps == ASSUME IInv, NEW i, Respond(i) PROVE IInv'
<1>1. /\ server.phase[i] \in {"open", "promised"}
      /\ down' = Append(down, Headers(i, FALSE, FALSE)) /\ c' = c
      /\ server' = [server EXCEPT !.phase[i] = "answering", !.processed = @ \cup {i}]
  BY DEF Respond, Send
<1>2. /\ DOMAIN server' = ServerFields /\ server'.last = server.last
      /\ server'.phase = [server.phase EXCEPT ![i] = "answering"]
      /\ server'.processed = server.processed \cup {i}
  BY <1>1 DEF IInv, ServerShape, ServerFields
<1>3. i \notin Requests \/ server.phase[i] = "open"
  BY <1>1 DEF IInv, ServerKnows
<1>4. Serves
  BY <1>1, <1>2, <1>3, StreamServes
<1>5. Truthful(Headers(i, FALSE, FALSE))'
  BY Harmless DEF Headers
<1> QED  BY <1>1, <1>4, <1>5, ServesKeeps

LEMMA SendAnswerKeeps == ASSUME IInv, NEW i \in Ids, SendAnswer(i) PROVE IInv'
<1>1. PICK n \in 1 .. Least(Answer - server.sent[i], Least(server.credit, server.credits[i])) :
      \E end \in {FALSE, n + server.sent[i] = Answer} :
        /\ Send(Data(i, n, end))
        /\ server' = [server EXCEPT !.sent[i] = @ + n, !.credit = @ - n, !.credits[i] = @ - n,
                                    !.phase[i] = IF end THEN "ended" ELSE @]
  BY DEF SendAnswer
<1>2. PICK end \in {FALSE, n + server.sent[i] = Answer} :
           /\ Send(Data(i, n, end))
           /\ server' = [server EXCEPT !.sent[i] = @ + n, !.credit = @ - n, !.credits[i] = @ - n,
                                       !.phase[i] = IF end THEN "ended" ELSE @]
  BY <1>1
<1>3. server.phase[i] = "answering" /\ c' = c
  BY <1>2 DEF SendAnswer, Send
<1> PICK x : x = IF end THEN "ended" ELSE "answering"
  OBVIOUS
<1>4. /\ DOMAIN server' = ServerFields /\ server'.last = server.last
      /\ server'.phase = [server.phase EXCEPT ![i] = x]
      /\ server'.processed = server.processed
  BY <1>2, <1>3 DEF IInv, ServerShape, ServerFields
<1>5. x \notin {"open", "promised"}
  OBVIOUS
<1>6. Serves
  BY <1>3, <1>4, <1>5, StreamServes
<1>7. Truthful(Data(i, n, end))'
  BY Harmless DEF Data
<1> QED  BY <1>2, <1>6, <1>7, ServesKeeps DEF Send

LEMMA TrailersKeeps == ASSUME IInv, NEW i \in Ids, Trailers(i) PROVE IInv'
<1>1. /\ server.phase[i] = "answering"
      /\ down' = Append(down, Headers(i, FALSE, TRUE)) /\ c' = c
      /\ server' = [server EXCEPT !.phase[i] = "ended"]
  BY DEF Trailers, Send
<1>2. /\ DOMAIN server' = ServerFields /\ server'.last = server.last
      /\ server'.phase = [server.phase EXCEPT ![i] = "ended"]
      /\ server'.processed = server.processed
  BY <1>1 DEF IInv, ServerShape, ServerFields
<1>3. Serves
  BY <1>1, <1>2, StreamServes
<1>4. Truthful(Headers(i, FALSE, TRUE))'
  BY Harmless DEF Headers
<1> QED  BY <1>1, <1>3, <1>4, ServesKeeps

LEMMA GrantKeeps == ASSUME IInv, Grant PROVE IInv'
<1>1. CASE /\ Send(Update(0, Window - server.window))
           /\ server' = [server EXCEPT !.window = Window]
  <2>1. Serves
    BY <1>1, QuietServes DEF IInv, ServerShape, ServerFields, Send
  <2> PICK f : f = Update(0, Window - server.window)
    OBVIOUS
  <2>2. Truthful(f)'
    BY Harmless DEF Update
  <2>3. down' = Append(down, f)
    BY <1>1 DEF Send
  <2> QED  BY <2>1, <2>2, <2>3, ServesKeeps
<1>2. CASE \E i \in Requests : /\ Send(Update(i, Window - server.windows[i]))
                               /\ server' = [server EXCEPT !.windows[i] = Window]
  <2>1. PICK i \in Requests : /\ Send(Update(i, Window - server.windows[i]))
                              /\ server' = [server EXCEPT !.windows[i] = Window]
    BY <1>2
  <2>2. Serves
    BY <2>1, QuietServes DEF IInv, ServerShape, ServerFields, Send
  <2> PICK f : f = Update(i, Window - server.windows[i])
    OBVIOUS
  <2>3. Truthful(f)'
    BY Harmless DEF Update
  <2>4. down' = Append(down, f)
    BY <2>1 DEF Send
  <2> QED  BY <2>2, <2>3, <2>4, ServesKeeps
<1>3. CASE LET x == [limit |-> 1, initial |-> server.initial] IN
           Send(SettingsFrame(x)) /\ server' = [server EXCEPT !.pending = <<x>>]
  <2>1. PICK x : Send(SettingsFrame(x)) /\ server' = [server EXCEPT !.pending = <<x>>]
    BY <1>3
  <2>2. Serves
    BY <2>1, QuietServes DEF IInv, ServerShape, ServerFields, Send
  <2>3. Truthful(SettingsFrame(x))'
    BY Harmless DEF SettingsFrame
  <2> QED  BY <2>1, <2>2, <2>3, ServesKeeps DEF Send
<1> QED  BY <1>1, <1>2, <1>3 DEF Grant

LEMMA CloseConnectionKeeps == ASSUME IInv, CloseConnection PROVE IInv'
<1>1. c' = c /\ down' = down /\ server' = [server EXCEPT !.mode = "closed"]
  BY DEF CloseConnection
<1>2. Serves
  BY <1>1, QuietServes DEF IInv, ServerShape, ServerFields
<1> QED  BY <1>1, <1>2, ServesKeeps

LEMMA ChangeSettingsKeeps == ASSUME IInv, ChangeSettings PROVE IInv'
<1>1. PICK x : Send(SettingsFrame(x)) /\ server' = [server EXCEPT !.pending = Append(@, x)]
  BY DEF ChangeSettings
<1>2. Serves
  BY <1>1, QuietServes DEF IInv, ServerShape, ServerFields, Send
<1>3. Truthful(SettingsFrame(x))'
  BY Harmless DEF SettingsFrame
<1> QED  BY <1>1, <1>2, <1>3, ServesKeeps DEF Send

LEMMA PingKeeps == ASSUME IInv, Ping PROVE IInv'
<1>1. c' = c /\ down' = Append(down, Frame("ping", 0)) /\ server' = server
  BY DEF Ping, Send
<1>2. Serves
  BY <1>1, QuietServes DEF IInv, ServerShape
<1>3. Truthful(Frame("ping", 0))'
  BY Harmless DEF Frame
<1> QED  BY <1>1, <1>2, <1>3, ServesKeeps

LEMMA ResetKeeps == ASSUME IInv, NEW i \in Ids, Reset(i) PROVE IInv'
<1>1. PICK why \in {"reset"} \cup (IF server.phase[i] = "open" THEN {"refused"} ELSE {}) :
        Send([type |-> "rst", id |-> i, why |-> why])
  BY DEF Reset
<1>2. /\ server.phase[i] \in {"open", "answering", "promised"}
      /\ server' = [server EXCEPT !.phase[i] = "reset"] /\ c' = c
  BY DEF Reset, Send
<1>3. /\ DOMAIN server' = ServerFields /\ server'.last = server.last
      /\ server'.phase = [server.phase EXCEPT ![i] = "reset"]
      /\ server'.processed = server.processed
  BY <1>2 DEF IInv, ServerShape, ServerFields
<1>4. Serves
  BY <1>2, <1>3, StreamServes DEF Ids
<1> PICK f : f = [type |-> "rst", id |-> i, why |-> why]
  OBVIOUS
<1>5. why = "refused" /\ i \in Requests => Never(i)'
  <2> SUFFICES ASSUME why = "refused", i \in Requests PROVE Never(i)'
    OBVIOUS
  <2>1. server.phase[i] = "open"
    BY <1>1
  <2>2. i \notin server.processed /\ ~Unsent(c, i)
    BY <2>1 DEF IInv, ServerKnows
  <2>3. server'.phase[i] = "reset"
    BY <1>3 DEF IInv, ServerShape
  <2>4. ~Unsent(c, i)'
    BY <1>2, <2>2 DEF Unsent
  <2> QED  BY <1>3, <2>2, <2>3, <2>4 DEF Never
<1>6. Truthful(f)'
  BY <1>5 DEF Truthful
<1>7. down' = Append(down, f)
  BY <1>1 DEF Send
<1> QED  BY <1>4, <1>6, <1>7, ServesKeeps

LEMMA GoAwayKeeps == ASSUME IInv, GoAway PROVE IInv'
<1>1. PICK last \in {0} \cup Requests :
        /\ last <= server.last /\ \A i \in server.processed \cap Requests : i <= last
        /\ Send(Frame("goaway", last))
        /\ server' = [server EXCEPT !.mode = "leaving", !.last = last,
             !.phase = [i \in Ids |-> IF i \in Requests /\ i > last /\ @[i] = "open" THEN "reset"
                                      ELSE @[i]]]
  BY DEF GoAway
<1>2. last \in Nat
  BY ParityIs
<1>3. /\ DOMAIN server' = ServerFields /\ server'.last = last
      /\ server'.phase = [i \in Ids |-> IF i \in Requests /\ i > last /\ server.phase[i] = "open"
                                        THEN "reset" ELSE server.phase[i]]
      /\ server'.processed = server.processed
  BY <1>1 DEF IInv, ServerShape, ServerFields
<1>4. ServerShape' /\ server'.last <= server.last
  BY <1>1, <1>2, <1>3 DEF ServerShape
<1>5. ASSUME NEW i \in Requests
      PROVE  /\ server'.phase[i] = "open" => server.phase[i] = "open"
             /\ server'.phase[i] # "promised"
             /\ server.phase[i] \in {"idle", "reset"} => server'.phase[i] \in {"idle", "reset"}
             /\ i > server'.last => i \notin server'.processed /\ server'.phase[i] # "open"
  <2>1. server'.phase[i] = IF i > last /\ server.phase[i] = "open" THEN "reset" ELSE server.phase[i]
    BY <1>3 DEF Ids
  <2>2. server.phase[i] # "promised"
    BY DEF IInv, ServerKnows
  <2>3. i > last => i \notin server.processed
    BY <1>1, <1>2, ParityIs
  <2> QED  BY <1>3, <2>1, <2>2, <2>3
<1>6. Serves
  BY <1>1, <1>3, <1>4, <1>5 DEF Serves, Send
<1>7. Truthful(Frame("goaway", last))'
  BY <1>2, <1>3 DEF Truthful, Frame
<1> QED  BY <1>1, <1>6, <1>7, ServesKeeps DEF Send

LEMMA PromiseKeeps == ASSUME IInv, NEW i \in Requests, NEW p \in Promises, Promise(i, p) PROVE IInv'
<1> PICK f : f = [type |-> "push", id |-> i, promised |-> p]
  OBVIOUS
<1>1. down' = Append(down, f) /\ c' = c /\ server' = [server EXCEPT !.phase[p] = "promised"]
  BY DEF Promise, Send
<1>2. /\ DOMAIN server' = ServerFields /\ server'.last = server.last
      /\ server'.phase = [server.phase EXCEPT ![p] = "promised"]
      /\ server'.processed = server.processed
  BY <1>1 DEF IInv, ServerShape, ServerFields
<1>3. p \in Ids /\ p \notin Requests
  BY ParityIs DEF Ids
<1>4. Serves
  BY <1>1, <1>2, <1>3, StreamServes
<1>5. Truthful(f)'
  BY DEF Truthful
<1> QED  BY <1>1, <1>4, <1>5, ServesKeeps

\* What is wrong refuses no request: a GOAWAY with the number of a promise is an error.
LEMMA WrongIsHarmless == ASSUME IInv, NEW f \in WrongFrames PROVE Truthful(f)'
<1> DEFINE good == {Headers(i, FALSE, FALSE) : i \in Known}
           bad == {Headers(i, TRUE, TRUE) : i \in Known}
           ends == {Frame("ack", 0), Frame("goaway", 2)}
           rsts == {[type |-> "rst", id |-> i, why |-> "reset"] :
                      i \in {p \in Promises : server.phase[p] = "idle"}}
<1>1. f \in good \cup bad \cup ends \cup rsts \cup WrongPushes
  BY DEF WrongFrames
<1>2. CASE f \in good \cup bad
  BY <1>2, Harmless DEF Headers
<1>3. CASE f = Frame("ack", 0)
  BY <1>3, Harmless DEF Frame
<1>4. CASE f = Frame("goaway", 2)
  <2>1. f.type = "goaway" /\ f.id = 2
    BY <1>4 DEF Frame
  <2>2. 2 \in Nat /\ 2 # 0 /\ ~IsMine(2)
    BY DEF IsMine
  <2> QED  BY <2>1, <2>2 DEF Truthful
<1>5. CASE f \in rsts
  BY <1>5 DEF Truthful
<1>6. CASE f \in WrongPushes
  <2>1. f.type = "push"
    BY <1>6 DEF WrongPushes
  <2> QED  BY <2>1, Harmless
<1> HIDE DEF good, bad, rsts
<1> QED  BY <1>1, <1>2, <1>3, <1>4, <1>5, <1>6

LEMMA MisbehaveKeeps == ASSUME IInv, Misbehave PROVE IInv'
<1>1. CASE \E f \in WrongFrames : Send(f) /\ UNCHANGED server
  <2>1. PICK f \in WrongFrames : Send(f) /\ UNCHANGED server
    BY <1>1
  <2>2. Serves
    BY <2>1, QuietServes DEF IInv, ServerShape, Send
  <2> QED  BY <2>1, <2>2, WrongIsHarmless, ServesKeeps DEF Send
<1>2. CASE \E i \in Known, n \in {0, MaxWindow} :
             Send(Update(i, n)) /\ server' = [server EXCEPT !.windows[i] = @ + n]
  <2>1. PICK i \in Known, n \in {0, MaxWindow} :
          Send(Update(i, n)) /\ server' = [server EXCEPT !.windows[i] = @ + n]
    BY <1>2
  <2>2. Serves
    BY <2>1, QuietServes DEF IInv, ServerShape, ServerFields, Send
  <2>3. Truthful(Update(i, n))'
    BY Harmless DEF Update
  <2> QED  BY <2>1, <2>2, <2>3, ServesKeeps DEF Send
<1>3. CASE \E n \in {0, MaxWindow} :
             Send(Update(0, n)) /\ server' = [server EXCEPT !.window = @ + n]
  <2>1. PICK n \in {0, MaxWindow} :
          Send(Update(0, n)) /\ server' = [server EXCEPT !.window = @ + n]
    BY <1>3
  <2>2. Serves
    BY <2>1, QuietServes DEF IInv, ServerShape, ServerFields, Send
  <2>3. Truthful(Update(0, n))'
    BY Harmless DEF Update
  <2> QED  BY <2>1, <2>2, <2>3, ServesKeeps DEF Send
<1>4. CASE \E i \in Known : Send(Data(i, 1, FALSE)) /\ server' = [server EXCEPT !.credit = @ - 1]
  <2>1. PICK i \in Known : Send(Data(i, 1, FALSE)) /\ server' = [server EXCEPT !.credit = @ - 1]
    BY <1>4
  <2>2. Serves
    BY <2>1, QuietServes DEF IInv, ServerShape, ServerFields, Send
  <2>3. Truthful(Data(i, 1, FALSE))'
    BY Harmless DEF Data
  <2> QED  BY <2>1, <2>2, <2>3, ServesKeeps DEF Send
<1> QED  BY <1>1, <1>2, <1>3, <1>4 DEF Misbehave

-----------------------------------------------------------------------------
(* The invariant                                                           *)

LEMMA InitKeeps == Init => IInv
<1> SUFFICES ASSUME Init PROVE IInv
  OBVIOUS
<1>1. PICK order \in [1 .. Cardinality(Requests) -> Requests] :
        /\ \A j, k \in DOMAIN order : j < k => order[j] < order[k]
        /\ c = Session([k \in DOMAIN order |-> Headers(order[k], FALSE, FALSE)])
  BY DEF Init
<1> DEFINE n == Cardinality(Requests)
           q == [k \in 1 .. n |-> Headers(order[k], FALSE, FALSE)]
<1>2. n \in Nat
  BY IdsFinite DEF Ids
<1>3. /\ DOMAIN c = SessionFields /\ c.urgent = <<Frame("settings", 0)>> /\ c.reg = <<>>
      /\ c.syn = q /\ c.aob = NoFrame /\ c.closed = [i \in Ids |-> "no"]
  BY <1>1 DEF Session, SessionFields
<1>4. Shape(c)
  <2>1. Plain(<<>>)
    BY DEF Plain, IsSequence
  <2>2. Plain(<<Frame("settings", 0)>>)
    BY DEF Plain, IsSequence, Frame
  <2> QED  BY <1>3, <2>1, <2>2 DEF Shape
<1>5. InLine(c)
  <2>1. \A k \in 1 .. n : q[k].type = "headers" /\ q[k].id = order[k] /\ order[k] \in Requests
    BY DEF Headers
  <2>2. IsSequence(q) /\ DOMAIN q = 1 .. n
    BY <1>2, LineIs DEF Headers
  <2>3. \A j, k \in 1 .. n : j < k => order[j] < order[k]
    BY <1>1
  <2> HIDE DEF q, n
  <2> QED  BY <1>3, <2>1, <2>2, <2>3 DEF InLine, NoFrame, Frame
<1>6. /\ DOMAIN server = ServerFields /\ server.phase = [i \in Ids |-> "idle"] /\ server.last = LastId
      /\ server.processed = {} /\ down = <<>>
  BY DEF Init, ServerFields
<1>7. ServerShape /\ ServerKnows
  BY <1>6 DEF ServerShape, ServerKnows, LastId, Ids
<1>8. OnTheWay
  BY <1>6 DEF OnTheWay, IsSequence
<1>9. RefusedNever
  BY <1>3 DEF RefusedNever, Ids
<1> QED  BY <1>4, <1>5, <1>7, <1>8, <1>9 DEF IInv

LEMMA IInvStep == IInv /\ [Next]_sessionVars => IInv'
<1> SUFFICES ASSUME IInv, [Next]_sessionVars PROVE IInv'
  OBVIOUS
<1>1. CASE Execute
  BY <1>1, PrepFrameKeeps, WriteFrameKeeps, WaitKeeps, ReceiveKeeps DEF Execute
<1>2. CASE Serve
  <2>1. CASE Answers
    BY <2>1, RespondKeeps, SendAnswerKeeps, TrailersKeeps DEF Answers
  <2> QED  BY <1>2, <2>1, ServerPrefaceKeeps, GrantKeeps, CloseConnectionKeeps DEF Serve
<1>3. CASE Disturb
  BY <1>3, ChangeSettingsKeeps, PingKeeps, GoAwayKeeps, MisbehaveKeeps, ResetKeeps, RespondKeeps,
     PromiseKeeps DEF Disturb
<1>4. CASE UNCHANGED sessionVars
  <2>1. c' = c /\ down' = down /\ server' = server
    BY <1>4 DEF sessionVars
  <2>2. Serves
    BY <2>1, QuietServes DEF IInv, ServerShape
  <2> QED  BY <2>1, <2>2, ServesKeeps
<1> QED  BY <1>1, <1>2, <1>3, <1>4 DEF Next

(***************************************************************************)
(* A request that the session reports as refused was not processed, and    *)
(* can be sent again (nghttp2_session_on_goaway_received,                  *)
(* session_close_stream_on_goaway).                                        *)
(***************************************************************************)
THEOREM RefusedCanBeSentAgain == Spec => []RefusedUnprocessed
<1>1. IInv => RefusedUnprocessed
  BY DEF IInv, RefusedNever, Never, RefusedUnprocessed
<1> QED  BY <1>1, InitKeeps, IInvStep, PTL DEF Spec

-----------------------------------------------------------------------------
(* Sums                                                                    *)

(***************************************************************************)
(* g counts the numbers of q together.                                     *)
(***************************************************************************)
Adds(q, g) == g[0] = 0 /\ \A k \in 1 .. Len(q) : g[k] = g[k - 1] + q[k]

LEMMA LeastExists ==
  ASSUME NEW T, T \subseteq Nat, T # {}
  PROVE  \E x \in T : \A y \in T : x <= y
<1>1. PICK x \in T : \A y \in T : ~ (<<y, x>> \in OpToRel(<, Nat))
  BY WFMin, NatLessThanWellFounded, Zenon
<1>2. \A y \in T : ~ (y < x)
  BY <1>1 DEF OpToRel
<1> QED  BY <1>2

LEMMA AddsExists ==
  ASSUME NEW q \in Seq(Int)
  PROVE  \E g \in [0 .. Len(q) -> Int] : Adds(q, g)
<1> DEFINE Part(n, g) == g[0] = 0 /\ \A k \in 1 .. n : g[k] = g[k - 1] + q[k]
           Made(n) == \E g \in [0 .. n -> Int] : Part(n, g)
           T == {n \in 0 .. Len(q) : ~ Made(n)}
<1>1. Len(q) \in Nat /\ \A k \in 1 .. Len(q) : q[k] \in Int
  OBVIOUS
<1>2. SUFFICES ASSUME T # {} PROVE FALSE
  <2>1. Made(Len(q)) => \E g \in [0 .. Len(q) -> Int] : Adds(q, g)
    BY DEF Adds
  <2> HIDE DEF Made
  <2> QED  BY <1>1, <2>1
<1>3. PICK n \in T : \A m \in T : n <= m
  <2>1. T \subseteq Nat
    OBVIOUS
  <2> QED  BY <1>2, <2>1, LeastExists
<1>4. n # 0
  <2>1. [k \in 0 .. 0 |-> 0] \in [0 .. 0 -> Int] /\ Part(0, [k \in 0 .. 0 |-> 0])
    OBVIOUS
  <2> QED  BY <2>1
<1>5. n \in 1 .. Len(q) /\ n - 1 \in 0 .. Len(q)
  BY <1>1, <1>4
<1>6. PICK g \in [0 .. n - 1 -> Int] : Part(n - 1, g)
  <2> HIDE DEF Made
  <2>1. Made(n - 1)
    <3>1. n - 1 \notin T
      BY <1>3, <1>5
    <3> QED  BY <1>5, <3>1
  <2> USE DEF Made
  <2> QED  BY <2>1
<1> DEFINE h == [k \in 0 .. n |-> IF k = n THEN g[n - 1] + q[n] ELSE g[k]]
<1>7. h \in [0 .. n -> Int]
  <2>1. n - 1 \in 0 .. n - 1 /\ g[n - 1] + q[n] \in Int
    BY <1>1, <1>5
  <2>2. \A k \in 0 .. n : k # n => k \in 0 .. n - 1
    BY <1>5
  <2> QED  BY <2>1, <2>2
<1>8. Part(n, h)
  BY <1>5, <1>6
<1> QED  BY <1>7, <1>8

LEMMA TotalIs ==
  ASSUME NEW q \in Seq(Int), NEW g \in [0 .. Len(q) -> Int], Adds(q, g)
  PROVE  Total(q) = g[Len(q)]
<1> DEFINE Longer(f) == [k \in 0 .. Len(q) |-> IF k = 0 THEN 0 ELSE f[k - 1] + q[k]]
           t == CHOOSE f : f = Longer(f)
           T == {k \in 0 .. Len(q) : t[k] # g[k]}
<1>1. Len(q) \in Nat
  OBVIOUS
<1>2. g = Longer(g)
  <2>1. \A k \in 0 .. Len(q) : g[k] = IF k = 0 THEN 0 ELSE g[k - 1] + q[k]
    BY <1>1 DEF Adds
  <2> QED  BY <2>1
<1>3. t = Longer(t)
  BY <1>2
<1>4. Total(q) = t[Len(q)]
  BY DEF Total
<1> HIDE DEF t
<1>5. T = {}
  <2>1. SUFFICES ASSUME T # {} PROVE FALSE
    OBVIOUS
  <2>2. PICK n \in T : \A m \in T : n <= m
    <3>1. T \subseteq Nat
      OBVIOUS
    <3> QED  BY <2>1, <3>1, LeastExists
  <2>3. t[0] = 0
    BY <1>1, <1>3
  <2>4. n \in 1 .. Len(q) /\ n - 1 \in 0 .. Len(q)
    BY <1>1, <2>2, <2>3 DEF Adds
  <2>5. t[n - 1] = g[n - 1]
    BY <2>2, <2>4
  <2>6. t[n] = t[n - 1] + q[n]
    BY <1>3, <2>4
  <2> QED  BY <2>2, <2>4, <2>5, <2>6 DEF Adds
<1> QED  BY <1>1, <1>4, <1>5

LEMMA TotalInt == ASSUME NEW q \in Seq(Int) PROVE Total(q) \in Int
<1>1. PICK g \in [0 .. Len(q) -> Int] : Adds(q, g)
  BY AddsExists
<1>2. Len(q) \in 0 .. Len(q)
  OBVIOUS
<1> QED  BY <1>1, <1>2, TotalIs

LEMMA TotalEmpty == ASSUME NEW q, q = <<>> PROVE Total(q) = 0
<1> DEFINE g == [k \in 0 .. 0 |-> 0]
<1>1. q \in Seq(Int) /\ Len(q) = 0
  OBVIOUS
<1>2. g \in [0 .. Len(q) -> Int] /\ Adds(q, g) /\ g[Len(q)] = 0
  BY <1>1 DEF Adds
<1> HIDE DEF g
<1> QED  BY <1>1, <1>2, TotalIs

LEMMA TotalAppend ==
  ASSUME NEW q \in Seq(Int), NEW x \in Int
  PROVE  Total(Append(q, x)) = Total(q) + x
<1>1. PICK g \in [0 .. Len(q) -> Int] : Adds(q, g)
  BY AddsExists
<1> DEFINE n == Len(q)
           h == [k \in 0 .. n + 1 |-> IF k = n + 1 THEN g[n] + x ELSE g[k]]
<1>2. /\ n \in Nat /\ Append(q, x) \in Seq(Int) /\ Len(Append(q, x)) = n + 1
      /\ \A k \in 1 .. n : Append(q, x)[k] = q[k]
      /\ Append(q, x)[n + 1] = x
  OBVIOUS
<1>3. g[n] \in Int /\ \A k \in 0 .. n + 1 : k # n + 1 => k \in 0 .. n /\ g[k] \in Int
  BY <1>2
<1>4. h \in [0 .. n + 1 -> Int] /\ h[n + 1] = g[n] + x
  BY <1>2, <1>3
<1>5. Adds(Append(q, x), h)
  <2>1. h[0] = 0
    BY <1>1, <1>2 DEF Adds
  <2>2. ASSUME NEW k \in 1 .. n + 1 PROVE h[k] = h[k - 1] + Append(q, x)[k]
    <3>1. k - 1 \in 0 .. n /\ h[k - 1] = g[k - 1]
      BY <1>2
    <3>2. CASE k = n + 1
      BY <1>2, <1>4, <3>1, <3>2
    <3>3. CASE k # n + 1
      <4>1. k \in 1 .. n /\ h[k] = g[k]
        BY <1>2, <3>3
      <4> QED  BY <1>1, <1>2, <3>1, <4>1 DEF Adds
    <3> QED  BY <3>2, <3>3
  <2> QED  BY <1>2, <2>1, <2>2 DEF Adds
<1> HIDE DEF h
<1>6. Total(Append(q, x)) = h[n + 1]
  BY <1>2, <1>4, <1>5, TotalIs
<1>7. Total(q) = g[n]
  BY <1>1, TotalIs
<1> QED  BY <1>4, <1>6, <1>7

LEMMA TotalTail ==
  ASSUME NEW q \in Seq(Int), q # <<>>
  PROVE  Total(q) = Head(q) + Total(Tail(q))
<1>1. PICK g \in [0 .. Len(q) -> Int] : Adds(q, g)
  BY AddsExists
<1> DEFINE n == Len(q)
           h == [k \in 0 .. n - 1 |-> g[k + 1] - Head(q)]
<1>2. /\ n \in Nat \ {0} /\ Tail(q) \in Seq(Int) /\ Len(Tail(q)) = n - 1
      /\ \A k \in 1 .. n - 1 : Tail(q)[k] = q[k + 1]
      /\ Head(q) = q[1] /\ Head(q) \in Int
  OBVIOUS
<1>3. \A k \in 0 .. n - 1 : k + 1 \in 0 .. n /\ g[k + 1] \in Int
  BY <1>2
<1>4. h \in [0 .. n - 1 -> Int] /\ h[n - 1] = g[n] - Head(q)
  BY <1>2, <1>3
<1>5. Adds(Tail(q), h)
  <2>1. h[0] = 0
    <3>1. g[1] = 0 + q[1]
      <4>1. 1 \in 1 .. n /\ 1 - 1 = 0
        BY <1>2
      <4> QED  BY <1>1, <4>1 DEF Adds
    <3> QED  BY <1>2, <3>1
  <2>2. ASSUME NEW k \in 1 .. n - 1 PROVE h[k] = h[k - 1] + Tail(q)[k]
    <3>1. /\ k + 1 \in 1 .. n /\ k - 1 \in 0 .. n - 1 /\ k \in 0 .. n - 1
          /\ (k + 1) - 1 = k /\ (k - 1) + 1 = k /\ g[k] \in Int
      BY <1>2
    <3>2. g[k + 1] = g[k] + q[k + 1]
      BY <1>1, <3>1 DEF Adds
    <3> QED  BY <1>2, <1>3, <3>1, <3>2
  <2> QED  BY <1>2, <2>1, <2>2 DEF Adds
<1> HIDE DEF h
<1>6. Total(Tail(q)) = h[n - 1]
  BY <1>2, <1>4, <1>5, TotalIs
<1>7. Total(q) = g[n] /\ g[n] \in Int
  BY <1>1, <1>2, TotalIs
<1> QED  BY <1>2, <1>4, <1>6, <1>7

FunctionOn(a, S) == a = [k \in S |-> a[k]]

LEMMA SequenceForm ==
  ASSUME NEW q, IsSequence(q)
  PROVE  q = [k \in DOMAIN q |-> q[k]]
<1>1. q \in Seq({q[k] : k \in DOMAIN q})
  BY DEF IsSequence
<1> DEFINE S == {q[k] : k \in DOMAIN q}
<1> HIDE DEF S
<1>2. ASSUME NEW r \in Seq(S) PROVE r = [k \in DOMAIN r |-> r[k]]
  OBVIOUS
<1> QED  BY <1>1, <1>2 DEF S

LEMMA WeighedAppend ==
  ASSUME NEW q, IsSequence(q), NEW x,
         NEW a, FunctionOn(a, DOMAIN q), \A k \in DOMAIN q : a[k] \in Int,
         NEW b, FunctionOn(b, DOMAIN Append(q, x)), \A k \in DOMAIN q : b[k] = a[k],
         b[Len(q) + 1] \in Int
  PROVE  Total(a) \in Int /\ Total(b) = Total(a) + b[Len(q) + 1]
<1>1. Len(q) \in Nat /\ DOMAIN q = 1 .. Len(q) /\ DOMAIN Append(q, x) = 1 .. Len(q) + 1
  BY SequenceFacts, Appended
<1> DEFINE n == Len(q)
           y == b[n + 1]
<1> HIDE DEF n
<1>2. a \in Seq(Int) /\ Len(a) = n
  <2>1. n \in Nat /\ a = [k \in 1 .. n |-> a[k]] /\ \A k \in 1 .. n : a[k] \in Int
    BY <1>1 DEF n, FunctionOn
  <2>2. a \in [1 .. n -> Int]
    BY <2>1
  <2> QED  BY <2>1, <2>2
<1>3. b = Append(a, y)
  <2>1. n \in Nat /\ b = [k \in 1 .. n + 1 |-> b[k]] /\ \A k \in 1 .. n : b[k] = a[k]
    BY <1>1 DEF n, FunctionOn
  <2>2. Append(a, y) = [k \in 1 .. n + 1 |-> IF k = n + 1 THEN y ELSE a[k]]
    BY <1>2, <2>1
  <2>3. \A k \in 1 .. n + 1 : b[k] = IF k = n + 1 THEN y ELSE a[k]
    <3>1. \A k \in 1 .. n + 1 : k # n + 1 => k \in 1 .. n
      BY <2>1
    <3> QED  BY <2>1, <3>1
  <2> QED  BY <2>1, <2>2, <2>3
<1>4. y \in Int /\ y = b[Len(q) + 1]
  BY DEF n
<1> HIDE DEF y
<1>5. Total(b) = Total(a) + y
  BY <1>2, <1>3, <1>4, TotalAppend
<1> QED  BY <1>2, <1>4, <1>5, TotalInt

LEMMA WeighedTail ==
  ASSUME NEW q, IsSequence(q), q # <<>>,
         NEW a, FunctionOn(a, DOMAIN q), \A k \in DOMAIN q : a[k] \in Int,
         NEW b, FunctionOn(b, DOMAIN Tail(q)), \A k \in DOMAIN Tail(q) : b[k] = a[k + 1]
  PROVE  Total(b) \in Int /\ Total(a) = a[1] + Total(b)
<1>1. Len(q) \in Nat \ {0} /\ DOMAIN q = 1 .. Len(q) /\ DOMAIN Tail(q) = 1 .. Len(q) - 1
  BY SequenceFacts, TailIs
<1> DEFINE n == Len(q)
<1> HIDE DEF n
<1>2. a \in Seq(Int) /\ Len(a) = n
  <2>1. n \in Nat /\ a = [k \in 1 .. n |-> a[k]] /\ \A k \in 1 .. n : a[k] \in Int
    BY <1>1 DEF n, FunctionOn
  <2>2. a \in [1 .. n -> Int]
    BY <2>1
  <2> QED  BY <2>1, <2>2
<1>3. b = Tail(a) /\ a # <<>> /\ Head(a) = a[1]
  <2>1. n \in Nat \ {0} /\ b = [k \in 1 .. n - 1 |-> b[k]] /\ \A k \in 1 .. n - 1 : b[k] = a[k + 1]
    BY <1>1 DEF n, FunctionOn
  <2>2. Tail(a) = [k \in 1 .. n - 1 |-> a[k + 1]]
    <3>1. IsSequence(a) /\ a # <<>>
      BY <1>2, <2>1, SequenceIs
    <3>2. /\ IsSequence(Tail(a)) /\ DOMAIN Tail(a) = 1 .. n - 1
          /\ \A k \in 1 .. n - 1 : Tail(a)[k] = a[k + 1]
      BY <1>2, <3>1, TailIs
    <3>3. Tail(a) = [k \in DOMAIN Tail(a) |-> Tail(a)[k]]
      BY <3>2, SequenceForm
    <3> QED  BY <3>2, <3>3
  <2>3. b = Tail(a)
    BY <2>1, <2>2
  <2>4. a # <<>> /\ Head(a) = a[1]
    <3>1. Len(a) # 0
      BY <1>2, <2>1
    <3> QED  BY <1>2, <3>1
  <2> QED  BY <2>3, <2>4
<1>4. Tail(a) \in Seq(Int)
  BY <1>2, <1>3
<1> QED  BY <1>2, <1>3, <1>4, TotalTail, TotalInt

CountsData(q) == IsSequence(q) /\ \A k \in DOMAIN q : DataIn(q[k]) \in Int

CountsReturned(q) == IsSequence(q) /\ \A k \in DOMAIN q : Returned(q[k]) \in Int

LEMMA DataAppended ==
  ASSUME NEW q, CountsData(q), NEW f, DataIn(f) \in Int
  PROVE  /\ CountsData(Append(q, f)) /\ AllData(q) \in Int
         /\ AllData(Append(q, f)) = AllData(q) + DataIn(f)
<1>1. /\ IsSequence(Append(q, f)) /\ DOMAIN Append(q, f) = 1 .. Len(q) + 1
      /\ \A k \in 1 .. Len(q) : Append(q, f)[k] = q[k]
      /\ Append(q, f)[Len(q) + 1] = f
      /\ Len(q) \in Nat /\ DOMAIN q = 1 .. Len(q)
  BY Appended, SequenceFacts DEF CountsData
<1>2. CountsData(Append(q, f))
  BY <1>1, AppendedIs DEF CountsData
<1> DEFINE a == [k \in DOMAIN q |-> DataIn(q[k])]
           b == [k \in DOMAIN Append(q, f) |-> DataIn(Append(q, f)[k])]
<1>3. /\ FunctionOn(a, DOMAIN q) /\ \A k \in DOMAIN q : a[k] \in Int
      /\ FunctionOn(b, DOMAIN Append(q, f)) /\ \A k \in DOMAIN q : b[k] = a[k]
      /\ b[Len(q) + 1] = DataIn(f)
  BY <1>1 DEF CountsData, FunctionOn
<1>4. AllData(q) = Total(a) /\ AllData(Append(q, f)) = Total(b)
  BY DEF AllData
<1> HIDE DEF a, b
<1>5. IsSequence(q) /\ b[Len(q) + 1] \in Int
  BY <1>3 DEF CountsData
<1>6. Total(a) \in Int /\ Total(b) = Total(a) + b[Len(q) + 1]
  BY <1>3, <1>5, WeighedAppend
<1> QED  BY <1>2, <1>3, <1>4, <1>6

LEMMA DataTail ==
  ASSUME NEW q, CountsData(q), q # <<>>
  PROVE  /\ CountsData(Tail(q)) /\ AllData(Tail(q)) \in Int /\ DataIn(Head(q)) \in Int
         /\ AllData(q) = DataIn(Head(q)) + AllData(Tail(q))
<1>1. /\ IsSequence(Tail(q)) /\ Len(q) \in Nat \ {0} /\ DOMAIN Tail(q) = 1 .. Len(q) - 1
      /\ \A k \in 1 .. Len(q) - 1 : Tail(q)[k] = q[k + 1] /\ k + 1 \in DOMAIN q
      /\ Head(q) = q[1] /\ 1 \in DOMAIN q
  BY TailIs DEF CountsData
<1>2. CountsData(Tail(q)) /\ DataIn(Head(q)) \in Int
  BY <1>1 DEF CountsData
<1> DEFINE a == [k \in DOMAIN q |-> DataIn(q[k])]
           b == [k \in DOMAIN Tail(q) |-> DataIn(Tail(q)[k])]
<1>3. /\ FunctionOn(a, DOMAIN q) /\ \A k \in DOMAIN q : a[k] \in Int
      /\ FunctionOn(b, DOMAIN Tail(q)) /\ \A k \in DOMAIN Tail(q) : b[k] = a[k + 1]
      /\ a[1] = DataIn(Head(q))
  BY <1>1 DEF CountsData, FunctionOn
<1>4. AllData(q) = Total(a) /\ AllData(Tail(q)) = Total(b)
  BY DEF AllData
<1> HIDE DEF a, b
<1>5. IsSequence(q)
  BY DEF CountsData
<1>6. Total(b) \in Int /\ Total(a) = a[1] + Total(b)
  BY <1>3, <1>5, WeighedTail
<1> QED  BY <1>2, <1>3, <1>4, <1>6

LEMMA ReturnedAppended ==
  ASSUME NEW q, CountsReturned(q), NEW f, Returned(f) \in Int
  PROVE  /\ CountsReturned(Append(q, f)) /\ AllReturned(q) \in Int
         /\ AllReturned(Append(q, f)) = AllReturned(q) + Returned(f)
<1>1. /\ IsSequence(Append(q, f)) /\ DOMAIN Append(q, f) = 1 .. Len(q) + 1
      /\ \A k \in 1 .. Len(q) : Append(q, f)[k] = q[k]
      /\ Append(q, f)[Len(q) + 1] = f
      /\ Len(q) \in Nat /\ DOMAIN q = 1 .. Len(q)
  BY Appended, SequenceFacts DEF CountsReturned
<1>2. CountsReturned(Append(q, f))
  BY <1>1, AppendedIs DEF CountsReturned
<1> DEFINE a == [k \in DOMAIN q |-> Returned(q[k])]
           b == [k \in DOMAIN Append(q, f) |-> Returned(Append(q, f)[k])]
<1>3. /\ FunctionOn(a, DOMAIN q) /\ \A k \in DOMAIN q : a[k] \in Int
      /\ FunctionOn(b, DOMAIN Append(q, f)) /\ \A k \in DOMAIN q : b[k] = a[k]
      /\ b[Len(q) + 1] = Returned(f)
  BY <1>1 DEF CountsReturned, FunctionOn
<1>4. AllReturned(q) = Total(a) /\ AllReturned(Append(q, f)) = Total(b)
  BY DEF AllReturned
<1> HIDE DEF a, b
<1>5. IsSequence(q) /\ b[Len(q) + 1] \in Int
  BY <1>3 DEF CountsReturned
<1>6. Total(a) \in Int /\ Total(b) = Total(a) + b[Len(q) + 1]
  BY <1>3, <1>5, WeighedAppend
<1> QED  BY <1>2, <1>3, <1>4, <1>6

LEMMA ReturnedTail ==
  ASSUME NEW q, CountsReturned(q), q # <<>>
  PROVE  /\ CountsReturned(Tail(q)) /\ AllReturned(Tail(q)) \in Int /\ Returned(Head(q)) \in Int
         /\ AllReturned(q) = Returned(Head(q)) + AllReturned(Tail(q))
<1>1. /\ IsSequence(Tail(q)) /\ Len(q) \in Nat \ {0} /\ DOMAIN Tail(q) = 1 .. Len(q) - 1
      /\ \A k \in 1 .. Len(q) - 1 : Tail(q)[k] = q[k + 1] /\ k + 1 \in DOMAIN q
      /\ Head(q) = q[1] /\ 1 \in DOMAIN q
  BY TailIs DEF CountsReturned
<1>2. CountsReturned(Tail(q)) /\ Returned(Head(q)) \in Int
  BY <1>1 DEF CountsReturned
<1> DEFINE a == [k \in DOMAIN q |-> Returned(q[k])]
           b == [k \in DOMAIN Tail(q) |-> Returned(Tail(q)[k])]
<1>3. /\ FunctionOn(a, DOMAIN q) /\ \A k \in DOMAIN q : a[k] \in Int
      /\ FunctionOn(b, DOMAIN Tail(q)) /\ \A k \in DOMAIN Tail(q) : b[k] = a[k + 1]
      /\ a[1] = Returned(Head(q))
  BY <1>1 DEF CountsReturned, FunctionOn
<1>4. AllReturned(q) = Total(a) /\ AllReturned(Tail(q)) = Total(b)
  BY DEF AllReturned
<1> HIDE DEF a, b
<1>5. IsSequence(q)
  BY DEF CountsReturned
<1>6. Total(b) \in Int /\ Total(a) = a[1] + Total(b)
  BY <1>3, <1>5, WeighedTail
<1> QED  BY <1>2, <1>3, <1>4, <1>6

LEMMA NoneAll ==
  ASSUME NEW q, q = <<>>
  PROVE  CountsData(q) /\ AllData(q) = 0 /\ CountsReturned(q) /\ AllReturned(q) = 0
<1>1. IsSequence(q) /\ DOMAIN q = {}
  BY DEF IsSequence
<1>2. [k \in DOMAIN q |-> DataIn(q[k])] = <<>> /\ [k \in DOMAIN q |-> Returned(q[k])] = <<>>
  BY <1>1
<1> QED  BY <1>1, <1>2, TotalEmpty DEF CountsData, CountsReturned, AllData, AllReturned

(***************************************************************************)
(* Frames that give nothing back change nothing.                           *)
(***************************************************************************)
LEMMA ReturnedJoined ==
  ASSUME NEW q, CountsReturned(q), NEW r, IsSequence(r), \A k \in DOMAIN r : Returned(r[k]) = 0
  PROVE  CountsReturned(q \o r) /\ AllReturned(q \o r) = AllReturned(q)
<1>1. /\ IsSequence(q \o r) /\ DOMAIN (q \o r) = 1 .. Len(q) + Len(r)
      /\ \A k \in 1 .. Len(q) : (q \o r)[k] = q[k]
      /\ \A k \in 1 .. Len(q) + Len(r) : k > Len(q) => (q \o r)[k] = r[k - Len(q)]
      /\ Len(q) \in Nat /\ DOMAIN q = 1 .. Len(q) /\ Len(r) \in Nat /\ DOMAIN r = 1 .. Len(r)
  BY Joined, SequenceFacts DEF CountsReturned
<1> DEFINE n == Len(q)
           m == Len(q) + Len(r)
           a == [k \in DOMAIN q |-> Returned(q[k])]
           b == [k \in DOMAIN (q \o r) |-> Returned((q \o r)[k])]
<1>2. /\ n \in Nat /\ m \in Nat /\ n <= m
      /\ a = [k \in 1 .. n |-> a[k]] /\ b = [k \in 1 .. m |-> b[k]]
      /\ \A k \in 1 .. n : a[k] \in Int /\ b[k] = a[k]
      /\ \A k \in 1 .. m : k > n => b[k] = 0
      /\ \A k \in 1 .. m : b[k] \in Int
  <2>1. \A k \in 1 .. m : k > n => k - n \in DOMAIN r
    BY <1>1
  <2>2. \A k \in 1 .. n : k \in DOMAIN q /\ k \in DOMAIN (q \o r)
    BY <1>1
  <2>3. /\ n \in Nat /\ m \in Nat /\ n <= m
        /\ a = [k \in 1 .. n |-> a[k]] /\ b = [k \in 1 .. m |-> b[k]]
    BY <1>1
  <2>4. \A k \in 1 .. n : a[k] \in Int /\ b[k] = a[k]
    BY <1>1, <2>2 DEF CountsReturned
  <2>5. \A k \in 1 .. m : k > n => b[k] = 0
    BY <1>1, <2>1
  <2> HIDE DEF n, m, a, b
  <2>6. ASSUME NEW k \in 1 .. m PROVE b[k] \in Int
    <3>1. CASE k > n
      BY <2>5, <3>1
    <3>2. CASE ~ (k > n)
      <4>1. k \in 1 .. n
        BY <2>3, <3>2
      <4> QED  BY <2>4, <4>1
    <3> QED  BY <3>1, <3>2
  <2> QED  BY <2>3, <2>4, <2>5, <2>6
<1>3. AllReturned(q) = Total(a) /\ AllReturned(q \o r) = Total(b)
  BY DEF AllReturned
<1>4. CountsReturned(q \o r)
  <2>1. \A k \in 1 .. m : Returned((q \o r)[k]) = b[k]
    BY <1>1
  <2> HIDE DEF n, m, a, b
  <2> USE DEF m
  <2> QED  BY <1>1, <1>2, <2>1 DEF CountsReturned
<1> HIDE DEF n, m, a, b
<1>5. a \in [1 .. n -> Int] /\ b \in [1 .. m -> Int]
  BY <1>2
<1>6. a \in Seq(Int) /\ Len(a) = n /\ b \in Seq(Int) /\ Len(b) = m
  BY <1>2, <1>5
<1>7. PICK g \in [0 .. n -> Int] : Adds(a, g)
  BY <1>6, AddsExists
<1> DEFINE h == [k \in 0 .. m |-> IF k <= n THEN g[k] ELSE g[n]]
<1>8. h \in [0 .. m -> Int] /\ h[m] = g[n]
  BY <1>2
<1>9. Adds(b, h)
  <2>1. h[0] = 0
    BY <1>2, <1>7 DEF Adds
  <2>2. ASSUME NEW k \in 1 .. m PROVE h[k] = h[k - 1] + b[k]
    <3>1. CASE k <= n
      <4>1. k \in 1 .. n /\ h[k] = g[k] /\ h[k - 1] = g[k - 1]
        BY <1>2, <3>1
      <4> QED  BY <1>2, <1>6, <1>7, <4>1 DEF Adds
    <3>2. CASE ~ (k <= n)
      <4>1. h[k] = g[n] /\ h[k - 1] = g[n] /\ b[k] = 0 /\ g[n] \in Int
        BY <1>2, <3>2
      <4> QED  BY <4>1
    <3> QED  BY <3>1, <3>2
  <2> QED  BY <1>6, <2>1, <2>2 DEF Adds
<1> HIDE DEF h
<1>10. Total(a) = g[n] /\ Total(b) = h[m]
  BY <1>6, <1>7, <1>8, <1>9, TotalIs
<1> QED  BY <1>3, <1>4, <1>8, <1>10

-----------------------------------------------------------------------------
(* The session's books: the streams it counts, and what it owes            *)

StreamFields == {"state", "shut", "push", "item", "window", "recvd", "updating"}

\* What is urgent is an answer, or the first SETTINGS.
Quiet(q) == IsSequence(q) /\ \A k \in DOMAIN q : q[k].type \in {"settings", "ack", "pong"}

HasStreams(s) ==
  /\ DOMAIN s = SessionFields /\ DOMAIN s.streams = Ids /\ Quiet(s.urgent)
  /\ \A i \in Ids : DOMAIN s.streams[i] = StreamFields

Opened(s) == {i \in Requests : Exists(s, i)}
Pushed(s) == {i \in Promises : Exists(s, i) /\ s.streams[i].push = FALSE}

\* A frame is about a stream that is known, or about the connection.
Sayable(f) ==
  /\ f.type \in {"rst", "data"} => f.id \in Ids
  /\ f.type = "window" => f.id \in Ids \cup {0}

Books(s) ==
  /\ HasStreams(s)
  /\ \A i \in Requests : s.streams[i].push = FALSE
  /\ \A i \in Ids : s.streams[i].state = "RESERVED" => s.streams[i].push = TRUE
  /\ s.out = Cardinality(Opened(s)) /\ s.in = Cardinality(Pushed(s))
  /\ s.lastRecv \in Int /\ \A i \in Promises : Exists(s, i) => i <= s.lastRecv
  /\ "SENT" \in s.goaway => "TERM_SENT" \in s.goaway
  /\ s.recvd \in Int /\ CountsReturned(s.reg) /\ \A k \in DOMAIN s.reg : Sayable(s.reg[k])

Account(s) == s.recvd + AllReturned(s.reg)

(***************************************************************************)
(* s becomes t: no request is opened, what has been said about the end     *)
(* stays said, and n units more are accounted for if the session goes on.  *)
(***************************************************************************)
Goes(s, t, n) ==
  /\ Books(t) /\ Opened(t) \subseteq Opened(s)
  /\ s.goaway \subseteq t.goaway /\ (s.ignoring => t.ignoring)
  /\ GoesOn(t) => Account(t) = Account(s) + n

LEMMA WentOn ==
  ASSUME NEW s, NEW t, Opened(t) \subseteq Opened(s),
         s.goaway \subseteq t.goaway, s.ignoring => t.ignoring, GoesOn(t)
  PROVE  GoesOn(s)
<1>1. ~ s.ignoring /\ s.goaway \cap {"TERM_ON_SEND", "TERM_SENT"} = {}
  BY DEF GoesOn
<1>2. "RECV" \in s.goaway => \E i \in Requests : Exists(s, i)
  BY DEF GoesOn, Opened
<1> QED  BY <1>1, <1>2 DEF GoesOn

LEMMA AccountInt == ASSUME NEW s, Books(s) PROVE Account(s) \in Int
<1>1. AllReturned(s.reg) \in Int
  <2>1. Returned(NoFrame) \in Int
    BY DEF Returned, NoFrame, Frame
  <2> QED  BY <2>1, ReturnedAppended DEF Books
<1> QED  BY <1>1 DEF Books, Account

LEMMA GoesOnTo ==
  ASSUME NEW s, Books(s), NEW m \in Int, NEW t, Goes(s, t, m), NEW n \in Int, NEW u, Goes(t, u, n)
  PROVE  Goes(s, u, m + n)
<1>1. GoesOn(u) => GoesOn(t)
  BY WentOn DEF Goes
<1>2. Account(s) \in Int /\ Account(t) \in Int
  BY AccountInt DEF Goes
<1>3. GoesOn(u) => Account(u) = Account(s) + (m + n)
  <2>1. GoesOn(u) => Account(u) = Account(t) + n /\ Account(t) = Account(s) + m
    BY <1>1 DEF Goes
  <2> QED  BY <1>2, <2>1
<1>4. Opened(u) \subseteq Opened(s) /\ s.goaway \subseteq u.goaway /\ (s.ignoring => u.ignoring)
  BY DEF Goes
<1> QED  BY <1>3, <1>4 DEF Goes

LEMMA GoesNowhere == ASSUME NEW s, Books(s) PROVE Goes(s, s, 0)
BY AccountInt DEF Goes

LEMMA GoesOnAlike ==
  ASSUME NEW s, Books(s), NEW t, Goes(s, t, 0), NEW n \in Int, NEW u, Goes(t, u, n)
  PROVE  Goes(s, u, n)
<1>1. Goes(s, u, 0 + n)
  BY GoesOnTo
<1> QED  BY <1>1

(***************************************************************************)
(* The same streams are there, and nothing more is said about the end.     *)
(***************************************************************************)
Similar(s, t) ==
  /\ HasStreams(t)
  /\ \A i \in Ids : /\ (Exists(t, i) <=> Exists(s, i))
                    /\ t.streams[i].push = s.streams[i].push
                    /\ t.streams[i].state = "RESERVED" => s.streams[i].state = "RESERVED"
  /\ t.out = s.out /\ t.in = s.in /\ t.lastRecv = s.lastRecv
  /\ t.goaway = s.goaway /\ t.ignoring = s.ignoring

LEMMA SimilarSets ==
  ASSUME NEW s, NEW t, Similar(s, t)
  PROVE  Opened(t) = Opened(s) /\ Pushed(t) = Pushed(s)
BY DEF Similar, Opened, Pushed, Ids

LEMMA SimilarGoes ==
  ASSUME NEW s, Books(s), NEW t, Similar(s, t), NEW n \in Int,
         t.recvd \in Int, CountsReturned(t.reg), \A k \in DOMAIN t.reg : Sayable(t.reg[k]),
         Account(t) = Account(s) + n
  PROVE  Goes(s, t, n)
<1>1. Opened(t) = Opened(s) /\ Pushed(t) = Pushed(s)
  BY SimilarSets
<1>2. /\ HasStreams(t) /\ \A i \in Requests : t.streams[i].push = FALSE
      /\ \A i \in Ids : t.streams[i].state = "RESERVED" => t.streams[i].push = TRUE
  BY DEF Books, Similar, Ids
<1>3. \A i \in Promises : Exists(t, i) => i <= t.lastRecv
  BY DEF Books, Similar, Ids
<1>4. /\ t.out = Cardinality(Opened(t)) /\ t.in = Cardinality(Pushed(t)) /\ t.lastRecv \in Int
      /\ "SENT" \in t.goaway => "TERM_SENT" \in t.goaway
  BY <1>1 DEF Books, Similar
<1>5. Books(t)
  BY <1>2, <1>3, <1>4 DEF Books
<1> QED  BY <1>1, <1>5 DEF Goes, Similar

LEMMA SimilarStays ==
  ASSUME NEW s, Books(s), NEW t, Similar(s, t), t.recvd = s.recvd, t.reg = s.reg
  PROVE  Goes(s, t, 0)
<1>1. Account(t) = Account(s) + 0
  BY AccountInt DEF Account
<1>2. t.recvd \in Int /\ CountsReturned(t.reg) /\ \A k \in DOMAIN t.reg : Sayable(t.reg[k])
  BY DEF Books
<1> QED  BY <1>1, <1>2, SimilarGoes

LEMMA SimilarQueued ==
  ASSUME NEW s, Books(s), NEW t, Similar(s, t), NEW n \in Int,
         NEW f, Sayable(f), Returned(f) \in Int, t.reg = Append(s.reg, f),
         t.recvd \in Int, t.recvd + Returned(f) = s.recvd + n
  PROVE  Goes(s, t, n)
<1>1. /\ CountsReturned(t.reg) /\ AllReturned(s.reg) \in Int
      /\ AllReturned(t.reg) = AllReturned(s.reg) + Returned(f)
  BY ReturnedAppended DEF Books
<1>2. \A k \in DOMAIN t.reg : Sayable(t.reg[k])
  <2>1. IsSequence(s.reg)
    BY DEF Books, CountsReturned
  <2> QED  BY <2>1, AppendedIs DEF Books
<1>3. Account(t) = Account(s) + n
  <2>1. s.recvd \in Int
    BY DEF Books
  <2> QED  BY <1>1, <2>1 DEF Account
<1> QED  BY <1>1, <1>2, <1>3, SimilarGoes

(***************************************************************************)
(* The set of streams is small.                                            *)
(***************************************************************************)
LEMMA IdsAreFinite == ASSUME NEW S \in SUBSET Ids PROVE IsFiniteSet(S)
<1> PICK n \in Nat : n = 9
  OBVIOUS
<1>1. Ids \subseteq 1 .. n
  BY SessionAssumed DEF SessionAssumption, Ids
<1>2. \A m \in Nat : IsFiniteSet(1 .. m)
  <2> TAKE m \in Nat
  <2> QED  BY FS_Interval
<1> QED  BY <1>1, <1>2, FS_Subset

LEMMA IdsAre == Ids = Requests \cup Promises /\ 0 \notin Ids /\ \A i \in Ids : i \in Nat
<1>1. Requests \subseteq 1 .. 9 /\ Promises \subseteq 1 .. 9
  BY SessionAssumed DEF SessionAssumption
<1> QED  BY <1>1 DEF Ids

LEMMA CloseAllGoes ==
  ASSUME NEW s, Books(s), NEW ids \in SUBSET Ids, \A i \in ids : Exists(s, i), NEW why
  PROVE  Goes(s, CloseAll(s, ids, why), 0)
<1> DEFINE t == CloseAll(s, ids, why)
           reserved == {i \in ids : s.streams[i].push}
           mine == {i \in ids \ reserved : IsMine(i)}
<1>1. /\ DOMAIN t = SessionFields /\ t.reg = s.reg /\ t.recvd = s.recvd /\ t.lastRecv = s.lastRecv
      /\ t.goaway = s.goaway /\ t.ignoring = s.ignoring /\ t.urgent = s.urgent
      /\ t.streams = [i \in Ids |-> IF i \in ids THEN NoStream ELSE s.streams[i]]
      /\ t.out = s.out - Cardinality(mine)
      /\ t.in = s.in - Cardinality(ids \ (reserved \cup mine))
  BY DEF CloseAll, Books, HasStreams, SessionFields
<1> HIDE DEF t
<1>2. HasStreams(t)
  <2>1. DOMAIN NoStream = StreamFields
    BY DEF NoStream, StreamFields
  <2> QED  BY <1>1, <2>1 DEF HasStreams, Books
<1>3. \A i \in Ids : (Exists(t, i) <=> Exists(s, i) /\ i \notin ids)
                     /\ (i \notin ids => t.streams[i] = s.streams[i])
                     /\ (i \in ids => t.streams[i].push = FALSE)
  BY <1>1 DEF Exists, NoStream
<1>4. Opened(t) = Opened(s) \ mine /\ mine \subseteq Opened(s)
  <2>1. mine = ids \cap Requests
    BY ParityIs DEF Books, Ids
  <2> QED  BY <1>3, <2>1 DEF Opened, Ids
<1>5. /\ Pushed(t) = Pushed(s) \ (ids \ (reserved \cup mine))
      /\ ids \ (reserved \cup mine) \subseteq Pushed(s)
  <2>1. \A i \in Promises : i \in ids => (i \in ids \ (reserved \cup mine) <=> ~ s.streams[i].push)
    BY ParityIs
  <2>2. \A i \in Requests : i \in ids => i \in mine
    BY ParityIs DEF Books
  <2> QED  BY <1>3, <2>1, <2>2 DEF Pushed, Ids
<1> HIDE DEF reserved, mine
<1>6. \A S \in SUBSET Ids : \A T \in SUBSET S :
        Cardinality(S \ T) = Cardinality(S) - Cardinality(T)
  <2> TAKE S \in SUBSET Ids
  <2> TAKE T \in SUBSET S
  <2>1. IsFiniteSet(S) /\ S \cap T = T
    BY IdsAreFinite
  <2> QED  BY <2>1, FS_Difference
<1>7. Opened(s) \subseteq Ids /\ Pushed(s) \subseteq Ids
  BY DEF Opened, Pushed, Ids
<1>8. t.out = Cardinality(Opened(t)) /\ t.in = Cardinality(Pushed(t))
  BY <1>1, <1>4, <1>5, <1>6, <1>7 DEF Books
<1>9. /\ \A i \in Requests : t.streams[i].push = FALSE
      /\ \A i \in Ids : t.streams[i].state = "RESERVED" => t.streams[i].push = TRUE
  BY <1>1, <1>3 DEF Books, Ids, NoStream
<1>10. \A i \in Promises : Exists(t, i) => i <= t.lastRecv
  BY <1>1, <1>3 DEF Books, Ids
<1>11. Books(t)
  BY <1>1, <1>2, <1>8, <1>9, <1>10 DEF Books
<1>12. Account(t) = Account(s) + 0
  BY <1>1, AccountInt DEF Account
<1>13. Goes(s, t, 0)
  BY <1>1, <1>4, <1>11, <1>12 DEF Goes
<1> QED  BY <1>13 DEF t

LEMMA CloseGoes ==
  ASSUME NEW s, Books(s), NEW i \in Ids, NEW why
  PROVE  Goes(s, Close(s, i, why), 0)
<1>1. CASE Exists(s, i)
  BY <1>1, CloseAllGoes DEF Close
<1>2. CASE ~ Exists(s, i)
  BY <1>2, GoesNowhere DEF Close
<1> QED  BY <1>1, <1>2

(***************************************************************************)
(* A stream changes, but neither comes nor goes.                           *)
(***************************************************************************)
LEMMA StreamChanges ==
  ASSUME NEW s, Books(s), NEW i \in Ids, NEW st, DOMAIN st = StreamFields,
         st.state # "none" <=> Exists(s, i), st.push = s.streams[i].push,
         st.state = "RESERVED" => s.streams[i].state = "RESERVED",
         NEW t, DOMAIN t = SessionFields, t.streams = [s.streams EXCEPT ![i] = st],
         t.out = s.out, t.in = s.in, t.lastRecv = s.lastRecv, t.goaway = s.goaway,
         t.ignoring = s.ignoring, t.urgent = s.urgent
  PROVE  Similar(s, t)
<1>1. /\ DOMAIN t.streams = Ids /\ t.streams[i] = st
      /\ \A j \in Ids : j # i => t.streams[j] = s.streams[j]
  BY DEF Books, HasStreams
<1>2. HasStreams(t)
  BY <1>1 DEF Books, HasStreams
<1>3. ASSUME NEW j \in Ids
      PROVE  /\ (Exists(t, j) <=> Exists(s, j))
             /\ t.streams[j].push = s.streams[j].push
             /\ t.streams[j].state = "RESERVED" => s.streams[j].state = "RESERVED"
  <2>1. CASE j = i
    BY <1>1, <2>1 DEF Exists
  <2>2. CASE j # i
    BY <1>1, <2>2 DEF Exists
  <2> QED  BY <2>1, <2>2
<1>4. t.out = s.out /\ t.in = s.in /\ t.lastRecv = s.lastRecv /\ t.goaway = s.goaway
      /\ t.ignoring = s.ignoring /\ t.urgent = s.urgent
  OBVIOUS
<1> QED  BY <1>2, <1>3, <1>4, Zenon DEF Similar

LEMMA ShutGoes ==
  ASSUME NEW s, Books(s), NEW i \in Ids, NEW flag
  PROVE  Goes(s, Shut(s, i, flag), 0)
<1> DEFINE t == Shut(s, i, flag)
           st == [s.streams[i] EXCEPT !.shut = @ \cup {flag}]
<1>1. /\ DOMAIN t = SessionFields /\ t.streams = [s.streams EXCEPT ![i] = st]
      /\ t.out = s.out /\ t.in = s.in /\ t.lastRecv = s.lastRecv /\ t.goaway = s.goaway
      /\ t.ignoring = s.ignoring /\ t.urgent = s.urgent /\ t.recvd = s.recvd
      /\ t.reg = s.reg
  BY DEF Shut, Books, HasStreams, SessionFields
<1>2. /\ DOMAIN st = StreamFields /\ st.state = s.streams[i].state /\ st.push = s.streams[i].push
  BY DEF Books, HasStreams, StreamFields
<1> HIDE DEF t, st
<1>3. Similar(s, t)
  BY <1>1, <1>2, StreamChanges DEF Exists
<1> QED  BY <1>1, <1>3, SimilarStays DEF t

LEMMA ShutAndCloseGoes ==
  ASSUME NEW s, Books(s), NEW i \in Ids, NEW flag
  PROVE  Goes(s, ShutAndClose(s, i, flag), 0)
<1> DEFINE t == Shut(s, i, flag)
<1>1. Goes(s, t, 0) /\ Books(t)
  BY ShutGoes DEF Goes
<1>2. Goes(t, Close(t, i, "done"), 0)
  BY <1>1, CloseGoes
<1>3. ShutAndClose(s, i, flag) \in {t, Close(t, i, "done")}
  BY DEF ShutAndClose
<1> HIDE DEF t
<1> QED  BY <1>1, <1>2, <1>3, GoesOnAlike

LEMMA AddRstGoes ==
  ASSUME NEW s, Books(s), NEW i \in Ids
  PROVE  Goes(s, AddRst(s, i), 0)
<1> DEFINE t == [s EXCEPT !.streams[i].state = IF Exists(s, i) THEN "CLOSING" ELSE @,
                          !.reg = Append(@, Frame("rst", i))]
           st == [s.streams[i] EXCEPT !.state = IF Exists(s, i) THEN "CLOSING" ELSE @]
<1>1. /\ DOMAIN t = SessionFields /\ t.streams = [s.streams EXCEPT ![i] = st]
      /\ t.out = s.out /\ t.in = s.in /\ t.lastRecv = s.lastRecv /\ t.goaway = s.goaway
      /\ t.ignoring = s.ignoring /\ t.urgent = s.urgent /\ t.recvd = s.recvd
      /\ t.reg = Append(s.reg, Frame("rst", i))
  BY DEF Books, HasStreams, SessionFields
<1>2. /\ DOMAIN st = StreamFields /\ st.push = s.streams[i].push
      /\ st.state # "none" <=> Exists(s, i)
      /\ st.state = "RESERVED" => s.streams[i].state = "RESERVED"
  BY DEF Books, HasStreams, StreamFields, Exists
<1>3. AddRst(s, i) \in {s, t}
  BY DEF AddRst
<1> HIDE DEF t, st
<1>4. Similar(s, t)
  BY <1>1, <1>2, StreamChanges
<1>5. Sayable(Frame("rst", i)) /\ Returned(Frame("rst", i)) = 0
  BY DEF Frame, Sayable, Returned
<1>6. t.recvd \in Int /\ t.recvd + 0 = s.recvd + 0
  BY <1>1 DEF Books
<1>7. Goes(s, t, 0)
  BY <1>1, <1>4, <1>5, <1>6, SimilarQueued
<1> QED  BY <1>3, <1>7, GoesNowhere

LEMMA TerminateGoes ==
  ASSUME NEW s, Books(s), NEW n
  PROVE  Goes(s, Terminate(s), n)
<1> DEFINE f == Frame("goaway", s.lastProc)
           t == [s EXCEPT !.ignoring = TRUE, !.goaway = @ \cup {"TERM_ON_SEND"},
                          !.reg = Append(@, f)]
<1>1. /\ DOMAIN t = SessionFields /\ t.streams = s.streams /\ t.out = s.out /\ t.in = s.in
      /\ t.lastRecv = s.lastRecv /\ t.goaway = s.goaway \cup {"TERM_ON_SEND"}
      /\ t.ignoring = TRUE /\ t.urgent = s.urgent /\ t.recvd = s.recvd /\ t.reg = Append(s.reg, f)
  BY DEF Books, HasStreams, SessionFields
<1>2. Sayable(f) /\ Returned(f) = 0
  BY DEF Frame, Sayable, Returned
<1> HIDE DEF t, f
<1>3. CASE "TERM_ON_SEND" \in s.goaway
  <2>1. Terminate(s) = s /\ ~ GoesOn(s)
    BY <1>3 DEF Terminate, GoesOn
  <2> QED  BY <2>1 DEF Goes
<1>4. CASE "TERM_ON_SEND" \notin s.goaway
  <2>1. Terminate(s) = t
    BY <1>4 DEF Terminate, t, f
  <2>2. CountsReturned(t.reg)
    BY <1>1, <1>2, ReturnedAppended DEF Books
  <2>3. \A k \in DOMAIN t.reg : Sayable(t.reg[k])
    BY <1>1, <1>2, AppendedIs DEF Books, CountsReturned
  <2>4. Opened(t) = Opened(s) /\ Pushed(t) = Pushed(s)
    BY <1>1 DEF Opened, Pushed, Exists
  <2>5. Books(t)
    BY <1>1, <2>2, <2>3, <2>4 DEF Books, HasStreams, Exists
  <2>6. ~ GoesOn(t)
    BY <1>1 DEF GoesOn
  <2> QED  BY <1>1, <2>1, <2>4, <2>5, <2>6 DEF Goes
<1> QED  BY <1>3, <1>4

(***************************************************************************)
(* The streams, and what is said about the end, stay as they are.          *)
(***************************************************************************)
SameStreams(s, t) ==
  /\ DOMAIN t = SessionFields /\ t.streams = s.streams /\ t.out = s.out /\ t.in = s.in
  /\ t.lastRecv = s.lastRecv /\ t.goaway = s.goaway /\ t.ignoring = s.ignoring
  /\ Quiet(t.urgent)

LEMMA SameIsSimilar ==
  ASSUME NEW s, Books(s), NEW t, SameStreams(s, t)
  PROVE  Similar(s, t)
BY DEF SameStreams, Similar, Books, HasStreams, Exists

LEMMA AddAckGoes ==
  ASSUME NEW s, Books(s), NEW type \in {"ack", "pong"}
  PROVE  Goes(s, AddAck(s, type), 0)
<1> DEFINE t == AddAck(s, type)
           f == Frame(type, 0)
<1>1. /\ DOMAIN t = SessionFields /\ t.streams = s.streams /\ t.out = s.out /\ t.in = s.in
      /\ t.lastRecv = s.lastRecv /\ t.goaway = s.goaway /\ t.ignoring = s.ignoring
      /\ t.recvd = s.recvd /\ t.reg = s.reg
      /\ t.urgent \in {s.urgent, Append(s.urgent, f)}
  BY DEF AddAck, Books, HasStreams, SessionFields
<1>2. Quiet(s.urgent) /\ f.type \in {"ack", "pong"}
  BY DEF Books, HasStreams, Frame
<1> HIDE DEF t, f
<1>3. Quiet(Append(s.urgent, f))
  BY <1>2, AppendedIs DEF Quiet
<1>4. SameStreams(s, t)
  BY <1>1, <1>2, <1>3 DEF SameStreams
<1>5. Goes(s, t, 0)
  BY <1>1, <1>4, SameIsSimilar, SimilarStays
<1> QED  BY <1>5 DEF t

LEMMA RecvConnectionGoes ==
  ASSUME NEW s, Books(s), NEW n \in Int
  PROVE  Goes(s, RecvConnection(s, n), n)
<1> DEFINE f == Update(0, s.recvd + n)
           t == [s EXCEPT !.updating = TRUE, !.recvd = 0, !.reg = Append(@, f)]
           u == [s EXCEPT !.recvd = @ + n]
<1>1. RecvConnection(s, n) \in {Terminate(s), t, u}
  BY DEF RecvConnection
<1>2. SameStreams(s, t) /\ t.recvd = 0 /\ t.reg = Append(s.reg, f)
  BY DEF SameStreams, Books, HasStreams, SessionFields
<1>3. SameStreams(s, u) /\ u.recvd = s.recvd + n /\ u.reg = s.reg
  BY DEF SameStreams, Books, HasStreams, SessionFields
<1>4. Sayable(f) /\ Returned(f) = s.recvd + n /\ s.recvd \in Int
  BY DEF Update, Sayable, Returned, Books
<1> HIDE DEF t, u, f
<1>5. Goes(s, t, n)
  <2>1. Returned(f) \in Int /\ t.recvd \in Int /\ t.recvd + Returned(f) = s.recvd + n
    BY <1>2, <1>4
  <2> QED  BY <1>2, <1>4, <2>1, SameIsSimilar, SimilarQueued
<1>6. Goes(s, u, n)
  <2>1. u.recvd \in Int /\ CountsReturned(u.reg) /\ \A k \in DOMAIN u.reg : Sayable(u.reg[k])
    BY <1>3, <1>4 DEF Books
  <2>2. Account(u) = Account(s) + n
    <3>1. Account(s) \in Int /\ Account(s) = s.recvd + AllReturned(s.reg)
      BY AccountInt DEF Account
    <3>2. AllReturned(s.reg) \in Int
      <4>1. Returned(f) \in Int
        BY <1>4
      <4> QED  BY <4>1, ReturnedAppended DEF Books
    <3> QED  BY <1>3, <1>4, <3>1, <3>2 DEF Account
  <2> QED  BY <1>3, <2>1, <2>2, SameIsSimilar, SimilarGoes
<1> QED  BY <1>1, <1>5, <1>6, TerminateGoes

LEMMA RecvStreamGoes ==
  ASSUME NEW s, Books(s), NEW i \in Ids, NEW n, NEW update
  PROVE  Goes(s, RecvStream(s, i, n, update), 0)
<1> DEFINE f == Update(i, s.streams[i].recvd + n)
           t == [s EXCEPT !.streams[i].updating = TRUE, !.streams[i].recvd = 0,
                          !.reg = Append(@, f)]
           x == [s.streams[i] EXCEPT !.updating = TRUE, !.recvd = 0]
           u == [s EXCEPT !.streams[i].recvd = @ + n]
           y == [s.streams[i] EXCEPT !.recvd = @ + n]
<1>1. RecvStream(s, i, n, update) \in {AddRst(s, i), t, u}
  BY DEF RecvStream
<1>2. /\ DOMAIN t = SessionFields /\ t.streams = [s.streams EXCEPT ![i] = x]
      /\ t.out = s.out /\ t.in = s.in /\ t.lastRecv = s.lastRecv /\ t.goaway = s.goaway
      /\ t.ignoring = s.ignoring /\ t.urgent = s.urgent /\ t.recvd = s.recvd
      /\ t.reg = Append(s.reg, f)
  BY DEF Books, HasStreams, SessionFields
<1>3. /\ DOMAIN u = SessionFields /\ u.streams = [s.streams EXCEPT ![i] = y]
      /\ u.out = s.out /\ u.in = s.in /\ u.lastRecv = s.lastRecv /\ u.goaway = s.goaway
      /\ u.ignoring = s.ignoring /\ u.urgent = s.urgent /\ u.recvd = s.recvd /\ u.reg = s.reg
  BY DEF Books, HasStreams, SessionFields
<1>4. /\ DOMAIN x = StreamFields /\ x.push = s.streams[i].push /\ x.state = s.streams[i].state
      /\ DOMAIN y = StreamFields /\ y.push = s.streams[i].push /\ y.state = s.streams[i].state
  BY DEF Books, HasStreams, StreamFields
<1>5. Sayable(f) /\ Returned(f) = 0
  BY IdsAre DEF Update, Sayable, Returned
<1> HIDE DEF t, u, f, x, y
<1>6. Similar(s, t) /\ Similar(s, u)
  BY <1>2, <1>3, <1>4, StreamChanges DEF Exists
<1>7. Goes(s, t, 0)
  <2>1. t.recvd \in Int /\ t.recvd + 0 = s.recvd + 0
    BY <1>2 DEF Books
  <2> QED  BY <1>2, <1>5, <1>6, <2>1, SimilarQueued
<1>8. Goes(s, u, 0)
  BY <1>3, <1>6, SimilarStays
<1> QED  BY <1>1, <1>7, <1>8, AddRstGoes

LEMMA BlockReceivedGoes ==
  ASSUME NEW s, Books(s), NEW f, f.id \in Ids
  PROVE  Goes(s, BlockReceived(s, f), 0)
<1> DEFINE t == AddRst(s, f.id)
<1>1. BlockReceived(s, f) \in {t, Shut(t, f.id, "RD"), ShutAndClose(s, f.id, "RD"), s}
  BY DEF BlockReceived
<1>2. Goes(s, t, 0) /\ Books(t)
  BY AddRstGoes DEF Goes
<1> HIDE DEF t
<1>3. Goes(s, Shut(t, f.id, "RD"), 0)
  BY <1>2, ShutGoes, GoesOnAlike
<1> QED  BY <1>1, <1>2, <1>3, ShutAndCloseGoes, GoesNowhere

(***************************************************************************)
(* A promised stream is answered: it begins to count.                      *)
(***************************************************************************)
Begins(s, i) ==
  LET t == [s EXCEPT !.streams[i].state = "OPENED"] IN
  [t EXCEPT !.streams[i].push = FALSE, !.reserved = @ - 1, !.in = @ + 1]

Begun(st) == LET x == [st EXCEPT !.state = "OPENED"] IN [x EXCEPT !.push = FALSE]

BeginsAs(s, i, u, y) ==
  /\ DOMAIN u = SessionFields /\ u.streams = [s.streams EXCEPT ![i] = y]
  /\ u.out = s.out /\ u.in = s.in + 1 /\ u.lastRecv = s.lastRecv /\ u.goaway = s.goaway
  /\ u.ignoring = s.ignoring /\ u.urgent = s.urgent /\ u.recvd = s.recvd /\ u.reg = s.reg
  /\ u.aob = s.aob /\ u.left = s.left /\ u.window = s.window /\ u.limit = s.limit
  /\ u.initial = s.initial
  /\ DOMAIN y = StreamFields /\ y.state = "OPENED" /\ y.push = FALSE
  /\ y.item = s.streams[i].item

LEMMA BeginsIs ==
  ASSUME NEW s, HasStreams(s), NEW i \in Ids
  PROVE  BeginsAs(s, i, Begins(s, i), Begun(s.streams[i]))
<1> DEFINE t == [s EXCEPT !.streams[i].state = "OPENED"]
           x == [s.streams[i] EXCEPT !.state = "OPENED"]
           u == [t EXCEPT !.streams[i].push = FALSE, !.reserved = @ - 1, !.in = @ + 1]
           y == [x EXCEPT !.push = FALSE]
<1>1. Begins(s, i) = u /\ Begun(s.streams[i]) = y
  BY DEF Begins, Begun
<1>2. /\ DOMAIN t = SessionFields /\ t.streams = [s.streams EXCEPT ![i] = x]
      /\ t.out = s.out /\ t.in = s.in /\ t.lastRecv = s.lastRecv /\ t.goaway = s.goaway
      /\ t.ignoring = s.ignoring /\ t.urgent = s.urgent /\ t.recvd = s.recvd /\ t.reg = s.reg
      /\ t.aob = s.aob /\ t.left = s.left /\ t.window = s.window /\ t.limit = s.limit
      /\ t.initial = s.initial
  BY DEF HasStreams, SessionFields
<1>3. DOMAIN x = StreamFields /\ x.state = "OPENED" /\ x.item = s.streams[i].item
  BY DEF HasStreams, StreamFields
<1> HIDE DEF x
<1>4. i \in DOMAIN s.streams /\ t.streams[i] = x /\ DOMAIN t.streams = DOMAIN s.streams
  BY <1>2 DEF HasStreams
<1> HIDE DEF t
<1>5. u.streams = [t.streams EXCEPT ![i] = y]
  BY <1>2, <1>4 DEF SessionFields
<1>6. u.streams = [s.streams EXCEPT ![i] = y]
  BY <1>2, <1>4, <1>5
<1>7. DOMAIN y = StreamFields /\ y.state = "OPENED" /\ y.push = FALSE /\ y.item = s.streams[i].item
  BY <1>3 DEF StreamFields
<1>8. /\ DOMAIN u = SessionFields
      /\ u.out = s.out /\ u.in = s.in + 1 /\ u.lastRecv = s.lastRecv /\ u.goaway = s.goaway
      /\ u.ignoring = s.ignoring /\ u.urgent = s.urgent /\ u.recvd = s.recvd /\ u.reg = s.reg
      /\ u.aob = s.aob /\ u.left = s.left /\ u.window = s.window /\ u.limit = s.limit
      /\ u.initial = s.initial
  BY <1>2 DEF SessionFields
<1> HIDE DEF u, y
<1>9. BeginsAs(s, i, u, y)
  BY <1>6, <1>7, <1>8 DEF BeginsAs
<1> QED  BY <1>1, <1>9

LEMMA BeginsGoes ==
  ASSUME NEW s, Books(s), NEW i \in Ids, s.streams[i].state = "RESERVED"
  PROVE  Goes(s, Begins(s, i), 0)
<1> DEFINE u == Begins(s, i)
           y == Begun(s.streams[i])
<1>1. /\ DOMAIN u = SessionFields /\ u.streams = [s.streams EXCEPT ![i] = y]
      /\ u.out = s.out /\ u.in = s.in + 1 /\ u.lastRecv = s.lastRecv /\ u.goaway = s.goaway
      /\ u.ignoring = s.ignoring /\ u.urgent = s.urgent /\ u.recvd = s.recvd /\ u.reg = s.reg
      /\ DOMAIN y = StreamFields /\ y.state = "OPENED" /\ y.push = FALSE
  <2>1. BeginsAs(s, i, u, y)
    BY BeginsIs DEF Books
  <2> HIDE DEF u, y
  <2> QED  BY <2>1 DEF BeginsAs
<1> HIDE DEF u, y
<1>2. i \in Promises /\ i \notin Requests /\ Exists(s, i) /\ i \notin Pushed(s)
  BY ParityIs DEF Books, Ids, Pushed, Exists
<1>3. /\ DOMAIN u.streams = Ids /\ u.streams[i] = y
      /\ \A j \in Ids : j # i => u.streams[j] = s.streams[j]
  BY <1>1 DEF Books, HasStreams
<1>4. Opened(u) = Opened(s)
  BY <1>2, <1>3 DEF Opened, Exists, Ids
<1>5. Pushed(u) = Pushed(s) \cup {i}
  BY <1>1, <1>2, <1>3 DEF Pushed, Exists, Ids
<1>6. u.in = Cardinality(Pushed(u))
  <2>1. IsFiniteSet(Pushed(s))
    BY IdsAreFinite DEF Pushed, Ids
  <2>2. Cardinality(Pushed(s) \cup {i}) = Cardinality(Pushed(s)) + 1
    BY <1>2, <2>1, FS_AddElement
  <2>3. s.in = Cardinality(Pushed(s))
    BY DEF Books
  <2> QED  BY <1>1, <1>5, <2>2, <2>3
<1>7. HasStreams(u) /\ \A j \in Ids : u.streams[j].state = "RESERVED" => u.streams[j].push = TRUE
  BY <1>1, <1>3 DEF Books, HasStreams
<1>8. \A j \in Requests : u.streams[j].push = FALSE
  BY <1>2, <1>3 DEF Books, Ids
<1>9. \A j \in Promises : Exists(u, j) => j <= u.lastRecv
  BY <1>1, <1>2, <1>3 DEF Books, Exists, Ids
<1>10. Books(u)
  BY <1>1, <1>4, <1>6, <1>7, <1>8, <1>9 DEF Books
<1>11. Account(u) = Account(s) + 0
  BY <1>1, AccountInt DEF Account
<1>12. Goes(s, u, 0)
  BY <1>1, <1>4, <1>10, <1>11 DEF Goes
<1> QED  BY <1>12 DEF u

LEMMA OnHeadersGoes ==
  ASSUME NEW s, Books(s), NEW f, f.id \in Ids
  PROVE  Goes(s, OnHeaders(s, f), 0)
<1> DEFINE i == f.id
           t == [s EXCEPT !.streams[i].state = "OPENED"]
           x == [s.streams[i] EXCEPT !.state = "OPENED"]
           u == Begins(s, i)
<1>1. \/ OnHeaders(s, f) \in {s, Terminate(s), BlockReceived(s, f)}
      \/ s.streams[i].state = "OPENING" /\ OnHeaders(s, f) = BlockReceived(t, f)
      \/ s.streams[i].state = "RESERVED" /\ OnHeaders(s, f) = BlockReceived(u, f)
  BY DEF OnHeaders, Begins
<1>2. /\ DOMAIN t = SessionFields /\ t.streams = [s.streams EXCEPT ![i] = x]
      /\ t.out = s.out /\ t.in = s.in /\ t.lastRecv = s.lastRecv /\ t.goaway = s.goaway
      /\ t.ignoring = s.ignoring /\ t.urgent = s.urgent /\ t.recvd = s.recvd
      /\ t.reg = s.reg
  BY DEF Books, HasStreams, SessionFields
<1>3. DOMAIN x = StreamFields /\ x.state = "OPENED" /\ x.push = s.streams[i].push
  BY DEF Books, HasStreams, StreamFields
<1> HIDE DEF t, u, x
<1>4. CASE s.streams[i].state = "OPENING" /\ OnHeaders(s, f) = BlockReceived(t, f)
  <2>1. Exists(s, i)
    BY <1>4 DEF Exists
  <2>2. Similar(s, t)
    BY <1>2, <1>3, <2>1, StreamChanges
  <2>3. Goes(s, t, 0) /\ Books(t)
    BY <1>2, <2>2, SimilarStays DEF Goes
  <2> QED  BY <1>4, <2>3, BlockReceivedGoes, GoesOnAlike
<1>5. CASE s.streams[i].state = "RESERVED" /\ OnHeaders(s, f) = BlockReceived(u, f)
  <2>1. Goes(s, u, 0) /\ Books(u)
    BY <1>5, BeginsGoes DEF Goes, u
  <2> QED  BY <1>5, <2>1, BlockReceivedGoes, GoesOnAlike
<1> QED  BY <1>1, <1>4, <1>5, BlockReceivedGoes, TerminateGoes, GoesNowhere

LEMMA TakeDataGoes ==
  ASSUME NEW s, Books(s), NEW f, f.id \in Ids, f.n \in Int
  PROVE  Goes(s, TakeData(s, f), f.n)
<1> DEFINE t == RecvConnection(s, f.n)
           u == RecvStream(t, f.id, f.n, ~f.end)
           v == [u EXCEPT !.finished = @ \cup {f.id}]
<1>1. TakeData(s, f) \in {t, u, v, ShutAndClose(v, f.id, "RD")}
  BY DEF TakeData
<1>2. Goes(s, t, f.n) /\ Books(t)
  BY RecvConnectionGoes DEF Goes
<1> HIDE DEF t
<1>3. ASSUME NEW w, Goes(t, w, 0) PROVE Goes(s, w, f.n)
  <2>1. Goes(s, w, f.n + 0)
    BY <1>2, <1>3, GoesOnTo
  <2> QED  BY <2>1
<1>4. Goes(t, u, 0) /\ Books(u)
  BY <1>2, RecvStreamGoes DEF Goes
<1> HIDE DEF u
<1>5. Goes(t, v, 0) /\ Books(v)
  <2>1. SameStreams(u, v) /\ v.recvd = u.recvd /\ v.reg = u.reg
    BY <1>4 DEF SameStreams, Books, HasStreams, SessionFields
  <2> HIDE DEF v
  <2>2. Goes(u, v, 0)
    BY <1>4, <2>1, SameIsSimilar, SimilarStays
  <2> QED  BY <1>2, <1>4, <2>2, GoesOnAlike DEF Goes
<1> HIDE DEF v
<1>6. Goes(t, ShutAndClose(v, f.id, "RD"), 0)
  BY <1>2, <1>5, ShutAndCloseGoes, GoesOnAlike
<1> QED  BY <1>1, <1>2, <1>3, <1>4, <1>5, <1>6

LEMMA OnDataGoes ==
  ASSUME NEW s, Books(s), NEW f, f.id \in Ids, f.n \in Int
  PROVE  Goes(s, OnData(s, f), f.n)
<1>1. OnData(s, f) \in {Terminate(s), RecvConnection(s, f.n), TakeData(s, f)}
  BY DEF OnData, IgnoreData
<1> QED  BY <1>1, TerminateGoes, RecvConnectionGoes, TakeDataGoes

LEMMA OnRstGoes ==
  ASSUME NEW s, Books(s), NEW f, f.id \in Ids
  PROVE  Goes(s, OnRst(s, f), 0)
<1>1. OnRst(s, f) \in {Terminate(s), Close(s, f.id, f.why)}
  BY DEF OnRst
<1> QED  BY <1>1, TerminateGoes, CloseGoes

LEMMA OnSettingsAckGoes ==
  ASSUME NEW s, Books(s)
  PROVE  Goes(s, OnSettingsAck(s), 0)
<1> DEFINE t == [s EXCEPT !.inflight = @ - 1]
<1>1. OnSettingsAck(s) \in {Terminate(s), t}
  BY DEF OnSettingsAck
<1>2. SameStreams(s, t) /\ t.recvd = s.recvd /\ t.reg = s.reg
  BY DEF SameStreams, Books, HasStreams, SessionFields
<1> HIDE DEF t
<1>3. Goes(s, t, 0)
  BY <1>2, SameIsSimilar, SimilarStays
<1> QED  BY <1>1, <1>3, TerminateGoes

LEMMA OnGoawayGoes ==
  ASSUME NEW s, Books(s), NEW f
  PROVE  Goes(s, OnGoaway(s, f), 0)
<1> DEFINE t == [s EXCEPT !.goaway = @ \cup {"RECV"}, !.remoteLast = f.id]
           ids == AboveLast(t, f.id)
<1>1. OnGoaway(s, f) \in {Terminate(s), CloseAll(t, ids, "refused")}
  BY DEF OnGoaway
<1>2. ids \subseteq Ids /\ \A i \in ids : Exists(t, i)
  BY DEF AboveLast, Ids
<1>3. /\ DOMAIN t = SessionFields /\ t.streams = s.streams /\ t.out = s.out /\ t.in = s.in
      /\ t.lastRecv = s.lastRecv /\ t.goaway = s.goaway \cup {"RECV"}
      /\ t.ignoring = s.ignoring /\ t.urgent = s.urgent /\ t.recvd = s.recvd
      /\ t.reg = s.reg
  BY DEF Books, HasStreams, SessionFields
<1> HIDE DEF t, ids
<1>4. Opened(t) = Opened(s) /\ Pushed(t) = Pushed(s)
  BY <1>3 DEF Opened, Pushed, Exists
<1>5. Books(t)
  BY <1>3, <1>4 DEF Books, HasStreams, Exists
<1>6. Goes(s, t, 0)
  <2>1. Account(t) = Account(s) + 0
    BY <1>3, AccountInt DEF Account
  <2> QED  BY <1>3, <1>4, <1>5, <2>1 DEF Goes
<1>7. Goes(t, CloseAll(t, ids, "refused"), 0)
  BY <1>2, <1>5, CloseAllGoes
<1>8. Goes(s, CloseAll(t, ids, "refused"), 0)
  BY <1>6, <1>7, GoesOnAlike
<1> QED  BY <1>1, <1>8, TerminateGoes

LEMMA OnUpdateGoes ==
  ASSUME NEW s, Books(s), NEW f, f.id \in Ids \cup {0}
  PROVE  Goes(s, OnUpdate(s, f), 0)
<1> DEFINE t == [s EXCEPT !.window = @ + f.n]
           wider == [s.streams[f.id] EXCEPT !.window = @ + f.n]
           x == Resume(wider)
           u == [s EXCEPT !.streams[f.id] = x]
<1>1. CASE f.id = 0
  <2>1. OnUpdate(s, f) \in {Terminate(s), t}
    BY <1>1 DEF OnUpdate
  <2>2. SameStreams(s, t) /\ t.recvd = s.recvd /\ t.reg = s.reg
    BY DEF SameStreams, Books, HasStreams, SessionFields
  <2> HIDE DEF t
  <2>3. Goes(s, t, 0)
    BY <2>2, SameIsSimilar, SimilarStays
  <2> QED  BY <2>1, <2>3, TerminateGoes
<1>2. CASE f.id \in Ids
  <2>1. OnUpdate(s, f) \in {s, Terminate(s), AddRst(s, f.id), u}
    <3>1. f.id # 0
      BY <1>2, IdsAre
    <3> QED  BY <3>1 DEF OnUpdate
  <2>2. /\ DOMAIN u = SessionFields /\ u.streams = [s.streams EXCEPT ![f.id] = x]
        /\ u.out = s.out /\ u.in = s.in /\ u.lastRecv = s.lastRecv /\ u.goaway = s.goaway
        /\ u.ignoring = s.ignoring /\ u.urgent = s.urgent /\ u.recvd = s.recvd /\ u.reg = s.reg
    BY DEF Books, HasStreams, SessionFields
  <2>3. /\ DOMAIN x = StreamFields /\ x.push = s.streams[f.id].push
        /\ x.state = s.streams[f.id].state
    BY <1>2 DEF Books, HasStreams, StreamFields, Resume
  <2> HIDE DEF x, u
  <2>4. Similar(s, u)
    BY <1>2, <2>2, <2>3, StreamChanges DEF Exists
  <2>5. Goes(s, u, 0)
    BY <2>2, <2>4, SimilarStays
  <2> QED  BY <1>2, <2>1, <2>5, TerminateGoes, AddRstGoes, GoesNowhere
<1> QED  BY <1>1, <1>2

LEMMA ReservedGoes ==
  ASSUME NEW s, Books(s), NEW i \in Promises, ~ Exists(s, i), i <= s.lastRecv
  PROVE  Goes(s, Open(s, i, "RESERVED", {"WR"}), 0)
<1> DEFINE t == Open(s, i, "RESERVED", {"WR"})
           x == [NoStream EXCEPT !.state = "RESERVED", !.shut = {"WR"}, !.window = s.initial,
                                 !.push = TRUE]
<1>1. DOMAIN x = StreamFields /\ x.state = "RESERVED" /\ x.push = TRUE
  BY DEF NoStream, StreamFields
<1>2. /\ DOMAIN t = SessionFields /\ t.streams = [s.streams EXCEPT ![i] = x]
      /\ t.out = s.out /\ t.in = s.in /\ t.lastRecv = s.lastRecv /\ t.goaway = s.goaway
      /\ t.ignoring = s.ignoring /\ t.urgent = s.urgent /\ t.recvd = s.recvd
      /\ t.reg = s.reg
  BY DEF Open, Books, HasStreams, SessionFields
<1> HIDE DEF t, x
<1>3. i \in Ids /\ i \notin Requests
  BY ParityIs DEF Ids
<1>4. /\ DOMAIN t.streams = Ids /\ t.streams[i] = x
      /\ \A j \in Ids : j # i => t.streams[j] = s.streams[j]
  BY <1>2, <1>3 DEF Books, HasStreams
<1>5. Opened(t) = Opened(s) /\ Pushed(t) = Pushed(s)
  BY <1>1, <1>3, <1>4 DEF Opened, Pushed, Exists, Ids
<1>6. HasStreams(t) /\ \A j \in Ids : t.streams[j].state = "RESERVED" => t.streams[j].push = TRUE
  BY <1>1, <1>2, <1>4 DEF Books, HasStreams
<1>7. \A j \in Requests : t.streams[j].push = FALSE
  BY <1>3, <1>4 DEF Books, Ids
<1>8. \A j \in Promises : Exists(t, j) => j <= t.lastRecv
  BY <1>2, <1>3, <1>4 DEF Books, Exists, Ids
<1>9. Books(t)
  BY <1>2, <1>5, <1>6, <1>7, <1>8 DEF Books
<1>10. Account(t) = Account(s) + 0
  BY <1>2, AccountInt DEF Account
<1>11. Goes(s, t, 0)
  BY <1>2, <1>5, <1>9, <1>10 DEF Goes
<1> QED  BY <1>11 DEF t

LEMMA OnPushGoes ==
  ASSUME NEW s, Books(s), NEW f, f.promised \in Promises
  PROVE  Goes(s, OnPush(s, f), 0)
<1> DEFINE p == f.promised
           t == [s EXCEPT !.lastRecv = p]
           u == Open(t, p, "RESERVED", {"WR"})
           v == [u EXCEPT !.lastProc = p]
<1>1. \/ OnPush(s, f) \in {s, Terminate(s)}
      \/ ~ (p <= s.lastRecv) /\ OnPush(s, f) \in {AddRst(t, p), Terminate(t), v}
  BY DEF OnPush
<1>2. p \in Ids /\ p \in Int
  BY ParityIs DEF Ids
<1>3. /\ DOMAIN t = SessionFields /\ t.streams = s.streams /\ t.out = s.out /\ t.in = s.in
      /\ t.lastRecv = p /\ t.goaway = s.goaway
      /\ t.ignoring = s.ignoring /\ t.urgent = s.urgent /\ t.recvd = s.recvd
      /\ t.reg = s.reg
  BY DEF Books, HasStreams, SessionFields
<1> HIDE DEF t
<1>4. CASE ~ (p <= s.lastRecv) /\ OnPush(s, f) \in {AddRst(t, p), Terminate(t), v}
  <2>1. Opened(t) = Opened(s) /\ Pushed(t) = Pushed(s)
    BY <1>3 DEF Opened, Pushed, Exists
  <2>2. \A i \in Promises : Exists(t, i) => i <= t.lastRecv
    BY <1>2, <1>3, <1>4, ParityIs DEF Books, Exists
  <2>3. Books(t)
    BY <1>2, <1>3, <2>1, <2>2 DEF Books, HasStreams
  <2>4. Goes(s, t, 0)
    <3>1. Account(t) = Account(s) + 0
      BY <1>3, AccountInt DEF Account
    <3> QED  BY <1>3, <2>1, <2>3, <3>1 DEF Goes
  <2>5. ~ Exists(t, p) /\ p <= t.lastRecv
    BY <1>2, <1>3, <1>4 DEF Books, Exists
  <2>6. Goes(t, u, 0) /\ Books(u)
    BY <2>3, <2>5, ReservedGoes DEF Goes
  <2> HIDE DEF u
  <2>7. SameStreams(u, v) /\ v.recvd = u.recvd /\ v.reg = u.reg
    BY <2>6 DEF SameStreams, Books, HasStreams, SessionFields
  <2> HIDE DEF v
  <2>8. Goes(u, v, 0)
    BY <2>6, <2>7, SameIsSimilar, SimilarStays
  <2>9. Goes(t, v, 0)
    BY <2>3, <2>6, <2>8, GoesOnAlike
  <2>10. Goes(t, AddRst(t, p), 0) /\ Goes(t, Terminate(t), 0)
    BY <1>2, <2>3, AddRstGoes, TerminateGoes
  <2>11. Goes(t, OnPush(s, f), 0)
    BY <1>4, <2>9, <2>10
  <2> QED  BY <2>4, <2>11, GoesOnAlike
<1> QED  BY <1>1, <1>4, TerminateGoes, GoesNowhere

LEMMA SetToSeqIs ==
  ASSUME NEW S \in SUBSET Ids
  PROVE  /\ Cardinality(S) \in Nat
         /\ \A k \in 1 .. Cardinality(S) : SetToSeq(S)[k] \in S
<1>1. IsFiniteSet(S)
  BY IdsAreFinite
<1>2. Cardinality(S) \in Nat /\ ExistsBijection(1 .. Cardinality(S), S)
  BY <1>1, FS_CardinalityType
<1>3. \E g \in [1 .. Cardinality(S) -> S] : IsInjective(g)
  BY <1>2 DEF ExistsBijection, Bijection, Injection
<1>4. SetToSeq(S) \in [1 .. Cardinality(S) -> S]
  BY <1>3 DEF SetToSeq
<1> QED  BY <1>2, <1>4

LEMMA ResetsSayable ==
  ASSUME NEW n \in Nat, NEW g, \A k \in 1 .. n : g[k] \in Ids
  PROVE  LET r == [k \in 1 .. n |-> Frame("rst", g[k])] IN
         IsSequence(r) /\ \A k \in DOMAIN r : Returned(r[k]) = 0 /\ Sayable(r[k])
<1> DEFINE r == [k \in 1 .. n |-> Frame("rst", g[k])]
<1>1. r = [k \in 1 .. n |-> r[k]]
  OBVIOUS
<1>2. \A k \in 1 .. n : Returned(r[k]) = 0 /\ Sayable(r[k])
  BY DEF Frame, Returned, Sayable
<1> HIDE DEF r
<1>3. IsSequence(r) /\ DOMAIN r = 1 .. n
  BY <1>1, LineIs
<1> QED  BY <1>2, <1>3 DEF r

LEMMA SayableJoined ==
  ASSUME NEW q, IsSequence(q), NEW r, IsSequence(r),
         \A k \in DOMAIN q : Sayable(q[k]), \A k \in DOMAIN r : Sayable(r[k])
  PROVE  \A k \in DOMAIN (q \o r) : Sayable((q \o r)[k])
<1>1. /\ DOMAIN q = 1 .. Len(q) /\ Len(q) \in Nat /\ DOMAIN r = 1 .. Len(r) /\ Len(r) \in Nat
      /\ DOMAIN (q \o r) = 1 .. Len(q) + Len(r)
      /\ \A k \in 1 .. Len(q) : (q \o r)[k] = q[k]
      /\ \A k \in 1 .. Len(q) + Len(r) : k > Len(q) => (q \o r)[k] = r[k - Len(q)]
  BY SequenceFacts, Joined
<1>2. ASSUME NEW k \in 1 .. Len(q) + Len(r) PROVE Sayable((q \o r)[k])
  <2>1. CASE k <= Len(q)
    <3>1. k \in 1 .. Len(q) /\ k \in DOMAIN q
      BY <1>1, <2>1
    <3> QED  BY <1>1, <3>1
  <2>2. CASE k > Len(q)
    <3>1. (q \o r)[k] = r[k - Len(q)] /\ k - Len(q) \in DOMAIN r
      BY <1>1, <2>2
    <3> QED  BY <3>1
  <2> QED  BY <1>1, <2>1, <2>2
<1> QED  BY <1>1, <1>2

LEMMA OnSettingsGoes ==
  ASSUME NEW s, Books(s), NEW f
  PROVE  Goes(s, OnSettings(s, f), 0)
<1> DEFINE over == {i \in Ids : Exists(s, i) /\ Overflows(s, i, f.initial)}
           reset == {i \in over : s.streams[i].state # "CLOSING"}
           rsts == [k \in 1 .. Cardinality(reset) |-> Frame("rst", SetToSeq(reset)[k])]
           t == [s EXCEPT !.streams = [i \in Ids |->
                            CASE i \in reset -> [@[i] EXCEPT !.state = "CLOSING"]
                              [] Exists(s, i) /\ i \notin over -> InitialWindow(s, i, f.initial)
                              [] OTHER -> @[i]],
                          !.reg = @ \o rsts, !.limit = f.limit, !.initial = f.initial]
           x(i) == CASE i \in reset -> [s.streams[i] EXCEPT !.state = "CLOSING"]
                     [] Exists(s, i) /\ i \notin over -> InitialWindow(s, i, f.initial)
                     [] OTHER -> s.streams[i]
<1>1. OnSettings(s, f) \in {t, AddAck(t, "ack")}
  BY DEF OnSettings
<1>2. reset \in SUBSET Ids /\ reset \subseteq over /\ \A i \in reset : Exists(s, i)
  OBVIOUS
<1>3. /\ DOMAIN t = SessionFields /\ t.streams = [i \in Ids |-> x(i)]
      /\ t.out = s.out /\ t.in = s.in /\ t.lastRecv = s.lastRecv /\ t.goaway = s.goaway
      /\ t.ignoring = s.ignoring /\ t.urgent = s.urgent /\ t.recvd = s.recvd
      /\ t.reg = s.reg \o rsts
  <2> HIDE DEF rsts, reset, over
  <2> QED  BY DEF Books, HasStreams, SessionFields
<1> HIDE DEF t, reset, over
<1>4. IsSequence(rsts) /\ \A k \in DOMAIN rsts : Returned(rsts[k]) = 0 /\ Sayable(rsts[k])
  <2>1. /\ Cardinality(reset) \in Nat
        /\ \A k \in 1 .. Cardinality(reset) : SetToSeq(reset)[k] \in Ids
    BY <1>2, SetToSeqIs
  <2> QED  BY <2>1, ResetsSayable
<1> HIDE DEF rsts
<1>5. ASSUME NEW i \in Ids
      PROVE  /\ DOMAIN x(i) = StreamFields /\ x(i).push = s.streams[i].push
             /\ (x(i).state # "none" <=> Exists(s, i))
             /\ x(i).state = "RESERVED" => s.streams[i].state = "RESERVED"
  <2>1. CASE i \in reset
    BY <1>2, <2>1 DEF Books, HasStreams, StreamFields, Exists
  <2>2. CASE i \notin reset /\ Exists(s, i) /\ i \notin over
    <3>1. x(i) = InitialWindow(s, i, f.initial)
      BY <2>2
    <3> HIDE DEF x
    <3> QED  BY <2>2, <3>1 DEF Books, HasStreams, StreamFields, Exists, InitialWindow, Resume
  <2>3. CASE i \notin reset /\ ~ (Exists(s, i) /\ i \notin over)
    BY <2>3 DEF Books, HasStreams, Exists
  <2> QED  BY <2>1, <2>2, <2>3
<1> HIDE DEF x
<1>6. Similar(s, t)
  <2>1. DOMAIN t.streams = Ids /\ \A i \in Ids : t.streams[i] = x(i)
    BY <1>3
  <2>2. HasStreams(t)
    BY <1>3, <1>5, <2>1 DEF HasStreams, Books
  <2>3. \A i \in Ids : (Exists(t, i) <=> Exists(s, i)) /\ t.streams[i].push = s.streams[i].push
    BY <1>5, <2>1 DEF Exists
  <2>4. \A i \in Ids : t.streams[i].state = "RESERVED" => s.streams[i].state = "RESERVED"
    BY <1>5, <2>1
  <2> QED  BY <1>3, <2>2, <2>3, <2>4, Zenon DEF Similar
<1>7. /\ CountsReturned(t.reg) /\ AllReturned(t.reg) = AllReturned(s.reg)
      /\ \A k \in DOMAIN t.reg : Sayable(t.reg[k])
  <2>1. CountsReturned(s.reg) /\ IsSequence(s.reg) /\ \A k \in DOMAIN s.reg : Sayable(s.reg[k])
    BY DEF Books, CountsReturned
  <2>2. CountsReturned(s.reg \o rsts) /\ AllReturned(s.reg \o rsts) = AllReturned(s.reg)
    BY <1>4, <2>1, ReturnedJoined
  <2>3. \A k \in DOMAIN (s.reg \o rsts) : Sayable((s.reg \o rsts)[k])
    BY <1>4, <2>1, SayableJoined
  <2> QED  BY <1>3, <2>2, <2>3
<1>8. Goes(s, t, 0) /\ Books(t)
  <2>1. Account(t) = Account(s) + 0
    BY <1>3, <1>7, AccountInt DEF Account
  <2>2. t.recvd \in Int
    BY <1>3 DEF Books
  <2>3. Goes(s, t, 0)
    BY <1>6, <1>7, <2>1, <2>2, SimilarGoes
  <2> QED  BY <2>3 DEF Goes
<1>9. Goes(s, AddAck(t, "ack"), 0)
  BY <1>8, AddAckGoes, GoesOnAlike
<1> QED  BY <1>1, <1>8, <1>9

(***************************************************************************)
(* A frame as the server may send it                                       *)
(***************************************************************************)
Expected(f) ==
  /\ f.type \in {"headers", "data", "rst", "settings", "ack", "ping", "goaway", "window", "push"}
  /\ f.type \in {"headers", "data", "rst", "push"} => f.id \in Ids
  /\ f.type = "window" => f.id \in Ids \cup {0}
  /\ f.type = "push" => f.promised \in Promises
  /\ f.type = "data" => f.n \in Int

LEMMA ReceivedGoes ==
  ASSUME NEW s, Books(s), NEW f, Expected(f)
  PROVE  DataIn(f) \in Int /\ Goes(s, Received(s, f), DataIn(f))
<1>1. CASE f.type = "data"
  <2>1. f.id \in Ids /\ f.n \in Int /\ DataIn(f) = f.n
    BY <1>1 DEF Expected, DataIn
  <2> QED  BY <1>1, <2>1, OnDataGoes DEF Received
<1>2. CASE f.type # "data"
  <2>1. DataIn(f) = 0
    BY <1>2 DEF DataIn
  <2>2. /\ f.type \in {"headers", "rst"} => f.id \in Ids
        /\ f.type = "window" => f.id \in Ids \cup {0}
        /\ f.type = "push" => f.promised \in Promises
    BY DEF Expected
  <2>3. f.type \in {"headers", "rst", "settings", "ack", "ping", "goaway", "window", "push"}
    BY <1>2 DEF Expected
  <2>4. Goes(s, AddAck(s, "pong"), 0)
    BY AddAckGoes
  <2>5. Goes(s, Received(s, f), 0)
    <3>1. CASE f.type = "headers"
      BY <2>2, <3>1, OnHeadersGoes DEF Received
    <3>2. CASE f.type = "rst"
      BY <2>2, <3>2, OnRstGoes DEF Received
    <3>3. CASE f.type = "settings"
      BY <3>3, OnSettingsGoes DEF Received
    <3>4. CASE f.type = "ack"
      BY <3>4, OnSettingsAckGoes DEF Received
    <3>5. CASE f.type = "ping"
      BY <2>4, <3>5, GoesNowhere DEF Received
    <3>6. CASE f.type = "goaway"
      BY <3>6, OnGoawayGoes DEF Received
    <3>7. CASE f.type = "window"
      BY <2>2, <3>7, OnUpdateGoes DEF Received
    <3>8. CASE f.type = "push"
      BY <2>2, <3>8, OnPushGoes DEF Received
    <3> QED  BY <2>3, <3>1, <3>2, <3>3, <3>4, <3>5, <3>6, <3>7, <3>8
  <2> QED  BY <2>1, <2>5
<1> QED  BY <1>1, <1>2

LEMMA ItemGoes ==
  ASSUME NEW s, Books(s), NEW i \in Ids, NEW x
  PROVE  LET t == [s EXCEPT !.streams[i].item = x] IN Goes(s, t, 0)
<1> DEFINE t == [s EXCEPT !.streams[i].item = x]
           st == [s.streams[i] EXCEPT !.item = x]
<1>1. /\ DOMAIN t = SessionFields /\ t.streams = [s.streams EXCEPT ![i] = st]
      /\ t.out = s.out /\ t.in = s.in /\ t.lastRecv = s.lastRecv /\ t.goaway = s.goaway
      /\ t.ignoring = s.ignoring /\ t.urgent = s.urgent /\ t.recvd = s.recvd
      /\ t.reg = s.reg
  BY DEF Books, HasStreams, SessionFields
<1>2. DOMAIN st = StreamFields /\ st.push = s.streams[i].push /\ st.state = s.streams[i].state
  BY DEF Books, HasStreams, StreamFields
<1> HIDE DEF t, st
<1>3. Similar(s, t)
  BY <1>1, <1>2, StreamChanges DEF Exists
<1>4. Goes(s, t, 0)
  BY <1>1, <1>3, SimilarStays
<1> QED  BY <1>4 DEF t

LEMMA DataSentGoes ==
  ASSUME NEW s, Books(s), NEW f, f.id \in Ids
  PROVE  Goes(s, DataSent(s, f), 0)
<1> DEFINE i == f.id
           t == [s EXCEPT !.window = @ - f.n,
                          !.streams[i].window = IF Exists(s, i) THEN @ - f.n ELSE @]
           x == [s.streams[i] EXCEPT !.window = IF Exists(s, i) THEN @ - f.n ELSE @]
           u == [t EXCEPT !.streams[i].item = "none"]
<1>1. DataSent(s, f) \in {t, ShutAndClose(u, i, "WR"), u}
  BY DEF DataSent
<1>2. /\ DOMAIN t = SessionFields /\ t.streams = [s.streams EXCEPT ![i] = x]
      /\ t.out = s.out /\ t.in = s.in /\ t.lastRecv = s.lastRecv /\ t.goaway = s.goaway
      /\ t.ignoring = s.ignoring /\ t.urgent = s.urgent /\ t.recvd = s.recvd
      /\ t.reg = s.reg
  <2>1. x = [s.streams[i] EXCEPT !.window = x.window]
    OBVIOUS
  <2> QED  BY DEF Books, HasStreams, SessionFields
<1>3. DOMAIN x = StreamFields /\ x.push = s.streams[i].push /\ x.state = s.streams[i].state
  BY DEF Books, HasStreams, StreamFields
<1> HIDE DEF t, x
<1>4. Similar(s, t)
  BY <1>2, <1>3, StreamChanges DEF Exists
<1>5. Goes(s, t, 0) /\ Books(t)
  BY <1>2, <1>4, SimilarStays DEF Goes
<1>6. Goes(t, u, 0) /\ Books(u)
  BY <1>5, ItemGoes DEF Goes
<1> HIDE DEF u
<1>7. Goes(t, ShutAndClose(u, i, "WR"), 0)
  BY <1>5, <1>6, ShutAndCloseGoes, GoesOnAlike
<1> QED  BY <1>1, <1>5, <1>6, <1>7, GoesOnAlike

LEMMA RequestSentGoes ==
  ASSUME NEW s, Books(s), NEW f, f.id \in Ids
  PROVE  Goes(s, RequestSent(s, f), 0)
<1> DEFINE i == f.id
           t == [s EXCEPT !.streams[i].state = "OPENING", !.streams[i].item = "ready"]
           x == [s.streams[i] EXCEPT !.state = "OPENING", !.item = "ready"]
<1>1. \/ RequestSent(s, f) = s
      \/ Exists(s, i) /\ RequestSent(s, f) = t
  BY DEF RequestSent
<1>2. /\ DOMAIN t = SessionFields /\ t.streams = [s.streams EXCEPT ![i] = x]
      /\ t.out = s.out /\ t.in = s.in /\ t.lastRecv = s.lastRecv /\ t.goaway = s.goaway
      /\ t.ignoring = s.ignoring /\ t.urgent = s.urgent /\ t.recvd = s.recvd
      /\ t.reg = s.reg
  BY DEF Books, HasStreams, SessionFields
<1>3. DOMAIN x = StreamFields /\ x.push = s.streams[i].push /\ x.state = "OPENING"
  BY DEF Books, HasStreams, StreamFields
<1> HIDE DEF t, x
<1>4. CASE Exists(s, i) /\ RequestSent(s, f) = t
  <2>1. Similar(s, t)
    BY <1>2, <1>3, <1>4, StreamChanges
  <2> QED  BY <1>2, <1>4, <2>1, SimilarStays
<1> QED  BY <1>1, <1>4, GoesNowhere

LEMMA GoawaySentGoes ==
  ASSUME NEW s, Books(s), NEW f
  PROVE  Goes(s, GoawaySent(s, f), 0)
<1> DEFINE t == [s EXCEPT !.goaway = @ \cup {"TERM_SENT", "SENT"}]
           ids == {i \in Promises : Exists(t, i) /\ i > f.id}
<1>1. GoawaySent(s, f) = CloseAll(t, ids, "refused")
  BY DEF GoawaySent
<1>2. ids \subseteq Ids /\ \A i \in ids : Exists(t, i)
  BY DEF Ids
<1>3. /\ DOMAIN t = SessionFields /\ t.streams = s.streams /\ t.out = s.out /\ t.in = s.in
      /\ t.lastRecv = s.lastRecv /\ t.goaway = s.goaway \cup {"TERM_SENT", "SENT"}
      /\ t.ignoring = s.ignoring /\ t.urgent = s.urgent /\ t.recvd = s.recvd
      /\ t.reg = s.reg
  BY DEF Books, HasStreams, SessionFields
<1> HIDE DEF t, ids
<1>4. Opened(t) = Opened(s) /\ Pushed(t) = Pushed(s)
  BY <1>3 DEF Opened, Pushed, Exists
<1>5. Books(t)
  BY <1>3, <1>4 DEF Books, HasStreams, Exists
<1>6. Goes(s, t, 0)
  <2>1. Account(t) = Account(s) + 0
    BY <1>3, AccountInt DEF Account
  <2> QED  BY <1>3, <1>4, <1>5, <2>1 DEF Goes
<1>7. Goes(t, CloseAll(t, ids, "refused"), 0)
  BY <1>2, <1>5, CloseAllGoes
<1> QED  BY <1>1, <1>6, <1>7, GoesOnAlike

LEMMA UpdateSentGoes ==
  ASSUME NEW s, Books(s), NEW f, f.id \in Ids \cup {0}
  PROVE  Goes(s, UpdateSent(s, f), 0)
<1> DEFINE t == [s EXCEPT !.updating = FALSE]
           u == [s EXCEPT !.streams[f.id].updating = FALSE]
           x == [s.streams[f.id] EXCEPT !.updating = FALSE]
<1>1. CASE f.id = 0
  <2>1. UpdateSent(s, f) = RecvConnection(t, 0)
    BY <1>1 DEF UpdateSent
  <2>2. SameStreams(s, t) /\ t.recvd = s.recvd /\ t.reg = s.reg
    BY DEF SameStreams, Books, HasStreams, SessionFields
  <2> HIDE DEF t
  <2>3. Goes(s, t, 0) /\ Books(t)
    BY <2>2, SameIsSimilar, SimilarStays DEF Goes
  <2>4. Goes(t, RecvConnection(t, 0), 0)
    BY <2>3, RecvConnectionGoes
  <2> QED  BY <2>1, <2>3, <2>4, GoesOnAlike
<1>2. CASE f.id \in Ids
  <2>1. UpdateSent(s, f) \in {s, u, RecvStream(u, f.id, 0, TRUE)}
    <3>1. f.id # 0
      BY <1>2, IdsAre
    <3> QED  BY <3>1 DEF UpdateSent
  <2>2. /\ DOMAIN u = SessionFields /\ u.streams = [s.streams EXCEPT ![f.id] = x]
        /\ u.out = s.out /\ u.in = s.in /\ u.lastRecv = s.lastRecv /\ u.goaway = s.goaway
        /\ u.ignoring = s.ignoring /\ u.urgent = s.urgent /\ u.recvd = s.recvd /\ u.reg = s.reg
    BY DEF Books, HasStreams, SessionFields
  <2>3. /\ DOMAIN x = StreamFields /\ x.push = s.streams[f.id].push
        /\ x.state = s.streams[f.id].state
    BY <1>2 DEF Books, HasStreams, StreamFields
  <2> HIDE DEF x, u
  <2>4. Similar(s, u)
    BY <1>2, <2>2, <2>3, StreamChanges DEF Exists
  <2>5. Goes(s, u, 0) /\ Books(u)
    BY <2>2, <2>4, SimilarStays DEF Goes
  <2>6. Goes(u, RecvStream(u, f.id, 0, TRUE), 0)
    BY <1>2, <2>5, RecvStreamGoes
  <2>7. Goes(s, RecvStream(u, f.id, 0, TRUE), 0)
    <3>1. 0 \in Int
      OBVIOUS
    <3> QED  BY <2>5, <2>6, <3>1, GoesOnAlike, Zenon
  <2> QED  BY <2>1, <2>5, <2>7, GoesNowhere
<1> QED  BY <1>1, <1>2

LEMMA AfterSentGoes ==
  ASSUME NEW s0, Books(s0), Sayable(s0.aob), s0.aob.type = "headers" => s0.aob.id \in Requests
  PROVE  Goes([s0 EXCEPT !.aob = NoFrame], AfterSent(s0), 0)
<1> DEFINE f == s0.aob
           s == [s0 EXCEPT !.aob = NoFrame]
<1>1. SameStreams(s0, s) /\ s.recvd = s0.recvd /\ s.reg = s0.reg
  BY DEF SameStreams, Books, HasStreams, SessionFields
<1>2. AfterSent(s0) = CASE f.type = "data"    -> DataSent(s, f)
                        [] f.type = "headers" -> RequestSent(s, f)
                        [] f.type = "rst"     -> Close(s, f.id, "reset")
                        [] f.type = "goaway"  -> GoawaySent(s, f)
                        [] f.type = "window"  -> UpdateSent(s, f)
                        [] OTHER              -> s
  BY DEF AfterSent
<1> HIDE DEF f, s
<1>3. Books(s)
  BY <1>1, SameIsSimilar, SimilarStays DEF Goes
<1>4. /\ f.type \in {"rst", "data", "headers"} => f.id \in Ids
      /\ f.type = "window" => f.id \in Ids \cup {0}
  BY DEF Sayable, Ids, f
<1>5. Goes(s, AfterSent(s0), 0)
  <2>1. CASE f.type = "data"
    BY <1>2, <1>3, <1>4, <2>1, DataSentGoes
  <2>2. CASE f.type = "headers"
    BY <1>2, <1>3, <1>4, <2>2, RequestSentGoes
  <2>3. CASE f.type = "rst"
    BY <1>2, <1>3, <1>4, <2>3, CloseGoes
  <2>4. CASE f.type = "goaway"
    BY <1>2, <1>3, <2>4, GoawaySentGoes
  <2>5. CASE f.type = "window"
    BY <1>2, <1>3, <1>4, <2>5, UpdateSentGoes
  <2>6. CASE f.type \notin {"data", "headers", "rst", "goaway", "window"}
    BY <1>2, <1>3, <2>6, GoesNowhere
  <2> QED  BY <2>1, <2>2, <2>3, <2>4, <2>5, <2>6
<1> QED  BY <1>5 DEF s

-----------------------------------------------------------------------------
(* What is done before a frame is sent                                     *)

LEMMA GoesOnReads ==
  ASSUME NEW s, Books(s), GoesOn(s)
  PROVE  ~ Closing(s)
<1>1. "TERM_SENT" \notin s.goaway /\ "TERM_ON_SEND" \notin s.goaway /\ "SENT" \notin s.goaway
  BY DEF GoesOn, Books
<1>2. CASE "RECV" \in s.goaway
  <2>1. PICK i \in Requests : i \in Opened(s)
    BY <1>2 DEF GoesOn, Opened
  <2>2. s.out \in Nat /\ s.in \in Nat
    BY IdsFinite DEF Books, Opened, Pushed, Ids
  <2>3. Opened(s) # {} /\ IsFiniteSet(Opened(s))
    BY <2>1, IdsAreFinite DEF Opened, Ids
  <2>4. s.out # 0
    BY <2>3, FS_EmptySet DEF Books
  <2> QED  BY <1>1, <2>2, <2>4 DEF Closing, WantRead
<1>3. CASE "RECV" \notin s.goaway
  BY <1>1, <1>3 DEF Closing, WantRead
<1> QED  BY <1>2, <1>3

(***************************************************************************)
(* s becomes t to send f: nothing is opened but the stream of a request,   *)
(* and what f gives back is on its way if the session goes on.             *)
(***************************************************************************)
Prepares(s, t, f) ==
  /\ Books(t) /\ Sayable(t.aob)
  /\ \A i \in Opened(t) : i \in Opened(s) \/ (f.type = "headers" /\ i = f.id)
  /\ GoesOn(t) => GoesOn(s) /\ Account(t) = Account(s) /\ Returned(t.aob) = Returned(f)

LEMMA GoesPrepares ==
  ASSUME NEW s, Books(s), NEW t, Goes(s, t, 0), t.aob = NoFrame,
         NEW f, GoesOn(s) => Returned(f) = 0
  PROVE  Prepares(s, t, f)
<1>1. Sayable(NoFrame) /\ Returned(NoFrame) = 0
  BY DEF NoFrame, Frame, Sayable, Returned
<1>2. GoesOn(t) => GoesOn(s)
  BY WentOn DEF Goes
<1>3. Account(s) \in Int
  BY AccountInt
<1> QED  BY <1>1, <1>2, <1>3 DEF Goes, Prepares

LEMMA SendsPrepares ==
  ASSUME NEW s, Books(s), NEW t, Goes(s, t, 0), NEW f, NEW g, Sayable(g), Returned(g) = Returned(f)
  PROVE  Prepares(s, Sends(t, g), f)
<1> DEFINE u == Sends(t, g)
<1>1. SameStreams(t, u) /\ u.recvd = t.recvd /\ u.reg = t.reg /\ u.aob = g
  BY DEF Goes, Sends, SameStreams, Books, HasStreams, SessionFields
<1> HIDE DEF u
<1>2. Books(t)
  BY DEF Goes
<1>3. Goes(t, u, 0)
  BY <1>1, <1>2, SameIsSimilar, SimilarStays
<1>4. Goes(s, u, 0)
  BY <1>3, GoesOnAlike
<1>5. GoesOn(u) => GoesOn(s)
  BY <1>4, WentOn DEF Goes
<1>6. Account(s) \in Int
  BY AccountInt
<1>7. Prepares(s, u, f)
  BY <1>1, <1>4, <1>5, <1>6 DEF Goes, Prepares
<1> QED  BY <1>7 DEF u

LEMMA PrepDataPrepares ==
  ASSUME NEW s, Books(s), s.aob = NoFrame, NEW f, f.id \in Ids, f.type = "data"
  PROVE  Prepares(s, PrepData(s, f.id), f)
<1> DEFINE i == f.id
           st == s.streams[i]
           n == Least(Least(st.window, s.window), FrameSize)
           read == Read(i, s.left[i], n)
           t == [s EXCEPT !.streams[i].item = "none"]
           u == [s EXCEPT !.streams[i].item = "deferred"]
           v == [s EXCEPT !.left[i] = @ - read.n]
           g == Data(i, read.n, read.eof)
<1>1. PrepData(s, i) \in {t, u, Sends(v, g)}
  BY DEF PrepData
<1>2. Sayable(g) /\ Returned(g) = 0 /\ Returned(f) = 0
  BY DEF Data, Sayable, Returned
<1>3. t.aob = NoFrame /\ u.aob = NoFrame
  BY DEF Books, HasStreams, SessionFields
<1>4. Goes(s, t, 0) /\ Goes(s, u, 0)
  BY ItemGoes
<1> HIDE DEF st, n, read
<1>5. SameStreams(s, v) /\ v.recvd = s.recvd /\ v.reg = s.reg
  BY DEF SameStreams, Books, HasStreams, SessionFields
<1> HIDE DEF t, u, v, g
<1>6. Goes(s, v, 0)
  BY <1>5, SameIsSimilar, SimilarStays
<1>7. Prepares(s, Sends(v, g), f)
  BY <1>2, <1>6, SendsPrepares
<1>8. Prepares(s, t, f) /\ Prepares(s, u, f)
  BY <1>2, <1>3, <1>4, GoesPrepares
<1> QED  BY <1>1, <1>7, <1>8

LEMMA PrepRequestPrepares ==
  ASSUME NEW s, Books(s), s.aob = NoFrame, NEW f, f.type = "headers", f.id \in Requests,
         ~ Exists(s, f.id)
  PROVE  Prepares(s, PrepRequest(s, f), f)
<1> DEFINE i == f.id
           t == Open(s, i, "INITIAL", {})
           x == [NoStream EXCEPT !.state = "INITIAL", !.shut = {}, !.window = s.initial,
                                 !.push = FALSE]
           u == [t EXCEPT !.lastSent = i]
           v == Close(t, i, "refused")
<1>1. \/ PrepRequest(s, f) = v
      \/ "RECV" \notin s.goaway /\ PrepRequest(s, f) = Sends(u, f)
  BY DEF PrepRequest
<1>2. DOMAIN x = StreamFields /\ x.state = "INITIAL" /\ x.push = FALSE
  BY DEF NoStream, StreamFields
<1>3. /\ DOMAIN t = SessionFields /\ t.streams = [s.streams EXCEPT ![i] = x]
      /\ t.out = s.out + 1 /\ t.in = s.in /\ t.lastRecv = s.lastRecv /\ t.goaway = s.goaway
      /\ t.ignoring = s.ignoring /\ t.urgent = s.urgent /\ t.recvd = s.recvd
      /\ t.reg = s.reg
      /\ t.aob = s.aob
  BY DEF Open, Books, HasStreams, SessionFields
<1> HIDE DEF t, x
<1>4. i \in Ids /\ i \notin Promises
  BY ParityIs DEF Ids
<1>5. /\ DOMAIN t.streams = Ids /\ t.streams[i] = x
      /\ \A j \in Ids : j # i => t.streams[j] = s.streams[j]
  BY <1>3, <1>4 DEF Books, HasStreams
<1>6. Opened(t) = Opened(s) \cup {i} /\ i \notin Opened(s) /\ Pushed(t) = Pushed(s)
  BY <1>2, <1>4, <1>5 DEF Opened, Pushed, Exists, Ids
<1>7. t.out = Cardinality(Opened(t))
  <2>1. IsFiniteSet(Opened(s))
    BY IdsAreFinite DEF Opened, Ids
  <2>2. Cardinality(Opened(s) \cup {i}) = Cardinality(Opened(s)) + 1
    BY <1>6, <2>1, FS_AddElement
  <2>3. s.out = Cardinality(Opened(s))
    BY DEF Books
  <2> QED  BY <1>3, <1>6, <2>2, <2>3
<1>8. HasStreams(t) /\ \A j \in Ids : t.streams[j].state = "RESERVED" => t.streams[j].push = TRUE
  BY <1>2, <1>3, <1>5 DEF Books, HasStreams
<1>9. \A j \in Requests : t.streams[j].push = FALSE
  BY <1>2, <1>5 DEF Books, Ids
<1>10. \A j \in Promises : Exists(t, j) => j <= t.lastRecv
  BY <1>3, <1>4, <1>5 DEF Books, Exists, Ids
<1>11. Books(t)
  BY <1>3, <1>6, <1>7, <1>8, <1>9, <1>10 DEF Books
<1>12. Account(t) = Account(s) /\ Account(s) \in Int
  BY <1>3, AccountInt DEF Account
<1>13. Returned(f) = 0 /\ Sayable(f) /\ Sayable(NoFrame) /\ Returned(NoFrame) = 0
  BY DEF Returned, Sayable, NoFrame, Frame
<1>14. CASE PrepRequest(s, f) = v
  <2>1. Goes(t, v, 0)
    BY <1>4, <1>11, CloseGoes
  <2>2. v = CloseAll(t, {i}, "refused")
    BY <1>2, <1>5 DEF Close, Exists
  <2>3. v.aob = NoFrame /\ i \notin Opened(v)
    <3> HIDE DEF v
    <3> QED  BY <1>3, <1>4, <2>2 DEF CloseAll, SessionFields, Opened, Exists, NoStream
  <2> HIDE DEF v
  <2>4. Opened(v) \subseteq Opened(s)
    BY <1>6, <2>1, <2>3 DEF Goes
  <2>5. GoesOn(v) => GoesOn(s)
    BY <1>3, <2>1, <2>4, WentOn DEF Goes
  <2>6. GoesOn(v) => Account(v) = Account(s)
    BY <1>12, <2>1 DEF Goes
  <2>7. Books(v)
    BY <2>1 DEF Goes
  <2>8. Prepares(s, v, f)
    BY <1>13, <2>3, <2>4, <2>5, <2>6, <2>7 DEF Prepares
  <2> QED  BY <1>14, <2>8
<1>15. CASE "RECV" \notin s.goaway /\ PrepRequest(s, f) = Sends(u, f)
  <2>1. SameStreams(t, u) /\ u.recvd = t.recvd /\ u.reg = t.reg
    BY <1>11 DEF SameStreams, Books, HasStreams, SessionFields
  <2> HIDE DEF u
  <2>2. Goes(t, u, 0)
    BY <1>11, <2>1, SameIsSimilar, SimilarStays
  <2>3. Prepares(t, Sends(u, f), f)
    BY <1>11, <1>13, <2>2, SendsPrepares
  <2>4. GoesOn(t) => GoesOn(s)
    BY <1>3, <1>15 DEF GoesOn
  <2> PICK w : w = Sends(u, f)
    OBVIOUS
  <2>5. Prepares(s, w, f)
    BY <1>6, <1>12, <2>3, <2>4 DEF Prepares
  <2> QED  BY <1>15, <2>5
<1> QED  BY <1>1, <1>14, <1>15

LEMMA PrepPrepares ==
  ASSUME NEW s0, Books(s0), s0.aob = NoFrame, NEW f, Sayable(f),
         f.type = "headers" => f.id \in Requests /\ ~ Exists(s0, f.id)
  PROVE  Prepares(s0, Prep(s0, f), f)
<1> DEFINE t == [s0 EXCEPT !.acks = @ - 1]
           s == IF f.type \in {"ack", "pong"} THEN t ELSE s0
<1>1. Prep(s0, f) = CASE f.type = "data"    -> PrepData(s, f.id)
                      [] f.type = "headers" -> PrepRequest(s, f)
                      [] f.type = "window"  -> PrepUpdate(s, f)
                      [] f.type \in {"rst", "ack"} -> IF Closing(s) THEN s ELSE Sends(s, f)
                      [] f.type = "pong"    -> IF "TERM_ON_SEND" \in s.goaway THEN s ELSE Sends(s, f)
                      [] OTHER              -> Sends(s, f)
  BY DEF Prep
<1>2. SameStreams(s0, t) /\ t.recvd = s0.recvd /\ t.reg = s0.reg /\ t.aob = s0.aob
  BY DEF SameStreams, Books, HasStreams, SessionFields
<1> HIDE DEF t
<1>3. Goes(s0, t, 0)
  BY <1>2, SameIsSimilar, SimilarStays
<1>4. Goes(s0, s, 0) /\ s.aob = NoFrame
  BY <1>2, <1>3, GoesNowhere
<1>5. f.type = "headers" => s = s0
  OBVIOUS
<1> HIDE DEF s
<1>6. Books(s)
  BY <1>4 DEF Goes
<1>7. Prepares(s, Prep(s0, f), f)
  <2>1. CASE f.type = "data"
    <3>1. f.id \in Ids
      BY <2>1 DEF Sayable
    <3> QED  BY <1>1, <1>4, <1>6, <2>1, <3>1, PrepDataPrepares
  <2>2. CASE f.type = "headers"
    BY <1>1, <1>4, <1>5, <1>6, <2>2, PrepRequestPrepares
  <2>3. Prepares(s, Sends(s, f), f)
    BY <1>6, GoesNowhere, SendsPrepares
  <2>4. CASE f.type = "window"
    <3>1. CASE PrepUpdate(s, f) = Sends(s, f)
      BY <1>1, <2>3, <2>4, <3>1
    <3>2. CASE PrepUpdate(s, f) = s /\ (Closing(s) \/ f.id # 0)
      <4>1. GoesOn(s) => Returned(f) = 0
        BY <1>6, <3>2, GoesOnReads DEF Returned
      <4> QED  BY <1>1, <1>4, <1>6, <2>4, <3>2, <4>1, GoesNowhere, GoesPrepares
    <3> QED  BY <3>1, <3>2 DEF PrepUpdate
  <2>5. CASE f.type \notin {"data", "headers", "window"}
    <3>1. Returned(f) = 0
      BY <2>5 DEF Returned
    <3>2. Prepares(s, s, f)
      BY <1>4, <1>6, <3>1, GoesNowhere, GoesPrepares
    <3>3. Prep(s0, f) \in {s, Sends(s, f)}
      BY <1>1, <2>5
    <3> QED  BY <2>3, <3>2, <3>3
  <2> QED  BY <2>1, <2>2, <2>4, <2>5
<1>8. GoesOn(s) => GoesOn(s0)
  BY <1>4, WentOn DEF Goes
<1>9. Account(s0) \in Int /\ (GoesOn(s) => Account(s) = Account(s0))
  BY <1>4, AccountInt DEF Goes
<1> PICK u : u = Prep(s0, f)
  OBVIOUS
<1>10. Prepares(s0, u, f)
  BY <1>4, <1>7, <1>8, <1>9 DEF Goes, Prepares
<1> QED  BY <1>10

-----------------------------------------------------------------------------
(* The invariant                                                           *)

Expecting == IsSequence(down) /\ \A k \in DOMAIN down : Expected(down[k])

\* What the server may still send, what is on its way to the client, and what the client
\* has to give back are the window.
Balance ==
  /\ server.credit \in Int /\ Returned(c.aob) \in Int
  /\ server.credit + AllData(down) + Account(c) + Returned(c.aob) = Window

Ledger ==
  /\ Books(c)
  /\ \A k \in DOMAIN c.syn : ~ Exists(c, c.syn[k].id)
  /\ Sayable(c.aob)
  /\ server.done \subseteq Ids
  /\ Expecting
  /\ GoesOn(c) => Balance

LEMMA ExpectingCounts ==
  ASSUME Expecting
  PROVE  CountsData(down) /\ AllData(down) \in Int
<1>1. \A f : Expected(f) => DataIn(f) \in Int
  BY DEF Expected, DataIn
<1>2. CountsData(down)
  BY <1>1 DEF Expecting, CountsData
<1>3. DataIn(NoFrame) \in Int
  BY DEF DataIn, NoFrame, Frame
<1> QED  BY <1>2, <1>3, DataAppended

LEMMA SaysKeeps ==
  ASSUME Ledger, c' = c, server'.done = server.done, NEW f, Expected(f), down' = Append(down, f),
         server'.credit = server.credit - DataIn(f)
  PROVE  Ledger'
<1>1. DataIn(f) \in Int /\ CountsData(down) /\ Expecting
  BY ExpectingCounts DEF Expected, DataIn, Ledger
<1>2. AllData(down') = AllData(down) + DataIn(f) /\ AllData(down) \in Int
  BY <1>1, DataAppended
<1>3. Expecting'
  BY <1>1, AppendedIs DEF Expecting
<1>4. ASSUME GoesOn(c) PROVE Balance'
  <2>1. Balance /\ Account(c) \in Int
    BY <1>4, AccountInt DEF Ledger
  <2> QED  BY <1>1, <1>2, <2>1 DEF Balance
<1>5. GoesOn(c') => Balance'
  BY <1>4
<1> QED  BY <1>3, <1>5 DEF Ledger

LEMMA QuietKeeps ==
  ASSUME Ledger, c' = c, server'.done = server.done, down' = down, server'.credit = server.credit
  PROVE  Ledger'
<1>1. Expecting' /\ (GoesOn(c') => Balance')
  BY DEF Ledger, Expecting, Balance
<1> QED  BY <1>1 DEF Ledger

LEMMA PopKeeps ==
  ASSUME IInv, Ledger, NEW f \in NextItems(c)
  PROVE  LET s == Popped(c, f) IN
         /\ Books(s) /\ Opened(s) = Opened(c) /\ s.goaway = c.goaway /\ s.ignoring = c.ignoring
         /\ \A i \in Ids : Exists(s, i) <=> Exists(c, i)
         /\ Sayable(f) /\ (f.type = "headers" => f.id \in Requests /\ ~ Exists(c, f.id))
         /\ Returned(f) \in Int /\ Account(c) = Account(s) + Returned(f)
<1> DEFINE s == Popped(c, f)
<1>0. Books(c) /\ InLine(c) /\ HasStreams(c) /\ Account(c) \in Int
  BY AccountInt DEF IInv, Ledger, Books
<1>1. CASE c.urgent # <<>>
  <2>1. f = Head(c.urgent) /\ s = [c EXCEPT !.urgent = Tail(@)]
    BY <1>1 DEF NextItems, Popped
  <2>2. /\ DOMAIN s = SessionFields /\ s.streams = c.streams /\ s.out = c.out /\ s.in = c.in
        /\ s.lastRecv = c.lastRecv /\ s.goaway = c.goaway /\ s.ignoring = c.ignoring
        /\ s.urgent = Tail(c.urgent) /\ s.recvd = c.recvd /\ s.reg = c.reg
    BY <1>0, <2>1 DEF HasStreams, SessionFields
  <2> HIDE DEF s
  <2>3. Quiet(Tail(c.urgent)) /\ f.type \in {"settings", "ack", "pong"}
    BY <1>0, <1>1, <2>1, TailIs DEF HasStreams, Quiet
  <2>4. SameStreams(c, s)
    BY <2>2, <2>3 DEF SameStreams
  <2>5. Goes(c, s, 0)
    BY <1>0, <2>2, <2>4, SameIsSimilar, SimilarStays
  <2>6. Sayable(f) /\ Returned(f) = 0
    BY <2>3 DEF Sayable, Returned
  <2>7. Account(c) = Account(s) + 0 /\ Opened(s) = Opened(c) /\ \A i \in Ids : Exists(s, i) <=> Exists(c, i)
    BY <1>0, <2>2 DEF Account, Opened, Exists
  <2>8. Books(s) /\ (f.type = "headers" => f.id \in Requests /\ ~ Exists(c, f.id))
    BY <2>3, <2>5 DEF Goes
  <2> QED  BY <2>2, <2>6, <2>7, <2>8 DEF s
<1>2. CASE c.urgent = <<>> /\ c.reg # <<>>
  <2>1. f = Head(c.reg) /\ s = [c EXCEPT !.reg = Tail(@)]
    BY <1>2 DEF NextItems, Popped
  <2>2. /\ DOMAIN s = SessionFields /\ s.streams = c.streams /\ s.out = c.out /\ s.in = c.in
        /\ s.lastRecv = c.lastRecv /\ s.goaway = c.goaway /\ s.ignoring = c.ignoring
        /\ s.urgent = c.urgent /\ s.recvd = c.recvd /\ s.reg = Tail(c.reg)
    BY <1>0, <2>1 DEF HasStreams, SessionFields
  <2> HIDE DEF s
  <2>3. SameStreams(c, s)
    BY <1>0, <2>2 DEF SameStreams, HasStreams
  <2>4. CountsReturned(c.reg) /\ IsSequence(c.reg) /\ \A k \in DOMAIN c.reg : Sayable(c.reg[k])
    BY <1>0 DEF Books, CountsReturned
  <2>5. /\ CountsReturned(s.reg) /\ AllReturned(s.reg) \in Int /\ Returned(f) \in Int
        /\ AllReturned(c.reg) = Returned(f) + AllReturned(s.reg)
    BY <1>2, <2>1, <2>2, <2>4, ReturnedTail
  <2>6. Sayable(f) /\ \A k \in DOMAIN s.reg : Sayable(s.reg[k])
    BY <1>2, <2>1, <2>2, <2>4, TailIs
  <2>7. Account(c) = Account(s) + Returned(f) /\ Account(s) = Account(c) + (0 - Returned(f))
    <3>1. c.recvd \in Int
      BY <1>0 DEF Books
    <3> QED  BY <2>2, <2>5, <3>1 DEF Account
  <2>8. Books(s)
    <3>1. s.recvd \in Int /\ 0 - Returned(f) \in Int
      BY <1>0, <2>2, <2>5 DEF Books
    <3>2. Goes(c, s, 0 - Returned(f))
      BY <1>0, <2>3, <2>5, <2>6, <2>7, <3>1, SameIsSimilar, SimilarGoes
    <3> QED  BY <3>2 DEF Goes
  <2>9. Opened(s) = Opened(c) /\ \A i \in Ids : Exists(s, i) <=> Exists(c, i)
    BY <2>2 DEF Opened, Exists
  <2>10. f.type # "headers"
    BY <1>2, <2>1, <2>4, TailIs DEF IInv, Shape, Plain
  <2> QED  BY <2>2, <2>5, <2>6, <2>7, <2>8, <2>9, <2>10 DEF s
<1>3. CASE c.urgent = <<>> /\ c.reg = <<>>
  <2>1. \/ c.syn # <<>> /\ f = Head(c.syn)
        \/ f \in {Frame("data", i) : i \in Ready(c)}
    BY <1>3 DEF NextItems
  <2>2. CASE c.syn # <<>> /\ f = Head(c.syn)
    <3>1. f.type = "headers" /\ f.id \in Requests /\ ~ Exists(c, f.id)
      BY <1>0, <2>2, TailIs DEF InLine, Ledger
    <3>2. s = [c EXCEPT !.syn = Tail(@)]
      BY <1>3, <3>1 DEF Popped
    <3>3. /\ DOMAIN s = SessionFields /\ s.streams = c.streams /\ s.out = c.out /\ s.in = c.in
          /\ s.lastRecv = c.lastRecv /\ s.goaway = c.goaway /\ s.ignoring = c.ignoring
          /\ s.urgent = c.urgent /\ s.recvd = c.recvd /\ s.reg = c.reg
      BY <1>0, <3>2 DEF HasStreams, SessionFields
    <3> HIDE DEF s
    <3>4. SameStreams(c, s)
      BY <1>0, <3>3 DEF SameStreams, HasStreams
    <3>5. Goes(c, s, 0)
      BY <1>0, <3>3, <3>4, SameIsSimilar, SimilarStays
    <3>6. Sayable(f) /\ Returned(f) = 0
      BY <3>1 DEF Sayable, Returned
    <3>7. Account(c) = Account(s) + 0 /\ Opened(s) = Opened(c) /\ \A i \in Ids : Exists(s, i) <=> Exists(c, i)
      BY <1>0, <3>3 DEF Account, Opened, Exists
    <3>8. Books(s)
      BY <3>5 DEF Goes
    <3> QED  BY <3>1, <3>3, <3>6, <3>7, <3>8 DEF s
  <2>3. CASE f \in {Frame("data", i) : i \in Ready(c)}
    <3>1. f.type = "data" /\ f.id \in Ids
      BY <2>3 DEF Frame, Ready
    <3>2. s = c
      BY <1>3, <3>1 DEF Popped
    <3>3. Sayable(f) /\ Returned(f) = 0
      BY <3>1 DEF Sayable, Returned
    <3> QED  BY <1>0, <3>1, <3>2, <3>3
  <2> QED  BY <2>1, <2>2, <2>3
<1> QED  BY <1>1, <1>2, <1>3

LEMMA PrepFrameBalances == ASSUME IInv, Ledger, PrepFrame PROVE Ledger'
<1>1. PICK f \in NextItems(c) : c' = Prep(Popped(c, f), f)
  BY DEF PrepFrame
<1> PICK s : s = Popped(c, f)
  OBVIOUS
<1>2. c.aob = NoFrame /\ server' = server /\ down' = down
  BY DEF PrepFrame
<1>3. /\ Books(s) /\ Opened(s) = Opened(c) /\ s.goaway = c.goaway /\ s.ignoring = c.ignoring
      /\ \A i \in Ids : Exists(s, i) <=> Exists(c, i)
      /\ Sayable(f) /\ (f.type = "headers" => f.id \in Requests /\ ~ Exists(c, f.id))
      /\ Returned(f) \in Int /\ Account(c) = Account(s) + Returned(f)
  BY PopKeeps
<1>4. /\ Shape(s) /\ s.aob = NoFrame
      /\ \/ f.type # "headers" /\ s.syn = c.syn
         \/ c.syn # <<>> /\ f = Head(c.syn) /\ s.syn = Tail(c.syn)
  BY <1>2, NextItem DEF IInv
<1>5. f.type = "headers" => f.id \in Requests /\ ~ Exists(s, f.id)
  BY <1>3 DEF Ids
<1>6. Prepares(s, c', f)
  BY <1>1, <1>3, <1>4, <1>5, PrepPrepares
<1>7. Readied(s, c', f)
  BY <1>1, <1>4, PrepReadies
<1>8. c'.syn = s.syn /\ Books(c') /\ Sayable(c'.aob)
  BY <1>6, <1>7 DEF Readied, Prepares
<1>9. ASSUME NEW k \in DOMAIN c'.syn PROVE ~ Exists(c', c'.syn[k].id)
  <2>1. CASE f.type # "headers" /\ s.syn = c.syn
    <3>1. c.syn[k].id \in Requests /\ ~ Exists(c, c.syn[k].id)
      BY <1>8, <1>9, <2>1 DEF IInv, InLine, Ledger
    <3>2. c.syn[k].id \notin Opened(c')
      BY <1>3, <1>6, <2>1, <3>1 DEF Prepares, Opened
    <3> QED  BY <1>8, <2>1, <3>1, <3>2 DEF Opened
  <2>2. CASE c.syn # <<>> /\ f = Head(c.syn) /\ s.syn = Tail(c.syn)
    <3>1. /\ Len(c.syn) \in Nat \ {0} /\ DOMAIN Tail(c.syn) = 1 .. Len(c.syn) - 1
          /\ \A j \in 1 .. Len(c.syn) - 1 : Tail(c.syn)[j] = c.syn[j + 1] /\ j + 1 \in DOMAIN c.syn
          /\ f = c.syn[1] /\ 1 \in DOMAIN c.syn
      BY <2>2, TailIs DEF IInv, InLine
    <3>2. k \in 1 .. Len(c.syn) - 1 /\ k + 1 \in DOMAIN c.syn /\ c'.syn[k] = c.syn[k + 1] /\ 1 < k + 1
      <4>1. c'.syn = Tail(c.syn)
        BY <1>8, <2>2
      <4>2. k \in 1 .. Len(c.syn) - 1
        BY <3>1, <4>1, Zenon
      <4>3. c'.syn[k] = c.syn[k + 1] /\ k + 1 \in DOMAIN c.syn
        BY <3>1, <4>1, <4>2, Zenon
      <4>4. 1 < k + 1
        BY <4>2
      <4> QED  BY <4>2, <4>3, <4>4
    <3>3. f.id < c.syn[k + 1].id /\ c.syn[k + 1].id \in Requests /\ ~ Exists(c, c.syn[k + 1].id)
      BY <3>1, <3>2 DEF IInv, InLine, Ledger
    <3>4. f.id # c.syn[k + 1].id
      BY <3>3, ParityIs
    <3>5. c.syn[k + 1].id \notin Opened(c')
      BY <1>3, <1>6, <3>3, <3>4 DEF Prepares, Opened
    <3> QED  BY <3>2, <3>3, <3>5 DEF Opened
  <2> QED  BY <1>4, <2>1, <2>2
<1>10. ASSUME GoesOn(c') PROVE Balance'
  <2>1. GoesOn(s) /\ Account(c') = Account(s) /\ Returned(c'.aob) = Returned(f)
    BY <1>6, <1>10 DEF Prepares
  <2>2. Opened(c) \subseteq Opened(s)
    BY <1>3
  <2>3. GoesOn(c)
    BY <1>3, <2>1, <2>2 DEF GoesOn, Opened
  <2>4. Balance
    BY <2>3 DEF Ledger
  <2>5. Returned(NoFrame) = 0
    BY DEF Returned, NoFrame, Frame
  <2>6. Account(s) \in Int
    BY <1>3, AccountInt
  <2>7. AllData(down) \in Int
    BY ExpectingCounts DEF Ledger
  <2> QED  BY <1>2, <1>3, <2>1, <2>4, <2>5, <2>6, <2>7 DEF Balance
<1>11. Expecting' /\ server'.done \subseteq Ids
  BY <1>2 DEF Ledger, Expecting
<1> QED  BY <1>8, <1>9, <1>10, <1>11 DEF Ledger

LEMMA WriteFrameBalances == ASSUME IInv, Ledger, WriteFrame PROVE Ledger'
<1>1. /\ c' = AfterSent(c) /\ server' = Taken(server, c.aob)
      /\ down' = IF c.aob.type = "settings" THEN Append(down, Frame("ack", 0)) ELSE down
  BY DEF WriteFrame
<1> DEFINE s == [c EXCEPT !.aob = NoFrame]
           f == c.aob
<1>2. SameStreams(c, s) /\ s.recvd = c.recvd /\ s.reg = c.reg /\ s.syn = c.syn /\ s.aob = NoFrame
  BY DEF Ledger, Books, HasStreams, SameStreams, SessionFields
<1>3. Books(c) /\ Sayable(f) /\ (f.type = "headers" => f.id \in Requests)
  BY DEF IInv, InLine, Ledger
<1>4. Goes(s, c', 0)
  BY <1>1, <1>3, AfterSentGoes
<1>5. Leads(s, c', {})
  BY <1>1, AfterSentLeads DEF IInv
<1> HIDE DEF s
<1>6. Goes(c, c', 0)
  BY <1>2, <1>3, <1>4, SameIsSimilar, SimilarStays, GoesOnAlike
<1>7. c'.syn = c.syn /\ c'.aob = NoFrame
  BY <1>2, <1>5 DEF Leads
<1>8. /\ DOMAIN server = ServerFields
      /\ server'.done = IF f.type = "data" /\ f.end THEN server.done \cup {f.id} ELSE server.done
      /\ server'.credit = IF f.type = "window" /\ f.id = 0 THEN server.credit + f.n
                          ELSE server.credit
  <2>1. DOMAIN server = ServerFields
    BY DEF IInv, ServerShape
  <2> QED  BY <1>1, <2>1 DEF Taken, ServerFields
<1>9. server'.done \subseteq Ids
  BY <1>3, <1>8 DEF Ledger, Sayable
<1>10. Expecting' /\ AllData(down') = AllData(down) /\ AllData(down) \in Int
  <2>1. Expecting /\ CountsData(down) /\ AllData(down) \in Int
    BY ExpectingCounts DEF Ledger
  <2>2. CASE c.aob.type = "settings"
    <3> PICK g : g = Frame("ack", 0)
      OBVIOUS
    <3>1. Expected(g) /\ DataIn(g) = 0
      BY DEF Expected, DataIn, Frame
    <3>2. Expecting'
      BY <1>1, <2>1, <2>2, <3>1, AppendedIs DEF Expecting
    <3>3. AllData(down') = AllData(down) + 0
      BY <1>1, <2>1, <2>2, <3>1, DataAppended
    <3> QED  BY <2>1, <3>2, <3>3
  <2>3. CASE c.aob.type # "settings"
    BY <1>1, <2>1, <2>3 DEF Expecting
  <2> QED  BY <2>2, <2>3
<1>11. ASSUME GoesOn(c') PROVE Balance'
  <2>1. GoesOn(c)
    BY <1>6, <1>11, WentOn DEF Goes
  <2>2. Balance /\ Account(c) \in Int
    BY <1>3, <2>1, AccountInt DEF Ledger
  <2>3. Account(c') = Account(c) + 0
    BY <1>6, <1>11 DEF Goes
  <2>4. server'.credit = server.credit + Returned(f)
    BY <1>8, <2>2 DEF Returned, Balance
  <2>5. Returned(c'.aob) = 0
    BY <1>7 DEF Returned, NoFrame, Frame
  <2> QED  BY <1>10, <2>2, <2>3, <2>4, <2>5 DEF Balance
<1>12. \A k \in DOMAIN c'.syn : ~ Exists(c', c'.syn[k].id)
  <2>1. \A k \in DOMAIN c.syn : c.syn[k].id \in Requests /\ c.syn[k].id \notin Opened(c)
    BY DEF IInv, InLine, Ledger, Opened
  <2>2. \A i \in Requests : i \notin Opened(c) => ~ Exists(c', i)
    BY <1>6 DEF Goes, Opened
  <2> QED  BY <1>7, <2>1, <2>2
<1>13. Books(c') /\ Sayable(c'.aob)
  BY <1>6, <1>7 DEF Goes, Sayable, NoFrame, Frame
<1> QED  BY <1>9, <1>10, <1>11, <1>12, <1>13 DEF Ledger

LEMMA ReceiveBalances == ASSUME IInv, Ledger, Receive PROVE Ledger'
<1>1. down # <<>> /\ down' = Tail(down) /\ server' = server
  BY DEF Receive
<1> PICK f : f = Head(down)
  OBVIOUS
<1> DEFINE t == [c EXCEPT !.ignoring = TRUE]
<1>2. \/ c.ignoring /\ c' = c
      \/ c' = Received(c, f)
      \/ c' = t
  BY DEF Receive
<1>3. Books(c) /\ Expecting /\ CountsData(down) /\ IsSequence(down)
  BY ExpectingCounts DEF Ledger, Expecting
<1>4. Expected(f) /\ Expecting'
  BY <1>1, <1>3, TailIs DEF Expecting
<1>5. /\ AllData(down') \in Int /\ DataIn(f) \in Int /\ AllData(down) = DataIn(f) + AllData(down')
  BY <1>1, <1>3, DataTail
<1>6. Goes(c, c', DataIn(f)) /\ c'.syn = c.syn /\ c'.aob = c.aob
  <2>1. CASE c.ignoring /\ c' = c
    BY <1>3, <2>1 DEF Goes, GoesOn
  <2>2. CASE c' = Received(c, f)
    <3>1. f.type = "goaway" => f.id \in Nat
      BY <1>1, <1>3, TailIs DEF IInv, OnTheWay, Truthful
    <3>2. Leads(c, c', RefusedBy(f))
      BY <2>2, <3>1, ReceivedLeads DEF IInv
    <3> QED  BY <1>3, <1>4, <2>2, <3>2, ReceivedGoes DEF Leads
  <2>3. CASE c' = t
    <3>1. /\ DOMAIN t = SessionFields /\ t.streams = c.streams /\ t.out = c.out /\ t.in = c.in
          /\ t.lastRecv = c.lastRecv /\ t.goaway = c.goaway /\ t.ignoring = TRUE
          /\ t.urgent = c.urgent /\ t.recvd = c.recvd /\ t.reg = c.reg
          /\ t.syn = c.syn /\ t.aob = c.aob
      BY <1>3 DEF Books, HasStreams, SessionFields
    <3> HIDE DEF t
    <3>2. Opened(t) = Opened(c) /\ Pushed(t) = Pushed(c)
      BY <3>1 DEF Opened, Pushed, Exists
    <3>3. Books(t)
      BY <1>3, <3>1, <3>2 DEF Books, HasStreams, Exists
    <3> QED  BY <2>3, <3>1, <3>2, <3>3 DEF Goes, GoesOn
  <2> QED  BY <1>2, <2>1, <2>2, <2>3
<1>7. ASSUME GoesOn(c') PROVE Balance'
  <2>1. GoesOn(c)
    BY <1>6, <1>7, WentOn DEF Goes
  <2>2. Balance /\ Account(c) \in Int
    BY <1>3, <2>1, AccountInt DEF Ledger
  <2>3. Account(c') = Account(c) + DataIn(f)
    BY <1>6, <1>7 DEF Goes
  <2> QED  BY <1>1, <1>5, <1>6, <2>2, <2>3 DEF Balance
<1>8. \A k \in DOMAIN c'.syn : ~ Exists(c', c'.syn[k].id)
  <2>1. \A k \in DOMAIN c.syn : c.syn[k].id \in Requests /\ c.syn[k].id \notin Opened(c)
    BY DEF IInv, InLine, Ledger, Opened
  <2>2. \A i \in Requests : i \notin Opened(c) => ~ Exists(c', i)
    BY <1>6 DEF Goes, Opened
  <2> QED  BY <1>6, <2>1, <2>2
<1>9. Books(c') /\ Sayable(c'.aob) /\ server'.done \subseteq Ids
  BY <1>1, <1>6 DEF Goes, Ledger
<1> QED  BY <1>4, <1>7, <1>8, <1>9 DEF Ledger

\* The server says what is no data, and spends nothing.
LEMMA FreeKeeps ==
  ASSUME IInv, Ledger, NEW f, Expected(f), f.type # "data", Send(f),
         server'.credit = server.credit, server'.done = server.done
  PROVE  Ledger'
<1>1. ASSUME GoesOn(c) PROVE server'.credit = server.credit - DataIn(f)
  BY <1>1 DEF Ledger, Balance, DataIn
<1>2. DataIn(f) = 0 /\ c' = c /\ down' = Append(down, f)
  BY DEF DataIn, Send
<1>3. CASE GoesOn(c)
  BY <1>1, <1>2, <1>3, SaysKeeps
<1>4. CASE ~ GoesOn(c)
  <2>1. Expecting'
    BY <1>2, AppendedIs DEF Ledger, Expecting
  <2> QED  BY <1>2, <1>4, <2>1 DEF Ledger
<1> QED  BY <1>3, <1>4

LEMMA UnitsKeep ==
  ASSUME IInv, Ledger, NEW i \in Ids, NEW n \in Int, NEW end, Send(Data(i, n, end)),
         server'.credit = server.credit - n, server'.done = server.done
  PROVE  Ledger'
<1> PICK f : f = Data(i, n, end)
  OBVIOUS
<1>1. Expected(f) /\ DataIn(f) = n
  BY DEF Expected, DataIn, Data
<1>2. c' = c /\ down' = Append(down, f)
  BY DEF Send
<1> QED  BY <1>1, <1>2, SaysKeeps

LEMMA RespondBalances == ASSUME IInv, Ledger, NEW i \in Ids, Respond(i) PROVE Ledger'
<1>1. /\ Send(Headers(i, FALSE, FALSE))
      /\ server' = [server EXCEPT !.phase[i] = "answering", !.processed = @ \cup {i}]
  BY DEF Respond
<1>2. server'.credit = server.credit /\ server'.done = server.done
  BY <1>1 DEF IInv, ServerShape, ServerFields
<1> PICK f : f = Headers(i, FALSE, FALSE)
  OBVIOUS
<1>3. Expected(f) /\ f.type # "data"
  BY DEF Expected, Headers
<1> QED  BY <1>1, <1>2, <1>3, FreeKeeps

LEMMA SendAnswerBalances == ASSUME IInv, Ledger, NEW i \in Ids, SendAnswer(i) PROVE Ledger'
<1>1. PICK n \in 1 .. Least(Answer - server.sent[i], Least(server.credit, server.credits[i])) :
      \E end \in {FALSE, n + server.sent[i] = Answer} :
        /\ Send(Data(i, n, end))
        /\ server' = [server EXCEPT !.sent[i] = @ + n, !.credit = @ - n, !.credits[i] = @ - n,
                                    !.phase[i] = IF end THEN "ended" ELSE @]
  BY DEF SendAnswer
<1>2. PICK end \in {FALSE, n + server.sent[i] = Answer} :
           /\ Send(Data(i, n, end))
           /\ server' = [server EXCEPT !.sent[i] = @ + n, !.credit = @ - n, !.credits[i] = @ - n,
                                       !.phase[i] = IF end THEN "ended" ELSE @]
  BY <1>1
<1>3. server'.credit = server.credit - n /\ server'.done = server.done
  BY <1>2 DEF IInv, ServerShape, ServerFields
<1>4. n \in Int
  OBVIOUS
<1> QED  BY <1>2, <1>3, <1>4, UnitsKeep

LEMMA TrailersBalances == ASSUME IInv, Ledger, NEW i \in Ids, Trailers(i) PROVE Ledger'
<1>1. Send(Headers(i, FALSE, TRUE)) /\ server' = [server EXCEPT !.phase[i] = "ended"]
  BY DEF Trailers
<1>2. server'.credit = server.credit /\ server'.done = server.done
  BY <1>1 DEF IInv, ServerShape, ServerFields
<1> PICK f : f = Headers(i, FALSE, TRUE)
  OBVIOUS
<1>3. Expected(f) /\ f.type # "data"
  BY DEF Expected, Headers
<1> QED  BY <1>1, <1>2, <1>3, FreeKeeps

LEMMA UpdateExpected ==
  ASSUME NEW i \in Ids \cup {0}, NEW n
  PROVE  Expected(Update(i, n)) /\ Update(i, n).type # "data"
BY DEF Expected, Update

LEMMA SettingsExpected ==
  ASSUME NEW x
  PROVE  Expected(SettingsFrame(x)) /\ SettingsFrame(x).type # "data"
BY DEF Expected, SettingsFrame

LEMMA ServerPrefaceBalances == ASSUME IInv, Ledger, ServerPreface PROVE Ledger'
<1>1. PICK x \in Settings : /\ Send(SettingsFrame(x))
                            /\ server' = [server EXCEPT !.mode = "up", !.pending = <<x>>]
  BY DEF ServerPreface
<1>2. server'.credit = server.credit /\ server'.done = server.done
  BY <1>1 DEF IInv, ServerShape, ServerFields
<1> QED  BY <1>1, <1>2, SettingsExpected, FreeKeeps

LEMMA GrantBalances == ASSUME IInv, Ledger, Grant PROVE Ledger'
<1>1. CASE /\ Send(Update(0, Window - server.window))
           /\ server' = [server EXCEPT !.window = Window]
  <2>1. server'.credit = server.credit /\ server'.done = server.done
    BY <1>1 DEF IInv, ServerShape, ServerFields
  <2> QED  BY <1>1, <2>1, UpdateExpected, FreeKeeps
<1>2. CASE \E i \in Requests : /\ Send(Update(i, Window - server.windows[i]))
                               /\ server' = [server EXCEPT !.windows[i] = Window]
  <2>1. PICK i \in Requests : /\ Send(Update(i, Window - server.windows[i]))
                              /\ server' = [server EXCEPT !.windows[i] = Window]
    BY <1>2
  <2>2. server'.credit = server.credit /\ server'.done = server.done
    BY <2>1 DEF IInv, ServerShape, ServerFields
  <2> QED  BY <2>1, <2>2, UpdateExpected, FreeKeeps DEF Ids
<1>3. CASE LET x == [limit |-> 1, initial |-> server.initial] IN
           Send(SettingsFrame(x)) /\ server' = [server EXCEPT !.pending = <<x>>]
  <2>1. PICK x : Send(SettingsFrame(x)) /\ server' = [server EXCEPT !.pending = <<x>>]
    BY <1>3
  <2>2. server'.credit = server.credit /\ server'.done = server.done
    BY <2>1 DEF IInv, ServerShape, ServerFields
  <2> QED  BY <2>1, <2>2, SettingsExpected, FreeKeeps
<1> QED  BY <1>1, <1>2, <1>3 DEF Grant

LEMMA ChangeSettingsBalances == ASSUME IInv, Ledger, ChangeSettings PROVE Ledger'
<1>1. PICK x : Send(SettingsFrame(x)) /\ server' = [server EXCEPT !.pending = Append(@, x)]
  BY DEF ChangeSettings
<1>2. server'.credit = server.credit /\ server'.done = server.done
  BY <1>1 DEF IInv, ServerShape, ServerFields
<1> QED  BY <1>1, <1>2, SettingsExpected, FreeKeeps

LEMMA PlainExpected ==
  ASSUME NEW type \in {"ack", "ping", "goaway"}, NEW i
  PROVE  Expected(Frame(type, i)) /\ Frame(type, i).type # "data"
BY DEF Expected, Frame

LEMMA PingBalances == ASSUME IInv, Ledger, Ping PROVE Ledger'
<1>1. Send(Frame("ping", 0)) /\ server' = server
  BY DEF Ping
<1> QED  BY <1>1, PlainExpected, FreeKeeps

LEMMA GoAwayBalances == ASSUME IInv, Ledger, GoAway PROVE Ledger'
<1>1. PICK last \in {0} \cup Requests :
        /\ Send(Frame("goaway", last))
        /\ server' = [server EXCEPT !.mode = "leaving", !.last = last,
             !.phase = [i \in Ids |-> IF i \in Requests /\ i > last /\ @[i] = "open" THEN "reset"
                                      ELSE @[i]]]
  BY DEF GoAway
<1>2. server'.credit = server.credit /\ server'.done = server.done
  BY <1>1 DEF IInv, ServerShape, ServerFields
<1> QED  BY <1>1, <1>2, PlainExpected, FreeKeeps

LEMMA ResetBalances == ASSUME IInv, Ledger, NEW i \in Ids, Reset(i) PROVE Ledger'
<1>1. PICK why : Send([type |-> "rst", id |-> i, why |-> why])
  BY DEF Reset
<1>2. server'.credit = server.credit /\ server'.done = server.done
  BY DEF Reset, IInv, ServerShape, ServerFields
<1> PICK f : f = [type |-> "rst", id |-> i, why |-> why]
  OBVIOUS
<1>3. Expected(f) /\ f.type # "data"
  BY DEF Expected
<1> QED  BY <1>1, <1>2, <1>3, FreeKeeps

LEMMA PromiseBalances ==
  ASSUME IInv, Ledger, NEW i \in Requests, NEW p \in Promises, Promise(i, p)
  PROVE  Ledger'
<1> PICK f : f = [type |-> "push", id |-> i, promised |-> p]
  OBVIOUS
<1>1. Send(f) /\ server' = [server EXCEPT !.phase[p] = "promised"]
  BY DEF Promise
<1>2. server'.credit = server.credit /\ server'.done = server.done
  BY <1>1 DEF IInv, ServerShape, ServerFields
<1>3. Expected(f) /\ f.type # "data"
  BY DEF Expected, Ids
<1> QED  BY <1>1, <1>2, <1>3, FreeKeeps

LEMMA WrongIsExpected == ASSUME NEW f \in WrongFrames PROVE Expected(f) /\ f.type # "data"
<1> DEFINE good == {Headers(i, FALSE, FALSE) : i \in Known}
           bad == {Headers(i, TRUE, TRUE) : i \in Known}
           rsts == {[type |-> "rst", id |-> i, why |-> "reset"] :
                      i \in {p \in Promises : server.phase[p] = "idle"}}
<1>1. f \in good \cup bad \cup {Frame("ack", 0), Frame("goaway", 2)} \cup rsts \cup WrongPushes
  BY DEF WrongFrames
<1>2. Known \subseteq Ids
  BY DEF Known, Ids
<1>3. CASE f \in good \cup bad
  BY <1>2, <1>3 DEF Headers, Expected
<1>4. CASE f \in {Frame("ack", 0), Frame("goaway", 2)}
  BY <1>4, PlainExpected
<1>5. CASE f \in rsts
  BY <1>5 DEF Expected, Ids
<1>6. CASE f \in WrongPushes
  BY <1>2, <1>6 DEF WrongPushes, Expected
<1> HIDE DEF good, bad, rsts
<1> QED  BY <1>1, <1>3, <1>4, <1>5, <1>6

LEMMA MisbehaveBalances == ASSUME IInv, Ledger, Misbehave PROVE Ledger'
<1>0. Known \subseteq Ids
  BY DEF Known, Ids
<1>1. CASE \E f \in WrongFrames : Send(f) /\ UNCHANGED server
  BY <1>1, WrongIsExpected, FreeKeeps
<1>2. CASE \E i \in Known, n \in {0, MaxWindow} :
             Send(Update(i, n)) /\ server' = [server EXCEPT !.windows[i] = @ + n]
  <2>1. PICK i \in Known, n \in {0, MaxWindow} :
          Send(Update(i, n)) /\ server' = [server EXCEPT !.windows[i] = @ + n]
    BY <1>2
  <2>2. server'.credit = server.credit /\ server'.done = server.done
    BY <2>1 DEF IInv, ServerShape, ServerFields
  <2> QED  BY <1>0, <2>1, <2>2, UpdateExpected, FreeKeeps
<1>3. CASE \E n \in {0, MaxWindow} :
             Send(Update(0, n)) /\ server' = [server EXCEPT !.window = @ + n]
  <2>1. PICK n \in {0, MaxWindow} :
          Send(Update(0, n)) /\ server' = [server EXCEPT !.window = @ + n]
    BY <1>3
  <2>2. server'.credit = server.credit /\ server'.done = server.done
    BY <2>1 DEF IInv, ServerShape, ServerFields
  <2> QED  BY <2>1, <2>2, UpdateExpected, FreeKeeps
<1>4. CASE \E i \in Known : Send(Data(i, 1, FALSE)) /\ server' = [server EXCEPT !.credit = @ - 1]
  <2>1. PICK i \in Known : Send(Data(i, 1, FALSE)) /\ server' = [server EXCEPT !.credit = @ - 1]
    BY <1>4
  <2>2. server'.credit = server.credit - 1 /\ server'.done = server.done
    BY <2>1 DEF IInv, ServerShape, ServerFields
  <2>3. i \in Ids /\ 1 \in Int
    BY <1>0
  <2>4. Send(Data(i, 1, FALSE))
    BY <2>1
  <2> QED  BY <2>2, <2>3, <2>4, UnitsKeep, Zenon
<1> QED  BY <1>1, <1>2, <1>3, <1>4 DEF Misbehave

LEMMA InitBalances == Init => Ledger
<1> SUFFICES ASSUME Init PROVE Ledger
  OBVIOUS
<1>1. PICK syn : c = Session(syn)
  BY DEF Init
<1>2. /\ DOMAIN c = SessionFields /\ c.urgent = <<Frame("settings", 0)>> /\ c.reg = <<>>
      /\ c.streams = [i \in Ids |-> NoStream] /\ c.aob = NoFrame /\ c.out = 0 /\ c.in = 0
      /\ c.goaway = {} /\ c.lastRecv = 0 /\ c.recvd = 0
  BY <1>1 DEF Session, SessionFields
<1>3. /\ server.credit = Window /\ server.done = {} /\ down = <<>>
  BY DEF Init
<1>4. \A i \in Ids : ~ Exists(c, i)
  BY <1>2 DEF Exists, NoStream
<1>5. Quiet(c.urgent)
  <2>1. IsSequence(<<Frame("settings", 0)>>)
    BY DEF IsSequence
  <2> QED  BY <1>2, <2>1 DEF Quiet, Frame
<1>6. Opened(c) = {} /\ Pushed(c) = {}
  BY <1>4 DEF Opened, Pushed, Ids
<1>7. CountsReturned(c.reg) /\ AllReturned(c.reg) = 0 /\ CountsData(down) /\ AllData(down) = 0
  BY <1>2, <1>3, NoneAll
<1>8. HasStreams(c)
  BY <1>2, <1>5 DEF HasStreams, NoStream, StreamFields
<1>9. Books(c)
  <2>1. Cardinality({}) = 0
    BY FS_EmptySet
  <2>2. \A i \in Ids : c.streams[i].push = FALSE /\ c.streams[i].state # "RESERVED"
    BY <1>2 DEF NoStream
  <2>3. \A k \in DOMAIN c.reg : Sayable(c.reg[k])
    BY <1>2
  <2> QED  BY <1>2, <1>4, <1>6, <1>7, <1>8, <2>1, <2>2, <2>3 DEF Books, Ids
<1>10. Sayable(c.aob) /\ Returned(c.aob) = 0
  BY <1>2 DEF Sayable, Returned, NoFrame, Frame
<1>11. Balance
  BY <1>2, <1>3, <1>7, <1>10, SessionAssumed DEF Balance, Account, SessionAssumption
<1>12. Expecting
  BY <1>3, <1>7 DEF Expecting, CountsData
<1>13. \A k \in DOMAIN c.syn : ~ Exists(c, c.syn[k].id)
  BY <1>4, InitKeeps DEF IInv, InLine, Ids
<1> QED  BY <1>3, <1>9, <1>10, <1>11, <1>12, <1>13 DEF Ledger

LEMMA LedgerStep == IInv /\ Ledger /\ [Next]_sessionVars => Ledger'
<1> SUFFICES ASSUME IInv, Ledger, [Next]_sessionVars PROVE Ledger'
  OBVIOUS
<1>1. CASE Execute
  <2>1. CASE SendDone \/ RecvDone
    BY <2>1, QuietKeeps DEF SendDone, RecvDone
  <2> QED  BY <1>1, <2>1, PrepFrameBalances, WriteFrameBalances, ReceiveBalances DEF Execute
<1>2. CASE Serve
  <2>1. CASE Answers
    <3>1. Promises \cup server.done \subseteq Ids
      BY DEF Ledger, Ids
    <3> QED  BY <2>1, <3>1, RespondBalances, SendAnswerBalances, TrailersBalances DEF Answers
  <2>2. CASE CloseConnection
    <3>1. c' = c /\ down' = down /\ server' = [server EXCEPT !.mode = "closed"]
      BY <2>2 DEF CloseConnection
    <3>2. server'.credit = server.credit /\ server'.done = server.done
      BY <3>1 DEF IInv, ServerShape, ServerFields
    <3> QED  BY <3>1, <3>2, QuietKeeps
  <2> QED  BY <1>2, <2>1, <2>2, ServerPrefaceBalances, GrantBalances DEF Serve
<1>3. CASE Disturb
  BY <1>3, ChangeSettingsBalances, PingBalances, GoAwayBalances, MisbehaveBalances, ResetBalances,
     RespondBalances, PromiseBalances DEF Disturb
<1>4. CASE UNCHANGED sessionVars
  BY <1>4, QuietKeeps DEF sessionVars
<1> QED  BY <1>1, <1>2, <1>3, <1>4 DEF Next

(***************************************************************************)
(* While the session goes on no unit of data is lost: the place of each on *)
(* the connection is the server's, is on its way back, or is still to be   *)
(* given back, those of streams that are gone included                     *)
(* (session_update_recv_connection_window_size,                            *)
(* session_on_data_received_fail_fast).                                    *)
(***************************************************************************)
THEOREM NothingIsLost == Spec => []WindowsConserved
<1>1. Ledger => WindowsConserved
  <2> SUFFICES ASSUME Ledger, GoesOn(c)
               PROVE  server.credit + AllData(down) + c.recvd + AllReturned(c.reg)
                        + Returned(c.aob) = Window
    BY DEF WindowsConserved
  <2>1. Balance /\ c.recvd \in Int /\ CountsReturned(c.reg)
    BY DEF Ledger, Books
  <2>2. AllReturned(c.reg) \in Int
    <3>1. Returned(NoFrame) \in Int
      BY DEF Returned, NoFrame, Frame
    <3> QED  BY <2>1, <3>1, ReturnedAppended
  <2>3. AllData(down) \in Int
    BY ExpectingCounts DEF Ledger
  <2> QED  BY <2>1, <2>2, <2>3 DEF Balance, Account
<1> QED  BY <1>1, InitKeeps, InitBalances, IInvStep, LedgerStep, PTL DEF Spec
-----------------------------------------------------------------------------
(* What a frame adds to a window, and acknowledgements that wait           *)

Gain(f, i) == IF f.type = "window" /\ f.id = i THEN f.n ELSE 0
Gains(q, i) == Total([k \in DOMAIN q |-> Gain(q[k], i)])

Ack(f) == IF f.type = "ack" THEN 1 ELSE 0
Acks(q) == Total([k \in DOMAIN q |-> Ack(q[k])])

\* A WINDOW_UPDATE never makes a window smaller.
Widens(f) == f.type = "window" => f.n \in Nat
AllWiden(q) == IsSequence(q) /\ \A k \in DOMAIN q : Widens(q[k])

LEMMA GainNat == ASSUME NEW f, Widens(f), NEW i PROVE Gain(f, i) \in Nat
BY DEF Gain, Widens

LEMMA GainsAppended ==
  ASSUME NEW q, AllWiden(q), NEW f, Widens(f), NEW i
  PROVE  /\ AllWiden(Append(q, f)) /\ Gains(q, i) \in Int
         /\ Gains(Append(q, f), i) = Gains(q, i) + Gain(f, i)
<1>1. /\ IsSequence(Append(q, f)) /\ DOMAIN Append(q, f) = 1 .. Len(q) + 1
      /\ \A k \in 1 .. Len(q) : Append(q, f)[k] = q[k]
      /\ Append(q, f)[Len(q) + 1] = f
      /\ Len(q) \in Nat /\ DOMAIN q = 1 .. Len(q)
  BY Appended, SequenceFacts DEF AllWiden
<1>2. AllWiden(Append(q, f))
  BY <1>1, AppendedIs DEF AllWiden
<1> DEFINE a == [k \in DOMAIN q |-> Gain(q[k], i)]
           b == [k \in DOMAIN Append(q, f) |-> Gain(Append(q, f)[k], i)]
<1>3. /\ FunctionOn(a, DOMAIN q) /\ \A k \in DOMAIN q : a[k] \in Int
      /\ FunctionOn(b, DOMAIN Append(q, f)) /\ \A k \in DOMAIN q : b[k] = a[k]
      /\ b[Len(q) + 1] = Gain(f, i)
  BY <1>1, GainNat DEF AllWiden, FunctionOn
<1>4. Gains(q, i) = Total(a) /\ Gains(Append(q, f), i) = Total(b)
  BY DEF Gains
<1> HIDE DEF a, b
<1>5. IsSequence(q) /\ b[Len(q) + 1] \in Int
  BY <1>3, GainNat DEF AllWiden
<1>6. Total(a) \in Int /\ Total(b) = Total(a) + b[Len(q) + 1]
  BY <1>3, <1>5, WeighedAppend
<1> QED  BY <1>2, <1>3, <1>4, <1>6

LEMMA GainsTail ==
  ASSUME NEW q, AllWiden(q), q # <<>>, NEW i
  PROVE  /\ AllWiden(Tail(q)) /\ Gains(Tail(q), i) \in Int /\ Gain(Head(q), i) \in Nat
         /\ Gains(q, i) = Gain(Head(q), i) + Gains(Tail(q), i)
<1>1. /\ IsSequence(Tail(q)) /\ Len(q) \in Nat \ {0} /\ DOMAIN Tail(q) = 1 .. Len(q) - 1
      /\ \A k \in 1 .. Len(q) - 1 : Tail(q)[k] = q[k + 1] /\ k + 1 \in DOMAIN q
      /\ Head(q) = q[1] /\ 1 \in DOMAIN q
  BY TailIs DEF AllWiden
<1>2. AllWiden(Tail(q)) /\ Gain(Head(q), i) \in Nat
  BY <1>1, GainNat DEF AllWiden
<1> DEFINE a == [k \in DOMAIN q |-> Gain(q[k], i)]
           b == [k \in DOMAIN Tail(q) |-> Gain(Tail(q)[k], i)]
<1>3. /\ FunctionOn(a, DOMAIN q) /\ \A k \in DOMAIN q : a[k] \in Int
      /\ FunctionOn(b, DOMAIN Tail(q)) /\ \A k \in DOMAIN Tail(q) : b[k] = a[k + 1]
      /\ a[1] = Gain(Head(q), i)
  BY <1>1, GainNat DEF AllWiden, FunctionOn
<1>4. Gains(q, i) = Total(a) /\ Gains(Tail(q), i) = Total(b)
  BY DEF Gains
<1> HIDE DEF a, b
<1>5. IsSequence(q)
  BY DEF AllWiden
<1>6. Total(b) \in Int /\ Total(a) = a[1] + Total(b)
  BY <1>3, <1>5, WeighedTail
<1> QED  BY <1>2, <1>3, <1>4, <1>6

LEMMA TotalNat == ASSUME NEW q \in Seq(Nat) PROVE q \in Seq(Int) /\ Total(q) \in Nat
<1>1. q \in Seq(Int)
  OBVIOUS
<1>2. PICK g \in [0 .. Len(q) -> Int] : Adds(q, g)
  BY <1>1, AddsExists
<1> DEFINE T == {k \in 0 .. Len(q) : g[k] < 0}
<1>3. Len(q) \in Nat /\ \A k \in 1 .. Len(q) : q[k] \in Nat
  OBVIOUS
<1>4. T = {}
  <2>1. SUFFICES ASSUME T # {} PROVE FALSE
    OBVIOUS
  <2>2. PICK n \in T : \A k \in T : n <= k
    <3>1. T \subseteq Nat
      OBVIOUS
    <3> QED  BY <2>1, <3>1, LeastExists
  <2>3. n \in 1 .. Len(q) /\ n - 1 \in 0 .. Len(q)
    BY <1>2, <1>3, <2>2 DEF Adds
  <2>4. g[n - 1] \in Int /\ g[n - 1] >= 0
    BY <1>3, <2>2, <2>3
  <2>5. g[n] = g[n - 1] + q[n] /\ q[n] \in Nat /\ g[n] < 0
    BY <1>2, <1>3, <2>2, <2>3 DEF Adds
  <2> QED  BY <2>4, <2>5
<1> QED  BY <1>1, <1>2, <1>3, <1>4, TotalIs

LEMMA AcksAppended ==
  ASSUME NEW q, IsSequence(q), NEW f
  PROVE  Acks(q) \in Int /\ Acks(Append(q, f)) = Acks(q) + Ack(f)
<1>1. /\ DOMAIN Append(q, f) = 1 .. Len(q) + 1
      /\ \A k \in 1 .. Len(q) : Append(q, f)[k] = q[k]
      /\ Append(q, f)[Len(q) + 1] = f
      /\ Len(q) \in Nat /\ DOMAIN q = 1 .. Len(q)
  BY Appended, SequenceFacts
<1> DEFINE a == [k \in DOMAIN q |-> Ack(q[k])]
           b == [k \in DOMAIN Append(q, f) |-> Ack(Append(q, f)[k])]
<1>2. \A g : Ack(g) \in Int
  BY DEF Ack
<1>3. /\ FunctionOn(a, DOMAIN q) /\ \A k \in DOMAIN q : a[k] \in Int
      /\ FunctionOn(b, DOMAIN Append(q, f)) /\ \A k \in DOMAIN q : b[k] = a[k]
      /\ b[Len(q) + 1] = Ack(f)
  BY <1>1, <1>2 DEF FunctionOn
<1>4. Acks(q) = Total(a) /\ Acks(Append(q, f)) = Total(b)
  BY DEF Acks
<1> HIDE DEF a, b
<1>5. b[Len(q) + 1] \in Int
  BY <1>2, <1>3
<1>6. Total(a) \in Int /\ Total(b) = Total(a) + b[Len(q) + 1]
  BY <1>3, <1>5, WeighedAppend
<1> QED  BY <1>3, <1>4, <1>6

LEMMA AcksTail ==
  ASSUME NEW q, IsSequence(q), q # <<>>
  PROVE  Acks(Tail(q)) \in Int /\ Acks(q) = Ack(Head(q)) + Acks(Tail(q))
<1>1. /\ Len(q) \in Nat \ {0} /\ DOMAIN Tail(q) = 1 .. Len(q) - 1
      /\ \A k \in 1 .. Len(q) - 1 : Tail(q)[k] = q[k + 1] /\ k + 1 \in DOMAIN q
      /\ Head(q) = q[1] /\ 1 \in DOMAIN q
  BY TailIs
<1> DEFINE a == [k \in DOMAIN q |-> Ack(q[k])]
           b == [k \in DOMAIN Tail(q) |-> Ack(Tail(q)[k])]
<1>2. \A g : Ack(g) \in Int
  BY DEF Ack
<1>3. /\ FunctionOn(a, DOMAIN q) /\ \A k \in DOMAIN q : a[k] \in Int
      /\ FunctionOn(b, DOMAIN Tail(q)) /\ \A k \in DOMAIN Tail(q) : b[k] = a[k + 1]
      /\ a[1] = Ack(Head(q))
  BY <1>1, <1>2 DEF FunctionOn
<1>4. Acks(q) = Total(a) /\ Acks(Tail(q)) = Total(b)
  BY DEF Acks
<1> HIDE DEF a, b
<1>5. Total(b) \in Int /\ Total(a) = a[1] + Total(b)
  BY <1>3, WeighedTail
<1> QED  BY <1>3, <1>4, <1>5

LEMMA AcksNat ==
  ASSUME NEW q, IsSequence(q)
  PROVE  Acks(q) \in Nat
<1> DEFINE a == [k \in DOMAIN q |-> Ack(q[k])]
<1>1. Len(q) \in Nat /\ DOMAIN q = 1 .. Len(q)
  BY SequenceFacts
<1>2. a \in [1 .. Len(q) -> Nat]
  BY <1>1 DEF Ack
<1>3. a \in Seq(Nat)
  BY <1>1, <1>2
<1> QED  BY <1>3, TotalNat DEF Acks

-----------------------------------------------------------------------------
(* What the operations do to windows, limits and the ends of streams       *)

\* A stream's window, beside what its initial one is
Level(s, i) == s.streams[i].window - s.initial

IsRst(f, i) == f.type = "rst" /\ f.id = i
Resets(s, i) == IsRst(s.aob, i) \/ \E k \in DOMAIN s.reg : IsRst(s.reg[k], i)

Regular(q) == IsSequence(q) /\ \A k \in DOMAIN q : q[k].type \in {"rst", "goaway", "window"}

Values(s) ==
  /\ s.window \in Int /\ s.limit \in Int /\ s.initial \in Int /\ s.initial <= MaxWindow
  /\ DOMAIN s.left = Requests
  /\ \A i \in Requests : s.left[i] \in Int /\ (i \notin Whole => s.left[i] >= 0)
  /\ \A i \in Requests : s.streams[i].window \in Int /\ s.streams[i].window <= MaxWindow
  /\ \A i \in Ids : s.streams[i].item # "none" => i \in Requests /\ Exists(s, i)
  /\ Regular(s.reg)

Good(s) == Books(s) /\ Values(s)

\* The session may go on, whether it reads or not.
Lives(s) ==
  /\ s.goaway \cap {"TERM_ON_SEND", "TERM_SENT"} = {}
  /\ "RECV" \in s.goaway => Opened(s) # {}

\* One side has said that it ends the connection, or is about to.
Ending(s) == s.goaway \cap {"TERM_ON_SEND", "TERM_SENT", "SENT", "RECV"} # {}

\* A frame that says that it is the last of its stream
EndOf(f) == f.type \in {"data", "headers"} /\ f.end /\ (f.type = "headers" => ~f.bad)

About(f, i) == f.id = i /\ f.type \notin {"goaway", "none"}

\* What makes the client reset stream i
Offends(s, f, i) ==
  \/ About(f, i)
  \/ Exists(s, i) /\ f.type = "none"
  \/ Exists(s, i) /\ f.type = "settings" /\ Overflows(s, i, f.initial)

StreamMoves(s, t, f, i) ==
  /\ Resets(s, i) => Resets(t, i)
  /\ Resets(t, i) => Resets(s, i) \/ Offends(s, f, i)
  /\ Exists(s, i) /\ ~ Exists(t, i) =>
       \/ Ending(t)
       \/ About(f, i) /\ f.type = "rst"
       \/ About(f, i) /\ EndOf(f) /\ "WR" \in s.streams[i].shut
  /\ Exists(t, i) =>
       /\ Exists(s, i)
       /\ Level(t, i) <= Level(s, i) + Gain(f, i)
       /\ "WR" \in t.streams[i].shut => "WR" \in s.streams[i].shut
       /\ "RD" \in t.streams[i].shut =>
            "RD" \in s.streams[i].shut \/ Resets(t, i) \/ (About(f, i) /\ EndOf(f))
       /\ t.streams[i].state = "CLOSING" => s.streams[i].state = "CLOSING" \/ Resets(t, i)

\* What only SETTINGS change
SameTerms(s, t) ==
  t.limit = s.limit /\ t.initial = s.initial /\ Acks(t.urgent) = Acks(s.urgent)

(***************************************************************************)
(* s becomes t for f, a frame received or none: windows do not grow by     *)
(* more than f gives, and a stream ends for a reason.                      *)
(***************************************************************************)
Moves(s, t, f) ==
  /\ Values(t)
  /\ t.aob = s.aob
  /\ t.window <= s.window + Gain(f, 0)
  /\ s.goaway \subseteq t.goaway
  /\ t.ignoring => s.ignoring \/ ~ Lives(t)
  /\ f.type # "settings" => SameTerms(s, t)
  /\ \A i \in Requests : StreamMoves(s, t, f, i)

LEMMA LevelInt ==
  ASSUME NEW s, Values(s), NEW i \in Requests
  PROVE  Level(s, i) \in Int
BY DEF Values, Level

LEMMA GainOfOthers ==
  ASSUME NEW f, f.type # "window", NEW i
  PROVE  Gain(f, i) = 0 /\ Widens(f)
BY DEF Gain, Widens

LEMMA MovesNowhere ==
  ASSUME NEW s, Good(s), NEW f, Widens(f)
  PROVE  Moves(s, s, f)
<1>1. \A i : Gain(f, i) \in Nat
  BY GainNat
<1>2. s.window <= s.window + Gain(f, 0)
  BY <1>1 DEF Good, Values
<1>3. ASSUME NEW i \in Requests PROVE StreamMoves(s, s, f, i)
  <2>1. Level(s, i) <= Level(s, i) + Gain(f, i)
    BY <1>1, LevelInt DEF Good
  <2> QED  BY <2>1 DEF StreamMoves
<1> QED  BY <1>2, <1>3 DEF Moves, Good, SameTerms

LEMMA MovesOn ==
  ASSUME NEW s, Good(s), NEW t, Good(t), NEW u, NEW f, f.type \notin {"window", "settings"},
         Moves(s, t, f), Moves(t, u, f), Goes(t, u, 0) \/ Opened(u) \subseteq Opened(t)
  PROVE  Moves(s, u, f)
<1>1. \A i : Gain(f, i) = 0
  BY GainOfOthers
<1>2. u.window <= s.window + Gain(f, 0)
  BY <1>1 DEF Moves, Good, Values
<1>3. ASSUME NEW i \in Requests PROVE StreamMoves(s, u, f, i)
  <2>1. StreamMoves(s, t, f, i) /\ StreamMoves(t, u, f, i)
    BY DEF Moves
  <2>2. Level(s, i) \in Int /\ Level(t, i) \in Int /\ Level(u, i) \in Int
    BY LevelInt DEF Good, Moves
  <2>3. Resets(u, i) => Resets(s, i) \/ Offends(s, f, i)
    BY <2>1 DEF StreamMoves, Offends
  <2>4. Exists(u, i) => Exists(t, i) /\ Exists(s, i) /\ Level(u, i) <= Level(s, i) + Gain(f, i)
    BY <1>1, <2>1, <2>2 DEF StreamMoves
  <2>5. Ending(t) => Ending(u)
    BY DEF Moves, Ending
  <2> QED  BY <2>1, <2>3, <2>4, <2>5 DEF StreamMoves
<1>4. u.ignoring => s.ignoring \/ ~ Lives(u)
  <2>1. Opened(u) \subseteq Opened(t) /\ t.goaway \subseteq u.goaway
    BY DEF Goes, Moves
  <2>2. Lives(u) => Lives(t)
    BY <2>1 DEF Lives
  <2> QED  BY <2>2 DEF Moves
<1>5. SameTerms(s, u)
  BY DEF Moves, SameTerms
<1> QED  BY <1>2, <1>3, <1>4, <1>5 DEF Moves

LEMMA ResetsSame ==
  ASSUME NEW s, NEW t, t.aob = s.aob, t.reg = s.reg, NEW i
  PROVE  Resets(t, i) <=> Resets(s, i)
BY DEF Resets

LEMMA RegularAppended ==
  ASSUME NEW q, Regular(q), NEW g, g.type \in {"rst", "goaway", "window"}
  PROVE  Regular(Append(q, g))
BY AppendedIs DEF Regular

LEMMA ResetsAppended ==
  ASSUME NEW s, Regular(s.reg), NEW t, t.aob = s.aob, NEW g, g.type \in {"rst", "goaway", "window"},
         t.reg = Append(s.reg, g)
  PROVE  \A i : Resets(t, i) <=> Resets(s, i) \/ IsRst(g, i)
<1>1. /\ IsSequence(t.reg) /\ DOMAIN t.reg = 1 .. Len(s.reg) + 1
      /\ \A k \in 1 .. Len(s.reg) : t.reg[k] = s.reg[k]
      /\ t.reg[Len(s.reg) + 1] = g
      /\ DOMAIN s.reg = 1 .. Len(s.reg) /\ Len(s.reg) \in Nat
  BY Appended, SequenceFacts DEF Regular
<1>2. \A k \in DOMAIN t.reg : k \in DOMAIN s.reg \/ k = Len(s.reg) + 1
  BY <1>1
<1>4. Len(s.reg) + 1 \in DOMAIN t.reg /\ \A k \in DOMAIN s.reg : k \in DOMAIN t.reg
  BY <1>1
<1>5. ASSUME NEW i PROVE Resets(t, i) <=> Resets(s, i) \/ IsRst(g, i)
  BY <1>1, <1>2, <1>4 DEF Resets
<1> QED  BY <1>5

\* What a change of one stream leaves alone, or at most adds to
Beside(s, t) ==
  /\ t.aob = s.aob /\ t.left = s.left /\ t.window = s.window /\ SameTerms(s, t)
  /\ s.goaway \subseteq t.goaway
  /\ t.ignoring => s.ignoring \/ ~ Lives(t)

\* At most one more frame waits, and it resets no stream but i.
Queues(s, t, i) ==
  \/ t.reg = s.reg
  \/ \E g : /\ t.reg = Append(s.reg, g) /\ g.type \in {"rst", "goaway", "window"}
            /\ g.type = "rst" => g.id = i

LEMMA QueuesResets ==
  ASSUME NEW s, Regular(s.reg), NEW t, t.aob = s.aob, NEW i, Queues(s, t, i)
  PROVE  /\ Regular(t.reg) /\ (Resets(s, i) => Resets(t, i))
         /\ \A j : j # i => (Resets(t, j) <=> Resets(s, j))
<1>1. CASE t.reg = s.reg
  BY <1>1, ResetsSame
<1>2. ASSUME NEW g, t.reg = Append(s.reg, g), g.type \in {"rst", "goaway", "window"},
             g.type = "rst" => g.id = i
      PROVE  /\ Regular(t.reg) /\ (Resets(s, i) => Resets(t, i))
             /\ \A j : j # i => (Resets(t, j) <=> Resets(s, j))
  <2>1. Regular(t.reg) /\ \A j : Resets(t, j) <=> Resets(s, j) \/ IsRst(g, j)
    BY <1>2, RegularAppended, ResetsAppended
  <2>2. \A j : IsRst(g, j) => j = i
    BY <1>2 DEF IsRst
  <2> QED  BY <2>1, <2>2
<1> QED  BY <1>1, <1>2 DEF Queues

LEMMA StreamStays ==
  ASSUME NEW s, Good(s), NEW t, NEW f, Widens(f), NEW j \in Requests,
         t.streams[j] = s.streams[j], t.initial = s.initial, Resets(t, j) <=> Resets(s, j)
  PROVE  StreamMoves(s, t, f, j)
<1>1. Gain(f, j) \in Nat /\ Level(s, j) \in Int /\ Level(t, j) = Level(s, j)
  BY GainNat, LevelInt DEF Good, Level
<1>2. Level(t, j) <= Level(s, j) + Gain(f, j)
  BY <1>1
<1>3. Exists(t, j) <=> Exists(s, j)
  BY DEF Exists
<1> QED  BY <1>2, <1>3 DEF StreamMoves

(***************************************************************************)
(* One stream changes; the others stay as they are.                        *)
(***************************************************************************)
LEMMA OneMoves ==
  ASSUME NEW s, Good(s), NEW f, Widens(f), NEW i \in Ids, NEW st, NEW t, Beside(s, t),
         t.streams = [s.streams EXCEPT ![i] = st], Queues(s, t, i),
         st.item # "none" => i \in Requests /\ st.state # "none",
         i \in Requests => st.window \in Int /\ st.window <= MaxWindow /\ StreamMoves(s, t, f, i)
  PROVE  Moves(s, t, f)
<1>1. t.streams[i] = st /\ \A j \in Ids : j # i => t.streams[j] = s.streams[j]
  BY DEF Good, Books, HasStreams
<1>2. /\ Regular(t.reg) /\ (Resets(s, i) => Resets(t, i))
      /\ \A j : j # i => (Resets(t, j) <=> Resets(s, j))
  BY QueuesResets DEF Good, Values, Beside
<1>3. ASSUME NEW j \in Requests
      PROVE  /\ StreamMoves(s, t, f, j)
             /\ t.streams[j].window \in Int /\ t.streams[j].window <= MaxWindow
  <2>1. CASE j = i
    BY <1>1, <2>1
  <2>2. CASE j # i
    <3>1. t.streams[j] = s.streams[j] /\ t.initial = s.initial
      BY <1>1, <2>2 DEF Ids, Beside, SameTerms
    <3>2. StreamMoves(s, t, f, j)
      BY <1>2, <2>2, <3>1, StreamStays
    <3> QED  BY <3>1, <3>2 DEF Good, Values
  <2> QED  BY <2>1, <2>2
<1>4. ASSUME NEW j \in Ids, t.streams[j].item # "none" PROVE j \in Requests /\ Exists(t, j)
  <2>1. CASE j = i
    BY <1>1, <1>4, <2>1 DEF Exists
  <2>2. CASE j # i
    BY <1>1, <1>4, <2>2 DEF Exists, Good, Values
  <2> QED  BY <2>1, <2>2
<1>5. Values(t)
  BY <1>2, <1>3, <1>4 DEF Values, Good, Beside, SameTerms
<1>6. t.window <= s.window + Gain(f, 0)
  <2>1. Gain(f, 0) \in Nat /\ s.window \in Int
    BY GainNat DEF Good, Values
  <2> QED  BY <2>1 DEF Beside
<1> QED  BY <1>3, <1>5, <1>6 DEF Moves, Beside

LEMMA SameMoves ==
  ASSUME NEW s, Good(s), NEW f, Widens(f), NEW t, Beside(s, t), t.streams = s.streams,
         Queues(s, t, 0)
  PROVE  Moves(s, t, f)
<1>1. Regular(t.reg) /\ \A j \in Requests : Resets(t, j) <=> Resets(s, j)
  BY QueuesResets, IdsAre DEF Good, Values, Beside
<1>2. ASSUME NEW j \in Requests PROVE StreamMoves(s, t, f, j)
  BY <1>1, StreamStays DEF Beside, SameTerms
<1>3. Values(t)
  BY <1>1 DEF Values, Good, Beside, SameTerms, Exists
<1>4. t.window <= s.window + Gain(f, 0)
  <2>1. Gain(f, 0) \in Nat /\ s.window \in Int
    BY GainNat DEF Good, Values
  <2> QED  BY <2>1 DEF Beside
<1> QED  BY <1>2, <1>3, <1>4 DEF Moves, Beside

(***************************************************************************)
(* Streams are closed for a reason.                                        *)
(***************************************************************************)
Ends(s, f, i) ==
  \/ Ending(s)
  \/ About(f, i) /\ f.type = "rst"
  \/ About(f, i) /\ EndOf(f) /\ "WR" \in s.streams[i].shut

LEMMA CloseAllMoves ==
  ASSUME NEW s, Good(s), NEW f, Widens(f), NEW ids \in SUBSET Ids, NEW why,
         \A i \in ids \cap Requests : Ends(s, f, i)
  PROVE  Moves(s, CloseAll(s, ids, why), f)
<1> DEFINE t == CloseAll(s, ids, why)
<1>1. /\ t.streams = [i \in Ids |-> IF i \in ids THEN NoStream ELSE s.streams[i]]
      /\ t.aob = s.aob /\ t.left = s.left /\ t.window = s.window /\ t.limit = s.limit
      /\ t.initial = s.initial /\ t.urgent = s.urgent /\ t.goaway = s.goaway
      /\ t.ignoring = s.ignoring /\ t.reg = s.reg
  BY DEF CloseAll, Good, Books, HasStreams, SessionFields
<1> HIDE DEF t
<1>2. NoStream.window = 0 /\ NoStream.item = "none" /\ NoStream.state = "none" /\ 0 <= MaxWindow
  BY SessionAssumed DEF NoStream, SessionAssumption
<1>3. ASSUME NEW j \in Requests
      PROVE  /\ StreamMoves(s, t, f, j)
             /\ t.streams[j].window \in Int /\ t.streams[j].window <= MaxWindow
  <2>0. Resets(t, j) <=> Resets(s, j)
    BY <1>1, ResetsSame
  <2>1. CASE j \in ids
    <3>1. t.streams[j] = NoStream /\ ~ Exists(t, j) /\ Ends(s, f, j)
      BY <1>1, <1>2, <2>1 DEF Ids, Exists
    <3> QED  BY <1>1, <1>2, <2>0, <3>1 DEF StreamMoves, Ends, Ending
  <2>2. CASE j \notin ids
    <3>1. t.streams[j] = s.streams[j]
      BY <1>1, <2>2 DEF Ids
    <3>2. StreamMoves(s, t, f, j)
      BY <1>1, <2>0, <3>1, StreamStays
    <3> QED  BY <3>1, <3>2 DEF Good, Values
  <2> QED  BY <2>1, <2>2
<1>4. ASSUME NEW j \in Ids, t.streams[j].item # "none" PROVE j \in Requests /\ Exists(t, j)
  BY <1>1, <1>2, <1>4 DEF Exists, Good, Values
<1>5. Values(t)
  BY <1>1, <1>3, <1>4 DEF Values, Good
<1>6. t.window <= s.window + Gain(f, 0)
  <2>1. Gain(f, 0) \in Nat /\ s.window \in Int
    BY GainNat DEF Good, Values
  <2> QED  BY <1>1, <2>1
<1>7. Moves(s, t, f)
  BY <1>1, <1>3, <1>5, <1>6 DEF Moves, SameTerms
<1> QED  BY <1>7 DEF t

LEMMA CloseMoves ==
  ASSUME NEW s, Good(s), NEW f, Widens(f), NEW i \in Ids, NEW why,
         i \in Requests => Ends(s, f, i)
  PROVE  Moves(s, Close(s, i, why), f)
<1>1. CASE Exists(s, i)
  BY <1>1, CloseAllMoves DEF Close
<1>2. CASE ~ Exists(s, i)
  BY <1>2, MovesNowhere DEF Close
<1> QED  BY <1>1, <1>2

\* What most operations leave alone
Kept(s, t) ==
  /\ t.aob = s.aob /\ t.left = s.left /\ t.window = s.window /\ t.limit = s.limit
  /\ t.initial = s.initial /\ t.urgent = s.urgent
  /\ t.goaway = s.goaway /\ t.ignoring = s.ignoring

LEMMA KeptBeside == ASSUME NEW s, NEW t, Kept(s, t) PROVE Beside(s, t)
BY DEF Kept, Beside, SameTerms

LEMMA ThenMoves ==
  ASSUME NEW s, Good(s), NEW f, f.type \notin {"window", "settings"},
         NEW t, NEW m, Goes(s, t, m), Moves(s, t, f),
         NEW u, NEW n, Goes(t, u, n), Moves(t, u, f)
  PROVE  Moves(s, u, f)
<1>1. Good(t) /\ Good(u)
  BY DEF Good, Goes, Moves
<1>2. Opened(u) \subseteq Opened(t)
  BY DEF Goes
<1> QED  BY <1>1, <1>2, MovesOn DEF Good

LEMMA Widening == ASSUME NEW f, f.type # "window" PROVE Widens(f)
BY DEF Widens

LEMMA TerminateMoves ==
  ASSUME NEW s, Good(s), NEW f, Widens(f)
  PROVE  Moves(s, Terminate(s), f)
<1> DEFINE g == Frame("goaway", s.lastProc)
           t == [s EXCEPT !.ignoring = TRUE, !.goaway = @ \cup {"TERM_ON_SEND"},
                          !.reg = Append(@, g)]
<1>1. /\ t.streams = s.streams /\ t.aob = s.aob /\ t.left = s.left /\ t.window = s.window
      /\ t.limit = s.limit /\ t.initial = s.initial /\ t.urgent = s.urgent
      /\ t.goaway = s.goaway \cup {"TERM_ON_SEND"} /\ t.reg = Append(s.reg, g)
  BY DEF Good, Books, HasStreams, SessionFields
<1>2. Terminate(s) \in {s, t}
  BY DEF Terminate
<1>3. g.type = "goaway"
  BY DEF Frame
<1> HIDE DEF t, g
<1>4. ~ Lives(t)
  BY <1>1 DEF Lives
<1>5. Beside(s, t) /\ Queues(s, t, 0)
  BY <1>1, <1>3, <1>4 DEF Beside, SameTerms, Queues
<1>6. Moves(s, t, f)
  BY <1>1, <1>5, SameMoves
<1> QED  BY <1>2, <1>6, MovesNowhere

LEMMA AddPongMoves ==
  ASSUME NEW s, Good(s), NEW f, Widens(f)
  PROVE  Moves(s, AddAck(s, "pong"), f)
<1> DEFINE t == AddAck(s, "pong")
           g == Frame("pong", 0)
<1>1. /\ t.streams = s.streams /\ t.aob = s.aob /\ t.left = s.left /\ t.window = s.window
      /\ t.limit = s.limit /\ t.initial = s.initial
      /\ t.goaway = s.goaway /\ t.ignoring = s.ignoring /\ t.reg = s.reg
      /\ t.urgent \in {s.urgent, Append(s.urgent, g)}
  BY DEF AddAck, Good, Books, HasStreams, SessionFields
<1>2. Ack(g) = 0 /\ IsSequence(s.urgent)
  BY DEF Ack, Frame, Good, Books, HasStreams, Quiet
<1> HIDE DEF t, g
<1>3. Acks(t.urgent) = Acks(s.urgent)
  <2>1. Acks(s.urgent) \in Int /\ Acks(Append(s.urgent, g)) = Acks(s.urgent) + Ack(g)
    BY <1>2, AcksAppended
  <2>2. Acks(Append(s.urgent, g)) = Acks(s.urgent)
    BY <1>2, <2>1
  <2> QED  BY <1>1, <2>2
<1>4. Beside(s, t) /\ Queues(s, t, 0)
  BY <1>1, <1>3 DEF Beside, SameTerms, Queues
<1>5. Moves(s, t, f)
  BY <1>1, <1>4, SameMoves
<1> QED  BY <1>5 DEF t

LEMMA RecvConnectionMoves ==
  ASSUME NEW s, Good(s), NEW f, Widens(f), NEW n
  PROVE  Moves(s, RecvConnection(s, n), f)
<1> DEFINE g == Update(0, s.recvd + n)
           t == [s EXCEPT !.updating = TRUE, !.recvd = 0, !.reg = Append(@, g)]
           u == [s EXCEPT !.recvd = @ + n]
<1>1. RecvConnection(s, n) \in {Terminate(s), t, u}
  BY DEF RecvConnection
<1>2. Kept(s, t) /\ t.streams = s.streams /\ t.reg = Append(s.reg, g)
  BY DEF Kept, Good, Books, HasStreams, SessionFields
<1>3. Kept(s, u) /\ u.streams = s.streams /\ u.reg = s.reg
  BY DEF Kept, Good, Books, HasStreams, SessionFields
<1>4. g.type = "window"
  BY DEF Update
<1> HIDE DEF t, u, g
<1>5. Moves(s, t, f)
  BY <1>2, <1>4, KeptBeside, SameMoves DEF Queues
<1>6. Moves(s, u, f)
  BY <1>3, KeptBeside, SameMoves DEF Queues
<1> QED  BY <1>1, <1>5, <1>6, TerminateMoves

(***************************************************************************)
(* The stream changes in nothing but its state, for a reset, or what it    *)
(* has received.                                                           *)
(***************************************************************************)
LEMMA QuietlyMoves ==
  ASSUME NEW s, Good(s), NEW f, Widens(f), NEW i \in Ids, NEW st, NEW t, Kept(s, t),
         t.streams = [s.streams EXCEPT ![i] = st], Queues(s, t, i),
         st.window = s.streams[i].window, st.shut = s.streams[i].shut,
         st.item = s.streams[i].item, st.state # "none" <=> Exists(s, i),
         i \in Requests => /\ st.state = "CLOSING" => s.streams[i].state = "CLOSING" \/ Resets(t, i)
                           /\ Resets(t, i) => Resets(s, i) \/ Offends(s, f, i)
  PROVE  Moves(s, t, f)
<1>1. Beside(s, t) /\ t.streams[i] = st
  BY KeptBeside DEF Good, Books, HasStreams
<1>2. Resets(s, i) => Resets(t, i)
  BY QueuesResets DEF Good, Values, Kept
<1>3. ASSUME i \in Requests PROVE StreamMoves(s, t, f, i)
  <2>1. Exists(t, i) <=> Exists(s, i)
    BY <1>1 DEF Exists
  <2>2. Level(t, i) <= Level(s, i) + Gain(f, i)
    <3>1. Gain(f, i) \in Nat /\ Level(s, i) \in Int /\ Level(t, i) = Level(s, i)
      BY <1>1, <1>3, GainNat, LevelInt DEF Good, Level, Kept
    <3> QED  BY <3>1
  <2> QED  BY <1>1, <1>2, <1>3, <2>1, <2>2 DEF StreamMoves
<1>4. i \in Requests => st.window \in Int /\ st.window <= MaxWindow
  BY DEF Good, Values
<1>5. st.item # "none" => i \in Requests /\ st.state # "none"
  BY DEF Good, Values
<1> QED  BY <1>1, <1>3, <1>4, <1>5, OneMoves

LEMMA AddRstMoves ==
  ASSUME NEW s, Good(s), NEW f, Widens(f), NEW i \in Ids, i \in Requests => Offends(s, f, i)
  PROVE  /\ Moves(s, AddRst(s, i), f)
         /\ i \in Requests /\ s.streams[i].state # "CLOSING" => Resets(AddRst(s, i), i)
<1> DEFINE g == Frame("rst", i)
           t == [s EXCEPT !.streams[i].state = IF Exists(s, i) THEN "CLOSING" ELSE @,
                          !.reg = Append(@, g)]
           st == [s.streams[i] EXCEPT !.state = IF Exists(s, i) THEN "CLOSING" ELSE @]
<1>1. Kept(s, t) /\ t.streams = [s.streams EXCEPT ![i] = st] /\ t.reg = Append(s.reg, g)
  BY DEF Kept, Good, Books, HasStreams, SessionFields
<1>2. /\ st.window = s.streams[i].window /\ st.shut = s.streams[i].shut
      /\ st.item = s.streams[i].item /\ (st.state # "none" <=> Exists(s, i))
  BY DEF Good, Books, HasStreams, StreamFields, Exists
<1>3. /\ AddRst(s, i) \in {s, t}
      /\ i \in Requests /\ s.streams[i].state # "CLOSING" => AddRst(s, i) = t
  BY ParityIs DEF AddRst
<1>4. g.type = "rst" /\ g.id = i
  BY DEF Frame
<1> HIDE DEF t, st, g
<1>5. Queues(s, t, i) /\ Resets(t, i)
  <2>1. t.aob = s.aob /\ Regular(s.reg) /\ IsRst(g, i)
    BY <1>1, <1>4 DEF Kept, Good, Values, IsRst
  <2>2. \A j : Resets(t, j) <=> Resets(s, j) \/ IsRst(g, j)
    BY <1>1, <1>4, <2>1, ResetsAppended
  <2> QED  BY <1>1, <1>4, <2>1, <2>2 DEF Queues
<1>6. Moves(s, t, f)
  BY <1>1, <1>2, <1>5, QuietlyMoves
<1> QED  BY <1>3, <1>5, <1>6, MovesNowhere

LEMMA RecvStreamMoves ==
  ASSUME NEW s, Good(s), NEW f, Widens(f), NEW i \in Ids, i \in Requests => Offends(s, f, i),
         NEW n, NEW update
  PROVE  Moves(s, RecvStream(s, i, n, update), f)
<1> DEFINE g == Update(i, s.streams[i].recvd + n)
           t == [s EXCEPT !.streams[i].updating = TRUE, !.streams[i].recvd = 0,
                          !.reg = Append(@, g)]
           x == [s.streams[i] EXCEPT !.updating = TRUE, !.recvd = 0]
           u == [s EXCEPT !.streams[i].recvd = @ + n]
           y == [s.streams[i] EXCEPT !.recvd = @ + n]
<1>1. RecvStream(s, i, n, update) \in {AddRst(s, i), t, u}
  BY DEF RecvStream
<1>2. Kept(s, t) /\ t.streams = [s.streams EXCEPT ![i] = x] /\ t.reg = Append(s.reg, g)
  BY DEF Kept, Good, Books, HasStreams, SessionFields
<1>3. Kept(s, u) /\ u.streams = [s.streams EXCEPT ![i] = y] /\ u.reg = s.reg
  BY DEF Kept, Good, Books, HasStreams, SessionFields
<1>4. /\ x.window = s.streams[i].window /\ x.shut = s.streams[i].shut
      /\ x.item = s.streams[i].item /\ x.state = s.streams[i].state
      /\ y.window = s.streams[i].window /\ y.shut = s.streams[i].shut
      /\ y.item = s.streams[i].item /\ y.state = s.streams[i].state
  BY DEF Good, Books, HasStreams, StreamFields
<1>5. g.type = "window"
  BY DEF Update
<1> HIDE DEF t, u, x, y, g
<1>6. Queues(s, t, i) /\ Queues(s, u, i)
  BY <1>2, <1>3, <1>5 DEF Queues
<1>7. Moves(s, t, f)
  BY <1>2, <1>4, <1>6, QuietlyMoves DEF Exists
<1>8. Moves(s, u, f)
  BY <1>3, <1>4, <1>6, QuietlyMoves DEF Exists
<1> QED  BY <1>1, <1>7, <1>8, AddRstMoves

LEMMA ShutMoves ==
  ASSUME NEW s, Good(s), NEW f, Widens(f), NEW i \in Ids,
         i \in Requests => Resets(s, i) \/ (About(f, i) /\ EndOf(f))
  PROVE  Moves(s, Shut(s, i, "RD"), f)
<1> DEFINE t == Shut(s, i, "RD")
           st == [s.streams[i] EXCEPT !.shut = @ \cup {"RD"}]
<1>1. Kept(s, t) /\ t.streams = [s.streams EXCEPT ![i] = st] /\ t.reg = s.reg
  BY DEF Shut, Kept, Good, Books, HasStreams, SessionFields
<1>2. /\ st.window = s.streams[i].window /\ st.state = s.streams[i].state
      /\ st.item = s.streams[i].item /\ ("WR" \in st.shut => "WR" \in s.streams[i].shut)
  BY DEF Good, Books, HasStreams, StreamFields
<1> HIDE DEF t, st
<1>3. Beside(s, t) /\ t.streams[i] = st /\ Queues(s, t, i) /\ (Resets(t, i) <=> Resets(s, i))
  BY <1>1, KeptBeside, ResetsSame DEF Kept, Queues, Good, Books, HasStreams
<1>4. ASSUME i \in Requests PROVE StreamMoves(s, t, f, i)
  <2>1. Exists(t, i) <=> Exists(s, i)
    BY <1>2, <1>3 DEF Exists
  <2>2. Level(t, i) <= Level(s, i) + Gain(f, i)
    <3>1. Gain(f, i) \in Nat /\ Level(s, i) \in Int /\ Level(t, i) = Level(s, i)
      BY <1>1, <1>2, <1>3, <1>4, GainNat, LevelInt DEF Good, Level, Kept
    <3> QED  BY <3>1
  <2> QED  BY <1>2, <1>3, <1>4, <2>1, <2>2 DEF StreamMoves
<1>5. i \in Requests => st.window \in Int /\ st.window <= MaxWindow
  BY <1>2 DEF Good, Values
<1>6. st.item # "none" => i \in Requests /\ st.state # "none"
  BY <1>2 DEF Good, Values, Exists
<1>7. Moves(s, t, f)
  BY <1>1, <1>3, <1>4, <1>5, <1>6, OneMoves
<1> QED  BY <1>7 DEF t

LEMMA ShutAndCloseMoves ==
  ASSUME NEW s, Good(s), NEW f, f.type \notin {"window", "settings"}, NEW i \in Ids,
         i \in Requests => About(f, i) /\ EndOf(f)
  PROVE  Moves(s, ShutAndClose(s, i, "RD"), f)
<1> DEFINE t == Shut(s, i, "RD")
<1>1. Widens(f)
  BY Widening
<1>2. Goes(s, t, 0) /\ Moves(s, t, f)
  BY <1>1, ShutGoes, ShutMoves DEF Good
<1>3. \/ ShutAndClose(s, i, "RD") = t
      \/ t.streams[i].shut = {"RD", "WR"} /\ ShutAndClose(s, i, "RD") = Close(t, i, "done")
  BY DEF ShutAndClose
<1> HIDE DEF t
<1>4. Good(t)
  BY <1>2 DEF Good, Goes, Moves
<1>5. ASSUME "WR" \in t.streams[i].shut PROVE Moves(s, Close(t, i, "done"), f)
  <2>1. i \in Requests => Ends(t, f, i)
    BY <1>5 DEF Ends
  <2>2. Moves(t, Close(t, i, "done"), f) /\ Goes(t, Close(t, i, "done"), 0)
    BY <1>1, <1>4, <2>1, CloseMoves, CloseGoes DEF Good
  <2> QED  BY <1>2, <2>2, ThenMoves
<1> QED  BY <1>2, <1>3, <1>5

LEMMA BlockReceivedMoves ==
  ASSUME NEW s, Good(s), NEW f, f.type = "headers", f.id \in Ids,
         s.streams[f.id].state # "CLOSING"
  PROVE  Moves(s, BlockReceived(s, f), f)
<1> DEFINE t == AddRst(s, f.id)
<1>1. Widens(f) /\ f.type \notin {"window", "settings"}
  BY Widening
<1>2. About(f, f.id) /\ Offends(s, f, f.id)
  BY DEF About, Offends
<1>3. Goes(s, t, 0) /\ Moves(s, t, f) /\ (f.id \in Requests => Resets(t, f.id))
  BY <1>1, <1>2, AddRstGoes, AddRstMoves DEF Good
<1>4. \/ BlockReceived(s, f) \in {t, Shut(t, f.id, "RD"), s}
      \/ ~ f.bad /\ f.end /\ BlockReceived(s, f) = ShutAndClose(s, f.id, "RD")
  BY DEF BlockReceived
<1> HIDE DEF t
<1>5. Good(t)
  BY <1>3 DEF Good, Goes, Moves
<1>6. Moves(s, Shut(t, f.id, "RD"), f)
  <2>1. Moves(t, Shut(t, f.id, "RD"), f) /\ Goes(t, Shut(t, f.id, "RD"), 0)
    BY <1>1, <1>3, <1>5, ShutMoves, ShutGoes DEF Good
  <2> QED  BY <1>1, <1>3, <2>1, ThenMoves
<1>7. ASSUME ~ f.bad, f.end PROVE Moves(s, ShutAndClose(s, f.id, "RD"), f)
  <2>1. EndOf(f)
    BY <1>7 DEF EndOf
  <2> QED  BY <1>1, <1>2, <2>1, ShutAndCloseMoves
<1> QED  BY <1>1, <1>3, <1>4, <1>6, <1>7, MovesNowhere

LEMMA OnHeadersMoves ==
  ASSUME NEW s, Good(s), NEW f, f.type = "headers", f.id \in Ids
  PROVE  Moves(s, OnHeaders(s, f), f)
<1> DEFINE i == f.id
           t == [s EXCEPT !.streams[i].state = "OPENED"]
           x == [s.streams[i] EXCEPT !.state = "OPENED"]
           u == Begins(s, i)
           y == Begun(s.streams[i])
<1>0. Widens(f) /\ f.type \notin {"window", "settings"}
  BY Widening
<1>1. \/ OnHeaders(s, f) \in {s, Terminate(s)}
      \/ s.streams[i].state = "OPENED" /\ OnHeaders(s, f) = BlockReceived(s, f)
      \/ s.streams[i].state = "OPENING" /\ OnHeaders(s, f) = BlockReceived(t, f)
      \/ s.streams[i].state = "RESERVED" /\ OnHeaders(s, f) = BlockReceived(u, f)
  BY DEF OnHeaders, Begins
<1>2. /\ DOMAIN t = SessionFields /\ t.streams = [s.streams EXCEPT ![i] = x]
      /\ t.out = s.out /\ t.in = s.in /\ t.lastRecv = s.lastRecv /\ t.recvd = s.recvd
      /\ t.reg = s.reg /\ Kept(s, t)
  BY DEF Kept, Good, Books, HasStreams, SessionFields
<1>3. /\ DOMAIN x = StreamFields /\ x.state = "OPENED" /\ x.push = s.streams[i].push
      /\ x.window = s.streams[i].window /\ x.shut = s.streams[i].shut
      /\ x.item = s.streams[i].item
  BY DEF Good, Books, HasStreams, StreamFields
<1> HIDE DEF x, t, u, y
<1>4. ASSUME Exists(s, i) PROVE Moves(s, t, f)
  <2>1. Queues(s, t, i) /\ (Resets(t, i) <=> Resets(s, i))
    BY <1>2, ResetsSame DEF Queues, Kept
  <2> QED  BY <1>0, <1>2, <1>3, <1>4, <2>1, QuietlyMoves
<1>5. CASE s.streams[i].state = "OPENING" /\ OnHeaders(s, f) = BlockReceived(t, f)
  <2>1. Exists(s, i)
    BY <1>5 DEF Exists
  <2>2. Goes(s, t, 0) /\ Moves(s, t, f)
    <3>1. Similar(s, t)
      BY <1>2, <1>3, <2>1, StreamChanges DEF Good, Kept
    <3> QED  BY <1>2, <1>4, <2>1, <3>1, SimilarStays DEF Good
  <2>3. Good(t) /\ t.streams[i].state # "CLOSING"
    BY <1>2, <1>3, <2>2 DEF Good, Goes, Moves, Books, HasStreams
  <2>4. Moves(t, BlockReceived(t, f), f) /\ Goes(t, BlockReceived(t, f), 0)
    BY <2>3, BlockReceivedMoves, BlockReceivedGoes DEF Good
  <2> QED  BY <1>0, <1>5, <2>2, <2>4, ThenMoves
<1>6. CASE s.streams[i].state = "RESERVED" /\ OnHeaders(s, f) = BlockReceived(u, f)
  <2>1. i \in Promises /\ i \notin Requests
    BY <1>6, ParityIs DEF Good, Books, Ids
  <2>2. /\ Kept(s, u) /\ u.reg = s.reg /\ u.streams = [s.streams EXCEPT ![i] = y]
        /\ y.item = s.streams[i].item /\ y.state = "OPENED" /\ u.streams[i] = y
    <3>1. BeginsAs(s, i, u, y)
      BY BeginsIs DEF Good, Books, u, y
    <3> QED  BY <3>1 DEF BeginsAs, Kept, Good, Books, HasStreams
  <2>3. Goes(s, u, 0) /\ Moves(s, u, f)
    <3>1. Beside(s, u) /\ Queues(s, u, i)
      BY <2>2, KeptBeside DEF Queues
    <3>2. y.item = "none"
      BY <2>1, <2>2 DEF Good, Values
    <3>3. Moves(s, u, f)
      BY <1>0, <2>1, <2>2, <3>1, <3>2, OneMoves
    <3> QED  BY <1>6, <3>3, BeginsGoes DEF Good, u
  <2>4. Good(u) /\ u.streams[i].state # "CLOSING"
    BY <2>2, <2>3 DEF Good, Goes, Moves
  <2>5. Moves(u, BlockReceived(u, f), f) /\ Goes(u, BlockReceived(u, f), 0)
    BY <2>4, BlockReceivedMoves, BlockReceivedGoes DEF Good
  <2> QED  BY <1>0, <1>6, <2>3, <2>5, ThenMoves
<1> QED  BY <1>0, <1>1, <1>5, <1>6, BlockReceivedMoves, TerminateMoves, MovesNowhere

LEMMA TakeDataMoves ==
  ASSUME NEW s, Good(s), NEW f, f.type = "data", f.id \in Ids, f.n \in Int
  PROVE  Moves(s, TakeData(s, f), f)
<1> DEFINE t == RecvConnection(s, f.n)
           u == RecvStream(t, f.id, f.n, ~f.end)
           v == [u EXCEPT !.finished = @ \cup {f.id}]
<1>0. Widens(f) /\ f.type \notin {"window", "settings"} /\ About(f, f.id) /\ Offends(t, f, f.id)
  BY Widening DEF About, Offends
<1>1. \/ TakeData(s, f) \in {t, u, v}
      \/ f.end /\ TakeData(s, f) = ShutAndClose(v, f.id, "RD")
  BY DEF TakeData
<1>2. Goes(s, t, f.n) /\ Moves(s, t, f)
  BY <1>0, RecvConnectionGoes, RecvConnectionMoves DEF Good
<1> HIDE DEF t
<1>3. Good(t)
  BY <1>2 DEF Good, Goes, Moves
<1>4. Goes(t, u, 0) /\ Moves(t, u, f)
  <2>1. Goes(t, u, 0)
    BY <1>3, RecvStreamGoes DEF Good
  <2>2. \A update : Moves(t, RecvStream(t, f.id, f.n, update), f)
    BY <1>0, <1>3, RecvStreamMoves
  <2> QED  BY <2>1, <2>2
<1> HIDE DEF u
<1>5. Good(u)
  BY <1>4 DEF Good, Goes, Moves
<1>6. Goes(u, v, 0) /\ Moves(u, v, f)
  <2>1. /\ SameStreams(u, v) /\ v.recvd = u.recvd /\ v.reg = u.reg /\ Kept(u, v)
    BY <1>5 DEF SameStreams, Kept, Good, Books, HasStreams, SessionFields
  <2> HIDE DEF v
  <2>2. Goes(u, v, 0)
    BY <1>5, <2>1, SameIsSimilar, SimilarStays DEF Good
  <2>3. v.streams = u.streams /\ Queues(u, v, 0) /\ Beside(u, v)
    BY <2>1, KeptBeside DEF SameStreams, Queues
  <2> QED  BY <1>0, <1>5, <2>2, <2>3, SameMoves
<1> HIDE DEF v
<1>7. Good(v)
  BY <1>6 DEF Good, Goes, Moves
<1>8. Moves(t, v, f) /\ Goes(t, v, 0)
  BY <1>0, <1>3, <1>4, <1>6, ThenMoves, GoesOnAlike DEF Good
<1>9. ASSUME f.end PROVE Moves(s, ShutAndClose(v, f.id, "RD"), f)
  <2>1. EndOf(f)
    BY <1>9 DEF EndOf
  <2>2. Moves(v, ShutAndClose(v, f.id, "RD"), f) /\ Goes(v, ShutAndClose(v, f.id, "RD"), 0)
    BY <1>0, <1>7, <2>1, ShutAndCloseMoves, ShutAndCloseGoes DEF Good
  <2>3. Moves(t, ShutAndClose(v, f.id, "RD"), f) /\ Goes(t, ShutAndClose(v, f.id, "RD"), 0)
    BY <1>0, <1>3, <1>8, <2>2, ThenMoves, GoesOnAlike DEF Good
  <2> QED  BY <1>0, <1>2, <2>3, ThenMoves
<1>10. Moves(s, u, f) /\ Moves(s, v, f)
  BY <1>0, <1>2, <1>4, <1>8, ThenMoves
<1> QED  BY <1>1, <1>2, <1>9, <1>10

LEMMA OnDataMoves ==
  ASSUME NEW s, Good(s), NEW f, f.type = "data", f.id \in Ids, f.n \in Int
  PROVE  Moves(s, OnData(s, f), f)
<1>1. OnData(s, f) \in {Terminate(s), RecvConnection(s, f.n), TakeData(s, f)}
  BY DEF OnData, IgnoreData
<1>2. Widens(f)
  BY Widening
<1> QED  BY <1>1, <1>2, TerminateMoves, RecvConnectionMoves, TakeDataMoves

LEMMA OnRstMoves ==
  ASSUME NEW s, Good(s), NEW f, f.type = "rst", f.id \in Ids
  PROVE  Moves(s, OnRst(s, f), f)
<1>1. OnRst(s, f) \in {Terminate(s), Close(s, f.id, f.why)}
  BY DEF OnRst
<1>2. Widens(f) /\ Ends(s, f, f.id)
  <2>1. About(f, f.id)
    BY DEF About
  <2> QED  BY <2>1, Widening DEF Ends
<1> QED  BY <1>1, <1>2, TerminateMoves, CloseMoves

LEMMA OnSettingsAckMoves ==
  ASSUME NEW s, Good(s), NEW f, Widens(f)
  PROVE  Moves(s, OnSettingsAck(s), f)
<1> DEFINE t == [s EXCEPT !.inflight = @ - 1]
<1>1. OnSettingsAck(s) \in {Terminate(s), t}
  BY DEF OnSettingsAck
<1>2. Kept(s, t) /\ t.streams = s.streams /\ t.reg = s.reg
  BY DEF Kept, Good, Books, HasStreams, SessionFields
<1> HIDE DEF t
<1>3. Moves(s, t, f)
  BY <1>2, KeptBeside, SameMoves DEF Queues
<1> QED  BY <1>1, <1>3, TerminateMoves

LEMMA OnGoawayMoves ==
  ASSUME NEW s, Good(s), NEW f, f.type = "goaway"
  PROVE  Moves(s, OnGoaway(s, f), f)
<1> DEFINE t == [s EXCEPT !.goaway = @ \cup {"RECV"}, !.remoteLast = f.id]
           ids == AboveLast(t, f.id)
<1>0. Widens(f)
  BY Widening
<1>1. OnGoaway(s, f) \in {Terminate(s), CloseAll(t, ids, "refused")}
  BY DEF OnGoaway
<1>2. ids \subseteq Ids /\ \A i \in ids : Exists(t, i)
  BY DEF AboveLast, Ids
<1>3. /\ DOMAIN t = SessionFields /\ t.streams = s.streams /\ t.out = s.out /\ t.in = s.in
      /\ t.lastRecv = s.lastRecv /\ t.goaway = s.goaway \cup {"RECV"}
      /\ t.ignoring = s.ignoring /\ t.urgent = s.urgent /\ t.recvd = s.recvd
      /\ t.reg = s.reg
      /\ t.aob = s.aob /\ t.left = s.left /\ t.window = s.window /\ t.limit = s.limit
      /\ t.initial = s.initial
  BY DEF Good, Books, HasStreams, SessionFields
<1> HIDE DEF t, ids
<1>4. Goes(s, t, 0)
  <2>1. Opened(t) = Opened(s) /\ Pushed(t) = Pushed(s)
    BY <1>3 DEF Opened, Pushed, Exists
  <2>2. Books(t)
    BY <1>3, <2>1 DEF Good, Books, HasStreams, Exists
  <2>3. Account(t) = Account(s) + 0
    BY <1>3, AccountInt DEF Account, Good
  <2> QED  BY <1>3, <2>1, <2>2, <2>3 DEF Goes
<1>5. Moves(s, t, f)
  <2>1. Beside(s, t) /\ Queues(s, t, 0)
    BY <1>3 DEF Beside, SameTerms, Queues
  <2> QED  BY <1>0, <1>3, <2>1, SameMoves
<1>6. Good(t)
  BY <1>4, <1>5 DEF Good, Goes, Moves
<1>7. Moves(t, CloseAll(t, ids, "refused"), f) /\ Goes(t, CloseAll(t, ids, "refused"), 0)
  <2>1. \A i \in ids \cap Requests : Ends(t, f, i)
    BY <1>3 DEF Ends, Ending
  <2> QED  BY <1>0, <1>2, <1>6, <2>1, CloseAllMoves, CloseAllGoes DEF Good
<1>8. Moves(s, CloseAll(t, ids, "refused"), f)
  BY <1>4, <1>5, <1>7, ThenMoves
<1> QED  BY <1>0, <1>1, <1>8, TerminateMoves

LEMMA OnUpdateMoves ==
  ASSUME NEW s, Good(s), NEW f, f.type = "window", f.id \in Ids \cup {0}, f.n \in Nat
  PROVE  Moves(s, OnUpdate(s, f), f)
<1> DEFINE i == f.id
           t == [s EXCEPT !.window = @ + f.n]
           wider == [s.streams[i] EXCEPT !.window = @ + f.n]
           x == Resume(wider)
           u == [s EXCEPT !.streams[i] = x]
<1>0. Widens(f) /\ MaxWindow \in Int
  BY SessionAssumed DEF Widens, SessionAssumption
<1>1. CASE i = 0
  <2>1. OnUpdate(s, f) \in {Terminate(s), t}
    BY <1>1 DEF OnUpdate
  <2>2. /\ t.streams = s.streams /\ t.reg = s.reg /\ t.window = s.window + f.n
        /\ t.aob = s.aob /\ t.left = s.left /\ t.limit = s.limit
        /\ t.initial = s.initial /\ t.urgent = s.urgent
        /\ t.goaway = s.goaway /\ t.ignoring = s.ignoring
    BY DEF Good, Books, HasStreams, SessionFields
  <2> HIDE DEF t
  <2>3. Gain(f, 0) = f.n /\ s.window \in Int
    BY <1>1 DEF Gain, Good, Values
  <2>4. Values(t)
    BY <2>2, <2>3 DEF Values, Good, Exists
  <2>5. ASSUME NEW j \in Requests PROVE StreamMoves(s, t, f, j)
    <3>1. Resets(t, j) <=> Resets(s, j)
      BY <2>2, ResetsSame
    <3> QED  BY <1>0, <2>2, <3>1, StreamStays
  <2>6. t.window <= s.window + Gain(f, 0)
    BY <2>2, <2>3
  <2>7. Moves(s, t, f)
    BY <2>2, <2>4, <2>5, <2>6 DEF Moves, SameTerms
  <2> QED  BY <1>0, <2>1, <2>7, TerminateMoves
<1>2. CASE i \in Ids
  <2>1. \/ OnUpdate(s, f) \in {s, Terminate(s), AddRst(s, i)}
        \/ /\ Exists(s, i) /\ ~ (MaxWindow - f.n < s.streams[i].window)
           /\ s.streams[i].state # "RESERVED" /\ OnUpdate(s, f) = u
    <3>1. i # 0
      BY <1>2, IdsAre
    <3> QED  BY <3>1 DEF OnUpdate, Exists
  <2>2. Kept(s, u) /\ u.streams = [s.streams EXCEPT ![i] = x] /\ u.reg = s.reg
    BY DEF Kept, Good, Books, HasStreams, SessionFields
  <2>3. /\ x.state = s.streams[i].state /\ x.shut = s.streams[i].shut
        /\ x.window = s.streams[i].window + f.n
        /\ x.item # "none" => s.streams[i].item # "none"
    BY <1>2 DEF Good, Books, HasStreams, StreamFields, Resume
  <2> HIDE DEF x, u
  <2>4. ASSUME Exists(s, i), ~ (MaxWindow - f.n < s.streams[i].window)
        PROVE  Moves(s, u, f)
    <3>1. Beside(s, u) /\ Queues(s, u, i) /\ (Resets(u, i) <=> Resets(s, i)) /\ u.streams[i] = x
      BY <1>2, <2>2, KeptBeside, ResetsSame DEF Kept, Queues, Good, Books, HasStreams
    <3>2. ASSUME i \in Requests
          PROVE  /\ x.window \in Int /\ x.window <= MaxWindow
                 /\ Level(u, i) <= Level(s, i) + Gain(f, i)
      <4>1. s.streams[i].window \in Int /\ s.initial \in Int /\ Gain(f, i) = f.n
        BY <3>2 DEF Good, Values, Gain
      <4>2. Level(u, i) = s.streams[i].window + f.n - s.initial
        <5>1. u.initial = s.initial
          BY <2>2 DEF Kept
        <5>2. u.streams[i].window = s.streams[i].window + f.n
          BY <2>3, <3>1
        <5> QED  BY <4>1, <5>1, <5>2 DEF Level
      <4> QED  BY <1>0, <2>3, <2>4, <4>1, <4>2 DEF Level
    <3>3. i \in Requests => StreamMoves(s, u, f, i)
      <4>1. Exists(u, i) <=> Exists(s, i)
        BY <2>3, <3>1 DEF Exists
      <4> QED  BY <2>3, <3>1, <3>2, <4>1 DEF StreamMoves
    <3>4. x.item # "none" => i \in Requests /\ x.state # "none"
      BY <1>2, <2>3 DEF Good, Values, Exists
    <3> QED  BY <1>0, <1>2, <2>2, <3>1, <3>2, <3>3, <3>4, OneMoves
  <2>5. Offends(s, f, i)
    BY DEF Offends, About
  <2> QED  BY <1>0, <1>2, <2>1, <2>4, <2>5, TerminateMoves, AddRstMoves, MovesNowhere
<1> QED  BY <1>1, <1>2

LEMMA OnPushMoves ==
  ASSUME NEW s, Good(s), NEW f, f.type = "push", f.promised \in Promises
  PROVE  Moves(s, OnPush(s, f), f)
<1> DEFINE p == f.promised
           t == [s EXCEPT !.lastRecv = p]
           w == [t EXCEPT !.streams[p].state = IF Exists(t, p) THEN "CLOSING" ELSE @,
                          !.reg = Append(@, Frame("rst", p))]
           st == [s.streams[p] EXCEPT !.state = IF Exists(t, p) THEN "CLOSING" ELSE @]
           g == Frame("goaway", t.lastProc)
           e == [t EXCEPT !.ignoring = TRUE, !.goaway = @ \cup {"TERM_ON_SEND"},
                          !.reg = Append(@, g)]
           u == Open(t, p, "RESERVED", {"WR"})
           v == [u EXCEPT !.lastProc = p]
           x == [NoStream EXCEPT !.state = "RESERVED", !.shut = {"WR"}, !.window = s.initial,
                                 !.push = TRUE]
<1>0. Widens(f) /\ p \in Ids /\ p \notin Requests /\ s.streams[p].item = "none"
  <2>1. p \in Ids /\ p \notin Requests
    BY ParityIs DEF Ids
  <2> QED  BY <2>1, Widening DEF Good, Values
<1>1. OnPush(s, f) \in {s, Terminate(s), t, w, e, v}
  BY DEF OnPush, AddRst, Terminate
<1>2. DOMAIN t = SessionFields /\ t.streams = s.streams /\ t.reg = s.reg /\ Kept(s, t)
  BY DEF Kept, Good, Books, HasStreams, SessionFields
<1>3. /\ DOMAIN u = SessionFields /\ u.streams = [s.streams EXCEPT ![p] = x]
      /\ u.reg = s.reg /\ Kept(s, u)
  <2>1. t.initial = s.initial
    BY <1>2 DEF Kept
  <2> HIDE DEF t
  <2>2. /\ DOMAIN u = SessionFields /\ u.streams = [t.streams EXCEPT ![p] = x]
        /\ u.reg = t.reg /\ Kept(t, u)
    BY <1>2, <2>1 DEF Open, Kept, SessionFields
  <2> HIDE DEF u, x
  <2> QED  BY <1>2, <2>2 DEF Kept
<1>4. v.streams = [s.streams EXCEPT ![p] = x] /\ v.reg = s.reg /\ Kept(s, v) /\ x.item = "none"
  <2>1. x.item = "none"
    BY DEF NoStream
  <2> HIDE DEF u, x
  <2> QED  BY <1>3, <2>1 DEF Kept, SessionFields
<1>5. /\ w.streams = [s.streams EXCEPT ![p] = st] /\ w.reg = Append(s.reg, Frame("rst", p))
      /\ Kept(s, w) /\ st.item = s.streams[p].item
  <2>1. st.item = s.streams[p].item
    BY <1>0 DEF Good, Books, HasStreams, StreamFields
  <2> HIDE DEF t
  <2> QED  BY <1>0, <1>2, <2>1 DEF Kept, Good, Books, HasStreams, SessionFields
<1>6. /\ e.streams = s.streams /\ e.aob = s.aob /\ e.left = s.left /\ e.window = s.window
      /\ e.limit = s.limit /\ e.initial = s.initial /\ e.urgent = s.urgent
      /\ e.goaway = s.goaway \cup {"TERM_ON_SEND"} /\ e.reg = Append(s.reg, g)
  <2> HIDE DEF t, g
  <2> QED  BY <1>2 DEF Kept, SessionFields
<1>7. g.type = "goaway" /\ Frame("rst", p).type = "rst" /\ Frame("rst", p).id = p
  BY DEF Frame
<1> HIDE DEF t, u, v, w, e, x, g, st
<1>8. Moves(s, t, f)
  BY <1>0, <1>2, KeptBeside, SameMoves DEF Queues
<1>9. Moves(s, v, f)
  <2>1. Beside(s, v) /\ Queues(s, v, p)
    BY <1>4, KeptBeside DEF Queues
  <2> QED  BY <1>0, <1>4, <2>1, OneMoves
<1>10. Moves(s, w, f)
  <2>1. Beside(s, w) /\ Queues(s, w, p)
    BY <1>5, <1>7, KeptBeside DEF Queues
  <2> QED  BY <1>0, <1>5, <2>1, OneMoves
<1>11. Moves(s, e, f)
  <2>1. ~ Lives(e)
    BY <1>6 DEF Lives
  <2>2. Beside(s, e) /\ Queues(s, e, 0)
    BY <1>6, <1>7, <2>1 DEF Beside, SameTerms, Queues
  <2> QED  BY <1>0, <1>6, <2>2, SameMoves
<1> QED  BY <1>0, <1>1, <1>8, <1>9, <1>10, <1>11, TerminateMoves, MovesNowhere

(***************************************************************************)
(* SETTINGS reset the streams whose windows would overflow: one frame for  *)
(* each.                                                                   *)
(***************************************************************************)
LEMMA SetToSeqOnto ==
  ASSUME NEW S \in SUBSET Ids
  PROVE  \A x \in S : \E k \in 1 .. Cardinality(S) : SetToSeq(S)[k] = x
<1> DEFINE n == Cardinality(S)
           D == 1 .. n
           g == SetToSeq(S)
<1>1. IsFiniteSet(S)
  BY IdsAreFinite
<1>2. n \in Nat /\ ExistsBijection(D, S)
  BY <1>1, FS_CardinalityType
<1>3. \E h \in [D -> S] : IsInjective(h)
  BY <1>2 DEF ExistsBijection, Bijection, Injection
<1>4. g \in [D -> S] /\ IsInjective(g)
  BY <1>3 DEF SetToSeq
<1> HIDE DEF g
<1>5. g \in Injection(D, S)
  BY <1>4 DEF Injection, IsInjective
<1>6. Cardinality(D) = n
  <2> HIDE DEF n
  <2>1. IsFiniteSet(1 .. n) /\ Cardinality(1 .. n) = IF 1 > n THEN 0 ELSE n - 1 + 1
    BY <1>2, FS_Interval
  <2> QED  BY <1>2, <2>1
<1>7. g \in Surjection(D, S)
  <2> HIDE DEF D
  <2> QED  BY <1>1, <1>5, <1>6, FS_Injection
<1> HIDE DEF n
<1> QED  BY <1>7 DEF Surjection, g, n

JoinedOf(z, q, r) ==
  /\ IsSequence(z)
  /\ \A k \in DOMAIN z : \/ \E j \in DOMAIN q : z[k] = q[j]
                         \/ \E j \in DOMAIN r : z[k] = r[j]
  /\ \A j \in DOMAIN q : \E k \in DOMAIN z : z[k] = q[j]
  /\ \A j \in DOMAIN r : \E k \in DOMAIN z : z[k] = r[j]

LEMMA JoinedItems ==
  ASSUME NEW q, IsSequence(q), NEW r, IsSequence(r)
  PROVE  JoinedOf(q \o r, q, r)
<1> DEFINE z == q \o r
<1>1. /\ DOMAIN q = 1 .. Len(q) /\ Len(q) \in Nat /\ DOMAIN r = 1 .. Len(r) /\ Len(r) \in Nat
      /\ IsSequence(z) /\ DOMAIN z = 1 .. Len(q) + Len(r)
      /\ \A k \in 1 .. Len(q) : z[k] = q[k]
      /\ \A k \in 1 .. Len(q) + Len(r) : k > Len(q) => z[k] = r[k - Len(q)]
  BY SequenceFacts, Joined
<1> HIDE DEF z
<1>2. ASSUME NEW k \in DOMAIN z
      PROVE  (\E j \in DOMAIN q : z[k] = q[j]) \/ \E j \in DOMAIN r : z[k] = r[j]
  <2>1. CASE k <= Len(q)
    <3>1. k \in DOMAIN q /\ z[k] = q[k]
      BY <1>1, <2>1
    <3> QED  BY <3>1
  <2>2. CASE ~ (k <= Len(q))
    <3>1. k - Len(q) \in DOMAIN r /\ z[k] = r[k - Len(q)]
      BY <1>1, <2>2
    <3> QED  BY <3>1
  <2> QED  BY <2>1, <2>2
<1>3. ASSUME NEW j \in DOMAIN q PROVE j \in DOMAIN z /\ z[j] = q[j]
  BY <1>1
<1>4. ASSUME NEW j \in DOMAIN r PROVE Len(q) + j \in DOMAIN z /\ z[Len(q) + j] = r[j]
  BY <1>1
<1>5. JoinedOf(z, q, r)
  BY <1>1, <1>2, <1>3, <1>4 DEF JoinedOf
<1> QED  BY <1>5 DEF z

LEMMA ResetsJoined ==
  ASSUME NEW s, Regular(s.reg), NEW S \in SUBSET Ids, NEW t, t.aob = s.aob,
         t.reg = s.reg \o [k \in 1 .. Cardinality(S) |-> Frame("rst", SetToSeq(S)[k])]
  PROVE  Regular(t.reg) /\ \A i : Resets(t, i) <=> Resets(s, i) \/ i \in S
<1> DEFINE n == Cardinality(S)
           r == [k \in 1 .. n |-> Frame("rst", SetToSeq(S)[k])]
           q == s.reg
           z == t.reg
<1>1. /\ n \in Nat /\ \A k \in 1 .. n : SetToSeq(S)[k] \in S
      /\ \A x \in S : \E k \in 1 .. n : SetToSeq(S)[k] = x
  BY SetToSeqIs, SetToSeqOnto
<1>2. \A k \in 1 .. n : r[k].type = "rst" /\ r[k].id = SetToSeq(S)[k]
  BY DEF Frame
<1>3. r = [k \in 1 .. n |-> r[k]] /\ z = q \o r /\ IsSequence(q)
  BY DEF Regular
<1>4. /\ \A k \in DOMAIN q : q[k].type \in {"rst", "goaway", "window"}
      /\ \A u, i : Resets(u, i) <=> IsRst(u.aob, i) \/ \E k \in DOMAIN u.reg : IsRst(u.reg[k], i)
  BY DEF Regular, Resets
<1> HIDE DEF r, n
<1>5. IsSequence(r) /\ DOMAIN r = 1 .. n
  BY <1>1, <1>3, LineIs
<1>6. \A i : Resets(t, i) <=> IsRst(s.aob, i) \/ \E k \in DOMAIN z : IsRst(z[k], i)
  BY <1>4
<1>7. \A i : Resets(s, i) <=> IsRst(s.aob, i) \/ \E k \in DOMAIN q : IsRst(q[k], i)
  BY <1>4
<1> HIDE DEF q, z
<1>8. JoinedOf(z, q, r)
  BY <1>3, <1>5, JoinedItems
<1>9. Regular(z)
  BY <1>2, <1>4, <1>5, <1>8 DEF Regular, q, JoinedOf
<1>10. \A i : (\E j \in DOMAIN r : IsRst(r[j], i)) <=> i \in S
  BY <1>1, <1>2, <1>5 DEF IsRst
<1>11. ASSUME NEW i PROVE Resets(t, i) <=> Resets(s, i) \/ i \in S
  BY <1>6, <1>7, <1>8, <1>10 DEF JoinedOf
<1> QED  BY <1>9, <1>11 DEF z

(***************************************************************************)
(* The terms change as SETTINGS say, and an acknowledgement waits if the   *)
(* session goes on.                                                        *)
(***************************************************************************)
Settles(s, u, f) ==
  /\ u.limit = f.limit /\ u.initial = f.initial
  /\ Acks(u.urgent) \in {Acks(s.urgent), Acks(s.urgent) + 1}
  /\ GoesOn(u) /\ ~ u.failed => Acks(u.urgent) = Acks(s.urgent) + 1

LEMMA AddAckSettles ==
  ASSUME NEW s, DOMAIN s = SessionFields, IsSequence(s.urgent)
  PROVE  LET u == AddAck(s, "ack") IN
         /\ u.streams = s.streams /\ u.reg = s.reg /\ u.aob = s.aob /\ u.left = s.left
         /\ u.window = s.window /\ u.goaway = s.goaway /\ u.ignoring = s.ignoring
         /\ u.limit = s.limit /\ u.initial = s.initial
         /\ \/ u.failed /\ Acks(u.urgent) = Acks(s.urgent)
            \/ Acks(u.urgent) = Acks(s.urgent) + 1
<1> DEFINE u == AddAck(s, "ack")
           g == Frame("ack", 0)
<1>1. /\ u.streams = s.streams /\ u.reg = s.reg /\ u.aob = s.aob /\ u.left = s.left
      /\ u.window = s.window /\ u.goaway = s.goaway /\ u.ignoring = s.ignoring
      /\ u.limit = s.limit /\ u.initial = s.initial
  BY DEF AddAck, SessionFields
<1>2. (u.failed /\ u.urgent = s.urgent) \/ u.urgent = Append(s.urgent, g)
  BY DEF AddAck, SessionFields
<1>3. Ack(g) = 1
  BY DEF Ack, Frame
<1>4. Acks(Append(s.urgent, g)) = Acks(s.urgent) + 1
  <2> HIDE DEF g
  <2>1. Acks(s.urgent) \in Int /\ Acks(Append(s.urgent, g)) = Acks(s.urgent) + Ack(g)
    BY AcksAppended
  <2> QED  BY <1>3, <2>1
<1> HIDE DEF u, g
<1>5. (u.failed /\ Acks(u.urgent) = Acks(s.urgent)) \/ Acks(u.urgent) = Acks(s.urgent) + 1
  BY <1>2, <1>4
<1>6. /\ u.streams = s.streams /\ u.reg = s.reg /\ u.aob = s.aob /\ u.left = s.left
      /\ u.window = s.window /\ u.goaway = s.goaway /\ u.ignoring = s.ignoring
      /\ u.limit = s.limit /\ u.initial = s.initial
      /\ \/ u.failed /\ Acks(u.urgent) = Acks(s.urgent)
         \/ Acks(u.urgent) = Acks(s.urgent) + 1
  BY <1>1, <1>5
<1> QED  BY <1>6 DEF u

LEMMA OnSettingsMoves ==
  ASSUME NEW s, Good(s), NEW f, f.type = "settings", f.limit \in Int, f.initial \in Int,
         f.initial <= MaxWindow
  PROVE  Moves(s, OnSettings(s, f), f) /\ Settles(s, OnSettings(s, f), f)
<1> DEFINE over == {i \in Ids : Exists(s, i) /\ Overflows(s, i, f.initial)}
           reset == {i \in over : s.streams[i].state # "CLOSING"}
           rsts == [k \in 1 .. Cardinality(reset) |-> Frame("rst", SetToSeq(reset)[k])]
           t == [s EXCEPT !.streams = [i \in Ids |->
                            CASE i \in reset -> [@[i] EXCEPT !.state = "CLOSING"]
                              [] Exists(s, i) /\ i \notin over -> InitialWindow(s, i, f.initial)
                              [] OTHER -> @[i]],
                          !.reg = @ \o rsts, !.limit = f.limit, !.initial = f.initial]
           x(i) == CASE i \in reset -> [s.streams[i] EXCEPT !.state = "CLOSING"]
                     [] Exists(s, i) /\ i \notin over -> InitialWindow(s, i, f.initial)
                     [] OTHER -> s.streams[i]
           v == AddAck(t, "ack")
<1>1. OnSettings(s, f) = IF Closing(t) THEN t ELSE v
  BY DEF OnSettings
<1>2. reset \in SUBSET Ids
  OBVIOUS
<1>3. /\ \A i \in over : Exists(s, i) /\ Overflows(s, i, f.initial)
      /\ \A i \in Ids : Exists(s, i) /\ i \notin over => ~ Overflows(s, i, f.initial)
      /\ \A i : i \in reset <=> i \in over /\ s.streams[i].state # "CLOSING"
  OBVIOUS
<1>4. /\ DOMAIN t = SessionFields /\ t.streams = [i \in Ids |-> x(i)]
      /\ t.goaway = s.goaway /\ t.ignoring = s.ignoring /\ t.urgent = s.urgent
      /\ t.aob = s.aob /\ t.left = s.left /\ t.window = s.window
      /\ t.limit = f.limit /\ t.initial = f.initial
  <2> HIDE DEF rsts, reset, over
  <2> QED  BY DEF Good, Books, HasStreams, SessionFields
<1>5. t.reg = s.reg \o [k \in 1 .. Cardinality(reset) |-> Frame("rst", SetToSeq(reset)[k])]
  <2> HIDE DEF reset, over
  <2> QED  BY DEF Good, Books, HasStreams, SessionFields
<1> HIDE DEF t, v, reset, over, rsts
<1>6. Regular(t.reg) /\ \A i : Resets(t, i) <=> Resets(s, i) \/ i \in reset
  BY <1>2, <1>4, <1>5, ResetsJoined DEF Good, Values
<1>7. ASSUME NEW i \in Ids
      PROVE  /\ x(i).shut = s.streams[i].shut /\ (x(i).state # "none" <=> Exists(s, i))
             /\ x(i).item # "none" => s.streams[i].item # "none"
             /\ x(i).state = "CLOSING" => s.streams[i].state = "CLOSING" \/ i \in reset
             /\ x(i).window = IF Exists(s, i) /\ i \notin over
                              THEN s.streams[i].window + f.initial - s.initial
                              ELSE s.streams[i].window
  <2>1. CASE i \in reset
    <3>1. /\ x(i) = [s.streams[i] EXCEPT !.state = "CLOSING"]
          /\ i \in over /\ Exists(s, i)
      BY <1>3, <2>1
    <3> HIDE DEF x
    <3> QED  BY <2>1, <3>1 DEF Good, Books, HasStreams, StreamFields
  <2>2. CASE i \notin reset /\ Exists(s, i) /\ i \notin over
    <3>1. x(i) = InitialWindow(s, i, f.initial)
      BY <2>2
    <3> HIDE DEF x
    <3> QED  BY <2>2, <3>1 DEF Good, Books, HasStreams, StreamFields, Exists, InitialWindow, Resume
  <2>3. CASE i \notin reset /\ ~ (Exists(s, i) /\ i \notin over)
    <3>1. x(i) = s.streams[i]
      BY <2>3
    <3> HIDE DEF x
    <3> QED  BY <2>3, <3>1 DEF Exists
  <2> QED  BY <2>1, <2>2, <2>3
<1>8. \A i \in Ids : t.streams[i] = x(i)
  BY <1>4
<1> HIDE DEF x
<1>9. ASSUME NEW i \in Requests
      PROVE  /\ t.streams[i].window \in Int /\ t.streams[i].window <= MaxWindow
             /\ StreamMoves(s, t, f, i)
  <2>0. i \in Ids /\ s.streams[i].window \in Int /\ s.initial \in Int /\ MaxWindow \in Int
        /\ s.streams[i].window <= MaxWindow
    BY SessionAssumed DEF SessionAssumption, Good, Values, Ids
  <2>1. Level(s, i) = s.streams[i].window - s.initial /\ Level(t, i) = x(i).window - f.initial
    BY <1>4, <1>8, <2>0 DEF Level
  <2>2. CASE Exists(s, i) /\ i \notin over
    <3>1. /\ x(i).window = s.streams[i].window + f.initial - s.initial
          /\ ~ (s.streams[i].window + f.initial - s.initial > MaxWindow)
      BY <1>3, <1>7, <2>0, <2>2 DEF Overflows
    <3> QED
      <4>1. Level(t, i) = Level(s, i) /\ x(i).window \in Int /\ x(i).window <= MaxWindow
        BY <2>0, <2>1, <3>1
      <4>2. Level(t, i) <= Level(s, i) + Gain(f, i)
        BY <2>0, <2>1, <4>1 DEF Gain
      <4> QED  BY <1>3, <1>6, <1>7, <1>8, <2>0, <2>2, <4>1, <4>2 DEF StreamMoves, Exists
  <2>3. CASE i \in over
    <3>1. /\ x(i).window = s.streams[i].window /\ Exists(s, i)
          /\ s.streams[i].window + f.initial - s.initial > MaxWindow
      BY <1>3, <1>7, <2>0, <2>3 DEF Overflows
    <3>2. Level(t, i) <= Level(s, i) + Gain(f, i)
      BY <2>0, <2>1, <3>1 DEF Gain
    <3>3. Offends(s, f, i)
      BY <1>3, <2>3 DEF Offends
    <3> QED  BY <1>3, <1>6, <1>7, <1>8, <2>0, <3>1, <3>2, <3>3 DEF StreamMoves, Exists
  <2>4. CASE ~ Exists(s, i)
    <3>1. i \notin over /\ i \notin reset
      BY <1>3, <2>4
    <3>2. t.streams[i].window = s.streams[i].window
      BY <1>7, <1>8, <2>0, <2>4
    <3>3. ~ Exists(t, i)
      BY <1>7, <1>8, <2>0, <2>4 DEF Exists
    <3> QED  BY <1>6, <2>0, <2>4, <3>1, <3>2, <3>3 DEF StreamMoves
  <2> QED  BY <2>2, <2>3, <2>4
<1>10. Values(t)
  <2>1. \A i \in Ids : t.streams[i].item # "none" => i \in Requests /\ Exists(t, i)
    BY <1>7, <1>8 DEF Good, Values, Exists
  <2> QED  BY <1>4, <1>6, <1>9, <2>1 DEF Good, Values
<1>11. Moves(s, t, f)
  <2>1. t.window <= s.window + Gain(f, 0)
    BY <1>4 DEF Gain, Good, Values
  <2> QED  BY <1>4, <1>9, <1>10, <2>1 DEF Moves
<1>12. IsSequence(t.urgent) /\ Acks(t.urgent) = Acks(s.urgent)
  BY <1>4 DEF Good, Books, HasStreams, Quiet
<1>13. /\ v.streams = t.streams /\ v.reg = t.reg /\ v.aob = t.aob /\ v.left = t.left
       /\ v.window = t.window /\ v.goaway = t.goaway /\ v.ignoring = t.ignoring
       /\ v.limit = t.limit /\ v.initial = t.initial
       /\ \/ v.failed /\ Acks(v.urgent) = Acks(t.urgent)
          \/ Acks(v.urgent) = Acks(t.urgent) + 1
  BY <1>4, <1>12, AddAckSettles DEF v
<1>14. Moves(s, v, f)
  <2>1. Values(v)
    BY <1>10, <1>13 DEF Values, Exists
  <2>2. \A i \in Requests : StreamMoves(s, v, f, i)
    <3> TAKE i \in Requests
    <3>1. StreamMoves(s, t, f, i) /\ (Resets(v, i) <=> Resets(t, i))
      BY <1>9, <1>13, ResetsSame
    <3> QED  BY <1>13, <3>1 DEF StreamMoves, Exists, Level, Ending
  <2>3. v.ignoring => s.ignoring \/ ~ Lives(v)
    BY <1>4, <1>13
  <2>4. v.window <= s.window + Gain(f, 0) /\ v.aob = s.aob /\ s.goaway \subseteq v.goaway
    BY <1>4, <1>11, <1>13 DEF Moves
  <2> QED  BY <2>1, <2>2, <2>3, <2>4 DEF Moves
<1>15. Settles(s, v, f)
  BY <1>4, <1>12, <1>13 DEF Settles
<1>16. Closing(t) => Settles(s, t, f)
  <2>1. ASSUME Closing(t) PROVE ~ GoesOn(t)
    <3>1. OnSettings(s, f) = t
      BY <1>1, <2>1
    <3>2. Books(t)
      BY <3>1, OnSettingsGoes DEF Good, Goes
    <3> QED  BY <2>1, <3>2, GoesOnReads
  <2> QED  BY <1>4, <1>12, <2>1 DEF Settles
<1> QED  BY <1>1, <1>11, <1>14, <1>15, <1>16

\* What the server's WINDOW_UPDATE and SETTINGS may say
Told(f) ==
  /\ Expected(f) /\ Widens(f)
  /\ f.type = "settings" => f.limit \in Int /\ f.initial \in Int /\ f.initial <= MaxWindow

LEMMA ReceivedMoves ==
  ASSUME NEW s, Good(s), NEW f, Told(f)
  PROVE  /\ Moves(s, Received(s, f), f)
         /\ f.type = "settings" => Settles(s, Received(s, f), f)
<1>1. /\ f.type \in {"headers", "data", "rst", "settings", "ack", "ping", "goaway", "window", "push"}
      /\ f.type \in {"headers", "data", "rst"} => f.id \in Ids
      /\ f.type = "window" => f.id \in Ids \cup {0} /\ f.n \in Nat
      /\ f.type = "push" => f.promised \in Promises
      /\ f.type = "data" => f.n \in Int
      /\ f.type = "settings" => f.limit \in Int /\ f.initial \in Int /\ f.initial <= MaxWindow
      /\ Widens(f)
  BY DEF Told, Expected, Widens
<1>2. CASE f.type = "headers"
  BY <1>1, <1>2, OnHeadersMoves DEF Received
<1>3. CASE f.type = "data"
  BY <1>1, <1>3, OnDataMoves DEF Received
<1>4. CASE f.type = "rst"
  BY <1>1, <1>4, OnRstMoves DEF Received
<1>5. CASE f.type = "settings"
  BY <1>1, <1>5, OnSettingsMoves DEF Received
<1>6. CASE f.type = "ack"
  BY <1>1, <1>6, OnSettingsAckMoves DEF Received
<1>7. CASE f.type = "ping"
  BY <1>1, <1>7, AddPongMoves, MovesNowhere DEF Received
<1>8. CASE f.type = "goaway"
  BY <1>1, <1>8, OnGoawayMoves DEF Received
<1>9. CASE f.type = "window"
  BY <1>1, <1>9, OnUpdateMoves DEF Received
<1>10. CASE f.type = "push"
  BY <1>1, <1>10, OnPushMoves DEF Received
<1> QED  BY <1>1, <1>2, <1>3, <1>4, <1>5, <1>6, <1>7, <1>8, <1>9, <1>10

-----------------------------------------------------------------------------
(* What the client does after a frame is sent                              *)

LEMMA NoFrameIs == NoFrame.type = "none" /\ Widens(NoFrame) /\ Ack(NoFrame) = 0
BY DEF NoFrame, Frame, Widens, Ack

LEMMA RequestSentMoves ==
  ASSUME NEW s, Good(s), NEW f, f.id \in Requests
  PROVE  Moves(s, RequestSent(s, f), NoFrame)
<1> DEFINE i == f.id
           t == [s EXCEPT !.streams[i].state = "OPENING", !.streams[i].item = "ready"]
           x == [s.streams[i] EXCEPT !.state = "OPENING", !.item = "ready"]
<1>1. \/ RequestSent(s, f) = s
      \/ Exists(s, i) /\ RequestSent(s, f) = t
  BY DEF RequestSent
<1>2. i \in Ids /\ Kept(s, t) /\ t.streams = [s.streams EXCEPT ![i] = x] /\ t.reg = s.reg
  BY DEF Kept, Good, Books, HasStreams, SessionFields, Ids
<1>3. /\ x.state = "OPENING" /\ x.window = s.streams[i].window /\ x.shut = s.streams[i].shut
  BY <1>2 DEF Good, Books, HasStreams, StreamFields
<1> HIDE DEF t, x
<1>4. ASSUME Exists(s, i) PROVE Moves(s, t, NoFrame)
  <2>1. Beside(s, t) /\ Queues(s, t, i) /\ t.streams[i] = x /\ (Resets(t, i) <=> Resets(s, i))
    BY <1>2, KeptBeside, ResetsSame DEF Kept, Queues, Good, Books, HasStreams
  <2>2. StreamMoves(s, t, NoFrame, i)
    <3>1. Level(t, i) <= Level(s, i) + Gain(NoFrame, i)
      <4>1. Gain(NoFrame, i) \in Nat /\ Level(s, i) \in Int
        BY NoFrameIs, GainNat, LevelInt DEF Good
      <4>2. Level(t, i) = Level(s, i)
        BY <1>2, <1>3, <2>1 DEF Level, Kept
      <4> QED  BY <4>1, <4>2
    <3>2. Exists(t, i)
      BY <1>3, <2>1 DEF Exists
    <3> QED  BY <1>3, <1>4, <2>1, <3>1, <3>2 DEF StreamMoves
  <2>3. x.window \in Int /\ x.window <= MaxWindow /\ x.state # "none"
    BY <1>3 DEF Good, Values
  <2> QED  BY <1>2, <2>1, <2>2, <2>3, NoFrameIs, OneMoves
<1> QED  BY <1>1, <1>4, NoFrameIs, MovesNowhere

LEMMA GoawaySentMoves ==
  ASSUME NEW s, Good(s), NEW f
  PROVE  Moves(s, GoawaySent(s, f), NoFrame)
<1> DEFINE t == [s EXCEPT !.goaway = @ \cup {"TERM_SENT", "SENT"}]
           ids == {i \in Promises : Exists(t, i) /\ i > f.id}
<1>1. GoawaySent(s, f) = CloseAll(t, ids, "refused")
  BY DEF GoawaySent
<1>2. ids \subseteq Ids /\ \A i \in ids : Exists(t, i) /\ i \notin Requests
  BY ParityIs DEF Ids
<1>3. /\ DOMAIN t = SessionFields /\ t.streams = s.streams /\ t.out = s.out /\ t.in = s.in
      /\ t.lastRecv = s.lastRecv /\ t.goaway = s.goaway \cup {"TERM_SENT", "SENT"}
      /\ t.ignoring = s.ignoring /\ t.urgent = s.urgent /\ t.recvd = s.recvd
      /\ t.reg = s.reg
      /\ t.aob = s.aob /\ t.left = s.left /\ t.window = s.window /\ t.limit = s.limit
      /\ t.initial = s.initial
  BY DEF Good, Books, HasStreams, SessionFields
<1> HIDE DEF t, ids
<1>4. Goes(s, t, 0)
  <2>1. Opened(t) = Opened(s) /\ Pushed(t) = Pushed(s)
    BY <1>3 DEF Opened, Pushed, Exists
  <2>2. Books(t)
    BY <1>3, <2>1 DEF Good, Books, HasStreams, Exists
  <2>3. Account(t) = Account(s) + 0
    BY <1>3, AccountInt DEF Account, Good
  <2> QED  BY <1>3, <2>1, <2>2, <2>3 DEF Goes
<1>5. Moves(s, t, NoFrame)
  <2>1. Beside(s, t) /\ Queues(s, t, 0)
    BY <1>3 DEF Beside, SameTerms, Queues
  <2> QED  BY <1>3, <2>1, NoFrameIs, SameMoves
<1>6. Good(t)
  BY <1>4, <1>5 DEF Good, Goes, Moves
<1>7. Moves(t, CloseAll(t, ids, "refused"), NoFrame) /\ Goes(t, CloseAll(t, ids, "refused"), 0)
  <2>1. \A i \in ids \cap Requests : Ends(t, NoFrame, i)
    BY <1>2
  <2> QED  BY <1>2, <1>6, <2>1, NoFrameIs, CloseAllMoves, CloseAllGoes DEF Good
<1>8. NoFrame.type \notin {"window", "settings"}
  BY NoFrameIs
<1> QED  BY <1>1, <1>4, <1>5, <1>7, <1>8, ThenMoves

LEMMA UpdateSentMoves ==
  ASSUME NEW s, Good(s), NEW f, f.id \in Ids \cup {0}
  PROVE  Moves(s, UpdateSent(s, f), NoFrame)
<1> DEFINE t == [s EXCEPT !.updating = FALSE]
           u == [s EXCEPT !.streams[f.id].updating = FALSE]
           x == [s.streams[f.id] EXCEPT !.updating = FALSE]
<1>0. NoFrame.type \notin {"window", "settings"} /\ Widens(NoFrame)
  BY NoFrameIs
<1>1. CASE f.id = 0
  <2>1. UpdateSent(s, f) = RecvConnection(t, 0)
    BY <1>1 DEF UpdateSent
  <2>2. SameStreams(s, t) /\ t.recvd = s.recvd /\ t.reg = s.reg /\ Kept(s, t)
    BY DEF SameStreams, Kept, Good, Books, HasStreams, SessionFields
  <2> HIDE DEF t
  <2>3. Goes(s, t, 0)
    BY <2>2, SameIsSimilar, SimilarStays DEF Good
  <2>4. Moves(s, t, NoFrame)
    <3>1. t.streams = s.streams /\ Queues(s, t, 0) /\ Beside(s, t)
      BY <2>2, KeptBeside DEF SameStreams, Queues
    <3> QED  BY <1>0, <3>1, SameMoves
  <2>5. Good(t)
    BY <2>3, <2>4 DEF Good, Goes, Moves
  <2>6. Goes(t, RecvConnection(t, 0), 0) /\ Moves(t, RecvConnection(t, 0), NoFrame)
    BY <1>0, <2>5, RecvConnectionGoes, RecvConnectionMoves DEF Good
  <2> QED  BY <1>0, <2>1, <2>3, <2>4, <2>6, ThenMoves
<1>2. CASE f.id \in Ids
  <2>1. \/ UpdateSent(s, f) = s
        \/ Exists(s, f.id) /\ UpdateSent(s, f) \in {u, RecvStream(u, f.id, 0, TRUE)}
    <3>1. f.id # 0
      BY <1>2, IdsAre
    <3> QED  BY <3>1 DEF UpdateSent
  <2>2. /\ DOMAIN u = SessionFields /\ u.streams = [s.streams EXCEPT ![f.id] = x]
        /\ u.out = s.out /\ u.in = s.in /\ u.lastRecv = s.lastRecv /\ u.recvd = s.recvd
        /\ u.reg = s.reg /\ Kept(s, u)
    BY DEF Kept, Good, Books, HasStreams, SessionFields
  <2>3. /\ DOMAIN x = StreamFields /\ x.push = s.streams[f.id].push
        /\ x.state = s.streams[f.id].state /\ x.window = s.streams[f.id].window
        /\ x.shut = s.streams[f.id].shut /\ x.item = s.streams[f.id].item
    BY <1>2 DEF Good, Books, HasStreams, StreamFields
  <2> HIDE DEF x, u
  <2>4. Goes(s, u, 0)
    <3>1. Similar(s, u)
      BY <1>2, <2>2, <2>3, StreamChanges DEF Good, Exists, Kept
    <3> QED  BY <2>2, <3>1, SimilarStays DEF Good
  <2>5. Moves(s, u, NoFrame)
    <3>1. Queues(s, u, f.id) /\ (Resets(u, f.id) <=> Resets(s, f.id))
      BY <2>2, ResetsSame DEF Queues, Kept
    <3> QED  BY <1>0, <1>2, <2>2, <2>3, <3>1, QuietlyMoves DEF Exists
  <2>6. Good(u)
    BY <2>4, <2>5 DEF Good, Goes, Moves
  <2>7. ASSUME Exists(s, f.id) PROVE Moves(s, RecvStream(u, f.id, 0, TRUE), NoFrame)
    <3>1. Offends(u, NoFrame, f.id)
      <4>1. u.streams[f.id] = x
        BY <1>2, <2>2 DEF Good, Books, HasStreams
      <4> QED  BY <2>3, <2>7, <4>1, NoFrameIs DEF Offends, Exists
    <3>2. \A n, update : Moves(u, RecvStream(u, f.id, n, update), NoFrame)
      BY <1>0, <1>2, <2>6, <3>1, RecvStreamMoves
    <3>3. \A n, update : Goes(u, RecvStream(u, f.id, n, update), 0)
      BY <1>2, <2>6, RecvStreamGoes DEF Good
    <3> QED  BY <1>0, <2>4, <2>5, <3>2, <3>3, ThenMoves, Zenon
  <2> QED  BY <1>0, <2>1, <2>5, <2>7, MovesNowhere
<1> QED  BY <1>1, <1>2

(***************************************************************************)
(* s becomes u when the data of f are sent: the windows fall by what f     *)
(* has, and only the stream of f changes.                                  *)
(***************************************************************************)
Spends(s, u, f) ==
  /\ Values(u) /\ u.aob = s.aob /\ u.reg = s.reg /\ SameTerms(s, u)
  /\ u.goaway = s.goaway /\ u.ignoring = s.ignoring /\ u.window = s.window - f.n
  /\ \A j \in Requests : j # f.id => u.streams[j] = s.streams[j]
  /\ Exists(s, f.id) /\ ~ Exists(u, f.id) => f.end /\ "RD" \in s.streams[f.id].shut
  /\ Exists(u, f.id) =>
       /\ Exists(s, f.id) /\ Level(u, f.id) = Level(s, f.id) - f.n
       /\ "WR" \in u.streams[f.id].shut => "WR" \in s.streams[f.id].shut \/ f.end
       /\ "RD" \in u.streams[f.id].shut => "RD" \in s.streams[f.id].shut
       /\ u.streams[f.id].state = "CLOSING" => s.streams[f.id].state = "CLOSING"

\* What becomes of the connection, and of the stream of f
Charged(s, u, f) ==
  /\ u.aob = s.aob /\ u.left = s.left /\ u.reg = s.reg /\ u.urgent = s.urgent
  /\ u.limit = s.limit /\ u.initial = s.initial /\ u.goaway = s.goaway
  /\ u.ignoring = s.ignoring /\ u.window = s.window - f.n
  /\ \A j \in Ids : j # f.id => u.streams[j] = s.streams[j]

Narrowed(s, st, f) ==
  \/ /\ st.state = "none" /\ st.window = 0 /\ st.item = "none"
     /\ Exists(s, f.id) => f.end /\ "RD" \in s.streams[f.id].shut
  \/ /\ st.state = s.streams[f.id].state
     /\ st.window = IF Exists(s, f.id) THEN s.streams[f.id].window - f.n
                    ELSE s.streams[f.id].window
     /\ st.item # "none" => s.streams[f.id].item # "none"
     /\ "WR" \in st.shut => "WR" \in s.streams[f.id].shut \/ f.end
     /\ "RD" \in st.shut => "RD" \in s.streams[f.id].shut

LEMMA SpendsBy ==
  ASSUME NEW s, Good(s), NEW f, f.id \in Requests, f.n \in Nat, NEW u, Charged(s, u, f),
         Narrowed(s, u.streams[f.id], f)
  PROVE  Spends(s, u, f)
<1> DEFINE i == f.id
           old == s.streams[i]
           st == u.streams[i]
<1> USE DEF Charged, Narrowed
<1>0. i \in Ids /\ MaxWindow \in Nat /\ old.window \in Int /\ s.initial \in Int
      /\ old.window <= MaxWindow /\ s.window \in Int
  BY SessionAssumed DEF SessionAssumption, Ids, Good, Values
<1>1. st.window \in Int /\ st.window <= MaxWindow
  BY <1>0
<1>2. ASSUME NEW j \in Ids, u.streams[j].item # "none" PROVE j \in Requests /\ Exists(u, j)
  <2>1. CASE j = i
    BY <1>0, <1>2, <2>1 DEF Good, Values, Exists
  <2>2. CASE j # i
    BY <1>2, <2>2 DEF Good, Values, Exists
  <2> QED  BY <2>1, <2>2
<1>3. \A j \in Requests : u.streams[j].window \in Int /\ u.streams[j].window <= MaxWindow
  BY <1>1 DEF Good, Values, Ids
<1>4. Values(u)
  BY <1>0, <1>2, <1>3 DEF Good, Values
<1>5. \A j \in Requests : j # i => u.streams[j] = s.streams[j]
  BY DEF Ids
<1>6. Exists(u, i) => Exists(s, i) /\ Level(u, i) = Level(s, i) - f.n
  <2>1. Level(s, i) = old.window - s.initial /\ Level(u, i) = st.window - s.initial
    BY DEF Level
  <2>2. Exists(u, i) => Exists(s, i) /\ st.window = old.window - f.n
    BY DEF Exists
  <2> QED  BY <1>0, <2>1, <2>2
<1>7. Exists(s, i) /\ ~ Exists(u, i) => f.end /\ "RD" \in old.shut
  BY DEF Exists
<1>8. Exists(u, i) =>
        /\ "WR" \in st.shut => "WR" \in old.shut \/ f.end
        /\ "RD" \in st.shut => "RD" \in old.shut
        /\ st.state = "CLOSING" => old.state = "CLOSING"
  BY DEF Exists
<1> QED  BY <1>4, <1>5, <1>6, <1>7, <1>8 DEF Spends, SameTerms

LEMMA DataSentSpends ==
  ASSUME NEW s, Good(s), NEW f, f.id \in Requests, f.n \in Nat
  PROVE  Spends(s, DataSent(s, f), f)
<1> DEFINE i == f.id
           t == [s EXCEPT !.window = @ - f.n,
                          !.streams[i].window = IF Exists(s, i) THEN @ - f.n ELSE @]
           x == [s.streams[i] EXCEPT !.window = IF Exists(s, i) THEN @ - f.n ELSE @]
           u == [t EXCEPT !.streams[i].item = "none"]
           y == [x EXCEPT !.item = "none"]
           v == Shut(u, i, "WR")
           z == [y EXCEPT !.shut = @ \cup {"WR"}]
           w == Close(v, i, "done")
<1>0. i \in Ids
  BY DEF Ids
<1>1. \/ DataSent(s, f) = t
      \/ DataSent(s, f) = u
      \/ f.end /\ DataSent(s, f) = v
      \/ f.end /\ v.streams[i].shut = {"RD", "WR"} /\ DataSent(s, f) = w
  BY DEF DataSent, ShutAndClose
<1>2. /\ DOMAIN t = SessionFields /\ t.streams = [s.streams EXCEPT ![i] = x]
      /\ t.aob = s.aob /\ t.left = s.left /\ t.reg = s.reg /\ t.urgent = s.urgent
      /\ t.limit = s.limit /\ t.initial = s.initial /\ t.goaway = s.goaway
      /\ t.ignoring = s.ignoring /\ t.window = s.window - f.n
  <2>1. x = [s.streams[i] EXCEPT !.window = x.window]
    OBVIOUS
  <2> QED  BY DEF Good, Books, HasStreams, SessionFields
<1>3. /\ DOMAIN x = StreamFields /\ x.state = s.streams[i].state /\ x.shut = s.streams[i].shut
      /\ x.item = s.streams[i].item
      /\ x.window = IF Exists(s, i) THEN s.streams[i].window - f.n ELSE s.streams[i].window
  BY <1>0 DEF Good, Books, HasStreams, StreamFields
<1> HIDE DEF t, x
<1>4. /\ DOMAIN t.streams = Ids /\ t.streams[i] = x
      /\ \A j \in Ids : j # i => t.streams[j] = s.streams[j]
  BY <1>0, <1>2 DEF Good, Books, HasStreams
<1>5. /\ DOMAIN u = SessionFields /\ u.streams = [t.streams EXCEPT ![i] = y]
      /\ u.aob = s.aob /\ u.left = s.left /\ u.reg = s.reg /\ u.urgent = s.urgent
      /\ u.limit = s.limit /\ u.initial = s.initial /\ u.goaway = s.goaway
      /\ u.ignoring = s.ignoring /\ u.window = s.window - f.n
  BY <1>2 DEF SessionFields
<1>6. /\ DOMAIN y = StreamFields /\ y.state = x.state /\ y.shut = x.shut
      /\ y.item = "none" /\ y.window = x.window
  BY <1>3 DEF StreamFields
<1> HIDE DEF u, y
<1>7. /\ DOMAIN u.streams = Ids /\ u.streams[i] = y
      /\ \A j \in Ids : j # i => u.streams[j] = s.streams[j]
  BY <1>0, <1>4, <1>5
<1>8. /\ DOMAIN v = SessionFields /\ v.streams = [u.streams EXCEPT ![i] = z]
      /\ v.aob = s.aob /\ v.left = s.left /\ v.reg = s.reg /\ v.urgent = s.urgent
      /\ v.limit = s.limit /\ v.initial = s.initial /\ v.goaway = s.goaway
      /\ v.ignoring = s.ignoring /\ v.window = s.window - f.n
  BY <1>5, <1>7 DEF Shut, SessionFields
<1>9. /\ z.state = y.state /\ z.shut = y.shut \cup {"WR"} /\ z.item = "none" /\ z.window = y.window
  BY <1>6 DEF StreamFields
<1> HIDE DEF v, z
<1>10. v.streams[i] = z /\ \A j \in Ids : j # i => v.streams[j] = s.streams[j]
  BY <1>0, <1>7, <1>8
<1>11. \/ w = v
       \/ /\ w.streams = [j \in Ids |-> IF j \in {i} THEN NoStream ELSE v.streams[j]]
          /\ w.aob = s.aob /\ w.left = s.left /\ w.reg = s.reg /\ w.urgent = s.urgent
          /\ w.limit = s.limit /\ w.initial = s.initial /\ w.goaway = s.goaway
          /\ w.ignoring = s.ignoring /\ w.window = s.window - f.n
  BY <1>8 DEF Close, CloseAll, SessionFields
<1> HIDE DEF w
<1>12. Charged(s, t, f) /\ Charged(s, u, f) /\ Charged(s, v, f)
  BY <1>2, <1>4, <1>5, <1>7, <1>8, <1>10 DEF Charged
<1>13. Spends(s, t, f)
  <2>1. Narrowed(s, t.streams[i], f)
    BY <1>3, <1>4 DEF Narrowed
  <2> QED  BY <1>12, <2>1, SpendsBy
<1>14. Spends(s, u, f)
  <2>1. Narrowed(s, u.streams[i], f)
    BY <1>3, <1>6, <1>7 DEF Narrowed
  <2> QED  BY <1>12, <2>1, SpendsBy
<1>15. f.end => Spends(s, v, f)
  <2>1. f.end => Narrowed(s, v.streams[i], f)
    BY <1>3, <1>6, <1>9, <1>10 DEF Narrowed
  <2> QED  BY <1>12, <2>1, SpendsBy
<1>16. ASSUME f.end, v.streams[i].shut = {"RD", "WR"}, w # v PROVE Spends(s, w, f)
  <2>1. w.streams[i] = NoStream /\ \A j \in Ids : j # i => w.streams[j] = s.streams[j]
    BY <1>0, <1>10, <1>11, <1>16
  <2>2. NoStream.state = "none" /\ NoStream.window = 0 /\ NoStream.item = "none"
    BY DEF NoStream
  <2>3. "RD" \in s.streams[i].shut
    BY <1>3, <1>6, <1>9, <1>10, <1>16
  <2>4. Charged(s, w, f)
    BY <1>11, <1>16, <2>1 DEF Charged
  <2>5. Narrowed(s, w.streams[i], f)
    BY <1>16, <2>1, <2>2, <2>3 DEF Narrowed
  <2> QED  BY <2>4, <2>5, SpendsBy
<1> QED  BY <1>1, <1>13, <1>14, <1>15, <1>16

\* What may be on its way out
Outgoing(f) ==
  /\ Sayable(f) /\ (f.type = "headers" => f.id \in Requests)
  /\ f.type = "data" => f.id \in Requests /\ f.n \in Nat

\* s0 when its frame is on its way
Cleared(s0, s) ==
  /\ s.aob = NoFrame /\ s.streams = s0.streams /\ s.left = s0.left /\ s.reg = s0.reg
  /\ s.urgent = s0.urgent /\ s.syn = s0.syn /\ s.limit = s0.limit /\ s.initial = s0.initial
  /\ s.window = s0.window /\ s.goaway = s0.goaway /\ s.ignoring = s0.ignoring

LEMMA ClearedIs ==
  ASSUME NEW s0, Good(s0), NEW s, s = [s0 EXCEPT !.aob = NoFrame]
  PROVE  Cleared(s0, s) /\ Goes(s0, s, 0) /\ Good(s)
<1>2. Cleared(s0, s) /\ SameStreams(s0, s) /\ s.recvd = s0.recvd
  BY DEF Cleared, SameStreams, Good, Books, HasStreams, SessionFields
<1>3. Goes(s0, s, 0)
  BY <1>2, SameIsSimilar, SimilarStays DEF Good, Cleared
<1>4. Values(s)
  BY <1>2 DEF Good, Values, Cleared, Exists
<1> QED  BY <1>2, <1>3, <1>4 DEF Goes, Good

\* s becomes t when f has been written.
Follows(s, t, f) ==
  /\ f.type = "data" => Spends(s, t, f)
  /\ f.type # "data" => Moves(s, t, IF f.type = "rst" THEN f ELSE NoFrame)
  /\ f.type = "rst" => ~ Exists(t, f.id)

LEMMA CloseCloses ==
  ASSUME NEW s, DOMAIN s = SessionFields, NEW i \in Ids, NEW why
  PROVE  ~ Exists(Close(s, i, why), i)
<1> DEFINE t == CloseAll(s, {i}, why)
<1>1. t.streams = [j \in Ids |-> IF j \in {i} THEN NoStream ELSE s.streams[j]]
  BY DEF CloseAll, SessionFields
<1> HIDE DEF t
<1>2. t.streams[i].state = "none"
  BY <1>1 DEF NoStream
<1> QED  BY <1>2 DEF Close, Exists, t

LEMMA AfterSentMoves ==
  ASSUME NEW s0, Good(s0), Outgoing(s0.aob), NEW s, s = [s0 EXCEPT !.aob = NoFrame]
  PROVE  Follows(s, AfterSent(s0), s0.aob)
<1> DEFINE f == s0.aob
<1>1. AfterSent(s0) = CASE f.type = "data"    -> DataSent(s, f)
                        [] f.type = "headers" -> RequestSent(s, f)
                        [] f.type = "rst"     -> Close(s, f.id, "reset")
                        [] f.type = "goaway"  -> GoawaySent(s, f)
                        [] f.type = "window"  -> UpdateSent(s, f)
                        [] OTHER              -> s
  BY DEF AfterSent
<1>2. Good(s)
  BY ClearedIs
<1>3. Widens(NoFrame)
  BY NoFrameIs
<1> HIDE DEF f
<1>4. CASE f.type = "data"
  <2>1. Spends(s, DataSent(s, f), f)
    BY <1>2, <1>4, DataSentSpends DEF Outgoing, f
  <2> QED  BY <1>1, <1>4, <2>1 DEF Follows, f
<1>5. CASE f.type = "rst"
  <2>1. f.id \in Ids /\ Widens(f)
    BY <1>5 DEF Outgoing, Sayable, f, Widens
  <2>2. f.id \in Requests => Ends(s, f, f.id)
    BY <1>5 DEF Ends, About
  <2>3. Moves(s, Close(s, f.id, "reset"), f)
    BY <1>2, <2>1, <2>2, CloseMoves
  <2>4. ~ Exists(Close(s, f.id, "reset"), f.id)
    BY <1>2, <2>1, CloseCloses DEF Good, Books, HasStreams
  <2> QED  BY <1>1, <1>5, <2>3, <2>4 DEF Follows, f
<1>6. CASE f.type \notin {"data", "rst"}
  <2>1. Moves(s, AfterSent(s0), NoFrame)
    <3>1. CASE f.type = "headers"
      <4>1. f.id \in Requests
        BY <3>1 DEF Outgoing, f
      <4> QED  BY <1>1, <1>2, <3>1, <4>1, RequestSentMoves
    <3>2. CASE f.type = "goaway"
      BY <1>1, <1>2, <3>2, GoawaySentMoves
    <3>3. CASE f.type = "window"
      <4>1. f.id \in Ids \cup {0}
        BY <3>3 DEF Outgoing, Sayable, f
      <4> QED  BY <1>1, <1>2, <3>3, <4>1, UpdateSentMoves
    <3>4. CASE f.type \notin {"data", "rst", "headers", "goaway", "window"}
      BY <1>1, <1>2, <1>3, <3>4, MovesNowhere
    <3> QED  BY <1>6, <3>1, <3>2, <3>3, <3>4
  <2> QED  BY <1>6, <2>1 DEF Follows, f
<1> QED  BY <1>4, <1>5, <1>6

\* What is said does not change when a frame is prepared.
Waits(s, t) ==
  /\ t.window = s.window /\ t.limit = s.limit /\ t.initial = s.initial /\ t.goaway = s.goaway
  /\ t.ignoring = s.ignoring /\ t.urgent = s.urgent /\ t.reg = s.reg

\* A request is opened with the window the server has announced.
OpensBy(t, f, i) ==
  /\ f.type = "headers" /\ f.id = i /\ t.aob = f
  /\ Level(t, i) = 0 /\ t.streams[i].state = "INITIAL" /\ t.streams[i].shut = {}

StreamWaits(s, t, i) ==
  /\ t.streams[i].window = s.streams[i].window /\ t.streams[i].shut = s.streams[i].shut
  /\ t.streams[i].state = s.streams[i].state

\* The data fit in both windows.
Fits(s, g) ==
  /\ g.id \in Requests /\ g.n \in Nat /\ g.n <= s.window /\ g.n <= s.streams[g.id].window
  /\ Exists(s, g.id) /\ Lives(s)

(***************************************************************************)
(* s becomes t when f is prepared: it is dropped only when the session     *)
(* ends.                                                                   *)
(***************************************************************************)
Picks(s, t, f) ==
  /\ Values(t) /\ Waits(s, t)
  /\ t.aob = NoFrame \/ t.aob = f \/ (f.type = "data" /\ t.aob.type = "data")
  /\ t.aob = NoFrame /\ f.type \in {"rst", "ack"} => Ending(s) /\ ~ GoesOn(s)
  /\ \A i \in Requests : Exists(s, i) => StreamWaits(s, t, i)
  /\ \A i \in Requests : Exists(t, i) /\ ~ Exists(s, i) => OpensBy(t, f, i)
  /\ t.aob.type = "data" => Fits(s, t.aob)
  /\ t.aob.type = "headers" =>
       /\ t.aob = f /\ Exists(t, f.id)
       /\ s.goaway \cap {"TERM_ON_SEND", "TERM_SENT", "RECV"} = {}

LEMMA ClosingEnds ==
  ASSUME NEW s, Books(s), Closing(s)
  PROVE  Ending(s) /\ ~ GoesOn(s)
<1>1. ~ GoesOn(s)
  BY GoesOnReads
<1>2. Ending(s)
  BY DEF Closing, WantRead, Ending
<1> QED  BY <1>1, <1>2

LEMMA ReadFits ==
  ASSUME NEW i \in Requests, NEW left \in Int, i \notin Whole => left >= 0, NEW n \in Nat
  PROVE  LET r == Read(i, left, n) IN
         /\ r.n \in Nat /\ r.n <= n
         /\ left - r.n \in Int /\ (i \notin Whole => left - r.n >= 0)
<1>1. Body \in Nat /\ MaxWindow \in Nat
  BY SessionAssumed DEF SessionAssumption
<1>2. CASE i \in Whole
  <2>1. Read(i, left, n).n = IF Body <= n THEN Body ELSE 0
    BY <1>2 DEF Read
  <2> QED  BY <1>1, <1>2, <2>1
<1>3. CASE i \notin Whole
  <2>1. Read(i, left, n).n = IF left < n THEN left ELSE n
    BY <1>3 DEF Read, Least
  <2> QED  BY <1>3, <2>1
<1> QED  BY <1>2, <1>3

LEMMA ItemPicks ==
  ASSUME NEW s, Good(s), s.aob = NoFrame, NEW i \in Ids, Exists(s, i), i \in Requests, NEW x, NEW f,
         f.type = "data"
  PROVE  Picks(s, [s EXCEPT !.streams[i].item = x], f)
<1> DEFINE t == [s EXCEPT !.streams[i].item = x]
           y == [s.streams[i] EXCEPT !.item = x]
<1>1. /\ t.streams = [s.streams EXCEPT ![i] = y] /\ t.aob = NoFrame /\ Waits(s, t)
      /\ t.left = s.left
  BY DEF Waits, Good, Books, HasStreams, SessionFields
<1>2. /\ y.state = s.streams[i].state /\ y.window = s.streams[i].window
      /\ y.shut = s.streams[i].shut
  BY DEF Good, Books, HasStreams, StreamFields
<1> HIDE DEF t, y
<1>3. t.streams[i] = y /\ \A j \in Ids : j # i => t.streams[j] = s.streams[j]
  BY <1>1 DEF Good, Books, HasStreams
<1>4. \A j \in Requests : StreamWaits(s, t, j)
  BY <1>2, <1>3 DEF StreamWaits, Ids
<1>5. \A j \in Ids : Exists(t, j) <=> Exists(s, j)
  BY <1>2, <1>3 DEF Exists
<1>6. \A j \in Ids : t.streams[j].item # "none" => j \in Requests /\ Exists(t, j)
  BY <1>3, <1>5 DEF Good, Values
<1>7. Values(t)
  BY <1>1, <1>4, <1>6 DEF Good, Values, Waits, StreamWaits
<1>8. \A j \in Requests : Exists(t, j) <=> Exists(s, j)
  BY <1>5 DEF Ids
<1> QED  BY <1>1, <1>4, <1>7, <1>8, NoFrameIs DEF Picks, t

LEMMA PrepDataPicks ==
  ASSUME NEW s, Good(s), s.aob = NoFrame, NEW f, f.type = "data", f.id \in Ids,
         s.streams[f.id].item # "none"
  PROVE  Picks(s, PrepData(s, f.id), f)
<1> DEFINE i == f.id
           st == s.streams[i]
           n == Least(Least(st.window, s.window), FrameSize)
           read == Read(i, s.left[i], n)
           t == [s EXCEPT !.streams[i].item = "none"]
           u == [s EXCEPT !.streams[i].item = "deferred"]
           left == [s.left EXCEPT ![i] = @ - read.n]
           g == Data(i, read.n, read.eof)
           v == Sends([s EXCEPT !.left = left], g)
<1>1. \/ PrepData(s, i) \in {t, u}
      \/ ~ Closing(s) /\ ~ (n <= 0) /\ PrepData(s, i) = v
  BY DEF PrepData
<1>2. i \in Requests /\ Exists(s, i)
  BY DEF Good, Values
<1>3. Picks(s, t, f) /\ Picks(s, u, f)
  BY <1>2, ItemPicks
<1>4. ASSUME ~ Closing(s), ~ (n <= 0) PROVE Picks(s, v, f)
  <2>1. st.window \in Int /\ s.window \in Int /\ FrameSize \in Nat
    BY <1>2, SessionAssumed DEF SessionAssumption, Good, Values
  <2>2. n \in Int /\ n <= st.window /\ n <= s.window
    BY <2>1 DEF Least
  <2> HIDE DEF n, st
  <2>3. n \in Nat
    BY <1>4, <2>2
  <2>4. s.left[i] \in Int /\ (i \notin Whole => s.left[i] >= 0)
    BY <1>2 DEF Good, Values
  <2>5. /\ read.n \in Nat /\ read.n <= n /\ s.left[i] - read.n \in Int
        /\ i \notin Whole => s.left[i] - read.n >= 0
    BY <1>2, <2>3, <2>4, ReadFits
  <2> HIDE DEF read
  <2>6. g.type = "data" /\ g.id = i /\ g.n = read.n /\ g # NoFrame
    BY NoFrameIs DEF Data
  <2>7. /\ DOMAIN left = Requests /\ left[i] = s.left[i] - read.n
        /\ \A j \in Requests : j # i => left[j] = s.left[j]
    BY <1>2 DEF Good, Values
  <2> HIDE DEF g, left
  <2>8. v.aob = g /\ v.streams = s.streams /\ v.left = left /\ Waits(s, v)
    BY DEF Sends, Waits, Good, Books, HasStreams, SessionFields
  <2> HIDE DEF v
  <2>9. Values(v)
    <3>1. \A j \in Requests : v.left[j] \in Int /\ (j \notin Whole => v.left[j] >= 0)
      BY <2>5, <2>7, <2>8 DEF Good, Values
    <3> QED  BY <2>7, <2>8, <3>1 DEF Good, Values, Waits, Exists
  <2>10. Lives(s)
    BY <1>2, <1>4 DEF Closing, WantRead, WantWrite, Lives, Opened
  <2>11. Fits(s, g)
    <3>1. read.n <= s.window /\ read.n <= s.streams[i].window
      BY <2>1, <2>2, <2>3, <2>5 DEF st
    <3> QED  BY <1>2, <2>5, <2>6, <2>10, <3>1 DEF Fits
  <2>12. \A j \in Requests : StreamWaits(s, v, j) /\ (Exists(v, j) <=> Exists(s, j))
    BY <2>8 DEF StreamWaits, Exists
  <2> QED  BY <2>6, <2>8, <2>9, <2>11, <2>12 DEF Picks
<1>5. v = Sends([s EXCEPT !.left[i] = @ - read.n], g)
  OBVIOUS
<1> QED  BY <1>1, <1>3, <1>4

LEMMA PrepRequestPicks ==
  ASSUME NEW s, Good(s), s.aob = NoFrame, NEW f, f.type = "headers", f.id \in Requests,
         ~ Exists(s, f.id)
  PROVE  Picks(s, PrepRequest(s, f), f)
<1> DEFINE i == f.id
           t == Open(s, i, "INITIAL", {})
           x == [NoStream EXCEPT !.state = "INITIAL", !.shut = {}, !.window = s.initial,
                                 !.push = FALSE]
           u == [t EXCEPT !.lastSent = i]
           v == Close(t, i, "refused")
           w == Sends(u, f)
<1>1. \/ PrepRequest(s, f) = v
      \/ "RECV" \notin s.goaway /\ ~ Closing(t) /\ PrepRequest(s, f) = w
  BY DEF PrepRequest
<1>2. /\ x.state = "INITIAL" /\ x.shut = {} /\ x.window = s.initial /\ x.item = "none"
  BY DEF NoStream
<1>3. /\ DOMAIN t = SessionFields /\ t.streams = [s.streams EXCEPT ![i] = x]
      /\ Waits(s, t) /\ t.aob = NoFrame /\ t.left = s.left
  BY DEF Waits, Open, Good, Books, HasStreams, SessionFields
<1> HIDE DEF t, x
<1>4. i \in Ids
  BY DEF Ids
<1>5. t.streams[i] = x /\ \A j \in Ids : j # i => t.streams[j] = s.streams[j]
  BY <1>3, <1>4 DEF Good, Books, HasStreams
<1>6. f # NoFrame
  BY NoFrameIs
<1>7. Picks(s, v, f)
  <2>1. v = CloseAll(t, {i}, "refused")
    BY <1>2, <1>5 DEF Close, Exists
  <2>2. /\ v.streams = [j \in Ids |-> IF j \in {i} THEN NoStream ELSE t.streams[j]]
        /\ Waits(t, v) /\ v.aob = NoFrame /\ v.left = s.left
    <3> HIDE DEF v
    <3> QED  BY <1>3, <2>1 DEF CloseAll, SessionFields, Waits
  <2> HIDE DEF v
  <2>3. v.streams[i] = NoStream /\ \A j \in Ids : j # i => v.streams[j] = s.streams[j]
    BY <1>4, <1>5, <2>2
  <2>4. /\ NoStream.state = "none" /\ NoStream.window = 0 /\ NoStream.item = "none"
        /\ MaxWindow \in Nat
    BY SessionAssumed DEF NoStream, SessionAssumption
  <2>5. \A j \in Requests : j # i => v.streams[j] = s.streams[j]
    BY <2>3 DEF Ids
  <2>6. Values(v)
    <3>1. \A j \in Requests : v.streams[j].window \in Int /\ v.streams[j].window <= MaxWindow
      BY <2>3, <2>4, <2>5 DEF Good, Values
    <3>2. \A j \in Ids : v.streams[j].item # "none" => j \in Requests /\ Exists(v, j)
      BY <2>3, <2>4 DEF Good, Values, Exists
    <3> QED  BY <1>3, <2>2, <3>1, <3>2 DEF Good, Values, Waits
  <2>7. \A j \in Requests : Exists(s, j) => StreamWaits(s, v, j)
    BY <2>5 DEF StreamWaits
  <2>8. \A j \in Requests : Exists(v, j) => Exists(s, j)
    BY <2>3, <2>4, <2>5 DEF Exists
  <2>9. Waits(s, v)
    BY <1>3, <2>2 DEF Waits
  <2> QED  BY <2>2, <2>6, <2>7, <2>8, <2>9, NoFrameIs DEF Picks
<1>8. ASSUME "RECV" \notin s.goaway, ~ Closing(t) PROVE Picks(s, w, f)
  <2>1. w.streams = t.streams /\ Waits(t, w) /\ w.aob = f /\ w.left = s.left
    BY <1>3 DEF Sends, Waits, SessionFields
  <2> HIDE DEF w
  <2>2. s.goaway \cap {"TERM_ON_SEND", "TERM_SENT", "RECV"} = {}
    BY <1>3, <1>8 DEF Closing, WantRead, WantWrite, Waits
  <2>3. Waits(s, w)
    BY <1>3, <2>1 DEF Waits
  <2>4. \A j \in Requests : j # i => w.streams[j] = s.streams[j]
    BY <1>5, <2>1 DEF Ids
  <2>5. w.streams[i] = x
    BY <1>5, <2>1
  <2>6. Values(w)
    <3>1. s.initial \in Int /\ s.initial <= MaxWindow
      BY DEF Good, Values
    <3>2. \A j \in Requests : w.streams[j].window \in Int /\ w.streams[j].window <= MaxWindow
      BY <1>2, <2>4, <2>5, <3>1 DEF Good, Values
    <3>3. \A j \in Ids : w.streams[j].item # "none" => j \in Requests /\ Exists(w, j)
      BY <1>2, <1>5, <2>1 DEF Good, Values, Exists
    <3> QED  BY <2>1, <2>3, <3>2, <3>3 DEF Good, Values, Waits
  <2>7. \A j \in Requests : Exists(s, j) => StreamWaits(s, w, j)
    BY <2>4 DEF StreamWaits, Exists
  <2>8. Exists(w, i) /\ OpensBy(w, f, i)
    <3>1. s.initial \in Int /\ w.initial = s.initial
      BY <2>3 DEF Good, Values, Waits
    <3> QED  BY <1>2, <2>1, <2>5, <3>1 DEF OpensBy, Level, Exists
  <2>9. \A j \in Requests : Exists(w, j) /\ ~ Exists(s, j) => j = i
    BY <2>4 DEF Exists
  <2> QED  BY <1>6, <2>1, <2>2, <2>3, <2>6, <2>7, <2>8, <2>9 DEF Picks
<1> QED  BY <1>1, <1>7, <1>8

LEMMA SamePicks ==
  ASSUME NEW s, Good(s), s.aob = NoFrame, NEW f,
         f.type \in {"rst", "ack"} => Ending(s) /\ ~ GoesOn(s)
  PROVE  Picks(s, s, f)
BY NoFrameIs DEF Picks, Good, Waits, StreamWaits

LEMMA SendsPicks ==
  ASSUME NEW s, Good(s), NEW f, f.type \notin {"headers", "data", "none"}
  PROVE  Picks(s, Sends(s, f), f)
<1> DEFINE t == Sends(s, f)
<1>1. t.aob = f /\ t.streams = s.streams /\ t.left = s.left /\ Waits(s, t) /\ f # NoFrame
  BY NoFrameIs DEF Sends, Waits, Good, Books, HasStreams, SessionFields
<1> HIDE DEF t
<1>2. Values(t)
  BY <1>1 DEF Good, Values, Waits, Exists
<1>3. Picks(s, t, f)
  BY <1>1, <1>2 DEF Picks, StreamWaits, Exists
<1> QED  BY <1>3 DEF t

LEMMA PrepPicks ==
  ASSUME NEW s0, Good(s0), s0.aob = NoFrame, NEW f, Sayable(f), f.type # "none",
         f.type = "headers" => f.id \in Requests /\ ~ Exists(s0, f.id),
         f.type = "data" => s0.streams[f.id].item # "none"
  PROVE  Picks(s0, Prep(s0, f), f)
<1> DEFINE t == [s0 EXCEPT !.acks = @ - 1]
           s == IF f.type \in {"ack", "pong"} THEN t ELSE s0
<1>1. Prep(s0, f) = CASE f.type = "data"    -> PrepData(s, f.id)
                      [] f.type = "headers" -> PrepRequest(s, f)
                      [] f.type = "window"  -> PrepUpdate(s, f)
                      [] f.type \in {"rst", "ack"} -> IF Closing(s) THEN s ELSE Sends(s, f)
                      [] f.type = "pong"    -> IF "TERM_ON_SEND" \in s.goaway THEN s ELSE Sends(s, f)
                      [] OTHER              -> Sends(s, f)
  BY DEF Prep
<1>2. /\ SameStreams(s0, t) /\ t.recvd = s0.recvd /\ t.reg = s0.reg /\ t.aob = s0.aob
      /\ Waits(s0, t) /\ t.left = s0.left
  BY DEF SameStreams, Waits, Good, Books, HasStreams, SessionFields
<1> HIDE DEF t
<1>3. Goes(s0, t, 0)
  BY <1>2, SameIsSimilar, SimilarStays DEF Good
<1>4. Good(t)
  <2>1. Values(t)
    BY <1>2 DEF Good, Values, Waits, SameStreams, Exists
  <2> QED  BY <1>3, <2>1 DEF Goes, Good
<1>5. /\ Good(s) /\ s.aob = NoFrame /\ s.streams = s0.streams /\ Waits(s0, s)
      /\ f.type \notin {"ack", "pong"} => s = s0
  BY <1>2, <1>4 DEF SameStreams, Waits
<1> HIDE DEF s
<1>6. f.type \in {"rst", "ack"} /\ Closing(s) => Ending(s) /\ ~ GoesOn(s)
  BY <1>5, ClosingEnds DEF Good
<1>7. Picks(s, Prep(s0, f), f)
  <2>1. CASE f.type = "data"
    <3>1. f.id \in Ids
      BY <2>1 DEF Sayable
    <3> QED  BY <1>1, <1>5, <2>1, <3>1, PrepDataPicks
  <2>2. CASE f.type = "headers"
    BY <1>1, <1>5, <2>2, PrepRequestPicks
  <2>3. CASE f.type \notin {"data", "headers"}
    <3>1. Picks(s, Sends(s, f), f)
      BY <1>5, <2>3, SendsPicks
    <3>2. (f.type \in {"rst", "ack"} => Closing(s)) => Picks(s, s, f)
      BY <1>5, <1>6, SamePicks
    <3>3. \/ Prep(s0, f) = Sends(s, f)
          \/ Prep(s0, f) = s /\ (f.type \in {"rst", "ack"} => Closing(s))
      BY <1>1, <2>3 DEF PrepUpdate
    <3> QED  BY <3>1, <3>2, <3>3
  <2> QED  BY <2>1, <2>2, <2>3
<1> PICK u : u = Prep(s0, f)
  OBVIOUS
<1>8. \A i : Exists(s, i) <=> Exists(s0, i)
  BY <1>5 DEF Exists
<1>9. GoesOn(s) <=> GoesOn(s0)
  BY <1>5, <1>8 DEF GoesOn, Waits
<1>10. Lives(s) <=> Lives(s0)
  BY <1>5, <1>8 DEF Lives, Waits, Opened
<1>11. Picks(s0, u, f)
  <2>1. Picks(s, u, f)
    BY <1>7
  <2>2. Waits(s0, u) /\ (Ending(s) <=> Ending(s0))
    BY <1>5, <2>1 DEF Waits, Picks, Ending
  <2>3. \A i \in Requests : Exists(s0, i) => StreamWaits(s0, u, i)
    BY <1>5, <1>8, <2>1 DEF Picks, StreamWaits
  <2>4. u.aob.type = "data" => Fits(s0, u.aob)
    BY <1>5, <1>8, <1>10, <2>1 DEF Picks, Fits, Waits
  <2>5. u.aob.type = "headers" =>
          /\ u.aob = f /\ Exists(u, f.id)
          /\ s0.goaway \cap {"TERM_ON_SEND", "TERM_SENT", "RECV"} = {}
    BY <1>5, <2>1 DEF Picks, Waits
  <2> QED  BY <1>8, <1>9, <2>1, <2>2, <2>3, <2>4, <2>5 DEF Picks
<1> QED  BY <1>11

-----------------------------------------------------------------------------
(* The invariant: client and server agree on what may be sent              *)

\* SETTINGS that have not been acknowledged by the client, of those the server has sent
Unanswered(s) == Acks(s.urgent) + Ack(s.aob)

Allowed(x) == x.limit \in Int /\ x.initial \in Int /\ x.initial <= MaxWindow

ServerValues ==
  /\ server.window \in Int /\ Allowed(server)
  /\ DOMAIN server.windows = Ids /\ \A i \in Ids : server.windows[i] \in Int
  /\ IsSequence(server.pending) /\ \A k \in DOMAIN server.pending : Allowed(server.pending[k])
  /\ server.mode = "starting" => server.pending = <<>>

\* A request the server has and the client has not given up
Current(i) == server.phase[i] \notin {"idle", "reset"}

\* What the client believes it may send, with what is on its way, is no more than what the
\* server has allowed.
Room ==
  /\ c.window + Gains(down, 0) <= server.window
  /\ \A i \in Requests : Exists(c, i) /\ Current(i) =>
       Level(c, i) + Gains(down, i) <= server.windows[i] - server.initial

\* The server says that it ends a stream only after it has ended it.
Says(f) ==
  /\ Told(f)
  /\ \A i \in Requests : f.id = i /\ f.type # "goaway" =>
       /\ server.phase[i] # "idle"
       /\ EndOf(f) => server.phase[i] \in {"ended", "reset"}
       /\ f.type = "rst" => server.phase[i] = "reset"

Saying == IsSequence(down) /\ \A k \in DOMAIN down : Says(down[k])

Untold == \A i \in Requests : Unsent(c, i) => server.phase[i] = "idle" /\ ~ Resets(c, i)

\* Of the SETTINGS P that wait, the first g[k] have been taken by the client when it has
\* taken k of the frames d.
Numbered(g, d, P) ==
  /\ g \in [0 .. Len(d) -> Nat] /\ g[Len(d)] = Len(P)
  /\ \A j, k \in 0 .. Len(d) : j <= k => g[j] <= g[k]
  /\ \A k \in 1 .. Len(d) :
       IF d[k].type = "settings" THEN g[k] = g[k - 1] + 1 /\ d[k] = SettingsFrame(P[g[k]])
       ELSE g[k] = g[k - 1]

\* The session s has answers to no more than the first n.
HasAnswers(s, n) == Unanswered(s) \in Nat /\ Unanswered(s) <= n

\* While it goes on it has answers to just these, and keeps to the last.
Obeys(s, n, v) ==
  GoesOn(s) =>
    /\ n = Unanswered(s)
    /\ s.limit = IF n = 0 THEN v.limit ELSE v.pending[n].limit
    /\ s.initial = IF n = 0 THEN v.initial ELSE v.pending[n].initial

Places(g) ==
  /\ Numbered(g, down, server.pending) /\ HasAnswers(c, g[0])
  /\ turn # "failed" => Obeys(c, g[0], server)

Crossing == \E g : Places(g)

\* What is on its way out the server has allowed.
Sending(f) ==
  /\ Outgoing(f)
  /\ f.type = "data" =>
       f.n <= server.window /\ (Current(f.id) => f.n <= server.windows[f.id])
  /\ f.type = "headers" =>
       /\ Exists(c, f.id) => Level(c, f.id) <= 0
       /\ ~ Ending(c) => Exists(c, f.id)
       /\ Cardinality(Concurrent(server)) < server.limit

\* Who does not read does not go on.
Deaf == c.ignoring => ~ Lives(c)

\* The client has each stream that counts for the server, or is about to reset it.
HeldStream(i) ==
  /\ i \in Concurrent(server) => Exists(c, i) \/ Resets(c, i)
  /\ Exists(c, i) =>
       /\ c.streams[i].state = "CLOSING" => Resets(c, i)
       /\ "RD" \in c.streams[i].shut => Resets(c, i) \/ server.phase[i] \in {"ended", "reset"}

Held == ~ Ending(c) => \A i \in Requests : HeldStream(i)

Halves == \A i \in Requests : Exists(c, i) /\ "WR" \in c.streams[i].shut => i \in server.done

Limits ==
  /\ Values(c) /\ ServerValues /\ Room /\ Saying /\ Untold /\ Crossing /\ Sending(c.aob) /\ Deaf
  /\ Held /\ Halves /\ LimitsKept

LEMMA UnansweredNat ==
  ASSUME NEW s, IsSequence(s.urgent)
  PROVE  Unanswered(s) \in Nat /\ Acks(s.urgent) \in Nat /\ Ack(s.aob) \in {0, 1}
BY AcksNat DEF Unanswered, Ack

-----------------------------------------------------------------------------
(* The next frame is taken and prepared                                    *)

Pops(s, p, f) ==
  /\ Good(p) /\ p.aob = NoFrame /\ p.streams = s.streams /\ p.left = s.left
  /\ p.window = s.window /\ p.limit = s.limit /\ p.initial = s.initial
  /\ p.goaway = s.goaway /\ p.ignoring = s.ignoring
  /\ Acks(p.urgent) + Ack(f) = Unanswered(s) /\ Acks(p.urgent) \in Nat
  /\ \A i : Resets(s, i) <=> Resets(p, i) \/ IsRst(f, i)
  /\ f.type # "none"
  /\ f.type = "data" => s.urgent = <<>> /\ s.streams[f.id].item # "none"
  /\ f.type = "headers" => s.urgent = <<>> /\ s.reg = <<>> /\ ~ Full(s) /\ Unsent(s, f.id)

LEMMA PopPops ==
  ASSUME IInv, Ledger, Values(c), c.aob = NoFrame, NEW f \in NextItems(c)
  PROVE  Pops(c, Popped(c, f), f)
<1> DEFINE p == Popped(c, f)
<1>0. /\ Books(c) /\ HasStreams(c) /\ InLine(c) /\ IsSequence(c.urgent) /\ Regular(c.reg)
      /\ Good(c)
  BY DEF IInv, Ledger, Books, HasStreams, Quiet, Values, Good
<1>1. Books(p)
  BY PopKeeps
<1>2. Ack(c.aob) = 0 /\ \A i : ~ IsRst(c.aob, i)
  BY NoFrameIs DEF IsRst
<1>3. Acks(c.urgent) \in Nat /\ Unanswered(c) = Acks(c.urgent)
  BY <1>0, <1>2, AcksNat DEF Unanswered
<1>4. CASE c.urgent # <<>>
  <2>1. f = Head(c.urgent) /\ p = [c EXCEPT !.urgent = Tail(@)]
    BY <1>4 DEF NextItems, Popped
  <2>2. /\ p.aob = NoFrame /\ p.streams = c.streams /\ p.left = c.left
        /\ p.window = c.window /\ p.limit = c.limit /\ p.initial = c.initial
        /\ p.goaway = c.goaway /\ p.ignoring = c.ignoring /\ p.urgent = Tail(c.urgent)
        /\ p.reg = c.reg
    BY <1>0, <2>1 DEF HasStreams, SessionFields
  <2> HIDE DEF p
  <2>3. Quiet(Tail(c.urgent)) /\ f.type \in {"settings", "ack", "pong"}
    BY <1>0, <1>4, <2>1, TailIs DEF HasStreams, Quiet
  <2>4. Acks(p.urgent) + Ack(f) = Acks(c.urgent) /\ Acks(p.urgent) \in Nat
    <3>1. /\ Acks(Tail(c.urgent)) \in Int
          /\ Acks(c.urgent) = Ack(Head(c.urgent)) + Acks(Tail(c.urgent))
      BY <1>0, <1>4, AcksTail
    <3>2. Acks(Tail(c.urgent)) \in Nat
      BY <2>3, AcksNat DEF Quiet
    <3>3. Ack(f) \in Int
      BY DEF Ack
    <3> QED  BY <2>1, <2>2, <3>1, <3>2, <3>3
  <2>5. \A i : Resets(c, i) <=> Resets(p, i) \/ IsRst(f, i)
    BY <1>2, <2>2, <2>3 DEF Resets, IsRst
  <2>6. Good(p)
    BY <1>0, <1>1, <2>2 DEF Good, Values, Exists, p
  <2>7. f.type \notin {"none", "data", "headers"}
    BY <2>3
  <2>8. Acks(p.urgent) + Ack(f) = Unanswered(c)
    BY <1>3, <2>4
  <2>9. Pops(c, p, f)
    BY <2>2, <2>4, <2>5, <2>6, <2>7, <2>8 DEF Pops
  <2> QED  BY <2>9 DEF p
<1>5. CASE c.urgent = <<>> /\ c.reg # <<>>
  <2>1. f = Head(c.reg) /\ p = [c EXCEPT !.reg = Tail(@)]
    BY <1>5 DEF NextItems, Popped
  <2>2. /\ p.aob = NoFrame /\ p.streams = c.streams /\ p.left = c.left
        /\ p.window = c.window /\ p.limit = c.limit /\ p.initial = c.initial
        /\ p.goaway = c.goaway /\ p.ignoring = c.ignoring /\ p.urgent = c.urgent
        /\ p.reg = Tail(c.reg)
    BY <1>0, <2>1 DEF HasStreams, SessionFields
  <2> HIDE DEF p
  <2>3. /\ IsSequence(Tail(c.reg)) /\ Len(c.reg) \in Nat \ {0}
        /\ DOMAIN Tail(c.reg) = 1 .. Len(c.reg) - 1
        /\ \A k \in 1 .. Len(c.reg) - 1 : Tail(c.reg)[k] = c.reg[k + 1] /\ k + 1 \in DOMAIN c.reg
        /\ f = c.reg[1] /\ 1 \in DOMAIN c.reg /\ DOMAIN c.reg = 1 .. Len(c.reg)
    BY <1>0, <1>5, <2>1, TailIs, SequenceFacts DEF Regular
  <2>4. f.type \in {"rst", "goaway", "window"} /\ Regular(Tail(c.reg))
    BY <1>0, <2>3 DEF Regular
  <2>5. \A i : Resets(c, i) <=> Resets(p, i) \/ IsRst(f, i)
    <3> SUFFICES ASSUME NEW i PROVE Resets(c, i) <=> Resets(p, i) \/ IsRst(f, i)
      OBVIOUS
    <3>1. ASSUME NEW k \in DOMAIN c.reg, IsRst(c.reg[k], i) PROVE Resets(p, i) \/ IsRst(f, i)
      <4>1. CASE k = 1
        BY <2>3, <3>1, <4>1
      <4>2. CASE k # 1
        <5>1. k - 1 \in 1 .. Len(c.reg) - 1 /\ (k - 1) + 1 = k
          BY <2>3, <4>2
        <5>2. k - 1 \in DOMAIN p.reg /\ p.reg[k - 1] = c.reg[k]
          BY <2>2, <2>3, <5>1
        <5> QED  BY <3>1, <5>2 DEF Resets
      <4> QED  BY <4>1, <4>2
    <3>2. ASSUME NEW k \in DOMAIN p.reg, IsRst(p.reg[k], i) PROVE Resets(c, i)
      <4>1. k + 1 \in DOMAIN c.reg /\ p.reg[k] = c.reg[k + 1]
        BY <2>2, <2>3
      <4> QED  BY <3>2, <4>1 DEF Resets
    <3> QED  BY <1>2, <2>2, <2>3, <3>1, <3>2 DEF Resets
  <2>6. Good(p)
    BY <1>0, <1>1, <2>2, <2>4 DEF Good, Values, Exists, p
  <2>7. Ack(f) = 0 /\ f.type \notin {"none", "data", "headers"}
    BY <2>4 DEF Ack
  <2>8. Acks(p.urgent) + Ack(f) = Unanswered(c) /\ Acks(p.urgent) \in Nat
    BY <1>3, <2>2, <2>7
  <2>9. Pops(c, p, f)
    BY <2>2, <2>5, <2>6, <2>7, <2>8 DEF Pops
  <2> QED  BY <2>9 DEF p
<1>6. CASE c.urgent = <<>> /\ c.reg = <<>>
  <2>1. \/ c.syn # <<>> /\ ~ Full(c) /\ f = Head(c.syn)
        \/ f \in {Frame("data", i) : i \in Ready(c)}
    BY <1>6 DEF NextItems
  <2>2. CASE c.syn # <<>> /\ ~ Full(c) /\ f = Head(c.syn)
    <3>1. f.type = "headers" /\ Unsent(c, f.id)
      BY <1>0, <2>2, TailIs DEF InLine, Unsent
    <3>2. p = [c EXCEPT !.syn = Tail(@)]
      BY <1>6, <3>1 DEF Popped
    <3>3. /\ p.aob = NoFrame /\ p.streams = c.streams /\ p.left = c.left
          /\ p.window = c.window /\ p.limit = c.limit /\ p.initial = c.initial
          /\ p.goaway = c.goaway /\ p.ignoring = c.ignoring /\ p.urgent = c.urgent
          /\ p.reg = c.reg
      BY <1>0, <3>2 DEF HasStreams, SessionFields
    <3> HIDE DEF p
    <3>4. Ack(f) = 0 /\ \A i : ~ IsRst(f, i)
      BY <3>1 DEF Ack, IsRst
    <3>5. \A i : Resets(c, i) <=> Resets(p, i) \/ IsRst(f, i)
      BY <1>2, <3>3, <3>4 DEF Resets
    <3>6. Good(p)
      BY <1>0, <1>1, <3>3 DEF Good, Values, Exists, p
    <3>7. Acks(p.urgent) + Ack(f) = Unanswered(c) /\ Acks(p.urgent) \in Nat
      BY <1>3, <3>3, <3>4
    <3>8. Pops(c, p, f)
      BY <1>6, <2>2, <3>1, <3>3, <3>5, <3>6, <3>7 DEF Pops
    <3> QED  BY <3>8 DEF p
  <2>3. CASE f \in {Frame("data", i) : i \in Ready(c)}
    <3>1. f.type = "data" /\ c.streams[f.id].item # "none"
      BY <2>3 DEF Frame, Ready
    <3>2. p = c
      BY <1>6, <3>1 DEF Popped
    <3>3. Ack(f) = 0 /\ \A i : ~ IsRst(f, i)
      BY <3>1 DEF Ack, IsRst
    <3>4. Acks(c.urgent) + Ack(f) = Unanswered(c)
      BY <1>3, <3>3
    <3>5. Pops(c, c, f)
      BY <1>0, <1>3, <1>6, <3>1, <3>3, <3>4 DEF Pops
    <3> QED  BY <3>2, <3>5
  <2> QED  BY <2>1, <2>2, <2>3
<1> QED  BY <1>4, <1>5, <1>6

LEMMA GainsNat ==
  ASSUME NEW q, AllWiden(q), NEW i
  PROVE  Gains(q, i) \in Nat
<1> DEFINE a == [k \in DOMAIN q |-> Gain(q[k], i)]
<1>1. Len(q) \in Nat /\ DOMAIN q = 1 .. Len(q)
  BY SequenceFacts DEF AllWiden
<1>2. a \in [1 .. Len(q) -> Nat]
  BY <1>1, GainNat DEF AllWiden
<1>3. a \in Seq(Nat)
  BY <1>1, <1>2
<1> QED  BY <1>3, TotalNat DEF Gains

(***************************************************************************)
(* s becomes t when its next frame, f, is taken and prepared.              *)
(***************************************************************************)
Draws(s, t, f) ==
  /\ Values(t)
  /\ t.window = s.window /\ t.limit = s.limit /\ t.initial = s.initial /\ t.goaway = s.goaway
  /\ t.ignoring = s.ignoring
  /\ t.aob = NoFrame \/ t.aob = f \/ t.aob.type = "data"
  /\ Unanswered(t) \in Nat /\ Unanswered(t) <= Unanswered(s)
  /\ GoesOn(t) => GoesOn(s) /\ Unanswered(t) = Unanswered(s)
  /\ Lives(t) => Lives(s)
  /\ \A i \in Requests : Resets(t, i) => Resets(s, i)
  /\ ~ Ending(s) => \A i \in Requests : Resets(s, i) => Resets(t, i)
  /\ \A i \in Requests : Exists(s, i) => StreamWaits(s, t, i)
  /\ \A i \in Requests : Exists(t, i) /\ ~ Exists(s, i) => OpensBy(t, f, i) /\ Unsent(s, i)
  /\ t.aob.type = "data" => Fits(s, t.aob) /\ s.urgent = <<>>
  /\ t.aob.type = "headers" =>
       /\ t.aob = f /\ Exists(t, f.id) /\ ~ Exists(s, f.id) /\ s.urgent = <<>> /\ s.reg = <<>>
       /\ ~ Full(s) /\ s.goaway \cap {"TERM_ON_SEND", "TERM_SENT", "RECV"} = {}

LEMMA PrepFrameDraws ==
  ASSUME IInv, Ledger, Values(c), c.aob = NoFrame, NEW f \in NextItems(c)
  PROVE  Draws(c, Prep(Popped(c, f), f), f)
<1> PICK p : p = Popped(c, f)
  OBVIOUS
<1> PICK t : t = Prep(p, f)
  OBVIOUS
<1>1. Pops(c, p, f)
  BY PopPops
<1>2. Sayable(f) /\ (f.type = "headers" => f.id \in Requests /\ ~ Exists(c, f.id))
  BY PopKeeps
<1>3. \A i : Exists(p, i) <=> Exists(c, i)
  BY <1>1 DEF Pops, Exists
<1>4. Picks(p, t, f)
  <2>1. f.type = "data" => p.streams[f.id].item # "none"
    BY <1>1 DEF Pops
  <2> QED  BY <1>1, <1>2, <1>3, <2>1, PrepPicks DEF Pops
<1>5. /\ t.window = c.window /\ t.limit = c.limit /\ t.initial = c.initial /\ t.goaway = c.goaway
      /\ t.ignoring = c.ignoring /\ t.reg = p.reg /\ t.urgent = p.urgent
  BY <1>1, <1>4 DEF Pops, Picks, Waits
<1>6. t.aob = NoFrame \/ t.aob = f \/ (f.type = "data" /\ t.aob.type = "data")
  BY <1>4 DEF Picks
<1>7. Ack(NoFrame) = 0 /\ NoFrame.type = "none"
  BY NoFrameIs
<1>8. (GoesOn(p) <=> GoesOn(c)) /\ (Lives(p) <=> Lives(c)) /\ (Ending(p) <=> Ending(c))
  BY <1>1, <1>3 DEF Pops, GoesOn, Lives, Ending, Opened
<1>9. "RECV" \in c.goaway => \A i \in Requests : Exists(t, i) => Exists(c, i)
  <2>1. ASSUME "RECV" \in c.goaway, NEW i \in Requests, Exists(t, i), ~ Exists(c, i) PROVE FALSE
    <3>1. OpensBy(t, f, i)
      BY <1>3, <1>4, <2>1 DEF Picks
    <3>2. "RECV" \notin p.goaway
      BY <1>4, <3>1 DEF Picks, OpensBy
    <3> QED  BY <1>1, <2>1, <3>2 DEF Pops
  <2> QED  BY <2>1
<1>10. (GoesOn(t) => GoesOn(c)) /\ (Lives(t) => Lives(c))
  BY <1>5, <1>9 DEF GoesOn, Lives, Opened
<1>11. /\ Unanswered(t) \in Nat /\ Unanswered(t) <= Unanswered(c)
       /\ GoesOn(t) => Unanswered(t) = Unanswered(c)
  <2>1. /\ Unanswered(t) = Acks(p.urgent) + Ack(t.aob) /\ Acks(p.urgent) \in Nat
        /\ Unanswered(c) = Acks(p.urgent) + Ack(f)
    BY <1>1, <1>5 DEF Pops, Unanswered
  <2>2. Ack(f) \in {0, 1} /\ Ack(t.aob) \in {0, 1}
    BY DEF Ack
  <2>3. Ack(t.aob) = 0 \/ Ack(t.aob) = Ack(f)
    BY <1>6, <1>7 DEF Ack
  <2>4. ASSUME GoesOn(t) PROVE Ack(t.aob) = Ack(f)
    <3>1. GoesOn(p)
      BY <1>8, <1>10, <2>4
    <3>2. t.aob = NoFrame => f.type # "ack"
      BY <1>4, <3>1 DEF Picks
    <3> QED  BY <1>6, <1>7, <3>2 DEF Ack
  <2> QED  BY <2>1, <2>2, <2>3, <2>4
<1>12. \A i \in Requests : Resets(t, i) => Resets(c, i)
  <2>1. \A i : IsRst(t.aob, i) => IsRst(f, i)
    BY <1>6, <1>7 DEF IsRst
  <2> QED  BY <1>1, <1>5, <2>1 DEF Pops, Resets
<1>13. ~ Ending(c) => \A i \in Requests : Resets(c, i) => Resets(t, i)
  <2>1. ASSUME ~ Ending(c), NEW i, IsRst(f, i) PROVE IsRst(t.aob, i)
    BY <1>4, <1>6, <1>8, <2>1 DEF Picks, IsRst
  <2>2. \A i : ~ IsRst(p.aob, i)
    BY <1>1, <1>7 DEF Pops, IsRst
  <2> QED  BY <1>1, <1>5, <2>1, <2>2 DEF Pops, Resets
<1>14. \A i \in Requests : Exists(c, i) => StreamWaits(c, t, i)
  BY <1>1, <1>3, <1>4 DEF Pops, Picks, StreamWaits
<1>15. \A i \in Requests : Exists(t, i) /\ ~ Exists(c, i) => OpensBy(t, f, i) /\ Unsent(c, i)
  <2>1. \A i \in Requests : Exists(t, i) /\ ~ Exists(c, i) => OpensBy(t, f, i)
    BY <1>3, <1>4 DEF Picks
  <2> QED  BY <1>1, <2>1 DEF Pops, OpensBy
<1>16. t.aob.type = "data" => Fits(c, t.aob) /\ c.urgent = <<>>
  <2>1. ASSUME t.aob.type = "data" PROVE f.type = "data"
    BY <1>6, <1>7, <2>1
  <2>2. t.aob.type = "data" => Fits(p, t.aob)
    BY <1>4 DEF Picks
  <2> QED  BY <1>1, <1>3, <1>8, <2>1, <2>2 DEF Pops, Fits
<1>17. t.aob.type = "headers" =>
       /\ t.aob = f /\ Exists(t, f.id) /\ ~ Exists(c, f.id) /\ c.urgent = <<>> /\ c.reg = <<>>
       /\ ~ Full(c) /\ c.goaway \cap {"TERM_ON_SEND", "TERM_SENT", "RECV"} = {}
  BY <1>1, <1>2, <1>4 DEF Pops, Picks
<1>18. Values(t)
  BY <1>4 DEF Picks
<1>19. Draws(c, t, f)
  BY <1>5, <1>6, <1>10, <1>11, <1>12, <1>13, <1>14, <1>15, <1>16, <1>17, <1>18 DEF Draws
<1> QED  BY <1>19

LEMMA WhoLives ==
  ASSUME Deaf, Lives(c)
  PROVE  GoesOn(c)
BY DEF Deaf, Lives, GoesOn, Opened

LEMMA InForce ==
  ASSUME Crossing, GoesOn(c), turn # "failed", Unanswered(c) = 0
  PROVE  c.limit = server.limit /\ c.initial = server.initial
BY DEF Crossing, Places, Obeys

LEMMA SayingWidens ==
  ASSUME Saying
  PROVE  AllWiden(down) /\ \A i : Gains(down, i) \in Nat
<1>1. AllWiden(down)
  BY DEF Saying, Says, Told, AllWiden
<1> QED  BY <1>1, GainsNat

\* The data that are prepared fit in the windows of the server.
LEMMA DataAllowed ==
  ASSUME Limits, Ledger, turn # "failed", c.aob = NoFrame, c.urgent = <<>>, NEW g, Fits(c, g)
  PROVE  g.n <= server.window /\ (Current(g.id) => g.n <= server.windows[g.id])
<1> DEFINE i == g.id
<1>0. /\ Values(c) /\ ServerValues /\ Room /\ Crossing /\ Deaf /\ MaxWindow \in Nat
      /\ i \in Requests /\ i \in Ids
  BY SessionAssumed DEF Limits, SessionAssumption, Fits, Ids
<1>1. Gains(down, 0) \in Nat /\ Gains(down, i) \in Nat
  BY SayingWidens DEF Limits
<1>2. GoesOn(c)
  BY <1>0, WhoLives DEF Fits
<1>3. Unanswered(c) = 0
  <2>1. Acks(<<>>) = 0
    BY TotalEmpty DEF Acks
  <2> QED  BY <2>1, NoFrameIs DEF Unanswered
<1>4. c.initial = server.initial
  BY <1>0, <1>2, <1>3, InForce
<1>5. c.window \in Int /\ server.window \in Int /\ g.n \in Nat
  BY <1>0 DEF Values, ServerValues, Fits
<1>6. g.n <= server.window
  <2>1. c.window + Gains(down, 0) <= server.window /\ g.n <= c.window
    BY <1>0 DEF Room, Fits
  <2> QED  BY <1>1, <1>5, <2>1
<1>7. ASSUME Current(i) PROVE g.n <= server.windows[i]
  <2>1. /\ server.windows[i] \in Int /\ c.streams[i].window \in Int /\ server.initial \in Int
    BY <1>0 DEF Values, ServerValues, Allowed
  <2>2. Level(c, i) + Gains(down, i) <= server.windows[i] - server.initial
    BY <1>0, <1>7 DEF Room, Fits
  <2>3. g.n <= c.streams[i].window /\ Level(c, i) = c.streams[i].window - server.initial
    BY <1>4 DEF Fits, Level
  <2> QED  BY <1>1, <1>5, <2>1, <2>2, <2>3
<1> QED  BY <1>6, <1>7

\* A request is prepared only when the server takes one more.
LEMMA RequestAllowed ==
  ASSUME Limits, Ledger, turn # "failed", c.aob = NoFrame, c.urgent = <<>>, c.reg = <<>>,
         ~ Full(c), c.goaway \cap {"TERM_ON_SEND", "TERM_SENT", "RECV"} = {}
  PROVE  Cardinality(Concurrent(server)) < server.limit
<1>0. /\ Values(c) /\ ServerValues /\ Crossing /\ Deaf /\ Held /\ Books(c)
  BY DEF Limits, Ledger
<1>1. ~ Ending(c) /\ GoesOn(c)
  <2>1. Lives(c)
    BY DEF Lives
  <2>2. "SENT" \notin c.goaway
    BY <1>0 DEF Books
  <2> QED  BY <1>0, <2>1, <2>2, WhoLives DEF Ending
<1>2. Unanswered(c) = 0
  <2>1. Acks(<<>>) = 0
    BY TotalEmpty DEF Acks
  <2> QED  BY <2>1, NoFrameIs DEF Unanswered
<1>3. c.limit = server.limit
  BY <1>0, <1>1, <1>2, InForce
<1>4. \A i : ~ Resets(c, i)
  BY NoFrameIs DEF Resets, IsRst
<1>5. Concurrent(server) \subseteq Opened(c)
  BY <1>0, <1>1, <1>4 DEF Held, HeldStream, Concurrent, Opened
<1>6. Opened(c) \subseteq Ids /\ IsFiniteSet(Opened(c))
  BY IdsAreFinite DEF Opened, Ids
<1>7. /\ Cardinality(Concurrent(server)) <= Cardinality(Opened(c))
      /\ Cardinality(Concurrent(server)) \in Nat /\ Cardinality(Opened(c)) \in Nat
  BY <1>5, <1>6, FS_Subset, FS_CardinalityType
<1>8. c.out = Cardinality(Opened(c)) /\ c.limit \in Int
  BY <1>0 DEF Books, Values
<1>9. ~ (c.limit <= Cardinality(Opened(c)))
  BY <1>8 DEF Full
<1> HIDE DEF Full
<1> QED  BY <1>3, <1>7, <1>8, <1>9

LEMMA FewerUnsent ==
  ASSUME IInv, PrepFrame
  PROVE  \A i \in Requests : Unsent(c', i) => Unsent(c, i)
<1>1. PICK f \in NextItems(c) : c' = Prep(Popped(c, f), f)
  BY DEF PrepFrame
<1> PICK s : s = Popped(c, f)
  OBVIOUS
<1>2. /\ Shape(s) /\ s.aob = NoFrame
      /\ \/ f.type # "headers" /\ s.syn = c.syn
         \/ c.syn # <<>> /\ f = Head(c.syn) /\ s.syn = Tail(c.syn)
  BY <1>1, NextItem DEF IInv, PrepFrame
<1>3. c'.syn = s.syn /\ (c'.aob.type = "headers" => c'.aob = f)
  BY <1>1, <1>2, PrepReadies DEF Readied
<1>4. CASE f.type # "headers" /\ s.syn = c.syn
  BY <1>3, <1>4 DEF Unsent
<1>5. CASE c.syn # <<>> /\ f = Head(c.syn) /\ s.syn = Tail(c.syn)
  <2>1. /\ DOMAIN Tail(c.syn) = 1 .. Len(c.syn) - 1
        /\ \A k \in 1 .. Len(c.syn) - 1 : Tail(c.syn)[k] = c.syn[k + 1] /\ k + 1 \in DOMAIN c.syn
        /\ f = c.syn[1] /\ 1 \in DOMAIN c.syn
    BY <1>5, TailIs DEF IInv, InLine
  <2> QED  BY <1>3, <1>5, <2>1 DEF Unsent
<1> QED  BY <1>2, <1>4, <1>5

LEMMA PrepFrameLimits == ASSUME IInv, Ledger, Limits, PrepFrame PROVE Limits'
<1>0. /\ Values(c) /\ ServerValues /\ Room /\ Saying /\ Untold /\ Crossing /\ Deaf /\ Held /\ Halves
      /\ LimitsKept
  BY DEF Limits
<1>1. PICK f \in NextItems(c) : c' = Prep(Popped(c, f), f)
  BY DEF PrepFrame
<1>2. c.aob = NoFrame /\ server' = server /\ down' = down /\ turn' = turn /\ turn # "failed"
  BY DEF PrepFrame
<1>3. Draws(c, c', f)
  BY <1>0, <1>1, <1>2, PrepFrameDraws
<1>4. \A i \in Requests : Unsent(c', i) => Unsent(c, i)
  BY FewerUnsent
<1>5. \A i \in Requests : Exists(c', i) /\ ~ Exists(c, i) => server.phase[i] = "idle"
  BY <1>0, <1>3 DEF Draws, Untold
<1>6. Values(c)' /\ ServerValues' /\ Saying' /\ LimitsKept'
  <2>1. Values(c')
    BY <1>3 DEF Draws
  <2> QED  BY <1>0, <1>2, <2>1 DEF Values, Exists, Regular, IsSequence, ServerValues, Saying, Says,
                                   Allowed, LimitsKept
<1>7. Room'
  <2>1. ASSUME NEW i \in Requests, Exists(c', i), Current(i)
        PROVE  Level(c', i) + Gains(down, i) <= server.windows[i] - server.initial
    <3>1. Exists(c, i)
      BY <1>5, <2>1 DEF Current
    <3>2. Level(c', i) = Level(c, i)
      BY <1>3, <3>1 DEF Draws, StreamWaits, Level
    <3> QED  BY <1>0, <2>1, <3>1, <3>2 DEF Room
  <2>2. c'.window + Gains(down, 0) <= server.window
    BY <1>0, <1>3 DEF Room, Draws
  <2> QED  BY <1>2, <2>1, <2>2 DEF Room, Level, Exists, Gains, Current
<1>8. Untold'
  <2>1. \A i \in Requests : Unsent(c', i) => server.phase[i] = "idle" /\ ~ Resets(c', i)
    BY <1>0, <1>3, <1>4 DEF Untold, Draws
  <2> QED  BY <1>2, <2>1 DEF Untold, Unsent, Resets
<1>9. Crossing'
  <2>1. PICK g : Places(g)
    BY <1>0 DEF Crossing
  <2>2. g[0] \in Nat
    <3>1. Len(down) \in Nat
      BY <1>0, SequenceFacts DEF Saying
    <3> QED  BY <2>1, <3>1 DEF Places, Numbered
  <2>3. HasAnswers(c', g[0])
    BY <1>3, <2>1, <2>2 DEF Draws, Places, HasAnswers
  <2>4. turn # "failed" => Obeys(c', g[0], server)
    BY <1>3, <2>1 DEF Draws, Places, Obeys
  <2> QED  BY <1>2, <2>1, <2>3, <2>4 DEF Crossing, Places
<1>10. Sending(c.aob)'
  <2>1. Outgoing(c'.aob)
    <3>1. Sayable(c'.aob)
      BY PrepFrameBalances DEF Ledger
    <3>2. c'.aob.type = "headers" => c'.aob.id \in Requests
      BY PrepFrameKeeps DEF IInv, InLine
    <3> QED  BY <1>3, <3>1, <3>2 DEF Outgoing, Draws, Fits
  <2>2. c'.aob.type = "data" =>
          /\ c'.aob.n <= server.window
          /\ Current(c'.aob.id) => c'.aob.n <= server.windows[c'.aob.id]
    BY <1>2, <1>3, DataAllowed DEF Draws
  <2>3. ASSUME c'.aob.type = "headers"
        PROVE  /\ Exists(c', c'.aob.id) => Level(c', c'.aob.id) <= 0
               /\ ~ Ending(c') => Exists(c', c'.aob.id)
               /\ Cardinality(Concurrent(server)) < server.limit
    <3>1. Cardinality(Concurrent(server)) < server.limit
      BY <1>2, <1>3, <2>3, RequestAllowed DEF Draws
    <3>2. c'.aob.id \in Requests
      BY <2>1, <2>3 DEF Outgoing
    <3>3. Exists(c', c'.aob.id) /\ Level(c', c'.aob.id) = 0
      BY <1>3, <2>3, <3>2 DEF Draws, OpensBy
    <3> QED  BY <3>1, <3>3
  <2> QED  BY <1>2, <2>1, <2>2, <2>3
           DEF Sending, Outgoing, Sayable, Exists, Level, Ending, Concurrent, Current
<1>11. Deaf'
  <2>1. c'.ignoring => ~ Lives(c')
    BY <1>0, <1>3 DEF Deaf, Draws
  <2> QED  BY <2>1 DEF Deaf, Lives, Opened, Exists
<1>12. Held'
  <2>1. ASSUME ~ Ending(c') PROVE ~ Ending(c)
    BY <1>3, <2>1 DEF Draws, Ending
  <2>2. ASSUME ~ Ending(c), NEW i \in Requests
        PROVE  /\ i \in Concurrent(server) => Exists(c', i) \/ Resets(c', i)
               /\ Exists(c', i) =>
                    /\ c'.streams[i].state = "CLOSING" => Resets(c', i)
                    /\ "RD" \in c'.streams[i].shut =>
                         Resets(c', i) \/ server.phase[i] \in {"ended", "reset"}
    <3>1. HeldStream(i) /\ (Resets(c, i) => Resets(c', i))
      BY <1>0, <1>3, <2>2 DEF Held, Draws
    <3>2. CASE Exists(c, i)
      <4>1. StreamWaits(c, c', i)
        BY <1>3, <3>2 DEF Draws
      <4>2. Exists(c', i)
        BY <3>2, <4>1 DEF StreamWaits, Exists
      <4> QED  BY <3>1, <3>2, <4>1, <4>2 DEF HeldStream, StreamWaits
    <3>3. CASE ~ Exists(c, i)
      <4>1. Exists(c', i) => OpensBy(c', f, i)
        BY <1>3, <3>3 DEF Draws
      <4> QED  BY <3>1, <3>3, <4>1 DEF HeldStream, OpensBy
    <3> QED  BY <3>2, <3>3
  <2> QED  BY <1>2, <2>1, <2>2 DEF Held, HeldStream, Ending, Exists, Resets, Concurrent
<1>13. Halves'
  <2>1. \A i \in Requests : Exists(c', i) /\ "WR" \in c'.streams[i].shut => i \in server.done
    <3> SUFFICES ASSUME NEW i \in Requests, Exists(c', i), "WR" \in c'.streams[i].shut
                 PROVE  i \in server.done
      OBVIOUS
    <3>1. CASE Exists(c, i)
      BY <1>0, <1>3, <3>1 DEF Draws, StreamWaits, Halves
    <3>2. CASE ~ Exists(c, i)
      BY <1>3, <3>2 DEF Draws, OpensBy
    <3> QED  BY <3>1, <3>2
  <2> QED  BY <1>2, <2>1 DEF Halves, Exists
<1> QED  BY <1>6, <1>7, <1>8, <1>9, <1>10, <1>11, <1>12, <1>13 DEF Limits

\* The units of f for stream i
Units(f, i) == IF f.type = "data" /\ f.id = i THEN f.n ELSE 0

EndsData(f, i) == f.type = "data" /\ f.id = i /\ f.end

StreamWrites(s, t, f, i) ==
  /\ Resets(s, i) => Resets(t, i) \/ IsRst(f, i)
  /\ Resets(t, i) => Resets(s, i) \/ Exists(s, i)
  /\ Exists(s, i) /\ ~ Exists(t, i) =>
       Ending(t) \/ IsRst(f, i) \/ (EndsData(f, i) /\ "RD" \in s.streams[i].shut)
  /\ Exists(t, i) =>
       /\ Exists(s, i) /\ ~ IsRst(f, i)
       /\ Level(t, i) <= Level(s, i) - Units(f, i)
       /\ "WR" \in t.streams[i].shut => "WR" \in s.streams[i].shut \/ EndsData(f, i)
       /\ "RD" \in t.streams[i].shut => "RD" \in s.streams[i].shut \/ Resets(t, i)
       /\ t.streams[i].state = "CLOSING" => s.streams[i].state = "CLOSING" \/ Resets(t, i)

(***************************************************************************)
(* s becomes t when f has been written.                                    *)
(***************************************************************************)
Writes(s, t, f) ==
  /\ Values(t) /\ t.aob = NoFrame
  /\ t.window <= s.window - DataIn(f)
  /\ t.limit = s.limit /\ t.initial = s.initial
  /\ Unanswered(t) \in Nat /\ Unanswered(t) + Ack(f) = Unanswered(s)
  /\ GoesOn(t) => GoesOn(s)
  /\ Lives(t) => Lives(s)
  /\ Ending(s) => Ending(t)
  /\ t.ignoring => s.ignoring \/ ~ Lives(t)
  /\ \A i \in Requests : StreamWrites(s, t, f, i)

LEMMA LivesOn ==
  ASSUME NEW s, NEW t, s.goaway \subseteq t.goaway, Opened(t) \subseteq Opened(s)
  PROVE  (Lives(t) => Lives(s)) /\ (Ending(s) => Ending(t))
BY DEF Lives, Ending

LEMMA AfterSentWrites ==
  ASSUME NEW s0, Good(s0), Outgoing(s0.aob)
  PROVE  Writes(s0, AfterSent(s0), s0.aob)
<1> DEFINE f == s0.aob
<1> PICK s : s = [s0 EXCEPT !.aob = NoFrame]
  OBVIOUS
<1> PICK t : t = AfterSent(s0)
  OBVIOUS
<1>1. Cleared(s0, s) /\ Goes(s0, s, 0) /\ Good(s)
  BY ClearedIs
<1>2. Follows(s, t, f)
  BY AfterSentMoves
<1>3. Goes(s, t, 0)
  BY AfterSentGoes DEF Outgoing, Good
<1>4. Books(s0) /\ Goes(s0, t, 0)
  BY <1>1, <1>3, GoesOnAlike DEF Good
<1>5. (GoesOn(t) => GoesOn(s0)) /\ (Lives(t) => Lives(s0)) /\ (Ending(s0) => Ending(t))
  BY <1>4, WentOn, LivesOn DEF Goes
<1>6. \A i : Level(s, i) = Level(s0, i) /\ (Exists(s, i) <=> Exists(s0, i))
  BY <1>1 DEF Cleared, Level, Exists
<1>7. NoFrame.type = "none" /\ Widens(NoFrame) /\ Ack(NoFrame) = 0
  BY NoFrameIs
<1>8. \A i : Resets(s0, i) <=> Resets(s, i) \/ IsRst(f, i)
  BY <1>1, <1>7 DEF Cleared, Resets, IsRst
<1>9. f.type = "data" => f.id \in Requests /\ f.n \in Nat
  BY DEF Outgoing
<1>10. Acks(s0.urgent) \in Nat /\ s0.window \in Int /\ \A i \in Requests : Level(s0, i) \in Int
  <2>1. IsSequence(s0.urgent)
    BY DEF Good, Books, HasStreams, Quiet
  <2> QED  BY <2>1, AcksNat, LevelInt DEF Good, Values
<1> HIDE DEF f
<1>11. Ack(f) \in {0, 1} /\ Unanswered(s0) = Acks(s0.urgent) + Ack(f)
  BY DEF Ack, Unanswered, f
<1>12. CASE f.type = "data"
  <2>1. Spends(s, t, f)
    BY <1>2, <1>12 DEF Follows
  <2>2. /\ t.aob = NoFrame /\ t.reg = s0.reg /\ t.window = s0.window - f.n
        /\ t.limit = s0.limit /\ t.initial = s0.initial /\ Acks(t.urgent) = Acks(s0.urgent)
        /\ t.ignoring = s0.ignoring
    BY <1>1, <2>1 DEF Spends, SameTerms, Cleared
  <2>3. \A i : (Resets(t, i) <=> Resets(s0, i)) /\ ~ IsRst(f, i)
    BY <1>1, <1>7, <1>12, <2>2 DEF Resets, IsRst, f
  <2>4. ASSUME NEW i \in Requests PROVE StreamWrites(s0, t, f, i)
    <3>1. CASE i = f.id
      <4>1. Units(f, i) = f.n /\ (EndsData(f, i) <=> f.end)
        BY <1>12, <3>1 DEF Units, EndsData
      <4>2. /\ Exists(s0, i) /\ ~ Exists(t, i) => f.end /\ "RD" \in s0.streams[i].shut
            /\ Exists(t, i) =>
                 /\ Exists(s0, i) /\ Level(t, i) = Level(s0, i) - f.n
                 /\ "WR" \in t.streams[i].shut => "WR" \in s0.streams[i].shut \/ f.end
                 /\ "RD" \in t.streams[i].shut => "RD" \in s0.streams[i].shut
                 /\ t.streams[i].state = "CLOSING" => s0.streams[i].state = "CLOSING"
        BY <1>1, <1>6, <2>1, <3>1 DEF Spends, Cleared
      <4>3. Exists(t, i) => Level(t, i) <= Level(s0, i) - Units(f, i)
        BY <1>9, <1>10, <1>12, <4>1, <4>2
      <4> QED  BY <2>3, <4>1, <4>2, <4>3 DEF StreamWrites
    <3>2. CASE i # f.id
      <4>1. Units(f, i) = 0
        BY <3>2 DEF Units
      <4>2. /\ t.streams[i] = s0.streams[i] /\ (Exists(t, i) <=> Exists(s0, i))
            /\ Level(t, i) = Level(s0, i)
        BY <1>1, <2>1, <2>2, <3>2 DEF Spends, Cleared, Exists, Level
      <4>3. Level(t, i) <= Level(s0, i) - Units(f, i)
        BY <1>10, <4>1, <4>2
      <4> QED  BY <2>3, <4>2, <4>3 DEF StreamWrites
    <3> QED  BY <3>1, <3>2
  <2>5. DataIn(f) = f.n /\ Ack(f) = 0
    BY <1>12 DEF DataIn, Ack
  <2>6. t.window <= s0.window - DataIn(f)
    BY <1>9, <1>10, <1>12, <2>2, <2>5
  <2>7. Unanswered(t) = Acks(s0.urgent)
    BY <1>7, <1>10, <2>2 DEF Unanswered
  <2>8. Unanswered(t) \in Nat /\ Unanswered(t) + Ack(f) = Unanswered(s0)
    BY <1>10, <1>11, <2>5, <2>7
  <2>9. Values(t)
    BY <2>1 DEF Spends
  <2> QED  BY <1>5, <2>2, <2>4, <2>6, <2>8, <2>9 DEF Writes, f
<1>13. CASE f.type # "data"
  <2> DEFINE h == IF f.type = "rst" THEN f ELSE NoFrame
  <2>1. Moves(s, t, h) /\ (f.type = "rst" => ~ Exists(t, f.id))
    BY <1>2, <1>13 DEF Follows
  <2>2. /\ h.type \in {"rst", "none"} /\ (h.type = "rst" => h = f /\ f.type = "rst")
        /\ f.type = "rst" => h = f
    BY <1>7
  <2> HIDE DEF h
  <2>3. /\ \A i : Gain(h, i) = 0 /\ ~ EndOf(h)
        /\ \A i : About(h, i) => IsRst(f, i)
        /\ \A i : IsRst(f, i) => f.type = "rst" /\ f.id = i
    BY <2>2 DEF Gain, EndOf, About, IsRst
  <2>4. /\ t.aob = NoFrame /\ t.limit = s0.limit /\ t.initial = s0.initial
        /\ Acks(t.urgent) = Acks(s0.urgent) /\ t.window <= s0.window + Gain(h, 0)
        /\ t.ignoring => s0.ignoring \/ ~ Lives(t)
    BY <1>1, <2>1, <2>2 DEF Moves, SameTerms, Cleared
  <2>5. ASSUME NEW i \in Requests PROVE StreamWrites(s0, t, f, i)
    <3>1. StreamMoves(s, t, h, i)
      BY <2>1 DEF Moves
    <3>2. Units(f, i) = 0 /\ ~ EndsData(f, i)
      BY <1>13 DEF Units, EndsData
    <3>3. Resets(t, i) => Resets(s0, i) \/ Exists(s0, i)
      BY <1>6, <1>8, <2>2, <2>3, <3>1 DEF StreamMoves, Offends
    <3>4. Exists(s0, i) /\ ~ Exists(t, i) => Ending(t) \/ IsRst(f, i)
      BY <1>6, <2>3, <3>1 DEF StreamMoves
    <3>5. ASSUME Exists(t, i) PROVE ~ IsRst(f, i)
      BY <2>1, <2>3, <3>5
    <3>6. Exists(t, i) => Level(t, i) <= Level(s0, i) - Units(f, i)
      <4>1. Exists(t, i) => Level(t, i) <= Level(s0, i) + 0
        BY <1>6, <2>3, <3>1 DEF StreamMoves
      <4> QED  BY <1>10, <3>2, <4>1
    <3>7. Exists(t, i) =>
            /\ Exists(s0, i)
            /\ "WR" \in t.streams[i].shut => "WR" \in s0.streams[i].shut
            /\ "RD" \in t.streams[i].shut => "RD" \in s0.streams[i].shut \/ Resets(t, i)
            /\ t.streams[i].state = "CLOSING" => s0.streams[i].state = "CLOSING" \/ Resets(t, i)
      BY <1>1, <1>6, <2>3, <3>1 DEF StreamMoves, Cleared
    <3>8. Resets(s0, i) => Resets(t, i) \/ IsRst(f, i)
      BY <1>8, <3>1 DEF StreamMoves
    <3> QED  BY <3>3, <3>4, <3>5, <3>6, <3>7, <3>8 DEF StreamWrites
  <2>6. DataIn(f) = 0
    BY <1>13 DEF DataIn
  <2>7. t.window <= s0.window - DataIn(f)
    BY <1>10, <2>3, <2>4, <2>6
  <2>8. Unanswered(t) = Acks(s0.urgent)
    BY <1>7, <1>10, <2>4 DEF Unanswered
  <2>9. Unanswered(t) \in Nat /\ Unanswered(t) + Ack(f) = Unanswered(s0)
    BY <1>10, <1>11, <2>8
  <2>10. Values(t)
    BY <2>1 DEF Moves
  <2> QED  BY <1>5, <2>4, <2>5, <2>7, <2>9, <2>10 DEF Writes, f
<1> QED  BY <1>12, <1>13

\* The request f begins its stream for the server u.
BeginsFor(u, f, i) ==
  /\ f.type = "headers" /\ f.id = i /\ u.phase[i] = "open" /\ u.windows[i] = u.initial

StreamTaken(v, u, f, i) ==
  /\ u.windows[i] \in Int
  /\ IF IsRst(f, i) THEN u.phase[i] = "reset"
     ELSE u.phase[i] = v.phase[i] \/ BeginsFor(u, f, i)
  /\ BeginsFor(u, f, i) \/ u.windows[i] - u.initial = v.windows[i] - v.initial - Units(f, i)
  /\ i \in v.done \/ EndsData(f, i) => i \in u.done

(***************************************************************************)
(* The server v becomes u with f: nothing is more than it has allowed.     *)
(***************************************************************************)
Takes(v, u, f) ==
  /\ u.window \in Int /\ u.window = v.window - DataIn(f)
  /\ DOMAIN u.windows = Ids /\ \A i \in Ids : u.windows[i] \in Int
  /\ u.mode = v.mode \/ u.mode # "starting"
  /\ f.type # "ack" => u.pending = v.pending /\ u.limit = v.limit /\ u.initial = v.initial
  /\ f.type = "ack" =>
       /\ u.pending = Tail(v.pending) /\ u.limit = v.pending[1].limit
       /\ u.initial = v.pending[1].initial
  /\ ~ u.overrun /\ ~ u.crowded
  /\ \A i \in Requests : StreamTaken(v, u, f, i)

LEMMA TakenAllowed ==
  ASSUME ServerShape, ServerValues, LimitsKept, NEW f, Sending(f),
         f.type = "ack" => server.pending # <<>>, NEW u, u = Taken(server, f)
  PROVE  Takes(server, u, f)
<1> DEFINE v == server
<1>0. /\ DOMAIN v = ServerFields /\ DOMAIN v.phase = Ids /\ DOMAIN v.windows = Ids
      /\ v.window \in Int /\ v.limit \in Int /\ v.initial \in Int
      /\ \A i \in Ids : v.windows[i] \in Int
      /\ Requests \subseteq Ids
  BY DEF ServerShape, ServerValues, Allowed, Ids
<1>1. CASE f.type = "ack"
  <2>1. u = [v EXCEPT !.pending = Tail(@), !.limit = Head(v.pending).limit,
                      !.initial = Head(v.pending).initial,
                      !.windows =
                        [i \in Ids |-> v.windows[i] + Head(v.pending).initial - v.initial]]
    BY <1>1 DEF Taken
  <2>2. Head(v.pending) = v.pending[1] /\ 1 \in DOMAIN v.pending
    BY <1>1, TailIs DEF ServerValues
  <2>3. /\ u.pending = Tail(v.pending) /\ u.limit = v.pending[1].limit
        /\ u.initial = v.pending[1].initial
        /\ u.windows = [i \in Ids |-> v.windows[i] + v.pending[1].initial - v.initial]
        /\ u.window = v.window /\ u.mode = v.mode /\ u.phase = v.phase /\ u.done = v.done
        /\ u.overrun = v.overrun /\ u.crowded = v.crowded
    BY <1>0, <2>1, <2>2 DEF ServerFields
  <2>4. v.pending[1].initial \in Int
    BY <2>2 DEF ServerValues, Allowed
  <2>5. DataIn(f) = 0 /\ \A i : Units(f, i) = 0 /\ ~ IsRst(f, i) /\ ~ EndsData(f, i)
    BY <1>1 DEF DataIn, Units, IsRst, EndsData
  <2>6. \A i \in Ids : /\ u.windows[i] \in Int
                       /\ u.windows[i] - u.initial = v.windows[i] - v.initial - Units(f, i)
    BY <1>0, <2>3, <2>4, <2>5
  <2>7. \A i \in Requests : StreamTaken(v, u, f, i)
    BY <1>0, <2>3, <2>5, <2>6 DEF StreamTaken
  <2>8. u.window = v.window - DataIn(f)
    BY <1>0, <2>3, <2>5
  <2> QED  BY <1>0, <1>1, <2>3, <2>6, <2>7, <2>8 DEF Takes, LimitsKept
<1>2. CASE f.type = "data"
  <2>1. /\ f.id \in Requests /\ f.n \in Nat /\ f.n <= v.window
        /\ Current(f.id) => f.n <= v.windows[f.id]
    BY <1>2 DEF Sending, Outgoing
  <2>2. u = [v EXCEPT !.window = @ - f.n, !.windows[f.id] = @ - f.n, !.got[f.id] = @ + f.n,
                   !.done = IF f.end THEN @ \cup {f.id} ELSE @,
                   !.overrun = @ \/ f.n > v.window
                                 \/ (v.phase[f.id] \notin {"idle", "reset"} /\ f.n > v.windows[f.id])]
    BY <1>2 DEF Taken
  <2>3. /\ u.window = v.window - f.n /\ u.windows = [v.windows EXCEPT ![f.id] = @ - f.n]
        /\ u.done = (IF f.end THEN v.done \cup {f.id} ELSE v.done)
        /\ u.pending = v.pending /\ u.limit = v.limit /\ u.initial = v.initial /\ u.mode = v.mode
        /\ u.phase = v.phase /\ u.crowded = v.crowded
    BY <1>0, <2>2 DEF ServerFields
  <2>4. ~ u.overrun
    <3>1. u.overrun = (\/ v.overrun \/ f.n > v.window
                       \/ (v.phase[f.id] \notin {"idle", "reset"} /\ f.n > v.windows[f.id]))
      BY <1>0, <2>2 DEF ServerFields
    <3>2. ~ (f.n > v.window)
      BY <1>0, <2>1
    <3>3. Current(f.id) => ~ (f.n > v.windows[f.id])
      BY <1>0, <2>1
    <3> QED  BY <3>1, <3>2, <3>3 DEF LimitsKept, Current
  <2>5. DataIn(f) = f.n /\ \A i : ~ IsRst(f, i) /\ (EndsData(f, i) <=> f.id = i /\ f.end)
    BY <1>2 DEF DataIn, IsRst, EndsData
  <2>6. \A i \in Ids : /\ u.windows[i] \in Int
                       /\ u.windows[i] - u.initial = v.windows[i] - v.initial - Units(f, i)
    <3> SUFFICES ASSUME NEW i \in Ids
                 PROVE  /\ u.windows[i] \in Int
                        /\ u.windows[i] - u.initial = v.windows[i] - v.initial - Units(f, i)
      OBVIOUS
    <3>1. Units(f, i) = IF f.id = i THEN f.n ELSE 0
      BY <1>2 DEF Units
    <3>2. u.windows[i] = v.windows[i] - Units(f, i) /\ Units(f, i) \in Int /\ u.initial = v.initial
      BY <1>0, <2>1, <2>3, <3>1
    <3> QED  BY <1>0, <3>2
  <2>7. DOMAIN u.windows = Ids
    BY <1>0, <2>3
  <2>8. \A i \in Requests : StreamTaken(v, u, f, i)
    BY <1>0, <2>3, <2>5, <2>6 DEF StreamTaken
  <2>9. u.window \in Int
    BY <1>0, <2>1, <2>3
  <2> QED  BY <1>2, <2>3, <2>4, <2>5, <2>6, <2>7, <2>8, <2>9 DEF Takes, LimitsKept
<1>3. CASE f.type = "headers" /\ f.id <= v.last
  <2>1. f.id \in Requests /\ Cardinality(Concurrent(v)) < v.limit /\ f.id \in Ids
    BY <1>0, <1>3 DEF Sending, Outgoing
  <2>2. ~ (f.id > v.last)
    BY <1>3, <2>1, ParityIs DEF ServerShape
  <2>3. u = [v EXCEPT !.phase[f.id] = "open", !.windows[f.id] = v.initial,
                        !.crowded = @ \/ Cardinality(Concurrent(v)) >= v.limit]
    BY <1>3, <2>2 DEF Taken
  <2>4. /\ u.window = v.window /\ u.windows = [v.windows EXCEPT ![f.id] = v.initial]
        /\ u.done = v.done /\ u.phase = [v.phase EXCEPT ![f.id] = "open"]
        /\ u.pending = v.pending /\ u.limit = v.limit /\ u.initial = v.initial /\ u.mode = v.mode
        /\ u.overrun = v.overrun
        /\ u.crowded = (v.crowded \/ Cardinality(Concurrent(v)) >= v.limit)
    BY <1>0, <2>3 DEF ServerFields
  <2>5. ~ u.crowded
    <3>1. Cardinality(Concurrent(v)) \in Nat
      BY IdsFinite DEF Concurrent, Ids
    <3>2. ~ (Cardinality(Concurrent(v)) >= v.limit)
      BY <1>0, <2>1, <3>1
    <3> QED  BY <2>4, <3>2 DEF LimitsKept
  <2>6. DataIn(f) = 0 /\ \A i : Units(f, i) = 0 /\ ~ IsRst(f, i) /\ ~ EndsData(f, i)
    BY <1>3 DEF DataIn, Units, IsRst, EndsData
  <2>7. DOMAIN u.windows = Ids /\ \A i \in Ids : u.windows[i] \in Int
    BY <1>0, <2>1, <2>4
  <2>8. \A i \in Requests : StreamTaken(v, u, f, i)
    <3> SUFFICES ASSUME NEW i \in Requests PROVE StreamTaken(v, u, f, i)
      OBVIOUS
    <3>1. CASE i = f.id
      <4>1. BeginsFor(u, f, i)
        BY <1>0, <1>3, <2>1, <2>4, <3>1 DEF BeginsFor
      <4> QED  BY <1>0, <2>4, <2>6, <2>7, <4>1 DEF StreamTaken
    <3>2. CASE i # f.id
      <4>1. u.windows[i] = v.windows[i] /\ u.phase[i] = v.phase[i]
        BY <1>0, <2>4, <3>2
      <4>2. u.windows[i] - u.initial = v.windows[i] - v.initial - Units(f, i)
        BY <1>0, <2>4, <2>6, <4>1
      <4> QED  BY <1>0, <2>4, <2>6, <2>7, <4>1, <4>2 DEF StreamTaken
    <3> QED  BY <3>1, <3>2
  <2>9. u.window = v.window - DataIn(f)
    BY <1>0, <2>4, <2>6
  <2> QED  BY <1>0, <1>3, <2>4, <2>5, <2>7, <2>8, <2>9 DEF Takes, LimitsKept
<1>4. CASE f.type \notin {"ack", "data"} /\ ~ (f.type = "headers" /\ f.id <= v.last)
  <2>1. f.type = "headers" => f.id > v.last
    BY <1>4, ParityIs DEF Sending, Outgoing, ServerShape
  <2>2. \/ u = v
        \/ f.type = "rst" /\ u = [v EXCEPT !.phase[f.id] = "reset"]
        \/ /\ f.type = "window"
           /\ u \in {[v EXCEPT !.credit = @ + f.n], [v EXCEPT !.credits[f.id] = @ + f.n]}
        \/ u = [v EXCEPT !.mode = "closed"]
    BY <1>4, <2>1 DEF Taken
  <2>3. /\ u.window = v.window /\ u.windows = v.windows
        /\ u.done = v.done /\ u.pending = v.pending /\ u.limit = v.limit /\ u.initial = v.initial
        /\ u.overrun = v.overrun /\ u.crowded = v.crowded
        /\ u.mode = v.mode \/ u.mode = "closed"
        /\ f.type # "rst" => u.phase = v.phase
        /\ f.type = "rst" => u.phase = [v.phase EXCEPT ![f.id] = "reset"]
    <3>1. f.type = "rst" => u = [v EXCEPT !.phase[f.id] = "reset"]
      BY DEF Taken
    <3> QED  BY <1>0, <2>2, <3>1 DEF ServerFields
  <2>4. DataIn(f) = 0 /\ \A i : Units(f, i) = 0 /\ ~ EndsData(f, i)
    BY <1>4 DEF DataIn, Units, EndsData
  <2>5. \A i \in Requests : StreamTaken(v, u, f, i)
    <3> SUFFICES ASSUME NEW i \in Requests PROVE StreamTaken(v, u, f, i)
      OBVIOUS
    <3>1. u.windows[i] \in Int /\ u.windows[i] - u.initial = v.windows[i] - v.initial - Units(f, i)
      BY <1>0, <2>3, <2>4
    <3>2. IF IsRst(f, i) THEN u.phase[i] = "reset" ELSE u.phase[i] = v.phase[i]
      BY <1>0, <2>3 DEF IsRst
    <3> QED  BY <2>3, <2>4, <3>1, <3>2 DEF StreamTaken
  <2>6. u.window = v.window - DataIn(f)
    BY <1>0, <2>3, <2>4
  <2> QED  BY <1>0, <1>4, <2>3, <2>5, <2>6 DEF Takes, LimitsKept
<1> QED  BY <1>1, <1>2, <1>3, <1>4

LEMMA GainsNone ==
  ASSUME NEW q, AllWiden(q), NEW i, \A k \in DOMAIN q : Gain(q[k], i) = 0
  PROVE  Gains(q, i) = 0
<1> DEFINE a == [k \in DOMAIN q |-> Gain(q[k], i)]
           g == [k \in 0 .. Len(q) |-> 0]
<1>1. Len(q) \in Nat /\ DOMAIN q = 1 .. Len(q)
  BY SequenceFacts DEF AllWiden
<1>2. a \in [1 .. Len(q) -> Int] /\ \A k \in 1 .. Len(q) : a[k] = 0
  BY <1>1
<1>3. a \in Seq(Int) /\ Len(a) = Len(q)
  BY <1>1, <1>2
<1>4. /\ g \in [0 .. Len(q) -> Int] /\ g[0] = 0 /\ g[Len(q)] = 0
      /\ \A k \in 1 .. Len(q) : g[k] = g[k - 1] + a[k]
  BY <1>1, <1>2
<1> HIDE DEF a, g
<1>5. Total(a) = g[Len(a)]
  BY <1>3, <1>4, TotalIs DEF Adds
<1> QED  BY <1>3, <1>4, <1>5 DEF Gains, a

\* Nothing has been said about a request the server does not know.
LEMMA NothingSaid ==
  ASSUME Saying, NEW i \in Requests, server.phase[i] = "idle"
  PROVE  Gains(down, i) = 0
<1>1. \A k \in DOMAIN down : down[k].id = i => down[k].type = "goaway"
  BY DEF Saying, Says
<1>2. \A k \in DOMAIN down : Gain(down[k], i) = 0
  BY <1>1 DEF Gain
<1> QED  BY <1>2, SayingWidens, GainsNone

LEMMA UnsentWritten ==
  ASSUME IInv, Ledger, WriteFrame, NEW i \in Requests, Unsent(c', i), c'.aob = NoFrame
  PROVE  Unsent(c, i) /\ ~ Exists(c, i) /\ ~ (c.aob.type = "headers" /\ c.aob.id = i)
<1>1. c'.syn = c.syn
  <2>1. Leads([c EXCEPT !.aob = NoFrame], AfterSent(c), {}) /\ c' = AfterSent(c)
    BY AfterSentLeads DEF IInv, WriteFrame
  <2>2. [c EXCEPT !.aob = NoFrame].syn = c.syn
    BY DEF IInv, Shape, SessionFields
  <2> QED  BY <2>1, <2>2 DEF Leads
<1>2. PICK k \in DOMAIN c.syn : c.syn[k].id = i
  BY <1>1, NoFrameIs DEF Unsent
<1>3. c.aob.type = "headers" => c.aob.id < i /\ c.aob.id \in Nat /\ i \in Nat
  BY <1>2, ParityIs DEF IInv, InLine
<1> QED  BY <1>2, <1>3 DEF Unsent, Ledger

LEMMA AckSaid ==
  Says(Frame("ack", 0)) /\ Widens(Frame("ack", 0)) /\ \A i : Gain(Frame("ack", 0), i) = 0
<1>1. Expected(Frame("ack", 0))
  BY PlainExpected
<1>2. Frame("ack", 0).type = "ack" /\ Frame("ack", 0).id = 0
  BY DEF Frame
<1>3. 0 \notin Requests
  BY IdsAre
<1> QED  BY <1>1, <1>2, <1>3 DEF Says, Told, Widens, Gain

\* The frames on their way, after a step that changes what the server knows of streams
LEMMA StillSaid ==
  ASSUME NEW f, Says(f),
         \A i \in Requests : \/ server'.phase[i] = server.phase[i]
                             \/ server'.phase[i] = "reset"
                             \/ server.phase[i] = "idle"
  PROVE  Says(f)'
<1>1. Told(f)'
  BY DEF Says, Told, Expected, Widens
<1>2. ASSUME NEW i \in Requests, f.id = i, f.type # "goaway"
      PROVE  /\ server'.phase[i] # "idle"
             /\ EndOf(f) => server'.phase[i] \in {"ended", "reset"}
             /\ f.type = "rst" => server'.phase[i] = "reset"
  BY <1>2 DEF Says
<1> QED  BY <1>1, <1>2 DEF Says, EndOf

LEMMA NowSaid ==
  ASSUME Saying, \A g : Says(g) => Says(g)',
         down' = down \/ \E f : down' = Append(down, f) /\ Says(f)'
  PROVE  Saying'
<1>1. ASSUME NEW k \in DOMAIN down' PROVE Says(down[k])'
  <2>1. CASE \E f : down'[k] = f /\ Says(f)'
    BY <2>1 DEF Says, Told, Expected, Widens, EndOf
  <2>2. CASE k \in DOMAIN down /\ down'[k] = down[k]
    <3>1. Says(down[k])
      BY <2>2 DEF Saying
    <3> PICK g : g = down[k]
      OBVIOUS
    <3>2. Says(g)'
      BY <3>1
    <3> QED  BY <2>2, <3>2 DEF Says, Told, Expected, Widens, EndOf
  <2>3. CASE down' = down
    BY <1>1, <2>2, <2>3
  <2>4. CASE \E f : down' = Append(down, f) /\ Says(f)'
    <3> PICK f : down' = Append(down, f) /\ Says(f)'
      BY <2>4
    <3>1. down'[k] = f \/ (k \in DOMAIN down /\ down'[k] = down[k])
      BY <1>1, AppendedIs DEF Saying
    <3> QED  BY <2>1, <2>2, <3>1
  <2> QED  BY <2>3, <2>4
<1>2. IsSequence(down')
  BY AppendedIs DEF Saying
<1> QED  BY <1>1, <1>2 DEF Saying

\* One of the SETTINGS that wait is acknowledged, or the client acknowledges none.
LEMMA WrittenCrosses ==
  ASSUME ServerValues, Saying, Crossing, Writes(c, c', c.aob), Takes(server, server', c.aob),
         turn' = turn,
         \/ down' = down
         \/ c.aob.type # "ack" /\ down' = Append(down, Frame("ack", 0))
  PROVE  Crossing'
<1> DEFINE f == c.aob
           n == Len(down)
           P == server.pending
<1>1. PICK g : Places(g)
  BY DEF Crossing
<1>2. /\ n \in Nat /\ DOMAIN down = 1 .. n /\ IsSequence(down)
      /\ Len(P) \in Nat /\ DOMAIN P = 1 .. Len(P)
  BY SequenceFacts DEF Saying, ServerValues
<1>3. /\ g \in [0 .. n -> Nat] /\ g[n] = Len(P)
      /\ Unanswered(c) \in Nat /\ Unanswered(c) <= g[0]
      /\ \A j, k \in 0 .. n : j <= k => g[j] <= g[k]
      /\ \A k \in 1 .. n : IF down[k].type = "settings"
                           THEN g[k] = g[k - 1] + 1 /\ down[k] = SettingsFrame(P[g[k]])
                           ELSE g[k] = g[k - 1]
      /\ GoesOn(c) /\ turn # "failed" =>
           /\ g[0] = Unanswered(c)
           /\ c.limit = IF g[0] = 0 THEN server.limit ELSE P[g[0]].limit
           /\ c.initial = IF g[0] = 0 THEN server.initial ELSE P[g[0]].initial
  BY <1>1 DEF Places, Numbered, HasAnswers, Obeys
<1>4. /\ Unanswered(c') \in Nat /\ Unanswered(c') + Ack(f) = Unanswered(c)
      /\ GoesOn(c') => GoesOn(c)
      /\ c'.limit = c.limit /\ c'.initial = c.initial
  BY DEF Writes
<1>5. 0 \in 0 .. n /\ n \in 0 .. n /\ g[0] \in Nat
  BY <1>2, <1>3
<1>6. CASE f.type = "ack"
  <2>1. /\ server'.pending = Tail(P) /\ server'.limit = P[1].limit
        /\ server'.initial = P[1].initial /\ down' = down /\ Ack(f) = 1
    BY <1>6 DEF Takes, Ack
  <2>2. g[0] >= 1 /\ \A k \in 0 .. n : g[k] \in Nat /\ g[k] >= 1 /\ g[k] <= Len(P)
    <3>1. Unanswered(c) >= 1
      BY <1>4, <2>1
    <3>2. g[0] >= 1
      BY <1>3, <1>5, <3>1
    <3>3. \A k \in 0 .. n : g[k] \in Nat /\ g[0] <= g[k] /\ g[k] <= Len(P)
      BY <1>2, <1>3, <1>5
    <3> QED  BY <1>5, <3>2, <3>3
  <2>3. /\ Len(Tail(P)) = Len(P) - 1
        /\ \A k \in 1 .. Len(P) - 1 : Tail(P)[k] = P[k + 1]
    <3>1. P # <<>>
      BY <1>2, <1>5, <2>2
    <3>2. /\ IsSequence(Tail(P)) /\ DOMAIN Tail(P) = 1 .. Len(P) - 1
          /\ \A k \in 1 .. Len(P) - 1 : Tail(P)[k] = P[k + 1]
      BY <3>1, TailIs DEF ServerValues
    <3>3. Len(Tail(P)) \in Nat /\ DOMAIN Tail(P) = 1 .. Len(Tail(P)) /\ Len(P) - 1 \in Nat
      BY <1>2, <1>5, <2>2, <3>2, SequenceFacts
    <3> QED  BY <3>2, <3>3
  <2> DEFINE h == [k \in 0 .. n |-> g[k] - 1]
  <2>4. h \in [0 .. n -> Nat] /\ \A k \in 0 .. n : h[k] = g[k] - 1
    BY <2>2
  <2> HIDE DEF h
  <2>5. \A k \in 0 .. n : h[k] # 0 => Tail(P)[h[k]] = P[g[k]]
    <3> SUFFICES ASSUME NEW k \in 0 .. n, h[k] # 0 PROVE Tail(P)[h[k]] = P[g[k]]
      OBVIOUS
    <3>1. h[k] \in 1 .. Len(P) - 1 /\ h[k] + 1 = g[k]
      BY <1>2, <2>2, <2>4
    <3> QED  BY <2>3, <3>1
  <2>6. h[n] = Len(Tail(P)) /\ Unanswered(c') <= h[0]
    <3>1. h[n] = Len(Tail(P))
      BY <1>3, <1>5, <2>3, <2>4
    <3>2. h[0] = g[0] - 1
      BY <1>5, <2>4
    <3>3. Unanswered(c') + 1 = Unanswered(c) /\ Unanswered(c) <= g[0]
      BY <1>3, <1>4, <2>1
    <3>4. Unanswered(c') <= g[0] - 1
      BY <1>3, <1>4, <1>5, <3>3
    <3> QED  BY <3>1, <3>2, <3>4
  <2>7. \A j, k \in 0 .. n : j <= k => h[j] <= h[k]
    BY <1>3, <2>2, <2>4
  <2>8. \A k \in 1 .. n : IF down[k].type = "settings"
                          THEN h[k] = h[k - 1] + 1 /\ down[k] = SettingsFrame(Tail(P)[h[k]])
                          ELSE h[k] = h[k - 1]
    <3> SUFFICES ASSUME NEW k \in 1 .. n
                 PROVE  IF down[k].type = "settings"
                        THEN h[k] = h[k - 1] + 1 /\ down[k] = SettingsFrame(Tail(P)[h[k]])
                        ELSE h[k] = h[k - 1]
      OBVIOUS
    <3>1. k \in 0 .. n /\ k - 1 \in 0 .. n
      BY <1>2
    <3>2. /\ h[k] = g[k] - 1 /\ h[k - 1] = g[k - 1] - 1
          /\ g[k] \in Nat /\ g[k - 1] \in Nat /\ g[k - 1] >= 1
      BY <2>2, <2>4, <3>1
    <3>3. h[k] # 0 => Tail(P)[h[k]] = P[g[k]]
      BY <2>5, <3>1
    <3>4. CASE down[k].type = "settings"
      <4>1. g[k] = g[k - 1] + 1 /\ down[k] = SettingsFrame(P[g[k]])
        BY <1>3, <3>4
      <4>2. h[k] = h[k - 1] + 1 /\ h[k] # 0
        BY <3>2, <4>1
      <4> QED  BY <3>3, <3>4, <4>1, <4>2
    <3>5. CASE down[k].type # "settings"
      BY <1>3, <3>2, <3>5
    <3> QED  BY <3>4, <3>5
  <2>9. GoesOn(c') /\ turn # "failed" =>
       /\ h[0] = Unanswered(c')
       /\ c'.limit = IF h[0] = 0 THEN P[1].limit ELSE Tail(P)[h[0]].limit
       /\ c'.initial = IF h[0] = 0 THEN P[1].initial ELSE Tail(P)[h[0]].initial
    BY <1>3, <1>4, <1>5, <2>1, <2>2, <2>4, <2>5
  <2>10. Numbered(h, down, Tail(P)) /\ HasAnswers(c', h[0])
    BY <1>4, <2>4, <2>6, <2>7, <2>8 DEF Numbered, HasAnswers
  <2>11. turn # "failed" => Obeys(c', h[0], server')
    BY <2>1, <2>9 DEF Obeys
  <2> QED  BY <2>1, <2>10, <2>11 DEF Crossing, Places
<1>7. CASE f.type # "ack"
  <2>1. /\ server'.pending = P /\ server'.limit = server.limit
        /\ server'.initial = server.initial /\ Ack(f) = 0
    BY <1>7 DEF Takes, Ack
  <2>2. Unanswered(c') = Unanswered(c)
    BY <1>3, <1>4, <2>1
  <2>3. GoesOn(c') /\ turn # "failed" =>
       /\ g[0] = Unanswered(c')
       /\ c'.limit = IF g[0] = 0 THEN server.limit ELSE P[g[0]].limit
       /\ c'.initial = IF g[0] = 0 THEN server.initial ELSE P[g[0]].initial
    BY <1>3, <1>4, <2>2
  <2>4. CASE down' = down
    <3>1. Numbered(g, down, P) /\ HasAnswers(c', g[0])
      BY <1>1, <2>2 DEF Places, HasAnswers
    <3>2. turn # "failed" => Obeys(c', g[0], server')
      BY <2>1, <2>3 DEF Obeys
    <3> QED  BY <2>1, <2>4, <3>1, <3>2 DEF Crossing, Places
  <2>5. CASE down' = Append(down, Frame("ack", 0))
    <3> DEFINE h == [k \in 0 .. n + 1 |-> IF k = n + 1 THEN g[n] ELSE g[k]]
    <3>1. /\ Len(down') = n + 1 /\ \A k \in 1 .. n : down'[k] = down[k]
          /\ down'[n + 1] = Frame("ack", 0)
      <4>1. IsSequence(down') /\ DOMAIN down' = 1 .. n + 1
        BY <1>2, <2>5, Appended
      <4>2. Len(down') = n + 1
        BY <1>2, <4>1, SequenceFacts
      <4>3. /\ \A k \in 1 .. n : Append(down, Frame("ack", 0))[k] = down[k]
            /\ Append(down, Frame("ack", 0))[n + 1] = Frame("ack", 0)
        BY <1>2, Appended
      <4> QED  BY <2>5, <4>2, <4>3
    <3>2. /\ h \in [0 .. n + 1 -> Nat] /\ h[n + 1] = g[n]
          /\ \A k \in 0 .. n : h[k] = g[k]
      BY <1>2, <1>3, <1>5
    <3> HIDE DEF h
    <3>3. \A j, k \in 0 .. n + 1 : j <= k => h[j] <= h[k]
      <4> SUFFICES ASSUME NEW j \in 0 .. n + 1, NEW k \in 0 .. n + 1, j <= k PROVE h[j] <= h[k]
        OBVIOUS
      <4>1. CASE k = n + 1
        <5>1. CASE j = n + 1
          BY <1>2, <1>3, <1>5, <3>2, <4>1, <5>1
        <5>2. CASE j \in 0 .. n
          BY <1>2, <1>3, <1>5, <3>2, <4>1, <5>2
        <5> QED  BY <1>2, <5>1, <5>2
      <4>2. CASE k \in 0 .. n
        <5>1. j \in 0 .. n
          BY <1>2, <4>2
        <5> QED  BY <1>3, <3>2, <4>2, <5>1
      <4> QED  BY <1>2, <4>1, <4>2
    <3>4. \A k \in 1 .. n + 1 : IF down'[k].type = "settings"
                                THEN h[k] = h[k - 1] + 1 /\ down'[k] = SettingsFrame(P[h[k]])
                                ELSE h[k] = h[k - 1]
      <4> SUFFICES ASSUME NEW k \in 1 .. n + 1
                   PROVE  IF down'[k].type = "settings"
                          THEN h[k] = h[k - 1] + 1 /\ down'[k] = SettingsFrame(P[h[k]])
                          ELSE h[k] = h[k - 1]
        OBVIOUS
      <4>1. CASE k = n + 1
        <5>1. down'[k].type = "ack"
          BY <3>1, <4>1 DEF Frame
        <5>2. h[k] = g[n] /\ k - 1 = n /\ h[k - 1] = g[n]
          BY <1>2, <1>5, <3>2, <4>1
        <5> QED  BY <5>1, <5>2
      <4>2. CASE k \in 1 .. n
        <5>1. k \in 0 .. n /\ k - 1 \in 0 .. n
          BY <1>2, <4>2
        <5>2. h[k] = g[k] /\ h[k - 1] = g[k - 1] /\ down'[k] = down[k]
          BY <3>1, <3>2, <4>2, <5>1
        <5> QED  BY <1>3, <4>2, <5>2
      <4> QED  BY <1>2, <4>1, <4>2
    <3>5. h[0] = g[0] /\ h[n + 1] = Len(P)
      BY <1>3, <1>5, <3>2
    <3>6. Numbered(h, down', P)
      BY <3>1, <3>2, <3>3, <3>4, <3>5 DEF Numbered
    <3>7. HasAnswers(c', h[0])
      BY <1>3, <1>4, <2>2, <3>5 DEF HasAnswers
    <3>8. turn # "failed" => Obeys(c', h[0], server')
      BY <2>1, <2>3, <3>5 DEF Obeys
    <3> QED  BY <2>1, <3>6, <3>7, <3>8 DEF Crossing, Places
  <2> QED  BY <2>4, <2>5
<1> QED  BY <1>6, <1>7

LEMMA StreamWritten ==
  ASSUME Limits, NEW i \in Requests,
         StreamWrites(c, c', c.aob, i), StreamTaken(server, server', c.aob, i),
         Ending(c) => Ending(c'), Level(c', i) \in Int
  PROVE  /\ Exists(c', i) /\ server'.phase[i] \notin {"idle", "reset"} =>
              Level(c', i) + Gains(down, i) <= server'.windows[i] - server'.initial
         /\ ~ Ending(c') => HeldStream(i)'
         /\ Exists(c', i) /\ "WR" \in c'.streams[i].shut => i \in server'.done
<1> DEFINE f == c.aob
           old == c.streams[i]
           new == c'.streams[i]
<1>0. /\ Values(c) /\ ServerValues /\ Room /\ Untold /\ Sending(f) /\ Held /\ Halves /\ i \in Ids
      /\ server.windows[i] \in Int /\ server.initial \in Int /\ Saying
  BY DEF Limits, Ids, ServerValues, Allowed
<1>1. Gains(down, i) \in Nat /\ Level(c, i) \in Int
  BY <1>0, SayingWidens, LevelInt
<1>2. Units(f, i) \in Nat
  BY <1>0 DEF Units, Sending, Outgoing
<1>3. BeginsFor(server', f, i) =>
        /\ server.phase[i] = "idle" /\ ~ Resets(c, i) /\ f.type = "headers" /\ f.id = i
        /\ ~ IsRst(f, i) /\ ~ EndsData(f, i) /\ Units(f, i) = 0
  BY <1>0 DEF BeginsFor, Untold, Unsent, IsRst, EndsData, Units
<1>4. /\ Exists(c', i) =>
       /\ Exists(c, i) /\ ~ IsRst(f, i)
       /\ Level(c', i) <= Level(c, i) - Units(f, i)
       /\ "WR" \in new.shut => "WR" \in old.shut \/ EndsData(f, i)
       /\ "RD" \in new.shut => "RD" \in old.shut \/ Resets(c', i)
       /\ new.state = "CLOSING" => old.state = "CLOSING" \/ Resets(c', i)
      /\ Resets(c, i) => Resets(c', i) \/ IsRst(f, i)
      /\ Exists(c, i) /\ ~ Exists(c', i) =>
           Ending(c') \/ IsRst(f, i) \/ (EndsData(f, i) /\ "RD" \in old.shut)
  BY DEF StreamWrites
<1>5. /\ server'.windows[i] \in Int
      /\ IF IsRst(f, i) THEN server'.phase[i] = "reset"
         ELSE server'.phase[i] = server.phase[i] \/ BeginsFor(server', f, i)
      /\ \/ BeginsFor(server', f, i)
         \/ server'.windows[i] - server'.initial = server.windows[i] - server.initial - Units(f, i)
      /\ i \in server.done \/ EndsData(f, i) => i \in server'.done
  BY DEF StreamTaken
<1>6. ASSUME Exists(c', i), server'.phase[i] \notin {"idle", "reset"}, Level(c', i) \in Int
      PROVE  Level(c', i) + Gains(down, i) <= server'.windows[i] - server'.initial
  <2>1. Exists(c, i) /\ ~ IsRst(f, i) /\ Level(c', i) <= Level(c, i) - Units(f, i)
    BY <1>4, <1>6
  <2>2. CASE BeginsFor(server', f, i)
    <3>1. Gains(down, i) = 0 /\ Level(c, i) <= 0
      BY <1>0, <1>3, <2>1, <2>2, NothingSaid DEF Sending
    <3>2. server'.windows[i] - server'.initial = 0
      BY <1>5, <2>2 DEF BeginsFor
    <3>3. Level(c', i) <= 0
      BY <1>1, <1>3, <1>6, <2>1, <2>2, <3>1
    <3> QED  BY <1>6, <3>1, <3>2, <3>3
  <2>3. CASE ~ BeginsFor(server', f, i)
    <3>1. server'.phase[i] = server.phase[i]
      BY <1>5, <2>1, <2>3
    <3>2. Level(c, i) + Gains(down, i) <= server.windows[i] - server.initial
      BY <1>0, <1>6, <2>1, <3>1 DEF Room, Current
    <3>3. server'.windows[i] - server'.initial = server.windows[i] - server.initial - Units(f, i)
      BY <1>5, <2>3
    <3> DEFINE w == server.windows[i] - server.initial
               L == Level(c, i)
               M == Level(c', i)
               G == Gains(down, i)
               U == Units(f, i)
    <3>4. w \in Int /\ L \in Int /\ M \in Int /\ G \in Int /\ U \in Int
      BY <1>0, <1>1, <1>2, <1>6
    <3>5. L + G <= w /\ M <= L - U
      BY <2>1, <3>2
    <3> HIDE DEF w, L, M, G, U
    <3>6. M + G <= w - U
      BY <3>4, <3>5
    <3> QED  BY <3>3, <3>6 DEF w, M, G, U
  <2> QED  BY <2>2, <2>3
<1>7. ASSUME ~ Ending(c')
      PROVE  /\ i \in Concurrent(server') => Exists(c', i) \/ Resets(c', i)
             /\ Exists(c', i) =>
                  /\ new.state = "CLOSING" => Resets(c', i)
                  /\ "RD" \in new.shut => Resets(c', i) \/ server'.phase[i] \in {"ended", "reset"}
  <2>1. HeldStream(i) /\ ~ Ending(c)
    BY <1>0, <1>7 DEF Held
  <2>2. ASSUME i \in Concurrent(server') PROVE Exists(c', i) \/ Resets(c', i)
    <3>1. ~ IsRst(f, i)
      BY <1>5, <2>2 DEF Concurrent
    <3>2. CASE BeginsFor(server', f, i)
      <4>1. Exists(c, i)
        BY <1>0, <1>3, <2>1, <3>2 DEF Sending
      <4> QED  BY <1>3, <1>4, <1>7, <3>2, <4>1
    <3>3. CASE server'.phase[i] = server.phase[i]
      <4>1. i \in Concurrent(server)
        BY <1>5, <2>2, <3>3 DEF Concurrent
      <4>2. Exists(c, i) \/ Resets(c, i)
        BY <2>1, <4>1 DEF HeldStream
      <4>3. CASE Resets(c, i)
        BY <1>4, <3>1, <4>3
      <4>4. CASE Exists(c, i) /\ ~ Exists(c', i)
        <5>1. EndsData(f, i) /\ "RD" \in old.shut
          BY <1>4, <1>7, <3>1, <4>4
        <5>2. Resets(c, i) \/ server.phase[i] \in {"ended", "reset"}
          BY <2>1, <4>4, <5>1 DEF HeldStream
        <5>3. server.phase[i] \notin {"ended", "reset"}
          BY <1>5, <2>2, <3>3, <5>1 DEF Concurrent
        <5> QED  BY <1>4, <3>1, <5>2, <5>3
      <4> QED  BY <4>2, <4>3, <4>4
    <3> QED  BY <1>5, <3>1, <3>2, <3>3
  <2>3. ASSUME Exists(c', i)
        PROVE  /\ new.state = "CLOSING" => Resets(c', i)
               /\ "RD" \in new.shut => Resets(c', i) \/ server'.phase[i] \in {"ended", "reset"}
    <3>1. /\ old.state = "CLOSING" => Resets(c, i)
          /\ "RD" \in old.shut => Resets(c, i) \/ server.phase[i] \in {"ended", "reset"}
      BY <1>4, <2>1, <2>3 DEF HeldStream
    <3>2. server.phase[i] \in {"ended", "reset"} => server'.phase[i] \in {"ended", "reset"}
      BY <1>3, <1>5
    <3> QED  BY <1>4, <2>3, <3>1, <3>2
  <2> QED  BY <2>2, <2>3
<1>8. Exists(c', i) /\ "WR" \in new.shut => i \in server'.done
  BY <1>0, <1>4, <1>5 DEF Halves
<1>9. ~ Ending(c') => HeldStream(i)'
  BY <1>7 DEF HeldStream, Exists, Resets, Concurrent
<1> QED  BY <1>6, <1>8, <1>9

LEMMA WriteFrameLimits == ASSUME IInv, Ledger, Limits, WriteFrame PROVE Limits'
<1> DEFINE f == c.aob
<1>0. /\ Values(c) /\ ServerValues /\ Room /\ Saying /\ Untold /\ Crossing /\ Deaf /\ Held /\ Halves
      /\ LimitsKept /\ Sending(f) /\ Outgoing(f) /\ ServerShape /\ Good(c)
  BY DEF Limits, IInv, Sending, Ledger, Good
<1>1. /\ c' = AfterSent(c) /\ server' = Taken(server, f) /\ turn' = turn
      /\ down' = IF f.type = "settings" THEN Append(down, Frame("ack", 0)) ELSE down
  BY DEF WriteFrame
<1>2. Writes(c, c', f)
  BY <1>0, <1>1, AfterSentWrites
<1>3. f.type = "ack" => server.pending # <<>>
  <2>1. PICK g : Places(g)
    BY <1>0 DEF Crossing
  <2>2. Len(down) \in Nat /\ (server.pending = <<>> => Len(server.pending) = 0)
    BY <1>0, SequenceFacts DEF Saying
  <2>3. g[0] \in Nat /\ g[Len(down)] = Len(server.pending) /\ g[0] <= g[Len(down)]
    BY <2>1, <2>2 DEF Places, Numbered
  <2>4. Acks(c.urgent) \in Nat /\ Unanswered(c) = Acks(c.urgent) + Ack(f) /\ Unanswered(c) <= g[0]
    <3>1. IsSequence(c.urgent)
      BY <1>0 DEF Good, Books, HasStreams, Quiet
    <3> QED  BY <2>1, <3>1, AcksNat DEF Unanswered, Places, HasAnswers
  <2>5. f.type = "ack" => Ack(f) = 1
    BY DEF Ack
  <2> HIDE DEF f
  <2> QED  BY <2>2, <2>3, <2>4, <2>5
<1>4. Takes(server, server', f)
  BY <1>0, <1>1, <1>3, TakenAllowed
<1>5. Values(c') /\ c'.aob = NoFrame /\ \A i \in Requests : Level(c', i) \in Int
  BY <1>2, LevelInt DEF Writes
<1>6. \A i \in Requests : StreamWrites(c, c', f, i) /\ StreamTaken(server, server', f, i)
  BY <1>2, <1>4 DEF Writes, Takes
<1>7. \A i \in Requests :
        /\ Exists(c', i) /\ server'.phase[i] \notin {"idle", "reset"} =>
             Level(c', i) + Gains(down, i) <= server'.windows[i] - server'.initial
        /\ ~ Ending(c') => HeldStream(i)'
        /\ Exists(c', i) /\ "WR" \in c'.streams[i].shut => i \in server'.done
  <2>1. Ending(c) => Ending(c')
    BY <1>2 DEF Writes
  <2> QED  BY <1>5, <1>6, <2>1, StreamWritten
<1>8. \A i : Gains(down', i) = Gains(down, i)
  <2>1. AllWiden(down) /\ \A i : Gains(down, i) \in Nat
    BY <1>0, SayingWidens
  <2>2. \A i : Gains(Append(down, Frame("ack", 0)), i) = Gains(down, i) + 0
    BY <2>1, AckSaid, GainsAppended
  <2> QED  BY <1>1, <2>1, <2>2
<1>9. ServerValues'
  <2>1. /\ IsSequence(server'.pending)
        /\ \A k \in DOMAIN server'.pending : Allowed(server'.pending[k])
        /\ Allowed(server')
        /\ server'.mode = "starting" => server'.pending = <<>>
    <3>1. CASE f.type = "ack"
      <4>1. /\ server'.pending = Tail(server.pending) /\ server'.limit = server.pending[1].limit
            /\ server'.initial = server.pending[1].initial
            /\ server'.mode = "starting" => server.mode = "starting"
        BY <1>4, <3>1 DEF Takes
      <4>2. /\ IsSequence(Tail(server.pending)) /\ 1 \in DOMAIN server.pending
            /\ DOMAIN Tail(server.pending) = 1 .. Len(server.pending) - 1
            /\ \A k \in 1 .. Len(server.pending) - 1 :
                 Tail(server.pending)[k] = server.pending[k + 1] /\ k + 1 \in DOMAIN server.pending
        BY <1>0, <1>3, <3>1, TailIs DEF ServerValues
      <4> QED  BY <1>0, <1>3, <3>1, <4>1, <4>2 DEF ServerValues, Allowed
    <3>2. CASE f.type # "ack"
      BY <1>0, <1>4, <3>2 DEF Takes, ServerValues, Allowed
    <3> QED  BY <3>1, <3>2
  <2>2. /\ server'.window \in Int
        /\ DOMAIN server'.windows = Ids /\ \A i \in Ids : server'.windows[i] \in Int
    BY <1>4 DEF Takes
  <2> QED  BY <2>1, <2>2 DEF ServerValues, Allowed, IsSequence
<1>10. Room'
  <2>1. c'.window + Gains(down', 0) <= server'.window
    <3>1. /\ c'.window <= c.window - DataIn(f) /\ server'.window = server.window - DataIn(f)
          /\ c.window + Gains(down, 0) <= server.window
      BY <1>0, <1>2, <1>4 DEF Writes, Takes, Room
    <3>2. /\ c'.window \in Int /\ c.window \in Int /\ server.window \in Int /\ DataIn(f) \in Nat
          /\ Gains(down, 0) \in Nat
      BY <1>0, <1>5, SayingWidens DEF Values, ServerValues, DataIn, Outgoing
    <3> QED  BY <1>8, <3>1, <3>2
  <2>2. \A i \in Requests : Exists(c', i) /\ server'.phase[i] \notin {"idle", "reset"} =>
             Level(c', i) + Gains(down', i) <= server'.windows[i] - server'.initial
    BY <1>7, <1>8
  <2> QED  BY <2>1, <2>2 DEF Room, Level, Exists, Gains, Current
<1>11. Saying'
  <2>1. \A i \in Requests : \/ server'.phase[i] = server.phase[i]
                            \/ server'.phase[i] = "reset"
                            \/ server.phase[i] = "idle"
    BY <1>0, <1>6 DEF StreamTaken, BeginsFor, Untold, Unsent
  <2>2. \A h : Says(h) => Says(h)'
    BY <2>1, StillSaid
  <2>3. Says(Frame("ack", 0))'
    BY <2>2, AckSaid
  <2> QED  BY <1>0, <1>1, <2>2, <2>3, NowSaid
<1>12. Untold'
  <2>1. ASSUME NEW i \in Requests, Unsent(c', i)
        PROVE  server'.phase[i] = "idle" /\ ~ Resets(c', i)
    <3>1. Unsent(c, i) /\ ~ Exists(c, i) /\ ~ (f.type = "headers" /\ f.id = i)
      BY <1>5, <2>1, UnsentWritten
    <3>2. server.phase[i] = "idle" /\ ~ Resets(c, i)
      BY <1>0, <3>1 DEF Untold
    <3>3. ~ IsRst(f, i)
      BY <3>2 DEF Resets
    <3> QED  BY <1>6, <3>1, <3>2, <3>3 DEF StreamWrites, StreamTaken, BeginsFor
  <2> QED  BY <2>1 DEF Untold, Unsent, Resets
<1>13. Crossing'
  BY <1>0, <1>1, <1>2, <1>4, WrittenCrosses
<1>14. Sending(c.aob)'
  <2>1. Outgoing(NoFrame) /\ NoFrame.type = "none"
    BY NoFrameIs DEF Outgoing, Sayable
  <2> QED  BY <1>5, <2>1 DEF Sending, Outgoing, Sayable
<1>15. Deaf'
  <2>1. c'.ignoring => ~ Lives(c')
    BY <1>0, <1>2 DEF Deaf, Writes
  <2> QED  BY <2>1 DEF Deaf, Lives, Opened, Exists
<1>16. Held'
  BY <1>7 DEF Held, Ending
<1>17. Halves'
  BY <1>7 DEF Halves, Exists
<1>18. LimitsKept'
  BY <1>4 DEF Takes, LimitsKept
<1>19. Values(c)'
  BY <1>5 DEF Values, Exists, Regular, IsSequence
<1> QED  BY <1>9, <1>10, <1>11, <1>12, <1>13, <1>14, <1>15, <1>16, <1>17, <1>18, <1>19 DEF Limits

(***************************************************************************)
(* s becomes t when the frame f has arrived, whether it reads it or not.   *)
(***************************************************************************)
Hears(s, t, f) ==
  /\ Moves(s, t, f) /\ t.syn = s.syn
  /\ GoesOn(t) => GoesOn(s)
  /\ Lives(t) => Lives(s)
  /\ Ending(s) => Ending(t)
  /\ Acks(t.urgent) \in Nat /\ Acks(s.urgent) \in Nat
  /\ f.type = "settings" => Acks(t.urgent) <= Acks(s.urgent) + 1
  /\ f.type = "settings" /\ GoesOn(t) => Settles(s, t, f)

\* Who reads no more has ended, or all its requests have.
LEMMA UnreadEnds ==
  ASSUME NEW s, Books(s), ~ WantRead(s)
  PROVE  ~ Lives(s)
<1>1. CASE "TERM_SENT" \in s.goaway
  BY <1>1 DEF Lives
<1>2. CASE "TERM_SENT" \notin s.goaway
  <2>1. "SENT" \notin s.goaway
    BY <1>2 DEF Books
  <2>2. ~ (s.out + s.in > 0) /\ "RECV" \in s.goaway
    BY <1>2, <2>1 DEF WantRead
  <2>3. Opened(s) \in SUBSET Ids /\ Pushed(s) \in SUBSET Ids
    BY DEF Opened, Pushed, Ids
  <2>4. s.out \in Nat /\ s.in \in Nat /\ s.out = Cardinality(Opened(s))
    BY <2>3, IdsFinite DEF Books
  <2>5. s.out = 0
    BY <2>2, <2>4
  <2>6. Opened(s) = {}
    BY <2>3, <2>4, <2>5, IdsAreFinite, FS_EmptySet
  <2> QED  BY <2>2, <2>6 DEF Lives
<1> QED  BY <1>1, <1>2

LEMMA ReceiveHears ==
  ASSUME IInv, Ledger, Limits, Receive
  PROVE  Hears(c, c', Head(down)) /\ Says(Head(down))
<1> PICK f : f = Head(down)
  OBVIOUS
<1> DEFINE t == [c EXCEPT !.ignoring = TRUE]
<1>1. /\ Good(c) /\ down # <<>> /\ IsSequence(down) /\ \A k \in DOMAIN down : Says(down[k])
      /\ Quiet(c.urgent)
  BY DEF Receive, Limits, Saying, Good, Ledger, Books, HasStreams
<1>2. Says(f) /\ Told(f) /\ Widens(f) /\ Expected(f)
  <2>1. f = down[1] /\ 1 \in DOMAIN down
    BY <1>1, TailIs
  <2> QED  BY <1>1, <2>1 DEF Says, Told
<1>3. \/ c.ignoring /\ c' = c
      \/ c' = Received(c, f)
      \/ c' = t /\ ~ WantRead(c)
  BY DEF Receive
<1>4. Acks(c.urgent) \in Nat
  BY <1>1, AcksNat DEF Quiet
<1>5. CASE c.ignoring /\ c' = c
  <2>1. Moves(c, c', f)
    BY <1>1, <1>2, <1>5, MovesNowhere
  <2>2. ~ GoesOn(c')
    BY <1>5 DEF GoesOn
  <2> QED  BY <1>2, <1>4, <1>5, <2>1, <2>2 DEF Hears
<1>6. CASE c' = Received(c, f)
  <2>1. Moves(c, c', f) /\ (f.type = "settings" => Settles(c, c', f))
    BY <1>1, <1>2, <1>6, ReceivedMoves
  <2>2. Goes(c, c', DataIn(f))
    BY <1>1, <1>2, <1>6, ReceivedGoes DEF Good
  <2>3. c'.syn = c.syn
    <3>1. f.type = "goaway" => f.id \in Nat
      BY <1>1, TailIs DEF IInv, OnTheWay, Truthful
    <3>2. Leads(c, c', RefusedBy(f))
      BY <1>6, <3>1, ReceivedLeads DEF IInv
    <3> QED  BY <3>2 DEF Leads
  <2>4. (GoesOn(c') => GoesOn(c)) /\ (Lives(c') => Lives(c)) /\ (Ending(c) => Ending(c'))
    BY <2>2, WentOn, LivesOn DEF Goes
  <2>5. Acks(c'.urgent) \in Nat
    BY <2>2, AcksNat DEF Goes, Books, HasStreams, Quiet
  <2>6. f.type = "settings" => Acks(c'.urgent) <= Acks(c.urgent) + 1
    BY <1>4, <2>1 DEF Settles
  <2> QED  BY <1>2, <1>4, <2>1, <2>3, <2>4, <2>5, <2>6 DEF Hears
<1>7. CASE c' = t /\ ~ WantRead(c)
  <2>1. /\ t.streams = c.streams /\ t.goaway = c.goaway /\ t.ignoring = TRUE /\ t.left = c.left
        /\ t.urgent = c.urgent /\ t.reg = c.reg /\ t.syn = c.syn /\ t.aob = c.aob
        /\ t.window = c.window /\ t.limit = c.limit /\ t.initial = c.initial
    BY <1>1 DEF Good, Books, HasStreams, SessionFields
  <2> HIDE DEF t
  <2>2. (Lives(t) <=> Lives(c)) /\ (Ending(t) <=> Ending(c))
    BY <2>1 DEF Lives, Ending, Opened, Exists
  <2>3. ~ Lives(c)
    BY <1>1, <1>7, UnreadEnds DEF Good
  <2>4. Beside(c, t) /\ Queues(c, t, 0)
    BY <2>1, <2>2, <2>3 DEF Beside, SameTerms, Queues
  <2>5. Moves(c, t, f)
    BY <1>1, <1>2, <2>1, <2>4, SameMoves
  <2>6. ~ GoesOn(t)
    BY <2>1 DEF GoesOn
  <2>7. Acks(t.urgent) <= Acks(c.urgent) + 1
    BY <1>4, <2>1
  <2> QED  BY <1>2, <1>4, <1>7, <2>1, <2>2, <2>5, <2>6, <2>7 DEF Hears
<1> QED  BY <1>3, <1>5, <1>6, <1>7

LEMMA StreamHeard ==
  ASSUME Limits, NEW i \in Requests, NEW f, f = Head(down), down # <<>>, Says(f),
         StreamMoves(c, c', f, i), Ending(c) => Ending(c'), server' = server, Level(c', i) \in Int
  PROVE  /\ Exists(c', i) /\ Current(i) =>
              Level(c', i) + Gains(Tail(down), i) <= server.windows[i] - server.initial
         /\ ~ Ending(c') => HeldStream(i)'
         /\ Exists(c', i) /\ "WR" \in c'.streams[i].shut => i \in server.done
<1> DEFINE old == c.streams[i]
           new == c'.streams[i]
<1>0. /\ Values(c) /\ ServerValues /\ Room /\ Held /\ Halves /\ i \in Ids /\ Saying
      /\ server.windows[i] \in Int /\ server.initial \in Int /\ AllWiden(down)
  BY SayingWidens DEF Limits, Ids, ServerValues, Allowed
<1>1. /\ Gains(Tail(down), i) \in Int /\ Gain(f, i) \in Nat /\ Level(c, i) \in Int
      /\ Gains(down, i) = Gain(f, i) + Gains(Tail(down), i)
  BY <1>0, GainsTail, LevelInt
<1>2. /\ Resets(c, i) => Resets(c', i)
      /\ Exists(c, i) /\ ~ Exists(c', i) =>
           \/ Ending(c')
           \/ About(f, i) /\ f.type = "rst"
           \/ About(f, i) /\ EndOf(f) /\ "WR" \in old.shut
      /\ Exists(c', i) =>
           /\ Exists(c, i)
           /\ Level(c', i) <= Level(c, i) + Gain(f, i)
           /\ "WR" \in new.shut => "WR" \in old.shut
           /\ "RD" \in new.shut => "RD" \in old.shut \/ Resets(c', i) \/ (About(f, i) /\ EndOf(f))
           /\ new.state = "CLOSING" => old.state = "CLOSING" \/ Resets(c', i)
  BY DEF StreamMoves
<1>3. About(f, i) =>
        /\ EndOf(f) => server.phase[i] \in {"ended", "reset"}
        /\ f.type = "rst" => server.phase[i] = "reset"
  BY DEF Says, About
<1>4. ASSUME Exists(c', i), Current(i)
      PROVE  Level(c', i) + Gains(Tail(down), i) <= server.windows[i] - server.initial
  <2>1. Level(c, i) + Gains(down, i) <= server.windows[i] - server.initial
    BY <1>0, <1>2, <1>4 DEF Room
  <2>2. Level(c', i) <= Level(c, i) + Gain(f, i)
    BY <1>2, <1>4
  <2> DEFINE w == server.windows[i] - server.initial
             L == Level(c, i)
             M == Level(c', i)
             G == Gain(f, i)
             T == Gains(Tail(down), i)
  <2>3. w \in Int /\ L \in Int /\ M \in Int /\ G \in Int /\ T \in Int
    BY <1>0, <1>1
  <2>4. L + (G + T) <= w /\ M <= L + G
    BY <1>1, <2>1, <2>2
  <2> HIDE DEF w, L, M, G, T
  <2>5. M + T <= w
    BY <2>3, <2>4
  <2> QED  BY <2>5 DEF w, M, T
<1>5. ASSUME ~ Ending(c')
      PROVE  /\ i \in Concurrent(server) => Exists(c', i) \/ Resets(c', i)
             /\ Exists(c', i) =>
                  /\ new.state = "CLOSING" => Resets(c', i)
                  /\ "RD" \in new.shut => Resets(c', i) \/ server.phase[i] \in {"ended", "reset"}
  <2>1. HeldStream(i)
    BY <1>0, <1>5 DEF Held
  <2>2. ASSUME i \in Concurrent(server), Exists(c, i), ~ Exists(c', i) PROVE FALSE
    <3>1. \/ About(f, i) /\ f.type = "rst"
          \/ About(f, i) /\ EndOf(f) /\ "WR" \in old.shut
      BY <1>2, <1>5, <2>2
    <3>2. "WR" \in old.shut => i \in server.done
      BY <1>0, <2>2 DEF Halves
    <3> QED  BY <1>3, <2>2, <3>1, <3>2 DEF Concurrent
  <2> QED  BY <1>2, <1>3, <2>1, <2>2 DEF HeldStream
<1>6. Exists(c', i) /\ "WR" \in new.shut => i \in server.done
  BY <1>0, <1>2 DEF Halves
<1>7. ~ Ending(c') => HeldStream(i)'
  BY <1>5 DEF HeldStream, Exists, Resets, Concurrent
<1> QED  BY <1>4, <1>6, <1>7

\* Of the SETTINGS on their way one has arrived, or none.
LEMMA HeardCrosses ==
  ASSUME ServerValues, Saying, Crossing, down # <<>>, Hears(c, c', Head(down)),
         server' = server, down' = Tail(down), turn' # "failed" => turn # "failed" /\ ~ c'.failed
  PROVE  Crossing'
<1> DEFINE f == Head(down)
           n == Len(down)
           P == server.pending
<1>1. PICK g : Places(g)
  BY DEF Crossing
<1>2. /\ n \in Nat /\ n >= 1 /\ DOMAIN down = 1 .. n /\ IsSequence(down)
      /\ f = down[1] /\ IsSequence(Tail(down)) /\ DOMAIN Tail(down) = 1 .. n - 1
      /\ \A k \in 1 .. n - 1 : Tail(down)[k] = down[k + 1]
  <2>1. n \in Nat /\ DOMAIN down = 1 .. n /\ IsSequence(down)
    BY SequenceFacts DEF Saying
  <2>2. /\ f = down[1] /\ 1 \in DOMAIN down /\ IsSequence(Tail(down))
        /\ DOMAIN Tail(down) = 1 .. n - 1 /\ \A k \in 1 .. n - 1 : Tail(down)[k] = down[k + 1]
    BY TailIs DEF Saying
  <2> QED  BY <2>1, <2>2
<1>3. Len(Tail(down)) = n - 1
  BY <1>2, SequenceFacts
<1>4. /\ g \in [0 .. n -> Nat] /\ g[n] = Len(P)
      /\ Unanswered(c) \in Nat /\ Unanswered(c) <= g[0]
      /\ \A j, k \in 0 .. n : j <= k => g[j] <= g[k]
      /\ \A k \in 1 .. n : IF down[k].type = "settings"
                           THEN g[k] = g[k - 1] + 1 /\ down[k] = SettingsFrame(P[g[k]])
                           ELSE g[k] = g[k - 1]
      /\ GoesOn(c) /\ turn # "failed" =>
           /\ g[0] = Unanswered(c)
           /\ c.limit = IF g[0] = 0 THEN server.limit ELSE P[g[0]].limit
           /\ c.initial = IF g[0] = 0 THEN server.initial ELSE P[g[0]].initial
  BY <1>1 DEF Places, Numbered, HasAnswers, Obeys
<1>5. 0 \in 0 .. n /\ 1 \in 0 .. n /\ 1 \in 1 .. n /\ g[0] \in Nat /\ g[1] \in Nat
  BY <1>2, <1>4
<1>6. /\ Acks(c'.urgent) \in Nat /\ Acks(c.urgent) \in Nat /\ Ack(c.aob) \in {0, 1}
      /\ Unanswered(c) = Acks(c.urgent) + Ack(c.aob)
      /\ Unanswered(c') = Acks(c'.urgent) + Ack(c.aob)
  BY DEF Hears, Moves, Unanswered, Ack
<1> DEFINE h == [k \in 0 .. n - 1 |-> g[k + 1]]
<1>7. h \in [0 .. n - 1 -> Nat] /\ \A k \in 0 .. n - 1 : h[k] = g[k + 1]
  BY <1>2, <1>4
<1> HIDE DEF h
<1>8. h[n - 1] = Len(P) /\ h[0] = g[1]
  BY <1>2, <1>4, <1>7
<1>9. \A j, k \in 0 .. n - 1 : j <= k => h[j] <= h[k]
  BY <1>2, <1>4, <1>7
<1>10. \A k \in 1 .. n - 1 : IF down'[k].type = "settings"
                             THEN h[k] = h[k - 1] + 1 /\ down'[k] = SettingsFrame(P[h[k]])
                             ELSE h[k] = h[k - 1]
  <2> SUFFICES ASSUME NEW k \in 1 .. n - 1
               PROVE  IF down'[k].type = "settings"
                      THEN h[k] = h[k - 1] + 1 /\ down'[k] = SettingsFrame(P[h[k]])
                      ELSE h[k] = h[k - 1]
    OBVIOUS
  <2>1. /\ k \in 0 .. n - 1 /\ k - 1 \in 0 .. n - 1 /\ k + 1 \in 1 .. n
        /\ (k - 1) + 1 = k /\ (k + 1) - 1 = k
    BY <1>2
  <2>2. h[k] = g[k + 1] /\ h[k - 1] = g[k] /\ down'[k] = down[k + 1]
    BY <1>2, <1>7, <2>1
  <2>3. IF down[k + 1].type = "settings"
        THEN g[k + 1] = g[(k + 1) - 1] + 1 /\ down[k + 1] = SettingsFrame(P[g[k + 1]])
        ELSE g[k + 1] = g[(k + 1) - 1]
    BY <1>4, <2>1
  <2> QED  BY <2>1, <2>2, <2>3
<1>11. Numbered(h, down', P)
  BY <1>3, <1>7, <1>8, <1>9, <1>10 DEF Numbered
<1>12. IF f.type = "settings" THEN g[1] = g[0] + 1 /\ f = SettingsFrame(P[g[1]]) ELSE g[1] = g[0]
  <2>1. IF down[1].type = "settings"
        THEN g[1] = g[1 - 1] + 1 /\ down[1] = SettingsFrame(P[g[1]]) ELSE g[1] = g[1 - 1]
    BY <1>4, <1>5
  <2>2. 1 - 1 = 0
    OBVIOUS
  <2> QED  BY <1>2, <2>1, <2>2
<1>13. CASE f.type = "settings"
  <2>1. g[1] = g[0] + 1 /\ f.limit = P[g[1]].limit /\ f.initial = P[g[1]].initial
    BY <1>12, <1>13 DEF SettingsFrame
  <2>2. Acks(c'.urgent) <= Acks(c.urgent) + 1
    BY <1>13 DEF Hears
  <2>3. HasAnswers(c', h[0])
    BY <1>4, <1>5, <1>6, <1>8, <2>1, <2>2 DEF HasAnswers
  <2>4. ASSUME turn' # "failed", GoesOn(c')
        PROVE  /\ h[0] = Unanswered(c') /\ h[0] # 0
               /\ c'.limit = P[h[0]].limit /\ c'.initial = P[h[0]].initial
    <3>1. Settles(c, c', f) /\ GoesOn(c) /\ turn # "failed" /\ ~ c'.failed
      BY <1>13, <2>4 DEF Hears
    <3>2. /\ c'.limit = f.limit /\ c'.initial = f.initial
          /\ Acks(c'.urgent) = Acks(c.urgent) + 1
      BY <2>4, <3>1 DEF Settles
    <3>3. g[0] = Unanswered(c)
      BY <1>4, <3>1
    <3> QED  BY <1>5, <1>6, <1>8, <2>1, <3>2, <3>3
  <2>5. turn' # "failed" => Obeys(c', h[0], server)
    BY <2>4 DEF Obeys
  <2> QED  BY <1>11, <2>3, <2>5 DEF Crossing, Places
<1>14. CASE f.type # "settings"
  <2>1. g[1] = g[0]
    BY <1>12, <1>14
  <2>2. SameTerms(c, c') /\ (GoesOn(c') => GoesOn(c))
    BY <1>14 DEF Hears, Moves
  <2>3. Unanswered(c') = Unanswered(c) /\ c'.limit = c.limit /\ c'.initial = c.initial
    BY <1>6, <2>2 DEF SameTerms
  <2>4. HasAnswers(c', h[0])
    BY <1>4, <1>8, <2>1, <2>3 DEF HasAnswers
  <2>5. turn' # "failed" => Obeys(c', h[0], server)
    BY <1>4, <1>8, <2>1, <2>2, <2>3 DEF Obeys
  <2> QED  BY <1>11, <2>4, <2>5 DEF Crossing, Places
<1> QED  BY <1>13, <1>14

LEMMA ReceiveLimits == ASSUME IInv, Ledger, Limits, Receive PROVE Limits'
<1> PICK f : f = Head(down)
  OBVIOUS
<1>0. /\ Values(c) /\ ServerValues /\ Room /\ Saying /\ Untold /\ Crossing /\ Sending(c.aob) /\ Deaf
      /\ Held /\ Halves /\ LimitsKept
  BY DEF Limits
<1>1. /\ down # <<>> /\ server' = server /\ down' = Tail(down) /\ turn = "recv"
      /\ turn' = IF c'.failed THEN "failed" ELSE turn
  BY DEF Receive
<1>2. Hears(c, c', f) /\ Says(f)
  BY ReceiveHears
<1>3. /\ Moves(c, c', f) /\ Values(c') /\ c'.aob = c.aob /\ c'.syn = c.syn
      /\ Ending(c) => Ending(c')
      /\ \A i \in Requests : StreamMoves(c, c', f, i) /\ Level(c', i) \in Int
  BY <1>2, LevelInt DEF Hears, Moves
<1>4. \A i \in Requests :
        /\ Exists(c', i) /\ Current(i) =>
             Level(c', i) + Gains(down', i) <= server.windows[i] - server.initial
        /\ ~ Ending(c') => HeldStream(i)'
        /\ Exists(c', i) /\ "WR" \in c'.streams[i].shut => i \in server.done
  BY <1>0, <1>1, <1>2, <1>3, StreamHeard DEF Limits
<1>5. ServerValues' /\ LimitsKept'
  BY <1>0, <1>1 DEF ServerValues, Allowed, IsSequence, LimitsKept
<1>6. Room'
  <2>1. c'.window + Gains(down', 0) <= server.window
    <3>1. c'.window <= c.window + Gain(f, 0) /\ c.window + Gains(down, 0) <= server.window
      BY <1>0, <1>3 DEF Moves, Room
    <3>2. /\ Gains(Tail(down), 0) \in Int /\ Gain(f, 0) \in Nat
          /\ Gains(down, 0) = Gain(f, 0) + Gains(Tail(down), 0)
      BY <1>0, <1>1, SayingWidens, GainsTail
    <3>3. c'.window \in Int /\ c.window \in Int /\ server.window \in Int
      BY <1>0, <1>3 DEF Values, ServerValues
    <3> DEFINE w == c.window
               v == c'.window
               G == Gain(f, 0)
               T == Gains(Tail(down), 0)
    <3>4. /\ w + (G + T) <= server.window /\ v <= w + G
          /\ w \in Int /\ v \in Int /\ G \in Int /\ T \in Int
      BY <3>1, <3>2, <3>3
    <3> HIDE DEF w, v, G, T
    <3>5. v + T <= server.window
      BY <3>3, <3>4
    <3> QED  BY <1>1, <3>5 DEF v, T
  <2> QED  BY <1>1, <1>4, <2>1 DEF Room, Level, Exists, Gains, Current
<1>7. Saying'
  <2>1. /\ IsSequence(Tail(down)) /\ DOMAIN Tail(down) = 1 .. Len(down) - 1
        /\ \A k \in 1 .. Len(down) - 1 : Tail(down)[k] = down[k + 1] /\ k + 1 \in DOMAIN down
    BY <1>0, <1>1, TailIs DEF Saying
  <2>2. \A h : Says(h) => Says(h)'
    BY <1>1 DEF Says, Told, Expected, Widens, EndOf
  <2>3. ASSUME NEW k \in DOMAIN down' PROVE Says(down[k])'
    <3> PICK h : h = down'[k]
      OBVIOUS
    <3>1. Says(h)
      BY <1>0, <1>1, <2>1 DEF Saying
    <3>2. Says(h)'
      BY <2>2, <3>1
    <3> QED  BY <3>2 DEF Says, Told, Expected, Widens, EndOf
  <2> QED  BY <1>1, <2>1, <2>3 DEF Saying
<1>8. \A i \in Requests : Unsent(c', i) =>
        /\ Unsent(c, i) /\ server.phase[i] = "idle" /\ ~ Resets(c', i) /\ ~ About(f, i)
  <2> SUFFICES ASSUME NEW i \in Requests, Unsent(c', i)
               PROVE  Unsent(c, i) /\ server.phase[i] = "idle" /\ ~ Resets(c', i) /\ ~ About(f, i)
    OBVIOUS
  <2>1. Unsent(c, i) /\ server.phase[i] = "idle" /\ ~ Resets(c, i)
    BY <1>0, <1>3 DEF Unsent, Untold
  <2>2. ~ About(f, i)
    BY <1>2, <2>1 DEF Says, About
  <2>3. ASSUME Exists(c, i) PROVE Level(c, i) <= 0
    BY <1>0, <2>1, <2>3 DEF Unsent, Ledger, Sending
  <2>4. ~ Offends(c, f, i)
    <3>1. /\ f.type # "none"
          /\ f.type = "settings" => f.initial \in Int /\ f.initial <= MaxWindow
      BY <1>2 DEF Says, Told, Expected
    <3>2. ASSUME Exists(c, i), f.type = "settings" PROVE ~ Overflows(c, i, f.initial)
      <4>1. /\ c.streams[i].window \in Int /\ c.initial \in Int /\ MaxWindow \in Int
            /\ c.streams[i].window - c.initial <= 0
        BY <1>0, <2>3, <3>2, SessionAssumed DEF Values, Level, SessionAssumption
      <4>2. c.streams[i].window + f.initial - c.initial <= MaxWindow
        BY <3>1, <3>2, <4>1
      <4> QED  BY <3>1, <3>2, <4>1, <4>2 DEF Overflows
    <3> QED  BY <2>2, <3>1, <3>2 DEF Offends
  <2> QED  BY <1>3, <2>1, <2>2, <2>4 DEF StreamMoves
<1>9. Untold'
  BY <1>1, <1>8 DEF Untold, Unsent, Resets
<1>10. Crossing'
  <2>1. turn' # "failed" => turn # "failed" /\ ~ c'.failed
    BY <1>1
  <2> QED  BY <1>0, <1>1, <1>2, <2>1, HeardCrosses
<1>11. Sending(c.aob)'
  <2>1. Outgoing(c.aob)
    BY <1>0 DEF Sending
  <2>2. ASSUME c.aob.type = "headers"
        PROVE  /\ Exists(c', c.aob.id) => Level(c', c.aob.id) <= 0
               /\ ~ Ending(c') => Exists(c', c.aob.id)
    <3> PICK i : i = c.aob.id
      OBVIOUS
    <3>1. i \in Requests /\ Unsent(c', i)
      BY <1>3, <2>1, <2>2 DEF Outgoing, Unsent
    <3>2. ~ About(f, i)
      BY <1>8, <3>1
    <3>3. Gain(f, i) = 0
      BY <3>2 DEF Gain, About
    <3>4. /\ Exists(c, i) => Level(c, i) <= 0
          /\ ~ Ending(c) => Exists(c, i)
      BY <1>0, <2>2 DEF Sending
    <3>5. /\ Exists(c', i) => Exists(c, i) /\ Level(c', i) <= Level(c, i) + 0
          /\ Exists(c, i) /\ ~ Exists(c', i) => Ending(c')
      BY <1>3, <3>1, <3>2, <3>3 DEF StreamMoves
    <3>6. Level(c, i) \in Int /\ Level(c', i) \in Int
      BY <1>0, <1>3, <3>1, LevelInt
    <3>7. Exists(c', i) => Level(c', i) <= 0
      BY <3>4, <3>5, <3>6
    <3> QED  BY <1>3, <3>4, <3>5, <3>7
  <2> QED  BY <1>0, <1>1, <1>3, <2>1, <2>2
           DEF Sending, Outgoing, Sayable, Exists, Level, Ending, Concurrent, Current
<1>12. Deaf'
  <2>1. c'.ignoring => ~ Lives(c')
    BY <1>0, <1>2, <1>3 DEF Deaf, Hears, Moves
  <2> QED  BY <2>1 DEF Deaf, Lives, Opened, Exists
<1>13. Held'
  BY <1>4 DEF Held, Ending
<1>14. Halves'
  BY <1>1, <1>4 DEF Halves, Exists
<1>15. Values(c)'
  BY <1>3 DEF Values, Exists, Regular, IsSequence
<1> QED  BY <1>5, <1>6, <1>7, <1>9, <1>10, <1>11, <1>12, <1>13, <1>14, <1>15 DEF Limits

LEMMA WaitLimits == ASSUME Limits, SendDone \/ RecvDone PROVE Limits'
<1>1. c' = c /\ server' = server /\ down' = down /\ turn # "failed"
  BY DEF SendDone, RecvDone
<1>2. Crossing'
  <2>1. PICK g : Places(g)
    BY DEF Limits, Crossing
  <2>2. /\ Numbered(g, down, server.pending) /\ HasAnswers(c, g[0]) /\ Obeys(c, g[0], server)
    BY <1>1, <2>1 DEF Places
  <2>3. /\ Numbered(g, down', server'.pending) /\ HasAnswers(c', g[0]) /\ Obeys(c', g[0], server')
    BY <1>1, <2>2
  <2> QED  BY <2>3 DEF Crossing, Places
<1>3. /\ Values(c)' /\ ServerValues' /\ Room' /\ Untold' /\ Sending(c.aob)' /\ Deaf'
  BY <1>1 DEF Limits, Values, Exists, Regular, IsSequence, ServerValues, Allowed, Room, Level,
              Gains, Current, Untold, Unsent, Resets, Sending, Outgoing, Sayable, Ending, Concurrent,
              Deaf, Lives, Opened
<1>4. Saying'
  <2>1. \A h : Says(h) => Says(h)'
    BY <1>1 DEF Says, Told, Expected, Widens, EndOf
  <2> QED  BY <1>1, <2>1, NowSaid DEF Limits
<1>5. Held' /\ Halves' /\ LimitsKept'
  BY <1>1 DEF Limits, Held, HeldStream, Ending, Exists, Resets, Concurrent, Halves, LimitsKept
<1> QED  BY <1>2, <1>3, <1>4, <1>5 DEF Limits

-----------------------------------------------------------------------------
(* The server's steps                                                      *)

\* What becomes of a request's phase
Ages(p, q) ==
  /\ p = "idle" <=> q = "idle"
  /\ p = "reset" => q = "reset"
  /\ p = "ended" => q \in {"ended", "reset"}
  /\ q \in {"open", "answering"} => p \in {"open", "answering"}
  /\ q = "ended" => p \in {"answering", "ended"}

\* The server allows u what f says of it.
Allows(u, f) ==
  /\ u.window \in Int /\ u.window = server.window + Gain(f, 0)
  /\ DOMAIN u.windows = Ids /\ \A i \in Ids : u.windows[i] \in Int
  /\ \A i \in Requests : u.windows[i] = server.windows[i] + Gain(f, i)
  /\ u.limit = server.limit /\ u.initial = server.initial /\ u.done = server.done
  /\ u.overrun = server.overrun /\ u.crowded = server.crowded
  /\ u.mode = "starting" => server.mode = "starting" /\ u.pending = server.pending
  /\ \/ f.type # "settings" /\ u.pending = server.pending
     \/ \E x : Allowed(x) /\ f = SettingsFrame(x) /\ u.pending = Append(server.pending, x)
  /\ \A i \in Requests : Ages(server.phase[i], u.phase[i])

LEMMA AgesStill ==
  ASSUME NEW f, Says(f), \A i \in Requests : Ages(server.phase[i], server'.phase[i])
  PROVE  Says(f)'
<1>1. Told(f)'
  BY DEF Says, Told, Expected, Widens
<1>2. ASSUME NEW i \in Requests, f.id = i, f.type # "goaway"
      PROVE  /\ server'.phase[i] # "idle"
             /\ EndOf(f) => server'.phase[i] \in {"ended", "reset"}
             /\ f.type = "rst" => server'.phase[i] = "reset"
  BY <1>2 DEF Says, Ages
<1> QED  BY <1>1, <1>2 DEF Says, EndOf

\* The next of the SETTINGS that wait is said, or nothing about them.
LEMMA SaidCrosses ==
  ASSUME ServerValues, Saying, Crossing, c' = c, turn' = turn, NEW f, Allows(server', f),
         down' = Append(down, f)
  PROVE  Crossing'
<1> DEFINE n == Len(down)
           P == server.pending
           Q == server'.pending
<1>1. PICK g : Places(g)
  BY DEF Crossing
<1>2. /\ n \in Nat /\ DOMAIN down = 1 .. n /\ IsSequence(down)
      /\ Len(P) \in Nat /\ DOMAIN P = 1 .. Len(P) /\ IsSequence(P)
  BY SequenceFacts DEF Saying, ServerValues
<1>3. /\ Len(down') = n + 1 /\ down'[n + 1] = f /\ \A k \in 1 .. n : down'[k] = down[k]
  <2>1. IsSequence(down') /\ DOMAIN down' = 1 .. n + 1
    BY <1>2, Appended
  <2>2. Len(down') = n + 1
    BY <1>2, <2>1, SequenceFacts
  <2>3. Append(down, f)[n + 1] = f /\ \A k \in 1 .. n : Append(down, f)[k] = down[k]
    BY <1>2, Appended
  <2> QED  BY <2>2, <2>3
<1>4. /\ g \in [0 .. n -> Nat] /\ g[n] = Len(P)
      /\ \A j, k \in 0 .. n : j <= k => g[j] <= g[k]
      /\ \A k \in 1 .. n : IF down[k].type = "settings"
                           THEN g[k] = g[k - 1] + 1 /\ down[k] = SettingsFrame(P[g[k]])
                           ELSE g[k] = g[k - 1]
      /\ HasAnswers(c, g[0]) /\ (turn # "failed" => Obeys(c, g[0], server))
  BY <1>1 DEF Places, Numbered
<1>5. 0 \in 0 .. n /\ n \in 0 .. n /\ g[0] \in Nat /\ \A k \in 0 .. n : g[k] \in 0 .. Len(P)
  BY <1>2, <1>4
<1> DEFINE more == IF f.type = "settings" THEN 1 ELSE 0
<1>6. /\ Len(Q) = Len(P) + more /\ \A k \in 1 .. Len(P) : Q[k] = P[k]
      /\ f.type = "settings" => f = SettingsFrame(Q[Len(P) + 1])
  <2>1. CASE f.type # "settings" /\ Q = P
    BY <1>2, <2>1
  <2>2. CASE \E x : Allowed(x) /\ f = SettingsFrame(x) /\ Q = Append(P, x)
    <3> PICK x : f = SettingsFrame(x) /\ Q = Append(P, x)
      BY <2>2
    <3>1. f.type = "settings"
      BY DEF SettingsFrame
    <3>2. IsSequence(Append(P, x)) /\ DOMAIN Append(P, x) = 1 .. Len(P) + 1
      BY <1>2, Appended
    <3>3. Len(Append(P, x)) = Len(P) + 1
      BY <1>2, <3>2, SequenceFacts
    <3>4. /\ Append(P, x)[Len(P) + 1] = x
          /\ \A k \in 1 .. Len(P) : Append(P, x)[k] = P[k]
      BY <1>2, Appended
    <3> QED  BY <3>1, <3>3, <3>4
  <2> QED  BY <2>1, <2>2 DEF Allows
<1> DEFINE h == [k \in 0 .. n + 1 |-> IF k = n + 1 THEN g[n] + more ELSE g[k]]
<1>7. more \in Nat /\ (f.type = "settings" => more = 1) /\ (f.type # "settings" => more = 0)
  OBVIOUS
<1> HIDE DEF more
<1>8. /\ h \in [0 .. n + 1 -> Nat] /\ h[n + 1] = Len(P) + more
      /\ \A k \in 0 .. n : h[k] = g[k]
  BY <1>2, <1>4, <1>5, <1>7
<1> HIDE DEF h
<1>9. \A j, k \in 0 .. n + 1 : j <= k => h[j] <= h[k]
  <2> SUFFICES ASSUME NEW j \in 0 .. n + 1, NEW k \in 0 .. n + 1, j <= k PROVE h[j] <= h[k]
    OBVIOUS
  <2>1. CASE k = n + 1
    <3>1. CASE j = n + 1
      BY <1>2, <1>7, <1>8, <2>1, <3>1
    <3>2. CASE j \in 0 .. n
      BY <1>2, <1>5, <1>7, <1>8, <2>1, <3>2
    <3> QED  BY <1>2, <3>1, <3>2
  <2>2. CASE k \in 0 .. n
    <3>1. j \in 0 .. n
      BY <1>2, <2>2
    <3> QED  BY <1>4, <1>8, <2>2, <3>1
  <2> QED  BY <1>2, <2>1, <2>2
<1>10. \A k \in 1 .. n + 1 : IF down'[k].type = "settings"
                             THEN h[k] = h[k - 1] + 1 /\ down'[k] = SettingsFrame(Q[h[k]])
                             ELSE h[k] = h[k - 1]
  <2> SUFFICES ASSUME NEW k \in 1 .. n + 1
               PROVE  IF down'[k].type = "settings"
                      THEN h[k] = h[k - 1] + 1 /\ down'[k] = SettingsFrame(Q[h[k]])
                      ELSE h[k] = h[k - 1]
    OBVIOUS
  <2>1. CASE k = n + 1
    <3>1. h[k] = Len(P) + more /\ k - 1 = n /\ h[k - 1] = Len(P) /\ down'[k] = f
      BY <1>2, <1>3, <1>4, <1>5, <1>8, <2>1
    <3>2. CASE f.type = "settings"
      BY <1>6, <1>7, <3>1, <3>2
    <3>3. CASE f.type # "settings"
      BY <1>2, <1>7, <3>1, <3>3
    <3> QED  BY <3>2, <3>3
  <2>2. CASE k \in 1 .. n
    <3>1. k \in 0 .. n /\ k - 1 \in 0 .. n
      BY <1>2, <2>2
    <3>2. h[k] = g[k] /\ h[k - 1] = g[k - 1] /\ down'[k] = down[k]
      BY <1>3, <1>8, <2>2, <3>1
    <3>3. CASE down[k].type = "settings"
      <4>1. g[k] = g[k - 1] + 1 /\ down[k] = SettingsFrame(P[g[k]])
        BY <1>4, <2>2, <3>3
      <4>2. g[k] \in 1 .. Len(P)
        BY <1>2, <1>5, <3>1, <4>1
      <4>3. Q[g[k]] = P[g[k]]
        BY <1>6, <4>2
      <4> QED  BY <3>2, <3>3, <4>1, <4>3
    <3>4. CASE down[k].type # "settings"
      BY <1>4, <2>2, <3>2, <3>4
    <3> QED  BY <3>3, <3>4
  <2> QED  BY <1>2, <2>1, <2>2
<1>11. h[0] = g[0] /\ h[n + 1] = Len(Q)
  BY <1>5, <1>6, <1>8
<1>12. Numbered(h, down', Q)
  BY <1>3, <1>8, <1>9, <1>10, <1>11 DEF Numbered
<1>13. HasAnswers(c', h[0])
  BY <1>4, <1>11 DEF HasAnswers
<1>14. turn' # "failed" => Obeys(c', h[0], server')
  <2>1. g[0] # 0 => Q[g[0]] = P[g[0]]
    <3>1. g[0] # 0 => g[0] \in 1 .. Len(P)
      BY <1>2, <1>5
    <3> QED  BY <1>6, <3>1
  <2>2. server'.limit = server.limit /\ server'.initial = server.initial
    BY DEF Allows
  <2> QED  BY <1>4, <1>11, <2>1, <2>2 DEF Obeys
<1> QED  BY <1>12, <1>13, <1>14 DEF Crossing, Places

\* What the server is to the client, after it has said something
LEMMA SaidBeside ==
  ASSUME Limits, Ledger, c' = c, NEW f, Widens(f), Allows(server', f)
  PROVE  /\ Values(c)' /\ ServerValues' /\ Untold' /\ Sending(c.aob)' /\ Deaf' /\ Held' /\ Halves'
         /\ LimitsKept'
<1>0. /\ Values(c) /\ ServerValues /\ Untold /\ Sending(c.aob) /\ Deaf /\ Held /\ Halves
      /\ LimitsKept
  BY DEF Limits
<1>1. /\ server'.done = server.done /\ server'.limit = server.limit
      /\ server'.initial = server.initial
      /\ server'.overrun = server.overrun /\ server'.crowded = server.crowded
      /\ \A i \in Requests : Ages(server.phase[i], server'.phase[i])
  BY DEF Allows
<1>2. Concurrent(server') \subseteq Concurrent(server)
  BY <1>1 DEF Concurrent, Ages
<1>3. \A i \in Requests : server'.phase[i] \notin {"idle", "reset"} => Current(i)
  BY <1>1 DEF Current, Ages
<1>4. Values(c)' /\ Deaf' /\ LimitsKept'
  BY <1>0, <1>1 DEF Values, Exists, Regular, IsSequence, Deaf, Lives, Opened, LimitsKept
<1>5. ServerValues'
  <2>1. /\ IsSequence(server'.pending)
        /\ \A k \in DOMAIN server'.pending : Allowed(server'.pending[k])
    <3>1. CASE server'.pending = server.pending
      BY <1>0, <3>1 DEF ServerValues
    <3>2. CASE \E x : Allowed(x) /\ server'.pending = Append(server.pending, x)
      <4> PICK x : Allowed(x) /\ server'.pending = Append(server.pending, x)
        BY <3>2
      <4> QED  BY <1>0, AppendedIs DEF ServerValues
    <3> QED  BY <3>1, <3>2 DEF Allows
  <2>2. /\ Allowed(server') /\ (server'.mode = "starting" => server'.pending = <<>>)
        /\ server'.window \in Int
        /\ DOMAIN server'.windows = Ids /\ \A i \in Ids : server'.windows[i] \in Int
    BY <1>0 DEF Allows, ServerValues, Allowed
  <2> QED  BY <2>1, <2>2 DEF ServerValues, Allowed, IsSequence
<1>6. Untold'
  <2>1. \A i \in Requests : Unsent(c, i) => server'.phase[i] = "idle" /\ ~ Resets(c, i)
    BY <1>0, <1>1 DEF Untold, Ages
  <2> QED  BY <2>1 DEF Untold, Unsent, Resets
<1>7. Sending(c.aob)'
  <2> PICK g : g = c.aob
    OBVIOUS
  <2>1. g.type = "data" =>
          g.n <= server'.window /\
          (server'.phase[g.id] \notin {"idle", "reset"} => g.n <= server'.windows[g.id])
    <3> SUFFICES ASSUME g.type = "data"
                 PROVE  g.n <= server'.window /\
                          (server'.phase[g.id] \notin {"idle", "reset"} =>
                             g.n <= server'.windows[g.id])
      OBVIOUS
    <3> PICK i : i = g.id
      OBVIOUS
    <3>1. /\ g.n \in Nat /\ g.n <= server.window /\ i \in Requests /\ i \in Ids
          /\ Current(i) => g.n <= server.windows[i]
      BY <1>0 DEF Sending, Outgoing, Ids
    <3>2. Gain(f, 0) \in Nat /\ Gain(f, i) \in Nat
      BY GainNat
    <3>3. /\ server'.window = server.window + Gain(f, 0)
          /\ server'.windows[i] = server.windows[i] + Gain(f, i)
      BY <3>1 DEF Allows
    <3>4. server.window \in Int /\ server.windows[i] \in Int
      BY <1>0, <3>1 DEF ServerValues
    <3>5. g.n <= server'.window
      BY <3>1, <3>2, <3>3, <3>4
    <3>6. Current(i) => g.n <= server'.windows[i]
      BY <3>1, <3>2, <3>3, <3>4
    <3> QED  BY <1>3, <3>1, <3>5, <3>6
  <2>2. g.type = "headers" =>
          /\ Exists(c, g.id) => Level(c, g.id) <= 0
          /\ ~ Ending(c) => Exists(c, g.id)
          /\ Cardinality(Concurrent(server')) < server'.limit
    <3> SUFFICES ASSUME g.type = "headers"
                 PROVE  /\ Exists(c, g.id) => Level(c, g.id) <= 0
                        /\ ~ Ending(c) => Exists(c, g.id)
                        /\ Cardinality(Concurrent(server')) < server'.limit
      OBVIOUS
    <3>1. /\ Exists(c, g.id) => Level(c, g.id) <= 0
          /\ ~ Ending(c) => Exists(c, g.id)
          /\ Cardinality(Concurrent(server)) < server.limit
      BY <1>0 DEF Sending
    <3>2. Concurrent(server) \in SUBSET Ids
      BY DEF Concurrent, Ids
    <3>3. /\ Cardinality(Concurrent(server')) <= Cardinality(Concurrent(server))
          /\ Cardinality(Concurrent(server)) \in Nat /\ Cardinality(Concurrent(server')) \in Nat
      <4>1. IsFiniteSet(Concurrent(server)) /\ Concurrent(server') \in SUBSET Ids
        BY <1>2, <3>2, IdsAreFinite
      <4> QED  BY <1>2, <3>2, <4>1, FS_Subset, IdsFinite
    <3>4. server.limit \in Int
      BY <1>0 DEF ServerValues, Allowed
    <3> QED  BY <1>1, <3>1, <3>3, <3>4
  <2>3. Outgoing(g)
    BY <1>0 DEF Sending
  <2> QED  BY <2>1, <2>2, <2>3
           DEF Sending, Outgoing, Sayable, Exists, Level, Ending, Concurrent, Current
<1>8. Held'
  <2>1. ASSUME ~ Ending(c), NEW i \in Requests
        PROVE  /\ i \in Concurrent(server') => Exists(c, i) \/ Resets(c, i)
               /\ Exists(c, i) =>
                    /\ c.streams[i].state = "CLOSING" => Resets(c, i)
                    /\ "RD" \in c.streams[i].shut =>
                         Resets(c, i) \/ server'.phase[i] \in {"ended", "reset"}
    <3>1. HeldStream(i)
      BY <1>0, <2>1 DEF Held
    <3>2. server.phase[i] \in {"ended", "reset"} => server'.phase[i] \in {"ended", "reset"}
      BY <1>1 DEF Ages
    <3> QED  BY <1>2, <3>1, <3>2 DEF HeldStream
  <2> QED  BY <2>1 DEF Held, HeldStream, Ending, Exists, Resets, Concurrent
<1>9. Halves'
  BY <1>0, <1>1 DEF Halves, Exists
<1> QED  BY <1>4, <1>5, <1>6, <1>7, <1>8, <1>9

LEMMA ServerSays ==
  ASSUME Limits, Ledger, NEW f, Send(f), Says(f)', Allows(server', f)
  PROVE  Limits'
<1>1. c' = c /\ turn' = turn /\ down' = Append(down, f)
  BY DEF Send
<1>2. Widens(f)
  BY DEF Says, Told, Widens
<1>3. /\ Values(c)' /\ ServerValues' /\ Untold' /\ Sending(c.aob)' /\ Deaf' /\ Held' /\ Halves'
      /\ LimitsKept'
  BY <1>1, <1>2, SaidBeside
<1>4. Crossing'
  BY <1>1, SaidCrosses DEF Limits
<1>5. Saying'
  <2>1. \A h : Says(h) => Says(h)'
    BY AgesStill DEF Allows
  <2> QED  BY <1>1, <2>1, NowSaid DEF Limits
<1>6. \A i : /\ Gains(down', i) = Gains(down, i) + Gain(f, i)
             /\ Gains(down, i) \in Nat /\ Gain(f, i) \in Nat
  <2>1. AllWiden(down) /\ \A i : Gains(down, i) \in Nat
    BY SayingWidens DEF Limits
  <2> QED  BY <1>1, <1>2, <2>1, GainsAppended, GainNat
<1>7. Room'
  <2>1. /\ Room /\ Values(c) /\ ServerValues
    BY DEF Limits
  <2>2. c.window + Gains(down', 0) <= server'.window
    <3>1. c.window + Gains(down, 0) <= server.window /\ c.window \in Int /\ server.window \in Int
      BY <2>1 DEF Room, Values, ServerValues
    <3>2. server'.window = server.window + Gain(f, 0)
      BY DEF Allows
    <3> DEFINE w == c.window
               v == server.window
               G == Gain(f, 0)
               T == Gains(down, 0)
    <3>3. w + T <= v /\ w \in Int /\ v \in Int /\ G \in Int /\ T \in Int
      BY <1>6, <3>1
    <3>4. Gains(down', 0) = T + G /\ server'.window = v + G
      BY <1>6, <3>2
    <3> HIDE DEF w, v, G, T
    <3>5. w + (T + G) <= v + G
      BY <3>3
    <3> QED  BY <3>4, <3>5 DEF w
  <2>3. ASSUME NEW i \in Requests, Exists(c, i), server'.phase[i] \notin {"idle", "reset"}
        PROVE  Level(c, i) + Gains(down', i) <= server'.windows[i] - server'.initial
    <3>1. Current(i) /\ i \in Ids
      BY <2>3 DEF Allows, Ages, Current, Ids
    <3>2. Level(c, i) + Gains(down, i) <= server.windows[i] - server.initial
      BY <2>1, <2>3, <3>1 DEF Room
    <3>3. server'.windows[i] = server.windows[i] + Gain(f, i) /\ server'.initial = server.initial
      BY DEF Allows
    <3> DEFINE L == Level(c, i)
               v == server.windows[i]
               z == server.initial
               G == Gain(f, i)
               T == Gains(down, i)
    <3>4. L + T <= v - z /\ L \in Int /\ v \in Int /\ z \in Int /\ G \in Int /\ T \in Int
      BY <1>6, <2>1, <3>1, <3>2, LevelInt DEF ServerValues, Allowed
    <3>5. Gains(down', i) = T + G /\ server'.windows[i] = v + G /\ server'.initial = z
      BY <1>6, <3>3
    <3> HIDE DEF L, v, z, G, T
    <3>6. L + (T + G) <= (v + G) - z
      BY <3>4
    <3> QED  BY <3>5, <3>6 DEF L
  <2> QED  BY <1>1, <2>2, <2>3 DEF Room, Level, Exists, Gains, Current
<1> QED  BY <1>3, <1>4, <1>5, <1>7 DEF Limits

\* The server u allows what it did.
SameAllowances(u) ==
  /\ u.window = server.window /\ u.windows = server.windows
  /\ u.limit = server.limit /\ u.initial = server.initial
  /\ u.done = server.done /\ u.overrun = server.overrun /\ u.crowded = server.crowded
  /\ u.pending = server.pending /\ (u.mode = "starting" => server.mode = "starting")

LEMMA SameAllows ==
  ASSUME ServerValues, NEW u, SameAllowances(u), NEW f, f.type \notin {"window", "settings"},
         \A i \in Requests : Ages(server.phase[i], u.phase[i])
  PROVE  Allows(u, f)
<1>1. \A i : Gain(f, i) = 0
  BY DEF Gain
<1>2. /\ server.window \in Int /\ DOMAIN server.windows = Ids
      /\ \A i \in Ids : server.windows[i] \in Int
      /\ \A i \in Requests : i \in Ids
  BY DEF ServerValues, Ids
<1>3. /\ server.window + 0 = server.window
      /\ \A i \in Requests : server.windows[i] + 0 = server.windows[i]
  BY <1>2
<1> QED  BY <1>1, <1>2, <1>3 DEF Allows, SameAllowances

LEMMA ServerRests ==
  ASSUME Limits, Ledger, c' = c, turn' = turn, down' = down, SameAllowances(server'),
         \A i \in Requests : Ages(server.phase[i], server'.phase[i])
  PROVE  Limits'
<1>0. Widens(NoFrame) /\ NoFrame.type \notin {"window", "settings"}
  BY NoFrameIs
<1>1. Allows(server', NoFrame)
  BY <1>0, SameAllows DEF Limits
<1>2. /\ Values(c)' /\ ServerValues' /\ Untold' /\ Sending(c.aob)' /\ Deaf' /\ Held' /\ Halves'
      /\ LimitsKept'
  BY <1>0, <1>1, SaidBeside
<1>3. Crossing'
  <2>1. PICK g : Places(g)
    BY DEF Limits, Crossing
  <2>2. /\ Numbered(g, down', server'.pending) /\ HasAnswers(c', g[0])
        /\ turn' # "failed" => Obeys(c', g[0], server')
    BY <2>1 DEF Places, Obeys, SameAllowances
  <2> QED  BY <2>2 DEF Crossing, Places
<1>4. Saying'
  <2>1. \A h : Says(h) => Says(h)'
    BY AgesStill
  <2> QED  BY <2>1, NowSaid DEF Limits
<1>5. Room'
  <2>1. \A i \in Requests : server'.phase[i] \notin {"idle", "reset"} => Current(i)
    BY DEF Ages, Current
  <2>2. c.window + Gains(down, 0) <= server'.window
    BY DEF Limits, Room, SameAllowances
  <2>3. \A i \in Requests : Exists(c, i) /\ server'.phase[i] \notin {"idle", "reset"} =>
          Level(c, i) + Gains(down, i) <= server'.windows[i] - server'.initial
    BY <2>1 DEF Limits, Room, SameAllowances
  <2> QED  BY <2>2, <2>3 DEF Room, Level, Exists, Gains, Current
<1> QED  BY <1>2, <1>3, <1>4, <1>5 DEF Limits

\* It says something that changes no window and no terms.
LEMMA QuietlySays ==
  ASSUME Limits, Ledger, NEW f, Send(f), Says(f)', f.type \notin {"window", "settings"},
         SameAllowances(server'), \A i \in Requests : Ages(server.phase[i], server'.phase[i])
  PROVE  Limits'
<1>1. Allows(server', f)
  BY SameAllows DEF Limits
<1> QED  BY <1>1, ServerSays

LEMMA SaysNow ==
  ASSUME NEW f, Expected(f), f.type \notin {"window", "settings"},
         \A i \in Requests : f.id = i /\ f.type # "goaway" =>
           /\ server'.phase[i] # "idle"
           /\ EndOf(f) => server'.phase[i] \in {"ended", "reset"}
           /\ f.type = "rst" => server'.phase[i] = "reset"
  PROVE  Says(f)'
<1>1. Told(f)'
  BY DEF Told, Expected, Widens
<1> QED  BY <1>1 DEF Says, EndOf

LEMMA AgesSame == ASSUME NEW p PROVE Ages(p, p)
BY DEF Ages

LEMMA RespondLimits == ASSUME IInv, Ledger, Limits, NEW i \in Ids, Respond(i) PROVE Limits'
<1>1. /\ Send(Headers(i, FALSE, FALSE))
      /\ server' = [server EXCEPT !.phase[i] = "answering", !.processed = @ \cup {i}]
      /\ server.phase[i] \in {"open", "promised"}
  BY DEF Respond
<1>2. /\ SameAllowances(server')
      /\ server'.phase = [server.phase EXCEPT ![i] = "answering"]
  BY <1>1 DEF IInv, ServerShape, ServerFields, SameAllowances
<1>3. /\ server'.phase[i] = "answering"
      /\ \A j \in Requests : j # i => server'.phase[j] = server.phase[j]
      /\ i \in Requests => server.phase[i] = "open"
  BY <1>1, <1>2 DEF IInv, ServerShape, ServerKnows, Ids
<1>4. \A j \in Requests : Ages(server.phase[j], server'.phase[j])
  BY <1>3 DEF Ages
<1> PICK f : f = Headers(i, FALSE, FALSE)
  OBVIOUS
<1>5. Expected(f) /\ f.type = "headers" /\ f.id = i /\ ~ EndOf(f)
  BY DEF Expected, Headers, EndOf
<1>6. Says(f)'
  BY <1>3, <1>5, SaysNow
<1> QED  BY <1>1, <1>2, <1>4, <1>5, <1>6, QuietlySays

LEMMA SendAnswerLimits == ASSUME IInv, Ledger, Limits, NEW i \in Ids, SendAnswer(i) PROVE Limits'
<1>1. PICK n \in 1 .. Least(Answer - server.sent[i], Least(server.credit, server.credits[i])) :
      \E end \in {FALSE, n + server.sent[i] = Answer} :
        /\ Send(Data(i, n, end))
        /\ server' = [server EXCEPT !.sent[i] = @ + n, !.credit = @ - n, !.credits[i] = @ - n,
                                    !.phase[i] = IF end THEN "ended" ELSE @]
  BY DEF SendAnswer
<1>2. PICK end \in {FALSE, n + server.sent[i] = Answer} :
           /\ Send(Data(i, n, end))
           /\ server' = [server EXCEPT !.sent[i] = @ + n, !.credit = @ - n, !.credits[i] = @ - n,
                                       !.phase[i] = IF end THEN "ended" ELSE @]
  BY <1>1
<1>3. server.phase[i] = "answering"
  BY DEF SendAnswer
<1>4. /\ SameAllowances(server')
      /\ server'.phase = [server.phase EXCEPT ![i] = IF end THEN "ended" ELSE @]
  BY <1>2 DEF IInv, ServerShape, ServerFields, SameAllowances
<1>5. /\ server'.phase[i] = IF end THEN "ended" ELSE "answering"
      /\ \A j \in Requests : j # i => server'.phase[j] = server.phase[j]
  BY <1>3, <1>4 DEF IInv, ServerShape
<1>6. \A j \in Requests : Ages(server.phase[j], server'.phase[j])
  BY <1>3, <1>5 DEF Ages
<1> PICK f : f = Data(i, n, end)
  OBVIOUS
<1>7. Expected(f) /\ f.type = "data" /\ f.id = i /\ (EndOf(f) => end)
  BY DEF Expected, Data, EndOf
<1>8. Says(f)'
  BY <1>5, <1>7, SaysNow
<1> QED  BY <1>2, <1>4, <1>6, <1>7, <1>8, QuietlySays

LEMMA TrailersLimits == ASSUME IInv, Ledger, Limits, NEW i \in Ids, Trailers(i) PROVE Limits'
<1>1. /\ Send(Headers(i, FALSE, TRUE)) /\ server' = [server EXCEPT !.phase[i] = "ended"]
      /\ server.phase[i] = "answering"
  BY DEF Trailers
<1>2. SameAllowances(server') /\ server'.phase = [server.phase EXCEPT ![i] = "ended"]
  BY <1>1 DEF IInv, ServerShape, ServerFields, SameAllowances
<1>3. /\ server'.phase[i] = "ended"
      /\ \A j \in Requests : j # i => server'.phase[j] = server.phase[j]
  BY <1>2 DEF IInv, ServerShape
<1>4. \A j \in Requests : Ages(server.phase[j], server'.phase[j])
  BY <1>1, <1>3 DEF Ages
<1> PICK f : f = Headers(i, FALSE, TRUE)
  OBVIOUS
<1>5. Expected(f) /\ f.type = "headers" /\ f.id = i
  BY DEF Expected, Headers
<1>6. Says(f)'
  BY <1>3, <1>5, SaysNow
<1> QED  BY <1>1, <1>2, <1>4, <1>5, <1>6, QuietlySays

LEMMA PingLimits == ASSUME IInv, Ledger, Limits, Ping PROVE Limits'
<1> PICK f : f = Frame("ping", 0)
  OBVIOUS
<1>1. Send(f) /\ server' = server
  BY DEF Ping
<1>2. Expected(f) /\ f.type = "ping" /\ f.id = 0
  BY DEF Expected, Frame
<1>3. SameAllowances(server') /\ \A j \in Requests : Ages(server.phase[j], server'.phase[j])
  BY <1>1, AgesSame DEF SameAllowances
<1>4. Says(f)'
  BY <1>2, IdsAre, SaysNow
<1> QED  BY <1>1, <1>2, <1>3, <1>4, QuietlySays

LEMMA ResetLimits == ASSUME IInv, Ledger, Limits, NEW i \in Ids, Reset(i) PROVE Limits'
<1>1. PICK why : Send([type |-> "rst", id |-> i, why |-> why])
  BY DEF Reset
<1>2. /\ server' = [server EXCEPT !.phase[i] = "reset"]
      /\ server.phase[i] \in {"open", "answering", "promised"}
  BY DEF Reset
<1>3. SameAllowances(server') /\ server'.phase = [server.phase EXCEPT ![i] = "reset"]
  BY <1>2 DEF IInv, ServerShape, ServerFields, SameAllowances
<1>4. /\ server'.phase[i] = "reset"
      /\ \A j \in Requests : j # i => server'.phase[j] = server.phase[j]
  BY <1>3 DEF IInv, ServerShape
<1>5. \A j \in Requests : Ages(server.phase[j], server'.phase[j])
  BY <1>2, <1>4 DEF Ages
<1> PICK f : f = [type |-> "rst", id |-> i, why |-> why]
  OBVIOUS
<1>6. Expected(f) /\ f.type = "rst" /\ f.id = i
  BY DEF Expected
<1>7. Says(f)'
  BY <1>4, <1>6, SaysNow
<1> QED  BY <1>1, <1>3, <1>5, <1>6, <1>7, QuietlySays

LEMMA GoAwayLimits == ASSUME IInv, Ledger, Limits, GoAway PROVE Limits'
<1>1. PICK last \in {0} \cup Requests :
        /\ Send(Frame("goaway", last))
        /\ server' = [server EXCEPT !.mode = "leaving", !.last = last,
             !.phase = [i \in Ids |-> IF i \in Requests /\ i > last /\ @[i] = "open" THEN "reset"
                                      ELSE @[i]]]
  BY DEF GoAway
<1>2. /\ SameAllowances(server')
      /\ server'.phase = [i \in Ids |-> IF i \in Requests /\ i > last /\ server.phase[i] = "open"
                                        THEN "reset" ELSE server.phase[i]]
  BY <1>1 DEF IInv, ServerShape, ServerFields, SameAllowances
<1>3. \A j \in Requests : Ages(server.phase[j], server'.phase[j])
  BY <1>2 DEF Ages, Ids
<1> PICK f : f = Frame("goaway", last)
  OBVIOUS
<1>4. Expected(f) /\ f.type = "goaway"
  BY DEF Expected, Frame
<1>5. Says(f)'
  BY <1>4, SaysNow
<1> QED  BY <1>1, <1>2, <1>3, <1>4, <1>5, QuietlySays

LEMMA PromiseLimits ==
  ASSUME IInv, Ledger, Limits, NEW i \in Requests, NEW p \in Promises, Promise(i, p)
  PROVE  Limits'
<1> PICK f : f = [type |-> "push", id |-> i, promised |-> p]
  OBVIOUS
<1>1. /\ Send(f) /\ server' = [server EXCEPT !.phase[p] = "promised"]
      /\ server.phase[i] \in {"open", "answering"}
  BY DEF Promise
<1>2. SameAllowances(server') /\ server'.phase = [server.phase EXCEPT ![p] = "promised"]
  BY <1>1 DEF IInv, ServerShape, ServerFields, SameAllowances
<1>3. \A j \in Requests : server'.phase[j] = server.phase[j]
  BY <1>2, ParityIs DEF IInv, ServerShape, Ids
<1>4. \A j \in Requests : Ages(server.phase[j], server'.phase[j])
  BY <1>3, AgesSame
<1>5. Expected(f) /\ f.type = "push" /\ f.id = i
  BY DEF Expected, Ids
<1>6. ~ EndOf(f)
  BY <1>5 DEF EndOf
<1>7. Says(f)'
  BY <1>1, <1>3, <1>5, <1>6, SaysNow
<1> QED  BY <1>1, <1>2, <1>4, <1>5, <1>7, QuietlySays

LEMMA CloseConnectionLimits == ASSUME IInv, Ledger, Limits, CloseConnection PROVE Limits'
<1>1. c' = c /\ turn' = turn /\ down' = down /\ server' = [server EXCEPT !.mode = "closed"]
  BY DEF CloseConnection
<1>2. SameAllowances(server') /\ server'.phase = server.phase
  BY <1>1 DEF IInv, ServerShape, ServerFields, SameAllowances
<1>3. \A j \in Requests : Ages(server.phase[j], server'.phase[j])
  BY <1>2, AgesSame
<1> QED  BY <1>1, <1>2, <1>3, ServerRests

\* The windows, terms and phases are what they were, and the settings x are said.
SaysSettings(u, x) ==
  /\ u.window = server.window /\ u.windows = server.windows
  /\ u.limit = server.limit /\ u.initial = server.initial
  /\ u.done = server.done /\ u.overrun = server.overrun /\ u.crowded = server.crowded
  /\ u.phase = server.phase /\ u.mode # "starting"
  /\ u.pending = Append(server.pending, x)

LEMMA SettingsLimits ==
  ASSUME Limits, Ledger, NEW x, Allowed(x), Send(SettingsFrame(x)), SaysSettings(server', x)
  PROVE  Limits'
<1> PICK f : f = SettingsFrame(x)
  OBVIOUS
<1>1. /\ Expected(f) /\ f.type = "settings" /\ f.id = 0
      /\ f.limit = x.limit /\ f.initial = x.initial
  BY DEF Expected, SettingsFrame
<1>2. \A i : Gain(f, i) = 0
  BY <1>1 DEF Gain
<1>3. \A i \in Requests : Ages(server.phase[i], server'.phase[i])
  BY AgesSame DEF SaysSettings
<1>4. Allows(server', f)
  <2>1. /\ server.window \in Int /\ DOMAIN server.windows = Ids
        /\ \A i \in Ids : server.windows[i] \in Int
        /\ \A i \in Requests : i \in Ids
    BY DEF Limits, ServerValues, Ids
  <2>2. /\ server'.window = server.window + Gain(f, 0)
        /\ \A i \in Requests : server'.windows[i] = server.windows[i] + Gain(f, i)
    BY <1>2, <2>1 DEF SaysSettings
  <2>3. \E y : Allowed(y) /\ f = SettingsFrame(y) /\ server'.pending = Append(server.pending, y)
    BY DEF SaysSettings
  <2> QED  BY <1>3, <2>1, <2>2, <2>3 DEF Allows, SaysSettings
<1>5. Says(f)'
  <2>1. Told(f)'
    BY <1>1 DEF Told, Expected, Widens, Allowed
  <2>2. \A i \in Requests : f.id # i
    BY <1>1, IdsAre
  <2> QED  BY <2>1, <2>2 DEF Says
<1> QED  BY <1>4, <1>5, ServerSays

LEMMA SettingsAllowed == \A x \in Settings : Allowed(x)
<1>1. \A x \in Settings : x.limit \in Nat /\ x.initial \in 0 .. MaxWindow
  BY SessionAssumed DEF SessionAssumption
<1>2. MaxWindow \in Nat
  BY SessionAssumed DEF SessionAssumption
<1> QED  BY <1>1, <1>2 DEF Allowed

LEMMA ServerPrefaceLimits == ASSUME IInv, Ledger, Limits, ServerPreface PROVE Limits'
<1>1. PICK x \in Settings : /\ Send(SettingsFrame(x))
                            /\ server' = [server EXCEPT !.mode = "up", !.pending = <<x>>]
  BY DEF ServerPreface
<1>2. server.pending = <<>>
  BY DEF ServerPreface, Limits, ServerValues
<1>3. <<x>> = Append(server.pending, x)
  BY <1>2
<1>4. SaysSettings(server', x)
  BY <1>1, <1>3 DEF IInv, ServerShape, ServerFields, SaysSettings
<1> QED  BY <1>1, <1>4, SettingsAllowed, SettingsLimits

LEMMA ChangeSettingsLimits == ASSUME IInv, Ledger, Limits, ChangeSettings PROVE Limits'
<1>1. PICK x \in Settings :
        Send(SettingsFrame(x)) /\ server' = [server EXCEPT !.pending = Append(@, x)]
  BY DEF ChangeSettings
<1>2. server.mode # "starting"
  BY DEF ChangeSettings, Extra, Up
<1>3. SaysSettings(server', x)
  BY <1>1, <1>2 DEF IInv, ServerShape, ServerFields, SaysSettings
<1> QED  BY <1>1, <1>3, SettingsAllowed, SettingsLimits

\* The server's window of the stream i, or of the connection, is made wider by n.
Opens(u, i, n) ==
  /\ u.window = IF i = 0 THEN server.window + n ELSE server.window
  /\ u.windows = IF i = 0 THEN server.windows ELSE [server.windows EXCEPT ![i] = @ + n]
  /\ u.limit = server.limit /\ u.initial = server.initial
  /\ u.done = server.done /\ u.overrun = server.overrun /\ u.crowded = server.crowded
  /\ u.phase = server.phase /\ u.pending = server.pending /\ u.mode = server.mode

LEMMA UpdateLimits ==
  ASSUME Limits, Ledger, NEW i \in Ids \cup {0}, NEW n \in Nat, Send(Update(i, n)),
         Opens(server', i, n), i \in Requests => server.phase[i] # "idle"
  PROVE  Limits'
<1> PICK f : f = Update(i, n)
  OBVIOUS
<1>1. Expected(f) /\ f.type = "window" /\ f.id = i /\ f.n = n
  BY DEF Expected, Update
<1>2. \A j : Gain(f, j) = IF j = i THEN n ELSE 0
  BY <1>1 DEF Gain
<1>3. \A j \in Requests : Ages(server.phase[j], server'.phase[j])
  BY AgesSame DEF Opens
<1>4. /\ server.window \in Int /\ DOMAIN server.windows = Ids
      /\ \A j \in Ids : server.windows[j] \in Int
      /\ \A j \in Requests : j \in Ids
      /\ 0 \notin Ids
  BY IdsAre DEF Limits, ServerValues, Ids
<1>5. /\ server'.window \in Int /\ server'.window = server.window + Gain(f, 0)
      /\ DOMAIN server'.windows = Ids /\ \A j \in Ids : server'.windows[j] \in Int
      /\ \A j \in Ids : server'.windows[j] = server.windows[j] + Gain(f, j)
  <2>1. CASE i = 0
    BY <1>2, <1>4, <2>1 DEF Opens
  <2>2. CASE i \in Ids
    <3>1. server'.window = server.window /\ server'.windows = [server.windows EXCEPT ![i] = @ + n]
      BY <1>4, <2>2 DEF Opens
    <3> QED  BY <1>2, <1>4, <2>2, <3>1
  <2> QED  BY <2>1, <2>2
<1>6. Allows(server', f)
  BY <1>1, <1>3, <1>4, <1>5 DEF Allows, Opens
<1>7. Says(f)'
  <2>1. Told(f)'
    BY <1>1 DEF Told, Expected, Widens
  <2>2. ~ EndOf(f) /\ f.type # "rst" /\ \A j \in Requests : f.id = j => server'.phase[j] # "idle"
    BY <1>1 DEF EndOf, Opens
  <2> QED  BY <2>1, <2>2 DEF Says, EndOf
<1> QED  BY <1>6, <1>7, ServerSays

LEMMA GrantLimits == ASSUME IInv, Ledger, Limits, Grant PROVE Limits'
<1>0. /\ DOMAIN server = ServerFields /\ ServerValues /\ Window \in Nat
      /\ Requests \subseteq Ids /\ 0 \notin Ids /\ server.mode # "starting"
  BY SessionAssumed, IdsAre DEF IInv, ServerShape, Limits, SessionAssumption, Grant, Up
<1>1. CASE /\ server.window <= 0
           /\ Send(Update(0, Window - server.window))
           /\ server' = [server EXCEPT !.window = Window]
  <2> PICK n : n = Window - server.window
    OBVIOUS
  <2>1. n \in Nat /\ Window = server.window + n
    BY <1>0, <1>1 DEF ServerValues
  <2>2. Opens(server', 0, n)
    BY <1>0, <1>1, <2>1 DEF ServerFields, Opens
  <2> QED  BY <1>0, <1>1, <2>1, <2>2, UpdateLimits
<1>2. CASE \E i \in Requests :
             /\ server.phase[i] \in {"open", "answering", "ended"} /\ server.windows[i] <= 0
             /\ Send(Update(i, Window - server.windows[i]))
             /\ server' = [server EXCEPT !.windows[i] = Window]
  <2>1. PICK i \in Requests :
             /\ server.phase[i] \in {"open", "answering", "ended"} /\ server.windows[i] <= 0
             /\ Send(Update(i, Window - server.windows[i]))
             /\ server' = [server EXCEPT !.windows[i] = Window]
    BY <1>2
  <2> PICK n : n = Window - server.windows[i]
    OBVIOUS
  <2>2. n \in Nat /\ Window = server.windows[i] + n /\ i \in Ids /\ i # 0
    BY <1>0, <2>1 DEF ServerValues
  <2>3. Opens(server', i, n)
    BY <1>0, <2>1, <2>2 DEF ServerFields, Opens, ServerValues
  <2> QED  BY <1>0, <2>1, <2>2, <2>3, UpdateLimits
<1>3. CASE /\ server.pending = <<>>
           /\ LET x == [limit |-> 1, initial |-> server.initial] IN
              Send(SettingsFrame(x)) /\ server' = [server EXCEPT !.pending = <<x>>]
  <2> PICK x : x = [limit |-> 1, initial |-> server.initial]
    OBVIOUS
  <2>1. Send(SettingsFrame(x)) /\ server' = [server EXCEPT !.pending = <<x>>]
    BY <1>3
  <2>2. <<x>> = Append(server.pending, x)
    BY <1>3
  <2>3. Allowed(x)
    BY <1>0 DEF ServerValues, Allowed
  <2>4. SaysSettings(server', x)
    BY <1>0, <2>1, <2>2 DEF ServerFields, SaysSettings
  <2> QED  BY <2>1, <2>3, <2>4, SettingsLimits
<1>4. \/ /\ server.window <= 0
         /\ Send(Update(0, Window - server.window))
         /\ server' = [server EXCEPT !.window = Window]
      \/ \E i \in Requests :
             /\ server.phase[i] \in {"open", "answering", "ended"} /\ server.windows[i] <= 0
             /\ Send(Update(i, Window - server.windows[i]))
             /\ server' = [server EXCEPT !.windows[i] = Window]
      \/ /\ server.pending = <<>>
         /\ LET x == [limit |-> 1, initial |-> server.initial] IN
            Send(SettingsFrame(x)) /\ server' = [server EXCEPT !.pending = <<x>>]
  BY DEF Grant
<1> QED  BY <1>1, <1>2, <1>3, <1>4

\* What is wrong is about a stream the server knows, and ends none of the requests.
LEMMA WrongSays ==
  ASSUME IInv, NEW f \in WrongFrames
  PROVE  /\ f.type \notin {"window", "settings"} /\ ~ EndOf(f)
         /\ \A i \in Requests : f.id = i /\ f.type # "goaway" =>
              server.phase[i] # "idle" /\ f.type # "rst"
<1> DEFINE good == {Headers(i, FALSE, FALSE) : i \in Known}
           bad == {Headers(i, TRUE, TRUE) : i \in Known}
           rsts == {[type |-> "rst", id |-> i, why |-> "reset"] :
                      i \in {p \in Promises : server.phase[p] = "idle"}}
<1>1. f \in good \cup bad \cup {Frame("ack", 0), Frame("goaway", 2)} \cup rsts \cup WrongPushes
  BY DEF WrongFrames
<1>2. \A i \in Known : i \in Requests => server.phase[i] # "idle"
  BY ParityIs DEF Known
<1>3. 0 \notin Requests
  BY IdsAre
<1>4. CASE f \in good \cup bad
  <2>1. f.type = "headers" /\ f.id \in Known /\ ~ EndOf(f)
    BY <1>4 DEF Headers, EndOf
  <2> QED  BY <1>2, <2>1
<1>5. CASE f \in {Frame("ack", 0), Frame("goaway", 2)}
  <2>1. f.type = "goaway" \/ (f.type = "ack" /\ f.id = 0)
    BY <1>5 DEF Frame
  <2> QED  BY <1>3, <2>1 DEF EndOf
<1>6. CASE f \in rsts
  <2>1. f.type = "rst" /\ f.id \in Promises
    BY <1>6
  <2> QED  BY <2>1, ParityIs DEF EndOf
<1>7. CASE f \in WrongPushes
  <2>1. f.type = "push" /\ f.id \in Known
    BY <1>7 DEF WrongPushes
  <2> QED  BY <1>2, <2>1 DEF EndOf
<1> HIDE DEF good, bad, rsts
<1> QED  BY <1>1, <1>4, <1>5, <1>6, <1>7

LEMMA MisbehaveLimits == ASSUME IInv, Ledger, Limits, Misbehave PROVE Limits'
<1>0. /\ DOMAIN server = ServerFields /\ ServerValues /\ MaxWindow \in Nat
      /\ Known \subseteq Ids /\ 0 \notin Ids
      /\ \A i \in Known : i \in Requests => server.phase[i] # "idle"
  BY SessionAssumed, IdsAre, ParityIs DEF IInv, ServerShape, Limits, SessionAssumption, Known, Ids
<1>1. CASE \E f \in WrongFrames : Send(f) /\ UNCHANGED server
  <2> PICK f \in WrongFrames : Send(f) /\ server' = server
    BY <1>1
  <2>1. /\ Expected(f) /\ f.type \notin {"window", "settings"} /\ ~ EndOf(f)
        /\ \A i \in Requests : f.id = i /\ f.type # "goaway" =>
             server.phase[i] # "idle" /\ f.type # "rst"
    BY WrongIsExpected, WrongSays
  <2>2. SameAllowances(server') /\ \A j \in Requests : Ages(server.phase[j], server'.phase[j])
    BY AgesSame DEF SameAllowances
  <2>3. Says(f)'
    BY <2>1, SaysNow
  <2> QED  BY <2>1, <2>2, <2>3, QuietlySays
<1>2. CASE \E i \in Known, n \in {0, MaxWindow} :
             Send(Update(i, n)) /\ server' = [server EXCEPT !.windows[i] = @ + n]
  <2>1. PICK i \in Known, n \in {0, MaxWindow} :
          Send(Update(i, n)) /\ server' = [server EXCEPT !.windows[i] = @ + n]
    BY <1>2
  <2>2. n \in Nat /\ i \in Ids /\ i # 0
    BY <1>0
  <2>3. Opens(server', i, n)
    BY <1>0, <2>1, <2>2 DEF ServerFields, Opens, ServerValues
  <2> QED  BY <1>0, <2>1, <2>2, <2>3, UpdateLimits
<1>3. CASE \E n \in {0, MaxWindow} :
             Send(Update(0, n)) /\ server' = [server EXCEPT !.window = @ + n]
  <2>1. PICK n \in {0, MaxWindow} :
          Send(Update(0, n)) /\ server' = [server EXCEPT !.window = @ + n]
    BY <1>3
  <2>2. n \in Nat
    BY <1>0
  <2>3. Opens(server', 0, n)
    BY <1>0, <2>1 DEF ServerFields, Opens
  <2> QED  BY <1>0, <2>1, <2>2, <2>3, UpdateLimits DEF Ids
<1>4. CASE \E i \in Known : Send(Data(i, 1, FALSE)) /\ server' = [server EXCEPT !.credit = @ - 1]
  <2>1. PICK i \in Known : Send(Data(i, 1, FALSE)) /\ server' = [server EXCEPT !.credit = @ - 1]
    BY <1>4
  <2> PICK f : f = Data(i, 1, FALSE)
    OBVIOUS
  <2>2. Expected(f) /\ f.type = "data" /\ f.id = i /\ ~ EndOf(f)
    BY <1>0 DEF Expected, Data, EndOf
  <2>3. SameAllowances(server') /\ server'.phase = server.phase
    BY <1>0, <2>1 DEF ServerFields, SameAllowances
  <2>4. \A j \in Requests : Ages(server.phase[j], server'.phase[j])
    BY <2>3, AgesSame
  <2>5. Says(f)'
    BY <1>0, <2>2, <2>3, SaysNow
  <2> QED  BY <2>1, <2>2, <2>3, <2>4, <2>5, QuietlySays
<1> QED  BY <1>1, <1>2, <1>3, <1>4 DEF Misbehave

LEMMA InitLimits == Init => Limits
<1> SUFFICES ASSUME Init PROVE Limits
  OBVIOUS
<1>1. PICK syn : c = Session(syn)
  BY DEF Init
<1>2. /\ c.urgent = <<Frame("settings", 0)>> /\ c.reg = <<>> /\ c.aob = NoFrame
      /\ c.streams = [i \in Ids |-> NoStream] /\ c.left = [i \in Requests |-> Body]
      /\ c.goaway = {} /\ c.ignoring = FALSE
      /\ c.limit = NoLimit /\ c.initial = Window /\ c.window = Window
  BY <1>1 DEF Session
<1>3. /\ server.mode = "starting" /\ server.pending = <<>> /\ server.limit = NoLimit
      /\ server.initial = Window /\ server.window = Window
      /\ server.windows = [i \in Ids |-> 0] /\ server.phase = [i \in Ids |-> "idle"]
      /\ server.done = {} /\ server.overrun = FALSE /\ server.crowded = FALSE
      /\ down = <<>> /\ turn = "send"
  BY DEF Init
<1>4. /\ Window \in Nat /\ Window <= MaxWindow /\ MaxWindow \in Nat
      /\ NoLimit \in Nat /\ Body \in Nat
      /\ Requests \subseteq Ids
  BY SessionAssumed DEF SessionAssumption, Ids
<1>5. \A i \in Ids : ~ Exists(c, i) /\ c.streams[i] = NoStream
  BY <1>2 DEF Exists, NoStream
<1>6. IsSequence(<<>>)
  BY DEF IsSequence
<1>7. Values(c)
  <2>1. Regular(c.reg)
    BY <1>2, <1>6 DEF Regular
  <2> QED  BY <1>2, <1>4, <1>5, <2>1 DEF Values, NoStream
<1>8. ServerValues
  BY <1>3, <1>4, <1>6 DEF ServerValues, Allowed
<1>9. Room
  <2>1. Gains(down, 0) = 0
    BY <1>3, TotalEmpty DEF Gains
  <2> QED  BY <1>2, <1>3, <1>4, <1>5, <2>1 DEF Room
<1>10. Saying /\ \A i : ~ Resets(c, i)
  BY <1>2, <1>3, <1>6, NoFrameIs DEF Saying, Resets, IsRst
<1>11. Untold
  BY <1>3, <1>4, <1>10 DEF Untold
<1>12. Crossing
  <2>1. Acks(c.urgent) = 0
    <3>1. Acks(Append(<<>>, Frame("settings", 0))) = Acks(<<>>) + Ack(Frame("settings", 0))
      BY <1>6, AcksAppended
    <3>2. Acks(<<>>) = 0
      BY TotalEmpty DEF Acks
    <3>3. Ack(Frame("settings", 0)) = 0
      BY DEF Ack, Frame
    <3>4. Append(<<>>, Frame("settings", 0)) = c.urgent
      BY <1>2
    <3> QED  BY <3>1, <3>2, <3>3, <3>4
  <2>2. Unanswered(c) = 0
    BY <1>2, <2>1, NoFrameIs DEF Unanswered
  <2> DEFINE g == [k \in 0 .. 0 |-> 0]
  <2>3. g \in [0 .. 0 -> Nat] /\ g[0] = 0
    OBVIOUS
  <2>4. Len(down) = 0 /\ Len(server.pending) = 0
    BY <1>3
  <2> HIDE DEF g
  <2>5. Numbered(g, down, server.pending)
    BY <2>3, <2>4 DEF Numbered
  <2>6. HasAnswers(c, g[0]) /\ Obeys(c, g[0], server)
    BY <1>2, <1>3, <2>2, <2>3 DEF HasAnswers, Obeys
  <2> QED  BY <2>5, <2>6 DEF Crossing, Places
<1>13. Sending(c.aob)
  BY <1>2, NoFrameIs DEF Sending, Outgoing, Sayable
<1>14. Deaf
  BY <1>2 DEF Deaf
<1>15. Held
  BY <1>3, <1>4, <1>5 DEF Held, HeldStream, Concurrent
<1>16. Halves /\ LimitsKept
  BY <1>3, <1>4, <1>5 DEF Halves, LimitsKept
<1> QED  BY <1>7, <1>8, <1>9, <1>10, <1>11, <1>12, <1>13, <1>14, <1>15, <1>16 DEF Limits

LEMMA LimitsStep == IInv /\ Ledger /\ Limits /\ [Next]_sessionVars => Limits'
<1> SUFFICES ASSUME IInv, Ledger, Limits, [Next]_sessionVars PROVE Limits'
  OBVIOUS
<1>1. CASE Execute
  BY <1>1, PrepFrameLimits, WriteFrameLimits, WaitLimits, ReceiveLimits DEF Execute
<1>2. CASE Serve
  <2>1. CASE Answers
    <3>1. Promises \cup server.done \subseteq Ids
      BY DEF Ledger, Ids
    <3> QED  BY <2>1, <3>1, RespondLimits, SendAnswerLimits, TrailersLimits DEF Answers
  <2> QED  BY <1>2, <2>1, ServerPrefaceLimits, GrantLimits, CloseConnectionLimits DEF Serve
<1>3. CASE Disturb
  BY <1>3, ChangeSettingsLimits, PingLimits, GoAwayLimits, MisbehaveLimits, ResetLimits,
     RespondLimits, PromiseLimits DEF Disturb
<1>4. CASE UNCHANGED sessionVars
  <2>1. c' = c /\ turn' = turn /\ down' = down /\ server' = server
    BY <1>4 DEF sessionVars
  <2>2. SameAllowances(server') /\ \A j \in Requests : Ages(server.phase[j], server'.phase[j])
    BY <2>1, AgesSame DEF SameAllowances
  <2> QED  BY <2>1, <2>2, ServerRests
<1> QED  BY <1>1, <1>2, <1>3, <1>4 DEF Next

(***************************************************************************)
(* No DATA frame is larger than the windows the server has given, whatever *)
(* changes of the initial window cross it, and there are never more        *)
(* streams open than it allows (session_prep_frame,                        *)
(* session_is_outgoing_concurrent_streams_max).                            *)
(***************************************************************************)
THEOREM LimitsAreKept == Spec => []LimitsKept
<1>1. Limits => LimitsKept
  BY DEF Limits
<1> QED
  BY <1>1, InitKeeps, InitBalances, InitLimits, IInvStep, LedgerStep, LimitsStep, PTL DEF Spec
=============================================================================
