---------------------------- MODULE HttpMessages ----------------------------
(***************************************************************************)
(* Which answers, and which promised requests, the vendored nghttp2 takes  *)
(* for messages of HTTP (nghttp2_http.c, with the calls to it in           *)
(* nghttp2_session.c): one stream of a client, header field by header      *)
(* field and frame by frame.  In Http2Session a message is good or "bad";  *)
(* here is what makes it so.                                               *)
(*                                                                         *)
(* A field is a record: its name, its value, the number that the value     *)
(* stands for (NaN if it is none), and its form.  Characters are left out: *)
(* a form is "ok", "empty" (the value), "name" or "value" (characters that *)
(* are not allowed there) or "upper" (case, in the name).  "other" is any  *)
(* pseudo-header that is not known, "x" any field without rules, and       *)
(* "connection" any of the fields that are of HTTP/1.                      *)
(*                                                                         *)
(* The client's own requests are POSTs, so what CONNECT and an upgrade     *)
(* change about answers cannot happen, nor what servers do.  A promise     *)
(* comes on a stream that is open.                                         *)
(***************************************************************************)
EXTENDS Integers, Sequences

CONSTANTS
  Fields,        \* what a peer may send: [name, value, n, form]
  MaxFields,     \* in a request, an answer and its trailers
  MaxData, NaN

MessagesAssumption ==
  /\ \A f \in Fields : /\ f.n \in Int /\ f.form \in {"ok", "empty", "name", "value", "upper"}
                       /\ f.name = "content-length" /\ f.value = "0" => f.n = 0
  /\ MaxFields \in [{"request", "final", "trailer"} -> Nat] /\ MaxData \in Nat
  /\ NaN \in Int /\ NaN < 0

VARIABLES
  stream,   \* nghttp2_stream, as far as messages are concerned
  message   \* history: what has come; of a request that was taken HEAD only is kept,
            \* of an interim answer nothing

messageVars == <<stream, message>>

Pseudo == {"method", "path", "scheme", "authority", "status", "other"}
IsPseudo(f) == f.name \in Pseudo
Methods == {"HEAD", "OPTIONS"}     \* NGHTTP2_HTTP_FLAG_METH_ALL

\* The values that have a flag: NGHTTP2_HTTP_FLAG_METH_, _PATH_ and _SCHEME_
Flagged == [method |-> Methods, path |-> {"/", "*"}, scheme |-> {"http"}]

\* http_flags are names of fields, some values, "regular"
\* (PSEUDO_HEADER_DISALLOWED) and "interim" (EXPECT_FINAL_RESPONSE).
Init ==
  /\ stream \in [awaits : {"request", "first"}, flags : {{}}, status : {NaN}, length : {NaN},
                 received : {0}, verdict : {"open"}]
  /\ message = [part |-> IF stream.awaits = "request" THEN "request" ELSE "final",
                request |-> <<>>, final |-> <<>>, trailer |-> <<>>,
                closed |-> {}, data |-> 0, ended |-> FALSE]

-----------------------------------------------------------------------------
(* Fields *)

Reject(s) == [s EXCEPT !.verdict = "reset"]

\* session_trailer_headers
Trailer(s) == s.awaits = "later" /\ "interim" \notin s.flags

\* check_pseudo_header
Refused(s, f) == f.name \in s.flags \/ f.form = "empty"

BadForAll(f) == f.name = "connection" \/ (f.name = "te" /\ f.value # "trailers")

\* http_request_on_header, of a promise
RequestRefuses(s, f) ==
  \/ BadForAll(f) \/ f.name \in {"status", "other"}
  \/ IsPseudo(f) /\ "regular" \in s.flags
  \/ f.name \in Pseudo \cup {"host"} /\ Refused(s, f)
  \/ f.name = "method" /\ f.value = "CONNECT"
  \/ f.name = "content-length" /\ (s.length # NaN \/ f.n = NaN)

\* http_response_on_header
ResponseRefuses(s, f) ==
  \/ BadForAll(f) \/ f.name \in Pseudo \ {"status"}
  \/ IsPseudo(f) /\ ("regular" \in s.flags \/ Trailer(s))
  \/ f.name = "status" /\ (Refused(s, f) \/ f.n \in {NaN, 101})
  \/ f.name = "content-length" /\ \/ s.length # NaN
                                  \/ IF s.status = 204 THEN f.value # "0"
                                     ELSE s.status \div 100 = 1 \/ f.n = NaN

\* What a field that is taken leaves behind; "0" of a 204 answer is removed.
Noted(s, f) ==
  LET values == IF f.name \in DOMAIN Flagged THEN {f.value} \cap Flagged[f.name] ELSE {}
      removed == f.name = "content-length" /\ s.status = 204 IN
  [s EXCEPT !.flags = @ \cup (IF IsPseudo(f) THEN {f.name} \cup values
                              ELSE IF removed THEN {}
                              ELSE {"regular"} \cup ({f.name} \cap {"host"})),
            !.status = IF f.name = "status" THEN f.n ELSE @,
            !.length = IF removed THEN 0 ELSE IF f.name = "content-length" THEN f.n ELSE @]

\* nghttp2_http_on_header: a field with bad characters is ignored, but its place
\* counts; case and pseudo-headers are taken strictly.
OnHeader(s, f) ==
  IF f.form \in {"name", "value", "upper"}
  THEN IF f.form = "upper" \/ IsPseudo(f) THEN Reject(s)
       ELSE [s EXCEPT !.flags = @ \cup {"regular"}]
  ELSE IF IF s.awaits = "request" THEN RequestRefuses(s, f) ELSE ResponseRefuses(s, f)
  THEN Reject(s) ELSE Noted(s, f)

Field(f) ==
  LET part == message.part IN
  /\ stream.verdict = "open" /\ Len(message[part]) < MaxFields[part]
  /\ stream' = OnHeader(stream, f)
  /\ message' = [message EXCEPT ![part] = Append(@, f)]

-----------------------------------------------------------------------------
(* The ends of header blocks and of the stream, and data *)

\* check_path
PathOk(s) ==
  "http" \in s.flags => "/" \in s.flags \/ {"OPTIONS", "*"} \subseteq s.flags

\* nghttp2_http_on_request_headers: only what the method was is kept.
OnRequestHeaders(s) ==
  IF \/ ~({"method", "path", "scheme"} \subseteq s.flags)
     \/ s.flags \cap {"authority", "host"} = {}
     \/ ~PathOk(s)
  THEN Reject(s)
  ELSE [s EXCEPT !.awaits = "first", !.flags = @ \cap Methods, !.length = NaN]

\* expect_response_body
ExpectsBody(s) == "HEAD" \notin s.flags /\ s.status \notin {204, 304}

\* Mutant of OnResponseHeaders: the status of an interim answer stays.
ResponseHeadersKept(s) ==
  LET t == [s EXCEPT !.awaits = "later", !.flags = @ \ {"interim"}] IN
  IF "status" \notin s.flags THEN Reject(s)
  ELSE IF s.status \div 100 = 1
  THEN [t EXCEPT !.flags = @ \cup {"interim"}, !.length = NaN, !.status = NaN]
  ELSE IF ~ExpectsBody(s) THEN [t EXCEPT !.length = 0] ELSE t

\* nghttp2_http_on_response_headers: after an interim answer all begins anew.
OnResponseHeaders(s) ==
  LET t == [s EXCEPT !.awaits = "later", !.flags = @ \ {"interim"}] IN
  IF "status" \notin s.flags THEN Reject(s)
  ELSE IF s.status \div 100 = 1
  THEN [t EXCEPT !.flags = (s.flags \cap Methods) \cup {"interim"}, !.length = NaN, !.status = NaN]
  ELSE IF ~ExpectsBody(s) THEN [t EXCEPT !.length = 0] ELSE t

\* nghttp2_http_on_trailer_headers
OnTrailerHeaders(s, end) == IF end THEN s ELSE Reject(s)

\* nghttp2_http_on_remote_end_stream, if nothing was wrong before
OnEnd(s, end) ==
  IF ~end \/ s.verdict = "reset" THEN s
  ELSE IF "interim" \in s.flags \/ s.length \notin {NaN, s.received} THEN Reject(s)
  ELSE [s EXCEPT !.verdict = "done"]

IsHead(f) == f.name = "method" /\ f.value = "HEAD"

\* The message with one more block, which was taken or not.
Closed(end, ok) ==
  LET interim == message.part = "final" /\ message.final # <<>>
                   /\ message.final[1].name = "status" /\ message.final[1].n \div 100 = 1 IN
  CASE message.part = "request" /\ ok ->
         LET head == {i \in DOMAIN message.request : IsHead(message.request[i])} IN
         [message EXCEPT !.part = "final",
                         !.request = IF head = {} THEN <<>> ELSE <<@[CHOOSE i \in head : TRUE]>>]
    [] interim -> [message EXCEPT !.final = <<>>, !.ended = end]
    [] OTHER   -> [message EXCEPT !.part = "trailer", !.closed = @ \cup {message.part},
                                  !.ended = end]

\* session_after_header_block_received, of HEADERS or PUSH_PROMISE
EndBlock(end) ==
  /\ stream.verdict = "open"
  /\ stream.awaits = "request" => ~end
  /\ stream' = CASE stream.awaits = "request" -> OnRequestHeaders(stream)
                 [] Trailer(stream) -> OnEnd(OnTrailerHeaders(stream, end), end)
                 [] OTHER -> OnEnd(OnResponseHeaders(stream), end)
  /\ message' = Closed(end, stream'.verdict # "reset")

\* NGHTTP2_IB_READ_DATA with nghttp2_http_on_data_chunk, and _on_data_received; before
\* an answer DATA ends the connection, and within a block nothing else may come.
Data(n, end) ==
  LET s == [stream EXCEPT !.received = @ + n]
      much == n > 0 /\ ("interim" \in s.flags \/ (s.length # NaN /\ s.received > s.length)) IN
  /\ stream.verdict = "open" /\ stream.awaits = "later" /\ message[message.part] = <<>>
  /\ stream' = IF much THEN Reject(s) ELSE OnEnd(s, end)
  /\ message' = [message EXCEPT !.data = @ + n, !.ended = end]

Next ==
  \/ \E f \in Fields : Field(f)
  \/ \E end \in BOOLEAN : EndBlock(end)
  \/ \E n \in 0 .. MaxData - message.data, end \in BOOLEAN : Data(n, end)

Spec == Init /\ [][Next]_messageVars

-----------------------------------------------------------------------------
(* What a message is: of the whole of it, as the protocol defines it        *)

Taken(f) == f.form \in {"ok", "empty"}
Named(list, name) == {i \in DOMAIN list : Taken(list[i]) /\ list[i].name = name}
Has(list, name, value) == \E i \in DOMAIN list : list[i].name = name /\ list[i].value = value
Once(places) == \A i, j \in places : i = j

\* Pseudo-headers come first, once each, and only those that belong there.
WellFormed(list, pseudo) ==
  \A i \in DOMAIN list :
    /\ list[i].form # "upper"
    /\ Taken(list[i]) => ~BadForAll(list[i])
    /\ IsPseudo(list[i]) =>
         /\ list[i].form = "ok" /\ list[i].name \in pseudo
         /\ \A j \in 1 .. i - 1 : IsPseudo(list[j]) /\ list[j].name # list[i].name

OneLength(list) ==
  LET places == Named(list, "content-length") IN
  Once(places) /\ \A i \in places : list[i].n # NaN

RequestFine ==
  LET list == message.request
      host == Named(list, "host") IN
  /\ WellFormed(list, {"method", "path", "scheme", "authority"})
  /\ ~Has(list, "method", "CONNECT")
  /\ Once(host) /\ \A i \in host : list[i].form = "ok"
  /\ OneLength(list)
  /\ "request" \in message.closed =>
       /\ \A name \in {"method", "path", "scheme"} : Named(list, name) # {}
       /\ Named(list, "authority") # {} \/ host # {}
       /\ Has(list, "scheme", "http") =>
            Has(list, "path", "/") \/ (Has(list, "path", "*") /\ Has(list, "method", "OPTIONS"))

Numbers(list, name) == {list[i].n : i \in Named(list, name)}
Status == Numbers(message.final, "status")
NoBody == Has(message.request, "method", "HEAD") \/ Status \cap {204, 304} # {}
HeadLength == Numbers(message.final, "content-length")
TrailerLength == Numbers(message.trailer, "content-length")

FinalFine ==
  /\ WellFormed(message.final, {"status"}) /\ Status \cap {NaN, 101} = {}
  /\ OneLength(message.final)
  /\ HeadLength # {} =>
       /\ \A n \in Status : n \div 100 # 1
       /\ 204 \in Status =>
            \A i \in Named(message.final, "content-length") : message.final[i].value = "0"
  /\ "final" \in message.closed => Status # {}

\* A length in the trailers counts if nothing has said it before.
TrailerFine ==
  /\ WellFormed(message.trailer, {}) /\ OneLength(message.trailer)
  /\ HeadLength = {} \/ TrailerLength = {}
  /\ NoBody => TrailerLength = {}
  /\ "trailer" \in message.closed => message.ended

Lengths(said) == IF NoBody THEN {0} ELSE said

DataFine ==
  /\ message.data > 0 => "final" \in message.closed
                           /\ \A n \in Lengths(HeadLength) : message.data <= n
  /\ message.ended => "final" \in message.closed
                        /\ \A n \in Lengths(HeadLength \cup TrailerLength) : message.data = n

\* A stream is reset as soon as what has come cannot be a message any more, and only
\* then; and its end is reported when the message is complete, of the length it says.
MessagesValid ==
  /\ stream.verdict # "reset" <=> RequestFine /\ FinalFine /\ TrailerFine /\ DataFine
  /\ stream.verdict = "done" <=> stream.verdict # "reset" /\ message.ended
=============================================================================
