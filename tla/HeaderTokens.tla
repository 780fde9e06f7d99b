----------------------------- MODULE HeaderTokens -----------------------------
(***************************************************************************)
(* How nghttp2_hd.c numbers the names of header fields.  The rules for     *)
(* messages (nghttp2_http.c) look at a field's token, never at its name;   *)
(* lookup_token gives it for a name that is spelt out, the static table    *)
(* for one that comes as an index.  One field is coded and decoded, while  *)
(* the dynamic table is empty (Hpack has it).                              *)
(***************************************************************************)
EXTENDS Integers, Sequences

VARIABLES
  given,  \* the field of the application: [name, value, never]
  coded,  \* its representation
  emitted \* the field that the other side gets: [name, value, token]

tokenVars == <<given, coded, emitted>>

NotCoded == [kind |-> "none"]

-----------------------------------------------------------------------------
(* Names, values and tokens, from index 0.                                 *)

TokenTable ==
  <<<<":authority", "", 0>>, <<":method", "GET", 1>>, <<":method", "POST", 1>>,
    <<":path", "/", 3>>, <<":path", "/index.html", 3>>, <<":scheme", "http", 5>>,
    <<":scheme", "https", 5>>, <<":status", "200", 7>>, <<":status", "204", 7>>,
    <<":status", "206", 7>>, <<":status", "304", 7>>, <<":status", "400", 7>>,
    <<":status", "404", 7>>, <<":status", "500", 7>>, <<"accept-charset", "", 14>>,
    <<"accept-encoding", "gzip, deflate", 15>>, <<"accept-language", "", 16>>,
    <<"accept-ranges", "", 17>>, <<"accept", "", 18>>,
    <<"access-control-allow-origin", "", 19>>, <<"age", "", 20>>, <<"allow", "", 21>>,
    <<"authorization", "", 22>>, <<"cache-control", "", 23>>,
    <<"content-disposition", "", 24>>, <<"content-encoding", "", 25>>,
    <<"content-language", "", 26>>, <<"content-length", "", 27>>,
    <<"content-location", "", 28>>, <<"content-range", "", 29>>, <<"content-type", "", 30>>,
    <<"cookie", "", 31>>, <<"date", "", 32>>, <<"etag", "", 33>>, <<"expect", "", 34>>,
    <<"expires", "", 35>>, <<"from", "", 36>>, <<"host", "", 37>>, <<"if-match", "", 38>>,
    <<"if-modified-since", "", 39>>, <<"if-none-match", "", 40>>, <<"if-range", "", 41>>,
    <<"if-unmodified-since", "", 42>>, <<"last-modified", "", 43>>, <<"link", "", 44>>,
    <<"location", "", 45>>, <<"max-forwards", "", 46>>, <<"proxy-authenticate", "", 47>>,
    <<"proxy-authorization", "", 48>>, <<"range", "", 49>>, <<"referer", "", 50>>,
    <<"refresh", "", 51>>, <<"retry-after", "", 52>>, <<"server", "", 53>>,
    <<"set-cookie", "", 54>>, <<"strict-transport-security", "", 55>>,
    <<"transfer-encoding", "", 56>>, <<"user-agent", "", 57>>, <<"vary", "", 58>>,
    <<"via", "", 59>>, <<"www-authenticate", "", 60>>>>

WwwAuthenticate == 60
Entry(i) == TokenTable[i + 1]

-----------------------------------------------------------------------------
(* The cases of lookup_token by the lengths of the names: up to 7, up to   *)
(* 13, and longer ones.                                                    *)

ShortNames ==
  {<<"te", 61>>, <<"via", 59>>, <<"age", 20>>, <<"date", 32>>, <<"etag", 33>>,
   <<"link", 44>>, <<"from", 36>>, <<"host", 37>>, <<"vary", 58>>, <<"range", 49>>,
   <<":path", 3>>, <<"allow", 21>>, <<"cookie", 31>>, <<"server", 53>>, <<"accept", 18>>,
   <<"expect", 34>>, <<":method", 1>>, <<":scheme", 5>>, <<"upgrade", 65>>,
   <<"refresh", 51>>, <<"referer", 50>>, <<":status", 7>>, <<"expires", 35>>}

MiddleNames ==
  {<<"if-range", 41>>, <<"if-match", 38>>, <<"location", 45>>, <<"priority", 67>>,
   <<":protocol", 66>>, <<"keep-alive", 63>>, <<"set-cookie", 54>>, <<"connection", 62>>,
   <<"user-agent", 57>>, <<":authority", 0>>, <<"retry-after", 52>>, <<"content-type", 30>>,
   <<"max-forwards", 46>>, <<"last-modified", 43>>, <<"content-range", 29>>,
   <<"if-none-match", 40>>, <<"cache-control", 23>>, <<"authorization", 22>>,
   <<"accept-ranges", 17>>}

LongNames ==
  {<<"content-length", 27>>, <<"accept-charset", 14>>, <<"accept-language", 16>>,
   <<"accept-encoding", 15>>, <<"content-language", 26>>, <<"www-authenticate", 60>>,
   <<"content-encoding", 25>>, <<"content-location", 28>>, <<"proxy-connection", 64>>,
   <<"if-modified-since", 39>>, <<"transfer-encoding", 56>>, <<"proxy-authenticate", 47>>,
   <<"if-unmodified-since", 42>>, <<"content-disposition", 24>>,
   <<"proxy-authorization", 48>>, <<"strict-transport-security", 55>>,
   <<"access-control-allow-origin", 19>>}

LookupToken(name) ==
  LET found == {p \in ShortNames \cup MiddleNames \cup LongNames : p[1] = name}
  IN  IF found = {} THEN -1 ELSE (CHOOSE p \in found : TRUE)[2]

-----------------------------------------------------------------------------

\* search_static_table: the loop over the entries of one token.
SearchStaticTable(field, token) ==
  LET same == {i \in token .. WwwAuthenticate :
                 \A k \in token .. i : Entry(k)[3] = token}
      match == {i \in same : Entry(i)[2] = field.value}
  IN  IF field.never \/ match = {} THEN [index |-> token, exact |-> FALSE]
      ELSE [index |-> CHOOSE i \in match : \A k \in match : i <= k, exact |-> TRUE]

\* search_hd_table, without an entry in the dynamic table.
SearchHdTable(field, token) ==
  IF token >= 0 /\ token <= WwwAuthenticate THEN SearchStaticTable(field, token)
  ELSE [index |-> -1, exact |-> FALSE]

\* deflate_nv
Represented(field) ==
  LET found == SearchHdTable(field, LookupToken(field.name))
  IN  CASE found.exact -> [kind |-> "indexed", index |-> found.index + 1]
        [] ~found.exact /\ found.index # -1 ->
             [kind |-> "indexed name", index |-> found.index + 1, value |-> field.value]
        [] OTHER -> [kind |-> "new name", name |-> field.name, value |-> field.value]

\* hd_inflate_commit_indexed, _indname and _newname.
Emitted(code) ==
  CASE code.kind = "indexed" ->
         LET e == Entry(code.index - 1) IN [name |-> e[1], value |-> e[2], token |-> e[3]]
    [] code.kind = "indexed name" ->
         LET e == Entry(code.index - 1) IN [name |-> e[1], value |-> code.value, token |-> e[3]]
    [] OTHER -> [name |-> code.name, value |-> code.value, token |-> LookupToken(code.name)]

-----------------------------------------------------------------------------
Names == {p[1] : p \in ShortNames \cup MiddleNames \cup LongNames} \cup {"x-grpc", ":x"}
Values == {TokenTable[i][2] : i \in DOMAIN TokenTable} \cup {"other"}

Init ==
  /\ given \in [name : Names, value : Values, never : BOOLEAN]
  /\ coded = NotCoded /\ emitted = NotCoded

Deflate ==
  /\ coded = NotCoded
  /\ coded' = Represented(given)
  /\ UNCHANGED <<given, emitted>>

Inflate ==
  /\ coded # NotCoded /\ emitted = NotCoded
  /\ emitted' = Emitted(coded)
  /\ UNCHANGED <<given, coded>>

Next == Deflate \/ Inflate

Spec == Init /\ [][Next]_tokenVars

-----------------------------------------------------------------------------
(***************************************************************************)
(* A field keeps its name and its value, and has the token of its name,    *)
(* whether it came as an index, with the index of its name, or spelt out:  *)
(* else the rules for messages would hold for some spellings of a field    *)
(* only.  A field that must not be indexed has its value spelt out         *)
(* (lookup_token, static_table, search_static_table).                      *)
(***************************************************************************)
TokensAgree ==
  emitted # NotCoded =>
    /\ emitted.name = given.name /\ emitted.value = given.value
    /\ emitted.token = LookupToken(given.name)
    /\ given.never => coded.kind # "indexed"
=============================================================================
