------------------------------ MODULE HeaderText ------------------------------
(***************************************************************************)
(* The characters of header fields: nghttp2_helper.c and the small readers *)
(* of nghttp2_http.c.  A text is a sequence of bytes; a table of the code  *)
(* is the set of the bytes it allows.                                      *)
(***************************************************************************)
EXTENDS Integers, Sequences

CONSTANTS
  Bytes,   \* the bytes that texts are made of
  MaxText, \* their greatest length
  MaxInt   \* INT64_MAX, in whose place a smaller number shows the same

TextAssumption == Bytes \subseteq 0 .. 255 /\ {MaxText, MaxInt} \subseteq Nat

VARIABLE text

textVars == <<text>>

Upper == 65 .. 90
Lower == 97 .. 122
Digits == 48 .. 57
Colon == 58
Space == 32
Tab == 9

-----------------------------------------------------------------------------
\* nghttp2_downcase with its table, as on every name that is copied.
Downcase(t) == [k \in DOMAIN t |-> IF t[k] \in Upper THEN t[k] + 32 ELSE t[k]]

\* VALID_HD_NAME_CHARS
NameChars == {33} \cup 35 .. 39 \cup {42, 43, 45, 46} \cup Digits \cup 94 .. 122 \cup {124, 126}

\* VALID_HD_VALUE_CHARS: no control characters but the tab.
ValueChars == {Tab} \cup 32 .. 126 \cup 128 .. 255

\* VALID_METHOD_CHARS
MethodChars ==
  {33} \cup 35 .. 39 \cup {42, 43, 45, 46} \cup Digits \cup Upper \cup 94 .. 122 \cup {124, 126}

\* VALID_PATH_CHARS
PathChars == 33 .. 126 \cup 128 .. 255

\* VALID_AUTHORITY_CHARS
AuthorityChars ==
  {33, 36, 37, 38} \cup 39 .. 46 \cup Digits \cup {58, 59, 61, 64} \cup Upper \cup {91, 93, 95}
    \cup Lower \cup {126}

-----------------------------------------------------------------------------
Only(t, chars) == \A k \in DOMAIN t : t[k] \in chars

CheckHeaderName(t) ==
  /\ t # <<>>
  /\ IF t[1] = Colon THEN Len(t) > 1 /\ Only(Tail(t), NameChars) ELSE Only(t, NameChars)

CheckHeaderValue(t) == Only(t, ValueChars)

CheckHeaderValueRfc9113(t) ==
  t # <<>> =>
    /\ t[1] \notin {Space, Tab} /\ t[Len(t)] \notin {Space, Tab}
    /\ CheckHeaderValue(t)

CheckMethod(t) == t # <<>> /\ Only(t, MethodChars)
CheckPath(t) == Only(t, PathChars)
CheckAuthority(t) == Only(t, AuthorityChars)

\* nghttp2_http.c
CheckScheme(t) ==
  /\ t # <<>> /\ t[1] \in Upper \cup Lower
  /\ Only(Tail(t), Upper \cup Lower \cup Digits \cup {43, 45, 46})

\* parse_uint: -1 for what is no number or does not fit; it looks before it multiplies
\* and before it adds.
ParseUint(t) ==
  LET n[k \in 0 .. Len(t)] ==
        IF k = 0 THEN 0
        ELSE LET m == n[k - 1]
                 d == t[k] - 48
             IN  IF \/ m = -1 \/ t[k] \notin Digits
                    \/ m > MaxInt \div 10 \/ m * 10 > MaxInt - d
                 THEN -1 ELSE m * 10 + d
  IN  IF t = <<>> THEN -1 ELSE n[Len(t)]

-----------------------------------------------------------------------------
Init == text = <<>>

\* A text one byte longer.
Type == Len(text) < MaxText /\ \E b \in Bytes : text' = Append(text, b)

Next == Type

Spec == Init /\ [][Next]_textVars

-----------------------------------------------------------------------------
\* The value of digits, counted from the last.
Value(t) ==
  LET v[k \in 0 .. Len(t)] ==
        IF k = 0 THEN 0 ELSE v[k - 1] + (t[Len(t) - k + 1] - 48) * 10 ^ (k - 1)
  IN  v[Len(t)]

(***************************************************************************)
(* The tables agree: what the sender makes of a name is a name for the     *)
(* receiver exactly when it was one in any case, a method's letters are a  *)
(* name's; whatever is a path, an authority or a scheme is a value, and    *)
(* none of them can end a line or hide white space at its ends; and a      *)
(* content-length is the number it says, up to the greatest, or none.      *)
(***************************************************************************)
TextsRead ==
  LET plain == text # <<>> => text[1] # Colon
  IN  /\ plain => (CheckHeaderName(Downcase(text)) <=> CheckMethod(text))
      /\ text # <<>> => (CheckHeaderName(Downcase(<<Colon>> \o text)) <=> CheckMethod(text))
      /\ CheckScheme(text) => CheckMethod(text) /\ CheckAuthority(text)
      /\ CheckMethod(text) \/ CheckAuthority(text) => CheckPath(text)
      /\ CheckPath(text) => CheckHeaderValueRfc9113(text)
      /\ CheckHeaderValueRfc9113(text) =>
           /\ Only(text, {Tab} \cup (32 .. 255 \ {127}))
           /\ text # <<>> => {text[1], text[Len(text)]} \cap {Space, Tab} = {}
      /\ ParseUint(text) =
           IF text # <<>> /\ Only(text, Digits) /\ Value(text) <= MaxInt THEN Value(text) ELSE -1
=============================================================================
