--------------------------- MODULE HpackLiterals ---------------------------
(***************************************************************************)
(* The integers and strings of header blocks (encode_length, decode_length,*)
(* emit_string and the reading states of nghttp2_hd_inflate_hd_nv in       *)
(* nghttp2_hd.c, nghttp2_hd_huffman.c), which the inflater may get in      *)
(* pieces of any length.                                                   *)
(*                                                                         *)
(* The widths are small: a byte has ByteBits bits and two halves, where    *)
(* the code has 8, and integers may have WordBits, where it has 32.  The   *)
(* Huffman code is a small complete one; DecodeTable is computed from it,  *)
(* and is data in the code.  As there, no character is shorter than half   *)
(* a byte, and the end of string is all ones and as long as a byte at      *)
(* least, so that a padding of ones is never a character.                  *)
(***************************************************************************)
EXTENDS Naturals, Sequences, SequencesExt

CONSTANTS
  ByteBits, WordBits,
  Code,           \* huff_sym_table: the bits of each character
  EndOfString,    \* its last entry, 256
  TextLetters, MaxText,
  PrefixSizes,       \* of the integers
  Limits          \* the largest values that the inflater takes

VARIABLES
  task,      \* what was coded: a text, a number, or bytes of no meaning
  rest,      \* the bytes that have not arrived yet
  reader     \* the inflater

literalVars == <<task, rest, reader>>

MaxWord == 2 ^ WordBits - 1
GroupBits == ByteBits - 1
Leaves == {Code[c] : c \in DOMAIN Code}

LiteralsAssumption ==
  /\ ByteBits \in 2 .. 8 /\ WordBits \in 1 .. 24 /\ EndOfString \in DOMAIN Code
  /\ \A c \in DOMAIN Code : 2 * Len(Code[c]) >= ByteBits
  /\ \A c, d \in DOMAIN Code : c # d => ~IsPrefix(Code[c], Code[d])
  /\ Len(Code[EndOfString]) >= ByteBits /\ ToSet(Code[EndOfString]) = {1}
  /\ TextLetters \subseteq DOMAIN Code \ {EndOfString}

-----------------------------------------------------------------------------
(* Coding *)

RECURSIVE LaterGroups(_), Bytes(_), Number(_)

LaterGroups(n) ==
  IF n < 2 ^ GroupBits THEN <<n>>
  ELSE <<2 ^ GroupBits + (n % 2 ^ GroupBits)>> \o LaterGroups(n \div 2 ^ GroupBits)

\* encode_length; high are the bits above the prefix.
EncodeLength(n, prefix, high) ==
  LET k == 2 ^ prefix - 1 IN
  IF n < k THEN <<high * 2 ^ prefix + n>> ELSE <<high * 2 ^ prefix + k>> \o LaterGroups(n - k)

Bits(text) == FlattenSeq([i \in 1 .. Len(text) |-> Code[text[i]]])
Number(bits) == IF bits = <<>> THEN 0 ELSE 2 * Number(Front(bits)) + Last(bits)

\* nghttp2_hd_huff_encode: the last byte is filled up with ones.
Bytes(bits) ==
  LET padded == bits \o [i \in 1 .. ByteBits |-> 1] IN
  IF bits = <<>> THEN <<>>
  ELSE <<Number(SubSeq(padded, 1, ByteBits))>> \o Bytes(SubSeq(bits, ByteBits + 1, Len(bits)))

\* emit_string: Huffman coded if that is shorter; a character is its own byte.
EmitString(text) ==
  LET coded == Bytes(Bits(text)) IN
  IF Len(coded) < Len(text) THEN EncodeLength(Len(coded), GroupBits, 1) \o coded
  ELSE EncodeLength(Len(text), GroupBits, 0) \o text

Init ==
  /\ \/ \E text \in BoundedSeq(TextLetters, MaxText) :
          /\ task = [kind |-> "text", text |-> text, prefix |-> GroupBits, limit |-> MaxWord]
          /\ rest = EmitString(text)
     \/ \E n \in 0 .. 2 * MaxWord, prefix \in PrefixSizes, limit \in Limits :
          /\ task = [kind |-> "number", number |-> n, prefix |-> prefix, limit |-> limit]
          /\ rest = EncodeLength(n, prefix, 0)
     \/ \E tail \in [1 .. 3 -> 0 .. 2 ^ ByteBits - 1], prefix \in PrefixSizes :
          /\ rest = <<2 ^ prefix - 1>> \o tail
          /\ task = [kind |-> "bytes", bytes |-> rest, prefix |-> prefix, limit |-> MaxWord]
  /\ reader = [state |-> "check", left |-> 0, shift |-> 0, huffman |-> FALSE,
               node |-> <<>>, out |-> <<>>]

-----------------------------------------------------------------------------
(* Integers *)

Broken == [bad |-> TRUE]
Partial(n, shift) == [bad |-> FALSE, fin |-> FALSE, n |-> n, shift |-> shift, rest |-> <<>>]
Complete(n, tail) == [bad |-> FALSE, fin |-> TRUE, n |-> n, shift |-> 0, rest |-> tail]

RECURSIVE Groups(_, _, _)

Groups(n, shift, in) ==
  LET add == Head(in) % 2 ^ GroupBits IN
  IF in = <<>> THEN Partial(n, shift)
  ELSE IF \/ shift >= WordBits
          \/ MaxWord \div 2 ^ shift < add
          \/ MaxWord - add * 2 ^ shift < n
       THEN Broken
  ELSE IF Head(in) < 2 ^ GroupBits THEN Complete(n + add * 2 ^ shift, Tail(in))
  ELSE Groups(n + add * 2 ^ shift, shift + GroupBits, Tail(in))

\* decode_length: nothing read yet is told by left being 0.
DecodeLength(left, shift, in, prefix) ==
  LET k == 2 ^ prefix - 1 IN
  IF left # 0 THEN Groups(left, shift, in)
  ELSE IF Head(in) % 2 ^ prefix # k THEN Complete(Head(in) % 2 ^ prefix, Tail(in))
  ELSE Groups(k, shift, Tail(in))

-----------------------------------------------------------------------------
(* Huffman codes *)

Failed == "failed"     \* the node 0x100
Stepped(node, b) == IF node \in Leaves THEN <<b>> ELSE Append(node, b)

\* huff_decode_table for one half of a byte: the node it leads to and the
\* character that is complete on the way.
DecodeTable(node, half) ==
  LET bits == [i \in 1 .. ByteBits \div 2 |-> (half \div 2 ^ (ByteBits \div 2 - i)) % 2]
      end == FoldLeft(Stepped, node, bits)
      met == {FoldLeft(Stepped, node, SubSeq(bits, 1, i)) : i \in 1 .. Len(bits)} \cap Leaves
      sym == {c \in DOMAIN Code : Code[c] \in met} IN
  IF node = Failed \/ EndOfString \in sym THEN [node |-> Failed, sym |-> <<>>]
  ELSE [node |-> IF end \in Leaves THEN <<>> ELSE end, sym |-> SetToSeq(sym)]

\* NGHTTP2_HUFF_ACCEPTED
Accepted(node) == node # Failed /\ Len(node) < ByteBits /\ IsPrefix(node, Code[EndOfString])

\* nghttp2_hd_huff_decode, one byte
HuffByte(acc, byte) ==
  LET s == DecodeTable(acc.node, byte \div 2 ^ (ByteBits \div 2))
      t == DecodeTable(s.node, byte % 2 ^ (ByteBits \div 2)) IN
  [acc EXCEPT !.node = t.node, !.out = @ \o s.sym \o t.sym]

-----------------------------------------------------------------------------
(* The inflater *)

Bad(f) == [f EXCEPT !.state = "bad"]

\* hd_inflate_read_huff and hd_inflate_read, of the bytes that there are
ReadString(f, in) ==
  LET here == SubSeq(in, 1, IF Len(in) < f.left THEN Len(in) ELSE f.left)
      g == IF f.huffman THEN FoldLeft(HuffByte, f, here) ELSE [f EXCEPT !.out = @ \o here]
      left == f.left - Len(here) IN
  IF f.huffman /\ (g.node = Failed \/ (left = 0 /\ ~Accepted(g.node))) THEN Bad(g)
  ELSE [g EXCEPT !.left = left, !.state = IF left = 0 THEN "done" ELSE "string"]

\* NGHTTP2_HD_STATE_CHECK_VALUELEN and _READ_VALUELEN (the same for names, and
\* without the first for an index or a table size)
ReadLength(f, in) ==
  LET d == DecodeLength(f.left, f.shift, in, task.prefix)
      g == IF f.state = "check" THEN [f EXCEPT !.huffman = Head(in) >= 2 ^ GroupBits] ELSE f IN
  IF d.bad THEN Bad(g)
  ELSE IF d.n > task.limit THEN Bad(g)
  ELSE LET h == [g EXCEPT !.left = d.n, !.shift = d.shift] IN
       IF ~d.fin THEN [h EXCEPT !.state = "length"]
       ELSE IF task.kind = "text" THEN ReadString(h, d.rest)
       ELSE [h EXCEPT !.state = "done"]

\* nghttp2_hd_inflate_hd_nv with the next n bytes
Feed(n) ==
  /\ reader.state \in {"check", "length", "string"}
  /\ LET in == SubSeq(rest, 1, n) IN
     reader' = IF reader.state = "string" THEN ReadString(reader, in) ELSE ReadLength(reader, in)
  /\ rest' = SubSeq(rest, n + 1, Len(rest))
  /\ UNCHANGED task

Next == \E n \in 1 .. Len(rest) : Feed(n)

Spec == Init /\ [][Next]_literalVars

-----------------------------------------------------------------------------
(* Properties *)

\* The number that bytes stand for.
RECURSIVE Value(_)
Value(bytes) ==
  IF Head(bytes) < 2 ^ GroupBits THEN Head(bytes)
  ELSE (Head(bytes) % 2 ^ GroupBits) + 2 ^ GroupBits * Value(Append(Tail(bytes), 0))

Meaning(bytes, prefix) ==
  LET k == 2 ^ prefix - 1 IN
  IF Head(bytes) % 2 ^ prefix # k THEN Head(bytes) % 2 ^ prefix
  ELSE k + Value(Append(Tail(bytes), 0))

\* In whatever pieces they come: a text comes out as it went in, when its last byte
\* is there and not before; a number comes out if it is within the limit, and is
\* refused if not; and bytes that nobody coded are never taken for another number
\* than the one they stand for, least of all one that went round.
DecodesAsCoded ==
  LET f == reader IN
  CASE task.kind = "text"   -> /\ f.state = "done" => rest = <<>> /\ f.out = task.text
                               /\ f.state # "bad" /\ (rest = <<>> => f.state = "done")
    [] task.kind = "number" -> /\ f.state = "done" => f.left = task.number
                               /\ f.state = "bad" => task.number > task.limit
                               /\ rest = <<>> => f.state \in {"done", "bad"}
    [] task.kind = "bytes"  -> f.state = "done" => f.left = Meaning(task.bytes, task.prefix)
=============================================================================
