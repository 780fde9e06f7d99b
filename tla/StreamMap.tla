----------------------------- MODULE StreamMap -----------------------------
(***************************************************************************)
(* The hash table of the vendored nghttp2 (nghttp2_map.c), in which a      *)
(* session keeps its streams: open addressing with "robin hood" insertion, *)
(* and removal that moves the buckets behind the hole back.                *)
(*                                                                         *)
(* The hash of a key is any number below 2^HashBits, where the code        *)
(* multiplies by a constant; as keys are only compared, the hashes may be  *)
(* taken in ascending order.  The data of a key is left out.  A table that *)
(* cannot be allocated leaves all as it is.                                *)
(***************************************************************************)
EXTENDS Naturals, FiniteSets

CONSTANTS
  Keys,
  InitialBits,   \* NGHTTP2_INITIAL_TABLE_LENBITS
  HashBits,      \* 32 in the code
  NoKey          \* of an empty bucket

\* tablelen: 1 << n.
Length[n \in 0 .. HashBits] == IF n = 0 THEN 1 ELSE 2 * Length[n - 1]

MapAssumption ==
  /\ InitialBits \in Nat \ {0} /\ HashBits \in Nat /\ InitialBits <= HashBits
  /\ Keys \subseteq Nat /\ IsFiniteSet(Keys) /\ NoKey \notin Nat
  /\ (Cardinality(Keys) + 1) * 4 <= Length[HashBits] * 3

VARIABLES
  hash,     \* of each key
  bits,     \* tablelenbits; 0: there is no table yet
  table,    \* the key in each bucket
  size,     \* the number of entries
  stored    \* history: the keys that an ideal map would hold

mapVars == <<hash, bits, table, size, stored>>

Hashes == 0 .. Length[HashBits] - 1

\* A hash >> n.
Shifted[n \in 0 .. HashBits] ==
  [h \in Hashes |-> IF n = 0 THEN h ELSE Shifted[n - 1][h] \div 2]

Init ==
  /\ hash \in [Keys -> Hashes]
  /\ \A j, k \in Keys : j < k => hash[j] <= hash[k]
  /\ bits = 0 /\ table = <<>> /\ size = 0 /\ stored = {}

EmptyTable(n) == [i \in 0 .. Length[n] - 1 |-> NoKey]

-----------------------------------------------------------------------------
(* Probing                                                                 *)

\* h2idx: the home of a key in a table of 2^n buckets.
Home(k, n) == Shifted[HashBits - n][hash[k]]

\* How far key k in bucket i is from its home.
Distance(k, n, i) == (i + Length[n] - Home(k, n)) % Length[n]

Following(i, n) == (i + 1) % Length[n]

(***************************************************************************)
(* The rounds of the loops: one that comes to the end of its loop returns  *)
(* its state as it is, and no loop goes round the table twice.             *)
(***************************************************************************)
\* insert: an entry that is nearer to its home than the key in hand gives way to it, and
\* is in hand then.  The loop ends with no key in hand, or with one that is there already.
InsertRound(s, n) ==
  LET there == s.t[s.i]
      next == Following(s.i, n) IN
  IF s.k = NoKey THEN s
  ELSE IF there = NoKey
       THEN [t |-> [s.t EXCEPT ![s.i] = s.k], k |-> NoKey, i |-> s.i, d |-> s.d]
  ELSE IF s.d > Distance(there, n, s.i)
       THEN [t |-> [s.t EXCEPT ![s.i] = s.k], k |-> there, i |-> next,
             d |-> Distance(there, n, s.i) + 1]
  ELSE IF there = s.k THEN s
  ELSE [t |-> s.t, k |-> s.k, i |-> next, d |-> s.d + 1]

\* <<>> stands for NGHTTP2_ERR_INVALID_ARGUMENT: the key is there already.
Inserted(t, n, k) ==
  LET s[j \in 0 .. Length[n]] ==
        IF j = 0 THEN [t |-> t, k |-> k, i |-> Home(k, n), d |-> 0] ELSE InsertRound(s[j - 1], n)
      end == s[Length[n]]
  IN  IF end.k = NoKey THEN end.t ELSE <<>>

\* nghttp2_map_find: an entry that is nearer to its home ends the search.
Passes(k, s) ==
  /\ table[s.i] \notin {NoKey, k}
  /\ s.d <= Distance(table[s.i], bits, s.i)

SearchRound(k, s) == IF Passes(k, s) THEN [i |-> Following(s.i, bits), d |-> s.d + 1] ELSE s

\* The bucket that holds k, if there is one.
Find(k) ==
  LET s[j \in 0 .. Length[bits]] ==
        IF j = 0 THEN [i |-> Home(k, bits), d |-> 0] ELSE SearchRound(k, s[j - 1])
      end == s[Length[bits]]
  IN  IF size = 0 THEN {}
      ELSE {i \in {end.i} : table[i] = k /\ end.d <= Distance(k, bits, i)}

\* nghttp2_map_remove: the hole moves on until the next bucket is empty or its entry at home.
ShiftRound(s, n) ==
  LET i == Following(s.hole, n) IN
  IF s.t[i] = NoKey \/ Distance(s.t[i], n, i) = 0 THEN s
  ELSE [t |-> [s.t EXCEPT ![s.hole] = s.t[i], ![i] = NoKey], hole |-> i]

\* Mutant of ShiftBack: the entries behind the hole stay where they are.
LeaveHole(t, n, hole) == t

ShiftBack(t, n, hole) ==
  LET s[j \in 0 .. Length[n]] ==
        IF j = 0 THEN [t |-> t, hole |-> hole] ELSE ShiftRound(s[j - 1], n)
  IN  s[Length[n]].t

\* map_resize: the entries are inserted in the order of the old table.
MoveRound(old, s, n) ==
  IF s.i \notin DOMAIN old THEN s
  ELSE [t |-> IF old[s.i] = NoKey THEN s.t ELSE Inserted(s.t, n, old[s.i]), i |-> s.i + 1]

Moved(old, n) ==
  LET s[j \in 0 .. Cardinality(DOMAIN old)] ==
        IF j = 0 THEN [t |-> EmptyTable(n), i |-> 0] ELSE MoveRound(old, s[j - 1], n)
  IN  s[Cardinality(DOMAIN old)].t

\* nghttp2_map_insert; growing comes before the search for the key, and stays
\* if the key is there already.
Insert(k) ==
  LET full == (size + 1) * 4 > Cardinality(DOMAIN table) * 3
      n == IF ~full THEN bits ELSE IF bits = 0 THEN InitialBits ELSE bits + 1
      t == IF full THEN Moved(table, n) ELSE table
      done == Inserted(t, n, k) IN
  /\ n <= HashBits
  /\ bits' = n
  /\ IF done = <<>>
     THEN table' = t /\ UNCHANGED <<size, stored>>
     ELSE table' = done /\ size' = size + 1 /\ stored' = stored \cup {k}
  /\ UNCHANGED hash

\* nghttp2_map_remove of a key that it finds; otherwise it changes nothing.
Remove(k) ==
  /\ \E i \in Find(k) : table' = ShiftBack([table EXCEPT ![i] = NoKey], bits, i)
  /\ size' = size - 1
  /\ stored' = stored \ {k}
  /\ UNCHANGED <<hash, bits>>

\* nghttp2_map_clear keeps the table's length.
Clear ==
  /\ bits # 0
  /\ table' = EmptyTable(bits) /\ size' = 0 /\ stored' = {}
  /\ UNCHANGED <<hash, bits>>

Next == (\E k \in Keys : Insert(k) \/ Remove(k)) \/ Clear

Spec == Init /\ [][Next]_mapVars

-----------------------------------------------------------------------------
(* Properties *)

\* Whatever keys collide, and through growing and removing, a key is found if and
\* only if an ideal map holds it, the size is the number of these keys, and a bucket
\* is empty, where the loops end.
FindsStored ==
  /\ \A k \in Keys : Find(k) # {} <=> k \in stored
  /\ size = Cardinality(stored)
  /\ bits # 0 => \E i \in DOMAIN table : table[i] = NoKey
=============================================================================
