----------------------------- MODULE BinaryHeap -----------------------------
(***************************************************************************)
(* The priority queue of the vendored nghttp2 (nghttp2_pq.c), a binary     *)
(* heap whose entries know their places, so that one can be removed from   *)
(* the middle.  The queues of StreamTree are of this kind.                 *)
(*                                                                         *)
(* Places are counted from 0 as in the code.  The array never shrinks in   *)
(* the code; what lies behind the length is left out.  A push for which no *)
(* memory is left changes nothing.  nghttp2_pq_update is never called.     *)
(***************************************************************************)
EXTENDS Integers, FiniteSets

CONSTANTS
  Entries,
  Ranks      \* the numbers that entries are compared by

HeapAssumption == Ranks \subseteq Nat

VARIABLES
  rank,   \* what less compares
  heap,   \* q, the entry at each place below length, and the index of each entry
  held    \* history: the entries that an ideal queue would hold

heapVars == <<rank, heap, held>>

Init ==
  /\ rank \in [Entries -> Ranks]
  /\ heap = [q |-> <<>>, index |-> [e \in Entries |-> 0]] /\ held = {}

Length(h) == Cardinality(DOMAIN h.q)
Precedes(a, b) == rank[a] < rank[b]

Put(h, i, e) ==
  [q |-> [j \in DOMAIN h.q \cup {i} |-> IF j = i THEN e ELSE h.q[j]],
   index |-> [h.index EXCEPT ![e] = i]]

Swapped(h, i, j) == Put(Put(h, i, h.q[j]), j, h.q[i])
Shorter(h) == [h EXCEPT !.q = [i \in 0 .. Length(h) - 2 |-> h.q[i]]]

\* An entry that leaves keeps its index in the code, where nothing reads it.
Without(h, e) == [h EXCEPT !.index[e] = 0]

Parent(i) == (i - 1) \div 2

(***************************************************************************)
(* The loops of bubble_up and bubble_down: s is the heap and the place     *)
(* that the entry has come to.  A round that finds nothing to do returns s *)
(* as it is, and as many rounds as there are places are enough.            *)
(***************************************************************************)
RoundUp(s) ==
  IF s.i = 0 \/ ~Precedes(s.h.q[s.i], s.h.q[Parent(s.i)]) THEN s
  ELSE [h |-> Swapped(s.h, Parent(s.i), s.i), i |-> Parent(s.i)]

BubbleUp(h, i) ==
  LET up[n \in 0 .. i] == IF n = 0 THEN [h |-> h, i |-> i] ELSE RoundUp(up[n - 1])
  IN  up[i].h

\* The lesser of two equal children is the first.
RoundDown(s) ==
  LET q == s.h.q
      lesser == {j \in {2 * s.i + 1, 2 * s.i + 2} \cap DOMAIN q : Precedes(q[j], q[s.i])}
      least == CHOOSE j \in lesser : \A k \in lesser :
                 Precedes(q[j], q[k]) \/ (~Precedes(q[k], q[j]) /\ j <= k) IN
  IF lesser = {} THEN s ELSE [h |-> Swapped(s.h, s.i, least), i |-> least]

BubbleDown(h, i) ==
  LET down[n \in 0 .. Length(h)] == IF n = 0 THEN [h |-> h, i |-> i] ELSE RoundDown(down[n - 1])
  IN  down[Length(h)].h

Push(e) ==
  /\ e \notin held
  /\ heap' = BubbleUp(Put(heap, Length(heap), e), Length(heap))
  /\ held' = held \cup {e}
  /\ UNCHANGED rank

Popped == BubbleDown(Shorter(Put(heap, 0, heap.q[Length(heap) - 1])), 0)

Pop ==
  /\ heap.q # <<>>
  /\ heap' = Without(Popped, heap.q[0])
  /\ held' = held \ {heap.q[0]}
  /\ UNCHANGED rank

\* nghttp2_pq_remove: the last entry takes the place, and goes to where it belongs.
Taken(e) ==
  LET i == heap.index[e]
      last == Length(heap) - 1
      h == Shorter(Put(heap, i, heap.q[last])) IN
  IF i = 0 THEN Popped
  ELSE IF i = last THEN Shorter(heap)
  ELSE IF Precedes(e, h.q[i]) THEN BubbleDown(h, i) ELSE BubbleUp(h, i)

Remove(e) ==
  /\ e \in held
  /\ heap' = Without(Taken(e), e)
  /\ held' = held \ {e}
  /\ UNCHANGED rank

Next == (\E e \in Entries : Push(e) \/ Remove(e)) \/ Pop

Spec == Init /\ [][Next]_heapVars

-----------------------------------------------------------------------------
(* Properties *)

\* Through pushes and removals from the middle: the queue holds what an
\* ideal one would, each entry knows its place, and nothing that is held precedes
\* the first entry, nor an entry the one above it.
HeapInOrder ==
  /\ {heap.q[i] : i \in DOMAIN heap.q} = held /\ Length(heap) = Cardinality(held)
  /\ \A e \in held : heap.q[heap.index[e]] = e
  /\ \A i \in DOMAIN heap.q \ {0} : ~Precedes(heap.q[i], heap.q[Parent(i)])
=============================================================================
