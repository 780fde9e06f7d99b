----------------------------- MODULE StreamTree -----------------------------
(***************************************************************************)
(* Which stream of a session sends its next DATA frame: the dependency     *)
(* tree of nghttp2_stream.c, which a client uses whose peer has not turned *)
(* it off (nghttp2_session_open_stream, _reprioritize_stream,              *)
(* _destroy_stream).  A stream with something to send is in the queue of   *)
(* its parent, the parent in that of its own parent, up to the root; the   *)
(* queues are ordered by cycles, which grow with what a stream has sent    *)
(* and slower for a larger weight.                                         *)
(*                                                                         *)
(* The siblings of a stream are a sequence where the code links them, and  *)
(* the queue of a stream is a set whose least members may be taken first   *)
(* (nghttp2_pq.c is in the module BinaryHeap).  Bounds: MaxOps changes and *)
(* MaxSends frames; MaxWeight and MaxWrite are 256 and 2^24 - 1 in the     *)
(* code.                                                                   *)
(***************************************************************************)
EXTENDS Naturals, Sequences, FiniteSets, SequencesExt

CONSTANTS
  Streams,
  Root,        \* session->root
  None,        \* the parent of the root and of a stream that is not in the tree
  Weights,     \* the weights that streams are given
  MaxWeight,   \* NGHTTP2_MAX_WEIGHT
  MaxWrite,    \* NGHTTP2_MAX_FRAME_SIZE_MAX
  MaxOps, MaxSends

TreeAssumption ==
  /\ Root \notin Streams /\ None \notin Streams \cup {Root} /\ None # Root
  /\ Weights \subseteq 1 .. MaxWeight /\ MaxWeight \in Nat
  /\ MaxWrite \in Nat \ {0} /\ {MaxOps, MaxSends} \subseteq Nat

Nodes == Streams \cup {Root}

VARIABLES
  tree,    \* the fields of the streams by which they are scheduled
  passed,  \* history: what each stream has sent since another one, its
           \* sibling and queued, was last served; forgotten when the tree changes
  ops,     \* how many changes there have been
  sends    \* how many frames have been sent

treeVars == <<tree, passed, ops, sends>>

Zero(set) == [s \in set |-> 0]

Init ==
  /\ tree = [parent    |-> [s \in Nodes |-> None],      \* dep_prev
             kids      |-> [s \in Nodes |-> <<>>],      \* dep_next, sib_next
             weight    |-> [s \in Streams |-> CHOOSE w \in Weights : TRUE],
             sum       |-> Zero(Nodes),                 \* sum_dep_weight
             item      |-> [s \in Nodes |-> "none"],    \* or "active", "deferred"
             obq       |-> [s \in Nodes |-> {}],
             cycle     |-> Zero(Streams), seq |-> Zero(Streams),
             pending   |-> Zero(Streams),               \* pending_penalty
             lastWrite |-> Zero(Nodes),
             lastCycle |-> Zero(Nodes),                 \* descendant_last_cycle
             nextSeq   |-> Zero(Nodes)]                 \* descendant_next_seq
  /\ passed = [s \in Streams |-> Zero(Streams)]
  /\ ops = 0 /\ sends = 0

InTree(t, s) == t.parent[s] # None
Kids(t, s) == ToSet(t.kids[s])
Queued(t, s) == \E d \in Nodes : s \in t.obq[d]
Active(t, s) == t.item[s] = "active"
SubtreeActive(t, s) == Active(t, s) \/ t.obq[s] # {}

RECURSIVE Above(_, _), PushedUp(_, _, _), Dropped(_, _), MovedAll(_, _, _, _),
          Rescheduled(_, _)

\* s and its ancestors.
Above(t, s) == IF s = None THEN {} ELSE {s} \cup Above(t, t.parent[s])

-----------------------------------------------------------------------------
(* Queues *)

MaxDistance == MaxWrite * MaxWeight + MaxWeight - 1

\* stream_less; a difference of unsigned integers is large when it is negative.
Less(t, a, b) ==
  IF t.cycle[a] = t.cycle[b] THEN t.seq[a] < t.seq[b]
  ELSE t.cycle[a] < t.cycle[b] /\ t.cycle[b] - t.cycle[a] <= MaxDistance

\* Mutant of NextCycle: the weight does not count.
NextCycleUnweighted(t, s, last) ==
  [t EXCEPT !.cycle[s] = last + t.lastWrite[s] * MaxWeight + t.pending[s]]

\* stream_next_cycle: what was sent last counts as its length by weight.
NextCycle(t, s, last) ==
  LET penalty == t.lastWrite[s] * MaxWeight + t.pending[s] IN
  [t EXCEPT !.cycle[s] = last + penalty \div t.weight[s],
            !.pending[s] = penalty % t.weight[s]]

Entered(t, d, s) ==
  [NextCycle(t, s, t.lastCycle[d]) EXCEPT !.seq[s] = t.nextSeq[d],
                                          !.nextSeq[d] = @ + 1,
                                          !.obq[d] = @ \cup {s}]

\* stream_obq_push: with s, every ancestor that is not queued yet.
PushedUp(t, d, s) ==
  IF d = None \/ Queued(t, s) THEN t
  ELSE PushedUp(Entered(t, d, s), t.parent[d], d)

\* stream_obq_remove: with s, every ancestor that has nothing more to send.
Dropped(t, s) ==
  LET d == t.parent[s] IN
  IF d = None THEN t
  ELSE LET u == [t EXCEPT !.obq[d] = @ \ {s}, !.cycle[s] = 0, !.pending[s] = 0,
                          !.lastCycle[s] = 0, !.lastWrite[s] = 0] IN
       IF SubtreeActive(u, d) THEN u ELSE Dropped(u, d)

RemovedFromQueue(t, s) == IF Queued(t, s) THEN Dropped(t, s) ELSE t

\* stream_obq_move, of each member of list, from the queue of src to that of dst.
MovedAll(t, list, src, dst) ==
  IF list = <<>> THEN t
  ELSE LET s == Head(list)
           u == IF Queued(t, s)
                THEN PushedUp([t EXCEPT !.obq[src] = @ \ {s}], dst, s) ELSE t IN
       MovedAll(u, Tail(list), src, dst)

-----------------------------------------------------------------------------
(* The tree *)

Adopt(t, d, list) == [s \in Nodes |-> IF s \in ToSet(list) THEN d ELSE t.parent[s]]

\* nghttp2_stream_dep_add, and _dep_add_subtree: the new child comes first.
Added(t, d, s) ==
  LET u == [t EXCEPT !.sum[d] = @ + t.weight[s], !.parent[s] = d,
                     !.kids[d] = <<s>> \o @] IN
  IF SubtreeActive(t, s) THEN PushedUp(u, d, s) ELSE u

\* nghttp2_stream_dep_insert, and _dep_insert_subtree: s takes over the children
\* of d.
Inserted(t, d, s) ==
  LET list == t.kids[d]
      u == [t EXCEPT !.sum[s] = @ + t.sum[d], !.sum[d] = t.weight[s],
                     !.parent = [Adopt(t, s, list) EXCEPT ![s] = d],
                     !.kids[s] = @ \o list, !.kids[d] = <<s>>]
      v == MovedAll(u, list, d, s) IN
  IF SubtreeActive(v, s) THEN PushedUp(v, d, s) ELSE v

\* nghttp2_stream_dep_distributed_weight
Share(t, s, k) ==
  LET w == (t.weight[s] * t.weight[k]) \div t.sum[s] IN IF w = 0 THEN 1 ELSE w

Replace(list, s, by) ==
  LET i == CHOOSE j \in 1 .. Len(list) : list[j] = s IN
  SubSeq(list, 1, i - 1) \o by \o SubSeq(list, i + 1, Len(list))

\* Mutant of Removed: the children that are queued stay in the queue of s.
RemovedNotMoved(t, s) ==
  LET d == t.parent[s]
      u == RemovedFromQueue(t, s) IN
  [u EXCEPT !.sum[d] = @ - t.weight[s], !.sum[s] = 0,
            !.parent = [Adopt(t, d, t.kids[s]) EXCEPT ![s] = None],
            !.kids[d] = Replace(@, s, t.kids[s]), !.kids[s] = <<>>]

\* nghttp2_stream_dep_remove: the children share the weight of s and take its place.
Removed(t, s) ==
  LET d == t.parent[s]
      shared == [t EXCEPT !.weight = [k \in Streams |-> IF k \in Kids(t, s)
                                                        THEN Share(t, s, k) ELSE @[k]]]
      delta == FoldFunctionOnSet(+, 0, shared.weight, Kids(t, s))
      u == RemovedFromQueue(MovedAll(shared, t.kids[s], s, d), s) IN
  [u EXCEPT !.sum[d] = @ + delta - t.weight[s], !.sum[s] = 0,
            !.parent = [Adopt(t, d, t.kids[s]) EXCEPT ![s] = None],
            !.kids[d] = Replace(@, s, t.kids[s]), !.kids[s] = <<>>]

\* nghttp2_stream_dep_remove_subtree
Cut(t, s) ==
  LET d == t.parent[s]
      u == RemovedFromQueue([t EXCEPT !.kids[d] = Replace(@, s, <<>>),
                                      !.sum[d] = @ - t.weight[s]], s) IN
  [u EXCEPT !.parent[s] = None]

-----------------------------------------------------------------------------
(* Operations of the session *)

Op == ops < MaxOps /\ ops' = ops + 1 /\ sends' = sends
Forget == passed' = [s \in Streams |-> Zero(Streams)]

\* nghttp2_session_open_stream; a parent that is not in the tree is the root.
Open(s, d, w, exclusive) ==
  /\ ~InTree(tree, s)
  /\ Op /\ Forget
  /\ LET p == IF d = Root \/ InTree(tree, d) THEN d ELSE Root
         t == [tree EXCEPT !.weight[s] = w, !.cycle[s] = 0, !.pending[s] = 0,
                           !.lastWrite[s] = 0, !.lastCycle[s] = 0, !.nextSeq[s] = 0,
                           !.seq[s] = 0] IN
     tree' = IF exclusive /\ p = d THEN Inserted(t, p, s) ELSE Added(t, p, s)

\* nghttp2_session_close_stream of a client: the item goes, then the stream.
Close(s) ==
  /\ InTree(tree, s)
  /\ Op /\ Forget
  /\ LET t == [tree EXCEPT !.item[s] = "none"] IN
     tree' = Removed(IF t.obq[s] = {} THEN RemovedFromQueue(t, s) ELSE t, s)

\* nghttp2_stream_attach_item, and _resume_deferred_item
Attach(s) ==
  /\ InTree(tree, s) /\ ~Active(tree, s)
  /\ Op
  /\ tree' = PushedUp([tree EXCEPT !.item[s] = "active"], tree.parent[s], s)
  /\ Forget

\* nghttp2_stream_detach_item, and _defer_item
Detach(s, state) ==
  /\ Active(tree, s)
  /\ Op
  /\ LET t == [tree EXCEPT !.item[s] = state] IN
     tree' = IF t.obq[s] = {} THEN RemovedFromQueue(t, s) ELSE t
  /\ Forget

\* nghttp2_session_reprioritize_stream
Reprioritize(s, d, w, exclusive) ==
  /\ InTree(tree, s) /\ d # s
  /\ Op /\ Forget
  /\ LET p == IF d = Root \/ InTree(tree, d) THEN d ELSE Root
         t == IF s \in Above(tree, p) THEN Added(Cut(tree, p), tree.parent[s], p) ELSE tree
         u == [Cut(t, s) EXCEPT !.weight[s] = w] IN
     /\ ~(p = t.parent[s] /\ ~exclusive)
     /\ tree' = IF exclusive /\ p = d THEN Inserted(u, p, s) ELSE Added(u, p, s)

\* The same parent again: nghttp2_stream_change_weight.
ChangeWeight(s, w) ==
  /\ InTree(tree, s) /\ w # tree.weight[s]
  /\ Op /\ Forget
  /\ LET d == tree.parent[s]
         old == tree.weight[s]
         length == tree.lastWrite[s] * MaxWeight
         pending == (tree.pending[s] + old - (length % old)) % old
         last == tree.cycle[s] - (length + pending) \div old
         t == [tree EXCEPT !.weight[s] = w, !.sum[d] = @ + w - old]
         u == NextCycle([t EXCEPT !.pending[s] = pending], s, last)
         behind == /\ tree.lastCycle[d] >= u.cycle[s]
                   /\ tree.lastCycle[d] - u.cycle[s] <= MaxDistance IN
     tree' = IF ~Queued(tree, s) THEN t
             ELSE IF behind THEN [u EXCEPT !.cycle[s] = tree.lastCycle[d]] ELSE u

-----------------------------------------------------------------------------
(* Sending *)

First(t, s) == \A q \in t.obq[t.parent[s]] : ~Less(t, q, s)

\* nghttp2_stream_next_outbound_item
Chosen(t, s) ==
  /\ Active(t, s)
  /\ \A a \in Above(t, s) \ {Root} : a \in t.obq[t.parent[a]] /\ First(t, a)
  /\ \A a \in Above(t, s) \ {s} : ~Active(t, a)

\* nghttp2_stream_reschedule; the last length goes up with it.
Rescheduled(t, s) ==
  LET d == t.parent[s]
      u == [NextCycle(t, s, t.lastCycle[d]) EXCEPT !.seq[s] = t.nextSeq[d],
                                                   !.nextSeq[d] = @ + 1,
                                                   !.lastWrite[d] = t.lastWrite[s]] IN
  IF d = None THEN t ELSE Rescheduled(u, d)

\* A DATA frame of n bytes is packed, and more may follow.
Send(s, n) ==
  /\ Chosen(tree, s)
  /\ sends < MaxSends /\ sends' = sends + 1 /\ ops' = ops
  /\ LET path == Above(tree, s)
         t == [tree EXCEPT !.lastWrite[s] = n,
                           !.lastCycle = [d \in Nodes |->
                             IF d \in path \ {s}
                             THEN tree.cycle[CHOOSE a \in path : tree.parent[a] = d]
                             ELSE @[d]]] IN
     tree' = Rescheduled(t, s)
  /\ passed' = [q \in Streams |-> [p \in Streams |->
                 IF q \in Above(tree, s) THEN 0
                 ELSE IF p \in Above(tree, s) /\ tree.parent[p] = tree.parent[q] /\ Queued(tree, q)
                 THEN passed[q][p] + n ELSE passed[q][p]]]

Next ==
  \/ \E s \in Streams, d \in Nodes, w \in Weights, exclusive \in BOOLEAN :
       Open(s, d, w, exclusive) \/ Reprioritize(s, d, w, exclusive)
  \/ \E s \in Streams : Close(s) \/ Attach(s)
  \/ \E s \in Streams, state \in {"none", "deferred"} : Detach(s, state)
  \/ \E s \in Streams, w \in Weights : ChangeWeight(s, w)
  \/ \E s \in Streams, n \in 0 .. MaxWrite : Send(s, n)

Spec == Init /\ [][Next]_treeVars

-----------------------------------------------------------------------------
(* Properties *)

\* What validate_tree asserts: children and parents name each other, the sums of
\* the weights are right, a stream is queued, with its parent and there only, if
\* and only if it or one below it has something to send.
ValidTree ==
  /\ \A d \in Nodes :
       /\ \A k \in Kids(tree, d) : tree.parent[k] = d
       /\ tree.sum[d] = FoldFunctionOnSet(+, 0, tree.weight, Kids(tree, d))
       /\ tree.obq[d] = {k \in Kids(tree, d) : SubtreeActive(tree, k)}
  /\ \A s \in Streams : InTree(tree, s) => /\ s \in Kids(tree, tree.parent[s])
                                           /\ Root \in Above(tree, s)

\* While the tree stays as it is, a stream does not send more than its weight
\* allows, and one frame, before a queued sibling gets a turn.
WeightedShare ==
  \A s, p \in Streams : s # p /\ passed[s][p] > 0 =>
    passed[s][p] * MaxWeight
      <= tree.weight[p] * ((MaxWrite * MaxWeight) \div tree.weight[s] + 2) + MaxWrite * MaxWeight
=============================================================================
