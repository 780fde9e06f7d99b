-------------------------- MODULE WsBroadcastProofs --------------------------
(***************************************************************************)
(* The browsers show what the hub has once it has nothing left to tell,    *)
(* and the list of observed buttons is what was pressed last: for any      *)
(* browsers, buttons and bounds, whatever the order of the tasks.          *)
(***************************************************************************)
EXTENDS WsBroadcast, FiniteSetTheorems, SequenceTheorems, WellFoundedInduction, TLAPS

(***************************************************************************)
(* A task in the middle of a write has nothing to announce yet, and the    *)
(* Fetch task writes only what it still has to get.                        *)
(***************************************************************************)
Writers ==
  /\ "loop" \in writing => Idle("loop")
  /\ "fetch" \in writing => Idle("fetch") /\ fetch > 0

(***************************************************************************)
(* The present state of topic t is still to be enqueued: it is not read    *)
(* yet, or it is in the hands of a task.  Or the code leaves it out.       *)
(***************************************************************************)
Announced(t) == \E k \in Tasks : \E i \in 1 .. Len(todo[k]) : todo[k][i] = t
Carried(t) == \E k \in Tasks : held[k] # None /\ held[k].topic = t /\ held[k].seen = version[t]
Coming(t) == t \in silent \/ Torn(t) \/ Announced(t) \/ Carried(t)

(***************************************************************************)
(* A message that a task holds is torn only while the topic is written or  *)
(* after it was; when the message is old, a newer one is on its way or     *)
(* already ahead of it.                                                    *)
(***************************************************************************)
HeldAsRead ==
  \A k \in Tasks : held[k] # None =>
    LET t == held[k].topic IN
    /\ held[k].at <= version[t]
    /\ held[k].seen \in {held[k].at, Garbled}
    /\ held[k].seen = Garbled => held[k].at < version[t] \/ Torn(t)
    /\ held[k].at < version[t] => Coming(t) \/ newest[t] = version[t]

NewestSeen == \A t \in Topics : newest[t] <= version[t]

(***************************************************************************)
(* The last message of a topic in the queue tells its present state,       *)
(* unless that is still to come or was overtaken.                          *)
(***************************************************************************)
LastOf(i) == \A j \in i + 1 .. Len(queue) : queue[j].topic # queue[i].topic

QueueCurrent ==
  \A i \in 1 .. Len(queue) :
    LastOf(i) => \/ queue[i].seen = version[queue[i].topic]
                 \/ queue[i].topic \in overtaken
                 \/ Coming(queue[i].topic)

(***************************************************************************)
(* A browser shows the present state of a topic of which the queue holds   *)
(* nothing, unless that is still to come, was overtaken or dropped, or the *)
(* browser has just connected.                                             *)
(***************************************************************************)
InQueue(t) == \E i \in 1 .. Len(queue) : queue[i].topic = t
StillSent(b, t) ==
  joining # None /\ joining.client = b /\ \E i \in 1 .. Len(joining.left) : joining.left[i] = t

ViewsCurrent ==
  \A b \in clients, t \in Topics :
    \/ view[b][t] = version[t]
    \/ InQueue(t) \/ Coming(t) \/ StillSent(b, t)
    \/ t \in overtaken \/ t \in lost[b]

Settling == HeldAsRead /\ NewestSeen /\ QueueCurrent /\ ViewsCurrent

-----------------------------------------------------------------------------
(* Sequences                                                               *)

(***************************************************************************)
(* What is left after the first one.                                       *)
(***************************************************************************)
LEMMA TailElements ==
  ASSUME NEW S, NEW s \in Seq(S), s # <<>>
  PROVE  /\ Head(s) \in S /\ Tail(s) \in Seq(S)
         /\ \A t : (\E i \in 1 .. Len(s) : s[i] = t) =>
                     t = Head(s) \/ \E i \in 1 .. Len(Tail(s)) : Tail(s)[i] = t
         /\ Len(s) = 1 => Tail(s) = <<>>
         /\ Len(s) # 1 => Tail(s) # <<>>
<1>1. /\ Head(s) \in S /\ Tail(s) \in Seq(S) /\ Len(s) \in Nat /\ Len(s) > 0
      /\ Len(Tail(s)) = Len(s) - 1
      /\ \A i \in 1 .. Len(Tail(s)) : Tail(s)[i] = s[i + 1]
  BY HeadTailProperties, EmptySeq
<1>2. Head(s) = s[1]
  OBVIOUS
<1>3. ASSUME NEW t, NEW i \in 1 .. Len(s), s[i] = t, t # Head(s)
      PROVE  \E j \in 1 .. Len(Tail(s)) : Tail(s)[j] = t
  <2>1. i - 1 \in 1 .. Len(Tail(s)) /\ Tail(s)[i - 1] = t
    BY <1>1, <1>2, <1>3
  <2> QED  BY <2>1
<1>4. (Len(s) = 1 => Tail(s) = <<>>) /\ (Len(s) # 1 => Tail(s) # <<>>)
  <2>1. \A q \in Seq(S) : q # <<>> => Len(q) \in Nat \ {0}
    BY EmptySeq
  <2>2. Len(<<>>) = 0
    OBVIOUS
  <2>3. ASSUME Len(s) = 1 PROVE Tail(s) = <<>>
    <3>1. Len(Tail(s)) = 0
      BY <1>1, <2>3
    <3>2. Tail(s) \in Seq(S) /\ \A q \in Seq(S) : q # <<>> => Len(q) \in Nat \ {0}
      BY <1>1, <2>1
    <3> QED  BY <3>1, <3>2, Zenon, 0 \notin Nat \ {0}
  <2>4. ASSUME Len(s) # 1 PROVE Tail(s) # <<>>
    <3>1. Len(Tail(s)) # 0
      BY <1>1, <2>4
    <3> QED  BY <2>2, <3>1
  <2> QED  BY <2>3, <2>4
<1> QED  BY <1>1, <1>3, <1>4

(***************************************************************************)
(* A set of places in a sequence has a last one.                           *)
(***************************************************************************)
LEMMA LastExists ==
  ASSUME NEW n \in Nat, NEW at \in SUBSET (1 .. n), at # {}
  PROVE  \E i \in at : \A j \in at : j <= i
<1> DEFINE T == {n - i : i \in at}
<1>1. T \subseteq Nat /\ T # {}
  <2>1. \A i \in at : i \in 1 .. n /\ n - i \in Nat
    OBVIOUS
  <2> QED  BY <2>1
<1>2. PICK x \in T : \A y \in T : ~ (<<y, x>> \in OpToRel(<, Nat))
  BY <1>1, WFMin, NatLessThanWellFounded, Zenon
<1>3. \A y \in T : ~ (y < x)
  BY <1>1, <1>2 DEF OpToRel
<1>4. PICK i \in at : x = n - i
  OBVIOUS
<1>5. \A j \in at : n - j \in T
  OBVIOUS
<1>6. \A j \in at : j \in 1 .. n
  OBVIOUS
<1>7. ASSUME NEW j \in at PROVE j <= i
  BY <1>3, <1>4, <1>5, <1>6
<1> QED  BY <1>4, <1>7
-----------------------------------------------------------------------------
(* The list of observed buttons                                            *)

Once(list) == \A i, j \in 1 .. Len(list) : list[i] = list[j] => i = j

(***************************************************************************)
(* A list that does not have b is kept as it is.                           *)
(***************************************************************************)
LEMMA OthersOfNone ==
  ASSUME NEW list \in Seq(Buttons), NEW b, \A i \in 1 .. Len(list) : list[i] # b
  PROVE  Others(list, b) = list
<1> DEFINE n == Len(list)
<1>1. n \in Nat /\ list = [j \in 1 .. n |-> list[j]]
  BY LenProperties
<1>2. Kept(list, b) = 1 .. n
  BY DEF Kept
<1>3. \A m \in Nat : Cardinality(1 .. m) = m
  <2> TAKE m \in Nat
  <2> QED  BY FS_Interval
<1>4. \A i \in 1 .. n : Place(list, b, i) = i
  <2> TAKE i \in 1 .. n
  <2>1. {h \in 1 .. n : h <= i} = 1 .. i
    BY <1>1
  <2>2. Place(list, b, i) = Cardinality({h \in 1 .. n : h <= i})
    BY <1>2 DEF Place
  <2>3. i \in Nat /\ Cardinality(1 .. i) = i
    BY <1>1, <1>3
  <2> QED  BY <2>1, <2>2, <2>3, Zenon
<1>5. \A j \in 1 .. n : (CHOOSE i \in 1 .. n : Place(list, b, i) = j) = j
  BY <1>4
<1>6. Others(list, b) = [j \in 1 .. n |-> list[j]]
  BY <1>1, <1>2, <1>3, <1>5 DEF Others
<1> QED  BY <1>1, <1>6

(***************************************************************************)
(* A list that has b once, at p, loses that place.                         *)
(***************************************************************************)
LEMMA OthersOfOne ==
  ASSUME NEW list \in Seq(Buttons), Once(list), NEW p \in 1 .. Len(list)
  PROVE  Others(list, list[p]) =
           [j \in 1 .. Len(list) - 1 |-> IF j < p THEN list[j] ELSE list[j + 1]]
<1> DEFINE n == Len(list)
           b == list[p]
<1>1. n \in Nat /\ n > 0
  BY LenProperties
<1>2. Kept(list, b) = (1 .. n) \ {p}
  BY DEF Kept, Once
<1>3. /\ \A m \in Nat : IsFiniteSet(1 .. m) /\ Cardinality(1 .. m) = m
      /\ \A m \in Nat : p \in 1 .. m => Cardinality((1 .. m) \ {p}) = m - 1
  <2>1. \A m \in Nat : IsFiniteSet(1 .. m) /\ Cardinality(1 .. m) = m
    <3> TAKE m \in Nat
    <3> QED  BY FS_Interval
  <2>2. ASSUME NEW m \in Nat, p \in 1 .. m
        PROVE  Cardinality((1 .. m) \ {p}) = m - 1
    BY <2>1, <2>2, FS_RemoveElement
  <2> QED  BY <2>1, <2>2
<1>4. \A i \in (1 .. n) \ {p} : Place(list, b, i) = IF i < p THEN i ELSE i - 1
  <2> TAKE i \in (1 .. n) \ {p}
  <2>0. Place(list, b, i) = Cardinality({h \in (1 .. n) \ {p} : h <= i})
    BY <1>2 DEF Place
  <2>1. CASE i < p
    <3>1. {h \in (1 .. n) \ {p} : h <= i} = 1 .. i
      BY <1>1, <2>1
    <3>2. Cardinality(1 .. i) = i
      BY <1>1, <1>3
    <3>3. Place(list, b, i) = i
      BY <2>0, <3>1, <3>2, Zenon
    <3> QED  BY <2>1, <3>3
  <2>2. CASE i > p
    <3>1. {h \in (1 .. n) \ {p} : h <= i} = (1 .. i) \ {p}
      BY <1>1, <2>2
    <3>2. Cardinality((1 .. i) \ {p}) = i - 1
      BY <1>1, <1>3, <2>2
    <3>3. Place(list, b, i) = i - 1
      BY <2>0, <3>1, <3>2, Zenon
    <3> QED  BY <1>1, <2>2, <3>3
  <2> QED  BY <2>1, <2>2
<1>5. ASSUME NEW j \in 1 .. n - 1
      PROVE  (CHOOSE i \in (1 .. n) \ {p} : Place(list, b, i) = j)
               = IF j < p THEN j ELSE j + 1
  <2> DEFINE at == IF j < p THEN j ELSE j + 1
  <2>1. at \in (1 .. n) \ {p} /\ Place(list, b, at) = j
    BY <1>1, <1>4
  <2>2. \A i \in (1 .. n) \ {p} : Place(list, b, i) = j => i = at
    BY <1>1, <1>4
  <2> HIDE DEF at
  <2>3. (CHOOSE i \in (1 .. n) \ {p} : Place(list, b, i) = j) = at
    BY <2>1, <2>2
  <2> QED  BY <2>3 DEF at
<1>6. Cardinality(Kept(list, b)) = n - 1
  BY <1>1, <1>2, <1>3
<1> HIDE DEF n, b
<1>7. Others(list, b) =
        [j \in 1 .. n - 1 |-> list[CHOOSE i \in (1 .. n) \ {p} : Place(list, b, i) = j]]
  BY <1>2, <1>6 DEF Others
<1>8. Others(list, b) = [j \in 1 .. n - 1 |-> list[IF j < p THEN j ELSE j + 1]]
  BY <1>5, <1>7
<1> QED  BY <1>8 DEF n, b

(***************************************************************************)
(* A list with one more element in front, cut to its limit.                *)
(***************************************************************************)
LEMMA PushedAndCut ==
  ASSUME NEW rest \in Seq(Buttons), NEW b \in Buttons
  PROVE  LET new == AtMost(<<b>> \o rest, MaxObserved)
             n == Len(rest) + 1 IN
         /\ new \in Seq(Buttons)
         /\ Len(new) = IF n < MaxObserved THEN n ELSE MaxObserved
         /\ \A i \in 1 .. Len(new) : new[i] = IF i = 1 THEN b ELSE rest[i - 1]
<1> DEFINE all == <<b>> \o rest
           n == Len(rest) + 1
           m == IF n < MaxObserved THEN n ELSE MaxObserved
<1>1. n \in Nat /\ n > 0 /\ MaxObserved \in Nat /\ MaxObserved > 0
  BY LenProperties, WsAssumption
<1>2. /\ all \in Seq(Buttons) /\ Len(all) = n
      /\ \A i \in 1 .. n : all[i] = IF i = 1 THEN b ELSE rest[i - 1]
  <2>1. <<b>> \in Seq(Buttons) /\ Len(<<b>>) = 1 /\ <<b>>[1] = b
    OBVIOUS
  <2>2. /\ all \in Seq(Buttons) /\ Len(all) = 1 + Len(rest)
        /\ \A i \in 1 .. 1 + Len(rest) :
             all[i] = IF i <= 1 THEN <<b>>[i] ELSE rest[i - 1]
    BY <2>1, ConcatProperties
  <2>3. Len(rest) \in Nat
    BY LenProperties
  <2> HIDE DEF all
  <2> QED  BY <2>1, <2>2, <2>3
<1> HIDE DEF all, n
<1>3. m \in 1 .. n /\ \A i \in 1 .. n : all[i] \in Buttons
  <2>1. \A i \in 1 .. Len(all) : all[i] \in Buttons
    BY <1>2, ElementOfSeq
  <2> QED  BY <1>1, <1>2, <2>1
<1> HIDE DEF m
<1>4. /\ SubSeq(all, 1, m) \in Seq(Buttons) /\ Len(SubSeq(all, 1, m)) = m
      /\ \A i \in 1 .. m : SubSeq(all, 1, m)[i] = all[i]
  <2>1. m \in Int /\ 1 \in Int /\ 1 <= m /\ \A i \in 1 .. m : all[i] \in Buttons
    BY <1>1, <1>3
  <2>2. /\ SubSeq(all, 1, m) \in Seq(Buttons)
        /\ Len(SubSeq(all, 1, m)) = IF 1 <= m THEN m - 1 + 1 ELSE 0
        /\ \A i \in 1 .. m - 1 + 1 : SubSeq(all, 1, m)[i] = all[1 + i - 1]
    BY <2>1, SubSeqProperties
  <2> QED  BY <2>1, <2>2
<1>5. AtMost(all, MaxObserved) = SubSeq(all, 1, m)
  BY <1>2 DEF AtMost, m
<1> DEFINE new == AtMost(<<b>> \o rest, MaxObserved)
<1>6. new = SubSeq(all, 1, m)
  BY <1>5 DEF all
<1> HIDE DEF new
<1>7. new \in Seq(Buttons) /\ Len(new) = m
  BY <1>4, <1>6
<1>8. \A i \in 1 .. m : new[i] = IF i = 1 THEN b ELSE rest[i - 1]
  <2> TAKE i \in 1 .. m
  <2>1. i \in 1 .. n
    BY <1>1, <1>3
  <2> QED  BY <1>2, <1>4, <1>6, <2>1
<1>9. m = IF n < MaxObserved THEN n ELSE MaxObserved
  BY DEF m
<1> QED  BY <1>7, <1>8, <1>9 DEF new, n

(***************************************************************************)
(* The list after a press of b: b is the first, the others follow in their *)
(* order, and those behind b's old place keep theirs.                      *)
(***************************************************************************)
Noted(list, b) == AtMost(<<b>> \o Others(list, b), MaxObserved)

LEMMA NotedNew ==
  ASSUME NEW list \in Seq(Buttons), NEW b \in Buttons, \A i \in 1 .. Len(list) : list[i] # b
  PROVE  /\ Noted(list, b) \in Seq(Buttons)
         /\ Len(Noted(list, b)) =
              IF Len(list) + 1 < MaxObserved THEN Len(list) + 1 ELSE MaxObserved
         /\ \A i \in 1 .. Len(Noted(list, b)) :
              Noted(list, b)[i] = IF i = 1 THEN b ELSE list[i - 1]
<1>1. Noted(list, b) = AtMost(<<b>> \o list, MaxObserved)
  BY OthersOfNone DEF Noted
<1>2. LET new == AtMost(<<b>> \o list, MaxObserved)
          n == Len(list) + 1 IN
      /\ new \in Seq(Buttons)
      /\ Len(new) = IF n < MaxObserved THEN n ELSE MaxObserved
      /\ \A i \in 1 .. Len(new) : new[i] = IF i = 1 THEN b ELSE list[i - 1]
  BY PushedAndCut, Zenon
<1> QED  BY <1>1, <1>2, Zenon

LEMMA NotedAgain ==
  ASSUME NEW list \in Seq(Buttons), Once(list), NEW p \in 1 .. Len(list)
  PROVE  LET new == Noted(list, list[p]) IN
         /\ new \in Seq(Buttons)
         /\ Len(new) = IF Len(list) < MaxObserved THEN Len(list) ELSE MaxObserved
         /\ \A i \in 1 .. Len(new) :
              new[i] = IF i = 1 THEN list[p] ELSE IF i <= p THEN list[i - 1] ELSE list[i]
<1> DEFINE n == Len(list)
           rest == [j \in 1 .. n - 1 |-> IF j < p THEN list[j] ELSE list[j + 1]]
<1>1. n \in Nat /\ n > 0 /\ \A i \in 1 .. n : list[i] \in Buttons
  BY LenProperties, ElementOfSeq
<1>2. Others(list, list[p]) = rest
  BY OthersOfOne
<1>3. rest \in Seq(Buttons) /\ Len(rest) = n - 1
  <2>1. \A j \in 1 .. n - 1 : rest[j] \in Buttons
    BY <1>1
  <2> QED  BY <1>1, <2>1
<1>4. \A i \in 2 .. n : rest[i - 1] = IF i <= p THEN list[i - 1] ELSE list[i]
  BY <1>1
<1> HIDE DEF rest, n
<1>5. LET new == Noted(list, list[p]) IN
      /\ new \in Seq(Buttons)
      /\ Len(new) = IF n < MaxObserved THEN n ELSE MaxObserved
      /\ \A i \in 1 .. Len(new) : new[i] = IF i = 1 THEN list[p] ELSE rest[i - 1]
  <2>1. list[p] \in Buttons /\ Len(rest) + 1 = n
    BY <1>1, <1>3 DEF n
  <2>2. Noted(list, list[p]) = AtMost(<<list[p]>> \o rest, MaxObserved)
    BY <1>2 DEF Noted
  <2>3. LET new == AtMost(<<list[p]>> \o rest, MaxObserved) IN
        /\ new \in Seq(Buttons)
        /\ Len(new) = IF Len(rest) + 1 < MaxObserved THEN Len(rest) + 1 ELSE MaxObserved
        /\ \A i \in 1 .. Len(new) : new[i] = IF i = 1 THEN list[p] ELSE rest[i - 1]
    BY <1>3, <2>1, PushedAndCut, Zenon
  <2> QED  BY <2>1, <2>2, <2>3, Zenon
<1>6. MaxObserved \in Nat /\ Len(Noted(list, list[p])) \in Nat /\ Len(Noted(list, list[p])) <= n
  BY <1>1, <1>5, WsAssumption
<1> QED  BY <1>1, <1>4, <1>5, <1>6 DEF n

(***************************************************************************)
(* No button comes into the list twice.                                    *)
(***************************************************************************)
LEMMA NotedOnce ==
  ASSUME NEW list \in Seq(Buttons), Once(list), NEW b \in Buttons
  PROVE  Noted(list, b) \in Seq(Buttons) /\ Once(Noted(list, b))
<1>1. Len(list) \in Nat /\ MaxObserved \in Nat
  BY LenProperties, WsAssumption
<1>2. CASE \A i \in 1 .. Len(list) : list[i] # b
  <2> DEFINE new == Noted(list, b)
  <2>1. /\ new \in Seq(Buttons) /\ Len(new) \in Nat /\ Len(new) <= Len(list) + 1
        /\ \A i \in 1 .. Len(new) : new[i] = IF i = 1 THEN b ELSE list[i - 1]
    <3>1. /\ new \in Seq(Buttons)
          /\ Len(new) = IF Len(list) + 1 < MaxObserved THEN Len(list) + 1 ELSE MaxObserved
          /\ \A i \in 1 .. Len(new) : new[i] = IF i = 1 THEN b ELSE list[i - 1]
      BY <1>2, NotedNew, Zenon
    <3> HIDE DEF new
    <3> QED  BY <1>1, <3>1
  <2> HIDE DEF new
  <2>2. ASSUME NEW i \in 1 .. Len(new), NEW j \in 1 .. Len(new), new[i] = new[j]
        PROVE  i = j
    <3>1. \A k \in 1 .. Len(new) : k # 1 => k - 1 \in 1 .. Len(list) /\ new[k] = list[k - 1]
      BY <1>1, <2>1
    <3>2. CASE i = 1 \/ j = 1
      BY <1>2, <2>1, <2>2, <3>1, <3>2
    <3>3. CASE i # 1 /\ j # 1
      <4>1. i - 1 = j - 1
        BY <2>2, <3>1, <3>3 DEF Once
      <4> QED  BY <4>1
    <3> QED  BY <3>2, <3>3
  <2> QED  BY <2>1, <2>2 DEF Once, new
<1>3. ASSUME NEW p \in 1 .. Len(list), list[p] = b
      PROVE  Noted(list, b) \in Seq(Buttons) /\ Once(Noted(list, b))
  <2> DEFINE new == Noted(list, b)
  <2>1. /\ new \in Seq(Buttons) /\ Len(new) \in Nat /\ Len(new) <= Len(list)
        /\ \A i \in 1 .. Len(new) :
             new[i] = IF i = 1 THEN b ELSE IF i <= p THEN list[i - 1] ELSE list[i]
    <3>1. /\ new \in Seq(Buttons)
          /\ Len(new) = IF Len(list) < MaxObserved THEN Len(list) ELSE MaxObserved
          /\ \A i \in 1 .. Len(new) :
               new[i] = IF i = 1 THEN list[p] ELSE IF i <= p THEN list[i - 1] ELSE list[i]
      BY <1>3, NotedAgain, Zenon
    <3> HIDE DEF new
    <3> QED  BY <1>1, <1>3, <3>1
  <2> HIDE DEF new
  <2>2. ASSUME NEW i \in 1 .. Len(new), NEW j \in 1 .. Len(new), new[i] = new[j]
        PROVE  i = j
    <3> DEFINE Source(k) == IF k = 1 THEN p ELSE IF k <= p THEN k - 1 ELSE k
    <3>1. ASSUME NEW k \in 1 .. Len(new)
          PROVE  Source(k) \in 1 .. Len(list) /\ new[k] = list[Source(k)]
      BY <1>1, <1>3, <2>1, <3>1
    <3>2. Source(i) = Source(j) => i = j
      BY <1>1, <1>3, <2>1
    <3> HIDE DEF Source
    <3>3. Source(i) = Source(j)
      <4>1. list[Source(i)] = list[Source(j)] /\ Source(i) \in 1 .. Len(list)
                                             /\ Source(j) \in 1 .. Len(list)
        BY <2>2, <3>1
      <4> QED  BY <4>1 DEF Once
    <3> QED  BY <3>2, <3>3
  <2> QED  BY <2>1, <2>2 DEF Once, new
<1> QED  BY <1>2, <1>3

-----------------------------------------------------------------------------
(* Types                                                                   *)

Typed == TypeOK /\ Once(observed) /\ Writers

(***************************************************************************)
(* A change counts the versions of its topics up.                          *)
(***************************************************************************)
LEMMA ChangedType ==
  ASSUME TypeOK, NEW topics, Changed(topics)
  PROVE  /\ version' \in [Topics -> Nat]
         /\ \A t \in Topics : version'[t] = IF t \in topics THEN version[t] + 1 ELSE version[t]
BY DEF TypeOK, Changed

LEMMA ChangeType ==
  ASSUME Typed, NEW k \in Tasks, NEW topics, NEW what \in Seq(Topics),
         NEW quiet \in SUBSET Topics, Change(k, topics, what, quiet), k \notin writing
  PROVE  Typed'
<1>1. version' \in [Topics -> Nat]
  BY ChangedType DEF Change, Typed
<1>2. todo' \in [Tasks -> Seq(Topics)]
  BY DEF Change, Typed, TypeOK
<1>3. changes' \in 0 .. MaxChanges
  BY WsAssumption DEF Change, Typed, TypeOK
<1>4. TypeOK' /\ Once(observed')
  BY <1>1, <1>2, <1>3 DEF Change, Typed, TypeOK
<1>5. Writers'
  BY DEF Change, Typed, TypeOK, Writers, Idle, Tasks
<1> QED  BY <1>4, <1>5 DEF Typed

(***************************************************************************)
(* The web server's changes announce lists of topics.                      *)
(***************************************************************************)
WebChanges ==
  \/ PostCommand \/ PutCommands \/ PutCommandsFails \/ DeleteCommand
  \/ SetOrDeleteButtonName \/ SetSetting \/ SetOneShot
  \/ RegisterOrUnregisterGpioButtons

LEMMA WebChange ==
  ASSUME TypeOK, WebChanges
  PROVE  \E k \in Tasks, topics \in SUBSET Topics, what \in Seq(Topics),
            quiet \in SUBSET Topics :
           /\ Change(k, topics, what, quiet)
           /\ Idle(k) /\ k \notin writing
           /\ \A t \in topics : t \in quiet \/ \E i \in 1 .. Len(what) : what[i] = t
<1>1. /\ <<>> \in Seq(Topics) /\ <<"commands">> \in Seq(Topics)
      /\ <<"observed_buttons">> \in Seq(Topics) /\ <<"settings">> \in Seq(Topics)
      /\ <<"observed_buttons", "commands">> \in Seq(Topics)
      /\ <<"commands", "observed_buttons">> \in Seq(Topics)
      /\ {"web", "loop"} \subseteq Tasks
      /\ {} \in SUBSET Topics /\ {"commands", "observed_buttons"} \in SUBSET Topics
      /\ {"commands"} \in SUBSET Topics /\ {"settings"} \in SUBSET Topics
      /\ {"observed_buttons"} \in SUBSET Topics
  BY DEF Topics, Tasks
<1>0. "web" \notin writing
  BY DEF TypeOK
<1>2. CASE PostCommand
  <2> DEFINE what == <<"observed_buttons", "commands">>
  <2>1. 1 \in 1 .. Len(what) /\ 2 \in 1 .. Len(what)
        /\ what[1] = "observed_buttons" /\ what[2] = "commands"
    OBVIOUS
  <2> HIDE DEF what
  <2>2. Idle("web") /\ Change("web", {"commands", "observed_buttons"}, what, {})
    BY <1>2 DEF PostCommand, WebIdle, what
  <2>3. what \in Seq(Topics)
    BY <1>1 DEF what
  <2> QED  BY <1>0, <1>1, <2>1, <2>2, <2>3
<1>3. CASE DeleteCommand
  <2> DEFINE what == <<"commands", "observed_buttons">>
  <2>1. 1 \in 1 .. Len(what) /\ 2 \in 1 .. Len(what)
        /\ what[2] = "observed_buttons" /\ what[1] = "commands"
    OBVIOUS
  <2> HIDE DEF what
  <2>2. Idle("web") /\ Change("web", {"commands", "observed_buttons"}, what, {})
    BY <1>3 DEF DeleteCommand, WebIdle, what
  <2>3. what \in Seq(Topics)
    BY <1>1 DEF what
  <2> QED  BY <1>0, <1>1, <2>1, <2>2, <2>3
<1>4. CASE PutCommands
  <2>1. \/ Change("web", {"commands"}, <<"commands">>, {})
        \/ Change("web", {"commands", "observed_buttons"}, <<"commands">>, {"observed_buttons"})
    <3>1. PICK named \in SUBSET {"observed_buttons"} :
            Change("web", {"commands"} \cup named, <<"commands">>, named)
      BY <1>4 DEF PutCommands
    <3>2. CASE named = {}
      <4>1. {"commands"} \cup {} = {"commands"}
        OBVIOUS
      <4> QED  BY <3>1, <3>2, <4>1 DEF Change
    <3>3. CASE named = {"observed_buttons"}
      <4>1. {"commands"} \cup {"observed_buttons"} = {"commands", "observed_buttons"}
        OBVIOUS
      <4> QED  BY <3>1, <3>3, <4>1 DEF Change
    <3> QED  BY <3>2, <3>3
  <2>2. \E i \in 1 .. Len(<<"commands">>) : <<"commands">>[i] = "commands"
    OBVIOUS
  <2>3. Idle("web")
    BY <1>4 DEF PutCommands, WebIdle
  <2>4. CASE Change("web", {"commands"}, <<"commands">>, {})
    BY <1>0, <1>1, <2>2, <2>3, <2>4
  <2>5. CASE Change("web", {"commands", "observed_buttons"}, <<"commands">>,
                    {"observed_buttons"})
    <3>1. \A t \in {"commands", "observed_buttons"} :
            t \in {"observed_buttons"} \/ \E i \in 1 .. Len(<<"commands">>) : <<"commands">>[i] = t
      BY <2>2
    <3>2. /\ "web" \in Tasks /\ {"commands", "observed_buttons"} \in SUBSET Topics
          /\ <<"commands">> \in Seq(Topics) /\ {"observed_buttons"} \in SUBSET Topics
      BY <1>1
    <3> QED  BY <1>0, <2>3, <2>5, <3>1, <3>2
  <2> QED  BY <2>1, <2>4, <2>5
<1>5. CASE PutCommandsFails
  <2>1. PICK named \in SUBSET {"observed_buttons"} :
          Change("web", {"commands"} \cup named, <<>>, {"commands"} \cup named)
    BY <1>5 DEF PutCommandsFails
  <2>2. {"commands"} \cup named \in SUBSET Topics
    BY <1>1
  <2> QED  BY <1>0, <1>1, <1>5, <2>1, <2>2 DEF PutCommandsFails, WebIdle
<1>6. CASE SetOrDeleteButtonName
  <2>1. \A t \in {"observed_buttons"} : \E i \in 1 .. Len(<<"observed_buttons">>) :
          <<"observed_buttons">>[i] = t
    OBVIOUS
  <2> QED  BY <1>0, <1>1, <1>6, <2>1, ZenonT(30) DEF SetOrDeleteButtonName, WebIdle
<1>7. CASE SetSetting
  <2>1. \A t \in {"settings"} : \E i \in 1 .. Len(<<"settings">>) : <<"settings">>[i] = t
    OBVIOUS
  <2> QED  BY <1>0, <1>1, <1>7, <2>1 DEF SetSetting, WebIdle
<1>8. CASE SetOneShot
  BY <1>0, <1>1, <1>8 DEF SetOneShot, WebIdle
<1>9. CASE RegisterOrUnregisterGpioButtons
  BY <1>1, <1>9 DEF RegisterOrUnregisterGpioButtons
<1> QED  BY <1>2, <1>3, <1>4, <1>5, <1>6, <1>7, <1>8, <1>9 DEF WebChanges

(***************************************************************************)
(* Every step of the clearing of all data keeps the types.                 *)
(***************************************************************************)
Clears == HandleClearAllData \/ BeginReset \/ ResetTable

LEMMA ClearType ==
  ASSUME Typed, Clears
  PROVE  Typed'
<1> USE DEF Typed
<1>1. CASE HandleClearAllData
  <2>1. version' \in [Topics -> Nat]
    BY <1>1, ChangedType DEF HandleClearAllData
  <2>2. changes' \in 0 .. MaxChanges /\ silent' \subseteq Topics
    BY <1>1, WsAssumption DEF HandleClearAllData, TypeOK, Topics
  <2>3. TypeOK' /\ Once(observed')
    BY <1>1, <2>1, <2>2 DEF HandleClearAllData, TypeOK, tasks
  <2>4. Writers'
    BY <1>1 DEF HandleClearAllData, Writers, Idle, tasks
  <2> QED  BY <2>3, <2>4
<1>2. CASE BeginReset
  <2>1. TypeOK' /\ Once(observed')
    BY <1>2 DEF BeginReset, TypeOK, tasks, history
  <2>2. Writers'
    BY <1>2 DEF BeginReset, Writers, Idle, tasks
  <2> QED  BY <2>1, <2>2
<1>3. CASE ResetTable
  <2>1. version' \in [Topics -> Nat]
    BY <1>3, ChangedType DEF ResetTable
  <2>2. silent' \subseteq Topics
    BY <1>3 DEF ResetTable, TypeOK, Topics
  <2>3. observed' \in Seq(Buttons) /\ presses' \in Seq(Buttons) /\ Once(observed')
    BY <1>3 DEF ResetTable, Once
  <2>4. TypeOK'
    BY <1>3, <2>1, <2>2, <2>3 DEF ResetTable, TypeOK, tasks
  <2>5. Writers'
    BY <1>3 DEF ResetTable, Writers, Idle, tasks
  <2> QED  BY <2>3, <2>4, <2>5
<1> QED  BY <1>1, <1>2, <1>3 DEF Clears

(***************************************************************************)
(* Every step of the tasks that write and announce keeps the types.        *)
(***************************************************************************)
LEMMA WriteType ==
  ASSUME Typed, BeginPress \/ (\E b \in Buttons : NotifyObservedButton(b))
                  \/ BeginFetched \/ EndFetched
  PROVE  Typed'
<1> USE DEF Typed
<1>0. <<"observed_buttons">> \in Seq(Topics) /\ <<"robot_info">> \in Seq(Topics)
  BY DEF Topics
<1>1. CASE BeginPress
  <2>1. changes' \in 0 .. MaxChanges
    BY <1>1, WsAssumption DEF BeginPress, TypeOK
  <2>2. TypeOK' /\ Once(observed')
    BY <1>1, <2>1 DEF BeginPress, TypeOK, tasks
  <2>3. Writers'
    BY <1>1 DEF BeginPress, Writers, Idle, tasks
  <2> QED  BY <2>2, <2>3
<1>2. ASSUME NEW b \in Buttons, NotifyObservedButton(b)
      PROVE  Typed'
  <2>1. version' \in [Topics -> Nat]
    BY <1>2, ChangedType DEF NotifyObservedButton
  <2>2. observed' = Noted(observed, b)
    BY <1>2 DEF NotifyObservedButton, Noted
  <2>3. observed' \in Seq(Buttons) /\ Once(observed')
    BY <2>2, NotedOnce DEF TypeOK
  <2>4. todo' \in [Tasks -> Seq(Topics)]
    BY <1>0, <1>2 DEF NotifyObservedButton, TypeOK
  <2>5. presses' \in Seq(Buttons)
    <3>1. <<b>> \in Seq(Buttons) /\ presses \in Seq(Buttons)
      BY DEF TypeOK
    <3> QED  BY <1>2, <3>1, ConcatProperties DEF NotifyObservedButton
  <2>6. TypeOK'
    BY <1>2, <2>1, <2>3, <2>4, <2>5 DEF NotifyObservedButton, TypeOK
  <2>7. Writers'
    BY <1>2 DEF NotifyObservedButton, Writers, Idle, TypeOK, Tasks
  <2> QED  BY <2>3, <2>6, <2>7
<1>3. CASE BeginFetched
  <2>1. TypeOK' /\ Once(observed')
    BY <1>3 DEF BeginFetched, TypeOK, tasks, history
  <2>2. Writers'
    BY <1>3, WsAssumption DEF BeginFetched, Writers, Idle, tasks
  <2> QED  BY <2>1, <2>2
<1>4. CASE EndFetched
  <2>1. version' \in [Topics -> Nat]
    BY <1>4, ChangedType DEF EndFetched
  <2>2. todo' \in [Tasks -> Seq(Topics)]
    BY <1>0, <1>4 DEF EndFetched, TypeOK
  <2>3. fetch' \in 0 .. Parts
    BY <1>4, WsAssumption DEF EndFetched, TypeOK, Writers
  <2>4. TypeOK' /\ Once(observed')
    BY <1>4, <2>1, <2>2, <2>3 DEF EndFetched, TypeOK, history
  <2>5. Writers'
    BY <1>4 DEF EndFetched, Writers, Idle, TypeOK, Tasks
  <2> QED  BY <2>4, <2>5
<1> QED  BY <1>1, <1>2, <1>3, <1>4

(***************************************************************************)
(* Every step of the announcements keeps the types.                        *)
(***************************************************************************)
LEMMA AnnounceType ==
  ASSUME Typed, (\E k \in Tasks : Snapshot(k) \/ Enqueue(k))
                  \/ (\E full \in SUBSET clients : Flush(full))
  PROVE  Typed'
<1> USE DEF Typed
<1>1. ASSUME NEW k \in Tasks, Snapshot(k)
      PROVE  Typed'
  <2>1. /\ todo[k] \in Seq(Topics) /\ todo[k] # <<>>
        /\ Head(todo[k]) \in Topics /\ Tail(todo[k]) \in Seq(Topics)
    BY <1>1, TailElements DEF Snapshot, TypeOK
  <2>2. todo' \in [Tasks -> Seq(Topics)]
    BY <1>1, <2>1 DEF Snapshot, TypeOK
  <2>3. held' \in [Tasks -> Messages \cup {None}]
    <3> DEFINE t == Head(todo[k])
    <3>1. PICK v \in Readable(t) :
            held' = [held EXCEPT ![k] = [topic |-> t, seen |-> v, at |-> version[t]]]
      BY <1>1 DEF Snapshot
    <3>2. version[t] \in Nat /\ v \in Nat \cup {Garbled}
      BY <2>1 DEF Readable, TypeOK
    <3>3. [topic |-> t, seen |-> v, at |-> version[t]] \in Messages
      BY <2>1, <3>2 DEF Messages
    <3> QED  BY <3>1, <3>3 DEF TypeOK
  <2>4. TypeOK' /\ Once(observed')
    BY <1>1, <2>2, <2>3 DEF Snapshot, TypeOK, data, history
  <2>5. Writers'
    BY <1>1, <2>1 DEF Snapshot, Writers, Idle, TypeOK, Tasks, data
  <2> QED  BY <2>4, <2>5
<1>2. ASSUME NEW k \in Tasks, Enqueue(k)
      PROVE  Typed'
  <2>1. held[k] \in Messages /\ held[k].topic \in Topics /\ held[k].at \in Nat
    BY <1>2 DEF Enqueue, TypeOK, Messages
  <2>2. held' \in [Tasks -> Messages \cup {None}]
    BY <1>2 DEF Enqueue, TypeOK
  <2>3. queue' \in Seq(Messages)
    BY <1>2, <2>1, AppendProperties DEF Enqueue, TypeOK
  <2>4. newest' \in [Topics -> Nat] /\ overtaken' \subseteq Topics /\ silent' \subseteq Topics
    BY <1>2, <2>1 DEF Enqueue, TypeOK
  <2>5. TypeOK' /\ Once(observed')
    BY <1>2, <2>2, <2>3, <2>4 DEF Enqueue, TypeOK, data
  <2>6. Writers'
    BY <1>2 DEF Enqueue, Writers, Idle, TypeOK, Tasks, data
  <2> QED  BY <2>5, <2>6
<1>3. ASSUME NEW full \in SUBSET clients, Flush(full)
      PROVE  Typed'
  <2>1. \A i \in 1 .. Len(queue) : queue[i].topic \in Topics
                                    /\ queue[i].seen \in Nat \cup {Garbled, None}
    <3>1. \A i \in 1 .. Len(queue) : queue[i] \in Messages
      BY ElementOfSeq DEF TypeOK
    <3> QED  BY <3>1 DEF Messages
  <2>2. ASSUME NEW shown \in [Topics -> Nat \cup {Garbled, None}]
        PROVE  Received(shown, queue) \in [Topics -> Nat \cup {Garbled, None}]
    <3> SUFFICES ASSUME NEW t \in Topics
                 PROVE  Received(shown, queue)[t] \in Nat \cup {Garbled, None}
      BY DEF Received
    <3> DEFINE at == {i \in 1 .. Len(queue) : queue[i].topic = t}
    <3>1. Received(shown, queue)[t] =
            IF at = {} THEN shown[t] ELSE queue[CHOOSE i \in at : \A j \in at : j <= i].seen
      BY DEF Received
    <3>2. Len(queue) \in Nat /\ at \in SUBSET (1 .. Len(queue))
      BY LenProperties DEF TypeOK
    <3>3. CASE at # {}
      <4>1. \E i \in at : \A j \in at : j <= i
        BY <3>2, <3>3, LastExists
      <4>2. (CHOOSE i \in at : \A j \in at : j <= i) \in at
        BY <4>1
      <4> QED  BY <2>1, <3>1, <3>2, <3>3, <4>2
    <3> QED  BY <3>1, <3>3
  <2>3. view' \in [Browsers -> [Topics -> Nat \cup {Garbled, None}]]
    BY <1>3, <2>2 DEF Flush, TypeOK
  <2>4. lost' \in [Browsers -> SUBSET Topics]
    BY <1>3, <2>1 DEF Flush, TypeOK
  <2>5. queue' \in Seq(Messages)
    BY <1>3 DEF Flush
  <2>6. TypeOK' /\ Once(observed')
    BY <1>3, <2>3, <2>4, <2>5 DEF Flush, TypeOK, data, tasks
  <2>7. Writers'
    BY <1>3 DEF Flush, Writers, Idle, data, tasks
  <2> QED  BY <2>6, <2>7
<1> QED  BY <1>1, <1>2, <1>3

(***************************************************************************)
(* Every coming and going of a browser keeps the types, and so does a      *)
(* restart of the hub.                                                     *)
(***************************************************************************)
AllTopics == <<"hub_info", "robot_info", "settings", "observed_buttons", "commands">>

LEMMA AllTopicsShape ==
  /\ AllTopics \in Seq(Topics) \ {<<>>}
  /\ \A t \in Topics : \E i \in 1 .. Len(AllTopics) : AllTopics[i] = t
<1>1. /\ AllTopics[1] = "hub_info" /\ AllTopics[2] = "robot_info"
      /\ AllTopics[3] = "settings" /\ AllTopics[4] = "observed_buttons"
      /\ AllTopics[5] = "commands" /\ Len(AllTopics) = 5
      /\ AllTopics \in Seq(Topics)
  BY DEF AllTopics, Topics
<1>2. AllTopics # <<>>
  BY <1>1
<1> HIDE DEF AllTopics
<1>3. 1 \in 1 .. 5 /\ 2 \in 1 .. 5 /\ 3 \in 1 .. 5 /\ 4 \in 1 .. 5 /\ 5 \in 1 .. 5
  OBVIOUS
<1> QED  BY <1>1, <1>2, <1>3 DEF Topics

LEMMA ClientType ==
  ASSUME Typed, (\E b \in Browsers : Connect(b) \/ Disconnect(b))
                  \/ (\E refetch \in BOOLEAN : SendToClient(refetch)) \/ Restart
  PROVE  Typed'
<1> USE DEF Typed
<1>0. <<"hub_info">> \in Seq(Topics) /\ <<"robot_info">> \in Seq(Topics)
  BY DEF Topics
<1>1. ASSUME NEW b \in Browsers, Connect(b)
      PROVE  Typed'
  <2>1. version' \in [Topics -> Nat]
    BY <1>1, ChangedType DEF Connect
  <2>2. todo' \in [Tasks -> Seq(Topics)]
    BY <1>0, <1>1 DEF Connect, TypeOK
  <2>3. joining' = [client |-> b, left |-> AllTopics]
    BY <1>1 DEF Connect, AllTopics
  <2>4. joining' \in Joins /\ joining'.client = b
    BY <2>3, AllTopicsShape DEF Joins
  <2>5. changes' \in 0 .. MaxChanges
    BY <1>1, WsAssumption DEF Connect, TypeOK
  <2>6. TypeOK' /\ Once(observed')
    BY <1>1, <2>1, <2>2, <2>4, <2>5 DEF Connect, TypeOK
  <2>7. Writers'
    BY <1>1 DEF Connect, Writers, Idle, TypeOK, Tasks
  <2> QED  BY <2>6, <2>7
<1>2. ASSUME NEW b \in Browsers, Disconnect(b)
      PROVE  Typed'
  <2>1. version' \in [Topics -> Nat]
    BY <1>2, ChangedType DEF Disconnect
  <2>2. todo' \in [Tasks -> Seq(Topics)]
    BY <1>0, <1>2 DEF Disconnect, TypeOK
  <2>3. view' \in [Browsers -> [Topics -> Nat \cup {Garbled, None}]]
    BY <1>2 DEF Disconnect, TypeOK, Closed
  <2>4. changes' \in 0 .. MaxChanges
    BY <1>2, WsAssumption DEF Disconnect, TypeOK
  <2>5. TypeOK' /\ Once(observed')
    BY <1>2, <2>1, <2>2, <2>3, <2>4 DEF Disconnect, TypeOK, WebIdle
  <2>6. Writers'
    BY <1>2 DEF Disconnect, Writers, Idle, TypeOK, Tasks
  <2> QED  BY <2>5, <2>6
<1>3. ASSUME NEW refetch \in BOOLEAN, SendToClient(refetch)
      PROVE  Typed'
  <2> DEFINE b == joining.client
             t == Head(joining.left)
             last == Len(joining.left) = 1
  <2>1. joining \in Joins /\ b \in clients /\ b \in Browsers
    BY <1>3 DEF SendToClient, TypeOK
  <2>2. joining.left \in Seq(Topics) /\ joining.left # <<>>
    BY <2>1 DEF Joins
  <2>3. /\ t \in Topics /\ Tail(joining.left) \in Seq(Topics)
        /\ Len(joining.left) # 1 => Tail(joining.left) # <<>>
    BY <2>2, TailElements
  <2>4. view' \in [Browsers -> [Topics -> Nat \cup {Garbled, None}]]
    <3>1. PICK v \in Readable(t) : view' = [view EXCEPT ![b][t] = v]
      BY <1>3 DEF SendToClient
    <3>2. v \in Nat \cup {Garbled}
      <4>1. t \in Topics /\ version[t] \in Nat
        BY <2>3 DEF TypeOK
      <4>2. v = version[t] \/ v = Garbled
        BY DEF Readable
      <4> HIDE DEF t
      <4> QED  BY <4>1, <4>2
    <3> HIDE DEF b, t
    <3>3. view[b] \in [Topics -> Nat \cup {Garbled, None}]
      BY <2>1 DEF TypeOK
    <3>4. [view[b] EXCEPT ![t] = v] \in [Topics -> Nat \cup {Garbled, None}]
      BY <2>3, <3>2, <3>3
    <3>5. view' = [view EXCEPT ![b] = [view[b] EXCEPT ![t] = v]]
      BY <3>1
    <3>6. view \in [Browsers -> [Topics -> Nat \cup {Garbled, None}]]
      BY DEF TypeOK
    <3> QED  BY <2>1, <3>4, <3>5, <3>6
  <2>5. lost' \in [Browsers -> SUBSET Topics]
    BY <1>3 DEF SendToClient, TypeOK
  <2>6. joining' \in Joins \cup {None} /\ (joining' # None => joining'.client \in clients)
    <3>1. CASE last
      <4>1. joining' = None
        BY <1>3, <3>1 DEF SendToClient
      <4> QED  BY <4>1
    <3>2. CASE ~last
      <4>1. joining' = [joining EXCEPT !.left = Tail(@)]
        BY <1>3, <3>2 DEF SendToClient
      <4>2. joining' \in Joins /\ joining'.client = b
        BY <2>1, <2>3, <3>2, <4>1 DEF Joins
      <4> QED  BY <2>1, <4>2
    <3> QED  BY <3>1, <3>2
  <2>7. todo' \in [Tasks -> Seq(Topics)]
    BY <1>0, <1>3 DEF SendToClient, TypeOK
  <2>8. fetch' \in 0 .. Parts /\ changes' \in 0 .. MaxChanges
    BY <1>3, WsAssumption DEF SendToClient, TypeOK
  <2>9. TypeOK' /\ Once(observed')
    BY <1>3, <2>4, <2>5, <2>6, <2>7, <2>8 DEF SendToClient, TypeOK, data
  <2>10. Writers'
    BY <1>3 DEF SendToClient, Writers, Idle, TypeOK, Tasks, data
  <2> QED  BY <2>9, <2>10
<1>4. CASE Restart
  <2>1. version' \in [Topics -> Nat]
    BY <1>4, ChangedType DEF Restart
  <2>2. todo' \in [Tasks -> Seq(Topics)]
    BY <1>0, <1>4 DEF Restart
  <2>3. view' \in [Browsers -> [Topics -> Nat \cup {Garbled, None}]]
    BY <1>4 DEF Restart, TypeOK, Closed
  <2>4. changes' \in 0 .. MaxChanges /\ fetch' \in 0 .. Parts
    BY <1>4, WsAssumption DEF Restart, TypeOK
  <2>5. observed' \in Seq(Buttons) /\ presses' \in Seq(Buttons) /\ Once(observed')
    BY <1>4 DEF Restart, Once
  <2>6. held' \in [Tasks -> Messages \cup {None}] /\ newest' \in [Topics -> Nat]
    BY <1>4 DEF Restart
  <2>7. TypeOK'
    BY <1>4, <2>1, <2>2, <2>3, <2>4, <2>5, <2>6 DEF Restart, TypeOK
  <2>8. Writers'
    BY <1>4 DEF Restart, Writers
  <2> QED  BY <2>5, <2>7, <2>8
<1> QED  BY <1>1, <1>2, <1>3, <1>4

LEMMA TypedInit == ASSUME Init PROVE Typed
<1>1. <<"robot_info">> \in Seq(Topics)
  BY DEF Topics
<1>2. TypeOK
  BY <1>1, WsAssumption DEF Init, TypeOK
<1> QED  BY <1>2 DEF Init, Typed, Once, Writers

LEMMA TypedStep == ASSUME Typed, [Next]_vars PROVE Typed'
<1>1. CASE WebChanges
  <2>1. PICK k \in Tasks, topics \in SUBSET Topics, what \in Seq(Topics),
             quiet \in SUBSET Topics : Change(k, topics, what, quiet) /\ k \notin writing
    BY <1>1, WebChange DEF Typed
  <2> QED  BY <2>1, ChangeType
<1>2. CASE UNCHANGED vars
  BY <1>2 DEF Typed, TypeOK, Once, Writers, Idle, vars, data, tasks, history
<1> QED
  BY <1>1, <1>2, ClearType, WriteType, AnnounceType, ClientType DEF Next, WebChanges, Clears

-----------------------------------------------------------------------------
(* What the browsers show                                                  *)

IInv == Typed /\ Settling

LEMMA WriterIs ==
  /\ Writer("observed_buttons") = "loop" /\ Writer("robot_info") = "fetch"
  /\ \A t : t \notin {"observed_buttons", "robot_info"} => Writer(t) = None
  /\ None \notin Tasks
BY WsAssumption DEF Writer

(***************************************************************************)
(* Two messages are never one: a message is not None.                      *)
(***************************************************************************)
LEMMA MessageIs ==
  ASSUME TypeOK, NEW k \in Tasks, held[k] # None
  PROVE  held[k].topic \in Topics /\ held[k].at \in Nat /\ held[k].seen \in Nat \cup {Garbled}
BY DEF TypeOK, Messages

(***************************************************************************)
(* What is queued is a message.                                            *)
(***************************************************************************)
LEMMA QueuedIs ==
  ASSUME TypeOK
  PROVE  /\ Len(queue) \in Nat
         /\ \A i \in 1 .. Len(queue) :
              queue[i].topic \in Topics /\ queue[i].seen \in Nat \cup {Garbled}
<1>1. \A i \in 1 .. Len(queue) : queue[i] \in Messages
  BY ElementOfSeq DEF TypeOK
<1>2. Len(queue) \in Nat
  BY LenProperties DEF TypeOK
<1> QED  BY <1>1, <1>2 DEF Messages

(***************************************************************************)
(* A topic is torn until its writer is done.                               *)
(***************************************************************************)
LEMMA TornKept ==
  ASSUME UNCHANGED <<writing, clearing>>
  PROVE  \A t \in Topics : Torn(t) => Torn(t)'
BY DEF Torn, Writer

(***************************************************************************)
(* Topics change; their new state is to be announced, or left out.         *)
(***************************************************************************)
LEMMA Changing ==
  ASSUME TypeOK, HeldAsRead, NewestSeen, QueueCurrent,
         NEW topics, Changed(topics), silent \subseteq silent',
         \A t \in Topics : Announced(t) => Announced(t)',
         \A t \in Topics \cap topics : Coming(t)',
         \A t \in Topics \ topics : Torn(t) => Torn(t)',
         UNCHANGED <<held, queue, newest, overtaken>>
  PROVE  /\ HeldAsRead' /\ NewestSeen' /\ QueueCurrent'
         /\ \A t \in Topics : (Coming(t) \/ t \in topics => Coming(t)')
         /\ \A t \in Topics \ topics : version'[t] = version[t]
<1>1. /\ version' \in [Topics -> Nat] /\ version \in [Topics -> Nat]
      /\ newest \in [Topics -> Nat]
      /\ \A t \in Topics : version'[t] = IF t \in topics THEN version[t] + 1 ELSE version[t]
  BY ChangedType DEF TypeOK
<1>4. ASSUME NEW t \in Topics \ topics, Coming(t)
      PROVE  Coming(t)'
  <2>1. CASE t \in silent
    BY <2>1 DEF Coming
  <2>2. CASE Torn(t)
    BY <2>2 DEF Coming
  <2>3. CASE Announced(t)
    BY <2>3 DEF Coming
  <2>4. CASE Carried(t)
    BY <1>1, <2>4 DEF Coming, Carried
  <2> QED  BY <1>4, <2>1, <2>2, <2>3, <2>4 DEF Coming
<1>5. \A t \in Topics : (Coming(t) \/ t \in topics => Coming(t)')
  BY <1>4
<1>6. HeldAsRead'
  <2> SUFFICES ASSUME NEW j \in Tasks, held[j] # None
               PROVE  LET t == held[j].topic IN
                      /\ held[j].at <= version'[t]
                      /\ held[j].seen \in {held[j].at, Garbled}
                      /\ held[j].seen = Garbled =>
                           held[j].at < version'[t] \/ Torn(t)'
                      /\ held[j].at < version'[t] => Coming(t)' \/ newest[t] = version'[t]
    BY DEF HeldAsRead, Torn, Writer
  <2> DEFINE t == held[j].topic
  <2>1. t \in Topics /\ held[j].at \in Nat
    BY MessageIs
  <2>2. /\ held[j].at <= version[t]
        /\ held[j].seen \in {held[j].at, Garbled}
        /\ held[j].seen = Garbled => held[j].at < version[t] \/ Torn(t)
        /\ held[j].at < version[t] => Coming(t) \/ newest[t] = version[t]
    BY DEF HeldAsRead
  <2> HIDE DEF t
  <2>3. CASE t \in topics
    BY <1>1, <1>5, <2>1, <2>2, <2>3 DEF t
  <2>4. CASE t \notin topics
    BY <1>1, <1>5, <2>1, <2>2, <2>4 DEF t
  <2> QED  BY <2>3, <2>4
<1>7. NewestSeen'
  <2> SUFFICES ASSUME NEW t \in Topics
               PROVE  newest[t] <= version'[t]
    BY DEF NewestSeen
  <2>1. newest[t] <= version[t] /\ newest[t] \in Nat /\ version[t] \in Nat
    BY <1>1 DEF NewestSeen
  <2>2. version'[t] = version[t] \/ version'[t] = version[t] + 1
    BY <1>1
  <2> QED  BY <2>1, <2>2
<1>8. QueueCurrent'
  <2> SUFFICES ASSUME NEW i \in 1 .. Len(queue), LastOf(i)
               PROVE  \/ queue[i].seen = version'[queue[i].topic]
                      \/ queue[i].topic \in overtaken
                      \/ Coming(queue[i].topic)'
    BY DEF QueueCurrent, LastOf
  <2>1. queue[i].topic \in Topics
    BY QueuedIs
  <2> QED  BY <1>1, <1>5, <2>1 DEF QueueCurrent
<1> QED  BY <1>1, <1>5, <1>6, <1>7, <1>8

(***************************************************************************)
(* A task that was idle changes topics and has then to announce them.      *)
(***************************************************************************)
LEMMA Announce ==
  ASSUME TypeOK, HeldAsRead, NewestSeen, QueueCurrent,
         NEW k \in Tasks, NEW topics, NEW what \in Seq(Topics),
         Idle(k), todo' = [todo EXCEPT ![k] = what], Changed(topics), silent \subseteq silent',
         \A t \in topics : t \in silent' \/ \E i \in 1 .. Len(what) : what[i] = t,
         \A t \in Topics \ topics : Torn(t) => Torn(t)',
         UNCHANGED <<held, queue, newest, overtaken>>
  PROVE  /\ HeldAsRead' /\ NewestSeen' /\ QueueCurrent'
         /\ \A t \in Topics : (Coming(t) \/ t \in topics => Coming(t)')
         /\ \A t \in Topics \ topics : version'[t] = version[t]
<1>1. todo'[k] = what /\ \A j \in Tasks \ {k} : todo'[j] = todo[j]
  BY DEF TypeOK
<1>2. ASSUME NEW t \in Topics, Announced(t)
      PROVE  Announced(t)'
  <2>1. PICK j \in Tasks : \E i \in 1 .. Len(todo[j]) : todo[j][i] = t
    BY <1>2 DEF Announced
  <2>2. Len(<<>>) = 0 /\ todo[k] = <<>>
    BY DEF Idle
  <2>3. j # k
    BY <2>1, <2>2
  <2> QED  BY <1>1, <2>1, <2>3 DEF Announced
<1>3. ASSUME NEW t \in Topics \cap topics
      PROVE  Coming(t)'
  BY <1>1, <1>3 DEF Coming, Announced
<1> QED  BY <1>2, <1>3, Changing

(***************************************************************************)
(* A change of the web server's task or of loop() keeps the browsers' views*)
(* as right as they were.                                                  *)
(***************************************************************************)
LEMMA ViewsKept ==
  ASSUME ViewsCurrent, clients' \subseteq clients,
         \A b \in clients' : view'[b] = view[b],
         \A t \in Topics : Coming(t) => Coming(t)',
         \A t \in Topics : version'[t] = version[t] \/ Coming(t)',
         UNCHANGED <<joining, queue, overtaken, lost>>
  PROVE  ViewsCurrent'
<1> SUFFICES ASSUME NEW b \in clients', NEW t \in Topics
             PROVE  \/ view'[b][t] = version'[t]
                    \/ InQueue(t)' \/ Coming(t)' \/ StillSent(b, t)'
                    \/ t \in overtaken' \/ t \in lost'[b]
  BY DEF ViewsCurrent
<1>1. \/ view[b][t] = version[t]
      \/ InQueue(t) \/ Coming(t) \/ StillSent(b, t)
      \/ t \in overtaken \/ t \in lost[b]
  BY DEF ViewsCurrent
<1> QED  BY <1>1 DEF InQueue, StillSent

LEMMA ChangeSettles ==
  ASSUME IInv, WebChanges
  PROVE  Settling'
<1>1. PICK k \in Tasks, topics \in SUBSET Topics, what \in Seq(Topics),
           quiet \in SUBSET Topics :
        /\ Change(k, topics, what, quiet)
        /\ Idle(k) /\ k \notin writing
        /\ \A t \in topics : t \in quiet \/ \E i \in 1 .. Len(what) : what[i] = t
  BY WebChange DEF IInv, Typed
<1>2. /\ todo' = [todo EXCEPT ![k] = what] /\ Changed(topics)
      /\ silent' = silent \cup quiet
      /\ UNCHANGED <<observed, writing, clearing, held, joining, fetch, clients, queue, view,
                     presses, lost, newest, overtaken>>
  BY <1>1 DEF Change
<1>3. /\ HeldAsRead' /\ NewestSeen' /\ QueueCurrent'
      /\ \A t \in Topics : (Coming(t) \/ t \in topics => Coming(t)')
      /\ \A t \in Topics \ topics : version'[t] = version[t]
  <2>1. \A t \in Topics \ topics : Torn(t) => Torn(t)'
    BY <1>2, TornKept
  <2> QED  BY <1>1, <1>2, <2>1, Announce DEF IInv, Typed, Settling
<1>4. ViewsCurrent'
  BY <1>2, <1>3, ViewsKept DEF IInv, Settling
<1> QED  BY <1>3, <1>4 DEF Settling

(***************************************************************************)
(* Clearing all data changes topics that the code leaves out.              *)
(***************************************************************************)
LEMMA ClearSettles ==
  ASSUME IInv, Clears
  PROVE  Settling'
<1>0. /\ TypeOK /\ HeldAsRead /\ NewestSeen /\ QueueCurrent /\ ViewsCurrent
      /\ UNCHANGED <<writing, todo, held, joining, clients, queue, view, lost, newest,
                     overtaken>>
  BY DEF IInv, Typed, Settling, Clears, HandleClearAllData, BeginReset, ResetTable,
         tasks, history
<1>1. \A t \in Topics : Announced(t) => Announced(t)'
  BY <1>0 DEF Announced
<1>2. ASSUME NEW topics \in SUBSET Topics, Changed(topics), silent' = silent \cup topics,
             \A t \in Topics \ topics : Torn(t) => Torn(t)'
      PROVE  Settling'
  <2>1. \A t \in Topics \cap topics : Coming(t)'
    BY <1>2 DEF Coming
  <2>2. /\ HeldAsRead' /\ NewestSeen' /\ QueueCurrent'
        /\ \A t \in Topics : (Coming(t) \/ t \in topics => Coming(t)')
        /\ \A t \in Topics \ topics : version'[t] = version[t]
    BY <1>0, <1>1, <1>2, <2>1, Changing
  <2>3. ViewsCurrent'
    BY <1>0, <2>2, ViewsKept
  <2> QED  BY <2>2, <2>3 DEF Settling
<1>3. CASE HandleClearAllData
  <2>1. \A t \in Topics : Torn(t) => Torn(t)'
    BY <1>0, <1>3 DEF HandleClearAllData, WebIdle, Torn, Writer
  <2>2. Changed({"settings"}) /\ silent' = silent \cup {"settings"}
    BY <1>3 DEF HandleClearAllData
  <2> QED  BY <1>2, <2>1, <2>2 DEF Topics
<1>4. CASE BeginReset
  <2>1. \A t \in Topics : Torn(t) => Torn(t)'
    BY <1>0, <1>4 DEF BeginReset, Torn, Writer
  <2>2. Changed({}) /\ silent' = silent \cup {}
    <3>1. version = [t \in Topics |-> version[t]]
      BY <1>0 DEF TypeOK
    <3> QED  BY <1>4, <3>1 DEF BeginReset, Changed, history
  <2> QED  BY <1>2, <2>1, <2>2
<1>5. CASE ResetTable
  <2> DEFINE topics == {"observed_buttons", "commands"}
  <2>1. \A t \in Topics \ topics : Torn(t) => Torn(t)'
    BY <1>0, <1>5 DEF ResetTable, Torn, Writer
  <2>2. Changed(topics) /\ silent' = silent \cup topics
    BY <1>5 DEF ResetTable
  <2>3. topics \in SUBSET Topics
    BY DEF Topics
  <2> HIDE DEF topics
  <2> QED  BY <1>2, <2>1, <2>2, <2>3
<1> QED  BY <1>3, <1>4, <1>5 DEF Clears

LEMMA WriteSettles ==
  ASSUME IInv, BeginPress \/ (\E b \in Buttons : NotifyObservedButton(b))
                 \/ BeginFetched \/ EndFetched
  PROVE  Settling'
<1>0. /\ TypeOK /\ HeldAsRead /\ NewestSeen /\ QueueCurrent /\ ViewsCurrent /\ Writers
      /\ <<"observed_buttons">> \in Seq(Topics) /\ <<"robot_info">> \in Seq(Topics)
      /\ "loop" \in Tasks /\ "fetch" \in Tasks
  BY DEF IInv, Typed, Settling, Topics, Tasks
<1>1. CASE BeginPress \/ BeginFetched
  <2>1. /\ writing \subseteq writing'
        /\ UNCHANGED <<version, observed, clearing, tasks, clients, queue, view, lost,
                       silent, newest, overtaken>>
    BY <1>1 DEF BeginPress, BeginFetched, history
  <2>2. \A t \in Topics : Coming(t) => Coming(t)'
    BY <2>1 DEF Coming, Announced, Carried, Torn, Writer, tasks
  <2>3. HeldAsRead' /\ NewestSeen' /\ QueueCurrent'
    <3>1. HeldAsRead'
      BY <1>0, <2>1, <2>2, MessageIs DEF HeldAsRead, tasks, Torn, Writer
    <3>2. NewestSeen'
      BY <1>0, <2>1 DEF NewestSeen
    <3>3. QueueCurrent'
      BY <1>0, <2>1, <2>2, QueuedIs DEF QueueCurrent, LastOf
    <3> QED  BY <3>1, <3>2, <3>3
  <2>4. ViewsCurrent'
    BY <1>0, <2>1, <2>2, ViewsKept DEF tasks
  <2> QED  BY <2>3, <2>4 DEF Settling
<1>2. ASSUME NEW b \in Buttons, NotifyObservedButton(b)
      PROVE  Settling'
  <2> DEFINE what == <<"observed_buttons">>
  <2>1. /\ Idle("loop") /\ writing' = writing \ {"loop"}
        /\ todo' = [todo EXCEPT !["loop"] = what]
        /\ Changed({"observed_buttons"})
        /\ UNCHANGED <<clearing, held, joining, fetch, clients, queue, view, lost, silent,
                       newest, overtaken>>
    BY <1>0, <1>2 DEF NotifyObservedButton, Writers
  <2>2. \A t \in {"observed_buttons"} : \E i \in 1 .. Len(what) : what[i] = t
    OBVIOUS
  <2>3. \A t \in Topics \ {"observed_buttons"} : Torn(t) => Torn(t)'
    <3>1. \A t \in Topics \ {"observed_buttons"} : Writer(t) # "loop"
      BY WriterIs DEF Tasks
    <3> QED  BY <2>1, <3>1 DEF Torn, Writer
  <2>4. what \in Seq(Topics)
    BY <1>0
  <2> HIDE DEF what
  <2>5. /\ HeldAsRead' /\ NewestSeen' /\ QueueCurrent'
        /\ \A t \in Topics : (Coming(t) \/ t \in {"observed_buttons"} => Coming(t)')
        /\ \A t \in Topics \ {"observed_buttons"} : version'[t] = version[t]
    BY <1>0, <2>1, <2>2, <2>3, <2>4, Announce
  <2>6. ViewsCurrent'
    BY <1>0, <2>1, <2>5, ViewsKept
  <2> QED  BY <2>5, <2>6 DEF Settling
<1>3. CASE EndFetched
  <2> DEFINE what == <<"robot_info">>
  <2>1. /\ Idle("fetch") /\ writing' = writing \ {"fetch"}
        /\ todo' = [todo EXCEPT !["fetch"] = what]
        /\ Changed({"robot_info"})
        /\ UNCHANGED <<clearing, held, joining, clients, queue, view, lost, silent,
                       newest, overtaken>>
    BY <1>0, <1>3 DEF EndFetched, Writers, history
  <2>2. \A t \in {"robot_info"} : \E i \in 1 .. Len(what) : what[i] = t
    OBVIOUS
  <2>3. \A t \in Topics \ {"robot_info"} : Torn(t) => Torn(t)'
    <3>1. \A t \in Topics \ {"robot_info"} : Writer(t) # "fetch"
      BY WriterIs DEF Tasks
    <3> QED  BY <2>1, <3>1 DEF Torn, Writer
  <2>4. what \in Seq(Topics)
    BY <1>0
  <2> HIDE DEF what
  <2>5. /\ HeldAsRead' /\ NewestSeen' /\ QueueCurrent'
        /\ \A t \in Topics : (Coming(t) \/ t \in {"robot_info"} => Coming(t)')
        /\ \A t \in Topics \ {"robot_info"} : version'[t] = version[t]
    BY <1>0, <2>1, <2>2, <2>3, <2>4, Announce
  <2>6. ViewsCurrent'
    BY <1>0, <2>1, <2>5, ViewsKept
  <2> QED  BY <2>5, <2>6 DEF Settling
<1> QED  BY <1>1, <1>2, <1>3

LEMMA SnapshotSettles ==
  ASSUME IInv, NEW k \in Tasks, Snapshot(k)
  PROVE  Settling'
<1>0. TypeOK /\ HeldAsRead /\ NewestSeen /\ QueueCurrent /\ ViewsCurrent
  BY DEF IInv, Typed, Settling
<1> PICK t : t = Head(todo[k])
  OBVIOUS
<1>1. PICK v \in Readable(t) :
        held' = [held EXCEPT ![k] = [topic |-> t, seen |-> v, at |-> version[t]]]
  BY DEF Snapshot
<1>2. /\ held[k] = None /\ todo[k] # <<>> /\ todo' = [todo EXCEPT ![k] = Tail(todo[k])]
      /\ UNCHANGED <<version, observed, writing, clearing, joining, fetch, clients, queue, view,
                     lost, silent, newest, overtaken>>
  BY DEF Snapshot, data, history
<1>3. /\ todo[k] \in Seq(Topics) /\ t \in Topics /\ version[t] \in Nat
      /\ \A u : (\E i \in 1 .. Len(todo[k]) : todo[k][i] = u) =>
                  u = t \/ \E i \in 1 .. Len(Tail(todo[k])) : Tail(todo[k])[i] = u
  <2>1. todo[k] \in Seq(Topics) /\ todo[k] # <<>>
    BY <1>0, <1>2 DEF TypeOK
  <2>2. /\ t \in Topics
        /\ \A u : (\E i \in 1 .. Len(todo[k]) : todo[k][i] = u) =>
                    u = t \/ \E i \in 1 .. Len(Tail(todo[k])) : Tail(todo[k])[i] = u
    <3>1. /\ Head(todo[k]) \in Topics
          /\ \A u : (\E i \in 1 .. Len(todo[k]) : todo[k][i] = u) =>
                      u = Head(todo[k]) \/ \E i \in 1 .. Len(Tail(todo[k])) : Tail(todo[k])[i] = u
      BY <2>1, TailElements, Zenon
    <3> QED  BY <3>1, Zenon
  <2> QED  BY <1>0, <2>1, <2>2 DEF TypeOK
<1>4. v = version[t] \/ (v = Garbled /\ Torn(t))
  BY DEF Readable
<1>5. [topic |-> t, seen |-> v, at |-> version[t]] # None
  <2>1. v \in Nat \cup {Garbled}
    BY <1>3, <1>4
  <2>2. [topic |-> t, seen |-> v, at |-> version[t]] \in Messages
    BY <1>3, <2>1 DEF Messages
  <2> QED  BY <2>2, WsAssumption
<1>6. /\ held'[k] # None /\ held'[k].topic = t /\ held'[k].seen = v
      /\ held'[k].at = version[t] /\ todo'[k] = Tail(todo[k])
      /\ \A j \in Tasks \ {k} : held'[j] = held[j] /\ todo'[j] = todo[j]
  BY <1>0, <1>1, <1>2, <1>5 DEF TypeOK
<1>7. ASSUME NEW u \in Topics, Coming(u)
      PROVE  Coming(u)'
  <2>1. CASE u \in silent \/ Torn(u)
    BY <1>2, <2>1 DEF Coming, Torn, Writer
  <2>2. CASE Announced(u)
    <3>1. PICK j \in Tasks : \E i \in 1 .. Len(todo[j]) : todo[j][i] = u
      BY <2>2 DEF Announced
    <3>2. CASE j # k
      BY <1>6, <3>1, <3>2 DEF Coming, Announced
    <3>3. CASE j = k /\ u # t
      <4>1. \E i \in 1 .. Len(todo'[k]) : todo'[k][i] = u
        BY <1>3, <1>6, <3>1, <3>3, ZenonT(30)
      <4> QED  BY <4>1 DEF Coming, Announced
    <3>4. CASE u = t
      <4>1. CASE v = version[t]
        BY <1>2, <1>6, <3>4, <4>1 DEF Coming, Carried
      <4>2. CASE v # version[t]
        BY <1>2, <1>4, <3>4, <4>2 DEF Coming, Torn, Writer
      <4> QED  BY <4>1, <4>2
    <3> QED  BY <3>2, <3>3, <3>4
  <2>3. CASE Carried(u)
    BY <1>2, <1>6, <2>3 DEF Coming, Carried
  <2> QED  BY <1>7, <2>1, <2>2, <2>3 DEF Coming
<1>8. HeldAsRead'
  <2> SUFFICES ASSUME NEW j \in Tasks, held'[j] # None, NEW u, u = held'[j].topic
               PROVE  /\ held'[j].at <= version[u]
                      /\ held'[j].seen \in {held'[j].at, Garbled}
                      /\ held'[j].seen = Garbled =>
                           held'[j].at < version[u] \/ Torn(u)
                      /\ held'[j].at < version[u] => Coming(u)' \/ newest[u] = version[u]
    BY <1>2 DEF HeldAsRead, Torn, Writer
  <2>1. CASE j = k
    BY <1>3, <1>4, <1>6, <2>1, WsAssumption
  <2>2. CASE j # k
    <3>1. held[j] # None /\ held'[j] = held[j]
      BY <1>6, <2>2
    <3>2. held[j].topic \in Topics
      BY <1>0, <3>1, MessageIs
    <3> QED  BY <1>0, <1>7, <3>1, <3>2 DEF HeldAsRead
  <2> QED  BY <2>1, <2>2
<1>9. NewestSeen'
  BY <1>0, <1>2 DEF NewestSeen
<1>10. QueueCurrent'
  BY <1>0, <1>2, <1>7, QueuedIs DEF QueueCurrent, LastOf
<1>11. ViewsCurrent'
  BY <1>0, <1>2, <1>7, ViewsKept
<1> QED  BY <1>8, <1>9, <1>10, <1>11 DEF Settling

LEMMA EnqueueSettles ==
  ASSUME IInv, NEW k \in Tasks, Enqueue(k)
  PROVE  Settling'
<1> PICK m, t, n : m = held[k] /\ t = m.topic /\ n = Len(queue)
  OBVIOUS
<1> DEFINE late == m.at < newest[t]
<1>0. TypeOK /\ HeldAsRead /\ NewestSeen /\ QueueCurrent /\ ViewsCurrent
  BY DEF IInv, Typed, Settling
<1>1. /\ m # None /\ joining = None
      /\ queue' = Append(queue, m)
      /\ newest' = [newest EXCEPT ![t] = IF late THEN newest[t] ELSE m.at]
      /\ overtaken' = IF late THEN overtaken \cup {t} ELSE overtaken \ {t}
      /\ silent' = IF m.seen = version[t] THEN silent \ {t} ELSE silent
      /\ held' = [held EXCEPT ![k] = None]
      /\ UNCHANGED <<version, observed, writing, clearing, todo, joining, fetch, clients, view, lost>>
  BY DEF Enqueue, data, MutexFree
<1>2. /\ t \in Topics /\ m.at \in Nat /\ m.seen \in Nat \cup {Garbled}
      /\ version[t] \in Nat /\ newest[t] \in Nat /\ newest[t] <= version[t]
  BY <1>0, <1>1, MessageIs DEF TypeOK, NewestSeen
<1>3. /\ m.at <= version[t] /\ m.seen \in {m.at, Garbled}
      /\ m.seen = Garbled => m.at < version[t] \/ Torn(t)
      /\ m.at < version[t] => Coming(t) \/ newest[t] = version[t]
  BY <1>0, <1>1 DEF HeldAsRead
<1>4. /\ n \in Nat /\ Len(queue') = n + 1 /\ queue'[n + 1] = m
      /\ \A i \in 1 .. n : queue'[i] = queue[i]
  <2>1. m \in Messages /\ queue \in Seq(Messages)
    BY <1>0, <1>1 DEF TypeOK
  <2> QED  BY <1>1, <2>1, AppendProperties, LenProperties
<1>5. /\ held'[k] = None
      /\ \A j \in Tasks \ {k} : held'[j] = held[j]
      /\ newest'[t] = IF late THEN newest[t] ELSE m.at
      /\ \A u \in Topics \ {t} : newest'[u] = newest[u]
  BY <1>0, <1>1, <1>2 DEF TypeOK
<1>6. ASSUME NEW u \in Topics, Coming(u)
      PROVE  Coming(u)' \/ (u = t /\ m.seen = version[t])
  <2>1. CASE u \in silent
    BY <1>1, <2>1 DEF Coming
  <2>2. CASE Torn(u)
    BY <1>1, <2>2 DEF Coming, Torn, Writer
  <2>3. CASE Announced(u)
    BY <1>1, <2>3 DEF Coming, Announced
  <2>4. CASE Carried(u)
    <3>1. PICK j \in Tasks : held[j] # None /\ held[j].topic = u /\ held[j].seen = version[u]
      BY <2>4 DEF Carried
    <3>2. CASE j = k
      BY <3>1, <3>2
    <3>3. CASE j # k
      BY <1>1, <1>5, <3>1, <3>3 DEF Coming, Carried
    <3> QED  BY <3>2, <3>3
  <2> QED  BY <1>6, <2>1, <2>2, <2>3, <2>4 DEF Coming
<1>7. m.seen = version[t] => m.at = version[t]
  BY <1>2, <1>3, WsAssumption
<1>8. HeldAsRead'
  <2> SUFFICES ASSUME NEW j \in Tasks, held'[j] # None, NEW u, u = held'[j].topic
               PROVE  /\ held'[j].at <= version[u]
                      /\ held'[j].seen \in {held'[j].at, Garbled}
                      /\ held'[j].seen = Garbled =>
                           held'[j].at < version[u] \/ Torn(u)
                      /\ held'[j].at < version[u] => Coming(u)' \/ newest'[u] = version[u]
    BY <1>1 DEF HeldAsRead, Torn, Writer
  <2>1. j # k /\ held'[j] = held[j] /\ held[j] # None
    BY <1>5
  <2>2. u \in Topics
    BY <1>0, <2>1, MessageIs
  <2>3. /\ held[j].at <= version[u] /\ held[j].seen \in {held[j].at, Garbled}
        /\ held[j].seen = Garbled => held[j].at < version[u] \/ Torn(u)
        /\ held[j].at < version[u] => Coming(u) \/ newest[u] = version[u]
    BY <1>0, <2>1 DEF HeldAsRead
  <2>4. ASSUME Coming(u) \/ newest[u] = version[u]
        PROVE  Coming(u)' \/ newest'[u] = version[u]
    <3>1. CASE u # t
      BY <1>5, <1>6, <2>2, <2>4, <3>1
    <3>2. CASE u = t /\ newest[t] = version[t]
      BY <1>2, <1>3, <1>5, <3>2
    <3>3. CASE u = t /\ Coming(t)
      <4>1. Coming(t)' \/ m.seen = version[t]
        BY <1>2, <1>6, <3>3
      <4>2. CASE m.seen = version[t]
        BY <1>2, <1>3, <1>5, <1>7, <3>3, <4>2
      <4> QED  BY <3>3, <4>1, <4>2
    <3> QED  BY <2>4, <3>1, <3>2, <3>3
  <2> QED  BY <2>1, <2>3, <2>4
<1>9. NewestSeen'
  <2> SUFFICES ASSUME NEW u \in Topics
               PROVE  newest'[u] <= version[u]
    BY <1>1 DEF NewestSeen
  <2> QED  BY <1>0, <1>2, <1>3, <1>5 DEF NewestSeen
<1>10. QueueCurrent'
  <2> SUFFICES ASSUME NEW i \in 1 .. Len(queue'), NEW u, u = queue'[i].topic,
                      \A j \in i + 1 .. Len(queue') : queue'[j].topic # queue'[i].topic
               PROVE  queue'[i].seen = version[u] \/ u \in overtaken' \/ Coming(u)'
    BY <1>1 DEF QueueCurrent, LastOf
  <2>0. i \in 1 .. n + 1 /\ \A j \in i + 1 .. n + 1 : queue'[j].topic # queue'[i].topic
    BY <1>4
  <2>1. CASE i = n + 1
    <3>1. queue'[i] = m
      BY <1>4, <2>1
    <3>2. m.seen = version[t] \/ t \in overtaken' \/ Coming(t)'
      <4>1. CASE late
        BY <1>1, <4>1
      <4>2. CASE ~late /\ m.at < version[t]
        <5>1. newest[t] # version[t]
          BY <1>2, <4>2
        <5>2. Coming(t)
          BY <1>3, <4>2, <5>1
        <5> QED  BY <1>2, <1>6, <5>2
      <4>3. CASE m.at = version[t]
        <5>1. m.seen = version[t] \/ Torn(t)
          BY <1>2, <1>3, <4>3
        <5>2. CASE Torn(t)
          BY <1>1, <5>2 DEF Coming, Torn, Writer
        <5> QED  BY <5>1, <5>2
      <4> QED  BY <1>2, <1>3, <4>1, <4>2, <4>3
    <3> QED  BY <3>1, <3>2
  <2>2. CASE i # n + 1
    <3>1. i \in 1 .. n /\ queue'[i] = queue[i] /\ u = queue[i].topic
      BY <1>4, <2>0, <2>2
    <3>2. u \in Topics
      BY <1>0, <3>1, QueuedIs
    <3>3. u # t
      <4>1. n + 1 \in i + 1 .. n + 1
        BY <1>4, <3>1
      <4> QED  BY <1>4, <2>0, <3>1, <4>1
    <3>4. LastOf(i)
      <4>1. \A j \in i + 1 .. n : j \in i + 1 .. n + 1 /\ queue'[j] = queue[j]
        BY <1>4, <3>1
      <4> QED  BY <2>0, <3>1, <4>1 DEF LastOf
    <3>5. queue[i].seen = version[u] \/ u \in overtaken \/ Coming(u)
      BY <1>0, <3>1, <3>4 DEF QueueCurrent
    <3>6. queue[i].seen = version[u] \/ u \in overtaken' \/ Coming(u)'
      BY <1>1, <1>6, <3>2, <3>3, <3>5
    <3> QED  BY <3>1, <3>6
  <2> QED  BY <2>1, <2>2
<1>11. ViewsCurrent'
  <2> SUFFICES ASSUME NEW b \in clients, NEW u \in Topics
               PROVE  \/ view[b][u] = version[u]
                      \/ InQueue(u)' \/ Coming(u)' \/ StillSent(b, u)'
                      \/ u \in overtaken' \/ u \in lost[b]
    BY <1>1 DEF ViewsCurrent
  <2>1. CASE u = t
    <3>1. n + 1 \in 1 .. Len(queue') /\ queue'[n + 1].topic = u
      BY <1>4, <2>1
    <3> QED  BY <3>1 DEF InQueue
  <2>2. CASE u # t
    <3>1. InQueue(u) => InQueue(u)'
      <4>1. \A i \in 1 .. n : i \in 1 .. Len(queue') /\ queue'[i] = queue[i]
        BY <1>4
      <4> QED  BY <4>1 DEF InQueue
    <3>2. StillSent(b, u) => StillSent(b, u)'
      BY <1>1 DEF StillSent
    <3>3. u \in overtaken => u \in overtaken'
      BY <1>1, <2>2
    <3>4. Coming(u) => Coming(u)'
      BY <1>6, <2>2
    <3>5. \/ view[b][u] = version[u]
          \/ InQueue(u) \/ Coming(u) \/ StillSent(b, u)
          \/ u \in overtaken \/ u \in lost[b]
      BY <1>0 DEF ViewsCurrent
    <3> QED  BY <3>1, <3>2, <3>3, <3>4, <3>5
  <2> QED  BY <2>1, <2>2
<1> QED  BY <1>8, <1>9, <1>10, <1>11 DEF Settling

(***************************************************************************)
(* The last message of a topic is the one that Received shows.             *)
(***************************************************************************)
LEMMA ReceivedIs ==
  ASSUME TypeOK, NEW shown, NEW t \in Topics
  PROVE  /\ ~InQueue(t) => Received(shown, queue)[t] = shown[t]
         /\ InQueue(t) => \E i \in 1 .. Len(queue) :
              queue[i].topic = t /\ LastOf(i) /\ Received(shown, queue)[t] = queue[i].seen
<1> DEFINE at == {i \in 1 .. Len(queue) : queue[i].topic = t}
           last == CHOOSE i \in at : \A j \in at : j <= i
<1>1. Received(shown, queue)[t] = IF at = {} THEN shown[t] ELSE queue[last].seen
  BY DEF Received
<1>2. Len(queue) \in Nat /\ at \in SUBSET (1 .. Len(queue))
  BY QueuedIs
<1>3. ASSUME at # {}
      PROVE  last \in at /\ \A j \in at : j <= last
  <2>1. \E i \in at : \A j \in at : j <= i
    BY <1>2, <1>3, LastExists
  <2> QED  BY <2>1
<1>4. ASSUME InQueue(t)
      PROVE  \E i \in 1 .. Len(queue) :
               queue[i].topic = t /\ LastOf(i) /\ Received(shown, queue)[t] = queue[i].seen
  <2>1. at # {}
    BY <1>4 DEF InQueue
  <2>2. last \in at /\ \A j \in at : j <= last
    BY <1>3, <2>1
  <2>3. Received(shown, queue)[t] = queue[last].seen
    BY <1>1, <2>1
  <2> HIDE DEF last
  <2>4. last \in 1 .. Len(queue) /\ queue[last].topic = t
    BY <2>2
  <2>5. ASSUME NEW j \in last + 1 .. Len(queue), queue[j].topic = t
        PROVE  FALSE
    <3>1. j \in at
      BY <1>2, <2>4, <2>5
    <3> QED  BY <1>2, <2>2, <2>4, <3>1
  <2>6. LastOf(last)
    BY <2>4, <2>5 DEF LastOf
  <2> QED  BY <2>3, <2>4, <2>6
<1>5. ~InQueue(t) => at = {}
  BY DEF InQueue
<1> QED  BY <1>1, <1>4, <1>5

LEMMA FlushSettles ==
  ASSUME IInv, NEW full \in SUBSET clients, Flush(full)
  PROVE  Settling'
<1> DEFINE topics == {queue[i].topic : i \in 1 .. Len(queue)}
<1>0. TypeOK /\ HeldAsRead /\ NewestSeen /\ QueueCurrent /\ ViewsCurrent
  BY DEF IInv, Typed, Settling
<1>1. /\ view' = [b \in Browsers |-> IF b \in clients \ full
                                     THEN Received(view[b], queue) ELSE view[b]]
      /\ lost' = [b \in Browsers |-> IF b \notin clients THEN lost[b]
                                     ELSE IF b \in full THEN lost[b] \cup topics
                                     ELSE lost[b] \ topics]
      /\ queue' = <<>>
      /\ UNCHANGED <<version, observed, writing, clearing, todo, held, joining, fetch, clients,
                     silent, newest, overtaken>>
  BY DEF Flush, data, tasks
<1>2. ASSUME NEW t \in Topics
      PROVE  Coming(t) <=> Coming(t)'
  BY <1>1 DEF Coming, Announced, Carried, Torn, Writer
<1>3. HeldAsRead'
  BY <1>0, <1>1, <1>2, MessageIs DEF HeldAsRead, Torn, Writer
<1>4. NewestSeen'
  BY <1>0, <1>1 DEF NewestSeen
<1>5. QueueCurrent'
  <2>1. Len(queue') = 0
    BY <1>1
  <2> QED  BY <2>1 DEF QueueCurrent
<1>6. ViewsCurrent'
  <2> SUFFICES ASSUME NEW b \in clients, NEW t \in Topics
               PROVE  \/ view'[b][t] = version[t]
                      \/ InQueue(t)' \/ Coming(t)' \/ StillSent(b, t)'
                      \/ t \in overtaken \/ t \in lost'[b]
    BY <1>1 DEF ViewsCurrent
  <2>1. /\ b \in Browsers
        /\ view'[b] = IF b \in full THEN view[b] ELSE Received(view[b], queue)
        /\ lost'[b] = IF b \in full THEN lost[b] \cup topics ELSE lost[b] \ topics
    BY <1>0, <1>1 DEF TypeOK
  <2>2. CASE InQueue(t)
    <3>1. CASE b \in full
      BY <2>1, <2>2, <3>1 DEF InQueue
    <3>2. CASE b \notin full
      <4>1. PICK i \in 1 .. Len(queue) :
              /\ queue[i].topic = t /\ LastOf(i)
              /\ Received(view[b], queue)[t] = queue[i].seen
        BY <1>0, <2>2, ReceivedIs
      <4>2. queue[i].seen = version[t] \/ t \in overtaken \/ Coming(t)
        BY <1>0, <4>1 DEF QueueCurrent
      <4> QED  BY <1>2, <2>1, <3>2, <4>1, <4>2
    <3> QED  BY <3>1, <3>2
  <2>3. CASE ~InQueue(t)
    <3>1. view'[b][t] = view[b][t]
      BY <1>0, <2>1, <2>3, ReceivedIs
    <3>2. t \notin topics
      BY <2>3 DEF InQueue
    <3>3. t \in lost[b] => t \in lost'[b]
      BY <2>1, <3>2
    <3>4. StillSent(b, t) => StillSent(b, t)'
      BY <1>1 DEF StillSent
    <3>5. view[b][t] = version[t] \/ Coming(t) \/ StillSent(b, t) \/ t \in overtaken
            \/ t \in lost[b]
      BY <1>0, <2>3 DEF ViewsCurrent
    <3> QED  BY <1>2, <3>1, <3>3, <3>4, <3>5
  <2> QED  BY <2>2, <2>3
<1> QED  BY <1>3, <1>4, <1>5, <1>6 DEF Settling

(***************************************************************************)
(* The web server's task announces that a browser came or went.            *)
(***************************************************************************)
LEMMA ConnectSettles ==
  ASSUME IInv, NEW b \in Browsers, Connect(b)
  PROVE  Settling'
<1> DEFINE what == <<"hub_info">>
<1>0. /\ TypeOK /\ HeldAsRead /\ NewestSeen /\ QueueCurrent /\ ViewsCurrent
      /\ "web" \in Tasks /\ what \in Seq(Topics)
      /\ \A t \in {"hub_info"} : \E i \in 1 .. Len(what) : what[i] = t
  BY DEF IInv, Typed, Settling, Tasks, Topics
<1>1. /\ Idle("web") /\ joining = None
      /\ joining' = [client |-> b, left |-> AllTopics]
      /\ todo' = [todo EXCEPT !["web"] = what]
      /\ Changed({"hub_info"}) /\ clients' = clients \cup {b}
      /\ UNCHANGED <<writing, clearing, held, queue, view, lost, silent, newest, overtaken>>
  BY DEF Connect, WebIdle, AllTopics
<1> HIDE DEF what
<1>2. /\ HeldAsRead' /\ NewestSeen' /\ QueueCurrent'
      /\ \A t \in Topics : (Coming(t) \/ t \in {"hub_info"} => Coming(t)')
      /\ \A t \in Topics \ {"hub_info"} : version'[t] = version[t]
  <2>1. \A t \in Topics \ {"hub_info"} : Torn(t) => Torn(t)'
    BY <1>1, TornKept
  <2> QED  BY <1>0, <1>1, <2>1, Announce
<1>3. ASSUME NEW t \in Topics
      PROVE  StillSent(b, t)'
  <2>1. [client |-> b, left |-> AllTopics] \in Joins
    BY AllTopicsShape DEF Joins
  <2>2. joining' # None /\ joining'.client = b /\ joining'.left = AllTopics
    BY <1>1, <2>1, WsAssumption
  <2> QED  BY <2>2, AllTopicsShape DEF StillSent
<1>4. ViewsCurrent'
  <2> SUFFICES ASSUME NEW c \in clients', NEW t \in Topics
               PROVE  \/ view[c][t] = version'[t]
                      \/ InQueue(t)' \/ Coming(t)' \/ StillSent(c, t)'
                      \/ t \in overtaken \/ t \in lost[c]
    BY <1>1 DEF ViewsCurrent
  <2>1. CASE c = b
    BY <1>3, <2>1
  <2>2. CASE c # b
    <3>1. \/ view[c][t] = version[t]
          \/ InQueue(t) \/ Coming(t) \/ t \in overtaken \/ t \in lost[c]
      BY <1>0, <1>1, <2>2 DEF ViewsCurrent, StillSent
    <3>2. InQueue(t) <=> InQueue(t)'
      BY <1>1 DEF InQueue
    <3> QED  BY <1>2, <3>1, <3>2
  <2> QED  BY <2>1, <2>2
<1> QED  BY <1>2, <1>4 DEF Settling

LEMMA DisconnectSettles ==
  ASSUME IInv, NEW b \in Browsers, Disconnect(b)
  PROVE  Settling'
<1> DEFINE what == <<"hub_info">>
<1>0. /\ TypeOK /\ HeldAsRead /\ NewestSeen /\ QueueCurrent /\ ViewsCurrent
      /\ "web" \in Tasks /\ what \in Seq(Topics)
      /\ \A t \in {"hub_info"} : \E i \in 1 .. Len(what) : what[i] = t
  BY DEF IInv, Typed, Settling, Tasks, Topics
<1>1. /\ Idle("web")
      /\ todo' = [todo EXCEPT !["web"] = what]
      /\ Changed({"hub_info"}) /\ clients' = clients \ {b}
      /\ view' = [view EXCEPT ![b] = Closed(@)]
      /\ UNCHANGED <<writing, clearing, held, joining, queue, lost, silent, newest, overtaken>>
  BY DEF Disconnect, WebIdle
<1> HIDE DEF what
<1>2. /\ HeldAsRead' /\ NewestSeen' /\ QueueCurrent'
      /\ \A t \in Topics : (Coming(t) \/ t \in {"hub_info"} => Coming(t)')
      /\ \A t \in Topics \ {"hub_info"} : version'[t] = version[t]
  <2>1. \A t \in Topics \ {"hub_info"} : Torn(t) => Torn(t)'
    BY <1>1, TornKept
  <2> QED  BY <1>0, <1>1, <2>1, Announce
<1>3. \A c \in clients' : view'[c] = view[c]
  BY <1>0, <1>1 DEF TypeOK
<1>4. ViewsCurrent'
  BY <1>0, <1>1, <1>2, <1>3, ViewsKept
<1> QED  BY <1>2, <1>4 DEF Settling

LEMMA SendSettles ==
  ASSUME IInv, Typed', NEW refetch \in BOOLEAN, SendToClient(refetch)
  PROVE  Settling'
<1> PICK b, t : b = joining.client /\ t = Head(joining.left)
  OBVIOUS
<1> DEFINE last == Len(joining.left) = 1
<1>0. TypeOK /\ HeldAsRead /\ NewestSeen /\ QueueCurrent /\ ViewsCurrent
  BY DEF IInv, Typed, Settling
<1>1. /\ joining # None
      /\ lost' = [lost EXCEPT ![b] = @ \ {t}]
      /\ joining' = IF last THEN None ELSE [joining EXCEPT !.left = Tail(joining.left)]
      /\ refetch => Idle("fetch")
      /\ todo' = IF refetch THEN [todo EXCEPT !["fetch"] = <<"robot_info">>] ELSE todo
      /\ UNCHANGED <<version, observed, writing, clearing, held, clients, queue, silent, newest,
                     overtaken>>
  BY DEF SendToClient, data
<1>2. PICK v \in Readable(t) : view' = [view EXCEPT ![b][t] = v]
  BY DEF SendToClient
<1>3. /\ joining \in Joins /\ b \in Browsers
      /\ joining.left \in Seq(Topics) /\ joining.left # <<>>
  BY <1>0, <1>1 DEF TypeOK, Joins
<1>4. /\ t \in Topics
      /\ \A u : (\E i \in 1 .. Len(joining.left) : joining.left[i] = u) =>
                  u = t \/ \E i \in 1 .. Len(Tail(joining.left)) : Tail(joining.left)[i] = u
      /\ last => Tail(joining.left) = <<>>
  <2>1. /\ Head(joining.left) \in Topics
        /\ \A u : (\E i \in 1 .. Len(joining.left) : joining.left[i] = u) =>
                    u = Head(joining.left)
                      \/ \E i \in 1 .. Len(Tail(joining.left)) : Tail(joining.left)[i] = u
        /\ last => Tail(joining.left) = <<>>
    BY <1>3, TailElements, Zenon
  <2> QED  BY <2>1, Zenon
<1>5. v = version[t] \/ (v = Garbled /\ Torn(t))
  BY DEF Readable
<1>6. ASSUME NEW u \in Topics, Coming(u)
      PROVE  Coming(u)'
  <2>1. CASE Announced(u)
    <3>1. PICK j \in Tasks : \E i \in 1 .. Len(todo[j]) : todo[j][i] = u
      BY <2>1 DEF Announced
    <3>2. todo'[j] = todo[j]
      <4>1. CASE refetch
        <5>1. todo["fetch"] = <<>> /\ Len(<<>>) = 0
          BY <1>1, <4>1 DEF Idle
        <5>2. j # "fetch"
          BY <3>1, <5>1
        <5> QED  BY <1>0, <1>1, <4>1, <5>2 DEF TypeOK
      <4> QED  BY <1>1, <4>1
    <3> QED  BY <3>1, <3>2 DEF Coming, Announced
  <2>2. CASE u \in silent \/ Torn(u) \/ Carried(u)
    BY <1>1, <2>2 DEF Coming, Torn, Writer, Carried
  <2> QED  BY <1>6, <2>1, <2>2 DEF Coming
<1>7. HeldAsRead'
  BY <1>0, <1>1, <1>6, MessageIs DEF HeldAsRead, Torn, Writer
<1>8. NewestSeen'
  BY <1>0, <1>1 DEF NewestSeen
<1>9. QueueCurrent'
  BY <1>0, <1>1, <1>6, QueuedIs DEF QueueCurrent, LastOf
<1>10. ViewsCurrent'
  <2> SUFFICES ASSUME NEW c \in clients, NEW u \in Topics
               PROVE  \/ view'[c][u] = version[u]
                      \/ InQueue(u)' \/ Coming(u)' \/ StillSent(c, u)'
                      \/ u \in overtaken \/ u \in lost'[c]
    BY <1>1 DEF ViewsCurrent
  <2>0. /\ c \in Browsers /\ view[c] \in [Topics -> Nat \cup {Garbled, None}]
        /\ view \in [Browsers -> [Topics -> Nat \cup {Garbled, None}]]
        /\ lost \in [Browsers -> SUBSET Topics]
    BY <1>0 DEF TypeOK
  <2>1. CASE c = b /\ u = t
    <3>1. view'[c][u] = v
      BY <1>2, <2>0, <2>1
    <3>2. CASE v # version[t]
      BY <1>1, <1>5, <2>1, <3>2 DEF Coming, Torn, Writer
    <3> QED  BY <2>1, <3>1, <3>2
  <2>2. CASE c # b \/ u # t
    <3>1. view'[c][u] = view[c][u] /\ (u \in lost[c] => u \in lost'[c])
      BY <1>1, <1>2, <2>0, <2>2
    <3>2. StillSent(c, u) => StillSent(c, u)'
      <4> SUFFICES ASSUME StillSent(c, u)
                   PROVE  StillSent(c, u)'
        OBVIOUS
      <4>1. c = b /\ \E i \in 1 .. Len(joining.left) : joining.left[i] = u
        BY DEF StillSent
      <4>2. \E i \in 1 .. Len(Tail(joining.left)) : Tail(joining.left)[i] = u
        BY <1>4, <2>2, <4>1
      <4>3. ~last
        BY <1>4, <4>2
      <4>4. joining' # None
        <5>1. joining' = [joining EXCEPT !.left = Tail(joining.left)]
          BY <1>1, <4>3
        <5>2. Tail(joining.left) \in Seq(Topics) \ {<<>>}
          <6>1. /\ Tail(joining.left) \in Seq(Topics)
                /\ Len(joining.left) # 1 => Tail(joining.left) # <<>>
            BY <1>3, TailElements, Zenon
          <6> QED  BY <4>3, <6>1
        <5>3. joining' \in Joins
          BY <1>3, <5>1, <5>2 DEF Joins
        <5> QED  BY <5>3, WsAssumption
      <4>5. joining'.client = c /\ joining'.left = Tail(joining.left)
        BY <1>1, <1>3, <4>1, <4>3 DEF Joins
      <4> QED  BY <4>2, <4>4, <4>5 DEF StillSent
    <3>3. InQueue(u) <=> InQueue(u)'
      BY <1>1 DEF InQueue
    <3>4. \/ view[c][u] = version[u]
          \/ InQueue(u) \/ Coming(u) \/ StillSent(c, u)
          \/ u \in overtaken \/ u \in lost[c]
      BY <1>0 DEF ViewsCurrent
    <3> QED  BY <1>6, <3>1, <3>2, <3>3, <3>4
  <2> QED  BY <2>1, <2>2
<1> QED  BY <1>7, <1>8, <1>9, <1>10 DEF Settling

LEMMA RestartSettles ==
  ASSUME IInv, Restart
  PROVE  Settling'
<1>1. HeldAsRead' /\ ViewsCurrent'
  BY DEF Restart, HeldAsRead, ViewsCurrent
<1>2. QueueCurrent'
  <2>1. Len(queue') = 0
    BY DEF Restart
  <2> QED  BY <2>1 DEF QueueCurrent
<1>3. NewestSeen'
  <2>1. version' \in [Topics -> Nat]
    BY ChangedType DEF Restart, IInv, Typed
  <2> QED  BY <2>1 DEF Restart, NewestSeen
<1> QED  BY <1>1, <1>2, <1>3 DEF Settling

LEMMA BroadcastInit == ASSUME Init PROVE IInv
<1>1. Len(<<>>) = 0
  OBVIOUS
<1>2. HeldAsRead /\ NewestSeen /\ QueueCurrent /\ ViewsCurrent
  BY <1>1 DEF Init, HeldAsRead, NewestSeen, QueueCurrent, ViewsCurrent
<1> QED  BY <1>2, TypedInit DEF IInv, Settling

LEMMA BroadcastStep == ASSUME IInv, [Next]_vars PROVE IInv'
<1>1. Typed'
  BY TypedStep DEF IInv
<1>2. CASE UNCHANGED vars
  <2>1. UNCHANGED <<version, writing, clearing, todo, held, joining, clients, queue, view, lost,
                    silent, newest, overtaken>>
    BY <1>2 DEF vars, data, tasks, history
  <2>2. Settling'
    BY <2>1 DEF IInv, Settling, HeldAsRead, NewestSeen, QueueCurrent, ViewsCurrent, LastOf,
                InQueue, StillSent, Coming, Announced, Carried, Torn, Writer
  <2> QED  BY <1>1, <2>2 DEF IInv
<1>3. ASSUME Next
      PROVE  Settling'
  BY <1>1, <1>3, ChangeSettles, ClearSettles, WriteSettles, SnapshotSettles, EnqueueSettles, FlushSettles,
     ConnectSettles, DisconnectSettles, SendSettles, RestartSettles
     DEF Next, WebChanges, Clears
<1> QED  BY <1>1, <1>2, <1>3 DEF IInv

LEMMA BroadcastInvariant == Spec => []IInv
BY BroadcastInit, BroadcastStep, PTL DEF Spec

(***************************************************************************)
(* The variables of the web server's task, of loop() and of the Fetch task *)
(* keep the types that the code gives them.                                *)
(***************************************************************************)
THEOREM BroadcastTypes == Spec => []TypeOK
<1>1. IInv => TypeOK
  BY DEF IInv, Typed
<1> QED  BY <1>1, BroadcastInvariant, PTL

(***************************************************************************)
(* When everything announced is sent, every connected browser shows the    *)
(* present state of each topic, however the tasks' snapshots and writes    *)
(* were interleaved: but for the topics that the code does not announce,   *)
(* those announced in the wrong order, and dropped texts.                  *)
(***************************************************************************)
THEOREM ViewsSettle == Spec => []SettledViews
<1>1. IInv => SettledViews
  <2> SUFFICES ASSUME IInv, Settled, NEW b \in clients,
                      NEW t \in Topics \ (silent \cup overtaken \cup lost[b])
               PROVE  view[b][t] = version[t]
    BY DEF SettledViews
  <2>1. /\ joining = None /\ queue = <<>> /\ writing = {} /\ clearing # "table"
        /\ \A k \in Tasks : todo[k] = <<>> /\ held[k] = None
    BY DEF Settled, Idle
  <2>2. Len(<<>>) = 0
    OBVIOUS
  <2>3. ~Coming(t) /\ ~InQueue(t) /\ ~StillSent(b, t)
    BY <2>1, <2>2 DEF Coming, Announced, Carried, InQueue, StillSent, Torn
  <2> QED  BY <2>3 DEF IInv, Settling, ViewsCurrent
<1> QED  BY <1>1, BroadcastInvariant, PTL

-----------------------------------------------------------------------------
(* The observed buttons are the last ones pressed                          *)

First(s, b) == CHOOSE i \in 1 .. Len(s) : s[i] = b /\ \A j \in 1 .. i - 1 : s[j] # b
Newer(s, b) == {s[j] : j \in 1 .. First(s, b) - 1}
Pressed(s) == {s[i] : i \in 1 .. Len(s)}

(***************************************************************************)
(* Where b is in the list when it was pressed, and so many others after it.*)
(***************************************************************************)
Listed(list, s, b) ==
  {i \in 1 .. Len(list) : list[i] = b} =
    IF b \in Pressed(s) /\ Cardinality(Newer(s, b)) < MaxObserved
    THEN {Cardinality(Newer(s, b)) + 1} ELSE {}

LEMMA ObservedIs == ObservedLatest <=> \A b \in Buttons : Listed(observed, presses, b)
BY Zenon DEF ObservedLatest, Listed, Pressed, Newer, First

LEMMA FirstIs ==
  ASSUME NEW s \in Seq(Buttons), NEW b, NEW i \in 1 .. Len(s), s[i] = b,
         \A j \in 1 .. i - 1 : s[j] # b
  PROVE  First(s, b) = i
<1>1. Len(s) \in Nat
  BY LenProperties
<1>2. ASSUME NEW k \in 1 .. Len(s), s[k] = b, \A j \in 1 .. k - 1 : s[j] # b
      PROVE  k = i
  BY <1>1, <1>2
<1> QED  BY <1>2 DEF First

(***************************************************************************)
(* A button that was pressed has a last press.                             *)
(***************************************************************************)
LEMMA FirstExists ==
  ASSUME NEW s \in Seq(Buttons), NEW b \in Pressed(s)
  PROVE  /\ First(s, b) \in 1 .. Len(s) /\ s[First(s, b)] = b
         /\ \A j \in 1 .. First(s, b) - 1 : s[j] # b
<1> DEFINE T == {i \in 1 .. Len(s) : s[i] = b}
<1>1. T \subseteq Nat /\ T # {} /\ Len(s) \in Nat
  BY LenProperties DEF Pressed
<1>2. PICK x \in T : \A y \in T : ~ (<<y, x>> \in OpToRel(<, Nat))
  BY <1>1, WFMin, NatLessThanWellFounded, Zenon
<1>3. \A y \in T : ~ (y < x)
  BY <1>1, <1>2 DEF OpToRel
<1>4. x \in 1 .. Len(s) /\ s[x] = b /\ \A j \in 1 .. x - 1 : s[j] # b
  BY <1>1, <1>3
<1>5. First(s, b) = x
  BY <1>4, FirstIs
<1> QED  BY <1>4, <1>5

LEMMA NewerFinite ==
  ASSUME NEW s \in Seq(Buttons), NEW b \in Pressed(s)
  PROVE  IsFiniteSet(Newer(s, b)) /\ Cardinality(Newer(s, b)) \in Nat
<1> DEFINE n == First(s, b) - 1
           f == [j \in 1 .. n |-> s[j]]
<1>1. n \in Nat
  BY FirstExists, LenProperties
<1>2. f \in Surjection(1 .. n, Newer(s, b))
  BY DEF Newer, Surjection
<1>3. IsFiniteSet(1 .. n)
  BY <1>1, FS_Interval
<1> HIDE DEF f, n
<1>4. IsFiniteSet(Newer(s, b))
  BY <1>2, <1>3, FS_Surjection
<1> QED  BY <1>4, FS_CardinalityType

(***************************************************************************)
(* Of two buttons one was pressed later, and fewer others after it.        *)
(***************************************************************************)
LEMMA NewerOrder ==
  ASSUME NEW s \in Seq(Buttons), NEW a \in Pressed(s), NEW b \in Pressed(s), a # b
  PROVE  /\ a \in Newer(s, b) => Cardinality(Newer(s, a)) < Cardinality(Newer(s, b))
         /\ a \in Newer(s, b) \/ b \in Newer(s, a)
<1>1. /\ First(s, a) \in 1 .. Len(s) /\ s[First(s, a)] = a
      /\ \A j \in 1 .. First(s, a) - 1 : s[j] # a
      /\ First(s, b) \in 1 .. Len(s) /\ s[First(s, b)] = b
      /\ \A j \in 1 .. First(s, b) - 1 : s[j] # b
      /\ Len(s) \in Nat
  BY FirstExists, LenProperties
<1>2. ASSUME a \in Newer(s, b)
      PROVE  Cardinality(Newer(s, a)) < Cardinality(Newer(s, b))
  <2>1. PICK j \in 1 .. First(s, b) - 1 : s[j] = a
    BY <1>2 DEF Newer
  <2>2. First(s, a) <= j
    BY <1>1, <2>1
  <2>3. Newer(s, a) \in SUBSET Newer(s, b)
    <3>1. \A i \in 1 .. First(s, a) - 1 : i \in 1 .. First(s, b) - 1
      BY <1>1, <2>1, <2>2
    <3> QED  BY <3>1 DEF Newer
  <2>4. a \notin Newer(s, a)
    BY <1>1 DEF Newer
  <2>5. Newer(s, a) # Newer(s, b)
    BY <1>2, <2>4
  <2>6. /\ Cardinality(Newer(s, a)) <= Cardinality(Newer(s, b))
        /\ Cardinality(Newer(s, b)) # Cardinality(Newer(s, a))
    BY <2>3, <2>5, NewerFinite, FS_Subset
  <2>7. Cardinality(Newer(s, a)) \in Nat /\ Cardinality(Newer(s, b)) \in Nat
    BY NewerFinite
  <2> QED  BY <2>6, <2>7
<1>3. a \in Newer(s, b) \/ b \in Newer(s, a)
  <2>1. CASE First(s, a) < First(s, b)
    <3>1. First(s, a) \in 1 .. First(s, b) - 1
      BY <1>1, <2>1
    <3> QED  BY <1>1, <3>1 DEF Newer
  <2>2. CASE First(s, b) < First(s, a)
    <3>1. First(s, b) \in 1 .. First(s, a) - 1
      BY <1>1, <2>2
    <3> QED  BY <1>1, <3>1 DEF Newer
  <2>3. First(s, a) # First(s, b)
    BY <1>1
  <2> QED  BY <1>1, <2>1, <2>2, <2>3
<1> QED  BY <1>2, <1>3

(***************************************************************************)
(* One more press: of every other button it is newer.                      *)
(***************************************************************************)
LEMMA PressIs ==
  ASSUME NEW s \in Seq(Buttons), NEW p \in Buttons
  PROVE  LET new == <<p>> \o s IN
         /\ new \in Seq(Buttons) /\ Pressed(new) = Pressed(s) \cup {p}
         /\ Newer(new, p) = {}
         /\ \A b \in Pressed(s) \ {p} : Newer(new, b) = Newer(s, b) \cup {p}
<1> PICK new, n : new = <<p>> \o s /\ n = Len(s)
  OBVIOUS
<1>1. /\ n \in Nat /\ new \in Seq(Buttons) /\ Len(new) = n + 1 /\ new[1] = p
      /\ \A i \in 1 .. n : new[i + 1] = s[i]
      /\ \A i \in 2 .. n + 1 : new[i] = s[i - 1] /\ i - 1 \in 1 .. n
  <2>1. <<p>> \in Seq(Buttons) /\ Len(<<p>>) = 1 /\ <<p>>[1] = p
    OBVIOUS
  <2>2. /\ new \in Seq(Buttons) /\ Len(new) = 1 + n
        /\ \A i \in 1 .. 1 + n : new[i] = IF i <= 1 THEN <<p>>[i] ELSE s[i - 1]
    BY <2>1, ConcatProperties
  <2>3. n \in Nat
    BY LenProperties
  <2> QED  BY <2>1, <2>2, <2>3
<1>2. Pressed(new) = Pressed(s) \cup {p}
  <2>1. ASSUME NEW b \in Pressed(s)
        PROVE  b \in Pressed(new)
    <3>1. PICK i \in 1 .. n : s[i] = b
      BY DEF Pressed
    <3>2. i + 1 \in 1 .. Len(new) /\ new[i + 1] = b
      BY <1>1, <3>1
    <3> QED  BY <3>2 DEF Pressed
  <2>2. 1 \in 1 .. Len(new) /\ p \in Pressed(new)
    BY <1>1 DEF Pressed
  <2>3. ASSUME NEW b \in Pressed(new), b # p
        PROVE  b \in Pressed(s)
    <3>1. PICK i \in 1 .. Len(new) : new[i] = b
      BY DEF Pressed
    <3>2. i - 1 \in 1 .. n /\ s[i - 1] = b
      BY <1>1, <2>3, <3>1
    <3> QED  BY <3>2 DEF Pressed
  <2> QED  BY <2>1, <2>2, <2>3
<1>3. Newer(new, p) = {}
  <2>1. 1 \in 1 .. Len(new) /\ \A j \in 1 .. 1 - 1 : new[j] # p
    BY <1>1
  <2>2. First(new, p) = 1
    BY <1>1, <2>1, FirstIs, ZenonT(30)
  <2> QED  BY <2>2 DEF Newer
<1>4. ASSUME NEW b \in Pressed(s) \ {p}
      PROVE  Newer(new, b) = Newer(s, b) \cup {p}
  <2> PICK f : f = First(s, b)
    OBVIOUS
  <2>1. f \in 1 .. n /\ s[f] = b /\ \A j \in 1 .. f - 1 : s[j] # b
    BY FirstExists
  <2> PICK g : g = f + 1
    OBVIOUS
  <2>2. g \in 1 .. Len(new) /\ new[g] = b /\ \A j \in 1 .. g - 1 : new[j] # b
    BY <1>1, <2>1
  <2>3. First(new, b) = g
    <3>1. new \in Seq(Buttons)
      BY <1>1
    <3> HIDE <1>1
    <3> QED  BY <2>2, <3>1, FirstIs
  <2>4. Newer(new, b) = {new[j] : j \in 1 .. f}
    <3>1. First(new, b) - 1 = f
      BY <2>1, <2>3
    <3> QED  BY <3>1, Zenon DEF Newer
  <2>5. Newer(s, b) = {s[j] : j \in 1 .. f - 1}
    BY DEF Newer
  <2>6. \A j \in 1 .. f - 1 : j + 1 \in 1 .. f /\ new[j + 1] = s[j]
    BY <1>1, <2>1
  <2>7. \A j \in 1 .. f : j = 1 \/ (j - 1 \in 1 .. f - 1 /\ new[j] = s[j - 1])
    BY <1>1, <2>1
  <2>8. 1 \in 1 .. f /\ new[1] = p
    BY <1>1, <2>1
  <2>9. ASSUME NEW x \in Newer(new, b)
        PROVE  x \in Newer(s, b) \cup {p}
    <3>1. PICK j \in 1 .. f : x = new[j]
      BY <2>4
    <3> QED  BY <2>5, <2>7, <2>8, <3>1
  <2>10. ASSUME NEW x \in Newer(s, b)
         PROVE  x \in Newer(new, b)
    <3>1. PICK j \in 1 .. f - 1 : x = s[j]
      BY <2>5
    <3> QED  BY <2>4, <2>6, <3>1
  <2>11. p \in Newer(new, b)
    BY <2>4, <2>8
  <2> QED  BY <2>9, <2>10, <2>11
<1> QED  BY <1>1, <1>2, <1>3, <1>4

LEMMA ListedIs ==
  ASSUME NEW list, NEW s, NEW b
  PROVE  Listed(list, s, b) <=>
           LET c == Cardinality(Newer(s, b))
               in == b \in Pressed(s) /\ c < MaxObserved IN
           /\ \A i \in 1 .. Len(list) : list[i] = b <=> in /\ i = c + 1
           /\ in => c + 1 \in 1 .. Len(list)
<1> PICK c, at : c = Cardinality(Newer(s, b)) /\ at = {i \in 1 .. Len(list) : list[i] = b}
  OBVIOUS
<1> DEFINE in == b \in Pressed(s) /\ c < MaxObserved
<1>1. Listed(list, s, b) <=> at = IF in THEN {c + 1} ELSE {}
  BY DEF Listed
<1>2. \A i \in 1 .. Len(list) : list[i] = b <=> i \in at
  OBVIOUS
<1>3. at \subseteq 1 .. Len(list)
  OBVIOUS
<1> HIDE DEF in
<1>4. Listed(list, s, b) <=> /\ \A i \in 1 .. Len(list) : list[i] = b <=> in /\ i = c + 1
                             /\ in => c + 1 \in 1 .. Len(list)
  BY <1>1, <1>2, <1>3
<1> QED  BY <1>4 DEF in

(***************************************************************************)
(* The list after a press tells the last buttons if it did before.         *)
(***************************************************************************)
LEMMA PressListed ==
  ASSUME NEW list \in Seq(Buttons), Once(list), NEW s \in Seq(Buttons),
         \A b \in Buttons : Listed(list, s, b),
         NEW p \in Buttons, NEW b \in Buttons
  PROVE  Listed(Noted(list, p), <<p>> \o s, b)
<1> DEFINE c(x) == Cardinality(Newer(s, x))
<1> PICK l, new, after : l = Noted(list, p) /\ new = <<p>> \o s
                           /\ after = Cardinality(Newer(new, b))
  OBVIOUS
<1>1. MaxObserved \in Nat /\ MaxObserved > 0 /\ Len(list) \in Nat
  BY WsAssumption, LenProperties
<1>2. /\ new \in Seq(Buttons) /\ Pressed(new) = Pressed(s) \cup {p}
      /\ Newer(new, p) = {}
      /\ \A x \in Pressed(s) \ {p} : Newer(new, x) = Newer(s, x) \cup {p}
  BY PressIs, ZenonT(30)
<1>3. \A x \in Buttons :
        /\ \A i \in 1 .. Len(list) : list[i] = x <=>
             x \in Pressed(s) /\ c(x) < MaxObserved /\ i = c(x) + 1
        /\ x \in Pressed(s) /\ c(x) < MaxObserved => c(x) + 1 \in 1 .. Len(list)
  BY ListedIs
<1>4. \A x \in Pressed(s) : c(x) \in Nat
  BY NewerFinite
<1>5. ASSUME b \in Pressed(s), b # p
      PROVE  after = IF p \in Newer(s, b) THEN c(b) ELSE c(b) + 1
  <2>1. after = Cardinality(Newer(s, b) \cup {p})
    BY <1>2, <1>5
  <2>2. IsFiniteSet(Newer(s, b))
    BY <1>5, NewerFinite
  <2> QED  BY <2>1, <2>2, FS_AddElement
<1>6. ASSUME b \in Pressed(s), p \in Pressed(s), b # p
      PROVE  /\ p \in Newer(s, b) => c(p) < c(b)
             /\ p \notin Newer(s, b) => c(b) < c(p)
  BY <1>6, NewerOrder
<1>7. p \in Newer(s, b) /\ b \in Pressed(s) => p \in Pressed(s)
  <2> SUFFICES ASSUME p \in Newer(s, b), b \in Pressed(s)
               PROVE  p \in Pressed(s)
    OBVIOUS
  <2>1. First(s, b) \in 1 .. Len(s) /\ Len(s) \in Nat
    BY FirstExists, LenProperties
  <2>2. PICK j \in 1 .. First(s, b) - 1 : p = s[j]
    BY DEF Newer
  <2>3. j \in 1 .. Len(s)
    BY <2>1, <2>2
  <2> QED  BY <2>2, <2>3 DEF Pressed
<1>8. b = p => after = 0
  BY <1>2, FS_EmptySet
<1> HIDE DEF c
<1> DEFINE in == b \in Pressed(new) /\ after < MaxObserved
           Goal == /\ \A i \in 1 .. Len(l) : l[i] = b <=> in /\ i = after + 1
                   /\ in => after + 1 \in 1 .. Len(l)
<1> SUFFICES Goal
  <2> HIDE DEF in
  <2>1. ASSUME Goal PROVE Listed(l, new, b)
    BY <2>1, ListedIs DEF in
  <2> QED  BY <2>1
<1>9. CASE \A i \in 1 .. Len(list) : list[i] # p
  <2>1. /\ Len(l) = IF Len(list) + 1 < MaxObserved THEN Len(list) + 1 ELSE MaxObserved
        /\ \A i \in 1 .. Len(l) : l[i] = IF i = 1 THEN p ELSE list[i - 1]
    <3>1. /\ Len(Noted(list, p)) =
               IF Len(list) + 1 < MaxObserved THEN Len(list) + 1 ELSE MaxObserved
          /\ \A i \in 1 .. Len(Noted(list, p)) :
               Noted(list, p)[i] = IF i = 1 THEN p ELSE list[i - 1]
      BY <1>9, NotedNew, Zenon
    <3> QED  BY <3>1
  <2>2. p \in Pressed(s) => c(p) >= MaxObserved
    <3> SUFFICES ASSUME p \in Pressed(s), c(p) < MaxObserved
                 PROVE  FALSE
      BY <1>1, <1>4
    <3>1. c(p) + 1 \in 1 .. Len(list) /\ list[c(p) + 1] = p
      BY <1>3
    <3> QED  BY <1>9, <3>1
  <2>3. CASE b = p
    <3>1. 1 \in 1 .. Len(l) /\ l[1] = p /\ \A i \in 1 .. Len(l) : i # 1 => i - 1 \in 1 .. Len(list)
      BY <1>1, <2>1
    <3>2. \A i \in 1 .. Len(l) : l[i] = b <=> i = 1
      BY <1>9, <2>1, <2>3, <3>1
    <3>3. in /\ after + 1 = 1
      BY <1>1, <1>2, <1>8, <2>3
    <3> HIDE DEF in
    <3> QED  BY <3>1, <3>2, <3>3
  <2>4. CASE b # p
    <3>1. \A i \in 1 .. Len(l) : l[i] = b <=> (i # 1 /\ i - 1 \in 1 .. Len(list) /\ list[i - 1] = b)
      BY <1>1, <2>1, <2>4
    <3>2. CASE b \notin Pressed(s)
      <4>1. \A i \in 1 .. Len(list) : list[i] # b
        BY <1>3, <3>2
      <4> QED  BY <1>2, <2>4, <3>1, <3>2, <4>1
    <3>3. CASE b \in Pressed(s) /\ ~(c(b) < MaxObserved)
      <4>1. \A i \in 1 .. Len(list) : list[i] # b
        BY <1>3, <3>3
      <4>2. ~(after < MaxObserved)
        BY <1>1, <1>4, <1>5, <2>4, <3>3
      <4> QED  BY <3>1, <4>1, <4>2
    <3>4. CASE b \in Pressed(s) /\ c(b) < MaxObserved
      <4>1. \A i \in 1 .. Len(list) : list[i] = b <=> i = c(b) + 1
        BY <1>3, <3>4
      <4>2. c(b) \in Nat /\ c(b) + 1 \in 1 .. Len(list)
        BY <1>3, <1>4, <3>4
      <4>3. p \notin Newer(s, b)
        BY <1>1, <1>4, <1>6, <1>7, <2>2, <2>4, <3>4
      <4>4. after = c(b) + 1
        BY <1>5, <2>4, <3>4, <4>3
      <4>5. \A i \in 1 .. Len(l) : l[i] = b <=> i = after + 1
        <5> TAKE i \in 1 .. Len(l)
        <5>1. CASE i = 1
          BY <3>1, <4>2, <4>4, <5>1
        <5>2. CASE i # 1
          <6>1. i - 1 \in 1 .. Len(list)
            BY <1>1, <2>1, <5>2
          <6>2. l[i] = b <=> list[i - 1] = b
            BY <3>1, <5>2, <6>1
          <6>3. list[i - 1] = b <=> i - 1 = c(b) + 1
            BY <4>1, <6>1
          <6> QED  BY <4>2, <4>4, <6>2, <6>3
        <5> QED  BY <5>1, <5>2
      <4>6. after + 1 \in 1 .. Len(l) <=> after < MaxObserved
        BY <1>1, <2>1, <4>2, <4>4
      <4> QED  BY <1>2, <3>4, <4>5, <4>6
    <3> QED  BY <3>2, <3>3, <3>4
  <2> QED  BY <2>3, <2>4
<1>10. ASSUME NEW q \in 1 .. Len(list), list[q] = p
       PROVE  Goal
  <2>1. /\ Len(l) = IF Len(list) < MaxObserved THEN Len(list) ELSE MaxObserved
        /\ \A i \in 1 .. Len(l) :
             l[i] = IF i = 1 THEN p ELSE IF i <= q THEN list[i - 1] ELSE list[i]
    <3>1. /\ Len(Noted(list, p)) = IF Len(list) < MaxObserved THEN Len(list) ELSE MaxObserved
          /\ \A i \in 1 .. Len(Noted(list, p)) : Noted(list, p)[i] =
               IF i = 1 THEN list[q] ELSE IF i <= q THEN list[i - 1] ELSE list[i]
      BY <1>10, NotedAgain, Zenon
    <3> QED  BY <1>10, <3>1
  <2>2. p \in Pressed(s) /\ c(p) < MaxObserved /\ q = c(p) + 1 /\ c(p) \in Nat
    BY <1>3, <1>4, <1>10
  <2>3. \A i \in 1 .. Len(list) : list[i] = p <=> i = q
    BY <1>3, <2>2
  <2>4. CASE b = p
    <3>1. 1 \in 1 .. Len(l) /\ l[1] = p
      BY <1>1, <1>10, <2>1
    <3>2. \A i \in 1 .. Len(l) : i # 1 => l[i] # p
      BY <1>1, <2>1, <2>3, SMTT(30)
    <3>3. \A i \in 1 .. Len(l) : l[i] = b <=> i = 1
      BY <2>4, <3>1, <3>2
    <3>4. in /\ after + 1 = 1
      BY <1>1, <1>2, <1>8, <2>4
    <3> HIDE DEF in
    <3> QED  BY <3>1, <3>3, <3>4
  <2>5. CASE b # p
    <3>1. \A i \in 1 .. Len(l) :
            l[i] = b <=> \/ i # 1 /\ i <= q /\ i - 1 \in 1 .. Len(list) /\ list[i - 1] = b
                         \/ i > q /\ i \in 1 .. Len(list) /\ list[i] = b
      BY <1>1, <1>10, <2>1, <2>5
    <3>2. CASE b \notin Pressed(s) \/ ~(c(b) < MaxObserved)
      <4>1. \A i \in 1 .. Len(list) : list[i] # b
        BY <1>3, <3>2
      <4>2. b \in Pressed(new) => ~(after < MaxObserved)
        BY <1>1, <1>2, <1>4, <1>5, <2>5, <3>2
      <4> QED  BY <3>1, <4>1, <4>2
    <3>3. CASE b \in Pressed(s) /\ c(b) < MaxObserved
      <4>1. \A i \in 1 .. Len(list) : list[i] = b <=> i = c(b) + 1
        BY <1>3, <3>3
      <4>2. c(b) \in Nat /\ c(b) + 1 \in 1 .. Len(list)
        BY <1>3, <1>4, <3>3
      <4>3. CASE p \in Newer(s, b)
        <5>1. after = c(b) /\ c(p) < c(b)
          BY <1>5, <1>6, <2>2, <2>5, <3>3, <4>3
        <5>2. \A i \in 1 .. Len(l) : l[i] = b <=> i = after + 1
          <6> TAKE i \in 1 .. Len(l)
          <6>1. i - 1 \in 1 .. Len(list) => (list[i - 1] = b <=> i - 1 = c(b) + 1)
            BY <4>1
          <6>2. i \in 1 .. Len(list) => (list[i] = b <=> i = c(b) + 1)
            BY <4>1
          <6> QED  BY <1>1, <2>2, <3>1, <4>2, <5>1, <6>1, <6>2
        <5>3. after + 1 \in 1 .. Len(l) /\ after < MaxObserved
          BY <1>1, <2>1, <3>3, <4>2, <5>1
        <5> QED  BY <1>2, <3>3, <5>2, <5>3
      <4>4. CASE p \notin Newer(s, b)
        <5>1. after = c(b) + 1 /\ c(b) < c(p)
          BY <1>5, <1>6, <2>2, <2>5, <3>3, <4>4
        <5>2. \A i \in 1 .. Len(l) : l[i] = b <=> i = after + 1
          <6> TAKE i \in 1 .. Len(l)
          <6>1. i - 1 \in 1 .. Len(list) => (list[i - 1] = b <=> i - 1 = c(b) + 1)
            BY <4>1
          <6>2. i \in 1 .. Len(list) => (list[i] = b <=> i = c(b) + 1)
            BY <4>1
          <6> QED  BY <1>1, <2>2, <3>1, <4>2, <5>1, <6>1, <6>2, SMTT(30)
        <5>3. after + 1 \in 1 .. Len(l) /\ after < MaxObserved
          BY <1>1, <1>10, <2>1, <2>2, <3>3, <4>2, <5>1
        <5> QED  BY <1>2, <3>3, <5>2, <5>3
      <4> QED  BY <4>3, <4>4
    <3> QED  BY <3>2, <3>3
  <2> QED  BY <2>4, <2>5
<1> QED  BY <1>9, <1>10

LEMMA ObservedStep ==
  ASSUME Typed, ObservedLatest, [Next]_vars
  PROVE  ObservedLatest'
<1>0. /\ observed \in Seq(Buttons) /\ presses \in Seq(Buttons) /\ Once(observed)
      /\ \A b \in Buttons : Listed(observed, presses, b)
  BY ObservedIs DEF Typed, TypeOK
<1> SUFFICES \A b \in Buttons : Listed(observed', presses', b)
  BY Zenon DEF ObservedLatest, Listed, Pressed, Newer, First
<1>1. CASE UNCHANGED <<observed, presses>>
  BY <1>0, <1>1
<1>2. ASSUME NEW p \in Buttons, NotifyObservedButton(p)
      PROVE  \A b \in Buttons : Listed(observed', presses', b)
  <2>1. observed' = Noted(observed, p) /\ presses' = <<p>> \o presses
    BY <1>2 DEF NotifyObservedButton, Noted
  <2> QED  BY <1>0, <2>1, PressListed
<1>3. CASE Restart \/ ResetTable
  <2>1. observed' = <<>> /\ presses' = <<>>
    BY <1>3 DEF Restart, ResetTable
  <2>2. Len(<<>>) = 0 /\ Pressed(<<>>) = {}
    BY DEF Pressed
  <2> QED  BY <2>1, <2>2, ListedIs
<1>4. CASE WebChanges
  <2>1. UNCHANGED <<observed, presses>>
    BY <1>4 DEF WebChanges, PostCommand, PutCommands, PutCommandsFails, DeleteCommand,
       SetOrDeleteButtonName, SetSetting, SetOneShot, RegisterOrUnregisterGpioButtons, Change
  <2> QED  BY <1>1, <2>1
<1>5. CASE HandleClearAllData \/ BeginReset \/ BeginPress \/ BeginFetched \/ EndFetched
  <2>1. UNCHANGED <<observed, presses>>
    BY <1>5 DEF HandleClearAllData, BeginReset, BeginPress, BeginFetched, EndFetched, history
  <2> QED  BY <1>1, <2>1
<1>6. CASE (\E k \in Tasks : Snapshot(k) \/ Enqueue(k)) \/ \E full \in SUBSET clients : Flush(full)
  <2>1. UNCHANGED <<observed, presses>>
    BY <1>6 DEF Snapshot, Enqueue, Flush, data, history
  <2> QED  BY <1>1, <2>1
<1>7. CASE (\E b \in Browsers : Connect(b) \/ Disconnect(b))
             \/ \E refetch \in BOOLEAN : SendToClient(refetch)
  <2>1. UNCHANGED <<observed, presses>>
    BY <1>7 DEF Connect, Disconnect, SendToClient, data
  <2> QED  BY <1>1, <2>1
<1>8. CASE UNCHANGED vars
  BY <1>1, <1>8 DEF vars, data, history
<1> QED  BY <1>2, <1>3, <1>4, <1>5, <1>6, <1>7, <1>8 DEF Next, WebChanges

(***************************************************************************)
(* The buttons offered to configure are the last MaxObserved different     *)
(* ones pressed since boot or since all data was cleared, the newest       *)
(* first, each once: whatever was pressed, and whatever the length of the  *)
(* list.                                                                   *)
(***************************************************************************)
THEOREM ObservedAreTheLatest == Spec => []ObservedLatest
<1>1. ASSUME Init PROVE ObservedLatest
  <2>1. observed = <<>> /\ presses = <<>> /\ Len(<<>>) = 0 /\ Pressed(<<>>) = {}
    BY <1>1 DEF Init, Pressed
  <2>2. \A b \in Buttons : Listed(observed, presses, b)
    BY <2>1, ListedIs
  <2> QED  BY <2>2, ObservedIs
<1>2. Typed /\ ObservedLatest /\ [Next]_vars => Typed' /\ ObservedLatest'
  BY TypedStep, ObservedStep
<1>3. Init => Typed
  BY TypedInit
<1> QED  BY <1>1, <1>2, <1>3, PTL DEF Spec
=============================================================================
