----------------------------- MODULE LocalWindow -----------------------------
(***************************************************************************)
(* One receive window of nghttp2, of the connection or of a stream, while  *)
(* data come in and the application makes the window larger and smaller.   *)
(* A peer cannot be told of a smaller window: what it was promised it may  *)
(* send, and the reduction is taken out of what would be given back.  The  *)
(* peer is external; it sends no more than it may.                         *)
(***************************************************************************)
EXTENDS Integers, Sequences, Sums

CONSTANTS
  Initial,    \* NGHTTP2_INITIAL_WINDOW_SIZE
  MaxWindow,  \* NGHTTP2_MAX_WINDOW_SIZE, and INT32_MAX
  MaxUpdates  \* how many WINDOW_UPDATE frames may wait to be sent

WindowAssumption ==
  {Initial, MaxWindow, MaxUpdates} \subseteq Nat \ {0} /\ Initial <= MaxWindow

VARIABLES
  auto,       \* FALSE under NGHTTP2_OPT_NO_AUTO_WINDOW_UPDATE
  w,          \* [local, recvd, reduction, consumed, queued]
  updates,    \* the increments of the WINDOW_UPDATE frames that wait
  peer,       \* how much the peer may send
  unread,     \* data that the application has not consumed
  failed      \* the peer was told of a FLOW_CONTROL_ERROR

windowVars == <<auto, w, updates, peer, unread, failed>>

Least(a, b) == IF a < b THEN a ELSE b
Greatest(a, b) == IF a < b THEN b ELSE a

-----------------------------------------------------------------------------
(* nghttp2_helper.c: a window and what is left of a change to be sent.     *)

Refused(v) == [ok |-> FALSE, w |-> v, delta |-> 0]

\* The bytes of a reduction that an increase of delta gives back.
Repaid(v, delta) == Least(v.reduction, delta)

\* nghttp2_adjust_local_window_size with a positive delta.
Enlarge(v, delta) ==
  LET rest == Greatest(0, v.recvd) - delta
      more == -rest
      repaid == Repaid(v, more)
  IN  IF rest >= 0 THEN [ok |-> TRUE, w |-> [v EXCEPT !.recvd = rest], delta |-> delta]
      ELSE IF v.local > MaxWindow - more THEN Refused(v)
      ELSE [ok |-> TRUE, delta |-> delta - repaid,
            w |-> [v EXCEPT !.local = @ + more, !.reduction = @ - repaid,
                            !.recvd = IF @ < 0 THEN @ + repaid ELSE repaid]]

\* The same with a negative delta.
Reduce(v, delta) ==
  IF v.local + delta < 0 \/ v.recvd < -MaxWindow - 1 - delta \/ v.reduction > MaxWindow + delta
  THEN Refused(v)
  ELSE [ok |-> TRUE, delta |-> 0,
        w |-> [v EXCEPT !.local = @ + delta, !.recvd = @ + delta, !.reduction = @ - delta]]

Adjust(v, delta) == IF delta > 0 THEN Enlarge(v, delta) ELSE Reduce(v, delta)

\* Mutant of Increase: the reduction is forgotten and the whole increase is sent.
IncreaseWhole(v, delta) ==
  IF v.local > MaxWindow - delta THEN Refused(v)
  ELSE [ok |-> TRUE, delta |-> delta, w |-> [v EXCEPT !.local = @ + delta]]

\* nghttp2_increase_local_window_size
Increase(v, delta) ==
  LET repaid == Repaid(v, delta)
  IN  IF v.local > MaxWindow - delta THEN Refused(v)
      ELSE [ok |-> TRUE, delta |-> delta - repaid,
            w |-> [v EXCEPT !.local = @ + delta, !.reduction = @ - repaid, !.recvd = @ + repaid]]

\* nghttp2_should_send_window_update
Due(local, recvd) == recvd > 0 /\ recvd >= local \div 2

-----------------------------------------------------------------------------
(* nghttp2_session.c: each gives the window and the frames to be added.    *)

AddUpdate(v, n) == [w |-> [v EXCEPT !.queued = TRUE], frames |-> <<n>>]

\* nghttp2_session_update_recv_connection_window_size, after adjust_recv_window_size.
UpdateRecvd(v) ==
  IF auto /\ ~v.queued /\ Due(v.local, v.recvd)
  THEN AddUpdate([v EXCEPT !.recvd = 0], v.recvd) ELSE [w |-> v, frames |-> <<>>]

\* session_update_consumed_size
UpdateConsumed(v) ==
  LET n == Least(v.consumed, v.recvd)
  IN  IF ~v.queued /\ Due(v.local, n)
      THEN AddUpdate([v EXCEPT !.recvd = @ - n, !.consumed = @ - n], n)
      ELSE [w |-> v, frames |-> <<>>]

Becomes(result) == w' = result.w /\ updates' = updates \o result.frames

-----------------------------------------------------------------------------
Init ==
  /\ auto \in BOOLEAN
  /\ w = [local |-> Initial, recvd |-> 0, reduction |-> 0, consumed |-> 0, queued |-> FALSE]
  /\ updates = <<>> /\ peer = Initial /\ unread = 0 /\ failed = FALSE

\* DATA of n bytes: NGHTTP2_IB_READ_DATA.  No more than MaxWindow is left unread: a bound.
Receive(n) ==
  /\ ~failed /\ n <= peer /\ unread + n <= MaxWindow
  /\ peer' = peer - n
  /\ unread' = IF auto THEN 0 ELSE unread + n
  /\ IF w.recvd > w.local - n \/ w.recvd > MaxWindow - n
     THEN failed' = TRUE /\ UNCHANGED <<w, updates>>
     ELSE Becomes(UpdateRecvd([w EXCEPT !.recvd = @ + n])) /\ UNCHANGED failed
  /\ UNCHANGED auto

\* nghttp2_session_consume
Consume(n) ==
  /\ ~auto /\ ~failed /\ n <= unread
  /\ unread' = unread - n
  /\ IF w.consumed > MaxWindow - n THEN failed' = TRUE /\ UNCHANGED <<w, updates>>
     ELSE Becomes(UpdateConsumed([w EXCEPT !.consumed = @ + n])) /\ UNCHANGED failed
  /\ UNCHANGED <<auto, peer>>

\* nghttp2_submit_window_update
SubmitWindowUpdate(increment) ==
  /\ ~failed /\ Len(updates) < MaxUpdates
  /\ LET adjusted == Adjust(w, increment)
         v == adjusted.w
     IN  IF adjusted.delta > 0
         THEN Becomes(AddUpdate([v EXCEPT !.consumed = Greatest(0, @ - adjusted.delta)],
                                adjusted.delta))
         ELSE w' = v /\ UNCHANGED updates
  /\ UNCHANGED <<auto, peer, unread, failed>>

\* nghttp2_session_set_local_window_size
SetLocalWindowSize(size) ==
  /\ ~failed /\ Len(updates) < MaxUpdates /\ size # w.local
  /\ LET changed == IF size < w.local THEN Reduce(w, size - w.local)
                    ELSE Increase(w, size - w.local)
     IN  IF changed.delta > 0 THEN Becomes(AddUpdate(changed.w, changed.delta))
         ELSE IF size > w.local /\ changed.ok THEN Becomes(UpdateRecvd(changed.w))
         ELSE w' = changed.w /\ UNCHANGED updates
  /\ UNCHANGED <<auto, peer, unread, failed>>

\* A WINDOW_UPDATE frame is sent, session_after_frame_sent1 follows, and the peer gets it.
SendUpdate ==
  /\ ~failed /\ updates # <<>>
  /\ LET v == [w EXCEPT !.queued = FALSE]
         next == IF auto THEN UpdateRecvd(v) ELSE UpdateConsumed(v)
     IN  w' = next.w /\ updates' = Tail(updates) \o next.frames
  /\ peer' = peer + Head(updates)
  /\ UNCHANGED <<auto, unread, failed>>

Next ==
  \/ \E n \in 1 .. MaxWindow : Receive(n) \/ Consume(n)
  \/ \E n \in (-MaxWindow .. MaxWindow) \ {0} : SubmitWindowUpdate(n)
  \/ \E size \in 0 .. MaxWindow : SetLocalWindowSize(size)
  \/ SendUpdate

Spec == Init /\ [][Next]_windowVars

-----------------------------------------------------------------------------
Promised == peer + Total(updates)

(***************************************************************************)
(* However the window was changed, the peer may send exactly what the      *)
(* session counts on: a peer that keeps to its window is not accused       *)
(* (unless the application's own updates and what it consumes add up to    *)
(* more than the greatest window), its window cannot grow past the         *)
(* greatest, and no more is kept back than a smaller window took away      *)
(* (nghttp2_submit_window_update, nghttp2_session_set_local_window_size,   *)
(* session_update_consumed_size).                                          *)
(***************************************************************************)
WindowsAgree ==
  /\ auto => ~failed
  /\ ~failed => Promised = w.local - w.recvd /\ Promised <= MaxWindow
  /\ w.recvd >= -w.reduction /\ w.reduction >= 0
=============================================================================
