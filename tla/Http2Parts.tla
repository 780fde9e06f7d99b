----------------------------- MODULE Http2Parts ------------------------------
(***************************************************************************)
(* Four parts of the vendored nghttp2 beside its session, side by side:    *)
(* the compression of headers (Hpack), the rules of HTTP for a stream      *)
(* (HttpMessages), one receive window (LocalWindow) and the queue that     *)
(* streams wait in (BinaryHeap).  Their constants and variables are those  *)
(* of this module.                                                         *)
(***************************************************************************)
EXTENDS Integers, Sequences

CONSTANTS
  StaticTable, HeaderNames, HeaderValues, NeverNames, PlainNames, Bucket, EntryRoom,
  DefaultSize, NoSize, HeaderLists, SizeLists, MaxBlocks, MaxSettings,
  Fields, MaxFields, MaxData, NaN,
  StartWindow, TopWindow, MaxUpdates, \* Initial and MaxWindow of LocalWindow
  Entries, Ranks,
  Keys, InitialBits, HashBits, NoKey

VARIABLES
  deflater, inflater, wire, settings, unacked, expected, wrong, blocks, changes,
  stream, message,
  auto, w, updates, peer, unread, failed,
  rank, heap, held,
  hash, bits, buckets, entries, stored   \* table and size of StreamMap

H == INSTANCE Hpack
G == INSTANCE HttpMessages
L == INSTANCE LocalWindow WITH Initial <- StartWindow, MaxWindow <- TopWindow
Q == INSTANCE BinaryHeap
M == INSTANCE StreamMap WITH table <- buckets, size <- entries

ASSUME HpackAssumed == H!HpackAssumption
ASSUME MessagesAssumed == G!MessagesAssumption
ASSUME WindowAssumed == L!WindowAssumption
ASSUME HeapAssumed == Q!HeapAssumption
ASSUME MapAssumed == M!MapAssumption

-----------------------------------------------------------------------------
\* A key is found exactly when it is stored (map.c), and the top of the queue is a least
\* entry, at the place its index says (pq.c): what session.c takes for granted when it
\* looks a stream up and when it serves the next one.
ContainersExact == M!FindsStored /\ Q!HeapInOrder

\* However the size of the table changes while blocks are under way, the headers come out
\* as they went in, and when everything has arrived the tables agree (nghttp2_hd.c).
HeadersArrive == H!HeadersArrive

\* A stream is reset exactly when what has come cannot be a message of HTTP any more, and
\* its end is told when the message is complete (nghttp2_http.c).
MessagesValid == G!MessagesValid

\* The peer may send what the session counts on, however the application changes the
\* window: a peer that keeps to its window is not accused (nghttp2_helper.c,
\* nghttp2_session.c, nghttp2_submit.c).
WindowsAgree == L!WindowsAgree
=============================================================================
