---------------------------- MODULE RequestBody ----------------------------
(***************************************************************************)
(* How the web server puts the body of a request together                  *)
(* (RegisterWriteEntry of server.cpp).  The library calls a handler for    *)
(* each piece that arrives, with its offset; the pieces of one request     *)
(* come in order, those of two requests in any order between them.  All    *)
(* the entries that write share one static String.                         *)
(***************************************************************************)
EXTENDS Naturals, Sequences

CONSTANTS
  Uploads,
  Pieces     \* how many pieces the body of each request comes in

PiecesAssumption == Pieces \in [Uploads -> Nat \ {0}]

VARIABLES
  buffer,   \* the static String
  arrived,  \* pieces of each request that have arrived
  bodies,   \* the bodies that handlers were called with
  crossed   \* history: a piece of another request came between two of this one

vars == <<buffer, arrived, bodies, crossed>>

Init ==
  /\ buffer = <<>> /\ arrived = [r \in Uploads |-> 0]
  /\ bodies = [r \in Uploads |-> <<>>] /\ crossed = {}

Body(r) == [i \in 1 .. Pieces[r] |-> <<r, i>>]

\* Mutant of Collected: what an earlier request left is not thrown away.
CollectedOnTop(r) == Append(buffer, <<r, arrived[r] + 1>>)

\* "if (index == 0) buffer = ... else buffer += ..."
Collected(r) ==
  Append(IF arrived[r] = 0 THEN <<>> ELSE buffer, <<r, arrived[r] + 1>>)

Open(r) == arrived[r] \in 1 .. Pieces[r] - 1

OnBody(r) ==
  /\ arrived[r] < Pieces[r]
  /\ buffer' = Collected(r)
  /\ arrived' = [arrived EXCEPT ![r] = @ + 1]
  /\ bodies' = IF arrived[r] + 1 = Pieces[r]
               THEN [bodies EXCEPT ![r] = Collected(r)] ELSE bodies
  /\ crossed' = crossed \cup {q \in Uploads \ {r} : Open(q)}

\* The connection is lost: the rest of the body never comes.
Abandon(r) ==
  /\ Open(r)
  /\ arrived' = [arrived EXCEPT ![r] = Pieces[r]]
  /\ UNCHANGED <<buffer, bodies, crossed>>

\* The browser sends a request of this kind again.
Again(r) ==
  /\ arrived[r] = Pieces[r]
  /\ arrived' = [arrived EXCEPT ![r] = 0]
  /\ bodies' = [bodies EXCEPT ![r] = <<>>]
  /\ crossed' = crossed \ {r}
  /\ UNCHANGED buffer

Next == \E r \in Uploads : OnBody(r) \/ Abandon(r) \/ Again(r)

Spec == Init /\ [][Next]_vars

-----------------------------------------------------------------------------
(* Properties *)

\* A handler gets its own request's whole body and nothing else, whatever was
\* left by requests that were cut off, unless a piece of another request came
\* in between two of its pieces.
OwnBody == \A r \in Uploads \ crossed : bodies[r] \in {<<>>, Body(r)}
=============================================================================
