--------------------------- MODULE MCHttp2Session ---------------------------
(* One request and a promise, windows of one unit, and a server whose      *)
(* SETTINGS close or widen them and forbid or allow the request.           *)
EXTENDS Http2Session

SmallSettings == {[limit |-> 1, initial |-> 0], [limit |-> 0, initial |-> 2]}
=============================================================================
