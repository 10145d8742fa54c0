--------------------------- MODULE MCRequestWaiters ---------------------------
(* Constants for model checking RequestWaiters.                            *)
EXTENDS RequestWaiters, TLC

CONSTANTS c1, c2, c3

\* A query, a message and a keepalive; with MaxRequests = 2, every pair of them.
AllKinds == c1 :> "iq" @@ c2 :> "msg" @@ c3 :> "ping"
OneMessage == c1 :> "msg"
=============================================================================
