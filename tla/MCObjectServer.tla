--------------------------- MODULE MCObjectServer ---------------------------
(* ObjectServer for TLC: two requests and one container server.            *)
EXTENDS ObjectServer
=============================================================================
