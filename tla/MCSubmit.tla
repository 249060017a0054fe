------------------------------ MODULE MCSubmit ------------------------------
(* Two workers serve two requests, so every call has a thread of its own.  *)
EXTENDS Submit
=============================================================================
