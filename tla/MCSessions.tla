----------------------------- MODULE MCSessions -----------------------------
(* Small instances of WebSessions for TLC. *)
EXTENDS WebSessions

CONSTANTS t1, t2
=============================================================================
