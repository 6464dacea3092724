--------------------------- MODULE MCSessionManager ---------------------------
(* A chosen name that is a number beside the generated ones; a resize that   *)
(* gives way and one that changes nothing.                                   *)
EXTENDS SessionManager, Targets

MCNames == {<<"", 2>>}
MCDeltas == {-100, 0}
===============================================================================
