---------------------------- MODULE MCEventStream ----------------------------
(* Limits in the order of those of pane.rs, MaxEmit < MaxHistory <           *)
(* MaxPending, and chunks below and above MaxEmit.                           *)
EXTENDS EventStream

MCChunks == {1, 4}
===============================================================================
