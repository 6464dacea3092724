---------------------------- MODULE MCWindowSizes ----------------------------
(* From one pane, and from windows whose equal shares are at or below the   *)
(* minimum size; resize deltas at the ends of the i16 range, in the middle  *)
(* and around 0.                                                            *)
EXTENDS WindowSizes

MCStarts == {<<1, 6>>, <<9, 3>>, <<11, 2>>}
MCDeltas == {-32768, -3, 0, 7, 32767}
===============================================================================
