----------------------------- MODULE OutputLedger -----------------------------
(***************************************************************************)
(* What the buffer of a pane promises to those who follow its output.  The *)
(* shell's output is a stream of bytes, counted from 0.  It is made into a *)
(* log of events: event e brings the bytes e.from .. e.to - 1, after       *)
(* saying that the e.lost bytes before them are lost.  Nothing is in two   *)
(* events, out of order, or left out silently, and everything is in an     *)
(* event or reported lost in the end, unless the daemon dies.              *)
(***************************************************************************)
EXTENDS Integers, Sequences

CONSTANT MaxWritten      \* bound: bytes the shell writes

VARIABLES written, log, alive

vars == <<written, log, alive>>

Settled == IF log = <<>> THEN 0 ELSE log[Len(log)].to

Init == written = 0 /\ log = <<>> /\ alive = TRUE

Write ==
  /\ written' \in written + 1 .. MaxWritten
  /\ UNCHANGED <<log, alive>>

Deliver ==
  /\ alive
  /\ \E from \in Settled .. written : \E to \in from .. written :
       /\ to > Settled
       /\ log' = Append(log, [lost |-> from - Settled, from |-> from, to |-> to])
  /\ UNCHANGED <<written, alive>>

Die == alive /\ alive' = FALSE /\ UNCHANGED <<written, log>>

Next == Write \/ Deliver \/ Die

Spec == Init /\ [][Next]_vars /\ WF_vars(Deliver)
===============================================================================
