----------------------------- MODULE MCClientView -----------------------------
(* Clients attach by number, to things that exist and to ones that do not.   *)
EXTENDS ClientView

MCTexts == {<<"", n>> : n \in 0 .. 2}
===============================================================================
