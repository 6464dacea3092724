------------------------------- MODULE MCTargets -------------------------------
(* A name that is a number and one that is not.                              *)
EXTENDS Targets

MCNames == {<<"", 2>>, <<"a", 0>>}
===============================================================================
