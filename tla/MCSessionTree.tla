---------------------------- MODULE MCSessionTree ----------------------------
(* One chosen name, which is also the default name of a second window.      *)
(* Resizes are left to MCWindowSizes and MCSessionManager.                  *)
EXTENDS SessionTree

MCNames == {<<"window", 1>>}
===============================================================================
