--------------------------- MODULE MCLoginService ---------------------------
(***************************************************************************)
(* A small instance of LoginService: each of the three systems, waits of   *)
(* one to three ticks, a tunnel that is stable after one.                  *)
(***************************************************************************)
EXTENDS LoginService

AllSystems == {"darwin", "linux", "windows"}
=============================================================================
