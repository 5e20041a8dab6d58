--------------------------- MODULE MCClientLevel ---------------------------
(***************************************************************************)
(* Four states, one of them after the last player has left, and three      *)
(* paths.                                                                  *)
(***************************************************************************)
EXTENDS ClientLevel

MCPlayersIn == <<2, 0, 1, 2>>
=============================================================================
