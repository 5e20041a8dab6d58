----------------------------- MODULE MCGameLoop -----------------------------
(***************************************************************************)
(* GameLoop on a screen of 2 x 4 cells, which the menu fills; the map      *)
(* leaves its last row and one cell free.                                  *)
(***************************************************************************)
EXTENDS GameLoop

MCGameMap == << <<"wall", "wall">>, <<"wall", " ">>, <<"wall">> >>
MCPlaces == { [x |-> 1, y |-> 1] }
=============================================================================
