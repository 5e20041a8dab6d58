------------------------------ MODULE MCAStar ------------------------------
(***************************************************************************)
(* AStar on every map of 3 x 3 cells with up to MaxWalls walls, to every   *)
(* cell and the first ones beyond the map.  The maps are closed under the  *)
(* symmetries of the square and the search has no preferred direction, so  *)
(* that one corner, one side, the centre and one start off the map stand   *)
(* for all starts; another one has the key of a cell of the map.           *)
(***************************************************************************)
EXTENDS AStar

CONSTANT MaxWalls

XY(x, y) == [x |-> x, y |-> y]

MCMaps == { w \in SUBSET Cell : Cardinality(w) <= MaxWalls }
MCStarts == { XY(0, 0), XY(1, 0), XY(1, 1), XY(-1, 0), XY(-1, -1) }

\* No two cells of a map as large as the screen have one key.
ASSUME KeysDiffer ==
    LET screen == [x : 0..79, y : 0..29]
    IN  Cardinality({ Hash(position) : position \in screen }) = 80 * 30
MCEnds == Cell \cup { XY(Width, 0), XY(0, Height + 1) }
=============================================================================
