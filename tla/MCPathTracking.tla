--------------------------- MODULE MCPathTracking ---------------------------
(***************************************************************************)
(* Three players on a map of 4 x 1 cells with one wall, which the arrow    *)
(* keys take players into:                                                 *)
(*                                                                         *)
(*      . . . #                                                            *)
(*                                                                         *)
(* Clicks are made at the cell beside the wall.  The path from the first   *)
(* cell has two steps, so that to take both at once is a jump; players are *)
(* created there and at the cell clicked, from where FindPath answers with *)
(* no path.                                                                *)
(***************************************************************************)
EXTENDS PathTracking

XY(x, y) == [x |-> x, y |-> y]

MCWalls == { XY(3, 0) }
MCEmptyCells == { XY(0, 0), XY(2, 0) }
MCClicks == { XY(2, 0) }

\* The cheapest routes, computed once.
Answers == [start \in Position, end \in MCClicks |-> CheapestRoutes(start, end, 6)]
MCFindPathAnswers(start, end) == Answers[start, end]
=============================================================================
