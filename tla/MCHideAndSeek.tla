--------------------------- MODULE MCHideAndSeek ---------------------------
(***************************************************************************)
(* HideAndSeek on a map of two cells.  Players appear on the left one and  *)
(* all clicks are beyond the map, so that FindPath has no answer: module   *)
(* GameLevel is checked with paths of its own.                             *)
(***************************************************************************)
EXTENDS HideAndSeek

MCWalls == {}
MCEmptyCells == { [x |-> 0, y |-> 0] }
MCClicks == { [x |-> 2, y |-> 0] }
MCFindPathAnswers(start, end) == { <<>> }

Symmetry == Permutations(Clients) \cup Permutations(Sockets)
=============================================================================
