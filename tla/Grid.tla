-------------------------------- MODULE Grid --------------------------------
(***************************************************************************)
(* The map of the level and the geometry of moving on it: what Vector2,    *)
(* GameLevel::LoadMap and the cost function of AStar define.               *)
(*                                                                         *)
(* A position is a record [x, y].  Nothing in the code keeps a position on *)
(* the map (an arrow key moves a player wherever it points), so positions  *)
(* extend Margin cells beyond it; Margin is a bound of the models, not of  *)
(* the code.                                                               *)
(***************************************************************************)
EXTENDS Integers, Sequences

CONSTANTS
    Width, Height,  \* mapWidth and mapHeight
    Walls,          \* the cells whose character is '1'
    Margin          \* how far from the map the models follow a player

Position == [x : (0 - Margin)..(Width - 1 + Margin),
             y : (0 - Margin)..(Height - 1 + Margin)]

Cell == [x : 0..(Width - 1), y : 0..(Height - 1)]

\* The cells FindPath may enter: on the map and not '1'.
Floor == Cell \ Walls

ASSUME GridAssumption ==
    /\ Width \in Nat \ {0}
    /\ Height \in Nat \ {0}
    /\ Margin \in Nat
    /\ Walls \subseteq Cell

-----------------------------------------------------------------------------

Abs(n) == IF n < 0 THEN 0 - n ELSE n

\* AStar::Heuristic, which is also the price of one step: a diagonal step
\* costs 2, as much as the two straight steps it replaces.
Heuristic(a, b) == Abs(a.x - b.x) + Abs(a.y - b.y)

\* One of the 8 neighbours of a cell.
Adjacent(a, b) == /\ a # b
                  /\ a.x - b.x \in -1..1
                  /\ a.y - b.y \in -1..1

\* What the callers of FindPath rely on: the answer is a walk over the floor,
\* one neighbour at a time, that leaves start and stops at end; it does not
\* contain start, and it is empty when there is no such walk.
IsRoute(start, end, route) ==
    /\ route \in Seq(Floor)
    /\ \A i \in 1..(Len(route) - 1) : Adjacent(route[i], route[i + 1])
    /\ route # <<>> => /\ Adjacent(start, route[1])
                       /\ route[Len(route)] = end

-----------------------------------------------------------------------------
(***************************************************************************)
(* A reference for the algorithm: all the cheapest routes from start, cost *)
(* by cost and without a heuristic.  Member c + 1 of CheapestByCost[c] are *)
(* the routes of cost c to the cells that no cheaper route reaches; Dearer *)
(* has them from those of lower costs.                                     *)
(***************************************************************************)

EndOf(start, route) == IF route = <<>> THEN start ELSE route[Len(route)]

Dearer(start, before, c) ==
    LET taken == { EndOf(start, r) : r \in UNION { before[d] : d \in 1..c } }
        after(price) ==
          IF c < price THEN {}
          ELSE UNION { { Append(r, cell) : cell \in
                           { n \in Floor \ taken :
                               /\ Adjacent(EndOf(start, r), n)
                               /\ Heuristic(EndOf(start, r), n) = price } }
                       : r \in before[c - price + 1] }
    IN  after(1) \cup after(2)

CheapestByCost(start, max) ==
    LET byCost[c \in 0..max] ==
          IF c = 0 THEN << { <<>> } >>
          ELSE LET before == byCost[c - 1]
               IN  Append(before, Dearer(start, before, c))
    IN  byCost[max]

\* The cheapest routes from start to end no dearer than max; only the empty
\* one if there is none, or if start is end.
CheapestRoutes(start, end, max) ==
    LET byCost == CheapestByCost(start, max)
        found  == { r \in UNION { byCost[c] : c \in 1..(max + 1) } : EndOf(start, r) = end }
    IN  IF found = {} THEN { <<>> } ELSE found
=============================================================================
