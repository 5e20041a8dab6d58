------------------------------- MODULE AStar -------------------------------
(***************************************************************************)
(* AStar::FindPath, one node taken from the open list a step.              *)
(*                                                                         *)
(* A node is not written after it was pushed, so the chain of its parents  *)
(* is the route that leads to it: the record keeps that route, and the     *)
(* cost g the code computed.  Nodes of equal total cost leave the priority *)
(* queue in the order its heap happens to have: in any order, here.        *)
(***************************************************************************)
EXTENDS Integers, Sequences, FiniteSets

CONSTANTS
    Width, Height, Margin,  \* as in Grid
    Maps,       \* the maps to search: sets of walls
    Starts,     \* where players stand, off the map and in walls too
    Ends,       \* where clients click, beyond the map too
    MaxCost     \* bound: the cost up to which the reference looks for routes

VARIABLES
    walls,      \* mapData, which a call only reads
    start, end, \* the arguments
    openList,   \* the nodes in the priority queue
    allNodes,   \* the nodes allNodes points to, one for a key
    allocated,  \* the nodes allocated and not deleted
    pc,         \* "call", "search" or "done"
    path        \* the result

vars == <<walls, start, end, openList, allNodes, allocated, pc, path>>

INSTANCE Grid WITH Walls <- walls

ASSUME AStarAssumption ==
    /\ Width \in Nat \ {0} /\ Height \in Nat \ {0} /\ Margin \in Nat
    /\ Maps \subseteq SUBSET Cell
    /\ Starts \subseteq Position
    /\ Ends \subseteq [x : Int, y : Int]

\* No cheapest route costs more: it enters a cell once at most, for 2 at most.
ASSUME MaxCostAssumption == MaxCost \in Nat /\ MaxCost >= 2 * (Width * Height + 1)

At(node) == EndOf(start, node.route)

-----------------------------------------------------------------------------
(***************************************************************************)
(* The keys of allNodes.  An int has 32 bits, kept as two halves of 16.    *)
(***************************************************************************)

Half == 2^16

\* The product with (high * Half + low), without what is beyond 32 bits.
Times(n, high, low) ==
    [high |-> (n * high + (n * low) \div Half) % Half, low |-> (n * low) % Half]

\* Exclusive or, bit by bit.
Xor(a, b) ==
    LET lowest[n \in 0..16] ==
          IF n = 0 THEN 0
          ELSE lowest[n - 1] + 2^(n - 1) * ((a \div 2^(n - 1) + b \div 2^(n - 1)) % 2)
    IN  lowest[16]

XorHalves(a, b) == [high |-> Xor(a.high, b.high), low |-> Xor(a.low, b.low)]

\* x * 73856093 ^ y * 19349663
Hash(position) ==
    XorHalves(Times(position.x, 1126, 62557), Times(position.y, 295, 16543))

\* The positions the search can meet and the pairs of them with one key.  (As
\* images and unions, which TLC computes once.)
Place == { [x |-> x, y |-> y] : x \in (0 - Margin)..(Width - 1 + Margin),
                                y \in (0 - Margin)..(Height - 1 + Margin) }
KeyPairs ==
    UNION { { <<p, q>> : q \in { r \in Place : Hash(r) = Hash(p) } } : p \in Place }
SameKey(p, q) == <<p, q>> \in KeyPairs

\* The map is small enough for its cells to have keys of their own.  (MCAStar
\* has TLC compute that a map as large as the screen is.)
ASSUME CellKeysDiffer == \A p, q \in Cell : SameKey(p, q) => p = q

-----------------------------------------------------------------------------

\* (A variant of TotalCost: the guess alone.)
TotalCostGreedy(node) == Heuristic(At(node), end)

\* h of the first node stays 0.
TotalCost(node) ==
    node.g + (IF node.route = <<>> THEN 0 ELSE Heuristic(At(node), end))

StartNode == [route |-> <<>>, g |-> 0]

-----------------------------------------------------------------------------

Init ==
    /\ walls \in Maps
    /\ start \in Starts
    /\ end \in Ends
    /\ openList = {}
    /\ allNodes = {}
    /\ allocated = {}
    /\ pc = "call"
    /\ path = <<>>

\* The comparison with the size of the map is >, so that an end one column or
\* one row beyond it is searched for.
Reject ==
    /\ pc = "call"
    /\ end.x > Width \/ end.y > Height
    /\ pc' = "done"
    /\ UNCHANGED <<walls, start, end, openList, allNodes, allocated, path>>

Begin ==
    /\ pc = "call"
    /\ end.x <= Width /\ end.y <= Height
    /\ openList' = {StartNode}
    /\ allNodes' = {StartNode}
    /\ allocated' = {StartNode}
    /\ pc' = "search"
    /\ UNCHANGED <<walls, start, end, path>>

IsTop(node) ==
    /\ node \in openList
    /\ \A other \in openList : TotalCost(node) <= TotalCost(other)

\* (A variant of Return: nothing is deleted.)
ReturnKeeping(route) ==
    /\ path' = route
    /\ pc' = "done"
    /\ UNCHANGED <<walls, start, end, allNodes, allocated>>

\* Both ends of the search delete the nodes allNodes points to.
Return(route) ==
    /\ path' = route
    /\ allocated' = allocated \ allNodes
    /\ pc' = "done"
    /\ UNCHANGED <<walls, start, end, allNodes>>

Found(node) ==
    /\ pc = "search"
    /\ IsTop(node)
    /\ At(node) = end
    /\ openList' = openList \ {node}
    /\ Return(node.route)

\* (A variant of NewCost: every step costs 1.)
NewCostFlat(node, cell) == node.g + 1

NewCost(node, cell) == node.g + Heuristic(At(node), cell)

\* (A variant of Improved: walls are not looked at.)
ImprovedThroughWalls(node) ==
    { cell \in Cell :
        /\ Adjacent(At(node), cell)
        /\ \A known \in allNodes :
              SameKey(At(known), cell) => NewCost(node, cell) < known.g }

\* The neighbours that are not in allNodes or are there with a higher cost.
\* Two neighbours of a cell have different keys (MCAStar checks it for maps as
\* large as the screen), so that their order does not matter.
Improved(node) ==
    { cell \in Floor :
        /\ Adjacent(At(node), cell)
        /\ \A known \in allNodes :
              SameKey(At(known), cell) => NewCost(node, cell) < known.g }

\* The parent of a new node is what allNodes has at its key, which need not be
\* the node taken from the list.
Parent(node) == CHOOSE known \in allNodes : SameKey(At(known), At(node))

\* (A variant of Expand: top() without pop().)
ExpandWithoutPop(node) ==
    /\ pc = "search"
    /\ IsTop(node)
    /\ At(node) # end
    /\ LET pushed == { [route |-> Append(Parent(node).route, cell),
                        g     |-> NewCost(node, cell)] : cell \in Improved(node) }
       IN  /\ openList' = openList \cup pushed
           /\ allNodes' = { known \in allNodes :
                               \A cell \in Improved(node) : ~SameKey(At(known), cell) }
                          \cup pushed
           /\ allocated' = allocated \cup pushed
    /\ UNCHANGED <<walls, start, end, pc, path>>

Expand(node) ==
    /\ pc = "search"
    /\ IsTop(node)
    /\ At(node) # end
    /\ LET pushed == { [route |-> Append(Parent(node).route, cell),
                        g     |-> NewCost(node, cell)] : cell \in Improved(node) }
       IN  /\ openList' = (openList \ {node}) \cup pushed
           /\ allNodes' = { known \in allNodes :
                               \A cell \in Improved(node) : ~SameKey(At(known), cell) }
                          \cup pushed
           /\ allocated' = allocated \cup pushed
    /\ UNCHANGED <<walls, start, end, pc, path>>

Exhausted ==
    /\ pc = "search"
    /\ openList = {}
    /\ Return(<<>>)
    /\ UNCHANGED openList

Next ==
    \/ Reject
    \/ Begin
    \/ \E node \in openList : Found(node) \/ Expand(node)
    \/ Exhausted

\* The search runs in the thread of the caller, which nothing stops.
Spec == Init /\ [][Next]_vars /\ WF_vars(Next)

-----------------------------------------------------------------------------

Node == [route : Seq(Floor), g : 0..(2 * MaxCost)]

TypeOK ==
    /\ walls \in Maps /\ start \in Starts /\ end \in Ends
    /\ openList \subseteq Node
    /\ allNodes \subseteq Node
    /\ allocated \subseteq Node
    /\ pc \in {"call", "search", "done"}
    /\ path \in Seq(Floor)

\* The cell that has the key of a start off the map counts as visited.  (-1, -1)
\* has the key of (1, 1), since the two's complement of an odd number differs
\* from it in all bits but the last.
Twins == { cell \in Cell : cell # start /\ SameKey(cell, start) }

Around == INSTANCE Grid WITH Walls <- walls \cup Twins

\* The answer is a route, which is what GameLevel assumes of it: it goes
\* through no wall, and the chains of parents it is read from have no gaps.
AnswerIsRoute == pc = "done" => IsRoute(start, end, path)

\* The answer is a cheapest route, whatever order equal nodes are taken in, of
\* those that keep away from the twin of the start: from on the map, of all.
\* It is the empty one exactly when there is none or no way to go.
AnswerIsCheapest ==
    pc = "done" => path \in Around!CheapestRoutes(start, end, MaxCost)

\* Once taken from the list, the node of a position is never improved on, so
\* that no expanded node has to be expanded again, and the chains of parents
\* that answers are read from do not change under the search.
TakenIsFinal ==
    [][ pc = "search" /\ pc' = "search" => allNodes \ openList \subseteq allNodes' ]_vars

\* Every search ends: whatever costs nodes are replaced at and queued again, the
\* open list runs empty or the end is taken from it, also where no way leads to
\* the end or the end is off the map.
Terminates == <>(pc = "done")

\* Deleting what allNodes points to (AStar.cpp:53 and :101) leaves only nodes
\* allocated that a cheaper one replaced in allNodes.
OnlyReplacedLeak ==
    pc = "done" =>
        \A node \in allocated :
            \E known \in allNodes : At(known) = At(node) /\ known.g < node.g
=============================================================================
