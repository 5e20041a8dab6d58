----------------------------- MODULE AStarProofs -----------------------------
(***************************************************************************)
(* FindPath on every map whose cells have keys of their own: the answer is *)
(* a route, one of the cheapest that the reference of Grid has, nodes      *)
(* taken from the list are never improved on, and what is not deleted was  *)
(* replaced.                                                               *)
(***************************************************************************)
EXTENDS AStar, SequenceTheorems, FunctionTheorems, FiniteSetTheorems,
        WellFoundedInduction, TLAPS

\* A node as the search builds it; costs are sums of prices.
Nodes == [route : Seq(Floor), g : Nat]

\* Where i steps of a route lead.
After(route, i) == IF i = 0 THEN start ELSE route[i]

\* The cost of the first i steps of a route, for every i.
Costs(route, costs) ==
    /\ costs \in [0..Len(route) -> Nat]
    /\ costs[0] = 0
    /\ \A i \in 1..Len(route) :
          costs[i] = costs[i - 1] + Heuristic(After(route, i - 1), After(route, i))

\* One neighbour at a time.
IsWalk(route) == \A i \in 1..Len(route) : Adjacent(After(route, i - 1), After(route, i))

\* What a node says of its route is true.
IsLeg(node) ==
    /\ IsWalk(node.route)
    /\ \E costs : Costs(node.route, costs) /\ costs[Len(node.route)] = node.g

\* The nodes that were taken from the list and still count.
Closed == allNodes \ openList

SearchTypes ==
    /\ walls \in Maps /\ start \in Starts /\ end \in Ends
    /\ pc \in {"call", "search", "done"}
    /\ openList \subseteq Nodes
    /\ allNodes \subseteq Nodes
    /\ allocated \subseteq Nodes

\* One node for a key.  Nothing ever replaces the first one, so that no other
\* node gets a position with its key.
OneForKey ==
    /\ openList \cup allNodes \subseteq allocated
    /\ StartNode \in allNodes
    /\ \A m, n \in allNodes : SameKey(At(m), At(n)) => m = n
    /\ \A n \in allocated :
          IF n.route = <<>> THEN n = StartNode ELSE ~ SameKey(At(n), start)

\* What is allocated and not in allNodes gave way to a cheaper node there.
Replaced(node) == \E known \in allNodes : At(known) = At(node) /\ known.g < node.g

\* The order in which nodes are taken: no step outruns the heuristic, so that
\* the total costs never decrease.
TakenInOrder == \A x \in Closed, n \in openList : TotalCost(x) <= TotalCost(n)

\* Every way on from a closed node is known.
Expanded(x) ==
    /\ At(x) # end
    /\ \A cell \in Floor : Adjacent(At(x), cell) =>
          \E known \in allNodes : SameKey(At(known), cell) /\ known.g <= NewCost(x, cell)

SearchInv ==
    /\ OneForKey
    /\ \A node \in allocated \ allNodes : Replaced(node)
    /\ TakenInOrder
    /\ \A x \in Closed : Expanded(x)
    /\ \A node \in allocated : IsLeg(node)

\* If a walk leads to the end, one that keeps away from the twins, the route
\* does too and costs no more.
NoWalkIsCheaperThan(route) ==
    \A walk \in Seq(Around!Floor) : \A costs :
        /\ walk # <<>> /\ IsWalk(walk) /\ After(walk, Len(walk)) = end
        /\ Costs(walk, costs)
        => /\ EndOf(start, route) = end
           /\ \E paid : /\ Costs(route, paid)
                        /\ paid[Len(route)] <= costs[Len(walk)]

NoWalkIsCheaper == pc = "done" => NoWalkIsCheaperThan(path)

IsAnswer(route) == IsRoute(start, end, route) /\ NoWalkIsCheaperThan(route)

AStarInv ==
    /\ SearchTypes
    /\ pc = "call" => openList = {} /\ allNodes = {} /\ allocated = {} /\ path = <<>>
    /\ pc = "search" => SearchInv
    /\ pc = "done" => /\ IsAnswer(path)
                      /\ \A node \in allocated : Replaced(node)

-----------------------------------------------------------------------------
(***************************************************************************)
(* Keys, prices and places.                                                *)
(***************************************************************************)

Point == [x : Int, y : Int]

\* To have the same key is an equivalence.
LEMMA Keys ==
    /\ \A p \in Position : SameKey(p, p)
    /\ \A p, q : SameKey(p, q) => SameKey(q, p)
    /\ \A p, q, r : SameKey(p, q) /\ SameKey(q, r) => SameKey(p, r)
<1>1. \A p \in Position : p \in Place
  BY DEF Place, Position
<1>2. \A p, q : SameKey(p, q) <=> p \in Place /\ q \in Place /\ Hash(q) = Hash(p)
  BY DEF SameKey, KeyPairs
<1> QED
  BY <1>1, <1>2

\* The heuristic is a distance.
LEMMA Prices ==
    ASSUME NEW a \in Point, NEW b \in Point, NEW c \in Point
    PROVE  /\ Heuristic(a, b) \in Nat
           /\ Heuristic(a, a) = 0
           /\ Heuristic(a, c) <= Heuristic(a, b) + Heuristic(b, c)
BY DEF Point, Heuristic, Abs

LEMMA Places ==
    /\ Floor \subseteq Cell /\ Cell \subseteq Position /\ Position \subseteq Point
    /\ SearchTypes => start \in Position /\ end \in Point
BY AStarAssumption DEF Floor, Cell, Position, Point, SearchTypes

LEMMA NodePlaces ==
    ASSUME SearchTypes, NEW node \in Nodes
    PROVE  /\ At(node) \in Position
           /\ node.route # <<>> => At(node) \in Floor
           /\ TotalCost(node) \in Nat
           /\ At(StartNode) = start /\ StartNode \in Nodes /\ TotalCost(StartNode) = 0
<1>1. node.route \in Seq(Floor) /\ node.g \in Nat
  BY DEF Nodes
<1>2. node.route # <<>> => node.route[Len(node.route)] \in Floor
  BY <1>1
<1>3. At(node) \in Position /\ (node.route # <<>> => At(node) \in Floor)
  BY <1>2, Places DEF At, EndOf
<1>4. Heuristic(At(node), end) \in Nat
  BY <1>3, Places, Prices
<1>5. TotalCost(node) \in Nat
  BY <1>1, <1>4 DEF TotalCost
<1>6. At(StartNode) = start /\ StartNode \in Nodes /\ TotalCost(StartNode) = 0
  BY DEF At, StartNode, Nodes, EndOf, TotalCost
<1> QED
  BY <1>3, <1>5, <1>6

\* The node for the next cell of a route.
Onward(node, cell) == [route |-> Append(node.route, cell), g |-> NewCost(node, cell)]

LEMMA OnwardLeads ==
    ASSUME SearchTypes, NEW node \in Nodes, NEW cell \in Floor
    PROVE  /\ Onward(node, cell) \in Nodes
           /\ Onward(node, cell).route # <<>>
           /\ At(Onward(node, cell)) = cell
           /\ NewCost(node, cell) \in Nat
           /\ NewCost(node, cell) >= node.g
           /\ TotalCost(Onward(node, cell)) = NewCost(node, cell) + Heuristic(cell, end)
           /\ TotalCost(node) <= TotalCost(Onward(node, cell))
<1>1. node.route \in Seq(Floor) /\ node.g \in Nat
  BY DEF Nodes
<1>2. /\ Append(node.route, cell) \in Seq(Floor)
      /\ Append(node.route, cell) # <<>>
      /\ Append(node.route, cell)[Len(Append(node.route, cell))] = cell
  BY <1>1
<1>3. At(node) \in Point /\ cell \in Point /\ end \in Point
  BY NodePlaces, Places
<1>4. /\ Heuristic(At(node), cell) \in Nat
      /\ Heuristic(cell, end) \in Nat
      /\ Heuristic(At(node), end) \in Nat
      /\ Heuristic(At(node), end) <= Heuristic(At(node), cell) + Heuristic(cell, end)
  BY <1>3, Prices
<1>5. NewCost(node, cell) \in Nat /\ NewCost(node, cell) >= node.g
  BY <1>1, <1>4 DEF NewCost
<1>6. Onward(node, cell) \in Nodes /\ Onward(node, cell).route # <<>>
  BY <1>2, <1>5 DEF Onward, Nodes
<1>7. At(Onward(node, cell)) = cell
  BY <1>2 DEF Onward, At, EndOf
<1>8. TotalCost(Onward(node, cell)) = NewCost(node, cell) + Heuristic(cell, end)
  BY <1>6, <1>7 DEF TotalCost, Onward
<1>9. TotalCost(node) <= TotalCost(Onward(node, cell))
  BY <1>1, <1>4, <1>5, <1>8 DEF TotalCost, NewCost
<1> QED
  BY <1>5, <1>6, <1>7, <1>8, <1>9

\* A step further, a route is still a walk and its cost a sum of prices.
LEMMA OnwardIsLeg ==
    ASSUME SearchTypes, NEW node \in Nodes, IsLeg(node),
           NEW cell \in Floor, Adjacent(At(node), cell)
    PROVE  IsLeg(Onward(node, cell))
<1> DEFINE route == node.route
           n == Len(route)
           longer == Append(route, cell)
<1>1. route \in Seq(Floor) /\ node.g \in Nat /\ n \in Nat
  BY DEF Nodes
<1>2. /\ longer \in Seq(Floor) /\ Len(longer) = n + 1
      /\ longer[n + 1] = cell
      /\ \A i \in 1..n : longer[i] = route[i]
  BY <1>1
<1>3. At(node) = After(route, n)
  BY <1>1 DEF At, EndOf, After
<1>4. /\ \A i \in 0..n : After(longer, i) = After(route, i)
      /\ After(longer, n + 1) = cell
  BY <1>1, <1>2 DEF After
<1>5. PICK costs : Costs(route, costs) /\ costs[n] = node.g
  BY DEF IsLeg
<1> DEFINE more == [i \in 0..(n + 1) |-> IF i = n + 1 THEN NewCost(node, cell) ELSE costs[i]]
<1>6. IsWalk(longer)
  <2> SUFFICES ASSUME NEW i \in 1..(n + 1)
               PROVE  Adjacent(After(longer, i - 1), After(longer, i))
    BY <1>2 DEF IsWalk
  <2>1. CASE i = n + 1
    BY <1>1, <1>3, <1>4, <2>1
  <2>2. CASE i \in 1..n
    <3>1. Adjacent(After(route, i - 1), After(route, i))
      BY <2>2 DEF IsLeg, IsWalk
    <3> QED
      BY <1>1, <1>4, <2>2, <3>1
  <2> QED
    BY <1>1, <2>1, <2>2
<1>7. Costs(longer, more) /\ more[n + 1] = NewCost(node, cell)
  <2>1. NewCost(node, cell) \in Nat
    BY OnwardLeads
  <2>2. costs \in [0..n -> Nat] /\ costs[0] = 0
    BY <1>5 DEF Costs
  <2>3. more \in [0..(n + 1) -> Nat] /\ more[0] = 0 /\ more[n + 1] = NewCost(node, cell)
    BY <1>1, <2>1, <2>2
  <2>4. ASSUME NEW i \in 1..(n + 1)
        PROVE  more[i] = more[i - 1] + Heuristic(After(longer, i - 1), After(longer, i))
    <3>1. CASE i = n + 1
      <4>1. more[i] = node.g + Heuristic(At(node), cell) /\ more[i - 1] = costs[n]
        BY <1>1, <3>1 DEF NewCost
      <4> QED
        BY <1>1, <1>3, <1>4, <1>5, <3>1, <4>1
    <3>2. CASE i \in 1..n
      <4>1. costs[i] = costs[i - 1] + Heuristic(After(route, i - 1), After(route, i))
        BY <1>5, <3>2 DEF Costs
      <4>2. more[i] = costs[i] /\ more[i - 1] = costs[i - 1]
        BY <1>1, <3>2
      <4>3. After(longer, i - 1) = After(route, i - 1) /\ After(longer, i) = After(route, i)
        BY <1>1, <1>4, <3>2
      <4> QED
        BY <4>1, <4>2, <4>3
    <3> QED
      BY <1>1, <3>1, <3>2
  <2> HIDE DEF more, longer
  <2> QED
    BY <1>2, <2>3, <2>4 DEF Costs
<1>8. Onward(node, cell).route = longer /\ Onward(node, cell).g = NewCost(node, cell)
  BY DEF Onward
<1> HIDE DEF more, longer
<1> QED
  BY <1>2, <1>6, <1>7, <1>8 DEF IsLeg

-----------------------------------------------------------------------------
(***************************************************************************)
(* A step of the search.                                                   *)
(***************************************************************************)

\* A node that was replaced has no way to offer: the cheaper node of its
\* position was taken before it.
LEMMA StaleIsBarren ==
    ASSUME SearchTypes, SearchInv, NEW node \in openList, IsTop(node), node \notin allNodes
    PROVE  Improved(node) = {}
<1> SUFFICES ASSUME NEW cell \in Improved(node) PROVE FALSE
    OBVIOUS
<1>1. node \in allocated \ allNodes /\ node \in Nodes /\ node.g \in Nat
  BY DEF SearchTypes, SearchInv, OneForKey, Nodes
<1>2. PICK known \in allNodes : At(known) = At(node) /\ known.g < node.g
  BY <1>1 DEF SearchInv, Replaced
<1>3. known \in Nodes /\ known \in allocated /\ known.g \in Nat
  BY DEF SearchTypes, SearchInv, OneForKey, Nodes
<1>4. node # StartNode /\ node.route # <<>> /\ ~ SameKey(At(node), start)
  BY <1>1 DEF SearchInv, OneForKey
<1>5. At(node) \in Position /\ Heuristic(At(node), end) \in Nat
  BY <1>1, NodePlaces, Places, Prices
<1>6. TotalCost(known) < TotalCost(node)
  BY <1>1, <1>2, <1>3, <1>4, <1>5 DEF TotalCost
<1>7. TotalCost(node) \in Nat /\ TotalCost(known) \in Nat
  BY <1>1, <1>3, NodePlaces
<1>8. known \in Closed
  BY <1>6, <1>7 DEF IsTop, Closed
<1>9. cell \in Floor /\ Adjacent(At(known), cell)
  BY <1>2 DEF Improved
<1>10. PICK other \in allNodes : SameKey(At(other), cell) /\ other.g <= NewCost(known, cell)
  BY <1>8, <1>9 DEF SearchInv, Expanded
<1>11. NewCost(node, cell) < other.g
  BY <1>10 DEF Improved
<1>12. NewCost(known, cell) < NewCost(node, cell)
  <2>1. Heuristic(At(node), cell) \in Nat
    BY <1>5, <1>9, Places, Prices
  <2> QED
    BY <1>1, <1>2, <1>3, <2>1 DEF NewCost
<1>13. other.g \in Nat /\ NewCost(known, cell) \in Nat /\ NewCost(node, cell) \in Nat
  <2>1. other \in Nodes
    BY <1>10 DEF SearchTypes
  <2> QED
    BY <1>1, <1>3, <1>9, <2>1, OnwardLeads DEF Nodes
<1> QED
  BY <1>10, <1>11, <1>12, <1>13

\* What a step adds comes from the node itself.
LEMMA ParentIsNode ==
    ASSUME SearchTypes, SearchInv, NEW node \in allNodes
    PROVE  Parent(node) = node
<1>1. At(node) \in Position
  BY NodePlaces DEF SearchTypes
<1>2. SameKey(At(node), At(node))
  BY <1>1, Keys
<1>3. Parent(node) \in allNodes /\ SameKey(At(Parent(node)), At(node))
  BY <1>2 DEF Parent
<1> QED
  BY <1>3 DEF SearchInv, OneForKey

\* The state after Expand(node), for the node of a position.
Pushed(node) == { Onward(node, cell) : cell \in Improved(node) }
Kept(node) ==
    { known \in allNodes : \A cell \in Improved(node) : ~ SameKey(At(known), cell) }

LEMMA ExpandMeans ==
    ASSUME SearchTypes, SearchInv, NEW node \in openList, Expand(node)
    PROVE  /\ UNCHANGED <<walls, start, end, pc>>
           /\ openList' = (openList \ {node}) \cup Pushed(node)
           /\ allNodes' = Kept(node) \cup Pushed(node)
           /\ allocated' = allocated \cup Pushed(node)
           /\ node \notin allNodes => Improved(node) = {}
<1>1. CASE node \in allNodes
  BY <1>1, ParentIsNode DEF Expand, Pushed, Kept, Onward
<1>2. CASE node \notin allNodes
  <2>1. Improved(node) = {}
    BY <1>2, StaleIsBarren DEF Expand
  <2> QED
    BY <1>2, <2>1 DEF Expand, Pushed, Kept
<1> QED
  BY <1>1, <1>2

\* Facts of the cells a step improves on.
LEMMA ImprovedCells ==
    ASSUME SearchTypes, SearchInv, NEW node \in openList, NEW cell \in Improved(node)
    PROVE  /\ cell \in Floor /\ Adjacent(At(node), cell)
           /\ ~ SameKey(start, cell) /\ ~ SameKey(cell, start)
           /\ \A known \in allNodes : SameKey(At(known), cell) =>
                 NewCost(node, cell) < known.g /\ At(known) = cell /\ known.route # <<>>
           /\ \A other \in Improved(node) : SameKey(other, cell) => other = cell
<1>0. node \in Nodes
  BY DEF SearchTypes
<1>1. cell \in Floor /\ Adjacent(At(node), cell) /\ Improved(node) \subseteq Cell
      /\ \A known \in allNodes : SameKey(At(known), cell) => NewCost(node, cell) < known.g
  BY Places DEF Improved
<1>2. NewCost(node, cell) \in Nat
  BY <1>0, <1>1, OnwardLeads
<1>3. ~ SameKey(start, cell)
  <2>1. At(StartNode) = start /\ StartNode.g = 0 /\ StartNode \in allNodes
    BY <1>0, NodePlaces DEF StartNode, SearchInv, OneForKey
  <2> QED
    BY <1>1, <1>2, <2>1
<1>4. ~ SameKey(cell, start)
  BY <1>3, Keys
<1>5. ASSUME NEW known \in allNodes, SameKey(At(known), cell)
      PROVE  At(known) = cell /\ known.route # <<>>
  <2>1. known \in Nodes /\ known \in allocated
    BY DEF SearchTypes, SearchInv, OneForKey
  <2>2. known.route # <<>>
    BY <1>3, <1>5, <2>1, NodePlaces DEF SearchInv, OneForKey
  <2>3. At(known) \in Cell /\ cell \in Cell
    BY <1>1, <2>1, <2>2, NodePlaces, Places
  <2> QED
    BY <1>5, <2>2, <2>3, CellKeysDiffer
<1>6. \A other \in Improved(node) : SameKey(other, cell) => other = cell
  BY <1>1, Places, CellKeysDiffer
<1> QED
  BY <1>1, <1>3, <1>4, <1>5, <1>6

LEMMA ExpandKeepsTypes ==
    ASSUME SearchTypes, SearchInv, NEW node \in openList, Expand(node)
    PROVE  SearchTypes'
<1>1. UNCHANGED <<walls, start, end, pc>>
  BY ExpandMeans
<1>2. Nodes' = Nodes
  BY <1>1 DEF Nodes, Floor, Cell
<1>3. Pushed(node) \subseteq Nodes
  BY ImprovedCells, OnwardLeads DEF Pushed, SearchTypes
<1>4. openList' \subseteq Nodes /\ allNodes' \subseteq Nodes /\ allocated' \subseteq Nodes
  BY <1>3, ExpandMeans DEF SearchTypes, Kept
<1> QED
  BY <1>1, <1>2, <1>4 DEF SearchTypes

LEMMA ExpandKeepsKeys ==
    ASSUME SearchTypes, SearchInv, NEW node \in openList, Expand(node)
    PROVE  OneForKey'
<1>1. /\ UNCHANGED <<walls, start, end, pc>>
      /\ openList' = (openList \ {node}) \cup Pushed(node)
      /\ allNodes' = Kept(node) \cup Pushed(node)
      /\ allocated' = allocated \cup Pushed(node)
  BY ExpandMeans
<1>2. \A m : (At(m))' = At(m)
  BY <1>1 DEF At
<1>3. ASSUME NEW new \in Pushed(node)
      PROVE  \E cell \in Improved(node) :
                new = Onward(node, cell) /\ At(new) = cell /\ new.route # <<>>
  BY ImprovedCells, OnwardLeads DEF Pushed, SearchTypes
<1>4. openList' \cup allNodes' \subseteq allocated'
  BY <1>1 DEF SearchInv, OneForKey, Kept
<1>5. StartNode \in allNodes'
  <2>1. At(StartNode) = start /\ StartNode \in allNodes
    BY NodePlaces DEF SearchInv, OneForKey, SearchTypes
  <2>2. StartNode \in Kept(node)
    BY <2>1, ImprovedCells DEF Kept
  <2> QED
    BY <1>1, <2>2
<1>6. ASSUME NEW m \in allNodes', NEW n \in allNodes', SameKey(At(m), At(n))
      PROVE  m = n
  <2>1. CASE m \in Kept(node) /\ n \in Kept(node)
    BY <1>6, <2>1 DEF Kept, SearchInv, OneForKey
  <2>2. CASE m \in Kept(node) /\ n \in Pushed(node)
    BY <1>3, <1>6, <2>2 DEF Kept
  <2>3. CASE m \in Pushed(node) /\ n \in Kept(node)
    BY <1>3, <1>6, <2>3, Keys DEF Kept
  <2>4. CASE m \in Pushed(node) /\ n \in Pushed(node)
    BY <1>3, <1>6, <2>4, ImprovedCells
  <2> QED
    BY <1>1, <1>6, <2>1, <2>2, <2>3, <2>4
<1>7. ASSUME NEW n \in allocated'
      PROVE  IF n.route = <<>> THEN n = StartNode ELSE ~ SameKey(At(n), start)
  BY <1>1, <1>3, <1>7, ImprovedCells DEF SearchInv, OneForKey
<1> QED
  BY <1>1, <1>2, <1>4, <1>5, <1>6, <1>7 DEF OneForKey

\* A node that gives way is replaced by a cheaper one of its position, with
\* the key of every cell it was known for.
LEMMA Successor ==
    ASSUME SearchTypes, SearchInv, NEW node \in openList, Expand(node),
           NEW known \in allNodes
    PROVE  \E next \in allNodes' :
              /\ At(next) = At(known) /\ next.g <= known.g
              /\ next # known => next.g < known.g
<1>1. allNodes' = Kept(node) \cup Pushed(node)
  BY ExpandMeans
<1>2. CASE known \in Kept(node)
  <2>1. known.g \in Nat
    BY DEF SearchTypes, Nodes
  <2> QED
    BY <1>1, <1>2, <2>1
<1>3. CASE known \notin Kept(node)
  <2>1. PICK cell \in Improved(node) : SameKey(At(known), cell)
    BY <1>3 DEF Kept
  <2>2. /\ cell \in Floor /\ NewCost(node, cell) < known.g /\ At(known) = cell
        /\ node \in Nodes /\ known \in Nodes
    BY <2>1, ImprovedCells DEF SearchTypes
  <2>3. /\ Onward(node, cell) \in allNodes' /\ At(Onward(node, cell)) = cell
        /\ Onward(node, cell).g = NewCost(node, cell)
        /\ NewCost(node, cell) \in Nat /\ known.g \in Nat
    BY <1>1, <2>2, OnwardLeads DEF Pushed, Onward, Nodes
  <2> QED
    BY <2>2, <2>3
<1> QED
  BY <1>2, <1>3

LEMMA ExpandKeepsReplaced ==
    ASSUME SearchTypes, SearchInv, NEW node \in openList, Expand(node)
    PROVE  (\A other \in allocated \ allNodes : Replaced(other))'
<1>1. /\ start' = start
      /\ allNodes' = Kept(node) \cup Pushed(node)
      /\ allocated' = allocated \cup Pushed(node)
  BY ExpandMeans
<1>2. SUFFICES ASSUME NEW other \in allocated, other \notin allNodes'
               PROVE  \E next \in allNodes' : At(next) = At(other) /\ next.g < other.g
  BY <1>1 DEF Replaced, At
<1>3. other \in Nodes /\ other.g \in Nat
  BY DEF SearchTypes, Nodes
<1>4. CASE other \in allNodes
  BY <1>2, <1>4, Successor
<1>5. CASE other \notin allNodes
  <2>1. PICK known \in allNodes : At(known) = At(other) /\ known.g < other.g
    BY <1>5 DEF SearchInv, Replaced
  <2>2. PICK next \in allNodes' : At(next) = At(known) /\ next.g <= known.g
    BY Successor
  <2>3. next.g \in Nat /\ known.g \in Nat
    <3>1. next \in Nodes' /\ known \in Nodes
      BY ExpandKeepsTypes DEF SearchTypes
    <3> QED
      BY <3>1 DEF Nodes
  <2> QED
    BY <1>3, <2>1, <2>2, <2>3
<1> QED
  BY <1>4, <1>5

\* A closed node after the step was one before, or it is the one taken.
LEMMA ClosedAfter ==
    ASSUME SearchTypes, SearchInv, NEW node \in openList, Expand(node)
    PROVE  Closed' \subseteq Closed \cup ({node} \cap allNodes)
BY ExpandMeans DEF Closed, Kept

LEMMA ExpandKeepsOrder ==
    ASSUME SearchTypes, SearchInv, NEW node \in openList, Expand(node)
    PROVE  TakenInOrder'
<1>1. /\ UNCHANGED <<walls, start, end, pc>>
      /\ openList' = (openList \ {node}) \cup Pushed(node)
  BY ExpandMeans
<1>2. \A m : (TotalCost(m))' = TotalCost(m)
  BY <1>1 DEF TotalCost, At
<1>3. SUFFICES ASSUME NEW x \in Closed', NEW n \in openList'
               PROVE  TotalCost(x) <= TotalCost(n)
  BY <1>2 DEF TakenInOrder
<1>4. x \in Nodes /\ node \in Nodes /\ openList \subseteq Nodes
  BY ClosedAfter DEF SearchTypes, Closed
<1>5. TotalCost(x) \in Nat /\ TotalCost(node) \in Nat
  BY <1>4, NodePlaces
<1>6. TotalCost(x) <= TotalCost(node)
  BY <1>5, ClosedAfter DEF SearchInv, TakenInOrder
<1>7. CASE n \in openList
  <2>1. TotalCost(node) <= TotalCost(n)
    BY <1>7 DEF Expand, IsTop
  <2>2. TotalCost(n) \in Nat
    BY <1>4, <1>7, NodePlaces
  <2> QED
    BY <1>5, <1>6, <2>1, <2>2
<1>8. CASE n \in Pushed(node)
  <2>1. PICK cell \in Improved(node) : n = Onward(node, cell)
    BY <1>8 DEF Pushed
  <2>2. TotalCost(node) <= TotalCost(n) /\ n \in Nodes
    BY <1>4, <2>1, ImprovedCells, OnwardLeads
  <2>3. TotalCost(n) \in Nat
    BY <2>2, NodePlaces
  <2> QED
    BY <1>5, <1>6, <2>2, <2>3
<1> QED
  BY <1>1, <1>7, <1>8

LEMMA ExpandKeepsExpanded ==
    ASSUME SearchTypes, SearchInv, NEW node \in openList, Expand(node)
    PROVE  (\A x \in Closed : Expanded(x))'
<1>1. /\ UNCHANGED <<walls, start, end, pc>>
      /\ allNodes' = Kept(node) \cup Pushed(node)
  BY ExpandMeans
<1>2. /\ \A m : (At(m))' = At(m)
      /\ \A m, c : (NewCost(m, c))' = NewCost(m, c)
      /\ Floor' = Floor
  BY <1>1 DEF At, NewCost, Floor, Cell
<1>3. SUFFICES ASSUME NEW x \in Closed'
               PROVE  /\ At(x) # end
                      /\ \A cell \in Floor : Adjacent(At(x), cell) =>
                            \E next \in allNodes' :
                                SameKey(At(next), cell) /\ next.g <= NewCost(x, cell)
  BY <1>1, <1>2 DEF Expanded
<1>4. x \in Nodes /\ x \in Closed \cup {node}
  BY ClosedAfter DEF SearchTypes, Closed
<1>5. At(x) # end
  BY <1>4 DEF SearchInv, Expanded, Expand
<1>6. ASSUME NEW cell \in Floor, NEW known \in allNodes,
             SameKey(At(known), cell), known.g <= NewCost(x, cell)
      PROVE  \E next \in allNodes' : SameKey(At(next), cell) /\ next.g <= NewCost(x, cell)
  <2>1. PICK next \in allNodes' : At(next) = At(known) /\ next.g <= known.g
    BY Successor
  <2>2. next.g \in Nat /\ known.g \in Nat
    <3>1. next \in Nodes' /\ known \in Nodes
      BY ExpandKeepsTypes DEF SearchTypes
    <3> QED
      BY <3>1 DEF Nodes
  <2>3. NewCost(x, cell) \in Nat
    BY <1>4, OnwardLeads
  <2> QED
    BY <1>6, <2>1, <2>2, <2>3
<1>7. ASSUME NEW cell \in Floor, Adjacent(At(x), cell)
      PROVE  \E next \in allNodes' : SameKey(At(next), cell) /\ next.g <= NewCost(x, cell)
  <2>1. CASE x \in Closed
    BY <1>6, <1>7, <2>1 DEF SearchInv, Expanded
  <2>2. CASE x = node /\ cell \in Improved(node)
    <3>1. Onward(node, cell) \in allNodes' /\ At(Onward(node, cell)) = cell
          /\ Onward(node, cell).g = NewCost(node, cell) /\ NewCost(node, cell) \in Nat
      BY <1>1, <1>4, <2>2, OnwardLeads DEF Pushed, Onward
    <3>2. SameKey(cell, cell)
      BY Places, Keys
    <3> QED
      BY <2>2, <3>1, <3>2
  <2>3. CASE x = node /\ cell \notin Improved(node)
    <3>1. PICK known \in allNodes :
             SameKey(At(known), cell) /\ ~ (NewCost(node, cell) < known.g)
      BY <1>7, <2>3 DEF Improved
    <3>2. known.g \in Nat /\ NewCost(node, cell) \in Nat
      BY <1>4, <2>3, OnwardLeads DEF SearchTypes, Nodes
    <3> QED
      BY <1>6, <2>3, <3>1, <3>2
  <2> QED
    BY <1>4, <2>1, <2>2, <2>3
<1> QED
  BY <1>5, <1>7

LEMMA ExpandKeepsLegs ==
    ASSUME SearchTypes, SearchInv, NEW node \in openList, Expand(node)
    PROVE  (\A n \in allocated : IsLeg(n))'
<1>1. UNCHANGED <<walls, start, end>> /\ allocated' = allocated \cup Pushed(node)
  BY ExpandMeans
<1>2. \A n : IsLeg(n)' <=> IsLeg(n)
  BY <1>1 DEF IsLeg, IsWalk, Costs, After
<1>3. node \in Nodes /\ IsLeg(node)
  BY DEF SearchTypes, SearchInv, OneForKey
<1>4. \A n \in Pushed(node) : IsLeg(n)
  BY <1>3, ImprovedCells, OnwardIsLeg DEF Pushed
<1> QED
  BY <1>1, <1>2, <1>4 DEF SearchInv

LEMMA ExpandKeepsInv ==
    ASSUME SearchTypes, SearchInv, NEW node \in openList, Expand(node)
    PROVE  SearchTypes' /\ SearchInv'
BY ExpandKeepsTypes, ExpandKeepsKeys, ExpandKeepsReplaced, ExpandKeepsOrder,
   ExpandKeepsExpanded, ExpandKeepsLegs DEF SearchInv

LEMMA BeginEstablishes ==
    ASSUME SearchTypes, Begin
    PROVE  SearchTypes' /\ SearchInv'
<1>1. /\ openList' = {StartNode} /\ allNodes' = {StartNode} /\ allocated' = {StartNode}
      /\ UNCHANGED <<walls, start, end>> /\ pc' = "search"
  BY DEF Begin
<1>2. Nodes' = Nodes /\ StartNode \in Nodes
  BY <1>1, NodePlaces DEF Nodes, Floor, Cell, StartNode
<1>3. SearchTypes'
  BY <1>1, <1>2 DEF SearchTypes
<1>4. OneForKey'
  BY <1>1 DEF OneForKey, StartNode
<1>5. (\A node \in allocated \ allNodes : Replaced(node))'
  BY <1>1
<1>6. Closed' = {}
  BY <1>1 DEF Closed
<1>7. IsLeg(StartNode)'
  <2> DEFINE costs == [i \in 0..0 |-> 0]
  <2>1. /\ StartNode.route = <<>> /\ StartNode.g = 0
        /\ Len(<<>>) = 0
        /\ costs \in [0..0 -> Nat] /\ costs[0] = 0
    BY DEF StartNode
  <2> HIDE DEF costs
  <2>2. Costs(<<>>, costs)' /\ IsWalk(<<>>)'
    BY <2>1 DEF Costs, IsWalk
  <2> QED
    BY <2>1, <2>2 DEF IsLeg
<1> QED
  BY <1>1, <1>3, <1>4, <1>5, <1>6, <1>7 DEF SearchInv, TakenInOrder

-----------------------------------------------------------------------------
(***************************************************************************)
(* The answer.                                                             *)
(***************************************************************************)

LEMMA FirstOf ==
    ASSUME NEW S \in SUBSET Nat, S # {}
    PROVE  \E i \in S : \A j \in S : i <= j
<1> DEFINE less == { p \in Nat \X Nat : p[1] < p[2] }
<1>1. IsWellFoundedOn(less, Nat)
  BY NatLessThanWellFounded DEF OpToRel
<1>2. PICK i \in S : \A j \in S : ~ (<<j, i>> \in less)
  BY <1>1, WFMin
<1>3. \A j \in S : i <= j
  <2> SUFFICES ASSUME NEW j \in S, j < i PROVE FALSE
    OBVIOUS
  <2>1. <<j, i>> \in Nat \X Nat /\ <<j, i>>[1] < <<j, i>>[2]
    OBVIOUS
  <2> QED
    BY <2>1, <1>2
<1> QED
  BY <1>3

\* What is left of a walk costs at least what the heuristic says.
LEMMA NoShortcut ==
    ASSUME SearchTypes, NEW walk \in Seq(Floor), NEW costs, Costs(walk, costs),
           NEW i \in 0..Len(walk), NEW n \in i..Len(walk)
    PROVE  costs[i] + Heuristic(After(walk, i), After(walk, n)) <= costs[n]
<1> DEFINE Bad == { j \in i..Len(walk) :
                       ~ (costs[i] + Heuristic(After(walk, i), After(walk, j)) <= costs[j]) }
<1>0. Len(walk) \in Nat /\ i \in Nat
  OBVIOUS
<1>1. \A j \in 0..Len(walk) : costs[j] \in Nat /\ After(walk, j) \in Point
  <2> TAKE j \in 0..Len(walk)
  <2>1. costs[j] \in Nat
    BY DEF Costs
  <2>2. CASE j = 0
    BY <2>1, <2>2, Places DEF After
  <2>3. CASE j # 0
    <3>1. walk[j] \in Floor
      BY <1>0, <2>3
    <3> QED
      BY <2>1, <2>3, <3>1, Places DEF After
  <2> QED
    BY <2>2, <2>3
<1>2. SUFFICES ASSUME Bad # {} PROVE FALSE
  <2> HIDE DEF Bad
  <2>1. n \notin Bad
    BY <1>2
  <2> QED
    BY <2>1 DEF Bad
<1>3. PICK j \in Bad : \A k \in Bad : j <= k
  <2>1. Bad \subseteq Nat
    BY <1>0
  <2> HIDE DEF Bad
  <2> QED
    BY <1>2, <2>1, FirstOf
<1>4. j # i
  <2>1. Heuristic(After(walk, i), After(walk, i)) = 0 /\ costs[i] \in Nat
    BY <1>1, Prices
  <2>2. costs[i] + Heuristic(After(walk, i), After(walk, i)) <= costs[i]
    BY <2>1
  <2> QED
    BY <2>2
<1>5. j - 1 \in i..Len(walk) /\ j - 1 \notin Bad /\ j \in 1..Len(walk)
  BY <1>0, <1>3, <1>4
<1>6. costs[i] + Heuristic(After(walk, i), After(walk, j - 1)) <= costs[j - 1]
  BY <1>5
<1>7. costs[j] = costs[j - 1] + Heuristic(After(walk, j - 1), After(walk, j))
  BY <1>5 DEF Costs
<1>8. i \in 0..Len(walk) /\ j - 1 \in 0..Len(walk) /\ j \in 0..Len(walk)
  BY <1>0, <1>5
<1>9. Heuristic(After(walk, i), After(walk, j))
        <= Heuristic(After(walk, i), After(walk, j - 1))
             + Heuristic(After(walk, j - 1), After(walk, j))
  BY <1>1, <1>8, Prices
<1>10. /\ Heuristic(After(walk, i), After(walk, j)) \in Nat
       /\ Heuristic(After(walk, i), After(walk, j - 1)) \in Nat
       /\ Heuristic(After(walk, j - 1), After(walk, j)) \in Nat
       /\ costs[i] \in Nat /\ costs[j - 1] \in Nat /\ costs[j] \in Nat
  BY <1>1, <1>8, Prices
<1>11. ~ (costs[i] + Heuristic(After(walk, i), After(walk, j)) <= costs[j])
  OBVIOUS
<1> HIDE DEF Bad
<1> QED
  BY <1>6, <1>7, <1>9, <1>10, <1>11

\* While a walk leads to the end, the open list has a node that is no dearer
\* than it: the one for its first cell that no closed node stands for as
\* cheaply.
LEMMA Frontier ==
    ASSUME SearchTypes, SearchInv,
           NEW walk \in Seq(Around!Floor), NEW costs,
           IsWalk(walk), Costs(walk, costs), After(walk, Len(walk)) = end
    PROVE  \E n \in openList : n \in Nodes /\ TotalCost(n) <= costs[Len(walk)]
<1> DEFINE Reached(i) == \E x \in Closed : At(x) = After(walk, i) /\ x.g <= costs[i]
           Ahead == { i \in 0..Len(walk) : ~ Reached(i) }
<1>1. /\ Around!Floor \subseteq Floor
      /\ \A cell \in Around!Floor : SameKey(start, cell) => cell = start
  <2>1. Around!Floor = Cell \ (walls \cup Twins)
    BY DEF Around!Floor, Around!Cell, Cell
  <2> QED
    BY <2>1, Keys DEF Twins, Floor
<1>2. walk \in Seq(Floor) /\ Len(walk) \in Nat
  BY <1>1
<1>3. \A i \in 1..Len(walk) : After(walk, i) \in Around!Floor
  BY DEF After
<1>4. \A i \in 0..Len(walk) : costs[i] \in Nat
  BY DEF Costs
<1>5. Len(walk) \in Ahead
  BY <1>2 DEF SearchInv, Expanded
<1>6. PICK i \in Ahead : \A j \in Ahead : i <= j
  <2>1. Ahead \subseteq Nat /\ Ahead # {}
    BY <1>5
  <2> HIDE DEF Ahead
  <2> QED
    BY <2>1, FirstOf
<1>7. i \in 0..Len(walk) /\ ~ Reached(i)
  OBVIOUS
<1>8. \E known \in allNodes : At(known) = After(walk, i) /\ known.g <= costs[i]
  <2>1. CASE i = 0
    BY <2>1, NodePlaces DEF SearchInv, OneForKey, SearchTypes, StartNode, Costs, After
  <2>2. CASE i # 0
    <3>1. i - 1 \in 0..Len(walk) /\ i - 1 \notin Ahead /\ i \in 1..Len(walk)
      BY <1>2, <1>6, <2>2
    <3>2. PICK x \in Closed : At(x) = After(walk, i - 1) /\ x.g <= costs[i - 1]
      BY <3>1
    <3>3. Adjacent(At(x), After(walk, i)) /\ After(walk, i) \in Floor
      BY <1>1, <1>3, <3>1, <3>2 DEF IsWalk
    <3>4. PICK known \in allNodes :
             SameKey(At(known), After(walk, i)) /\ known.g <= NewCost(x, After(walk, i))
      BY <3>3 DEF SearchInv, Expanded
    <3>5. x \in Nodes /\ known \in Nodes /\ x.g \in Nat /\ known.g \in Nat
      BY DEF SearchTypes, Closed, Nodes
    <3>6. At(known) = After(walk, i)
      <4>1. CASE known.route = <<>>
        <5>1. known \in allocated
          BY DEF SearchInv, OneForKey
        <5>2. At(known) = start
          BY <3>5, <4>1, <5>1, NodePlaces DEF SearchInv, OneForKey
        <5> QED
          BY <1>1, <1>3, <3>1, <3>4, <5>2
      <4>2. CASE known.route # <<>>
        BY <3>3, <3>4, <3>5, <4>2, NodePlaces, Places, CellKeysDiffer
      <4> QED
        BY <4>1, <4>2
    <3>7. costs[i] = costs[i - 1] + Heuristic(At(x), After(walk, i))
      BY <3>1, <3>2 DEF Costs
    <3>8. NewCost(x, After(walk, i)) <= costs[i]
      <4>1. Heuristic(At(x), After(walk, i)) \in Nat
        BY <3>3, <3>5, NodePlaces, Places, Prices
      <4> QED
        BY <1>4, <3>1, <3>2, <3>5, <3>7, <4>1 DEF NewCost
    <3>9. NewCost(x, After(walk, i)) \in Nat /\ costs[i] \in Nat
      BY <1>4, <1>7, <3>3, <3>5, OnwardLeads
    <3>10. known.g <= costs[i]
      BY <3>4, <3>5, <3>8, <3>9
    <3> QED
      BY <3>6, <3>10
  <2> QED
    BY <2>1, <2>2
<1>9. PICK known \in allNodes : At(known) = After(walk, i) /\ known.g <= costs[i]
  BY <1>8
<1>10. known \in openList
  BY <1>7, <1>9 DEF Closed
<1>11. known \in Nodes /\ known.g \in Nat
  BY DEF SearchTypes, Nodes
<1>12. costs[i] + Heuristic(After(walk, i), end) <= costs[Len(walk)]
  BY <1>2, <1>7, NoShortcut
<1>13. Heuristic(After(walk, i), end) \in Nat
  BY <1>9, <1>11, NodePlaces, Places, Prices
<1>14. costs[i] \in Nat /\ costs[Len(walk)] \in Nat
  BY <1>2, <1>4, <1>7
<1>15. TotalCost(known) <= costs[Len(walk)]
  BY <1>9, <1>11, <1>12, <1>13, <1>14 DEF TotalCost
<1> QED
  BY <1>10, <1>11, <1>15

LEMMA FoundIsAnswer ==
    ASSUME SearchTypes, SearchInv, NEW node \in openList, IsTop(node), At(node) = end
    PROVE  IsAnswer(node.route)
<1>1. node \in Nodes /\ IsLeg(node) /\ node.route \in Seq(Floor) /\ node.g \in Nat
  BY DEF SearchTypes, SearchInv, OneForKey, Nodes
<1>2. IsRoute(start, end, node.route)
  <2> DEFINE route == node.route
  <2>1. route \in Seq(Floor) /\ Len(route) \in Nat
    BY <1>1
  <2>2. \A i \in 1..(Len(route) - 1) : Adjacent(route[i], route[i + 1])
    <3> SUFFICES ASSUME NEW i \in 1..(Len(route) - 1) PROVE Adjacent(route[i], route[i + 1])
      OBVIOUS
    <3>1. i + 1 \in 1..Len(route) /\ (i + 1) - 1 = i /\ i # 0 /\ i + 1 # 0
      BY <2>1
    <3>2. Adjacent(After(route, (i + 1) - 1), After(route, i + 1))
      BY <1>1, <3>1 DEF IsLeg, IsWalk
    <3> QED
      BY <3>1, <3>2 DEF After
  <2>3. ASSUME route # <<>>
        PROVE  Adjacent(start, route[1]) /\ route[Len(route)] = end
    <3>1. 1 \in 1..Len(route)
      BY <2>1, <2>3
    <3>2. Adjacent(After(route, 1 - 1), After(route, 1))
      BY <1>1, <3>1 DEF IsLeg, IsWalk
    <3>3. route[Len(route)] = end
      BY <2>3 DEF At, EndOf
    <3> QED
      BY <3>2, <3>3 DEF After
  <2> QED
    BY <2>1, <2>2, <2>3 DEF IsRoute
<1>3. NoWalkIsCheaperThan(node.route)
  <2> SUFFICES ASSUME NEW walk \in Seq(Around!Floor), NEW costs,
                      walk # <<>>, IsWalk(walk), After(walk, Len(walk)) = end,
                      Costs(walk, costs)
               PROVE  /\ EndOf(start, node.route) = end
                      /\ \E paid : /\ Costs(node.route, paid)
                                   /\ paid[Len(node.route)] <= costs[Len(walk)]
    BY DEF NoWalkIsCheaperThan
  <2>1. PICK n \in openList : n \in Nodes /\ TotalCost(n) <= costs[Len(walk)]
    BY Frontier
  <2>2. TotalCost(node) <= TotalCost(n)
    BY DEF IsTop
  <2>3. TotalCost(n) \in Nat /\ costs[Len(walk)] \in Nat
    BY <2>1, NodePlaces DEF Costs
  <2>4. TotalCost(node) = node.g
    <3>1. Heuristic(At(node), end) = 0
      BY <1>1, NodePlaces, Places, Prices
    <3> QED
      BY <1>1, <3>1 DEF TotalCost
  <2>5. node.g <= costs[Len(walk)]
    BY <1>1, <2>1, <2>2, <2>3, <2>4
  <2>6. PICK paid : Costs(node.route, paid) /\ paid[Len(node.route)] = node.g
    BY <1>1 DEF IsLeg
  <2> QED
    BY <2>5, <2>6 DEF At
<1> QED
  BY <1>2, <1>3 DEF IsAnswer

LEMMA NoneIsAnswer ==
    ASSUME SearchTypes,
           \/ SearchInv /\ openList = {}
           \/ end \notin Cell
    PROVE  IsAnswer(<<>>)
<1>1. IsRoute(start, end, <<>>)
  BY DEF IsRoute
<1>2. ASSUME NEW walk \in Seq(Around!Floor), NEW costs,
             walk # <<>>, IsWalk(walk), After(walk, Len(walk)) = end, Costs(walk, costs)
      PROVE  FALSE
  <2>1. CASE SearchInv /\ openList = {}
    BY <1>2, <2>1, Frontier
  <2>2. CASE end \notin Cell
    <3>1. walk[Len(walk)] \in Around!Floor /\ After(walk, Len(walk)) = walk[Len(walk)]
      BY <1>2 DEF After
    <3> QED
      BY <1>2, <2>2, <3>1 DEF Around!Floor, Around!Cell, Cell
  <2> QED
    BY <2>1, <2>2
<1> QED
  BY <1>1, <1>2 DEF IsAnswer, NoWalkIsCheaperThan

\* What is true of a route stays true as long as the arguments are the same.
LEMMA ArgumentsStay ==
    ASSUME UNCHANGED <<walls, start, end>>
    PROVE  /\ Floor' = Floor /\ Nodes' = Nodes /\ (Around!Floor)' = Around!Floor
           /\ \A route, i : After(route, i)' = After(route, i)
           /\ \A route : IsWalk(route)' <=> IsWalk(route)
           /\ \A route, costs : Costs(route, costs)' <=> Costs(route, costs)
           /\ \A node : At(node)' = At(node)
<1>1. Floor' = Floor /\ (Around!Floor)' = Around!Floor
  BY DEF Floor, Cell, Around!Floor, Around!Cell, Twins
<1>2. \A route, i : After(route, i)' = After(route, i)
  BY DEF After
<1>3. Nodes' = Nodes /\ \A node : At(node)' = At(node)
  BY <1>1 DEF Nodes, At
<1> QED
  BY <1>1, <1>2, <1>3 DEF IsWalk, Costs

LEMMA AnswerStays ==
    ASSUME NEW route, UNCHANGED <<walls, start, end>>, IsAnswer(route), path' = route
    PROVE  IsAnswer(path)'
<1>1. IsRoute(start, end, path)'
  BY ArgumentsStay DEF IsAnswer, IsRoute
<1>2. NoWalkIsCheaperThan(path)'
  BY ArgumentsStay DEF IsAnswer, NoWalkIsCheaperThan
<1> QED
  BY <1>1, <1>2 DEF IsAnswer

LEMMA InitAStar == Init => AStarInv
BY DEF Init, AStarInv, SearchTypes

\* Deleting the nodes of allNodes leaves those that were replaced.
LEMMA ReturnLeaves ==
    ASSUME SearchTypes, SearchInv, NEW route, Return(route), IsAnswer(route),
           openList' \subseteq openList
    PROVE  AStarInv'
<1>1. /\ path' = route /\ allocated' = allocated \ allNodes /\ pc' = "done"
      /\ UNCHANGED <<walls, start, end, allNodes>>
  BY DEF Return
<1>2. SearchTypes'
  <2>1. Nodes' = Nodes
    BY <1>1 DEF Nodes, Floor, Cell
  <2> QED
    BY <1>1, <2>1 DEF SearchTypes
<1>3. IsAnswer(path)'
  BY <1>1, AnswerStays
<1>4. (\A node \in allocated : Replaced(node))'
  BY <1>1 DEF SearchInv, Replaced, At
<1> QED
  BY <1>1, <1>2, <1>3, <1>4 DEF AStarInv

LEMMA UnchangedAStar == AStarInv /\ UNCHANGED vars => AStarInv'
<1> SUFFICES ASSUME AStarInv, UNCHANGED vars PROVE AStarInv'
    OBVIOUS
<1>1. UNCHANGED <<walls, start, end, openList, allNodes, allocated, pc, path>>
  BY DEF vars
<1>2. SearchTypes'
  BY <1>1, ArgumentsStay DEF AStarInv, SearchTypes
<1>3. SearchInv => SearchInv'
  <2> SUFFICES ASSUME SearchInv PROVE SearchInv'
    OBVIOUS
  <2>1. OneForKey' /\ (\A node \in allocated \ allNodes : Replaced(node))'
    BY <1>1, ArgumentsStay DEF SearchInv, OneForKey, Replaced
  <2>2. TakenInOrder' /\ Closed' = Closed
    BY <1>1, ArgumentsStay DEF SearchInv, TakenInOrder, Closed, TotalCost
  <2>3. (\A x \in Closed : Expanded(x))'
    BY <1>1, <2>2, ArgumentsStay DEF SearchInv, Expanded, NewCost
  <2>4. (\A node \in allocated : IsLeg(node))'
    BY <1>1, ArgumentsStay DEF SearchInv, IsLeg
  <2> QED
    BY <2>1, <2>2, <2>3, <2>4 DEF SearchInv
<1>4. IsAnswer(path) => IsAnswer(path)'
  BY <1>1, AnswerStays
<1>5. (\A node \in allocated : Replaced(node)) => (\A node \in allocated : Replaced(node))'
  BY <1>1, ArgumentsStay DEF Replaced
<1> QED
  BY <1>1, <1>2, <1>3, <1>4, <1>5 DEF AStarInv

LEMMA NextAStar == AStarInv /\ [Next]_vars => AStarInv'
<1> SUFFICES ASSUME AStarInv, [Next]_vars PROVE AStarInv'
    OBVIOUS
<1>1. SearchTypes /\ (pc = "search" => SearchInv)
  BY DEF AStarInv
<1>2. CASE Reject
  <2>1. end \notin Cell
    BY <1>2, AStarAssumption DEF Reject, Cell
  <2>2. IsAnswer(<<>>)
    BY <1>1, <2>1, NoneIsAnswer
  <2>3. IsAnswer(path)'
    BY <1>2, <2>2, AnswerStays DEF Reject, AStarInv
  <2>4. SearchTypes'
    BY <1>1, <1>2, ArgumentsStay DEF Reject, SearchTypes
  <2> QED
    BY <1>2, <2>3, <2>4 DEF Reject, AStarInv
<1>3. CASE Begin
  BY <1>1, <1>3, BeginEstablishes DEF Begin, AStarInv
<1>4. ASSUME NEW node \in openList, Found(node) PROVE AStarInv'
  <2>1. SearchInv /\ IsAnswer(node.route)
    BY <1>1, <1>4, FoundIsAnswer DEF Found
  <2> QED
    BY <1>1, <1>4, <2>1, ReturnLeaves DEF Found
<1>5. ASSUME NEW node \in openList, Expand(node) PROVE AStarInv'
  <2>1. SearchInv /\ pc = "search" /\ pc' = "search"
    BY <1>1, <1>5 DEF Expand
  <2> QED
    BY <1>1, <1>5, <2>1, ExpandKeepsInv DEF AStarInv
<1>6. CASE Exhausted
  <2>1. SearchInv /\ IsAnswer(<<>>)
    BY <1>1, <1>6, NoneIsAnswer DEF Exhausted
  <2> QED
    BY <1>1, <1>6, <2>1, ReturnLeaves DEF Exhausted
<1>7. CASE UNCHANGED vars
  BY <1>7, UnchangedAStar
<1> QED
  BY <1>2, <1>3, <1>4, <1>5, <1>6, <1>7 DEF Next

\* AStarInv is an invariant of every search.
THEOREM AStarInvariant == Spec => []AStarInv
BY InitAStar, NextAStar, PTL DEF Spec

\* FindPath answers with a walk over the floor from the start to the end, or
\* with the empty path (AStar.cpp:38-60 and :108): what GameLevel assumes of it.
THEOREM AnswerIsRouteAlways == Spec => []AnswerIsRoute
<1>1. AStarInv => AnswerIsRoute
  BY DEF AStarInv, IsAnswer, AnswerIsRoute
<1> QED
  BY <1>1, AStarInvariant, PTL

\* Of all walks to the end that keep away from the twins of the start, however
\* long, none is cheaper than the answer; there is none if it is empty and the
\* start is not the end.
THEOREM NoWalkIsCheaperAlways == Spec => []NoWalkIsCheaper
<1>1. AStarInv => NoWalkIsCheaper
  BY DEF AStarInv, IsAnswer, NoWalkIsCheaper
<1> QED
  BY <1>1, AStarInvariant, PTL

\* What FindPath does not delete was replaced by a cheaper node in allNodes
\* (AStar.cpp:53 and :101).
THEOREM OnlyReplacedLeakAlways == Spec => []OnlyReplacedLeak
<1>1. AStarInv => OnlyReplacedLeak
  BY DEF AStarInv, Replaced, OnlyReplacedLeak
<1> QED
  BY <1>1, AStarInvariant, PTL

\* A step never replaces a node that was taken from the list: an improvement
\* would be taken before it.
LEMMA StepKeepsTaken ==
    ASSUME AStarInv, [Next]_vars, pc = "search", pc' = "search"
    PROVE  allNodes \ openList \subseteq allNodes'
<1>1. SearchTypes /\ SearchInv
  BY DEF AStarInv
<1>2. ASSUME NEW node \in openList, Expand(node) PROVE Closed \subseteq allNodes'
  <2> SUFFICES ASSUME NEW x \in Closed, NEW cell \in Improved(node), SameKey(At(x), cell)
               PROVE  FALSE
    BY <1>1, <1>2, ExpandMeans DEF Kept, Closed
  <2>1. x \in allNodes /\ x \in Nodes /\ node \in Nodes
    BY <1>1 DEF Closed, SearchTypes
  <2>2. /\ cell \in Floor /\ NewCost(node, cell) < x.g /\ At(x) = cell
        /\ x.route # <<>>
    BY <1>1, <2>1, ImprovedCells
  <2>3. TotalCost(x) <= TotalCost(node)
    BY <1>1 DEF SearchInv, TakenInOrder
  <2>4. /\ TotalCost(node) <= TotalCost(Onward(node, cell))
        /\ TotalCost(Onward(node, cell)) = NewCost(node, cell) + Heuristic(cell, end)
        /\ NewCost(node, cell) \in Nat
    BY <1>1, <2>1, <2>2, OnwardLeads
  <2>5. TotalCost(x) = x.g + Heuristic(cell, end)
    BY <2>2 DEF TotalCost
  <2>6. Heuristic(cell, end) \in Nat
    BY <1>1, <2>2, Places, Prices
  <2>7. x.g \in Nat /\ TotalCost(node) \in Nat
    BY <1>1, <2>1, NodePlaces DEF Nodes
  <2> QED
    BY <2>2, <2>3, <2>4, <2>5, <2>6, <2>7
<1>3. CASE UNCHANGED vars
  BY <1>3 DEF vars
<1> QED
  BY <1>2, <1>3 DEF Next, Reject, Begin, Found, Exhausted, Return, Closed

\* No node that was taken from the list is improved on (AStar.cpp:80-91): the
\* chains of parents that answers are read from do not change.
THEOREM TakenIsFinalAlways == Spec => TakenIsFinal
<1>1. AStarInv /\ [Next]_vars =>
         [ pc = "search" /\ pc' = "search" => allNodes \ openList \subseteq allNodes' ]_vars
  BY StepKeepsTaken
<1> QED
  BY <1>1, AStarInvariant, PTL DEF Spec, TakenIsFinal

-----------------------------------------------------------------------------
(***************************************************************************)
(* Why a search ends: what its steps use up.                               *)
(***************************************************************************)

\* A step closes one more node for good, or it drops a node that was replaced
\* from the list and adds none.
Progress ==
    /\ Closed \subseteq Closed'
    /\ \/ Closed' # Closed
       \/ openList' \subseteq openList /\ openList' # openList

\* A node of allNodes that is taken stays there, and is on the list no more.
LEMMA NodeIsClosed ==
    ASSUME SearchTypes, SearchInv, NEW node \in openList, Expand(node), node \in allNodes
    PROVE  node \in Closed'
<1>1. /\ openList' = (openList \ {node}) \cup Pushed(node)
      /\ allNodes' = Kept(node) \cup Pushed(node)
  BY ExpandMeans
<1>2. ASSUME NEW cell \in Improved(node)
      PROVE  At(Onward(node, cell)) = cell /\ cell # At(node) /\ ~ SameKey(At(node), cell)
  <2>1. node \in Nodes /\ cell \in Floor /\ Adjacent(At(node), cell)
    BY ImprovedCells DEF SearchTypes
  <2>2. At(Onward(node, cell)) = cell /\ cell # At(node)
    BY <2>1, OnwardLeads DEF Adjacent
  <2>3. ~ SameKey(At(node), cell)
    BY <2>2, ImprovedCells
  <2> QED
    BY <2>2, <2>3
<1>3. node \in Kept(node)
  BY <1>2 DEF Kept
<1>4. node \notin Pushed(node)
  BY <1>2 DEF Pushed
<1> QED
  BY <1>1, <1>3, <1>4 DEF Closed

LEMMA StepProgresses ==
    ASSUME AStarInv, Next, pc = "search", pc' = "search"
    PROVE  Progress
<1>1. SearchTypes /\ SearchInv
  BY DEF AStarInv
<1>2. PICK node \in openList : Expand(node)
  BY DEF Next, Reject, Begin, Found, Exhausted, Return
<1>3. /\ openList' = (openList \ {node}) \cup Pushed(node)
      /\ allNodes' = Kept(node) \cup Pushed(node)
      /\ node \notin allNodes => Improved(node) = {}
  BY <1>1, <1>2, ExpandMeans
<1>4. ASSUME NEW cell \in Improved(node)
      PROVE  /\ At(Onward(node, cell)) = cell
             /\ SameKey(cell, cell)
             /\ Onward(node, cell).g = NewCost(node, cell)
             /\ NewCost(node, cell) \in Nat
             /\ \A known \in allNodes : SameKey(At(known), cell) =>
                   At(known) = cell /\ NewCost(node, cell) < known.g
  <2>1. node \in Nodes /\ cell \in Floor /\ Adjacent(At(node), cell)
    BY <1>1, ImprovedCells DEF SearchTypes
  <2> QED
    BY <1>1, <2>1, ImprovedCells, OnwardLeads, Places, Keys DEF Onward
<1>5. Closed \subseteq Closed'
  <2> SUFFICES ASSUME NEW x \in Closed PROVE x \in allNodes' /\ x \notin openList'
    BY DEF Closed
  <2>1. x \in allNodes'
    BY StepKeepsTaken DEF Closed
  <2>2. x \in allNodes /\ x \notin openList
    BY DEF Closed
  <2>3. ASSUME NEW cell \in Improved(node), x = Onward(node, cell) PROVE FALSE
    <3>1. NewCost(node, cell) < x.g /\ x.g = NewCost(node, cell) /\ x.g \in Nat
      BY <1>4, <2>2, <2>3
    <3> QED
      BY <3>1
  <2> QED
    BY <1>3, <2>1, <2>2, <2>3 DEF Pushed
<1>6. CASE node \in allNodes
  <2>1. node \in Closed'
    BY <1>1, <1>2, <1>6, NodeIsClosed
  <2>2. node \notin Closed
    BY DEF Closed
  <2>4. Closed' # Closed
    BY <2>1, <2>2, Zenon
  <2> QED
    BY <1>5, <2>4, Zenon DEF Progress
<1>7. CASE node \notin allNodes
  <2>1. Pushed(node) = {}
    BY <1>3, <1>7 DEF Pushed
  <2> QED
    BY <1>3, <1>5, <2>1 DEF Progress
<1> QED
  BY <1>6, <1>7

\* However the costs are, no step of the search repeats what was done: each
\* takes a node out of the list for good (AStar.cpp:34-105).
THEOREM SearchProgresses ==
    Spec => [][ pc = "search" /\ pc' = "search" => Progress ]_vars
<1>1. AStarInv /\ [Next]_vars => [ pc = "search" /\ pc' = "search" => Progress ]_vars
  BY StepProgresses
<1> QED
  BY <1>1, AStarInvariant, PTL DEF Spec

\* There is one node at most for a position, on the floor but for the first.
ClosedAreFew ==
    pc = "search" => IsFiniteSet(Closed) /\ Cardinality(Closed) <= Width * Height + 1

\* The number of a cell, row by row.
LEMMA CellNumbers ==
    ASSUME NEW p \in Cell, NEW q \in Cell
    PROVE  /\ p.y * Width + p.x \in Nat /\ p.y * Width + p.x < Width * Height
           /\ p.y * Width + p.x = q.y * Width + q.x => p = q
<1>1. /\ Width \in Nat \ {0} /\ Height \in Nat
      /\ p.x \in 0..(Width - 1) /\ p.y \in 0..(Height - 1)
      /\ q.x \in 0..(Width - 1) /\ q.y \in 0..(Height - 1)
  BY AStarAssumption DEF Cell
<1>2. \A a, b, w \in Nat : a < b => a * w + w <= b * w
  <2> TAKE a, b, w \in Nat
  <2> HAVE a < b
  <2>1. b = a + 1 + (b - a - 1) /\ b - a - 1 \in Nat
    OBVIOUS
  <2>2. b * w = a * w + w + (b - a - 1) * w
    BY <2>1
  <2>3. \A c \in Nat : c * w >= 0
    OBVIOUS
  <2> QED
    BY <2>1, <2>2, <2>3
<1>3. p.y * Width + Width <= Height * Width /\ Height * Width = Width * Height
  BY <1>1, <1>2
<1>4. p.y * Width \in Nat /\ q.y * Width \in Nat /\ Width * Height \in Nat
  BY <1>1
<1>5. ASSUME p.y * Width + p.x = q.y * Width + q.x PROVE p = q
  <2>1. ~ (p.y < q.y)
    <3> SUFFICES ASSUME p.y < q.y PROVE FALSE
      OBVIOUS
    <3>1. p.y * Width + Width <= q.y * Width
      BY <1>1, <1>2
    <3> QED
      BY <1>1, <1>4, <1>5, <3>1
  <2>2. ~ (q.y < p.y)
    <3> SUFFICES ASSUME q.y < p.y PROVE FALSE
      OBVIOUS
    <3>1. q.y * Width + Width <= p.y * Width
      BY <1>1, <1>2
    <3> QED
      BY <1>1, <1>4, <1>5, <3>1
  <2>3. p.y = q.y
    BY <1>1, <2>1, <2>2
  <2>4. p.x = q.x
    BY <1>1, <1>4, <1>5, <2>3
  <2> QED
    BY <2>3, <2>4 DEF Cell
<1> QED
  BY <1>1, <1>3, <1>4, <1>5

LEMMA FewAreClosed == AStarInv => ClosedAreFew
<1> SUFFICES ASSUME AStarInv, pc = "search"
             PROVE  IsFiniteSet(Closed) /\ Cardinality(Closed) <= Width * Height + 1
  BY DEF ClosedAreFew
<1>1. SearchTypes /\ SearchInv
  BY DEF AStarInv
<1> DEFINE number(node) == At(node).y * Width + At(node).x
           f == [node \in Closed |->
                   IF node.route = <<>> THEN Width * Height ELSE number(node)]
           T == 0..(Width * Height)
<1>2. Width * Height \in Nat
  BY AStarAssumption
<1>3. ASSUME NEW m \in Closed
      PROVE  /\ m.route = <<>> => m = StartNode
             /\ m.route # <<>> => At(m) \in Cell
             /\ At(m) \in Position
  BY <1>1, NodePlaces, Places DEF Closed, SearchTypes, SearchInv, OneForKey
<1>4. ASSUME NEW m \in Closed PROVE f[m] \in T
  BY <1>2, <1>3, CellNumbers
<1>5. ASSUME NEW m \in Closed, NEW n \in Closed, f[m] = f[n] PROVE m = n
  <2>1. CASE m.route = <<>> /\ n.route = <<>>
    BY <1>3, <2>1
  <2>2. CASE m.route # <<>> /\ n.route # <<>>
    <3>1. At(m) = At(n)
      BY <1>3, <1>5, <2>2, CellNumbers
    <3>2. SameKey(At(m), At(n))
      BY <1>3, <3>1, Keys
    <3> QED
      BY <1>1, <3>2 DEF SearchInv, OneForKey, Closed
  <2>3. CASE m.route = <<>> /\ n.route # <<>>
    <3>1. f[n] < f[m]
      BY <1>3, <2>3, CellNumbers
    <3>2. f[n] \in Nat
      BY <1>2, <1>4
    <3> QED
      BY <1>5, <3>1, <3>2
  <2>4. CASE m.route # <<>> /\ n.route = <<>>
    <3>1. f[m] < f[n]
      BY <1>3, <2>4, CellNumbers
    <3>2. f[m] \in Nat
      BY <1>2, <1>4
    <3> QED
      BY <1>5, <3>1, <3>2
  <2> QED
    BY <2>1, <2>2, <2>3, <2>4
<1>6. f \in Injection(Closed, T)
  <2>1. f \in [Closed -> T]
    BY <1>4
  <2> HIDE DEF f, T
  <2> QED
    BY <1>5, <2>1, Fun_IsInj
<1>7. IsFiniteSet(T) /\ Cardinality(T) = Width * Height + 1
  BY <1>2, FS_Interval
<1> HIDE DEF f, T
<1> QED
  BY <1>6, <1>7, FS_Injection

\* With SearchProgresses, what a search can close is used up after at most
\* Width * Height + 1 of its steps; the others shorten the list.
THEOREM ClosedAreFewAlways == Spec => []ClosedAreFew
  BY FewAreClosed, AStarInvariant, PTL

-----------------------------------------------------------------------------
(***************************************************************************)
(* The reference of the runs: it has the answer, which costs no more than  *)
(* MaxCost.                                                                *)
(***************************************************************************)

\* No cell of the route has the key of the start.
LeavesStart(route) == \A i \in 1..Len(route) : ~ SameKey(route[i], start)

\* What a node costs was paid by nodes taken before it, 2 by each at most.
RouteInv ==
    /\ pc = "search" =>
          \A node \in allocated :
             LeavesStart(node.route) /\ node.g <= 2 * Cardinality(Closed)
    /\ pc = "done" =>
          /\ LeavesStart(path) /\ IsWalk(path)
          /\ \E paid : Costs(path, paid) /\ paid[Len(path)] <= MaxCost

\* A step costs 1 or 2.
LEMMA PriceOfStep ==
    ASSUME NEW a \in Point, NEW b \in Point, Adjacent(a, b)
    PROVE  Heuristic(a, b) \in 1..2
<1>1. a.x \in Int /\ a.y \in Int /\ b.x \in Int /\ b.y \in Int
  BY DEF Point
<1>2. a.x - b.x \in -1..1 /\ a.y - b.y \in -1..1
  BY DEF Adjacent
<1>3. a.x # b.x \/ a.y # b.y
  BY DEF Adjacent, Point
<1>4. /\ Abs(a.x - b.x) \in 0..1 /\ (Abs(a.x - b.x) = 0 => a.x = b.x)
      /\ Abs(a.y - b.y) \in 0..1 /\ (Abs(a.y - b.y) = 0 => a.y = b.y)
  BY <1>1, <1>2 DEF Abs
<1> QED
  BY <1>3, <1>4 DEF Heuristic

LEMMA NoSteps ==
    /\ LeavesStart(<<>>) /\ IsWalk(<<>>)
    /\ \E paid : Costs(<<>>, paid) /\ paid[Len(<<>>)] = 0
<1> DEFINE paid == [i \in 0..0 |-> 0]
<1>1. Len(<<>>) = 0 /\ paid \in [0..0 -> Nat] /\ paid[0] = 0
  OBVIOUS
<1>2. ~ \E i : i \in 1..0
  OBVIOUS
<1> HIDE DEF paid
<1>3. Costs(<<>>, paid) /\ paid[Len(<<>>)] = 0
  BY <1>1, <1>2 DEF Costs
<1>4. LeavesStart(<<>>) /\ IsWalk(<<>>)
  BY <1>1, <1>2 DEF LeavesStart, IsWalk
<1> QED
  BY <1>3, <1>4

\* An answer with these properties keeps them.
LEMMA RouteStays ==
    ASSUME NEW route, NEW paid, UNCHANGED <<walls, start, end>>, pc' = "done", path' = route,
           LeavesStart(route), IsWalk(route), Costs(route, paid), paid[Len(route)] <= MaxCost
    PROVE  RouteInv'
<1>1. LeavesStart(path)'
  BY DEF LeavesStart
<1>2. IsWalk(path)' /\ Costs(path, paid)' /\ (paid[Len(path)] <= MaxCost)'
  BY ArgumentsStay
<1> QED
  BY <1>1, <1>2 DEF RouteInv

LEMMA ExpandKeepsRoutes ==
    ASSUME AStarInv, AStarInv', RouteInv, NEW node \in openList, Expand(node)
    PROVE  RouteInv'
<1>1. /\ SearchTypes /\ SearchInv /\ pc' = "search" /\ start' = start
      /\ allocated' = allocated \cup Pushed(node)
      /\ node \notin allNodes => Improved(node) = {}
  BY ExpandMeans DEF AStarInv, Expand
<1>2. Closed \subseteq Closed'
  BY <1>1, StepProgresses DEF Next, Expand, Progress
<1>3. IsFiniteSet(Closed) /\ IsFiniteSet(Closed')
  <2>1. (AStarInv => ClosedAreFew)'
    BY FewAreClosed, PTL
  <2> QED
    BY <1>1, <2>1, FewAreClosed DEF ClosedAreFew, Expand
<1>4. /\ Cardinality(Closed) \in Nat /\ Cardinality(Closed') \in Nat
      /\ Cardinality(Closed) <= Cardinality(Closed')
  BY <1>2, <1>3, FS_Subset, FS_CardinalityType
<1>5. ASSUME NEW other \in allocated
      PROVE  LeavesStart(other.route)' /\ other.g <= 2 * Cardinality(Closed')
  <2>1. LeavesStart(other.route) /\ other.g <= 2 * Cardinality(Closed) /\ other.g \in Nat
    BY <1>1 DEF RouteInv, Expand, SearchTypes, Nodes
  <2> QED
    BY <1>1, <1>4, <2>1 DEF LeavesStart
<1>6. ASSUME NEW cell \in Improved(node), NEW other, other = Onward(node, cell)
      PROVE  LeavesStart(other.route)' /\ other.g <= 2 * Cardinality(Closed')
  <2>1. /\ node \in Nodes /\ node \in allocated /\ node \in allNodes
        /\ node.route \in Seq(Floor) /\ node.g \in Nat
    BY <1>1 DEF SearchTypes, SearchInv, OneForKey, Nodes
  <2>2. LeavesStart(node.route) /\ node.g <= 2 * Cardinality(Closed)
    BY <1>1, <2>1 DEF RouteInv, Expand
  <2>3. cell \in Floor /\ Adjacent(At(node), cell) /\ ~ SameKey(cell, start)
    BY <1>1, ImprovedCells
  <2>4. LeavesStart(Append(node.route, cell))
    BY <2>1, <2>2, <2>3 DEF LeavesStart
  <2>5. NewCost(node, cell) <= node.g + 2 /\ NewCost(node, cell) \in Nat
    <3>1. Heuristic(At(node), cell) \in 1..2
      BY <1>1, <2>1, <2>3, NodePlaces, Places, PriceOfStep
    <3> QED
      BY <2>1, <3>1 DEF NewCost
  <2>6. Cardinality(Closed) + 1 <= Cardinality(Closed')
    <3>1. node \in Closed' /\ node \notin Closed
      BY <1>1, <2>1, NodeIsClosed DEF Closed
    <3>2. IsFiniteSet(Closed \cup {node}) /\ Cardinality(Closed \cup {node}) = Cardinality(Closed) + 1
      BY <1>3, <3>1, FS_AddElement
    <3>3. Closed \cup {node} \subseteq Closed'
      BY <1>2, <3>1
    <3> QED
      BY <1>3, <3>2, <3>3, FS_Subset
  <2>7. other.route = Append(node.route, cell) /\ other.g = NewCost(node, cell)
    BY <1>6 DEF Onward
  <2> QED
    BY <1>1, <1>4, <2>1, <2>2, <2>4, <2>5, <2>6, <2>7 DEF LeavesStart
<1>7. \A other \in allocated' :
         LeavesStart(other.route)' /\ other.g <= 2 * Cardinality(Closed')
  <2> SUFFICES ASSUME NEW other \in allocated'
               PROVE  LeavesStart(other.route)' /\ other.g <= 2 * Cardinality(Closed')
    OBVIOUS
  <2>1. CASE other \in allocated
    BY <1>5, <2>1
  <2>2. CASE other \in Pushed(node)
    <3>1. PICK cell \in Improved(node) : other = Onward(node, cell)
      BY <2>2 DEF Pushed
    <3> QED
      BY <1>6, <3>1
  <2> QED
    BY <1>1, <2>1, <2>2
<1> QED
  BY <1>1, <1>7 DEF RouteInv

LEMMA NextRoute == AStarInv /\ AStarInv' /\ RouteInv /\ [Next]_vars => RouteInv'
<1> SUFFICES ASSUME AStarInv, AStarInv', RouteInv, [Next]_vars PROVE RouteInv'
    OBVIOUS
<1>0. MaxCost \in Nat /\ Width * Height \in Nat
  BY MaxCostAssumption, AStarAssumption
<1>1. CASE Reject
  <2>1. path' = <<>>
    BY <1>1 DEF Reject, AStarInv
  <2> QED
    BY <1>0, <1>1, <2>1, NoSteps, RouteStays DEF Reject
<1>2. CASE Begin
  <2>1. allocated' = {StartNode} /\ Closed' = {} /\ pc' = "search"
    BY <1>2 DEF Begin, Closed
  <2>2. Cardinality(Closed') = 0
    BY <2>1, FS_EmptySet
  <2>3. Len(<<>>) = 0 /\ ~ \E i : i \in 1..0
    OBVIOUS
  <2> QED
    BY <2>1, <2>2, <2>3 DEF RouteInv, StartNode, LeavesStart
<1>3. ASSUME NEW node \in openList, Found(node) PROVE RouteInv'
  <2>1. /\ node \in allocated /\ IsLeg(node) /\ node.g \in Nat
        /\ LeavesStart(node.route) /\ node.g <= 2 * Cardinality(Closed)
    BY <1>3 DEF Found, AStarInv, SearchInv, OneForKey, RouteInv, SearchTypes, Nodes
  <2>2. node.g <= MaxCost
    <3>1. IsFiniteSet(Closed) /\ Cardinality(Closed) <= Width * Height + 1
      BY <1>3, FewAreClosed DEF ClosedAreFew, Found
    <3>2. Cardinality(Closed) \in Nat
      BY <3>1, FS_CardinalityType
    <3> QED
      BY <1>0, <2>1, <3>1, <3>2, MaxCostAssumption
  <2>3. PICK paid : Costs(node.route, paid) /\ paid[Len(node.route)] = node.g
    BY <2>1 DEF IsLeg
  <2> QED
    BY <1>3, <2>1, <2>2, <2>3, RouteStays DEF Found, Return, IsLeg
<1>4. ASSUME NEW node \in openList, Expand(node) PROVE RouteInv'
  BY <1>4, ExpandKeepsRoutes
<1>5. CASE Exhausted
  BY <1>0, <1>5, NoSteps, RouteStays DEF Exhausted, Return
<1>6. CASE UNCHANGED vars
  <2>1. UNCHANGED <<walls, start, end, openList, allNodes, allocated, pc, path>>
    BY <1>6 DEF vars
  <2>2. Closed' = Closed /\ \A route : LeavesStart(route)' <=> LeavesStart(route)
    BY <2>1 DEF Closed, LeavesStart
  <2> QED
    BY <2>1, <2>2, ArgumentsStay DEF RouteInv
<1> QED
  BY <1>1, <1>2, <1>3, <1>4, <1>5, <1>6 DEF Next

\* The walks of a cost that keep away from the twins, and those among them
\* that lead where no cheaper one does.
WalksAt(c) ==
    { r \in Seq(Around!Floor) :
        IsWalk(r) /\ \E costs : Costs(r, costs) /\ costs[Len(r)] = c }

CheapestAt(c) ==
    { r \in WalksAt(c) :
        \A d \in 0..(c - 1) : \A q \in WalksAt(d) : EndOf(start, q) # EndOf(start, r) }

LEMMA AroundFloor ==
    /\ Around!Floor \subseteq Floor
    /\ Seq(Around!Floor) \subseteq Seq(Floor)
<1>1. Around!Floor \subseteq Floor
  BY DEF Around!Floor, Around!Cell, Cell, Floor
<1> QED
  BY <1>1

LEMMA WalkEnds ==
    ASSUME SearchTypes, NEW r \in Seq(Floor)
    PROVE  EndOf(start, r) \in Point /\ EndOf(start, r) = After(r, Len(r))
<1>1. r # <<>> => r[Len(r)] \in Floor /\ Len(r) # 0
  OBVIOUS
<1>2. r = <<>> => Len(r) = 0
  OBVIOUS
<1> QED
  BY <1>1, <1>2, Places DEF EndOf, After

\* A walk goes on with any step,
LEMMA WalkOn ==
    ASSUME SearchTypes, NEW c \in Nat, NEW r \in WalksAt(c), NEW cell \in Around!Floor,
           Adjacent(EndOf(start, r), cell)
    PROVE  /\ Append(r, cell) \in WalksAt(c + Heuristic(EndOf(start, r), cell))
           /\ EndOf(start, Append(r, cell)) = cell
<1> DEFINE node == [route |-> r, g |-> c]
<1>1. /\ r \in Seq(Floor) /\ r \in Seq(Around!Floor) /\ cell \in Floor
      /\ node \in Nodes /\ IsLeg(node)
  BY AroundFloor DEF WalksAt, Nodes, IsLeg
<1>2. At(node) = EndOf(start, r)
  BY DEF At
<1>3. IsLeg(Onward(node, cell))
  BY <1>1, <1>2, OnwardIsLeg
<1>4. /\ Onward(node, cell).route = Append(r, cell)
      /\ Onward(node, cell).g = c + Heuristic(EndOf(start, r), cell)
  BY <1>2 DEF Onward, NewCost
<1>5. /\ Append(r, cell) \in Seq(Around!Floor) /\ Append(r, cell) # <<>>
      /\ Append(r, cell)[Len(Append(r, cell))] = cell
  BY <1>1
<1>6. EndOf(start, Append(r, cell)) = cell
  BY <1>5 DEF EndOf
<1> HIDE DEF node
<1> QED
  BY <1>3, <1>4, <1>5, <1>6 DEF IsLeg, WalksAt

\* and every walk but the empty one is one that went on.
LEMMA WalkBack ==
    ASSUME SearchTypes, NEW c \in Nat, NEW r \in WalksAt(c), r # <<>>
    PROVE  \E q \in Seq(Around!Floor), cell \in Around!Floor :
              /\ r = Append(q, cell)
              /\ Adjacent(EndOf(start, q), cell)
              /\ Heuristic(EndOf(start, q), cell) \in 1..2
              /\ Heuristic(EndOf(start, q), cell) <= c
              /\ q \in WalksAt(c - Heuristic(EndOf(start, q), cell))
<1> DEFINE n == Len(r) - 1
           q == SubSeq(r, 1, n)
           cell == r[Len(r)]
<1>1. PICK costs : Costs(r, costs) /\ costs[Len(r)] = c
  BY DEF WalksAt
<1>2. /\ r \in Seq(Around!Floor) /\ n \in Nat /\ Len(r) = n + 1
      /\ cell \in Around!Floor
  BY DEF WalksAt
<1>3. /\ q \in Seq(Around!Floor) /\ Len(q) = n
      /\ \A i \in 1..n : q[i] = r[i]
  BY <1>2
<1>4. r = Append(q, cell)
  BY <1>2, <1>3
<1> HIDE DEF q
<1>5. \A i \in 0..n : After(q, i) = After(r, i)
  BY <1>3 DEF After
<1>6. EndOf(start, q) = After(r, n) /\ EndOf(start, q) \in Point
  BY <1>2, <1>3, <1>5, WalkEnds, AroundFloor
<1>7. After(r, n + 1) = cell /\ cell \in Point
  BY <1>2, AroundFloor, Places DEF After
<1> HIDE DEF n, cell
<1>8. n + 1 \in 1..Len(r) /\ (n + 1) - 1 = n
  BY <1>2
<1>9. Adjacent(EndOf(start, q), cell)
  BY <1>6, <1>7, <1>8 DEF WalksAt, IsWalk
<1>10. Heuristic(EndOf(start, q), cell) \in 1..2
  BY <1>6, <1>7, <1>9, PriceOfStep
<1>11. c = costs[n] + Heuristic(EndOf(start, q), cell) /\ costs[n] \in Nat
  BY <1>1, <1>2, <1>6, <1>7, <1>8 DEF Costs
<1>12. IsWalk(q)
  <2> SUFFICES ASSUME NEW i \in 1..n PROVE Adjacent(After(q, i - 1), After(q, i))
    BY <1>3 DEF IsWalk
  <2>1. i \in 1..Len(r) /\ i \in 0..n /\ i - 1 \in 0..n
    BY <1>2
  <2> QED
    BY <1>5, <2>1 DEF WalksAt, IsWalk
<1>13. \E paid : Costs(q, paid) /\ paid[Len(q)] = costs[n]
  <2> DEFINE paid == [i \in 0..n |-> costs[i]]
  <2>1. \A i \in 0..n : costs[i] \in Nat /\ paid[i] = costs[i]
    BY <1>1, <1>2 DEF Costs
  <2>2. paid \in [0..n -> Nat] /\ paid[0] = 0
    BY <1>1, <1>2, <2>1 DEF Costs
  <2>3. ASSUME NEW i \in 1..n
        PROVE  paid[i] = paid[i - 1] + Heuristic(After(q, i - 1), After(q, i))
    <3>1. i \in 1..Len(r) /\ i \in 0..n /\ i - 1 \in 0..n
      BY <1>2
    <3>2. costs[i] = costs[i - 1] + Heuristic(After(r, i - 1), After(r, i))
      BY <1>1, <3>1 DEF Costs
    <3> HIDE DEF paid
    <3> QED
      BY <1>5, <2>1, <3>1, <3>2
  <2>4. n \in 0..n
    BY <1>2
  <2> HIDE DEF paid
  <2> QED
    BY <1>3, <2>1, <2>2, <2>3, <2>4 DEF Costs
<1>14. q \in WalksAt(costs[n])
  BY <1>3, <1>12, <1>13 DEF WalksAt
<1>15. /\ costs[n] = c - Heuristic(EndOf(start, q), cell)
       /\ Heuristic(EndOf(start, q), cell) <= c
  BY <1>10, <1>11
<1> QED
  BY <1>2, <1>3, <1>4, <1>9, <1>10, <1>14, <1>15

\* Where a walk leads, a cheapest one does.
LEMMA CheapestExists ==
    ASSUME NEW d \in Nat, NEW q \in WalksAt(d)
    PROVE  \E c \in 0..d : \E r \in CheapestAt(c) : EndOf(start, r) = EndOf(start, q)
<1> DEFINE S == { c \in Nat : \E r \in WalksAt(c) : EndOf(start, r) = EndOf(start, q) }
<1>1. d \in S
  OBVIOUS
<1>2. PICK c \in S : \A e \in S : c <= e
  <2>1. S \subseteq Nat /\ S # {}
    BY <1>1
  <2> HIDE DEF S
  <2> QED
    BY <2>1, FirstOf
<1>3. PICK r \in WalksAt(c) : EndOf(start, r) = EndOf(start, q)
  OBVIOUS
<1>4. c \in 0..d
  BY <1>1, <1>2
<1>5. \A e \in 0..(c - 1) : e \in Nat /\ ~ (c <= e)
  BY <1>4
<1>6. r \in CheapestAt(c)
  <2> SUFFICES ASSUME NEW e \in 0..(c - 1), NEW p \in WalksAt(e),
                      EndOf(start, p) = EndOf(start, r)
               PROVE  FALSE
    BY DEF CheapestAt
  <2>1. e \in S
    BY <1>3, <1>5
  <2> HIDE DEF S
  <2> QED
    BY <1>2, <1>5, <2>1
<1> QED
  BY <1>3, <1>4, <1>6

LEMMA CheapestOfAll == SearchTypes => CheapestAt(0) = { <<>> }
<1> SUFFICES ASSUME SearchTypes PROVE CheapestAt(0) = { <<>> }
    OBVIOUS
<1>1. <<>> \in WalksAt(0)
  BY NoSteps DEF WalksAt
<1>2. ASSUME NEW r \in WalksAt(0), r # <<>> PROVE FALSE
  BY <1>2, WalkBack
<1>3. ~ \E d : d \in 0..(0 - 1)
  OBVIOUS
<1> QED
  BY <1>1, <1>2, <1>3 DEF CheapestAt

\* One cost more, from all lower ones.
LEMMA DearerIsCheapest ==
    ASSUME SearchTypes, NEW c \in Nat \ {0}, NEW before,
           \A d \in 1..c : before[d] = CheapestAt(d - 1)
    PROVE  Around!Dearer(start, before, c) = CheapestAt(c)
<1> DEFINE taken == { EndOf(start, r) : r \in UNION { before[d] : d \in 1..c } }
           after(price) ==
             IF c < price THEN {}
             ELSE UNION { { Append(r, cell) : cell \in
                              { n \in Around!Floor \ taken :
                                  /\ Adjacent(EndOf(start, r), n)
                                  /\ Heuristic(EndOf(start, r), n) = price } }
                          : r \in before[c - price + 1] }
<1>1. Around!Dearer(start, before, c) = after(1) \cup after(2)
  BY DEF Around!Dearer, Around!EndOf, Around!Adjacent, Around!Heuristic, Around!Abs,
         EndOf, Adjacent, Heuristic, Abs
<1>2. \A cell : cell \in taken <=>
         \E d \in 0..(c - 1) : \E r \in CheapestAt(d) : EndOf(start, r) = cell
  <2>1. ASSUME NEW cell \in taken
        PROVE  \E d \in 0..(c - 1) : \E r \in CheapestAt(d) : EndOf(start, r) = cell
    <3>1. PICK d \in 1..c : \E r \in before[d] : EndOf(start, r) = cell
      OBVIOUS
    <3>2. d - 1 \in 0..(c - 1)
      OBVIOUS
    <3> QED
      BY <3>1, <3>2
  <2>2. ASSUME NEW d \in 0..(c - 1), NEW r \in CheapestAt(d)
        PROVE  EndOf(start, r) \in taken
    <3>1. d + 1 \in 1..c /\ (d + 1) - 1 = d
      OBVIOUS
    <3>2. r \in before[d + 1]
      BY <3>1
    <3> QED
      BY <3>1, <3>2
  <2> QED
    BY <2>1, <2>2
<1> HIDE DEF taken
<1>3. ASSUME NEW r \in CheapestAt(c) PROVE r \in after(1) \cup after(2)
  <2>1. r \in WalksAt(c) /\ r # <<>>
    <3>1. \A costs : Costs(<<>>, costs) => costs[Len(<<>>)] = 0
      BY DEF Costs
    <3> QED
      BY <3>1 DEF CheapestAt, WalksAt
  <2>2. PICK q \in Seq(Around!Floor), cell \in Around!Floor :
              /\ r = Append(q, cell)
              /\ Adjacent(EndOf(start, q), cell)
              /\ Heuristic(EndOf(start, q), cell) \in 1..2
              /\ Heuristic(EndOf(start, q), cell) <= c
              /\ q \in WalksAt(c - Heuristic(EndOf(start, q), cell))
    BY <2>1, WalkBack
  <2> DEFINE price == Heuristic(EndOf(start, q), cell)
  <2>3. price \in 1..2 /\ price <= c /\ c - price \in Nat /\ c - price \in 0..(c - 1)
    BY <2>2
  <2>4. EndOf(start, r) = cell
    BY <2>2, <2>3, WalkOn
  <2>5. cell \notin taken
    <3> SUFFICES ASSUME NEW d \in 0..(c - 1), NEW p \in CheapestAt(d), EndOf(start, p) = cell
                 PROVE  FALSE
      BY <1>2
    <3>1. p \in WalksAt(d)
      BY DEF CheapestAt
    <3> QED
      BY <2>4, <3>1 DEF CheapestAt
  <2>6. q \in CheapestAt(c - price)
    <3> SUFFICES ASSUME NEW d \in 0..(c - price - 1), NEW p \in WalksAt(d),
                        EndOf(start, p) = EndOf(start, q)
                 PROVE  FALSE
      BY <2>2 DEF CheapestAt
    <3>1. d \in Nat /\ d + price \in 0..(c - 1)
      BY <2>3
    <3>2. Append(p, cell) \in WalksAt(d + price) /\ EndOf(start, Append(p, cell)) = cell
      BY <2>2, <3>1, WalkOn
    <3> HIDE DEF price
    <3> QED
      BY <2>4, <3>1, <3>2 DEF CheapestAt
  <2>7. q \in before[c - price + 1]
    <3>1. c - price + 1 \in 1..c /\ (c - price + 1) - 1 = c - price
      BY <2>3
    <3> HIDE DEF price
    <3> QED
      BY <2>6, <3>1
  <2>8. r \in after(price)
    BY <2>2, <2>3, <2>5, <2>7
  <2> QED
    BY <2>3, <2>8
<1>4. ASSUME NEW price \in 1..2, NEW r \in after(price) PROVE r \in CheapestAt(c)
  <2>1. price <= c
    BY <1>4
  <2>2. PICK q \in before[c - price + 1], cell \in Around!Floor \ taken :
           /\ r = Append(q, cell) /\ Adjacent(EndOf(start, q), cell)
           /\ Heuristic(EndOf(start, q), cell) = price
    BY <2>1
  <2>3. c - price + 1 \in 1..c /\ (c - price + 1) - 1 = c - price /\ c - price \in Nat
    BY <2>1
  <2>4. q \in WalksAt(c - price)
    BY <2>2, <2>3 DEF CheapestAt
  <2>5. r \in WalksAt((c - price) + price) /\ EndOf(start, r) = cell
    BY <2>2, <2>3, <2>4, WalkOn
  <2>6. r \in WalksAt(c)
    BY <2>3, <2>5
  <2>7. ASSUME NEW d \in 0..(c - 1), NEW p \in WalksAt(d), EndOf(start, p) = cell
        PROVE  FALSE
    <3>1. PICK e \in 0..d : \E t \in CheapestAt(e) : EndOf(start, t) = cell
      BY <2>7, CheapestExists
    <3>2. e \in 0..(c - 1)
      OBVIOUS
    <3> QED
      BY <1>2, <2>2, <3>1, <3>2
  <2> QED
    BY <2>5, <2>6, <2>7 DEF CheapestAt
<1> HIDE DEF after
<1> QED
  BY <1>1, <1>3, <1>4

\* The reference is what it says: member c + 1 are the cheapest walks of cost c.
LEMMA ByCost ==
    ASSUME SearchTypes, NEW max \in Nat
    PROVE  Around!CheapestByCost(start, max) = [d \in 1..(max + 1) |-> CheapestAt(d - 1)]
<1> DEFINE upTo(c) == [d \in 1..(c + 1) |-> CheapestAt(d - 1)]
           F(g) == [c \in 0..max |->
                      IF c = 0 THEN << { <<>> } >>
                      ELSE Append(g[c - 1], Around!Dearer(start, g[c - 1], c))]
           f == [c \in 0..max |-> upTo(c)]
           byCost[c \in 0..max] ==
             IF c = 0 THEN << { <<>> } >>
             ELSE LET before == byCost[c - 1]
                  IN  Append(before, Around!Dearer(start, before, c))
<1>1. upTo(0) = << { <<>> } >>
  <2>1. CheapestAt(0) = { <<>> } /\ 1..(0 + 1) = {1} /\ 1 - 1 = 0
    BY CheapestOfAll
  <2> QED
    BY <2>1
<1>2. ASSUME NEW c \in 1..max
      PROVE  upTo(c) = Append(upTo(c - 1), Around!Dearer(start, upTo(c - 1), c))
  <2>1. c \in Nat \ {0} /\ (c - 1) + 1 = c /\ (c + 1) - 1 = c
    OBVIOUS
  <2>2. \A d \in 1..c : upTo(c - 1)[d] = CheapestAt(d - 1)
    BY <2>1
  <2>3. Around!Dearer(start, upTo(c - 1), c) = CheapestAt(c)
    <3> HIDE DEF upTo
    <3> QED
      BY <2>1, <2>2, DearerIsCheapest
  <2>4. upTo(c - 1) \in Seq({ CheapestAt(d - 1) : d \in 1..(c + 1) }) /\ Len(upTo(c - 1)) = c
    <3> DEFINE S == { CheapestAt(d - 1) : d \in 1..(c + 1) }
    <3>1. upTo(c - 1) = [d \in 1..c |-> CheapestAt(d - 1)]
      BY <2>1
    <3>2. \A d \in 1..c : CheapestAt(d - 1) \in S
      OBVIOUS
    <3>3. upTo(c - 1) \in [1..c -> S]
      BY <3>1, <3>2
    <3> HIDE DEF upTo, S
    <3>4. upTo(c - 1) \in Seq(S) /\ Len(upTo(c - 1)) = c
      BY <2>1, <3>3
    <3> QED
      BY <3>4 DEF S
  <2>5. \A d \in 1..(c + 1) :
           Append(upTo(c - 1), CheapestAt(c))[d] = CheapestAt(d - 1)
    BY <2>1, <2>2, <2>4
  <2>6. Append(upTo(c - 1), CheapestAt(c)) = [d \in 1..(c + 1) |-> CheapestAt(d - 1)]
    BY <2>1, <2>4, <2>5
  <2> QED
    BY <2>3, <2>6
<1> HIDE DEF upTo
<1>3. f = F(f)
  <2>1. \A c \in 0..max : c # 0 => c \in 1..max /\ c - 1 \in 0..max
    OBVIOUS
  <2> QED
    BY <1>1, <1>2, <2>1
<1>4. byCost = F(byCost)
  <2>1. byCost = CHOOSE g : g = F(g)
    BY DEF byCost
  <2> HIDE DEF byCost, f, F
  <2> QED
    BY <1>3, <2>1
<1>5. \A c \in 0..max : byCost[c] = f[c]
  <2> DEFINE Bad == { c \in 0..max : byCost[c] # f[c] }
  <2> SUFFICES ASSUME Bad # {} PROVE FALSE
    OBVIOUS
  <2>1. PICK c \in Bad : \A e \in Bad : c <= e
    <3>1. Bad \subseteq Nat
      OBVIOUS
    <3> HIDE DEF Bad
    <3> QED
      BY <3>1, FirstOf
  <2>2. c # 0 => c - 1 \in 0..max /\ c - 1 \notin Bad
    BY <2>1
  <2>3. c # 0 => byCost[c - 1] = f[c - 1]
    BY <2>2
  <2>4. F(byCost)[c] = F(f)[c]
    BY <2>3
  <2> HIDE DEF byCost, f, F
  <2> QED
    BY <1>3, <1>4, <2>4
<1>6. Around!CheapestByCost(start, max) = byCost[max]
  BY DEF Around!CheapestByCost
<1>7. f[max] = upTo(max) /\ max \in 0..max
  OBVIOUS
<1> HIDE DEF byCost, f
<1>8. byCost[max] = upTo(max)
  BY <1>5, <1>7
<1> QED
  BY <1>6, <1>8 DEF upTo

\* A route that no cheaper walk replaces is in the reference.
LEMMA AnswerIsInReference ==
    ASSUME SearchTypes, IsAnswer(path), LeavesStart(path), IsWalk(path),
           \E paid : Costs(path, paid) /\ paid[Len(path)] <= MaxCost
    PROVE  path \in Around!CheapestRoutes(start, end, MaxCost)
<1> DEFINE byCost == Around!CheapestByCost(start, MaxCost)
           found  == { r \in UNION { byCost[c] : c \in 1..(MaxCost + 1) } : EndOf(start, r) = end }
<1>0. MaxCost \in Nat
  BY MaxCostAssumption
<1>1. /\ Around!CheapestRoutes(start, end, MaxCost) = IF found = {} THEN { <<>> } ELSE found
      /\ byCost = [d \in 1..(MaxCost + 1) |-> CheapestAt(d - 1)]
  BY <1>0, ByCost DEF Around!CheapestRoutes, Around!EndOf, EndOf
<1> HIDE DEF byCost
<1>2. path \in Seq(Floor) /\ NoWalkIsCheaperThan(path)
  BY DEF IsAnswer, IsRoute
<1>3. path \in Seq(Around!Floor)
  <2>1. \A i \in 1..Len(path) : path[i] \in Around!Floor
    BY <1>2 DEF LeavesStart, Around!Floor, Around!Cell, Twins, Floor, Cell
  <2> QED
    BY <1>2, <2>1
<1>4. CASE EndOf(start, path) = end
  <2> DEFINE S == { c \in Nat : path \in WalksAt(c) }
  <2>1. PICK paid : Costs(path, paid) /\ paid[Len(path)] <= MaxCost
    OBVIOUS
  <2>2. paid[Len(path)] \in Nat /\ path \in WalksAt(paid[Len(path)])
    BY <1>2, <1>3, <2>1 DEF WalksAt, Costs
  <2>3. PICK c \in S : \A d \in S : c <= d
    <3>1. S \subseteq Nat /\ S # {}
      BY <2>2
    <3> HIDE DEF S
    <3> QED
      BY <3>1, FirstOf
  <2>4. c \in Nat /\ c <= MaxCost /\ \A e \in Nat : path \in WalksAt(e) => c <= e
    <3>1. c \in Nat /\ paid[Len(path)] \in S /\ \A e \in Nat : path \in WalksAt(e) => e \in S
      BY <2>2
    <3> HIDE DEF S
    <3> QED
      BY <1>0, <2>1, <2>2, <2>3, <3>1
  <2>5. path \in CheapestAt(c)
    <3> SUFFICES ASSUME NEW d \in 0..(c - 1), NEW q \in WalksAt(d), EndOf(start, q) = end
                 PROVE  FALSE
      BY <1>4 DEF CheapestAt
    <3>1. d \in Nat /\ d < c
      BY <2>4
    <3>2. CASE q = <<>>
      <4>1. start = end
        BY <3>2 DEF EndOf
      <4>2. CASE path = <<>>
        <5>1. 0 \in S
          BY <4>2, NoSteps DEF WalksAt
        <5> HIDE DEF S
        <5> QED
          BY <2>3, <2>4, <3>1, <5>1
      <4>3. CASE path # <<>>
        <5>1. Len(path) \in 1..Len(path) /\ path[Len(path)] = start
          BY <1>2, <1>4, <4>1, <4>3 DEF EndOf
        <5> QED
          BY <5>1, Keys, Places DEF LeavesStart
      <4> QED
        BY <4>2, <4>3
    <3>3. CASE q # <<>>
      <4>1. PICK costs : Costs(q, costs) /\ costs[Len(q)] = d
        BY DEF WalksAt
      <4>2. q \in Seq(Around!Floor) /\ IsWalk(q) /\ After(q, Len(q)) = end
        BY AroundFloor, WalkEnds DEF WalksAt
      <4>3. PICK less : Costs(path, less) /\ less[Len(path)] <= costs[Len(q)]
        BY <1>2, <3>3, <4>1, <4>2 DEF NoWalkIsCheaperThan
      <4>4. less[Len(path)] \in Nat /\ path \in WalksAt(less[Len(path)])
        <5>1. Len(path) \in 0..Len(path)
          BY <1>2
        <5>2. less[Len(path)] \in Nat
          BY <4>3, <5>1 DEF Costs
        <5> QED
          BY <1>3, <4>3, <5>2 DEF WalksAt
      <4>5. c <= less[Len(path)]
        BY <2>4, <4>4
      <4> QED
        BY <2>4, <3>1, <4>1, <4>3, <4>4, <4>5
    <3> QED
      BY <3>2, <3>3
  <2>6. c + 1 \in 1..(MaxCost + 1) /\ byCost[c + 1] = CheapestAt(c)
    BY <1>0, <1>1, <2>4
  <2>7. path \in found
    BY <1>4, <2>5, <2>6
  <2> HIDE DEF found
  <2> QED
    BY <1>1, <2>7
<1>5. CASE EndOf(start, path) # end
  <2>1. path = <<>> /\ start # end
    BY <1>5 DEF IsAnswer, IsRoute, EndOf
  <2>2. ASSUME NEW r \in found PROVE FALSE
    <3>1. PICK c \in 1..(MaxCost + 1) : r \in CheapestAt(c - 1)
      BY <1>1
    <3>2. r \in WalksAt(c - 1) /\ EndOf(start, r) = end
      BY <3>1 DEF CheapestAt
    <3>3. r # <<>>
      BY <2>1, <3>2 DEF EndOf
    <3>4. r \in Seq(Around!Floor) /\ IsWalk(r) /\ After(r, Len(r)) = end
      BY <3>2, AroundFloor, WalkEnds DEF WalksAt
    <3>5. PICK costs : Costs(r, costs)
      BY <3>2 DEF WalksAt
    <3> QED
      BY <1>2, <1>5, <3>3, <3>4, <3>5 DEF NoWalkIsCheaperThan
  <2>3. found = {}
    BY <2>2
  <2> HIDE DEF found
  <2> QED
    BY <1>1, <2>1, <2>3
<1> QED
  BY <1>4, <1>5

\* A route never comes back to a cell with the key of the start, and what it
\* costs was paid by the nodes taken on the way (AStar.cpp:38-108): RouteInv is
\* an invariant of every search.
THEOREM RouteInvariant == Spec => []RouteInv
<1>1. Init => RouteInv
  BY DEF Init, RouteInv
<1> QED
  BY <1>1, NextRoute, AStarInvariant, PTL DEF Spec

\* FindPath answers with one of the routes that the reference has for the same
\* arguments (AStar.cpp:22-108): the cheapest ones, whatever the map, and the
\* empty one exactly when there is none or no way to go.
THEOREM AnswerIsCheapestAlways == Spec => []AnswerIsCheapest
<1>1. AStarInv /\ RouteInv => AnswerIsCheapest
  BY AnswerIsInReference DEF AStarInv, RouteInv, AnswerIsCheapest
<1> QED
  BY <1>1, AStarInvariant, RouteInvariant, PTL
=============================================================================
