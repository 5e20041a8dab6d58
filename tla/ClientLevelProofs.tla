------------------------- MODULE ClientLevelProofs -------------------------
(***************************************************************************)
(* What the receiving thread deserializes reaches the screen whole, in     *)
(* order and together with its map, or with the map a frame ahead,         *)
(* whatever states arrive and however the threads overlap.                 *)
(***************************************************************************)
EXTENDS ClientLevel, SequenceTheorems, TLAPS

USE ClientLevelAssumption

\* The states have numbers and numbers of players.
LEMMA StatesAreNumbers ==
    /\ Len(PlayersIn) \in Nat
    /\ \A n \in States : n \in Nat \ {0} /\ PlayersIn[n] \in Nat
BY LenProperties, ElementOfSeq DEF States

\* PlayersOf(n) is a sequence of as many players as the state has, all its own.
LEMMA PlayersOfIsSeq ==
    ASSUME NEW n \in States
    PROVE  /\ PlayersOf(n) \in Seq(States)
           /\ Len(PlayersOf(n)) = PlayersIn[n]
           /\ \A k \in 1..PlayersIn[n] : PlayersOf(n)[k] = n
<1>1. PlayersIn[n] \in Nat
  BY StatesAreNumbers
<1>2. PlayersOf(n) \in Seq(States) /\ Len(PlayersOf(n)) = PlayersIn[n]
  BY <1>1 DEF PlayersOf
<1> QED
  BY <1>2 DEF PlayersOf

\* A sequence of as many players of n is PlayersOf(n).
LEMMA PlayersOfIsUnique ==
    ASSUME NEW n \in States, NEW s \in Seq(States), Len(s) = PlayersIn[n],
           \A k \in 1..Len(s) : s[k] = n
    PROVE  s = PlayersOf(n)
BY PlayersOfIsSeq, SeqEqual, StatesAreNumbers

\* Whole players are nobody's or those of the shown state.
LEMMA ShownIsWhole ==
    ASSUME players \in Whole
    PROVE  /\ ShownState \in 0..Len(PlayersIn)
           /\ \A k \in DOMAIN players : players[k] = ShownState
<1>1. CASE players = <<>>
  BY <1>1, StatesAreNumbers DEF ShownState
<1>2. CASE players # <<>>
  <2>1. PICK n \in States : players = PlayersOf(n)
    BY <1>2 DEF Whole
  <2>2. Len(players) \in Nat \ {0} /\ DOMAIN players = 1..Len(players)
    BY <1>2, <2>1, PlayersOfIsSeq, EmptySeq, LenProperties
  <2>3. \A k \in 1..Len(players) : players[k] = n
    BY <2>1, PlayersOfIsSeq
  <2>4. ShownState = n
    BY <1>2, <2>2, <2>3 DEF ShownState
  <2> QED
    BY <2>2, <2>3, <2>4, StatesAreNumbers DEF States
<1> QED
  BY <1>1, <1>2

-----------------------------------------------------------------------------
LEMMA InitHandOverInv == Init => HandOverInv
<1> SUFFICES ASSUME Init PROVE HandOverInv
    OBVIOUS
<1> USE DEF Init, NoMap, EmptyMap, NoPath
<1>1. Len(PlayersIn) \in Nat /\ <<>> \in Seq(States) /\ Len(<<>>) = 0
  BY StatesAreNumbers, EmptySeq
<1>2. ShownState = 0 /\ Accepted = 0
  BY DEF ShownState, Accepted
<1>3. TypeOK
  <2>1. players \in Whole /\ tempPlayers \in Seq(States)
    BY <1>1 DEF Whole
  <2>2. /\ 0 \in 0..Len(PlayersIn) /\ 0 \in 0..MaxPaths
        /\ {0} \subseteq 0..Len(PlayersIn)
    BY <1>1
  <2> QED
    BY <2>1, <2>2 DEF TypeOK
<1>4. ReceiverHolds /\ AcceptedIsNewest /\ MapFollows /\ PathsInOrder
  BY <1>2 DEF ReceiverHolds, AcceptedIsNewest, MapFollows, PathsInOrder
<1>5. WaitingIsAccepted
  BY <1>1, <1>2 DEF WaitingIsAccepted, IsShown
<1> QED
  BY <1>3, <1>4, <1>5 DEF HandOverInv

\* What is waiting, complete, is the players of the accepted state.
LEMMA WaitingIsWhole ==
    ASSUME HandOverInv, ~ isThreadWriting, tempPlayers # <<>>
    PROVE  /\ Accepted \in States
           /\ tempPlayers = PlayersOf(Accepted)
           /\ tempPlayers[1] = Accepted
           /\ ShownState < Accepted
<1>1. tempPlayers \in Seq(States) /\ Len(tempPlayers) \in Nat \ {0}
  BY EmptySeq DEF HandOverInv, TypeOK
<1>2. /\ \A k \in 1..Len(tempPlayers) : tempPlayers[k] = Accepted
      /\ Len(tempPlayers) = PlayersIn[Accepted]
      /\ ShownState < Accepted
  BY DEF HandOverInv, WaitingIsAccepted
<1>3. Accepted \in States /\ tempPlayers[1] = Accepted
  BY <1>1, <1>2, ElementOfSeq
<1> QED
  BY <1>1, <1>2, <1>3, PlayersOfIsUnique

-----------------------------------------------------------------------------
LEMMA LoopKeepsHandOverInv == HandOverInv /\ LoopStep => HandOverInv'
<1> SUFFICES ASSUME HandOverInv, LoopStep PROVE HandOverInv'
    OBVIOUS
<1> USE DEF HandOverInv, loopVars, stateVars, pathVars, NoMap, EmptyMap, NoPath
<1>0. Len(PlayersIn) \in Nat /\ ShownState \in 0..Len(PlayersIn)
  BY StatesAreNumbers, ShownIsWhole DEF TypeOK
<1>1. ASSUME UNCHANGED <<players, tempPlayers, map, tempMap>>
      PROVE  ShownState' = ShownState /\ Accepted' = Accepted
             /\ \A n : IsShown(n)' = IsShown(n)
  BY <1>1 DEF ShownState, Accepted, IsShown
<1>2. CASE TestPlayers
  <2>1. TypeOK'
    BY <1>2 DEF TestPlayers, TypeOK
  <2> QED
    BY <2>1, <1>1, <1>2 DEF TestPlayers, ReceiverHolds, AcceptedIsNewest,
       WaitingIsAccepted, MapFollows, PathsInOrder, IsShown
<1>3. CASE SwapPlayers
  <2> USE <1>3 DEF SwapPlayers, SwapPlayersWith
  <2>1. ~ isThreadWriting /\ loop' = "testMap" /\ Accepted' = Accepted
    BY DEF ReceiverHolds, TypeOK, Accepted
  <2>2. CASE tempPlayers = <<>>
    <3>1. TypeOK'
      BY <2>2 DEF TypeOK
    <3>2. ShownState' = ShownState /\ \A n : IsShown(n)' = IsShown(n)
      BY <2>2 DEF ShownState, IsShown
    <3> QED
      BY <3>1, <3>2, <2>1, <2>2 DEF ReceiverHolds, AcceptedIsNewest,
         WaitingIsAccepted, MapFollows, PathsInOrder, IsShown
  <2>3. CASE tempPlayers # <<>>
    <3>1. /\ Accepted \in States /\ tempPlayers[1] = Accepted
          /\ players' = PlayersOf(Accepted) /\ tempPlayers' = <<>>
      BY <2>1, <2>3, WaitingIsWhole
    <3>2. ShownState' = Accepted
      BY <3>1, <2>3 DEF ShownState
    <3>3. TypeOK'
      BY <3>1, EmptySeq DEF TypeOK, Whole
    <3>4. ReceiverHolds' /\ PathsInOrder'
      BY DEF ReceiverHolds, PathsInOrder
    <3>5. AcceptedIsNewest'
      BY <2>1, <3>1, <3>2, <1>0 DEF AcceptedIsNewest, States
    <3>6. WaitingIsAccepted'
      BY <2>1, <3>1, <3>2, EmptySeq DEF WaitingIsAccepted, IsShown, ReceiverHolds, TypeOK
    <3>7. MapFollows'
      BY <2>1, <3>2 DEF MapFollows, Accepted
    <3> QED
      BY <3>3, <3>4, <3>5, <3>6, <3>7
  <2> QED
    BY <2>2, <2>3
<1>4. CASE TestMap
  <2>1. TypeOK'
    BY <1>4 DEF TestMap, TypeOK
  <2>2. loop = "testMap" /\ (~ isThreadWriting => loop' = "takeMap")
    BY <1>4 DEF TestMap
  <2>3. MapFollows'
    BY <1>0, <1>1, <1>4, <2>2 DEF TestMap, MapFollows, AcceptedIsNewest, Accepted, IsShown
  <2> QED
    BY <2>1, <2>3, <1>1, <1>4 DEF TestMap, ReceiverHolds, AcceptedIsNewest,
       WaitingIsAccepted, PathsInOrder, IsShown
<1>5. CASE TakeMap
  <2> USE <1>5 DEF TakeMap
  <2>1. TypeOK'
    BY DEF TypeOK
  <2>2. Accepted' = Accepted /\ ShownState' = ShownState
    BY DEF Accepted, ShownState
  <2>3. tempMap' = 0
    BY DEF TypeOK
  <2>4. AcceptedIsNewest'
    BY <2>2, <2>3 DEF AcceptedIsNewest
  <2>5. WaitingIsAccepted'
    BY <2>2 DEF WaitingIsAccepted, IsShown
  <2> QED
    BY <2>1, <2>3, <2>4, <2>5 DEF ReceiverHolds, MapFollows, PathsInOrder
<1>6. CASE DrawLevel
  <2>1. TypeOK'
    BY <1>6 DEF DrawLevel, TypeOK
  <2> QED
    BY <2>1, <1>1, <1>6 DEF DrawLevel, ReceiverHolds, AcceptedIsNewest,
       WaitingIsAccepted, MapFollows, PathsInOrder, IsShown
<1>7. CASE MovePath
  <2>1. TypeOK'
    BY <1>7 DEF MovePath, TypeOK
  <2>2. PathsInOrder'
    BY <1>7 DEF MovePath, PathsInOrder, TypeOK
  <2> QED
    BY <2>1, <2>2, <1>1, <1>7 DEF MovePath, ReceiverHolds, AcceptedIsNewest,
       WaitingIsAccepted, MapFollows, IsShown
<1>8. CASE ClearRequest
  <2>1. TypeOK'
    BY <1>8 DEF ClearRequest, TypeOK
  <2> QED
    BY <2>1, <1>1, <1>8 DEF ClearRequest, ReceiverHolds, AcceptedIsNewest,
       WaitingIsAccepted, MapFollows, PathsInOrder, IsShown
<1> QED
  BY <1>2, <1>3, <1>4, <1>5, <1>6, <1>7, <1>8 DEF LoopStep

LEMMA ReceiverKeepsHandOverInv ==
    HandOverInv /\ (ReceiverStep \/ Arrival) => HandOverInv'
<1> SUFFICES ASSUME HandOverInv, ReceiverStep \/ Arrival PROVE HandOverInv'
    OBVIOUS
<1> USE DEF HandOverInv, loopVars, stateVars, pathVars, NoMap, NoPath
<1>0. Len(PlayersIn) \in Nat /\ ShownState \in 0..Len(PlayersIn)
  BY StatesAreNumbers, ShownIsWhole DEF TypeOK
<1>1. ASSUME UNCHANGED <<players, map, tempMap>>
      PROVE  ShownState' = ShownState /\ Accepted' = Accepted
             /\ \A n : IsShown(n)' = IsShown(n)
  BY <1>1 DEF ShownState, Accepted, IsShown
<1>2. CASE Discard
  <2>1. TypeOK'
    BY <1>0, <1>2 DEF Discard, TypeOK
  <2>2. AcceptedIsNewest'
    BY <1>1, <1>2 DEF Discard, AcceptedIsNewest, Accepted, TypeOK, ReceiverHolds
  <2> QED
    BY <2>1, <2>2, <1>1, <1>2 DEF Discard, ReceiverHolds, WaitingIsAccepted, MapFollows,
       PathsInOrder, IsShown
<1>3. CASE Begin
  <2> USE <1>3 DEF Begin, BeginUnless, Pending
  <2>1. /\ tempPlayers = <<>> /\ tempMap = 0 /\ ~ isThreadWriting
        /\ Accepted = map /\ IsShown(map) /\ map <= received /\ ShownState <= map
    BY DEF ReceiverHolds, Accepted, WaitingIsAccepted, AcceptedIsNewest
  <2>2. received' = received + 1 /\ received' \in States
    BY <1>0 DEF TypeOK, States
  <2>3. ShownState' = ShownState /\ Accepted' = received' /\ IsShown(map)' = IsShown(map)
    BY <2>2 DEF ShownState, Accepted, IsShown, TypeOK
  <2>4. TypeOK'
    BY <2>2 DEF TypeOK, States
  <2>5. ReceiverHolds' /\ PathsInOrder'
    BY DEF ReceiverHolds, PathsInOrder
  <2>6. AcceptedIsNewest'
    BY <1>0, <2>1, <2>2, <2>3 DEF AcceptedIsNewest, TypeOK
  <2>7. WaitingIsAccepted'
    BY <2>1, EmptySeq DEF WaitingIsAccepted
  <2>8. MapFollows'
    BY <1>0, <2>1, <2>2, <2>3 DEF MapFollows, TypeOK
  <2> QED
    BY <2>4, <2>5, <2>6, <2>7, <2>8
<1>4. CASE LoadMap
  <2>1. TypeOK'
    BY <1>4 DEF LoadMap, TypeOK
  <2> QED
    BY <2>1, <1>1, <1>4 DEF LoadMap, ReceiverHolds, AcceptedIsNewest,
       WaitingIsAccepted, MapFollows, PathsInOrder, IsShown
<1>5. CASE FillMap
  <2>1. TypeOK'
    BY <1>5 DEF FillMap, TypeOK
  <2>2. isThreadWriting /\ received \in States
    BY <1>0, <1>5 DEF FillMap, ReceiverHolds, AcceptedIsNewest, TypeOK, States
  <2>3. WaitingIsAccepted'
    BY <1>1, <1>5, <2>2, StatesAreNumbers, EmptySeq
    DEF FillMap, WaitingIsAccepted, ReceiverHolds, IsShown
  <2> QED
    BY <2>1, <2>3, <1>1, <1>5 DEF FillMap, ReceiverHolds, AcceptedIsNewest,
       MapFollows, PathsInOrder, IsShown
<1>6. CASE PushPlayer
  <2> USE <1>6 DEF PushPlayer
  <2>1. /\ isThreadWriting /\ received \in States /\ Accepted = received
        /\ PlayersIn[received] \in Nat
    BY <1>0, StatesAreNumbers DEF ReceiverHolds, AcceptedIsNewest, TypeOK, States
  <2>2. /\ tempPlayers' \in Seq(States) /\ Len(tempPlayers) \in Nat
        /\ Len(tempPlayers') = Len(tempPlayers) + 1
        /\ \A k \in 1..Len(tempPlayers) : tempPlayers'[k] = tempPlayers[k]
        /\ tempPlayers'[Len(tempPlayers) + 1] = received
    BY <2>1 DEF TypeOK
  <2>3. TypeOK'
    BY <2>2 DEF TypeOK
  <2>4. Accepted' = Accepted /\ ShownState' = ShownState
    BY <1>1
  <2>5. WaitingIsAccepted'
    BY <2>1, <2>2, <2>4 DEF WaitingIsAccepted
  <2> QED
    BY <2>3, <2>5, <1>1 DEF ReceiverHolds, AcceptedIsNewest, MapFollows, PathsInOrder,
       IsShown
<1>7. CASE Finish
  <2>1. TypeOK'
    BY <1>7 DEF Finish, TypeOK
  <2>2. isThreadWriting /\ Accepted = received /\ received \in States
        /\ ShownState < Accepted
    BY <1>0, <1>7 DEF Finish, ReceiverHolds, AcceptedIsNewest, TypeOK, States
  <2>3. WaitingIsAccepted'
    BY <1>1, <1>7, <2>2, EmptySeq DEF Finish, WaitingIsAccepted, IsShown
  <2> QED
    BY <2>1, <2>3, <1>1, <1>7 DEF Finish, ReceiverHolds, AcceptedIsNewest, MapFollows,
       PathsInOrder, IsShown
<1>8. CASE AcceptPath
  <2>1. TypeOK'
    BY <1>8 DEF AcceptPath, TypeOK
  <2>2. PathsInOrder'
    BY <1>8 DEF AcceptPath, PathsInOrder, TypeOK
  <2> QED
    BY <2>1, <2>2, <1>1, <1>8 DEF AcceptPath, ReceiverHolds, AcceptedIsNewest,
       WaitingIsAccepted, MapFollows, IsShown
<1>9. CASE MovePending
  <2>1. TypeOK'
    BY <1>9 DEF MovePending, TypeOK
  <2>2. PathsInOrder'
    BY <1>9 DEF MovePending, PathsInOrder, TypeOK
  <2> QED
    BY <2>1, <2>2, <1>1, <1>9 DEF MovePending, ReceiverHolds, AcceptedIsNewest,
       WaitingIsAccepted, MapFollows, IsShown
<1>10. CASE RequestPath
  <2>1. TypeOK'
    BY <1>10 DEF RequestPath, TypeOK
  <2> QED
    BY <2>1, <1>1, <1>10 DEF RequestPath, ReceiverHolds, AcceptedIsNewest,
       WaitingIsAccepted, MapFollows, PathsInOrder, IsShown
<1> QED
  BY <1>2, <1>3, <1>4, <1>5, <1>6, <1>7, <1>8, <1>9, <1>10 DEF ReceiverStep, Arrival

LEMMA NextHandOverInv == HandOverInv /\ [Next]_vars => HandOverInv'
<1>1. CASE UNCHANGED vars
  BY <1>1 DEF vars, loopVars, stateVars, pathVars, HandOverInv, TypeOK, ReceiverHolds,
     AcceptedIsNewest, WaitingIsAccepted, MapFollows, PathsInOrder, IsShown, Accepted,
     ShownState
<1> QED
  BY <1>1, LoopKeepsHandOverInv, ReceiverKeepsHandOverInv DEF Next

\* The inductive invariant of the hand-over.
THEOREM HandOverInvariant == Spec => []HandOverInv
<1>1. Init /\ [][Next]_vars => []HandOverInv
  BY InitHandOverInv, NextHandOverInv, PTL
<1> QED
  BY <1>1, PTL DEF Spec

-----------------------------------------------------------------------------
\* What is drawn is of one state, or the map is one accepted state ahead.
THEOREM AlwaysDrawnTogether == Spec => []DrawnTogether
<1>1. ASSUME HandOverInv PROVE DrawnTogether
  <2> SUFFICES ASSUME loop = "draw", ShownState # map
               PROVE  /\ ShownState < map
                      /\ \/ PlayersIn[map] = 0
                         \/ isThreadWriting /\ received = map
                         \/ tempPlayers = PlayersOf(map)
    BY DEF DrawnTogether
  <2>0. ShownState \in Nat /\ map \in Nat
    BY <1>1, ShownIsWhole, StatesAreNumbers DEF HandOverInv, TypeOK
  <2>1. CASE tempMap # NoMap
    BY <1>1, <2>0, <2>1 DEF HandOverInv, MapFollows, IsShown
  <2>2. CASE tempMap = NoMap
    <3>1. Accepted = map
      BY <2>2 DEF Accepted
    <3>2. ShownState < map
      BY <1>1, <2>0, <3>1 DEF HandOverInv, AcceptedIsNewest
    <3>3. CASE isThreadWriting
      BY <1>1, <3>1, <3>2, <3>3 DEF HandOverInv, AcceptedIsNewest
    <3>4. CASE ~ isThreadWriting /\ tempPlayers = <<>>
      BY <1>1, <3>1, <3>2, <3>4 DEF HandOverInv, WaitingIsAccepted, IsShown
    <3>5. CASE ~ isThreadWriting /\ tempPlayers # <<>>
      BY <1>1, <3>1, <3>2, <3>5, WaitingIsWhole
    <3> QED
      BY <3>3, <3>4, <3>5
  <2> QED
    BY <2>1, <2>2
<1> QED
  BY <1>1, HandOverInvariant, PTL

\* No older map and no older path comes back to the screen.
THEOREM AlwaysShownInOrder == Spec => ShownInOrder
<1> DEFINE InOrder == /\ map' >= map
                      /\ clientPlayerPath' \in {NoPath} \cup clientPlayerPath..MaxPaths
<1>1. ASSUME HandOverInv, [Next]_vars PROVE [InOrder]_vars
  <2> USE <1>1 DEF HandOverInv, loopVars, stateVars, pathVars, NoPath, NoMap
  <2>1. /\ map \in Nat /\ clientPlayerPath \in Nat
        /\ clientPlayerPath \in clientPlayerPath..MaxPaths
    BY StatesAreNumbers DEF TypeOK
  <2>2. CASE TakeMap
    BY <2>1, <2>2, StatesAreNumbers DEF TakeMap, AcceptedIsNewest, TypeOK
  <2>3. CASE MovePath
    BY <2>1, <2>3 DEF MovePath, PathsInOrder, TypeOK
  <2>4. CASE UNCHANGED <<map, clientPlayerPath>>
    BY <2>1, <2>4
  <2> QED
    BY <2>2, <2>3, <2>4 DEF vars, Next, LoopStep, ReceiverStep, Arrival, TestPlayers,
       SwapPlayers, SwapPlayersWith, TestMap, DrawLevel, ClearRequest, Discard, Begin,
       BeginUnless, LoadMap, FillMap, PushPlayer, Finish, AcceptPath, MovePending,
       RequestPath
<1>2. HandOverInv /\ [Next]_vars => [InOrder]_vars
  BY <1>1
<1> QED
  BY <1>2, HandOverInvariant, PTL DEF Spec, ShownInOrder

-----------------------------------------------------------------------------
LEMMA LoopRefines == HandOverInv /\ LoopStep => [HandedOver!Next]_(HandedOver!handOverVars)
<1> SUFFICES ASSUME HandOverInv, LoopStep
             PROVE  [HandedOver!Next]_(HandedOver!handOverVars)
    OBVIOUS
<1> USE DEF HandOverInv, loopVars, stateVars, pathVars
<1>1. CASE SwapPlayers
  <2>1. ~ isThreadWriting /\ ~ isThreadWriting'
    BY <1>1 DEF SwapPlayers, SwapPlayersWith, ReceiverHolds, TypeOK
  <2>2. CASE tempPlayers = <<>>
    BY <1>1, <2>1, <2>2 DEF SwapPlayers, SwapPlayersWith, HandedOver!handOverVars
  <2>3. CASE tempPlayers # <<>>
    <3>1. HandedOver!Take
      BY <1>1, <2>1, <2>3 DEF SwapPlayers, SwapPlayersWith, HandedOver!Take
    <3> QED
      BY <3>1 DEF HandedOver!Next
  <2> QED
    BY <2>2, <2>3
<1>2. CASE UNCHANGED <<players, tempPlayers, isThreadWriting>>
  BY <1>2 DEF HandedOver!handOverVars
<1> QED
  BY <1>1, <1>2 DEF LoopStep, TestPlayers, TestMap, TakeMap, DrawLevel, MovePath,
     ClearRequest

LEMMA ReceiverRefines ==
    HandOverInv /\ (ReceiverStep \/ Arrival) =>
        [HandedOver!Next]_(HandedOver!handOverVars)
<1> SUFFICES ASSUME HandOverInv, ReceiverStep \/ Arrival
             PROVE  [HandedOver!Next]_(HandedOver!handOverVars)
    OBVIOUS
<1> USE DEF HandOverInv, loopVars, stateVars, pathVars
<1>1. CASE Begin
  <2>1. ~ isThreadWriting /\ isThreadWriting' /\ tempPlayers = <<>>
    BY <1>1 DEF Begin, BeginUnless, Pending, ReceiverHolds
  <2> QED
    BY <1>1, <2>1 DEF Begin, BeginUnless, HandedOver!handOverVars
<1>2. CASE PushPlayer
  <2>1. isThreadWriting /\ isThreadWriting'
    BY <1>2 DEF PushPlayer, ReceiverHolds
  <2> QED
    BY <1>2, <2>1 DEF PushPlayer, HandedOver!handOverVars
<1>3. CASE Finish
  <2>1. /\ isThreadWriting /\ ~ isThreadWriting' /\ tempPlayers' = tempPlayers
        /\ players' = players /\ Len(tempPlayers) = PlayersIn[received]
    BY <1>3 DEF Finish, ReceiverHolds
  <2>2. received \in States /\ Accepted = received /\ ShownState < received
    BY <2>1, StatesAreNumbers, ShownIsWhole DEF AcceptedIsNewest, TypeOK, States
  <2>3. tempPlayers = PlayersOf(received)
    BY <2>1, <2>2, PlayersOfIsUnique DEF WaitingIsAccepted, TypeOK
  <2>4. HandedOver!IsNewer(received, players)
    BY <2>2, ShownIsWhole DEF HandedOver!IsNewer, TypeOK
  <2>5. received \in DOMAIN PlayersIn
    BY <2>2, LenProperties DEF States
  <2>6. HandedOver!Put(received)
    BY <2>1, <2>3, <2>4 DEF HandedOver!Put, HandedOver!WholeState, PlayersOf
  <2> QED
    BY <2>5, <2>6 DEF HandedOver!Next
<1>4. CASE UNCHANGED <<players, tempPlayers, isThreadWriting>>
  BY <1>4 DEF HandedOver!handOverVars
<1> QED
  BY <1>1, <1>2, <1>3, <1>4 DEF ReceiverStep, Arrival, Discard, LoadMap, FillMap,
     AcceptPath, MovePending, RequestPath

\* The detailed hand-over implements the abstract one.
THEOREM HandsOver == Spec => ImplementsHandOver
<1>1. Init => HandedOver!Init
  BY DEF Init, HandedOver!Init
<1>2. HandOverInv /\ [Next]_vars => [HandedOver!Next]_(HandedOver!handOverVars)
  <2>1. CASE UNCHANGED vars
    BY <2>1 DEF vars, loopVars, stateVars, HandedOver!handOverVars
  <2> QED
    BY <2>1, LoopRefines, ReceiverRefines DEF Next
<1> QED
  BY <1>1, <1>2, HandOverInvariant, PTL DEF Spec, ImplementsHandOver, HandedOver!Spec
=============================================================================
