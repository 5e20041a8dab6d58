---------------------------- MODULE ClientLevel ----------------------------
(***************************************************************************)
(* The level of a client: the receiving thread deserializes states and     *)
(* paths into it while the game loop updates and draws it.  The players    *)
(* change hands under the level's mutex, the map and the path do not.      *)
(*                                                                         *)
(* States and paths are numbered as they arrive.  Of a player and of a map *)
(* only the number of its state is kept.  States arrive after the client's *)
(* id was set (hasEnteredGame).                                            *)
(***************************************************************************)
EXTENDS Naturals, Sequences

CONSTANTS
    PlayersIn,      \* how many players each state has
    MaxPaths        \* bound: MOVE_PATH packets received

ASSUME ClientLevelAssumption ==
    /\ PlayersIn \in Seq(Nat)
    /\ MaxPaths \in Nat

VARIABLES
    players, tempPlayers, map, tempMap, isThreadWriting, mutex,
    clientPlayerPath, pendingPlayerPath, setPathRequested,
    loop,           \* where the game loop is
    receiver,       \* where the receiving thread is
    received,       \* how many states arrived
    pathsReceived,  \* how many paths arrived
    mapFilled,      \* the maps whose image was deserialized
    clientUp        \* FALSE once the process ended on its own

loopVars == <<players, map, clientPlayerPath, loop>>
stateVars == <<tempMap, isThreadWriting, received, mapFilled>>
pathVars == <<pendingPlayerPath, setPathRequested, pathsReceived>>
vars == <<loopVars, stateVars, pathVars, tempPlayers, mutex, receiver, clientUp>>

States == 1..Len(PlayersIn)
NoMap == 0              \* tempMap is nullptr
EmptyMap == 0           \* the map the level is created with
NoPath == 0

PlayersOf(n) == [k \in 1..PlayersIn[n] |-> n]

\* setPathRequested is not initialized.
Init ==
    /\ players = <<>> /\ tempPlayers = <<>>
    /\ map = EmptyMap /\ tempMap = NoMap
    /\ mapFilled = {EmptyMap}
    /\ isThreadWriting = FALSE
    /\ mutex = "free"
    /\ clientPlayerPath = NoPath /\ pendingPlayerPath = NoPath
    /\ setPathRequested \in BOOLEAN
    /\ loop = "testPlayers"
    /\ receiver = "idle"
    /\ received = 0 /\ pathsReceived = 0
    /\ clientUp = TRUE

-----------------------------------------------------------------------------
(***************************************************************************)
(* The game loop: Update, then Draw.                                       *)
(***************************************************************************)

TestPlayers ==
    /\ loop = "testPlayers"
    /\ loop' = IF isThreadWriting THEN "testMap" ELSE "swapPlayers"
    /\ UNCHANGED <<players, map, clientPlayerPath, stateVars, pathVars, tempPlayers,
                   mutex, receiver, clientUp>>

\* The section under the mutex.
SwapPlayersWith(mutexTaken) ==
    /\ loop = "swapPlayers"
    /\ mutexTaken
    /\ IF tempPlayers # <<>>
       THEN players' = tempPlayers /\ tempPlayers' = <<>>
       ELSE UNCHANGED <<players, tempPlayers>>
    /\ loop' = "testMap"
    /\ UNCHANGED <<map, clientPlayerPath, stateVars, pathVars, mutex, receiver, clientUp>>

\* (A variant of SwapPlayers: the flag is trusted, the mutex is not taken.)
SwapPlayersUnlocked == SwapPlayersWith(TRUE)

SwapPlayers == SwapPlayersWith(mutex = "free")

TestMap ==
    /\ loop = "testMap"
    /\ loop' = IF isThreadWriting THEN "draw" ELSE "takeMap"
    /\ UNCHANGED <<players, map, clientPlayerPath, stateVars, pathVars, tempPlayers,
                   mutex, receiver, clientUp>>

\* The map before is deleted.
TakeMap ==
    /\ loop = "takeMap"
    /\ IF tempMap # NoMap
       THEN map' = tempMap /\ tempMap' = NoMap
       ELSE UNCHANGED <<map, tempMap>>
    /\ loop' = "draw"
    /\ UNCHANGED <<players, clientPlayerPath, isThreadWriting, received, mapFilled,
                   pathVars, tempPlayers, mutex, receiver, clientUp>>

\* The map is drawn and the request is tested; then the path and the players
\* are drawn.  Drawing an image that is just replaced reads freed memory.
DrawLevel ==
    /\ loop = "draw"
    /\ IF map \in mapFilled THEN UNCHANGED clientUp ELSE clientUp' \in BOOLEAN
    /\ loop' = IF setPathRequested THEN "movePath" ELSE "testPlayers"
    /\ UNCHANGED <<players, map, clientPlayerPath, stateVars, pathVars, tempPlayers,
                   mutex, receiver>>

\* (A variant of MovePath: the paths are swapped.)
SwapPaths ==
    /\ loop = "movePath"
    /\ clientPlayerPath' = pendingPlayerPath
    /\ pendingPlayerPath' = clientPlayerPath
    /\ loop' = "clearRequest"
    /\ UNCHANGED <<players, map, stateVars, setPathRequested, pathsReceived, tempPlayers,
                   mutex, receiver, clientUp>>

\* A vector that is moved from is empty.  Two threads may be moving into and
\* out of pendingPlayerPath.
MovePath ==
    /\ loop = "movePath"
    /\ clientPlayerPath' = pendingPlayerPath
    /\ pendingPlayerPath' = NoPath
    /\ IF receiver = "movePath" THEN clientUp' \in BOOLEAN ELSE UNCHANGED clientUp
    /\ loop' = "clearRequest"
    /\ UNCHANGED <<players, map, stateVars, setPathRequested, pathsReceived, tempPlayers,
                   mutex, receiver>>

ClearRequest ==
    /\ loop = "clearRequest"
    /\ setPathRequested' = FALSE
    /\ loop' = "testPlayers"
    /\ UNCHANGED <<players, map, clientPlayerPath, stateVars, pendingPlayerPath,
                   pathsReceived, tempPlayers, mutex, receiver, clientUp>>

LoopStep ==
    \/ TestPlayers
    \/ SwapPlayers
    \/ TestMap
    \/ TakeMap
    \/ DrawLevel
    \/ MovePath
    \/ ClearRequest

-----------------------------------------------------------------------------
(***************************************************************************)
(* The receiving thread: DeserializeGameState.                             *)
(***************************************************************************)

Pending == tempPlayers # <<>> \/ tempMap # NoMap

\* A state that arrives before the one before was taken is dropped.
Discard ==
    /\ receiver = "idle" /\ mutex = "free"
    /\ received < Len(PlayersIn)
    /\ Pending
    /\ received' = received + 1
    /\ UNCHANGED <<loopVars, tempMap, isThreadWriting, mapFilled, pathVars, tempPlayers,
                   mutex, receiver, clientUp>>

BeginUnless(pending) ==
    /\ receiver = "idle" /\ mutex = "free"
    /\ received < Len(PlayersIn)
    /\ ~ pending
    /\ received' = received + 1
    /\ mutex' = "held"
    /\ isThreadWriting' = TRUE
    /\ tempMap' = received + 1
    /\ receiver' = "loadMap"
    /\ UNCHANGED <<loopVars, mapFilled, pathVars, tempPlayers, clientUp>>

\* (A variant of Begin: only the players are looked at.)
BeginOverMap == BeginUnless(tempPlayers # <<>>)

Begin == BeginUnless(Pending)

\* tempMap->Deserialize, which the loop may have taken the map away from.
LoadMap ==
    /\ receiver = "loadMap"
    /\ clientUp' = (tempMap # NoMap)
    /\ receiver' = "fillMap"
    /\ UNCHANGED <<loopVars, stateVars, pathVars, tempPlayers, mutex>>

FillMap ==
    /\ receiver = "fillMap"
    /\ mapFilled' = mapFilled \cup {received}
    /\ receiver' = "pushPlayers"
    /\ UNCHANGED <<loopVars, tempMap, isThreadWriting, received, pathVars, tempPlayers,
                   mutex, clientUp>>

PushPlayer ==
    /\ receiver = "pushPlayers"
    /\ Len(tempPlayers) < PlayersIn[received]
    /\ tempPlayers' = Append(tempPlayers, received)
    /\ UNCHANGED <<loopVars, stateVars, pathVars, mutex, receiver, clientUp>>

\* (A variant of Finish: the flag stays.)
FinishWriting ==
    /\ receiver = "pushPlayers"
    /\ Len(tempPlayers) = PlayersIn[received]
    /\ mutex' = "free"
    /\ receiver' = "idle"
    /\ UNCHANGED <<loopVars, stateVars, pathVars, tempPlayers, clientUp>>

\* The flag is reset before the mutex is released; that the loop sees the one
\* before the other makes no difference to it.
Finish ==
    /\ receiver = "pushPlayers"
    /\ Len(tempPlayers) = PlayersIn[received]
    /\ isThreadWriting' = FALSE
    /\ mutex' = "free"
    /\ receiver' = "idle"
    /\ UNCHANGED <<loopVars, tempMap, received, mapFilled, pathVars, tempPlayers,
                   clientUp>>

-----------------------------------------------------------------------------
(***************************************************************************)
(* The receiving thread: RequestClientPlayerPathChange.                    *)
(***************************************************************************)

AcceptPath ==
    /\ receiver = "idle" /\ mutex = "free"
    /\ pathsReceived < MaxPaths
    /\ pathsReceived' = pathsReceived + 1
    /\ mutex' = "held"
    /\ receiver' = "movePath"
    /\ UNCHANGED <<loopVars, stateVars, pendingPlayerPath, setPathRequested, tempPlayers,
                   clientUp>>

MovePending ==
    /\ receiver = "movePath"
    /\ pendingPlayerPath' = pathsReceived
    /\ receiver' = "requestPath"
    /\ UNCHANGED <<loopVars, stateVars, setPathRequested, pathsReceived, tempPlayers,
                   mutex, clientUp>>

RequestPath ==
    /\ receiver = "requestPath"
    /\ setPathRequested' = TRUE
    /\ mutex' = "free"
    /\ receiver' = "idle"
    /\ UNCHANGED <<loopVars, stateVars, pendingPlayerPath, pathsReceived, tempPlayers,
                   clientUp>>

ReceiverStep ==
    \/ LoadMap
    \/ FillMap
    \/ PushPlayer
    \/ Finish
    \/ MovePending
    \/ RequestPath

Arrival ==
    \/ Discard
    \/ Begin
    \/ AcceptPath

Next == clientUp /\ (LoopStep \/ ReceiverStep \/ Arrival)

\* Both threads run; nothing has to arrive.  The loop waits for the mutex, and
\* Windows serves the waiters of a mutex first in, first out.
Spec ==
    /\ Init /\ [][Next]_vars
    /\ WF_vars(clientUp /\ LoopStep)
    /\ SF_vars(clientUp /\ SwapPlayers)
    /\ WF_vars(clientUp /\ ReceiverStep)

-----------------------------------------------------------------------------
(***************************************************************************)
(* Properties.                                                             *)
(***************************************************************************)

Whole == {<<>>} \cup {PlayersOf(n) : n \in States}

TypeOK ==
    /\ players \in Whole
    /\ tempPlayers \in Seq(States)
    /\ map \in 0..Len(PlayersIn)
    /\ tempMap \in 0..Len(PlayersIn)
    /\ isThreadWriting \in BOOLEAN
    /\ mutex \in {"free", "held"}
    /\ clientPlayerPath \in 0..MaxPaths
    /\ pendingPlayerPath \in 0..MaxPaths
    /\ setPathRequested \in BOOLEAN
    /\ loop \in {"testPlayers", "swapPlayers", "testMap", "takeMap", "draw", "movePath",
                 "clearRequest"}
    /\ receiver \in {"idle", "loadMap", "fillMap", "pushPlayers", "movePath",
                     "requestPath"}
    /\ received \in 0..Len(PlayersIn)
    /\ pathsReceived \in 0..MaxPaths
    /\ mapFilled \subseteq 0..Len(PlayersIn)
    /\ clientUp \in BOOLEAN

\* The state the players on the screen are of.
ShownState == IF players = <<>> THEN 0 ELSE players[1]

\* The screen never goes back to an older map or path, although the map is
\* taken without the mutex.  A path may vanish: moved a second time, it is empty.
ShownInOrder ==
    [][ /\ map' >= map
        /\ clientPlayerPath' \in {NoPath} \cup clientPlayerPath..MaxPaths ]_vars

\* What is drawn is one state, or its map is ahead of its players by the one
\* state that is just being received or waits for the next frame.  (A state
\* without players leaves the players before on the screen.)
DrawnTogether ==
    loop = "draw" /\ ShownState # map =>
        /\ ShownState < map
        /\ \/ PlayersIn[map] = 0
           \/ isThreadWriting /\ received = map
           \/ tempPlayers = PlayersOf(map)

\* The players are handed over whole and in order, although the flag
\* isThreadWriting is read outside the mutex (GameLevel.cpp:86).
HandedOver == INSTANCE HandOver WITH
    Count <- PlayersIn,
    shown <- players,
    slot <- IF isThreadWriting THEN <<>> ELSE tempPlayers
ImplementsHandOver == HandedOver!Spec

\* The state that was accepted last, of which the map may wait to be taken.
Accepted == IF tempMap # NoMap THEN tempMap ELSE map

\* The players of state n are on the screen, or it has none.
IsShown(n) == ShownState = n \/ (n \in States /\ PlayersIn[n] = 0)

ReceiverHolds ==
    /\ receiver = "idle" <=> mutex = "free"
    /\ isThreadWriting <=> receiver \in {"loadMap", "fillMap", "pushPlayers"}

AcceptedIsNewest ==
    /\ Accepted <= received
    /\ tempMap # NoMap => map < tempMap
    /\ ShownState <= Accepted
    /\ isThreadWriting => Accepted = received /\ ShownState < Accepted

WaitingIsAccepted ==
    /\ \A k \in 1..Len(tempPlayers) : tempPlayers[k] = Accepted
    /\ receiver \in {"loadMap", "fillMap"} => tempPlayers = <<>>
    /\ receiver = "pushPlayers" => Len(tempPlayers) <= PlayersIn[received]
    /\ ~ isThreadWriting /\ tempPlayers = <<>> => IsShown(Accepted)
    /\ ~ isThreadWriting /\ tempPlayers # <<>> =>
         Len(tempPlayers) = PlayersIn[Accepted] /\ ShownState < Accepted

MapFollows ==
    tempMap # NoMap =>
        /\ ShownState = tempMap => loop \in {"testMap", "takeMap"}
        /\ ShownState # tempMap => ShownState <= map /\ IsShown(map)

PathsInOrder ==
    /\ clientPlayerPath <= pathsReceived
    /\ pendingPlayerPath \in {NoPath} \cup clientPlayerPath..pathsReceived

\* The inductive invariant of ClientLevelProofs.  The players of the state that
\* was accepted last wait or are shown, its map waits or is shown, and no other
\* state is accepted before both are taken.
HandOverInv ==
    /\ TypeOK
    /\ ReceiverHolds
    /\ AcceptedIsNewest
    /\ WaitingIsAccepted
    /\ MapFollows
    /\ PathsInOrder

\* A state with players that was accepted is shown, unless the race for its
\* map ends the process.
AcceptedIsShown ==
    \A n \in States :
        tempPlayers = PlayersOf(n) /\ tempPlayers # <<>> ~> ShownState = n \/ ~ clientUp
=============================================================================
