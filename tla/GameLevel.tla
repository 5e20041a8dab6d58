------------------------------ MODULE GameLevel ------------------------------
(***************************************************************************)
(* The world the server keeps: the players, their paths and who is a       *)
(* seeker, and what each packet of a client does to it.                    *)
(*                                                                         *)
(* GameServer::ProcessPacket and SynchronizeGameState do everything below  *)
(* while they hold GameServer::mutex, so that each handler is one atomic   *)
(* action here; module GameServer keeps the threads and the mutexes apart. *)
(*                                                                         *)
(* Requests name a player by id, the paths are kept by id, but the vector  *)
(* of players is indexed by id - 1: the two agree only until somebody      *)
(* leaves, and the properties of this module say exactly how far.          *)
(***************************************************************************)
EXTENDS Grid, Tagging, FiniteSets, SequencesExt

CONSTANTS
    MaxPlayers,     \* bound of the models: how many players are ever created
    EmptyCells,     \* emptyPositions: the cells whose character is ' '
    Clicks,         \* the cells clients click at
    FindPathAnswers(_, _)   \* what AStar::FindPath may return

Ids == 1..MaxPlayers

ASSUME LevelAssumption ==
    /\ MaxPlayers \in Nat \ {0}
    /\ EmptyCells \subseteq Floor
    /\ EmptyCells # {}

\* What this module needs of AStar::FindPath; module AStar checks it of the
\* algorithm.
ASSUME FindPathAssumption ==
    \A start \in Position, end \in Clicks :
        \A route \in FindPathAnswers(start, end) : IsRoute(start, end, route)

VARIABLES
    players,        \* GameLevel::players, in the order of the vector
    allPlayersPath, \* GameLevel::allPlayersPath; no entry is an empty path
    playerCount,    \* GameServer::playerCount, the last id given
    isSeekerSet,    \* GameServer::isSeekerSet
    holder,         \* the client an id was given to: plays, has sent its exit
                    \* request, or is gone without one
    serverUp        \* FALSE once a failed check of the debug runtime, an
                    \* access violation or the debug heap ended the process

vars == <<players, allPlayersPath, playerCount, isSeekerSet, holder, serverUp>>

Player == [id : Ids, position : Position, isSeeker : BOOLEAN]

Direction == {"UP", "DOWN", "RIGHT", "LEFT"}

\* The ids a request may carry.  That the client of the id has quit does not
\* rule it out: its last frame handles the other keys after the escape key,
\* and an answer meant for a lost client reaches the one whose connection was
\* given the same socket.
Given == 1..playerCount

\* The level is created with the first player.
LevelExists == playerCount > 0

-----------------------------------------------------------------------------

Init ==
    /\ players = <<>>
    /\ allPlayersPath = [k \in Ids |-> <<>>]
    /\ playerCount = 0
    /\ isSeekerSet = FALSE
    /\ holder = [k \in Ids |-> "none"]
    /\ serverUp = TRUE

Crash ==
    /\ serverUp' = FALSE
    /\ UNCHANGED <<players, allPlayersPath, playerCount, isSeekerSet>>

\* (Variants of NewPlayer that the runs find out: ids from 0 on, everybody but
\* the first a seeker, a cell too far to the right.)
NewPlayerFromZero(id, position) ==
    [id |-> id - 1, position |-> position, isSeeker |-> ~ isSeekerSet]
NewPlayerSwapped(id, position) ==
    [id |-> id, position |-> position, isSeeker |-> isSeekerSet]
NewPlayerShifted(id, position) ==
    [id |-> id, position |-> [position EXCEPT !.x = @ + 1], isSeeker |-> ~ isSeekerSet]

\* The first player ever created is the seeker.
NewPlayer(id, position) ==
    [id |-> id, position |-> position, isSeeker |-> ~ isSeekerSet]

\* PLAYER_CREATE_REQUEST: the next id and a random empty cell.
CreatePlayer(position) ==
    /\ serverUp
    /\ playerCount < MaxPlayers
    /\ playerCount' = playerCount + 1
    /\ players' = Append(players, NewPlayer(playerCount + 1, position))
    /\ isSeekerSet' = TRUE
    /\ holder' = [holder EXCEPT ![playerCount + 1] = "plays"]
    /\ UNCHANGED <<allPlayersPath, serverUp>>

Moved(position, direction) ==
    CASE direction = "UP"    -> [position EXCEPT !.y = @ - 1]
      [] direction = "DOWN"  -> [position EXCEPT !.y = @ + 1]
      [] direction = "RIGHT" -> [position EXCEPT !.x = @ + 1]
      [] direction = "LEFT"  -> [position EXCEPT !.x = @ - 1]

\* KEY_INPUT: MovePlayer ignores an id beyond the vector, moves whoever is at
\* index id - 1 otherwise, and asks no wall.
KeyInput(k, direction) ==
    /\ serverUp
    /\ k \in Given
    /\ k <= Len(players)
    /\ Moved(players[k].position, direction) \in Position
    /\ players' = [players EXCEPT ![k].position = Moved(@, direction)]
    /\ UNCHANGED <<allPlayersPath, playerCount, isSeekerSet, holder, serverUp>>

\* MOUSE_INPUT: a path from the player at index id - 1, kept under the id; an
\* id beyond the vector fails the index check of the debug runtime.
MouseInput(k, end) ==
    /\ serverUp
    /\ k \in Given
    /\ IF k <= Len(players)
       THEN /\ \E route \in FindPathAnswers(players[k].position, end) :
                  allPlayersPath' = [allPlayersPath EXCEPT ![k] = route]
            /\ UNCHANGED <<players, playerCount, isSeekerSet, holder, serverUp>>
       ELSE Crash /\ UNCHANGED holder

\* (Variants of Removed: the last player takes the place, the index is one
\* too low, nobody goes.)
RemovedBySwap(k) == Front([players EXCEPT ![k] = Last(players)])
RemovedBefore(k) == RemoveAt(players, k - 1)
RemovedNobody(k) == players

Removed(k) == RemoveAt(players, k)

\* PLAYER_EXIT_REQUEST: RemovePlayer erases index id - 1.  The handler then
\* deletes the packet twice: the debug heap ends the process, unless another
\* thread was given the same block between the two.
ExitRequest(k) ==
    /\ serverUp
    /\ k \in Given
    /\ holder' = [holder EXCEPT ![k] = "left"]
    /\ IF k <= Len(players)
       THEN /\ players' = Removed(k)
            /\ serverUp' \in BOOLEAN
            /\ UNCHANGED <<allPlayersPath, playerCount, isSeekerSet>>
       ELSE Crash

\* The same request of a client that quits in the menu, before it was given
\* an id: it sends 0, for which there is no level or no index.
ExitRequestWithoutId ==
    /\ serverUp
    /\ Crash
    /\ UNCHANGED holder

\* A connection ends without an exit request: HandleClient forgets the socket
\* and leaves the world alone.  The ids are those the connection asked for.
ConnectionLost(ks) ==
    /\ serverUp
    /\ ks # {} /\ \A k \in ks : k \in Given /\ holder[k] = "plays"
    /\ holder' = [k \in Ids |-> IF k \in ks THEN "lost" ELSE holder[k]]
    /\ UNCHANGED <<players, allPlayersPath, playerCount, isSeekerSet, serverUp>>

\* (A variant of Stepped: to the end of the path at once.)
SteppedToEnd ==
    [i \in DOMAIN players |->
        IF allPlayersPath[players[i].id] = <<>>
        THEN players[i]
        ELSE [players[i] EXCEPT !.position = Last(allPlayersPath[players[i].id])]]

\* One step of every player along the path of its own id.
Stepped ==
    [i \in DOMAIN players |->
        IF allPlayersPath[players[i].id] = <<>>
        THEN players[i]
        ELSE [players[i] EXCEPT !.position = Head(allPlayersPath[players[i].id])]]

\* (A variant of PathsAfterStep: the cell after the head is erased.)
PathsAfterStepOffByOne ==
    [k \in Ids |->
        IF (\E i \in DOMAIN players : players[i].id = k) /\ Len(allPlayersPath[k]) > 1
        THEN RemoveAt(allPlayersPath[k], 2)
        ELSE allPlayersPath[k]]

PathsAfterStep ==
    [k \in Ids |->
        IF (\E i \in DOMAIN players : players[i].id = k) /\ allPlayersPath[k] # <<>>
        THEN Tail(allPlayersPath[k])
        ELSE allPlayersPath[k]]

\* SynchronizeGameState: GameLevel::Update of the server, the steps first and
\* then ProcessCollision, whose loops module Collision has.
Synchronize ==
    /\ serverUp
    /\ LevelExists
    /\ players' = Tagged(Stepped)
    /\ allPlayersPath' = PathsAfterStep
    /\ UNCHANGED <<playerCount, isSeekerSet, holder, serverUp>>

Next ==
    \/ \E position \in EmptyCells : CreatePlayer(position)
    \/ \E k \in Ids, direction \in Direction : KeyInput(k, direction)
    \/ \E k \in Ids, end \in Clicks : MouseInput(k, end)
    \/ \E k \in Ids : ExitRequest(k)
    \/ ExitRequestWithoutId
    \/ \E ks \in SUBSET Ids : ConnectionLost(ks)
    \/ Synchronize

Spec == Init /\ [][Next]_vars

-----------------------------------------------------------------------------
(***************************************************************************)
(* Properties.                                                             *)
(***************************************************************************)

TypeOK ==
    /\ players \in Seq(Player)
    /\ allPlayersPath \in [Ids -> Seq(Floor)]
    /\ playerCount \in 0..MaxPlayers
    /\ isSeekerSet \in BOOLEAN
    /\ holder \in [Ids -> {"none", "plays", "left", "lost"}]
    /\ serverUp \in BOOLEAN

\* No two players of the vector have the same id, and they stand in the order
\* of their ids: whatever exit requests erase, a packet with the state of the
\* game names a player once.
IdsIncreasing ==
    /\ \A i \in DOMAIN players : players[i].id \in Given
    /\ \A i, j \in DOMAIN players : i < j => players[i].id < players[j].id

\* While no holder of an id up to k has left, index k - 1 of the vector is the
\* player k: that far, MovePlayer, FindPath and RemovePlayer act on the player
\* whose id the request carries.
IndexIsId ==
    \A k \in Given :
        (\A j \in 1..k : holder[j] # "left")
            => k \in DOMAIN players /\ players[k].id = k

\* No more players than holders that have not left: an exit request erases a
\* player (not always the one that asked) or ends the server; a client that is
\* lost leaves its player behind.
NoPlayerOutlivesExit ==
    serverUp => Len(players) <= Cardinality({ k \in Given : holder[k] # "left" })

\* The game has a seeker at least until the first player leaves.
SeekerPresent ==
    LevelExists /\ holder[1] # "left"
        => 1 \in DOMAIN players /\ players[1].id = 1 /\ players[1].isSeeker

\* The inductive invariant of module GameLevelProofs: what the five above
\* need of each other.  The vector never holds more players than ids were
\* given, and the player with id 1, wherever exits have shifted it, is a
\* seeker.
LevelInv ==
    /\ TypeOK
    /\ IdsIncreasing
    /\ IndexIsId
    /\ Len(players) <= playerCount
    /\ isSeekerSet <=> LevelExists
    /\ \A i \in DOMAIN players : players[i].id = 1 => players[i].isSeeker

\* What one step may do to the seeker flag of a player that stays in the
\* game: a seeker never turns back into a hider, and a hider turns into a
\* seeker only in the cell where somebody who already was one now stands.
TagsSpreadByContact ==
    [][ \A i \in DOMAIN players, j \in DOMAIN players' :
          players[i].id = players'[j].id =>
            /\ players[i].isSeeker => players'[j].isSeeker
            /\ ~ players[i].isSeeker /\ players'[j].isSeeker =>
                 \E s \in DOMAIN players, t \in DOMAIN players' :
                    /\ players[s].id = players'[t].id
                    /\ players[s].isSeeker
                    /\ players'[t].position = players'[j].position ]_vars
=============================================================================
