---------------------------- MODULE PathTracking ----------------------------
(***************************************************************************)
(* What walking a path means in GameLevel, where three handlers disturb    *)
(* it: an arrow key moves a player and leaves its path alone, a click asks *)
(* a path from the player at an index and files it under an id, and the    *)
(* synchronization puts every player on the head of its path without       *)
(* looking where it stood.                                                 *)
(*                                                                         *)
(* Two history variables say when a path may be trusted.                   *)
(***************************************************************************)
EXTENDS GameLevel

VARIABLES
    astray,     \* ids whose path, if any, does not start where they stand:
                \* moved by a key, or the path was asked from another player
    keyed       \* ids moved by a key since their last step on a path

trackVars == <<players, allPlayersPath, playerCount, isSeekerSet, holder,
               serverUp, astray, keyed>>

TrackInit == Init /\ astray = {} /\ keyed = {}

TrackKeyInput(k, direction) ==
    /\ KeyInput(k, direction)
    /\ astray' = astray \cup {players[k].id}
    /\ keyed' = keyed \cup {players[k].id}

TrackMouseInput(k, end) ==
    /\ MouseInput(k, end)
    /\ astray' = IF k \in DOMAIN players /\ players[k].id = k
                 THEN astray \ {k}
                 ELSE astray \cup {k}
    /\ UNCHANGED keyed

\* The players that take a step.
Walking == { players[i].id : i \in { n \in DOMAIN players :
                                        allPlayersPath[players[n].id] # <<>> } }

TrackSynchronize ==
    /\ Synchronize
    /\ astray' = astray \ Walking
    /\ keyed' = keyed \ Walking

TrackOther ==
    /\ \/ \E position \in EmptyCells : CreatePlayer(position)
       \/ \E k \in Ids : ExitRequest(k)
       \/ ExitRequestWithoutId
       \/ \E ks \in SUBSET Ids : ConnectionLost(ks)
    /\ UNCHANGED <<astray, keyed>>

TrackNext ==
    \/ \E k \in Ids, direction \in Direction : TrackKeyInput(k, direction)
    \/ \E k \in Ids, end \in Clicks : TrackMouseInput(k, end)
    \/ TrackSynchronize
    \/ TrackOther

TrackSpec == TrackInit /\ [][TrackNext]_trackVars

-----------------------------------------------------------------------------

\* Whoever was not moved by a key since stands on the floor: spawning, walking
\* and everybody's exits never put a player into a wall or off the map.
OnFloor ==
    \A i \in DOMAIN players :
        players[i].id \notin keyed => players[i].position \in Floor

\* The next cell of a path that is not astray is a neighbour of the cell the
\* player stands in, and so is each later cell of the one before it.
OnPath ==
    \A i \in DOMAIN players :
        LET path == allPlayersPath[players[i].id]
        IN  players[i].id \notin astray /\ path # <<>>
               => Adjacent(players[i].position, path[1])

\* Each cell of a path is a neighbour of the one before it.
PathsConnected ==
    \A k \in Ids : \A n \in 1..(Len(allPlayersPath[k]) - 1) :
        Adjacent(allPlayersPath[k][n], allPlayersPath[k][n + 1])

\* The inductive invariant of GameLevelProofs: an id that was not given yet
\* has no path that its player could find on arrival.
TrackInv ==
    /\ LevelInv
    /\ OnFloor
    /\ OnPath
    /\ PathsConnected
    /\ \A k \in Ids \ Given : allPlayersPath[k] = <<>>

\* In one step a player gets to a neighbouring cell at most, unless it is
\* astray: nobody is carried across the map by a click of another player, by
\* an exit that shifts the vector, or by a path left from before.
NoJumps ==
    [][ \A i \in DOMAIN players, j \in DOMAIN players' :
          players[i].id = players'[j].id /\ players[i].id \notin astray
             => \/ players'[j].position = players[i].position
                \/ Adjacent(players[i].position, players'[j].position) ]_trackVars
=============================================================================
