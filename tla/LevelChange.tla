---------------------------- MODULE LevelChange ----------------------------
(***************************************************************************)
(* How a client changes levels.  The thread that receives requests the     *)
(* change, the game loop carries it out, and the thread that receives asks *)
(* for the current level whenever a packet is about one.  No lock protects *)
(* mainLevel, pendingLevel and levelChangeRequested, so that each access   *)
(* is a step.                                                              *)
(*                                                                         *)
(* A level is the number of its creation: 0 is nullptr, 1 the menu main    *)
(* requests before the loop starts, and each PLAYER_ENTER_RESPOND creates  *)
(* a GameLevel.                                                            *)
(***************************************************************************)
EXTENDS Naturals

CONSTANT MaxPresses     \* bound: how often "Start Game" is picked

ASSUME LevelChangeAssumption == MaxPresses \in Nat

VARIABLES
    mainLevel, pendingLevel, levelChangeRequested,  \* of Engine
    deleted,        \* the levels that were deleted
    clientId,       \* GameLevel::clientId of each level
    playerId, hasEnteredGame,   \* of GameClient
    loop,           \* where the game loop is
    receiver,       \* where the receiving thread is in ProcessPacket, with
                    \* which packet and which level
    presses,        \* how often "Start Game" was picked
    entered,        \* how many PLAYER_ENTER_RESPONDs were processed
    created,        \* how many PLAYER_CREATE_RESPONDs were processed
    clientUp        \* FALSE once the process ended on its own or left the loop

vars == <<mainLevel, pendingLevel, levelChangeRequested, deleted, clientId,
          playerId, hasEnteredGame, loop, receiver, presses, entered, created,
          clientUp>>

NoLevel == 0
Menu == 1
Levels == 1..(MaxPresses + 1)
GameLevels == Levels \ {Menu}

Idle == [at |-> "idle", packet |-> "none", level |-> NoLevel]

Init ==
    /\ mainLevel = NoLevel
    /\ pendingLevel = Menu
    /\ levelChangeRequested = TRUE
    /\ deleted = {}
    /\ clientId = [l \in Levels |-> 0]
    /\ playerId = 0
    /\ hasEnteredGame = FALSE
    /\ loop = "test"
    /\ receiver = Idle
    /\ presses = 0
    /\ entered = 0
    /\ created = 0
    /\ clientUp = TRUE

-----------------------------------------------------------------------------
(***************************************************************************)
(* Engine::Run.                                                            *)
(***************************************************************************)

receiverVars == <<clientId, playerId, hasEnteredGame, receiver, entered, created,
                  clientUp>>

\* (A variant of TestChange: the flag alone.)
TestFlag ==
    /\ loop = "test"
    /\ loop' = IF levelChangeRequested THEN "delete" ELSE "frame"
    /\ UNCHANGED <<mainLevel, pendingLevel, levelChangeRequested, deleted, presses,
                   receiverVars>>

TestChange ==
    /\ loop = "test"
    /\ loop' = IF levelChangeRequested /\ pendingLevel # NoLevel THEN "delete" ELSE "frame"
    /\ UNCHANGED <<mainLevel, pendingLevel, levelChangeRequested, deleted, presses,
                   receiverVars>>

DeleteLevel ==
    /\ loop = "delete"
    /\ deleted' = deleted \cup ({mainLevel} \ {NoLevel})
    /\ loop' = "assign"
    /\ UNCHANGED <<mainLevel, pendingLevel, levelChangeRequested, presses, receiverVars>>

AssignLevel ==
    /\ loop = "assign"
    /\ mainLevel' = pendingLevel
    /\ loop' = "clear"
    /\ UNCHANGED <<pendingLevel, levelChangeRequested, deleted, presses, receiverVars>>

ClearPending ==
    /\ loop = "clear"
    /\ pendingLevel' = NoLevel
    /\ loop' = "reset"
    /\ UNCHANGED <<mainLevel, levelChangeRequested, deleted, presses, receiverVars>>

ResetRequest ==
    /\ loop = "reset"
    /\ levelChangeRequested' = FALSE
    /\ loop' = "frame"
    /\ UNCHANGED <<mainLevel, pendingLevel, deleted, presses, receiverVars>>

\* A frame, or the wait for one, in which the level is updated and drawn.
Frame ==
    /\ loop = "frame"
    /\ loop' = "test"
    /\ UNCHANGED <<mainLevel, pendingLevel, levelChangeRequested, deleted, presses,
                   receiverVars>>

\* In a frame of the menu the user picks "Start Game"; module GameLoop has the
\* frame.
PressReturn ==
    /\ loop = "frame"
    /\ mainLevel = Menu
    /\ presses < MaxPresses
    /\ presses' = presses + 1
    /\ UNCHANGED <<mainLevel, pendingLevel, levelChangeRequested, deleted, loop,
                   receiverVars>>

\* The user has quit: the loop ends, and what the other thread still does is
\* left to module Lifecycle.
LeaveLoop ==
    /\ loop = "test"
    /\ clientUp' = FALSE
    /\ UNCHANGED <<mainLevel, pendingLevel, levelChangeRequested, deleted, loop, presses,
                   clientId, playerId, hasEnteredGame, receiver, entered, created>>

LoopStep ==
    \/ TestChange
    \/ DeleteLevel
    \/ AssignLevel
    \/ ClearPending
    \/ ResetRequest
    \/ Frame

-----------------------------------------------------------------------------
(***************************************************************************)
(* GameClient::ProcessPacket.                                              *)
(***************************************************************************)

loopVars == <<mainLevel, deleted, loop, presses>>

\* PLAYER_ENTER_RESPOND: a new level, which RequestLevelChange leaves to the
\* loop in two assignments.  Every press is answered once.
EnterRespond ==
    /\ receiver.at = "idle"
    /\ entered < presses
    /\ entered' = entered + 1
    /\ pendingLevel' = entered + 2
    /\ receiver' = [receiver EXCEPT !.at = "request"]
    /\ UNCHANGED <<loopVars, levelChangeRequested, clientId, playerId, hasEnteredGame,
                   created, clientUp>>

\* (A variant of RequestChange: the flag is forgotten.)
RequestNothing ==
    /\ receiver.at = "request"
    /\ receiver' = Idle
    /\ UNCHANGED <<loopVars, pendingLevel, levelChangeRequested, clientId, playerId,
                   hasEnteredGame, entered, created, clientUp>>

RequestChange ==
    /\ receiver.at = "request"
    /\ levelChangeRequested' = TRUE
    /\ receiver' = Idle
    /\ UNCHANGED <<loopVars, pendingLevel, clientId, playerId, hasEnteredGame,
                   entered, created, clientUp>>

\* GetCurrentLevel, and whatever it is, a GameLevel from now on.
Fetched(packet) == [at |-> "use", packet |-> packet, level |-> mainLevel]

\* PLAYER_CREATE_RESPOND: the answer to the request sent with each
\* PLAYER_ENTER_RESPOND, with a new id.
CreateRespond ==
    /\ receiver.at = "idle"
    /\ created < entered
    /\ created' = created + 1
    /\ playerId' = created + 1
    /\ receiver' = Fetched("CREATE_RESPOND")
    /\ UNCHANGED <<loopVars, pendingLevel, levelChangeRequested, clientId,
                   hasEnteredGame, entered, clientUp>>

\* GAME_STATE_SYNCHRONIZE is ignored before the client has entered, MOVE_PATH
\* is not: NoPathBeforeId of module HideAndSeek keeps it away.
StateOrPath(packet) ==
    /\ receiver.at = "idle"
    /\ \/ packet = "STATE" /\ hasEnteredGame
       \/ packet = "PATH" /\ created > 0
    /\ receiver' = Fetched(packet)
    /\ UNCHANGED <<loopVars, pendingLevel, levelChangeRequested, clientId, playerId,
                   hasEnteredGame, entered, created, clientUp>>

\* (A variant of IdSet: the id of the answer before.)
IdSetEarly(level) == [clientId EXCEPT ![level] = playerId - 1]

\* SetClientId.
IdSet(level) == [clientId EXCEPT ![level] = playerId]

\* The level is used.  What a method of GameLevel does to the memory of a menu
\* or of a deleted level is undefined: the process survives it or not.
UseLevel ==
    LET level == receiver.level IN
    /\ receiver.at = "use"
    /\ IF level \in GameLevels \ deleted
       THEN /\ clientId' = IF receiver.packet = "CREATE_RESPOND"
                           THEN IdSet(level) ELSE clientId
            /\ UNCHANGED clientUp
       ELSE clientUp' \in BOOLEAN /\ UNCHANGED clientId
    /\ hasEnteredGame' = (hasEnteredGame \/ receiver.packet = "CREATE_RESPOND")
    /\ receiver' = Idle
    /\ UNCHANGED <<loopVars, pendingLevel, levelChangeRequested, playerId, entered,
                   created>>

ReceiverStep == RequestChange \/ UseLevel

Arrival ==
    \/ EnterRespond
    \/ CreateRespond
    \/ \E packet \in {"STATE", "PATH"} : StateOrPath(packet)

Next == clientUp /\ (LoopStep \/ PressReturn \/ LeaveLoop \/ ReceiverStep \/ Arrival)

\* The loop runs and packets that arrived are processed; nobody has to press.
Spec ==
    /\ Init /\ [][Next]_vars
    /\ WF_vars(clientUp /\ LoopStep)
    /\ WF_vars(clientUp /\ ReceiverStep)

-----------------------------------------------------------------------------
(***************************************************************************)
(* Properties.                                                             *)
(***************************************************************************)

TypeOK ==
    /\ mainLevel \in Levels \cup {NoLevel}
    /\ pendingLevel \in Levels \cup {NoLevel}
    /\ levelChangeRequested \in BOOLEAN
    /\ deleted \subseteq Levels
    /\ clientId \in [Levels -> 0..MaxPresses]
    /\ playerId \in 0..MaxPresses
    /\ hasEnteredGame \in BOOLEAN
    /\ loop \in {"test", "delete", "assign", "clear", "reset", "frame"}
    /\ receiver \in [at     : {"idle", "request", "use"},
                     packet : {"none", "CREATE_RESPOND", "STATE", "PATH"},
                     level  : Levels \cup {NoLevel}]
    /\ presses \in 0..MaxPresses
    /\ entered \in 0..presses
    /\ created \in 0..entered
    /\ clientUp \in BOOLEAN

\* However requests and changes overlap, the loop has a level to update and to
\* draw from the first change on, never a deleted one, and deletes none twice.
LoopHasLevel ==
    /\ loop = "frame" => mainLevel # NoLevel
    /\ loop # "assign" => mainLevel \notin deleted
    /\ pendingLevel \notin deleted

\* The level on the screen marks the player with the client's id, or, when it
\* replaced the one the id was set in, nobody: never another player.
OwnIdOrNone ==
    receiver.at # "use" /\ mainLevel \in Levels \ deleted =>
        clientId[mainLevel] \in {0, playerId}

\* Who was let in gets to see the game, even if the change to a second level
\* is requested in the middle of the first.
GameIsShown == entered > 0 ~> mainLevel \in GameLevels \/ ~ clientUp

MainIsOlder ==
    /\ \A l \in deleted \cup {mainLevel, pendingLevel} : l <= entered + 1
    /\ pendingLevel = mainLevel => loop = "clear"
    /\ loop \in {"delete", "assign"} => pendingLevel # NoLevel
    /\ loop \in {"clear", "reset"} => mainLevel # NoLevel
    /\ loop = "assign" => mainLevel \in deleted \cup {NoLevel}
    /\ mainLevel = NoLevel =>
         pendingLevel = Menu /\ levelChangeRequested /\ presses = 0 /\ receiver = Idle

FetchedIsMain ==
    /\ receiver.at = "use" /\ receiver.level \notin deleted => receiver.level = mainLevel
    /\ receiver.packet = "CREATE_RESPOND" => receiver.at = "use" /\ created > 0
    /\ hasEnteredGame => created > 0

IdIsInMain ==
    /\ clientId[Menu] = 0
    /\ \A l \in Levels : l > entered + 1 => clientId[l] = 0
    /\ pendingLevel \in Levels /\ pendingLevel # mainLevel => clientId[pendingLevel] = 0
    /\ mainLevel \in Levels \ deleted =>
         IF receiver.packet = "CREATE_RESPOND"
         THEN receiver.level = mainLevel \/ clientId[mainLevel] = 0
         ELSE clientId[mainLevel] \in {0, playerId}

\* The inductive invariant in GameLoopProofs.  A level is deleted only while
\* it is the main one, what is pending is newer than that and nobody's id was
\* set in it yet, and a level the receiving thread has fetched is the main one
\* until it is deleted.
ChangeInv ==
    /\ TypeOK
    /\ LoopHasLevel
    /\ MainIsOlder
    /\ FetchedIsMain
    /\ IdIsInMain
=============================================================================
