----------------------------- MODULE GameClient -----------------------------
(***************************************************************************)
(* The clients: what a user does, the queue to the server, and what each   *)
(* packet from the server changes.  The thread of the game loop enqueues,  *)
(* one thread sends and one receives; the queue has its own mutex.         *)
(*                                                                         *)
(* The contents of the levels are left to the server's modules: a client   *)
(* only shows what it is sent.                                             *)
(***************************************************************************)
EXTENDS Network, FiniteSets

CONSTANTS
    MaxPresses,     \* bound: how often a user picks "Start Game"
    MaxInputs,      \* bound: how many keys and clicks a user makes
    MaxQuits,       \* bound: how often a user quits
    MaxEnds         \* bound: how many clients end, after a quit or without

VARIABLES
    clientQueue,    \* GameClient::sendQueue
    playerId,       \* GameClient::playerId; not 0 iff hasEnteredGame
    screen,         \* the level shown: "menu", "leaving" once the change to a
                    \* GameLevel is requested, "game"
    quits,          \* how often the user quit; not 0 iff Engine::quit
    presses, inputs \* what the bounds count

clientVars == <<clientQueue, playerId, screen, quits, presses, inputs>>

ClientInit ==
    /\ clientQueue = [c \in Clients |-> <<>>]
    /\ playerId = [c \in Clients |-> 0]
    /\ screen = [c \in Clients |-> "menu"]
    /\ quits = [c \in Clients |-> 0]
    /\ presses = [c \in Clients |-> 0]
    /\ inputs = [c \in Clients |-> 0]

Enqueue(c, packet) == clientQueue' = [clientQueue EXCEPT ![c] = Append(@, packet)]

-----------------------------------------------------------------------------

Connect(c) ==
    /\ clientEnd[c] = "new"
    /\ clientEnd' = [clientEnd EXCEPT ![c] = "up"]
    /\ UNCHANGED <<serverEnd, socket, toServer, toClient, clientVars>>

\* The menu: "Start Game" sends PLAYER_ENTER_REQUEST, as often as it is picked
\* before the level changes.
PressReturn(c) ==
    /\ clientEnd[c] = "up"
    /\ screen[c] # "game"
    /\ presses[c] < MaxPresses
    /\ presses' = [presses EXCEPT ![c] = @ + 1]
    /\ Enqueue(c, Packet("ENTER", 0))
    /\ UNCHANGED <<netVars, playerId, screen, quits, inputs>>

\* Engine::Run swaps the levels between two frames.
ChangeLevel(c) ==
    /\ clientEnd[c] = "up"
    /\ screen[c] = "leaving"
    /\ screen' = [screen EXCEPT ![c] = "game"]
    /\ UNCHANGED <<netVars, clientQueue, playerId, quits, presses, inputs>>

\* Game::CheckInput: nothing before the client has entered the game.
Input(c, type) ==
    /\ clientEnd[c] = "up"
    /\ playerId[c] # 0
    /\ inputs[c] < MaxInputs
    /\ inputs' = [inputs EXCEPT ![c] = @ + 1]
    /\ Enqueue(c, Packet(type, playerId[c]))
    /\ UNCHANGED <<netVars, playerId, screen, quits, presses>>

\* The escape key, "Quit Game" in the menu or the closed console: an exit
\* request with the id the client has, which is 0 before it was given one.  The
\* console may be closed after the escape key, in the same frame or while the
\* process lingers: nothing keeps a second request from following the first.
Quit(c) ==
    /\ clientEnd[c] = "up"
    /\ quits[c] < MaxQuits
    /\ quits' = [quits EXCEPT ![c] = @ + 1]
    /\ Enqueue(c, Packet("EXIT", playerId[c]))
    /\ UNCHANGED <<netVars, playerId, screen, presses, inputs>>

\* GameClient::Send: one packet of the queue; send fails once the server's end
\* is down.
SendPacket(c) ==
    /\ clientEnd[c] = "up"
    /\ clientQueue[c] # <<>>
    /\ IF serverEnd[c] # "down"
       THEN /\ Len(toServer[c]) < Capacity
            /\ toServer' = [toServer EXCEPT ![c] = Append(@, Head(clientQueue[c]))]
       ELSE UNCHANGED toServer
    /\ clientQueue' = [clientQueue EXCEPT ![c] = Tail(@)]
    /\ UNCHANGED <<clientEnd, serverEnd, socket, toClient, playerId, screen, quits,
                   presses, inputs>>

\* GameClient::Receive: of everything recv returned, ProcessPacket looks at
\* the first packet.
ReceivePacket(c) ==
    /\ clientEnd[c] = "up"
    /\ toClient[c] # <<>>
    /\ \E rest \in Received(toClient[c]) : toClient' = [toClient EXCEPT ![c] = rest]
    /\ LET packet == Head(toClient[c]) IN
       \/ /\ packet.type = "ENTER_RESPOND"
          /\ screen' = [screen EXCEPT ![c] = IF @ = "menu" THEN "leaving" ELSE @]
          /\ Enqueue(c, Packet("CREATE", 0))
          /\ UNCHANGED playerId
       \/ /\ packet.type = "CREATE_RESPOND"
          /\ playerId' = [playerId EXCEPT ![c] = packet.id]
          /\ UNCHANGED <<screen, clientQueue>>
       \/ /\ packet.type \in {"STATE", "PATH"}
          /\ UNCHANGED <<playerId, screen, clientQueue>>
    /\ UNCHANGED <<clientEnd, serverEnd, socket, toServer, quits, presses, inputs>>

\* The process ends: main leaves Engine::Run after a quit and closes the
\* socket, whether or not the exit request was sent; or it is killed.
Disconnect(c) ==
    /\ clientEnd[c] = "up"
    /\ Cardinality({ d \in Clients : clientEnd[d] = "down" }) < MaxEnds
    /\ CloseClientEnd(c)
    /\ clientQueue' = [clientQueue EXCEPT ![c] = <<>>]
    /\ UNCHANGED <<serverEnd, socket, playerId, screen, quits, presses, inputs>>

ClientNext(c) ==
    \/ Connect(c)
    \/ PressReturn(c)
    \/ ChangeLevel(c)
    \/ \E type \in {"KEY", "MOUSE"} : Input(c, type)
    \/ Quit(c)
    \/ SendPacket(c)
    \/ ReceivePacket(c)
    \/ Disconnect(c)
=============================================================================
