----------------------------- MODULE GameServer -----------------------------
(***************************************************************************)
(* The threads of the server: the one that accepts, one handler per        *)
(* connection, the one that sends and the one that synchronizes, with the  *)
(* mutex and the queue they share.                                         *)
(*                                                                         *)
(* A section guarded by a mutex is one step when no other thread can tell  *)
(* its parts apart.  Three cannot be: the handler of PLAYER_CREATE_REQUEST *)
(* and the synchronizer, which put packets in the queue before they        *)
(* release the mutex, and the sender, which may block in send() while it   *)
(* holds it.  sendMutex only ever guards one push or pop, so it is not a   *)
(* variable.  GameLevel::mutex is only taken under GameServer::mutex.      *)
(***************************************************************************)
EXTENDS Network, Integers, FiniteSets, SequencesExt

CONSTANTS
    Width, Height, Walls, Margin, EmptyCells, Clicks, FindPathAnswers(_, _),
    MaxPlayers,     \* the constants of module GameLevel
    MaxClients,     \* 8 in AcceptClients
    MaxQueue        \* bound: the synchronizer starts no round that would make
                    \* sendQueue longer

VARIABLES
    players, allPlayersPath, isSeekerSet, \* as in module GameLevel
    playerCount,    \* the last id given
    clientIds,      \* the handle kept for every id
    clientSockets,  \* the handles broadcasts go to
    sendQueue,      \* the tasks of the sender: a packet and a handle, or All
    mutex,          \* who holds GameServer::mutex
    acceptor,       \* the thread in AcceptClients: where, and with which client
    handler,        \* HandleClient of each connection: where, and its packet
    sender,         \* the thread in Send: a packet and whom it has yet to send
                    \* it to; nobody while it holds no mutex
    syncer,         \* the ids the thread in Sychronize has yet to send paths of
    owner,          \* history: the client an id was created for
    exited          \* history: the ids whose exit request was handled

levelVars == <<players, allPlayersPath, isSeekerSet, playerCount, owner, exited>>
serverVars == <<levelVars, serverUp, clientIds, clientSockets, sendQueue, mutex,
                acceptor, handler, sender, syncer>>

Free == "free"      \* nobody holds the mutex
All == "all"        \* a task of type BROADCAST
Nobody == "nobody"  \* the owner of an id that was not given

ASSUME ServerAssumption ==
    /\ MaxPlayers \in Nat
    /\ All \notin Sockets \cup {NoSocket}
    /\ Clients \cap {Free, Nobody, "sender", "syncer"} = {}

ASSUME MaxClientsAssumption == MaxClients \in Nat

Task(packet, to) == [packet |-> packet, to |-> to]
NoTask == [packet |-> Packet("STATE", 0), to |-> <<>>]

Ids == 1..MaxPlayers

\* The handlers that have given an id and hold the mutex until its player is
\* in the level.
Creating == { c \in Clients : handler[c].at = "add" }

-----------------------------------------------------------------------------
(***************************************************************************)
(* How this state implements module GameLevel: an id exists there once its *)
(* player does.                                                            *)
(***************************************************************************)

PlayersCreated == playerCount - Cardinality(Creating)

\* The connection of the id's owner has run out of packets: its handler left
\* the receive loop.
Gone(k) == handler[owner[k]].at \in {"close", "ended"}

Holder ==
    [k \in Ids |->
        CASE owner[k] = Nobody -> "none"
          [] k \in exited -> "left"
          [] owner[k] # Nobody /\ k \notin exited /\ Gone(k) -> "lost"
          [] OTHER -> "plays"]

Level == INSTANCE GameLevel WITH playerCount <- PlayersCreated, holder <- Holder

-----------------------------------------------------------------------------

ServerInit ==
    /\ players = <<>>
    /\ allPlayersPath = [k \in Ids |-> <<>>]
    /\ isSeekerSet = FALSE
    /\ serverUp = TRUE
    /\ playerCount = 0
    /\ clientIds = [k \in Ids |-> NoSocket]
    /\ clientSockets = <<>>
    /\ sendQueue = <<>>
    /\ mutex = Free
    /\ acceptor = [at |-> "accept", client |-> Nobody]
    /\ handler = [c \in Clients |-> [at |-> "new", packet |-> Packet("ENTER", 0)]]
    /\ sender = NoTask
    /\ syncer = {}
    /\ owner = [k \in Ids |-> Nobody]
    /\ exited = {}

-----------------------------------------------------------------------------
\* (A variant of MutexAfter, below: no ReleaseMutex.)
MutexNeverReleased(last) == mutex

\* The mutex after a step of whoever holds it.
MutexAfter(last) == IF last THEN Free ELSE mutex

(***************************************************************************)
(* AcceptClients.                                                          *)
(***************************************************************************)

AcceptorAt(at, client) == acceptor' = [at |-> at, client |-> client]

Accept(c, s) ==
    /\ acceptor.at = "accept"
    /\ c \in Backlog
    /\ s \in FreeSockets
    /\ serverEnd' = [serverEnd EXCEPT ![c] = "up"]
    /\ socket' = [socket EXCEPT ![c] = s]
    /\ AcceptorAt("admit", c)
    /\ UNCHANGED <<clientEnd, toServer, toClient, levelVars, serverUp, clientIds,
                   clientSockets, sendQueue, mutex, handler, sender, syncer>>

\* accept fails when the connection it was about to return has been reset,
\* and the loop breaks off although the server is running.
AcceptFails(c) ==
    /\ acceptor.at = "accept"
    /\ c \in Backlog
    /\ clientEnd[c] = "down"
    /\ CloseServerEnd(c)
    /\ AcceptorAt("ended", Nobody)
    /\ UNCHANGED <<clientEnd, toClient, levelVars, serverUp, clientIds,
                   clientSockets, sendQueue, mutex, handler, sender, syncer>>

\* (A variant of Full: one client too many.)
FullOneLate == Len(clientSockets) > MaxClients

\* No further client is admitted.
Full == Len(clientSockets) >= MaxClients

Refuse ==
    /\ acceptor.at = "admit"
    /\ mutex = Free
    /\ Full
    /\ CloseServerEnd(acceptor.client)
    /\ AcceptorAt("accept", Nobody)
    /\ UNCHANGED <<clientEnd, toClient, levelVars, serverUp, clientIds,
                   clientSockets, sendQueue, mutex, handler, sender, syncer>>

\* The handler's thread is started outside the mutex; it may get to its recv
\* at any later time.
Admit ==
    /\ acceptor.at = "admit"
    /\ mutex = Free
    /\ ~ Full
    /\ clientSockets' = Append(clientSockets, socket[acceptor.client])
    /\ handler' = [handler EXCEPT ![acceptor.client].at = "recv"]
    /\ AcceptorAt("register", Nobody)
    /\ UNCHANGED <<netVars, levelVars, serverUp, clientIds, sendQueue, mutex,
                   sender, syncer>>

\* The thread's handle goes to clientThreads, for which the acceptor needs
\* the mutex again.
Register ==
    /\ acceptor.at = "register"
    /\ mutex = Free
    /\ AcceptorAt("accept", Nobody)
    /\ UNCHANGED <<netVars, levelVars, serverUp, clientIds, clientSockets,
                   sendQueue, mutex, handler, sender, syncer>>

-----------------------------------------------------------------------------
(***************************************************************************)
(* HandleClient and ProcessPacket.                                         *)
(***************************************************************************)

HandlerAt(c, at) == handler' = [handler EXCEPT ![c].at = at]

\* The handler of c has a packet of this type to process.
Processes(c, type) == handler[c].at = "process" /\ handler[c].packet.type = type

\* (A variant of Enqueued: a stack.)
Stacked(tasks) == sendQueue' = tasks \o sendQueue

Enqueued(tasks) == sendQueue' = sendQueue \o tasks

\* recv and DeserializePacket: of everything recv returned, ProcessPacket
\* looks at the first packet.
Receive(c) ==
    /\ handler[c].at = "recv"
    /\ toServer[c] # <<>>
    /\ \E rest \in Received(toServer[c]) : toServer' = [toServer EXCEPT ![c] = rest]
    /\ handler' = [handler EXCEPT ![c] = [at |-> "process", packet |-> Head(toServer[c])]]
    /\ UNCHANGED <<clientEnd, serverEnd, socket, toClient, levelVars, serverUp, clientIds,
                   clientSockets, sendQueue, mutex, acceptor, sender, syncer>>

EnterRequest(c) ==
    /\ Processes(c, "ENTER")
    /\ Enqueued(<<Task(Packet("ENTER_RESPOND", 0), socket[c])>>)
    /\ HandlerAt(c, "recv")
    /\ UNCHANGED <<netVars, levelVars, serverUp, clientIds, clientSockets, mutex,
                   acceptor, sender, syncer>>

\* (A variant of NextId: the number of clients.)
ClientsAsId == Len(clientSockets)

NextId == playerCount + 1

\* PLAYER_CREATE_REQUEST, under the mutex throughout: the id and the answer,
\* before there is a player it is about,
CreateRespond(c) ==
    /\ Processes(c, "CREATE")
    /\ mutex = Free
    /\ playerCount < MaxPlayers
    /\ mutex' = c
    /\ playerCount' = NextId
    /\ Enqueued(<<Task(Packet("CREATE_RESPOND", NextId), socket[c])>>)
    /\ handler' = [handler EXCEPT ![c] = [at |-> "add", packet |-> Packet("CREATE", NextId)]]
    /\ UNCHANGED <<netVars, players, allPlayersPath, isSeekerSet, owner, exited,
                   serverUp, clientIds, clientSockets, acceptor, sender, syncer>>

\* and then the level, if this is the first player, and the player.
CreateAdd(c, position) ==
    LET id == handler[c].packet.id IN
    /\ handler[c].at = "add"
    /\ clientIds' = [clientIds EXCEPT ![id] = socket[c]]
    /\ players' = Append(players, Level!NewPlayer(id, position))
    /\ isSeekerSet' = TRUE
    /\ owner' = [owner EXCEPT ![id] = c]
    /\ mutex' = Free
    /\ HandlerAt(c, "recv")
    /\ UNCHANGED <<netVars, allPlayersPath, playerCount, exited, serverUp,
                   clientSockets, sendQueue, acceptor, sender, syncer>>

\* An arrow key; MovePlayer ignores an id beyond the vector.
KeyInput(c, direction) ==
    LET k == handler[c].packet.id IN
    /\ Processes(c, "KEY")
    /\ mutex = Free
    /\ IF k <= Len(players)
       THEN /\ Level!Moved(players[k].position, direction) \in Level!Position
            /\ players' = [players EXCEPT ![k].position = Level!Moved(@, direction)]
       ELSE UNCHANGED players
    /\ HandlerAt(c, "recv")
    /\ UNCHANGED <<netVars, allPlayersPath, isSeekerSet, playerCount, owner, exited,
                   serverUp, clientIds, clientSockets, sendQueue, mutex, acceptor,
                   sender, syncer>>

\* A click; FindPath indexes the vector without asking its size.
MouseInput(c, end) ==
    LET k == handler[c].packet.id IN
    /\ Processes(c, "MOUSE")
    /\ mutex = Free
    /\ IF k <= Len(players)
       THEN /\ \E route \in FindPathAnswers(players[k].position, end) :
                  allPlayersPath' = [allPlayersPath EXCEPT ![k] = route]
            /\ UNCHANGED serverUp
       ELSE serverUp' = FALSE /\ UNCHANGED allPlayersPath
    /\ HandlerAt(c, "recv")
    /\ UNCHANGED <<netVars, players, isSeekerSet, playerCount, owner, exited,
                   clientIds, clientSockets, sendQueue, mutex, acceptor, sender,
                   syncer>>

\* The exit request of player k; k = 0 is that of a client without an id.
\* RemovePlayer erases index k - 1, then the packet is deleted twice.
ExitRequest(c) ==
    LET k == handler[c].packet.id IN
    /\ Processes(c, "EXIT")
    /\ mutex = Free
    /\ IF k \in 1..Len(players)
       THEN players' = Level!Removed(k) /\ serverUp' \in BOOLEAN
       ELSE UNCHANGED players /\ serverUp' = FALSE
    /\ exited' = exited \cup ({k} \ {0})
    /\ HandlerAt(c, "recv")
    /\ UNCHANGED <<netVars, allPlayersPath, isSeekerSet, playerCount, owner,
                   clientIds, clientSockets, sendQueue, mutex, acceptor, sender,
                   syncer>>

\* (A variant of Unlisted: it stays on the list.)
StillListed(s) == clientSockets

Unlisted(s) == RemoveFirst(clientSockets, s)

\* recv returns 0 or an error: the handler takes its handle off the list, and
\* clientIds keeps it.
Leave(c) ==
    /\ handler[c].at = "recv"
    /\ toServer[c] = <<>> /\ clientEnd[c] = "down"
    /\ mutex = Free
    /\ clientSockets' = Unlisted(socket[c])
    /\ HandlerAt(c, "close")
    /\ UNCHANGED <<netVars, levelVars, serverUp, clientIds, sendQueue, mutex,
                   acceptor, sender, syncer>>

\* (A variant: the socket is never closed.)
CloseNothing(c) ==
    /\ handler[c].at = "close"
    /\ HandlerAt(c, "ended")
    /\ UNCHANGED <<netVars, levelVars, serverUp, clientIds, clientSockets,
                   sendQueue, mutex, acceptor, sender, syncer>>

\* closesocket, after the mutex was released.
Close(c) ==
    /\ handler[c].at = "close"
    /\ CloseServerEnd(c)
    /\ HandlerAt(c, "ended")
    /\ UNCHANGED <<clientEnd, toClient, levelVars, serverUp, clientIds,
                   clientSockets, sendQueue, mutex, acceptor, sender, syncer>>

-----------------------------------------------------------------------------
(***************************************************************************)
(* Send: the sender takes the first task, and the mutex for as long as the *)
(* send() calls of that task take.  It takes the task before it waits for  *)
(* the mutex, which nobody can tell from the reverse.                      *)
(***************************************************************************)

\* (A variant of Recipients: every task goes to everybody.)
RecipientsEverybody(task) == clientSockets

Recipients(task) == IF task.to = All THEN clientSockets ELSE <<task.to>>

\* (A variant: the sender does not take the mutex.)
SendWithoutLock ==
    /\ sender.to = <<>>
    /\ sendQueue # <<>>
    /\ sender' = [packet |-> Head(sendQueue).packet, to |-> Recipients(Head(sendQueue))]
    /\ sendQueue' = Tail(sendQueue)
    /\ UNCHANGED <<netVars, levelVars, serverUp, clientIds, clientSockets, mutex,
                   acceptor, handler, syncer>>

SendLock ==
    /\ sender.to = <<>>
    /\ sendQueue # <<>>
    /\ mutex = Free
    /\ mutex' = IF Recipients(Head(sendQueue)) = <<>> THEN Free ELSE "sender"
    /\ sender' = [packet |-> Head(sendQueue).packet, to |-> Recipients(Head(sendQueue))]
    /\ sendQueue' = Tail(sendQueue)
    /\ UNCHANGED <<netVars, levelVars, serverUp, clientIds, clientSockets,
                   acceptor, handler, syncer>>

\* One send() of the task; the mutex is released after the last.
SendOne ==
    /\ sender.to # <<>>
    /\ SendReturns(Head(sender.to))
    /\ toClient' = Sent(Head(sender.to), sender.packet)
    /\ sender' = IF Len(sender.to) = 1 THEN NoTask
                 ELSE [packet |-> sender.packet, to |-> Tail(sender.to)]
    /\ mutex' = MutexAfter(Len(sender.to) = 1)
    /\ UNCHANGED <<clientEnd, serverEnd, socket, toServer, levelVars, serverUp, clientIds,
                   clientSockets, sendQueue, acceptor, handler, syncer>>

-----------------------------------------------------------------------------
(***************************************************************************)
(* Sychronize and SynchronizeGameState: a step of the game, its state to   *)
(* everybody and then, in the order of an unordered_map, a path per id     *)
(* that was ever given, to the handle kept for the id.                     *)
(***************************************************************************)

Given == { k \in Ids : clientIds[k] # NoSocket }

SyncLock ==
    /\ syncer = {}
    /\ Given # {}
    /\ mutex = Free
    /\ Len(sendQueue) + 1 + Cardinality(Given) <= MaxQueue
    /\ mutex' = "syncer"
    /\ players' = Level!Tagged(Level!Stepped)
    /\ allPlayersPath' = Level!PathsAfterStep
    /\ Enqueued(<<Task(Packet("STATE", 0), All)>>)
    /\ syncer' = Given
    /\ UNCHANGED <<netVars, isSeekerSet, playerCount, owner, exited, serverUp,
                   clientIds, clientSockets, acceptor, handler, sender>>

\* The path of one id; the mutex is released after the last.
SyncPath(k) ==
    /\ k \in syncer
    /\ Enqueued(<<Task(Packet("PATH", k), clientIds[k])>>)
    /\ syncer' = syncer \ {k}
    /\ mutex' = MutexAfter(syncer = {k})
    /\ UNCHANGED <<netVars, levelVars, serverUp, clientIds, clientSockets,
                   acceptor, handler, sender>>

-----------------------------------------------------------------------------

AcceptorNext ==
    \/ \E c \in Clients, s \in Sockets : Accept(c, s)
    \/ \E c \in Clients : AcceptFails(c)
    \/ Refuse
    \/ Admit
    \/ Register

HandlerNext(c) ==
    \/ Receive(c)
    \/ EnterRequest(c)
    \/ CreateRespond(c)
    \/ \E position \in EmptyCells : CreateAdd(c, position)
    \/ \E direction \in Level!Direction : KeyInput(c, direction)
    \/ \E end \in Clicks : MouseInput(c, end)
    \/ ExitRequest(c)
    \/ Leave(c)
    \/ Close(c)

SenderNext == SendLock \/ SendOne

SyncerNext == SyncLock \/ \E k \in Ids : SyncPath(k)

ServerNext ==
    /\ serverUp
    /\ \/ AcceptorNext
       \/ \E c \in Clients : HandlerNext(c)
       \/ SenderNext
       \/ SyncerNext
=============================================================================
