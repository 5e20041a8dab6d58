---------------------------- MODULE HideAndSeek ----------------------------
(***************************************************************************)
(* The whole program: one server, its clients and the connections.         *)
(***************************************************************************)
EXTENDS GameServer, GameClient

vars == <<netVars, serverVars, clientVars>>

Init == NetInit /\ ServerInit /\ ClientInit

Server == ServerNext /\ UNCHANGED clientVars

\* The clients of a server that crashed are not followed: they have nobody to
\* talk to.
Client(c) == serverUp /\ ClientNext(c) /\ UNCHANGED serverVars

Next == Server \/ \E c \in Clients : Client(c)

Spec == Init /\ [][Next]_vars

\* Fairness: the operating system runs every thread that can run.  A thread
\* that waits for the mutex gets it in time although others keep taking it:
\* Windows queues the waiters of a mutex first in, first out, and the
\* synchronizer sleeps between two rounds.  Nothing makes a user act, a
\* client quit or connect, or an accept fail.
Fairness ==
    /\ SF_vars(serverUp /\ (\E c \in Clients, s \in Sockets : Accept(c, s))
                        /\ UNCHANGED clientVars)
    /\ SF_vars(serverUp /\ (Refuse \/ Admit \/ Register)
                        /\ UNCHANGED clientVars)
    /\ \A c \in Clients : SF_vars(serverUp /\ HandlerNext(c) /\ UNCHANGED clientVars)
    /\ SF_vars(serverUp /\ SenderNext /\ UNCHANGED clientVars)
    /\ SF_vars(serverUp /\ SyncerNext /\ UNCHANGED clientVars)
    /\ \A c \in Clients :
          /\ WF_vars(serverUp /\ ReceivePacket(c) /\ UNCHANGED serverVars)
          /\ WF_vars(serverUp /\ SendPacket(c) /\ UNCHANGED serverVars)

FairSpec == Spec /\ Fairness

-----------------------------------------------------------------------------
(***************************************************************************)
(* Properties.                                                             *)
(***************************************************************************)

Packets == [type : PacketType, id : 0..MaxPlayers]
Tasks == [packet : Packets, to : Sockets \cup {NoSocket, All}]

TypeOK ==
    /\ clientEnd \in [Clients -> {"new", "up", "down"}]
    /\ serverEnd \in [Clients -> {"waiting", "up", "down"}]
    /\ socket \in [Clients -> Sockets \cup {NoSocket}]
    /\ toServer \in [Clients -> Seq(Packets)]
    /\ toClient \in [Clients -> Seq(Packets)]
    /\ Level!TypeOK
    /\ clientIds \in [Ids -> Sockets \cup {NoSocket}]
    /\ clientSockets \in Seq(Sockets)
    /\ sendQueue \in Seq(Tasks)
    /\ mutex \in Clients \cup {Free, "sender", "syncer"}
    /\ acceptor \in [at     : {"accept", "admit", "register", "ended"},
                     client : Clients \cup {Nobody}]
    /\ handler \in [Clients -> [at : {"new", "recv", "process", "add", "close", "ended"},
                                packet : Packets]]
    /\ sender \in [packet : Packets, to : Seq(Sockets)]
    /\ syncer \subseteq Ids
    /\ clientQueue \in [Clients -> Seq(Packets)]
    /\ playerId \in [Clients -> 0..MaxPlayers]
    /\ screen \in [Clients -> {"menu", "leaving", "game"}]

\* Everything on its way to c or to a handle, in the order it will arrive:
\* what c has not received yet, the sender's task, and the queue.
Coming(c) ==
    toClient[c]
    \o (IF sender.to # <<>> THEN <<sender.packet>> ELSE <<>>)
    \o [i \in DOMAIN sendQueue |-> sendQueue[i].packet]

\* An answer reaches a client only when the player it announces is in the
\* level, although it is put in the queue before: the sender needs the mutex
\* that the handler holds until the player is there.
IdsReady ==
    \A c \in Clients :
        /\ playerId[c] # 0 => owner[playerId[c]] # Nobody
        /\ \A i \in DOMAIN toClient[c] :
              toClient[c][i].type = "CREATE_RESPOND" => owner[toClient[c][i].id] # Nobody

\* No two clients take themselves for the same player, however connections
\* and handles come and go.
IdsUnique ==
    \A c, d \in Clients : c # d /\ playerId[c] # 0 => playerId[c] # playerId[d]

\* A client has, or is about to receive, the id or the path of a player that
\* was created for another one only if that one's connection is gone: then
\* its handle, which clientIds and the queue keep, can have been reused.
OnlyTheGoneAreMistaken ==
    \A c \in Clients :
        LET ids == {playerId[c]} \cup
                   { toClient[c][i].id : i \in { j \in DOMAIN toClient[c] :
                        toClient[c][j].type \in {"CREATE_RESPOND", "PATH"} } }
        IN  \A k \in ids \ {0} : owner[k] # c => clientEnd[owner[k]] = "down"

\* No path of a player is sent ahead of the answer that gives its id.
NoPathBeforeId ==
    \A c \in Clients :
        LET coming == Coming(c)
        IN  \A i, j \in DOMAIN coming :
              /\ coming[i].type = "PATH"
              /\ coming[j].type = "CREATE_RESPOND"
              /\ coming[i].id = coming[j].id
              => j < i

\* Broadcasts go, once each, to the connections whose handler has not seen
\* their end, and no handle on the list has been closed or given away.
BroadcastList ==
    /\ Len(clientSockets) <= MaxClients
    /\ \A i, j \in DOMAIN clientSockets :
          clientSockets[i] = clientSockets[j] => i = j
    /\ { clientSockets[i] : i \in DOMAIN clientSockets } =
         { socket[c] : c \in { d \in Clients :
              handler[d].at \notin {"new", "close", "ended"} } }

\* The threads of the server, with everything they interleave, do to the
\* world only what module GameLevel lets the requests do one at a time.
ImplementsLevel == Level!Spec

-----------------------------------------------------------------------------

\* Whoever holds the mutex lets go of it, even the sender that waits for a
\* client to make room.
MutexIsReleased == []<>(mutex = Free \/ ~ serverUp)

\* The server notices the end of every connection it admitted, and closes it.
DeadConnectionsAreClosed ==
    \A c \in Clients :
        clientEnd[c] = "down" /\ serverEnd[c] = "up" ~>
            serverEnd[c] = "down" \/ ~ serverUp

\* "Once connected to the server, it must get a player id from the server"
\* (GameClient.cpp:45): a client that the server admitted, that asks to enter
\* and that stays is given one.
EnteringClientGetsId ==
    \A c \in Clients :
        presses[c] > 0 /\ handler[c].at = "recv" ~>
            playerId[c] # 0 \/ clientEnd[c] = "down" \/ ~ serverUp
=============================================================================
