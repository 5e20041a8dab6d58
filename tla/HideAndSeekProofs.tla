------------------------- MODULE HideAndSeekProofs -------------------------
(***************************************************************************)
(* Ids are given to one client each, and to none before the player is in   *)
(* the level; broadcasts go to the connections that are there; what the    *)
(* threads do to the level they share is what GameLevel allows; a client   *)
(* is told of its own player, in order; nobody keeps the mutex or a        *)
(* connection without a step left to take: for any number of clients,      *)
(* handles, packets in flight and tasks in the queue.                      *)
(***************************************************************************)
EXTENDS HideAndSeek, SequenceTheorems, FiniteSetTheorems, TLAPS

USE NetworkAssumption, ServerAssumption

NetTypes ==
    /\ serverEnd \in [Clients -> {"waiting", "up", "down"}]
    /\ socket \in [Clients -> Sockets \cup {NoSocket}]
    /\ toServer \in [Clients -> Seq(Packets)]
    /\ toClient \in [Clients -> Seq(Packets)]
    /\ clientQueue \in [Clients -> Seq(Packets)]
    /\ playerId \in [Clients -> 0..MaxPlayers]

ServerTypes ==
    /\ playerCount \in 0..MaxPlayers
    /\ owner \in [Ids -> Clients \cup {Nobody}]
    /\ clientIds \in [Ids -> Sockets \cup {NoSocket}]
    /\ sendQueue \in Seq(Tasks)
    /\ handler \in [Clients -> [at : {"new", "recv", "process", "add", "close", "ended"},
                                packet : Packets]]
    /\ sender.packet \in Packets

Types == NetTypes /\ ServerTypes

\* A handle stands for one connection at most, and a handler has one.
SocketInv ==
    /\ \A c, d \in Clients : c # d /\ socket[c] = socket[d] => socket[c] = NoSocket
    /\ \A c \in Clients :
          /\ handler[c].at \notin {"new", "ended"} => socket[c] \in Sockets
          /\ serverEnd[c] = "waiting" => handler[c].at = "new"
    /\ acceptor.at = "admit" =>
          /\ acceptor.client \in Clients
          /\ socket[acceptor.client] \in Sockets
          /\ handler[acceptor.client].at = "new"
          /\ serverEnd[acceptor.client] # "waiting"

\* Whoever is in the middle of a section holds the mutex, and an id without a
\* player is one that a handler in such a section has given.
MutexInv ==
    /\ sender.to # <<>> => mutex = "sender"
    /\ syncer # {} => mutex = "syncer"
    /\ \A c \in Clients :
          handler[c].at = "add" => mutex = c /\ handler[c].packet.id \in 1..playerCount
    /\ \A k \in 1..playerCount :
          owner[k] = Nobody =>
            \E c \in Clients : handler[c].at = "add" /\ handler[c].packet.id = k

\* Where the answers to PLAYER_CREATE_REQUEST are: an answer to each id is in
\* one place only, from the queue to the client.
AnswerIds(packets) ==
    { packets[i].id : i \in { j \in DOMAIN packets : packets[j].type = "CREATE_RESPOND" } }

Known(c) == AnswerIds(toClient[c]) \cup ({playerId[c]} \ {0})

Sending ==
    { k \in {sender.packet.id} :
        sender.to # <<>> /\ sender.packet.type = "CREATE_RESPOND" }

Answers == { i \in DOMAIN sendQueue : sendQueue[i].packet.type = "CREATE_RESPOND" }

AnswerInv ==
    /\ \A i \in Answers :
          /\ sendQueue[i].packet.id \in 1..playerCount
          /\ sendQueue[i].packet.id \notin Sending
          /\ sendQueue[i].to \in Sockets
          /\ \A c \in Clients : sendQueue[i].packet.id \notin Known(c)
          /\ \A j \in Answers : i # j => sendQueue[i].packet.id # sendQueue[j].packet.id
    /\ \A k \in Sending :
          /\ k \in 1..playerCount /\ owner[k] # Nobody
          /\ \E s \in Sockets : sender.to = <<s>>
          /\ \A c \in Clients : k \notin Known(c)
    /\ \A c \in Clients :
          /\ \A k \in Known(c) : k \in 1..playerCount /\ owner[k] # Nobody
          /\ \A d \in Clients : c # d => Known(c) \cap Known(d) = {}

IdsInv == Types /\ SocketInv /\ MutexInv /\ AnswerInv

-----------------------------------------------------------------------------

LEMMA InitIds == Init => IdsInv
<1> SUFFICES ASSUME Init PROVE IdsInv
    OBVIOUS
<1> USE DEF Init, NetInit, ServerInit, ClientInit
<1>1. Packet("ENTER", 0) \in Packets /\ Packet("STATE", 0) \in Packets
  BY DEF Packet, Packets, PacketType
<1>2. NetTypes
  BY DEF NetTypes
<1>3. ServerTypes
  BY <1>1 DEF ServerTypes, NoTask
<1>4. SocketInv
  BY DEF SocketInv
<1>5. MutexInv
  BY DEF MutexInv, NoTask
<1>6. AnswerInv
  BY DEF AnswerInv, Answers, Sending, Known, AnswerIds, NoTask
<1> QED
  BY <1>2, <1>3, <1>4, <1>5, <1>6 DEF IdsInv, Types

\* What recv leaves is a part of what there was.
LEMMA Rest ==
    ASSUME NEW S, NEW packets \in Seq(S), NEW rest \in Received(packets)
    PROVE  /\ rest \in Seq(S)
           /\ \A i \in DOMAIN rest : \E j \in DOMAIN packets : rest[i] = packets[j]
<1>1. PICK n \in 1..Len(packets) : rest = SubSeq(packets, n + 1, Len(packets))
  BY DEF Received
<1>2. /\ rest \in Seq(S) /\ Len(rest) = Len(packets) - n
      /\ \A i \in 1..(Len(packets) - n) : rest[i] = packets[n + i]
  BY <1>1
<1> QED
  BY <1>2

LEMMA CloseTypes ==
    ASSUME Types, NEW c \in Clients, CloseServerEnd(c)
    PROVE  /\ serverEnd' \in [Clients -> {"waiting", "up", "down"}]
           /\ socket' \in [Clients -> Sockets \cup {NoSocket}]
           /\ toServer' \in [Clients -> Seq(Packets)]
<1>1. <<>> \in Seq(Packets)
  OBVIOUS
<1> QED
  BY <1>1 DEF CloseServerEnd, Types, NetTypes

LEMMA ClientTypes ==
    ASSUME Types, NEW c \in Clients, ClientNext(c), UNCHANGED serverVars
    PROVE  Types'
<1> USE DEF Types, NetTypes
<1>1. ServerTypes'
  BY DEF ServerTypes, serverVars, levelVars
<1>2. \A type \in PacketType, k \in 0..MaxPlayers : Packet(type, k) \in Packets
  BY DEF Packet, Packets
<1>3. CASE Connect(c)
  BY <1>1, <1>3 DEF Connect, clientVars
<1>4. CASE PressReturn(c)
  BY <1>1, <1>2, <1>4 DEF PressReturn, Enqueue, netVars, PacketType
<1>5. CASE ChangeLevel(c)
  BY <1>1, <1>5 DEF ChangeLevel, netVars
<1>6. ASSUME NEW type \in {"KEY", "MOUSE"}, Input(c, type) PROVE Types'
  BY <1>1, <1>2, <1>6 DEF Input, Enqueue, netVars, PacketType
<1>7. CASE Quit(c)
  BY <1>1, <1>2, <1>7 DEF Quit, Enqueue, netVars, PacketType
<1>8. CASE SendPacket(c)
  <2>1. /\ clientQueue[c] \in Seq(Packets) /\ clientQueue[c] # <<>>
        /\ clientQueue' = [clientQueue EXCEPT ![c] = Tail(@)]
        /\ \/ toServer' = toServer
           \/ toServer' = [toServer EXCEPT ![c] = Append(@, Head(clientQueue[c]))]
    BY <1>8 DEF SendPacket
  <2>2. Head(clientQueue[c]) \in Packets /\ Tail(clientQueue[c]) \in Seq(Packets)
    BY <2>1
  <2>3. toServer' \in [Clients -> Seq(Packets)]
    <3>1. Append(toServer[c], Head(clientQueue[c])) \in Seq(Packets)
      BY <2>2
    <3>2. CASE toServer' = toServer
      BY <3>2
    <3>3. CASE toServer' = [toServer EXCEPT ![c] = Append(@, Head(clientQueue[c]))]
      BY <3>1, <3>3
    <3> QED
      BY <2>1, <3>2, <3>3
  <2>4. clientQueue' \in [Clients -> Seq(Packets)]
    BY <2>1, <2>2
  <2>5. UNCHANGED <<serverEnd, socket, toClient, playerId>>
    BY <1>8 DEF SendPacket
  <2> QED
    BY <1>1, <2>3, <2>4, <2>5
<1>9. CASE ReceivePacket(c)
  <2>1. toClient' \in [Clients -> Seq(Packets)]
    BY <1>9, Rest DEF ReceivePacket
  <2>2. Head(toClient[c]) \in Packets
    BY <1>9 DEF ReceivePacket
  <2>3. playerId' \in [Clients -> 0..MaxPlayers]
    BY <1>9, <2>2 DEF ReceivePacket, Packets
  <2>4. clientQueue' \in [Clients -> Seq(Packets)]
    <3>1. Packet("CREATE", 0) \in Packets
      BY <1>2 DEF PacketType
    <3>2. \/ clientQueue' = clientQueue
          \/ clientQueue' = [clientQueue EXCEPT ![c] = Append(@, Packet("CREATE", 0))]
      BY <1>9 DEF ReceivePacket, Enqueue
    <3>3. Append(clientQueue[c], Packet("CREATE", 0)) \in Seq(Packets)
      BY <3>1
    <3> QED
      BY <3>2, <3>3
  <2> QED
    BY <1>1, <1>9, <2>1, <2>3, <2>4 DEF ReceivePacket
<1>10. CASE Disconnect(c)
  <2>1. /\ toClient' = [toClient EXCEPT ![c] = <<>>]
        /\ clientQueue' = [clientQueue EXCEPT ![c] = <<>>]
        /\ toServer' = toServer \/ toServer' = [toServer EXCEPT ![c] = <<>>]
        /\ UNCHANGED <<serverEnd, socket, playerId>>
    BY <1>10 DEF Disconnect, CloseClientEnd
  <2>2. <<>> \in Seq(Packets)
    OBVIOUS
  <2>3. /\ toClient' \in [Clients -> Seq(Packets)]
        /\ clientQueue' \in [Clients -> Seq(Packets)]
        /\ toServer' \in [Clients -> Seq(Packets)]
    <3>1. toClient' \in [Clients -> Seq(Packets)]
      BY <2>1, <2>2
    <3>2. clientQueue' \in [Clients -> Seq(Packets)]
      BY <2>1, <2>2
    <3>3. CASE toServer' = toServer
      BY <3>1, <3>2, <3>3
    <3>4. CASE toServer' = [toServer EXCEPT ![c] = <<>>]
      BY <2>2, <3>1, <3>2, <3>4
    <3> QED
      BY <2>1, <3>3, <3>4
  <2>4. UNCHANGED <<serverEnd, socket, playerId>>
    BY <2>1
  <2> QED
    BY <1>1, <2>3, <2>4
<1> QED
  BY <1>3, <1>4, <1>5, <1>6, <1>7, <1>8, <1>9, <1>10 DEF ClientNext

\* What joins the queue is a task.
LEMMA QueueTypes ==
    ASSUME Types, NEW packet \in Packets, NEW to \in Sockets \cup {NoSocket, All},
           Enqueued(<<Task(packet, to)>>)
    PROVE  sendQueue' \in Seq(Tasks)
<1>1. Task(packet, to) \in Tasks
  BY DEF Task, Tasks
<1>2. <<Task(packet, to)>> \in Seq(Tasks) /\ sendQueue \in Seq(Tasks)
  BY <1>1 DEF Types, ServerTypes
<1> QED
  BY <1>2 DEF Enqueued

LEMMA HandlerAtTypes ==
    ASSUME Types, NEW c \in Clients,
           NEW at \in {"new", "recv", "process", "add", "close", "ended"}, HandlerAt(c, at)
    PROVE  handler' \in [Clients -> [at : {"new", "recv", "process", "add", "close", "ended"},
                                    packet : Packets]]
<1> DEFINE records == [at : {"new", "recv", "process", "add", "close", "ended"},
                       packet : Packets]
<1>1. handler \in [Clients -> records]
  BY DEF Types, ServerTypes
<1>2. [handler[c] EXCEPT !.at = at] \in records
  BY <1>1
<1>3. handler' = [handler EXCEPT ![c] = [handler[c] EXCEPT !.at = at]]
  BY DEF HandlerAt
<1> HIDE DEF records
<1>4. handler' \in [Clients -> records]
  BY <1>1, <1>2, <1>3
<1> QED
  BY <1>4 DEF records

LEMMA AcceptorTypes ==
    ASSUME Types, SocketInv, AcceptorNext, UNCHANGED clientVars
    PROVE  Types'
<1> USE DEF Types, NetTypes, ServerTypes, AcceptorAt, clientVars, levelVars
<1>1. ASSUME NEW c \in Clients, NEW s \in Sockets, Accept(c, s) PROVE Types'
  BY <1>1 DEF Accept
<1>2. ASSUME NEW c \in Clients, AcceptFails(c) PROVE Types'
  BY <1>2, CloseTypes DEF AcceptFails
<1>3. CASE Refuse
  BY <1>3, CloseTypes DEF Refuse, SocketInv
<1>4. CASE Admit
  <2>1. HandlerAt(acceptor.client, "recv") /\ acceptor.client \in Clients
    BY <1>4 DEF Admit, SocketInv, HandlerAt
  <2>2. handler' \in [Clients -> [at : {"new", "recv", "process", "add", "close", "ended"},
                                  packet : Packets]]
    BY <2>1, HandlerAtTypes
  <2>3. UNCHANGED <<netVars, levelVars, clientIds, sendQueue, sender>>
    BY <1>4 DEF Admit
  <2> QED
    BY <2>2, <2>3 DEF netVars
<1>5. CASE Register
  BY <1>5 DEF Register, netVars
<1> QED
  BY <1>1, <1>2, <1>3, <1>4, <1>5 DEF AcceptorNext

LEMMA HandlerTypes ==
    ASSUME Types, SocketInv, NEW c \in Clients, HandlerNext(c), UNCHANGED clientVars
    PROVE  Types'
<1> USE DEF Types, NetTypes, ServerTypes, HandlerAt, clientVars
<1>0. \A type \in PacketType, k \in 0..MaxPlayers : Packet(type, k) \in Packets
  BY DEF Packet, Packets
<1>1. CASE Receive(c)
  <2>1. toServer' \in [Clients -> Seq(Packets)]
    BY <1>1, Rest DEF Receive
  <2>2. handler' = [handler EXCEPT ![c] = [at |-> "process", packet |-> Head(toServer[c])]]
        /\ Head(toServer[c]) \in Packets
    BY <1>1 DEF Receive
  <2> QED
    BY <1>1, <2>1, <2>2 DEF Receive, levelVars
<1>2. CASE EnterRequest(c)
  <2>1. Packet("ENTER_RESPOND", 0) \in Packets /\ socket[c] \in Sockets \cup {NoSocket}
    BY <1>0 DEF PacketType
  <2>2. sendQueue' \in Seq(Tasks)
    BY <1>2, <2>1, QueueTypes DEF EnterRequest
  <2>3. HandlerAt(c, "recv") /\ UNCHANGED <<netVars, levelVars, clientIds, sender>>
    BY <1>2 DEF EnterRequest
  <2>4. handler' \in [Clients -> [at : {"new", "recv", "process", "add", "close", "ended"},
                                  packet : Packets]]
    BY <2>3, HandlerAtTypes
  <2> QED
    BY <2>2, <2>3, <2>4 DEF netVars, levelVars
<1>3. CASE CreateRespond(c)
  <2>1. NextId \in 1..MaxPlayers
    BY <1>3 DEF CreateRespond, NextId
  <2>2. Packet("CREATE_RESPOND", NextId) \in Packets /\ socket[c] \in Sockets \cup {NoSocket}
    BY <1>0, <2>1 DEF PacketType
  <2>3. sendQueue' \in Seq(Tasks)
    BY <1>3, <2>2, QueueTypes DEF CreateRespond
  <2>4. handler' \in [Clients -> [at : {"new", "recv", "process", "add", "close", "ended"},
                                  packet : Packets]]
    <3>1. Packet("CREATE", NextId) \in Packets
      BY <1>0, <2>1 DEF PacketType
    <3> QED
      BY <1>3, <3>1 DEF CreateRespond
  <2>5. playerCount' \in 0..MaxPlayers
    BY <1>3, <2>1 DEF CreateRespond
  <2> QED
    BY <1>3, <2>3, <2>4, <2>5 DEF CreateRespond, netVars
<1>4. ASSUME NEW position \in EmptyCells, CreateAdd(c, position) PROVE Types'
  <2>1. HandlerAt(c, "recv") /\ UNCHANGED <<netVars, playerCount, sendQueue, sender>>
    BY <1>4 DEF CreateAdd
  <2>2. handler' \in [Clients -> [at : {"new", "recv", "process", "add", "close", "ended"},
                                  packet : Packets]]
    BY <2>1, HandlerAtTypes
  <2>3. clientIds' \in [Ids -> Sockets \cup {NoSocket}]
    BY <1>4 DEF CreateAdd
  <2>4. owner' \in [Ids -> Clients \cup {Nobody}]
    BY <1>4 DEF CreateAdd
  <2> QED
    BY <2>1, <2>2, <2>3, <2>4 DEF netVars
<1>5. ASSUME NEW direction, KeyInput(c, direction) PROVE Types'
  <2>1. HandlerAt(c, "recv")
        /\ UNCHANGED <<netVars, playerCount, owner, clientIds, sendQueue, sender>>
    BY <1>5 DEF KeyInput
  <2>2. handler' \in [Clients -> [at : {"new", "recv", "process", "add", "close", "ended"},
                                  packet : Packets]]
    BY <2>1, HandlerAtTypes
  <2> QED
    BY <2>1, <2>2 DEF netVars
<1>6. ASSUME NEW end \in Clicks, MouseInput(c, end) PROVE Types'
  <2>1. HandlerAt(c, "recv")
        /\ UNCHANGED <<netVars, playerCount, owner, clientIds, sendQueue, sender>>
    BY <1>6 DEF MouseInput
  <2>2. handler' \in [Clients -> [at : {"new", "recv", "process", "add", "close", "ended"},
                                  packet : Packets]]
    BY <2>1, HandlerAtTypes
  <2> QED
    BY <2>1, <2>2 DEF netVars
<1>7. CASE ExitRequest(c)
  <2>1. HandlerAt(c, "recv")
        /\ UNCHANGED <<netVars, playerCount, owner, clientIds, sendQueue, sender>>
    BY <1>7 DEF ExitRequest
  <2>2. handler' \in [Clients -> [at : {"new", "recv", "process", "add", "close", "ended"},
                                  packet : Packets]]
    BY <2>1, HandlerAtTypes
  <2> QED
    BY <2>1, <2>2 DEF netVars
<1>8. CASE Leave(c)
  <2>1. HandlerAt(c, "close")
        /\ UNCHANGED <<netVars, levelVars, clientIds, sendQueue, sender>>
    BY <1>8 DEF Leave
  <2>2. handler' \in [Clients -> [at : {"new", "recv", "process", "add", "close", "ended"},
                                  packet : Packets]]
    BY <2>1, HandlerAtTypes
  <2> QED
    BY <2>1, <2>2 DEF netVars, levelVars
<1>9. CASE Close(c)
  <2>1. /\ HandlerAt(c, "ended") /\ CloseServerEnd(c)
        /\ UNCHANGED <<toClient, levelVars, clientIds, sendQueue, sender>>
    BY <1>9 DEF Close
  <2>2. handler' \in [Clients -> [at : {"new", "recv", "process", "add", "close", "ended"},
                                  packet : Packets]]
    BY <2>1, HandlerAtTypes
  <2>3. /\ serverEnd' \in [Clients -> {"waiting", "up", "down"}]
        /\ socket' \in [Clients -> Sockets \cup {NoSocket}]
        /\ toServer' \in [Clients -> Seq(Packets)]
    BY <2>1, CloseTypes
  <2> QED
    BY <2>1, <2>2, <2>3 DEF levelVars
<1> QED
  BY <1>1, <1>2, <1>3, <1>4, <1>5, <1>6, <1>7, <1>8, <1>9 DEF HandlerNext

LEMMA SenderTypes ==
    ASSUME Types, SenderNext, UNCHANGED clientVars
    PROVE  Types'
<1> USE DEF Types, NetTypes, ServerTypes, clientVars, levelVars
<1>1. CASE SendLock
  <2>1. /\ sendQueue \in Seq(Tasks) /\ sendQueue # <<>> /\ sendQueue' = Tail(sendQueue)
        /\ sender'.packet = Head(sendQueue).packet
    BY <1>1 DEF SendLock
  <2>2. Head(sendQueue) \in Tasks /\ sendQueue' \in Seq(Tasks)
    BY <2>1
  <2>3. sender'.packet \in Packets
    BY <2>1, <2>2 DEF Tasks
  <2> QED
    BY <1>1, <2>2, <2>3 DEF SendLock, netVars
<1>2. CASE SendOne
  <2>1. toClient' \in [Clients -> Seq(Packets)]
    BY <1>2 DEF SendOne, Sent
  <2>2. sender'.packet \in Packets
    BY <1>2 DEF SendOne, NoTask, Packet, Packets, PacketType
  <2> QED
    BY <1>2, <2>1, <2>2 DEF SendOne
<1> QED
  BY <1>1, <1>2 DEF SenderNext

LEMMA SyncerTypes ==
    ASSUME Types, SyncerNext, UNCHANGED clientVars
    PROVE  Types'
<1>0. \A type \in PacketType, k \in 0..MaxPlayers : Packet(type, k) \in Packets
  BY DEF Packet, Packets
<1> USE DEF Types, NetTypes, ServerTypes, clientVars, netVars
<1>1. CASE SyncLock
  <2>1. Packet("STATE", 0) \in Packets
    BY <1>0 DEF PacketType
  <2>2. sendQueue' \in Seq(Tasks)
    BY <1>1, <2>1, QueueTypes DEF SyncLock
  <2> QED
    BY <1>1, <2>2 DEF SyncLock
<1>2. ASSUME NEW k \in Ids, SyncPath(k) PROVE Types'
  <2>1. Packet("PATH", k) \in Packets /\ clientIds[k] \in Sockets \cup {NoSocket}
    BY <1>0 DEF PacketType, Ids
  <2>2. sendQueue' \in Seq(Tasks)
    BY <1>2, <2>1, QueueTypes DEF SyncPath
  <2> QED
    BY <1>2, <2>2 DEF SyncPath, levelVars
<1> QED
  BY <1>1, <1>2 DEF SyncerNext

LEMMA NextTypes == Types /\ SocketInv /\ [Next]_vars => Types'
<1> SUFFICES ASSUME Types, SocketInv, [Next]_vars PROVE Types'
    OBVIOUS
<1>1. CASE Server
  BY <1>1, AcceptorTypes, HandlerTypes, SenderTypes, SyncerTypes DEF Server, ServerNext
<1>2. ASSUME NEW c \in Clients, Client(c) PROVE Types'
  BY <1>2, ClientTypes DEF Client
<1>3. CASE UNCHANGED vars
  BY <1>3 DEF Types, NetTypes, ServerTypes, vars, netVars, serverVars, levelVars, clientVars
<1> QED
  BY <1>1, <1>2, <1>3 DEF Next

-----------------------------------------------------------------------------

LEMMA NextSocketInv == Types /\ SocketInv /\ [Next]_vars => SocketInv'
<1> SUFFICES ASSUME Types, SocketInv, [Next]_vars PROVE SocketInv'
    OBVIOUS
<1> USE DEF SocketInv, netVars, AcceptorAt, HandlerAt
<1>0. /\ socket \in [Clients -> Sockets \cup {NoSocket}]
      /\ serverEnd \in [Clients -> {"waiting", "up", "down"}]
      /\ handler \in [Clients -> [at : {"new", "recv", "process", "add", "close", "ended"},
                                  packet : Packets]]
  BY DEF Types, NetTypes, ServerTypes
<1>1. ASSUME UNCHANGED <<serverEnd, socket, acceptor, handler>> PROVE SocketInv'
  BY <1>1
<1>2. ASSUME NEW c \in Clients, handler[c].at \notin {"new", "ended"},
             \E at \in {"recv", "process", "add", "close"}, p \in Packets :
                handler' = [handler EXCEPT ![c] = [at |-> at, packet |-> p]],
             UNCHANGED <<serverEnd, socket, acceptor>>
      PROVE  SocketInv'
  BY <1>0, <1>2
<1>3. CASE Server
  <2>1. ASSUME NEW c \in Clients, NEW s \in Sockets, Accept(c, s) PROVE SocketInv'
    BY <1>0, <2>1 DEF Accept, Backlog, FreeSockets
  <2>2. ASSUME NEW c \in Clients, AcceptFails(c) PROVE SocketInv'
    BY <1>0, <2>2 DEF AcceptFails, Backlog, CloseServerEnd
  <2>3. CASE Refuse
    BY <1>0, <2>3 DEF Refuse, CloseServerEnd
  <2>4. CASE Admit
    BY <1>0, <2>4 DEF Admit
  <2>5. CASE Register
    BY <1>0, <2>5 DEF Register
  <2>6. ASSUME NEW c \in Clients, HandlerNext(c) PROVE SocketInv'
    <3>0. handler[c].packet \in Packets
      BY <1>0
    <3>1. CASE Receive(c)
      BY <1>0, <3>1 DEF Receive
    <3>2. CASE EnterRequest(c)
      BY <1>0, <3>2 DEF EnterRequest, Processes
    <3>3. CASE CreateRespond(c)
      BY <1>0, <3>3 DEF CreateRespond, Processes
    <3>4. ASSUME NEW position \in EmptyCells, CreateAdd(c, position) PROVE SocketInv'
      BY <1>0, <3>4 DEF CreateAdd
    <3>5. ASSUME NEW direction, KeyInput(c, direction) PROVE SocketInv'
      BY <1>0, <3>5 DEF KeyInput, Processes
    <3>6. ASSUME NEW end \in Clicks, MouseInput(c, end) PROVE SocketInv'
      BY <1>0, <3>6 DEF MouseInput, Processes
    <3>7. CASE ExitRequest(c)
      BY <1>0, <3>7 DEF ExitRequest, Processes
    <3>8. CASE Leave(c)
      BY <1>0, <3>8 DEF Leave
    <3>9. CASE Close(c)
      BY <1>0, <3>9 DEF Close, CloseServerEnd
    <3> QED
      BY <2>6, <3>1, <3>2, <3>3, <3>4, <3>5, <3>6, <3>7, <3>8, <3>9 DEF HandlerNext
  <2>7. CASE SenderNext
    BY <1>1, <2>7 DEF SenderNext, SendLock, SendOne
  <2>8. CASE SyncerNext
    BY <1>1, <2>8 DEF SyncerNext, SyncLock, SyncPath
  <2> QED
    BY <1>3, <2>1, <2>2, <2>3, <2>4, <2>5, <2>6, <2>7, <2>8
    DEF Server, ServerNext, AcceptorNext
<1>4. ASSUME NEW c \in Clients, Client(c) PROVE SocketInv'
  <2>1. UNCHANGED <<serverEnd, socket, acceptor, handler>>
    BY <1>4 DEF Client, ClientNext, serverVars, Connect, PressReturn, ChangeLevel, Input,
                Quit, SendPacket, ReceivePacket, Disconnect, CloseClientEnd
  <2> QED
    BY <1>1, <2>1
<1>5. CASE UNCHANGED vars
  BY <1>1, <1>5 DEF vars, serverVars
<1> QED
  BY <1>3, <1>4, <1>5 DEF Next

LEMMA NextMutexInv == Types /\ MutexInv /\ [Next]_vars => MutexInv'
<1> SUFFICES ASSUME Types, MutexInv, [Next]_vars PROVE MutexInv'
    OBVIOUS
<1>0. /\ playerCount \in 0..MaxPlayers
      /\ owner \in [Ids -> Clients \cup {Nobody}]
      /\ handler \in [Clients -> [at : {"new", "recv", "process", "add", "close", "ended"},
                                  packet : Packets]]
  BY DEF Types, ServerTypes
<1>1. ASSUME UNCHANGED <<mutex, sender, syncer, playerCount, owner, handler>> PROVE MutexInv'
  BY <1>1 DEF MutexInv
<1>2. ASSUME NEW c \in Clients, handler[c].at # "add", handler'[c].at # "add",
             \A d \in Clients : d # c => handler'[d] = handler[d],
             UNCHANGED <<mutex, sender, syncer, playerCount, owner>>
      PROVE  MutexInv'
  BY <1>2 DEF MutexInv
<1>3. CASE Server
  <2> USE DEF HandlerAt
  <2>1. CASE AcceptorNext
    <3>1. ASSUME NEW c \in Clients, NEW s \in Sockets, Accept(c, s) PROVE MutexInv'
      BY <1>1, <3>1 DEF Accept, levelVars
    <3>2. ASSUME NEW c \in Clients, AcceptFails(c) PROVE MutexInv'
      BY <1>1, <3>2 DEF AcceptFails, levelVars
    <3>3. CASE Refuse \/ Register
      BY <1>1, <3>3 DEF Refuse, Register, levelVars
    <3>4. CASE Admit
      <4>1. \A d \in Clients :
               handler'[d].at # "add" /\ handler[d].at # "add"
        BY <1>0, <3>4 DEF Admit, MutexInv
      <4> QED
        BY <1>0, <3>4, <4>1 DEF Admit, levelVars, MutexInv
    <3> QED
      BY <2>1, <3>1, <3>2, <3>3, <3>4 DEF AcceptorNext
  <2>2. ASSUME NEW c \in Clients, HandlerNext(c) PROVE MutexInv'
    <3>1. CASE Receive(c) \/ EnterRequest(c) \/ Leave(c) \/ Close(c)
      BY <1>0, <1>2, <3>1 DEF Receive, EnterRequest, Leave, Close, Processes, levelVars
    <3>2. CASE CreateRespond(c)
      <4>1. /\ mutex = Free /\ mutex' = c /\ playerCount' = playerCount + 1
            /\ handler' = [handler EXCEPT ![c] =
                              [at |-> "add", packet |-> Packet("CREATE", playerCount + 1)]]
            /\ UNCHANGED <<owner, sender, syncer>>
        BY <3>2 DEF CreateRespond, NextId
      <4>2. \A d \in Clients : handler[d].at # "add"
        BY <4>1 DEF MutexInv
      <4>3. handler'[c].at = "add" /\ handler'[c].packet.id = playerCount + 1
        BY <1>0, <4>1 DEF Packet
      <4>4. \A d \in Clients : d # c => handler'[d].at # "add"
        BY <1>0, <4>1, <4>2
      <4>5. \A k \in 1..playerCount : owner[k] # Nobody
        BY <4>2 DEF MutexInv
      <4>6. sender.to = <<>> /\ syncer = {}
        BY <4>1 DEF MutexInv, Free
      <4> QED
        BY <1>0, <4>1, <4>3, <4>4, <4>5, <4>6 DEF MutexInv
    <3>3. ASSUME NEW position \in EmptyCells, CreateAdd(c, position) PROVE MutexInv'
      <4> DEFINE id == handler[c].packet.id
      <4>1. /\ handler[c].at = "add" /\ mutex' = Free
            /\ owner' = [owner EXCEPT ![id] = c]
            /\ handler' = [handler EXCEPT ![c].at = "recv"]
            /\ UNCHANGED <<playerCount, sender, syncer>>
        BY <3>3 DEF CreateAdd
      <4>2. mutex = c /\ id \in 1..playerCount /\ id \in Ids
        BY <1>0, <4>1 DEF MutexInv, Ids
      <4>3. \A d \in Clients : handler'[d].at # "add"
        BY <1>0, <4>1, <4>2 DEF MutexInv
      <4>4. sender.to = <<>> /\ syncer = {}
        BY <4>2 DEF MutexInv
      <4>5. \A k \in 1..playerCount : owner'[k] # Nobody
        <5> SUFFICES ASSUME NEW k \in 1..playerCount, k # id PROVE owner[k] # Nobody
          BY <1>0, <4>1, <4>2 DEF Ids
        <5>1. \A d \in Clients : handler[d].at = "add" => d = c
          BY <4>2 DEF MutexInv
        <5> QED
          BY <5>1 DEF MutexInv
      <4> QED
        BY <4>1, <4>3, <4>4, <4>5 DEF MutexInv
    <3>4. ASSUME NEW direction, KeyInput(c, direction) PROVE MutexInv'
      BY <1>0, <1>2, <3>4 DEF KeyInput, Processes
    <3>5. ASSUME NEW end \in Clicks, MouseInput(c, end) PROVE MutexInv'
      BY <1>0, <1>2, <3>5 DEF MouseInput, Processes
    <3>6. CASE ExitRequest(c)
      BY <1>0, <1>2, <3>6 DEF ExitRequest, Processes
    <3> QED
      BY <2>2, <3>1, <3>2, <3>3, <3>4, <3>5, <3>6 DEF HandlerNext
  <2>3. CASE SenderNext
    <3>1. UNCHANGED <<handler, playerCount, owner, syncer>>
      BY <2>3 DEF SenderNext, SendLock, SendOne, levelVars
    <3>2. \A c \in Clients : handler[c].at # "add"
      BY <2>3 DEF SenderNext, SendLock, SendOne, MutexInv, Free
    <3>3. syncer = {}
      BY <2>3 DEF SenderNext, SendLock, SendOne, MutexInv, Free
    <3>4. sender'.to # <<>> => mutex' = "sender"
      BY <2>3 DEF SenderNext, SendLock, SendOne, MutexInv, MutexAfter, NoTask
    <3> QED
      BY <3>1, <3>2, <3>3, <3>4 DEF MutexInv
  <2>4. CASE SyncerNext
    <3>1. UNCHANGED <<handler, playerCount, owner, sender>>
      BY <2>4 DEF SyncerNext, SyncLock, SyncPath, levelVars
    <3>2. (\A c \in Clients : handler[c].at # "add") /\ sender.to = <<>>
      BY <2>4 DEF SyncerNext, SyncLock, SyncPath, MutexInv, Free
    <3>3. syncer' # {} => mutex' = "syncer"
      BY <2>4 DEF SyncerNext, SyncLock, SyncPath, MutexInv, MutexAfter
    <3> QED
      BY <3>1, <3>2, <3>3 DEF MutexInv
  <2> QED
    BY <1>3, <2>1, <2>2, <2>3, <2>4 DEF Server, ServerNext
<1>4. ASSUME NEW c \in Clients, Client(c) PROVE MutexInv'
  BY <1>1, <1>4 DEF Client, serverVars, levelVars
<1>5. CASE UNCHANGED vars
  BY <1>1, <1>5 DEF vars, serverVars, levelVars
<1> QED
  BY <1>3, <1>4, <1>5 DEF Next

-----------------------------------------------------------------------------
(***************************************************************************)
(* The way of an answer: from the queue to the sender, to the client's     *)
(* buffer, to its playerId.                                                *)
(***************************************************************************)

\* A client that receives, or ends, knows no more than before.
LEMMA FewerKnown ==
    ASSUME AnswerInv, \A c \in Clients : Known(c)' \subseteq Known(c),
           UNCHANGED <<sendQueue, sender, playerCount, owner>>
    PROVE  AnswerInv'
<1>1. Answers' = Answers /\ Sending' = Sending
  BY DEF Answers, Sending
<1> QED
  BY <1>1 DEF AnswerInv

\* A task that is no answer.
LEMMA OtherTask ==
    ASSUME Types, AnswerInv, NEW packet \in Packets, NEW to \in Sockets \cup {NoSocket, All},
           packet.type # "CREATE_RESPOND", Enqueued(<<Task(packet, to)>>),
           UNCHANGED <<toClient, playerId, sender, playerCount, owner>>
    PROVE  AnswerInv'
<1>1. sendQueue \in Seq(Tasks) /\ Task(packet, to) \in Tasks
  BY DEF Types, ServerTypes, Task, Tasks
<1>2. sendQueue' = Append(sendQueue, Task(packet, to))
  BY <1>1 DEF Enqueued
<1>3. \A i \in 1..Len(sendQueue) : sendQueue'[i] = sendQueue[i]
  BY <1>1, <1>2
<1>4. Answers' = Answers
  BY <1>1, <1>2, <1>3 DEF Answers, Task
<1>5. Answers \subseteq 1..Len(sendQueue)
  BY <1>1 DEF Answers
<1>6. Sending' = Sending /\ \A c \in Clients : Known(c)' = Known(c)
  BY DEF Sending, Known, AnswerIds
<1> QED
  BY <1>3, <1>4, <1>5, <1>6 DEF AnswerInv

LEMMA ClientAnswers ==
    ASSUME Types, AnswerInv, NEW c \in Clients, Client(c)
    PROVE  AnswerInv'
<1>0. /\ toClient \in [Clients -> Seq(Packets)]
      /\ playerId \in [Clients -> 0..MaxPlayers]
  BY DEF Types, NetTypes
<1>1. UNCHANGED <<sendQueue, sender, playerCount, owner>>
  BY DEF Client, serverVars, levelVars
<1>2. ASSUME UNCHANGED <<toClient, playerId>> PROVE AnswerInv'
  BY <1>1, <1>2, FewerKnown DEF Known, AnswerIds
<1>3. CASE ReceivePacket(c)
  <2>1. PICK rest \in Received(toClient[c]) :
           toClient' = [toClient EXCEPT ![c] = rest] /\ toClient[c] # <<>>
    BY <1>3 DEF ReceivePacket
  <2>2. AnswerIds(rest) \subseteq AnswerIds(toClient[c])
    BY <1>0, Rest DEF AnswerIds
  <2>3. \/ playerId' = playerId
        \/ /\ playerId' = [playerId EXCEPT ![c] = Head(toClient[c]).id]
           /\ Head(toClient[c]).type = "CREATE_RESPOND"
    BY <1>3 DEF ReceivePacket
  <2>4. playerId'[c] = playerId[c] \/ playerId'[c] \in AnswerIds(toClient[c])
    <3>1. 1 \in DOMAIN toClient[c] /\ toClient[c][1] = Head(toClient[c])
      BY <1>0, <2>1
    <3> QED
      BY <1>0, <2>3, <3>1 DEF AnswerIds
  <2>5. Known(c)' \subseteq Known(c)
    <3>1. AnswerIds(toClient'[c]) \subseteq AnswerIds(toClient[c])
      BY <1>0, <2>1, <2>2 DEF AnswerIds
    <3> QED
      BY <2>4, <3>1 DEF Known
  <2>6. \A d \in Clients : d # c => Known(d)' = Known(d)
    BY <1>0, <2>1, <2>3 DEF Known, AnswerIds
  <2> QED
    BY <1>1, <2>5, <2>6, FewerKnown
<1>4. CASE Disconnect(c)
  <2>1. toClient' = [toClient EXCEPT ![c] = <<>>] /\ playerId' = playerId
    BY <1>4 DEF Disconnect, CloseClientEnd
  <2>2. \A d \in Clients : Known(d)' \subseteq Known(d)
    BY <1>0, <2>1 DEF Known, AnswerIds
  <2> QED
    BY <1>1, <2>2, FewerKnown
<1>5. CASE Connect(c) \/ SendPacket(c)
  BY <1>2, <1>5 DEF Connect, SendPacket, clientVars
<1>6. CASE PressReturn(c) \/ ChangeLevel(c) \/ Quit(c)
  BY <1>2, <1>6 DEF PressReturn, ChangeLevel, Quit, netVars
<1>7. ASSUME NEW type \in {"KEY", "MOUSE"}, Input(c, type) PROVE AnswerInv'
  BY <1>2, <1>7 DEF Input, netVars
<1> QED
  BY <1>3, <1>4, <1>5, <1>6, <1>7 DEF Client, ClientNext

LEMMA CreateRespondAnswers ==
    ASSUME Types, SocketInv, AnswerInv, NEW c \in Clients, CreateRespond(c),
           UNCHANGED clientVars
    PROVE  AnswerInv'
<1> DEFINE task == Task(Packet("CREATE_RESPOND", NextId), socket[c])
           n == Len(sendQueue)
<1>1. /\ playerCount \in 0..MaxPlayers /\ playerCount < MaxPlayers
      /\ NextId = playerCount + 1 /\ NextId \in 1..MaxPlayers
      /\ playerCount' = playerCount + 1
      /\ UNCHANGED <<toClient, playerId, sender, owner>>
  BY DEF CreateRespond, NextId, Types, ServerTypes, netVars, clientVars
<1>2. socket[c] \in Sockets
  BY DEF CreateRespond, Processes, SocketInv
<1>3. sendQueue \in Seq(Tasks) /\ task \in Tasks
  BY <1>1, <1>2 DEF Types, ServerTypes, Task, Tasks, Packet, Packets, PacketType
<1>4. sendQueue' = Append(sendQueue, task)
  BY <1>3 DEF CreateRespond, Enqueued
<1>5. /\ \A i \in 1..n : sendQueue'[i] = sendQueue[i]
      /\ sendQueue'[n + 1] = task /\ DOMAIN sendQueue' = 1..(n + 1) /\ n \in Nat
  BY <1>3, <1>4
<1>6. Answers' = Answers \cup {n + 1} /\ Answers \subseteq 1..n
  BY <1>3, <1>5 DEF Answers, Task, Packet
<1>7. Sending' = Sending /\ \A d \in Clients : Known(d)' = Known(d)
  BY <1>1 DEF Sending, Known, AnswerIds
<1>8. /\ task.packet.id = playerCount + 1 /\ task.to \in Sockets
      /\ playerCount + 1 \notin 1..playerCount
  BY <1>1, <1>2 DEF Task, Packet
<1>9. \A i \in Answers' :
        /\ sendQueue'[i].packet.id \in 1..playerCount'
        /\ sendQueue'[i].packet.id \notin Sending'
        /\ sendQueue'[i].to \in Sockets
        /\ \A d \in Clients : sendQueue'[i].packet.id \notin Known(d)'
  <2> TAKE i \in Answers'
  <2>1. CASE i \in Answers
    BY <1>1, <1>5, <1>6, <1>7, <2>1 DEF AnswerInv
  <2>2. CASE i = n + 1
    BY <1>1, <1>5, <1>7, <1>8, <2>2 DEF AnswerInv
  <2> QED
    BY <1>6, <2>1, <2>2
<1>10. \A i, j \in Answers' : i # j => sendQueue'[i].packet.id # sendQueue'[j].packet.id
  <2>1. \A i \in Answers : sendQueue'[i] = sendQueue[i]
           /\ sendQueue[i].packet.id \in 1..playerCount
    BY <1>5, <1>6 DEF AnswerInv
  <2> QED
    BY <1>5, <1>6, <1>8, <2>1 DEF AnswerInv
<1>11. \A k : k \in 1..playerCount => k \in 1..playerCount'
  BY <1>1
<1>12. \A k \in Sending' : /\ k \in 1..playerCount' /\ owner'[k] # Nobody
                          /\ \E s \in Sockets : sender'.to = <<s>>
                          /\ \A d \in Clients : k \notin Known(d)'
  <2>1. sender'.to = sender.to
    BY <1>1
  <2> QED
    BY <1>1, <1>7, <1>11, <2>1 DEF AnswerInv
<1>13. \A d \in Clients :
          /\ \A k \in Known(d)' : k \in 1..playerCount' /\ owner'[k] # Nobody
          /\ \A e \in Clients : d # e => Known(d)' \cap Known(e)' = {}
  BY <1>1, <1>7, <1>11 DEF AnswerInv
<1> QED
  BY <1>9, <1>10, <1>12, <1>13 DEF AnswerInv

LEMMA CreateAddAnswers ==
    ASSUME Types, AnswerInv, NEW c \in Clients, NEW position \in EmptyCells,
           CreateAdd(c, position), UNCHANGED clientVars
    PROVE  AnswerInv'
<1>1. /\ owner' = [owner EXCEPT ![handler[c].packet.id] = c]
      /\ UNCHANGED <<toClient, playerId, sendQueue, sender, playerCount>>
  BY DEF CreateAdd, netVars, clientVars
<1>2. \A k \in 1..playerCount : owner[k] # Nobody => owner'[k] # Nobody
  BY <1>1 DEF Types, ServerTypes, Ids
<1>3. /\ Answers' = Answers /\ Sending' = Sending
      /\ \A d \in Clients : Known(d)' = Known(d)
  BY <1>1 DEF Answers, Sending, Known, AnswerIds
<1> QED
  BY <1>1, <1>2, <1>3 DEF AnswerInv

LEMMA HandlerAnswers ==
    ASSUME Types, SocketInv, AnswerInv, NEW c \in Clients, HandlerNext(c),
           UNCHANGED clientVars
    PROVE  AnswerInv'
<1> USE DEF clientVars, netVars, levelVars
<1>1. ASSUME UNCHANGED <<toClient, playerId, sendQueue, sender, playerCount, owner>>
      PROVE  AnswerInv'
  BY <1>1, FewerKnown DEF Known, AnswerIds
<1>2. CASE Receive(c) \/ ExitRequest(c) \/ Leave(c) \/ Close(c)
  BY <1>1, <1>2 DEF Receive, ExitRequest, Leave, Close
<1>3. CASE EnterRequest(c)
  <2>1. Packet("ENTER_RESPOND", 0) \in Packets
        /\ Packet("ENTER_RESPOND", 0).type # "CREATE_RESPOND"
    BY DEF Packet, Packets, PacketType
  <2>2. socket[c] \in Sockets \cup {NoSocket}
    BY DEF Types, NetTypes
  <2> QED
    BY <1>3, <2>1, <2>2, OtherTask DEF EnterRequest
<1>4. ASSUME NEW direction, KeyInput(c, direction) PROVE AnswerInv'
  BY <1>1, <1>4 DEF KeyInput
<1>5. ASSUME NEW end \in Clicks, MouseInput(c, end) PROVE AnswerInv'
  BY <1>1, <1>5 DEF MouseInput
<1> QED
  BY <1>2, <1>3, <1>4, <1>5, CreateRespondAnswers, CreateAddAnswers DEF HandlerNext

\* The sender takes an answer when nobody holds the mutex: its player is there.
LEMMA SendLockAnswers ==
    ASSUME Types, MutexInv, AnswerInv, SendLock, UNCHANGED clientVars
    PROVE  AnswerInv'
<1>1. /\ sendQueue \in Seq(Tasks) /\ sendQueue # <<>> /\ sendQueue' = Tail(sendQueue)
      /\ sender.to = <<>>
      /\ sender' = [packet |-> sendQueue[1].packet, to |-> Recipients(sendQueue[1])]
      /\ UNCHANGED <<toClient, playerId, playerCount, owner>>
  BY DEF SendLock, Types, ServerTypes, levelVars, netVars, clientVars
<1>2. \A k \in 1..playerCount : owner[k] # Nobody
  BY DEF SendLock, MutexInv, Free
<1>3. \A d \in Clients : Known(d)' = Known(d)
  BY <1>1 DEF Known, AnswerIds
<1>4. Sending = {}
  BY <1>1 DEF Sending
<1>5. \A k \in Sending' : 1 \in Answers /\ k = sendQueue[1].packet.id
  BY <1>1 DEF Sending, Answers
<1>6. \A i \in Answers' :
        i + 1 \in Answers /\ sendQueue'[i] = sendQueue[i + 1] /\ i \in Nat \ {0}
  BY <1>1 DEF Answers
<1>7. \A k \in Sending' : /\ k \in 1..playerCount' /\ owner'[k] # Nobody
                         /\ \E s \in Sockets : sender'.to = <<s>>
                         /\ \A d \in Clients : k \notin Known(d)'
  <2> TAKE k \in Sending'
  <2>1. k \in 1..playerCount /\ sendQueue[1].to \in Sockets
        /\ \A d \in Clients : k \notin Known(d)
    BY <1>5 DEF AnswerInv
  <2>2. Recipients(sendQueue[1]) = <<sendQueue[1].to>>
    BY <2>1 DEF Recipients
  <2> QED
    BY <1>1, <1>2, <1>3, <2>1, <2>2
<1>8. \A i \in Answers' :
        /\ sendQueue'[i].packet.id \in 1..playerCount'
        /\ sendQueue'[i].packet.id \notin Sending'
        /\ sendQueue'[i].to \in Sockets
        /\ \A d \in Clients : sendQueue'[i].packet.id \notin Known(d)'
        /\ \A j \in Answers' : i # j => sendQueue'[i].packet.id # sendQueue'[j].packet.id
  <2> TAKE i \in Answers'
  <2>1. i + 1 \in Answers /\ sendQueue'[i] = sendQueue[i + 1] /\ i + 1 # 1
    BY <1>6
  <2>2. sendQueue[i + 1].packet.id \notin Sending'
    BY <1>5, <2>1 DEF AnswerInv
  <2>3. \A j \in Answers' : i # j => sendQueue[i + 1].packet.id # sendQueue[j + 1].packet.id
    BY <1>6, <2>1 DEF AnswerInv
  <2>4. /\ sendQueue[i + 1].packet.id \in 1..playerCount
        /\ sendQueue[i + 1].to \in Sockets
        /\ \A d \in Clients : sendQueue[i + 1].packet.id \notin Known(d)
    BY <2>1 DEF AnswerInv
  <2>5. \A j \in Answers' : sendQueue'[j] = sendQueue[j + 1]
    BY <1>6
  <2> QED
    BY <1>1, <1>3, <2>1, <2>2, <2>3, <2>4, <2>5
<1> QED
  BY <1>1, <1>3, <1>7, <1>8 DEF AnswerInv

\* One client at most receives an answer.
LEMMA SendOneAnswers ==
    ASSUME Types, SocketInv, AnswerInv, SendOne, UNCHANGED clientVars
    PROVE  AnswerInv'
<1> DEFINE s == Head(sender.to)
<1>1. /\ toClient \in [Clients -> Seq(Packets)] /\ sender.packet \in Packets
      /\ toClient' = Sent(s, sender.packet) /\ sender.to # <<>>
      /\ UNCHANGED <<playerId, sendQueue, playerCount, owner>>
  BY DEF SendOne, Types, NetTypes, ServerTypes, levelVars, clientVars
<1>2. \A c \in Clients :
        Known(c)' \subseteq Known(c) \cup (IF c \in Peers(s) THEN Sending ELSE {})
  <2> TAKE c \in Clients
  <2>1. CASE c \in Peers(s)
    <3>1. toClient'[c] = Append(toClient[c], sender.packet)
      BY <1>1, <2>1 DEF Sent
    <3>2. AnswerIds(toClient'[c]) \subseteq AnswerIds(toClient[c]) \cup Sending
      <4>1. ASSUME NEW i \in DOMAIN toClient'[c]
            PROVE  \/ i \in DOMAIN toClient[c] /\ toClient'[c][i] = toClient[c][i]
                   \/ toClient'[c][i] = sender.packet
        <5>0. sender.packet \in Packets
          BY <1>1
        <5>1. toClient[c] \in Seq(Packets)
          BY <1>1
        <5>2. /\ toClient'[c] \in Seq(Packets)
              /\ Len(toClient'[c]) = Len(toClient[c]) + 1
              /\ \A j \in 1..Len(toClient[c]) : toClient'[c][j] = toClient[c][j]
              /\ toClient'[c][Len(toClient[c]) + 1] = sender.packet
          BY <3>1, <5>0, <5>1, AppendProperties
        <5>3. /\ Len(toClient[c]) \in Nat
              /\ DOMAIN toClient[c] = 1..Len(toClient[c])
              /\ DOMAIN toClient'[c] = 1..Len(toClient'[c])
          BY <5>1, <5>2, LenProperties
        <5> QED
          BY <4>1, <5>2, <5>3
      <4> QED
        BY <1>1, <4>1 DEF AnswerIds, Sending
    <3> QED
      BY <1>1, <2>1, <3>2 DEF Known, AnswerIds
  <2>2. CASE c \notin Peers(s)
    BY <1>1, <2>2 DEF Sent, Known, AnswerIds
  <2> QED
    BY <2>1, <2>2
<1>3. CASE sender.packet.type = "CREATE_RESPOND"
  <2>1. PICK r \in Sockets : sender.to = <<r>>
    BY <1>1, <1>3 DEF Sending, AnswerInv
  <2>2. s = r /\ sender' = NoTask
    BY <2>1 DEF SendOne
  <2>3. Sending' = {} /\ Answers' = Answers
    BY <1>1, <2>2 DEF Sending, Answers, NoTask, Packet
  <2>4. \A c, d \in Clients : c # d => ~ (c \in Peers(s) /\ d \in Peers(s))
    BY <2>2 DEF Peers, SocketInv
  <2>5. \A c \in Clients : \A k \in Known(c)' : k \in 1..playerCount /\ owner[k] # Nobody
    BY <1>2 DEF AnswerInv
  <2>6. \A c, d \in Clients : c # d => Known(c)' \cap Known(d)' = {}
    BY <1>2, <2>4 DEF AnswerInv
  <2>7. \A i \in Answers : \A c \in Clients : sendQueue[i].packet.id \notin Known(c)'
    BY <1>2 DEF AnswerInv
  <2> QED
    BY <1>1, <2>3, <2>5, <2>6, <2>7 DEF AnswerInv
<1>4. CASE sender.packet.type # "CREATE_RESPOND"
  <2>1. Sending = {} /\ Answers' = Answers
    BY <1>1, <1>4 DEF Sending, Answers
  <2>2. Sending' = {}
    BY <1>4 DEF SendOne, Sending, NoTask, Packet
  <2>3. \A c \in Clients : Known(c)' \subseteq Known(c)
    BY <1>2, <2>1
  <2> QED
    BY <1>1, <2>1, <2>2, <2>3 DEF AnswerInv
<1> QED
  BY <1>3, <1>4

LEMMA SyncerAnswers ==
    ASSUME Types, AnswerInv, SyncerNext, UNCHANGED clientVars
    PROVE  AnswerInv'
<1>1. CASE SyncLock
  <2>1. Packet("STATE", 0) \in Packets /\ Packet("STATE", 0).type # "CREATE_RESPOND"
    BY DEF Packet, Packets, PacketType
  <2> QED
    BY <1>1, <2>1, OtherTask DEF SyncLock, netVars, clientVars
<1>2. ASSUME NEW k \in Ids, SyncPath(k) PROVE AnswerInv'
  <2>1. Packet("PATH", k) \in Packets /\ Packet("PATH", k).type # "CREATE_RESPOND"
    BY DEF Packet, Packets, PacketType, Ids
  <2>2. clientIds[k] \in Sockets \cup {NoSocket}
    BY DEF Types, ServerTypes
  <2> QED
    BY <1>2, <2>1, <2>2, OtherTask DEF SyncPath, netVars, levelVars, clientVars
<1> QED
  BY <1>1, <1>2 DEF SyncerNext

LEMMA NextAnswerInv == IdsInv /\ [Next]_vars => AnswerInv'
<1> SUFFICES ASSUME Types, SocketInv, MutexInv, AnswerInv, [Next]_vars PROVE AnswerInv'
  BY DEF IdsInv
<1>1. CASE Server
  <2>1. CASE AcceptorNext
    <3>1. UNCHANGED <<toClient, playerId, sendQueue, sender, playerCount, owner>>
      BY <1>1, <2>1 DEF Server, AcceptorNext, Accept, AcceptFails, Refuse, Admit, Register,
                        netVars, levelVars, clientVars
    <3> QED
      BY <3>1, FewerKnown DEF Known, AnswerIds
  <2> QED
    BY <1>1, <2>1, HandlerAnswers, SendLockAnswers, SendOneAnswers, SyncerAnswers
    DEF Server, ServerNext, SenderNext
<1>2. CASE UNCHANGED vars
  BY <1>2, FewerKnown
  DEF vars, netVars, serverVars, levelVars, clientVars, Known, AnswerIds
<1> QED
  BY <1>1, <1>2, ClientAnswers DEF Next

-----------------------------------------------------------------------------

\* The inductive invariant of the ids.
THEOREM IdsInvariant == Spec => []IdsInv
<1>1. IdsInv /\ [Next]_vars => IdsInv'
  BY NextTypes, NextSocketInv, NextMutexInv, NextAnswerInv DEF IdsInv
<1> QED
  BY <1>1, InitIds, PTL DEF Spec

\* An answer reaches a client only when its player is in the level.
THEOREM IdsReadyAlways == Spec => []IdsReady
<1>1. IdsInv => IdsReady
  <2> SUFFICES ASSUME AnswerInv, NEW c \in Clients
               PROVE  /\ playerId[c] # 0 => owner[playerId[c]] # Nobody
                      /\ \A i \in DOMAIN toClient[c] :
                            toClient[c][i].type = "CREATE_RESPOND" =>
                              owner[toClient[c][i].id] # Nobody
    BY DEF IdsInv, IdsReady
  <2>1. playerId[c] # 0 => playerId[c] \in Known(c)
    BY DEF Known
  <2>2. \A i \in DOMAIN toClient[c] :
           toClient[c][i].type = "CREATE_RESPOND" => toClient[c][i].id \in Known(c)
    BY DEF Known, AnswerIds
  <2> QED
    BY <2>1, <2>2 DEF AnswerInv
<1> QED
  BY <1>1, IdsInvariant, PTL

\* No two clients take themselves for the same player.
THEOREM IdsUniqueAlways == Spec => []IdsUnique
<1>1. IdsInv => IdsUnique
  <2> SUFFICES ASSUME AnswerInv, NEW c \in Clients, NEW d \in Clients, c # d,
                      playerId[c] # 0, playerId[c] = playerId[d]
               PROVE  FALSE
    BY DEF IdsInv, IdsUnique
  <2>1. playerId[c] \in Known(c) \cap Known(d)
    BY DEF Known
  <2> QED
    BY <2>1 DEF AnswerInv
<1> QED
  BY <1>1, IdsInvariant, PTL
-----------------------------------------------------------------------------
(***************************************************************************)
(* The list of the broadcasts.                                             *)
(***************************************************************************)

\* The connections whose handler has not seen their end, and their handles.
Reading == { c \in Clients : handler[c].at \notin {"new", "close", "ended"} }

Listed == { clientSockets[i] : i \in DOMAIN clientSockets }

ListInv == clientSockets \in Seq(Sockets) /\ BroadcastList

\* Erasing an index shortens a sequence by one and shifts what is behind it.
LEMMA RemoveAtProperties ==
    ASSUME NEW S, NEW s \in Seq(S), NEW k \in 1..Len(s)
    PROVE  /\ RemoveAt(s, k) \in Seq(S)
           /\ Len(RemoveAt(s, k)) = Len(s) - 1
           /\ \A i \in 1..(Len(s) - 1) :
                 RemoveAt(s, k)[i] = IF i < k THEN s[i] ELSE s[i + 1]
<1> DEFINE front == SubSeq(s, 1, k - 1)
           back  == SubSeq(s, k + 1, Len(s))
<1>0. Len(s) \in Nat /\ k \in Nat /\ 1 <= k /\ k <= Len(s)
  BY LenProperties
<1>1. /\ front \in Seq(S)
      /\ Len(front) = k - 1
      /\ \A i \in 1..(k - 1) : front[i] = s[i]
  <2>1. \A i \in 1..(k - 1) : s[i] \in S
    BY <1>0, ElementOfSeq
  <2> QED
    BY <2>1, <1>0, SubSeqProperties
<1>2. /\ back \in Seq(S)
      /\ Len(back) = Len(s) - k
      /\ \A i \in 1..(Len(s) - k) : back[i] = s[i + k]
  <2>1. \A i \in (k + 1)..Len(s) : s[i] \in S
    BY <1>0, ElementOfSeq
  <2> QED
    BY <2>1, <1>0, SubSeqProperties
<1>3. RemoveAt(s, k) = front \o back
  BY DEF RemoveAt
<1> HIDE DEF front, back
<1>4. /\ front \o back \in Seq(S)
      /\ Len(front \o back) = Len(front) + Len(back)
      /\ \A i \in 1..(Len(front) + Len(back)) :
            (front \o back)[i] =
              IF i <= Len(front) THEN front[i] ELSE back[i - Len(front)]
  <2>1. front \in Seq(S) /\ back \in Seq(S)
    BY <1>1, <1>2
  <2> QED
    BY <2>1, ConcatProperties
<1>5. ASSUME NEW i \in 1..(Len(s) - 1)
      PROVE  (front \o back)[i] = IF i < k THEN s[i] ELSE s[i + 1]
  <2>1. CASE i < k
    BY <2>1, <1>0, <1>1, <1>2, <1>4
  <2>2. CASE ~ (i < k)
    <3>1. i - (k - 1) \in 1..(Len(s) - k) /\ i - (k - 1) + k = i + 1
      BY <2>2, <1>0
    <3>2. (front \o back)[i] = back[i - (k - 1)]
      BY <2>2, <1>0, <1>1, <1>2, <1>4
    <3> QED
      BY <3>1, <3>2, <2>2, <1>2
  <2> QED
    BY <2>1, <2>2
<1> QED
  BY <1>0, <1>1, <1>2, <1>3, <1>4, <1>5

\* What std::find and erase leave of a list without duplicates.
LEMMA Erased ==
    ASSUME NEW list \in Seq(Sockets), NEW s,
           \A i, j \in DOMAIN list : list[i] = list[j] => i = j
    PROVE  LET rest == RemoveFirst(list, s)
           IN  /\ rest \in Seq(Sockets)
               /\ Len(rest) <= Len(list)
               /\ \A i, j \in DOMAIN rest : rest[i] = rest[j] => i = j
               /\ { rest[i] : i \in DOMAIN rest } = { list[i] : i \in DOMAIN list } \ {s}
<1> DEFINE rest == RemoveFirst(list, s)
<1>0. DOMAIN list = 1..Len(list) /\ Len(list) \in Nat
  OBVIOUS
<1>1. CASE \E i \in 1..Len(list) : list[i] = s
  <2>1. PICK k \in 1..Len(list) : list[k] = s
    BY <1>1
  <2>2. SelectInSeq(list, LAMBDA v : v = s) = k
    <3> DEFINE I == { i \in 1..Len(list) : list[i] = s }
    <3>1. I = {k}
      BY <2>1, <1>0
    <3>2. Min(I) = k
      BY <3>1, <2>1 DEF Min
    <3> QED
      BY <3>1, <3>2 DEF SelectInSeq
  <2>3. rest = RemoveAt(list, k)
    BY <1>1, <2>2 DEF RemoveFirst
  <2> DEFINE from(i) == IF i < k THEN i ELSE i + 1
  <2>4. /\ rest \in Seq(Sockets)
        /\ Len(rest) = Len(list) - 1
        /\ DOMAIN rest = 1..(Len(list) - 1)
        /\ \A i \in DOMAIN rest : rest[i] = list[from(i)]
    <3>1. /\ RemoveAt(list, k) \in Seq(Sockets)
          /\ Len(RemoveAt(list, k)) = Len(list) - 1
          /\ \A i \in 1..(Len(list) - 1) :
                RemoveAt(list, k)[i] = IF i < k THEN list[i] ELSE list[i + 1]
      BY ONLY list \in Seq(Sockets), k \in 1..Len(list), RemoveAtProperties
    <3> HIDE DEF rest
    <3>2. DOMAIN rest = 1..(Len(list) - 1)
      BY <2>3, <3>1, LenProperties
    <3>3. ASSUME NEW i \in DOMAIN rest PROVE rest[i] = list[from(i)]
      BY <2>3, <3>1, <3>2, <3>3
    <3> QED
      BY <2>3, <3>1, <3>2, <3>3
  <2>5. /\ \A i \in DOMAIN rest : from(i) \in DOMAIN list \ {k}
        /\ \A i, j \in DOMAIN rest : from(i) = from(j) => i = j
        /\ \A j \in DOMAIN list \ {k} : \E i \in DOMAIN rest : from(i) = j
    <3> HIDE DEF rest
    <3>1. k \in Nat /\ 1 <= k /\ k <= Len(list)
      BY <1>0
    <3>2. ASSUME NEW j \in DOMAIN list \ {k} PROVE \E i \in DOMAIN rest : from(i) = j
      <4>1. CASE j < k
        BY <4>1, <3>1, <2>4, <1>0
      <4>2. CASE ~ (j < k)
        <5>1. j - 1 \in DOMAIN rest /\ from(j - 1) = j
          BY <4>2, <3>1, <2>4, <1>0
        <5> QED
          BY <5>1
      <4> QED
        BY <4>1, <4>2
    <3> QED
      BY <3>1, <3>2, <2>4, <1>0
  <2> HIDE DEF rest, from
  <2>6. ASSUME NEW i \in DOMAIN rest, NEW j \in DOMAIN rest, rest[i] = rest[j] PROVE i = j
    BY <2>4, <2>5, <2>6
  <2>7. \A i \in DOMAIN rest : rest[i] \in { list[j] : j \in DOMAIN list } \ {s}
    BY <1>0, <2>1, <2>4, <2>5
  <2>8. \A j \in DOMAIN list : list[j] # s => \E i \in DOMAIN rest : rest[i] = list[j]
    BY <2>1, <2>4, <2>5
  <2>9. { rest[i] : i \in DOMAIN rest } = { list[i] : i \in DOMAIN list } \ {s}
    BY <2>7, <2>8
  <2>10. Len(rest) <= Len(list)
    BY <1>0, <2>4
  <2> QED
    BY <2>4, <2>6, <2>9, <2>10 DEF rest
<1>2. CASE ~ \E i \in 1..Len(list) : list[i] = s
  <2>1. rest = list
    BY <1>2 DEF RemoveFirst
  <2> QED
    BY <1>0, <1>2, <2>1
<1> QED
  BY <1>1, <1>2

LEMMA NextListInv == Types /\ SocketInv /\ ListInv /\ [Next]_vars => ListInv'
<1> SUFFICES ASSUME Types, SocketInv, ListInv, [Next]_vars PROVE ListInv'
    OBVIOUS
<1> USE DEF netVars, AcceptorAt, HandlerAt
<1>0. /\ socket \in [Clients -> Sockets \cup {NoSocket}]
      /\ handler \in [Clients -> [at : {"new", "recv", "process", "add", "close", "ended"},
                                  packet : Packets]]
      /\ clientSockets \in Seq(Sockets)
      /\ Len(clientSockets) <= MaxClients
      /\ \A i, j \in DOMAIN clientSockets : clientSockets[i] = clientSockets[j] => i = j
      /\ Listed = { socket[c] : c \in Reading }
  BY DEF Types, NetTypes, ServerTypes, ListInv, BroadcastList, Listed, Reading
<1>1. ASSUME UNCHANGED clientSockets, Reading' = Reading,
             \A c \in Reading : socket'[c] = socket[c]
      PROVE  ListInv'
  <2>1. Listed' = Listed
    BY <1>1 DEF Listed
  <2>2. { socket'[c] : c \in Reading' } = { socket[c] : c \in Reading }
    BY <1>1
  <2> QED
    BY <1>0, <1>1, <2>1, <2>2 DEF ListInv, BroadcastList, Listed, Reading
<1>2. ASSUME UNCHANGED <<clientSockets, socket, handler>> PROVE ListInv'
  BY <1>1, <1>2 DEF Reading
<1>3. ASSUME NEW c \in Clients, UNCHANGED <<clientSockets, socket>>, c \in Reading,
             \E at \in {"recv", "process", "add"}, p \in Packets :
                handler' = [handler EXCEPT ![c] = [at |-> at, packet |-> p]]
      PROVE  ListInv'
  <2>1. Reading' = Reading
    BY <1>0, <1>3 DEF Reading
  <2> QED
    BY <1>1, <1>3, <2>1
<1>4. ASSUME NEW c \in Clients, UNCHANGED clientSockets, c \notin Reading,
             CloseServerEnd(c), handler' \in {handler, [handler EXCEPT ![c].at = "ended"]}
      PROVE  ListInv'
  <2>1. Reading' = Reading
    <3>1. CASE handler' = handler
      BY <3>1 DEF Reading
    <3>2. CASE handler' = [handler EXCEPT ![c].at = "ended"]
      BY <1>0, <1>4, <3>2 DEF Reading
    <3> QED
      BY <1>4, <3>1, <3>2
  <2>2. \A d \in Reading : socket'[d] = socket[d]
    BY <1>0, <1>4 DEF Reading, CloseServerEnd
  <2> QED
    BY <1>1, <1>4, <2>1, <2>2
<1>5. CASE Admit
  <2> DEFINE c == acceptor.client
  <2>1. /\ c \in Clients /\ c \notin Reading
        /\ socket[c] \in Sockets /\ socket[c] \notin Listed
    BY <1>0, <1>5 DEF Admit, SocketInv, Reading
  <2>2. Reading' = Reading \cup {c} /\ socket' = socket
    BY <1>0, <1>5, <2>1 DEF Admit, Reading
  <2>3. /\ clientSockets' = Append(clientSockets, socket[c])
        /\ Len(clientSockets) < MaxClients
    <3>1. Len(clientSockets) \in Nat
      BY <1>0, LenProperties
    <3> QED
      BY <1>5, <3>1, MaxClientsAssumption DEF Admit, Full
  <2>4. /\ clientSockets' \in Seq(Sockets)
        /\ Len(clientSockets') = Len(clientSockets) + 1
        /\ \A i \in 1..Len(clientSockets) : clientSockets'[i] = clientSockets[i]
        /\ clientSockets'[Len(clientSockets) + 1] = socket[c]
    BY <1>0, <2>1, <2>3
  <2>5. \A i \in DOMAIN clientSockets : clientSockets[i] # socket[c]
    BY <2>1 DEF Listed
  <2>6. /\ DOMAIN clientSockets = 1..Len(clientSockets)
        /\ DOMAIN clientSockets' = 1..(Len(clientSockets) + 1)
        /\ Len(clientSockets) \in Nat
    BY <1>0, <2>4, LenProperties
  <2>7. ASSUME NEW i \in DOMAIN clientSockets'
        PROVE  \/ i \in DOMAIN clientSockets /\ clientSockets'[i] = clientSockets[i]
               \/ i = Len(clientSockets) + 1 /\ clientSockets'[i] = socket[c]
    BY <2>4, <2>6, <2>7
  <2>8. \A i, j \in DOMAIN clientSockets' : clientSockets'[i] = clientSockets'[j] => i = j
    BY <1>0, <2>5, <2>7
  <2>9. Listed' = Listed \cup {socket[c]}
    <3>1. Listed' \subseteq Listed \cup {socket[c]}
      BY <2>7 DEF Listed
    <3>2. Listed \cup {socket[c]} \subseteq Listed'
      BY <2>4, <2>6 DEF Listed
    <3> QED
      BY <3>1, <3>2
  <2>10. Listed' = { socket'[d] : d \in Reading' }
    BY <1>0, <2>2, <2>9
  <2>11. Len(clientSockets') <= MaxClients
    BY <2>3, <2>4, <2>6, MaxClientsAssumption
  <2> QED
    BY <2>4, <2>8, <2>10, <2>11 DEF ListInv, BroadcastList, Listed, Reading
<1>6. ASSUME NEW c \in Clients, Leave(c) PROVE ListInv'
  <2>1. c \in Reading /\ socket[c] \in Sockets
    BY <1>6 DEF Leave, SocketInv, Reading
  <2>2. Reading' = Reading \ {c} /\ socket' = socket
    BY <1>0, <1>6 DEF Leave, Reading
  <2>3. clientSockets' = RemoveFirst(clientSockets, socket[c])
    BY <1>6 DEF Leave, Unlisted
  <2>4. /\ clientSockets' \in Seq(Sockets)
        /\ Len(clientSockets') <= Len(clientSockets)
        /\ \A i, j \in DOMAIN clientSockets' : clientSockets'[i] = clientSockets'[j] => i = j
        /\ Listed' = Listed \ {socket[c]}
    <3> DEFINE rest == RemoveFirst(clientSockets, socket[c])
    <3>1. /\ rest \in Seq(Sockets)
          /\ Len(rest) <= Len(clientSockets)
          /\ \A i, j \in DOMAIN rest : rest[i] = rest[j] => i = j
          /\ { rest[i] : i \in DOMAIN rest } =
               { clientSockets[i] : i \in DOMAIN clientSockets } \ {socket[c]}
      BY <1>0, Erased
    <3> HIDE DEF rest
    <3>2. clientSockets' = rest
      BY <2>3 DEF rest
    <3> QED
      BY <3>1, <3>2 DEF Listed
  <2>5. \A d \in Reading : d # c => socket[d] # socket[c]
    BY <2>1 DEF SocketInv, Reading
  <2>6. Listed' = { socket'[d] : d \in Reading' }
    BY <1>0, <2>1, <2>2, <2>4, <2>5
  <2>7. Len(clientSockets') <= MaxClients
    <3>1. Len(clientSockets') \in Nat /\ Len(clientSockets) \in Nat
      BY <1>0, <2>4, LenProperties
    <3> QED
      BY <1>0, <2>4, <3>1, MaxClientsAssumption
  <2> QED
    BY <2>4, <2>6, <2>7 DEF ListInv, BroadcastList, Listed, Reading
<1>7. CASE Server
  <2>1. ASSUME NEW c \in Clients, NEW s \in Sockets, Accept(c, s) PROVE ListInv'
    <3>1. c \notin Reading
      BY <2>1 DEF Accept, Backlog, SocketInv, Reading
    <3>2. Reading' = Reading /\ \A d \in Reading : socket'[d] = socket[d]
      BY <1>0, <2>1, <3>1 DEF Accept, Reading
    <3> QED
      BY <1>1, <2>1, <3>2 DEF Accept
  <2>2. ASSUME NEW c \in Clients, AcceptFails(c) PROVE ListInv'
    <3>1. c \notin Reading
      BY <2>2 DEF AcceptFails, Backlog, SocketInv, Reading
    <3> QED
      BY <1>4, <2>2, <3>1 DEF AcceptFails
  <2>3. CASE Refuse
    <3>1. acceptor.client \in Clients /\ acceptor.client \notin Reading
      BY <2>3 DEF Refuse, SocketInv, Reading
    <3> QED
      BY <1>4, <2>3, <3>1 DEF Refuse
  <2>4. CASE Register
    BY <1>2, <2>4 DEF Register
  <2>5. ASSUME NEW c \in Clients, HandlerNext(c) PROVE ListInv'
    <3>1. CASE Receive(c)
      <4>1. Head(toServer[c]) \in Packets
        BY <3>1 DEF Receive, Types, NetTypes
      <4> QED
        BY <1>3, <3>1, <4>1 DEF Receive, Reading
    <3>2. ASSUME handler[c].at = "process" \/ handler[c].at = "add",
                 HandlerAt(c, "recv"), UNCHANGED <<clientSockets, socket>>
          PROVE  ListInv'
      <4>1. Reading' = Reading
        BY <1>0, <3>2 DEF Reading
      <4> QED
        BY <1>1, <3>2, <4>1
    <3>3. CASE EnterRequest(c)
      BY <3>2, <3>3 DEF EnterRequest, Processes
    <3>4. CASE CreateRespond(c)
      <4>1. Packet("CREATE", NextId) \in Packets
        BY <3>4 DEF CreateRespond, NextId, Packet, Packets, PacketType, Types, ServerTypes
      <4> QED
        BY <1>3, <3>4, <4>1 DEF CreateRespond, Processes, Reading
    <3>5. ASSUME NEW position \in EmptyCells, CreateAdd(c, position) PROVE ListInv'
      BY <3>2, <3>5 DEF CreateAdd
    <3>6. ASSUME NEW direction, KeyInput(c, direction) PROVE ListInv'
      BY <3>2, <3>6 DEF KeyInput, Processes
    <3>7. ASSUME NEW end \in Clicks, MouseInput(c, end) PROVE ListInv'
      BY <3>2, <3>7 DEF MouseInput, Processes
    <3>8. CASE ExitRequest(c)
      BY <3>2, <3>8 DEF ExitRequest, Processes
    <3>9. CASE Close(c)
      BY <1>4, <3>9 DEF Close, Reading
    <3> QED
      BY <1>6, <2>5, <3>1, <3>3, <3>4, <3>5, <3>6, <3>7, <3>8, <3>9 DEF HandlerNext
  <2>6. CASE SenderNext
    BY <1>2, <2>6 DEF SenderNext, SendLock, SendOne
  <2>7. CASE SyncerNext
    BY <1>2, <2>7 DEF SyncerNext, SyncLock, SyncPath
  <2> QED
    BY <1>5, <1>7, <2>1, <2>2, <2>3, <2>4, <2>5, <2>6, <2>7
    DEF Server, ServerNext, AcceptorNext
<1>8. ASSUME NEW c \in Clients, Client(c) PROVE ListInv'
  <2>1. UNCHANGED <<clientSockets, socket, handler>>
    BY <1>8 DEF Client, ClientNext, serverVars, Connect, PressReturn, ChangeLevel, Input,
                Quit, SendPacket, ReceivePacket, Disconnect, CloseClientEnd
  <2> QED
    BY <1>2, <2>1
<1>9. CASE UNCHANGED vars
  BY <1>2, <1>9 DEF vars, serverVars
<1> QED
  BY <1>7, <1>8, <1>9 DEF Next

\* The list holds handles, and those alone that broadcasts have to go to.
LEMMA ListInvariant == Spec => []ListInv
<1>1. Init => ListInv
  <2> SUFFICES ASSUME Init PROVE ListInv
    OBVIOUS
  <2>1. clientSockets = <<>> /\ \A c \in Clients : handler[c].at = "new"
    BY DEF Init, ServerInit
  <2> QED
    BY <2>1, MaxClientsAssumption DEF ListInv, BroadcastList
<1>2. IdsInv /\ ListInv /\ [Next]_vars => ListInv'
  BY NextListInv DEF IdsInv
<1> QED
  BY <1>1, <1>2, IdsInvariant, PTL DEF Spec

\* A broadcast goes once to each connection whose handler reads, and to no
\* handle that has been closed or given to a later connection.
THEOREM BroadcastListAlways == Spec => []BroadcastList
<1>1. ListInv => BroadcastList
  BY DEF ListInv
<1> QED
  BY <1>1, ListInvariant, PTL

-----------------------------------------------------------------------------
(***************************************************************************)
(* The world.                                                              *)
(***************************************************************************)

\* The ids whose player is in the level.
Owned == { k \in Ids : owner[k] # Nobody }

\* The requests of a client on their way: in its queue, in the connection, and
\* the one its handler works on.
Requests(c) ==
    ToSet(clientQueue[c]) \cup ToSet(toServer[c])
    \cup { p \in {handler[c].packet} : handler[c].at = "process" }

\* A request names a player that is in the level, or nobody when its type does
\* not need one.
NamesPlayer(p) ==
    /\ p.type \in {"KEY", "MOUSE"} => p.id # 0
    /\ p.id # 0 => p.id \in Owned

WorldInv ==
    /\ \A c \in Creating : mutex = c /\ handler[c].packet.id = playerCount
    /\ Owned = (1..playerCount) \ { handler[c].packet.id : c \in Creating }
    /\ exited \subseteq Owned
    /\ Given \subseteq Owned
    /\ \A c \in Clients : \A p \in Requests(c) : NamesPlayer(p)

LEMMA SetOf ==
    ASSUME NEW S, NEW s \in Seq(S), NEW e
    PROVE  /\ ToSet(Append(s, e)) = ToSet(s) \cup {e}
           /\ s # <<>> => Head(s) \in ToSet(s) /\ ToSet(Tail(s)) \subseteq ToSet(s)
           /\ \A rest \in Received(s) : ToSet(rest) \subseteq ToSet(s)
           /\ ToSet(<<>>) = {}
<1> DEFINE long == Append(s, e)
<1>1. /\ Len(s) \in Nat /\ DOMAIN s = 1..Len(s)
      /\ DOMAIN long = 1..(Len(s) + 1)
      /\ long[Len(s) + 1] = e
      /\ \A i \in 1..Len(s) : long[i] = s[i]
  <2>1. s \in Seq(S \cup {e})
    OBVIOUS
  <2> QED
    BY <2>1, AppendProperties, LenProperties
<1>2. ToSet(long) = ToSet(s) \cup {e}
  <2> HIDE DEF long
  <2>1. ToSet(long) \subseteq ToSet(s) \cup {e}
    BY <1>1 DEF ToSet
  <2>2. ToSet(s) \subseteq ToSet(long)
    BY <1>1 DEF ToSet
  <2>3. Len(s) + 1 \in 1..(Len(s) + 1)
    BY <1>1
  <2>4. e \in ToSet(long)
    BY <1>1, <2>3 DEF ToSet
  <2> QED
    BY <2>1, <2>2, <2>4
<1>3. ASSUME s # <<>> PROVE Head(s) \in ToSet(s) /\ ToSet(Tail(s)) \subseteq ToSet(s)
  <2>1. /\ 1 \in DOMAIN s /\ Head(s) = s[1]
        /\ DOMAIN Tail(s) = 1..(Len(s) - 1)
        /\ \A i \in 1..(Len(s) - 1) : Tail(s)[i] = s[i + 1] /\ i + 1 \in DOMAIN s
    BY <1>1, <1>3
  <2> QED
    BY <2>1 DEF ToSet
<1>4. \A rest \in Received(s) : ToSet(rest) \subseteq ToSet(s)
  BY Rest DEF ToSet
<1>5. ToSet(<<>>) = {}
  BY DEF ToSet
<1> QED
  BY <1>2, <1>3, <1>4, <1>5

\* Nobody creates a player while somebody else holds the mutex.
LEMMA NobodyCreates ==
    ASSUME MutexInv, mutex \notin Clients
    PROVE  Creating = {}
BY DEF MutexInv, Creating

\* A step that only moves requests, or adds such as name a player.
LEMMA RequestsMove ==
    ASSUME WorldInv, UNCHANGED <<playerCount, owner, exited, clientIds>>,
           mutex' = mutex \/ Creating = {},
           \A c \in Clients : \/ handler'[c] = handler[c]
                              \/ handler[c].at # "add" /\ handler'[c].at # "add",
           \A c \in Clients : \A p \in Requests(c)' : p \in Requests(c) \/ NamesPlayer(p)
    PROVE  WorldInv'
<1>1. Owned' = Owned /\ Given' = Given
  BY DEF Owned, Given
<1>2. Creating' = Creating /\ \A c \in Creating : handler'[c] = handler[c]
  BY DEF Creating
<1>3. \A p : NamesPlayer(p)' <=> NamesPlayer(p)
  BY <1>1 DEF NamesPlayer
<1>4. { handler[c].packet.id : c \in Creating }' = { handler[c].packet.id : c \in Creating }
  BY <1>2
<1>5. (\A c \in Creating : mutex = c /\ handler[c].packet.id = playerCount)'
  BY <1>2 DEF WorldInv
<1>6. (\A c \in Clients : \A p \in Requests(c) : NamesPlayer(p))'
  BY <1>3 DEF WorldInv
<1> QED
  BY <1>1, <1>4, <1>5, <1>6 DEF WorldInv

LEMMA ClientWorld ==
    ASSUME IdsInv, WorldInv, NEW c \in Clients, Client(c)
    PROVE  WorldInv'
<1>0. /\ toServer \in [Clients -> Seq(Packets)]
      /\ clientQueue \in [Clients -> Seq(Packets)]
      /\ playerId \in [Clients -> 0..MaxPlayers]
  BY DEF IdsInv, Types, NetTypes
<1>1. UNCHANGED <<playerCount, owner, exited, clientIds, mutex, handler>>
  BY DEF Client, serverVars, levelVars
<1>2. playerId[c] # 0 => playerId[c] \in Owned
  BY <1>0 DEF IdsInv, AnswerInv, Known, Owned, Ids
<1>3. ASSUME \A d \in Clients : \A p \in ToSet(clientQueue'[d]) \cup ToSet(toServer'[d]) :
                p \in Requests(d) \/ NamesPlayer(p)
      PROVE  WorldInv'
  <2>1. \A d \in Clients : \A p \in Requests(d)' : p \in Requests(d) \/ NamesPlayer(p)
    BY <1>1, <1>3 DEF Requests
  <2> QED
    BY <1>1, <2>1, RequestsMove
<1>4. ASSUME NEW packet, Enqueue(c, packet), NamesPlayer(packet), toServer' = toServer
      PROVE  WorldInv'
  <2>1. /\ ToSet(clientQueue'[c]) = ToSet(clientQueue[c]) \cup {packet}
        /\ \A d \in Clients : d # c => clientQueue'[d] = clientQueue[d]
    BY <1>0, <1>4, SetOf DEF Enqueue
  <2> QED
    BY <1>3, <1>4, <2>1 DEF Requests
<1>5. CASE Connect(c) \/ ChangeLevel(c)
  BY <1>3, <1>5 DEF Connect, ChangeLevel, clientVars, netVars, Requests
<1>6. CASE PressReturn(c)
  BY <1>4, <1>6 DEF PressReturn, netVars, NamesPlayer, Packet
<1>7. ASSUME NEW type \in {"KEY", "MOUSE"}, Input(c, type) PROVE WorldInv'
  BY <1>2, <1>4, <1>7 DEF Input, netVars, NamesPlayer, Packet
<1>8. CASE Quit(c)
  BY <1>2, <1>4, <1>8 DEF Quit, netVars, NamesPlayer, Packet
<1>9. CASE SendPacket(c)
  <2>1. /\ clientQueue[c] \in Seq(Packets) /\ clientQueue[c] # <<>>
        /\ clientQueue' = [clientQueue EXCEPT ![c] = Tail(@)]
        /\ \/ toServer' = toServer
           \/ toServer' = [toServer EXCEPT ![c] = Append(@, Head(clientQueue[c]))]
    BY <1>0, <1>9 DEF SendPacket
  <2>2. /\ Head(clientQueue[c]) \in ToSet(clientQueue[c])
        /\ ToSet(Tail(clientQueue[c])) \subseteq ToSet(clientQueue[c])
    BY <2>1, SetOf
  <2>3. ToSet(Append(toServer[c], Head(clientQueue[c])))
          = ToSet(toServer[c]) \cup {Head(clientQueue[c])}
    BY <1>0, SetOf
  <2>4. /\ ToSet(clientQueue'[c]) \subseteq ToSet(clientQueue[c])
        /\ ToSet(toServer'[c]) \subseteq ToSet(toServer[c]) \cup ToSet(clientQueue[c])
        /\ \A d \in Clients : d # c => clientQueue'[d] = clientQueue[d] /\ toServer'[d] = toServer[d]
    BY <1>0, <2>1, <2>2, <2>3
  <2> QED
    BY <1>3, <2>4 DEF Requests
<1>10. CASE ReceivePacket(c)
  <2>1. toServer' = toServer
        /\ (clientQueue' = clientQueue \/ Enqueue(c, Packet("CREATE", 0)))
    BY <1>10 DEF ReceivePacket
  <2>2. CASE clientQueue' = clientQueue
    BY <1>3, <2>1, <2>2 DEF Requests
  <2>3. CASE Enqueue(c, Packet("CREATE", 0))
    BY <1>4, <2>1, <2>3 DEF NamesPlayer, Packet
  <2> QED
    BY <2>1, <2>2, <2>3
<1>11. CASE Disconnect(c)
  <2>1. /\ clientQueue' = [clientQueue EXCEPT ![c] = <<>>]
        /\ toServer' = toServer \/ toServer' = [toServer EXCEPT ![c] = <<>>]
    BY <1>11 DEF Disconnect, CloseClientEnd
  <2>2. \A d \in Clients : /\ ToSet(clientQueue'[d]) \subseteq ToSet(clientQueue[d])
                           /\ ToSet(toServer'[d]) \subseteq ToSet(toServer[d])
    <3>1. ToSet(<<>>) = {}
      BY DEF ToSet
    <3> QED
      BY <1>0, <2>1, <3>1
  <2> QED
    BY <1>3, <2>2 DEF Requests
<1> QED
  BY <1>5, <1>6, <1>7, <1>8, <1>9, <1>10, <1>11 DEF Client, ClientNext

\* A handler that goes on, or ends, with the requests that were there.
LEMMA HandlerGoesOn ==
    ASSUME Types, WorldInv, NEW c \in Clients,
           NEW at \in {"recv", "close", "ended"}, HandlerAt(c, at), handler[c].at # "add",
           UNCHANGED <<clientQueue, playerCount, owner, exited, clientIds, mutex>>,
           \/ toServer' = toServer
           \/ toServer' = [toServer EXCEPT ![c] = <<>>]
    PROVE  WorldInv'
<1>1. /\ handler \in [Clients -> [at : {"new", "recv", "process", "add", "close", "ended"},
                                  packet : Packets]]
      /\ toServer \in [Clients -> Seq(Packets)]
  BY DEF Types, NetTypes, ServerTypes
<1>2. /\ handler'[c].at = at
      /\ \A d \in Clients : d # c => handler'[d] = handler[d]
  BY <1>1 DEF HandlerAt
<1>3. \A d \in Clients : ToSet(toServer'[d]) \subseteq ToSet(toServer[d])
  <2>1. ToSet(<<>>) = {}
    BY DEF ToSet
  <2> QED
    BY <1>1, <2>1
<1>4. \A d \in Clients : Requests(d)' \subseteq Requests(d)
  BY <1>2, <1>3 DEF Requests
<1> QED
  BY <1>2, <1>4, RequestsMove

LEMMA AcceptorWorld ==
    ASSUME IdsInv, WorldInv, AcceptorNext, UNCHANGED clientVars
    PROVE  WorldInv'
<1> USE DEF AcceptorAt, levelVars, clientVars, netVars
<1>0. /\ handler \in [Clients -> [at : {"new", "recv", "process", "add", "close", "ended"},
                                  packet : Packets]]
      /\ toServer \in [Clients -> Seq(Packets)]
  BY DEF IdsInv, Types, NetTypes, ServerTypes
<1>1. UNCHANGED <<clientQueue, playerCount, owner, exited, clientIds, mutex>>
  BY DEF AcceptorNext, Accept, AcceptFails, Refuse, Admit, Register
<1>2. ASSUME handler' = handler,
             \/ toServer' = toServer
             \/ \E c \in Clients : toServer' = [toServer EXCEPT ![c] = <<>>]
      PROVE  WorldInv'
  <2>1. ToSet(<<>>) = {}
    BY DEF ToSet
  <2>2. \A d \in Clients : ToSet(toServer'[d]) \subseteq ToSet(toServer[d])
    BY <1>0, <1>2, <2>1
  <2>3. \A d \in Clients : Requests(d)' \subseteq Requests(d)
    BY <1>1, <1>2, <2>2 DEF Requests
  <2> QED
    BY <1>1, <1>2, <2>3, RequestsMove
<1>3. ASSUME NEW c \in Clients, NEW s \in Sockets, Accept(c, s) PROVE WorldInv'
  BY <1>2, <1>3 DEF Accept
<1>4. ASSUME NEW c \in Clients, AcceptFails(c) PROVE WorldInv'
  BY <1>2, <1>4 DEF AcceptFails, CloseServerEnd
<1>5. CASE Refuse
  <2>1. acceptor.client \in Clients
    BY <1>5 DEF Refuse, IdsInv, SocketInv
  <2> QED
    BY <1>2, <1>5, <2>1 DEF Refuse, CloseServerEnd
<1>6. CASE Admit
  <2>1. /\ HandlerAt(acceptor.client, "recv") /\ acceptor.client \in Clients
        /\ handler[acceptor.client].at # "add" /\ toServer' = toServer
    BY <1>6 DEF Admit, HandlerAt, IdsInv, SocketInv
  <2> QED
    BY <1>1, <2>1, HandlerGoesOn DEF IdsInv
<1>7. CASE Register
  BY <1>2, <1>7 DEF Register
<1> QED
  BY <1>3, <1>4, <1>5, <1>6, <1>7 DEF AcceptorNext

\* The one that creates: a player joins those that are owned.
LEMMA CreateWorld ==
    ASSUME IdsInv, WorldInv, NEW c \in Clients, NEW position, CreateAdd(c, position),
           UNCHANGED clientVars
    PROVE  WorldInv'
<1> DEFINE id == handler[c].packet.id
<1>0. /\ playerCount \in 0..MaxPlayers
      /\ owner \in [Ids -> Clients \cup {Nobody}]
      /\ clientIds \in [Ids -> Sockets \cup {NoSocket}]
      /\ handler \in [Clients -> [at : {"new", "recv", "process", "add", "close", "ended"},
                                  packet : Packets]]
  BY DEF IdsInv, Types, ServerTypes
<1>1. /\ handler[c].at = "add"
      /\ clientIds' = [clientIds EXCEPT ![id] = socket[c]]
      /\ owner' = [owner EXCEPT ![id] = c]
      /\ HandlerAt(c, "recv")
      /\ UNCHANGED <<playerCount, exited, toServer, clientQueue>>
  BY DEF CreateAdd, netVars, clientVars
<1>2. Creating = {c} /\ id = playerCount
  BY <1>1 DEF WorldInv, Creating
<1>3. id \in 1..playerCount /\ id \in Ids
  BY <1>0, <1>1 DEF IdsInv, MutexInv, Ids
<1>4. /\ handler'[c].at = "recv"
      /\ \A d \in Clients : d # c => handler'[d] = handler[d]
  BY <1>0, <1>1 DEF HandlerAt
<1>5. Creating' = {}
  BY <1>2, <1>4 DEF Creating
<1>6. Owned' = Owned \cup {id}
  BY <1>0, <1>1, <1>3 DEF Owned
<1>7. Owned = (1..playerCount) \ {id}
  BY <1>2 DEF WorldInv
<1>8. Owned' = 1..playerCount
  BY <1>3, <1>6, <1>7
<1>9. Given' \subseteq Given \cup {id}
  BY <1>0, <1>1 DEF Given
<1>10. \A d \in Clients : Requests(d)' \subseteq Requests(d)
  BY <1>1, <1>4 DEF Requests
<1>11. \A p : NamesPlayer(p) => NamesPlayer(p)'
  BY <1>6 DEF NamesPlayer
<1>12. { handler[d].packet.id : d \in Creating }' = {}
  BY <1>5
<1> HIDE DEF id
<1> QED
  BY <1>1, <1>5, <1>6, <1>8, <1>9, <1>10, <1>11, <1>12 DEF WorldInv

LEMMA HandlerWorld ==
    ASSUME IdsInv, WorldInv, NEW c \in Clients, HandlerNext(c), UNCHANGED clientVars
    PROVE  WorldInv'
<1>0. /\ handler \in [Clients -> [at : {"new", "recv", "process", "add", "close", "ended"},
                                  packet : Packets]]
      /\ toServer \in [Clients -> Seq(Packets)]
      /\ playerCount \in 0..MaxPlayers
  BY DEF IdsInv, Types, NetTypes, ServerTypes
<1>a. clientQueue' = clientQueue
  BY DEF clientVars
<1>b. ASSUME NEW at \in {"recv", "close", "ended"}, HandlerAt(c, at), handler[c].at # "add",
             UNCHANGED <<playerCount, owner, exited, clientIds, mutex>>,
             \/ toServer' = toServer
             \/ toServer' = [toServer EXCEPT ![c] = <<>>]
      PROVE  WorldInv'
  BY <1>a, <1>b, HandlerGoesOn DEF IdsInv
<1>1. CASE Receive(c)
  <2>1. PICK rest \in Received(toServer[c]) : toServer' = [toServer EXCEPT ![c] = rest]
    BY <1>1 DEF Receive
  <2>2. /\ handler' = [handler EXCEPT ![c] =
                          [at |-> "process", packet |-> Head(toServer[c])]]
        /\ handler[c].at = "recv" /\ toServer[c] # <<>>
        /\ UNCHANGED <<playerCount, owner, exited, clientIds, mutex>>
    BY <1>1 DEF Receive, levelVars
  <2>3. ToSet(rest) \subseteq ToSet(toServer[c]) /\ Head(toServer[c]) \in ToSet(toServer[c])
    <3>1. toServer[c] \in Seq(Packets) /\ toServer[c] # <<>>
      BY <1>0, <2>2
    <3> QED
      BY <3>1, SetOf
  <2>4. /\ handler'[c].at = "process" /\ handler'[c].packet = Head(toServer[c])
        /\ toServer'[c] = rest
        /\ \A d \in Clients : d # c => handler'[d] = handler[d] /\ toServer'[d] = toServer[d]
    BY <1>0, <2>1, <2>2
  <2>5. \A d \in Clients : Requests(d)' \subseteq Requests(d)
    BY <1>a, <2>3, <2>4 DEF Requests
  <2> QED
    BY <2>2, <2>4, <2>5, RequestsMove
<1>2. CASE EnterRequest(c)
  BY <1>b, <1>2 DEF EnterRequest, Processes, levelVars, netVars
<1>3. CASE CreateRespond(c)
  <2>1. /\ mutex = Free /\ mutex' = c /\ playerCount' = playerCount + 1
        /\ handler' = [handler EXCEPT ![c] =
                          [at |-> "add", packet |-> Packet("CREATE", playerCount + 1)]]
        /\ UNCHANGED <<owner, exited, clientIds, toServer>>
    BY <1>3 DEF CreateRespond, NextId, netVars
  <2>2. Creating = {}
    BY <2>1, NobodyCreates DEF IdsInv
  <2>3. /\ handler'[c].at = "add" /\ handler'[c].packet.id = playerCount + 1
        /\ \A d \in Clients : d # c => handler'[d] = handler[d]
    BY <1>0, <2>1 DEF Packet
  <2>4. Creating' = {c}
    BY <2>2, <2>3 DEF Creating
  <2>5. Owned' = Owned /\ Given' = Given
    BY <2>1 DEF Owned, Given
  <2>6. Owned = 1..playerCount
    <3>1. { handler[d].packet.id : d \in Creating } = {}
      BY <2>2
    <3> QED
      BY <3>1 DEF WorldInv
  <2>7. { handler[d].packet.id : d \in Creating }' = {playerCount + 1}
    BY <2>3, <2>4
  <2>8. Owned' = (1..playerCount') \ { handler[d].packet.id : d \in Creating }'
    <3>1. 1..playerCount = (1..(playerCount + 1)) \ {playerCount + 1}
      BY <1>0
    <3> QED
      BY <2>1, <2>5, <2>6, <2>7, <3>1
  <2>9. \A d \in Clients : Requests(d)' \subseteq Requests(d)
    BY <1>a, <2>1, <2>3 DEF Requests
  <2>10. \A p : NamesPlayer(p)' <=> NamesPlayer(p)
    BY <2>5 DEF NamesPlayer
  <2>11. (\A d \in Creating : mutex = d /\ handler[d].packet.id = playerCount)'
    BY <2>1, <2>3, <2>4
  <2> QED
    BY <2>1, <2>5, <2>8, <2>9, <2>10, <2>11 DEF WorldInv
<1>4. ASSUME NEW position \in EmptyCells, CreateAdd(c, position) PROVE WorldInv'
  BY <1>4, CreateWorld
<1>5. ASSUME NEW direction, KeyInput(c, direction) PROVE WorldInv'
  BY <1>b, <1>5 DEF KeyInput, Processes, netVars
<1>6. ASSUME NEW end \in Clicks, MouseInput(c, end) PROVE WorldInv'
  BY <1>b, <1>6 DEF MouseInput, Processes, netVars
<1>7. CASE ExitRequest(c)
  <2> DEFINE k == handler[c].packet.id
  <2>1. /\ handler[c].at = "process" /\ HandlerAt(c, "recv") /\ mutex = Free
        /\ exited' = exited \cup ({k} \ {0})
        /\ UNCHANGED <<playerCount, owner, clientIds, mutex, toServer>>
    BY <1>7 DEF ExitRequest, Processes, netVars
  <2>2. handler[c].packet \in Requests(c)
    BY <2>1 DEF Requests
  <2>3. exited' \subseteq Owned
    BY <2>1, <2>2 DEF WorldInv, NamesPlayer
  <2>4. Creating = {}
    BY <2>1, NobodyCreates DEF IdsInv
  <2>5. /\ handler'[c].at = "recv"
        /\ \A d \in Clients : d # c => handler'[d] = handler[d]
    BY <1>0, <2>1 DEF HandlerAt
  <2>6. Creating' = {}
    BY <2>4, <2>5 DEF Creating
  <2>7. Owned' = Owned /\ Given' = Given
    BY <2>1 DEF Owned, Given
  <2>8. \A d \in Clients : Requests(d)' \subseteq Requests(d)
    BY <1>a, <2>1, <2>5 DEF Requests
  <2>9. \A p : NamesPlayer(p)' <=> NamesPlayer(p)
    BY <2>7 DEF NamesPlayer
  <2>10. { handler[d].packet.id : d \in Creating }' = { handler[d].packet.id : d \in Creating }
    BY <2>4, <2>6
  <2> QED
    BY <2>1, <2>3, <2>6, <2>7, <2>8, <2>9, <2>10 DEF WorldInv
<1>8. CASE Leave(c)
  BY <1>b, <1>8 DEF Leave, levelVars, netVars
<1>9. CASE Close(c)
  BY <1>b, <1>9 DEF Close, CloseServerEnd, levelVars
<1> QED
  BY <1>1, <1>2, <1>3, <1>4, <1>5, <1>6, <1>7, <1>8, <1>9 DEF HandlerNext

LEMMA NextWorld == IdsInv /\ WorldInv /\ [Next]_vars => WorldInv'
<1> SUFFICES ASSUME IdsInv, WorldInv, [Next]_vars PROVE WorldInv'
    OBVIOUS
<1>1. CASE Server
  <2>1. CASE AcceptorNext
    BY <1>1, <2>1, AcceptorWorld DEF Server
  <2>2. ASSUME NEW c \in Clients, HandlerNext(c) PROVE WorldInv'
    BY <1>1, <2>2, HandlerWorld DEF Server
  <2>3. CASE SenderNext \/ SyncerNext
    <3>1. UNCHANGED <<handler, playerCount, owner, exited, clientIds, toServer, clientQueue>>
      BY <1>1, <2>3 DEF Server, clientVars, SenderNext, SendLock, SendOne, SyncerNext,
                        SyncLock, SyncPath, levelVars, netVars
    <3>2. mutex \in {Free, "sender", "syncer"}
      BY <2>3 DEF IdsInv, MutexInv, SenderNext, SendLock, SendOne, SyncerNext, SyncLock,
                  SyncPath
    <3>3. Creating = {}
      BY <3>2, NobodyCreates DEF IdsInv
    <3>4. \A d \in Clients : Requests(d)' = Requests(d)
      BY <3>1 DEF Requests
    <3> QED
      BY <3>1, <3>3, <3>4, RequestsMove
  <2> QED
    BY <1>1, <2>1, <2>2, <2>3 DEF Server, ServerNext
<1>2. ASSUME NEW c \in Clients, Client(c) PROVE WorldInv'
  BY <1>2, ClientWorld
<1>3. CASE UNCHANGED vars
  <2>1. UNCHANGED <<handler, playerCount, owner, exited, clientIds, toServer, clientQueue, mutex>>
    BY <1>3 DEF vars, netVars, serverVars, levelVars, clientVars
  <2>2. \A d \in Clients : Requests(d)' = Requests(d)
    BY <2>1 DEF Requests
  <2> QED
    BY <2>1, <2>2, RequestsMove
<1> QED
  BY <1>1, <1>2, <1>3 DEF Next

LEMMA InitWorld == Init => WorldInv
<1> SUFFICES ASSUME Init PROVE WorldInv
    OBVIOUS
<1> USE DEF Init, NetInit, ServerInit, ClientInit
<1>1. Creating = {} /\ Owned = {} /\ Given = {}
  BY DEF Creating, Owned, Given
<1>2. \A c \in Clients : Requests(c) = {}
  <2>1. ToSet(<<>>) = {}
    BY DEF ToSet
  <2> QED
    BY <2>1 DEF Requests
<1>3. (1..playerCount) \ { handler[c].packet.id : c \in Creating } = {}
  OBVIOUS
<1> QED
  BY <1>1, <1>2, <1>3 DEF WorldInv

\* The ids given and the players in the level agree but for the one a handler
\* of PLAYER_CREATE_REQUEST is adding (GameServer.cpp), and a request names a
\* player that is there, however handlers and the others interleave.
THEOREM WorldInvariant == Spec => []WorldInv
BY InitWorld, NextWorld, IdsInvariant, PTL DEF Spec

-----------------------------------------------------------------------------
(***************************************************************************)
(* The steps of the server as steps of GameLevel.                          *)
(***************************************************************************)

LEMMA HolderIs ==
    ASSUME WorldInv
    PROVE  /\ Holder = [k \in Ids |-> Holder[k]]
           /\ \A k \in Ids :
                /\ owner[k] = Nobody => Holder[k] = "none"
                /\ k \in exited => Holder[k] = "left"
                /\ owner[k] # Nobody /\ k \notin exited =>
                      Holder[k] = IF Gone(k) THEN "lost" ELSE "plays"
<1>1. \A k \in exited : owner[k] # Nobody
  BY DEF WorldInv, Owned
<1> QED
  BY <1>1 DEF Holder

LEMMA HolderIsAfter ==
    ASSUME WorldInv'
    PROVE  /\ Holder' = [k \in Ids |-> Holder'[k]]
           /\ \A k \in Ids :
                /\ owner'[k] = Nobody => Holder'[k] = "none"
                /\ k \in exited' => Holder'[k] = "left"
                /\ owner'[k] # Nobody /\ k \notin exited' =>
                      Holder'[k] = IF Gone(k)' THEN "lost" ELSE "plays"
<1>1. \A k \in exited' : owner'[k] # Nobody
  BY DEF WorldInv, Owned
<1> QED
  BY <1>1 DEF Holder

\* Nobody's place in the level changes when no owner's handler leaves.
LEMMA HolderStays ==
    ASSUME UNCHANGED <<owner, exited>>,
           \A c \in Clients : handler'[c].at \in {"close", "ended"}
                                <=> handler[c].at \in {"close", "ended"},
           owner \in [Ids -> Clients \cup {Nobody}]
    PROVE  Holder' = Holder
<1>1. \A k \in Ids : owner[k] # Nobody => (Gone(k)' <=> Gone(k))
  BY DEF Gone
<1>2. \A k \in Ids :
         (CASE owner'[k] = Nobody -> "none"
            [] k \in exited' -> "left"
            [] owner'[k] # Nobody /\ k \notin exited' /\ Gone(k)' -> "lost"
            [] OTHER -> "plays")
       = (CASE owner[k] = Nobody -> "none"
            [] k \in exited -> "left"
            [] owner[k] # Nobody /\ k \notin exited /\ Gone(k) -> "lost"
            [] OTHER -> "plays")
  <2> SUFFICES ASSUME NEW k \in Ids
               PROVE  (CASE owner[k] = Nobody -> "none"
                         [] k \in exited -> "left"
                         [] owner[k] # Nobody /\ k \notin exited /\ Gone(k)' -> "lost"
                         [] OTHER -> "plays")
                    = (CASE owner[k] = Nobody -> "none"
                         [] k \in exited -> "left"
                         [] owner[k] # Nobody /\ k \notin exited /\ Gone(k) -> "lost"
                         [] OTHER -> "plays")
    OBVIOUS
  <2> QED
    BY <1>1
<1> QED
  BY <1>2 DEF Holder

LEMMA PlayersCreatedIs ==
    ASSUME WorldInv, playerCount \in Nat
    PROVE  /\ Creating = {} => PlayersCreated = playerCount
           /\ \A c : Creating = {c} => PlayersCreated = playerCount - 1
<1>1. ASSUME Creating = {} PROVE PlayersCreated = playerCount
  <2>1. Cardinality(Creating) = 0
    BY <1>1, FS_EmptySet
  <2> QED
    BY <2>1 DEF PlayersCreated
<1>2. ASSUME NEW c, Creating = {c} PROVE PlayersCreated = playerCount - 1
  <2>1. Cardinality(Creating) = 1
    BY <1>2, FS_Singleton
  <2> QED
    BY <2>1 DEF PlayersCreated
<1> QED
  BY <1>1, <1>2

\* A step that leaves the level, and those in it, alone.
LEMMA LevelStutters ==
    ASSUME UNCHANGED <<players, allPlayersPath, isSeekerSet, owner, exited, serverUp>>,
           PlayersCreated' = PlayersCreated,
           \A c \in Clients : handler'[c].at \in {"close", "ended"}
                                <=> handler[c].at \in {"close", "ended"},
           owner \in [Ids -> Clients \cup {Nobody}]
    PROVE  UNCHANGED Level!vars
BY HolderStays DEF Level!vars

\* The same, for a step by which nobody begins or ends creating a player.
LEMMA SomeoneElse ==
    ASSUME Types, UNCHANGED <<levelVars, serverUp>>,
           \A c \in Clients :
              /\ handler'[c].at = "add" <=> handler[c].at = "add"
              /\ handler'[c].at \in {"close", "ended"} <=> handler[c].at \in {"close", "ended"}
    PROVE  UNCHANGED Level!vars
<1>1. Creating' = Creating
  BY DEF Creating
<1>2. PlayersCreated' = PlayersCreated
  BY <1>1 DEF PlayersCreated, levelVars
<1> QED
  BY <1>2, LevelStutters DEF levelVars, Types, ServerTypes

\* With the mutex free, the ids given are those of the players in the level.
LEMMA FreeMeans ==
    ASSUME IdsInv, WorldInv, mutex \notin Clients
    PROVE  /\ Creating = {} /\ PlayersCreated = playerCount
           /\ Owned = Level!Given /\ Owned = 1..playerCount
<1>1. Creating = {} /\ playerCount \in Nat
  BY NobodyCreates DEF IdsInv, Types, ServerTypes
<1>2. PlayersCreated = playerCount
  BY <1>1, PlayersCreatedIs
<1>3. { handler[c].packet.id : c \in Creating } = {}
  BY <1>1
<1>4. Owned = 1..playerCount
  BY <1>3 DEF WorldInv
<1> QED
  BY <1>1, <1>2, <1>4 DEF Level!Given

\* A handler that has done what a request asked for goes back to its recv.
LEMMA RequestDone ==
    ASSUME IdsInv, WorldInv, NEW c \in Clients, NEW type, Processes(c, type), HandlerAt(c, "recv"),
           mutex = Free, UNCHANGED <<playerCount, owner>>
    PROVE  /\ PlayersCreated' = PlayersCreated
           /\ NamesPlayer(handler[c].packet) /\ handler[c].packet.type = type
           /\ \A d \in Clients : handler'[d].at \in {"close", "ended"}
                                   <=> handler[d].at \in {"close", "ended"}
<1>0. handler \in [Clients -> [at : {"new", "recv", "process", "add", "close", "ended"},
                               packet : Packets]]
  BY DEF IdsInv, Types, ServerTypes
<1>1. /\ handler'[c].at = "recv" /\ handler[c].at = "process"
      /\ \A d \in Clients : d # c => handler'[d] = handler[d]
  BY <1>0 DEF HandlerAt, Processes
<1>2. Creating' = Creating
  BY <1>1 DEF Creating
<1>3. PlayersCreated' = PlayersCreated
  BY <1>2 DEF PlayersCreated
<1>4. handler[c].packet \in Requests(c)
  BY <1>1 DEF Requests
<1>5. NamesPlayer(handler[c].packet)
  BY <1>4 DEF WorldInv
<1> QED
  BY <1>1, <1>3, <1>5 DEF Processes

LEMMA KeyInputImplements ==
    ASSUME IdsInv, WorldInv, serverUp, NEW c \in Clients, NEW direction \in Level!Direction,
           KeyInput(c, direction)
    PROVE  [Level!Next]_(Level!vars)
<1> DEFINE k == handler[c].packet.id
<1>1. /\ Processes(c, "KEY") /\ HandlerAt(c, "recv") /\ mutex = Free
      /\ UNCHANGED <<allPlayersPath, isSeekerSet, playerCount, owner, exited, serverUp>>
  BY DEF KeyInput
<1>2. /\ PlayersCreated' = PlayersCreated
      /\ NamesPlayer(handler[c].packet) /\ handler[c].packet.type = "KEY"
      /\ \A d \in Clients : handler'[d].at \in {"close", "ended"}
                              <=> handler[d].at \in {"close", "ended"}
  BY <1>1, RequestDone
<1>3. k \in Level!Given /\ k \in Ids
  <2>1. k \in Owned
    BY <1>2 DEF NamesPlayer
  <2> QED
    BY <1>1, <2>1, FreeMeans DEF Owned
<1>4. owner \in [Ids -> Clients \cup {Nobody}]
  BY DEF IdsInv, Types, ServerTypes
<1>5. Holder' = Holder
  BY <1>1, <1>2, <1>4, HolderStays
<1>6. CASE k <= Len(players)
  <2>1. /\ Level!Moved(players[k].position, direction) \in Level!Position
        /\ players' = [players EXCEPT ![k].position = Level!Moved(@, direction)]
    BY <1>6 DEF KeyInput
  <2>2. Level!KeyInput(k, direction)
    BY <1>1, <1>2, <1>3, <1>5, <1>6, <2>1 DEF Level!KeyInput
  <2> QED
    BY <1>3, <2>2 DEF Level!Next, Ids, Level!Ids
<1>7. CASE ~ (k <= Len(players))
  <2>1. players' = players
    BY <1>7 DEF KeyInput
  <2> QED
    BY <1>1, <1>2, <1>5, <2>1 DEF Level!vars
<1> QED
  BY <1>6, <1>7

LEMMA MouseInputImplements ==
    ASSUME IdsInv, WorldInv, serverUp, NEW c \in Clients, NEW end \in Clicks, MouseInput(c, end)
    PROVE  [Level!Next]_(Level!vars)
<1> DEFINE k == handler[c].packet.id
<1>1. /\ Processes(c, "MOUSE") /\ HandlerAt(c, "recv") /\ mutex = Free
      /\ UNCHANGED <<players, isSeekerSet, playerCount, owner, exited>>
  BY DEF MouseInput
<1>2. /\ PlayersCreated' = PlayersCreated
      /\ NamesPlayer(handler[c].packet) /\ handler[c].packet.type = "MOUSE"
      /\ \A d \in Clients : handler'[d].at \in {"close", "ended"}
                              <=> handler[d].at \in {"close", "ended"}
  BY <1>1, RequestDone
<1>3. k \in Level!Given /\ k \in Ids
  <2>1. k \in Owned
    BY <1>2 DEF NamesPlayer
  <2> QED
    BY <1>1, <2>1, FreeMeans DEF Owned
<1>4. owner \in [Ids -> Clients \cup {Nobody}]
  BY DEF IdsInv, Types, ServerTypes
<1>5. Holder' = Holder
  BY <1>1, <1>2, <1>4, HolderStays
<1>6. Level!MouseInput(k, end)
  <2>1. CASE k <= Len(players)
    <3>1. /\ \E route \in FindPathAnswers(players[k].position, end) :
                allPlayersPath' = [allPlayersPath EXCEPT ![k] = route]
          /\ serverUp' = serverUp
      BY <2>1 DEF MouseInput
    <3> QED
      BY <1>1, <1>2, <1>3, <1>5, <2>1, <3>1 DEF Level!MouseInput
  <2>2. CASE ~ (k <= Len(players))
    <3>1. serverUp' = FALSE /\ allPlayersPath' = allPlayersPath
      BY <2>2 DEF MouseInput
    <3> QED
      BY <1>1, <1>2, <1>3, <1>5, <2>2, <3>1 DEF Level!MouseInput, Level!Crash
  <2> QED
    BY <2>1, <2>2
<1> QED
  BY <1>3, <1>6 DEF Level!Next, Ids, Level!Ids

LEMMA ExitRequestImplements ==
    ASSUME IdsInv, WorldInv, WorldInv', serverUp, NEW c \in Clients, ExitRequest(c)
    PROVE  [Level!Next]_(Level!vars)
<1> DEFINE k == handler[c].packet.id
<1>1. /\ Processes(c, "EXIT") /\ HandlerAt(c, "recv") /\ mutex = Free
      /\ exited' = exited \cup ({k} \ {0})
      /\ UNCHANGED <<allPlayersPath, isSeekerSet, playerCount, owner>>
  BY DEF ExitRequest
<1>2. /\ PlayersCreated' = PlayersCreated
      /\ NamesPlayer(handler[c].packet)
      /\ \A d \in Clients : handler'[d].at \in {"close", "ended"}
                              <=> handler[d].at \in {"close", "ended"}
  BY <1>1, RequestDone
<1>3. owner \in [Ids -> Clients \cup {Nobody}] /\ k \in 0..MaxPlayers
  BY DEF IdsInv, Types, ServerTypes, Packets
<1>4. CASE k = 0
  <2>1. players' = players /\ serverUp' = FALSE /\ exited' = exited
    BY <1>1, <1>4 DEF ExitRequest
  <2>2. Holder' = Holder
    BY <1>1, <1>2, <1>3, <2>1, HolderStays
  <2>3. Level!ExitRequestWithoutId
    BY <1>1, <1>2, <2>1, <2>2 DEF Level!ExitRequestWithoutId, Level!Crash
  <2> QED
    BY <2>3 DEF Level!Next
<1>5. CASE k # 0
  <2>1. k \in Owned /\ k \in Ids
    BY <1>2, <1>5 DEF NamesPlayer, Owned
  <2>2. k \in Level!Given
    BY <1>1, <2>1, FreeMeans
  <2>3. exited' = exited \cup {k}
    BY <1>1, <1>5
  <2>4. Holder' = [Holder EXCEPT ![k] = "left"]
    <3>1. \A j \in Ids : Holder'[j] = IF j = k THEN "left" ELSE Holder[j]
      <4> TAKE j \in Ids
      <4>1. owner[j] # Nobody => (Gone(j)' <=> Gone(j))
        BY <1>1, <1>2, <1>3 DEF Gone
      <4>2. (j \in exited') <=> (j \in exited \/ j = k)
        BY <2>3
      <4>3. k \notin exited => owner[k] # Nobody
        BY <2>1 DEF Owned
      <4>4. /\ owner[j] = Nobody => Holder[j] = "none"
            /\ j \in exited => Holder[j] = "left"
            /\ owner[j] # Nobody /\ j \notin exited =>
                  Holder[j] = IF Gone(j) THEN "lost" ELSE "plays"
        BY HolderIs
      <4>5. /\ owner[j] = Nobody => Holder'[j] = "none"
            /\ j \in exited' => Holder'[j] = "left"
            /\ owner[j] # Nobody /\ j \notin exited' =>
                  Holder'[j] = IF Gone(j)' THEN "lost" ELSE "plays"
        BY <1>1, HolderIsAfter
      <4> QED
        BY <4>1, <4>2, <4>3, <4>4, <4>5
    <3>2. Holder' = [j \in Ids |-> Holder'[j]] /\ Holder = [j \in Ids |-> Holder[j]]
      BY HolderIs, HolderIsAfter
    <3> QED
      BY <3>1, <3>2
  <2>5. Level!ExitRequest(k)
    <3>1. CASE k <= Len(players)
      <4>1. players' = Level!Removed(k) /\ serverUp' \in BOOLEAN
        BY <1>3, <1>5, <3>1 DEF ExitRequest
      <4> QED
        BY <1>1, <1>2, <2>2, <2>4, <3>1, <4>1 DEF Level!ExitRequest
    <3>2. CASE ~ (k <= Len(players))
      <4>1. players' = players /\ serverUp' = FALSE
        BY <1>3, <1>5, <3>2 DEF ExitRequest
      <4> QED
        BY <1>1, <1>2, <2>2, <2>4, <3>2, <4>1 DEF Level!ExitRequest, Level!Crash
    <3> QED
      BY <3>1, <3>2
  <2> QED
    BY <2>1, <2>5 DEF Level!Next, Ids, Level!Ids
<1> QED
  BY <1>4, <1>5

LEMMA CreateAddImplements ==
    ASSUME IdsInv, WorldInv, WorldInv', serverUp, NEW c \in Clients,
           NEW position \in EmptyCells, CreateAdd(c, position)
    PROVE  [Level!Next]_(Level!vars)
<1> DEFINE id == handler[c].packet.id
<1>0. /\ playerCount \in Nat /\ playerCount <= MaxPlayers
      /\ owner \in [Ids -> Clients \cup {Nobody}]
      /\ handler \in [Clients -> [at : {"new", "recv", "process", "add", "close", "ended"},
                                  packet : Packets]]
  BY DEF IdsInv, Types, ServerTypes
<1>1. /\ handler[c].at = "add" /\ HandlerAt(c, "recv")
      /\ players' = Append(players, Level!NewPlayer(id, position))
      /\ isSeekerSet' = TRUE
      /\ owner' = [owner EXCEPT ![id] = c]
      /\ UNCHANGED <<allPlayersPath, playerCount, exited, serverUp>>
  BY DEF CreateAdd
<1>2. Creating = {c} /\ id = playerCount
  BY <1>1 DEF WorldInv, Creating
<1>3. id \in 1..playerCount /\ id \in Ids /\ owner[id] = Nobody /\ id \notin exited
  <2>1. id \in 1..playerCount /\ id \in Ids
    BY <1>0, <1>1 DEF IdsInv, MutexInv, Ids
  <2>2. id \notin Owned
    BY <1>2 DEF WorldInv
  <2> QED
    BY <2>1, <2>2 DEF WorldInv, Owned
<1>4. /\ handler'[c].at = "recv"
      /\ \A d \in Clients : d # c => handler'[d] = handler[d]
  BY <1>0, <1>1 DEF HandlerAt
<1>5. Creating' = {}
  BY <1>2, <1>4 DEF Creating
<1>6. PlayersCreated = playerCount - 1 /\ PlayersCreated' = playerCount
  <2>1. Cardinality(Creating') = 0
    BY <1>5, FS_EmptySet
  <2>2. PlayersCreated' = playerCount
    BY <1>0, <1>1, <2>1 DEF PlayersCreated
  <2> QED
    BY <1>0, <1>2, <2>2, PlayersCreatedIs
<1>7. Holder' = [Holder EXCEPT ![id] = "plays"]
  <2>1. \A j \in Ids : Holder'[j] = IF j = id THEN "plays" ELSE Holder[j]
    <3> TAKE j \in Ids
    <3>1. /\ owner[j] = Nobody => Holder[j] = "none"
          /\ j \in exited => Holder[j] = "left"
          /\ owner[j] # Nobody /\ j \notin exited =>
                Holder[j] = IF Gone(j) THEN "lost" ELSE "plays"
      BY HolderIs
    <3>2. /\ owner'[j] = Nobody => Holder'[j] = "none"
          /\ j \in exited' => Holder'[j] = "left"
          /\ owner'[j] # Nobody /\ j \notin exited' =>
                Holder'[j] = IF Gone(j)' THEN "lost" ELSE "plays"
      BY HolderIsAfter
    <3>3. CASE j = id
      <4>1. owner'[j] = c /\ c # Nobody /\ ~ Gone(j)'
        BY <1>0, <1>1, <1>3, <1>4, <3>3 DEF Gone
      <4> QED
        BY <1>1, <1>3, <3>2, <3>3, <4>1
    <3>4. CASE j # id
      <4>1. owner'[j] = owner[j] /\ (owner[j] # Nobody => (Gone(j)' <=> Gone(j)))
        BY <1>0, <1>1, <1>3, <1>4, <3>4 DEF Gone
      <4> QED
        BY <1>1, <3>1, <3>2, <3>4, <4>1
    <3> QED
      BY <3>3, <3>4
  <2>2. Holder' = [j \in Ids |-> Holder'[j]] /\ Holder = [j \in Ids |-> Holder[j]]
    BY HolderIs, HolderIsAfter
  <2> HIDE DEF id
  <2> QED
    BY <2>1, <2>2
<1>8. Level!CreatePlayer(position)
  <2>1. PlayersCreated + 1 = id /\ PlayersCreated' = PlayersCreated + 1
        /\ PlayersCreated < MaxPlayers
    BY <1>0, <1>2, <1>6
  <2> HIDE DEF id
  <2> QED
    BY <1>1, <1>7, <2>1 DEF Level!CreatePlayer
<1> QED
  BY <1>8 DEF Level!Next

\* The end of a connection loses the players that were created for it and did
\* not leave, if there are any.
LEMMA LeaveImplements ==
    ASSUME IdsInv, WorldInv, WorldInv', serverUp, NEW c \in Clients, Leave(c)
    PROVE  [Level!Next]_(Level!vars)
<1> DEFINE lost == { k \in Ids : owner[k] = c /\ k \notin exited }
<1>0. /\ owner \in [Ids -> Clients \cup {Nobody}]
      /\ handler \in [Clients -> [at : {"new", "recv", "process", "add", "close", "ended"},
                                  packet : Packets]]
  BY DEF IdsInv, Types, ServerTypes
<1>1. /\ handler[c].at = "recv" /\ HandlerAt(c, "close") /\ mutex = Free
      /\ UNCHANGED <<players, allPlayersPath, isSeekerSet, playerCount, owner, exited, serverUp>>
  BY DEF Leave, levelVars
<1>2. /\ handler'[c].at = "close"
      /\ \A d \in Clients : d # c => handler'[d] = handler[d]
  BY <1>0, <1>1 DEF HandlerAt
<1>3. PlayersCreated' = PlayersCreated
  <2>1. Creating' = Creating
    BY <1>1, <1>2 DEF Creating
  <2> QED
    BY <1>1, <2>1 DEF PlayersCreated
<1>4. \A k \in lost : k \in Level!Given /\ Holder[k] = "plays"
  <2> TAKE k \in lost
  <2>1. owner[k] = c /\ k \in Ids /\ k \notin exited /\ c # Nobody
    OBVIOUS
  <2>2. k \in Owned
    BY <2>1 DEF Owned
  <2>3. ~ Gone(k)
    BY <1>1, <2>1 DEF Gone
  <2> QED
    BY <1>1, <2>1, <2>2, <2>3, FreeMeans, HolderIs
<1>5. \A k \in Ids : Holder'[k] = IF k \in lost THEN "lost" ELSE Holder[k]
  <2> TAKE k \in Ids
  <2>1. /\ owner[k] = Nobody => Holder[k] = "none"
        /\ k \in exited => Holder[k] = "left"
        /\ owner[k] # Nobody /\ k \notin exited =>
              Holder[k] = IF Gone(k) THEN "lost" ELSE "plays"
    BY HolderIs
  <2>2. /\ owner[k] = Nobody => Holder'[k] = "none"
        /\ k \in exited => Holder'[k] = "left"
        /\ owner[k] # Nobody /\ k \notin exited =>
              Holder'[k] = IF Gone(k)' THEN "lost" ELSE "plays"
    BY <1>1, HolderIsAfter
  <2>3. owner[k] = c => Gone(k)' /\ owner[k] # Nobody
    BY <1>1, <1>2 DEF Gone
  <2>4. owner[k] # c /\ owner[k] # Nobody => (Gone(k)' <=> Gone(k))
    BY <1>0, <1>1, <1>2 DEF Gone
  <2> QED
    BY <2>1, <2>2, <2>3, <2>4
<1>6. Holder = [k \in Ids |-> Holder[k]] /\ Holder' = [k \in Ids |-> Holder'[k]]
  BY HolderIs, HolderIsAfter
<1>7. CASE lost = {}
  <2>1. Holder' = Holder
    BY <1>5, <1>6, <1>7
  <2> QED
    BY <1>1, <1>3, <2>1 DEF Level!vars
<1>8. CASE lost # {}
  <2>1. Holder' = [k \in Ids |-> IF k \in lost THEN "lost" ELSE Holder[k]]
    BY <1>5, <1>6
  <2>2. lost \in SUBSET Ids
    OBVIOUS
  <2> HIDE DEF lost
  <2>3. Level!ConnectionLost(lost)
    BY <1>1, <1>3, <1>4, <1>8, <2>1 DEF Level!ConnectionLost, Ids, Level!Ids
  <2> QED
    BY <2>2, <2>3 DEF Level!Next, Ids, Level!Ids
<1> QED
  BY <1>7, <1>8

LEMMA SyncLockImplements ==
    ASSUME IdsInv, WorldInv, serverUp, SyncLock
    PROVE  [Level!Next]_(Level!vars)
<1>1. /\ Given # {} /\ mutex = Free
      /\ players' = Level!Tagged(Level!Stepped)
      /\ allPlayersPath' = Level!PathsAfterStep
      /\ UNCHANGED <<isSeekerSet, playerCount, owner, exited, serverUp, handler>>
  BY DEF SyncLock
<1>2. PlayersCreated' = PlayersCreated
  BY <1>1 DEF PlayersCreated, Creating
<1>3. Holder' = Holder
  BY <1>1, HolderStays DEF IdsInv, Types, ServerTypes
<1>4. PlayersCreated > 0
  <2>1. PlayersCreated = playerCount /\ Owned = 1..playerCount /\ playerCount \in Nat
    BY <1>1, FreeMeans DEF IdsInv, Types, ServerTypes
  <2>2. Owned # {}
    BY <1>1 DEF WorldInv
  <2> QED
    BY <2>1, <2>2
<1>5. Level!Synchronize
  BY <1>1, <1>2, <1>3, <1>4 DEF Level!Synchronize, Level!LevelExists
<1> QED
  BY <1>5 DEF Level!Next

\* The id that is given has no player yet.
LEMMA CreateRespondImplements ==
    ASSUME IdsInv, WorldInv, WorldInv', NEW c \in Clients, CreateRespond(c)
    PROVE  UNCHANGED Level!vars
<1>0. /\ playerCount \in Nat /\ playerCount' = playerCount + 1
      /\ owner \in [Ids -> Clients \cup {Nobody}]
      /\ handler \in [Clients -> [at : {"new", "recv", "process", "add", "close", "ended"},
                                  packet : Packets]]
  BY DEF IdsInv, Types, ServerTypes, CreateRespond, NextId
<1>1. /\ Processes(c, "CREATE") /\ mutex = Free
      /\ handler' = [handler EXCEPT ![c] = [at |-> "add", packet |-> Packet("CREATE", NextId)]]
      /\ UNCHANGED <<players, allPlayersPath, isSeekerSet, owner, exited, serverUp>>
  BY DEF CreateRespond
<1>2. /\ handler[c].at = "process" /\ handler'[c].at = "add"
      /\ \A d \in Clients : d # c => handler'[d] = handler[d]
  BY <1>0, <1>1 DEF Processes
<1>3. Creating = {} /\ PlayersCreated = playerCount
  BY <1>1, FreeMeans
<1>4. Creating' = {c}
  BY <1>2, <1>3 DEF Creating
<1>5. Cardinality(Creating') = 1
  BY <1>4, FS_Singleton
<1>6. PlayersCreated' = PlayersCreated
  BY <1>0, <1>3, <1>5 DEF PlayersCreated
<1>7. \A d \in Clients : handler'[d].at \in {"close", "ended"}
                           <=> handler[d].at \in {"close", "ended"}
  BY <1>2
<1> QED
  BY <1>0, <1>1, <1>6, <1>7, LevelStutters

LEMMA AcceptorImplements ==
    ASSUME IdsInv, AcceptorNext
    PROVE  UNCHANGED Level!vars
<1>0. handler \in [Clients -> [at : {"new", "recv", "process", "add", "close", "ended"},
                               packet : Packets]]
  BY DEF IdsInv, Types, ServerTypes
<1>1. UNCHANGED <<levelVars, serverUp>>
  BY DEF AcceptorNext, Accept, AcceptFails, Refuse, Admit, Register
<1>2. CASE Admit
  <2>1. handler' = [handler EXCEPT ![acceptor.client].at = "recv"]
        /\ acceptor.client \in Clients /\ handler[acceptor.client].at = "new"
    BY <1>2 DEF Admit, IdsInv, SocketInv
  <2>2. \A d \in Clients :
           /\ handler'[d].at = "add" <=> handler[d].at = "add"
           /\ handler'[d].at \in {"close", "ended"} <=> handler[d].at \in {"close", "ended"}
    BY <1>0, <2>1
  <2> QED
    BY <1>1, <2>2, SomeoneElse DEF IdsInv
<1>3. CASE ~ Admit
  <2>1. handler' = handler
    BY <1>3 DEF AcceptorNext, Accept, AcceptFails, Refuse, Register
  <2> QED
    BY <1>1, <2>1, SomeoneElse DEF IdsInv
<1> QED
  BY <1>2, <1>3

LEMMA HandlerImplements ==
    ASSUME IdsInv, WorldInv, WorldInv', serverUp, NEW c \in Clients, HandlerNext(c)
    PROVE  [Level!Next]_(Level!vars)
<1>0. handler \in [Clients -> [at : {"new", "recv", "process", "add", "close", "ended"},
                               packet : Packets]]
  BY DEF IdsInv, Types, ServerTypes
<1>1. CASE Receive(c) \/ EnterRequest(c) \/ Close(c)
  <2>1. UNCHANGED <<levelVars, serverUp>>
    BY <1>1 DEF Receive, EnterRequest, Close
  <2>2. /\ \A d \in Clients : d # c => handler'[d] = handler[d]
        /\ \/ handler[c].at \in {"recv", "process"} /\ handler'[c].at \in {"recv", "process"}
           \/ handler[c].at = "close" /\ handler'[c].at = "ended"
    <3>1. CASE Receive(c)
      BY <1>0, <3>1 DEF Receive
    <3>2. CASE EnterRequest(c)
      BY <1>0, <3>2 DEF EnterRequest, HandlerAt, Processes
    <3>3. CASE Close(c)
      BY <1>0, <3>3 DEF Close, HandlerAt
    <3> QED
      BY <1>1, <3>1, <3>2, <3>3
  <2>3. \A d \in Clients :
           /\ handler'[d].at = "add" <=> handler[d].at = "add"
           /\ handler'[d].at \in {"close", "ended"} <=> handler[d].at \in {"close", "ended"}
    BY <2>2
  <2>4. UNCHANGED Level!vars
    BY <2>1, <2>3, SomeoneElse DEF IdsInv
  <2> QED
    BY <2>4
<1>2. CASE CreateRespond(c)
  <2>1. UNCHANGED Level!vars
    BY <1>2, CreateRespondImplements
  <2> QED
    BY <2>1
<1>3. ASSUME NEW position \in EmptyCells, CreateAdd(c, position)
      PROVE  [Level!Next]_(Level!vars)
  BY <1>3, CreateAddImplements
<1>4. ASSUME NEW direction \in Level!Direction, KeyInput(c, direction)
      PROVE  [Level!Next]_(Level!vars)
  BY <1>4, KeyInputImplements
<1>5. ASSUME NEW end \in Clicks, MouseInput(c, end) PROVE [Level!Next]_(Level!vars)
  BY <1>5, MouseInputImplements
<1>6. CASE ExitRequest(c)
  BY <1>6, ExitRequestImplements
<1>7. CASE Leave(c)
  BY <1>7, LeaveImplements
<1> QED
  BY <1>1, <1>2, <1>3, <1>4, <1>5, <1>6, <1>7 DEF HandlerNext

LEMMA NextImplements ==
    IdsInv /\ WorldInv /\ WorldInv' /\ [Next]_vars => [Level!Next]_(Level!vars)
<1> SUFFICES ASSUME IdsInv, WorldInv, WorldInv', [Next]_vars
             PROVE  [Level!Next]_(Level!vars)
    OBVIOUS
<1>1. ASSUME UNCHANGED <<levelVars, serverUp, handler>> PROVE UNCHANGED Level!vars
  BY <1>1, SomeoneElse DEF IdsInv
<1>2. CASE Server
  <2>1. CASE AcceptorNext
    BY <2>1, AcceptorImplements
  <2>2. ASSUME NEW c \in Clients, HandlerNext(c) PROVE [Level!Next]_(Level!vars)
    BY <1>2, <2>2, HandlerImplements DEF Server, ServerNext
  <2>3. CASE SyncLock
    BY <1>2, <2>3, SyncLockImplements DEF Server, ServerNext
  <2>4. CASE SenderNext \/ \E k \in Ids : SyncPath(k)
    BY <1>1, <2>4 DEF SenderNext, SendLock, SendOne, SyncPath
  <2> QED
    BY <1>2, <2>1, <2>2, <2>3, <2>4 DEF Server, ServerNext, SyncerNext
<1>3. ASSUME NEW c \in Clients, Client(c) PROVE [Level!Next]_(Level!vars)
  BY <1>1, <1>3 DEF Client, serverVars
<1>4. CASE UNCHANGED vars
  BY <1>1, <1>4 DEF vars, serverVars
<1> QED
  BY <1>2, <1>3, <1>4 DEF Next

LEMMA InitImplements == Init => Level!Init
<1> SUFFICES ASSUME Init PROVE Level!Init
    OBVIOUS
<1> USE DEF Init, NetInit, ServerInit, ClientInit
<1>1. PlayersCreated = 0
  <2>1. Creating = {}
    BY DEF Creating
  <2>2. Cardinality(Creating) = 0
    BY <2>1, FS_EmptySet
  <2> QED
    BY <2>2 DEF PlayersCreated
<1>2. Holder = [k \in Ids |-> "none"]
  BY DEF Holder
<1> QED
  BY <1>1, <1>2 DEF Level!Init, Ids, Level!Ids

\* The threads of the server, with the mutex as they take it, do to the world
\* only what GameLevel lets the requests do one at a time (GameServer.cpp).
THEOREM ImplementsLevelAlways == Spec => ImplementsLevel
<1>1. Init => Level!Init
  BY InitImplements
<1>2. IdsInv /\ WorldInv /\ WorldInv' /\ [Next]_vars => [Level!Next]_(Level!vars)
  BY NextImplements
<1> QED
  BY <1>1, <1>2, IdsInvariant, WorldInvariant, PTL DEF Spec, ImplementsLevel, Level!Spec

-----------------------------------------------------------------------------
(***************************************************************************)
(* Whom the packets about one player are meant for.                        *)
(***************************************************************************)

\* The types of packets that go to one client and name a player.
Personal == {"CREATE_RESPOND", "PATH"}

\* The client the id k was given to: its player is in the level, or its
\* handler is about to put it there.
GivenTo(k, o) ==
    \/ k \in Ids /\ owner[k] = o
    \/ handler[o].at = "add" /\ handler[o].packet.id = k

\* The handle s stands for the connection of the client of k, or that client
\* is gone.
Meant(k, s) ==
    \E o \in Clients : GivenTo(k, o) /\ (socket[o] = s \/ clientEnd[o] = "down")

\* The ids that packets on their way to c, or its playerId, tell it of.
About(c) ==
    { p.id : p \in { q \in ToSet(toClient[c]) : q.type \in Personal } }
    \cup ({playerId[c]} \ {0})

\* A handler gives up only when its client is gone, and owns nothing before
\* it starts.
EndsInv ==
    /\ clientEnd \in [Clients -> {"new", "up", "down"}]
    /\ \A c \in Clients :
          /\ handler[c].at \in {"close", "ended"} => clientEnd[c] = "down"
          /\ handler[c].at = "new" => \A k \in Ids : owner[k] # c

KeptInv ==
    /\ syncer \subseteq Given
    /\ \A k \in Given : Meant(k, clientIds[k])

\* A task for one client: its path goes out when the player is there.
MeantTask(task) ==
    task.packet.type \in Personal =>
        /\ task.to \in Sockets
        /\ Meant(task.packet.id, task.to)
        /\ task.packet.type = "PATH" => task.packet.id \in Owned

QueuedInv == \A task \in ToSet(sendQueue) : MeantTask(task)

SentInv ==
    sender.to # <<>> /\ sender.packet.type \in Personal =>
        \E k \in Owned, s \in Sockets :
            sender.packet.id = k /\ sender.to = <<s>> /\ Meant(k, s)

AboutInv ==
    \A c \in Clients : \A k \in About(c) :
        k \in Owned /\ (owner[k] = c \/ clientEnd[owner[k]] = "down")

MeantInv == EndsInv /\ KeptInv /\ QueuedInv /\ SentInv /\ AboutInv

LEMMA InitMeant == Init => MeantInv
<1> SUFFICES ASSUME Init PROVE MeantInv
    OBVIOUS
<1> USE DEF Init, NetInit, ServerInit, ClientInit
<1>1. EndsInv
  BY DEF EndsInv
<1>2. KeptInv
  BY DEF KeptInv, Given
<1>3. QueuedInv /\ SentInv
  BY DEF QueuedInv, SentInv, NoTask, ToSet
<1>4. AboutInv
  <2>1. \A c \in Clients : About(c) = {}
    <3>1. \A c \in Clients : toClient[c] = <<>> /\ playerId[c] = 0
      OBVIOUS
    <3>2. ToSet(<<>>) = {}
      BY DEF ToSet
    <3> QED
      BY ONLY <3>1, <3>2 DEF About
  <2> QED
    BY <2>1 DEF AboutInv
<1> QED
  BY <1>1, <1>2, <1>3, <1>4 DEF MeantInv

\* What no step undoes: the end of a client, and who was given an id.  A
\* connection loses its handle before its handler starts, or when its client
\* is gone.
Lasts ==
    \A o \in Clients :
        /\ clientEnd[o] = "down" => clientEnd'[o] = "down"
        /\ \A k : GivenTo(k, o) => GivenTo(k, o)'
        /\ \A k \in Ids : owner[k] = o => owner'[k] = o
        /\ handler[o].at # "new" => socket'[o] = socket[o] \/ clientEnd'[o] = "down"

LEMMA MeantStays ==
    ASSUME EndsInv, Lasts, NEW k, NEW s, Meant(k, s)
    PROVE  Meant(k, s)'
<1>1. PICK o \in Clients : GivenTo(k, o) /\ (socket[o] = s \/ clientEnd[o] = "down")
  BY DEF Meant
<1>2. handler[o].at # "new"
  BY <1>1 DEF GivenTo, EndsInv
<1>3. GivenTo(k, o)' /\ (socket'[o] = s \/ clientEnd'[o] = "down")
  BY <1>1, <1>2 DEF Lasts
<1> QED
  BY <1>3 DEF Meant

\* A step that no handler takes.
LEMMA HandlersWait ==
    ASSUME EndsInv, UNCHANGED <<handler, owner>>,
           clientEnd' \in [Clients -> {"new", "up", "down"}],
           \A o \in Clients :
              /\ clientEnd[o] = "down" => clientEnd'[o] = "down"
              /\ handler[o].at # "new" => socket'[o] = socket[o]
    PROVE  EndsInv' /\ Lasts
<1>1. EndsInv'
  BY DEF EndsInv
<1>2. \A o \in Clients : \A k : GivenTo(k, o)' <=> GivenTo(k, o)
  BY DEF GivenTo
<1> QED
  BY <1>1, <1>2 DEF Lasts

\* A handler that gives nobody an id.
LEMMA HandlerEnds ==
    ASSUME Types, EndsInv, NEW c \in Clients, UNCHANGED <<clientEnd, owner>>,
           \A d \in Clients : d # c => handler'[d] = handler[d] /\ socket'[d] = socket[d],
           handler[c].at # "add",
           socket'[c] = socket[c] \/ clientEnd[c] = "down",
           handler'[c].at # "new",
           handler'[c].at \in {"close", "ended"} => clientEnd[c] = "down"
    PROVE  EndsInv' /\ Lasts
<1>1. EndsInv'
  BY DEF EndsInv
<1>2. \A o \in Clients : \A k : GivenTo(k, o) => GivenTo(k, o)'
  BY DEF GivenTo
<1> QED
  BY <1>1, <1>2 DEF Lasts

LEMMA NextEnds ==
    ASSUME IdsInv, WorldInv, EndsInv, [Next]_vars
    PROVE  EndsInv' /\ Lasts
<1> USE DEF AcceptorAt, levelVars, clientVars, netVars
<1>0. /\ handler \in [Clients -> [at : {"new", "recv", "process", "add", "close", "ended"},
                                  packet : Packets]]
      /\ socket \in [Clients -> Sockets \cup {NoSocket}]
      /\ owner \in [Ids -> Clients \cup {Nobody}]
      /\ clientEnd \in [Clients -> {"new", "up", "down"}]
  BY DEF IdsInv, Types, NetTypes, ServerTypes, EndsInv
<1>1. CASE AcceptorNext /\ UNCHANGED clientVars
  <2>1. clientEnd' = clientEnd /\ owner' = owner
    BY <1>1 DEF AcceptorNext, Accept, AcceptFails, Refuse, Admit, Register
  <2>2. ASSUME NEW c \in Clients, NEW s \in Sockets, Accept(c, s) PROVE EndsInv' /\ Lasts
    BY <1>0, <2>1, <2>2, HandlersWait DEF Accept, Backlog, IdsInv, SocketInv
  <2>3. ASSUME NEW c \in Clients, AcceptFails(c) PROVE EndsInv' /\ Lasts
    BY <1>0, <2>1, <2>3, HandlersWait DEF AcceptFails, Backlog, CloseServerEnd, IdsInv, SocketInv
  <2>4. CASE Refuse
    BY <1>0, <2>1, <2>4, HandlersWait DEF Refuse, CloseServerEnd, IdsInv, SocketInv
  <2>5. CASE Admit
    <3>1. /\ handler' = [handler EXCEPT ![acceptor.client].at = "recv"] /\ socket' = socket
          /\ acceptor.client \in Clients /\ handler[acceptor.client].at = "new"
      BY <2>5 DEF Admit, IdsInv, SocketInv
    <3>2. /\ handler'[acceptor.client].at = "recv"
          /\ \A d \in Clients : d # acceptor.client => handler'[d] = handler[d]
      BY <1>0, <3>1
    <3> QED
      BY <2>1, <3>1, <3>2, HandlerEnds DEF IdsInv
  <2>6. CASE Register
    BY <1>0, <2>1, <2>6, HandlersWait DEF Register
  <2> QED
    BY <1>1, <2>2, <2>3, <2>4, <2>5, <2>6 DEF AcceptorNext
<1>2. ASSUME NEW c \in Clients, HandlerNext(c) PROVE EndsInv' /\ Lasts
  <2>1. ASSUME NEW position, CreateAdd(c, position) PROVE EndsInv' /\ Lasts
    <3> DEFINE id == handler[c].packet.id
    <3>1. /\ handler[c].at = "add" /\ HandlerAt(c, "recv")
          /\ owner' = [owner EXCEPT ![id] = c]
          /\ UNCHANGED <<clientEnd, socket>>
      BY <2>1 DEF CreateAdd
    <3>2. id \in 1..playerCount /\ playerCount \in Nat /\ playerCount <= MaxPlayers
      BY <3>1 DEF IdsInv, MutexInv, Types, ServerTypes
    <3>3. id \in Ids /\ id \notin Owned
      BY <3>1, <3>2 DEF WorldInv, Creating, Ids
    <3>4. /\ owner[id] = Nobody /\ owner'[id] = c
          /\ \A k \in Ids : k # id => owner'[k] = owner[k]
      BY <1>0, <3>1, <3>3 DEF Owned
    <3>5. /\ handler'[c].at = "recv"
          /\ \A d \in Clients : d # c => handler'[d] = handler[d]
      BY <1>0, <3>1 DEF HandlerAt
    <3>6. EndsInv'
      BY <3>1, <3>4, <3>5 DEF EndsInv
    <3>7. \A o \in Clients : \A k : GivenTo(k, o) => GivenTo(k, o)'
      BY <3>3, <3>4, <3>5 DEF GivenTo
    <3> QED
      BY <3>1, <3>4, <3>6, <3>7 DEF Lasts
  <2>2. ASSUME NEW at \in {"recv", "close", "ended"}, HandlerAt(c, at), handler[c].at # "add",
               at # "recv" => clientEnd[c] = "down",
               UNCHANGED <<clientEnd, owner>>,
               \/ socket' = socket
               \/ CloseServerEnd(c) /\ clientEnd[c] = "down"
        PROVE  EndsInv' /\ Lasts
    <3>1. /\ handler'[c].at = at
          /\ \A d \in Clients : d # c => handler'[d] = handler[d] /\ socket'[d] = socket[d]
          /\ socket'[c] = socket[c] \/ clientEnd[c] = "down"
      BY <1>0, <2>2 DEF HandlerAt, CloseServerEnd
    <3> QED
      BY <2>2, <3>1, HandlerEnds DEF IdsInv
  <2>3. CASE Receive(c)
    <3>1. /\ handler'[c].at = "process" /\ handler[c].at = "recv"
          /\ \A d \in Clients : d # c => handler'[d] = handler[d]
          /\ UNCHANGED <<clientEnd, socket, owner>>
      BY <1>0, <2>3 DEF Receive
    <3> QED
      BY <3>1, HandlerEnds DEF IdsInv
  <2>4. CASE CreateRespond(c)
    <3>1. /\ handler'[c].at = "add" /\ handler[c].at = "process"
          /\ \A d \in Clients : d # c => handler'[d] = handler[d]
          /\ UNCHANGED <<clientEnd, socket, owner>>
      BY <1>0, <2>4 DEF CreateRespond, Processes
    <3> QED
      BY <3>1, HandlerEnds DEF IdsInv
  <2>5. CASE EnterRequest(c)
    BY <2>2, <2>5 DEF EnterRequest, Processes
  <2>6. ASSUME NEW direction, KeyInput(c, direction) PROVE EndsInv' /\ Lasts
    BY <2>2, <2>6 DEF KeyInput, Processes
  <2>7. ASSUME NEW end \in Clicks, MouseInput(c, end) PROVE EndsInv' /\ Lasts
    BY <2>2, <2>7 DEF MouseInput, Processes
  <2>8. CASE ExitRequest(c)
    BY <2>2, <2>8 DEF ExitRequest, Processes
  <2>9. CASE Leave(c)
    BY <2>2, <2>9 DEF Leave
  <2>10. CASE Close(c)
    <3>1. clientEnd[c] = "down"
      BY <2>10 DEF Close, EndsInv
    <3> QED
      BY <2>2, <2>10, <3>1 DEF Close
  <2> QED
    BY <1>2, <2>1, <2>3, <2>4, <2>5, <2>6, <2>7, <2>8, <2>9, <2>10 DEF HandlerNext
<1>3. CASE SenderNext \/ SyncerNext
  <2>1. UNCHANGED <<clientEnd, socket, handler, owner>>
    BY <1>3 DEF SenderNext, SendLock, SendOne, SyncerNext, SyncLock, SyncPath
  <2> QED
    BY <1>0, <2>1, HandlersWait
<1>4. ASSUME NEW c \in Clients, Client(c) PROVE EndsInv' /\ Lasts
  <2>1. UNCHANGED <<handler, owner>>
    BY <1>4 DEF Client, serverVars
  <2>2. socket' = socket
    BY <1>4 DEF Client, ClientNext, Connect, PressReturn, ChangeLevel, Input, Quit, SendPacket,
                ReceivePacket, Disconnect
  <2>3. \/ clientEnd' = clientEnd
        \/ clientEnd[c] = "new" /\ clientEnd' = [clientEnd EXCEPT ![c] = "up"]
        \/ clientEnd' = [clientEnd EXCEPT ![c] = "down"]
    BY <1>4 DEF Client, ClientNext, Connect, PressReturn, ChangeLevel, Input, Quit, SendPacket,
                ReceivePacket, Disconnect, CloseClientEnd
  <2>4. /\ clientEnd' \in [Clients -> {"new", "up", "down"}]
        /\ \A o \in Clients : clientEnd[o] = "down" => clientEnd'[o] = "down"
    BY <1>0, <2>3
  <2> QED
    BY <2>1, <2>2, <2>4, HandlersWait
<1>5. CASE UNCHANGED vars
  BY <1>0, <1>5, HandlersWait DEF vars, serverVars
<1> QED
  BY <1>1, <1>2, <1>3, <1>4, <1>5 DEF Next, Server, ServerNext

LEMMA NextKept ==
    ASSUME IdsInv, WorldInv, EndsInv, KeptInv, Lasts, [Next]_vars
    PROVE  KeptInv'
<1> USE DEF AcceptorAt, levelVars, clientVars, netVars
<1>0. /\ clientIds \in [Ids -> Sockets \cup {NoSocket}]
      /\ owner \in [Ids -> Clients \cup {Nobody}]
  BY DEF IdsInv, Types, ServerTypes
<1>1. ASSUME clientIds' = clientIds, syncer' \subseteq Given PROVE KeptInv'
  <2>1. Given' = Given
    BY <1>1 DEF Given
  <2>2. \A k \in Given' : Meant(k, clientIds[k])'
    <3> TAKE k \in Given'
    <3>1. PICK s : s = clientIds[k] /\ Meant(k, s)
      BY <2>1 DEF KeptInv
    <3>2. Meant(k, s)'
      BY <3>1, MeantStays
    <3> QED
      BY <1>1, <3>1, <3>2 DEF Meant
  <2> QED
    BY <1>1, <2>1, <2>2 DEF KeptInv
<1>2. CASE AcceptorNext
  <2>1. UNCHANGED <<clientIds, syncer>>
    BY <1>2 DEF AcceptorNext, Accept, AcceptFails, Refuse, Admit, Register
  <2> QED
    BY <1>1, <2>1 DEF KeptInv
<1>3. ASSUME NEW c \in Clients, HandlerNext(c) PROVE KeptInv'
  <2>1. syncer' = syncer
    BY <1>3 DEF HandlerNext, Receive, EnterRequest, CreateRespond, CreateAdd, KeyInput,
                MouseInput, ExitRequest, Leave, Close
  <2>2. ASSUME NEW position, CreateAdd(c, position) PROVE KeptInv'
    <3> DEFINE id == handler[c].packet.id
    <3>1. /\ handler[c].at = "add" /\ socket' = socket
          /\ clientIds' = [clientIds EXCEPT ![id] = socket[c]]
          /\ owner' = [owner EXCEPT ![id] = c]
      BY <2>2 DEF CreateAdd
    <3>2. id \in Ids /\ socket[c] \in Sockets
      BY <3>1 DEF IdsInv, MutexInv, SocketInv, Types, ServerTypes, Ids
    <3>3. \A k \in Ids : k # id => clientIds'[k] = clientIds[k]
      BY <1>0, <3>1
    <3>4. Given \subseteq Given'
      BY <1>0, <3>1, <3>2 DEF Given
    <3>5. owner'[id] = c /\ clientIds'[id] = socket[c]
      BY <1>0, <3>1, <3>2
    <3>6. \A k \in Given' : Meant(k, clientIds[k])'
      <4> TAKE k \in Given'
      <4>1. CASE k = id
        BY <3>1, <3>2, <3>5, <4>1 DEF Meant, GivenTo
      <4>2. CASE k # id
        <5>1. k \in Given /\ clientIds'[k] = clientIds[k]
          BY <3>3, <4>2 DEF Given
        <5>2. PICK s : s = clientIds[k] /\ Meant(k, s)
          BY <5>1 DEF KeptInv
        <5>3. Meant(k, s)'
          BY <5>2, MeantStays
        <5> QED
          BY <5>1, <5>2, <5>3 DEF Meant
      <4> QED
        BY <4>1, <4>2
    <3> QED
      BY <2>1, <3>4, <3>6 DEF KeptInv
  <2>3. CASE ~ \E position \in EmptyCells : CreateAdd(c, position)
    <3>1. clientIds' = clientIds
      BY <1>3, <2>3 DEF HandlerNext, Receive, EnterRequest, CreateRespond, KeyInput,
                MouseInput, ExitRequest, Leave, Close
    <3> QED
      BY <1>1, <2>1, <3>1 DEF KeptInv
  <2> QED
    BY <2>2, <2>3
<1>4. CASE SenderNext \/ SyncerNext
  <2>1. clientIds' = clientIds /\ syncer' \subseteq Given
    BY <1>4 DEF SenderNext, SendLock, SendOne, SyncerNext, SyncLock, SyncPath, KeptInv
  <2> QED
    BY <1>1, <2>1
<1>5. ASSUME NEW c \in Clients, Client(c) PROVE KeptInv'
  BY <1>1, <1>5 DEF Client, serverVars, KeptInv
<1>6. CASE UNCHANGED vars
  BY <1>1, <1>6 DEF vars, serverVars, KeptInv
<1> QED
  BY <1>2, <1>3, <1>4, <1>5, <1>6 DEF Next, Server, ServerNext

LEMMA OwnedStay ==
    ASSUME IdsInv, Lasts
    PROVE  \A k \in Owned : k \in Owned' /\ owner[k] \in Clients /\ owner'[k] = owner[k]
<1> TAKE k \in Owned
<1>1. k \in Ids /\ owner[k] \in Clients
  BY DEF Owned, IdsInv, Types, ServerTypes
<1>2. owner'[k] = owner[k]
  BY <1>1 DEF Lasts
<1> QED
  BY <1>1, <1>2 DEF Owned

\* What was meant for a client stays meant for it, in the queue too.
LEMMA TaskStays ==
    ASSUME IdsInv, EndsInv, Lasts, NEW task, MeantTask(task)
    PROVE  MeantTask(task)'
BY MeantStays, OwnedStay DEF MeantTask

\* What the handler knows of the id it gives.
LEMMA IdGiven ==
    ASSUME IdsInv, NEW c \in Clients, CreateRespond(c)
    PROVE  /\ NextId \in Ids /\ NextId \notin 1..playerCount
           /\ socket[c] \in Sockets /\ socket' = socket
           /\ handler'[c].at = "add" /\ handler'[c].packet.id = NextId
<1>1. playerCount \in Nat /\ playerCount < MaxPlayers
  BY DEF CreateRespond, IdsInv, Types, ServerTypes
<1>2. NextId \in Ids /\ NextId \notin 1..playerCount
  BY <1>1 DEF NextId, Ids
<1>3. handler[c].at = "process"
  BY DEF CreateRespond, Processes
<1>4. socket[c] \in Sockets
  BY <1>3 DEF IdsInv, SocketInv
<1>5. socket' = socket
  BY DEF CreateRespond, netVars
<1>6. handler' = [handler EXCEPT ![c] = [at |-> "add", packet |-> Packet("CREATE", NextId)]]
      /\ DOMAIN handler = Clients
  BY DEF CreateRespond, IdsInv, Types, ServerTypes
<1>7. handler'[c].at = "add" /\ handler'[c].packet.id = NextId
  BY <1>6 DEF Packet
<1> QED
  BY <1>2, <1>4, <1>5, <1>7

\* A task that joins the queue.
LEMMA TaskJoins ==
    ASSUME IdsInv, EndsInv, QueuedInv, Lasts, NEW task \in Tasks, Enqueued(<<task>>),
           MeantTask(task)'
    PROVE  QueuedInv'
<1>1. sendQueue \in Seq(Tasks)
  BY DEF IdsInv, Types, ServerTypes
<1>2. sendQueue' = Append(sendQueue, task)
  BY <1>1 DEF Enqueued
<1>3. ToSet(sendQueue)' = ToSet(sendQueue) \cup {task}
  BY <1>1, <1>2, SetOf
<1> QED
  BY <1>3, TaskStays DEF QueuedInv

LEMMA NextQueued ==
    ASSUME IdsInv, WorldInv, MeantInv, Lasts, [Next]_vars
    PROVE  QueuedInv'
<1> USE DEF MeantInv
<1>0. /\ sendQueue \in Seq(Tasks)
      /\ socket \in [Clients -> Sockets \cup {NoSocket}]
      /\ clientIds \in [Ids -> Sockets \cup {NoSocket}]
  BY DEF IdsInv, Types, NetTypes, ServerTypes
<1>1. ASSUME ToSet(sendQueue)' \subseteq ToSet(sendQueue) PROVE QueuedInv'
  BY <1>1, TaskStays DEF QueuedInv
<1>2. ASSUME sendQueue' = sendQueue PROVE QueuedInv'
  <2>1. ToSet(sendQueue)' = ToSet(sendQueue)
    BY <1>2
  <2> QED
    BY <1>1, <2>1
<1>3. CASE AcceptorNext
  BY <1>2, <1>3 DEF AcceptorNext, Accept, AcceptFails, Refuse, Admit, Register
<1>4. ASSUME NEW c \in Clients, HandlerNext(c) PROVE QueuedInv'
  <2>1. CASE EnterRequest(c)
    <3>1. PICK task : task = Task(Packet("ENTER_RESPOND", 0), socket[c])
      OBVIOUS
    <3>2. task \in Tasks /\ Enqueued(<<task>>)
      BY <1>0, <2>1, <3>1 DEF EnterRequest, Task, Tasks, Packet, Packets, PacketType
    <3>3. MeantTask(task)'
      BY <3>1 DEF MeantTask, Task, Packet, Personal
    <3> QED
      BY <3>2, <3>3, TaskJoins
  <2>2. CASE CreateRespond(c)
    <3>1. /\ NextId \in Ids /\ socket[c] \in Sockets /\ socket' = socket
          /\ handler'[c].at = "add" /\ handler'[c].packet.id = NextId
      BY <2>2, IdGiven
    <3>2. PICK task : task = Task(Packet("CREATE_RESPOND", NextId), socket[c])
      OBVIOUS
    <3>3. task \in Tasks /\ Enqueued(<<task>>)
      BY <2>2, <3>1, <3>2
      DEF CreateRespond, Task, Tasks, Packet, Packets, PacketType, Ids
    <3>4. MeantTask(task)'
      <4>1. /\ task.packet.id = NextId /\ task.to = socket[c]
            /\ task.packet.type = "CREATE_RESPOND"
        BY <3>2 DEF Task, Packet
      <4>2. Meant(task.packet.id, task.to)'
        BY <3>1, <4>1 DEF Meant, GivenTo
      <4> QED
        BY <3>1, <4>1, <4>2 DEF MeantTask
    <3> QED
      BY <3>3, <3>4, TaskJoins
  <2>3. CASE ~ EnterRequest(c) /\ ~ CreateRespond(c)
    BY <1>2, <1>4, <2>3
    DEF HandlerNext, Receive, CreateAdd, KeyInput, MouseInput, ExitRequest, Leave, Close
  <2> QED
    BY <2>1, <2>2, <2>3
<1>5. CASE SendLock
  <2>1. ToSet(Tail(sendQueue)) \subseteq ToSet(sendQueue)
    BY <1>0, <1>5, SetOf DEF SendLock
  <2> QED
    BY <1>1, <1>5, <2>1 DEF SendLock
<1>6. CASE SendOne
  BY <1>2, <1>6 DEF SendOne
<1>7. CASE SyncLock
  <2>1. PICK task : task = Task(Packet("STATE", 0), All)
    OBVIOUS
  <2>2. task \in Tasks /\ Enqueued(<<task>>)
    BY <1>7, <2>1 DEF SyncLock, Task, Tasks, Packet, Packets, PacketType
  <2>3. MeantTask(task)'
    BY <2>1 DEF MeantTask, Task, Packet, Personal
  <2> QED
    BY <2>2, <2>3, TaskJoins
<1>8. ASSUME NEW k \in Ids, SyncPath(k) PROVE QueuedInv'
  <2>1. k \in Given /\ k \in Owned /\ Meant(k, clientIds[k]) /\ clientIds[k] \in Sockets
    BY <1>0, <1>8 DEF SyncPath, KeptInv, WorldInv, Given
  <2>2. PICK task : task = Task(Packet("PATH", k), clientIds[k])
    OBVIOUS
  <2>3. task \in Tasks /\ Enqueued(<<task>>)
    BY <1>8, <2>1, <2>2 DEF SyncPath, Task, Tasks, Packet, Packets, PacketType, Ids
  <2>4. MeantTask(task)
    BY <2>1, <2>2 DEF MeantTask, Task, Packet
  <2>5. MeantTask(task)'
    BY <2>4, TaskStays
  <2> QED
    BY <2>3, <2>5, TaskJoins
<1>9. ASSUME NEW c \in Clients, Client(c) PROVE QueuedInv'
  BY <1>2, <1>9 DEF Client, serverVars
<1>10. CASE UNCHANGED vars
  BY <1>2, <1>10 DEF vars, serverVars
<1> QED
  BY <1>3, <1>4, <1>5, <1>6, <1>7, <1>8, <1>9, <1>10
  DEF Next, Server, ServerNext, SenderNext, SyncerNext

LEMMA NextSent ==
    ASSUME IdsInv, WorldInv, MeantInv, Lasts, [Next]_vars
    PROVE  SentInv'
<1> USE DEF MeantInv
<1>1. ASSUME sender' = sender PROVE SentInv'
  <2> SUFFICES ASSUME sender.to # <<>>, sender.packet.type \in Personal
               PROVE  \E k \in Owned', s \in Sockets :
                         sender'.packet.id = k /\ sender'.to = <<s>> /\ Meant(k, s)'
    BY <1>1 DEF SentInv
  <2>1. PICK k \in Owned, s \in Sockets :
           sender.packet.id = k /\ sender.to = <<s>> /\ Meant(k, s)
    BY DEF SentInv
  <2>2. Meant(k, s)' /\ k \in Owned'
    BY <2>1, MeantStays, OwnedStay
  <2> QED
    BY <1>1, <2>1, <2>2
<1>2. CASE AcceptorNext
  BY <1>1, <1>2 DEF AcceptorNext, Accept, AcceptFails, Refuse, Admit, Register
<1>3. ASSUME NEW c \in Clients, HandlerNext(c) PROVE SentInv'
  BY <1>1, <1>3 DEF HandlerNext, Receive, EnterRequest, CreateRespond, CreateAdd, KeyInput,
                    MouseInput, ExitRequest, Leave, Close
<1>4. CASE SendLock
  <2> SUFFICES ASSUME sender'.packet.type \in Personal
               PROVE  \E k \in Owned', s \in Sockets :
                         sender'.packet.id = k /\ sender'.to = <<s>> /\ Meant(k, s)'
    BY DEF SentInv
  <2>1. /\ sendQueue \in Seq(Tasks) /\ sendQueue # <<>> /\ mutex = Free
        /\ sender' = [packet |-> Head(sendQueue).packet, to |-> Recipients(Head(sendQueue))]
    BY <1>4 DEF SendLock, IdsInv, Types, ServerTypes
  <2>2. PICK task \in ToSet(sendQueue) : task = Head(sendQueue)
    BY <2>1, SetOf
  <2>3. /\ task.packet.type \in Personal /\ task.to \in Sockets
        /\ Meant(task.packet.id, task.to)
    BY <2>1, <2>2 DEF QueuedInv, MeantTask
  <2>4. task.packet.id \in Owned
    <3>1. CASE task.packet.type = "PATH"
      BY <2>2, <2>3, <3>1 DEF QueuedInv, MeantTask
    <3>2. CASE task.packet.type = "CREATE_RESPOND"
      <4>1. 1 \in Answers /\ sendQueue[1] = task
        BY <2>1, <2>2, <3>2 DEF Answers
      <4>2. task.packet.id \in 1..playerCount
        BY <4>1 DEF IdsInv, AnswerInv
      <4> QED
        BY <2>1, <4>2, FreeMeans
    <3> QED
      BY <2>3, <3>1, <3>2 DEF Personal
  <2>5. Recipients(task) = <<task.to>>
    BY <2>3 DEF Recipients
  <2>6. Meant(task.packet.id, task.to)' /\ task.packet.id \in Owned'
    BY <2>3, <2>4, MeantStays, OwnedStay
  <2> QED
    BY <2>1, <2>2, <2>3, <2>5, <2>6
<1>5. CASE SendOne
  <2>1. CASE sender.packet.type \in Personal
    <3>1. PICK s \in Sockets : sender.to = <<s>>
      BY <1>5, <2>1 DEF SendOne, SentInv
    <3>2. sender'.to = <<>>
      BY <1>5, <3>1 DEF SendOne, NoTask
    <3> QED
      BY <3>2 DEF SentInv
  <2>2. CASE sender.packet.type \notin Personal
    <3>1. sender'.packet.type \notin Personal
      BY <1>5, <2>2 DEF SendOne, NoTask, Packet, Personal
    <3> QED
      BY <3>1 DEF SentInv
  <2> QED
    BY <2>1, <2>2
<1>6. CASE SyncerNext
  BY <1>1, <1>6 DEF SyncerNext, SyncLock, SyncPath
<1>7. ASSUME NEW c \in Clients, Client(c) PROVE SentInv'
  BY <1>1, <1>7 DEF Client, serverVars
<1>8. CASE UNCHANGED vars
  BY <1>1, <1>8 DEF vars, serverVars
<1> QED
  BY <1>2, <1>3, <1>4, <1>5, <1>6, <1>7, <1>8 DEF Next, Server, ServerNext, SenderNext

LEMMA NextAbout ==
    ASSUME IdsInv, WorldInv, MeantInv, Lasts, [Next]_vars
    PROVE  AboutInv'
<1> USE DEF MeantInv
<1>0. /\ toClient \in [Clients -> Seq(Packets)]
      /\ playerId \in [Clients -> 0..MaxPlayers]
      /\ sender.packet \in Packets
  BY DEF IdsInv, Types, NetTypes, ServerTypes
<1> DEFINE Right(c) == { k \in Owned : owner[k] = c \/ clientEnd[owner[k]] = "down" }
<1>1. ASSUME \A c \in Clients : About(c)' \subseteq About(c) \cup Right(c)
      PROVE  AboutInv'
  <2> SUFFICES ASSUME NEW c \in Clients, NEW k \in About(c)'
               PROVE  k \in Owned' /\ (owner'[k] = c \/ clientEnd'[owner'[k]] = "down")
    BY DEF AboutInv
  <2>1. k \in Owned /\ (owner[k] = c \/ clientEnd[owner[k]] = "down")
    BY <1>1 DEF AboutInv
  <2>2. k \in Owned' /\ owner[k] \in Clients /\ owner'[k] = owner[k]
    BY <2>1, OwnedStay
  <2>3. clientEnd[owner[k]] = "down" => clientEnd'[owner[k]] = "down"
    BY <2>2 DEF Lasts
  <2> QED
    BY <2>1, <2>2, <2>3
<1>2. ASSUME UNCHANGED <<toClient, playerId>> PROVE AboutInv'
  <2>1. \A c \in Clients : About(c)' \subseteq About(c)
    BY <1>2 DEF About
  <2> QED
    BY <1>1, <2>1
<1>3. CASE AcceptorNext /\ UNCHANGED clientVars
  BY <1>2, <1>3 DEF AcceptorNext, Accept, AcceptFails, Refuse, Admit, Register, clientVars, netVars
<1>4. ASSUME NEW c \in Clients, HandlerNext(c), UNCHANGED clientVars PROVE AboutInv'
  BY <1>2, <1>4 DEF HandlerNext, Receive, EnterRequest, CreateRespond, CreateAdd, KeyInput,
                    MouseInput, ExitRequest, Leave, Close, clientVars, netVars
<1>5. CASE (SendLock \/ SyncerNext) /\ UNCHANGED clientVars
  BY <1>2, <1>5 DEF SendLock, SyncerNext, SyncLock, SyncPath, clientVars, netVars
<1>6. CASE SendOne /\ UNCHANGED clientVars
  <2> DEFINE s == Head(sender.to)
  <2>1. /\ toClient' = Sent(s, sender.packet) /\ sender.to # <<>> /\ playerId' = playerId
    BY <1>6 DEF SendOne, clientVars
  <2>2. ASSUME NEW c \in Clients, NEW k \in About(c)', k \notin About(c)
        PROVE  c \in Peers(s) /\ k = sender.packet.id /\ sender.packet.type \in Personal
    <3>1. toClient'[c] = IF c \in Peers(s) THEN Append(toClient[c], sender.packet)
                         ELSE toClient[c]
      BY <2>1 DEF Sent
    <3>2. ToSet(Append(toClient[c], sender.packet)) = ToSet(toClient[c]) \cup {sender.packet}
      BY <1>0, SetOf
    <3>3. CASE c \in Peers(s)
      <4>1. ToSet(toClient[c])' = ToSet(toClient[c]) \cup {sender.packet}
        BY <3>1, <3>2, <3>3
      <4>2. PICK p \in ToSet(toClient[c])' : p.type \in Personal /\ k = p.id
        BY <2>1, <2>2 DEF About
      <4>3. p \notin ToSet(toClient[c])
        BY <2>2, <4>2 DEF About
      <4> QED
        BY <3>3, <4>1, <4>2, <4>3
    <3>4. CASE c \notin Peers(s)
      BY <2>1, <2>2, <3>1, <3>4 DEF About
    <3> QED
      BY <3>3, <3>4
  <2>3. ASSUME NEW c \in Clients, NEW k \in About(c)', k \notin About(c)
        PROVE  k \in Right(c)
    <3>1. c \in Peers(s) /\ k = sender.packet.id /\ sender.packet.type \in Personal
      BY <2>2, <2>3
    <3>2. PICK r \in Sockets : k \in Owned /\ sender.to = <<r>> /\ Meant(k, r)
      BY <2>1, <3>1 DEF SentInv
    <3>3. s = r /\ socket[c] = r
      BY <3>1, <3>2 DEF Peers
    <3>4. PICK o \in Clients : GivenTo(k, o) /\ (socket[o] = r \/ clientEnd[o] = "down")
      BY <3>2 DEF Meant
    <3>5. owner[k] = o
      <4>1. handler[o].at # "add"
        BY <2>1 DEF IdsInv, MutexInv
      <4> QED
        BY <3>4, <4>1 DEF GivenTo
    <3>6. socket[o] = r => o = c
      BY <3>2, <3>3 DEF IdsInv, SocketInv
    <3> QED
      BY <3>2, <3>4, <3>5, <3>6
  <2> QED
    BY <1>1, <2>3
<1>7. ASSUME NEW c \in Clients, Client(c) PROVE AboutInv'
  <2>1. CASE ReceivePacket(c)
    <3>1. PICK rest \in Received(toClient[c]) :
             toClient' = [toClient EXCEPT ![c] = rest] /\ toClient[c] # <<>>
      BY <2>1 DEF ReceivePacket
    <3>2. ToSet(rest) \subseteq ToSet(toClient[c]) /\ Head(toClient[c]) \in ToSet(toClient[c])
      BY <1>0, <3>1, SetOf
    <3>3. \/ playerId' = playerId
          \/ /\ playerId' = [playerId EXCEPT ![c] = Head(toClient[c]).id]
             /\ Head(toClient[c]).type = "CREATE_RESPOND"
      BY <2>1 DEF ReceivePacket
    <3>4. \A d \in Clients : ToSet(toClient'[d]) \subseteq ToSet(toClient[d])
      BY <1>0, <3>1, <3>2
    <3>5. \A d \in Clients : playerId'[d] = playerId[d] \/ playerId'[d] \in About(d)
      BY <1>0, <3>2, <3>3 DEF About, Personal
    <3>6. \A d \in Clients : About(d)' \subseteq About(d)
      BY <3>4, <3>5 DEF About
    <3> QED
      BY <1>1, <3>6
  <2>2. CASE Disconnect(c)
    <3>1. toClient' = [toClient EXCEPT ![c] = <<>>] /\ playerId' = playerId
      BY <2>2 DEF Disconnect, CloseClientEnd
    <3>2. ToSet(<<>>) = {}
      BY DEF ToSet
    <3>3. \A d \in Clients : ToSet(toClient'[d]) \subseteq ToSet(toClient[d])
      BY <1>0, <3>1, <3>2
    <3>4. \A d \in Clients : About(d)' \subseteq About(d)
      BY <3>1, <3>3 DEF About
    <3> QED
      BY <1>1, <3>4
  <2>3. CASE ~ ReceivePacket(c) /\ ~ Disconnect(c)
    BY <1>2, <1>7, <2>3 DEF Client, ClientNext, Connect, PressReturn, ChangeLevel, Input, Quit,
                            SendPacket, clientVars, netVars
  <2> QED
    BY <2>1, <2>2, <2>3
<1>8. CASE UNCHANGED vars
  BY <1>2, <1>8 DEF vars, netVars, clientVars
<1> QED
  BY <1>3, <1>4, <1>5, <1>6, <1>7, <1>8 DEF Next, Server, ServerNext, SenderNext

\* What is queued, sent or arrived about a player is meant for the client that
\* the player was created for, or that client is gone: handles outlive
\* connections (clientIds and sendQueue in GameServer.cpp).
THEOREM MeantInvariant == Spec => []MeantInv
<1>1. IdsInv /\ WorldInv /\ MeantInv /\ [Next]_vars => MeantInv'
  BY NextEnds, NextKept, NextQueued, NextSent, NextAbout DEF MeantInv
<1> QED
  BY <1>1, InitMeant, IdsInvariant, WorldInvariant, PTL DEF Spec

\* A client has, or is about to receive, the id or the path of a player that
\* was created for another one only if that one is gone (clientIds and the
\* queue keep handles, GameServer.cpp).
THEOREM OnlyTheGoneAreMistakenAlways == Spec => []OnlyTheGoneAreMistaken
<1>1. IdsInv /\ MeantInv => OnlyTheGoneAreMistaken
  <2> SUFFICES ASSUME IdsInv, MeantInv PROVE OnlyTheGoneAreMistaken
    OBVIOUS
  <2> DEFINE ids(c) == {playerId[c]} \cup
                       { toClient[c][i].id : i \in { j \in DOMAIN toClient[c] :
                            toClient[c][j].type \in {"CREATE_RESPOND", "PATH"} } }
  <2>1. \A c \in Clients : ids(c) \ {0} \subseteq About(c)
    BY DEF About, Personal, ToSet
  <2>2. \A c \in Clients : \A k \in ids(c) \ {0} : owner[k] # c => clientEnd[owner[k]] = "down"
    BY <2>1 DEF MeantInv, AboutInv
  <2> QED
    BY <2>2 DEF OnlyTheGoneAreMistaken
<1> QED
  BY <1>1, IdsInvariant, MeantInvariant, PTL

-----------------------------------------------------------------------------
(***************************************************************************)
(* The order in which a client learns of its player.                       *)
(***************************************************************************)

\* The ids whose path is among the packets, or with the sender, and those
\* whose answer is in the queue.
PathIds(packets) == { p.id : p \in { q \in ToSet(packets) : q.type = "PATH" } }

SendingPath ==
    { k \in {sender.packet.id} : sender.to # <<>> /\ sender.packet.type = "PATH" }

Waiting == { sendQueue[i].packet.id : i \in Answers }

\* No path of a player precedes its answer: among the packets in a connection,
Ordered(packets) ==
    \A i, j \in DOMAIN packets :
        /\ packets[i].type = "PATH" /\ packets[j].type = "CREATE_RESPOND"
        /\ packets[i].id = packets[j].id
        => j < i

\* and from the queue by way of the sender to the connections.
OrderInv ==
    /\ \A j \in Answers : \A i \in 1..j :
          sendQueue[i].packet.type = "PATH" =>
              sendQueue[i].packet.id # sendQueue[j].packet.id
    /\ Waiting \cap SendingPath = {}
    /\ \A c \in Clients :
          /\ (Waiting \cup Sending) \cap PathIds(toClient[c]) = {}
          /\ Ordered(toClient[c])

\* Fewer packets in the connections.
LEMMA OrderWithFewer ==
    ASSUME OrderInv, UNCHANGED <<sendQueue, sender>>,
           \A c \in Clients : /\ ToSet(toClient[c])' \subseteq ToSet(toClient[c])
                              /\ Ordered(toClient[c])'
    PROVE  OrderInv'
<1>1. Answers' = Answers /\ Waiting' = Waiting /\ Sending' = Sending /\ SendingPath' = SendingPath
  BY DEF Answers, Waiting, Sending, SendingPath
<1>2. \A c \in Clients : PathIds(toClient[c])' \subseteq PathIds(toClient[c])
  BY DEF PathIds
<1> QED
  BY <1>1, <1>2 DEF OrderInv

LEMMA OrderStays ==
    ASSUME OrderInv, UNCHANGED <<sendQueue, sender, toClient>>
    PROVE  OrderInv'
<1>1. Answers' = Answers /\ Waiting' = Waiting /\ Sending' = Sending /\ SendingPath' = SendingPath
  BY DEF Answers, Waiting, Sending, SendingPath
<1>2. \A c \in Clients : /\ PathIds(toClient[c])' = PathIds(toClient[c])
                         /\ Ordered(toClient[c])' <=> Ordered(toClient[c])
  BY DEF PathIds, Ordered
<1> QED
  BY <1>1, <1>2 DEF OrderInv

\* A task joins the queue: if it is an answer, no path of that player is
\* anywhere.
LEMMA TaskInOrder ==
    ASSUME IdsInv, OrderInv, NEW task \in Tasks, Enqueued(<<task>>),
           UNCHANGED <<sender, toClient>>,
           task.packet.type = "CREATE_RESPOND" =>
              /\ \A t \in ToSet(sendQueue) :
                    t.packet.type = "PATH" => t.packet.id # task.packet.id
              /\ task.packet.id \notin SendingPath
              /\ \A c \in Clients : task.packet.id \notin PathIds(toClient[c])
    PROVE  OrderInv'
<1> DEFINE n == Len(sendQueue)
<1>1. sendQueue \in Seq(Tasks)
  BY DEF IdsInv, Types, ServerTypes
<1>2. sendQueue' = Append(sendQueue, task)
  BY <1>1 DEF Enqueued
<1>3. /\ \A i \in 1..n : sendQueue'[i] = sendQueue[i] /\ sendQueue[i] \in ToSet(sendQueue)
      /\ sendQueue'[n + 1] = task /\ DOMAIN sendQueue' = 1..(n + 1) /\ n \in Nat
      /\ DOMAIN sendQueue = 1..n
  BY <1>1, <1>2 DEF ToSet
<1>4. /\ Answers \subseteq 1..n
      /\ Answers' \subseteq Answers \cup {n + 1}
      /\ n + 1 \in Answers' => task.packet.type = "CREATE_RESPOND"
  BY <1>3 DEF Answers
<1>5. Sending' = Sending /\ SendingPath' = SendingPath
      /\ \A c \in Clients : /\ PathIds(toClient[c])' = PathIds(toClient[c])
                            /\ Ordered(toClient[c])' <=> Ordered(toClient[c])
  BY DEF Sending, SendingPath, PathIds, Ordered
<1>6. \A k \in Waiting' : \/ k \in Waiting
                          \/ k = task.packet.id /\ task.packet.type = "CREATE_RESPOND"
  <2> TAKE k \in Waiting'
  <2>1. PICK i \in Answers' : k = sendQueue'[i].packet.id
    BY DEF Waiting
  <2>2. CASE i \in Answers
    <3>1. k = sendQueue[i].packet.id
      BY <1>3, <1>4, <2>1, <2>2
    <3>2. k \in Waiting
      BY <2>2, <3>1 DEF Waiting
    <3> QED
      BY <3>2
  <2>3. CASE i = n + 1
    BY <1>3, <1>4, <2>1, <2>3
  <2> QED
    BY <1>4, <2>2, <2>3
<1>7. ASSUME NEW j \in Answers', NEW i \in 1..j, sendQueue'[i].packet.type = "PATH"
      PROVE  sendQueue'[i].packet.id # sendQueue'[j].packet.id
  <2>1. CASE j \in Answers
    <3>1. i \in 1..n /\ j \in 1..n
      BY <1>3, <1>4, <2>1
    <3> QED
      BY <1>3, <1>7, <2>1, <3>1 DEF OrderInv
  <2>2. CASE j = n + 1
    <3>1. task.packet.type = "CREATE_RESPOND" /\ sendQueue'[j] = task
      BY <1>3, <1>4, <2>2
    <3>2. i # n + 1
      BY <1>7, <2>2, <3>1
    <3>3. i \in 1..n
      BY <1>3, <2>2, <3>2
    <3> QED
      BY <1>3, <1>7, <3>1, <3>3
  <2> QED
    BY <1>4, <2>1, <2>2
<1>8. Waiting' \cap SendingPath' = {}
  BY <1>5, <1>6 DEF OrderInv
<1>9. \A c \in Clients : (Waiting' \cup Sending') \cap PathIds(toClient[c])' = {}
  BY <1>5, <1>6 DEF OrderInv
<1> QED
  BY <1>5, <1>7, <1>8, <1>9 DEF OrderInv

LEMMA HandlerOrder ==
    ASSUME IdsInv, WorldInv, MeantInv, OrderInv, NEW c \in Clients, HandlerNext(c)
    PROVE  OrderInv'
<1>0. socket \in [Clients -> Sockets \cup {NoSocket}]
  BY DEF IdsInv, Types, NetTypes
<1>1. CASE EnterRequest(c)
  <2>1. PICK task : task = Task(Packet("ENTER_RESPOND", 0), socket[c])
    OBVIOUS
  <2>2. task \in Tasks /\ Enqueued(<<task>>) /\ task.packet.type # "CREATE_RESPOND"
    BY <1>0, <1>1, <2>1 DEF EnterRequest, Task, Tasks, Packet, Packets, PacketType
  <2> QED
    BY <1>1, <2>2, TaskInOrder DEF EnterRequest, netVars
<1>2. CASE CreateRespond(c)
  <2>1. NextId \in Ids /\ socket[c] \in Sockets /\ NextId \notin 1..playerCount
    BY <1>2, IdGiven
  <2>2. PICK task : task = Task(Packet("CREATE_RESPOND", NextId), socket[c])
    OBVIOUS
  <2>3. task \in Tasks /\ Enqueued(<<task>>) /\ task.packet.id = NextId
    BY <1>2, <2>1, <2>2
    DEF CreateRespond, Task, Tasks, Packet, Packets, PacketType, Ids
  <2>4. NextId \notin Owned
    BY <2>1 DEF WorldInv
  <2>5. \A t \in ToSet(sendQueue) : t.packet.type = "PATH" => t.packet.id \in Owned
    BY DEF MeantInv, QueuedInv, MeantTask, Personal
  <2>6. SendingPath \subseteq Owned
    BY DEF MeantInv, SentInv, SendingPath, Personal
  <2>7. \A d \in Clients : PathIds(toClient[d]) \subseteq Owned
    <3>1. \A d \in Clients : PathIds(toClient[d]) \subseteq About(d)
      BY DEF PathIds, About, Personal
    <3> QED
      BY <3>1 DEF MeantInv, AboutInv
  <2> QED
    BY <1>2, <2>3, <2>4, <2>5, <2>6, <2>7, TaskInOrder DEF CreateRespond, netVars
<1>3. CASE ~ EnterRequest(c) /\ ~ CreateRespond(c)
  BY <1>3, OrderStays
  DEF HandlerNext, Receive, CreateAdd, KeyInput, MouseInput, ExitRequest, Leave, Close, netVars
<1> QED
  BY <1>1, <1>2, <1>3

LEMMA SendLockOrder ==
    ASSUME IdsInv, OrderInv, SendLock
    PROVE  OrderInv'
<1>1. /\ sendQueue \in Seq(Tasks) /\ sendQueue # <<>> /\ sendQueue' = Tail(sendQueue)
      /\ sender' = [packet |-> sendQueue[1].packet, to |-> Recipients(sendQueue[1])]
      /\ sender.to = <<>> /\ toClient' = toClient
  BY DEF SendLock, IdsInv, Types, ServerTypes, netVars
<1>2. /\ 1 \in DOMAIN sendQueue
      /\ \A i \in DOMAIN sendQueue' :
            /\ i \in Nat \ {0} /\ i + 1 \in DOMAIN sendQueue /\ sendQueue'[i] = sendQueue[i + 1]
  BY <1>1
<1>3. \A j \in Answers' : /\ j \in Nat \ {0} /\ j + 1 \in Answers
                          /\ sendQueue'[j] = sendQueue[j + 1]
  BY <1>2 DEF Answers
<1>4. Waiting' \subseteq Waiting
  BY <1>3 DEF Waiting
<1>5. Sending' \subseteq Waiting
  BY <1>1, <1>2 DEF Sending, Waiting, Answers
<1>6. ASSUME NEW j \in Answers', NEW i \in 1..j, sendQueue'[i].packet.type = "PATH"
      PROVE  sendQueue'[i].packet.id # sendQueue'[j].packet.id
  <2>1. /\ j + 1 \in Answers /\ i + 1 \in 1..(j + 1)
        /\ sendQueue'[j] = sendQueue[j + 1]
    BY <1>3
  <2>2. sendQueue'[i] = sendQueue[i + 1]
    <3>1. j \in DOMAIN sendQueue' /\ DOMAIN sendQueue' = 1..Len(sendQueue') /\ Len(sendQueue') \in Nat
      BY <1>1 DEF Answers
    <3>2. i \in DOMAIN sendQueue'
      BY <3>1
    <3> QED
      BY <1>2, <3>2
  <2> QED
    BY <1>6, <2>1, <2>2 DEF OrderInv
<1>7. Waiting' \cap SendingPath' = {}
  <2>1. ASSUME NEW j \in Answers', sendQueue[1].packet.type = "PATH"
        PROVE  sendQueue'[j].packet.id # sendQueue[1].packet.id
    <3>1. j + 1 \in Answers /\ sendQueue'[j] = sendQueue[j + 1] /\ 1 \in 1..(j + 1)
      BY <1>3
    <3> QED
      BY <2>1, <3>1 DEF OrderInv
  <2>2. \A k \in SendingPath' : k = sendQueue[1].packet.id /\ sendQueue[1].packet.type = "PATH"
    BY <1>1 DEF SendingPath
  <2>3. \A k \in Waiting' : \E j \in Answers' : k = sendQueue'[j].packet.id
    BY DEF Waiting
  <2> QED
    BY <2>1, <2>2, <2>3
<1>8. \A c \in Clients : /\ PathIds(toClient[c])' = PathIds(toClient[c])
                         /\ Ordered(toClient[c])' <=> Ordered(toClient[c])
  BY <1>1 DEF PathIds, Ordered
<1>9. \A c \in Clients : (Waiting' \cup Sending') \cap PathIds(toClient[c])' = {}
  BY <1>4, <1>5, <1>8 DEF OrderInv
<1> QED
  BY <1>6, <1>7, <1>8, <1>9 DEF OrderInv

LEMMA SendOneOrder ==
    ASSUME IdsInv, MeantInv, OrderInv, SendOne
    PROVE  OrderInv'
<1> DEFINE s == Head(sender.to)
           packet == sender.packet
<1>1. /\ toClient \in [Clients -> Seq(Packets)] /\ packet \in Packets
      /\ toClient' = Sent(s, packet) /\ sender.to # <<>> /\ sendQueue' = sendQueue
  BY DEF SendOne, IdsInv, Types, NetTypes, ServerTypes
<1>2. Answers' = Answers /\ Waiting' = Waiting
  BY <1>1 DEF Answers, Waiting
<1>3. Sending' = {} /\ SendingPath' = {}
  <2>1. CASE packet.type \in Personal
    <3>1. sender'.to = <<>>
      <4>1. \E r \in Sockets : sender.to = <<r>>
        BY <1>1, <2>1 DEF MeantInv, SentInv
      <4> QED
        BY <4>1 DEF SendOne, NoTask
    <3> QED
      BY <3>1 DEF Sending, SendingPath
  <2>2. CASE packet.type \notin Personal
    BY <2>2 DEF SendOne, NoTask, Packet, Sending, SendingPath, Personal
  <2> QED
    BY <2>1, <2>2
<1>4. ASSUME NEW c \in Clients
      PROVE  /\ Waiting \cap PathIds(toClient[c])' = {}
             /\ Ordered(toClient[c])'
  <2> DEFINE n == Len(toClient[c])
  <2>1. CASE c \in Peers(s)
    <3>0. toClient[c] \in Seq(Packets) /\ toClient'[c] = Append(toClient[c], packet)
      BY <1>1, <2>1 DEF Sent
    <3>1. /\ n \in Nat /\ DOMAIN toClient[c] = 1..n /\ DOMAIN toClient'[c] = 1..(n + 1)
          /\ \A i \in 1..n : toClient'[c][i] = toClient[c][i]
                             /\ toClient[c][i] \in ToSet(toClient[c])
          /\ toClient'[c][n + 1] = packet
      BY <1>1, <3>0, AppendProperties, LenProperties DEF ToSet
    <3>2. ToSet(Append(toClient[c], packet)) = ToSet(toClient[c]) \cup {packet}
      BY <3>0, SetOf
    <3>3. ToSet(toClient[c])' = ToSet(toClient[c]) \cup {packet}
      BY <3>0, <3>2
    <3>4. \A k \in PathIds(toClient[c])' : k \in PathIds(toClient[c]) \/ k \in SendingPath
      BY <1>1, <3>3 DEF PathIds, SendingPath
    <3>5. Waiting \cap PathIds(toClient[c])' = {}
      BY <3>4 DEF OrderInv
    <3>6. ASSUME NEW i \in DOMAIN toClient'[c], NEW j \in DOMAIN toClient'[c],
                 toClient'[c][i].type = "PATH", toClient'[c][j].type = "CREATE_RESPOND",
                 toClient'[c][i].id = toClient'[c][j].id
          PROVE  j < i
      <4>1. CASE i \in 1..n /\ j \in 1..n
        BY <3>1, <3>6, <4>1 DEF OrderInv, Ordered
      <4>2. CASE i = n + 1 /\ j \in 1..n
        BY <3>1, <4>2
      <4>3. CASE i \in 1..n /\ j = n + 1
        <5>1. toClient[c][i].id \in PathIds(toClient[c])
          BY <3>1, <3>6, <4>3 DEF PathIds
        <5>2. packet.id \in Sending
          BY <1>1, <3>1, <3>6, <4>3 DEF Sending
        <5> QED
          BY <3>1, <3>6, <4>3, <5>1, <5>2 DEF OrderInv
      <4>4. CASE i = n + 1 /\ j = n + 1
        BY <3>6, <4>4
      <4> QED
        BY <3>1, <4>1, <4>2, <4>3, <4>4
    <3>7. Ordered(toClient[c])'
      BY <3>6 DEF Ordered
    <3> QED
      BY <3>5, <3>7
  <2>2. CASE c \notin Peers(s)
    <3>1. toClient'[c] = toClient[c]
      BY <1>1, <2>2 DEF Sent
    <3>2. PathIds(toClient[c])' = PathIds(toClient[c]) /\ (Ordered(toClient[c])' <=> Ordered(toClient[c]))
      BY <3>1 DEF PathIds, Ordered
    <3> QED
      BY <3>2 DEF OrderInv
  <2> QED
    BY <2>1, <2>2
<1>5. \A j \in Answers' : \A i \in 1..j :
         sendQueue'[i].packet.type = "PATH" => sendQueue'[i].packet.id # sendQueue'[j].packet.id
  BY <1>1, <1>2 DEF OrderInv
<1> QED
  BY <1>2, <1>3, <1>4, <1>5 DEF OrderInv

LEMMA ClientOrder ==
    ASSUME IdsInv, OrderInv, NEW c \in Clients, Client(c)
    PROVE  OrderInv'
<1>0. toClient \in [Clients -> Seq(Packets)] /\ UNCHANGED <<sendQueue, sender>>
  BY DEF IdsInv, Types, NetTypes, Client, serverVars
<1>1. ASSUME NEW rest, toClient' = [toClient EXCEPT ![c] = rest],
             ToSet(rest) \subseteq ToSet(toClient[c]), Ordered(rest)
      PROVE  OrderInv'
  <2>1. /\ ToSet(toClient[c])' = ToSet(rest)
        /\ Ordered(toClient[c])'
    BY <1>0, <1>1 DEF Ordered
  <2>2. \A d \in Clients : d # c => /\ ToSet(toClient[d])' = ToSet(toClient[d])
                                    /\ Ordered(toClient[d])' <=> Ordered(toClient[d])
    BY <1>0, <1>1 DEF Ordered
  <2>3. \A d \in Clients : /\ ToSet(toClient[d])' \subseteq ToSet(toClient[d])
                           /\ Ordered(toClient[d])'
    BY <1>1, <2>1, <2>2 DEF OrderInv
  <2> QED
    BY <1>0, <2>3, OrderWithFewer
<1>2. CASE ReceivePacket(c)
  <2>1. PICK rest \in Received(toClient[c]) : toClient' = [toClient EXCEPT ![c] = rest]
    BY <1>2 DEF ReceivePacket
  <2>2. ToSet(rest) \subseteq ToSet(toClient[c])
    BY <1>0, <2>1, SetOf
  <2>3. Ordered(rest)
    <3> DEFINE packets == toClient[c]
    <3>0. packets \in Seq(Packets)
      BY <1>0
    <3>1. PICK m \in 1..Len(packets) : rest = SubSeq(packets, m + 1, Len(packets))
      BY DEF Received
    <3> HIDE DEF packets
    <3>2. /\ Len(rest) = Len(packets) - m /\ Len(packets) \in Nat
          /\ DOMAIN rest = 1..(Len(packets) - m) /\ DOMAIN packets = 1..Len(packets)
          /\ \A i \in 1..(Len(packets) - m) : rest[i] = packets[i + m]
      BY <3>0, <3>1
    <3>3. Ordered(packets)
      BY DEF OrderInv, packets
    <3>4. ASSUME NEW i \in DOMAIN rest, NEW j \in DOMAIN rest,
                 rest[i].type = "PATH", rest[j].type = "CREATE_RESPOND", rest[i].id = rest[j].id
          PROVE  j < i
      <4>1. i + m \in DOMAIN packets /\ j + m \in DOMAIN packets /\ i \in Nat /\ j \in Nat
        BY <3>2
      <4>2. rest[i] = packets[i + m] /\ rest[j] = packets[j + m]
        BY <3>2
      <4>3. j + m < i + m
        BY <3>3, <3>4, <4>1, <4>2 DEF Ordered
      <4> QED
        BY <4>1, <4>3
    <3> QED
      BY <3>4 DEF Ordered
  <2> QED
    BY <1>1, <2>1, <2>2, <2>3
<1>3. CASE Disconnect(c)
  <2>1. toClient' = [toClient EXCEPT ![c] = <<>>]
    BY <1>3 DEF Disconnect, CloseClientEnd
  <2>2. ToSet(<<>>) = {}
    BY DEF ToSet
  <2>3. Ordered(<<>>)
    BY DEF Ordered
  <2> QED
    BY <1>1, <2>1, <2>2, <2>3
<1>4. CASE ~ ReceivePacket(c) /\ ~ Disconnect(c)
  <2>1. toClient' = toClient
    BY <1>4 DEF Client, ClientNext, Connect, PressReturn, ChangeLevel, Input, Quit, SendPacket,
                netVars
  <2> QED
    BY <1>0, <2>1, OrderStays
<1> QED
  BY <1>2, <1>3, <1>4

LEMMA NextOrder == IdsInv /\ WorldInv /\ MeantInv /\ OrderInv /\ [Next]_vars => OrderInv'
<1> SUFFICES ASSUME IdsInv, WorldInv, MeantInv, OrderInv, [Next]_vars PROVE OrderInv'
    OBVIOUS
<1>1. CASE AcceptorNext
  <2>1. UNCHANGED <<sendQueue, sender, toClient>>
    BY <1>1 DEF AcceptorNext, Accept, AcceptFails, Refuse, Admit, Register, netVars
  <2> QED
    BY <2>1, OrderStays
<1>2. CASE SyncLock
  <2>1. PICK task : task = Task(Packet("STATE", 0), All)
    OBVIOUS
  <2>2. task \in Tasks /\ Enqueued(<<task>>) /\ task.packet.type # "CREATE_RESPOND"
    BY <1>2, <2>1 DEF SyncLock, Task, Tasks, Packet, Packets, PacketType
  <2> QED
    BY <1>2, <2>2, TaskInOrder DEF SyncLock, netVars
<1>3. ASSUME NEW k \in Ids, SyncPath(k) PROVE OrderInv'
  <2>1. clientIds[k] \in Sockets \cup {NoSocket}
    BY DEF IdsInv, Types, ServerTypes
  <2>2. PICK task : task = Task(Packet("PATH", k), clientIds[k])
    OBVIOUS
  <2>3. task \in Tasks /\ Enqueued(<<task>>) /\ task.packet.type # "CREATE_RESPOND"
    BY <1>3, <2>1, <2>2 DEF SyncPath, Task, Tasks, Packet, Packets, PacketType, Ids
  <2> QED
    BY <1>3, <2>3, TaskInOrder DEF SyncPath, netVars
<1>4. CASE UNCHANGED vars
  BY <1>4, OrderStays DEF vars, serverVars, netVars
<1> QED
  BY <1>1, <1>2, <1>3, <1>4, HandlerOrder, SendLockOrder, SendOneOrder, ClientOrder
  DEF Next, Server, ServerNext, SenderNext, SyncerNext

LEMMA InitOrder == Init => OrderInv
<1> SUFFICES ASSUME Init PROVE OrderInv
    OBVIOUS
<1> USE DEF Init, NetInit, ServerInit, ClientInit
<1>1. Answers = {} /\ Waiting = {} /\ Sending = {}
  BY DEF Answers, Waiting, Sending, NoTask
<1>2. \A c \in Clients : toClient[c] = <<>>
  OBVIOUS
<1>3. Ordered(<<>>)
  BY DEF Ordered
<1>4. \A c \in Clients : Ordered(toClient[c])
  BY ONLY <1>2, <1>3
<1> QED
  BY ONLY <1>1, <1>4 DEF OrderInv

\* From the queue (GameServer.cpp, EnqueueSend) by way of the sender to the
\* connections, the answer about a player precedes every path of that player.
THEOREM OrderInvariant == Spec => []OrderInv
BY InitOrder, NextOrder, IdsInvariant, WorldInvariant, MeantInvariant, PTL DEF Spec

\* No path of a player is sent ahead of the answer that gives its id
\* (PLAYER_CREATE_REQUEST in GameServer.cpp): of what is on its way to a
\* client, or to any handle.
THEOREM NoPathBeforeIdAlways == Spec => []NoPathBeforeId
<1>1. IdsInv /\ OrderInv => NoPathBeforeId
  <2> SUFFICES ASSUME IdsInv, OrderInv, NEW c \in Clients PROVE Ordered(Coming(c))
    BY DEF NoPathBeforeId, Ordered
  <2> DEFINE arrived == toClient[c]
             sent == IF sender.to # <<>> THEN <<sender.packet>> ELSE <<>>
             queued == [i \in DOMAIN sendQueue |-> sendQueue[i].packet]
             n == Len(arrived)
             m == Len(sent)
             coming == arrived \o sent \o queued
  <2>1. /\ arrived \in Seq(Packets) /\ sent \in Seq(Packets) /\ queued \in Seq(Packets)
        /\ n \in Nat /\ m \in Nat
    <3>1. sendQueue \in Seq(Tasks) /\ sender.packet \in Packets /\ arrived \in Seq(Packets)
      BY DEF IdsInv, Types, NetTypes, ServerTypes
    <3>2. queued \in Seq(Packets)
      <4>1. DOMAIN sendQueue = 1..Len(sendQueue) /\ Len(sendQueue) \in Nat
        BY <3>1
      <4>2. \A i \in DOMAIN sendQueue : sendQueue[i] \in Tasks
        BY <3>1, <4>1, ElementOfSeq
      <4>3. \A i \in DOMAIN sendQueue : sendQueue[i].packet \in Packets
        BY <4>2 DEF Tasks
      <4> QED
        BY <4>1, <4>3
    <3>3. sent \in Seq(Packets)
      BY <3>1
    <3> QED
      BY <3>1, <3>2, <3>3, LenProperties
  <2>2. /\ \A i \in DOMAIN coming : i \in Nat
        /\ \A i \in DOMAIN coming :
              \/ i \in DOMAIN arrived /\ i <= n /\ coming[i] = arrived[i]
              \/ i = n + 1 /\ m = 1 /\ coming[i] = sender.packet /\ sender.to # <<>>
              \/ /\ i > n + m /\ i - (n + m) \in DOMAIN sendQueue
                 /\ coming[i] = sendQueue[i - (n + m)].packet
    <3> HIDE DEF arrived
    <3>1. /\ m = 1 /\ sender.to # <<>> /\ sent[1] = sender.packet
          \/ m = 0
      OBVIOUS
    <3>2. DOMAIN queued = DOMAIN sendQueue
          /\ \A i \in DOMAIN sendQueue : queued[i] = sendQueue[i].packet
      OBVIOUS
    <3> HIDE DEF sent, queued
    <3>3. PICK both : both = arrived \o sent
      OBVIOUS
    <3>4. /\ both \in Seq(Packets) /\ Len(both) = n + m
          /\ \A i \in 1..(n + m) : both[i] = IF i <= n THEN arrived[i] ELSE sent[i - n]
      BY <2>1, <3>3, ConcatProperties
    <3>5. /\ coming = both \o queued /\ coming \in Seq(Packets)
          /\ Len(coming) = n + m + Len(queued)
          /\ \A i \in 1..Len(coming) :
                coming[i] = IF i <= n + m THEN both[i] ELSE queued[i - (n + m)]
      BY <2>1, <3>3, <3>4, ConcatProperties
    <3>6. /\ DOMAIN coming = 1..Len(coming) /\ DOMAIN arrived = 1..n
          /\ DOMAIN queued = 1..Len(queued) /\ Len(queued) \in Nat
      BY <2>1, <3>5, LenProperties
    <3> HIDE DEF coming, n, m
    <3>7. \A i \in DOMAIN coming : i \in Nat \ {0}
      BY <2>1, <3>5, <3>6
    <3>8. ASSUME NEW i \in DOMAIN coming
          PROVE  \/ i \in DOMAIN arrived /\ i <= n /\ coming[i] = arrived[i]
                 \/ i = n + 1 /\ m = 1 /\ coming[i] = sender.packet /\ sender.to # <<>>
                 \/ /\ i > n + m /\ i - (n + m) \in DOMAIN sendQueue
                    /\ coming[i] = sendQueue[i - (n + m)].packet
      <4>1. CASE i <= n
        BY <2>1, <3>4, <3>5, <3>6, <3>7, <4>1
      <4>2. CASE ~ (i <= n) /\ i <= n + m
        <5>1. m = 1 /\ i = n + 1 /\ i - n = 1 /\ sender.to # <<>> /\ sent[1] = sender.packet
          BY <2>1, <3>1, <3>7, <4>2
        <5>2. coming[i] = both[i] /\ both[i] = sent[i - n]
          BY <2>1, <3>4, <3>5, <3>6, <3>7, <4>2
        <5> QED
          BY <5>1, <5>2
      <4>3. CASE ~ (i <= n + m)
        <5>1. i - (n + m) \in DOMAIN queued /\ coming[i] = queued[i - (n + m)] /\ i > n + m
          BY <2>1, <3>5, <3>6, <3>7, <4>3
        <5> QED
          BY <3>2, <5>1
      <4> QED
        BY <4>1, <4>2, <4>3
    <3> QED
      BY <3>7, <3>8
  <2>3. ASSUME NEW i \in DOMAIN coming, NEW j \in DOMAIN coming,
               coming[i].type = "PATH", coming[j].type = "CREATE_RESPOND",
               coming[i].id = coming[j].id, ~ (j < i)
        PROVE  FALSE
    <3>1. i < j
      <4>1. i # j
        BY <2>3
      <4> QED
        BY <2>2, <2>3, <4>1
    <3> HIDE DEF coming, n, m, sent, queued
    <3>2. CASE i \in DOMAIN arrived /\ i <= n /\ coming[i] = arrived[i]
      <4>1. coming[i].id \in PathIds(arrived)
        BY <2>3, <3>2 DEF PathIds, ToSet
      <4>2. CASE j \in DOMAIN arrived /\ coming[j] = arrived[j]
        BY <2>3, <3>2, <4>2 DEF OrderInv, Ordered
      <4>3. CASE coming[j] = sender.packet /\ sender.to # <<>>
        BY <2>3, <4>1, <4>3 DEF OrderInv, Sending
      <4>4. CASE j - (n + m) \in DOMAIN sendQueue /\ coming[j] = sendQueue[j - (n + m)].packet
        BY <2>3, <4>1, <4>4 DEF OrderInv, Waiting, Answers
      <4> QED
        BY <2>2, <4>2, <4>3, <4>4
    <3>3. CASE i = n + 1 /\ m = 1 /\ coming[i] = sender.packet /\ sender.to # <<>>
      <4>1. coming[i].id \in SendingPath
        BY <2>3, <3>3 DEF SendingPath
      <4>2. j - (n + m) \in DOMAIN sendQueue /\ coming[j] = sendQueue[j - (n + m)].packet
        BY <2>1, <2>2, <3>1, <3>3
      <4>3. coming[j].id \in Waiting
        BY <2>3, <4>2 DEF Waiting, Answers
      <4> QED
        BY <2>3, <4>1, <4>3 DEF OrderInv
    <3>4. CASE /\ i > n + m /\ i - (n + m) \in DOMAIN sendQueue
               /\ coming[i] = sendQueue[i - (n + m)].packet
      <4>1. j - (n + m) \in DOMAIN sendQueue /\ coming[j] = sendQueue[j - (n + m)].packet
        BY <2>1, <2>2, <3>1, <3>4
      <4>2. j - (n + m) \in Answers
        BY <2>3, <4>1 DEF Answers
      <4>3. i - (n + m) \in 1..(j - (n + m))
        BY <2>1, <2>2, <3>1, <3>4
      <4> QED
        BY <2>3, <3>4, <4>1, <4>2, <4>3 DEF OrderInv
    <3> QED
      BY <2>2, <3>2, <3>3, <3>4
  <2>4. Coming(c) = coming
    BY DEF Coming
  <2> HIDE DEF coming
  <2> QED
    BY <2>3, <2>4 DEF Ordered
<1> QED
  BY <1>1, IdsInvariant, OrderInvariant, PTL

-----------------------------------------------------------------------------
(***************************************************************************)
(* What MutexIsReleased and DeadConnectionsAreClosed rest on, as far as it *)
(* is safety: nobody keeps the mutex or a connection without a step left   *)
(* to take, and each of these steps brings the end closer.                 *)
(***************************************************************************)

\* The packets ProcessPacket of the client has a case for, and those the
\* server's has one for.
ServerSends == {"ENTER_RESPOND", "CREATE_RESPOND", "STATE", "PATH"}
ClientSends == {"ENTER", "CREATE", "KEY", "MOUSE", "EXIT"}

ForClients(task) == task.packet.type \in ServerSends /\ task.to \in Sockets \cup {All}

\* No end is sent a packet it has no case for, and no task goes to a handle
\* that never was one.
TasksInv ==
    /\ \A task \in ToSet(sendQueue) : ForClients(task)
    /\ sender.to # <<>> => sender.packet.type \in ServerSends

ToClientInv == \A c \in Clients : \A p \in ToSet(toClient[c]) : p.type \in ServerSends

RequestsInv == \A c \in Clients : \A p \in Requests(c) : p.type \in ClientSends

SidesInv == TasksInv /\ ToClientInv /\ RequestsInv

LEMMA TaskForClients ==
    ASSUME IdsInv, TasksInv, NEW task \in Tasks, Enqueued(<<task>>), ForClients(task)
    PROVE  \A t \in ToSet(sendQueue)' : ForClients(t)
<1>1. sendQueue \in Seq(Tasks)
  BY DEF IdsInv, Types, ServerTypes
<1>2. sendQueue' = Append(sendQueue, task)
  BY <1>1 DEF Enqueued
<1>3. ToSet(sendQueue)' = ToSet(sendQueue) \cup {task}
  BY <1>1, <1>2, SetOf
<1> QED
  BY <1>3 DEF TasksInv

LEMMA NextTasks ==
    ASSUME IdsInv, MeantInv, TasksInv, [Next]_vars
    PROVE  TasksInv'
<1>0. /\ sendQueue \in Seq(Tasks)
      /\ socket \in [Clients -> Sockets \cup {NoSocket}]
      /\ clientIds \in [Ids -> Sockets \cup {NoSocket}]
  BY DEF IdsInv, Types, NetTypes, ServerTypes
<1>1. ASSUME UNCHANGED <<sendQueue, sender>> PROVE TasksInv'
  <2>1. ToSet(sendQueue)' = ToSet(sendQueue)
    BY <1>1
  <2> QED
    BY <1>1, <2>1 DEF TasksInv
<1>2. ASSUME NEW task \in Tasks, Enqueued(<<task>>), ForClients(task), UNCHANGED sender
      PROVE  TasksInv'
  BY <1>2, TaskForClients DEF TasksInv
<1>3. CASE AcceptorNext
  BY <1>1, <1>3 DEF AcceptorNext, Accept, AcceptFails, Refuse, Admit, Register
<1>4. ASSUME NEW c \in Clients, HandlerNext(c) PROVE TasksInv'
  <2>1. CASE EnterRequest(c)
    <3>1. PICK task : task = Task(Packet("ENTER_RESPOND", 0), socket[c])
      OBVIOUS
    <3>2. socket[c] \in Sockets
      BY <2>1 DEF EnterRequest, Processes, IdsInv, SocketInv
    <3>3. task \in Tasks /\ ForClients(task)
      BY <3>1, <3>2
      DEF Task, Tasks, Packet, Packets, PacketType, ForClients, ServerSends
    <3> QED
      BY <1>2, <2>1, <3>1, <3>3 DEF EnterRequest
  <2>2. CASE CreateRespond(c)
    <3>1. NextId \in Ids /\ socket[c] \in Sockets
      BY <2>2, IdGiven
    <3>2. PICK task : task = Task(Packet("CREATE_RESPOND", NextId), socket[c])
      OBVIOUS
    <3>3. task \in Tasks /\ ForClients(task)
      BY <3>1, <3>2
      DEF Task, Tasks, Packet, Packets, PacketType, Ids, ForClients, ServerSends
    <3> QED
      BY <1>2, <2>2, <3>2, <3>3 DEF CreateRespond
  <2>3. CASE ~ EnterRequest(c) /\ ~ CreateRespond(c)
    BY <1>1, <1>4, <2>3
    DEF HandlerNext, Receive, CreateAdd, KeyInput, MouseInput, ExitRequest, Leave, Close
  <2> QED
    BY <2>1, <2>2, <2>3
<1>5. CASE SendLock
  <2>1. Head(sendQueue) \in ToSet(sendQueue) /\ ToSet(Tail(sendQueue)) \subseteq ToSet(sendQueue)
    BY <1>0, <1>5, SetOf DEF SendLock
  <2>2. sendQueue' = Tail(sendQueue) /\ sender'.packet = Head(sendQueue).packet
    BY <1>5 DEF SendLock
  <2> QED
    BY <2>1, <2>2 DEF TasksInv, ForClients
<1>6. CASE SendOne
  <2>1. sendQueue' = sendQueue /\ sender.packet.type \in ServerSends
        /\ (sender'.to # <<>> => sender'.packet = sender.packet)
    BY <1>6 DEF SendOne, TasksInv, NoTask
  <2>2. ToSet(sendQueue)' = ToSet(sendQueue)
    BY <2>1
  <2> QED
    BY <2>1, <2>2 DEF TasksInv
<1>7. CASE SyncLock
  <2>1. PICK task : task = Task(Packet("STATE", 0), All)
    OBVIOUS
  <2>2. task \in Tasks /\ ForClients(task)
    BY <2>1 DEF Task, Tasks, Packet, Packets, PacketType, ForClients, ServerSends
  <2> QED
    BY <1>2, <1>7, <2>1, <2>2 DEF SyncLock
<1>8. ASSUME NEW k \in Ids, SyncPath(k) PROVE TasksInv'
  <2>1. clientIds[k] \in Sockets
    BY <1>0, <1>8 DEF SyncPath, MeantInv, KeptInv, Given
  <2>2. PICK task : task = Task(Packet("PATH", k), clientIds[k])
    OBVIOUS
  <2>3. task \in Tasks /\ ForClients(task)
    BY <2>1, <2>2
    DEF Task, Tasks, Packet, Packets, PacketType, Ids, ForClients, ServerSends
  <2> QED
    BY <1>2, <1>8, <2>2, <2>3 DEF SyncPath
<1>9. ASSUME NEW c \in Clients, Client(c) PROVE TasksInv'
  BY <1>1, <1>9 DEF Client, serverVars
<1>10. CASE UNCHANGED vars
  BY <1>1, <1>10 DEF vars, serverVars
<1> QED
  BY <1>3, <1>4, <1>5, <1>6, <1>7, <1>8, <1>9, <1>10
  DEF Next, Server, ServerNext, SenderNext, SyncerNext

LEMMA NextToClient ==
    ASSUME IdsInv, TasksInv, ToClientInv, [Next]_vars
    PROVE  ToClientInv'
<1>0. toClient \in [Clients -> Seq(Packets)] /\ sender.packet \in Packets
  BY DEF IdsInv, Types, NetTypes, ServerTypes
<1>1. ASSUME toClient' = toClient PROVE ToClientInv'
  BY <1>1 DEF ToClientInv
<1>2. ASSUME NEW c \in Clients, NEW rest, ToSet(rest) \subseteq ToSet(toClient[c]),
             toClient' = [toClient EXCEPT ![c] = rest]
      PROVE  ToClientInv'
  <2>1. \A d \in Clients : ToSet(toClient'[d]) \subseteq ToSet(toClient[d])
    BY <1>0, <1>2
  <2> QED
    BY <2>1 DEF ToClientInv
<1>3. CASE AcceptorNext
  BY <1>1, <1>3 DEF AcceptorNext, Accept, AcceptFails, Refuse, Admit, Register, netVars
<1>4. ASSUME NEW c \in Clients, HandlerNext(c) PROVE ToClientInv'
  BY <1>1, <1>4 DEF HandlerNext, Receive, EnterRequest, CreateRespond, CreateAdd, KeyInput,
                    MouseInput, ExitRequest, Leave, Close, netVars
<1>5. CASE SendLock \/ SyncerNext
  BY <1>1, <1>5 DEF SendLock, SyncerNext, SyncLock, SyncPath, netVars
<1>6. CASE SendOne
  <2> DEFINE packet == sender.packet
  <2>1. packet.type \in ServerSends
    BY <1>6 DEF SendOne, TasksInv
  <2>2. \A c \in Clients : ToSet(Append(toClient[c], packet)) = ToSet(toClient[c]) \cup {packet}
    BY <1>0, SetOf
  <2>3. \A c \in Clients : toClient'[c] \in {toClient[c], Append(toClient[c], packet)}
    BY <1>6 DEF SendOne, Sent
  <2> HIDE DEF packet
  <2>4. \A c \in Clients : ToSet(toClient'[c]) \subseteq ToSet(toClient[c]) \cup {packet}
    BY <2>2, <2>3
  <2> QED
    BY <2>1, <2>4 DEF ToClientInv
<1>7. ASSUME NEW c \in Clients, Client(c) PROVE ToClientInv'
  <2>1. CASE ReceivePacket(c)
    BY <1>0, <1>2, <2>1, SetOf DEF ReceivePacket
  <2>2. CASE Disconnect(c)
    <3>1. ToSet(<<>>) = {}
      BY DEF ToSet
    <3> QED
      BY <1>2, <2>2, <3>1 DEF Disconnect, CloseClientEnd
  <2>3. CASE ~ ReceivePacket(c) /\ ~ Disconnect(c)
    BY <1>1, <1>7, <2>3 DEF Client, ClientNext, Connect, PressReturn, ChangeLevel, Input,
                            Quit, SendPacket, netVars
  <2> QED
    BY <2>1, <2>2, <2>3
<1>8. CASE UNCHANGED vars
  BY <1>1, <1>8 DEF vars, netVars
<1> QED
  BY <1>3, <1>4, <1>5, <1>6, <1>7, <1>8 DEF Next, Server, ServerNext, SenderNext

\* A step that brings no requests but those a client sends.
LEMMA RequestsOfClients ==
    ASSUME RequestsInv,
           \A c \in Clients : \A p \in Requests(c)' : p \in Requests(c) \/ p.type \in ClientSends
    PROVE  RequestsInv'
BY DEF RequestsInv

LEMMA ClientRequests ==
    ASSUME IdsInv, RequestsInv, NEW c \in Clients, Client(c)
    PROVE  RequestsInv'
<1>0. /\ toServer \in [Clients -> Seq(Packets)]
      /\ clientQueue \in [Clients -> Seq(Packets)]
      /\ handler' = handler
  BY DEF IdsInv, Types, NetTypes, Client, serverVars
<1>1. ASSUME \A d \in Clients : \A p \in ToSet(clientQueue'[d]) \cup ToSet(toServer'[d]) :
                p \in Requests(d) \/ p.type \in ClientSends
      PROVE  RequestsInv'
  <2>1. \A d \in Clients : \A p \in Requests(d)' : p \in Requests(d) \/ p.type \in ClientSends
    BY <1>0, <1>1 DEF Requests
  <2> QED
    BY <2>1, RequestsOfClients
<1>2. ASSUME NEW packet, Enqueue(c, packet), packet.type \in ClientSends, toServer' = toServer
      PROVE  RequestsInv'
  <2>1. /\ ToSet(clientQueue'[c]) = ToSet(clientQueue[c]) \cup {packet}
        /\ \A d \in Clients : d # c => clientQueue'[d] = clientQueue[d]
    BY <1>0, <1>2, SetOf DEF Enqueue
  <2> QED
    BY <1>1, <1>2, <2>1 DEF Requests
<1>3. ASSUME UNCHANGED <<clientQueue, toServer>> PROVE RequestsInv'
  BY <1>1, <1>3 DEF Requests
<1>4. CASE Connect(c) \/ ChangeLevel(c)
  BY <1>3, <1>4 DEF Connect, ChangeLevel, clientVars, netVars
<1>5. CASE PressReturn(c) \/ Quit(c) \/ \E type \in {"KEY", "MOUSE"} : Input(c, type)
  BY <1>2, <1>5 DEF PressReturn, Quit, Input, netVars, Packet, ClientSends
<1>6. CASE SendPacket(c)
  <2>1. /\ clientQueue[c] \in Seq(Packets) /\ clientQueue[c] # <<>>
        /\ clientQueue' = [clientQueue EXCEPT ![c] = Tail(@)]
        /\ \/ toServer' = toServer
           \/ toServer' = [toServer EXCEPT ![c] = Append(@, Head(clientQueue[c]))]
    BY <1>0, <1>6 DEF SendPacket
  <2>2. /\ Head(clientQueue[c]) \in ToSet(clientQueue[c])
        /\ ToSet(Tail(clientQueue[c])) \subseteq ToSet(clientQueue[c])
    BY <2>1, SetOf
  <2>3. ToSet(Append(toServer[c], Head(clientQueue[c])))
          = ToSet(toServer[c]) \cup {Head(clientQueue[c])}
    BY <1>0, SetOf
  <2>4. /\ ToSet(clientQueue'[c]) \subseteq ToSet(clientQueue[c])
        /\ ToSet(toServer'[c]) \subseteq ToSet(toServer[c]) \cup ToSet(clientQueue[c])
        /\ \A d \in Clients : d # c => clientQueue'[d] = clientQueue[d] /\ toServer'[d] = toServer[d]
    BY <1>0, <2>1, <2>2, <2>3
  <2> QED
    BY <1>1, <2>4 DEF Requests
<1>7. CASE ReceivePacket(c)
  <2>1. toServer' = toServer
        /\ (clientQueue' = clientQueue \/ Enqueue(c, Packet("CREATE", 0)))
    BY <1>7 DEF ReceivePacket
  <2> QED
    BY <1>2, <1>3, <2>1 DEF Packet, ClientSends
<1>8. CASE Disconnect(c)
  <2>1. /\ clientQueue' = [clientQueue EXCEPT ![c] = <<>>]
        /\ toServer' = toServer \/ toServer' = [toServer EXCEPT ![c] = <<>>]
    BY <1>8 DEF Disconnect, CloseClientEnd
  <2>2. \A d \in Clients : /\ ToSet(clientQueue'[d]) \subseteq ToSet(clientQueue[d])
                           /\ ToSet(toServer'[d]) \subseteq ToSet(toServer[d])
    <3>1. ToSet(<<>>) = {}
      BY DEF ToSet
    <3> QED
      BY <1>0, <2>1, <3>1
  <2> QED
    BY <1>1, <2>2 DEF Requests
<1> QED
  BY <1>4, <1>5, <1>6, <1>7, <1>8 DEF Client, ClientNext

LEMMA NextRequests ==
    ASSUME IdsInv, RequestsInv, [Next]_vars
    PROVE  RequestsInv'
<1>0. /\ toServer \in [Clients -> Seq(Packets)]
      /\ handler \in [Clients -> [at : {"new", "recv", "process", "add", "close", "ended"},
                                  packet : Packets]]
  BY DEF IdsInv, Types, NetTypes, ServerTypes
<1>1. ASSUME clientQueue' = clientQueue,
             \A c \in Clients : /\ ToSet(toServer'[c]) \subseteq ToSet(toServer[c])
                                /\ \/ handler'[c] = handler[c]
                                   \/ handler'[c].at # "process"
                                   \/ handler'[c].packet \in ToSet(toServer[c])
      PROVE  RequestsInv'
  <2>1. \A c \in Clients : \A p \in Requests(c)' : p \in Requests(c)
    BY <1>1 DEF Requests
  <2> QED
    BY <2>1, RequestsOfClients
<1>2. ASSUME UNCHANGED <<clientQueue, toServer, handler>> PROVE RequestsInv'
  BY <1>1, <1>2
<1>3. ASSUME NEW c \in Clients, NEW at \in {"recv", "add", "close", "ended"}, NEW p,
             handler' = [handler EXCEPT ![c] = [at |-> at, packet |-> p]],
             UNCHANGED <<clientQueue, toServer>>
      PROVE  RequestsInv'
  BY <1>0, <1>1, <1>3
<1>4. \A c \in Clients : CloseServerEnd(c) =>
         \A d \in Clients : ToSet(toServer'[d]) \subseteq ToSet(toServer[d])
  <2>1. ToSet(<<>>) = {}
    BY DEF ToSet
  <2> QED
    BY <1>0, <2>1 DEF CloseServerEnd
<1>5. ASSUME AcceptorNext, UNCHANGED clientVars PROVE RequestsInv'
  <2>0. clientQueue' = clientQueue
    BY <1>5 DEF clientVars
  <2>1. ASSUME NEW c \in Clients, NEW s \in Sockets, Accept(c, s) PROVE RequestsInv'
    BY <1>2, <2>0, <2>1 DEF Accept
  <2>2. ASSUME NEW c \in Clients, AcceptFails(c) PROVE RequestsInv'
    BY <1>1, <1>4, <2>0, <2>2 DEF AcceptFails
  <2>3. CASE Refuse
    BY <1>1, <1>4, <2>0, <2>3 DEF Refuse, IdsInv, SocketInv
  <2>4. CASE Admit
    <3>1. \A d \in Clients : handler'[d] = handler[d] \/ handler'[d].at # "process"
      BY <1>0, <2>4 DEF Admit
    <3> QED
      BY <1>1, <2>0, <2>4, <3>1 DEF Admit, netVars
  <2>5. CASE Register
    BY <1>2, <2>0, <2>5 DEF Register, netVars
  <2> QED
    BY <1>5, <2>1, <2>2, <2>3, <2>4, <2>5 DEF AcceptorNext
<1>6. ASSUME NEW c \in Clients, HandlerNext(c), UNCHANGED clientVars PROVE RequestsInv'
  <2>0. clientQueue' = clientQueue
    BY <1>6 DEF clientVars
  <2> USE DEF HandlerAt
  <2>1. CASE Receive(c)
    <3>1. /\ \A d \in Clients : ToSet(toServer'[d]) \subseteq ToSet(toServer[d])
          /\ Head(toServer[c]) \in ToSet(toServer[c])
      <4>1. toServer[c] \in Seq(Packets) /\ toServer[c] # <<>>
        BY <1>0, <2>1 DEF Receive
      <4>2. PICK rest \in Received(toServer[c]) : toServer' = [toServer EXCEPT ![c] = rest]
        BY <2>1 DEF Receive
      <4>3. ToSet(rest) \subseteq ToSet(toServer[c]) /\ Head(toServer[c]) \in ToSet(toServer[c])
        BY <4>1, <4>2, SetOf
      <4> QED
        BY <1>0, <4>2, <4>3
    <3>2. handler' = [handler EXCEPT ![c] = [at |-> "process", packet |-> Head(toServer[c])]]
      BY <2>1 DEF Receive
    <3>3. \A d \in Clients : handler'[d] = handler[d] \/ handler'[d].packet \in ToSet(toServer[d])
      BY <1>0, <3>1, <3>2
    <3> QED
      BY <1>1, <2>0, <3>1, <3>3
  <2>2. CASE Close(c)
    <3>1. \A d \in Clients : handler'[d] = handler[d] \/ handler'[d].at # "process"
      BY <1>0, <2>2 DEF Close
    <3> QED
      BY <1>1, <1>4, <2>0, <2>2, <3>1 DEF Close
  <2>3. CASE ~ Receive(c) /\ ~ Close(c)
    <3> DEFINE Goes(at) == handler' = [handler EXCEPT ![c] =
                                          [at |-> at, packet |-> handler[c].packet]]
    <3>0. ASSUME NEW at \in {"recv", "close"}, HandlerAt(c, at) PROVE Goes(at)
      <4>1. handler' = [handler EXCEPT ![c] = [handler[c] EXCEPT !.at = at]]
        BY <3>0
      <4>2. [handler[c] EXCEPT !.at = at] = [at |-> at, packet |-> handler[c].packet]
        BY <1>0
      <4> QED
        BY <4>1, <4>2
    <3>1. toServer' = toServer
      BY <1>6, <2>3 DEF HandlerNext, EnterRequest, CreateRespond, CreateAdd, KeyInput,
                        MouseInput, ExitRequest, Leave, netVars
    <3>2. CASE CreateRespond(c)
      BY <1>3, <2>0, <3>1, <3>2 DEF CreateRespond
    <3>3. CASE Leave(c)
      BY <1>3, <2>0, <3>0, <3>1, <3>3 DEF Leave
    <3>4. CASE ~ CreateRespond(c) /\ ~ Leave(c)
      <4>1. HandlerAt(c, "recv")
        BY <1>6, <2>3, <3>4
        DEF HandlerNext, EnterRequest, CreateAdd, KeyInput, MouseInput, ExitRequest
      <4> QED
        BY <1>3, <2>0, <3>0, <3>1, <4>1
    <3> QED
      BY <3>2, <3>3, <3>4
  <2> QED
    BY <2>1, <2>2, <2>3
<1>7. ASSUME SenderNext \/ SyncerNext, UNCHANGED clientVars PROVE RequestsInv'
  BY <1>2, <1>7 DEF SenderNext, SendLock, SendOne, SyncerNext, SyncLock, SyncPath,
                    clientVars, netVars
<1>8. CASE UNCHANGED vars
  BY <1>2, <1>8 DEF vars, netVars, serverVars, clientVars
<1> QED
  BY <1>5, <1>6, <1>7, <1>8, ClientRequests DEF Next, Server, ServerNext

LEMMA InitSides == Init => SidesInv
<1> SUFFICES ASSUME Init PROVE SidesInv
    OBVIOUS
<1> USE DEF Init, NetInit, ServerInit, ClientInit
<1>0. ToSet(<<>>) = {}
  BY DEF ToSet
<1>1. TasksInv
  BY <1>0 DEF TasksInv, NoTask
<1>2. \A c \in Clients : toClient[c] = <<>> /\ Requests(c) = {}
  BY <1>0 DEF Requests
<1> QED
  BY <1>0, <1>1, <1>2 DEF SidesInv, ToClientInv, RequestsInv

\* Each end is only sent packets its ProcessPacket (GameServer.cpp,
\* GameClient.cpp) has a case for, from the queue to the handler, and the
\* sender only uses handles that accept returned.
THEOREM SidesInvariant == Spec => []SidesInv
<1>1. IdsInv /\ MeantInv /\ SidesInv /\ [Next]_vars => SidesInv'
  BY NextTasks, NextToClient, NextRequests DEF SidesInv
<1> QED
  BY <1>1, InitSides, IdsInvariant, MeantInvariant, PTL DEF Spec

\* Whoever holds the mutex is in the middle of a section, a send() is for a
\* handle that accept returned, and nothing was sent before that.
HolderInv ==
    /\ mutex \in Clients \cup {Free, "sender", "syncer"}
    /\ mutex \in Clients => handler[mutex].at = "add"
    /\ mutex = "sender" => sender.to # <<>>
    /\ mutex = "syncer" => syncer # {}

SendingInv == sender.to \in Seq(Sockets) /\ syncer \subseteq Ids

FreshInv ==
    \A c \in Clients : serverEnd[c] = "waiting" => socket[c] = NoSocket /\ toClient[c] = <<>>

BacklogInv == \A c \in Clients : clientEnd[c] = "new" => serverEnd[c] = "waiting"

SectionInv == HolderInv /\ SendingInv /\ FreshInv /\ BacklogInv

LEMMA NextHolder ==
    ASSUME IdsInv, HolderInv, SendingInv, [Next]_vars
    PROVE  HolderInv'
<1>0. handler \in [Clients -> [at : {"new", "recv", "process", "add", "close", "ended"},
                               packet : Packets]]
  BY DEF IdsInv, Types, ServerTypes
<1>1. ASSUME UNCHANGED <<mutex, sender, syncer>>,
             \A c \in Clients : handler[c].at = "add" => handler'[c] = handler[c]
      PROVE  HolderInv'
  BY <1>1 DEF HolderInv
<1>2. CASE AcceptorNext
  <2>1. ASSUME Admit PROVE \A c \in Clients : handler[c].at = "add" => handler'[c] = handler[c]
    BY <1>0, <2>1 DEF Admit, IdsInv, MutexInv
  <2> QED
    BY <1>1, <1>2, <2>1 DEF AcceptorNext, Accept, AcceptFails, Refuse, Admit, Register
<1>3. ASSUME NEW c \in Clients, HandlerNext(c) PROVE HolderInv'
  <2>1. CASE CreateRespond(c)
    <3>1. mutex' = c /\ handler'[c].at = "add"
      BY <1>0, <2>1 DEF CreateRespond
    <3> QED
      BY <3>1 DEF HolderInv
  <2>2. ASSUME NEW position \in EmptyCells, CreateAdd(c, position) PROVE HolderInv'
    BY <2>2 DEF CreateAdd, HolderInv, Free
  <2>3. CASE handler[c].at # "add" /\ ~ CreateRespond(c)
    <3>1. UNCHANGED <<mutex, sender, syncer>>
      BY <1>3, <2>3 DEF HandlerNext, Receive, EnterRequest, CreateAdd, KeyInput, MouseInput,
                        ExitRequest, Leave, Close
    <3>2. \A d \in Clients : d # c => handler'[d] = handler[d]
      BY <1>0, <1>3 DEF HandlerNext, Receive, EnterRequest, CreateRespond, CreateAdd, KeyInput,
                        MouseInput, ExitRequest, Leave, Close, HandlerAt
    <3> QED
      BY <1>1, <2>3, <3>1, <3>2
  <2>4. handler[c].at = "add" => \E position \in EmptyCells : CreateAdd(c, position)
    BY <1>3 DEF HandlerNext, Receive, EnterRequest, CreateRespond, KeyInput, MouseInput,
                ExitRequest, Leave, Close, Processes
  <2> QED
    BY <2>1, <2>2, <2>3, <2>4
<1>4. CASE SendLock
  <2> DEFINE to == Recipients(Head(sendQueue))
  <2>1. /\ mutex' = IF to = <<>> THEN Free ELSE "sender"
        /\ sender' = [packet |-> Head(sendQueue).packet, to |-> to]
    BY <1>4 DEF SendLock
  <2> HIDE DEF to
  <2>2. CASE to = <<>>
    BY <2>1, <2>2 DEF HolderInv, Free
  <2>3. CASE to # <<>>
    BY <2>1, <2>3 DEF HolderInv
  <2> QED
    BY <2>2, <2>3
<1>5. CASE SendOne
  <2>1. mutex = "sender"
    BY <1>5 DEF SendOne, IdsInv, MutexInv
  <2>2. CASE Len(sender.to) = 1
    BY <1>5, <2>2 DEF SendOne, MutexAfter, HolderInv, Free
  <2>3. CASE Len(sender.to) # 1
    <3>1. sender'.to = Tail(sender.to) /\ sender.to # <<>>
      BY <1>5, <2>3 DEF SendOne
    <3>2. mutex' = "sender"
      BY <1>5, <2>1, <2>3 DEF SendOne, MutexAfter
    <3>3. Tail(sender.to) # <<>>
      <4>1. sender.to \in Seq(Sockets) /\ Len(sender.to) \in Nat /\ Len(sender.to) # 0
        BY <3>1 DEF SendingInv
      <4>2. Len(Tail(sender.to)) = Len(sender.to) - 1 /\ Len(sender.to) - 1 # 0
        BY <2>3, <4>1
      <4> QED
        BY <4>2
    <3> QED
      BY <3>1, <3>2, <3>3 DEF HolderInv
  <2> QED
    BY <2>2, <2>3
<1>6. CASE SyncLock
  BY <1>6 DEF SyncLock, HolderInv
<1>7. ASSUME NEW k \in Ids, SyncPath(k) PROVE HolderInv'
  <2>1. mutex = "syncer"
    BY <1>7 DEF SyncPath, IdsInv, MutexInv
  <2>2. CASE syncer = {k}
    BY <1>7, <2>2 DEF SyncPath, MutexAfter, HolderInv, Free
  <2>3. CASE syncer # {k}
    <3>1. mutex' = "syncer" /\ syncer' # {}
      BY <1>7, <2>1, <2>3 DEF SyncPath, MutexAfter
    <3> QED
      BY <3>1 DEF HolderInv
  <2> QED
    BY <2>2, <2>3
<1>8. ASSUME NEW c \in Clients, Client(c) PROVE HolderInv'
  BY <1>1, <1>8 DEF Client, serverVars
<1>9. CASE UNCHANGED vars
  BY <1>1, <1>9 DEF vars, serverVars
<1> QED
  BY <1>2, <1>3, <1>4, <1>5, <1>6, <1>7, <1>8, <1>9
  DEF Next, Server, ServerNext, SenderNext, SyncerNext

LEMMA NextSending ==
    ASSUME IdsInv, ListInv, TasksInv, SendingInv, [Next]_vars
    PROVE  SendingInv'
<1>1. ASSUME UNCHANGED <<sender, syncer>> PROVE SendingInv'
  BY <1>1 DEF SendingInv
<1>2. CASE AcceptorNext
  BY <1>1, <1>2 DEF AcceptorNext, Accept, AcceptFails, Refuse, Admit, Register
<1>3. ASSUME NEW c \in Clients, HandlerNext(c) PROVE SendingInv'
  BY <1>1, <1>3 DEF HandlerNext, Receive, EnterRequest, CreateRespond, CreateAdd, KeyInput,
                    MouseInput, ExitRequest, Leave, Close
<1>4. CASE SendLock
  <2> DEFINE task == Head(sendQueue)
  <2>1. task \in ToSet(sendQueue)
    BY <1>4, SetOf DEF SendLock, IdsInv, Types, ServerTypes
  <2>2. sender'.to = Recipients(task) /\ syncer' = syncer
    BY <1>4 DEF SendLock
  <2> HIDE DEF task
  <2>3. Recipients(task) \in Seq(Sockets)
    BY <2>1 DEF Recipients, TasksInv, ForClients, ListInv
  <2> QED
    BY <2>2, <2>3 DEF SendingInv
<1>5. CASE SendOne
  <2>1. /\ sender'.to = <<>> \/ sender'.to = Tail(sender.to)
        /\ sender.to # <<>> /\ syncer' = syncer
    BY <1>5 DEF SendOne, NoTask
  <2>2. <<>> \in Seq(Sockets) /\ Tail(sender.to) \in Seq(Sockets)
    BY <2>1 DEF SendingInv
  <2> QED
    BY <2>1, <2>2 DEF SendingInv
<1>6. CASE SyncerNext
  BY <1>6 DEF SyncerNext, SyncLock, SyncPath, SendingInv, Given
<1>7. ASSUME NEW c \in Clients, Client(c) PROVE SendingInv'
  BY <1>1, <1>7 DEF Client, serverVars
<1>8. CASE UNCHANGED vars
  BY <1>1, <1>8 DEF vars, serverVars
<1> QED
  BY <1>2, <1>3, <1>4, <1>5, <1>6, <1>7, <1>8 DEF Next, Server, ServerNext, SenderNext

LEMMA NextFresh ==
    ASSUME IdsInv, SendingInv, FreshInv, [Next]_vars
    PROVE  FreshInv'
<1>0. /\ serverEnd \in [Clients -> {"waiting", "up", "down"}]
      /\ socket \in [Clients -> Sockets \cup {NoSocket}]
      /\ toClient \in [Clients -> Seq(Packets)]
  BY DEF IdsInv, Types, NetTypes
<1>1. ASSUME \A c \in Clients : serverEnd'[c] = "waiting" =>
                /\ serverEnd[c] = "waiting" /\ socket'[c] = socket[c]
                /\ toClient'[c] \in {toClient[c], <<>>}
      PROVE  FreshInv'
  BY <1>1 DEF FreshInv
<1>2. ASSUME UNCHANGED <<serverEnd, socket, toClient>> PROVE FreshInv'
  BY <1>1, <1>2
<1>3. ASSUME NEW c \in Clients, CloseServerEnd(c), toClient' = toClient PROVE FreshInv'
  BY <1>0, <1>1, <1>3 DEF CloseServerEnd
<1>4. CASE AcceptorNext
  <2>1. ASSUME NEW c \in Clients, NEW s \in Sockets, Accept(c, s) PROVE FreshInv'
    BY <1>0, <1>1, <2>1 DEF Accept
  <2>2. CASE Refuse
    BY <1>3, <2>2 DEF Refuse, IdsInv, SocketInv
  <2> QED
    BY <1>2, <1>3, <1>4, <2>1, <2>2 DEF AcceptorNext, AcceptFails, Admit, Register, netVars
<1>5. ASSUME NEW c \in Clients, HandlerNext(c) PROVE FreshInv'
  <2>1. CASE Close(c)
    BY <1>3, <2>1 DEF Close
  <2>2. CASE ~ Close(c)
    BY <1>2, <1>5, <2>2 DEF HandlerNext, Receive, EnterRequest, CreateRespond, CreateAdd,
                            KeyInput, MouseInput, ExitRequest, Leave, netVars
  <2> QED
    BY <2>1, <2>2
<1>6. CASE SendOne
  <2>1. Head(sender.to) \in Sockets
    BY <1>6 DEF SendOne, SendingInv
  <2>2. \A c \in Clients : socket[c] = NoSocket => toClient'[c] = toClient[c]
    BY <1>6, <2>1 DEF SendOne, Sent, Peers
  <2>3. UNCHANGED <<serverEnd, socket>>
    BY <1>6 DEF SendOne
  <2> QED
    BY <2>2, <2>3 DEF FreshInv
<1>7. CASE SendLock \/ SyncerNext
  BY <1>2, <1>7 DEF SendLock, SyncerNext, SyncLock, SyncPath, netVars
<1>8. ASSUME NEW c \in Clients, Client(c) PROVE FreshInv'
  <2>1. UNCHANGED <<serverEnd, socket>>
    BY <1>8 DEF Client, ClientNext, Connect, PressReturn, ChangeLevel, Input, Quit, SendPacket,
                ReceivePacket, Disconnect, CloseClientEnd, netVars
  <2>2. CASE ReceivePacket(c)
    <3>1. serverEnd[c] # "waiting" /\ \A d \in Clients : d # c => toClient'[d] = toClient[d]
      BY <1>0, <2>2 DEF ReceivePacket, FreshInv
    <3> QED
      BY <1>1, <2>1, <3>1
  <2>3. CASE Disconnect(c)
    <3>1. \A d \in Clients : toClient'[d] \in {toClient[d], <<>>}
      BY <1>0, <2>3 DEF Disconnect, CloseClientEnd
    <3> QED
      BY <1>1, <2>1, <3>1
  <2>4. CASE ~ ReceivePacket(c) /\ ~ Disconnect(c)
    BY <1>2, <1>8, <2>4 DEF Client, ClientNext, Connect, PressReturn, ChangeLevel, Input,
                            Quit, SendPacket, netVars
  <2> QED
    BY <2>2, <2>3, <2>4
<1>9. CASE UNCHANGED vars
  BY <1>2, <1>9 DEF vars, netVars
<1> QED
  BY <1>4, <1>5, <1>6, <1>7, <1>8, <1>9 DEF Next, Server, ServerNext, SenderNext

LEMMA NextBacklog ==
    ASSUME IdsInv, EndsInv, BacklogInv, [Next]_vars
    PROVE  BacklogInv'
<1>0. serverEnd \in [Clients -> {"waiting", "up", "down"}]
  BY DEF IdsInv, Types, NetTypes
<1>1. ASSUME serverEnd' = serverEnd, \A c \in Clients : clientEnd'[c] = "new" => clientEnd[c] = "new"
      PROVE  BacklogInv'
  BY <1>1 DEF BacklogInv
<1>2. ASSUME NEW c \in Clients, clientEnd[c] # "new", clientEnd' = clientEnd,
             NEW e, serverEnd' = [serverEnd EXCEPT ![c] = e]
      PROVE  BacklogInv'
  BY <1>0, <1>2 DEF BacklogInv
<1>3. CASE AcceptorNext
  <2>1. ASSUME NEW c \in Clients, NEW s \in Sockets, Accept(c, s) PROVE BacklogInv'
    BY <1>2, <2>1 DEF Accept, Backlog
  <2>2. ASSUME NEW c \in Clients, AcceptFails(c) PROVE BacklogInv'
    BY <1>2, <2>2 DEF AcceptFails, Backlog, CloseServerEnd
  <2>3. CASE Refuse
    BY <1>2, <2>3 DEF Refuse, CloseServerEnd, IdsInv, SocketInv, BacklogInv
  <2> QED
    BY <1>1, <1>3, <2>1, <2>2, <2>3 DEF AcceptorNext, Admit, Register, netVars
<1>4. ASSUME NEW c \in Clients, HandlerNext(c) PROVE BacklogInv'
  <2>1. CASE Close(c)
    BY <1>2, <2>1 DEF Close, CloseServerEnd, IdsInv, SocketInv, BacklogInv
  <2>2. CASE ~ Close(c)
    BY <1>1, <1>4, <2>2 DEF HandlerNext, Receive, EnterRequest, CreateRespond, CreateAdd,
                            KeyInput, MouseInput, ExitRequest, Leave, netVars
  <2> QED
    BY <2>1, <2>2
<1>5. CASE SenderNext \/ SyncerNext
  BY <1>1, <1>5 DEF SenderNext, SendLock, SendOne, SyncerNext, SyncLock, SyncPath, netVars
<1>6. ASSUME NEW c \in Clients, Client(c) PROVE BacklogInv'
  <2>1. /\ serverEnd' = serverEnd
        /\ \/ clientEnd' = clientEnd
           \/ clientEnd' = [clientEnd EXCEPT ![c] = "up"]
           \/ clientEnd' = [clientEnd EXCEPT ![c] = "down"]
    BY <1>6 DEF Client, ClientNext, Connect, PressReturn, ChangeLevel, Input, Quit, SendPacket,
                ReceivePacket, Disconnect, CloseClientEnd, netVars
  <2>2. clientEnd \in [Clients -> {"new", "up", "down"}]
    BY DEF EndsInv
  <2> QED
    BY <1>1, <2>1, <2>2
<1>7. CASE UNCHANGED vars
  BY <1>1, <1>7 DEF vars, netVars
<1> QED
  BY <1>3, <1>4, <1>5, <1>6, <1>7 DEF Next, Server, ServerNext

LEMMA NextSection ==
    ASSUME IdsInv, ListInv, MeantInv, SidesInv, SectionInv, [Next]_vars
    PROVE  SectionInv'
BY NextHolder, NextSending, NextFresh, NextBacklog DEF SectionInv, SidesInv, MeantInv

\* The mutex of the server is held by the handler that puts a player into the
\* level, by the sender with a handle it has yet to send to, or by the
\* synchronizer with a path it has yet to queue (GameServer.cpp,
\* PLAYER_CREATE_REQUEST, Send, SynchronizeGameState).
THEOREM SectionInvariant == Spec => []SectionInv
<1>1. Init => SectionInv
  BY DEF Init, NetInit, ServerInit, NoTask, SectionInv, HolderInv, SendingInv, FreshInv,
         BacklogInv, Free
<1>2. IdsInv /\ ListInv /\ MeantInv /\ SidesInv /\ SectionInv /\ [Next]_vars => SectionInv'
  BY NextSection
<1> QED
  BY <1>1, <1>2, IdsInvariant, ListInvariant, MeantInvariant, SidesInvariant, PTL DEF Spec

\* The guards of the step that whoever holds the mutex takes next: a send()
\* that does not return waits for one client, which has a packet to receive.
HolderGoesOn ==
    mutex # Free =>
        \/ mutex \in Clients /\ handler[mutex].at = "add"
        \/ mutex = "syncer" /\ \E k \in Ids : k \in syncer
        \/ /\ mutex = "sender" /\ sender.to # <<>>
           /\ \/ SendReturns(Head(sender.to))
              \/ \E c \in Clients : /\ Peers(Head(sender.to)) = {c}
                                    /\ toClient[c] # <<>>
                                    /\ Head(toClient[c]).type \in ServerSends

\* Nobody keeps GameServer::mutex for good because nothing is left to do: the
\* handler and the synchronizer have their next step, and so has the sender,
\* or the one client whose buffer is full and whose Receive has a case for
\* what is in it (GameServer.cpp, Send; GameClient.cpp, Receive).
THEOREM HolderGoesOnAlways == Spec => []HolderGoesOn
<1>1. IdsInv /\ SidesInv /\ SectionInv => HolderGoesOn
  <2> SUFFICES ASSUME IdsInv, SidesInv, SectionInv, mutex = "sender",
                      ~ SendReturns(Head(sender.to))
               PROVE  /\ sender.to # <<>>
                      /\ \E c \in Clients : /\ Peers(Head(sender.to)) = {c}
                                            /\ toClient[c] # <<>>
                                            /\ Head(toClient[c]).type \in ServerSends
    BY DEF HolderGoesOn, SectionInv, HolderInv, SendingInv
  <2>1. sender.to # <<>> /\ sender.to \in Seq(Sockets)
    BY DEF SectionInv, HolderInv, SendingInv
  <2>2. Head(sender.to) \in Sockets
    BY <2>1
  <2>3. PICK c \in Peers(Head(sender.to)) : ~ (Len(toClient[c]) < Capacity)
    BY DEF SendReturns
  <2>4. c \in Clients /\ Peers(Head(sender.to)) = {c}
    BY <2>2, <2>3 DEF Peers, IdsInv, SocketInv
  <2>5. toClient[c] \in Seq(Packets) /\ toClient[c] # <<>>
    <3>1. toClient[c] \in Seq(Packets)
      BY <2>4 DEF IdsInv, Types, NetTypes
    <3>2. Len(toClient[c]) # 0
      BY <2>3, <3>1
    <3> QED
      BY <3>1, <3>2
  <2>6. Head(toClient[c]) \in ToSet(toClient[c])
    BY <2>5, SetOf
  <2> QED
    BY <2>1, <2>4, <2>5, <2>6 DEF SidesInv, ToClientInv
<1> QED
  BY <1>1, IdsInvariant, SidesInvariant, SectionInvariant, PTL

\* The steps until the mutex is released.
SectionLeft ==
    CASE mutex = "sender" -> Len(sender.to)
      [] mutex = "syncer" -> Cardinality(syncer)
      [] mutex \in Clients -> 1
      [] OTHER -> 0

\* Until it is released nobody else takes the mutex, and whoever holds it
\* only takes steps that bring the release closer.
SectionShrinks ==
    [][mutex # Free =>
          \/ mutex' = Free
          \/ mutex' = mutex /\ SectionLeft \in Nat /\ SectionLeft' < SectionLeft
          \/ mutex' = mutex /\ UNCHANGED <<sender, syncer, Creating>>]_vars

LEMMA NextSectionLeft ==
    ASSUME IdsInv, SectionInv, [Next]_vars, mutex # Free
    PROVE  \/ mutex' = Free
           \/ mutex' = mutex /\ SectionLeft \in Nat /\ SectionLeft' < SectionLeft
           \/ mutex' = mutex /\ UNCHANGED <<sender, syncer, Creating>>
<1>0. handler \in [Clients -> [at : {"new", "recv", "process", "add", "close", "ended"},
                               packet : Packets]]
  BY DEF IdsInv, Types, ServerTypes
<1>1. ASSUME UNCHANGED <<mutex, sender, syncer, handler>>
      PROVE  mutex' = mutex /\ UNCHANGED <<sender, syncer, Creating>>
  BY <1>1 DEF Creating
<1>2. CASE AcceptorNext
  BY <1>1, <1>2 DEF AcceptorNext, Accept, AcceptFails, Refuse, Admit, Register
<1>3. ASSUME NEW c \in Clients, HandlerNext(c)
      PROVE  mutex' = Free \/ (mutex' = mutex /\ UNCHANGED <<sender, syncer, Creating>>)
  <2>1. CASE handler[c].at = "add"
    <3>1. \E position \in EmptyCells : CreateAdd(c, position)
      BY <1>3, <2>1 DEF HandlerNext, Receive, EnterRequest, CreateRespond, KeyInput, MouseInput,
                        ExitRequest, Leave, Close, Processes
    <3> QED
      BY <3>1 DEF CreateAdd
  <2>2. CASE handler[c].at # "add"
    <3>1. ~ CreateRespond(c) /\ (\A position \in EmptyCells : ~ CreateAdd(c, position))
      BY <2>2 DEF CreateRespond, CreateAdd
    <3>2. UNCHANGED <<mutex, sender, syncer>>
      BY <1>3, <3>1 DEF HandlerNext, Receive, EnterRequest, KeyInput, MouseInput, ExitRequest,
                        Leave, Close
    <3>3. \A d \in Clients : d # c => handler'[d] = handler[d]
      BY <1>0, <1>3, <3>1 DEF HandlerNext, Receive, EnterRequest, KeyInput, MouseInput,
                              ExitRequest, Leave, Close, HandlerAt
    <3>4. handler'[c].at # "add"
      <4>1. \/ Receive(c)
            \/ HandlerAt(c, "recv") \/ HandlerAt(c, "close") \/ HandlerAt(c, "ended")
        BY <1>3, <3>1 DEF HandlerNext, EnterRequest, KeyInput, MouseInput, ExitRequest, Leave,
                          Close
      <4>2. CASE Receive(c)
        BY <1>0, <4>2 DEF Receive
      <4> QED
        BY <1>0, <4>1, <4>2 DEF HandlerAt
    <3>5. Creating' = Creating
      BY <2>2, <3>3, <3>4 DEF Creating
    <3> QED
      BY <3>2, <3>5
  <2> QED
    BY <2>1, <2>2
<1>4. CASE SendOne
  <2>1. mutex = "sender" /\ sender.to \in Seq(Sockets) /\ sender.to # <<>>
    BY <1>4 DEF SendOne, IdsInv, MutexInv, SectionInv, SendingInv
  <2>2. CASE Len(sender.to) = 1
    BY <1>4, <2>2 DEF SendOne, MutexAfter
  <2>3. CASE Len(sender.to) # 1
    <3>1. mutex' = mutex /\ sender'.to = Tail(sender.to)
      BY <1>4, <2>3 DEF SendOne, MutexAfter
    <3>2. Len(sender.to) \in Nat /\ Len(Tail(sender.to)) = Len(sender.to) - 1
      BY <2>1
    <3>3. SectionLeft = Len(sender.to) /\ SectionLeft' = Len(Tail(sender.to))
      BY <2>1, <3>1 DEF SectionLeft
    <3> QED
      BY <3>1, <3>2, <3>3
  <2> QED
    BY <2>2, <2>3
<1>5. ASSUME NEW k \in Ids, SyncPath(k)
      PROVE  \/ mutex' = Free
             \/ mutex' = mutex /\ SectionLeft \in Nat /\ SectionLeft' < SectionLeft
  <2>1. mutex = "syncer" /\ k \in syncer /\ syncer' = syncer \ {k}
    BY <1>5 DEF SyncPath, IdsInv, MutexInv
  <2>2. IsFiniteSet(syncer)
    <3>1. IsFiniteSet(Ids)
      BY FS_Interval DEF Ids
    <3> QED
      BY <3>1, FS_Subset DEF SectionInv, SendingInv
  <2>3. /\ Cardinality(syncer) \in Nat
        /\ Cardinality(syncer \ {k}) = Cardinality(syncer) - 1
    BY <2>1, <2>2, FS_RemoveElement, FS_CardinalityType
  <2>4. CASE syncer = {k}
    <3>1. mutex' = Free
      BY <1>5, <2>4 DEF SyncPath, MutexAfter
    <3> QED
      BY <3>1
  <2>5. CASE syncer # {k}
    <3>1. mutex' = mutex
      BY <1>5, <2>5 DEF SyncPath, MutexAfter
    <3>2. SectionLeft = Cardinality(syncer) /\ SectionLeft' = Cardinality(syncer \ {k})
      BY <2>1, <3>1 DEF SectionLeft
    <3> QED
      BY <2>3, <3>1, <3>2
  <2> QED
    BY <2>4, <2>5
<1>6. CASE UNCHANGED serverVars
  BY <1>1, <1>6 DEF serverVars
<1>7. ~ SendLock /\ ~ SyncLock
  BY DEF SendLock, SyncLock
<1>8. CASE UNCHANGED vars
  BY <1>6, <1>8 DEF vars
<1> QED
  BY <1>2, <1>3, <1>4, <1>5, <1>6, <1>7, <1>8
  DEF Next, Server, Client, ServerNext, SenderNext, SyncerNext

\* A section of the server's mutex ends after as many steps as it has tasks
\* left: one player, the handles of a send, the paths of a round; and in
\* between nobody takes the mutex away (GameServer.cpp, where ReleaseMutex
\* follows each of these loops).
THEOREM SectionAlwaysShrinks == Spec => SectionShrinks
<1>1. IdsInv /\ SectionInv /\ [Next]_vars =>
         [mutex # Free =>
             \/ mutex' = Free
             \/ mutex' = mutex /\ SectionLeft \in Nat /\ SectionLeft' < SectionLeft
             \/ mutex' = mutex /\ UNCHANGED <<sender, syncer, Creating>>]_vars
  BY NextSectionLeft
<1> QED
  BY <1>1, IdsInvariant, SectionInvariant, PTL DEF Spec, SectionShrinks

\* Room for the send() that is waited for stays room until that send() is
\* made, whatever becomes of the connection.
RoomStays ==
    [][sender.to # <<>> /\ UNCHANGED sender /\ SendReturns(Head(sender.to))
          => SendReturns(Head(sender.to))']_vars

LEMMA NextRoom ==
    ASSUME IdsInv, EndsInv, SectionInv, [Next]_vars, sender.to # <<>>, sender' = sender,
           NEW s \in Sockets, SendReturns(s)
    PROVE  SendReturns(s)'
<1>0. /\ socket \in [Clients -> Sockets \cup {NoSocket}]
      /\ toClient \in [Clients -> Seq(Packets)]
      /\ clientEnd \in [Clients -> {"new", "up", "down"}]
      /\ \A c \in Clients : Len(toClient[c]) \in Nat
  BY DEF IdsInv, Types, NetTypes, EndsInv
<1>1. ASSUME \A c \in Peers(s)' : \/ toClient'[c] = <<>>
                                  \/ c \in Peers(s) /\ toClient'[c] = toClient[c]
      PROVE  SendReturns(s)'
  <2>1. \A c \in Peers(s)' : Len(toClient'[c]) < Capacity
    BY <1>1 DEF SendReturns
  <2> QED
    BY <2>1 DEF SendReturns
<1>2. ASSUME UNCHANGED <<socket, clientEnd, toClient>> PROVE SendReturns(s)'
  BY <1>1, <1>2 DEF Peers
<1>3. ASSUME NEW c \in Clients, CloseServerEnd(c), UNCHANGED <<clientEnd, toClient>>
      PROVE  SendReturns(s)'
  BY <1>0, <1>1, <1>3 DEF CloseServerEnd, Peers
<1>4. CASE AcceptorNext
  <2>1. ASSUME NEW c \in Clients, NEW r \in Sockets, Accept(c, r) PROVE SendReturns(s)'
    <3>1. toClient'[c] = <<>>
      BY <2>1 DEF Accept, Backlog, SectionInv, FreshInv
    <3> QED
      BY <1>0, <1>1, <2>1, <3>1 DEF Accept, Peers
  <2>2. CASE Refuse
    BY <1>3, <2>2 DEF Refuse, IdsInv, SocketInv
  <2> QED
    BY <1>2, <1>3, <1>4, <2>1, <2>2 DEF AcceptorNext, AcceptFails, Admit, Register, netVars
<1>5. ASSUME NEW c \in Clients, HandlerNext(c) PROVE SendReturns(s)'
  <2>1. CASE Close(c)
    BY <1>3, <2>1 DEF Close
  <2>2. CASE ~ Close(c)
    BY <1>2, <1>5, <2>2 DEF HandlerNext, Receive, EnterRequest, CreateRespond, CreateAdd,
                            KeyInput, MouseInput, ExitRequest, Leave, netVars
  <2> QED
    BY <2>1, <2>2
<1>6. ~ SendOne
  <2> SUFFICES ASSUME SendOne PROVE FALSE
    OBVIOUS
  <2>1. sender.to \in Seq(Sockets) /\ sender.to # <<>>
    BY DEF SectionInv, SendingInv
  <2>2. sender'.to = <<>> \/ sender'.to = Tail(sender.to)
    BY DEF SendOne, NoTask
  <2>3. Len(Tail(sender.to)) # Len(sender.to)
    BY <2>1
  <2> QED
    BY <2>1, <2>2, <2>3
<1>7. CASE SendLock \/ SyncerNext
  BY <1>2, <1>7 DEF SendLock, SyncerNext, SyncLock, SyncPath, netVars
<1>8. ASSUME NEW c \in Clients, Client(c) PROVE SendReturns(s)'
  <2>1. CASE Connect(c)
    <3>1. socket[c] # s
      BY <2>1 DEF Connect, SectionInv, BacklogInv, FreshInv
    <3>2. \A d \in Peers(s)' : d \in Peers(s)
      BY <1>0, <2>1, <3>1 DEF Connect, Peers
    <3> QED
      BY <1>1, <2>1, <3>2 DEF Connect
  <2>2. CASE ReceivePacket(c)
    <3>1. PICK n \in 1..Len(toClient[c]) :
             toClient' = [toClient EXCEPT ![c] = SubSeq(toClient[c], n + 1, Len(toClient[c]))]
      BY <2>2 DEF ReceivePacket, Received
    <3>2. toClient[c] \in Seq(Packets)
      BY <1>0
    <3>3. Len(SubSeq(toClient[c], n + 1, Len(toClient[c]))) = Len(toClient[c]) - n
      BY <3>2
    <3>4. Peers(s)' = Peers(s)
      BY <2>2 DEF ReceivePacket, Peers
    <3>5. \A d \in Clients : Len(toClient'[d]) <= Len(toClient[d]) /\ Len(toClient'[d]) \in Nat
      BY <1>0, <3>1, <3>3
    <3>6. \A d \in Peers(s) : d \in Clients /\ Len(toClient[d]) < Capacity
      BY DEF SendReturns, Peers
    <3>7. \A d \in Peers(s)' : Len(toClient'[d]) < Capacity
      BY <1>0, <3>4, <3>5, <3>6
    <3> QED
      BY <3>7 DEF SendReturns
  <2>3. CASE Disconnect(c)
    <3>1. \A d \in Peers(s)' : d \in Peers(s) /\ d # c
      BY <1>0, <2>3 DEF Disconnect, CloseClientEnd, Peers
    <3>2. \A d \in Clients : d # c => toClient'[d] = toClient[d]
      BY <1>0, <2>3 DEF Disconnect, CloseClientEnd
    <3> QED
      BY <1>1, <3>1, <3>2 DEF Peers
  <2>4. CASE ~ Connect(c) /\ ~ ReceivePacket(c) /\ ~ Disconnect(c)
    BY <1>2, <1>8, <2>4 DEF Client, ClientNext, PressReturn, ChangeLevel, Input, Quit,
                            SendPacket, netVars
  <2> QED
    BY <2>1, <2>2, <2>3, <2>4
<1>9. CASE UNCHANGED vars
  BY <1>2, <1>9 DEF vars, netVars
<1> QED
  BY <1>4, <1>5, <1>6, <1>7, <1>8, <1>9 DEF Next, Server, ServerNext, SenderNext

\* Once the client has received (GameClient.cpp, Receive), or its connection
\* is gone, even if the handle is given away, the send() of the sender
\* returns: no other thread sends to a client.
THEOREM RoomAlwaysStays == Spec => RoomStays
<1>1. IdsInv /\ MeantInv /\ SectionInv /\ [Next]_vars =>
         [sender.to # <<>> /\ UNCHANGED sender /\ SendReturns(Head(sender.to))
             => SendReturns(Head(sender.to))']_vars
  <2> SUFFICES ASSUME IdsInv, MeantInv, SectionInv, [Next]_vars,
                      sender.to # <<>>, sender' = sender, SendReturns(Head(sender.to))
               PROVE  SendReturns(Head(sender.to))'
    OBVIOUS
  <2>1. PICK s \in Sockets : s = Head(sender.to) /\ s = Head(sender'.to)
    BY DEF SectionInv, SendingInv
  <2>2. SendReturns(s)'
    BY <2>1, NextRoom DEF MeantInv
  <2> QED
    BY <2>1, <2>2
<1> QED
  BY <1>1, IdsInvariant, MeantInvariant, SectionInvariant, PTL DEF Spec, RoomStays

\* A connection the server has accepted has somebody who will close it: the
\* acceptor that is about to start its handler, or that handler, which is
\* never at a packet it has no case for.
SomebodyCloses ==
    \A c \in Clients : serverEnd[c] = "up" =>
        \/ /\ handler[c].at = "new"
           /\ acceptor.at = "admit" /\ acceptor.client = c
        \/ handler[c].at \in {"recv", "add", "close"}
        \/ handler[c].at = "process" /\ handler[c].packet.type \in ClientSends

ClosingInv ==
    \A c \in Clients : serverEnd[c] = "up" =>
        /\ handler[c].at # "ended"
        /\ handler[c].at = "new" => acceptor.at = "admit" /\ acceptor.client = c

LEMMA NextClosing ==
    ASSUME IdsInv, ClosingInv, [Next]_vars
    PROVE  ClosingInv'
<1>0. /\ serverEnd \in [Clients -> {"waiting", "up", "down"}]
      /\ handler \in [Clients -> [at : {"new", "recv", "process", "add", "close", "ended"},
                                  packet : Packets]]
  BY DEF IdsInv, Types, NetTypes, ServerTypes
<1>1. ASSUME UNCHANGED <<serverEnd, acceptor>>,
             \A c \in Clients : \/ handler'[c] = handler[c]
                                \/ handler'[c].at \notin {"new", "ended"}
      PROVE  ClosingInv'
  BY <1>1 DEF ClosingInv
<1>2. CASE AcceptorNext
  <2>1. ASSUME NEW c \in Clients, NEW s \in Sockets, Accept(c, s) PROVE ClosingInv'
    <3>1. handler[c].at = "new" /\ acceptor'.at = "admit" /\ acceptor'.client = c
      BY <2>1 DEF Accept, AcceptorAt, Backlog, IdsInv, SocketInv
    <3>2. \A d \in Clients : d # c => serverEnd'[d] = serverEnd[d]
      BY <1>0, <2>1 DEF Accept
    <3>3. acceptor.at # "admit" /\ handler' = handler
      BY <2>1 DEF Accept
    <3> QED
      BY <3>1, <3>2, <3>3 DEF ClosingInv
  <2>2. ASSUME NEW c \in Clients, AcceptFails(c) PROVE ClosingInv'
    <3>1. serverEnd' = [serverEnd EXCEPT ![c] = "down"] /\ handler' = handler
          /\ acceptor.at # "admit"
      BY <2>2 DEF AcceptFails, CloseServerEnd
    <3> QED
      BY <1>0, <3>1 DEF ClosingInv
  <2>3. CASE Refuse
    <3>1. serverEnd' = [serverEnd EXCEPT ![acceptor.client] = "down"] /\ handler' = handler
      BY <2>3 DEF Refuse, CloseServerEnd
    <3> QED
      BY <1>0, <3>1 DEF ClosingInv
  <2>4. CASE Admit
    <3>1. handler' = [handler EXCEPT ![acceptor.client].at = "recv"] /\ serverEnd' = serverEnd
      BY <2>4 DEF Admit, netVars
    <3>2. \A c \in Clients : /\ c = acceptor.client => handler'[c].at = "recv"
                             /\ c # acceptor.client => handler'[c] = handler[c]
      BY <1>0, <3>1
    <3> QED
      BY <3>1, <3>2 DEF ClosingInv
  <2>5. CASE Register
    <3>1. acceptor.at # "admit" /\ serverEnd' = serverEnd /\ handler' = handler
      BY <2>5 DEF Register, netVars
    <3> QED
      BY <3>1 DEF ClosingInv
  <2> QED
    BY <1>2, <2>1, <2>2, <2>3, <2>4, <2>5 DEF AcceptorNext
<1>3. ASSUME NEW c \in Clients, HandlerNext(c) PROVE ClosingInv'
  <2>1. CASE Close(c)
    <3>1. /\ serverEnd' = [serverEnd EXCEPT ![c] = "down"] /\ acceptor' = acceptor
          /\ handler' = [handler EXCEPT ![c].at = "ended"]
      BY <2>1 DEF Close, CloseServerEnd, HandlerAt
    <3> QED
      BY <1>0, <3>1 DEF ClosingInv
  <2>2. CASE ~ Close(c)
    <3>1. UNCHANGED <<serverEnd, acceptor>>
      BY <1>3, <2>2 DEF HandlerNext, Receive, EnterRequest, CreateRespond, CreateAdd, KeyInput,
                        MouseInput, ExitRequest, Leave, netVars
    <3>2. \/ Receive(c) \/ CreateRespond(c)
          \/ HandlerAt(c, "recv") \/ HandlerAt(c, "close")
      BY <1>3, <2>2 DEF HandlerNext, EnterRequest, CreateAdd, KeyInput, MouseInput, ExitRequest,
                        Leave
    <3>3. \A d \in Clients : \/ handler'[d] = handler[d]
                             \/ handler'[d].at \notin {"new", "ended"}
      <4>1. CASE Receive(c)
        BY <1>0, <4>1 DEF Receive
      <4>2. CASE CreateRespond(c)
        BY <1>0, <4>2 DEF CreateRespond
      <4> QED
        BY <1>0, <3>2, <4>1, <4>2 DEF HandlerAt
    <3> QED
      BY <1>1, <3>1, <3>3
  <2> QED
    BY <2>1, <2>2
<1>4. CASE SenderNext \/ SyncerNext
  BY <1>1, <1>4 DEF SenderNext, SendLock, SendOne, SyncerNext, SyncLock, SyncPath, netVars
<1>5. ASSUME NEW c \in Clients, Client(c) PROVE ClosingInv'
  <2>1. UNCHANGED <<serverEnd, acceptor, handler>>
    BY <1>5 DEF Client, serverVars, ClientNext, Connect, PressReturn, ChangeLevel, Input, Quit,
                SendPacket, ReceivePacket, Disconnect, CloseClientEnd, netVars
  <2> QED
    BY <1>1, <2>1
<1>6. CASE UNCHANGED vars
  BY <1>1, <1>6 DEF vars, netVars, serverVars
<1> QED
  BY <1>2, <1>3, <1>4, <1>5, <1>6 DEF Next, Server, ServerNext

\* No connection is left open without a thread that gets to its closesocket
\* (GameServer.cpp, AcceptClients and HandleClient).
THEOREM SomebodyAlwaysCloses == Spec => []SomebodyCloses
<1>1. Init => ClosingInv
  BY DEF Init, NetInit, ClosingInv
<1>2. IdsInv /\ ClosingInv /\ [Next]_vars => ClosingInv'
  BY NextClosing
<1>3. IdsInv /\ SidesInv /\ ClosingInv => SomebodyCloses
  <2> SUFFICES ASSUME IdsInv, SidesInv, ClosingInv, NEW c \in Clients, serverEnd[c] = "up"
               PROVE  \/ /\ handler[c].at = "new"
                         /\ acceptor.at = "admit" /\ acceptor.client = c
                      \/ handler[c].at \in {"recv", "add", "close"}
                      \/ handler[c].at = "process" /\ handler[c].packet.type \in ClientSends
    BY DEF SomebodyCloses
  <2>1. handler[c].at \in {"new", "recv", "process", "add", "close", "ended"}
    BY DEF IdsInv, Types, ServerTypes
  <2>2. handler[c].at = "process" => handler[c].packet.type \in ClientSends
    BY DEF SidesInv, RequestsInv, Requests
  <2> QED
    BY <2>1, <2>2 DEF ClosingInv
<1> QED
  BY <1>1, <1>2, <1>3, IdsInvariant, SidesInvariant, PTL DEF Spec

\* The steps, at most, that the server takes for c until it has closed the
\* connection of a client that has ended.
Stages == [at \in {"new", "process", "add", "recv", "close", "ended"} |->
              CASE at = "new"     -> 6
                [] at = "process" -> 5
                [] at = "add"     -> 4
                [] at = "recv"    -> 3
                [] at = "close"   -> 1
                [] at = "ended"   -> 0]

Ahead(c) == 3 * Len(toServer[c]) + Stages[handler[c].at]

DeadShrinks ==
    [][\A c \in Clients : clientEnd[c] = "down" =>
          /\ clientEnd'[c] = "down"
          /\ Ahead(c) \in Nat /\ Ahead(c)' <= Ahead(c)
          /\ handler'[c].at # handler[c].at => Ahead(c)' < Ahead(c)]_vars

\* A step of the server, or of another client, moves c's handler on or
\* leaves it, and adds nothing to what it has yet to receive.
MovesOn(c) ==
    /\ clientEnd'[c] = "down"
    /\ \/ toServer'[c] = toServer[c] /\ handler'[c].at = handler[c].at
       \/ /\ Len(toServer'[c]) <= Len(toServer[c])
          /\ Stages[handler'[c].at] < Stages[handler[c].at]
       \/ /\ Len(toServer'[c]) < Len(toServer[c])
          /\ handler[c].at = "recv" /\ handler'[c].at = "process"
       \/ toServer'[c] = <<>> /\ handler'[c].at = handler[c].at

LEMMA StagesGoDown ==
    /\ \A at \in {"new", "process", "add", "recv", "close", "ended"} : Stages[at] \in Nat
    /\ Stages["recv"] < Stages["new"] /\ Stages["recv"] < Stages["process"]
    /\ Stages["recv"] < Stages["add"] /\ Stages["add"] < Stages["process"]
    /\ Stages["close"] < Stages["recv"] /\ Stages["ended"] < Stages["close"]
    /\ Stages["process"] < Stages["recv"] + 3
BY DEF Stages

LEMMA NextMovesOn ==
    ASSUME IdsInv, EndsInv, [Next]_vars, NEW c \in Clients, clientEnd[c] = "down"
    PROVE  MovesOn(c)
<1>0. /\ toServer \in [Clients -> Seq(Packets)]
      /\ handler \in [Clients -> [at : {"new", "recv", "process", "add", "close", "ended"},
                                  packet : Packets]]
      /\ clientEnd \in [Clients -> {"new", "up", "down"}]
      /\ toServer[c] \in Seq(Packets) /\ Len(toServer[c]) \in Nat
      /\ Len(<<>>) <= Len(toServer[c])
  BY DEF IdsInv, Types, NetTypes, ServerTypes, EndsInv
<1>1. ASSUME UNCHANGED <<toServer, handler, clientEnd>> PROVE MovesOn(c)
  BY <1>1 DEF MovesOn
<1>2. ASSUME NEW d \in Clients, CloseServerEnd(d), UNCHANGED <<handler, clientEnd>>
      PROVE  MovesOn(c)
  <2>1. toServer'[c] = toServer[c] \/ toServer'[c] = <<>>
    BY <1>0, <1>2 DEF CloseServerEnd
  <2> QED
    BY <1>2, <2>1 DEF MovesOn
<1>3. ASSUME NEW d \in Clients, NEW at \in {"recv", "close"}, HandlerAt(d, at),
             Stages[at] < Stages[handler[d].at], UNCHANGED <<toServer, clientEnd>>
      PROVE  MovesOn(c)
  <2>1. CASE c = d
    <3>1. handler'[c].at = at
      BY <1>0, <1>3, <2>1 DEF HandlerAt
    <3>2. Len(toServer'[c]) <= Len(toServer[c])
      BY <1>0, <1>3
    <3> QED
      BY <1>3, <2>1, <3>1, <3>2 DEF MovesOn
  <2>2. CASE c # d
    BY <1>0, <1>3, <2>2 DEF HandlerAt, MovesOn
  <2> QED
    BY <2>1, <2>2
<1>4. CASE AcceptorNext
  <2>1. CASE Admit
    <3>1. /\ HandlerAt(acceptor.client, "recv") /\ UNCHANGED <<toServer, clientEnd>>
          /\ acceptor.client \in Clients /\ handler[acceptor.client].at = "new"
      BY <2>1 DEF Admit, HandlerAt, netVars, IdsInv, SocketInv
    <3> QED
      BY <1>3, <3>1, StagesGoDown
  <2>2. CASE Refuse
    BY <1>2, <2>2 DEF Refuse, IdsInv, SocketInv
  <2> QED
    BY <1>1, <1>2, <1>4, <2>1, <2>2 DEF AcceptorNext, Accept, AcceptFails, Register, netVars
<1>5. ASSUME NEW d \in Clients, HandlerNext(d), d # c PROVE MovesOn(c)
  <2>1. /\ toServer'[c] = toServer[c] /\ clientEnd' = clientEnd
    BY <1>0, <1>5 DEF HandlerNext, Receive, EnterRequest, CreateRespond, CreateAdd, KeyInput,
                      MouseInput, ExitRequest, Leave, Close, CloseServerEnd, netVars
  <2>2. handler'[c] = handler[c]
    BY <1>0, <1>5 DEF HandlerNext, Receive, EnterRequest, CreateRespond, CreateAdd, KeyInput,
                      MouseInput, ExitRequest, Leave, Close, HandlerAt
  <2> QED
    BY <2>1, <2>2 DEF MovesOn
<1>6. ASSUME HandlerNext(c) PROVE MovesOn(c)
  <2>1. CASE Receive(c)
    <3>1. PICK n \in 1..Len(toServer[c]) :
             toServer' = [toServer EXCEPT ![c] = SubSeq(toServer[c], n + 1, Len(toServer[c]))]
      BY <2>1 DEF Receive, Received
    <3>2. Len(SubSeq(toServer[c], n + 1, Len(toServer[c]))) = Len(toServer[c]) - n
      BY <1>0
    <3>3. Len(toServer'[c]) < Len(toServer[c])
      BY <1>0, <3>1, <3>2
    <3>4. handler[c].at = "recv" /\ handler'[c].at = "process" /\ clientEnd' = clientEnd
      BY <1>0, <2>1 DEF Receive
    <3> QED
      BY <3>3, <3>4 DEF MovesOn
  <2>2. CASE CreateRespond(c)
    <3>1. /\ handler[c].at = "process" /\ handler'[c].at = "add"
          /\ UNCHANGED <<toServer, clientEnd>>
      BY <1>0, <2>2 DEF CreateRespond, Processes, netVars
    <3>2. Len(toServer'[c]) <= Len(toServer[c])
      BY <1>0, <3>1
    <3> QED
      BY <3>1, <3>2, StagesGoDown DEF MovesOn
  <2>3. CASE Leave(c)
    <3>1. /\ handler[c].at = "recv" /\ HandlerAt(c, "close")
          /\ UNCHANGED <<toServer, clientEnd>>
      BY <2>3 DEF Leave, netVars
    <3> QED
      BY <1>3, <3>1, StagesGoDown
  <2>4. CASE Close(c)
    <3>1. /\ handler[c].at = "close" /\ handler'[c].at = "ended"
          /\ toServer'[c] = <<>> /\ clientEnd' = clientEnd
      BY <1>0, <2>4 DEF Close, CloseServerEnd, HandlerAt
    <3> QED
      BY <1>0, <3>1, StagesGoDown DEF MovesOn
  <2>5. CASE ~ Receive(c) /\ ~ CreateRespond(c) /\ ~ Leave(c) /\ ~ Close(c)
    <3>1. /\ handler[c].at \in {"process", "add"} /\ HandlerAt(c, "recv")
          /\ UNCHANGED <<toServer, clientEnd>>
      BY <1>6, <2>5 DEF HandlerNext, EnterRequest, CreateAdd, KeyInput, MouseInput, ExitRequest,
                        Processes, netVars
    <3> QED
      BY <1>3, <3>1, StagesGoDown
  <2> QED
    BY <2>1, <2>2, <2>3, <2>4, <2>5
<1>7. CASE SenderNext \/ SyncerNext
  BY <1>1, <1>7 DEF SenderNext, SendLock, SendOne, SyncerNext, SyncLock, SyncPath, netVars
<1>8. ASSUME NEW d \in Clients, Client(d) PROVE MovesOn(c)
  <2>1. handler' = handler
    BY <1>8 DEF Client, serverVars
  <2>2. CASE Connect(d)
    <3>1. d # c /\ toServer' = toServer /\ clientEnd' = [clientEnd EXCEPT ![d] = "up"]
      BY <2>2 DEF Connect
    <3> QED
      BY <1>0, <2>1, <3>1 DEF MovesOn
  <2>3. CASE SendPacket(d)
    <3>1. d # c /\ clientEnd' = clientEnd
      BY <2>3 DEF SendPacket
    <3>2. toServer'[c] = toServer[c]
      BY <1>0, <2>3, <3>1 DEF SendPacket
    <3> QED
      BY <2>1, <3>1, <3>2 DEF MovesOn
  <2>4. CASE Disconnect(d)
    <3>1. /\ d # c /\ clientEnd' = [clientEnd EXCEPT ![d] = "down"]
          /\ toServer' = toServer \/ toServer' = [toServer EXCEPT ![d] = <<>>]
      BY <2>4 DEF Disconnect, CloseClientEnd
    <3>2. toServer'[c] = toServer[c] /\ clientEnd'[c] = "down"
      BY <1>0, <3>1
    <3> QED
      BY <2>1, <3>2 DEF MovesOn
  <2>5. CASE ~ Connect(d) /\ ~ SendPacket(d) /\ ~ Disconnect(d)
    BY <1>1, <1>8, <2>1, <2>5 DEF Client, ClientNext, PressReturn, ChangeLevel, Input, Quit,
                                  ReceivePacket, netVars
  <2> QED
    BY <2>2, <2>3, <2>4, <2>5
<1>9. CASE UNCHANGED vars
  BY <1>1, <1>9 DEF vars, netVars, serverVars
<1> QED
  BY <1>4, <1>5, <1>6, <1>7, <1>8, <1>9 DEF Next, Server, ServerNext

\* A client that has ended stays so, nothing joins what the server has yet to
\* receive of it, and every step of its handler (GameServer.cpp, HandleClient)
\* brings the closesocket closer.
THEOREM DeadAlwaysShrink == Spec => DeadShrinks
<1>1. ASSUME IdsInv, MeantInv, [Next]_vars, NEW c \in Clients, clientEnd[c] = "down"
      PROVE  /\ clientEnd'[c] = "down"
             /\ Ahead(c) \in Nat /\ Ahead(c)' <= Ahead(c)
             /\ handler'[c].at # handler[c].at => Ahead(c)' < Ahead(c)
  <2>1. MovesOn(c)
    BY <1>1, NextMovesOn DEF MeantInv
  <2>2. Types /\ Types'
    BY <1>1, NextTypes DEF IdsInv
  <2> DEFINE n == Len(toServer[c])
             m == Len(toServer'[c])
             a == Stages[handler[c].at]
             b == Stages[handler'[c].at]
  <2>3. n \in Nat /\ m \in Nat /\ a \in Nat /\ b \in Nat
    <3>1. n \in Nat /\ m \in Nat
      BY <2>2 DEF Types, NetTypes
    <3>2. a \in Nat
      BY <2>2, StagesGoDown DEF Types, ServerTypes
    <3>3. b \in Nat
      BY <2>2, StagesGoDown DEF Types, ServerTypes
    <3> QED
      BY <3>1, <3>2, <3>3
  <2>4. \/ m = n /\ handler'[c].at = handler[c].at /\ a = b
        \/ m <= n /\ b < a
        \/ m < n /\ b < a + 3
        \/ m = 0 /\ handler'[c].at = handler[c].at /\ a = b
    BY <2>1, StagesGoDown DEF MovesOn
  <2>5. Ahead(c) = 3 * n + a /\ Ahead(c)' = 3 * m + b
    BY DEF Ahead
  <2> HIDE DEF n, m, a, b
  <2>6. /\ 3 * n + a \in Nat /\ 3 * m + b <= 3 * n + a
        /\ handler'[c].at # handler[c].at => 3 * m + b < 3 * n + a
    BY <2>3, <2>4
  <2> QED
    BY <2>1, <2>5, <2>6 DEF MovesOn
<1>2. IdsInv /\ MeantInv /\ [Next]_vars =>
         [\A c \in Clients : clientEnd[c] = "down" =>
             /\ clientEnd'[c] = "down"
             /\ Ahead(c) \in Nat /\ Ahead(c)' <= Ahead(c)
             /\ handler'[c].at # handler[c].at => Ahead(c)' < Ahead(c)]_vars
  BY <1>1
<1> QED
  BY <1>2, IdsInvariant, MeantInvariant, PTL DEF Spec, DeadShrinks
=============================================================================
