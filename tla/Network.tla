------------------------------ MODULE Network ------------------------------
(***************************************************************************)
(* The connections between the clients and the server, as the code uses    *)
(* Winsock: one TCP connection per client, blocking send and recv.         *)
(*                                                                         *)
(*   - packets arrive in order and none is lost while both ends are open;  *)
(*   - a packet carries no boundary: one recv may return several of them,  *)
(*     which is what both receive loops process as one packet;             *)
(*   - send blocks while the peer has no room, and fails (nobody looks at  *)
(*     the result) when the connection is gone;                            *)
(*   - a handle that was closed is given to a later connection.            *)
(*                                                                         *)
(* A recv never returns part of a packet here: what is in flight is taken  *)
(* to fit the receive buffer of 4096 bytes.                                *)
(***************************************************************************)
EXTENDS Naturals, Sequences

CONSTANTS
    Clients,    \* the client processes; each connects once
    Sockets,    \* the handles the server's end of a connection may get
    NoSocket,   \* not a handle
    Capacity    \* bound: how many packets a direction of a connection holds

ASSUME NetworkAssumption ==
    /\ NoSocket \notin Sockets
    /\ Capacity \in Nat \ {0}

VARIABLES
    serverUp,   \* as in module GameLevel
    clientEnd,  \* the client's end: "new", "up" or "down"
    serverEnd,  \* the server's end: "waiting" to be accepted, "up" or "down"
    socket,     \* the handle of the server's end while it is up
    toServer,   \* the packets a client sent and the server has not received
    toClient    \* the packets the server sent and the client has not received

netVars == <<clientEnd, serverEnd, socket, toServer, toClient>>

PacketType == { "ENTER", "CREATE", "KEY", "MOUSE", "EXIT",
                "ENTER_RESPOND", "CREATE_RESPOND", "STATE", "PATH" }

\* What a packet is about: its type, and the id of a player (0: of none).
Packet(type, id) == [type |-> type, id |-> id]

NetInit ==
    /\ clientEnd = [c \in Clients |-> "new"]
    /\ serverEnd = [c \in Clients |-> "waiting"]
    /\ socket = [c \in Clients |-> NoSocket]
    /\ toServer = [c \in Clients |-> <<>>]
    /\ toClient = [c \in Clients |-> <<>>]

\* The connections accept may return.
Backlog == { c \in Clients : clientEnd[c] # "new" /\ serverEnd[c] = "waiting" }

FreeSockets == Sockets \ { socket[c] : c \in Clients }

\* The client whose connection a handle stands for, if it is still there.
Peers(s) == { c \in Clients : socket[c] = s /\ clientEnd[c] = "up" }

\* send() on the handle s returns.
SendReturns(s) == \A c \in Peers(s) : Len(toClient[c]) < Capacity

\* What send(s, p) does; with no peer it fails.
Sent(s, p) ==
    [c \in Clients |-> IF c \in Peers(s) THEN Append(toClient[c], p) ELSE toClient[c]]

\* recv: some of the packets that have arrived, at least one.
Received(packets) == { SubSeq(packets, n + 1, Len(packets)) : n \in 1..Len(packets) }

\* closesocket on the server's end of a connection.
CloseServerEnd(c) ==
    /\ serverEnd' = [serverEnd EXCEPT ![c] = "down"]
    /\ socket' = [socket EXCEPT ![c] = NoSocket]
    /\ toServer' = [toServer EXCEPT ![c] = <<>>]

\* The client's process ends or closes its end.  What it had not read is
\* gone; what it had sent reaches the server unless the connection is reset.
CloseClientEnd(c) ==
    /\ clientEnd' = [clientEnd EXCEPT ![c] = "down"]
    /\ toServer' \in { toServer, [toServer EXCEPT ![c] = <<>>] }
    /\ toClient' = [toClient EXCEPT ![c] = <<>>]
=============================================================================
