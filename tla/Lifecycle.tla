----------------------------- MODULE Lifecycle -----------------------------
(***************************************************************************)
(* Start and stop of the processes: what main and the destructors do with  *)
(* what the threads still use, and what each thread then does.  Packets    *)
(* and the world are those of HideAndSeek; here a handler has a packet or  *)
(* not, and a level exists or is deleted.                                  *)
(*                                                                         *)
(* Client and connection have one name.  A section under the mutex is one  *)
(* step (MutexIsReleased of HideAndSeek: every section ends).  What a      *)
(* thread does with memory that was freed, or to a vector that another one *)
(* uses, is undefined: the process survives it or not.                     *)
(***************************************************************************)
EXTENDS Naturals, FiniteSets

CONSTANTS
    Sockets,        \* the clients, each with one connection
    MaxClients,     \* 8 in AcceptClients
    MaxWait,        \* MAXIMUM_WAIT_OBJECTS of Windows, 64
    MaxUnread,      \* bound: packets of a client that is gone and not yet read
    Nobody          \* no connection

ASSUME LifecycleAssumption ==
    /\ IsFiniteSet(Sockets)
    /\ MaxClients \in Nat \ {0} /\ MaxWait \in Nat \ {0} /\ MaxUnread \in Nat
    /\ Nobody \notin Sockets

VARIABLES
    serverUp,       \* FALSE when the server's process is gone
    main,           \* where serverMain is, ~GameServer included
    closer,         \* the thread Windows starts when the console is closed
    quit, isRunning,    \* of Engine and of GameServer
    gameLevel,      \* "none", "alive" or "deleted"
    winsock,        \* the process has its sockets: WSACleanup was not called
    mutexOpen,      \* the handle of the mutex is open
    acceptor,       \* where AcceptClients is, and with which connection
    sender, synchronizer,   \* where these threads are
    handler,        \* where each connection is, with its handler in the end
    registered,     \* whether clientThreads has that handler, and when main
                    \* would wait for it
    freed,          \* the server's memory is freed
    client,         \* where the clients' main threads are
    unread,         \* of a client that is gone, the packets it sent before and
                    \* recv still returns
    unguarded       \* history: the handlers that entered a section without
                    \* the mutex

vars == <<serverUp, main, closer, quit, isRunning, gameLevel, winsock, mutexOpen, acceptor,
          sender, synchronizer, handler, registered, freed, client, unread, unguarded>>

clientVars == <<client, unread>>

Init ==
    /\ serverUp = TRUE
    /\ main = "construct" /\ closer = "none"
    /\ quit = FALSE /\ isRunning = FALSE
    /\ gameLevel = "none" /\ winsock = TRUE
    /\ mutexOpen = TRUE
    /\ acceptor = [at |-> "none", socket |-> Nobody]
    /\ sender = "test" /\ synchronizer = "test"
    /\ handler = [s \in Sockets |-> "none"]
    /\ registered = [s \in Sockets |-> "no"]
    /\ freed = FALSE
    /\ client = [s \in Sockets |-> "new"]
    /\ unread = [s \in Sockets |-> 0]
    /\ unguarded = {}

-----------------------------------------------------------------------------

\* What is undefined ends the process or does not.
UndefinedIf(condition) ==
    IF condition THEN serverUp' \in BOOLEAN ELSE UNCHANGED serverUp

\* WaitForSingleObject(mutex, INFINITE) fails at once when the handle is closed,
\* and what the handler then does is done without the mutex.
Section(s) ==
    unguarded' = IF mutexOpen THEN unguarded ELSE unguarded \cup {s}

-----------------------------------------------------------------------------
(***************************************************************************)
(* serverMain.                                                             *)
(***************************************************************************)

MainStep(from, to) ==
    /\ main = from /\ main' = to
    /\ UNCHANGED <<client, sender, synchronizer, handler, registered, closer, unguarded>>

\* The last line of the constructor, whose threads were started before it.
SetRunning ==
    /\ MainStep("construct", "start")
    /\ isRunning' = TRUE
    /\ UNCHANGED <<serverUp, quit, gameLevel, winsock, mutexOpen, freed, acceptor, unread>>

StartAcceptor ==
    /\ MainStep("start", "test")
    /\ acceptor' = [acceptor EXCEPT !.at = "test"]
    /\ UNCHANGED <<serverUp, quit, isRunning, gameLevel, winsock, mutexOpen, freed, unread>>

\* IsRunning; if not, the engine is deleted.
MainTest ==
    /\ MainStep("test", IF isRunning THEN "run" ELSE "level")
    /\ UNCHANGED <<serverUp, quit, isRunning, gameLevel, winsock, mutexOpen, freed,
                   acceptor, unread>>

\* Run ends after the escape key, whose QuitGame calls Stop, or when the
\* console was closed.
Run ==
    /\ MainStep("run", "test")
    /\ \/ quit /\ UNCHANGED <<quit, isRunning>>
       \/ quit' = TRUE /\ isRunning' = FALSE
    /\ UNCHANGED <<serverUp, gameLevel, winsock, mutexOpen, freed, acceptor, unread>>

DeleteLevel ==
    /\ MainStep("level", "cleanup")
    /\ gameLevel' = IF gameLevel = "alive" THEN "deleted" ELSE gameLevel
    /\ UNCHANGED <<serverUp, quit, isRunning, winsock, mutexOpen, freed, acceptor, unread>>

\* (A variant of Cleanup: the sockets are left to the end of the process.)
CleanupNever ==
    /\ MainStep("cleanup", "waitAll")
    /\ UNCHANGED <<serverUp, quit, isRunning, gameLevel, winsock, mutexOpen, freed,
                   acceptor, unread>>

\* closesocket and WSACleanup, after which recv returns nothing of what was sent.
Cleanup ==
    /\ MainStep("cleanup", "waitAll")
    /\ winsock' = FALSE
    /\ unread' = [s \in Sockets |-> 0]
    /\ UNCHANGED <<serverUp, quit, isRunning, gameLevel, mutexOpen, freed, acceptor>>

Registered(when) == { s \in Sockets : registered[s] \in when }
Ended(threads) == \A s \in threads : handler[s] = "ended"

\* WaitForMultipleObjects takes 1 to 64 threads and fails at once otherwise;
\* then the mutex is closed.
WaitAll ==
    /\ Cardinality(Registered({"first"})) \in 1..MaxWait => Ended(Registered({"first"}))
    /\ MainStep("waitAll", "waitEach")
    /\ mutexOpen' = FALSE
    /\ UNCHANGED <<serverUp, quit, isRunning, gameLevel, winsock, freed, acceptor, unread>>

\* (A variant of WaitEach: only the sender is waited for.)
WaitSender ==
    /\ sender = "ended"
    /\ MainStep("waitEach", "join")
    /\ freed' = TRUE /\ isRunning' \in BOOLEAN
    /\ UNCHANGED <<serverUp, quit, gameLevel, winsock, mutexOpen, acceptor, unread>>

\* The loop over clientThreads, then sendThread; the memory is freed, and what
\* is where isRunning was is arbitrary.
WaitEach ==
    /\ Ended(Registered({"first", "second"})) /\ sender = "ended"
    /\ MainStep("waitEach", "join")
    /\ freed' = TRUE /\ isRunning' \in BOOLEAN
    /\ UNCHANGED <<serverUp, quit, gameLevel, winsock, mutexOpen, acceptor, unread>>

\* Main returns, and the process ends whatever threads there still are.
Join ==
    /\ acceptor.at \in {"ended", "failed"}
    /\ MainStep("join", "ended")
    /\ serverUp' = FALSE
    /\ UNCHANGED <<quit, isRunning, gameLevel, winsock, mutexOpen, freed, acceptor, unread>>

Main ==
    \/ SetRunning \/ StartAcceptor \/ MainTest \/ Run \/ DeleteLevel \/ Cleanup
    \/ WaitAll \/ WaitEach \/ Join

\* CTRL_CLOSE_EVENT in a thread of its own: QuitGame sets quit and then calls
\* Stop, and main may come back to Run between the two.  (Left out, because
\* they end the process or change nothing: that Windows ends it some time
\* later, and that QuitGame uses the engine when main has deleted it.)
CloseConsole ==
    /\ main \in {"test", "run"}
    /\ \/ closer = "none" /\ closer' = "quit" /\ quit' = TRUE /\ UNCHANGED isRunning
       \/ closer = "quit" /\ closer' = "stop" /\ isRunning' = FALSE /\ UNCHANGED quit
    /\ UNCHANGED <<serverUp, main, gameLevel, winsock, mutexOpen, freed, acceptor, sender,
                   synchronizer, handler, registered, clientVars, unguarded>>

-----------------------------------------------------------------------------
(***************************************************************************)
(* Sender and synchronizer.                                                *)
(***************************************************************************)

mainVars == <<main, closer, quit, isRunning, winsock, mutexOpen, freed>>

\* A queue that is empty is tested again.
Send ==
    /\ \/ sender = "test" /\ sender' = IF isRunning THEN "send" ELSE "ended"
       \/ sender = "send" /\ sender' = "test"
    /\ UNCHANGED <<serverUp, gameLevel, acceptor, synchronizer, handler, registered,
                   clientVars, unguarded, mainVars>>

\* Nobody waits for the synchronizer, and deleting the level leaves its
\* pointer as it was.
Sychronize ==
    /\ \/ /\ synchronizer = "test" /\ (isRunning => gameLevel # "none")
          /\ synchronizer' = IF isRunning THEN "update" ELSE "ended"
          /\ UndefinedIf(freed)
       \/ /\ synchronizer = "update" /\ synchronizer' = "test"
          /\ UndefinedIf(gameLevel = "deleted" \/ freed)
    /\ UNCHANGED <<gameLevel, acceptor, sender, handler, registered, clientVars, unguarded,
                   mainVars>>

-----------------------------------------------------------------------------
(***************************************************************************)
(* AcceptClients.                                                          *)
(***************************************************************************)

\* closesocket discards what was not read.
Discard(s) == unread' = [unread EXCEPT ![s] = 0]

AcceptorStep(from, to, s) ==
    /\ acceptor.at = from /\ acceptor' = [at |-> to, socket |-> s]
    /\ UNCHANGED <<gameLevel, sender, synchronizer, client, mainVars>>

AcceptorTest ==
    /\ AcceptorStep("test", IF isRunning THEN "accept" ELSE "ended", Nobody)
    /\ UndefinedIf(freed)
    /\ UNCHANGED <<handler, registered, unread, unguarded>>

Accept(s) ==
    /\ winsock /\ handler[s] = "backlog"
    /\ AcceptorStep("accept", "add", s)
    /\ handler' = [handler EXCEPT ![s] = "accepted"]
    /\ UNCHANGED <<serverUp, registered, unread, unguarded>>

\* accept fails: without a listening socket, or because of a client that is
\* gone already.
AcceptFails ==
    /\ AcceptorStep("accept", IF isRunning THEN "failed" ELSE "test", Nobody)
    /\ \/ ~ winsock /\ UNCHANGED <<handler, unread>>
       \/ \E s \in Sockets :
             /\ handler[s] = "backlog" /\ client[s] = "closed"
             /\ handler' = [handler EXCEPT ![s] = "refused"]
             /\ Discard(s)
    /\ UndefinedIf(freed)
    /\ UNCHANGED <<registered, unguarded>>

ClientSockets == { s \in Sockets : handler[s] \in {"recv", "packet", "leave"} }

Refuse ==
    /\ Cardinality(ClientSockets) >= MaxClients
    /\ AcceptorStep("add", "test", Nobody)
    /\ handler' = [handler EXCEPT ![acceptor.socket] = "refused"]
    /\ Discard(acceptor.socket)
    /\ UndefinedIf(~ mutexOpen)
    /\ UNCHANGED <<registered, unguarded>>

\* push_back to clientSockets, and a new thread.
Admit ==
    /\ Cardinality(ClientSockets) < MaxClients
    /\ AcceptorStep("add", "register", acceptor.socket)
    /\ handler' = [handler EXCEPT ![acceptor.socket] = "recv"]
    /\ UndefinedIf(~ mutexOpen)
    /\ UNCHANGED <<registered, unread, unguarded>>

\* Which of main's waits, if any, finds a thread that is registered now.
WaitedIn ==
    CASE main \in {"waitEach", "join", "ended"} -> {"never"}
      [] main = "waitAll"                      -> {"first", "second"}
      [] OTHER                                  -> {"first"}

\* (A variant of Register: the loop is left after it.)
RegisterLast ==
    /\ AcceptorStep("register", "ended", Nobody)
    /\ \E wait \in WaitedIn : registered' = [registered EXCEPT ![acceptor.socket] = wait]
    /\ UndefinedIf(freed \/ main \in {"waitAll", "waitEach"})
    /\ UNCHANGED <<handler, unread, unguarded>>

\* push_back to clientThreads, which main reads without the mutex.
Register ==
    /\ AcceptorStep("register", "test", Nobody)
    /\ \E wait \in WaitedIn : registered' = [registered EXCEPT ![acceptor.socket] = wait]
    /\ UndefinedIf(freed \/ main \in {"waitAll", "waitEach"})
    /\ UNCHANGED <<handler, unread, unguarded>>

Acceptor ==
    \/ AcceptorTest \/ (\E s \in Sockets : Accept(s)) \/ AcceptFails
    \/ Refuse \/ Admit \/ Register

-----------------------------------------------------------------------------
(***************************************************************************)
(* HandleClient.                                                           *)
(***************************************************************************)

HandlerStep(s, from, to) ==
    /\ handler[s] = from /\ handler' = [handler EXCEPT ![s] = to]
    /\ UNCHANGED <<acceptor, sender, synchronizer, client, mainVars, registered>>

\* (A variant of Receive: an empty packet is one too.)
ReceiveNothing(s) ==
    /\ HandlerStep(s, "recv", IF winsock THEN "packet" ELSE "leave")
    /\ UNCHANGED <<serverUp, gameLevel, unguarded, unread>>

\* recv returns a packet, also one a client sent before it was gone; or nothing
\* more.
Receive(s) ==
    /\ \/ /\ winsock /\ client[s] = "up"
          /\ HandlerStep(s, "recv", "packet")
          /\ UNCHANGED unread
       \/ /\ winsock /\ client[s] = "closed" /\ unread[s] > 0
          /\ HandlerStep(s, "recv", "packet")
          /\ unread' = [unread EXCEPT ![s] = unread[s] - 1]
       \/ /\ ~ winsock \/ (client[s] = "closed" /\ unread[s] = 0)
          /\ HandlerStep(s, "recv", "leave")
          /\ UNCHANGED unread
    /\ UNCHANGED <<serverUp, gameLevel, unguarded>>

\* The first PLAYER_CREATE_REQUEST creates the level.  An exit request is deleted
\* twice, which is undefined.
Process(s) ==
    /\ HandlerStep(s, "packet", "recv") /\ Section(s)
    /\ \/ /\ gameLevel' \in {gameLevel, IF gameLevel = "none" THEN "alive" ELSE gameLevel}
          /\ UndefinedIf(gameLevel = "deleted" \/ freed)
       \/ UNCHANGED gameLevel /\ UndefinedIf(TRUE)
    /\ UNCHANGED unread

\* The connection is erased from clientSockets and closed, and the thread ends.
Leave(s) ==
    /\ HandlerStep(s, "leave", "ended") /\ Section(s) /\ Discard(s)
    /\ UndefinedIf(~ mutexOpen)
    /\ UNCHANGED gameLevel

Handler(s) == Receive(s) \/ Process(s) \/ Leave(s)

-----------------------------------------------------------------------------
(***************************************************************************)
(* clientMain.                                                             *)
(***************************************************************************)

ClientStep(s, from, to) ==
    /\ client[s] = from /\ client' = [client EXCEPT ![s] = to]
    /\ UNCHANGED <<serverUp, gameLevel, acceptor, sender, synchronizer, registered, mainVars,
                   unguarded>>

Connect(s) ==
    /\ winsock
    /\ ClientStep(s, "new", "up")
    /\ handler' = [handler EXCEPT ![s] = "backlog"]
    /\ UNCHANGED unread

\* The client quits: Run returns, main deletes the game, and ~GameClient closes
\* the socket and then waits for threads that never end, because nothing sets
\* isGameover.  Or the process ends: the user closes the console, or the
\* receiving thread uses the deleted game.  The socket is closed in each case,
\* and what was sent before it, an exit request or not, is still there to read,
\* for a server that has not closed its side.
Quit(s) ==
    /\ ClientStep(s, "up", "closed")
    /\ \E packets \in 0..MaxUnread :
          /\ packets > 0 => winsock /\ handler[s] \in {"backlog", "accepted", "recv", "packet"}
          /\ unread' = [unread EXCEPT ![s] = packets]
    /\ UNCHANGED handler

Client(s) == Connect(s) \/ Quit(s)

-----------------------------------------------------------------------------

\* Nothing is of interest here once the server is gone.
Next ==
    /\ serverUp
    /\ \/ Main \/ CloseConsole \/ Send \/ Sychronize \/ Acceptor
       \/ \E s \in Sockets : Handler(s) \/ Client(s)

\* Every thread runs, the one that closes the console once it is there.  Nothing
\* makes a user quit, close or connect.
Fairness ==
    /\ WF_vars(serverUp /\ (main = "run" => quit) /\ Main)
    /\ WF_vars(serverUp /\ closer # "none" /\ CloseConsole)
    /\ WF_vars(serverUp /\ Send)
    /\ WF_vars(serverUp /\ Sychronize)
    /\ WF_vars(serverUp /\ Acceptor)
    /\ \A s \in Sockets : WF_vars(serverUp /\ Handler(s))

Spec == Init /\ [][Next]_vars /\ Fairness

-----------------------------------------------------------------------------
(***************************************************************************)
(* Properties.                                                             *)
(***************************************************************************)

\* A server told to stop ends, whatever its threads are doing and whoever is
\* connected, by itself or by what is undefined.
StopEnds == (main # "construct" /\ ~ isRunning) ~> ~ serverUp

\* The handlers that were in clientThreads when main began to loop over them
\* have ended when the server is freed, and the sender has; up to 64, those
\* that main knew first never ran without the mutex.
JoinedBeforeFree ==
    LET first == Registered({"first"}) IN
    /\ freed => sender = "ended" /\ Ended(Registered({"first", "second"}))
    /\ Cardinality(first) \in 1..MaxWait => first \cap unguarded = {}

\* A client that quits is gone for the server too, once the server has read what
\* it sent before, although its process may wait for ever and its exit request
\* may be lost.
QuitReachesServer ==
    \A s \in Sockets :
        (client[s] = "closed" /\ s \in ClientSockets) ~> (handler[s] = "ended" \/ ~ serverUp)

\* Who waits to be accepted is, or is refused, unless an accept failed before:
\* then a running server accepts nobody any more.
PendingIsAccepted ==
    \A s \in Sockets :
        (handler[s] = "backlog") ~>
            \/ handler[s] \notin {"backlog", "accepted"}
            \/ client[s] = "closed" \/ acceptor.at = "failed" \/ ~ isRunning \/ ~ serverUp

FlagTypes ==
    /\ serverUp \in BOOLEAN /\ quit \in BOOLEAN /\ isRunning \in BOOLEAN
    /\ winsock \in BOOLEAN /\ mutexOpen \in BOOLEAN /\ freed \in BOOLEAN

PlaceTypes ==
    /\ main \in {"construct", "start", "test", "run", "level", "cleanup", "waitAll",
                 "waitEach", "join", "ended"}
    /\ closer \in {"none", "quit", "stop"}
    /\ gameLevel \in {"none", "alive", "deleted"}
    /\ sender \in {"test", "send", "ended"}
    /\ synchronizer \in {"test", "update", "ended"}

ConnectionTypes ==
    /\ acceptor \in [at : {"none", "test", "accept", "add", "register", "ended", "failed"},
                     socket : Sockets \cup {Nobody}]
    /\ acceptor.at \in {"add", "register"} => acceptor.socket \in Sockets
    /\ handler \in [Sockets -> {"none", "backlog", "accepted", "refused", "recv", "packet",
                                "leave", "ended"}]
    /\ registered \in [Sockets -> {"no", "first", "second", "never"}]
    /\ client \in [Sockets -> {"new", "up", "closed"}]
    /\ unread \in [Sockets -> 0..MaxUnread]
    /\ unguarded \subseteq Sockets

TypeOK == FlagTypes /\ PlaceTypes /\ ConnectionTypes
=============================================================================
