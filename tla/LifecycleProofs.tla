-------------------------- MODULE LifecycleProofs --------------------------
(***************************************************************************)
(* What ~GameServer waits for has ended when it frees the server; who is   *)
(* told to stop can go on, and without sockets each step of a thread that  *)
(* is waited for uses up something that no step renews.                    *)
(***************************************************************************)
EXTENDS Lifecycle, TLAPS

\* Main closes the mutex when it has waited for the first handlers, if they
\* were not too many, and frees the server when it has waited for all it knows;
\* from then on it gets to know no further ones, and who has ended stays so.
WaitInv ==
    /\ mutexOpen => unguarded = {}
    /\ mutexOpen => main \notin {"waitEach", "join", "ended"}
    /\ ~ mutexOpen => main \in {"waitEach", "join", "ended"}
    /\ ~ mutexOpen /\ Cardinality(Registered({"first"})) \in 1..MaxWait =>
          Ended(Registered({"first"}))
    /\ freed => main \in {"join", "ended"} /\ ~ mutexOpen

\* No thread is registered twice.
RegisterInv ==
    /\ \A s \in Sockets :
          /\ client[s] = "new" => handler[s] = "none"
          /\ handler[s] \in {"none", "backlog", "accepted"} => registered[s] = "no"
    /\ acceptor.at = "add" => handler[acceptor.socket] = "accepted"
    /\ acceptor.at = "register" =>
          /\ registered[acceptor.socket] = "no"
          /\ handler[acceptor.socket] \notin {"none", "backlog", "accepted"}

LifecycleInv == TypeOK /\ RegisterInv /\ WaitInv /\ JoinedBeforeFree

LEMMA InitLifecycle == Init => LifecycleInv
<1> SUFFICES ASSUME Init PROVE LifecycleInv
    OBVIOUS
<1>1. TypeOK
  <2>1. 0 \in 0..MaxUnread
    BY LifecycleAssumption
  <2>2. unread \in [Sockets -> 0..MaxUnread]
    BY <2>1 DEF Init
  <2> QED
    BY <2>2 DEF Init, TypeOK, FlagTypes, PlaceTypes, ConnectionTypes
<1>2. WaitInv
  BY DEF Init, WaitInv
<1>3. JoinedBeforeFree
  BY DEF Init, JoinedBeforeFree
<1>4. RegisterInv
  BY DEF Init, RegisterInv
<1> QED
  BY <1>1, <1>2, <1>3, <1>4 DEF LifecycleInv

LEMMA NextFlagTypes == TypeOK /\ [Next]_vars => FlagTypes'
<1> SUFFICES ASSUME TypeOK, [Next]_vars PROVE FlagTypes'
    OBVIOUS
<1>0. FlagTypes
  BY DEF TypeOK
<1> USE <1>0 DEF FlagTypes, UndefinedIf, mainVars, clientVars, Discard
<1>1. CASE Main
  <2> USE DEF MainStep
  <2>1. CASE SetRunning \/ StartAcceptor
    BY <2>1 DEF SetRunning, StartAcceptor
  <2>2. CASE MainTest \/ Run
    BY <2>2 DEF MainTest, Run
  <2>3. CASE DeleteLevel \/ Cleanup
    BY <2>3 DEF DeleteLevel, Cleanup
  <2>4. CASE WaitAll \/ WaitEach
    BY <2>4 DEF WaitAll, WaitEach
  <2>5. CASE Join
    BY <2>5 DEF Join
  <2> QED
    BY <1>1, <2>1, <2>2, <2>3, <2>4, <2>5 DEF Main
<1>2. CASE CloseConsole
  BY <1>2 DEF CloseConsole
<1>3. CASE Send
  BY <1>3 DEF Send
<1>4. CASE Sychronize
  BY <1>4 DEF Sychronize
<1>5. CASE Acceptor
  <2> USE DEF AcceptorStep
  <2>1. CASE AcceptorTest
    BY <2>1 DEF AcceptorTest
  <2>2. ASSUME NEW s \in Sockets, Accept(s) PROVE FlagTypes'
    BY <2>2 DEF Accept
  <2>3. CASE AcceptFails
    BY <2>3 DEF AcceptFails
  <2>4. CASE Refuse
    BY <2>4 DEF Refuse
  <2>5. CASE Admit
    BY <2>5 DEF Admit
  <2>6. CASE Register
    BY <2>6 DEF Register, WaitedIn
  <2> QED
    BY <1>5, <2>1, <2>2, <2>3, <2>4, <2>5, <2>6 DEF Acceptor
<1>6. ASSUME NEW s \in Sockets, Handler(s) PROVE FlagTypes'
  <2> USE DEF HandlerStep, Section
  <2>1. CASE Receive(s)
    BY <2>1 DEF Receive
  <2>2. CASE Process(s)
    BY <2>2 DEF Process
  <2>3. CASE Leave(s)
    BY <2>3 DEF Leave
  <2> QED
    BY <1>6, <2>1, <2>2, <2>3 DEF Handler
<1>7. ASSUME NEW s \in Sockets, Client(s) PROVE FlagTypes'
  BY <1>7 DEF Client, ClientStep, Connect, Quit
<1>8. CASE UNCHANGED vars
  BY <1>8 DEF vars
<1> QED
  BY <1>1, <1>2, <1>3, <1>4, <1>5, <1>6, <1>7, <1>8 DEF Next

LEMMA NextPlaceTypes == TypeOK /\ [Next]_vars => PlaceTypes'
<1> SUFFICES ASSUME TypeOK, [Next]_vars PROVE PlaceTypes'
    OBVIOUS
<1>0. PlaceTypes
  BY DEF TypeOK
<1> USE <1>0 DEF PlaceTypes, UndefinedIf, mainVars, clientVars, Discard
<1>1. CASE Main
  <2> USE DEF MainStep
  <2>1. CASE SetRunning \/ StartAcceptor
    BY <2>1 DEF SetRunning, StartAcceptor
  <2>2. CASE MainTest \/ Run
    BY <2>2 DEF MainTest, Run
  <2>3. CASE DeleteLevel \/ Cleanup
    BY <2>3 DEF DeleteLevel, Cleanup
  <2>4. CASE WaitAll \/ WaitEach
    BY <2>4 DEF WaitAll, WaitEach
  <2>5. CASE Join
    BY <2>5 DEF Join
  <2> QED
    BY <1>1, <2>1, <2>2, <2>3, <2>4, <2>5 DEF Main
<1>2. CASE CloseConsole
  BY <1>2 DEF CloseConsole
<1>3. CASE Send
  BY <1>3 DEF Send
<1>4. CASE Sychronize
  BY <1>4 DEF Sychronize
<1>5. CASE Acceptor
  <2> USE DEF AcceptorStep
  <2>1. CASE AcceptorTest
    BY <2>1 DEF AcceptorTest
  <2>2. ASSUME NEW s \in Sockets, Accept(s) PROVE PlaceTypes'
    BY <2>2 DEF Accept
  <2>3. CASE AcceptFails
    BY <2>3 DEF AcceptFails
  <2>4. CASE Refuse
    BY <2>4 DEF Refuse
  <2>5. CASE Admit
    BY <2>5 DEF Admit
  <2>6. CASE Register
    BY <2>6 DEF Register, WaitedIn
  <2> QED
    BY <1>5, <2>1, <2>2, <2>3, <2>4, <2>5, <2>6 DEF Acceptor
<1>6. ASSUME NEW s \in Sockets, Handler(s) PROVE PlaceTypes'
  <2> USE DEF HandlerStep, Section
  <2>1. CASE Receive(s)
    BY <2>1 DEF Receive
  <2>2. CASE Process(s)
    BY <2>2 DEF Process
  <2>3. CASE Leave(s)
    BY <2>3 DEF Leave
  <2> QED
    BY <1>6, <2>1, <2>2, <2>3 DEF Handler
<1>7. ASSUME NEW s \in Sockets, Client(s) PROVE PlaceTypes'
  BY <1>7 DEF Client, ClientStep, Connect, Quit
<1>8. CASE UNCHANGED vars
  BY <1>8 DEF vars
<1> QED
  BY <1>1, <1>2, <1>3, <1>4, <1>5, <1>6, <1>7, <1>8 DEF Next

LEMMA NextConnectionTypes == TypeOK /\ [Next]_vars => ConnectionTypes'
<1> SUFFICES ASSUME TypeOK, [Next]_vars PROVE ConnectionTypes'
    OBVIOUS
<1>0. ConnectionTypes /\ MaxUnread \in Nat
  BY LifecycleAssumption DEF TypeOK
<1> USE <1>0 DEF ConnectionTypes, UndefinedIf, mainVars, clientVars, Discard
<1>1. CASE Main
  <2> USE DEF MainStep
  <2>1. CASE SetRunning \/ StartAcceptor
    BY <2>1 DEF SetRunning, StartAcceptor
  <2>2. CASE MainTest \/ Run
    BY <2>2 DEF MainTest, Run
  <2>3. CASE DeleteLevel \/ Cleanup
    BY <2>3 DEF DeleteLevel, Cleanup
  <2>4. CASE WaitAll \/ WaitEach
    BY <2>4 DEF WaitAll, WaitEach
  <2>5. CASE Join
    BY <2>5 DEF Join
  <2> QED
    BY <1>1, <2>1, <2>2, <2>3, <2>4, <2>5 DEF Main
<1>2. CASE CloseConsole
  BY <1>2 DEF CloseConsole
<1>3. CASE Send
  BY <1>3 DEF Send
<1>4. CASE Sychronize
  BY <1>4 DEF Sychronize
<1>5. CASE Acceptor
  <2> USE DEF AcceptorStep
  <2>1. CASE AcceptorTest
    BY <2>1 DEF AcceptorTest
  <2>2. ASSUME NEW s \in Sockets, Accept(s) PROVE ConnectionTypes'
    BY <2>2 DEF Accept
  <2>3. CASE AcceptFails
    BY <2>3 DEF AcceptFails
  <2>4. CASE Refuse
    BY <2>4 DEF Refuse
  <2>5. CASE Admit
    BY <2>5 DEF Admit
  <2>6. CASE Register
    <3>1. acceptor.socket \in Sockets
      BY <2>6 DEF Register
    <3>2. PICK wait \in {"first", "second", "never"} :
            registered' = [registered EXCEPT ![acceptor.socket] = wait]
      BY <2>6 DEF Register, WaitedIn
    <3>3. registered' \in [Sockets -> {"no", "first", "second", "never"}]
      BY <3>1, <3>2
    <3>4. /\ acceptor' = [at |-> "test", socket |-> Nobody]
          /\ UNCHANGED <<handler, clientVars, unguarded>>
      BY <2>6 DEF Register
    <3> QED
      BY <3>3, <3>4
  <2> QED
    BY <1>5, <2>1, <2>2, <2>3, <2>4, <2>5, <2>6 DEF Acceptor
<1>6. ASSUME NEW s \in Sockets, Handler(s) PROVE ConnectionTypes'
  <2> USE DEF HandlerStep, Section
  <2>1. CASE Receive(s)
    BY <2>1 DEF Receive
  <2>2. CASE Process(s)
    BY <2>2 DEF Process
  <2>3. CASE Leave(s)
    BY <2>3 DEF Leave
  <2> QED
    BY <1>6, <2>1, <2>2, <2>3 DEF Handler
<1>7. ASSUME NEW s \in Sockets, Client(s) PROVE ConnectionTypes'
  BY <1>7 DEF Client, ClientStep, Connect, Quit
<1>8. CASE UNCHANGED vars
  BY <1>8 DEF vars
<1> QED
  BY <1>1, <1>2, <1>3, <1>4, <1>5, <1>6, <1>7, <1>8 DEF Next

LEMMA NextRegisterInv == TypeOK /\ RegisterInv /\ [Next]_vars => RegisterInv'
<1> SUFFICES ASSUME TypeOK, RegisterInv, [Next]_vars PROVE RegisterInv'
    OBVIOUS
<1>0. ConnectionTypes
  BY DEF TypeOK
<1> USE <1>0 DEF ConnectionTypes, RegisterInv, mainVars, clientVars, Discard
<1>1. CASE Main
  <2>1. /\ UNCHANGED <<client, handler, registered>>
        /\ \/ acceptor' = acceptor
           \/ acceptor' = [acceptor EXCEPT !.at = "test"]
    BY <1>1 DEF Main, MainStep, SetRunning, StartAcceptor, MainTest, Run, DeleteLevel,
                Cleanup, WaitAll, WaitEach, Join
  <2> QED
    BY <2>1
<1>2. CASE CloseConsole \/ Send \/ Sychronize
  BY <1>2 DEF CloseConsole, Send, Sychronize
<1>3. CASE Acceptor
  <2> USE DEF AcceptorStep
  <2>1. CASE AcceptorTest
    BY <2>1 DEF AcceptorTest
  <2>2. ASSUME NEW s \in Sockets, Accept(s) PROVE RegisterInv'
    BY <2>2 DEF Accept
  <2>3. CASE AcceptFails
    BY <2>3 DEF AcceptFails
  <2>4. CASE Refuse
    BY <2>4 DEF Refuse
  <2>5. CASE Admit
    BY <2>5 DEF Admit
  <2>6. CASE Register
    <3>1. PICK wait \in WaitedIn :
             registered' = [registered EXCEPT ![acceptor.socket] = wait]
      BY <2>6 DEF Register
    <3>2. acceptor.at = "register" /\ acceptor'.at = "test" /\ UNCHANGED <<client, handler>>
      BY <2>6 DEF Register
    <3>3. handler[acceptor.socket] \notin {"none", "backlog", "accepted"}
      BY <3>2
    <3>4. \A s \in Sockets : s # acceptor.socket => registered'[s] = registered[s]
      BY <3>1
    <3> QED
      BY <3>2, <3>3, <3>4
  <2> QED
    BY <1>3, <2>1, <2>2, <2>3, <2>4, <2>5, <2>6 DEF Acceptor
<1>4. ASSUME NEW s \in Sockets, Handler(s) PROVE RegisterInv'
  <2>1. /\ UNCHANGED <<client, registered, acceptor>>
        /\ \E to \in {"recv", "packet", "leave", "ended"} :
              handler' = [handler EXCEPT ![s] = to]
        /\ handler[s] \in {"recv", "packet", "leave"}
    BY <1>4 DEF Handler, HandlerStep, Receive, Process, Leave
  <2> QED
    BY <2>1
<1>5. ASSUME NEW s \in Sockets, Client(s) PROVE RegisterInv'
  BY <1>5 DEF Client, ClientStep, Connect, Quit
<1>6. CASE UNCHANGED vars
  BY <1>6 DEF vars
<1> QED
  BY <1>1, <1>2, <1>3, <1>4, <1>5, <1>6 DEF Next

\* Whoever has ended stays so, and every other step leaves what main knows.
LEMMA OthersWait ==
    ASSUME LifecycleInv,
           UNCHANGED <<main, mutexOpen, freed, registered>>,
           sender = "ended" => sender' = "ended",
           \A s \in Sockets : handler[s] = "ended" => handler'[s] = "ended",
           \/ unguarded' = unguarded
           \/ /\ ~ mutexOpen
              /\ \E s \in Sockets : handler[s] # "ended" /\ unguarded' = unguarded \cup {s}
    PROVE  WaitInv' /\ JoinedBeforeFree'
<1>1. Registered({"first"})' = Registered({"first"})
  BY DEF Registered
<1>2. Registered({"first", "second"})' = Registered({"first", "second"})
  BY DEF Registered
<1>3. Registered({"first"}) \subseteq Sockets
      /\ Registered({"first", "second"}) \subseteq Sockets
  BY DEF Registered
<1>4. WaitInv'
  BY <1>1, <1>3 DEF LifecycleInv, WaitInv, Ended
<1>5. (freed => sender = "ended" /\ Ended(Registered({"first", "second"})))'
  BY <1>2, <1>3 DEF LifecycleInv, JoinedBeforeFree, Ended
<1>6. Cardinality(Registered({"first"})) \in 1..MaxWait =>
        Registered({"first"}) \cap unguarded' = {}
  <2> SUFFICES ASSUME Cardinality(Registered({"first"})) \in 1..MaxWait
               PROVE  Registered({"first"}) \cap unguarded' = {}
    OBVIOUS
  <2>1. Registered({"first"}) \cap unguarded = {}
    BY DEF LifecycleInv, JoinedBeforeFree
  <2>2. ~ mutexOpen => Ended(Registered({"first"}))
    BY DEF LifecycleInv, WaitInv
  <2> QED
    BY <2>1, <2>2 DEF Ended
<1> QED
  BY <1>1, <1>4, <1>5, <1>6 DEF JoinedBeforeFree

LEMMA NextLifecycle == LifecycleInv /\ [Next]_vars => LifecycleInv'
<1> SUFFICES ASSUME LifecycleInv, [Next]_vars PROVE LifecycleInv'
    OBVIOUS
<1>0. TypeOK /\ TypeOK'
  BY NextFlagTypes, NextPlaceTypes, NextConnectionTypes DEF LifecycleInv, TypeOK
<1> SUFFICES WaitInv' /\ JoinedBeforeFree'
  BY <1>0, NextRegisterInv DEF LifecycleInv
<1>1. CASE Main
  <2>0. /\ Registered({"first"})' = Registered({"first"})
        /\ Registered({"first", "second"})' = Registered({"first", "second"})
        /\ handler' = handler /\ unguarded' = unguarded /\ sender' = sender
    BY <1>1 DEF Main, MainStep, SetRunning, StartAcceptor, MainTest, Run, DeleteLevel,
                Cleanup, WaitAll, WaitEach, Join, Registered
  <2> USE <1>0, <2>0 DEF LifecycleInv, WaitInv, JoinedBeforeFree, Ended
  <2>1. CASE SetRunning \/ StartAcceptor \/ MainTest \/ Run \/ DeleteLevel \/ Cleanup
    <3>1. /\ mutexOpen' = mutexOpen /\ freed' = freed
          /\ main \notin {"waitEach", "join", "ended"}
          /\ main' \notin {"waitEach", "join", "ended"}
      BY <2>1 DEF SetRunning, StartAcceptor, MainTest, Run, DeleteLevel, Cleanup, MainStep
    <3>2. mutexOpen /\ ~ freed /\ unguarded = {}
      BY <3>1
    <3>3. WaitInv'
      BY <3>1, <3>2
    <3>4. JoinedBeforeFree'
      BY <3>1, <3>2
    <3> QED
      BY <3>3, <3>4
  <2>2. CASE WaitAll
    BY <2>2 DEF WaitAll, MainStep
  <2>3. CASE WaitEach
    <3>1. /\ Ended(Registered({"first", "second"})) /\ sender = "ended"
          /\ main = "waitEach" /\ main' = "join" /\ mutexOpen' = mutexOpen
      BY <2>3 DEF WaitEach, MainStep
    <3>2. ~ mutexOpen
      BY <3>1
    <3>3. WaitInv'
      BY <3>1, <3>2
    <3>4. JoinedBeforeFree'
      BY <3>1
    <3> QED
      BY <3>3, <3>4
  <2>4. CASE Join
    BY <2>4 DEF Join, MainStep
  <2> QED
    BY <1>1, <2>1, <2>2, <2>3, <2>4 DEF Main
<1>2. CASE CloseConsole
  BY <1>2, OthersWait DEF CloseConsole
<1>3. CASE Send
  BY <1>3, OthersWait DEF Send, mainVars, clientVars, Discard
<1>4. CASE Sychronize
  BY <1>4, OthersWait DEF Sychronize, mainVars, clientVars, Discard
<1>5. CASE Acceptor
  <2> USE <1>0 DEF AcceptorStep, mainVars, clientVars, Discard
  <2>1. CASE AcceptorTest
    BY <2>1, OthersWait DEF AcceptorTest
  <2>2. ASSUME NEW s \in Sockets, Accept(s) PROVE WaitInv' /\ JoinedBeforeFree'
    BY <2>2, OthersWait DEF Accept, TypeOK, ConnectionTypes
  <2>3. CASE AcceptFails
    BY <2>3, OthersWait DEF AcceptFails, TypeOK, ConnectionTypes
  <2>4. CASE Refuse \/ Admit
    <3>1. handler[acceptor.socket] = "accepted" /\ acceptor.socket \in Sockets
      BY <2>4 DEF Refuse, Admit, TypeOK, ConnectionTypes, LifecycleInv, RegisterInv
    <3>2. \A s \in Sockets : handler[s] = "ended" => handler'[s] = "ended"
      BY <2>4, <3>1 DEF Refuse, Admit, TypeOK, ConnectionTypes
    <3> QED
      BY <2>4, <3>2, OthersWait DEF Refuse, Admit
  <2>5. CASE Register
    <3>1. PICK wait \in WaitedIn :
             registered' = [registered EXCEPT ![acceptor.socket] = wait]
      BY <2>5 DEF Register
    <3>2. /\ UNCHANGED <<main, mutexOpen, freed, sender, handler, unguarded>>
          /\ acceptor.socket \in Sockets /\ registered[acceptor.socket] = "no"
      BY <2>5 DEF Register, TypeOK, ConnectionTypes, LifecycleInv, RegisterInv
    <3>3. CASE main \in {"waitEach", "join", "ended"}
      <4>1. wait = "never"
        BY <3>3 DEF WaitedIn
      <4>2. /\ Registered({"first"})' = Registered({"first"})
            /\ Registered({"first", "second"})' = Registered({"first", "second"})
        BY <3>1, <3>2, <4>1 DEF Registered, TypeOK, ConnectionTypes
      <4> QED
        BY <3>2, <4>2 DEF LifecycleInv, WaitInv, JoinedBeforeFree, Ended
    <3>4. CASE main \notin {"waitEach", "join", "ended"}
      <4>1. mutexOpen /\ ~ freed /\ unguarded = {}
        BY <3>4 DEF LifecycleInv, WaitInv
      <4>2. WaitInv'
        BY <3>2, <3>4, <4>1 DEF WaitInv
      <4>3. JoinedBeforeFree'
        BY <3>2, <4>1 DEF JoinedBeforeFree
      <4> QED
        BY <4>2, <4>3
    <3> QED
      BY <3>3, <3>4
  <2> QED
    BY <1>5, <2>1, <2>2, <2>3, <2>4, <2>5 DEF Acceptor
<1>6. ASSUME NEW s \in Sockets, Handler(s) PROVE WaitInv' /\ JoinedBeforeFree'
  <2>1. /\ UNCHANGED <<main, mutexOpen, freed, registered, sender>>
        /\ handler[s] # "ended"
        /\ \A r \in Sockets : handler[r] = "ended" => handler'[r] = "ended"
    BY <1>0, <1>6 DEF Handler, HandlerStep, Receive, Process, Leave, mainVars, clientVars, Discard, TypeOK,
                      ConnectionTypes
  <2>2. (unguarded' = unguarded) \/ (~ mutexOpen /\ unguarded' = unguarded \cup {s})
    BY <1>6 DEF Handler, HandlerStep, Receive, Process, Leave, Section
  <2> QED
    BY <2>1, <2>2, OthersWait
<1>7. ASSUME NEW s \in Sockets, Client(s) PROVE WaitInv' /\ JoinedBeforeFree'
  <2>1. UNCHANGED <<main, mutexOpen, freed, registered, sender, unguarded>>
    BY <1>7 DEF Client, ClientStep, Connect, Quit, mainVars, clientVars, Discard
  <2>2. \A r \in Sockets : handler[r] = "ended" => handler'[r] = "ended"
    BY <1>7, <1>0 DEF Client, ClientStep, Connect, Quit, TypeOK, ConnectionTypes,
                      LifecycleInv, RegisterInv
  <2> QED
    BY <2>1, <2>2, OthersWait
<1>8. CASE UNCHANGED vars
  BY <1>8, OthersWait DEF vars
<1> QED
  BY <1>1, <1>2, <1>3, <1>4, <1>5, <1>6, <1>7, <1>8 DEF Next

\* The inductive invariant of the waiting.
THEOREM LifecycleInvariant == Spec => []LifecycleInv
<1>1. Init /\ [][Next]_vars => []LifecycleInv
  BY InitLifecycle, NextLifecycle, PTL
<1> QED
  BY <1>1, PTL DEF Spec

\* Every handler that main knows when it loops over them, and the sender, have
\* ended when the server is freed, and the first of them kept to the mutex.
THEOREM JoinedBeforeFreeAlways == Spec => []JoinedBeforeFree
<1>1. LifecycleInv => JoinedBeforeFree
  BY DEF LifecycleInv
<1> QED
  BY <1>1, LifecycleInvariant, PTL

-----------------------------------------------------------------------------
(***************************************************************************)
(* StopEnds, as far as it is safety: who is waited for can go on, and      *)
(* after WSACleanup every step but the synchronizer's uses something up    *)
(* that nobody renews.                                                     *)
(***************************************************************************)

\* The connection has its handler, which never waits for ever without sockets.
Served(s) == handler[s] \in {"recv", "packet", "leave", "ended"}

StopInv ==
    /\ main = "start" => isRunning
    /\ closer # "none" => quit
    /\ main \in {"test", "run"} => isRunning \/ quit
    /\ main \in {"level", "cleanup", "waitAll", "waitEach"} => ~ isRunning
    /\ winsock <=> main \notin {"waitAll", "waitEach", "join", "ended"}
    /\ main \notin {"construct", "start"} => acceptor.at # "none"
    /\ main \in {"join", "ended"} => freed
    /\ main = "ended" => ~ serverUp
    /\ acceptor.at = "register" => Served(acceptor.socket)
    /\ \A s \in Sockets : registered[s] # "no" => Served(s)

\* Who is told to stop does not wait for a user, and once its sockets are gone
\* main goes on, or a thread that it may be waiting for does.
NeverStuck ==
    /\ main = "run" /\ ~ isRunning => quit
    /\ ~ winsock /\ serverUp =>
          \/ main = "waitAll" /\ Ended(Registered({"first"}))
          \/ main = "waitEach" /\ Ended(Registered({"first", "second"})) /\ sender = "ended"
          \/ main = "join" /\ acceptor.at \in {"ended", "failed"}
          \/ \E s \in Sockets : handler[s] \in {"recv", "packet", "leave"}
          \/ sender \in {"test", "send"}
          \/ acceptor.at \in {"test", "accept", "add", "register"}

\* What the threads have left to do without sockets.  When the server is freed,
\* what is where isRunning was may send the acceptor round once more.
MainLeft ==
    CASE main = "waitAll"  -> 3
      [] main = "waitEach" -> 2
      [] main = "join"     -> 1
      [] OTHER             -> 0

SenderLeft ==
    CASE sender = "send" -> 2
      [] sender = "test" -> 1
      [] OTHER           -> 0

AcceptorLeft ==
    CASE acceptor.at = "add"      -> IF freed THEN 4 ELSE 6
      [] acceptor.at = "register" -> IF freed THEN 3 ELSE 5
      [] acceptor.at = "accept"   -> IF freed THEN (IF isRunning THEN 1 ELSE 2) ELSE 4
      [] acceptor.at = "test"     -> IF freed THEN (IF isRunning THEN 2 ELSE 1) ELSE 3
      [] OTHER                    -> 0

HandlerPlace(s) ==
    CASE handler[s] \in {"backlog", "accepted"} -> 4
      [] handler[s] = "packet"                  -> 3
      [] handler[s] = "recv"                    -> 2
      [] handler[s] = "leave"                   -> 1
      [] OTHER                                  -> 0

\* While there are sockets, each packet to read takes the handler round once more.
HandlerLeft(s) == HandlerPlace(s) + (IF winsock THEN 2 * unread[s] ELSE 0)

ClientLeft(s) == IF client[s] = "up" THEN 1 ELSE 0

\* Nothing gets more, and something less, or only the synchronizer went on.
LessIsLeft ==
    /\ MainLeft' <= MainLeft /\ SenderLeft' <= SenderLeft /\ AcceptorLeft' <= AcceptorLeft
    /\ \A s \in Sockets :
          HandlerLeft(s)' <= HandlerLeft(s) /\ ClientLeft(s)' <= ClientLeft(s)
    /\ \/ MainLeft' < MainLeft \/ SenderLeft' < SenderLeft \/ AcceptorLeft' < AcceptorLeft
       \/ \E s \in Sockets :
             HandlerLeft(s)' < HandlerLeft(s) \/ ClientLeft(s)' < ClientLeft(s)
       \/ UNCHANGED <<main, closer, quit, isRunning, gameLevel, winsock, mutexOpen, acceptor,
                      sender, handler, registered, freed, client, unread, unguarded>>

StopShrinks == [][~ winsock => ~ winsock' /\ LessIsLeft]_vars

LEMMA InitStop == Init => StopInv
BY LifecycleAssumption DEF Init, StopInv

LEMMA NextStop == LifecycleInv /\ StopInv /\ [Next]_vars => StopInv'
<1>a. StopInv /\ UNCHANGED vars => StopInv'
  BY DEF vars, StopInv, Served
<1> SUFFICES ASSUME LifecycleInv, StopInv, Next PROVE StopInv'
  BY <1>a
<1>0. /\ FlagTypes /\ PlaceTypes /\ ConnectionTypes /\ RegisterInv /\ WaitInv
      /\ main # "ended"
  BY DEF LifecycleInv, TypeOK, StopInv, Next
<1>1. CASE Main
  <2>0. /\ UNCHANGED <<closer, handler, registered>>
        /\ \/ acceptor' = acceptor
           \/ acceptor' = [acceptor EXCEPT !.at = "test"]
    BY <1>1 DEF Main, MainStep, SetRunning, StartAcceptor, MainTest, Run, DeleteLevel,
                Cleanup, WaitAll, WaitEach, Join
  <2>1. /\ (acceptor.at = "register" => Served(acceptor.socket))'
        /\ (\A s \in Sockets : registered[s] # "no" => Served(s))'
    BY <1>0, <2>0 DEF StopInv, Served, ConnectionTypes
  <2> USE DEF MainStep, StopInv
  <2>2. CASE SetRunning
    BY <2>1, <2>2, <1>0 DEF SetRunning, PlaceTypes
  <2>3. CASE StartAcceptor
    BY <2>1, <2>3, <1>0 DEF StartAcceptor, ConnectionTypes
  <2>4. CASE MainTest
    BY <2>1, <2>4, <1>0 DEF MainTest
  <2>5. CASE Run
    BY <2>1, <2>5, <1>0 DEF Run
  <2>6. CASE DeleteLevel
    BY <2>1, <2>6, <1>0 DEF DeleteLevel
  <2>7. CASE Cleanup
    BY <2>1, <2>7, <1>0 DEF Cleanup
  <2>8. CASE WaitAll
    BY <2>1, <2>8, <1>0 DEF WaitAll
  <2>9. CASE WaitEach
    BY <2>1, <2>9, <1>0 DEF WaitEach
  <2>10. CASE Join
    BY <2>1, <2>10, <1>0 DEF Join
  <2> QED
    BY <1>1, <2>2, <2>3, <2>4, <2>5, <2>6, <2>7, <2>8, <2>9, <2>10 DEF Main
<1>2. CASE CloseConsole
  BY <1>0, <1>2 DEF CloseConsole, StopInv, Served
<1>3. ASSUME UNCHANGED <<main, closer, quit, isRunning, winsock, freed>>,
             acceptor.at # "none" => acceptor'.at # "none",
             (acceptor.at = "register" => Served(acceptor.socket))',
             (\A s \in Sockets : registered[s] # "no" => Served(s))'
      PROVE  StopInv'
  <2>1. (main \notin {"construct", "start"} => acceptor.at # "none")'
    BY <1>3 DEF StopInv
  <2>2. /\ (main = "start" => isRunning)'
        /\ (closer # "none" => quit)'
        /\ (main \in {"test", "run"} => isRunning \/ quit)'
        /\ (main \in {"level", "cleanup", "waitAll", "waitEach"} => ~ isRunning)'
        /\ (winsock <=> main \notin {"waitAll", "waitEach", "join", "ended"})'
        /\ (main \in {"join", "ended"} => freed)'
        /\ (main = "ended" => ~ serverUp)'
    BY <1>0, <1>3 DEF StopInv
  <2> QED
    BY <1>3, <2>1, <2>2 DEF StopInv
<1>4. CASE Send \/ Sychronize
  BY <1>3, <1>4 DEF Send, Sychronize, mainVars, clientVars, Discard, StopInv, Served
<1>5. CASE Acceptor
  <2> USE DEF AcceptorStep, mainVars, clientVars, Discard
  <2>1. CASE AcceptorTest
    BY <1>3, <2>1 DEF AcceptorTest, StopInv, Served
  <2>2. ASSUME NEW s \in Sockets, Accept(s) PROVE StopInv'
    BY <1>0, <1>3, <2>2 DEF Accept, StopInv, Served, ConnectionTypes
  <2>3. CASE AcceptFails
    BY <1>0, <1>3, <2>3 DEF AcceptFails, StopInv, Served, ConnectionTypes
  <2>4. CASE Refuse
    BY <1>0, <1>3, <2>4 DEF Refuse, StopInv, Served, ConnectionTypes, RegisterInv
  <2>5. CASE Admit
    BY <1>0, <1>3, <2>5 DEF Admit, StopInv, Served, ConnectionTypes, RegisterInv
  <2>6. CASE Register
    <3>1. PICK wait \in WaitedIn :
             registered' = [registered EXCEPT ![acceptor.socket] = wait]
      BY <2>6 DEF Register
    <3>2. Served(acceptor.socket) /\ UNCHANGED handler
      BY <2>6 DEF Register, StopInv
    <3> QED
      BY <1>0, <1>3, <2>6, <3>1, <3>2 DEF Register, StopInv, Served, ConnectionTypes
  <2> QED
    BY <1>5, <2>1, <2>2, <2>3, <2>4, <2>5, <2>6 DEF Acceptor
<1>6. ASSUME NEW s \in Sockets, Handler(s) PROVE StopInv'
  <2>1. \A r \in Sockets : Served(r) => Served(r)'
    BY <1>0, <1>6 DEF Handler, HandlerStep, Receive, Process, Leave, Served, ConnectionTypes
  <2>2. UNCHANGED <<main, closer, quit, isRunning, winsock, freed, acceptor, registered>>
    BY <1>6 DEF Handler, HandlerStep, Receive, Process, Leave, mainVars, clientVars, Discard
  <2> QED
    BY <1>0, <1>3, <2>1, <2>2 DEF StopInv, ConnectionTypes
<1>7. ASSUME NEW s \in Sockets, Client(s) PROVE StopInv'
  <2>1. \A r \in Sockets : Served(r) => Served(r)'
    BY <1>0, <1>7 DEF Client, ClientStep, Connect, Quit, Served, ConnectionTypes, RegisterInv
  <2>2. UNCHANGED <<main, closer, quit, isRunning, winsock, freed, acceptor, registered>>
    BY <1>7 DEF Client, ClientStep, Connect, Quit, mainVars, clientVars, Discard
  <2> QED
    BY <1>0, <1>3, <2>1, <2>2 DEF StopInv, ConnectionTypes
<1> QED
  BY <1>1, <1>2, <1>4, <1>5, <1>6, <1>7 DEF Next

LEMMA NeverStuckFollows == LifecycleInv /\ StopInv => NeverStuck
<1> SUFFICES ASSUME LifecycleInv, StopInv, ~ winsock, serverUp,
                    \A s \in Sockets : handler[s] \notin {"recv", "packet", "leave"},
                    sender \notin {"test", "send"},
                    acceptor.at \notin {"test", "accept", "add", "register"}
             PROVE  \/ main = "waitAll" /\ Ended(Registered({"first"}))
                    \/ main = "waitEach" /\ Ended(Registered({"first", "second"})) /\ sender = "ended"
                    \/ main = "join" /\ acceptor.at \in {"ended", "failed"}
  BY DEF NeverStuck, StopInv
<1>0. PlaceTypes /\ ConnectionTypes
  BY DEF LifecycleInv, TypeOK
<1>1. \A s \in Sockets : registered[s] # "no" => handler[s] = "ended"
  BY DEF StopInv, Served
<1>2. Ended(Registered({"first"})) /\ Ended(Registered({"first", "second"}))
  BY <1>1 DEF Ended, Registered
<1>3. sender = "ended"
  BY <1>0 DEF PlaceTypes
<1>4. main \in {"waitAll", "waitEach", "join"}
  BY <1>0 DEF StopInv, PlaceTypes
<1>5. main = "join" => acceptor.at \in {"ended", "failed"}
  BY <1>0 DEF StopInv, ConnectionTypes
<1> QED
  BY <1>2, <1>3, <1>4, <1>5

\* What the threads have left are numbers, and depend on where they are only.
LEMMA LeftAreNumbers ==
    /\ MainLeft \in Nat /\ SenderLeft \in Nat /\ AcceptorLeft \in Nat
    /\ \A s \in Sockets : HandlerPlace(s) \in Nat /\ ClientLeft(s) \in Nat
BY DEF MainLeft, SenderLeft, AcceptorLeft, HandlerPlace, ClientLeft

LEMMA LeftWithoutSockets ==
    ASSUME ~ winsock, ~ winsock'
    PROVE  \A s \in Sockets : /\ HandlerLeft(s) = HandlerPlace(s)
                              /\ HandlerLeft(s)' = HandlerPlace(s)'
                              /\ HandlerPlace(s) \in Nat
<1>1. \A s \in Sockets : HandlerPlace(s) \in Nat /\ HandlerPlace(s)' \in Nat
  BY DEF HandlerPlace
<1> QED
  BY <1>1 DEF HandlerLeft

LEMMA MainShrinks ==
    ASSUME LifecycleInv, StopInv, ~ winsock, Main
    PROVE  ~ winsock' /\ LessIsLeft
<1>0. /\ UNCHANGED <<client, sender, handler, winsock>>
      /\ main \in {"waitAll", "waitEach", "join"}
  BY DEF Main, MainStep, SetRunning, StartAcceptor, MainTest, Run, DeleteLevel,
         Cleanup, WaitAll, WaitEach, Join, StopInv
<1>1. /\ SenderLeft' <= SenderLeft
      /\ \A s \in Sockets : HandlerLeft(s)' <= HandlerLeft(s) /\ ClientLeft(s)' <= ClientLeft(s)
  BY <1>0, LeftWithoutSockets, LeftAreNumbers DEF SenderLeft, HandlerPlace, ClientLeft
<1>2. ~ winsock' /\ MainLeft' <= MainLeft /\ MainLeft' < MainLeft
  BY <1>0 DEF Main, MainStep, SetRunning, StartAcceptor, MainTest, Run, DeleteLevel,
              Cleanup, WaitAll, WaitEach, Join, MainLeft
<1>3. AcceptorLeft' <= AcceptorLeft
  <2>1. CASE WaitEach
    <3>1. acceptor' = acceptor /\ freed' /\ ~ freed
      BY <2>1 DEF WaitEach, MainStep, LifecycleInv, WaitInv
    <3> QED
      BY <3>1 DEF AcceptorLeft
  <2>2. CASE ~ WaitEach
    <3>1. UNCHANGED <<acceptor, freed, isRunning>>
      BY <1>0, <2>2 DEF Main, MainStep, SetRunning, StartAcceptor, MainTest, Run, DeleteLevel,
                        Cleanup, WaitAll, Join
    <3> QED
      BY <3>1, LeftAreNumbers DEF AcceptorLeft
  <2> QED
    BY <2>1, <2>2
<1> QED
  BY <1>1, <1>2, <1>3 DEF LessIsLeft

LEMMA AcceptorShrinks ==
    ASSUME LifecycleInv, StopInv, ~ winsock, Acceptor
    PROVE  ~ winsock' /\ LessIsLeft
<1>0. PlaceTypes /\ ConnectionTypes /\ RegisterInv
  BY DEF LifecycleInv, TypeOK
<1>1. UNCHANGED <<winsock, main, sender, client, freed, isRunning>>
  BY DEF Acceptor, AcceptorStep, AcceptorTest, Accept, AcceptFails, Refuse, Admit,
         Register, mainVars, clientVars, Discard
<1>a. ~ winsock'
  BY <1>1
<1>2. /\ MainLeft' <= MainLeft /\ SenderLeft' <= SenderLeft
      /\ \A s \in Sockets : ClientLeft(s)' <= ClientLeft(s)
  BY <1>1 DEF MainLeft, SenderLeft, ClientLeft
<1>3. \A s \in Sockets : HandlerLeft(s)' <= HandlerLeft(s)
  <2> SUFFICES ASSUME NEW s \in Sockets, handler'[s] # handler[s]
               PROVE  handler[s] \in {"backlog", "accepted"} /\ handler'[s] \in {"refused", "recv"}
    BY <1>1, LeftWithoutSockets DEF HandlerPlace
  <2> QED
    BY <1>0 DEF Acceptor, AcceptorStep, AcceptorTest, Accept, AcceptFails, Refuse, Admit,
                Register, ConnectionTypes, RegisterInv
<1>4. AcceptorLeft' <= AcceptorLeft /\ AcceptorLeft' < AcceptorLeft
  <2>1. ~ freed => ~ isRunning
    BY <1>0 DEF StopInv, PlaceTypes
  <2>2. CASE AcceptorTest
    BY <1>1, <2>1, <2>2 DEF AcceptorTest, AcceptorStep, AcceptorLeft
  <2>3. CASE AcceptFails
    BY <1>1, <2>1, <2>3 DEF AcceptFails, AcceptorStep, AcceptorLeft
  <2>4. CASE Refuse \/ Admit \/ Register
    BY <1>1, <2>1, <2>4 DEF Refuse, Admit, Register, AcceptorStep, AcceptorLeft
  <2> QED
    BY <2>2, <2>3, <2>4 DEF Acceptor, Accept
<1> QED
  BY <1>a, <1>2, <1>3, <1>4 DEF LessIsLeft

LEMMA OthersShrink ==
    ASSUME LifecycleInv, StopInv, ~ winsock,
           \/ Send
           \/ \E s \in Sockets : Handler(s) \/ Client(s)
    PROVE  ~ winsock' /\ LessIsLeft
<1>0. PlaceTypes /\ ConnectionTypes /\ JoinedBeforeFree
  BY DEF LifecycleInv, TypeOK
<1>1. UNCHANGED <<winsock, main, acceptor, freed, isRunning>>
  BY DEF Send, Handler, HandlerStep, Receive, Process, Leave, Client, ClientStep, Connect,
         Quit, mainVars, clientVars, Discard
<1>2. ~ winsock' /\ MainLeft' <= MainLeft /\ AcceptorLeft' <= AcceptorLeft
  BY <1>1 DEF MainLeft, AcceptorLeft
<1>3. CASE Send
  <2>1. \A s \in Sockets : HandlerLeft(s)' <= HandlerLeft(s) /\ ClientLeft(s)' <= ClientLeft(s)
    <3>1. client' = client /\ handler' = handler
      BY <1>3 DEF Send, clientVars
    <3>2. \A s \in Sockets : HandlerPlace(s)' = HandlerPlace(s) /\ ClientLeft(s)' = ClientLeft(s)
      BY <3>1 DEF HandlerPlace, ClientLeft
    <3> QED
      BY <1>2, <3>2, LeftWithoutSockets, LeftAreNumbers
  <2>2. ~ isRunning
    BY <1>0, <1>3 DEF Send, JoinedBeforeFree, StopInv, PlaceTypes
  <2>3. SenderLeft' <= SenderLeft /\ SenderLeft' < SenderLeft
    BY <1>3, <2>2 DEF Send, SenderLeft
  <2> QED
    BY <1>2, <2>1, <2>3 DEF LessIsLeft
<1>4. ASSUME NEW s \in Sockets, Handler(s) PROVE LessIsLeft
  <2>0. /\ UNCHANGED <<sender, client>>
        /\ \/ handler[s] = "recv" /\ handler' = [handler EXCEPT ![s] = "leave"]
           \/ handler[s] = "packet" /\ handler' = [handler EXCEPT ![s] = "recv"]
           \/ handler[s] = "leave" /\ handler' = [handler EXCEPT ![s] = "ended"]
    BY <1>4 DEF Handler, HandlerStep, Receive, Process, Leave
  <2>1. SenderLeft' <= SenderLeft /\ \A r \in Sockets : ClientLeft(r)' <= ClientLeft(r)
    BY <2>0 DEF SenderLeft, ClientLeft
  <2>2. \A r \in Sockets : r # s => HandlerPlace(r)' = HandlerPlace(r)
    BY <1>0, <2>0 DEF HandlerPlace, ConnectionTypes
  <2>3. HandlerPlace(s)' < HandlerPlace(s)
    BY <1>0, <2>0 DEF HandlerPlace, ConnectionTypes
  <2>4. \A r \in Sockets : HandlerPlace(r)' <= HandlerPlace(r)
    BY <2>2, <2>3, LeftAreNumbers DEF HandlerPlace
  <2> QED
    BY <1>2, <2>1, <2>3, <2>4, LeftWithoutSockets DEF LessIsLeft
<1>5. ASSUME NEW s \in Sockets, Client(s) PROVE LessIsLeft
  <2>1. /\ client[s] = "up" /\ client' = [client EXCEPT ![s] = "closed"]
        /\ UNCHANGED <<sender, handler>>
    BY <1>5 DEF Client, ClientStep, Connect, Quit
  <2>2. SenderLeft' <= SenderLeft /\ \A r \in Sockets : HandlerLeft(r)' <= HandlerLeft(r)
    BY <1>2, <2>1, LeftWithoutSockets DEF SenderLeft, HandlerPlace
  <2>3. \A r \in Sockets : r # s => ClientLeft(r)' <= ClientLeft(r)
    BY <1>0, <2>1 DEF ClientLeft, ConnectionTypes
  <2>4. ClientLeft(s)' <= ClientLeft(s) /\ ClientLeft(s)' < ClientLeft(s)
    BY <1>0, <2>1 DEF ClientLeft, ConnectionTypes
  <2> QED
    BY <1>2, <2>2, <2>3, <2>4 DEF LessIsLeft
<1> QED
  BY <1>2, <1>3, <1>4, <1>5

LEMMA NextShrinks ==
    ASSUME LifecycleInv, StopInv, ~ winsock, [Next]_vars
    PROVE  ~ winsock' /\ LessIsLeft
<1>1. ASSUME UNCHANGED <<main, closer, quit, isRunning, gameLevel, winsock, mutexOpen, acceptor,
                         sender, handler, registered, freed, client, unread, unguarded>>
      PROVE  ~ winsock' /\ LessIsLeft
  <2>1. /\ MainLeft' = MainLeft /\ SenderLeft' = SenderLeft /\ AcceptorLeft' = AcceptorLeft
        /\ \A s \in Sockets :
              HandlerLeft(s)' = HandlerLeft(s) /\ ClientLeft(s)' = ClientLeft(s)
    BY <1>1 DEF MainLeft, SenderLeft, AcceptorLeft, HandlerLeft, HandlerPlace, ClientLeft
  <2> QED
    BY <1>1, <2>1, LeftAreNumbers, LeftWithoutSockets DEF LessIsLeft
<1>2. CASE Sychronize
  BY <1>1, <1>2 DEF Sychronize, mainVars, clientVars, Discard
<1>3. CASE UNCHANGED vars
  BY <1>1, <1>3 DEF vars
<1>4. ~ CloseConsole
  BY DEF CloseConsole, StopInv
<1> QED
  BY <1>2, <1>3, <1>4, MainShrinks, AcceptorShrinks, OthersShrink DEF Next

\* QuitGame sets quit before Stop clears isRunning (Engine.cpp:238-246), the
\* sockets go after that (GameServer.cpp:59-61), and who is registered has a
\* handler: StopInv is an invariant.
THEOREM StopInvariant == Spec => []StopInv
<1>1. Init /\ [][Next]_vars => []StopInv
  BY InitLifecycle, NextLifecycle, InitStop, NextStop, PTL
<1> QED
  BY <1>1, PTL DEF Spec

\* A server told to stop does not wait for a user, and once WSACleanup was
\* called main can go on, or one of the threads it may be waiting for can: no
\* wait of ~GameServer (GameServer.cpp:63-76) or of serverMain (serverMain.cpp:48)
\* is for a thread that waits itself.
THEOREM NeverStuckAlways == Spec => []NeverStuck
BY NeverStuckFollows, LifecycleInvariant, StopInvariant, PTL

\* Once WSACleanup was called, each step of a thread but the synchronizer uses
\* up something that no step renews, so that there are finitely many of them:
\* handlers leave after their last packet, nobody is accepted, and the acceptor
\* goes round once more at most, whatever it reads where isRunning was.
THEOREM StopAlwaysShrinks == Spec => StopShrinks
<1>1. LifecycleInv /\ StopInv /\ [Next]_vars => (~ winsock => ~ winsock' /\ LessIsLeft)
  BY NextShrinks
<1>2. LifecycleInv /\ StopInv /\ [Next]_vars => [~ winsock => ~ winsock' /\ LessIsLeft]_vars
  BY <1>1
<1> QED
  BY <1>2, LifecycleInvariant, StopInvariant, PTL DEF Spec, StopShrinks

\* A client that is gone stays so, and its handler comes back to recv only for what
\* the client sent before: then recv fails, and it leaves (GameServer.cpp:150-189).
GoneIsServedOut ==
    [][\A s \in Sockets :
          client[s] = "closed" /\ s \in ClientSockets =>
             /\ client'[s] = "closed"
             /\ handler'[s] = handler[s] \/ HandlerLeft(s)' < HandlerLeft(s)]_vars

\* GoneIsServedOut, for any number of connections: what QuitReachesServer rests
\* on, since a handler that has not ended can always take a step.
THEOREM GoneIsServedOutAlways == Spec => GoneIsServedOut
<1>1. ASSUME LifecycleInv, [Next]_vars, NEW s \in Sockets,
             client[s] = "closed", s \in ClientSockets
      PROVE  /\ client'[s] = "closed"
             /\ handler'[s] = handler[s] \/ HandlerLeft(s)' < HandlerLeft(s)
  <2>0. ConnectionTypes /\ RegisterInv /\ handler[s] \in {"recv", "packet", "leave"}
    BY <1>1 DEF LifecycleInv, TypeOK, ClientSockets
  <2>1. CASE Main \/ CloseConsole \/ Send \/ Sychronize \/ UNCHANGED vars
    BY <1>1, <2>1 DEF Main, MainStep, SetRunning, StartAcceptor, MainTest, Run, DeleteLevel,
                      Cleanup, WaitAll, WaitEach, Join, CloseConsole, Send, Sychronize, vars,
                      clientVars
  <2>2. CASE Acceptor
    BY <1>1, <2>0, <2>2 DEF Acceptor, AcceptorStep, AcceptorTest, Accept, AcceptFails, Refuse,
                            Admit, Register, ConnectionTypes, RegisterInv
  <2>3. ASSUME NEW r \in Sockets, Handler(r)
        PROVE  client' = client /\ (handler'[s] = handler[s] \/ HandlerLeft(s)' < HandlerLeft(s))
    <3>1. client' = client /\ winsock' = winsock
      BY <2>3 DEF Handler, HandlerStep, Receive, Process, Leave, mainVars
    <3>2. CASE r # s
      BY <2>0, <2>3, <3>1, <3>2 DEF Handler, HandlerStep, Receive, Process, Leave,
                                    ConnectionTypes
    <3>3. CASE r = s
      <4>1. unread[s] \in Nat
        BY <2>0, LifecycleAssumption DEF ConnectionTypes
      <4>2. \/ /\ winsock /\ handler[s] = "recv" /\ handler'[s] = "packet"
               /\ unread[s] > 0 /\ unread'[s] = unread[s] - 1
            \/ handler[s] = "recv" /\ handler'[s] = "leave" /\ unread'[s] = unread[s]
            \/ handler[s] = "packet" /\ handler'[s] = "recv" /\ unread'[s] = unread[s]
            \/ handler[s] = "leave" /\ handler'[s] = "ended" /\ unread'[s] = 0
        BY <1>1, <2>0, <2>3, <3>3 DEF Handler, HandlerStep, Receive, Process, Leave, Discard,
                                      ConnectionTypes
      <4>3. HandlerLeft(s)' < HandlerLeft(s)
        BY <3>1, <4>1, <4>2 DEF HandlerLeft, HandlerPlace
      <4> QED
        BY <3>1, <4>3
    <3> QED
      BY <3>2, <3>3
  <2>4. ASSUME NEW r \in Sockets, Client(r)
        PROVE  client'[s] = "closed" /\ handler'[s] = handler[s]
    BY <1>1, <2>0, <2>4 DEF Client, ClientStep, Connect, Quit, ConnectionTypes, RegisterInv
  <2> QED
    BY <1>1, <2>1, <2>2, <2>3, <2>4 DEF Next
<1>2. LifecycleInv /\ [Next]_vars =>
        [\A s \in Sockets :
            client[s] = "closed" /\ s \in ClientSockets =>
               /\ client'[s] = "closed"
               /\ handler'[s] = handler[s] \/ HandlerLeft(s)' < HandlerLeft(s)]_vars
  BY <1>1
<1> QED
  BY <1>2, LifecycleInvariant, PTL DEF Spec, GoneIsServedOut
=============================================================================
