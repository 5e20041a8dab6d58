# A TLA+ model of HideAndSeek

HideAndSeek is a multiplayer game for the Windows console: a server
(`src/HideAndSeek/Server`), up to eight clients (`src/HideAndSeek/Client`) and
a small engine both are built on (`src/HideAndSeek/ConsoleEngine`). Players
walk over a map by clicking (the server finds a path) or with the arrow keys;
whoever stands with the seeker becomes a seeker. This directory models it: TLA+
modules, TLC runs on small instances and TLAPS proofs for all instances.

All paths below are relative to `src/HideAndSeek`. Only the files its project
files compile are considered; the server is taken as its Debug build (`/MDd`),
in which the C++ library checks vector indices and the heap checks deletes.

## 1. Inventory

| Component | State | Operations | What is hard | What makes it correct |
|---|---|---|---|---|
| **World of the server** `EngineGame/Levels/GameLevel`, `Actors/Player` | `players` (a vector indexed by id - 1), `allPlayersPath` (by id), map, `emptyPositions` | add, move by key, find path, remove, `Update` (walk, tag) | removal shifts the indices under the ids; a key leaves the path as it was | ids unique; index and id agree while nobody left; tags spread by contact only; players walk cell by cell |
| **ProcessCollision** (same file) | two loop indices over a vector they write | one call | the outer loop reads what the inner one writes | the outcome does not depend on the order |
| **A\*** `Algorithms/AStar` | `openList`, `allNodes` (by hash), nodes on the heap | `FindPath` | nodes replaced while the old ones are queued; ends off the map; hashes that collide | cheapest route; ends; frees its nodes |
| **Server threads** `Server/GameServer` | `clientSockets`, `clientIds`, `playerCount`, `isSeekerSet`, `sendQueue`, mutexes, 3 threads and one per client | accept, refuse, handle packets, send, synchronize, stop | all of them interleave; `send` blocks under the mutex; handles are reused; answers are queued before what they answer | the requests act on the world as if one at a time; ids reach those they were made for; the broadcast list is exact; the mutex is released |
| **Client protocol** `Client/GameClient`, `ClientGame/Game`, `Levels/MenuLevel` | `sendQueue`, `playerId`, `hasEnteredGame`, `isGameover`, send and receive thread, game loop | enter, input, quit, process a packet | packets without boundaries; a user who is quicker than the answers | who enters gets an id; no two clients have one id |
| **Level on the client** `GameLevel` | `players`, `tempPlayers`, `map`, `tempMap`, `isThreadWriting`, path | deserialize, `Update`, draw | receive thread and game loop hand over without a common lock | whatever is drawn was received whole |
| **Engine loop** `Engine/Engine` | `mainLevel`, `pendingLevel`, `levelChangeRequested`, `quit`, key states | `Run`, `ChangeLevel`, `QuitGame` | another thread requests the change and asks for the current level | the level a packet is for is the current one |
| **Input and menu** `Engine`, `Game`, `MenuLevel` | key states of two frames, menu index, `quit` | edge detection, selection, quitting | held keys repeat their events; several keys in a frame; the console quits in a thread of its own | each press counts once; what is picked is what is marked; after a quit the loop ends |
| **Packets** `Network/Packets`, `SerializeGameState` | none | serialize, deserialize | sizes and offsets into fixed buffers that nobody checks | what is not too long as a whole is written beyond no buffer; what is written is read back |
| **Start and stop** `serverMain`, `clientMain`, constructors, destructors | `isRunning`, `clientThreads`, the mutex's handle | start, `Stop`, destructors | threads start before the flags they test are set; what they use is deleted before they are waited for; a client waits for threads that do not end | the server ends; what it waits for has ended before it frees its memory; a client that is gone is gone for the server |
| **Rendering** `Render/ScreenBuffer`, `Engine` | image buffer, two console buffers | clear, draw, present | the buffer is cleared in rows one cell longer than it is drawn in, and line ends are overwritten | the screen shows the last frame and nothing else |
| **Base classes** `Actor`, `Level`, `RTTI`, `List`, `Timer`, `Core` | | | hardly used by the game | |
| **Practices** | | | compiled by no project | |

How they interact:

- A *client* has three threads: the game loop (`Engine::Run`), which enqueues
  packets; one that sends what is enqueued; one that receives and processes.
  They share the send queue (its own mutex), the level pointers and the id.
- The *server* has a thread that accepts, one `HandleClient` per connection,
  one that sends (`Send`) and one that synchronizes (`Sychronize`). They share
  `GameServer::mutex` over everything but the send queue, and `sendMutex` over
  that.
- Entering: `PLAYER_ENTER_REQUEST` -> `PLAYER_ENTER_RESPOND` (map size; the
  client changes to a `GameLevel`) -> `PLAYER_CREATE_REQUEST` ->
  `PLAYER_CREATE_RESPOND` (the id). From then on `KEY_INPUT`, `MOUSE_INPUT` and
  `PLAYER_EXIT_REQUEST` carry the id, and the synchronizer broadcasts the state
  and sends a path for every id ever given.

What could go wrong, line by line, is the list `hazards` of `PROJECT.json`,
with the properties that would show it.

## 2. The modules and the code

Two layers. The lower one is the world as the requests change it, one at a
time. The upper one is the program: threads, mutex, queues, connections,
clients; that it implements the lower one is checked. Beside them stand the
inside of a client, where two threads share levels without a common lock
(`LevelChange`, `ClientLevel`), its frames, keys and screen (`GameLoop`, which
composes `LevelChange` and `Screen`), the start and the end of the processes
(`Lifecycle`), and the bytes of the packets (`Packets`).

| Module | What it is | State and actions in the code |
|---|---|---|
| `Grid` | positions, cells, cost, neighbours; what a route is; all cheapest routes, cost by cost, as a reference | `Vector2`, `AStar::Heuristic`, the neighbour loop of `FindPath` |
| `Tagging` | what `ProcessCollision` computes, in one expression | used by `GameLevel` |
| `GameLevel` | **the abstract specification of the server** | a variable per field; an action per packet type of `ProcessPacket` with all it calls (`CreatePlayer`, `KeyInput`, `MouseInput`, `ExitRequest`, `ExitRequestWithoutId`), `ConnectionLost` for `HandleClient` leaving its loop, `Synchronize` for `Update`. `holder` is a history variable, `serverUp` becomes FALSE where the debug runtime ends the process |
| `PathTracking` | `GameLevel` with two history variables, `astray` and `keyed`: when a path can be trusted | same actions |
| `Collision` | the loops of `ProcessCollision`, an iteration a step | `players`, `i`, `j` |
| `AStar` | `FindPath`, a node taken from the list a step | `openList`; `allNodes` by key, a key being the 32 bits of `Hash`, so that positions whose keys are equal share an entry; `allocated` is what was `new`ed and not deleted; a node carries the route its parents spell |
| `Network` | the connections, modelled from how the code uses Winsock | `toServer`, `toClient` in order and without boundaries; handles that are reused |
| `GameServer` | the threads of the server | `acceptor`, `handler[c]`, `sender`, `syncer` say where each thread is; an action is a section between two points where another thread can tell the difference |
| `GameClient` | the clients | an action per handler of the game loop, `SendPacket`, `ReceivePacket`, `Disconnect` |
| `HideAndSeek` | composes `GameServer`, `GameClient` and `Network`; fairness; the properties of the whole | |
| `LevelChange` | `Engine::Run` and `RequestLevelChange` against `ProcessPacket`, access by access | `mainLevel`, `pendingLevel`, `levelChangeRequested`; `loop` and `receiver` say where the threads are; a level is the number of its creation, `deleted` those that are gone |
| `Screen` | the image buffer index by index, the two console buffers; what drawings should look like, cell by cell, as a reference | `ClearImageBuffer`, `Engine::Draw`, `ScreenBuffer::Draw`, `Present` |
| `GameLoop` | the frames of a client on top of `LevelChange` and `Screen`: `ProcessAndCheckInput`, `UpdateMenu` or `UpdateGame`, `Draw`, `Present`, with steps of the receiving thread and of the console's between any two | `isKeyDown`, `wasKeyDown`, `currentIndex`, `quit`; `drawings`, `shown`, `fresh`, `sent` and `lateFrames` are history |
| `Lifecycle` | `serverMain`, constructor and destructor of `GameServer` against its threads and its clients | `main`, `closer`, `acceptor`, `sender`, `synchronizer`, `handler[s]`, `client[s]` say where each thread is; `unread[s]` is what `recv` still returns of a client that is gone; `registered` is `clientThreads` and which of the destructor's waits sees an entry |
| `HandOver` | **the abstract specification of a client's screen**: states are shown whole and in order | `shown`, `slot` |
| `ClientLevel` | a `GameLevel` on the client: `DeserializeGameState` and `RequestClientPlayerPathChange` against `Update` and `Draw`, access by access; implements `HandOver` | a variable per field; of players, maps and paths the number of their arrival |
| `Packets` | where each field of a packet is written and read, and what is allocated and buffered for it | blocks of bytes; an action per serializing or deserializing function |
| `MC...` | the maps, cells and clicks of the runs | |
| `...Proofs` | the theorems | |

### Where steps begin and end

A section under `GameServer::mutex` is one step, except where its inside can be
seen from outside:

- The handler of `PLAYER_CREATE_REQUEST` enqueues the answer (`CreateRespond`)
  before it adds the player (`CreateAdd`); the sender can take the answer in
  between, but needs the mutex to send it.
- `SynchronizeGameState` enqueues the state (`SyncLock`) and then path after
  path (`SyncPath`), in the arbitrary order of an `unordered_map`.
- `Send` and `Broadcast` call `send` once per handle (`SendOne`), which blocks
  while the connection is full, with the mutex held.

`sendMutex` guards one push or one pop at a time and so needs no variable;
`gameLevel`'s own mutex is only taken under `GameServer::mutex`.

### Ends of the server

The Debug build ends the process where `FindPath` indexes beyond the vector
(`MouseInput`), where `RemovePlayer` erases beyond it or the level is still
null (`ExitRequest`), and, perhaps, when the packet of an exit request is
deleted twice: between the two another thread can have been given the block, so
that case is a choice (`serverUp' \in BOOLEAN`). `MovePlayer` does check the size
and ignores the request.

### The inside of a client

In `LevelChange` and `ClientLevel` every access to a field that two threads use
without a lock is a step. What a thread does to an object that the other has
deleted, or is just replacing, is undefined in C++: `clientUp` may become FALSE
(the process ends) or stay TRUE, and a call on `nullptr` ends it. The modules
then say what holds as long as the process runs; that it can end this way
is part of the models, not excluded by them. The section of `SwapPlayers` is one
step because it holds the mutex that the other user of `tempPlayers` holds too.
In `GameLoop` a frame has four steps; its own data is used by one thread only,
but the level it works on is the other thread's business too, and `quit` is set
by a third. `Packets` has no concurrency: serializing happens under the server's mutex and
deserializing in one thread.

### The end of the processes

`~GameServer` deletes the level, closes the listening socket and calls
`WSACleanup`, waits, closes the mutex, waits again, and `main` waits for the
acceptor; nobody waits for the synchronizer. `Lifecycle` follows this order.
`recv` and `accept` fail once Winsock is gone. `WaitForMultipleObjects` takes 1
to 64 handles (`MaxWait`) and fails at once otherwise, and
`WaitForSingleObject` fails on a closed mutex: then a handler does its section
without it (`unguarded`). What a thread does with the deleted level or the
freed server is undefined: the process ends (`serverUp' \in BOOLEAN`) or not. A
client closes its socket and then waits for threads that never end; for the
server it is gone either way (`Quit`). What it sent before may still be on its
way (`unread`): `recv` returns that first.

### Lines that begin with "(A variant"

Next to some definitions stands a variant of it with a plausible mistake
(`RemovedBySwap`, `Stacked`, `SendWithoutLock`, ...). No specification uses them.
Each property is tried against the model with the definition replaced by the
variant and must then be violated; `mutants` in `PROJECT.json` has the pairs.

## 3. The runs

`tlc -workers 2 -config X.cfg M`. Deadlock is not checked: users may stop
acting, and then the bounded systems do stop.
The runs check what could go wrong. Each module's `TypeOK` holds in its runs too
(add it to the `INVARIANTS` of a cfg to see it); where a module has an inductive
invariant, its types are part of that and proved.

| Run | Module, cfg | Shows | Bounds, and why they are enough |
|---|---|---|---|
| `level` | `MCPathTracking` | `IdsIncreasing`, `IndexIsId`, `NoPlayerOutlivesExit`, `SeekerPresent`, `TagsSpreadByContact`, `OnFloor`, `OnPath`, `NoJumps` | 3 players, 4 x 1 cells with a wall that keys lead into, clicks with paths of two steps, of one and with none: three players are the least for an exit in the middle to shift one and leave another, two steps the least for a path to continue and for a jump; the theorems lift the bounds and include players off the map (`Margin`) |
| `collision` | `Collision` | `TagsTheVector` | all vectors of up to 4 players in 3 places |
| `astar` | `MCAStar` | `AnswerIsRoute`, `AnswerIsCheapest`, `TakenIsFinal`, `OnlyReplacedLeak`, `Terminates` | all 3 x 3 maps with up to 3 walls, starts on and off the map, ends on it and one beyond: 3 walls cut the map in two or make a detour; `AStarProofs` lifts the bounds for all of them but `Terminates`. TLC also evaluates `KeysDiffer`: no two cells of a map of 80 x 30, as large as the screen, have one key |
| `connections` | `MCHideAndSeek` | `IdsReady`, `IdsUnique`, `OnlyTheGoneAreMistaken`, `NoPathBeforeId`, `BroadcastList` | 2 clients that enter and may be killed at any time, 2 handles that are reused, 3 packets in flight and 4 in the queue: a round of the synchronizer for two players and the answers fit; `HideAndSeekProofs` lifts the bounds |
| `requests` | `MCHideAndSeek` | `ImplementsLevel` for every packet type: one client that may pick "Start Game" twice, quits twice (escape, and closing the console) and still sends | 1 client, 2 players, 1 input, 2 quits: the second exit request finds the player gone, or another one in its place. For several clients at once `HideAndSeekProofs` proves it |
| `progress` | `MCHideAndSeek` | `BroadcastList`; `MutexIsReleased`, `DeadConnectionsAreClosed` under `FairSpec`; with `MaxClients` = 1, where the second client is refused or admitted after the first has left | a connection holds one packet, so that `send` does block under the mutex; 2 clients, one admitted at a time, one end |
| `game_loop` | `MCGameLoop`, `GameLoop.cfg` | `LoopHasLevel`, `OwnIdOrNone`, `GameIsShown`, `ShowsLastFrame`, `OneFrameAfterQuit`, `OncePerPress`, `PicksWhatIsMarked` | 2 presses of return: the second answer may fall into the change of the first; 3 keys, one of each kind (arrow, return, escape), 2 events a frame: a key held, or released and pressed again, between frames or within one, and an arrow and return in the same frame in either order. Escape, which is ignored before the game is entered, goes down only afterwards (`EarlyKeys`). A screen of 2 x 4, which the menu fills and the map does not: what is left of the menu would be seen. The theorems lift the bounds on presses, keys, events, maps and the size of the screen |
| `lifecycle` | `Lifecycle` | `JoinedBeforeFree`, `StopEnds`, `QuitReachesServer`, `PendingIsAccepted` | 2 connections, `MaxClients` = 1, `MaxWait` = 1: one client is refused, or comes after another has left, and `clientThreads` is empty, at the limit or beyond it; `MaxUnread` = 1: `recv` may return a packet of a client that is gone already. `LifecycleProofs` lifts the bounds for the safety property |
| `client_level` | `MCClientLevel`, `ClientLevel.cfg` | `DrawnTogether`, `ShownInOrder`, `ImplementsHandOver`, `AcceptedIsShown` | 4 states with 2, 0, 1 and 2 players, 3 paths: three states are the least for one to be dropped between two that are accepted; the theorems lift the bound |
| `packets` | `Packets` | `ShortPacketsFit`, `RoundTrip` | the code's buffer, the lengths of the maps in `Assets/Maps`, up to 40 players and 100 positions: with the longest map 35 players fit, with 36 the packet has 4101 bytes, and the 37th is written beyond the buffer of the state. No two cells of `Map.txt` are further apart than 65 steps. The theorems are about any sizes |
| `packets_allocated` | `Packets`, `PacketsAllocated.cfg` | **violated**: `SerializeStaysInside` | the shortest path suffices |
| `entering` | `MCHideAndSeek` | **violated**: `EnteringClientGetsId` | 2 clients, nobody leaves |

Bounds that are constants of the models and not of the code: `MaxPlayers` (ids
given), `Margin` (how far off the map a player is followed), `MaxCost` (cost of
routes enumerated, as much as a cheapest one can have), `Capacity` (packets in
one direction of a connection),
`MaxQueue` (the synchronizer starts no round that would make the queue longer;
the answers always fit), `MaxPresses`, `MaxInputs`, `MaxQuits` and `MaxEnds`
(what users do), `MaxEvents` (events in a frame), `EarlyKeys` (keys
that go down before the game is entered), `MaxUnread` (packets `recv`
still returns of a client that is gone), `MaxPaths` and `MaxPath`
(paths received, positions in one). `MaxClients` (8), `MaxWait` (64),
`ScreenWidth` and `ScreenHeight` (80 and 30) are constants of the code and of
Windows, which the runs make small.

In the upper layer the map has two cells and all clicks are beyond it, so that
no path is ever found: the runs are about threads and packets, and paths are
what the lower layer is checked and proved with. Symmetry is used for clients
and handles, in runs without liveness properties only.

### Properties, by what they protect

- **Index and id.** `IndexIsId` says how far `players[id - 1]` is the player
  `id`: as long as no id up to it has left. The code promises no more, and the
  other properties state what survives beyond: ids stay increasing
  (`IdsIncreasing`), no more players than holders (`NoPlayerOutlivesExit`), a
  seeker until player 1 leaves (`SeekerPresent`).
- **Walking.** `OnFloor`, `OnPath`, `NoJumps`: a key makes its player astray until
  it has taken a step; a click makes player `k` astray if index `k - 1` is somebody
  else's. Everybody else moves by neighbouring cells, over the floor.
- **Tagging.** `TagsTheVector` for the loops, `TagsSpreadByContact` for the
  world.
- **Ids and handles.** `IdsReady`: the answer is queued before the player
  exists, and still no client knows an id of no player; what keeps it is the
  mutex the sender takes, as the variant `SendWithoutLock` shows. `IdsUnique`,
  `NoPathBeforeId`. `OnlyTheGoneAreMistaken`: `clientIds` and queued tasks keep
  handles of closed sockets; a client can receive what was meant for
  another, but only for one that is gone.
- **`BroadcastList`.** Exactly the connections whose handler still reads, once
  each, at most `MaxClients`.
- **`ImplementsLevel`** is the refinement `Level!Spec`: `GameLevel` with
  `playerCount` minus the creations in progress, and `holder` computed from
  where the handlers are.
- **Start and stop.** `JoinedBeforeFree`: sender and handlers have ended when the
  server is freed, and no handler that the first wait covers runs without
  the mutex, as long as there are 1 to 64 of them. The first wait fails for an
  empty vector, and a thread registered after the loop has begun is waited for
  by nobody; the property says exactly what is left. `StopEnds`: a server
  whose `isRunning` is FALSE ends, because `WSACleanup` wakes whoever waits in
  `recv` or `accept`. `QuitReachesServer`: a client that quits, or hangs in its
  destructor, leaves the server's lists. `PendingIsAccepted`: whoever is in the
  backlog is accepted or refused unless an `accept` has failed before, after
  which a running server accepts nobody (`GameServer.cpp:95` tests `isRunning`
  the wrong way round).
- **Keys and menu.** `OncePerPress`: whatever a frame sends, moves or picks, its
  key went down since the frame before. `PicksWhatIsMarked`: return picks the
  item that the screen marks, or, if an arrow went down in the same frame, the
  other one, which the screen has not marked yet: the menu moves its index
  first, in whatever order the keys went down. In the very first frame the
  screen marks nothing.
  `OneFrameAfterQuit`: `quit` is tested between frames, and only there.
- **The screen.** `ShowsLastFrame`: the console shows what the last presented
  frame drew. The line ends `ClearImageBuffer` writes are overwritten by the
  next row, except the last, which no copy reaches; the rows it clears
  and those that are drawn are of different lengths, and all cells that are
  copied are cleared all the same.
- **The client's levels.** `LoopHasLevel`: a level is deleted once, and never the
  one that is drawn. `OwnIdOrNone`: the id is set in whatever level is current
  when its answer is processed; a second level may replace it and then marks
  nobody, never another player. `GameIsShown`: a request that falls between the
  steps of a change may be lost, but not so that the menu stays.
- **The client's screen.** `ImplementsHandOver`: players are shown whole and in
  order though `isThreadWriting` is read outside the mutex (it is the mutex that
  keeps them whole). `DrawnTogether`: the map may run ahead of the players by
  one accepted state and never falls behind. `ShownInOrder`: the map and the path
  never go back, but a path can vanish, when the flag is set again after the
  loop has already moved it. `AcceptedIsShown`: no accepted state is lost.
- **Bytes.** Nothing bounds the players in a state: a lost connection leaves its
  player in the level, and `SerializeGameState` does not look at the size of its
  buffer, nor does anybody at the size of a packet. So the buffers do not always
  hold: `BuffersHold`, added to the `INVARIANTS` of `Packets.cfg`, fails.
  `ShortPacketsFit` is what is left: nothing else makes a packet too long, and
  none that fits as a whole is written beyond a buffer on its way. `RoundTrip`: the sizes the actors add up count the base
  class twice; the gaps this leaves keep the fields apart and are the same on
  both sides. After a write beyond a buffer on the stack, which is undefined, the
  packet is not followed any further (stage `"undefined"`).

### Fairness

`FairSpec` assumes that threads run. For the server's threads it is strong
fairness: what they wait for, the mutex, is taken and released again and again,
and Windows queues the waiters of a mutex first in, first out; the synchronizer
sleeps between rounds. The client's threads wait for nothing another
thread can take away (weak fairness), except the game loop for the mutex of the
level, which is strongly fair for the same reason as above. Nothing makes a user press a key, quit or
connect, nothing makes an accept fail. `AStar` assumes weak
fairness of its one thread. `GameLoopSpec` assumes weak fairness of the loop, which
waits for nothing, and of the receiving thread once a packet has arrived; no key
need be pressed. In `Lifecycle` every thread of the server is weakly fair: a
section under the mutex is one step there, which `MutexIsReleased` justifies;
main need not leave `Run` before somebody quits, and once Windows has started
the thread for a closed console, that thread runs.

### Where the code and what it says of itself differ

Two disagreements are runs that end in a violation:

- `packets_allocated`: `SerializePacket` asserts a heap in order
  (`Packets.cpp:23`), and `MovePathPacket::Serialize`, whose `totalPacketSize`
  forgets `pathCount`, writes 4 bytes beyond its block each time.
- `entering`: "after connecting to the server it must get a player id from the
  server" (`GameClient.cpp:45`). Both receive loops process the first packet of
  what `recv` returned and drop the rest: a `PLAYER_ENTER_RESPOND` behind a
  broadcast is dropped, and nobody asks again.

Four more are built into the models, whose properties say what is left:

- `MovePlayer` never asks `CanPlayerMove`, whose comment announces the check for
  walls (`GameLevel.cpp:196`): an arrow key puts a player into a wall. `KeyInput`
  does so, and `OnFloor` speaks of the players no key has moved.
- Both deleting loops are commented "free all dynamically allocated nodes"
  (`AStar.cpp:53`, `:101`); a node that a cheaper one replaced in `allNodes` is
  not freed. `OnlyReplacedLeak` says that no other is left.
- `SerializeGameState` is declared with the size of its buffer
  (`GameLevel.h:26`) and is given it (`GameServer.cpp:447`), and never looks at
  it: with the 1609 bytes of `Map.txt` and 36 players the packet has 4101 bytes,
  which the sender copies into a buffer of 4096; the 37th player is written
  beyond the 4096 bytes of the state's own buffer. `Packets` has both happen, and
  `BuffersHold`, added to the invariants of its run, fails. Nothing in the repository
  says how many players there may be.
- "Here the level is changed safely" (`Engine.cpp:118`): the loop may delete the
  level while the receiving thread is between `GetCurrentLevel` and its use.
  `LevelChange` lets the client crash or go on there.

## 4. The proofs

`tlapm M.tla` checks them. Constants are arbitrary up to the named assumptions,
which TLC evaluates in the runs:

- `GridAssumption`: sizes positive, walls on the map; `LevelAssumption`:
  `emptyPositions` is a nonempty set of floor cells, which `LoadMap` makes it
  (it collects the cells with `' '`, and walls are `'1'`).
- `FindPathAssumption`: `FindPath` answers with a route. It is `AnswerIsRoute`
  of `AStar`, proved in `AStarProofs`.
- `MaxCostAssumption`: the reference enumerates routes up to a cost that no
  cheapest one exceeds. A cheapest route enters a cell once, and a step costs 2
  at most. It is a bound of the reference; the code has none.
- `AStarAssumption` (sizes and arguments are what their names say) and
  `CellKeysDiffer`: no two cells of the map have the same 32 bits of `Hash`. TLC
  finds this true for 80 x 30 cells (`KeysDiffer` of `MCAStar`), as many as the
  screen has; where it fails, `allNodes` mixes up cells and nothing is claimed.
- `NetworkAssumption`, `ServerAssumption`, `LifecycleAssumption`: names that
  mark "nobody" are no client and no handle, sets are finite.
- `PacketsAssumption`: sizes are natural numbers. That anything fits into a
  buffer is not assumed.
- `ScreenAssumption`, `GameLoopAssumption`, `PicturesFit`: the screen, 80 x 30
  (`Engine.cpp:31`), holds the menu and the map, and players stand on it. The
  largest map, `Map.txt`, is 69 x 23. `Draw` clips nothing: beyond the edge it
  goes on in the next row, and the theorem on the screen says nothing of that.

The theorems, by module:

- **`GameLevelProofs`**: `TypeCorrect`; `LevelInvariant`; from it
  `IdsStayIncreasing`, `IndexStaysId`, `SeekerStaysPresent`,
  `TagsAlwaysSpreadByContact`, `NoPlayerEverOutlivesExit`. None of the
  properties is inductive alone. `LevelInv` adds that the vector is no longer
  than the ids given (so that a new player with the next id keeps the order),
  that `isSeekerSet` holds once there is a level, and that the player with id 1
  is a seeker wherever exits have shifted it. `NoPlayerOutlivesExit` counts: an
  exit takes one player and at most one holder, by the cardinality of a finite
  set less one element. For the walks: `TrackInvariant`, `StaysOnFloor`,
  `StaysOnPath`, `NeverJumps`. `TrackInv` is `LevelInv` with the three
  properties, which need each other (a step keeps to the floor because paths do,
  and leaves a path that continues because paths are connected), and that ids
  not yet given have no path: their player would start on it somewhere else.
- **`CollisionProofs`**: `LoopsTagTheVector`. `LoopInv` says what is done at
  `(i, j)`: nobody is tagged without a seeker of the start in its place, the
  seekers before `i` have tagged all in their places, the one at `i` those
  before `j`. A hider tagged on the way may tag in its turn: its place had a
  seeker, so this adds nobody.
- **`AStarProofs`**: `AStarInvariant`, `AnswerIsRouteAlways`,
  `NoWalkIsCheaperAlways`, `OnlyReplacedLeakAlways`, `TakenIsFinalAlways`,
  `SearchProgresses`, `ClosedAreFewAlways`, `RouteInvariant`,
  `AnswerIsCheapestAlways`, for every map, start and end.
  `AStarInv` says that a node's route is a walk of the cost it names, that
  `allNodes` has one node for a key, that the nodes taken so far are no dearer
  in total than those in the list, that every neighbour of a taken node is known
  at least as cheaply as through it, and that what is allocated and not in
  `allNodes` gave way to a cheaper node. The heuristic is a distance (the
  triangle inequality), so total costs never decrease along a route: a node that
  was taken is final. Then, for any walk to the end, the list holds a node that
  costs no more than the walk, the one for its first cell that no taken node
  stands for as cheaply; so what is taken at the end is cheapest.
  `NoWalkIsCheaper` quantifies over walks of every length, which is why it is a
  theorem and no run. `AnswerIsCheapest`, which the run checks, compares with a
  reference that knows no heuristic and finds routes cost by cost. `ByCost`: what
  that recursive function has at a cost is `CheapestAt`, the walks of that cost
  that lead where no cheaper one does; one cost more is `DearerIsCheapest`, by
  the last step of a walk. So the answer is among them if it costs no more than
  `MaxCost`. `RouteInv` gives that: a node costs at most 2 for each node closed
  before it, and few are ever closed. It adds that no route returns to the key
  of the start, which the reference leaves out too.
  `SearchProgresses` and `ClosedAreFewAlways` are what `Terminates` rests on: a
  step closes a node for good or takes a replaced one out of the list, and no
  more nodes are ever closed than there are cells, and the start.
- **`ClientLevelProofs`**: `HandOverInvariant`, `AlwaysDrawnTogether`,
  `AlwaysShownInOrder`, `HandsOver`, for any sequence of states
  (`ClientLevelAssumption`). `HandOverInv` speaks of the state accepted last:
  its players wait, complete or as far as they are pushed, or are shown, its map
  waits or is shown, and nothing newer is accepted before both are taken.
  `HandsOver` is the refinement: swapping is `Take`, the end of writing is
  `Put`, and every other step changes neither the players shown nor, as
  `HandOver` sees it, the slot.
- **`GameLoopProofs`**, first of `LevelChange`: `ChangeInvariant`,
  `LoopAlwaysHasLevel`, `OwnIdOrNoneAlways`. `ChangeInv` adds that a level is
  deleted only while it is the main one, that what is pending is newer and has
  nobody's id, and that a level the receiving thread fetched is the main one
  until it is deleted. So the id can only get into the main level, or into one
  that is gone. `GameLoopChangesLevels`: every step of `GameLoop` is one of
  `LevelChange` or leaves its variables alone, so that `ChangeInv`, and with it
  `FramesHaveLevel` and `FramesMarkOwnIdOrNone`, hold for the whole loop.
  `OneFrameAfterQuitAlways` needs `QuitInv`: the one late frame leads back to
  the test of `quit`. `OncePerPressAlways` needs `KeysInv`: between frames both
  key states agree, and within one a key that looks pressed went down in this
  frame's events. That a key whose last event is "down" and whose state before
  the batch was "up" has a first such event is found by well-founded choice on
  the positions of the batch, for batches of any length.
- **The screen**, in the same module: `ShowsLastFrameAlways`. Clearing, drawing
  an image and drawing a list of images are three loops, each a recursive
  function. `ClearedIsBlank`: after row `n` all cells of the rows up to `n` are
  blank; a line end lands on the first cell of the next row, which that row
  overwrites, and the last one behind everything that is copied, although the
  rows cleared are one cell longer than those that are copied. `DrawnCells`: a
  row of an image that the screen holds stays in its row of the buffer, so that
  exactly the cells it covers change. `ImageIsPicture`: together they make the
  picture that `Picture` defines without a buffer. `ShowInv` then says that the
  console shows `shown`, and that the back buffer holds the new frame before it
  is presented.
- **The menu**, in the same module: `PicksWhatIsMarkedAlways`. `MenuInv` adds
  that the menu is the first level and is never requested again, that it is on
  the screen with the index as it is whenever a frame begins (or nothing was
  shown yet), and that the index is one of its items'. With `ShowInv` and
  `ItemIsSeen` the cell of the item at the index holds its text in green; one
  arrow moves to the other item, both arrows move there and back.
- **`LifecycleProofs`**: `LifecycleInvariant`, `JoinedBeforeFreeAlways`.
  `WaitInv` ties the mutex's handle and the freed memory to where main is, and
  says that after a first wait that did not fail its threads have ended;
  `RegisterInv` says that a handler is registered once and after it was
  accepted, so that `registered` is never overwritten.
- **What stopping rests on**, in the same module: `StopInvariant`,
  `NeverStuckAlways`, `StopAlwaysShrinks`, `GoneIsServedOutAlways`. `StopEnds`
  needs that no wait is for a thread that waits itself, and that nothing goes
  round for ever. `NeverStuck` is the first: the places of main and the flags go
  together (`StopInv`), and whatever keeps main waiting is registered, has a
  handler, and that handler has a step. `StopShrinks` is the second: without
  sockets what each thread has left is a number, every step but the
  synchronizer's makes one of them less and none more. The acceptor may go
  round once more when the server is freed, since `isRunning` is then whatever
  is in that memory. The synchronizer may go round for ever; nobody waits for
  it. `GoneIsServedOut` is the same for one client that has quit, while the
  server runs: its handler serves what it sent before, each packet once, and
  then leaves (`HandlerLeft` counts them): `QuitReachesServer`.
- **`HideAndSeekProofs`**: `IdsInvariant`, `IdsReadyAlways`, `IdsUniqueAlways`,
  `BroadcastListAlways`, for any number of clients, handles, packets in flight
  and queued tasks. `SocketInv` says that a handle stands for one connection at
  a time, though it is reused; `MutexInv` that the sender with somebody left to
  send to holds the mutex, and that an id without a player is that of a handler
  that holds it; so the sender never has such an answer. `AnswerInv` follows
  each answer from the queue through the sender and the connection to the
  client: it is in one of these places only, and with one client. `IdsUnique` is
  its last conjunct, `IdsReady` the one before. `BroadcastList` is inductive
  once `SocketInv` is known: a handle that is pushed back belongs to no other
  connection, so it is not on the list yet, and `Erased` says that the one
  `erase` of a handler that leaves takes exactly its handle away. It assumes
  `MaxClients \in Nat`.
- **The refinement**, in the same module: `WorldInvariant`,
  `ImplementsLevelAlways`. Under the mapping of `HideAndSeek`, every step of
  every thread and client is one step of `GameLevel` or leaves its state alone;
  most are the latter, and the rest are, one lemma each, the requests and the
  synchronizer's `Update`. `CreateRespond` changes `playerCount` and is still a
  stutter, because the mapping takes the creations in progress off again; the
  player appears with `CreateAdd`. What makes this work is `WorldInv`: at most
  one creation is in progress, by the handler that holds the mutex, for the
  newest id; all other ids have an owner; and a request names an id that is
  owned. It needs `IdsInv` for that (a client sends with the id of its own
  answer). So the theorems of `GameLevelProofs` hold for the program with its
  threads, not only for requests made one at a time. (That last step is logic
  outside of the modules: `tlapm` does not cite a theorem through `INSTANCE`.)
- **Who is told of whom**: `MeantInvariant`, `OnlyTheGoneAreMistakenAlways`.
  `OnlyTheGoneAreMistaken` is about what clients know, and says nothing of what
  is under way. `MeantInv` follows a packet about a player backwards: what a
  client knows or is about to receive (`AboutInv`), what the sender is sending
  (`SentInv`), what is queued (`QueuedInv`) and the handle kept in `clientIds`
  (`KeptInv`) all stand for the client of the id, or for one that is gone. A
  handle changes its connection only after its handler has given up, and that
  only when the client is gone (`EndsInv`).
- **In which order**: `OrderInvariant`, `NoPathBeforeIdAlways`. `OrderInv` says
  of each place on the way, the queue, the sender and every connection, that no
  path of an id is ahead of its answer, and of each two places that the later
  one has no path of an id whose answer is still in the earlier one. It does not
  matter that the synchronizer queues paths for every id: the id is known to it
  only after its answer was queued, in the same section of the mutex.
- **What the liveness rests on**, in the same module. For `MutexIsReleased`:
  `SidesInvariant`, `SectionInvariant`, `HolderGoesOnAlways`,
  `SectionAlwaysShrinks`, `RoomAlwaysStays`. Whoever holds the mutex is in the
  middle of a section with something left in it (`HolderInv`), and every step
  of it leaves less (`SectionShrinks`). The only one that may have to wait is
  the sender, for one client with a full buffer, and that client has a case for
  the packet at its head (`HolderGoesOn`, from `SidesInv`). Once there is room
  it stays, even if the connection is closed and another client gets its handle
  (`RoomStays`): nobody but the sender sends to clients, and a fresh connection
  has nothing in it yet (`FreshInv`, `BacklogInv`). For
  `DeadConnectionsAreClosed`: `SomebodyAlwaysCloses`, `DeadAlwaysShrink`. What a
  handler has left to do for a client that has ended is 3 for each packet
  it has yet to receive, and a stage of the packet it is at; a received packet
  raises the stage by less than 3.
- **`PacketsProofs`**: `PacketsInvariant`, `ShortPacketsAlwaysFit`,
  `RoundTripAlways`, for any numbers of players and positions, any images and
  any size of the buffers. Where a field stands is a sum over all before it. `PacketsInv` says,
  for writing, sending and reading, that the blocks so far lie one behind the
  other without overlap and that the next place is the sum of their sizes; a
  player counts 68 bytes on both sides, since both count the base class twice.
  The sums only grow, so a packet whose whole length fits the buffer was written
  beyond it at no point before.

Recursive definitions are functions here (`byRow[n \in 0..N] == ...`). That such
a function exists is proved first (`IteratesExist`, `SumsExist`: there is no
least length without one), and what it computes by choosing the least argument
for which the claim fails, by well-foundedness of `<` on the naturals. This
replaces the induction theorems of the library, which take an operator that the
provers cannot instantiate.

What stays with TLC is liveness: `Terminates`, `MutexIsReleased`,
`DeadConnectionsAreClosed`, `GameIsShown`, `AcceptedIsShown`, `StopEnds`,
`QuitReachesServer`, `PendingIsAccepted`. This prover does not reach fairness
and `ENABLED`. For the first three, `StopEnds` and `QuitReachesServer`, what
fairness is applied to is proved: that some step is there to take (stated by its
guards, not by `ENABLED`) and that each one leaves less to do. The conclusion
from these to "eventually" is drawn by TLC on the small instances, and not by
`tlapm`. All other properties of the passing runs are theorems.

## 5. Not modelled

- **Parts of packets.** A `recv` returns whole packets. The code takes `recv`'s
  first bytes for a header in any case; what it does with half a packet is not
  followed.
- **Costs** are integers (the code's are `float` sums of integers). Keys of
  `allNodes` are modelled; collisions beyond 80 x 30 cells are not searched for.
- **Clients** connect once; a server that crashed is not restarted (nothing in
  the code does) and its clients are not followed.
- **The mouse's position** is a member of a small set where it is used
  (`MouseInput`) and left out where only the button counts (`GameLoop`).
- **A game deleted under the receiving thread.** `delete game` while packets are
  processed is, for the server, the end of the client (`Quit`).
- **`bind`, `listen`, `socket` failing**, thread creation failing: the
  processes print and go on without the part, or end.
- **The client's levels and its level together.** `ClientLevel` follows one level
  that stays; that a level is replaced is `LevelChange`.
- `MouseInputPacket::Serialize` (its size forgets the position) and
  `Game::ToggleMenu`, `List`, `Timer`: nothing calls them. The console's cursor,
  the base classes (`Actor`, `Level`, RTTI) as far as they only forward calls,
  and the exercises in `Practices`, which no project file compiles.

## 6. Plan

Done: all modules of section 2, and proofs of every safety and action property
of the passing runs, and of what five of the liveness properties rest on. What
is left, in this order:

1. `Stream`: what a receive loop does with parts of packets, over a stream of
   bytes.
2. What `GameIsShown`, `AcceptedIsShown` and `PendingIsAccepted` rest on, as
   `SearchProgresses` is for `Terminates`.
