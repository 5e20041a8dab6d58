------------------------------ MODULE GameLoop ------------------------------
(***************************************************************************)
(* The frames of a client, on top of LevelChange: keys and menu, quitting, *)
(* drawing.  Game overrides Engine::CheckInput; the thread that receives   *)
(* lets the client in between any two steps of a frame, and the thread     *)
(* Windows starts when the console is closed quits there too.              *)
(*                                                                         *)
(* The left button is a key here (ProcessInput makes it one); where the    *)
(* mouse points is left out.  Of a GameLevel the map and one player are    *)
(* drawn.                                                                  *)
(***************************************************************************)
EXTENDS LevelChange, Screen, SequencesExt

CONSTANTS
    Keys,       \* the keys the user has
    MaxEvents,  \* bound: how many events a frame finds
    EarlyKeys,  \* bound: the keys that go down before the game is entered
    GameMap,    \* the image of the map
    Places      \* where a player may be: on the map, which the screen holds

ASSUME GameLoopAssumption ==
    /\ MaxEvents \in Nat
    /\ Places \subseteq [x : 0..(ScreenWidth - 1), y : 0..(ScreenHeight - 1)]

\* The screen, 80 x 30 in the code, holds the menu and the maps there are.
ASSUME PicturesFit ==
    /\ ScreenWidth >= 2 /\ ScreenHeight >= 4
    /\ GameMap \in Seq(Seq(STRING))
    /\ Len(GameMap) <= ScreenHeight
    /\ \A row \in DOMAIN GameMap : Len(GameMap[row]) <= ScreenWidth

VARIABLES
    phase,          \* where the loop is in a frame; "wait" before it
    isKeyDown, wasKeyDown,  \* keyState
    currentIndex,   \* MenuLevel::currentIndex; 0 without a menu
    quit,           \* Engine::quit
    drawings,       \* history: what the level has drawn in this frame
    shown,          \* history: how the last frame presented should look
    fresh,          \* history: the keys that went down since the last frame
    sent,           \* history: the keys an input was enqueued for in this frame
    lateFrames      \* history: the frames begun after a quit

frameVars == <<screenVars, phase, isKeyDown, wasKeyDown, currentIndex, quit, drawings,
               shown, fresh, sent, lateFrames>>
gameLoopVars == <<vars, frameVars>>

\* The texts of the menu, in white and in green.
MenuItems == <<"start", "quit">>
SelectedItems == <<"START", "QUIT">>
length == Len(MenuItems)

\* The keys that are sent to the server.
InputKeys == {"UP", "DOWN", "RIGHT", "LEFT", "LBUTTON"}
Arrows == {"UP", "DOWN"}

GameLoopInit ==
    /\ Init
    /\ ScreenInit
    /\ phase = "wait"
    /\ isKeyDown = [k \in Keys |-> FALSE]
    /\ wasKeyDown = [k \in Keys |-> FALSE]
    /\ currentIndex = 0
    /\ quit = FALSE
    /\ drawings = <<>>
    /\ shown = Picture(<<>>)
    /\ fresh = {}
    /\ sent = {}
    /\ lateFrames = 0

-----------------------------------------------------------------------------
(***************************************************************************)
(* Between frames.                                                         *)
(***************************************************************************)

\* (A variant of Test: quit is not asked for.)
TestIgnoringQuit ==
    /\ TestChange
    /\ UNCHANGED frameVars

Test ==
    /\ ~ quit
    /\ TestChange
    /\ UNCHANGED frameVars

Leave ==
    /\ quit
    /\ LeaveLoop
    /\ UNCHANGED frameVars

Change ==
    /\ DeleteLevel \/ ClearPending \/ ResetRequest
    /\ UNCHANGED frameVars

\* The menu goes, and its index with it.
ChangeMain ==
    /\ AssignLevel
    /\ currentIndex' = 0
    /\ UNCHANGED <<screenVars, phase, isKeyDown, wasKeyDown, quit, drawings, shown, fresh,
                   sent, lateFrames>>

\* It is not yet time for a frame.
NoFrame ==
    /\ phase = "wait"
    /\ Frame
    /\ UNCHANGED frameVars

-----------------------------------------------------------------------------
(***************************************************************************)
(* A frame.                                                                *)
(***************************************************************************)

\* The events a frame may find.  (Bounds: the return key goes down only while
\* MaxPresses allows that it picks "Start Game", other keys than EarlyKeys only
\* when the game was entered.)
Batches ==
    BoundedSeq({ event \in [key : Keys, down : BOOLEAN] :
                   event.down =>
                     /\ event.key = "RETURN" => presses < MaxPresses
                     /\ event.key \in EarlyKeys \/ hasEnteredGame },
               MaxEvents)

\* The state of a key after the events up to n of a batch.
DownAfter(batch, n, k) ==
    LET ofKey == { i \in 1..n : batch[i].key = k }
    IN  IF ofKey = {} THEN isKeyDown[k]
        ELSE batch[CHOOSE i \in ofKey : \A j \in ofKey : j <= i].down

\* GetKeyDown.
Pressed(k, before, after) == after[k] /\ ~ before[k]

\* GetKeyDown in the rest of the frame.
KeyDown(k) == k \in Keys /\ Pressed(k, wasKeyDown, isKeyDown)

\* ProcessInput reads all events there are: a key that is held repeats its
\* event, and one may go down or up while another window has the focus.
\* Game::CheckInput then does nothing before the client has entered the game,
\* with the escape key neither.
ProcessAndCheckInput ==
    /\ loop = "frame" /\ phase = "wait"
    /\ \E batch \in Batches :
          /\ isKeyDown' = [k \in Keys |-> DownAfter(batch, Len(batch), k)]
          /\ fresh' = { batch[i].key : i \in { j \in DOMAIN batch :
                          batch[j].down /\ ~ DownAfter(batch, j - 1, batch[j].key) } }
    /\ LET down == { k \in Keys : hasEnteredGame /\ Pressed(k, wasKeyDown, isKeyDown') }
       IN  /\ quit' = (quit \/ "ESCAPE" \in down)
           /\ sent' = down \cap InputKeys
    /\ lateFrames' = IF quit THEN lateFrames + 1 ELSE lateFrames
    /\ phase' = "update"
    /\ UNCHANGED <<vars, screenVars, wasKeyDown, currentIndex, drawings, shown>>

\* The index of the menu after the arrows of this frame.
IndexAfter ==
    LET up == IF KeyDown("UP") THEN (currentIndex - 1 + length) % length ELSE currentIndex
    IN  IF KeyDown("DOWN") THEN (up + 1) % length ELSE up

\* (A variant of Selects: the index before the arrows.)
SelectsBefore(item) == KeyDown("RETURN") /\ MenuItems[currentIndex + 1] = item

\* MenuLevel::Update calls onSelected of an item.
Selects(item) == KeyDown("RETURN") /\ MenuItems[IndexAfter + 1] = item

UpdateMenu ==
    /\ phase = "update"
    /\ mainLevel = Menu
    /\ currentIndex' = IndexAfter
    /\ \/ Selects("start") /\ PressReturn /\ UNCHANGED quit
       \/ Selects("quit") /\ quit' = TRUE /\ UNCHANGED vars
       \/ ~ KeyDown("RETURN") /\ UNCHANGED <<vars, quit>>
    /\ phase' = "draw"
    /\ UNCHANGED <<screenVars, isKeyDown, wasKeyDown, drawings, shown, fresh, sent,
                   lateFrames>>

\* Module ClientLevel has what GameLevel::Update does on a client.
UpdateGame ==
    /\ phase = "update"
    /\ mainLevel # Menu
    /\ phase' = "draw"
    /\ UNCHANGED <<vars, screenVars, isKeyDown, wasKeyDown, currentIndex, quit,
                   drawings, shown, fresh, sent, lateFrames>>

Drawing(x, y, rows) == [position |-> [x |-> x, y |-> y], rows |-> rows]

\* (A variant of ItemText: counted from 1.)
ItemTextFromOne(i) ==
    IF i + 1 = currentIndex THEN SelectedItems[i + 1] ELSE MenuItems[i + 1]

ItemText(i) ==
    IF i = currentIndex THEN SelectedItems[i + 1] ELSE MenuItems[i + 1]

\* MenuLevel::Draw.
MenuDrawings ==
    << Drawing(0, 0, << <<"title", "title">> >>) >>
    \o [n \in 1..length |-> Drawing(0, n - 1 + 2, << <<ItemText(n - 1)>> >>)]

\* GameLevel::Draw.
GameDrawings(place) ==
    << Drawing(0, 0, GameMap), Drawing(place.x, place.y, << <<"player">> >>) >>

Draw ==
    /\ phase = "draw"
    /\ \/ mainLevel = Menu /\ drawings' = MenuDrawings
       \/ mainLevel # Menu /\ \E place \in Places : drawings' = GameDrawings(place)
    /\ DrawImage(drawings')
    /\ phase' = "present"
    /\ UNCHANGED <<vars, isKeyDown, wasKeyDown, currentIndex, quit, shown, fresh, sent,
                   lateFrames>>

\* (A variant of KeysAfterFrame: SavePreviousKeyStates is left out.)
KeysNotSaved == wasKeyDown

\* SavePreviousKeyStates.
KeysAfterFrame == isKeyDown

\* Present, the key states are saved, and the frame is over.
Present ==
    /\ phase = "present"
    /\ PresentImage
    /\ shown' = Picture(drawings) /\ drawings' = <<>>
    /\ wasKeyDown' = KeysAfterFrame
    /\ fresh' = {} /\ sent' = {}
    /\ Frame
    /\ phase' = "wait"
    /\ UNCHANGED <<isKeyDown, currentIndex, quit, lateFrames>>

LoopThread ==
    \/ Test \/ Leave \/ Change \/ ChangeMain \/ NoFrame
    \/ ProcessAndCheckInput \/ UpdateMenu \/ UpdateGame \/ Draw \/ Present

\* CTRL_CLOSE_EVENT: MessageProcessor quits in a thread of its own.
CloseConsole ==
    /\ quit' = TRUE
    /\ UNCHANGED <<vars, screenVars, phase, isKeyDown, wasKeyDown, currentIndex, drawings,
                   shown, fresh, sent, lateFrames>>

ReceiveThread == (ReceiverStep \/ Arrival) /\ UNCHANGED frameVars

GameLoopNext == clientUp /\ (LoopThread \/ CloseConsole \/ ReceiveThread)

\* Fairness as in LevelChange: the loop runs, and packets that arrived are
\* processed.
GameLoopSpec ==
    /\ GameLoopInit /\ [][GameLoopNext]_gameLoopVars
    /\ WF_gameLoopVars(clientUp /\ LoopThread)
    /\ WF_gameLoopVars(clientUp /\ ReceiverStep /\ UNCHANGED frameVars)

-----------------------------------------------------------------------------
(***************************************************************************)
(* Properties.                                                             *)
(***************************************************************************)

ActsOnce ==
    /\ sent' \subseteq fresh'
    /\ currentIndex' # currentIndex /\ loop = "frame" => fresh \cap Arrows # {}
    /\ presses' # presses => "RETURN" \in fresh
    /\ quit' # quit /\ phase' # phase => fresh' \cap {"RETURN", "ESCAPE"} # {}

\* A key that is held acts once: whatever a frame sends, moves or picks, the
\* key for it went down since the frame before, however often the console
\* repeats its event and whatever other keys do.
OncePerPress == [][ActsOnce]_gameLoopVars

\* The screen shows this item in green.
Marks(item) ==
    \E x \in 0..(ScreenWidth - 1), y \in 0..(ScreenHeight - 1) :
        renderTargets[activeBuffer][y * ScreenWidth + x] = item

\* An arrow of this frame moves on to the other item; both move there and back.
MovedOn == KeyDown("UP") # KeyDown("DOWN")

\* The return key picks what the screen marks, or, with an arrow in the same
\* frame, the other item, which the screen has not marked yet: the arrow counts
\* first, in whatever order the keys went down.  (But for the first frame, when
\* nothing was shown yet.)
PicksWhatIsMarked ==
    [][ phase = "update" /\ shown # Picture(<<>>) =>
          /\ presses' # presses => Marks(IF MovedOn THEN "QUIT" ELSE "START")
          /\ quit' # quit /\ phase' # phase =>
                Marks(IF MovedOn THEN "START" ELSE "QUIT") ]_gameLoopVars

\* The screen shows what was drawn in the last frame that was presented, with
\* nothing left of the frames before it, nothing of the one being drawn and no
\* line ends.
ShowsLastFrame == Shows(shown)

\* Wherever in the loop the user quits, by key, in the menu or by closing the
\* console, at most one more frame begins: a key sends one input after the
\* exit request at most.
OneFrameAfterQuit == lateFrames <= 1

GameLoopTypeOK ==
    /\ phase \in {"wait", "update", "draw", "present"}
    /\ isKeyDown \in [Keys -> BOOLEAN] /\ wasKeyDown \in [Keys -> BOOLEAN]
    /\ currentIndex \in 0..(length - 1)
    /\ quit \in BOOLEAN
    /\ fresh \subseteq Keys /\ sent \subseteq Keys
    /\ lateFrames \in Nat
    /\ currentRenderTargetIndex \in 0..1 /\ activeBuffer \in 0..1
=============================================================================
