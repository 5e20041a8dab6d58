--------------------------- MODULE GameLoopProofs ---------------------------
(***************************************************************************)
(* The frames of a client keep what LevelChange promises, a key that is    *)
(* held acts once, a quit ends the loop within a frame, the screen shows   *)
(* the last frame, and the return key picks what it marks: for whatever    *)
(* keys, batches of events, maps and sizes of the screen that hold them.   *)
(***************************************************************************)
EXTENDS GameLoop, SequenceTheorems, WellFoundedInduction, TLAPS

USE LevelChangeAssumption

-----------------------------------------------------------------------------
(***************************************************************************)
(* LevelChange: however the two threads overlap, the game loop has a level *)
(* that lives, and that level marks nobody but the client's own player.    *)
(***************************************************************************)

LEMMA InitChangeInv == Init => ChangeInv
<1> SUFFICES ASSUME Init PROVE ChangeInv
    OBVIOUS
<1> USE DEF Init, Levels, NoLevel, Menu, Idle
<1>1. TypeOK
  <2>1. clientId \in [Levels -> 0..MaxPresses]
    OBVIOUS
  <2>2. receiver \in [at : {"idle", "request", "use"},
                      packet : {"none", "CREATE_RESPOND", "STATE", "PATH"},
                      level : Levels \cup {NoLevel}]
    OBVIOUS
  <2>3. /\ mainLevel \in Levels \cup {NoLevel}
        /\ pendingLevel \in Levels \cup {NoLevel}
        /\ deleted \subseteq Levels
    OBVIOUS
  <2>4. /\ playerId \in 0..MaxPresses
        /\ presses \in 0..MaxPresses
        /\ entered \in 0..presses
        /\ created \in 0..entered
    OBVIOUS
  <2>5. /\ levelChangeRequested \in BOOLEAN
        /\ hasEnteredGame \in BOOLEAN
        /\ clientUp \in BOOLEAN
        /\ loop \in {"test", "delete", "assign", "clear", "reset", "frame"}
    OBVIOUS
  <2> QED
    BY <2>1, <2>2, <2>3, <2>4, <2>5 DEF TypeOK
<1>2. LoopHasLevel /\ MainIsOlder
  BY DEF LoopHasLevel, MainIsOlder
<1>3. FetchedIsMain /\ IdIsInMain
  BY DEF FetchedIsMain, IdIsInMain
<1> QED
  BY <1>1, <1>2, <1>3 DEF ChangeInv

LEMMA NextChangeInv == ChangeInv /\ [Next]_vars => ChangeInv'
<1> SUFFICES ASSUME ChangeInv, [Next]_vars PROVE ChangeInv'
    OBVIOUS
<1> USE DEF ChangeInv, TypeOK, LoopHasLevel, MainIsOlder, FetchedIsMain, IdIsInMain,
            Levels, GameLevels, NoLevel, Menu, Idle
<1>1. CASE TestChange
  BY <1>1 DEF TestChange, receiverVars
<1>2. CASE DeleteLevel
  BY <1>2 DEF DeleteLevel, receiverVars
<1>3. CASE AssignLevel
  BY <1>3 DEF AssignLevel, receiverVars
<1>4. CASE ClearPending
  BY <1>4 DEF ClearPending, receiverVars
<1>5. CASE ResetRequest
  BY <1>5 DEF ResetRequest, receiverVars
<1>6. CASE Frame
  BY <1>6 DEF Frame, receiverVars
<1>7. CASE PressReturn
  BY <1>7 DEF PressReturn, receiverVars
<1>8. CASE EnterRespond
  <2>1. /\ receiver.at = "idle" /\ entered < presses
        /\ entered' = entered + 1 /\ pendingLevel' = entered + 2
        /\ UNCHANGED <<mainLevel, deleted, loop, presses, levelChangeRequested,
                       clientId, playerId, hasEnteredGame, created, clientUp>>
    BY <1>8 DEF EnterRespond, loopVars
  <2>2. /\ receiver' \in [at : {"idle", "request", "use"},
                          packet : {"none", "CREATE_RESPOND", "STATE", "PATH"},
                          level : Levels \cup {NoLevel}]
        /\ receiver'.at = "request"
        /\ receiver'.packet # "CREATE_RESPOND"
    BY <1>8 DEF EnterRespond
  <2>3. TypeOK'
    BY <2>1, <2>2
  <2>4. LoopHasLevel' /\ MainIsOlder'
    BY <2>1, <2>2
  <2>5. FetchedIsMain'
    BY <2>1, <2>2
  <2>6. IdIsInMain'
    BY <2>1, <2>2
  <2> QED
    BY <2>3, <2>4, <2>5, <2>6
<1>9. CASE RequestChange
  BY <1>9 DEF RequestChange, loopVars
<1>10. CASE CreateRespond
  BY <1>10 DEF CreateRespond, Fetched, loopVars
<1>11. ASSUME NEW packet \in {"STATE", "PATH"}, StateOrPath(packet)
       PROVE ChangeInv'
  BY <1>11 DEF StateOrPath, Fetched, loopVars
<1>12. CASE UseLevel
  <2> DEFINE level == receiver.level
  <2>1. /\ receiver.at = "use" /\ receiver' = Idle /\ hasEnteredGame' \in BOOLEAN
        /\ clientUp' \in BOOLEAN
        /\ hasEnteredGame' => hasEnteredGame \/ receiver.packet = "CREATE_RESPOND"
        /\ UNCHANGED <<mainLevel, deleted, loop, presses, pendingLevel,
                       levelChangeRequested, playerId, entered, created>>
    BY <1>12 DEF UseLevel, loopVars
  <2>2. /\ clientId' \in [Levels -> 0..MaxPresses]
        /\ \A l \in Levels : clientId'[l] = clientId[l]
              \/ /\ l = level /\ l = mainLevel /\ l # Menu
                 /\ receiver.packet = "CREATE_RESPOND" /\ clientId'[l] = playerId
    <3>1. CASE level \in GameLevels \ deleted /\ receiver.packet = "CREATE_RESPOND"
      <4>1. clientId' = [clientId EXCEPT ![level] = playerId]
        BY <1>12, <3>1 DEF UseLevel, IdSet
      <4> QED
        BY <4>1, <3>1, <2>1
    <3>2. CASE ~(level \in GameLevels \ deleted /\ receiver.packet = "CREATE_RESPOND")
      <4>1. clientId' = clientId
        BY <1>12, <3>2 DEF UseLevel
      <4> QED
        BY <4>1
    <3> QED
      BY <3>1, <3>2
  <2>3. mainLevel \in Levels \ deleted => clientId'[mainLevel] \in {0, playerId}
    <3> SUFFICES ASSUME mainLevel \in Levels \ deleted, receiver.packet = "CREATE_RESPOND"
                 PROVE  clientId'[mainLevel] \in {0, playerId}
      BY <2>2
    <3>1. CASE receiver.level = mainLevel
      <4>1. CASE mainLevel = Menu
        BY <4>1, <2>2
      <4>2. CASE mainLevel # Menu
        BY <4>2, <3>1, <1>12 DEF UseLevel, IdSet
      <4> QED
        BY <4>1, <4>2
    <3>2. CASE receiver.level # mainLevel
      BY <3>2, <2>2
    <3> QED
      BY <3>1, <3>2
  <2>4. receiver' = [at |-> "idle", packet |-> "none", level |-> 0]
    BY <2>1
  <2>5. TypeOK'
    BY <2>1, <2>2, <2>4
  <2>6. LoopHasLevel' /\ MainIsOlder'
    BY <2>1, <2>4
  <2>7. FetchedIsMain'
    BY <2>1, <2>4
  <2>8. IdIsInMain'
    BY <2>1, <2>2, <2>3, <2>4
  <2> QED
    BY <2>5, <2>6, <2>7, <2>8
<1>13. CASE LeaveLoop
  <2>1. /\ UNCHANGED <<mainLevel, pendingLevel, levelChangeRequested, deleted, loop,
                       presses, clientId, playerId, hasEnteredGame, receiver, entered,
                       created>>
        /\ clientUp' = FALSE
    BY <1>13 DEF LeaveLoop
  <2>2. TypeOK'
    <3>1. clientUp' \in BOOLEAN
      BY <2>1
    <3> QED
      BY <2>1, <3>1, Zenon
  <2>3. LoopHasLevel' /\ MainIsOlder'
    BY <2>1
  <2>4. FetchedIsMain' /\ IdIsInMain'
    BY <2>1
  <2> QED
    BY <2>2, <2>3, <2>4
<1>14. CASE UNCHANGED vars
  BY <1>14 DEF vars
<1> QED
  BY <1>1, <1>2, <1>3, <1>4, <1>5, <1>6, <1>7, <1>8, <1>9, <1>10, <1>11, <1>12, <1>13,
     <1>14
  DEF Next, LoopStep, ReceiverStep, Arrival

\* The inductive invariant of the change of levels.
THEOREM ChangeInvariant == Spec => []ChangeInv
<1>1. Init /\ [][Next]_vars => []ChangeInv
  BY InitChangeInv, NextChangeInv, PTL
<1> QED
  BY <1>1, PTL DEF Spec

\* The loop always has a level, and one that was not deleted.
THEOREM LoopAlwaysHasLevel == Spec => []LoopHasLevel
<1>1. ChangeInv => LoopHasLevel
  BY DEF ChangeInv
<1> QED
  BY <1>1, ChangeInvariant, PTL

\* The level on the screen never marks another player than the client's.
THEOREM OwnIdOrNoneAlways == Spec => []OwnIdOrNone
<1>1. ChangeInv => OwnIdOrNone
  BY DEF ChangeInv, TypeOK, FetchedIsMain, IdIsInMain, OwnIdOrNone
<1> QED
  BY <1>1, ChangeInvariant, PTL

-----------------------------------------------------------------------------
(***************************************************************************)
(* GameLoop implements LevelChange.                                        *)
(***************************************************************************)

LEMMA FrameStep == [GameLoopNext]_gameLoopVars => [Next]_vars
<1> SUFFICES ASSUME GameLoopNext PROVE [Next]_vars
  BY DEF gameLoopVars
<1>1. CASE Test \/ Change \/ NoFrame \/ Leave
  BY <1>1 DEF GameLoopNext, Test, Change, NoFrame, Leave, Next, LoopStep
<1>2. CASE ChangeMain \/ Present
  BY <1>2 DEF GameLoopNext, ChangeMain, Present, Next, LoopStep
<1>3. CASE ProcessAndCheckInput \/ UpdateGame \/ Draw \/ CloseConsole
  BY <1>3 DEF ProcessAndCheckInput, UpdateGame, Draw, CloseConsole
<1>4. CASE UpdateMenu
  BY <1>4 DEF GameLoopNext, UpdateMenu, Next
<1>5. CASE ReceiveThread
  BY <1>5 DEF GameLoopNext, ReceiveThread, Next
<1> QED
  BY <1>1, <1>2, <1>3, <1>4, <1>5 DEF GameLoopNext, LoopThread

\* Whatever a client's frames do, its levels change as LevelChange says.
THEOREM GameLoopChangesLevels == GameLoopSpec => Init /\ [][Next]_vars
<1>1. GameLoopInit => Init
  BY DEF GameLoopInit
<1> QED
  BY <1>1, FrameStep, PTL DEF GameLoopSpec

\* The inductive invariant of the change of levels holds in the frames too.
LEMMA FramesKeepChangeInv == GameLoopSpec => []ChangeInv
<1>1. Init /\ [][Next]_vars => []ChangeInv
  BY InitChangeInv, NextChangeInv, PTL
<1> QED
  BY <1>1, GameLoopChangesLevels, PTL

\* A frame always has a level to update and to draw, and none that was deleted.
THEOREM FramesHaveLevel == GameLoopSpec => []LoopHasLevel
<1>1. ChangeInv => LoopHasLevel
  BY DEF ChangeInv
<1> QED
  BY <1>1, FramesKeepChangeInv, PTL

\* The level that is drawn never marks another player than the client's.
THEOREM FramesMarkOwnIdOrNone == GameLoopSpec => []OwnIdOrNone
<1>1. ChangeInv => OwnIdOrNone
  BY DEF ChangeInv, TypeOK, FetchedIsMain, IdIsInMain, OwnIdOrNone
<1> QED
  BY <1>1, FramesKeepChangeInv, PTL

-----------------------------------------------------------------------------
(***************************************************************************)
(* Quitting.                                                               *)
(***************************************************************************)

\* A frame that began after a quit is the last one: the loop is in it, or at
\* the test that ends it.
QuitInv ==
    /\ lateFrames \in {0, 1}
    /\ lateFrames = 1 => quit /\ (loop = "test" \/ phase # "wait")
    /\ phase # "wait" => loop = "frame"

LEMMA NextQuitInv == QuitInv /\ [GameLoopNext]_gameLoopVars => QuitInv'
<1> SUFFICES ASSUME QuitInv, [GameLoopNext]_gameLoopVars PROVE QuitInv'
    OBVIOUS
<1> USE DEF QuitInv, frameVars
<1>1. CASE Test
  BY <1>1 DEF Test, TestChange
<1>2. CASE Leave
  BY <1>2 DEF Leave, LeaveLoop
<1>3. CASE Change
  BY <1>3 DEF Change, DeleteLevel, ClearPending, ResetRequest
<1>4. CASE ChangeMain
  BY <1>4 DEF ChangeMain, AssignLevel
<1>5. CASE NoFrame \/ Present
  BY <1>5 DEF NoFrame, Present, Frame
<1>6. CASE ProcessAndCheckInput
  <2>1. /\ loop = "frame" /\ phase = "wait" /\ loop' = loop /\ phase' = "update"
        /\ lateFrames' = IF quit THEN lateFrames + 1 ELSE lateFrames
        /\ quit => quit'
    BY <1>6 DEF ProcessAndCheckInput, vars
  <2> QED
    BY <2>1
<1>7. CASE UpdateMenu
  <2>1. /\ loop' = loop /\ phase = "update" /\ phase' = "draw" /\ lateFrames' = lateFrames
        /\ quit => quit'
    BY <1>7 DEF UpdateMenu, PressReturn, vars
  <2> QED
    BY <2>1
<1>8. CASE UpdateGame \/ Draw
  BY <1>8 DEF UpdateGame, Draw, vars
<1>9. CASE CloseConsole
  BY <1>9 DEF CloseConsole, vars
<1>10. CASE ReceiveThread
  BY <1>10 DEF ReceiveThread, ReceiverStep, RequestChange, UseLevel, Arrival, EnterRespond,
               CreateRespond, StateOrPath, loopVars
<1>11. CASE UNCHANGED gameLoopVars
  BY <1>11 DEF gameLoopVars, vars
<1> QED
  BY <1>1, <1>2, <1>3, <1>4, <1>5, <1>6, <1>7, <1>8, <1>9, <1>10, <1>11
  DEF GameLoopNext, LoopThread

\* Wherever in the loop the user quits, one more frame begins at most.
THEOREM OneFrameAfterQuitAlways == GameLoopSpec => []OneFrameAfterQuit
<1>1. GameLoopInit => QuitInv
  BY DEF GameLoopInit, QuitInv
<1>2. QuitInv => OneFrameAfterQuit
  BY DEF QuitInv, OneFrameAfterQuit
<1> QED
  BY <1>1, <1>2, NextQuitInv, PTL DEF GameLoopSpec

-----------------------------------------------------------------------------
(***************************************************************************)
(* Keys.                                                                   *)
(***************************************************************************)

LEMMA FirstOf ==
    ASSUME NEW S \in SUBSET Nat, S # {}
    PROVE  \E i \in S : \A j \in S : i <= j
<1> DEFINE less == { p \in Nat \X Nat : p[1] < p[2] }
<1>1. IsWellFoundedOn(less, Nat)
  BY NatLessThanWellFounded DEF OpToRel
<1>2. PICK i \in S : \A j \in S : ~ (<<j, i>> \in less)
  BY <1>1, WFMin
<1>3. \A j \in S : i <= j
  <2> SUFFICES ASSUME NEW j \in S, j < i PROVE FALSE
    OBVIOUS
  <2>1. <<j, i>> \in Nat \X Nat /\ <<j, i>>[1] < <<j, i>>[2]
    OBVIOUS
  <2> QED
    BY <2>1, <1>2
<1> QED
  BY <1>3

LEMMA LastOf ==
    ASSUME NEW n \in Nat, NEW S \in SUBSET (1..n), S # {}
    PROVE  \E i \in S : \A j \in S : j <= i
<1> DEFINE T == { m \in Nat : n - m \in S }
<1>1. T # {}
  <2>1. PICK i \in S : TRUE
    OBVIOUS
  <2>2. n - i \in Nat /\ n - (n - i) = i
    OBVIOUS
  <2> QED
    BY <2>1, <2>2
<1>2. PICK m \in T : \A t \in T : m <= t
  BY <1>1, FirstOf
<1>3. \A j \in S : n - j \in T
  <2> TAKE j \in S
  <2>1. n - j \in Nat /\ n - (n - j) = j
    OBVIOUS
  <2> QED
    BY <2>1
<1>4. \A j \in S : j <= n - m
  <2> TAKE j \in S
  <2>1. m <= n - j /\ j \in 1..n
    BY <1>2, <1>3
  <2> QED
    BY <2>1, <1>2
<1> WITNESS n - m \in S
<1> QED
  BY <1>4

\* A key is down after events because it was before them or went down in one.
LEMMA DownBecause ==
    ASSUME NEW batch, NEW n \in Nat, NEW k, DownAfter(batch, n, k)
    PROVE  isKeyDown[k] \/ \E i \in 1..n : batch[i].key = k /\ batch[i].down
<1> DEFINE ofKey == { i \in 1..n : batch[i].key = k }
           last == CHOOSE i \in ofKey : \A j \in ofKey : j <= i
<1>1. CASE ofKey = {}
  BY <1>1 DEF DownAfter
<1>2. CASE ofKey # {}
  <2>1. last \in ofKey
    BY <1>2, LastOf
  <2>2. batch[last].down
    BY <1>2 DEF DownAfter
  <2> QED
    BY <2>1, <2>2
<1> QED
  BY <1>1, <1>2

\* A key that was up before a batch and is down after it went down in it.
LEMMA WentDown ==
    ASSUME NEW batch, NEW n \in Nat, NEW k, ~ isKeyDown[k], DownAfter(batch, n, k)
    PROVE  \E j \in 1..n :
              batch[j].key = k /\ batch[j].down /\ ~ DownAfter(batch, j - 1, k)
<1> DEFINE D == { j \in 1..n : batch[j].key = k /\ batch[j].down }
<1>1. D # {} /\ D \subseteq Nat
  BY DownBecause
<1>2. PICK j \in D : \A i \in D : j <= i
  BY <1>1, FirstOf
<1>3. ~ DownAfter(batch, j - 1, k)
  <2> SUFFICES ASSUME DownAfter(batch, j - 1, k) PROVE FALSE
    OBVIOUS
  <2>1. PICK i \in 1..(j - 1) : batch[i].key = k /\ batch[i].down
    BY DownBecause
  <2>2. i \in D /\ i < j
    BY <2>1, <1>2
  <2> QED
    BY <2>2, <1>2
<1> QED
  BY <1>2, <1>3

\* Between frames nothing is fresh.  In a frame whatever GetKeyDown finds is,
\* and nothing else was sent.
KeysInv ==
    /\ quit \in BOOLEAN
    /\ sent \subseteq fresh
    /\ phase = "wait" => wasKeyDown = isKeyDown
    /\ phase # "wait" =>
          /\ loop = "frame"
          /\ \A k \in Keys : isKeyDown[k] /\ ~ wasKeyDown[k] => k \in fresh

LEMMA KeyDownIsFresh ==
    ASSUME KeysInv, phase # "wait", NEW k, KeyDown(k)
    PROVE  k \in fresh
BY DEF KeysInv, KeyDown, Pressed

\* What a frame finds pressed went down in its events.
LEMMA PressedIsFresh ==
    ASSUME KeysInv, ProcessAndCheckInput, NEW k \in Keys,
           Pressed(k, wasKeyDown, isKeyDown')
    PROVE  k \in fresh'
<1>1. PICK batch \in Batches :
        /\ isKeyDown' = [l \in Keys |-> DownAfter(batch, Len(batch), l)]
        /\ fresh' = { batch[i].key : i \in { j \in DOMAIN batch :
                        batch[j].down /\ ~ DownAfter(batch, j - 1, batch[j].key) } }
  BY DEF ProcessAndCheckInput
<1>2. ~ isKeyDown[k]
  BY DEF ProcessAndCheckInput, KeysInv, Pressed
<1>3. DownAfter(batch, Len(batch), k)
  BY <1>1 DEF Pressed
<1>4. Len(batch) \in Nat /\ DOMAIN batch = 1..Len(batch)
  BY DEF Batches, BoundedSeq, SeqOf
<1>5. PICK j \in 1..Len(batch) :
        batch[j].key = k /\ batch[j].down /\ ~ DownAfter(batch, j - 1, k)
  BY <1>2, <1>3, <1>4, WentDown
<1> QED
  BY <1>1, <1>4, <1>5

LEMMA NextKeysInv == KeysInv /\ [GameLoopNext]_gameLoopVars => KeysInv'
<1> SUFFICES ASSUME KeysInv, [GameLoopNext]_gameLoopVars PROVE KeysInv'
    OBVIOUS
<1> USE DEF frameVars
<1>1. CASE Test \/ Leave
  BY <1>1 DEF Test, TestChange, Leave, LeaveLoop, KeysInv
<1>2. CASE Change \/ ChangeMain
  BY <1>2 DEF Change, DeleteLevel, ClearPending, ResetRequest, ChangeMain, AssignLevel,
              KeysInv
<1>3. CASE NoFrame
  BY <1>3 DEF NoFrame, KeysInv
<1>4. CASE Present
  BY <1>4 DEF Present, KeysAfterFrame, KeysInv
<1>5. CASE ProcessAndCheckInput
  <2>1. loop' = "frame" /\ phase' = "update" /\ wasKeyDown' = wasKeyDown
    BY <1>5 DEF ProcessAndCheckInput, vars
  <2>2. \A k \in Keys : isKeyDown'[k] /\ ~ wasKeyDown[k] => k \in fresh'
    BY <1>5, PressedIsFresh DEF Pressed
  <2>3. sent' \subseteq fresh'
    BY <1>5, PressedIsFresh DEF ProcessAndCheckInput
  <2>4. quit' \in BOOLEAN
    BY <1>5 DEF ProcessAndCheckInput
  <2> QED
    BY <2>1, <2>2, <2>3, <2>4 DEF KeysInv
<1>6. CASE UpdateMenu
  BY <1>6 DEF UpdateMenu, PressReturn, vars, KeysInv
<1>7. CASE UpdateGame \/ Draw
  BY <1>7 DEF UpdateGame, Draw, vars, KeysInv
<1>8. CASE CloseConsole
  BY <1>8 DEF CloseConsole, vars, KeysInv
<1>9. CASE ReceiveThread
  BY <1>9 DEF ReceiveThread, ReceiverStep, RequestChange, UseLevel, Arrival, EnterRespond,
              CreateRespond, StateOrPath, loopVars, KeysInv
<1>10. CASE UNCHANGED gameLoopVars
  BY <1>10 DEF gameLoopVars, vars, KeysInv
<1> QED
  BY <1>1, <1>2, <1>3, <1>4, <1>5, <1>6, <1>7, <1>8, <1>9, <1>10
  DEF GameLoopNext, LoopThread

LEMMA StepActsOnce == KeysInv /\ [GameLoopNext]_gameLoopVars => [ActsOnce]_gameLoopVars
<1> SUFFICES ASSUME KeysInv, KeysInv', GameLoopNext PROVE ActsOnce
  BY NextKeysInv
<1>0. sent' \subseteq fresh'
  BY DEF KeysInv
<1> USE <1>0 DEF ActsOnce, frameVars
<1>1. CASE Test \/ Leave
  BY <1>1 DEF Test, TestChange, Leave, LeaveLoop
<1>2. CASE Change
  BY <1>2 DEF Change, DeleteLevel, ClearPending, ResetRequest
<1>3. CASE ChangeMain
  BY <1>3 DEF ChangeMain, AssignLevel
<1>4. CASE NoFrame \/ Present
  BY <1>4 DEF NoFrame, Present, Frame
<1>5. CASE ProcessAndCheckInput
  <2>1. quit' # quit => "ESCAPE" \in Keys /\ Pressed("ESCAPE", wasKeyDown, isKeyDown')
    <3>1. quit \in BOOLEAN
      BY DEF KeysInv
    <3>2. quit' = (quit \/ ("ESCAPE" \in Keys /\ hasEnteredGame
                            /\ Pressed("ESCAPE", wasKeyDown, isKeyDown')))
      BY <1>5, Zenon DEF ProcessAndCheckInput
    <3> QED
      BY <3>1, <3>2
  <2>2. quit' # quit => "ESCAPE" \in fresh'
    BY <1>5, <2>1, PressedIsFresh
  <2> QED
    BY <1>5, <2>2 DEF ProcessAndCheckInput, vars
<1>6. CASE UpdateMenu
  <2>1. phase # "wait" /\ fresh' = fresh /\ currentIndex' = IndexAfter
    BY <1>6 DEF UpdateMenu
  <2>2. currentIndex' # currentIndex => KeyDown("UP") \/ KeyDown("DOWN")
    BY <2>1 DEF IndexAfter
  <2>3. presses' # presses \/ quit' # quit => KeyDown("RETURN")
    BY <1>6 DEF UpdateMenu, Selects, vars
  <2> QED
    BY <2>1, <2>2, <2>3, KeyDownIsFresh DEF Arrows
<1>7. CASE UpdateGame \/ Draw
  BY <1>7 DEF UpdateGame, Draw, vars
<1>8. CASE CloseConsole
  BY <1>8 DEF CloseConsole, vars
<1>9. CASE ReceiveThread
  BY <1>9 DEF ReceiveThread, ReceiverStep, RequestChange, UseLevel, Arrival, EnterRespond,
              CreateRespond, StateOrPath, loopVars
<1> QED
  BY <1>1, <1>2, <1>3, <1>4, <1>5, <1>6, <1>7, <1>8, <1>9 DEF GameLoopNext, LoopThread

\* Whatever a frame sends, moves or picks, the key for it went down since the
\* frame before.
THEOREM OncePerPressAlways == GameLoopSpec => OncePerPress
<1>1. GameLoopInit => KeysInv
  BY DEF GameLoopInit, KeysInv
<1> QED
  BY <1>1, NextKeysInv, StepActsOnce, PTL DEF GameLoopSpec, OncePerPress

-----------------------------------------------------------------------------
(***************************************************************************)
(* The screen.                                                             *)
(***************************************************************************)

\* f is what step makes of first, over and over.
Iterates(f, n, V, first, step) ==
    /\ f \in [0..n -> V]
    /\ f[0] = first
    /\ \A k \in 1..n : f[k] = step[<<k, f[k - 1]>>]

LEMMA IteratesExist ==
    ASSUME NEW n \in Nat, NEW V, NEW first \in V, NEW step \in [(1..n) \X V -> V]
    PROVE  \E f : Iterates(f, n, V, first, step)
<1> DEFINE Bad == { m \in 0..n : ~ \E f : Iterates(f, m, V, first, step) }
<1>1. SUFFICES ASSUME Bad # {} PROVE FALSE
  <2>1. n \in 0..n
    OBVIOUS
  <2> QED
    BY <2>1
<1>2. PICK m \in Bad : \A j \in Bad : m <= j
  <2> HIDE DEF Bad
  <2>1. Bad \in SUBSET Nat
    BY DEF Bad
  <2> QED
    BY <1>1, <2>1, FirstOf
<1>3. m # 0
  <2> SUFFICES ASSUME m = 0 PROVE FALSE
    OBVIOUS
  <2> DEFINE f == [k \in 0..0 |-> first]
  <2>1. f \in [0..0 -> V] /\ f[0] = first
    OBVIOUS
  <2>2. ~ \E k : k \in 1..0
    OBVIOUS
  <2> HIDE DEF f
  <2>3. Iterates(f, 0, V, first, step)
    BY <2>1, <2>2 DEF Iterates
  <2> QED
    BY <2>3, <1>2
<1>4. m \in Nat /\ m - 1 \in 0..n /\ m \in 1..n /\ ~ (m - 1 \in Bad)
  BY <1>2, <1>3
<1>5. PICK g : Iterates(g, m - 1, V, first, step)
  BY <1>4
<1> DEFINE f == [k \in 0..m |-> IF k = m THEN step[<<m, g[m - 1]>>] ELSE g[k]]
<1>6. f \in [0..m -> V]
  <2> SUFFICES ASSUME NEW k \in 0..m
               PROVE  (IF k = m THEN step[<<m, g[m - 1]>>] ELSE g[k]) \in V
    OBVIOUS
  <2>1. m - 1 \in 0..(m - 1) /\ (k # m => k \in 0..(m - 1))
    BY <1>4
  <2>2. g[m - 1] \in V /\ (k # m => g[k] \in V)
    BY <2>1, <1>4, <1>5 DEF Iterates
  <2>3. step[<<m, g[m - 1]>>] \in V
    BY <2>2, <1>4
  <2> QED
    BY <2>2, <2>3
<1>7. f[0] = first
  <2>1. 0 \in 0..m /\ 0 # m
    BY <1>3, <1>4
  <2>2. g[0] = first
    BY <1>5 DEF Iterates
  <2> QED
    BY <2>1, <2>2
<1>8. \A k \in 1..m : f[k] = step[<<k, f[k - 1]>>]
  <2> SUFFICES ASSUME NEW k \in 1..m PROVE f[k] = step[<<k, f[k - 1]>>]
    OBVIOUS
  <2>1. k \in 0..m /\ k - 1 \in 0..m /\ k - 1 # m
    BY <1>4
  <2>2. CASE k = m
    BY <2>1, <2>2
  <2>3. CASE k # m
    <3>1. k \in 1..(m - 1)
      BY <2>3, <1>4
    <3> QED
      BY <3>1, <2>1, <2>3, <1>5 DEF Iterates
  <2> QED
    BY <2>2, <2>3
<1>9. Iterates(f, m, V, first, step)
  BY <1>6, <1>7, <1>8 DEF Iterates
<1> QED
  BY <1>9, <1>2

LEMMA Quotients ==
    ASSUME NEW i \in Nat, NEW w \in Nat \ {0}
    PROVE  /\ i \div w \in Nat /\ i % w \in 0..(w - 1)
           /\ i = (i \div w) * w + (i % w)
           /\ (i \div w) * w <= i
           /\ i < (i \div w) * w + w
OBVIOUS

LEMMA QuotientOf ==
    ASSUME NEW q \in Nat, NEW m \in Nat, NEW w \in Nat \ {0}, m < w
    PROVE  (q * w + m) \div w = q /\ (q * w + m) % w = m
OBVIOUS

LEMMA RowsApart ==
    ASSUME NEW a \in Int, NEW b \in Int, NEW w \in Nat, a < b
    PROVE  a * w + w <= b * w
<1>1. b = a + 1 + (b - a - 1) /\ b - a - 1 \in Nat
  OBVIOUS
<1>2. b * w = a * w + w + (b - a - 1) * w
  BY <1>1
<1>3. \A c \in Nat : c * w >= 0
  OBVIOUS
<1> QED
  BY <1>1, <1>2, <1>3

\* What a cell of the image buffer may hold.
Cells ==
    STRING \cup {Blank, LineEnd, Nul}
           \cup {"title", "player", "start", "quit", "START", "QUIT"}

LEMMA Indices ==
    /\ ScreenWidth \in Nat \ {0} /\ ScreenHeight \in Nat \ {0}
    /\ BufferIndex \subseteq Nat
    /\ \A i \in TargetIndex : i \in Nat /\ i \in BufferIndex
                            /\ i \div ScreenWidth < ScreenHeight
                            /\ i \div (ScreenWidth + 1) < ScreenHeight
                            /\ i # (ScreenWidth + 1) * ScreenHeight
<1>1. ScreenWidth \in Nat \ {0} /\ ScreenHeight \in Nat \ {0}
  BY ScreenAssumption
<1>2. (ScreenWidth + 1) * ScreenHeight = ScreenWidth * ScreenHeight + ScreenHeight
  BY <1>1
<1>3. ScreenWidth * ScreenHeight \in Nat
  BY <1>1
<1>4. ASSUME NEW i \in TargetIndex
      PROVE  i \in Nat /\ i \in BufferIndex /\ i < ScreenWidth * ScreenHeight
             /\ i # (ScreenWidth + 1) * ScreenHeight
  BY <1>1, <1>2, <1>3 DEF TargetIndex, BufferIndex
<1>5. ASSUME NEW i \in TargetIndex PROVE i \div ScreenWidth < ScreenHeight
  <2> SUFFICES ASSUME ~ (i \div ScreenWidth < ScreenHeight) PROVE FALSE
    OBVIOUS
  <2> DEFINE q == i \div ScreenWidth
  <2>0. q >= ScreenHeight
    BY <1>1, <1>4
  <2>1. q \in Nat /\ q * ScreenWidth <= i /\ q >= ScreenHeight
    BY <1>1, <1>4, <2>0, Quotients
  <2> HIDE DEF q
  <2>2. ScreenHeight * ScreenWidth <= q * ScreenWidth
    <3>1. CASE q = ScreenHeight
      BY <1>1, <3>1
    <3>2. CASE ScreenHeight < q
      <4>1. ScreenHeight * ScreenWidth + ScreenWidth <= q * ScreenWidth
        BY <1>1, <2>1, <3>2, RowsApart
      <4>2. ScreenHeight * ScreenWidth \in Nat /\ q * ScreenWidth \in Nat
        BY <1>1, <2>1
      <4> QED
        BY <1>1, <4>1, <4>2
    <3> QED
      BY <1>1, <2>1, <3>1, <3>2
  <2>3. ScreenHeight * ScreenWidth = ScreenWidth * ScreenHeight /\ q * ScreenWidth \in Nat
    BY <1>1, <2>1
  <2> QED
    BY <1>3, <1>4, <2>1, <2>2, <2>3
<1>6. ASSUME NEW i \in TargetIndex PROVE i \div (ScreenWidth + 1) < ScreenHeight
  <2> DEFINE q == i \div (ScreenWidth + 1)
             p == i \div ScreenWidth
  <2>0. ScreenWidth + 1 \in Nat \ {0}
    BY <1>1
  <2>1. q \in Nat /\ q * (ScreenWidth + 1) <= i
    BY <2>0, <1>4, Quotients
  <2>2. p \in Nat /\ i < p * ScreenWidth + ScreenWidth /\ p < ScreenHeight
    BY <1>1, <1>4, <1>5, Quotients
  <2> HIDE DEF q, p
  <2>3. q * (ScreenWidth + 1) = q * ScreenWidth + q
    BY <1>1, <2>1
  <2>4. q <= p
    <3> SUFFICES ASSUME p < q PROVE FALSE
      BY <2>1, <2>2
    <3>1. p * ScreenWidth + ScreenWidth <= q * ScreenWidth
      BY <1>1, <2>1, <2>2, RowsApart
    <3>2. p * ScreenWidth \in Nat /\ q * ScreenWidth \in Nat
      BY <1>1, <2>1, <2>2
    <3> QED
      BY <1>1, <1>4, <2>1, <2>2, <2>3, <3>1, <3>2
  <2>5. q < ScreenHeight
    BY <1>1, <2>1, <2>2, <2>4
  <2> QED
    BY <2>5 DEF q
<1>7. BufferIndex \subseteq Nat
  BY DEF BufferIndex
<1> QED
  BY <1>1, <1>4, <1>5, <1>6, <1>7

LEMMA CellsOfBuffers == Blank \in Cells /\ LineEnd \in Cells /\ Nul \in Cells
BY DEF Blank, LineEnd, Nul, Cells

\* The line ends that clearing writes are overwritten by the next row, up to
\* the last one, which lies behind the cells that are copied.
LEMMA ClearedIsBlank ==
    Cleared \in [BufferIndex -> Cells] /\ \A i \in TargetIndex : Cleared[i] = Blank
<1> DEFINE cols == ScreenWidth + 1
           V == [BufferIndex -> Cells]
           empty == [i \in BufferIndex |-> Nul]
           step == [p \in (1..ScreenHeight) \X V |->
                      [i \in BufferIndex |->
                         CASE i \div cols = p[1] - 1 -> Blank
                           [] i = p[1] * cols        -> LineEnd
                           [] OTHER                  -> p[2][i]]]
           rows[n \in 0..ScreenHeight] ==
             IF n = 0 THEN [i \in BufferIndex |-> Nul]
             ELSE [i \in BufferIndex |->
                     CASE i \div cols = n - 1 -> Blank
                       [] i = n * cols        -> LineEnd
                       [] OTHER               -> rows[n - 1][i]]
<1>1. ScreenHeight \in Nat /\ cols \in Nat \ {0} /\ BufferIndex \subseteq Nat
  BY Indices
<1>2. Blank \in Cells /\ LineEnd \in Cells /\ Nul \in Cells
  BY CellsOfBuffers
<1> HIDE DEF cols
<1>3. empty \in V
  BY <1>2
<1>4. step \in [(1..ScreenHeight) \X V -> V]
  <2> SUFFICES ASSUME NEW p \in (1..ScreenHeight) \X V, NEW i \in BufferIndex
               PROVE  (CASE i \div cols = p[1] - 1 -> Blank
                         [] i = p[1] * cols        -> LineEnd
                         [] OTHER                  -> p[2][i]) \in Cells
    OBVIOUS
  <2>1. p[2][i] \in Cells
    OBVIOUS
  <2> QED
    BY <2>1, <1>2
<1>5. PICK f : Iterates(f, ScreenHeight, V, empty, step)
  <2> HIDE DEF empty, step, V
  <2> QED
    BY <1>1, <1>3, <1>4, IteratesExist
<1>6. f = [n \in 0..ScreenHeight |->
             IF n = 0 THEN [i \in BufferIndex |-> Nul]
             ELSE [i \in BufferIndex |->
                     CASE i \div cols = n - 1 -> Blank
                       [] i = n * cols        -> LineEnd
                       [] OTHER               -> f[n - 1][i]]]
  <2>1. ASSUME NEW n \in 0..ScreenHeight, n # 0
        PROVE  f[n] = [i \in BufferIndex |->
                         CASE i \div cols = n - 1 -> Blank
                           [] i = n * cols        -> LineEnd
                           [] OTHER               -> f[n - 1][i]]
    <3>1. n \in 1..ScreenHeight /\ n - 1 \in 0..ScreenHeight
      BY <2>1, <1>1
    <3>2. f[n] = step[<<n, f[n - 1]>>] /\ f[n - 1] \in V
      BY <3>1, <1>5 DEF Iterates
    <3>3. <<n, f[n - 1]>> \in (1..ScreenHeight) \X V
      BY <3>1, <3>2
    <3> QED
      BY <3>2, <3>3
  <2>2. f[0] = empty /\ DOMAIN f = 0..ScreenHeight /\ f = [n \in DOMAIN f |-> f[n]]
    <3> HIDE DEF empty, step, V
    <3> QED
      BY <1>5 DEF Iterates
  <2> QED
    BY <2>1, <2>2
<1>7. rows = [n \in 0..ScreenHeight |->
                IF n = 0 THEN [i \in BufferIndex |-> Nul]
                ELSE [i \in BufferIndex |->
                        CASE i \div cols = n - 1 -> Blank
                          [] i = n * cols        -> LineEnd
                          [] OTHER               -> rows[n - 1][i]]]
  BY <1>6
<1> DEFINE Good(n) == /\ rows[n] \in V
                      /\ \A i \in BufferIndex : i \div cols < n => rows[n][i] = Blank
           Bad == { n \in 0..ScreenHeight : ~ Good(n) }
<1> HIDE DEF rows
<1>8. ASSUME Bad # {} PROVE FALSE
  <2>1. PICK n \in Bad : \A m \in Bad : n <= m
    <3>1. Bad \in SUBSET Nat
      OBVIOUS
    <3> HIDE DEF Bad
    <3> QED
      BY <1>8, <3>1, FirstOf
  <2>2. Good(0)
    <3>1. rows[0] = empty
      BY <1>1, <1>7
    <3>2. \A i \in BufferIndex : i \div cols \in Nat
      BY <1>1, Quotients
    <3> QED
      BY <3>1, <3>2, <1>3
  <2>3. n \in 0..ScreenHeight /\ ~ Good(n)
    BY <2>1
  <2> HIDE DEF Good
  <2>4. n # 0 /\ n \in Nat /\ n - 1 \in 0..ScreenHeight
    BY <2>2, <2>3, <1>1
  <2>5. Good(n - 1)
    BY <2>1, <2>4
  <2>6. rows[n] = [i \in BufferIndex |->
                     CASE i \div cols = n - 1 -> Blank
                       [] i = n * cols        -> LineEnd
                       [] OTHER               -> rows[n - 1][i]]
    BY <2>3, <2>4, <1>7
  <2>7. ASSUME NEW i \in BufferIndex PROVE rows[n][i] \in Cells
    <3>1. rows[n - 1][i] \in Cells
      BY <2>5 DEF Good
    <3> QED
      BY <2>6, <3>1, <1>2
  <2>8. ASSUME NEW i \in BufferIndex, i \div cols < n PROVE rows[n][i] = Blank
    <3>1. i \div cols \in Nat /\ i \in Nat
      BY <1>1, Quotients
    <3>2. i # n * cols
      <4>1. (n * cols + 0) \div cols = n
        BY <2>4, <1>1, QuotientOf
      <4>2. n * cols + 0 = n * cols
        BY <2>4, <1>1
      <4> QED
        BY <4>1, <4>2, <2>8, <2>4
    <3>3. rows[n][i] = CASE i \div cols = n - 1 -> Blank
                         [] i = n * cols        -> LineEnd
                         [] OTHER               -> rows[n - 1][i]
      BY <2>6
    <3>4. CASE i \div cols = n - 1
      BY <3>2, <3>3, <3>4
    <3>5. CASE i \div cols < n - 1
      <4>1. rows[n][i] = rows[n - 1][i]
        BY <3>1, <3>2, <3>3, <3>5, <2>4
      <4> QED
        BY <4>1, <3>5, <2>5 DEF Good
    <3> QED
      BY <2>4, <2>8, <3>1, <3>4, <3>5
  <2>9. rows[n] \in V
    BY <2>6, <2>7
  <2> QED
    BY <2>3, <2>8, <2>9 DEF Good
<1>9. Good(ScreenHeight)
  <2>1. ScreenHeight \in 0..ScreenHeight
    BY <1>1
  <2> QED
    BY <1>8, <2>1
<1>10. Cleared = [rows[ScreenHeight] EXCEPT ![cols * ScreenHeight] = Nul]
  BY DEF Cleared, rows, cols
<1>11. Cleared \in [BufferIndex -> Cells]
  BY <1>2, <1>9, <1>10
<1>12. ASSUME NEW i \in TargetIndex PROVE Cleared[i] = Blank
  <2>1. i \in BufferIndex /\ i \div cols < ScreenHeight /\ i # cols * ScreenHeight
    BY Indices DEF cols
  <2> QED
    BY <1>9, <1>10, <2>1
<1> QED
  BY <1>11, <1>12

\* A drawing that the screen holds.
OnScreen(drawing) ==
    /\ drawing.position \in [x : Nat, y : Nat]
    /\ drawing.rows \in Seq(Seq(Cells))
    /\ drawing.position.y + Len(drawing.rows) <= ScreenHeight
    /\ \A row \in DOMAIN drawing.rows :
          drawing.position.x + Len(drawing.rows[row]) <= ScreenWidth

\* On the screen a row of a drawing stays in its row of the buffer.
LEMMA CellOfRow ==
    ASSUME NEW w \in Nat \ {0}, NEW q \in Nat, NEW m \in 0..(w - 1),
           NEW t \in Nat, NEW x \in Nat, NEW l \in Nat, x + l <= w
    PROVE  (q * w + m) - (t * w + x) + 1 \in 1..l <=> q = t /\ m - x + 1 \in 1..l
<1>0. q * w \in Nat /\ t * w \in Nat
  OBVIOUS
<1>1. CASE q = t
  <2>1. q * w = t * w
    BY <1>1
  <2> QED
    BY <1>0, <1>1, <2>1
<1>2. CASE q < t
  <2>1. q * w + w <= t * w
    BY <1>2, RowsApart
  <2> QED
    BY <1>0, <1>2, <2>1
<1>3. CASE t < q
  <2>1. t * w + w <= q * w
    BY <1>3, RowsApart
  <2> QED
    BY <1>0, <1>3, <2>1
<1> QED
  BY <1>1, <1>2, <1>3

\* Drawing changes the cells that the drawing covers, and no other.
LEMMA DrawnCells ==
    ASSUME NEW buffer \in [BufferIndex -> Cells], NEW drawing, OnScreen(drawing)
    PROVE  /\ Drawn(buffer, drawing) \in [BufferIndex -> Cells]
           /\ \A i \in TargetIndex :
                 LET x == i % ScreenWidth
                     y == i \div ScreenWidth
                 IN  Drawn(buffer, drawing)[i] =
                       IF Covers(drawing, x, y)
                       THEN drawing.rows[y - drawing.position.y + 1][x - drawing.position.x + 1]
                       ELSE buffer[i]
<1> DEFINE image == drawing.rows
           count == Len(image)
           px == drawing.position.x
           py == drawing.position.y
           V == [BufferIndex -> Cells]
           first(row) == CellIndex(drawing.position, row, 1)
           step == [p \in (1..count) \X V |->
                      [i \in BufferIndex |->
                         IF i - first(p[1]) + 1 \in DOMAIN image[p[1]]
                         THEN image[p[1]][i - first(p[1]) + 1] ELSE p[2][i]]]
           drawn[row \in 0..Len(drawing.rows)] ==
             IF row = 0 THEN buffer
             ELSE LET first_1 == CellIndex(drawing.position, row, 1)
                      text == drawing.rows[row]
                  IN  [i \in BufferIndex |-> IF i - first_1 + 1 \in DOMAIN text
                                             THEN text[i - first_1 + 1] ELSE drawn[row - 1][i]]
<1>1. /\ px \in Nat /\ py \in Nat /\ image \in Seq(Seq(Cells)) /\ count \in Nat
      /\ DOMAIN image = 1..count /\ py + count <= ScreenHeight
      /\ \A row \in 1..count : px + Len(image[row]) <= ScreenWidth
  BY LenProperties DEF OnScreen
<1>2. ASSUME NEW row \in 1..count
      PROVE  /\ image[row] \in Seq(Cells) /\ Len(image[row]) \in Nat
             /\ DOMAIN image[row] = 1..Len(image[row])
             /\ \A n \in 1..Len(image[row]) : image[row][n] \in Cells
             /\ px + Len(image[row]) <= ScreenWidth
             /\ first(row) = (py + row - 1) * ScreenWidth + px + 1 - 1
  <2>1. image[row] \in Seq(Cells)
    BY <1>1, ElementOfSeq
  <2>2. first(row) = (py + row - 1) * ScreenWidth + px + 1 - 1
    BY DEF CellIndex
  <2> HIDE DEF image, first, count, px, py
  <2> QED
    BY <1>1, <2>1, <2>2, LenProperties, ElementOfSeq
<1> HIDE DEF count
<1>4. step \in [(1..count) \X V -> V]
  <2> SUFFICES ASSUME NEW p \in (1..count) \X V, NEW i \in BufferIndex
               PROVE  (IF i - first(p[1]) + 1 \in DOMAIN image[p[1]]
                       THEN image[p[1]][i - first(p[1]) + 1] ELSE p[2][i]) \in Cells
    OBVIOUS
  <2>1. p[2][i] \in Cells /\ p[1] \in 1..count
    OBVIOUS
  <2> HIDE DEF first, image
  <2> QED
    BY <2>1, <1>2
<1>5. PICK f : Iterates(f, count, V, buffer, step)
  <2> HIDE DEF step, V
  <2> QED
    BY <1>1, <1>4, IteratesExist DEF V
<1> DEFINE Over(row, old) ==
             [i \in BufferIndex |-> IF i - first(row) + 1 \in DOMAIN image[row]
                                    THEN image[row][i - first(row) + 1] ELSE old[i]]
<1>6. f = [row \in 0..count |-> IF row = 0 THEN buffer ELSE Over(row, f[row - 1])]
  <2> HIDE DEF first, image
  <2>1. ASSUME NEW row \in 0..count, row # 0
        PROVE  f[row] = Over(row, f[row - 1])
    <3>1. row \in 1..count /\ row - 1 \in 0..count
      BY <2>1, <1>1
    <3>2. f[row] = step[<<row, f[row - 1]>>] /\ f[row - 1] \in V
      BY <3>1, <1>5 DEF Iterates
    <3>3. <<row, f[row - 1]>> \in (1..count) \X V
      BY <3>1, <3>2
    <3> QED
      BY <3>2, <3>3
  <2>2. f[0] = buffer /\ DOMAIN f = 0..count /\ f = [row \in DOMAIN f |-> f[row]]
    <3> HIDE DEF step, V
    <3> QED
      BY <1>5 DEF Iterates
  <2> HIDE DEF Over
  <2> QED
    BY <2>1, <2>2
<1>7. drawn = [row \in 0..count |-> IF row = 0 THEN buffer ELSE Over(row, drawn[row - 1])]
  BY <1>6 DEF count
<1>8. Drawn(buffer, drawing) = drawn[count]
  BY DEF Drawn, count
<1> HIDE DEF drawn
<1> DEFINE X(i) == (i % ScreenWidth) - px + 1
           Y(i) == (i \div ScreenWidth) - py + 1
           Good(n) ==
             /\ drawn[n] \in V
             /\ \A i \in TargetIndex :
                   drawn[n][i] = IF Y(i) \in 1..n /\ X(i) \in DOMAIN image[Y(i)]
                                 THEN image[Y(i)][X(i)] ELSE buffer[i]
           Bad == { n \in 0..count : ~ Good(n) }
<1> HIDE DEF image, px, py, first
<1>9. ASSUME NEW i \in TargetIndex, NEW row \in 1..count
      PROVE  /\ i - first(row) + 1 \in DOMAIN image[row] <=>
                   Y(i) = row /\ X(i) \in DOMAIN image[row]
             /\ Y(i) = row => i - first(row) + 1 = X(i)
  <2> DEFINE q == i \div ScreenWidth
             m == i % ScreenWidth
             t == py + row - 1
             l == Len(image[row])
  <2>1. ScreenWidth \in Nat \ {0} /\ i \in Nat
    BY Indices
  <2>2. q \in Nat /\ m \in 0..(ScreenWidth - 1) /\ i = q * ScreenWidth + m
    BY <2>1, Quotients
  <2>3. t \in Nat /\ l \in Nat /\ px + l <= ScreenWidth /\ px \in Nat /\ row \in Nat
    BY <1>1, <1>2
  <2>4. first(row) = t * ScreenWidth + px /\ DOMAIN image[row] = 1..l
    <3>1. first(row) = t * ScreenWidth + px + 1 - 1 /\ DOMAIN image[row] = 1..l
      BY <1>2
    <3>2. t * ScreenWidth \in Nat
      BY <2>1, <2>3
    <3> HIDE DEF t, l
    <3> QED
      BY <2>3, <3>1, <3>2
  <2>5. X(i) = m - px + 1 /\ Y(i) = q - py + 1 /\ t = py + row - 1
    OBVIOUS
  <2> HIDE DEF X, Y, q, m, t, l
  <2>8. q = t <=> Y(i) = row
    BY <1>1, <2>2, <2>3, <2>5
  <2>9. i - first(row) + 1 = (q * ScreenWidth + m) - (t * ScreenWidth + px) + 1
    <3> DEFINE a == q * ScreenWidth + m
               b == t * ScreenWidth + px
    <3>1. i = a /\ first(row) = b
      BY <2>2, <2>4
    <3> HIDE DEF a, b
    <3>2. i - first(row) + 1 = a - b + 1
      BY <3>1
    <3> QED
      BY <3>2 DEF a, b
  <2>6. (q * ScreenWidth + m) - (t * ScreenWidth + px) + 1 \in 1..l
          <=> q = t /\ m - px + 1 \in 1..l
    BY <2>1, <2>2, <2>3, CellOfRow
  <2>7. q = t => i - first(row) + 1 = X(i)
    <3> SUFFICES ASSUME q = t PROVE i - first(row) + 1 = X(i)
      OBVIOUS
    <3>1. q * ScreenWidth = t * ScreenWidth /\ q * ScreenWidth \in Nat
      BY <2>1, <2>2
    <3> QED
      BY <2>2, <2>3, <2>4, <2>5, <3>1
  <2> QED
    BY <2>4, <2>5, <2>6, <2>7, <2>8, <2>9
<1>10. ASSUME Bad # {} PROVE FALSE
  <2>1. PICK n \in Bad : \A m \in Bad : n <= m
    <3>1. Bad \in SUBSET Nat
      OBVIOUS
    <3> HIDE DEF Bad
    <3> QED
      BY <1>10, <3>1, FirstOf
  <2>2. Good(0)
    <3>1. drawn[0] = buffer
      BY <1>1, <1>7
    <3>2. \A i : ~ (Y(i) \in 1..0)
      OBVIOUS
    <3> HIDE DEF X, Y
    <3> QED
      BY <3>1, <3>2
  <2>3. n \in 0..count /\ ~ Good(n)
    BY <2>1
  <2> HIDE DEF Good
  <2>4. n # 0 /\ n \in Nat /\ n - 1 \in 0..count /\ n \in 1..count
    BY <2>2, <2>3, <1>1
  <2>5. Good(n - 1)
    BY <2>1, <2>4
  <2>6. drawn[n] = Over(n, drawn[n - 1])
    BY <2>3, <2>4, <1>7
  <2>7. drawn[n] \in V
    <3>1. ASSUME NEW i \in BufferIndex
          PROVE  (IF i - first(n) + 1 \in DOMAIN image[n]
                  THEN image[n][i - first(n) + 1] ELSE drawn[n - 1][i]) \in Cells
      <4>1. drawn[n - 1][i] \in Cells
        BY <2>5 DEF Good
      <4> QED
        BY <2>4, <4>1, <1>2
    <3> QED
      BY <2>6, <3>1
  <2>8. ASSUME NEW i \in TargetIndex
        PROVE  drawn[n][i] = IF Y(i) \in 1..n /\ X(i) \in DOMAIN image[Y(i)]
                             THEN image[Y(i)][X(i)] ELSE buffer[i]
    <3>1. i \in BufferIndex
      BY Indices
    <3>2. drawn[n][i] = IF i - first(n) + 1 \in DOMAIN image[n]
                        THEN image[n][i - first(n) + 1] ELSE drawn[n - 1][i]
      BY <2>6, <3>1
    <3>3. drawn[n - 1][i] = IF Y(i) \in 1..(n - 1) /\ X(i) \in DOMAIN image[Y(i)]
                            THEN image[Y(i)][X(i)] ELSE buffer[i]
      BY <2>5 DEF Good
    <3>4. /\ i - first(n) + 1 \in DOMAIN image[n] <=> Y(i) = n /\ X(i) \in DOMAIN image[n]
          /\ Y(i) = n => i - first(n) + 1 = X(i)
      BY <2>4, <1>9
    <3>5. Y(i) \in 1..n <=> Y(i) \in 1..(n - 1) \/ Y(i) = n
      BY <2>4
    <3>6. ~ (n \in 1..(n - 1))
      BY <2>4
    <3> HIDE DEF X, Y
    <3> QED
      BY <3>2, <3>3, <3>4, <3>5, <3>6
  <2> QED
    BY <2>3, <2>7, <2>8 DEF Good
<1>11. Good(count)
  <2>1. count \in 0..count
    BY <1>1
  <2> HIDE DEF Good
  <2> QED
    BY <1>10, <2>1
<1>12. Drawn(buffer, drawing) \in [BufferIndex -> Cells]
  BY <1>8, <1>11
<1>13. ASSUME NEW i \in TargetIndex
       PROVE  LET x == i % ScreenWidth
                  y == i \div ScreenWidth
              IN  Drawn(buffer, drawing)[i] =
                    IF Covers(drawing, x, y)
                    THEN drawing.rows[y - drawing.position.y + 1][x - drawing.position.x + 1]
                    ELSE buffer[i]
  <2>1. Covers(drawing, i % ScreenWidth, i \div ScreenWidth) <=>
          Y(i) \in 1..count /\ X(i) \in DOMAIN image[Y(i)]
    BY <1>1 DEF Covers, image, px, py
  <2>2. drawn[count][i] = IF Y(i) \in 1..count /\ X(i) \in DOMAIN image[Y(i)]
                          THEN image[Y(i)][X(i)] ELSE buffer[i]
    BY <1>11
  <2> QED
    BY <1>8, <2>1, <2>2 DEF image, px, py
<1> QED
  BY <1>12, <1>13

\* A buffer that was cleared and drawn to shows in each cell the last drawing
\* that covers it, and nothing where there is none.
LEMMA ImageIsPicture ==
    ASSUME NEW drawn, Len(drawn) \in Nat, DOMAIN drawn = 1..Len(drawn),
           \A n \in 1..Len(drawn) : OnScreen(drawn[n])
    PROVE  /\ Image(drawn) \in [BufferIndex -> Cells]
           /\ [i \in TargetIndex |-> Image(drawn)[i]] = Picture(drawn)
<1> DEFINE V == [BufferIndex -> Cells]
           count == Len(drawn)
           step == [p \in (1..count) \X V |-> Drawn(p[2], drawn[p[1]])]
           all[n \in 0..count] == IF n = 0 THEN Cleared ELSE Drawn(all[n - 1], drawn[n])
<1> HIDE DEF count
<1>1. count \in Nat /\ DOMAIN drawn = 1..count /\ \A n \in 1..count : OnScreen(drawn[n])
  BY DEF count
<1>2. Cleared \in V /\ \A i \in TargetIndex : Cleared[i] = Blank
  BY ClearedIsBlank
<1>3. step \in [(1..count) \X V -> V]
  <2> SUFFICES ASSUME NEW p \in (1..count) \X V PROVE Drawn(p[2], drawn[p[1]]) \in V
    OBVIOUS
  <2>1. p[2] \in V /\ OnScreen(drawn[p[1]])
    BY <1>1
  <2> QED
    BY <2>1, DrawnCells
<1>4. PICK f : Iterates(f, count, V, Cleared, step)
  <2> HIDE DEF step, V
  <2> QED
    BY <1>1, <1>2, <1>3, IteratesExist
<1>5. f = [n \in 0..count |-> IF n = 0 THEN Cleared ELSE Drawn(f[n - 1], drawn[n])]
  <2>1. ASSUME NEW n \in 0..count, n # 0 PROVE f[n] = Drawn(f[n - 1], drawn[n])
    <3>1. n \in 1..count /\ n - 1 \in 0..count
      BY <2>1, <1>1
    <3>2. f[n] = step[<<n, f[n - 1]>>] /\ f[n - 1] \in V
      BY <3>1, <1>4 DEF Iterates
    <3>3. <<n, f[n - 1]>> \in (1..count) \X V
      BY <3>1, <3>2
    <3> QED
      BY <3>2, <3>3
  <2>2. f[0] = Cleared /\ DOMAIN f = 0..count /\ f = [n \in DOMAIN f |-> f[n]]
    <3> HIDE DEF step, V
    <3> QED
      BY <1>4 DEF Iterates
  <2> QED
    BY <2>1, <2>2
<1>6. all = [n \in 0..count |-> IF n = 0 THEN Cleared ELSE Drawn(all[n - 1], drawn[n])]
  BY <1>5
<1>7. Image(drawn) = all[count]
  BY DEF Image, AllDrawn, count
<1> HIDE DEF all
<1> DEFINE X(i) == i % ScreenWidth
           Y(i) == i \div ScreenWidth
           Covering(n, i) == { k \in 1..n : Covers(drawn[k], X(i), Y(i)) }
           Top(S) == CHOOSE k \in S : \A l \in S : l <= k
           CellOf(k, i) ==
             drawn[k].rows[Y(i) - drawn[k].position.y + 1][X(i) - drawn[k].position.x + 1]
           SeenIn(n, i) == IF Covering(n, i) = {} THEN Blank ELSE CellOf(Top(Covering(n, i)), i)
           Good(n) == all[n] \in V /\ \A i \in TargetIndex : all[n][i] = SeenIn(n, i)
           Bad == { n \in 0..count : ~ Good(n) }
<1> HIDE DEF Good
<1>8. ASSUME Bad # {} PROVE FALSE
  <2>1. PICK n \in Bad : \A m \in Bad : n <= m
    <3>1. Bad \in SUBSET Nat
      OBVIOUS
    <3> HIDE DEF Bad
    <3> QED
      BY <1>8, <3>1, FirstOf
  <2>2. Good(0)
    <3>1. all[0] = Cleared
      BY <1>1, <1>6
    <3>2. ASSUME NEW i PROVE SeenIn(0, i) = Blank
      <4>1. Covering(0, i) = {}
        OBVIOUS
      <4> HIDE DEF Covering, Top, CellOf
      <4> QED
        BY <4>1
    <3> HIDE DEF SeenIn
    <3> QED
      BY <3>1, <3>2, <1>2 DEF Good
  <2>3. n \in 0..count /\ ~ Good(n)
    BY <2>1
  <2>4. n # 0 /\ n \in Nat /\ n - 1 \in 0..count /\ n \in 1..count
    BY <2>2, <2>3, <1>1
  <2>5. Good(n - 1)
    BY <2>1, <2>4
  <2>6. all[n] = Drawn(all[n - 1], drawn[n])
    BY <2>3, <2>4, <1>6
  <2>7. /\ all[n - 1] \in V
        /\ \A i \in TargetIndex : all[n - 1][i] = SeenIn(n - 1, i)
    BY <2>5 DEF Good
  <2>8. /\ all[n] \in V
        /\ \A i \in TargetIndex :
              all[n][i] = IF Covers(drawn[n], X(i), Y(i)) THEN CellOf(n, i) ELSE all[n - 1][i]
    <3>1. all[n - 1] \in V /\ OnScreen(drawn[n])
      BY <1>1, <2>4, <2>7
    <3> HIDE DEF V
    <3>2. Drawn(all[n - 1], drawn[n]) \in V
      BY <3>1, DrawnCells DEF V
    <3>3. ASSUME NEW i \in TargetIndex
          PROVE  Drawn(all[n - 1], drawn[n])[i] =
                   IF Covers(drawn[n], X(i), Y(i)) THEN CellOf(n, i) ELSE all[n - 1][i]
      BY <3>1, DrawnCells DEF V
    <3> HIDE DEF X, Y, CellOf
    <3> QED
      BY <2>6, <3>2, <3>3
  <2>9. ASSUME NEW i \in TargetIndex PROVE all[n][i] = SeenIn(n, i)
    <3> HIDE DEF X, Y, CellOf
    <3>1. CASE Covers(drawn[n], X(i), Y(i))
      <4>1. n \in Covering(n, i) /\ \A l \in Covering(n, i) : l <= n /\ l \in Nat
        BY <2>4, <3>1
      <4> HIDE DEF Covering
      <4>2. Top(Covering(n, i)) = n
        <5>1. /\ Top(Covering(n, i)) \in Covering(n, i)
              /\ \A l \in Covering(n, i) : l <= Top(Covering(n, i))
          BY <4>1
        <5> HIDE DEF Top
        <5> QED
          BY <4>1, <5>1
      <4> HIDE DEF Top
      <4> QED
        BY <2>8, <3>1, <4>1, <4>2
    <3>2. CASE ~ Covers(drawn[n], X(i), Y(i))
      <4>1. Covering(n, i) = Covering(n - 1, i)
        BY <2>4, <3>2
      <4> HIDE DEF Covering, Top
      <4> QED
        BY <2>7, <2>8, <3>2, <4>1
    <3> QED
      BY <3>1, <3>2
  <2> QED
    BY <2>3, <2>8, <2>9 DEF Good
<1>9. Good(count)
  <2>1. count \in 0..count
    BY <1>1
  <2> QED
    BY <1>8, <2>1
<1>10. Image(drawn) \in V /\ \A i \in TargetIndex : Image(drawn)[i] = SeenIn(count, i)
  BY <1>7, <1>9 DEF Good
<1>11. ASSUME NEW i \in TargetIndex
       PROVE  Image(drawn)[i] = Seen(drawn, i % ScreenWidth, i \div ScreenWidth)
  <2>1. Seen(drawn, X(i), Y(i)) = SeenIn(count, i)
    <3>1. { k \in DOMAIN drawn : Covers(drawn[k], X(i), Y(i)) } = Covering(count, i)
      BY <1>1
    <3>2. Seen(drawn, X(i), Y(i)) =
            LET covering == { k \in DOMAIN drawn : Covers(drawn[k], X(i), Y(i)) }
            IN  IF covering = {} THEN Blank ELSE CellOf(Top(covering), i)
      BY DEF Seen
    <3> HIDE DEF X, Y, CellOf, Top, Covering
    <3> QED
      BY <3>1, <3>2
  <2> HIDE DEF SeenIn
  <2> QED
    BY <2>1, <1>10
<1> QED
  BY <1>10, <1>11 DEF Picture

-----------------------------------------------------------------------------
(***************************************************************************)
(* What is on the screen.                                                  *)
(***************************************************************************)

\* The back buffer is the other one, and holds the frame that is being drawn.
ShowInv ==
    /\ currentRenderTargetIndex \in {0, 1}
    /\ activeBuffer = 1 - currentRenderTargetIndex
    /\ DOMAIN renderTargets = {0, 1}
    /\ renderTargets[activeBuffer] = shown
    /\ phase = "present" => renderTargets[currentRenderTargetIndex] = Picture(drawings)

LEMMA MenuLength == length = 2
BY DEF length, MenuItems

LEMMA MenuRows ==
    /\ Len(MenuDrawings) = 3 /\ DOMAIN MenuDrawings = 1..3
    /\ MenuDrawings[1] = Drawing(0, 0, << <<"title", "title">> >>)
    /\ MenuDrawings[2] = Drawing(0, 2, << <<ItemText(0)>> >>)
    /\ MenuDrawings[3] = Drawing(0, 3, << <<ItemText(1)>> >>)
<1> DEFINE title == << Drawing(0, 0, << <<"title", "title">> >>) >>
           items == [n \in 1..2 |-> Drawing(0, n - 1 + 2, << <<ItemText(n - 1)>> >>)]
           S == {title[1]} \cup {items[1], items[2]}
<1>1. title \in Seq(S) /\ Len(title) = 1
  OBVIOUS
<1>2. items[1] = Drawing(0, 2, << <<ItemText(0)>> >>)
  OBVIOUS
<1>3. items[2] = Drawing(0, 3, << <<ItemText(1)>> >>)
  OBVIOUS
<1>4. items \in Seq(S) /\ Len(items) = 2
  <2>1. items \in [1..2 -> S]
    <3>1. \A n \in 1..2 : n = 1 \/ n = 2
      OBVIOUS
    <3>2. DOMAIN items = 1..2 /\ items = [n \in 1..2 |-> items[n]]
      OBVIOUS
    <3>3. items[1] \in S /\ items[2] \in S
      OBVIOUS
    <3> HIDE DEF items, S
    <3> QED
      BY <3>1, <3>2, <3>3
  <2>2. DOMAIN items = 1..2
    OBVIOUS
  <2> HIDE DEF items, S
  <2>3. items \in Seq(S)
    BY <2>1, SeqDef
  <2>4. Len(items) \in Nat /\ 1..2 = 1..Len(items)
    BY <2>2, <2>3, LenProperties
  <2> DEFINE n == Len(items)
  <2>5. n \in Nat /\ 2 \in 1..n /\ ~ (3 \in 1..n)
    BY <2>4
  <2> HIDE DEF n
  <2>6. n = 2
    BY <2>5
  <2> QED
    BY <2>3, <2>6 DEF n
<1>5. MenuDrawings = title \o items
  BY MenuLength DEF MenuDrawings
<1>6. title[1] = Drawing(0, 0, << <<"title", "title">> >>)
  OBVIOUS
<1> HIDE DEF title, items, S
<1>7. Len(title \o items) = 3 /\ title \o items \in Seq(S)
  <2>1. /\ title \o items \in Seq(S)
        /\ Len(title \o items) = Len(title) + Len(items)
    BY <1>1, <1>4, ConcatProperties, Zenon
  <2> QED
    BY <1>1, <1>4, <2>1
<1>8. /\ (title \o items)[1] = title[1]
      /\ (title \o items)[2] = items[1]
      /\ (title \o items)[3] = items[2]
  <2>1. \A n \in 1..(Len(title) + Len(items)) :
          (title \o items)[n] = IF n <= Len(title) THEN title[n] ELSE items[n - Len(title)]
    BY <1>1, <1>4, ConcatProperties, Zenon
  <2> DEFINE whole == title \o items
             a == Len(title)
             b == Len(items)
  <2>2. /\ a = 1 /\ b = 2
        /\ \A n \in 1..(a + b) : whole[n] = IF n <= a THEN title[n] ELSE items[n - a]
    BY <1>1, <1>4, <2>1
  <2> HIDE DEF whole, a, b
  <2>3. whole[1] = title[1] /\ whole[2] = items[1] /\ whole[3] = items[2]
    BY <2>2
  <2> QED
    BY <2>3 DEF whole
<1>9. DOMAIN (title \o items) = 1..3
  BY <1>7, LenProperties
<1> QED
  BY <1>2, <1>3, <1>5, <1>6, <1>7, <1>8, <1>9

\* A row of one or two cells.
LEMMA RowIsImage ==
    ASSUME NEW x \in Nat, NEW y \in Nat, NEW row \in Seq(Cells), NEW l \in Nat,
           Len(row) = l, x + l <= ScreenWidth, y + 1 <= ScreenHeight
    PROVE  OnScreen(Drawing(x, y, <<row>>))
<1>1. <<row>> \in Seq(Seq(Cells)) /\ Len(<<row>>) = 1 /\ DOMAIN <<row>> = 1..1
  OBVIOUS
<1>2. \A r \in 1..1 : <<row>>[r] = row
  OBVIOUS
<1> QED
  BY <1>1, <1>2 DEF OnScreen, Drawing

LEMMA MenuFits == \A n \in 1..Len(MenuDrawings) : OnScreen(MenuDrawings[n])
<1>1. ScreenWidth \in Nat /\ ScreenHeight \in Nat /\ ScreenWidth >= 2 /\ ScreenHeight >= 4
  BY ScreenAssumption, PicturesFit
<1>2. <<"title", "title">> \in Seq(Cells) /\ Len(<<"title", "title">>) = 2
  BY DEF Cells
<1>3. ASSUME NEW i \in 0..1
      PROVE  <<ItemText(i)>> \in Seq(Cells) /\ Len(<<ItemText(i)>>) = 1
  <2>1. ItemText(i) \in {"start", "quit", "START", "QUIT"}
    BY DEF ItemText, MenuItems, SelectedItems
  <2>2. ItemText(i) \in Cells
    BY <2>1 DEF Cells
  <2> QED
    BY <2>2
<1>4. OnScreen(MenuDrawings[1])
  <2> DEFINE row == <<"title", "title">>
  <2>1. row \in Seq(Cells) /\ Len(row) = 2
    BY <1>2
  <2>2. MenuDrawings[1] = Drawing(0, 0, <<row>>)
    BY MenuRows
  <2>3. /\ 0 \in Nat /\ 0 \in Nat /\ 2 \in Nat
        /\ 0 + 2 <= ScreenWidth /\ 0 + 1 <= ScreenHeight
    BY <1>1
  <2> HIDE DEF row
  <2> QED
    BY <2>1, <2>2, <2>3, RowIsImage, Zenon
<1>5. OnScreen(MenuDrawings[2])
  <2> DEFINE row == <<ItemText(0)>>
  <2>1. row \in Seq(Cells) /\ Len(row) = 1
    BY <1>3
  <2>2. MenuDrawings[2] = Drawing(0, 2, <<row>>)
    BY MenuRows
  <2>3. /\ 0 \in Nat /\ 2 \in Nat /\ 1 \in Nat
        /\ 0 + 1 <= ScreenWidth /\ 2 + 1 <= ScreenHeight
    BY <1>1
  <2> HIDE DEF row
  <2> QED
    BY <2>1, <2>2, <2>3, RowIsImage, Zenon
<1>6. OnScreen(MenuDrawings[3])
  <2> DEFINE row == <<ItemText(1)>>
  <2>1. row \in Seq(Cells) /\ Len(row) = 1
    BY <1>3
  <2>2. MenuDrawings[3] = Drawing(0, 3, <<row>>)
    BY MenuRows
  <2>3. /\ 0 \in Nat /\ 3 \in Nat /\ 1 \in Nat
        /\ 0 + 1 <= ScreenWidth /\ 3 + 1 <= ScreenHeight
    BY <1>1
  <2> HIDE DEF row
  <2> QED
    BY <2>1, <2>2, <2>3, RowIsImage, Zenon
<1>7. \A n \in 1..3 : n = 1 \/ n = 2 \/ n = 3
  OBVIOUS
<1> QED
  BY <1>4, <1>5, <1>6, <1>7, MenuRows

LEMMA GameFits ==
    ASSUME NEW place \in Places
    PROVE  /\ Len(GameDrawings(place)) = 2 /\ DOMAIN GameDrawings(place) = 1..2
           /\ \A n \in 1..2 : OnScreen(GameDrawings(place)[n])
<1> DEFINE map == Drawing(0, 0, GameMap)
           player == Drawing(place.x, place.y, << <<"player">> >>)
<1>1. ScreenWidth \in Nat /\ ScreenHeight \in Nat
  BY ScreenAssumption
<1>2. OnScreen(map)
  <2>1. GameMap \in Seq(Seq(Cells))
    <3>1. Seq(STRING) \subseteq Seq(Cells)
      BY SeqMonotonic DEF Cells
    <3> QED
      BY <3>1, SeqMonotonic, PicturesFit
  <2>2. \A row \in DOMAIN GameMap : Len(GameMap[row]) <= ScreenWidth
    BY PicturesFit
  <2>3. \A row \in DOMAIN GameMap : Len(GameMap[row]) \in Nat
    BY <2>1, ElementOfSeq, LenProperties
  <2>4. Len(GameMap) <= ScreenHeight /\ Len(GameMap) \in Nat
    BY <2>1, PicturesFit, LenProperties
  <2>5. map.position = [x |-> 0, y |-> 0] /\ map.rows = GameMap
    BY DEF Drawing
  <2> HIDE DEF map
  <2> QED
    BY <1>1, <2>1, <2>2, <2>3, <2>4, <2>5 DEF OnScreen
<1>3. OnScreen(player)
  <2>1. place.x \in 0..(ScreenWidth - 1) /\ place.y \in 0..(ScreenHeight - 1)
    BY GameLoopAssumption
  <2> DEFINE row == <<"player">>
  <2>2. row \in Seq(Cells) /\ Len(row) = 1
    BY DEF Cells
  <2>3. player = Drawing(place.x, place.y, <<row>>)
    OBVIOUS
  <2>4. /\ place.x \in Nat /\ place.x + 1 <= ScreenWidth
        /\ place.y \in Nat /\ place.y + 1 <= ScreenHeight
    BY <1>1, <2>1
  <2> HIDE DEF row, player
  <2> QED
    BY <1>1, <2>2, <2>3, <2>4, RowIsImage
<1>4. GameDrawings(place) = <<map, player>>
  BY DEF GameDrawings
<1> HIDE DEF map, player
<1> QED
  BY <1>2, <1>3, <1>4

\* Nothing drawn is an empty picture.
LEMMA EmptyPicture == Picture(<<>>) = [i \in TargetIndex |-> Blank]
<1>1. ASSUME NEW i \in TargetIndex
      PROVE  Seen(<<>>, i % ScreenWidth, i \div ScreenWidth) = Blank
  <2> DEFINE covering ==
        { k \in DOMAIN <<>> : Covers(<<>>[k], i % ScreenWidth, i \div ScreenWidth) }
  <2>1. covering = {}
    OBVIOUS
  <2> QED
    BY <2>1 DEF Seen
<1> QED
  BY <1>1 DEF Picture

LEMMA NextShowInv == ShowInv /\ [GameLoopNext]_gameLoopVars => ShowInv'
<1> SUFFICES ASSUME ShowInv, [GameLoopNext]_gameLoopVars PROVE ShowInv'
    OBVIOUS
<1> USE DEF frameVars, screenVars
<1>1. CASE Test \/ Leave \/ Change \/ NoFrame \/ ReceiveThread
  BY <1>1 DEF Test, Leave, Change, NoFrame, ReceiveThread, ShowInv
<1>2. CASE ChangeMain \/ CloseConsole
  BY <1>2 DEF ChangeMain, CloseConsole, ShowInv
<1>3. CASE ProcessAndCheckInput \/ UpdateMenu \/ UpdateGame
  BY <1>3 DEF ProcessAndCheckInput, UpdateMenu, UpdateGame, ShowInv
<1>4. CASE Draw
  <2>1. /\ Len(drawings') \in Nat /\ DOMAIN drawings' = 1..Len(drawings')
        /\ \A n \in 1..Len(drawings') : OnScreen(drawings'[n])
    <3>1. CASE drawings' = MenuDrawings
      BY <3>1, MenuRows, MenuFits
    <3>2. CASE \E place \in Places : drawings' = GameDrawings(place)
      BY <3>2, GameFits
    <3> QED
      BY <1>4, <3>1, <3>2 DEF Draw
  <2>2. [i \in TargetIndex |-> Image(drawings')[i]] = Picture(drawings')
    BY <2>1, ImageIsPicture
  <2>3. renderTargets' = [renderTargets EXCEPT ![currentRenderTargetIndex] = Picture(drawings')]
    BY <1>4, <2>2 DEF Draw, DrawImage
  <2>4. UNCHANGED <<currentRenderTargetIndex, activeBuffer, shown>>
    BY <1>4 DEF Draw, DrawImage
  <2>5. Picture(drawings)' = Picture(drawings')
    BY DEF Picture, Seen, Covers
  <2> QED
    BY <2>3, <2>4, <2>5 DEF ShowInv
<1>5. CASE Present
  BY <1>5 DEF Present, PresentImage, ShowInv
<1>6. CASE UNCHANGED gameLoopVars
  <2>1. /\ UNCHANGED <<renderTargets, currentRenderTargetIndex, activeBuffer>>
        /\ UNCHANGED <<phase, shown, drawings>>
    BY <1>6 DEF gameLoopVars
  <2>2. Picture(drawings)' = Picture(drawings)
    BY <2>1 DEF Picture, Seen, Covers
  <2> QED
    BY <2>1, <2>2 DEF ShowInv
<1> QED
  BY <1>1, <1>2, <1>3, <1>4, <1>5, <1>6 DEF GameLoopNext, LoopThread

LEMMA InitShowInv == GameLoopInit => ShowInv
<1> SUFFICES ASSUME GameLoopInit PROVE ShowInv
    OBVIOUS
<1>1. /\ renderTargets = [t \in 0..1 |-> [i \in TargetIndex |-> Blank]]
      /\ activeBuffer = 0 /\ currentRenderTargetIndex = 1
      /\ shown = Picture(<<>>) /\ phase = "wait"
  BY DEF GameLoopInit, ScreenInit
<1>2. 0..1 = {0, 1}
  OBVIOUS
<1> QED
  BY <1>1, <1>2, EmptyPicture DEF ShowInv

\* Whatever maps and menus are drawn one after the other, the screen shows the
\* last frame that was presented and nothing else (ClearImageBuffer, Draw and
\* Present in Engine.cpp).
THEOREM ShowsLastFrameAlways == GameLoopSpec => []ShowsLastFrame
<1>1. ShowInv => ShowsLastFrame
  BY DEF ShowInv, ShowsLastFrame, Shows
<1> QED
  BY <1>1, InitShowInv, NextShowInv, PTL DEF GameLoopSpec

-----------------------------------------------------------------------------
(***************************************************************************)
(* What the menu marks.                                                    *)
(***************************************************************************)

\* The menu is the first level and shows its items as its index has them;
\* whoever moves the index draws them again before the next key is read.
MenuInv ==
    /\ currentIndex \in {0, 1}
    /\ mainLevel = NoLevel => shown = Picture(<<>>)
    /\ pendingLevel = Menu => mainLevel \in {NoLevel, Menu}
    /\ phase \in {"wait", "update"} /\ mainLevel = Menu =>
          shown \in {Picture(<<>>), Picture(MenuDrawings)}
    /\ phase = "present" /\ mainLevel = Menu => drawings = MenuDrawings

LEMMA PictureUnchanged ==
    currentIndex' = currentIndex =>
      /\ MenuDrawings' = MenuDrawings
      /\ Picture(<<>>)' = Picture(<<>>)
      /\ Picture(MenuDrawings)' = Picture(MenuDrawings)
<1> SUFFICES ASSUME currentIndex' = currentIndex
             PROVE  /\ MenuDrawings' = MenuDrawings
                    /\ Picture(<<>>)' = Picture(<<>>)
                    /\ Picture(MenuDrawings)' = Picture(MenuDrawings)
    OBVIOUS
<1>1. MenuDrawings' = MenuDrawings
  BY DEF MenuDrawings, ItemText
<1>2. Picture(<<>>)' = Picture(<<>>)
  BY DEF Picture, Seen, Covers
<1>3. Picture(MenuDrawings)' = Picture(MenuDrawings')
  BY DEF Picture, Seen, Covers
<1> QED
  BY <1>1, <1>2, <1>3

LEMMA InitMenuInv == GameLoopInit => MenuInv
BY DEF GameLoopInit, Init, MenuInv, NoLevel, Menu

LEMMA NextMenuInv ==
    MenuInv /\ ChangeInv /\ QuitInv /\ [GameLoopNext]_gameLoopVars => MenuInv'
<1> SUFFICES ASSUME MenuInv, ChangeInv, QuitInv, [GameLoopNext]_gameLoopVars
             PROVE  MenuInv'
    OBVIOUS
<1>0. /\ phase # "wait" => loop = "frame"
      /\ loop = "frame" => mainLevel # NoLevel
      /\ pendingLevel = mainLevel => loop = "clear"
      /\ loop \in {"delete", "assign"} => pendingLevel # NoLevel
      /\ loop \in {"clear", "reset"} => mainLevel # NoLevel
      /\ entered \in Nat
  BY DEF QuitInv, ChangeInv, LoopHasLevel, MainIsOlder, TypeOK
<1> USE <1>0, PictureUnchanged DEF frameVars
<1>1. CASE Test \/ NoFrame
  BY <1>1 DEF Test, TestChange, NoFrame, Frame, MenuInv
<1>2. CASE Leave
  BY <1>2 DEF Leave, LeaveLoop, MenuInv
<1>3. CASE Change
  BY <1>3 DEF Change, DeleteLevel, ClearPending, ResetRequest, MenuInv, NoLevel, Menu
<1>4. CASE ChangeMain
  <2>1. /\ loop = "assign" /\ mainLevel' = pendingLevel /\ pendingLevel' = pendingLevel
        /\ currentIndex' = 0 /\ phase = "wait" /\ phase' = "wait" /\ shown' = shown
        /\ mainLevel' # NoLevel
    BY <1>4 DEF ChangeMain, AssignLevel
  <2>2. mainLevel' = Menu => shown = Picture(<<>>)
    BY <2>1 DEF MenuInv
  <2>3. Picture(<<>>)' = Picture(<<>>)
    BY DEF Picture, Seen, Covers
  <2> QED
    BY <2>1, <2>2, <2>3 DEF MenuInv
<1>5. CASE ProcessAndCheckInput
  <2>1. /\ phase = "wait" /\ phase' = "update"
        /\ UNCHANGED <<mainLevel, pendingLevel, currentIndex, shown>>
    BY <1>5 DEF ProcessAndCheckInput, vars
  <2> QED
    BY <2>1 DEF MenuInv
<1>6. CASE UpdateMenu
  <2>1. /\ mainLevel = Menu /\ phase' = "draw" /\ currentIndex' = IndexAfter
        /\ UNCHANGED <<mainLevel, pendingLevel>>
    BY <1>6 DEF UpdateMenu, PressReturn, vars
  <2>2. IndexAfter \in {0, 1}
    BY MenuLength DEF MenuInv, IndexAfter
  <2> QED
    BY <2>1, <2>2 DEF MenuInv, NoLevel, Menu
<1>7. CASE UpdateGame
  BY <1>7 DEF UpdateGame, vars, MenuInv
<1>8. CASE Draw
  BY <1>8 DEF Draw, vars, MenuInv
<1>9. CASE Present
  <2>1. /\ phase = "present" /\ phase' = "wait" /\ loop = "frame"
        /\ UNCHANGED <<mainLevel, pendingLevel, currentIndex>>
        /\ shown' = Picture(drawings)
    BY <1>9 DEF Present, Frame
  <2> QED
    BY <2>1 DEF MenuInv
<1>10. CASE CloseConsole
  BY <1>10 DEF CloseConsole, vars, MenuInv
<1>11. CASE ReceiveThread
  <2>1. /\ UNCHANGED <<mainLevel, phase, currentIndex, shown, drawings>>
        /\ pendingLevel' \in {pendingLevel, entered + 2}
    BY <1>11 DEF ReceiveThread, ReceiverStep, RequestChange, UseLevel, Arrival,
                 EnterRespond, CreateRespond, StateOrPath, loopVars
  <2>2. entered + 2 # Menu
    BY DEF Menu
  <2> QED
    BY <2>1, <2>2 DEF MenuInv
<1>12. CASE UNCHANGED gameLoopVars
  BY <1>12 DEF gameLoopVars, vars, MenuInv
<1> QED
  BY <1>1, <1>2, <1>3, <1>4, <1>5, <1>6, <1>7, <1>8, <1>9, <1>10, <1>11, <1>12
  DEF GameLoopNext, LoopThread

\* In the picture of the menu an item stands in the row it is drawn to.
LEMMA ItemIsSeen ==
    ASSUME NEW i \in 0..1
    PROVE  /\ (i + 2) * ScreenWidth + 0 \in TargetIndex
           /\ Picture(MenuDrawings)[(i + 2) * ScreenWidth + 0] = ItemText(i)
<1> DEFINE cell == (i + 2) * ScreenWidth + 0
           covering == { k \in DOMAIN MenuDrawings : Covers(MenuDrawings[k], 0, i + 2) }
<1>1. ScreenWidth \in Nat \ {0} /\ ScreenHeight \in Nat /\ ScreenHeight >= 4
  BY ScreenAssumption, PicturesFit
<1>2. cell \in TargetIndex
  <2>1. (i + 2) * ScreenWidth + ScreenWidth <= ScreenHeight * ScreenWidth
    BY <1>1, RowsApart
  <2>2. ScreenHeight * ScreenWidth = ScreenWidth * ScreenHeight
    BY <1>1
  <2>3. (i + 2) * ScreenWidth \in Nat /\ ScreenWidth * ScreenHeight \in Nat
    BY <1>1
  <2> QED
    BY <1>1, <2>1, <2>2, <2>3 DEF TargetIndex
<1>3. cell \div ScreenWidth = i + 2 /\ cell % ScreenWidth = 0
  BY <1>1, QuotientOf
<1>4. /\ MenuDrawings[i + 2].position.x = 0 /\ MenuDrawings[i + 2].position.y = i + 2
      /\ MenuDrawings[i + 2].rows = << <<ItemText(i)>> >>
  BY MenuRows DEF Drawing
<1>5. covering = {i + 2}
  <2>1. Covers(MenuDrawings[i + 2], 0, i + 2)
    BY <1>4 DEF Covers
  <2>2. ASSUME NEW k \in 1..3, k # i + 2 PROVE ~ Covers(MenuDrawings[k], 0, i + 2)
    <3>1. MenuDrawings[k].position.y # i + 2 /\ MenuDrawings[k].position.y \in Nat
      BY <2>2, MenuRows DEF Drawing
    <3>2. \A r : r \in DOMAIN MenuDrawings[k].rows => r = 1
      BY <2>2, MenuRows DEF Drawing
    <3> QED
      BY <3>1, <3>2 DEF Covers
  <2> QED
    BY <2>1, <2>2, MenuRows
<1>6. (CHOOSE k \in covering : \A l \in covering : l <= k) = i + 2
  BY <1>5
<1>7. Seen(MenuDrawings, 0, i + 2) =
        MenuDrawings[i + 2].rows[(i + 2) - (i + 2) + 1][0 - 0 + 1]
  BY <1>4, <1>5, <1>6 DEF Seen
<1>8. Seen(MenuDrawings, 0, i + 2) = ItemText(i)
  BY <1>4, <1>7
<1> QED
  BY <1>2, <1>3, <1>8 DEF Picture

\* What is picked is what the index is at, and that the screen marks unless an
\* arrow of the same frame has moved on.
LEMMA StepPicks ==
    MenuInv /\ ShowInv /\ ChangeInv /\ QuitInv /\ KeysInv /\ [GameLoopNext]_gameLoopVars =>
      [ phase = "update" /\ shown # Picture(<<>>) =>
          /\ presses' # presses => Marks(IF MovedOn THEN "QUIT" ELSE "START")
          /\ quit' # quit /\ phase' # phase =>
                Marks(IF MovedOn THEN "START" ELSE "QUIT") ]_gameLoopVars
<1> SUFFICES ASSUME MenuInv, ShowInv, ChangeInv, QuitInv, KeysInv, GameLoopNext,
                    phase = "update", shown # Picture(<<>>)
             PROVE  /\ presses' # presses => Marks(IF MovedOn THEN "QUIT" ELSE "START")
                    /\ quit' # quit /\ phase' # phase =>
                          Marks(IF MovedOn THEN "START" ELSE "QUIT")
    OBVIOUS
<1>0. loop = "frame"
  BY DEF QuitInv
<1>1. CASE UpdateMenu
  <2>1. mainLevel = Menu
    BY <1>1 DEF UpdateMenu
  <2>2. renderTargets[activeBuffer] = Picture(MenuDrawings) /\ currentIndex \in {0, 1}
    BY <2>1 DEF MenuInv, ShowInv
  <2>3. IndexAfter = IF MovedOn THEN 1 - currentIndex ELSE currentIndex
    <3>1. CASE KeyDown("UP") /\ KeyDown("DOWN")
      <4>1. ~ MovedOn
        BY <3>1 DEF MovedOn, KeyDown
      <4>2. IndexAfter = currentIndex
        BY <2>2, <3>1, MenuLength DEF IndexAfter
      <4> QED
        BY <4>1, <4>2
    <3>2. CASE KeyDown("UP") /\ ~ KeyDown("DOWN")
      BY <2>2, <3>2, MenuLength DEF IndexAfter, MovedOn
    <3>3. CASE ~ KeyDown("UP") /\ KeyDown("DOWN")
      BY <2>2, <3>3, MenuLength DEF IndexAfter, MovedOn
    <3>4. CASE ~ KeyDown("UP") /\ ~ KeyDown("DOWN")
      <4>1. ~ MovedOn
        BY <3>4 DEF MovedOn, KeyDown
      <4>2. IndexAfter = currentIndex
        BY <2>2, <3>4, MenuLength DEF IndexAfter
      <4> QED
        BY <4>1, <4>2
    <3> QED
      BY <3>1, <3>2, <3>3, <3>4
  <2>4. ASSUME NEW i \in 0..1, NEW item, ItemText(i) = item
        PROVE  Marks(item)
    <3>1. 0 \in 0..(ScreenWidth - 1) /\ i + 2 \in 0..(ScreenHeight - 1)
      BY ScreenAssumption, PicturesFit
    <3>2. renderTargets[activeBuffer][(i + 2) * ScreenWidth + 0] = item
      BY <2>2, <2>4, ItemIsSeen
    <3> QED
      BY <3>1, <3>2 DEF Marks
  <2>5. ASSUME currentIndex = 0 PROVE Marks("START")
    <3>1. ItemText(0) = "START"
      BY <2>5 DEF ItemText, SelectedItems
    <3> QED
      BY <2>4, <3>1
  <2>6. ASSUME currentIndex = 1 PROVE Marks("QUIT")
    <3>1. ItemText(1) = "QUIT"
      BY <2>6 DEF ItemText, SelectedItems
    <3> QED
      BY <2>4, <3>1
  <2>9. ASSUME Selects("start") PROVE Marks(IF MovedOn THEN "QUIT" ELSE "START")
    <3>1. IndexAfter = 0
      BY <2>2, <2>3, <2>9 DEF Selects, MenuItems
    <3>2. currentIndex = IF MovedOn THEN 1 ELSE 0
      BY <2>2, <2>3, <3>1
    <3> QED
      BY <2>5, <2>6, <3>2
  <2>10. ASSUME Selects("quit") PROVE Marks(IF MovedOn THEN "START" ELSE "QUIT")
    <3>1. IndexAfter = 1
      BY <2>2, <2>3, <2>10 DEF Selects, MenuItems
    <3>2. currentIndex = IF MovedOn THEN 0 ELSE 1
      BY <2>2, <2>3, <3>1
    <3> QED
      BY <2>5, <2>6, <3>2
  <2>7. presses' # presses => Selects("start")
    BY <1>1 DEF UpdateMenu, vars
  <2>8. quit' # quit => Selects("quit")
    BY <1>1 DEF UpdateMenu, vars
  <2> QED
    BY <2>7, <2>8, <2>9, <2>10
<1>2. CASE UpdateGame
  BY <1>2 DEF UpdateGame, vars
<1>3. CASE CloseConsole
  BY <1>3 DEF CloseConsole, vars
<1>4. CASE ReceiveThread
  BY <1>4 DEF ReceiveThread, ReceiverStep, RequestChange, UseLevel, Arrival, EnterRespond,
              CreateRespond, StateOrPath, loopVars, frameVars
<1>5. CASE Test \/ Leave \/ Change \/ ChangeMain
  BY <1>0, <1>5 DEF Test, TestChange, Leave, LeaveLoop, Change, DeleteLevel, ClearPending,
                    ResetRequest, ChangeMain, AssignLevel
<1>6. CASE NoFrame \/ ProcessAndCheckInput \/ Draw \/ Present
  BY <1>6 DEF NoFrame, ProcessAndCheckInput, Draw, Present
<1> QED
  BY <1>1, <1>2, <1>3, <1>4, <1>5, <1>6 DEF GameLoopNext, LoopThread

\* The return key picks what the screen marks, or what an arrow of the same frame
\* has moved on to, whatever was pressed before and however the levels change
\* meanwhile (MenuLevel::Update and Draw, and the order of a frame in Engine::Run).
THEOREM PicksWhatIsMarkedAlways == GameLoopSpec => PicksWhatIsMarked
<1>1. GameLoopInit => MenuInv /\ ShowInv /\ QuitInv /\ KeysInv
  <2>1. GameLoopInit => QuitInv
    BY DEF GameLoopInit, QuitInv
  <2>2. GameLoopInit => KeysInv
    BY DEF GameLoopInit, KeysInv
  <2> QED
    BY <2>1, <2>2, InitMenuInv, InitShowInv
<1>2. MenuInv /\ ShowInv /\ ChangeInv /\ QuitInv /\ KeysInv /\ [GameLoopNext]_gameLoopVars
        => (MenuInv /\ ShowInv /\ QuitInv /\ KeysInv)'
  BY NextMenuInv, NextShowInv, NextQuitInv, NextKeysInv
<1> QED
  BY <1>1, <1>2, FramesKeepChangeInv, StepPicks, PTL DEF GameLoopSpec, PicksWhatIsMarked
=============================================================================
