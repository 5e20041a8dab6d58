--------------------------- MODULE GameLevelProofs ---------------------------
(***************************************************************************)
(* The invariants of GameLevel, and of the walking in PathTracking, for    *)
(* every map, every number of players and every path finder that answers   *)
(* with routes.                                                            *)
(***************************************************************************)
EXTENDS PathTracking, TLAPS, SequenceTheorems, FiniteSetTheorems

-----------------------------------------------------------------------------
(***************************************************************************)
(* Sequences.                                                              *)
(***************************************************************************)

\* A function on 1..n with values in S is a sequence of length n.
LEMMA FunctionIsSeq ==
    ASSUME NEW S, NEW n \in Nat, NEW f \in [1..n -> S]
    PROVE  f \in Seq(S) /\ Len(f) = n
  BY SeqDef, LenProperties

\* Erasing an index shortens a sequence by one and shifts what is behind it.
LEMMA RemoveAtProperties ==
    ASSUME NEW S, NEW s \in Seq(S), NEW k \in 1..Len(s)
    PROVE  /\ RemoveAt(s, k) \in Seq(S)
           /\ Len(RemoveAt(s, k)) = Len(s) - 1
           /\ \A i \in 1..(Len(s) - 1) :
                 RemoveAt(s, k)[i] = IF i < k THEN s[i] ELSE s[i + 1]
PROOF
  <1> DEFINE front == SubSeq(s, 1, k - 1)
             back  == SubSeq(s, k + 1, Len(s))
  <1>0. Len(s) \in Nat /\ k \in Nat /\ 1 <= k /\ k <= Len(s)
    BY LenProperties
  <1>1. /\ front \in Seq(S)
        /\ Len(front) = k - 1
        /\ \A i \in 1..(k - 1) : front[i] = s[i]
    <2>1. \A i \in 1..(k - 1) : s[i] \in S
      BY <1>0, ElementOfSeq
    <2> QED
      BY <2>1, <1>0, SubSeqProperties
  <1>2. /\ back \in Seq(S)
        /\ Len(back) = Len(s) - k
        /\ \A i \in 1..(Len(s) - k) : back[i] = s[i + k]
    <2>1. \A i \in (k + 1)..Len(s) : s[i] \in S
      BY <1>0, ElementOfSeq
    <2> QED
      BY <2>1, <1>0, SubSeqProperties
  <1>3. RemoveAt(s, k) = front \o back
    BY DEF RemoveAt
  <1> HIDE DEF front, back
  <1>4. /\ front \o back \in Seq(S)
        /\ Len(front \o back) = Len(front) + Len(back)
        /\ \A i \in 1..(Len(front) + Len(back)) :
              (front \o back)[i] =
                IF i <= Len(front) THEN front[i] ELSE back[i - Len(front)]
    BY <1>1, <1>2, ConcatProperties
  <1>5. ASSUME NEW i \in 1..(Len(s) - 1)
        PROVE  (front \o back)[i] = IF i < k THEN s[i] ELSE s[i + 1]
    <2>1. CASE i < k
      BY <2>1, <1>0, <1>1, <1>2, <1>4
    <2>2. CASE ~ (i < k)
      <3>1. i - (k - 1) \in 1..(Len(s) - k) /\ i - (k - 1) + k = i + 1
        BY <2>2, <1>0
      <3>2. (front \o back)[i] = back[i - (k - 1)]
        BY <2>2, <1>0, <1>1, <1>2, <1>4
      <3> QED
        BY <3>1, <3>2, <2>2, <1>2
    <2> QED
      BY <2>1, <2>2
  <1> QED
    BY <1>0, <1>1, <1>2, <1>3, <1>4, <1>5

-----------------------------------------------------------------------------
(***************************************************************************)
(* What one action does to the vector of players, index by index.          *)
(***************************************************************************)

LEMMA CreatePlayerProperties ==
    ASSUME TypeOK, NEW position \in EmptyCells, CreatePlayer(position)
    PROVE  /\ players' \in Seq(Player)
           /\ Len(players') = Len(players) + 1
           /\ \A i \in 1..Len(players) : players'[i] = players[i]
           /\ players'[Len(players) + 1].id = playerCount + 1
           /\ players'[Len(players) + 1].isSeeker = (~ isSeekerSet)
           /\ players'[Len(players) + 1].position = position
PROOF
  <1> DEFINE new == [id       |-> playerCount + 1,
                     position |-> position,
                     isSeeker |-> ~ isSeekerSet]
  <1>1. position \in Position
    BY GridAssumption, LevelAssumption DEF Floor, Cell, Position
  <1>2. playerCount + 1 \in Ids /\ (~ isSeekerSet) \in BOOLEAN
    BY LevelAssumption DEF TypeOK, CreatePlayer, NewPlayer, Ids
  <1>3. new \in Player
    BY <1>1, <1>2 DEF Player
  <1>4. players' = Append(players, new) /\ players \in Seq(Player)
    BY DEF CreatePlayer, NewPlayer, TypeOK
  <1>5. /\ new.id = playerCount + 1
        /\ new.isSeeker = (~ isSeekerSet)
        /\ new.position = position
    OBVIOUS
  <1> HIDE DEF new
  <1> QED
    BY <1>3, <1>4, <1>5, AppendProperties

LEMMA KeyInputProperties ==
    ASSUME TypeOK, NEW k \in Ids, NEW direction \in Direction,
           KeyInput(k, direction)
    PROVE  /\ players' \in Seq(Player)
           /\ Len(players') = Len(players)
           /\ \A i \in 1..Len(players) :
                 /\ players'[i].id = players[i].id
                 /\ players'[i].isSeeker = players[i].isSeeker
                 /\ i # k => players'[i] = players[i]
           /\ k \in 1..Len(players)
           /\ players'[k].position = Moved(players[k].position, direction)
PROOF
  <1> DEFINE moved == Moved(players[k].position, direction)
             new   == [players[k] EXCEPT !.position = moved]
  <1>1. players \in Seq(Player) /\ k \in 1..Len(players)
    BY LenProperties DEF TypeOK, KeyInput, Ids
  <1>2. players[k] \in Player /\ moved \in Position
    BY <1>1, ElementOfSeq DEF KeyInput
  <1>3. players' = [players EXCEPT ![k] = new]
    BY <1>1 DEF KeyInput
  <1> HIDE DEF moved
  <1>4. /\ new \in Player
        /\ new.id = players[k].id
        /\ new.isSeeker = players[k].isSeeker
        /\ new.position = moved
    BY <1>2 DEF Player
  <1> HIDE DEF new
  <1>5. /\ players' \in Seq(Player)
        /\ Len(players') = Len(players)
        /\ \A i \in 1..Len(players) :
              players'[i] = IF i = k THEN new ELSE players[i]
    BY <1>1, <1>3, <1>4, ExceptSeq
  <1> QED
    BY <1>1, <1>4, <1>5 DEF moved

LEMMA ExitRequestProperties ==
    ASSUME TypeOK, NEW k \in Ids, ExitRequest(k), k <= Len(players)
    PROVE  /\ k \in 1..Len(players)
           /\ players' \in Seq(Player)
           /\ Len(players') = Len(players) - 1
           /\ \A i \in 1..(Len(players) - 1) :
                 players'[i] = IF i < k THEN players[i] ELSE players[i + 1]
PROOF
  <1>1. players \in Seq(Player) /\ k \in 1..Len(players)
    BY LenProperties DEF TypeOK, Ids
  <1>2. players' = RemoveAt(players, k)
    BY DEF ExitRequest, Removed
  <1> QED
    BY <1>1, <1>2, RemoveAtProperties

LEMMA SynchronizeProperties ==
    ASSUME TypeOK, Synchronize
    PROVE  /\ players' \in Seq(Player)
           /\ Len(players') = Len(players)
           /\ \A i \in 1..Len(players) :
                 /\ players'[i].id = players[i].id
                 /\ players'[i].position =
                       IF allPlayersPath[players[i].id] = <<>>
                       THEN players[i].position
                       ELSE Head(allPlayersPath[players[i].id])
                 /\ players'[i].isSeeker <=>
                       \E s \in 1..Len(players) :
                          /\ players[s].isSeeker
                          /\ players'[s].position = players'[i].position
PROOF
  <1> DEFINE n == Len(players)
  <1>1. /\ players \in Seq(Player)
        /\ n \in Nat
        /\ DOMAIN players = 1..n
    BY LenProperties DEF TypeOK
  <1>2. \A i \in 1..n : players[i] \in Player
    BY <1>1, ElementOfSeq
  <1>3. ASSUME NEW i \in 1..n
        PROVE  /\ Stepped[i] \in Player
               /\ Stepped[i].id = players[i].id
               /\ Stepped[i].isSeeker = players[i].isSeeker
               /\ Stepped[i].position =
                     IF allPlayersPath[players[i].id] = <<>>
                     THEN players[i].position
                     ELSE Head(allPlayersPath[players[i].id])
    <2> DEFINE path == allPlayersPath[players[i].id]
    <2>1. players[i] \in Player /\ path \in Seq(Floor)
      BY <1>2 DEF TypeOK, Player
    <2>2. CASE path = <<>>
      BY <2>1, <2>2, <1>1 DEF Stepped
    <2>3. CASE path # <<>>
      <3>1. Head(path) \in Floor
        BY <2>1, <2>3, HeadTailProperties
      <3>2. Head(path) \in Position
        BY <3>1, GridAssumption DEF Floor, Cell, Position
      <3>3. Stepped[i] = [players[i] EXCEPT !.position = Head(path)]
        BY <2>3, <1>1 DEF Stepped
      <3> HIDE DEF path
      <3> QED
        BY <2>1, <2>3, <3>2, <3>3 DEF Player, path
    <2> QED
      BY <2>2, <2>3
  <1>4. DOMAIN Stepped = 1..n
    BY <1>1 DEF Stepped
  <1> DEFINE tagged == Tagged(Stepped)
  <1>5. ASSUME NEW j \in 1..n
        PROVE  /\ tagged[j] \in Player
               /\ tagged[j].id = Stepped[j].id
               /\ tagged[j].position = Stepped[j].position
               /\ tagged[j].isSeeker =
                    \E i \in 1..n : /\ Stepped[i].isSeeker
                                    /\ Stepped[i].position = Stepped[j].position
    <2> DEFINE flag == \E i \in 1..n : /\ Stepped[i].isSeeker
                                       /\ Stepped[i].position = Stepped[j].position
    <2>1. tagged[j] = [Stepped[j] EXCEPT !.isSeeker = flag]
      BY <1>4 DEF Tagged
    <2>2. flag \in BOOLEAN /\ Stepped[j] \in Player
      BY <1>3
    <2> HIDE DEF flag, tagged
    <2>3. /\ tagged[j] \in Player
          /\ tagged[j].id = Stepped[j].id
          /\ tagged[j].position = Stepped[j].position
          /\ tagged[j].isSeeker = flag
      BY <2>1, <2>2 DEF Player
    <2> QED
      BY <2>3 DEF flag
  <1>6. DOMAIN tagged = 1..n /\ tagged = [j \in 1..n |-> tagged[j]]
    BY <1>4 DEF Tagged
  <1>7. players' = tagged
    BY DEF Synchronize
  <1> HIDE DEF tagged, n
  <1>8. tagged \in [1..n -> Player]
    BY <1>5, <1>6
  <1>9. players' \in Seq(Player) /\ Len(players') = n
    BY <1>1, <1>7, <1>8, FunctionIsSeq
  <1>10. ASSUME NEW j \in 1..n
         PROVE  /\ players'[j].id = players[j].id
                /\ players'[j].position =
                      IF allPlayersPath[players[j].id] = <<>>
                      THEN players[j].position
                      ELSE Head(allPlayersPath[players[j].id])
    BY <1>3, <1>5, <1>7
  <1>11. ASSUME NEW j \in 1..n
         PROVE  players'[j].isSeeker <=>
                   \E i \in 1..n : /\ players[i].isSeeker
                                  /\ players'[i].position = players'[j].position
    <2>1. \A i \in 1..n : /\ tagged[i].position = Stepped[i].position
                          /\ Stepped[i].isSeeker = players[i].isSeeker
      BY <1>3, <1>5
    <2>2. tagged[j].isSeeker =
             \E i \in 1..n : /\ Stepped[i].isSeeker
                             /\ Stepped[i].position = Stepped[j].position
      BY <1>5
    <2> QED
      BY <1>7, <2>1, <2>2
  <1> QED
    BY <1>9, <1>10, <1>11 DEF n

\* The answer of the path finder is a sequence of floor cells.
LEMMA PathsAreTyped ==
    ASSUME TypeOK, NEW k \in Ids, NEW end \in Clicks, MouseInput(k, end)
    PROVE  allPlayersPath' \in [Ids -> Seq(Floor)]
PROOF
  <1>1. CASE k <= Len(players)
    <2>1. players[k].position \in Position
      <3>1. k \in 1..Len(players)
        BY <1>1, LenProperties DEF TypeOK, Ids
      <3>2. players \in Seq(Player)
        BY DEF TypeOK
      <3>3. players[k] \in Player
        BY <3>1, <3>2, ElementOfSeq
      <3> QED
        BY <3>3 DEF Player
    <2>2. \A route \in FindPathAnswers(players[k].position, end) :
             route \in Seq(Floor)
      BY <2>1, FindPathAssumption DEF IsRoute
    <2> QED
      BY <1>1, <2>2 DEF MouseInput, TypeOK
  <1>2. CASE ~ (k <= Len(players))
    BY <1>2 DEF MouseInput, Crash, TypeOK
  <1> QED
    BY <1>1, <1>2

LEMMA PathsAfterStepTyped ==
    ASSUME TypeOK
    PROVE  PathsAfterStep \in [Ids -> Seq(Floor)]
PROOF
  <1>1. \A k \in Ids : allPlayersPath[k] \in Seq(Floor)
    BY DEF TypeOK
  <1>2. \A k \in Ids : allPlayersPath[k] # <<>> => Tail(allPlayersPath[k]) \in Seq(Floor)
    BY <1>1, HeadTailProperties
  <1> QED
    BY <1>1, <1>2 DEF PathsAfterStep

-----------------------------------------------------------------------------
(***************************************************************************)
(* Type correctness.                                                       *)
(***************************************************************************)

LEMMA InitTyped == Init => TypeOK
PROOF
  <1>1. <<>> \in Seq(Player) /\ <<>> \in Seq(Floor)
    BY EmptySeq
  <1>2. 0 \in 0..MaxPlayers
    BY LevelAssumption
  <1> QED
    BY <1>1, <1>2 DEF Init, TypeOK

LEMMA NextTyped == TypeOK /\ [Next]_vars => TypeOK'
PROOF
  <1> SUFFICES ASSUME TypeOK, [Next]_vars
               PROVE  TypeOK'
    OBVIOUS
  <1>1. ASSUME NEW position \in EmptyCells, CreatePlayer(position)
        PROVE  TypeOK'
    <2>1. players' \in Seq(Player)
      BY <1>1, CreatePlayerProperties
    <2>2. playerCount' \in 0..MaxPlayers
      BY <1>1, LevelAssumption DEF TypeOK, CreatePlayer, NewPlayer
    <2> QED
      BY <1>1, <2>1, <2>2 DEF TypeOK, CreatePlayer, NewPlayer
  <1>2. ASSUME NEW k \in Ids, NEW direction \in Direction, KeyInput(k, direction)
        PROVE  TypeOK'
    <2>1. players' \in Seq(Player)
      BY <1>2, KeyInputProperties
    <2> QED
      BY <1>2, <2>1 DEF TypeOK, KeyInput
  <1>3. ASSUME NEW k \in Ids, NEW end \in Clicks, MouseInput(k, end)
        PROVE  TypeOK'
    <2>1. allPlayersPath' \in [Ids -> Seq(Floor)]
      BY <1>3, PathsAreTyped
    <2> QED
      BY <1>3, <2>1 DEF TypeOK, MouseInput, Crash
  <1>4. ASSUME NEW k \in Ids, ExitRequest(k)
        PROVE  TypeOK'
    <2>1. players' \in Seq(Player)
      BY <1>4, ExitRequestProperties DEF ExitRequest, Crash, TypeOK
    <2> QED
      BY <1>4, <2>1 DEF TypeOK, ExitRequest, Crash
  <1>5. CASE ExitRequestWithoutId
    BY <1>5 DEF TypeOK, ExitRequestWithoutId, Crash
  <1>6. ASSUME NEW ks \in SUBSET Ids, ConnectionLost(ks)
        PROVE  TypeOK'
    BY <1>6 DEF TypeOK, ConnectionLost
  <1>7. CASE Synchronize
    <2>1. players' \in Seq(Player)
      BY <1>7, SynchronizeProperties
    <2>2. allPlayersPath' \in [Ids -> Seq(Floor)]
      BY <1>7, PathsAfterStepTyped DEF Synchronize
    <2> QED
      BY <1>7, <2>1, <2>2 DEF TypeOK, Synchronize
  <1>8. CASE UNCHANGED vars
    BY <1>8 DEF TypeOK, vars
  <1> QED
    BY <1>1, <1>2, <1>3, <1>4, <1>5, <1>6, <1>7, <1>8 DEF Next

\* Every reachable state of the level has the declared types: whatever the
\* requests and whoever leaves, the vector holds players, the paths hold floor
\* cells and the flags stay flags.
THEOREM TypeCorrect == Spec => []TypeOK
  <1>1. Init => TypeOK
    BY InitTyped
  <1>2. TypeOK /\ [Next]_vars => TypeOK'
    BY NextTyped
  <1> QED
    BY <1>1, <1>2, PTL DEF Spec

-----------------------------------------------------------------------------
(***************************************************************************)
(* The order of the players and the seeker.                                *)
(***************************************************************************)

LEMMA InitLevelInv == Init => LevelInv
PROOF
  <1> SUFFICES ASSUME Init
               PROVE  LevelInv
    OBVIOUS
  <1>1. TypeOK
    BY InitTyped
  <1>2. /\ DOMAIN players = {}
        /\ Len(players) = 0
        /\ playerCount = 0
        /\ isSeekerSet = FALSE
    BY DEF Init
  <1>3. Given = {}
    BY <1>2 DEF Given
  <1> QED
    BY <1>1, <1>2, <1>3 DEF LevelInv, IdsIncreasing, IndexIsId, LevelExists

\* The invariant with the domain of the vector spelled out as indices, as a
\* predicate of the parts of the state it reads.
IndexInv(ps, count, seekerSet, status) ==
    /\ \A i \in 1..Len(ps) : ps[i].id \in 1..count
    /\ \A i, j \in 1..Len(ps) : i < j => ps[i].id < ps[j].id
    /\ \A k \in 1..count :
          (\A j \in 1..k : status[j] # "left") => k \in 1..Len(ps) /\ ps[k].id = k
    /\ Len(ps) <= count
    /\ seekerSet <=> count > 0
    /\ \A i \in 1..Len(ps) : ps[i].id = 1 => ps[i].isSeeker

LEMMA LevelInvByIndex ==
    TypeOK => (LevelInv <=> IndexInv(players, playerCount, isSeekerSet, holder))
PROOF
  <1>1. TypeOK => DOMAIN players = 1..Len(players)
    BY LenProperties DEF TypeOK
  <1> QED
    BY <1>1 DEF LevelInv, IndexInv, IdsIncreasing, IndexIsId, LevelExists, Given

LEMMA LevelInvByIndexPrimed ==
    TypeOK' => (LevelInv' <=> IndexInv(players', playerCount', isSeekerSet', holder'))
PROOF
  <1>1. TypeOK' => DOMAIN players' = 1..Len(players')
    BY LenProperties DEF TypeOK
  <1> QED
    BY <1>1 DEF LevelInv, IndexInv, IdsIncreasing, IndexIsId, LevelExists, Given

LEMMA NextLevelInv == LevelInv /\ [Next]_vars => LevelInv'
PROOF
  <1> SUFFICES ASSUME LevelInv, [Next]_vars
               PROVE  LevelInv'
    OBVIOUS
  <1> DEFINE n == Len(players)
  <1>a. TypeOK /\ TypeOK'
    BY NextTyped DEF LevelInv
  <1>b. /\ IndexInv(players, playerCount, isSeekerSet, holder)
        /\ n \in Nat
        /\ playerCount \in Nat
    BY <1>a, LevelInvByIndex, LenProperties, LevelAssumption DEF LevelInv, TypeOK
  <1> SUFFICES IndexInv(players', playerCount', isSeekerSet', holder')
    BY <1>a, LevelInvByIndexPrimed
  <1>1. ASSUME NEW position \in EmptyCells, CreatePlayer(position)
        PROVE  IndexInv(players', playerCount', isSeekerSet', holder')
    <2>1. /\ Len(players') = n + 1
          /\ \A i \in 1..n : players'[i] = players[i]
          /\ players'[n + 1].id = playerCount + 1
          /\ players'[n + 1].isSeeker = (~ isSeekerSet)
      BY <1>a, <1>1, CreatePlayerProperties
    <2>2. /\ playerCount' = playerCount + 1
          /\ isSeekerSet' = TRUE
          /\ \A j \in 1..playerCount : holder'[j] = holder[j]
      BY <1>1, <1>a, <1>b, LevelAssumption DEF CreatePlayer, NewPlayer, TypeOK, Ids
    <2>3. \A i \in 1..Len(players') : players'[i].id \in 1..playerCount'
      BY <1>b, <2>1, <2>2 DEF IndexInv
    <2>4. ASSUME NEW i \in 1..Len(players'), NEW j \in 1..Len(players'), i < j
          PROVE  players'[i].id < players'[j].id
      <3>1. i \in 1..n /\ players'[i] = players[i]
        BY <1>b, <2>1, <2>4
      <3>2. CASE j \in 1..n
        BY <1>b, <2>1, <2>4, <3>1, <3>2 DEF IndexInv
      <3>3. CASE j = n + 1
        <4>1. players[i].id \in 1..playerCount
          BY <1>b, <3>1 DEF IndexInv
        <4> QED
          BY <1>b, <2>1, <3>1, <3>3, <4>1
      <3> QED
        BY <1>b, <2>1, <3>2, <3>3
    <2>5. ASSUME NEW k \in 1..playerCount', \A j \in 1..k : holder'[j] # "left"
          PROVE  k \in 1..Len(players') /\ players'[k].id = k
      <3>1. CASE k \in 1..playerCount
        <4>1. \A j \in 1..k : holder[j] # "left"
          BY <2>2, <2>5, <3>1, <1>b
        <4> QED
          BY <3>1, <4>1, <1>b, <2>1 DEF IndexInv
      <3>2. CASE k = playerCount + 1
        <4>1. \A j \in 1..playerCount : holder[j] # "left"
          BY <2>2, <2>5, <3>2, <1>b
        <4>2. playerCount = n
          <5>1. CASE playerCount = 0
            BY <5>1, <1>b DEF IndexInv
          <5>2. CASE playerCount # 0
            BY <5>2, <4>1, <1>b DEF IndexInv
          <5> QED
            BY <5>1, <5>2
        <4> QED
          BY <3>2, <4>2, <1>b, <2>1
      <3> QED
        BY <3>1, <3>2, <2>2, <1>b
    <2>6. \A i \in 1..Len(players') : players'[i].id = 1 => players'[i].isSeeker
      <3>1. players'[n + 1].id = 1 => players'[n + 1].isSeeker
        <4>1. players'[n + 1].id = 1 => ~ (playerCount > 0)
          BY <1>b, <2>1
        <4>2. ~ (playerCount > 0) => ~ isSeekerSet
          BY <1>b DEF IndexInv
        <4> QED
          BY <2>1, <4>1, <4>2
      <3> QED
        BY <3>1, <1>b, <2>1 DEF IndexInv
    <2> QED
      BY <1>b, <2>1, <2>2, <2>3, <2>4, <2>5, <2>6 DEF IndexInv
  <1>2. ASSUME NEW k \in Ids, NEW direction \in Direction, KeyInput(k, direction)
        PROVE  IndexInv(players', playerCount', isSeekerSet', holder')
    <2>1. /\ Len(players') = n
          /\ \A i \in 1..n : /\ players'[i].id = players[i].id
                             /\ players'[i].isSeeker = players[i].isSeeker
      BY <1>a, <1>2, KeyInputProperties
    <2>2. UNCHANGED <<playerCount, isSeekerSet, holder>>
      BY <1>2 DEF KeyInput
    <2> QED
      BY <1>b, <2>1, <2>2 DEF IndexInv
  <1>3. ASSUME NEW k \in Ids, NEW end \in Clicks, MouseInput(k, end)
        PROVE  IndexInv(players', playerCount', isSeekerSet', holder')
    BY <1>b, <1>3 DEF MouseInput, Crash
  <1>4. ASSUME NEW k \in Ids, ExitRequest(k)
        PROVE  IndexInv(players', playerCount', isSeekerSet', holder')
    <2>1. /\ k \in 1..playerCount
          /\ UNCHANGED <<playerCount, isSeekerSet>>
          /\ holder'[k] = "left"
          /\ \A j \in Ids : holder'[j] # "left" => holder[j] # "left"
      BY <1>4, <1>a DEF ExitRequest, Crash, Given, TypeOK
    <2>2. playerCount <= MaxPlayers
      BY <1>a, LevelAssumption DEF TypeOK
    <2>3. ASSUME NEW j \in 1..playerCount, \A i \in 1..j : holder'[i] # "left"
          PROVE  /\ j < k
                 /\ j \in 1..n
                 /\ players[j].id = j
      <3>1. j < k
        BY <2>1, <2>3, <1>b
      <3>2. \A i \in 1..j : holder[i] # "left"
        BY <2>1, <2>2, <2>3, <1>b, LevelAssumption DEF Ids
      <3> QED
        BY <3>1, <3>2, <1>b DEF IndexInv
    <2>4. CASE k <= n
      <3>1. /\ Len(players') = n - 1
            /\ k \in 1..n
            /\ \A i \in 1..(n - 1) :
                  players'[i] = IF i < k THEN players[i] ELSE players[i + 1]
        BY <1>a, <1>4, <2>4, ExitRequestProperties
      <3>2. \A i \in 1..Len(players') : players'[i].id \in 1..playerCount'
        <4>1. \A i \in 1..n : players[i].id \in 1..playerCount
          BY <1>b DEF IndexInv
        <4> TAKE i \in 1..Len(players')
        <4>2. i \in 1..(n - 1) /\ i \in 1..n /\ i + 1 \in 1..n
          BY <1>b, <3>1
        <4> QED
          BY <2>1, <3>1, <4>1, <4>2
      <3>3. ASSUME NEW i \in 1..Len(players'), NEW j \in 1..Len(players'), i < j
            PROVE  players'[i].id < players'[j].id
        <4> DEFINE old(a) == IF a < k THEN a ELSE a + 1
        <4>1. old(i) \in 1..n /\ old(j) \in 1..n /\ old(i) < old(j)
          BY <3>1, <3>3, <1>b
        <4>2. players'[i] = players[old(i)] /\ players'[j] = players[old(j)]
          BY <3>1, <1>b
        <4> HIDE DEF old
        <4> QED
          BY <4>1, <4>2, <1>b DEF IndexInv
      <3>4. \A j \in 1..playerCount' :
               (\A i \in 1..j : holder'[i] # "left")
                  => j \in 1..Len(players') /\ players'[j].id = j
        BY <2>1, <2>3, <3>1, <1>b
      <3>5. ASSUME NEW i \in 1..Len(players'), players'[i].id = 1
            PROVE  players'[i].isSeeker
        <4>1. PICK j \in 1..n : players'[i] = players[j]
          BY <3>1, <1>b
        <4> QED
          BY <3>5, <4>1, <1>b DEF IndexInv
      <3> QED
        BY <1>b, <2>1, <3>1, <3>2, <3>3, <3>4, <3>5 DEF IndexInv
    <2>5. CASE ~ (k <= n)
      <3>1. players' = players
        BY <1>4, <2>5 DEF ExitRequest, Crash
      <3>2. \A j \in 1..playerCount' :
               (\A i \in 1..j : holder'[i] # "left")
                  => j \in 1..Len(players') /\ players'[j].id = j
        BY <2>1, <2>3, <3>1
      <3> QED
        BY <1>b, <2>1, <3>1, <3>2 DEF IndexInv
    <2> QED
      BY <2>4, <2>5
  <1>5. CASE ExitRequestWithoutId
    BY <1>b, <1>5 DEF ExitRequestWithoutId, Crash
  <1>6. ASSUME NEW ks \in SUBSET Ids, ConnectionLost(ks)
        PROVE  IndexInv(players', playerCount', isSeekerSet', holder')
    <2>1. UNCHANGED <<players, playerCount, isSeekerSet>>
      BY <1>6 DEF ConnectionLost
    <2>2. \A j \in 1..playerCount : holder'[j] # "left" => holder[j] # "left"
      BY <1>6, <1>a, <1>b, LevelAssumption DEF ConnectionLost, TypeOK, Ids
    <2> QED
      BY <1>b, <2>1, <2>2 DEF IndexInv
  <1>7. CASE Synchronize
    <2>1. /\ Len(players') = n
          /\ \A i \in 1..n : players'[i].id = players[i].id
          /\ \A i \in 1..n : players'[i].isSeeker <=>
                \E s \in 1..n : /\ players[s].isSeeker
                                /\ players'[s].position = players'[i].position
      BY <1>a, <1>7, SynchronizeProperties
    <2>2. \A i \in 1..n : players[i].isSeeker => players'[i].isSeeker
      BY <2>1
    <2>3. UNCHANGED <<playerCount, isSeekerSet, holder>>
      BY <1>7 DEF Synchronize
    <2> QED
      BY <1>b, <2>1, <2>2, <2>3 DEF IndexInv
  <1>8. CASE UNCHANGED vars
    BY <1>b, <1>8 DEF vars
  <1> QED
    BY <1>1, <1>2, <1>3, <1>4, <1>5, <1>6, <1>7, <1>8 DEF Next

\* The inductive invariant holds in every reachable state.
THEOREM LevelInvariant == Spec => []LevelInv
  <1>1. Init => LevelInv
    BY InitLevelInv
  <1>2. LevelInv /\ [Next]_vars => LevelInv'
    BY NextLevelInv
  <1> QED
    BY <1>1, <1>2, PTL DEF Spec

\* Whatever exit requests erase, the ids of the vector of players stay
\* different, increasing and among those given.
THEOREM IdsStayIncreasing == Spec => []IdsIncreasing
  <1>1. LevelInv => IdsIncreasing
    BY DEF LevelInv
  <1> QED
    BY <1>1, LevelInvariant, PTL

\* Until the holder of an id up to k leaves, MovePlayer, FindPath and
\* RemovePlayer find the player k at index k - 1.
THEOREM IndexStaysId == Spec => []IndexIsId
  <1>1. LevelInv => IndexIsId
    BY DEF LevelInv
  <1> QED
    BY <1>1, LevelInvariant, PTL

\* The game has a seeker until the first player leaves.
THEOREM SeekerStaysPresent == Spec => []SeekerPresent
  <1>1. LevelInv => SeekerPresent
    <2> SUFFICES ASSUME LevelInv, LevelExists, holder[1] # "left"
                 PROVE  1 \in DOMAIN players /\ players[1].id = 1 /\ players[1].isSeeker
      BY DEF SeekerPresent
    <2>1. 1 \in Given /\ \A j \in 1..1 : holder[j] # "left"
      BY LevelAssumption DEF LevelInv, TypeOK, LevelExists, Given
    <2>2. 1 \in DOMAIN players /\ players[1].id = 1
      BY <2>1 DEF LevelInv, IndexIsId
    <2> QED
      BY <2>2 DEF LevelInv
  <1> QED
    BY <1>1, LevelInvariant, PTL

-----------------------------------------------------------------------------
(***************************************************************************)
(* Tagging.                                                                *)
(***************************************************************************)

\* One step of the seeker flags, with the vectors as arguments.
ContactStep(old, new) ==
    \A i \in 1..Len(old), j \in 1..Len(new) :
        old[i].id = new[j].id =>
          /\ old[i].isSeeker => new[j].isSeeker
          /\ ~ old[i].isSeeker /\ new[j].isSeeker =>
               \E s \in 1..Len(old), t \in 1..Len(new) :
                  /\ old[s].id = new[t].id
                  /\ old[s].isSeeker
                  /\ new[t].position = new[j].position

\* If every player of the new vector is new or keeps its flag, nobody was
\* tagged.
LEMMA NobodyTagged ==
    ASSUME IdsIncreasing, TypeOK,
           \A j \in 1..Len(players') :
              \/ \E i \in 1..Len(players) :
                    /\ players'[j].id = players[i].id
                    /\ players'[j].isSeeker = players[i].isSeeker
              \/ \A i \in 1..Len(players) : players[i].id # players'[j].id
    PROVE  ContactStep(players, players')
PROOF
  <1>1. /\ Len(players) \in Nat
        /\ \A i \in 1..Len(players) : players[i].id \in Nat
        /\ \A i, j \in 1..Len(players) : i < j => players[i].id < players[j].id
    BY LenProperties, LevelAssumption DEF TypeOK, IdsIncreasing, Given
  <1>2. ASSUME NEW i \in 1..Len(players), NEW j \in 1..Len(players),
               players[i].id = players[j].id
        PROVE  i = j
    <2>1. ~ (i < j) /\ ~ (j < i)
      BY <1>1, <1>2
    <2> QED
      BY <2>1, <1>1
  <1> SUFFICES ASSUME NEW i \in 1..Len(players), NEW j \in 1..Len(players'),
                      players[i].id = players'[j].id
               PROVE  players'[j].isSeeker = players[i].isSeeker
    BY DEF ContactStep
  <1>3. PICK a \in 1..Len(players) : /\ players'[j].id = players[a].id
                                     /\ players'[j].isSeeker = players[a].isSeeker
    OBVIOUS
  <1>4. a = i
    BY <1>2, <1>3
  <1> QED
    BY <1>3, <1>4

\* Every step tags by contact only, and no seeker turns back.
LEMMA NextContact == LevelInv /\ [Next]_vars => ContactStep(players, players')
PROOF
  <1> SUFFICES ASSUME LevelInv, [Next]_vars
               PROVE  ContactStep(players, players')
    OBVIOUS
  <1> DEFINE n == Len(players)
  <1>a. /\ TypeOK
        /\ IdsIncreasing
        /\ IndexInv(players, playerCount, isSeekerSet, holder)
        /\ n \in Nat
        /\ playerCount \in Nat
    BY LevelInvByIndex, LenProperties, LevelAssumption DEF LevelInv, TypeOK
  <1>1. ASSUME NEW position \in EmptyCells, CreatePlayer(position)
        PROVE  ContactStep(players, players')
    <2>1. /\ Len(players') = n + 1
          /\ \A i \in 1..n : players'[i] = players[i]
          /\ players'[n + 1].id = playerCount + 1
      BY <1>a, <1>1, CreatePlayerProperties
    <2>2. \A i \in 1..n : players[i].id # players'[n + 1].id
      BY <1>a, <2>1 DEF IndexInv
    <2>3. ASSUME NEW j \in 1..Len(players')
          PROVE  \/ \E i \in 1..n : /\ players'[j].id = players[i].id
                                    /\ players'[j].isSeeker = players[i].isSeeker
                 \/ \A i \in 1..n : players[i].id # players'[j].id
      <3>1. CASE j \in 1..n
        BY <2>1, <3>1
      <3>2. CASE j = n + 1
        BY <2>2, <3>2
      <3> QED
        BY <1>a, <2>1, <3>1, <3>2
    <2> QED
      BY <1>a, <2>3, NobodyTagged
  <1>2. ASSUME NEW k \in Ids, NEW direction \in Direction, KeyInput(k, direction)
        PROVE  ContactStep(players, players')
    <2>1. /\ Len(players') = n
          /\ \A i \in 1..n : /\ players'[i].id = players[i].id
                             /\ players'[i].isSeeker = players[i].isSeeker
      BY <1>a, <1>2, KeyInputProperties
    <2> QED
      BY <1>a, <2>1, NobodyTagged
  <1>3. ASSUME NEW k \in Ids, ExitRequest(k), k <= n
        PROVE  ContactStep(players, players')
    <2>1. /\ Len(players') = n - 1
          /\ \A i \in 1..(n - 1) :
                players'[i] = IF i < k THEN players[i] ELSE players[i + 1]
      BY <1>a, <1>3, ExitRequestProperties
    <2>2. ASSUME NEW j \in 1..Len(players')
          PROVE  \E i \in 1..n : /\ players'[j].id = players[i].id
                                 /\ players'[j].isSeeker = players[i].isSeeker
      <3>1. j \in 1..n /\ j + 1 \in 1..n
        BY <1>a, <2>1
      <3>2. players'[j] = players[j] \/ players'[j] = players[j + 1]
        BY <1>a, <2>1
      <3> QED
        BY <3>1, <3>2
    <2> QED
      BY <1>a, <2>2, NobodyTagged
  <1>4. CASE Synchronize
    <2>1. /\ Len(players') = n
          /\ \A i \in 1..n : players'[i].id = players[i].id
          /\ \A i \in 1..n : players'[i].isSeeker <=>
                \E s \in 1..n : /\ players[s].isSeeker
                                /\ players'[s].position = players'[i].position
      BY <1>a, <1>4, SynchronizeProperties
    <2> SUFFICES ASSUME NEW i \in 1..n, NEW j \in 1..n,
                        players[i].id = players'[j].id
                 PROVE  /\ players[i].isSeeker => players'[j].isSeeker
                        /\ players'[j].isSeeker =>
                             \E s \in 1..n, t \in 1..n :
                                /\ players[s].id = players'[t].id
                                /\ players[s].isSeeker
                                /\ players'[t].position = players'[j].position
      BY <2>1 DEF ContactStep
    <2>2. i = j
      <3>1. players[i].id = players[j].id
        BY <2>1
      <3>2. ~ (i < j) /\ ~ (j < i)
        BY <3>1, <1>a DEF IndexInv
      <3> QED
        BY <3>2, <1>a
    <2>3. players[i].isSeeker => players'[j].isSeeker
      BY <2>1, <2>2
    <2>4. ASSUME players'[j].isSeeker
          PROVE  \E s \in 1..n, t \in 1..n :
                    /\ players[s].id = players'[t].id
                    /\ players[s].isSeeker
                    /\ players'[t].position = players'[j].position
      <3>1. PICK s \in 1..n : /\ players[s].isSeeker
                              /\ players'[s].position = players'[j].position
        BY <2>1, <2>4
      <3>2. players[s].id = players'[s].id
        BY <2>1
      <3> QED
        BY <3>1, <3>2
    <2> QED
      BY <2>3, <2>4
  <1>5. CASE UNCHANGED players
    BY <1>a, <1>5, NobodyTagged
  <1>6. \/ \E position \in EmptyCells : CreatePlayer(position)
        \/ \E k \in Ids, direction \in Direction : KeyInput(k, direction)
        \/ \E k \in Ids : ExitRequest(k) /\ k <= n
        \/ Synchronize
        \/ UNCHANGED players
    BY <1>a, LevelAssumption
       DEF Next, vars, MouseInput, ExitRequest, ExitRequestWithoutId, Crash,
           ConnectionLost, Ids
  <1> QED
    BY <1>1, <1>2, <1>3, <1>4, <1>5, <1>6

\* A hider turns into a seeker only where a seeker stands, a seeker stays one.
THEOREM TagsAlwaysSpreadByContact == Spec => TagsSpreadByContact
PROOF
  <1>1. LevelInv /\ LevelInv' /\ [Next]_vars =>
          [ \A i \in DOMAIN players, j \in DOMAIN players' :
              players[i].id = players'[j].id =>
                /\ players[i].isSeeker => players'[j].isSeeker
                /\ ~ players[i].isSeeker /\ players'[j].isSeeker =>
                     \E s \in DOMAIN players, t \in DOMAIN players' :
                        /\ players[s].id = players'[t].id
                        /\ players[s].isSeeker
                        /\ players'[t].position = players'[j].position ]_vars
    <2> SUFFICES ASSUME LevelInv, LevelInv', [Next]_vars
                 PROVE  \A i \in DOMAIN players, j \in DOMAIN players' :
                          players[i].id = players'[j].id =>
                            /\ players[i].isSeeker => players'[j].isSeeker
                            /\ ~ players[i].isSeeker /\ players'[j].isSeeker =>
                                 \E s \in DOMAIN players, t \in DOMAIN players' :
                                    /\ players[s].id = players'[t].id
                                    /\ players[s].isSeeker
                                    /\ players'[t].position = players'[j].position
      OBVIOUS
    <2>1. DOMAIN players = 1..Len(players) /\ DOMAIN players' = 1..Len(players')
      BY LenProperties DEF LevelInv, TypeOK
    <2> QED
      BY <2>1, NextContact DEF ContactStep
  <1> QED
    BY <1>1, LevelInvariant, PTL DEF Spec, TagsSpreadByContact

-----------------------------------------------------------------------------
(***************************************************************************)
(* No more players than holders that have not left.                        *)
(***************************************************************************)

Stayed == { k \in Given : holder[k] # "left" }

LEMMA StayedFinite ==
    TypeOK => IsFiniteSet(Stayed)
PROOF
  <1> SUFFICES ASSUME TypeOK
               PROVE  IsFiniteSet(Stayed)
    OBVIOUS
  <1>1. IsFiniteSet(Given)
    BY FS_Interval, LevelAssumption DEF TypeOK, Given
  <1> QED
    BY <1>1, FS_Subset DEF Stayed

LEMMA NextNoPlayerOutlivesExit ==
    TypeOK /\ NoPlayerOutlivesExit /\ [Next]_vars => NoPlayerOutlivesExit'
PROOF
  <1> SUFFICES ASSUME TypeOK, NoPlayerOutlivesExit, [Next]_vars, serverUp'
               PROVE  Len(players') <= Cardinality(Stayed')
    BY DEF NoPlayerOutlivesExit, Stayed
  <1>a. IsFiniteSet(Stayed) /\ playerCount \in Nat /\ playerCount <= MaxPlayers
        /\ MaxPlayers \in Nat
    BY StayedFinite, LevelAssumption DEF TypeOK
  <1>b. serverUp => Len(players) <= Cardinality(Stayed)
    BY DEF NoPlayerOutlivesExit, Stayed
  <1>1. ASSUME NEW position \in EmptyCells, CreatePlayer(position)
        PROVE  Len(players') <= Cardinality(Stayed')
    <2>1. Len(players') = Len(players) + 1
      BY <1>1, CreatePlayerProperties
    <2>2. Stayed' = Stayed \cup {playerCount + 1}
      BY <1>1, <1>a DEF CreatePlayer, NewPlayer, Stayed, Given, TypeOK, Ids
    <2>3. playerCount + 1 \notin Stayed
      BY <1>a DEF Stayed, Given
    <2>4. Cardinality(Stayed') = Cardinality(Stayed) + 1
      BY <1>a, <2>2, <2>3, FS_AddElement
    <2>5. Len(players) <= Cardinality(Stayed)
      BY <1>b, <1>1 DEF CreatePlayer, NewPlayer
    <2>6. Len(players) \in Nat /\ Cardinality(Stayed) \in Nat
      BY <1>a, LenProperties, FS_CardinalityType DEF TypeOK
    <2> QED
      BY <2>1, <2>4, <2>5, <2>6
  <1>2. ASSUME NEW k \in Ids, NEW direction \in Direction, KeyInput(k, direction)
        PROVE  Len(players') <= Cardinality(Stayed')
    <2>1. Len(players') = Len(players)
      BY <1>2, KeyInputProperties
    <2> QED
      BY <1>2, <2>1, <1>b DEF KeyInput, Stayed, Given
  <1>3. ASSUME NEW k \in Ids, NEW end \in Clicks, MouseInput(k, end)
        PROVE  Len(players') <= Cardinality(Stayed')
    BY <1>3, <1>b DEF MouseInput, Crash, Stayed, Given
  <1>4. ASSUME NEW k \in Ids, ExitRequest(k)
        PROVE  Len(players') <= Cardinality(Stayed')
    <2>1. k <= Len(players)
      BY <1>4 DEF ExitRequest, Crash
    <2>2. Len(players') = Len(players) - 1
      BY <1>4, <2>1, ExitRequestProperties
    <2>3. Stayed' = Stayed \ {k}
      BY <1>4, <2>1, <1>a DEF ExitRequest, Stayed, Given, TypeOK, Ids
    <2>4. Cardinality(Stayed') >= Cardinality(Stayed) - 1
      <3>1. \/ Cardinality(Stayed \ {k}) = Cardinality(Stayed) - 1
            \/ Cardinality(Stayed \ {k}) = Cardinality(Stayed)
        BY <1>a, FS_RemoveElement
      <3>2. Cardinality(Stayed) \in Nat
        BY <1>a, FS_CardinalityType
      <3> QED
        BY <3>1, <3>2, <2>3
    <2>5. Len(players) <= Cardinality(Stayed)
      BY <1>b, <1>4 DEF ExitRequest
    <2>6. /\ Len(players) \in Nat /\ Len(players') \in Nat
          /\ Cardinality(Stayed) \in Nat /\ Cardinality(Stayed') \in Nat
      <3>1. players \in Seq(Player) /\ players' \in Seq(Player)
        BY <1>4, <2>1, ExitRequestProperties DEF TypeOK
      <3>2. IsFiniteSet(Stayed')
        BY <1>a, <2>3, FS_RemoveElement
      <3> QED
        BY <3>1, <3>2, <1>a, LenProperties, FS_CardinalityType
    <2> QED
      BY <2>2, <2>4, <2>5, <2>6
  <1>5. CASE ExitRequestWithoutId
    BY <1>5 DEF ExitRequestWithoutId, Crash
  <1>6. ASSUME NEW ks \in SUBSET Ids, ConnectionLost(ks)
        PROVE  Len(players') <= Cardinality(Stayed')
    <2>1. Stayed' = Stayed
      BY <1>6, <1>a DEF ConnectionLost, Stayed, Given, TypeOK, Ids
    <2> QED
      BY <1>6, <2>1, <1>b DEF ConnectionLost
  <1>7. CASE Synchronize
    <2>1. Len(players') = Len(players)
      BY <1>7, SynchronizeProperties
    <2> QED
      BY <1>7, <2>1, <1>b DEF Synchronize, Stayed, Given
  <1>8. CASE UNCHANGED vars
    BY <1>8, <1>b DEF vars, Stayed, Given
  <1> QED
    BY <1>1, <1>2, <1>3, <1>4, <1>5, <1>6, <1>7, <1>8 DEF Next

\* While the server runs, the vector has no more players than there are
\* holders of ids that have not sent an exit request.
THEOREM NoPlayerEverOutlivesExit == Spec => []NoPlayerOutlivesExit
PROOF
  <1>1. Init => NoPlayerOutlivesExit
    <2> SUFFICES ASSUME Init
                 PROVE  Len(players) <= Cardinality(Stayed)
      BY DEF NoPlayerOutlivesExit, Stayed
    <2>1. Stayed = {} /\ Len(players) = 0
      BY DEF Init, Stayed, Given
    <2> QED
      BY <2>1, FS_EmptySet
  <1>2. TypeOK /\ NoPlayerOutlivesExit /\ [Next]_vars => NoPlayerOutlivesExit'
    BY NextNoPlayerOutlivesExit
  <1> QED
    BY <1>1, <1>2, TypeCorrect, PTL DEF Spec

-----------------------------------------------------------------------------
(***************************************************************************)
(* Walking.                                                                *)
(***************************************************************************)

\* The steps of the history variables are steps of the level.
LEMMA TrackIsNext == [TrackNext]_trackVars => [Next]_vars
  BY DEF TrackNext, TrackKeyInput, TrackMouseInput, TrackSynchronize,
         TrackOther, Next, trackVars, vars

LEMMA NextLevelInvOfTrack == LevelInv /\ [TrackNext]_trackVars => LevelInv'
  BY TrackIsNext, NextLevelInv

\* What the level invariant says of the parts that matter here.
LEMMA LevelFacts ==
    ASSUME LevelInv
    PROVE  /\ TypeOK
           /\ players \in Seq(Player)
           /\ Len(players) \in Nat
           /\ DOMAIN players = 1..Len(players)
           /\ \A i \in DOMAIN players : /\ players[i] \in Player
                                        /\ players[i].id \in Ids
                                        /\ players[i].id \in Given
                                        /\ players[i].position \in Position
           /\ \A i, j \in DOMAIN players : players[i].id = players[j].id => i = j
PROOF
  <1>1. TypeOK /\ players \in Seq(Player)
    BY DEF LevelInv, TypeOK
  <1>2. Len(players) \in Nat /\ DOMAIN players = 1..Len(players)
    BY <1>1, LenProperties
  <1>3. \A i \in DOMAIN players : players[i] \in Player /\ players[i].id \in Given
    BY <1>1, <1>2, ElementOfSeq DEF LevelInv, IdsIncreasing
  <1>4. ASSUME NEW i \in DOMAIN players, NEW j \in DOMAIN players,
               players[i].id = players[j].id
        PROVE  i = j
    <2>1. players[i].id \in Nat
      BY <1>1, <1>3, LevelAssumption DEF Given, TypeOK
    <2>2. ~ (i < j) /\ ~ (j < i)
      BY <1>4, <2>1 DEF LevelInv, IdsIncreasing
    <2> QED
      BY <2>2, <1>2
  <1> QED
    BY <1>1, <1>2, <1>3, <1>4 DEF Player

LEMMA InitTrackInv == TrackInit => TrackInv
PROOF
  <1> SUFFICES ASSUME TrackInit
               PROVE  TrackInv
    OBVIOUS
  <1>1. LevelInv
    BY InitLevelInv DEF TrackInit
  <1>2. DOMAIN players = {} /\ \A k \in Ids : allPlayersPath[k] = <<>>
    BY DEF TrackInit, Init
  <1>3. PathsConnected
    BY <1>2 DEF PathsConnected
  <1> QED
    BY <1>1, <1>2, <1>3 DEF TrackInv, OnFloor, OnPath

\* A cell of the floor is a position.
LEMMA FloorIsPosition == Floor \subseteq Position
  BY GridAssumption DEF Floor, Cell, Position

\* The head of a path is on the floor, and the rest of a connected path is
\* connected and goes on from it.
LEMMA TailIsConnected ==
    ASSUME NEW path \in Seq(Floor), path # <<>>,
           \A n \in 1..(Len(path) - 1) : Adjacent(path[n], path[n + 1])
    PROVE  /\ Head(path) \in Floor
           /\ Tail(path) \in Seq(Floor)
           /\ Tail(path) # <<>> => Adjacent(Head(path), Tail(path)[1])
           /\ \A n \in 1..(Len(Tail(path)) - 1) :
                 Adjacent(Tail(path)[n], Tail(path)[n + 1])
PROOF
  <1>1. /\ Head(path) \in Floor
        /\ Head(path) = path[1]
        /\ Tail(path) \in Seq(Floor)
        /\ Len(Tail(path)) = Len(path) - 1
        /\ \A n \in 1..Len(Tail(path)) : Tail(path)[n] = path[n + 1]
        /\ Len(path) \in Nat
    BY HeadTailProperties, LenProperties
  <1>2. ASSUME Tail(path) # <<>>
        PROVE  Adjacent(Head(path), Tail(path)[1])
    <2>1. Len(Tail(path)) \in Nat \ {0}
      BY <1>1, <1>2, EmptySeq
    <2> QED
      BY <1>1, <2>1
  <1>3. ASSUME NEW n \in 1..(Len(Tail(path)) - 1)
        PROVE  Adjacent(Tail(path)[n], Tail(path)[n + 1])
    <2>1. /\ n \in 1..Len(Tail(path)) /\ n + 1 \in 1..Len(Tail(path))
          /\ n + 1 \in 1..(Len(path) - 1)
      BY <1>1
    <2>2. Tail(path)[n] = path[n + 1] /\ Tail(path)[n + 1] = path[n + 1 + 1]
      BY <1>1, <2>1
    <2> QED
      BY <2>1, <2>2
  <1> QED
    BY <1>1, <1>2, <1>3

\* An answer of the path finder is a connected path from where it was asked.
LEMMA MouseInputPaths ==
    ASSUME LevelInv, NEW k \in Ids, NEW end \in Clicks, MouseInput(k, end)
    PROVE  /\ \A h \in Ids \ {k} : allPlayersPath'[h] = allPlayersPath[h]
           /\ ~ (k \in DOMAIN players) => allPlayersPath' = allPlayersPath
           /\ k \in DOMAIN players =>
                IsRoute(players[k].position, end, allPlayersPath'[k])
           /\ players' = players
           /\ playerCount' = playerCount
           /\ k \in Given
PROOF
  <1>1. k \in DOMAIN players <=> k <= Len(players)
    BY LevelFacts, LevelAssumption DEF Ids
  <1>2. CASE k \in DOMAIN players
    <2>1. players[k].position \in Position
      BY <1>2, LevelFacts
    <2>2. PICK route \in FindPathAnswers(players[k].position, end) :
             allPlayersPath' = [allPlayersPath EXCEPT ![k] = route]
      BY <1>1, <1>2 DEF MouseInput
    <2>3. IsRoute(players[k].position, end, route)
      BY <2>1, <2>2, FindPathAssumption
    <2>4. allPlayersPath'[k] = route
      BY <2>2, LevelFacts DEF TypeOK
    <2>5. \A h \in Ids \ {k} : allPlayersPath'[h] = allPlayersPath[h]
      BY <2>2, LevelFacts DEF TypeOK
    <2> QED
      BY <1>1, <1>2, <2>3, <2>4, <2>5 DEF MouseInput, Given
  <1>3. CASE ~ (k \in DOMAIN players)
    BY <1>1, <1>3 DEF MouseInput, Crash, Given
  <1> QED
    BY <1>2, <1>3

LEMMA RouteIsConnected ==
    ASSUME NEW start, NEW end, NEW route, IsRoute(start, end, route)
    PROVE  /\ \A n \in 1..(Len(route) - 1) : Adjacent(route[n], route[n + 1])
           /\ route # <<>> => Adjacent(start, route[1])
  BY DEF IsRoute

-----------------------------------------------------------------------------
(***************************************************************************)
(* The invariant, one part after the other.                                *)
(***************************************************************************)

\* What the synchronization does to the paths.
LEMMA SynchronizePaths ==
    ASSUME LevelInv, PathsConnected, Synchronize
    PROVE  /\ \A k \in Ids : k \notin Walking =>
                 allPlayersPath'[k] = allPlayersPath[k]
           /\ \A k \in Walking :
                 /\ allPlayersPath[k] # <<>>
                 /\ Head(allPlayersPath[k]) \in Floor
                 /\ allPlayersPath'[k] # <<>> =>
                      Adjacent(Head(allPlayersPath[k]), allPlayersPath'[k][1])
           /\ PathsConnected'
PROOF
  <1>1. \A k \in Ids : k \in Walking <=>
           /\ \E i \in DOMAIN players : players[i].id = k
           /\ allPlayersPath[k] # <<>>
    BY DEF Walking
  <1>2. \A k \in Ids : allPlayersPath'[k] = IF k \in Walking
                                            THEN Tail(allPlayersPath[k])
                                            ELSE allPlayersPath[k]
    BY <1>1 DEF Synchronize, PathsAfterStep
  <1>3. ASSUME NEW k \in Walking
        PROVE  /\ k \in Ids
               /\ allPlayersPath[k] # <<>>
               /\ Head(allPlayersPath[k]) \in Floor
               /\ Tail(allPlayersPath[k]) # <<>> =>
                    Adjacent(Head(allPlayersPath[k]), Tail(allPlayersPath[k])[1])
               /\ \A n \in 1..(Len(Tail(allPlayersPath[k])) - 1) :
                     Adjacent(Tail(allPlayersPath[k])[n], Tail(allPlayersPath[k])[n + 1])
    <2>1. k \in Ids /\ allPlayersPath[k] # <<>>
      BY LevelFacts DEF Walking
    <2>2. /\ allPlayersPath[k] \in Seq(Floor)
          /\ \A n \in 1..(Len(allPlayersPath[k]) - 1) :
                Adjacent(allPlayersPath[k][n], allPlayersPath[k][n + 1])
      BY <2>1, LevelFacts DEF TypeOK, PathsConnected
    <2> QED
      BY <2>1, <2>2, TailIsConnected
  <1>4. PathsConnected'
    BY <1>2, <1>3 DEF PathsConnected
  <1> QED
    BY <1>2, <1>3, <1>4

LEMMA NextPathsConnected ==
    TrackInv /\ [TrackNext]_trackVars => PathsConnected'
PROOF
  <1> SUFFICES ASSUME TrackInv, [TrackNext]_trackVars
               PROVE  PathsConnected'
    OBVIOUS
  <1>a. LevelInv /\ PathsConnected
    BY DEF TrackInv
  <1>1. ASSUME NEW k \in Ids, NEW end \in Clicks, TrackMouseInput(k, end)
        PROVE  PathsConnected'
    <2>1. MouseInput(k, end)
      BY <1>1 DEF TrackMouseInput
    <2>2. k \in DOMAIN players => \A n \in 1..(Len(allPlayersPath'[k]) - 1) :
             Adjacent(allPlayersPath'[k][n], allPlayersPath'[k][n + 1])
      BY <1>a, <2>1, MouseInputPaths, RouteIsConnected
    <2>3. \A h \in Ids \ {k} : allPlayersPath'[h] = allPlayersPath[h]
      BY <1>a, <2>1, MouseInputPaths
    <2>4. ~ (k \in DOMAIN players) => allPlayersPath' = allPlayersPath
      BY <1>a, <2>1, MouseInputPaths
    <2> QED
      BY <1>a, <2>2, <2>3, <2>4 DEF PathsConnected
  <1>2. CASE TrackSynchronize
    BY <1>a, <1>2, SynchronizePaths DEF TrackSynchronize
  <1>3. CASE UNCHANGED allPlayersPath
    BY <1>a, <1>3 DEF PathsConnected
  <1>4. \/ \E k \in Ids, end \in Clicks : TrackMouseInput(k, end)
        \/ TrackSynchronize
        \/ UNCHANGED allPlayersPath
    BY DEF TrackNext, trackVars, TrackKeyInput, KeyInput, TrackOther,
           CreatePlayer, NewPlayer, ExitRequest, ExitRequestWithoutId, Crash, ConnectionLost
  <1> QED
    BY <1>1, <1>2, <1>3, <1>4

\* Ids are given one by one and not taken back.
LEMMA CountGrows ==
    [Next]_vars => playerCount' = playerCount \/ playerCount' = playerCount + 1
PROOF
  <1>1. ASSUME NEW position \in EmptyCells, CreatePlayer(position)
        PROVE  playerCount' = playerCount + 1
    BY <1>1 DEF CreatePlayer, NewPlayer
  <1>2. ASSUME NEW k \in Ids, NEW direction \in Direction, KeyInput(k, direction)
        PROVE  playerCount' = playerCount
    BY <1>2 DEF KeyInput
  <1>3. ASSUME NEW k \in Ids, NEW end \in Clicks, MouseInput(k, end)
        PROVE  playerCount' = playerCount
    BY <1>3 DEF MouseInput, Crash
  <1>4. ASSUME NEW k \in Ids, ExitRequest(k)
        PROVE  playerCount' = playerCount
    BY <1>4 DEF ExitRequest, Crash
  <1>5. ExitRequestWithoutId \/ Synchronize \/ UNCHANGED vars
           => playerCount' = playerCount
    BY DEF ExitRequestWithoutId, Crash, Synchronize, vars
  <1>6. ASSUME NEW ks \in SUBSET Ids, ConnectionLost(ks)
        PROVE  playerCount' = playerCount
    BY <1>6 DEF ConnectionLost
  <1> QED
    BY <1>1, <1>2, <1>3, <1>4, <1>5, <1>6 DEF Next

LEMMA NextUngivenPaths ==
    TrackInv /\ [TrackNext]_trackVars =>
        \A k \in Ids \ Given' : allPlayersPath'[k] = <<>>
PROOF
  <1> SUFFICES ASSUME TrackInv, [TrackNext]_trackVars, NEW k \in Ids, k \notin Given'
               PROVE  allPlayersPath'[k] = <<>>
    OBVIOUS
  <1>a. LevelInv /\ playerCount \in Nat /\ playerCount' \in Nat
    BY NextLevelInvOfTrack, LevelAssumption DEF TrackInv, LevelInv, TypeOK
  <1>b. playerCount' >= playerCount
    BY <1>a, TrackIsNext, CountGrows
  <1>c. k \notin Given /\ allPlayersPath[k] = <<>>
    BY <1>a, <1>b DEF Given, TrackInv
  <1>1. ASSUME NEW h \in Ids, NEW end \in Clicks, TrackMouseInput(h, end)
        PROVE  allPlayersPath'[k] = <<>>
    <2>1. h # k
      BY <1>a, <1>1, <1>c, MouseInputPaths DEF TrackMouseInput
    <2> QED
      BY <1>a, <1>1, <1>c, <2>1, MouseInputPaths DEF TrackMouseInput
  <1>2. CASE TrackSynchronize
    BY <1>2, <1>c DEF TrackSynchronize, Synchronize, PathsAfterStep
  <1>3. CASE UNCHANGED allPlayersPath
    BY <1>3, <1>c
  <1>4. \/ \E h \in Ids, end \in Clicks : TrackMouseInput(h, end)
        \/ TrackSynchronize
        \/ UNCHANGED allPlayersPath
    BY DEF TrackNext, trackVars, TrackKeyInput, KeyInput, TrackOther,
           CreatePlayer, NewPlayer, ExitRequest, ExitRequestWithoutId, Crash, ConnectionLost
  <1> QED
    BY <1>1, <1>2, <1>3, <1>4

\* What a step may do to the player at index i, which is at index j after it.
Same(i, j) ==
    LET id == players[i].id
    IN  /\ players'[j].position = players[i].position
        /\ allPlayersPath'[id] = allPlayersPath[id]
        /\ id \in astray' <=> id \in astray
        /\ id \in keyed' <=> id \in keyed

MovedByKey(i, j) ==
    LET id == players[i].id
    IN  /\ id \in astray' /\ id \in keyed'
        /\ Adjacent(players[i].position, players'[j].position)

GivenPath(i, j) ==
    LET id == players[i].id
    IN  /\ players'[j].position = players[i].position
        /\ id \in keyed' <=> id \in keyed
        /\ \/ id \in astray'
           \/ allPlayersPath'[id] # <<>> =>
                Adjacent(players[i].position, allPlayersPath'[id][1])

Walked(i, j) ==
    LET id == players[i].id
    IN  /\ allPlayersPath[id] # <<>>
        /\ players'[j].position = Head(allPlayersPath[id])
        /\ players'[j].position \in Floor
        /\ allPlayersPath'[id] # <<>> =>
             Adjacent(players'[j].position, allPlayersPath'[id][1])

Arrived(j) ==
    /\ players'[j].position \in Floor
    /\ players'[j].id \in Ids \ Given
    /\ allPlayersPath'[players'[j].id] = <<>>

\* A key moves a player to a neighbouring cell.
LEMMA MovedIsAdjacent ==
    ASSUME NEW position \in Position, NEW direction \in Direction
    PROVE  Adjacent(position, Moved(position, direction))
PROOF
  <1>1. position.x \in Int /\ position.y \in Int
    BY GridAssumption DEF Position
  <1>2. /\ direction = "UP" => Moved(position, direction) = [position EXCEPT !.y = @ - 1]
        /\ direction = "DOWN" => Moved(position, direction) = [position EXCEPT !.y = @ + 1]
        /\ direction = "RIGHT" => Moved(position, direction) = [position EXCEPT !.x = @ + 1]
        /\ direction = "LEFT" => Moved(position, direction) = [position EXCEPT !.x = @ - 1]
    BY DEF Moved
  <1>3. ASSUME NEW a \in Int, NEW b \in Int,
               a - position.x \in -1..1, b - position.y \in -1..1,
               a # position.x \/ b # position.y,
               Moved(position, direction).x = a,
               Moved(position, direction).y = b
        PROVE  Adjacent(position, Moved(position, direction))
    <2>1. position # Moved(position, direction)
      BY <1>3
    <2> QED
      BY <1>1, <1>3, <2>1 DEF Adjacent
  <1>4. direction \in {"UP", "DOWN", "RIGHT", "LEFT"}
    BY DEF Direction
  <1> QED
    BY <1>1, <1>2, <1>3, <1>4 DEF Position

LEMMA NextOfPlayer ==
    ASSUME TrackInv, [TrackNext]_trackVars, NEW j \in DOMAIN players'
    PROVE  \/ Arrived(j)
           \/ \E i \in DOMAIN players :
                 /\ players'[j].id = players[i].id
                 /\ Same(i, j) \/ MovedByKey(i, j) \/ GivenPath(i, j) \/ Walked(i, j)
PROOF
  <1>a. LevelInv /\ LevelInv' /\ PathsConnected /\ TypeOK /\ TypeOK'
    BY NextLevelInvOfTrack DEF TrackInv, LevelInv
  <1>b. /\ Len(players) \in Nat
        /\ DOMAIN players = 1..Len(players)
        /\ DOMAIN players' = 1..Len(players')
    BY <1>a, LevelFacts, LenProperties DEF TypeOK
  <1>1. ASSUME NEW position \in EmptyCells, CreatePlayer(position),
               UNCHANGED <<astray, keyed>>
        PROVE  \/ Arrived(j)
               \/ \E i \in DOMAIN players : players'[j].id = players[i].id /\ Same(i, j)
    <2>1. /\ Len(players') = Len(players) + 1
          /\ \A i \in 1..Len(players) : players'[i] = players[i]
          /\ players'[Len(players) + 1].id = playerCount + 1
          /\ players'[Len(players) + 1].position = position
      BY <1>a, <1>1, CreatePlayerProperties
    <2>2. CASE j \in 1..Len(players)
      BY <1>1, <1>b, <2>1, <2>2 DEF Same, CreatePlayer, NewPlayer
    <2>3. CASE j = Len(players) + 1
      <3>1. playerCount + 1 \in Ids \ Given
        BY <1>1, <1>a, LevelAssumption DEF CreatePlayer, NewPlayer, TypeOK, Ids, Given
      <3>2. position \in Floor
        BY LevelAssumption
      <3> QED
        BY <1>1, <2>1, <2>3, <3>1, <3>2 DEF Arrived, CreatePlayer, NewPlayer, TrackInv
    <2> QED
      BY <1>b, <2>1, <2>2, <2>3
  <1>2. ASSUME NEW k \in Ids, NEW direction \in Direction,
               TrackKeyInput(k, direction)
        PROVE  \E i \in DOMAIN players :
                  players'[j].id = players[i].id /\ (Same(i, j) \/ MovedByKey(i, j))
    <2>1. /\ Len(players') = Len(players)
          /\ \A i \in 1..Len(players) :
                /\ players'[i].id = players[i].id
                /\ i # k => players'[i] = players[i]
          /\ k \in 1..Len(players)
          /\ players'[k].position = Moved(players[k].position, direction)
      BY <1>2, <1>a, KeyInputProperties DEF TrackKeyInput
    <2>2. CASE j = k
      <3>1. Adjacent(players[k].position, players'[k].position)
        BY <1>a, <1>b, <2>1, LevelFacts, MovedIsAdjacent
      <3> QED
        BY <1>2, <1>b, <2>1, <2>2, <3>1 DEF MovedByKey, TrackKeyInput
    <2>3. CASE j # k
      <3>1. players[j].id # players[k].id
        BY <1>a, <1>b, <2>1, <2>3, LevelFacts
      <3> QED
        BY <1>2, <1>b, <2>1, <2>3, <3>1 DEF Same, TrackKeyInput, KeyInput
    <2> QED
      BY <2>2, <2>3
  <1>3. ASSUME NEW k \in Ids, NEW end \in Clicks, TrackMouseInput(k, end)
        PROVE  \E i \in DOMAIN players :
                  players'[j].id = players[i].id /\ (Same(i, j) \/ GivenPath(i, j))
    <2>1. MouseInput(k, end)
      BY <1>3 DEF TrackMouseInput
    <2>2. /\ players' = players
          /\ \A h \in Ids \ {k} : allPlayersPath'[h] = allPlayersPath[h]
          /\ k \in DOMAIN players =>
               IsRoute(players[k].position, end, allPlayersPath'[k])
      BY <1>a, <2>1, MouseInputPaths
    <2>3. players[j].id \in Ids /\ j \in DOMAIN players
      BY <1>a, <2>2, LevelFacts
    <2>4. CASE players[j].id # k
      BY <1>3, <2>2, <2>3, <2>4 DEF Same, TrackMouseInput
    <2>5. CASE players[j].id = k
      <3>1. CASE k \in DOMAIN players /\ players[k].id = k
        <4>1. j = k
          BY <1>a, <2>3, <2>5, <3>1, LevelFacts
        <4>2. allPlayersPath'[k] # <<>> =>
                 Adjacent(players[k].position, allPlayersPath'[k][1])
          BY <2>2, <3>1, RouteIsConnected
        <4> QED
          BY <1>3, <2>2, <2>3, <3>1, <4>1, <4>2 DEF GivenPath, TrackMouseInput
      <3>2. CASE ~ (k \in DOMAIN players /\ players[k].id = k)
        BY <1>3, <2>2, <2>3, <2>5, <3>2 DEF GivenPath, TrackMouseInput
      <3> QED
        BY <3>1, <3>2
    <2> QED
      BY <2>4, <2>5
  <1>4. ASSUME TrackSynchronize
        PROVE  \E i \in DOMAIN players :
                  players'[j].id = players[i].id /\ (Same(i, j) \/ Walked(i, j))
    <2>1. Synchronize
      BY <1>4 DEF TrackSynchronize
    <2>2. /\ Len(players') = Len(players)
          /\ \A i \in 1..Len(players) :
                /\ players'[i].id = players[i].id
                /\ players'[i].position =
                      IF allPlayersPath[players[i].id] = <<>>
                      THEN players[i].position
                      ELSE Head(allPlayersPath[players[i].id])
      BY <1>a, <2>1, SynchronizeProperties
    <2>3. j \in DOMAIN players /\ players[j].id \in Ids
      BY <1>a, <1>b, <2>2, LevelFacts
    <2>4. players[j].id \in Walking <=> allPlayersPath[players[j].id] # <<>>
      BY <2>3 DEF Walking
    <2>5. CASE players[j].id \in Walking
      <3>1. /\ Head(allPlayersPath[players[j].id]) \in Floor
            /\ allPlayersPath'[players[j].id] # <<>> =>
                 Adjacent(Head(allPlayersPath[players[j].id]),
                          allPlayersPath'[players[j].id][1])
        BY <1>a, <2>1, <2>5, SynchronizePaths
      <3> QED
        BY <1>b, <2>2, <2>3, <2>4, <2>5, <3>1 DEF Walked
    <2>6. CASE players[j].id \notin Walking
      <3>1. allPlayersPath'[players[j].id] = allPlayersPath[players[j].id]
        BY <1>a, <2>1, <2>3, <2>6, SynchronizePaths
      <3> QED
        BY <1>4, <1>b, <2>2, <2>3, <2>4, <2>6, <3>1 DEF Same, TrackSynchronize
    <2> QED
      BY <2>5, <2>6
  <1>5. ASSUME NEW k \in Ids, ExitRequest(k), UNCHANGED <<astray, keyed>>
        PROVE  \E i \in DOMAIN players : players'[j].id = players[i].id /\ Same(i, j)
    <2>1. UNCHANGED allPlayersPath
      BY <1>5 DEF ExitRequest, Crash
    <2>2. CASE k <= Len(players)
      <3>1. /\ Len(players') = Len(players) - 1
            /\ \A i \in 1..(Len(players) - 1) :
                  players'[i] = IF i < k THEN players[i] ELSE players[i + 1]
        BY <1>a, <1>5, <2>2, ExitRequestProperties
      <3>2. PICK i \in DOMAIN players : players'[j] = players[i]
        <4>1. j \in DOMAIN players /\ j + 1 \in DOMAIN players
          BY <1>b, <3>1
        <4> QED
          BY <1>b, <3>1, <4>1
      <3> QED
        BY <1>5, <2>1, <3>2 DEF Same
    <2>3. CASE ~ (k <= Len(players))
      BY <1>5, <2>1, <2>3 DEF ExitRequest, Crash, Same
    <2> QED
      BY <2>2, <2>3
  <1>6. ASSUME UNCHANGED <<players, allPlayersPath, astray, keyed>>
        PROVE  \E i \in DOMAIN players : players'[j].id = players[i].id /\ Same(i, j)
    BY <1>6 DEF Same
  <1>7. \/ \E position \in EmptyCells : CreatePlayer(position) /\ UNCHANGED <<astray, keyed>>
        \/ \E k \in Ids, direction \in Direction : TrackKeyInput(k, direction)
        \/ \E k \in Ids, end \in Clicks : TrackMouseInput(k, end)
        \/ TrackSynchronize
        \/ \E k \in Ids : ExitRequest(k) /\ UNCHANGED <<astray, keyed>>
        \/ UNCHANGED <<players, allPlayersPath, astray, keyed>>
    <2>1. CASE TrackOther
      BY <2>1 DEF TrackOther, ExitRequestWithoutId, Crash, ConnectionLost
    <2> QED
      BY <2>1 DEF TrackNext, trackVars
  <1> QED
    BY <1>1, <1>2, <1>3, <1>4, <1>5, <1>6, <1>7

LEMMA NextTrackInv == TrackInv /\ [TrackNext]_trackVars => TrackInv'
PROOF
  <1> SUFFICES ASSUME TrackInv, [TrackNext]_trackVars
               PROVE  TrackInv'
    OBVIOUS
  <1>1. LevelInv' /\ PathsConnected'
    BY NextLevelInvOfTrack, NextPathsConnected DEF TrackInv
  <1>2. \A k \in Ids \ Given' : allPlayersPath'[k] = <<>>
    BY NextUngivenPaths
  <1>3. OnFloor'
    <2> SUFFICES ASSUME NEW j \in DOMAIN players', players'[j].id \notin keyed'
                 PROVE  players'[j].position \in Floor
      BY DEF OnFloor
    <2>1. CASE Arrived(j)
      BY <2>1 DEF Arrived
    <2>2. ASSUME NEW i \in DOMAIN players, players'[j].id = players[i].id,
                 Same(i, j) \/ GivenPath(i, j)
          PROVE  players'[j].position \in Floor
      BY <2>2 DEF TrackInv, OnFloor, Same, GivenPath
    <2>3. ASSUME NEW i \in DOMAIN players, Walked(i, j)
          PROVE  players'[j].position \in Floor
      BY <2>3 DEF Walked
    <2>4. ASSUME NEW i \in DOMAIN players, players'[j].id = players[i].id,
                 MovedByKey(i, j)
          PROVE  FALSE
      BY <2>4 DEF MovedByKey
    <2> QED
      BY <2>1, <2>2, <2>3, <2>4, NextOfPlayer
  <1>4. OnPath'
    <2> SUFFICES ASSUME NEW j \in DOMAIN players', players'[j].id \notin astray',
                        allPlayersPath'[players'[j].id] # <<>>
                 PROVE  Adjacent(players'[j].position, allPlayersPath'[players'[j].id][1])
      BY DEF OnPath
    <2>1. ~ Arrived(j)
      BY DEF Arrived
    <2>2. PICK i \in DOMAIN players :
             /\ players'[j].id = players[i].id
             /\ Same(i, j) \/ MovedByKey(i, j) \/ GivenPath(i, j) \/ Walked(i, j)
      BY <2>1, NextOfPlayer
    <2>3. CASE Same(i, j)
      BY <2>2, <2>3 DEF TrackInv, OnPath, Same
    <2>4. CASE MovedByKey(i, j)
      BY <2>2, <2>4 DEF MovedByKey
    <2>5. CASE GivenPath(i, j)
      BY <2>2, <2>5 DEF GivenPath
    <2>6. CASE Walked(i, j)
      BY <2>2, <2>6 DEF Walked
    <2> QED
      BY <2>2, <2>3, <2>4, <2>5, <2>6
  <1> QED
    BY <1>1, <1>2, <1>3, <1>4 DEF TrackInv

-----------------------------------------------------------------------------

\* The invariant of the history variables holds in every reachable state.
THEOREM TrackInvariant == TrackSpec => []TrackInv
  <1>1. TrackInit => TrackInv
    BY InitTrackInv
  <1>2. TrackInv /\ [TrackNext]_trackVars => TrackInv'
    BY NextTrackInv
  <1> QED
    BY <1>1, <1>2, PTL DEF TrackSpec

\* A player that no key moved since its last step stands on the floor,
\* whatever the map and whoever leaves.
THEOREM StaysOnFloor == TrackSpec => []OnFloor
  <1>1. TrackInv => OnFloor
    BY DEF TrackInv
  <1> QED
    BY <1>1, TrackInvariant, PTL

\* The next cell of a path that can be trusted is a neighbour of the cell its
\* player stands in.
THEOREM StaysOnPath == TrackSpec => []OnPath
  <1>1. TrackInv => OnPath
    BY DEF TrackInv
  <1> QED
    BY <1>1, TrackInvariant, PTL

\* No step takes a player further than to a neighbouring cell, unless its
\* path was astray.
THEOREM NeverJumps == TrackSpec => NoJumps
PROOF
  <1>1. TrackInv /\ [TrackNext]_trackVars =>
          [ \A i \in DOMAIN players, j \in DOMAIN players' :
              players[i].id = players'[j].id /\ players[i].id \notin astray
                 => \/ players'[j].position = players[i].position
                    \/ Adjacent(players[i].position, players'[j].position) ]_trackVars
    <2> SUFFICES ASSUME TrackInv, [TrackNext]_trackVars,
                        NEW h \in DOMAIN players, NEW j \in DOMAIN players',
                        players[h].id = players'[j].id, players[h].id \notin astray
                 PROVE  \/ players'[j].position = players[h].position
                        \/ Adjacent(players[h].position, players'[j].position)
      OBVIOUS
    <2>1. ~ Arrived(j)
      BY LevelFacts DEF Arrived, TrackInv
    <2>2. PICK i \in DOMAIN players :
             /\ players'[j].id = players[i].id
             /\ Same(i, j) \/ MovedByKey(i, j) \/ GivenPath(i, j) \/ Walked(i, j)
      BY <2>1, NextOfPlayer
    <2>3. i = h
      BY <2>2, LevelFacts DEF TrackInv
    <2>4. CASE Walked(i, j)
      <3>1. players[i].id \in Ids
        BY LevelFacts DEF TrackInv
      <3>2. allPlayersPath[players[i].id] \in Seq(Floor)
        BY <3>1, LevelFacts DEF TrackInv, TypeOK
      <3>3. Head(allPlayersPath[players[i].id]) = allPlayersPath[players[i].id][1]
        BY <3>2
      <3> QED
        BY <2>3, <2>4, <3>3 DEF Walked, TrackInv, OnPath
    <2>5. CASE Same(i, j) \/ MovedByKey(i, j) \/ GivenPath(i, j)
      BY <2>3, <2>5 DEF Same, MovedByKey, GivenPath
    <2> QED
      BY <2>2, <2>4, <2>5
  <1> QED
    BY <1>1, TrackInvariant, PTL DEF TrackSpec, NoJumps
=============================================================================
