--------------------------- MODULE CollisionProofs ---------------------------
(***************************************************************************)
(* The loops of ProcessCollision compute Tagged, for every number of       *)
(* players and every place they may stand in.                              *)
(***************************************************************************)
EXTENDS Collision, TLAPS, SequenceTheorems

LEMMA VectorsAreSeqs == Vectors \subseteq Seq(Mark)
  BY SeqDef, CollisionAssumption DEF Vectors

LEMMA InitLoopInv == Init => LoopInv
PROOF
  <1> SUFFICES ASSUME Init
               PROVE  LoopInv
    OBVIOUS
  <1>1. start \in Seq(Mark) /\ players = start /\ i = 1 /\ j = 0
    BY VectorsAreSeqs DEF Init
  <1>2. Size \in Nat
    BY <1>1, LenProperties DEF Size
  <1> QED
    BY <1>1, <1>2 DEF LoopInv, TypeOK, Size

\* One iteration of the inner loop writes at most the flag at j.
LEMMA CheckHiderProperties ==
    ASSUME LoopInv, CheckHider
    PROVE  /\ players' \in Seq(Mark)
           /\ Len(players') = Size
           /\ \A h \in 1..Size :
                 /\ players'[h].position = players[h].position
                 /\ players'[h].isSeeker <=>
                      \/ players[h].isSeeker
                      \/ h = j /\ players[i].position = players[j].position
PROOF
  <1>1. /\ players \in Seq(Mark)
        /\ Len(players) = Size
        /\ j \in 1..Size
    BY DEF LoopInv, TypeOK, CheckHider
  <1>2. \A h \in 1..Size : players[h] \in Mark
    BY <1>1, ElementOfSeq
  <1>3. CASE ~ players[j].isSeeker /\ players[i].position = players[j].position
    <2> DEFINE new == [players[j] EXCEPT !.isSeeker = TRUE]
    <2>1. players' = [players EXCEPT ![j] = new]
      BY <1>1, <1>3 DEF CheckHider
    <2>2. new \in Mark /\ new.position = players[j].position /\ new.isSeeker = TRUE
      BY <1>1, <1>2 DEF Mark
    <2> HIDE DEF new
    <2>3. /\ players' \in Seq(Mark)
          /\ Len(players') = Size
          /\ \A h \in 1..Size : players'[h] = IF h = j THEN new ELSE players[h]
      BY <1>1, <2>1, <2>2, ExceptSeq
    <2> QED
      BY <1>3, <2>2, <2>3
  <1>4. CASE ~ (~ players[j].isSeeker /\ players[i].position = players[j].position)
    <2>1. players' = players
      BY <1>4 DEF CheckHider
    <2> QED
      BY <1>1, <1>4, <2>1
  <1> QED
    BY <1>3, <1>4

LEMMA NextLoopInv == LoopInv /\ [Next]_vars => LoopInv'
PROOF
  <1> SUFFICES ASSUME LoopInv, [Next]_vars
               PROVE  LoopInv'
    OBVIOUS
  <1>a. Size \in Nat /\ i \in Nat /\ j \in Nat
    BY LenProperties DEF LoopInv, TypeOK, Size
  <1>1. CASE SkipHider
    <2>1. /\ players' = players /\ start' = start /\ j' = 0 /\ j = 0
          /\ i' = i + 1 /\ i <= Size
      BY <1>1 DEF SkipHider
    <2>2. ~ start[i].isSeeker
      BY <1>a, <1>1, <2>1 DEF SkipHider, LoopInv, TypeOK
    <2>3. \A s \in 1..Size : s < i' /\ start[s].isSeeker => s < i
      BY <1>a, <2>1, <2>2
    <2> QED
      BY <1>a, <2>1, <2>3 DEF LoopInv, TypeOK, Size
  <1>2. CASE TakeSeeker
    BY <1>a, <1>2 DEF TakeSeeker, LoopInv, TypeOK, Size
  <1>3. CASE CheckHider
    <2>1. /\ start' = start /\ i' = i /\ j' = j + 1 /\ j \in 1..Size
      BY <1>3 DEF CheckHider
    <2>2. /\ players' \in Seq(Mark)
          /\ Len(players') = Size
          /\ \A h \in 1..Size :
                /\ players'[h].position = players[h].position
                /\ players'[h].isSeeker <=>
                     \/ players[h].isSeeker
                     \/ h = j /\ players[i].position = players[j].position
      BY <1>3, CheckHiderProperties
    <2>3. i \in 1..Size /\ players[i].isSeeker
      BY <1>a, <2>1 DEF LoopInv, TypeOK
    <2>4. TypeOK'
      BY <1>a, <2>1, <2>2 DEF LoopInv, TypeOK, Size
    <2>5. \A h \in 1..Size : players'[h].position = start[h].position
      BY <2>2 DEF LoopInv
    <2>6. ASSUME NEW h \in 1..Size, players'[h].isSeeker
          PROVE  \E s \in 1..Size : /\ start[s].isSeeker
                                    /\ start[s].position = start[h].position
      <3>1. CASE players[h].isSeeker
        BY <3>1 DEF LoopInv
      <3>2. CASE h = j /\ players[i].position = players[j].position
        <4>1. start[i].position = start[h].position
          BY <2>3, <3>2 DEF LoopInv
        <4>2. PICK s \in 1..Size : /\ start[s].isSeeker
                                   /\ start[s].position = start[i].position
          BY <2>3 DEF LoopInv
        <4> QED
          BY <4>1, <4>2
      <3> QED
        BY <2>2, <2>6, <3>1, <3>2
    <2>7. \A s \in 1..Size : start[s].isSeeker => players'[s].isSeeker
      BY <2>2 DEF LoopInv
    <2>8. \A s, h \in 1..Size :
             s < i /\ start[s].isSeeker /\ start[s].position = start[h].position
                => players'[h].isSeeker
      BY <2>2 DEF LoopInv
    <2>9. /\ players'[i].isSeeker
          /\ \A h \in 1..Size :
                h < j + 1 /\ start[h].position = start[i].position
                   => players'[h].isSeeker
      <3>1. \A h \in 1..Size : h < j + 1 => h < j \/ h = j
        BY <1>a
      <3> QED
        BY <1>a, <2>1, <2>2, <2>3, <3>1 DEF LoopInv
    <2>10. Size' = Size
      BY <2>1 DEF Size
    <2> QED
      BY <1>a, <2>1, <2>3, <2>4, <2>5, <2>6, <2>7, <2>8, <2>9, <2>10 DEF LoopInv
  <1>4. CASE EndOfHiders
    <2>1. /\ players' = players /\ start' = start /\ j' = 0 /\ j = Size + 1
          /\ i' = i + 1 /\ i <= Size /\ Size' = Size
      BY <1>a, <1>4 DEF EndOfHiders, LoopInv, Size
    <2>2. \A s, h \in 1..Size :
             s < i' /\ start[s].isSeeker /\ start[s].position = start[h].position
                => players[h].isSeeker
      BY <1>a, <2>1 DEF LoopInv
    <2>3. TypeOK'
      BY <1>a, <2>1 DEF LoopInv, TypeOK
    <2> QED
      BY <1>a, <2>1, <2>2, <2>3 DEF LoopInv
  <1>5. CASE UNCHANGED vars
    BY <1>5 DEF vars, LoopInv, TypeOK, Size
  <1> QED
    BY <1>1, <1>2, <1>3, <1>4, <1>5 DEF Next

\* At the end of the loops, what they computed is Tagged of the vector they
\* were called with.
THEOREM LoopsTagTheVector == Spec => []TagsTheVector
PROOF
  <1>1. Init => LoopInv
    BY InitLoopInv
  <1>2. LoopInv /\ [Next]_vars => LoopInv'
    BY NextLoopInv
  <1>3. LoopInv => TagsTheVector
    <2> SUFFICES ASSUME LoopInv, i > Size
                 PROVE  players = Tagged(start)
      BY DEF TagsTheVector, Finished
    <2>1. /\ Size \in Nat /\ DOMAIN start = 1..Size
          /\ DOMAIN players = 1..Size
          /\ players = [h \in 1..Size |-> players[h]]
          /\ i \in Nat
      BY LenProperties DEF LoopInv, TypeOK, Size
    <2>2. ASSUME NEW h \in 1..Size
          PROVE  players[h] = Tagged(start)[h]
      <3> DEFINE flag == \E s \in 1..Size : /\ start[s].isSeeker
                                            /\ start[s].position = start[h].position
      <3>1. players[h] \in Mark /\ start[h] \in Mark
        BY <2>1, ElementOfSeq DEF LoopInv, TypeOK
      <3>2. \A s \in 1..Size : s < i
        BY <2>1
      <3>3. players[h].isSeeker <=> flag
        BY <3>2 DEF LoopInv
      <3>4. players[h].position = start[h].position
        BY DEF LoopInv
      <3>5. Tagged(start)[h] = [start[h] EXCEPT !.isSeeker = flag]
        BY <2>1 DEF Tagged
      <3>6. flag \in BOOLEAN
        OBVIOUS
      <3> HIDE DEF flag
      <3> QED
        BY <3>1, <3>3, <3>4, <3>5, <3>6 DEF Mark
    <2>3. Tagged(start) = [h \in 1..Size |-> Tagged(start)[h]]
      BY <2>1 DEF Tagged
    <2> QED
      BY <2>1, <2>2, <2>3
  <1> QED
    BY <1>1, <1>2, <1>3, PTL DEF Spec
=============================================================================
