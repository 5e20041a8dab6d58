----------------------------- MODULE Collision -----------------------------
(***************************************************************************)
(* The two loops of GameLevel::ProcessCollision, one iteration a step.     *)
(*                                                                         *)
(* The outer loop reads the flags the inner loop writes: a hider tagged    *)
(* early is a seeker when its own turn comes, and a hider whose turn is    *)
(* over is never looked at again.  That the outcome does not depend on the *)
(* order of the vector is what the properties say.                         *)
(***************************************************************************)
EXTENDS Integers, Sequences, Tagging

CONSTANTS
    Places,     \* positions; the loops only compare them
    MaxPlayers  \* how long the vector may be

ASSUME CollisionAssumption == MaxPlayers \in Nat

Mark == [position : Places, isSeeker : BOOLEAN]

Vectors == UNION { [1..n -> Mark] : n \in 0..MaxPlayers }

VARIABLES
    players,    \* the vector
    i,          \* the index of the outer loop
    j,          \* the index of the inner loop; 0 outside it
    start       \* the vector at the call

vars == <<players, i, j, start>>

Size == Len(start)

Init ==
    /\ start \in Vectors
    /\ players = start
    /\ i = 1
    /\ j = 0

\* The outer loop skips whoever is not a seeker at its turn.
SkipHider ==
    /\ i <= Size /\ j = 0
    /\ ~ players[i].isSeeker
    /\ i' = i + 1
    /\ UNCHANGED <<players, j, start>>

\* (A variant: only the players behind the seeker are looked at.)
TakeSeekerFromNext ==
    /\ i <= Size /\ j = 0
    /\ players[i].isSeeker
    /\ j' = i + 1
    /\ UNCHANGED <<players, i, start>>

TakeSeeker ==
    /\ i <= Size /\ j = 0
    /\ players[i].isSeeker
    /\ j' = 1
    /\ UNCHANGED <<players, i, start>>

\* (A variant of CheckHider: wherever the hider stands.)
CheckHiderAnywhere ==
    /\ j \in 1..Size
    /\ players' = [players EXCEPT ![j].isSeeker = TRUE]
    /\ j' = j + 1
    /\ UNCHANGED <<i, start>>

\* One iteration of the inner loop: SetToSeeker if the two meet.
CheckHider ==
    /\ j \in 1..Size
    /\ players' =
         IF ~ players[j].isSeeker /\ players[i].position = players[j].position
         THEN [players EXCEPT ![j].isSeeker = TRUE]
         ELSE players
    /\ j' = j + 1
    /\ UNCHANGED <<i, start>>

EndOfHiders ==
    /\ j = Size + 1
    /\ j' = 0
    /\ i' = i + 1
    /\ UNCHANGED <<players, start>>

Next == SkipHider \/ TakeSeeker \/ CheckHider \/ EndOfHiders

Spec == Init /\ [][Next]_vars

-----------------------------------------------------------------------------

Finished == i > Size

TypeOK ==
    /\ start \in Seq(Mark)
    /\ players \in Seq(Mark) /\ Len(players) = Size
    /\ i \in 1..(Size + 1)
    /\ j \in 0..(Size + 1)

\* The loops compute Tagged: whatever the order of the vector, who is a seeker
\* at the end stood with one at the start, and everybody who did is one.
TagsTheVector == Finished => players = Tagged(start)

\* The inductive invariant of CollisionProofs.
LoopInv ==
    /\ TypeOK
    /\ \A h \in 1..Size : players[h].position = start[h].position
    \* nobody is tagged without a seeker of the start in the same place
    /\ \A h \in 1..Size :
          players[h].isSeeker =>
             \E s \in 1..Size : /\ start[s].isSeeker
                                /\ start[s].position = start[h].position
    /\ \A s \in 1..Size : start[s].isSeeker => players[s].isSeeker
    \* the seekers of the start whose turn is over have tagged everybody
    /\ \A s, h \in 1..Size :
          s < i /\ start[s].isSeeker /\ start[s].position = start[h].position
             => players[h].isSeeker
    \* the seeker whose turn it is has tagged everybody before j
    /\ j > 0 => /\ i <= Size
                /\ players[i].isSeeker
                /\ \A h \in 1..Size :
                      h < j /\ start[h].position = start[i].position
                         => players[h].isSeeker
=============================================================================
