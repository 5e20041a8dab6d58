--------------------------- MODULE PacketsProofs ---------------------------
(***************************************************************************)
(* The bytes of a packet: every field is read from where it was written,   *)
(* and nothing of what fits into the buffers is written beyond them, for   *)
(* any number of players and positions, any image and any buffer.          *)
(***************************************************************************)
EXTENDS Packets, SequenceTheorems, WellFoundedInduction, TLAPS

-----------------------------------------------------------------------------
(***************************************************************************)
(* Fields one behind the other.                                            *)
(***************************************************************************)

LEMMA FirstOf ==
    ASSUME NEW S \in SUBSET Nat, S # {}
    PROVE  \E i \in S : \A j \in S : i <= j
<1> DEFINE less == { p \in Nat \X Nat : p[1] < p[2] }
<1>1. IsWellFoundedOn(less, Nat)
  BY NatLessThanWellFounded DEF OpToRel
<1>2. PICK i \in S : \A j \in S : ~ (<<j, i>> \in less)
  BY <1>1, WFMin
<1>3. \A j \in S : i <= j
  <2> SUFFICES ASSUME NEW j \in S, j < i PROVE FALSE
    OBVIOUS
  <2>1. <<j, i>> \in Nat \X Nat /\ <<j, i>>[1] < <<j, i>>[2]
    OBVIOUS
  <2> QED
    BY <2>1, <1>2
<1> QED
  BY <1>3

\* f adds up the lengths from `at`.
Sums(f, n, at, lengths) ==
    /\ f \in [0..n -> Nat]
    /\ f[0] = at
    /\ \A k \in 1..n : f[k] = f[k - 1] + lengths[k]

LEMMA SumsExist ==
    ASSUME NEW n \in Nat, NEW at \in Nat, NEW lengths \in [1..n -> Nat]
    PROVE  \E f : Sums(f, n, at, lengths)
<1> DEFINE Bad == { m \in 0..n : ~ \E f : Sums(f, m, at, lengths) }
<1>1. SUFFICES ASSUME Bad # {} PROVE FALSE
  <2>1. n \in 0..n
    OBVIOUS
  <2> QED
    BY <2>1
<1>2. PICK m \in Bad : \A j \in Bad : m <= j
  <2> HIDE DEF Bad
  <2>1. Bad \in SUBSET Nat
    BY DEF Bad
  <2> QED
    BY <1>1, <2>1, FirstOf
<1>3. m # 0
  <2> SUFFICES ASSUME m = 0 PROVE FALSE
    OBVIOUS
  <2> DEFINE f == [k \in 0..0 |-> at]
  <2>1. Sums(f, 0, at, lengths)
    BY DEF Sums
  <2> QED
    BY <2>1
<1>4. m \in Nat /\ m - 1 \in 0..n /\ m \in 1..n /\ ~ (m - 1 \in Bad)
  BY <1>2, <1>3
<1>5. PICK g : Sums(g, m - 1, at, lengths)
  BY <1>4
<1> DEFINE f == [k \in 0..m |-> IF k = m THEN g[m - 1] + lengths[m] ELSE g[k]]
<1>6. f \in [0..m -> Nat]
  <2> SUFFICES ASSUME NEW k \in 0..m
               PROVE  (IF k = m THEN g[m - 1] + lengths[m] ELSE g[k]) \in Nat
    OBVIOUS
  <2>1. m - 1 \in 0..(m - 1) /\ (k # m => k \in 0..(m - 1))
    BY <1>4
  <2>2. g[m - 1] \in Nat /\ (k # m => g[k] \in Nat) /\ lengths[m] \in Nat
    BY <2>1, <1>4, <1>5 DEF Sums
  <2> QED
    BY <2>2
<1>7. f[0] = at
  BY <1>3, <1>4, <1>5 DEF Sums
<1>8. \A k \in 1..m : f[k] = f[k - 1] + lengths[k]
  <2> SUFFICES ASSUME NEW k \in 1..m PROVE f[k] = f[k - 1] + lengths[k]
    OBVIOUS
  <2>1. k \in 0..m /\ k - 1 \in 0..m /\ k - 1 # m
    BY <1>4
  <2>2. CASE k = m
    BY <2>1, <2>2
  <2>3. CASE k # m
    <3>1. k \in 1..(m - 1)
      BY <2>3, <1>4
    <3> QED
      BY <3>1, <2>1, <2>3, <1>5 DEF Sums
  <2> QED
    BY <2>2, <2>3
<1>9. Sums(f, m, at, lengths)
  BY <1>6, <1>7, <1>8 DEF Sums
<1> QED
  BY <1>9, <1>2

LEMMA SumsGrow ==
    ASSUME NEW n \in Nat, NEW at \in Nat, NEW lengths \in [1..n -> Nat],
           NEW f, Sums(f, n, at, lengths), NEW i \in 0..n, NEW j \in i..n
    PROVE  f[i] <= f[j]
<1> DEFINE Bad == { k \in i..n : ~ (f[i] <= f[k]) }
<1>0. \A k \in 0..n : f[k] \in Nat
  BY DEF Sums
<1>1. SUFFICES ASSUME Bad # {} PROVE FALSE
  OBVIOUS
<1>2. PICK m \in Bad : \A k \in Bad : m <= k
  <2>1. Bad \in SUBSET Nat
    OBVIOUS
  <2> HIDE DEF Bad
  <2> QED
    BY <1>1, <2>1, FirstOf
<1>3. m # i /\ m \in 1..n /\ m - 1 \in i..n /\ m - 1 \in 0..n
  BY <1>2, <1>0
<1>4. f[i] <= f[m - 1]
  BY <1>2, <1>3
<1>5. f[m] = f[m - 1] + lengths[m] /\ lengths[m] \in Nat
  BY <1>3 DEF Sums
<1> QED
  BY <1>0, <1>2, <1>3, <1>4, <1>5

Lengths(fields, imageLength) == [k \in DOMAIN fields |-> LengthOf(fields[k], imageLength)]

LEMMA LengthsOfFields ==
    ASSUME NEW fields \in Seq(Fields), NEW imageLength \in Nat
    PROVE  /\ Len(fields) \in Nat /\ DOMAIN fields = 1..Len(fields)
           /\ Lengths(fields, imageLength) \in [1..Len(fields) -> Nat]
<1>1. Len(fields) \in Nat /\ DOMAIN fields = 1..Len(fields)
  BY LenProperties
<1> QED
  BY <1>1 DEF Lengths, LengthOf, Word

\* The fields lie where f says, and end where it ends.
LaidOut(own, fields, of, length, f) ==
    /\ own.end = f[Len(fields)]
    /\ own.blocks = {Block(fields[k], of, f[k - 1], length[k]) : k \in DOMAIN fields}

\* The numbers that Consecutive counts are these sums.
LEMMA ConsecutiveSums ==
    ASSUME NEW fields \in Seq(Fields), NEW of, NEW at \in Nat, NEW imageLength \in Nat
    PROVE  \E f : /\ Sums(f, Len(fields), at, Lengths(fields, imageLength))
                 /\ LaidOut(Consecutive(fields, of, at, imageLength), fields, of,
                            Lengths(fields, imageLength), f)
<1> DEFINE n == Len(fields)
           length == [k \in DOMAIN fields |-> LengthOf(fields[k], imageLength)]
           end[k \in 0..n] == IF k = 0 THEN at ELSE end[k - 1] + length[k]
<1>1. n \in Nat /\ DOMAIN fields = 1..n /\ length \in [1..n -> Nat]
  BY LengthsOfFields DEF Lengths
<1>2. length = Lengths(fields, imageLength)
  BY DEF Lengths
<1> HIDE DEF n
<1>3. PICK f : Sums(f, n, at, length)
  <2> HIDE DEF length
  <2> QED
    BY <1>1, SumsExist
<1>4. f = [k \in 0..n |-> IF k = 0 THEN at ELSE f[k - 1] + length[k]]
  <2> HIDE DEF length
  <2> QED
    BY <1>1, <1>3 DEF Sums
<1>5. end = [k \in 0..n |-> IF k = 0 THEN at ELSE end[k - 1] + length[k]]
  <2> HIDE DEF length
  <2> QED
    BY <1>4
<1> HIDE DEF end
<1>6. Sums(end, n, at, length)
  <2> HIDE DEF length
  <2> DEFINE Bad == { k \in 0..n : end[k] # f[k] }
  <2>1. ASSUME Bad # {} PROVE FALSE
    <3>1. Bad \in SUBSET Nat
      OBVIOUS
    <3>2. PICK m \in Bad : \A k \in Bad : m <= k
      <4> HIDE DEF Bad
      <4> QED
        BY <2>1, <3>1, FirstOf
    <3>3. m # 0 /\ m - 1 \in 0..n /\ m \in 1..n /\ m \in 0..n
      BY <3>2, <1>1, <1>5, <1>3 DEF Sums
    <3>4. end[m - 1] = f[m - 1]
      BY <3>2, <3>3
    <3>5. end[m] = end[m - 1] + length[m]
      BY <3>3, <1>5
    <3> QED
      BY <3>2, <3>3, <3>4, <3>5, <1>3 DEF Sums
  <2>2. \A k \in 0..n : end[k] = f[k]
    BY <2>1
  <2>3. end = f
    BY <2>2, <1>5, <1>3 DEF Sums
  <2> QED
    BY <2>3, <1>3
<1>7. Consecutive(fields, of, at, imageLength) =
        [blocks |-> {Block(fields[k], of, end[k - 1], length[k]) : k \in DOMAIN fields},
         end |-> end[n]]
  BY DEF Consecutive, end, n
<1> HIDE DEF length
<1> QED
  BY <1>2, <1>6, <1>7 DEF n, LaidOut

\* Blocks lie apart, between two places.
Packed(blocks, from, to) ==
    /\ \A b \in blocks : /\ b.at \in Nat /\ b.length \in Nat
                        /\ from <= b.at /\ b.at + b.length <= to
    /\ \A b, c \in blocks :
          b # c => b.at + b.length <= c.at \/ c.at + c.length <= b.at

LEMMA ConsecutivePacked ==
    ASSUME NEW fields \in Seq(Fields), NEW of, NEW at \in Nat, NEW imageLength \in Nat
    PROVE  LET own == Consecutive(fields, of, at, imageLength)
           IN  own.end \in Nat /\ at <= own.end /\ Packed(own.blocks, at, own.end)
<1> DEFINE own == Consecutive(fields, of, at, imageLength)
           n == Len(fields)
           length == Lengths(fields, imageLength)
<1>1. n \in Nat /\ DOMAIN fields = 1..n /\ length \in [1..n -> Nat]
  BY LengthsOfFields
<1>2. PICK f : Sums(f, n, at, length) /\ LaidOut(own, fields, of, length, f)
  BY ConsecutiveSums
<1> HIDE DEF own, n, length
<1>4. own.end = f[n] /\ own.blocks = {Block(fields[k], of, f[k - 1], length[k]) : k \in 1..n}
  BY <1>1, <1>2 DEF LaidOut, n
<1>5. \A k \in 0..n : f[k] \in Nat
  BY <1>2 DEF Sums
<1>6. \A i \in 0..n : \A j \in i..n : f[i] <= f[j]
  BY <1>1, <1>2, SumsGrow
<1>7. \A k \in 1..n : /\ k - 1 \in 0..n /\ k \in 0..n /\ length[k] \in Nat
                      /\ f[k - 1] + length[k] = f[k]
  BY <1>1, <1>2 DEF Sums
<1>8. own.end \in Nat /\ at <= own.end
  <2>1. 0 \in 0..n /\ n \in 0..n /\ f[0] = at
    BY <1>1, <1>2 DEF Sums
  <2> QED
    BY <2>1, <1>4, <1>5, <1>6
<1>9. ASSUME NEW b \in own.blocks
      PROVE  b.at \in Nat /\ b.length \in Nat /\ at <= b.at /\ b.at + b.length <= own.end
  <2>1. PICK k \in 1..n : b = Block(fields[k], of, f[k - 1], length[k])
    BY <1>4
  <2>2. b.at = f[k - 1] /\ b.length = length[k]
    BY <2>1 DEF Block
  <2>3. f[0] <= f[k - 1] /\ f[k] <= f[n] /\ f[0] = at
    BY <1>1, <1>2, <1>6, <1>7 DEF Sums
  <2> QED
    BY <2>2, <2>3, <1>4, <1>5, <1>7
<1>10. ASSUME NEW b \in own.blocks, NEW c \in own.blocks, b # c
       PROVE  b.at + b.length <= c.at \/ c.at + c.length <= b.at
  <2>1. PICK k \in 1..n : b = Block(fields[k], of, f[k - 1], length[k])
    BY <1>4
  <2>2. PICK l \in 1..n : c = Block(fields[l], of, f[l - 1], length[l])
    BY <1>4
  <2>3. /\ b.at = f[k - 1] /\ b.at + b.length = f[k]
        /\ c.at = f[l - 1] /\ c.at + c.length = f[l]
    BY <2>1, <2>2, <1>7 DEF Block
  <2>4. CASE k < l
    <3>1. l - 1 \in k..n /\ k \in 0..n
      BY <2>4, <1>1
    <3> QED
      BY <3>1, <2>3, <1>6
  <2>5. CASE l < k
    <3>1. k - 1 \in l..n /\ l \in 0..n
      BY <2>5, <1>1
    <3> QED
      BY <3>1, <2>3, <1>6
  <2>6. k # l
    BY <1>10, <2>1, <2>2
  <2> QED
    BY <2>4, <2>5, <2>6, <1>1
<1>11. Packed(own.blocks, at, own.end)
  BY <1>9, <1>10 DEF Packed
<1> QED
  BY <1>8, <1>11 DEF own

Blocks == [field : Fields, of : Nat, at : Nat, length : Nat]

LEMMA ConsecutiveBlocks ==
    ASSUME NEW fields \in Seq(Fields), NEW of \in Nat, NEW at \in Nat,
           NEW imageLength \in Nat
    PROVE  Consecutive(fields, of, at, imageLength).blocks \subseteq Blocks
<1> DEFINE n == Len(fields)
           length == Lengths(fields, imageLength)
           blocks == Consecutive(fields, of, at, imageLength).blocks
<1>1. n \in Nat /\ DOMAIN fields = 1..n /\ length \in [1..n -> Nat]
  BY LengthsOfFields
<1>2. PICK f : Sums(f, n, at, length) /\ LaidOut(Consecutive(fields, of, at, imageLength),
                                                fields, of, length, f)
  BY ConsecutiveSums
<1>3. blocks = {Block(fields[k], of, f[k - 1], length[k]) : k \in DOMAIN fields}
  BY <1>2 DEF LaidOut
<1> HIDE DEF blocks, n, length
<1>4. SUFFICES ASSUME NEW k \in 1..n
               PROVE  Block(fields[k], of, f[k - 1], length[k]) \in Blocks
  BY <1>1, <1>3 DEF blocks
<1>5. fields[k] \in Fields /\ length[k] \in Nat
  <2>1. k \in DOMAIN fields
    BY <1>1
  <2>2. fields[k] \in Fields
    BY <2>1, ElementOfSeq, <1>1 DEF n
  <2> QED
    BY <2>2, <1>1
<1>6. f[k - 1] \in Nat
  <2>1. k - 1 \in 0..n
    BY <1>1
  <2> QED
    BY <2>1, <1>2 DEF Sums
<1> QED
  BY <1>5, <1>6 DEF Block, Blocks

LEMMA EndOfFields ==
    ASSUME NEW fields \in Seq(Fields), NEW of, NEW at \in Nat, NEW imageLength \in Nat
    PROVE  LET end == Consecutive(fields, of, at, imageLength).end
               length == Lengths(fields, imageLength)
           IN  /\ Len(fields) = 1 => end = at + length[1]
               /\ Len(fields) = 2 => end = at + length[1] + length[2]
               /\ Len(fields) = 3 => end = at + length[1] + length[2] + length[3]
               /\ Len(fields) = 4 => end = at + length[1] + length[2] + length[3] + length[4]
               /\ Len(fields) = 5 => end = at + length[1] + length[2] + length[3] + length[4]
                                           + length[5]
<1> DEFINE end == Consecutive(fields, of, at, imageLength).end
           n == Len(fields)
           length == Lengths(fields, imageLength)
<1>1. n \in Nat /\ length \in [1..n -> Nat]
  BY LengthsOfFields
<1>2. PICK f : Sums(f, n, at, length) /\ LaidOut(Consecutive(fields, of, at, imageLength),
                                                fields, of, length, f)
  BY ConsecutiveSums
<1>3. end = f[n]
  BY <1>2 DEF LaidOut
<1> HIDE DEF end, n, length
<1>4. f[0] = at /\ \A k \in 1..n : f[k] = f[k - 1] + length[k] /\ length[k] \in Nat
  BY <1>1, <1>2 DEF Sums
<1>5. n >= 1 => f[1] = f[0] + length[1] /\ length[1] \in Nat
  BY <1>1, <1>4
<1>6. n >= 2 => f[2] = f[1] + length[2] /\ length[2] \in Nat
  BY <1>1, <1>4
<1>7. n >= 3 => f[3] = f[2] + length[3] /\ length[3] \in Nat
  BY <1>1, <1>4
<1>8. n >= 4 => f[4] = f[3] + length[4] /\ length[4] \in Nat
  BY <1>1, <1>4
<1>9. n >= 5 => f[5] = f[4] + length[5] /\ length[5] \in Nat
  BY <1>1, <1>4
<1>10. n = 1 => end = at + length[1]
  BY <1>3, <1>4, <1>5
<1>11. n = 2 => end = at + length[1] + length[2]
  BY <1>3, <1>4, <1>5, <1>6
<1>12. n = 3 => end = at + length[1] + length[2] + length[3]
  BY <1>3, <1>4, <1>5, <1>6, <1>7
<1>13. n = 4 => end = at + length[1] + length[2] + length[3] + length[4]
  BY <1>3, <1>4, <1>5, <1>6, <1>7, <1>8
<1>14. n = 5 => end = at + length[1] + length[2] + length[3] + length[4] + length[5]
  BY <1>3, <1>4, <1>5, <1>6, <1>7, <1>8, <1>9
<1> QED
  BY <1>10, <1>11, <1>12, <1>13, <1>14 DEF end, n, length

-----------------------------------------------------------------------------
(***************************************************************************)
(* What is written for an actor.                                           *)
(***************************************************************************)

\* The bytes of a whole object.
IsWhole(object, n) == object.size = n /\ Packed(object.blocks, 0, n)

LEMMA ActorIsWhole ==
    ASSUME NEW of
    PROVE  IsWhole(Actor(of), 8)
<1> DEFINE fields == <<"position">>
           own == Consecutive(fields, of, 0, 0)
<1>1. fields \in Seq(Fields) /\ Len(fields) = 1
  BY DEF Fields
<1>2. Lengths(fields, 0)[1] = 8
  BY DEF Lengths, LengthOf, Word
<1> HIDE DEF fields
<1>3. own.end = 8
  BY <1>1, <1>2, EndOfFields
<1>4. Packed(own.blocks, 0, own.end)
  BY <1>1, ConsecutivePacked
<1> QED
  BY <1>3, <1>4 DEF IsWhole, Actor, fields

\* Two times the size of the base class is added: the fields stay apart.
LEMMA ExtendedIsWhole ==
    ASSUME NEW base, NEW own, NEW n \in Nat, NEW m \in Nat, n <= m,
           IsWhole(base, n), Packed(own.blocks, n, m), own.end = m
    PROVE  IsWhole(Extended(base, own), n + m)
<1> DEFINE blocks == base.blocks \cup own.blocks
<1>1. ASSUME NEW b \in blocks
      PROVE  b.at \in Nat /\ b.length \in Nat /\ 0 <= b.at /\ b.at + b.length <= n + m
  BY DEF IsWhole, Packed
<1>2. ASSUME NEW b \in blocks, NEW c \in blocks, b # c
      PROVE  b.at + b.length <= c.at \/ c.at + c.length <= b.at
  <2>1. CASE b \in base.blocks /\ c \in base.blocks
    BY <1>2, <2>1 DEF IsWhole, Packed
  <2>2. CASE b \in own.blocks /\ c \in own.blocks
    BY <1>2, <2>2 DEF Packed
  <2>3. CASE b \in base.blocks /\ c \in own.blocks
    BY <2>3 DEF IsWhole, Packed
  <2>4. CASE b \in own.blocks /\ c \in base.blocks
    BY <2>4 DEF IsWhole, Packed
  <2> QED
    BY <2>1, <2>2, <2>3, <2>4
<1>3. Packed(blocks, 0, n + m)
  BY <1>1, <1>2 DEF Packed
<1>4. Extended(base, own).blocks = blocks /\ Extended(base, own).size = n + m
  BY DEF Extended, IsWhole
<1> QED
  BY <1>3, <1>4 DEF IsWhole

LEMMA DrawableIsWhole ==
    ASSUME NEW of, NEW imageLength \in Nat
    PROVE  IsWhole(SerializedDrawable(of, imageLength), 28 + imageLength)
<1> DEFINE own == Consecutive(DrawableFields, of, 8, imageLength)
<1>1. DrawableFields \in Seq(Fields) /\ Len(DrawableFields) = 4
  BY DEF Fields, DrawableFields
<1>2. LET length == Lengths(DrawableFields, imageLength)
      IN  length[1] = 4 /\ length[2] = 4 /\ length[3] = 4 /\ length[4] = imageLength
  BY DEF Lengths, LengthOf, Word, DrawableFields
<1>3. own.end = 20 + imageLength
  BY <1>1, <1>2, EndOfFields
<1>4. Packed(own.blocks, 8, own.end)
  BY <1>1, ConsecutivePacked
<1>5. IsWhole(Actor(of), 8)
  BY ActorIsWhole
<1>6. SerializedDrawable(of, imageLength) = Extended(Actor(of), own)
  BY <1>5 DEF SerializedDrawable, IsWhole
<1> HIDE DEF own
<1>7. IsWhole(Extended(Actor(of), own), 8 + (20 + imageLength))
  BY <1>3, <1>4, <1>5, ExtendedIsWhole
<1> QED
  BY <1>6, <1>7

LEMMA PlayerIsWhole ==
    ASSUME NEW of
    PROVE  IsWhole(SerializedPlayer(of), 68)
<1> DEFINE fields == <<"id", "isSeeker">>
           base == SerializedDrawable(of, Letter)
           own == Consecutive(fields, of, 30, 0)
<1>1. fields \in Seq(Fields) /\ Len(fields) = 2
  BY DEF Fields
<1>2. Lengths(fields, 0)[1] = 4 /\ Lengths(fields, 0)[2] = 4
  BY DEF Lengths, LengthOf, Word
<1>3. IsWhole(base, 30)
  <2>1. IsWhole(base, 28 + Letter)
    BY DrawableIsWhole DEF Letter
  <2> QED
    BY <2>1 DEF Letter
<1>4. SerializedPlayer(of) = Extended(base, own)
  BY <1>3 DEF SerializedPlayer, IsWhole
<1> HIDE DEF fields, base
<1>5. own.end = 38
  BY <1>1, <1>2, EndOfFields
<1>6. Packed(own.blocks, 30, own.end)
  BY <1>1, ConsecutivePacked
<1> HIDE DEF own
<1>7. IsWhole(Extended(base, own), 30 + 38)
  BY <1>3, <1>5, <1>6, ExtendedIsWhole
<1> QED
  BY <1>4, <1>7

-----------------------------------------------------------------------------
(***************************************************************************)
(* What is written for a level and for a path.                             *)
(***************************************************************************)

State == "GAME_STATE_SYNCHRONIZE"
Path == "MOVE_PATH"

\* SerializedElement without the state.
Element(k, of) == IF k = Path THEN Actor(of) ELSE SerializedPlayer(of)

ElementSize(k) == IF k = Path THEN 8 ELSE 68

\* The size of the variable part with n elements.
SizeOf(k, i, n) == (IF k = State THEN 32 + i ELSE 0) + ElementSize(k) * n

MapOf(i) ==
    LET map == SerializedDrawable(0, i)
    IN  map.blocks \cup Consecutive(<<"playerCount">>, 0, map.size, 0).blocks

\* The blocks of the variable part with n elements.
Written(k, i, n) ==
    (IF k = State THEN MapOf(i) ELSE {})
      \cup UNION { At(Element(k, j).blocks, SizeOf(k, i, j - 1)) : j \in 1..n }

LEMMA MapIsWhole ==
    ASSUME NEW i \in Nat
    PROVE  LET map == SerializedDrawable(0, i)
           IN  /\ Consecutive(<<"playerCount">>, 0, map.size, 0).end = 32 + i
               /\ Packed(MapOf(i), 0, 32 + i)
<1> DEFINE map == SerializedDrawable(0, i)
           fields == <<"playerCount">>
           own == Consecutive(fields, 0, map.size, 0)
<1>1. map.size = 28 + i /\ Packed(map.blocks, 0, 28 + i)
  BY DrawableIsWhole DEF IsWhole
<1> HIDE DEF map
<1>2. fields \in Seq(Fields) /\ Len(fields) = 1
  BY DEF Fields
<1>3. Lengths(fields, 0)[1] = 4
  BY DEF Lengths, LengthOf, Word
<1> HIDE DEF fields
<1>4. own.end = 32 + i
  BY <1>1, <1>2, <1>3, EndOfFields
<1>5. Packed(own.blocks, 28 + i, 32 + i)
  <2>1. Packed(own.blocks, map.size, own.end)
    BY <1>1, <1>2, ConsecutivePacked
  <2> QED
    BY <2>1, <1>1, <1>4
<1> HIDE DEF own
<1>6. Packed(map.blocks \cup own.blocks, 0, 32 + i)
  BY <1>1, <1>5 DEF Packed
<1> QED
  BY <1>4, <1>6 DEF MapOf, map, own, fields

LEMMA ElementIsWhole ==
    ASSUME NEW k, NEW of
    PROVE  IsWhole(Element(k, of), ElementSize(k)) /\ ElementSize(k) \in {8, 68}
BY ActorIsWhole, PlayerIsWhole DEF Element, ElementSize

LEMMA SizeSteps ==
    ASSUME NEW k, NEW i \in Nat, NEW n \in Nat
    PROVE  /\ SizeOf(k, i, n) \in Nat
           /\ SizeOf(k, i, n + 1) = SizeOf(k, i, n) + ElementSize(k)
           /\ \A m \in Nat : m <= n => SizeOf(k, i, m) <= SizeOf(k, i, n)
<1>1. CASE k = Path
  BY <1>1 DEF SizeOf, ElementSize, Path, State
<1>2. CASE k # Path
  BY <1>2 DEF SizeOf, ElementSize
<1> QED
  BY <1>1, <1>2

LEMMA WrittenSteps ==
    ASSUME NEW k, NEW i \in Nat, NEW n \in Nat
    PROVE  Written(k, i, n + 1) =
             Written(k, i, n) \cup At(Element(k, n + 1).blocks, SizeOf(k, i, n))
<1> DEFINE Part(j) == At(Element(k, j).blocks, SizeOf(k, i, j - 1))
           Parts(m) == UNION { Part(j) : j \in 1..m }
<1>1. Part(n + 1) = At(Element(k, n + 1).blocks, SizeOf(k, i, n))
  <2>1. n + 1 - 1 = n
    OBVIOUS
  <2> QED
    BY <2>1
<1>2. ASSUME NEW m \in Nat, NEW b
      PROVE  b \in Parts(m) <=> \E j \in 1..m : b \in Part(j)
  <2> HIDE DEF Part
  <2> QED
    OBVIOUS
<1> HIDE DEF Part, Parts
<1>3. Parts(n + 1) = Parts(n) \cup Part(n + 1)
  <2>1. ASSUME NEW b
        PROVE  b \in Parts(n + 1) <=> b \in Parts(n) \/ b \in Part(n + 1)
    <3>1. b \in Parts(n + 1) <=> \E j \in 1..(n + 1) : b \in Part(j)
      BY <1>2
    <3>2. b \in Parts(n) <=> \E j \in 1..n : b \in Part(j)
      BY <1>2
    <3>3. \A j : j \in 1..(n + 1) <=> j \in 1..n \/ j = n + 1
      OBVIOUS
    <3> QED
      BY <3>1, <3>2, <3>3, Zenon
  <2> QED
    BY <2>1
<1> QED
  BY <1>1, <1>3 DEF Written, Part, Parts

LEMMA WrittenGrows ==
    ASSUME NEW k, NEW i \in Nat, NEW n \in Nat, NEW m \in Nat, m <= n
    PROVE  Written(k, i, m) \subseteq Written(k, i, n)
BY DEF Written

\* Moved blocks are as long and as far apart as before.
LEMMA MovedPacked ==
    ASSUME NEW blocks, NEW to \in Nat, Packed(blocks, 0, to), NEW start \in Nat,
           blocks \subseteq Blocks
    PROVE  Packed(At(blocks, start), start, start + to)
<1>1. ASSUME NEW b \in At(blocks, start)
      PROVE  \E a \in blocks : b.at = a.at + start /\ b.length = a.length
                               /\ b = [a EXCEPT !.at = a.at + start]
  <2>1. PICK a \in blocks : b = [a EXCEPT !.at = a.at + start]
    BY DEF At
  <2>2. a \in [field : Fields, of : Nat, at : Nat, length : Nat]
    BY DEF Blocks
  <2>3. b.at = a.at + start /\ b.length = a.length
    BY <2>1, <2>2
  <2> QED
    BY <2>1, <2>3
<1>2. ASSUME NEW b \in At(blocks, start)
      PROVE  /\ b.at \in Nat /\ b.length \in Nat
             /\ start <= b.at /\ b.at + b.length <= start + to
  BY <1>1 DEF Packed
<1>3. ASSUME NEW b \in At(blocks, start), NEW c \in At(blocks, start), b # c
      PROVE  b.at + b.length <= c.at \/ c.at + c.length <= b.at
  <2>1. PICK a \in blocks : b.at = a.at + start /\ b.length = a.length
                            /\ b = [a EXCEPT !.at = a.at + start]
    BY <1>1
  <2>2. PICK d \in blocks : c.at = d.at + start /\ c.length = d.length
                            /\ c = [d EXCEPT !.at = d.at + start]
    BY <1>1
  <2>3. a # d
    BY <1>3, <2>1, <2>2
  <2> QED
    BY <2>1, <2>2, <2>3 DEF Packed
<1> QED
  BY <1>2, <1>3 DEF Packed

LEMMA ElementBlocks ==
    ASSUME NEW k, NEW of \in Nat
    PROVE  Element(k, of).blocks \subseteq Blocks
<1> DEFINE player == <<"id", "isSeeker">>
           drawable == SerializedDrawable(of, Letter)
<1>1. Actor(of).blocks \subseteq Blocks
  <2>1. <<"position">> \in Seq(Fields)
    BY DEF Fields
  <2>2. Consecutive(<<"position">>, of, 0, 0).blocks \subseteq Blocks
    BY <2>1, ConsecutiveBlocks
  <2> QED
    BY <2>2 DEF Actor
<1>2. drawable.blocks \subseteq Blocks
  <2>1. DrawableFields \in Seq(Fields) /\ Actor(of).size = 8 /\ Letter \in Nat
    BY ActorIsWhole DEF Fields, DrawableFields, IsWhole, Letter
  <2>2. Consecutive(DrawableFields, of, Actor(of).size, Letter).blocks \subseteq Blocks
    BY <2>1, ConsecutiveBlocks
  <2> QED
    BY <1>1, <2>2 DEF SerializedDrawable, Extended
<1>3. SerializedPlayer(of).blocks \subseteq Blocks
  <2>1. player \in Seq(Fields)
    BY DEF Fields
  <2>2. drawable.size \in Nat
    BY DrawableIsWhole DEF IsWhole, Letter
  <2> HIDE DEF player
  <2>3. Consecutive(player, of, drawable.size, 0).blocks \subseteq Blocks
    BY <2>1, <2>2, ConsecutiveBlocks
  <2> QED
    BY <1>2, <2>3 DEF SerializedPlayer, Extended, player
<1> QED
  BY <1>1, <1>3 DEF Element

\* However many elements there are, nothing is written over anything else.
LEMMA WrittenPacked ==
    ASSUME NEW k, NEW i \in Nat, NEW n \in Nat
    PROVE  Packed(Written(k, i, n), 0, SizeOf(k, i, n))
<1> DEFINE Part(j) == At(Element(k, j).blocks, SizeOf(k, i, j - 1))
           Base == IF k = State THEN MapOf(i) ELSE {}
           end(j) == SizeOf(k, i, j)
<1>1. ASSUME NEW j \in 0..n PROVE end(j) \in Nat
  BY j \in Nat, SizeSteps
<1>2. ASSUME NEW j \in 1..n
      PROVE  end(j - 1) <= end(j) /\ Packed(Part(j), end(j - 1), end(j))
  <2>1. j - 1 \in Nat /\ j - 1 + 1 = j /\ j \in Nat
    OBVIOUS
  <2>2. end(j - 1) \in Nat /\ end(j) = end(j - 1) + ElementSize(k)
    BY <2>1, SizeSteps
  <2>3. ElementSize(k) \in Nat /\ Packed(Element(k, j).blocks, 0, ElementSize(k))
    BY ElementIsWhole DEF IsWhole
  <2>4. Element(k, j).blocks \subseteq Blocks
    BY <2>1, ElementBlocks
  <2> HIDE DEF end
  <2>5. Packed(At(Element(k, j).blocks, end(j - 1)), end(j - 1),
               end(j - 1) + ElementSize(k))
    BY <2>2, <2>3, <2>4, MovedPacked
  <2> QED
    BY <2>2, <2>3, <2>5 DEF end
<1>3. Packed(Base, 0, end(0))
  <2>1. CASE k = State
    <3>1. SizeOf(k, i, 0) = 32 + i
      BY <2>1 DEF SizeOf, ElementSize
    <3>2. Packed(MapOf(i), 0, 32 + i)
      BY MapIsWhole
    <3> QED
      BY <2>1, <3>1, <3>2
  <2>2. CASE k # State
    BY <2>2 DEF Packed
  <2> QED
    BY <2>1, <2>2
<1>4. ASSUME NEW j \in 0..n, NEW l \in 0..j PROVE end(l) <= end(j)
  BY j \in Nat, l \in Nat, l <= j, SizeSteps
<1>5. ASSUME NEW b \in Written(k, i, n)
      PROVE  b \in Base \/ \E j \in 1..n : b \in Part(j)
  BY DEF Written
<1> HIDE DEF Part, Base, end
<1>6. ASSUME NEW b \in Written(k, i, n)
      PROVE  b.at \in Nat /\ b.length \in Nat /\ 0 <= b.at /\ b.at + b.length <= end(n)
  <2>1. CASE b \in Base
    <3>1. b.at \in Nat /\ b.length \in Nat /\ b.at + b.length <= end(0)
      BY <2>1, <1>3 DEF Packed
    <3>2. end(0) <= end(n) /\ end(0) \in Nat /\ end(n) \in Nat
      BY <1>1, <1>4
    <3> QED
      BY <3>1, <3>2
  <2>2. ASSUME NEW j \in 1..n, b \in Part(j)
        PROVE  b.at \in Nat /\ b.length \in Nat /\ b.at + b.length <= end(n)
    <3>1. b.at \in Nat /\ b.length \in Nat /\ b.at + b.length <= end(j)
      BY <2>2, <1>2 DEF Packed
    <3>2. end(j) <= end(n) /\ end(j) \in Nat /\ end(n) \in Nat
      BY <1>1, <1>4
    <3> QED
      BY <3>1, <3>2
  <2> QED
    BY <2>1, <2>2, <1>5
\* Behind the map, and behind the elements before it, comes each element.
<1>7. ASSUME NEW b \in Base, NEW j \in 1..n, NEW c \in Part(j)
      PROVE  b.at + b.length <= c.at
  <2>1. end(0) <= end(j - 1) /\ end(0) \in Nat /\ end(j - 1) \in Nat
    <3>1. j - 1 \in 0..n /\ 0 \in 0..(j - 1) /\ 0 \in 0..n
      OBVIOUS
    <3> QED
      BY <3>1, <1>1, <1>4
  <2> QED
    BY <2>1, <1>2, <1>3 DEF Packed
<1>8. ASSUME NEW j \in 1..n, NEW l \in 1..n, j < l, NEW b \in Part(j), NEW c \in Part(l)
      PROVE  b.at + b.length <= c.at
  <2>1. end(j) <= end(l - 1) /\ end(j) \in Nat /\ end(l - 1) \in Nat
    <3>1. l - 1 \in 0..n /\ j \in 0..(l - 1) /\ j \in 0..n
      BY <1>8
    <3> QED
      BY <3>1, <1>1, <1>4
  <2> QED
    BY <2>1, <1>2 DEF Packed
<1>9. ASSUME NEW b \in Written(k, i, n), NEW c \in Written(k, i, n), b # c
      PROVE  b.at + b.length <= c.at \/ c.at + c.length <= b.at
  <2>1. CASE b \in Base /\ c \in Base
    BY <1>9, <2>1, <1>3 DEF Packed
  <2>2. CASE b \in Base /\ c \notin Base
    BY <2>2, <1>5, <1>7
  <2>3. CASE b \notin Base /\ c \in Base
    BY <2>3, <1>5, <1>7
  <2>4. CASE b \notin Base /\ c \notin Base
    <3>1. PICK j \in 1..n : b \in Part(j)
      BY <2>4, <1>5
    <3>2. PICK l \in 1..n : c \in Part(l)
      BY <2>4, <1>5
    <3>3. CASE j = l
      BY <1>9, <3>1, <3>2, <3>3, <1>2 DEF Packed
    <3>4. CASE j < l
      BY <3>1, <3>2, <3>4, <1>8
    <3>5. CASE l < j
      BY <3>1, <3>2, <3>5, <1>8
    <3> QED
      BY <3>3, <3>4, <3>5
  <2> QED
    BY <2>1, <2>2, <2>3, <2>4
<1> QED
  BY <1>6, <1>9 DEF Packed, end

-----------------------------------------------------------------------------
(***************************************************************************)
(* The packets.                                                            *)
(***************************************************************************)

\* What is written, and what is read, before the variable part.
FixedSize(k) ==
    CASE k = "MOUSE_INPUT" -> 24
      [] k \in {"KEY_INPUT", "MOVE_PATH"} -> 16
      [] OTHER -> 12

PacketBlocks(k, n) ==
    LET fixed == Consecutive(Fixed[k], 0, 0, 0)
    IN  fixed.blocks \cup (IF HasContent(k) THEN {Block("content", 0, fixed.end, n)} ELSE {})

Unsent == {"map", "elements", "pack"}
Sent == {"unpack", "readMap", "readElements", "done"}

\* What is serialized, of how many elements.
KindInv ==
    /\ kind \in Kinds /\ image \in Nat /\ count \in Nat /\ index \in 1..(count + 1)
    /\ stage \in Unsent \cup Sent \cup {"undefined"}
    /\ ~ HasContent(kind) => count = 0
    /\ stage \in {"map", "readMap"} => kind = State
    /\ stage \in {"elements", "readElements"} => HasContent(kind)
    /\ stage \in {"map", "pack", "unpack", "readMap"} => index = 1

\* What has been written, element by element.
WriteInv ==
    /\ stage = "map" => content = {} /\ size = 0
    /\ stage = "elements" =>
          content = Written(kind, image, index - 1) /\ size = SizeOf(kind, image, index - 1)
    /\ stage \notin {"map", "elements", "undefined"} =>
          content = Written(kind, image, count) /\ size = SizeOf(kind, image, count)
    /\ stage = "undefined" =>
          \E n \in 0..count :
             content = Written(kind, image, n) /\ size = SizeOf(kind, image, n)

SendInv ==
    /\ stage \in Unsent => packet = NoPacket
    /\ stage \in Sent =>
          packet.blocks = PacketBlocks(kind, size) /\ packet.size = FixedSize(kind) + size
    /\ stage = "undefined" =>
          packet = NoPacket \/ packet.size = FixedSize(kind) + size

\* What has been read, element by element.
ReadInv ==
    /\ stage \in Unsent \cup {"unpack", "undefined"} => packetRead = {}
    /\ stage \in Sent \ {"unpack"} => packetRead = packet.blocks
    /\ stage \in Unsent \cup {"unpack", "readMap", "undefined"} =>
          contentRead = {} /\ offset = 0
    /\ stage = "readElements" =>
          contentRead = Written(kind, image, index - 1) /\ offset = SizeOf(kind, image, index - 1)
    /\ stage = "done" => contentRead = content

PacketsInv == KindInv /\ WriteInv /\ SendInv /\ ReadInv

LEMMA FixedIsWhole ==
    ASSUME NEW k \in Kinds
    PROVE  /\ Consecutive(Fixed[k], 0, 0, 0).end = FixedSize(k)
           /\ FixedRead[k] = Fixed[k]
<1> DEFINE fields == Fixed[k]
<1>1. FixedRead[k] = Fixed[k]
  BY DEF FixedRead, Fixed
<1>2. CASE k = "KEY_INPUT"
  <2>1. fields = <<"header", "playerId", "keyCode">>
    BY <1>2 DEF Fixed
  <2>2. fields \in Seq(Fields) /\ Len(fields) = 3
    BY <2>1 DEF Fields
  <2>3. LET length == Lengths(fields, 0) IN length[1] = 8 /\ length[2] = 4 /\ length[3] = 4
    BY <2>1 DEF Lengths, LengthOf, Word
  <2> HIDE DEF fields
  <2>4. Consecutive(fields, 0, 0, 0).end = 16
    BY <2>2, <2>3, EndOfFields
  <2> QED
    BY <1>1, <1>2, <2>4 DEF fields, FixedSize
<1>3. CASE k = "MOUSE_INPUT"
  <2>1. fields = <<"header", "playerId", "keyCode", "posY", "posX">>
    BY <1>3 DEF Fixed
  <2>2. fields \in Seq(Fields) /\ Len(fields) = 5
    BY <2>1 DEF Fields
  <2>3. LET length == Lengths(fields, 0)
        IN  /\ length[1] = 8 /\ length[2] = 4 /\ length[3] = 4
            /\ length[4] = 4 /\ length[5] = 4
    BY <2>1 DEF Lengths, LengthOf, Word
  <2> HIDE DEF fields
  <2>4. Consecutive(fields, 0, 0, 0).end = 24
    BY <2>2, <2>3, EndOfFields
  <2> QED
    BY <1>1, <1>3, <2>4 DEF fields, FixedSize
<1>4. CASE k = "MOVE_PATH"
  <2>1. fields = <<"header", "pathCount", "bufferSize">>
    BY <1>4 DEF Fixed
  <2>2. fields \in Seq(Fields) /\ Len(fields) = 3
    BY <2>1 DEF Fields
  <2>3. LET length == Lengths(fields, 0) IN length[1] = 8 /\ length[2] = 4 /\ length[3] = 4
    BY <2>1 DEF Lengths, LengthOf, Word
  <2> HIDE DEF fields
  <2>4. Consecutive(fields, 0, 0, 0).end = 16
    BY <2>2, <2>3, EndOfFields
  <2> QED
    BY <1>1, <1>4, <2>4 DEF fields, FixedSize
<1>5. CASE k \in {"PLAYER_CREATE_RESPOND", "GAME_STATE_SYNCHRONIZE"}
  <2>1. PICK second \in {"playerId", "bufferSize"} : fields = <<"header", second>>
    BY <1>5 DEF Fixed
  <2>2. fields \in Seq(Fields) /\ Len(fields) = 2
    BY <2>1 DEF Fields
  <2>3. LET length == Lengths(fields, 0) IN length[1] = 8 /\ length[2] = 4
    BY <2>1 DEF Lengths, LengthOf, Word
  <2> HIDE DEF fields
  <2>4. Consecutive(fields, 0, 0, 0).end = 12
    BY <2>2, <2>3, EndOfFields
  <2> QED
    BY <1>1, <1>5, <2>4 DEF fields, FixedSize
<1> QED
  BY <1>2, <1>3, <1>4, <1>5 DEF Kinds, Fixed

LEMMA NothingWritten ==
    ASSUME NEW k, k # State, NEW i \in Nat
    PROVE  Written(k, i, 0) = {} /\ SizeOf(k, i, 0) = 0
BY DEF Written, SizeOf, ElementSize

LEMMA MapWritten ==
    ASSUME NEW i \in Nat
    PROVE  Written(State, i, 0) = MapOf(i) /\ SizeOf(State, i, 0) = 32 + i
BY DEF Written, SizeOf, ElementSize

LEMMA InitPackets == Init => PacketsInv
<1> SUFFICES ASSUME Init PROVE PacketsInv
  OBVIOUS
<1>1. /\ kind \in Kinds /\ index = 1 /\ content = {} /\ size = 0
      /\ packet = NoPacket /\ contentRead = {} /\ packetRead = {} /\ offset = 0
  BY DEF Init
<1>2. CASE kind = State
  <2>1. image \in ImageLengths /\ count \in 0..MaxPlayers /\ stage = "map"
    BY <1>2 DEF Init, State
  <2>2. KindInv
    BY <1>1, <1>2, <2>1, PacketsAssumption DEF KindInv, Unsent, Sent, State, Path, HasContent
  <2> QED
    BY <1>1, <2>1, <2>2 DEF PacketsInv, WriteInv, SendInv, ReadInv, Unsent, Sent
<1>3. CASE kind = Path
  <2>1. image = 0 /\ count \in 0..MaxPath /\ stage = "elements"
    BY <1>3 DEF Init, Path
  <2>2. KindInv
    BY <1>1, <1>3, <2>1, PacketsAssumption DEF KindInv, Unsent, Sent, State, Path, HasContent
  <2>3. Written(kind, image, index - 1) = {} /\ SizeOf(kind, image, index - 1) = 0
    BY <1>1, <1>3, <2>1, NothingWritten DEF State, Path
  <2> QED
    BY <1>1, <2>1, <2>2, <2>3 DEF PacketsInv, WriteInv, SendInv, ReadInv, Unsent, Sent
<1>4. CASE kind \notin {State, Path}
  <2>1. image = 0 /\ count = 0 /\ stage = "pack"
    BY <1>4 DEF Init, Path, State
  <2>2. KindInv
    BY <1>1, <1>4, <2>1, PacketsAssumption DEF KindInv, Unsent, Sent, State, Path, HasContent
  <2>3. Written(kind, image, count) = {} /\ SizeOf(kind, image, count) = 0
    BY <1>4, <2>1, NothingWritten
  <2> QED
    BY <1>1, <2>1, <2>2, <2>3 DEF PacketsInv, WriteInv, SendInv, ReadInv, Unsent, Sent
<1> QED
  BY <1>2, <1>3, <1>4

LEMMA NextPackets == PacketsInv /\ [Next]_vars => PacketsInv'
<1> SUFFICES ASSUME PacketsInv, [Next]_vars PROVE PacketsInv'
  OBVIOUS
<1>0. /\ KindInv /\ WriteInv /\ SendInv /\ ReadInv
      /\ image \in Nat /\ count \in Nat /\ index \in Nat /\ index - 1 \in Nat
      /\ index - 1 + 1 = index
  BY DEF PacketsInv, KindInv
<1>1. CASE SerializeMap
  <2>1. /\ stage = "map" /\ kind = State /\ index = 1
        /\ stage' \in {"elements", "undefined"}
        /\ UNCHANGED <<kind, image, count, index, receiverVars>>
    BY <1>0, <1>1 DEF SerializeMap, KindInv, AfterWriting
  <2>2. content' = Written(kind, image, 0) /\ size' = SizeOf(kind, image, 0)
    BY <1>0, <1>1, <2>1, MapIsWhole, MapWritten DEF SerializeMap, MapOf
  <2>3. KindInv'
    BY <1>0, <2>1 DEF KindInv, Unsent, Sent, State, HasContent
  <2>4. WriteInv'
    BY <1>0, <2>1, <2>2, 0 \in 0..count DEF WriteInv
  <2>5. SendInv' /\ ReadInv'
    BY <1>0, <2>1 DEF SendInv, ReadInv, Unsent, Sent, receiverVars
  <2> QED
    BY <2>3, <2>4, <2>5 DEF PacketsInv
<1>2. CASE SerializeElement
  <2>1. /\ stage = "elements" /\ index <= count /\ index' = index + 1
        /\ stage' \in {"elements", "undefined"}
        /\ UNCHANGED <<kind, image, count, receiverVars>>
    BY <1>2 DEF SerializeElement, AfterWriting
  <2>2. SerializedElement(index) = Element(kind, index)
    BY DEF SerializedElement, Element, Path
  <2>3. content = Written(kind, image, index - 1) /\ size = SizeOf(kind, image, index - 1)
    BY <1>0, <2>1 DEF WriteInv
  <2>4. content' = Written(kind, image, index)
    BY <1>0, <1>2, <2>2, <2>3, WrittenSteps DEF SerializeElement
  <2>5. size' = SizeOf(kind, image, index)
    <3>1. SizeOf(kind, image, index) = SizeOf(kind, image, index - 1) + ElementSize(kind)
      BY <1>0, SizeSteps
    <3>2. Element(kind, index).size = ElementSize(kind)
      BY ElementIsWhole DEF IsWhole
    <3> QED
      BY <1>2, <2>2, <2>3, <3>1, <3>2 DEF SerializeElement
  <2>6. KindInv'
    BY <1>0, <2>1 DEF KindInv, Unsent, Sent
  <2>7. WriteInv'
    BY <1>0, <2>1, <2>4, <2>5, index \in 0..count DEF WriteInv
  <2>8. SendInv' /\ ReadInv'
    BY <1>0, <2>1 DEF SendInv, ReadInv, Unsent, Sent, receiverVars
  <2> QED
    BY <2>6, <2>7, <2>8 DEF PacketsInv
<1>3. CASE EndOfElements
  <2>1. /\ stage = "elements" /\ index > count /\ stage' = "pack" /\ index' = 1
        /\ UNCHANGED <<kind, image, count, content, size, receiverVars>>
    BY <1>3 DEF EndOfElements
  <2>2. index - 1 = count
    BY <1>0, <2>1 DEF KindInv
  <2>3. KindInv'
    BY <1>0, <2>1 DEF KindInv, Unsent, Sent
  <2>4. WriteInv'
    BY <1>0, <2>1, <2>2 DEF WriteInv
  <2>5. SendInv' /\ ReadInv'
    BY <1>0, <2>1 DEF SendInv, ReadInv, Unsent, Sent, receiverVars
  <2> QED
    BY <2>3, <2>4, <2>5 DEF PacketsInv
<1>4. CASE Pack
  <2>1. /\ stage = "pack" /\ stage' \in {"unpack", "undefined"}
        /\ UNCHANGED <<kind, image, count, index, content, size, contentRead, packetRead, offset>>
    BY <1>4 DEF Pack
  <2>2. Consecutive(Fixed[kind], 0, 0, 0).end = FixedSize(kind)
    BY <1>0, FixedIsWhole DEF KindInv
  <2>3. packet'.blocks = PacketBlocks(kind, size) /\ packet'.size = FixedSize(kind) + size
    BY <1>4, <2>2 DEF Pack, PacketBlocks
  <2>4. KindInv'
    BY <1>0, <2>1 DEF KindInv, Unsent, Sent
  <2>5. WriteInv'
    BY <1>0, <2>1, count \in 0..count DEF WriteInv
  <2>6. SendInv'
    BY <2>1, <2>3 DEF SendInv, Unsent, Sent
  <2>7. ReadInv'
    BY <1>0, <2>1 DEF ReadInv, Unsent, Sent
  <2> QED
    BY <2>4, <2>5, <2>6, <2>7 DEF PacketsInv
<1>5. CASE Unpack
  <2>1. /\ stage = "unpack"
        /\ UNCHANGED <<kind, image, count, index, content, size, packet, contentRead, offset>>
        /\ stage' = CASE kind = State -> "readMap" [] kind = Path -> "readElements"
                      [] OTHER -> "done"
    BY <1>5 DEF Unpack, State, Path
  <2>2. packetRead' = packet.blocks
    <3>1. FixedRead[kind] = Fixed[kind]
      BY <1>0, FixedIsWhole DEF KindInv
    <3>2. packet.blocks = PacketBlocks(kind, size)
      BY <1>0, <2>1 DEF SendInv, Sent
    <3> QED
      BY <1>5, <3>1, <3>2 DEF Unpack, PacketBlocks
  <2>3. index = 1 /\ contentRead = {} /\ offset = 0
    BY <1>0, <2>1 DEF KindInv, ReadInv
  <2>4. stage' \in {"readMap", "readElements", "done"}
    BY <2>1
  <2>5. KindInv'
    <3>1. stage' = "readMap" => kind = State
      BY <2>1
    <3>2. stage' = "readElements" => HasContent(kind)
      BY <2>1 DEF HasContent, Path
    <3> QED
      BY <1>0, <2>1, <2>3, <2>4, <3>1, <3>2 DEF KindInv, Unsent, Sent
  <2>6. WriteInv'
    BY <1>0, <2>1, <2>4 DEF WriteInv
  <2>7. SendInv'
    BY <1>0, <2>1, <2>4 DEF SendInv, Unsent, Sent
  <2>8. ReadInv'
    <3>1. stage' # "readMap" => kind # State
      BY <2>1 DEF State, Path
    <3>2. kind # State => Written(kind, image, 0) = {} /\ SizeOf(kind, image, 0) = 0
      BY <1>0, NothingWritten
    <3>3. stage' = "done" => content = {}
      <4>1. stage' = "done" => kind \notin {State, Path}
        BY <2>1
      <4>2. kind \notin {State, Path} => count = 0
        BY <1>0 DEF KindInv, HasContent, State, Path
      <4>3. content = Written(kind, image, count)
        BY <1>0, <2>1 DEF WriteInv
      <4> QED
        BY <4>1, <4>2, <4>3, <3>2
    <3>4. contentRead' = {} /\ offset' = 0 /\ index' - 1 = 0
      BY <2>1, <2>3
    <3> QED
      BY <2>1, <2>2, <2>4, <3>1, <3>2, <3>3, <3>4 DEF ReadInv, Unsent, Sent
  <2> QED
    BY <2>5, <2>6, <2>7, <2>8 DEF PacketsInv
<1>6. CASE ReadMap
  <2>1. /\ stage = "readMap" /\ kind = State /\ index = 1 /\ stage' = "readElements"
        /\ UNCHANGED <<kind, image, count, index, content, size, packet, packetRead>>
    BY <1>0, <1>6 DEF ReadMap, KindInv
  <2>2. ReadDrawable(0, image) = SerializedDrawable(0, image)
    BY DEF ReadDrawable, SerializedDrawable
  <2>3. contentRead' = Written(kind, image, 0) /\ offset' = SizeOf(kind, image, 0)
    BY <1>0, <1>6, <2>1, <2>2, MapIsWhole, MapWritten DEF ReadMap, MapOf
  <2>4. KindInv'
    BY <1>0, <2>1 DEF KindInv, Unsent, Sent, State, HasContent
  <2>5. WriteInv'
    BY <1>0, <2>1 DEF WriteInv
  <2>6. SendInv'
    BY <1>0, <2>1 DEF SendInv, Unsent, Sent
  <2>7. ReadInv'
    BY <1>0, <2>1, <2>3 DEF ReadInv, Unsent, Sent
  <2> QED
    BY <2>4, <2>5, <2>6, <2>7 DEF PacketsInv
<1>7. CASE ReadElement
  <2>1. /\ stage = "readElements" /\ MoreToRead /\ stage' = stage /\ index' = index + 1
        /\ UNCHANGED <<kind, image, count, content, size, packet, packetRead>>
    BY <1>7 DEF ReadElement
  <2>2. ReadElementAt(index) = Element(kind, index)
    BY DEF ReadElementAt, Element, Path, ReadPlayer, ReadDrawable, SerializedPlayer,
           SerializedDrawable
  <2>3. /\ contentRead = Written(kind, image, index - 1)
        /\ offset = SizeOf(kind, image, index - 1)
    BY <1>0, <2>1 DEF ReadInv
  <2>4. contentRead' = Written(kind, image, index)
    BY <1>0, <1>7, <2>2, <2>3, WrittenSteps DEF ReadElement
  <2>5. offset' = SizeOf(kind, image, index)
    <3>1. SizeOf(kind, image, index) = SizeOf(kind, image, index - 1) + ElementSize(kind)
      BY <1>0, SizeSteps
    <3>2. Element(kind, index).size = ElementSize(kind)
      BY ElementIsWhole DEF IsWhole
    <3> QED
      BY <1>7, <2>2, <2>3, <3>1, <3>2 DEF ReadElement
  <2>6. index <= count
    <3>1. size = SizeOf(kind, image, count)
      BY <1>0, <2>1 DEF WriteInv
    <3>2. kind = Path => SizeOf(kind, image, index - 1) < SizeOf(kind, image, count)
      BY <2>1, <2>3, <3>1 DEF MoreToRead, Path
    <3>3. kind = Path => 8 * (index - 1) < 8 * count
      BY <1>0, <3>2 DEF SizeOf, ElementSize, State, Path
    <3> QED
      BY <1>0, <2>1, <3>3 DEF MoreToRead, Path
  <2>7. KindInv'
    BY <1>0, <2>1, <2>6 DEF KindInv, Unsent, Sent
  <2>8. WriteInv'
    BY <1>0, <2>1 DEF WriteInv
  <2>9. SendInv'
    BY <1>0, <2>1 DEF SendInv, Unsent, Sent
  <2>10. ReadInv'
    BY <1>0, <2>1, <2>4, <2>5 DEF ReadInv, Unsent, Sent
  <2> QED
    BY <2>7, <2>8, <2>9, <2>10 DEF PacketsInv
<1>8. CASE EndOfReading
  <2>1. /\ stage = "readElements" /\ ~ MoreToRead /\ stage' = "done"
        /\ UNCHANGED <<kind, image, count, index, content, size, packet, contentRead,
                       packetRead, offset>>
    BY <1>8 DEF EndOfReading
  <2>2. index - 1 = count
    <3>1. size = SizeOf(kind, image, count) /\ offset = SizeOf(kind, image, index - 1)
      BY <1>0, <2>1 DEF WriteInv, ReadInv
    <3>2. kind = Path => ~ (SizeOf(kind, image, index - 1) < SizeOf(kind, image, count))
      BY <2>1, <3>1 DEF MoreToRead, Path
    <3>3. kind = Path => ~ (8 * (index - 1) < 8 * count)
      BY <1>0, <3>2 DEF SizeOf, ElementSize, State, Path
    <3> QED
      BY <1>0, <2>1, <3>3 DEF MoreToRead, Path, KindInv
  <2>3. contentRead = content
    BY <1>0, <2>1, <2>2 DEF WriteInv, ReadInv
  <2>4. KindInv'
    BY <1>0, <2>1 DEF KindInv, Unsent, Sent
  <2>5. WriteInv'
    BY <1>0, <2>1 DEF WriteInv
  <2>6. SendInv'
    BY <1>0, <2>1 DEF SendInv, Unsent, Sent
  <2>7. ReadInv'
    BY <1>0, <2>1, <2>3 DEF ReadInv, Unsent, Sent
  <2> QED
    BY <2>4, <2>5, <2>6, <2>7 DEF PacketsInv
<1>9. CASE UNCHANGED vars
  BY <1>0, <1>9 DEF PacketsInv, KindInv, WriteInv, SendInv, ReadInv, vars
<1> QED
  BY <1>1, <1>2, <1>3, <1>4, <1>5, <1>6, <1>7, <1>8, <1>9 DEF Next

\* In every state of a packet on its way, what is written, sent and read so far
\* are the bytes of the elements before the next one (SerializeGameState,
\* SerializePath, Serialize and Deserialize of the packets).
THEOREM PacketsInvariant == Spec => []PacketsInv
BY InitPackets, NextPackets, PTL DEF Spec

\* What is written so far are the elements before some n, and not more than the
\* whole packet takes.
LEMMA PacketSize ==
    ASSUME PacketsInv
    PROVE  /\ stage # "map" => Packed(content, 0, size)
           /\ size \in Nat /\ FixedSize(kind) + size <= PacketLength
<1>1. PICK n \in 0..count : stage # "map" => /\ content = Written(kind, image, n)
                                           /\ size = SizeOf(kind, image, n)
  <2>1. CASE stage = "elements"
    <3>1. index - 1 \in 0..count
      BY DEF PacketsInv, KindInv
    <3> QED
      BY <2>1, <3>1 DEF PacketsInv, WriteInv
  <2>2. CASE stage = "undefined"
    BY <2>2 DEF PacketsInv, WriteInv
  <2>3. CASE stage \notin {"elements", "undefined"}
    <3>1. count \in 0..count
      BY DEF PacketsInv, KindInv
    <3> QED
      BY <2>3, <3>1 DEF PacketsInv, WriteInv
  <2> QED
    BY <2>1, <2>2, <2>3
<1>2. image \in Nat /\ count \in Nat /\ n \in Nat /\ n <= count
  BY DEF PacketsInv, KindInv
<1>3. stage # "map" => Packed(content, 0, size)
  BY <1>1, <1>2, WrittenPacked
<1>4. stage = "map" => size = 0 /\ kind = State
  BY DEF PacketsInv, WriteInv, KindInv
<1>5. CASE kind = State
  <2>1. FixedSize(kind) = 12 /\ PacketLength = 44 + image + 68 * count
    BY <1>5 DEF FixedSize, PacketLength, State
  <2>2. size \in Nat /\ size <= 32 + image + 68 * n
    BY <1>1, <1>2, <1>4, <1>5 DEF SizeOf, ElementSize, State, Path
  <2> QED
    BY <1>2, <1>3, <2>1, <2>2
<1>6. CASE kind = Path
  <2>1. FixedSize(kind) = 16 /\ PacketLength = 16 + 8 * count
    BY <1>6 DEF FixedSize, PacketLength, Path
  <2>2. size = 8 * n
    BY <1>1, <1>2, <1>4, <1>6 DEF SizeOf, ElementSize, State, Path
  <2> QED
    BY <1>2, <1>3, <2>1, <2>2
<1>7. CASE kind \notin {State, Path}
  <2>1. FixedSize(kind) \in Nat /\ FixedSize(kind) <= 24 /\ PacketLength = 24
    BY <1>7 DEF FixedSize, PacketLength, State, Path
  <2>2. count = 0
    BY <1>7 DEF PacketsInv, KindInv, HasContent, State, Path
  <2>3. size = 0
    BY <1>1, <1>2, <1>4, <1>7, <2>2 DEF SizeOf, ElementSize
  <2> QED
    BY <1>2, <1>3, <2>1, <2>3
<1> QED
  BY <1>5, <1>6, <1>7

\* Whatever the buffers' size, only a packet that is longer than they are with
\* all its players or positions is written beyond them.
THEOREM ShortPacketsAlwaysFit == Spec => []ShortPacketsFit
<1>1. PacketsInv => ShortPacketsFit
  <2> SUFFICES ASSUME PacketsInv, PacketLength <= BufferSize PROVE BuffersHold
    BY DEF ShortPacketsFit
  <2>1. /\ stage # "map" => Packed(content, 0, size)
        /\ size \in Nat /\ FixedSize(kind) + size <= PacketLength
    BY PacketSize
  <2>2. FixedSize(kind) \in Nat /\ BufferSize \in Nat
    BY PacketsAssumption DEF FixedSize
  <2>3. PacketLength \in Nat
    BY DEF PacketLength, PacketsInv, KindInv
  <2>4. ASSUME NEW b \in content PROVE b.at + b.length <= BufferSize
    <3>1. stage # "map"
      BY DEF PacketsInv, WriteInv
    <3>2. b.at \in Nat /\ b.length \in Nat /\ b.at + b.length <= size
      BY <2>1, <3>1 DEF Packed
    <3> QED
      BY <2>1, <2>2, <2>3, <3>2
  <2>5. packet.size <= BufferSize
    <3>1. packet = NoPacket \/ packet.size = FixedSize(kind) + size
      BY DEF PacketsInv, KindInv, SendInv
    <3>2. CASE packet = NoPacket
      BY <2>2, <3>2 DEF NoPacket
    <3>3. CASE packet.size = FixedSize(kind) + size
      BY <2>1, <2>2, <2>3, <3>3
    <3> QED
      BY <3>1, <3>2, <3>3
  <2> QED
    BY <2>4, <2>5 DEF BuffersHold, Ends
<1> QED
  BY <1>1, PacketsInvariant, PTL

\* Whatever the number of players or positions, the receiver reads every field
\* from where it was written, and nothing is written over anything else,
\* although the actors add the size of their base class twice.
THEOREM RoundTripAlways == Spec => []RoundTrip
<1>1. PacketsInv => RoundTrip
  <2> SUFFICES ASSUME PacketsInv PROVE RoundTrip
    OBVIOUS
  <2>0. image \in Nat /\ count \in Nat /\ stage \in Unsent \cup Sent \cup {"undefined"}
    BY DEF PacketsInv, KindInv
  <2>1. stage = "pack" => NoneOverwritten
    BY PacketSize DEF NoneOverwritten, Packed, Ends
  <2>2. contentRead \subseteq content
    <3>1. CASE stage = "readElements"
      <4>1. contentRead = Written(kind, image, index - 1) /\ content = Written(kind, image, count)
        BY <3>1 DEF PacketsInv, ReadInv, WriteInv
      <4>2. index - 1 \in Nat /\ index - 1 <= count
        BY <2>0 DEF PacketsInv, KindInv
      <4> QED
        BY <4>1, <4>2, <2>0, WrittenGrows
    <3>2. CASE stage # "readElements"
      BY <2>0, <3>2 DEF PacketsInv, ReadInv, Unsent, Sent
    <3> QED
      BY <3>1, <3>2
  <2>3. packetRead \subseteq packet.blocks
    BY <2>0 DEF PacketsInv, ReadInv, Unsent, Sent
  <2>4. stage = "done" => contentRead = content /\ packetRead = packet.blocks
    BY DEF PacketsInv, ReadInv, Sent
  <2> QED
    BY <2>1, <2>2, <2>3, <2>4 DEF RoundTrip
<1> QED
  BY <1>1, PacketsInvariant, PTL
=============================================================================
