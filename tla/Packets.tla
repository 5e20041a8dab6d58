------------------------------ MODULE Packets ------------------------------
(***************************************************************************)
(* Where the bytes of a packet lie.  A packet is serialized into blocks of *)
(* memory, copied into the fixed buffers of the threads that send and      *)
(* receive it, and deserialized by other functions than those that         *)
(* serialized it.  The objects in a packet are serialized by functions     *)
(* that add up their sizes on their own.                                   *)
(*                                                                         *)
(* A block is a field (of the object number `of`) with its place and its   *)
(* length in bytes; what the field holds makes no difference.              *)
(*                                                                         *)
(* A write beyond a buffer of BufferSize bytes on a stack is undefined: it *)
(* is recorded, and nothing of the packet follows.  The word that a path   *)
(* writes beyond its block on the heap comes with every path; the packet   *)
(* goes on its way, as it does in the program.                             *)
(***************************************************************************)
EXTENDS Naturals, Sequences

CONSTANTS
    BufferSize,     \* packetBufferSize
    ImageLengths,   \* what the length of a map's image, with its end, can be
    MaxPlayers,     \* bound: players in a state
    MaxPath         \* bound: positions in a path

ASSUME PacketsAssumption ==
    /\ BufferSize \in Nat /\ MaxPlayers \in Nat /\ MaxPath \in Nat
    /\ ImageLengths \subseteq Nat

VARIABLES
    kind,       \* the PacketType
    image,      \* the length of the map's image
    count,      \* the number of players, or of positions of a path
    stage,      \* what is done next, or "undefined" after a write beyond a buffer
    index,      \* which player or position is next
    content,    \* the blocks of the packet's variable part, where they were written
    size,       \* the size of the variable part
    packet,     \* the blocks and the size of the packet, and what was allocated
    contentRead, packetRead,    \* the blocks the receiver looked at
    offset      \* how far the receiver got in the variable part

vars == <<kind, image, count, stage, index, content, size, packet, contentRead,
          packetRead, offset>>

Block(field, of, at, length) == [field |-> field, of |-> of, at |-> at, length |-> length]

Word == 4               \* sizeof(uint32_t)
Letter == 2             \* the image of a player, with its end

\* A Vector2 and a PacketHeader are two words.
LengthOf(field, imageLength) ==
    CASE field = "image" -> imageLength
      [] field \in {"position", "header"} -> 2 * Word
      [] OTHER -> Word

\* The fields one behind the other from `at`.
Consecutive(fields, of, at, imageLength) ==
    LET length == [k \in DOMAIN fields |-> LengthOf(fields[k], imageLength)]
        end[k \in 0..Len(fields)] == IF k = 0 THEN at ELSE end[k - 1] + length[k]
    IN  [blocks |-> {Block(fields[k], of, end[k - 1], length[k]) : k \in DOMAIN fields},
         end |-> end[Len(fields)]]

-----------------------------------------------------------------------------
(***************************************************************************)
(* Serialize and Deserialize of the actors.  A class writes behind what    *)
(* its base class wrote, and adds where it ended to the size the base      *)
(* class gave: so it counts what is before its fields twice, and leaves a  *)
(* gap behind them.                                                        *)
(***************************************************************************)

Extended(base, own) == [blocks |-> base.blocks \cup own.blocks, size |-> base.size + own.end]

\* An actor, like an element of a path, is its position.
Actor(of) ==
    LET own == Consecutive(<<"position">>, of, 0, 0)
    IN  [blocks |-> own.blocks, size |-> own.end]

DrawableFields == <<"width", "color", "imageLength", "image">>

SerializedDrawable(of, length) ==
    LET base == Actor(of)
    IN  Extended(base, Consecutive(DrawableFields, of, base.size, length))

\* (A variant of SerializedPlayer: the flag is written first.)
SerializedSeekerFirst(of) ==
    LET base == SerializedDrawable(of, Letter)
    IN  Extended(base, Consecutive(<<"isSeeker", "id">>, of, base.size, 0))

SerializedPlayer(of) ==
    LET base == SerializedDrawable(of, Letter)
    IN  Extended(base, Consecutive(<<"id", "isSeeker">>, of, base.size, 0))

\* The length of the image is taken from the buffer.
ReadDrawable(of, length) ==
    LET base == Actor(of)
    IN  Extended(base, Consecutive(DrawableFields, of, base.size, length))

ReadPlayer(of) ==
    LET base == ReadDrawable(of, Letter)
    IN  Extended(base, Consecutive(<<"id", "isSeeker">>, of, base.size, 0))

-----------------------------------------------------------------------------
(***************************************************************************)
(* The packets.                                                            *)
(***************************************************************************)

\* What is serialized before the variable part.
Fixed ==
    [KEY_INPUT              |-> <<"header", "playerId", "keyCode">>,
     MOUSE_INPUT            |-> <<"header", "playerId", "keyCode", "posY", "posX">>,
     MOVE_PATH              |-> <<"header", "pathCount", "bufferSize">>,
     PLAYER_CREATE_RESPOND  |-> <<"header", "playerId">>,
     GAME_STATE_SYNCHRONIZE |-> <<"header", "bufferSize">>]

\* What Deserialize reads before the variable part.
FixedRead ==
    [KEY_INPUT              |-> <<"header", "playerId", "keyCode">>,
     MOUSE_INPUT            |-> <<"header", "playerId", "keyCode", "posY", "posX">>,
     MOVE_PATH              |-> <<"header", "pathCount", "bufferSize">>,
     PLAYER_CREATE_RESPOND  |-> <<"header", "playerId">>,
     GAME_STATE_SYNCHRONIZE |-> <<"header", "bufferSize">>]

Kinds == DOMAIN Fixed

\* totalPacketSize of each packet that is serialized.
KeyInputSize == 4 * Word
MovePathSize(contentSize) == 3 * Word + contentSize
PlayerCreateRespondSize == 3 * Word
GameStateSize(contentSize) == 3 * Word + contentSize

\* A click is not serialized: the packet itself is sent.
MouseInputSize == 6 * Word

Allocated(contentSize) ==
    [KEY_INPUT              |-> KeyInputSize,
     MOUSE_INPUT            |-> MouseInputSize,
     MOVE_PATH              |-> MovePathSize(contentSize),
     PLAYER_CREATE_RESPOND  |-> PlayerCreateRespondSize,
     GAME_STATE_SYNCHRONIZE |-> GameStateSize(contentSize)]

HasContent(k) == k \in {"MOVE_PATH", "GAME_STATE_SYNCHRONIZE"}

NoPacket == [blocks |-> {}, size |-> 0, allocated |-> 0]

Init ==
    /\ kind \in Kinds
    /\ image \in IF kind = "GAME_STATE_SYNCHRONIZE" THEN ImageLengths ELSE {0}
    /\ count \in CASE kind = "GAME_STATE_SYNCHRONIZE" -> 0..MaxPlayers
                   [] kind = "MOVE_PATH" -> 0..MaxPath
                   [] OTHER -> {0}
    /\ stage = CASE kind = "GAME_STATE_SYNCHRONIZE" -> "map"
                 [] kind = "MOVE_PATH" -> "elements"
                 [] OTHER -> "pack"
    /\ index = 1
    /\ content = {} /\ size = 0
    /\ packet = NoPacket
    /\ contentRead = {} /\ packetRead = {} /\ offset = 0

At(blocks, start) == {[b EXCEPT !.at = b.at + start] : b \in blocks}

receiverVars == <<packet, contentRead, packetRead, offset>>

Ends(blocks) == {b.at + b.length : b \in blocks}

\* Nobody looks at bufferSize: writing goes on, if it can, with the next stage.
AfterWriting(blocks, next) ==
    IF \A end \in Ends(blocks) : end <= BufferSize THEN next ELSE "undefined"

\* GameLevel::SerializeGameState: the map and the number of players.
SerializeMap ==
    LET map == SerializedDrawable(0, image)
        playerCount == Consecutive(<<"playerCount">>, 0, map.size, 0)
    IN  /\ stage = "map"
        /\ content' = map.blocks \cup playerCount.blocks
        /\ size' = playerCount.end
        /\ stage' = AfterWriting(content', "elements")
        /\ UNCHANGED <<kind, image, count, index, receiverVars>>

\* (A variant of SerializedElement: the running size is passed on.)
SerializedFromSize(of) ==
    LET element == IF kind = "MOVE_PATH" THEN Actor(of) ELSE SerializedPlayer(of)
    IN  [element EXCEPT !.size = size + element.size]

\* The next player, or of a path, which SerializePath writes, the next position.
SerializedElement(of) ==
    IF kind = "MOVE_PATH" THEN Actor(of) ELSE SerializedPlayer(of)

SerializeElement ==
    /\ stage = "elements" /\ index <= count
    /\ content' = content \cup At(SerializedElement(index).blocks, size)
    /\ size' = size + SerializedElement(index).size
    /\ index' = index + 1
    /\ stage' = AfterWriting(content', "elements")
    /\ UNCHANGED <<kind, image, count, receiverVars>>

EndOfElements ==
    /\ stage = "elements" /\ index > count
    /\ stage' = "pack"
    /\ index' = 1
    /\ UNCHANGED <<kind, image, count, content, size, receiverVars>>

\* Serialize of the packet.  The thread that sends copies it into its buffer,
\* the thread that receives has it in another.
Pack ==
    LET fixed == Consecutive(Fixed[kind], 0, 0, 0)
        rest == IF HasContent(kind) THEN {Block("content", 0, fixed.end, size)} ELSE {}
    IN  /\ stage = "pack"
        /\ packet' = [blocks |-> fixed.blocks \cup rest,
                      size |-> fixed.end + size,
                      allocated |-> Allocated(size)[kind]]
        /\ stage' = IF packet'.size <= BufferSize THEN "unpack" ELSE "undefined"
        /\ UNCHANGED <<kind, image, count, index, content, size, contentRead, packetRead,
                       offset>>

\* Deserialize of the packet.
Unpack ==
    LET fixed == Consecutive(FixedRead[kind], 0, 0, 0)
        rest == IF HasContent(kind) THEN {Block("content", 0, fixed.end, size)} ELSE {}
    IN  /\ stage = "unpack"
        /\ packetRead' = fixed.blocks \cup rest
        /\ stage' = CASE kind = "GAME_STATE_SYNCHRONIZE" -> "readMap"
                      [] kind = "MOVE_PATH" -> "readElements"
                      [] OTHER -> "done"
        /\ UNCHANGED <<kind, image, count, index, content, size, packet, contentRead, offset>>

\* GameLevel::DeserializeGameState.
ReadMap ==
    LET map == ReadDrawable(0, image)
        playerCount == Consecutive(<<"playerCount">>, 0, map.size, 0)
    IN  /\ stage = "readMap"
        /\ contentRead' = map.blocks \cup playerCount.blocks
        /\ offset' = playerCount.end
        /\ stage' = "readElements"
        /\ UNCHANGED <<kind, image, count, index, content, size, packet, packetRead>>

\* The next player, or of a path, which ProcessPacket reads, the next position.
ReadElementAt(of) ==
    IF kind = "MOVE_PATH" THEN Actor(of) ELSE ReadPlayer(of)

\* (A variant of MoreToRead: one position too many.)
MoreToReadInclusive == IF kind = "MOVE_PATH" THEN offset <= size ELSE index <= count

\* Players are counted, positions are read up to the size of the path.
MoreToRead == IF kind = "MOVE_PATH" THEN offset < size ELSE index <= count

ReadElement ==
    /\ stage = "readElements" /\ MoreToRead
    /\ contentRead' = contentRead \cup At(ReadElementAt(index).blocks, offset)
    /\ offset' = offset + ReadElementAt(index).size
    /\ index' = index + 1
    /\ UNCHANGED <<kind, image, count, stage, content, size, packet, packetRead>>

EndOfReading ==
    /\ stage = "readElements" /\ ~ MoreToRead
    /\ stage' = "done"
    /\ UNCHANGED <<kind, image, count, index, content, size, packet, contentRead,
                   packetRead, offset>>

Next ==
    \/ SerializeMap
    \/ SerializeElement
    \/ EndOfElements
    \/ Pack
    \/ Unpack
    \/ ReadMap
    \/ ReadElement
    \/ EndOfReading

Spec == Init /\ [][Next]_vars

-----------------------------------------------------------------------------
(***************************************************************************)
(* Properties.                                                             *)
(***************************************************************************)

Fields == {"header", "playerId", "keyCode", "posY", "posX", "pathCount", "bufferSize",
           "content", "position", "width", "color", "imageLength", "image", "id",
           "isSeeker", "playerCount"}

AreBlocks(blocks) ==
    \A b \in blocks : b.field \in Fields /\ b.of \in Nat /\ b.at \in Nat /\ b.length \in Nat

TypeOK ==
    /\ kind \in Kinds
    /\ image \in ImageLengths \cup {0}
    /\ count \in Nat /\ index \in 1..count + 1 /\ size \in Nat /\ offset \in Nat
    /\ stage \in {"map", "elements", "pack", "unpack", "readMap", "readElements", "done",
                  "undefined"}
    /\ AreBlocks(content) /\ AreBlocks(contentRead) /\ AreBlocks(packetRead)
    /\ AreBlocks(packet.blocks) /\ packet.size \in Nat /\ packet.allocated \in Nat

\* Nothing is written beyond the buffer SerializeGameState writes into, nor beyond
\* the one a packet is sent from.  This does not hold with a player too many: the
\* code looks at the size of neither.
BuffersHold ==
    /\ \A end \in Ends(content) : end <= BufferSize
    /\ packet.size <= BufferSize

\* The bytes of the packet, once it is whole: around the image of the map 44, for
\* each player 68; before a path 16, for each position 8; for a click 24.
PacketLength ==
    CASE kind = "GAME_STATE_SYNCHRONIZE" -> 44 + image + 68 * count
      [] kind = "MOVE_PATH" -> 16 + 8 * count
      [] OTHER -> 24

\* Only the number of players and positions makes packets too long: what fits
\* into the buffer with all of them is not written beyond it on the way, although
\* each class adds the size of its base class again (DrawableActor.cpp:44,
\* Player.cpp:28).
ShortPacketsFit == PacketLength <= BufferSize => BuffersHold

\* No field is written over another, and the size that is sent covers them.
NoneOverwritten ==
    /\ \A b, c \in content : b # c => b.at + b.length <= c.at \/ c.at + c.length <= b.at
    /\ \A end \in Ends(content) : end <= size

\* The receiver takes every field from where it was written, before anything
\* was written over it, and, in the end, has taken all of them.
RoundTrip ==
    /\ stage = "pack" => NoneOverwritten
    /\ contentRead \subseteq content
    /\ packetRead \subseteq packet.blocks
    /\ stage = "done" => contentRead = content /\ packetRead = packet.blocks

\* The heap is in order after a packet was serialized (Packets.cpp:23 and :30):
\* Serialize allocates what it writes.
SerializeStaysInside ==
    packet # NoPacket => \A end \in Ends(packet.blocks) : end <= packet.allocated
=============================================================================
