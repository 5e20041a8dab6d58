------------------------------- MODULE Screen -------------------------------
(***************************************************************************)
(* How the engine gets pictures to the console: everything is drawn into   *)
(* one image buffer, which is copied to the render target that is not on   *)
(* the screen, and the two targets are swapped.                            *)
(*                                                                         *)
(* The image buffer is cleared as rows of screenSize.x + 1 cells and drawn *)
(* into and copied as rows of screenSize.x.                                *)
(***************************************************************************)
EXTENDS Integers, Sequences

CONSTANTS
    ScreenWidth, ScreenHeight   \* screenSize; 80 and 30 in the code

ASSUME ScreenAssumption == ScreenWidth \in Nat \ {0} /\ ScreenHeight \in Nat \ {0}

VARIABLES
    imageBuffer,        \* the image buffer, by index
    renderTargets,      \* the cells of the two console buffers
    currentRenderTargetIndex,
    activeBuffer        \* the target the console shows

screenVars == <<imageBuffer, renderTargets, currentRenderTargetIndex, activeBuffer>>

Blank == "blank"
LineEnd == "line end"
Nul == "nul"

\* The indices of imageBuffer and the cells of a console buffer.
BufferIndex == 0..((ScreenWidth + 1) * ScreenHeight)
TargetIndex == 0..(ScreenWidth * ScreenHeight - 1)

-----------------------------------------------------------------------------

\* ClearImageBuffer, row by row: each row also writes a line end to the index
\* after its last, which is the first of the next row.
Cleared ==
    LET cols == ScreenWidth + 1
        rows[n \in 0..ScreenHeight] ==
          IF n = 0 THEN [i \in BufferIndex |-> Nul]
          ELSE [i \in BufferIndex |->
                  CASE i \div cols = n - 1 -> Blank
                    [] i = n * cols        -> LineEnd
                    [] OTHER               -> rows[n - 1][i]]
    IN  [rows[ScreenHeight] EXCEPT ![cols * ScreenHeight] = Nul]

\* A drawing is an image at a position, an image a sequence of rows of cells.
\* Nothing clips it: what is beyond the screen goes to the next row.
CellIndex(position, row, n) ==
    (position.y + row - 1) * ScreenWidth + position.x + n - 1

\* Engine::Draw(position, image, color), row by row.
Drawn(buffer, drawing) ==
    LET drawn[row \in 0..Len(drawing.rows)] ==
          IF row = 0 THEN buffer
          ELSE LET first == CellIndex(drawing.position, row, 1)
                   text == drawing.rows[row]
               IN  [i \in BufferIndex |-> IF i - first + 1 \in DOMAIN text
                                          THEN text[i - first + 1] ELSE drawn[row - 1][i]]
    IN  drawn[Len(drawing.rows)]

\* What the drawings make of a buffer, one after the other.
AllDrawn(buffer, drawings) ==
    LET all[n \in 0..Len(drawings)] ==
          IF n = 0 THEN buffer ELSE Drawn(all[n - 1], drawings[n])
    IN  all[Len(drawings)]

\* (A variant of Image: what was drawn before stays.)
ImageOverOld(drawings) == AllDrawn(imageBuffer, drawings)

\* The buffer after a level has drawn on the cleared one.
Image(drawings) == AllDrawn(Cleared, drawings)

-----------------------------------------------------------------------------

\* The constructor presents the first target, with nothing drawn to it yet.
ScreenInit ==
    /\ imageBuffer = Cleared
    /\ renderTargets = [t \in 0..1 |-> [i \in TargetIndex |-> Blank]]
    /\ activeBuffer = 0
    /\ currentRenderTargetIndex = 1

\* Engine::Draw, up to the copy to the back buffer.
DrawImage(drawings) ==
    /\ imageBuffer' = Image(drawings)
    /\ renderTargets' = [renderTargets EXCEPT ![currentRenderTargetIndex] =
                            [i \in TargetIndex |-> imageBuffer'[i]]]
    /\ UNCHANGED <<currentRenderTargetIndex, activeBuffer>>

\* Present.
PresentImage ==
    /\ activeBuffer' = currentRenderTargetIndex
    /\ currentRenderTargetIndex' = 1 - currentRenderTargetIndex
    /\ UNCHANGED <<imageBuffer, renderTargets>>

-----------------------------------------------------------------------------
(***************************************************************************)
(* What drawings should look like, cell by cell and without a buffer.      *)
(***************************************************************************)

Covers(drawing, x, y) ==
    LET row == y - drawing.position.y + 1 IN
    /\ row \in DOMAIN drawing.rows
    /\ x - drawing.position.x + 1 \in DOMAIN drawing.rows[row]

\* The last drawing that covers the cell is seen there.
Seen(drawings, x, y) ==
    LET covering == { i \in DOMAIN drawings : Covers(drawings[i], x, y) }
        top == drawings[CHOOSE i \in covering : \A j \in covering : j <= i]
    IN  IF covering = {} THEN Blank
        ELSE top.rows[y - top.position.y + 1][x - top.position.x + 1]

Picture(drawings) ==
    [ i \in TargetIndex |-> Seen(drawings, i % ScreenWidth, i \div ScreenWidth) ]

\* The screen shows this picture and nothing else.
Shows(picture) == renderTargets[activeBuffer] = picture
=============================================================================
