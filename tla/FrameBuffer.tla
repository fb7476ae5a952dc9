---------------------------- MODULE FrameBuffer -----------------------------
(***************************************************************************)
(* The drawing loops of frame_buffer.c, as several client processes run    *)
(* them on one mapped frame buffer.  The mutex of display_api.c belongs to *)
(* a process, so nothing orders the stores of two of them.                 *)
(*                                                                         *)
(* The buffer has 32 bits per pixel, which is what xlib_run makes of a     *)
(* screen of depth 24 or 30 (the depth and 8 bits of padding); every store *)
(* is one aligned 32-bit word.  The loops compute with unsigned 32-bit     *)
(* numbers, so coordinates and counters wrap at Word.                      *)
(***************************************************************************)
EXTENDS Naturals

CONSTANTS
  Clients,       \* the drawing processes
  Word,          \* 2^32: where unsigned int wraps
  Width, Height, \* of the screen, from fb_info
  Coordinates,   \* the x and y that callers pass
  Images         \* the <<width, height>> of the images that callers pass

\* The frame buffer can be addressed with 32 bits, and so can an image.
ASSUME ScreenAssumption ==
  /\ Word \in Nat /\ Width \in Nat \ {0} /\ Height \in Nat \ {0}
  /\ 4 * (Width * Height) =< Word
  /\ Coordinates \subseteq 0..(Word - 1)
  /\ Images \subseteq (0..(Word - 1)) \X (0..(Word - 1))
  /\ \A i \in Images : i[1] * i[2] =< Word

VARIABLES
  pc,     \* per client: "idle", "row", "column", "pixel", "fill", "done"
  cmd,    \* per client: the call it makes
  y, x,   \* per client: the loop counters
  screen  \* per pixel: who stored it last, and which word of the image

vars == <<pc, cmd, y, x, screen>>

Cells == (0..(Height - 1)) \X (0..(Width - 1))

\* A pixel and a fill are images of their own: one word, and the screen.
Commands ==
  [op : {"image"}, x0 : Coordinates, y0 : Coordinates, size : Images]
    \union [op : {"pixel"}, x0 : Coordinates, y0 : Coordinates,
            size : {<<1, 1>>}]
    \union [op : {"fill"}, x0 : {0}, y0 : {0}, size : {<<Width, Height>>}]

\* A pixel no call has stored yet is as xlib_run's memset left it.
Blank == [by |-> {}, at |-> 0]

Init ==
  /\ pc = [c \in Clients |-> "idle"]
  /\ cmd \in [Clients -> Commands]
  /\ y = [c \in Clients |-> 0] /\ x = [c \in Clients |-> 0]
  /\ screen = [p \in Cells |-> Blank]

Goto(c, here, there) == pc[c] = here /\ pc' = [pc EXCEPT ![c] = there]

\* The pixel at an offset of row * stride + column * bpp: a column past the
\* end of a row is one of the next.
Pixel(row, column) == <<row + (column \div Width), column % Width>>

Store(c, p, at) == screen' = [screen EXCEPT ![p] = [by |-> {c}, at |-> at]]

Call(c) ==
  /\ Goto(c, "idle", CASE cmd[c].op = "image" -> "row"
                       [] cmd[c].op = "pixel" -> "pixel"
                       [] cmd[c].op = "fill"  -> "fill")
  /\ UNCHANGED <<cmd, y, x, screen>>

\* fb_set_pixel.
SetPixel(c) ==
  /\ Goto(c, "pixel", "done")
  /\ IF cmd[c].x0 < Width /\ cmd[c].y0 < Height
     THEN Store(c, Pixel(cmd[c].y0, cmd[c].x0), 0)
     ELSE UNCHANGED screen
  /\ UNCHANGED <<cmd, y, x>>

\* fb_fill: i runs over width * height words from the start of the buffer.
FillWord(c) ==
  /\ IF x[c] < Width * Height
     THEN /\ Goto(c, "fill", "fill") /\ Store(c, Pixel(0, x[c]), 0)
          /\ x' = [x EXCEPT ![c] = @ + 1]
     ELSE Goto(c, "fill", "done") /\ UNCHANGED <<x, screen>>
  /\ UNCHANGED <<cmd, y>>

OffBottom(c) == (cmd[c].y0 + y[c]) % Word >= Height
OffRight(c) == (cmd[c].x0 + x[c]) % Word >= Width

\* Mutant: the last row is clipped as well.
RowClipsEarly(c) ==
  /\ IF y[c] < cmd[c].size[2] /\ (cmd[c].y0 + y[c] + 1) % Word < Height
     THEN Goto(c, "row", "column") ELSE Goto(c, "row", "done")
  /\ x' = [x EXCEPT ![c] = 0]
  /\ UNCHANGED <<cmd, y, screen>>

\* Mutant: one row too many.
RowTooMany(c) ==
  /\ IF y[c] =< cmd[c].size[2] /\ ~OffBottom(c)
     THEN Goto(c, "row", "column") ELSE Goto(c, "row", "done")
  /\ x' = [x EXCEPT ![c] = 0]
  /\ UNCHANGED <<cmd, y, screen>>

\* fb_draw_image, the outer loop: it ends with the image or at the bottom.  A
\* NULL image, for which the routine returns at once, draws what an image
\* without a pixel draws and is not told apart from it.
Row(c) ==
  /\ IF y[c] < cmd[c].size[2] /\ ~OffBottom(c)
     THEN Goto(c, "row", "column") ELSE Goto(c, "row", "done")
  /\ x' = [x EXCEPT ![c] = 0]
  /\ UNCHANGED <<cmd, y, screen>>

\* Mutant: an image that is clipped on the right spills into the next row.
ColumnUnclipped(c) ==
  /\ IF x[c] < cmd[c].size[1]
     THEN /\ Goto(c, "column", "column")
          /\ Store(c, Pixel((cmd[c].y0 + y[c]) % Word,
                            (cmd[c].x0 + x[c]) % Word),
                   (y[c] * cmd[c].size[1] + x[c]) % Word)
          /\ x' = [x EXCEPT ![c] = @ + 1] /\ UNCHANGED y
     ELSE Goto(c, "column", "row") /\ y' = [y EXCEPT ![c] = @ + 1]
          /\ UNCHANGED <<x, screen>>
  /\ UNCHANGED cmd

\* Mutant: clipping on the right leaves the loop without counting the row.
ColumnStuck(c) ==
  /\ IF x[c] < cmd[c].size[1] /\ ~OffRight(c)
     THEN /\ Goto(c, "column", "column")
          /\ Store(c, Pixel((cmd[c].y0 + y[c]) % Word,
                            (cmd[c].x0 + x[c]) % Word),
                   (y[c] * cmd[c].size[1] + x[c]) % Word)
          /\ x' = [x EXCEPT ![c] = @ + 1] /\ UNCHANGED y
     ELSE /\ Goto(c, "column", "row") /\ UNCHANGED <<x, screen>>
          /\ y' = [y EXCEPT ![c] = IF OffRight(c) THEN @ ELSE @ + 1]
  /\ UNCHANGED cmd

\* The inner loop: it stores a word or ends, with the image or on the right.
Column(c) ==
  /\ IF x[c] < cmd[c].size[1] /\ ~OffRight(c)
     THEN /\ Goto(c, "column", "column")
          /\ Store(c, Pixel((cmd[c].y0 + y[c]) % Word,
                            (cmd[c].x0 + x[c]) % Word),
                   (y[c] * cmd[c].size[1] + x[c]) % Word)
          /\ x' = [x EXCEPT ![c] = @ + 1] /\ UNCHANGED y
     ELSE Goto(c, "column", "row") /\ y' = [y EXCEPT ![c] = @ + 1]
          /\ UNCHANGED <<x, screen>>
  /\ UNCHANGED cmd

Step(c) == Call(c) \/ SetPixel(c) \/ FillWord(c) \/ Row(c) \/ Column(c)

Next == \E c \in Clients : Step(c)

Spec == Init /\ [][Next]_vars

\* A process that draws is scheduled.
FairSpec == Spec /\ \A c \in Clients : WF_vars(Step(c))

-----------------------------------------------------------------------------
(* The counters of an image stay within it, and what is stored is a word   *)
(* of an image.                                                            *)
TypeOK ==
  /\ pc \in [Clients -> {"idle", "row", "column", "pixel", "fill", "done"}]
  /\ cmd \in [Clients -> Commands]
  /\ y \in [Clients -> Nat] /\ x \in [Clients -> Nat]
  /\ \A c \in Clients :
       y[c] =< cmd[c].size[2] /\ (pc[c] = "column" => y[c] < cmd[c].size[2])
  /\ screen \in [Cells -> [by : SUBSET Clients, at : Nat]]

\* The part of the screen a call covers, by plain arithmetic.
Footprint(c) ==
  {p \in Cells :
     /\ cmd[c].y0 =< p[1] /\ p[1] < cmd[c].y0 + cmd[c].size[2]
     /\ cmd[c].x0 =< p[2] /\ p[2] < cmd[c].x0 + cmd[c].size[1]}

\* The word of its image a call shows at p; a fill has one colour.
WordAt(c, p) ==
  IF cmd[c].op = "fill" THEN 0
  ELSE (p[1] - cmd[c].y0) * cmd[c].size[1] + (p[2] - cmd[c].x0)

\* Whatever coordinates a caller passes, its call stores only where its image
\* lies on the screen, and there the word that belongs there: a coordinate
\* that wraps does not bring the image back on the other side.
StoresAreClipped ==
  \A p \in Cells, c \in Clients :
    screen[p].by = {c} => p \in Footprint(c) /\ screen[p].at = WordAt(c, p)

\* When a call has returned, all of its part of the screen was drawn, and
\* only another call that covers the same pixel can have drawn over it.
FinishedIsShown ==
  \A c \in Clients : pc[c] = "done" =>
    \A p \in Footprint(c) :
      \E d \in Clients : screen[p].by = {d} /\ p \in Footprint(d)

\* The pixels of its drawing that a client has passed.
Passed(c, p) ==
  \/ pc[c] = "done"
  \/ pc[c] = "fill" /\ p[1] * Width + p[2] < x[c]
  \/ pc[c] \in {"row", "column"} /\ p[1] < cmd[c].y0 + y[c]
  \/ pc[c] = "column" /\ p[1] = cmd[c].y0 + y[c] /\ p[2] < cmd[c].x0 + x[c]

Drawing(c) == [p \in Footprint(c) |-> [by |-> {c}, at |-> WordAt(c, p)]]
Left(c) == {p \in Footprint(c) : ~Passed(c, p)}

Drawings == [c \in Clients |-> Drawing(c)]
LeftOvers == [c \in Clients |-> Left(c)]
Returned == {c \in Clients : pc[c] = "done"}

Pixels == INSTANCE PixelDrawing WITH
  drawing <- Drawings, left <- LeftOvers, returned <- Returned

\* The loops draw every pixel of a call once, and no other.  So what one
\* process draws over the finished part of another's call stays.
ImplementsDrawing == Pixels!Spec

\* How many steps a call has left at most, whatever is clipped.
Remaining(c) ==
  LET w == cmd[c].size[1]
      h == cmd[c].size[2]
  IN  CASE pc[c] = "idle"   -> h * (w + 2) + 2
        [] pc[c] = "row"    -> (h - y[c]) * (w + 2) + 1
        [] pc[c] = "column" -> (h - y[c]) * (w + 2) - x[c]
        [] pc[c] = "fill"   -> Width * Height - x[c] + 1
        [] pc[c] = "pixel"  -> 1
        [] pc[c] = "done"   -> 0

\* Every step of a call brings it closer to its return: none of the loops
\* can go on for ever, at whatever coordinates and however others draw.
CallsAreBounded ==
  [][\A c \in Clients :
       Step(c) => Remaining(c)' \in Nat /\ Remaining(c)' < Remaining(c)]_vars

\* The loops end, whatever other processes draw.
DrawingReturns == \A c \in Clients : pc[c] = "row" ~> pc[c] = "done"
=============================================================================
