------------------------- MODULE FrameBufferProofs --------------------------
(***************************************************************************)
(* What the drawing loops store is clipped, for every screen, word size,   *)
(* image and number of clients.                                            *)
(***************************************************************************)
EXTENDS FrameBuffer, TLAPS

-----------------------------------------------------------------------------
(* Arithmetic of the loops.                                                *)

\* A number below the modulus is not changed by it.
LEMMA NoWrap ==
  ASSUME NEW m \in Nat, NEW a \in Nat, a < m
  PROVE  a % m = a /\ a \div m = 0
  BY SMT

\* The products of whole numbers in the order of their factors.
LEMMA ProductOrder ==
  ASSUME NEW a \in Nat, NEW b \in Nat, NEW c \in Nat, a =< b
  PROVE  a * c =< b * c
  BY SMT

\* A pixel inside a w times h image has an offset below w * h.
LEMMA Offset ==
  ASSUME NEW w \in Nat, NEW h \in Nat, NEW j \in Nat, NEW i \in Nat,
         j < h, i < w
  PROVE  j * w + i \in Nat /\ j * w + i < w * h
  <1>1. (j + 1) * w =< h * w
    BY ProductOrder
  <1>2. QED BY <1>1, SMT

\* An offset below w * h has a row below h and a column below w.
LEMMA RowColumn ==
  ASSUME NEW w \in Nat \ {0}, NEW h \in Nat, NEW i \in Nat, i < w * h
  PROVE  i \div w \in 0..(h - 1) /\ i % w \in 0..(w - 1)
  <1>1. /\ i \div w \in Nat /\ i % w \in 0..(w - 1)
        /\ i = (i \div w) * w + (i % w)
    BY SMT
  <1>2. SUFFICES ASSUME h =< i \div w PROVE FALSE
    BY <1>1
  <1>3. h * w =< (i \div w) * w
    BY <1>1, <1>2, ProductOrder
  <1>4. QED BY <1>1, <1>3, SMT

\* An offset determines the row and the column it was computed from.
LEMMA OffsetIsPixel ==
  ASSUME NEW w \in Nat \ {0}, NEW j \in Nat, NEW i \in Nat, i < w
  PROVE  j = (j * w + i) \div w /\ i = (j * w + i) % w
  BY SMT

\* And the row and the column determine the offset.
LEMMA PixelIsOffset ==
  ASSUME NEW w \in Nat \ {0}, NEW i \in Nat
  PROVE  (i \div w) * w + (i % w) = i
  BY SMT

\* Rows and columns of the screen are numbers that do not wrap.
LEMMA ScreenIsSmall == Width < Word /\ Height < Word
  <1>1. /\ Width \in Nat /\ Height \in Nat /\ Word \in Nat
        /\ 1 =< Width /\ 1 =< Height /\ 4 * (Width * Height) =< Word
    BY ScreenAssumption
  <1>2. 1 * Width =< Height * Width /\ 1 * Height =< Width * Height
    BY <1>1, ProductOrder
  <1>3. QED BY <1>1, <1>2, SMT

-----------------------------------------------------------------------------
(* The inductive invariant.                                                *)

\* TypeOK without the screen.
CounterTypeOK ==
  /\ pc \in [Clients -> {"idle", "row", "column", "pixel", "fill", "done"}]
  /\ cmd \in [Clients -> Commands]
  /\ y \in [Clients -> Nat] /\ x \in [Clients -> Nat]
  /\ \A c \in Clients :
       y[c] =< cmd[c].size[2] /\ (pc[c] = "column" => y[c] < cmd[c].size[2])

\* Which loop a client runs is a matter of its command.
CallInv ==
  \A c \in Clients :
    /\ pc[c] \in {"row", "column"} => cmd[c].op = "image"
    /\ pc[c] = "pixel" => cmd[c].op = "pixel"
    /\ pc[c] = "fill" => cmd[c].op = "fill"

\* A counter moves on only from a row or column that is on the screen, and by
\* one: no coordinate plus counter ever gets past the edge, let alone to Word.
LoopInv ==
  \A c \in Clients :
    /\ pc[c] = "idle" => y[c] = 0 /\ x[c] = 0
    /\ pc[c] \in {"row", "column"} /\ y[c] > 0 => cmd[c].y0 + y[c] =< Height
    /\ pc[c] = "column" => cmd[c].y0 + y[c] < Height
    /\ pc[c] = "column" /\ x[c] > 0 => cmd[c].x0 + x[c] =< Width

\* What holds of the loops whatever is on the screen.
CounterInv == CounterTypeOK /\ CallInv /\ LoopInv

\* Every pixel is blank or the last store of one client.
OwnedInv ==
  \A p \in Cells :
    screen[p] = Blank \/ \E d \in Clients : screen[p].by = {d}

\* A step stores nothing and passes nothing, or it stores, at a pixel of its
\* call that it had not passed, the word that belongs there, and passes that
\* pixel and no other.
Progress(c) ==
  \/ /\ screen' = screen
     /\ \A q \in Footprint(c) : Passed(c, q)' <=> Passed(c, q)
  \/ \E p \in Footprint(c) :
       /\ ~Passed(c, p)
       /\ Store(c, p, WordAt(c, p))
       /\ \A q \in Footprint(c) : Passed(c, q)' <=> Passed(c, q) \/ q = p

OthersStay(c) ==
  \A d \in Clients \ {c} : pc'[d] = pc[d] /\ y'[d] = y[d] /\ x'[d] = x[d]

PassedInv ==
  \A c \in Clients : \A p \in Footprint(c) : Passed(c, p) => screen[p] # Blank

IInv ==
  TypeOK /\ CallInv /\ LoopInv /\ OwnedInv /\ StoresAreClipped /\ PassedInv

LEMMA CommandType ==
  ASSUME CounterTypeOK, NEW c \in Clients
  PROVE  /\ cmd[c] \in Commands
         /\ cmd[c].x0 \in Nat /\ cmd[c].x0 < Word
         /\ cmd[c].y0 \in Nat /\ cmd[c].y0 < Word
         /\ cmd[c].size[1] \in Nat /\ cmd[c].size[2] \in Nat
         /\ y[c] \in Nat /\ x[c] \in Nat
         /\ cmd[c].op = "image" => cmd[c].size \in Images
         /\ cmd[c].op = "pixel" => cmd[c].size = <<1, 1>>
         /\ cmd[c].op = "fill" =>
              cmd[c].x0 = 0 /\ cmd[c].y0 = 0 /\ cmd[c].size = <<Width, Height>>
  <1>1. cmd[c] \in Commands /\ y[c] \in Nat /\ x[c] \in Nat
    BY DEF CounterTypeOK
  <1>2. CASE cmd[c] \in [op : {"image"}, x0 : Coordinates, y0 : Coordinates,
                         size : Images]
    <2>1. /\ cmd[c].op = "image" /\ cmd[c].size \in Images
          /\ cmd[c].x0 \in Coordinates /\ cmd[c].y0 \in Coordinates
      BY <1>2
    <2>2. /\ cmd[c].x0 \in 0..(Word - 1) /\ cmd[c].y0 \in 0..(Word - 1)
          /\ cmd[c].size \in (0..(Word - 1)) \X (0..(Word - 1))
      BY <2>1, ScreenAssumption
    <2>3. Word \in Nat
      BY ScreenAssumption
    <2>4. /\ cmd[c].x0 \in Nat /\ cmd[c].x0 < Word
          /\ cmd[c].y0 \in Nat /\ cmd[c].y0 < Word
          /\ cmd[c].size[1] \in Nat /\ cmd[c].size[2] \in Nat
      BY <2>2, <2>3
    <2>5. QED BY <1>1, <2>1, <2>4
  <1>3. CASE cmd[c] \in [op : {"pixel"}, x0 : Coordinates, y0 : Coordinates,
                         size : {<<1, 1>>}]
    <2>1. /\ cmd[c].op = "pixel" /\ cmd[c].size = <<1, 1>>
          /\ cmd[c].x0 \in Coordinates /\ cmd[c].y0 \in Coordinates
      BY <1>3
    <2>2. cmd[c].x0 \in 0..(Word - 1) /\ cmd[c].y0 \in 0..(Word - 1)
      BY <2>1, ScreenAssumption
    <2>3. Word \in Nat
      BY ScreenAssumption
    <2>4. /\ cmd[c].x0 \in Nat /\ cmd[c].x0 < Word
          /\ cmd[c].y0 \in Nat /\ cmd[c].y0 < Word
      BY <2>2, <2>3
    <2>5. cmd[c].size[1] \in Nat /\ cmd[c].size[2] \in Nat
      BY <2>1
    <2>6. QED BY <1>1, <2>1, <2>4, <2>5
  <1>4. CASE cmd[c] \in [op : {"fill"}, x0 : {0}, y0 : {0},
                         size : {<<Width, Height>>}]
    BY <1>1, <1>4, ScreenAssumption, ScreenIsSmall
  <1>5. QED BY <1>1, <1>2, <1>3, <1>4 DEF Commands

\* A pixel of a call shows a word of its image.
LEMMA WordIsNumber ==
  ASSUME CounterTypeOK, NEW c \in Clients, NEW p \in Footprint(c)
  PROVE  WordAt(c, p) \in Nat
  <1>1. p[1] \in Nat /\ p[2] \in Nat
    BY ScreenAssumption DEF Footprint, Cells
  <1>2. /\ cmd[c].x0 \in Nat /\ cmd[c].y0 \in Nat
        /\ cmd[c].size[1] \in Nat
    BY CommandType
  <1>3. cmd[c].y0 =< p[1] /\ cmd[c].x0 =< p[2]
    BY DEF Footprint
  <1>4. p[1] - cmd[c].y0 \in Nat /\ p[2] - cmd[c].x0 \in Nat
    BY <1>1, <1>2, <1>3
  <1>5. (p[1] - cmd[c].y0) * cmd[c].size[1] \in Nat
    BY <1>2, <1>4
  <1>6. QED BY <1>4, <1>5 DEF WordAt

\* A store of the right word into the footprint keeps what is on the screen
\* right, and leaves no pixel blank that was not.
LEMMA Stored ==
  ASSUME TypeOK, StoresAreClipped, OwnedInv,
         NEW c \in Clients, NEW p \in Footprint(c),
         Store(c, p, WordAt(c, p)), cmd' = cmd
  PROVE  /\ screen' \in [Cells -> [by : SUBSET Clients, at : Nat]]
         /\ StoresAreClipped' /\ OwnedInv'
         /\ screen'[p].by = {c}
         /\ \A q \in Cells : screen[q] # Blank => screen'[q] # Blank
  <1>1. p \in Cells /\ p[1] \in Nat /\ p[2] \in Nat
    BY ScreenAssumption DEF Footprint, Cells
  <1>2. WordAt(c, p) \in Nat
    BY WordIsNumber DEF TypeOK, CounterTypeOK
  <1>3. screen \in [Cells -> [by : SUBSET Clients, at : Nat]]
    BY DEF TypeOK
  <1>4. screen' = [screen EXCEPT ![p] = [by |-> {c}, at |-> WordAt(c, p)]]
    BY DEF Store
  <1>5. /\ screen' \in [Cells -> [by : SUBSET Clients, at : Nat]]
        /\ screen'[p] = [by |-> {c}, at |-> WordAt(c, p)]
        /\ \A q \in Cells : q # p => screen'[q] = screen[q]
    BY <1>1, <1>2, <1>3, <1>4
  <1>6. \A d \in Clients : Footprint(d)' = Footprint(d)
    BY DEF Footprint, Cells
  <1>7. \A d \in Clients, q \in Cells : WordAt(d, q)' = WordAt(d, q)
    BY DEF WordAt
  <1>8. StoresAreClipped'
    <2>1. SUFFICES ASSUME NEW q \in Cells, NEW d \in Clients,
                          screen'[q].by = {d}
                   PROVE  q \in Footprint(d) /\ screen'[q].at = WordAt(d, q)
      BY <1>6, <1>7 DEF StoresAreClipped, Cells
    <2>2. CASE q = p
      BY <2>1, <2>2, <1>5
    <2>3. CASE q # p
      BY <2>1, <2>3, <1>5 DEF StoresAreClipped
    <2>4. QED BY <2>2, <2>3
  <1>9. OwnedInv'
    BY <1>5 DEF OwnedInv, Cells, Blank
  <1>10. screen'[p] # Blank
    <2>1. screen'[p].by # Blank.by
      BY <1>5 DEF Blank
    <2>2. QED BY <2>1
  <1>11. QED BY <1>5, <1>8, <1>9, <1>10

\* Where nothing is stored the screen stays right.
LEMMA NotStored ==
  ASSUME StoresAreClipped, OwnedInv, screen' = screen, cmd' = cmd
  PROVE  StoresAreClipped' /\ OwnedInv'
  BY DEF StoresAreClipped, OwnedInv, Footprint, WordAt, Cells, Blank

\* A step of one client leaves what the others have passed as it was, so it
\* is enough that what the client itself newly passes is not blank.
LEMMA PassedByStep ==
  ASSUME PassedInv, cmd' = cmd, NEW c \in Clients,
         OthersStay(c),
         \A q \in Cells : screen[q] # Blank => screen'[q] # Blank,
         \A p \in Footprint(c) :
           Passed(c, p)' => Passed(c, p) \/ screen'[p] # Blank
  PROVE  PassedInv'
  <1>1. \A d \in Clients : Footprint(d)' = Footprint(d)
    BY DEF Footprint, Cells
  <1>2. Blank' = Blank
    BY DEF Blank
  <1>3. SUFFICES ASSUME NEW d \in Clients, NEW p \in Footprint(d), Passed(d, p)'
                 PROVE  screen'[p] # Blank
    BY <1>1, <1>2 DEF PassedInv
  <1>4. p \in Cells
    BY DEF Footprint
  <1>5. CASE d = c
    BY <1>3, <1>4, <1>5 DEF PassedInv
  <1>6. CASE d # c
    <2>1. Passed(d, p)
      BY <1>3, <1>6 DEF Passed, OthersStay
    <2>2. QED BY <2>1, <1>4 DEF PassedInv
  <1>7. QED BY <1>5, <1>6

\* Footprints consist of rows and columns of the screen.
LEMMA FootprintType ==
  ASSUME NEW c \in Clients, NEW p \in Footprint(c)
  PROVE  /\ p \in Cells /\ p = <<p[1], p[2]>>
         /\ p[1] \in Nat /\ p[1] < Height /\ p[2] \in Nat /\ p[2] < Width
         /\ cmd[c].y0 =< p[1] /\ p[1] < cmd[c].y0 + cmd[c].size[2]
         /\ cmd[c].x0 =< p[2] /\ p[2] < cmd[c].x0 + cmd[c].size[1]
  BY ScreenAssumption DEF Footprint, Cells

\* A row and a column of the screen are the pixel at their offset.
LEMMA PixelIsCell ==
  ASSUME NEW row \in Nat, NEW column \in Nat, row < Height, column < Width
  PROVE  Pixel(row, column) = <<row, column>> /\ <<row, column>> \in Cells
  <1>1. column % Width = column /\ column \div Width = 0
    BY NoWrap, ScreenAssumption
  <1>2. row + (column \div Width) = row
    BY <1>1
  <1>3. QED BY <1>1, <1>2, ScreenAssumption DEF Pixel, Cells

-----------------------------------------------------------------------------
(* One lemma per action.                                                   *)

LEMMA CallProgress ==
  ASSUME CounterInv, NEW c \in Clients, Call(c)
  PROVE  CounterInv' /\ cmd' = cmd /\ OthersStay(c) /\ Progress(c)
  <1> USE DEF CounterInv, OthersStay
  <1>1. /\ cmd[c].op \in {"image", "pixel", "fill"}
    BY CommandType DEF Commands
  <1>2. /\ pc[c] = "idle" /\ UNCHANGED <<cmd, y, x, screen>>
        /\ pc' \in [Clients -> {"idle", "row", "column", "pixel", "fill", "done"}]
        /\ \A d \in Clients \ {c} : pc'[d] = pc[d]
        /\ cmd[c].op = "image" => pc'[c] = "row"
        /\ cmd[c].op = "pixel" => pc'[c] = "pixel"
        /\ cmd[c].op = "fill" => pc'[c] = "fill"
    BY <1>1 DEF Call, Goto, CounterTypeOK
  <1>3. pc'[c] # "column" /\ pc'[c] # "done" /\ pc'[c] # "idle"
    BY <1>1, <1>2
  <1>4. CounterTypeOK'
    BY <1>2, <1>3 DEF CounterTypeOK, Commands
  <1>5. CallInv'
    BY <1>1, <1>2 DEF CallInv
  <1>6. LoopInv'
    BY <1>2, <1>3 DEF LoopInv, CounterTypeOK
  <1>7. Progress(c)
    <2>1. y[c] = 0 /\ x[c] = 0
      BY <1>2 DEF LoopInv
    <2>2. \A p \in Footprint(c) : ~Passed(c, p)'
      <3>1. SUFFICES ASSUME NEW p \in Footprint(c), Passed(c, p)'
                     PROVE  FALSE
        OBVIOUS
      <3>2. p[1] * Width + p[2] \in Nat
        BY FootprintType, ScreenAssumption
      <3>3. CASE pc'[c] = "fill"
        BY <3>1, <3>2, <3>3, <1>2, <2>1 DEF Passed
      <3>4. CASE pc'[c] # "fill"
        BY <3>1, <3>4, <1>2, <1>3, <2>1, FootprintType, CommandType DEF Passed
      <3>5. QED BY <3>3, <3>4
    <2>3. \A p \in Footprint(c) : ~Passed(c, p)
      BY <1>2 DEF Passed
    <2>4. QED BY <1>2, <2>2, <2>3 DEF Progress
  <1>8. QED BY <1>2, <1>4, <1>5, <1>6, <1>7

LEMMA SetPixelProgress ==
  ASSUME CounterInv, NEW c \in Clients, SetPixel(c)
  PROVE  CounterInv' /\ cmd' = cmd /\ OthersStay(c) /\ Progress(c)
  <1> USE DEF CounterInv, OthersStay
  <1> DEFINE p == <<cmd[c].y0, cmd[c].x0>>
  <1>1. /\ pc[c] = "pixel" /\ pc'[c] = "done" /\ UNCHANGED <<cmd, y, x>>
        /\ pc' = [pc EXCEPT ![c] = "done"]
        /\ \A d \in Clients \ {c} : pc'[d] = pc[d]
    BY DEF SetPixel, Goto, CounterTypeOK
  <1>2. /\ cmd[c].op = "pixel" /\ cmd[c].size[1] = 1 /\ cmd[c].size[2] = 1
        /\ cmd[c].x0 \in Nat /\ cmd[c].y0 \in Nat
    BY <1>1, CommandType DEF CallInv
  <1>3. \A q \in Footprint(c) : q = p
    BY <1>2, FootprintType
  <1>8. \A q \in Footprint(c) : ~Passed(c, q) /\ Passed(c, q)'
    BY <1>1 DEF Passed
  <1>4. Progress(c)
    <2>1. CASE cmd[c].x0 < Width /\ cmd[c].y0 < Height
      <3>1. Pixel(cmd[c].y0, cmd[c].x0) = p
        BY <1>2, <2>1, PixelIsCell
      <3>2. p \in Cells
        BY <1>2, <2>1, ScreenAssumption DEF Cells
      <3>3. p \in Footprint(c)
        BY <1>2, <3>2 DEF Footprint
      <3>4. WordAt(c, p) = 0
        BY <1>2 DEF WordAt
      <3>5. Store(c, p, WordAt(c, p))
        BY <2>1, <3>1, <3>4 DEF SetPixel
      <3>6. QED BY <1>3, <1>8, <3>3, <3>5 DEF Progress
    <2>2. CASE ~(cmd[c].x0 < Width /\ cmd[c].y0 < Height)
      <3>1. screen' = screen
        BY <2>2 DEF SetPixel
      <3>2. \A q \in Footprint(c) : FALSE
        BY <1>2, <1>3, <2>2, FootprintType, ScreenAssumption
      <3>3. QED BY <3>1, <3>2 DEF Progress
    <2>3. QED BY <2>1, <2>2
  <1>5. CounterTypeOK'
    BY <1>1 DEF CounterTypeOK, Commands
  <1>6. CallInv' /\ LoopInv'
    BY <1>1 DEF CallInv, LoopInv
  <1>7. QED BY <1>1, <1>4, <1>5, <1>6

LEMMA FillWordProgress ==
  ASSUME CounterInv, NEW c \in Clients, FillWord(c)
  PROVE  CounterInv' /\ cmd' = cmd /\ OthersStay(c) /\ Progress(c)
  <1> USE DEF CounterInv, OthersStay
  <1>1. /\ pc[c] = "fill" /\ UNCHANGED <<cmd, y>>
        /\ pc'[c] \in {"fill", "done"}
        /\ pc' \in [Clients -> {"idle", "row", "column", "pixel", "fill", "done"}]
        /\ x' \in [Clients -> Nat]
        /\ \A d \in Clients \ {c} : pc'[d] = pc[d] /\ x'[d] = x[d]
    BY DEF FillWord, Goto, CounterTypeOK
  <1>2. /\ cmd[c].op = "fill" /\ cmd[c].x0 = 0 /\ cmd[c].y0 = 0
        /\ cmd[c].size[1] = Width /\ cmd[c].size[2] = Height
        /\ x[c] \in Nat
    BY <1>1, CommandType DEF CallInv
  <1>3. Width \in Nat \ {0} /\ Height \in Nat \ {0}
    BY ScreenAssumption
  <1>4. Progress(c)
    <2>1. CASE x[c] < Width * Height
      <3> DEFINE p == <<x[c] \div Width, x[c] % Width>>
      <3>1. /\ x[c] \div Width \in 0..(Height - 1)
            /\ x[c] % Width \in 0..(Width - 1)
        BY <1>2, <1>3, <2>1, RowColumn
      <3>2. Pixel(0, x[c]) = p
        BY <3>1 DEF Pixel
      <3>3. p \in Cells
        BY <3>1 DEF Cells
      <3>4. p \in Footprint(c)
        BY <1>2, <1>3, <3>1, <3>3 DEF Footprint
      <3>5. WordAt(c, p) = 0
        BY <1>2 DEF WordAt
      <3>6. Store(c, p, WordAt(c, p))
        BY <2>1, <3>2, <3>5 DEF FillWord
      <3>7. pc'[c] = "fill" /\ x'[c] = x[c] + 1
        BY <2>1 DEF FillWord, Goto, CounterTypeOK
      <3>8. ASSUME NEW q \in Footprint(c), Passed(c, q)'
            PROVE  Passed(c, q) \/ q = p
        <4>1. /\ q = <<q[1], q[2]>> /\ q[1] \in Nat /\ q[2] \in Nat
              /\ q[2] < Width
          BY FootprintType
        <4>2. q[1] * Width + q[2] < x[c] + 1
          BY <1>1, <3>7, <3>8 DEF Passed
        <4>3. q[1] * Width \in Nat
          BY <1>3, <4>1
        <4>4. q[1] * Width + q[2] < x[c] \/ q[1] * Width + q[2] = x[c]
          BY <1>2, <4>1, <4>2, <4>3
        <4>5. CASE q[1] * Width + q[2] < x[c]
          BY <1>1, <4>5 DEF Passed
        <4>6. CASE q[1] * Width + q[2] = x[c]
          <5>1. q[1] = x[c] \div Width /\ q[2] = x[c] % Width
            BY <1>3, <4>1, <4>6, OffsetIsPixel
          <5>2. QED BY <4>1, <5>1
        <4>7. QED BY <4>4, <4>5, <4>6
      <3>9. ~Passed(c, p)
        <4>1. (x[c] \div Width) * Width + (x[c] % Width) = x[c]
          BY <1>2, <1>3, PixelIsOffset
        <4>2. ~(p[1] * Width + p[2] < x[c])
          BY <1>2, <4>1
        <4>3. QED BY <1>1, <4>2 DEF Passed
      <3>10. ASSUME NEW q \in Footprint(c), Passed(c, q) \/ q = p
             PROVE  Passed(c, q)'
        <4>1. q[1] * Width + q[2] \in Nat
          BY <1>3, FootprintType
        <4>2. q[1] * Width + q[2] < x[c] \/ q[1] * Width + q[2] = x[c]
          <5>1. (x[c] \div Width) * Width + (x[c] % Width) = x[c]
            BY <1>2, <1>3, PixelIsOffset
          <5>2. QED BY <1>1, <3>10, <5>1 DEF Passed
        <4>3. q[1] * Width + q[2] < x[c] + 1
          BY <1>2, <4>1, <4>2
        <4>4. QED BY <1>1, <3>7, <4>3 DEF Passed
      <3>11. QED BY <3>4, <3>6, <3>8, <3>9, <3>10 DEF Progress
    <2>2. CASE ~(x[c] < Width * Height)
      <3>1. screen' = screen
        BY <2>2 DEF FillWord
      <3>2. ASSUME NEW q \in Footprint(c)
            PROVE  Passed(c, q) /\ Passed(c, q)'
        <4>1. q[1] * Width + q[2] < Width * Height
          BY <1>3, FootprintType, Offset
        <4>2. q[1] * Width + q[2] \in Nat /\ Width * Height \in Nat
          BY <1>3, FootprintType
        <4>3. q[1] * Width + q[2] < x[c]
          BY <1>2, <2>2, <4>1, <4>2
        <4>4. pc'[c] = "done"
          BY <2>2 DEF FillWord, Goto, CounterTypeOK
        <4>5. QED BY <1>1, <4>3, <4>4 DEF Passed
      <3>3. QED BY <3>1, <3>2 DEF Progress
    <2>3. QED BY <2>1, <2>2
  <1>5. CounterTypeOK'
    BY <1>1 DEF CounterTypeOK, Commands
  <1>6. CallInv' /\ LoopInv'
    BY <1>1 DEF CallInv, LoopInv
  <1>7. QED BY <1>1, <1>4, <1>5, <1>6

LEMMA RowProgress ==
  ASSUME CounterInv, NEW c \in Clients, Row(c)
  PROVE  CounterInv' /\ cmd' = cmd /\ OthersStay(c) /\ Progress(c)
  <1> USE DEF CounterInv, OthersStay
  <1>1. /\ pc[c] = "row" /\ UNCHANGED <<cmd, y, screen>>
        /\ pc'[c] \in {"column", "done"} /\ x'[c] = 0
        /\ pc' \in [Clients -> {"idle", "row", "column", "pixel", "fill", "done"}]
        /\ x' \in [Clients -> Nat]
        /\ \A d \in Clients \ {c} : pc'[d] = pc[d] /\ x'[d] = x[d]
        /\ pc'[c] = "column" => y[c] < cmd[c].size[2] /\ ~OffBottom(c)
        /\ pc'[c] = "done" => ~(y[c] < cmd[c].size[2]) \/ OffBottom(c)
    BY DEF Row, Goto, CounterTypeOK
  <1>2. /\ Word \in Nat /\ Height \in Nat /\ Height < Word
        /\ y[c] \in Nat /\ cmd[c].y0 \in Nat /\ cmd[c].y0 < Word
        /\ cmd[c].x0 \in Nat /\ cmd[c].size[2] \in Nat
        /\ y[c] =< cmd[c].size[2]
    BY CommandType, ScreenAssumption, ScreenIsSmall
       DEF CounterTypeOK
  <1>3. cmd[c].y0 + y[c] < Word
    BY <1>1, <1>2 DEF LoopInv
  <1>4. (cmd[c].y0 + y[c]) % Word = cmd[c].y0 + y[c]
    BY <1>2, <1>3, NoWrap
  <1>5. OffBottom(c) <=> cmd[c].y0 + y[c] >= Height
    BY <1>4 DEF OffBottom
  <1>6. CounterTypeOK'
    BY <1>1 DEF CounterTypeOK, Commands
  <1>7. CallInv'
    BY <1>1 DEF CallInv
  <1>8. LoopInv'
    BY <1>1, <1>2, <1>5 DEF LoopInv
  <1>9. Progress(c)
    <2>1. ASSUME NEW q \in Footprint(c), Passed(c, q)'
          PROVE  Passed(c, q)
      <3>1. /\ q[1] \in Nat /\ q[1] < Height
            /\ q[1] < cmd[c].y0 + cmd[c].size[2]
            /\ q[2] \in Nat /\ cmd[c].x0 =< q[2]
        BY FootprintType
      <3>2. CASE pc'[c] = "column"
        BY <1>1, <1>2, <2>1, <3>1, <3>2 DEF Passed
      <3>3. CASE pc'[c] = "done"
        <4>1. q[1] < cmd[c].y0 + y[c]
          BY <1>1, <1>2, <1>5, <3>1, <3>3
        <4>2. QED BY <1>1, <4>1 DEF Passed
      <3>4. QED BY <1>1, <3>2, <3>3
    <2>2. ASSUME NEW q \in Footprint(c), Passed(c, q)
          PROVE  Passed(c, q)'
      BY <1>1, <2>2 DEF Passed
    <2>3. QED BY <1>1, <2>1, <2>2 DEF Progress
  <1>10. QED BY <1>1, <1>6, <1>7, <1>8, <1>9

LEMMA ColumnProgress ==
  ASSUME CounterInv, NEW c \in Clients, Column(c)
  PROVE  CounterInv' /\ cmd' = cmd /\ OthersStay(c) /\ Progress(c)
  <1> USE DEF CounterInv, OthersStay
  <1> DEFINE w == cmd[c].size[1]
             row == cmd[c].y0 + y[c]
             column == cmd[c].x0 + x[c]
  <1>1. /\ pc[c] = "column" /\ cmd' = cmd
        /\ pc'[c] \in {"column", "row"}
        /\ pc' \in [Clients -> {"idle", "row", "column", "pixel", "fill", "done"}]
        /\ x' \in [Clients -> Nat] /\ y' \in [Clients -> Nat]
        /\ \A d \in Clients \ {c} :
             pc'[d] = pc[d] /\ y'[d] = y[d] /\ x'[d] = x[d]
    BY DEF Column, Goto, CounterTypeOK
  <1>2. /\ Word \in Nat /\ Height \in Nat /\ Height < Word
        /\ Width \in Nat /\ Width < Word
        /\ y[c] \in Nat /\ x[c] \in Nat
        /\ cmd[c].y0 \in Nat /\ cmd[c].x0 \in Nat /\ cmd[c].x0 < Word
        /\ w \in Nat /\ cmd[c].size[2] \in Nat
    BY CommandType, ScreenAssumption, ScreenIsSmall
  <1>3. /\ cmd[c].op = "image" /\ cmd[c].size \in Images
        /\ y[c] < cmd[c].size[2] /\ row < Height
        /\ x[c] > 0 => column =< Width
    BY <1>1, CommandType DEF CallInv, LoopInv, CounterTypeOK
  <1>4. row % Word = row /\ column % Word = column
    <2>1. row \in Nat /\ row < Word /\ column \in Nat /\ column < Word
      BY <1>2, <1>3
    <2>2. QED BY <1>2, <2>1, NoWrap
  <1>5. OffRight(c) <=> column >= Width
    BY <1>4 DEF OffRight
  <1>6. CASE x[c] < w /\ ~OffRight(c)
    <2> DEFINE p == <<row, column>>
    <2>1. /\ pc'[c] = "column" /\ x'[c] = x[c] + 1 /\ y' = y
          /\ Store(c, Pixel(row, column), (y[c] * w + x[c]) % Word)
      BY <1>1, <1>4, <1>6 DEF Column, Goto, CounterTypeOK
    <2>2. row \in Nat /\ column \in Nat /\ column < Width
      BY <1>2, <1>5, <1>6
    <2>3. Pixel(row, column) = p /\ p \in Cells
      BY <1>3, <2>2, PixelIsCell
    <2>4. p \in Footprint(c)
      BY <1>2, <1>3, <1>6, <2>3 DEF Footprint
    <2>5. (y[c] * w + x[c]) % Word = y[c] * w + x[c]
      <3>1. /\ y[c] * w + x[c] \in Nat
            /\ y[c] * w + x[c] < w * cmd[c].size[2]
        BY <1>2, <1>3, <1>6, Offset
      <3>2. w * cmd[c].size[2] =< Word
        BY <1>3, ScreenAssumption
      <3>3. w * cmd[c].size[2] \in Nat
        BY <1>2
      <3>4. QED BY <1>2, <3>1, <3>2, <3>3, NoWrap
    <2>6. WordAt(c, p) = y[c] * w + x[c]
      <3>1. p[1] - cmd[c].y0 = y[c] /\ p[2] - cmd[c].x0 = x[c]
        BY <1>2
      <3>2. QED BY <1>3, <3>1 DEF WordAt
    <2>7. Store(c, p, WordAt(c, p))
      BY <2>1, <2>3, <2>5, <2>6
    <2>8. CounterTypeOK'
      BY <1>1, <2>1 DEF CounterTypeOK, Commands
    <2>9. CallInv'
      BY <1>1, <1>3 DEF CallInv
    <2>10. LoopInv'
      BY <1>1, <1>2, <2>1, <2>2, <1>3 DEF LoopInv
    <2>11. Progress(c)
      <3>1. ASSUME NEW q \in Footprint(c), Passed(c, q)'
            PROVE  Passed(c, q) \/ q = p
        <4>1. q = <<q[1], q[2]>> /\ q[1] \in Nat /\ q[2] \in Nat
          BY FootprintType
        <4>2. \/ q[1] < row
              \/ q[1] = row /\ q[2] < cmd[c].x0 + (x[c] + 1)
          BY <1>1, <2>1, <3>1 DEF Passed
        <4>3. CASE q[1] < row
          BY <1>1, <4>3 DEF Passed
        <4>4. CASE q[1] = row /\ q[2] < column
          BY <1>1, <4>4 DEF Passed
        <4>5. CASE q[1] = row /\ q[2] = column
          BY <4>1, <4>5
        <4>6. QED BY <1>2, <4>1, <4>2, <4>3, <4>4, <4>5
      <3>2. ~Passed(c, p)
        BY <1>1, <1>2 DEF Passed
      <3>3. ASSUME NEW q \in Footprint(c), Passed(c, q) \/ q = p
            PROVE  Passed(c, q)'
        <4>1. \/ q[1] < row
              \/ q[1] = row /\ q[2] < cmd[c].x0 + (x[c] + 1)
          <5>1. q[1] \in Nat /\ q[2] \in Nat
            BY FootprintType
          <5>2. CASE Passed(c, q)
            BY <1>1, <1>2, <5>1, <5>2 DEF Passed
          <5>3. CASE q = p
            BY <1>2, <5>3
          <5>4. QED BY <3>3, <5>2, <5>3
        <4>2. QED BY <1>1, <2>1, <4>1 DEF Passed
      <3>4. QED BY <2>4, <2>7, <3>1, <3>2, <3>3 DEF Progress
    <2>12. QED BY <1>1, <2>8, <2>9, <2>10, <2>11
  <1>7. CASE ~(x[c] < w /\ ~OffRight(c))
    <2>1. /\ pc'[c] = "row" /\ y'[c] = y[c] + 1 /\ x' = x /\ screen' = screen
      BY <1>1, <1>7 DEF Column, Goto, CounterTypeOK
    <2>2. CounterTypeOK'
      BY <1>1, <1>2, <1>3, <2>1 DEF CounterTypeOK, Commands
    <2>3. CallInv'
      BY <1>1, <1>3 DEF CallInv
    <2>4. LoopInv'
      BY <1>1, <1>2, <1>3, <2>1 DEF LoopInv
    <2>5. Progress(c)
      <3>1. ASSUME NEW q \in Footprint(c), Passed(c, q)'
            PROVE  Passed(c, q)
        <4>1. /\ q[1] \in Nat /\ q[2] \in Nat /\ q[2] < Width
              /\ q[2] < cmd[c].x0 + w
          BY FootprintType
        <4>2. q[1] < cmd[c].y0 + (y[c] + 1)
          BY <1>1, <2>1, <3>1 DEF Passed
        <4>3. q[2] < column
          BY <1>2, <1>5, <1>7, <4>1
        <4>4. q[1] < row \/ q[1] = row
          BY <1>2, <4>1, <4>2
        <4>5. QED BY <1>1, <4>3, <4>4 DEF Passed
      <3>2. ASSUME NEW q \in Footprint(c), Passed(c, q)
            PROVE  Passed(c, q)'
        <4>1. q[1] \in Nat
          BY FootprintType
        <4>2. q[1] < cmd[c].y0 + (y[c] + 1)
          BY <1>1, <1>2, <3>2, <4>1 DEF Passed
        <4>3. QED BY <1>1, <2>1, <4>2 DEF Passed
      <3>3. QED BY <2>1, <3>1, <3>2 DEF Progress
    <2>6. QED BY <1>1, <2>2, <2>3, <2>4, <2>5
  <1>8. QED BY <1>6, <1>7

\* Whatever is on the screen, a step of a drawing routine keeps its counters
\* right and stores what its call is to show, pixel by pixel.
LEMMA StepProgress ==
  ASSUME CounterInv, NEW c \in Clients, Step(c)
  PROVE  CounterInv' /\ cmd' = cmd /\ OthersStay(c) /\ Progress(c)
  BY CallProgress, SetPixelProgress, FillWordProgress, RowProgress,
     ColumnProgress DEF Step

\* Such a step keeps the screen right.
LEMMA StepKeeps ==
  ASSUME IInv, NEW c \in Clients, Step(c)
  PROVE  IInv'
  <1> USE DEF IInv
  <1>1. CounterInv
    BY DEF CounterInv, CounterTypeOK, TypeOK
  <1>2. CounterInv' /\ cmd' = cmd /\ OthersStay(c) /\ Progress(c)
    BY <1>1, StepProgress
  <1>3. ASSUME screen' \in [Cells -> [by : SUBSET Clients, at : Nat]]
        PROVE  TypeOK'
    BY <1>2, <1>3 DEF CounterInv, CounterTypeOK, TypeOK, Cells, Commands
  <1>4. CASE /\ screen' = screen
             /\ \A q \in Footprint(c) : Passed(c, q)' => Passed(c, q)
    <2>1. StoresAreClipped' /\ OwnedInv'
      BY <1>2, <1>4, NotStored
    <2>2. PassedInv'
      BY <1>2, <1>4, PassedByStep
    <2>3. TypeOK'
      BY <1>3, <1>4 DEF TypeOK
    <2>4. QED BY <1>2, <2>1, <2>2, <2>3 DEF CounterInv
  <1>5. ASSUME NEW p \in Footprint(c), Store(c, p, WordAt(c, p)),
               \A q \in Footprint(c) : Passed(c, q)' => Passed(c, q) \/ q = p
        PROVE  IInv'
    <2>1. /\ screen' \in [Cells -> [by : SUBSET Clients, at : Nat]]
          /\ StoresAreClipped' /\ OwnedInv'
          /\ screen'[p].by = {c}
          /\ \A q \in Cells : screen[q] # Blank => screen'[q] # Blank
      BY <1>2, <1>5, Stored
    <2>2. screen'[p] # Blank
      <3>1. screen'[p].by # Blank.by
        BY <2>1 DEF Blank
      <3>2. QED BY <3>1
    <2>3. PassedInv'
      BY <1>2, <1>5, <2>1, <2>2, PassedByStep
    <2>4. QED BY <1>2, <1>3, <2>1, <2>3 DEF CounterInv
  <1>6. QED BY <1>2, <1>4, <1>5 DEF Progress

-----------------------------------------------------------------------------
(* The theorems.                                                           *)

LEMMA InitInvariant == Init => IInv
  <1> SUFFICES ASSUME Init PROVE IInv
    OBVIOUS
  <1>1. TypeOK
    <2>1. \A c \in Clients : cmd[c].size[2] \in Nat
      <3>1. ASSUME NEW c \in Clients PROVE cmd[c].size[2] \in Nat
        <4>1. cmd[c] \in Commands
          BY DEF Init
        <4>2. cmd[c].size \in Images \union {<<1, 1>>, <<Width, Height>>}
          BY <4>1 DEF Commands
        <4>3. Images \subseteq Nat \X Nat /\ Width \in Nat /\ Height \in Nat
          BY ScreenAssumption
        <4>4. QED BY <4>2, <4>3
      <3>2. QED BY <3>1
    <2>2. QED BY <2>1 DEF Init, TypeOK, Blank
  <1>2. CallInv /\ LoopInv
    BY DEF Init, CallInv, LoopInv
  <1>3. \A p \in Cells : screen[p] = Blank /\ screen[p].by = {}
    BY DEF Init, Blank
  <1>4. OwnedInv /\ StoresAreClipped
    BY <1>3 DEF OwnedInv, StoresAreClipped
  <1>5. PassedInv
    BY DEF Init, PassedInv, Passed
  <1>6. QED BY <1>1, <1>2, <1>4, <1>5 DEF IInv

LEMMA NextInvariant == IInv /\ [Next]_vars => IInv'
  <1>1. ASSUME IInv, UNCHANGED vars PROVE IInv'
    <2>1. UNCHANGED <<pc, cmd, y, x, screen>>
      BY <1>1 DEF vars
    <2>2. TypeOK' /\ CallInv' /\ LoopInv'
      BY <1>1, <2>1 DEF IInv, TypeOK, CallInv, LoopInv, Cells, Commands
    <2>3. StoresAreClipped' /\ OwnedInv'
      BY <1>1, <2>1, NotStored DEF IInv
    <2>4. PassedInv'
      BY <1>1, <2>1 DEF IInv, PassedInv, Passed, Footprint, Cells, Blank
    <2>5. QED BY <2>2, <2>3, <2>4 DEF IInv
  <1>2. ASSUME IInv, NEW c \in Clients, Step(c)
        PROVE  IInv'
    BY <1>2, StepKeeps
  <1>3. QED BY <1>1, <1>2 DEF Next

\* The row counter of fb_draw_image stays within the image, and every pixel is
\* blank or a word of an image.
THEOREM TypeCorrect == Spec => []TypeOK
  <1>1. IInv => TypeOK
    BY DEF IInv
  <1>2. QED BY <1>1, InitInvariant, NextInvariant, PTL DEF Spec

\* fb_draw_image, fb_set_pixel and fb_fill store only where the image lies on
\* the screen, and the word of the image that belongs there, for every screen
\* and image that 32 bits can address.
THEOREM Clipped == Spec => []StoresAreClipped
  <1>1. IInv => StoresAreClipped
    BY DEF IInv
  <1>2. QED BY <1>1, InitInvariant, NextInvariant, PTL DEF Spec

\* When a drawing routine returns, all of its image that lies on the screen
\* was stored, and what is not there any more another call drew over.
THEOREM Shown == Spec => []FinishedIsShown
  <1>1. IInv => FinishedIsShown
    <2>1. SUFFICES ASSUME IInv, NEW c \in Clients, pc[c] = "done",
                          NEW p \in Footprint(c)
                   PROVE  \E d \in Clients :
                            screen[p].by = {d} /\ p \in Footprint(d)
      BY DEF FinishedIsShown
    <2>2. p \in Cells /\ screen[p] # Blank
      BY <2>1 DEF IInv, PassedInv, Passed, Footprint
    <2>3. PICK d \in Clients : screen[p].by = {d}
      BY <2>1, <2>2 DEF IInv, OwnedInv
    <2>4. p \in Footprint(d)
      BY <2>1, <2>2, <2>3 DEF IInv, StoresAreClipped
    <2>5. QED BY <2>3, <2>4
  <1>2. QED BY <1>1, InitInvariant, NextInvariant, PTL DEF Spec

-----------------------------------------------------------------------------
(* The drawing loops implement PixelDrawing.                               *)

LEMMA InitDraws == Init => Pixels!Init
  <1> SUFFICES ASSUME Init PROVE Pixels!Init
    OBVIOUS
  <1>1. \A c \in Clients : DOMAIN Drawings[c] = Footprint(c)
    BY DEF Drawings, Drawing
  <1>2. \A c \in Clients : Footprint(c) \subseteq Cells
    BY DEF Footprint
  <1>3. \A c \in Clients : Left(c) = Footprint(c)
    BY DEF Init, Left, Passed
  <1>4. LeftOvers = [c \in Clients |-> DOMAIN Drawings[c]]
    BY <1>1, <1>3 DEF LeftOvers
  <1>5. Returned = {}
    BY DEF Init, Returned
  <1>6. QED BY <1>1, <1>2, <1>4, <1>5 DEF Init, Pixels!Init

\* A step of a loop draws a pixel that was left, returns, or both, or is a
\* matter of the loop's own counters.
LEMMA StepDraws ==
  ASSUME CounterInv, NEW c \in Clients, Step(c)
  PROVE  Pixels!Draw(c)
  <1>1. CounterInv' /\ cmd' = cmd /\ OthersStay(c) /\ Progress(c)
    BY StepProgress
  <1>2. \A d \in Clients : Footprint(d)' = Footprint(d)
    BY <1>1 DEF Footprint, Cells
  <1>3. \A d \in Clients, q \in Cells : WordAt(d, q)' = WordAt(d, q)
    BY <1>1 DEF WordAt
  <1>4. Drawings' = Drawings
    <2>1. ASSUME NEW d \in Clients PROVE Drawing(d)' = Drawing(d)
      BY <1>2, <1>3 DEF Drawing, Footprint
    <2>2. QED BY <2>1 DEF Drawings
  <1>5. pc[c] # "done" /\ c \notin Returned
    BY DEF Step, Call, SetPixel, FillWord, Row, Column, Goto, Returned
  <1>6. \A d \in Clients \ {c} : Left(d)' = Left(d)
    BY <1>1, <1>2 DEF Left, Passed, OthersStay
  <1>7. Pixels!Paint(c) \/ UNCHANGED <<LeftOvers, screen>>
    <2>1. CASE /\ screen' = screen
               /\ \A q \in Footprint(c) : Passed(c, q)' <=> Passed(c, q)
      <3>1. Left(c)' = Left(c)
        BY <1>2, <2>1 DEF Left
      <3>2. \A d \in Clients : Left(d)' = Left(d)
        BY <1>6, <3>1
      <3>3. QED BY <2>1, <3>2 DEF LeftOvers
    <2>2. ASSUME NEW p \in Footprint(c), ~Passed(c, p),
                 Store(c, p, WordAt(c, p)),
                 \A q \in Footprint(c) : Passed(c, q)' <=> Passed(c, q) \/ q = p
          PROVE  Pixels!Paint(c)
      <3>1. p \in LeftOvers[c]
        BY <2>2 DEF LeftOvers, Left
      <3>2. Left(c)' = Left(c) \ {p}
        BY <1>2, <2>2 DEF Left
      <3>3. LeftOvers' = [LeftOvers EXCEPT ![c] = @ \ {p}]
        BY <1>6, <3>2 DEF LeftOvers
      <3>4. screen' = [screen EXCEPT ![p] = Drawings[c][p]]
        BY <2>2 DEF Store, Drawings, Drawing
      <3>5. QED BY <3>1, <3>3, <3>4 DEF Pixels!Paint
    <2>3. QED BY <1>1, <2>1, <2>2 DEF Progress
  <1>8. Pixels!Return(c) \/ UNCHANGED Returned
    <2>1. CASE pc'[c] = "done"
      <3>1. LeftOvers'[c] = {}
        BY <2>1 DEF LeftOvers, Left, Passed
      <3>2. Returned' = Returned \union {c}
        BY <1>1, <2>1 DEF Returned, OthersStay
      <3>3. QED BY <3>1, <3>2 DEF Pixels!Return
    <2>2. CASE pc'[c] # "done"
      BY <1>1, <1>5, <2>2 DEF Returned, OthersStay
    <2>3. QED BY <2>1, <2>2
  <1>9. QED BY <1>4, <1>5, <1>7, <1>8 DEF Pixels!Draw

\* However the steps of several processes interleave, a call of fb_draw_image,
\* fb_set_pixel or fb_fill draws each of its pixels exactly once before it
\* returns, so that what others draw over the finished part of it stays.
THEOREM DrawsEachPixelOnce == Spec => ImplementsDrawing
  <1>1. Init => Pixels!Init
    BY InitDraws
  <1>2. IInv => CounterInv
    BY DEF IInv, CounterInv, CounterTypeOK, TypeOK
  <1>3. CounterInv /\ [Next]_vars => [Pixels!Next]_(Pixels!vars)
    <2>1. ASSUME CounterInv, NEW c \in Clients, Step(c)
          PROVE  Pixels!Next
      BY <2>1, StepDraws DEF Pixels!Next
    <2>2. ASSUME UNCHANGED vars
          PROVE  UNCHANGED Pixels!vars
      <3>1. UNCHANGED <<pc, cmd, y, x, screen>>
        BY <2>2 DEF vars
      <3>2. \A c \in Clients : /\ Footprint(c)' = Footprint(c)
                               /\ Left(c)' = Left(c)
        BY <3>1 DEF Left, Passed, Footprint, Cells
      <3>3. \A c \in Clients : Drawing(c)' = Drawing(c)
        BY <3>1, <3>2 DEF Drawing, WordAt
      <3>4. QED BY <3>1, <3>2, <3>3
                DEF Pixels!vars, Drawings, LeftOvers, Returned
    <2>3. QED BY <2>1, <2>2 DEF Next
  <1>4. QED BY <1>1, <1>2, <1>3, InitInvariant, NextInvariant, PTL
            DEF Spec, ImplementsDrawing, Pixels!Spec

-----------------------------------------------------------------------------
(* The drawing loops end.                                                  *)

\* The inner counters end with their row and with the buffer.
BoundInv ==
  \A c \in Clients :
    /\ pc[c] = "column" => x[c] =< cmd[c].size[1]
    /\ pc[c] = "fill" => x[c] =< Width * Height

\* The rows that are left, the next one taken off.
LEMMA OneRowLess ==
  ASSUME NEW h \in Nat, NEW w \in Nat, NEW j \in Nat, j < h
  PROVE  /\ (h - j) * (w + 2) \in Nat
         /\ (h - (j + 1)) * (w + 2) \in Nat
         /\ (h - j) * (w + 2) = (h - (j + 1)) * (w + 2) + (w + 2)
  BY SMT

LEMMA RowsLeft ==
  ASSUME NEW h \in Nat, NEW w \in Nat, NEW j \in Nat, j =< h
  PROVE  (h - j) * (w + 2) \in Nat
  BY SMT

LEMMA CallBounded ==
  ASSUME CounterInv, BoundInv, NEW c \in Clients, Step(c)
  PROVE  /\ BoundInv' /\ Remaining(c) \in Nat
         /\ Remaining(c)' \in Nat /\ Remaining(c)' < Remaining(c)
  <1> DEFINE w == cmd[c].size[1]
             h == cmd[c].size[2]
  <1>1. CounterInv' /\ cmd' = cmd /\ OthersStay(c)
    BY StepProgress
  <1>2. /\ w \in Nat /\ h \in Nat /\ y[c] \in Nat /\ x[c] \in Nat /\ y[c] =< h
        /\ pc[c] = "column" => y[c] < h
        /\ pc[c] = "idle" => y[c] = 0 /\ x[c] = 0
        /\ Width \in Nat /\ Height \in Nat /\ Width * Height \in Nat
    BY CommandType, ScreenAssumption DEF CounterInv, CounterTypeOK, LoopInv
  <1>3. SUFFICES /\ pc'[c] = "column" => x'[c] =< w
                 /\ pc'[c] = "fill" => x'[c] =< Width * Height
                 /\ Remaining(c) \in Nat
                 /\ Remaining(c)' \in Nat /\ Remaining(c)' < Remaining(c)
    BY <1>1 DEF BoundInv, OthersStay
  <1>4. CASE Call(c)
    <2>1. /\ pc[c] = "idle" /\ y'[c] = 0 /\ x'[c] = 0
          /\ \/ pc'[c] = "row"
             \/ pc'[c] = "pixel"
             \/ pc'[c] = "fill" /\ w = Width /\ h = Height
      <3>1. cmd[c].op \in {"image", "pixel", "fill"}
        BY CommandType DEF CounterInv, Commands
      <3>2. QED BY <1>2, <1>4, <3>1, CommandType
                DEF Call, Goto, CounterInv, CounterTypeOK
    <2>2. Remaining(c) = h * (w + 2) + 2 /\ h * (w + 2) \in Nat
      BY <1>2, <2>1 DEF Remaining
    <2>3. CASE pc'[c] = "row"
      <3>1. Remaining(c)' = (h - 0) * (w + 2) + 1
        BY <1>1, <2>1, <2>3 DEF Remaining
      <3>2. QED BY <1>2, <2>2, <2>3, <3>1
    <2>4. CASE pc'[c] = "pixel"
      <3>1. Remaining(c)' = 1
        BY <2>4 DEF Remaining
      <3>2. QED BY <2>2, <2>4, <3>1
    <2>5. CASE pc'[c] = "fill" /\ w = Width /\ h = Height
      <3>1. Remaining(c)' = Width * Height - 0 + 1
        BY <2>1, <2>5 DEF Remaining
      <3>2. h * (w + 2) >= w * h
        BY <1>2, SMT
      <3>3. QED BY <1>2, <2>1, <2>2, <2>5, <3>1, <3>2
    <2>6. QED BY <2>1, <2>3, <2>4, <2>5
  <1>5. CASE SetPixel(c)
    BY <1>5 DEF SetPixel, Goto, Remaining, CounterInv, CounterTypeOK
  <1>6. CASE FillWord(c)
    <2>1. pc[c] = "fill" /\ x[c] =< Width * Height
      BY <1>6 DEF FillWord, Goto, BoundInv
    <2>2. Remaining(c) = Width * Height - x[c] + 1
      BY <2>1 DEF Remaining
    <2>3. CASE x[c] < Width * Height
      <3>1. pc'[c] = "fill" /\ x'[c] = x[c] + 1
        BY <1>6, <2>3 DEF FillWord, Goto, CounterInv, CounterTypeOK
      <3>2. Remaining(c)' = Width * Height - (x[c] + 1) + 1
        BY <3>1 DEF Remaining
      <3>3. QED BY <1>2, <2>2, <2>3, <3>1, <3>2
    <2>4. CASE ~(x[c] < Width * Height)
      <3>1. pc'[c] = "done"
        BY <1>6, <2>4 DEF FillWord, Goto, CounterInv, CounterTypeOK
      <3>2. Remaining(c)' = 0
        BY <3>1 DEF Remaining
      <3>3. QED BY <1>2, <2>1, <2>2, <3>1, <3>2
    <2>5. QED BY <2>3, <2>4
  <1>7. CASE Row(c)
    <2>1. /\ pc[c] = "row" /\ pc'[c] \in {"column", "done"}
          /\ y' = y /\ x'[c] = 0
      BY <1>7 DEF Row, Goto, CounterInv, CounterTypeOK
    <2>2. Remaining(c) = (h - y[c]) * (w + 2) + 1 /\ (h - y[c]) * (w + 2) \in Nat
      BY <1>2, <2>1, RowsLeft DEF Remaining
    <2>3. CASE pc'[c] = "column"
      <3>1. Remaining(c)' = (h - y[c]) * (w + 2) - 0
        BY <1>1, <2>1, <2>3 DEF Remaining
      <3>2. QED BY <1>2, <2>1, <2>2, <2>3, <3>1
    <2>4. CASE pc'[c] = "done"
      <3>1. Remaining(c)' = 0
        BY <2>4 DEF Remaining
      <3>2. QED BY <2>2, <2>4, <3>1
    <2>5. QED BY <2>1, <2>3, <2>4
  <1>8. CASE Column(c)
    <2>1. pc[c] = "column" /\ x[c] =< w /\ y[c] < h
      BY <1>2, <1>8 DEF Column, Goto, BoundInv
    <2>2. Remaining(c) = (h - y[c]) * (w + 2) - x[c]
      BY <2>1 DEF Remaining
    <2>3. /\ (h - y[c]) * (w + 2) \in Nat
          /\ (h - (y[c] + 1)) * (w + 2) \in Nat
          /\ (h - y[c]) * (w + 2) = (h - (y[c] + 1)) * (w + 2) + (w + 2)
      <3>1. h \in Nat /\ w \in Nat /\ y[c] \in Nat /\ y[c] < h
        BY <1>2, <2>1
      <3> HIDE DEF h, w
      <3>2. QED BY <3>1, OneRowLess
    <2>4. CASE x[c] < w /\ ~OffRight(c)
      <3>1. pc'[c] = "column" /\ x'[c] = x[c] + 1 /\ y' = y
        BY <1>8, <2>4 DEF Column, Goto, CounterInv, CounterTypeOK
      <3>2. Remaining(c)' = (h - y[c]) * (w + 2) - (x[c] + 1)
        BY <1>1, <3>1 DEF Remaining
      <3>3. QED BY <1>2, <2>2, <2>3, <2>4, <3>1, <3>2
    <2>5. CASE ~(x[c] < w /\ ~OffRight(c))
      <3>1. pc'[c] = "row" /\ y'[c] = y[c] + 1
        BY <1>8, <2>5 DEF Column, Goto, CounterInv, CounterTypeOK
      <3>2. Remaining(c)' = (h - (y[c] + 1)) * (w + 2) + 1
        BY <1>1, <3>1 DEF Remaining
      <3>3. QED BY <1>2, <2>1, <2>2, <2>3, <3>1, <3>2
    <2>6. QED BY <2>4, <2>5
  <1>9. QED BY <1>4, <1>5, <1>6, <1>7, <1>8 DEF Step

\* Each step of fb_draw_image, fb_set_pixel or fb_fill brings its return
\* closer, for every screen, image and position: with fairness this is why
\* DrawingReturns holds.
THEOREM Bounded == Spec => CallsAreBounded
  <1> DEFINE BInv == CounterInv /\ BoundInv
             Closer == \A c \in Clients :
               Step(c) => Remaining(c)' \in Nat /\ Remaining(c)' < Remaining(c)
  <1>1. Init => BInv
    <2>1. IInv => CounterInv
      BY DEF IInv, CounterInv, CounterTypeOK, TypeOK
    <2>2. Init => BoundInv
      BY DEF Init, BoundInv
    <2>3. QED BY <2>1, <2>2, InitInvariant
  <1>2. BInv /\ [Next]_vars => BInv'
    <2>1. ASSUME BInv, NEW c \in Clients, Step(c)
          PROVE  BInv'
      BY <2>1, StepProgress, CallBounded
    <2>2. ASSUME BInv, UNCHANGED vars
          PROVE  BInv'
      BY <2>2 DEF vars, CounterInv, CounterTypeOK, CallInv, LoopInv, BoundInv,
                  Commands
    <2>3. QED BY <2>1, <2>2 DEF Next
  <1>3. BInv /\ [Next]_vars => [Closer]_vars
    <2>1. ASSUME BInv, NEW c \in Clients, Step(c)
          PROVE  Remaining(c)' \in Nat /\ Remaining(c)' < Remaining(c)
      BY <2>1, CallBounded
    <2>2. QED BY <2>1
  <1>4. QED BY <1>1, <1>2, <1>3, PTL DEF Spec, CallsAreBounded
=============================================================================
