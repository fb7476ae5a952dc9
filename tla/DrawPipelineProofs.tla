------------------------- MODULE DrawPipelineProofs -------------------------
(***************************************************************************)
(* Drawing calls of any number of threads, on any screen, implement the    *)
(* atomic canvas.                                                          *)
(***************************************************************************)
EXTENDS DrawPipeline, DisplayApiProofs

FbP == INSTANCE FrameBufferProofs WITH Clients <- Threads, pc <- loop

\* The two instances of FrameBuffer are one.
LEMMA SameFrameBuffer ==
  /\ Fb!Cells = FbP!Cells /\ Fb!Commands = FbP!Commands
  /\ \A t : Fb!Footprint(t) = FbP!Footprint(t)
  /\ \A t, p : Fb!WordAt(t, p) = FbP!WordAt(t, p)
  /\ \A t : Fb!Step(t) <=> FbP!Step(t)
<1>1. Fb!Cells = FbP!Cells /\ Fb!Commands = FbP!Commands
  BY DEF Fb!Cells, FbP!Cells, Fb!Commands, FbP!Commands
<1>2. \A t : Fb!Footprint(t) = FbP!Footprint(t)
  BY <1>1 DEF Fb!Footprint, FbP!Footprint
<1>3. \A t, p : Fb!WordAt(t, p) = FbP!WordAt(t, p)
  BY DEF Fb!WordAt, FbP!WordAt
<1>4. \A t : Fb!Step(t) <=> FbP!Step(t)
  BY DEF Fb!Step, FbP!Step, Fb!Call, FbP!Call, Fb!SetPixel, FbP!SetPixel,
         Fb!FillWord, FbP!FillWord, Fb!Row, FbP!Row, Fb!Column, FbP!Column,
         Fb!Goto, FbP!Goto, Fb!Store, FbP!Store, Fb!Pixel, FbP!Pixel,
         Fb!OffBottom, FbP!OffBottom, Fb!OffRight, FbP!OffRight
<1>. QED
  BY <1>1, <1>2, <1>3, <1>4

\* The drawing calls and their mutex are those of DisplayApi.
LEMMA CallsAreApiCalls == PipelineSpec => Spec
<1>1. PipelineInit => Init
  BY DEF PipelineInit
<1>2. [PipelineNext]_pipeline => [Next]_vars
  BY DEF PipelineNext, Render, CallWith, CallStep, Lock, Loop, Finish,
         pipeline, Next, Step
<1>. QED
  BY <1>1, <1>2, PTL DEF PipelineSpec, Spec

-----------------------------------------------------------------------------
(* The counters of the routines.                                           *)

\* A thread outside of the driver has left its routine behind.
LeftInv ==
  \A t \in Threads :
    pc[t] # "draw" => loop[t] = "idle" /\ y[t] = 0 /\ x[t] = 0

ScreenTypeOK ==
  /\ screen \in [Fb!Cells -> [by : SUBSET Threads, at : Nat]]
  /\ stale \subseteq Fb!Cells

RoutineInv == FbP!CounterInv /\ LeftInv /\ ScreenTypeOK

LEMMA CommandSizes ==
  \A k \in Fb!Commands :
    k.size[2] \in Nat /\ k.op \in {"image", "pixel", "fill"}
<1>1. SUFFICES ASSUME NEW k \in Fb!Commands
               PROVE  /\ k.size[2] \in Nat
                      /\ k.op \in {"image", "pixel", "fill"}
  OBVIOUS
<1>2. /\ k.size \in Images \union {<<1, 1>>, <<Width, Height>>}
      /\ k.op \in {"image", "pixel", "fill"}
  BY DEF Fb!Commands
<1>3. Images \subseteq Nat \X Nat /\ Width \in Nat /\ Height \in Nat
  BY PipelineAssumption DEF Fb!ScreenAssumption
<1>. QED
  BY <1>2, <1>3

\* What a step of a thread in a drawing routine does.
LEMMA LoopProgress ==
  ASSUME FbP!CounterInv, NEW t \in Threads, Loop(t)
  PROVE  /\ FbP!CounterInv' /\ cmd' = cmd /\ FbP!OthersStay(t)
         /\ FbP!Progress(t) /\ pc[t] = "draw" /\ UNCHANGED vars
         /\ stale' \subseteq stale \union Fb!Cells
<1>1. FbP!Step(t)
  BY SameFrameBuffer DEF Loop
<1>. QED
  BY <1>1, PipelineAssumption, FbP!StepProgress, SameFrameBuffer
     DEF Loop, FbP!ScreenAssumption, Fb!ScreenAssumption

LEMMA RoutineInit == PipelineInit => RoutineInv
<1> SUFFICES ASSUME PipelineInit PROVE RoutineInv
  OBVIOUS
<1>1. /\ loop = [t \in Threads |-> "idle"]
      /\ y = [t \in Threads |-> 0] /\ x = [t \in Threads |-> 0]
      /\ cmd \in [Threads -> Fb!Commands]
      /\ screen = [p \in Fb!Cells |-> [by |-> {}, at |-> 0]] /\ stale = {}
  BY DEF PipelineInit, Fb!Init, Fb!Blank
<1>2. \A t \in Threads : cmd[t].size[2] \in Nat
  BY <1>1, CommandSizes
<1>3. FbP!CounterInv
  BY <1>1, <1>2, SameFrameBuffer
     DEF FbP!CounterInv, FbP!CounterTypeOK, FbP!CallInv, FbP!LoopInv
<1>4. LeftInv /\ ScreenTypeOK
  BY <1>1 DEF LeftInv, ScreenTypeOK
<1>. QED
  BY <1>3, <1>4 DEF RoutineInv

LEMMA RoutineStep ==
  TypeOK /\ RoutineInv /\ [PipelineNext]_pipeline => RoutineInv'
<1> SUFFICES ASSUME TypeOK, RoutineInv, [PipelineNext]_pipeline
             PROVE  RoutineInv'
  OBVIOUS
<1> USE DEF RoutineInv
<1>1. pc \in [Threads -> {"idle", "lock", "draw", "unlock", "report"}]
  BY DEF TypeOK
<1>2. /\ loop \in [Threads -> {"idle", "row", "column", "pixel", "fill", "done"}]
      /\ cmd \in [Threads -> Fb!Commands]
      /\ y \in [Threads -> Nat] /\ x \in [Threads -> Nat]
  BY SameFrameBuffer DEF FbP!CounterInv, FbP!CounterTypeOK
<1>3. ASSUME UNCHANGED <<loop, cmd, y, x>>
      PROVE  FbP!CounterInv'
  BY <1>3 DEF FbP!CounterInv, FbP!CounterTypeOK, FbP!CallInv, FbP!LoopInv,
              FbP!Commands
<1>4. ASSUME screen' = screen, stale' \subseteq stale
      PROVE  ScreenTypeOK'
  BY <1>4 DEF ScreenTypeOK, Fb!Cells
<1>5. ASSUME NEW t \in Threads, CallWith(t)
      PROVE  RoutineInv'
  <2>1. PICK k \in Fb!Commands : cmd' = [cmd EXCEPT ![t] = k]
    BY <1>5 DEF CallWith
  <2>2. /\ pc[t] = "idle" /\ pc' = [pc EXCEPT ![t] = "lock"]
        /\ UNCHANGED <<loop, y, x, screen, stale>>
    BY <1>5 DEF CallWith, Call, Goto
  <2>3. loop[t] = "idle" /\ y[t] = 0 /\ x[t] = 0
    BY <2>2 DEF LeftInv
  <2>4. /\ cmd' \in [Threads -> Fb!Commands] /\ cmd'[t] = k
        /\ \A u \in Threads \ {t} : cmd'[u] = cmd[u]
    BY <1>2, <2>1
  <2>5. k.size[2] \in Nat
    BY CommandSizes
  <2>6. FbP!CounterTypeOK'
    BY <2>2, <2>3, <2>4, <2>5, SameFrameBuffer
       DEF FbP!CounterInv, FbP!CounterTypeOK, FbP!Commands
  <2>7. FbP!CallInv' /\ FbP!LoopInv'
    BY <2>2, <2>3, <2>4 DEF FbP!CounterInv, FbP!CallInv, FbP!LoopInv
  <2>8. LeftInv'
    BY <1>1, <2>2 DEF LeftInv
  <2>. QED
    BY <1>4, <2>2, <2>6, <2>7, <2>8 DEF FbP!CounterInv
<1>6. ASSUME NEW t \in Threads, Lock(t)
      PROVE  RoutineInv'
  <2>1. UNCHANGED <<loop, cmd, y, x, screen, stale>>
    BY <1>6 DEF Lock, routine
  <2>2. /\ pc[t] # "draw"
        /\ \A u \in Threads \ {t} : pc'[u] = pc[u]
    BY <1>1, <1>6 DEF Lock, Acquire, Busy, Report, Unlock, Goto
  <2>3. LeftInv'
    BY <2>1, <2>2 DEF LeftInv
  <2>. QED
    BY <1>3, <1>4, <2>1, <2>3
<1>7. ASSUME NEW t \in Threads, Loop(t)
      PROVE  RoutineInv'
  <2>1. /\ FbP!CounterInv' /\ cmd' = cmd /\ FbP!OthersStay(t)
        /\ FbP!Progress(t) /\ pc[t] = "draw" /\ pc' = pc
        /\ stale' \subseteq stale \union Fb!Cells
    BY <1>7, LoopProgress DEF vars
  <2>2. LeftInv'
    BY <2>1 DEF LeftInv, FbP!OthersStay
  <2>3. screen' \in [Fb!Cells -> [by : SUBSET Threads, at : Nat]]
    <3>1. CASE screen' = screen
      BY <3>1 DEF ScreenTypeOK
    <3>2. ASSUME NEW p \in FbP!Footprint(t),
                 FbP!Store(t, p, FbP!WordAt(t, p))
          PROVE  screen' \in [Fb!Cells -> [by : SUBSET Threads, at : Nat]]
      <4>1. FbP!WordAt(t, p) \in Nat
        BY FbP!WordIsNumber, PipelineAssumption
           DEF FbP!CounterInv, FbP!ScreenAssumption, Fb!ScreenAssumption
      <4>. QED
        BY <3>2, <4>1 DEF FbP!Store, ScreenTypeOK
    <3>. QED
      BY <2>1, <3>1, <3>2 DEF FbP!Progress
  <2>4. ScreenTypeOK'
    BY <2>1, <2>3 DEF ScreenTypeOK, Fb!Cells
  <2>. QED
    BY <2>1, <2>2, <2>4
<1>8. ASSUME NEW t \in Threads, Finish(t)
      PROVE  RoutineInv'
  <2>1. /\ loop' = [loop EXCEPT ![t] = "idle"]
        /\ y' = [y EXCEPT ![t] = 0] /\ x' = [x EXCEPT ![t] = 0]
        /\ UNCHANGED <<cmd, screen, stale>>
        /\ pc' = [pc EXCEPT ![t] = "unlock"]
    BY <1>8 DEF Finish, Draw, Goto
  <2>2. cmd[t].size[2] \in Nat
    BY <1>2, CommandSizes
  <2>3. FbP!CounterTypeOK'
    BY <1>2, <2>1, <2>2
       DEF FbP!CounterInv, FbP!CounterTypeOK, FbP!Commands
  <2>4. FbP!CallInv' /\ FbP!LoopInv'
    BY <1>2, <2>1 DEF FbP!CounterInv, FbP!CallInv, FbP!LoopInv
  <2>5. LeftInv'
    BY <1>1, <1>2, <2>1 DEF LeftInv
  <2>. QED
    BY <1>4, <2>1, <2>3, <2>4, <2>5 DEF FbP!CounterInv
<1>9. CASE Render
  <2>1. UNCHANGED <<pc, loop, cmd, y, x, screen>> /\ stale' \subseteq stale
    BY <1>9 DEF Render, routine, vars
  <2>2. LeftInv'
    BY <2>1 DEF LeftInv
  <2>. QED
    BY <1>3, <1>4, <2>1, <2>2
<1>10. CASE UNCHANGED pipeline
  <2>1. UNCHANGED <<pc, loop, cmd, y, x, screen, stale>>
    BY <1>10 DEF pipeline, routine, vars
  <2>2. LeftInv'
    BY <2>1 DEF LeftInv
  <2>. QED
    BY <1>3, <1>4, <2>1, <2>2
<1>. QED
  BY <1>5, <1>6, <1>7, <1>8, <1>9, <1>10 DEF PipelineNext, CallStep

\* A thread that is not in the driver has no counters of an earlier call left,
\* the counters of one that is stay within its image, and only pixels of the
\* screen lag behind.
THEOREM PipelineTypeCorrect == PipelineSpec => []PipelineTypeOK
<1>1. TypeOK /\ RoutineInv => PipelineTypeOK
  BY SameFrameBuffer
     DEF PipelineTypeOK, RoutineInv, LeftInv, ScreenTypeOK, Fb!TypeOK,
         FbP!CounterInv, FbP!CounterTypeOK
<1>2. Spec => []TypeOK
  BY TypeCorrect
<1>. QED
  BY <1>1, <1>2, CallsAreApiCalls, RoutineInit, RoutineStep, PTL
     DEF PipelineSpec

-----------------------------------------------------------------------------
(* The atomic canvas.                                                      *)

Painted(t) ==
  [p \in Fb!Cells |->
     IF p \in Fb!Footprint(t) THEN Drawing(t)[p] ELSE screen[p]]

\* The thread in the driver has put on the screen what it has passed.
StoredInv ==
  \A t \in Threads :
    pc[t] = "draw" =>
      \A p \in Fb!Footprint(t) :
        FbP!Passed(t, p) => screen[p] = Drawing(t)[p]

OneDrawer == \A t, u \in Threads : pc[t] = "draw" /\ pc[u] = "draw" => t = u

LEMMA CanvasIsScreen ==
  /\ (\A t \in Threads : pc[t] # "draw") => Canvas = screen
  /\ (\A t \in Threads : pc'[t] # "draw") => Canvas' = screen'
  BY DEF Canvas, Drawers

LEMMA CanvasIsPainted ==
  ASSUME NEW t \in Threads
  PROVE  /\ pc[t] = "draw" /\ OneDrawer => Canvas = Painted(t)
         /\ pc'[t] = "draw" /\ OneDrawer' => Canvas' = Painted(t)'
<1>1. ASSUME pc[t] = "draw", OneDrawer PROVE Canvas = Painted(t)
  <2>1. (CHOOSE u \in Threads : pc[u] = "draw") = t
    BY <1>1 DEF OneDrawer
  <2>2. Drawers # {}
    BY <1>1 DEF Drawers
  <2>. QED
    BY <2>1, <2>2 DEF Canvas, Painted
<1>2. ASSUME pc'[t] = "draw", OneDrawer' PROVE Canvas' = Painted(t)'
  <2>1. (CHOOSE u \in Threads : pc'[u] = "draw") = t
    BY <1>2 DEF OneDrawer
  <2>2. Drawers' # {}
    BY <1>2 DEF Drawers
  <2>. QED
    BY <2>1, <2>2 DEF Canvas, Painted
<1>. QED
  BY <1>1, <1>2

\* What a call draws is a matter of its command.
LEMMA DrawingStays ==
  ASSUME NEW t \in Threads, cmd'[t] = cmd[t]
  PROVE  /\ Fb!Footprint(t)' = Fb!Footprint(t)
         /\ Drawing(t)' = Drawing(t)
         /\ screen' = screen => Painted(t)' = Painted(t)
<1>1. Fb!Footprint(t)' = Fb!Footprint(t)
  BY DEF Fb!Footprint, Fb!Cells
<1>2. \A p : Fb!WordAt(t, p)' = Fb!WordAt(t, p)
  BY DEF Fb!WordAt
<1>3. Drawing(t)' = Drawing(t)
  BY <1>1, <1>2 DEF Drawing
<1>. QED
  BY <1>1, <1>3 DEF Painted, Fb!Cells

\* As long as commands, the screen and who draws stay, so does the canvas.
LEMMA CanvasStays ==
  ASSUME OneDrawer, OneDrawer', screen' = screen,
         \A t \in Threads : pc'[t] = "draw" <=> pc[t] = "draw",
         \A t \in Threads : pc[t] = "draw" => cmd'[t] = cmd[t]
  PROVE  Canvas' = Canvas
<1>1. CASE \A t \in Threads : pc[t] # "draw"
  BY <1>1, CanvasIsScreen
<1>2. ASSUME NEW t \in Threads, pc[t] = "draw" PROVE Canvas' = Canvas
  BY <1>2, CanvasIsPainted, DrawingStays
<1>. QED
  BY <1>1, <1>2

\* A store of the thread in the driver is on the canvas already, and what it
\* passes is on the screen.
LEMMA LoopPaints ==
  ASSUME RoutineInv, OneDrawer, StoredInv, NEW t \in Threads, Loop(t)
  PROVE  StoredInv' /\ Canvas' = Canvas
<1>1. /\ cmd' = cmd /\ FbP!OthersStay(t) /\ FbP!Progress(t)
      /\ pc[t] = "draw" /\ pc' = pc
  BY LoopProgress DEF RoutineInv, vars
<1>2. Fb!Footprint(t)' = Fb!Footprint(t) /\ Drawing(t)' = Drawing(t)
  BY <1>1, DrawingStays
<1>3. OneDrawer'
  BY <1>1 DEF OneDrawer
<1>4. \A p \in Fb!Footprint(t) :
        /\ p \in Fb!Cells
        /\ Drawing(t)[p] = [by |-> {t}, at |-> Fb!WordAt(t, p)]
  BY DEF Fb!Footprint, Drawing
<1>5. /\ \A q \in Fb!Footprint(t) :
           FbP!Passed(t, q)' => screen'[q] = Drawing(t)[q]
      /\ \A q \in Fb!Cells \ Fb!Footprint(t) : screen'[q] = screen[q]
  <2>1. CASE /\ screen' = screen
             /\ \A q \in FbP!Footprint(t) :
                  FbP!Passed(t, q)' => FbP!Passed(t, q)
    BY <1>1, <2>1, SameFrameBuffer DEF StoredInv
  <2>2. ASSUME NEW p \in FbP!Footprint(t),
               FbP!Store(t, p, FbP!WordAt(t, p)),
               \A q \in FbP!Footprint(t) :
                 FbP!Passed(t, q)' => FbP!Passed(t, q) \/ q = p
        PROVE  /\ \A q \in Fb!Footprint(t) :
                    FbP!Passed(t, q)' => screen'[q] = Drawing(t)[q]
               /\ \A q \in Fb!Cells \ Fb!Footprint(t) : screen'[q] = screen[q]
    <3>1. p \in Fb!Footprint(t) /\ p \in Fb!Cells
      BY <2>2, <1>4, SameFrameBuffer
    <3>2. /\ screen'[p] = Drawing(t)[p]
          /\ \A q \in Fb!Cells : q # p => screen'[q] = screen[q]
      BY <2>2, <3>1, <1>4, SameFrameBuffer
         DEF FbP!Store, RoutineInv, ScreenTypeOK
    <3>. QED
      BY <1>1, <1>4, <2>2, <3>1, <3>2, SameFrameBuffer DEF StoredInv
  <2>. QED
    BY <1>1, <2>1, <2>2 DEF FbP!Progress
<1>6. StoredInv'
  BY <1>1, <1>2, <1>3, <1>5 DEF StoredInv, OneDrawer
<1>7. Painted(t)' = Painted(t)
  BY <1>2, <1>5 DEF Painted, Fb!Cells
<1>. QED
  BY <1>1, <1>3, <1>6, <1>7, CanvasIsPainted

\* Under the mutex one thread draws.
LEMMA OneIsUnderLock ==
  /\ DrawUnderLock => OneDrawer
  /\ DrawUnderLock' => OneDrawer'
  BY DEF DrawUnderLock, InDriver, OneDrawer

LEMMA StagesMove ==
  ASSUME TypeOK, NEW t \in Threads, NEW here, NEW there, Goto(t, here, there)
  PROVE  /\ Stages[t] = Stage(t) /\ pc[t] = here /\ pc'[t] = there
         /\ Stages' = [Stages EXCEPT ![t] = Stage(t)']
         /\ \A u \in Threads \ {t} : pc'[u] = pc[u]
<1>1. /\ pc[t] = here /\ pc'[t] = there
      /\ \A u \in Threads \ {t} : pc'[u] = pc[u]
  BY DEF Goto, TypeOK
<1>2. \A u \in Threads \ {t} : Stage(u)' = Stage(u)
  BY <1>1 DEF Stage
<1>. QED
  BY <1>1, <1>2 DEF Stages

LEMMA DrawingsStay == cmd' = cmd => Drawings' = Drawings
  BY DrawingStays DEF Drawings

\* A call comes with any drawing that lies on the screen.
LEMMA CallIsAtomic ==
  ASSUME TypeOK, RoutineInv, DrawUnderLock, DrawUnderLock',
         NEW t \in Threads, CallWith(t)
  PROVE  Atomic!Call(t)
<1>1. PICK k \in Fb!Commands : cmd' = [cmd EXCEPT ![t] = k]
  BY DEF CallWith
<1>2. /\ Goto(t, "idle", "lock") /\ screen' = screen
      /\ \A u \in Threads \ {t} : flag'[u] = flag[u]
  BY DEF CallWith, Call, TypeOK
<1>3. \A u \in Threads \ {t} : cmd'[u] = cmd[u]
  BY <1>1, SameFrameBuffer DEF RoutineInv, FbP!CounterInv, FbP!CounterTypeOK
<1>4. Atomic!Goto(t, "idle", "called")
  BY <1>2, StagesMove DEF Atomic!Goto, Stage
<1>5. \A u \in Threads \ {t} : Drawings'[u] = Drawings[u]
  BY <1>3, DrawingStays DEF Drawings
<1>6. DOMAIN Drawings'[t] \subseteq Fb!Cells
  BY DEF Drawings, Drawing, Fb!Footprint, Fb!Cells
<1>7. Canvas' = Canvas
  BY <1>2, <1>3, StagesMove, OneIsUnderLock, CanvasStays
<1>. QED
  BY <1>2, <1>4, <1>5, <1>6, <1>7 DEF Atomic!Call

\* The thread that gets the mutex draws all at once.
LEMMA AcquireIsAtomic ==
  ASSUME TypeOK, DrawUnderLock, DrawUnderLock', cmd' = cmd, screen' = screen,
         NEW t \in Threads, Acquire(t)
  PROVE  Atomic!Apply(t)
<1>1. Goto(t, "lock", "draw") /\ owner = {} /\ flag' = flag
  BY DEF Acquire
<1>2. Atomic!Goto(t, "called", "applied")
  BY <1>1, StagesMove DEF Atomic!Goto, Stage
<1>3. Canvas = screen
  BY <1>1, CanvasIsScreen DEF DrawUnderLock, InDriver
<1>4. Canvas' = Painted(t)
  BY <1>1, StagesMove, OneIsUnderLock, CanvasIsPainted, DrawingStays
<1>5. Painted(t) = Atomic!Overlay(Canvas, Drawings[t])
  BY <1>3 DEF Painted, Drawings, Drawing, Atomic!Overlay
<1>. QED
  BY <1>1, <1>2, <1>4, <1>5, DrawingsStay DEF Atomic!Apply

\* What a call does outside of the driver.
LEMMA LockIsAtomic ==
  ASSUME TypeOK, CallbackInv, DrawUnderLock, DrawUnderLock',
         NEW t \in Threads, Lock(t)
  PROVE  Atomic!Apply(t) \/ Atomic!Refuse(t) \/ Atomic!Return(t)
<1>1. cmd' = cmd /\ screen' = screen
  BY DEF Lock, routine
<1>2. CASE Acquire(t)
  BY <1>1, <1>2, AcquireIsAtomic
<1>3. CASE Busy(t)
  <2>1. Goto(t, "lock", "report") /\ flag[t] = "wno" /\ flag' = flag
    BY <1>3 DEF Busy, CallbackInv
  <2>2. Atomic!Goto(t, "called", "refused")
    BY <2>1, StagesMove DEF Atomic!Goto, Stage
  <2>3. Canvas' = Canvas
    BY <1>1, <2>1, StagesMove, OneIsUnderLock, CanvasStays
  <2>. QED
    BY <1>1, <2>1, <2>2, <2>3, DrawingsStay DEF Atomic!Refuse
<1>4. CASE Report(t)
  <2>1. Goto(t, "report", "idle") /\ flag' = flag
    BY <1>4 DEF Report
  <2>2. Atomic!Goto(t, "refused", "idle")
    BY <2>1, StagesMove DEF Atomic!Goto, Stage
  <2>3. Canvas' = Canvas
    BY <1>1, <2>1, StagesMove, OneIsUnderLock, CanvasStays
  <2>. QED
    BY <1>1, <2>1, <2>2, <2>3, DrawingsStay DEF Atomic!Return
<1>5. CASE Unlock(t)
  <2>1. Goto(t, "unlock", "idle") /\ flag' = flag
    BY <1>5 DEF Unlock
  <2>2. Atomic!Goto(t, "applied", "idle")
    BY <2>1, StagesMove DEF Atomic!Goto, Stage
  <2>3. Canvas' = Canvas
    BY <1>1, <2>1, StagesMove, OneIsUnderLock, CanvasStays
  <2>. QED
    BY <1>1, <2>1, <2>2, <2>3, DrawingsStay DEF Atomic!Return
<1>. QED
  BY <1>2, <1>3, <1>4, <1>5 DEF Lock

\* The loops of the routine draw what is on the canvas already.
LEMMA LoopStutters ==
  ASSUME RoutineInv, DrawUnderLock, StoredInv, NEW t \in Threads, Loop(t)
  PROVE  UNCHANGED Atomic!vars
<1>1. cmd' = cmd /\ pc' = pc /\ flag' = flag
  BY LoopProgress DEF RoutineInv, vars
<1>2. Canvas' = Canvas
  BY LoopPaints, OneIsUnderLock
<1>3. Stages' = Stages
  BY <1>1 DEF Stages, Stage
<1>. QED
  BY <1>1, <1>2, <1>3, DrawingsStay DEF Atomic!vars

\* When the routine returns, all it draws is on the screen.
LEMMA FinishStutters ==
  ASSUME TypeOK, RoutineInv, DrawUnderLock, DrawUnderLock', StoredInv,
         NEW t \in Threads, Finish(t)
  PROVE  UNCHANGED Atomic!vars
<1>1. /\ Goto(t, "draw", "unlock") /\ flag' = flag /\ cmd' = cmd
      /\ screen' = screen /\ loop[t] = "done"
  BY DEF Finish, Draw
<1>2. /\ pc[t] = "draw" /\ pc'[t] = "unlock"
      /\ \A u \in Threads \ {t} : pc'[u] = pc[u]
      /\ Stages' = [Stages EXCEPT ![t] = Stage(t)']
  BY <1>1, StagesMove
<1>3. Stages' = Stages
  BY <1>2 DEF Stages, Stage
<1>4. \A u \in Threads : pc'[u] # "draw"
  BY <1>2, OneIsUnderLock DEF OneDrawer
<1>5. \A p \in Fb!Footprint(t) : screen[p] = Drawing(t)[p]
  BY <1>1, <1>2 DEF StoredInv, FbP!Passed
<1>6. Painted(t) = screen
  BY <1>5 DEF Painted, RoutineInv, ScreenTypeOK
<1>7. Canvas' = Canvas
  BY <1>1, <1>2, <1>4, <1>6, CanvasIsScreen, CanvasIsPainted, OneIsUnderLock
<1>. QED
  BY <1>1, <1>3, <1>7, DrawingsStay DEF Atomic!vars

LEMMA StoredStep ==
  ASSUME TypeOK, RoutineInv, DrawUnderLock, StoredInv,
         [PipelineNext]_pipeline
  PROVE  StoredInv'
<1>1. ASSUME NEW t \in Threads, pc[t] = "draw", cmd'[t] = cmd[t],
             UNCHANGED <<loop, y, x, screen>>,
             NEW p \in Fb!Footprint(t)', FbP!Passed(t, p)'
      PROVE  screen'[p] = Drawing(t)'[p]
  <2>1. p \in Fb!Footprint(t) /\ Drawing(t)' = Drawing(t)
    BY <1>1, DrawingStays
  <2>. QED
    BY <1>1, <2>1 DEF StoredInv, FbP!Passed
<1>2. ASSUME NEW t \in Threads, UNCHANGED <<loop, y, x, screen>>,
             \A u \in Threads : pc'[u] = "draw" /\ u # t =>
                pc[u] = "draw" /\ cmd'[u] = cmd[u],
             pc'[t] # "draw" \/ loop[t] = "idle"
      PROVE  StoredInv'
  <2>1. ASSUME NEW u \in Threads, pc'[u] = "draw",
               NEW p \in Fb!Footprint(u)', FbP!Passed(u, p)'
        PROVE  screen'[p] = Drawing(u)'[p]
    <3>1. CASE u = t
      BY <1>2, <2>1, <3>1 DEF FbP!Passed
    <3>2. CASE u # t
      BY <1>1, <1>2, <2>1, <3>2
    <3>. QED
      BY <3>1, <3>2
  <2>. QED
    BY <2>1 DEF StoredInv
<1>3. ASSUME NEW t \in Threads, CallWith(t) PROVE StoredInv'
  <2>1. /\ \A u \in Threads \ {t} : cmd'[u] = cmd[u]
        /\ UNCHANGED <<loop, y, x, screen>> /\ Goto(t, "idle", "lock")
    BY <1>3, SameFrameBuffer
       DEF CallWith, Call, RoutineInv, FbP!CounterInv, FbP!CounterTypeOK
  <2>. QED
    BY <1>2, <2>1, StagesMove
<1>4. ASSUME NEW t \in Threads, Lock(t) PROVE StoredInv'
  <2>1. UNCHANGED <<cmd, loop, y, x, screen>>
    BY <1>4 DEF Lock, routine
  <2>2. /\ \A u \in Threads \ {t} : pc'[u] = pc[u]
        /\ pc[t] # "draw"
    BY <1>4 DEF Lock, Acquire, Busy, Report, Unlock, Goto, TypeOK
  <2>3. loop[t] = "idle"
    BY <2>2 DEF RoutineInv, LeftInv
  <2>. QED
    BY <1>2, <2>1, <2>2, <2>3
<1>5. ASSUME NEW t \in Threads, Loop(t) PROVE StoredInv'
  BY <1>5, LoopPaints, OneIsUnderLock
<1>6. ASSUME NEW t \in Threads, Finish(t) PROVE StoredInv'
  <2>1. /\ Goto(t, "draw", "unlock") /\ UNCHANGED <<cmd, screen>>
        /\ \A u \in Threads : u # t =>
             loop'[u] = loop[u] /\ y'[u] = y[u] /\ x'[u] = x[u]
    BY <1>6 DEF Finish, Draw, RoutineInv, FbP!CounterInv, FbP!CounterTypeOK
  <2>2. \A u \in Threads : pc'[u] # "draw"
    BY <2>1, StagesMove, OneIsUnderLock DEF OneDrawer
  <2>. QED
    BY <2>2 DEF StoredInv
<1>7. CASE UNCHANGED <<vars, routine>>
  <2>1. UNCHANGED <<pc, loop, cmd, y, x, screen>>
    BY <1>7 DEF vars, routine
  <2>. QED
    BY <1>1, <2>1 DEF StoredInv
<1>. QED
  BY <1>3, <1>4, <1>5, <1>6, <1>7
     DEF PipelineNext, CallStep, Render, pipeline

\* The drawing calls implement the atomic canvas, for every number of
\* threads, every screen and every image, if every caller passes a callback:
\* no thread can see half of the call of another from between two calls.
THEOREM CanvasRefinement ==
  ASSUME Callbacks = {"fn"}
  PROVE  PipelineSpec => ImplementsCanvas
<1>1. PipelineInit => Atomic!Init /\ StoredInv
  <2> SUFFICES ASSUME PipelineInit PROVE Atomic!Init /\ StoredInv
    OBVIOUS
  <2>1. \A t \in Threads : pc[t] = "idle"
    BY DEF PipelineInit, Init
  <2>2. Stages = [t \in Threads |-> "idle"]
    BY <2>1 DEF Stages, Stage
  <2>3. Canvas = screen
    BY <2>1, CanvasIsScreen
  <2>4. DOMAIN screen = Fb!Cells
    BY DEF PipelineInit, Fb!Init
  <2>. QED
    BY <2>1, <2>2, <2>3, <2>4 DEF Atomic!Init, StoredInv
<1>2. /\ TypeOK /\ RoutineInv /\ StoredInv
      /\ CallbackInv /\ DrawUnderLock /\ DrawUnderLock'
      /\ [PipelineNext]_pipeline
      => [Atomic!Next]_Atomic!vars
  <2> SUFFICES ASSUME TypeOK, RoutineInv, StoredInv, CallbackInv,
                      DrawUnderLock, DrawUnderLock', [PipelineNext]_pipeline
               PROVE  Atomic!Next \/ UNCHANGED Atomic!vars
    OBVIOUS
  <2>1. ASSUME NEW t \in Threads, CallWith(t) PROVE Atomic!Next
    BY <2>1, CallIsAtomic DEF Atomic!Next
  <2>2. ASSUME NEW t \in Threads, Lock(t) PROVE Atomic!Next
    BY <2>2, LockIsAtomic DEF Atomic!Next
  <2>3. ASSUME NEW t \in Threads, Loop(t) PROVE UNCHANGED Atomic!vars
    BY <2>3, LoopStutters
  <2>4. ASSUME NEW t \in Threads, Finish(t) PROVE UNCHANGED Atomic!vars
    BY <2>4, FinishStutters
  <2>5. CASE UNCHANGED <<vars, routine>>
    <3>1. UNCHANGED <<pc, flag, cmd, screen>>
      BY <2>5 DEF vars, routine
    <3>2. Canvas' = Canvas
      BY <3>1, OneIsUnderLock, CanvasStays
    <3>. QED
      BY <3>1, <3>2, DrawingsStay DEF Atomic!vars, Stages, Stage
  <2>. QED
    BY <2>1, <2>2, <2>3, <2>4, <2>5
       DEF PipelineNext, CallStep, Render, pipeline
<1>3. Spec => []TypeOK
  BY TypeCorrect
<1>4. Spec => [](CallbackInv /\ DrawUnderLock)
  BY MutualExclusion
<1>5. TypeOK /\ RoutineInv /\ DrawUnderLock /\ StoredInv
      /\ [PipelineNext]_pipeline => StoredInv'
  BY StoredStep
<1>. QED
  BY <1>1, <1>2, <1>3, <1>4, <1>5, CallsAreApiCalls, RoutineInit, RoutineStep,
     PTL DEF PipelineSpec, ImplementsCanvas, Atomic!Spec

-----------------------------------------------------------------------------
(* Calls come to their return.                                             *)

LEMMA SameRemaining ==
  \A t : Fb!Remaining(t) = FbP!Remaining(t) /\ Fb!Remaining(t)' = FbP!Remaining(t)'
  BY DEF Fb!Remaining, FbP!Remaining

\* A routine that was not begun has a number of steps before it.
LEMMA RemainingAtFirst ==
  ASSUME FbP!CounterInv, NEW t \in Threads, loop[t] = "idle"
  PROVE  Fb!Remaining(t) \in Nat
<1>1. cmd[t].size[1] \in Nat /\ cmd[t].size[2] \in Nat
  BY FbP!CommandType, PipelineAssumption
     DEF FbP!CounterInv, FbP!ScreenAssumption, Fb!ScreenAssumption
<1>2. Fb!Remaining(t) = cmd[t].size[2] * (cmd[t].size[1] + 2) + 2
  BY DEF Fb!Remaining
<1>. QED
  BY <1>1, <1>2

LEMMA BoundStep ==
  ASSUME TypeOK, RoutineInv, FbP!BoundInv, [PipelineNext]_pipeline
  PROVE  FbP!BoundInv'
<1> USE DEF RoutineInv, FbP!CounterInv, FbP!CounterTypeOK
<1>1. ASSUME NEW t \in Threads, CallWith(t) PROVE FbP!BoundInv'
  <2>1. /\ loop[t] = "idle" /\ UNCHANGED <<loop, x>>
        /\ \A u \in Threads \ {t} : cmd'[u] = cmd[u]
    BY <1>1 DEF CallWith, Call, Goto, LeftInv
  <2>. QED
    BY <2>1 DEF FbP!BoundInv
<1>2. ASSUME NEW t \in Threads, Loop(t) PROVE FbP!BoundInv'
  BY <1>2, SameFrameBuffer, FbP!CallBounded, PipelineAssumption
     DEF Loop, FbP!ScreenAssumption, Fb!ScreenAssumption
<1>3. ASSUME NEW t \in Threads, Finish(t) PROVE FbP!BoundInv'
  <2>1. /\ loop'[t] = "idle" /\ cmd' = cmd
        /\ \A u \in Threads \ {t} : loop'[u] = loop[u] /\ x'[u] = x[u]
    BY <1>3 DEF Finish
  <2>. QED
    BY <2>1 DEF FbP!BoundInv
<1>4. CASE UNCHANGED routine
  BY <1>4 DEF routine, FbP!BoundInv
<1>. QED
  BY <1>1, <1>2, <1>3, <1>4
     DEF PipelineNext, CallStep, Lock, Render, pipeline

LEMMA StepComesBack ==
  ASSUME TypeOK, RoutineInv, FbP!BoundInv, NEW t \in Threads, CallStep(t)
  PROVE  /\ CallLeft(t)' \in Nat /\ CallLeft(t)' < CallLeft(t)
         /\ \A u \in Threads \ {t} : UNCHANGED CallLeft(u)
<1> USE DEF TypeOK, RoutineInv, FbP!CounterInv, FbP!CounterTypeOK
<1>1. ASSUME \A u \in Threads \ {t} :
               /\ pc'[u] = pc[u] /\ loop'[u] = loop[u] /\ cmd'[u] = cmd[u]
               /\ y'[u] = y[u] /\ x'[u] = x[u]
      PROVE  \A u \in Threads \ {t} : UNCHANGED CallLeft(u)
  BY <1>1 DEF CallLeft, Fb!Remaining
<1>2. CASE Lock(t)
  <2>1. /\ UNCHANGED <<loop, cmd, y, x>>
        /\ \A u \in Threads \ {t} : pc'[u] = pc[u]
        /\ \/ pc[t] = "lock" /\ pc'[t] \in {"draw", "report"}
           \/ pc[t] \in {"report", "unlock"} /\ pc'[t] = "idle"
    BY <1>2 DEF Lock, routine, Acquire, Busy, Report, Unlock, Goto
  <2>2. CASE pc[t] = "lock"
    <3>1. Fb!Remaining(t) \in Nat
      BY <2>2, RemainingAtFirst DEF LeftInv
    <3>2. Fb!Remaining(t)' = Fb!Remaining(t)
      BY <2>1 DEF Fb!Remaining
    <3>. QED
      BY <1>1, <2>1, <2>2, <3>1, <3>2 DEF CallLeft
  <2>3. CASE pc[t] # "lock"
    BY <1>1, <2>1, <2>3 DEF CallLeft
  <2>. QED
    BY <2>2, <2>3
<1>3. CASE Loop(t)
  <2>1. /\ cmd' = cmd /\ FbP!OthersStay(t) /\ pc[t] = "draw" /\ pc' = pc
    BY <1>3, LoopProgress DEF vars
  <2>2. /\ Fb!Remaining(t) \in Nat
        /\ Fb!Remaining(t)' \in Nat /\ Fb!Remaining(t)' < Fb!Remaining(t)
    BY <1>3, SameFrameBuffer, SameRemaining, FbP!CallBounded,
       PipelineAssumption DEF Loop, FbP!ScreenAssumption, Fb!ScreenAssumption
  <2>3. CallLeft(t) = Fb!Remaining(t) + 2 /\ CallLeft(t)' = Fb!Remaining(t)' + 2
    BY <2>1 DEF CallLeft
  <2>4. \A u \in Threads \ {t} : UNCHANGED CallLeft(u)
    BY <1>1, <2>1 DEF FbP!OthersStay
  <2>. QED
    BY <2>2, <2>3, <2>4
<1>4. CASE Finish(t)
  <2>1. /\ loop[t] = "done" /\ pc[t] = "draw" /\ pc'[t] = "unlock"
        /\ cmd' = cmd
        /\ \A u \in Threads \ {t} :
             /\ pc'[u] = pc[u] /\ loop'[u] = loop[u]
             /\ y'[u] = y[u] /\ x'[u] = x[u]
    BY <1>4 DEF Finish, Draw, Goto
  <2>2. Fb!Remaining(t) = 0
    BY <2>1 DEF Fb!Remaining
  <2>. QED
    BY <1>1, <2>1, <2>2 DEF CallLeft
<1>. QED
  BY <1>2, <1>3, <1>4 DEF CallStep

\* A drawing call that need not wait for the mutex has a bounded number of
\* steps before it, whatever screen, image and position, and whatever the
\* other threads, their calls and the calls before it do.
THEOREM CallsAreFinite == PipelineSpec => CallsComeBack
<1> DEFINE RInv == TypeOK /\ RoutineInv /\ FbP!BoundInv
           Closer ==
             \A t \in Threads : pc[t] # "idle" =>
               IF CallStep(t)
               THEN CallLeft(t)' \in Nat /\ CallLeft(t)' < CallLeft(t)
               ELSE UNCHANGED CallLeft(t)
<1>1. PipelineInit => FbP!BoundInv
  BY DEF PipelineInit, Fb!Init, FbP!BoundInv
<1>2. TypeOK /\ RoutineInv /\ FbP!BoundInv /\ [PipelineNext]_pipeline
      => FbP!BoundInv'
  BY BoundStep
<1>3. RInv /\ [PipelineNext]_pipeline => [Closer]_pipeline
  <2> SUFFICES ASSUME RInv, PipelineNext PROVE Closer
    OBVIOUS
  <2>1. ASSUME NEW t \in Threads, ~CallStep(t), pc[t] # "idle"
        PROVE  UNCHANGED CallLeft(t)
    <3>1. CASE Render
      BY <3>1 DEF Render, vars, routine, CallLeft, Fb!Remaining
    <3>2. ASSUME NEW u \in Threads, CallWith(u) PROVE UNCHANGED CallLeft(t)
      <4>1. t # u
        BY <2>1, <3>2 DEF CallWith, Call, Goto
      <4>2. /\ pc'[t] = pc[t] /\ cmd'[t] = cmd[t] /\ UNCHANGED <<loop, y, x>>
        BY <3>2, <4>1 DEF CallWith, Call, Goto, TypeOK, RoutineInv,
                          FbP!CounterInv, FbP!CounterTypeOK
      <4>. QED
        BY <4>2 DEF CallLeft, Fb!Remaining
    <3>3. ASSUME NEW u \in Threads, CallStep(u) PROVE UNCHANGED CallLeft(t)
      BY <2>1, <3>3, StepComesBack
    <3>. QED
      BY <3>1, <3>2, <3>3 DEF PipelineNext
  <2>. QED
    BY <2>1, StepComesBack
<1>4. Spec => []TypeOK
  BY TypeCorrect
<1>. QED
  BY <1>1, <1>2, <1>3, <1>4, CallsAreApiCalls, RoutineInit, RoutineStep, PTL
     DEF PipelineSpec, CallsComeBack
=============================================================================
