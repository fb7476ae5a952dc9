---------------------------- MODULE DrawPipeline ----------------------------
(***************************************************************************)
(* A drawing call from the API to the window: the threads of one process   *)
(* go through the mutex of display_api.c (DisplayApi) into the loops of    *)
(* frame_buffer.c (FrameBuffer) on the mapped frame buffer, call after     *)
(* call, while the display manager's render loop copies the frame buffer   *)
(* to the window, reading pixel by pixel without a lock.                   *)
(*                                                                         *)
(* The display manager runs and the mapping succeeds (SharedFrameBuffer    *)
(* says when); no other process draws.                                     *)
(***************************************************************************)
EXTENDS DisplayApi

CONSTANTS Word, Width, Height, Coordinates, Images \* as in FrameBuffer

VARIABLES
  loop,      \* per thread: where it is in its drawing routine
  cmd, y, x, \* per thread: its command and the counters of the routine
  screen,    \* the frame buffer
  stale      \* pixels of the window that may differ from the frame buffer

Fb == INSTANCE FrameBuffer WITH Clients <- Threads, pc <- loop

ASSUME PipelineAssumption == Fb!ScreenAssumption

routine == <<loop, cmd, y, x, screen>>
pipeline == <<vars, routine, stale>>

PipelineInit == Init /\ Fb!Init /\ stale = {}

\* A thread makes any call, with any command.
CallWith(t) ==
  /\ Call(t)
  /\ \E k \in Fb!Commands : cmd' = [cmd EXCEPT ![t] = k]
  /\ UNCHANGED <<loop, y, x, screen, stale>>

\* What a call does outside of the driver.
Lock(t) ==
  /\ Acquire(t) \/ Busy(t) \/ Report(t) \/ Unlock(t)
  /\ UNCHANGED <<routine, stale>>

\* A step of the drawing routine; the window lags behind what it changes.
Loop(t) ==
  /\ pc[t] = "draw" /\ Fb!Step(t)
  /\ stale' = stale \union {p \in Fb!Cells : screen'[p] # screen[p]}
  /\ UNCHANGED vars

\* Mutant: the counters of a call are those the call before left.
FinishCountersKept(t) ==
  /\ loop[t] = "done" /\ Draw(t)
  /\ loop' = [loop EXCEPT ![t] = "idle"]
  /\ UNCHANGED <<cmd, y, x, screen, stale>>

\* The drawing routine returns to the API.
Finish(t) ==
  /\ loop[t] = "done" /\ Draw(t)
  /\ loop' = [loop EXCEPT ![t] = "idle"]
  /\ y' = [y EXCEPT ![t] = 0] /\ x' = [x EXCEPT ![t] = 0]
  /\ UNCHANGED <<cmd, screen, stale>>

\* Mutant: XPutImage gets a width that is one too small.
RenderNarrow ==
  /\ \E p \in stale : p[2] < Width - 1 /\ stale' = stale \ {p}
  /\ UNCHANGED <<vars, routine>>

\* The render loop puts the whole frame buffer on the window, frame by frame:
\* a pixel that lags is read and shown at some time.
Render ==
  /\ \E p \in stale : stale' = stale \ {p}
  /\ UNCHANGED <<vars, routine>>

CallStep(t) == Lock(t) \/ Loop(t) \/ Finish(t)

PipelineNext == Render \/ \E t \in Threads : CallWith(t) \/ CallStep(t)

PipelineSpec == PipelineInit /\ [][PipelineNext]_pipeline

\* The kernel runs a thread that is in a call, and the render loop, which
\* sleeps between frames and waits for nobody.
FairPipelineSpec ==
  /\ PipelineSpec
  /\ WF_pipeline(Render) /\ \A t \in Threads : WF_pipeline(CallStep(t))

-----------------------------------------------------------------------------
(* Calls and routines are in states of the code, a thread outside of the   *)
(* driver has left its routine behind, and only pixels lag.                *)
PipelineTypeOK ==
  /\ TypeOK /\ Fb!TypeOK
  /\ \A t \in Threads :
       pc[t] # "draw" => loop[t] = "idle" /\ y[t] = 0 /\ x[t] = 0
  /\ stale \subseteq Fb!Cells

-----------------------------------------------------------------------------
(* The canvas that the threads of the process see.                         *)

\* What the call of a thread draws, clipped to the screen.
Drawing(t) ==
  [p \in Fb!Footprint(t) |-> [by |-> {t}, at |-> Fb!WordAt(t, p)]]

Stage(t) ==
  CASE pc[t] = "idle"   -> "idle"
    [] pc[t] = "lock"   -> "called"
    [] pc[t] = "report" -> "refused"
    [] OTHER            -> "applied"

Stages == [t \in Threads |-> Stage(t)]
Drawings == [t \in Threads |-> Drawing(t)]
Drawers == {t \in Threads : pc[t] = "draw"}

\* A call counts from when it has the mutex: what it has yet to store is on
\* the canvas already.
Canvas ==
  IF Drawers = {} THEN screen
  ELSE LET t == CHOOSE t \in Threads : pc[t] = "draw"
       IN  [p \in Fb!Cells |->
              IF p \in Fb!Footprint(t) THEN Drawing(t)[p] ELSE screen[p]]

Atomic == INSTANCE AtomicCanvas WITH
  Cells <- Fb!Cells, stage <- Stages, drawing <- Drawings, canvas <- Canvas

\* However the threads' calls are interleaved, each one appears to draw all
\* of its part of the screen at once, or is refused and draws nothing.
ImplementsCanvas == Atomic!Spec

\* How many steps a call has before it at most once it need not wait.
CallLeft(t) ==
  CASE pc[t] = "idle" -> 0
    [] pc[t] = "lock" -> Fb!Remaining(t) + 3
    [] pc[t] = "draw" -> Fb!Remaining(t) + 2
    [] OTHER          -> 1

\* Every step of a call, refused or not, brings it closer to its return, and
\* neither the other threads nor the calls before set it back.
CallsComeBack ==
  [][\A t \in Threads : pc[t] # "idle" =>
       IF CallStep(t) THEN CallLeft(t)' \in Nat /\ CallLeft(t)' < CallLeft(t)
                      ELSE UNCHANGED CallLeft(t)]_pipeline

\* Either calls go on returning, or all calls have returned in the end and
\* the window shows all they have drawn.
DrawnIsDisplayed ==
  \/ []<>(\E t \in Threads : pc[t] = "unlock")
  \/ <>[](stale = {} /\ \A t \in Threads : pc[t] = "idle")
=============================================================================
