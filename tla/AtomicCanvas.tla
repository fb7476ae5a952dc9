---------------------------- MODULE AtomicCanvas ----------------------------
(***************************************************************************)
(* What the drawing calls of a process promise its threads: a canvas on    *)
(* which each call puts its whole drawing in one step, between the call    *)
(* and its return, and in which a refused DISPLAY_WNO call leaves no trace.*)
(***************************************************************************)
CONSTANTS Threads, Cells

VARIABLES
  stage,   \* per thread: "idle", "called", "applied", "refused"
  flag,    \* per thread: "wait" or "wno"
  drawing, \* per thread: what its call draws, a function on some of Cells
  canvas

vars == <<stage, flag, drawing, canvas>>

Overlay(below, above) ==
  [p \in Cells |-> IF p \in DOMAIN above THEN above[p] ELSE below[p]]

Goto(t, here, there) ==
  stage[t] = here /\ stage' = [stage EXCEPT ![t] = there]

Init == stage = [t \in Threads |-> "idle"] /\ DOMAIN canvas = Cells

\* A thread may draw anything that lies on the canvas.
Call(t) ==
  /\ Goto(t, "idle", "called")
  /\ \A u \in Threads \ {t} : drawing'[u] = drawing[u] /\ flag'[u] = flag[u]
  /\ DOMAIN drawing'[t] \subseteq Cells
  /\ UNCHANGED canvas

Apply(t) ==
  /\ Goto(t, "called", "applied")
  /\ canvas' = Overlay(canvas, drawing[t])
  /\ UNCHANGED <<flag, drawing>>

Refuse(t) ==
  /\ flag[t] = "wno"
  /\ Goto(t, "called", "refused")
  /\ UNCHANGED <<flag, drawing, canvas>>

Return(t) ==
  /\ Goto(t, "applied", "idle") \/ Goto(t, "refused", "idle")
  /\ UNCHANGED <<flag, drawing, canvas>>

Next == \E t \in Threads : Call(t) \/ Apply(t) \/ Refuse(t) \/ Return(t)

Spec == Init /\ [][Next]_vars
=============================================================================
