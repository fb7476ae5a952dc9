---------------------------- MODULE PixelDrawing ----------------------------
(***************************************************************************)
(* What drawing on one frame buffer promises processes that have no common *)
(* lock: a call puts each pixel of its drawing on the screen exactly once, *)
(* in an order of its own, and returns when none is left.  Between any two *)
(* pixels of a call others may draw.                                       *)
(***************************************************************************)
CONSTANTS Clients, Cells, Blank

VARIABLES
  drawing,  \* per client: what its call draws, a function on some of Cells
  left,     \* per client: the pixels it has yet to draw
  returned, \* the clients whose call has returned
  screen

vars == <<drawing, left, returned, screen>>

Init ==
  /\ \A c \in Clients : DOMAIN drawing[c] \subseteq Cells
  /\ left = [c \in Clients |-> DOMAIN drawing[c]]
  /\ returned = {}
  /\ screen = [p \in Cells |-> Blank]

\* A pixel that is drawn is not drawn again, whoever draws over it.
Paint(c) ==
  \E p \in left[c] :
    /\ screen' = [screen EXCEPT ![p] = drawing[c][p]]
    /\ left' = [left EXCEPT ![c] = @ \ {p}]

Return(c) == left'[c] = {} /\ returned' = returned \union {c}

\* A call draws a pixel, or returns, or returns as it draws the last one.
Draw(c) ==
  /\ c \notin returned
  /\ Paint(c) \/ UNCHANGED <<left, screen>>
  /\ Return(c) \/ UNCHANGED returned
  /\ UNCHANGED drawing

Next == \E c \in Clients : Draw(c)

Spec == Init /\ [][Next]_vars
=============================================================================
