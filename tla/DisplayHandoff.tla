--------------------------- MODULE DisplayHandoff ---------------------------
(***************************************************************************)
(* What the two seat units promise together, without signals, semaphore or *)
(* socket: seat 1 brings a nested X server up and offers its display       *)
(* number; seat 2 launches a screen on a number that was offered, once.    *)
(* The one thing that may go wrong is a screen without a number.           *)
(***************************************************************************)
CONSTANTS DisplayIds, NoId

VARIABLES
  server,  \* the display whose server seat 1 has seen running, if any
  offer,   \* the number on its way to seat 2, if any
  screen   \* what the display manager was started on, if it was

hvars == <<server, offer, screen>>

Init == server = {} /\ offer = {} /\ screen = {}

\* A server comes up; seat 1 goes away with the one it had.
Bring ==
  /\ server = {} /\ \E d \in DisplayIds : server' = {d}
  /\ UNCHANGED <<offer, screen>>

Drop == server # {} /\ server' = {} /\ UNCHANGED <<offer, screen>>

\* The number of the running server is offered; an offer may be lost.
Offer ==
  /\ server # {} /\ offer = {}
  /\ offer' = server
  /\ UNCHANGED <<server, screen>>

Withdraw == offer # {} /\ offer' = {} /\ UNCHANGED <<server, screen>>

\* A screen is launched on the number offered, which uses the offer up.
Launch ==
  /\ screen = {} /\ offer # {}
  /\ screen' = offer /\ offer' = {}
  /\ UNCHANGED server

\* Without an offer a screen can only be launched on no number.
LaunchBlank ==
  /\ screen = {} /\ offer = {}
  /\ screen' = {NoId}
  /\ UNCHANGED <<server, offer>>

Close == screen # {} /\ screen' = {} /\ UNCHANGED <<server, offer>>

Next == Bring \/ Drop \/ Offer \/ Withdraw \/ Launch \/ LaunchBlank \/ Close

Spec == Init /\ [][Next]_hvars
=============================================================================
