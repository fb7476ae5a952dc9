--------------------------- MODULE SeatHandshake ----------------------------
(***************************************************************************)
(* The two seat units side by side.  systemd starts them in any order and  *)
(* nothing orders their steps but the signal, the semaphore and the stream *)
(* of SeatShared.                                                          *)
(***************************************************************************)
EXTENDS Seat1Calle, Seat2Calle

Init == SharedInit

Next == Seat1Step \/ Seat1Environment \/ Seat2Step \/ Seat2Environment

Spec == Init /\ [][Next]_vars

\* A process that can run does; both units are started at boot; Xnest, once
\* started, comes up.  Nothing obliges a call to fail or an operator to act.
Fairness ==
  /\ WF_vars(Seat1Step) /\ WF_vars(Seat2Step)
  /\ WF_vars(Start1 /\ starts1 = 0) /\ WF_vars(Start2 /\ starts2 = 0)
  /\ WF_vars(ServerUp)

FairSpec == Spec /\ Fairness

-----------------------------------------------------------------------------
(* Safety.                                                                 *)

\* A seat1 that got past the semaphore of the seat2 now running finds it
\* listening: sem_post comes after listen, so connect is never refused,
\* whatever the order of starts, the crashes and the lost signals.
ConnectMeetsListener ==
  pc1 = "connect" /\ map1 = starts2 /\ Alive2 => listener = starts2

\* As long as seat2 was started once, whatever fails, and as long as nothing
\* fails, however often it is started, seat1 never maps a sync region that has
\* no size or no semaphore in it yet: the continue signal is sent after both.
NoTornSyncRegion ==
  (starts2 = 1 \/ faults = 0) /\ map1 # 0 => sem[map1] \in {"ready", "posted"}

\* If nothing fails, a seat1 that waits on the semaphore waits on the region
\* SHM_FILE names, and the seat2 that created it is still on its way to post.
WaitingHasPoster ==
  faults = 0 /\ pc1 = "semwait" =>
    map1 = name /\ map1 = starts2 /\ pc2 \in {"listen", "post", "accept"}

\* If nothing fails, a display manager runs on the number of a nested server
\* that is up, and the seat1 that keeps that server's cgroup alive is there.
DisplayIsNested ==
  faults = 0 /\ pc2 = "display" => xst = "up" /\ id2 = nid /\ pc1 = "park"

\* The handoff the seats promise: see DisplayHandoff.
Handoff ==
  INSTANCE DisplayHandoff WITH
    server <- IF xst \in {"up", "crashed"} THEN {nid} ELSE {},
    offer  <- IF conn = "sent" THEN {wire} ELSE {},
    screen <- IF pc2 \in {"exec", "display"} THEN {id2} ELSE {}

\* Every behaviour of the two programs is one of the abstract handoff: no
\* number reaches the display manager but one that a seat1 wrote which had seen
\* its server's socket, and none reaches it twice.  The empty read that
\* DisplayHasNumber is about is a step of the abstract handoff too.
ImplementsHandoff == Handoff!Spec

-----------------------------------------------------------------------------
(* Liveness.                                                               *)

\* seat1 waits for its signal and none has been sent to it, be it that no seat2
\* was started yet or that the one running has not come to that point.
Rendezvous ==
  /\ pc1 = "wait" /\ pend = {} /\ sig2 # "USR1"
  /\ \/ starts2 = 0
     \/ pc2 \in {"unlink", "create", "size", "init", "find"}
     \/ pc2 = "kill" /\ found = starts1

\* A seat2 has signalled the seat1 that waits, on a region of its own that it
\* posts before it accepts.
Meeting ==
  /\ pc1 \in {"wait", "open", "semwait"} /\ pc2 \in {"listen", "post", "accept"}
  /\ pend = IF pc1 = "wait" THEN {"USR2"} ELSE {}
  /\ name = starts2 /\ (pc1 = "semwait" => map1 = starts2)
  /\ sem[starts2] = IF pc2 = "accept" THEN "posted" ELSE "ready"
  /\ conn = "none"

\* The number of seat1's own server is on its way to that seat2.
HandingOver ==
  /\ pend = {}
  /\ \/ pc1 = "connect" /\ pc2 = "accept" /\ conn = "none"
     \/ pc1 = "write" /\ pc2 = "accept" /\ conn = "open"
     \/ pc1 = "park" /\ pc2 = "accept" /\ conn = "sent" /\ wire = nid
     \/ pc1 = "park" /\ pc2 = "exec" /\ id2 = nid

OnTrack == Rendezvous \/ Meeting \/ HandingOver

\* The calls the two have before them from the rendezvous to the display.
Distance ==
  (CASE pc1 = "wait" -> 5 [] pc1 = "open" -> 4 [] pc1 = "semwait" -> 3
     [] pc1 = "connect" -> 2 [] pc1 = "write" -> 1 [] OTHER -> 0)
  + (CASE pc2 = "off" -> 11 [] pc2 = "unlink" -> 10 [] pc2 = "create" -> 9
       [] pc2 = "size" -> 8 [] pc2 = "init" -> 7 [] pc2 = "find" -> 6
       [] pc2 = "kill" -> 5 [] pc2 = "listen" -> 4 [] pc2 = "post" -> 3
       [] pc2 = "accept" -> 2 [] pc2 = "exec" -> 1 [] OTHER -> 0)

\* As long as nothing fails, every step from a rendezvous on, whatever earlier
\* processes left behind, brings the seats closer to a display manager on the
\* number of the seat1 it met.
HandoffAdvances ==
  [][OnTrack /\ faults' = faults =>
       /\ Distance' < Distance
       /\ \/ OnTrack'
          \/ (pc2 = "display" /\ pc1 = "park" /\ id2 = nid)']_vars

\* If nothing fails, a seat2 that has sent its signal gets its number, or the
\* signal met a seat1 that did not block it, not yet or, with several GPUs,
\* never, and ended it: there is no other way to lose it.
OnlyEarlySignalIsLost ==
  faults = 0 /\ pc2 \in {"listen", "post", "accept", "exec"}
    => OnTrack \/ ~Alive1 \/ starts1 # found

\* From there the display manager starts unless something fails from then on:
\* whatever earlier processes left behind when they failed or were stopped,
\* the region, the socket or a lost signal, a new attempt gets through.
HandoffCompletes ==
  \A n \in 0..MaxFaults :
    (Rendezvous /\ faults = n) ~> (pc2 = "display" \/ faults > n)

\* If seat2 cannot set the sync region up while seat1 waits, and no earlier
\* seat2 has told seat1 to continue, it gets seat1 to end (instead of waiting
\* for ever) unless seat2 itself is stopped.
ErrorReported ==
  (pc1 = "wait" /\ pend = {} /\ pc2 = "find" /\ sig2 = "USR1")
    ~> (~Alive1 \/ pc2 = "killed")

\* seat2 is about to tell the seat1 that waits of its error, or has told it.
Reporting ==
  /\ pc1 = "wait"
  /\ \/ /\ pend = {} /\ sig2 = "USR1"
        /\ pc2 = "find" \/ (pc2 = "kill" /\ found = starts1)
     \/ "USR1" \in pend

\* Nothing that happens meanwhile, not even the continue signal of a seat2
\* that is started anew, gets that seat1 past its wait: it ends, or the seat2
\* that reports is stopped.
ErrorIsNotLost ==
  [][Reporting => Reporting' \/ ~Alive1' \/ pc2' = "killed"]_vars

-----------------------------------------------------------------------------
(* Promises the sources make and the code does not keep.                   *)

\* seat2_calle.c:140: the display manager's DISPLAY is a colon and a number.
\* So what seat2 starts it on is a number that seat1 sent.
DisplayHasNumber == pc2 = "display" => id2 # NoId

\* seat1_calle.c:33 calls SIGUSR2 "continue": it never terminates seat1.
ContinueIsNotFatal ==
  [][Kill2 /\ sig2 = "USR2" /\ Alive1 => Alive1']_vars

\* seat1_calle.c:175: a signal SIGUSR1 or SIGUSR2 ends the seat1 that keeps
\* the cgroup up.
SignalEndsKeepAlive ==
  (pc1 = "park" /\ pend # {}) ~> (pc1 # "park")
=============================================================================
