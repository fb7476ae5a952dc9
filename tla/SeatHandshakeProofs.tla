------------------------ MODULE SeatHandshakeProofs -------------------------
(***************************************************************************)
(* Proofs about SeatHandshake, for any set of display numbers, any number  *)
(* of starts and any number of faults.                                     *)
(***************************************************************************)
EXTENDS SeatHandshake, TLAPS

\* A seat1 that will not take another semaphore unless it is signalled again.
Quiet1 ==
  /\ pc1 \notin {"open", "semwait", "deaf", "connect"}
  /\ pc1 \notin {"write", "park"} => pend = {}

\* Parts of the inductive invariant.  Signals are pending only on a seat1
\* that blocks them, and it does so from its first sigwait on.
MaskInv ==
  /\ pend \subseteq blocked
  /\ blocked # {} => pc1 \in {"wait", "open", "semwait", "deaf", "connect",
                              "write", "park"}

\* Objects are used only once the seat2 that creates them has started.
ObjectInv ==
  /\ pc2 # "off" => starts2 > 0
  /\ map1 =< starts2 /\ name =< starts2
  /\ pc1 = "semwait" => map1 > 0
  /\ \A o \in 1..MaxStarts : o > starts2 => sem[o] = "none"

\* The socket listens between listen and accept, and only then can a stream
\* be queued on it.
StreamInv ==
  /\ listener = IF pc2 \in {"post", "accept"} THEN starts2 ELSE 0
  /\ conn \in {"open", "sent", "eof"} => listener # 0

\* The token of the seat2 now running exists only after its sem_post.
TokenInv ==
  Alive2 /\ (sem[starts2] = "posted" \/ (pc1 = "connect" /\ map1 = starts2))
    => pc2 \in {"accept", "exec", "display"}

\* Once a seat1 connected to this seat2, no seat1 is on its way to connect.
QuietInv ==
  (conn \in {"open", "sent", "eof"} \/ pc2 \in {"exec", "display"}) => Quiet1

\* A seat1 that has a number to send has made the socket's directory.
DirInv ==
  \/ pc1 \in {"script", "xwait", "block", "wait", "open", "semwait", "deaf",
              "connect", "write"}
  \/ map1 # 0
  => dir

ListenInv ==
  MaskInv /\ DirInv /\ ObjectInv /\ StreamInv /\ TokenInv /\ QuietInv

\* The continue signal is on its way or taken only after the first seat2 has
\* stored its semaphore.
SignalInv ==
  /\ sig2 = "USR2" => /\ starts2 > 0 /\ sem[starts2] \in {"ready", "posted"}
                      /\ pc2 \notin {"unlink", "create", "size", "init"}
  /\ pc2 \in Ended => sig2 = "none"

RegionInv ==
  /\ starts2 < 2
  /\ \/ pc1 = "wait" /\ "USR2" \in pend
     \/ pc1 = "open"
     \/ map1 # 0
  => /\ starts2 = 1 /\ sem[1] \in {"ready", "posted"}
     /\ pc2 \notin {"unlink", "create", "size", "init"}

\* The number in display_id is that of the server seat1 started.
ServerInv ==
  /\ xst # "none" => nid \in DisplayIds
  /\ pc1 \in {"probe", "prepare", "script"} \union Ended => xst = "none"
  /\ pc1 \in {"block", "wait", "open", "semwait", "deaf", "connect", "write"}
       => xst \in {"up", "crashed"}

\* A seat2 that has sent its signal.  Where nothing fails it is the last seat2
\* unless it ended that seat1 before the socket's directory was made.
Signalled == {"listen", "post", "accept", "exec", "display"}

\* Where nothing fails, seat1 takes one signal.  Before it seat1 has not touched
\* what the seats share, and after it the names, objects and the stream are
\* those of the seat2 that sent it, up to a display manager on the number of
\* the seat1 that is parked.
OneSignalInv ==
  /\ sig2 # "USR1" /\ pc1 # "deaf" /\ xst # "crashed"
  /\ pend # {} => pc1 = "wait" /\ pend = {"USR2"}
  /\ pc1 = "park" /\ blocked # {} => map1 # 0
  /\ \/ pc1 \in {"open", "semwait", "connect", "write"}
     \/ pend # {} \/ map1 # 0 \/ conn # "none"
     => pc2 \in Signalled
  /\ pc2 \in Signalled \union {"find", "kill"} =>
       name = starts2 /\ sem[starts2] \in {"ready", "posted"}
  /\ pc2 \in {"size", "init"} => name = starts2
  /\ pc1 \in {"semwait", "connect", "write"} \/ map1 # 0 => map1 = starts2

OneStreamInv ==
  /\ conn \notin {"eof", "reset"}
  /\ conn = "open" => pc1 = "write"
  /\ conn = "sent" => pc1 = "park" /\ wire = nid /\ xst = "up"
  /\ pc2 \in {"exec", "display"} => pc1 = "park" /\ id2 = nid /\ xst = "up"

FaultFreeInv == faults = 0 => OneSignalInv /\ OneStreamInv

-----------------------------------------------------------------------------
(* Every reachable state is well typed; in particular seat2 never searches *)
(* for seat1 more than RETRY_COUNT times.                                  *)
THEOREM TypeCorrect == Spec => []SeatsTypeOK
<1> USE SharedAssumption DEF SharedAssumption, SeatsTypeOK, Ended, Signals
<1>1. Init => SeatsTypeOK
  <2>1. Init => sem \in [1..MaxStarts -> SemStates]
    BY DEF Init, SharedInit, SemStates
  <2>2. Init => dir \in BOOLEAN
    BY DEF Init, SharedInit
  <2>. QED
    BY <2>1, <2>2 DEF Init, SharedInit
<1>2. SeatsTypeOK /\ [Next]_vars => SeatsTypeOK'
  <2> SUFFICES ASSUME SeatsTypeOK, [Next]_vars PROVE SeatsTypeOK'
    OBVIOUS
  <2> USE DEF vars, seat1, seat2, stream, region
  <2>1. CASE Probe1
    <3>1. waits' \subseteq Signals
      BY <2>1 DEF Probe1, Goto1
    <3>. QED
      BY <2>1, <3>1 DEF Probe1, Goto1
  <2>2. CASE Prepare1
    BY <2>2 DEF Prepare1, Goto1
  <2>3. CASE Script1
    BY <2>3 DEF Script1, Goto1
  <2>4. CASE Await1
    BY <2>4 DEF Await1, Goto1
  <2>5. CASE Block1
    BY <2>5 DEF Block1, Goto1
  <2>6. CASE TakeSignal1
    BY <2>6 DEF TakeSignal1, Exit1
  <2>7. CASE Open1
    BY <2>7 DEF Open1, Exit1
  <2>8. CASE SemWait1
    <3>1. sem' \in [1..MaxStarts -> SemStates]
      BY <2>8 DEF SemWait1, Exit1, SemStates
    <3>. QED
      BY <2>8, <3>1 DEF SemWait1, Exit1
  <2>9. CASE Connect1
    BY <2>9 DEF Connect1, Exit1
  <2>10. CASE Write1
    BY <2>10 DEF Write1, Exit1
  <2>11. CASE Park1
    BY <2>11 DEF Park1, Exit1
  <2>12. CASE Start1
    BY <2>12 DEF Start1
  <2>13. CASE Fail1
    BY <2>13 DEF Fail1, Fault, Exit1
  <2>14. CASE Stop1
    BY <2>14 DEF Stop1, Fault, Exit1, Alive1
  <2>15. CASE OperatorSignal
    BY <2>15 DEF OperatorSignal, Fault, Deliver, Exit1
  <2>16. CASE ServerUp
    BY <2>16 DEF ServerUp
  <2>17. CASE ServerExit
    BY <2>17 DEF ServerExit, Fault
  <2>18. CASE Unlink2
    BY <2>18 DEF Unlink2, Goto2
  <2>19. CASE Create2
    <3>1. sem' \in [1..MaxStarts -> SemStates]
      BY <2>19 DEF Create2, Goto2, SemStates
    <3>. QED
      BY <2>19, <3>1 DEF Create2, Goto2
  <2>20. CASE Size2
    <3>1. sem' \in [1..MaxStarts -> SemStates]
      BY <2>20 DEF Size2, Goto2, SemStates
    <3>. QED
      BY <2>20, <3>1 DEF Size2, Goto2
  <2>21. CASE Init2
    <3>1. sem' \in [1..MaxStarts -> SemStates]
      BY <2>21 DEF Init2, Goto2, SemStates
    <3>. QED
      BY <2>21, <3>1 DEF Init2, Goto2
  <2>22. CASE Find2
    BY <2>22 DEF Find2, Exit2, Alive1
  <2>23. CASE Kill2
    BY <2>23 DEF Kill2, Deliver, Exit1, Alive1
  <2>24. CASE Abort2
    BY <2>24 DEF Abort2, Exit2
  <2>25. CASE Listen2
    BY <2>25 DEF Listen2, Exit2
  <2>26. CASE Post2
    <3>1. sem' \in [1..MaxStarts -> SemStates]
      BY <2>26 DEF Post2, Goto2, SemStates
    <3>. QED
      BY <2>26, <3>1 DEF Post2, Goto2
  <2>27. CASE Receive2
    BY <2>27 DEF Receive2, Goto2
  <2>28. CASE Exec2
    BY <2>28 DEF Exec2, Goto2
  <2>29. CASE Start2
    BY <2>29 DEF Start2
  <2>30. CASE Report2
    BY <2>30 DEF Report2, Fault
  <2>31. CASE Fail2
    BY <2>31 DEF Fail2, Fault, Exit2
  <2>32. CASE Stop2
    BY <2>32 DEF Stop2, Fault, Exit2, Alive2
  <2>33. CASE UNCHANGED vars
    BY <2>33
  <2>. QED
    BY <2>1, <2>2, <2>3, <2>4, <2>5, <2>6, <2>7, <2>8, <2>9, <2>10, <2>11,
         <2>12, <2>13, <2>14, <2>15, <2>16, <2>17, <2>18, <2>19, <2>20,
         <2>21, <2>22, <2>23, <2>24, <2>25, <2>26, <2>27, <2>28, <2>29,
         <2>30, <2>31, <2>32, <2>33
    DEF Next, Seat1Step, Seat1Environment, Seat2Step, Seat2Environment
<1>. QED
  BY <1>1, <1>2, PTL DEF Spec

(* The socket, token and stream invariants hold in every reachable state.  *)
LEMMA ListenInvariant == Spec => []ListenInv
<1> USE SharedAssumption
    DEF SharedAssumption, Ended, Signals, Alive2, ListenInv, MaskInv,
        DirInv, ObjectInv, StreamInv, TokenInv, QuietInv, Quiet1
<1>1. Init => ListenInv
  BY DEF Init, SharedInit
<1>2. SeatsTypeOK /\ SeatsTypeOK' /\ ListenInv /\ [Next]_vars => ListenInv'
  <2> SUFFICES ASSUME SeatsTypeOK, SeatsTypeOK', ListenInv, [Next]_vars
               PROVE  ListenInv'
    OBVIOUS
  <2> USE DEF vars, seat1, seat2, stream, region, SeatsTypeOK
  <2>1. CASE Probe1
    BY <2>1 DEF Probe1, Goto1
  <2>2. CASE Prepare1
    BY <2>2 DEF Prepare1, Goto1
  <2>3. CASE Script1
    BY <2>3 DEF Script1, Goto1
  <2>4. CASE Await1
    BY <2>4 DEF Await1, Goto1
  <2>5. CASE Block1
    BY <2>5 DEF Block1, Goto1
  <2>6. CASE TakeSignal1
    BY <2>6 DEF TakeSignal1, Exit1
  <2>7. CASE Open1
    BY <2>7 DEF Open1, Exit1
  <2>8. CASE SemWait1
    BY <2>8 DEF SemWait1, Exit1
  <2>9. CASE Connect1
    BY <2>9 DEF Connect1, Exit1
  <2>10. CASE Write1
    BY <2>10 DEF Write1, Exit1
  <2>11. CASE Park1
    BY <2>11 DEF Park1, Exit1
  <2>12. CASE Start1
    BY <2>12 DEF Start1
  <2>13. CASE Fail1
    BY <2>13 DEF Fail1, Fault, Exit1
  <2>14. CASE Stop1
    BY <2>14 DEF Stop1, Fault, Exit1, Alive1
  <2>15. CASE OperatorSignal
    BY <2>15 DEF OperatorSignal, Fault, Deliver, Exit1
  <2>16. CASE ServerUp
    BY <2>16 DEF ServerUp
  <2>17. CASE ServerExit
    BY <2>17 DEF ServerExit, Fault
  <2>18. CASE Unlink2
    BY <2>18 DEF Unlink2, Goto2
  <2>19. CASE Create2
    BY <2>19 DEF Create2, Goto2
  <2>20. CASE Size2
    BY <2>20 DEF Size2, Goto2
  <2>21. CASE Init2
    BY <2>21 DEF Init2, Goto2
  <2>22. CASE Find2
    BY <2>22 DEF Find2, Exit2, Alive1
  <2>23. CASE Kill2
    BY <2>23 DEF Kill2, Deliver, Exit1, Alive1
  <2>24. CASE Abort2
    BY <2>24 DEF Abort2, Exit2
  <2>25. CASE Listen2
    BY <2>25 DEF Listen2, Exit2
  <2>26. CASE Post2
    BY <2>26 DEF Post2, Goto2
  <2>27. CASE Receive2
    BY <2>27 DEF Receive2, Goto2
  <2>28. CASE Exec2
    BY <2>28 DEF Exec2, Goto2
  <2>29. CASE Start2
    BY <2>29 DEF Start2
  <2>30. CASE Report2
    BY <2>30 DEF Report2, Fault
  <2>31. CASE Fail2
    BY <2>31 DEF Fail2, Fault, Exit2
  <2>32. CASE Stop2
    BY <2>32 DEF Stop2, Fault, Exit2, Alive2
  <2>33. CASE UNCHANGED vars
    BY <2>33
  <2>. QED
    BY <2>1, <2>2, <2>3, <2>4, <2>5, <2>6, <2>7, <2>8, <2>9, <2>10, <2>11,
         <2>12, <2>13, <2>14, <2>15, <2>16, <2>17, <2>18, <2>19, <2>20,
         <2>21, <2>22, <2>23, <2>24, <2>25, <2>26, <2>27, <2>28, <2>29,
         <2>30, <2>31, <2>32, <2>33
    DEF Next, Seat1Step, Seat1Environment, Seat2Step, Seat2Environment
<1>. QED
  BY <1>1, <1>2, TypeCorrect, PTL DEF Spec

(* A seat1 that got past the semaphore of the seat2 now running finds that *)
(* seat2 listening: send_display_id's connect is never refused.            *)
THEOREM ConnectIsMet == Spec => []ConnectMeetsListener
<1>1. ListenInv => ConnectMeetsListener
  BY DEF ListenInv, StreamInv, TokenInv, QuietInv, Quiet1, Alive2, Ended,
         ConnectMeetsListener
<1>. QED
  BY <1>1, ListenInvariant, PTL

-----------------------------------------------------------------------------
(* The continue signal of the first seat2 is sent after its semaphore is   *)
(* stored, and seat1 opens SHM_FILE only after it.                         *)
LEMMA RegionInvariant == Spec => [](SignalInv /\ RegionInv)
<1> USE SharedAssumption
    DEF SharedAssumption, Ended, Signals, SignalInv, RegionInv
<1>1. Init => SignalInv /\ RegionInv
  BY DEF Init, SharedInit
<1>2. /\ SeatsTypeOK /\ SeatsTypeOK' /\ MaskInv /\ MaskInv' /\ ObjectInv
      /\ SignalInv /\ RegionInv /\ [Next]_vars
      => SignalInv' /\ RegionInv'
  <2> SUFFICES ASSUME SeatsTypeOK, SeatsTypeOK', MaskInv, MaskInv', ObjectInv,
                      SignalInv, RegionInv, [Next]_vars
               PROVE  SignalInv' /\ RegionInv'
    OBVIOUS
  <2> USE DEF vars, seat1, seat2, stream, region, SeatsTypeOK, MaskInv,
              ObjectInv
  <2>1. CASE Probe1
    BY <2>1 DEF Probe1, Goto1
  <2>2. CASE Prepare1
    BY <2>2 DEF Prepare1, Goto1
  <2>3. CASE Script1
    BY <2>3 DEF Script1, Goto1
  <2>4. CASE Await1
    BY <2>4 DEF Await1, Goto1
  <2>5. CASE Block1
    BY <2>5 DEF Block1, Goto1
  <2>6. CASE TakeSignal1
    BY <2>6 DEF TakeSignal1, Exit1
  <2>7. CASE Open1
    BY <2>7 DEF Open1, Exit1
  <2>8. CASE SemWait1
    BY <2>8 DEF SemWait1, Exit1
  <2>9. CASE Connect1
    BY <2>9 DEF Connect1, Exit1
  <2>10. CASE Write1
    BY <2>10 DEF Write1, Exit1
  <2>11. CASE Park1
    BY <2>11 DEF Park1, Exit1
  <2>12. CASE Start1
    BY <2>12 DEF Start1
  <2>13. CASE Fail1
    BY <2>13 DEF Fail1, Fault, Exit1
  <2>14. CASE Stop1
    BY <2>14 DEF Stop1, Fault, Exit1, Alive1
  <2>15. CASE OperatorSignal
    BY <2>15 DEF OperatorSignal, Fault, Deliver, Exit1
  <2>16. CASE ServerUp
    BY <2>16 DEF ServerUp
  <2>17. CASE ServerExit
    BY <2>17 DEF ServerExit, Fault
  <2>18. CASE Unlink2
    BY <2>18 DEF Unlink2, Goto2
  <2>19. CASE Create2
    BY <2>19 DEF Create2, Goto2
  <2>20. CASE Size2
    BY <2>20 DEF Size2, Goto2
  <2>21. CASE Init2
    BY <2>21 DEF Init2, Goto2
  <2>22. CASE Find2
    BY <2>22 DEF Find2, Exit2, Alive1
  <2>23. CASE Kill2
    BY <2>23 DEF Kill2, Deliver, Exit1, Alive1
  <2>24. CASE Abort2
    BY <2>24 DEF Abort2, Exit2
  <2>25. CASE Listen2
    BY <2>25 DEF Listen2, Exit2
  <2>26. CASE Post2
    BY <2>26 DEF Post2, Goto2
  <2>27. CASE Receive2
    BY <2>27 DEF Receive2, Goto2
  <2>28. CASE Exec2
    BY <2>28 DEF Exec2, Goto2
  <2>29. CASE Start2
    BY <2>29 DEF Start2
  <2>30. CASE Report2
    BY <2>30 DEF Report2, Fault
  <2>31. CASE Fail2
    BY <2>31 DEF Fail2, Fault, Exit2
  <2>32. CASE Stop2
    BY <2>32 DEF Stop2, Fault, Exit2, Alive2
  <2>33. CASE UNCHANGED vars
    BY <2>33
  <2>. QED
    BY <2>1, <2>2, <2>3, <2>4, <2>5, <2>6, <2>7, <2>8, <2>9, <2>10, <2>11,
         <2>12, <2>13, <2>14, <2>15, <2>16, <2>17, <2>18, <2>19, <2>20,
         <2>21, <2>22, <2>23, <2>24, <2>25, <2>26, <2>27, <2>28, <2>29,
         <2>30, <2>31, <2>32, <2>33
    DEF Next, Seat1Step, Seat1Environment, Seat2Step, Seat2Environment
<1>. QED
  BY <1>1, <1>2, TypeCorrect, ListenInvariant, PTL DEF Spec, ListenInv

-----------------------------------------------------------------------------
(* The number seat1 is about to hand over is that of a server it has seen. *)
LEMMA ServerInvariant == Spec => []ServerInv
<1> USE SharedAssumption DEF SharedAssumption, Ended, Signals, ServerInv
<1>1. Init => ServerInv
  BY DEF Init, SharedInit
<1>2. SeatsTypeOK /\ MaskInv /\ ServerInv /\ [Next]_vars => ServerInv'
  <2> SUFFICES ASSUME SeatsTypeOK, MaskInv, ServerInv, [Next]_vars
               PROVE  ServerInv'
    OBVIOUS
  <2> USE DEF vars, seat1, seat2, stream, region, SeatsTypeOK, MaskInv
  <2>1. CASE Probe1
    BY <2>1 DEF Probe1, Goto1
  <2>2. CASE Prepare1
    BY <2>2 DEF Prepare1, Goto1
  <2>3. CASE Script1
    BY <2>3 DEF Script1, Goto1
  <2>4. CASE Await1
    BY <2>4 DEF Await1, Goto1
  <2>5. CASE Block1
    BY <2>5 DEF Block1, Goto1
  <2>6. CASE TakeSignal1
    BY <2>6 DEF TakeSignal1, Exit1
  <2>7. CASE Open1
    BY <2>7 DEF Open1, Exit1
  <2>8. CASE SemWait1
    BY <2>8 DEF SemWait1, Exit1
  <2>9. CASE Connect1
    BY <2>9 DEF Connect1, Exit1
  <2>10. CASE Write1
    BY <2>10 DEF Write1, Exit1
  <2>11. CASE Park1
    BY <2>11 DEF Park1, Exit1
  <2>12. CASE Start1
    BY <2>12 DEF Start1
  <2>13. CASE Fail1
    BY <2>13 DEF Fail1, Fault, Exit1
  <2>14. CASE Stop1
    BY <2>14 DEF Stop1, Fault, Exit1, Alive1
  <2>15. CASE OperatorSignal
    BY <2>15 DEF OperatorSignal, Fault, Deliver, Exit1
  <2>16. CASE ServerUp
    BY <2>16 DEF ServerUp
  <2>17. CASE ServerExit
    BY <2>17 DEF ServerExit, Fault
  <2>18. CASE Unlink2
    BY <2>18 DEF Unlink2, Goto2
  <2>19. CASE Create2
    BY <2>19 DEF Create2, Goto2
  <2>20. CASE Size2
    BY <2>20 DEF Size2, Goto2
  <2>21. CASE Init2
    BY <2>21 DEF Init2, Goto2
  <2>22. CASE Find2
    BY <2>22 DEF Find2, Exit2, Alive1
  <2>23. CASE Kill2
    BY <2>23 DEF Kill2, Deliver, Exit1, Alive1
  <2>24. CASE Abort2
    BY <2>24 DEF Abort2, Exit2
  <2>25. CASE Listen2
    BY <2>25 DEF Listen2, Exit2
  <2>26. CASE Post2
    BY <2>26 DEF Post2, Goto2
  <2>27. CASE Receive2
    BY <2>27 DEF Receive2, Goto2
  <2>28. CASE Exec2
    BY <2>28 DEF Exec2, Goto2
  <2>29. CASE Start2
    BY <2>29 DEF Start2
  <2>30. CASE Report2
    BY <2>30 DEF Report2, Fault
  <2>31. CASE Fail2
    BY <2>31 DEF Fail2, Fault, Exit2
  <2>32. CASE Stop2
    BY <2>32 DEF Stop2, Fault, Exit2, Alive2
  <2>33. CASE UNCHANGED vars
    BY <2>33
  <2>. QED
    BY <2>1, <2>2, <2>3, <2>4, <2>5, <2>6, <2>7, <2>8, <2>9, <2>10, <2>11,
         <2>12, <2>13, <2>14, <2>15, <2>16, <2>17, <2>18, <2>19, <2>20,
         <2>21, <2>22, <2>23, <2>24, <2>25, <2>26, <2>27, <2>28, <2>29,
         <2>30, <2>31, <2>32, <2>33
    DEF Next, Seat1Step, Seat1Environment, Seat2Step, Seat2Environment
<1>. QED
  BY <1>1, <1>2, TypeCorrect, ListenInvariant, PTL DEF Spec, ListenInv

(* The two programs implement the abstract handoff: no number reaches the  *)
(* display manager but one that a seat1 wrote which had seen its server's  *)
(* socket, and none reaches it twice.                                      *)
THEOREM Refinement == Spec => ImplementsHandoff
<1> USE SharedAssumption DEF SharedAssumption, Ended, Signals
<1>1. Init => Handoff!Init
  BY DEF Init, SharedInit, Handoff!Init
<1>2. SeatsTypeOK /\ MaskInv /\ StreamInv /\ ServerInv /\ [Next]_vars
      => [Handoff!Next]_(Handoff!hvars)
  <2> SUFFICES ASSUME SeatsTypeOK, MaskInv, StreamInv, ServerInv, [Next]_vars
               PROVE  [Handoff!Next]_(Handoff!hvars)
    OBVIOUS
  <2> USE DEF vars, seat1, seat2, stream, region, SeatsTypeOK, MaskInv,
              StreamInv, ServerInv, Handoff!hvars, Handoff!Next, Handoff!Bring,
              Handoff!Drop, Handoff!Offer, Handoff!Withdraw, Handoff!Launch,
              Handoff!LaunchBlank, Handoff!Close
  <2>1. CASE Probe1
    BY <2>1 DEF Probe1, Goto1
  <2>2. CASE Prepare1
    BY <2>2 DEF Prepare1, Goto1
  <2>3. CASE Script1
    BY <2>3 DEF Script1, Goto1
  <2>4. CASE Await1
    BY <2>4 DEF Await1, Goto1
  <2>5. CASE Block1
    BY <2>5 DEF Block1, Goto1
  <2>6. CASE TakeSignal1
    BY <2>6 DEF TakeSignal1, Exit1
  <2>7. CASE Open1
    BY <2>7 DEF Open1, Exit1
  <2>8. CASE SemWait1
    BY <2>8 DEF SemWait1, Exit1
  <2>9. CASE Connect1
    BY <2>9 DEF Connect1, Exit1
  <2>10. CASE Write1
    BY <2>10 DEF Write1, Exit1
  <2>11. CASE Park1
    BY <2>11 DEF Park1, Exit1
  <2>12. CASE Start1
    BY <2>12 DEF Start1
  <2>13. CASE Fail1
    BY <2>13 DEF Fail1, Fault, Exit1
  <2>14. CASE Stop1
    BY <2>14 DEF Stop1, Fault, Exit1, Alive1
  <2>15. CASE OperatorSignal
    BY <2>15 DEF OperatorSignal, Fault, Deliver, Exit1
  <2>16. CASE ServerUp
    BY <2>16 DEF ServerUp
  <2>17. CASE ServerExit
    BY <2>17 DEF ServerExit, Fault
  <2>18. CASE Unlink2
    BY <2>18 DEF Unlink2, Goto2
  <2>19. CASE Create2
    BY <2>19 DEF Create2, Goto2
  <2>20. CASE Size2
    BY <2>20 DEF Size2, Goto2
  <2>21. CASE Init2
    BY <2>21 DEF Init2, Goto2
  <2>22. CASE Find2
    BY <2>22 DEF Find2, Exit2, Alive1
  <2>23. CASE Kill2
    BY <2>23 DEF Kill2, Deliver, Exit1, Alive1
  <2>24. CASE Abort2
    BY <2>24 DEF Abort2, Exit2
  <2>25. CASE Listen2
    BY <2>25 DEF Listen2, Exit2
  <2>26. CASE Post2
    BY <2>26 DEF Post2, Goto2
  <2>27. CASE Receive2
    BY <2>27 DEF Receive2, Goto2
  <2>28. CASE Exec2
    BY <2>28 DEF Exec2, Goto2
  <2>29. CASE Start2
    BY <2>29 DEF Start2
  <2>30. CASE Report2
    BY <2>30 DEF Report2, Fault
  <2>31. CASE Fail2
    BY <2>31 DEF Fail2, Fault, Exit2
  <2>32. CASE Stop2
    BY <2>32 DEF Stop2, Fault, Exit2, Alive2
  <2>33. CASE UNCHANGED vars
    BY <2>33
  <2>. QED
    BY <2>1, <2>2, <2>3, <2>4, <2>5, <2>6, <2>7, <2>8, <2>9, <2>10, <2>11,
         <2>12, <2>13, <2>14, <2>15, <2>16, <2>17, <2>18, <2>19, <2>20,
         <2>21, <2>22, <2>23, <2>24, <2>25, <2>26, <2>27, <2>28, <2>29,
         <2>30, <2>31, <2>32, <2>33
    DEF Next, Seat1Step, Seat1Environment, Seat2Step, Seat2Environment
<1>. QED
  BY <1>1, <1>2, TypeCorrect, ListenInvariant, ServerInvariant, PTL
     DEF Spec, ListenInv, ImplementsHandoff, Handoff!Spec

-----------------------------------------------------------------------------
(* Faults are counted and never taken back, so a state without one has     *)
(* only states without one before it.                                      *)
LEMMA FaultFreeInvariant == Spec => []FaultFreeInv
<1> USE SharedAssumption
    DEF SharedAssumption, Ended, Signals, Signalled, Alive2, FaultFreeInv,
        OneSignalInv, OneStreamInv
<1>1. Init => FaultFreeInv
  BY DEF Init, SharedInit
<1>2. /\ SeatsTypeOK /\ SeatsTypeOK' /\ ListenInv /\ SignalInv /\ ServerInv
      /\ FaultFreeInv /\ [Next]_vars
      => FaultFreeInv'
  <2> SUFFICES ASSUME SeatsTypeOK, SeatsTypeOK', ListenInv, SignalInv,
                      ServerInv, FaultFreeInv, [Next]_vars
               PROVE  FaultFreeInv'
    OBVIOUS
  <2> USE DEF vars, seat1, seat2, stream, region, SeatsTypeOK, ListenInv,
              MaskInv, DirInv, ObjectInv, StreamInv, TokenInv, SignalInv,
              ServerInv
  <2>1. CASE Probe1
    BY <2>1 DEF Probe1, Goto1
  <2>2. CASE Prepare1
    BY <2>2 DEF Prepare1, Goto1
  <2>3. CASE Script1
    BY <2>3 DEF Script1, Goto1
  <2>4. CASE Await1
    BY <2>4 DEF Await1, Goto1
  <2>5. CASE Block1
    BY <2>5 DEF Block1, Goto1
  <2>6. CASE TakeSignal1
    BY <2>6 DEF TakeSignal1, Exit1
  <2>7. CASE Open1
    BY <2>7 DEF Open1, Exit1
  <2>8. CASE SemWait1
    BY <2>8 DEF SemWait1, Exit1
  <2>9. CASE Connect1
    BY <2>9 DEF Connect1, Exit1
  <2>10. CASE Write1
    BY <2>10 DEF Write1, Exit1
  <2>11. CASE Park1
    BY <2>11 DEF Park1, Exit1
  <2>12. CASE Start1
    BY <2>12 DEF Start1
  <2>13. CASE Fail1
    BY <2>13 DEF Fail1, Fault, Exit1
  <2>14. CASE Stop1
    BY <2>14 DEF Stop1, Fault, Exit1, Alive1
  <2>15. CASE OperatorSignal
    BY <2>15 DEF OperatorSignal, Fault, Deliver, Exit1
  <2>16. CASE ServerUp
    BY <2>16 DEF ServerUp
  <2>17. CASE ServerExit
    BY <2>17 DEF ServerExit, Fault
  <2>18. CASE Unlink2
    BY <2>18 DEF Unlink2, Goto2
  <2>19. CASE Create2
    BY <2>19 DEF Create2, Goto2
  <2>20. CASE Size2
    BY <2>20 DEF Size2, Goto2
  <2>21. CASE Init2
    BY <2>21 DEF Init2, Goto2
  <2>22. CASE Find2
    BY <2>22 DEF Find2, Exit2, Alive1
  <2>23. CASE Kill2
    BY <2>23 DEF Kill2, Deliver, Exit1, Alive1
  <2>24. CASE Abort2
    BY <2>24 DEF Abort2, Exit2
  <2>25. CASE Listen2
    BY <2>25 DEF Listen2, Exit2
  <2>26. CASE Post2
    BY <2>26 DEF Post2, Goto2
  <2>27. CASE Receive2
    BY <2>27 DEF Receive2, Goto2
  <2>28. CASE Exec2
    BY <2>28 DEF Exec2, Goto2
  <2>29. CASE Start2
    BY <2>29 DEF Start2
  <2>30. CASE Report2
    BY <2>30 DEF Report2, Fault
  <2>31. CASE Fail2
    BY <2>31 DEF Fail2, Fault, Exit2
  <2>32. CASE Stop2
    BY <2>32 DEF Stop2, Fault, Exit2, Alive2
  <2>33. CASE UNCHANGED vars
    BY <2>33
  <2>. QED
    BY <2>1, <2>2, <2>3, <2>4, <2>5, <2>6, <2>7, <2>8, <2>9, <2>10, <2>11,
         <2>12, <2>13, <2>14, <2>15, <2>16, <2>17, <2>18, <2>19, <2>20,
         <2>21, <2>22, <2>23, <2>24, <2>25, <2>26, <2>27, <2>28, <2>29,
         <2>30, <2>31, <2>32, <2>33
    DEF Next, Seat1Step, Seat1Environment, Seat2Step, Seat2Environment
<1>. QED
  BY <1>1, <1>2, TypeCorrect, ListenInvariant, RegionInvariant,
     ServerInvariant, PTL DEF Spec

(* If nothing fails, a seat1 that waits on the semaphore waits on the one  *)
(* of the seat2 that signalled it, and that seat2 is on its way to post it *)
(* or has: sem_wait cannot wait for ever.                                  *)
THEOREM WaitIsPosted == Spec => []WaitingHasPoster
<1>1. ListenInv /\ FaultFreeInv => WaitingHasPoster
  BY DEF FaultFreeInv, OneSignalInv, OneStreamInv, Signalled,
         WaitingHasPoster
<1>. QED
  BY <1>1, ListenInvariant, FaultFreeInvariant, PTL

(* As long as seat2 was started once, and as long as nothing fails, seat1  *)
(* never maps a sync region that has no size or no semaphore in it.        *)
THEOREM RegionIsWhole == Spec => []NoTornSyncRegion
<1>1. /\ SeatsTypeOK /\ ListenInv /\ RegionInv /\ FaultFreeInv
      => NoTornSyncRegion
  BY DEF SeatsTypeOK, ListenInv, ObjectInv, RegionInv, FaultFreeInv,
         OneSignalInv, Signalled, NoTornSyncRegion
<1>. QED
  BY <1>1, TypeCorrect, ListenInvariant, RegionInvariant, FaultFreeInvariant,
     PTL

(* If nothing fails, the display manager runs on the number of a nested    *)
(* server that is up and whose seat1 is there to keep it alive.            *)
THEOREM DisplayRunsNested == Spec => []DisplayIsNested
<1>1. FaultFreeInv => DisplayIsNested
  BY DEF FaultFreeInv, OneStreamInv, DisplayIsNested
<1>. QED
  BY <1>1, FaultFreeInvariant, PTL

-----------------------------------------------------------------------------
(* Where nothing fails from a rendezvous on.                               *)

\* What holds after any failures: a seat1 that waits blocks the signals, only
\* a seat1 about to write has a stream of its own, a parked one waits for no
\* server, and a seat2 that sends the continue signal has named its region.
TrackInv ==
  /\ pc1 = "wait" => blocked = Signals
  /\ conn \in {"open", "reset"} => pc1 = "write"
  /\ pc1 = "park" => xst # "starting"
  /\ starts2 = 0 => pc2 = "off"
  /\ found =< starts1
  /\ pc2 \in {"unlink", "create", "size", "init"} => sig2 = "none"
  /\ pc2 \in {"find", "kill"} => sig2 # "none"
  /\ sig2 = "USR2" \/ pc2 \in {"size", "init"} => name = starts2
  /\ pc2 \in {"listen", "post", "accept", "exec"} => sig2 = "USR2"

LEMMA TrackInvariant == Spec => []TrackInv
<1> USE SharedAssumption DEF SharedAssumption, Ended, Signals, TrackInv
<1>1. Init => TrackInv
  BY DEF Init, SharedInit
<1>2. /\ SeatsTypeOK /\ ListenInv /\ SignalInv /\ ServerInv /\ TrackInv
      /\ [Next]_vars
      => TrackInv'
  <2> SUFFICES ASSUME SeatsTypeOK, ListenInv, SignalInv, ServerInv, TrackInv,
                      [Next]_vars
               PROVE  TrackInv'
    OBVIOUS
  <2> USE DEF vars, seat1, seat2, stream, region, SeatsTypeOK, ListenInv,
              MaskInv, ObjectInv, StreamInv, TokenInv, QuietInv, Quiet1,
              SignalInv, ServerInv
  <2>1. CASE Probe1
    BY <2>1 DEF Probe1, Goto1
  <2>2. CASE Prepare1
    BY <2>2 DEF Prepare1, Goto1
  <2>3. CASE Script1
    BY <2>3 DEF Script1, Goto1
  <2>4. CASE Await1
    BY <2>4 DEF Await1, Goto1
  <2>5. CASE Block1
    BY <2>5 DEF Block1, Goto1
  <2>6. CASE TakeSignal1
    BY <2>6 DEF TakeSignal1, Exit1
  <2>7. CASE Open1
    BY <2>7 DEF Open1, Exit1
  <2>8. CASE SemWait1
    BY <2>8 DEF SemWait1, Exit1
  <2>9. CASE Connect1
    BY <2>9 DEF Connect1, Exit1
  <2>10. CASE Write1
    BY <2>10 DEF Write1, Exit1
  <2>11. CASE Park1
    BY <2>11 DEF Park1, Exit1
  <2>12. CASE Start1
    BY <2>12 DEF Start1
  <2>13. CASE Fail1
    BY <2>13 DEF Fail1, Fault, Exit1
  <2>14. CASE Stop1
    BY <2>14 DEF Stop1, Fault, Exit1, Alive1
  <2>15. CASE OperatorSignal
    BY <2>15 DEF OperatorSignal, Fault, Deliver, Exit1
  <2>16. CASE ServerUp
    BY <2>16 DEF ServerUp
  <2>17. CASE ServerExit
    BY <2>17 DEF ServerExit, Fault
  <2>18. CASE Unlink2
    BY <2>18 DEF Unlink2, Goto2
  <2>19. CASE Create2
    BY <2>19 DEF Create2, Goto2
  <2>20. CASE Size2
    BY <2>20 DEF Size2, Goto2
  <2>21. CASE Init2
    BY <2>21 DEF Init2, Goto2
  <2>22. CASE Find2
    BY <2>22 DEF Find2, Exit2, Alive1
  <2>23. CASE Kill2
    BY <2>23 DEF Kill2, Deliver, Exit1, Alive1
  <2>24. CASE Abort2
    BY <2>24 DEF Abort2, Exit2
  <2>25. CASE Listen2
    BY <2>25 DEF Listen2, Exit2
  <2>26. CASE Post2
    BY <2>26 DEF Post2, Goto2
  <2>27. CASE Receive2
    BY <2>27 DEF Receive2, Goto2
  <2>28. CASE Exec2
    BY <2>28 DEF Exec2, Goto2
  <2>29. CASE Start2
    BY <2>29 DEF Start2
  <2>30. CASE Report2
    BY <2>30 DEF Report2, Fault
  <2>31. CASE Fail2
    BY <2>31 DEF Fail2, Fault, Exit2
  <2>32. CASE Stop2
    BY <2>32 DEF Stop2, Fault, Exit2, Alive2
  <2>33. CASE UNCHANGED vars
    BY <2>33
  <2>. QED
    BY <2>1, <2>2, <2>3, <2>4, <2>5, <2>6, <2>7, <2>8, <2>9, <2>10, <2>11,
       <2>12, <2>13, <2>14, <2>15, <2>16, <2>17, <2>18, <2>19, <2>20,
       <2>21, <2>22, <2>23, <2>24, <2>25, <2>26, <2>27, <2>28, <2>29,
       <2>30, <2>31, <2>32, <2>33
    DEF Next, Seat1Step, Seat1Environment, Seat2Step, Seat2Environment
<1>. QED
  BY <1>1, <1>2, TypeCorrect, ListenInvariant, RegionInvariant,
     ServerInvariant, PTL DEF Spec

\* On the track nobody but the two seats moves, and each of their steps goes
\* on along it.
LEMMA TrackStep ==
  ASSUME SeatsTypeOK, ListenInv, SignalInv, ServerInv, TrackInv,
         OnTrack, Next, faults' = faults
  PROVE  /\ Distance' < Distance
         /\ \/ OnTrack'
            \/ pc2' = "display" /\ pc1' = "park" /\ id2' = nid'
<1> USE SharedAssumption
    DEF SharedAssumption, Ended, Signals, Alive2, TrackInv, OnTrack,
        Rendezvous, Meeting, HandingOver, Distance
<1> USE DEF vars, seat1, seat2, stream, region, SeatsTypeOK, ListenInv, MaskInv,
            DirInv, ObjectInv, StreamInv, TokenInv, QuietInv, Quiet1, SignalInv,
            ServerInv
<1>1. CASE Probe1
  BY <1>1 DEF Probe1, Goto1
<1>2. CASE Prepare1
  BY <1>2 DEF Prepare1, Goto1
<1>3. CASE Script1
  BY <1>3 DEF Script1, Goto1
<1>4. CASE Await1
  BY <1>4 DEF Await1, Goto1
<1>5. CASE Block1
  BY <1>5 DEF Block1, Goto1
<1>6. CASE TakeSignal1
  BY <1>6 DEF TakeSignal1, Exit1
<1>7. CASE Open1
  BY <1>7 DEF Open1, Exit1
<1>8. CASE SemWait1
  BY <1>8 DEF SemWait1, Exit1
<1>9. CASE Connect1
  BY <1>9 DEF Connect1, Exit1
<1>10. CASE Write1
  BY <1>10 DEF Write1, Exit1
<1>11. CASE Park1
  BY <1>11 DEF Park1, Exit1
<1>12. CASE Start1
  BY <1>12 DEF Start1
<1>13. CASE Fail1
  BY <1>13 DEF Fail1, Fault, Exit1
<1>14. CASE Stop1
  BY <1>14 DEF Stop1, Fault, Exit1, Alive1
<1>15. CASE OperatorSignal
  BY <1>15 DEF OperatorSignal, Fault, Deliver, Exit1
<1>16. CASE ServerUp
  BY <1>16 DEF ServerUp
<1>17. CASE ServerExit
  BY <1>17 DEF ServerExit, Fault
<1>18. CASE Unlink2
  BY <1>18 DEF Unlink2, Goto2
<1>19. CASE Create2
  BY <1>19 DEF Create2, Goto2
<1>20. CASE Size2
  BY <1>20 DEF Size2, Goto2
<1>21. CASE Init2
  BY <1>21 DEF Init2, Goto2
<1>22. CASE Find2
  BY <1>22 DEF Find2, Exit2, Alive1
<1>23. CASE Kill2
  BY <1>23 DEF Kill2, Deliver, Exit1, Alive1
<1>24. CASE Abort2
  BY <1>24 DEF Abort2, Exit2
<1>25. CASE Listen2
  BY <1>25 DEF Listen2, Exit2
<1>26. CASE Post2
  BY <1>26 DEF Post2, Goto2
<1>27. CASE Receive2
  BY <1>27 DEF Receive2, Goto2
<1>28. CASE Exec2
  BY <1>28 DEF Exec2, Goto2
<1>29. CASE Start2
  BY <1>29 DEF Start2
<1>30. CASE Report2
  BY <1>30 DEF Report2, Fault
<1>31. CASE Fail2
  BY <1>31 DEF Fail2, Fault, Exit2
<1>32. CASE Stop2
  BY <1>32 DEF Stop2, Fault, Exit2, Alive2
<1>. QED
  BY <1>1, <1>2, <1>3, <1>4, <1>5, <1>6, <1>7, <1>8, <1>9, <1>10, <1>11,
     <1>12, <1>13, <1>14, <1>15, <1>16, <1>17, <1>18, <1>19, <1>20,
     <1>21, <1>22, <1>23, <1>24, <1>25, <1>26, <1>27, <1>28, <1>29,
     <1>30, <1>31, <1>32
  DEF Next, Seat1Step, Seat1Environment, Seat2Step, Seat2Environment

(* As long as nothing fails, every step after a rendezvous of the seats    *)
(* brings them closer to the display manager on seat1's number, whatever   *)
(* failed or was stopped before: with fairness the handoff completes.      *)
THEOREM Advances == Spec => HandoffAdvances
<1> DEFINE TInv == /\ SeatsTypeOK /\ ListenInv /\ SignalInv /\ ServerInv
                   /\ TrackInv
           Closer == OnTrack /\ faults' = faults =>
             /\ Distance' < Distance
             /\ \/ OnTrack'
                \/ (pc2 = "display" /\ pc1 = "park" /\ id2 = nid)'
<1>1. TInv /\ [Next]_vars => [Closer]_vars
  BY TrackStep
<1>. QED
  BY <1>1, TypeCorrect, ListenInvariant, RegionInvariant, ServerInvariant,
     TrackInvariant, PTL DEF Spec, HandoffAdvances

\* No step takes a fault back.
LEMMA FaultsGrow ==
  ASSUME Next PROVE faults' = faults \/ faults' = faults + 1
<1>1. CASE Seat1Step
  BY <1>1 DEF Seat1Step, Probe1, Prepare1, Script1, Await1, Block1,
              TakeSignal1, Open1, SemWait1, Connect1, Write1, Park1
<1>2. CASE Seat1Environment
  BY <1>2 DEF Seat1Environment, Start1, Fail1, Stop1, OperatorSignal,
              ServerUp, ServerExit, Fault
<1>3. CASE Seat2Step
  BY <1>3 DEF Seat2Step, Unlink2, Create2, Size2, Init2, Find2, Kill2,
              Abort2, Listen2, Post2, Receive2, Exec2
<1>4. CASE Seat2Environment
  BY <1>4 DEF Seat2Environment, Start2, Report2, Fail2, Stop2, Fault
<1>. QED
  BY <1>1, <1>2, <1>3, <1>4 DEF Next

\* Off the track, a signal that was sent was sent to a seat1 that is gone.
LEMMA LostStep ==
  ASSUME SeatsTypeOK, SeatsTypeOK', ListenInv, SignalInv, ServerInv, TrackInv,
         FaultFreeInv, OnlyEarlySignalIsLost, Next, ~OnTrack,
         faults = 0, faults' = 0,
         pc2' \in {"listen", "post", "accept", "exec"}
  PROVE  ~Alive1' \/ starts1' # found'
<1> USE SharedAssumption DEF SharedAssumption, Ended, Signals, Signalled
<1>1. /\ pc2 = "kill" => sig2 = "USR2"
      /\ pc2 = "kill" => pc1 = "wait" \/ blocked = {}
      /\ pend # {} => pc1 = "wait" /\ pc2 # "kill"
      /\ pc2 \in {"listen", "post", "accept", "exec"}
           => ~Alive1 \/ starts1 # found
  BY DEF FaultFreeInv, OneSignalInv, ListenInv, MaskInv, TrackInv,
         SignalInv, SeatsTypeOK, OnlyEarlySignalIsLost
<1>2. ~OnTrack /\ sig2 # "USR1"
  BY DEF FaultFreeInv, OneSignalInv
<1> USE DEF vars, seat1, seat2, stream, region, SeatsTypeOK, TrackInv, Alive1
<1>11. CASE Probe1
  BY <1>1, <1>11 DEF Probe1, Goto1
<1>12. CASE Prepare1
  BY <1>1, <1>12 DEF Prepare1, Goto1
<1>13. CASE Script1
  BY <1>1, <1>13 DEF Script1, Goto1
<1>14. CASE Await1
  BY <1>1, <1>14 DEF Await1, Goto1
<1>15. CASE Block1
  BY <1>1, <1>15 DEF Block1, Goto1
<1>16. CASE TakeSignal1
  BY <1>1, <1>16 DEF TakeSignal1, Exit1
<1>17. CASE Open1
  BY <1>1, <1>17 DEF Open1, Exit1
<1>18. CASE SemWait1
  BY <1>1, <1>18 DEF SemWait1, Exit1
<1>19. CASE Connect1
  BY <1>1, <1>19 DEF Connect1, Exit1
<1>20. CASE Write1
  BY <1>1, <1>20 DEF Write1, Exit1
<1>21. CASE Park1
  BY <1>1, <1>21 DEF Park1, Exit1
<1>22. CASE Start1
  BY <1>1, <1>22 DEF Start1
<1>23. CASE Fail1
  BY <1>1, <1>23 DEF Fail1, Fault, Exit1
<1>24. CASE Stop1
  BY <1>1, <1>24 DEF Stop1, Fault, Exit1, Alive1
<1>25. CASE OperatorSignal
  BY <1>1, <1>25 DEF OperatorSignal, Fault, Deliver, Exit1
<1>26. CASE ServerUp
  BY <1>1, <1>26 DEF ServerUp
<1>27. CASE ServerExit
  BY <1>1, <1>27 DEF ServerExit, Fault
<1>28. CASE Unlink2
  BY <1>1, <1>28 DEF Unlink2, Goto2
<1>29. CASE Create2
  BY <1>1, <1>29 DEF Create2, Goto2
<1>30. CASE Size2
  BY <1>1, <1>30 DEF Size2, Goto2
<1>31. CASE Init2
  BY <1>1, <1>31 DEF Init2, Goto2
<1>32. CASE Find2
  BY <1>1, <1>32 DEF Find2, Exit2, Alive1
<1>33. CASE Kill2
  <2>1. pc2 = "kill" /\ (found = starts1 /\ Alive1 => Deliver(sig2))
    BY <1>33 DEF Kill2
  <2>2. CASE found = starts1 /\ Alive1
    <3>1. pc1 # "wait"
      BY <1>1, <1>2, <2>1, <2>2 DEF OnTrack, Rendezvous
    <3>2. "USR2" \notin blocked
      BY <1>1, <2>1, <3>1
    <3>. QED
      BY <1>33, <2>1, <2>2, <3>2 DEF Kill2, Deliver, Exit1, Alive1
  <2>3. CASE ~(found = starts1 /\ Alive1)
    BY <1>33, <2>3 DEF Kill2, Deliver, Alive1
  <2>. QED
    BY <2>2, <2>3
<1>34. CASE Abort2
  BY <1>1, <1>34 DEF Abort2, Exit2
<1>35. CASE Listen2
  BY <1>1, <1>35 DEF Listen2, Exit2
<1>36. CASE Post2
  BY <1>1, <1>36 DEF Post2, Goto2
<1>37. CASE Receive2
  BY <1>1, <1>37 DEF Receive2, Goto2
<1>38. CASE Exec2
  BY <1>1, <1>38 DEF Exec2, Goto2
<1>39. CASE Start2
  BY <1>1, <1>39 DEF Start2
<1>40. CASE Report2
  BY <1>1, <1>40 DEF Report2, Fault
<1>41. CASE Fail2
  BY <1>1, <1>41 DEF Fail2, Fault, Exit2
<1>42. CASE Stop2
  BY <1>1, <1>42 DEF Stop2, Fault, Exit2, Alive2
<1>. QED
  BY <1>11, <1>12, <1>13, <1>14, <1>15, <1>16, <1>17, <1>18, <1>19, <1>20,
     <1>21, <1>22, <1>23, <1>24, <1>25, <1>26, <1>27, <1>28, <1>29, <1>30,
     <1>31, <1>32, <1>33, <1>34, <1>35, <1>36, <1>37, <1>38, <1>39,
     <1>40, <1>41, <1>42
  DEF Next, Seat1Step, Seat1Environment, Seat2Step, Seat2Environment

(* If nothing fails, a seat2 that has sent its signal is on the way to its *)
(* number, or the signal met a seat1 that did not block it.                *)
THEOREM OnlyEarlySignals == Spec => []OnlyEarlySignalIsLost
<1>1. Init => OnlyEarlySignalIsLost
  BY DEF Init, SharedInit, OnlyEarlySignalIsLost
<1>2. /\ SeatsTypeOK /\ SeatsTypeOK' /\ ListenInv /\ SignalInv /\ ServerInv
      /\ TrackInv /\ FaultFreeInv /\ OnlyEarlySignalIsLost /\ [Next]_vars
      => OnlyEarlySignalIsLost'
  <2>1. SUFFICES ASSUME SeatsTypeOK, SeatsTypeOK', ListenInv, SignalInv,
                        ServerInv, TrackInv, FaultFreeInv,
                        OnlyEarlySignalIsLost, Next, faults' = 0,
                        pc2' \in {"listen", "post", "accept", "exec"}
                 PROVE  OnTrack' \/ ~Alive1' \/ starts1' # found'
    BY DEF OnlyEarlySignalIsLost, OnTrack, Rendezvous, Meeting, HandingOver,
           Alive1, Ended, vars, seat1, seat2, stream, region
  <2>2. faults = 0
    BY <2>1, FaultsGrow DEF SeatsTypeOK
  <2>3. CASE OnTrack
    BY <2>1, <2>2, <2>3, TrackStep
  <2>4. CASE ~OnTrack
    BY <2>1, <2>2, <2>4, LostStep
  <2>. QED
    BY <2>3, <2>4
<1>. QED
  BY <1>1, <1>2, TypeCorrect, ListenInvariant, RegionInvariant,
     ServerInvariant, TrackInvariant, FaultFreeInvariant, PTL DEF Spec

(* Once seat2 is to report an error to a seat1 that waits for it, seat1    *)
(* ends, unless the seat2 that reports is stopped: no later signal makes   *)
(* it go on.                                                               *)
THEOREM ErrorsAreReported == Spec => ErrorIsNotLost
<1> DEFINE Kept == Reporting => Reporting' \/ ~Alive1' \/ pc2' = "killed"
<1>1. SeatsTypeOK /\ TrackInv /\ [Next]_vars => [Kept]_vars
  <2> SUFFICES ASSUME SeatsTypeOK, TrackInv, Next, Reporting
               PROVE  Reporting' \/ ~Alive1' \/ pc2' = "killed"
    OBVIOUS
  <2> USE DEF SeatsTypeOK, TrackInv, Reporting, Alive1, Ended, Signals, vars,
              seat1, seat2, stream, region
  <2>1. CASE Probe1
    BY <2>1 DEF Probe1, Goto1
  <2>2. CASE Prepare1
    BY <2>2 DEF Prepare1, Goto1
  <2>3. CASE Script1
    BY <2>3 DEF Script1, Goto1
  <2>4. CASE Await1
    BY <2>4 DEF Await1, Goto1
  <2>5. CASE Block1
    BY <2>5 DEF Block1, Goto1
  <2>6. CASE TakeSignal1
    BY <2>6 DEF TakeSignal1, Exit1
  <2>7. CASE Open1
    BY <2>7 DEF Open1, Exit1
  <2>8. CASE SemWait1
    BY <2>8 DEF SemWait1, Exit1
  <2>9. CASE Connect1
    BY <2>9 DEF Connect1, Exit1
  <2>10. CASE Write1
    BY <2>10 DEF Write1, Exit1
  <2>11. CASE Park1
    BY <2>11 DEF Park1, Exit1
  <2>12. CASE Start1
    BY <2>12 DEF Start1
  <2>13. CASE Fail1
    BY <2>13 DEF Fail1, Fault, Exit1
  <2>14. CASE Stop1
    BY <2>14 DEF Stop1, Fault, Exit1, Alive1
  <2>15. CASE OperatorSignal
    BY <2>15 DEF OperatorSignal, Fault, Deliver, Exit1
  <2>16. CASE ServerUp
    BY <2>16 DEF ServerUp
  <2>17. CASE ServerExit
    BY <2>17 DEF ServerExit, Fault
  <2>18. CASE Unlink2
    BY <2>18 DEF Unlink2, Goto2
  <2>19. CASE Create2
    BY <2>19 DEF Create2, Goto2
  <2>20. CASE Size2
    BY <2>20 DEF Size2, Goto2
  <2>21. CASE Init2
    BY <2>21 DEF Init2, Goto2
  <2>22. CASE Find2
    BY <2>22 DEF Find2, Exit2, Alive1
  <2>23. CASE Kill2
    BY <2>23 DEF Kill2, Deliver, Exit1, Alive1
  <2>24. CASE Abort2
    BY <2>24 DEF Abort2, Exit2
  <2>25. CASE Listen2
    BY <2>25 DEF Listen2, Exit2
  <2>26. CASE Post2
    BY <2>26 DEF Post2, Goto2
  <2>27. CASE Receive2
    BY <2>27 DEF Receive2, Goto2
  <2>28. CASE Exec2
    BY <2>28 DEF Exec2, Goto2
  <2>29. CASE Start2
    BY <2>29 DEF Start2
  <2>30. CASE Report2
    BY <2>30 DEF Report2, Fault
  <2>31. CASE Fail2
    BY <2>31 DEF Fail2, Fault, Exit2
  <2>32. CASE Stop2
    BY <2>32 DEF Stop2, Fault, Exit2, Alive2
  <2>. QED
    BY <2>1, <2>2, <2>3, <2>4, <2>5, <2>6, <2>7, <2>8, <2>9, <2>10, <2>11,
       <2>12, <2>13, <2>14, <2>15, <2>16, <2>17, <2>18, <2>19, <2>20,
       <2>21, <2>22, <2>23, <2>24, <2>25, <2>26, <2>27, <2>28, <2>29,
       <2>30, <2>31, <2>32
    DEF Next, Seat1Step, Seat1Environment, Seat2Step, Seat2Environment
<1>. QED
  BY <1>1, TypeCorrect, TrackInvariant, PTL DEF Spec, ErrorIsNotLost
=============================================================================
