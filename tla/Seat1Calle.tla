----------------------------- MODULE Seat1Calle -----------------------------
(***************************************************************************)
(* seat1_calle: starts the nested X server on a machine with one GPU, waits *)
(* for seat2's signal, hands the display number over and then stays alive  *)
(* so that the server's cgroup does.                                       *)
(***************************************************************************)
EXTENDS SeatShared

\* The unit is started, or started again after its process ended.
Start1 ==
  /\ pc1 \in Ended /\ starts1 < MaxStarts
  /\ pc1' = "probe" /\ starts1' = starts1 + 1
  /\ UNCHANGED <<dir, blocked, pend, waits, map1, xst, nid, seat2, stream,
                 region, faults>>

Goto1(here, there) == pc1 = here /\ pc1' = there

\* get_usable_gpu_count: any count but one skips the nested server and goes
\* to the last sigwait, whose set is an uninitialised local of main.
Probe1 ==
  /\ \/ Goto1("probe", "prepare") /\ UNCHANGED waits
     \/ Goto1("probe", "park") /\ waits' \in SUBSET Signals
  /\ UNCHANGED <<starts1, dir, blocked, pend, map1, xst, nid, seat2, stream,
                 region, faults>>

\* mkdir_direct, which leaves a directory that exists alone, and open and
\* ftruncate of the display_id file in it.
Prepare1 ==
  /\ Goto1("prepare", "script")
  /\ dir' = TRUE
  /\ UNCHANGED <<starts1, blocked, pend, waits, map1, xst, nid, seat2, stream,
                 region, faults>>

\* start_nested_x.sh picks a free number, writes it to display_id and starts
\* Xnest in the background.
Script1 ==
  /\ Goto1("script", "xwait")
  /\ nid' \in DisplayIds /\ xst' = "starting"
  /\ UNCHANGED <<starts1, dir, blocked, pend, waits, map1, seat2, stream,
                 region, faults>>

\* Mutant: seat1 does not wait for the server's socket.
Await1Unawaited ==
  /\ Goto1("xwait", "block")
  /\ UNCHANGED <<starts1, dir, blocked, pend, waits, map1, xst, nid, seat2,
                 stream, region, faults>>

\* The script's loop: it ends once the server's socket exists, and has no
\* timeout.  seat1 then reads the number back from the mapped file.
Await1 ==
  /\ xst \in {"up", "crashed"}
  /\ Goto1("xwait", "block")
  /\ UNCHANGED <<starts1, dir, blocked, pend, waits, map1, xst, nid, seat2,
                 stream, region, faults>>

Block1 ==
  /\ Goto1("block", "wait")
  /\ blocked' = Signals
  /\ UNCHANGED <<starts1, dir, pend, waits, map1, xst, nid, seat2, stream,
                 region, faults>>

\* Mutant: seat1 goes on without having been signalled.
TakeSignal1Polled ==
  /\ pc1 = "wait"
  /\ \/ "USR1" \in pend /\ Exit1("failed")
     \/ /\ "USR1" \notin pend
        /\ pc1' = "open" /\ pend' = pend \ {"USR2"}
        /\ UNCHANGED <<blocked, waits, map1, xst, nid, conn>>
  /\ UNCHANGED <<starts1, dir, seat2, listener, wire, region, faults>>

\* Mutant: the error signal is not in the set seat1 waits for.
TakeSignal1ContinueOnly ==
  /\ pc1 = "wait" /\ "USR2" \in pend
  /\ pc1' = "open" /\ pend' = pend \ {"USR2"}
  /\ UNCHANGED <<blocked, waits, map1, xst, nid, conn>>
  /\ UNCHANGED <<starts1, dir, seat2, listener, wire, region, faults>>

\* sigwait: the kernel takes the lower-numbered SIGUSR1 first.
TakeSignal1 ==
  /\ pc1 = "wait"
  /\ \/ /\ "USR1" \in pend
        /\ Exit1("failed")
     \/ /\ "USR1" \notin pend /\ "USR2" \in pend
        /\ pc1' = "open" /\ pend' = pend \ {"USR2"}
        /\ UNCHANGED <<blocked, waits, map1, xst, nid, conn>>
  /\ UNCHANGED <<starts1, dir, seat2, listener, wire, region, faults>>

\* shm_open without O_CREAT, and mmap.
Open1 ==
  /\ pc1 = "open"
  /\ \/ /\ name = 0
        /\ Exit1("failed")
     \/ /\ name # 0
        /\ pc1' = "semwait" /\ map1' = name
        /\ UNCHANGED <<blocked, pend, waits, xst, nid, conn>>
  /\ UNCHANGED <<starts1, dir, seat2, listener, wire, region, faults>>

\* sem_wait; touching the mapping of an object without size is SIGBUS.
SemWait1 ==
  /\ pc1 = "semwait"
  /\ \/ /\ sem[map1] = "unsized"
        /\ Exit1("killed") /\ UNCHANGED sem
     \/ /\ sem[map1] = "posted"
        /\ pc1' = "connect" /\ sem' = [sem EXCEPT ![map1] = "ready"]
        /\ UNCHANGED <<blocked, pend, waits, map1, xst, nid, conn>>
  /\ UNCHANGED <<starts1, dir, seat2, listener, wire, name, faults>>

Connect1 ==
  /\ pc1 = "connect"
  /\ \/ /\ listener # 0
        /\ pc1' = "write" /\ conn' = "open"
        /\ UNCHANGED <<blocked, pend, waits, map1, xst, nid>>
     \/ /\ listener = 0
        /\ Exit1("failed")
  /\ UNCHANGED <<starts1, dir, seat2, listener, wire, region, faults>>

\* write and close, then main's last sigwait with its uninitialised set.
\* Services are started with SIGPIPE ignored, so writing to a stream whose other
\* end is gone is a write that fails, and main returns 1.
Write1 ==
  /\ pc1 = "write"
  /\ \/ /\ conn = "open"
        /\ pc1' = "park" /\ conn' = "sent" /\ wire' = nid
        /\ waits' \in SUBSET Signals
        /\ UNCHANGED <<blocked, pend, map1, xst, nid>>
     \/ /\ conn = "reset"
        /\ Exit1("failed") /\ UNCHANGED wire
  /\ UNCHANGED <<starts1, dir, seat2, listener, region, faults>>

Park1 ==
  /\ pc1 = "park" /\ pend \intersect waits # {}
  /\ Exit1("done")
  /\ UNCHANGED <<starts1, dir, seat2, listener, wire, region, faults>>

\* A call of seat1 fails, or the script exits with an error; each such branch
\* of main and send_display_id returns 1.  To fail after mkdir_direct is to do
\* Prepare1 and fail at the script.
Fail1 ==
  /\ Fault
  /\ pc1 \in {"prepare", "script", "open", "semwait", "connect", "write"}
  /\ Exit1("failed")
  /\ UNCHANGED <<starts1, dir, seat2, listener, wire, region>>

\* systemctl stop.
Stop1 ==
  /\ Fault
  /\ Alive1
  /\ Exit1("killed")
  /\ UNCHANGED <<starts1, dir, seat2, listener, wire, region>>

\* The operator signals the parked seat1, as main's comment describes.
OperatorSignal ==
  /\ Fault
  /\ pc1 = "park"
  /\ \E s \in Signals : Deliver(s)
  /\ UNCHANGED <<starts1, dir, seat2, listener, wire, region>>

\* Xnest creates its socket.
ServerUp ==
  /\ xst = "starting" /\ xst' = "up"
  /\ UNCHANGED <<pc1, starts1, dir, blocked, pend, waits, map1, nid, seat2,
                 stream, region, faults>>

\* Xnest ends: before its socket exists, or later and leaving it behind.
ServerExit ==
  /\ Fault
  /\ \/ xst = "starting" /\ xst' = "none"
     \/ xst = "up" /\ xst' = "crashed"
  /\ UNCHANGED <<pc1, starts1, dir, blocked, pend, waits, map1, nid, seat2,
                 stream, region>>

\* What seat1 does by itself once it runs.
Seat1Step ==
  \/ Probe1 \/ Prepare1 \/ Script1 \/ Await1 \/ Block1 \/ TakeSignal1
  \/ Open1 \/ SemWait1 \/ Connect1 \/ Write1 \/ Park1

\* What happens to seat1 and to the server it started.
Seat1Environment ==
  \/ Start1 \/ Fail1 \/ Stop1 \/ OperatorSignal \/ ServerUp \/ ServerExit
=============================================================================
