----------------------------- MODULE SeatShared -----------------------------
(***************************************************************************)
(* What the two seat processes share while the nested X server's display   *)
(* number travels from seat1_calle to seat2_calle: the signals, the POSIX  *)
(* shared-memory object SHM_FILE with the semaphore in it, the stream      *)
(* socket SOCKET_PATH, and what the kernel does to them when a process     *)
(* goes away.                                                              *)
(*                                                                         *)
(* A process's program counter names the call it is about to make.  Every  *)
(* seat2 process creates at most one shared-memory object, so objects are  *)
(* numbered by the incarnation of seat2 that created them, 0 being none.   *)
(***************************************************************************)
EXTENDS Naturals, FiniteSets

CONSTANTS
  DisplayIds,   \* the X display numbers start_nested_x.sh may find free
  NoId,         \* "no display number": an empty file, an empty read
  RETRY_COUNT,  \* how often seat2 looks for seat1 (5 in the code)
  MaxStarts,    \* bound: how often each unit is started
  MaxFaults     \* bound: failing calls, stops and operator signals in a run

ASSUME SharedAssumption ==
  /\ NoId \notin DisplayIds
  /\ RETRY_COUNT \in Nat \ {0}
  /\ MaxStarts \in Nat \ {0}
  /\ MaxFaults \in Nat

VARIABLES
  pc1,     \* seat1_calle: the call it is about to make
  starts1, \* number of seat1 processes started so far
  dir,     \* whether a seat1 has made the directory SOCKET_PATH is in
  blocked, \* the signals seat1 blocks
  pend,    \* signals pending on seat1
  waits,   \* the set the last sigwait of seat1's main is called with
  map1,    \* the shared-memory object seat1 has mapped
  xst,     \* Xnest: "none", "starting", "up", "crashed"
  nid,     \* the display number in the file display_id of this seat1
  pc2,     \* seat2_calle: the call it is about to make
  starts2, \* number of seat2 processes started so far
  sig2,    \* the signal seat2 is sending
  found,   \* the seat1 process whose pid seat2 found, 0 if none
  tries,   \* failed searches for that pid
  id2,     \* the display number seat2 read
  name,    \* the object SHM_FILE names, 0 if unlinked
  sem,     \* for each object, the state of its sync_state
  listener, \* the seat2 process listening on SOCKET_PATH, 0 if none
  conn,    \* the stream: "none", "open", "sent", "eof" or "reset"
  wire,    \* what was written to the stream
  faults   \* failing calls, stops and operator signals so far

seat1 == <<pc1, starts1, dir, blocked, pend, waits, map1, xst, nid>>
seat2 == <<pc2, starts2, sig2, found, tries, id2>>
stream == <<listener, conn, wire>>
region == <<name, sem>>
vars == <<seat1, seat2, stream, region, faults>>

\* ERROR_SIGNAL is SIGUSR1, COMPL_SIGNAL is SIGUSR2.
Signals == {"USR1", "USR2"}
SemStates == {"none", "unsized", "zeroed", "ready", "posted"}
Ended == {"off", "done", "failed", "killed"}
Alive1 == pc1 \notin Ended
Alive2 == pc2 \notin Ended

SharedInit ==
  /\ pc1 = "off" /\ starts1 = 0 /\ dir = FALSE
  /\ blocked = {} /\ pend = {} /\ waits = {}
  /\ map1 = 0 /\ xst = "none" /\ nid = NoId
  /\ pc2 = "off" /\ starts2 = 0 /\ sig2 = "none" /\ found = 0 /\ tries = 0
  /\ id2 = NoId
  /\ name = 0 /\ sem = [o \in 1..MaxStarts |-> "none"]
  /\ listener = 0 /\ conn = "none" /\ wire = NoId
  /\ faults = 0

\* Something from outside goes wrong or interferes; bounded by MaxFaults.
Fault == faults < MaxFaults /\ faults' = faults + 1

-----------------------------------------------------------------------------
\* seat1 goes away.  Its unit's cgroup goes with it, Xnest included; its end
\* of the stream closes; the semaphore and SHM_FILE stay as they are.
Exit1(how) ==
  /\ pc1' = how
  /\ blocked' = {} /\ pend' = {} /\ waits' = {} /\ map1' = 0
  /\ xst' = "none" /\ nid' = NoId
  /\ conn' = CASE conn = "open"  -> "eof"
               [] conn = "reset" -> "none"
               [] OTHER          -> conn

\* seat2 goes away: the listening socket closes with what is queued on it.
Exit2(how) ==
  /\ pc2' = how
  /\ sig2' = "none" /\ found' = 0 /\ tries' = 0 /\ id2' = NoId
  /\ listener' = 0 /\ wire' = NoId
  /\ conn' = IF conn \in {"open", "reset"} THEN "reset" ELSE "none"

\* kill(pid of seat1, s): pending where seat1 blocks s, and otherwise the
\* default action, which for both signals terminates the process.
Deliver(s) ==
  \/ /\ s \in blocked
     /\ pend' = pend \union {s}
     /\ UNCHANGED <<pc1, blocked, waits, map1, xst, nid, conn>>
  \/ /\ s \notin blocked
     /\ Exit1("killed")

-----------------------------------------------------------------------------
(* The processes, the shared-memory objects and the stream hold only       *)
(* values the code can give them, and seat2 never searches for seat1 more  *)
(* often than RETRY_COUNT times (send_signal).                             *)
SeatsTypeOK ==
  /\ pc1 \in Ended \union {"probe", "prepare", "script", "xwait", "block",
                           "wait", "open", "semwait", "deaf", "connect",
                           "write", "park"}
  /\ starts1 \in 0..MaxStarts /\ dir \in BOOLEAN
  /\ blocked \subseteq Signals /\ pend \subseteq Signals
  /\ waits \subseteq Signals
  /\ map1 \in 0..MaxStarts
  /\ xst \in {"none", "starting", "up", "crashed"}
  /\ nid \in DisplayIds \union {NoId}
  /\ pc2 \in Ended \union {"unlink", "create", "size", "init", "find", "kill",
                           "abort", "listen", "post", "accept", "exec",
                           "display"}
  /\ starts2 \in 0..MaxStarts
  /\ sig2 \in Signals \union {"none"}
  /\ found \in 0..MaxStarts
  /\ tries \in 0..(RETRY_COUNT - 1)
  /\ id2 \in DisplayIds \union {NoId}
  /\ name \in 0..MaxStarts
  /\ sem \in [1..MaxStarts -> SemStates]
  /\ listener \in 0..MaxStarts
  /\ conn \in {"none", "open", "sent", "eof", "reset"}
  /\ wire \in DisplayIds \union {NoId}
  /\ faults \in 0..MaxFaults
=============================================================================
