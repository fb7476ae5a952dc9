-------------------------- MODULE SharedFrameBuffer -------------------------
(***************************************************************************)
(* The frame buffer that the display manager (xlib_run) publishes in two   *)
(* POSIX shared-memory objects, the pixels and an fb_info that describes   *)
(* them, and that client processes map afresh for every drawing call       *)
(* (__get_shm_objects).  Nothing orders the two sides: a client may open   *)
(* the objects at any point of the server's set-up, and keeps what it has  *)
(* mapped while the server goes away and another one starts.               *)
(*                                                                         *)
(* A process's program counter names the call it is about to make.  Each   *)
(* run of the server creates at most one object of each kind, so objects   *)
(* are numbered by the run that created them, 0 being none.  A client      *)
(* process is in one drawing call at a time (DisplayApi).                  *)
(***************************************************************************)
EXTENDS Naturals

CONSTANTS
  Clients,   \* the client processes
  Screens,   \* the X screens a server may open: their pixels and their depth
  MaxRuns    \* bound: how often a display manager is started

ASSUME FrameBufferAssumption ==
  /\ Screens \subseteq [pixels : Nat \ {0}, depth : Nat \ {0}]
  /\ MaxRuns \in Nat \ {0}

VARIABLES
  srv,    \* xlib_run: the call it is about to make
  run,    \* number of display managers started so far
  shown,  \* for each run the screen the server opened
  dname,  \* the object the data name refers to
  iname,  \* the object the info name refers to
  data,   \* for each data object its size in bytes, 0 before ftruncate
  info,   \* for each info object how far it is written
  pc,     \* per client: the call it is about to make
  seen,   \* per client: the state of the info object when it opened it
  ci,     \* per client: the info object it mapped
  cd,     \* per client: the data object it opened
  len     \* per client: the bytes of it that are mapped

server == <<srv, run, shown, dname, iname, data, info>>
client == <<pc, seen, ci, cd, len>>
vars == <<server, client>>

Runs == 1..MaxRuns
InfoStates == {"unsized", "zero", "partial", "full"}

\* What an fb_info without contents says of its screen.
NoScreen == [pixels |-> 0, depth |-> 0]

\* The bytes of a pixel: the depth and eight bits of padding, in whole bytes.
BytesPerPixel(s) == (s.depth + 8) \div 8

\* b_size: stride * height.
Size(s) == s.pixels * BytesPerPixel(s)

\* How far drawing routines may store.  Every store takes four bytes; fb_fill
\* steps by four bytes, the others by the bytes of a pixel.
Reach(s) ==
  s.pixels * (IF BytesPerPixel(s) < 4 THEN 4 ELSE BytesPerPixel(s))

Init ==
  /\ srv = "off" /\ run = 0 /\ shown = [r \in Runs |-> NoScreen]
  /\ dname = 0 /\ iname = 0
  /\ data = [r \in Runs |-> 0] /\ info = [r \in Runs |-> "unsized"]
  /\ pc = [c \in Clients |-> "idle"] /\ seen = [c \in Clients |-> "full"]
  /\ ci = [c \in Clients |-> 0] /\ cd = [c \in Clients |-> 0]
  /\ len = [c \in Clients |-> 0]

-----------------------------------------------------------------------------
(* The display manager: main, xlib_init and xlib_run.                      *)

\* The screen may be another one than that of the run before.
Start ==
  /\ srv \in {"off", "ended"} /\ run < MaxRuns
  /\ srv' = "unlinkdata" /\ run' = run + 1
  /\ \E s \in Screens : shown' = [shown EXCEPT ![run + 1] = s]
  /\ UNCHANGED <<dname, iname, data, info, client>>

Goto(here, there) == srv = here /\ srv' = there

UnlinkData ==
  /\ Goto("unlinkdata", "unlinkinfo") /\ dname' = 0
  /\ UNCHANGED <<run, shown, iname, data, info, client>>

\* Mutant: an info object left over from an earlier run stays.
UnlinkInfoForgotten ==
  /\ Goto("unlinkinfo", "createdata")
  /\ UNCHANGED <<run, shown, dname, iname, data, info, client>>

UnlinkInfo ==
  /\ Goto("unlinkinfo", "createdata") /\ iname' = 0
  /\ UNCHANGED <<run, shown, dname, data, info, client>>

CreateData ==
  /\ Goto("createdata", "sizedata") /\ dname' = run
  /\ UNCHANGED <<run, shown, iname, data, info, client>>

\* Mutant: the padding of a pixel is forgotten.
SizeDataUnpadded ==
  /\ Goto("sizedata", "mapdata")
  /\ data' = [data EXCEPT ![run] =
                shown[run].pixels * (shown[run].depth \div 8)]
  /\ UNCHANGED <<run, shown, dname, iname, info, client>>

SizeData ==
  /\ Goto("sizedata", "mapdata")
  /\ data' = [data EXCEPT ![run] = Size(shown[run])]
  /\ UNCHANGED <<run, shown, dname, iname, info, client>>

\* mmap, mlock and memset.  What mlock pins has no effect on the contents.
MapData ==
  /\ Goto("mapdata", "createinfo")
  /\ UNCHANGED <<run, shown, dname, iname, data, info, client>>

CreateInfo ==
  /\ Goto("createinfo", "sizeinfo") /\ iname' = run
  /\ UNCHANGED <<run, shown, dname, data, info, client>>

SizeInfo ==
  /\ Goto("sizeinfo", "write") /\ info' = [info EXCEPT ![run] = "zero"]
  /\ UNCHANGED <<run, shown, dname, iname, data, client>>

\* *fb_info_sync = _global_fb, a copy of a struct that clients can read in
\* the middle of.
WriteInfo ==
  /\ \/ Goto("write", "written") /\ info' = [info EXCEPT ![run] = "partial"]
     \/ Goto("written", "loop") /\ info' = [info EXCEPT ![run] = "full"]
  /\ UNCHANGED <<run, shown, dname, iname, data, client>>

\* A call fails, the X server goes away (xlib_io_error_handler) or the unit
\* is stopped.  Both objects keep their names.
End ==
  /\ srv \notin {"off", "ended"} /\ srv' = "ended"
  /\ UNCHANGED <<run, shown, dname, iname, data, info, client>>

Serve ==
  \/ UnlinkData \/ UnlinkInfo \/ CreateData \/ SizeData \/ MapData
  \/ CreateInfo \/ SizeInfo \/ WriteInfo

-----------------------------------------------------------------------------
(* A client's drawing call.                                                *)

\* The screen a client reads in the fields of info object i: none before the
\* struct is written, none or the server's while it is.
Field(i) ==
  CASE info[i] = "full"    -> {shown[i]}
    [] info[i] = "partial" -> {NoScreen, shown[i]}
    [] OTHER               -> {NoScreen}

\* shm_open and mmap of the info object; a call without one draws nothing.
OpenInfo(c) ==
  /\ pc[c] = "idle" /\ iname # 0
  /\ pc' = [pc EXCEPT ![c] = "opendata"]
  /\ ci' = [ci EXCEPT ![c] = iname]
  /\ seen' = [seen EXCEPT ![c] = info[iname]]
  /\ UNCHANGED <<cd, len, server>>

\* Mutant: the data object of an earlier call is used again.
OpenDataKept(c) ==
  /\ pc[c] = "opendata"
  /\ LET d == IF cd[c] # 0 THEN cd[c] ELSE dname
     IN  /\ pc' = [pc EXCEPT ![c] = IF d # 0 THEN "map" ELSE "idle"]
         /\ cd' = [cd EXCEPT ![c] = d]
  /\ UNCHANGED <<seen, ci, len, server>>

OpenData(c) ==
  /\ pc[c] = "opendata"
  /\ \/ /\ dname # 0
        /\ pc' = [pc EXCEPT ![c] = "map"]
        /\ cd' = [cd EXCEPT ![c] = dname]
     \/ /\ dname = 0
        /\ pc' = [pc EXCEPT ![c] = "idle"] /\ UNCHANGED cd
  /\ UNCHANGED <<seen, ci, len, server>>

\* b_size is read from the info object (SIGBUS if that has no size) and that
\* much of the data object is mapped; a failure of mmap is not noticed.
Map(c) ==
  /\ pc[c] = "map"
  /\ \/ /\ info[ci[c]] = "unsized"
        /\ pc' = [pc EXCEPT ![c] = "fault"] /\ UNCHANGED len
     \/ /\ info[ci[c]] # "unsized"
        /\ pc' = [pc EXCEPT ![c] = "draw"]
        /\ \E s \in Field(ci[c]) : len' = [len EXCEPT ![c] = Size(s)]
  /\ UNCHANGED <<seen, ci, cd, server>>

\* The frame-buffer routine clips to the width and height it reads now, and
\* stores in some prefix of what they allow.  Beyond the mapping that may be
\* SIGSEGV, beyond the object SIGBUS: a last page may hide it.
Draw(c) ==
  /\ pc[c] = "draw"
  /\ \E s \in Field(ci[c]) : \E n \in 0..Reach(s) :
       \/ pc' = [pc EXCEPT ![c] = "release"]
       \/ /\ n > len[c] \/ n > data[cd[c]]
          /\ pc' = [pc EXCEPT ![c] = "fault"]
  /\ UNCHANGED <<seen, ci, cd, len, server>>

Release(c) ==
  /\ pc[c] = "release"
  /\ pc' = [pc EXCEPT ![c] = "idle"]
  /\ UNCHANGED <<seen, ci, cd, len, server>>

ClientStep(c) ==
  OpenInfo(c) \/ OpenData(c) \/ Map(c) \/ Draw(c) \/ Release(c)

Next == Start \/ Serve \/ End \/ \E c \in Clients : ClientStep(c)

Spec == Init /\ [][Next]_vars

-----------------------------------------------------------------------------
(* Server, objects and clients are in states the code can bring them to;   *)
(* a frame buffer that has a size has that of its run's screen.            *)
TypeOK ==
  /\ srv \in {"off", "unlinkdata", "unlinkinfo", "createdata", "sizedata",
              "mapdata", "createinfo", "sizeinfo", "write", "written", "loop",
              "ended"}
  /\ run \in 0..MaxRuns
  /\ shown \in [Runs -> Screens \union {NoScreen}]
  /\ dname \in 0..MaxRuns /\ iname \in 0..MaxRuns
  /\ data \in [Runs -> Nat]
  /\ \A r \in Runs : data[r] \in {0, Size(shown[r])}
  /\ info \in [Runs -> InfoStates]
  /\ pc \in [Clients -> {"idle", "opendata", "map", "draw", "release",
                         "fault"}]
  /\ seen \in [Clients -> InfoStates]
  /\ ci \in [Clients -> 0..MaxRuns] /\ cd \in [Clients -> 0..MaxRuns]
  /\ len \in [Clients -> Nat]

\* A client that finds both objects finds those of one run, and pixels of
\* the size the fb_info describes: both names are removed before either is
\* made again, and the info comes last.
NamesAreOneBuffer ==
  iname # 0 /\ dname # 0 => iname = dname /\ data[dname] = Size(shown[iname])

\* A client may find the objects of two runs when it opens them one after the
\* other, but never pixels of an earlier run than its fb_info.
InfoIsNotNewer ==
  \A c \in Clients :
    pc[c] \in {"map", "draw", "release"} => ci[c] =< cd[c]

\* A client is killed in a drawing call only if it opened an fb_info that the
\* server had not written yet, or one whose server was replaced meanwhile, or
\* if the screen has fewer than 24 bits per pixel, where stores of four bytes
\* pass the end of a buffer of three-byte pixels.
FaultHasCause ==
  \A c \in Clients : pc[c] = "fault" =>
    seen[c] # "full" \/ ci[c] < run \/ shown[ci[c]].depth < 24
=============================================================================
