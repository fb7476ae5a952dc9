---------------------- MODULE SharedFrameBufferProofs -----------------------
(***************************************************************************)
(* Proofs about SharedFrameBuffer, for any clients, screen sizes and       *)
(* number of display managers.                                             *)
(***************************************************************************)
EXTENDS SharedFrameBuffer, TLAPS

\* Where the server is decides which of the names exist, and how far the
\* fb_info of its run is written.
NamesInv ==
  /\ run = 0 => srv = "off"
  /\ srv = "off" => run = 0 /\ dname = 0 /\ iname = 0
  /\ dname =< run /\ iname =< run
  /\ srv \in {"unlinkinfo", "createdata"} => dname = 0
  /\ srv \in {"createdata", "sizedata", "mapdata", "createinfo"} => iname = 0
  /\ srv \in {"sizedata", "mapdata", "createinfo", "sizeinfo", "write", "written",
              "loop"} => dname = run
  /\ srv \in {"sizeinfo", "write", "written", "loop"} => iname = run

InfoInv ==
  /\ srv \in {"unlinkdata", "unlinkinfo", "createdata", "sizedata", "mapdata",
              "createinfo", "sizeinfo"} => info[run] = "unsized"
  /\ srv = "write" => info[run] = "zero"
  /\ srv = "written" => info[run] = "partial"
  /\ srv \in {"mapdata", "createinfo", "sizeinfo", "write", "written", "loop"}
       => data[run] = Size(shown[run])
  /\ \A r \in Runs : r > run => info[r] = "unsized" /\ data[r] = 0
  /\ run > 0 /\ info[run] = "full" => /\ srv \in {"loop", "ended"}
                                      /\ dname = run /\ iname = run
                                      /\ data[run] = Size(shown[run])

\* A client in a call has mapped the fb_info of a run that was started.
OpenInv == \A c \in Clients : pc[c] # "idle" => ci[c] > 0 /\ ci[c] =< run

ObjectInv == NamesInv /\ InfoInv /\ OpenInv /\ NamesAreOneBuffer

\* A client that opened a written fb_info of the run that is still the last
\* one holds that run's whole buffer.
ClientInv ==
  \A c \in Clients :
    /\ pc[c] \in {"map", "draw", "release"} => cd[c] > 0 /\ cd[c] =< run
    /\ pc[c] # "idle" /\ seen[c] = "full" => info[ci[c]] = "full"
    /\ pc[c] \in {"map", "draw"} /\ seen[c] = "full" /\ ci[c] = run
         => cd[c] = run
    /\ pc[c] = "draw" /\ seen[c] = "full" /\ ci[c] = run
         => len[c] = Size(shown[run])

\* The size of a buffer is a number of bytes, and from 24 bits per pixel on
\* no store reaches past it.
LEMMA SizeAndReach ==
  ASSUME NEW s \in Screens \union {NoScreen}
  PROVE  /\ s.depth \in Nat /\ Size(s) \in Nat /\ Reach(s) \in Nat
         /\ s.depth >= 24 => Reach(s) = Size(s)
<1>1. s.pixels \in Nat /\ s.depth \in Nat
  BY FrameBufferAssumption DEF FrameBufferAssumption, NoScreen
<1>2. BytesPerPixel(s) \in Nat /\ (s.depth >= 24 => BytesPerPixel(s) >= 4)
  BY <1>1 DEF BytesPerPixel
<1>3. \A n \in Nat : s.pixels * n \in Nat
  BY <1>1
<1>. QED
  BY <1>1, <1>2, <1>3 DEF Size, Reach

\* The numbers of the run and of a client's fb_info are those of objects.
LEMMA Indices ==
  ASSUME TypeOK, ObjectInv
  PROVE  /\ srv # "off" => run \in Runs /\ Size(shown[run]) \in Nat
         /\ \A c \in Clients : pc[c] # "idle" => ci[c] \in Runs
<1> USE FrameBufferAssumption DEF FrameBufferAssumption, Runs
<1>1. run \in 0..MaxRuns /\ shown \in [Runs -> Screens \union {NoScreen}]
  BY DEF TypeOK
<1>2. ASSUME srv # "off" PROVE run \in Runs /\ Size(shown[run]) \in Nat
  <2>1. run # 0
    BY <1>2 DEF ObjectInv, NamesInv
  <2>2. run \in Runs
    BY <1>1, <2>1
  <2>3. shown[run] \in Screens \union {NoScreen}
    BY <1>1, <2>2
  <2>. QED
    BY <2>2, <2>3, SizeAndReach
<1>3. ASSUME NEW c \in Clients, pc[c] # "idle" PROVE ci[c] \in Runs
  <2>1. ci[c] \in 0..MaxRuns
    BY DEF TypeOK
  <2>2. ci[c] > 0
    BY <1>3 DEF ObjectInv, OpenInv
  <2>. QED
    BY <2>1, <2>2
<1>. QED
  BY <1>2, <1>3

\* What a client reads in an fb_info is a screen or nothing, and once the
\* fb_info is written it is the screen of its run.
LEMMA FieldIsScreen ==
  ASSUME TypeOK, NEW i \in Runs
  PROVE  /\ Field(i) \subseteq Screens \union {NoScreen}
         /\ info[i] = "full" => Field(i) = {shown[i]}
  BY DEF TypeOK, Field, Runs, InfoStates

-----------------------------------------------------------------------------
(* Types, and the two objects of a run, are kept by every step.            *)
LEMMA ObjectInvariant == Spec => [](TypeOK /\ ObjectInv)
<1> USE FrameBufferAssumption
    DEF FrameBufferAssumption, TypeOK, Runs, InfoStates
<1>1. Init => TypeOK /\ ObjectInv
  BY DEF Init, ObjectInv, NamesInv, InfoInv, OpenInv,
         NamesAreOneBuffer
<1>2. TypeOK /\ ObjectInv /\ [Next]_vars => TypeOK'
  <2> SUFFICES ASSUME TypeOK, ObjectInv, [Next]_vars PROVE TypeOK'
    OBVIOUS
  <2> USE DEF vars, server, client, ObjectInv, NamesInv, InfoInv, OpenInv
  <2>1. CASE Start
    BY <2>1 DEF Start
  <2>2. CASE UnlinkData
    BY <2>2 DEF UnlinkData, Goto
  <2>3. CASE UnlinkInfo
    BY <2>3 DEF UnlinkInfo, Goto
  <2>4. CASE CreateData
    BY <2>4 DEF CreateData, Goto
  <2>5. CASE SizeData
    <3>1. run \in Runs /\ Size(shown[run]) \in Nat
      BY <2>5, Indices DEF SizeData, Goto
    <3>2. data' \in [Runs -> Nat]
      BY <2>5, <3>1 DEF SizeData, Goto
    <3>3. \A r \in Runs : data'[r] \in {0, Size(shown'[r])}
      BY <2>5, <3>1 DEF SizeData, Goto
    <3>. QED
      BY <2>5, <3>2, <3>3 DEF SizeData, Goto
  <2>6. CASE MapData
    BY <2>6 DEF MapData, Goto
  <2>7. CASE CreateInfo
    BY <2>7 DEF CreateInfo, Goto
  <2>8. CASE SizeInfo
    BY <2>8 DEF SizeInfo, Goto
  <2>9. CASE WriteInfo
    BY <2>9 DEF WriteInfo, Goto
  <2>10. CASE End
    BY <2>10 DEF End
  <2>11. ASSUME NEW c \in Clients, OpenInfo(c) PROVE TypeOK'
    BY <2>11 DEF OpenInfo
  <2>12. ASSUME NEW c \in Clients, OpenData(c) PROVE TypeOK'
    <3>1. cd' \in [Clients -> 0..MaxRuns]
      BY <2>12 DEF OpenData
    <3>2. pc' \in [Clients -> {"idle", "opendata", "map", "draw", "release",
                               "fault"}]
      BY <2>12 DEF OpenData
    <3>. QED
      BY <2>12, <3>1, <3>2 DEF OpenData
  <2>13. ASSUME NEW c \in Clients, Map(c) PROVE TypeOK'
    <3>1. ci[c] \in Runs
      BY <2>13, Indices DEF Map
    <3>2. \A f \in Field(ci[c]) : Size(f) \in Nat
      BY <3>1, FieldIsScreen, SizeAndReach
    <3>4. len' \in [Clients -> Nat]
      BY <2>13, <3>2 DEF Map
    <3>3. pc' \in [Clients -> {"idle", "opendata", "map", "draw", "release",
                               "fault"}]
      BY <2>13 DEF Map
    <3>. QED
      BY <2>13, <3>3, <3>4 DEF Map
  <2>14. ASSUME NEW c \in Clients, Draw(c) PROVE TypeOK'
    BY <2>14 DEF Draw
  <2>15. ASSUME NEW c \in Clients, Release(c) PROVE TypeOK'
    BY <2>15 DEF Release
  <2>16. CASE UNCHANGED vars
    BY <2>16
  <2>. QED
    BY <2>1, <2>2, <2>3, <2>4, <2>5, <2>6, <2>7, <2>8, <2>9, <2>10,
       <2>11, <2>12, <2>13, <2>14, <2>15, <2>16
       DEF Next, Serve, ClientStep
<1>3. TypeOK /\ TypeOK' /\ ObjectInv /\ [Next]_vars => ObjectInv'
  <2> SUFFICES ASSUME TypeOK, TypeOK', ObjectInv, [Next]_vars
               PROVE  ObjectInv'
    OBVIOUS
  <2> USE DEF vars, server, client, ObjectInv, NamesInv, InfoInv,
              OpenInv, NamesAreOneBuffer
  <2>1. CASE Start
    BY <2>1 DEF Start
  <2>2. CASE UnlinkData
    BY <2>2 DEF UnlinkData, Goto
  <2>3. CASE UnlinkInfo
    BY <2>3 DEF UnlinkInfo, Goto
  <2>4. CASE CreateData
    BY <2>4 DEF CreateData, Goto
  <2>5. CASE SizeData
    BY <2>5 DEF SizeData, Goto
  <2>6. CASE MapData
    BY <2>6 DEF MapData, Goto
  <2>7. CASE CreateInfo
    BY <2>7 DEF CreateInfo, Goto
  <2>8. CASE SizeInfo
    BY <2>8 DEF SizeInfo, Goto
  <2>9. CASE WriteInfo
    BY <2>9 DEF WriteInfo, Goto
  <2>10. CASE End
    BY <2>10 DEF End
  <2>11. ASSUME NEW c \in Clients, OpenInfo(c) PROVE ObjectInv'
    BY <2>11 DEF OpenInfo
  <2>12. ASSUME NEW c \in Clients, OpenData(c) PROVE ObjectInv'
    BY <2>12 DEF OpenData
  <2>13. ASSUME NEW c \in Clients, Map(c) PROVE ObjectInv'
    BY <2>13 DEF Map
  <2>14. ASSUME NEW c \in Clients, Draw(c) PROVE ObjectInv'
    BY <2>14 DEF Draw
  <2>15. ASSUME NEW c \in Clients, Release(c) PROVE ObjectInv'
    BY <2>15 DEF Release
  <2>16. CASE UNCHANGED vars
    BY <2>16
  <2>. QED
    BY <2>1, <2>2, <2>3, <2>4, <2>5, <2>6, <2>7, <2>8, <2>9, <2>10,
       <2>11, <2>12, <2>13, <2>14, <2>15, <2>16
       DEF Next, Serve, ClientStep
<1>. QED
  BY <1>1, <1>2, <1>3, PTL DEF Spec, ObjectInv

(* Server, objects and clients are always in states of the code; a frame   *)
(* buffer that has a size has that of its run's screen.                    *)
THEOREM TypeCorrect == Spec => []TypeOK
  BY ObjectInvariant, PTL

(* A client that finds both objects finds those of one run, and pixels of  *)
(* the size the fb_info describes (xlib_run unlinks both first and makes   *)
(* the info last).                                                         *)
THEOREM OneBuffer == Spec => []NamesAreOneBuffer
  BY ObjectInvariant, PTL DEF ObjectInv

-----------------------------------------------------------------------------
(* What a client holds while it is in a drawing call.                      *)

\* A client that has a whole fb_info of the running server stays within the
\* buffer, and draws without changing what it holds.
LEMMA DrawKeeps ==
  ASSUME TypeOK, ObjectInv, ClientInv, FaultHasCause, NEW c \in Clients, Draw(c)
  PROVE  (ClientInv /\ FaultHasCause)'
<1> USE FrameBufferAssumption DEF FrameBufferAssumption
<1>1. ci[c] \in Runs /\ pc[c] = "draw"
  BY Indices DEF Draw
<1>2. run \in Nat /\ ci[c] \in Nat /\ ci[c] =< run
  BY <1>1 DEF TypeOK, Runs, ObjectInv, OpenInv
<1>3. PICK f \in Field(ci[c]) : \E n \in 0..Reach(f) :
        \/ pc' = [pc EXCEPT ![c] = "release"]
        \/ /\ n > len[c] \/ n > data[cd[c]]
           /\ pc' = [pc EXCEPT ![c] = "fault"]
  BY DEF Draw
<1>4. shown[ci[c]] \in Screens \union {NoScreen}
  BY <1>1 DEF TypeOK
<1>5. pc \in [Clients -> {"idle", "opendata", "map", "draw", "release", "fault"}]
  BY DEF TypeOK
<1>6. ASSUME seen[c] = "full", ci[c] = run, shown[run].depth >= 24
      PROVE  pc'[c] = "release"
  <2>1. info[run] = "full" /\ cd[c] = run /\ len[c] = Size(shown[run])
    BY <1>1, <1>6 DEF ClientInv
  <2>2. data[run] = Size(shown[run]) /\ Size(shown[run]) \in Nat
    <3>1. run > 0 /\ run \in Runs
      BY <1>1, <1>2, <1>6 DEF Runs
    <3>2. data[run] = Size(shown[run])
      BY <2>1, <3>1 DEF ObjectInv, InfoInv
    <3>. QED
      BY <3>1, <3>2 DEF TypeOK
  <2>3. Field(ci[c]) = {shown[ci[c]]}
    BY <1>1, <1>6, <2>1, FieldIsScreen
  <2>4. Reach(f) = Size(shown[run])
    BY <1>3, <1>4, <1>6, <2>3, SizeAndReach
  <2>. QED
    BY <1>3, <1>5, <2>1, <2>2, <2>4
<1>7. pc'[c] \in {"release", "fault"}
  BY <1>3, <1>5
<1>8. \A d \in Clients \ {c} : pc'[d] = pc[d]
  BY DEF Draw, TypeOK
<1>9. UNCHANGED <<seen, ci, cd, len, run, shown, info>>
  BY DEF Draw, server
<1>10. FaultHasCause'
  <2>1. shown[ci[c]].depth \in Nat
    BY <1>4, SizeAndReach
  <2>2. pc'[c] = "fault" =>
          seen[c] # "full" \/ ci[c] < run \/ shown[ci[c]].depth < 24
    BY <1>2, <1>6, <2>1
  <2>. QED
    BY <1>8, <1>9, <2>2 DEF FaultHasCause
<1>11. ClientInv'
  BY <1>1, <1>7, <1>8, <1>9 DEF ClientInv
<1>. QED
  BY <1>10, <1>11

\* Each step keeps it, and a client faults only with a cause.
LEMMA ClientInvariant == Spec => [](ClientInv /\ FaultHasCause)
<1> USE FrameBufferAssumption
    DEF FrameBufferAssumption, TypeOK, Runs, InfoStates, ClientInv,
        FaultHasCause
<1>1. Init => ClientInv /\ FaultHasCause
  BY DEF Init
<1>2. /\ TypeOK /\ TypeOK' /\ ObjectInv /\ ClientInv
      /\ FaultHasCause /\ [Next]_vars
      => (ClientInv /\ FaultHasCause)'
  <2> SUFFICES ASSUME TypeOK, TypeOK', ObjectInv, ClientInv,
                      FaultHasCause, [Next]_vars
               PROVE  (ClientInv /\ FaultHasCause)'
    OBVIOUS
  <2> USE DEF vars, server, client, ObjectInv, NamesInv, InfoInv, OpenInv
  <2>1. CASE Start
    BY <2>1 DEF Start
  <2>2. CASE UnlinkData
    BY <2>2 DEF UnlinkData, Goto
  <2>3. CASE UnlinkInfo
    BY <2>3 DEF UnlinkInfo, Goto
  <2>4. CASE CreateData
    BY <2>4 DEF CreateData, Goto
  <2>5. CASE SizeData
    BY <2>5 DEF SizeData, Goto
  <2>6. CASE MapData
    BY <2>6 DEF MapData, Goto
  <2>7. CASE CreateInfo
    BY <2>7 DEF CreateInfo, Goto
  <2>8. CASE SizeInfo
    BY <2>8 DEF SizeInfo, Goto
  <2>9. CASE WriteInfo
    BY <2>9 DEF WriteInfo, Goto
  <2>10. CASE End
    BY <2>10 DEF End
  <2>11. ASSUME NEW c \in Clients, OpenInfo(c)
         PROVE (ClientInv /\ FaultHasCause)'
    <3>1. pc[c] # "fault" /\ pc'[c] # "fault"
      BY <2>11 DEF OpenInfo
    <3>2. \A d \in Clients \ {c} : pc'[d] = pc[d] /\ ci'[d] = ci[d]
      BY <2>11 DEF OpenInfo
    <3>3. FaultHasCause'
      BY <2>11, <3>1, <3>2 DEF OpenInfo
    <3>4. ClientInv'
      BY <2>11 DEF OpenInfo
    <3>. QED
      BY <3>3, <3>4
  <2>12. ASSUME NEW c \in Clients, OpenData(c)
         PROVE (ClientInv /\ FaultHasCause)'
    <3>1. pc[c] # "fault" /\ pc'[c] # "fault"
      BY <2>12 DEF OpenData
    <3>2. \A d \in Clients \ {c} : pc'[d] = pc[d] /\ ci'[d] = ci[d]
      BY <2>12 DEF OpenData
    <3>3. FaultHasCause'
      BY <2>12, <3>1, <3>2 DEF OpenData
    <3>4. ClientInv'
      BY <2>12 DEF OpenData
    <3>. QED
      BY <3>3, <3>4
  <2>13. ASSUME NEW c \in Clients, Map(c)
         PROVE (ClientInv /\ FaultHasCause)'
    <3>1. ci[c] \in Runs
      BY <2>13, Indices DEF Map
    <3>2. info[ci[c]] = "full" => len'[c] = Size(shown[ci[c]])
      BY <2>13, <3>1, FieldIsScreen DEF Map
    <3>3. info[ci[c]] = "full" => pc'[c] = "draw"
      BY <2>13, <3>1 DEF Map
    <3>4. \A d \in Clients \ {c} : pc'[d] = pc[d] /\ len'[d] = len[d]
      BY <2>13 DEF Map
    <3>5. UNCHANGED <<seen, ci, cd, server>>
      BY <2>13 DEF Map
    <3>6. pc'[c] \in {"draw", "fault"} /\ pc[c] = "map"
      BY <2>13 DEF Map
    <3>7. FaultHasCause'
      <4>1. pc'[c] = "fault" => seen[c] # "full"
        BY <3>1, <3>3, <3>6
      <4>. QED
        BY <4>1, <3>4, <3>5
    <3>8. ClientInv'
      <4>1. pc'[c] = "draw" /\ seen'[c] = "full" /\ ci'[c] = run'
              => len'[c] = Size(shown'[run'])
        BY <3>2, <3>5, <3>6
      <4>. QED
        BY <4>1, <3>1, <3>4, <3>5, <3>6
    <3>. QED
      BY <3>7, <3>8
  <2>14. ASSUME NEW c \in Clients, Draw(c)
         PROVE (ClientInv /\ FaultHasCause)'
    BY <2>14, DrawKeeps
  <2>15. ASSUME NEW c \in Clients, Release(c)
         PROVE (ClientInv /\ FaultHasCause)'
    BY <2>15 DEF Release
  <2>16. CASE UNCHANGED vars
    BY <2>16
  <2>. QED
    BY <2>1, <2>2, <2>3, <2>4, <2>5, <2>6, <2>7, <2>8, <2>9, <2>10,
       <2>11, <2>12, <2>13, <2>14, <2>15, <2>16
       DEF Next, Serve, ClientStep
<1>. QED
  BY <1>1, <1>2, ObjectInvariant, PTL DEF Spec

(* A client is killed in a drawing call only if it opened an fb_info not   *)
(* written yet, or one whose server was replaced in the meantime, or the   *)
(* screen has fewer than 24 bits per pixel (four-byte stores).             *)
THEOREM SteadyClientSurvives == Spec => []FaultHasCause
  BY ClientInvariant, PTL

-----------------------------------------------------------------------------
\* A client that has opened an fb_info opens no data object older than it.
OrderInv ==
  \A c \in Clients : pc[c] # "idle" /\ dname # 0 => ci[c] =< dname

(* A client pairs an fb_info with the data object of the same run or of a  *)
(* later one, whatever the server and the client do between the two        *)
(* shm_open calls.                                                         *)
THEOREM InfoIsOlder == Spec => []InfoIsNotNewer
<1> USE FrameBufferAssumption
    DEF FrameBufferAssumption, TypeOK, Runs, InfoStates, OrderInv,
        InfoIsNotNewer
<1>1. Init => OrderInv /\ InfoIsNotNewer
  BY DEF Init
<1>2. TypeOK /\ ObjectInv /\ OrderInv /\ InfoIsNotNewer /\ [Next]_vars
      => OrderInv' /\ InfoIsNotNewer'
  <2> SUFFICES ASSUME TypeOK, ObjectInv, OrderInv, InfoIsNotNewer, [Next]_vars
               PROVE  OrderInv' /\ InfoIsNotNewer'
    OBVIOUS
  <2> USE DEF vars, server, client, ObjectInv, NamesInv, OpenInv,
              NamesAreOneBuffer
  <2>1. CASE Start \/ Serve \/ End
    BY <2>1 DEF Start, Serve, UnlinkData, UnlinkInfo, CreateData, SizeData,
                MapData, CreateInfo, SizeInfo, WriteInfo, End, Goto
  <2>2. ASSUME NEW c \in Clients, OpenInfo(c)
        PROVE  OrderInv' /\ InfoIsNotNewer'
    BY <2>2 DEF OpenInfo
  <2>3. ASSUME NEW c \in Clients, OpenData(c)
        PROVE  OrderInv' /\ InfoIsNotNewer'
    BY <2>3 DEF OpenData
  <2>4. ASSUME NEW c \in Clients, Map(c) \/ Draw(c) \/ Release(c)
        PROVE  OrderInv' /\ InfoIsNotNewer'
    BY <2>4 DEF Map, Draw, Release
  <2>5. CASE UNCHANGED vars
    BY <2>5
  <2>. QED
    BY <2>1, <2>2, <2>3, <2>4, <2>5 DEF Next, ClientStep
<1>. QED
  BY <1>1, <1>2, ObjectInvariant, PTL DEF Spec
=============================================================================
