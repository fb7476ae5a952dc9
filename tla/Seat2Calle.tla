----------------------------- MODULE Seat2Calle -----------------------------
(***************************************************************************)
(* seat2_calle: creates the shared semaphore, signals seat1, listens, reads *)
(* the display number and becomes the display manager on that display.     *)
(***************************************************************************)
EXTENDS SeatShared

Start2 ==
  /\ pc2 \in Ended /\ starts2 < MaxStarts
  /\ pc2' = "unlink" /\ starts2' = starts2 + 1
  /\ UNCHANGED <<sig2, found, tries, id2, seat1, stream, region, faults>>

Goto2(here, there) == pc2 = here /\ pc2' = there

\* stat and shm_unlink of a leftover object.
Unlink2 ==
  /\ Goto2("unlink", "create")
  /\ name' = 0
  /\ UNCHANGED <<starts2, sig2, found, tries, id2, seat1, stream, sem, faults>>

\* shm_open with O_CREAT: an object of size zero.
Create2 ==
  /\ Goto2("create", "size")
  /\ name' = starts2 /\ sem' = [sem EXCEPT ![starts2] = "unsized"]
  /\ UNCHANGED <<starts2, sig2, found, tries, id2, seat1, stream, faults>>

\* Mutant: seat1 is signalled before the semaphore is stored.
Size2Signals ==
  /\ Goto2("size", "find")
  /\ sem' = [sem EXCEPT ![starts2] = "zeroed"] /\ sig2' = "USR2"
  /\ UNCHANGED <<starts2, found, tries, id2, seat1, stream, name, faults>>

Size2 ==
  /\ Goto2("size", "init")
  /\ sem' = [sem EXCEPT ![starts2] = "zeroed"]
  /\ UNCHANGED <<starts2, sig2, found, tries, id2, seat1, stream, name,
                 faults>>

\* sync_region->sync_state = sem.  The copy overwrites the waiter count, so a
\* seat1 that already sleeps on the zeroed semaphore is no longer woken.
Init2 ==
  /\ Goto2("init", "find")
  /\ sem' = [sem EXCEPT ![starts2] = "ready"] /\ sig2' = "USR2"
  /\ \/ UNCHANGED pc1
     \/ pc1 = "semwait" /\ map1 = starts2 /\ pc1' = "deaf"
  /\ UNCHANGED <<starts2, found, tries, id2, starts1, dir, blocked, pend,
                 waits, map1, xst, nid, stream, name, faults>>

\* stat, shm_open or ftruncate fails: seat2 reports it to seat1.
Report2 ==
  /\ Fault
  /\ pc2 \in {"unlink", "create", "size"} /\ pc2' = "find"
  /\ sig2' = "USR1"
  /\ UNCHANGED <<starts2, found, tries, id2, seat1, stream, region>>

\* Mutant: one search too many.
Find2Again ==
  /\ pc2 = "find"
  /\ \/ /\ Alive1
        /\ pc2' = "kill" /\ found' = starts1
        /\ UNCHANGED <<sig2, tries, id2, stream>>
     \/ /\ ~Alive1 /\ tries < RETRY_COUNT
        /\ tries' = tries + 1
        /\ UNCHANGED <<pc2, sig2, found, id2, stream>>
     \/ /\ ~Alive1 /\ tries = RETRY_COUNT
        /\ Exit2("failed")
  /\ UNCHANGED <<starts2, seat1, region, faults>>

\* find_pid_by_name("seat1_calle"), up to RETRY_COUNT times.
Find2 ==
  /\ pc2 = "find"
  /\ \/ /\ Alive1
        /\ pc2' = "kill" /\ found' = starts1
        /\ UNCHANGED <<sig2, tries, id2, stream>>
     \/ /\ ~Alive1 /\ tries + 1 < RETRY_COUNT
        /\ tries' = tries + 1
        /\ UNCHANGED <<pc2, sig2, found, id2, stream>>
     \/ /\ ~Alive1 /\ tries + 1 = RETRY_COUNT
        /\ Exit2("failed")
  /\ UNCHANGED <<starts2, seat1, region, faults>>

\* kill, whose result is ignored: the process found may be gone.
Kill2 ==
  /\ pc2 = "kill"
  /\ \/ found = starts1 /\ Alive1 /\ Deliver(sig2)
     \/ (found # starts1 \/ ~Alive1)
        /\ UNCHANGED <<pc1, blocked, pend, waits, map1, xst, nid, conn>>
  /\ pc2' = IF sig2 = "USR2" THEN "listen" ELSE "abort"
  /\ UNCHANGED <<starts1, dir, starts2, sig2, found, tries, id2, listener,
                 wire, region, faults>>

\* After an error signal receive_display_id returns 1, and so does main.
Abort2 ==
  /\ pc2 = "abort"
  /\ Exit2("failed")
  /\ UNCHANGED <<starts2, seat1, region, faults>>

\* Mutant: sem_post comes before listen.
Listen2PostsFirst ==
  /\ Goto2("listen", "post")
  /\ sem' = [sem EXCEPT ![starts2] = "posted"]
  /\ UNCHANGED <<starts2, sig2, found, tries, id2, seat1, stream, name,
                 faults>>

\* socket, unlink, bind and listen.  bind fails as long as no seat1 has made
\* the directory of SOCKET_PATH.
Listen2 ==
  /\ pc2 = "listen"
  /\ \/ /\ dir
        /\ pc2' = "post" /\ listener' = starts2
        /\ UNCHANGED <<sig2, found, tries, id2, conn, wire>>
     \/ /\ ~dir
        /\ Exit2("failed")
  /\ UNCHANGED <<starts2, seat1, region, faults>>

\* Mutant: no sem_post.
Post2Missing ==
  /\ Goto2("post", "accept")
  /\ UNCHANGED <<starts2, sig2, found, tries, id2, seat1, stream, region,
                 faults>>

Post2 ==
  /\ Goto2("post", "accept")
  /\ sem' = [sem EXCEPT ![starts2] = "posted"]
  /\ UNCHANGED <<starts2, sig2, found, tries, id2, seat1, stream, name,
                 faults>>

\* Mutant: the read does not wait for the other end.
Receive2NonBlocking ==
  /\ Goto2("accept", "exec")
  /\ \/ conn = "sent" /\ id2' = wire
     \/ conn \in {"open", "eof"} /\ id2' = NoId
  /\ conn' = "none" /\ wire' = NoId /\ listener' = 0
  /\ UNCHANGED <<starts2, sig2, found, tries, seat1, region, faults>>

\* accept and read, blocking until seat1 wrote or went away; an empty read is
\* not an error.  Both sockets are closed.
Receive2 ==
  /\ Goto2("accept", "exec")
  /\ \/ conn = "sent" /\ id2' = wire
     \/ conn = "eof" /\ id2' = NoId
  /\ conn' = "none" /\ wire' = NoId /\ listener' = 0
  /\ UNCHANGED <<starts2, sig2, found, tries, seat1, region, faults>>

\* setenv DISPLAY and execv of the display manager.
Exec2 ==
  /\ Goto2("exec", "display")
  /\ UNCHANGED <<starts2, sig2, found, tries, id2, seat1, stream, region,
                 faults>>

\* A call fails after the error signal was the way to report it (mmap, whose
\* result is not checked, faults in the assignment): seat1 is not told.
Fail2 ==
  /\ Fault
  /\ pc2 \in {"init", "listen", "accept", "exec"}
  /\ Exit2("failed")
  /\ UNCHANGED <<starts2, seat1, region>>

\* systemctl stop, also of the display manager seat2 has become.
Stop2 ==
  /\ Fault
  /\ Alive2
  /\ Exit2("killed")
  /\ UNCHANGED <<starts2, seat1, region>>

Seat2Step ==
  \/ Unlink2 \/ Create2 \/ Size2 \/ Init2 \/ Find2 \/ Kill2 \/ Abort2
  \/ Listen2 \/ Post2 \/ Receive2 \/ Exec2

Seat2Environment == Start2 \/ Report2 \/ Fail2 \/ Stop2
=============================================================================
