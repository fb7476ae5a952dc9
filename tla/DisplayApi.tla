----------------------------- MODULE DisplayApi -----------------------------
(***************************************************************************)
(* The drawing calls of display_api.c as the threads of one client process *)
(* make them.  display_draw_image, display_set_pixel, display_clear_screen *)
(* and display_fill_screen differ in the driver routine they call and in   *)
(* nothing else.  Without a driver, or with one that lacks the routine, a  *)
(* call does nothing, which is a stuttering step.                          *)
(***************************************************************************)
EXTENDS Naturals, FiniteSets

CONSTANTS
  Threads,   \* the threads of the process
  Callbacks  \* what callers pass as cb: "fn" a function, "null" NULL

ASSUME CallbacksAssumption == Callbacks \subseteq {"fn", "null"}

VARIABLES
  pc,    \* per thread: "idle", "lock", "draw", "unlock", "report"
  flag,  \* per thread: "wait", or "wno" for DISPLAY_WNO
  cb,    \* per thread: the callback of the call it is in
  owner  \* who acquired the mutex: no thread or one

vars == <<pc, flag, cb, owner>>

Init ==
  /\ pc = [t \in Threads |-> "idle"]
  /\ flag = [t \in Threads |-> "wait"]
  /\ cb = [t \in Threads |-> "fn"]
  /\ owner = {}

Goto(t, here, there) == pc[t] = here /\ pc' = [pc EXCEPT ![t] = there]

Call(t) ==
  /\ Goto(t, "idle", "lock")
  /\ \E f \in {"wait", "wno"} : flag' = [flag EXCEPT ![t] = f]
  /\ \E c \in Callbacks : cb' = [cb EXCEPT ![t] = c]
  /\ UNCHANGED owner

\* Mutant: two threads find the mutex free at once.
AcquireTorn(t) ==
  /\ Cardinality(owner) < 2 /\ owner' = owner \union {t}
  /\ Goto(t, "lock", "draw")
  /\ UNCHANGED <<flag, cb>>

\* pthread_mutex_lock or pthread_mutex_trylock gets the mutex: status is 0.
Acquire(t) ==
  /\ owner = {} /\ owner' = {t}
  /\ Goto(t, "lock", "draw")
  /\ UNCHANGED <<flag, cb>>

\* Mutant: the flag is tested the wrong way round.
BusyInverted(t) ==
  /\ flag[t] = "wait" /\ owner # {}
  /\ \/ cb[t] = "fn" /\ Goto(t, "lock", "report")
     \/ cb[t] = "null" /\ Goto(t, "lock", "draw")
  /\ UNCHANGED <<flag, cb, owner>>

\* Mutant: a refused call that has reported goes on to draw.
BusyFallsThrough(t) ==
  /\ flag[t] = "wno" /\ owner # {}
  /\ Goto(t, "lock", "draw")
  /\ UNCHANGED <<flag, cb, owner>>

\* trylock finds the mutex taken; the test on the status also asks for a
\* callback, and a call without one goes on to the driver.
Busy(t) ==
  /\ flag[t] = "wno" /\ owner # {}
  /\ \/ cb[t] = "fn" /\ Goto(t, "lock", "report")
     \/ cb[t] = "null" /\ Goto(t, "lock", "draw")
  /\ UNCHANGED <<flag, cb, owner>>

\* Mutant: a refused call reports and tries again.
ReportRetries(t) == Goto(t, "report", "lock") /\ UNCHANGED <<flag, cb, owner>>

Report(t) == Goto(t, "report", "idle") /\ UNCHANGED <<flag, cb, owner>>

\* The driver's routine returns.
Draw(t) == Goto(t, "draw", "unlock") /\ UNCHANGED <<flag, cb, owner>>

\* Mutant: the call returns without unlocking.
UnlockForgotten(t) == Goto(t, "unlock", "idle") /\ UNCHANGED <<flag, cb, owner>>

\* A default mutex does not check who unlocks it.
Unlock(t) ==
  /\ Goto(t, "unlock", "idle")
  /\ owner' = {}
  /\ UNCHANGED <<flag, cb>>

\* What a thread does once it is in a call.
Step(t) == Acquire(t) \/ Busy(t) \/ Report(t) \/ Draw(t) \/ Unlock(t)

Next == \E t \in Threads : Call(t) \/ Step(t)

Spec == Init /\ [][Next]_vars

-----------------------------------------------------------------------------
(* Threads are at a point of a drawing call, and at most one thread has    *)
(* the mutex.                                                              *)
TypeOK ==
  /\ pc \in [Threads -> {"idle", "lock", "draw", "unlock", "report"}]
  /\ flag \in [Threads -> {"wait", "wno"}]
  /\ cb \in [Threads -> {"fn", "null"}]
  /\ owner \subseteq Threads /\ Cardinality(owner) =< 1

InDriver(t) == pc[t] \in {"draw", "unlock"}

\* The driver draws for one thread at a time, and that thread has the mutex.
DrawUnderLock == \A t \in Threads : InDriver(t) => owner = {t}

\* Whoever has the mutex is on its way to unlock it: no call that was refused
\* or has returned keeps it from the others.
MutexHasHolder == \A t \in Threads : owner = {t} => InDriver(t)

\* The scheduler runs a thread that is in a call.  Which of the waiting
\* threads gets the mutex is up to the kernel.
Scheduled(t) == WF_vars(Step(t))

\* If every thread is scheduled, some thread draws after a call that waits
\* for the mutex has come: no path through a call, refused or not, keeps it.
MutexIsHandedOn ==
  (\A t \in Threads : Scheduled(t)) =>
    ((\E t \in Threads : pc[t] = "lock" /\ flag[t] = "wait")
       ~> (\E t \in Threads : pc[t] = "draw"))

\* A DISPLAY_WNO call of a thread that is scheduled gets the mutex or returns
\* even if another thread never comes back from its driver.
NonBlockingReturns ==
  \A t \in Threads : Scheduled(t) =>
    ((pc[t] = "lock" /\ flag[t] = "wno") ~> (pc[t] = "idle" \/ owner = {t}))
=============================================================================
