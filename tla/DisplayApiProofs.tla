------------------------- MODULE DisplayApiProofs ---------------------------
(***************************************************************************)
(* Proofs about DisplayApi, for any set of threads.                        *)
(***************************************************************************)
EXTENDS DisplayApi, TLAPS, FiniteSetTheorems

(* Threads are at a point of a call and at most one has the mutex.         *)
THEOREM TypeCorrect == Spec => []TypeOK
<1> USE CallbacksAssumption DEF CallbacksAssumption, TypeOK
<1>1. Init => TypeOK
  BY FS_EmptySet DEF Init
<1>2. TypeOK /\ [Next]_vars => TypeOK'
  <2> SUFFICES ASSUME TypeOK, [Next]_vars PROVE TypeOK'
    OBVIOUS
  <2> USE DEF Goto
  <2>1. ASSUME NEW t \in Threads, Call(t) PROVE TypeOK'
    BY <2>1 DEF Call
  <2>2. ASSUME NEW t \in Threads, Acquire(t) PROVE TypeOK'
    <3>1. Cardinality({t}) = 1
      BY FS_Singleton
    <3>2. owner' = {t} /\ {t} \subseteq Threads
      BY <2>2 DEF Acquire
    <3>3. owner' \subseteq Threads /\ Cardinality(owner') =< 1
      BY <3>1, <3>2
    <3>. QED
      BY <2>2, <3>3 DEF Acquire
  <2>3. ASSUME NEW t \in Threads, Busy(t) PROVE TypeOK'
    BY <2>3 DEF Busy
  <2>4. ASSUME NEW t \in Threads, Report(t) PROVE TypeOK'
    BY <2>4 DEF Report
  <2>5. ASSUME NEW t \in Threads, Draw(t) PROVE TypeOK'
    BY <2>5 DEF Draw
  <2>6. ASSUME NEW t \in Threads, Unlock(t) PROVE TypeOK'
    BY <2>6, FS_EmptySet DEF Unlock
  <2>7. CASE UNCHANGED vars
    BY <2>7 DEF vars
  <2>. QED
    BY <2>1, <2>2, <2>3, <2>4, <2>5, <2>6, <2>7 DEF Next, Step
<1>. QED
  BY <1>1, <1>2, PTL DEF Spec

\* No call is without a callback, so none gets past a taken mutex.
CallbackInv == \A t \in Threads : cb[t] = "fn"

(* Where every caller passes a callback, the driver draws for one thread   *)
(* at a time, and that thread has the mutex.                               *)
THEOREM MutualExclusion ==
  ASSUME Callbacks = {"fn"}
  PROVE  Spec => [](CallbackInv /\ DrawUnderLock)
<1> USE DEF CallbackInv, DrawUnderLock, InDriver, TypeOK
<1>1. Init => CallbackInv /\ DrawUnderLock
  BY DEF Init
<1>2. TypeOK /\ CallbackInv /\ DrawUnderLock /\ [Next]_vars
      => CallbackInv' /\ DrawUnderLock'
  <2> SUFFICES ASSUME TypeOK, CallbackInv, DrawUnderLock, [Next]_vars
               PROVE  CallbackInv' /\ DrawUnderLock'
    OBVIOUS
  <2> USE DEF Goto
  <2>1. ASSUME NEW t \in Threads, Call(t)
        PROVE  CallbackInv' /\ DrawUnderLock'
    BY <2>1 DEF Call
  <2>2. ASSUME NEW t \in Threads, Acquire(t)
        PROVE  CallbackInv' /\ DrawUnderLock'
    BY <2>2 DEF Acquire
  <2>3. ASSUME NEW t \in Threads, Busy(t)
        PROVE  CallbackInv' /\ DrawUnderLock'
    BY <2>3 DEF Busy
  <2>4. ASSUME NEW t \in Threads, Report(t)
        PROVE  CallbackInv' /\ DrawUnderLock'
    BY <2>4 DEF Report
  <2>5. ASSUME NEW t \in Threads, Draw(t)
        PROVE  CallbackInv' /\ DrawUnderLock'
    BY <2>5 DEF Draw
  <2>6. ASSUME NEW t \in Threads, Unlock(t)
        PROVE  CallbackInv' /\ DrawUnderLock'
    BY <2>6 DEF Unlock
  <2>7. CASE UNCHANGED vars
    BY <2>7 DEF vars
  <2>. QED
    BY <2>1, <2>2, <2>3, <2>4, <2>5, <2>6, <2>7 DEF Next, Step
<1>. QED
  BY <1>1, <1>2, TypeCorrect, PTL DEF Spec

(* Whoever has the mutex is on its way to unlock it, with or without       *)
(* callbacks: a refused or finished call does not keep it.                 *)
THEOREM MutexIsHeld == Spec => []MutexHasHolder
<1> USE DEF MutexHasHolder, InDriver, TypeOK
<1>1. Init => MutexHasHolder
  BY DEF Init
<1>2. TypeOK /\ MutexHasHolder /\ [Next]_vars => MutexHasHolder'
  <2> SUFFICES ASSUME TypeOK, MutexHasHolder, [Next]_vars
               PROVE  MutexHasHolder'
    OBVIOUS
  <2> USE DEF Goto
  <2>1. ASSUME NEW t \in Threads, Call(t)
        PROVE  MutexHasHolder'
    BY <2>1 DEF Call
  <2>2. ASSUME NEW t \in Threads, Acquire(t)
        PROVE  MutexHasHolder'
    BY <2>2 DEF Acquire
  <2>3. ASSUME NEW t \in Threads, Busy(t)
        PROVE  MutexHasHolder'
    BY <2>3 DEF Busy
  <2>4. ASSUME NEW t \in Threads, Report(t)
        PROVE  MutexHasHolder'
    BY <2>4 DEF Report
  <2>5. ASSUME NEW t \in Threads, Draw(t)
        PROVE  MutexHasHolder'
    BY <2>5 DEF Draw
  <2>6. ASSUME NEW t \in Threads, Unlock(t)
        PROVE  MutexHasHolder'
    BY <2>6 DEF Unlock
  <2>7. CASE UNCHANGED vars
    BY <2>7 DEF vars
  <2>. QED
    BY <2>1, <2>2, <2>3, <2>4, <2>5, <2>6, <2>7 DEF Next, Step
<1>. QED
  BY <1>1, <1>2, TypeCorrect, PTL DEF Spec
=============================================================================
