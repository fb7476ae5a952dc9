------------------------ MODULE DisplayQueriesProofs ------------------------
(***************************************************************************)
(* Proofs about DisplayQueries, for any threads and connections.           *)
(***************************************************************************)
EXTENDS DisplayQueries, DisplayApiProofs

(* A query changes no variable of the drawing calls, so what is proved of  *)
(* DisplayApi holds with queries in between.                               *)
LEMMA DrawingIsUndisturbed == QueriesSpec => Spec
<1>1. QueriesInit => Init
  BY DEF QueriesInit
<1>2. [QueriesNext]_<<vars, queries>> => [Next]_vars
  BY DEF QueriesNext, Next, queries
<1>. QED
  BY <1>1, <1>2, PTL DEF QueriesSpec, Spec

(* Every reachable state of the queries is well typed.                     *)
LEMMA QueriesTypeCorrect == QueriesSpec => []QueriesTypeOK
<1> USE QueriesAssumption DEF QueriesAssumption, QueriesTypeOK
<1>1. QueriesInit => QueriesTypeOK
  BY DEF QueriesInit, Init
<1>2. TypeOK /\ QueriesTypeOK /\ [QueriesNext]_<<vars, queries>>
      => QueriesTypeOK'
  <2> SUFFICES ASSUME TypeOK, QueriesTypeOK,
                      [QueriesNext]_<<vars, queries>>
               PROVE  QueriesTypeOK'
    OBVIOUS
  <2> USE DEF vars, queries, Move
  <2>1. ASSUME NEW t \in Threads, q[t] = "out", Call(t) \/ Step(t),
               UNCHANGED queries
        PROVE  QueriesTypeOK'
    <3>1. \A u \in Threads : q[u] # "out" => pc'[u] = pc[u]
      BY <2>1 DEF TypeOK, Call, Step, Acquire, Busy, Report, Draw, Unlock,
                  Goto
    <3>. QED
      BY <2>1, <3>1
  <2>2. ASSUME NEW t \in Threads, Look(t), UNCHANGED vars
        PROVE  QueriesTypeOK'
    BY <2>2 DEF Look
  <2>3. ASSUME NEW t \in Threads, Read(t), UNCHANGED vars
        PROVE  QueriesTypeOK'
    BY <2>3 DEF Read, Prefixed
  <2>4. ASSUME NEW t \in Threads, Set(t), UNCHANGED vars
        PROVE  QueriesTypeOK'
    BY <2>4 DEF Set
  <2>5. ASSUME NEW t \in Threads, Open(t), UNCHANGED vars
        PROVE  QueriesTypeOK'
    BY <2>5 DEF Open
  <2>6. CASE UNCHANGED <<vars, queries>>
    BY <2>6
  <2>. QED
    BY <2>1, <2>2, <2>3, <2>4, <2>5, <2>6 DEF QueriesNext, Query
<1>. QED
  BY <1>1, <1>2, DrawingIsUndisturbed, TypeCorrect, PTL DEF QueriesSpec

-----------------------------------------------------------------------------
\* No query has anything to add to DISPLAY.
PrefixInv ==
  /\ display = "local"
  /\ \A t \in Threads : q[t] \in {"out", "open"}

\* DISPLAY is bare or prefixed once, and whoever is to set it has read it bare.
SerialInv ==
  /\ display \in {"bare", "local"}
  /\ \A t \in Threads :
       /\ q[t] = "read" => display = "bare"
       /\ q[t] = "set" => buf[t] = "local"
       /\ q[t] = "open" => display = "local"

(* A query of a process whose DISPLAY has its prefix finds it as it was,   *)
(* whatever other threads do.                                              *)
LEMMA PrefixStep ==
  ASSUME QueriesTypeOK, PrefixInv, FailsOnlyWhenExhausted,
         [QueriesNext]_<<vars, queries>>
  PROVE  PrefixInv' /\ FailsOnlyWhenExhausted'
<1> USE DEF PrefixInv, FailsOnlyWhenExhausted, queries, Move, QueriesTypeOK
<1>1. ASSUME NEW t \in Threads, Look(t)
      PROVE  PrefixInv' /\ FailsOnlyWhenExhausted'
  BY <1>1 DEF Look
<1>2. ASSUME NEW t \in Threads, Read(t) \/ Set(t)
      PROVE  PrefixInv' /\ FailsOnlyWhenExhausted'
  BY <1>2 DEF Read, Set
<1>3. ASSUME NEW t \in Threads, Open(t)
      PROVE  PrefixInv' /\ FailsOnlyWhenExhausted'
  BY <1>3, QueriesAssumption DEF Open, QueriesAssumption
<1>4. CASE UNCHANGED queries
  BY <1>4
<1>. QED
  BY <1>1, <1>2, <1>3, <1>4 DEF QueriesNext, Query

(* A query that no other thread's query overlaps finds DISPLAY at setenv   *)
(* as it was at getenv, and opens the display that it prefixed.            *)
LEMMA SerialStep ==
  ASSUME QueriesTypeOK, SerialInv, FailsOnlyWhenExhausted, SerialQueries,
         [QueriesNext]_<<vars, queries>>
  PROVE  SerialInv' /\ FailsOnlyWhenExhausted'
<1> USE DEF SerialInv, FailsOnlyWhenExhausted, SerialQueries, queries, Move,
            QueriesTypeOK
<1>1. ASSUME NEW t \in Threads, Look(t)
      PROVE  SerialInv' /\ FailsOnlyWhenExhausted'
  BY <1>1 DEF Look
<1>2. ASSUME NEW t \in Threads, Read(t)
      PROVE  SerialInv' /\ FailsOnlyWhenExhausted'
  BY <1>2 DEF Read, Prefixed
<1>3. ASSUME NEW t \in Threads, Set(t)
      PROVE  SerialInv' /\ FailsOnlyWhenExhausted'
  BY <1>3 DEF Set
<1>4. ASSUME NEW t \in Threads, Open(t)
      PROVE  SerialInv' /\ FailsOnlyWhenExhausted'
  BY <1>4, QueriesAssumption DEF Open, QueriesAssumption
<1>5. CASE UNCHANGED queries
  BY <1>5
<1>. QED
  BY <1>1, <1>2, <1>3, <1>4, <1>5 DEF QueriesNext, Query

(* With the prefix in place from the start, or with a bare number and no   *)
(* two threads in a query at once, DISPLAY is prefixed once and queries    *)
(* fail only for want of connections, for any number of threads; the run   *)
(* api_query_race has two whose queries overlap.                           *)
THEOREM QueriesAreAnswered == QueriesSpec => QueriesWork
<1> DEFINE Works == PrefixedOnce /\ FailsOnlyWhenExhausted
           Local == PrefixInv /\ FailsOnlyWhenExhausted
           Serial == SerialInv /\ FailsOnlyWhenExhausted
<1>1. QueriesInit /\ display = "local" => Local
  BY DEF QueriesInit, PrefixInv, FailsOnlyWhenExhausted
<1>2. QueriesInit /\ display = "bare" => Serial
  BY DEF QueriesInit, SerialInv, FailsOnlyWhenExhausted
<1>3. QueriesTypeOK /\ Local /\ [QueriesNext]_<<vars, queries>> => Local'
  BY PrefixStep
<1>4. QueriesTypeOK /\ Serial /\ SerialQueries
      /\ [QueriesNext]_<<vars, queries>> => Serial'
  BY SerialStep
<1>5. (Local => Works) /\ (Serial => Works)
  BY DEF PrefixInv, SerialInv, PrefixedOnce
<1> HIDE DEF Works, Local, Serial
<1>6. QueriesSpec => (display = "local" \/ (display = "bare" /\ []SerialQueries)
                        => []Works)
  BY <1>1, <1>2, <1>3, <1>4, <1>5, QueriesTypeCorrect, PTL DEF QueriesSpec
<1>. QED
  BY <1>6 DEF Works, QueriesWork
=============================================================================
