--------------------------- MODULE DisplayQueries ---------------------------
(***************************************************************************)
(* The resolution queries next to the drawing calls.  display_query_width  *)
(* and display_query_height reach xlib_resolution_prop_query, which takes  *)
(* no mutex, puts a colon in front of DISPLAY if it does not begin with    *)
(* one, and opens a connection that nothing closes.  It calls getenv twice *)
(* and setenv later, so other threads' queries come in between.            *)
(*                                                                         *)
(* Of the value of DISPLAY only its form matters: "none" for no variable,  *)
(* "bare" for a number, "local" for a colon and a number, "host" for a     *)
(* name, a colon and a number, and "broken" for a colon before one of the  *)
(* last two, which names no server.                                        *)
(***************************************************************************)
EXTENDS DisplayApi

CONSTANTS
  InitialDisplays, \* forms of DISPLAY a process may start with
  MaxConnections   \* how many connections the server grants the process

ASSUME QueriesAssumption ==
  /\ InitialDisplays \subseteq {"none", "bare", "local", "host"}
  /\ MaxConnections \in Nat

VARIABLES
  q,       \* per thread: "out" of a query, or its next call in one
  buf,     \* per thread: the form of what snprintf left in buf
  display, \* the form of DISPLAY
  conns,   \* connections the process has open
  answer   \* what the last query to return gave: "size", or "one" for 1

queries == <<q, buf, display, conns, answer>>

QueriesInit ==
  /\ Init
  /\ q = [t \in Threads |-> "out"] /\ buf = [t \in Threads |-> "none"]
  /\ display \in InitialDisplays
  /\ conns = 0 /\ answer = "size"

Move(t, here, there) == q[t] = here /\ q' = [q EXCEPT ![t] = there]

\* Mutant: the test for the prefix is inverted.
LookInverted(t) ==
  /\ pc[t] = "idle"
  /\ \/ display = "none" /\ q[t] = "out" /\ answer' = "one" /\ UNCHANGED q
     \/ display \in {"local", "broken"} /\ Move(t, "out", "read")
        /\ UNCHANGED answer
     \/ display \in {"bare", "host"} /\ Move(t, "out", "open")
        /\ UNCHANGED answer
  /\ UNCHANGED <<buf, display, conns>>

\* A query: the first getenv, and memchr on one character of what it returns.
Look(t) ==
  /\ pc[t] = "idle"
  /\ \/ display = "none" /\ q[t] = "out" /\ answer' = "one" /\ UNCHANGED q
     \/ display \in {"bare", "host"} /\ Move(t, "out", "read")
        /\ UNCHANGED answer
     \/ display \in {"local", "broken"} /\ Move(t, "out", "open")
        /\ UNCHANGED answer
  /\ UNCHANGED <<buf, display, conns>>

Prefixed(form) == IF form = "bare" THEN "local" ELSE "broken"

\* The second getenv, and snprintf.
Read(t) ==
  /\ Move(t, "read", "set")
  /\ buf' = [buf EXCEPT ![t] = Prefixed(display)]
  /\ UNCHANGED <<display, conns, answer>>

\* setenv.
Set(t) ==
  /\ Move(t, "set", "open")
  /\ display' = buf[t]
  /\ UNCHANGED <<buf, conns, answer>>

\* XOpenDisplay, and the width or height of its screen; 1 without one.  The
\* server refuses a client too many.
Open(t) ==
  /\ Move(t, "open", "out")
  /\ \/ /\ display = "local" /\ conns < MaxConnections
        /\ conns' = conns + 1 /\ answer' = "size"
     \/ /\ display # "local" \/ conns = MaxConnections
        /\ answer' = "one" /\ UNCHANGED conns
  /\ UNCHANGED <<buf, display>>

Query(t) == Look(t) \/ Read(t) \/ Set(t) \/ Open(t)

\* A thread is in a drawing call or in a query, or in neither.
QueriesNext ==
  \E t \in Threads :
    \/ q[t] = "out" /\ (Call(t) \/ Step(t)) /\ UNCHANGED queries
    \/ Query(t) /\ UNCHANGED vars

QueriesSpec == QueriesInit /\ [][QueriesNext]_<<vars, queries>>

-----------------------------------------------------------------------------
\* Queries are at one of their calls, DISPLAY has a form that calls give it,
\* and a drawing call and a query are never of one thread at once.
QueriesTypeOK ==
  /\ q \in [Threads -> {"out", "read", "set", "open"}]
  /\ buf \in [Threads -> {"none", "local", "broken"}]
  /\ display \in {"none", "bare", "local", "host", "broken"}
  /\ \A t \in Threads : q[t] = "set" => buf[t] # "none"
  /\ \A t \in Threads : q[t] # "out" => pc[t] = "idle"
  /\ conns \in 0..MaxConnections
  /\ answer \in {"size", "one"}

\* A query gives a size unless the process used up its connections.
FailsOnlyWhenExhausted == answer = "one" => conns = MaxConnections

\* xlib_driver_core.c:432: the prefix is added if it is not specified.  So a
\* DISPLAY that queries have prefixed is not prefixed again.
PrefixedOnce == display # "broken"

\* No two threads are in a query at once.
SerialQueries == \A t, u \in Threads : q[t] # "out" /\ q[u] # "out" => t = u

\* What a process has to do to have its queries answered: to start with the
\* prefix in place, as an Xlib program does, or to start with a bare number,
\* for which the prefix is added, and to query from one thread after the other.
\* Then DISPLAY is prefixed once, however many queries and drawing calls there
\* are, and none fails but for want of connections.
QueriesWork ==
  display = "local" \/ (display = "bare" /\ []SerialQueries)
    => [](PrefixedOnce /\ FailsOnlyWhenExhausted)
=============================================================================
