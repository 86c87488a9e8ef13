---------------------------- MODULE SingleFlight ----------------------------
(***************************************************************************)
(* What responseCoalescer.Do (src/internal/middleware/cache.go) promises   *)
(* to its callers, without the map, the mutex or the channel:              *)
(*                                                                         *)
(*   - at most one execution of a key is running at any time;              *)
(*   - when an execution ends, its outcome is owed to everybody who is     *)
(*     asking for that key at that moment, and to nobody else: a caller    *)
(*     never gets the outcome of an execution that ended before it asked;  *)
(*   - a caller may walk away without an answer, and its leaving changes   *)
(*     nothing for the others.                                             *)
(*                                                                         *)
(* Coalescer implements this module (property Coalescer!Implements).       *)
(***************************************************************************)
CONSTANTS
    Requests,   \* the callers of Do, one call each
    Keys,       \* cache keys
    KeyOf,      \* the key a caller asks for
    Results,    \* outcomes of an execution
    None,       \* no outcome is owed yet
    Cancelled   \* what a caller returns that walked away

VARIABLES
    running,    \* keys with an execution in progress
    asked,      \* callers that asked and have no answer yet
    due,        \* the outcome owed to a caller
    answer      \* what the caller returned with

vars == <<running, asked, due, answer>>

Init ==
    /\ running = {}
    /\ asked = {}
    /\ due = [r \in Requests |-> None]
    /\ answer = [r \in Requests |-> None]

\* A caller asks for its key: it starts the execution or joins the running one.
Ask(r) ==
    /\ r \notin asked
    /\ answer[r] = None
    /\ asked' = asked \cup {r}
    /\ running' = running \cup {KeyOf[r]}
    /\ UNCHANGED <<due, answer>>

\* The execution of k ends with v: v is owed to those who are asking for k.
Finish(k, v) ==
    /\ k \in running
    /\ running' = running \ {k}
    /\ due' = [r \in Requests |->
                 IF r \in asked /\ KeyOf[r] = k /\ due[r] = None THEN v ELSE due[r]]
    /\ UNCHANGED <<asked, answer>>

Answer(r) ==
    /\ r \in asked
    /\ due[r] # None
    /\ answer' = [answer EXCEPT ![r] = due[r]]
    /\ asked' = asked \ {r}
    /\ due' = [due EXCEPT ![r] = None]
    /\ UNCHANGED running

\* A caller leaves without an answer (its own context ended).
Abandon(r) ==
    /\ r \in asked
    /\ answer' = [answer EXCEPT ![r] = Cancelled]
    /\ asked' = asked \ {r}
    /\ due' = [due EXCEPT ![r] = None]
    /\ UNCHANGED running

Next ==
    \/ \E r \in Requests : Ask(r) \/ Answer(r) \/ Abandon(r)
    \/ \E k \in Keys, v \in Results : Finish(k, v)

Spec == Init /\ [][Next]_vars
=============================================================================
