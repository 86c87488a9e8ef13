------------------------------ MODULE Breaker ------------------------------
(***************************************************************************)
(* The circuit breaker of one provider: the gobreaker library as the       *)
(* settings of getBreaker (src/internal/proxy/transport.go) configure it,  *)
(* as operators on a record.  Everything here is one critical section of   *)
(* the library's mutex.                                                    *)
(*                                                                         *)
(* The library numbers its generations and ignores the outcome of a call   *)
(* admitted in an earlier one; the record keeps instead the calls of the   *)
(* current generation that are still in flight.  Counts are those of the   *)
(* current generation.                                                     *)
(***************************************************************************)
EXTENDS Naturals, FiniteSets

CONSTANTS
    MinimumRequests,            \* upstream.breaker_minimum_requests
    RatioNum, RatioDen,         \* upstream.breaker_failure_ratio
    HalfOpenRequests            \* upstream.breaker_half_open_requests

\* config.go:414-421 replaces a zero or an out-of-range value by a default.
ASSUME BreakerAssumption ==
    /\ MinimumRequests \in Nat \ {0}
    /\ HalfOpenRequests \in Nat \ {0}
    /\ RatioNum \in Nat \ {0}
    /\ RatioDen \in Nat \ {0}
    /\ RatioNum <= RatioDen

Breakers(Calls) ==
    [state : {"closed", "half-open", "open"},
     requests : Nat, failures : Nat, streak : Nat, inflight : SUBSET Calls]

\* A new generation in the given state: all counts zero, earlier calls forgotten.
Enter(state) ==
    [state |-> state, requests |-> 0, failures |-> 0, streak |-> 0, inflight |-> {}]

Initially == Enter("closed")

\* beforeRequest: ErrOpenState and ErrTooManyRequests are refusals.
Admits(b) ==
    \/ b.state = "closed"
    \/ b.state = "half-open" /\ b.requests < HalfOpenRequests

Admit(b, c) ==
    [b EXCEPT !.requests = @ + 1, !.inflight = @ \cup {c}]

\* One failure is enough, however few the requests.
BadReadyToTrip(b) == b.failures * RatioDen >= RatioNum * b.requests

\* The ReadyToTrip of getBreaker.  requests counts the calls in flight too.
ReadyToTrip(b) ==
    /\ b.requests >= MinimumRequests
    /\ b.failures * RatioDen >= RatioNum * b.requests

\* One success more than the probes that are admitted.
BadAfter(b, c, success) ==
    LET over == [b EXCEPT !.inflight = @ \ {c}]
        probed == [over EXCEPT !.streak = @ + 1]
        failed == [over EXCEPT !.failures = @ + 1]
    IN  CASE c \notin b.inflight -> b
          [] c \in b.inflight /\ b.state = "closed" ->
               IF success THEN over ELSE IF ReadyToTrip(failed) THEN Enter("open") ELSE failed
          [] c \in b.inflight /\ b.state # "closed" ->
               IF ~success THEN Enter("open")
               ELSE IF probed.streak > HalfOpenRequests THEN Enter("closed") ELSE probed

\* afterRequest: the outcome of a call of an earlier generation is ignored; in
\* half-open HalfOpenRequests successes in a row close and a failure re-opens.
\* (Successes in a row are counted in "closed" too, where nobody reads them.)
After(b, c, success) ==
    LET over == [b EXCEPT !.inflight = @ \ {c}]
        probed == [over EXCEPT !.streak = @ + 1]
        failed == [over EXCEPT !.failures = @ + 1]
    IN  CASE c \notin b.inflight -> b
          [] c \in b.inflight /\ b.state = "closed" ->
               IF success THEN over ELSE IF ReadyToTrip(failed) THEN Enter("open") ELSE failed
          [] c \in b.inflight /\ b.state # "closed" ->
               IF ~success THEN Enter("open")
               ELSE IF probed.streak >= HalfOpenRequests THEN Enter("closed") ELSE probed
=============================================================================
