--------------------------- MODULE ProxyFailover ---------------------------
(***************************************************************************)
(* gatewayProxyHandler.ServeHTTP of src/internal/proxy/proxy.go on top of  *)
(* CircuitBreakerTransport (transport.go): a request tries its candidate   *)
(* providers in order, each as often as its retry budget allows, through   *)
(* the circuit breaker that all requests of that provider share, and       *)
(* relays the first answer that is not retryable.                          *)
(*                                                                         *)
(* An attempt is three steps: the admission by the breaker, the outcome as *)
(* the breaker sees it, and the entry in the health map with the decision  *)
(* of the retry loop; everything else may happen between them.  What an    *)
(* attempt may come to:                                                    *)
(*   "good"      any status that is neither retryable nor a failure        *)
(*   "flaky"     a status of upstream.retryable_status_codes below 500     *)
(*               other than 429: retried, a success to the breaker         *)
(*   "overload"  429 or a 5xx of upstream.retryable_status_codes           *)
(*   "odd"       a 5xx that is not in it: relayed, a failure to the breaker*)
(*   "neterr"    no response                                               *)
(*   "refused"   the breaker refused: an error, although nothing was sent  *)
(***************************************************************************)
EXTENDS Breaker, Sequences

CONSTANTS
    Requests, Providers,
    Candidates,         \* Candidates[r]: gatewayCtx.CandidateProviders
    MaxRetries,         \* MaxRetries[p]: providers[].max_retries
    DefaultMaxRetries,  \* upstream.default_max_retries
    Translating,        \* providers whose requests are translated (anthropic)
    BadBodies,          \* requests whose body the translation rejects
    Bound,              \* requests whose upstream calls carry the client's context:
                        \* streams, and everything while the cache is off
    None

ASSUME ProxyAssumption ==
    /\ Candidates \in [Requests -> Seq(Providers)]
    /\ MaxRetries \in [Providers -> Nat]
    /\ DefaultMaxRetries \in Nat
    /\ Translating \subseteq Providers
    /\ BadBodies \subseteq Requests
    /\ Bound \subseteq Requests
    /\ None \notin {"good", "flaky", "overload", "odd", "neterr", "refused",
                    "no_route", "build_failed", "unavailable", "relayed"}

VARIABLES
    breaker,        \* breaker[p]: cbMap, one per provider
    healthy,        \* healthy[p]: providerHealthMap as the attempts leave it
    sick,           \* providers that ever misbehaved (until then they answer "good")
    gone,           \* clients that left
    pc,             \* where ServeHTTP is
    index,          \* position of the active provider among the candidates
    attempt,        \* the attempt at the active provider, from 1
    came,           \* what the attempt came to, until the loop has looked at it
    used,           \* used[r][i]: retryable failures of the i-th candidate
    totalRetries,   \* as in the code, reported in X-Gateway-Upstream-Retries
    failovers,      \* gatewayCtx.FailoverCount, reported in X-Gateway-Failovers
    reply           \* the kind of answer

sharedVars == <<breaker, healthy, sick, gone>>
requestVars == <<pc, index, attempt, came, used, totalRetries, failovers, reply>>
vars == <<sharedVars, requestVars>>

Outcomes == {"good", "flaky", "overload", "odd", "neterr"}   \* of a call

\* shouldRetryResponse
Retryable(o) == o \in {"flaky", "overload", "neterr", "refused"}

\* RoundTrip and markPassiveProbeResult: 5xx, 429 and errors are failures.
Failure(o) == o \in {"overload", "odd", "neterr", "refused"}

\* effectiveRetryCount + 1: zero retries means the default, not none.
Budget(p) == (IF MaxRetries[p] > 0 THEN MaxRetries[p] ELSE DefaultMaxRetries) + 1

Active(r) == Candidates[r][index[r]]

Init ==
    /\ breaker = [p \in Providers |-> Initially]
    /\ healthy = [p \in Providers |-> TRUE]
    /\ sick = {}
    /\ gone = {}
    /\ pc = [r \in Requests |-> "ready"]
    /\ index = [r \in Requests |-> 1]
    /\ attempt = [r \in Requests |-> 1]
    /\ came = [r \in Requests |-> None]
    /\ used = [r \in Requests |-> [i \in DOMAIN Candidates[r] |-> 0]]
    /\ totalRetries = [r \in Requests |-> 0]
    /\ failovers = [r \in Requests |-> 0]
    /\ reply = [r \in Requests |-> None]

-----------------------------------------------------------------------------
\* No provider was resolved: 503.
NoRoute(r) ==
    /\ pc[r] = "ready"
    /\ Candidates[r] = <<>>
    /\ pc' = [pc EXCEPT ![r] = "back"]
    /\ reply' = [reply EXCEPT ![r] = "no_route"]
    /\ UNCHANGED <<sharedVars, index, attempt, came, used, totalRetries, failovers>>

\* The body cannot be translated for the active provider: 500, no failover.
BuildFails(r) ==
    /\ pc[r] = "ready"
    /\ Candidates[r] # <<>>
    /\ Active(r) \in Translating /\ r \in BadBodies
    /\ pc' = [pc EXCEPT ![r] = "back"]
    /\ reply' = [reply EXCEPT ![r] = "build_failed"]
    /\ UNCHANGED <<sharedVars, index, attempt, came, used, totalRetries, failovers>>

Builds(r) ==
    /\ Candidates[r] # <<>>
    /\ ~(Active(r) \in Translating /\ r \in BadBodies)

\* The breaker lets the call through; with a dead context it fails at once.
Admitted(r) ==
    /\ pc[r] = "ready"
    /\ Builds(r)
    /\ Admits(breaker[Active(r)])
    /\ breaker' = [breaker EXCEPT ![Active(r)] = Admit(@, r)]
    /\ pc' = [pc EXCEPT ![r] = IF r \in Bound \cap gone THEN "doomed" ELSE "flying"]
    /\ UNCHANGED <<healthy, sick, gone, index, attempt, came, used, totalRetries, failovers, reply>>

\* A new attempt starts from the counter of the provider before.
BadRetry(r) ==
    /\ used' = [used EXCEPT ![r][index[r]] = @ + 1]
    /\ totalRetries' = [totalRetries EXCEPT ![r] = @ + 1]
    /\ IF attempt[r] < Budget(Active(r))
       THEN /\ attempt' = [attempt EXCEPT ![r] = @ + 1]
            /\ pc' = [pc EXCEPT ![r] = "ready"]
            /\ UNCHANGED <<index, failovers, reply>>
       ELSE /\ failovers' = [failovers EXCEPT ![r] = @ + 1]
            /\ UNCHANGED attempt
            /\ IF index[r] < Len(Candidates[r])
               THEN /\ index' = [index EXCEPT ![r] = @ + 1]
                    /\ pc' = [pc EXCEPT ![r] = "ready"]
                    /\ UNCHANGED reply
               ELSE /\ pc' = [pc EXCEPT ![r] = "back"]
                    /\ reply' = [reply EXCEPT ![r] = "unavailable"]
                    /\ UNCHANGED index

\* The last provider is not recognised.
BadRetryLast(r) ==
    /\ used' = [used EXCEPT ![r][index[r]] = @ + 1]
    /\ totalRetries' = [totalRetries EXCEPT ![r] = @ + 1]
    /\ pc' = [pc EXCEPT ![r] = "ready"]
    /\ IF attempt[r] < Budget(Active(r))
       THEN /\ attempt' = [attempt EXCEPT ![r] = @ + 1]
            /\ UNCHANGED <<index, failovers, reply>>
       ELSE /\ failovers' = [failovers EXCEPT ![r] = @ + 1]
            /\ attempt' = [attempt EXCEPT ![r] = 1]
            /\ index' = [index EXCEPT ![r] = @ + 1]
            /\ UNCHANGED reply

\* After a failed attempt the loop starts over with the same provider.
BadRetryForever(r) ==
    /\ used' = [used EXCEPT ![r][index[r]] = 1]
    /\ totalRetries' = [totalRetries EXCEPT ![r] = 1]
    /\ pc' = [pc EXCEPT ![r] = "ready"]
    /\ UNCHANGED <<index, attempt, failovers, reply>>

\* The attempt failed and is retryable: again, or the next provider, or 503.
Retry(r) ==
    /\ used' = [used EXCEPT ![r][index[r]] = @ + 1]
    /\ totalRetries' = [totalRetries EXCEPT ![r] = @ + 1]
    /\ IF attempt[r] < Budget(Active(r))
       THEN /\ attempt' = [attempt EXCEPT ![r] = @ + 1]
            /\ pc' = [pc EXCEPT ![r] = "ready"]
            /\ UNCHANGED <<index, failovers, reply>>
       ELSE /\ failovers' = [failovers EXCEPT ![r] = @ + 1]
            /\ attempt' = [attempt EXCEPT ![r] = 1]
            /\ IF index[r] < Len(Candidates[r])
               THEN /\ index' = [index EXCEPT ![r] = @ + 1]
                    /\ pc' = [pc EXCEPT ![r] = "ready"]
                    /\ UNCHANGED reply
               ELSE /\ pc' = [pc EXCEPT ![r] = "back"]
                    /\ reply' = [reply EXCEPT ![r] = "unavailable"]
                    /\ UNCHANGED index

\* The breaker refuses (ErrOpenState, ErrTooManyRequests).
Refused(r) ==
    /\ pc[r] = "ready"
    /\ Builds(r)
    /\ ~Admits(breaker[Active(r)])
    /\ came' = [came EXCEPT ![r] = "refused"]
    /\ pc' = [pc EXCEPT ![r] = "answered"]
    /\ UNCHANGED <<sharedVars, index, attempt, used, totalRetries, failovers, reply>>

\* What the call may come to: a provider that never misbehaved answers well,
\* and a call whose client is gone is aborted.
Possible(r) ==
    IF pc[r] = "doomed" THEN {"neterr"}
    ELSE (IF Active(r) \in sick THEN Outcomes ELSE {"good"})
         \cup (IF r \in Bound \cap gone THEN {"neterr"} ELSE {})

\* The call is over; the breaker is told.
Outcome(r, o) ==
    /\ pc[r] \in {"flying", "doomed"}
    /\ o \in Possible(r)
    /\ breaker' = [breaker EXCEPT ![Active(r)] = After(@, r, ~Failure(o))]
    /\ came' = [came EXCEPT ![r] = o]
    /\ pc' = [pc EXCEPT ![r] = "answered"]
    /\ UNCHANGED <<healthy, sick, gone, index, attempt, used, totalRetries, failovers, reply>>

\* markPassiveProbeResult, then the retry decision.  A refusal of the breaker
\* marks the provider like a failed call.
Decide(r) ==
    /\ pc[r] = "answered"
    /\ healthy' = [healthy EXCEPT ![Active(r)] = ~Failure(came[r])]
    /\ came' = [came EXCEPT ![r] = None]
    /\ IF Retryable(came[r])
       THEN Retry(r)
       ELSE /\ pc' = [pc EXCEPT ![r] = "copying"]
            /\ UNCHANGED <<index, attempt, used, totalRetries, failovers, reply>>
    /\ UNCHANGED <<breaker, sick, gone>>

\* The body is copied to its end or until it breaks off, which is only logged.
Copy(r) ==
    /\ pc[r] = "copying"
    /\ pc' = [pc EXCEPT ![r] = "back"]
    /\ reply' = [reply EXCEPT ![r] = "relayed"]
    /\ UNCHANGED <<sharedVars, index, attempt, came, used, totalRetries, failovers>>

Leave(r) ==
    /\ r \in Bound \ gone
    /\ pc[r] # "back"
    /\ gone' = gone \cup {r}
    /\ UNCHANGED <<breaker, healthy, sick, requestVars>>

FallSick(p) ==
    /\ p \notin sick
    /\ sick' = sick \cup {p}
    /\ UNCHANGED <<breaker, healthy, gone, requestVars>>

\* breaker_interval passes while closed: the counts start over.
IntervalPasses(p) ==
    /\ breaker[p].state = "closed"
    /\ breaker[p].requests > 0
    /\ breaker' = [breaker EXCEPT ![p] = Enter("closed")]
    /\ UNCHANGED <<healthy, sick, gone, requestVars>>

\* breaker_timeout passes while open: probes are admitted.
TimeoutPasses(p) ==
    /\ breaker[p].state = "open"
    /\ breaker' = [breaker EXCEPT ![p] = Enter("half-open")]
    /\ UNCHANGED <<healthy, sick, gone, requestVars>>

Step(r) ==
    \/ NoRoute(r) \/ BuildFails(r) \/ Admitted(r) \/ Refused(r)
    \/ \E o \in Outcomes : Outcome(r, o)
    \/ Decide(r) \/ Copy(r)

Next ==
    \/ \E r \in Requests : Step(r) \/ Leave(r)
    \/ \E p \in Providers : FallSick(p) \/ IntervalPasses(p) \/ TimeoutPasses(p)

Spec == Init /\ [][Next]_vars

\* A handler that can run does, and a call comes to something (the transport
\* bounds dialling and waiting for headers, and bodies are taken to end).
FairSpec == Spec /\ \A r \in Requests : WF_vars(Step(r))

-----------------------------------------------------------------------------
InFlight(p) ==
    {r \in Requests : pc[r] \in {"flying", "doomed"} /\ Active(r) = p}

TypeOK ==
    /\ breaker \in [Providers -> Breakers(Requests)]
    /\ healthy \in [Providers -> BOOLEAN]
    /\ sick \subseteq Providers
    /\ gone \subseteq Requests
    /\ pc \in [Requests -> {"ready", "flying", "doomed", "answered", "copying", "back"}]
    /\ index \in [Requests -> Nat \ {0}]
    /\ attempt \in [Requests -> Nat \ {0}]
    /\ came \in [Requests -> Outcomes \cup {"refused", None}]
    /\ totalRetries \in [Requests -> Nat]
    /\ failovers \in [Requests -> Nat]
    /\ reply \in [Requests -> {None, "no_route", "build_failed", "unavailable",
                               "relayed"}]
    /\ \A r \in Requests :
          /\ used[r] \in [DOMAIN Candidates[r] -> Nat]
          /\ pc[r] # "back" /\ Candidates[r] # <<>> => index[r] \in DOMAIN Candidates[r]
          /\ came[r] = None <=> pc[r] # "answered"
          /\ reply[r] = None <=> pc[r] # "back"

\* A request moves on to the next provider only after the whole retry budget of
\* every provider before it, and says "all unavailable" only after all of it;
\* no provider is asked more often than its budget, and X-Gateway-Failovers
\* counts the providers that were given up (proxy.go:108-194).
BudgetsSpentInOrder ==
    \A r \in Requests : \A i \in DOMAIN Candidates[r] :
        /\ used[r][i] <= Budget(Candidates[r][i])
        /\ i < index[r] \/ reply[r] = "unavailable" => used[r][i] = Budget(Candidates[r][i])
        /\ i > index[r] => used[r][i] = 0
        /\ failovers[r] = Cardinality({j \in DOMAIN Candidates[r] :
                                          used[r][j] = Budget(Candidates[r][j])})

\* What the breaker counts as in flight is in flight, so that outcomes of calls
\* it admitted before its last change of state cannot move it.  While it is half-open
\* there are never more probes than breaker_half_open_requests; and if it admits
\* nobody, it waits for one that is on its way: it cannot get stuck.
BreakerKnowsItsCalls ==
    \A p \in Providers :
        /\ breaker[p].inflight \subseteq InFlight(p)
        /\ breaker[p].state = "open" => breaker[p].inflight = {}
        /\ breaker[p].state = "half-open" =>
              /\ Cardinality(breaker[p].inflight) <= HalfOpenRequests
              /\ Admits(breaker[p]) \/ breaker[p].inflight # {}

\* A breaker leaves "closed" for its provider's failures, or for those of calls
\* whose clients left; never before breaker_minimum_requests calls started.
TripsForCause ==
    [][\A p \in Providers :
          breaker[p].state = "closed" /\ breaker'[p].state = "open" =>
             /\ p \in sick \/ gone # {}
             /\ breaker[p].requests >= MinimumRequests
      ]_vars

\* "Health state of upstream providers observed by active/passive checks"
\* (internal/metrics/prometheus.go:95): a provider that has always answered
\* well is neither cut off nor reported unhealthy.
OnlyMisbehaviourCounts ==
    \A p \in Providers \ sick : healthy[p] /\ breaker[p].state = "closed"

\* Every request is answered, whatever the providers, the breakers and the
\* other requests do.
EveryRequestAnswered == \A r \in Requests : <>(pc[r] = "back")
=============================================================================
