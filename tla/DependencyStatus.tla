-------------------------- MODULE DependencyStatus --------------------------
(***************************************************************************)
(* What the process publishes about the things it depends on, and who      *)
(* publishes it: the status of Redis (src/pkg/cache/redis.go) and of the   *)
(* providers (src/internal/proxy/health.go).                               *)
(*                                                                         *)
(* A verdict is published in two writes that no common lock holds together:*)
(*   Redis      the flag redisHealthy, then redisLastErr (redis.go:97-115);*)
(*              the time between them says nothing about health            *)
(*   provider   its entry of providerHealthMap, then the gauge             *)
(*              (health.go:126-145)                                        *)
(* Two goroutines look after them for ever: the monitor of Redis pings at  *)
(* every tick, and the prober asks one provider after the other and then   *)
(* waits for its tick.  Requests report what they happen to learn, without *)
(* end.  A probe is a GET without a key and a ping costs nothing, so that  *)
(* they may fare otherwise than requests do.  In ResponseCache and         *)
(* RateLimit the flag is read; here all is written.                        *)
(***************************************************************************)
EXTENDS Naturals, Sequences

CONSTANTS
    Redis,
    Providers,      \* in the order of the configuration
    Reporters,      \* goroutines that serve requests and report
    Conditions,     \* how a dependency may treat who asks: see Answers
    MaxChanges      \* bound: changes of condition, all dependencies together

Monitor == "monitor"
Prober == "prober"
Writers == Reporters \cup {Monitor, Prober}

\* It answers well, badly (429, 5xx, an error of Redis), or not in time, be it that
\* all connections to it are in use.
Answers == {"well", "badly", "not"}

Dependencies == {Redis} \cup {Providers[i] : i \in DOMAIN Providers}

ASSUME StatusAssumption ==
    /\ Monitor \notin Reporters /\ Prober \notin Reporters
    /\ Providers \in Seq(STRING) /\ Providers # <<>>
    /\ \A i \in DOMAIN Providers : Providers[i] # Redis
    /\ Conditions \subseteq [probe : Answers, request : Answers]
    /\ MaxChanges \in Nat

VARIABLES
    condition,  \* how a dependency treats probes (pings), and how requests
    changes,    \* how often one changed
    first,      \* the verdict in the field that is written first ...
    second,     \* ... and in the other one
    pc,         \* of a writer: idle, asking, about to write first or second
    about,      \* the dependency it is asking or writing about
    verdict,    \* what it is about to publish
    mixed       \* history: the last publication of this dependency overlapped
                \* another one

environment == <<condition, changes>>
published == <<first, second, mixed>>
vars == <<environment, published, pc, about, verdict>>

\* How w is treated by the dependency it asks.
Treated(w) == condition[about[w]][IF w \in Reporters THEN "request" ELSE "probe"]

\* InitRedis pings before it starts the monitor; seedProviderStatuses takes
\* every provider for healthy, and the prober's first round is under way at once.
Init ==
    /\ condition \in [Dependencies -> Conditions]
    /\ changes = 0
    /\ first = [d \in Dependencies |-> d = Redis => condition[d].probe = "well"]
    /\ second = first
    /\ mixed = [d \in Dependencies |-> FALSE]
    /\ pc = [w \in Writers |-> IF w = Prober THEN "asking" ELSE "idle"]
    /\ about = [w \in Writers |-> IF w = Prober THEN Providers[1] ELSE Redis]
    /\ verdict = [w \in Writers |-> TRUE]

-----------------------------------------------------------------------------
Ask(w, d) ==
    /\ pc[w] = "idle"
    /\ pc' = [pc EXCEPT ![w] = "asking"]
    /\ about' = [about EXCEPT ![w] = d]
    /\ UNCHANGED <<environment, published, verdict>>

\* The prober's round begins with Redis.
BadTick(w) ==
    /\ w \in {Monitor, Prober}
    /\ Ask(w, Redis)

\* A tick: the monitor pings Redis, the prober begins a round.
Tick(w) ==
    \/ w = Monitor /\ Ask(w, Redis)
    \/ w = Prober /\ Ask(w, Providers[1])

\* A request turns to a provider, or to Redis as long as that is available.
Use(w, d) ==
    /\ d = Redis => first[Redis]
    /\ Ask(w, d)

Learn(w, v) ==
    /\ pc[w] = "asking"
    /\ verdict' = [verdict EXCEPT ![w] = v]
    /\ pc' = [pc EXCEPT ![w] = "first"]
    /\ UNCHANGED <<environment, published, about>>

\* The dependency answers: a PONG, a status below 500 other than 429, or worse.
Answered(w) ==
    /\ Treated(w) # "not"
    /\ Learn(w, Treated(w) = "well")

\* A probe waits as long as the connection does.
BadNoAnswer(w) ==
    /\ w \in Reporters
    /\ Learn(w, FALSE)

\* It does not answer in time (2 s for a ping, health_check_timeout for a probe).
\* A request may fail whatever the dependency does: its client left, the breaker
\* refused, or what it found in Redis was empty (cache.go:261).
NoAnswer(w) ==
    /\ w \in Reporters \/ Treated(w) = "not"
    /\ Learn(w, FALSE)

Writing(d) == {w \in Writers : pc[w] = "second" /\ about[w] = d}

\* The first write: the flag, or the entry of the map.
WriteFirst(w) ==
    /\ pc[w] = "first"
    /\ first' = [first EXCEPT ![about[w]] = verdict[w]]
    /\ mixed' = [mixed EXCEPT ![about[w]] = Writing(about[w]) # {}]
    /\ pc' = [pc EXCEPT ![w] = "second"]
    /\ UNCHANGED <<environment, second, about, verdict>>

\* Where the prober stands in its round.
Turn(d) == CHOOSE i \in DOMAIN Providers : Providers[i] = d

MoreToProbe(w) == w = Prober /\ Turn(about[w]) < Len(Providers)

\* After a publication the prober turns to the next provider.  The others wait
\* for what comes, with their locals forgotten.
Proceed(w) ==
    IF MoreToProbe(w)
    THEN /\ about' = [about EXCEPT ![w] = Providers[Turn(@) + 1]]
         /\ pc' = [pc EXCEPT ![w] = "asking"]
    ELSE /\ about' = [about EXCEPT ![w] = IF w = Prober THEN @ ELSE Redis]
         /\ pc' = [pc EXCEPT ![w] = "idle"]

\* An error that is there already is kept.
BadWriteSecond(w) ==
    /\ pc[w] = "second"
    /\ second' = [second EXCEPT ![about[w]] = @ /\ verdict[w]]
    /\ Proceed(w)
    /\ verdict' = [verdict EXCEPT ![w] = TRUE]
    /\ UNCHANGED <<environment, first, mixed>>

\* The second write: the last error, or the gauge.
WriteSecond(w) ==
    /\ pc[w] = "second"
    /\ second' = [second EXCEPT ![about[w]] = verdict[w]]
    /\ Proceed(w)
    /\ verdict' = [verdict EXCEPT ![w] = TRUE]
    /\ UNCHANGED <<environment, first, mixed>>

\* The dependency gets better or worse.
Change(d, c) ==
    /\ changes < MaxChanges
    /\ c # condition[d]
    /\ condition' = [condition EXCEPT ![d] = c]
    /\ changes' = changes + 1
    /\ UNCHANGED <<published, pc, about, verdict>>

Publish(w) == Answered(w) \/ NoAnswer(w) \/ WriteFirst(w) \/ WriteSecond(w)

Next ==
    \/ \E w \in Writers : Tick(w) \/ Publish(w)
    \/ \E w \in Reporters, d \in Dependencies : Use(w, d)
    \/ \E d \in Dependencies, c \in Conditions : Change(d, c)

Spec == Init /\ [][Next]_vars

\* Tickers tick, and calls come to an end: a ping and a probe by their timeouts,
\* a request's by those of the transport.  A request need not use anything.
FairSpec ==
    /\ Spec
    /\ \A w \in {Monitor, Prober} : WF_vars(Tick(w) \/ Publish(w))
    /\ \A w \in Reporters : WF_vars(Publish(w))

-----------------------------------------------------------------------------
TypeOK ==
    /\ condition \in [Dependencies -> Conditions]
    /\ changes \in 0 .. MaxChanges
    /\ first \in [Dependencies -> BOOLEAN]
    /\ second \in [Dependencies -> BOOLEAN]
    /\ mixed \in [Dependencies -> BOOLEAN]
    /\ pc \in [Writers -> {"idle", "asking", "first", "second"}]
    /\ about \in [Writers -> Dependencies]
    /\ verdict \in [Writers -> BOOLEAN]
    /\ about[Monitor] = Redis
    /\ about[Prober] # Redis

\* The two fields of a dependency that nobody is publishing contradict each other
\* only if its last publication overlapped another one: a healthy Redis with an
\* error, or a gauge that says another thing than the map, is never left behind by
\* writers that came one after the other (redis.go:97-115, health.go:142-145).
MixedOnlyByOverlap ==
    \A d \in Dependencies :
        Writing(d) = {} /\ ~mixed[d] => first[d] = second[d]

\* No request is about to publish a failure of d.
NoFailureReported(d) ==
    \A w \in Reporters : pc[w] \in {"first", "second"} /\ about[w] = d => verdict[w]

\* What becomes of a status when the condition of its dependency no longer changes,
\* while requests go on, whatever overlapped and however late a report came.  A
\* dependency that treats nobody well ends up as unhealthy in both fields.  One that
\* treats probes well is published as healthy again and again, though it need not
\* stay that way as long as requests fail; if they no longer do, it stays.  A
\* provider that does not answer keeps the prober from the others no longer than its
\* timeout (redis.go:66-95, health.go:32-54, 74-115).
StatusSettles ==
    \A d \in Dependencies :
        /\ <>[](condition[d].probe # "well" /\ condition[d].request # "well")
              => <>[](~first[d] /\ ~second[d])
        /\ <>[](condition[d].probe = "well") => []<>first[d] /\ []<>second[d]
        /\ <>[](condition[d].probe = "well" /\ NoFailureReported(d))
              => <>[](first[d] /\ second[d])
=============================================================================
