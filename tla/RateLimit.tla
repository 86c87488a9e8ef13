----------------------------- MODULE RateLimit -----------------------------
(***************************************************************************)
(* RateLimitMiddleware (src/internal/middleware/ratelimit.go) after its    *)
(* quota check, which is Billing's: the distributed limiter in Redis while *)
(* the availability flag is up, and the token buckets of                   *)
(* local_limiter.go when it is down or the call fails.                     *)
(*                                                                         *)
(* Why a call of Redis fails is left open: the server is away, the client  *)
(* left, the connection broke.  So does the flag: the monitor, the cache   *)
(* and its empty payloads take it up and down at any time.                 *)
(*                                                                         *)
(* A slot handles one request after another.  Behind AuthMiddleware every  *)
(* request has a token, so that limitKey stands for a client.              *)
(***************************************************************************)
EXTENDS Naturals, FiniteSets

CONSTANTS
    Slots,              \* handler goroutines
    Clients,            \* gateway tokens
    ClientOf,           \* ClientOf[s]: whose requests a slot handles
    AuthQps, AuthBurst, \* auth.rate_limit_qps (in tenths), auth.rate_limit_burst
    TokenQps,           \* RateLimitQPS of the client's identity (in tenths), 0 for none:
                        \* its own, or AuthQps for a token of the plain list (registry.go:68)
    TokenBurst,         \* RateLimitBurst of it likewise
    Unit,               \* ticks per second, and parts per token
    MaxTime,            \* bound: ticks
    MaxLosses,          \* bound: how often Redis loses its data in a window
    None

ASSUME RateLimitAssumption ==
    /\ IsFiniteSet(Slots)
    /\ ClientOf \in [Slots -> Clients]
    /\ AuthQps \in Nat \ {0} /\ AuthBurst \in Nat \ {0}     \* validateConfig
    /\ TokenQps \in [Clients -> Nat]
    /\ TokenBurst \in [Clients -> Nat]
    /\ Unit \in Nat \ {0}
    /\ MaxTime \in Nat /\ MaxLosses \in Nat
    /\ None \notin Nat \cup {"allowed", "denied"}

VARIABLES
    clock,
    tokens,         \* tokens[c]: of the local bucket of c, None before it exists
    last,           \* last[c]: when it was last refilled
    redisHealthy,   \* the availability flag
    store,          \* store[c]: parts in the bucket of c that Redis keeps
    pc,             \* where the middleware is
    got,            \* what Redis answered, until the handler has looked at it
    said,           \* said[c]: the last verdict of the local bucket of c
    since,          \* a window of observation began here; in it ...
    granted,        \* ... granted[c] is what the local bucket of c allowed,
    passed,         \* passed[c] the requests of c that the middleware let through,
    losses          \* and so often Redis lost its data

localVars == <<tokens, last>>
handlerVars == <<pc, got>>
window == <<since, granted, passed, losses>>
vars == <<clock, localVars, said, redisHealthy, store, handlerVars, window>>

\* int(qps) with the defaults of lines 57-72; a token's own value is not checked
\* again after the conversion.
Rate ==
    [c \in Clients |->
        IF TokenQps[c] > 0 THEN TokenQps[c] \div 10
        ELSE IF AuthQps \div 10 > 0 THEN AuthQps \div 10 ELSE 1]

Burst == [c \in Clients |-> IF TokenBurst[c] > 0 THEN TokenBurst[c] ELSE AuthBurst]

Full(c) == Burst[c] * Unit

\* The refill is not capped.
BadCapped(n, c) == n

Capped(n, c) == IF n > Full(c) THEN Full(c) ELSE n

Init ==
    /\ clock = 0
    /\ tokens = [c \in Clients |-> None]
    /\ last = [c \in Clients |-> 0]
    /\ redisHealthy \in BOOLEAN
    /\ store = [c \in Clients |-> Full(c)]
    /\ pc = [s \in Slots |-> "idle"]
    /\ got = [s \in Slots |-> None]
    /\ said = [c \in Clients |-> "nothing"]
    /\ since = 0
    /\ granted = [c \in Clients |-> 0]
    /\ passed = [c \in Clients |-> 0]
    /\ losses = 0

-----------------------------------------------------------------------------
(* The handler.                                                            *)

\* RedisRateLimiterAvailable
Arrive(s) ==
    /\ pc[s] = "idle"
    /\ pc' = [pc EXCEPT ![s] = IF redisHealthy THEN "redis" ELSE "local"]
    /\ UNCHANGED <<clock, localVars, said, redisHealthy, store, got, window>>

\* The limiter in Redis (external), a token bucket of the same limit, gives its
\* verdict.
AtRedis(s) ==
    LET c == ClientOf[s] IN
    /\ pc[s] = "redis"
    /\ \/ /\ store[c] >= Unit
          /\ store' = [store EXCEPT ![c] = @ - Unit]
          /\ got' = [got EXCEPT ![s] = "allowed"]
       \/ /\ store[c] < Unit
          /\ got' = [got EXCEPT ![s] = "denied"]
          /\ UNCHANGED store
    /\ pc' = [pc EXCEPT ![s] = "answer"]
    /\ UNCHANGED <<clock, localVars, said, redisHealthy, window>>

\* The call returns an error; the verdict may have been given and a token spent.
RedisFails(s) ==
    /\ pc[s] \in {"redis", "answer"}
    /\ pc' = [pc EXCEPT ![s] = "error"]
    /\ got' = [got EXCEPT ![s] = None]
    /\ UNCHANGED <<clock, localVars, said, redisHealthy, store, window>>

\* The request goes to the next handler or is refused; the slot takes another.
Finish(s, allowed) ==
    /\ pc' = [pc EXCEPT ![s] = "idle"]
    /\ passed' = IF allowed THEN [passed EXCEPT ![ClientOf[s]] = @ + 1] ELSE passed

\* err == nil: report success, and the verdict of Redis stands.
Answered(s) ==
    /\ pc[s] = "answer"
    /\ redisHealthy' = TRUE
    /\ got' = [got EXCEPT ![s] = None]
    /\ Finish(s, got[s] = "allowed")
    /\ UNCHANGED <<clock, localVars, said, store, since, granted, losses>>

\* A request whose verdict is unknown is let through.
BadFailed(s) ==
    /\ pc[s] = "error"
    /\ redisHealthy' = FALSE
    /\ Finish(s, TRUE)
    /\ UNCHANGED <<clock, localVars, said, store, got, since, granted, losses>>

\* err # nil, whatever the error: report failure and ask the local limiter.
Failed(s) ==
    /\ pc[s] = "error"
    /\ redisHealthy' = FALSE
    /\ pc' = [pc EXCEPT ![s] = "local"]
    /\ UNCHANGED <<clock, localVars, said, store, got, window>>

\* keyedLocalLimiter.Allow: find the bucket, or make a full one ...
Find(s) ==
    LET c == ClientOf[s] IN
    /\ pc[s] = "local"
    /\ IF tokens[c] = None
       THEN /\ tokens' = [tokens EXCEPT ![c] = Full(c)]
            /\ last' = [last EXCEPT ![c] = clock]
       ELSE UNCHANGED localVars
    /\ pc' = [pc EXCEPT ![s] = "bucket"]
    /\ UNCHANGED <<clock, said, redisHealthy, store, got, window>>

Refilled(c) == Capped(tokens[c] + (clock - last[c]) * Rate[c], c)

\* The verdict of the local bucket.
Verdict(s, allowed) ==
    LET c == ClientOf[s] IN
    /\ tokens' = [tokens EXCEPT ![c] = IF allowed THEN Refilled(c) - Unit ELSE Refilled(c)]
    /\ said' = [said EXCEPT ![c] = IF allowed THEN "allowed" ELSE "denied"]
    /\ granted' = IF allowed THEN [granted EXCEPT ![c] = @ + 1] ELSE granted
    /\ Finish(s, allowed)
    /\ UNCHANGED <<clock, redisHealthy, store, got, since, losses>>

\* The time of the refill is only noted when a token was taken.
BadDecide(s) ==
    LET c == ClientOf[s] allowed == Refilled(c) >= Unit IN
    /\ pc[s] = "bucket"
    /\ last' = IF allowed THEN [last EXCEPT ![c] = clock] ELSE last
    /\ Verdict(s, allowed)

\* One token is always kept back.
BadDecideLast(s) ==
    /\ pc[s] = "bucket"
    /\ last' = [last EXCEPT ![ClientOf[s]] = clock]
    /\ Verdict(s, Refilled(ClientOf[s]) > Unit)

\* ... and localTokenBucket.Allow, under its own mutex: refill for the time that
\* passed, then take a whole token if there is one.
Decide(s) ==
    /\ pc[s] = "bucket"
    /\ last' = [last EXCEPT ![ClientOf[s]] = clock]
    /\ Verdict(s, Refilled(ClientOf[s]) >= Unit)

-----------------------------------------------------------------------------
(* Time and the environment.                                               *)

\* Redis refills its buckets as time passes.
Tick ==
    /\ clock < MaxTime
    /\ clock' = clock + 1
    /\ store' = [c \in Clients |-> Capped(store[c] + Rate[c], c)]
    /\ UNCHANGED <<localVars, said, redisHealthy, handlerVars, window>>

\* Redis comes back without its data: every bucket is full.
Forget ==
    /\ losses < MaxLosses
    /\ losses' = losses + 1
    /\ store' = [c \in Clients |-> Full(c)]
    /\ UNCHANGED <<clock, localVars, said, redisHealthy, handlerVars, since, granted, passed>>

\* Observation begins anew.
Observe ==
    /\ since < clock
    /\ since' = clock
    /\ granted' = [c \in Clients |-> 0]
    /\ passed' = [c \in Clients |-> 0]
    /\ losses' = 0
    /\ UNCHANGED <<clock, localVars, said, redisHealthy, store, handlerVars>>

\* The monitor and the cache report what they saw, perhaps long ago.
Reported ==
    /\ redisHealthy' \in BOOLEAN
    /\ UNCHANGED <<clock, localVars, said, store, handlerVars, window>>

Handle(s) ==
    \/ Arrive(s) \/ AtRedis(s) \/ RedisFails(s) \/ Answered(s) \/ Failed(s)
    \/ Find(s) \/ Decide(s)

Next ==
    \/ \E s \in Slots : Handle(s)
    \/ Tick \/ Forget \/ Observe \/ Reported

Spec == Init /\ [][Next]_vars

-----------------------------------------------------------------------------
TypeOK ==
    /\ clock \in Nat /\ since \in 0 .. clock
    /\ tokens \in [Clients -> Nat \cup {None}]
    /\ \A c \in Clients : tokens[c] # None => tokens[c] <= Full(c)
    /\ last \in [Clients -> 0 .. clock]
    /\ redisHealthy \in BOOLEAN
    /\ store \in [Clients -> Nat]
    /\ \A c \in Clients : store[c] <= Full(c)
    /\ pc \in [Slots -> {"idle", "redis", "answer", "error", "local", "bucket"}]
    /\ got \in [Slots -> {"allowed", "denied", None}]
    /\ said \in [Clients -> {"nothing", "allowed", "denied"}]
    /\ granted \in [Clients -> Nat]
    /\ passed \in [Clients -> Nat]
    /\ losses \in Nat

\* The local bucket as it would be if somebody refilled it all the time.
Level == [c \in Clients |-> IF tokens[c] = None THEN Full(c) ELSE Refilled(c)]

TB == INSTANCE TokenBucket WITH level <- Level

\* The lazily refilled, lazily created bucket gives the verdicts of one that is
\* there and is refilled all the time: it neither lets a client through early
\* nor turns one away that has a token (local_limiter.go:37-68).
LocalIsBucket == TB!Spec

\* In any window of time a client gets from the local limiter at most its burst
\* and what its rate adds in that time, however Redis comes and goes.
WindowBound ==
    \A c \in Clients : granted[c] * Unit <= Full(c) + Rate[c] * (clock - since)

\* The requests of a client that are, or may be, in the middleware at once.
Mine(c) == {s \in Slots : ClientOf[s] = c}

\* However often a client moves between the two limiters and however its calls
\* fail, no request is let through that neither of them allowed: in any window it
\* gets at most what the two give together, twice its burst and twice its rate,
\* another burst whenever Redis lost its data, and what Redis had allowed when the
\* window began (ratelimit.go:96-118, 144-157).
TwiceTheLimit ==
    \A c \in Clients :
        passed[c] * Unit <= (2 + losses) * Full(c) + 2 * (Rate[c] * (clock - since))
                            + Cardinality(Mine(c)) * Unit

=============================================================================
