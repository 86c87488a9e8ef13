# Formal models of go-llm-gateway

TLA+ modules that model the gateway's core logic, TLC configurations that check
them on small instances, and proofs, checked by TLAPS, of what holds on every
instance. Source paths below are relative to `src/`. A module maps to code
through `PROJECT.json` (`map`: definition, file, lines).

Operators named `Bad...` are never part of a specification. Each one stands
right above a definition and is that definition with a plausible slip (a missing
guard, a swapped order, an off-by-one). Replacing the definition by its slip
breaks the property that `PROJECT.json` (`mutants`) names: that is how each
property is known to depend on the code.

## 1. The system

The gateway is one process that serves `POST /v1/chat/completions` to holders of
gateway tokens and forwards it to LLM providers. Each request is a goroutine
that runs through the middlewares that `internal/router/router.go:26-37` chains:

    RequestMeta -> AccessLog -> Auth -> RateLimit -> BodyContext
      -> ModelRouter -> Metrics -> Cache -> proxy

| component | state | operations | who interacts with it |
|---|---|---|---|
| miss coalescer (`middleware/cache.go:129-164`) | map of call objects under a mutex, a channel per call | `Do` | every cache miss; the execution runs the proxy |
| response cache (`cache.go:166-663`) | entries in Redis, goroutines that store and audit | the middleware, `storeCacheAsync` | coalescer, Redis flag, audit queue, proxy |
| Redis availability (`pkg/cache/redis.go`) | a flag, a time and a last error, written by everybody | `ReportRedis*`, ping at the start, monitor | cache, rate limiter, readiness endpoint |
| upstream proxy (`proxy/proxy.go`) | per request: active provider, attempt, counters | `ServeHTTP`, the retry loop | breakers, health map, cache |
| circuit breakers (`proxy/transport.go`) | one gobreaker per provider | `RoundTrip` | all requests to the provider; the prober goes round them, over the transport below (`proxy.go:52-53`) |
| provider health (`proxy/health.go`) | map under a lock, a gauge outside it | seeding, the active prober, `markPassiveProbeResult` | proxy, readiness endpoint |
| rate limiter (`middleware/ratelimit.go`, `local_limiter.go`) | a limiter in Redis, a map of local token buckets | the middleware, `Allow` | Redis flag |
| quota and usage (`tenant/usage.go`) | per client, per day: tokens booked | `IsDailyQuotaExceeded`, `RecordUsage` | rate limiter, audit workers |
| audit queue (`audit/aduitor.go`) | a bounded channel, three workers | `PushRecord`, worker loop | cache, usage |
| token registry (`tenant/registry.go`) | map built at start, read-only | `ResolveToken` | auth |
| configuration (`config/config.go`) | read-only after start | load, default, validate | everything |
| request chain (`router`, `auth.go`, `body.go`, `middleware/router.go`) | contexts attached on the way down | one handler each | everything |
| request metadata and access log (`requestmeta.go`, `accesslog.go`) | headers of the response, one log line | outermost two handlers | all that write headers |
| metrics (`metrics.go`, `metrics/*.go`) | counters, the in-flight gauge | `MetricsMiddleware`, increments everywhere | whoever scrapes them |
| streaming (writers of `cache.go`, `metrics.go`, `accesslog.go`) | wrapped response writers, usage seen so far | `Write`, `Flush` | proxy, audit |
| management endpoints (`router/admin.go`, `middleware/*_endpoint.go`, `ip_cidr.go`) | a token bucket per endpoint | guards | rate limiter's bucket |
| translation (`adapter`, `model`), logging, build info | none | pure | proxy |

Hard behaviours: goroutines that meet in the coalescer, the breakers and the
buckets; state read before an upstream call of minutes and used after it
(whether to store, what the quota was, which generation of the breaker admitted
the call); clients that leave in the middle; Redis going and coming back, with
reports that arrive late; verdicts published in several writes without a common
lock; headers and contexts that depend on the order of nine handlers; a bounded
queue that drops; midnight and restart. The list, each with its line, is
`hazards` in `PROJECT.json`.

What makes each component correct is the list of properties in section 3.

## 2. Modules

| module | models | state and actions |
|---|---|---|
| `SingleFlight` | what `Do` promises: abstract | who asks, what runs, what is owed; `Ask`, `Finish`, `Answer`, `Abandon` |
| `Coalescer` | `responseCoalescer.Do` | the two critical sections are `Lead`/`Follow` and `Publish`; a follower's `select` is `Receive`/`GiveUp`; `Panic` unwinds past the second section, since `Do` has no `defer` |
| `ResponseCache` | `CacheMiddleware`, `storeCacheAsync`, the flag and its monitor | instantiates `Coalescer` on its own variables; one action per access to something shared: `CheckRedis`, `Get`, `Hit`/`Miss`/`GetFailed`, the sections of `Do` (`Coalesce`), `Deliver`; the goroutines left behind are `Set`, `SetReport`, `Audit`; `Ping` and `Mark` are the monitor |
| `DependencyStatus` | what is published of Redis and of the providers, and by whom | a condition says how a dependency treats probes and how it treats requests; the two writes of a verdict are `WriteFirst` and `WriteSecond`; `Tick` starts the monitor's ping and the prober's round, `Proceed` takes the prober to the next provider, `Use` is a request; `Answered`/`NoAnswer` is what each learns |
| `RequestChain` | the nine handlers of `NewRouter` around one another | one action per handler on the way down (go on, or refuse), `Up` for the way back, `Panic`; the cache layer asks `SingleFlight`; `Sees` says which contexts a layer can read |
| `Breaker` | gobreaker as `getBreaker` configures it | operators on a record: `Admits`, `Admit`, `After`, `ReadyToTrip` |
| `ProxyFailover` | `ServeHTTP` and the retry loop, over `Breaker` | per attempt `Admitted`/`Refused`, `Outcome`, `Decide` (health map and retry decision); `Copy` relays |
| `TokenBucket` | what `Allow` promises: abstract, refilled all the time | `Allow`, `Deny`, `Tick` |
| `RateLimit` | `RateLimitMiddleware` after its quota check, `local_limiter.go` | the flag, which the others may take up or down at any time (`Reported`), the call to Redis and its outcome (`AtRedis`, `RedisFails`), the loss of its data (`Forget`), the two mutexes of the local limiter (`Find`, `Decide`) |
| `Billing` | the quota check, `PushRecord`, the workers, `RecordUsage` | `Admit`/`Refuse`, `Spend`, `Push`/`Drop`, `Take`, `Book` or, if the fingerprint finds nobody, `LogOnly`, `Midnight`, `Restart` |
| `Tenants` | | the requests that `Billing` and `Admission` both speak of |
| `Config` | `LoadConfig` after viper | operators on a configuration file: what it becomes (`Loaded`) and whether it is refused (`LoadRefused`) |
| `Admission` | token registry, `AuthMiddleware`, the fingerprint and its look-up | extends `Config`; `Load` at the start, `Authenticate` per request, `Charge` when its usage is recorded |
| `Streaming` | `writeUpstreamResponse` and the wrapped writers, for one stream | `Write` (any part of what arrived), `CopyEnds`, `Return`; around them `Send`, `End`, `Break`, `Disconnect` |
| `CoalescerProofs`, `ResponseCacheProofs`, `ProxyFailoverProofs`, `RateLimitProofs`, `DependencyStatusProofs`, `StreamingProofs`, `RequestChainProofs` | theorems about the module of that name | |
| `TenantProofs` | theorems about `Billing`, `Config` and `Admission`, and the lemmas on folds they share | |
| `MC...` | instances for TLC | |

The composition is by shared state: the sections of `Do` in `ResponseCache` are
the actions of `Coalescer`, so that it uses it as specified by construction,
`ProxyFailover` contains
one `Breaker` per provider, and `Billing` spans the admission of a request, the
queue and the books. `RequestChain` puts the whole way of a request together: it
contains `SingleFlight`, which `Coalescer` is proved to implement, and leaves open
what the other modules decide (the limiter's verdict, a hit or a miss, the
upstream's answer). The flag of `pkg/cache` appears three times: in
`ResponseCache` with the requests of a few keys and the monitor, and with the
failures that other traffic reports (`OthersFail`); in `RateLimit` with its other
users summarised by one action that moves it at will (`Reported`); and in
`DependencyStatus` with all its writers and the error that is written next to it. The health map is written by
attempts in `ProxyFailover` and by everybody in `DependencyStatus`.
`Admission` ties three things together that the code keeps apart: what a file
asks for, whom `AuthMiddleware` lets in, and whose snapshot `RecordUsage` finds.
The other modules rely on what `Admission` checks of an accepted configuration
(`ServesWithSaneNumbers`): a positive burst, a ratio within 0..1, and so on.

What the abstraction drops: a response is its execution and its kind, an upstream
answer is one of five outcomes (each with a different treatment in the retry loop
or the breaker), a token is a sequence of words, a stream is a count of pieces,
an identifier is the request it names. Log lines and headers appear only where a
property is about them.

## 3. What is checked

Every run below explores its instance completely. Deadlock is checked only in
`rate_limit`, which has no liveness property: elsewhere a gateway without further
requests stops, and a goroutine that is stuck shows in the liveness properties.

### Runs that pass

| run | instance | distinct states |
|---|---|---|
| `coalescer` | 3 requests for one key, 1 for another; 2 results; executions may panic | 97,832 |
| `response_cache` | 2 requests of one key, 5 kinds of response, 1 outage, other traffic that reports failures without end, every setting of `cache.enabled`, `cache.coalesce_enabled` and `stream` | 476,256 |
| `dependency_status` | Redis and 2 providers, monitor, prober, 1 goroutine that serves requests without end, 1 change of condition | 693,807 |
| `request_chain` | 2 requests of one key; an upstream that identifies its answers by its own name, by the request's, or not | 46,656 |
| `proxy_failover` | 2 requests over 2 providers, 1 request without a route; 1 and 2 retries | 357,612 |
| `billing` | 3 requests of one client, 1 of another, whose token has two words and whom the fingerprint does not find; a queue of 1, 2 workers, 1 midnight, 1 restart | 254,120 |
| `rate_limit` | 2 goroutines for one client with a token of the plain list, 2.5 requests/s, burst 2, 3 ticks of 1/3 s, Redis loses its data once per window | 1,262,318 |
| `admission` | some 28,000 configuration files, one request with any of 10 headers | 85,924 |
| `streaming` | 4 events of 2 pieces, a copy buffer of 4 and a server buffer of 3 pieces | 8,394 |

**`coalescer`.** *OneExecutionPerKey*: concurrent misses of a key never both
execute. *NoLostWakeup*: a waiting follower holds a call object of its own key
that is closed already, or that sits in the map under a leader that will close
it. *Implements*: `Do` is single flight (`SingleFlight`), so nobody is given the
outcome of an execution that had ended before he asked. *EveryCallerReturns*:
whoever does not come back waits for an execution of its key that panicked or
never ends, and of those the ones whose client left come back all the same.
Executions are not assumed to end. Three requests of a key are a leader, a follower, and a request
that arrives around the deletion of the entry.

**`response_cache`.** *RepliesSound*: what a client gets was given by the
upstream, and a hit was a 200 within the limit. *ExecutorPays* and
*ExecutionsBilled*: exactly who executed is billed, even if it left, and a hit
replays only what was billed to somebody. There is one exception, which the
property names: a 200 that fits is stored and replayed even if no usage could be
read from it, because its body broke off (`proxy.go:167` only logs that) or is not
in OpenAI's form (`emitNonStreamAudit` reads Anthropic's as zero tokens).
*FlagFollows*: whatever reports are late, the flag of a Redis that stays away
settles at down, and a Redis that stays reachable is put back into use again and
again. It is not put back for good: as long as there is traffic, a client that
leaves in a call of the limiter or an empty payload takes the flag down after any
ping. *EveryRequestAnswered*: no
answer only for a client that left; a leader that leaves silences nobody. Two
requests of one key give every pair of a reader, a writer, a leader and a
follower; one outage gives failing calls, late reports on both sides of it, and
recovery.

**`dependency_status`.** *MixedOnlyByOverlap*: a healthy Redis with an error next
to it, or a gauge that contradicts the map, is left behind only by publications
that overlapped; the code does let them overlap, and the mixture then stays until
the next verdict. *StatusSettles* says what becomes of a status once the
condition of its dependency no longer changes, whatever overlapped and however late
a report came. One that treats neither probes nor requests well ends up as
unhealthy in both fields. One that treats probes well is published as healthy again
and again; that it stays so is claimed only if requests stop reporting failures,
for the requests of clients that leave, or that a provider refuses while its probes
succeed, make its status alternate as long as they come. For Redis this takes the
monitor, since requests stop asking, and for a provider it takes the prober to get
past another one that does not answer. Two providers are the least for which a round has an
order, and with the monitor, the prober and a request every dependency has two
writers.

**`request_chain`.** *CountersAddUp*: what `accepted`, `rejected`, the gauge of
requests in flight and `gateway_requests_total` say together about the same
requests at any moment, and that each of them, each line of the log and each
limit is about somebody known. *RepliesIdentified*: a reply carries the identifier
of its own request, except in the three cases that the property lists: the
upstream's stands next to it when a response passes through, and replaces it when
the response was recorded, and a follower may get its leader's.
*EveryRequestConcludes*: every request is answered and logged once, unless it
panics or waits for one that did. The first two also say that the order of the
chain is right: a layer that moved would not find its context.

**`proxy_failover`.** *BudgetsSpentInOrder*: a provider is given up after its
whole retry budget, never before and never exceeded; the failover counter counts
exactly those given up. *BreakerKnowsItsCalls*: outcomes of calls from before a
change of state do not move the breaker, the half-open limit holds, and a
half-open breaker that admits nobody waits for a probe that is under way.
*TripsForCause*: it opens for failures of its provider, or for calls whose clients
left, and after the minimum of calls. *EveryRequestAnswered*. Two calls trip a
breaker here, two probes close it, and two requests that share it give a late
outcome of each kind.

**`billing`.** *RecordInOnePlace*: a record is once in the queue, or with one
worker, or on the books. *SnapshotsAddUp*: a snapshot is the sum of its client's
records booked that day. *OvershootBounded*: the usage stays below the limit plus
what the requests let in together can cost, and no better bound holds (nothing is
reserved). *SpendingBooked*: what a client spent whom the fingerprint finds is
booked unless the queue was full or the process restarted; of a client whom it does
not find (`Unfound`: holders of tokens of several words, see `admission`) nothing is
ever booked. `Concurrency` bounds the unbooked requests of a client; the
code has no such bound, and without one a client overshoots without limit.

**`rate_limit`.** *LocalIsBucket*: the lazily made and lazily refilled bucket gives
the verdicts of the abstract `TokenBucket`, which is there from the start and
refilled all the time. *WindowBound*: in no window of time does a client get more
than burst plus rate from it. *TwiceTheLimit*: a client may move between the two
limiters as often as the flag flips, and its calls may fail before or after Redis
gave its verdict, but no request is let through that neither limiter allowed. In a
window that comes to twice the burst and twice the rate, another burst for each loss
of Redis's data, and a request per goroutine that Redis allowed before the window
began and that passes in it. A token refills within the 3 ticks, a bucket of 2 empties, and the rate
is no multiple of the tick.

**`admission`.** *ResolvesAsConfigured*: a process that serves knows exactly the
tokens its file asks for, each with its own name and limits; no entry is lost to
padding, to the order of the steps of `LoadConfig`, or to another entry.
*ChargedToCaller*: usage goes to the identity that was admitted, for tokens of one
word; for a token of several words nobody is found and nothing is charged. It is
only true of files none of whose tokens reads like a header: the token `bearer a`
has the fingerprint of `a`, `validateTokenCatalog` lets both into one file, and who
calls with `a` may then be charged as the other. The property has that as its
hypothesis, and the instance contains such a file. *ServesWithSaneNumbers*: what passes defaults and validation suits the code
that divides by it. The files are all lists of two tokens with all their variables
and up to two structured entries (each way of being refused is among them), and
all pairs of numbers away from their defaults.

**`streaming`.** *BilledUnlessCut*: a stream is billed exactly if its usage line
was read and no read cut it in two, whatever happened to the client.
*EndedStreamArrives*: a stream that ends arrives whole, and every stream that ends
or breaks lets its handler return. With a buffer of 3 and copies of up to 4 pieces,
writes that fit, that overflow, and that bypass the buffer all occur.

### Runs that find a violation

Each checks one statement that the repository makes of itself and finds the code
in disagreement; `findings` quotes the line.

| run | statement | what happens |
|---|---|---|
| `empty_payload` | Redis is given up because a GET failed (`cache.go:265`) | an upstream 200 with an empty body is stored; the next GET of its key succeeds, is no hit, and takes the branch for errors: Redis is out of service until the next ping, for the rate limiter too |
| `client_aborts` | the health gauge is the health of providers (`prometheus.go:95`) | a call that is aborted because its client left counts as a failure of the provider: it is reported unhealthy though it never failed |
| `stream_pauses` | streaming passthrough (`README.md:12`) | `Flush` ends at a wrapper without it: while the upstream pauses, events that it sent stay in the server's buffer |

Disagreements that were met on the way and need no run, since reading shows them:

- the counter of dropped audit records (`prometheus.go:118`) is incremented nowhere;
- `NormalizeBearerToken` takes the token of a header from two fields only
  (`pkg/redact/token.go:10-23`), so that a token of two words, which configuration
  and `AuthMiddleware` accept, has a fingerprint that nobody is found by: its usage
  is charged to nobody. `ChargedToCaller` is stated for tokens of one word;
- `RecoveryMiddleware` is said to be enabled (`README.md:66`) and is in no chain;
- headers of the gateway are put on the response first, so that they are there in
  any case (`requestmeta.go:32`), but a recorded response replaces `X-Request-ID`;
  `RepliesIdentified` says exactly when;
- the access log reads provider and model from a context that a handler below it
  attaches (`accesslog.go:76-88`), and never finds them.

### Fairness

A goroutine that can run is taken to run: weak fairness of each handler, worker
and background goroutine, which is what the Go scheduler gives. The monitor of
Redis and the prober are fair because their tickers are, and what they wait for is
bounded: a ping by 2 s (`redis.go:87`), a probe by `health_check_timeout`
(`health.go:75-80`). Requests in `DependencyStatus` go on for ever; they need not
ask anything, but end what they asked. In `RequestChain` a handler that can go on does; nobody has to
panic or to leave. Nothing is assumed of clients, of Redis, of the entries'
expiry, of the upstream in `Streaming`, or of executions in `Coalescer`, which may
run for ever. `RateLimit` has no fairness. The other runs assume that an upstream
call comes to something: `proxy.go:36-50` bounds dialling, TLS and the wait for
headers. It does not bound the body, and `io.Copy` has no timeout: an upstream
that starts a body and never ends it holds its handler, its key in the coalescer
and all followers of it whose clients stay, which is what `EveryCallerReturns` of
`coalescer` says. The liveness properties of `response_cache`, `request_chain` and
`proxy_failover` hold as long as bodies end.

## 4. What is proved

The theorems hold for every number of requests, keys, clients, workers, providers
and time, and for every value of the constants within the `ASSUME` of the module.

- **`CoalescerProofs`**: types, `OneExecutionPerKey`, `NoLostWakeup`, and
  `Spec => Implements`, the refinement of `SingleFlight`. None of the properties
  is inductive: that a second leader cannot get in needs to know that a leader is
  still in the map, and that an entry of the map leads to a leader of that key.
  `IInv` adds both (`EntriesLead`, `LeadersEntered`), that what is published is
  filled (`PublishersFilled`), and that nothing is filled before it runs
  (`NewUnfilled`). For the refinement the abstract `due` of a follower is the
  result in the call object it waits on; `Publish` maps to `Finish`, everything
  else to `Ask`, `Answer`, `Abandon` or a stutter.
- **`TenantProofs`**, of `Billing`: types, `RecordInOnePlace`, `OvershootBounded`,
  `SnapshotsAddUp`. The bound on what is booked follows from a bound on what is
  booked and what is still open: `Reserved` says that usage plus `MaxCost` for each
  unbooked request of a limited client stays below its limit plus
  `MaxCost * Concurrency`, and that there are no more than `Concurrency` of those.
  `Admit` establishes it for one more request since the usage was below the limit
  then; `Book` moves an amount from one side to the other. It needs
  `RecordInOnePlace`, for a record must not be booked twice. So does
  `SnapshotsAddUp`: `Book` adds one request to the set that is summed up, and
  `Spend` only changes the cost of one that is not in it.
- **`TenantProofs`**, of `Admission`: types, `ResolvesAsConfigured`,
  `ChargedToCaller`, `ServesWithSaneNumbers`, for files with lists of any length.
  Most of it is about what `LoadConfig` and `rebuild` compute. `UniqueFacts` and
  `IdentityFacts` say what the two loops return; `LoadedValid` and `LoadedTokens`
  follow the tokens through the steps of `LoadConfig`; with `OneIdentity`, which is
  what the validation is for, `RegistryFacts` says what each look-up finds. The
  invariant, `AdmissionInv`, then ties a request to its header: it passed as the
  identity of the token behind "Bearer", and its payer is what the same registry
  gives for the fingerprint. That the two agree is `PayerIsCaller`: of a header of
  two words the fingerprint is the token, of a longer one it is the fingerprint of
  nothing. `AdmissionAssumption` says what kind of thing files and headers are.
- **`RateLimitProofs`**: types, `WindowBound`, `TwiceTheLimit`, and
  `Spec => LocalIsBucket`. The refinement mapping is the level the bucket would
  have if it were refilled now; the lemmas show that time raises it by the rate up to the capacity, that making
  or finding the bucket leaves it, and that a decision takes one token exactly if
  there is one. `Reserve` strengthens `WindowBound` by what is left in the
  bucket: granted plus level never exceeds capacity plus what the window added.
  `Both` does the same for the two limiters together: what passed, what Redis has
  allowed to requests that are still on their way (`Promised`), and what is left in
  both buckets.
- **`DependencyStatusProofs`**: types, with the prober staying within its list, and
  `MixedOnlyByOverlap`. What it needs is `Alone`: as long as a publication overlaps
  no other, whoever is between its two writes is the only one there, and the field
  written first holds its verdict.
- **`StreamingProofs`**: types (no byte is written to the client that was not read,
  none read that was not sent, whatever the sizes of the buffers) and
  `BilledUnlessCut`. `UsageFound` strengthens the latter to every state before the
  handler's return; it needs that the place up to which was read is itself a cut.
- **`ProxyFailoverProofs`**: types, `BudgetsSpentInOrder`, `BreakerKnowsItsCalls`,
  `TripsForCause`. `Spent` is the account of a request in the middle of an attempt:
  what was used of each candidate, the attempt it is at, and `failovers` as the
  number of candidates given up (`GivenUp`). `Sound` says of a breaker what its
  counters mean: half-open, its calls are the successes in a row and the probes on
  their way, and it has had fewer successes than it takes. So if it is full some
  probe is under way, which is why it cannot be stuck. `Calls` ties the probes to
  requests in flight. Candidates, budgets and the settings of the breakers are
  arbitrary.
- **`ResponseCacheProofs`**: types, `RepliesSound`, `ExecutorPays`.
  Every step of the middleware is a step of `Coalescer` or leaves its variables
  alone, so that the invariant of `CoalescerProofs` holds here as well
  (`CoalescerStep`). `Replayable` says what may be in Redis: a response that an
  execution gave, that was storable, and whose executor is billed or is about to
  be. It holds of what a storing goroutine still has to store (`Accounts`), of what
  Redis has, and of what a handler read and has not looked at yet (`Replays`). No
  step takes it back (`ReplayableKept`), since what the upstream gave a request
  never changes (`ExecutedKept`), nor does who was billed (`BillKept`).

- **`RequestChainProofs`**: types, `CountersAddUp`, `RepliesIdentified`, and
  `Spec => F!Spec`: the chain uses single flight as promised. Every step moves one
  request, so the invariant is per request: which layer can have answered given
  where it is (`Placed`), what is logged and counted by then (`Recorded`), whose
  identifiers its response bears (`Identified`). `Executions` ties them to the
  coalescer: what is owed to a follower bears the identifiers of its executor. For
  the counters, `Moves` reduces the actions to six kinds of move, each counter is
  the cardinality of the set of requests past it (`Sums`), and `OneMore` counts two
  sets that differ in one request.

TLC checked each inductive invariant before it was proved, that of `Admission` on a
part of the files of its run.

Three of these rest on folds: usage is a `SumFunctionOnSet`, `uniqueNonEmpty` and
the list of `rebuild` are a `FoldLeft`. The library defines a fold as a chosen
function with a recursive equation, and its theorems on recursive functions take
operators, which the provers here cannot instantiate. `TenantProofs` therefore
proves what it needs from the well-foundedness of the natural numbers: induction
with a set in the place of the predicate (`NatInduct`, `SetInduct`), and that the
equation of a fold over a finite set has a solution (`FoldExists`). After that a
sum or a loop can be reasoned about one element at a time.

Every safety property that a passing run checks, invariant, action property or
refinement, is the statement of a theorem. Only model-checked: all liveness, which
needs `ENABLED`, and the three properties that the code violates.

## 5. What is abstracted, and what is left out

- **gobreaker** is external: `Breaker` models what `getBreaker` configures and
  relies on. It notices lazily, at the next call, that a period has passed; the
  model lets the period pass at any moment, so that there is at least every
  behaviour of the lazy one. The gauge of its state is left out.
- **The limiter in Redis** is external: a token bucket of the same limit, refilled
  as time passes, that may come back full. A client whose requests are decided here
  and there while the flag flips has two buckets; `WindowBound` is about the local
  one, `TwiceTheLimit` about both. A rate of zero, which the conversion of a token's
  own limit may give, is covered by the theorems and is not in the instance.
- **Connections.** The prober and the requests share a transport with at most 256
  connections per host (`proxy.go:46`). `DependencyStatus` counts a provider all of
  whose connections are taken among those that do not answer.
- **The time of a status** (`redisLastUpdated`, `UpdatedAt`) says nothing that a
  property uses.
- **Floats** are whole parts: `Unit` parts are a token, `RatioDen` parts a ratio of 1.
- **Bodies** are copied in one step except in `Streaming`. In `ResponseCache` one
  that broke off is of kind `mute`.
- **A client that leaves** does so in `ResponseCache` only where a handler looks at
  it, which is in the coalescer: elsewhere it would change nothing but the number
  of states.
- **`stream_options`**: the gateway asks for the usage of a stream unless the client
  said whether it wants it (`body.go:117-147`). A stream whose client declined has
  no usage event, and is not billed; `Streaming` has one, `ResponseCache` lets it
  be missed.
- **Redirects**, which `http.Client` would follow, the other headers, translation
  between providers (a pure conversion of the request; `ProxyFailover` only tells
  whether it succeeds), and cache keys (a key is a model value: different requests
  have different digests) are left out.
- **Costs** are natural numbers. A provider that reports negative usage is not
  modelled.
- **Reading the file** is viper's; whether a path, a CIDR, a URL or a duration
  parses is one flag or one number. Of a token only value, name and limits count.
- **Histograms and most counters, logging, build info** have no effect on the
  system, and nothing is stated of them.
- **The management endpoints** are read-only listings behind guards. A guard is
  three conditions in a row and a token bucket, the one that `TokenBucket` and
  `RateLimit` are about; a property of it would repeat its conditions.
- **Shutdown** waits for handlers in `net/http` and for nothing else; what that
  loses is `Restart` in `Billing`.

The state and operations of each component that is not modelled, with the reason,
are in `components` of `PROJECT.json`.

## 6. What could come next

1. `Lifecycle`: start, graceful shutdown and what it drains, over `Billing`.
2. That the numbers `ServesWithSaneNumbers` is about are those the other modules
   assume, as a theorem over their `ASSUME`s.
3. The retry loop with bodies that take several steps, so that a slow body and a
   breaker meet.
