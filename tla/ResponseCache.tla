--------------------------- MODULE ResponseCache ---------------------------
(***************************************************************************)
(* CacheMiddleware of src/internal/middleware/cache.go: the look-aside     *)
(* response cache in Redis, composed with the Coalescer of cache misses,   *)
(* the availability flag of src/pkg/cache/redis.go that every Redis caller *)
(* reads and writes, and the goroutines the handler leaves behind (storing *)
(* the payload, auditing the usage).                                       *)
(*                                                                         *)
(* A handler takes one step per access to something shared: reading the    *)
(* flag, the GET at the server, reporting its outcome, each critical       *)
(* section of Do, and delivering.  A response is its execution and its     *)
(* kind:                                                                   *)
(*   "ok"     200, the whole body, within cache.max_payload_bytes          *)
(*   "large"  200, the whole body, over cache.max_payload_bytes            *)
(*   "mute"   200, a body that fits and that no usage can be read from: the*)
(*            upstream broke it off (proxy.go:167 only logs), or it is not *)
(*            of the OpenAI form (Anthropic's: only requests are translated)*)
(*   "empty"  200, no body                                                 *)
(*   "error"  any other status                                             *)
(***************************************************************************)
EXTENDS Naturals

CONSTANTS
    Requests, Keys, KeyOf,
    None, Cancelled, MayPanic,  \* see Coalescer
    NotFound, Failed,   \* a GET that returns redis.Nil, or another error
    Kinds,          \* the kinds of response the upstream gives
    Others,         \* other traffic may take the flag down
    MaxOutages      \* bound: how often the Redis server may go down

ASSUME ResponseCacheAssumption ==
    /\ Kinds \subseteq {"ok", "large", "mute", "empty", "error"}
    /\ Others \in BOOLEAN
    /\ MaxOutages \in Nat \ {0}

VARIABLES
    \* --- responseCoalescer
    calls, at, follows, resp, gone, ret,
    \* --- fixed at the start: the configuration (cache.enabled,
    \*     cache.coalesce_enabled) and which requests have "stream": true
    conf,
    \* --- pkg/cache and the Redis server
    redisHealthy,   \* the availability flag
    up,             \* the server answers
    outages,        \* how often it went down
    redis,          \* what the server stores per key
    ping,           \* the monitor: idle, or the outcome of its ping to be marked
    \* --- per request
    pc,             \* where CacheMiddleware is
    readable,       \* the local cacheReadable, while it matters
    got,            \* the outcome of GET, until the handler has looked at it
    direct,         \* the response of an execution that bypasses the coalescer
    reply,          \* what the client was sent
    store,          \* the goroutine of storeCacheAsync
    audit           \* the audit record of the request

coalescerVars == <<calls, at, follows, resp, gone, ret>>
redisVars == <<redisHealthy, up, outages, redis, ping>>
handlerVars == <<pc, readable, got, direct, reply, store, audit>>
vars == <<coalescerVars, conf, redisVars, handlerVars>>

Responses == [by : Requests, kind : Kinds]

ASSUME ValuesAssumption ==
    /\ KeyOf \in [Requests -> Keys]
    /\ None \notin Requests \cup Responses
    /\ {Cancelled, NotFound, Failed} \cap Responses = {}
    /\ NotFound # Failed /\ None \notin {Cancelled, NotFound, Failed}
    /\ MayPanic \in BOOLEAN

C == INSTANCE Coalescer WITH Results <- Responses

\* The body is whole and has the usage as OpenAI writes it.
Billable(v) == v.kind \in {"ok", "large"}

\* Fits max_payload_bytes.  The empty body does, and so does a broken-off one.
Storable(v) == v.kind \in {"ok", "mute", "empty"}

Confs == [enabled : BOOLEAN, coalesce : BOOLEAN, streams : SUBSET Requests]

Bypass(r) == r \in conf.streams \/ ~conf.enabled

Init ==
    /\ C!Init
    /\ conf \in Confs
    /\ up \in BOOLEAN
    /\ redisHealthy = up            \* InitRedis pings
    /\ outages = IF up THEN 0 ELSE 1
    /\ redis = [k \in Keys |-> None]
    /\ ping = "idle"
    /\ pc = [r \in Requests |-> "start"]
    /\ readable = [r \in Requests |-> FALSE]
    /\ got = [r \in Requests |-> None]
    /\ direct = [r \in Requests |-> None]
    /\ reply = [r \in Requests |-> None]
    /\ store = [r \in Requests |-> "none"]
    /\ audit = [r \in Requests |-> "none"]

-----------------------------------------------------------------------------
(* The handler, up to the execution.                                       *)

\* Stream, or caching is off: the response passes through (servePassThrough).  A
\* stream is audited if its usage was seen in a single write (see Streaming),
\* another response if it is a 200.
PassThrough(r, kind) ==
    /\ pc[r] = "start"
    /\ Bypass(r)
    /\ LET v == [by |-> r, kind |-> kind]
           audits == IF r \in conf.streams
                     THEN {"none"} \cup (IF Billable(v) THEN {"billed"} ELSE {})
                     ELSE IF kind = "error" THEN {"none"} ELSE {"todo"}
       IN /\ direct' = [direct EXCEPT ![r] = v]
          /\ reply' = [reply EXCEPT ![r] = [resp |-> v, how |-> "BYPASS"]]
          /\ \E a \in audits : audit' = [audit EXCEPT ![r] = a]
    /\ pc' = [pc EXCEPT ![r] = "done"]
    /\ UNCHANGED <<coalescerVars, conf, redisVars, readable, got, store>>

\* cacheReadable := RedisAvailable()
CheckRedis(r) ==
    /\ pc[r] = "start"
    /\ ~Bypass(r)
    /\ readable' = [readable EXCEPT ![r] = redisHealthy]
    /\ pc' = [pc EXCEPT ![r] = IF redisHealthy THEN "get" ELSE "execute"]
    /\ UNCHANGED <<coalescerVars, conf, redisVars, got, direct, reply, store, audit>>

\* The GET takes effect at the server, or fails.
Get(r) ==
    /\ pc[r] = "get"
    /\ got' = [got EXCEPT ![r] = IF ~up THEN Failed
                                 ELSE IF redis[KeyOf[r]] = None THEN NotFound
                                 ELSE redis[KeyOf[r]]]
    /\ pc' = [pc EXCEPT ![r] = "got"]
    /\ UNCHANGED <<coalescerVars, conf, redisVars, readable, direct, reply, store, audit>>

\* err == nil and a payload: report success and answer from the cache.
IsHit(v) == v \notin {Failed, NotFound} /\ v.kind # "empty"

Hit(r) ==
    /\ pc[r] = "got"
    /\ IsHit(got[r])
    /\ redisHealthy' = TRUE
    /\ reply' = [reply EXCEPT ![r] = [resp |-> got[r], how |-> "HIT"]]
    /\ audit' = [audit EXCEPT ![r] = "zero"]
    /\ got' = [got EXCEPT ![r] = None]
    /\ pc' = [pc EXCEPT ![r] = "done"]
    /\ UNCHANGED <<coalescerVars, conf, up, outages, redis, ping,
                   readable, direct, store>>

\* redis.Nil: report success and execute.
Miss(r) ==
    /\ pc[r] = "got"
    /\ got[r] = NotFound
    /\ redisHealthy' = TRUE
    /\ got' = [got EXCEPT ![r] = None]
    /\ pc' = [pc EXCEPT ![r] = "execute"]
    /\ UNCHANGED <<coalescerVars, conf, up, outages, redis, ping,
                   readable, direct, reply, store, audit>>

\* Everything else, an empty payload without an error included: report failure.
GetFailed(r) ==
    /\ pc[r] = "got"
    /\ got[r] # NotFound /\ ~IsHit(got[r])
    /\ redisHealthy' = FALSE
    /\ readable' = [readable EXCEPT ![r] = FALSE]
    /\ got' = [got EXCEPT ![r] = None]
    /\ pc' = [pc EXCEPT ![r] = "execute"]
    /\ UNCHANGED <<coalescerVars, conf, up, outages, redis, ping,
                   direct, reply, store, audit>>

-----------------------------------------------------------------------------
(* The execution and what follows it.                                      *)

\* The two critical sections of Do, with executeCapturedResponse between them.
Coalesce(r) ==
    /\ pc[r] = "execute"
    /\ conf.coalesce
    /\ C!Lead(r) \/ C!Follow(r) \/ \E kind \in Kinds : C!Publish(r, [by |-> r, kind |-> kind])
    /\ UNCHANGED <<conf, redisVars, handlerVars>>

PanicIn(r) ==
    /\ C!Panic(r)
    /\ UNCHANGED <<conf, redisVars, handlerVars>>

\* The usage is audited only while the client is there.
BadContinueGone(r, v, how) ==
    /\ readable' = [readable EXCEPT ![r] = FALSE]
    /\ reply' = [reply EXCEPT ![r] = [resp |-> v, how |-> how]]
    /\ audit' = [audit EXCEPT ![r] =
                   IF how = "SHARED" THEN "zero" ELSE IF r \in gone THEN "none" ELSE "todo"]
    /\ store' = [store EXCEPT ![r] =
                   IF how = "MISS" /\ readable[r] /\ Storable(v) THEN "todo" ELSE "none"]

\* A follower is billed like the one it followed.
BadContinueShared(r, v, how) ==
    /\ readable' = [readable EXCEPT ![r] = FALSE]
    /\ reply' = [reply EXCEPT ![r] = [resp |-> v, how |-> how]]
    /\ audit' = [audit EXCEPT ![r] = "todo"]
    /\ store' = [store EXCEPT ![r] =
                   IF how = "MISS" /\ readable[r] /\ Storable(v) THEN "todo" ELSE "none"]

\* Every response that fits is stored, an upstream error included.
BadContinueStatus(r, v, how) ==
    /\ readable' = [readable EXCEPT ![r] = FALSE]
    /\ reply' = [reply EXCEPT ![r] = [resp |-> v, how |-> how]]
    /\ audit' = [audit EXCEPT ![r] = IF how = "SHARED" THEN "zero" ELSE "todo"]
    /\ store' = [store EXCEPT ![r] =
                   IF how = "MISS" /\ readable[r] /\ v.kind # "large" THEN "todo" ELSE "none"]

\* Write the response.  The one who executed audits its usage and, when Redis
\* answered its GET, stores a 200 that fits; a follower audits zero tokens.
Continue(r, v, how) ==
    /\ readable' = [readable EXCEPT ![r] = FALSE]
    /\ reply' = [reply EXCEPT ![r] = [resp |-> v, how |-> how]]
    /\ audit' = [audit EXCEPT ![r] = IF how = "SHARED" THEN "zero" ELSE "todo"]
    /\ store' = [store EXCEPT ![r] =
                   IF how = "MISS" /\ readable[r] /\ Storable(v) THEN "todo" ELSE "none"]

\* The error of Do is not looked at.
BadDeliver(r) ==
    /\ pc[r] = "execute"
    /\ \/ C!Return(r) /\ Continue(r, ret'[r], "MISS")
       \/ (C!Receive(r) \/ C!GiveUp(r)) /\ Continue(r, ret'[r], "SHARED")
    /\ pc' = [pc EXCEPT ![r] = "done"]
    /\ UNCHANGED <<conf, redisVars, got, direct>>

\* The execution is bound to the context of the leader, and so is its outcome.
BadDeliverBound(r) ==
    /\ pc[r] = "execute"
    /\ \/ C!Return(r) /\ Continue(r, ret'[r], "MISS")
       \/ C!Receive(r) /\ follows[r] \notin gone /\ Continue(r, ret'[r], "SHARED")
       \/ C!Receive(r) /\ follows[r] \in gone /\ UNCHANGED <<readable, reply, audit, store>>
       \/ C!GiveUp(r) /\ UNCHANGED <<readable, reply, audit, store>>
    /\ pc' = [pc EXCEPT ![r] = "done"]
    /\ UNCHANGED <<conf, redisVars, got, direct>>

\* Do returned: deliver, or return silently when it was the context's error.
Deliver(r) ==
    /\ pc[r] = "execute"
    /\ \/ C!Return(r) /\ Continue(r, ret'[r], "MISS")
       \/ C!Receive(r) /\ Continue(r, ret'[r], "SHARED")
       \/ C!GiveUp(r) /\ UNCHANGED <<readable, reply, audit, store>>
    /\ pc' = [pc EXCEPT ![r] = "done"]
    /\ UNCHANGED <<conf, redisVars, got, direct>>

\* Coalescing is off: execute without the coalescer.
ExecuteDirect(r, kind) ==
    /\ pc[r] = "execute"
    /\ ~conf.coalesce
    /\ direct' = [direct EXCEPT ![r] = [by |-> r, kind |-> kind]]
    /\ Continue(r, direct'[r], "MISS")
    /\ pc' = [pc EXCEPT ![r] = "done"]
    /\ UNCHANGED <<coalescerVars, conf, redisVars, got>>

\* The response the upstream gave to r itself.
Executed(r) == IF direct[r] # None THEN direct[r] ELSE resp[r]

\* What emitNonStreamAudit may find: a body that does not parse leaves no record,
\* one that parses without the fields it looks for a record of zero tokens.  The
\* body of an error may be either.
Audits(v) ==
    CASE v.kind = "empty"             -> {"unparsed"}
      [] v.kind \in {"mute", "error"} -> {"unparsed", "zero"}
      [] OTHER                        -> {"billed"}

\* The goroutine of emitNonStreamAudit.
Audit(r) ==
    /\ audit[r] = "todo"
    /\ \E a \in Audits(Executed(r)) : audit' = [audit EXCEPT ![r] = a]
    /\ UNCHANGED <<coalescerVars, conf, redisVars, pc, readable, got, direct, reply, store>>

\* The goroutine of storeCacheAsync: SET at the server ...
Set(r) ==
    /\ store[r] = "todo"
    /\ store' = [store EXCEPT ![r] = IF up THEN "stored" ELSE "failed"]
    /\ redis' = IF up THEN [redis EXCEPT ![KeyOf[r]] = Executed(r)] ELSE redis
    /\ UNCHANGED <<coalescerVars, conf, redisHealthy, up, outages, ping,
                   pc, readable, got, direct, reply, audit>>

\* ... and the report of how it went, which may come late.
SetReport(r) ==
    /\ store[r] \in {"stored", "failed"}
    /\ redisHealthy' = (store[r] = "stored")
    /\ store' = [store EXCEPT ![r] = "done"]
    /\ UNCHANGED <<coalescerVars, conf, up, outages, redis, ping,
                   pc, readable, got, direct, reply, audit>>

-----------------------------------------------------------------------------
(* The monitor goroutine and the environment.                              *)

\* The ticker fires only to confirm that Redis is still there.
BadPing ==
    /\ ping = "idle"
    /\ redisHealthy
    /\ ping' = IF up THEN "ok" ELSE "failed"
    /\ UNCHANGED <<coalescerVars, conf, redisHealthy, up, outages, redis, handlerVars>>

\* startRedisMonitor: every tick pings ...
Ping ==
    /\ ping = "idle"
    /\ ping' = IF up THEN "ok" ELSE "failed"
    /\ UNCHANGED <<coalescerVars, conf, redisHealthy, up, outages, redis, handlerVars>>

\* ... and marks what came of it.
Mark ==
    /\ ping # "idle"
    /\ redisHealthy' = (ping = "ok")
    /\ ping' = "idle"
    /\ UNCHANGED <<coalescerVars, conf, up, outages, redis, handlerVars>>

\* Somebody else reports a failure: a call of the rate limiter whose client left,
\* or a payload of another key that is empty.
OthersFail ==
    /\ Others
    /\ redisHealthy' = FALSE
    /\ UNCHANGED <<coalescerVars, conf, up, outages, redis, ping, handlerVars>>

\* A client leaves.  Elsewhere nobody looks at it, and it changes nothing.
Leave(r) ==
    /\ C!Leave(r)
    /\ pc[r] # "done"
    /\ conf.coalesce /\ ~Bypass(r)
    /\ UNCHANGED <<conf, redisVars, handlerVars>>

RedisDown ==
    /\ up
    /\ outages < MaxOutages
    /\ up' = FALSE
    /\ outages' = outages + 1
    /\ UNCHANGED <<coalescerVars, conf, redisHealthy, redis, ping, handlerVars>>

RedisUp ==
    /\ ~up
    /\ up' = TRUE
    /\ UNCHANGED <<coalescerVars, conf, redisHealthy, outages, redis, ping, handlerVars>>

\* The TTL of an entry passes.
Expire(k) ==
    /\ redis[k] # None
    /\ redis' = [redis EXCEPT ![k] = None]
    /\ UNCHANGED <<coalescerVars, conf, redisHealthy, up, outages, ping, handlerVars>>

Handler(r) ==
    \/ \E kind \in Kinds : PassThrough(r, kind) \/ ExecuteDirect(r, kind)
    \/ CheckRedis(r) \/ Get(r) \/ Hit(r) \/ Miss(r) \/ GetFailed(r)
    \/ Coalesce(r) \/ Deliver(r)

Monitor == Ping \/ Mark

Next ==
    \/ \E r \in Requests :
          Handler(r) \/ Audit(r) \/ Set(r) \/ SetReport(r) \/ PanicIn(r) \/ Leave(r)
    \/ Monitor \/ OthersFail \/ RedisDown \/ RedisUp
    \/ \E k \in Keys : Expire(k)

Spec == Init /\ [][Next]_vars

\* Every goroutine that can run does, the ticker ticks, upstream calls end.
\* Nothing is assumed of clients, of the Redis server, or of expiry.
FairSpec ==
    /\ Spec
    /\ \A r \in Requests : WF_vars(Handler(r)) /\ WF_vars(Audit(r) \/ Set(r) \/ SetReport(r))
    /\ WF_vars(Monitor)

-----------------------------------------------------------------------------
TypeOK ==
    /\ C!TypeOK
    /\ conf \in Confs
    /\ redisHealthy \in BOOLEAN /\ up \in BOOLEAN
    /\ outages \in 0 .. MaxOutages
    /\ redis \in [Keys -> Responses \cup {None}]
    /\ ping \in {"idle", "ok", "failed"}
    /\ pc \in [Requests -> {"start", "get", "got", "execute", "done"}]
    /\ readable \in [Requests -> BOOLEAN]
    /\ got \in [Requests -> Responses \cup {None, Failed, NotFound}]
    /\ direct \in [Requests -> Responses \cup {None}]
    /\ reply \in [Requests ->
                    [resp : Responses, how : {"HIT", "MISS", "SHARED", "BYPASS"}] \cup {None}]
    /\ store \in [Requests -> {"none", "todo", "stored", "failed", "done"}]
    /\ audit \in [Requests -> {"none", "todo", "billed", "zero", "unparsed"}]

\* Whatever a client is sent was given by the upstream to some execution, and
\* what comes from the cache was a 200 that fits max_payload_bytes: an upstream
\* error is never replayed.
RepliesSound ==
    \A r \in Requests : reply[r] # None =>
        /\ Executed(reply[r].resp.by) = reply[r].resp
        /\ reply[r].how = "HIT" => reply[r].resp.kind \notin {"error", "large"}

\* Tokens are billed, and payloads stored, by the one request that caused the
\* upstream call: hits and followers cost nothing (cache.go:571-621).  And nothing is
\* replayed for free: what a hit is served was billed, or is about to be, to whoever
\* caused it, with one exception.  A 200 that fits is replayed even if no usage could
\* be read from it, since it broke off or is in another form (proxy.go:167, cache.go:638).
ExecutorPays ==
    \A r \in Requests :
        /\ store[r] # "none" \/ audit[r] \in {"todo", "billed", "unparsed"}
              => Executed(r) # None /\ Executed(r).by = r
        /\ reply[r] # None /\ reply[r].how = "HIT" =>
              \/ audit[reply[r].resp.by] \in {"todo", "billed"}
              \/ reply[r].resp.kind = "mute"

\* "Redis get error, switching to in-process coalescing only" (cache.go:265):
\* Redis is given up because it failed.
DegradedOnlyOnError == outages = 0 => redisHealthy

\* Every whole 200 of the upstream that is not a stream is billed to whoever
\* executed it, even if that client left (its usage is not lost with it).
ExecutionsBilled ==
    \A r \in Requests :
        (Executed(r) # None /\ Billable(Executed(r)) /\ r \notin conf.streams)
            ~> audit[r] = "billed"

\* The flag follows the server, as far as it can.  Once the server stays down the flag
\* stays down, however many reports of success are late; once it stays up the flag is
\* up again and again, whatever is late and whoever reports a failure, so that Redis
\* is never given up for good.  It need not stay up: while there is traffic, every
\* client that leaves in the middle of a limiter's call and every empty payload takes
\* it down until the next ping (redis.go:79-84, cache.go:261-262, ratelimit.go:110-112).
FlagFollows ==
    /\ <>[]~up => <>[]~redisHealthy
    /\ <>[]up => []<>redisHealthy

\* Every handler returns unless its execution panicked, and without an answer only
\* if its own client is gone: the leader's disconnect never silences a follower
\* (cache.go:283-286, 433).
EveryRequestAnswered ==
    \A r \in Requests :
        <>(\/ pc[r] = "done" /\ (reply[r] # None \/ r \in gone)
           \/ \E l \in Requests : at[l] = "panicked" /\ KeyOf[l] = KeyOf[r])
=============================================================================
