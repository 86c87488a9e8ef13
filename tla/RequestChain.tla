---------------------------- MODULE RequestChain ----------------------------
(***************************************************************************)
(* The handlers that src/internal/router/router.go:26-37 wraps around each *)
(* other, from the side of a request that goes down through them and back  *)
(* up.  A layer works before it calls the next one, answers instead of     *)
(* calling it, or works after it returned.  What a layer knows of a request*)
(* it reads from the contexts that the layers above it attached; what it   *)
(* attaches itself is not seen above.                                      *)
(*                                                                         *)
(* The coalescer of the cache layer is what SingleFlight promises, which   *)
(* Coalescer implements.  Redis, the limiter's verdict and the upstream's  *)
(* answer are open; they have modules of their own.  There is no recovery  *)
(* layer: RecoveryMiddleware exists (recovery.go) and is not used.         *)
(***************************************************************************)
EXTENDS Naturals, Sequences, FiniteSets

CONSTANTS
    Requests, Keys, KeyOf,
    None, Cancelled,    \* see SingleFlight
    Upstream            \* the identifier the upstream gives an answer of its own

\* Limits are looked up before it is known who asks.
BadChain ==
    <<"RequestMeta", "AccessLog", "RateLimit", "Auth", "Body", "ModelRouter",
      "Metrics", "Cache", "Proxy">>

\* The handlers, outermost first.
Chain ==
    <<"RequestMeta", "AccessLog", "Auth", "RateLimit", "Body", "ModelRouter",
      "Metrics", "Cache", "Proxy">>

Position(layer) == CHOOSE i \in DOMAIN Chain : Chain[i] = layer

\* The context a layer attaches, and the layers that see it.
Attaches ==
    [RequestMeta |-> "meta", Auth |-> "auth", Body |-> "body", ModelRouter |-> "gateway"]

Sees(layer) ==
    {Attaches[l] : l \in {x \in DOMAIN Attaches : Position(x) < Position(layer)}}

VARIABLES
    echo,           \* fixed at the start: how the upstream identifies its answers
    pos,            \* where a request is in the chain
    pc,             \* on its way down or up, waiting for another's execution ...
    how,            \* how the cache layer has it answered
    header,         \* the X-Request-ID values of its response so far
    reply,          \* what was answered and by which layer
    scope,          \* what the limiter took it by
    logged,         \* its lines in the access log: status, and what is known of it
    counted,        \* its labels in gateway_requests_total
    accepted, rejected, inFlight,           \* the other counters and the gauge
    running, asked, due, answer             \* SingleFlight

flightVars == <<running, asked, due, answer>>
requestVars == <<pos, pc, how, header, reply, scope>>
recordVars == <<logged, counted, accepted, rejected, inFlight>>
vars == <<echo, requestVars, recordVars, flightVars>>

\* What the upstream, or the proxy in its place, answers to the request by.
Answers == [by : Requests, code : {"200", "503"}, ids : SUBSET (Requests \cup {Upstream})]

\* What a layer answers; 500 if a context is missing.
Codes == {"200", "400", "401", "403", "404", "413", "429", "503", "500"}

Replies ==
    [by : {Chain[i] : i \in DOMAIN Chain}, code : Codes]
    \cup [by : {"Proxy"}, code : Codes, ids : SUBSET (Requests \cup {Upstream})]

ASSUME ChainAssumption ==
    /\ IsFiniteSet(Requests) /\ Upstream \notin Requests
    /\ KeyOf \in [Requests -> Keys]
    /\ None \notin Answers \cup Replies
    /\ None \notin {"hit", "through", "captured", "lead", "follow", "token", "ip"}

F == INSTANCE SingleFlight WITH Results <- Answers

Init ==
    /\ F!Init
    /\ echo \in {"no", "own", "same"}
    /\ pos = [r \in Requests |-> 1]
    /\ pc = [r \in Requests |-> "down"]
    /\ how = [r \in Requests |-> None]
    /\ header = [r \in Requests |-> {}]
    /\ reply = [r \in Requests |-> None]
    /\ scope = [r \in Requests |-> None]
    /\ logged = [r \in Requests |-> <<>>]
    /\ counted = [r \in Requests |-> <<>>]
    /\ accepted = 0 /\ rejected = 0 /\ inFlight = 0

-----------------------------------------------------------------------------
(* The way down.                                                           *)

At(r, layer) == pc[r] = "down" /\ Chain[pos[r]] = layer

\* Call the next layer.
CallNext(r) ==
    /\ pos' = [pos EXCEPT ![r] = @ + 1]
    /\ UNCHANGED <<pc, reply>>

\* WriteOpenAIError, and return to the layer above.
Refuse(r, code) ==
    /\ reply' = [reply EXCEPT ![r] = [by |-> Chain[pos[r]], code |-> code]]
    /\ pos' = [pos EXCEPT ![r] = @ - 1]
    /\ pc' = [pc EXCEPT ![r] = "up"]

\* RequestMetaMiddleware puts the identifiers on the response first of all.
RequestMeta(r) ==
    /\ At(r, "RequestMeta")
    /\ header' = [header EXCEPT ![r] = {r}]
    /\ CallNext(r)
    /\ UNCHANGED <<echo, how, scope, recordVars, flightVars>>

AccessLog(r) ==
    /\ At(r, "AccessLog")
    /\ CallNext(r)
    /\ UNCHANGED <<echo, how, header, scope, recordVars, flightVars>>

\* AuthMiddleware; Admission says whom it lets in.
Auth(r) ==
    /\ At(r, "Auth")
    /\ \/ \E code \in {"401", "403"} : Refuse(r, code) /\ UNCHANGED accepted
       \/ CallNext(r) /\ accepted' = accepted + 1
    /\ UNCHANGED <<echo, how, header, scope, logged, counted, rejected, inFlight, flightVars>>

\* RateLimitMiddleware: the quota of whom it knows (Billing), then the limiter
\* (RateLimit).  A refusal of somebody known is counted.
RateLimit(r) ==
    /\ At(r, "RateLimit")
    /\ LET known == "auth" \in Sees("RateLimit") IN
       /\ \/ known /\ Refuse(r, "429") /\ UNCHANGED scope       \* the daily quota
          \/ /\ Refuse(r, "429") \/ CallNext(r)
             /\ scope' = [scope EXCEPT ![r] = IF known THEN "token" ELSE "ip"]
       /\ rejected' = IF known /\ pc'[r] = "up" THEN rejected + 1 ELSE rejected
    /\ UNCHANGED <<echo, how, header, logged, counted, accepted, inFlight, flightVars>>

\* BodyContextMiddleware: the body cannot be read, or it is too large.
Body(r) ==
    /\ At(r, "Body")
    /\ Refuse(r, "400") \/ Refuse(r, "413") \/ CallNext(r)
    /\ UNCHANGED <<echo, how, header, scope, recordVars, flightVars>>

\* ModelRouterMiddleware: no JSON, no model, or none of a provider.
ModelRouter(r) ==
    /\ At(r, "ModelRouter")
    /\ IF "body" \in Sees("ModelRouter")
       THEN Refuse(r, "400") \/ Refuse(r, "404") \/ CallNext(r)
       ELSE Refuse(r, "500")
    /\ UNCHANGED <<echo, how, header, scope, recordVars, flightVars>>

\* MetricsMiddleware, before it calls the next layer.
Metrics(r) ==
    /\ At(r, "Metrics")
    /\ inFlight' = inFlight + 1
    /\ CallNext(r)
    /\ UNCHANGED <<echo, how, header, scope, logged, counted, accepted, rejected, flightVars>>

\* CacheMiddleware: a hit, or the request goes on by itself (a stream, caching or
\* coalescing is off), as the one who executes, or not at all but waits.
Cache(r) ==
    /\ At(r, "Cache")
    /\ \/ /\ "body" \notin Sees("Cache")
          /\ Refuse(r, "500")
          /\ UNCHANGED <<how, flightVars>>
       \/ /\ "body" \in Sees("Cache")
          /\ Refuse(r, "200")
          /\ how' = [how EXCEPT ![r] = "hit"]
          /\ UNCHANGED flightVars
       \/ /\ "body" \in Sees("Cache")
          /\ \E h \in {"through", "captured"} : how' = [how EXCEPT ![r] = h]
          /\ CallNext(r)
          /\ UNCHANGED flightVars
       \/ /\ "body" \in Sees("Cache")
          /\ F!Ask(r)
          /\ IF KeyOf[r] \in running
             THEN /\ how' = [how EXCEPT ![r] = "follow"]
                  /\ pc' = [pc EXCEPT ![r] = "wait"]
                  /\ UNCHANGED <<pos, reply>>
             ELSE how' = [how EXCEPT ![r] = "lead"] /\ CallNext(r)
    /\ UNCHANGED <<echo, header, scope, recordVars>>

-----------------------------------------------------------------------------
(* The proxy and the way back through the cache layer.                     *)

\* The identifiers on an answer: an answer of the upstream has its own, or the one
\* it was sent (buildUpstreamRequest forwards it), or none; one that the gateway
\* gives for it (no provider is left) has none.
AnswerIds(r, code) ==
    IF code = "503" \/ echo = "no" THEN {}
    ELSE IF echo = "own" THEN {Upstream} ELSE {r}

\* The handler of the proxy.  A response that passes through gets the headers of
\* the upstream added to its own (copyResponseHeaders); a captured one has headers
\* of its own until it is written.
Proxy(r) ==
    /\ At(r, "Proxy")
    /\ IF {"gateway", "body"} \subseteq Sees("Proxy")
       THEN \E code \in {"200", "503"} :
              /\ reply' = [reply EXCEPT ![r] =
                             [by |-> "Proxy", code |-> code, ids |-> AnswerIds(r, code)]]
              /\ header' = IF how[r] = "through"
                           THEN [header EXCEPT ![r] = @ \cup AnswerIds(r, code)]
                           ELSE header
       ELSE /\ reply' = [reply EXCEPT ![r] =
                           [by |-> "Proxy", code |-> "500", ids |-> {}]]
            /\ UNCHANGED header
    /\ pos' = [pos EXCEPT ![r] = @ - 1]
    /\ pc' = [pc EXCEPT ![r] = "up"]
    /\ UNCHANGED <<echo, how, scope, recordVars, flightVars>>

\* The recorded headers are added to those that are there.
BadCopied(r, ids) == header[r] \cup ids

\* writeRecordedResponse: copyHeaders replaces a header that is there already.
Copied(r, ids) == IF ids = {} THEN header[r] ELSE ids

Back(r) == pc[r] = "up" /\ Chain[pos[r]] = "Cache"

\* The executor keeps what the execution gave to itself.
BadFinish(r) ==
    /\ Back(r)
    /\ how[r] = "lead"
    /\ pc' = [pc EXCEPT ![r] = "wait"]
    /\ UNCHANGED <<echo, pos, how, header, reply, scope, recordVars, flightVars>>

\* The execution is over: what it gave is owed to all who wait for it.
Finish(r) ==
    /\ Back(r)
    /\ how[r] = "lead"
    /\ F!Finish(KeyOf[r], [by |-> r, code |-> reply[r].code, ids |-> reply[r].ids])
    /\ pc' = [pc EXCEPT ![r] = "wait"]
    /\ UNCHANGED <<echo, pos, how, header, reply, scope, recordVars>>

\* Do returns with a response, the executor's own or another's, and it is written.
Write(r) ==
    /\ pc[r] = "wait"
    /\ F!Answer(r)
    /\ reply' = [reply EXCEPT ![r] = [by |-> "Cache", code |-> due[r].code]]
    /\ header' = [header EXCEPT ![r] = Copied(r, due[r].ids)]
    /\ pos' = [pos EXCEPT ![r] = @ - 1]
    /\ pc' = [pc EXCEPT ![r] = "up"]
    /\ UNCHANGED <<echo, how, scope, recordVars>>

\* Do returns with the error of its context: CacheMiddleware says nothing.
Abandon(r) ==
    /\ pc[r] = "wait" /\ how[r] = "follow"
    /\ F!Abandon(r)
    /\ pos' = [pos EXCEPT ![r] = @ - 1]
    /\ pc' = [pc EXCEPT ![r] = "up"]
    /\ UNCHANGED <<echo, how, header, reply, scope, recordVars>>

\* An execution of its own: written as it came, or recorded and then written.
Return(r) ==
    /\ Back(r)
    /\ how[r] \in {"through", "captured"}
    /\ reply' = [reply EXCEPT ![r] = [by |-> "Cache", code |-> @.code]]
    /\ header' = IF how[r] = "captured"
                 THEN [header EXCEPT ![r] = Copied(r, reply[r].ids)]
                 ELSE header
    /\ pos' = [pos EXCEPT ![r] = @ - 1]
    /\ UNCHANGED <<echo, pc, how, scope, recordVars, flightVars>>

-----------------------------------------------------------------------------
(* The way up.                                                             *)

\* A writer that was never written to counts as 200.
Status(r) == IF reply[r] = None THEN "200" ELSE reply[r].code

\* Each layer does what it has to, and returns to the one above it, or to
\* net/http: the metrics take the request off the gauge and count it, the access
\* log writes its line, the others do nothing.
Up(r) ==
    /\ pc[r] = "up"
    /\ Chain[pos[r]] # "Cache"
    /\ IF Chain[pos[r]] = "Metrics"
       THEN /\ inFlight' = inFlight - 1
            /\ counted' = [counted EXCEPT ![r] =
                             Append(@, [code |-> Status(r), route |-> "gateway" \in Sees("Metrics")])]
       ELSE UNCHANGED <<inFlight, counted>>
    /\ logged' = IF Chain[pos[r]] = "AccessLog"
                 THEN [logged EXCEPT ![r] =
                         Append(@, [code |-> Status(r), id |-> "meta" \in Sees("AccessLog")])]
                 ELSE logged
    /\ pos' = [pos EXCEPT ![r] = IF @ = 1 THEN 1 ELSE @ - 1]
    /\ pc' = [pc EXCEPT ![r] = IF pos[r] = 1 THEN "done" ELSE "up"]
    /\ UNCHANGED <<echo, how, header, reply, scope, accepted, rejected, flightVars>>

\* The gauge is taken back by a defer of the outermost layer.
BadPanic(r) ==
    /\ pc[r] = "down"
    /\ pc' = [pc EXCEPT ![r] = "panicked"]
    /\ inFlight' = inFlight - 1
    /\ UNCHANGED <<echo, pos, how, header, reply, scope, logged, counted, accepted, rejected,
                   flightVars>>

\* A panic goes up to net/http, which drops the connection.  Of the layers only
\* the metrics have a defer.
Panic(r) ==
    /\ pc[r] = "down"
    /\ pc' = [pc EXCEPT ![r] = "panicked"]
    /\ inFlight' = IF pos[r] > Position("Metrics") THEN inFlight - 1 ELSE inFlight
    /\ UNCHANGED <<echo, pos, how, header, reply, scope, logged, counted, accepted, rejected,
                   flightVars>>

Handle(r) ==
    \/ RequestMeta(r) \/ AccessLog(r) \/ Auth(r) \/ RateLimit(r) \/ Body(r)
    \/ ModelRouter(r) \/ Metrics(r) \/ Cache(r) \/ Proxy(r)
    \/ Finish(r) \/ Write(r) \/ Return(r) \/ Up(r)

Next == \E r \in Requests : Handle(r) \/ Abandon(r) \/ Panic(r)

Spec == Init /\ [][Next]_vars

\* A request whose handler can go on does.  It need not panic, nor its client leave.
FairSpec == Spec /\ \A r \in Requests : WF_vars(Handle(r))

-----------------------------------------------------------------------------
TypeOK ==
    /\ pos \in [Requests -> 1 .. Len(Chain)]
    /\ pc \in [Requests -> {"down", "wait", "up", "done", "panicked"}]
    /\ how \in [Requests -> {None, "hit", "through", "captured", "lead", "follow"}]
    /\ header \in [Requests -> SUBSET (Requests \cup {Upstream})]
    /\ reply \in [Requests -> Replies \cup {None}]
    /\ scope \in [Requests -> {None, "token", "ip"}]
    /\ \A r \in Requests : Len(logged[r]) \in 0 .. 1 /\ Len(counted[r]) \in 0 .. 1
    /\ accepted \in 0 .. Cardinality(Requests)
    /\ rejected \in 0 .. Cardinality(Requests)
    /\ inFlight \in 0 .. Cardinality(Requests)

\* What the counters say together.  accepted counts those who are then refused for
\* their quota or rate as well, and rejected counts them again; gateway_requests_total
\* counts none of those that were refused on the way to the metrics.  The gauge
\* counts who is within, whatever panicked.  And all of it is said of somebody: the
\* limiter knows the client it limits, a line of the log its request, a label its
\* route (auth.go:66, ratelimit.go:83, 151, metrics.go:42-43, 74-86).
CountersAddUp ==
    LET notPast(layer) ==
            {r \in Requests : pc[r] \in {"down", "panicked"} /\ pos[r] <= Position(layer)}
        refusedBy(layer) == {r \in Requests : reply[r] # None /\ reply[r].by = layer}
        refused == UNION {refusedBy(l) : l \in {"Auth", "RateLimit", "Body", "ModelRouter"}}
        entered == Requests \ (notPast("Metrics") \cup refused)
        within == {r \in entered : pos[r] > Position("Metrics") \/ Chain[pos[r]] = "Metrics"}
    IN  /\ accepted = Cardinality(Requests \ (notPast("Auth") \cup refusedBy("Auth")))
        /\ rejected = Cardinality(refusedBy("RateLimit"))
        /\ inFlight = Cardinality({r \in within : pc[r] # "panicked"})
        /\ {r \in Requests : counted[r] # <<>>} = entered \ within
        /\ \A r \in Requests :
              /\ scope[r] # "ip"
              /\ \A i \in DOMAIN logged[r] : logged[r][i].id
              /\ \A i \in DOMAIN counted[r] : counted[r][i].route

\* A reply bears the identifier of its own request: alone, if the gateway answers or
\* the cache; next to that of the upstream, if it passes through.  Only a recorded
\* response has it replaced, by the one the upstream gave, or by that of the request
\* that was executed in its place.  No client is told of a missing context,
\* which would be a 500 (requestmeta.go:31-36, cache.go:502-508, proxy.go:441).
RepliesIdentified ==
    \A r \in Requests :
        /\ reply[r] # None => reply[r].code # "500"
        /\ pc[r] = "done" =>
              \/ header[r] = {r}
              \/ how[r] = "through" /\ r \in header[r]
              \/ /\ how[r] \in {"captured", "lead", "follow"}
                 /\ header[r] = {Upstream} /\ echo = "own"
              \/ how[r] = "follow" /\ echo = "same"

\* Every request is answered and logged once, unless it panics, or waits for an
\* execution that did.
EveryRequestConcludes ==
    \A r \in Requests :
        <>(\/ pc[r] = "done" /\ Len(logged[r]) = 1 /\ (reply[r] # None \/ answer[r] = Cancelled)
           \/ \E l \in Requests : pc[l] = "panicked" /\ (l = r \/ how[l] = "lead"))
=============================================================================
