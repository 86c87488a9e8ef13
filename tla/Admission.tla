----------------------------- MODULE Admission -----------------------------
(***************************************************************************)
(* From the configuration file to the client a response is charged to:     *)
(* LoadConfig (Config), the token registry of                              *)
(* src/internal/tenant/registry.go, AuthMiddleware                         *)
(* (src/internal/middleware/auth.go), and the fingerprint that             *)
(* CacheMiddleware takes from the Authorization header and that            *)
(* RecordUsage looks up (src/pkg/redact/token.go, tenant/usage.go).        *)
(*                                                                         *)
(* The caller is found by the token, the payer by the fingerprint: two     *)
(* look-ups with two ways of reading the header.                           *)
(***************************************************************************)
EXTENDS Config, Tenants, FiniteSets

CONSTANTS
    Files,      \* configuration files with the environment they refer to
    Headers,    \* values of the Authorization header
    Bearer,     \* the word "Bearer", as AuthMiddleware wants it ...
    bearer      \* ... and in another case

VARIABLES
    file,       \* what the process was started with
    phase,      \* of the process
    registry,   \* the tenant registry, None until its first use
    stage,      \* how far a request got
    header,     \* the Authorization header of a request
    caller,     \* the identity in its ClientAuthContext
    payer       \* whose snapshot its usage went to

admissionVars == <<file, phase, registry, stage, header, caller, payer>>

AdmissionInit ==
    /\ file \in Files
    /\ phase = "starting"
    /\ registry = None
    /\ stage = [r \in Requests |-> "new"]
    /\ header = [r \in Requests |-> <<>>]
    /\ caller = [r \in Requests |-> None]
    /\ payer = [r \in Requests |-> None]

-----------------------------------------------------------------------------
(* Fingerprints.  Different tokens are taken to have different digests, so *)
(* that a token stands for its own.                                        *)

\* The header is taken for the token.
BadNormalizeBearerToken(s) == Trim(s)

\* NormalizeBearerToken: of two words the first may be "Bearer", in any case.
NormalizeBearerToken(s) ==
    LET words == Trim(s) IN
    IF Len(words) = 2 /\ words[1] \in {Bearer, bearer} THEN <<words[2]>> ELSE words

\* TokenFingerprint
Fingerprint(s) == NormalizeBearerToken(s)

-----------------------------------------------------------------------------
(* The registry.                                                           *)

Identity ==
    [token : Strings, name : Strings \cup {<<"legacy">>}, limit : Int, legacy : BOOLEAN]

Legacy(token) ==
    [token |-> token, name |-> <<"legacy">>, limit |-> 0, legacy |-> TRUE]

Structured(t) ==
    [token |-> Trim(t.value), name |-> t.name, limit |-> t.limit, legacy |-> FALSE]

\* next.tokens of rebuild, before it is sorted.
Identities(cfg) ==
    FoldLeft(LAMBDA out, t : IF t.disabled \/ Empty(t.value) THEN out
                             ELSE Append(out, Structured(t)),
             [i \in DOMAIN cfg.valid |-> Legacy(cfg.valid[i])], cfg.tokens)

\* A map that is filled from a list, entry i under keys[i]: a later entry
\* replaces an earlier one.
MapOf(list, keys) ==
    [k \in Range(keys) |-> list[SelectLastInSeq(keys, LAMBDA x : x = k)]]

\* rebuild
Rebuild(cfg) ==
    LET ids == Identities(cfg)
        tokens == [i \in DOMAIN ids |-> ids[i].token]
    IN  [byToken |-> MapOf(ids, tokens),
         byFingerprint |-> MapOf(ids, [i \in DOMAIN ids |-> Fingerprint(tokens[i])]),
         tokens |-> ids]

\* What files, headers and the absence of an identity are.
ASSUME AdmissionAssumption ==
    /\ Files \subseteq File
    /\ Headers \subseteq Strings
    /\ Blank \notin {Bearer, bearer}
    /\ None \notin Identity
    /\ \A f \in Files : ~LoadRefused(f) => Rebuild(Loaded(f)) # None

\* ensureRegistry
Registry == IF registry = None THEN Rebuild(Loaded(file)) ELSE registry

Find(map, key) == IF key \in DOMAIN map THEN map[key] ELSE None

\* ResolveToken
ResolveToken(s) == Find(Registry.byToken, Trim(s))

\* LookupByFingerprint
LookupByFingerprint(fp) == Find(Registry.byFingerprint, fp)

-----------------------------------------------------------------------------
\* main: the process serves, or logs why it does not and exits.
Load ==
    /\ phase = "starting"
    /\ phase' = IF LoadRefused(file) THEN "fatal" ELSE "serving"
    /\ UNCHANGED <<file, registry, stage, header, caller, payer>>

\* What AuthMiddleware makes of a header.  After TrimSpace of the header no
\* token can be empty behind "Bearer ".
Verdict(h) ==
    LET words == Trim(h) IN
    IF words = <<>> THEN "no_header"
    ELSE IF Len(words) = 1 \/ Head(words) # Bearer THEN "bad_header"
    ELSE IF ResolveToken(Tail(words)) = None THEN "unknown_token"
    ELSE "accepted"

\* The context is attached whatever the registry says.
BadAuthenticate(r, h) ==
    /\ phase = "serving"
    /\ stage[r] = "new"
    /\ header' = [header EXCEPT ![r] = h]
    /\ registry' = Registry
    /\ stage' = [stage EXCEPT ![r] = Verdict(h)]
    /\ caller' = [caller EXCEPT ![r] = ResolveToken(Tail(Trim(<<Bearer>> \o h)))]
    /\ UNCHANGED <<file, phase, payer>>

\* AuthMiddleware.  Only a header that is well formed gets to the registry.
Authenticate(r, h) ==
    /\ phase = "serving"
    /\ stage[r] = "new"
    /\ header' = [header EXCEPT ![r] = h]
    /\ registry' = IF Verdict(h) \in {"no_header", "bad_header"} THEN registry ELSE Registry
    /\ stage' = [stage EXCEPT ![r] = Verdict(h)]
    /\ caller' = [caller EXCEPT ![r] =
                    IF Verdict(h) = "accepted" THEN ResolveToken(Tail(Trim(h))) ELSE None]
    /\ UNCHANGED <<file, phase, payer>>

\* RecordUsage with the fingerprint that CacheMiddleware took from the header;
\* an unknown one is ignored.
Charge(r) ==
    /\ stage[r] = "accepted"
    /\ stage' = [stage EXCEPT ![r] = "charged"]
    /\ payer' = [payer EXCEPT ![r] = LookupByFingerprint(Fingerprint(header[r]))]
    /\ UNCHANGED <<file, phase, registry, header, caller>>

AdmissionNext ==
    \/ Load
    \/ \E r \in Requests : (\E h \in Headers : Authenticate(r, h)) \/ Charge(r)

AdmissionSpec == AdmissionInit /\ [][AdmissionNext]_admissionVars

-----------------------------------------------------------------------------
Known == IF registry = None THEN {} ELSE {registry.tokens[i] : i \in DOMAIN registry.tokens}

AdmissionTypeOK ==
    /\ phase \in {"starting", "fatal", "serving"}
    /\ registry # None => phase = "serving"
    /\ stage \in [Requests -> {"new", "no_header", "bad_header", "unknown_token",
                            "accepted", "charged"}]
    /\ \A r \in Requests :
          /\ header[r] \in Headers \cup {<<>>}
          /\ caller[r] \in Known \cup {None}
          /\ payer[r] \in Known \cup {None}
          /\ caller[r] # None <=> stage[r] \in {"accepted", "charged"}

\* The tokens a file asks for, read off the file alone: every token of the list
\* and of its variable, and every entry that is not disabled.
Configured(f) ==
    {Legacy(Trim(s)) : s \in {x \in Range(f.valid) : ~Empty(x)}}
    \cup (IF f.validEnv = Unnamed THEN {}
          ELSE {Legacy(Trim(s)) : s \in {x \in Range(f.validEnv) : ~Empty(x)}})
    \cup {[token |-> Trim(t.env), name |-> Trim(t.name), limit |-> t.limit, legacy |-> FALSE] :
            t \in {x \in Range(f.tokens) : ~x.disabled}}

\* A process that serves knows exactly the tokens its file asks for, each with
\* its own name and limits and none of them under two identities: no entry is
\* lost to padding, to the order of the steps, or to another entry with the same
\* token (config.go:281-314, 536-578; registry.go:41-121).
ResolvesAsConfigured ==
    registry # None =>
        /\ Known = Configured(file)
        /\ DOMAIN registry.byToken = {c.token : c \in Configured(file)}
        /\ \A c \in Configured(file) : registry.byToken[c.token] = c

\* A token that reads like a header, of which NormalizeBearerToken takes the last
\* word for the token.
LikeHeader(token) == Len(token) > 1 /\ token[1] \in {Bearer, bearer}

OneWord(r) == Len(Trim(header[r])) = 2

\* A response is charged to the identity its request was admitted as, though
\* the one is found by the token and the other by the fingerprint of the header.
\* Of a token of two words, which the configuration and AuthMiddleware let pass,
\* NormalizeBearerToken keeps the whole header: RecordUsage then finds nobody.
\* And a token that reads like a header has the fingerprint of another one, which
\* validateTokenCatalog does not look for: then all this is only true of files
\* that have none.
ChargedToCaller ==
    \A r \in Requests :
        stage[r] = "charged" /\ (\A c \in Configured(file) : ~LikeHeader(c.token))
            => payer[r] = IF OneWord(r) THEN caller[r] ELSE None

\* What a configuration that was accepted is relied on for elsewhere: the
\* assumptions of Breaker (gobreaker takes a zero for a default of its own), of
\* ProxyFailover, of RateLimit, and the periods of the tickers and timeouts.
ServesWithSaneNumbers ==
    phase = "serving" =>
        LET n == Loaded(file).num IN
        /\ n.ratio \in 1 .. RatioDen /\ n.minimum > 0 /\ n.halfOpen > 0
        /\ n.retries >= 0 /\ \A p \in Range(Loaded(file).providers) : p.retries >= 0
        /\ n.qps > 0 /\ n.burst > 0 /\ n.rate > 0
        /\ n.server > 0 /\ n.other > 0 /\ n.size > 0

=============================================================================
