------------------------------- MODULE Config -------------------------------
(***************************************************************************)
(* LoadConfig of src/internal/config/config.go after viper has read and    *)
(* decoded the file: gateway tokens are taken from the environment,        *)
(* defaults are filled in, and the result is validated, in that order.     *)
(*                                                                         *)
(* A string is the sequence of its words; Blank stands for white space     *)
(* before the first or after the last of them.  A file is a record:        *)
(*   valid      auth.valid_tokens                                          *)
(*   validEnv   the variable auth.valid_tokens_env names, as the fields    *)
(*              between its separators: Unnamed, Unset, or a sequence      *)
(*   tokens     auth.tokens; env is the variable value_env names, value    *)
(*              what the file itself gives                                 *)
(*   providers  providers                                                  *)
(*   num        the numbers.  server is the shortest of the server's       *)
(*              durations, other that of cache and upstream: 0 is a blank  *)
(*              string and -1 one that is not a positive duration.  ratio  *)
(*              counts parts of RatioDen; rate and size stand for the rate *)
(*              limits of /metrics and /admin and for max_payload_bytes    *)
(*   wellFormed redis.addr, the paths, the CIDRs and the base URLs are as  *)
(*              validateConfig wants them, and no bearer token of /metrics *)
(*              or /admin is written in the file                           *)
(***************************************************************************)
EXTENDS Integers, Sequences, SequencesExt

CONSTANTS
    Words,      \* what strings are made of
    Blank,      \* one of them
    Unnamed, Unset,
    RatioDen

ASSUME ConfigAssumption == RatioDen \in Nat \ {0, 1}

Strings == {s \in Seq(Words) : \A i, j, k \in DOMAIN s :
                i < j /\ j < k /\ s[i] # Blank /\ s[k] # Blank => s[j] # Blank}

Variable == Strings \cup {Unnamed, Unset}

TokenEntry ==
    [name : Strings, env : Variable, value : Strings, disabled : BOOLEAN, limit : Int]

ProviderEntry ==
    [name : Strings, key : Strings, env : Variable, models : Int, priority : Int, retries : Int]

File ==
    [valid : Seq(Strings), validEnv : Seq(Strings) \cup {Unnamed, Unset},
     tokens : Seq(TokenEntry), providers : Seq(ProviderEntry),
     num : [{"port", "server", "other", "db", "qps", "burst", "rate", "size", "retries",
             "ratio", "minimum", "halfOpen"} -> Int],
     wellFormed : BOOLEAN]

\* strings.TrimSpace
Trim(s) ==
    LET words == {i \in DOMAIN s : s[i] # Blank} IN
    IF words = {} THEN <<>> ELSE SubSeq(s, Min(words), Max(words))

Empty(s) == Trim(s) = <<>>

\* uniqueNonEmpty
UniqueNonEmpty(items) ==
    FoldLeft(LAMBDA out, s : IF Empty(s) \/ Contains(out, Trim(s)) THEN out
                             ELSE Append(out, Trim(s)),
             <<>>, items)

-----------------------------------------------------------------------------
(* Taking the gateway tokens and the providers' keys from the environment. *)

\* The variable is there, but the file names none of it or it is blank.
ValidTokensMissing(f) ==
    /\ f.validEnv # Unnamed
    /\ f.validEnv = Unset \/ (Len(f.validEnv) = 1 /\ Empty(f.validEnv[1]))

\* resolveAuthTokens
ResolveAuthTokens(f) ==
    [f EXCEPT !.valid = UniqueNonEmpty(IF f.validEnv = Unnamed THEN @ ELSE @ \o f.validEnv)]

\* The early returns of resolveStructuredTokens.
StructuredTokenRefused(t) ==
    /\ ~t.disabled
    /\ ~Empty(t.value) \/ t.env \in {Unnamed, Unset} \/ Empty(t.env)

\* resolveStructuredTokens: the entries that are not disabled.
ResolvedToken(t) == IF t.disabled THEN t ELSE [t EXCEPT !.value = Trim(t.env)]

ResolveStructuredTokens(f) ==
    [f EXCEPT !.tokens = [i \in DOMAIN @ |-> ResolvedToken(@[i])]]

\* The early returns of resolveProviderAPIKeys.
ProviderKeyRefused(p) == ~Empty(p.key) \/ p.env = Unset \/ (p.env # Unnamed /\ Empty(p.env))

-----------------------------------------------------------------------------
\* normalizeConfig, as far as it changes a string that is looked at later.
NormalToken(t) == [t EXCEPT !.name = Trim(@), !.value = Trim(@)]

NormalProvider(p) == [p EXCEPT !.name = Trim(@)]

NormalizeConfig(f) ==
    [f EXCEPT !.valid = UniqueNonEmpty(@),
              !.tokens = [i \in DOMAIN @ |-> NormalToken(@[i])],
              !.providers = [i \in DOMAIN @ |-> NormalProvider(@[i])]]

AtLeast(floor, n, default) == IF n < floor THEN default ELSE n

\* The ratio is only checked from below.
BadDefaultNumbers(n) ==
    [n EXCEPT !.rate = AtLeast(1, @, 5),
              !.size = AtLeast(1, @, 1),
              !.other = IF @ = 0 THEN 1 ELSE @,
              !.retries = AtLeast(0, @, 0),
              !.ratio = AtLeast(1, @, RatioDen \div 2),
              !.minimum = AtLeast(1, @, 5),
              !.halfOpen = AtLeast(1, @, 3)]

\* The defaults of resolveMetricsConfig, resolveAdminConfig, applyCacheDefaults
\* and applyUpstreamDefaults.
DefaultNumbers(n) ==
    [n EXCEPT !.rate = AtLeast(1, @, 5),
              !.size = AtLeast(1, @, 1),
              !.other = IF @ = 0 THEN 1 ELSE @,
              !.retries = AtLeast(0, @, 0),
              !.ratio = IF @ \in 1 .. RatioDen THEN @ ELSE RatioDen \div 2,
              !.minimum = AtLeast(1, @, 5),
              !.halfOpen = AtLeast(1, @, 3)]

DefaultProvider(p) == [p EXCEPT !.priority = AtLeast(1, @, 100), !.retries = AtLeast(0, @, 0)]

ApplyDefaults(f) ==
    [f EXCEPT !.num = DefaultNumbers(@),
              !.providers = [i \in DOMAIN @ |-> DefaultProvider(@[i])]]

-----------------------------------------------------------------------------
\* Duplicates are only looked for among the structured tokens.
BadValidateTokenCatalog(f) ==
    LET on == {i \in DOMAIN f.tokens : ~f.tokens[i].disabled} IN
    /\ \A i \in on : ~Empty(f.tokens[i].name) /\ ~Empty(f.tokens[i].value)
    /\ \A i, j \in on : i # j => /\ f.tokens[i].name # f.tokens[j].name
                                 /\ f.tokens[i].value # f.tokens[j].value
    /\ \A i \in on : f.tokens[i].limit >= 0

\* validateTokenCatalog: no name twice, and no token twice in either list.
\* limit stands for the three numbers of an entry.
ValidateTokenCatalog(f) ==
    LET on == {i \in DOMAIN f.tokens : ~f.tokens[i].disabled} IN
    /\ \A i \in on : ~Empty(f.tokens[i].name) /\ ~Empty(f.tokens[i].value)
    /\ \A i, j \in on : i # j => /\ f.tokens[i].name # f.tokens[j].name
                                 /\ f.tokens[i].value # f.tokens[j].value
    /\ \A i \in on : ~Contains(f.valid, f.tokens[i].value)
    /\ \A i, j \in DOMAIN f.valid : i # j => f.valid[i] # f.valid[j]
    /\ \A i \in on : f.tokens[i].limit >= 0

\* What validateConfig wants of each provider.
ValidProvider(p) ==
    ~Empty(p.name) /\ p.models > 0 /\ p.priority > 0 /\ p.retries >= 0

\* validateConfig
ValidateConfig(f) ==
    /\ f.num.port > 0 /\ f.num.port <= 65535
    /\ f.num.server > 0 /\ f.num.other > 0
    /\ f.num.db >= 0
    /\ f.num.qps > 0 /\ f.num.burst > 0
    /\ f.valid # <<>> \/ f.tokens # <<>>
    /\ f.num.size > 0 /\ f.num.rate > 0
    /\ f.wellFormed
    /\ f.providers # <<>>
    /\ \A i \in DOMAIN f.providers : ValidProvider(f.providers[i])
    /\ \A i, j \in DOMAIN f.providers : i # j => f.providers[i].name # f.providers[j].name
    /\ ValidateTokenCatalog(f)

\* What LoadConfig makes of a file ...
Loaded(f) ==
    ApplyDefaults(NormalizeConfig(ResolveStructuredTokens(ResolveAuthTokens(f))))

\* ... unless it returns an error on the way.
LoadRefused(f) ==
    \/ ValidTokensMissing(f)
    \/ \E i \in DOMAIN f.tokens : StructuredTokenRefused(f.tokens[i])
    \/ \E i \in DOMAIN f.providers : ProviderKeyRefused(f.providers[i])
    \/ ~ValidateConfig(Loaded(f))
=============================================================================
