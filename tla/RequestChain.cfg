\* Two requests of one key, and an upstream that gives its answers an identifier
\* of its own, or the one it was sent, or none.
SPECIFICATION FairSpec
CONSTANTS
    r1 = r1
    r2 = r2
    k1 = k1
    Requests = {r1, r2}
    Keys = {k1}
    KeyOf <- MCKeyOf
    None = None
    Cancelled = Cancelled
    Upstream = Upstream
INVARIANTS
    TypeOK
    CountersAddUp
    RepliesIdentified
PROPERTIES
    EveryRequestConcludes
CHECK_DEADLOCK FALSE
