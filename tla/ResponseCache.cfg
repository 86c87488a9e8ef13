SPECIFICATION FairSpec
CONSTANTS
    r1 = r1
    r2 = r2
    r3 = r3
    k1 = k1
    None = None
    Cancelled = Cancelled
    NotFound = NotFound
    Failed = Failed
    Requests = {r1, r2}
    Keys = {k1}
    KeyOf <- MCKeyOf
    Kinds = {"ok", "large", "mute", "empty", "error"}
    MayPanic = TRUE
    Others = TRUE
    MaxOutages = 1
INVARIANTS
    TypeOK
    RepliesSound
    ExecutorPays
PROPERTIES
    ExecutionsBilled
    FlagFollows
    EveryRequestAnswered
CHECK_DEADLOCK FALSE
