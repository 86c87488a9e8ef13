SPECIFICATION Spec
CONSTANTS
    r1 = r1
    r2 = r2
    r3 = r3
    k1 = k1
    None = None
    Cancelled = Cancelled
    NotFound = NotFound
    Failed = Failed
    Requests = {r1, r2}
    Keys = {k1}
    KeyOf <- MCKeyOf
    Kinds = {"ok", "large", "empty", "error"}
    MayPanic = TRUE
    Others = FALSE
    MaxOutages = 1
INVARIANT
    DegradedOnlyOnError
CHECK_DEADLOCK FALSE
