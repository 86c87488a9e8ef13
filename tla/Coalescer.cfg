\* Single flight with three requests for one key and one for another.
SPECIFICATION FairSpec
CONSTANTS
    r1 = r1
    r2 = r2
    r3 = r3
    r4 = r4
    k1 = k1
    k2 = k2
    None = None
    Cancelled = Cancelled
    Requests = {r1, r2, r3, r4}
    Keys = {k1, k2}
    KeyOf <- MCKeyOf
    Results = {v1, v2}
    MayPanic = TRUE
INVARIANTS
    TypeOK
    OneExecutionPerKey
    NoLostWakeup
PROPERTIES
    Implements
    EveryCallerReturns
\* The requests are finite: when all are back the model stops.
CHECK_DEADLOCK FALSE
