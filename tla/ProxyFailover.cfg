SPECIFICATION FairSpec
CONSTANTS
    r1 = r1
    r2 = r2
    r3 = r3
    p1 = p1
    p2 = p2
    None = None
    Requests = {r1, r2, r3}
    Providers = {p1, p2}
    Candidates <- MCCandidates
    MaxRetries <- MCMaxRetries
    DefaultMaxRetries = 1
    Translating = {p2}
    BadBodies = {r2}
    Bound = {r1}
    MinimumRequests = 2
    RatioNum = 1
    RatioDen = 2
    HalfOpenRequests = 2
INVARIANTS
    TypeOK
    BudgetsSpentInOrder
    BreakerKnowsItsCalls
PROPERTIES
    TripsForCause
    EveryRequestAnswered
CHECK_DEADLOCK FALSE
