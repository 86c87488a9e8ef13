SPECIFICATION FairSpec
CONSTANTS
    r1 = r1
    r2 = r2
    r3 = r3
    r4 = r4
    alice = alice
    bob = bob
    None = None
    Requests = {r1, r2, r3, r4}
    Clients = {alice, bob}
    ClientOf <- MCClientOf
    Unfound = {bob}
    Limit <- MCLimit
    MaxCost = 1
    QueueCap = 1
    Workers = {w1, w2}
    Concurrency = 2
    MaxMidnights = 1
    MaxRestarts = 1
INVARIANTS
    TypeOK
    RecordInOnePlace
    SnapshotsAddUp
    OvershootBounded
PROPERTIES
    SpendingBooked
CHECK_DEADLOCK FALSE
