SPECIFICATION Spec
CONSTANTS
    s1 = s1
    s2 = s2
    alice = alice
    None = None
    Slots = {s1, s2}
    Clients = {alice}
    ClientOf <- MCClientOf
    AuthQps = 25
    AuthBurst = 2
    TokenQps <- MCTokenQps
    TokenBurst <- MCTokenBurst
    Unit = 3
    MaxTime = 3
    MaxLosses = 1
INVARIANTS
    TypeOK
    WindowBound
    TwiceTheLimit
PROPERTIES
    LocalIsBucket
