\* Every file of MCFiles, one request with any header.
SPECIFICATION AdmissionSpec
CONSTANTS
    Words = {"_", "a", "b", "c", "m", "n", "p", "q", "Bearer", "bearer"}
    Blank = "_"
    Bearer = "Bearer"
    bearer = "bearer"
    Unnamed = Unnamed
    Unset = Unset
    None = None
    RatioDen = 2
    Files <- MCFiles
    Requests = {r1}
    Headers <- MCHeaders
INVARIANTS
    AdmissionTypeOK
    ResolvesAsConfigured
    ChargedToCaller
    ServesWithSaneNumbers
\* The process may refuse to start, and requests are finite.
CHECK_DEADLOCK FALSE
