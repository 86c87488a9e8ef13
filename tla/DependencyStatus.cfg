\* Redis and two providers, one goroutine that reports again and again, and one
\* change of condition.
SPECIFICATION FairSpec
CONSTANTS
    Redis = "redis"
    Providers <- MCProviders
    Reporters = {"r1"}
    Conditions <- MCConditions
    MaxChanges = 1
INVARIANTS
    TypeOK
    MixedOnlyByOverlap
PROPERTIES
    StatusSettles
CHECK_DEADLOCK FALSE
