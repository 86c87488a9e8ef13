------------------------- MODULE MCDependencyStatus -------------------------
EXTENDS DependencyStatus

MCProviders == <<"p1", "p2">>

\* All is well, or nothing is.  That requests alone fare badly needs no condition of
\* its own here: a request may fail at any time.
MCConditions ==
    {[probe |-> "well", request |-> "well"], [probe |-> "not", request |-> "badly"]}
=============================================================================
