-------------------------- MODULE MCResponseCache --------------------------
EXTENDS ResponseCache, TLC

CONSTANTS r1, r2, r3, k1

MCKeyOf == [r \in Requests |-> k1]
=============================================================================
