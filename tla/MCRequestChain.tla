--------------------------- MODULE MCRequestChain ---------------------------
EXTENDS RequestChain, TLC

CONSTANTS r1, r2, k1

MCKeyOf == [r \in Requests |-> k1]
=============================================================================
