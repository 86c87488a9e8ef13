---------------------------- MODULE MCRateLimit ----------------------------
EXTENDS RateLimit, TLC

CONSTANTS s1, s2, alice

\* Requests of one client at a time, with a token of the plain list: it carries
\* the global limits as its own.
MCClientOf == [s \in Slots |-> alice]
MCTokenQps == [c \in Clients |-> AuthQps]
MCTokenBurst == [c \in Clients |-> AuthBurst]
=============================================================================
