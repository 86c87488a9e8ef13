-------------------------- MODULE MCProxyFailover --------------------------
EXTENDS ProxyFailover, TLC

CONSTANTS r1, r2, r3, p1, p2

\* Two requests share both providers; a third has no route.
MCCandidates == (r1 :> <<p1, p2>>) @@ (r2 :> <<p1, p2>>) @@ (r3 :> <<>>)

\* p2 has two retries of its own, p1 takes the default.
MCMaxRetries == (p1 :> 0) @@ (p2 :> 2)
=============================================================================
