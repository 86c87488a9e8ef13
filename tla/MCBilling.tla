----------------------------- MODULE MCBilling -----------------------------
EXTENDS Billing, TLC

CONSTANTS r1, r2, r3, r4, alice, bob

\* Three requests of alice, and one of bob, whose token has two words.
MCClientOf == (r1 :> alice) @@ (r2 :> alice) @@ (r3 :> alice) @@ (r4 :> bob)
MCLimit == (alice :> 1) @@ (bob :> 1)
=============================================================================
