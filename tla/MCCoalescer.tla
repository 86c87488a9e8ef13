---------------------------- MODULE MCCoalescer ----------------------------
(***************************************************************************)
(* Three requests for one key (a leader, a follower, and one that comes    *)
(* before or after the entry is deleted) and one request for another.      *)
(***************************************************************************)
EXTENDS Coalescer, TLC

CONSTANTS r1, r2, r3, r4, k1, k2

MCKeyOf == (r1 :> k1) @@ (r2 :> k1) @@ (r3 :> k1) @@ (r4 :> k2)
=============================================================================
