---------------------------- MODULE TokenBucket ----------------------------
(***************************************************************************)
(* What a rate limiter promises: every client has a bucket that holds up   *)
(* to Burst tokens and gains Rate of them per second, all the time; a      *)
(* request is allowed exactly when a whole token is there, and takes it.   *)
(*                                                                         *)
(* One token is Unit parts, and there are Unit ticks to a second, so that  *)
(* a bucket gains Rate parts per tick.  Levels are real numbers in the     *)
(* code; whole parts are exact as long as nothing is divided.              *)
(*                                                                         *)
(* RateLimit implements this module (property RateLimit!LocalIsBucket).    *)
(***************************************************************************)
EXTENDS Naturals

CONSTANTS
    Clients,
    Rate,       \* Rate[c]: tokens per second
    Burst,      \* Burst[c]: capacity in tokens
    Unit        \* ticks per second, and parts per token

VARIABLES
    level,      \* level[c]: parts in the bucket of c
    said        \* said[c]: the last verdict c was given

bucketVars == <<level, said>>

Capped(n, c) == IF n > Burst[c] * Unit THEN Burst[c] * Unit ELSE n

Init ==
    /\ level = [c \in Clients |-> Burst[c] * Unit]
    /\ said = [c \in Clients |-> "nothing"]

Allow(c) ==
    /\ level[c] >= Unit
    /\ level' = [level EXCEPT ![c] = @ - Unit]
    /\ said' = [said EXCEPT ![c] = "allowed"]

Deny(c) ==
    /\ level[c] < Unit
    /\ said' = [said EXCEPT ![c] = "denied"]
    /\ UNCHANGED level

Tick ==
    /\ level' = [c \in Clients |-> Capped(level[c] + Rate[c], c)]
    /\ UNCHANGED said

Next == Tick \/ \E c \in Clients : Allow(c) \/ Deny(c)

Spec == Init /\ [][Next]_bucketVars
=============================================================================
