------------------------------ MODULE Tenants ------------------------------
(***************************************************************************)
(* What Admission and Billing have in common: the requests that the        *)
(* package tenant admits, and whose responses it charges to somebody.      *)
(***************************************************************************)
CONSTANTS
    Requests,
    None
=============================================================================
