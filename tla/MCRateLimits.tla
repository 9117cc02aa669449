---------------------------- MODULE MCRateLimits ----------------------------
(* Instances of RateLimits for TLC. *)
EXTENDS RateLimits, TLC

MCDefault == [k \in Keys |-> 4]
Halve == {<<1, 2>>}
=============================================================================
