------------------------------ MODULE MCRateLimit ------------------------------
(* Instances of RateLimit for TLC. *)
EXTENDS RateLimit, TLC

CONSTANTS r1, r2, r3

(* Of three requests, the tiers refuse the third and the day the second.    *)
SmallCapacity == [general |-> 2, general_ip |-> 2, ai |-> 2, ai_daily |-> 1]
SmallPeriod == [general |-> 1, general_ip |-> 1, ai |-> 2, ai_daily |-> 3]

Symmetry == Permutations(Requests)
===============================================================================
