------------------------------ MODULE MCSessions ------------------------------
(* Instances of Sessions for TLC. *)
EXTENDS Sessions, TLC

CONSTANTS phone, r1, r2, r3

Symmetry == Permutations(Requests)
===============================================================================
