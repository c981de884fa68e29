------------------------------- MODULE MCLogin -------------------------------
(* Three requests of two addresses for two users, one of whom exists.       *)
EXTENDS Login, TLC

CONSTANTS r1, r2, r3, admin, stranger, ip1, ip2

MCSymmetry == Permutations(Requests) \cup Permutations(Addresses)
=============================================================================
