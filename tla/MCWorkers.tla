----------------------------- MODULE MCWorkers ------------------------------
(* A small instance of Workers.                                            *)
EXTENDS Workers, TLC

CONSTANTS k1, s1, s2, a, b

MCSymmetry == Permutations({s1, s2}) \union Permutations({a, b})
=============================================================================
