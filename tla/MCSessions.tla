----------------------------- MODULE MCSessions -----------------------------
(* Small instances of Sessions: two sessions of one worker.                 *)
EXTENDS Sessions

CONSTANTS w1, s1, s2

MCHost == [s \in Sessions |-> w1]

\* Sessions are interchangeable.
Symmetry == Permutations(Sessions)
=============================================================================
