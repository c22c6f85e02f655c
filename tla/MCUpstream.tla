------------------------------ MODULE MCUpstream ----------------------------
(* Small instances of Upstream: two miners on at most two links at a time.  *)
EXTENDS Upstream, TLC

CONSTANTS c1, c2, a, b, d

\* Miners and Link objects are interchangeable.
Symmetry == Permutations(Clients) \union Permutations(LinkIds)
=============================================================================
