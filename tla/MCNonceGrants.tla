--------------------------- MODULE MCNonceGrants ----------------------------
(* Small instances of NonceGrants: a space of six nonces, slots of two.     *)
EXTENDS NonceGrants

CONSTANTS l1, l2, c1, c2

\* A full space, and a slot at each end of the space, the upper one first, so
\* that a grant meets the top of the space before the last segment.
MCLayouts == {FullLayout, NicehashLayout(<<2, 0>>)}
=============================================================================
