------------------------------ MODULE MCRxCache ------------------------------
\* An instance of RxCache for TLC: two lanes of sixteen blocks; three registers,
\* of which two are alike.
EXTENDS RxCache, TLC
CONSTANTS a, b, r5, x
MCRegisters == {a, b, r5}
Symmetry == Permutations({a, b})
=============================================================================
