--------------------------- MODULE MCRxLifecycle ----------------------------
(* Small instances of RxLifecycle: two mining threads, two allocations that *)
(* may overlap, two seeds.                                                  *)
EXTENDS RxLifecycle

CONSTANTS t1, t2, w1, w2, s1, s2
=============================================================================
