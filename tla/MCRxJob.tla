------------------------------ MODULE MCRxJob -------------------------------
(* A small instance of RxJob: two threads, jobs of one or two nonces and a   *)
(* chunk of one.                                                            *)
EXTENDS RxJob, TLC

CONSTANTS t1, t2

MCGrants == {[start |-> 0, limit |-> 1], [start |-> 1, limit |-> 2]}
Sym      == Permutations(Threads)
=============================================================================
