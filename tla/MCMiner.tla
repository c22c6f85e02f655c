------------------------------ MODULE MCMiner -------------------------------
(* A small instance of Miner: three connections, three jobs of two seeds,  *)
(* two of them of a proxy.                                                 *)
EXTENDS Miner, TLC

CONSTANTS j1, j2, j3, s1, s2

MCSeed == (j1 :> s1) @@ (j2 :> s1) @@ (j3 :> s2)
=============================================================================
