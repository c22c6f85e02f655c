------------------------------ MODULE MCVarDiff ------------------------------
(* Small instances of VarDiff.  With these scales the compact targets stand *)
(* for the difficulties 24, 12, 8, 6, 4, 3, 2 and 1.                         *)
EXTENDS VarDiff

\* Pools between, on and above those, one below what is assigned at least.
MCPools == {Compact(1), Long(54), Long(70), Compact(24)}

\* A seed that is the difficulty of its target, and one that is rounded past a
\* pool's: 9 becomes 12, and Long(54) is of difficulty 11.
MCSeeds == {6, 9}
=============================================================================
