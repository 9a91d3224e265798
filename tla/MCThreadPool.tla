---------------------------- MODULE MCThreadPool ----------------------------
(* Instances of ThreadPool for TLC.                                        *)
EXTENDS ThreadPool, TLC

CONSTANTS m, p1, p2, p3

PoolThreads == Thread \ Joiners
Symmetry == Permutations(PoolThreads)
=============================================================================
