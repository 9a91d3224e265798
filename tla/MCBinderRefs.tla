---------------------------- MODULE MCBinderRefs ----------------------------
(* Instances of BinderRefs for TLC.                                        *)
EXTENDS BinderRefs, TLC

CONSTANTS A, B, C, a1, a2, b1, n1, n2, k1, k2

ThreadOwner == a1 :> A @@ a2 :> A @@ b1 :> B
ThreadProc == [th \in Thread |-> ThreadOwner[th]]
NodeProc == [n \in Node |-> IF n = n2 /\ B \in Proc THEN B ELSE A]

Handles012 == 0 .. Cardinality(Node)

Symmetry == Permutations(Buf)
=============================================================================
