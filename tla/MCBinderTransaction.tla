------------------------ MODULE MCBinderTransaction ------------------------
EXTENDS BinderTransaction, TLC

CONSTANTS A, B, a1, a2, b1, b2

MCProcOf == [th \in Thread |-> IF th \in {a1, a2} THEN A ELSE B]
AllCalls == {c \in Thread \X Proc : MCProcOf[c[1]] # c[2]}
FromA == {c \in AllCalls : c[2] = B}
A1AndB == {c \in AllCalls : c[1] # a2}
NoCalls == {}
Symmetry == Permutations(Txn) \cup Permutations(Buf)
=============================================================================
