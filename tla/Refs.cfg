SPECIFICATION Spec
CONSTANTS
    A = A  B = B  C = C  a1 = a1  a2 = a2  b1 = b1
    n1 = n1  n2 = n2  k1 = k1  k2 = k2
    Proc = {A, B, C}
    Thread = {a1, b1}
    ProcOf <- ThreadProc
    Node = {n1, n2}
    Owner <- NodeProc
    CtxNode = {n2}
    Desc <- Handles012
    Buf = {k1}
    MaxRef = 2
    MaxPending = 1
    Kinds = {TRUE}
    Refuses = {a1}
    Exits = {a1}
    Dies = {A, B}
    NULL = NULL
    COMPLETE = COMPLETE
INVARIANTS CountsExact NoDangling HandlesValid
CHECK_DEADLOCK FALSE
