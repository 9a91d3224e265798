SPECIFICATION Spec
CONSTANTS
    A = A  B = B  C = C  a1 = a1  a2 = a2  b1 = b1
    n1 = n1  n2 = n2  k1 = k1  k2 = k2
    Proc = {A, B}
    Thread = {a1, a2, b1}
    ProcOf <- ThreadProc
    Node = {n1}
    Owner <- NodeProc
    CtxNode = {}
    Desc <- Handles012
    Buf = {k1}
    MaxRef = 2
    MaxPending = 1
    Kinds = {TRUE, FALSE}
    Refuses = {}
    Exits = {}
    Dies = {}
    NULL = NULL
    COMPLETE = COMPLETE
INVARIANTS WillBeTold ObjectKept
CHECK_DEADLOCK FALSE
