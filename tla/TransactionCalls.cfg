SPECIFICATION Spec
CONSTANTS
    A = A  B = B  a1 = a1  a2 = a2  b1 = b1  b2 = b2
    Proc = {A, B}
    Thread = {a1, a2, b1}
    ProcOf <- MCProcOf
    Calls <- A1AndB
    OneWays <- NoCalls
    Loopers = {b1}
    Exits = {}
    Dies = {}
    Txn = {t1, t2, t3}
    Buf = {d1, d2}
    MaxTodo = 2
    NULL = NULL
    COMPLETE = COMPLETE
SYMMETRY Symmetry
INVARIANTS ThreadWorkWakes ProcWorkHasReader NoStaleWait ServedByWaitingThread
CHECK_DEADLOCK FALSE
