SPECIFICATION Spec
CONSTANTS
    A = A  B = B  a1 = a1  a2 = a2  b1 = b1  b2 = b2
    Proc = {A, B}
    Thread = {a1, b1}
    ProcOf <- MCProcOf
    Calls <- AllCalls
    OneWays <- FromA
    Loopers = {b1}
    Exits = {a1}
    Dies = {B}
    Txn = {t1, t2}
    Buf = {d1, d2}
    MaxTodo = 2
    NULL = NULL
    COMPLETE = COMPLETE
SYMMETRY Symmetry
INVARIANTS NoBug NoDangling BufferOfTransaction AsyncSerial
PROPERTY ErrorNotLost
CHECK_DEADLOCK FALSE
