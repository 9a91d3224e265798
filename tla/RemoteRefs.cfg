SPECIFICATION Spec
CONSTANTS
    Thread = {t1, t2}
    Proxy = {p1, p2}
    Node = {n1, n2}
    Kinds = {TRUE, FALSE}
    MaxOut = 3
    NULL = NULL
SYMMETRY Symmetry
INVARIANTS TableExact Held
CHECK_DEADLOCK FALSE
