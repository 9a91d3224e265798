SPECIFICATION LiveSpec
CONSTANTS
    o1 = o1  o2 = o2
    Thread = {t1, t2}
    JavaProxy = {j1, j2}
    JDR = {r1, r2}
    Object = {o1, o2}
    ObjectOf <- SameObject
    NULL = NULL
INVARIANTS OneBinderProxy RefsValid Registered
PROPERTIES LinkedTold ToldReleased
CHECK_DEADLOCK FALSE
