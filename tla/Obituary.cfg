SPECIFICATION LiveSpec
CONSTANTS
    t1 = t1  t2 = t2  h1 = h1  p1 = p1  r1 = r1  r2 = r2  d1 = d1  d2 = d2  d3 = d3
    Handle = {h1}
    Thread = {t1, t2}
    Loopers = {t1}
    Cookie = {p1}
    Death = {d1, d2}
    Exits = {}
    NULL = NULL
    HandleOf <- OneHandle
    Recipient = {r1, r2}
    ProxyOf <- OneProxy
INVARIANTS WeakMatched CalledWhenLinked
PROPERTIES LinkReported WeakReleased
CHECK_DEADLOCK FALSE
