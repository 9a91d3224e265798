SPECIFICATION LiveSpec
CONSTANTS
    m = m  p1 = p1  p2 = p2  p3 = p3
    Thread = {m, p1, p2}
    Joiners = {m}
    Limits = {1, 2}
    MaxWork = 1
    MayFail = TRUE
INVARIANT RequestMatched
PROPERTIES WorkTaken StopDrains
CHECK_DEADLOCK FALSE
