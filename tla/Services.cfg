SPECIFICATION LiveSpec
CONSTANTS
    m = m  n = n  s1 = s1  s2 = s2  s3 = s3
    Name = {m, n}
    Service = {s1, s2, s3}
    Pairs <- OwnNames
    Isolations = {FALSE}
    Dies = {s1}
    MaxInbox = 2
    MaxList = 3
    NULL = NULL
INVARIANTS ClaimsBalanced FindAnswers ListComplete
PROPERTY ImplementsRegistry
CHECK_DEADLOCK FALSE
