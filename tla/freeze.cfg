SPECIFICATION FairSpec
CONSTANTS
    w1 = w1
    w2 = w2
    r1 = r1
    r2 = r2
    k1 = k1
    Writers = {w1, w2}
    Others = {k1}
    Rebuilders = {r1, r2}
    MaxCalls = 2
    MaxRebuilds = 1
INVARIANT FinishedKept
PROPERTY AllReturn
CHECK_DEADLOCK FALSE
