CONSTANTS
    p1 = p1
    p2 = p2
    p3 = p3
    p4 = p4
    Proc <- Three
    Creators <- Three
    Openers <- Two
    Servers <- None
    BIGCOUNT = 2
    InitVal = 1
    Amounts <- WaitSignal
    MayExit = TRUE
SPECIFICATION Spec
INVARIANTS LockInv
