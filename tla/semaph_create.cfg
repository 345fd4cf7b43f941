CONSTANTS
    p1 = p1
    p2 = p2
    p3 = p3
    p4 = p4
    Proc <- Four
    Creators <- Four
    Openers <- None
    Servers <- None
    BIGCOUNT = 5
    InitVal = 2
    Amounts <- UpToTwo
    MayExit = TRUE
SPECIFICATION Spec
SYMMETRY Sym4
INVARIANTS HandleStays
PROPERTIES ImplementsSemaphore
