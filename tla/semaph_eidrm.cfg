CONSTANTS
    p1 = p1
    p2 = p2
    p3 = p3
    p4 = p4
    Proc <- Two
    Creators <- Two
    Openers <- None
    Servers <- None
    BIGCOUNT = 5
    InitVal = 1
    Amounts <- WaitSignal
    MayExit = FALSE
SPECIFICATION Spec
PROPERTIES CreateSurvivesRemoval
