CONSTANTS
    p1 = p1
    p2 = p2
    p3 = p3
    p4 = p4
    Proc <- Three
    Creators <- Two
    Openers <- Three
    Servers <- One
    BIGCOUNT = 5
    InitVal = 1
    Amounts <- WaitSignalZero
    MayExit = TRUE
SPECIFICATION FairSpec
INVARIANTS LockExclusion CounterExact InitializesUnused
PROPERTIES CloseReturns
