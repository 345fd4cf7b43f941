CONSTANTS
    t1 = t1
    t2 = t2
    t3 = t3
    Thread <- Three
    Allocator = t1
    NBUF = 3
    BSZ = 2
    Sizes <- UpTo4Buffers
    MaxSent = 4
    MaxSignals = 2
    Seconds = 2
    MaxLen = 6
    Keys = {1, 2, 3}
    Letters = {0, 1, 2, 3, 4}
    MaxEqs = 4
    MaxInput = 6
    Value = {1, 2}
    FirstSize = 2
    MaxElems = 5
    fd1 = fd1
    fd2 = fd2
    Terminals <- TwoTerminals
SPECIFICATION Spec
INVARIANTS NoUseAfterFree NotLeaked OutputRight CallerRestored Outcome ModesRestored StackOrList
           ResultsRight
PROPERTIES AllCopied QuitEnds ProgramsEnd
CHECK_DEADLOCK FALSE
