CONSTANTS
    t1 = t1
    t2 = t2
    Tasks <- One
    Pid <- OnePid
    IdentMod = 4
    PortMod = 16
    Port = 5
    NProbes = 1
    MaxTtl = 3
    WaitTime = 2
    Dist <- OneFar
    Unreach <- OneRoute
    MaxLate = 1
SPECIFICATION Spec
INVARIANTS StopsForReason
CHECK_DEADLOCK FALSE
