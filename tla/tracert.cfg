CONSTANTS
    t1 = t1
    t2 = t2
    Tasks <- Two
    Pid <- TwoPids
    IdentMod = 4
    PortMod = 8
    Port = 6
    NProbes = 2
    MaxTtl = 2
    WaitTime = 2
    Dist <- FarAndNear
    Unreach <- SilentAndAny
    MaxLate = 1
SPECIFICATION FairSpec
INVARIANTS Attribution StopsForReason
PROPERTIES StopsAtHost Terminates
CHECK_DEADLOCK FALSE
