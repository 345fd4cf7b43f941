CONSTANTS
    Codes <- AllCodes
    Byte <- Bytes
SPECIFICATION FairSpec
INVARIANTS WaitAfterTell TellNeverKills
PROPERTIES BothEnd
CHECK_DEADLOCK FALSE
