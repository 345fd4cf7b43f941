CONSTANTS
    Codes <- OnlyDeadlock
    Byte <- Bytes
SPECIFICATION Spec
INVARIANTS ClaimsHold
CHECK_DEADLOCK FALSE
