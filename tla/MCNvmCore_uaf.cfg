CONSTANTS
    p1 = p1
    p2 = p2
    d1 = d1
    d2 = d2
    n1 = n1
    Procs <- MCProcs
    Devs <- MCDevs
    Names <- MCNames
    NumLuns <- MCNumLuns
    LunsPerCh <- MCLunsPerCh
    InitMayFail = FALSE
    Unregister = TRUE
SPECIFICATION Spec
CHECK_DEADLOCK FALSE
INVARIANT NoUseAfterFree
