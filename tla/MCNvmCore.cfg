CONSTANTS
    p1 = p1
    p2 = p2
    d1 = d1
    d2 = d2
    n1 = n1
    Procs <- MCProcs
    Devs <- MCDevs
    Names <- MCNames
    NumLuns <- MCNumLuns
    LunsPerCh <- MCLunsPerCh
    InitMayFail = TRUE
    Unregister = TRUE
SPECIFICATION Spec
INVARIANT TypeOK
INVARIANT LunOwnership
INVARIANT AddrRoundTrip
CHECK_DEADLOCK FALSE
