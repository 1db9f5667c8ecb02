CONSTANTS
    NumLines <- MCNumLines
    SecInLine <- MCSecInLine
    HighThrs <- MCHighThrs
    MidThrs <- MCMidThrs
    NumLbas <- MCNumLbas
    RwbSize <- MCRwbSize
    MaxWritePgs <- MCMaxWritePgs
    MaxUserWrites <- MCMaxUserWrites
    MaxReads <- MCMaxReads
    MaxRef <- MCMaxRef
    BlkInLine <- MCBlkInLine
    RlHigh <- MCRlHigh
    RsvBlocks <- MCRsvBlocks
    GcLQd <- MCGcLQd
    GcRqQd <- MCGcRqQd
    GcNrLists <- MCGcNrLists
    RL_OFF <- MCRL_OFF
    RL_LOW <- MCRL_LOW
    GcPrepareMayFail = FALSE
    GcReadMayFail = FALSE
    GcReadDevErr = FALSE
    GcLineAllocMayFail = FALSE
    ReadSubmitMayFail = TRUE
    PutWqMayFail = TRUE
    InvalidateWindow = TRUE
SPECIFICATION Spec

CHECK_DEADLOCK FALSE

PROPERTY BlockDeviceRefined
