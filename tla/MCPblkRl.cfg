CONSTANTS
    w1 = w1
    p1 = p1
    s1 = s1
    t1 = t1
    g1 = g1
    Writers <- MCWriters
    Putters <- MCPutters
    Sysfs <- MCSysfs
    Timers <- MCTimers
    GcThreads <- MCGcThreads
    NUMS_SLC_LINE <- MCNumsSlcLine
    NumLines <- MCNumLines
    BlkInLine <- MCBlkInLine
    BlkMeta <- MCBlkMeta
    OpBlks <- MCOpBlks
    Budget <- MCBudget
SPECIFICATION Spec
INVARIANT TypeOK
 
