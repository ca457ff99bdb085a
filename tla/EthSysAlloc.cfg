SPECIFICATION EthFairSpec
CONSTANTS
    NUM_TX_FRAG = 4
    s1 = s1
    s2 = s2
    g1 = g1
    g2 = g2
    t1 = t1
    t2 = t2
    NoBuf = NoBuf
    NoTask = NoTask
    Restarts = FALSE
    MaxHeld = 1
    Sys <- MCSys2
    Gen <- MCGen1
    SizeOf <- MCSizeOf
    Tasks <- MCOneTask

PROPERTY SysAllocReturns
CHECK_DEADLOCK FALSE
