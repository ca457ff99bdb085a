SPECIFICATION EthFairSpec
CONSTANTS
    NUM_TX_FRAG = 3
    s1 = s1
    s2 = s2
    g1 = g1
    g2 = g2
    t1 = t1
    t2 = t2
    NoBuf = NoBuf
    NoTask = NoTask
    Restarts = TRUE
    MaxHeld = 1
    Sys <- MCSys1
    Gen <- MCGen2
    SizeOf <- MCSizeOf
    Tasks <- MCTasks
VIEW RingView
INVARIANTS
    LockedInRing
    NextIsEmpty
    OneHolder
PROPERTIES
    SendReturns
CHECK_DEADLOCK FALSE
