SPECIFICATION TimerSpec
CONSTANTS
    NUMBER_OF_TXQ = 3
    b1 = b1
    b2 = b2
    NoBuf = NoBuf
    ISS = 0
    RxSize = 1
    WinMod = 4
    MaxRto = 2
    Restarts = FALSE
    MaxLen = 1
    MaxSeq = 2
    PeerBytes = 0
    PeerWindow = 3
    DevCap = 1
    PeerCap = 1
    Bufs <- MCBufs
    InSegment <- MCNone
    InitialRto <- MCInitialRto
    PeerSeq <- MCNone
PROPERTY OldestLeaves
CHECK_DEADLOCK FALSE
