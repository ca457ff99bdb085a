SPECIFICATION LinkSpec
CONSTANTS
    NUMBER_OF_TXQ = 3
    b1 = b1
    b2 = b2
    NoBuf = NoBuf
    ISS = 0
    RxSize = 1
    WinMod = 2
    MaxRto = 2
    Restarts = FALSE
    MaxLen = 1
    MaxSeq = 2
    PeerBytes = 2
    PeerWindow = 1
    DevCap = 2
    PeerCap = 1
    Bufs <- MCBufs
    InSegment <- MCNone
    InitialRto <- MCInitialRto
    PeerSeq <- MCNone
SYMMETRY BufSymmetry
VIEW LinkView
INVARIANT EofComplete
PROPERTIES
    SendStream
    ReceiveStream
CHECK_DEADLOCK FALSE
