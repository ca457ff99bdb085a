SPECIFICATION Spec
CONSTANTS
    NUMBER_OF_TXQ = 3
    b1 = b1
    b2 = b2
    b3 = b3
    NoBuf = NoBuf
    ISS = 0
    RxSize = 1
    WinMod = 3
    MaxRto = 2
    Restarts = TRUE
    MaxLen = 1
    MaxSeq = 3
    Bufs <- MCBufs
    InSegment <- MCInSegment
    InitialRto <- MCInitialRto
    PeerSeq <- MCPeerSeq
SYMMETRY BufSymmetry
VIEW View
PROPERTY RstClosed
