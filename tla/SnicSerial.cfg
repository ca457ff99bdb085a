SPECIFICATION SerialSpec
CONSTANTS
    SIZE_OF_RX_BUF = 4
    UartFifo = 2
    x = x
    y = y
    Byte <- MCByte
    ReadLength <- MCReadLength
INVARIANTS
    PreadInRing
PROPERTY RingIsFifo
