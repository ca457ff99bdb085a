SPECIFICATION UdpSpec
CONSTANTS
    ARPTAB_SIZE = 2
    UIP_ARP_MAXAGE = 2
    AgeMod = 3
    ZERO = ZERO
    NoMac = NoMac
    BROADCAST = BROADCAST
    BroadcastMac = BroadcastMac
    host = host
    router = router
    remote = remote
    m1 = m1
    m2 = m2
    HeaderSize = 1
    RxSize = 4
    MaxTry = 2
    Blocks = 2
    SendTo <- MCSendTo
    LocalIps <- MCLocalIps
    Ips <- MCIps
    Macs <- MCMacs
    Router = router
    Sizes = {1}
SYMMETRY MacSymmetry
VIEW UdpView
INVARIANTS
    ArpUnique
    ReadBeforeSeek
    SendKeepsSmallOnly
PROPERTIES
    RightNextHop
    OrderObeyed
