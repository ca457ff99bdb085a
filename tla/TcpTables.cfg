SPECIFICATION TablesFairSpec
CONSTANTS
    TCPSOCKET_MAX = 2
    TCPLISTENER_MAX = 1
    NUMBER_OF_Q = 3
    srv = srv
    cl1 = cl1
    p1 = p1
    p2 = p2
    NoPeer = NoPeer
    Byte = 3
    PortBase = 6
    PortMod = 1
    Servers <- MCServers
    Clients <- MCClients
    Peers <- MCPeers
    ListenPorts <- MCListenPorts
INVARIANTS
    OldestFirst
PROPERTIES
    TakenOpens
    SynServed
VIEW TablesView
CHECK_DEADLOCK FALSE
