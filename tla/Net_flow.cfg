SPECIFICATION Spec
CONSTANTS
    TcpPorts = {"web"}
    UdpPorts = {"dns", "ntp"}
    Dst <- MCDst
    Asks <- MCAsks
    NatMax = 2
    Buf = 2
    Mss = 2
    Fifo = 2
    RxBufs = 2
    GuestBuf = 2
    SeqSize = 16
    SendRoom = 1
    RecvMax = 1
    Plans <- MCPlans
INVARIANTS RelayExact SocketsMatchFlows Bookkeeping
PROPERTY Delivered
CHECK_DEADLOCK FALSE
