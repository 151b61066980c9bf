SPECIFICATION FairSpec
CONSTANTS
    Dest = {d}
    Broadcast = broadcast
    SysThread = sys
    RxThread = {rx1, rx2}
    FIFO_BUFFER_MAX_ENTRY_SIZE = 3
    SeqMod = 4
    MaxPackets = 2
    MaxRoutes = 2
INVARIANTS
    TypeOK
    BufferedIsAwaited
    PacketsAreOnce
PROPERTIES
    PacketsMoveOn
    IsOrderedDelivery
CHECK_DEADLOCK FALSE
