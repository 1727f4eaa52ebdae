CONSTANTS
    zero = zero
    me = me
    n1 = n1
    n2 = n2
    n3 = n3
    k1 = k1
    k2 = k2
    Default = zero
    Self = me
    NodeIds <- FiveNodes
    Callers <- TwoCallers
    Bits <- IdBits
    Count = 2
    Word = 2
    Limit = 2
    RecordSize = 2
    BufferSize = 4
    Mixes <- AllMixes
SPECIFICATION FairDiscovery
INVARIANTS  NeighboursAreNearest PrefixIsListed BroadcastReaches
PROPERTY GoneIsDisconnected
CHECK_DEADLOCK FALSE
