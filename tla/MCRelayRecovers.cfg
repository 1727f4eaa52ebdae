CONSTANTS
    c1 = c1
    c2 = c2
    c3 = c3
    a1 = a1
    a2 = a2
    a3 = a3
    a4 = a4
    NoAddr = NoAddr
    Clients <- ThreeClients
    Addrs <- FourAddrs
    Home <- Homes
    Old <- OldOne
    Mixes <- AllMixes
SPECIFICATION FairSpec
INVARIANT RelayKeepsWord
PROPERTIES SessionKeepsOwner  OneSessionEach
