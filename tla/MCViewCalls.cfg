SPECIFICATION Spec
CONSTANTS
    Procs = {p1, p2, p3}
    Nodes = {peer, relay}
    Relay = relay
    PublicAddr = TRUE
    Endpoints <- TwoAndRelay
    Budgets <- PairsAndMore
    peer = peer
    relay = relay
    a1 = a1
    a2 = a2
    ra = ra
    p1 = p1
    p2 = p2
    p3 = p3
SYMMETRY Symmetry
INVARIANTS PermitExclusive 
