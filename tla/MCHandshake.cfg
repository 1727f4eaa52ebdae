SPECIFICATION Spec
CONSTANTS
    n1 = n1
    n2 = n2
    n3 = n3
    a1 = a1
    a2 = a2
    r1 = r1
    r2 = r2
    Nodes <- ThreeNodes
    Mixes <- CallMixes
    Stops = {n2}
    Attempts <- TwoAttempts
    Rids <- TwoIds
    MaxIncoming = 1
    MaxSids = 2
    DedupSize = 2
SYMMETRY Symmetry
CHECK_DEADLOCK FALSE
INVARIANTS HeldIsReleased PendingIsAwaited InitiatorAgrees 
