SPECIFICATION FairTransport
CONSTANTS
    t1 = t1
    t2 = t2
    u1 = u1
    u2 = u2
    main = main
    alias = alias
    Tasks <- TwoTasks
    Users <- TwoUsers
    Ids <- Identities
    Default = main
    Uses = {"Messages"}
    Removers = {"router", "closer", "user"}
    Closer = "closer"
    MaxConns = 2
    Mixes <- All
INVARIANTS PermitExclusive KeptOnce NothingIsStale 
PROPERTY CallsReturn
CHECK_DEADLOCK FALSE
