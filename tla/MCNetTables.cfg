SPECIFICATION Spec
CONSTANTS
    r1 = r1
    r2 = r2
    t1 = t1
    t2 = t2
    Remotes <- TwoRemotes
    Service = 1
    PortBits = 3
    RangeStart = 6
    RemotePorts = {6}
    Tasks <- TwoTasks
    MaxSockets = 3
    Reuse = FALSE
VIEW View
SYMMETRY Symmetry
INVARIANTS  FreePortIsFound
CHECK_DEADLOCK FALSE
  
