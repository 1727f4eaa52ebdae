SPECIFICATION Spec
CONSTANTS
    Workers = {w1, w2}
    Peers = {p1}
    Epochs = {1, 2}
    a = a
    alias = alias
    NodeIds = {a, alias}
    Keys <- OneClient
    MaxObjects = 2
    Arrivals <- RegistrationsOrRestarts
SYMMETRY Symmetry
INVARIANTS IndexIsExact EventsMatchIndex
