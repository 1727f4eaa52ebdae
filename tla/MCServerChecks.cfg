SPECIFICATION FairSpec
CONSTANTS
    Workers = {w1}
    Peers = {p1}
    Epochs = {1, 2}
    a = a
    alias = alias
    NodeIds = {a}
    Keys <- OneNode
    MaxObjects = 2
    Arrivals <- Checks
PROPERTIES   RegistrationSettles
