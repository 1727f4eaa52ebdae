CONSTANTS
    a = a
    b = b
    b2 = b2
    Clients <- TwoClients
    NodeIds <- ThreeIds
    SlotIds = {1, 2, 3}
    IdsOf <- Identities
    FirstSlot <- Slots
    Mixes <- SameAddress
    Resets = 2
    MaxKey = 2
    MaxNumber = 6
SPECIFICATION FairSpec
PROPERTY KeysConverge
CHECK_DEADLOCK FALSE
