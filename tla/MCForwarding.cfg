CONSTANTS
    a = a
    b = b
    b2 = b2
    Clients <- TwoClients
    NodeIds <- ThreeIds
    SlotIds = {1, 2, 3}
    IdsOf <- Identities
    FirstSlot <- Slots
    Mixes <- AllMixes
    Resets = 2
    MaxKey = 2
    MaxNumber = 6
SPECIFICATION FairSpec
INVARIANTS ForwardsAgree RoutesAreCurrent
PROPERTIES KeyNeverGoesBack KeysConverge 
CHECK_DEADLOCK FALSE
