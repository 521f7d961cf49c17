CONSTANTS
    ConnectionCount = 2
    PartyCapacity = 2
    RequestIds = {0, 1}
    MaxPartiesCount = 3
SPECIFICATION Spec
INVARIANTS
    FreeConnectionIsFree
