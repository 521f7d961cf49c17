CONSTANTS
    Size = 3
    Octets = {1, 2, 3}
SPECIFICATION Spec
INVARIANTS
    TypeOK
    FullOnlyWhenIndicesMeet
PROPERTY ImplementsFifo
