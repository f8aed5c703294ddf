SPECIFICATION Spec
CONSTANTS
    b1 = b1
    b2 = b2
    b3 = b3
    b4 = b4
    d1 = d1
    d2 = d2
    Null = Null
    Blocks <- MCBlocks
    Bands <- MCBands
    BandOf <- MCBandOf
INVARIANTS
    TypeOK
    ListIsLruOrder
    FreeListsDisjoint
    NoBlockLeaked
PROPERTIES
    ImplementsLru
