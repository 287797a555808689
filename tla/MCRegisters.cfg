CONSTANTS
    NbrRegisters = 2
    Size = 2
    Values = {1, 2}

VIEW Seen

SPECIFICATION Spec

INVARIANTS
    IndexesAgree
    LifoStoresInside

PROPERTIES
    RegistersImplementStores
    ForeignWrites
