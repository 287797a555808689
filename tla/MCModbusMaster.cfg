CONSTANTS
    Slaves = {"s1", "s2"}
    None = none
    NbrReqs = 4
    SlaveOf <- TableSlaves
    Kind <- TableKinds
    IdMax = 1
    LineMax = 2
    ChangesMax = 2

SPECIFICATION FairSpec

INVARIANTS
    ConnectionsInStep

PROPERTIES
    ErrorAfterThree
    Polled
