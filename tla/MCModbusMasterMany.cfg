CONSTANTS
    Slaves = {"s1", "s2"}
    None = none
    NbrReqs = 4
    SlaveOf <- TableSlaves
    Kind <- ManyKinds
    IdMax = 1
    LineMax = 2
    ChangesMax = 0

SPECIFICATION Spec

PROPERTY ErrorMeansFault
