CONSTANTS
    NbrRungs = 3
    NbrSections = 2
    NbrSubRoutines = 1
    MadMax = 1
    SelfCalls = FALSE
    CoilsMax = 1
    EditsMax = 1
    DeletesLast = TRUE
    StrayJumps = FALSE
    StaleNumbers = FALSE

VIEW Seen

SPECIFICATION FairSpec

INVARIANTS
    ScanOnRungs

