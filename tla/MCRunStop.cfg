CONSTANTS
    Logic = logic
    Inputs = inputs
    Operators = {gui}

SPECIFICATION FairSpec

INVARIANTS
    TypeOK
    NoSelfWait
    EngineStoppedInService
    RunBackRemembered

PROPERTIES
    StopReturns
