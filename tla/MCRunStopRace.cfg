CONSTANTS
    Logic = logic
    Inputs = inputs
    Operators = {gui}

SPECIFICATION Spec

INVARIANT ServiceExcludesScan
