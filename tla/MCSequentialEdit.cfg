CONSTANTS
    Steps <- ChartSteps
    StepOrder <- ChartOrder
    Transitions <- ChartTransitions
    Pages <- ChartPages
    Sections <- ChartSections
    TransOf <- ChartTransOf
    Before <- ChartBefore
    After <- ChartAfter
    Condition <- ChartCondition
    InitSteps <- ChartInit
    Loops <- ChartLoops
    Vars = {"a"}
    Period = 1
    TimeTop = 1
    PassesMax = 2
    Jobs = {"apply"}

SPECIFICATION Spec

INVARIANT AliveAfterEdit
