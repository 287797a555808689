CONSTANTS
    Width = 8
    MemSize = 4
    Once = TRUE
    Texts <- MCTexts
    Operands <- MCOperands
    Values <- MCValues
    Trees <- MCTrees
    Compared <- MCCompared

SPECIFICATION Spec

INVARIANTS
    AcceptedEvaluates

PROPERTIES
    UsualMeaning
    VerifyIsSilent
