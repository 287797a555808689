CONSTANTS
  Files <- MCFiles
  Blocks <- MCBlocks
  Missing = {}
  SurveyTicks = 1
  MaxErrors = 1
  Rungs = 1
  Patient = TRUE
  MaxTry = 1
  Plans <- MCPlans
  MaxIdle = 1
SPECIFICATION FairSpec
CHECK_DEADLOCK FALSE
INVARIANTS WholeFile ReadsOpenFile
PROPERTIES OrderExecuted BackToReadOnly TransferEnds
