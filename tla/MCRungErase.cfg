CONSTANTS
  Width = 6
  Height = 2
  Tools = {"contact", "connection", "timer", "operate"}
  NbrBlocks = 2
  NbrExprs = 2
  BlocksElsewhere <- Elsewhere
  ExprsElsewhere = {}
  Rungs <- WideRungs
  ClicksMax = 1
  Careful = TRUE
SPECIFICATION Spec
PROPERTY EraseHits
CHECK_DEADLOCK FALSE
