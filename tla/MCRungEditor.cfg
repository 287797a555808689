CONSTANTS
  Width = 4
  Height = 3
  Tools = {"contact", "coil", "connection", "timer", "compar", "operate", "register"}
  NbrBlocks = 2
  NbrExprs = 2
  BlocksElsewhere <- Elsewhere
  ExprsElsewhere = {}
  Rungs <- SomeRungs
  ClicksMax = 2
  Careful = TRUE
SPECIFICATION Spec
INVARIANTS WellFormed BlocksOwned FreeCellsDead
CHECK_DEADLOCK FALSE
