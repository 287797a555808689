CONSTANTS
  NbrSteps = 3
  NbrTransis = 3
  NbrComments = 2
  Switchs = 2
  Pages = {0, 1}
  PageWidth = 2
  PageHeight = 5
  CommentWidth = 2
  Charts <- SomeCharts
  NumberMax = 1
  ClicksMax = 3
  Careful = TRUE
SPECIFICATION Spec
INVARIANTS StepsAlive OnePerCell
CHECK_DEADLOCK FALSE
