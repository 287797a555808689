CONSTANTS
  RUNG_WIDTH = 4
  RUNG_HEIGHT = 4
  Inputs = {"I0"}
  Outputs = {"Q0", "Q1"}
  Bits = {"B0", "B1"}
  FilterLength = 2
  Period = 2
  REGISTER_LIST_SIZE = 2
  FlashHalf = 1
  Programs <- Counting
SPECIFICATION HSpec
PROPERTY CounterCounts
CHECK_DEADLOCK FALSE
