CONSTANTS
  RUNG_WIDTH = 4
  RUNG_HEIGHT = 3
  Inputs = {"I0"}
  Outputs = {"Q0", "Q1"}
  Bits = {"B0", "B1"}
  FilterLength = 2
  Period = 2
  REGISTER_LIST_SIZE = 2
  FlashHalf = 1
  Programs <- Flashing
SPECIFICATION HFairSpec
PROPERTY MinuteFlash
CHECK_DEADLOCK FALSE
