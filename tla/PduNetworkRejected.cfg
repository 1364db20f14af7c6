SPECIFICATION Spec
CONSTANTS
  Pdu = {1, 2}
  Table <- MCRejected
  Value = {0, 1}
  CycleTime = 2
  SlotStep <- MCSlotStep
  InSync = TRUE
  Period = 4
  Horizon = 15
INVARIANT NothingForgotten
