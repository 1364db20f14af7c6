SPECIFICATION Spec
CONSTANTS
  Pdu = {1, 2, 3, 4, 5}
  Table <- MCTable
  Value = {0, 1}
  CycleTime = 2
  SlotStep <- MCSlotStep
  InSync = TRUE
  Period = 4
  Horizon = 15
INVARIANTS TypeOK NothingForgotten
PROPERTIES SentWhenDue Delivered
