SPECIFICATION Spec
CONSTANTS
  MicrotickPerCycle = 17
  MacrotickPerCycle = 8
  StaticSlotLength = 2
  StaticSlotCount = 2
  MinislotLength = 1
  NetworkIdleStart = 7
  MaxCycle = 64
  MicrotickNs = 25
  StepNs = {125, 450}
  Minislots = {1, 2, 5}
  HorizonNs = 28050
CONSTANT ShiftTargets <- MCShiftTargets
INVARIANTS TypeOK NoBudgetWrap TimeConserved SlotAligned CycleCounter
PROPERTIES SlotsInOrder LoopEnds FollowsSimulationTime
