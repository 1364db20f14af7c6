SPECIFICATION Spec
CONSTANTS
  MicrotickPerCycle = 8
  MacrotickPerCycle = 8
  StaticSlotLength = 2
  StaticSlotCount = 2
  MinislotLength = 1
  NetworkIdleStart = 7
  MaxCycle = 2
  Node = {1, 2}
  StartIndex = {0}
  Slot = {1, 2, 3}
  BitsPerMinislot = 6
  HeaderBits = 4
  StepUt = 4
  Rearming = {}
CONSTANTS
  EcuOf <- MCOneEcu
  FrameTable <- MCFrameTable
  Inhibit <- MCInhibit
  Payload <- MCPayload
  MaxWrites <- MCMaxWrites
  MaxHalts <- MCMaxHalts
  MaxRefusals <- MCNone
PROPERTY RestartKeepsOthers
