\* PDU and frame nodes on one SimBus; a PDU node that may stop reading early.
SPECIFICATION Spec
CONSTANTS
  Nodes <- MCNodes
  Config <- MCConfig
  Input <- MCInput
  MaxPut <- MCMaxPut
  MaxStep = 2
  Impatient = {"can"}
  BufferLen = 2
INVARIANTS TypeOK StreamSound NoStaleReader TimeInStep
PROPERTY ImplementsExchange
\* The nodes stop after MaxStep exchanges.
CHECK_DEADLOCK FALSE
