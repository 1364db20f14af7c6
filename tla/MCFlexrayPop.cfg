SPECIFICATION Spec
CONSTANTS
  StepUt = 12
CONSTANTS
  Members <- MCMembers
  NodePdus <- MCNodePdus
  PopPdus <- MCPopPdus
  MaxPut <- MCMaxPut
INVARIANTS TypeOK PdusArrive StatusFirst ReplicasAgree
PROPERTIES EstimateAdvances CommandAnswered
