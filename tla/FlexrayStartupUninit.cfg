SPECIFICATION Spec
CONSTANTS
  Node = {1, 2}
  Driver = {1}
  StartIndex = {0, 1}
  InitialPoc = {"DefaultConfig"}
  VcnCounts = {0, 2}
CONSTANT MaxConfigs <- MCMaxConfigs
INVARIANT VcnsKeepSync
