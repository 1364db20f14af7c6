SPECIFICATION Spec
CONSTANTS
  Node = {1, 2, 3}
  Driver = {1, 3}
  StartIndex = {0}
  InitialPoc = {"DefaultConfig", "NormalActive"}
  VcnCounts = {0, 1}
CONSTANT MaxConfigs <- MCMaxConfigs
INVARIANTS TypeOK TransceiverFollowsPoc SyncNeedsTwo
PROPERTIES PowerOnRestarts StartupCompletes
