CONSTANTS
  Entry = {e1, e2}
  Committers = {"stamped", "engine", "summary"}
  Faults = {"kill", "backup"}
  MaxVersion = 4

SPECIFICATION Spec
SYMMETRY EntrySymmetry
INVARIANTS TypeOK StampedChainVerifies StagedReadable IndexReadable BackupComplete
CHECK_DEADLOCK FALSE
