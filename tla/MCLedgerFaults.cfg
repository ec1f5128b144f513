CONSTANTS
  Device = {d1, d2}
  Entry = {1, 2}
  Date <- OwnDates
  Title <- EncryptedTitles
  Answers = {"merge", "skip"}
  Faults = {"staging", "list", "pull", "push", "kill"}
  Serial = FALSE
  MaxBlocks = 4

SPECIFICATION Spec
SYMMETRY DeviceSymmetry
INVARIANTS TypeOK EntryKept EntryOnce
PROPERTY MergeKeepsBoth
