CONSTANTS
  Device = {d1}
  Entry = {e1, e2}
  Foreign <- Completed
  None = None
  Stale = Stale
  Faults = {"push", "pull", "expire", "close", "other"}
  MaxPushes = 2
  MaxEdits = 2
  MaxFaults = 2

SPECIFICATION Spec
SYMMETRY EntrySymmetry
INVARIANTS TypeOK ChangesArePushed EntryKept
