CONSTANTS
  Device = {d1, d2}
  Entry = {1, 2}
  Commands = {"view", "login", "start", "oneoff", "end", "modify", "syncRemove", "sync"}
  Faults = {}
  Serial = TRUE

SPECIFICATION Spec
SYMMETRY DeviceSymmetry
INVARIANT HolderIsCurrent
PROPERTY CustodySpec
