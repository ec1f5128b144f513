CONSTANTS
  Device = {d1, d2}
  Entry = {1}
  Commands = {"login", "oneoff", "sync"}
  Faults = {"network", "crash"}
  Serial = FALSE

SPECIFICATION Spec
SYMMETRY DeviceSymmetry
INVARIANT NoEntryLost
PROPERTY ClaimFollowsPush
