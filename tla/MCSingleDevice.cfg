CONSTANTS
  Device = {d1}
  Entry = {1, 2}
  Commands = {"view", "login", "start", "oneoff", "end", "remove", "sync", "syncRemove"}
  Faults = {"network", "crash", "merge"}
  Serial = FALSE

SPECIFICATION Spec
INVARIANT TypeOK
INVARIANT SkippedPushIsRedundant
PROPERTY ReplayKeepsWal
