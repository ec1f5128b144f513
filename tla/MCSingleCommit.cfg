CONSTANTS
  Device = {d1}
  Entry = {1, 2}
  Commands = {"view", "login", "logout", "start", "oneoff", "end", "pause", "unpause", "modify", "remove", "sync", "syncRemove", "syncBoth"}
  Faults = {"expiry", "age", "merge", "foreign"}
  Serial = TRUE

SPECIFICATION Spec
INVARIANT NoDoubleCommit
PROPERTY ReconcileSparesForeign
