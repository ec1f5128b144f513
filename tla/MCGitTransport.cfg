CONSTANTS
  Device = {d1, d2}
  Path = {staging, hashes}
  Text = {hashes}
  None = None
  Occupied = Occupied
  Garbled = Garbled
  Faults = {"offline", "lost", "unknown"}
  MaxPushes = 3
  MaxCommits = 3

SPECIFICATION Spec
SYMMETRY Symmetric
INVARIANTS TypeOK NoMarkersOnRemote
PROPERTIES PushLands PullFresh LeftoversFillGaps
CHECK_DEADLOCK FALSE
