CONSTANTS
  Device = {d1}
  Origin = {d1}
  Joiner = {}
  Entry = {e1}
  Passphrase = {p1, p2}
  Seed = {s1, s2}
  None = None
  Legacy = FALSE
  Faults = {}
  MaxFaults = 0
  MaxSeals = 2

SPECIFICATION Spec
SYMMETRY Symmetric
INVARIANT ChainSurvivesUpgrade
CHECK_DEADLOCK FALSE
