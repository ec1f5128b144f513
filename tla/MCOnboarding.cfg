CONSTANTS
  Device = {d1, d2}
  Origin = {d1}
  Joiner = {d2}
  Entry = {e1}
  Passphrase = {p1, p2}
  Seed = {s1, s2}
  None = None
  Legacy = TRUE
  Faults = {"kill", "foreign", "recover"}
  MaxFaults = 1
  MaxSeals = 3

SPECIFICATION Spec
SYMMETRY Symmetric
INVARIANTS TypeOK PassphraseOpens ChainVerifies OneKey
PROPERTY OnboardingBringsAll
CHECK_DEADLOCK FALSE
