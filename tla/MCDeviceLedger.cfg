CONSTANTS
  Entry = {e1, e2, e3}
  Foreign = {e3}
  Dates <- Marches
  Title <- OneTitle
  Span <- Lasting
  FirstDate <- November
  Interfaces = {"cli", "v030"}
  Faults = {"kill", "reseal", "pull"}
  MaxBlocks = 3
  MaxPushed = 1
  MaxStaged = 2
  MaxPauses = 1
  MaxFaults = 1

SPECIFICATION Spec
SYMMETRY EntrySymmetry
INVARIANTS TypeOK EntryKept EntryOnce PeriodsSeparated NoPeriodClosedTwice IndexMatchesLedger
