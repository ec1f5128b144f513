CONSTANTS
  Device = {d1, d2, d3}
  Entry = {1, 2, 3}
  Date <- OwnDates
  Title <- ReversedTitles
  Answers = {"merge"}
  Faults = {}
  Serial = TRUE
  MaxBlocks = 5

SPECIFICATION FairSpec
INVARIANTS ChainsLinked PushedChainIsRemote
PROPERTY EntriesSpread
