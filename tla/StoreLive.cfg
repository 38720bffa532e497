SPECIFICATION StoreFairSpec
CONSTANTS
  Events = {e1, e2}
  Flushers = {f1}
  Overlap = TRUE
  AppendMayFail = FALSE
  ReadFaults = {"snapshot"}
  MaxSeq = 2
  MaxBatches = 3
  MaxReloads = 1
  MaxSaves = 1
INVARIANTS SnapshotBacked WaitersAreWoken
PROPERTIES FoldedGetsLogged FlushReturns
