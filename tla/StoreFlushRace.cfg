SPECIFICATION StoreSpec
CONSTANTS
  Events = {e1, e2}
  Flushers = {f1}
  Overlap = TRUE
  AppendMayFail = FALSE
  ReadFaults = {}
  MaxSeq = 2
  MaxBatches = 1
  MaxReloads = 1
  MaxSaves = 1
INVARIANT NothingForgotten
