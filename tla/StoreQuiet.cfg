SPECIFICATION StoreSpec
CONSTANTS
  Events = {e1, e2, e3}
  Flushers = {f1}
  Overlap = FALSE
  AppendMayFail = TRUE
  ReadFaults = {}
  MaxSeq = 4
  MaxBatches = 1
  MaxReloads = 2
  MaxSaves = 1
INVARIANTS TypeOK NothingForgotten LoggedOnce SeqsFresh MapLogComplete
SYMMETRY EventSymmetry
