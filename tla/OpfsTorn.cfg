SPECIFICATION Spec
CONSTANTS
  old = old
  a = a
  b = b
  Hole = Hole
  Events <- MCEvents
  PayLen <- MCPayLen
  Legacy <- NoLegacy
  Stride = 2
  HasLegacy = FALSE
  Faults = {"kill", "throw"}
  ReuseSeqs = FALSE
  MaxSeq = 2
  MaxSkip = 0
  MaxOpens = 2
INVARIANT AcksReadable
CHECK_DEADLOCK FALSE
