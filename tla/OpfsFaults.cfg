SPECIFICATION Spec
CONSTANTS
  old = old
  a = a
  b = b
  Hole = Hole
  Events <- MCEvents
  PayLen <- MCPayLen
  Legacy <- MCLegacy
  Stride = 2
  HasLegacy = TRUE
  Faults = {"kill", "throw", "truncate", "unlink"}
  ReuseSeqs = TRUE
  MaxSeq = 3
  MaxSkip = 0
  MaxOpens = 2
INVARIANTS TypeOK CleanAcksReadable CacheFresh MigrationKeepsAll
PROPERTIES HeadCovers ImplementsAppendLog
CHECK_DEADLOCK FALSE
