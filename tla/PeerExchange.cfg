SPECIFICATION PeerSpec
CONSTANTS
  a = a
  b = b
  t = t
  u = u
  e1 = e1
  e2 = e2
  e3 = e3
  e4 = e4
  Devices = {a, b}
  Targets = {t, u}
  Edits <- MCEdits
  BatchSize = 3
  MaxSeq = 6
  MaxNet = 1
INVARIANTS TypeOK InstantiatedOnce SeqsDistinct ConstitutedFirst GapFilled
PROPERTIES EntriesStand
SYMMETRY MCSymmetry
CHECK_DEADLOCK FALSE
