SPECIFICATION PeerSpec
CONSTANTS
  a = a
  b = b
  t = t
  u = u
  e1 = e1
  e2 = e2
  e3 = e3
  e4 = e4
  Devices = {a, b}
  Targets = {t}
  Edits <- MCPlainEdits
  BatchSize = 3
  MaxSeq = 6
  MaxNet = 1
SYMMETRY MCSymmetry
CHECK_DEADLOCK FALSE
INVARIANT ExchangeDelivers
