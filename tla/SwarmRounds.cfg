SPECIFICATION SwarmSpec
CONSTANTS
  a = a
  b = b
  h1 = h1
  h2 = h2
  Peers = {a, b}
  Hashes = {h1, h2}
  Author = a
  None = None
  Holdings <- MCHoldings
  Fanouts = {1}
  SynThreshold = 2
  MaxQueue = 3
INVARIANTS TypeOK WithinFanout SealStands AttestedByMany
CHECK_DEADLOCK FALSE
