SPECIFICATION ChainSpec
CONSTANTS
  Clients = {c1, c2}
  MinTail = 1
  LiveWindow = 1
  MaxEvents = 2
  MaxBlocks = 2
  MaxClaims = 2
INVARIANTS TypeOK ChainGrounded ChainLinked GenesisIsRoot
PROPERTIES LostOnlyToStale ImplementsSealedLog
SYMMETRY Symmetry
