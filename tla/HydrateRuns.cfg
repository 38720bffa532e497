SPECIFICATION HydrFairSpec
CONSTANTS
  LiveWindow = 2
  LoseUnsaved = FALSE
  MaxEvents = 2
  MaxBlocks = 2
  MaxReloads = 2
  MaxUpsets = 1
INVARIANTS TypeOK MarkerCovers CursorCovers
PROPERTY BootCatchesUp
