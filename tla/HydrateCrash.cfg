SPECIFICATION HydrSpec
CONSTANTS
  LiveWindow = 2
  LoseUnsaved = TRUE
  MaxEvents = 1
  MaxBlocks = 1
  MaxReloads = 1
  MaxUpsets = 0
INVARIANT MarkerCovers
