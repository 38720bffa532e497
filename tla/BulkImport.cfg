SPECIFICATION BulkSpec
CONSTANTS
  a = a
  b = b
  TargetKeys <- SmallTargetKeys
  NumShards = 2
  ShardOf <- SmallShardOf
  Imports <- SmallImports
  Locals <- SmallLocals
  Modes = {"shared", "isolated"}
  MaxImports = 2
  MaxDispatches = 1
INVARIANTS TypeOK ImportEqualsSerial LogRebuilds ConstitutedFirst
CHECK_DEADLOCK FALSE
