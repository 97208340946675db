SPECIFICATION Spec
CONSTANTS
  block_size = 4
  SizeMod = 256
  MaxOffset = 13
  MaxSize = 14
  MaxKb = 255
INVARIANT BlocksCovered
INVARIANT CacheSizeBounded
CHECK_DEADLOCK FALSE
