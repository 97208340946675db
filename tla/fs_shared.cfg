SPECIFICATION SpecShared
CONSTANTS
  Threads = {t1, t2}
  Letters = {a}
  Paths <- PathsOfRoot
  Names <- NamesOfRoot
  NoName = NoName
  Blocks = {0, 1}
  meta_block_size = 2
  SizeMod = 128
  Inodes = {1, 2}
  NoInode = NoInode
  Zero = Zero
  NoPath = NoPath
  Handles = {h1}
  NoHandle = NoHandle
  Values = {v1, v2}
  Junk = Junk
  cache_size = 100
  PageBlocks = 1
  MaxSize = 3
  MaxTime = 1
INVARIANT Coherent
PROPERTY Transparent
PROPERTY WritesThrough
SYMMETRY Symmetry
