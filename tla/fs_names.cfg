SPECIFICATION SpecNames
CONSTANTS
  Threads = {t1}
  Letters = {a, b}
  Paths <- PathsOfRoot
  Names <- NamesOfRoot
  NoName = NoName
  Blocks = {0}
  meta_block_size = 1
  SizeMod = 128
  Inodes = {1, 2}
  NoInode = NoInode
  Zero = Zero
  NoPath = NoPath
  Handles = {h1, h2}
  NoHandle = NoHandle
  Values = {v1}
  Junk = Junk
  cache_size = 100
  PageBlocks = 1
  MaxSize = 1
  MaxTime = 1
INVARIANT Coherent
INVARIANT HandlesCurrent
PROPERTY Transparent
SYMMETRY Symmetry
