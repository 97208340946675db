SPECIFICATION SpecFaults
CONSTANTS
  Threads = {t1}
  Letters = {a}
  Paths <- PathsOfRoot
  Names <- NamesOfRoot
  NoName = NoName
  Blocks = {0, 1}
  meta_block_size = 2
  SizeMod = 128
  Inodes = {1}
  NoInode = NoInode
  Zero = Zero
  NoPath = NoPath
  Handles = {h1}
  NoHandle = NoHandle
  Values = {v1}
  Junk = Junk
  cache_size = 100
  PageBlocks = 1
  MaxSize = 3
  MaxTime = 1
  MaxFaults = 1
INVARIANT DamageConfined
