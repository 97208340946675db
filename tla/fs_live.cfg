SPECIFICATION SpecOpenedFair
CONSTANTS
  Threads = {t1, t2}
  Letters = {a}
  Paths <- PathsOfRoot
  Names <- NamesOfRoot
  NoName = NoName
  Blocks = {0, 1}
  meta_block_size = 1
  SizeMod = 128
  Inodes = {1, 2}
  NoInode = NoInode
  Zero = Zero
  NoPath = NoPath
  Handles = {h1}
  NoHandle = NoHandle
  Values = {v1}
  Junk = Junk
  cache_size = 3
  PageBlocks = 1
  MaxSize = 2
  MaxTime = 0
PROPERTY RequestsFinish
