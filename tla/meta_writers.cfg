SPECIFICATION SpecWriters
CONSTANTS
  Threads = {t1, t2}
  Names = {f1, f2}
  NoName = NoName
  Blocks = {0, 1}
  meta_block_size = 2
  SizeMod = 64
  MaxSize = 0
INVARIANT LocalSizeBound
INVARIANT LocalSizeInv
INVARIANT UsedNeverOver
SYMMETRY Symmetry
