SPECIFICATION SpecBounded
CONSTANTS
  Threads = {t1, t2}
  Names = {f1}
  NoName = NoName
  Blocks = {0, 1}
  meta_block_size = 2
  SizeMod = 8
  MaxSize = 4
INVARIANT TypeOK
INVARIANT ForeignKey
SYMMETRY Symmetry
