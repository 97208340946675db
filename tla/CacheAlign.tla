---------------------------- MODULE CacheAlign ----------------------------
(***************************************************************************)
(* The arithmetic of the cache: which blocks a request at a byte offset    *)
(* covers (cacheHelp.c, and the same lines in cfs_read, cfs_write and      *)
(* cfs_cacheWrite), and the size main() gives the cache.  Offsets and      *)
(* sizes of requests are far below 2^63 and do not wrap.                   *)
(***************************************************************************)
EXTENDS Integers, FiniteSetsExt

CONSTANT block_size  \* bytes of a block

ASSUME BlockSizeAssumption == block_size \in Nat \ {0}

alignLowerOffset(offset) == offset - (offset % block_size)

\* Mutant of alignedSize: only whole blocks, a partial one is dropped.
alignedSizeDown(size) == block_size * (size \div block_size)

\* The size in whole blocks, rounded up.
alignedSize(size) ==
  block_size * (size \div block_size)
    + (IF size % block_size # 0 THEN block_size ELSE 0)

\* The numbers of the blocks in offsetArray: number_blocks of them, one after
\* the other from the lower offset.
offsetArray(offset, size) ==
  LET first         == alignLowerOffset(offset) \div block_size
      number_blocks == alignedSize(size) \div block_size
  IN first .. first + number_blocks - 1

\* What offsetArray stands for: the blocks that hold a byte of the request.
Touched(offset, size) ==
  {byte \div block_size : byte \in offset .. offset + size - 1}

\* The rounding looks at the size alone, so a request that starts inside a
\* block can end in a block that offsetArray does not name.
Straddles(offset, size) == (offset % block_size) + size > alignedSize(size)

---------------------------------------------------------------------------
(***************************************************************************)
(* main(): the cache size in kB, from the size the user asks for, what     *)
(* statvfs returns, and the space it says is available (its blocks times   *)
(* their size, in whole kB).  Both sizes are unsigned; available - 100     *)
(* wraps below 100.                                                        *)
(***************************************************************************)
CONSTANT SizeMod  \* size_t is arithmetic modulo SizeMod

ASSUME SizeModAssumption == SizeMod \in Nat /\ SizeMod > 100

\* Mutant of BufferApplies: the second comparison is left out.
BufferAppliesAlways(userSize, fsAvailKb) ==
  userSize > (fsAvailKb - 100) % SizeMod

BufferApplies(userSize, fsAvailKb) ==
  userSize > (fsAvailKb - 100) % SizeMod /\ fsAvailKb > 100

\* Without an answer from statvfs the user's size is taken, with a warning.
cacheSize(userSize, statvfsRet, fsAvailKb) ==
  IF statvfsRet # 0 THEN userSize
  ELSE IF BufferApplies(userSize, fsAvailKb) THEN (fsAvailKb - 100) % SizeMod
  ELSE IF userSize > fsAvailKb THEN fsAvailKb
  ELSE userSize
===========================================================================
