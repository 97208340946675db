------------------------- MODULE CacheAlignProofs -------------------------
(***************************************************************************)
(* Theorems about the arithmetic of the cache, for every block size, every *)
(* request and all sizes main() can be given.                              *)
(***************************************************************************)
EXTENDS CacheAlignMC, TLAPS

InputInv == /\ offset \in Nat /\ size \in Nat \ {0}
            /\ userSize \in Nat /\ fsAvailKb \in 0 .. SizeMod - 1

\* Sizes stay in the range of size_t.
LEMMA InputInductive ==
  /\ Init => InputInv
  /\ InputInv /\ [Next]_inputs => InputInv'
<1>1. Init => InputInv
  BY SizeModAssumption DEF Init, InputInv
<1>2. ASSUME InputInv, [Next]_inputs
      PROVE  InputInv'
  BY <1>2, InputAssumption, SizeModAssumption, SMT
  DEF Next, NextRequest, NextSizing, inputs, InputInv
<1>3. QED  BY <1>1, <1>2

\* The bytes of block k are those from block_size * k on.
LEMMA BlockOfByte ==
  ASSUME NEW byte \in Nat, NEW k \in Int,
         block_size * k <= byte, byte < block_size * k + block_size
  PROVE  byte \div block_size = k
  BY BlockSizeAssumption, SMT

\* Division gives the block a byte is in and the remainder its place there.
LEMMA BytesOfBlock ==
  ASSUME NEW byte \in Nat
  PROVE  LET k == byte \div block_size
         IN /\ k \in Nat
            /\ block_size * k <= byte /\ byte < block_size * k + block_size
            /\ byte % block_size = byte - block_size * k
  BY BlockSizeAssumption, SMT

\* A later block starts at least a block later.
LEMMA Increases ==
  ASSUME NEW m \in Int, NEW n \in Int
  PROVE  /\ m < n => block_size * m + block_size <= block_size * n
         /\ block_size * m \in Int
         /\ m <= n => block_size * m <= block_size * n
         /\ block_size * (m + 1) = block_size * m + block_size
  BY BlockSizeAssumption, SMT

\* Where a block before, and one m blocks further on, starts.
LEMMA Starts ==
  ASSUME NEW m \in Int, NEW n \in Int
  PROVE  /\ block_size * (m + n) = block_size * m + block_size * n
         /\ block_size * (m - 1) = block_size * m - block_size
<1>1. block_size * (m + n) = block_size * m + block_size * n
  BY BlockSizeAssumption, SMT
<1>2. block_size * (m - 1) = block_size * m - block_size
  BY BlockSizeAssumption, SMT
<1>3. QED  BY <1>1, <1>2

\* A request touches the blocks from that of its first byte to that of its
\* last.
LEMMA TouchedBlocks ==
  ASSUME NEW o \in Nat, NEW s \in Nat \ {0}
  PROVE  Touched(o, s) = o \div block_size .. (o + s - 1) \div block_size
<1> DEFINE first == o \div block_size
           last  == (o + s - 1) \div block_size
<1>1. o + s - 1 \in Nat /\ first \in Nat /\ last \in Nat
  BY BytesOfBlock, SMT
<1>2. ASSUME NEW byte \in o .. o + s - 1
      PROVE  byte \div block_size \in first .. last
  <2>1. byte \in Nat /\ byte \div block_size \in Nat
    BY BytesOfBlock, SMT
  <2>2. ~ (byte \div block_size < first)
    BY <1>1, <2>1, BytesOfBlock, Increases, BlockSizeAssumption, SMT
  <2>3. ~ (last < byte \div block_size)
    BY <1>1, <2>1, BytesOfBlock, Increases, BlockSizeAssumption, SMT
  <2>4. QED  BY <1>1, <2>1, <2>2, <2>3, SMT
<1>3. ASSUME NEW k \in first .. last
      PROVE  \E byte \in o .. o + s - 1 : byte \div block_size = k
  <2>1. k \in Nat /\ block_size * k \in Nat
    BY <1>1, BlockSizeAssumption, SMT
  <2>2. CASE k = first
    BY <2>2, SMT
  <2>3. CASE first < k
    <3>1. o < block_size * k
      BY <1>1, <2>1, <2>3, BytesOfBlock, Increases, BlockSizeAssumption, SMT
    <3>2. block_size * k <= o + s - 1
      BY <1>1, <2>1, BytesOfBlock, Increases, BlockSizeAssumption, SMT
    <3>3. (block_size * k) \div block_size = k
      BY <2>1, BlockOfByte, BlockSizeAssumption, SMT
    <3>4. block_size * k \in o .. o + s - 1
      BY <2>1, <3>1, <3>2, SMT
    <3>5. QED  BY <3>3, <3>4
  <2>4. QED  BY <1>1, <2>2, <2>3, SMT
<1>4. QED
  BY <1>2, <1>3 DEF Touched

\* A size is rounded up to n blocks, the least number that holds it.
LEMMA RoundedUp ==
  ASSUME NEW s \in Nat \ {0}
  PROVE  \E n \in Nat \ {0} :
           /\ alignedSize(s) = block_size * n
           /\ alignedSize(s) \div block_size = n
           /\ block_size * (n - 1) < s /\ s <= block_size * n
<1> DEFINE q == s \div block_size
           n == IF s % block_size = 0 THEN q ELSE q + 1
<1>1. /\ q \in Nat /\ block_size * q <= s /\ s < block_size * q + block_size
      /\ s % block_size = s - block_size * q
  BY BytesOfBlock
<1>2. s % block_size = 0 => q # 0
  BY <1>1, BlockSizeAssumption, SMT
<1>3. n \in Nat \ {0}
  BY <1>1, <1>2, SMT
<1>4. /\ block_size * (q + 1) = block_size * q + block_size
      /\ block_size * (q - 1) = block_size * q - block_size
  BY <1>1, BlockSizeAssumption, SMT
<1>5. alignedSize(s) = block_size * n
  BY <1>1, <1>4, BlockSizeAssumption, SMT DEF alignedSize
<1>6. (block_size * n) \div block_size = n
  BY <1>3, BlockSizeAssumption, SMT
<1>7. block_size * (n - 1) < s /\ s <= block_size * n
  BY <1>1, <1>4, BlockSizeAssumption, SMT
<1>8. QED
  BY <1>3, <1>5, <1>6, <1>7

\* The blocks of offsetArray are those the request touches, but for the last
\* one of a request that straddles.
LEMMA Covered ==
  ASSUME NEW o \in Nat, NEW s \in Nat \ {0}
  PROVE  offsetArray(o, s) =
           IF Straddles(o, s) THEN Touched(o, s) \ {Max(Touched(o, s))}
           ELSE Touched(o, s)
<1> DEFINE first == o \div block_size
           last  == (o + s - 1) \div block_size
           r     == o % block_size
<1>1. /\ first \in Nat /\ last \in Nat /\ o + s - 1 \in Nat
      /\ r = o - block_size * first /\ r \in 0 .. block_size - 1
      /\ block_size * first \in Nat
  <2>1. o + s - 1 \in Nat
    BY SMT
  <2>2. /\ first \in Nat /\ r = o - block_size * first
        /\ block_size * first <= o /\ o < block_size * first + block_size
    BY BytesOfBlock
  <2>3. last \in Nat
    BY <2>1, BytesOfBlock
  <2>4. block_size * first \in Nat
    BY <2>2, BlockSizeAssumption, SMT
  <2>5. r \in 0 .. block_size - 1
    BY BlockSizeAssumption, SMT
  <2>6. QED  BY <2>1, <2>2, <2>3, <2>4, <2>5
<1>2. PICK n \in Nat \ {0} :
        /\ alignedSize(s) = block_size * n
        /\ alignedSize(s) \div block_size = n
        /\ block_size * (n - 1) < s /\ s <= block_size * n
  BY RoundedUp
<1>3. offsetArray(o, s) = first .. first + n - 1
  <2>1. alignLowerOffset(o) = block_size * first
    BY <1>1, SMT DEF alignLowerOffset
  <2>2. (block_size * first) \div block_size = first
    BY <1>1, BlockSizeAssumption, SMT
  <2>3. QED  BY <1>2, <2>1, <2>2 DEF offsetArray
<1>4. PICK p \in Nat : p = block_size * first
  BY <1>1
<1>5. PICK q \in Nat : q = block_size * n
  BY <1>2, BlockSizeAssumption, SMT
<1>6. block_size * (n - 1) = q - block_size
  BY <1>2, <1>5, Starts
<1>7. block_size * (first + n) = p + q
  BY <1>1, <1>2, <1>4, <1>5, Starts
<1>8. block_size * (first + (n - 1)) = p + (q - block_size)
  <2>1. n - 1 \in Int
    BY <1>2, SMT
  <2>2. block_size * (first + (n - 1)) = block_size * first + block_size * (n - 1)
    BY <1>1, <2>1, Starts
  <2>3. QED  BY <2>2, <1>4, <1>6
<1>9. CASE Straddles(o, s)
  <2>1. r + s > q
    BY <1>2, <1>5, <1>9 DEF Straddles
  <2>2. last = first + n
    <3>1. first + n \in Int
      BY <1>1, <1>2, SMT
    <3>2. p + q <= o + s - 1 /\ o + s - 1 < p + q + block_size
      BY <1>1, <1>2, <1>4, <1>5, <1>6, <2>1, BlockSizeAssumption, SMT
    <3>3. QED  BY <1>1, <1>7, <3>1, <3>2, BlockOfByte
  <2>3. Touched(o, s) = first .. first + n
    BY <2>2, TouchedBlocks
  <2>4. Max(first .. first + n) = first + n
    BY <1>1, SMT DEF Max
  <2>5. QED
    BY <1>1, <1>3, <1>9, <2>3, <2>4, SMT
<1>10. CASE ~ Straddles(o, s)
  <2>1. r + s <= q
    BY <1>1, <1>2, <1>5, <1>10, SMT DEF Straddles
  <2>2. last = first + (n - 1)
    <3>1. first + (n - 1) \in Int
      BY <1>1, <1>2, SMT
    <3>2. /\ p + (q - block_size) <= o + s - 1
          /\ o + s - 1 < p + (q - block_size) + block_size
      BY <1>1, <1>2, <1>4, <1>5, <1>6, <2>1, BlockSizeAssumption, SMT
    <3>3. QED  BY <1>1, <1>8, <3>1, <3>2, BlockOfByte
  <2>3. QED
    BY <1>3, <1>10, <2>2, TouchedBlocks
<1>11. QED
  BY <1>9, <1>10

\* Whatever the block size, a request of cfs_read or cfs_write names the blocks
\* it touches, but for the last one if it starts inside a block and the rounding
\* of its size does not make up for it (cachefs.c:548, cachefs.c:632).
THEOREM BlocksCoveredCorrect == Spec => []BlocksCovered
<1>1. InputInv => BlocksCovered
  BY Covered DEF InputInv, BlocksCovered
<1>2. QED
  BY <1>1, InputInductive, PTL DEF Spec

\* Whatever the sizes, the cache has the size asked for or the room statvfs
\* found, the smaller of the two, although available - 100 can wrap
\* (cachefs.c:1241), and the size asked for when statvfs fails.
THEOREM CacheSizeCorrect == Spec => []CacheSizeBounded
<1>1. InputInv => CacheSizeBounded
  <2>1. ASSUME NEW m \in 0 .. SizeMod - 1 PROVE m % SizeMod = m
    BY SizeModAssumption, SMT
  <2>2. ASSUME InputInv, fsAvailKb > 100
        PROVE  (fsAvailKb - 100) % SizeMod = fsAvailKb - 100
    BY <2>1, <2>2, SizeModAssumption, SMT DEF InputInv
  <2>3. ASSUME InputInv PROVE CacheSizeBounded
    BY <2>2, <2>3, SizeModAssumption, SMT
    DEF InputInv, CacheSizeBounded, cacheSize, BufferApplies
  <2>4. QED  BY <2>3
<1>2. QED
  BY <1>1, InputInductive, PTL DEF Spec
===========================================================================
