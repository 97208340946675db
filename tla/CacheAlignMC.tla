--------------------------- MODULE CacheAlignMC ---------------------------
(***************************************************************************)
(* CacheAlign over all small inputs: a state is a request and what main()  *)
(* sizes the cache from, and a step goes on to the next input.             *)
(***************************************************************************)
EXTENDS CacheAlign

CONSTANTS MaxOffset, MaxSize, MaxKb

ASSUME InputAssumption == MaxKb \in 0 .. SizeMod - 1  \* sizes are size_t

VARIABLES offset, size, userSize, statvfsRet, fsAvailKb

inputs == <<offset, size, userSize, statvfsRet, fsAvailKb>>

Init == /\ offset = 0 /\ size = 1
        /\ userSize = 0 /\ statvfsRet \in {0, -1} /\ fsAvailKb = 0

NextRequest ==
  /\ \/ offset < MaxOffset /\ offset' = offset + 1 /\ UNCHANGED size
     \/ size < MaxSize /\ size' = size + 1 /\ UNCHANGED offset
  /\ UNCHANGED <<userSize, statvfsRet, fsAvailKb>>

NextSizing ==
  /\ offset = 0 /\ size = 1
  /\ \/ userSize < MaxKb /\ userSize' = userSize + 1 /\ UNCHANGED fsAvailKb
     \/ fsAvailKb < MaxKb /\ fsAvailKb' = fsAvailKb + 1 /\ UNCHANGED userSize
  /\ UNCHANGED <<offset, size, statvfsRet>>

Next == (userSize = 0 /\ fsAvailKb = 0 /\ NextRequest) \/ NextSizing

Spec == Init /\ [][Next]_inputs

\* A request names no block it does not touch, and it misses one of those it
\* touches, the last, exactly when it starts inside a block and the rounding
\* of its size does not make up for it (cachefs.c:548, cachefs.c:632).
BlocksCovered ==
  offsetArray(offset, size) =
    IF Straddles(offset, size)
    THEN Touched(offset, size) \ {Max(Touched(offset, size))}
    ELSE Touched(offset, size)

\* The cache has the size asked for or, if that is more, the space statvfs
\* found, less 100 kB when there are more than 100: no size_t subtraction that
\* wraps gets through (cachefs.c:1241).  When statvfs fails it has the size
\* asked for, whatever the space (cachefs.c:1235).
CacheSizeBounded ==
  LET room == IF fsAvailKb > 100 THEN fsAvailKb - 100 ELSE fsAvailKb
  IN cacheSize(userSize, statvfsRet, fsAvailKb) =
       IF statvfsRet = 0 /\ room < userSize THEN room ELSE userSize
===========================================================================
