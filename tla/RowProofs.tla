----------------------------- MODULE RowProofs -----------------------------
(***************************************************************************)
(* Who works on which blocks of a file that programs open one at a time,   *)
(* and what the rows of the metadata say of it meanwhile: the facts the    *)
(* coherence of the cache rests on.                                        *)
(***************************************************************************)
EXTENDS HandleProofs

(***************************************************************************)
(* Arithmetic: places in a file, and the blocks and pages they are in.     *)
(***************************************************************************)
\* Division by d counts in steps of d.
LEMMA Division ==
  ASSUME NEW d \in Nat \ {0}, NEW n \in Nat
  PROVE  LET q == n \div d
         IN /\ q \in Nat /\ d * q \in Nat
            /\ d * q <= n /\ n < d * q + d
            /\ n % d = n - d * q
  BY SMT

\* The step a number is in.
LEMMA InStep ==
  ASSUME NEW d \in Nat \ {0}, NEW n \in Nat, NEW q \in Int,
         d * q <= n, n < d * q + d
  PROVE  n \div d = q
  BY SMT

\* Multiples grow by d.
LEMMA Multiples ==
  ASSUME NEW d \in Nat \ {0}, NEW m \in Int, NEW n \in Int
  PROVE  /\ d * m \in Int
         /\ m < n => d * m + d <= d * n
         /\ m <= n => d * m <= d * n
         /\ d * (m + 1) = d * m + d
         /\ d * (m - 1) = d * m - d
<1>1. d * m \in Int /\ (m < n => d * m + d <= d * n) /\ (m <= n => d * m <= d * n)
  BY SMT
<1>2. d * (m + 1) = d * m + d
  BY SMT
<1>3. d * (m - 1) = d * m - d
  BY SMT
<1>4. QED  BY <1>1, <1>2, <1>3

\* Multiplication distributes.
LEMMA Distributes ==
  ASSUME NEW d \in Nat \ {0}, NEW m \in Int, NEW n \in Int
  PROVE  d * (m + n) = d * m + d * n
  BY SMT

\* A later place is in the same step or a later one.
LEMMA StepsInOrder ==
  ASSUME NEW d \in Nat \ {0}, NEW m \in Nat, NEW n \in Nat, m <= n
  PROVE  m \div d <= n \div d
<1> DEFINE a == m \div d
           b == n \div d
<1>1. /\ a \in Nat /\ d * a <= m /\ m < d * a + d /\ d * a \in Nat
      /\ b \in Nat /\ d * b <= n /\ n < d * b + d /\ d * b \in Nat
  BY Division
<1> HIDE DEF a, b
<1>2. b < a => d * b + d <= d * a
  BY <1>1, Multiples
<1>3. a <= b
  BY <1>1, <1>2
<1>4. QED  BY <1>3 DEF a, b

\* A size is rounded up to n blocks, the least number that holds it.
LEMMA RoundedUp ==
  ASSUME NEW len \in Nat \ {0}
  PROVE  \E n \in Nat \ {0} :
           /\ Align!alignedSize(len) = BS * n
           /\ Align!alignedSize(len) \div BS = n
           /\ BS * n < len + BS /\ len <= BS * n
<1>1. BS \in Nat \ {0}
  BY BlockSize
<1> DEFINE q == len \div BS
           n == IF len % BS = 0 THEN q ELSE q + 1
<1>2. /\ q \in Nat /\ BS * q <= len /\ len < BS * q + BS /\ BS * q \in Nat
      /\ len % BS = len - BS * q
  BY <1>1, Division
<1>3. Align!alignedSize(len) = BS * q + (IF len % BS # 0 THEN BS ELSE 0)
  BY DEF Align!alignedSize, BS
<1> HIDE DEF q
<1>4. BS * (q + 1) = BS * q + BS
  BY <1>1, <1>2, Multiples
<1>5. q = 0 => BS * q = 0
  BY <1>1
<1>6. n \in Nat \ {0}
  BY <1>2, <1>5
<1>7. Align!alignedSize(len) = BS * n
  BY <1>1, <1>2, <1>3, <1>4
<1>8. BS * n < len + BS /\ len <= BS * n
  BY <1>1, <1>2, <1>4
<1> HIDE DEF n
<1>9. (BS * n) \div BS = n
  <2>1. BS * n \in Nat
    BY <1>1, <1>6, <1>7, <1>8, Multiples
  <2>2. QED  BY <1>1, <1>6, <2>1, InStep
<1>10. QED  BY <1>6, <1>7, <1>8, <1>9

\* The blocks of a request: from that of its first byte on, as many as its size
\* fills.
LEMMA RequestArray ==
  ASSUME NEW off \in Nat, NEW len \in Nat \ {0}
  PROVE  \E n \in Nat \ {0} :
           LET lo == off \div BS
           IN /\ lo \in Nat /\ BS * lo \in Nat
              /\ BS * lo <= off /\ off < BS * lo + BS
              /\ Align!alignLowerOffset(off) = BS * lo
              /\ Align!alignedSize(len) = BS * n /\ BS * n \in Nat
              /\ BS * n < len + BS /\ len <= BS * n
              /\ Align!offsetArray(off, len) = lo .. lo + n - 1
<1>1. BS \in Nat \ {0}
  BY BlockSize
<1> DEFINE lo == off \div BS
<1>2. /\ lo \in Nat /\ BS * lo <= off /\ off < BS * lo + BS /\ BS * lo \in Nat
      /\ off % BS = off - BS * lo
  BY <1>1, Division
<1>3. PICK n \in Nat \ {0} : /\ Align!alignedSize(len) = BS * n
                             /\ Align!alignedSize(len) \div BS = n
                             /\ BS * n < len + BS /\ len <= BS * n
  BY RoundedUp
<1>4. Align!alignLowerOffset(off) = off - (off % BS)
  BY DEF Align!alignLowerOffset, BS
<1> HIDE DEF lo
<1>5. Align!alignLowerOffset(off) = BS * lo
  BY <1>2, <1>4
<1>6. (BS * lo) \div BS = lo
  BY <1>1, <1>2, InStep
<1>7. Align!offsetArray(off, len) = lo .. lo + n - 1
  BY <1>3, <1>5, <1>6 DEF Align!offsetArray, BS
<1>8. BS * n \in Nat
  BY <1>1, <1>3, Multiples
<1>9. QED  BY <1>2, <1>3, <1>5, <1>7, <1>8 DEF lo

\* A request that ends before MaxSize is of blocks there are.
LEMMA RequestInBlocks ==
  ASSUME NEW off \in Nat, NEW len \in Nat \ {0}, off + len <= MaxSize
  PROVE  Align!offsetArray(off, len) \subseteq Blocks
<1>1. BS \in Nat \ {0} /\ MaxSize \in Nat \ {0}
  BY BlockSize
<1> DEFINE lo   == off \div BS
           last == (MaxSize - 1) \div BS
<1>2. PICK n \in Nat \ {0} :
        /\ lo \in Nat /\ BS * lo \in Nat /\ BS * lo <= off
        /\ BS * n \in Nat /\ BS * n < len + BS
        /\ Align!offsetArray(off, len) = lo .. lo + n - 1
  BY RequestArray
<1>3. /\ last \in Nat /\ BS * last \in Nat /\ MaxSize - 1 < BS * last + BS
      /\ Blocks = 0 .. last
  <2>1. MaxSize - 1 \in Nat
    BY <1>1
  <2>2. /\ last \in Nat /\ BS * last \in Nat /\ MaxSize - 1 < BS * last + BS
    BY <1>1, <2>1, Division
  <2>3. QED  BY <2>2, CacheFSAssumption DEF BS
<1> HIDE DEF lo, last
<1>4. BS * (lo + n) = BS * lo + BS * n
  BY <1>1, <1>2, Distributes
<1>5. last < lo + n - 1 => BS * (last + 2) <= BS * (lo + n)
  BY <1>1, <1>2, <1>3, Multiples
<1>6. BS * (last + 2) = BS * last + BS + BS
  <2>1. /\ BS * (last + 1) = BS * last + BS
        /\ BS * ((last + 1) + 1) = BS * (last + 1) + BS
    BY <1>1, <1>3, Multiples
  <2>2. (last + 1) + 1 = last + 2
    BY <1>3
  <2>3. QED  BY <2>1, <2>2
<1>7. lo + n - 1 <= last
  BY <1>1, <1>2, <1>3, <1>4, <1>5, <1>6
<1>8. QED  BY <1>2, <1>3, <1>7

\* A page starts where one of its blocks does.
LEMMA PageOfBlock ==
  ASSUME NEW x \in Nat
  PROVE  /\ (x \div BS) \div PageBlocks = x \div PageSize
         /\ PageSize \in Nat \ {0}
<1>1. BS \in Nat \ {0} /\ PageBlocks \in Nat \ {0}
  BY BlockSize, CacheFSAssumption
<1>2. PageSize \in Nat \ {0} /\ PageSize = BS * PageBlocks
  BY <1>1 DEF PageSize
<1> DEFINE b == x \div BS
           q == b \div PageBlocks
<1>3. b \in Nat /\ BS * b <= x /\ x < BS * b + BS /\ BS * b \in Nat
  BY <1>1, Division
<1>4. q \in Nat /\ PageBlocks * q <= b /\ b < PageBlocks * q + PageBlocks
      /\ PageBlocks * q \in Nat
  BY <1>1, <1>3, Division
<1> HIDE DEF b, q
<1>5. BS * (PageBlocks * q) <= BS * b
  BY <1>1, <1>3, <1>4, Multiples
<1>6. BS * b + BS <= BS * (PageBlocks * q + PageBlocks)
  BY <1>1, <1>3, <1>4, Multiples
<1>7. BS * (PageBlocks * q + PageBlocks) = BS * (PageBlocks * q) + BS * PageBlocks
  BY <1>1, <1>4, Distributes
<1>8. BS * (PageBlocks * q) = PageSize * q
  BY <1>1, <1>2, <1>4, SMT
<1>9. PageSize * q <= x /\ x < PageSize * q + PageSize
  <2>1. BS * (PageBlocks * q) \in Int
    BY <1>1, <1>4, Multiples
  <2>2. PageSize * q \in Int
    BY <1>8, <2>1
  <2> DEFINE s == PageSize * q
             c == BS * b
  <2>3. s <= c /\ c + BS <= s + PageSize /\ c <= x /\ x < c + BS
    BY <1>2, <1>3, <1>5, <1>6, <1>7, <1>8
  <2>4. s \in Int /\ c \in Int
    BY <2>2, <1>3
  <2> HIDE DEF s, c
  <2>5. s <= x /\ x < s + PageSize
    BY <1>1, <1>2, <2>3, <2>4
  <2>6. QED  BY <2>5 DEF s
<1>10. x \div PageSize = q
  BY <1>2, <1>4, <1>9, InStep
<1>11. QED  BY <1>2, <1>10 DEF b, q

\* A byte of a request is in one of its pages, ...
LEMMA PageOfByte ==
  ASSUME NEW off \in Nat, NEW len \in Nat \ {0}, NEW x \in off .. off + len - 1
  PROVE  x \div PageSize \in PagesOf(off, len)
<1>1. PageSize \in Nat \ {0} /\ x \in Nat /\ off + len - 1 \in Nat
  BY PageOfBlock
<1>2. /\ off \div PageSize <= x \div PageSize
      /\ x \div PageSize <= (off + len - 1) \div PageSize
  BY <1>1, StepsInOrder
<1>3. /\ off \div PageSize \in Nat /\ x \div PageSize \in Nat
      /\ (off + len - 1) \div PageSize \in Nat
  BY <1>1, Division
<1>4. QED  BY <1>2, <1>3 DEF PagesOf

\* ... and so is each of its blocks.
LEMMA PageOfRequest ==
  ASSUME NEW off \in Nat, NEW len \in Nat \ {0},
         NEW b \in Align!offsetArray(off, len)
  PROVE  b \div PageBlocks \in PagesOf(off, len)
<1>1. BS \in Nat \ {0}
  BY BlockSize
<1> DEFINE lo == off \div BS
<1>2. PICK n \in Nat \ {0} :
        /\ lo \in Nat /\ BS * lo \in Nat /\ BS * lo <= off /\ off < BS * lo + BS
        /\ BS * n \in Nat /\ BS * n < len + BS
        /\ Align!offsetArray(off, len) = lo .. lo + n - 1
  BY RequestArray
<1> HIDE DEF lo
<1>3. b \in Nat /\ lo <= b /\ b + 1 <= lo + n /\ BS * b \in Nat
  BY <1>1, <1>2, Multiples
<1>4. /\ BS * lo <= BS * b
      /\ BS * (b + 1) <= BS * (lo + n)
      /\ BS * (b + 1) = BS * b + BS
      /\ BS * (lo + n) = BS * lo + BS * n
  BY <1>1, <1>2, <1>3, Multiples, Distributes
<1> DEFINE x == IF off <= BS * b THEN BS * b ELSE off
<1>5. lo = b \/ BS * lo + BS <= BS * b
  BY <1>1, <1>2, <1>3, Multiples
<1>6. BS * b <= x /\ x < BS * b + BS /\ x \in off .. off + len - 1 /\ x \in Nat
  BY <1>1, <1>2, <1>3, <1>4, <1>5
<1> HIDE DEF x
<1>7. x \div BS = b
  BY <1>1, <1>3, <1>6, InStep
<1>8. x \div PageSize \in PagesOf(off, len)
  BY <1>6, PageOfByte
<1>9. QED  BY <1>6, <1>7, <1>8, PageOfBlock

---------------------------------------------------------------------------
(***************************************************************************)
(* SpecAlone is a part of CfsSpec: what holds for any program holds for    *)
(* one that opens its file alone.                                          *)
(***************************************************************************)
FileInv == CallbackInv /\ DirsInv /\ RequestsInv

\* The requests of the program are among those the kernel may issue.
LEMMA AloneStarts ==
  ASSUME FileInv, NEW t \in Threads,
         \/ MknodAny(t) \/ OpenAlone(t) \/ ReadAny(t) \/ WriteDense(t)
         \/ ReleaseAny(t) \/ ShrinkOpen(t) \/ UnlinkAny(t) \/ ShrinkPath(t)
         \/ UtimeAny(t) \/ WriteSparse(t) \/ Grow(t)
  PROVE  Starts(t)
<1>1. BS \in Nat \ {0} /\ MaxSize \in Nat \ {0}
  BY BlockSize
<1>2. \A i \in Inodes : Len(nas.data[i]) \in Nat /\ Len(nas.data[i]) <= MaxSize
  BY LenProperties DEF FileInv, DirsInv, FileSystem
<1>3. \A h \in Opened : handles[h].nas \in Inodes /\ handles[h].path \in Paths
  BY DEF FileInv, Opened, RequestsInv, HandleType, CallbackInv, HandlesInv, Handle
<1>4. CASE MknodAny(t) \/ UnlinkAny(t)
  BY <1>4 DEF MknodAny, UnlinkAny, Starts
<1>5. CASE OpenAlone(t) \/ UtimeAny(t) \/ ReleaseAny(t)
  BY <1>5 DEF OpenAlone, UtimeAny, ReleaseAny, Starts
<1>6. CASE ShrinkOpen(t)
  <2>1. PICK h \in Opened : \E len \in 0 .. Len(nas.data[handles[h].nas]) - 1 :
               StartTruncate(t, handles[h].path, h, len)
    BY <1>6 DEF ShrinkOpen
  <2> PICK len \in 0 .. Len(nas.data[handles[h].nas]) - 1 :
               StartTruncate(t, handles[h].path, h, len)
    BY <2>1
  <2>2. len \in 0 .. MaxSize
    BY <1>1, <1>2, <1>3
  <2>3. handles[h].path \in Paths /\ h \in OpenOf(handles[h].path)
    BY <1>3 DEF OpenOf, Opened
  <2>4. QED  BY <2>2, <2>3 DEF Starts
<1>7. CASE ShrinkPath(t)
  <2>1. PICK p \in Paths :
          /\ nas.dir[p] # NoInode
          /\ \E len \in 0 .. Len(nas.data[nas.dir[p]]) - 1 :
               StartTruncate(t, p, NoHandle, len)
    BY <1>7 DEF ShrinkPath
  <2>2. PICK len \in 0 .. Len(nas.data[nas.dir[p]]) - 1 :
               StartTruncate(t, p, NoHandle, len)
    BY <2>1
  <2>3. nas.dir[p] \in Inodes
    BY <2>1 DEF FileInv, DirsInv, FileSystem
  <2>4. len \in 0 .. MaxSize
    BY <1>1, <1>2, <2>3
  <2>5. QED  BY <2>2, <2>4 DEF Starts
<1>8. CASE ReadAny(t)
  <2>1. PICK h \in Opened, b \in Blocks, n \in 1 .. Cardinality(Blocks) :
          b + n <= Cardinality(Blocks) /\ StartRead(t, h, BS * b, BS * n)
    BY <1>8 DEF ReadAny
  <2> DEFINE last == (MaxSize - 1) \div BS
  <2>2. /\ last \in Nat /\ BS * last <= MaxSize - 1 /\ BS * last \in Nat
        /\ Blocks = 0 .. last
    <3>1. MaxSize - 1 \in Nat
      BY <1>1
    <3>2. last \in Nat /\ BS * last <= MaxSize - 1 /\ BS * last \in Nat
      BY <1>1, <3>1, Division
    <3>3. QED  BY <3>2, CacheFSAssumption DEF BS
  <2> HIDE DEF last
  <2>3. Cardinality(Blocks) = last + 1
    BY <2>2, FS_Interval
  <2>4. b \in Nat /\ n \in Nat \ {0} /\ b + n <= last + 1 /\ b <= last
    BY <2>1, <2>2, <2>3
  <2>5. BS * b \in Nat /\ BS * n \in Nat /\ BS * n >= 1
    <3>1. BS * 0 = 0 /\ BS * 0 <= BS * b /\ BS * 0 + BS <= BS * n
      BY <1>1, <2>4, Multiples
    <3>2. BS * b \in Int /\ BS * n \in Int
      BY <1>1, <2>4, Multiples
    <3>3. QED  BY <1>1, <3>1, <3>2
  <2>6. BS * b <= BS * last /\ BS * n <= BS * (last + 1)
        /\ BS * (last + 1) = BS * last + BS
    BY <1>1, <2>2, <2>4, Multiples
  <2>7. BS * b \in 0 .. MaxSize /\ BS * n \in 1 .. MaxSize + BS
    BY <1>1, <2>2, <2>5, <2>6
  <2>8. Align!offsetArray(BS * b, BS * n) \subseteq Blocks
    <3> DEFINE off == BS * b
               len == BS * n
    <3>1. off \div BS = b
      BY <1>1, <2>4, <2>5, InStep
    <3>2. off \in Nat /\ len \in Nat \ {0}
      BY <2>5
    <3>3. PICK m \in Nat \ {0} :
            /\ BS * m < len + BS
            /\ Align!offsetArray(off, len) = b .. b + m - 1
      <4> HIDE DEF off, len
      <4>1. PICK m \in Nat \ {0} :
              /\ BS * m < len + BS
              /\ Align!offsetArray(off, len) = off \div BS .. off \div BS + m - 1
        BY <3>2, RequestArray
      <4>2. QED  BY <3>1, <4>1
    <3>4. m <= n
      <4>1. n < m => BS * n + BS <= BS * m
        BY <1>1, <2>4, Multiples
      <4>2. BS * m \in Int
        BY <1>1, Multiples
      <4>3. QED  BY <1>1, <2>4, <2>5, <3>3, <4>1, <4>2
    <3>5. QED  BY <2>2, <2>4, <3>3, <3>4
  <2>9. QED  BY <2>1, <2>7, <2>8 DEF Starts
<1>9. CASE WriteDense(t) \/ WriteSparse(t)
  <2>1. PICK h \in Opened, off \in 0 .. MaxSize - 1, len \in 1 .. PageSize,
             v \in Values : StartWrite(t, h, off, len, v)
    BY <1>9 DEF WriteDense, WriteSparse
  <2>2. off + len <= MaxSize
    BY <2>1 DEF StartWrite
  <2>3. off \in 0 .. MaxSize /\ len \in 1 .. MaxSize + BS
    BY <1>1, <2>2, PageOfBlock
  <2>4. Align!offsetArray(off, len) \subseteq Blocks
    BY <2>2, <2>3, RequestInBlocks
  <2>5. QED  BY <2>1, <2>3, <2>4 DEF Starts
<1>10. CASE Grow(t)
  <2>1. PICK h \in Opened, len \in 1 .. MaxSize :
               StartTruncate(t, handles[h].path, h, len)
    BY <1>10 DEF Grow
  <2>2. len \in 0 .. MaxSize
    BY <1>1
  <2>3. handles[h].path \in Paths /\ h \in OpenOf(handles[h].path)
    BY <1>3 DEF OpenOf, Opened
  <2>4. QED  BY <2>1, <2>2, <2>3 DEF Starts
<1>11. QED  BY <1>4, <1>5, <1>6, <1>7, <1>8, <1>9, <1>10

\* So every step of SpecAlone is one of CfsSpec ...
LEMMA AloneSteps ==
  ASSUME FileInv, [NextAlone]_vars
  PROVE  [CfsNext]_vars
<1>1. CASE \E t \in Threads : Program(t) \/ ShrinkOpen(t) \/ UnlinkAny(t)
  <2>1. PICK t \in Threads : Program(t) \/ ShrinkOpen(t) \/ UnlinkAny(t)
    BY <1>1
  <2>2. Daemon(t) \/ Starts(t)
    BY <2>1, AloneStarts DEF Program
  <2>3. QED  BY <2>2 DEF CfsNext
<1>2. CASE \E t \in Threads : ShrinkPath(t) \/ UtimeAny(t)
  <2>1. PICK t \in Threads : ShrinkPath(t) \/ UtimeAny(t)
    BY <1>2
  <2>2. Starts(t)
    BY <2>1, AloneStarts
  <2>3. QED  BY <2>2 DEF CfsNext
<1>3. CASE RemoteLater
  <2>1. PICK p \in Paths, off \in 0 .. MaxSize - 1, v \in Values :
               RemoteWrite(p, off, v, clock)
    BY <1>3 DEF RemoteLater, RemoteAny
  <2>2. clock \in 0 .. MaxTime
    BY DEF FileInv, DirsInv
  <2>3. QED  BY <2>1, <2>2 DEF CfsNext
<1>4. CASE Tick \/ Remount
  BY <1>4 DEF Remount, CfsNext
<1>5. QED  BY <1>1, <1>2, <1>3, <1>4 DEF NextAlone

\* ... and keeps the types.
LEMMA FileInductive ==
  /\ Init => FileInv
  /\ FileInv /\ [NextAlone]_vars => FileInv' /\ [CfsNext]_vars
  BY AloneSteps, FSTypeInductive, CallbackInductive DEF FileInv

---------------------------------------------------------------------------
(***************************************************************************)
(* What a step of a callback does to its request, and to the files of      *)
(* other requests: nothing.                                                *)
(***************************************************************************)
\* The request is over, or it goes on as what was asked.
Kept(r, q) ==
  \/ q = NoReq
  \/ /\ q.op = r.op /\ q.path = r.path /\ q.h = r.h
     /\ q.off = r.off /\ q.len = r.len /\ q.val = r.val

Moved(t) == /\ DOMAIN req' = Threads
            /\ \A u \in Threads \ {t} : req'[u] = req[u]
            /\ Kept(req[t], req'[t])

\* A callback that goes on with its request, or returns, has moved.
LEMMA GoMoves ==
  ASSUME CallbackInv, NEW t \in Threads, NEW r, Go(t, r), Kept(req[t], r)
  PROVE  Moved(t)
  BY DEF CallbackInv, ReqInv, Go, Moved

\* The next block of cfs_read is of the same request.
LEMMA NextReadKeeps ==
  ASSUME NEW t, NEW q, NEW r, DOMAIN r = Fields, Kept(q, r), r # NoReq
  PROVE  Kept(q, NextReadBlock(t, r))
  BY DEF Kept, NextReadBlock, Fields, NoReq

\* Every step of a callback moves its own request and no other.
LEMMA DaemonMoves ==
  ASSUME CallbackInv, NEW t \in Threads, Daemon(t)
  PROVE  Moved(t)
<1>1. DOMAIN req[t] = Fields /\ Kept(req[t], NoReq) /\ Kept(req[t], req[t])
  BY DEF CallbackInv, ReqInv, Locals, Kept
<1>2. Return(t) => Moved(t)
  BY <1>1, GoMoves DEF Return
<1>3. ASSUME NEW pc, Go(t, [req[t] EXCEPT !.pc = pc])  PROVE Moved(t)
  <2>1. Kept(req[t], [req[t] EXCEPT !.pc = pc])
    BY <1>1 DEF Kept, Fields, NoReq
  <2>2. QED  BY <1>3, <2>1, GoMoves
<1>4. ASSUME NEW m, NEW pc,
             \/ Go(t, [req[t] EXCEPT !.ino = m, !.pc = pc])
             \/ Go(t, [req[t] EXCEPT !.pc = pc, !.present = m])
             \/ Go(t, [req[t] EXCEPT !.num = m, !.pc = pc])
             \/ Go(t, [req[t] EXCEPT !.pc = pc, !.num = m])
             \/ Go(t, [req[t] EXCEPT !.buf = m, !.pc = pc])
      PROVE  Moved(t)
  <2>1. /\ Kept(req[t], [req[t] EXCEPT !.ino = m, !.pc = pc])
        /\ Kept(req[t], [req[t] EXCEPT !.pc = pc, !.present = m])
        /\ Kept(req[t], [req[t] EXCEPT !.num = m, !.pc = pc])
        /\ Kept(req[t], [req[t] EXCEPT !.pc = pc, !.num = m])
        /\ Kept(req[t], [req[t] EXCEPT !.buf = m, !.pc = pc])
    BY <1>1 DEF Kept, Fields, NoReq
  <2>2. QED  BY <1>4, <2>1, GoMoves
<1>5. CASE cfs_open(t)
  <2>1. CASE open_nas(t)
    BY <2>1, <1>4 DEF open_nas
  <2>2. CASE open_present(t)
    BY <2>2, <1>2, <1>3, <1>4 DEF open_present, open_presentAs
  <2>3. CASE open_stat(t)
    <3> DEFINE pc == IF req[t].present THEN "open_date" ELSE "open_create"
    <3>1. PICK m : Go(t, [req[t] EXCEPT !.num = m, !.pc = pc])
      BY <2>3 DEF open_stat, open_statAs
    <3>2. QED  BY <3>1, <1>4
  <2>4. CASE open_date(t)
    BY <2>4, <1>3 DEF open_date, open_dateAs
  <2>5. CASE open_unlink(t) \/ open_create(t) \/ open_mknod(t) \/ open_cache(t)
    BY <2>5, <1>2, <1>3
    DEF open_unlink, AfterUnlink, open_create, open_mknod, open_cache
  <2>6. QED  BY <1>5, <2>1, <2>2, <2>3, <2>4, <2>5 DEF cfs_open
<1>6. CASE cfs_read(t)
  <2>1. CASE read_check(t)
    <3>1. PICK hits, todo, pc :
            Go(t, [req[t] EXCEPT !.hits = hits, !.todo = todo, !.pc = pc])
      BY <2>1 DEF read_check, read_checkAs
    <3>2. Kept(req[t], [req[t] EXCEPT !.hits = hits, !.todo = todo, !.pc = pc])
      BY <1>1 DEF Kept, Fields, NoReq
    <3>3. QED  BY <3>1, <3>2, GoMoves
  <2>2. CASE read_all(t)
    <3>1. PICK buf, count : Go(t, [req[t] EXCEPT !.buf = buf, !.count = count,
                                     !.todo = {}, !.pc = "read_done"])
      BY <2>2 DEF read_all, read_allAs
    <3>2. Kept(req[t], [req[t] EXCEPT !.buf = buf, !.count = count,
                                     !.todo = {}, !.pc = "read_done"])
      BY <1>1 DEF Kept, Fields, NoReq
    <3>3. QED  BY <3>1, <3>2, GoMoves
  <2>3. CASE read_block(t)
    <3>1. PICK bytes, n : read_blockAs(t, bytes, n)
      BY <2>3 DEF read_block
    <3> DEFINE r == [req[t] EXCEPT !.buf = @ \o Padded(bytes, BS), !.count = @ + n]
               q == [r EXCEPT !.pc = "cache_record"]
    <3>2. Go(t, IF BlockInHand(t) \in req[t].hits THEN NextReadBlock(t, r) ELSE q)
      BY <3>1 DEF read_blockAs
    <3>3. /\ DOMAIN r = Fields /\ DOMAIN q = Fields
          /\ Kept(req[t], r) /\ Kept(req[t], q) /\ r.pc = req[t].pc
      <4> DEFINE buf   == req[t].buf \o Padded(bytes, BS)
                 count == req[t].count + n
      <4>1. /\ r = [req[t] EXCEPT !.buf = buf, !.count = count]
            /\ q = [r EXCEPT !.pc = "cache_record"]
        OBVIOUS
      <4> HIDE DEF r, q, buf, count
      <4>2. DOMAIN r = Fields /\ r.pc = req[t].pc
        BY <1>1, <4>1 DEF Fields, NoReq
      <4>3. DOMAIN q = Fields
        BY <4>1, <4>2
      <4>4. /\ r.op = req[t].op /\ r.path = req[t].path /\ r.h = req[t].h
            /\ r.off = req[t].off /\ r.len = req[t].len /\ r.val = req[t].val
        BY <1>1, <4>1 DEF Fields, NoReq
      <4>5. /\ q.op = r.op /\ q.path = r.path /\ q.h = r.h
            /\ q.off = r.off /\ q.len = r.len /\ q.val = r.val
        BY <4>1, <4>2 DEF Fields, NoReq
      <4>6. QED  BY <4>2, <4>3, <4>4, <4>5 DEF Kept
    <3>4. r # NoReq
      <4>1. req[t].pc = "read_block"
        BY <3>1 DEF read_blockAs, Pc
      <4> HIDE DEF r
      <4>2. QED  BY <3>3, <4>1 DEF NoReq
    <3> HIDE DEF r, q
    <3>5. Kept(req[t], NextReadBlock(t, r))
      BY <3>3, <3>4, NextReadKeeps
    <3>6. QED  BY <3>2, <3>3, <3>5, GoMoves
  <2>4. CASE read_done(t)
    BY <2>4, <1>2 DEF read_done
  <2>5. QED  BY <1>6, <2>1, <2>2, <2>3, <2>4 DEF cfs_read
<1>7. CASE cfs_write(t)
  <2>1. CASE write_nas(t)
    BY <2>1, <1>3 DEF write_nas, write_nasAs
  <2>2. CASE write_stat(t)
    <3>1. PICK m : Go(t, [req[t] EXCEPT !.pc = "write_read", !.num = m])
      BY <2>2 DEF write_stat, write_statAs
    <3>2. QED  BY <3>1, <1>4
  <2>3. CASE write_read(t)
    <3>1. PICK m : Go(t, [req[t] EXCEPT !.buf = m, !.pc = "cache_record"])
      BY <2>3 DEF write_read, write_readAs
    <3>2. QED  BY <3>1, <1>4
  <2>4. QED  BY <1>7, <2>1, <2>2, <2>3 DEF cfs_write
<1>8. CASE cfs_cacheWrite(t)
  <2>1. CASE cache_wait(t) \/ cache_record(t)
    BY <2>1, <1>1, <1>3 DEF cache_wait, cache_record, vars, cfsVars, Moved,
                            CallbackInv, ReqInv
  <2>2. CASE cache_pwrite(t)
    <3>1. req[t] # NoReq
      BY <2>2 DEF cache_pwrite, cache_pwriteAs, Pc, NoReq
    <3>2. Kept(req[t], NextReadBlock(t, req[t]))
      BY <1>1, <3>1, NextReadKeeps
    <3>3. QED  BY <2>2, <3>2, <1>2, GoMoves DEF cache_pwrite, cache_pwriteAs
  <2>3. QED  BY <1>8, <2>1, <2>2 DEF cfs_cacheWrite
<1>9. CASE cfs_mknod(t) \/ cfs_unlink(t) \/ cfs_truncate(t) \/ cfs_release(t)
  BY <1>9, <1>2, <1>3
  DEF cfs_mknod, cfs_unlink, unlink_meta, unlink_cache, unlink_nas, cfs_truncate,
      trunc_cache, trunc_nas, cfs_release, release_dig, release_close
<1>10. CASE cfs_rename(t) \/ cfs_link(t) \/ cfs_utime(t)
  BY <1>10, <1>2, <1>3
  DEF cfs_rename, rename_cache, rename_nas, cfs_link, link_cache, link_nas,
      cfs_utime, utime_cache, utime_nas
<1>11. CASE MetaStep(t) /\ UNCHANGED cfsVars
  BY <1>1, <1>11 DEF cfsVars, Moved, CallbackInv, ReqInv
<1>12. QED
  BY <1>5, <1>6, <1>7, <1>8, <1>9, <1>10, <1>11 DEF Daemon

---------------------------------------------------------------------------
(***************************************************************************)
(* The file behind a name, and calls that change no other.                 *)
(***************************************************************************)
DataOf(fs, n) == fs.data[fs.dir[n]]
TimeOf(fs, n) == fs.mtime[fs.dir[n]]

\* From fs to gs nothing happens to the file named n, ...
SameFile(fs, gs, n) ==
  /\ gs.dir[n] = fs.dir[n]
  /\ fs.dir[n] # NoInode => /\ DataOf(gs, n) = DataOf(fs, n)
                            /\ TimeOf(gs, n) = TimeOf(fs, n)

\* ... or to any other.
OnlyFile(fs, gs, n) == \A m \in DOMAIN fs.dir \ {n} : SameFile(fs, gs, m)

\* No file has two names: SpecAlone makes no link.
OneName(dir) ==
  \A a, b \in DOMAIN dir : a # b => dir[a] = NoInode \/ dir[a] # dir[b]

NamesInv == OneName(nas.dir) /\ OneName(cache.dir)

\* The bytes of a file after a pwrite and after an ftruncate.
Written(old, off, bytes) ==
  [k \in 1 .. Larger(Len(old), off + Len(bytes)) |->
     IF k \in off + 1 .. off + Len(bytes) THEN bytes[k - off]
     ELSE IF k <= Len(old) THEN old[k] ELSE Zero]

Resized(old, size) ==
  [k \in 1 .. size |-> IF k <= Len(old) THEN old[k] ELSE Zero]

\* A file is changed through the inode its name has: the names stay, and the
\* other files too.
LEMMA InodeLocal ==
  ASSUME NEW fs, NEW names, NEW B, FileSystem(fs, names, B), OneName(fs.dir),
         NEW f \in names, NEW gs, gs.dir = fs.dir,
         \A j \in Inodes : j # fs.dir[f] => /\ gs.data[j] = fs.data[j]
                                            /\ gs.mtime[j] = fs.mtime[j]
  PROVE  OnlyFile(fs, gs, f)
<1>1. \A g \in names \ {f} : fs.dir[g] # NoInode => /\ fs.dir[g] # fs.dir[f]
                                                    /\ fs.dir[g] \in Inodes
  BY DEF OneName, FileSystem
<1>2. DOMAIN fs.dir = names
  BY DEF FileSystem
<1>3. QED  BY <1>1, <1>2 DEF OnlyFile, SameFile, DataOf, TimeOf

\* pwrite, ftruncate and utime change one file, and nothing of the others.
LEMMA CallsLocal ==
  ASSUME NEW fs, NEW names, NEW B, FileSystem(fs, names, B), OneName(fs.dir),
         NEW f \in names, NEW off, NEW bytes, NEW n, NEW m
  PROVE  LET i == fs.dir[f]
             w == Pwrite(fs, i, off, bytes, m)
             z == Ftruncate(fs, i, n, m)
             u == Utime(fs, i, m)
         IN /\ w.dir = fs.dir /\ OnlyFile(fs, w, f)
            /\ i \in Inodes => /\ DataOf(w, f) = Written(fs.data[i], off, bytes)
                               /\ TimeOf(w, f) = m
            /\ z.dir = fs.dir /\ OnlyFile(fs, z, f)
            /\ i \in Inodes => DataOf(z, f) = Resized(fs.data[i], n)
            /\ u.dir = fs.dir /\ OnlyFile(fs, u, f) /\ u.data = fs.data
<1> DEFINE i == fs.dir[f]
           w == Pwrite(fs, i, off, bytes, m)
           z == Ftruncate(fs, i, n, m)
           u == Utime(fs, i, m)
           d == Written(fs.data[i], off, bytes)
           e == Resized(fs.data[i], n)
<1>1. /\ w = [fs EXCEPT !.data[i] = d, !.mtime[i] = m]
      /\ z = [fs EXCEPT !.data[i] = e, !.mtime[i] = m]
      /\ u = [fs EXCEPT !.mtime[i] = m]
  <2>1. w = [fs EXCEPT !.data[i] = d, !.mtime[i] = m]
    BY DEF Pwrite, Written
  <2>2. z = [fs EXCEPT !.data[i] = e, !.mtime[i] = m]
    BY DEF Ftruncate, Resized
  <2>3. u = [fs EXCEPT !.mtime[i] = m]
    BY DEF Utime
  <2>4. QED  BY <2>1, <2>2, <2>3
<1> HIDE DEF w, z, u, d, e
<1>2. w.dir = fs.dir /\ z.dir = fs.dir /\ u.dir = fs.dir /\ u.data = fs.data
  BY <1>1 DEF FileSystem
<1>3. \A j \in Inodes : /\ w.data[j] = IF j = i THEN d ELSE fs.data[j]
                        /\ w.mtime[j] = IF j = i THEN m ELSE fs.mtime[j]
  BY <1>1 DEF FileSystem
<1>4. \A j \in Inodes : /\ z.data[j] = IF j = i THEN e ELSE fs.data[j]
                        /\ j # i => z.mtime[j] = fs.mtime[j]
  BY <1>1 DEF FileSystem
<1>5. \A j \in Inodes : j # i => u.mtime[j] = fs.mtime[j]
  BY <1>1 DEF FileSystem
<1>6. OnlyFile(fs, w, f) /\ OnlyFile(fs, z, f) /\ OnlyFile(fs, u, f)
  BY <1>2, <1>3, <1>4, <1>5, InodeLocal
<1>7. i \in Inodes => DataOf(w, f) = d /\ TimeOf(w, f) = m /\ DataOf(z, f) = e
  BY <1>2, <1>3, <1>4 DEF DataOf, TimeOf
<1>8. QED  BY <1>2, <1>6, <1>7 DEF w, z, u, d, e

\* A new name is that of an inode no name has; the new file is empty.
LEMMA CreateLocal ==
  ASSUME NEW fs, NEW names, NEW B, FileSystem(fs, names, B), OneName(fs.dir),
         NEW f \in names, NEW held, NEW m
  PROVE  LET gs == Create(fs, f, held, m)
         IN /\ OnlyFile(fs, gs, f) /\ OneName(gs.dir)
            /\ \/ gs = fs
               \/ /\ fs.dir[f] = NoInode /\ gs.dir[f] # NoInode
                  /\ DataOf(gs, f) = <<>>
<1> DEFINE free == Inodes \ (held \cup {fs.dir[n] : n \in DOMAIN fs.dir})
           i    == CHOOSE j \in free : TRUE
           gs   == [fs EXCEPT !.dir[f] = i, !.data[i] = <<>>, !.mtime[i] = m]
<1>1. DOMAIN fs.dir = names
  BY DEF FileSystem
<1>2. CASE fs.dir[f] # NoInode \/ free = {}
  <2>1. Create(fs, f, held, m) = fs
    BY <1>2 DEF Create
  <2>2. OnlyFile(fs, fs, f)
    BY DEF OnlyFile, SameFile
  <2>3. QED  BY <2>1, <2>2
<1>3. CASE ~ (fs.dir[f] # NoInode \/ free = {})
  <2>1. Create(fs, f, held, m) = gs
    BY <1>3 DEF Create
  <2>2. i \in Inodes /\ \A n \in names : fs.dir[n] # i
    <3>1. i \in free
      BY <1>3
    <3> HIDE DEF i
    <3>2. QED  BY <1>1, <3>1
  <2> HIDE DEF i, free
  <2>3. /\ DOMAIN gs.dir = names
        /\ \A n \in names : gs.dir[n] = IF n = f THEN i ELSE fs.dir[n]
    BY DEF FileSystem
  <2>4. \A j \in Inodes : /\ gs.data[j] = IF j = i THEN <<>> ELSE fs.data[j]
                          /\ j # i => gs.mtime[j] = fs.mtime[j]
    BY DEF FileSystem
  <2> HIDE DEF gs
  <2>5. \A n \in names : fs.dir[n] # NoInode => fs.dir[n] \in Inodes
    BY DEF FileSystem
  <2>6. OnlyFile(fs, gs, f)
    BY <1>1, <2>2, <2>3, <2>4, <2>5 DEF OnlyFile, SameFile, DataOf, TimeOf
  <2>7. OneName(gs.dir)
    BY <1>1, <2>2, <2>3 DEF OneName
  <2>8. gs.dir[f] # NoInode /\ DataOf(gs, f) = <<>>
    BY <2>2, <2>3, <2>4, CacheFSAssumption DEF DataOf
  <2>9. QED  BY <1>3, <2>1, <2>6, <2>7, <2>8
<1>4. QED  BY <1>2, <1>3

\* A removed name is no file's.
LEMMA UnlinkLocal ==
  ASSUME NEW fs, NEW names, NEW B, FileSystem(fs, names, B), OneName(fs.dir),
         NEW f \in names
  PROVE  LET gs == Unlink(fs, f)
         IN /\ OnlyFile(fs, gs, f) /\ OneName(gs.dir) /\ gs.dir[f] = NoInode
<1> DEFINE gs == Unlink(fs, f)
<1>1. DOMAIN fs.dir = names
  BY DEF FileSystem
<1>2. /\ gs.data = fs.data /\ gs.mtime = fs.mtime /\ DOMAIN gs.dir = names
      /\ \A n \in names : gs.dir[n] = IF n = f THEN NoInode ELSE fs.dir[n]
  BY DEF FileSystem, Unlink
<1> HIDE DEF gs
<1>3. OnlyFile(fs, gs, f) /\ OneName(gs.dir)
  BY <1>1, <1>2 DEF OnlyFile, SameFile, OneName, DataOf, TimeOf
<1>4. QED  BY <1>2, <1>3 DEF gs

---------------------------------------------------------------------------
(***************************************************************************)
(* What a step of a callback does to the two directories: nothing but to   *)
(* the file of its path.                                                   *)
(***************************************************************************)
UsesHandle(r) ==
  \/ r.op \in {"read", "write", "release"}
  \/ r.op = "truncate" /\ r.h # NoHandle

\* A request by handle is for the path of the handle, and a file whose size or
\* times are changed exists.
UsersInv ==
  \A t \in Threads :
    /\ UsesHandle(req[t]) => fh(t).path = req[t].path
    /\ req[t].op \in {"truncate", "utime"} => nas.dir[req[t].path] # NoInode

\* The two descriptors of a request by handle are those of the files its path
\* names.
LEMMA Descriptors ==
  ASSUME FileInv, PathInv, UsersInv, NEW t \in Threads, UsesHandle(req[t])
  PROVE  /\ req[t].path \in Paths /\ name(t) \in Names /\ req[t].h \in Handles
         /\ fh(t).nas = nas.dir[req[t].path] /\ fh(t).nas \in Inodes
         /\ fh(t).cache = cache.dir[name(t)] /\ fh(t).cache \in Inodes
         /\ nas.dir[req[t].path] # NoInode /\ cache.dir[name(t)] # NoInode
<1>1. req[t].h \in Handles /\ fh(t) # Closed
  BY DEF FileInv, RequestsInv, HasOpen, UsesHandle
<1>2. Current(nas.dir, cache.dir, fh(t)) /\ HandleType(fh(t))
  BY <1>1 DEF PathInv, HandleInv, FileInv, RequestsInv, fh
<1>3. fh(t).path = req[t].path
  BY DEF UsersInv
<1>4. QED
  BY <1>1, <1>2, <1>3, NameType DEF Current, HandleType, name

\* Thread t is inside a callback.
LEMMA InCallback ==
  ASSUME PathInv, NEW t \in Threads, req[t].pc # "idle"
  PROVE  req[t].path \in Paths /\ name(t) \in Names /\ req[t].op # "none"
  BY NameType DEF PathInv, PathReqs, Shape, AtStep, name

\* The steps that change the NAS directory, and what becomes of the file.
LEMMA NasView ==
  ASSUME FileInv, PathInv, UsersInv, NamesInv, NEW t \in Threads, Daemon(t)
  PROVE  LET p == req[t].path
             d == DataOf(nas, p)
         IN /\ OnlyFile(nas, nas', p) /\ OneName(nas'.dir)
            /\ \/ nas' = nas
               \/ /\ req[t].op = "mknod" /\ nas.dir[p] = NoInode
                  /\ DataOf(nas', p) = <<>>
               \/ req[t].op = "unlink" /\ nas'.dir[p] = NoInode
               \/ /\ write_nas(t) /\ nas'.dir = nas.dir
                  /\ DataOf(nas', p) = Written(d, req[t].off,
                                         [k \in 1 .. req[t].len |-> req[t].val])
               \/ /\ trunc_nas(t) /\ nas'.dir = nas.dir
                  /\ DataOf(nas', p) = Resized(d, req[t].len)
               \/ /\ utime_nas(t) /\ nas'.dir = nas.dir
                  /\ nas'.data = nas.data
<1> DEFINE p == req[t].path
           i == nas.dir[p]
<1>1. FileSystem(nas, Paths, NasBytes) /\ OneName(nas.dir) /\ AtStep(req[t])
  BY DEF FileInv, DirsInv, NamesInv, PathInv, PathReqs, Shape
<1>2. OnlyFile(nas, nas, p)
  BY DEF OnlyFile, SameFile
<1>3. CASE nas' = nas
  BY <1>1, <1>2, <1>3
<1>4. CASE cfs_mknod(t)
  <2>1. p \in Paths /\ req[t].op = "mknod"
    BY <1>1, <1>4, InCallback DEF cfs_mknod, Pc, AtStep
  <2> DEFINE new == Create(nas, p, NasHeld, clock)
  <2>2. /\ OnlyFile(nas, new, p) /\ OneName(new.dir)
        /\ \/ new = nas
           \/ nas.dir[p] = NoInode /\ DataOf(new, p) = <<>>
    BY <1>1, <2>1, CreateLocal
  <2>3. nas' = new
    BY <1>4 DEF cfs_mknod
  <2> HIDE DEF new
  <2>4. QED  BY <2>1, <2>2, <2>3
<1>5. CASE unlink_nas(t)
  <2>1. p \in Paths /\ req[t].op = "unlink"
    BY <1>1, <1>5, InCallback DEF unlink_nas, Pc, AtStep
  <2> DEFINE new == Unlink(nas, p)
  <2>2. OnlyFile(nas, new, p) /\ OneName(new.dir) /\ new.dir[p] = NoInode
    BY <1>1, <2>1, UnlinkLocal
  <2>3. nas' = new
    BY <1>5 DEF unlink_nas
  <2> HIDE DEF new
  <2>4. QED  BY <2>1, <2>2, <2>3
<1>6. CASE write_nas(t)
  <2>1. req[t].op = "write"
    BY <1>1, <1>6 DEF write_nas, write_nasAs, Pc, AtStep
  <2>2. p \in Paths /\ fh(t).nas = i /\ i \in Inodes
    BY <2>1, Descriptors DEF UsesHandle
  <2> DEFINE bytes == [k \in 1 .. req[t].len |-> req[t].val]
             new   == Pwrite(nas, i, req[t].off, bytes, clock)
  <2>3. nas' = nas \/ nas' = new
    BY <1>6, <2>2 DEF write_nas, write_nasAs
  <2>4. /\ new.dir = nas.dir /\ OnlyFile(nas, new, p)
        /\ DataOf(new, p) = Written(nas.data[i], req[t].off, bytes)
    <3>1. i = nas.dir[p] /\ i \in Inodes /\ p \in Paths
      BY <2>2
    <3>2. FileSystem(nas, Paths, NasBytes) /\ OneName(nas.dir)
      BY <1>1
    <3> HIDE DEF bytes, i, p
    <3>3. QED  BY <3>1, <3>2, CallsLocal
  <2> HIDE DEF new
  <2>5. QED  BY <1>1, <1>2, <1>6, <2>3, <2>4 DEF DataOf
<1>7. CASE trunc_nas(t)
  <2>1. req[t].op = "truncate" /\ p \in Paths
    BY <1>1, <1>7, InCallback DEF trunc_nas, Pc, AtStep
  <2>2. i # NoInode /\ i \in Inodes
    BY <1>1, <2>1 DEF UsersInv, FileSystem
  <2>3. req[t].h # NoHandle => fh(t).nas = i
    BY <2>1, Descriptors DEF UsesHandle
  <2> DEFINE new == Ftruncate(nas, i, req[t].len, clock)
  <2>4. nas' = new
    BY <1>7, <2>2, <2>3 DEF trunc_nas
  <2>5. /\ new.dir = nas.dir /\ OnlyFile(nas, new, p)
        /\ DataOf(new, p) = Resized(nas.data[i], req[t].len)
    BY <1>1, <2>1, <2>2, CallsLocal
  <2> HIDE DEF new
  <2>6. QED  BY <1>1, <1>7, <2>4, <2>5 DEF DataOf
<1>8. CASE utime_nas(t)
  <2>1. p \in Paths
    BY <1>8, InCallback DEF utime_nas, Pc
  <2> DEFINE new == Utime(nas, i, req[t].num)
  <2>2. nas' = nas \/ nas' = new
    BY <1>8 DEF utime_nas
  <2>3. new.dir = nas.dir /\ OnlyFile(nas, new, p) /\ new.data = nas.data
    BY <1>1, <2>1, CallsLocal
  <2> HIDE DEF new
  <2>4. QED  BY <1>1, <1>2, <1>8, <2>2, <2>3
<1>9. ~cfs_rename(t) /\ ~cfs_link(t)
  BY <1>1 DEF cfs_rename, rename_cache, rename_nas, cfs_link, link_cache,
                    link_nas, Pc, AtStep
<1>10. nas' = nas \/ cfs_mknod(t) \/ unlink_nas(t) \/ write_nas(t) \/ trunc_nas(t)
       \/ utime_nas(t)
  <2>1. cfs_open(t) => nas' = nas
    BY DEF cfs_open, open_nas, open_present, open_presentAs, open_stat,
           open_statAs, open_date, open_dateAs, open_unlink, open_create,
           open_mknod, open_cache, NoFile
  <2>2. cfs_read(t) => nas' = nas
    BY DEF cfs_read, read_check, read_checkAs, read_all, read_allAs, read_block,
           read_blockAs, read_done, NoFile
  <2>3. cfs_write(t) => nas' = nas \/ write_nas(t)
    BY DEF cfs_write, write_stat, write_statAs, write_read, write_readAs, NoFile
  <2>4. cfs_cacheWrite(t) => nas' = nas
    BY DEF cfs_cacheWrite, cache_wait, cache_record, cache_pwrite,
           cache_pwriteAs, NoFile, vars, cfsVars
  <2>5. cfs_unlink(t) => nas' = nas \/ unlink_nas(t)
    BY DEF cfs_unlink, unlink_meta, unlink_cache, NoFile
  <2>6. cfs_truncate(t) => nas' = nas \/ trunc_nas(t)
    BY DEF cfs_truncate, trunc_cache
  <2>7. cfs_release(t) => nas' = nas
    BY DEF cfs_release, release_dig, release_close
  <2>8. cfs_utime(t) => nas' = nas \/ utime_nas(t)
    BY DEF cfs_utime, utime_cache
  <2>9. QED
    BY <1>9, <2>1, <2>2, <2>3, <2>4, <2>5, <2>6, <2>7, <2>8 DEF Daemon, cfsVars
<1>11. QED  BY <1>3, <1>4, <1>5, <1>6, <1>7, <1>8, <1>10

\* All of a buffer.
LEMMA WholeSeq ==
  ASSUME NEW S, NEW s \in Seq(S)
  PROVE  SubSeq(s, 1, Len(s)) = s
<1>1. Len(s) \in Nat /\ \A k \in 1 .. Len(s) : s[k] \in S
  BY LenProperties, ElementOfSeq
<1>2. /\ SubSeq(s, 1, Len(s)) \in Seq(S)
      /\ Len(SubSeq(s, 1, Len(s))) = Len(s)
      /\ \A k \in 1 .. Len(s) : SubSeq(s, 1, Len(s))[k] = s[k]
  BY <1>1, SubSeqProperties
<1>3. QED  BY <1>1, <1>2, SeqEqual

\* The steps that change the cache directory.
LEMMA CacheView ==
  ASSUME FileInv, PathInv, UsersInv, NamesInv, NEW t \in Threads, Daemon(t)
  PROVE  LET f == name(t)
             c == DataOf(cache, f)
         IN /\ OnlyFile(cache, cache', f) /\ OneName(cache'.dir)
            /\ \/ cache' = cache
               \/ /\ req[t].op \in {"open", "unlink"}
                  /\ cache'.dir[f] = NoInode
               \/ open_mknod(t) /\ DataOf(cache', f) = <<>>
               \/ /\ cache_pwrite(t) /\ cache'.dir = cache.dir
                  /\ DataOf(cache', f) = Written(c, WriteOffset(t), WriteBytes(t))
               \/ /\ trunc_cache(t) /\ cache'.dir = cache.dir
                  /\ DataOf(cache', f) = Resized(c, req[t].len)
               \/ /\ utime_cache(t) \/ release_dig(t)
                  /\ cache'.dir = cache.dir /\ cache'.data = cache.data
<1> DEFINE f == name(t)
           i == cache.dir[f]
<1>1. /\ FileSystem(cache, Names, ByteSet) /\ OneName(cache.dir)
      /\ AtStep(req[t])
  BY DEF FileInv, DirsInv, NamesInv, PathInv, PathReqs, Shape
<1>2. OnlyFile(cache, cache, f)
  BY DEF OnlyFile, SameFile
<1>3. CASE cache' = cache
  BY <1>1, <1>2, <1>3
<1>4. CASE open_mknod(t)
  <2>1. f \in Names
    BY <1>4, InCallback DEF open_mknod, Pc
  <2> DEFINE new == Create(cache, f, CacheHeld, clock)
  <2>2. /\ OnlyFile(cache, new, f) /\ OneName(new.dir)
        /\ new = cache \/ DataOf(new, f) = <<>>
    BY <1>1, <2>1, CreateLocal
  <2>3. cache' = new
    BY <1>4 DEF open_mknod
  <2> HIDE DEF new
  <2>4. QED  BY <1>4, <2>2, <2>3
<1>5. CASE open_unlink(t) \/ unlink_cache(t)
  <2>1. f \in Names /\ req[t].op \in {"open", "unlink"}
    BY <1>1, <1>5, InCallback DEF open_unlink, unlink_cache, Pc, AtStep
  <2> DEFINE new == Unlink(cache, f)
  <2>2. OnlyFile(cache, new, f) /\ OneName(new.dir) /\ new.dir[f] = NoInode
    BY <1>1, <2>1, UnlinkLocal
  <2>3. cache' = new
    BY <1>5 DEF open_unlink, unlink_cache
  <2> HIDE DEF new
  <2>4. QED  BY <2>1, <2>2, <2>3
<1>6. CASE cache_pwrite(t)
  <2>1. req[t].op \in {"read", "write"} /\ req[t].pc = "cache_pwrite"
    BY <1>1, <1>6 DEF cache_pwrite, cache_pwriteAs, Pc, AtStep
  <2>2. f \in Names /\ fh(t).cache = i /\ i \in Inodes
    BY <2>1, Descriptors DEF UsesHandle
  <2>3. WriteBytes(t) \in Seq(ByteSet)
    BY <2>1, WriteBytesType DEF FileInv, Covering
  <2>4. SubSeq(WriteBytes(t), 1, Len(WriteBytes(t))) = WriteBytes(t)
    BY <2>3, WholeSeq
  <2> DEFINE new == Pwrite(cache, i, WriteOffset(t), WriteBytes(t), clock)
  <2>5. cache' = cache \/ cache' = new
    BY <1>6, <2>2, <2>4 DEF cache_pwrite, cache_pwriteAs
  <2>6. /\ new.dir = cache.dir /\ OnlyFile(cache, new, f)
        /\ DataOf(new, f) = Written(cache.data[i], WriteOffset(t), WriteBytes(t))
    BY <1>1, <2>2, CallsLocal
  <2> HIDE DEF new
  <2>7. QED  BY <1>1, <1>2, <1>6, <2>5, <2>6 DEF DataOf
<1>7. CASE trunc_cache(t)
  <2>1. req[t].op = "truncate" /\ f \in Names
    BY <1>1, <1>7, InCallback DEF trunc_cache, Pc, AtStep
  <2>2. req[t].h # NoHandle => fh(t).cache = i
    BY <2>1, Descriptors DEF UsesHandle
  <2> DEFINE new == Ftruncate(cache, i, req[t].len, clock)
  <2>3. cache' = cache \/ (i \in Inodes /\ cache' = new)
    BY <1>1, <1>7, <2>1, <2>2 DEF trunc_cache, FileSystem
  <2>4. /\ new.dir = cache.dir /\ OnlyFile(cache, new, f)
        /\ i \in Inodes => DataOf(new, f) = Resized(cache.data[i], req[t].len)
    BY <1>1, <2>1, CallsLocal
  <2> HIDE DEF new
  <2>5. QED  BY <1>1, <1>2, <1>7, <2>3, <2>4 DEF DataOf
<1>8. CASE utime_cache(t) \/ release_dig(t)
  <2>1. f \in Names
    BY <1>8, InCallback DEF utime_cache, release_dig, Pc
  <2>2. PICK m : cache' = cache \/ cache' = Utime(cache, i, m)
    BY <1>8 DEF utime_cache, release_dig, Utime
  <2> DEFINE new == Utime(cache, i, m)
  <2>3. new.dir = cache.dir /\ OnlyFile(cache, new, f) /\ new.data = cache.data
    BY <1>1, <2>1, CallsLocal
  <2> HIDE DEF new
  <2>4. QED  BY <1>1, <1>2, <1>8, <2>2, <2>3 DEF new
<1>9. ~cfs_rename(t) /\ ~cfs_link(t)
  BY <1>1 DEF cfs_rename, rename_cache, rename_nas, cfs_link, link_cache,
              link_nas, Pc, AtStep
<1>10. cache' = cache \/ open_mknod(t) \/ open_unlink(t) \/ unlink_cache(t)
       \/ cache_pwrite(t) \/ trunc_cache(t) \/ utime_cache(t) \/ release_dig(t)
  <2>1. cfs_open(t) => cache' = cache \/ open_mknod(t) \/ open_unlink(t)
    BY DEF cfs_open, open_nas, open_present, open_presentAs, open_stat,
           open_statAs, open_date, open_dateAs, open_create, open_cache, NoFile
  <2>2. cfs_read(t) => cache' = cache
    BY DEF cfs_read, read_check, read_checkAs, read_all, read_allAs, read_block,
           read_blockAs, read_done, NoFile
  <2>3. cfs_write(t) => cache' = cache
    BY DEF cfs_write, write_nas, write_nasAs, write_stat, write_statAs,
           write_read, write_readAs, NoFile
  <2>4. cfs_cacheWrite(t) => cache' = cache \/ cache_pwrite(t)
    BY DEF cfs_cacheWrite, cache_wait, cache_record, NoFile, vars, cfsVars
  <2>5. cfs_unlink(t) => cache' = cache \/ unlink_cache(t)
    BY DEF cfs_unlink, unlink_meta, unlink_nas, NoFile
  <2>6. cfs_truncate(t) => cache' = cache \/ trunc_cache(t)
    BY DEF cfs_truncate, trunc_nas
  <2>7. cfs_release(t) => cache' = cache \/ release_dig(t)
    BY DEF cfs_release, release_close
  <2>8. cfs_utime(t) => cache' = cache \/ utime_cache(t)
    BY DEF cfs_utime, utime_nas
  <2>9. cfs_mknod(t) => cache' = cache
    BY DEF cfs_mknod
  <2>10. QED
    BY <1>9, <2>1, <2>2, <2>3, <2>4, <2>5, <2>6, <2>7, <2>8, <2>9
    DEF Daemon, cfsVars
<1>11. QED  BY <1>3, <1>4, <1>5, <1>6, <1>7, <1>8, <1>10

\* Only cfs_open and cfs_release assign a handle, the one of their request, and
\* return.
LEMMA HandleView ==
  ASSUME FileInv, PathInv, NEW t \in Threads, Daemon(t)
  PROVE  \/ handles' = handles
         \/ /\ req[t].op \in {"open", "release"} /\ req'[t] = NoReq
            /\ \A h \in Handles \ {req[t].h} : handles'[h] = handles[h]
            /\ handles'[req[t].h].path \in {req[t].path, NoPath}
            /\ req[t].op = "release" => handles'[req[t].h] = Closed
            /\ req[t].op = "open" => /\ cache.dir[name(t)] # NoInode
                                     /\ open_cache(t)
<1>1. /\ AtStep(req[t]) /\ DOMAIN handles = Handles /\ DOMAIN req = Threads
      /\ HasOpen(req[t], fh(t))
  BY DEF PathInv, PathReqs, Shape, HandleInv, FileInv, RequestsInv
<1>2. CASE handles' = handles
  BY <1>2
<1>3. CASE open_cache(t)
  BY <1>1, <1>3 DEF open_cache, Return, Go, Pc, AtStep, HasOpen
<1>4. CASE release_close(t)
  BY <1>1, <1>4 DEF release_close, Return, Go, Pc, AtStep, HasOpen, Closed
<1>5. ~cfs_rename(t) /\ ~cfs_link(t)
  BY <1>1 DEF cfs_rename, rename_cache, rename_nas, cfs_link, link_cache,
              link_nas, Pc, AtStep
<1>6. handles' = handles \/ open_cache(t) \/ release_close(t)
  <2>1. cfs_open(t) => handles' = handles \/ open_cache(t)
    BY DEF cfs_open, open_nas, open_present, open_presentAs, open_stat,
           open_statAs, open_date, open_dateAs, open_unlink, open_create,
           open_mknod, NoFile
  <2>2. cfs_read(t) => handles' = handles
    BY DEF cfs_read, read_check, read_checkAs, read_all, read_allAs, read_block,
           read_blockAs, read_done, NoFile
  <2>3. cfs_write(t) => handles' = handles
    BY DEF cfs_write, write_nas, write_nasAs, write_stat, write_statAs,
           write_read, write_readAs, NoFile
  <2>4. cfs_cacheWrite(t) => handles' = handles
    BY DEF cfs_cacheWrite, cache_wait, cache_record, cache_pwrite,
           cache_pwriteAs, NoFile, vars, cfsVars
  <2>5. cfs_unlink(t) \/ cfs_mknod(t) => handles' = handles
    BY DEF cfs_unlink, unlink_meta, unlink_cache, unlink_nas, NoFile, cfs_mknod
  <2>6. cfs_truncate(t) => handles' = handles
    BY DEF cfs_truncate, trunc_cache, trunc_nas
  <2>7. cfs_release(t) => handles' = handles \/ release_close(t)
    BY DEF cfs_release, release_dig
  <2>8. cfs_utime(t) => handles' = handles
    BY DEF cfs_utime, utime_cache, utime_nas
  <2>9. QED
    BY <1>5, <2>1, <2>2, <2>3, <2>4, <2>5, <2>6, <2>7, <2>8 DEF Daemon, cfsVars
<1>7. QED  BY <1>2, <1>3, <1>4, <1>6

---------------------------------------------------------------------------
(***************************************************************************)
(* The steps of SpecAlone, seen from the data: a callback goes on, the     *)
(* kernel starts one, another client writes a closed file, or nothing      *)
(* happens to the files and what is known of them.                         *)
(***************************************************************************)
AtStart(r) ==
  \/ r.op = "mknod"    /\ r.pc = "mknod"
  \/ r.op = "open"     /\ r.pc = "open_nas"
  \/ r.op = "read"     /\ r.pc = "read_check"
  \/ r.op = "write"    /\ r.pc = "write_nas"
  \/ r.op = "truncate" /\ r.pc = "trunc_cache"
  \/ r.op = "unlink"   /\ r.pc = "unlink_meta"
  \/ r.op = "utime"    /\ r.pc = "utime_cache"
  \/ r.op = "release"  /\ r.pc = "release_dig"

\* What SpecAlone asks for.
AsksFor(r) ==
  /\ AtStart(r) /\ r.path \in Paths
  /\ UsesHandle(r) => r.h \in Handles /\ handles[r.h].path = r.path
  /\ r.op \in {"read", "write"} => UsesHandle(r)
  /\ r.op \in {"mknod", "unlink", "utime"} => r.h = NoHandle
  /\ r.op \in {"truncate", "utime"} => nas.dir[r.path] # NoInode

AsksAlone(r) ==
  /\ r.op \in {"write", "truncate", "utime"} => ~InodeLocked(r.path)
  /\ r.op \in {"read", "write"} => PagesFree(r.path, r.off, r.len)
  /\ r.op \in {"truncate", "utime"} => UpToDate(r.path) \/ OpenOf(r.path) # {}

AsksData(r) ==
  /\ r.op \in {"read", "write"} => r.todo = RequestBlocks(r)
  /\ r.op = "read" =>
       /\ \E lo \in Nat, n \in Nat \ {0} : r.off = BS * lo /\ r.len = BS * n
       /\ r.hits = {} /\ r.buf = <<>> /\ r.count = 0
  /\ r.op = "write" =>
       /\ r.off \in 0 .. MaxSize - 1 /\ r.len \in 1 .. PageSize
       /\ r.off + r.len <= MaxSize
       /\ Cardinality(PagesOf(r.off, r.len)) = 1
       /\ r.off <= Len(DataOf(nas, r.path))
  /\ r.op = "truncate" => r.len < Len(DataOf(nas, r.path))

Asks(r) == AsksFor(r) /\ AsksAlone(r) /\ AsksData(r)

\* A handle that is open is that of a file.
LEMMA OpenFile ==
  ASSUME PathInv, NEW h \in Opened
  PROVE  LET p == handles[h].path
         IN /\ h \in Handles /\ p \in Paths
            /\ nas.dir[p] = handles[h].nas /\ nas.dir[p] # NoInode
            /\ OpenOf(p) # {}
  BY DEF Opened, PathInv, HandleInv, Current, OpenOf

\* What a program with its file for itself asks is fit to be asked.
LEMMA AloneAsks ==
  ASSUME PathInv, NEW t \in Threads,
         \/ MknodAny(t) \/ OpenAlone(t) \/ ReadAny(t) \/ WriteDense(t)
         \/ ReleaseAny(t) \/ ShrinkOpen(t) \/ UnlinkAny(t)
         \/ /\ \A p \in Paths : UpToDate(p)
            /\ ShrinkPath(t) \/ UtimeAny(t)
  PROVE  \E r : Issue(t, r) /\ Asks(r)
<1>1. CASE MknodAny(t)
  <2>1. PICK p \in Paths :
          Issue(t, [NoReq EXCEPT !.op = "mknod", !.pc = "mknod", !.path = p])
    BY <1>1 DEF MknodAny, StartMknod
  <2> DEFINE r == [NoReq EXCEPT !.op = "mknod", !.pc = "mknod", !.path = p]
  <2>2. r.op = "mknod" /\ r.pc = "mknod" /\ r.path = p /\ r.h = NoHandle
    BY DEF NoReq
  <2> HIDE DEF r
  <2>3. Asks(r)
    BY <2>2 DEF Asks, AsksFor, AsksAlone, AsksData, AtStart, UsesHandle
  <2>4. QED  BY <2>1, <2>3 DEF r
<1>2. CASE OpenAlone(t)
  <2>1. PICK p \in Paths, h \in Handles :
          Issue(t, [NoReq EXCEPT !.op = "open", !.pc = "open_nas", !.path = p,
                                 !.h = h])
    BY <1>2 DEF OpenAlone, StartOpen
  <2> DEFINE r == [NoReq EXCEPT !.op = "open", !.pc = "open_nas", !.path = p,
                                !.h = h]
  <2>2. r.op = "open" /\ r.pc = "open_nas" /\ r.path = p
    BY DEF NoReq
  <2> HIDE DEF r
  <2>3. Asks(r)
    BY <2>2 DEF Asks, AsksFor, AsksAlone, AsksData, AtStart, UsesHandle
  <2>4. QED  BY <2>1, <2>3 DEF r
<1>3. CASE ReadAny(t)
  <2>1. PICK h \in Opened : \E lo \in Blocks, n \in 1 .. Cardinality(Blocks) :
               StartRead(t, h, BS * lo, BS * n)
    BY <1>3 DEF ReadAny
  <2>2. PICK lo \in Blocks, n \in 1 .. Cardinality(Blocks) :
               StartRead(t, h, BS * lo, BS * n)
    BY <2>1
  <2>3. lo \in Nat /\ n \in Nat \ {0}
    BY MetaAssumption
  <2> DEFINE off == BS * lo
             len == BS * n
             w == [NoReq EXCEPT !.op = "read", !.pc = "read_check",
                    !.path = handles[h].path, !.h = h, !.off = off, !.len = len]
             r == [w EXCEPT !.todo = RequestBlocks(w)]
  <2>4. Issue(t, r) /\ PagesFree(handles[h].path, off, len)
    BY <2>2 DEF StartRead
  <2> HIDE DEF off, len
  <2>5. /\ r.op = "read" /\ r.pc = "read_check" /\ r.path = handles[h].path
        /\ r.h = h /\ r.off = off /\ r.len = len /\ r.todo = RequestBlocks(w)
        /\ r.hits = {} /\ r.buf = <<>> /\ r.count = 0
        /\ w.off = off /\ w.len = len
    BY DEF NoReq
  <2> HIDE DEF r, w
  <2>6. r.todo = RequestBlocks(r)
    BY <2>5 DEF RequestBlocks
  <2>7. AsksFor(r) /\ AsksAlone(r)
    BY <2>4, <2>5, OpenFile DEF AsksFor, AsksAlone, AtStart, UsesHandle
  <2>8. AsksData(r)
    BY <2>3, <2>5, <2>6 DEF AsksData, off, len
  <2>9. QED  BY <2>4, <2>7, <2>8 DEF Asks
<1>4. CASE WriteDense(t)
  <2>1. PICK h \in Opened, off \in 0 .. MaxSize - 1, len \in 1 .. PageSize,
             v \in Values :
          off <= Len(nas.data[handles[h].nas]) /\ StartWrite(t, h, off, len, v)
    BY <1>4 DEF WriteDense
  <2> DEFINE w == [NoReq EXCEPT !.op = "write", !.pc = "write_nas",
                    !.path = handles[h].path, !.h = h, !.off = off,
                    !.len = len, !.val = v]
             r == [w EXCEPT !.todo = RequestBlocks(w)]
  <2>2. /\ Issue(t, r) /\ PagesFree(handles[h].path, off, len)
        /\ ~InodeLocked(handles[h].path) /\ off + len <= MaxSize
        /\ Cardinality(PagesOf(off, len)) = 1
    BY <2>1 DEF StartWrite
  <2>3. /\ r.op = "write" /\ r.pc = "write_nas" /\ r.path = handles[h].path
        /\ r.h = h /\ r.off = off /\ r.len = len /\ r.todo = RequestBlocks(w)
        /\ w.off = off /\ w.len = len
    BY DEF NoReq
  <2> HIDE DEF r, w
  <2>4. r.todo = RequestBlocks(r)
    BY <2>3 DEF RequestBlocks
  <2>5. AsksFor(r) /\ AsksAlone(r)
    BY <2>2, <2>3, OpenFile DEF AsksFor, AsksAlone, AtStart, UsesHandle
  <2>6. AsksData(r)
    BY <2>1, <2>2, <2>3, <2>4, OpenFile DEF AsksData, DataOf
  <2>7. QED  BY <2>2, <2>5, <2>6 DEF Asks
<1>5. CASE ReleaseAny(t)
  <2>1. PICK h \in Opened :
          Issue(t, [NoReq EXCEPT !.op = "release", !.pc = "release_dig",
                      !.path = handles[h].path, !.h = h])
    BY <1>5 DEF ReleaseAny, StartRelease
  <2> DEFINE r == [NoReq EXCEPT !.op = "release", !.pc = "release_dig",
                      !.path = handles[h].path, !.h = h]
  <2>2. /\ r.op = "release" /\ r.pc = "release_dig" /\ r.path = handles[h].path
        /\ r.h = h
    BY DEF NoReq
  <2> HIDE DEF r
  <2>3. Asks(r)
    BY <2>2, OpenFile
    DEF Asks, AsksFor, AsksAlone, AsksData, AtStart, UsesHandle
  <2>4. QED  BY <2>1, <2>3 DEF r
<1>6. ASSUME ShrinkOpen(t) \/ (ShrinkPath(t) /\ \A p \in Paths : UpToDate(p))
      PROVE  \E r : Issue(t, r) /\ Asks(r)
  <2>1. PICK p, h, len :
          /\ p \in Paths /\ nas.dir[p] # NoInode
          /\ UpToDate(p) \/ OpenOf(p) # {}
          /\ h # NoHandle => h \in Handles /\ handles[h].path = p
          /\ len < Len(nas.data[nas.dir[p]])
          /\ StartTruncate(t, p, h, len)
    <3>1. CASE ShrinkOpen(t)
      <4>1. PICK h \in Opened : \E len \in 0 .. Len(nas.data[handles[h].nas]) - 1 :
              StartTruncate(t, handles[h].path, h, len)
        BY <3>1 DEF ShrinkOpen
      <4>2. PICK len \in 0 .. Len(nas.data[handles[h].nas]) - 1 :
              StartTruncate(t, handles[h].path, h, len)
        BY <4>1
      <4>3. len < Len(nas.data[handles[h].nas])
        BY <4>2
      <4>4. QED  BY <4>2, <4>3, OpenFile
    <3>2. CASE ShrinkPath(t) /\ \A p \in Paths : UpToDate(p)
      <4>1. PICK p \in Paths :
              /\ nas.dir[p] # NoInode
              /\ \E len \in 0 .. Len(nas.data[nas.dir[p]]) - 1 :
                   StartTruncate(t, p, NoHandle, len)
        BY <3>2 DEF ShrinkPath
      <4>2. PICK len \in 0 .. Len(nas.data[nas.dir[p]]) - 1 :
                   StartTruncate(t, p, NoHandle, len)
        BY <4>1
      <4>3. len < Len(nas.data[nas.dir[p]])
        BY <4>2
      <4>4. QED  BY <3>2, <4>1, <4>2, <4>3
    <3>3. QED  BY <1>6, <3>1, <3>2
  <2>2. ~InodeLocked(p) /\
        Issue(t, [NoReq EXCEPT !.op = "truncate", !.pc = "trunc_cache",
                               !.path = p, !.h = h, !.len = len])
    BY <2>1 DEF StartTruncate
  <2> DEFINE r == [NoReq EXCEPT !.op = "truncate", !.pc = "trunc_cache",
                                !.path = p, !.h = h, !.len = len]
  <2>3. /\ r.op = "truncate" /\ r.pc = "trunc_cache" /\ r.path = p /\ r.h = h
        /\ r.len = len
    BY DEF NoReq
  <2> HIDE DEF r
  <2>4. Asks(r)
    BY <2>1, <2>2, <2>3
    DEF Asks, AsksFor, AsksAlone, AsksData, AtStart, UsesHandle, DataOf
  <2>5. QED  BY <2>2, <2>4 DEF r
<1>7. CASE UnlinkAny(t)
  <2>1. PICK p \in Paths :
          Issue(t, [NoReq EXCEPT !.op = "unlink", !.pc = "unlink_meta",
                                 !.path = p])
    BY <1>7 DEF UnlinkAny, StartUnlink
  <2> DEFINE r == [NoReq EXCEPT !.op = "unlink", !.pc = "unlink_meta", !.path = p]
  <2>2. r.op = "unlink" /\ r.pc = "unlink_meta" /\ r.path = p /\ r.h = NoHandle
    BY DEF NoReq
  <2> HIDE DEF r
  <2>3. Asks(r)
    BY <2>2 DEF Asks, AsksFor, AsksAlone, AsksData, AtStart, UsesHandle
  <2>4. QED  BY <2>1, <2>3 DEF r
<1>8. CASE UtimeAny(t) /\ \A p \in Paths : UpToDate(p)
  <2>1. PICK p \in Paths, time \in 0 .. MaxTime :
          /\ nas.dir[p] # NoInode /\ ~InodeLocked(p)
          /\ Issue(t, [NoReq EXCEPT !.op = "utime", !.pc = "utime_cache",
                                    !.path = p, !.num = time])
    BY <1>8 DEF UtimeAny, StartUtime
  <2> DEFINE r == [NoReq EXCEPT !.op = "utime", !.pc = "utime_cache", !.path = p,
                                !.num = time]
  <2>2. r.op = "utime" /\ r.pc = "utime_cache" /\ r.path = p /\ r.h = NoHandle
    BY DEF NoReq
  <2> HIDE DEF r
  <2>3. Asks(r)
    BY <1>8, <2>1, <2>2
    DEF Asks, AsksFor, AsksAlone, AsksData, AtStart, UsesHandle
  <2>4. QED  BY <2>1, <2>3 DEF r
<1>9. QED
  BY <1>1, <1>2, <1>3, <1>4, <1>5, <1>6, <1>7, <1>8

\* A write by another client is of one file.
LEMMA RemoteView ==
  ASSUME FileInv, NamesInv, RemoteLater
  PROVE  \E p \in Paths :
           /\ Unused(p) /\ Later(p) /\ nas.dir[p] # NoInode
           /\ nas'.dir = nas.dir /\ OnlyFile(nas, nas', p)
           /\ TimeOf(nas', p) = clock
           /\ UNCHANGED <<cache, handles, req, metaVars>>
<1>1. PICK p \in Paths : Later(p) /\ RemoteAny(p)
  BY DEF RemoteLater
<1>2. PICK off, v : RemoteWrite(p, off, v, clock)
  BY <1>1 DEF RemoteAny
<1> DEFINE new == Pwrite(nas, nas.dir[p], off, <<v>>, clock)
<1>3. nas' = new /\ UNCHANGED <<cache, handles, req, metaVars>>
  BY <1>2 DEF RemoteWrite, NoSQL
<1>4. FileSystem(nas, Paths, NasBytes) /\ OneName(nas.dir)
  BY DEF FileInv, DirsInv, NamesInv
<1>5. nas.dir[p] # NoInode /\ nas.dir[p] \in Inodes /\ Unused(p)
  BY <1>1, <1>4 DEF RemoteAny, FileSystem
<1>6. new.dir = nas.dir /\ OnlyFile(nas, new, p) /\ TimeOf(new, p) = clock
  BY <1>4, <1>5, CallsLocal
<1> HIDE DEF new
<1>7. QED  BY <1>1, <1>3, <1>5, <1>6

\* Nothing happens to a file, nor to what is known of it.
Quiet ==
  /\ UNCHANGED <<nas, cache, handles, files, blocks>>
  /\ \A t \in Threads :
       /\ req'[t] = req[t] \/ (req'[t] = NoReq /\ req[t].op = "none")
       /\ call'[t] = call[t] \/ (call'[t] = NoCall /\ req'[t] = NoReq)

\* The steps of SpecAlone: a callback goes on, a request is issued, the NAS
\* changes behind a closed file, or nothing happens to a file.
LEMMA AloneCases ==
  ASSUME FileInv, PathInv, [NextAlone]_vars
  PROVE  \/ \E t \in Threads : Daemon(t)
         \/ \E t \in Threads : \E r : Issue(t, r) /\ Asks(r)
         \/ RemoteLater
         \/ Quiet
<1>1. CASE UNCHANGED vars \/ Tick
  BY <1>1 DEF vars, cfsVars, metaVars, Tick, NoSQL, Quiet
<1>2. CASE Remount
  <2>1. /\ \A t \in Threads : req[t].op = "none"
        /\ \A h \in Handles : handles[h] = Closed
    BY <1>2 DEF Remount, Pc, PathInv, PathReqs, Shape, AtStep, Opened
  <2>2. handles' = handles
    <3>1. handles = [h \in Handles |-> handles[h]]
      BY DEF FileInv, CallbackInv, HandlesInv
    <3>2. handles' = [h \in Handles |-> Closed]
      BY <1>2 DEF Remount, Crash
    <3>3. QED  BY <2>1, <3>1, <3>2
  <2>3. /\ \A t \in Threads : req'[t] = NoReq /\ call'[t] = NoCall
        /\ UNCHANGED <<nas, cache, files, blocks>>
    BY <1>2 DEF Remount, Crash, init_cache_used_size
  <2>4. QED  BY <2>1, <2>2, <2>3 DEF Quiet
<1>3. CASE \E t \in Threads :
             \/ Daemon(t) \/ MknodAny(t) \/ OpenAlone(t) \/ ReadAny(t)
             \/ WriteDense(t) \/ ReleaseAny(t) \/ ShrinkOpen(t) \/ UnlinkAny(t)
             \/ /\ \A p \in Paths : UpToDate(p)
                /\ ShrinkPath(t) \/ UtimeAny(t)
  BY <1>3, AloneAsks
<1>4. QED
  BY <1>1, <1>2, <1>3 DEF NextAlone, Program

---------------------------------------------------------------------------
(***************************************************************************)
(* Who may work on one file at a time: the inode lock keeps a write, a     *)
(* truncation and a change of the times apart, and requests that run       *)
(* together are of different pages.                                        *)
(***************************************************************************)
Apart(r, q) ==
  r.path = q.path =>
    /\ ~ (/\ r.op \in {"write", "truncate", "utime"}
          /\ q.op \in {"write", "truncate", "utime"})
    /\ r.op \in {"read", "write"} /\ q.op \in {"read", "write"} =>
         PagesOf(r.off, r.len) \cap PagesOf(q.off, q.len) = {}

ApartInv == \A t, u \in Threads : t # u => Apart(req[t], req[u])

ShareInv == UsersInv /\ NamesInv /\ ApartInv

\* The steps of a callback keep the programs apart.
LEMMA DaemonShares ==
  ASSUME FileInv, PathInv, PathInv', ShareInv, NEW t \in Threads, Daemon(t)
  PROVE  ShareInv'
<1>1. Moved(t)
  BY DaemonMoves DEF FileInv
<1>2. \A u \in Threads :
        \/ req'[u].op = "none"
        \/ /\ req'[u].op = req[u].op /\ req'[u].path = req[u].path
           /\ req'[u].h = req[u].h /\ req'[u].off = req[u].off
           /\ req'[u].len = req[u].len
  BY <1>1, IdleShape DEF Moved, Kept
<1>3. ApartInv'
  <2>1. ASSUME NEW a \in Threads, NEW u \in Threads, a # u
        PROVE  Apart(req'[a], req'[u])
    BY <1>2, <2>1 DEF ShareInv, ApartInv, Apart
  <2>2. QED  BY <2>1 DEF ApartInv
<1>4. NamesInv'
  BY NasView, CacheView DEF NamesInv, ShareInv
<1>5. ASSUME NEW u \in Threads, UsesHandle(req'[u])
      PROVE  fh(u)'.path = req'[u].path
  <2>1. /\ UsesHandle(req[u]) /\ fh(u).path = req[u].path
        /\ req'[u].path = req[u].path /\ req'[u].h = req[u].h
    BY <1>2, <1>5 DEF UsesHandle, ShareInv, UsersInv
  <2>2. req[u].h \in Handles
    BY <2>1, Descriptors DEF ShareInv
  <2>3. handles'[req[u].h] = handles[req[u].h]
    <3>1. CASE u = t
      BY <1>5, <2>2, <3>1, HandleView, IdleShape DEF UsesHandle
    <3>2. CASE u # t
      <4>1. req[t].op \in {"open", "release"} => req[u].h # req[t].h
        BY <3>2 DEF FileInv, RequestsInv, OwnsInv
      <4>2. QED  BY <2>2, <4>1, HandleView
    <3>3. QED  BY <3>1, <3>2
  <2>4. QED  BY <2>1, <2>3 DEF fh
<1>6. ASSUME NEW u \in Threads, req'[u].op \in {"truncate", "utime"}
      PROVE  nas'.dir[req'[u].path] # NoInode
  <2>1. /\ req'[u].path = req[u].path /\ nas.dir[req[u].path] # NoInode
        /\ req[u].op = req'[u].op
    BY <1>2, <1>6 DEF ShareInv, UsersInv
  <2>2. req[u].path \in Paths /\ DOMAIN nas.dir = Paths
    BY <1>6, <2>1 DEF PathInv, PathReqs, Shape, DirInv
  <2>3. CASE req[u].path # req[t].path
    BY <2>1, <2>2, <2>3, NasView DEF OnlyFile, SameFile, ShareInv
  <2>4. CASE req[u].path = req[t].path
    <3>1. req[t].op # "unlink"
      BY <1>6, <2>1, <2>4 DEF PathInv, LockInv
    <3>2. QED  BY <2>1, <2>4, <3>1, NasView DEF ShareInv
  <2>5. QED  BY <2>3, <2>4
<1>7. UsersInv'
  BY <1>5, <1>6 DEF UsersInv
<1>8. QED  BY <1>3, <1>4, <1>7 DEF ShareInv

\* ShareInv is inductive.
LEMMA ShareInductive ==
  /\ Init => ShareInv
  /\ FileInv /\ PathInv /\ PathInv' /\ ShareInv /\ [NextAlone]_vars => ShareInv'
<1>1. ASSUME Init  PROVE ShareInv
  BY <1>1, IdleShape DEF Init, EmptyFS, ShareInv, UsersInv, UsesHandle,
     NamesInv, OneName, ApartInv, Apart
<1>2. ASSUME FileInv, PathInv, PathInv', ShareInv, [NextAlone]_vars
      PROVE  ShareInv'
  <2>1. ASSUME NEW t \in Threads, NEW r, Issue(t, r), Asks(r)
        PROVE  ShareInv'
    <3>1. /\ req'[t] = r /\ \A u \in Threads \ {t} : req'[u] = req[u]
          /\ UNCHANGED <<nas, cache, handles>>
      BY <1>2, <2>1 DEF Issue, Go, NoFile, PathInv, PathReqs
    <3>2. UsersInv'
      BY <1>2, <2>1, <3>1 DEF ShareInv, UsersInv, Asks, AsksFor, fh
    <3>3. \A u \in Threads \ {t} : Apart(r, req[u]) /\ Apart(req[u], r)
      BY <2>1 DEF Asks, AsksAlone, Apart, InodeLocked, PagesFree, ActiveIn, Active
    <3>4. ApartInv'
      BY <1>2, <3>1, <3>3 DEF ShareInv, ApartInv
    <3>5. QED  BY <1>2, <3>1, <3>2, <3>4 DEF ShareInv, NamesInv
  <2>2. CASE RemoteLater
    <3>1. nas'.dir = nas.dir /\ UNCHANGED <<cache, handles, req>>
      BY <1>2, <2>2, RemoteView DEF ShareInv
    <3>2. QED
      BY <1>2, <3>1 DEF ShareInv, UsersInv, NamesInv, ApartInv, fh
  <2>3. CASE Quiet
    <3>1. \A t \in Threads : req'[t] = req[t] \/ req'[t].op = "none"
      BY <2>3, IdleShape DEF Quiet
    <3>2. UNCHANGED <<nas, cache, handles>>
      BY <2>3 DEF Quiet
    <3>3. ApartInv'
      BY <1>2, <3>1 DEF ShareInv, ApartInv, Apart
    <3>4. UsersInv'
      BY <1>2, <3>1, <3>2 DEF ShareInv, UsersInv, UsesHandle, fh
    <3>5. QED  BY <1>2, <3>2, <3>3, <3>4 DEF ShareInv, NamesInv
  <2>4. QED
    BY <1>2, <2>1, <2>2, <2>3, AloneCases, DaemonShares
<1>3. QED  BY <1>1, <1>2

---------------------------------------------------------------------------
(***************************************************************************)
(* What the rows say of a file while a callback works on it.               *)
(***************************************************************************)
NoRows(f) == \A b \in Blocks : <<f, b>> \notin blocks

\* The call of meta.c a callback is in: cfs_cacheWrite records the blocks it is
\* about to write, cfs_open and cfs_unlink delete the file, which no INSERT of
\* another thread brings back meanwhile.
FrameOf(t) ==
  LET c == call[t]
  IN \/ c = NoCall
     \/ /\ c.op = "write_blks" /\ req[t].pc = "cache_pwrite" /\ c.name = name(t)
        /\ c.step \in {"check", "insert", "local", "load", "store"}
        /\ c.todo \cup c.miss \subseteq WriteBlocks(t)
        /\ c.step # "check" => c.miss = {}
     \/ /\ c.op = "delete_file" /\ req[t].pc \in {"open_unlink", "unlink_cache"}
        /\ c.name = name(t)
        /\ c.step \in {"select", "load", "store", "again", "delete"}
        /\ c.step \in {"load", "store"} /\ ~c.found => name(t) \notin files
        /\ c.step = "again" => name(t) \notin files

\* When write_blks is through, every block of the request is recorded.
Recorded(t) ==
  req[t].pc = "cache_pwrite" =>
    \A b \in WriteBlocks(t) :
      <<name(t), b>> \in blocks \/ b \in call[t].todo \cup call[t].miss

\* cfs_open knows whether the file is recorded; a new cache file is made for a
\* file without rows, and cfs_unlink leaves none.
Listed(t) ==
  LET r == req[t]
  IN /\ r.pc \in {"open_create", "unlink_nas"} => name(t) \notin files
     /\ r.pc \in {"open_unlink", "unlink_cache"} /\ call[t].step = "idle" =>
          name(t) \notin files
     /\ r.pc = "open_stat" => (r.present <=> name(t) \in files)
     /\ r.pc \in {"open_date", "open_mknod", "open_cache"} => name(t) \in files
     /\ r.pc = "open_mknod" => NoRows(name(t))

RowsOK(t) == FrameOf(t) /\ Recorded(t) /\ Listed(t)

\* The file of an open handle is recorded.
OpenListed == \A h \in Opened : pathToFileName(handles[h].path) \in files

RowsInv == (\A t \in Threads : RowsOK(t)) /\ OpenListed

SharedInv == FileInv /\ PathInv /\ ShareInv

\* An open and an unlink have the rows of their file to themselves.
LEMMA Exclusive ==
  ASSUME SharedInv, NoCollision, NEW t \in Threads, req[t].op \in {"open", "unlink"}
  PROVE  /\ \A u \in Threads \ {t} :
              req[u].op \in {"open", "unlink", "read", "write"} => name(u) # name(t)
         /\ \A h \in Opened : pathToFileName(handles[h].path) # name(t)
<1>1. req[t].path \in Paths
  BY DEF SharedInv, PathInv, PathReqs, Shape
<1>2. ASSUME NEW h \in Opened
      PROVE  pathToFileName(handles[h].path) # name(t)
  <2>1. handles[h].path # req[t].path
    BY DEF SharedInv, PathInv, LockInv, Opened
  <2>2. handles[h].path \in Paths
    BY OpenedPath DEF SharedInv
  <2>3. QED  BY <1>1, <2>1, <2>2 DEF NoCollision, name
<1>3. ASSUME NEW u \in Threads \ {t},
             req[u].op \in {"open", "unlink", "read", "write"}
      PROVE  name(u) # name(t)
  <2>1. req[u].path \in Paths
    BY <1>3 DEF SharedInv, PathInv, PathReqs, Shape
  <2>2. CASE req[u].op \in {"open", "unlink"}
    <3>1. req[u].path # req[t].path
      BY <2>2 DEF SharedInv, PathInv, LockInv
    <3>2. QED  BY <1>1, <2>1, <3>1 DEF NoCollision, name
  <2>3. CASE req[u].op \in {"read", "write"}
    <3>1. req[u].h \in Opened /\ handles[req[u].h].path = req[u].path
      BY <2>3 DEF SharedInv, FileInv, RequestsInv, HasOpen, Opened, fh, ShareInv,
                  UsersInv, UsesHandle
    <3>2. QED  BY <1>2, <3>1 DEF name
  <2>4. QED  BY <1>3, <2>2, <2>3
<1>4. QED  BY <1>2, <1>3

\* What thread t may do to the tables without a thread u noticing.
TablesFor(t) ==
  \/ files' = files /\ blocks' = blocks
  \/ /\ req[t].op \in {"open", "unlink"}
     /\ \A f : f # name(t) => /\ f \in files' <=> f \in files
                              /\ \A b : <<f, b>> \in blocks' <=> <<f, b>> \in blocks
  \/ /\ req[t].op \in {"read", "write"} /\ files' = files
     /\ \A f, b : /\ <<f, b>> \in blocks => <<f, b>> \in blocks'
                  /\ <<f, b>> \in blocks' => <<f, b>> \in blocks \/ f = name(t)

\* What a callback does to the tables leaves the other callbacks their rows.
LEMMA OtherRows ==
  ASSUME SharedInv, NoCollision, NEW t \in Threads, TablesFor(t),
         NEW u \in Threads \ {t}, RowsOK(u), req'[u] = req[u], call'[u] = call[u]
  PROVE  RowsOK(u)'
<1>1. /\ name(u)' = name(u) /\ WriteBlocks(u)' = WriteBlocks(u)
      /\ AtStep(req[u])
  BY DEF name, WriteBlocks, BlockInHand, SharedInv, PathInv, PathReqs, Shape
<1>2. CASE files' = files /\ blocks' = blocks
  BY <1>1, <1>2 DEF RowsOK, FrameOf, Recorded, Listed, NoRows
<1>3. CASE req[t].op \in {"open", "unlink"} /\ ~ (files' = files /\ blocks' = blocks)
  <2>1. req[u].op \in {"open", "unlink", "read", "write"} =>
          /\ name(u) \in files' <=> name(u) \in files
          /\ \A b : <<name(u), b>> \in blocks' <=> <<name(u), b>> \in blocks
    BY <1>3, Exclusive DEF TablesFor
  <2>2. FrameOf(u)'
    BY <1>1, <2>1 DEF RowsOK, FrameOf, AtStep
  <2>3. Recorded(u)'
    BY <1>1, <2>1 DEF RowsOK, Recorded, AtStep
  <2>4. Listed(u)'
    BY <1>1, <2>1 DEF RowsOK, Listed, AtStep, NoRows
  <2>5. QED  BY <2>2, <2>3, <2>4 DEF RowsOK
<1>4. CASE req[t].op \in {"read", "write"} /\ ~ (files' = files /\ blocks' = blocks)
  <2>1. /\ files' = files
        /\ \A b : <<name(u), b>> \in blocks => <<name(u), b>> \in blocks'
        /\ req[u].op = "open" =>
             \A b : <<name(u), b>> \in blocks' <=> <<name(u), b>> \in blocks
    BY <1>4, Exclusive DEF TablesFor
  <2>2. FrameOf(u)'
    BY <1>1, <2>1 DEF RowsOK, FrameOf
  <2>3. Recorded(u)'
    BY <1>1, <2>1 DEF RowsOK, Recorded
  <2>4. Listed(u)'
    BY <1>1, <2>1 DEF RowsOK, Listed, AtStep, NoRows
  <2>5. QED  BY <2>2, <2>3, <2>4 DEF RowsOK
<1>5. QED  BY <1>2, <1>3, <1>4 DEF TablesFor

\* ... and the open files theirs.
LEMMA OtherHandles ==
  ASSUME SharedInv, NoCollision, OpenListed, NEW t \in Threads, TablesFor(t),
         UNCHANGED handles
  PROVE  OpenListed'
<1>1. Opened' = Opened
  BY DEF Opened
<1>2. \A h \in Opened : pathToFileName(handles[h].path) \in files'
  BY Exclusive DEF TablesFor, OpenListed
<1>3. QED  BY <1>1, <1>2 DEF OpenListed

\* The blocks write_blks still has to look at or to insert.
Left(c) == c.todo \cup c.miss

\* A frame of write_blks for blocks B of f, or the return from it.
WriteFrame(d, f, B) ==
  \/ d = NoCall
  \/ /\ d.op = "write_blks" /\ d.name = f
     /\ d.step \in {"check", "insert", "local", "load", "store"}
     /\ Left(d) \subseteq B
     /\ d.step # "check" => d.miss = {}

\* From one block write_blks goes on to the next.
LEMMA NextLeft ==
  ASSUME NEW d \in Frame, NEW B, d.op = "write_blks", d.miss = {}, d.todo \subseteq B
  PROVE  WriteFrame(NextBlock(d), d.name, B) /\ Left(NextBlock(d)) = d.todo
<1>1. CASE d.todo = {}
  <2>1. NextBlock(d) = NoCall
    BY <1>1 DEF NextBlock
  <2>2. Left(NoCall) = {}
    BY DEF NoCall, Fresh, Left
  <2>3. QED  BY <1>1, <2>1, <2>2 DEF WriteFrame
<1>2. CASE d.todo # {}
  <2> DEFINE e == [d EXCEPT !.step = "insert", !.amt = 0, !.reg = 0]
  <2>1. NextBlock(d) = e
    BY <1>2 DEF NextBlock
  <2>2. /\ e.op = d.op /\ e.name = d.name /\ e.todo = d.todo /\ e.miss = d.miss
        /\ e.step = "insert"
    BY DEF Frame
  <2> HIDE DEF e
  <2>3. Left(e) = d.todo
    BY <2>2 DEF Left
  <2>4. WriteFrame(e, d.name, B)
    BY <2>2, <2>3 DEF WriteFrame
  <2>5. QED  BY <2>1, <2>3, <2>4
<1>3. QED  BY <1>1, <1>2

\* A step of meta.c by thread t.
LEMMA StatementRows ==
  ASSUME SharedInv, TypeOK, RowsInv, NEW t \in Threads, MetaStep(t),
         UNCHANGED cfsVars
  PROVE  /\ RowsOK(t)' /\ TablesFor(t)
         /\ \A u \in Threads \ {t} : call'[u] = call[u]
<1> DEFINE c == call[t]
<1>1. /\ c \in Frame /\ DOMAIN call = Threads
      /\ FrameOf(t) /\ Recorded(t) /\ Listed(t) /\ AtStep(req[t])
  BY DEF TypeOK, RowsInv, RowsOK, SharedInv, PathInv, PathReqs, Shape
<1>2. /\ name(t)' = name(t) /\ WriteBlocks(t)' = WriteBlocks(t)
      /\ req' = req /\ handles' = handles
  BY DEF cfsVars, name, WriteBlocks, BlockInHand
<1>3. \A u \in Threads \ {t} : call'[u] = call[u]
  <2>1. CASE is_blk_in_cache(t) \/ InsertRow(t)
    BY <1>1, <2>1 DEF is_blk_in_cache, InsertRow
  <2>2. CASE DeleteBlockRow(t) \/ UpdateLocalSize(t)
    BY <1>1, <2>2 DEF DeleteBlockRow, UpdateLocalSize
  <2>3. CASE SelectSize(t) \/ LoadUsed(t) \/ StoreUsed(t)
    BY <1>1, <2>3 DEF SelectSize, LoadUsed, StoreUsed
  <2>4. CASE SelectAgain(t) \/ DeleteFileRow(t)
    BY <1>1, <2>4 DEF SelectAgain, DeleteFileRow
  <2>5. QED  BY <2>1, <2>2, <2>3, <2>4 DEF MetaStep
<1>4. c # NoCall
  <2>1. c.step # "idle"
    <3>1. CASE is_blk_in_cache(t) \/ InsertRow(t) \/ DeleteBlockRow(t)
      BY <3>1 DEF is_blk_in_cache, InsertRow, DeleteBlockRow, At
    <3>2. CASE UpdateLocalSize(t) \/ SelectSize(t) \/ LoadUsed(t)
      BY <3>2 DEF UpdateLocalSize, SelectSize, LoadUsed, At
    <3>3. CASE StoreUsed(t) \/ SelectAgain(t) \/ DeleteFileRow(t)
      BY <3>3 DEF StoreUsed, SelectAgain, DeleteFileRow, At
    <3>4. QED  BY <3>1, <3>2, <3>3 DEF MetaStep
  <2>2. QED  BY <2>1 DEF NoCall, Fresh
<1>5. NoCall.step = "idle" /\ NoCall.op = "none" /\ Left(NoCall) = {}
  BY DEF NoCall, Fresh, Left
\* cfs_cacheWrite records its blocks.
<1>6. CASE c.op = "write_blks"
  <2>1. /\ req[t].pc = "cache_pwrite" /\ c.name = name(t)
        /\ req[t].op \in {"read", "write"}
        /\ c.step \in {"check", "insert", "local", "load", "store"}
        /\ Left(c) \subseteq WriteBlocks(t)
        /\ c.step # "check" => c.miss = {}
        /\ \A b \in WriteBlocks(t) : <<name(t), b>> \in blocks \/ b \in Left(c)
    BY <1>1, <1>4, <1>6 DEF FrameOf, Recorded, AtStep, Left
  <2>2. Listed(t)'
    BY <1>2, <2>1 DEF Listed
  <2> DEFINE Next1(d) == WriteFrame(d, name(t), Left(c))
  <2>3. ASSUME TablesFor(t), Next1(call'[t]),
               \A b \in Left(c) : <<name(t), b>> \in blocks' \/ b \in Left(call'[t])
        PROVE  RowsOK(t)'
    <3>1. \A b : <<name(t), b>> \in blocks => <<name(t), b>> \in blocks'
      BY <2>1, <2>3 DEF TablesFor
    <3>2. Recorded(t)'
      BY <1>2, <2>1, <2>3, <3>1 DEF Recorded, Left
    <3>3. FrameOf(t)'
      <4>1. CASE call'[t] = NoCall
        BY <4>1 DEF FrameOf
      <4>2. CASE call'[t] # NoCall
        <5>1. /\ call'[t].op = "write_blks" /\ call'[t].name = name(t)
              /\ call'[t].step \in {"check", "insert", "local", "load", "store"}
              /\ call'[t].todo \cup call'[t].miss \subseteq WriteBlocks(t)
              /\ call'[t].step # "check" => call'[t].miss = {}
          BY <2>1, <2>3, <4>2 DEF WriteFrame, Left
        <5>2. QED  BY <1>2, <2>1, <5>1 DEF FrameOf
      <4>3. QED  BY <4>1, <4>2
    <3>4. QED  BY <2>2, <3>2, <3>3 DEF RowsOK
  <2>4. \A d : d \in Frame /\ d.op = "write_blks" /\ d.name = name(t)
               /\ d.miss = {} /\ d.todo \subseteq Left(c)
               => Next1(NextBlock(d)) /\ Left(NextBlock(d)) = d.todo
    BY NextLeft
  <2>5. CASE c.step = "check"
    <3>1. is_blk_in_cache(t)
      BY <2>5 DEF MetaStep, is_blk_in_cache, InsertRow, DeleteBlockRow,
         UpdateLocalSize, SelectSize, LoadUsed, StoreUsed, SelectAgain,
         DeleteFileRow, At
    <3>2. PICK b \in c.todo :
            LET rest == c.todo \ {b}
                miss == IF <<c.name, b>> \in blocks THEN c.miss
                        ELSE c.miss \cup {b}
            IN call' = [call EXCEPT ![t] =
                  IF rest # {} THEN [c EXCEPT !.todo = rest, !.miss = miss]
                  ELSE NextBlock([c EXCEPT !.todo = miss, !.miss = {}])]
      BY <3>1 DEF is_blk_in_cache
    <3> DEFINE rest == c.todo \ {b}
               miss == IF <<c.name, b>> \in blocks THEN c.miss ELSE c.miss \cup {b}
               d == [c EXCEPT !.todo = rest, !.miss = miss]
               e == [c EXCEPT !.todo = miss, !.miss = {}]
    <3>3. call'[t] = IF rest # {} THEN d ELSE NextBlock(e)
      BY <1>1, <3>2
    <3>4. /\ d.op = c.op /\ d.name = c.name /\ d.step = c.step
          /\ d.todo = rest /\ d.miss = miss
      BY <1>1 DEF Frame
    <3>5. /\ e \in Frame /\ e.op = c.op /\ e.name = c.name
          /\ e.todo = miss /\ e.miss = {}
      <4>1. miss \in SUBSET Blocks
        BY <1>1 DEF Frame
      <4> HIDE DEF miss
      <4>2. QED  BY <1>1, <4>1 DEF Frame
    <3> HIDE DEF d, e
    <3>6. Next1(NextBlock(e)) /\ Left(NextBlock(e)) = miss
      <4>1. miss \subseteq Left(c)
        BY DEF Left
      <4> HIDE DEF miss, Next1
      <4>2. QED  BY <1>6, <2>1, <2>4, <3>5, <4>1
    <3>7. Next1(d)
      BY <1>6, <2>1, <2>5, <3>4 DEF Left, WriteFrame
    <3>8. TablesFor(t) /\ blocks' = blocks
      BY <3>1 DEF is_blk_in_cache, TablesFor
    <3>9. \A x \in Left(c) : <<name(t), x>> \in blocks' \/ x \in Left(call'[t])
      BY <2>1, <3>3, <3>4, <3>6, <3>8 DEF Left
    <3>10. QED  BY <1>3, <2>3, <3>3, <3>6, <3>7, <3>8, <3>9
  <2>6. CASE c.step = "insert"
    <3>1. InsertRow(t)
      BY <2>6 DEF MetaStep, is_blk_in_cache, InsertRow, DeleteBlockRow,
         UpdateLocalSize, SelectSize, LoadUsed, StoreUsed, SelectAgain,
         DeleteFileRow, At
    <3>2. PICK b \in c.todo :
            LET d == [c EXCEPT !.todo = @ \ {b}]
            IN \/ /\ RowAllowed(d.name, b)
                  /\ blocks' = blocks \cup {<<d.name, b>>}
                  /\ call' = [call EXCEPT ![t] = [d EXCEPT !.step = "local",
                                                           !.amt = meta_block_size]]
               \/ /\ ~RowAllowed(d.name, b)
                  /\ call' = [call EXCEPT ![t] = NextBlock(d)]
                  /\ UNCHANGED blocks
      BY <3>1 DEF InsertRow
    <3> DEFINE d == [c EXCEPT !.todo = @ \ {b}]
               e == [d EXCEPT !.step = "local", !.amt = meta_block_size]
    <3>3. /\ d \in Frame /\ d.op = c.op /\ d.name = c.name
          /\ d.todo = c.todo \ {b} /\ d.miss = c.miss
      BY <1>1 DEF Frame
    <3>4. /\ e.op = c.op /\ e.name = c.name /\ e.step = "local"
          /\ e.todo = c.todo \ {b} /\ e.miss = c.miss
      BY <1>1 DEF Frame
    <3>5. files' = files
      BY <3>1 DEF InsertRow
    <3>6. \/ /\ blocks' = blocks \cup {<<name(t), b>>} /\ call'[t] = e
          \/ /\ ~RowAllowed(name(t), b) /\ call'[t] = NextBlock(d)
             /\ blocks' = blocks
      BY <1>1, <2>1, <3>2, <3>3
    <3> HIDE DEF d, e
    <3>7. TablesFor(t)
      BY <2>1, <3>5, <3>6 DEF TablesFor
    <3>8. name(t) \in files
      <4>1. req[t].h \in Opened /\ handles[req[t].h].path = req[t].path
        BY <2>1 DEF SharedInv, FileInv, RequestsInv, HasOpen, Opened, fh, ShareInv,
                    UsersInv, UsesHandle
      <4>2. QED  BY <4>1 DEF RowsInv, OpenListed, name
    <3>9. CASE call'[t] = e /\ blocks' = blocks \cup {<<name(t), b>>}
      <4>1. Next1(e)
        BY <1>6, <2>1, <2>6, <3>4 DEF Left, WriteFrame
      <4>2. \A x \in Left(c) : <<name(t), x>> \in blocks' \/ x \in Left(e)
        BY <3>4, <3>9 DEF Left
      <4>3. QED  BY <1>3, <2>3, <3>7, <3>9, <4>1, <4>2
    <3>10. CASE /\ ~RowAllowed(name(t), b) /\ call'[t] = NextBlock(d)
                /\ blocks' = blocks
      <4>1. <<name(t), b>> \in blocks
        BY <3>8, <3>10 DEF RowAllowed
      <4>2. d.miss = {} /\ d.todo \subseteq Left(c)
        <5>1. c.miss = {}
          BY <2>1, <2>6
        <5>2. QED  BY <3>3, <5>1 DEF Left
      <4>3. Next1(NextBlock(d)) /\ Left(NextBlock(d)) = c.todo \ {b}
        <5> HIDE DEF Next1
        <5>1. QED  BY <1>6, <2>1, <2>4, <3>3, <4>2
      <4>4. \A x \in Left(c) : <<name(t), x>> \in blocks' \/ x \in Left(NextBlock(d))
        <5>1. Left(c) = c.todo
          BY <2>1, <2>6 DEF Left
        <5> HIDE DEF Next1
        <5>2. QED  BY <3>10, <4>1, <4>3, <5>1
      <4>5. QED  BY <1>3, <2>3, <3>7, <3>10, <4>3, <4>4
    <3>11. QED  BY <3>6, <3>9, <3>10
  <2>7. CASE c.step = "store"
    <3>1. StoreUsed(t)
      BY <2>7 DEF MetaStep, is_blk_in_cache, InsertRow, DeleteBlockRow,
         UpdateLocalSize, SelectSize, LoadUsed, StoreUsed, SelectAgain,
         DeleteFileRow, At
    <3>2. /\ call'[t] = NextBlock(c) /\ files' = files /\ blocks' = blocks
      BY <1>1, <1>6, <3>1 DEF StoreUsed
    <3>3. c.miss = {} /\ c.todo \subseteq Left(c)
      <4>1. c.miss = {}
        BY <2>1, <2>7
      <4>2. QED  BY <4>1 DEF Left
    <3>4. Next1(NextBlock(c)) /\ Left(NextBlock(c)) = c.todo
      <4> HIDE DEF Next1
      <4>1. QED  BY <1>1, <1>6, <2>1, <2>4, <3>3
    <3>5. TablesFor(t)
      BY <3>2 DEF TablesFor
    <3>6. \A x \in Left(c) : x \in Left(call'[t])
      BY <3>2, <3>3, <3>4 DEF Left
    <3>7. QED  BY <1>3, <2>3, <3>2, <3>4, <3>5, <3>6
  <2>8. CASE c.step \in {"local", "load"}
    <3>1. UpdateLocalSize(t) \/ LoadUsed(t)
      BY <2>8 DEF MetaStep, is_blk_in_cache, InsertRow, DeleteBlockRow,
         UpdateLocalSize, SelectSize, LoadUsed, StoreUsed, SelectAgain,
         DeleteFileRow, At
    <3>2. /\ call'[t].op = c.op /\ call'[t].name = c.name
          /\ call'[t].todo = c.todo /\ call'[t].miss = c.miss
          /\ call'[t].step \in {"load", "store"}
          /\ files' = files /\ blocks' = blocks
      BY <1>1, <3>1 DEF UpdateLocalSize, LoadUsed, Frame
    <3>3. TablesFor(t) /\ Next1(call'[t]) /\ Left(call'[t]) = Left(c)
      <4>1. c.step # "check"
        BY <2>8
      <4>2. Left(call'[t]) = Left(c) /\ call'[t].miss = {}
        BY <2>1, <3>2, <4>1 DEF Left
      <4>3. QED  BY <1>6, <2>1, <3>2, <4>2 DEF TablesFor, WriteFrame
    <3>4. QED  BY <1>3, <2>3, <3>3
  <2>9. QED  BY <2>1, <2>5, <2>6, <2>7, <2>8
\* cfs_open or cfs_unlink deletes the file.
<1>7. CASE c.op = "delete_file"
  <2>1. /\ req[t].pc \in {"open_unlink", "unlink_cache"} /\ c.name = name(t)
        /\ req[t].op \in {"open", "unlink"}
        /\ c.step \in {"select", "load", "store", "again", "delete"}
        /\ c.step \in {"load", "store"} /\ ~c.found => name(t) \notin files
        /\ c.step = "again" => name(t) \notin files
    BY <1>1, <1>4, <1>7 DEF FrameOf, AtStep
  <2>2. Recorded(t)'
    BY <1>2, <2>1 DEF Recorded
  <2>3. CASE c.step = "delete"
    <3>1. DeleteFileRow(t)
      BY <2>3 DEF MetaStep, is_blk_in_cache, InsertRow, DeleteBlockRow,
         UpdateLocalSize, SelectSize, LoadUsed, StoreUsed, SelectAgain,
         DeleteFileRow, At
    <3>2. /\ call'[t] = NoCall /\ files' = files \ {name(t)}
          /\ blocks' = Surviving(name(t))
      BY <1>1, <2>1, <3>1 DEF DeleteFileRow
    <3>3. TablesFor(t)
      BY <2>1, <3>2 DEF TablesFor, Surviving
    <3>4. FrameOf(t)' /\ Listed(t)'
      BY <1>2, <2>1, <3>2 DEF FrameOf, Listed
    <3>5. QED  BY <1>3, <2>2, <3>3, <3>4 DEF RowsOK
  <2>4. CASE c.step # "delete"
    <3>1. SelectSize(t) \/ LoadUsed(t) \/ StoreUsed(t) \/ SelectAgain(t)
      BY <2>1, <2>4 DEF MetaStep, is_blk_in_cache, InsertRow, DeleteBlockRow,
         UpdateLocalSize, SelectSize, LoadUsed, StoreUsed, SelectAgain,
         DeleteFileRow, At
    <3>2. files' = files /\ blocks' = blocks /\ TablesFor(t)
      BY <3>1 DEF SelectSize, LoadUsed, StoreUsed, SelectAgain, TablesFor
    <3>3. /\ call'[t].op = c.op /\ call'[t].name = c.name
          /\ \/ /\ c.step = "select" /\ call'[t].step = "load"
                /\ call'[t].found <=> name(t) \in files
             \/ /\ c.step = "load" /\ call'[t].step = "store"
                /\ call'[t].found = c.found
             \/ /\ c.step = "store"
                /\ call'[t].step = IF c.found THEN "delete" ELSE "again"
             \/ /\ c.step = "again" /\ call'[t].step = "delete"
      <4>1. CASE SelectSize(t)
        BY <1>1, <2>1, <4>1 DEF SelectSize, Frame, At
      <4>2. CASE LoadUsed(t)
        BY <1>1, <4>2 DEF LoadUsed, Frame, At
      <4>3. CASE StoreUsed(t)
        BY <1>1, <1>7, <4>3 DEF StoreUsed, Frame, At
      <4>4. CASE SelectAgain(t)
        BY <1>1, <2>1, <4>4 DEF SelectAgain, Frame, At
      <4>5. QED  BY <3>1, <4>1, <4>2, <4>3, <4>4
    <3>4. FrameOf(t)'
      BY <1>2, <1>7, <2>1, <3>2, <3>3 DEF FrameOf
    <3>5. Listed(t)'
      BY <1>2, <2>1, <3>2, <3>3 DEF Listed
    <3>6. QED  BY <1>3, <2>2, <3>2, <3>4, <3>5 DEF RowsOK
  <2>5. QED  BY <2>3, <2>4
<1>8. QED  BY <1>1, <1>4, <1>6, <1>7 DEF FrameOf

\* A callback goes on when its call of meta.c has returned.
LEMMA CallReturned ==
  ASSUME RowsInv, NEW t \in Threads, Daemon(t),
         ~ (MetaStep(t) /\ UNCHANGED cfsVars)
  PROVE  call[t] = NoCall
<1> SUFFICES ASSUME call[t] # NoCall  PROVE FALSE
  OBVIOUS
<1>1. /\ req[t].pc \in {"cache_pwrite", "open_unlink", "unlink_cache"}
      /\ call[t].step # "idle"
  BY DEF RowsInv, RowsOK, FrameOf
<1>2. CASE cfs_open(t)
  BY <1>1, <1>2 DEF cfs_open, open_nas, open_present, open_presentAs, open_stat,
     open_statAs, open_date, open_dateAs, open_unlink, open_create, open_mknod,
     open_cache, Pc, Idle, At
<1>3. CASE cfs_read(t)
  BY <1>1, <1>3 DEF cfs_read, read_check, read_checkAs, read_all, read_allAs,
     read_block, read_blockAs, read_done, Pc
<1>4. CASE cfs_write(t) \/ cfs_cacheWrite(t)
  BY <1>1, <1>4 DEF cfs_write, write_nas, write_nasAs, write_stat, write_statAs,
     write_read, write_readAs, cfs_cacheWrite, cache_wait, cache_record,
     cache_pwrite, cache_pwriteAs, Pc, Idle, At
<1>5. CASE cfs_mknod(t) \/ cfs_unlink(t) \/ cfs_truncate(t) \/ cfs_release(t)
  BY <1>1, <1>5 DEF cfs_mknod, cfs_unlink, unlink_meta, unlink_cache, unlink_nas,
     cfs_truncate, trunc_cache, trunc_nas, cfs_release, release_dig,
     release_close, Pc, Idle, At
<1>6. CASE cfs_rename(t) \/ cfs_link(t) \/ cfs_utime(t)
  BY <1>1, <1>6 DEF cfs_rename, rename_cache, rename_nas, cfs_link, link_cache,
     link_nas, cfs_utime, utime_cache, utime_nas, Pc
<1>7. QED  BY <1>2, <1>3, <1>4, <1>5, <1>6 DEF Daemon

\* Nothing is said of the rows at most steps of a callback.
LEMMA NothingSaid ==
  ASSUME NEW t \in Threads, call'[t] = NoCall,
         req'[t].pc \notin {"cache_pwrite", "open_unlink", "unlink_cache",
           "open_create", "unlink_nas", "open_stat", "open_date", "open_mknod",
           "open_cache"}
  PROVE  RowsOK(t)'
  BY DEF RowsOK, FrameOf, Recorded, Listed

\* A callback calls meta.c.
LEMMA Entered ==
  ASSUME TypeOK, NEW t \in Threads, NEW c, Enter(t, c)
  PROVE  /\ call'[t] = c /\ \A u \in Threads \ {t} : call'[u] = call[u]
         /\ files' = files /\ blocks' = blocks
  BY DEF TypeOK, Enter

\* cfs_open: what it has found out of the rows is still so.
LEMMA OpenRows ==
  ASSUME SharedInv, NoCollision, TypeOK, ForeignKey, RowsInv,
         NEW t \in Threads, cfs_open(t), call[t] = NoCall
  PROVE  /\ RowsOK(t)' /\ TablesFor(t)
         /\ \A u \in Threads \ {t} : call'[u] = call[u]
         /\ OpenListed'
<1>1. /\ DOMAIN req = Threads /\ DOMAIN req[t] = Fields /\ DOMAIN handles = Handles
      /\ req[t].path \in Paths /\ name(t) \in Names /\ req[t].op = "open"
      /\ req[t].pc # "idle"
  <2>1. /\ DOMAIN req = Threads /\ DOMAIN req[t] = Fields
        /\ DOMAIN handles = Handles /\ AtStep(req[t])
    BY DEF SharedInv, PathInv, PathReqs, Shape, HandleInv
  <2>2. req[t].pc \in {"open_nas", "open_present", "open_stat", "open_date",
                       "open_unlink", "open_create", "open_mknod", "open_cache"}
    BY DEF cfs_open, open_nas, open_present, open_presentAs, open_stat,
     open_statAs, open_date, open_dateAs, open_unlink, open_create, open_mknod,
     open_cache, Pc
  <2>3. QED  BY <2>1, <2>2, InCallback DEF AtStep, SharedInv
<1>2. Listed(t)
  BY DEF RowsInv, RowsOK
<1>3. NoReq.pc = "idle" /\ NoCall.step = "idle"
  BY DEF NoReq, NoCall, Fresh
<1>4. ASSUME NoSQL
      PROVE  /\ TablesFor(t) /\ \A u \in Threads \ {t} : call'[u] = call[u]
             /\ call'[t] = NoCall /\ files' = files /\ blocks' = blocks
             /\ handles' = handles => OpenListed'
  <2>1. files' = files /\ blocks' = blocks /\ call' = call
    BY <1>4 DEF NoSQL, metaVars
  <2>2. TablesFor(t)
    BY <2>1 DEF TablesFor
  <2>3. QED  BY <2>1, <2>2, OtherHandles DEF RowsInv
<1>5. ASSUME Return(t), NoSQL  PROVE RowsOK(t)'
  BY <1>1, <1>3, <1>4, <1>5, NothingSaid DEF Return, Go
\* The file is deleted.
<1>6. ASSUME delete_file(t, name(t)), UNCHANGED handles,
             Go(t, [req[t] EXCEPT !.pc = "open_unlink"])
      PROVE  /\ RowsOK(t)' /\ TablesFor(t)
             /\ \A u \in Threads \ {t} : call'[u] = call[u]
             /\ OpenListed'
  <2> DEFINE c == Fresh("delete_file", "select", name(t), {})
  <2>1. /\ call'[t] = c /\ \A u \in Threads \ {t} : call'[u] = call[u]
        /\ files' = files /\ blocks' = blocks
    BY <1>6, Entered DEF delete_file
  <2>2. TablesFor(t)
    BY <2>1 DEF TablesFor
  <2>3. c.op = "delete_file" /\ c.step = "select" /\ c.name = name(t)
    BY DEF Fresh
  <2>4. req'[t].pc = "open_unlink" /\ name(t)' = name(t)
    BY <1>1, <1>6 DEF Go, Fields, NoReq, name
  <2> HIDE DEF c
  <2>5. FrameOf(t)'
    BY <2>1, <2>3, <2>4 DEF FrameOf
  <2>6. Recorded(t)' /\ Listed(t)'
    BY <2>1, <2>3, <2>4 DEF Recorded, Listed
  <2>7. OpenListed'
    BY <1>6, <2>2, OtherHandles DEF RowsInv
  <2>8. QED  BY <2>1, <2>2, <2>5, <2>6, <2>7 DEF RowsOK
<1>7. CASE open_nas(t)
  <2>1. NoSQL /\ UNCHANGED handles /\ req'[t].pc = "open_present"
    BY <1>1, <1>7 DEF open_nas, Go, NoFile, Fields, NoReq
  <2>2. QED  BY <1>4, <2>1, NothingSaid
<1>8. CASE open_present(t)
  <2>1. UNCHANGED handles
    BY <1>8 DEF open_present, open_presentAs, NoFile
  <2>2. CASE /\ delete_file(t, name(t))
             /\ Go(t, [req[t] EXCEPT !.pc = "open_unlink"])
    BY <1>6, <2>1, <2>2
  <2>3. CASE Return(t) /\ NoSQL
    BY <1>4, <1>5, <2>1, <2>3
  <2>4. CASE /\ Go(t, [req[t] EXCEPT !.pc = "open_stat",
                                     !.present = name(t) \in files])
             /\ NoSQL
    <3>1. /\ req'[t].pc = "open_stat" /\ name(t)' = name(t)
          /\ req'[t].present = (name(t) \in files)
      BY <1>1, <2>4 DEF Go, Fields, NoReq, name
    <3>2. RowsOK(t)'
      BY <1>4, <2>4, <3>1 DEF RowsOK, FrameOf, Recorded, Listed
    <3>3. QED  BY <1>4, <2>1, <2>4, <3>2
  <2>5. QED  BY <1>8, <2>2, <2>3, <2>4 DEF open_present, open_presentAs
<1>9. CASE open_stat(t)
  <2> DEFINE pc == IF req[t].present THEN "open_date" ELSE "open_create"
  <2>1. PICK m : Go(t, [req[t] EXCEPT !.num = m, !.pc = pc])
    BY <1>9 DEF open_stat, open_statAs
  <2>2. NoSQL /\ UNCHANGED handles /\ req[t].pc = "open_stat"
    BY <1>9 DEF open_stat, open_statAs, NoFile, Pc
  <2>3. req'[t].pc = pc /\ name(t)' = name(t)
    BY <1>1, <2>1 DEF Go, Fields, NoReq, name
  <2>4. IF req[t].present THEN name(t) \in files ELSE name(t) \notin files
    BY <1>2, <2>2 DEF Listed
  <2>5. RowsOK(t)'
    BY <1>4, <2>2, <2>3, <2>4 DEF RowsOK, FrameOf, Recorded, Listed
  <2>6. QED  BY <1>4, <2>2, <2>5
<1>10. CASE open_date(t)
  <2>1. UNCHANGED handles /\ req[t].pc = "open_date"
    BY <1>10 DEF open_date, open_dateAs, NoFile, Pc
  <2>2. CASE /\ delete_file(t, name(t))
             /\ Go(t, [req[t] EXCEPT !.pc = "open_unlink"])
    BY <1>6, <2>1, <2>2
  <2>3. CASE Go(t, [req[t] EXCEPT !.pc = "open_cache"]) /\ NoSQL
    <3>1. req'[t].pc = "open_cache" /\ name(t)' = name(t)
      BY <1>1, <2>3 DEF Go, Fields, NoReq, name
    <3>2. RowsOK(t)'
      BY <1>2, <1>4, <2>1, <2>3, <3>1 DEF RowsOK, FrameOf, Recorded, Listed
    <3>3. QED  BY <1>4, <2>1, <2>3, <3>2
  <2>4. QED  BY <1>10, <2>2, <2>3 DEF open_date, open_dateAs
<1>11. CASE open_unlink(t)
  <2>1. NoSQL /\ UNCHANGED handles /\ AfterUnlink(t) /\ req[t].pc = "open_unlink"
    BY <1>11 DEF open_unlink, Pc
  <2>2. name(t) \notin files
    BY <1>2, <1>3, <2>1 DEF Listed
  <2>3. CASE Go(t, [req[t] EXCEPT !.pc = "open_create"])
    <3>1. req'[t].pc = "open_create" /\ name(t)' = name(t)
      BY <1>1, <2>3 DEF Go, Fields, NoReq, name
    <3>2. RowsOK(t)'
      BY <1>4, <2>1, <2>2, <3>1 DEF RowsOK, FrameOf, Recorded, Listed
    <3>3. QED  BY <1>4, <2>1, <3>2
  <2>4. CASE Return(t)
    BY <1>4, <1>5, <2>1, <2>4
  <2>5. QED  BY <2>1, <2>3, <2>4 DEF AfterUnlink
<1>12. CASE open_create(t)
  <2>1. /\ UNCHANGED handles /\ req[t].pc = "open_create"
        /\ files' = files \cup {name(t)} /\ blocks' = blocks /\ call' = call
        /\ Go(t, [req[t] EXCEPT !.pc = "open_mknod"])
    BY <1>12 DEF open_create, create_file, NoFile, Pc
  <2>2. req'[t].pc = "open_mknod" /\ name(t)' = name(t)
    BY <1>1, <2>1 DEF Go, Fields, NoReq, name
  <2>3. NoRows(name(t))
    <3>1. name(t) \notin files
      BY <1>2, <2>1 DEF Listed
    <3>2. \A b : <<name(t), b>>[1] = name(t)
      OBVIOUS
    <3>3. QED  BY <3>1, <3>2 DEF ForeignKey, NoRows
  <2>4. RowsOK(t)'
    BY <2>1, <2>2, <2>3 DEF RowsOK, FrameOf, Recorded, Listed, NoRows
  <2>5. TablesFor(t)
    BY <1>1, <2>1 DEF TablesFor
  <2>6. QED  BY <2>1, <2>4, <2>5, OtherHandles DEF RowsInv
<1>13. CASE open_mknod(t)
  <2>1. /\ NoSQL /\ UNCHANGED handles /\ req[t].pc = "open_mknod"
        /\ Go(t, [req[t] EXCEPT !.pc = "open_cache"])
    BY <1>13 DEF open_mknod, Pc
  <2>2. req'[t].pc = "open_cache" /\ name(t)' = name(t)
    BY <1>1, <2>1 DEF Go, Fields, NoReq, name
  <2>3. RowsOK(t)'
    BY <1>2, <1>4, <2>1, <2>2 DEF RowsOK, FrameOf, Recorded, Listed
  <2>4. QED  BY <1>4, <2>1, <2>3
<1>14. CASE open_cache(t)
  <2>1. /\ NoSQL /\ Return(t) /\ req[t].pc = "open_cache"
        /\ \A h \in Handles :
             handles'[h] = handles[h] \/ handles'[h].path = req[t].path
    BY <1>1, <1>14 DEF open_cache, Pc
  <2>2. name(t) \in files /\ files' = files
    BY <1>2, <1>4, <2>1 DEF Listed
  <2>3. OpenListed'
    BY <2>1, <2>2 DEF RowsInv, OpenListed, Opened, name
  <2>4. QED  BY <1>4, <1>5, <2>1, <2>3
<1>15. QED
  BY <1>7, <1>8, <1>9, <1>10, <1>11, <1>12, <1>13, <1>14 DEF cfs_open

\* cfs_unlink: the rows go first.
LEMMA UnlinkRows ==
  ASSUME SharedInv, NoCollision, TypeOK, RowsInv,
         NEW t \in Threads, cfs_unlink(t), call[t] = NoCall
  PROVE  /\ RowsOK(t)' /\ TablesFor(t)
         /\ \A u \in Threads \ {t} : call'[u] = call[u]
         /\ OpenListed'
<1>1. DOMAIN req = Threads /\ DOMAIN req[t] = Fields /\ UNCHANGED handles
  BY DEF SharedInv, PathInv, PathReqs, Shape, cfs_unlink, unlink_meta,
         unlink_cache, unlink_nas, NoFile
<1>2. Listed(t)
  BY DEF RowsInv, RowsOK
<1>3. NoReq.pc = "idle" /\ NoCall.step = "idle"
  BY DEF NoReq, NoCall, Fresh
<1>4. CASE unlink_meta(t)
  <2> DEFINE c == Fresh("delete_file", "select", name(t), {})
  <2>1. /\ call'[t] = c /\ \A u \in Threads \ {t} : call'[u] = call[u]
        /\ files' = files /\ blocks' = blocks
    BY <1>4, Entered DEF unlink_meta, delete_file
  <2>2. TablesFor(t)
    BY <2>1 DEF TablesFor
  <2>3. c.op = "delete_file" /\ c.step = "select" /\ c.name = name(t)
    BY DEF Fresh
  <2>4. req'[t].pc = "unlink_cache" /\ name(t)' = name(t)
    BY <1>1, <1>4 DEF unlink_meta, Go, Fields, NoReq, name
  <2> HIDE DEF c
  <2>5. FrameOf(t)'
    BY <2>1, <2>3, <2>4 DEF FrameOf
  <2>6. Recorded(t)' /\ Listed(t)'
    BY <2>1, <2>3, <2>4 DEF Recorded, Listed
  <2>7. OpenListed'
    BY <1>1, <2>2, OtherHandles DEF RowsInv
  <2>8. QED  BY <2>1, <2>2, <2>5, <2>6, <2>7 DEF RowsOK
<1>5. CASE unlink_cache(t) \/ unlink_nas(t)
  <2>1. files' = files /\ blocks' = blocks /\ call' = call
    BY <1>5 DEF unlink_cache, unlink_nas, NoSQL, metaVars
  <2>2. TablesFor(t) /\ OpenListed'
    BY <1>1, <2>1, OtherHandles DEF TablesFor, RowsInv
  <2>3. CASE unlink_cache(t)
    <3>1. req[t].pc = "unlink_cache" /\ name(t) \notin files
      BY <1>2, <1>3, <2>3 DEF unlink_cache, Pc, Listed
    <3>2. req'[t].pc = "unlink_nas" /\ name(t)' = name(t)
      BY <1>1, <2>3 DEF unlink_cache, Go, Fields, NoReq, name
    <3>3. RowsOK(t)'
      BY <2>1, <3>1, <3>2 DEF RowsOK, FrameOf, Recorded, Listed
    <3>4. QED  BY <2>1, <2>2, <3>3
  <2>4. CASE unlink_nas(t)
    <3>1. req'[t].pc = "idle"
      BY <1>1, <1>3, <2>4 DEF unlink_nas, Return, Go
    <3>2. QED  BY <2>1, <2>2, <3>1, NothingSaid
  <2>5. QED  BY <1>5, <2>3, <2>4
<1>6. QED  BY <1>4, <1>5 DEF cfs_unlink

\* cfs_cacheWrite records its blocks.
LEMMA RecordRows ==
  ASSUME SharedInv, NoCollision, TypeOK, RowsInv,
         NEW t \in Threads, cache_record(t)
  PROVE  /\ RowsOK(t)' /\ TablesFor(t)
         /\ \A u \in Threads \ {t} : call'[u] = call[u]
         /\ OpenListed'
<1> DEFINE c == Fresh("write_blks", "check", name(t), WriteBlocks(t))
<1>1. DOMAIN req = Threads /\ DOMAIN req[t] = Fields /\ UNCHANGED handles
  BY DEF SharedInv, PathInv, PathReqs, Shape, cache_record, NoFile
<1>2. /\ call'[t] = c /\ \A u \in Threads \ {t} : call'[u] = call[u]
      /\ files' = files /\ blocks' = blocks
  BY Entered DEF cache_record, write_blks
<1>3. TablesFor(t)
  BY <1>2 DEF TablesFor
<1>4. /\ c.op = "write_blks" /\ c.step = "check" /\ c.name = name(t)
      /\ c.todo = WriteBlocks(t) /\ c.miss = {}
  BY DEF Fresh
<1>5. /\ req'[t].pc = "cache_pwrite" /\ name(t)' = name(t)
      /\ WriteBlocks(t)' = WriteBlocks(t)
  <2>1. /\ req'[t].pc = "cache_pwrite" /\ req'[t].path = req[t].path
        /\ req'[t].op = req[t].op /\ req'[t].todo = req[t].todo
    BY <1>1 DEF cache_record, Go, Fields, NoReq
  <2>2. QED  BY <2>1 DEF name, WriteBlocks, BlockInHand
<1> HIDE DEF c
<1>6. FrameOf(t)'
  BY <1>2, <1>4, <1>5 DEF FrameOf
<1>7. Recorded(t)' /\ Listed(t)'
  BY <1>2, <1>4, <1>5 DEF Recorded, Listed
<1>8. OpenListed'
  BY <1>1, <1>3, OtherHandles DEF RowsInv
<1>9. QED  BY <1>2, <1>3, <1>6, <1>7, <1>8 DEF RowsOK

\* The other steps of callbacks leave the rows alone, and nothing is said of
\* them at the next step.
LEMMA OtherSteps ==
  ASSUME SharedInv, PathInv', NoCollision, RowsInv, NEW t \in Threads, Daemon(t),
         call[t] = NoCall, ~cfs_open(t), ~cfs_unlink(t), ~cache_record(t),
         ~ (MetaStep(t) /\ UNCHANGED cfsVars)
  PROVE  /\ RowsOK(t)' /\ TablesFor(t)
         /\ \A u \in Threads \ {t} : call'[u] = call[u]
         /\ OpenListed'
<1>1. /\ DOMAIN req = Threads /\ DOMAIN req[t] = Fields /\ AtStep(req[t])
      /\ AtStep(req'[t]) /\ Moved(t)
  BY DaemonMoves DEF SharedInv, FileInv, PathInv, PathReqs, Shape
<1>2. NoReq.pc = "idle"
  BY DEF NoReq
<1>3. /\ files' = files /\ blocks' = blocks /\ call' = call
      /\ req'[t].pc \in {"idle", "read_check", "read_all", "read_block",
                         "read_done", "cache_record", "write_stat", "write_read",
                         "trunc_nas", "utime_nas", "release_close"}
  <2>1. CASE cfs_read(t)
    <3>1. NoSQL
      BY <2>1 DEF cfs_read, read_check, read_checkAs, read_all, read_allAs,
                  read_block, read_blockAs, read_done
    <3>2. CASE read_check(t)
      <4>1. PICK hits, todo, pc :
              /\ Go(t, [req[t] EXCEPT !.hits = hits, !.todo = todo, !.pc = pc])
              /\ pc \in {"read_check", "read_all", "read_block"}
        BY <3>2 DEF read_check, read_checkAs
      <4>2. req'[t].pc = pc
        BY <1>1, <4>1 DEF Go, Fields, NoReq
      <4>3. QED  BY <3>1, <4>1, <4>2 DEF NoSQL, metaVars
    <3>3. CASE read_all(t)
      <4>1. PICK buf, count : Go(t, [req[t] EXCEPT !.buf = buf, !.count = count,
                                       !.todo = {}, !.pc = "read_done"])
        BY <3>3 DEF read_all, read_allAs
      <4>2. req'[t].pc = "read_done"
        BY <1>1, <4>1 DEF Go, Fields, NoReq
      <4>3. QED  BY <3>1, <4>2 DEF NoSQL, metaVars
    <3>4. CASE read_block(t)
      <4>1. PICK bytes, n : read_blockAs(t, bytes, n)
        BY <3>4 DEF read_block
      <4> DEFINE r == [req[t] EXCEPT !.buf = @ \o Padded(bytes, BS), !.count = @ + n]
                 q == [r EXCEPT !.pc = "cache_record"]
      <4>2. Go(t, IF BlockInHand(t) \in req[t].hits THEN NextReadBlock(t, r) ELSE q)
        BY <4>1 DEF read_blockAs
      <4>3. DOMAIN r = Fields /\ q.pc = "cache_record"
        BY <1>1 DEF Fields, NoReq
      <4> HIDE DEF r, q
      <4>4. NextReadBlock(t, r).pc \in {"read_block", "read_done"}
        BY <4>3 DEF NextReadBlock, Fields, NoReq
      <4>5. req'[t].pc \in {"read_block", "read_done", "cache_record"}
        BY <1>1, <4>2, <4>3, <4>4 DEF Go
      <4>6. QED  BY <3>1, <4>5 DEF NoSQL, metaVars
    <3>5. CASE read_done(t)
      BY <1>1, <1>2, <3>1, <3>5 DEF read_done, Return, Go, NoSQL, metaVars
    <3>6. QED  BY <2>1, <3>2, <3>3, <3>4, <3>5 DEF cfs_read
  <2>2. CASE write_nas(t)
    BY <1>1, <2>2 DEF write_nas, write_nasAs, Go, NoSQL, metaVars, Fields, NoReq
  <2>3. CASE write_stat(t)
    <3>1. PICK m : Go(t, [req[t] EXCEPT !.pc = "write_read", !.num = m])
      BY <2>3 DEF write_stat, write_statAs
    <3>2. req'[t].pc = "write_read"
      BY <1>1, <3>1 DEF Go, Fields, NoReq
    <3>3. QED  BY <2>3, <3>2 DEF write_stat, write_statAs, NoSQL, metaVars
  <2>4. CASE write_read(t)
    <3>1. PICK m : Go(t, [req[t] EXCEPT !.buf = m, !.pc = "cache_record"])
      BY <2>4 DEF write_read, write_readAs
    <3>2. req'[t].pc = "cache_record"
      BY <1>1, <3>1 DEF Go, Fields, NoReq
    <3>3. QED  BY <2>4, <3>2 DEF write_read, write_readAs, NoSQL, metaVars
  <2>5. CASE cache_wait(t)
    BY <2>5 DEF cache_wait, vars, metaVars, cfsVars, Pc
  <2>6. CASE cache_pwrite(t)
    <3>1. NextReadBlock(t, req[t]).pc \in {"read_block", "read_done"}
      BY <1>1 DEF NextReadBlock, Fields, NoReq
    <3>2. req'[t].pc \in {"read_block", "read_done", "idle"}
      BY <1>1, <1>2, <2>6, <3>1 DEF cache_pwrite, cache_pwriteAs, Return, Go
    <3>3. QED
      BY <2>6, <3>2 DEF cache_pwrite, cache_pwriteAs, NoSQL, metaVars
  <2>7. CASE cfs_mknod(t) \/ cfs_truncate(t) \/ cfs_release(t) \/ cfs_utime(t)
    BY <1>1, <1>2, <2>7 DEF cfs_mknod, cfs_truncate, trunc_cache, trunc_nas,
       cfs_release, release_dig, release_close, cfs_utime, utime_cache,
       utime_nas, Return, Go, NoSQL, metaVars, Fields, NoReq
  <2>8. ~cfs_rename(t) /\ ~cfs_link(t)
    BY <1>1 DEF cfs_rename, rename_cache, rename_nas, cfs_link, link_cache,
                link_nas, AtStep, Pc
  <2>9. QED
    BY <2>1, <2>2, <2>3, <2>4, <2>5, <2>6, <2>7, <2>8
    DEF Daemon, cfs_write, cfs_cacheWrite
<1>4. RowsOK(t)' /\ TablesFor(t)
  BY <1>3, NothingSaid DEF TablesFor
<1>5. OpenListed'
  <2>1. CASE handles' = handles
    BY <1>4, <2>1, OtherHandles DEF RowsInv
  <2>2. CASE /\ req[t].op \in {"open", "release"}
             /\ \A h \in Handles \ {req[t].h} : handles'[h] = handles[h]
             /\ req[t].op = "release" => handles'[req[t].h] = Closed
             /\ req[t].op = "open" => open_cache(t)
    <3>1. \A h \in Handles : handles'[h] = handles[h] \/ handles'[h] = Closed
      BY <2>2 DEF cfs_open
    <3>2. QED  BY <1>3, <3>1 DEF RowsInv, OpenListed, Opened
  <2>3. QED  BY <2>1, <2>2, HandleView DEF SharedInv
<1>6. QED  BY <1>3, <1>4, <1>5

\* Every step of a callback keeps RowsInv, and is one of TablesFor.
LEMMA DaemonRows ==
  ASSUME SharedInv, PathInv', NoCollision, TypeOK, ForeignKey, RowsInv,
         NEW t \in Threads, Daemon(t)
  PROVE  RowsInv' /\ TablesFor(t) /\ \A u \in Threads \ {t} : call'[u] = call[u]
<1>1. /\ RowsOK(t)' /\ TablesFor(t) /\ OpenListed'
      /\ \A u \in Threads \ {t} : call'[u] = call[u]
  <2>1. CASE MetaStep(t) /\ UNCHANGED cfsVars
    <3>1. UNCHANGED handles
      BY <2>1 DEF cfsVars
    <3>2. QED  BY <2>1, <3>1, StatementRows, OtherHandles DEF RowsInv
  <2>2. CASE ~ (MetaStep(t) /\ UNCHANGED cfsVars)
    BY <2>2, CallReturned, OpenRows, UnlinkRows, RecordRows, OtherSteps
  <2>3. QED  BY <2>1, <2>2
<1>2. \A u \in Threads \ {t} : RowsOK(u)'
  BY <1>1, DaemonMoves, OtherRows DEF RowsInv, SharedInv, FileInv, Moved
<1>3. QED  BY <1>1, <1>2 DEF RowsInv

\* The rows stay what callbacks take them for.
LEMMA RowsInductive ==
  /\ Init => RowsInv
  /\ /\ SharedInv /\ PathInv' /\ NoCollision /\ TypeOK /\ ForeignKey /\ RowsInv
     /\ [NextAlone]_vars
     => RowsInv'
<1>1. ASSUME Init  PROVE RowsInv
  <2>1. /\ \A t \in Threads : call[t] = NoCall /\ req[t].pc = "idle"
        /\ \A h \in Handles : handles[h] = Closed
    BY <1>1 DEF Init, MetaInit, NoReq
  <2>2. QED
    BY <2>1 DEF RowsInv, RowsOK, FrameOf, Recorded, Listed, OpenListed, Opened
<1>2. ASSUME SharedInv, PathInv', NoCollision, TypeOK, ForeignKey, RowsInv,
             [NextAlone]_vars
      PROVE  RowsInv'
  <2>1. ASSUME NEW t \in Threads, NEW r, Issue(t, r), Asks(r)  PROVE RowsInv'
    <3>1. /\ req'[t] = r /\ \A u \in Threads \ {t} : req'[u] = req[u]
          /\ UNCHANGED <<handles, files, blocks, call>>
      BY <1>2, <2>1 DEF Issue, Go, NoFile, NoSQL, metaVars, SharedInv, PathInv,
                        PathReqs
    <3>2. call[t] = NoCall
      BY <1>2, <2>1 DEF Issue, Pc, RowsInv, RowsOK, FrameOf
    <3>3. r.pc \in {"mknod", "open_nas", "read_check", "write_nas", "trunc_cache",
                    "unlink_meta", "utime_cache", "release_dig"}
      BY <2>1 DEF Asks, AsksFor, AtStart
    <3>4. RowsOK(t)'
      BY <3>1, <3>2, <3>3, NothingSaid
    <3>5. \A u \in Threads \ {t} : RowsOK(u)'
      BY <1>2, <3>1 DEF RowsInv, RowsOK, FrameOf, Recorded, Listed, NoRows, name,
                        WriteBlocks, BlockInHand
    <3>6. OpenListed'
      BY <1>2, <3>1 DEF RowsInv, OpenListed, Opened
    <3>7. QED  BY <3>4, <3>5, <3>6 DEF RowsInv
  <2>2. CASE RemoteLater
    <3>1. UNCHANGED <<handles, req, files, blocks, call>>
      BY <1>2, <2>2, RemoteView DEF SharedInv, ShareInv, metaVars
    <3>2. QED
      BY <1>2, <3>1 DEF RowsInv, RowsOK, FrameOf, Recorded, Listed, NoRows, name,
                        WriteBlocks, BlockInHand, OpenListed, Opened
  <2>3. CASE Quiet
    <3>1. \A t \in Threads :
            \/ req'[t] = req[t] /\ call'[t] = call[t]
            \/ req'[t].pc = "idle" /\ call'[t] = NoCall
      <4>1. NoReq.pc = "idle"
        BY DEF NoReq
      <4>2. \A t \in Threads : req[t].op = "none" => call[t] = NoCall
        BY <1>2 DEF RowsInv, RowsOK, FrameOf, SharedInv, PathInv, PathReqs, Shape,
                    AtStep
      <4>3. QED  BY <2>3, <4>1, <4>2 DEF Quiet
    <3>2. UNCHANGED <<handles, files, blocks>>
      BY <2>3 DEF Quiet
    <3>3. \A t \in Threads : RowsOK(t)'
      <4> TAKE t \in Threads
      <4>1. CASE req'[t].pc = "idle" /\ call'[t] = NoCall
        BY <4>1, NothingSaid
      <4>2. CASE req'[t] = req[t] /\ call'[t] = call[t]
        BY <1>2, <3>2, <4>2 DEF RowsInv, RowsOK, FrameOf, Recorded, Listed, NoRows,
                                name, WriteBlocks, BlockInHand
      <4>3. QED  BY <3>1, <4>1, <4>2
    <3>4. OpenListed'
      BY <1>2, <3>2 DEF RowsInv, OpenListed, Opened
    <3>5. QED  BY <3>3, <3>4 DEF RowsInv
  <2>4. QED
    BY <1>2, <2>1, <2>2, <2>3, AloneCases, DaemonRows DEF SharedInv
<1>3. QED  BY <1>1, <1>2

\* The next state has the invariants of every program, and these.
LEMMA SharedInductive ==
  /\ Init => SharedInv
  /\ NoCollision /\ SharedInv /\ [NextAlone]_vars => SharedInv' /\ [CfsNext]_vars
  BY FileInductive, PathInductive, ShareInductive DEF SharedInv

\* SpecAlone is a part of CfsSpec, and keeps the invariants of files and paths.
LEMMA AloneIsAny ==
  ASSUME NoCollision
  PROVE  SpecAlone => CfsSpec /\ []SharedInv
<1>1. Init => SharedInv
  BY SharedInductive
<1>2. SharedInv /\ [NextAlone]_vars => SharedInv' /\ [CfsNext]_vars
  BY SharedInductive
<1>3. QED  BY <1>1, <1>2, PTL DEF SpecAlone, CfsSpec

\* Programs that open a file one at a time find the rows as their callbacks take
\* them: a file that is open is recorded, so insert_block finds its file_id; a
\* new cache file (cachefs.c:463) never inherits rows of an older one; and
\* when write_blks is through, all blocks of the request are recorded, whichever
\* of its INSERTs lost a race (meta.c:356).
THEOREM RowsFaithful ==
  ASSUME NoCollision
  PROVE  SpecAlone => [](RowsInv /\ SharedInv /\ TypeOK)
<1>1. SpecAlone => CfsSpec /\ []SharedInv
  BY AloneIsAny
<1>2. CfsSpec => []TypeOK
  <2>1. FSTypeOK => TypeOK
    BY DEF FSTypeOK
  <2>2. QED  BY <2>1, FSTypeCorrect, PTL
<1>3. CfsSpec => []ForeignKey
  BY FileSystemForeignKey
<1>4. Init => RowsInv
  BY RowsInductive
<1>5. /\ SharedInv /\ SharedInv' /\ TypeOK /\ ForeignKey /\ RowsInv
      /\ [NextAlone]_vars
      => RowsInv'
  <2>1. SharedInv' => PathInv'
    BY DEF SharedInv
  <2>2. QED  BY <2>1, RowsInductive
<1>6. QED
  BY <1>1, <1>2, <1>3, <1>4, <1>5, PTL DEF SpecAlone
---------------------------------------------------------------------------
(***************************************************************************)
(* The counter when the calls of meta.c do not overlap.                    *)
(***************************************************************************)
\* What a callback does to the metadata is a call of meta.c or its next
\* statement.
LEMMA DaemonSQL ==
  ASSUME SharedInv, NEW t \in Threads, Daemon(t)
  PROVE  FSCall(t) \/ MetaStep(t) \/ UNCHANGED metaVars
<1>1. CallbackInv /\ AtStep(req[t])
  BY DEF SharedInv, FileInv, PathInv, PathReqs, Shape
<1>2. ASSUME req[t].pc # "idle"
      PROVE  /\ delete_file(t, name(t)) => FSCall(t)
             /\ create_file(t, name(t)) => FSCall(t)
             /\ req[t].todo # {} /\ write_blks(t, name(t), WriteBlocks(t)) => FSCall(t)
  <2>1. Locals(req[t]) /\ name(t) \in Names
    BY <1>1, <1>2, NameType DEF CallbackInv, ReqInv, Locals, name
  <2>2. req[t].todo # {} => WriteBlocks(t) \in (SUBSET Blocks) \ {{}}
    BY <2>1, WriteBlocksType
  <2>3. QED  BY <2>1, <2>2 DEF FSCall, WriterCall
<1>3. CASE cfs_open(t)
  <2>1. CASE open_present(t) \/ open_date(t) \/ open_create(t)
    BY <1>2, <2>1 DEF open_present, open_presentAs, open_date, open_dateAs,
                      open_create, Pc, NoSQL
  <2>2. QED
    BY <1>3, <2>1 DEF cfs_open, open_nas, open_stat, open_statAs, open_unlink,
                      open_mknod, open_cache, NoSQL
<1>4. CASE cfs_unlink(t)
  BY <1>2, <1>4 DEF cfs_unlink, unlink_meta, unlink_cache, unlink_nas, Pc, NoSQL
<1>5. CASE cfs_cacheWrite(t)
  <2>1. CASE cache_record(t)
    <3>1. req[t].pc = "cache_record" /\ write_blks(t, name(t), WriteBlocks(t))
      BY <2>1 DEF cache_record, Pc
    <3>2. req[t].todo # {}
      BY <1>1, <3>1 DEF CallbackInv, ReqInv, Locals, Covering
    <3>3. QED  BY <1>2, <3>1, <3>2
  <2>2. QED
    BY <1>5, <2>1 DEF cfs_cacheWrite, cache_wait, cache_pwrite, cache_pwriteAs,
                      vars, NoSQL
<1>6. CASE \/ cfs_mknod(t) \/ cfs_read(t) \/ cfs_write(t) \/ cfs_truncate(t)
           \/ cfs_release(t) \/ cfs_rename(t) \/ cfs_link(t) \/ cfs_utime(t)
  BY <1>6 DEF cfs_mknod, cfs_read, read_check, read_checkAs, read_all, read_allAs,
     read_block, read_blockAs, read_done, cfs_write, write_nas, write_nasAs,
     write_stat, write_statAs, write_read, write_readAs, cfs_truncate,
     trunc_cache, trunc_nas, cfs_release, release_dig, release_close,
     cfs_rename, rename_cache, rename_nas, cfs_link, link_cache, link_nas,
     cfs_utime, utime_cache, utime_nas, NoSQL
<1>7. QED  BY <1>3, <1>4, <1>5, <1>6 DEF Daemon

\* So it is for every step of SpecAlone but an unmount.
LEMMA AloneSQL ==
  ASSUME SharedInv, [NextAlone]_vars
  PROVE  \/ \E t \in Threads : FSCall(t) \/ MetaStep(t)
         \/ init_cache_used_size
         \/ UNCHANGED metaVars
<1>1. CASE UNCHANGED vars \/ Tick \/ RemoteLater
  BY <1>1 DEF vars, Tick, RemoteLater, RemoteAny, RemoteWrite, NoSQL
<1>2. CASE Remount
  BY <1>2 DEF Remount, Crash
<1>3. CASE \E t \in Threads : Daemon(t)
  BY <1>3, DaemonSQL
<1>4. CASE \E t \in Threads :
             \/ MknodAny(t) \/ OpenAlone(t) \/ ReadAny(t) \/ WriteDense(t)
             \/ ReleaseAny(t) \/ ShrinkOpen(t) \/ UnlinkAny(t)
             \/ /\ \A p \in Paths : UpToDate(p)
                /\ ShrinkPath(t) \/ UtimeAny(t)
  BY <1>4, AloneAsks DEF SharedInv, Issue, NoSQL
<1>5. QED
  BY <1>1, <1>2, <1>3, <1>4 DEF NextAlone, Program

\* The condition leaves behaviours of SpecAlone, in which it always holds.
LEMMA OneCallIsAlone == SpecOneCall => SpecAlone /\ []OneCall
<1>1. Init => OneCall
  <2>1. Init => \A t \in Threads : call[t] = NoCall
    BY DEF Init, MetaInit
  <2>2. NoCall.step = "idle"
    BY DEF NoCall, Fresh
  <2>3. QED  BY <2>1, <2>2 DEF OneCall, Idle, At
<1>2. OneCall /\ [NextOneCall]_vars => OneCall' /\ [NextAlone]_vars
  BY DEF OneCall, Idle, At, NextOneCall, vars, metaVars
<1>3. QED  BY <1>1, <1>2, PTL DEF SpecOneCall, SpecAlone

\* Then the counter is in balance and the sizes are within the rows.
LEMMA SerialAlone ==
  ASSUME NoCollision
  PROVE  SpecOneCall => [](SerialInv /\ SoloInv /\ SizesNonNegative /\ OneCall)
<1>1. SpecOneCall => [](SharedInv /\ SizesNonNegative /\ OneCall)
  BY OneCallIsAlone, AloneIsAny, FileSystemSizes, PTL
<1>2. Init => SerialInv /\ SoloInv
  BY SerialInductive, SoloInductive DEF Init
<1>3. /\ SharedInv /\ SizesNonNegative /\ OneCall /\ OneCall'
      /\ SerialInv /\ SoloInv /\ [NextOneCall]_vars
      => SerialInv' /\ SoloInv'
  <2> SUFFICES ASSUME SharedInv, SizesNonNegative, OneCall, OneCall',
                      SerialInv, SoloInv, [NextOneCall]_vars
               PROVE  SerialInv' /\ SoloInv'
    OBVIOUS
  <2>1. \/ \E t \in Threads : FSCall(t) \/ MetaStep(t)
        \/ init_cache_used_size
        \/ UNCHANGED metaVars
    BY AloneSQL DEF NextOneCall
  <2>2. QED  BY <2>1, SerialInductive, SoloInductive
<1>4. QED  BY <1>1, <1>2, <1>3, PTL DEF SpecOneCall

\* Any number of threads may serve requests: unless one enters a call of meta.c
\* while another is in one, every request leaves cache_used_size at the sum of
\* local_size over the Files rows.  What insert_block adds (meta.c:394) is what
\* delete_file takes off again (meta.c:435), also for a file that was deleted and
\* recorded anew, and what the next mount reads from the tables; the overlap of
\* two calls is the only thing that makes the counter drift.
THEOREM UsedMatchesOneCall ==
  ASSUME NoCollision
  PROVE  SpecOneCall => []UsedMatches
<1>1. SerialInv => UsedMatches
  BY DEF SerialInv
<1>2. QED  BY <1>1, SerialAlone, PTL

\* And then the loop of cfs_cacheWrite that waits for space (cachefs.c:511) is
\* entered only when the recorded blocks take all of it, also while another
\* thread is in a call: the sizes are within the rows and the counter does not
\* claim more than the sizes, through any number of deletions and remounts.
\* cache_size is a size_t.
THEOREM WaitsWhenFullOneCall ==
  ASSUME NoCollision, cache_size \in Nat
  PROVE  SpecOneCall => []WaitsOnlyWhenFull
<1>1. SerialInv /\ SoloInv /\ SizesNonNegative /\ OneCall => WaitsOnlyWhenFull
  <2> SUFFICES ASSUME SerialInv, SoloInv, SizesNonNegative, OneCall,
                      NEW t \in Threads, Pc(t, "cache_record"), ~HasSpace
               PROVE  BS * Cardinality(blocks) >= cache_size
    BY DEF WaitsOnlyWhenFull
  <2>1. TypeOK /\ SumLocal \in Int /\ used \in Nat
    BY SumLocalType, MetaAssumption DEF SerialInv, TypeInv, TypeOK
  <2>2. SumLocal <= BS * Cardinality(blocks)
    <3>1. LocalSizeBound
      BY <2>1, PendingBound DEF SoloInv
    <3>2. \A f \in files : local_size[f] <= meta_block_size * Cardinality(BlocksOf(f))
      BY <2>1, <3>1 DEF LocalSizeBound, TypeOK
    <3>3. QED  BY <2>1, <3>2, SumBound DEF BS
  <2>3. used <= SumLocal
    BY SerialBound
  <2>4. BS * Cardinality(blocks) \in Int
    <3>1. Cardinality(blocks) \in Nat
      <4>1. IsFiniteSet(Names \X Blocks)
        BY MetaAssumption, FS_Product
      <4>2. QED  BY <2>1, <4>1, FS_Subset, FS_CardinalityType DEF TypeOK
    <3>2. QED  BY <3>1, BlockSize
  <2>5. used >= cache_size
    BY <2>1 DEF HasSpace
  <2> DEFINE n == BS * Cardinality(blocks)
  <2> HIDE DEF n
  <2>6. n >= cache_size
    BY <2>1, <2>2, <2>3, <2>4, <2>5 DEF n
  <2>7. QED  BY <2>6 DEF n
<1>2. QED  BY <1>1, SerialAlone, PTL
=============================================================================
