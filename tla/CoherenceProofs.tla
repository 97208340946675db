-------------------------- MODULE CoherenceProofs --------------------------
(***************************************************************************)
(* The cache is coherent: for a program that opens its file alone, what    *)
(* the metadata says is cached is what the NAS has, its reads return the   *)
(* bytes of the NAS, and its writes reach both, for any number of threads, *)
(* files and blocks.                                                       *)
(***************************************************************************)
EXTENDS RowProofs

\* No write straddles the end of the last block alignedSize gives it.  With
\* PageBlocks at least 1 this means blocks of the size of a page of the kernel
\* (cacheHelp.c:19).
NoStraddle ==
  \A off \in 0 .. MaxSize - 1, len \in 1 .. PageSize :
    Cardinality(PagesOf(off, len)) = 1 => ~Align!Straddles(off, len)

\* A negative size wraps to one that pread refuses.
SizesFit == MaxSize < SizeMod \div 2

(***************************************************************************)
(* The bytes of files and buffers.                                         *)
(***************************************************************************)
\* The length of a sequence is where its domain ends.
LEMMA LengthIs ==
  ASSUME NEW S, NEW s \in Seq(S), NEW n \in Nat, DOMAIN s = 1 .. n
  PROVE  Len(s) = n
<1>1. Len(s) \in Nat /\ DOMAIN s = 1 .. Len(s)
  BY LenProperties
<1>2. QED  BY <1>1

\* The bytes of w are those of old, but from off on those of bytes.
Placed(w, old, off, bytes) ==
  /\ Len(w) = Larger(Len(old), off + Len(bytes))
  /\ \A k \in 1 .. Len(w) :
       w[k] = IF k \in off + 1 .. off + Len(bytes) THEN bytes[k - off]
              ELSE IF k <= Len(old) THEN old[k] ELSE Zero

\* The bytes of a file after a pwrite.
LEMMA WrittenBytes ==
  ASSUME NEW B, Zero \in B, NEW old \in Seq(B), NEW off \in Nat,
         NEW bytes \in Seq(B), NEW w, w = Written(old, off, bytes)
  PROVE  w \in Seq(B) /\ Placed(w, old, off, bytes)
<1> DEFINE n == Larger(Len(old), off + Len(bytes))
<1>1. n \in Nat
  BY LenProperties DEF Larger
<1>2. w \in Seq(B)
  BY WrittenType DEF Written
<1>3. /\ DOMAIN w = 1 .. n
      /\ \A k \in 1 .. n :
           w[k] = IF k \in off + 1 .. off + Len(bytes) THEN bytes[k - off]
                  ELSE IF k <= Len(old) THEN old[k] ELSE Zero
  BY DEF Written
<1> HIDE DEF n
<1>4. Len(w) = n
  BY <1>1, <1>2, <1>3, LengthIs
<1>5. QED  BY <1>2, <1>3, <1>4 DEF n, Placed

\* w is old up to byte n.
Shortened(w, old, n) == /\ Len(w) = n
                        /\ \A k \in 1 .. n : k <= Len(old) => w[k] = old[k]

\* The bytes of a file after an ftruncate.
LEMMA ResizedBytes ==
  ASSUME NEW B, Zero \in B, NEW old \in Seq(B), NEW size \in Nat,
         NEW w, w = Resized(old, size)
  PROVE  w \in Seq(B) /\ Shortened(w, old, size)
<1>1. w \in Seq(B)
  <2>1. 0 \in Nat /\ << >> \in Seq(B)
    BY EmptySeq
  <2>2. QED  BY <2>1, WrittenType DEF Resized
<1>2. /\ DOMAIN w = 1 .. size
      /\ \A k \in 1 .. size : k <= Len(old) => w[k] = old[k]
  BY DEF Resized
<1>3. Len(w) = size
  BY <1>1, <1>2, LengthIs
<1>4. QED  BY <1>1, <1>2, <1>3 DEF Shortened

\* pread gives the bytes from off on, as far as the file goes.
Part(s, d, off, size) ==
  /\ Len(s) <= size
  /\ Len(s) = IF off < Len(d) THEN Smaller(size, Len(d) - off) ELSE 0
  /\ \A j \in 1 .. Len(s) : s[j] = d[off + j]

\* The bytes pread returns.
LEMMA ReadBytes ==
  ASSUME NEW B, NEW fs, NEW i, fs.data[i] \in Seq(B), NEW off \in Nat,
         NEW size \in Nat, NEW d, d = fs.data[i], NEW s, s = Pread(fs, i, off, size)
  PROVE  s \in Seq(B) /\ Part(s, d, off, size)
<1> DEFINE n == Smaller(off + size, Len(d))
<1>1. Len(d) \in Nat /\ n \in Int /\ n <= Len(d)
  BY LenProperties DEF Smaller
<1>2. \A k \in off + 1 .. n : d[k] \in B
  BY <1>1, ElementOfSeq
<1>3. s = SubSeq(d, off + 1, n)
  BY DEF Pread
<1>4. n <= off + size /\ n = (IF off + size <= Len(d) THEN off + size ELSE Len(d))
  BY <1>1 DEF Smaller
<1> HIDE DEF n
<1>5. /\ s \in Seq(B)
      /\ Len(s) = IF off + 1 <= n THEN n - (off + 1) + 1 ELSE 0
      /\ \A j \in 1 .. n - (off + 1) + 1 : s[j] = d[(off + 1) + j - 1]
  BY <1>1, <1>2, <1>3, SubSeqProperties
<1>6. Len(s) <= size /\ Len(s) = IF off < Len(d) THEN Smaller(size, Len(d) - off) ELSE 0
  BY <1>1, <1>4, <1>5 DEF Smaller
<1>7. \A j \in 1 .. Len(s) : s[j] = d[off + j]
  BY <1>1, <1>5
<1>8. QED  BY <1>5, <1>6, <1>7 DEF Part

\* A buffer of n bytes begins with those that were read.
LEMMA PaddedBytes ==
  ASSUME NEW bytes \in Seq(ByteSet), NEW n \in Nat, Len(bytes) <= n
  PROVE  /\ Padded(bytes, n) \in Seq(ByteSet) /\ Len(Padded(bytes, n)) = n
         /\ \A j \in 1 .. Len(bytes) : Padded(bytes, n)[j] = bytes[j]
<1>1. Len(bytes) \in Nat
  BY LenProperties
<1> DEFINE m    == n - Len(bytes)
           fill == [k \in 1 .. m |-> Junk]
<1>2. fill \in Seq(ByteSet) /\ Len(fill) = m
  <2>1. m \in Nat
    BY <1>1
  <2>2. fill \in [1 .. m -> ByteSet]
    BY DEF ByteSet
  <2> HIDE DEF m
  <2>3. fill \in Seq(ByteSet)
    BY <2>1, <2>2, SeqDef
  <2>4. DOMAIN fill = 1 .. m
    OBVIOUS
  <2> HIDE DEF fill
  <2>5. QED  BY <2>1, <2>3, <2>4, LengthIs
<1> HIDE DEF fill
<1>3. /\ bytes \o fill \in Seq(ByteSet)
      /\ Len(bytes \o fill) = Len(bytes) + Len(fill)
      /\ \A j \in 1 .. Len(bytes) + Len(fill) : (bytes \o fill)[j] =
            IF j <= Len(bytes) THEN bytes[j] ELSE fill[j - Len(bytes)]
  BY <1>2, ConcatProperties
<1>4. Padded(bytes, n) = bytes \o fill
  BY DEF Padded, fill
<1>5. QED  BY <1>1, <1>2, <1>3, <1>4

---------------------------------------------------------------------------
(***************************************************************************)
(* The invariant.  d and c are the bytes of a file p on the NAS and in the *)
(* cache, q the requests, B the rows.                                      *)
(***************************************************************************)
\* The block of byte k, and the first block of a set.
BlockOf(k) == (k - 1) \div BS
First(S)   == CHOOSE b \in S : IsFirst(b, S)

\* A truncation that is under way will cut byte k, if it has not yet.
Cut(q, p, k) == \E t \in Threads :
  q[t].op = "truncate" /\ q[t].path = p /\ k > q[t].len

\* Request r may have changed block b on one side only: a write from its start
\* on, a read while its block is on the way to the cache.
BusyWith(r, p, b) ==
  /\ r.path = p
  /\ \/ r.op = "write" /\ b \in RequestBlocks(r)
     \/ r.op = "read" /\ r.pc = "cache_pwrite" /\ b = First(r.todo)

Busy(q, p, b) == \E t \in Threads : BusyWith(q[t], p, b)

\* Every byte that stays, of a recorded block that nobody is busy with, is in
\* the cache.
Agree(d, c, q, B, p) ==
  \A k \in 1 .. Len(d) :
    /\ ~Cut(q, p, k)
    /\ <<pathToFileName(p), BlockOf(k)>> \in B
    /\ ~Busy(q, p, BlockOf(k))
    => k <= Len(c) /\ c[k] = d[k]

\* An open that has not passed the comparison of the times, a call that makes or
\* removes the name; m is the st_mtime of the NAS file.
Waiting(r, m) ==
  \/ r.op \in {"mknod", "unlink"}
  \/ r.pc \in {"open_nas", "open_present", "open_stat", "open_unlink"}
  \/ r.pc = "open_date" /\ r.num = m

\* The cache file is of an older second, and whoever opens it will find that
\* out: another client wrote the file on the NAS.
Outdated(p) ==
  LET m == TimeOf(nas, p)
  IN /\ Behind(TimeOf(cache, pathToFileName(p)), m)
     /\ \A h \in Handles : handles[h].path # p
     /\ \A t \in Threads : req[t].path = p => Waiting(req[t], m)

FileOK(p) ==
  LET f == pathToFileName(p)
  IN nas.dir[p] # NoInode /\ cache.dir[f] # NoInode =>
       Agree(DataOf(nas, p), DataOf(cache, f), req, blocks, p) \/ Outdated(p)

\* cfs_write: the bytes are on the NAS after the pwrite, and then the buffer has
\* the blocks as far as the NAS file goes.
WriteOK(r, d) ==
  LET lower   == Align!alignLowerOffset(r.off)
      aligned == Align!alignedSize(r.len)
  IN r.op = "write" =>
     /\ r.off \in 0 .. MaxSize - 1 /\ r.len \in 1 .. PageSize
     /\ Cardinality(PagesOf(r.off, r.len)) = 1
     /\ r.todo = RequestBlocks(r)
     /\ r.pc = "write_nas" => r.off <= Len(d)
     /\ r.pc # "write_nas" =>
          /\ r.off + r.len <= Len(d)
          /\ \A k \in r.off + 1 .. r.off + r.len : d[k] = r.val
     /\ r.pc = "write_read" => r.num = Smaller(aligned, Len(d) - lower)
     /\ r.pc \in {"cache_record", "cache_pwrite"} =>
          /\ Len(r.buf) = aligned
          /\ \A k \in lower + 1 .. Smaller(lower + aligned, Len(d)) :
               r.buf[k - lower] = d[k]

\* cfs_truncate makes a file smaller.
TruncOK(r, d) == r.op = "truncate" => r.len < Len(d)

\* A byte of the NAS file that no truncation will cut.
Stable(d, q, p, k) == k \in 1 .. Len(d) /\ ~Cut(q, p, k)

\* cfs_read: what it reads is blocks lo to hi, and b is the one in hand.
Span(r, lo, hi) ==
  /\ lo \in Nat /\ hi \in Nat /\ lo <= hi
  /\ r.off = BS * lo /\ r.off + r.len = BS * (hi + 1)

\* It handles the blocks in order and its buffer has those before b, and b too
\* when it is on the way to the cache; hits are rows it has found.
Progress(r, B, lo, hi, b) ==
  /\ r.pc # "read_done" => b \in lo .. hi /\ r.todo = b .. hi
  /\ r.hits \subseteq lo .. hi
  /\ \A x \in r.hits : <<pathToFileName(r.path), x>> \in B
  /\ r.pc \in {"read_check", "read_all"} => r.buf = <<>>
  /\ r.pc = "read_all" => r.hits = lo .. hi /\ b = lo
  /\ r.pc = "read_block" => r.off + Len(r.buf) = BS * b
  /\ r.pc \in {"cache_record", "cache_pwrite"} =>
       r.off + Len(r.buf) = BS * (b + 1)
  /\ r.pc = "read_done" => Len(r.buf) = r.len

\* The buffer has the bytes of the NAS, and count covers them.
Fetched(r, d, q) ==
  /\ r.count \in Nat
  /\ \A k \in r.off + 1 .. r.off + Len(r.buf) :
       Stable(d, q, r.path, k) => /\ r.buf[k - r.off] = d[k]
                                  /\ k - r.off <= r.count

ReadOK(r, d, q, B) ==
  r.op = "read" =>
    /\ \E lo, hi : Span(r, lo, hi) /\ Progress(r, B, lo, hi, First(r.todo))
    /\ Fetched(r, d, q)

RequestOK(t) ==
  LET r == req[t]
      d == DataOf(nas, r.path)
  IN WriteOK(r, d) /\ TruncOK(r, d) /\ ReadOK(r, d, req, blocks)

CoherenceInv == (\A t \in Threads : RequestOK(t)) /\ (\A p \in Paths : FileOK(p))

---------------------------------------------------------------------------
(***************************************************************************)
(* Blocks and bytes of requests.                                           *)
(***************************************************************************)
\* Blocks are handled in order.
LEMMA FirstIs ==
  ASSUME NEW b \in Int, NEW hi \in Int, b <= hi
  PROVE  First(b .. hi) = b
<1>1. IsFirst(b, b .. hi)
  BY DEF IsFirst
<1>2. \A x : IsFirst(x, b .. hi) => x = b
  BY DEF IsFirst
<1>3. QED  BY <1>1, <1>2 DEF First

\* Byte k is in block b.
LEMMA InBlock ==
  ASSUME NEW b \in Nat, NEW k \in Int
  PROVE  /\ BS * b \in Nat /\ BS * (b + 1) = BS * b + BS
         /\ BS * b < k /\ k <= BS * (b + 1) => BlockOf(k) = b
<1>1. BS \in Nat \ {0}
  BY BlockSize
<1>2. BS * b \in Nat /\ BS * (b + 1) = BS * b + BS
  <2>1. BS * b \in Int /\ BS * (b + 1) = BS * b + BS
    BY <1>1, Multiples
  <2>2. BS * 0 = 0 /\ BS * 0 <= BS * b
    BY <1>1, Multiples
  <2>3. QED  BY <2>1, <2>2
<1>3. ASSUME BS * b < k, k <= BS * (b + 1)  PROVE BlockOf(k) = b
  <2>1. k - 1 \in Nat /\ BS * b <= k - 1 /\ k - 1 < BS * b + BS
    BY <1>1, <1>2, <1>3
  <2>2. (k - 1) \div BS = b
    BY <1>1, <2>1, InStep
  <2>3. QED  BY <2>2 DEF BlockOf
<1>4. QED  BY <1>2, <1>3

\* The bytes of blocks lo to hi.
LEMMA InBlocks ==
  ASSUME NEW lo \in Nat, NEW hi \in Nat, NEW k \in Nat \ {0}
  PROVE  BlockOf(k) \in lo .. hi <=> BS * lo < k /\ k <= BS * (hi + 1)
<1>1. BS \in Nat \ {0} /\ k - 1 \in Nat
  BY BlockSize
<1> DEFINE b == (k - 1) \div BS
<1>2. b \in Nat /\ BS * b <= k - 1 /\ k - 1 < BS * b + BS /\ BS * b \in Nat
  BY <1>1, Division
<1> HIDE DEF b
<1>3. /\ BS * lo \in Int /\ BS * (hi + 1) \in Int
      /\ BS * (hi + 1) = BS * hi + BS
  BY <1>1, Multiples
<1>4. /\ lo <= b => BS * lo <= BS * b
      /\ b < lo => BS * b + BS <= BS * lo
      /\ b <= hi => BS * b <= BS * hi
      /\ hi < b => BS * hi + BS <= BS * b
  BY <1>1, <1>2, Multiples
<1>5. BS * hi \in Int
  BY <1>1, Multiples
<1>6. lo <= b <=> BS * lo < k
  BY <1>1, <1>2, <1>3, <1>4
<1>7. b <= hi <=> k <= BS * (hi + 1)
  BY <1>1, <1>2, <1>3, <1>4, <1>5
<1>8. QED  BY <1>2, <1>6, <1>7 DEF BlockOf, b

\* The blocks of a read are those its span names.
LEMMA SpanBlocks ==
  ASSUME NEW r, NEW lo, NEW hi, Span(r, lo, hi), r.off \in Nat, r.len \in Nat
  PROVE  /\ r.len \in Nat \ {0} /\ RequestBlocks(r) = lo .. hi
         /\ hi - lo + 1 \in Nat /\ r.len = BS * (hi - lo + 1)
<1>1. /\ BS \in Nat \ {0} /\ lo \in Nat /\ hi \in Nat /\ lo <= hi
      /\ r.off = BS * lo /\ r.off + r.len = BS * (hi + 1)
  BY BlockSize DEF Span
<1> DEFINE m == hi - lo + 1
<1>2. m \in Nat \ {0} /\ lo + m = hi + 1
  BY <1>1
<1> HIDE DEF m
<1>3. BS * (lo + m) = BS * lo + BS * m /\ BS * m \in Int /\ BS * 0 + BS <= BS * m
      /\ BS * 0 = 0
  BY <1>1, <1>2, Distributes, Multiples
<1>4. r.len = BS * m /\ r.len \in Nat \ {0}
  BY <1>1, <1>2, <1>3
<1>5. PICK n \in Nat \ {0} :
        LET first == r.off \div BS
        IN /\ first \in Nat /\ BS * first \in Nat
           /\ BS * first <= r.off /\ r.off < BS * first + BS
           /\ Align!alignedSize(r.len) = BS * n /\ BS * n \in Nat
           /\ BS * n < r.len + BS /\ r.len <= BS * n
           /\ Align!offsetArray(r.off, r.len) = first .. first + n - 1
  BY <1>4, RequestArray
<1>6. r.off \div BS = lo
  BY <1>1, InStep
<1>7. n = m
  <2>1. /\ n < m => BS * n + BS <= BS * m
        /\ m < n => BS * m + BS <= BS * n
    BY <1>1, <1>2, Multiples
  <2>2. QED  BY <1>1, <1>2, <1>3, <1>4, <1>5, <2>1
<1>8. RequestBlocks(r) = lo .. hi
  BY <1>1, <1>2, <1>5, <1>6, <1>7 DEF RequestBlocks
<1>9. QED  BY <1>2, <1>4, <1>8 DEF m

\* The blocks of a write have all of its bytes, and the buffer of cfs_write has
\* the size of the blocks.
LEMMA PageSpan ==
  ASSUME NoStraddle, NEW r, r.off \in 0 .. MaxSize - 1, r.len \in 1 .. PageSize,
         Cardinality(PagesOf(r.off, r.len)) = 1
  PROVE  \E lo \in Nat, hi \in Nat :
           /\ lo <= hi /\ RequestBlocks(r) = lo .. hi
           /\ Align!alignLowerOffset(r.off) = BS * lo
           /\ BS * lo + Align!alignedSize(r.len) = BS * (hi + 1)
           /\ Align!alignedSize(r.len) \in Nat
           /\ BS * lo <= r.off /\ r.off + r.len <= BS * (hi + 1)
<1>1. BS \in Nat \ {0}
  BY BlockSize
<1>2. r.off \in Nat /\ r.len \in Nat \ {0}
  BY <1>1, BlockSize, PageOfBlock
<1> DEFINE lo == r.off \div BS
<1>3. PICK n \in Nat \ {0} :
         /\ lo \in Nat /\ BS * lo \in Nat
         /\ BS * lo <= r.off /\ r.off < BS * lo + BS
         /\ Align!alignLowerOffset(r.off) = BS * lo
         /\ Align!alignedSize(r.len) = BS * n /\ BS * n \in Nat
         /\ Align!offsetArray(r.off, r.len) = lo .. lo + n - 1
  BY <1>2, RequestArray
<1>4. ~Align!Straddles(r.off, r.len)
  BY <1>1 DEF NoStraddle
<1>5. r.off % BS = r.off - BS * lo
  BY <1>1, <1>2, Division
<1> HIDE DEF lo
<1>6. (r.off - BS * lo) + r.len <= BS * n
  BY <1>2, <1>3, <1>4, <1>5 DEF Align!Straddles, BS
<1> DEFINE hi == lo + n - 1
<1>7. hi \in Nat /\ lo <= hi /\ hi + 1 = lo + n
  BY <1>3
<1>8. BS * (lo + n) = BS * lo + BS * n
  BY <1>1, <1>3, Distributes
<1>9. r.off + r.len <= BS * (hi + 1) /\ BS * lo + BS * n = BS * (hi + 1)
  BY <1>2, <1>3, <1>6, <1>7, <1>8
<1>10. RequestBlocks(r) = lo .. hi
  BY <1>3 DEF RequestBlocks
<1> HIDE DEF hi
<1>11. QED  BY <1>3, <1>7, <1>9, <1>10

\* The same of a write that the invariant knows.
LEMMA WriteSpan ==
  ASSUME NoStraddle, NEW r, NEW d, WriteOK(r, d), r.op = "write"
  PROVE  \E lo \in Nat, hi \in Nat :
           /\ lo <= hi /\ RequestBlocks(r) = lo .. hi
           /\ Align!alignLowerOffset(r.off) = BS * lo
           /\ BS * lo + Align!alignedSize(r.len) = BS * (hi + 1)
           /\ Align!alignedSize(r.len) \in Nat
           /\ BS * lo <= r.off /\ r.off + r.len <= BS * (hi + 1)
<1>1. /\ r.off \in 0 .. MaxSize - 1 /\ r.len \in 1 .. PageSize
      /\ Cardinality(PagesOf(r.off, r.len)) = 1
  BY DEF WriteOK
<1>2. QED  BY <1>1, PageSpan

\* A page is one block: nothing straddles.
LEMMA OneBlockPages ==
  ASSUME PageBlocks = 1  PROVE NoStraddle
<1> SUFFICES ASSUME NEW off \in 0 .. MaxSize - 1, NEW len \in 1 .. PageSize,
                    Cardinality(PagesOf(off, len)) = 1
             PROVE  ~Align!Straddles(off, len)
  BY DEF NoStraddle
<1>1. BS \in Nat \ {0} /\ PageSize = BS /\ off \in Nat /\ len \in Nat \ {0} /\ len <= BS
  BY BlockSize DEF PageSize
<1>2. off + len - 1 \in Nat
  BY <1>1
<1> DEFINE a == off \div BS
           b == (off + len - 1) \div BS
<1>3. /\ a \in Nat /\ BS * a <= off /\ BS * a \in Nat /\ off % BS = off - BS * a
      /\ b \in Nat /\ off + len - 1 < BS * b + BS
  BY <1>1, <1>2, Division
<1>4. PagesOf(off, len) = a .. b
  BY <1>1 DEF PagesOf
<1> HIDE DEF a, b
<1>5. a = b
  <2>1. Cardinality(a .. b) = IF a > b THEN 0 ELSE b - a + 1
    BY <1>3, FS_Interval
  <2>2. QED  BY <1>3, <1>4, <2>1
<1>6. PICK n \in Nat \ {0} : /\ Align!alignedSize(len) = BS * n
                             /\ len <= BS * n
  BY <1>1, RoundedUp
<1>7. BS <= BS * n
  <2>1. BS * 0 + BS <= BS * n /\ BS * 0 = 0
    BY <1>1, <1>6, Multiples
  <2>2. QED  BY <1>1, <2>1
<1>8. (off % BS) + len <= BS
  BY <1>1, <1>3, <1>5
<1>9. BS * n \in Int
  BY <1>1, <1>6, Multiples
<1>10. QED  BY <1>1, <1>3, <1>6, <1>7, <1>8, <1>9 DEF Align!Straddles, BS

\* Requests for different pages are for different blocks and bytes.
LEMMA NotShared ==
  ASSUME NEW r, NEW q, Apart(r, q), r.path = q.path,
         r.op \in {"read", "write"}, q.op \in {"read", "write"},
         r.off \in Nat, r.len \in Nat \ {0}, q.off \in Nat, q.len \in Nat \ {0}
  PROVE  /\ \A b \in RequestBlocks(r) : b \notin RequestBlocks(q)
         /\ \A x \in r.off .. r.off + r.len - 1 : x \notin q.off .. q.off + q.len - 1
  BY PageOfRequest, PageOfByte DEF Apart, RequestBlocks

---------------------------------------------------------------------------
(***************************************************************************)
(* What a step of a callback leaves alone: other files, and what other     *)
(* requests know of theirs.                                                *)
(***************************************************************************)
AloneInv == SharedInv /\ TypeOK /\ ForeignKey /\ RowsInv

\* The step of a callback is one of its own code.
LEMMA DaemonStep ==
  ASSUME PathInv, RowsInv, NEW t \in Threads, Daemon(t)
  PROVE  /\ req[t].op # "none" /\ req[t].pc # "idle"
         /\ \/ MetaStep(t) /\ UNCHANGED cfsVars
            \/ req[t].op = "mknod" /\ cfs_mknod(t)
            \/ req[t].op = "open" /\ cfs_open(t)
            \/ req[t].op = "read" /\ cfs_read(t)
            \/ req[t].op = "write" /\ cfs_write(t)
            \/ req[t].op \in {"read", "write"} /\ cfs_cacheWrite(t)
            \/ req[t].op = "unlink" /\ cfs_unlink(t)
            \/ req[t].op = "truncate" /\ cfs_truncate(t)
            \/ req[t].op = "utime" /\ cfs_utime(t)
            \/ req[t].op = "release" /\ cfs_release(t)
<1>1. AtStep(req[t])
  BY DEF PathInv, PathReqs, Shape
<1>2. CASE MetaStep(t) /\ UNCHANGED cfsVars
  <2>1. call[t].step # "idle"
    <3>1. CASE is_blk_in_cache(t) \/ InsertRow(t) \/ DeleteBlockRow(t)
      BY <3>1 DEF is_blk_in_cache, InsertRow, DeleteBlockRow, At
    <3>2. CASE UpdateLocalSize(t) \/ SelectSize(t) \/ LoadUsed(t)
      BY <3>2 DEF UpdateLocalSize, SelectSize, LoadUsed, At
    <3>3. CASE StoreUsed(t) \/ SelectAgain(t) \/ DeleteFileRow(t)
      BY <3>3 DEF StoreUsed, SelectAgain, DeleteFileRow, At
    <3>4. QED  BY <1>2, <3>1, <3>2, <3>3 DEF MetaStep
  <2>2. req[t].pc \in {"cache_pwrite", "open_unlink", "unlink_cache"}
    BY <2>1 DEF RowsInv, RowsOK, FrameOf, NoCall, Fresh
  <2>3. req[t].op # "none" /\ req[t].pc # "idle"
    BY <1>1, <2>2 DEF AtStep
  <2>4. QED  BY <1>2, <2>3
<1>3. CASE cfs_open(t)
  <2>1. req[t].pc \in {"open_nas", "open_present", "open_stat", "open_date",
                       "open_unlink", "open_create", "open_mknod", "open_cache"}
    BY <1>3 DEF cfs_open, open_nas, open_present, open_presentAs, open_stat,
     open_statAs, open_date, open_dateAs, open_unlink, open_create, open_mknod,
     open_cache, Pc
  <2>2. QED  BY <1>1, <1>3, <2>1 DEF AtStep
<1>4. CASE cfs_read(t)
  <2>1. req[t].pc \in {"read_check", "read_all", "read_block", "read_done"}
    BY <1>4 DEF cfs_read, read_check, read_checkAs, read_all, read_allAs,
     read_block, read_blockAs, read_done, Pc
  <2>2. QED  BY <1>1, <1>4, <2>1 DEF AtStep
<1>5. CASE cfs_write(t)
  <2>1. req[t].pc \in {"write_nas", "write_stat", "write_read"}
    BY <1>5 DEF cfs_write, write_nas, write_nasAs, write_stat, write_statAs,
     write_read, write_readAs, Pc
  <2>2. QED  BY <1>1, <1>5, <2>1 DEF AtStep
<1>6. CASE cfs_cacheWrite(t)
  <2>1. req[t].pc \in {"cache_record", "cache_pwrite"}
    BY <1>6 DEF cfs_cacheWrite, cache_wait, cache_record, cache_pwrite,
     cache_pwriteAs, Pc
  <2>2. QED  BY <1>1, <1>6, <2>1 DEF AtStep
<1>7. CASE cfs_mknod(t) \/ cfs_unlink(t)
  <2>1. CASE cfs_mknod(t)
    BY <1>1, <2>1 DEF cfs_mknod, Pc, AtStep
  <2>2. CASE cfs_unlink(t)
    BY <1>1, <2>2 DEF cfs_unlink, unlink_meta, unlink_cache, unlink_nas, Pc, AtStep
  <2>3. QED  BY <1>7, <2>1, <2>2
<1>8. CASE cfs_truncate(t)
  BY <1>1, <1>8 DEF cfs_truncate, trunc_cache, trunc_nas, Pc, AtStep
<1>9. CASE cfs_utime(t)
  BY <1>1, <1>9 DEF cfs_utime, utime_cache, utime_nas, Pc, AtStep
<1>10. CASE cfs_release(t)
  BY <1>1, <1>10 DEF cfs_release, release_dig, release_close, Pc, AtStep
<1>11. ~cfs_rename(t) /\ ~cfs_link(t)
  BY <1>1 DEF cfs_rename, rename_cache, rename_nas, cfs_link, link_cache,
              link_nas, AtStep, Pc
<1>12. QED
  BY <1>2, <1>3, <1>4, <1>5, <1>6, <1>7, <1>8, <1>9, <1>10, <1>11 DEF Daemon

\* A truncation is over with its last call, a write with its pwrite to the
\* cache, and a read goes on from a block with that.
LEMMA StillAtIt ==
  ASSUME PathInv, RowsInv, NEW t \in Threads, Daemon(t)
  PROVE  /\ req[t].op = "truncate" => trunc_nas(t) \/ req'[t].op = "truncate"
         /\ req[t].op = "write" => cache_pwrite(t) \/ req'[t].op = "write"
         /\ req[t].op = "read" /\ req[t].pc = "cache_pwrite" =>
              cache_pwrite(t) \/ req'[t] = req[t]
<1>1. DOMAIN req = Threads /\ DOMAIN req[t] = Fields
  BY DEF PathInv, PathReqs, Shape
<1>2. CASE MetaStep(t) /\ UNCHANGED cfsVars
  BY <1>2 DEF cfsVars
<1>3. ASSUME req[t].op = "truncate", ~ (MetaStep(t) /\ UNCHANGED cfsVars)
      PROVE  trunc_nas(t) \/ req'[t].op = "truncate"
  <2>1. trunc_cache(t) \/ trunc_nas(t)
    BY <1>3, DaemonStep DEF cfs_truncate
  <2>2. trunc_cache(t) => req'[t].op = "truncate"
    BY <1>1, <1>3 DEF trunc_cache, Go, Fields, NoReq
  <2>3. QED  BY <2>1, <2>2
<1>4. ASSUME req[t].op = "write", ~ (MetaStep(t) /\ UNCHANGED cfsVars)
      PROVE  cache_pwrite(t) \/ req'[t].op = "write"
  <2>1. \/ write_nas(t) \/ write_stat(t) \/ write_read(t)
        \/ cache_wait(t) \/ cache_record(t) \/ cache_pwrite(t)
    BY <1>4, DaemonStep DEF cfs_write, cfs_cacheWrite
  <2>2. CASE write_nas(t) \/ cache_record(t)
    BY <1>1, <1>4, <2>2 DEF write_nas, write_nasAs, cache_record, Go, Fields, NoReq
  <2>3. CASE write_stat(t)
    <3>1. PICK m : Go(t, [req[t] EXCEPT !.pc = "write_read", !.num = m])
      BY <2>3 DEF write_stat, write_statAs
    <3>2. QED  BY <1>1, <1>4, <3>1 DEF Go, Fields, NoReq
  <2>4. CASE write_read(t)
    <3>1. PICK m : Go(t, [req[t] EXCEPT !.buf = m, !.pc = "cache_record"])
      BY <2>4 DEF write_read, write_readAs
    <3>2. QED  BY <1>1, <1>4, <3>1 DEF Go, Fields, NoReq
  <2>5. CASE cache_wait(t)
    BY <1>4, <2>5 DEF cache_wait, vars, cfsVars
  <2>6. QED  BY <2>1, <2>2, <2>3, <2>4, <2>5
<1>5. ASSUME req[t].op = "read", req[t].pc = "cache_pwrite",
             ~ (MetaStep(t) /\ UNCHANGED cfsVars)
      PROVE  cache_pwrite(t)
  <2>1. cfs_read(t) \/ cfs_cacheWrite(t)
    BY <1>5, DaemonStep
  <2>2. QED
    BY <1>5, <2>1 DEF cfs_read, read_check, read_checkAs, read_all, read_allAs,
     read_block, read_blockAs, read_done, cfs_cacheWrite, cache_wait,
     cache_record, Pc
<1>6. QED  BY <1>2, <1>3, <1>4, <1>5

\* So truncations are still to cut what they were to, and blocks stay busy.
LEMMA CutBusy ==
  ASSUME PathInv, FileInv, RowsInv, NEW t \in Threads, Daemon(t), NEW p \in Paths
  PROVE  /\ \A k : Cut(req', p, k) => Cut(req, p, k)
         /\ \A k : Cut(req, p, k) => Cut(req', p, k) \/ trunc_nas(t)
         /\ \A b : Busy(req, p, b) => Busy(req', p, b) \/ cache_pwrite(t)
         /\ p # req[t].path => /\ \A k : Cut(req, p, k) => Cut(req', p, k)
                               /\ \A b : Busy(req, p, b) => Busy(req', p, b)
<1>1. Moved(t)
  BY DaemonMoves DEF FileInv
<1>2. NoReq.op = "none"
  BY DEF NoReq
<1>3. \A k : Cut(req', p, k) => Cut(req, p, k)
  BY <1>1, <1>2 DEF Cut, Moved, Kept
<1>4. \A k : Cut(req, p, k) => Cut(req', p, k) \/ trunc_nas(t)
  BY <1>1, <1>2, StillAtIt DEF Cut, Moved, Kept
<1>5. \A b : Busy(req, p, b) => Busy(req', p, b) \/ cache_pwrite(t)
  <2>1. ASSUME NEW b, BusyWith(req[t], p, b), ~cache_pwrite(t)
        PROVE  BusyWith(req'[t], p, b)
    <3>1. CASE req[t].op = "write" /\ b \in RequestBlocks(req[t])
      BY <1>1, <1>2, <2>1, <3>1, StillAtIt DEF BusyWith, Moved, Kept, RequestBlocks
    <3>2. CASE req[t].op = "read" /\ req[t].pc = "cache_pwrite"
      BY <2>1, <3>2, StillAtIt
    <3>3. QED  BY <2>1, <3>1, <3>2 DEF BusyWith
  <2>2. QED  BY <1>1, <2>1 DEF Busy, Moved
<1>6. p # req[t].path => /\ \A k : Cut(req, p, k) => Cut(req', p, k)
                         /\ \A b : Busy(req, p, b) => Busy(req', p, b)
  BY <1>1 DEF Cut, Busy, BusyWith, Moved
<1>7. QED  BY <1>3, <1>4, <1>5, <1>6

\* Of two files that agree, less is asked when more is busy or to be cut; a new
\* row is of a busy block.
LEMMA AgreeKept ==
  ASSUME NEW d, NEW c, NEW q, NEW r, NEW B, NEW E, NEW p, Agree(d, c, q, B, p),
         \A k : Cut(q, p, k) => Cut(r, p, k),
         \A b : Busy(q, p, b) => Busy(r, p, b),
         \A b : <<pathToFileName(p), b>> \in E =>
                  <<pathToFileName(p), b>> \in B \/ Busy(r, p, b)
  PROVE  Agree(d, c, r, E, p)
  BY DEF Agree

\* The other files stay as they are.
LEMMA OtherFiles ==
  ASSUME AloneInv, PathInv', NoCollision, NEW t \in Threads, Daemon(t),
         NEW p \in Paths \ {req[t].path}, FileOK(p)
  PROVE  FileOK(p)'
<1> DEFINE f == pathToFileName(p)
           P == req[t].path
<1>1. /\ P \in Paths /\ name(t) \in Names /\ f \in Names /\ f # name(t)
      /\ PathInv /\ FileInv /\ ShareInv /\ RowsInv /\ SharedInv
  BY DaemonStep, InCallback, NameType DEF AloneInv, SharedInv, NoCollision, name
<1>2. /\ SameFile(nas, nas', p) /\ SameFile(cache, cache', f)
  BY <1>1, NasView, CacheView DEF OnlyFile, PathInv, DirInv, ShareInv
<1>3. \A b : <<f, b>> \in blocks' <=> <<f, b>> \in blocks
  BY <1>1, DaemonRows DEF AloneInv, TablesFor
<1>4. Moved(t)
  BY <1>1, DaemonMoves DEF FileInv
<1>5. p # NoPath /\ NoReq.path = NoPath
  BY CacheFSAssumption DEF NoReq
<1> SUFFICES ASSUME nas'.dir[p] # NoInode, cache'.dir[f] # NoInode
             PROVE  \/ Agree(DataOf(nas, p), DataOf(cache, f), req, blocks, p)'
                    \/ Outdated(p)'
  BY DEF FileOK
<1>6. /\ nas.dir[p] # NoInode /\ cache.dir[f] # NoInode
      /\ DataOf(nas', p) = DataOf(nas, p) /\ TimeOf(nas', p) = TimeOf(nas, p)
      /\ DataOf(cache', f) = DataOf(cache, f) /\ TimeOf(cache', f) = TimeOf(cache, f)
  BY <1>2 DEF SameFile
<1>7. CASE Agree(DataOf(nas, p), DataOf(cache, f), req, blocks, p)
  <2>1. /\ \A k : Cut(req, p, k) => Cut(req', p, k)
        /\ \A b : Busy(req, p, b) => Busy(req', p, b)
    BY <1>1, CutBusy
  <2>2. Agree(DataOf(nas, p), DataOf(cache, f), req', blocks', p)
    BY <1>3, <1>7, <2>1, AgreeKept
  <2>3. QED  BY <1>6, <2>2 DEF Agree
<1>8. CASE Outdated(p)
  <2>1. \A u \in Threads : req'[u].path = p => req'[u] = req[u]
    BY <1>4, <1>5 DEF Moved, Kept
  <2>2. \A h \in Handles : handles'[h].path # p
    <3>1. \A h \in Handles : \/ handles'[h] = handles[h]
                             \/ handles'[h].path \in {P, NoPath}
      BY <1>1, HandleView
    <3>2. QED  BY <1>5, <1>8, <3>1 DEF Outdated
  <2>3. \A u \in Threads : req'[u].path = p => Waiting(req'[u], TimeOf(nas, p))
    BY <1>8, <2>1 DEF Outdated
  <2>4. Outdated(p)'
    BY <1>6, <1>8, <2>2, <2>3 DEF Outdated
  <2>5. QED  BY <2>4
<1>9. QED  BY <1>6, <1>7, <1>8 DEF FileOK

---------------------------------------------------------------------------
\* The bytes of files there are.
LEMMA FileBytes ==
  ASSUME FileInv
  PROVE  /\ \A p \in Paths : nas.dir[p] # NoInode =>
              /\ nas.dir[p] \in Inodes /\ DataOf(nas, p) \in Seq(NasBytes)
              /\ Len(DataOf(nas, p)) \in 0 .. MaxSize
         /\ \A f \in Names : cache.dir[f] # NoInode =>
              cache.dir[f] \in Inodes /\ DataOf(cache, f) \in Seq(ByteSet)
<1>1. /\ FileSystem(nas, Paths, NasBytes) /\ FileSystem(cache, Names, ByteSet)
      /\ \A i \in Inodes : Len(nas.data[i]) <= MaxSize
  BY DEF FileInv, DirsInv
<1>2. \A i \in Inodes : nas.data[i] \in Seq(NasBytes) /\ cache.data[i] \in Seq(ByteSet)
  BY <1>1 DEF FileSystem
<1>3. \A i \in Inodes : Len(nas.data[i]) \in 0 .. MaxSize
  BY <1>1, <1>2, LenProperties, BlockSize
<1>4. /\ \A p \in Paths : nas.dir[p] # NoInode => nas.dir[p] \in Inodes
      /\ \A f \in Names : cache.dir[f] # NoInode => cache.dir[f] \in Inodes
  BY <1>1 DEF FileSystem
<1>5. QED  BY <1>2, <1>3, <1>4 DEF DataOf

\* The NAS has bytes that programs write, and holes.
LEMMA NasSeq ==
  ASSUME NEW d \in Seq(NasBytes)
  PROVE  d \in Seq(ByteSet) /\ Len(d) \in Nat
<1>1. NasBytes \subseteq ByteSet
  BY DEF NasBytes, ByteSet
<1>2. Len(d) \in Nat /\ \A k \in 1 .. Len(d) : d[k] \in ByteSet
  BY <1>1, LenProperties, ElementOfSeq
<1>3. d = [k \in 1 .. Len(d) |-> d[k]]
  BY LenProperties
<1>4. QED  BY <1>2, <1>3, IsASeq

\* What the pwrite and the ftruncate to the NAS make of the file.
LEMMA NasCalls ==
  ASSUME FileInv, PathInv, UsersInv, NamesInv, NEW t \in Threads
  PROVE  LET p == req[t].path
             d == DataOf(nas, p)
         IN /\ trunc_nas(t) =>
                 /\ req[t].op = "truncate" /\ nas'.dir = nas.dir
                 /\ DataOf(nas', p) = Resized(d, req[t].len)
            /\ write_nas(t) /\ req[t].len # 0 =>
                 /\ req[t].op = "write" /\ nas'.dir = nas.dir
                 /\ DataOf(nas', p) = Written(d, req[t].off,
                                        [k \in 1 .. req[t].len |-> req[t].val])
<1> DEFINE p == req[t].path
           i == nas.dir[p]
<1>1. FileSystem(nas, Paths, NasBytes) /\ OneName(nas.dir) /\ AtStep(req[t])
  BY DEF FileInv, DirsInv, NamesInv, PathInv, PathReqs, Shape
<1>2. CASE trunc_nas(t)
  <2>1. req[t].op = "truncate" /\ p \in Paths /\ req[t].op # "write"
    BY <1>1, <1>2, InCallback DEF trunc_nas, Pc, AtStep
  <2>2. i # NoInode /\ i \in Inodes
    BY <1>1, <2>1 DEF UsersInv, FileSystem
  <2>3. req[t].h # NoHandle => fh(t).nas = i
    BY <2>1, Descriptors DEF UsesHandle
  <2> DEFINE new == Ftruncate(nas, i, req[t].len, clock)
  <2>4. nas' = new
    BY <1>2, <2>2, <2>3 DEF trunc_nas
  <2>5. new.dir = nas.dir /\ DataOf(new, p) = Resized(nas.data[i], req[t].len)
    BY <1>1, <2>1, <2>2, CallsLocal
  <2>6. ~write_nas(t)
    BY <1>2 DEF trunc_nas, write_nas, write_nasAs, Pc
  <2> HIDE DEF new
  <2>7. QED  BY <2>1, <2>4, <2>5, <2>6 DEF DataOf
<1>3. CASE write_nas(t) /\ req[t].len # 0
  <2>1. req[t].op = "write"
    BY <1>1, <1>3 DEF write_nas, write_nasAs, Pc, AtStep
  <2>2. p \in Paths /\ fh(t).nas = i /\ i \in Inodes
    BY <2>1, Descriptors DEF UsesHandle
  <2> DEFINE bytes == [k \in 1 .. req[t].len |-> req[t].val]
             new   == Pwrite(nas, i, req[t].off, bytes, clock)
  <2>3. nas' = new
    BY <1>3, <2>2 DEF write_nas, write_nasAs
  <2>4. /\ new.dir = nas.dir
        /\ DataOf(new, p) = Written(nas.data[i], req[t].off, bytes)
    <3> HIDE DEF bytes
    <3>1. QED  BY <1>1, <2>2, CallsLocal
  <2>5. ~trunc_nas(t)
    BY <1>3 DEF trunc_nas, write_nas, write_nasAs, Pc
  <2> HIDE DEF new
  <2>6. QED  BY <2>1, <2>3, <2>4, <2>5 DEF DataOf
<1>4. QED  BY <1>2, <1>3

\* The bytes of a write, as cfs_write writes them.
\* w is old, with n bytes v from off on.
Stored(w, old, off, n, v) ==
  /\ Len(w) = Larger(Len(old), off + n)
  /\ \A k \in 1 .. Len(w) :
       /\ k \in off + 1 .. off + n => w[k] = v
       /\ k \notin off + 1 .. off + n => k <= Len(old) /\ w[k] = old[k]

\* The bytes of the file after cfs_write wrote a value n times.
LEMMA WrittenValue ==
  ASSUME NEW old \in Seq(ByteSet), NEW off \in Nat, NEW n \in Nat,
         NEW v \in ByteSet, off <= Len(old),
         NEW w, w = Written(old, off, [k \in 1 .. n |-> v])
  PROVE  Stored(w, old, off, n, v)
<1> DEFINE s == [k \in 1 .. n |-> v]
<1>1. s \in Seq(ByteSet) /\ Len(s) = n
  <2>1. s \in [1 .. n -> ByteSet]
    OBVIOUS
  <2>2. s \in Seq(ByteSet)
    BY <2>1, SeqDef
  <2>3. DOMAIN s = 1 .. n
    OBVIOUS
  <2> HIDE DEF s
  <2>4. QED  BY <2>2, <2>3, LengthIs
<1>2. (\A k \in 1 .. n : s[k] = v) /\ w = Written(old, off, s)
  OBVIOUS
<1> HIDE DEF s
<1>3. Zero \in ByteSet /\ Len(old) \in Nat
  BY LenProperties DEF ByteSet
<1>4. /\ Len(w) = Larger(Len(old), off + n)
      /\ \A k \in 1 .. Len(w) :
           w[k] = IF k \in off + 1 .. off + n THEN s[k - off]
                  ELSE IF k <= Len(old) THEN old[k] ELSE Zero
  <2>1. Placed(w, old, off, s)
    BY <1>1, <1>2, <1>3, WrittenBytes
  <2>2. QED  BY <1>1, <2>1 DEF Placed
<1>5. ASSUME NEW k \in 1 .. Len(w)
      PROVE  /\ k \in off + 1 .. off + n => w[k] = v
             /\ k \notin off + 1 .. off + n => k <= Len(old) /\ w[k] = old[k]
  <2>1. k \in Nat /\ k <= Larger(Len(old), off + n) /\ k >= 1
    BY <1>3, <1>4 DEF Larger
  <2>2. k \in off + 1 .. off + n => k - off \in 1 .. n
    BY <2>1
  <2>3. k \notin off + 1 .. off + n => k <= Len(old)
    BY <1>3, <2>1 DEF Larger
  <2>4. QED  BY <1>2, <1>4, <2>2, <2>3
<1>6. QED  BY <1>4, <1>5 DEF Stored

\* A request for data knows as much of its file after a step of another thread:
\* a write or a truncation has it to itself, and of a read the bytes that stay
\* are the same.
LEMMA OtherData ==
  ASSUME AloneInv, NEW t \in Threads, Daemon(t), RequestOK(t),
         NEW u \in Threads \ {t}, req[u].op \in {"read", "write", "truncate"}
  PROVE  LET p == req[u].path
             d == DataOf(nas, p)
             e == DataOf(nas', p)
         IN /\ req[u].op # "read" => e = d
            /\ req[u].op = "read" /\ req[u].len # 0 =>
                 \A k \in req[u].off + 1 .. req[u].off + req[u].len :
                   Stable(e, req', p, k) => Stable(d, req, p, k) /\ e[k] = d[k]
<1> DEFINE p == req[u].path
           P == req[t].path
           d == DataOf(nas, p)
           e == DataOf(nas', p)
<1>1. /\ FileInv /\ PathInv /\ UsersInv /\ NamesInv /\ ShareInv /\ RowsInv
      /\ Apart(req[t], req[u])
  BY DEF AloneInv, SharedInv, ShareInv, ApartInv
<1>2. p \in Paths /\ P \in Paths /\ nas.dir[p] # NoInode
  <2>1. req[u].pc # "idle" /\ req[t].pc # "idle"
    BY <1>1, DaemonStep DEF PathInv, PathReqs, Shape, AtStep
  <2>2. p \in Paths /\ P \in Paths
    BY <1>1, <2>1, InCallback
  <2>3. nas.dir[p] # NoInode
    BY <1>1, Descriptors DEF UsersInv, UsesHandle
  <2>4. QED  BY <2>2, <2>3
<1>3. d \in Seq(NasBytes) /\ d \in Seq(ByteSet) /\ Len(d) \in Nat
  BY <1>1, <1>2, FileBytes, NasSeq
<1>4. /\ \A k : Cut(req', p, k) => Cut(req, p, k)
      /\ \A k : Cut(req, p, k) => Cut(req', p, k) \/ (trunc_nas(t) /\ p = P)
  BY <1>1, <1>2, CutBusy
<1>5. CASE e = d /\ ~ (trunc_nas(t) /\ p = P)
  BY <1>4, <1>5 DEF Stable
<1>6. p # P => e = d
  BY <1>1, <1>2, NasView DEF OnlyFile, SameFile, PathInv, DirInv
<1>7. CASE p = P /\ trunc_nas(t)
  <2>1. req[t].op = "truncate" /\ e = Resized(d, req[t].len)
    BY <1>1, <1>7, NasCalls
  <2>2. req[u].op = "read"
    BY <1>1, <1>7, <2>1 DEF Apart
  <2>3. req[t].len < Len(d) /\ req[t].len \in Nat
    BY <1>1, <1>7, <2>1 DEF RequestOK, TruncOK, FileInv, RequestsInv, Typed, LocalTypes
  <2> HIDE DEF d, e
  <2>4. Shortened(e, d, req[t].len)
    BY <1>3, <2>1, <2>3, ResizedBytes DEF NasBytes
  <2>5. ASSUME NEW k, Stable(e, req', p, k)
        PROVE  Stable(d, req, p, k) /\ e[k] = d[k]
    <3>1. k \in 1 .. req[t].len /\ k \in 1 .. Len(d) /\ e[k] = d[k]
      BY <1>3, <2>3, <2>4, <2>5 DEF Stable, Shortened
    <3>2. ~Cut(req, p, k)
      <4>1. Moved(t)
        BY <1>1, DaemonMoves DEF FileInv
      <4>2. ASSUME NEW v \in Threads, req[v].op = "truncate", req[v].path = p,
                   k > req[v].len
            PROVE  FALSE
        <5>1. v # t
          BY <2>3, <3>1, <4>2
        <5>2. req'[v] = req[v]
          BY <4>1, <5>1 DEF Moved
        <5>3. QED  BY <2>5, <4>2, <5>2 DEF Stable, Cut
      <4>3. QED  BY <4>2 DEF Cut
    <3>3. QED  BY <3>1, <3>2 DEF Stable
  <2>6. QED  BY <2>2, <2>5 DEF d, e
<1>8. CASE p = P /\ write_nas(t) /\ req[u].len # 0
  <2>1. req[t].op = "write" /\ req[t].pc = "write_nas" /\ ~trunc_nas(t)
    BY <1>1, <1>8 DEF write_nas, write_nasAs, trunc_nas, Pc, PathInv, PathReqs, Shape, AtStep
  <2>2. req[u].op = "read"
    BY <1>1, <1>8, <2>1 DEF Apart
  <2>3. /\ req[t].off \in Nat /\ req[t].len \in Nat /\ req[t].val \in ByteSet
        /\ req[u].off \in Nat /\ req[u].len \in Nat \ {0}
    BY <1>1, <1>8 DEF FileInv, RequestsInv, Typed, LocalTypes, ByteSet
  <2>4. req[t].off <= Len(d) /\ req[t].len # 0
    <3>1. req[t].off <= Len(d) /\ req[t].len \in 1 .. PageSize
      BY <1>8, <2>1 DEF RequestOK, WriteOK
    <3>2. QED  BY <2>3, <3>1, PageOfBlock
  <2>5. e = Written(d, req[t].off, [k \in 1 .. req[t].len |-> req[t].val])
    BY <1>1, <1>8, <2>4, NasCalls
  <2> HIDE DEF d, e
  <2>6. Stored(e, d, req[t].off, req[t].len, req[t].val)
    BY <1>3, <2>3, <2>4, <2>5, WrittenValue
  <2>7. ASSUME NEW k \in req[u].off + 1 .. req[u].off + req[u].len,
               Stable(e, req', p, k)
        PROVE  Stable(d, req, p, k) /\ e[k] = d[k]
    <3>1. \A x \in req[t].off .. req[t].off + req[t].len - 1 :
            x \notin req[u].off .. req[u].off + req[u].len - 1
      BY <1>1, <1>8, <2>1, <2>2, <2>3, <2>4, NotShared
    <3>2. k \in Nat /\ k - 1 \in req[u].off .. req[u].off + req[u].len - 1
      BY <2>3
    <3>3. k \notin req[t].off + 1 .. req[t].off + req[t].len
      BY <2>3, <3>1, <3>2
    <3>4. k \in 1 .. Len(e) /\ ~Cut(req', p, k)
      BY <2>7 DEF Stable
    <3>5. k <= Len(d) /\ e[k] = d[k]
      BY <2>6, <3>3, <3>4 DEF Stored
    <3>6. k \in 1 .. Len(d)
      BY <1>3, <3>2, <3>4, <3>5
    <3>7. QED  BY <1>4, <2>1, <3>4, <3>5, <3>6 DEF Stable
  <2>8. QED  BY <2>2, <2>7 DEF d, e
<1>9. CASE p = P /\ ~trunc_nas(t) /\ ~write_nas(t)
  <2>1. req[t].op # "unlink"
    BY <1>9 DEF AloneInv, SharedInv, PathInv, LockInv
  <2>2. e = d
    BY <1>1, <1>2, <1>9, <2>1, NasView DEF DataOf
  <2>3. QED  BY <1>5, <1>9, <2>2
<1>10. CASE p = P /\ write_nas(t) /\ req[u].op # "read"
  <2>1. req[t].op = "write"
    BY <1>1, <1>10 DEF write_nas, write_nasAs, Pc, PathInv, PathReqs, Shape, AtStep
  <2>2. QED  BY <1>1, <1>10, <2>1 DEF Apart
<1>11. QED
  BY <1>5, <1>6, <1>7, <1>8, <1>9, <1>10

\* The buffer of cfs_read never has more than was asked for.
LEMMA BufferFits ==
  ASSUME NEW r, NEW B, NEW lo, NEW hi, Span(r, lo, hi),
         Progress(r, B, lo, hi, First(r.todo)), r.off \in Nat, r.len \in Nat,
         Len(r.buf) \in Nat, r.op = "read", AtStep(r)
  PROVE  Len(r.buf) <= r.len
<1> DEFINE b == First(r.todo)
<1>1. /\ BS \in Nat \ {0} /\ lo \in Nat /\ hi \in Nat
      /\ r.off + r.len = BS * (hi + 1)
  BY BlockSize DEF Span
<1>2. CASE r.pc \in {"read_check", "read_all"}
  <2>1. r.buf = <<>>
    BY <1>2 DEF Progress
  <2>2. QED  BY <2>1
<1>3. CASE r.pc \in {"read_block", "cache_record", "cache_pwrite"}
  <2>1. /\ b \in lo .. hi
        /\ r.off + Len(r.buf) = BS * b \/ r.off + Len(r.buf) = BS * (b + 1)
    BY <1>3 DEF Progress
  <2> HIDE DEF b
  <2>2. BS * b <= BS * (hi + 1) /\ BS * (b + 1) <= BS * (hi + 1)
        /\ BS * b \in Int /\ BS * (b + 1) \in Int /\ BS * (hi + 1) \in Int
    BY <1>1, <2>1, Multiples
  <2>3. QED  BY <1>1, <2>1, <2>2
<1>4. CASE r.pc = "read_done"
  BY <1>4 DEF Progress
<1>5. QED  BY <1>2, <1>3, <1>4 DEF AtStep

\* What a request knows of its file stays so when another thread moves.
LEMMA OtherRequests ==
  ASSUME AloneInv, PathInv', NoCollision, NEW t \in Threads, Daemon(t), RequestOK(t),
         NEW u \in Threads \ {t}, RequestOK(u)
  PROVE  RequestOK(u)'
<1> DEFINE r == req[u]
           p == r.path
           d == DataOf(nas, p)
           e == DataOf(nas', p)
<1>1. /\ FileInv /\ PathInv /\ RowsInv /\ SharedInv
  BY DEF AloneInv, SharedInv
<1>2. req'[u] = r
  BY <1>1, DaemonMoves DEF FileInv, Moved
<1>3. WriteOK(r, d) /\ TruncOK(r, d) /\ ReadOK(r, d, req, blocks)
  BY DEF RequestOK
<1>4. r.op \in {"write", "truncate"} => e = d
  BY OtherData
<1>5. WriteOK(r, e) /\ TruncOK(r, e)
  <2> HIDE DEF r, d, e
  <2>1. QED  BY <1>3, <1>4 DEF WriteOK, TruncOK
<1>6. ASSUME r.op = "read"  PROVE ReadOK(r, e, req', blocks')
  <2>1. PICK lo, hi : Span(r, lo, hi) /\ Progress(r, blocks, lo, hi, First(r.todo))
    BY <1>3, <1>6 DEF ReadOK
  <2>2. Fetched(r, d, req)
    BY <1>3, <1>6 DEF ReadOK
  <2>3. /\ r.off \in Nat /\ r.len \in Nat /\ r.buf \in Seq(ByteSet) /\ AtStep(r)
    BY <1>1 DEF FileInv, RequestsInv, Typed, LocalTypes, PathInv, PathReqs, Shape
  <2>4. Len(r.buf) \in Nat
    BY <2>3, LenProperties
  <2>5. Len(r.buf) <= r.len
    BY <1>6, <2>1, <2>3, <2>4, BufferFits
  <2>6. \A x : <<pathToFileName(p), x>> \in blocks => <<pathToFileName(p), x>> \in blocks'
    <3>1. TablesFor(t)
      BY <1>1, DaemonRows DEF AloneInv
    <3>2. req[t].op \in {"open", "unlink"} => pathToFileName(p) # name(t)
      BY <1>1, <1>6, Exclusive DEF name
    <3>3. QED  BY <3>1, <3>2 DEF TablesFor
  <2>7. ASSUME NEW k \in r.off + 1 .. r.off + Len(r.buf), Stable(e, req', p, k)
        PROVE  r.buf[k - r.off] = e[k] /\ k - r.off <= r.count
    <3>1. k \in r.off + 1 .. r.off + r.len /\ r.len # 0
      BY <2>3, <2>4, <2>5
    <3>2. Stable(d, req, p, k) /\ e[k] = d[k]
      BY <1>6, <2>7, <3>1, OtherData
    <3> HIDE DEF r, d, e
    <3>3. QED  BY <2>2, <2>7, <3>2 DEF Fetched, p
  <2> HIDE DEF r, d, e
  <2>8. Progress(r, blocks', lo, hi, First(r.todo))
    BY <2>1, <2>6 DEF Progress, p
  <2>9. Fetched(r, e, req')
    BY <2>2, <2>7 DEF Fetched, p
  <2>10. QED  BY <2>1, <2>8, <2>9 DEF ReadOK
<1>7. ReadOK(r, e, req', blocks')
  BY <1>6 DEF ReadOK
<1>8. RequestOK(u)' <=> WriteOK(req'[u], DataOf(nas', req'[u].path))
                        /\ TruncOK(req'[u], DataOf(nas', req'[u].path))
                        /\ ReadOK(req'[u], DataOf(nas', req'[u].path), req', blocks')
  BY DEF RequestOK
<1> HIDE DEF r, e
<1>9. QED  BY <1>2, <1>5, <1>7, <1>8 DEF e, p

---------------------------------------------------------------------------
(***************************************************************************)
(* The file a callback works on.                                           *)
(***************************************************************************)
\* A new row is of a block the callback is about to write to the cache.
LEMMA NewRows ==
  ASSUME AloneInv, NEW t \in Threads, Daemon(t), RequestOK(t)
  PROVE  \A f, b : <<f, b>> \in blocks' =>
           \/ <<f, b>> \in blocks
           \/ f = name(t) /\ Busy(req', req[t].path, b)
<1>1. RowsInv /\ PathInv
  BY DEF AloneInv, SharedInv
<1>2. CASE MetaStep(t) /\ UNCHANGED cfsVars
  <2>1. CASE InsertRow(t)
    <3>1. PICK b \in call[t].todo :
            blocks' = blocks \cup {<<call[t].name, b>>} \/ blocks' = blocks
      BY <2>1 DEF InsertRow
    <3>2. /\ req[t].pc = "cache_pwrite" /\ call[t].name = name(t)
          /\ call[t].todo \subseteq WriteBlocks(t)
      BY <1>1, <2>1 DEF RowsInv, RowsOK, FrameOf, InsertRow, At, NoCall, Fresh
    <3>3. BusyWith(req[t], req[t].path, b)
      <4>1. req[t].op \in {"read", "write"}
        BY <1>1, <3>2 DEF PathInv, PathReqs, Shape, AtStep
      <4>2. CASE req[t].op = "read"
        BY <3>1, <3>2, <4>2 DEF WriteBlocks, BlockInHand, BusyWith, First
      <4>3. CASE req[t].op = "write"
        <5>1. req[t].todo = RequestBlocks(req[t])
          BY <4>3 DEF RequestOK, WriteOK
        <5>2. b \in RequestBlocks(req[t])
          BY <3>1, <3>2, <4>3, <5>1 DEF WriteBlocks
        <5>3. QED  BY <4>3, <5>2 DEF BusyWith
      <4>4. QED  BY <4>1, <4>2, <4>3
    <3>4. Busy(req', req[t].path, b)
      BY <1>2, <3>3 DEF Busy, cfsVars
    <3>5. QED  BY <3>1, <3>2, <3>4
  <2>2. CASE is_blk_in_cache(t) \/ UpdateLocalSize(t) \/ SelectSize(t) \/ LoadUsed(t)
    BY <2>2 DEF is_blk_in_cache, UpdateLocalSize, SelectSize, LoadUsed
  <2>3. CASE StoreUsed(t) \/ SelectAgain(t)
    BY <2>3 DEF StoreUsed, SelectAgain
  <2>4. CASE DeleteBlockRow(t)
    BY <2>4 DEF DeleteBlockRow
  <2>5. CASE DeleteFileRow(t)
    BY <2>5 DEF DeleteFileRow, Surviving
  <2>6. QED  BY <1>2, <2>1, <2>2, <2>3, <2>4, <2>5 DEF MetaStep
<1>3. CASE cfs_open(t)
  BY <1>3 DEF cfs_open, open_nas, open_present, open_presentAs, open_stat,
    open_statAs, open_date, open_dateAs, open_unlink, open_create, open_mknod,
    open_cache, NoSQL, metaVars, delete_file, Enter, create_file
<1>4. CASE cfs_read(t)
  BY <1>4 DEF cfs_read, read_check, read_checkAs, read_all, read_allAs,
    read_block, read_blockAs, read_done, NoSQL, metaVars
<1>5. CASE cfs_write(t)
  BY <1>5 DEF cfs_write, write_nas, write_nasAs, write_stat, write_statAs,
    write_read, write_readAs, NoSQL, metaVars
<1>6. CASE cfs_cacheWrite(t)
  BY <1>6 DEF cfs_cacheWrite, cache_wait, cache_record, cache_pwrite,
    cache_pwriteAs, NoSQL, metaVars, vars, write_blks, Enter
<1>7. CASE cfs_mknod(t) \/ cfs_unlink(t)
  BY <1>7 DEF cfs_mknod, cfs_unlink, unlink_meta, unlink_cache, unlink_nas,
    NoSQL, metaVars, delete_file, Enter
<1>8. CASE cfs_truncate(t) \/ cfs_utime(t) \/ cfs_release(t)
  BY <1>8 DEF cfs_truncate, trunc_cache, trunc_nas, cfs_utime, utime_cache,
    utime_nas, cfs_release, release_dig, release_close, NoSQL, metaVars
<1>9. QED
  BY <1>1, <1>2, <1>3, <1>4, <1>5, <1>6, <1>7, <1>8, DaemonStep

\* A file that is stale stays so: it is opened, made or removed, and whoever
\* opens it finds out.
LEMMA StaleStays ==
  ASSUME AloneInv, PathInv', NoCollision, NEW t \in Threads, Daemon(t),
         NEW P \in Paths, P = req[t].path, Outdated(P), NEW f, f = pathToFileName(P),
         nas.dir[P] # NoInode, nas'.dir[P] # NoInode,
         cache.dir[f] # NoInode, cache'.dir[f] # NoInode
  PROVE  Outdated(P)' \/ f \notin files
<1> DEFINE m == TimeOf(nas, P)
<1>1. /\ FileInv /\ PathInv /\ UsersInv /\ NamesInv /\ RowsInv
      /\ AtStep(req[t]) /\ DOMAIN req[t] = Fields
  BY DEF AloneInv, SharedInv, ShareInv, PathInv, PathReqs, Shape
<1>2. P \in Paths /\ f \in Names /\ f = name(t)
  BY <1>1, DaemonStep, InCallback DEF name
<1>3. Behind(TimeOf(cache, f), m) /\ Waiting(req[t], m)
  BY <1>2 DEF Outdated
<1>4. /\ req[t].op \in {"mknod", "unlink", "open"}
      /\ req[t].op = "open" => req[t].pc \in {"open_nas", "open_present",
                                   "open_stat", "open_unlink", "open_date"}
  BY <1>1, <1>3 DEF Waiting, AtStep
<1>5. SUFFICES ASSUME f \in files
               PROVE  /\ nas' = nas /\ cache' = cache /\ handles' = handles
                      /\ req'[t] = NoReq \/ Waiting(req'[t], m)
  <2>1. Moved(t)
    BY <1>1, DaemonMoves DEF FileInv
  <2>2. P # NoPath /\ NoReq.path = NoPath
    BY <1>2, CacheFSAssumption DEF NoReq
  <2>3. \A u \in Threads : req[u].path = P => Waiting(req[u], m)
    BY DEF Outdated
  <2>4. ASSUME nas' = nas, cache' = cache, handles' = handles,
               req'[t] = NoReq \/ Waiting(req'[t], m)
        PROVE  Outdated(P)'
    <3>1. \A u \in Threads : req'[u].path = P => Waiting(req'[u], m)
      BY <2>1, <2>2, <2>3, <2>4 DEF Moved
    <3>2. \A h \in Handles : handles'[h].path # P
      BY <2>4 DEF Outdated
    <3>3. TimeOf(nas', P) = m /\ TimeOf(cache', f) = TimeOf(cache, f)
      BY <2>4
    <3> HIDE DEF m
    <3>4. Behind(TimeOf(cache', pathToFileName(P)), TimeOf(nas', P))
      BY <1>3, <3>3
    <3>5. \A u \in Threads : req'[u].path = P => Waiting(req'[u], TimeOf(nas', P))
      BY <3>1, <3>3
    <3>6. QED  BY <3>2, <3>4, <3>5 DEF Outdated
  <2>5. QED  BY <2>4
<1>6. CASE MetaStep(t) /\ UNCHANGED cfsVars
  BY <1>3, <1>6 DEF cfsVars
<1>7. CASE cfs_mknod(t)
  <2>1. nas' = nas
    BY <1>7 DEF cfs_mknod, Create
  <2>2. req'[t] = NoReq
    BY <1>1, <1>7 DEF cfs_mknod, Return, Go, PathInv, PathReqs
  <2>3. QED  BY <1>7, <2>1, <2>2 DEF cfs_mknod
<1>8. CASE cfs_unlink(t)
  <2>1. ~unlink_cache(t) /\ ~unlink_nas(t)
    <3>1. Unlink(cache, f).dir[f] = NoInode /\ Unlink(nas, P).dir[P] = NoInode
      BY <1>1, <1>2 DEF Unlink, PathInv, DirInv
    <3>2. QED  BY <1>2, <3>1 DEF unlink_cache, unlink_nas
  <2>2. unlink_meta(t)
    BY <1>8, <2>1 DEF cfs_unlink
  <2>3. req[t].op = "unlink"
    BY <1>1, <2>2 DEF unlink_meta, Pc, AtStep
  <2>4. req'[t] = [req[t] EXCEPT !.pc = "unlink_cache"]
    BY <1>1, <2>2 DEF unlink_meta, Go, PathInv, PathReqs
  <2>5. req'[t].op = "unlink"
    BY <1>1, <2>3, <2>4 DEF Fields, NoReq
  <2>6. QED  BY <2>2, <2>5 DEF unlink_meta, NoFile, Waiting
<1>9. CASE cfs_open(t)
  <2>0. DOMAIN req = Threads /\ {"pc", "num", "op", "ino", "present"} \subseteq Fields
    BY <1>1 DEF PathInv, PathReqs, Fields, NoReq
  <2>1. CASE open_nas(t)
    <3>1. PICK i : req'[t] = [req[t] EXCEPT !.ino = i, !.pc = "open_present"]
      BY <2>0, <2>1 DEF open_nas, Go
    <3>2. req'[t].pc = "open_present"
      BY <1>1, <2>0, <3>1
    <3>3. QED  BY <2>1, <3>2 DEF open_nas, NoFile, Waiting
  <2>2. CASE open_present(t)
    <3>1. \/ req'[t] = [req[t] EXCEPT !.pc = "open_unlink"]
          \/ req'[t] = NoReq
          \/ req'[t] = [req[t] EXCEPT !.pc = "open_stat", !.present = name(t) \in files]
      BY <2>0, <2>2 DEF open_present, open_presentAs, Go, Return
    <3>2. req'[t] = NoReq \/ req'[t].pc \in {"open_unlink", "open_stat"}
      BY <1>1, <2>0, <3>1
    <3>3. QED  BY <2>2, <3>2 DEF open_present, open_presentAs, NoFile, Waiting
  <2>3. CASE open_stat(t)
    <3>1. req[t].present
      BY <1>1, <1>2, <1>5, <2>3 DEF RowsInv, RowsOK, Listed, open_stat, open_statAs, Pc
    <3>2. NasTimes(P) = {m}
      BY DEF NasTimes, TimeOf
    <3> HIDE DEF m
    <3>3. \E k \in NasTimes(P) : Go(t, [req[t] EXCEPT !.num = k,
                        !.pc = IF req[t].present THEN "open_date" ELSE "open_create"])
      BY <2>3 DEF open_stat, open_statAs
    <3>4. req'[t] = [req[t] EXCEPT !.num = m,
                        !.pc = IF req[t].present THEN "open_date" ELSE "open_create"]
      BY <2>0, <3>2, <3>3 DEF Go
    <3>5. req'[t].pc = "open_date" /\ req'[t].num = m
      BY <1>1, <2>0, <3>1, <3>4
    <3>6. QED  BY <2>3, <3>5 DEF open_stat, open_statAs, NoFile, Waiting
  <2>4. CASE open_date(t)
    <3>1. req[t].num = m
      BY <1>1, <1>3, <2>4 DEF Waiting, open_date, open_dateAs, Pc, AtStep
    <3>2. CacheTimes(f) = {TimeOf(cache, f)}
      BY DEF CacheTimes, TimeOf
    <3> HIDE DEF m
    <3>3. \E k \in CacheTimes(f) :
             \/ Behind(k, req[t].num) /\ Go(t, [req[t] EXCEPT !.pc = "open_unlink"])
             \/ ~Behind(k, req[t].num)
      BY <1>2, <2>4 DEF open_date, open_dateAs
    <3>4. Go(t, [req[t] EXCEPT !.pc = "open_unlink"])
      BY <1>3, <3>1, <3>2, <3>3
    <3>5. req'[t].pc = "open_unlink"
      BY <1>1, <2>0, <3>4 DEF Go
    <3>6. QED  BY <2>4, <3>5 DEF open_date, open_dateAs, NoFile, Waiting
  <2>5. ~open_unlink(t)
    <3>1. Unlink(cache, f).dir[f] = NoInode
      BY <1>1, <1>2 DEF Unlink, PathInv, DirInv
    <3>2. QED  BY <1>2, <3>1 DEF open_unlink
  <2>6. ~open_create(t) /\ ~open_mknod(t) /\ ~open_cache(t)
    BY <1>1, <1>4 DEF open_create, open_mknod, open_cache, Pc, AtStep
  <2>7. QED  BY <1>9, <2>1, <2>2, <2>3, <2>4, <2>5, <2>6 DEF cfs_open
<1>10. QED
  BY <1>1, <1>4, <1>6, <1>7, <1>8, <1>9, DaemonStep

\* Two files that agree still do after each of the calls on one of them: an
\* ftruncate and a pwrite of the NAS file, the same of the cache file.
LEMMA AgreeNasShorter ==
  ASSUME NEW d \in Seq(NasBytes), NEW c, NEW q, NEW r, NEW B, NEW p,
         Agree(d, c, q, B, p), NEW n \in Nat, n < Len(d),
         NEW e, e = Resized(d, n),
         \A k : Cut(q, p, k) => Cut(r, p, k) \/ k > n,
         \A b : Busy(q, p, b) => Busy(r, p, b)
  PROVE  Agree(e, c, r, B, p)
<1>1. Shortened(e, d, n) /\ Len(d) \in Nat
  BY ResizedBytes, LenProperties DEF NasBytes
<1>2. ASSUME NEW k \in 1 .. Len(e), ~Cut(r, p, k),
             <<pathToFileName(p), BlockOf(k)>> \in B, ~Busy(r, p, BlockOf(k))
      PROVE  k <= Len(c) /\ c[k] = e[k]
  <2>1. k \in 1 .. n /\ k \in 1 .. Len(d) /\ e[k] = d[k]
    BY <1>1, <1>2 DEF Shortened
  <2>2. ~Cut(q, p, k) /\ ~Busy(q, p, BlockOf(k))
    BY <1>2, <2>1
  <2>3. QED  BY <1>2, <2>1, <2>2 DEF Agree
<1>3. QED  BY <1>2 DEF Agree

\* A write to the NAS leaves the two agreeing outside of its own blocks, which
\* are busy.
LEMMA AgreeNasWritten ==
  ASSUME NEW d, NEW c, NEW q, NEW r, NEW B, NEW p, Agree(d, c, q, B, p),
         NEW off, NEW n, NEW v, NEW e, Stored(e, d, off, n, v),
         Len(d) \in Nat, off \in Nat, n \in Nat,
         \A k \in off + 1 .. off + n : Busy(r, p, BlockOf(k)),
         \A k : Cut(q, p, k) => Cut(r, p, k),
         \A b : Busy(q, p, b) => Busy(r, p, b)
  PROVE  Agree(e, c, r, B, p)
<1>1. ASSUME NEW k \in 1 .. Len(e), ~Cut(r, p, k),
             <<pathToFileName(p), BlockOf(k)>> \in B, ~Busy(r, p, BlockOf(k))
      PROVE  k <= Len(c) /\ c[k] = e[k]
  <2>1. k \notin off + 1 .. off + n
    BY <1>1
  <2>2. k <= Len(d) /\ e[k] = d[k]
    BY <2>1 DEF Stored
  <2>3. k \in 1 .. Len(d)
    BY <2>2
  <2>4. QED  BY <1>1, <2>2, <2>3 DEF Agree
<1>2. QED  BY <1>1 DEF Agree

\* Truncating the cache file leaves them agreeing below the cut.
LEMMA AgreeCacheShorter ==
  ASSUME NEW d, NEW c \in Seq(ByteSet), NEW q, NEW r, NEW B, NEW p,
         Agree(d, c, q, B, p), Len(d) \in Nat, NEW n \in Nat,
         NEW e, e = Resized(c, n),
         \A k \in Nat : k > n => Cut(r, p, k),
         \A k : Cut(q, p, k) => Cut(r, p, k),
         \A b : Busy(q, p, b) => Busy(r, p, b)
  PROVE  Agree(d, e, r, B, p)
<1>1. Shortened(e, c, n) /\ Len(c) \in Nat
  BY ResizedBytes, LenProperties DEF ByteSet
<1>2. ASSUME NEW k \in 1 .. Len(d), ~Cut(r, p, k),
             <<pathToFileName(p), BlockOf(k)>> \in B, ~Busy(r, p, BlockOf(k))
      PROVE  k <= Len(e) /\ e[k] = d[k]
  <2>1. k \in Nat /\ k <= n /\ k >= 1
    BY <1>2
  <2>2. k <= Len(c) /\ c[k] = d[k]
    BY <1>2 DEF Agree
  <2>3. QED  BY <1>1, <2>1, <2>2 DEF Shortened
<1>3. QED  BY <1>2 DEF Agree

\* Writing to the cache what the NAS has makes them agree where it is written, so
\* that these blocks need not be busy any more.
LEMMA AgreeCacheWritten ==
  ASSUME NEW d, NEW c \in Seq(ByteSet), NEW q, NEW r, NEW B, NEW p,
         Agree(d, c, q, B, p), Len(d) \in Nat, NEW lower \in Nat,
         NEW bytes \in Seq(ByteSet), NEW e, e = Written(c, lower, bytes),
         \A k \in lower + 1 .. lower + Len(bytes) :
           Stable(d, q, p, k) => bytes[k - lower] = d[k],
         \A k : Cut(q, p, k) => Cut(r, p, k),
         \A k \in 1 .. Len(d) : Busy(q, p, BlockOf(k)) =>
           Busy(r, p, BlockOf(k)) \/ k \in lower + 1 .. lower + Len(bytes)
  PROVE  Agree(d, e, r, B, p)
<1>1. Placed(e, c, lower, bytes) /\ Len(c) \in Nat /\ Len(bytes) \in Nat
  BY WrittenBytes, LenProperties DEF ByteSet
<1>2. /\ Len(e) \in Nat /\ Len(e) >= Len(c) /\ Len(e) >= lower + Len(bytes)
      /\ \A k \in 1 .. Len(e) :
           e[k] = IF k \in lower + 1 .. lower + Len(bytes) THEN bytes[k - lower]
                  ELSE IF k <= Len(c) THEN c[k] ELSE Zero
  BY <1>1 DEF Placed, Larger
<1>3. ASSUME NEW k \in 1 .. Len(d), ~Cut(r, p, k),
             <<pathToFileName(p), BlockOf(k)>> \in B, ~Busy(r, p, BlockOf(k))
      PROVE  k <= Len(e) /\ e[k] = d[k]
  <2>1. ~Cut(q, p, k) /\ Stable(d, q, p, k)
    BY <1>3 DEF Stable
  <2>2. CASE k \in lower + 1 .. lower + Len(bytes)
    <3>1. bytes[k - lower] = d[k] /\ k \in 1 .. Len(e)
      BY <1>1, <1>2, <2>1, <2>2
    <3>2. QED  BY <1>2, <2>2, <3>1
  <2>3. CASE k \notin lower + 1 .. lower + Len(bytes)
    <3>1. k <= Len(c) /\ c[k] = d[k]
      BY <1>3, <2>1, <2>3 DEF Agree
    <3>2. k \in 1 .. Len(e)
      BY <1>1, <1>2, <3>1
    <3>3. QED  BY <1>2, <2>3, <3>1, <3>2
  <2>4. QED  BY <2>2, <2>3
<1>4. QED  BY <1>3 DEF Agree

\* What cfs_cacheWrite writes: the bytes of the NAS, all of each busy block.
LEMMA WholeBlocks ==
  ASSUME AloneInv, NoStraddle, NEW t \in Threads, RequestOK(t),
         req[t].pc = "cache_pwrite", NEW p, p = req[t].path,
         NEW d, d = DataOf(nas, p), Len(d) \in Nat
  PROVE  /\ WriteOffset(t) \in Nat /\ WriteBytes(t) \in Seq(ByteSet)
         /\ Len(WriteBytes(t)) \in Nat \ {0}
         /\ \A k \in WriteOffset(t) + 1 .. WriteOffset(t) + Len(WriteBytes(t)) :
              Stable(d, req, p, k) => WriteBytes(t)[k - WriteOffset(t)] = d[k]
         /\ \A k \in Nat \ {0} : BusyWith(req[t], p, BlockOf(k)) =>
              k \in WriteOffset(t) + 1 .. WriteOffset(t) + Len(WriteBytes(t))
<1> DEFINE r == req[t]
<1>1. /\ r.off \in Nat /\ r.len \in Nat /\ r.buf \in Seq(ByteSet)
      /\ r.op \in {"read", "write"} /\ Len(r.buf) \in Nat /\ BS \in Nat \ {0}
  BY LenProperties, BlockSize
  DEF AloneInv, SharedInv, FileInv, RequestsInv, Typed, LocalTypes, StepOfOp
<1>2. WriteOffset(t) = BS * First(r.todo)
  BY DEF WriteOffset, BlockInHand, First
<1>3. CASE r.op = "write"
  <2> DEFINE aligned == Align!alignedSize(r.len)
  <2>1. WriteOK(r, d)
    BY DEF RequestOK
  <2>2. PICK lo \in Nat, hi \in Nat :
           /\ lo <= hi /\ RequestBlocks(r) = lo .. hi
           /\ Align!alignLowerOffset(r.off) = BS * lo
           /\ BS * lo + aligned = BS * (hi + 1) /\ aligned \in Nat
           /\ BS * lo <= r.off /\ r.off + r.len <= BS * (hi + 1)
    BY <1>3, <2>1, WriteSpan
  <2>3. r.todo = lo .. hi /\ First(lo .. hi) = lo /\ BS * lo \in Nat
    <3>1. r.todo = RequestBlocks(r)
      BY <1>3, <2>1 DEF WriteOK
    <3>2. First(lo .. hi) = lo
      BY <2>2, FirstIs
    <3>3. QED  BY <2>2, <3>1, <3>2, InBlock
  <2>4. WriteOffset(t) = BS * lo /\ WriteBytes(t) = r.buf
    BY <1>2, <1>3, <2>3 DEF WriteBytes
  <2>5. /\ Len(r.buf) = aligned
        /\ \A k \in BS * lo + 1 .. Smaller(BS * lo + aligned, Len(d)) :
             r.buf[k - BS * lo] = d[k]
    BY <1>3, <2>1, <2>2 DEF WriteOK
  <2> HIDE DEF aligned
  <2>6. ASSUME NEW k \in BS * lo + 1 .. BS * lo + Len(r.buf), Stable(d, req, p, k)
        PROVE  r.buf[k - BS * lo] = d[k]
    <3>1. k \in BS * lo + 1 .. Smaller(BS * lo + aligned, Len(d))
      BY <2>2, <2>3, <2>5, <2>6 DEF Stable, Smaller
    <3>2. QED  BY <2>5, <3>1
  <2>7. ASSUME NEW k \in Nat \ {0}, BusyWith(r, p, BlockOf(k))
        PROVE  k \in BS * lo + 1 .. BS * lo + Len(r.buf)
    <3>1. BlockOf(k) \in lo .. hi
      BY <1>3, <2>2, <2>7 DEF BusyWith
    <3>2. BS * lo < k /\ k <= BS * (hi + 1)
      BY <2>2, <3>1, InBlocks
    <3>3. QED  BY <2>2, <2>3, <2>5, <3>2
  <2>8. Len(r.buf) \in Nat \ {0}
    <3>1. r.len \in 1 .. PageSize /\ PageSize \in Nat
      BY <1>3, <2>1, PageOfBlock DEF WriteOK
    <3>2. aligned # 0
      BY <1>1, <2>2, <2>3, <3>1
    <3>3. QED  BY <1>1, <2>5, <3>2
  <2> HIDE DEF r
  <2>9. QED  BY <1>1, <2>3, <2>4, <2>6, <2>7, <2>8 DEF r
<1>4. CASE r.op = "read"
  <2> DEFINE b == First(r.todo)
             n == Len(r.buf)
             s == SubSeq(r.buf, n - BS + 1, n)
  <2>1. PICK lo, hi : Span(r, lo, hi) /\ Progress(r, blocks, lo, hi, b)
    BY <1>4 DEF RequestOK, ReadOK
  <2>2. lo \in Nat /\ hi \in Nat /\ b \in lo .. hi /\ r.off + n = BS * (b + 1)
    BY <2>1 DEF Span, Progress
  <2>3. Fetched(r, d, req) /\ n >= BS
    BY <1>1, <1>4 DEF RequestOK, ReadOK, AloneInv, SharedInv, FileInv, RequestsInv,
                      Typed, LocalTypes
  <2>4. WriteOffset(t) = BS * b /\ WriteBytes(t) = s
    BY <1>2, <1>4 DEF WriteBytes
  <2>5. b \in Nat /\ BS * b \in Nat /\ BS * (b + 1) = BS * b + BS
    BY <2>2, InBlock
  <2>6. /\ s \in Seq(ByteSet) /\ Len(s) = BS
        /\ \A j \in 1 .. BS : s[j] = r.buf[n - BS + j]
    <3>1. \A k \in n - BS + 1 .. n : r.buf[k] \in ByteSet
      BY <1>1, <2>3, ElementOfSeq
    <3>2. n - BS + 1 \in Int /\ n \in Int /\ n - BS + 1 <= n
      BY <1>1, <2>3
    <3> DEFINE lo1 == n - BS + 1
    <3>3. /\ s \in Seq(ByteSet)
          /\ Len(s) = IF lo1 <= n THEN n - lo1 + 1 ELSE 0
          /\ \A j \in 1 .. n - lo1 + 1 : s[j] = r.buf[lo1 + j - 1]
      <4> HIDE DEF n
      <4>1. QED  BY <1>1, <3>1, <3>2, SubSeqProperties
    <3> HIDE DEF s, n
    <3>4. QED  BY <1>1, <2>3, <3>2, <3>3
  <2> HIDE DEF s
  <2>7. ASSUME NEW k \in BS * b + 1 .. BS * b + BS, Stable(d, req, p, k)
        PROVE  s[k - BS * b] = d[k]
    <3> DEFINE x == BS * b
    <3>0. /\ x \in Nat /\ n \in Nat /\ n >= BS /\ r.off \in Nat /\ BS \in Nat
          /\ r.off + n = x + BS /\ k \in x + 1 .. x + BS
      BY <1>1, <2>2, <2>3, <2>5
    <3> HIDE DEF x, n
    <3>1. k - x \in 1 .. BS /\ n - BS + (k - x) = k - r.off
      BY <3>0
    <3>2. s[k - x] = r.buf[k - r.off]
      BY <2>6, <3>1
    <3>3. k \in r.off + 1 .. r.off + n
      BY <3>0
    <3>4. r.buf[k - r.off] = d[k]
      BY <2>3, <2>7, <3>3 DEF Fetched, n
    <3>5. QED  BY <3>2, <3>4 DEF x
  <2>8. ASSUME NEW k \in Nat \ {0}, BusyWith(r, p, BlockOf(k))
        PROVE  k \in BS * b + 1 .. BS * b + BS
    <3>1. BlockOf(k) \in b .. b
      BY <1>4, <2>5, <2>8 DEF BusyWith
    <3>2. BS * b < k /\ k <= BS * (b + 1)
      BY <2>5, <3>1, InBlocks
    <3>3. QED  BY <1>1, <2>5, <3>2
  <2> HIDE DEF r, b
  <2>9. QED  BY <1>1, <2>4, <2>5, <2>6, <2>7, <2>8 DEF r
<1>5. QED  BY <1>1, <1>3, <1>4

\* What the ftruncate and the pwrite to the cache make of the file.
LEMMA CacheCalls ==
  ASSUME FileInv, PathInv, UsersInv, NamesInv, NEW t \in Threads
  PROVE  LET f == name(t)
             c == DataOf(cache, f)
         IN /\ trunc_cache(t) /\ cache.dir[f] # NoInode =>
                 /\ req[t].op = "truncate" /\ req'[t].op = "truncate"
                 /\ nas' = nas /\ DataOf(cache', f) = Resized(c, req[t].len)
            /\ cache_pwrite(t) /\ Len(WriteBytes(t)) # 0 =>
                 /\ req[t].pc = "cache_pwrite" /\ nas' = nas
                 /\ DataOf(cache', f) = Written(c, WriteOffset(t), WriteBytes(t))
<1> DEFINE f == name(t)
           i == cache.dir[f]
<1>1. /\ FileSystem(cache, Names, ByteSet) /\ OneName(cache.dir)
      /\ AtStep(req[t]) /\ DOMAIN req[t] = Fields /\ DOMAIN req = Threads
  BY DEF FileInv, DirsInv, NamesInv, PathInv, PathReqs, Shape
<1>2. CASE trunc_cache(t) /\ i # NoInode
  <2>1. req[t].op = "truncate" /\ f \in Names
    BY <1>1, <1>2, InCallback DEF trunc_cache, Pc, AtStep
  <2>2. req[t].h # NoHandle => fh(t).cache = i
    BY <2>1, Descriptors DEF UsesHandle
  <2> DEFINE new == Ftruncate(cache, i, req[t].len, clock)
  <2>3. i \in Inodes /\ cache' = new
    BY <1>1, <1>2, <2>1, <2>2 DEF trunc_cache, FileSystem
  <2>4. DataOf(new, f) = Resized(cache.data[i], req[t].len)
    BY <1>1, <2>1, <2>3, CallsLocal
  <2>5. ~cache_pwrite(t) /\ nas' = nas
    BY <1>2 DEF trunc_cache, cache_pwrite, cache_pwriteAs, Pc
  <2>6. req'[t].op = "truncate"
    <3>1. req'[t] = [req[t] EXCEPT !.pc = "trunc_nas"]
      BY <1>1, <1>2 DEF trunc_cache, Go
    <3>2. QED  BY <1>1, <2>1, <3>1 DEF Fields, NoReq
  <2> HIDE DEF new
  <2>7. QED  BY <2>1, <2>3, <2>4, <2>5, <2>6 DEF DataOf
<1>3. CASE cache_pwrite(t) /\ Len(WriteBytes(t)) # 0
  <2>1. req[t].op \in {"read", "write"} /\ req[t].pc = "cache_pwrite"
    BY <1>1, <1>3 DEF cache_pwrite, cache_pwriteAs, Pc, AtStep
  <2>2. f \in Names /\ fh(t).cache = i /\ i \in Inodes
    BY <2>1, Descriptors DEF UsesHandle
  <2>3. WriteBytes(t) \in Seq(ByteSet)
    BY <2>1, WriteBytesType DEF FileInv, Covering
  <2>4. SubSeq(WriteBytes(t), 1, Len(WriteBytes(t))) = WriteBytes(t)
    BY <2>3, WholeSeq
  <2> DEFINE new == Pwrite(cache, i, WriteOffset(t), WriteBytes(t), clock)
  <2>5. cache' = new
    BY <1>3, <2>2, <2>4 DEF cache_pwrite, cache_pwriteAs
  <2>6. DataOf(new, f) = Written(cache.data[i], WriteOffset(t), WriteBytes(t))
    BY <1>1, <2>2, CallsLocal
  <2>7. ~trunc_cache(t) /\ nas' = nas
    BY <1>3 DEF trunc_cache, cache_pwrite, cache_pwriteAs, Pc
  <2> HIDE DEF new
  <2>8. QED  BY <2>1, <2>5, <2>6, <2>7 DEF DataOf
<1>4. QED  BY <1>2, <1>3

\* A callback keeps its file coherent.
LEMMA OwnFile ==
  ASSUME AloneInv, PathInv', NoCollision, NoStraddle, NEW t \in Threads,
         Daemon(t), RequestOK(t), NEW P \in Paths, P = req[t].path, FileOK(P)
  PROVE  FileOK(P)'
<1> DEFINE f  == pathToFileName(P)
           d  == DataOf(nas, P)
           c  == DataOf(cache, f)
           d2 == DataOf(nas', P)
           c2 == DataOf(cache', f)
<1>1. /\ FileInv /\ PathInv /\ UsersInv /\ NamesInv /\ RowsInv /\ TypeOK /\ ForeignKey
      /\ AtStep(req[t])
  BY DEF AloneInv, SharedInv, ShareInv, PathInv, PathReqs, Shape
<1>2. f = name(t) /\ f \in Names
  BY <1>1, DaemonStep, InCallback DEF name
<1> SUFFICES ASSUME nas'.dir[P] # NoInode, cache'.dir[f] # NoInode
             PROVE  Agree(d2, c2, req', blocks', P) \/ Outdated(P)'
  BY DEF FileOK
<1>3. ASSUME Agree(d2, c2, req', blocks, P)  PROVE Agree(d2, c2, req', blocks', P)
  <2>1. \A b : <<f, b>> \in blocks' => <<f, b>> \in blocks \/ Busy(req', P, b)
    BY <1>2, NewRows
  <2> HIDE DEF d2, c2
  <2>2. QED  BY <1>3, <2>1, AgreeKept
<1>4. NoRows(f) => Agree(d2, c2, req', blocks, P)
  BY <1>1 DEF NoRows, Agree, TypeOK
<1>5. CASE nas.dir[P] = NoInode
  <2>1. d2 = <<>>
    BY <1>1, <1>5, NasView
  <2>2. Agree(d2, c2, req', blocks', P)
    <3>1. Len(d2) = 0
      BY <2>1
    <3> HIDE DEF d2, c2
    <3>2. QED  BY <3>1 DEF Agree
  <2>3. QED  BY <2>2
<1>6. open_mknod(t) => Agree(d2, c2, req', blocks, P)
  BY <1>1, <1>2, <1>4 DEF open_mknod, Pc, RowsInv, RowsOK, Listed
<1>7. CASE cache.dir[f] = NoInode
  <2>1. open_mknod(t)
    BY <1>1, <1>2, <1>7, CacheView
  <2>2. QED  BY <1>3, <1>6, <2>1
<1>8. CASE nas.dir[P] # NoInode /\ cache.dir[f] # NoInode /\ Outdated(P)
  <2>1. Outdated(P)' \/ f \notin files
    BY <1>8, StaleStays
  <2>2. f \notin files => NoRows(f)
    BY <1>1 DEF ForeignKey, NoRows
  <2>3. QED  BY <1>3, <1>4, <2>1, <2>2
<1>9. CASE /\ nas.dir[P] # NoInode /\ cache.dir[f] # NoInode
           /\ Agree(d, c, req, blocks, P)
  <2>1. d \in Seq(NasBytes) /\ c \in Seq(ByteSet) /\ Len(d) \in Nat
    BY <1>1, <1>2, <1>9, FileBytes, LenProperties
  <2>2. /\ \A k : Cut(req, P, k) => Cut(req', P, k) \/ trunc_nas(t)
        /\ \A b : Busy(req, P, b) => Busy(req', P, b) \/ cache_pwrite(t)
    BY <1>1, CutBusy
  <2>3. Moved(t)
    BY <1>1, DaemonMoves DEF FileInv
  <2>4. /\ trunc_nas(t) => ~cache_pwrite(t)
        /\ write_nas(t) => ~cache_pwrite(t) /\ ~trunc_nas(t)
        /\ trunc_cache(t) => ~cache_pwrite(t) /\ ~trunc_nas(t)
        /\ cache_pwrite(t) => ~trunc_nas(t)
    BY DEF trunc_nas, write_nas, write_nasAs, trunc_cache, cache_pwrite,
           cache_pwriteAs, Pc
  <2>5. /\ req[t].off \in Nat /\ req[t].len \in Nat /\ req[t].val \in ByteSet
    BY <1>1 DEF FileInv, RequestsInv, Typed, LocalTypes, ByteSet
  <2>6. CASE trunc_nas(t)
    <3>1. req[t].op = "truncate" /\ d2 = Resized(d, req[t].len) /\ c2 = c
      BY <1>1, <2>6, NasCalls DEF trunc_nas
    <3>2. req[t].len < Len(d)
      BY <3>1 DEF RequestOK, TruncOK
    <3>3. \A k : Cut(req, P, k) => Cut(req', P, k) \/ k > req[t].len
      BY <2>3 DEF Cut, Moved
    <3> HIDE DEF d, c, d2, c2
    <3>4. Agree(d2, c2, req', blocks, P)
      BY <1>9, <2>1, <2>2, <2>4, <2>5, <2>6, <3>1, <3>2, <3>3, AgreeNasShorter
    <3>5. QED  BY <1>3, <3>4 DEF d2, c2
  <2>7. CASE write_nas(t)
    <3>1. req[t].op = "write" /\ req[t].pc = "write_nas" /\ c2 = c
      BY <1>1, <2>7 DEF write_nas, write_nasAs, Pc, AtStep
    <3>2. WriteOK(req[t], d)
      BY DEF RequestOK
    <3>3. req[t].off <= Len(d) /\ req[t].len # 0
      <4>1. req[t].len \in 1 .. PageSize /\ PageSize \in Nat
        BY <3>1, <3>2, PageOfBlock DEF WriteOK
      <4> HIDE DEF d
      <4>2. QED  BY <3>1, <3>2, <4>1 DEF WriteOK
    <3>4. d2 = Written(d, req[t].off, [k \in 1 .. req[t].len |-> req[t].val])
      BY <1>1, <2>7, <3>3, NasCalls
    <3>5. d \in Seq(ByteSet)
      BY <2>1, NasSeq
    <3> HIDE DEF d, c, d2, c2
    <3>6. Stored(d2, d, req[t].off, req[t].len, req[t].val)
      BY <2>5, <3>3, <3>4, <3>5, WrittenValue
    <3>7. ASSUME NEW k \in req[t].off + 1 .. req[t].off + req[t].len
          PROVE  Busy(req', P, BlockOf(k))
      <4>1. PICK lo \in Nat, hi \in Nat :
               /\ RequestBlocks(req[t]) = lo .. hi
               /\ BS * lo <= req[t].off /\ req[t].off + req[t].len <= BS * (hi + 1)
        BY <3>1, <3>2, WriteSpan
      <4>2. BS * lo \in Nat /\ BS * (hi + 1) \in Nat
        BY InBlock, BlockSize
      <4>3. k \in Nat \ {0} /\ BS * lo < k /\ k <= BS * (hi + 1)
        BY <2>5, <4>1, <4>2
      <4>4. BlockOf(k) \in RequestBlocks(req[t])
        BY <4>1, <4>3, InBlocks
      <4>5. Busy(req, P, BlockOf(k))
        BY <3>1, <4>4 DEF Busy, BusyWith
      <4>6. QED  BY <2>2, <2>4, <2>7, <4>5
    <3>8. Agree(d2, c2, req', blocks, P)
      BY <1>9, <2>1, <2>2, <2>4, <2>5, <2>7, <3>1, <3>6, <3>7, AgreeNasWritten
    <3>9. QED  BY <1>3, <3>8 DEF d2, c2
  <2>8. CASE trunc_cache(t)
    <3>1. /\ req[t].op = "truncate" /\ req'[t].op = "truncate"
          /\ d2 = d /\ c2 = Resized(c, req[t].len)
      BY <1>1, <1>2, <1>9, <2>8, CacheCalls
    <3>2. \A k \in Nat : k > req[t].len => Cut(req', P, k)
      <4>1. req'[t].path = P /\ req'[t].len = req[t].len
        BY <2>3, <3>1 DEF Moved, Kept, NoReq
      <4>2. QED  BY <3>1, <4>1 DEF Cut
    <3> HIDE DEF d, c, d2, c2
    <3>3. Agree(d2, c2, req', blocks, P)
      BY <1>9, <2>1, <2>2, <2>4, <2>5, <2>8, <3>1, <3>2, AgreeCacheShorter
    <3>4. QED  BY <1>3, <3>3 DEF d2, c2
  <2>9. CASE cache_pwrite(t)
    <3>1. req[t].pc = "cache_pwrite"
      BY <2>9 DEF cache_pwrite, cache_pwriteAs, Pc
    <3>2. /\ WriteOffset(t) \in Nat /\ WriteBytes(t) \in Seq(ByteSet)
          /\ Len(WriteBytes(t)) \in Nat \ {0}
          /\ \A k \in WriteOffset(t) + 1 .. WriteOffset(t) + Len(WriteBytes(t)) :
               Stable(d, req, P, k) => WriteBytes(t)[k - WriteOffset(t)] = d[k]
          /\ \A k \in Nat \ {0} : BusyWith(req[t], P, BlockOf(k)) =>
               k \in WriteOffset(t) + 1 .. WriteOffset(t) + Len(WriteBytes(t))
      BY <2>1, <3>1, WholeBlocks
    <3>3. d2 = d /\ c2 = Written(c, WriteOffset(t), WriteBytes(t))
      BY <1>1, <1>2, <2>9, <3>2, CacheCalls
    <3>4. \A k \in 1 .. Len(d) : Busy(req, P, BlockOf(k)) =>
             \/ Busy(req', P, BlockOf(k))
             \/ k \in WriteOffset(t) + 1 .. WriteOffset(t) + Len(WriteBytes(t))
      <4> HIDE DEF d
      <4>1. QED  BY <2>1, <2>3, <3>2 DEF Busy, Moved
    <3> HIDE DEF d, c, d2, c2
    <3>5. Agree(d2, c2, req', blocks, P)
      BY <1>9, <2>1, <2>2, <2>4, <2>9, <3>2, <3>3, <3>4, AgreeCacheWritten
    <3>6. QED  BY <1>3, <3>5 DEF d2, c2
  <2>10. CASE /\ ~trunc_nas(t) /\ ~write_nas(t) /\ ~trunc_cache(t)
              /\ ~cache_pwrite(t) /\ ~open_mknod(t)
    <3>1. d2 = d
      BY <1>1, <1>9, <2>10, NasView DEF DataOf
    <3>2. c2 = c
      BY <1>1, <1>2, <2>10, CacheView DEF DataOf
    <3> HIDE DEF d, c, d2, c2
    <3>3. Agree(d2, c2, req', blocks, P)
      BY <1>9, <2>2, <2>10, <3>1, <3>2, AgreeKept
    <3>4. QED  BY <1>3, <3>3 DEF d2, c2
  <2>11. QED  BY <1>3, <1>6, <2>6, <2>7, <2>8, <2>9, <2>10
<1>10. QED
  BY <1>5, <1>7, <1>8, <1>9 DEF FileOK

---------------------------------------------------------------------------
(***************************************************************************)
(* A callback keeps what it knows of its own file.                         *)
(***************************************************************************)
\* The hits of a read are rows.
Found(r, B) == \A x \in r.hits : <<pathToFileName(r.path), x>> \in B

\* From a block that is in the buffer, cfs_read goes on to the next one, or to
\* the end.
LEMMA NextProgress ==
  ASSUME NEW t, NEW r, DOMAIN r = Fields, NEW B, NEW lo, NEW hi, NEW b,
         Span(r, lo, hi), b = BlockInHand(t), b \in lo .. hi, r.todo = b .. hi,
         r.hits \subseteq lo .. hi, Found(r, B), r.off \in Nat, r.len \in Nat, Len(r.buf) \in Nat,
         r.off + Len(r.buf) = BS * (b + 1),
         NEW q, q = NextReadBlock(t, r)
  PROVE  /\ Span(q, lo, hi) /\ Progress(q, B, lo, hi, First(q.todo))
         /\ q.op = r.op /\ q.path = r.path /\ q.off = r.off /\ q.buf = r.buf
         /\ q.count = r.count
<1> DEFINE rest == b + 1 .. hi
<1>1. lo \in Nat /\ hi \in Nat /\ b \in Nat /\ b <= hi /\ r.todo \ {b} = rest
  BY DEF Span
<1>2. /\ q.todo = rest /\ q.hits = r.hits /\ q.buf = r.buf /\ q.count = r.count
      /\ q.op = r.op /\ q.path = r.path /\ q.off = r.off /\ q.len = r.len
      /\ q.pc = IF rest = {} THEN "read_done" ELSE "read_block"
  BY <1>1 DEF NextReadBlock, Fields, NoReq
<1>3. CASE b < hi
  <2>1. rest # {} /\ First(rest) = b + 1 /\ b + 1 \in lo .. hi
    BY <1>1, <1>3, FirstIs
  <2> HIDE DEF rest
  <2>2. QED  BY <1>2, <2>1 DEF Span, Progress, Found, rest
<1>4. CASE b = hi
  <2>1. rest = {} /\ Len(r.buf) = r.len
    BY <1>1, <1>4 DEF Span
  <2> HIDE DEF rest
  <2>2. QED  BY <1>2, <2>1 DEF Span, Progress, Found
<1>5. QED  BY <1>1, <1>3, <1>4

\* Two sums to which the same is added.
LEMMA AddBoth ==
  ASSUME NEW m \in Nat, NEW n \in Nat, NEW k \in Nat, NEW x \in Nat, m + n = x
  PROVE  n + k \in Nat /\ m + (n + k) = x + k
  OBVIOUS

\* Where a byte that pread can reach is among those it returns.
LEMMA InPart ==
  ASSUME NEW s, NEW d, NEW off \in Nat, NEW size \in Nat, Part(s, d, off, size),
         Len(d) \in Nat, NEW k \in off + 1 .. off + size, k <= Len(d)
  PROVE  k - off \in 1 .. Len(s) /\ off + (k - off) = k
  BY DEF Part, Smaller

\* w is s1 and then s2.
Joined(w, s1, s2) ==
  /\ Len(w) = Len(s1) + Len(s2)
  /\ \A j \in 1 .. Len(s1) + Len(s2) :
       w[j] = IF j <= Len(s1) THEN s1[j] ELSE s2[j - Len(s1)]

\* The bytes of two buffers, one after the other.
LEMMA JoinedBytes ==
  ASSUME NEW s1 \in Seq(ByteSet), NEW s2 \in Seq(ByteSet), NEW w, w = s1 \o s2
  PROVE  Joined(w, s1, s2)
BY ConcatProperties DEF Joined

\* s has the bytes of d, of the block after byte x, that stay.
Has(s, d, q, p, x) ==
  \A k \in x + 1 .. x + BS : Stable(d, q, p, k) => k <= Len(s) /\ s[k] = d[k]

\* What is cut is the end of the file, and z cuts all that q does.
CutsOn(q, p)      == \A j, k \in Nat : j <= k /\ Cut(q, p, j) => Cut(q, p, k)
CutsMore(q, z, p) == \A k : Cut(q, p, k) => Cut(z, p, k)

\* r2 is r with another block, of the bytes that a pread of s gave, in its
\* buffer; s has the bytes of the NAS where they matter.
OneMore(r, r2, bytes, s, x, d, q, z) ==
  /\ r2.off = r.off /\ r2.path = r.path
  /\ r2.buf = r.buf \o Padded(bytes, BS) /\ r2.count = r.count + Len(bytes)
  /\ r.off \in Nat /\ x \in Nat /\ r.off + Len(r.buf) = x
  /\ r.buf \in Seq(ByteSet) /\ bytes \in Seq(ByteSet) /\ Part(bytes, s, x, BS)
  /\ Len(d) \in Nat /\ Len(s) \in Nat /\ Has(s, d, q, r.path, x)
  /\ CutsOn(q, r.path) /\ CutsMore(q, z, r.path)

\* The buffer keeps the bytes of the NAS.
LEMMA FetchedMore ==
  ASSUME NEW r, NEW d, NEW q, Fetched(r, d, q),
         NEW s, NEW x, NEW bytes, NEW z, NEW r2,
         OneMore(r, r2, bytes, s, x, d, q, z)
  PROVE  Fetched(r2, d, z) /\ Len(r2.buf) = Len(r.buf) + BS
<1> /\ r2.off = r.off /\ r2.path = r.path
    /\ r2.buf = r.buf \o Padded(bytes, BS) /\ r2.count = r.count + Len(bytes)
    /\ r.off \in Nat /\ x \in Nat /\ r.off + Len(r.buf) = x
    /\ r.buf \in Seq(ByteSet) /\ bytes \in Seq(ByteSet) /\ Part(bytes, s, x, BS)
    /\ Len(d) \in Nat /\ Len(s) \in Nat /\ Has(s, d, q, r.path, x)
    /\ CutsOn(q, r.path) /\ CutsMore(q, z, r.path)
  BY DEF OneMore
<1> DEFINE n    == Len(r.buf)
           more == Padded(bytes, BS)
<1>1. BS \in Nat \ {0} /\ n \in Nat /\ Len(bytes) \in Nat /\ Len(bytes) <= BS
  BY BlockSize, LenProperties DEF Part
<1>2. /\ more \in Seq(ByteSet) /\ Len(more) = BS
      /\ \A j \in 1 .. Len(bytes) : more[j] = bytes[j]
  BY <1>1, PaddedBytes
<1>0. r2.buf = r.buf \o more
  OBVIOUS
<1> HIDE DEF more
<1>3. /\ Len(r2.buf) = n + BS
      /\ \A j \in 1 .. n + BS : r2.buf[j] = IF j <= n THEN r.buf[j] ELSE more[j - n]
  <2> HIDE DEF n
  <2>1. Joined(r2.buf, r.buf, more)
    BY <1>0, <1>2, JoinedBytes
  <2>2. Len(r.buf) = n
    BY DEF n
  <2>3. QED  BY <1>2, <2>1, <2>2 DEF Joined
<1>4. /\ r.count \in Nat
      /\ \A k \in r.off + 1 .. r.off + n : Stable(d, q, r.path, k) =>
           r.buf[k - r.off] = d[k] /\ k - r.off <= r.count
  BY DEF Fetched
<1>8. \A k \in x + 1 .. x + BS :
        Stable(d, q, r.path, k) => k <= Len(s) /\ s[k] = d[k]
  BY DEF Has
<1>5. ASSUME NEW k \in r.off + 1 .. r.off + (n + BS), Stable(d, z, r.path, k)
      PROVE  r2.buf[k - r.off] = d[k] /\ k - r.off <= r.count + Len(bytes)
  <2>1. Stable(d, q, r.path, k) /\ k \in Nat
    BY <1>1, <1>5 DEF Stable, CutsMore
  <2>2. CASE k \in r.off + 1 .. r.off + n
    <3> DEFINE i == k - r.off
    <3>1. r.buf[i] = d[k] /\ i <= r.count
      BY <1>4, <2>1, <2>2
    <3>2. i \in 1 .. n + BS /\ i <= n
      <4>1. /\ r.off \in Nat /\ n \in Nat /\ BS \in Nat \ {0}
            /\ k \in r.off + 1 .. r.off + n
        BY <1>1, <2>2
      <4> HIDE DEF n
      <4>2. QED  BY ONLY <4>1
    <3> HIDE DEF i
    <3>3. r2.buf[i] = r.buf[i]
      BY <1>3, <3>2
    <3>4. i <= r.count + Len(bytes)
      BY <1>1, <1>4, <3>1, <3>2
    <3>5. QED  BY <3>1, <3>3, <3>4 DEF i
  <2>3. CASE k \in x + 1 .. x + BS
    <3> DEFINE j == k - x
    <3>1. /\ j \in 1 .. BS /\ k - r.off = n + j /\ k - r.off \in 1 .. n + BS
          /\ ~ (k - r.off <= n) /\ k - r.off - n = j /\ k = x + j
      <4>1. /\ r.off \in Nat /\ x \in Nat /\ r.off + n = x /\ n \in Nat
            /\ BS \in Nat \ {0} /\ k \in x + 1 .. x + BS
        BY <1>1, <2>3
      <4> HIDE DEF n
      <4>2. QED  BY ONLY <4>1
    <3>2. k <= Len(s) /\ s[k] = d[k]
      BY <1>8, <2>1, <2>3
    <3>3. j <= Len(bytes)
      <4>1. /\ j \in 1 .. BS /\ BS \in Nat \ {0} /\ x + j <= Len(s) /\ Len(s) \in Nat
            /\ x \in Nat
            /\ Len(bytes) = IF x < Len(s) THEN Smaller(BS, Len(s) - x) ELSE 0
        BY <1>1, <3>1, <3>2 DEF Part
      <4> HIDE DEF j
      <4>2. QED  BY ONLY <4>1 DEF Smaller
    <3>4. bytes[j] = d[k] /\ more[j] = bytes[j]
      <4> HIDE DEF j
      <4>1. j \in 1 .. Len(bytes)
        BY <1>1, <3>1, <3>3
      <4>2. QED  BY <1>2, <3>1, <3>2, <4>1 DEF Part
    <3>5. n <= r.count
      <4>1. CASE n = 0
        BY <1>4, <4>1
      <4>2. CASE n # 0
        <5>1. x \in r.off + 1 .. r.off + n /\ x \in 1 .. Len(d) /\ x <= k
          <6>1. /\ r.off \in Nat /\ n \in Nat /\ x \in Nat /\ r.off + n = x
                /\ BS \in Nat /\ Len(d) \in Nat /\ k \in Nat
            BY <1>1, <2>1
          <6>2. n # 0 /\ k \in x + 1 .. x + BS /\ k <= Len(d)
            BY <2>1, <2>3, <4>2 DEF Stable
          <6> HIDE DEF n
          <6>3. QED  BY ONLY <6>1, <6>2
        <5>2. ~Cut(q, r.path, x)
          BY <2>1, <5>1 DEF Stable, CutsOn
        <5>3. x - r.off <= r.count
          BY <1>4, <5>1, <5>2 DEF Stable
        <5>4. x - r.off = n
          <6>1. r.off \in Nat /\ n \in Nat /\ r.off + n = x
            BY <1>1
          <6> HIDE DEF n
          <6>2. QED  BY ONLY <6>1
        <5>5. QED  BY <5>3, <5>4
      <4>3. QED  BY <4>1, <4>2
    <3>6. r2.buf[k - r.off] = more[j]
      BY <1>3, <3>1
    <3> HIDE DEF j
    <3>7. k - r.off <= r.count + Len(bytes)
      <4>1. n \in Nat /\ r.count \in Nat /\ j \in Int /\ Len(bytes) \in Nat
        BY <1>1, <1>4, <3>1
      <4>2. k - r.off = n + j /\ j <= Len(bytes) /\ n <= r.count
        BY <3>1, <3>3, <3>5
      <4> HIDE DEF n
      <4>3. QED  BY <4>1, <4>2
    <3>8. QED  BY <3>4, <3>6, <3>7
  <2>4. k \in r.off + 1 .. r.off + n \/ k \in x + 1 .. x + BS
    <3>1. /\ r.off \in Nat /\ n \in Nat /\ x \in Nat /\ r.off + n = x
          /\ BS \in Nat /\ k \in r.off + 1 .. r.off + (n + BS)
      BY <1>1, <1>5
    <3> HIDE DEF n
    <3>2. QED  BY ONLY <3>1
  <2>5. QED  BY <2>2, <2>3, <2>4
<1>6. r.count + Len(bytes) \in Nat
  BY <1>1, <1>4
<1>7. QED  BY <1>3, <1>5, <1>6 DEF Fetched

\* Nobody else is busy with the blocks of a read ...
LEMMA NotBusy ==
  ASSUME AloneInv, \A u \in Threads : RequestOK(u), NEW t \in Threads,
         req[t].op = "read", req[t].pc # "cache_pwrite", NEW b,
         b \in RequestBlocks(req[t])
  PROVE  ~Busy(req, req[t].path, b)
<1> SUFFICES ASSUME NEW u \in Threads, BusyWith(req[u], req[t].path, b)
             PROVE  FALSE
  BY DEF Busy
<1>1. \A v \in Threads : req[v].off \in Nat /\ req[v].len \in Nat
  BY DEF AloneInv, SharedInv, FileInv, RequestsInv, Typed, LocalTypes
<1>2. u # t /\ req[u].op \in {"read", "write"} /\ req[u].path = req[t].path
  BY DEF BusyWith
<1>3. Apart(req[t], req[u])
  BY <1>2 DEF AloneInv, SharedInv, ShareInv, ApartInv
<1>4. \A v \in Threads : req[v].op = "read" =>
        /\ req[v].len # 0
        /\ req[v].pc = "cache_pwrite" => First(req[v].todo) \in RequestBlocks(req[v])
  <2>1. SUFFICES ASSUME NEW v \in Threads, req[v].op = "read"
                 PROVE  /\ req[v].len # 0
                        /\ req[v].pc = "cache_pwrite" =>
                             First(req[v].todo) \in RequestBlocks(req[v])
    OBVIOUS
  <2>2. PICK lo, hi : /\ Span(req[v], lo, hi)
                      /\ Progress(req[v], blocks, lo, hi, First(req[v].todo))
    BY <2>1 DEF RequestOK, ReadOK
  <2>3. req[v].len # 0 /\ RequestBlocks(req[v]) = lo .. hi
    BY <1>1, <2>2, SpanBlocks
  <2>4. QED  BY <2>2, <2>3 DEF Progress
<1>5. b \in RequestBlocks(req[u])
  BY <1>2, <1>4 DEF BusyWith
<1>6. req[u].len # 0
  <2>1. req[u].op = "write" => req[u].len \in 1 .. PageSize /\ PageSize \in Nat
    BY PageOfBlock DEF RequestOK, WriteOK
  <2>2. QED  BY <1>2, <1>4, <2>1
<1>7. req[t].len # 0
  BY <1>4
<1>8. QED  BY <1>1, <1>2, <1>3, <1>5, <1>6, <1>7, NotShared

\* ... so what the rows say of them is so.
LEMMA InCache ==
  ASSUME AloneInv, CoherenceInv, NEW t \in Threads, req[t].op = "read",
         req[t].pc # "cache_pwrite", NEW p, p = req[t].path,
         NEW k \in 1 .. Len(DataOf(nas, p)), Stable(DataOf(nas, p), req, p, k),
         BlockOf(k) \in RequestBlocks(req[t]),
         <<pathToFileName(p), BlockOf(k)>> \in blocks
  PROVE  LET c == DataOf(cache, pathToFileName(p))
         IN k <= Len(c) /\ c[k] = DataOf(nas, p)[k]
<1>1. /\ FileInv /\ PathInv /\ UsersInv
  BY DEF AloneInv, SharedInv, ShareInv
<1>2. /\ p \in Paths /\ nas.dir[p] # NoInode /\ cache.dir[pathToFileName(p)] # NoInode
      /\ req[t].h \in Handles /\ fh(t).path = p
  BY <1>1, Descriptors DEF UsesHandle, UsersInv, name
<1>3. ~Outdated(p)
  BY <1>2 DEF Outdated, fh
<1>4. Agree(DataOf(nas, p), DataOf(cache, pathToFileName(p)), req, blocks, p)
  BY <1>2, <1>3 DEF CoherenceInv, FileOK
<1>5. ~Busy(req, p, BlockOf(k))
  BY NotBusy DEF CoherenceInv
<1>6. QED  BY <1>4, <1>5 DEF Agree, Stable

\* cfs_truncate cuts a file that is longer.
LEMMA OwnTruncation ==
  ASSUME AloneInv, NEW t \in Threads, Daemon(t), RequestOK(t),
         req[t].op = "truncate", req'[t].op = "truncate"
  PROVE  TruncOK(req'[t], DataOf(nas', req[t].path))
<1>1. /\ FileInv /\ PathInv /\ RowsInv /\ UsersInv /\ NamesInv
  BY DEF AloneInv, SharedInv, ShareInv
<1>2. req'[t].len = req[t].len
  BY <1>1, DaemonMoves DEF FileInv, Moved, Kept, NoReq
<1>3. nas' = nas
  <2>1. ~trunc_nas(t)
    BY <1>1 DEF trunc_nas, Return, Go, NoReq, FileInv, CallbackInv, ReqInv
  <2>2. ~write_nas(t) /\ ~utime_nas(t)
    BY <1>1 DEF write_nas, write_nasAs, utime_nas, Pc, PathInv, PathReqs, Shape, AtStep
  <2>3. QED  BY <1>1, <2>1, <2>2, NasView
<1>4. QED  BY <1>2, <1>3 DEF RequestOK, TruncOK

\* cfs_write has written its bytes to the NAS, asks for the size of the file and
\* reads the blocks.
LEMMA OwnWrite ==
  ASSUME AloneInv, NoStraddle, SizesFit, NEW t \in Threads, Daemon(t), RequestOK(t),
         req[t].op = "write", NEW q, q = req'[t], q.op = "write"
  PROVE  WriteOK(q, DataOf(nas', req[t].path))
<1> DEFINE r == req[t]
           P == r.path
           d == DataOf(nas, P)
           e == DataOf(nas', P)
<1> SUFFICES WriteOK(q, e)
  OBVIOUS
<1>1. /\ FileInv /\ PathInv /\ RowsInv /\ UsersInv /\ NamesInv
      /\ DOMAIN r = Fields /\ AtStep(r) /\ DOMAIN req = Threads
  BY DEF AloneInv, SharedInv, ShareInv, PathInv, PathReqs, Shape
<1>2. WriteOK(r, d)
  BY DEF RequestOK
<1>3. P \in Paths /\ nas.dir[P] # NoInode /\ fh(t).nas = nas.dir[P]
  BY <1>1, Descriptors DEF UsesHandle
<1>4. /\ d \in Seq(NasBytes) /\ d \in Seq(ByteSet) /\ Len(d) \in 0 .. MaxSize
      /\ d = nas.data[fh(t).nas] /\ r.off \in Nat /\ r.len \in Nat /\ r.val \in ByteSet
      /\ r.buf \in Seq(ByteSet)
  BY <1>1, <1>3, FileBytes, NasSeq
  DEF DataOf, FileInv, RequestsInv, Typed, LocalTypes, ByteSet
<1> DEFINE lower   == Align!alignLowerOffset(r.off)
           aligned == Align!alignedSize(r.len)
<1>5. PICK lo \in Nat, hi \in Nat :
         /\ lo <= hi /\ RequestBlocks(r) = lo .. hi
         /\ lower = BS * lo /\ aligned \in Nat
         /\ BS * lo + aligned = BS * (hi + 1)
         /\ BS * lo <= r.off /\ r.off + r.len <= BS * (hi + 1)
  BY <1>2, WriteSpan
<1>6. r.len # 0 /\ lower \in Nat /\ BS \in Nat \ {0} /\ MaxSize \in Nat
  <2>1. r.len \in 1 .. PageSize /\ PageSize \in Nat
    BY <1>2, PageOfBlock DEF WriteOK
  <2>2. BS * lo \in Nat
    BY InBlock
  <2>3. QED  BY <1>5, <2>1, <2>2, BlockSize
<1>16. /\ r.off \in Nat /\ r.len \in Nat \ {0} /\ lower \in Nat /\ aligned \in Nat
       /\ lower <= r.off /\ Len(d) \in Nat /\ Len(d) <= MaxSize /\ MaxSize \in Nat
  <2> HIDE DEF r, d, lower, aligned
  <2>1. QED  BY <1>4, <1>5, <1>6
<1>17. ASSUME q.op = r.op, q.off = r.off, q.len = r.len, q.todo = r.todo
       PROVE  /\ q.off \in 0 .. MaxSize - 1 /\ q.len \in 1 .. PageSize
              /\ Cardinality(PagesOf(q.off, q.len)) = 1
              /\ q.todo = RequestBlocks(q)
              /\ Align!alignLowerOffset(q.off) = lower
              /\ Align!alignedSize(q.len) = aligned
  <2> HIDE DEF r, d
  <2>1. QED  BY <1>2, <1>17 DEF WriteOK, RequestBlocks
<1>7. ASSUME NEW x, q = [r EXCEPT !.pc = x], e = d,
             r.pc # "write_nas", x \notin {"write_nas", "write_read"},
             x \in {"cache_record", "cache_pwrite"} =>
               r.pc \in {"cache_record", "cache_pwrite"}
      PROVE  WriteOK(q, e)
  <2>1. /\ q.op = r.op /\ q.off = r.off /\ q.len = r.len /\ q.todo = r.todo
        /\ q.val = r.val /\ q.num = r.num /\ q.buf = r.buf /\ q.pc = x
    BY <1>1, <1>7 DEF Fields, NoReq
  <2> HIDE DEF r, d, e, lower, aligned
  <2>2. QED  BY <1>2, <1>7, <2>1 DEF WriteOK, RequestBlocks
<1>8. CASE MetaStep(t) /\ UNCHANGED cfsVars
  BY <1>2, <1>8 DEF cfsVars
<1>9. CASE write_nas(t)
  <2>1. r.pc = "write_nas" /\ q = [r EXCEPT !.pc = "write_stat"]
    BY <1>1, <1>9 DEF write_nas, write_nasAs, Pc, Go
  <2>2. e = Written(d, r.off, [k \in 1 .. r.len |-> r.val])
    BY <1>1, <1>6, <1>9, NasCalls
  <2>3. /\ q.op = r.op /\ q.off = r.off /\ q.len = r.len /\ q.todo = r.todo
        /\ q.val = r.val /\ q.pc = "write_stat"
    BY <1>1, <2>1 DEF Fields, NoReq
  <2>4. r.off <= Len(d)
    <3> HIDE DEF r, d
    <3>1. QED  BY <1>2, <2>1, <2>3 DEF WriteOK
  <2> HIDE DEF r, d, e, lower, aligned
  <2>5. Stored(e, d, r.off, r.len, r.val)
    BY <1>4, <1>6, <2>2, <2>4, WrittenValue
  <2>6. r.off + r.len <= Len(e) /\ \A k \in r.off + 1 .. r.off + r.len : e[k] = r.val
    <3>1. /\ Len(e) = Larger(Len(d), r.off + r.len)
          /\ \A k \in 1 .. Len(e) : k \in r.off + 1 .. r.off + r.len => e[k] = r.val
      BY <2>5 DEF Stored
    <3>2. Len(e) \in Nat /\ r.off + r.len <= Len(e)
      BY <1>16, <3>1 DEF Larger
    <3>3. \A k \in r.off + 1 .. r.off + r.len : k \in 1 .. Len(e)
      BY <1>16, <3>2
    <3>4. QED  BY <3>1, <3>2, <3>3
  <2>7. q.off + q.len <= Len(e) /\ \A k \in q.off + 1 .. q.off + q.len : e[k] = q.val
    BY <2>3, <2>6
  <2>8. /\ q.off \in 0 .. MaxSize - 1 /\ q.len \in 1 .. PageSize
         /\ Cardinality(PagesOf(q.off, q.len)) = 1
         /\ q.todo = RequestBlocks(q)
         /\ Align!alignLowerOffset(q.off) = lower
         /\ Align!alignedSize(q.len) = aligned
    BY <1>17, <2>3
  <2>9. QED  BY <2>3, <2>7, <2>8 DEF WriteOK
<1>10. CASE write_stat(t)
  <2>1. r.pc = "write_stat" /\ e = d
    BY <1>10 DEF write_stat, write_statAs, Pc, NoFile
  <2>2. q = [r EXCEPT !.pc = "write_read",
                      !.num = IF lower + aligned > Len(d)
                              THEN Wrap(Len(d) - lower) ELSE aligned]
    <3>1. NasSizes(P) = {Len(d)}
      BY <1>3 DEF NasSizes, DataOf
    <3>2. PICK size \in NasSizes(P) :
            Go(t, [r EXCEPT !.pc = "write_read",
                            !.num = IF lower + aligned > size
                                    THEN Wrap(size - lower) ELSE aligned])
      BY <1>10 DEF write_stat, write_statAs
    <3> HIDE DEF r, d, lower, aligned
    <3>3. QED  BY <1>1, <3>1, <3>2 DEF Go
  <2>3. /\ q.op = r.op /\ q.off = r.off /\ q.len = r.len /\ q.todo = r.todo
        /\ q.val = r.val /\ q.pc = "write_read"
        /\ q.num = IF lower + aligned > Len(d) THEN Wrap(Len(d) - lower) ELSE aligned
    <3> HIDE DEF d, lower, aligned
    <3>1. QED  BY <1>1, <2>2 DEF Fields, NoReq
  <2> HIDE DEF r, d, e, lower, aligned
  <2>4. r.off + r.len <= Len(d)
    BY <1>2, <2>1, <2>3 DEF WriteOK
  <2>5. Len(d) - lower \in 0 .. SizeMod - 1
    <3>1. SizeMod \in Nat
      BY MetaAssumption
    <3>2. SizeMod \div 2 <= SizeMod
      BY <3>1
    <3>3. Len(d) < SizeMod
      BY <1>16, <3>1, <3>2 DEF SizesFit
    <3>4. QED  BY <1>16, <2>4, <3>1, <3>3
  <2>6. Wrap(Len(d) - lower) = Len(d) - lower
    <3>1. SizeMod \in Nat
      BY MetaAssumption
    <3>2. QED  BY <2>5, <3>1 DEF Wrap
  <2>7. q.num = Smaller(aligned, Len(d) - lower)
    BY <1>16, <2>3, <2>6 DEF Smaller
  <2>8. \A k \in r.off + 1 .. r.off + r.len : d[k] = r.val
    BY <1>2, <2>1, <2>3 DEF WriteOK
  <2>9. \A k \in q.off + 1 .. q.off + q.len : e[k] = q.val
    BY <2>1, <2>3, <2>8
  <2>10. q.off + q.len <= Len(e) /\ q.num = Smaller(aligned, Len(e) - lower)
    BY <2>1, <2>3, <2>4, <2>7
  <2>11. /\ q.off \in 0 .. MaxSize - 1 /\ q.len \in 1 .. PageSize
         /\ Cardinality(PagesOf(q.off, q.len)) = 1
         /\ q.todo = RequestBlocks(q)
         /\ Align!alignLowerOffset(q.off) = lower
         /\ Align!alignedSize(q.len) = aligned
    BY <1>17, <2>3
  <2>12. QED  BY <2>3, <2>9, <2>10, <2>11 DEF WriteOK
<1>11. CASE write_read(t)
  <2> DEFINE bytes == Pread(nas, fh(t).nas, WriteOffset(t), r.num)
             fetch == IF r.num >= SizeMod \div 2 THEN <<>> ELSE bytes
  <2>1. /\ r.pc = "write_read" /\ e = d
        /\ q = [r EXCEPT !.buf = Padded(fetch, aligned), !.pc = "cache_record"]
    BY <1>1, <1>11 DEF write_read, write_readAs, Pc, NoFile, Go
  <2>2. r.num = Smaller(aligned, Len(d) - lower) /\ r.off + r.len <= Len(d)
    <3> HIDE DEF d
    <3>1. QED  BY <1>2, <2>1 DEF WriteOK
  <2>3. WriteOffset(t) = lower
    <3>1. r.todo = lo .. hi
      <4> HIDE DEF d
      <4>1. QED  BY <1>2, <1>5 DEF WriteOK
    <3>2. First(lo .. hi) = lo
      BY <1>5, FirstIs
    <3>3. QED  BY <1>5, <3>1, <3>2 DEF WriteOffset, BlockInHand, First
  <2>4. /\ q.op = r.op /\ q.off = r.off /\ q.len = r.len /\ q.todo = r.todo
        /\ q.val = r.val /\ q.pc = "cache_record" /\ q.buf = Padded(fetch, aligned)
    <3> HIDE DEF aligned, fetch
    <3>1. QED  BY <1>1, <2>1 DEF Fields, NoReq
  <2>5. bytes \in Seq(ByteSet) /\ Part(bytes, d, lower, r.num)
    <3>1. r.num \in Nat
      <4> HIDE DEF r, d, lower, aligned
      <4>1. QED  BY <1>16, <2>2 DEF Smaller
    <3> HIDE DEF r
    <3>2. QED  BY <1>4, <1>6, <2>3, <3>1, ReadBytes
  <2>6. fetch = bytes
    <3>1. ~ (r.num >= SizeMod \div 2)
      <4>1. SizeMod \div 2 \in Int
        BY MetaAssumption
      <4> HIDE DEF d, lower, aligned, r
      <4>2. r.num < SizeMod \div 2
        BY <1>16, <2>2, <4>1 DEF Smaller, SizesFit
      <4>3. r.num \in Int
        BY <1>16, <2>2 DEF Smaller
      <4>4. QED  BY <4>1, <4>2, <4>3
    <3>2. QED  BY <3>1
  <2> HIDE DEF r, d, e, lower, aligned, bytes, fetch
  <2>7. /\ Len(bytes) = r.num /\ r.num \in Nat /\ r.num <= aligned
        /\ \A j \in 1 .. r.num : bytes[j] = d[lower + j]
    BY <1>16, <2>2, <2>5 DEF Part, Smaller
  <2>8. /\ Len(q.buf) = aligned
        /\ \A j \in 1 .. r.num : q.buf[j] = bytes[j]
    BY <1>5, <2>4, <2>5, <2>6, <2>7, PaddedBytes
  <2>9. ASSUME NEW k \in lower + 1 .. Smaller(lower + aligned, Len(d))
        PROVE  q.buf[k - lower] = d[k]
    <3>1. k - lower \in 1 .. r.num /\ lower + (k - lower) = k
      BY <1>16, <2>2, <2>9 DEF Smaller
    <3>2. QED  BY <2>7, <2>8, <3>1
  <2>10. \A k \in r.off + 1 .. r.off + r.len : d[k] = r.val
    BY <1>2, <2>1, <2>4 DEF WriteOK
  <2>11. /\ q.off + q.len <= Len(e)
         /\ \A k \in q.off + 1 .. q.off + q.len : e[k] = q.val
    BY <2>1, <2>2, <2>4, <2>10
  <2>12. \A k \in lower + 1 .. Smaller(lower + aligned, Len(e)) : q.buf[k - lower] = e[k]
    BY <2>1, <2>9
  <2>13. /\ q.off \in 0 .. MaxSize - 1 /\ q.len \in 1 .. PageSize
         /\ Cardinality(PagesOf(q.off, q.len)) = 1
         /\ q.todo = RequestBlocks(q)
         /\ Align!alignLowerOffset(q.off) = lower
         /\ Align!alignedSize(q.len) = aligned
    BY <1>17, <2>4
  <2>14. QED  BY <2>4, <2>8, <2>11, <2>12, <2>13 DEF WriteOK
<1>12. CASE cache_wait(t)
  BY <1>2, <1>12 DEF cache_wait, vars, cfsVars
<1>13. CASE cache_record(t)
  <2>1. /\ r.pc = "cache_record" /\ e = d /\ q = [r EXCEPT !.pc = "cache_pwrite"]
    BY <1>1, <1>13 DEF cache_record, Pc, NoFile, Go
  <2>2. QED  BY <1>7, <2>1
<1>14. ~cache_pwrite(t)
  BY <1>1 DEF cache_pwrite, cache_pwriteAs, Return, Go, NoReq
<1>15. QED
  BY <1>1, <1>8, <1>9, <1>10, <1>11, <1>12, <1>13, <1>14, DaemonStep
  DEF cfs_write, cfs_cacheWrite

\* cfs_read: its locals say which blocks it has, and its buffer has the bytes of
\* the NAS.
LEMMA OwnRead ==
  ASSUME AloneInv, CoherenceInv, PathInv', NoCollision, NEW t \in Threads, Daemon(t),
         req[t].op = "read", NEW q, q = req'[t], q.op = "read"
  PROVE  ReadOK(q, DataOf(nas', req[t].path), req', blocks')
<1> DEFINE r == req[t]
           P == r.path
           f == pathToFileName(P)
           d == DataOf(nas, P)
           c == DataOf(cache, f)
           e == DataOf(nas', P)
           b == First(r.todo)
<1> SUFFICES ReadOK(q, e, req', blocks')
  OBVIOUS
<1>1. /\ FileInv /\ PathInv /\ RowsInv /\ UsersInv /\ NamesInv
      /\ DOMAIN r = Fields /\ AtStep(r) /\ DOMAIN req = Threads /\ SharedInv
  BY DEF AloneInv, SharedInv, ShareInv, PathInv, PathReqs, Shape
<1>2. /\ P \in Paths /\ f \in Names /\ fh(t).nas = nas.dir[P] /\ fh(t).nas \in Inodes
      /\ fh(t).cache = cache.dir[f] /\ nas.dir[P] # NoInode /\ cache.dir[f] # NoInode
  BY <1>1, Descriptors DEF UsesHandle, name
<1>3. ReadOK(r, d, req, blocks)
  BY DEF CoherenceInv, RequestOK
<1>4. PICK lo, hi : Span(r, lo, hi) /\ Progress(r, blocks, lo, hi, b)
  BY <1>3 DEF ReadOK
<1>5. Fetched(r, d, req)
  BY <1>3 DEF ReadOK
<1>6. /\ d \in Seq(NasBytes) /\ d \in Seq(ByteSet) /\ Len(d) \in Nat
      /\ c \in Seq(ByteSet) /\ r.buf \in Seq(ByteSet) /\ Len(r.buf) \in Nat
      /\ r.off \in Nat /\ r.len \in Nat /\ BS \in Nat \ {0}
      /\ d = nas.data[fh(t).nas] /\ c = cache.data[fh(t).cache]
  BY <1>1, <1>2, FileBytes, NasSeq, LenProperties, BlockSize
  DEF DataOf, FileInv, RequestsInv, Typed, LocalTypes
<1>7. lo \in Nat /\ hi \in Nat /\ lo <= hi
  BY <1>4 DEF Span
<1>8. r.len # 0 /\ RequestBlocks(r) = lo .. hi /\ r.len = BS * (hi - lo + 1)
      /\ r.off = BS * lo /\ r.off + r.len = BS * (hi + 1)
  BY <1>4, <1>6, SpanBlocks DEF Span
<1>9. nas' = nas /\ e = d
  <2>1. ~write_nas(t) /\ ~trunc_nas(t) /\ ~utime_nas(t)
    BY <1>1 DEF write_nas, write_nasAs, trunc_nas, utime_nas, Pc, AtStep
  <2>2. QED  BY <1>1, <2>1, NasView
<1>10. \A x : <<f, x>> \in blocks => <<f, x>> \in blocks'
  <2>1. TablesFor(t)
    BY <1>1, DaemonRows DEF AloneInv
  <2>2. QED  BY <2>1 DEF TablesFor
<1>11. /\ \A k : Cut(req', P, k) => Cut(req, P, k)
       /\ \A k : Cut(req, P, k) => Cut(req', P, k)
  <2>1. ~trunc_nas(t)
    BY <1>1 DEF trunc_nas, Pc, AtStep
  <2>2. QED  BY <1>1, <1>2, <2>1, CutBusy
<1>12. \A j, k \in Nat : j <= k /\ Cut(req, P, j) => Cut(req, P, k)
  <2>1. \A u \in Threads : req[u].len \in Nat
    BY <1>1 DEF FileInv, RequestsInv, Typed, LocalTypes
  <2>2. QED  BY <2>1 DEF Cut
<1>13. BlockInHand(t) = b
  BY DEF BlockInHand, First
<1>14. ASSUME q.off = r.off, q.path = P, q.buf = r.buf, q.count = r.count
       PROVE  Fetched(q, d, req')
  <2> HIDE DEF d
  <2>1. QED  BY <1>5, <1>11, <1>14 DEF Fetched, Stable
<1>15. ASSUME q.off = r.off, q.len = r.len
       PROVE  Span(q, lo, hi)
  BY <1>4, <1>15 DEF Span
<1>16. ASSUME Span(q, lo, hi), Progress(q, blocks', lo, hi, First(q.todo)),
              Fetched(q, d, req')
       PROVE  ReadOK(q, e, req', blocks')
  BY <1>9, <1>16 DEF ReadOK
<1>17. ASSUME q = r  PROVE ReadOK(q, e, req', blocks')
  <2>1. Progress(q, blocks', lo, hi, First(q.todo))
    BY <1>4, <1>10, <1>17 DEF Progress
  <2> HIDE DEF r, d, e
  <2>2. QED  BY <1>14, <1>15, <1>16, <1>17, <2>1 DEF P
<1>18. \A k \in Nat : k \in r.off + 1 .. r.off + r.len => BlockOf(k) \in lo .. hi
  <2>1. ASSUME NEW k \in Nat, k \in r.off + 1 .. r.off + r.len
        PROVE  BlockOf(k) \in lo .. hi
    <3>1. k \in Nat \ {0} /\ BS * lo < k /\ k <= BS * (hi + 1)
      BY <1>6, <1>8, <2>1
    <3>2. QED  BY <1>7, <3>1, InBlocks
  <2>2. QED  BY <2>1
<1>19. CASE MetaStep(t) /\ UNCHANGED cfsVars
  BY <1>17, <1>19 DEF cfsVars
<1>20. CASE cache_wait(t)
  BY <1>17, <1>20 DEF cache_wait, vars, cfsVars
<1>21. CASE cache_record(t)
  <2>1. r.pc = "cache_record" /\ q = [r EXCEPT !.pc = "cache_pwrite"]
    BY <1>1, <1>21 DEF cache_record, Pc, Go
  <2>2. /\ q.off = r.off /\ q.len = r.len /\ q.todo = r.todo /\ q.path = P
        /\ q.hits = r.hits /\ q.buf = r.buf /\ q.count = r.count /\ q.pc = "cache_pwrite"
    BY <1>1, <2>1 DEF Fields, NoReq
  <2>3. Progress(q, blocks', lo, hi, First(q.todo))
    BY <1>4, <1>10, <2>1, <2>2 DEF Progress
  <2> HIDE DEF r, d, e
  <2>4. QED  BY <1>14, <1>15, <1>16, <2>2, <2>3
<1>22. CASE cache_pwrite(t)
  <2>1. r.pc = "cache_pwrite" /\ q = NextReadBlock(t, r)
    BY <1>1, <1>22 DEF cache_pwrite, cache_pwriteAs, Pc, Go
  <2>2. /\ b \in lo .. hi /\ r.todo = b .. hi /\ r.hits \subseteq lo .. hi
        /\ Found(r, blocks')
        /\ r.off + Len(r.buf) = BS * (b + 1)
    BY <1>4, <1>10, <2>1 DEF Progress, Found
  <2> HIDE DEF r, d, e, b
  <2>3. /\ Span(q, lo, hi) /\ Progress(q, blocks', lo, hi, First(q.todo))
        /\ q.path = P /\ q.off = r.off /\ q.buf = r.buf /\ q.count = r.count
    <3>1. /\ DOMAIN r = Fields /\ Span(r, lo, hi) /\ b = BlockInHand(t)
          /\ b \in lo .. hi /\ r.todo = b .. hi /\ r.hits \subseteq lo .. hi
          /\ Found(r, blocks') /\ r.off \in Nat /\ r.len \in Nat
          /\ Len(r.buf) \in Nat /\ r.off + Len(r.buf) = BS * (b + 1)
          /\ q = NextReadBlock(t, r)
      BY <1>1, <1>4, <1>6, <1>13, <2>1, <2>2
    <3> HIDE DEF P
    <3>2. QED  BY <3>1, NextProgress DEF P
  <2>4. QED  BY <1>14, <1>16, <2>3
<1>23. CASE read_check(t)
  <2> DEFINE hits == IF <<name(t), b>> \in blocks THEN r.hits \cup {b} ELSE r.hits
             rest == r.todo \ {b}
             todo == IF rest = {} THEN RequestBlocks(r) ELSE rest
             pc   == IF rest # {} THEN "read_check"
                     ELSE IF hits = RequestBlocks(r) THEN "read_all" ELSE "read_block"
  <2>1. r.pc = "read_check" /\ q = [r EXCEPT !.hits = hits, !.todo = todo, !.pc = pc]
    BY <1>1, <1>13, <1>23 DEF read_check, read_checkAs, Pc, Go
  <2>2. /\ b \in lo .. hi /\ r.todo = b .. hi /\ r.hits \subseteq lo .. hi
        /\ \A x \in r.hits : <<f, x>> \in blocks
        /\ r.buf = <<>>
    BY <1>4, <2>1 DEF Progress
  <2>3. /\ hits \subseteq lo .. hi /\ \A x \in hits : <<f, x>> \in blocks'
    BY <1>10, <2>2 DEF name
  <2>4. /\ q.off = r.off /\ q.len = r.len /\ q.todo = todo /\ q.path = P
        /\ q.hits = hits /\ q.buf = r.buf /\ q.count = r.count /\ q.pc = pc
    <3> HIDE DEF hits, todo, pc
    <3>1. QED  BY <1>1, <2>1 DEF Fields, NoReq
  <2>5. rest = b + 1 .. hi
    BY <1>7, <2>2
  <2>6. Progress(q, blocks', lo, hi, First(q.todo))
    <3> HIDE DEF r, b, hits
    <3>1. CASE b < hi
      <4>1. rest # {} /\ First(b + 1 .. hi) = b + 1 /\ b + 1 \in lo .. hi
        BY <1>7, <2>2, <2>5, <3>1, FirstIs
      <4>2. q.todo = b + 1 .. hi /\ q.pc = "read_check"
        BY <2>4, <2>5, <4>1
      <4>3. QED  BY <2>2, <2>3, <2>4, <4>1, <4>2 DEF Progress
    <3>2. CASE b = hi
      <4>1. rest = {} /\ First(lo .. hi) = lo /\ lo \in lo .. hi
        BY <1>7, <2>2, <2>5, <3>2, FirstIs
      <4>2. /\ q.todo = lo .. hi
            /\ q.pc = IF hits = lo .. hi THEN "read_all" ELSE "read_block"
        BY <1>8, <2>4, <4>1
      <4>3. r.off + Len(r.buf) = BS * lo
        BY <1>6, <1>8, <2>2
      <4>4. CASE hits = lo .. hi
        <5>1. q.pc = "read_all"
          BY <4>2, <4>4
        <5>2. QED  BY <2>2, <2>3, <2>4, <4>1, <4>2, <4>4, <5>1 DEF Progress
      <4>5. CASE hits # lo .. hi
        <5>1. q.pc = "read_block"
          BY <4>2, <4>5
        <5>2. QED  BY <2>2, <2>3, <2>4, <4>1, <4>2, <4>3, <5>1 DEF Progress
      <4>6. QED  BY <4>4, <4>5
    <3>3. QED  BY <1>7, <2>2, <3>1, <3>2
  <2> HIDE DEF r, d, e, hits, todo, pc
  <2>7. QED  BY <1>14, <1>15, <1>16, <2>4, <2>6
<1>24. CASE read_all(t)
  <2> DEFINE bytes == Pread(cache, fh(t).cache, WriteOffset(t), BS * Cardinality(r.todo))
             m     == BS * Cardinality(r.todo)
  <2>1. r.pc = "read_all" /\ q = [r EXCEPT !.buf = Padded(bytes, m),
                                    !.count = Len(bytes), !.todo = {}, !.pc = "read_done"]
    BY <1>1, <1>24 DEF read_all, read_allAs, Pc, Go
  <2>2. /\ r.todo = lo .. hi /\ b = lo /\ r.hits = lo .. hi
        /\ \A x \in r.hits : <<f, x>> \in blocks
    BY <1>4, <2>1 DEF Progress
  <2>3. m = r.len /\ WriteOffset(t) = r.off
    <3>1. Cardinality(lo .. hi) = hi - lo + 1
      BY <1>7, FS_Interval
    <3> HIDE DEF b
    <3>2. QED  BY <1>8, <1>13, <2>2, <3>1 DEF WriteOffset
  <2>4. /\ q.off = r.off /\ q.len = r.len /\ q.path = P
        /\ q.hits = r.hits /\ q.buf = Padded(bytes, m) /\ q.count = Len(bytes)
        /\ q.pc = "read_done"
    <3> HIDE DEF bytes, m
    <3>1. QED  BY <1>1, <2>1 DEF Fields, NoReq
  <2>5. bytes \in Seq(ByteSet) /\ Part(bytes, c, r.off, r.len)
    <3> HIDE DEF r
    <3>1. QED  BY <1>6, <2>3, ReadBytes DEF m
  <2>6. Len(bytes) \in Nat /\ Len(bytes) <= r.len
    BY <2>5, LenProperties DEF Part
  <2>7. ASSUME NEW k \in 1 .. Len(d), Stable(d, req, P, k),
               k \in r.off + 1 .. r.off + r.len
        PROVE  k <= Len(c) /\ c[k] = d[k]
    <3>1. BlockOf(k) \in lo .. hi
      BY <1>18, <2>7
    <3>2. <<f, BlockOf(k)>> \in blocks /\ BlockOf(k) \in RequestBlocks(r)
      BY <1>8, <2>2, <3>1
    <3>3. QED  BY <2>1, <2>7, <3>2, InCache
  <2> HIDE DEF r, d, c, e, bytes, m, b
  <2>8. /\ Len(q.buf) = r.len
        /\ \A j \in 1 .. Len(bytes) : q.buf[j] = bytes[j]
    BY <1>6, <2>3, <2>4, <2>5, <2>6, PaddedBytes
  <2>9. ASSUME NEW k \in r.off + 1 .. r.off + r.len, Stable(d, req', P, k)
        PROVE  q.buf[k - r.off] = d[k] /\ k - r.off <= Len(bytes)
    <3>1. k \in 1 .. Len(d) /\ Stable(d, req, P, k)
      BY <1>11, <2>9 DEF Stable
    <3>2. k <= Len(c) /\ c[k] = d[k]
      BY <2>7, <2>9, <3>1
    <3>3. Len(c) \in Nat
      BY <1>6, LenProperties
    <3>4. /\ k - r.off \in 1 .. Len(bytes) /\ r.off + (k - r.off) = k
      <4>1. /\ r.off \in Nat /\ r.len \in Nat /\ Part(bytes, c, r.off, r.len)
            /\ Len(c) \in Nat /\ k \in r.off + 1 .. r.off + r.len /\ k <= Len(c)
        BY <1>6, <2>5, <2>9, <3>2, <3>3
      <4>2. QED  BY <4>1, InPart
    <3>5. q.buf[k - r.off] = bytes[k - r.off]
      BY <2>8, <3>4
    <3>6. bytes[k - r.off] = c[r.off + (k - r.off)]
      BY <2>5, <3>4 DEF Part
    <3>7. k - r.off <= Len(bytes)
      BY <2>6, <3>4
    <3>8. QED  BY <3>2, <3>4, <3>5, <3>6, <3>7
  <2>10. Fetched(q, d, req')
    BY <2>4, <2>6, <2>8, <2>9 DEF Fetched
  <2>11. Progress(q, blocks', lo, hi, First(q.todo))
    BY <1>10, <2>2, <2>4, <2>8 DEF Progress
  <2>12. QED  BY <1>15, <1>16, <2>4, <2>10, <2>11
<1>25. CASE read_block(t)
  <2> DEFINE hit   == b \in r.hits
             bytes == IF hit THEN Pread(cache, fh(t).cache, BS * b, BS)
                      ELSE Pread(nas, fh(t).nas, BS * b, BS)
             s     == IF hit THEN c ELSE d
             r2    == [r EXCEPT !.buf = r.buf \o Padded(bytes, BS),
                                !.count = r.count + Len(bytes)]
  <2>1. /\ r.pc = "read_block"
        /\ q = IF hit THEN NextReadBlock(t, r2) ELSE [r2 EXCEPT !.pc = "cache_record"]
    BY <1>1, <1>13, <1>25 DEF read_block, read_blockAs, Pc, Go
  <2>2. /\ b \in lo .. hi /\ r.todo = b .. hi /\ r.hits \subseteq lo .. hi
        /\ \A x \in r.hits : <<f, x>> \in blocks
        /\ r.off + Len(r.buf) = BS * b
    BY <1>4, <2>1 DEF Progress
  <2>3. /\ r2.off = r.off /\ r2.len = r.len /\ r2.todo = r.todo /\ r2.path = P
        /\ r2.hits = r.hits /\ r2.buf = r.buf \o Padded(bytes, BS)
        /\ r2.count = r.count + Len(bytes) /\ r2.op = r.op /\ DOMAIN r2 = Fields
    <3> DEFINE buf   == r.buf \o Padded(bytes, BS)
               count == r.count + Len(bytes)
    <3>1. r2 = [r EXCEPT !.buf = buf, !.count = count]
      OBVIOUS
    <3> HIDE DEF r, r2, buf, count, bytes
    <3>2. /\ r2.off = r.off /\ r2.len = r.len /\ r2.todo = r.todo /\ r2.path = P
          /\ r2.hits = r.hits /\ r2.buf = buf
          /\ r2.count = count /\ r2.op = r.op
      BY <1>1, <3>1 DEF Fields, NoReq
    <3>3. DOMAIN r2 = DOMAIN r
      BY <3>1
    <3>4. r2.buf = r.buf \o Padded(bytes, BS) /\ r2.count = r.count + Len(bytes)
      BY <3>2 DEF buf, count
    <3>5. QED  BY <1>1, <3>2, <3>3, <3>4
  <2>4. b \in Nat /\ BS * b \in Nat /\ BS * (b + 1) = BS * b + BS
    <3> HIDE DEF r, b
    <3>1. b \in Nat
      BY <1>7, <2>2
    <3>2. QED  BY <3>1, InBlock
  <2>5. s \in Seq(ByteSet) /\ Len(s) \in Nat
    BY <1>6, LenProperties
  <2>6. bytes \in Seq(ByteSet) /\ Part(bytes, s, BS * b, BS)
    <3> HIDE DEF r, b, c, d
    <3>1. CASE hit
      BY <1>6, <2>4, <3>1, ReadBytes
    <3>2. CASE ~hit
      BY <1>6, <2>4, <3>2, ReadBytes
    <3>3. QED  BY <3>1, <3>2
  <2>7. ASSUME NEW k \in BS * b + 1 .. BS * b + BS, Stable(d, req, P, k)
        PROVE  k <= Len(s) /\ s[k] = d[k]
    <3>1. k \in 1 .. Len(d) /\ BlockOf(k) = b
      <4>1. k \in Int /\ BS * b < k /\ k <= BS * (b + 1)
        <5> DEFINE x == BS * b
        <5> HIDE DEF x, b
        <5>1. QED  BY <1>6, <2>4, <2>7 DEF x
      <4>2. BlockOf(k) = b
        BY <2>4, <4>1, InBlock
      <4>3. QED  BY <2>7, <4>2 DEF Stable
    <3>2. CASE ~hit
      BY <3>1, <3>2
    <3>3. CASE hit
      <4>1. <<f, BlockOf(k)>> \in blocks /\ BlockOf(k) \in RequestBlocks(r)
        BY <1>8, <2>2, <3>1, <3>3
      <4>2. k <= Len(c) /\ c[k] = d[k]
        BY <2>1, <2>7, <3>1, <4>1, InCache
      <4>3. QED  BY <3>3, <4>2
    <3>4. QED  BY <3>2, <3>3
  <2> HIDE DEF r, d, c, e, b, bytes, s, r2, hit
  <2>8. Fetched(r2, d, req') /\ Len(r2.buf) = Len(r.buf) + BS
    <3> DEFINE x == BS * b
    <3>1. /\ x \in Nat /\ r.off + Len(r.buf) = x /\ Part(bytes, s, x, BS)
          /\ \A k \in x + 1 .. x + BS :
               Stable(d, req, P, k) => k <= Len(s) /\ s[k] = d[k]
      BY <2>2, <2>4, <2>6, <2>7
    <3> HIDE DEF x
    <3>2. Has(s, d, req, r.path, x)
      BY <3>1 DEF Has
    <3>3. r2.path = r.path /\ CutsOn(req, r.path) /\ CutsMore(req, req', r.path)
      BY <1>11, <1>12, <2>3 DEF CutsOn, CutsMore
    <3>4. OneMore(r, r2, bytes, s, x, d, req, req')
      BY <1>6, <2>3, <2>5, <2>6, <3>1, <3>2, <3>3 DEF OneMore
    <3>5. QED  BY <1>5, <3>4, FetchedMore
  <2>9. Len(r2.buf) \in Nat /\ r2.off + Len(r2.buf) = BS * (b + 1)
    <3> DEFINE x == BS * b
               y == BS * (b + 1)
    <3>1. /\ x \in Nat /\ y = x + BS /\ r.off + Len(r.buf) = x /\ r.off \in Nat
          /\ Len(r.buf) \in Nat /\ BS \in Nat /\ r2.off = r.off
          /\ Len(r2.buf) = Len(r.buf) + BS
      BY <1>6, <2>2, <2>3, <2>4, <2>8
    <3> HIDE DEF x, y
    <3>2. Len(r2.buf) \in Nat /\ r2.off + Len(r2.buf) = y
      BY <3>1, AddBoth
    <3>3. QED  BY <3>2 DEF y
  <2>10. \A x \in r2.hits : <<f, x>> \in blocks'
    BY <1>10, <2>2, <2>3
  <2>11. CASE hit
    <3>1. Span(r2, lo, hi)
      BY <1>4, <2>3 DEF Span
    <3>2. /\ r2.off \in Nat /\ r2.len \in Nat /\ Found(r2, blocks')
          /\ r2.todo = b .. hi /\ r2.hits \subseteq lo .. hi /\ b \in lo .. hi
          /\ DOMAIN r2 = Fields
      BY <1>6, <2>2, <2>3, <2>10 DEF Found
    <3>6. q = NextReadBlock(t, r2)
      BY <2>1, <2>11
    <3>3. /\ Span(q, lo, hi) /\ Progress(q, blocks', lo, hi, First(q.todo))
          /\ q.path = r2.path /\ q.off = r2.off /\ q.buf = r2.buf /\ q.count = r2.count
      BY <1>13, <2>9, <3>1, <3>2, <3>6, NextProgress
    <3>4. Fetched(q, d, req')
      BY <2>8, <3>3 DEF Fetched
    <3>5. QED  BY <1>16, <3>3, <3>4
  <2>12. CASE ~hit
    <3>1. q = [r2 EXCEPT !.pc = "cache_record"]
      BY <2>1, <2>12
    <3>2. /\ q.off = r2.off /\ q.len = r2.len /\ q.todo = r2.todo /\ q.path = P
          /\ q.hits = r2.hits /\ q.buf = r2.buf /\ q.count = r2.count
          /\ q.pc = "cache_record"
      BY <2>3, <3>1 DEF Fields, NoReq
    <3>3. Fetched(q, d, req')
      BY <2>3, <2>8, <3>2 DEF Fetched
    <3>4. First(q.todo) = b
      BY <2>3, <3>2 DEF b
    <3>5. Progress(q, blocks', lo, hi, b)
      BY <2>2, <2>3, <2>9, <2>10, <3>2 DEF Progress
    <3>6. QED  BY <1>15, <1>16, <2>3, <3>2, <3>3, <3>4, <3>5
  <2>13. QED  BY <2>11, <2>12
<1>26. ~read_done(t)
  BY <1>1 DEF read_done, Return, Go, NoReq
<1>27. QED
  BY <1>1, <1>19, <1>20, <1>21, <1>22, <1>23, <1>24, <1>25, <1>26, DaemonStep
  DEF cfs_read, cfs_cacheWrite

\* What a callback knows of its own file stays so.
LEMMA OwnRequest ==
  ASSUME AloneInv, CoherenceInv, PathInv', NoCollision, NoStraddle, SizesFit,
         NEW t \in Threads, Daemon(t)
  PROVE  RequestOK(t)'
<1> DEFINE r == req[t]
           q == req'[t]
           e == DataOf(nas', r.path)
<1>1. Kept(r, q)
  BY DaemonMoves DEF AloneInv, SharedInv, FileInv, Moved
<1>2. q.op \in {"read", "write", "truncate"} => q.op = r.op /\ q.path = r.path
  BY <1>1, IdleShape DEF Kept
<1>3. RequestOK(t)
  BY DEF CoherenceInv
<1>4. q.op = "write" => WriteOK(q, e)
  BY <1>2, <1>3, OwnWrite
<1>5. q.op = "truncate" => TruncOK(q, e)
  BY <1>2, <1>3, OwnTruncation
<1>6. q.op = "read" => ReadOK(q, e, req', blocks')
  BY <1>2, OwnRead
<1>7. RequestOK(t)' <=> LET x == DataOf(nas', q.path)
                        IN WriteOK(q, x) /\ TruncOK(q, x) /\ ReadOK(q, x, req', blocks')
  BY DEF RequestOK
<1> DEFINE x == DataOf(nas', q.path)
<1>8. q.op \in {"read", "write", "truncate"} => x = e
  BY <1>2
<1> HIDE DEF q, e, x
<1>9. /\ q.op # "write" => WriteOK(q, x)
      /\ q.op # "truncate" => TruncOK(q, x)
      /\ q.op # "read" => ReadOK(q, x, req', blocks')
  BY DEF WriteOK, TruncOK, ReadOK
<1>10. WriteOK(q, x) /\ TruncOK(q, x) /\ ReadOK(q, x, req', blocks')
  BY <1>4, <1>5, <1>6, <1>8, <1>9
<1>11. QED  BY <1>7, <1>10 DEF x

---------------------------------------------------------------------------
(***************************************************************************)
(* Every step of SpecAlone keeps the cache coherent.                       *)
(***************************************************************************)
LEMMA DaemonCoheres ==
  ASSUME AloneInv, CoherenceInv, PathInv', NoCollision, NoStraddle, SizesFit,
         NEW t \in Threads, Daemon(t)
  PROVE  CoherenceInv'
<1>1. \A u \in Threads : RequestOK(u)
  BY DEF CoherenceInv
<1>2. req[t].path \in Paths
  <2>1. PathInv /\ RowsInv
    BY DEF AloneInv, SharedInv
  <2>2. QED  BY <2>1, DaemonStep, InCallback
<1>3. \A u \in Threads : RequestOK(u)'
  <2>1. ASSUME NEW u \in Threads \ {t}  PROVE RequestOK(u)'
    BY <1>1, OtherRequests
  <2>2. RequestOK(t)'
    BY OwnRequest
  <2>3. QED  BY <2>1, <2>2
<1>4. ASSUME NEW p \in Paths  PROVE FileOK(p)'
  <2>1. FileOK(p) /\ RequestOK(t)
    BY <1>1 DEF CoherenceInv
  <2>2. CASE p # req[t].path
    BY <2>1, <2>2, OtherFiles
  <2>3. CASE p = req[t].path
    BY <2>1, <2>3, OwnFile
  <2>4. QED  BY <2>2, <2>3
<1>5. QED  BY <1>3, <1>4 DEF CoherenceInv

\* A request knows what it knew, when neither it nor its file changes.
LEMMA RequestKept ==
  ASSUME NEW u \in Threads, RequestOK(u), req'[u] = req[u], blocks' = blocks,
         req[u].op \in {"read", "write", "truncate"} =>
           DataOf(nas', req[u].path) = DataOf(nas, req[u].path),
         \A k : Cut(req, req[u].path, k) => Cut(req', req[u].path, k)
  PROVE  RequestOK(u)'
<1> DEFINE r == req[u]
           d == DataOf(nas, r.path)
           e == DataOf(nas', r.path)
<1>1. WriteOK(r, d) /\ TruncOK(r, d) /\ ReadOK(r, d, req, blocks)
  BY DEF RequestOK
<1>2. RequestOK(u)' <=> WriteOK(r, e) /\ TruncOK(r, e) /\ ReadOK(r, e, req', blocks)
  BY DEF RequestOK
<1>3. r.op \in {"read", "write", "truncate"} => e = d
  OBVIOUS
<1>4. \A k : Cut(req, r.path, k) => Cut(req', r.path, k)
  OBVIOUS
<1> HIDE DEF r, d, e
<1>5. WriteOK(r, e) /\ TruncOK(r, e)
  BY <1>1, <1>3 DEF WriteOK, TruncOK
<1>6. Fetched(r, d, req) => Fetched(r, d, req')
  BY <1>4 DEF Fetched, Stable
<1>7. ReadOK(r, e, req', blocks)
  BY <1>1, <1>3, <1>6 DEF ReadOK
<1>8. QED  BY <1>2, <1>5, <1>7

\* A request that starts: it has read and written nothing yet.
LEMMA StartOK ==
  ASSUME NEW r, Asks(r), r.op = "read" => r.off \in Nat /\ r.len \in Nat, NEW q
  PROVE  LET d == DataOf(nas, r.path)
         IN WriteOK(r, d) /\ TruncOK(r, d) /\ ReadOK(r, d, q, blocks)
<1> DEFINE d == DataOf(nas, r.path)
<1>1. AsksData(r) /\ AtStart(r)
  BY DEF Asks, AsksFor
<1>2. WriteOK(r, d) /\ TruncOK(r, d)
  <2>1. r.op = "write" => r.pc = "write_nas"
    BY <1>1 DEF AtStart
  <2> DEFINE w == DataOf(nas, r.path)
  <2>2. QED  BY <1>1, <2>1 DEF AsksData, WriteOK, TruncOK
<1>3. ASSUME r.op = "read"  PROVE ReadOK(r, d, q, blocks)
  <2>1. PICK lo \in Nat, n \in Nat \ {0} : r.off = BS * lo /\ r.len = BS * n
    BY <1>1, <1>3 DEF AsksData
  <2> DEFINE hi == lo + n - 1
  <2>2. /\ r.todo = RequestBlocks(r) /\ r.hits = {} /\ r.buf = <<>> /\ r.count = 0
        /\ r.pc = "read_check"
    BY <1>1, <1>3 DEF AsksData, AtStart
  <2>3. hi \in Nat /\ lo <= hi /\ hi + 1 = lo + n
    BY <2>1
  <2>4. BS * (lo + n) = BS * lo + BS * n
    BY <2>1, BlockSize, Distributes
  <2>5. Span(r, lo, hi)
    <3> HIDE DEF hi
    <3>1. QED  BY <2>1, <2>3, <2>4 DEF Span
  <2> HIDE DEF hi
  <2>6. RequestBlocks(r) = lo .. hi
    BY <1>3, <2>5, SpanBlocks
  <2>7. First(r.todo) = lo
    BY <2>2, <2>3, <2>6, FirstIs
  <2>8. Progress(r, blocks, lo, hi, First(r.todo))
    BY <2>2, <2>3, <2>6, <2>7 DEF Progress
  <2> HIDE DEF d
  <2>9. Fetched(r, d, q)
    <3>1. Len(r.buf) = 0 /\ r.off \in Nat
      BY <1>3, <2>2
    <3>2. QED  BY <2>2, <3>1 DEF Fetched
  <2>10. QED  BY <2>5, <2>8, <2>9 DEF ReadOK
<1>4. QED  BY <1>2, <1>3 DEF ReadOK

\* The kernel starts a request: who has a file that is stale will find out, for
\* it opens it, makes it or removes it.
LEMMA IssueCoheres ==
  ASSUME AloneInv, CoherenceInv, NEW t \in Threads, NEW r, Issue(t, r), Asks(r),
         r.op = "read" => r.off \in Nat /\ r.len \in Nat
  PROVE  CoherenceInv'
<1>1. /\ FileInv /\ PathInv /\ DOMAIN req = Threads
      /\ \A u \in Threads : RequestOK(u)
  BY DEF AloneInv, SharedInv, PathInv, PathReqs, CoherenceInv
<1>2. /\ req'[t] = r /\ \A u \in Threads \ {t} : req'[u] = req[u]
      /\ nas' = nas /\ cache' = cache /\ handles' = handles /\ blocks' = blocks
      /\ req[t].op = "none" /\ req[t].path = NoPath
  BY <1>1 DEF Issue, Go, NoFile, NoSQL, metaVars, Pc, PathInv, PathReqs, Shape, AtStep
<1>3. /\ \A p, k : Cut(req, p, k) => Cut(req', p, k)
      /\ \A p, b : Busy(req, p, b) => Busy(req', p, b)
  BY <1>2 DEF Cut, Busy, BusyWith
<1>4. ASSUME NEW u \in Threads \ {t}  PROVE RequestOK(u)'
  BY <1>1, <1>2, <1>3, RequestKept
<1>5. RequestOK(t)'
  <2> DEFINE d == DataOf(nas, r.path)
  <2>1. WriteOK(r, d) /\ TruncOK(r, d) /\ ReadOK(r, d, req', blocks)
    BY StartOK
  <2>2. RequestOK(t)' <=> WriteOK(r, d) /\ TruncOK(r, d) /\ ReadOK(r, d, req', blocks)
    BY <1>2 DEF RequestOK
  <2>3. QED  BY <2>1, <2>2
<1>6. ASSUME NEW p \in Paths  PROVE FileOK(p)'
  <2> DEFINE f == pathToFileName(p)
             d == DataOf(nas, p)
             c == DataOf(cache, f)
  <2>1. SUFFICES ASSUME nas.dir[p] # NoInode, cache.dir[f] # NoInode
                 PROVE  Agree(d, c, req', blocks, p) \/ Outdated(p)'
    BY <1>2 DEF FileOK, DataOf
  <2>2. Agree(d, c, req, blocks, p) \/ Outdated(p)
    BY <2>1 DEF CoherenceInv, FileOK
  <2>3. CASE Agree(d, c, req, blocks, p)
    <3> HIDE DEF d, c
    <3>1. QED  BY <1>3, <2>3, AgreeKept
  <2>4. CASE Outdated(p)
    <3>1. ASSUME r.path = p  PROVE Waiting(r, TimeOf(nas, p))
      <4>1. /\ \A h \in Handles : handles[h].path # p
            /\ Behind(TimeOf(cache, f), TimeOf(nas, p))
        BY <2>4 DEF Outdated
      <4>2. ~ UsesHandle(r)
        BY <3>1, <4>1 DEF Asks, AsksFor
      <4>3. ~ UpToDate(p)
        <5>1. TimeOf(cache, f) \in Int /\ TimeOf(nas, p) \in Int
          <6>1. f \in Names
            BY NameType
          <6>2. QED
            BY <1>1, <2>1, <6>1, BlockSize DEF TimeOf, FileInv, DirsInv, FileSystem
        <5>2. TimeOf(cache, f) < TimeOf(nas, p)
          BY <4>1 DEF Behind
        <5>3. QED  BY <2>1, <5>1, <5>2 DEF UpToDate, TimeOf
      <4>4. OpenOf(p) = {}
        BY <4>1 DEF OpenOf
      <4>5. r.op \notin {"truncate", "utime"}
        BY <3>1, <4>3, <4>4 DEF Asks, AsksAlone
      <4>6. AtStart(r) /\ r.op \notin {"read", "write", "release"}
        BY <4>2 DEF Asks, AsksFor, UsesHandle
      <4>7. QED  BY <4>5, <4>6 DEF AtStart, Waiting
    <3>2. \A u \in Threads : req'[u].path = p => Waiting(req'[u], TimeOf(nas, p))
      BY <1>2, <2>4, <3>1 DEF Outdated
    <3>3. Outdated(p)'
      BY <1>2, <2>4, <3>2 DEF Outdated
    <3>4. QED  BY <3>3
  <2>5. QED  BY <2>2, <2>3, <2>4
<1>7. QED  BY <1>4, <1>5, <1>6 DEF CoherenceInv

\* Another client writes a file that is closed, in a later second than the cache
\* file was last written: it is stale.
LEMMA RemoteCoheres ==
  ASSUME AloneInv, CoherenceInv, RemoteLater
  PROVE  CoherenceInv'
<1>1. /\ FileInv /\ PathInv /\ NamesInv /\ UsersInv
      /\ \A u \in Threads : RequestOK(u)
  BY DEF AloneInv, SharedInv, ShareInv, CoherenceInv
<1>2. PICK p \in Paths :
         /\ Unused(p) /\ Later(p) /\ nas.dir[p] # NoInode
         /\ nas'.dir = nas.dir /\ OnlyFile(nas, nas', p)
         /\ TimeOf(nas', p) = clock
         /\ UNCHANGED <<cache, handles, req, metaVars>>
  BY <1>1, RemoteView
<1>3. /\ \A u \in Threads : req[u].path # p
      /\ \A h \in Handles : handles[h].path # p
      /\ blocks' = blocks /\ DOMAIN nas.dir = Paths
  BY <1>1, <1>2 DEF Unused, Active, OpenOf, metaVars, PathInv, DirInv
<1>4. ASSUME NEW u \in Threads  PROVE RequestOK(u)'
  <2>1. ASSUME req[u].op \in {"read", "write", "truncate"}
        PROVE  DataOf(nas', req[u].path) = DataOf(nas, req[u].path)
    <3>1. req[u].path \in Paths \ {p}
      BY <1>1, <1>3, <2>1 DEF PathInv, PathReqs, Shape
    <3>2. nas.dir[req[u].path] # NoInode
      BY <1>1, <2>1, Descriptors DEF UsersInv, UsesHandle
    <3>3. QED  BY <1>2, <1>3, <3>1, <3>2 DEF OnlyFile, SameFile
  <2>2. QED  BY <1>1, <1>2, <1>3, <2>1, RequestKept
<1>5. ASSUME NEW x \in Paths \ {p}  PROVE FileOK(x)'
  <2>1. SameFile(nas, nas', x)
    BY <1>2, <1>3 DEF OnlyFile
  <2>2. FileOK(x)
    BY DEF CoherenceInv
  <2>3. nas.dir[x] # NoInode => /\ DataOf(nas', x) = DataOf(nas, x)
                                /\ TimeOf(nas', x) = TimeOf(nas, x)
    BY <2>1 DEF SameFile
  <2>4. nas.dir[x] # NoInode => (Outdated(x)' <=> Outdated(x))
    BY <1>2, <2>3 DEF Outdated
  <2>5. QED
    BY <1>2, <1>3, <2>2, <2>3, <2>4 DEF FileOK
<1>6. FileOK(p)'
  <2>1. ASSUME cache.dir[pathToFileName(p)] # NoInode
        PROVE  Outdated(p)'
    <3>1. TimeOf(cache, pathToFileName(p)) < clock
      BY <1>2, <2>1 DEF Later, TimeOf
    <3>2. QED  BY <1>2, <1>3, <3>1 DEF Outdated, Behind
  <2>2. QED  BY <1>2, <2>1 DEF FileOK
<1>7. QED  BY <1>4, <1>5, <1>6 DEF CoherenceInv

\* Time passes, or an unmount with nothing open.
LEMMA QuietCoheres ==
  ASSUME AloneInv, CoherenceInv, Quiet
  PROVE  CoherenceInv'
<1>1. /\ PathInv /\ \A u \in Threads : RequestOK(u)
      /\ \A u \in Threads : req'[u] = req[u] \/ (req'[u] = NoReq /\ req[u].op = "none")
      /\ nas' = nas /\ cache' = cache /\ handles' = handles /\ blocks' = blocks
  BY DEF AloneInv, SharedInv, CoherenceInv, Quiet
<1>2. NoReq.op = "none" /\ NoReq.path = NoPath
  BY IdleShape
<1>3. /\ \A p, k : Cut(req, p, k) => Cut(req', p, k)
      /\ \A p, b : Busy(req, p, b) => Busy(req', p, b)
  BY <1>1, <1>2 DEF Cut, Busy, BusyWith
<1>4. ASSUME NEW u \in Threads  PROVE RequestOK(u)'
  <2>1. CASE req'[u] = req[u]
    BY <1>1, <1>3, <2>1, RequestKept
  <2>2. CASE req'[u] = NoReq
    BY <1>2, <2>2 DEF RequestOK, WriteOK, TruncOK, ReadOK
  <2>3. QED  BY <1>1, <2>1, <2>2
<1>5. ASSUME NEW p \in Paths  PROVE FileOK(p)'
  <2> DEFINE f == pathToFileName(p)
             d == DataOf(nas, p)
             c == DataOf(cache, f)
  <2>1. SUFFICES ASSUME nas.dir[p] # NoInode, cache.dir[f] # NoInode
                 PROVE  Agree(d, c, req', blocks, p) \/ Outdated(p)'
    BY <1>1 DEF FileOK, DataOf
  <2>2. Agree(d, c, req, blocks, p) \/ Outdated(p)
    BY <2>1 DEF CoherenceInv, FileOK
  <2>3. CASE Agree(d, c, req, blocks, p)
    <3> HIDE DEF d, c
    <3>1. QED  BY <1>1, <1>3, <2>3, AgreeKept
  <2>4. CASE Outdated(p)
    <3>1. p # NoPath
      BY CacheFSAssumption
    <3>2. \A u \in Threads : req'[u].path = p => Waiting(req'[u], TimeOf(nas, p))
      BY <1>1, <1>2, <2>4, <3>1 DEF Outdated
    <3>3. QED  BY <1>1, <2>4, <3>2 DEF Outdated
  <2>5. QED  BY <2>2, <2>3, <2>4
<1>6. QED  BY <1>4, <1>5 DEF CoherenceInv

\* The invariant is inductive.
LEMMA CoherenceInductive ==
  /\ Init => CoherenceInv
  /\ /\ NoCollision /\ NoStraddle /\ SizesFit
     /\ AloneInv /\ AloneInv' /\ CoherenceInv /\ [NextAlone]_vars
     => CoherenceInv'
<1>1. ASSUME Init  PROVE CoherenceInv
  <2>1. /\ \A t \in Threads : req[t].op = "none"
        /\ \A p \in Paths : nas.dir[p] = NoInode
    BY <1>1, IdleShape DEF Init, EmptyFS
  <2>2. \A t \in Threads : RequestOK(t)
    BY <2>1 DEF RequestOK, WriteOK, TruncOK, ReadOK
  <2>3. QED  BY <2>1, <2>2 DEF CoherenceInv, FileOK
<1>2. ASSUME NoCollision, NoStraddle, SizesFit, AloneInv, AloneInv', CoherenceInv,
             [NextAlone]_vars
      PROVE  CoherenceInv'
  <2>1. FileInv /\ PathInv /\ PathInv'
    BY <1>2 DEF AloneInv, SharedInv
  <2>2. CASE \E t \in Threads : Daemon(t)
    BY <1>2, <2>1, <2>2, DaemonCoheres
  <2>3. ASSUME NEW t \in Threads, NEW r, Issue(t, r), Asks(r)
        PROVE  CoherenceInv'
    <3>1. req'[t] = r
      BY <2>1, <2>3 DEF Issue, Go, PathInv, PathReqs
    <3>2. r.off \in Nat /\ r.len \in Nat
      BY <1>2, <3>1 DEF AloneInv, SharedInv, FileInv, RequestsInv, Typed, LocalTypes
    <3>3. QED  BY <1>2, <2>3, <3>2, IssueCoheres
  <2>4. CASE RemoteLater
    BY <1>2, <2>4, RemoteCoheres
  <2>5. CASE Quiet
    BY <1>2, <2>5, QuietCoheres
  <2>6. QED  BY <1>2, <2>1, <2>2, <2>3, <2>4, <2>5, AloneCases
<1>3. QED  BY <1>1, <1>2

---------------------------------------------------------------------------
(***************************************************************************)
(* What the invariant says of open files and of requests.                  *)
(***************************************************************************)
\* Requests that have changed one side of a file are requests for it.
LEMMA BusyInFlight ==
  ASSUME AloneInv, CoherenceInv, NEW p, NEW i, i = nas.dir[p], NEW b, ~InFlight(i, b)
  PROVE  ~Busy(req, p, b) /\ \A k : ~Cut(req, p, k)
<1>1. /\ FileInv /\ PathInv /\ UsersInv /\ \A t \in Threads : RequestOK(t)
      /\ NoHandle \notin Handles
  BY CacheFSAssumption DEF AloneInv, SharedInv, ShareInv, CoherenceInv
<1>2. ASSUME NEW t \in Threads, req[t].path = p, UsesHandle(req[t])
      PROVE  fh(t).nas = i /\ req[t].h # NoHandle
  BY <1>1, <1>2, Descriptors
<1>3. ASSUME NEW t \in Threads, req[t].op = "truncate", req[t].path = p
      PROVE  FALSE
  <2>1. req[t].h # NoHandle => fh(t).nas = i
    BY <1>2, <1>3 DEF UsesHandle
  <2>2. t \in RequestsFor(i, {"truncate"})
    BY <1>3, <2>1 DEF RequestsFor
  <2>3. QED  BY <2>2 DEF InFlight
<1>4. ASSUME NEW t \in Threads, BusyWith(req[t], p, b)
      PROVE  FALSE
  <2>1. /\ req[t].op \in {"read", "write"} /\ req[t].path = p
        /\ req[t].off \in Nat /\ req[t].len \in Nat
    BY <1>1, <1>4 DEF BusyWith, FileInv, RequestsInv, Typed, LocalTypes
  <2>2. t \in RequestsFor(i, {"read", "write"})
    BY <1>2, <2>1 DEF RequestsFor, UsesHandle
  <2>3. b \in RequestBlocks(req[t]) /\ req[t].len # 0
    <3>1. CASE req[t].op = "write"
      <4>1. b \in RequestBlocks(req[t])
        BY <1>4, <3>1 DEF BusyWith
      <4>2. req[t].len \in 1 .. PageSize /\ PageSize \in Nat
        BY <1>1, <3>1, PageOfBlock DEF RequestOK, WriteOK
      <4>3. QED  BY <2>1, <4>1, <4>2
    <3>2. CASE req[t].op = "read"
      <4>1. req[t].pc = "cache_pwrite" /\ b = First(req[t].todo)
        BY <1>4, <3>2 DEF BusyWith
      <4>2. PICK lo, hi : /\ Span(req[t], lo, hi)
                          /\ Progress(req[t], blocks, lo, hi, First(req[t].todo))
        BY <1>1, <3>2 DEF RequestOK, ReadOK
      <4>3. b \in lo .. hi
        BY <4>1, <4>2 DEF Progress
      <4>4. req[t].len # 0 /\ RequestBlocks(req[t]) = lo .. hi
        BY <2>1, <4>2, SpanBlocks
      <4>5. QED  BY <4>3, <4>4
    <3>3. QED  BY <2>1, <3>1, <3>2
  <2>4. b \div PageBlocks \in PagesOf(req[t].off, req[t].len)
    BY <2>1, <2>3, PageOfRequest DEF RequestBlocks
  <2>5. QED  BY <2>2, <2>4 DEF InFlight
<1>5. QED  BY <1>3, <1>4 DEF Busy, Cut

\* The inductive invariant says of open files what Coherent says.
LEMMA InvCoherent ==
  ASSUME AloneInv, CoherenceInv
  PROVE  Coherent
<1> SUFFICES ASSUME NEW h \in Opened, NEW b \in Blocks,
                    <<pathToFileName(handles[h].path), b>> \in blocks,
                    ~InFlight(handles[h].nas, b),
                    NEW k \in BytesOf(b, handles[h].nas)
             PROVE  /\ k <= Len(cache.data[handles[h].cache])
                    /\ cache.data[handles[h].cache][k] = nas.data[handles[h].nas][k]
  BY DEF Coherent
<1> DEFINE p == handles[h].path
           f == pathToFileName(p)
           d == DataOf(nas, p)
           c == DataOf(cache, f)
<1>1. FileInv /\ PathInv
  BY DEF AloneInv, SharedInv
<1>2. /\ p \in Paths /\ h \in Handles
      /\ nas.dir[p] = handles[h].nas /\ nas.dir[p] # NoInode
      /\ cache.dir[f] = handles[h].cache /\ cache.dir[f] # NoInode
  BY <1>1, OpenFile DEF PathInv, HandleInv, Current, Opened
<1>3. Agree(d, c, req, blocks, p)
  <2>1. ~Outdated(p)
    BY <1>2 DEF Outdated
  <2>2. QED  BY <1>2, <2>1 DEF CoherenceInv, FileOK
<1>4. k \in 1 .. Len(d) /\ BlockOf(k) = b
  <2> DEFINE x == BS * b
             n == Len(d)
  <2>1. b \in Nat
    BY MetaAssumption
  <2>2. /\ x \in Nat /\ BS * (b + 1) = x + BS /\ BS \in Nat /\ n \in Nat
        /\ k \in x + 1 .. Smaller(x + BS, n)
    <3>1. x \in Nat /\ BS * (b + 1) = x + BS
      BY <2>1, InBlock
    <3>2. n \in Nat
      BY <1>1, <1>2, FileBytes, NasSeq
    <3>3. k \in x + 1 .. Smaller(BS * (b + 1), n)
      BY <1>2 DEF BytesOf, DataOf
    <3>4. QED  BY <3>1, <3>2, <3>3, BlockSize
  <2> HIDE DEF x, n
  <2>3. k \in 1 .. n /\ k \in Int /\ x < k /\ k <= x + BS
    BY <2>2 DEF Smaller
  <2>4. BS * b < k /\ k <= BS * (b + 1)
    BY <2>2, <2>3 DEF x
  <2>5. QED  BY <2>1, <2>3, <2>4, InBlock DEF n
<1>5. ~Busy(req, p, b) /\ ~Cut(req, p, k)
  BY <1>2, BusyInFlight
<1>6. k <= Len(c) /\ c[k] = d[k]
  <2> HIDE DEF d, c
  <2>1. QED  BY <1>3, <1>4, <1>5 DEF Agree, f
<1>7. QED  BY <1>2, <1>6 DEF DataOf

\* The inductive invariant says of a finished read what ReadReturnsNas says.
LEMMA InvReads ==
  ASSUME AloneInv, CoherenceInv
  PROVE  ReadReturnsNas
<1> SUFFICES ASSUME NEW t \in Threads, Pc(t, "read_done"),
                    ActiveIn(req[t].path, {"truncate"}) = {}
             PROVE  LET d == nas.data[fh(t).nas]
                        n == Smaller(req[t].len, Len(d) - req[t].off)
                    IN /\ req[t].count >= n
                       /\ \A k \in 1 .. n : req[t].buf[k] = d[req[t].off + k]
  BY DEF ReadReturnsNas
<1> DEFINE r == req[t]
           p == r.path
           d == DataOf(nas, p)
           n == Smaller(r.len, Len(d) - r.off)
<1>1. /\ FileInv /\ PathInv /\ UsersInv /\ r.pc = "read_done" /\ r.op = "read"
  BY DEF AloneInv, SharedInv, ShareInv, Pc, PathInv, PathReqs, Shape, AtStep
<1>2. p \in Paths /\ nas.dir[p] # NoInode /\ d = nas.data[fh(t).nas]
  BY <1>1, Descriptors DEF UsesHandle, DataOf
<1>3. Len(d) \in Nat /\ r.off \in Nat /\ r.len \in Nat
  BY <1>1, <1>2, FileBytes, NasSeq DEF FileInv, RequestsInv, Typed, LocalTypes
<1>4. ReadOK(r, d, req, blocks)
  BY DEF CoherenceInv, RequestOK
<1>5. Fetched(r, d, req) /\ Len(r.buf) = r.len
  BY <1>1, <1>4 DEF ReadOK, Progress
<1>6. \A k : ~Cut(req, p, k)
  BY DEF Cut, ActiveIn, Active
<1> HIDE DEF r, d
<1>7. ASSUME NEW k \in 1 .. n
      PROVE  r.buf[k] = d[r.off + k] /\ k <= r.count
  <2>1. /\ r.off + k \in r.off + 1 .. r.off + Len(r.buf) /\ (r.off + k) - r.off = k
        /\ r.off + k \in 1 .. Len(d)
    BY <1>3, <1>5, <1>7 DEF Smaller
  <2>2. Stable(d, req, p, r.off + k)
    BY <1>6, <2>1 DEF Stable
  <2>3. QED  BY <1>5, <2>1, <2>2 DEF Fetched, p
<1>8. r.count >= n
  <2>1. r.count \in Nat /\ n \in Int
    BY <1>3, <1>5 DEF Fetched, Smaller
  <2>2. CASE n <= 0
    BY <2>1, <2>2
  <2>3. CASE n > 0
    <3>1. n \in 1 .. n
      BY <2>1, <2>3
    <3>2. n <= r.count
      BY <1>7, <3>1
    <3>3. QED  BY <2>1, <3>2
  <2>4. QED  BY <2>1, <2>2, <2>3
<1>9. QED  BY <1>2, <1>7, <1>8 DEF r

\* When a write returns, it has just written its blocks to the cache.
LEMMA WriteEnds ==
  ASSUME AloneInv, AloneInv', [NextAlone]_vars, NEW t \in Threads,
         Pc(t, "cache_pwrite"), req[t].op = "write", Pc(t, "idle")'
  PROVE  Daemon(t) /\ cache_pwrite(t)
<1>1. FileInv /\ PathInv /\ PathInv' /\ RowsInv
  BY DEF AloneInv, SharedInv
<1>2. req'[t].pc = "idle" /\ req[t].pc = "cache_pwrite"
  BY DEF Pc
<1>3. req'[t] # req[t]
  BY <1>2
<1>4. Daemon(t)
  <2>1. CASE \E u \in Threads : Daemon(u)
    BY <1>1, <1>3, <2>1, DaemonMoves DEF FileInv, Moved
  <2>2. CASE \E u \in Threads : \E r : Issue(u, r) /\ Asks(r)
    BY <1>1, <1>2, <1>3, <2>2 DEF Issue, Go, Pc, PathInv, PathReqs
  <2>3. CASE RemoteLater
    BY <1>1, <1>3, <2>3, RemoteView DEF AloneInv, SharedInv, ShareInv
  <2>4. CASE Quiet
    BY <1>3, <2>4 DEF Quiet
  <2>5. QED  BY <1>1, <2>1, <2>2, <2>3, <2>4, AloneCases
<1>5. req'[t].op # "write"
  BY <1>1, <1>2 DEF PathInv, PathReqs, Shape, AtStep
<1>6. QED  BY <1>1, <1>4, <1>5, StillAtIt

\* Byte numbers count from 0, and the elements of a sequence from 1.
LEMMA NextByte ==
  ASSUME NEW off \in Nat, NEW len \in Nat, NEW n \in Nat, off + len <= n,
         NEW byte \in off .. off + len - 1
  PROVE  /\ byte + 1 \in Nat \ {0} /\ byte + 1 \in off + 1 .. off + len
         /\ byte + 1 \in 1 .. n /\ (byte + 1) - 1 = byte
  OBVIOUS

\* What is within a range is within a larger one.
LEMMA Between ==
  ASSUME NEW off \in Nat, NEW len \in Nat, NEW k \in off + 1 .. off + len,
         NEW m \in Nat, NEW n \in Nat, m <= off, off + len <= n
  PROVE  m < k /\ k <= n
  OBVIOUS

\* The last step of a write leaves its bytes on the NAS, in the cache and in
\* recorded blocks.
LEMMA InvWrites ==
  ASSUME AloneInv, CoherenceInv, NoStraddle, NEW t \in Threads, Daemon(t),
         cache_pwrite(t), req[t].op = "write"
  PROVE  \A byte \in req[t].off .. req[t].off + req[t].len - 1 :
           /\ <<name(t), byte \div BS>> \in blocks'
           /\ nas'.data[fh(t).nas][byte + 1] = req[t].val
           /\ byte < Len(cache'.data[fh(t).cache])
           /\ cache'.data[fh(t).cache][byte + 1] = req[t].val
<1> DEFINE r  == req[t]
           p  == r.path
           d  == DataOf(nas, p)
           c  == DataOf(cache, name(t))
           c2 == DataOf(cache', name(t))
           from  == WriteOffset(t)
           bytes == WriteBytes(t)
<1>1. /\ FileInv /\ PathInv /\ UsersInv /\ NamesInv /\ RowsInv /\ RequestOK(t)
      /\ r.pc = "cache_pwrite" /\ call[t] = NoCall /\ nas' = nas /\ blocks' = blocks
  <2>1. /\ FileInv /\ PathInv /\ UsersInv /\ NamesInv /\ RowsInv
    BY DEF AloneInv, SharedInv, ShareInv
  <2>2. /\ r.pc = "cache_pwrite" /\ At(t, "idle") /\ nas' = nas /\ blocks' = blocks
    BY DEF cache_pwrite, cache_pwriteAs, Pc, Idle, NoSQL, metaVars
  <2>3. call[t] = NoCall
    BY <2>1, <2>2 DEF RowsInv, RowsOK, FrameOf, At
  <2>4. RequestOK(t)
    BY DEF CoherenceInv
  <2>5. QED  BY <2>1, <2>2, <2>3, <2>4
<1>2. /\ p \in Paths /\ name(t) \in Names /\ nas.dir[p] # NoInode
      /\ cache.dir[name(t)] # NoInode
      /\ fh(t).nas = nas.dir[p] /\ fh(t).cache = cache.dir[name(t)]
  BY <1>1, Descriptors DEF UsesHandle
<1>3. /\ Len(d) \in Nat /\ c \in Seq(ByteSet) /\ Len(c) \in Nat
      /\ r.off \in Nat /\ r.len \in Nat /\ d = nas.data[fh(t).nas]
  BY <1>1, <1>2, FileBytes, NasSeq, LenProperties
  DEF DataOf, FileInv, RequestsInv, Typed, LocalTypes
<1>4. WriteOK(r, d)
  BY <1>1 DEF RequestOK
<1>5. PICK lo \in Nat, hi \in Nat :
         /\ RequestBlocks(r) = lo .. hi
         /\ BS * lo <= r.off /\ r.off + r.len <= BS * (hi + 1)
  BY <1>4, WriteSpan
<1>6. r.todo = lo .. hi /\ r.off + r.len <= Len(d)
      /\ \A k \in r.off + 1 .. r.off + r.len : d[k] = r.val
  <2> HIDE DEF d
  <2>1. QED  BY <1>1, <1>4, <1>5 DEF WriteOK
<1>7. /\ from \in Nat /\ bytes \in Seq(ByteSet) /\ Len(bytes) \in Nat \ {0}
      /\ \A k \in from + 1 .. from + Len(bytes) :
           Stable(d, req, p, k) => bytes[k - from] = d[k]
      /\ \A k \in Nat \ {0} : BusyWith(r, p, BlockOf(k)) => k \in from + 1 .. from + Len(bytes)
  BY <1>1, <1>3, WholeBlocks
<1>8. c2 = Written(c, from, bytes)
  BY <1>1, <1>2, <1>7, CacheCalls
<1>9. cache'.dir = cache.dir
  <2>1. cache' = Pwrite(cache, fh(t).cache, from, SubSeq(bytes, 1, Len(bytes)), clock)
    BY <1>7 DEF cache_pwrite, cache_pwriteAs
  <2>2. QED  BY <1>1, <2>1, KeepsNames DEF PathInv, DirInv
<1>10. c2 = cache'.data[fh(t).cache]
  BY <1>2, <1>9 DEF DataOf
<1> HIDE DEF d, c, c2, from, bytes
<1>11. Placed(c2, c, from, bytes)
  BY <1>3, <1>7, <1>8, WrittenBytes DEF ByteSet
<1>12. \A k : ~Cut(req, p, k)
  BY <1>1 DEF Cut, AloneInv, SharedInv, ShareInv, ApartInv, Apart
<1>13. ASSUME NEW byte \in r.off .. r.off + r.len - 1
       PROVE  /\ <<name(t), byte \div BS>> \in blocks
              /\ d[byte + 1] = r.val
              /\ byte < Len(c2) /\ c2[byte + 1] = r.val
  <2> DEFINE k == byte + 1
  <2>1. /\ k \in Nat \ {0} /\ k \in r.off + 1 .. r.off + r.len
        /\ k \in 1 .. Len(d) /\ k - 1 = byte
    <3>1. /\ r.off \in Nat /\ r.len \in Nat /\ Len(d) \in Nat
          /\ r.off + r.len <= Len(d) /\ byte \in r.off .. r.off + r.len - 1
      BY <1>3, <1>6, <1>13
    <3> HIDE DEF r
    <3>2. QED  BY <3>1, NextByte
  <2>2. BlockOf(k) = byte \div BS
    BY <2>1 DEF BlockOf
  <2> HIDE DEF k
  <2>3. d[k] = r.val
    BY <1>6, <2>1
  <2>4. BlockOf(k) \in lo .. hi
    <3>1. BS * lo \in Nat /\ BS * (hi + 1) \in Nat
      BY InBlock, BlockSize
    <3>2. BS * lo < k /\ k <= BS * (hi + 1)
      <4>1. /\ r.off \in Nat /\ r.len \in Nat /\ k \in r.off + 1 .. r.off + r.len
            /\ BS * lo <= r.off /\ r.off + r.len <= BS * (hi + 1)
        BY <1>3, <1>5, <2>1
      <4> HIDE DEF r
      <4>2. QED  BY <3>1, <4>1, Between
    <3>3. QED  BY <2>1, <3>2, InBlocks
  <2>5. <<name(t), BlockOf(k)>> \in blocks
    <3>1. BlockOf(k) \in WriteBlocks(t)
      BY <1>6, <2>4 DEF WriteBlocks
    <3>2. Recorded(t)
      BY <1>1 DEF RowsInv, RowsOK
    <3>3. call[t].todo \cup call[t].miss = {}
      BY <1>1 DEF NoCall, Fresh
    <3>4. QED  BY <1>1, <3>1, <3>2, <3>3 DEF Recorded
  <2>6. k \in from + 1 .. from + Len(bytes)
    <3>1. BusyWith(r, p, BlockOf(k))
      BY <1>5, <2>4 DEF BusyWith
    <3>2. QED  BY <1>7, <2>1, <3>1
  <2>7. bytes[k - from] = d[k]
    BY <1>7, <1>12, <2>1, <2>6 DEF Stable
  <2>8. k <= Len(c2) /\ c2[k] = bytes[k - from]
    <3>1. k <= Len(c2) /\ Len(c2) \in Nat
      BY <1>3, <1>7, <1>11, <2>1, <2>6 DEF Placed, Larger
    <3>2. k \in 1 .. Len(c2)
      BY <2>1, <3>1
    <3>3. QED  BY <1>11, <2>6, <3>1, <3>2 DEF Placed
  <2>9. byte < Len(c2)
    <3>1. Len(c2) \in Nat
      BY <1>3, <1>7, <1>11 DEF Placed, Larger
    <3>2. QED  BY <1>3, <2>1, <2>8, <3>1 DEF k
  <2>10. QED  BY <2>2, <2>3, <2>5, <2>7, <2>8, <2>9 DEF k
<1>14. QED  BY <1>1, <1>3, <1>10, <1>13 DEF d

---------------------------------------------------------------------------
\* The invariants of SpecAlone, all of them.
LEMMA AloneAll ==
  ASSUME NoCollision, NoStraddle, SizesFit
  PROVE  SpecAlone => []AloneInv /\ []CoherenceInv
<1>1. SpecAlone => CfsSpec /\ [](RowsInv /\ SharedInv /\ TypeOK)
  <2>1. SpecAlone => CfsSpec
    BY AloneIsAny, PTL
  <2>2. QED  BY <2>1, RowsFaithful, PTL
<1>2. CfsSpec => []ForeignKey
  BY FileSystemForeignKey
<1>3. RowsInv /\ SharedInv /\ TypeOK /\ ForeignKey => AloneInv
  BY DEF AloneInv
<1>4. SpecAlone => []AloneInv
  BY <1>1, <1>2, <1>3, PTL
<1>5. Init => CoherenceInv
  BY CoherenceInductive
<1>6. AloneInv /\ AloneInv' /\ CoherenceInv /\ [NextAlone]_vars => CoherenceInv'
  BY CoherenceInductive
<1>7. QED
  BY <1>4, <1>5, <1>6, PTL DEF SpecAlone

\* A program that has its file for itself never reads from the cache what the
\* NAS has not: whatever its threads read, write and truncate at a time, whatever
\* was written to the file on the NAS while it was closed, a recorded block is in
\* the cache, byte by byte, unless a request holds it ("either have entire block
\* or do not", cachefs.c:547).
THEOREM CacheCoherent ==
  ASSUME NoCollision, NoStraddle, SizesFit
  PROVE  SpecAlone => []Coherent
<1>1. AloneInv /\ CoherenceInv => Coherent
  BY InvCoherent
<1>2. QED  BY <1>1, AloneAll, PTL

\* cfs_read returns the bytes of the NAS, and as many, whether it found all of
\* its blocks in the cache, some of them or none (cachefs.c:592).
THEOREM ReadsFaithful ==
  ASSUME NoCollision, NoStraddle, SizesFit
  PROVE  SpecAlone => []ReadReturnsNas
<1>1. AloneInv /\ CoherenceInv => ReadReturnsNas
  BY InvReads
<1>2. QED  BY <1>1, AloneAll, PTL

\* When cfs_write returns, its bytes are on the NAS, in the cache and in recorded
\* blocks: "Writes are also write-though, write-allocate" (README.md:14).
THEOREM WritesReachBoth ==
  ASSUME NoCollision, NoStraddle, SizesFit
  PROVE  SpecAlone => WritesThrough
<1>1. ASSUME AloneInv, AloneInv', CoherenceInv, [NextAlone]_vars
      PROVE  [\A t \in Threads : WriteThrough(t)]_vars
  <2>1. ASSUME NEW t \in Threads  PROVE WriteThrough(t)
    <3>1. ASSUME Pc(t, "cache_pwrite"), req[t].op = "write", Pc(t, "idle")'
          PROVE  Daemon(t) /\ cache_pwrite(t)
      BY <1>1, <3>1, WriteEnds
    <3>2. QED  BY <1>1, <3>1, InvWrites DEF WriteThrough
  <2>2. QED  BY <2>1
<1>2. QED  BY <1>1, AloneAll, PTL DEF SpecAlone, WritesThrough
=============================================================================
