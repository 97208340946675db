---------------------------- MODULE FaultProofs ----------------------------
(***************************************************************************)
(* Theorems about CacheFaults: however many threads there are, whatever    *)
(* calls fail and wherever the daemon is killed, the damage stays in the   *)
(* blocks that spoilt names.  The inductive invariant is FaultInv: a file  *)
(* that is in both file systems has the same bytes in both wherever a row  *)
(* can be relied on and no request is half way between the two (Same), or  *)
(* it is closed and older than the NAS's (Outdated); and a thread that is  *)
(* not in bad carries the NAS's bytes (FromNas).  RowsInv, and with it the *)
(* proof of Coherent, does not survive a statement that fails.             *)
(***************************************************************************)
EXTENDS CoherenceProofs, CacheFaults

(***************************************************************************)
(* SpecFaults is a part of CfsSpec.                                        *)
(***************************************************************************)
LEMMA FaultSteps ==
  ASSUME FileInv, [NextFaults]_faultVars
  PROVE  [CfsNext]_vars
<1>1. ASSUME NEW t \in Threads, Works(t)  PROVE CfsNext
  <2>1. Daemon(t) \/ Starts(t)
    BY <1>1, AloneStarts DEF Works, Program
  <2>2. QED  BY <2>1 DEF CfsNext
<1>2. ASSUME NEW t \in Threads, ChangesBehind(t)  PROVE CfsNext
  <2>1. Starts(t)
    BY <1>2, AloneStarts DEF ChangesBehind
  <2>2. QED  BY <2>1 DEF CfsNext
<1>3. ASSUME Fault  PROVE CfsNext
  BY <1>3 DEF Fault, CallGoesWrong, StatementGoesWrong, RemoteWrites, Killed,
              CfsNext
<1>4. Tick => CfsNext
  BY DEF CfsNext
<1>5. CASE UNCHANGED faultVars
  BY <1>5 DEF faultVars
<1>6. QED  BY <1>1, <1>2, <1>3, <1>4, <1>5 DEF NextFaults

---------------------------------------------------------------------------
(***************************************************************************)
(* A call that fails leaves its callback at the next step, and the files   *)
(* as they were but for the bytes of a write that arrive.                  *)
(***************************************************************************)
\* What a callback goes on with.
GoesOnWith(t, r) ==
  /\ Go(t, r) /\ Kept(req[t], r)
  /\ \/ r = NoReq
     \/ /\ DOMAIN r = Fields /\ AtStep(r) /\ r.new = req[t].new
        /\ r.op = req[t].op /\ r.path = req[t].path
        /\ r.op = "open" => Opening(nas.dir, r)

\* The locals r of a callback that has read or counted something.
SameAsk(q, r) ==
  /\ DOMAIN r = Fields
  /\ r.op = q.op /\ r.path = q.path /\ r.h = q.h /\ r.off = q.off
  /\ r.len = q.len /\ r.val = q.val /\ r.new = q.new /\ r.ino = q.ino

\* A callback that keeps its request goes on with it.
LEMMA AskGoesOn ==
  ASSUME PathInv, NEW t \in Threads, NEW r, Go(t, r), SameAsk(req[t], r), AtStep(r),
         req[t].pc # "open_nas",
         req[t].pc \in {"open_present", "open_unlink"} =>
           r.ino # NoInode \/ r.pc = "open_unlink"
  PROVE  GoesOnWith(t, r)
<1>1. /\ Shape(req[t]) /\ Opening(nas.dir, req[t]) /\ AtStep(req[t])
  BY DEF PathInv, PathReqs, Shape
<1>2. r.op = "open" => Opening(nas.dir, r)
  BY <1>1 DEF SameAsk, Opening, AtStep
<1>3. QED  BY <1>2 DEF SameAsk, GoesOnWith, Kept

\* A call that fails ends its callback, or leaves it at the next step: the code
\* looks at the result of some calls and not of others.
LEMMA FailRequest ==
  ASSUME FileInv, PathInv, NEW t \in Threads, CallFails(t)
  PROVE  \E r : GoesOnWith(t, r)
<1>1. /\ DOMAIN req[t] = Fields /\ AtStep(req[t]) /\ Kept(req[t], NoReq)
  BY DEF PathInv, PathReqs, Shape, Kept
<1>2. Return(t) => GoesOnWith(t, NoReq)
  BY <1>1 DEF Return, GoesOnWith
<1>3. ASSUME NEW pc, NEW todo, NEW hits, NEW buf, NEW count, NEW num, NEW present
      PROVE  /\ SameAsk(req[t], [req[t] EXCEPT !.pc = pc])
             /\ SameAsk(req[t], [req[t] EXCEPT !.pc = pc, !.present = present])
             /\ SameAsk(req[t], [req[t] EXCEPT !.num = num, !.pc = pc])
             /\ SameAsk(req[t], [req[t] EXCEPT !.pc = pc, !.num = num])
             /\ SameAsk(req[t], [req[t] EXCEPT !.hits = hits, !.todo = todo, !.pc = pc])
             /\ SameAsk(req[t], [req[t] EXCEPT !.buf = buf, !.pc = pc])
             /\ SameAsk(req[t], [req[t] EXCEPT !.buf = buf, !.count = count, !.pc = pc])
             /\ SameAsk(req[t], [req[t] EXCEPT !.buf = buf, !.count = count,
                                               !.todo = todo, !.pc = pc])
             /\ SameAsk(req[t], [[req[t] EXCEPT !.buf = buf, !.count = count]
                                  EXCEPT !.todo = todo, !.pc = pc])
             /\ SameAsk(req[t], [[req[t] EXCEPT !.buf = buf, !.count = count]
                                  EXCEPT !.pc = pc])
             /\ SameAsk(req[t], [req[t] EXCEPT !.todo = todo, !.pc = pc])
  BY <1>1 DEF SameAsk, Fields, NoReq
<1>4. CASE call_fails(t)
  <2>1. CASE req[t].pc \in Ends /\ Return(t)
    BY <2>1, <1>2
  <2>2. CASE Pc(t, "open_unlink") /\ AfterUnlink(t)
    <3> DEFINE r == [req[t] EXCEPT !.pc = "open_create"]
    <3>1. SameAsk(req[t], r)
      BY <1>3
    <3>2. r.pc = "open_create" /\ req[t].op = "open"
      BY <1>1, <2>2 DEF Fields, NoReq, Pc, AtStep
    <3>3. Return(t) \/ (Go(t, r) /\ req[t].ino # NoInode)
      BY <2>2 DEF AfterUnlink
    <3> HIDE DEF r
    <3>4. CASE Go(t, r) /\ req[t].ino # NoInode
      <4>1. AtStep(r) /\ r.ino # NoInode
        BY <3>1, <3>2, <3>4 DEF SameAsk, AtStep
      <4>2. GoesOnWith(t, r)
        BY <2>2, <3>1, <3>4, <4>1, AskGoesOn DEF Pc
      <4>3. QED  BY <4>2
    <3>5. QED  BY <1>2, <3>3, <3>4
  <2>3. CASE /\ req[t].pc \in DOMAIN Follows
             /\ Go(t, [req[t] EXCEPT !.pc = Follows[@]])
    <3>1. PICK pc : /\ Go(t, [req[t] EXCEPT !.pc = pc])
                    /\ \/ req[t].pc = "open_create" /\ pc = "open_mknod"
                       \/ req[t].pc = "open_mknod" /\ pc = "open_cache"
                       \/ req[t].pc = "unlink_cache" /\ pc = "unlink_nas"
                       \/ req[t].pc = "trunc_cache" /\ pc = "trunc_nas"
                       \/ req[t].pc = "utime_cache" /\ pc = "utime_nas"
      <4> DEFINE pc == Follows[req[t].pc]
      <4>1. Go(t, [req[t] EXCEPT !.pc = pc])
        BY <2>3
      <4>2. \/ req[t].pc = "open_create" /\ pc = "open_mknod"
            \/ req[t].pc = "open_mknod" /\ pc = "open_cache"
            \/ req[t].pc = "unlink_cache" /\ pc = "unlink_nas"
            \/ req[t].pc = "trunc_cache" /\ pc = "trunc_nas"
            \/ req[t].pc = "utime_cache" /\ pc = "utime_nas"
        BY <1>1, <2>3 DEF Follows, AtStep
      <4> HIDE DEF pc
      <4>3. QED  BY <4>1, <4>2
    <3> DEFINE r == [req[t] EXCEPT !.pc = pc]
    <3>2. SameAsk(req[t], r) /\ r.pc = pc /\ Go(t, r)
      BY <1>1, <1>3, <3>1 DEF Fields, NoReq
    <3> HIDE DEF r
    <3>3. AtStep(r)
      BY <1>1, <3>1, <3>2 DEF AtStep, SameAsk
    <3>4. GoesOnWith(t, r)
      BY <3>1, <3>2, <3>3, AskGoesOn
    <3>5. QED  BY <3>4
  <2>4. QED  BY <1>4, <2>1, <2>2, <2>3 DEF call_fails
<1>5. CASE lookup_fails(t)
  <2>1. CASE open_presentAs(t, TRUE)
    <3>1. PICK pc : /\ \/ Go(t, [req[t] EXCEPT !.pc = pc])
                       \/ Go(t, [req[t] EXCEPT !.pc = pc, !.present = TRUE])
                    /\ \/ pc = "open_unlink"
                       \/ pc = "open_stat" /\ req[t].ino # NoInode
      BY <2>1 DEF open_presentAs
    <3>2. req[t].op = "open" /\ req[t].pc = "open_present"
      BY <1>1, <2>1 DEF open_presentAs, Pc, AtStep
    <3>3. PICK r : Go(t, r) /\ SameAsk(req[t], r) /\ r.pc = pc
      <4> DEFINE a == [req[t] EXCEPT !.pc = pc]
                 b == [req[t] EXCEPT !.pc = pc, !.present = TRUE]
      <4>1. SameAsk(req[t], a) /\ SameAsk(req[t], b) /\ a.pc = pc /\ b.pc = pc
        BY <1>1, <1>3 DEF Fields, NoReq
      <4>2. Go(t, a) \/ Go(t, b)
        BY <3>1
      <4> HIDE DEF a, b
      <4>3. QED  BY <4>1, <4>2
    <3>4. AtStep(r)
      BY <3>1, <3>2, <3>3 DEF AtStep, SameAsk
    <3>5. r.pc = "open_stat" => r.ino # NoInode
      BY <3>1, <3>3 DEF SameAsk
    <3>6. GoesOnWith(t, r)
      BY <3>1, <3>2, <3>3, <3>4, <3>5, AskGoesOn
    <3>7. QED  BY <3>6
  <2>2. CASE open_statAs(t, 0 .. MaxTime)
    <3> DEFINE pc == IF req[t].present THEN "open_date" ELSE "open_create"
    <3>1. PICK m : Go(t, [req[t] EXCEPT !.num = m, !.pc = pc])
      BY <2>2 DEF open_statAs
    <3> DEFINE r == [req[t] EXCEPT !.num = m, !.pc = pc]
    <3>2. SameAsk(req[t], r) /\ r.pc = pc /\ Go(t, r)
      BY <1>1, <1>3, <3>1 DEF Fields, NoReq
    <3>3. pc \in {"open_date", "open_create"}
      OBVIOUS
    <3> HIDE DEF r, pc
    <3>4. req[t].op = "open" /\ req[t].pc = "open_stat"
      BY <1>1, <2>2 DEF open_statAs, Pc, AtStep
    <3>5. GoesOnWith(t, r)
      BY <3>2, <3>3, <3>4, AskGoesOn DEF AtStep, SameAsk
    <3>6. QED  BY <3>5
  <2>3. CASE open_dateAs(t, 0 .. MaxTime)
    <3>1. PICK pc \in {"open_unlink", "open_cache"} : Go(t, [req[t] EXCEPT !.pc = pc])
      BY <2>3 DEF open_dateAs
    <3> DEFINE r == [req[t] EXCEPT !.pc = pc]
    <3>2. SameAsk(req[t], r) /\ r.pc = pc /\ Go(t, r)
      BY <1>1, <1>3, <3>1 DEF Fields, NoReq
    <3> HIDE DEF r
    <3>3. req[t].op = "open" /\ req[t].pc = "open_date"
      BY <1>1, <2>3 DEF open_dateAs, Pc, AtStep
    <3>4. GoesOnWith(t, r)
      BY <3>2, <3>3, AskGoesOn DEF AtStep, SameAsk
    <3>5. QED  BY <3>4
  <2>4. CASE write_statAs(t, 0 .. MaxSize)
    <3>1. PICK m : Go(t, [req[t] EXCEPT !.pc = "write_read", !.num = m])
      BY <2>4 DEF write_statAs
    <3> DEFINE r == [req[t] EXCEPT !.pc = "write_read", !.num = m]
    <3>2. SameAsk(req[t], r) /\ r.pc = "write_read" /\ Go(t, r)
      BY <1>1, <1>3, <3>1 DEF Fields, NoReq
    <3> HIDE DEF r
    <3>3. req[t].op = "write" /\ req[t].pc = "write_stat"
      BY <1>1, <2>4 DEF write_statAs, Pc, AtStep
    <3>4. GoesOnWith(t, r)
      BY <3>2, <3>3, AskGoesOn DEF AtStep, SameAsk
    <3>5. QED  BY <3>4
  <2>5. CASE read_checkAs(t, TRUE)
    <3>1. PICK hits, todo, pc :
            /\ pc \in {"read_check", "read_all", "read_block"}
            /\ Go(t, [req[t] EXCEPT !.hits = hits, !.todo = todo, !.pc = pc])
      BY <2>5 DEF read_checkAs
    <3> DEFINE r == [req[t] EXCEPT !.hits = hits, !.todo = todo, !.pc = pc]
    <3>2. SameAsk(req[t], r) /\ r.pc = pc /\ Go(t, r)
      BY <1>1, <1>3, <3>1 DEF Fields, NoReq
    <3> HIDE DEF r
    <3>3. req[t].op = "read" /\ req[t].pc = "read_check"
      BY <1>1, <2>5 DEF read_checkAs, Pc, AtStep
    <3>4. GoesOnWith(t, r)
      BY <3>1, <3>2, <3>3, AskGoesOn DEF AtStep, SameAsk
    <3>5. QED  BY <3>4
  <2>6. QED  BY <1>5, <2>1, <2>2, <2>3, <2>4, <2>5 DEF lookup_fails
<1>6. CASE pread_fails(t)
  <2>1. PICK r : /\ Go(t, r) /\ SameAsk(req[t], r)
                 /\ r.pc \in {"read_done", "read_block", "cache_record"}
                 /\ r.pc = "cache_record" \/ ~Pc(t, "write_read")
    <3>1. CASE read_allAs(t, <<>>, -1)
      <4>1. PICK buf, count : Go(t, [req[t] EXCEPT !.buf = buf, !.count = count,
                                       !.todo = {}, !.pc = "read_done"])
        BY <3>1 DEF read_allAs
      <4> DEFINE r == [req[t] EXCEPT !.buf = buf, !.count = count,
                                     !.todo = {}, !.pc = "read_done"]
      <4>2. SameAsk(req[t], r) /\ r.pc = "read_done" /\ Go(t, r)
        BY <1>1, <1>3, <4>1 DEF Fields, NoReq
      <4> HIDE DEF r
      <4>3. QED  BY <3>1, <4>2 DEF read_allAs, Pc
    <3>2. CASE read_blockAs(t, <<>>, -1)
      <4>1. PICK buf, count :
              \/ Go(t, NextReadBlock(t, [req[t] EXCEPT !.buf = buf,
                                                       !.count = count]))
              \/ Go(t, [[req[t] EXCEPT !.buf = buf, !.count = count]
                         EXCEPT !.pc = "cache_record"])
        BY <3>2 DEF read_blockAs
      <4> DEFINE w == [req[t] EXCEPT !.buf = buf, !.count = count]
                 a == NextReadBlock(t, w)
                 b == [w EXCEPT !.pc = "cache_record"]
      <4>2. SameAsk(req[t], a) /\ a.pc \in {"read_done", "read_block"}
        BY <1>1, <1>3 DEF NextReadBlock, Fields, NoReq
      <4>3. SameAsk(req[t], b) /\ b.pc = "cache_record"
        BY <1>1, <1>3 DEF Fields, NoReq
      <4>4. Go(t, a) \/ Go(t, b)
        BY <4>1
      <4> HIDE DEF w, a, b
      <4>5. QED  BY <3>2, <4>2, <4>3, <4>4 DEF read_blockAs, Pc
    <3>3. CASE write_readAs(t, <<>>)
      <4>1. PICK buf : Go(t, [req[t] EXCEPT !.buf = buf, !.pc = "cache_record"])
        BY <3>3 DEF write_readAs
      <4> DEFINE r == [req[t] EXCEPT !.buf = buf, !.pc = "cache_record"]
      <4>2. SameAsk(req[t], r) /\ r.pc = "cache_record" /\ Go(t, r)
        BY <1>1, <1>3, <4>1 DEF Fields, NoReq
      <4> HIDE DEF r
      <4>3. QED  BY <4>2
    <3>4. QED  BY <1>6, <3>1, <3>2, <3>3 DEF pread_fails
  <2>2. req[t].pc \in {"read_all", "read_block", "write_read"}
    BY <1>6 DEF pread_fails, read_allAs, read_blockAs, write_readAs, Pc
  <2>3. AtStep(r)
    BY <1>1, <2>1, <2>2 DEF AtStep, SameAsk, Pc
  <2>4. GoesOnWith(t, r)
    BY <2>1, <2>2, <2>3, AskGoesOn
  <2>5. QED  BY <2>4
<1>7. CASE pwrite_fails(t)
  <2>1. CASE Pc(t, "write_nas")
    <3> DEFINE r == [req[t] EXCEPT !.pc = "write_stat"]
    <3>1. Go(t, r)
      BY <1>7, <2>1 DEF pwrite_fails, write_nasAs, Pc
    <3>2. SameAsk(req[t], r) /\ r.pc = "write_stat"
      BY <1>1, <1>3 DEF Fields, NoReq
    <3> HIDE DEF r
    <3>3. req[t].op = "write"
      BY <1>1, <2>1 DEF Pc, AtStep
    <3>4. GoesOnWith(t, r)
      BY <2>1, <3>1, <3>2, <3>3, AskGoesOn DEF AtStep, SameAsk, Pc
    <3>5. QED  BY <3>4
  <2>2. CASE ~Pc(t, "write_nas")
    <3>1. PICK n : cache_pwriteAs(t, n)
      BY <1>7, <2>2 DEF pwrite_fails, write_nasAs
    <3> DEFINE r == NextReadBlock(t, req[t])
    <3>2. Return(t) \/ (req[t].op = "read" /\ Go(t, r))
      BY <3>1 DEF cache_pwriteAs
    <3>3. SameAsk(req[t], r) /\ r.pc \in {"read_done", "read_block"}
      BY <1>1, <1>3 DEF NextReadBlock, Fields, NoReq
    <3> HIDE DEF r
    <3>4. CASE req[t].op = "read" /\ Go(t, r)
      <4>1. AtStep(r) /\ req[t].pc = "cache_pwrite"
        BY <3>1, <3>3, <3>4 DEF AtStep, SameAsk, cache_pwriteAs, Pc
      <4>2. GoesOnWith(t, r)
        BY <3>3, <3>4, <4>1, AskGoesOn
      <4>3. QED  BY <4>2
    <3>5. QED  BY <1>2, <3>2, <3>4
  <2>3. QED  BY <2>1, <2>2
<1>8. QED  BY <1>4, <1>5, <1>6, <1>7 DEF CallFails

\* Some of the bytes of a write arrive.
PartOnNas(t) == \E n \in Nat \ {0} :
  /\ n < req[t].len /\ write_nasAs(t, n)
  /\ DataOf(nas', req[t].path) =
       Written(DataOf(nas, req[t].path), req[t].off, [k \in 1 .. n |-> req[t].val])

PartInCache(t) == \E n \in Nat \ {0} :
  /\ n < Len(WriteBytes(t)) /\ cache_pwriteAs(t, n)
  /\ DataOf(cache', name(t)) =
       Written(DataOf(cache, name(t)), WriteOffset(t), SubSeq(WriteBytes(t), 1, n))

\* What a call that fails changes: nothing but the bytes that arrive before it
\* does, at the front of a pwrite (cachefs.c:522, cachefs.c:650).
LEMMA FailView ==
  ASSUME SharedInv, NEW t \in Threads, CallFails(t)
  PROVE  /\ UNCHANGED handles /\ SameDirs
         /\ OnlyFile(nas, nas', req[t].path) /\ OnlyFile(cache, cache', name(t))
         /\ nas' = nas \/ PartOnNas(t)
         /\ cache' = cache \/ PartInCache(t)
<1> USE DEF SharedInv
<1>1. /\ FileSystem(nas, Paths, NasBytes) /\ OneName(nas.dir)
      /\ FileSystem(cache, Names, ByteSet) /\ OneName(cache.dir) /\ AtStep(req[t])
      /\ DirInv
  BY DEF FileInv, DirsInv, ShareInv, NamesInv, PathInv, PathReqs, Shape
<1>2. \A fs, f : OnlyFile(fs, fs, f)
  BY DEF OnlyFile, SameFile
<1>3. CASE UNCHANGED <<nas, cache, handles>>
  BY <1>2, <1>3 DEF SameDirs
<1>4. ASSUME NEW n \in 0 .. req[t].len - 1, write_nasAs(t, n), n # 0
      PROVE  /\ UNCHANGED <<cache, handles>> /\ DOMAIN nas' = DOMAIN nas
             /\ nas'.dir = nas.dir
             /\ OnlyFile(nas, nas', req[t].path) /\ PartOnNas(t)
  <2> DEFINE p     == req[t].path
             i     == nas.dir[p]
             bytes == [k \in 1 .. n |-> req[t].val]
             new   == Pwrite(nas, i, req[t].off, bytes, clock)
  <2>1. req[t].op = "write" /\ req[t].len \in Nat
    BY <1>1, <1>4 DEF write_nasAs, Pc, AtStep, FileInv, RequestsInv, Typed, LocalTypes
  <2>2. p \in Paths /\ fh(t).nas = i /\ i \in Inodes
    BY <2>1, Descriptors DEF UsesHandle, ShareInv
  <2>3. nas' = new /\ UNCHANGED <<cache, handles>>
    BY <1>4, <2>2 DEF write_nasAs
  <2>4. /\ new.dir = nas.dir /\ OnlyFile(nas, new, p)
        /\ DataOf(new, p) = Written(nas.data[i], req[t].off, bytes)
    <3>1. i = nas.dir[p] /\ i \in Inodes /\ p \in Paths
      BY <2>2
    <3> HIDE DEF bytes, i, p
    <3>2. QED  BY <1>1, <3>1, CallsLocal
  <2>5. DOMAIN new = DOMAIN nas
    BY <1>1, KeepsNames DEF DirInv
  <2> HIDE DEF new
  <2>6. n \in Nat \ {0} /\ n < req[t].len
    BY <1>4, <2>1
  <2>7. PartOnNas(t)
    BY <1>4, <2>3, <2>4, <2>6 DEF PartOnNas, DataOf
  <2>8. QED  BY <2>3, <2>4, <2>5, <2>7
<1>5. ASSUME NEW n \in 0 .. Len(WriteBytes(t)) - 1, cache_pwriteAs(t, n), n # 0,
             Pc(t, "cache_pwrite")
      PROVE  /\ UNCHANGED <<nas, handles>> /\ DOMAIN cache' = DOMAIN cache
             /\ cache'.dir = cache.dir
             /\ OnlyFile(cache, cache', name(t)) /\ PartInCache(t)
  <2> DEFINE f     == name(t)
             i     == cache.dir[f]
             bytes == SubSeq(WriteBytes(t), 1, n)
             new   == Pwrite(cache, i, WriteOffset(t), bytes, clock)
  <2>1. req[t].op \in {"read", "write"}
    BY <1>1, <1>5 DEF Pc, AtStep
  <2>2. f \in Names /\ fh(t).cache = i /\ i \in Inodes
    BY <2>1, Descriptors DEF UsesHandle, ShareInv
  <2>3. cache' = new /\ UNCHANGED <<nas, handles>>
    BY <1>5, <2>2 DEF cache_pwriteAs
  <2>4. /\ new.dir = cache.dir /\ OnlyFile(cache, new, f)
        /\ DataOf(new, f) = Written(cache.data[i], WriteOffset(t), bytes)
    <3>1. i = cache.dir[f] /\ i \in Inodes /\ f \in Names
      BY <2>2
    <3> HIDE DEF bytes, i, f
    <3>2. QED  BY <1>1, <3>1, CallsLocal
  <2>5. DOMAIN new = DOMAIN cache
    BY <1>1, KeepsNames DEF DirInv
  <2> HIDE DEF new
  <2>6. WriteBytes(t) \in Seq(ByteSet)
    BY <1>5, WriteBytesType DEF FileInv, Covering, Pc
  <2>7. n \in Nat \ {0} /\ n < Len(WriteBytes(t))
    BY <1>5, <2>6, LenProperties
  <2>8. PartInCache(t)
    BY <1>5, <2>3, <2>4, <2>7 DEF PartInCache, DataOf
  <2>9. QED  BY <2>3, <2>4, <2>5, <2>8
<1>6. CASE ~pwrite_fails(t)
  BY <1>3, <1>6
  DEF CallFails, call_fails, lookup_fails, open_presentAs, read_checkAs,
      open_statAs, open_dateAs, write_statAs, pread_fails, read_allAs,
      read_blockAs, write_readAs, NoFile
<1>7. CASE pwrite_fails(t)
  <2>1. CASE \E n \in 0 .. req[t].len - 1 : write_nasAs(t, n)
    <3>1. PICK n \in 0 .. req[t].len - 1 : write_nasAs(t, n)
      BY <2>1
    <3>2. CASE n = 0
      BY <1>3, <3>1, <3>2 DEF write_nasAs
    <3>3. CASE n # 0
      BY <1>2, <1>4, <3>1, <3>3 DEF SameDirs
    <3>4. QED  BY <3>2, <3>3
  <2>2. CASE Pc(t, "cache_pwrite") /\
             \E n \in 0 .. Len(WriteBytes(t)) - 1 : cache_pwriteAs(t, n)
    <3>1. PICK n \in 0 .. Len(WriteBytes(t)) - 1 : cache_pwriteAs(t, n)
      BY <2>2
    <3>2. CASE n = 0
      BY <1>3, <3>1, <3>2 DEF cache_pwriteAs
    <3>3. CASE n # 0
      BY <1>2, <1>5, <2>2, <3>1, <3>3 DEF SameDirs
    <3>4. QED  BY <3>2, <3>3
  <2>3. QED  BY <1>7, <2>1, <2>2 DEF pwrite_fails
<1>8. QED  BY <1>6, <1>7

\* A call that fails leaves paths, handles and locks as they are.
LEMMA FailPaths ==
  ASSUME SharedInv, NEW t \in Threads, CallFails(t)
  PROVE  PathInv' /\ ShareInv' /\ Moved(t)
<1> USE DEF SharedInv
<1>1. PICK r : GoesOnWith(t, r)
  BY FailRequest
<1>2. Go(t, r) /\ UNCHANGED handles /\ SameDirs /\ Kept(req[t], r)
  BY <1>1, FailView DEF GoesOnWith
<1>3. Moved(t)
  BY <1>2, GoMoves DEF FileInv
<1>4. PathInv'
  BY <1>1, <1>2, GoesOn, OpenGoesOn DEF GoesOnWith
<1>5. \A u \in Threads :
        \/ req'[u].op = "none"
        \/ /\ req'[u].op = req[u].op /\ req'[u].path = req[u].path
           /\ req'[u].h = req[u].h /\ req'[u].off = req[u].off
           /\ req'[u].len = req[u].len
  BY <1>3, IdleShape DEF Moved, Kept
<1>6. ASSUME NEW a \in Threads, NEW u \in Threads, a # u
      PROVE  Apart(req'[a], req'[u])
  BY <1>5, <1>6 DEF ShareInv, ApartInv, Apart
<1>7. ApartInv'
  BY <1>6 DEF ApartInv
<1>8. UsersInv' /\ NamesInv'
  BY <1>2, <1>5 DEF ShareInv, UsersInv, NamesInv, UsesHandle, SameDirs, fh
<1>9. QED  BY <1>3, <1>4, <1>7, <1>8 DEF ShareInv

---------------------------------------------------------------------------
(***************************************************************************)
(* The requests of SpecFaults.                                             *)
(***************************************************************************)
FaultAsks(r) ==
  /\ AsksFor(r)
  /\ r.op \in {"write", "truncate", "utime"} => ~InodeLocked(r.path)
  /\ r.op \in {"read", "write"} => /\ PagesFree(r.path, r.off, r.len)
                                   /\ r.todo = RequestBlocks(r)
  /\ r.op = "read" => r.len \in Nat \ {0}
  /\ r.op = "write" => /\ r.off \in 0 .. MaxSize - 1 /\ r.len \in 1 .. PageSize
                       /\ Cardinality(PagesOf(r.off, r.len)) = 1

\* The program has the file open while it changes it.
WhileOpen(r) == r.op \in {"truncate", "utime"} => OpenOf(r.path) # {}

\* A write behind the end of the file.
LEMMA SparseAsks ==
  ASSUME PathInv, NEW t \in Threads, WriteSparse(t)
  PROVE  \E r : Issue(t, r) /\ FaultAsks(r) /\ WhileOpen(r)
<1>1. PICK h \in Opened, off \in 0 .. MaxSize - 1, len \in 1 .. PageSize,
           v \in Values : StartWrite(t, h, off, len, v)
  BY DEF WriteSparse
<1> DEFINE w == [NoReq EXCEPT !.op = "write", !.pc = "write_nas",
                  !.path = handles[h].path, !.h = h, !.off = off,
                  !.len = len, !.val = v]
           r == [w EXCEPT !.todo = RequestBlocks(w)]
<1>2. /\ Issue(t, r) /\ PagesFree(handles[h].path, off, len)
      /\ ~InodeLocked(handles[h].path)
      /\ Cardinality(PagesOf(off, len)) = 1
  BY <1>1 DEF StartWrite
<1>3. /\ r.op = "write" /\ r.pc = "write_nas" /\ r.path = handles[h].path
      /\ r.h = h /\ r.off = off /\ r.len = len /\ r.todo = RequestBlocks(w)
      /\ w.off = off /\ w.len = len
  BY DEF NoReq
<1> HIDE DEF r, w
<1>4. r.todo = RequestBlocks(r)
  BY <1>3 DEF RequestBlocks
<1>5. AsksFor(r)
  BY <1>2, <1>3, OpenFile DEF AsksFor, AtStart, UsesHandle
<1>6. QED  BY <1>2, <1>3, <1>4, <1>5 DEF FaultAsks, WhileOpen

\* cfs_truncate by path or by descriptor, to a size of any kind.
LEMMA TruncateAsks ==
  ASSUME PathInv, NEW t \in Threads, NEW p \in Paths, nas.dir[p] # NoInode,
         NEW h, h # NoHandle => h \in Handles /\ handles[h].path = p,
         NEW len, StartTruncate(t, p, h, len)
  PROVE  \E r : Issue(t, r) /\ FaultAsks(r) /\ r.path = p
<1> DEFINE r == [NoReq EXCEPT !.op = "truncate", !.pc = "trunc_cache",
                              !.path = p, !.h = h, !.len = len]
<1>1. ~InodeLocked(p) /\ Issue(t, r)
  BY DEF StartTruncate
<1>2. /\ r.op = "truncate" /\ r.pc = "trunc_cache" /\ r.path = p /\ r.h = h
  BY DEF NoReq
<1> HIDE DEF r
<1>3. FaultAsks(r)
  BY <1>1, <1>2 DEF FaultAsks, AsksFor, AtStart, UsesHandle
<1>4. QED  BY <1>1, <1>2, <1>3

\* utime by path.
LEMMA UtimeAsks ==
  ASSUME PathInv, NEW t \in Threads, UtimeAny(t)
  PROVE  \E r : Issue(t, r) /\ FaultAsks(r)
<1>1. PICK p \in Paths, time \in 0 .. MaxTime :
        /\ nas.dir[p] # NoInode /\ ~InodeLocked(p)
        /\ Issue(t, [NoReq EXCEPT !.op = "utime", !.pc = "utime_cache",
                                  !.path = p, !.num = time])
  BY DEF UtimeAny, StartUtime
<1> DEFINE r == [NoReq EXCEPT !.op = "utime", !.pc = "utime_cache", !.path = p,
                              !.num = time]
<1>2. r.op = "utime" /\ r.pc = "utime_cache" /\ r.path = p /\ r.h = NoHandle
  BY DEF NoReq
<1> HIDE DEF r
<1>3. FaultAsks(r)
  BY <1>1, <1>2 DEF FaultAsks, AsksFor, AtStart, UsesHandle
<1>4. QED  BY <1>1, <1>3 DEF r

\* Every other request, which the program makes of an open file or whatever the
\* times of the file are.
LEMMA OpenAsks ==
  ASSUME PathInv, NEW t \in Threads,
         \/ MknodAny(t) \/ OpenAlone(t) \/ ReadAny(t) \/ WriteDense(t)
         \/ ReleaseAny(t) \/ WriteSparse(t) \/ Grow(t) \/ ShrinkOpen(t)
         \/ UnlinkAny(t)
  PROVE  \E r : Issue(t, r) /\ FaultAsks(r) /\ WhileOpen(r)
<1>1. CASE WriteDense(t) \/ WriteSparse(t)
  <2>1. WriteSparse(t)
    BY <1>1 DEF WriteDense, WriteSparse
  <2>2. QED  BY <2>1, SparseAsks
<1>2. CASE Grow(t) \/ ShrinkOpen(t)
  <2>1. PICK h \in Opened : \E len : StartTruncate(t, handles[h].path, h, len)
    BY <1>2 DEF Grow, ShrinkOpen
  <2>2. PICK len : StartTruncate(t, handles[h].path, h, len)
    BY <2>1
  <2>3. PICK r : Issue(t, r) /\ FaultAsks(r) /\ r.path = handles[h].path
    BY <2>2, TruncateAsks, OpenFile
  <2>4. QED  BY <2>3, OpenFile DEF WhileOpen
<1>3. CASE MknodAny(t) \/ OpenAlone(t) \/ ReadAny(t) \/ ReleaseAny(t) \/ UnlinkAny(t)
  <2>1. PICK r : Issue(t, r) /\ Asks(r)
    BY <1>3, AloneAsks
  <2>2. r.op = "read" => r.len \in Nat \ {0}
    <3>1. ASSUME NEW n \in Nat \ {0}  PROVE BS * n \in Nat \ {0}
      <4>1. BS * 0 = 0 /\ BS * 0 + BS <= BS * n /\ BS * n \in Int
        BY BlockSize, Multiples
      <4>2. QED  BY <4>1, BlockSize
    <3>2. QED  BY <2>1, <3>1 DEF Asks, AsksData
  <2>3. FaultAsks(r)
    BY <2>1, <2>2 DEF Asks, AsksAlone, AsksData, FaultAsks
  <2>4. req'[t] = r
    BY <2>1 DEF Issue, Go, PathInv, PathReqs
  <2>5. r.op \notin {"truncate", "utime"}
    <3>1. CASE MknodAny(t)
      <4>1. PICK p : Issue(t, [NoReq EXCEPT !.op = "mknod", !.pc = "mknod", !.path = p])
        BY <3>1 DEF MknodAny, StartMknod
      <4>2. QED
        BY <2>4, <4>1 DEF Issue, Go, PathInv, PathReqs, NoReq
    <3>2. CASE OpenAlone(t)
      <4>1. PICK p, h :
              Issue(t, [NoReq EXCEPT !.op = "open", !.pc = "open_nas", !.path = p,
                                     !.h = h])
        BY <3>2 DEF OpenAlone, StartOpen
      <4>2. QED
        BY <2>4, <4>1 DEF Issue, Go, PathInv, PathReqs, NoReq
    <3>3. CASE ReadAny(t)
      <4>1. PICK h : \E off, len : StartRead(t, h, off, len)
        BY <3>3 DEF ReadAny
      <4>2. PICK off, len : StartRead(t, h, off, len)
        BY <4>1
      <4>3. QED
        BY <2>4, <4>2 DEF StartRead, Issue, Go, PathInv, PathReqs, NoReq
    <3>4. CASE ReleaseAny(t)
      <4>1. PICK h : Issue(t, [NoReq EXCEPT !.op = "release", !.pc = "release_dig",
                                 !.path = handles[h].path, !.h = h])
        BY <3>4 DEF ReleaseAny, StartRelease
      <4>2. QED
        BY <2>4, <4>1 DEF Issue, Go, PathInv, PathReqs, NoReq
    <3>5. CASE UnlinkAny(t)
      <4>1. PICK p : Issue(t, [NoReq EXCEPT !.op = "unlink", !.pc = "unlink_meta",
                                 !.path = p])
        BY <3>5 DEF UnlinkAny, StartUnlink
      <4>2. QED
        BY <2>4, <4>1 DEF Issue, Go, PathInv, PathReqs, NoReq
    <3>6. QED  BY <1>3, <3>1, <3>2, <3>3, <3>4, <3>5
  <2>6. QED  BY <2>1, <2>3, <2>5 DEF WhileOpen
<1>4. QED  BY <1>1, <1>2, <1>3

---------------------------------------------------------------------------
(***************************************************************************)
(* The steps of SpecFaults, seen from the rows that can be relied on.      *)
(***************************************************************************)
Trusted == blocks \ spoilt

\* No row of f can be.
Gone(f) == \A b \in Blocks : <<f, b>> \notin Trusted

\* The kernel starts a callback: nothing is spoilt by that, but for a file
\* behind the NAS that is to be changed.
Begun(t, r) ==
  /\ Issue(t, r) /\ FaultAsks(r)
  /\ Trusted' \subseteq Trusted /\ bad \subseteq bad'
  /\ WhileOpen(r) \/ Gone(pathToFileName(r.path))'

Still == UNCHANGED <<nas, cache, handles, req, metaVars, spoilt, bad>>

\* The steps of SpecFaults: a callback goes on or fails, a request is issued, the
\* NAS changes behind a closed file, the daemon is killed, or nothing happens.
LEMMA FaultCases ==
  ASSUME PathInv, [NextFaults]_faultVars
  PROVE  \/ \E t \in Threads : \/ Works(t) /\ Daemon(t)
                               \/ CallGoesWrong(t) \/ StatementGoesWrong(t)
                               \/ \E r : Begun(t, r)
         \/ \E p \in Paths, off \in 0 .. MaxSize - 1, nasClock \in 0 .. MaxTime :
              RemoteWrites(p, off, nasClock)
         \/ Killed
         \/ Still
<1>1. ASSUME NEW t \in Threads, NEW r, Issue(t, r), NEW S, Spoil(S)
      PROVE  /\ Trusted' \subseteq Trusted /\ req'[t] = r
             /\ \A row \in S : row \notin Trusted'
  BY <1>1 DEF Issue, NoSQL, metaVars, Spoil, Trusted, Go, PathInv, PathReqs
<1>2. ASSUME NEW t \in Threads, Works(t), ~Daemon(t)
      PROVE  \E r : Begun(t, r)
  <2>1. PICK r : Issue(t, r) /\ FaultAsks(r) /\ WhileOpen(r)
    BY <1>2, OpenAsks DEF Works, Program
  <2>2. Pc(t, "idle") /\ call' = call
    BY <2>1 DEF Issue, NoSQL, metaVars
  <2>3. ~Arrives(t)
    BY <2>2 DEF Arrives, Pc
  <2>4. PICK S : Spoil(S)
    BY <1>2, <2>3 DEF Works
  <2>5. bad \subseteq bad'
    BY <1>2, <2>3 DEF Works
  <2>6. QED  BY <1>1, <2>1, <2>4, <2>5 DEF Begun
<1>3. ASSUME NEW t \in Threads, ChangesBehind(t)
      PROVE  \E r : Begun(t, r)
  <2>1. PICK p \in Paths : /\ ShrinkPath(t) \/ UtimeAny(t)
                           /\ req'[t].path = p
                           /\ Spoil(AllBlocks(pathToFileName(p)))
    BY <1>3 DEF ChangesBehind
  <2>2. PICK r : Issue(t, r) /\ FaultAsks(r)
    <3>1. CASE ShrinkPath(t)
      <4>1. PICK q \in Paths : nas.dir[q] # NoInode /\
                               \E len : StartTruncate(t, q, NoHandle, len)
        BY <3>1 DEF ShrinkPath
      <4>2. QED  BY <4>1, TruncateAsks
    <3>2. QED  BY <2>1, <3>1, UtimeAsks
  <2>3. /\ Trusted' \subseteq Trusted /\ r.path = p
        /\ \A row \in AllBlocks(pathToFileName(p)) : row \notin Trusted'
    BY <1>1, <2>1, <2>2
  <2>4. Gone(pathToFileName(p))'
    BY <2>3 DEF Gone, AllBlocks
  <2>5. bad \subseteq bad'
    BY <1>3 DEF ChangesBehind
  <2>6. QED  BY <2>2, <2>3, <2>4, <2>5 DEF Begun
<1>4. Tick /\ UNCHANGED <<spoilt, bad>> => Still
  BY DEF Tick, Still, NoSQL
<1>5. UNCHANGED faultVars => Still
  BY DEF faultVars, vars, cfsVars, Still
<1>6. QED
  BY <1>2, <1>3, <1>4, <1>5 DEF NextFaults, Fault

\* The handles, the paths and the locks of SpecFaults.
LEMMA FaultShares ==
  ASSUME SharedInv, NoCollision, [NextFaults]_faultVars
  PROVE  SharedInv'
<1> USE DEF SharedInv
<1>1. [CfsNext]_vars
  BY FaultSteps
<1>2. FileInv'
  BY <1>1, FSTypeInductive, CallbackInductive DEF FileInv
<1>3. ASSUME NEW t \in Threads, Daemon(t)
      PROVE  PathInv' /\ ShareInv'
  BY <1>3, DaemonKeepsPaths, DaemonShares
<1>4. ASSUME NEW t \in Threads, NEW r, Issue(t, r), FaultAsks(r), PathInv'
      PROVE  ShareInv'
  <2>1. /\ req'[t] = r /\ \A u \in Threads \ {t} : req'[u] = req[u]
        /\ UNCHANGED <<nas, cache, handles>>
    BY <1>4 DEF Issue, Go, NoFile, PathInv, PathReqs
  <2>2. UsersInv'
    BY <1>4, <2>1 DEF ShareInv, UsersInv, FaultAsks, AsksFor, fh
  <2>3. \A u \in Threads \ {t} : Apart(r, req[u]) /\ Apart(req[u], r)
    BY <1>4 DEF FaultAsks, Apart, InodeLocked, PagesFree, ActiveIn, Active
  <2>4. ApartInv'
    BY <2>1, <2>3 DEF ShareInv, ApartInv
  <2>5. QED  BY <2>1, <2>2, <2>4 DEF ShareInv, NamesInv
<1>5. CASE \E t \in Threads : ChangesBehind(t) \/ (Works(t) /\ ~Daemon(t))
  <2>1. PICK t \in Threads : ChangesBehind(t) \/ (Works(t) /\ ~Daemon(t))
    BY <1>5
  <2>2. PathInv'
    BY <2>1, StartsKeep DEF Works, Program, ChangesBehind
  <2>3. PICK r : Issue(t, r) /\ FaultAsks(r)
    <3>1. CASE ChangesBehind(t) /\ ShrinkPath(t)
      <4>1. PICK q \in Paths : nas.dir[q] # NoInode /\
                               \E len : StartTruncate(t, q, NoHandle, len)
        BY <3>1 DEF ShrinkPath
      <4>2. QED  BY <4>1, TruncateAsks
    <3>2. QED  BY <2>1, <3>1, OpenAsks, UtimeAsks DEF Works, Program, ChangesBehind
  <2>4. QED  BY <1>2, <1>4, <2>2, <2>3
<1>6. CASE \E t \in Threads : CallGoesWrong(t)
  BY <1>2, <1>6, FailPaths DEF CallGoesWrong
<1>7. CASE UNCHANGED <<nas, cache, handles, req>>
  BY <1>2, <1>7 DEF PathInv, DirInv, PathReqs, LockInv, HandleInv, ShareInv,
                    UsersInv, NamesInv, ApartInv, fh
<1>8. CASE \E p, off, nasClock : RemoteWrites(p, off, nasClock)
  <2>1. PICK p, off, v, nasClock : RemoteWrite(p, off, v, nasClock)
    BY <1>8 DEF RemoteWrites
  <2>2. /\ DOMAIN nas' = DOMAIN nas /\ nas'.dir = nas.dir
        /\ UNCHANGED <<cache, handles, req>>
    BY <2>1, KeepsNames DEF RemoteWrite, PathInv, DirInv
  <2>3. PathInv' /\ ShareInv'
    BY <2>2 DEF PathInv, DirInv, PathReqs, LockInv, HandleInv, ShareInv,
                UsersInv, NamesInv, ApartInv, fh
  <2>4. QED  BY <1>2, <2>3
<1>9. CASE Killed
  <2>1. /\ \A h \in Handles : handles'[h] = Closed
        /\ DOMAIN handles' = Handles /\ DOMAIN req' = Threads
        /\ \A t \in Threads : req'[t] = NoReq
        /\ UNCHANGED <<nas, cache>>
    BY <1>9 DEF Killed, Crash
  <2>2. PathInv'
    BY <2>1, IdleShape DEF PathInv, DirInv, PathReqs, LockInv, HandleInv
  <2>3. ShareInv'
    BY <2>1, IdleShape DEF ShareInv, UsersInv, UsesHandle, NamesInv, ApartInv, Apart
  <2>4. QED  BY <1>2, <2>2, <2>3
<1>10. ASSUME NEW t \in Threads, Works(t) \/ StatementGoesWrong(t)
       PROVE  SharedInv'
  BY <1>2, <1>3, <1>5, <1>7, <1>10 DEF StatementGoesWrong, SQLFails, cfsVars
<1>11. CASE Tick \/ UNCHANGED faultVars
  BY <1>7, <1>11 DEF Tick, faultVars, vars, cfsVars
<1>12. QED
  BY <1>5, <1>6, <1>8, <1>9, <1>10, <1>11 DEF NextFaults, Fault

---------------------------------------------------------------------------
(***************************************************************************)
(* The tables: meta.c is only called by the thread that holds the call,    *)
(* and adds rows only for the blocks in hand.                              *)
(***************************************************************************)
\* The call of meta.c that thread t is in belongs to its callback.
Calling(t) ==
  LET c == call[t]
  IN \/ c = NoCall
     \/ /\ req[t].pc = "cache_pwrite" /\ WriteFrame(c, name(t), WriteBlocks(t))
     \/ /\ c.op = "delete_file" /\ req[t].pc \in {"open_unlink", "unlink_cache"}
        /\ c.name = name(t)
        /\ c.step \in {"select", "load", "store", "again", "delete"}

\* What a step of t does to the tables.
Tables(t) ==
  /\ Calling(t)' /\ TablesFor(t)
  /\ \A u \in Threads \ {t} : call'[u] = call[u]
  /\ \A row \in blocks' : \/ row \in blocks
                          \/ Pc(t, "cache_pwrite") /\ row \in InHand(t)

\* write_blks goes on, whether the statement succeeds or not.
LEMMA BlockStatement ==
  ASSUME TypeOK, NEW t \in Threads, MetaStep(t) \/ StatementFails(t),
         NEW f, NEW B, NEW c, c = call[t], c # NoCall, WriteFrame(c, f, B)
  PROVE  /\ WriteFrame(call'[t], f, B) /\ files' = files
         /\ \A u \in Threads \ {t} : call'[u] = call[u]
         /\ blocks \subseteq blocks'
         /\ \A row \in blocks' \ blocks : \E b \in B : row = <<f, b>>
<1>1. /\ c \in Frame /\ DOMAIN call = Threads
      /\ c.op = "write_blks" /\ c.name = f
      /\ c.step \in {"check", "insert", "local", "load", "store"}
      /\ c.todo \subseteq B /\ c.miss \subseteq B
      /\ c.step # "check" => c.miss = {}
  BY DEF TypeOK, WriteFrame, Left
<1>2. ASSUME NEW d \in Frame, d.op = "write_blks", d.name = f, d.miss = {},
             d.todo \subseteq B
      PROVE  WriteFrame(NextBlock(d), f, B)
  BY <1>2, NextLeft
<1>3. CASE c.step = "check"
  <2>1. is_blk_in_cache(t) \/ CheckFails(t)
    BY <1>3 DEF MetaStep, is_blk_in_cache, InsertRow, DeleteBlockRow,
       UpdateLocalSize, SelectSize, LoadUsed, StoreUsed, SelectAgain,
       DeleteFileRow, StatementFails, CheckFails, RowFails, SizeFails,
       SelectFails, DeleteFails, At
  <2>2. files' = files /\ blocks' = blocks
    BY <2>1 DEF is_blk_in_cache, CheckFails
  <2>3. PICK rest, miss, d :
          /\ rest \subseteq c.todo /\ miss \subseteq c.todo \cup c.miss
          /\ call' = [call EXCEPT ![t] = d]
          /\ \/ d = [c EXCEPT !.todo = rest, !.miss = miss]
             \/ d = NextBlock([c EXCEPT !.todo = miss, !.miss = {}])
    <3>1. CASE is_blk_in_cache(t)
      <4>1. PICK b \in c.todo :
              LET rest == c.todo \ {b}
                  miss == IF <<c.name, b>> \in blocks THEN c.miss
                          ELSE c.miss \cup {b}
              IN call' = [call EXCEPT ![t] =
                    IF rest # {} THEN [c EXCEPT !.todo = rest, !.miss = miss]
                    ELSE NextBlock([c EXCEPT !.todo = miss, !.miss = {}])]
        BY <3>1 DEF is_blk_in_cache
      <4> DEFINE rest == c.todo \ {b}
                 miss == IF <<c.name, b>> \in blocks THEN c.miss
                         ELSE c.miss \cup {b}
                 d    == IF rest # {} THEN [c EXCEPT !.todo = rest, !.miss = miss]
                         ELSE NextBlock([c EXCEPT !.todo = miss, !.miss = {}])
      <4>2. call' = [call EXCEPT ![t] = d]
        BY <4>1
      <4>3. rest \subseteq c.todo /\ miss \subseteq c.todo \cup c.miss
        OBVIOUS
      <4>4. \/ d = [c EXCEPT !.todo = rest, !.miss = miss]
            \/ d = NextBlock([c EXCEPT !.todo = miss, !.miss = {}])
        OBVIOUS
      <4> HIDE DEF rest, miss, d
      <4>5. QED  BY <4>2, <4>3, <4>4
    <3>2. CASE CheckFails(t)
      <4>1. PICK b \in c.todo :
              LET e == [c EXCEPT !.todo = @ \ {b}]
              IN call' = [call EXCEPT ![t] =
                    IF e.todo # {} THEN e
                    ELSE NextBlock([e EXCEPT !.todo = e.miss, !.miss = {}])]
        BY <3>2 DEF CheckFails
      <4> DEFINE rest == c.todo \ {b}
                 d    == IF rest # {} THEN [c EXCEPT !.todo = rest, !.miss = c.miss]
                         ELSE NextBlock([c EXCEPT !.todo = c.miss, !.miss = {}])
                 e    == [c EXCEPT !.todo = @ \ {b}]
      <4>2. /\ e.todo = rest /\ e.miss = c.miss
            /\ e = [c EXCEPT !.todo = rest, !.miss = c.miss]
            /\ [e EXCEPT !.todo = e.miss, !.miss = {}]
                 = [c EXCEPT !.todo = c.miss, !.miss = {}]
        BY <1>1 DEF Frame
      <4>3. call' = [call EXCEPT ![t] = d]
        <5> DEFINE z == NextBlock([e EXCEPT !.todo = e.miss, !.miss = {}])
        <5>1. call' = [call EXCEPT ![t] = IF e.todo # {} THEN e ELSE z]
          BY <4>1
        <5>2. z = NextBlock([c EXCEPT !.todo = c.miss, !.miss = {}])
          BY <4>2
        <5> HIDE DEF e, z
        <5>3. (IF e.todo # {} THEN e ELSE z) = d
          BY <4>2, <5>2
        <5> HIDE DEF d
        <5>4. QED  BY <5>1, <5>3
      <4>4. \/ d = [c EXCEPT !.todo = rest, !.miss = c.miss]
            \/ d = NextBlock([c EXCEPT !.todo = c.miss, !.miss = {}])
        OBVIOUS
      <4>5. rest \subseteq c.todo /\ c.miss \subseteq c.todo \cup c.miss
        OBVIOUS
      <4> HIDE DEF rest, d
      <4>6. QED  BY <4>3, <4>4, <4>5
    <3>3. QED  BY <2>1, <3>1, <3>2
  <2> DEFINE g == [c EXCEPT !.todo = rest, !.miss = miss]
             e == [c EXCEPT !.todo = miss, !.miss = {}]
  <2>4. /\ g.op = c.op /\ g.name = c.name /\ g.step = c.step
        /\ g.todo = rest /\ g.miss = miss
    BY <1>1 DEF Frame
  <2>5. /\ e \in Frame /\ e.op = c.op /\ e.name = c.name
        /\ e.todo = miss /\ e.miss = {}
    <3>1. miss \in SUBSET Blocks
      BY <1>1, <2>3 DEF Frame
    <3>2. QED  BY <1>1, <3>1 DEF Frame
  <2>6. d = g \/ d = NextBlock(e)
    BY <2>3
  <2> HIDE DEF g, e
  <2>7. WriteFrame(g, f, B)
    BY <1>1, <1>3, <2>3, <2>4 DEF WriteFrame, Left
  <2>8. WriteFrame(NextBlock(e), f, B)
    BY <1>1, <1>2, <2>3, <2>5
  <2>9. call'[t] = d /\ \A u \in Threads \ {t} : call'[u] = call[u]
    BY <1>1, <2>3
  <2>10. QED  BY <2>2, <2>6, <2>7, <2>8, <2>9
<1>4. CASE c.step = "insert"
  <2>1. InsertRow(t) \/ RowFails(t)
    BY <1>4 DEF MetaStep, is_blk_in_cache, InsertRow, DeleteBlockRow,
       UpdateLocalSize, SelectSize, LoadUsed, StoreUsed, SelectAgain,
       DeleteFileRow, StatementFails, CheckFails, RowFails, SizeFails,
       SelectFails, DeleteFails, At
  <2>2. PICK b \in c.todo :
          LET d == [c EXCEPT !.todo = @ \ {b}]
          IN \/ /\ blocks' = blocks \cup {<<c.name, b>>}
                /\ call' = [call EXCEPT ![t] = [d EXCEPT !.step = "local",
                                                         !.amt = meta_block_size]]
             \/ /\ call' = [call EXCEPT ![t] = NextBlock(d)]
                /\ UNCHANGED blocks
    <3>1. CASE InsertRow(t)
      <4>1. PICK b \in c.todo :
              LET d == [c EXCEPT !.todo = @ \ {b}]
              IN \/ /\ blocks' = blocks \cup {<<d.name, b>>}
                    /\ call' = [call EXCEPT ![t] = [d EXCEPT !.step = "local",
                                                             !.amt = meta_block_size]]
                 \/ /\ call' = [call EXCEPT ![t] = NextBlock(d)]
                    /\ UNCHANGED blocks
        BY <3>1 DEF InsertRow
      <4>2. [c EXCEPT !.todo = @ \ {b}].name = c.name
        BY <1>1 DEF Frame
      <4>3. QED  BY <4>1, <4>2
    <3>2. CASE RowFails(t)
      BY <3>2 DEF RowFails
    <3>3. QED  BY <2>1, <3>1, <3>2
  <2>3. files' = files
    BY <2>1 DEF InsertRow, RowFails
  <2> DEFINE d == [c EXCEPT !.todo = @ \ {b}]
             e == [d EXCEPT !.step = "local", !.amt = meta_block_size]
  <2>4. /\ d \in Frame /\ d.op = c.op /\ d.name = c.name
        /\ d.todo = c.todo \ {b} /\ d.miss = c.miss
    BY <1>1 DEF Frame
  <2>5. /\ e.op = c.op /\ e.name = c.name /\ e.step = "local"
        /\ e.todo = c.todo \ {b} /\ e.miss = c.miss
    BY <1>1 DEF Frame
  <2>6. \/ blocks' = blocks \cup {<<f, b>>} /\ call' = [call EXCEPT ![t] = e]
        \/ blocks' = blocks /\ call' = [call EXCEPT ![t] = NextBlock(d)]
    BY <1>1, <2>2
  <2> HIDE DEF d, e
  <2>7. WriteFrame(e, f, B)
    BY <1>1, <1>4, <2>5 DEF WriteFrame, Left
  <2>8. WriteFrame(NextBlock(d), f, B)
    <3>1. d.miss = {} /\ d.todo \subseteq B
      BY <1>1, <1>4, <2>4
    <3>2. QED  BY <1>1, <1>2, <2>4, <3>1
  <2>9. \A u \in Threads \ {t} : call'[u] = call[u]
    BY <1>1, <2>6
  <2>10. WriteFrame(call'[t], f, B)
    BY <1>1, <2>6, <2>7, <2>8
  <2>11. b \in B
    BY <1>1
  <2>12. QED  BY <2>3, <2>6, <2>9, <2>10, <2>11
<1>5. CASE c.step \in {"local", "load", "store"}
  <2>1. UpdateLocalSize(t) \/ LoadUsed(t) \/ StoreUsed(t) \/ SizeFails(t)
    BY <1>5 DEF MetaStep, is_blk_in_cache, InsertRow, DeleteBlockRow,
       UpdateLocalSize, SelectSize, LoadUsed, StoreUsed, SelectAgain,
       DeleteFileRow, StatementFails, CheckFails, RowFails, SizeFails,
       SelectFails, DeleteFails, At
  <2>2. files' = files /\ blocks' = blocks
        /\ \A u \in Threads \ {t} : call'[u] = call[u]
    BY <1>1, <2>1 DEF UpdateLocalSize, LoadUsed, StoreUsed, SizeFails
  <2>3. \/ call'[t] = NextBlock(c)
        \/ /\ call'[t].op = c.op /\ call'[t].name = c.name
           /\ call'[t].todo = c.todo /\ call'[t].miss = c.miss
           /\ call'[t].step \in {"load", "store"}
    <3>1. CASE UpdateLocalSize(t) \/ LoadUsed(t)
      BY <1>1, <3>1 DEF UpdateLocalSize, LoadUsed, Frame
    <3>2. CASE StoreUsed(t) \/ SizeFails(t)
      BY <1>1, <3>2 DEF StoreUsed, SizeFails
    <3>3. QED  BY <2>1, <3>1, <3>2
  <2>4. c.miss = {}
    BY <1>1, <1>5
  <2>5. WriteFrame(NextBlock(c), f, B)
    BY <1>1, <1>2, <2>4
  <2>6. WriteFrame(call'[t], f, B)
    <3>1. CASE call'[t] = NextBlock(c)
      BY <2>5, <3>1
    <3>2. CASE call'[t] # NextBlock(c)
      BY <1>1, <2>3, <2>4, <3>2 DEF WriteFrame, Left
    <3>3. QED  BY <3>1, <3>2
  <2>7. QED  BY <2>2, <2>6
<1>6. QED  BY <1>1, <1>3, <1>4, <1>5

\* A statement of meta.c is of the call that its thread is in.
LEMMA FaultStatement ==
  ASSUME PathInv, TypeOK, NEW t \in Threads, Calling(t),
         MetaStep(t) \/ StatementFails(t), UNCHANGED cfsVars
  PROVE  Tables(t)
<1> DEFINE c == call[t]
<1>1. c \in Frame /\ DOMAIN call = Threads /\ AtStep(req[t])
  BY DEF TypeOK, PathInv, PathReqs, Shape
<1>2. req' = req /\ name(t)' = name(t) /\ WriteBlocks(t)' = WriteBlocks(t)
  BY DEF cfsVars, name, WriteBlocks, BlockInHand
<1>3. c # NoCall
  <2>1. c.step # "idle"
    BY DEF MetaStep, is_blk_in_cache, InsertRow, DeleteBlockRow, UpdateLocalSize,
       SelectSize, LoadUsed, StoreUsed, SelectAgain, DeleteFileRow,
       StatementFails, CheckFails, RowFails, SizeFails, SelectFails, DeleteFails, At
  <2>2. QED  BY <2>1 DEF NoCall, Fresh
<1>4. CASE req[t].pc = "cache_pwrite" /\ WriteFrame(c, name(t), WriteBlocks(t))
  <2>1. /\ WriteFrame(call'[t], name(t), WriteBlocks(t)) /\ files' = files
        /\ \A u \in Threads \ {t} : call'[u] = call[u]
        /\ blocks \subseteq blocks'
        /\ \A row \in blocks' \ blocks : \E b \in WriteBlocks(t) : row = <<name(t), b>>
    BY <1>3, <1>4, BlockStatement
  <2>2. Calling(t)'
    BY <1>2, <1>4, <2>1 DEF Calling
  <2>3. req[t].op \in {"read", "write"}
    BY <1>1, <1>4 DEF AtStep
  <2>4. TablesFor(t)
    BY <2>1, <2>3 DEF TablesFor
  <2>5. QED  BY <1>4, <2>1, <2>2, <2>4 DEF Tables, InHand, Pc
<1>5. CASE /\ c.op = "delete_file" /\ req[t].pc \in {"open_unlink", "unlink_cache"}
           /\ c.name = name(t)
           /\ c.step \in {"select", "load", "store", "again", "delete"}
  <2>1. req[t].op \in {"open", "unlink"}
    BY <1>1, <1>5 DEF AtStep
  <2>2. CASE DeleteFileRow(t)
    <3>1. /\ call'[t] = NoCall /\ files' = files \ {name(t)}
          /\ blocks' = Surviving(name(t))
          /\ \A u \in Threads \ {t} : call'[u] = call[u]
      BY <1>1, <1>5, <2>2 DEF DeleteFileRow
    <3>2. QED  BY <2>1, <3>1 DEF Tables, TablesFor, Surviving, Calling
  <2>3. CASE SelectAgain(t) \/ DeleteFails(t)
    <3>1. \/ call'[t] = NoCall
          \/ call'[t] = [c EXCEPT !.step = "delete"]
      BY <1>1, <2>3 DEF SelectAgain, DeleteFails
    <3>2. /\ files' = files /\ blocks' = blocks
          /\ \A u \in Threads \ {t} : call'[u] = call[u]
      BY <1>1, <2>3 DEF SelectAgain, DeleteFails
    <3>3. Calling(t)'
      BY <1>1, <1>2, <1>5, <3>1 DEF Calling, Frame
    <3>4. QED  BY <3>2, <3>3 DEF Tables, TablesFor
  <2>4. CASE SelectSize(t) \/ LoadUsed(t) \/ StoreUsed(t) \/ SelectFails(t)
    <3>1. /\ call'[t].op = c.op /\ call'[t].name = c.name
          /\ call'[t].step \in {"load", "store", "again", "delete"}
      BY <1>1, <1>5, <2>4 DEF SelectSize, LoadUsed, StoreUsed, SelectFails, Frame
    <3>2. /\ files' = files /\ blocks' = blocks
          /\ \A u \in Threads \ {t} : call'[u] = call[u]
      BY <1>1, <2>4 DEF SelectSize, LoadUsed, StoreUsed, SelectFails
    <3>3. Calling(t)'
      BY <1>2, <1>5, <3>1 DEF Calling
    <3>4. QED  BY <3>2, <3>3 DEF Tables, TablesFor
  <2>5. QED
    BY <1>5, <2>2, <2>3, <2>4
    DEF MetaStep, is_blk_in_cache, InsertRow, DeleteBlockRow, UpdateLocalSize,
       StatementFails, CheckFails, RowFails, SizeFails, At
<1>6. QED  BY <1>3, <1>4, <1>5 DEF Calling

\* A callback goes on, or fails, outside meta.c.
LEMMA OutsideCalls ==
  ASSUME NEW t \in Threads, Calling(t), Daemon(t) \/ CallFails(t),
         ~ (MetaStep(t) /\ UNCHANGED cfsVars)
  PROVE  call[t] = NoCall
<1> SUFFICES ASSUME call[t] # NoCall  PROVE FALSE
  OBVIOUS
<1>1. /\ req[t].pc \in {"cache_pwrite", "open_unlink", "unlink_cache"}
      /\ call[t].step # "idle"
  BY DEF Calling, WriteFrame
<1>2. CASE cfs_open(t)
  BY <1>1, <1>2 DEF cfs_open, open_nas, open_present, open_presentAs, open_stat,
     open_statAs, open_date, open_dateAs, open_unlink, open_create, open_mknod,
     open_cache, Pc, Idle, At
<1>3. CASE cfs_read(t)
  BY <1>1, <1>3 DEF cfs_read, read_check, read_checkAs, read_all, read_allAs,
     read_block, read_blockAs, read_done, Pc
<1>4. CASE cfs_write(t) \/ cfs_cacheWrite(t)
  BY <1>1, <1>4 DEF cfs_write, write_nas, write_nasAs, write_stat, write_statAs,
     write_read, write_readAs, cfs_cacheWrite, cache_wait, cache_record,
     cache_pwrite, cache_pwriteAs, Pc, Idle, At
<1>5. CASE cfs_mknod(t) \/ cfs_unlink(t) \/ cfs_truncate(t) \/ cfs_release(t)
  BY <1>1, <1>5 DEF cfs_mknod, cfs_unlink, unlink_meta, unlink_cache, unlink_nas,
     cfs_truncate, trunc_cache, trunc_nas, cfs_release, release_dig,
     release_close, Pc, Idle, At
<1>6. CASE cfs_rename(t) \/ cfs_link(t) \/ cfs_utime(t)
  BY <1>1, <1>6 DEF cfs_rename, rename_cache, rename_nas, cfs_link, link_cache,
     link_nas, cfs_utime, utime_cache, utime_nas, Pc
<1>7. CASE call_fails(t) \/ lookup_fails(t)
  BY <1>1, <1>7 DEF call_fails, lookup_fails, open_presentAs, read_checkAs,
     open_statAs, open_dateAs, write_statAs, Pc, Idle, At
<1>8. CASE pread_fails(t) \/ pwrite_fails(t)
  BY <1>1, <1>8 DEF pread_fails, pwrite_fails, read_allAs, read_blockAs,
     write_readAs, write_nasAs, cache_pwriteAs, Pc, Idle, At
<1>9. QED
  BY <1>2, <1>3, <1>4, <1>5, <1>6, <1>7, <1>8 DEF Daemon, CallFails

\* Outside meta.c a step enters one of its functions, or has nothing to do with it.
LEMMA OutsideSQL ==
  ASSUME NEW t \in Threads, Daemon(t) \/ CallFails(t),
         ~ (MetaStep(t) /\ UNCHANGED cfsVars)
  PROVE  \/ NoSQL
         \/ Pc(t, "open_create") /\ create_file(t, name(t))
         \/ /\ ~Pc(t, "idle") /\ delete_file(t, name(t))
            /\ \E pc \in {"open_unlink", "unlink_cache"} :
                 Go(t, [req[t] EXCEPT !.pc = pc])
         \/ cache_record(t)
<1>1. CASE cfs_open(t)
  <2>1. CASE open_present(t) \/ open_date(t)
    BY <2>1 DEF open_present, open_presentAs, open_date, open_dateAs, Pc
  <2>2. CASE ~(open_present(t) \/ open_date(t))
    BY <1>1, <2>2 DEF cfs_open, open_nas, open_stat, open_statAs, open_unlink,
       open_create, open_mknod, open_cache
  <2>3. QED  BY <2>1, <2>2
<1>2. CASE cfs_read(t)
  BY <1>2 DEF cfs_read, read_check, read_checkAs, read_all, read_allAs,
     read_block, read_blockAs, read_done
<1>3. CASE cfs_write(t) \/ cfs_cacheWrite(t)
  BY <1>3 DEF cfs_write, write_nas, write_nasAs, write_stat, write_statAs,
     write_read, write_readAs, cfs_cacheWrite, cache_wait, vars, NoSQL,
     cache_pwrite, cache_pwriteAs
<1>4. CASE cfs_mknod(t) \/ cfs_unlink(t) \/ cfs_truncate(t) \/ cfs_release(t)
  BY <1>4 DEF cfs_mknod, cfs_unlink, unlink_meta, unlink_cache, unlink_nas,
     cfs_truncate, trunc_cache, trunc_nas, cfs_release, release_dig,
     release_close, Pc
<1>5. CASE cfs_rename(t) \/ cfs_link(t) \/ cfs_utime(t)
  BY <1>5 DEF cfs_rename, rename_cache, rename_nas, cfs_link, link_cache,
     link_nas, cfs_utime, utime_cache, utime_nas
<1>6. CASE lookup_fails(t)
  <2>1. CASE open_presentAs(t, TRUE) \/ open_dateAs(t, 0 .. MaxTime)
    BY <2>1 DEF open_presentAs, open_dateAs, Pc
  <2>2. CASE ~(open_presentAs(t, TRUE) \/ open_dateAs(t, 0 .. MaxTime))
    BY <1>6, <2>2 DEF lookup_fails, read_checkAs, open_statAs, write_statAs
  <2>3. QED  BY <2>1, <2>2
<1>7. CASE call_fails(t) \/ pread_fails(t) \/ pwrite_fails(t)
  BY <1>7 DEF call_fails, pread_fails, pwrite_fails, read_allAs, read_blockAs,
     write_readAs, write_nasAs, cache_pwriteAs
<1>8. QED
  BY <1>1, <1>2, <1>3, <1>4, <1>5, <1>6, <1>7 DEF Daemon, CallFails

\* Every step of a callback keeps to its own file and its own blocks in the
\* tables, whether it succeeds or not.
LEMMA FaultTables ==
  ASSUME SharedInv, TypeOK, NEW t \in Threads, Calling(t),
         Daemon(t) \/ CallFails(t) \/ SQLFails(t)
  PROVE  Tables(t)
<1>1. CASE (MetaStep(t) \/ StatementFails(t)) /\ UNCHANGED cfsVars
  BY <1>1, FaultStatement DEF SharedInv
<1>2. CASE ~((MetaStep(t) \/ StatementFails(t)) /\ UNCHANGED cfsVars)
  <2>1. /\ DOMAIN call = Threads /\ DOMAIN req = Threads
        /\ DOMAIN req[t] = Fields /\ AtStep(req[t])
    BY DEF TypeOK, SharedInv, PathInv, PathReqs, Shape
  <2>2. Daemon(t) \/ CallFails(t)
    BY <1>2 DEF SQLFails
  <2>3. call[t] = NoCall
    BY <1>2, <2>2, OutsideCalls
  <2>4. CASE NoSQL
    BY <2>3, <2>4 DEF NoSQL, metaVars, Tables, Calling, TablesFor
  <2>5. CASE Pc(t, "open_create") /\ create_file(t, name(t))
    <3>1. req[t].op = "open"
      BY <2>1, <2>5 DEF Pc, AtStep
    <3>2. QED
      BY <2>3, <2>5, <3>1 DEF create_file, Tables, Calling, TablesFor
  <2>6. CASE /\ ~Pc(t, "idle") /\ delete_file(t, name(t))
             /\ \E pc \in {"open_unlink", "unlink_cache"} :
                  Go(t, [req[t] EXCEPT !.pc = pc])
    <3>1. /\ name(t)' = name(t)
          /\ req'[t].pc \in {"open_unlink", "unlink_cache"}
      BY <2>1, <2>6 DEF Go, Fields, NoReq, name
    <3> DEFINE c == Fresh("delete_file", "select", name(t), {})
    <3>2. /\ call'[t] = c /\ \A u \in Threads \ {t} : call'[u] = call[u]
          /\ files' = files /\ blocks' = blocks
      BY <2>6, Entered DEF delete_file
    <3>3. c.op = "delete_file" /\ c.step = "select" /\ c.name = name(t)
      BY DEF Fresh
    <3> HIDE DEF c
    <3>4. Calling(t)'
      BY <3>1, <3>2, <3>3 DEF Calling
    <3>5. QED  BY <3>2, <3>4 DEF Tables, TablesFor
  <2>7. CASE cache_record(t)
    <3> DEFINE c == Fresh("write_blks", "check", name(t), WriteBlocks(t))
    <3>1. /\ call'[t] = c /\ \A u \in Threads \ {t} : call'[u] = call[u]
          /\ files' = files /\ blocks' = blocks
      BY <2>7, Entered DEF cache_record, write_blks
    <3>2. /\ c.op = "write_blks" /\ c.step = "check" /\ c.name = name(t)
          /\ c.todo = WriteBlocks(t) /\ c.miss = {}
      BY DEF Fresh
    <3> HIDE DEF c
    <3>3. /\ req'[t].pc = "cache_pwrite" /\ req'[t].op = req[t].op
          /\ req'[t].todo = req[t].todo /\ name(t)' = name(t)
      BY <2>1, <2>7 DEF cache_record, Go, Fields, NoReq, name
    <3>4. WriteBlocks(t)' = WriteBlocks(t)
      BY <3>3 DEF WriteBlocks, BlockInHand
    <3>5. WriteFrame(c, name(t), WriteBlocks(t))
      BY <3>2 DEF WriteFrame, Left
    <3>6. Calling(t)'
      BY <3>1, <3>3, <3>4, <3>5 DEF Calling
    <3>7. QED  BY <3>1, <3>6 DEF Tables, TablesFor
  <2>8. QED
    <3>1. ~ (MetaStep(t) /\ UNCHANGED cfsVars)
      BY <1>2
    <3>2. QED  BY <2>2, <2>4, <2>5, <2>6, <2>7, <3>1, OutsideSQL
<1>3. QED  BY <1>1, <1>2

---------------------------------------------------------------------------
(***************************************************************************)
(* What a step of a callback does to spoilt and bad.                       *)
(***************************************************************************)
StepOf(t) ==
  \/ Works(t) /\ Daemon(t)
  \/ CallGoesWrong(t)
  \/ StatementGoesWrong(t)

\* The bytes in hand arrive, and are those of the NAS.
Delivers(t) == cache_pwrite(t) /\ t \notin bad

Ghosts(t) ==
  /\ \A row \in Trusted' : \/ row \in Trusted
                           \/ Pc(t, "cache_pwrite") /\ row \in InHand(t)
  /\ Arrives(t) => Delivers(t) \/ \A row \in InHand(t) : row \notin Trusted'
  /\ \A u \in Threads : u \notin bad' => u \notin bad \/ (u = t /\ Arrives(t))
  /\ nas' # nas => /\ \A row \in Widens(t) : row \notin Trusted'
                   /\ \A u \in Threads : u \notin bad' => u \notin Overtakes(t)
  /\ call[t].op = "delete_file" /\ call'[t] = NoCall => Gone(name(t))'

\* What can be relied on after an event is recorded and not spoilt by it.
LEMMA SpoilRows ==
  ASSUME NEW S, Spoil(S), NEW row \in Trusted'
  PROVE  row \in blocks' /\ row \notin spoilt /\ row \notin S
BY DEF Spoil, Trusted

\* A step that changes the NAS delivers nothing to the cache.
LEMMA StepChangesNas ==
  ASSUME SharedInv, NEW t \in Threads, Daemon(t) \/ CallFails(t) \/ SQLFails(t),
         nas' # nas
  PROVE  ~Pc(t, "cache_pwrite") /\ ~SQLFails(t)
<1>1. ~SQLFails(t)
  BY DEF SQLFails, cfsVars
<1>2. AtStep(req[t])
  BY DEF SharedInv, PathInv, PathReqs, Shape
<1>3. CASE Daemon(t)
  <2>1. \/ req[t].op \in {"mknod", "unlink"}
        \/ write_nas(t) \/ trunc_nas(t) \/ utime_nas(t)
    BY <1>3, NasView DEF SharedInv, ShareInv
  <2>2. QED
    BY <1>1, <1>2, <2>1 DEF AtStep, write_nas, write_nasAs, trunc_nas, utime_nas, Pc
<1>4. CASE CallFails(t)
  <2>1. PartOnNas(t)
    BY <1>4, FailView
  <2>2. QED  BY <1>1, <2>1 DEF PartOnNas, write_nasAs, Pc
<1>5. QED  BY <1>1, <1>3, <1>4

\* Works, CallGoesWrong and StatementGoesWrong account for their damage.
LEMMA GhostStep ==
  ASSUME SharedInv, TypeOK, ForeignKey', NEW t \in Threads, Calling(t), StepOf(t)
  PROVE  Ghosts(t)
<1>1. Daemon(t) \/ CallFails(t) \/ SQLFails(t)
  BY DEF StepOf, CallGoesWrong, StatementGoesWrong
<1>2. Tables(t)
  BY <1>1, FaultTables
<1>3. PICK S : \/ Spoil(S)
               \/ /\ Works(t) /\ Arrives(t) /\ t \notin bad
                  /\ spoilt' = spoilt \ InHand(t)
  BY DEF StepOf, Works, CallGoesWrong, StatementGoesWrong
<1>4. \A row \in Trusted' : \/ row \in Trusted
                            \/ Pc(t, "cache_pwrite") /\ row \in InHand(t)
  <2>1. CASE Spoil(S)
    BY <1>2, <2>1, SpoilRows DEF Tables, Trusted
  <2>2. CASE Arrives(t) /\ spoilt' = spoilt \ InHand(t)
    BY <1>2, <2>2 DEF Tables, Trusted, Arrives
  <2>3. QED  BY <1>3, <2>1, <2>2
<1>5. nas' # nas => ~Arrives(t) /\ ~StatementGoesWrong(t)
  BY <1>1, StepChangesNas DEF Arrives, StatementGoesWrong
<1>6. Arrives(t) => Delivers(t) \/ \A row \in InHand(t) : row \notin Trusted'
  <2> SUFFICES ASSUME Arrives(t), ~Delivers(t), NEW row \in InHand(t)
               PROVE  row \notin Trusted'
    OBVIOUS
  <2>1. CASE Works(t) /\ Daemon(t)
    <3>1. req' # req /\ Pc(t, "cache_pwrite") /\ ~Pc(t, "cache_pwrite")'
      BY DEF Arrives, Pc
    <3>2. t \in bad
      <4>1. cache_pwrite(t)
        <5>1. ~(MetaStep(t) /\ UNCHANGED cfsVars)
          BY <3>1 DEF cfsVars
        <5>2. ~cfs_open(t) /\ ~cfs_read(t) /\ ~cfs_write(t)
          BY <3>1 DEF cfs_open, open_nas, open_present, open_presentAs, open_stat,
             open_statAs, open_date, open_dateAs, open_unlink, open_create,
             open_mknod, open_cache, cfs_read, read_check, read_checkAs, read_all,
             read_allAs, read_block, read_blockAs, read_done, cfs_write, write_nas,
             write_nasAs, write_stat, write_statAs, write_read, write_readAs, Pc
        <5>3. ~cfs_mknod(t) /\ ~cfs_unlink(t) /\ ~cfs_truncate(t) /\ ~cfs_release(t)
          BY <3>1 DEF cfs_mknod, cfs_unlink, unlink_meta, unlink_cache, unlink_nas,
             cfs_truncate, trunc_cache, trunc_nas, cfs_release, release_dig,
             release_close, Pc
        <5>4. ~cfs_rename(t) /\ ~cfs_link(t) /\ ~cfs_utime(t)
          BY <3>1 DEF cfs_rename, rename_cache, rename_nas, cfs_link, link_cache,
             link_nas, cfs_utime, utime_cache, utime_nas, Pc
        <5>5. ~cache_wait(t) /\ ~cache_record(t)
          BY <3>1 DEF cache_wait, cache_record, Pc
        <5>6. QED
          BY <2>1, <5>1, <5>2, <5>3, <5>4, <5>5 DEF Daemon, cfs_cacheWrite
      <4>2. QED  BY <4>1 DEF Delivers
    <3>3. PICK Z : Spoil(Z \cup InHand(t))
      BY <2>1, <3>2 DEF Works
    <3>4. QED  BY <3>3, SpoilRows
  <2>2. CASE CallGoesWrong(t)
    <3>1. PICK Y, Z : Spoil(Y \cup InHand(t) \cup Z)
      BY <2>2 DEF CallGoesWrong
    <3>2. QED  BY <3>1, SpoilRows
  <2>3. CASE StatementGoesWrong(t)
    BY <2>3 DEF StatementGoesWrong, SQLFails, cfsVars, Arrives, Pc
  <2>4. QED  BY <2>1, <2>2, <2>3 DEF StepOf
<1>7. \A u \in Threads : u \notin bad' => u \notin bad \/ (u = t /\ Arrives(t))
  BY DEF StepOf, Works, CallGoesWrong, StatementGoesWrong
<1>8. ASSUME nas' # nas
      PROVE  /\ \A row \in Widens(t) : row \notin Trusted'
             /\ \A u \in Threads : u \notin bad' => u \notin Overtakes(t)
  <2>1. CASE Works(t) /\ Daemon(t)
    <3>1. /\ \E Y, Z : Spoil(Widens(t) \cup Y \cup Z)
          /\ bad' = bad \cup Overtakes(t)
      BY <1>5, <1>8, <2>1 DEF Works
    <3>2. QED  BY <3>1, SpoilRows
  <2>2. CASE CallGoesWrong(t)
    <3>1. ~CarriesOn(t)
      <4>1. CallFails(t)
        BY <2>2 DEF CallGoesWrong
      <4>2. Pc(t, "write_nas")
        BY <1>8, <4>1, FailView DEF PartOnNas, write_nasAs
      <4>3. QED  BY <4>2 DEF CarriesOn, Pc
    <3>2. /\ \E Y, Z : Spoil(Y \cup Z \cup Widens(t))
          /\ bad' = bad \cup Overtakes(t)
      BY <1>5, <1>8, <2>2, <3>1 DEF CallGoesWrong
    <3>3. QED  BY <3>2, SpoilRows
  <2>3. QED  BY <1>5, <1>8, <2>1, <2>2 DEF StepOf
<1>9. ASSUME call[t].op = "delete_file", call'[t] = NoCall
      PROVE  Gone(name(t))'
  <2>1. /\ req[t].pc \in {"open_unlink", "unlink_cache"} /\ call[t].name = name(t)
        /\ call[t] # NoCall /\ NoCall.op = "none" /\ call[t].step # "idle"
    BY <1>9 DEF Calling, WriteFrame, NoCall, Fresh
  <2>2. (MetaStep(t) \/ StatementFails(t)) /\ UNCHANGED cfsVars
    BY <1>1, <2>1, OutsideCalls DEF SQLFails
  <2>3. name(t)' = name(t)
    BY <2>2 DEF cfsVars, name
  <2>4. CASE name(t) \notin files'
    <3>1. \A b : <<name(t), b>>[1] = name(t)
      OBVIOUS
    <3>2. \A b : <<name(t), b>> \notin blocks'
      BY <2>4, <3>1 DEF ForeignKey
    <3>3. QED  BY <2>3, <3>2 DEF Gone, Trusted
  <2>5. CASE name(t) \in files'
    <3>1. RowsKept(t) = AllBlocks(name(t))
      BY <1>9, <2>1, <2>5 DEF RowsKept
    <3>2. ~Arrives(t)
      BY <2>1 DEF Arrives, Pc
    <3>3. \/ \E Y, Z : Spoil(Y \cup RowsKept(t) \cup Z)
          \/ Spoil(RowsKept(t))
      <4>1. ~CallGoesWrong(t)
        <5>1. ~CallFails(t)
          BY <2>1 DEF CallFails, call_fails, lookup_fails,
             open_presentAs, read_checkAs, open_statAs, open_dateAs, write_statAs,
             pread_fails, pwrite_fails, read_allAs, read_blockAs, write_readAs,
             write_nasAs, cache_pwriteAs, Pc, Idle, At
        <5>2. QED  BY <5>1 DEF CallGoesWrong
      <4>2. QED  BY <3>2, <4>1 DEF StepOf, Works, StatementGoesWrong
    <3>4. \A b \in Blocks : <<name(t), b>> \in RowsKept(t)
      BY <3>1 DEF AllBlocks
    <3>5. \A b \in Blocks : <<name(t), b>> \notin Trusted'
      BY <3>3, <3>4, SpoilRows
    <3>6. QED  BY <2>3, <3>5 DEF Gone
  <2>6. QED  BY <2>4, <2>5
<1>10. QED  BY <1>4, <1>6, <1>7, <1>8, <1>9 DEF Ghosts

\* What a call that fails spoils: the end of the file for cfs_truncate, all of a
\* file behind the NAS for cfs_open, the block in hand for a read that comes to
\* nothing (cachefs.c:606).
LEMMA FailGhosts ==
  ASSUME NEW t \in Threads, CallGoesWrong(t)
  PROVE  /\ CallFails(t)
         /\ Pc(t, "trunc_nas") =>
              \A row \in BlocksBetween(name(t), req[t].len, MaxSize) : row \notin Trusted'
         /\ Pc(t, "open_stat") \/ Pc(t, "open_date") =>
              \/ UpToDate(req[t].path)
              \/ \A b \in Blocks : <<name(t), b>> \notin Trusted'
         /\ CarriesOn(t) => t \in bad'
<1>1. \E Y, Z : Spoil(Spoils(t) \cup Y \cup Z)
  BY DEF CallGoesWrong
<1>2. \A row \in Spoils(t) : row \notin Trusted'
  BY <1>1, SpoilRows
<1>3. Pc(t, "trunc_nas") => Spoils(t) = BlocksBetween(name(t), req[t].len, MaxSize)
  BY DEF Spoils
<1>4. ASSUME Pc(t, "open_stat") \/ Pc(t, "open_date"), ~UpToDate(req[t].path)
      PROVE  \A b \in Blocks : <<name(t), b>> \notin Trusted'
  <2>1. Spoils(t) = AllBlocks(name(t))
    BY <1>4 DEF Spoils, Stale, Pc
  <2>2. \A b \in Blocks : <<name(t), b>> \in AllBlocks(name(t))
    BY DEF AllBlocks
  <2>3. QED  BY <1>2, <2>1, <2>2
<1>5. QED  BY <1>2, <1>3, <1>4 DEF CallGoesWrong

---------------------------------------------------------------------------
(***************************************************************************)
(* The steps a callback can take, by operation: those of the code and      *)
(* those of its calls that fail.                                           *)
(***************************************************************************)
Arriving(t) == \E n \in Nat : n <= Len(WriteBytes(t)) /\ cache_pwriteAs(t, n)

OpenSteps(t) ==
  \/ cfs_open(t) \/ open_presentAs(t, TRUE) \/ open_statAs(t, 0 .. MaxTime)
  \/ open_dateAs(t, 0 .. MaxTime) \/ call_fails(t)
ReadSteps(t) ==
  \/ cfs_read(t) \/ read_checkAs(t, TRUE) \/ read_allAs(t, <<>>, -1)
  \/ read_blockAs(t, <<>>, -1) \/ cache_record(t) \/ Arriving(t)
WriteSteps(t) ==
  \/ \E n \in Nat : n <= req[t].len /\ write_nasAs(t, n)
  \/ write_stat(t) \/ write_statAs(t, 0 .. MaxSize)
  \/ write_read(t) \/ write_readAs(t, <<>>) \/ cache_record(t) \/ Arriving(t)

StepsOf(t) ==
  LET op == req[t].op
  IN \/ op = "mknod"    /\ (cfs_mknod(t) \/ call_fails(t))
     \/ op = "open"     /\ OpenSteps(t)
     \/ op = "read"     /\ ReadSteps(t)
     \/ op = "write"    /\ WriteSteps(t)
     \/ op = "truncate" /\ (cfs_truncate(t) \/ call_fails(t))
     \/ op = "unlink"   /\ (cfs_unlink(t) \/ call_fails(t))
     \/ op = "utime"    /\ (cfs_utime(t) \/ call_fails(t))
     \/ op = "release"  /\ cfs_release(t)

\* The steps by the request that the thread serves, when the calls succeed, ...
LEMMA DaemonOp ==
  ASSUME SharedInv, NEW t \in Threads, Daemon(t), ~ UNCHANGED cfsVars
  PROVE  StepsOf(t)
<1>1. AtStep(req[t])
  BY DEF SharedInv, PathInv, PathReqs, Shape
<1>2. CASE cfs_open(t)
  <2>1. req[t].pc \in {"open_nas", "open_present", "open_stat", "open_date",
                       "open_unlink", "open_create", "open_mknod", "open_cache"}
    BY <1>2 DEF cfs_open, open_nas, open_present, open_presentAs, open_stat,
     open_statAs, open_date, open_dateAs, open_unlink, open_create, open_mknod,
     open_cache, Pc
  <2>2. req[t].op = "open"
    BY <1>1, <2>1 DEF AtStep
  <2>3. QED  BY <1>2, <2>2 DEF StepsOf, OpenSteps
<1>3. CASE cfs_read(t)
  <2>1. req[t].pc \in {"read_check", "read_all", "read_block", "read_done"}
    BY <1>3 DEF cfs_read, read_check, read_checkAs, read_all, read_allAs,
     read_block, read_blockAs, read_done, Pc
  <2>2. req[t].op = "read"
    BY <1>1, <2>1 DEF AtStep
  <2>3. QED  BY <1>3, <2>2 DEF StepsOf, ReadSteps
<1>4. CASE cfs_write(t)
  <2>1. req[t].pc \in {"write_nas", "write_stat", "write_read"}
    BY <1>4 DEF cfs_write, write_nas, write_nasAs, write_stat, write_statAs,
     write_read, write_readAs, Pc
  <2>2. req[t].op = "write"
    BY <1>1, <2>1 DEF AtStep
  <2>3. req[t].len \in Nat
    BY DEF SharedInv, FileInv, RequestsInv, Typed, LocalTypes
  <2>4. WriteSteps(t)
    BY <1>4, <2>3 DEF cfs_write, write_nas, WriteSteps
  <2>5. QED  BY <2>2, <2>4 DEF StepsOf
<1>5. CASE cache_record(t) \/ cache_pwrite(t)
  <2>1. req[t].pc \in {"cache_record", "cache_pwrite"}
    BY <1>5 DEF cache_record, cache_pwrite, cache_pwriteAs, Pc
  <2>2. req[t].op \in {"read", "write"}
    BY <1>1, <2>1 DEF AtStep
  <2>3. cache_pwrite(t) => Arriving(t)
    <3> SUFFICES ASSUME cache_pwrite(t)  PROVE Arriving(t)
      OBVIOUS
    <3>1. req[t].pc \in Covering
      BY DEF cache_pwrite, cache_pwriteAs, Pc, Covering
    <3>2. WriteBytes(t) \in Seq(ByteSet)
      BY <3>1, WriteBytesType DEF SharedInv, FileInv, cache_pwrite, cache_pwriteAs, Pc
    <3>3. QED  BY <3>2 DEF Arriving, cache_pwrite
  <2>4. QED  BY <1>5, <2>2, <2>3 DEF StepsOf, ReadSteps, WriteSteps
<1>6. CASE cfs_mknod(t)
  BY <1>1, <1>6 DEF cfs_mknod, Pc, AtStep, StepsOf
<1>7. CASE cfs_unlink(t)
  BY <1>1, <1>7 DEF cfs_unlink, unlink_meta, unlink_cache, unlink_nas, Pc, AtStep,
     StepsOf
<1>8. CASE cfs_truncate(t)
  BY <1>1, <1>8 DEF cfs_truncate, trunc_cache, trunc_nas, Pc, AtStep, StepsOf
<1>9. CASE cfs_utime(t)
  BY <1>1, <1>9 DEF cfs_utime, utime_cache, utime_nas, Pc, AtStep, StepsOf
<1>10. CASE cfs_release(t)
  BY <1>1, <1>10 DEF cfs_release, release_dig, release_close, Pc, AtStep, StepsOf
<1>11. ~cfs_rename(t) /\ ~cfs_link(t)
  BY <1>1 DEF cfs_rename, rename_cache, rename_nas, cfs_link, link_cache,
              link_nas, AtStep, Pc
<1>12. ~cache_wait(t)
  BY DEF cache_wait, vars, cfsVars
<1>13. QED
  BY <1>2, <1>3, <1>4, <1>5, <1>6, <1>7, <1>8, <1>9, <1>10, <1>11, <1>12
  DEF Daemon, cfs_cacheWrite

\* ... when one fails, ...
LEMMA FailOp ==
  ASSUME SharedInv, NEW t \in Threads, CallFails(t), ~ UNCHANGED cfsVars
  PROVE  StepsOf(t)
<1>1. AtStep(req[t])
  BY DEF SharedInv, PathInv, PathReqs, Shape
<1>2. CASE call_fails(t)
  <2>1. req[t].pc \in {"open_create", "open_mknod", "unlink_cache", "trunc_cache",
          "utime_cache", "rename_cache", "link_cache", "mknod", "open_cache",
          "unlink_nas", "trunc_nas", "rename_nas", "link_nas", "utime_nas",
          "open_unlink"}
    BY <1>2 DEF call_fails, Follows, Ends, Pc
  <2>2. req[t].op \in {"mknod", "open", "truncate", "unlink", "utime"}
    BY <1>1, <2>1 DEF AtStep
  <2>3. QED  BY <1>2, <2>2 DEF StepsOf, OpenSteps
<1>3. CASE lookup_fails(t)
  <2>1. CASE open_presentAs(t, TRUE) \/ open_statAs(t, 0 .. MaxTime)
             \/ open_dateAs(t, 0 .. MaxTime)
    <3>1. req[t].op = "open"
      BY <1>1, <2>1 DEF open_presentAs, open_statAs, open_dateAs, Pc, AtStep
    <3>2. QED  BY <2>1, <3>1 DEF StepsOf, OpenSteps
  <2>2. CASE read_checkAs(t, TRUE)
    <3>1. req[t].op = "read"
      BY <1>1, <2>2 DEF read_checkAs, Pc, AtStep
    <3>2. QED  BY <2>2, <3>1 DEF StepsOf, ReadSteps
  <2>3. CASE write_statAs(t, 0 .. MaxSize)
    <3>1. req[t].op = "write"
      BY <1>1, <2>3 DEF write_statAs, Pc, AtStep
    <3>2. QED  BY <2>3, <3>1 DEF StepsOf, WriteSteps
  <2>4. QED  BY <1>3, <2>1, <2>2, <2>3 DEF lookup_fails
<1>4. CASE pread_fails(t)
  <2>1. CASE read_allAs(t, <<>>, -1) \/ read_blockAs(t, <<>>, -1)
    <3>1. req[t].op = "read"
      BY <1>1, <2>1 DEF read_allAs, read_blockAs, Pc, AtStep
    <3>2. QED  BY <2>1, <3>1 DEF StepsOf, ReadSteps
  <2>2. CASE write_readAs(t, <<>>)
    <3>1. req[t].op = "write"
      BY <1>1, <2>2 DEF write_readAs, Pc, AtStep
    <3>2. QED  BY <2>2, <3>1 DEF StepsOf, WriteSteps
  <2>3. QED  BY <1>4, <2>1, <2>2 DEF pread_fails
<1>5. ASSUME NEW n \in 0 .. req[t].len - 1, write_nasAs(t, n)
      PROVE  StepsOf(t)
  <2>1. req[t].op = "write"
    BY <1>1, <1>5 DEF write_nasAs, Pc, AtStep
  <2>2. req[t].len \in Nat
    BY DEF SharedInv, FileInv, RequestsInv, Typed, LocalTypes
  <2>3. QED  BY <1>5, <2>1, <2>2 DEF StepsOf, WriteSteps
<1>6. ASSUME NEW n \in 0 .. Len(WriteBytes(t)) - 1, cache_pwriteAs(t, n)
      PROVE  StepsOf(t)
  <2>1. req[t].op \in {"read", "write"} /\ req[t].pc = "cache_pwrite"
    BY <1>1, <1>6 DEF cache_pwriteAs, Pc, AtStep
  <2>2. WriteBytes(t) \in Seq(ByteSet)
    BY <2>1, WriteBytesType DEF SharedInv, FileInv, Covering
  <2>3. Arriving(t)
    BY <1>6, <2>2 DEF Arriving
  <2>4. QED  BY <2>1, <2>3 DEF StepsOf, ReadSteps, WriteSteps
<1>7. QED
  BY <1>2, <1>3, <1>4, <1>5, <1>6 DEF CallFails, pwrite_fails

\* ... and both.
LEMMA OpSteps ==
  ASSUME SharedInv, NEW t \in Threads, StepOf(t), ~ UNCHANGED cfsVars
  PROVE  StepsOf(t)
BY DaemonOp, FailOp DEF StepOf, CallGoesWrong, StatementGoesWrong, SQLFails

---------------------------------------------------------------------------
(***************************************************************************)
(* The inductive invariant.  A request that is between the change of the   *)
(* one copy and of the other claims the bytes it is to bring in line: no   *)
(* other byte of a trusted block differs.                                  *)
(***************************************************************************)
\* Request r has written block b of file p on the NAS or, in cfs_read,
\* recorded it, and not yet brought its bytes to the cache.
Halved(r, p, b) ==
  /\ r.path = p
  /\ \/ r.op = "write" /\ r.pc # "write_nas" /\ b \in RequestBlocks(r)
     \/ r.op = "read" /\ r.pc = "cache_pwrite" /\ b = First(r.todo)

\* The cache file is cut before byte k, the NAS file not yet.
Severed(r, p, k) == r.pc = "trunc_nas" /\ r.path = p /\ k > r.len

Claimed(p, k) ==
  /\ <<pathToFileName(p), BlockOf(k)>> \in Trusted
  /\ \A t \in Threads : ~Halved(req[t], p, BlockOf(k)) /\ ~Severed(req[t], p, k)

\* Every byte of p that is claimed to be cached is.
Same(p) ==
  LET d == DataOf(nas, p)
      c == DataOf(cache, pathToFileName(p))
  IN \A k \in 1 .. Len(d) : Claimed(p, k) => k <= Len(c) /\ c[k] = d[k]

FaultFile(p) ==
  nas.dir[p] # NoInode /\ cache.dir[pathToFileName(p)] # NoInode =>
    Same(p) \/ Outdated(p)

\* The buffer of request r has the bytes of d, the file it is about, in the
\* blocks that are to go to the cache.
FromNas(r, d) ==
  LET lower   == Align!alignLowerOffset(r.off)
      aligned == Align!alignedSize(r.len)
  IN /\ r.op = "read" /\ r.pc \in {"cache_record", "cache_pwrite"} =>
          \A j \in 1 .. BS : BS * First(r.todo) + j <= Len(d) =>
             r.buf[Len(r.buf) - BS + j] = d[BS * First(r.todo) + j]
     /\ r.op = "write" /\ r.pc = "write_read" =>
          r.num = IF lower + aligned > Len(d) THEN Wrap(Len(d) - lower) ELSE aligned
     /\ r.op = "write" /\ r.pc \in {"cache_record", "cache_pwrite"} =>
          \A k \in lower + 1 .. Smaller(lower + aligned, Len(d)) :
            r.buf[k - lower] = d[k]

Bounded(r) ==
  /\ r.op = "read" => r.len \in Nat \ {0} /\ r.todo \subseteq RequestBlocks(r)
  /\ r.op = "write" =>
       /\ r.off \in 0 .. MaxSize - 1 /\ r.len \in 1 .. PageSize
       /\ Cardinality(PagesOf(r.off, r.len)) = 1
       /\ r.todo = RequestBlocks(r)
       /\ r.pc = "write_read" => /\ r.num \in Nat
                                 /\ r.num < SizeMod \div 2 => r.num <= Align!alignedSize(r.len)
       /\ r.pc \in {"cache_record", "cache_pwrite"} =>
            Len(r.buf) = Align!alignedSize(r.len)

\* A file that cfs_open found unknown is; one that it or cfs_unlink has deleted
\* from the metadata has no block there that counts.
FaultReq(t) ==
  /\ Calling(t) /\ Bounded(req[t])
  /\ t \notin bad => FromNas(req[t], DataOf(nas, req[t].path))
  /\ Pc(t, "open_stat") /\ ~req[t].present => name(t) \notin files
  /\ req[t].pc \in {"open_unlink", "unlink_cache"} /\ Idle(t) => Gone(name(t))

FaultInv ==
  /\ \A t \in Threads : FaultReq(t)
  /\ \A f \in Names : cache.dir[f] = NoInode => Gone(f)
  /\ \A p \in Paths : FaultFile(p)

---------------------------------------------------------------------------
(***************************************************************************)
(* What a request claims, it claims until its bytes have arrived.          *)
(***************************************************************************)
LEMMA ArrivingArrives ==
  ASSUME SharedInv, NEW t \in Threads, Arriving(t)
  PROVE  Arrives(t)
<1>1. DOMAIN req = Threads /\ DOMAIN req[t] = Fields
  BY DEF SharedInv, PathInv, PathReqs, Shape
<1>2. PICK n : cache_pwriteAs(t, n)
  BY DEF Arriving
<1>3. Pc(t, "cache_pwrite")
  BY <1>2 DEF cache_pwriteAs
<1>4. CASE req[t].op = "read"
  <2>1. req'[t] = NextReadBlock(t, req[t])
    BY <1>1, <1>2, <1>4 DEF cache_pwriteAs, Go
  <2>2. NextReadBlock(t, req[t]).pc \in {"read_done", "read_block"}
    BY <1>1 DEF NextReadBlock, Fields, NoReq
  <2>3. QED  BY <1>3, <2>1, <2>2 DEF Arrives, Pc
<1>5. CASE req[t].op # "read"
  <2>1. req'[t] = NoReq /\ NoReq.pc = "idle"
    BY <1>1, <1>2, <1>5 DEF cache_pwriteAs, Return, Go, NoReq
  <2>2. QED  BY <1>3, <2>1 DEF Arrives, Pc
<1>6. QED  BY <1>4, <1>5

Ahead(r, q) ==
  /\ DOMAIN r = Fields
  /\ r.op = q.op /\ r.path = q.path /\ r.h = q.h /\ r.off = q.off
  /\ r.len = q.len /\ r.val = q.val /\ r.todo = q.todo

\* cfs_write goes on to the cache with the request it has.
LEMMA WriteGoesOn ==
  ASSUME SharedInv, NEW t \in Threads, WriteSteps(t)
  PROVE  \/ Pc(t, "cache_pwrite") /\ Arriving(t)
         \/ /\ Ahead(req'[t], req[t])
            /\ req'[t].pc \in {"write_stat", "write_read", "cache_record",
                               "cache_pwrite"}
<1>1. DOMAIN req = Threads /\ DOMAIN req[t] = Fields
  BY DEF SharedInv, PathInv, PathReqs, Shape
<1>2. ASSUME NEW n, write_nasAs(t, n)
      PROVE  Ahead(req'[t], req[t]) /\ req'[t].pc = "write_stat"
  BY <1>1, <1>2 DEF write_nasAs, Go, Ahead, Fields, NoReq
<1>3. ASSUME NEW S, write_statAs(t, S)
      PROVE  Ahead(req'[t], req[t]) /\ req'[t].pc = "write_read"
  <2>1. PICK m : Go(t, [req[t] EXCEPT !.pc = "write_read", !.num = m])
    BY <1>3 DEF write_statAs
  <2>2. QED  BY <1>1, <2>1 DEF Go, Ahead, Fields, NoReq
<1>4. ASSUME NEW bytes, write_readAs(t, bytes)
      PROVE  Ahead(req'[t], req[t]) /\ req'[t].pc = "cache_record"
  <2>1. PICK m : Go(t, [req[t] EXCEPT !.buf = m, !.pc = "cache_record"])
    BY <1>4 DEF write_readAs
  <2>2. QED  BY <1>1, <2>1 DEF Go, Ahead, Fields, NoReq
<1>5. cache_record(t) => Ahead(req'[t], req[t]) /\ req'[t].pc = "cache_pwrite"
  BY <1>1 DEF cache_record, Go, Ahead, Fields, NoReq
<1>6. Arriving(t) => Pc(t, "cache_pwrite")
  BY DEF Arriving, cache_pwriteAs
<1>7. QED
  BY <1>2, <1>3, <1>4, <1>5, <1>6 DEF WriteSteps, write_stat, write_read

\* A read goes on from cache_pwrite, and a write ends there.
LEMMA OnlyArrives ==
  ASSUME NEW t \in Threads, StepsOf(t), Pc(t, "cache_pwrite"),
         req[t].op \in {"read", "write"}
  PROVE  Arriving(t)
BY DEF StepsOf, ReadSteps, WriteSteps, cfs_read, read_check, read_checkAs,
   read_all, read_allAs, read_block, read_blockAs, read_done, cache_record,
   write_nasAs, write_stat, write_statAs, write_read, write_readAs, Pc

\* A block stays half done until it arrives in the cache.
LEMMA HalvedStays ==
  ASSUME SharedInv, NEW t \in Threads, StepOf(t), Bounded(req[t]),
         NEW P, P = req[t].path, NEW b
  PROVE  /\ Halved(req[t], P, b) =>
              Halved(req'[t], P, b) \/ (Arrives(t) /\ b \in WriteBlocks(t))
         /\ Pc(t, "cache_pwrite") /\ b \in WriteBlocks(t) =>
              Halved(req'[t], P, b) \/ Arrives(t)
<1>1. AtStep(req[t]) /\ First(req[t].todo) = BlockInHand(t)
  BY DEF SharedInv, PathInv, PathReqs, Shape, First, BlockInHand
<1>2. Pc(t, "cache_pwrite") => req[t].op \in {"read", "write"}
  BY <1>1 DEF AtStep, Pc
<1>3. Pc(t, "cache_pwrite") /\ b \in WriteBlocks(t) => Halved(req[t], P, b)
  <2> SUFFICES ASSUME Pc(t, "cache_pwrite"), b \in WriteBlocks(t)
               PROVE  Halved(req[t], P, b)
    OBVIOUS
  <2>1. CASE req[t].op = "read"
    BY <1>1, <2>1 DEF Halved, WriteBlocks, Pc
  <2>2. CASE req[t].op = "write"
    BY <2>2 DEF Halved, WriteBlocks, Bounded, Pc
  <2>3. QED  BY <1>2, <2>1, <2>2
<1>4. CASE UNCHANGED cfsVars
  BY <1>3, <1>4 DEF cfsVars
<1>5. CASE ~ UNCHANGED cfsVars
  <2>1. StepsOf(t)
    BY <1>5, OpSteps
  <2>2. Pc(t, "cache_pwrite") => Arrives(t)
    BY <1>2, <2>1, OnlyArrives, ArrivingArrives
  <2>3. ASSUME Halved(req[t], P, b), ~Pc(t, "cache_pwrite")
        PROVE  Halved(req'[t], P, b)
    <3>1. req[t].op = "write" /\ b \in RequestBlocks(req[t])
      BY <2>3 DEF Halved, Pc
    <3>2. WriteSteps(t)
      BY <2>1, <3>1 DEF StepsOf
    <3>3. /\ Ahead(req'[t], req[t])
          /\ req'[t].pc \in {"write_stat", "write_read", "cache_record", "cache_pwrite"}
      BY <2>3, <3>2, WriteGoesOn
    <3>4. QED  BY <3>1, <3>3 DEF Halved, Ahead, RequestBlocks
  <2>4. ASSUME Halved(req[t], P, b), Pc(t, "cache_pwrite")
        PROVE  b \in WriteBlocks(t)
    BY <1>1, <1>2, <2>4 DEF Halved, WriteBlocks, Bounded, Pc
  <2>5. QED  BY <2>2, <2>3, <2>4
<1>6. QED  BY <1>4, <1>5

\* A step of a callback leaves the other requests alone.
LEMMA StepMoves ==
  ASSUME SharedInv, NEW t \in Threads, StepOf(t)
  PROVE  /\ Moved(t)
         /\ Daemon(t) \/ CallFails(t) \/ SQLFails(t)
<1>1. Daemon(t) \/ CallFails(t) \/ SQLFails(t)
  BY DEF StepOf, CallGoesWrong, StatementGoesWrong
<1>2. CASE SQLFails(t)
  BY <1>2 DEF SQLFails, cfsVars, Moved, Kept, SharedInv, PathInv, PathReqs
<1>3. CASE Daemon(t)
  BY <1>1, <1>3, DaemonMoves DEF SharedInv, FileInv
<1>4. CASE CallFails(t)
  BY <1>1, <1>4, FailPaths
<1>5. QED  BY <1>1, <1>2, <1>3, <1>4

\* The block of a byte.
LEMMA BlockHolds ==
  ASSUME NEW k \in Nat \ {0}
  PROVE  /\ BlockOf(k) \in Nat
         /\ BS * BlockOf(k) \in Nat /\ BS * (BlockOf(k) + 1) = BS * BlockOf(k) + BS
         /\ BS * BlockOf(k) < k /\ k <= BS * (BlockOf(k) + 1)
<1> DEFINE q == BlockOf(k)
<1>1. BS \in Nat \ {0} /\ k - 1 \in Nat
  BY BlockSize
<1>2. /\ q \in Nat /\ BS * q \in Nat /\ BS * q <= k - 1 /\ k - 1 < BS * q + BS
  BY <1>1, Division DEF BlockOf
<1> HIDE DEF q
<1>3. BS * (q + 1) = BS * q + BS
  BY <1>1, <1>2, Multiples
<1>4. QED  BY <1>1, <1>2, <1>3 DEF q

\* The last call of a truncation shortens the NAS file, or fails.
LEMMA LastCall ==
  ASSUME SharedInv, NEW t \in Threads, StepOf(t), Pc(t, "trunc_nas"),
         ~ UNCHANGED cfsVars
  PROVE  trunc_nas(t) \/ CallGoesWrong(t)
<1> SUFFICES ASSUME Daemon(t)  PROVE trunc_nas(t)
  BY DEF StepOf, StatementGoesWrong, SQLFails
<1>1. ~cfs_open(t) /\ ~cfs_read(t) /\ ~cfs_write(t)
  BY DEF cfs_open, open_nas, open_present, open_presentAs, open_stat,
     open_statAs, open_date, open_dateAs, open_unlink, open_create,
     open_mknod, open_cache, cfs_read, read_check, read_checkAs, read_all,
     read_allAs, read_block, read_blockAs, read_done, cfs_write, write_nas,
     write_nasAs, write_stat, write_statAs, write_read, write_readAs, Pc
<1>2. ~cfs_mknod(t) /\ ~cfs_unlink(t) /\ ~trunc_cache(t) /\ ~cfs_release(t)
  BY DEF cfs_mknod, cfs_unlink, unlink_meta, unlink_cache, unlink_nas,
     trunc_cache, cfs_release, release_dig, release_close, Pc
<1>3. ~cfs_rename(t) /\ ~cfs_link(t) /\ ~cfs_utime(t) /\ ~cfs_cacheWrite(t)
  BY DEF cfs_rename, rename_cache, rename_nas, cfs_link, link_cache,
     link_nas, cfs_utime, utime_cache, utime_nas, cfs_cacheWrite, cache_wait,
     cache_record, cache_pwrite, cache_pwriteAs, Pc
<1>4. QED  BY <1>1, <1>2, <1>3 DEF Daemon, cfs_truncate

\* The bytes of both file systems after a step.
LEMMA NextBytes ==
  ASSUME FileInv'
  PROVE  /\ \A p \in Paths : nas'.dir[p] # NoInode =>
              /\ nas'.dir[p] \in Inodes /\ DataOf(nas', p) \in Seq(NasBytes)
              /\ Len(DataOf(nas', p)) \in 0 .. MaxSize
         /\ \A f \in Names : cache'.dir[f] # NoInode =>
              cache'.dir[f] \in Inodes /\ DataOf(cache', f) \in Seq(ByteSet)
<1>1. /\ FileSystem(nas', Paths, NasBytes) /\ FileSystem(cache', Names, ByteSet)
      /\ \A i \in Inodes : Len(nas'.data[i]) <= MaxSize
  BY DEF FileInv, DirsInv, FileSystem
<1>2. \A i \in Inodes : nas'.data[i] \in Seq(NasBytes) /\ cache'.data[i] \in Seq(ByteSet)
  BY <1>1 DEF FileSystem
<1>3. \A i \in Inodes : Len(nas'.data[i]) \in 0 .. MaxSize
  BY <1>1, <1>2, LenProperties, BlockSize
<1>4. /\ \A p \in Paths : nas'.dir[p] # NoInode => nas'.dir[p] \in Inodes
      /\ \A f \in Names : cache'.dir[f] # NoInode => cache'.dir[f] \in Inodes
  BY <1>1 DEF FileSystem
<1>5. QED  BY <1>2, <1>3, <1>4 DEF DataOf

\* The tail that cfs_truncate has cut off in the cache stays cut off until the NAS
\* is cut too; if that call fails the tail is spoilt (cachefs.c:336).
LEMMA SeveredStays ==
  ASSUME SharedInv, FileInv', NEW t \in Threads, StepOf(t),
         NEW P \in Paths, P = req[t].path, nas'.dir[P] # NoInode,
         NEW k \in 1 .. Len(DataOf(nas', P)), Severed(req[t], P, k),
         BlockOf(k) \in Blocks
  PROVE  \/ Severed(req'[t], P, k)
         \/ <<pathToFileName(P), BlockOf(k)>> \notin Trusted'
<1>1. Pc(t, "trunc_nas") /\ k > req[t].len /\ req[t].len \in Nat
  BY DEF Severed, Pc, SharedInv, FileInv, RequestsInv, Typed, LocalTypes
<1>2. /\ DataOf(nas', P) \in Seq(NasBytes) /\ Len(DataOf(nas', P)) \in 0 .. MaxSize
  BY NextBytes
<1>3. CASE UNCHANGED cfsVars
  BY <1>3 DEF cfsVars
<1>4. CASE trunc_nas(t)
  <2>1. /\ req[t].op = "truncate" /\ nas'.dir = nas.dir
        /\ DataOf(nas', P) = Resized(DataOf(nas, P), req[t].len)
    BY <1>4, NasCalls DEF SharedInv, ShareInv
  <2>2. nas.dir[P] # NoInode /\ DataOf(nas, P) \in Seq(NasBytes)
    BY <2>1, FileBytes DEF SharedInv
  <2>3. Zero \in NasBytes
    BY DEF NasBytes
  <2>4. Shortened(DataOf(nas', P), DataOf(nas, P), req[t].len)
    BY <1>1, <2>1, <2>2, <2>3, ResizedBytes
  <2>5. Len(DataOf(nas', P)) = req[t].len
    BY <2>4 DEF Shortened
  <2>6. QED  BY <1>1, <2>5
<1>5. CASE CallGoesWrong(t)
  <2> DEFINE b == BlockOf(k)
  <2>1. /\ b \in Nat /\ BS * b \in Nat /\ BS * (b + 1) = BS * b + BS
        /\ BS * b < k /\ k <= BS * (b + 1)
    BY <1>2, BlockHolds
  <2>2. b \in Blocks /\ BS \in Nat /\ MaxSize \in Nat
    BY BlockSize
  <2> HIDE DEF b
  <2>3. BS * (b + 1) > req[t].len /\ BS * b < MaxSize
    BY <1>1, <1>2, <2>1, <2>2
  <2> DEFINE row == <<name(t), b>>
  <2>4. row[2] = b /\ row \in AllBlocks(name(t))
    BY <2>2 DEF AllBlocks
  <2> HIDE DEF row
  <2>5. row \in BlocksBetween(name(t), req[t].len, MaxSize)
    BY <2>3, <2>4 DEF BlocksBetween
  <2>6. row \notin Trusted'
    BY <1>1, <1>5, <2>5, FailGhosts
  <2>7. QED  BY <2>6 DEF row, b, name
<1>6. QED  BY <1>1, <1>3, <1>4, <1>5, LastCall

\* What is claimed of the thread's own file after its step was claimed before it,
\* unless the step has delivered it.
LEMMA OwnClaims ==
  ASSUME SharedInv, FileInv', TypeOK, NEW t \in Threads, StepOf(t),
         Bounded(req[t]), Ghosts(t),
         NEW P \in Paths, P = req[t].path, nas'.dir[P] # NoInode,
         NEW k \in 1 .. Len(DataOf(nas', P)), Claimed(P, k)'
  PROVE  \/ Delivers(t) /\ BlockOf(k) \in WriteBlocks(t)
         \/ /\ Claimed(P, k)
            /\ ~ (Pc(t, "cache_pwrite") /\ BlockOf(k) \in WriteBlocks(t))
<1> DEFINE row == <<pathToFileName(P), BlockOf(k)>>
           b   == BlockOf(k)
<1>1. /\ row \in Trusted' /\ name(t) = pathToFileName(P)
      /\ \A u \in Threads : ~Halved(req'[u], P, b) /\ ~Severed(req'[u], P, k)
  BY DEF Claimed, name
<1>2. \A u \in Threads \ {t} : req'[u] = req[u]
  BY StepMoves DEF Moved
<1>3. b \in WriteBlocks(t) <=> row \in InHand(t)
  BY <1>1 DEF InHand
<1>4. CASE Pc(t, "cache_pwrite") /\ b \in WriteBlocks(t)
  <2>1. Arrives(t)
    BY <1>1, <1>4, HalvedStays
  <2>2. QED  BY <1>1, <1>3, <1>4, <2>1 DEF Ghosts
<1>5. CASE ~ (Pc(t, "cache_pwrite") /\ b \in WriteBlocks(t))
  <2>1. row \in Trusted
    BY <1>1, <1>3, <1>5 DEF Ghosts
  <2>2. row[2] = b /\ row \in blocks
    BY <2>1 DEF Trusted
  <2>3. b \in Blocks
    BY <2>2 DEF TypeOK
  <2>4. ~Halved(req[t], P, b)
    BY <1>1, <1>5, HalvedStays DEF Arrives
  <2>5. ~Severed(req[t], P, k)
    BY <1>1, <2>3, SeveredStays
  <2>6. \A u \in Threads : ~Halved(req[u], P, b) /\ ~Severed(req[u], P, k)
    BY <1>1, <1>2, <2>4, <2>5
  <2>7. QED  BY <1>5, <2>1, <2>6 DEF Claimed
<1>6. QED  BY <1>4, <1>5

---------------------------------------------------------------------------
(***************************************************************************)
(* The bytes in hand, and what a step does to its file.                    *)
(***************************************************************************)
Whole(o, w, B) == /\ o \in Nat /\ w \in Seq(ByteSet) /\ Len(w) \in Nat \ {0}
                  /\ \A k \in Nat \ {0} :
                       BlockOf(k) \in B <=> k \in o + 1 .. o + Len(w)

Like(o, w, d) == \A k \in o + 1 .. o + Len(w) : k <= Len(d) => w[k - o] = d[k]

\* cfs_cacheWrite writes whole blocks (cachefs.c:522), and those it carries are the
\* NAS's as far as the file goes.
LEMMA InHandBytes ==
  ASSUME SharedInv, NoStraddle, NEW t \in Threads, req[t].pc = "cache_pwrite",
         Bounded(req[t])
  PROVE  /\ Whole(WriteOffset(t), WriteBytes(t), WriteBlocks(t))
         /\ \A d : Len(d) \in Nat /\ FromNas(req[t], d) =>
              Like(WriteOffset(t), WriteBytes(t), d)
<1> DEFINE r == req[t]
<1>1. /\ r.off \in Nat /\ r.len \in Nat /\ r.buf \in Seq(ByteSet)
      /\ r.op \in {"read", "write"} /\ Len(r.buf) \in Nat /\ BS \in Nat \ {0}
      /\ r.op = "read" => Len(r.buf) >= BS
  BY LenProperties, BlockSize
  DEF SharedInv, FileInv, RequestsInv, Typed, LocalTypes, StepOfOp
<1>2. WriteOffset(t) = BS * First(r.todo) /\ BlockInHand(t) = First(r.todo)
  BY DEF WriteOffset, BlockInHand, First
<1>3. CASE r.op = "write"
  <2> DEFINE aligned == Align!alignedSize(r.len)
  <2>1. /\ r.off \in 0 .. MaxSize - 1 /\ r.len \in 1 .. PageSize
        /\ Cardinality(PagesOf(r.off, r.len)) = 1
        /\ r.todo = RequestBlocks(r) /\ Len(r.buf) = aligned
    BY <1>3 DEF Bounded
  <2>2. PICK lo \in Nat, hi \in Nat :
           /\ lo <= hi /\ RequestBlocks(r) = lo .. hi
           /\ Align!alignLowerOffset(r.off) = BS * lo
           /\ BS * lo + aligned = BS * (hi + 1) /\ aligned \in Nat
           /\ BS * lo <= r.off /\ r.off + r.len <= BS * (hi + 1)
    BY <2>1, PageSpan
  <2>3. First(lo .. hi) = lo /\ BS * lo \in Nat
    BY <2>2, FirstIs, InBlock
  <2>4. WriteOffset(t) = BS * lo /\ WriteBytes(t) = r.buf /\ WriteBlocks(t) = lo .. hi
    BY <1>2, <1>3, <2>1, <2>2, <2>3 DEF WriteBytes, WriteBlocks
  <2>5. ASSUME NEW k \in Nat \ {0}
        PROVE  BlockOf(k) \in lo .. hi <=> k \in BS * lo + 1 .. BS * lo + Len(r.buf)
    <3>1. BlockOf(k) \in lo .. hi <=> BS * lo < k /\ k <= BS * (hi + 1)
      BY <2>2, InBlocks
    <3> HIDE DEF aligned
    <3>2. QED  BY <2>1, <2>2, <2>3, <3>1
  <2>6. Len(r.buf) # 0
    <3>1. r.len # 0 /\ PageSize \in Nat
      BY <2>1, PageOfBlock
    <3> HIDE DEF aligned
    <3>2. QED  BY <1>1, <2>1, <2>2, <2>3, <3>1
  <2>7. ASSUME NEW d, Len(d) \in Nat, FromNas(r, d)  PROVE Like(BS * lo, r.buf, d)
    <3>1. \A k \in BS * lo + 1 .. Smaller(BS * lo + aligned, Len(d)) :
             r.buf[k - BS * lo] = d[k]
      BY <1>3, <2>2, <2>7 DEF FromNas
    <3> HIDE DEF aligned
    <3>2. QED  BY <2>1, <2>2, <2>3, <2>7, <3>1 DEF Like, Smaller
  <2> HIDE DEF aligned, r
  <2>8. Whole(BS * lo, r.buf, lo .. hi)
    BY <1>1, <2>3, <2>5, <2>6 DEF Whole
  <2>9. QED  BY <2>4, <2>7, <2>8 DEF r
<1>4. CASE r.op = "read"
  <2> DEFINE b == First(r.todo)
             n == Len(r.buf)
             s == SubSeq(r.buf, n - BS + 1, n)
  <2>1. b \in Nat
    <3>1. r.todo # {} /\ Locals(r) /\ r.todo \in SUBSET Blocks
      BY DEF SharedInv, FileInv, CallbackInv, ReqInv, Locals, Covering
    <3>2. b \in Blocks
      BY <1>2, <3>1, BlockInHandType
    <3>3. QED  BY <3>2, MetaAssumption
  <2>2. WriteOffset(t) = BS * b /\ WriteBytes(t) = s /\ WriteBlocks(t) = {b}
    BY <1>2, <1>4 DEF WriteBytes, WriteBlocks
  <2>3. BS * b \in Nat /\ BS * (b + 1) = BS * b + BS
    BY <2>1, InBlock
  <2>4. /\ s \in Seq(ByteSet) /\ Len(s) = BS
        /\ \A j \in 1 .. BS : s[j] = r.buf[n - BS + j]
    <3>1. \A k \in n - BS + 1 .. n : r.buf[k] \in ByteSet
      BY <1>1, <1>4, ElementOfSeq
    <3>2. n - BS + 1 \in Int /\ n \in Int /\ n - BS + 1 <= n
      BY <1>1, <1>4
    <3> DEFINE lo1 == n - BS + 1
    <3>3. /\ s \in Seq(ByteSet)
          /\ Len(s) = IF lo1 <= n THEN n - lo1 + 1 ELSE 0
          /\ \A j \in 1 .. n - lo1 + 1 : s[j] = r.buf[lo1 + j - 1]
      <4> HIDE DEF n
      <4>1. QED  BY <1>1, <3>1, <3>2, SubSeqProperties
    <3> HIDE DEF s, n
    <3>4. QED  BY <1>1, <3>2, <3>3
  <2>5. ASSUME NEW k \in Nat \ {0}
        PROVE  BlockOf(k) \in {b} <=> k \in BS * b + 1 .. BS * b + BS
    <3>1. BlockOf(k) \in b .. b <=> BS * b < k /\ k <= BS * (b + 1)
      BY <2>1, InBlocks
    <3>2. b .. b = {b}
      BY <2>1
    <3> HIDE DEF b
    <3>3. QED  BY <1>1, <2>3, <3>1, <3>2
  <2> HIDE DEF s
  <2>6. ASSUME NEW d, Len(d) \in Nat, FromNas(r, d)  PROVE Like(BS * b, s, d)
    <3>1. \A j \in 1 .. BS : BS * b + j <= Len(d) => r.buf[n - BS + j] = d[BS * b + j]
      BY <1>1, <1>4, <2>6 DEF FromNas
    <3> HIDE DEF n
    <3> SUFFICES ASSUME NEW k \in BS * b + 1 .. BS * b + BS, k <= Len(d)
                 PROVE  s[k - BS * b] = d[k]
      BY <2>4 DEF Like
    <3> DEFINE x == BS * b
               j == k - x
    <3>2. j \in 1 .. BS /\ x + j = k
      <4>1. x \in Nat /\ BS \in Nat
        BY <1>1, <2>3
      <4> HIDE DEF x
      <4>2. QED  BY <4>1 DEF x
    <3>3. QED  BY <2>4, <3>1, <3>2
  <2> HIDE DEF r, b
  <2>7. Whole(BS * b, s, {b})
    BY <1>1, <2>3, <2>4, <2>5 DEF Whole
  <2>8. QED  BY <2>2, <2>6, <2>7 DEF r
<1>5. QED  BY <1>1, <1>3, <1>4

WritesNas(t) ==
  /\ Pc(t, "write_nas") /\ req[t].op = "write" /\ cache' = cache /\ nas'.dir = nas.dir
  /\ \E n \in Nat \ {0} :
       /\ n <= req[t].len
       /\ DataOf(nas', req[t].path) =
            Written(DataOf(nas, req[t].path), req[t].off, [k \in 1 .. n |-> req[t].val])

CutsNas(t) ==
  /\ trunc_nas(t) /\ req[t].op = "truncate" /\ cache' = cache /\ nas'.dir = nas.dir
  /\ DataOf(nas', req[t].path) = Resized(DataOf(nas, req[t].path), req[t].len)

SameData(fs, gs) == gs.dir = fs.dir /\ gs.data = fs.data

\* What a step does to the NAS: to its own file only, ...
LEMMA NasStep ==
  ASSUME SharedInv, NEW t \in Threads, StepOf(t), NEW P, P = req[t].path
  PROVE  /\ OnlyFile(nas, nas', P)
         /\ \/ nas' = nas
            \/ req[t].op = "mknod" /\ nas.dir[P] = NoInode /\ DataOf(nas', P) = <<>>
            \/ req[t].op = "unlink" /\ nas'.dir[P] = NoInode
            \/ WritesNas(t) \/ CutsNas(t)
            \/ req[t].op = "utime" /\ SameData(nas, nas')
<1>1. /\ AtStep(req[t]) /\ FileInv /\ PathInv /\ UsersInv /\ NamesInv
      /\ req[t].len \in Nat
  BY DEF SharedInv, ShareInv, PathInv, PathReqs, Shape, FileInv, RequestsInv, Typed,
         LocalTypes
<1>2. CASE SQLFails(t)
  BY <1>2 DEF SQLFails, cfsVars, OnlyFile, SameFile
<1>3. CASE Daemon(t)
  <2>1. CASE write_nas(t)
    <3>1. Pc(t, "write_nas") /\ req[t].op = "write" /\ cache' = cache
      BY <1>1, <2>1 DEF write_nas, write_nasAs, AtStep, Pc
    <3>2. CASE req[t].len = 0
      <4>1. nas' = nas
        BY <2>1, <3>2 DEF write_nas, write_nasAs
      <4>2. QED  BY <1>1, <1>3, <4>1, NasView
    <3>3. CASE req[t].len # 0
      <4>1. /\ nas'.dir = nas.dir
            /\ DataOf(nas', P) = Written(DataOf(nas, P), req[t].off,
                                         [k \in 1 .. req[t].len |-> req[t].val])
        BY <1>1, <2>1, <3>3, NasCalls
      <4>2. WritesNas(t)
        <5>1. req[t].len \in Nat \ {0} /\ req[t].len <= req[t].len
          BY <1>1, <3>3
        <5>2. \E n \in Nat \ {0} :
                 /\ n <= req[t].len
                 /\ DataOf(nas', P) = Written(DataOf(nas, P), req[t].off,
                                              [k \in 1 .. n |-> req[t].val])
          BY <4>1, <5>1, Zenon
        <5>3. QED  BY <3>1, <4>1, <5>2, Zenon DEF WritesNas
      <4>3. QED  BY <1>1, <1>3, <4>2, NasView
    <3>4. QED  BY <3>2, <3>3
  <2>2. CASE trunc_nas(t)
    <3>1. CutsNas(t)
      BY <1>1, <2>2, NasCalls DEF CutsNas, trunc_nas
    <3>2. QED  BY <1>1, <1>3, <3>1, NasView
  <2>3. CASE utime_nas(t)
    <3>1. req[t].op = "utime"
      BY <1>1, <2>3 DEF utime_nas, AtStep, Pc
    <3>2. ~write_nas(t) /\ ~trunc_nas(t)
      BY <2>3 DEF utime_nas, write_nas, write_nasAs, trunc_nas, Pc
    <3>3. nas' = nas \/ SameData(nas, nas')
      BY <1>1, <1>3, <3>1, <3>2, NasView DEF SameData
    <3>4. QED  BY <1>1, <1>3, <3>1, <3>3, NasView
  <2>4. CASE ~write_nas(t) /\ ~trunc_nas(t) /\ ~utime_nas(t)
    BY <1>1, <1>3, <2>4, NasView
  <2>5. QED  BY <2>1, <2>2, <2>3, <2>4
<1>4. CASE CallFails(t)
  <2>1. OnlyFile(nas, nas', P) /\ SameDirs /\ (nas' = nas \/ PartOnNas(t))
    BY <1>4, FailView
  <2>2. ASSUME PartOnNas(t)  PROVE WritesNas(t)
    <3>1. PICK n \in Nat \ {0} :
             /\ n < req[t].len /\ write_nasAs(t, n)
             /\ DataOf(nas', req[t].path) =
                  Written(DataOf(nas, req[t].path), req[t].off, [k \in 1 .. n |-> req[t].val])
      BY <2>2 DEF PartOnNas
    <3>2. Pc(t, "write_nas") /\ req[t].op = "write" /\ cache' = cache
      BY <1>1, <3>1 DEF write_nasAs, AtStep, Pc
    <3>3. n <= req[t].len
      BY <1>1, <3>1
    <3>4. QED  BY <2>1, <3>1, <3>2, <3>3 DEF WritesNas, SameDirs
  <2>3. QED  BY <2>1, <2>2
<1>5. QED  BY <1>2, <1>3, <1>4, StepMoves

FillsCache(t) ==
  /\ Pc(t, "cache_pwrite") /\ nas' = nas /\ cache'.dir = cache.dir
  /\ \E w \in Seq(ByteSet) :
       /\ Len(w) <= Len(WriteBytes(t))
       /\ cache_pwrite(t) => w = WriteBytes(t)
       /\ DataOf(cache', name(t)) = Written(DataOf(cache, name(t)), WriteOffset(t), w)

CutsCache(t) ==
  /\ trunc_cache(t) /\ req[t].op = "truncate" /\ nas' = nas /\ cache'.dir = cache.dir
  /\ DataOf(cache', name(t)) = Resized(DataOf(cache, name(t)), req[t].len)

\* ... and to the cache.
LEMMA CacheStep ==
  ASSUME SharedInv, NEW t \in Threads, StepOf(t)
  PROVE  /\ OnlyFile(cache, cache', name(t))
         /\ \/ cache' = cache
            \/ /\ req[t].op \in {"open", "unlink"} /\ cache'.dir[name(t)] = NoInode
               /\ open_unlink(t) \/ unlink_cache(t)
            \/ open_mknod(t) /\ cache.dir[name(t)] = NoInode
            \/ FillsCache(t) \/ CutsCache(t)
            \/ nas' = nas /\ SameData(cache, cache')
               /\ req[t].op \in {"utime", "release"}
<1> DEFINE f == name(t)
<1>1. /\ AtStep(req[t]) /\ FileInv /\ PathInv /\ UsersInv /\ NamesInv
      /\ FileSystem(cache, Names, ByteSet) /\ OneName(cache.dir)
  BY DEF SharedInv, ShareInv, PathInv, PathReqs, Shape, FileInv, DirsInv, NamesInv
<1>2. Pc(t, "cache_pwrite") => WriteBytes(t) \in Seq(ByteSet) /\ f \in Names
  <2>1. Pc(t, "cache_pwrite") => req[t].pc \in Covering /\ req[t].pc # "idle"
    BY DEF Covering, Pc
  <2>2. QED  BY <1>1, <2>1, WriteBytesType, InCallback DEF FileInv, Pc
<1>3. CASE SQLFails(t)
  BY <1>3 DEF SQLFails, cfsVars, OnlyFile, SameFile
<1>4. CASE Daemon(t)
  <2>1. CASE cache_pwrite(t)
    <3>1. Pc(t, "cache_pwrite") /\ nas' = nas
      BY <2>1 DEF cache_pwrite, cache_pwriteAs
    <3>2. ~open_mknod(t) /\ ~trunc_cache(t) /\ ~utime_cache(t) /\ ~release_dig(t)
          /\ req[t].op \in {"read", "write"}
      BY <1>1, <3>1 DEF open_mknod, trunc_cache, utime_cache, release_dig, Pc, AtStep
    <3>3. CASE cache'.dir = cache.dir /\ DataOf(cache', f) =
                 Written(DataOf(cache, f), WriteOffset(t), WriteBytes(t))
      <4>1. Len(WriteBytes(t)) <= Len(WriteBytes(t))
        BY <1>2, <3>1, LenProperties
      <4>2. FillsCache(t)
        BY <1>2, <3>1, <3>3, <4>1 DEF FillsCache
      <4>3. QED  BY <1>1, <1>4, <4>2, CacheView
    <3>4. QED  BY <1>1, <1>4, <3>2, <3>3, CacheView
  <2>2. CASE trunc_cache(t)
    <3>1. req[t].op = "truncate" /\ nas' = nas
      BY <1>1, <2>2 DEF trunc_cache, AtStep, Pc
    <3>2. ~open_mknod(t) /\ ~cache_pwrite(t) /\ ~utime_cache(t) /\ ~release_dig(t)
      BY <2>2 DEF trunc_cache, open_mknod, cache_pwrite, cache_pwriteAs, utime_cache,
         release_dig, Pc
    <3>3. QED  BY <1>1, <1>4, <2>2, <3>1, <3>2, CacheView DEF CutsCache
  <2>3. CASE utime_cache(t) \/ release_dig(t)
    <3>1. req[t].op \in {"utime", "release"} /\ nas' = nas
      BY <1>1, <2>3 DEF utime_cache, release_dig, AtStep, Pc
    <3>2. ~open_mknod(t) /\ ~cache_pwrite(t) /\ ~trunc_cache(t)
      BY <2>3 DEF utime_cache, release_dig, open_mknod, cache_pwrite, cache_pwriteAs,
         trunc_cache, Pc
    <3>3. QED  BY <1>1, <1>4, <3>1, <3>2, CacheView DEF SameData
  <2>4. CASE open_mknod(t)
    <3>1. req[t].op = "open" /\ f \in Names
      BY <1>1, <2>4, InCallback DEF open_mknod, AtStep, Pc
    <3>2. cache' = Create(cache, f, CacheHeld, clock)
      BY <2>4 DEF open_mknod
    <3>3. cache' = cache \/ cache.dir[f] = NoInode
      BY <1>1, <3>1, <3>2, CreateLocal
    <3>4. QED  BY <1>1, <1>4, <2>4, <3>3, CacheView
  <2>5. CASE open_unlink(t) \/ unlink_cache(t)
    <3>1. ~open_mknod(t) /\ ~cache_pwrite(t) /\ ~trunc_cache(t) /\ ~utime_cache(t)
          /\ ~release_dig(t)
      BY <2>5 DEF open_unlink, unlink_cache, utime_cache, release_dig, open_mknod,
         cache_pwrite, cache_pwriteAs, trunc_cache, Pc
    <3>2. QED  BY <1>1, <1>4, <2>5, <3>1, CacheView
  <2>6. CASE /\ ~open_mknod(t) /\ ~cache_pwrite(t) /\ ~trunc_cache(t) /\ ~utime_cache(t)
             /\ ~release_dig(t) /\ ~open_unlink(t) /\ ~unlink_cache(t)
    <3>1. req[t].op \in {"open", "unlink"} => cache' = cache
      <4>1. CASE UNCHANGED cfsVars
        BY <4>1 DEF cfsVars
      <4>2. CASE ~ UNCHANGED cfsVars
        <5> SUFFICES ASSUME req[t].op \in {"open", "unlink"}  PROVE cache' = cache
          OBVIOUS
        <5>1. OpenSteps(t) \/ cfs_unlink(t) \/ call_fails(t)
          BY <4>2, OpSteps DEF StepsOf
        <5>2. QED
          BY <2>6, <5>1 DEF OpenSteps, cfs_open, open_nas, open_present, open_presentAs,
             open_stat, open_statAs, open_date, open_dateAs, open_create, open_cache,
             cfs_unlink, unlink_meta, unlink_nas, call_fails, NoFile
      <4>3. QED  BY <4>1, <4>2
    <3>2. QED  BY <1>1, <1>4, <2>6, <3>1, CacheView
  <2>7. QED  BY <2>1, <2>2, <2>3, <2>4, <2>5, <2>6
<1>5. CASE CallFails(t)
  <2>1. OnlyFile(cache, cache', f) /\ SameDirs /\ (cache' = cache \/ PartInCache(t))
    BY <1>5, FailView
  <2>2. ASSUME PartInCache(t)  PROVE FillsCache(t)
    <3>1. PICK n \in Nat \ {0} :
             /\ n < Len(WriteBytes(t)) /\ cache_pwriteAs(t, n)
             /\ DataOf(cache', f) = Written(DataOf(cache, f), WriteOffset(t),
                                            SubSeq(WriteBytes(t), 1, n))
      BY <2>2 DEF PartInCache
    <3>2. Pc(t, "cache_pwrite") /\ nas' = nas
      BY <3>1 DEF cache_pwriteAs
    <3>3. req[t].op \in {"read", "write"}
      BY <1>1, <3>2 DEF AtStep, Pc
    <3>4. CASE cache_pwrite(t)
      <4>1. DataOf(cache', f) = Written(DataOf(cache, f), WriteOffset(t), WriteBytes(t))
        <5>1. Len(WriteBytes(t)) # 0
          BY <1>2, <3>1, <3>2, LenProperties
        <5>2. QED  BY <1>1, <3>4, <5>1, CacheCalls
      <4>2. Len(WriteBytes(t)) <= Len(WriteBytes(t))
        BY <1>2, <3>2, LenProperties
      <4>3. QED  BY <1>2, <2>1, <3>2, <4>1, <4>2 DEF FillsCache, SameDirs
    <3>5. CASE ~cache_pwrite(t)
      <4> DEFINE w == SubSeq(WriteBytes(t), 1, n)
      <4>1. w \in Seq(ByteSet) /\ Len(w) = n
        <5>1. /\ WriteBytes(t) \in Seq(ByteSet) /\ Len(WriteBytes(t)) \in Nat
          BY <1>2, <3>2, LenProperties
        <5>2. \A k \in 1 .. n : WriteBytes(t)[k] \in ByteSet
          BY <3>1, <5>1, ElementOfSeq
        <5>3. QED  BY <3>1, <5>1, <5>2, SubSeqProperties
      <4>2. Len(w) <= Len(WriteBytes(t))
        BY <1>2, <3>1, <3>2, <4>1, LenProperties
      <4> HIDE DEF w
      <4>3. DataOf(cache', name(t)) = Written(DataOf(cache, name(t)), WriteOffset(t), w)
        BY <3>1 DEF w
      <4>4. QED  BY <2>1, <3>2, <3>5, <4>1, <4>2, <4>3 DEF FillsCache, SameDirs
    <3>6. QED  BY <3>4, <3>5
  <2>3. QED  BY <2>1, <2>2
<1>6. QED  BY <1>3, <1>4, <1>5, StepMoves

---------------------------------------------------------------------------
(***************************************************************************)
(* The file of a step stays the same, or it was behind before.             *)
(***************************************************************************)
\* Where the bytes start that a call writes to the NAS.
GapEnd(t) == IF Pc(t, "write_nas") THEN req[t].off ELSE req[t].len

\* The bytes from the end of the file to the ones written are in a block that
\* Widens names.
LEMMA GapBlocks ==
  ASSUME SharedInv, NEW t \in Threads, WritesNas(t) \/ CutsNas(t),
         NEW k \in Nat \ {0}, BlockOf(k) \in Blocks,
         Len(DataOf(nas, req[t].path)) < k, k <= GapEnd(t)
  PROVE  <<name(t), BlockOf(k)>> \in Widens(t)
<1> DEFINE d == DataOf(nas, req[t].path)
           b == BlockOf(k)
           row == <<name(t), b>>
<1>1. /\ AtStep(req[t]) /\ FileInv /\ PathInv /\ UsersInv
      /\ req[t].len \in Nat /\ req[t].off \in Nat
  BY DEF SharedInv, ShareInv, PathInv, PathReqs, Shape, FileInv, RequestsInv, Typed,
         LocalTypes
<1>2. /\ UsesHandle(req[t]) => fh(t).nas = nas.dir[req[t].path]
      /\ nas.dir[req[t].path] # NoInode /\ req[t].path \in Paths
  <2>1. req[t].op \in {"write", "truncate"} /\ req[t].op # "none"
    BY DEF WritesNas, CutsNas
  <2>2. req[t].path \in Paths
    BY <1>1, <2>1 DEF PathInv, PathReqs, Shape
  <2>3. CASE UsesHandle(req[t])
    BY <1>1, <2>2, <2>3, Descriptors
  <2>4. CASE ~UsesHandle(req[t])
    BY <1>1, <2>1, <2>2, <2>4 DEF UsesHandle, UsersInv
  <2>5. QED  BY <2>3, <2>4
<1>3. Widens(t) = BlocksBetween(name(t), Len(d), GapEnd(t))
  <2>1. CASE WritesNas(t)
    <3>1. Pc(t, "write_nas") /\ fh(t).nas = nas.dir[req[t].path]
      BY <1>2, <2>1 DEF WritesNas, UsesHandle
    <3>2. QED  BY <1>2, <3>1 DEF Widens, Gap, GapEnd, DataOf
  <2>2. CASE CutsNas(t)
    <3>1. /\ Pc(t, "trunc_nas") /\ ~Pc(t, "write_nas")
          /\ nas.dir[req[t].path] = IF req[t].h = NoHandle THEN nas.dir[req[t].path]
                                    ELSE fh(t).nas
      BY <1>2, <2>2 DEF CutsNas, trunc_nas, Pc, UsesHandle
    <3>2. QED  BY <1>2, <3>1 DEF Widens, Gap, GapEnd, DataOf
  <2>3. QED  BY <2>1, <2>2
<1>4. /\ b \in Nat /\ BS * b \in Nat /\ BS * (b + 1) = BS * b + BS
      /\ BS * b < k /\ k <= BS * (b + 1) /\ BS \in Nat /\ Len(d) \in Nat
  BY <1>1, <1>2, BlockHolds, BlockSize, FileBytes
<1>5. GapEnd(t) \in Nat
  BY <1>1 DEF GapEnd
<1> HIDE DEF d
<1>6. BS * (b + 1) > Len(d) /\ BS * b < GapEnd(t)
  BY <1>4, <1>5 DEF d
<1>7. row[2] = b /\ row \in AllBlocks(name(t))
  BY DEF AllBlocks
<1> HIDE DEF row, b
<1>8. row \in BlocksBetween(name(t), Len(d), GapEnd(t))
  BY <1>6, <1>7 DEF BlocksBetween
<1>9. QED  BY <1>3, <1>8 DEF row, b

\* Bytes that were the same before and after the pwrite or the ftruncate of a
\* file, in terms of its bytes alone.
ByteWritten(new, old, off, w, k) ==
  /\ k <= Len(old) /\ k \notin off + 1 .. off + Len(w) =>
       k <= Len(new) /\ new[k] = old[k]
  /\ k \in off + 1 .. off + Len(w) => k <= Len(new) /\ new[k] = w[k - off]
  /\ k <= Len(new) => k <= Len(old) \/ k <= off + Len(w)

\* One byte of a file that is written.
LEMMA WrittenPart ==
  ASSUME NEW B, Zero \in B, NEW old \in Seq(B), NEW off \in Nat, NEW w \in Seq(B),
         NEW new, new = Written(old, off, w), NEW k \in Nat \ {0}
  PROVE  ByteWritten(new, old, off, w, k)
<1>1. Placed(new, old, off, w)
  BY WrittenBytes
<1>2. Len(old) \in Nat /\ Len(w) \in Nat
  OBVIOUS
<1>3. /\ Len(new) = IF Len(old) <= off + Len(w) THEN off + Len(w) ELSE Len(old)
      /\ \A j \in 1 .. Len(new) :
           new[j] = IF j \in off + 1 .. off + Len(w) THEN w[j - off]
                    ELSE IF j <= Len(old) THEN old[j] ELSE Zero
  BY <1>1 DEF Placed, Larger
<1>4. QED  BY <1>2, <1>3 DEF ByteWritten

\* The whole of the blocks in hand arrives: the two files agree on them.
LEMMA SameDelivered ==
  ASSUME SharedInv, NoStraddle, NEW t \in Threads, FaultReq(t), Delivers(t),
         NEW P, P = req[t].path, NEW f, f = pathToFileName(P),
         NEW k \in 1 .. Len(DataOf(nas', P)), BlockOf(k) \in WriteBlocks(t)
  PROVE  k <= Len(DataOf(cache', f)) /\ DataOf(cache', f)[k] = DataOf(nas', P)[k]
<1> DEFINE o == WriteOffset(t)
           w == WriteBytes(t)
           d == DataOf(nas, P)
           c == DataOf(cache, f)
<1>1. /\ FileInv /\ PathInv /\ UsersInv /\ NamesInv /\ AtStep(req[t])
      /\ req[t].pc = "cache_pwrite" /\ cache_pwrite(t) /\ t \notin bad /\ f = name(t)
  BY DEF SharedInv, ShareInv, Delivers, cache_pwrite, cache_pwriteAs, Pc, name,
         PathInv, PathReqs, Shape
<1>2. /\ f \in Names /\ P \in Paths /\ cache.dir[f] # NoInode /\ nas.dir[P] # NoInode
  <2>1. UsesHandle(req[t])
    BY <1>1 DEF AtStep, UsesHandle
  <2>2. QED  BY <1>1, <2>1, Descriptors
<1>3. /\ d \in Seq(NasBytes) /\ Len(d) \in Nat /\ c \in Seq(ByteSet)
  BY <1>1, <1>2, FileBytes
<1>4. Whole(o, w, WriteBlocks(t)) /\ Like(o, w, d)
  <2>1. Bounded(req[t]) /\ FromNas(req[t], d)
    BY <1>1 DEF FaultReq
  <2>2. QED  BY <1>1, <1>3, <2>1, InHandBytes
<1>5. nas' = nas /\ DataOf(cache', f) = Written(c, o, w)
  BY <1>1, <1>4, CacheCalls DEF Whole
<1>6. k \in Nat \ {0} /\ k <= Len(d) /\ k \in o + 1 .. o + Len(w)
  BY <1>3, <1>4, <1>5 DEF Whole
<1>7. o \in Nat /\ w \in Seq(ByteSet) /\ Zero \in ByteSet
  BY <1>4 DEF Whole, ByteSet
<1>8. w[k - o] = d[k]
  BY <1>4, <1>6 DEF Like
<1> HIDE DEF o, w, d, c
<1>9. k <= Len(DataOf(cache', f)) /\ DataOf(cache', f)[k] = w[k - o]
  <2>1. ByteWritten(DataOf(cache', f), c, o, w, k)
    BY <1>3, <1>5, <1>6, <1>7, WrittenPart
  <2>2. QED  BY <1>6, <2>1 DEF ByteWritten
<1>10. QED  BY <1>5, <1>8, <1>9 DEF d

\* What is written lies between the ends of the request's blocks.
LEMMA BetweenEnds ==
  ASSUME NEW low \in Nat, NEW high \in Nat, NEW off \in Nat, NEW len \in Nat,
         NEW n \in Nat, NEW k \in off + 1 .. off + n,
         n <= len, low <= off, off + len <= high
  PROVE  low < k /\ k <= high
OBVIOUS

\* A byte that is still relied on, and that no whole block covered now, is the
\* byte the file on the NAS had before: what is written by the program is in
\* blocks the request has yet to store, and a gap spoils its rows.
LEMMA NasByteStays ==
  ASSUME SharedInv, FileInv', TypeOK, NoStraddle, NEW t \in Threads, StepOf(t),
         Bounded(req[t]), Ghosts(t), NEW P \in Paths, P = req[t].path,
         nas.dir[P] # NoInode, nas'.dir[P] # NoInode,
         NEW k \in 1 .. Len(DataOf(nas', P)), Claimed(P, k)', Claimed(P, k)
  PROVE  k <= Len(DataOf(nas, P)) /\ DataOf(nas', P)[k] = DataOf(nas, P)[k]
<1> DEFINE d == DataOf(nas, P)
           e == DataOf(nas', P)
           row == <<name(t), BlockOf(k)>>
<1>1. /\ FileInv /\ PathInv /\ UsersInv /\ NamesInv /\ AtStep(req[t])
      /\ req[t].len \in Nat /\ req[t].off \in Nat /\ req[t].val \in NasBytes
  BY DEF SharedInv, ShareInv, PathInv, PathReqs, Shape, FileInv, RequestsInv, Typed,
         LocalTypes, NasBytes
<1>2. d \in Seq(NasBytes) /\ Len(d) \in Nat /\ Zero \in NasBytes
  BY <1>1, FileBytes DEF NasBytes
<1>3. k \in Nat \ {0} /\ k <= Len(e)
  <2>1. Len(e) \in Nat
    BY NextBytes
  <2>2. QED  BY <2>1
<1>4. BlockOf(k) \in Blocks /\ row \in Trusted'
  BY DEF Claimed, Trusted, TypeOK, name
<1>5. CASE e = d
  BY <1>3, <1>5
<1>6. CASE e # d
  <2>1. nas' # nas /\ ~UNCHANGED cfsVars
    BY <1>6 DEF cfsVars
  <2>2. row \notin Widens(t)
    BY <1>4, <2>1 DEF Ghosts
  <2>3. WritesNas(t) \/ CutsNas(t)
    BY <1>6, <2>1, NasStep DEF SameData, DataOf
  <2>4. ~ (Len(d) < k /\ k <= GapEnd(t))
    BY <1>3, <1>4, <2>2, <2>3, GapBlocks
  <2>5. CASE WritesNas(t)
    <3>1. PICK n \in Nat \ {0} : /\ n <= req[t].len
                                 /\ e = Written(d, req[t].off, [j \in 1 .. n |-> req[t].val])
      BY <2>5 DEF WritesNas
    <3> DEFINE w == [j \in 1 .. n |-> req[t].val]
    <3>2. w \in Seq(NasBytes) /\ Len(w) = n
      BY <1>1, SomeBytes
    <3>3. req[t].op = "write" /\ req[t].pc = "write_nas" /\ GapEnd(t) = req[t].off
      BY <2>5 DEF WritesNas, Pc, GapEnd
    <3>4. k \notin req[t].off + 1 .. req[t].off + n
      <4>1. SUFFICES ASSUME k \in req[t].off + 1 .. req[t].off + n PROVE FALSE
        OBVIOUS
      <4>2. PICK lo \in Nat, hi \in Nat :
              /\ RequestBlocks(req[t]) = lo .. hi
              /\ BS * lo <= req[t].off /\ req[t].off + req[t].len <= BS * (hi + 1)
        BY <3>3, PageSpan DEF Bounded
      <4>3. BS * lo < k /\ k <= BS * (hi + 1)
        <5>1. BS * lo \in Nat /\ BS * (hi + 1) \in Nat
          BY BlockSize
        <5>2. req[t].off \in Nat /\ req[t].len \in Nat /\ n \in Nat /\ n <= req[t].len
          BY <1>1, <3>1
        <5> DEFINE low  == BS * lo
                   high == BS * (hi + 1)
                   o    == req[t].off
                   m    == req[t].len
        <5>3. /\ low \in Nat /\ high \in Nat /\ o \in Nat /\ m \in Nat
              /\ k \in o + 1 .. o + n /\ low <= o /\ o + m <= high
              /\ n \in Nat /\ n <= m
          BY <4>1, <4>2, <5>1, <5>2
        <5> HIDE DEF low, high, o, m
        <5>4. low < k /\ k <= high
          BY ONLY <5>3, BetweenEnds
        <5>5. QED  BY <5>4 DEF low, high
      <4>4. BlockOf(k) \in RequestBlocks(req[t])
        BY <1>3, <4>2, <4>3, InBlocks
      <4>5. WriteSteps(t)
        BY <2>1, <3>3, OpSteps DEF StepsOf
      <4>6. Ahead(req'[t], req[t]) /\ req'[t].pc # "write_nas"
        BY <3>3, <4>5, WriteGoesOn DEF Pc
      <4>7. Halved(req'[t], P, BlockOf(k))
        BY <3>3, <4>4, <4>6 DEF Halved, Ahead, RequestBlocks
      <4>8. QED  BY <4>7 DEF Claimed
    <3> HIDE DEF w
    <3>5. /\ k <= Len(d) => k <= Len(e) /\ e[k] = d[k]
          /\ k <= Len(d) \/ k <= req[t].off + n
      <4> DEFINE o == req[t].off
      <4>1. e = Written(d, o, w) /\ o \in Nat /\ k \notin o + 1 .. o + Len(w)
        BY <1>1, <3>1, <3>2, <3>4 DEF w
      <4> HIDE DEF d, e, o
      <4>2. /\ k <= Len(d) => k <= Len(e) /\ e[k] = d[k]
            /\ k <= Len(e) => k <= Len(d) \/ k <= o + Len(w)
        <5>1. ByteWritten(e, d, o, w, k)
          BY <1>2, <1>3, <3>2, <4>1, WrittenPart
        <5>2. QED  BY <4>1, <5>1 DEF ByteWritten
      <4>3. QED  BY <1>3, <3>2, <4>2 DEF o
    <3>6. QED  BY <1>1, <1>2, <1>3, <2>4, <3>1, <3>3, <3>4, <3>5
  <2>6. CASE CutsNas(t)
    <3>1. GapEnd(t) = req[t].len /\ e = Resized(d, req[t].len)
      BY <2>6 DEF CutsNas, trunc_nas, Pc, GapEnd
    <3> HIDE DEF d, e
    <3>2. Shortened(e, d, req[t].len)
      BY <1>1, <1>2, <3>1, ResizedBytes
    <3>3. QED  BY <1>1, <1>2, <1>3, <2>4, <3>1, <3>2 DEF Shortened, d, e
  <2>7. QED  BY <2>3, <2>5, <2>6
<1>7. QED  BY <1>5, <1>6 DEF d, e

\* Its copy in the cache stays as well, unless the step stores that block.
LEMMA CacheByteStays ==
  ASSUME SharedInv, FileInv', TypeOK, NoStraddle, NEW t \in Threads, StepOf(t),
         Bounded(req[t]), NEW P \in Paths, P = req[t].path,
         NEW f, f = pathToFileName(P),
         cache.dir[f] # NoInode, cache'.dir[f] # NoInode,
         NEW k \in Nat \ {0}, ~Severed(req'[t], P, k),
         ~ (Pc(t, "cache_pwrite") /\ BlockOf(k) \in WriteBlocks(t)),
         k <= Len(DataOf(cache, f))
  PROVE  k <= Len(DataOf(cache', f)) /\ DataOf(cache', f)[k] = DataOf(cache, f)[k]
<1> DEFINE c == DataOf(cache, f)
           g == DataOf(cache', f)
<1>1. /\ FileInv /\ PathInv /\ UsersInv /\ NamesInv /\ AtStep(req[t])
      /\ DOMAIN req[t] = Fields /\ DOMAIN req = Threads
      /\ req[t].len \in Nat /\ req[t].off \in Nat /\ f = name(t)
  BY DEF SharedInv, ShareInv, PathInv, PathReqs, Shape, FileInv, RequestsInv, Typed,
         LocalTypes, name
<1>2. c \in Seq(ByteSet) /\ Len(c) \in Nat /\ Zero \in ByteSet
  <2>1. f \in Names
    BY NameType
  <2>2. c \in Seq(ByteSet)
    BY <1>1, <2>1, FileBytes
  <2> HIDE DEF c
  <2>3. QED  BY <2>2 DEF ByteSet
<1>3. CASE g = c
  BY <1>3
<1>4. CASE FillsCache(t)
  <2>1. PICK w \in Seq(ByteSet) : /\ Len(w) <= Len(WriteBytes(t))
                                  /\ g = Written(c, WriteOffset(t), w)
    BY <1>1, <1>4 DEF FillsCache
  <2>2. Pc(t, "cache_pwrite") /\ req[t].pc = "cache_pwrite"
    BY <1>4 DEF FillsCache, Pc
  <2>3. Whole(WriteOffset(t), WriteBytes(t), WriteBlocks(t))
    BY <2>2, InHandBytes
  <2>4. /\ WriteOffset(t) \in Nat /\ Len(WriteBytes(t)) \in Nat
        /\ k \notin WriteOffset(t) + 1 .. WriteOffset(t) + Len(WriteBytes(t))
    BY <2>2, <2>3 DEF Whole
  <2>5. k \notin WriteOffset(t) + 1 .. WriteOffset(t) + Len(w)
    BY <2>1, <2>4
  <2> DEFINE o == WriteOffset(t)
  <2>6. k <= Len(c) /\ o \in Nat /\ g = Written(c, o, w) /\ k \notin o + 1 .. o + Len(w)
    BY <2>1, <2>4, <2>5
  <2> HIDE DEF c, g, o
  <2>7. k <= Len(g) /\ g[k] = c[k]
    <3>1. ByteWritten(g, c, o, w, k)
      BY <1>2, <2>6, WrittenPart
    <3>2. QED  BY <2>6, <3>1 DEF ByteWritten
  <2>8. QED  BY <2>7 DEF c, g
<1>5. CASE CutsCache(t)
  <2>1. g = Resized(c, req[t].len)
    BY <1>1, <1>5 DEF CutsCache
  <2>2. req'[t] = [req[t] EXCEPT !.pc = "trunc_nas"]
    BY <1>1, <1>5 DEF CutsCache, trunc_cache, Go
  <2>3. req'[t].pc = "trunc_nas" /\ req'[t].path = P /\ req'[t].len = req[t].len
    BY <1>1, <2>2 DEF Fields, NoReq
  <2>4. k <= req[t].len
    BY <1>1, <2>3 DEF Severed
  <2> HIDE DEF c, g
  <2>5. Shortened(g, c, req[t].len)
    BY <1>1, <1>2, <2>1, ResizedBytes
  <2>6. k <= Len(c)
    BY DEF c
  <2>7. k <= Len(g) /\ g[k] = c[k]
    BY <1>1, <1>2, <2>4, <2>5, <2>6 DEF Shortened
  <2>8. QED  BY <2>7 DEF c, g
<1>6. g = c \/ FillsCache(t) \/ CutsCache(t)
  BY <1>1, CacheStep DEF SameData, DataOf
<1>7. QED  BY <1>3, <1>4, <1>5, <1>6 DEF c, g

\* A step keeps its file and the cache file alike wherever that is claimed.
LEMMA SameStays ==
  ASSUME SharedInv, FileInv', TypeOK, NoStraddle, NEW t \in Threads, StepOf(t),
         FaultReq(t), Ghosts(t), NEW P \in Paths, P = req[t].path,
         NEW f, f = pathToFileName(P),
         nas.dir[P] # NoInode, nas'.dir[P] # NoInode,
         cache.dir[f] # NoInode, cache'.dir[f] # NoInode, Same(P)
  PROVE  Same(P)'
<1> SUFFICES ASSUME NEW k \in 1 .. Len(DataOf(nas', P)), Claimed(P, k)'
             PROVE  /\ k <= Len(DataOf(cache', f))
                    /\ DataOf(cache', f)[k] = DataOf(nas', P)[k]
  BY DEF Same
<1>1. Bounded(req[t])
  BY DEF FaultReq
<1>2. CASE Delivers(t) /\ BlockOf(k) \in WriteBlocks(t)
  BY <1>2, SameDelivered
<1>3. CASE /\ Claimed(P, k)
           /\ ~ (Pc(t, "cache_pwrite") /\ BlockOf(k) \in WriteBlocks(t))
  <2>1. k <= Len(DataOf(nas, P)) /\ DataOf(nas', P)[k] = DataOf(nas, P)[k]
    BY <1>1, <1>3, NasByteStays
  <2>2. k \in Nat \ {0} /\ k \in 1 .. Len(DataOf(nas, P))
    <3>1. Len(DataOf(nas', P)) \in Nat
      BY NextBytes
    <3>2. Len(DataOf(nas, P)) \in Nat
      BY FileBytes DEF SharedInv
    <3>3. QED  BY <2>1, <3>1, <3>2
  <2>3. k <= Len(DataOf(cache, f)) /\ DataOf(cache, f)[k] = DataOf(nas, P)[k]
    BY <1>3, <2>2 DEF Same
  <2>4. ~Severed(req'[t], P, k)
    BY DEF Claimed
  <2>5. k <= Len(DataOf(cache', f)) /\ DataOf(cache', f)[k] = DataOf(cache, f)[k]
    BY <1>1, <1>3, <2>2, <2>3, <2>4, CacheByteStays
  <2>6. QED  BY <2>1, <2>3, <2>5
<1>4. QED  BY <1>1, <1>2, <1>3, OwnClaims

\* Where no row can be relied on the two files need not agree.
LEMMA GoneSame ==
  ASSUME TypeOK', NEW p, Gone(pathToFileName(p))'
  PROVE  Same(p)'
BY DEF Gone, Same, Claimed, Trusted, TypeOK

\* Rows come back only for the blocks in hand.
LEMMA GoneStays ==
  ASSUME SharedInv, NEW t \in Threads, Ghosts(t), NEW f, Gone(f),
         Pc(t, "cache_pwrite") => f # name(t)
  PROVE  Gone(f)'
<1>1. \A b : <<f, b>> \in InHand(t) => f = name(t)
  BY DEF InHand
<1>2. QED  BY <1>1 DEF Gone, Ghosts

\* A step of a thread that looks at the times of the files, unless it fails.
LEMMA LooksAtTimes ==
  ASSUME NEW t \in Threads, Daemon(t), ~ UNCHANGED cfsVars
  PROVE  /\ Pc(t, "open_stat") => open_stat(t)
         /\ Pc(t, "open_date") => open_date(t)
<1>2. SUFFICES ASSUME Pc(t, "open_stat") \/ Pc(t, "open_date")
               PROVE  open_stat(t) \/ open_date(t)
  BY DEF open_stat, open_statAs, open_date, open_dateAs, Pc
<1>3. ~cfs_mknod(t) /\ ~cfs_read(t) /\ ~cfs_write(t)
  BY <1>2 DEF cfs_mknod, cfs_read, cfs_write, read_check, read_checkAs, read_all,
       read_allAs, read_block, read_blockAs, read_done, write_nas, write_nasAs,
       write_stat, write_statAs, write_read, write_readAs, Pc
<1>4. ~cfs_cacheWrite(t) /\ ~cfs_unlink(t) /\ ~cfs_truncate(t) /\ ~cfs_release(t)
  BY <1>2 DEF cfs_cacheWrite, cache_wait, cache_record, cache_pwrite, cache_pwriteAs,
       cfs_unlink, unlink_meta, unlink_cache, unlink_nas, cfs_truncate, trunc_cache,
       trunc_nas, cfs_release, release_dig, release_close, Pc
<1>5. ~cfs_rename(t) /\ ~cfs_link(t) /\ ~cfs_utime(t)
  BY <1>2 DEF cfs_rename, rename_cache, rename_nas, cfs_link, link_cache, link_nas,
       cfs_utime, utime_cache, utime_nas, Pc
<1>6. cfs_open(t)
  BY <1>3, <1>4, <1>5 DEF Daemon
<1>7. QED
  BY <1>2, <1>6 DEF cfs_open, open_nas, open_present, open_presentAs, open_unlink,
       open_create, open_mknod, open_cache, Pc

\* A file that is behind the NAS stays so until it is opened: what the step of
\* the open, of the unlink or of the mknod that waits for it can do.
OutdatedGoesOn(t, m) ==
  /\ nas' = nas /\ cache' = cache /\ handles' = handles
  /\ req'[t] = NoReq \/ Waiting(req'[t], m)

\* cfs_open of a file that is behind the NAS drops its rows (cachefs.c:453), or
\* does not come so far.
LEMMA OutdatedOpen ==
  ASSUME SharedInv, ForeignKey, NEW t \in Threads, FaultReq(t), Ghosts(t), StepOf(t),
         ~ UNCHANGED cfsVars, req[t].op = "open",
         NEW P \in Paths, P = req[t].path, Outdated(P), NEW f, f = pathToFileName(P),
         nas.dir[P] # NoInode, cache.dir[f] # NoInode, cache'.dir[f] # NoInode
  PROVE  OutdatedGoesOn(t, TimeOf(nas, P)) \/ Gone(f)'
<1> DEFINE m == TimeOf(nas, P)
<1>1. /\ FileInv /\ PathInv /\ AtStep(req[t]) /\ DOMAIN req[t] = Fields
      /\ DOMAIN req = Threads /\ {"pc", "num", "op", "ino", "present"} \subseteq Fields
  BY DEF SharedInv, PathInv, PathReqs, Shape, Fields, NoReq
<1>2. f \in Names /\ f = name(t)
  BY NameType DEF name
<1>3. Behind(TimeOf(cache, f), m) /\ Waiting(req[t], m)
  BY <1>2 DEF Outdated
<1>4. req[t].pc \in {"open_nas", "open_present", "open_stat", "open_unlink", "open_date"}
  BY <1>1, <1>3 DEF Waiting, AtStep
<1>5. OpenSteps(t)
  BY OpSteps DEF StepsOf
<1>6. CASE Pc(t, "open_nas")
  <2>1. open_nas(t)
    BY <1>5, <1>6 DEF OpenSteps, cfs_open, open_nas, open_present, open_presentAs,
         open_stat, open_statAs, open_date, open_dateAs, open_unlink, open_create,
         open_mknod, open_cache, call_fails, Follows, Ends, Pc
  <2>2. PICK i : req'[t] = [req[t] EXCEPT !.ino = i, !.pc = "open_present"]
    BY <1>1, <2>1 DEF open_nas, Go
  <2>3. req'[t].pc = "open_present"
    BY <1>1, <2>2
  <2>4. QED  BY <2>1, <2>3 DEF open_nas, NoFile, Waiting, OutdatedGoesOn
<1>7. CASE Pc(t, "open_present")
  <2>1. \E present : open_presentAs(t, present)
    BY <1>5, <1>7 DEF OpenSteps, cfs_open, open_nas, open_present, open_presentAs,
         open_stat, open_statAs, open_date, open_dateAs, open_unlink, open_create,
         open_mknod, open_cache, call_fails, Follows, Ends, Pc
  <2>2. PICK present : open_presentAs(t, present)
    BY <2>1
  <2>3. \/ req'[t] = [req[t] EXCEPT !.pc = "open_unlink"]
        \/ req'[t] = NoReq
        \/ req'[t] = [req[t] EXCEPT !.pc = "open_stat", !.present = present]
    BY <1>1, <2>2 DEF open_presentAs, Go, Return
  <2>4. req'[t] = NoReq \/ req'[t].pc \in {"open_unlink", "open_stat"}
    BY <1>1, <2>3
  <2>5. QED  BY <2>2, <2>4 DEF open_presentAs, NoFile, Waiting, OutdatedGoesOn
<1>8. ASSUME CallGoesWrong(t), Pc(t, "open_stat") \/ Pc(t, "open_date")
      PROVE  Gone(f)'
  <2>1. ~UpToDate(P)
    <3>1. /\ TimeOf(cache, f) \in Nat /\ m \in Nat
      BY <1>1, <1>2, CacheFSAssumption DEF FileInv, DirsInv, FileSystem, TimeOf
    <3>2. TimeOf(cache, f) < m
      BY <1>3 DEF Behind
    <3>3. ~ (TimeOf(cache, f) >= m)
      BY <3>1, <3>2
    <3>4. QED  BY <3>3 DEF UpToDate, TimeOf
  <2>2. \A b \in Blocks : <<name(t), b>> \notin Trusted'
    BY <1>8, <2>1, FailGhosts
  <2>3. QED  BY <1>2, <2>2 DEF Gone
<1>9. CASE Works(t) /\ Daemon(t) /\ Pc(t, "open_stat")
  <2>1. open_stat(t)
    BY <1>9, LooksAtTimes
  <2>2. NasTimes(P) = {m}
    BY DEF NasTimes, TimeOf
  <2> HIDE DEF m
  <2>3. \E k \in NasTimes(P) : Go(t, [req[t] EXCEPT !.num = k,
                      !.pc = IF req[t].present THEN "open_date" ELSE "open_create"])
    BY <2>1 DEF open_stat, open_statAs
  <2>4. req'[t] = [req[t] EXCEPT !.num = m,
                      !.pc = IF req[t].present THEN "open_date" ELSE "open_create"]
    BY <1>1, <2>2, <2>3 DEF Go
  <2>5. CASE req[t].present
    <3>1. req'[t].pc = "open_date" /\ req'[t].num = m
      BY <1>1, <2>4, <2>5
    <3>2. OutdatedGoesOn(t, m)
      BY <2>1, <3>1 DEF open_stat, open_statAs, NoFile, Waiting, OutdatedGoesOn
    <3>3. QED  BY <3>2 DEF m
  <2>6. CASE ~req[t].present
    <3>1. f \notin files
      BY <1>2, <1>9, <2>6 DEF FaultReq
    <3>2. blocks' = blocks
      BY <2>1 DEF open_stat, open_statAs, NoSQL, metaVars
    <3>3. \A b : <<f, b>> \notin blocks'
      BY <3>1, <3>2 DEF ForeignKey
    <3>4. QED  BY <3>3 DEF Gone, Trusted
  <2>7. QED  BY <2>5, <2>6
<1>10. CASE Works(t) /\ Daemon(t) /\ Pc(t, "open_date")
  <2>1. open_date(t)
    BY <1>10, LooksAtTimes
  <2>2. req[t].num = m
    BY <1>1, <1>3, <1>10 DEF Waiting, Pc, AtStep
  <2>3. CacheTimes(f) = {TimeOf(cache, f)}
    BY DEF CacheTimes, TimeOf
  <2> HIDE DEF m
  <2>4. \E k \in CacheTimes(f) :
           \/ Behind(k, req[t].num) /\ Go(t, [req[t] EXCEPT !.pc = "open_unlink"])
           \/ ~Behind(k, req[t].num)
    BY <1>2, <2>1 DEF open_date, open_dateAs
  <2>5. Go(t, [req[t] EXCEPT !.pc = "open_unlink"])
    BY <1>3, <2>2, <2>3, <2>4 DEF m
  <2>6. req'[t].pc = "open_unlink"
    BY <1>1, <2>5 DEF Go
  <2>7. OutdatedGoesOn(t, m)
    BY <2>1, <2>6 DEF open_date, open_dateAs, NoFile, Waiting, OutdatedGoesOn
  <2>8. QED  BY <2>7 DEF m
<1>11. CASE Pc(t, "open_unlink")
  <2>1. ~open_unlink(t)
    <3>1. Unlink(cache, f).dir[f] = NoInode
      BY <1>1, <1>2 DEF Unlink, PathInv, DirInv
    <3>2. QED  BY <1>2, <3>1 DEF open_unlink
  <2>2. call_fails(t)
    BY <1>5, <1>11, <2>1 DEF OpenSteps, cfs_open, open_nas, open_present, open_presentAs,
         open_stat, open_statAs, open_date, open_dateAs, open_create, open_mknod,
         open_cache, Pc
  <2>3. Gone(f)
    BY <1>2, <1>11, <2>2 DEF FaultReq, call_fails, Pc
  <2>4. QED  BY <1>11, <2>3, GoneStays DEF Pc
<1>12. ~StatementGoesWrong(t)
  BY DEF StatementGoesWrong, SQLFails
<1>13. QED
  BY <1>4, <1>6, <1>7, <1>8, <1>9, <1>10, <1>11, <1>12 DEF StepOf, Pc

\* mknod and unlink of a file that is behind leave the times alone.
LEMMA OutdatedWaits ==
  ASSUME SharedInv, NEW t \in Threads, StepOf(t), req[t].op \in {"mknod", "unlink"},
         NEW P \in Paths, P = req[t].path, NEW f, f = pathToFileName(P), NEW m,
         nas.dir[P] # NoInode, nas'.dir[P] # NoInode, cache'.dir[f] # NoInode
  PROVE  OutdatedGoesOn(t, m) \/ UNCHANGED cfsVars
<1>1. /\ PathInv /\ AtStep(req[t]) /\ DOMAIN req[t] = Fields
      /\ DOMAIN req = Threads /\ {"pc", "op"} \subseteq Fields
      /\ f \in Names /\ f = name(t)
  BY NameType DEF SharedInv, PathInv, PathReqs, Shape, Fields, NoReq, name
<1> SUFFICES ASSUME ~ UNCHANGED cfsVars  PROVE OutdatedGoesOn(t, m)
  OBVIOUS
<1>2. \/ req[t].op = "mknod" /\ (cfs_mknod(t) \/ call_fails(t))
      \/ req[t].op = "unlink" /\ (cfs_unlink(t) \/ call_fails(t))
  BY OpSteps DEF StepsOf
<1>3. CASE cfs_mknod(t)
  <2>1. nas' = nas
    BY <1>3 DEF cfs_mknod, Create
  <2>2. req'[t] = NoReq
    BY <1>1, <1>3 DEF cfs_mknod, Return, Go
  <2>3. QED  BY <1>3, <2>1, <2>2 DEF cfs_mknod, OutdatedGoesOn
<1>4. CASE cfs_unlink(t)
  <2>1. ~unlink_cache(t) /\ ~unlink_nas(t)
    <3>1. Unlink(cache, f).dir[f] = NoInode /\ Unlink(nas, P).dir[P] = NoInode
      BY <1>1 DEF Unlink, PathInv, DirInv
    <3>2. QED  BY <1>1, <3>1 DEF unlink_cache, unlink_nas
  <2>2. unlink_meta(t)
    BY <1>4, <2>1 DEF cfs_unlink
  <2>3. req[t].op = "unlink"
    BY <1>1, <2>2 DEF unlink_meta, Pc, AtStep
  <2>4. req'[t] = [req[t] EXCEPT !.pc = "unlink_cache"]
    BY <1>1, <2>2 DEF unlink_meta, Go
  <2>5. req'[t].op = "unlink"
    BY <1>1, <2>3, <2>4
  <2>6. QED  BY <2>2, <2>5 DEF unlink_meta, NoFile, Waiting, OutdatedGoesOn
<1>5. CASE call_fails(t)
  <2>1. PICK pc : req'[t] = NoReq \/ req'[t] = [req[t] EXCEPT !.pc = pc]
    BY <1>1, <1>5 DEF call_fails, AfterUnlink, Return, Go
  <2>2. req'[t] = NoReq \/ req'[t].op = req[t].op
    BY <1>1, <2>1
  <2>3. QED  BY <1>5, <2>2 DEF call_fails, NoFile, Waiting, OutdatedGoesOn
<1>6. QED  BY <1>2, <1>3, <1>4, <1>5

\* A file that is behind the NAS stays so until its rows are gone.
LEMMA OutdatedStays ==
  ASSUME SharedInv, ForeignKey, NEW t \in Threads, FaultReq(t), Ghosts(t), StepOf(t),
         NEW P \in Paths, P = req[t].path, Outdated(P), NEW f, f = pathToFileName(P),
         nas.dir[P] # NoInode, nas'.dir[P] # NoInode,
         cache.dir[f] # NoInode, cache'.dir[f] # NoInode
  PROVE  Outdated(P)' \/ Gone(f)'
<1> DEFINE m == TimeOf(nas, P)
<1>1. AtStep(req[t]) /\ Waiting(req[t], m)
  BY DEF SharedInv, PathInv, PathReqs, Shape, Outdated
<1>2. req[t].op \in {"mknod", "unlink", "open"}
  BY <1>1 DEF Waiting, AtStep
<1>3. OutdatedGoesOn(t, m) \/ UNCHANGED cfsVars \/ Gone(f)'
  BY <1>2, OutdatedOpen, OutdatedWaits
<1>4. CASE UNCHANGED cfsVars
  BY <1>4 DEF cfsVars, Outdated, TimeOf, Waiting
<1>5. CASE OutdatedGoesOn(t, m)
  <2>1. Moved(t)
    BY StepMoves
  <2>2. P # NoPath /\ NoReq.path = NoPath
    BY CacheFSAssumption DEF NoReq
  <2>3. \A u \in Threads : req[u].path = P => Waiting(req[u], m)
    BY DEF Outdated
  <2>4. \A u \in Threads : req'[u].path = P => Waiting(req'[u], m)
    BY <1>5, <2>1, <2>2, <2>3 DEF Moved, OutdatedGoesOn
  <2>5. \A h \in Handles : handles'[h].path # P
    BY <1>5 DEF Outdated, OutdatedGoesOn
  <2>6. TimeOf(nas', P) = m /\ TimeOf(cache', f) = TimeOf(cache, f)
    BY <1>5 DEF OutdatedGoesOn
  <2>7. Behind(TimeOf(cache, f), m)
    BY DEF Outdated
  <2> HIDE DEF m
  <2>8. Behind(TimeOf(cache', pathToFileName(P)), TimeOf(nas', P))
    BY <2>6, <2>7
  <2>9. \A u \in Threads : req'[u].path = P => Waiting(req'[u], TimeOf(nas', P))
    BY <2>4, <2>6
  <2>10. QED  BY <2>5, <2>8, <2>9 DEF Outdated
<1>6. QED  BY <1>3, <1>4, <1>5

\* What the invariant says of a file is kept by the threads that serve it, ...
LEMMA OwnFaultFile ==
  ASSUME SharedInv, FileInv', TypeOK, TypeOK', ForeignKey, NoStraddle,
         NEW t \in Threads, StepOf(t), FaultReq(t), Ghosts(t),
         NEW P \in Paths, P = req[t].path, FaultFile(P),
         cache.dir[pathToFileName(P)] = NoInode => Gone(pathToFileName(P))
  PROVE  FaultFile(P)'
<1> DEFINE f == pathToFileName(P)
<1> SUFFICES ASSUME nas'.dir[P] # NoInode, cache'.dir[f] # NoInode
             PROVE  Same(P)' \/ Outdated(P)'
  BY DEF FaultFile
<1>1. CASE nas.dir[P] = NoInode
  <2>1. DataOf(nas', P) = <<>>
    BY <1>1, NasStep DEF WritesNas, CutsNas, SameData
  <2>2. Len(DataOf(nas', P)) = 0
    BY <2>1
  <2>3. QED  BY <2>2 DEF Same
<1>2. CASE cache.dir[f] = NoInode
  <2>1. f = name(t)
    BY DEF name
  <2>2. ~Pc(t, "cache_pwrite")
    <3>1. SUFFICES ASSUME Pc(t, "cache_pwrite") PROVE FALSE
      OBVIOUS
    <3>2. FileInv /\ PathInv /\ UsersInv /\ AtStep(req[t])
      BY DEF SharedInv, ShareInv, PathInv, PathReqs, Shape
    <3>3. UsesHandle(req[t])
      BY <3>1, <3>2 DEF AtStep, Pc, UsesHandle
    <3>4. QED  BY <1>2, <2>1, <3>2, <3>3, Descriptors
  <2>3. Gone(f)'
    BY <1>2, <2>2, GoneStays
  <2>4. QED  BY <2>3, GoneSame
<1>3. CASE nas.dir[P] # NoInode /\ cache.dir[f] # NoInode
  <2>1. CASE Same(P)
    BY <1>3, <2>1, SameStays
  <2>2. CASE Outdated(P)
    <3>1. Outdated(P)' \/ Gone(f)'
      BY <1>3, <2>2, OutdatedStays
    <3>2. QED  BY <3>1, GoneSame
  <2>3. QED  BY <1>3, <2>1, <2>2 DEF FaultFile
<1>4. QED  BY <1>1, <1>2, <1>3

---------------------------------------------------------------------------
(***************************************************************************)
(* The other files, and the other threads.                                 *)
(***************************************************************************)
\* A step that changes more than the metadata is one of a callback.
LEMMA StepOnPath ==
  ASSUME SharedInv, NEW t \in Threads, StepOf(t),
         ~ UNCHANGED cfsVars \/ Pc(t, "cache_pwrite")
  PROVE  req[t].path \in Paths /\ name(t) \in Names /\ req[t].op # "none"
<1>1. PathInv /\ AtStep(req[t])
  BY DEF SharedInv, PathInv, PathReqs, Shape
<1>2. req[t].op # "none"
  <2>1. CASE ~ UNCHANGED cfsVars
    BY <2>1, OpSteps DEF StepsOf
  <2>2. CASE Pc(t, "cache_pwrite")
    BY <1>1, <2>2 DEF AtStep, Pc
  <2>3. QED  BY <2>1, <2>2
<1>3. req[t].pc # "idle"
  BY <1>1, <1>2 DEF AtStep
<1>4. QED  BY <1>1, <1>2, <1>3, InCallback

\* A step leaves the other files alone, on the NAS, in the cache and in the tables.
LEMMA OtherName ==
  ASSUME SharedInv, NoCollision, NEW t \in Threads, StepOf(t), Ghosts(t),
         NEW p \in Paths \ {req[t].path}, NEW f, f = pathToFileName(p)
  PROVE  /\ SameFile(nas, nas', p) /\ SameFile(cache, cache', f)
         /\ \A b : <<f, b>> \in Trusted' => <<f, b>> \in Trusted
<1>1. FileInv /\ PathInv /\ f \in Names
  BY NameType DEF SharedInv
<1>2. ~ UNCHANGED cfsVars \/ Pc(t, "cache_pwrite") => f # name(t)
  BY StepOnPath DEF NoCollision, name
<1>3. \A b : <<f, b>> \in InHand(t) => f = name(t)
  BY DEF InHand
<1>4. \A b : <<f, b>> \in Trusted' => <<f, b>> \in Trusted
  BY <1>2, <1>3 DEF Ghosts
<1>5. CASE UNCHANGED cfsVars
  BY <1>4, <1>5 DEF cfsVars, SameFile
<1>6. CASE ~ UNCHANGED cfsVars
  <2>1. OnlyFile(nas, nas', req[t].path) /\ OnlyFile(cache, cache', name(t))
    BY NasStep, CacheStep
  <2>2. SameFile(nas, nas', p) /\ SameFile(cache, cache', f)
    BY <1>1, <1>2, <1>6, <2>1 DEF OnlyFile, PathInv, DirInv
  <2>3. QED  BY <1>4, <2>2
<1>7. QED  BY <1>5, <1>6

\* A step opens or closes its own file only.
LEMMA StepHandles ==
  ASSUME SharedInv, NEW t \in Threads, StepOf(t)
  PROVE  \A h \in Handles : \/ handles'[h] = handles[h]
                            \/ handles'[h].path \in {req[t].path, NoPath}
<1>1. FileInv /\ PathInv
  BY DEF SharedInv
<1>2. CASE Daemon(t)
  BY <1>1, <1>2, HandleView
<1>3. CASE CallFails(t)
  BY <1>3, FailView
<1>4. CASE SQLFails(t)
  BY <1>4 DEF SQLFails, cfsVars
<1>5. QED  BY <1>2, <1>3, <1>4, StepMoves

\* ... and by those that serve another.
LEMMA OtherFaultFiles ==
  ASSUME SharedInv, NoCollision, NEW t \in Threads, StepOf(t), Ghosts(t),
         NEW p \in Paths \ {req[t].path}, FaultFile(p)
  PROVE  FaultFile(p)'
<1> DEFINE f == pathToFileName(p)
<1>1. /\ SameFile(nas, nas', p) /\ SameFile(cache, cache', f)
      /\ \A b : <<f, b>> \in Trusted' => <<f, b>> \in Trusted
  BY OtherName
<1>2. Moved(t)
  BY StepMoves
<1>3. p # NoPath /\ NoReq.path = NoPath
  BY CacheFSAssumption DEF NoReq
<1>4. \A u \in Threads : req'[u] # req[u] => req[u].path # p /\ req'[u].path # p
  BY <1>2, <1>3 DEF Moved, Kept
<1> SUFFICES ASSUME nas'.dir[p] # NoInode, cache'.dir[f] # NoInode
             PROVE  Same(p)' \/ Outdated(p)'
  BY DEF FaultFile
<1>5. /\ nas.dir[p] # NoInode /\ cache.dir[f] # NoInode
      /\ DataOf(nas', p) = DataOf(nas, p) /\ TimeOf(nas', p) = TimeOf(nas, p)
      /\ DataOf(cache', f) = DataOf(cache, f) /\ TimeOf(cache', f) = TimeOf(cache, f)
  BY <1>1 DEF SameFile
<1>6. CASE Same(p)
  <2>1. \A k : Claimed(p, k)' => Claimed(p, k)
    BY <1>1, <1>4 DEF Claimed, Halved, Severed
  <2>2. QED  BY <1>5, <1>6, <2>1 DEF Same
<1>7. CASE Outdated(p)
  <2>1. \A h \in Handles : handles'[h].path # p
    BY <1>3, <1>7, StepHandles DEF Outdated
  <2>2. \A u \in Threads : req'[u].path = p => Waiting(req'[u], TimeOf(nas, p))
    BY <1>4, <1>7 DEF Outdated
  <2>3. QED  BY <1>5, <1>7, <2>1, <2>2 DEF Outdated
<1>8. QED  BY <1>5, <1>6, <1>7 DEF FaultFile

\* A cache file that is not there has no row to rely on: it goes after its rows.
LEMMA MissingGone ==
  ASSUME SharedInv, NoCollision, NEW t \in Threads, StepOf(t), FaultReq(t), Ghosts(t),
         NEW f \in Names, cache.dir[f] = NoInode => Gone(f), cache'.dir[f] = NoInode
  PROVE  Gone(f)'
<1>1. /\ FileInv /\ PathInv /\ UsersInv /\ AtStep(req[t])
  BY DEF SharedInv, ShareInv, PathInv, PathReqs, Shape
<1>2. CASE cache.dir[f] = NoInode
  <2>1. Pc(t, "cache_pwrite") => f # name(t)
    <3>1. Pc(t, "cache_pwrite") => UsesHandle(req[t])
      BY <1>1 DEF AtStep, Pc, UsesHandle
    <3>2. QED  BY <1>1, <1>2, <3>1, Descriptors
  <2>2. QED  BY <1>2, <2>1, GoneStays
<1>3. CASE cache.dir[f] # NoInode
  <2>1. f = name(t)
    BY <1>1, <1>3, CacheStep DEF OnlyFile, SameFile, PathInv, DirInv
  <2>2. open_unlink(t) \/ unlink_cache(t)
    BY <1>3, <2>1, CacheStep DEF FillsCache, CutsCache, SameData
  <2>3. Gone(f) /\ ~Pc(t, "cache_pwrite")
    BY <2>1, <2>2 DEF FaultReq, open_unlink, unlink_cache, Pc
  <2>4. QED  BY <2>3, GoneStays
<1>4. QED  BY <1>2, <1>3

\* The block a reader has in hand is of another page than what is written, and
\* a gap that passes through it marks the reader.
LEMMA ReaderKeepsByte ==
  ASSUME SharedInv, FileInv', NoStraddle, NEW t \in Threads, StepOf(t),
         Bounded(req[t]), Ghosts(t), NEW u \in Threads \ {t}, u \notin bad',
         req[u].op = "read", req[u].pc \in {"cache_record", "cache_pwrite"},
         Bounded(req[u]), NEW P, P = req[t].path, req[u].path = P,
         NEW k \in 1 .. Len(DataOf(nas', P)), BlockOf(k) = First(req[u].todo)
  PROVE  k <= Len(DataOf(nas, P)) /\ DataOf(nas', P)[k] = DataOf(nas, P)[k]
<1> DEFINE d == DataOf(nas, P)
           e == DataOf(nas', P)
           b == BlockOf(k)
<1>1. /\ FileInv /\ PathInv /\ UsersInv /\ NamesInv /\ LockInv /\ AtStep(req[t])
      /\ req[t].len \in Nat /\ req[t].off \in Nat /\ req[t].val \in NasBytes
      /\ req[u].len \in Nat \ {0} /\ req[u].off \in Nat
      /\ Apart(req[t], req[u])
  <2>1. /\ \A x \in Threads : LocalTypes(req[x])
        /\ FileInv /\ PathInv /\ UsersInv /\ NamesInv /\ LockInv /\ AtStep(req[t])
    BY DEF SharedInv, ShareInv, PathInv, PathReqs, Shape, FileInv, RequestsInv, Typed
  <2>2. Apart(req[t], req[u])
    BY DEF SharedInv, ShareInv, ApartInv
  <2>3. req[u].len \in Nat \ {0}
    BY DEF Bounded
  <2>4. QED  BY <2>1, <2>2, <2>3 DEF LocalTypes, NasBytes
<1>2. UsesHandle(req[u]) /\ P \in Paths /\ nas.dir[P] # NoInode
  <2>1. UsesHandle(req[u])
    BY DEF UsesHandle
  <2>2. QED  BY <1>1, <2>1, Descriptors
<1>3. d \in Seq(NasBytes) /\ Len(d) \in Nat /\ Zero \in NasBytes
  BY <1>1, <1>2, FileBytes DEF NasBytes
<1>4. b \in req[u].todo /\ b \in Blocks /\ b \in RequestBlocks(req[u])
  <2>1. Locals(req[u]) /\ req[u].pc \in Covering
    BY <1>1 DEF FileInv, CallbackInv, ReqInv, Covering
  <2>2. req[u].todo # {} /\ req[u].todo \in SUBSET Blocks
    BY <2>1 DEF Locals
  <2>3. BlockInHand(u) \in req[u].todo
    BY <2>1, <2>2, BlockInHandType
  <2>4. b = BlockInHand(u)
    BY DEF First, BlockInHand
  <2>5. req[u].todo \subseteq RequestBlocks(req[u])
    BY DEF Bounded
  <2>6. QED  BY <2>2, <2>3, <2>4, <2>5
<1>5. CASE e = d
  BY <1>3, <1>5
<1>6. CASE e # d
  <2>1. nas' # nas /\ ~UNCHANGED cfsVars
    BY <1>6 DEF cfsVars
  <2>2. req[t].op # "unlink"
    BY <1>1 DEF LockInv
  <2>3. WritesNas(t) \/ CutsNas(t)
    BY <1>2, <1>6, <2>1, <2>2, NasStep DEF SameData, DataOf
  <2>4. nas'.dir[P] # NoInode
    BY <1>2, <2>3 DEF WritesNas, CutsNas
  <2>5. k \in Nat \ {0} /\ k <= Len(e)
    <3>1. Len(e) \in Nat
      BY <1>2, <2>4, NextBytes
    <3>2. QED  BY <3>1
  <2>6. ~ (Len(d) < k /\ k <= GapEnd(t))
    <3>1. SUFFICES ASSUME Len(d) < k, k <= GapEnd(t) PROVE FALSE
      OBVIOUS
    <3>2. <<name(t), b>> \in Widens(t)
      BY <1>4, <2>3, <2>5, <3>1, GapBlocks
    <3>3. <<name(u), b>> \in InHand(u)
      BY DEF InHand, WriteBlocks, First, BlockInHand
    <3>4. name(u) = name(t)
      BY DEF name
    <3>5. u \in Overtakes(t)
      BY <3>2, <3>3, <3>4 DEF Overtakes, Pc
    <3>6. QED  BY <2>1, <3>5 DEF Ghosts
  <2>7. CASE WritesNas(t)
    <3>1. PICK n \in Nat \ {0} : /\ n <= req[t].len
                                 /\ e = Written(d, req[t].off, [j \in 1 .. n |-> req[t].val])
      BY <2>7 DEF WritesNas
    <3> DEFINE w == [j \in 1 .. n |-> req[t].val]
    <3>2. w \in Seq(NasBytes) /\ Len(w) = n
      BY <1>1, SomeBytes
    <3>3. req[t].op = "write" /\ GapEnd(t) = req[t].off
      BY <2>7 DEF WritesNas, Pc, GapEnd
    <3>4. k \notin req[t].off + 1 .. req[t].off + n
      <4>1. SUFFICES ASSUME k \in req[t].off + 1 .. req[t].off + n PROVE FALSE
        OBVIOUS
      <4>2. PICK lo \in Nat, hi \in Nat :
              /\ RequestBlocks(req[t]) = lo .. hi
              /\ BS * lo <= req[t].off /\ req[t].off + req[t].len <= BS * (hi + 1)
        BY <3>3, PageSpan DEF Bounded
      <4>3. BS * lo < k /\ k <= BS * (hi + 1)
        <5>1. BS * lo \in Nat /\ BS * (hi + 1) \in Nat
          BY BlockSize
        <5>2. req[t].off \in Nat /\ req[t].len \in Nat /\ n \in Nat /\ n <= req[t].len
          BY <1>1, <3>1
        <5> DEFINE low  == BS * lo
                   high == BS * (hi + 1)
                   o    == req[t].off
                   m    == req[t].len
        <5>3. /\ low \in Nat /\ high \in Nat /\ o \in Nat /\ m \in Nat
              /\ k \in o + 1 .. o + n /\ low <= o /\ o + m <= high
              /\ n \in Nat /\ n <= m
          BY <4>1, <4>2, <5>1, <5>2
        <5> HIDE DEF low, high, o, m
        <5>4. low < k /\ k <= high
          BY ONLY <5>3, BetweenEnds
        <5>5. QED  BY <5>4 DEF low, high
      <4>4. BlockOf(k) \in RequestBlocks(req[t])
        BY <2>5, <4>2, <4>3, InBlocks
      <4>5. req[t].len \in Nat \ {0}
        BY <3>3, BlockSize DEF Bounded
      <4>6. QED  BY <1>1, <1>4, <3>3, <4>4, <4>5, NotShared
    <3> DEFINE o == req[t].off
    <3>5. e = Written(d, o, w) /\ o \in Nat /\ k \notin o + 1 .. o + Len(w)
      BY <1>1, <3>1, <3>2, <3>4
    <3>6. ~ (Len(d) < k /\ k <= o)
      BY <2>6, <3>3
    <3> HIDE DEF d, e, o, w
    <3>7. ByteWritten(e, d, o, w, k)
      BY <1>3, <2>5, <3>2, <3>5, WrittenPart
    <3>8. k <= Len(d)
      BY <1>3, <2>5, <3>2, <3>5, <3>6, <3>7 DEF ByteWritten
    <3>9. e[k] = d[k]
      BY <3>5, <3>7, <3>8 DEF ByteWritten
    <3>10. QED  BY <3>8, <3>9 DEF d, e
  <2>8. CASE CutsNas(t)
    <3>1. GapEnd(t) = req[t].len /\ e = Resized(d, req[t].len)
      BY <2>8 DEF CutsNas, trunc_nas, Pc, GapEnd
    <3> HIDE DEF d, e
    <3>2. Shortened(e, d, req[t].len)
      BY <1>1, <1>3, <3>1, ResizedBytes
    <3>3. QED  BY <1>1, <1>3, <2>5, <2>6, <3>1, <3>2 DEF Shortened, d, e
  <2>9. QED  BY <2>3, <2>7, <2>8
<1>7. QED  BY <1>5, <1>6 DEF d, e

\* What the invariant says of a thread is kept by the steps of the others: the
\* bytes it carries from the NAS are written by nobody else, or it is in bad.
LEMMA OtherFaultReq ==
  ASSUME SharedInv, FileInv', TypeOK, NoCollision, NoStraddle,
         NEW t \in Threads, StepOf(t), FaultReq(t), Ghosts(t), Tables(t),
         NEW u \in Threads \ {t}, FaultReq(u)
  PROVE  FaultReq(u)'
<1> DEFINE p == req[u].path
<1>1. req'[u] = req[u] /\ call'[u] = call[u]
  BY StepMoves DEF Moved, Tables
<1>2. Calling(u)' /\ Bounded(req'[u])
  BY <1>1 DEF FaultReq, Calling, name, WriteBlocks, BlockInHand
<1>3. /\ PathInv /\ FileInv /\ UsersInv /\ LockInv /\ AtStep(req[u]) /\ AtStep(req[t])
  BY DEF SharedInv, ShareInv, PathInv, PathReqs, Shape
<1>4. ASSUME u \notin bad'
      PROVE  FromNas(req[u], DataOf(nas', p))
  <2>1. u \notin bad /\ FromNas(req[u], DataOf(nas, p))
    BY <1>4 DEF Ghosts, FaultReq
  <2>2. CASE req[u].op \notin {"read", "write"}
    BY <2>2 DEF FromNas
  <2>3. CASE req[u].op \in {"read", "write"}
    <3>1. p \in Paths /\ nas.dir[p] # NoInode
      <4>1. UsesHandle(req[u])
        BY <2>3 DEF UsesHandle
      <4>2. QED  BY <1>3, <4>1, Descriptors
    <3>2. CASE p # req[t].path
      <4>1. SameFile(nas, nas', p)
        BY <3>1, <3>2, OtherName
      <4>2. DataOf(nas', p) = DataOf(nas, p)
        BY <3>1, <4>1 DEF SameFile
      <4>3. QED  BY <2>1, <4>2
    <3>3. CASE p = req[t].path /\ req[u].op = "write"
      <4>1. Apart(req[u], req[t]) /\ req[t].op \notin {"write", "truncate", "utime"}
        BY <3>3 DEF SharedInv, ShareInv, ApartInv, Apart
      <4>2. req[t].op # "unlink"
        BY <1>3, <3>3 DEF LockInv
      <4>3. nas' = nas
        BY <3>1, <3>3, <4>1, <4>2, NasStep DEF WritesNas, CutsNas
      <4>4. QED  BY <2>1, <4>3
    <3>4. CASE p = req[t].path /\ req[u].op = "read"
      <4> DEFINE x == First(req[u].todo)
                 buf == req[u].buf
      <4>1. SUFFICES ASSUME req[u].pc \in {"cache_record", "cache_pwrite"},
                            NEW j \in 1 .. BS, BS * x + j <= Len(DataOf(nas', p))
                     PROVE  buf[Len(buf) - BS + j] = DataOf(nas', p)[BS * x + j]
        BY <3>4 DEF FromNas
      <4>2. x \in Nat /\ BS * x \in Nat /\ BS \in Nat
        <5>1. Locals(req[u]) /\ req[u].pc \in Covering
          BY <1>3, <4>1 DEF FileInv, CallbackInv, ReqInv, Covering
        <5>2. req[u].todo # {} /\ req[u].todo \in SUBSET Blocks
          BY <5>1 DEF Locals
        <5>3. BlockInHand(u) \in req[u].todo
          BY <5>1, <5>2, BlockInHandType
        <5>4. x \in Blocks
          BY <5>2, <5>3 DEF First, BlockInHand
        <5>5. x \in Nat
          BY <5>4, MetaAssumption
        <5> HIDE DEF x
        <5>6. QED  BY <5>5, BlockSize
      <4> DEFINE k == BS * x + j
      <4>3. k \in Nat \ {0} /\ BlockOf(k) = x
        <5> HIDE DEF x
        <5>1. BS * x < k /\ k <= BS * (x + 1) /\ k \in Nat \ {0}
          BY <4>2, InBlock
        <5>2. QED  BY <4>2, <5>1, InBlock
      <4>4. k \in 1 .. Len(DataOf(nas', p))
        <5>1. nas'.dir[p] # NoInode \/ nas' = nas
          <6>1. req[t].op # "unlink"
            BY <1>3, <3>4 DEF LockInv
          <6>2. QED  BY <3>1, <3>4, <6>1, NasStep DEF WritesNas, CutsNas, SameData
        <5>2. Len(DataOf(nas', p)) \in Nat
          BY <1>3, <3>1, <5>1, NextBytes, FileBytes
        <5> HIDE DEF x
        <5>3. QED  BY <4>1, <4>3, <5>2
      <4>5. k <= Len(DataOf(nas, p)) /\ DataOf(nas', p)[k] = DataOf(nas, p)[k]
        <5>1. Bounded(req[t]) /\ Bounded(req[u])
          BY DEF FaultReq
        <5> HIDE DEF k
        <5>2. QED  BY <1>4, <3>4, <4>1, <4>3, <4>4, <5>1, ReaderKeepsByte
      <4>6. buf[Len(buf) - BS + j] = DataOf(nas, p)[k]
        BY <2>1, <3>4, <4>1, <4>5 DEF FromNas
      <4>7. QED  BY <4>5, <4>6
    <3>5. QED  BY <2>3, <3>2, <3>3, <3>4
  <2>4. QED  BY <2>2, <2>3
<1>5. ASSUME Pc(u, "open_stat"), ~req[u].present
      PROVE  name(u) \notin files'
  <2>1. name(u) \notin files
    BY <1>5 DEF FaultReq
  <2>2. req[u].op = "open"
    BY <1>3, <1>5 DEF AtStep, Pc
  <2>3. req[t].op \in {"open", "unlink"} => name(t) # name(u)
    BY <2>2, Exclusive
  <2>4. QED  BY <2>1, <2>3 DEF Tables, TablesFor
<1>6. ASSUME req[u].pc \in {"open_unlink", "unlink_cache"}, Idle(u)'
      PROVE  Gone(name(u))'
  <2>1. Gone(name(u))
    BY <1>1, <1>6 DEF FaultReq, Idle, At
  <2>2. req[u].op \in {"open", "unlink"}
    BY <1>3, <1>6 DEF AtStep
  <2>3. req[t].op \in {"read", "write"} => name(t) # name(u)
    BY <2>2, Exclusive
  <2>4. Pc(t, "cache_pwrite") => name(u) # name(t)
    BY <1>3, <2>3 DEF AtStep, Pc
  <2>5. PICK f : f = name(u)
    OBVIOUS
  <2>6. Gone(f)'
    BY <2>1, <2>4, <2>5, GoneStays
  <2>7. name(u)' = f
    BY <1>1, <2>5 DEF name
  <2>8. QED  BY <2>6, <2>7 DEF Gone
<1>7. /\ t \in Threads
      /\ u \notin bad' => FromNas(req'[u], DataOf(nas', req'[u].path))
  BY <1>1, <1>4
<1>8. Pc(u, "open_stat")' /\ ~req'[u].present => name(u)' \notin files'
  BY <1>1, <1>5 DEF Pc, name
<1>9. req'[u].pc \in {"open_unlink", "unlink_cache"} /\ Idle(u)' => Gone(name(u))'
  BY <1>1, <1>6
<1>10. QED  BY <1>2, <1>7, <1>8, <1>9 DEF FaultReq

\* A statement of a call leaves the callback where it is.
LEMMA RequestWaits ==
  ASSUME SharedInv, TypeOK, NEW t \in Threads, StepOf(t), FaultReq(t), Ghosts(t),
         Tables(t), UNCHANGED cfsVars
  PROVE  FaultReq(t)'
<1>1. req' = req /\ nas' = nas
  BY DEF cfsVars
<1>2. Calling(t)' /\ Bounded(req'[t])
  BY <1>1 DEF Tables, FaultReq
<1>3. t \notin bad' => FromNas(req'[t], DataOf(nas', req'[t].path))
  BY <1>1 DEF Ghosts, FaultReq, Arrives, Pc
<1>4. files' \subseteq files \/ (create_file(t, name(t)) /\ Pc(t, "open_create"))
  <2>1. CASE MetaStep(t) \/ StatementFails(t)
    <3>1. CASE DeleteFileRow(t)
      <4>1. PICK f : files' = files \ {f}
        BY <3>1 DEF DeleteFileRow
      <4>2. QED  BY <4>1
    <3>2. CASE StatementFails(t)
      <4>1. files' = files
        BY <3>2 DEF StatementFails, CheckFails, RowFails, SizeFails, SelectFails, DeleteFails
      <4>2. QED  BY <4>1
    <3>3. CASE MetaStep(t) /\ ~DeleteFileRow(t)
      <4>1. files' = files
        BY <3>3 DEF MetaStep, is_blk_in_cache, InsertRow, DeleteBlockRow, UpdateLocalSize,
                    SelectSize, LoadUsed, StoreUsed, SelectAgain
      <4>2. QED  BY <4>1
    <3>4. QED  BY <2>1, <3>1, <3>2, <3>3
  <2>2. CASE ~ (MetaStep(t) \/ StatementFails(t))
    <3>1. Daemon(t) \/ CallFails(t)
      BY <2>2, StepMoves DEF SQLFails
    <3>2. ~ (MetaStep(t) /\ UNCHANGED cfsVars)
      BY <2>2
    <3>3. \/ NoSQL
          \/ Pc(t, "open_create") /\ create_file(t, name(t))
          \/ delete_file(t, name(t))
          \/ cache_record(t)
      BY <3>1, <3>2, OutsideSQL, Zenon
    <3>4. CASE NoSQL
      BY <3>4 DEF NoSQL, metaVars
    <3>5. CASE delete_file(t, name(t)) \/ cache_record(t)
      <4>1. files' = files
        BY <3>5 DEF delete_file, cache_record, write_blks, Enter
      <4>2. QED  BY <4>1
    <3>6. QED  BY <3>3, <3>4, <3>5
  <2>3. QED  BY <2>1, <2>2
<1>5. Pc(t, "open_stat")' /\ ~req'[t].present => name(t)' \notin files'
  BY <1>1, <1>4 DEF FaultReq, Pc, name
<1>6. ASSUME req[t].pc \in {"open_unlink", "unlink_cache"}, Idle(t)'
      PROVE  Gone(name(t))'
  <2>1. CASE Idle(t)
    <3>1. PICK f : f = name(t)
      OBVIOUS
    <3>2. Gone(f) /\ ~Pc(t, "cache_pwrite")
      BY <1>6, <2>1, <3>1 DEF FaultReq, Pc
    <3>3. Gone(f)'
      BY <3>2, GoneStays
    <3>4. name(t)' = f
      BY <1>1, <3>1 DEF name
    <3>5. QED  BY <3>3, <3>4 DEF Gone
  <2>2. CASE ~Idle(t)
    <3>1. call[t] # NoCall
      BY <2>2 DEF Idle, At, NoCall, Fresh
    <3>2. call[t].op = "delete_file"
      BY <1>6, <3>1 DEF FaultReq, Calling
    <3>3. call'[t] = NoCall
      BY <1>1, <1>2, <1>6 DEF Calling, Idle, At
    <3>4. QED  BY <3>2, <3>3 DEF Ghosts
  <2>3. QED  BY <2>1, <2>2
<1>7. QED  BY <1>1, <1>2, <1>3, <1>5, <1>6 DEF FaultReq

\* cfs_open learns in open_present that a file is not listed; the callbacks wait
\* for delete_file once they have called it.
LEMMA OwnOther ==
  ASSUME SharedInv, TypeOK, NEW t \in Threads, StepOf(t), FaultReq(t), Tables(t),
         ~ UNCHANGED cfsVars, req[t].op \notin {"read", "write"}
  PROVE  FaultReq(t)'
<1>1. DOMAIN req[t] = Fields /\ AtStep(req[t]) /\ DOMAIN req = Threads
  BY DEF SharedInv, PathInv, PathReqs, Shape
<1>2. Calling(t)' /\ Kept(req[t], req'[t])
  BY StepMoves DEF Tables, Moved
<1>3. req'[t].op \notin {"read", "write"}
  BY <1>2 DEF Kept, NoReq
<1>4. Bounded(req'[t]) /\ FromNas(req'[t], DataOf(nas', req'[t].path))
  BY <1>3 DEF Bounded, FromNas
<1>5. \/ req'[t].pc \notin {"open_stat", "open_unlink", "unlink_cache"}
      \/ /\ req'[t].pc = "open_stat" /\ NoSQL /\ req'[t].path = req[t].path
         /\ ~req'[t].present => name(t) \notin files
      \/ delete_file(t, name(t)) /\ req'[t].pc \in {"open_unlink", "unlink_cache"}
  <2>1. StepsOf(t)
    BY OpSteps
  <2>2. ASSUME Return(t)  PROVE req'[t].pc = "idle"
    BY <1>1, <2>2 DEF Return, Go, NoReq
  <2>3. ASSUME NEW pc, Go(t, [req[t] EXCEPT !.pc = pc])  PROVE req'[t].pc = pc
    BY <1>1, <2>3 DEF Go, Fields, NoReq
  <2>4. CASE req[t].op = "open" /\ OpenSteps(t)
    <3>1. CASE \E present : /\ open_presentAs(t, present)
                            /\ ~present => name(t) \notin files
      <4>1. PICK present : /\ open_presentAs(t, present)
                           /\ ~present => name(t) \notin files
        BY <3>1
      <4>2. CASE delete_file(t, name(t)) /\ Go(t, [req[t] EXCEPT !.pc = "open_unlink"])
        BY <2>3, <4>2
      <4>3. CASE Return(t)
        BY <2>2, <4>3
      <4>4. CASE NoSQL /\ Go(t, [req[t] EXCEPT !.pc = "open_stat", !.present = present])
        <5>1. req'[t] = [req[t] EXCEPT !.pc = "open_stat", !.present = present]
          BY <1>1, <4>4 DEF Go
        <5>2. /\ req'[t].pc = "open_stat" /\ req'[t].path = req[t].path
              /\ req'[t].present = present
          BY <1>1, <5>1 DEF Fields, NoReq
        <5>3. QED  BY <4>1, <4>4, <5>2
      <4>5. QED  BY <4>1, <4>2, <4>3, <4>4 DEF open_presentAs
    <3>2. CASE open_nas(t)
      <4>1. PICK i : Go(t, [req[t] EXCEPT !.ino = i, !.pc = "open_present"])
        BY <3>2 DEF open_nas
      <4>2. req'[t].pc = "open_present"
        BY <1>1, <4>1 DEF Go, Fields, NoReq
      <4>3. QED  BY <4>2
    <3>3. CASE \E times : open_statAs(t, times)
      <4>1. PICK times : open_statAs(t, times)
        BY <3>3
      <4>2. PICK m \in times :
              Go(t, [req[t] EXCEPT !.num = m,
                       !.pc = IF req[t].present THEN "open_date" ELSE "open_create"])
        BY <4>1 DEF open_statAs
      <4>3. req'[t].pc \in {"open_date", "open_create"}
        BY <1>1, <4>2 DEF Go, Fields, NoReq
      <4>4. QED  BY <4>3
    <3>4. CASE \E times : open_dateAs(t, times)
      <4>1. PICK times : open_dateAs(t, times)
        BY <3>4
      <4>2. \/ delete_file(t, name(t)) /\ Go(t, [req[t] EXCEPT !.pc = "open_unlink"])
            \/ Go(t, [req[t] EXCEPT !.pc = "open_cache"])
        BY <4>1 DEF open_dateAs
      <4>3. QED  BY <2>3, <4>2
    <3>5. CASE open_unlink(t)
      <4>1. Return(t) \/ Go(t, [req[t] EXCEPT !.pc = "open_create"])
        BY <3>5 DEF open_unlink, AfterUnlink
      <4>2. QED  BY <2>2, <2>3, <4>1
    <3>6. CASE open_create(t)
      BY <2>3, <3>6 DEF open_create
    <3>7. CASE open_mknod(t)
      BY <2>3, <3>7 DEF open_mknod
    <3>8. CASE open_cache(t)
      BY <2>2, <3>8 DEF open_cache
    <3>9. CASE call_fails(t)
      <4>1. \/ req[t].pc = "open_create" /\ Go(t, [req[t] EXCEPT !.pc = "open_mknod"])
            \/ req[t].pc = "open_mknod" /\ Go(t, [req[t] EXCEPT !.pc = "open_cache"])
            \/ Return(t) \/ Go(t, [req[t] EXCEPT !.pc = "open_create"])
        <5>1. req[t].pc \in {"open_nas", "open_present", "open_stat", "open_date",
                             "open_unlink", "open_create", "open_mknod", "open_cache"}
          BY <1>1, <2>4 DEF AtStep
        <5>2. CASE Return(t) \/ AfterUnlink(t)
          BY <5>2 DEF AfterUnlink
        <5>3. CASE req[t].pc \in DOMAIN Follows /\ Go(t, [req[t] EXCEPT !.pc = Follows[@]])
          BY <5>1, <5>3 DEF Follows
        <5>4. QED  BY <3>9, <5>2, <5>3 DEF call_fails
      <4>2. QED  BY <2>2, <2>3, <4>1
    <3>10. QED
      BY <2>4, <3>1, <3>2, <3>3, <3>4, <3>5, <3>6, <3>7, <3>8, <3>9
      DEF OpenSteps, cfs_open, open_present, open_stat, open_date
  <2>5. CASE req[t].op = "unlink" /\ cfs_unlink(t)
    <3>1. \/ delete_file(t, name(t)) /\ Go(t, [req[t] EXCEPT !.pc = "unlink_cache"])
          \/ Go(t, [req[t] EXCEPT !.pc = "unlink_nas"]) \/ Return(t)
      BY <2>5 DEF cfs_unlink, unlink_meta, unlink_cache, unlink_nas
    <3>2. QED  BY <2>2, <2>3, <3>1
  <2>6. CASE req[t].op \in {"mknod", "truncate", "utime", "unlink"} /\ call_fails(t)
    <3>1. req[t].pc \in {"mknod", "trunc_cache", "trunc_nas", "utime_cache", "utime_nas",
                         "unlink_meta", "unlink_cache", "unlink_nas"}
      BY <1>1, <2>6 DEF AtStep
    <3>2. \/ Return(t)
          \/ \E pc \in {"unlink_nas", "trunc_nas", "utime_nas"} :
               Go(t, [req[t] EXCEPT !.pc = pc])
      <4>1. CASE Return(t)
        BY <4>1
      <4>2. CASE req[t].pc \in DOMAIN Follows /\ Go(t, [req[t] EXCEPT !.pc = Follows[@]])
        BY <3>1, <4>2 DEF Follows
      <4>3. QED  BY <2>6, <3>1, <4>1, <4>2 DEF call_fails, Pc
    <3>3. QED  BY <2>2, <2>3, <3>2
  <2>7. CASE \/ req[t].op = "mknod"    /\ cfs_mknod(t)
             \/ req[t].op = "truncate" /\ cfs_truncate(t)
             \/ req[t].op = "utime"    /\ cfs_utime(t)
             \/ req[t].op = "release"  /\ cfs_release(t)
    <3>1. \/ Return(t)
          \/ \E pc \in {"release_close", "trunc_nas", "utime_nas"} :
               Go(t, [req[t] EXCEPT !.pc = pc])
      BY <2>7 DEF cfs_mknod, cfs_truncate, trunc_cache, trunc_nas, cfs_utime, utime_cache,
                  utime_nas, cfs_release, release_dig, release_close
    <3>2. QED  BY <2>2, <2>3, <3>1
  <2>8. QED  BY <2>1, <2>4, <2>5, <2>6, <2>7 DEF StepsOf
<1>6. ASSUME delete_file(t, name(t))  PROVE ~Idle(t)'
  <2>1. call'[t] = Fresh("delete_file", "select", name(t), {})
    BY <1>6, Entered DEF delete_file
  <2>2. QED  BY <2>1 DEF Idle, At, Fresh
<1>7. Pc(t, "open_stat")' /\ ~req'[t].present => name(t)' \notin files'
  BY <1>5 DEF Pc, name, NoSQL, metaVars
<1>8. req'[t].pc \in {"open_unlink", "unlink_cache"} /\ Idle(t)' => Gone(name(t))'
  BY <1>5, <1>6
<1>9. QED  BY <1>2, <1>4, <1>7, <1>8 DEF FaultReq

\* nasReadSize may have been taken below zero: it is then too large for pread.
LEMMA WrapsAround ==
  ASSUME SizesFit, NEW x \in Int, -MaxSize <= x, x <= MaxSize
  PROVE  /\ Wrap(x) \in Nat
         /\ 0 <= x => Wrap(x) = x /\ Wrap(x) < SizeMod \div 2
         /\ x < 0 => Wrap(x) >= SizeMod \div 2
<1> DEFINE m == SizeMod
           h == SizeMod \div 2
<1>1. m \in Nat \ {0} /\ MaxSize \in Nat
  BY MetaAssumption, BlockSize
<1>2. h \in Nat /\ 2 * h <= m /\ MaxSize < h
  BY <1>1 DEF SizesFit
<1>3. Wrap(x) = x % m /\ x % m \in 0 .. m - 1
  BY <1>1 DEF Wrap
<1>4. 0 <= x => x % m = x
  BY <1>1, <1>2
<1>5. x < 0 => x % m >= h
  <2> DEFINE q == x \div m
             w == x % m
  <2>1. x = m * q + w /\ q \in Int /\ w \in 0 .. m - 1
    BY <1>1
  <2>2. CASE q >= 0
    <3> HIDE DEF q, w, m, h
    <3>1. m * q >= 0
      BY <1>1, <2>1, <2>2
    <3>2. QED  BY <1>1, <2>1, <3>1 DEF m
  <2>3. CASE q <= -1
    <3>1. CASE q = -1
      <4> HIDE DEF q, w, m, h
      <4>1. m * q = -m
        BY <1>1, <3>1
      <4>2. w = x + m
        BY <1>1, <2>1, <4>1
      <4>3. w >= h
        BY <1>1, <1>2, <2>1, <4>2
      <4>4. QED  BY <4>3 DEF w
    <3>2. CASE q <= -2
      <4> HIDE DEF q, w, m, h
      <4>1. m * q <= -(2 * m)
        BY <1>1, <2>1, <3>2
      <4>2. FALSE
        BY <1>1, <1>2, <2>1, <4>1
      <4>3. QED  BY <4>2
    <3>3. QED  BY <2>1, <2>3, <3>1, <3>2
  <2>4. QED  BY <2>1, <2>2, <2>3
<1> HIDE DEF m, h
<1>6. QED  BY <1>1, <1>2, <1>3, <1>4, <1>5 DEF h

\* A thread that does not end with wrong bytes has made the calls.
LEMMA LooksAtNas ==
  ASSUME SharedInv, NEW t \in Threads, StepOf(t), ~ UNCHANGED cfsVars, t \notin bad'
  PROVE  /\ Pc(t, "write_stat") => write_stat(t)
         /\ Pc(t, "write_read") => write_read(t)
         /\ Pc(t, "read_block") /\ BlockInHand(t) \notin req[t].hits => read_block(t)
<1>1. SUFFICES ASSUME \/ Pc(t, "write_stat") \/ Pc(t, "write_read")
                      \/ Pc(t, "read_block") /\ BlockInHand(t) \notin req[t].hits
               PROVE  Daemon(t) => write_stat(t) \/ write_read(t) \/ read_block(t)
  <2>1. /\ Pc(t, "write_stat") => ~write_read(t) /\ ~read_block(t)
        /\ Pc(t, "write_read") => ~write_stat(t) /\ ~read_block(t)
        /\ Pc(t, "read_block") => ~write_stat(t) /\ ~write_read(t)
    BY DEF write_stat, write_statAs, write_read, write_readAs, read_block, read_blockAs, Pc
  <2>2. CarriesOn(t) => Daemon(t)
    BY FailGhosts DEF StepOf, StatementGoesWrong, SQLFails
  <2>3. QED  BY <1>1, <2>1, <2>2 DEF CarriesOn
<1>2. SUFFICES ASSUME Daemon(t)  PROVE write_stat(t) \/ write_read(t) \/ read_block(t)
  OBVIOUS
<1>3. ~cfs_mknod(t) /\ ~cfs_open(t)
  BY <1>1 DEF cfs_mknod, cfs_open, open_nas, open_present, open_presentAs, open_stat,
       open_statAs, open_date, open_dateAs, open_unlink, open_create, open_mknod,
       open_cache, Pc
<1>4. ~cfs_cacheWrite(t) /\ ~cfs_unlink(t) /\ ~cfs_truncate(t) /\ ~cfs_release(t)
  BY <1>1 DEF cfs_cacheWrite, cache_wait, cache_record, cache_pwrite, cache_pwriteAs,
       cfs_unlink, unlink_meta, unlink_cache, unlink_nas, cfs_truncate, trunc_cache,
       trunc_nas, cfs_release, release_dig, release_close, Pc
<1>5. ~cfs_rename(t) /\ ~cfs_link(t) /\ ~cfs_utime(t)
  BY <1>1 DEF cfs_rename, rename_cache, rename_nas, cfs_link, link_cache, link_nas,
       cfs_utime, utime_cache, utime_nas, Pc
<1>6. cfs_read(t) \/ cfs_write(t)
  BY <1>2, <1>3, <1>4, <1>5 DEF Daemon
<1>7. QED
  BY <1>1, <1>6 DEF cfs_read, read_check, read_checkAs, read_all, read_allAs, read_done,
       cfs_write, write_nas, write_nasAs, Pc

\* cfs_write: its buffer is as long as its blocks, and has the bytes of the NAS if
\* no call has failed.
LEMMA OwnFaultWrite ==
  ASSUME SharedInv, NoStraddle, SizesFit, NEW t \in Threads, StepOf(t), FaultReq(t),
         Ghosts(t), ~ UNCHANGED cfsVars, req[t].op = "write"
  PROVE  /\ Bounded(req'[t])
         /\ t \notin bad' => FromNas(req'[t], DataOf(nas', req'[t].path))
<1> DEFINE r == req[t]
           q == req'[t]
           P == r.path
           d == DataOf(nas, P)
           lower   == Align!alignLowerOffset(r.off)
           aligned == Align!alignedSize(r.len)
<1>1. /\ FileInv /\ PathInv /\ UsersInv /\ DOMAIN r = Fields /\ AtStep(r)
      /\ DOMAIN req = Threads /\ Bounded(r)
  BY DEF SharedInv, ShareInv, PathInv, PathReqs, Shape, FaultReq
<1>2. WriteSteps(t)
  BY OpSteps DEF StepsOf
<1>3. CASE Pc(t, "cache_pwrite") /\ Arriving(t)
  <2>1. q = NoReq
    BY <1>1, <1>3 DEF Arriving, cache_pwriteAs, Return, Go
  <2>2. q.op = "none"
    BY <2>1 DEF NoReq
  <2>3. QED  BY <2>2 DEF Bounded, FromNas
<1>4. CASE ~ (Pc(t, "cache_pwrite") /\ Arriving(t))
  <2>1. Ahead(q, r) /\ q.pc \in {"write_stat", "write_read", "cache_record", "cache_pwrite"}
    BY <1>2, <1>4, WriteGoesOn
  <2>2. /\ q.op = "write" /\ q.off = r.off /\ q.len = r.len /\ q.path = P
        /\ q.todo = r.todo
    BY <2>1 DEF Ahead
  <2>3. /\ r.off \in 0 .. MaxSize - 1 /\ r.len \in 1 .. PageSize
        /\ Cardinality(PagesOf(r.off, r.len)) = 1 /\ r.todo = RequestBlocks(r)
    BY <1>1 DEF Bounded
  <2>4. RequestBlocks(q) = RequestBlocks(r)
    BY <2>2 DEF RequestBlocks
  <2>5. /\ P \in Paths /\ nas.dir[P] # NoInode /\ fh(t).nas = nas.dir[P]
        /\ fh(t).nas \in Inodes
    BY <1>1, Descriptors DEF UsesHandle
  <2>6. /\ d \in Seq(NasBytes) /\ d \in Seq(ByteSet) /\ Len(d) \in 0 .. MaxSize
        /\ d = nas.data[fh(t).nas]
    BY <1>1, <2>5, FileBytes, NasSeq DEF DataOf
  <2>7. PICK lo \in Nat, hi \in Nat :
          /\ lo <= hi /\ RequestBlocks(r) = lo .. hi
          /\ lower = BS * lo /\ aligned \in Nat
          /\ BS * lo <= r.off
    BY <2>3, PageSpan
  <2>8. lower \in Nat /\ lower <= MaxSize /\ aligned \in Nat /\ MaxSize \in Nat
    <3>1. BS * lo \in Nat /\ MaxSize \in Nat
      <4> HIDE DEF lower, aligned, r
      <4>1. QED  BY BlockSize
    <3> HIDE DEF lower, aligned, r
    <3>2. QED  BY <2>3, <2>7, <3>1
  <2>9. ASSUME /\ q.pc = "write_read" => /\ q.num \in Nat
                                         /\ q.num < SizeMod \div 2 => q.num <= aligned
               /\ q.pc \in {"cache_record", "cache_pwrite"} => Len(q.buf) = aligned
        PROVE  Bounded(q)
    <3> HIDE DEF r, q
    <3>1. QED  BY <2>2, <2>3, <2>4, <2>9 DEF Bounded
  <2>10. ASSUME nas' = nas,
                q.pc = "write_read" =>
                  q.num = IF lower + aligned > Len(d) THEN Wrap(Len(d) - lower) ELSE aligned,
                q.pc \in {"cache_record", "cache_pwrite"} =>
                  \A k \in lower + 1 .. Smaller(lower + aligned, Len(d)) :
                    q.buf[k - lower] = d[k]
         PROVE  FromNas(q, DataOf(nas', q.path))
    <3>1. DataOf(nas', q.path) = d
      BY <2>2, <2>10
    <3>2. Align!alignLowerOffset(q.off) = lower /\ Align!alignedSize(q.len) = aligned
      BY <2>2
    <3> HIDE DEF r, q, d, lower, aligned
    <3>3. QED  BY <2>2, <2>10, <3>1, <3>2 DEF FromNas
  <2>11. CASE r.pc = "write_nas"
    <3>1. \E n \in Nat : write_nasAs(t, n)
      BY <1>2, <2>11 DEF WriteSteps, write_stat, write_statAs, write_read, write_readAs,
                         cache_record, Arriving, cache_pwriteAs, Pc
    <3>2. q = [r EXCEPT !.pc = "write_stat"]
      BY <1>1, <3>1 DEF write_nasAs, Go
    <3>3. q.pc = "write_stat"
      BY <1>1, <3>2 DEF Fields, NoReq
    <3>4. Bounded(q)
      BY <2>9, <3>3
    <3>5. FromNas(q, DataOf(nas', q.path))
      BY <2>2, <3>3 DEF FromNas
    <3>6. QED  BY <3>4, <3>5
  <2>12. CASE r.pc = "write_stat"
    <3>1. NasSizes(P) = {Len(d)}
      BY <2>5 DEF NasSizes, DataOf
    <3>2. \/ write_stat(t)
          \/ write_statAs(t, 0 .. MaxSize)
      BY <1>2, <2>12 DEF WriteSteps, write_nasAs, write_read, write_readAs,
                         cache_record, Arriving, cache_pwriteAs, Pc
    <3>3. nas' = nas
      BY <3>2 DEF write_stat, write_statAs, NoFile
    <3>4. PICK size \in 0 .. MaxSize :
            /\ Go(t, [r EXCEPT !.pc = "write_read",
                               !.num = IF lower + aligned > size
                                       THEN Wrap(size - lower) ELSE aligned])
            /\ t \notin bad' => size = Len(d)
      <4>1. CASE write_stat(t)
        BY <2>6, <3>1, <4>1 DEF write_stat, write_statAs
      <4>2. CASE ~write_stat(t)
        <5>1. t \in bad' /\ write_statAs(t, 0 .. MaxSize)
          BY <2>12, <3>2, <4>2, LooksAtNas DEF Pc
        <5>2. QED  BY <5>1 DEF write_statAs
      <4>3. QED  BY <4>1, <4>2
    <3>5. /\ q.pc = "write_read"
          /\ q.num = IF lower + aligned > size THEN Wrap(size - lower) ELSE aligned
      <4> DEFINE num == IF lower + aligned > size THEN Wrap(size - lower) ELSE aligned
      <4>1. q = [r EXCEPT !.pc = "write_read", !.num = num]
        BY <1>1, <3>4 DEF Go
      <4> HIDE DEF num
      <4>2. q.pc = "write_read" /\ q.num = num
        BY <1>1, <4>1 DEF Fields, NoReq
      <4>3. QED  BY <4>2 DEF num
    <3>6. q.num \in Nat /\ (q.num < SizeMod \div 2 => q.num <= aligned)
      <4> DEFINE x == size - lower
      <4>1. x \in Int /\ -MaxSize <= x /\ x <= MaxSize
        <5> HIDE DEF lower
        <5>1. QED  BY <2>8
      <4>2. SizeMod \div 2 \in Nat
        BY MetaAssumption
      <4>3. CASE lower + aligned > size
        <5>1. q.num = Wrap(x)
          BY <3>5, <4>3
        <5>2. /\ Wrap(x) \in Nat
              /\ 0 <= x => Wrap(x) = x
              /\ x < 0 => Wrap(x) >= SizeMod \div 2
          BY <4>1, WrapsAround
        <5>3. x < aligned
          <6> HIDE DEF lower, aligned
          <6>1. QED  BY <2>8, <4>3
        <5> HIDE DEF x, aligned, lower, q, r
        <5>4. QED  BY <2>8, <4>1, <4>2, <5>1, <5>2, <5>3
      <4>4. CASE ~ (lower + aligned > size)
        <5>1. q.num = aligned
          BY <3>5, <4>4
        <5> HIDE DEF aligned, lower, q, r
        <5>2. QED  BY <2>8, <5>1
      <4>5. QED  BY <4>3, <4>4
    <3>7. Bounded(q)
      BY <2>9, <3>5, <3>6
    <3>8. t \notin bad' => FromNas(q, DataOf(nas', q.path))
      BY <2>10, <3>3, <3>4, <3>5
    <3>9. QED  BY <3>7, <3>8
  <2>13. CASE r.pc = "write_read"
    <3> DEFINE fetch == IF r.num >= SizeMod \div 2 THEN <<>>
                        ELSE Pread(nas, fh(t).nas, WriteOffset(t), r.num)
    <3>1. write_readAs(t, fetch) \/ write_readAs(t, <<>>)
      BY <1>2, <2>13 DEF WriteSteps, write_nasAs, write_read, write_stat, write_statAs,
                         cache_record, Arriving, cache_pwriteAs, Pc
    <3>2. nas' = nas
      BY <3>1 DEF write_readAs, NoFile
    <3>3. r.num \in Nat /\ (r.num < SizeMod \div 2 => r.num <= aligned)
      BY <1>1, <2>13 DEF Bounded
    <3>4. WriteOffset(t) = lower
      <4>1. First(lo .. hi) = lo
        BY <2>7, FirstIs
      <4>2. QED  BY <2>3, <2>7, <4>1 DEF WriteOffset, BlockInHand, First
    <3>5. SizeMod \div 2 \in Nat
      BY MetaAssumption
    <3>6. \/ r.num >= SizeMod \div 2 /\ fetch = <<>>
          \/ r.num <= aligned /\ fetch \in Seq(ByteSet) /\ Part(fetch, d, lower, r.num)
      <4>1. CASE r.num >= SizeMod \div 2
        BY <4>1
      <4>2. CASE ~ (r.num >= SizeMod \div 2)
        <5>1. r.num <= aligned
          <6> HIDE DEF r, aligned, d
          <6>1. QED  BY <3>3, <3>5, <4>2
        <5>2. fetch = Pread(nas, fh(t).nas, lower, r.num)
          BY <3>4, <4>2
        <5> HIDE DEF fetch, r, lower, d
        <5>3. fetch \in Seq(ByteSet) /\ Part(fetch, d, lower, r.num)
          BY <2>6, <2>8, <3>3, <5>2, ReadBytes
        <5>4. QED  BY <5>1, <5>3
      <4>3. QED  BY <4>1, <4>2
    <3>7. fetch \in Seq(ByteSet) /\ Len(fetch) <= aligned
      <4>1. CASE fetch = <<>>
        <5> HIDE DEF fetch, aligned
        <5>1. QED  BY <2>8, <4>1
      <4>2. CASE r.num <= aligned /\ fetch \in Seq(ByteSet) /\ Part(fetch, d, lower, r.num)
        <5> HIDE DEF fetch, aligned, r, d, lower
        <5>1. Len(fetch) <= r.num /\ Len(fetch) \in Nat
          BY <4>2, LenProperties DEF Part
        <5>2. QED  BY <2>8, <3>3, <4>2, <5>1
      <4>3. QED  BY <3>6, <4>1, <4>2
    <3>8. PICK bytes : /\ write_readAs(t, bytes) /\ bytes \in {fetch, <<>>}
                       /\ t \notin bad' => bytes = fetch
      <4>1. CASE write_readAs(t, fetch)
        BY <4>1
      <4>2. CASE ~write_readAs(t, fetch)
        <5>1. ~write_read(t)
          BY <4>2 DEF write_read
        <5>2. t \in bad'
          BY <2>13, <5>1, LooksAtNas DEF Pc
        <5>3. QED  BY <3>1, <4>2, <5>2
      <4>3. QED  BY <4>1, <4>2
    <3>9. bytes \in Seq(ByteSet) /\ Len(bytes) <= aligned
      <4>1. CASE bytes = <<>>
        <5> HIDE DEF aligned
        <5>1. QED  BY <2>8, <4>1
      <4>2. QED  BY <3>7, <3>8, <4>1
    <3>10. q.pc = "cache_record" /\ q.buf = Padded(bytes, aligned)
      <4> DEFINE buf == Padded(bytes, aligned)
      <4>1. q = [r EXCEPT !.buf = buf, !.pc = "cache_record"]
        BY <1>1, <3>8 DEF write_readAs, Go
      <4> HIDE DEF buf
      <4>2. q.pc = "cache_record" /\ q.buf = buf
        BY <1>1, <4>1 DEF Fields, NoReq
      <4>3. QED  BY <4>2 DEF buf
    <3>11. /\ Len(q.buf) = aligned
           /\ \A j \in 1 .. Len(bytes) : q.buf[j] = bytes[j]
      <4> HIDE DEF aligned, q
      <4>1. QED  BY <2>8, <3>9, <3>10, PaddedBytes
    <3>12. Bounded(q)
      BY <2>9, <3>10, <3>11
    <3>13. ASSUME t \notin bad', NEW k \in lower + 1 .. Smaller(lower + aligned, Len(d))
           PROVE  q.buf[k - lower] = d[k]
      <4>1. r.num = IF lower + aligned > Len(d) THEN Wrap(Len(d) - lower) ELSE aligned
        <5>1. t \notin bad
          BY <2>13, <3>13 DEF Ghosts, Arrives, Pc
        <5>2. FromNas(r, d)
          BY <5>1 DEF FaultReq
        <5>3. QED  BY <2>13, <5>2 DEF FromNas
      <4>2. k \in Int /\ lower < k /\ k <= lower + aligned /\ k <= Len(d)
        <5> HIDE DEF lower, aligned, d
        <5>1. QED  BY <2>6, <2>8, <3>13 DEF Smaller
      <4>3. r.num < SizeMod \div 2 /\ k <= lower + r.num
        <5> DEFINE x == Len(d) - lower
        <5>1. x \in Int /\ -MaxSize <= x /\ x <= MaxSize /\ 0 <= x
          <6> HIDE DEF lower, d
          <6>1. QED  BY <2>6, <2>8, <4>2
        <5>2. Wrap(x) = x /\ Wrap(x) < SizeMod \div 2
          BY <5>1, WrapsAround
        <5>3. CASE lower + aligned > Len(d)
          <6>1. r.num = x
            BY <4>1, <5>2, <5>3
          <6>2. k <= lower + x
            <7> HIDE DEF lower, d
            <7>1. QED  BY <2>6, <2>8, <4>2
          <6>3. QED  BY <5>2, <6>1, <6>2
        <5>4. CASE ~ (lower + aligned > Len(d))
          <6>1. r.num = aligned
            BY <4>1, <5>4
          <6>2. aligned < SizeMod \div 2
            <7> HIDE DEF lower, aligned, d
            <7>1. QED  BY <2>6, <2>8, <3>5, <5>4 DEF SizesFit
          <6>3. QED  BY <4>2, <6>1, <6>2
        <5>5. QED  BY <5>3, <5>4
      <4>4. ~ (r.num >= SizeMod \div 2)
        <5> HIDE DEF r
        <5>1. QED  BY <3>3, <3>5, <4>3
      <4>5. Part(fetch, d, lower, r.num) /\ bytes = fetch
        BY <3>6, <3>8, <3>13, <4>4
      <4>6. k \in lower + 1 .. lower + r.num
        <5> HIDE DEF lower, r
        <5>1. QED  BY <2>8, <3>3, <4>2, <4>3
      <4> HIDE DEF fetch, lower, aligned, d, r, q
      <4>7. k - lower \in 1 .. Len(fetch) /\ lower + (k - lower) = k
        <5> DEFINE m == r.num
        <5>1. /\ lower \in Nat /\ m \in Nat /\ Part(fetch, d, lower, m)
              /\ Len(d) \in Nat /\ k \in lower + 1 .. lower + m /\ k <= Len(d)
          BY <2>6, <2>8, <3>3, <4>2, <4>5, <4>6
        <5> HIDE DEF m
        <5>2. QED  BY <5>1, InPart
      <4>8. fetch[k - lower] = d[lower + (k - lower)]
        BY <4>5, <4>7 DEF Part
      <4>9. QED  BY <3>11, <4>5, <4>7, <4>8
    <3>14. t \notin bad' => FromNas(q, DataOf(nas', q.path))
      <4>1. ASSUME t \notin bad'  PROVE FromNas(q, DataOf(nas', q.path))
        <5>1. \A k \in lower + 1 .. Smaller(lower + aligned, Len(d)) : q.buf[k - lower] = d[k]
          BY <3>13, <4>1
        <5>2. QED  BY <2>10, <3>2, <3>10, <5>1
      <4>2. QED  BY <4>1
    <3>15. QED  BY <3>12, <3>14
  <2>14. CASE r.pc \in {"cache_record", "cache_pwrite"}
    <3>1. cache_record(t)
      <4>1. ~Arriving(t)
        BY <1>4 DEF Arriving, cache_pwriteAs
      <4>2. QED
        BY <1>2, <2>14, <4>1 DEF WriteSteps, write_nasAs, write_read, write_readAs,
                                 write_stat, write_statAs, Pc
    <3>2. r.pc = "cache_record" /\ nas' = nas /\ q = [r EXCEPT !.pc = "cache_pwrite"]
      BY <1>1, <3>1 DEF cache_record, Pc, Go, NoFile
    <3>3. q.pc = "cache_pwrite" /\ q.buf = r.buf
      BY <1>1, <3>2 DEF Fields, NoReq
    <3>4. Len(r.buf) = aligned
      BY <1>1, <3>2 DEF Bounded
    <3>5. Bounded(q)
      BY <2>9, <3>3, <3>4
    <3>6. t \notin bad' => t \notin bad
      BY <3>2 DEF Ghosts, Arrives, Pc
    <3>7. t \notin bad => \A k \in lower + 1 .. Smaller(lower + aligned, Len(d)) :
                            r.buf[k - lower] = d[k]
      BY <3>2 DEF FaultReq, FromNas
    <3>8. t \notin bad' => FromNas(q, DataOf(nas', q.path))
      BY <2>10, <3>2, <3>3, <3>6, <3>7
    <3>9. QED  BY <3>5, <3>8
  <2>15. QED
    BY <1>1, <2>11, <2>12, <2>13, <2>14 DEF AtStep
<1>5. QED  BY <1>3, <1>4

\* What cfs_read has at the end of its buffer when a block goes to the cache.
EndsLike(buf, d, x) == \A j \in 1 .. BS :
  x + j <= Len(d) => buf[Len(buf) - BS + j] = d[x + j]

\* cfs_read appends the block it has fetched to its buffer (cachefs.c:606).
LEMMA EndOfBuffer ==
  ASSUME NEW old \in Seq(ByteSet), NEW bytes \in Seq(ByteSet), NEW d, NEW x \in Nat,
         Part(bytes, d, x, BS), Len(d) \in Nat,
         NEW buf, buf = old \o Padded(bytes, BS)
  PROVE  EndsLike(buf, d, x)
<1> SUFFICES ASSUME NEW j \in 1 .. BS, x + j <= Len(d)
             PROVE  buf[Len(buf) - BS + j] = d[x + j]
  BY DEF EndsLike
<1> DEFINE w == Padded(bytes, BS)
<1>1. BS \in Nat
  BY BlockSize
<1>2. Len(bytes) \in Nat /\ Len(bytes) <= BS
  BY LenProperties DEF Part
<1>3. /\ w \in Seq(ByteSet) /\ Len(w) = BS
      /\ \A i \in 1 .. Len(bytes) : w[i] = bytes[i]
  BY <1>1, <1>2, PaddedBytes
<1> HIDE DEF w
<1>4. Joined(buf, old, w)
  BY <1>3, JoinedBytes DEF w
<1>5. Len(old) \in Nat /\ Len(buf) = Len(old) + BS
  BY <1>3, <1>4, LenProperties DEF Joined
<1>6. j \in 1 .. Len(bytes)
  <2> DEFINE k == x + j
  <2>1. k \in x + 1 .. x + BS /\ k <= Len(d) /\ k - x = j
    BY <1>1
  <2> HIDE DEF k
  <2>2. k - x \in 1 .. Len(bytes)
    BY <1>1, <2>1, InPart
  <2>3. QED  BY <2>1, <2>2
<1>7. Len(buf) - BS + j = Len(old) + j
  BY <1>1, <1>5
<1> DEFINE m == Len(old) + j
<1>8. m \in 1 .. Len(old) + Len(w) /\ ~ (m <= Len(old)) /\ m - Len(old) = j
  BY <1>1, <1>3, <1>5
<1> HIDE DEF m
<1>9. buf[m] = w[m - Len(old)]
  BY <1>4, <1>8 DEF Joined
<1>10. bytes[j] = d[x + j]
  BY <1>6 DEF Part
<1>11. QED  BY <1>3, <1>6, <1>7, <1>8, <1>9, <1>10 DEF m

\* cfs_read: a block that goes to the cache is the one the NAS has.
LEMMA OwnFaultRead ==
  ASSUME SharedInv, NEW t \in Threads, StepOf(t), FaultReq(t), Ghosts(t),
         ~ UNCHANGED cfsVars, req[t].op = "read"
  PROVE  /\ Bounded(req'[t])
         /\ t \notin bad' => FromNas(req'[t], DataOf(nas', req'[t].path))
<1> DEFINE r == req[t]
           q == req'[t]
           P == r.path
           d == DataOf(nas, P)
           b == First(r.todo)
<1>1. /\ FileInv /\ PathInv /\ UsersInv /\ DOMAIN r = Fields /\ AtStep(r)
      /\ DOMAIN req = Threads /\ Bounded(r)
  BY DEF SharedInv, ShareInv, PathInv, PathReqs, Shape, FaultReq
<1>2. ReadSteps(t)
  BY OpSteps DEF StepsOf
<1>3. r.len \in Nat \ {0} /\ r.todo \subseteq RequestBlocks(r)
  BY <1>1 DEF Bounded
<1>4. BlockInHand(t) = b
  BY DEF BlockInHand, First
<1>5. ASSUME q = NoReq
      PROVE  Bounded(q) /\ FromNas(q, DataOf(nas', q.path))
  <2>1. q.op = "none"
    BY <1>5 DEF NoReq
  <2>2. QED  BY <2>1 DEF Bounded, FromNas
<1>6. ASSUME q.op = "read", q.off = r.off, q.len = r.len, q.todo \subseteq RequestBlocks(r)
      PROVE  Bounded(q)
  BY <1>3, <1>6 DEF Bounded, RequestBlocks
<1>7. ASSUME q.op = "read", q.off = r.off, q.len = r.len, q.todo \subseteq RequestBlocks(r),
             q.pc \notin {"cache_record", "cache_pwrite"}
      PROVE  Bounded(q) /\ FromNas(q, DataOf(nas', q.path))
  BY <1>6, <1>7 DEF FromNas
<1>8. ASSUME NEW s, DOMAIN s = Fields, s.op = "read", s.off = r.off, s.len = r.len,
             s.todo = r.todo, q = NextReadBlock(t, s)
      PROVE  Bounded(q) /\ FromNas(q, DataOf(nas', q.path))
  <2> DEFINE rest == s.todo \ {BlockInHand(t)}
             pc   == IF rest = {} THEN "read_done" ELSE "read_block"
  <2>1. q = [s EXCEPT !.todo = rest, !.pc = pc]
    BY <1>8 DEF NextReadBlock
  <2>2. rest \subseteq RequestBlocks(r) /\ pc \notin {"cache_record", "cache_pwrite"}
    BY <1>3, <1>8
  <2> HIDE DEF rest, pc
  <2>3. q.op = "read" /\ q.off = r.off /\ q.len = r.len /\ q.todo = rest /\ q.pc = pc
    BY <1>8, <2>1 DEF Fields, NoReq
  <2>4. QED  BY <1>7, <2>2, <2>3
<1>9. CASE \E found : read_checkAs(t, found)
  <2>1. PICK hits, todo, pc :
          /\ q = [r EXCEPT !.hits = hits, !.todo = todo, !.pc = pc]
          /\ todo \subseteq RequestBlocks(r)
          /\ pc \in {"read_check", "read_all", "read_block"}
    <3>1. PICK found : read_checkAs(t, found)
      BY <1>9
    <3> DEFINE hits == IF found THEN r.hits \cup {b} ELSE r.hits
               rest == r.todo \ {b}
               todo == IF rest = {} THEN RequestBlocks(r) ELSE rest
               pc   == IF rest # {} THEN "read_check"
                       ELSE IF hits = RequestBlocks(r) THEN "read_all" ELSE "read_block"
    <3>2. q = [r EXCEPT !.hits = hits, !.todo = todo, !.pc = pc]
      BY <1>1, <1>4, <3>1 DEF read_checkAs, Go
    <3>3. todo \subseteq RequestBlocks(r) /\ pc \in {"read_check", "read_all", "read_block"}
      BY <1>3
    <3> HIDE DEF hits, todo, pc
    <3>4. QED  BY <3>2, <3>3
  <2>2. q.op = "read" /\ q.off = r.off /\ q.len = r.len /\ q.todo = todo /\ q.pc = pc
    BY <1>1, <2>1 DEF Fields, NoReq
  <2>3. QED  BY <1>7, <2>1, <2>2
<1>10. CASE \E bytes, n : read_allAs(t, bytes, n)
  <2>1. PICK bytes, n : read_allAs(t, bytes, n)
    BY <1>10
  <2>2. PICK buf : q = [r EXCEPT !.buf = buf, !.count = n, !.todo = {}, !.pc = "read_done"]
    BY <1>1, <2>1 DEF read_allAs, Go
  <2>3. q.op = "read" /\ q.off = r.off /\ q.len = r.len /\ q.todo = {} /\ q.pc = "read_done"
    BY <1>1, <2>2 DEF Fields, NoReq
  <2>4. QED  BY <1>7, <2>3
<1>11. CASE \E bytes, n : read_blockAs(t, bytes, n)
  <2> DEFINE bytes == Pread(nas, fh(t).nas, BS * b, BS)
  <2>1. PICK w, n : /\ read_blockAs(t, w, n)
                    /\ t \notin bad' /\ b \notin r.hits => w = bytes
    <3>1. PICK w, n : read_blockAs(t, w, n)
      BY <1>11
    <3>2. CASE t \notin bad' /\ b \notin r.hits
      <4>1. read_block(t)
        BY <1>4, <3>1, <3>2, LooksAtNas DEF read_blockAs
      <4>2. read_blockAs(t, bytes, Len(bytes))
        BY <1>4, <3>2, <4>1 DEF read_block
      <4>3. QED  BY <4>2
    <3>3. QED  BY <3>1, <3>2
  <2> DEFINE buf   == r.buf \o Padded(w, BS)
             count == r.count + n
             r2    == [r EXCEPT !.buf = buf, !.count = count]
  <2>2. /\ r.pc = "read_block" /\ nas' = nas
        /\ q = IF b \in r.hits THEN NextReadBlock(t, r2) ELSE [r2 EXCEPT !.pc = "cache_record"]
    BY <1>1, <1>4, <2>1 DEF read_blockAs, Pc, Go, NoFile
  <2>3. /\ DOMAIN r2 = Fields /\ r2.op = "read" /\ r2.off = r.off /\ r2.len = r.len
        /\ r2.todo = r.todo /\ r2.buf = buf /\ r2.path = P
    <3> HIDE DEF buf, count
    <3>1. QED  BY <1>1 DEF Fields, NoReq
  <2> HIDE DEF r2
  <2>4. CASE b \in r.hits
    BY <1>8, <2>2, <2>3, <2>4
  <2>5. CASE b \notin r.hits
    <3>1. q = [r2 EXCEPT !.pc = "cache_record"]
      BY <2>2, <2>5
    <3>2. /\ q.op = "read" /\ q.off = r.off /\ q.len = r.len /\ q.todo = r.todo
          /\ q.pc = "cache_record" /\ q.buf = buf /\ q.path = P
      <4> HIDE DEF buf
      <4>1. QED  BY <2>3, <3>1 DEF Fields, NoReq
    <3>3. Bounded(q)
      BY <1>3, <1>6, <3>2
    <3>4. ASSUME t \notin bad'  PROVE EndsLike(buf, d, BS * b)
      <4>1. /\ P \in Paths /\ nas.dir[P] # NoInode /\ fh(t).nas = nas.dir[P]
        BY <1>1, Descriptors DEF UsesHandle
      <4>2. d \in Seq(ByteSet) /\ Len(d) \in Nat /\ d = nas.data[fh(t).nas]
        BY <1>1, <4>1, FileBytes, NasSeq DEF DataOf
      <4>3. r.buf \in Seq(ByteSet)
        BY <1>1 DEF FileInv, RequestsInv, Typed, LocalTypes
      <4>4. b \in Nat
        <5>1. Locals(r) /\ r.pc \in Covering
          BY <1>1, <2>2 DEF FileInv, CallbackInv, ReqInv, Covering
        <5>2. r.todo # {} /\ r.todo \in SUBSET Blocks
          BY <5>1 DEF Locals
        <5>3. b \in r.todo
          BY <1>4, <5>1, <5>2, BlockInHandType
        <5> HIDE DEF b, r
        <5>4. b \in Blocks
          BY <5>2, <5>3
        <5>5. QED  BY <5>4, MetaAssumption
      <4> DEFINE x == BS * b
      <4>5. x \in Nat /\ BS \in Nat
        <5> HIDE DEF b
        <5>1. QED  BY <4>4, BlockSize
      <4>6. w = Pread(nas, fh(t).nas, x, BS)
        BY <2>1, <2>5, <3>4
      <4> HIDE DEF x, b, d, r
      <4>8. w \in Seq(ByteSet) /\ Part(w, d, x, BS)
        BY <4>2, <4>5, <4>6, ReadBytes
      <4>9. EndsLike(buf, d, x)
        <5> DEFINE old == r.buf
        <5>1. /\ old \in Seq(ByteSet) /\ w \in Seq(ByteSet) /\ x \in Nat
              /\ Part(w, d, x, BS) /\ Len(d) \in Nat /\ buf = old \o Padded(w, BS)
          BY <4>2, <4>3, <4>5, <4>8
        <5> HIDE DEF old, buf
        <5>2. QED  BY <5>1, EndOfBuffer
      <4>10. QED  BY <4>9 DEF x
    <3>5. t \notin bad' => FromNas(q, DataOf(nas', q.path))
      <4>1. DataOf(nas', q.path) = d /\ First(q.todo) = b
        BY <2>2, <3>2
      <4>2. ASSUME t \notin bad'
            PROVE  \A j \in 1 .. BS : BS * b + j <= Len(d) =>
                     buf[Len(buf) - BS + j] = d[BS * b + j]
        BY <3>4, <4>2 DEF EndsLike
      <4> HIDE DEF b, d, q, buf
      <4>3. QED  BY <3>2, <4>1, <4>2 DEF FromNas
    <3>6. QED  BY <3>3, <3>5
  <2>6. QED  BY <2>4, <2>5
<1>12. CASE read_done(t)
  BY <1>1, <1>5, <1>12 DEF read_done, Return, Go
<1>13. CASE cache_record(t)
  <2>1. r.pc = "cache_record" /\ nas' = nas /\ q = [r EXCEPT !.pc = "cache_pwrite"]
    BY <1>1, <1>13 DEF cache_record, Pc, Go, NoFile
  <2>2. /\ q.op = "read" /\ q.off = r.off /\ q.len = r.len /\ q.todo = r.todo
        /\ q.buf = r.buf /\ q.path = P /\ q.pc = "cache_pwrite"
    BY <1>1, <2>1 DEF Fields, NoReq
  <2>3. Bounded(q)
    BY <1>3, <1>6, <2>2
  <2>4. t \notin bad' => FromNas(r, d)
    BY <2>1 DEF Ghosts, Arrives, Pc, FaultReq
  <2>5. DataOf(nas', q.path) = d
    BY <2>1, <2>2
  <2>6. FromNas(r, d) => FromNas(q, d)
    <3> HIDE DEF q, r, d
    <3>1. r.op = "read"
      BY DEF r
    <3>2. QED  BY <2>1, <2>2, <3>1 DEF FromNas
  <2>7. QED  BY <2>3, <2>4, <2>5, <2>6
<1>14. CASE Arriving(t)
  <2>1. q = NextReadBlock(t, r)
    BY <1>1, <1>14 DEF Arriving, cache_pwriteAs, Go
  <2>2. QED  BY <1>1, <1>8, <2>1
<1>15. QED
  BY <1>2, <1>9, <1>10, <1>11, <1>12, <1>13, <1>14
  DEF ReadSteps, cfs_read, read_check, read_all, read_block

\* A step of a callback, whether its call succeeds or not.
LEMMA StepKeepsFaultInv ==
  ASSUME SharedInv, FileInv', TypeOK, TypeOK', ForeignKey, ForeignKey',
         NoCollision, NoStraddle, SizesFit, FaultInv, NEW t \in Threads, StepOf(t)
  PROVE  FaultInv'
<1>1. FaultReq(t) /\ \A u \in Threads : FaultReq(u)
  BY DEF FaultInv
<1>2. Calling(t)
  BY <1>1 DEF FaultReq
<1>3. Ghosts(t)
  BY <1>2, GhostStep
<1>4. Tables(t)
  BY <1>2, FaultTables, StepMoves
<1>5. FaultReq(t)'
  <2>1. CASE UNCHANGED cfsVars
    BY <1>1, <1>3, <1>4, <2>1, RequestWaits
  <2>2. CASE ~ UNCHANGED cfsVars /\ req[t].op \notin {"read", "write"}
    BY <1>1, <1>4, <2>2, OwnOther
  <2>3. CASE ~ UNCHANGED cfsVars /\ req[t].op \in {"read", "write"}
    <3>1. Bounded(req'[t]) /\ (t \notin bad' => FromNas(req'[t], DataOf(nas', req'[t].path)))
      <4>1. CASE req[t].op = "write"
        BY <1>1, <1>3, <2>3, <4>1, OwnFaultWrite
      <4>2. CASE req[t].op = "read"
        BY <1>1, <1>3, <2>3, <4>2, OwnFaultRead
      <4>3. QED  BY <2>3, <4>1, <4>2
    <3>2. /\ ~Pc(t, "open_stat")'
          /\ req'[t].pc \notin {"open_unlink", "unlink_cache"}
      <4>1. PathInv' /\ Kept(req[t], req'[t])
        <5>2. Moved(t)
          BY StepMoves
        <5>3. PathInv'
          <6>1. Daemon(t) \/ CallFails(t) \/ SQLFails(t)
            BY StepMoves
          <6>2. CASE Daemon(t)
            BY <6>2, DaemonKeepsPaths DEF SharedInv
          <6>3. CASE CallFails(t)
            BY <6>3, FailPaths
          <6>4. ~SQLFails(t)
            BY <2>3 DEF SQLFails
          <6>5. QED  BY <6>1, <6>2, <6>3, <6>4
        <5>4. QED  BY <5>2, <5>3 DEF Moved
      <4>2. AtStep(req'[t])
        BY <4>1 DEF PathInv, PathReqs, Shape
      <4>3. req'[t].op \in {"read", "write", "none"}
        BY <2>3, <4>1 DEF Kept, NoReq
      <4>4. QED  BY <4>2, <4>3 DEF AtStep, Pc
    <3>3. Calling(t)'
      BY <1>4 DEF Tables
    <3>4. QED  BY <3>1, <3>2, <3>3 DEF FaultReq
  <2>4. QED  BY <2>1, <2>2, <2>3
<1>6. \A u \in Threads : FaultReq(u)'
  <2>1. ASSUME NEW u \in Threads \ {t}  PROVE FaultReq(u)'
    BY <1>1, <1>3, <1>4, OtherFaultReq
  <2>2. QED  BY <1>5, <2>1
<1>7. ASSUME NEW p \in Paths  PROVE FaultFile(p)'
  <2>1. FaultFile(p)
    BY DEF FaultInv
  <2>2. CASE p = req[t].path
    <3>1. cache.dir[pathToFileName(p)] = NoInode => Gone(pathToFileName(p))
      BY NameType DEF FaultInv
    <3>2. QED  BY <1>1, <1>3, <2>1, <2>2, <3>1, OwnFaultFile
  <2>3. CASE p # req[t].path
    BY <1>3, <2>1, <2>3, OtherFaultFiles
  <2>4. QED  BY <2>2, <2>3
<1>8. ASSUME NEW f \in Names, cache'.dir[f] = NoInode  PROVE Gone(f)'
  BY <1>1, <1>3, <1>8, MissingGone DEF FaultInv
<1>9. QED
  <2>1. \A p \in Paths : FaultFile(p)'
    BY <1>7
  <2>2. \A f \in Names : cache'.dir[f] = NoInode => Gone(f)'
    BY <1>8
  <2>3. QED  BY <1>6, <2>1, <2>2 DEF FaultInv

\* The kernel starts a request.
LEMMA BegunKeepsFaultInv ==
  ASSUME SharedInv, TypeOK', FaultInv, NEW t \in Threads, NEW r, Begun(t, r)
  PROVE  FaultInv'
<1>1. /\ Go(t, r) /\ req[t].pc = "idle" /\ req[t].op = "none" /\ DOMAIN req = Threads
      /\ UNCHANGED <<nas, cache, handles, files, blocks, call>>
  <2>1. Issue(t, r)
    BY DEF Begun
  <2>2. AtStep(req[t]) /\ DOMAIN req = Threads
    BY DEF SharedInv, PathInv, PathReqs, Shape
  <2>3. QED  BY <2>1, <2>2 DEF Issue, Pc, AtStep, NoSQL, metaVars, NoFile
<1>2. req'[t] = r /\ \A u \in Threads \ {t} : req'[u] = req[u]
  BY <1>1 DEF Go
<1>3. FaultAsks(r) /\ AtStart(r)
  BY DEF Begun, FaultAsks, AsksFor
<1>4. \A f : Gone(f) => Gone(f)'
  BY DEF Begun, Gone
<1>5. FaultReq(t)'
  <2>1. Calling(t)'
    <3>1. Calling(t)
      BY DEF FaultInv, FaultReq
    <3>2. call[t] = NoCall
      BY <1>1, <3>1 DEF Calling
    <3>3. QED  BY <1>1, <3>2 DEF Calling
  <2>2. r.pc \notin {"open_stat", "open_unlink", "unlink_cache", "write_read",
                     "cache_record", "cache_pwrite"}
    BY <1>3 DEF AtStart
  <2>3. Bounded(r)
    BY <1>3, <2>2 DEF FaultAsks, Bounded
  <2>4. FromNas(r, DataOf(nas', r.path))
    BY <2>2 DEF FromNas
  <2>5. QED  BY <1>2, <2>1, <2>2, <2>3, <2>4 DEF FaultReq, Pc
<1>6. ASSUME NEW u \in Threads \ {t}  PROVE FaultReq(u)'
  <2>1. FaultReq(u) /\ req'[u] = req[u] /\ call'[u] = call[u] /\ u \in Threads
    BY <1>1, <1>2 DEF FaultInv
  <2>2. Calling(u)'
    BY <2>1 DEF FaultReq, Calling, name, WriteBlocks, BlockInHand
  <2>3. u \notin bad' => u \notin bad
    BY DEF Begun
  <2>4. u \notin bad' => FromNas(req'[u], DataOf(nas', req'[u].path))
    BY <1>1, <2>1, <2>3 DEF FaultReq
  <2>5. Gone(name(u)) => Gone(name(u))'
    <3>1. PICK f : f = name(u)
      OBVIOUS
    <3>2. name(u)' = f
      BY <2>1, <3>1 DEF name
    <3>3. Gone(f) => Gone(f)'
      BY <1>4
    <3>4. QED  BY <3>1, <3>2, <3>3 DEF Gone
  <2>6. req'[u].pc \in {"open_unlink", "unlink_cache"} /\ Idle(u)' => Gone(name(u))'
    BY <2>1, <2>5 DEF FaultReq, Idle, At
  <2>7. Pc(u, "open_stat")' /\ ~req'[u].present => name(u)' \notin files'
    BY <1>1, <2>1 DEF FaultReq, Pc, name
  <2>8. QED  BY <2>1, <2>2, <2>4, <2>6, <2>7 DEF FaultReq
<1>7. ASSUME NEW p \in Paths  PROVE FaultFile(p)'
  <2> DEFINE f == pathToFileName(p)
  <2>1. FaultFile(p)
    BY DEF FaultInv
  <2>2. SUFFICES ASSUME nas.dir[p] # NoInode, cache.dir[f] # NoInode
                 PROVE  Same(p)' \/ Outdated(p)'
    BY <1>1 DEF FaultFile
  <2>3. CASE Same(p)
    <3>1. ASSUME NEW k, Claimed(p, k)'  PROVE Claimed(p, k)
      <4>1. <<f, BlockOf(k)>> \in Trusted
        BY <3>1 DEF Claimed, Begun
      <4>2. ~Halved(req[t], p, BlockOf(k)) /\ ~Severed(req[t], p, k)
        BY <1>1 DEF Halved, Severed
      <4>3. \A u \in Threads \ {t} : ~Halved(req[u], p, BlockOf(k)) /\ ~Severed(req[u], p, k)
        BY <1>2, <3>1 DEF Claimed
      <4>4. QED  BY <4>1, <4>2, <4>3 DEF Claimed
    <3>2. DataOf(nas, p)' = DataOf(nas, p) /\ DataOf(cache, f)' = DataOf(cache, f)
      BY <1>1
    <3>3. QED  BY <2>3, <3>1, <3>2 DEF Same
  <2>4. CASE Outdated(p)
    <3>1. CASE Gone(f)'
      BY <3>1, GoneSame
    <3>2. CASE ~Gone(f)'
      <4>1. r.path = p => WhileOpen(r)
        BY <3>2 DEF Begun
      <4>2. OpenOf(p) = {}
        BY <2>4 DEF Outdated, OpenOf
      <4>3. r.path = p => Waiting(r, TimeOf(nas, p))
        <5>1. SUFFICES ASSUME r.path = p  PROVE Waiting(r, TimeOf(nas, p))
          OBVIOUS
        <5>2. r.op \notin {"truncate", "utime"}
          BY <4>1, <4>2, <5>1 DEF WhileOpen
        <5>3. ~UsesHandle(r)
          BY <1>3, <2>4, <5>1 DEF FaultAsks, AsksFor, Outdated
        <5>4. QED  BY <1>3, <5>2, <5>3 DEF AtStart, UsesHandle, Waiting
      <4>4. \A u \in Threads : req'[u].path = p => Waiting(req'[u], TimeOf(nas, p))
        BY <1>2, <2>4, <4>3 DEF Outdated
      <4>5. QED  BY <1>1, <2>4, <4>4 DEF Outdated, TimeOf
    <3>3. QED  BY <3>1, <3>2
  <2>5. QED  BY <2>1, <2>2, <2>3, <2>4 DEF FaultFile
<1>8. \A f \in Names : cache'.dir[f] = NoInode => Gone(f)'
  BY <1>1, <1>4 DEF FaultInv
<1>9. QED
  <2>1. \A u \in Threads : FaultReq(u)'
    BY <1>5, <1>6
  <2>2. \A p \in Paths : FaultFile(p)'
    BY <1>7
  <2>3. QED  BY <1>8, <2>1, <2>2 DEF FaultInv

\* Another client writes a file that is closed: either the cache file is older than
\* the write, and the next open drops its rows, or the block written is spoilt.
LEMMA RemoteFile ==
  ASSUME SharedInv, TypeOK', FaultInv, NEW p \in Paths, NEW off \in Nat, NEW now \in Int,
         RemoteWrites(p, off, now)
  PROVE  FaultFile(p)'
<1> DEFINE f == pathToFileName(p)
           i == cache.dir[f]
           d == DataOf(nas, p)
<1>1. /\ FileInv /\ PathInv /\ NamesInv /\ UsersInv /\ f \in Names
  BY NameType DEF SharedInv, ShareInv
<1>2. /\ Unused(p) /\ nas.dir[p] # NoInode /\ off <= Len(d)
      /\ Spoil(IF i = NoInode \/ cache.mtime[i] < now THEN {}
               ELSE IF UpToDate(p) THEN {<<f, off \div BS>>} ELSE AllBlocks(f))
  BY DEF RemoteWrites, DataOf
<1>3. PICK v : RemoteWrite(p, off, v, now) /\ v \in Values \cup {Zero}
  BY DEF RemoteWrites
<1> DEFINE new == Pwrite(nas, nas.dir[p], off, <<v>>, now)
<1>4. nas' = new /\ UNCHANGED <<cache, handles, req>> /\ UNCHANGED metaVars
  BY <1>3 DEF RemoteWrite, NoSQL
<1>5. FileSystem(nas, Paths, NasBytes) /\ OneName(nas.dir) /\ nas.dir[p] \in Inodes
  BY <1>1, <1>2 DEF FileInv, DirsInv, NamesInv, FileSystem
<1>6. /\ nas'.dir = nas.dir /\ TimeOf(nas', p) = now
      /\ DataOf(nas', p) = Written(d, off, <<v>>)
  <2>1. /\ new.dir = nas.dir /\ TimeOf(new, p) = now
        /\ DataOf(new, p) = Written(nas.data[nas.dir[p]], off, <<v>>)
    BY <1>5, CallsLocal
  <2> HIDE DEF new
  <2>2. QED  BY <1>4, <2>1 DEF DataOf
<1> HIDE DEF new
<1>7. /\ \A u \in Threads : req[u].path # p
      /\ \A h \in Handles : handles[h].path # p
  BY <1>1, <1>2 DEF Unused, Active, OpenOf
<1>8. SUFFICES ASSUME i # NoInode  PROVE Same(p)' \/ Outdated(p)'
  BY <1>4 DEF FaultFile
<1>9. CASE cache.mtime[i] < now
  <2>1. TimeOf(cache', f) < TimeOf(nas', p)
    BY <1>4, <1>6, <1>9 DEF TimeOf
  <2>2. QED  BY <1>4, <1>7, <2>1 DEF Outdated, Behind
<1>10. CASE ~ (cache.mtime[i] < now) /\ ~UpToDate(p)
  <2>1. Gone(f)'
    <3>1. Spoil(AllBlocks(f))
      BY <1>2, <1>8, <1>10
    <3>2. \A row \in Trusted' : row \notin AllBlocks(f)
      BY <3>1, SpoilRows
    <3>3. QED  BY <3>2 DEF Gone, AllBlocks
  <2>2. QED  BY <2>1, GoneSame
<1>11. CASE ~ (cache.mtime[i] < now) /\ UpToDate(p)
  <2>1. Same(p)
    <3>1. TimeOf(nas, p) <= TimeOf(cache, f)
      BY <1>2, <1>8, <1>11 DEF UpToDate, TimeOf
    <3>2. TimeOf(nas, p) \in Int /\ TimeOf(cache, f) \in Int
      <4>1. i \in Inodes
        BY <1>1, <1>8 DEF FileInv, DirsInv, FileSystem
      <4>2. cache.mtime[i] \in 0 .. MaxTime /\ nas.mtime[nas.dir[p]] \in 0 .. MaxTime
        BY <1>1, <1>5, <4>1 DEF FileInv, DirsInv, FileSystem
      <4>3. QED  BY <4>2 DEF TimeOf
    <3>3. ~Outdated(p)
      BY <3>1, <3>2 DEF Outdated, Behind
    <3>4. FaultFile(p)
      BY DEF FaultInv
    <3>5. QED  BY <1>2, <1>8, <3>3, <3>4 DEF FaultFile
  <2>2. SUFFICES ASSUME NEW k \in 1 .. Len(DataOf(nas', p)), Claimed(p, k)'
                 PROVE  /\ k <= Len(DataOf(cache, f))
                        /\ DataOf(cache, f)[k] = DataOf(nas', p)[k]
    BY <1>4 DEF Same
  <2>3. Spoil({<<f, off \div BS>>})
    BY <1>2, <1>8, <1>11
  <2>4. <<f, BlockOf(k)>> \in Trusted'
    BY <2>2 DEF Claimed
  <2>5. BlockOf(k) # off \div BS /\ <<f, BlockOf(k)>> \in Trusted
    BY <1>4, <2>3, <2>4, SpoilRows DEF metaVars, Trusted, Spoil
  <2>6. k # off + 1
    BY <2>5 DEF BlockOf
  <2>7. d \in Seq(NasBytes) /\ Len(d) \in Nat
    BY <1>1, <1>2, FileBytes
  <2>8. <<v>> \in Seq(NasBytes) /\ Len(<<v>>) = 1 /\ Zero \in NasBytes
    BY <1>3 DEF NasBytes
  <2>9. Len(DataOf(nas', p)) \in Nat
    <3>1. DataOf(nas', p) \in Seq(NasBytes)
      BY <1>6, <2>7, <2>8, WrittenBytes
    <3>2. QED  BY <3>1
  <2>10. k \in Nat \ {0}
    BY <2>9
  <2>11. ByteWritten(DataOf(nas', p), d, off, <<v>>, k)
    BY <1>6, <2>7, <2>8, <2>10, WrittenPart
  <2>12. k <= Len(d) /\ DataOf(nas', p)[k] = d[k]
    <3>1. k \notin off + 1 .. off + Len(<<v>>)
      BY <2>6, <2>8, <2>10
    <3>2. k <= Len(d) \/ k <= off + Len(<<v>>)
      BY <2>9, <2>10, <2>11 DEF ByteWritten
    <3>3. k <= Len(d)
      BY <1>2, <2>6, <2>7, <2>8, <2>10, <3>2
    <3>4. QED  BY <2>11, <3>1, <3>3 DEF ByteWritten
  <2>13. Claimed(p, k)
    BY <1>4, <2>2, <2>5 DEF Claimed
  <2>14. k \in 1 .. Len(d)
    BY <2>7, <2>10, <2>12
  <2>15. k <= Len(DataOf(cache, f)) /\ DataOf(cache, f)[k] = d[k]
    BY <2>1, <2>13, <2>14 DEF Same
  <2>16. QED  BY <2>12, <2>15
<1>12. QED  BY <1>9, <1>10, <1>11

\* Such a write keeps the invariant: nothing is open and no request is for the file.
LEMMA RemoteKeepsFaultInv ==
  ASSUME SharedInv, TypeOK', FaultInv, NEW p \in Paths, NEW off \in Nat, NEW now \in Int,
         RemoteWrites(p, off, now)
  PROVE  FaultInv'
<1>1. /\ FileInv /\ PathInv /\ NamesInv /\ UsersInv
  BY DEF SharedInv, ShareInv
<1>2. /\ Unused(p) /\ nas.dir[p] # NoInode
      /\ \E S : Spoil(S)
      /\ bad' = bad
  BY DEF RemoteWrites
<1>3. PICK v : RemoteWrite(p, off, v, now)
  BY DEF RemoteWrites
<1> DEFINE new == Pwrite(nas, nas.dir[p], off, <<v>>, now)
<1>4. /\ nas' = new /\ UNCHANGED <<cache, handles, req>>
      /\ UNCHANGED <<files, blocks, call>>
  BY <1>3 DEF RemoteWrite, NoSQL, metaVars
<1>5. FileSystem(nas, Paths, NasBytes) /\ OneName(nas.dir) /\ DOMAIN nas.dir = Paths
  BY <1>1 DEF FileInv, DirsInv, NamesInv, FileSystem
<1>6. nas'.dir = nas.dir /\ OnlyFile(nas, nas', p)
  <2>1. new.dir = nas.dir /\ OnlyFile(nas, new, p)
    BY <1>5, CallsLocal
  <2> HIDE DEF new
  <2>2. QED  BY <1>4, <2>1
<1> HIDE DEF new
<1>7. \A u \in Threads : req[u].path # p
  BY <1>1, <1>2 DEF Unused, Active
<1>8. Trusted' \subseteq Trusted
  BY <1>2, <1>4 DEF Trusted, Spoil
<1>9. \A f : Gone(f) => Gone(f)'
  BY <1>8 DEF Gone
<1>10. ASSUME NEW u \in Threads  PROVE FaultReq(u)'
  <2>1. FaultReq(u)
    BY DEF FaultInv
  <2>2. Calling(u)'
    BY <1>4, <2>1 DEF FaultReq, Calling, name, WriteBlocks, BlockInHand
  <2>3. ASSUME u \notin bad'  PROVE FromNas(req'[u], DataOf(nas', req'[u].path))
    <3>1. FromNas(req[u], DataOf(nas, req[u].path))
      BY <1>2, <2>1, <2>3 DEF FaultReq
    <3>2. CASE req[u].op \in {"read", "write"}
      <4>1. req[u].path \in Paths /\ nas.dir[req[u].path] # NoInode
        BY <1>1, <3>2, Descriptors DEF UsesHandle
      <4>2. DataOf(nas', req[u].path) = DataOf(nas, req[u].path)
        BY <1>5, <1>6, <1>7, <4>1 DEF OnlyFile, SameFile
      <4>3. QED  BY <1>4, <3>1, <4>2
    <3>3. CASE req[u].op \notin {"read", "write"}
      BY <1>4, <3>3 DEF FromNas
    <3>4. QED  BY <3>2, <3>3
  <2>4. Gone(name(u)) => Gone(name(u))'
    <3>1. PICK f : f = name(u)
      OBVIOUS
    <3>2. name(u)' = f
      BY <1>4, <3>1 DEF name
    <3>3. Gone(f) => Gone(f)'
      BY <1>9
    <3>4. QED  BY <3>1, <3>2, <3>3 DEF Gone
  <2>5. req'[u].pc \in {"open_unlink", "unlink_cache"} /\ Idle(u)' => Gone(name(u))'
    BY <1>4, <2>1, <2>4 DEF FaultReq, Idle, At
  <2>6. Pc(u, "open_stat")' /\ ~req'[u].present => name(u)' \notin files'
    BY <1>4, <2>1 DEF FaultReq, Pc, name
  <2>7. QED  BY <1>4, <2>1, <2>2, <2>3, <2>5, <2>6 DEF FaultReq
<1>11. ASSUME NEW q \in Paths \ {p}  PROVE FaultFile(q)'
  <2>1. SameFile(nas, nas', q) /\ FaultFile(q)
    BY <1>5, <1>6 DEF OnlyFile, FaultInv
  <2>2. SUFFICES ASSUME nas.dir[q] # NoInode, cache.dir[pathToFileName(q)] # NoInode
                 PROVE  Same(q)' \/ Outdated(q)'
    BY <1>4, <1>6 DEF FaultFile
  <2>3. DataOf(nas', q) = DataOf(nas, q) /\ TimeOf(nas', q) = TimeOf(nas, q)
    BY <2>1, <2>2 DEF SameFile
  <2>4. \A k : Claimed(q, k)' => Claimed(q, k)
    BY <1>4, <1>8 DEF Claimed
  <2>5. Same(q) => Same(q)'
    BY <1>4, <2>3, <2>4 DEF Same
  <2>6. Outdated(q) => Outdated(q)'
    BY <1>4, <2>3 DEF Outdated, TimeOf
  <2>7. QED  BY <2>1, <2>2, <2>5, <2>6 DEF FaultFile
<1>12. FaultFile(p)'
  BY RemoteFile
<1>13. \A f \in Names : cache'.dir[f] = NoInode => Gone(f)'
  BY <1>4, <1>9 DEF FaultInv
<1>14. QED
  <2>1. \A u \in Threads : FaultReq(u)'
    BY <1>10
  <2>2. \A q \in Paths : FaultFile(q)'
    BY <1>11, <1>12
  <2>3. QED  BY <1>13, <2>1, <2>2 DEF FaultInv

\* The blocks that a thread leaves half done are those it has changed on one side.
LEMMA LeftHalfDone ==
  ASSUME SharedInv, NEW u \in Threads, Bounded(req[u]), NEW p \in Paths,
         NEW k \in 1 .. MaxSize, BlockOf(k) \in Blocks,
         Halved(req[u], p, BlockOf(k)) \/ Severed(req[u], p, k)
  PROVE  <<pathToFileName(p), BlockOf(k)>> \in HalfDone(u)
<1> DEFINE b   == BlockOf(k)
           r   == req[u]
           row == <<pathToFileName(p), b>>
<1>1. AtStep(r) /\ r.path = p /\ name(u) = pathToFileName(p)
  BY DEF SharedInv, PathInv, PathReqs, Shape, Halved, Severed, name
<1>2. r.off \in Nat /\ r.len \in Nat
  BY DEF SharedInv, FileInv, RequestsInv, Typed, LocalTypes
<1>3. CASE Halved(r, p, b)
  <2>1. /\ ~Pc(u, "idle")
        /\ Pc(u, "cache_pwrite") \/ (r.op = "write" /\ ~Pc(u, "write_nas"))
    BY <1>1, <1>3 DEF Halved, AtStep, Pc
  <2>2. b \in WriteBlocks(u)
    <3>1. CASE r.op = "write"
      BY <1>3, <3>1 DEF Halved, Bounded, WriteBlocks
    <3>2. CASE r.op = "read"
      BY <1>3, <3>2 DEF Halved, WriteBlocks, BlockInHand, First
    <3>3. QED  BY <1>3, <3>1, <3>2 DEF Halved
  <2>3. row \in InHand(u)
    BY <1>1, <2>2 DEF InHand
  <2>4. QED  BY <2>1, <2>3 DEF HalfDone
<1>4. CASE Severed(r, p, k)
  <2>1. r.pc = "trunc_nas" /\ r.op = "truncate" /\ k > r.len
    BY <1>1, <1>4 DEF Severed, AtStep
  <2>2. HalfDone(u) = BlocksBetween(name(u), r.len, MaxSize)
    BY <2>1 DEF HalfDone, Pc
  <2>3. k \in Nat \ {0} /\ k <= MaxSize /\ MaxSize \in Nat /\ BS \in Nat
    BY BlockSize
  <2>4. /\ b \in Nat /\ BS * b \in Nat /\ BS * (b + 1) = BS * b + BS
        /\ BS * b < k /\ k <= BS * (b + 1)
    BY <2>3, BlockHolds
  <2>5. b \in Blocks
    OBVIOUS
  <2> HIDE DEF b
  <2>6. BS * (b + 1) > r.len /\ BS * b < MaxSize
    BY <1>2, <2>1, <2>3, <2>4
  <2>7. row[2] = b /\ row \in AllBlocks(name(u))
    BY <1>1, <2>5 DEF AllBlocks
  <2> HIDE DEF row
  <2>8. row \in BlocksBetween(name(u), r.len, MaxSize)
    BY <2>6, <2>7 DEF BlocksBetween
  <2>9. QED  BY <2>2, <2>8 DEF row, b
<1>5. QED  BY <1>3, <1>4

\* The daemon is killed: the requests are gone, and so is the trust in the blocks
\* they had in hand.
LEMMA KilledKeepsFaultInv ==
  ASSUME SharedInv, TypeOK, FaultInv, Killed
  PROVE  FaultInv'
<1>1. /\ \A h \in Handles : handles'[h] = Closed
      /\ \A t \in Threads : req'[t] = NoReq /\ call'[t] = NoCall
      /\ UNCHANGED <<nas, cache, files, blocks>>
  BY DEF Killed, Crash, init_cache_used_size
<1>2. Spoil(UNION {HalfDone(t) : t \in Threads})
  BY DEF Killed
<1>3. /\ NoReq.op = "none" /\ NoReq.pc = "idle" /\ NoReq.path = NoPath
  BY DEF NoReq
<1>4. Trusted' \subseteq Trusted
  BY <1>1, <1>2 DEF Trusted, Spoil
<1>5. \A f : Gone(f) => Gone(f)'
  BY <1>4 DEF Gone
<1>6. ASSUME NEW t \in Threads  PROVE FaultReq(t)'
  <2>1. /\ req'[t].op = "none" /\ req'[t].pc = "idle" /\ call'[t] = NoCall
    BY <1>1, <1>3
  <2>2. Calling(t)' /\ Bounded(req'[t]) /\ FromNas(req'[t], DataOf(nas', req'[t].path))
    BY <2>1 DEF Calling, Bounded, FromNas
  <2>3. QED  BY <2>1, <2>2 DEF FaultReq, Pc
<1>7. ASSUME NEW p \in Paths  PROVE FaultFile(p)'
  <2> DEFINE f == pathToFileName(p)
  <2>1. FaultFile(p) /\ f \in Names
    BY NameType DEF FaultInv
  <2>2. SUFFICES ASSUME nas.dir[p] # NoInode, cache.dir[f] # NoInode
                 PROVE  Same(p)' \/ Outdated(p)'
    BY <1>1 DEF FaultFile
  <2>3. CASE Same(p)
    <3>1. Len(DataOf(nas, p)) \in 0 .. MaxSize
      BY <2>2, FileBytes DEF SharedInv
    <3>2. ASSUME NEW k \in 1 .. Len(DataOf(nas, p)), Claimed(p, k)'
          PROVE  Claimed(p, k)
      <4>1. <<f, BlockOf(k)>> \in Trusted'
        BY <3>2 DEF Claimed
      <4>2. /\ <<f, BlockOf(k)>> \in blocks
            /\ \A t \in Threads : <<f, BlockOf(k)>> \notin HalfDone(t)
        BY <1>1, <1>2, <4>1, SpoilRows
      <4>3. BlockOf(k) \in Blocks
        BY <4>2 DEF TypeOK
      <4>4. k \in 1 .. MaxSize
        BY <3>1, BlockSize
      <4>5. \A t \in Threads : Bounded(req[t])
        BY DEF FaultInv, FaultReq
      <4>6. \A t \in Threads : ~Halved(req[t], p, BlockOf(k)) /\ ~Severed(req[t], p, k)
        BY <4>2, <4>3, <4>4, <4>5, LeftHalfDone
      <4>7. QED  BY <1>4, <4>1, <4>6 DEF Claimed
    <3>3. DataOf(nas, p)' = DataOf(nas, p) /\ DataOf(cache, f)' = DataOf(cache, f)
      BY <1>1
    <3>4. QED  BY <2>3, <3>2, <3>3 DEF Same
  <2>4. CASE Outdated(p)
    <3>1. p # NoPath
      BY CacheFSAssumption
    <3>2. /\ \A h \in Handles : handles'[h].path # p
          /\ \A t \in Threads : req'[t].path # p
      BY <1>1, <1>3, <3>1 DEF Closed
    <3>3. QED  BY <1>1, <2>4, <3>2 DEF Outdated, TimeOf
  <2>5. QED  BY <2>1, <2>2, <2>3, <2>4 DEF FaultFile
<1>8. \A f \in Names : cache'.dir[f] = NoInode => Gone(f)'
  BY <1>1, <1>5 DEF FaultInv
<1>9. QED
  <2>1. \A u \in Threads : FaultReq(u)'
    BY <1>6
  <2>2. \A p \in Paths : FaultFile(p)'
    BY <1>7
  <2>3. QED  BY <1>8, <2>1, <2>2 DEF FaultInv

\* Nothing happens.
LEMMA StillKeepsFaultInv ==
  ASSUME FaultInv, Still
  PROVE  FaultInv'
<1>1. /\ UNCHANGED <<nas, cache, handles, req, spoilt, bad>>
      /\ UNCHANGED <<files, blocks, call>>
  BY DEF Still, metaVars
<1>2. \A f : Gone(f)' <=> Gone(f)
  BY <1>1 DEF Gone, Trusted
<1>3. ASSUME NEW u \in Threads  PROVE FaultReq(u)'
  <2>1. FaultReq(u)
    BY DEF FaultInv
  <2>2. Calling(u)'
    BY <1>1, <2>1 DEF FaultReq, Calling, name, WriteBlocks, BlockInHand
  <2>3. u \notin bad' => FromNas(req'[u], DataOf(nas', req'[u].path))
    BY <1>1, <2>1 DEF FaultReq
  <2>4. Gone(name(u)) => Gone(name(u))'
    BY <1>1 DEF Gone, Trusted, name
  <2>5. req'[u].pc \in {"open_unlink", "unlink_cache"} /\ Idle(u)' => Gone(name(u))'
    BY <1>1, <2>1, <2>4 DEF FaultReq, Idle, At
  <2>6. Pc(u, "open_stat")' /\ ~req'[u].present => name(u)' \notin files'
    BY <1>1, <2>1 DEF FaultReq, Pc, name
  <2>7. QED  BY <1>1, <2>1, <2>2, <2>3, <2>5, <2>6 DEF FaultReq
<1>4. ASSUME NEW p \in Paths  PROVE FaultFile(p)'
  <2>1. FaultFile(p)
    BY DEF FaultInv
  <2>2. \A k : Claimed(p, k)' <=> Claimed(p, k)
    BY <1>1 DEF Claimed, Trusted
  <2>3. Same(p) => Same(p)'
    BY <1>1, <2>2 DEF Same
  <2>4. Outdated(p) => Outdated(p)'
    BY <1>1 DEF Outdated, TimeOf
  <2>5. QED  BY <1>1, <2>1, <2>3, <2>4 DEF FaultFile
<1>5. \A f \in Names : cache'.dir[f] = NoInode => Gone(f)'
  BY <1>1, <1>2 DEF FaultInv
<1>6. QED
  <2>1. \A u \in Threads : FaultReq(u)'
    BY <1>3
  <2>2. \A p \in Paths : FaultFile(p)'
    BY <1>4
  <2>3. QED  BY <1>5, <2>1, <2>2 DEF FaultInv

\* At first there are neither rows nor files.
LEMMA InitFaultInv == InitFaults => FaultInv
<1> SUFFICES ASSUME InitFaults  PROVE FaultInv
  OBVIOUS
<1>1. /\ blocks = {} /\ \A t \in Threads : call[t] = NoCall /\ req[t] = NoReq
      /\ \A p \in Paths : nas.dir[p] = NoInode
  BY DEF InitFaults, Init, MetaInit, EmptyFS
<1>2. NoReq.op = "none" /\ NoReq.pc = "idle"
  BY DEF NoReq
<1>3. \A f : Gone(f)
  BY <1>1 DEF Gone, Trusted
<1>4. ASSUME NEW t \in Threads  PROVE FaultReq(t)
  <2>1. /\ req[t].op = "none" /\ req[t].pc = "idle" /\ call[t] = NoCall
    BY <1>1, <1>2
  <2>2. Calling(t) /\ Bounded(req[t]) /\ FromNas(req[t], DataOf(nas, req[t].path))
    BY <2>1 DEF Calling, Bounded, FromNas
  <2>3. QED  BY <2>1, <2>2 DEF FaultReq, Pc
<1>5. \A p \in Paths : FaultFile(p)
  BY <1>1 DEF FaultFile
<1>6. QED  BY <1>3, <1>4, <1>5 DEF FaultInv

\* The invariant is inductive.
LEMMA FaultInductive ==
  /\ InitFaults => FaultInv
  /\ /\ NoCollision /\ NoStraddle /\ SizesFit
     /\ SharedInv /\ SharedInv' /\ TypeOK /\ TypeOK' /\ ForeignKey /\ ForeignKey'
     /\ FaultInv /\ [NextFaults]_faultVars
     => FaultInv'
<1>1. InitFaults => FaultInv
  BY InitFaultInv
<1>2. SUFFICES ASSUME NoCollision, NoStraddle, SizesFit, SharedInv, SharedInv',
                      TypeOK, TypeOK', ForeignKey, ForeignKey',
                      FaultInv, [NextFaults]_faultVars
               PROVE  FaultInv'
  BY <1>1
<1>3. PathInv /\ FileInv'
  BY <1>2 DEF SharedInv
<1>4. ASSUME NEW t \in Threads, StepOf(t)  PROVE FaultInv'
  BY <1>2, <1>3, <1>4, StepKeepsFaultInv
<1>5. ASSUME NEW t \in Threads, \E r : Begun(t, r)  PROVE FaultInv'
  BY <1>2, <1>5, BegunKeepsFaultInv
<1>6. ASSUME NEW p \in Paths, NEW off \in 0 .. MaxSize - 1, NEW nasClock \in 0 .. MaxTime,
             RemoteWrites(p, off, nasClock)
      PROVE  FaultInv'
  <2>1. off \in Nat /\ nasClock \in Int
    OBVIOUS
  <2>2. QED  BY <1>2, <1>6, <2>1, RemoteKeepsFaultInv
<1>7. CASE Killed
  BY <1>2, <1>7, KilledKeepsFaultInv
<1>8. CASE Still
  BY <1>2, <1>8, StillKeepsFaultInv
<1>9. \/ \E t \in Threads : StepOf(t) \/ \E r : Begun(t, r)
      \/ \E p \in Paths, off \in 0 .. MaxSize - 1, nasClock \in 0 .. MaxTime :
           RemoteWrites(p, off, nasClock)
      \/ Killed \/ Still
  BY <1>2, <1>3, FaultCases DEF StepOf
<1>10. QED  BY <1>4, <1>5, <1>6, <1>7, <1>8, <1>9

---------------------------------------------------------------------------
(***************************************************************************)
(* What the invariant says of an open file.                                *)
(***************************************************************************)
\* A block that no request is for is changed on neither side.
LEMMA NoneInFlight ==
  ASSUME SharedInv, FaultInv, NEW p, NEW i, i = nas.dir[p], NEW b, ~InFlight(i, b),
         NEW t \in Threads
  PROVE  ~Halved(req[t], p, b) /\ \A k : ~Severed(req[t], p, k)
<1>1. /\ FileInv /\ PathInv /\ UsersInv /\ Bounded(req[t]) /\ AtStep(req[t])
      /\ NoHandle \notin Handles /\ CallbackInv
  BY CacheFSAssumption
  DEF SharedInv, ShareInv, FileInv, PathInv, PathReqs, Shape, FaultInv, FaultReq
<1>2. ASSUME req[t].path = p, UsesHandle(req[t])
      PROVE  fh(t).nas = i /\ req[t].h # NoHandle
  BY <1>1, <1>2, Descriptors
<1>3. ASSUME NEW k, Severed(req[t], p, k)
      PROVE  FALSE
  <2>1. req[t].op = "truncate" /\ req[t].path = p
    BY <1>1, <1>3 DEF Severed, AtStep
  <2>2. req[t].h # NoHandle => fh(t).nas = i
    BY <1>2, <2>1 DEF UsesHandle
  <2>3. t \in RequestsFor(i, {"truncate"})
    BY <2>1, <2>2 DEF RequestsFor
  <2>4. QED  BY <2>3 DEF InFlight
<1>4. ASSUME Halved(req[t], p, b)
      PROVE  FALSE
  <2>1. /\ req[t].op \in {"read", "write"} /\ req[t].path = p
        /\ req[t].off \in Nat /\ req[t].len \in Nat
    BY <1>1, <1>4 DEF Halved, FileInv, RequestsInv, Typed, LocalTypes
  <2>2. t \in RequestsFor(i, {"read", "write"})
    BY <1>2, <2>1 DEF RequestsFor, UsesHandle
  <2>3. b \in RequestBlocks(req[t]) /\ req[t].len \in Nat \ {0}
    <3>1. CASE req[t].op = "write"
      <4>1. b \in RequestBlocks(req[t])
        BY <1>4, <3>1 DEF Halved
      <4>2. req[t].len \in 1 .. PageSize /\ PageSize \in Nat
        BY <1>1, <3>1, PageOfBlock DEF Bounded
      <4>3. QED  BY <2>1, <4>1, <4>2
    <3>2. CASE req[t].op = "read"
      <4>1. req[t].pc = "cache_pwrite" /\ b = First(req[t].todo)
        BY <1>4, <3>2 DEF Halved
      <4>2. Locals(req[t]) /\ req[t].todo # {}
        BY <1>1, <4>1 DEF CallbackInv, ReqInv, Locals, Covering
      <4>3. b \in req[t].todo
        BY <4>1, <4>2, BlockInHandType DEF BlockInHand, First
      <4>4. QED  BY <1>1, <3>2, <4>3 DEF Bounded
    <3>3. QED  BY <2>1, <3>1, <3>2
  <2>4. b \div PageBlocks \in PagesOf(req[t].off, req[t].len)
    BY <2>1, <2>3, PageOfRequest DEF RequestBlocks
  <2>5. QED  BY <2>2, <2>4 DEF InFlight
<1>5. QED  BY <1>3, <1>4

\* The inductive invariant says of open files what DamageConfined says: a file that
\* is open has been found up to date, or its rows have been dropped.
LEMMA InvConfined ==
  ASSUME SharedInv, FaultInv
  PROVE  DamageConfined
<1> SUFFICES ASSUME NEW h \in Opened, NEW b \in Blocks,
                    <<pathToFileName(handles[h].path), b>> \in blocks \ spoilt,
                    ~InFlight(handles[h].nas, b),
                    NEW k \in BytesOf(b, handles[h].nas)
             PROVE  /\ k <= Len(cache.data[handles[h].cache])
                    /\ cache.data[handles[h].cache][k] = nas.data[handles[h].nas][k]
  BY DEF DamageConfined
<1> DEFINE p == handles[h].path
           f == pathToFileName(p)
           d == DataOf(nas, p)
           c == DataOf(cache, f)
<1>1. FileInv /\ PathInv
  BY DEF SharedInv
<1>2. /\ p \in Paths /\ h \in Handles
      /\ nas.dir[p] = handles[h].nas /\ nas.dir[p] # NoInode
      /\ cache.dir[f] = handles[h].cache /\ cache.dir[f] # NoInode
  BY <1>1, OpenFile DEF PathInv, HandleInv, Current, Opened
<1>3. Same(p)
  <2>1. ~Outdated(p)
    BY <1>2 DEF Outdated
  <2>2. FaultFile(p)
    BY <1>2 DEF FaultInv
  <2>3. QED  BY <1>2, <2>1, <2>2 DEF FaultFile
<1>4. k \in 1 .. Len(d) /\ BlockOf(k) = b
  <2> DEFINE x == BS * b
             n == Len(d)
  <2>1. b \in Nat
    BY MetaAssumption
  <2>2. /\ x \in Nat /\ BS * (b + 1) = x + BS /\ BS \in Nat /\ n \in Nat
        /\ k \in x + 1 .. Smaller(x + BS, n)
    <3>1. x \in Nat /\ BS * (b + 1) = x + BS
      BY <2>1, InBlock
    <3>2. n \in Nat
      BY <1>1, <1>2, FileBytes, NasSeq
    <3>3. k \in x + 1 .. Smaller(BS * (b + 1), n)
      BY <1>2 DEF BytesOf, DataOf
    <3>4. QED  BY <3>1, <3>2, <3>3, BlockSize
  <2> HIDE DEF x, n
  <2>3. k \in 1 .. n /\ k \in Int /\ x < k /\ k <= x + BS
    BY <2>2 DEF Smaller
  <2>4. BS * b < k /\ k <= BS * (b + 1)
    BY <2>2, <2>3 DEF x
  <2>5. QED  BY <2>1, <2>3, <2>4, InBlock DEF n
<1>5. Claimed(p, k)
  <2>1. <<f, BlockOf(k)>> \in Trusted
    BY <1>4 DEF Trusted
  <2>2. \A t \in Threads : ~Halved(req[t], p, b) /\ ~Severed(req[t], p, k)
    BY <1>2, NoneInFlight
  <2>3. QED  BY <1>4, <2>1, <2>2 DEF Claimed
<1>6. k <= Len(c) /\ c[k] = d[k]
  BY <1>3, <1>4, <1>5 DEF Same
<1>7. QED  BY <1>2, <1>6 DEF DataOf

\* What holds of every behaviour with failures.
LEMMA FaultAll ==
  ASSUME NoCollision
  PROVE  SpecFaults => []SharedInv /\ []TypeOK /\ []ForeignKey
<1>1. InitFaults => SharedInv /\ Init
  BY SharedInductive DEF InitFaults
<1>2. SharedInv /\ [NextFaults]_faultVars => SharedInv' /\ [CfsNext]_vars
  <2>1. SharedInv => FileInv
    BY DEF SharedInv
  <2>2. QED  BY <2>1, FaultSteps, FaultShares
<1>3. SpecFaults => CfsSpec /\ []SharedInv
  BY <1>1, <1>2, PTL DEF SpecFaults, CfsSpec
<1>4. CfsSpec => []TypeOK
  <2>1. FSTypeOK => TypeOK
    BY DEF FSTypeOK
  <2>2. QED  BY <2>1, FSTypeCorrect, PTL
<1>5. QED  BY <1>3, <1>4, FileSystemForeignKey, PTL

\* Whatever fails in cfs_open, cfs_read, cfs_cacheWrite, cfs_write and cfs_truncate,
\* in however many threads at a time, wherever the daemon is killed and whenever
\* another client writes a closed file: of an open file the rows that spoilt does
\* not name can be relied on.  So cfs_read, which takes a block from the cache when
\* Datablocks has it (cachefs.c:602), is wrong at most in the blocks that the
\* failing step had in hand, until they are written again.
THEOREM DamageStaysConfined ==
  ASSUME NoCollision, NoStraddle, SizesFit
  PROVE  SpecFaults => []DamageConfined
<1>1. SpecFaults => []SharedInv /\ []TypeOK /\ []ForeignKey
  BY FaultAll
<1>2. InitFaults => FaultInv
  BY FaultInductive
<1>3. /\ SharedInv /\ SharedInv' /\ TypeOK /\ TypeOK' /\ ForeignKey /\ ForeignKey'
      /\ FaultInv /\ [NextFaults]_faultVars
      => FaultInv'
  BY FaultInductive
<1>4. SharedInv /\ FaultInv => DamageConfined
  BY InvConfined
<1>5. QED  BY <1>1, <1>2, <1>3, <1>4, PTL DEF SpecFaults

\* Nor does a failure leave a file open through descriptors that are not those of
\* its name: a program gets a handle from cfs_open only with both descriptors
\* (cachefs.c:430, cachefs.c:465), and while it has it the other callbacks that
\* may run neither remove nor replace what the name stands for, failed calls or
\* not. A daemon that is killed takes its handles with it.
THEOREM HandlesCurrentWhateverFails ==
  ASSUME NoCollision  PROVE  SpecFaults => []HandlesCurrent
<1>1. SharedInv => HandlesCurrent
  BY DEF SharedInv, PathInv, HandleInv, Current, HandlesCurrent, Opened
<1>2. QED  BY <1>1, FaultAll, PTL

===========================================================================
