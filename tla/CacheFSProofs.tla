--------------------------- MODULE CacheFSProofs ---------------------------
(***************************************************************************)
(* Theorems about the file system for any number of threads, files, blocks *)
(* and open files: it uses the metadata store as Meta's SpecFS says, so    *)
(* that what MetaProofs shows of SpecFS holds for it; and every variable   *)
(* keeps its type.                                                         *)
(***************************************************************************)
EXTENDS CacheFS, MetaProofs, WellFoundedInduction, SequenceTheorems,
        FiniteSetTheorems

Fields == DOMAIN NoReq

\* The steps of cfs_read and cfs_write that are about the block in hand.
Covering == {"read_check", "read_all", "read_block", "cache_record",
             "cache_pwrite", "write_nas", "write_stat", "write_read"}

\* The locals of a callback that its calls of meta.c depend on: the path is
\* one below the mount point, and there is a block in hand.
Locals(r) ==
  /\ DOMAIN r = Fields
  /\ r.pc # "idle" => r.path \in Paths
  /\ r.pc \in {"rename_cache", "rename_nas"} => r.new \in Paths
  /\ r.todo \in SUBSET Blocks
  /\ r.pc \in Covering => /\ r.todo # {}
                          /\ RequestBlocks(r) \in (SUBSET Blocks) \ {{}}

Handle(o) ==
  /\ DOMAIN o = {"path", "nas", "cache"}
  /\ o # Closed => o.path \in Paths

HandlesInv == /\ handles = [h \in Handles |-> handles[h]]
              /\ \A h \in Handles : Handle(handles[h])

ReqInv == /\ req = [t \in Threads |-> req[t]]
          /\ \A t \in Threads : Locals(req[t])

CallbackInv == HandlesInv /\ ReqInv

---------------------------------------------------------------------------
\* The name cfs_pathToFileName makes of a path is one of Names.
LEMMA NameType == \A p \in Paths : pathToFileName(p) \in Names
  BY CacheFSAssumption

\* A callback that goes on with good locals leaves those of the others alone.
LEMMA GoKeeps ==
  ASSUME ReqInv, NEW t \in Threads, NEW r, Locals(r), Go(t, r)
  PROVE  ReqInv'
  BY DEF ReqInv, Go

\* A thread without a callback has nothing to be wrong.
LEMMA NoReqLocals == Locals(NoReq)
  BY DEF Locals, NoReq, Fields, Covering

\* So a return keeps the locals of all threads.
LEMMA ReturnKeeps ==
  ASSUME ReqInv, NEW t \in Threads, Return(t)
  PROVE  ReqInv'
  BY GoKeeps, NoReqLocals DEF Return

\* The blocks of a callback are numbers, so one of them is the first.
LEMMA FirstBlock ==
  ASSUME NEW S \in SUBSET Blocks, S # {}
  PROVE  \E b \in S : IsFirst(b, S)
<1>1. S \subseteq Nat
  BY MetaAssumption
<1>2. PICK b \in S : \A c \in S : ~ (<<c, b>> \in OpToRel(<, Nat))
  BY <1>1, NatLessThanWellFounded, WFMin
<1>3. \A c \in S : ~ (c < b)
  BY <1>1, <1>2 DEF OpToRel
<1>4. QED
  BY <1>1, <1>3 DEF IsFirst

\* The block in hand is one of those still to be handled ...
LEMMA BlockInHandType ==
  ASSUME NEW t \in Threads, Locals(req[t]), req[t].todo # {}
  PROVE  BlockInHand(t) \in req[t].todo
  BY FirstBlock DEF BlockInHand, Locals, IsFirst

\* ... and cfs_cacheWrite gets at least one block.
LEMMA WriteBlocksType ==
  ASSUME NEW t \in Threads, Locals(req[t]), req[t].todo # {}
  PROVE  WriteBlocks(t) \in (SUBSET Blocks) \ {{}}
  BY BlockInHandType DEF WriteBlocks, Locals

\* A callback goes on with the request it has.
LEMMA SameRequest ==
  ASSUME NEW q, NEW r, Locals(q), q.pc # "idle",
         DOMAIN r = Fields, r.path = q.path, r.new = q.new,
         r.off = q.off, r.len = q.len, r.todo \in SUBSET Blocks,
         r.pc \in Covering => r.todo # {} /\ q.pc \in Covering,
         r.pc \in {"rename_cache", "rename_nas"} =>
           q.pc \in {"rename_cache", "rename_nas"}
  PROVE  Locals(r)
  BY DEF Locals, RequestBlocks

\* A step that only goes on to the next one keeps the locals, ...
LEMMA PcKeeps ==
  ASSUME NEW q, Locals(q), q.pc # "idle", NEW pc,
         pc \in Covering => q.todo # {} /\ q.pc \in Covering,
         pc \in {"rename_cache", "rename_nas"} =>
           q.pc \in {"rename_cache", "rename_nas"}
  PROVE  Locals([q EXCEPT !.pc = pc])
<1> DEFINE r == [q EXCEPT !.pc = pc]
<1>1. DOMAIN q = Fields
  BY DEF Locals
<1>2. /\ DOMAIN r = Fields /\ r.pc = pc /\ r.path = q.path /\ r.new = q.new
      /\ r.off = q.off /\ r.len = q.len /\ r.todo = q.todo
  BY <1>1 DEF Fields, NoReq
<1>3. QED
  BY <1>2, SameRequest DEF Locals

\* ... and so does one that also assigns a local write_blks does not depend on.
LEMMA TwoKeep ==
  ASSUME NEW q, Locals(q), q.pc # "idle", NEW pc, NEW v,
         pc \in Covering => q.todo # {} /\ q.pc \in Covering,
         pc \notin {"rename_cache", "rename_nas"}
  PROVE  /\ Locals([q EXCEPT !.ino = v, !.pc = pc])
         /\ Locals([q EXCEPT !.pc = pc, !.present = v])
         /\ Locals([q EXCEPT !.num = v, !.pc = pc])
         /\ Locals([q EXCEPT !.buf = v, !.pc = pc])
<1>1. DOMAIN q = Fields
  BY DEF Locals
<1> DEFINE Same(r) ==
      /\ DOMAIN r = Fields /\ r.pc = pc /\ r.path = q.path /\ r.new = q.new
      /\ r.off = q.off /\ r.len = q.len /\ r.todo = q.todo
<1>2. ASSUME NEW r, Same(r) PROVE Locals(r)
  BY <1>2, SameRequest DEF Locals
<1>3. /\ Same([q EXCEPT !.ino = v, !.pc = pc])
      /\ Same([q EXCEPT !.pc = pc, !.present = v])
      /\ Same([q EXCEPT !.num = v, !.pc = pc])
      /\ Same([q EXCEPT !.buf = v, !.pc = pc])
  BY <1>1 DEF Fields, NoReq
<1>4. QED
  BY <1>2, <1>3

---------------------------------------------------------------------------
\* A step that leaves the handles alone keeps the invariant if the locals it
\* goes on with are good, ...
LEMMA Continues ==
  ASSUME CallbackInv, NEW t \in Threads, NEW r, Locals(r), Go(t, r),
         UNCHANGED handles
  PROVE  CallbackInv'
  BY GoKeeps DEF CallbackInv, HandlesInv, Handle

\* ... and if it is the return.
LEMMA Returns ==
  ASSUME CallbackInv, NEW t \in Threads, Return(t), UNCHANGED handles
  PROVE  CallbackInv'
  BY Continues, NoReqLocals DEF Return

\* The calls of meta.c that callbacks make.
LEMMA Calls ==
  ASSUME CallbackInv, NEW t \in Threads, req[t].pc # "idle"
  PROVE  /\ delete_file(t, name(t)) => NextFS
         /\ create_file(t, name(t)) => NextFS
         /\ req[t].todo # {} /\ write_blks(t, name(t), WriteBlocks(t)) => NextFS
<1>1. Locals(req[t]) /\ name(t) \in Names
  BY NameType DEF CallbackInv, ReqInv, Locals, name
<1>2. req[t].todo # {} => WriteBlocks(t) \in (SUBSET Blocks) \ {{}}
  BY <1>1, WriteBlocksType
<1>3. QED
  BY <1>1, <1>2 DEF NextFS, FSCall, WriterCall

\* cfs_open: whatever is_file_in_cache and the two lstat calls say.
LEMMA OpenKeeps ==
  ASSUME CallbackInv, NEW t \in Threads, NEW present, NEW times,
         \/ open_nas(t) \/ open_presentAs(t, present) \/ open_statAs(t, times)
         \/ open_dateAs(t, times) \/ open_unlink(t) \/ open_create(t)
         \/ open_mknod(t)
  PROVE  CallbackInv' /\ [NextFS]_metaVars
<1>1. Locals(req[t])
  BY DEF CallbackInv, ReqInv
<1>2. /\ {"open_present", "open_date", "open_create", "open_unlink",
          "open_cache", "open_stat", "open_mknod"} \cap Covering = {}
  BY DEF Covering
<1>3. CASE open_nas(t)
  <2>1. PICK i : Go(t, [req[t] EXCEPT !.ino = i, !.pc = "open_present"])
    BY <1>3 DEF open_nas
  <2>2. Locals([req[t] EXCEPT !.ino = i, !.pc = "open_present"])
    BY <1>1, <1>2, <1>3, TwoKeep DEF open_nas, Pc
  <2>3. QED
    BY <1>3, <2>1, <2>2, Continues DEF open_nas, NoFile, NoSQL
<1>4. CASE open_presentAs(t, present)
  <2>1. req[t].pc # "idle" /\ UNCHANGED handles
    BY <1>4 DEF open_presentAs, Pc, NoFile
  <2>2. Locals([req[t] EXCEPT !.pc = "open_unlink"])
    BY <1>1, <1>2, <2>1, PcKeeps
  <2>3. Locals([req[t] EXCEPT !.pc = "open_stat", !.present = present])
    BY <1>1, <1>2, <2>1, TwoKeep
  <2>4. CallbackInv'
    BY <1>4, <2>1, <2>2, <2>3, Continues, Returns DEF open_presentAs
  <2>5. QED
    BY <1>4, <2>1, <2>4, Calls DEF open_presentAs, NoSQL
<1>5. CASE open_statAs(t, times)
  <2>1. req[t].pc # "idle" /\ UNCHANGED handles /\ UNCHANGED metaVars
    BY <1>5 DEF open_statAs, Pc, NoFile, NoSQL
  <2> DEFINE pc == IF req[t].present THEN "open_date" ELSE "open_create"
  <2>2. PICK m : Go(t, [req[t] EXCEPT !.num = m, !.pc = pc])
    BY <1>5 DEF open_statAs
  <2>3. Locals([req[t] EXCEPT !.num = m, !.pc = pc])
    BY <1>1, <1>2, <2>1, TwoKeep
  <2>4. QED
    BY <2>1, <2>2, <2>3, Continues
<1>6. CASE open_dateAs(t, times)
  <2>1. req[t].pc # "idle" /\ UNCHANGED handles
    BY <1>6 DEF open_dateAs, Pc, NoFile
  <2>2. /\ Locals([req[t] EXCEPT !.pc = "open_unlink"])
        /\ Locals([req[t] EXCEPT !.pc = "open_cache"])
    BY <1>1, <1>2, <2>1, PcKeeps
  <2>3. CallbackInv'
    BY <1>6, <2>1, <2>2, Continues DEF open_dateAs
  <2>4. QED
    BY <1>6, <2>1, <2>3, Calls DEF open_dateAs, NoSQL
<1>7. CASE open_unlink(t)
  <2>1. req[t].pc # "idle" /\ UNCHANGED handles /\ UNCHANGED metaVars
    BY <1>7 DEF open_unlink, Pc, NoSQL
  <2>2. Locals([req[t] EXCEPT !.pc = "open_create"])
    BY <1>1, <1>2, <2>1, PcKeeps
  <2>3. QED
    BY <1>7, <2>1, <2>2, Continues, Returns DEF open_unlink, AfterUnlink
<1>8. CASE open_create(t)
  <2>1. req[t].pc # "idle" /\ UNCHANGED handles
    BY <1>8 DEF open_create, Pc, NoFile
  <2>2. Locals([req[t] EXCEPT !.pc = "open_mknod"])
    BY <1>1, <1>2, <2>1, PcKeeps
  <2>3. QED
    BY <1>8, <2>1, <2>2, Continues, Calls DEF open_create
<1>9. CASE open_mknod(t)
  <2>1. req[t].pc # "idle" /\ UNCHANGED handles /\ UNCHANGED metaVars
    BY <1>9 DEF open_mknod, Pc, NoSQL
  <2>2. Locals([req[t] EXCEPT !.pc = "open_cache"])
    BY <1>1, <1>2, <2>1, PcKeeps
  <2>3. QED
    BY <1>9, <2>1, <2>2, Continues DEF open_mknod
<1>10. QED
  BY <1>3, <1>4, <1>5, <1>6, <1>7, <1>8, <1>9

\* The last step of cfs_open, where the path of the request becomes that of an
\* open file.
LEMMA OpenEnds ==
  ASSUME CallbackInv, NEW t \in Threads, open_cache(t)
  PROVE  CallbackInv' /\ [NextFS]_metaVars
<1>1. ReqInv'
  BY ReturnKeeps DEF open_cache, CallbackInv
<1>2. req[t].path \in Paths
  BY DEF open_cache, Pc, CallbackInv, ReqInv, Locals
<1>3. HandlesInv'
  BY <1>2 DEF open_cache, CallbackInv, HandlesInv, Handle
<1>4. QED
  BY <1>1, <1>3 DEF open_cache, CallbackInv, NoSQL

---------------------------------------------------------------------------
\* The next block of cfs_read.
LEMMA NextReadBlockLocals ==
  ASSUME NEW t \in Threads, Locals(req[t]), req[t].pc \in Covering,
         NEW r, DOMAIN r = Fields, r.path = req[t].path, r.new = req[t].new,
         r.off = req[t].off, r.len = req[t].len, r.todo = req[t].todo
  PROVE  Locals(NextReadBlock(t, r))
<1> DEFINE rest == r.todo \ {BlockInHand(t)}
           pc   == IF rest = {} THEN "read_done" ELSE "read_block"
           s    == [r EXCEPT !.todo = rest, !.pc = pc]
<1>1. /\ DOMAIN s = Fields /\ s.path = r.path /\ s.new = r.new
      /\ s.off = r.off /\ s.len = r.len /\ s.todo = rest /\ s.pc = pc
  BY DEF Fields, NoReq
<1>2. rest \in SUBSET Blocks /\ req[t].pc # "idle"
  BY DEF Locals, Covering
<1>3. pc \in Covering => rest # {}
  BY DEF Covering
<1> HIDE DEF rest, s
<1>4. Locals(s)
  BY <1>1, <1>2, <1>3, SameRequest
<1>5. QED
  BY <1>4 DEF NextReadBlock, s, rest

\* cfs_cacheWrite, whether all of the bytes arrive or not.
LEMMA CacheWriteKeeps ==
  ASSUME CallbackInv, NEW t \in Threads, NEW n,
         cache_wait(t) \/ cache_record(t) \/ cache_pwriteAs(t, n)
  PROVE  CallbackInv' /\ [NextFS]_metaVars
<1>1. Locals(req[t])
  BY DEF CallbackInv, ReqInv
<1>2. CASE cache_wait(t)
  BY <1>2 DEF cache_wait, vars, cfsVars, metaVars, CallbackInv, HandlesInv,
              ReqInv, Handle
<1>3. CASE cache_record(t)
  <2>1. /\ req[t].pc = "cache_record" /\ UNCHANGED handles
        /\ write_blks(t, name(t), WriteBlocks(t))
        /\ Go(t, [req[t] EXCEPT !.pc = "cache_pwrite"])
    BY <1>3 DEF cache_record, Pc, NoFile
  <2>2. req[t].todo # {}
    BY <1>1, <2>1 DEF Locals, Covering
  <2>3. Locals([req[t] EXCEPT !.pc = "cache_pwrite"])
    BY <1>1, <2>1, <2>2, PcKeeps DEF Covering
  <2>4. QED
    BY <2>1, <2>2, <2>3, Continues, Calls
<1>4. CASE cache_pwriteAs(t, n)
  <2>1. req[t].pc = "cache_pwrite" /\ UNCHANGED handles /\ UNCHANGED metaVars
    BY <1>4 DEF cache_pwriteAs, Pc, NoSQL
  <2>2. Locals(NextReadBlock(t, req[t]))
    BY <1>1, <2>1, NextReadBlockLocals DEF Locals, Covering
  <2>3. QED
    BY <1>4, <2>1, <2>2, Continues, Returns DEF cache_pwriteAs
<1>5. QED
  BY <1>2, <1>3, <1>4

\* cfs_read: whatever the SELECTs and the preads return.
LEMMA ReadKeeps ==
  ASSUME CallbackInv, NEW t \in Threads, NEW found, NEW bytes, NEW n,
         \/ read_checkAs(t, found) \/ read_allAs(t, bytes, n)
         \/ read_blockAs(t, bytes, n) \/ read_done(t)
  PROVE  CallbackInv' /\ [NextFS]_metaVars
<1>1. Locals(req[t]) /\ DOMAIN req[t] = Fields
  BY DEF CallbackInv, ReqInv, Locals
<1>2. CASE read_checkAs(t, found)
  <2>1. req[t].pc = "read_check" /\ UNCHANGED handles /\ UNCHANGED metaVars
    BY <1>2 DEF read_checkAs, Pc, NoFile, NoSQL
  <2>2. RequestBlocks(req[t]) \in (SUBSET Blocks) \ {{}}
    BY <1>1, <2>1 DEF Locals, Covering
  <2> DEFINE rest == req[t].todo \ {BlockInHand(t)}
             todo == IF rest = {} THEN RequestBlocks(req[t]) ELSE rest
  <2>3. PICK hits, pc : Go(t, [req[t] EXCEPT !.hits = hits, !.todo = todo,
                                             !.pc = pc])
                        /\ pc \in {"read_check", "read_all", "read_block"}
    BY <1>2 DEF read_checkAs
  <2> DEFINE s == [req[t] EXCEPT !.hits = hits, !.todo = todo, !.pc = pc]
  <2>4. /\ DOMAIN s = Fields /\ s.path = req[t].path /\ s.new = req[t].new
        /\ s.off = req[t].off /\ s.len = req[t].len /\ s.todo = todo
        /\ s.pc = pc
    BY <1>1 DEF Fields, NoReq
  <2>5. todo \in SUBSET Blocks /\ todo # {}
    BY <1>1, <2>2 DEF Locals
  <2> HIDE DEF todo, s
  <2>6. Locals(s)
    BY <1>1, <2>1, <2>3, <2>4, <2>5, SameRequest DEF Covering
  <2>7. QED
    BY <2>1, <2>3, <2>6, Continues DEF s
<1>3. CASE read_allAs(t, bytes, n)
  <2>1. req[t].pc = "read_all" /\ UNCHANGED handles /\ UNCHANGED metaVars
    BY <1>3 DEF read_allAs, Pc, NoFile, NoSQL
  <2>2. PICK buf : Go(t, [req[t] EXCEPT !.buf = buf, !.count = n,
                                        !.todo = {}, !.pc = "read_done"])
    BY <1>3 DEF read_allAs
  <2> DEFINE s == [req[t] EXCEPT !.buf = buf, !.count = n, !.todo = {},
                                 !.pc = "read_done"]
  <2>3. /\ DOMAIN s = Fields /\ s.path = req[t].path /\ s.new = req[t].new
        /\ s.off = req[t].off /\ s.len = req[t].len /\ s.todo = {}
        /\ s.pc = "read_done"
    BY <1>1 DEF Fields, NoReq
  <2> HIDE DEF s
  <2>4. Locals(s)
    BY <1>1, <2>1, <2>3, SameRequest DEF Covering
  <2>5. QED
    BY <2>1, <2>2, <2>4, Continues DEF s
<1>4. CASE read_blockAs(t, bytes, n)
  <2>1. req[t].pc = "read_block" /\ UNCHANGED handles /\ UNCHANGED metaVars
    BY <1>4 DEF read_blockAs, Pc, NoFile, NoSQL
  <2> DEFINE r == [req[t] EXCEPT !.buf = @ \o Padded(bytes, BS), !.count = @ + n]
             s == [r EXCEPT !.pc = "cache_record"]
  <2>2. \/ Go(t, NextReadBlock(t, r))
        \/ Go(t, s)
    BY <1>4 DEF read_blockAs
  <2>3. /\ DOMAIN r = Fields /\ r.path = req[t].path /\ r.new = req[t].new
        /\ r.off = req[t].off /\ r.len = req[t].len /\ r.todo = req[t].todo
        /\ r.pc = req[t].pc
    BY <1>1 DEF Fields, NoReq
  <2> HIDE DEF r
  <2>4. Locals(NextReadBlock(t, r))
    BY <1>1, <2>1, <2>3, NextReadBlockLocals DEF Covering
  <2>5. Locals(r)
    BY <1>1, <2>1, <2>3, SameRequest DEF Locals, Covering
  <2>6. Locals(s)
    BY <2>1, <2>3, <2>5, PcKeeps DEF Locals, Covering
  <2>7. QED
    BY <2>1, <2>2, <2>4, <2>6, Continues
<1>5. CASE read_done(t)
  BY <1>5, Returns DEF read_done, NoFile, NoSQL
<1>6. QED
  BY <1>2, <1>3, <1>4, <1>5

\* cfs_write: whatever its system calls return.
LEMMA WriteKeeps ==
  ASSUME CallbackInv, NEW t \in Threads, NEW n, NEW sizes, NEW bytes,
         write_nasAs(t, n) \/ write_statAs(t, sizes) \/ write_readAs(t, bytes)
  PROVE  CallbackInv' /\ [NextFS]_metaVars
<1>1. Locals(req[t])
  BY DEF CallbackInv, ReqInv
<1>2. CASE write_nasAs(t, n)
  <2>1. req[t].pc = "write_nas" /\ UNCHANGED handles /\ UNCHANGED metaVars
    BY <1>2 DEF write_nasAs, Pc, NoSQL
  <2>2. Locals([req[t] EXCEPT !.pc = "write_stat"])
    BY <1>1, <2>1, PcKeeps DEF Locals, Covering
  <2>3. QED
    BY <1>2, <2>1, <2>2, Continues DEF write_nasAs
<1>3. CASE write_statAs(t, sizes)
  <2>1. req[t].pc = "write_stat" /\ UNCHANGED handles /\ UNCHANGED metaVars
    BY <1>3 DEF write_statAs, Pc, NoFile, NoSQL
  <2>2. PICK num : Go(t, [req[t] EXCEPT !.pc = "write_read", !.num = num])
    BY <1>3 DEF write_statAs
  <2> DEFINE s == [req[t] EXCEPT !.pc = "write_read", !.num = num]
  <2>3. /\ DOMAIN s = Fields /\ s.path = req[t].path /\ s.new = req[t].new
        /\ s.off = req[t].off /\ s.len = req[t].len /\ s.todo = req[t].todo
        /\ s.pc = "write_read"
    BY <1>1 DEF Locals, Fields, NoReq
  <2> HIDE DEF s
  <2>4. Locals(s)
    BY <1>1, <2>1, <2>3, SameRequest DEF Locals, Covering
  <2>5. QED
    BY <2>1, <2>2, <2>4, Continues DEF s
<1>4. CASE write_readAs(t, bytes)
  <2>1. req[t].pc = "write_read" /\ UNCHANGED handles /\ UNCHANGED metaVars
    BY <1>4 DEF write_readAs, Pc, NoFile, NoSQL
  <2>2. PICK buf : Go(t, [req[t] EXCEPT !.buf = buf, !.pc = "cache_record"])
    BY <1>4 DEF write_readAs
  <2>3. Locals([req[t] EXCEPT !.buf = buf, !.pc = "cache_record"])
    BY <1>1, <2>1, TwoKeep DEF Locals, Covering
  <2>4. QED
    BY <2>1, <2>2, <2>3, Continues
<1>5. QED
  BY <1>2, <1>3, <1>4

---------------------------------------------------------------------------
\* cfs_unlink calls delete_file; the others leave the metadata alone.
LEMMA NameCallKeeps ==
  ASSUME CallbackInv, NEW t \in Threads,
         \/ cfs_mknod(t) \/ cfs_unlink(t) \/ cfs_truncate(t) \/ cfs_link(t)
         \/ cfs_utime(t) \/ rename_cache(t) \/ release_dig(t)
  PROVE  CallbackInv' /\ [NextFS]_metaVars
<1>1. Locals(req[t])
  BY DEF CallbackInv, ReqInv
<1>2. CASE unlink_meta(t)
  <2>1. req[t].pc = "unlink_meta" /\ UNCHANGED handles
    BY <1>2 DEF unlink_meta, Pc, NoFile
  <2>2. Locals([req[t] EXCEPT !.pc = "unlink_cache"])
    BY <1>1, <2>1, PcKeeps DEF Covering
  <2>3. QED
    BY <1>2, <2>1, <2>2, Continues, Calls DEF unlink_meta
<1>3. CASE \/ cfs_mknod(t) \/ unlink_nas(t) \/ trunc_nas(t) \/ link_nas(t)
           \/ utime_nas(t)
  BY <1>3, Returns DEF cfs_mknod, unlink_nas, trunc_nas, link_nas, utime_nas,
                       NoSQL
<1>4. CASE \/ unlink_cache(t) \/ trunc_cache(t) \/ link_cache(t)
           \/ utime_cache(t) \/ rename_cache(t) \/ release_dig(t)
  <2>1. PICK pc \in {"unlink_nas", "trunc_nas", "link_nas", "utime_nas",
                     "rename_nas", "release_close"} :
          /\ Go(t, [req[t] EXCEPT !.pc = pc])
          /\ pc = "rename_nas" => req[t].pc = "rename_cache"
          /\ req[t].pc # "idle" /\ UNCHANGED handles /\ UNCHANGED metaVars
    BY <1>4 DEF unlink_cache, trunc_cache, link_cache, utime_cache,
                rename_cache, release_dig, Pc, NoSQL
  <2>2. Locals([req[t] EXCEPT !.pc = pc])
    BY <1>1, <2>1, PcKeeps DEF Covering
  <2>3. QED
    BY <2>1, <2>2, Continues
<1>5. QED
  BY <1>2, <1>3, <1>4 DEF cfs_unlink, cfs_truncate, cfs_link, cfs_utime

\* The two steps that change the open files: a rename gives them a path below
\* the mount point.
LEMMA HandleSteps ==
  ASSUME CallbackInv, NEW t \in Threads, rename_nas(t) \/ release_close(t)
  PROVE  CallbackInv' /\ [NextFS]_metaVars
<1>1. ReqInv'
  BY ReturnKeeps DEF rename_nas, release_close, CallbackInv
<1>2. UNCHANGED metaVars
  BY DEF rename_nas, release_close, NoSQL
<1>3. CASE release_close(t)
  <2>1. handles' = [handles EXCEPT ![req[t].h] = Closed]
    BY <1>3 DEF release_close
  <2>2. HandlesInv'
    BY <2>1 DEF CallbackInv, HandlesInv, Handle, Closed
  <2>3. QED  BY <1>1, <1>2, <2>2 DEF CallbackInv
<1>4. CASE rename_nas(t)
  <2>1. req[t].new \in Paths
    BY <1>4 DEF rename_nas, Pc, CallbackInv, ReqInv, Locals
  <2>2. CASE UNCHANGED handles
    BY <1>1, <1>2, <2>2 DEF CallbackInv, HandlesInv, Handle
  <2>3. CASE handles' = Renamed(req[t].path, req[t].new)
    <3>1. ASSUME NEW h \in Handles
          PROVE  Handle(handles'[h])
      <4>1. CASE handles[h].path = req[t].path
        <5>1. handles'[h] = [handles[h] EXCEPT !.path = req[t].new]
          BY <2>3, <4>1 DEF Renamed
        <5>2. DOMAIN handles[h] = {"path", "nas", "cache"}
          BY DEF CallbackInv, HandlesInv, Handle
        <5>3. QED  BY <2>1, <5>1, <5>2 DEF Handle
      <4>2. CASE handles[h].path # req[t].path
        BY <2>3, <4>2 DEF Renamed, CallbackInv, HandlesInv, Handle
      <4>3. QED  BY <4>1, <4>2
    <3>2. handles' = [h \in Handles |-> handles'[h]]
      BY <2>3 DEF Renamed
    <3>3. QED  BY <1>1, <1>2, <3>1, <3>2 DEF CallbackInv, HandlesInv
  <2>4. QED  BY <1>4, <2>2, <2>3 DEF rename_nas
<1>5. QED  BY <1>3, <1>4

\* A statement of the call a thread is in, one that fails included.
LEMMA StatementKeeps ==
  ASSUME CallbackInv, NEW t \in Threads, MetaStep(t) \/ StatementFails(t),
         UNCHANGED cfsVars
  PROVE  CallbackInv' /\ [NextFS]_metaVars
  BY DEF NextFS, cfsVars, CallbackInv, HandlesInv, Handle, ReqInv

\* Every step of a callback that nothing fails in.
LEMMA DaemonKeeps ==
  ASSUME CallbackInv, NEW t \in Threads, Daemon(t)
  PROVE  CallbackInv' /\ [NextFS]_metaVars
<1>1. CASE cfs_open(t)
  BY <1>1, OpenKeeps, OpenEnds
  DEF cfs_open, open_present, open_stat, open_date
<1>2. CASE cfs_read(t)
  BY <1>2, ReadKeeps DEF cfs_read, read_check, read_all, read_block
<1>3. CASE cfs_write(t)
  BY <1>3, WriteKeeps DEF cfs_write, write_nas, write_stat, write_read
<1>4. CASE cfs_cacheWrite(t)
  BY <1>4, CacheWriteKeeps DEF cfs_cacheWrite, cache_pwrite
<1>5. QED
  BY <1>1, <1>2, <1>3, <1>4, NameCallKeeps, HandleSteps, StatementKeeps
  DEF Daemon, cfs_release, cfs_rename

\* Every system call that fails.
LEMMA FailureKeeps ==
  ASSUME CallbackInv, NEW t \in Threads, CallFails(t)
  PROVE  CallbackInv' /\ [NextFS]_metaVars
<1>1. Locals(req[t])
  BY DEF CallbackInv, ReqInv
<1>2. CASE call_fails(t)
  <2>1. UNCHANGED handles /\ UNCHANGED metaVars
    BY <1>2 DEF call_fails, NoFile, NoSQL
  <2>2. CASE /\ req[t].pc \in DOMAIN Follows
             /\ Go(t, [req[t] EXCEPT !.pc = Follows[@]])
    <3>1. /\ req[t].pc \in {"open_create", "open_mknod", "unlink_cache",
               "trunc_cache", "rename_cache", "link_cache", "utime_cache"}
          /\ Follows[req[t].pc] \notin Covering
          /\ Follows[req[t].pc] \in {"rename_cache", "rename_nas"} =>
               req[t].pc = "rename_cache"
      BY <2>2 DEF Follows, Covering
    <3>2. Locals([req[t] EXCEPT !.pc = Follows[req[t].pc]])
      BY <1>1, <3>1, PcKeeps
    <3>3. QED
      BY <2>1, <2>2, <3>2, Continues
  <2>3. CASE Pc(t, "open_unlink") /\ AfterUnlink(t)
    <3>1. Locals([req[t] EXCEPT !.pc = "open_create"])
      BY <1>1, <2>3, PcKeeps DEF Pc, Covering
    <3>2. QED
      BY <2>1, <2>3, <3>1, Continues, Returns DEF AfterUnlink
  <2>4. QED
    BY <1>2, <2>1, <2>2, <2>3, Returns DEF call_fails
<1>3. CASE lookup_fails(t)
  BY <1>3, OpenKeeps, ReadKeeps, WriteKeeps DEF lookup_fails
<1>4. CASE pread_fails(t)
  BY <1>4, ReadKeeps, WriteKeeps DEF pread_fails
<1>5. CASE pwrite_fails(t)
  BY <1>5, CacheWriteKeeps, WriteKeeps DEF pwrite_fails
<1>6. QED
  BY <1>2, <1>3, <1>4, <1>5 DEF CallFails

---------------------------------------------------------------------------
\* Division of a multiple of the block size.
LEMMA DivideMultiple ==
  ASSUME NEW q \in Nat
  PROVE  (BS * q) \div BS = q /\ (BS * q + BS) \div BS = q + 1
  BY MetaAssumption, SMT DEF BS

\* A request of at least a byte is about at least one block.
LEMMA SomeBlock ==
  ASSUME NEW off \in Nat, NEW len \in Nat \ {0}
  PROVE  Align!offsetArray(off, len) # {}
<1> DEFINE first == Align!alignLowerOffset(off) \div BS
           n     == Align!alignedSize(len) \div BS
<1>1. BS \in Nat \ {0}
  BY MetaAssumption DEF BS
<1>2. first \in Int
  BY <1>1, SMT DEF Align!alignLowerOffset, BS
<1>3. n \in Nat \ {0}
  <2>1. /\ len \div BS \in Nat
        /\ len % BS = 0 => len \div BS # 0
    BY <1>1, SMT
  <2>2. CASE len % BS = 0
    BY <1>1, <2>1, <2>2, DivideMultiple, SMT DEF Align!alignedSize, BS
  <2>3. CASE len % BS # 0
    BY <1>1, <2>1, <2>3, DivideMultiple, SMT DEF Align!alignedSize, BS
  <2>4. QED  BY <2>2, <2>3
<1>4. first \in first .. first + n - 1
  BY <1>2, <1>3, SMT
<1>5. QED
  BY <1>4 DEF Align!offsetArray, BS

\* A request the kernel issues.
LEMMA IssueKeeps ==
  ASSUME CallbackInv, NEW t \in Threads, NEW r, Locals(r), Issue(t, r)
  PROVE  CallbackInv' /\ [NextFS]_metaVars
  BY Continues DEF Issue, NoFile, NoSQL

\* Its locals: only the step it starts with and the path matter ...
LEMMA PathRequests ==
  ASSUME NEW p \in Paths, NEW q \in Paths, NEW h, NEW n
  PROVE
    /\ Locals([NoReq EXCEPT !.op = "mknod", !.pc = "mknod", !.path = p])
    /\ Locals([NoReq EXCEPT !.op = "open", !.pc = "open_nas", !.path = p,
                            !.h = h])
    /\ Locals([NoReq EXCEPT !.op = "truncate", !.pc = "trunc_cache",
                            !.path = p, !.h = h, !.len = n])
    /\ Locals([NoReq EXCEPT !.op = "unlink", !.pc = "unlink_meta", !.path = p])
    /\ Locals([NoReq EXCEPT !.op = "rename", !.pc = "rename_cache", !.path = p,
                            !.new = q])
    /\ Locals([NoReq EXCEPT !.op = "link", !.pc = "link_cache", !.path = p,
                            !.new = q])
    /\ Locals([NoReq EXCEPT !.op = "utime", !.pc = "utime_cache", !.path = p,
                            !.num = n])
    /\ Locals([NoReq EXCEPT !.op = "release", !.pc = "release_dig",
                            !.path = p, !.h = h])
  BY DEF Locals, NoReq, Fields, Covering

\* ... and for cfs_read and cfs_write the blocks.
LEMMA BlockRequests ==
  ASSUME NEW p \in Paths, NEW h, NEW v, NEW off \in Nat, NEW len \in Nat \ {0},
         Align!offsetArray(off, len) \subseteq Blocks
  PROVE
    LET r == [NoReq EXCEPT !.op = "read", !.pc = "read_check", !.path = p,
                           !.h = h, !.off = off, !.len = len]
        w == [NoReq EXCEPT !.op = "write", !.pc = "write_nas", !.path = p,
                           !.h = h, !.off = off, !.len = len, !.val = v]
    IN /\ Locals([r EXCEPT !.todo = RequestBlocks(r)])
       /\ Locals([w EXCEPT !.todo = RequestBlocks(w)])
<1> DEFINE B == Align!offsetArray(off, len)
           Good(r) == /\ DOMAIN r = Fields /\ r.path = p /\ r.pc \in Covering
                      /\ r.off = off /\ r.len = len
           r == [NoReq EXCEPT !.op = "read", !.pc = "read_check", !.path = p,
                              !.h = h, !.off = off, !.len = len]
           w == [NoReq EXCEPT !.op = "write", !.pc = "write_nas", !.path = p,
                              !.h = h, !.off = off, !.len = len, !.val = v]
<1>1. Good(r) /\ Good(w)
  BY DEF NoReq, Fields, Covering
<1>2. B \in (SUBSET Blocks) \ {{}}
  BY SomeBlock
<1>3. ASSUME NEW s, Good(s)
      PROVE  Locals([s EXCEPT !.todo = RequestBlocks(s)])
  <2> DEFINE u == [s EXCEPT !.todo = B]
  <2>1. RequestBlocks(s) = B
    BY <1>3 DEF RequestBlocks
  <2>2. Good(u) /\ u.todo = B /\ u.pc = s.pc
    BY <1>3 DEF Fields, NoReq
  <2> HIDE DEF u, B
  <2>3. RequestBlocks(u) = B
    BY <2>2 DEF RequestBlocks, B
  <2>4. Locals(u)
    BY <1>2, <2>2, <2>3 DEF Locals, Covering
  <2>5. QED  BY <2>1, <2>4 DEF u
<1> HIDE DEF r, w
<1>4. QED
  BY <1>1, <1>3 DEF r, w

\* Whatever the kernel asks for, the callback starts with good locals.
LEMMA StartKeeps ==
  ASSUME CallbackInv, NEW t \in Threads, Starts(t)
  PROVE  CallbackInv' /\ [NextFS]_metaVars
<1>1. \A h \in Opened : handles[h].path \in Paths
  BY DEF Opened, CallbackInv, HandlesInv, Handle
<1>2. ASSUME NEW p \in Paths, NEW q \in Paths,
             \/ StartMknod(t, p) \/ StartUnlink(t, p)
             \/ StartRename(t, p, q) \/ StartLink(t, p, q)
      PROVE  CallbackInv' /\ [NextFS]_metaVars
  BY <1>2, IssueKeeps, PathRequests
  DEF StartMknod, StartUnlink, StartRename, StartLink
<1>3. ASSUME NEW p \in Paths, NEW h, NEW n,
             StartOpen(t, p, h) \/ StartUtime(t, p, n) \/ StartTruncate(t, p, h, n)
      PROVE  CallbackInv' /\ [NextFS]_metaVars
  <2>1. CASE StartOpen(t, p, h)
    BY <2>1, IssueKeeps, PathRequests DEF StartOpen
  <2>2. CASE StartUtime(t, p, n)
    BY <2>2, IssueKeeps, PathRequests DEF StartUtime
  <2>3. CASE StartTruncate(t, p, h, n)
    <3> DEFINE r == [NoReq EXCEPT !.op = "truncate", !.pc = "trunc_cache",
                                  !.path = p, !.h = h, !.len = n]
    <3>1. Locals(r)
      BY PathRequests
    <3>2. Issue(t, r)
      BY <2>3 DEF StartTruncate
    <3>3. QED  BY <3>1, <3>2, IssueKeeps
  <2>4. QED  BY <1>3, <2>1, <2>2, <2>3
<1>4. ASSUME NEW h \in Opened, StartRelease(t, h)
      PROVE  CallbackInv' /\ [NextFS]_metaVars
  BY <1>1, <1>4, IssueKeeps, PathRequests DEF StartRelease
<1>5. ASSUME NEW h \in Opened, NEW off \in 0 .. MaxSize,
             NEW len \in 1 .. MaxSize + BS, NEW v,
             Align!offsetArray(off, len) \subseteq Blocks,
             StartRead(t, h, off, len) \/ StartWrite(t, h, off, len, v)
      PROVE  CallbackInv' /\ [NextFS]_metaVars
  <2>1. off \in Nat /\ len \in Nat \ {0}
    BY SMT
  <2> DEFINE p == handles[h].path
             r == [NoReq EXCEPT !.op = "read", !.pc = "read_check", !.path = p,
                                !.h = h, !.off = off, !.len = len]
             w == [NoReq EXCEPT !.op = "write", !.pc = "write_nas", !.path = p,
                                !.h = h, !.off = off, !.len = len, !.val = v]
  <2>2. /\ Locals([r EXCEPT !.todo = RequestBlocks(r)])
        /\ Locals([w EXCEPT !.todo = RequestBlocks(w)])
    BY <1>1, <1>5, <2>1, BlockRequests
  <2>3. \/ Issue(t, [r EXCEPT !.todo = RequestBlocks(r)])
        \/ Issue(t, [w EXCEPT !.todo = RequestBlocks(w)])
    BY <1>5 DEF StartRead, StartWrite
  <2> HIDE DEF r, w
  <2>4. QED
    BY <2>2, <2>3, IssueKeeps
<1>6. QED
  BY <1>2, <1>3, <1>4, <1>5 DEF Starts

---------------------------------------------------------------------------
\* CallbackInv is inductive, and under it a step of the file system is for the
\* metadata store a step of SpecFS or none.
LEMMA CallbackInductive ==
  /\ Init => CallbackInv
  /\ CallbackInv /\ [CfsNext]_vars => CallbackInv' /\ [NextFS]_metaVars
<1>1. Init => CallbackInv
  BY NoReqLocals DEF Init, CallbackInv, HandlesInv, Handle, Closed, ReqInv
<1>2. ASSUME CallbackInv, [CfsNext]_vars
      PROVE  CallbackInv' /\ [NextFS]_metaVars
  <2>1. CASE Tick \/ \E p \in Paths, off \in 0 .. MaxSize - 1, v \in Values \cup {Zero},
               nasClock \in 0 .. MaxTime : RemoteWrite(p, off, v, nasClock)
    BY <1>2, <2>1 DEF Tick, RemoteWrite, NoSQL, CallbackInv, HandlesInv,
                      Handle, ReqInv
  <2>2. CASE Crash
    BY <2>2, NoReqLocals DEF Crash, NextFS, CallbackInv, HandlesInv, Handle,
                             Closed, ReqInv
  <2>3. CASE UNCHANGED vars
    BY <1>2, <2>3 DEF vars, cfsVars, CallbackInv, HandlesInv, Handle, ReqInv
  <2>4. QED
    BY <1>2, <2>1, <2>2, <2>3, DaemonKeeps, FailureKeeps, StatementKeeps,
       StartKeeps DEF CfsNext, SQLFails
<1>3. QED  BY <1>1, <1>2

\* The callbacks use the metadata store as it is meant to be used: one call of
\* one thread at a time, for files below the mount point and for blocks there
\* are, whatever fails and wherever the daemon is killed (cachefs.c:224,
\* cachefs.c:437, cachefs.c:453, cachefs.c:461, cachefs.c:520).
THEOREM FileSystemUsesMeta == CfsSpec => SpecFS
<1>1. Init => MetaInit
  BY DEF Init
<1>2. QED
  BY <1>1, CallbackInductive, PTL DEF CfsSpec, SpecFS

\* So no row of Datablocks is ever without its row of Files ...
THEOREM FileSystemForeignKey == CfsSpec => []ForeignKey
<1>1. NextFS => Next
  BY DEF NextFS, Next, APICall
<1>2. SpecFS => Spec
  BY <1>1, PTL DEF SpecFS, Spec
<1>3. QED
  BY <1>2, FileSystemUsesMeta, ForeignKeyCorrect, PTL

\* ... and no local_size is negative, with callbacks that overlap, fail and are
\* killed: str_to_num lets the next mount go on (meta.c:160).
THEOREM FileSystemSizes == CfsSpec => []SizesNonNegative
  BY FileSystemUsesMeta, SizesCorrect, PTL

---------------------------------------------------------------------------
(***************************************************************************)
(* Every variable of the file system keeps its type, whatever callbacks    *)
(* overlap, fail and are killed: no request reads or writes through a      *)
(* descriptor that is closed, and no malloc'ed byte reaches the NAS.       *)
(***************************************************************************)
\* The steps of each callback.
StepOfOp(r) ==
  \/ r.op = "none"     /\ r.pc = "idle"
  \/ r.op = "mknod"    /\ r.pc = "mknod"
  \/ r.op = "open"     /\ r.pc \in {"open_nas", "open_present", "open_stat",
                                    "open_date", "open_unlink", "open_create",
                                    "open_mknod", "open_cache"}
  \/ r.op = "read"     /\ r.pc \in {"read_check", "read_all", "read_block",
                                    "read_done", "cache_record", "cache_pwrite"}
  \/ r.op = "write"    /\ r.pc \in {"write_nas", "write_stat", "write_read",
                                    "cache_record", "cache_pwrite"}
  \/ r.op = "truncate" /\ r.pc \in {"trunc_cache", "trunc_nas"}
  \/ r.op = "unlink"   /\ r.pc \in {"unlink_meta", "unlink_cache", "unlink_nas"}
  \/ r.op = "rename"   /\ r.pc \in {"rename_cache", "rename_nas"}
  \/ r.op = "link"     /\ r.pc \in {"link_cache", "link_nas"}
  \/ r.op = "utime"    /\ r.pc \in {"utime_cache", "utime_nas"}
  \/ r.op = "release"  /\ r.pc \in {"release_dig", "release_close"}

\* The locals: past the check of the NAS open cfs_open has a descriptor; the
\* buffer that cfs_read passes to cfs_cacheWrite has at least a block.
LocalTypes(r) ==
  /\ r.off \in Nat /\ r.len \in Nat /\ r.num \in Int
  /\ r.op \in {"write", "truncate"} => r.off + r.len <= MaxSize
  /\ r.val \in Values \cup {Zero}
  /\ r.ino \in Inodes \cup {NoInode}
  /\ r.pc \in {"open_stat", "open_date", "open_create", "open_mknod",
               "open_cache"} => r.ino # NoInode
  /\ r.buf \in Seq(ByteSet)
  /\ r.op = "read" /\ r.pc \in {"cache_record", "cache_pwrite"} =>
       Len(r.buf) >= BS
  /\ r.op = "utime" => r.num \in 0 .. MaxTime

Typed(r) == StepOfOp(r) /\ LocalTypes(r)

\* A request by handle has it open; cfs_open opens one that is closed.
HasOpen(r, o) ==
  /\ \/ r.op \in {"read", "write", "release"}
     \/ r.op = "truncate" /\ r.h # NoHandle
     => r.h \in Handles /\ o # Closed
  /\ r.op = "open" => r.h \in Handles /\ o = Closed

HandleType(o) == o # Closed => o.nas \in Inodes /\ o.cache \in Inodes

FileSystem(fs, names, bytes) ==
  /\ DOMAIN fs = {"dir", "data", "mtime"}
  /\ fs.dir \in [names -> Inodes \cup {NoInode}]
  /\ fs.data \in [Inodes -> Seq(bytes)]
  /\ fs.mtime \in [Inodes -> 0 .. MaxTime]

\* The bytes programs write, and holes.
NasBytes == Values \cup {Zero}

DirsInv == /\ FileSystem(nas, Paths, NasBytes)
           /\ \A i \in Inodes : Len(nas.data[i]) <= MaxSize
           /\ FileSystem(cache, Names, ByteSet)
           /\ clock \in 0 .. MaxTime

\* A handle that is opened or closed is in the hands of one request.
OwnsInv == \A t, u \in Threads :
  t # u /\ req[t].op \in {"open", "release"} => req[u].h # req[t].h

RequestsInv == /\ \A t \in Threads : Typed(req[t]) /\ HasOpen(req[t], fh(t))
               /\ OwnsInv
               /\ \A h \in Handles : HandleType(handles[h])

---------------------------------------------------------------------------
\* A block has bytes.
LEMMA BlockSize == BS \in Nat \ {0} /\ MaxSize \in Nat \ {0} /\ MaxTime \in Nat
  BY MetaAssumption, CacheFSAssumption DEF BS

\* A file gets other bytes and another time; a descriptor that is none changes
\* nothing.
LEMMA InodeChanges ==
  ASSUME NEW fs, NEW names, NEW B, FileSystem(fs, names, B),
         NEW i, NEW d, i \in Inodes => d \in Seq(B), NEW m \in 0 .. MaxTime
  PROVE  /\ FileSystem([fs EXCEPT !.data[i] = d, !.mtime[i] = m], names, B)
         /\ FileSystem([fs EXCEPT !.mtime[i] = m], names, B)
         /\ \A j \in Inodes : [fs EXCEPT !.data[i] = d, !.mtime[i] = m].data[j]
                                = IF j = i THEN d ELSE fs.data[j]
  BY DEF FileSystem

\* pwrite and ftruncate give sequences of bytes.
LEMMA WrittenType ==
  ASSUME NEW B, Zero \in B, NEW old \in Seq(B), NEW off \in Nat,
         NEW bytes \in Seq(B), NEW n \in Nat
  PROVE  /\ [k \in 1 .. Larger(Len(old), off + Len(bytes)) |->
               IF k \in off + 1 .. off + Len(bytes) THEN bytes[k - off]
               ELSE IF k <= Len(old) THEN old[k] ELSE Zero] \in Seq(B)
         /\ [k \in 1 .. n |-> IF k <= Len(old) THEN old[k] ELSE Zero] \in Seq(B)
<1>1. ASSUME NEW m \in Nat, NEW e(_), \A k \in 1 .. m : e(k) \in B
      PROVE  [k \in 1 .. m |-> e(k)] \in Seq(B)
  BY <1>1, IsASeq
<1>2. Larger(Len(old), off + Len(bytes)) \in Nat
  BY LenProperties DEF Larger
<1>3. QED
  BY <1>1, <1>2, LenProperties, ElementOfSeq

\* So the calls on an inode keep the types, ...
LEMMA InodeCalls ==
  ASSUME NEW fs, NEW names, NEW B, FileSystem(fs, names, B), Zero \in B,
         NEW i, NEW off \in Nat, NEW bytes \in Seq(B), NEW n \in Nat,
         NEW m \in 0 .. MaxTime
  PROVE  /\ FileSystem(Pwrite(fs, i, off, bytes, m), names, B)
         /\ FileSystem(Ftruncate(fs, i, n, m), names, B)
         /\ FileSystem(Utime(fs, i, m), names, B)
         /\ \A j \in Inodes :
              /\ j # i => /\ Pwrite(fs, i, off, bytes, m).data[j] = fs.data[j]
                          /\ Ftruncate(fs, i, n, m).data[j] = fs.data[j]
              /\ Len(Pwrite(fs, i, off, bytes, m).data[j]) <=
                   Larger(Len(fs.data[j]), off + Len(bytes))
              /\ Len(Ftruncate(fs, i, n, m).data[j]) <= Larger(Len(fs.data[j]), n)
<1> DEFINE old == fs.data[i]
           w == [k \in 1 .. Larger(Len(old), off + Len(bytes)) |->
                   IF k \in off + 1 .. off + Len(bytes) THEN bytes[k - off]
                   ELSE IF k <= Len(old) THEN old[k] ELSE Zero]
           z == [k \in 1 .. n |-> IF k <= Len(old) THEN old[k] ELSE Zero]
<1>1. Pwrite(fs, i, off, bytes, m) = [fs EXCEPT !.data[i] = w, !.mtime[i] = m]
  BY DEF Pwrite
<1>2. Ftruncate(fs, i, n, m) = [fs EXCEPT !.data[i] = z, !.mtime[i] = m]
  BY DEF Ftruncate
<1>3. Utime(fs, i, m) = [fs EXCEPT !.mtime[i] = m]
  BY DEF Utime
<1>4. ASSUME i \in Inodes
      PROVE  /\ w \in Seq(B) /\ Len(w) = Larger(Len(old), off + Len(bytes))
             /\ z \in Seq(B) /\ Len(z) = n
  <2>1. old \in Seq(B)
    BY <1>4 DEF FileSystem
  <2>2. w \in Seq(B) /\ z \in Seq(B)
    BY <2>1, WrittenType
  <2>3. Larger(Len(old), off + Len(bytes)) \in Nat
    BY <2>1, LenProperties DEF Larger
  <2>4. QED  BY <2>2, <2>3, LenProperties
<1>5. \A j \in Inodes : Len(fs.data[j]) \in Nat
  BY LenProperties DEF FileSystem
<1>6. Len(bytes) \in Nat
  BY LenProperties
<1> HIDE DEF w, z
<1>7. /\ FileSystem([fs EXCEPT !.data[i] = w, !.mtime[i] = m], names, B)
      /\ FileSystem([fs EXCEPT !.data[i] = z, !.mtime[i] = m], names, B)
      /\ FileSystem([fs EXCEPT !.mtime[i] = m], names, B)
  BY <1>4, InodeChanges
<1>8. \A j \in Inodes :
        /\ [fs EXCEPT !.data[i] = w, !.mtime[i] = m].data[j]
              = IF j = i THEN w ELSE fs.data[j]
        /\ [fs EXCEPT !.data[i] = z, !.mtime[i] = m].data[j]
              = IF j = i THEN z ELSE fs.data[j]
  <2>1. \A j \in Inodes : [fs EXCEPT !.data[i] = w, !.mtime[i] = m].data[j]
                             = IF j = i THEN w ELSE fs.data[j]
    BY DEF FileSystem
  <2>2. \A j \in Inodes : [fs EXCEPT !.data[i] = z, !.mtime[i] = m].data[j]
                             = IF j = i THEN z ELSE fs.data[j]
    BY DEF FileSystem
  <2>3. QED  BY <2>1, <2>2
<1>9. ASSUME NEW j \in Inodes
      PROVE  /\ Len(IF j = i THEN w ELSE fs.data[j])
                  <= Larger(Len(fs.data[j]), off + Len(bytes))
             /\ Len(IF j = i THEN z ELSE fs.data[j]) <= Larger(Len(fs.data[j]), n)
  BY <1>4, <1>5, <1>6 DEF Larger
<1>10. QED
  BY <1>1, <1>2, <1>3, <1>7, <1>8, <1>9

\* ... and so do those on names.
LEMMA NameCalls ==
  ASSUME NEW fs, NEW names, NEW B, FileSystem(fs, names, B),
         NEW f \in names, NEW g
  PROVE  /\ FileSystem(Unlink(fs, f), names, B)
         /\ Unlink(fs, f).data = fs.data
         /\ FileSystem(Rename(fs, f, g), names, B)
         /\ Rename(fs, f, g).data = fs.data
         /\ FileSystem(Link(fs, f, g), names, B)
         /\ Link(fs, f, g).data = fs.data
<1>1. FileSystem(Unlink(fs, f), names, B) /\ Unlink(fs, f).data = fs.data
  BY DEF FileSystem, Unlink
<1>2. FileSystem(Rename(fs, f, g), names, B) /\ Rename(fs, f, g).data = fs.data
  BY DEF FileSystem, Rename
<1>3. FileSystem(Link(fs, f, g), names, B) /\ Link(fs, f, g).data = fs.data
  BY DEF FileSystem, Link
<1>4. QED  BY <1>1, <1>2, <1>3

\* A new file is empty.
LEMMA CreateType ==
  ASSUME NEW fs, NEW names, NEW B, FileSystem(fs, names, B),
         NEW f \in names, NEW held, NEW m \in 0 .. MaxTime
  PROVE  /\ FileSystem(Create(fs, f, held, m), names, B)
         /\ \A j \in Inodes : Len(Create(fs, f, held, m).data[j]) <= Len(fs.data[j])
<1>1. \A j \in Inodes : Len(fs.data[j]) \in Nat
  BY LenProperties DEF FileSystem
<1> DEFINE free == Inodes \ (held \cup {fs.dir[n] : n \in DOMAIN fs.dir})
           i    == CHOOSE j \in free : TRUE
           new  == [fs EXCEPT !.dir[f] = i, !.data[i] = <<>>, !.mtime[i] = m]
<1>2. CASE fs.dir[f] # NoInode \/ free = {}
  <2>1. Create(fs, f, held, m) = fs
    BY <1>2 DEF Create
  <2>2. QED  BY <1>1, <2>1
<1>3. CASE ~ (fs.dir[f] # NoInode \/ free = {})
  <2>1. Create(fs, f, held, m) = new
    BY <1>3 DEF Create
  <2>2. i \in Inodes
    BY <1>3
  <2>3. <<>> \in Seq(B) /\ Len(<<>>) = 0
    OBVIOUS
  <2> HIDE DEF i
  <2>4. FileSystem(new, names, B)
    BY <2>2, <2>3 DEF FileSystem
  <2>5. \A j \in Inodes : new.data[j] = IF j = i THEN <<>> ELSE fs.data[j]
    BY <2>2 DEF FileSystem
  <2>6. QED  BY <1>1, <2>1, <2>3, <2>4, <2>5
<1>4. QED  BY <1>2, <1>3

\* pread gives bytes of the file, at most as many as asked for; malloc'ed memory
\* takes the rest.
LEMMA PreadType ==
  ASSUME NEW fs, NEW names, NEW B, FileSystem(fs, names, B), B \subseteq ByteSet,
         NEW i \in Inodes, NEW off \in Nat, NEW size \in Int
  PROVE  Pread(fs, i, off, size) \in Seq(ByteSet)
<1>1. fs.data[i] \in Seq(B) /\ Len(fs.data[i]) \in Nat
  BY LenProperties DEF FileSystem
<1> DEFINE n == Smaller(off + size, Len(fs.data[i]))
<1>2. n \in Int /\ n <= Len(fs.data[i])
  BY <1>1 DEF Smaller
<1>3. fs.data[i] \in Seq(ByteSet)
  BY <1>1, SeqMonotonic
<1> HIDE DEF n
<1>4. \A k \in off + 1 .. n : fs.data[i][k] \in ByteSet
  BY <1>1, <1>2, <1>3, ElementOfSeq
<1>5. SubSeq(fs.data[i], off + 1, n) \in Seq(ByteSet)
  BY <1>1, <1>2, <1>3, <1>4, SubSeqProperties
<1>6. QED  BY <1>5 DEF Pread, n

\* Junk makes a short buffer as long as it was asked for.
LEMMA PaddedType ==
  ASSUME NEW bytes \in Seq(ByteSet), NEW n \in Int
  PROVE  Padded(bytes, n) \in Seq(ByteSet) /\ Len(Padded(bytes, n)) >= n
<1>1. Len(bytes) \in Nat
  BY LenProperties
<1> DEFINE m    == n - Len(bytes)
           fill == [k \in 1 .. m |-> Junk]
           size == IF m > 0 THEN m ELSE 0
<1>2. fill \in Seq(ByteSet) /\ Len(fill) = size
  <2>1. size \in Nat /\ 1 .. m = 1 .. size
    BY <1>1
  <2>2. fill \in [1 .. size -> ByteSet]
    BY <2>1 DEF ByteSet
  <2>3. fill \in Seq(ByteSet)
    BY <2>1, <2>2, SeqDef
  <2>4. DOMAIN fill = 1 .. Len(fill) /\ Len(fill) \in Nat
    BY <2>3, LenProperties
  <2> HIDE DEF fill
  <2>5. QED  BY <2>1, <2>2, <2>3, <2>4
<1> HIDE DEF fill
<1>3. bytes \o fill \in Seq(ByteSet) /\ Len(bytes \o fill) = Len(bytes) + Len(fill)
  BY <1>2, ConcatProperties
<1>4. Padded(bytes, n) = bytes \o fill
  BY DEF Padded, fill
<1>5. QED  BY <1>1, <1>2, <1>3, <1>4

---------------------------------------------------------------------------
\* A thread without a callback has nothing of a wrong type.
LEMMA NoReqTyped ==
  /\ Typed(NoReq) /\ \A o : HasOpen(NoReq, o)
  /\ NoReq.op = "none" /\ NoReq.h = NoHandle
  /\ DOMAIN NoReq = Fields
<1>1. NoReq.buf = <<>> /\ <<>> \in Seq(ByteSet)
  BY DEF NoReq
<1>2. QED
  BY <1>1 DEF Typed, StepOfOp, LocalTypes, HasOpen, NoReq, Fields, NasBytes

\* A callback returns, or goes on with the request it has.
LEMMA RequestGoesOn ==
  ASSUME CallbackInv, RequestsInv, NEW t \in Threads, NEW r, Go(t, r),
         UNCHANGED handles,
         \/ r = NoReq
         \/ Typed(r) /\ r.op = req[t].op /\ r.h = req[t].h
  PROVE  RequestsInv'
<1>1. /\ DOMAIN req = Threads /\ req'[t] = r
      /\ \A u \in Threads \ {t} : req'[u] = req[u]
  BY DEF Go, CallbackInv, ReqInv
<1>2. /\ Typed(r) /\ HasOpen(r, handles[r.h])
      /\ \/ r.op = "none" /\ r.h = NoHandle
         \/ r.op = req[t].op /\ r.h = req[t].h
  <2>1. CASE r = NoReq
    BY <2>1, NoReqTyped
  <2>2. CASE r # NoReq
    BY <2>2 DEF RequestsInv, HasOpen, fh
  <2>3. QED  BY <2>1, <2>2
<1>3. \A u \in Threads : Typed(req'[u]) /\ HasOpen(req'[u], fh(u)')
  BY <1>1, <1>2 DEF RequestsInv, fh
<1>4. ASSUME NEW a \in Threads, NEW u \in Threads, a # u,
             req'[a].op \in {"open", "release"}
      PROVE  req'[u].h # req'[a].h
  <2>1. /\ req'[a].op = req[a].op /\ req'[a].h = req[a].h
        /\ req'[u].h \in {req[u].h, NoHandle}
    BY <1>1, <1>2, <1>4
  <2>2. req[a].h \in Handles /\ req[u].h # req[a].h
    BY <1>4, <2>1 DEF RequestsInv, OwnsInv, HasOpen
  <2>3. QED  BY <2>1, <2>2, CacheFSAssumption
<1>5. QED  BY <1>3, <1>4 DEF RequestsInv, OwnsInv

\* A step of cfs_open to another that needs no more of the descriptor.
LEMMA OpenStepTyped ==
  ASSUME NEW q, Typed(q), q.op = "open", NEW r,
         r.op = "open", r.off = q.off, r.len = q.len, r.val = q.val,
         r.ino = q.ino, r.buf = q.buf, r.num \in Int, r.ino # NoInode,
         r.pc \in {"open_date", "open_create", "open_mknod", "open_cache"}
  PROVE  Typed(r)
<1>1. StepOfOp(r)
  BY DEF StepOfOp
<1>2. LocalTypes(r)
  BY DEF Typed, LocalTypes
<1>3. QED  BY <1>1, <1>2 DEF Typed

\* cfs_open, with whatever is_file_in_cache and the two lstat calls say.
LEMMA OpenTyped ==
  ASSUME CallbackInv, DirsInv, RequestsInv, NEW t \in Threads,
         NEW present, NEW times \in SUBSET (0 .. MaxTime),
         \/ open_nas(t) \/ open_presentAs(t, present) \/ open_statAs(t, times)
         \/ open_dateAs(t, times) \/ open_unlink(t) \/ open_create(t)
         \/ open_mknod(t)
  PROVE  RequestsInv'
<1>1. DOMAIN req[t] = Fields /\ Typed(req[t])
  BY DEF CallbackInv, ReqInv, Locals, RequestsInv
<1>2. CASE open_nas(t)
  <2>1. req[t].path \in Paths
    BY <1>2 DEF open_nas, Pc, CallbackInv, ReqInv, Locals
  <2>2. PICK i \in Inodes \cup {NoInode} :
          Go(t, [req[t] EXCEPT !.ino = i, !.pc = "open_present"])
    BY <1>2, <2>1 DEF open_nas, DirsInv, FileSystem
  <2>3. Pc(t, "open_nas") /\ UNCHANGED handles
    BY <1>2 DEF open_nas, NoFile
  <2>4. QED
    BY <1>1, <2>2, <2>3, RequestGoesOn
    DEF Pc, Typed, StepOfOp, LocalTypes, Fields, NoReq
<1>3. CASE open_presentAs(t, present)
  <2>1. Pc(t, "open_present") /\ UNCHANGED handles
    BY <1>3 DEF open_presentAs, NoFile
  <2>2. \/ Go(t, [req[t] EXCEPT !.pc = "open_unlink"])
        \/ Go(t, NoReq)
        \/ /\ req[t].ino # NoInode
           /\ Go(t, [req[t] EXCEPT !.pc = "open_stat", !.present = present])
    BY <1>3 DEF open_presentAs, Return
  <2>3. QED
    BY <1>1, <2>1, <2>2, RequestGoesOn
    DEF Pc, Typed, StepOfOp, LocalTypes, Fields, NoReq
<1>4. CASE open_statAs(t, times)
  <2>1. Pc(t, "open_stat") /\ UNCHANGED handles
    BY <1>4 DEF open_statAs, NoFile
  <2>2. PICK m \in times, pc \in {"open_date", "open_create"} :
          Go(t, [req[t] EXCEPT !.num = m, !.pc = pc])
    BY <1>4 DEF open_statAs
  <2> DEFINE r == [req[t] EXCEPT !.num = m, !.pc = pc]
  <2>3. /\ r.op = req[t].op /\ r.h = req[t].h /\ r.pc = pc /\ r.num = m
        /\ r.off = req[t].off /\ r.len = req[t].len /\ r.val = req[t].val
        /\ r.ino = req[t].ino /\ r.buf = req[t].buf
    BY <1>1 DEF Fields, NoReq
  <2>4. m \in Int
    OBVIOUS
  <2> HIDE DEF r
  <2>5. Typed(r)
    <3>1. req[t].op = "open" /\ req[t].ino # NoInode
      BY <1>1, <2>1 DEF Pc, Typed, StepOfOp, LocalTypes
    <3>2. QED  BY <1>1, <2>2, <2>3, <2>4, <3>1, OpenStepTyped
  <2>6. QED  BY <2>1, <2>2, <2>3, <2>5, RequestGoesOn DEF r
<1>5. CASE open_dateAs(t, times)
  <2>1. Pc(t, "open_date") /\ UNCHANGED handles
    BY <1>5 DEF open_dateAs, NoFile
  <2>2. PICK pc \in {"open_unlink", "open_cache"} :
          Go(t, [req[t] EXCEPT !.pc = pc])
    BY <1>5 DEF open_dateAs
  <2>3. QED
    BY <1>1, <2>1, <2>2, RequestGoesOn
    DEF Pc, Typed, StepOfOp, LocalTypes, Fields, NoReq
<1>6. CASE open_unlink(t)
  <2>1. Pc(t, "open_unlink") /\ UNCHANGED handles
    BY <1>6 DEF open_unlink
  <2>2. \/ Go(t, NoReq)
        \/ /\ req[t].ino # NoInode
           /\ Go(t, [req[t] EXCEPT !.pc = "open_create"])
    BY <1>6 DEF open_unlink, AfterUnlink, Return
  <2>3. QED
    BY <1>1, <2>1, <2>2, RequestGoesOn
    DEF Pc, Typed, StepOfOp, LocalTypes, Fields, NoReq
<1>7. CASE open_create(t) \/ open_mknod(t)
  <2>1. PICK pc \in {"open_mknod", "open_cache"} :
          /\ Go(t, [req[t] EXCEPT !.pc = pc]) /\ UNCHANGED handles
          /\ req[t].pc \in {"open_create", "open_mknod"}
    BY <1>7 DEF open_create, open_mknod, NoFile, Pc
  <2> DEFINE r == [req[t] EXCEPT !.pc = pc]
  <2>2. /\ r.op = req[t].op /\ r.h = req[t].h /\ r.pc = pc /\ r.num = req[t].num
        /\ r.off = req[t].off /\ r.len = req[t].len /\ r.val = req[t].val
        /\ r.ino = req[t].ino /\ r.buf = req[t].buf
    BY <1>1 DEF Fields, NoReq
  <2> HIDE DEF r
  <2>3. Typed(r)
    <3>1. /\ req[t].op = "open" /\ req[t].ino # NoInode /\ req[t].num \in Int
      BY <1>1, <2>1 DEF Typed, StepOfOp, LocalTypes
    <3>2. QED  BY <1>1, <2>1, <2>2, <3>1, OpenStepTyped
  <2>4. QED  BY <2>1, <2>2, <2>3, RequestGoesOn DEF r
<1>8. QED
  BY <1>2, <1>3, <1>4, <1>5, <1>6, <1>7

\* Its last step opens a handle with two inodes.
LEMMA OpenEndTyped ==
  ASSUME CallbackInv, DirsInv, RequestsInv, NEW t \in Threads, open_cache(t)
  PROVE  RequestsInv'
<1>1. /\ Typed(req[t]) /\ req[t].pc = "open_cache" /\ req[t].path \in Paths
      /\ HasOpen(req[t], fh(t))
  BY DEF open_cache, Pc, RequestsInv, CallbackInv, ReqInv, Locals
<1>2. req[t].op = "open" /\ req[t].ino \in Inodes /\ req[t].h \in Handles
  BY <1>1 DEF Typed, StepOfOp, LocalTypes, HasOpen
<1>3. CASE cache.dir[name(t)] = NoInode
  <2>1. Go(t, NoReq) /\ UNCHANGED handles
    BY <1>3 DEF open_cache, Return
  <2> DEFINE r == NoReq
  <2> HIDE DEF r
  <2>2. r = NoReq /\ Go(t, r)
    BY <2>1 DEF r
  <2>3. QED  BY <2>1, <2>2, RequestGoesOn
<1>4. CASE cache.dir[name(t)] # NoInode
  <2> DEFINE o == [path |-> req[t].path, nas |-> req[t].ino,
                   cache |-> cache.dir[name(t)]]
  <2>1. handles' = [handles EXCEPT ![req[t].h] = o] /\ Go(t, NoReq)
    BY <1>4 DEF open_cache, Return
  <2>2. cache.dir[name(t)] \in Inodes
    BY <1>1, <1>4, NameType DEF name, DirsInv, FileSystem
  <2>3. o # Closed /\ HandleType(o)
    BY <1>1, <1>2, <2>2, CacheFSAssumption DEF Closed, HandleType
  <2> HIDE DEF o
  <2>4. /\ DOMAIN req = Threads /\ req'[t] = NoReq
        /\ \A u \in Threads \ {t} : req'[u] = req[u]
        /\ DOMAIN handles = Handles
        /\ handles'[req[t].h] = o
        /\ \A h \in Handles \ {req[t].h} : handles'[h] = handles[h]
    BY <1>2, <2>1 DEF Go, CallbackInv, ReqInv, HandlesInv
  <2>5. ASSUME NEW u \in Threads PROVE Typed(req'[u]) /\ HasOpen(req'[u], fh(u)')
    <3>1. CASE u = t
      BY <2>4, <3>1, NoReqTyped DEF fh
    <3>2. CASE u # t
      <4>1. req[u].h # req[t].h
        BY <1>2, <3>2 DEF RequestsInv, OwnsInv
      <4>2. req[u].h \in Handles => handles'[req[u].h] = handles[req[u].h]
        BY <2>4, <4>1
      <4>3. Typed(req[u]) /\ HasOpen(req[u], handles[req[u].h])
        BY DEF RequestsInv, fh
      <4>4. QED  BY <2>4, <3>2, <4>2, <4>3 DEF HasOpen, fh
    <3>3. QED  BY <3>1, <3>2
  <2>6. OwnsInv'
    BY <2>4, NoReqTyped, CacheFSAssumption DEF RequestsInv, OwnsInv, HasOpen
  <2>7. QED  BY <2>3, <2>4, <2>5, <2>6 DEF RequestsInv
<1>5. QED  BY <1>3, <1>4

---------------------------------------------------------------------------
\* A step of cfs_read to another, with a buffer that has a block in it when it
\* goes to the cache.
LEMMA ReadStepTyped ==
  ASSUME NEW q, Typed(q), q.op = "read", NEW r,
         r.op = "read", r.off = q.off, r.len = q.len, r.val = q.val,
         r.ino = q.ino, r.num = q.num, r.buf \in Seq(ByteSet),
         r.pc \in {"read_check", "read_all", "read_block", "read_done",
                   "cache_record", "cache_pwrite"},
         r.pc \in {"cache_record", "cache_pwrite"} => Len(r.buf) >= BS
  PROVE  Typed(r)
<1>1. StepOfOp(r)
  BY DEF StepOfOp
<1>2. LocalTypes(r)
  BY DEF Typed, LocalTypes
<1>3. QED  BY <1>1, <1>2 DEF Typed

\* cfs_read, whatever the SELECTs and the preads return.
LEMMA ReadTyped ==
  ASSUME CallbackInv, RequestsInv, NEW t \in Threads, NEW found,
         NEW bytes \in Seq(ByteSet), NEW n,
         \/ read_checkAs(t, found) \/ read_allAs(t, bytes, n)
         \/ read_blockAs(t, bytes, n) \/ read_done(t)
  PROVE  RequestsInv'
<1>1. DOMAIN req[t] = Fields /\ Typed(req[t]) /\ req[t].buf \in Seq(ByteSet)
  BY DEF CallbackInv, ReqInv, Locals, RequestsInv, Typed, LocalTypes
<1>2. UNCHANGED handles /\ req[t].op = "read"
  <2>1. req[t].pc \in {"read_check", "read_all", "read_block", "read_done"}
    BY DEF read_checkAs, read_allAs, read_blockAs, read_done, Pc
  <2>2. UNCHANGED handles
    BY DEF read_checkAs, read_allAs, read_blockAs, read_done, NoFile
  <2>3. QED  BY <1>1, <2>1, <2>2 DEF Typed, StepOfOp
<1> DEFINE Same(r) == /\ r.op = "read" /\ r.h = req[t].h /\ r.off = req[t].off
                      /\ r.len = req[t].len /\ r.val = req[t].val
                      /\ r.ino = req[t].ino /\ r.num = req[t].num
<1>3. CASE read_checkAs(t, found)
  <2>1. PICK hits, todo, pc :
          /\ Go(t, [req[t] EXCEPT !.hits = hits, !.todo = todo, !.pc = pc])
          /\ pc \in {"read_check", "read_all", "read_block"}
    BY <1>3 DEF read_checkAs
  <2> DEFINE r == [req[t] EXCEPT !.hits = hits, !.todo = todo, !.pc = pc]
  <2>2. Same(r) /\ r.pc = pc /\ r.buf = req[t].buf
    BY <1>1, <1>2 DEF Fields, NoReq
  <2> HIDE DEF r
  <2>3. Typed(r)
    BY <1>1, <1>2, <2>1, <2>2, ReadStepTyped
  <2>4. QED  BY <1>2, <2>1, <2>2, <2>3, RequestGoesOn DEF r
<1>4. CASE read_allAs(t, bytes, n)
  <2> DEFINE buf == Padded(bytes, BS * Cardinality(req[t].todo))
             r   == [req[t] EXCEPT !.buf = buf, !.count = n, !.todo = {},
                                   !.pc = "read_done"]
  <2>1. Go(t, r)
    BY <1>4 DEF read_allAs
  <2>2. buf \in Seq(ByteSet)
    <3>1. Cardinality(req[t].todo) \in Nat
      BY MetaAssumption, FS_Subset, FS_CardinalityType
      DEF CallbackInv, ReqInv, Locals
    <3>2. BS * Cardinality(req[t].todo) \in Int
      BY <3>1, BlockSize
    <3>3. QED  BY <3>2, PaddedType
  <2> HIDE DEF buf
  <2>3. Same(r) /\ r.pc = "read_done" /\ r.buf = buf
    BY <1>1, <1>2 DEF Fields, NoReq
  <2> HIDE DEF r
  <2>4. Typed(r)
    BY <1>1, <1>2, <2>2, <2>3, ReadStepTyped
  <2>5. QED  BY <1>2, <2>1, <2>3, <2>4, RequestGoesOn
<1>5. CASE read_blockAs(t, bytes, n)
  <2> DEFINE pad == Padded(bytes, BS)
             buf == req[t].buf \o pad
             q   == [req[t] EXCEPT !.buf = @ \o Padded(bytes, BS), !.count = @ + n]
             r   == [q EXCEPT !.pc = "cache_record"]
             s   == NextReadBlock(t, q)
  <2>1. Go(t, r) \/ Go(t, s)
    BY <1>5 DEF read_blockAs
  <2>2. buf \in Seq(ByteSet) /\ Len(buf) >= BS
    <3>1. pad \in Seq(ByteSet) /\ Len(pad) >= BS
      BY BlockSize, PaddedType
    <3> HIDE DEF pad
    <3>2. /\ buf \in Seq(ByteSet) /\ Len(buf) = Len(req[t].buf) + Len(pad)
          /\ Len(req[t].buf) \in Nat /\ Len(pad) \in Nat
      BY <1>1, <3>1, ConcatProperties, LenProperties
    <3>3. QED  BY <3>1, <3>2, BlockSize
  <2>3. DOMAIN q = Fields /\ Same(q) /\ q.buf = buf
    BY <1>1, <1>2 DEF Fields, NoReq
  <2> HIDE DEF q, buf
  <2>4. Same(r) /\ r.pc = "cache_record" /\ r.buf = buf
    BY <2>3 DEF Fields, NoReq
  <2>5. Same(s) /\ s.pc \in {"read_done", "read_block"} /\ s.buf = buf
    BY <2>3 DEF NextReadBlock, Fields, NoReq
  <2> HIDE DEF r, s
  <2>6. Typed(r) /\ Typed(s)
    BY <1>1, <1>2, <2>2, <2>4, <2>5, ReadStepTyped
  <2>7. QED  BY <1>2, <2>1, <2>4, <2>5, <2>6, RequestGoesOn
<1>6. CASE read_done(t)
  <2>1. PICK r : r = NoReq /\ Go(t, r)
    BY <1>6 DEF read_done, Return
  <2>2. QED  BY <1>2, <2>1, RequestGoesOn
<1>7. QED  BY <1>3, <1>4, <1>5, <1>6

\* A step of cfs_write to another.
LEMMA WriteStepTyped ==
  ASSUME NEW q, Typed(q), q.op = "write", NEW r,
         r.op = "write", r.off = q.off, r.len = q.len, r.val = q.val,
         r.ino = q.ino, r.num \in Int, r.buf \in Seq(ByteSet),
         r.pc \in {"write_stat", "write_read", "cache_record", "cache_pwrite"}
  PROVE  Typed(r)
<1>1. StepOfOp(r)
  BY DEF StepOfOp
<1>2. LocalTypes(r)
  BY DEF Typed, LocalTypes
<1>3. QED  BY <1>1, <1>2 DEF Typed

\* The places and sizes cfs_write works with are integers.
LEMMA AlignedTypes ==
  ASSUME NEW off \in Nat, NEW len \in Nat, NEW size \in Int
  PROVE  /\ Align!alignLowerOffset(off) \in Int
         /\ Align!alignedSize(len) \in Int
         /\ Wrap(size - Align!alignLowerOffset(off)) \in Int
<1>1. Align!alignLowerOffset(off) \in Int
  BY BlockSize DEF Align!alignLowerOffset, BS
<1>2. Align!alignedSize(len) \in Int
  <2>1. len \div BS \in Int
    BY BlockSize
  <2>2. BS * (len \div BS) \in Int
    BY <2>1, BlockSize
  <2>3. QED  BY <2>2, BlockSize DEF Align!alignedSize, BS
<1>3. QED  BY <1>1, <1>2, MetaAssumption DEF Wrap

\* cfs_write, whatever its system calls return.
LEMMA WriteTyped ==
  ASSUME CallbackInv, RequestsInv, NEW t \in Threads, NEW n,
         NEW sizes \in SUBSET Int, NEW bytes \in Seq(ByteSet),
         write_nasAs(t, n) \/ write_statAs(t, sizes) \/ write_readAs(t, bytes)
  PROVE  RequestsInv'
<1>1. /\ DOMAIN req[t] = Fields /\ Typed(req[t]) /\ req[t].buf \in Seq(ByteSet)
      /\ req[t].off \in Nat /\ req[t].len \in Nat /\ req[t].num \in Int
  BY DEF CallbackInv, ReqInv, Locals, RequestsInv, Typed, LocalTypes
<1>2. UNCHANGED handles /\ req[t].op = "write"
  <2>1. req[t].pc \in {"write_nas", "write_stat", "write_read"}
    BY DEF write_nasAs, write_statAs, write_readAs, Pc
  <2>2. UNCHANGED handles
    BY DEF write_nasAs, write_statAs, write_readAs, NoFile
  <2>3. QED  BY <1>1, <2>1, <2>2 DEF Typed, StepOfOp
<1> DEFINE Same(r) == /\ r.op = "write" /\ r.h = req[t].h /\ r.off = req[t].off
                      /\ r.len = req[t].len /\ r.val = req[t].val
                      /\ r.ino = req[t].ino
<1>3. CASE write_nasAs(t, n)
  <2> DEFINE r == [req[t] EXCEPT !.pc = "write_stat"]
  <2>1. Go(t, r)
    BY <1>3 DEF write_nasAs
  <2>2. Same(r) /\ r.pc = "write_stat" /\ r.buf = req[t].buf /\ r.num = req[t].num
    BY <1>1, <1>2 DEF Fields, NoReq
  <2> HIDE DEF r
  <2>3. Typed(r)
    BY <1>1, <1>2, <2>2, WriteStepTyped
  <2>4. QED  BY <1>2, <2>1, <2>2, <2>3, RequestGoesOn
<1>4. CASE write_statAs(t, sizes)
  <2>1. PICK size \in sizes :
          LET lower   == Align!alignLowerOffset(req[t].off)
              aligned == Align!alignedSize(req[t].len)
          IN Go(t, [req[t] EXCEPT !.pc = "write_read",
                      !.num = IF lower + aligned > size
                              THEN Wrap(size - lower) ELSE aligned])
    BY <1>4 DEF write_statAs
  <2> DEFINE num == IF Align!alignLowerOffset(req[t].off)
                         + Align!alignedSize(req[t].len) > size
                    THEN Wrap(size - Align!alignLowerOffset(req[t].off))
                    ELSE Align!alignedSize(req[t].len)
             r == [req[t] EXCEPT !.pc = "write_read", !.num = num]
  <2>2. num \in Int
    BY <1>1, AlignedTypes
  <2>3. Go(t, r)
    BY <2>1
  <2> HIDE DEF num
  <2>4. Same(r) /\ r.pc = "write_read" /\ r.buf = req[t].buf /\ r.num = num
    BY <1>1, <1>2 DEF Fields, NoReq
  <2> HIDE DEF r
  <2>5. Typed(r)
    BY <1>1, <1>2, <2>2, <2>4, WriteStepTyped
  <2>6. QED  BY <1>2, <2>3, <2>4, <2>5, RequestGoesOn
<1>5. CASE write_readAs(t, bytes)
  <2> DEFINE buf == Padded(bytes, Align!alignedSize(req[t].len))
             r   == [req[t] EXCEPT !.buf = buf, !.pc = "cache_record"]
  <2>1. Go(t, r)
    BY <1>5 DEF write_readAs
  <2>2. buf \in Seq(ByteSet)
    BY <1>1, AlignedTypes, PaddedType
  <2> HIDE DEF buf
  <2>3. /\ Same(r) /\ r.pc = "cache_record" /\ r.buf = buf
        /\ r.num = req[t].num
    BY <1>1, <1>2 DEF Fields, NoReq
  <2> HIDE DEF r
  <2>4. Typed(r)
    BY <1>1, <1>2, <2>2, <2>3, WriteStepTyped
  <2>5. QED  BY <1>2, <2>1, <2>3, <2>4, RequestGoesOn
<1>6. QED  BY <1>3, <1>4, <1>5

\* cfs_cacheWrite, whether all of the bytes arrive or not.
LEMMA CacheWriteTyped ==
  ASSUME CallbackInv, RequestsInv, NEW t \in Threads, NEW n,
         cache_record(t) \/ cache_pwriteAs(t, n)
  PROVE  RequestsInv'
<1>1. /\ DOMAIN req[t] = Fields /\ Typed(req[t]) /\ req[t].buf \in Seq(ByteSet)
      /\ req[t].num \in Int
  BY DEF CallbackInv, ReqInv, Locals, RequestsInv, Typed, LocalTypes
<1>2. /\ UNCHANGED handles /\ req[t].op \in {"read", "write"}
      /\ req[t].op = "read" => Len(req[t].buf) >= BS
  <2>1. req[t].pc \in {"cache_record", "cache_pwrite"}
    BY DEF cache_record, cache_pwriteAs, Pc
  <2>2. UNCHANGED handles
    BY DEF cache_record, cache_pwriteAs, NoFile
  <2>3. req[t].op \in {"read", "write"}
    BY <1>1, <2>1 DEF Typed, StepOfOp
  <2>4. QED  BY <1>1, <2>1, <2>2, <2>3 DEF Typed, LocalTypes
<1> DEFINE Same(r) == /\ r.op = req[t].op /\ r.h = req[t].h
                      /\ r.off = req[t].off /\ r.len = req[t].len
                      /\ r.val = req[t].val /\ r.ino = req[t].ino
                      /\ r.num = req[t].num /\ r.buf = req[t].buf
<1>3. CASE cache_record(t)
  <2> DEFINE r == [req[t] EXCEPT !.pc = "cache_pwrite"]
  <2>1. Go(t, r)
    BY <1>3 DEF cache_record
  <2>2. Same(r) /\ r.pc = "cache_pwrite"
    BY <1>1 DEF Fields, NoReq
  <2> HIDE DEF r
  <2>3. Typed(r)
    BY <1>1, <1>2, <2>2, ReadStepTyped, WriteStepTyped
  <2>4. QED  BY <1>2, <2>1, <2>2, <2>3, RequestGoesOn
<1>4. CASE cache_pwriteAs(t, n)
  <2> DEFINE s == NextReadBlock(t, req[t])
  <2>1. PICK r : /\ Go(t, r)
                 /\ \/ r = NoReq
                    \/ req[t].op = "read" /\ r = s
    BY <1>4 DEF cache_pwriteAs, Return
  <2>2. Same(s) /\ s.pc \in {"read_done", "read_block"}
    BY <1>1 DEF NextReadBlock, Fields, NoReq
  <2> HIDE DEF s
  <2>3. req[t].op = "read" => Typed(s)
    BY <1>1, <1>2, <2>2, ReadStepTyped
  <2>4. QED  BY <1>2, <2>1, <2>2, <2>3, RequestGoesOn
<1>5. QED  BY <1>3, <1>4

\* A step to the next call on a name, and the failure of one: only the step
\* changes.
LEMMA PcTyped ==
  ASSUME NEW q, DOMAIN q = Fields, Typed(q), NEW pc,
         \/ q.pc = "open_create"  /\ pc = "open_mknod"
         \/ q.pc = "open_mknod"   /\ pc = "open_cache"
         \/ q.pc = "unlink_meta"  /\ pc = "unlink_cache"
         \/ q.pc = "unlink_cache" /\ pc = "unlink_nas"
         \/ q.pc = "trunc_cache"  /\ pc = "trunc_nas"
         \/ q.pc = "rename_cache" /\ pc = "rename_nas"
         \/ q.pc = "link_cache"   /\ pc = "link_nas"
         \/ q.pc = "utime_cache"  /\ pc = "utime_nas"
         \/ q.pc = "release_dig"  /\ pc = "release_close"
  PROVE  LET r == [q EXCEPT !.pc = pc]
         IN Typed(r) /\ r.op = q.op /\ r.h = q.h
<1> DEFINE r == [q EXCEPT !.pc = pc]
<1>1. /\ r.op = q.op /\ r.h = q.h /\ r.pc = pc /\ r.num = q.num
      /\ r.off = q.off /\ r.len = q.len /\ r.val = q.val
      /\ r.ino = q.ino /\ r.buf = q.buf
  BY DEF Fields, NoReq
<1> HIDE DEF r
<1>2. StepOfOp(r)
  BY <1>1 DEF Typed, StepOfOp
<1>3. /\ r.op # "read"
      /\ pc \in {"open_mknod", "open_cache"} => q.ino # NoInode
      /\ pc \notin {"open_stat", "open_date", "open_create"}
  BY <1>1 DEF Typed, StepOfOp, LocalTypes
<1>4. LocalTypes(r)
  BY <1>1, <1>3 DEF Typed, LocalTypes
<1>5. QED  BY <1>1, <1>2, <1>4 DEF Typed, r

\* The callbacks about names and attributes.
LEMMA NameCallTyped ==
  ASSUME CallbackInv, RequestsInv, NEW t \in Threads,
         \/ cfs_mknod(t) \/ cfs_unlink(t) \/ cfs_truncate(t) \/ cfs_link(t)
         \/ cfs_utime(t) \/ rename_cache(t) \/ release_dig(t)
  PROVE  RequestsInv'
<1>1. DOMAIN req[t] = Fields /\ Typed(req[t])
  BY DEF CallbackInv, ReqInv, Locals, RequestsInv
<1>2. CASE \/ cfs_mknod(t) \/ unlink_nas(t) \/ trunc_nas(t) \/ link_nas(t)
           \/ utime_nas(t)
  <2>1. PICK r : r = NoReq /\ Go(t, r) /\ UNCHANGED handles
    BY <1>2 DEF cfs_mknod, unlink_nas, trunc_nas, link_nas, utime_nas, Return
  <2>2. QED  BY <2>1, RequestGoesOn
<1>3. CASE \/ unlink_meta(t) \/ unlink_cache(t) \/ trunc_cache(t)
           \/ link_cache(t) \/ utime_cache(t) \/ rename_cache(t)
           \/ release_dig(t)
  <2>1. PICK pc :
          /\ Go(t, [req[t] EXCEPT !.pc = pc]) /\ UNCHANGED handles
          /\ \/ req[t].pc = "unlink_meta"  /\ pc = "unlink_cache"
             \/ req[t].pc = "unlink_cache" /\ pc = "unlink_nas"
             \/ req[t].pc = "trunc_cache"  /\ pc = "trunc_nas"
             \/ req[t].pc = "rename_cache" /\ pc = "rename_nas"
             \/ req[t].pc = "link_cache"   /\ pc = "link_nas"
             \/ req[t].pc = "utime_cache"  /\ pc = "utime_nas"
             \/ req[t].pc = "release_dig"  /\ pc = "release_close"
    BY <1>3 DEF unlink_meta, unlink_cache, trunc_cache, link_cache,
                utime_cache, rename_cache, release_dig, Pc, NoFile
  <2> DEFINE r == [req[t] EXCEPT !.pc = pc]
  <2>2. Typed(r) /\ r.op = req[t].op /\ r.h = req[t].h
    BY <1>1, <2>1, PcTyped
  <2> HIDE DEF r
  <2>3. QED  BY <2>1, <2>2, RequestGoesOn DEF r
<1>4. QED
  BY <1>2, <1>3 DEF cfs_unlink, cfs_truncate, cfs_link, cfs_utime

\* The handles change: a rename leaves them open with the inodes they have, and
\* the handle that is closed was in the hands of the release.
LEMMA HandleStepTyped ==
  ASSUME CallbackInv, RequestsInv, NEW t \in Threads,
         rename_nas(t) \/ release_close(t)
  PROVE  RequestsInv'
<1>1. /\ DOMAIN req = Threads /\ DOMAIN handles = Handles
      /\ \A u \in Threads : DOMAIN req[u] = Fields
      /\ \A h \in Handles : DOMAIN handles[h] = {"path", "nas", "cache"}
  BY DEF CallbackInv, ReqInv, Locals, HandlesInv, Handle
<1>2. /\ req'[t] = NoReq /\ \A u \in Threads \ {t} : req'[u] = req[u]
  BY <1>1 DEF rename_nas, release_close, Return, Go
<1>3. OwnsInv'
  <2>1. ASSUME NEW a \in Threads, NEW u \in Threads, a # u,
               req'[a].op \in {"open", "release"}
        PROVE  req'[u].h # req'[a].h
    <3>1. /\ req'[a] = req[a]
          /\ req'[u] = req[u] \/ req'[u].h = NoHandle
      BY <1>2, <2>1, NoReqTyped
    <3>2. req[a].h \in Handles /\ req[u].h # req[a].h
      BY <2>1, <3>1 DEF RequestsInv, OwnsInv, HasOpen
    <3>3. QED  BY <3>1, <3>2, CacheFSAssumption
  <2>2. QED  BY <2>1 DEF OwnsInv
<1>4. CASE release_close(t)
  <2>1. handles' = [handles EXCEPT ![req[t].h] = Closed]
    BY <1>4 DEF release_close
  <2>2. req[t].op = "release"
    BY <1>4 DEF release_close, Pc, RequestsInv, Typed, StepOfOp
  <2>3. ASSUME NEW u \in Threads PROVE Typed(req'[u]) /\ HasOpen(req'[u], fh(u)')
    <3>1. CASE u = t
      BY <1>2, <3>1, NoReqTyped DEF fh
    <3>2. CASE u # t
      <4>1. req[u].h # req[t].h
        BY <2>2, <3>2 DEF RequestsInv, OwnsInv
      <4>2. req[u].h \in Handles => handles'[req[u].h] = handles[req[u].h]
        BY <1>1, <2>1, <4>1
      <4>3. Typed(req[u]) /\ HasOpen(req[u], handles[req[u].h])
        BY DEF RequestsInv, fh
      <4>4. QED  BY <1>2, <3>2, <4>2, <4>3 DEF HasOpen, fh
    <3>3. QED  BY <3>1, <3>2
  <2>4. \A h \in Handles : HandleType(handles'[h])
    BY <1>1, <2>1 DEF RequestsInv, HandleType
  <2>5. QED  BY <1>3, <2>3, <2>4 DEF RequestsInv
<1>5. CASE rename_nas(t)
  <2>1. ASSUME NEW h \in Handles
        PROVE  /\ handles[h] = Closed <=> handles'[h] = Closed
               /\ HandleType(handles'[h])
    <3>1. HandleType(handles[h])
      BY DEF RequestsInv
    <3>2. CASE handles'[h] = handles[h]
      BY <3>1, <3>2
    <3>3. CASE /\ handles'[h] = [handles[h] EXCEPT !.path = req[t].new]
               /\ handles[h].path = req[t].path
      <4>1. req[t].path \in Paths /\ req[t].new \in Paths
        BY <1>5 DEF rename_nas, Pc, CallbackInv, ReqInv, Locals
      <4>2. handles[h] # Closed
        BY <3>3, <4>1, CacheFSAssumption DEF Closed
      <4>3. /\ handles'[h].path = req[t].new
            /\ handles'[h].nas = handles[h].nas
            /\ handles'[h].cache = handles[h].cache
        BY <1>1, <3>3
      <4>4. QED
        BY <3>1, <4>1, <4>2, <4>3, CacheFSAssumption DEF HandleType, Closed
    <3>4. QED
      BY <1>5, <3>2, <3>3 DEF rename_nas, Renamed
  <2>2. \A u \in Threads : Typed(req'[u]) /\ HasOpen(req'[u], fh(u)')
    BY <1>2, <2>1, NoReqTyped DEF RequestsInv, HasOpen, fh
  <2>3. QED  BY <1>3, <2>1, <2>2 DEF RequestsInv
<1>6. QED  BY <1>4, <1>5

---------------------------------------------------------------------------
\* The bytes cfs_cacheWrite gets, and where they go.
LEMMA WriteBytesType ==
  ASSUME CallbackInv, RequestsInv, NEW t \in Threads, req[t].pc \in Covering
  PROVE  /\ WriteOffset(t) \in Nat
         /\ req[t].pc = "cache_pwrite" => WriteBytes(t) \in Seq(ByteSet)
<1>1. Locals(req[t]) /\ req[t].todo # {} /\ Typed(req[t])
  BY DEF CallbackInv, ReqInv, Locals, RequestsInv
<1>2. BlockInHand(t) \in Nat
  BY <1>1, BlockInHandType, MetaAssumption DEF Locals
<1>3. WriteOffset(t) \in Nat
  BY <1>2, BlockSize DEF WriteOffset
<1>4. ASSUME req[t].pc = "cache_pwrite"  PROVE WriteBytes(t) \in Seq(ByteSet)
  <2> DEFINE buf == req[t].buf
  <2>1. buf \in Seq(ByteSet) /\ Len(buf) \in Nat
    BY <1>1, LenProperties DEF Typed, LocalTypes
  <2>2. CASE req[t].op # "read"
    BY <2>1, <2>2 DEF WriteBytes
  <2>3. CASE req[t].op = "read"
    <3>1. Len(buf) - BS + 1 \in Nat /\ Len(buf) - BS + 1 >= 1
      BY <1>1, <1>4, <2>1, <2>3, BlockSize DEF Typed, LocalTypes
    <3>2. \A k \in Len(buf) - BS + 1 .. Len(buf) : buf[k] \in ByteSet
      BY <2>1, <3>1, ElementOfSeq
    <3>3. SubSeq(buf, Len(buf) - BS + 1, Len(buf)) \in Seq(ByteSet)
      BY <2>1, <3>1, <3>2, SubSeqProperties
    <3>4. QED  BY <2>3, <3>3 DEF WriteBytes
  <2>4. QED  BY <2>2, <2>3
<1>5. QED  BY <1>3, <1>4

\* What holds of the directories when the NAS or the cache directory changes.
LEMMA NasChanges ==
  ASSUME DirsInv, UNCHANGED <<cache, clock>>,
         FileSystem(nas', Paths, NasBytes),
         \A i \in Inodes : Len(nas'.data[i]) <= MaxSize
  PROVE  DirsInv'
  BY DEF DirsInv

\* The same for the cache directory.
LEMMA CacheChanges ==
  ASSUME DirsInv, UNCHANGED <<nas, clock>>, FileSystem(cache', Names, ByteSet)
  PROVE  DirsInv'
  BY DEF DirsInv

\* A file that grows to the larger of two sizes has room for both.
LEMMA LargerFits ==
  ASSUME NEW k \in Nat, NEW m \in Nat, NEW n \in Nat, NEW size \in Nat,
         m <= size, n <= size, k <= Larger(m, n)
  PROVE  k <= size
BY DEF Larger

\* The bytes of a write, as many as arrive.
LEMMA SomeBytes ==
  ASSUME NEW v \in NasBytes, NEW n \in Nat
  PROVE  [k \in 1 .. n |-> v] \in Seq(NasBytes) /\ Len([k \in 1 .. n |-> v]) = n
<1>1. [k \in 1 .. n |-> v] \in [1 .. n -> NasBytes]
  OBVIOUS
<1> DEFINE b == [k \in 1 .. n |-> v]
<1> HIDE DEF b
<1>2. b \in Seq(NasBytes)
  BY <1>1, SeqDef DEF b
<1>3. QED  BY <1>2, LenProperties DEF b

\* The steps that change the NAS directory.
LEMMA NasSteps ==
  ASSUME CallbackInv, DirsInv, RequestsInv, NEW t \in Threads,
         \/ cfs_mknod(t) \/ unlink_nas(t) \/ trunc_nas(t) \/ rename_nas(t)
         \/ link_nas(t) \/ utime_nas(t)
         \/ \E n \in 0 .. req[t].len : write_nasAs(t, n)
  PROVE  DirsInv'
<1>1. /\ Typed(req[t]) /\ clock \in 0 .. MaxTime
      /\ FileSystem(nas, Paths, NasBytes)
      /\ \A i \in Inodes : Len(nas.data[i]) <= MaxSize
      /\ req[t].off \in Nat /\ req[t].len \in Nat /\ MaxSize \in Nat
  BY BlockSize DEF RequestsInv, DirsInv, Typed, LocalTypes
<1>2. /\ req[t].path \in Paths /\ UNCHANGED <<cache, clock>>
  <2>1. req[t].pc # "idle" /\ UNCHANGED <<cache, clock>>
    BY DEF cfs_mknod, unlink_nas, trunc_nas, rename_nas, link_nas, utime_nas,
           write_nasAs, Pc
  <2>2. QED  BY <2>1 DEF CallbackInv, ReqInv, Locals
<1>3. \A i \in Inodes : Len(nas.data[i]) \in Nat
  BY <1>1, LenProperties DEF FileSystem
<1>4. <<>> \in Seq(NasBytes) /\ Zero \in NasBytes
  BY DEF NasBytes
<1>5. CASE cfs_mknod(t)
  <2> DEFINE new == Create(nas, req[t].path, NasHeld, clock)
  <2>1. /\ FileSystem(new, Paths, NasBytes)
        /\ \A i \in Inodes : Len(new.data[i]) <= Len(nas.data[i])
    BY <1>1, <1>2, CreateType
  <2>2. \A i \in Inodes : Len(new.data[i]) \in Nat
    BY <2>1, LenProperties DEF FileSystem
  <2>3. nas' = new
    BY <1>5 DEF cfs_mknod
  <2> HIDE DEF new
  <2>4. QED  BY <1>1, <1>2, <1>3, <2>1, <2>2, <2>3, NasChanges
<1>6. CASE unlink_nas(t) \/ rename_nas(t) \/ link_nas(t)
  <2> DEFINE U == Unlink(nas, req[t].path)
             R == Rename(nas, req[t].path, req[t].new)
             L == Link(nas, req[t].path, req[t].new)
  <2>1. /\ FileSystem(U, Paths, NasBytes)
        /\ FileSystem(R, Paths, NasBytes)
        /\ FileSystem(L, Paths, NasBytes)
        /\ U.data = nas.data /\ R.data = nas.data /\ L.data = nas.data
    BY <1>1, <1>2, NameCalls
  <2>2. nas' \in {U, R, L}
    BY <1>6 DEF unlink_nas, rename_nas, link_nas
  <2> HIDE DEF U, R, L
  <2>3. QED  BY <1>1, <1>2, <2>1, <2>2, NasChanges
<1>7. CASE trunc_nas(t)
  <2>1. PICK i : nas' = nas \/ nas' = Ftruncate(nas, i, req[t].len, clock)
    BY <1>7 DEF trunc_nas
  <2>2. req[t].len <= MaxSize
    BY <1>1, <1>7 DEF trunc_nas, Pc, Typed, StepOfOp, LocalTypes
  <2> DEFINE new == Ftruncate(nas, i, req[t].len, clock)
  <2>3. /\ FileSystem(new, Paths, NasBytes)
        /\ \A j \in Inodes : Len(new.data[j]) <= Larger(Len(nas.data[j]), req[t].len)
    BY <1>1, <1>4, InodeCalls
  <2>4. \A j \in Inodes : Len(new.data[j]) \in Nat
    BY <2>3, LenProperties DEF FileSystem
  <2> HIDE DEF new
  <2>5. \A j \in Inodes : Len(new.data[j]) <= MaxSize
    BY <1>1, <1>3, <2>2, <2>3, <2>4 DEF Larger
  <2>6. QED  BY <1>1, <1>2, <2>1, <2>3, <2>5, NasChanges DEF new
<1>8. CASE utime_nas(t)
  <2>1. PICK i : nas' = nas \/ nas' = Utime(nas, i, req[t].num)
    BY <1>8 DEF utime_nas
  <2>2. req[t].num \in 0 .. MaxTime
    BY <1>1, <1>8 DEF utime_nas, Pc, Typed, StepOfOp, LocalTypes
  <2> DEFINE new == Utime(nas, i, req[t].num)
  <2>3. FileSystem(new, Paths, NasBytes)
    BY <1>1, <1>4, <2>2, InodeCalls
  <2>4. \A j \in Inodes : new.data[j] = nas.data[j]
    BY <1>1 DEF Utime, FileSystem
  <2> HIDE DEF new
  <2>5. QED  BY <1>1, <1>2, <2>1, <2>3, <2>4, NasChanges DEF new
<1>9. CASE \E n \in 0 .. req[t].len : write_nasAs(t, n)
  <2>1. PICK n \in 0 .. req[t].len : write_nasAs(t, n)
    BY <1>9
  <2> DEFINE bytes == [k \in 1 .. n |-> req[t].val]
             new   == Pwrite(nas, fh(t).nas, req[t].off, bytes, clock)
  <2>2. nas' = nas \/ nas' = new
    BY <2>1 DEF write_nasAs
  <2>3. req[t].off + req[t].len <= MaxSize /\ req[t].val \in NasBytes
    BY <1>1, <2>1 DEF write_nasAs, Pc, Typed, StepOfOp, LocalTypes, NasBytes
  <2>4. bytes \in Seq(NasBytes) /\ Len(bytes) = n
    BY <2>3, SomeBytes
  <2> HIDE DEF bytes
  <2>5. /\ FileSystem(new, Paths, NasBytes)
        /\ \A j \in Inodes : Len(new.data[j]) <=
                               Larger(Len(nas.data[j]), req[t].off + Len(bytes))
    BY <1>1, <1>4, <2>4, InodeCalls
  <2>6. \A j \in Inodes : Len(new.data[j]) \in Nat
    BY <2>5, LenProperties DEF FileSystem
  <2> HIDE DEF new
  <2>7. \A j \in Inodes : Len(new.data[j]) <= MaxSize
    <3>1. /\ req[t].off + Len(bytes) \in Nat /\ req[t].off + Len(bytes) <= MaxSize
          /\ MaxSize \in Nat
      BY <1>1, <1>3, <2>3, <2>4
    <3>2. ASSUME NEW j \in Inodes  PROVE Len(new.data[j]) <= MaxSize
      <4>1. Len(nas.data[j]) \in Nat /\ Len(nas.data[j]) <= MaxSize
        BY <1>1, <1>3
      <4>2. QED  BY <2>5, <2>6, <3>1, <4>1, LargerFits
    <3>3. QED  BY <3>2
  <2>8. QED  BY <1>1, <1>2, <2>2, <2>5, <2>7, NasChanges
<1>10. QED  BY <1>5, <1>6, <1>7, <1>8, <1>9

\* The steps that change the cache directory.
LEMMA CacheSteps ==
  ASSUME CallbackInv, DirsInv, RequestsInv, NEW t \in Threads,
         \/ open_unlink(t) \/ open_mknod(t) \/ unlink_cache(t) \/ trunc_cache(t)
         \/ rename_cache(t) \/ link_cache(t) \/ utime_cache(t) \/ release_dig(t)
         \/ \E n \in 0 .. Len(WriteBytes(t)) : cache_pwriteAs(t, n)
  PROVE  DirsInv'
<1>1. /\ Typed(req[t]) /\ clock \in 0 .. MaxTime
      /\ FileSystem(cache, Names, ByteSet)
      /\ req[t].off \in Nat /\ req[t].len \in Nat
      /\ <<>> \in Seq(ByteSet) /\ Zero \in ByteSet
  BY DEF RequestsInv, DirsInv, Typed, LocalTypes, ByteSet
<1>2. name(t) \in Names /\ UNCHANGED <<nas, clock>>
  <2>1. req[t].pc # "idle" /\ UNCHANGED <<nas, clock>>
    BY DEF open_unlink, open_mknod, unlink_cache, trunc_cache, rename_cache,
           link_cache, utime_cache, release_dig, cache_pwriteAs, Pc
  <2>2. QED  BY <2>1, NameType DEF CallbackInv, ReqInv, Locals, name
<1>3. CASE open_mknod(t)
  <2> DEFINE new == Create(cache, name(t), CacheHeld, clock)
  <2>1. FileSystem(new, Names, ByteSet)
    BY <1>1, <1>2, CreateType
  <2>2. cache' = new
    BY <1>3 DEF open_mknod
  <2> HIDE DEF new
  <2>3. QED  BY <1>2, <2>1, <2>2, CacheChanges
<1>4. CASE open_unlink(t) \/ unlink_cache(t) \/ rename_cache(t) \/ link_cache(t)
  <2> DEFINE U == Unlink(cache, name(t))
             R == Rename(cache, name(t), newName(t))
             L == Link(cache, name(t), newName(t))
  <2>1. /\ FileSystem(U, Names, ByteSet)
        /\ FileSystem(R, Names, ByteSet)
        /\ FileSystem(L, Names, ByteSet)
    BY <1>1, <1>2, NameCalls
  <2>2. cache' \in {U, R, L}
    BY <1>4 DEF open_unlink, unlink_cache, rename_cache, link_cache
  <2> HIDE DEF U, R, L
  <2>3. QED  BY <1>2, <2>1, <2>2, CacheChanges
<1>5. CASE trunc_cache(t)
  <2>1. PICK i : cache' = cache \/ cache' = Ftruncate(cache, i, req[t].len, clock)
    BY <1>5 DEF trunc_cache
  <2> DEFINE new == Ftruncate(cache, i, req[t].len, clock)
  <2>2. FileSystem(new, Names, ByteSet)
    BY <1>1, InodeCalls
  <2> HIDE DEF new
  <2>3. QED  BY <1>1, <1>2, <2>1, <2>2, CacheChanges DEF new
<1>6. CASE utime_cache(t) \/ release_dig(t)
  <2>1. PICK i, m : /\ m \in 0 .. MaxTime
                    /\ cache' = cache \/ cache' = Utime(cache, i, m)
    <3>1. CASE utime_cache(t)
      <4>1. req[t].num \in 0 .. MaxTime
        BY <1>1, <3>1 DEF utime_cache, Pc, Typed, StepOfOp, LocalTypes
      <4>2. QED  BY <3>1, <4>1 DEF utime_cache
    <3>2. CASE release_dig(t)
      BY <1>1, <3>2 DEF release_dig, Utime
    <3>3. QED  BY <1>6, <3>1, <3>2
  <2> DEFINE new == Utime(cache, i, m)
  <2>2. FileSystem(new, Names, ByteSet)
    BY <1>1, <2>1, InodeCalls
  <2> HIDE DEF new
  <2>3. QED  BY <1>1, <1>2, <2>1, <2>2, CacheChanges DEF new
<1>7. CASE \E n \in 0 .. Len(WriteBytes(t)) : cache_pwriteAs(t, n)
  <2>1. PICK n \in 0 .. Len(WriteBytes(t)) : cache_pwriteAs(t, n)
    BY <1>7
  <2> DEFINE bytes == SubSeq(WriteBytes(t), 1, n)
             new   == Pwrite(cache, fh(t).cache, WriteOffset(t), bytes, clock)
  <2>2. cache' = cache \/ cache' = new
    BY <2>1 DEF cache_pwriteAs
  <2>3. req[t].pc = "cache_pwrite"
    BY <2>1 DEF cache_pwriteAs, Pc
  <2>4. WriteOffset(t) \in Nat /\ WriteBytes(t) \in Seq(ByteSet)
    BY <2>3, WriteBytesType DEF Covering
  <2>5. bytes \in Seq(ByteSet)
    <3>1. Len(WriteBytes(t)) \in Nat
      BY <2>4, LenProperties
    <3>2. \A k \in 1 .. n : WriteBytes(t)[k] \in ByteSet
      BY <2>1, <2>4, <3>1, ElementOfSeq
    <3>3. n \in Int
      BY <2>1, <3>1
    <3>4. QED  BY <3>2, <3>3, SubSeqProperties
  <2> HIDE DEF bytes
  <2>6. FileSystem(new, Names, ByteSet)
    BY <1>1, <2>4, <2>5, InodeCalls
  <2> HIDE DEF new
  <2>7. QED  BY <1>1, <1>2, <2>2, <2>6, CacheChanges
<1>8. QED  BY <1>3, <1>4, <1>5, <1>6, <1>7

\* The other steps of callbacks leave both directories alone.
LEMMA NoFileKeeps ==
  ASSUME DirsInv, NoFile \/ UNCHANGED <<nas, cache, clock>>
  PROVE  DirsInv'
  BY DEF DirsInv, NoFile

---------------------------------------------------------------------------
\* The bytes that preads give.
LEMMA PreadBytes ==
  ASSUME CallbackInv, DirsInv, RequestsInv, NEW t \in Threads,
         req[t].pc \in {"read_all", "read_block", "write_read"},
         NEW off \in Nat, NEW size \in Int
  PROVE  /\ Pread(nas, fh(t).nas, off, size) \in Seq(ByteSet)
         /\ Pread(cache, fh(t).cache, off, size) \in Seq(ByteSet)
<1>1. req[t].op \in {"read", "write"}
  BY DEF RequestsInv, Typed, StepOfOp
<1>2. fh(t).nas \in Inodes /\ fh(t).cache \in Inodes
  BY <1>1 DEF RequestsInv, HasOpen, HandleType, fh
<1>3. NasBytes \subseteq ByteSet /\ ByteSet \subseteq ByteSet
  BY DEF NasBytes, ByteSet
<1>4. /\ FileSystem(nas, Paths, NasBytes)
      /\ FileSystem(cache, Names, ByteSet)
  BY DEF DirsInv
<1>5. QED  BY <1>2, <1>3, <1>4, PreadType

\* The attributes that lstat gives.
LEMMA Attributes ==
  ASSUME DirsInv, NEW p \in Paths, NEW f \in Names
  PROVE  /\ NasTimes(p) \in SUBSET (0 .. MaxTime)
         /\ CacheTimes(f) \in SUBSET (0 .. MaxTime)
         /\ NasSizes(p) \in SUBSET Int
<1>1. NasTimes(p) \in SUBSET (0 .. MaxTime)
  BY DEF DirsInv, FileSystem, NasTimes
<1>2. CacheTimes(f) \in SUBSET (0 .. MaxTime)
  BY DEF DirsInv, FileSystem, CacheTimes
<1>3. NasSizes(p) \in SUBSET Int
  <2>1. nas.dir[p] # NoInode => Len(nas.data[nas.dir[p]]) \in Int
    BY LenProperties DEF DirsInv, FileSystem
  <2>2. QED  BY <2>1 DEF NasSizes
<1>4. QED  BY <1>1, <1>2, <1>3

\* Every step of a callback that nothing fails in.
LEMMA DaemonTyped ==
  ASSUME CallbackInv, DirsInv, RequestsInv, NEW t \in Threads, Daemon(t)
  PROVE  DirsInv' /\ RequestsInv'
<1>1. Locals(req[t]) /\ Typed(req[t])
  BY DEF CallbackInv, ReqInv, RequestsInv
<1>2. CASE cfs_open(t)
  <2>1. req[t].pc # "idle"
    BY <1>2 DEF cfs_open, open_nas, open_present, open_presentAs, open_stat,
       open_statAs, open_date, open_dateAs, open_unlink, open_create,
       open_mknod, open_cache, Pc
  <2>2. req[t].path \in Paths /\ name(t) \in Names
    BY <1>1, <2>1, NameType DEF Locals, name
  <2>3. /\ NasTimes(req[t].path) \in SUBSET (0 .. MaxTime)
        /\ CacheTimes(name(t)) \in SUBSET (0 .. MaxTime)
    BY <2>2, Attributes
  <2>4. CASE open_stat(t)
    BY <2>3, <2>4, OpenTyped, NoFileKeeps DEF open_stat, open_statAs
  <2>5. CASE open_date(t)
    BY <2>3, <2>5, OpenTyped, NoFileKeeps DEF open_date, open_dateAs
  <2>6. CASE open_present(t)
    <3>1. PICK present : open_presentAs(t, present)
      BY <2>6 DEF open_present
    <3>2. {} \in SUBSET (0 .. MaxTime)
      OBVIOUS
    <3>3. RequestsInv'
      BY <3>1, <3>2, OpenTyped
    <3>4. QED  BY <3>1, <3>3, NoFileKeeps DEF open_presentAs
  <2>7. CASE open_nas(t) \/ open_unlink(t) \/ open_create(t) \/ open_mknod(t)
    <3>1. {} \in SUBSET (0 .. MaxTime)
      OBVIOUS
    <3>2. RequestsInv'
      BY <2>7, <3>1, OpenTyped
    <3>3. QED
      BY <2>7, <3>2, CacheSteps, NoFileKeeps DEF open_nas, open_create
  <2>8. CASE open_cache(t)
    BY <2>8, OpenEndTyped, NoFileKeeps DEF open_cache
  <2>9. QED  BY <1>2, <2>4, <2>5, <2>6, <2>7, <2>8 DEF cfs_open
<1>3. CASE cfs_read(t)
  <2>1. PICK found, bytes, n :
          /\ bytes \in Seq(ByteSet)
          /\ \/ read_checkAs(t, found) \/ read_allAs(t, bytes, n)
             \/ read_blockAs(t, bytes, n) \/ read_done(t)
    <3>1. CASE read_check(t) \/ read_done(t)
      <4>1. <<>> \in Seq(ByteSet)
        OBVIOUS
      <4>2. QED  BY <3>1, <4>1 DEF read_check
    <3>2. CASE read_all(t)
      <4> DEFINE size  == BS * Cardinality(req[t].todo)
                 bytes == Pread(cache, fh(t).cache, WriteOffset(t), size)
      <4>1. read_allAs(t, bytes, Len(bytes))
        BY <3>2 DEF read_all
      <4>2. req[t].pc = "read_all"
        BY <4>1 DEF read_allAs, Pc
      <4>3. WriteOffset(t) \in Nat
        BY <4>2, WriteBytesType DEF Covering
      <4>4. Cardinality(req[t].todo) \in Nat
        BY <1>1, MetaAssumption, FS_Subset, FS_CardinalityType DEF Locals
      <4>5. size \in Int
        BY <4>4, BlockSize
      <4> HIDE DEF size
      <4>6. bytes \in Seq(ByteSet)
        BY <4>2, <4>3, <4>5, PreadBytes
      <4>7. QED  BY <4>1, <4>6
    <3>3. CASE read_block(t)
      <4> DEFINE b     == BlockInHand(t)
                 bytes == IF b \in req[t].hits
                          THEN Pread(cache, fh(t).cache, BS * b, BS)
                          ELSE Pread(nas, fh(t).nas, BS * b, BS)
      <4>1. read_blockAs(t, bytes, Len(bytes))
        BY <3>3 DEF read_block
      <4>2. req[t].pc = "read_block"
        BY <4>1 DEF read_blockAs, Pc
      <4>3. BS * b \in Nat /\ BS \in Int
        BY <4>2, WriteBytesType, BlockSize DEF Covering, WriteOffset
      <4>4. bytes \in Seq(ByteSet)
        BY <4>2, <4>3, PreadBytes
      <4>5. QED  BY <4>1, <4>4
    <3>4. QED  BY <1>3, <3>1, <3>2, <3>3 DEF cfs_read
  <2>2. RequestsInv'
    BY <2>1, ReadTyped
  <2>3. QED
    BY <2>1, <2>2, NoFileKeeps DEF read_checkAs, read_allAs, read_blockAs, read_done
<1>4. CASE cfs_write(t)
  <2>1. req[t].pc \in Covering \ {"idle"}
    BY <1>4 DEF cfs_write, write_nas, write_nasAs, write_stat, write_statAs,
                write_read, write_readAs, Pc, Covering
  <2>2. <<>> \in Seq(ByteSet) /\ Int \in SUBSET Int /\ req[t].len \in Nat
    BY <1>1 DEF Typed, LocalTypes
  <2>3. CASE write_nas(t)
    <3>1. RequestsInv'
      BY <2>2, <2>3, WriteTyped DEF write_nas
    <3>2. QED  BY <2>2, <2>3, <3>1, NasSteps DEF write_nas
  <2>4. CASE write_stat(t)
    <3>1. NasSizes(req[t].path) \in SUBSET Int
      BY <1>1, <2>1, CacheFSAssumption, Attributes, NameType DEF Locals
    <3>2. RequestsInv'
      BY <2>2, <2>4, <3>1, WriteTyped DEF write_stat
    <3>3. QED  BY <2>4, <3>2, NoFileKeeps DEF write_stat, write_statAs
  <2>5. CASE write_read(t)
    <3>1. PICK bytes : bytes \in Seq(ByteSet) /\ write_readAs(t, bytes)
      <4>1. req[t].pc = "write_read" /\ req[t].num \in Int
        BY <1>1, <2>5 DEF write_read, write_readAs, Pc, Typed, LocalTypes
      <4>2. WriteOffset(t) \in Nat
        BY <2>1, WriteBytesType
      <4>3. Pread(nas, fh(t).nas, WriteOffset(t), req[t].num) \in Seq(ByteSet)
        BY <4>1, <4>2, PreadBytes
      <4>4. QED  BY <2>2, <2>5, <4>3 DEF write_read
    <3>2. RequestsInv'
      BY <2>2, <3>1, WriteTyped
    <3>3. QED  BY <3>1, <3>2, NoFileKeeps DEF write_readAs
  <2>6. QED  BY <1>4, <2>3, <2>4, <2>5 DEF cfs_write
<1>5. CASE cfs_cacheWrite(t)
  <2>1. CASE cache_wait(t)
    BY <2>1 DEF cache_wait, vars, cfsVars, DirsInv, RequestsInv, OwnsInv, fh
  <2>2. CASE cache_record(t)
    BY <2>2, CacheWriteTyped, NoFileKeeps DEF cache_record
  <2>3. CASE cache_pwrite(t)
    <3>1. req[t].pc = "cache_pwrite"
      BY <2>3 DEF cache_pwrite, cache_pwriteAs, Pc
    <3>2. Len(WriteBytes(t)) \in 0 .. Len(WriteBytes(t))
      BY <3>1, WriteBytesType, LenProperties DEF Covering
    <3>3. QED  BY <2>3, <3>2, CacheWriteTyped, CacheSteps DEF cache_pwrite
  <2>4. QED  BY <1>5, <2>1, <2>2, <2>3 DEF cfs_cacheWrite
<1>6. CASE \/ cfs_mknod(t) \/ cfs_unlink(t) \/ cfs_truncate(t) \/ cfs_link(t)
           \/ cfs_utime(t) \/ rename_cache(t) \/ release_dig(t)
  <2>1. RequestsInv'
    BY <1>6, NameCallTyped
  <2>2. unlink_meta(t) => DirsInv'
    BY NoFileKeeps DEF unlink_meta
  <2>3. QED
    BY <1>6, <2>1, <2>2, NasSteps, CacheSteps
    DEF cfs_unlink, cfs_truncate, cfs_link, cfs_utime
<1>7. CASE rename_nas(t) \/ release_close(t)
  BY <1>7, HandleStepTyped, NasSteps, NoFileKeeps DEF release_close
<1>8. CASE MetaStep(t) /\ UNCHANGED cfsVars
  BY <1>8 DEF cfsVars, DirsInv, RequestsInv, OwnsInv, fh
<1>9. QED
  BY <1>2, <1>3, <1>4, <1>5, <1>6, <1>7, <1>8
  DEF Daemon, cfs_release, cfs_rename

---------------------------------------------------------------------------
\* System calls that fail: whatever is left undone, the types stay.
LEMMA FailureTyped ==
  ASSUME CallbackInv, DirsInv, RequestsInv, NEW t \in Threads, CallFails(t)
  PROVE  DirsInv' /\ RequestsInv'
<1>1. /\ DOMAIN req[t] = Fields /\ Typed(req[t]) /\ req[t].len \in Nat
      /\ <<>> \in Seq(ByteSet) /\ {} \in SUBSET (0 .. MaxTime)
      /\ {} \in SUBSET Int
  BY DEF CallbackInv, ReqInv, Locals, RequestsInv, Typed, LocalTypes
<1>2. CASE call_fails(t)
  <2>1. UNCHANGED handles /\ NoFile
    BY <1>2 DEF call_fails, NoFile
  <2>2. RequestsInv'
    <3>1. CASE req[t].pc \in DOMAIN Follows
                 /\ Go(t, [req[t] EXCEPT !.pc = Follows[@]])
      <4> DEFINE pc == Follows[req[t].pc]
                 r  == [req[t] EXCEPT !.pc = pc]
      <4>1. \/ req[t].pc = "open_create"  /\ pc = "open_mknod"
            \/ req[t].pc = "open_mknod"   /\ pc = "open_cache"
            \/ req[t].pc = "unlink_cache" /\ pc = "unlink_nas"
            \/ req[t].pc = "trunc_cache"  /\ pc = "trunc_nas"
            \/ req[t].pc = "rename_cache" /\ pc = "rename_nas"
            \/ req[t].pc = "link_cache"   /\ pc = "link_nas"
            \/ req[t].pc = "utime_cache"  /\ pc = "utime_nas"
        BY <3>1 DEF Follows
      <4>2. Go(t, r)
        BY <1>1, <3>1 DEF Fields, NoReq
      <4> HIDE DEF pc
      <4>3. Typed(r) /\ r.op = req[t].op /\ r.h = req[t].h
        BY <1>1, <4>1, PcTyped
      <4> HIDE DEF r
      <4>4. QED  BY <2>1, <4>2, <4>3, RequestGoesOn
    <3>2. CASE Return(t)
      <4>1. PICK r : r = NoReq /\ Go(t, r)
        BY <3>2 DEF Return
      <4>2. QED  BY <2>1, <4>1, RequestGoesOn
    <3>3. CASE Pc(t, "open_unlink") /\ AfterUnlink(t)
      <4>1. \/ Go(t, NoReq)
            \/ /\ req[t].ino # NoInode
               /\ Go(t, [req[t] EXCEPT !.pc = "open_create"])
        BY <3>3 DEF AfterUnlink, Return
      <4>2. QED
        BY <1>1, <2>1, <3>3, <4>1, RequestGoesOn
        DEF Pc, Typed, StepOfOp, LocalTypes, Fields, NoReq
    <3>4. QED  BY <1>2, <3>1, <3>2, <3>3 DEF call_fails
  <2>3. QED  BY <2>1, <2>2, NoFileKeeps
<1>3. CASE lookup_fails(t)
  <2>1. /\ 0 .. MaxTime \in SUBSET (0 .. MaxTime)
        /\ 0 .. MaxSize \in SUBSET Int
    BY BlockSize
  <2>2. CASE open_presentAs(t, TRUE) \/ open_statAs(t, 0 .. MaxTime)
             \/ open_dateAs(t, 0 .. MaxTime)
    <3>1. RequestsInv'
      BY <2>1, <2>2, OpenTyped
    <3>2. QED
      BY <2>2, <3>1, NoFileKeeps DEF open_presentAs, open_statAs, open_dateAs
  <2>3. CASE read_checkAs(t, TRUE)
    <3>1. RequestsInv'
      BY <1>1, <2>3, ReadTyped
    <3>2. QED  BY <2>3, <3>1, NoFileKeeps DEF read_checkAs
  <2>4. CASE write_statAs(t, 0 .. MaxSize)
    <3>1. RequestsInv'
      BY <1>1, <2>1, <2>4, WriteTyped
    <3>2. QED  BY <2>4, <3>1, NoFileKeeps DEF write_statAs
  <2>5. QED  BY <1>3, <2>2, <2>3, <2>4 DEF lookup_fails
<1>4. CASE pread_fails(t)
  <2>1. RequestsInv'
    <3>1. CASE read_allAs(t, <<>>, -1) \/ read_blockAs(t, <<>>, -1)
      BY <1>1, <3>1, ReadTyped
    <3>2. CASE write_readAs(t, <<>>)
      BY <1>1, <3>2, WriteTyped
    <3>3. QED  BY <1>4, <3>1, <3>2 DEF pread_fails
  <2>2. NoFile
    BY <1>4 DEF pread_fails, read_allAs, read_blockAs, write_readAs
  <2>3. QED  BY <2>1, <2>2, NoFileKeeps
<1>5. CASE pwrite_fails(t)
  <2>1. CASE \E n \in 0 .. req[t].len - 1 : write_nasAs(t, n)
    <3>1. PICK n \in 0 .. req[t].len : write_nasAs(t, n)
      BY <1>1, <2>1
    <3>2. RequestsInv'
      BY <1>1, <3>1, WriteTyped
    <3>3. QED  BY <3>1, <3>2, NasSteps
  <2>2. CASE /\ Pc(t, "cache_pwrite")
             /\ \E n \in 0 .. Len(WriteBytes(t)) - 1 : cache_pwriteAs(t, n)
    <3>1. Len(WriteBytes(t)) \in Nat
      BY <2>2, WriteBytesType, LenProperties DEF Covering, Pc
    <3>2. PICK n \in 0 .. Len(WriteBytes(t)) : cache_pwriteAs(t, n)
      BY <2>2, <3>1
    <3>3. RequestsInv'
      BY <3>2, CacheWriteTyped
    <3>4. QED  BY <3>2, <3>3, CacheSteps
  <2>3. QED  BY <1>5, <2>1, <2>2 DEF pwrite_fails
<1>6. QED  BY <1>2, <1>3, <1>4, <1>5 DEF CallFails

---------------------------------------------------------------------------
\* A request that the kernel issues.
LEMMA Issued ==
  ASSUME CallbackInv, DirsInv, RequestsInv, NEW t \in Threads, NEW r,
         Issue(t, r), Typed(r), HasOpen(r, handles[r.h]),
         r.h # NoHandle => \A u \in Threads \ {t} :
                             req[u].op \in {"open", "release"} => req[u].h # r.h,
         r.op \in {"open", "release"} => \A u \in Threads : req[u].h # r.h
  PROVE  DirsInv' /\ RequestsInv'
<1>1. /\ DOMAIN req = Threads /\ req'[t] = r
      /\ \A u \in Threads \ {t} : req'[u] = req[u]
      /\ NoFile
  BY DEF Issue, Go, CallbackInv, ReqInv
<1>2. \A u \in Threads : Typed(req'[u]) /\ HasOpen(req'[u], fh(u)')
  BY <1>1 DEF RequestsInv, NoFile, fh
<1>3. ASSUME NEW a \in Threads, NEW u \in Threads, a # u,
             req'[a].op \in {"open", "release"}
      PROVE  req'[u].h # req'[a].h
  <2>1. CASE a = t
    BY <1>1, <1>3, <2>1
  <2>2. CASE a # t /\ u # t
    BY <1>1, <1>3, <2>2 DEF RequestsInv, OwnsInv
  <2>3. CASE a # t /\ u = t
    <3>1. req[a].h \in Handles
      BY <1>1, <1>3, <2>3 DEF RequestsInv, HasOpen
    <3>2. QED  BY <1>1, <1>3, <2>3, <3>1, CacheFSAssumption
  <2>4. QED  BY <1>3, <2>1, <2>2, <2>3
<1>4. UNCHANGED handles
  BY <1>1 DEF NoFile
<1>5. QED
  BY <1>1, <1>2, <1>3, <1>4, NoFileKeeps DEF RequestsInv, OwnsInv
\* What the kernel issues is well formed.
LEMMA StartTyped ==
  ASSUME CallbackInv, DirsInv, RequestsInv, NEW t \in Threads, Starts(t)
  PROVE  DirsInv' /\ RequestsInv'
<1>1. /\ BS \in Nat \ {0} /\ MaxSize \in Nat \ {0}
      /\ <<>> \in Seq(ByteSet) /\ NoHandle \notin Handles
  BY BlockSize, CacheFSAssumption
<1>2. CASE \E p, q \in Paths : \/ StartMknod(t, p) \/ StartUnlink(t, p)
                               \/ StartRename(t, p, q) \/ StartLink(t, p, q)
  <2>1. PICK p \in Paths, q \in Paths :
               \/ StartMknod(t, p) \/ StartUnlink(t, p)
               \/ StartRename(t, p, q) \/ StartLink(t, p, q)
    BY <1>2
  <2> DEFINE Plain(r) == /\ r.h = NoHandle /\ r.off = 0 /\ r.len = 0 /\ r.num = 0
                         /\ r.val = Zero /\ r.ino = NoInode /\ r.buf = <<>>
                         /\ \/ r.op = "mknod"  /\ r.pc = "mknod"
                            \/ r.op = "unlink" /\ r.pc = "unlink_meta"
                            \/ r.op = "rename" /\ r.pc = "rename_cache"
                            \/ r.op = "link"   /\ r.pc = "link_cache"
             mknod  == [NoReq EXCEPT !.op = "mknod", !.pc = "mknod", !.path = p]
             unlink == [NoReq EXCEPT !.op = "unlink", !.pc = "unlink_meta", !.path = p]
             rename == [NoReq EXCEPT !.op = "rename", !.pc = "rename_cache",
                                     !.path = p, !.new = q]
             link   == [NoReq EXCEPT !.op = "link", !.pc = "link_cache",
                                     !.path = p, !.new = q]
  <2>2. ASSUME NEW r, Plain(r), Issue(t, r)
        PROVE  DirsInv' /\ RequestsInv'
    <3>1. Typed(r) /\ HasOpen(r, handles[r.h])
      BY <1>1, <2>2 DEF Typed, StepOfOp, LocalTypes, HasOpen
    <3>2. QED  BY <2>2, <3>1, Issued
  <2>3. Plain(mknod) /\ Plain(unlink) /\ Plain(rename) /\ Plain(link)
    BY DEF NoReq
  <2>4. \/ Issue(t, mknod) \/ Issue(t, unlink) \/ Issue(t, rename)
        \/ Issue(t, link)
    BY <2>1 DEF StartMknod, StartUnlink, StartRename, StartLink
  <2> HIDE DEF Plain, mknod, unlink, rename, link
  <2>5. QED  BY <2>2, <2>3, <2>4
<1>3. CASE \E p \in Paths, h \in Handles : StartOpen(t, p, h)
  <2>1. PICK p \in Paths, h \in Handles : StartOpen(t, p, h)
    BY <1>3
  <2> DEFINE r == [NoReq EXCEPT !.op = "open", !.pc = "open_nas", !.path = p,
                                !.h = h]
  <2>2. /\ r.op = "open" /\ r.pc = "open_nas" /\ r.h = h /\ r.off = 0 /\ r.len = 0
        /\ r.num = 0 /\ r.val = Zero /\ r.ino = NoInode /\ r.buf = <<>>
    BY DEF NoReq
  <2>3. /\ Issue(t, r) /\ handles[h] = Closed
        /\ \A u \in Threads : req[u].h # h
    BY <2>1 DEF StartOpen
  <2> HIDE DEF r
  <2>4. Typed(r) /\ HasOpen(r, handles[r.h])
    BY <1>1, <2>2, <2>3 DEF Typed, StepOfOp, LocalTypes, HasOpen
  <2>5. QED  BY <2>2, <2>3, <2>4, Issued
<1>4. CASE \E p \in Paths, time \in 0 .. MaxTime : StartUtime(t, p, time)
  <2>1. PICK p \in Paths, time \in 0 .. MaxTime : StartUtime(t, p, time)
    BY <1>4
  <2> DEFINE r == [NoReq EXCEPT !.op = "utime", !.pc = "utime_cache", !.path = p,
                                !.num = time]
  <2>2. /\ r.op = "utime" /\ r.pc = "utime_cache" /\ r.h = NoHandle /\ r.off = 0
        /\ r.len = 0 /\ r.num = time /\ r.val = Zero /\ r.ino = NoInode
        /\ r.buf = <<>>
    BY DEF NoReq
  <2>3. Issue(t, r)
    BY <2>1 DEF StartUtime
  <2> HIDE DEF r
  <2>4. Typed(r) /\ HasOpen(r, handles[r.h])
    BY <1>1, <2>2 DEF Typed, StepOfOp, LocalTypes, HasOpen
  <2>5. QED  BY <2>2, <2>3, <2>4, Issued
<1>5. CASE \E p \in Paths, len \in 0 .. MaxSize :
             \E h \in OpenOf(p) \cup {NoHandle} : StartTruncate(t, p, h, len)
  <2>1. PICK p \in Paths, len \in 0 .. MaxSize :
               \E h \in OpenOf(p) \cup {NoHandle} : StartTruncate(t, p, h, len)
    BY <1>5
  <2>2. PICK h \in OpenOf(p) \cup {NoHandle} : StartTruncate(t, p, h, len)
    BY <2>1
  <2> DEFINE r == [NoReq EXCEPT !.op = "truncate", !.pc = "trunc_cache",
                                !.path = p, !.h = h, !.len = len]
  <2>3. /\ r.op = "truncate" /\ r.pc = "trunc_cache" /\ r.h = h /\ r.off = 0
        /\ r.len = len /\ r.num = 0 /\ r.val = Zero /\ r.ino = NoInode
        /\ r.buf = <<>>
    BY DEF NoReq
  <2>4. Issue(t, r) /\ (h # NoHandle => Usable(h))
    BY <2>2 DEF StartTruncate
  <2> HIDE DEF r
  <2>5. h # NoHandle => h \in Handles /\ handles[h] # Closed
    BY CacheFSAssumption DEF OpenOf, Closed
  <2>6. Typed(r) /\ HasOpen(r, handles[r.h])
    BY <1>1, <2>1, <2>3, <2>5 DEF Typed, StepOfOp, LocalTypes, HasOpen
  <2>7. ASSUME h # NoHandle, NEW u \in Threads, req[u].op \in {"open", "release"}
        PROVE  req[u].h # h
    BY <2>4, <2>5, <2>7 DEF Usable, RequestsInv, HasOpen, fh
  <2>8. QED  BY <2>3, <2>4, <2>6, <2>7, Issued
<1>6. CASE \E h \in Opened : StartRelease(t, h)
  <2>1. PICK h \in Opened : StartRelease(t, h)
    BY <1>6
  <2> DEFINE p == handles[h].path
             r == [NoReq EXCEPT !.op = "release", !.pc = "release_dig",
                                !.path = p, !.h = h]
  <2>2. /\ r.op = "release" /\ r.pc = "release_dig" /\ r.h = h /\ r.off = 0
        /\ r.len = 0 /\ r.num = 0 /\ r.val = Zero /\ r.ino = NoInode
        /\ r.buf = <<>>
    BY DEF NoReq
  <2>3. Issue(t, r) /\ \A u \in Threads : req[u].h # h
    BY <2>1 DEF StartRelease
  <2>4. h \in Handles /\ handles[h] # Closed
    BY DEF Opened
  <2> HIDE DEF r
  <2>5. Typed(r) /\ HasOpen(r, handles[r.h])
    BY <1>1, <2>2, <2>4 DEF Typed, StepOfOp, LocalTypes, HasOpen
  <2>6. QED  BY <2>2, <2>3, <2>5, Issued
<1>7. CASE \E h \in Opened, off \in 0 .. MaxSize, len \in 1 .. MaxSize + BS :
             \/ StartRead(t, h, off, len)
             \/ \E v \in Values : StartWrite(t, h, off, len, v)
  <2>1. PICK h \in Opened, off \in 0 .. MaxSize, len \in 1 .. MaxSize + BS :
               \/ StartRead(t, h, off, len)
               \/ \E v \in Values : StartWrite(t, h, off, len, v)
    BY <1>7
  <2>2. h \in Handles /\ handles[h] # Closed /\ off \in Nat /\ len \in Nat
    BY <1>1 DEF Opened
  <2> DEFINE p == handles[h].path
  <2> DEFINE Fits(r) ==
        /\ r.h = h /\ r.off = off /\ r.len = len /\ r.num = 0
        /\ r.val \in Values \cup {Zero} /\ r.ino = NoInode /\ r.buf = <<>>
        /\ \/ r.op = "read"  /\ r.pc = "read_check"
           \/ r.op = "write" /\ r.pc = "write_nas" /\ off + len <= MaxSize
  <2>3. ASSUME NEW r, Fits(r), Usable(h), Issue(t, r)
        PROVE  DirsInv' /\ RequestsInv'
    <3>1. Typed(r) /\ HasOpen(r, handles[r.h])
      BY <1>1, <2>2, <2>3 DEF Typed, StepOfOp, LocalTypes, HasOpen
    <3>2. ASSUME NEW u \in Threads, req[u].op \in {"open", "release"}
          PROVE  req[u].h # h
      BY <2>2, <2>3, <3>2 DEF Usable, RequestsInv, HasOpen, fh
    <3>3. QED  BY <2>3, <3>1, <3>2, Issued
  <2>4. CASE StartRead(t, h, off, len)
    <3> DEFINE r == [NoReq EXCEPT !.op = "read", !.pc = "read_check", !.path = p,
                                  !.h = h, !.off = off, !.len = len]
               q == [r EXCEPT !.todo = RequestBlocks(r)]
    <3>1. Usable(h) /\ Issue(t, q)
      BY <2>4 DEF StartRead
    <3>2. Fits(q)
      BY DEF NoReq
    <3> HIDE DEF q, Fits
    <3>3. QED  BY <2>3, <3>1, <3>2
  <2>5. CASE \E v \in Values : StartWrite(t, h, off, len, v)
    <3>1. PICK v \in Values : StartWrite(t, h, off, len, v)
      BY <2>5
    <3> DEFINE r == [NoReq EXCEPT !.op = "write", !.pc = "write_nas", !.path = p,
                       !.h = h, !.off = off, !.len = len, !.val = v]
               q == [r EXCEPT !.todo = RequestBlocks(r)]
    <3>2. Usable(h) /\ Issue(t, q) /\ off + len <= MaxSize
      BY <3>1 DEF StartWrite
    <3>3. Fits(q)
      BY <3>2 DEF NoReq
    <3> HIDE DEF q, Fits
    <3>4. QED  BY <2>3, <3>2, <3>3
  <2>6. QED  BY <2>1, <2>4, <2>5
<1>8. QED
  BY <1>2, <1>3, <1>4, <1>5, <1>6, <1>7 DEF Starts

---------------------------------------------------------------------------
\* The rest of the environment: other clients write the NAS in the size files
\* may have, and a crash leaves both directories as they are.
LEMMA EnvironmentTyped ==
  ASSUME CallbackInv, DirsInv, RequestsInv,
         \/ Tick \/ Crash
         \/ \E p \in Paths, off \in 0 .. MaxSize - 1, v \in Values \cup {Zero},
              nasClock \in 0 .. MaxTime : RemoteWrite(p, off, v, nasClock)
  PROVE  DirsInv' /\ RequestsInv'
<1>1. CASE Tick
  <2>1. clock' \in 0 .. MaxTime
    BY <1>1, BlockSize DEF Tick, DirsInv
  <2>2. QED  BY <1>1, <2>1 DEF Tick, DirsInv, RequestsInv, OwnsInv, fh
<1>2. CASE Crash
  <2>1. /\ \A t \in Threads : req'[t] = NoReq
        /\ \A h \in Handles : handles'[h] = Closed
        /\ UNCHANGED <<nas, cache, clock>>
    BY <1>2 DEF Crash
  <2>2. RequestsInv'
    BY <2>1, NoReqTyped DEF RequestsInv, OwnsInv, HandleType, fh
  <2>3. QED  BY <2>1, <2>2, NoFileKeeps
<1>3. CASE \E p \in Paths, off \in 0 .. MaxSize - 1, v \in Values \cup {Zero},
             nasClock \in 0 .. MaxTime : RemoteWrite(p, off, v, nasClock)
  <2>1. PICK p \in Paths, off \in 0 .. MaxSize - 1, v \in Values \cup {Zero},
             nasClock \in 0 .. MaxTime : RemoteWrite(p, off, v, nasClock)
    BY <1>3
  <2> DEFINE i   == nas.dir[p]
             bytes == <<v>>
             new == Pwrite(nas, i, off, bytes, nasClock)
  <2>2. nas' = new /\ UNCHANGED <<cache, handles, req, clock>>
    BY <2>1 DEF RemoteWrite
  <2>3. /\ v \in NasBytes /\ Zero \in NasBytes /\ FileSystem(nas, Paths, NasBytes)
        /\ \A j \in Inodes : Len(nas.data[j]) <= MaxSize
    BY DEF NasBytes, DirsInv
  <2>4. bytes \in Seq(NasBytes) /\ Len(bytes) = 1
    BY <2>3
  <2> HIDE DEF bytes, i
  <2>5. /\ off \in Nat /\ off + Len(bytes) \in Nat /\ off + Len(bytes) <= MaxSize
        /\ MaxSize \in Nat
    BY <2>4, BlockSize
  <2>6. /\ FileSystem(new, Paths, NasBytes)
        /\ \A j \in Inodes : Len(new.data[j]) <=
                               Larger(Len(nas.data[j]), off + Len(bytes))
    BY <2>3, <2>4, <2>5, InodeCalls
  <2>7. \A j \in Inodes : Len(new.data[j]) \in Nat /\ Len(nas.data[j]) \in Nat
    BY <2>3, <2>6, LenProperties DEF FileSystem
  <2> HIDE DEF new
  <2>8. \A j \in Inodes : Len(new.data[j]) <= MaxSize
    BY <2>3, <2>5, <2>6, <2>7, LargerFits
  <2>9. DirsInv'
    BY <2>2, <2>6, <2>8, NasChanges
  <2>10. RequestsInv'
    BY <2>2 DEF RequestsInv, OwnsInv, fh
  <2>11. QED  BY <2>9, <2>10
<1>4. QED  BY <1>1, <1>2, <1>3

\* The types are an inductive invariant of the file system.
LEMMA FSTypeInductive ==
  /\ Init => DirsInv /\ RequestsInv
  /\ CallbackInv /\ DirsInv /\ RequestsInv /\ [CfsNext]_vars =>
       DirsInv' /\ RequestsInv'
<1>1. ASSUME Init PROVE DirsInv /\ RequestsInv
  <2>1. <<>> \in Seq(NasBytes) /\ <<>> \in Seq(ByteSet) /\ Len(<<>>) = 0
    OBVIOUS
  <2>2. 0 \in 0 .. MaxTime /\ 0 <= MaxSize
    BY BlockSize
  <2>3. DirsInv
    BY <1>1, <2>1, <2>2 DEF Init, EmptyFS, DirsInv, FileSystem
  <2>4. RequestsInv
    BY <1>1, NoReqTyped DEF Init, RequestsInv, OwnsInv, HandleType
  <2>5. QED  BY <2>3, <2>4
<1>2. ASSUME CallbackInv, DirsInv, RequestsInv, [CfsNext]_vars
      PROVE  DirsInv' /\ RequestsInv'
  <2>1. CASE UNCHANGED vars
    BY <1>2, <2>1 DEF vars, cfsVars, DirsInv, RequestsInv, OwnsInv, fh
  <2>2. ASSUME NEW t \in Threads, SQLFails(t) PROVE DirsInv' /\ RequestsInv'
    BY <1>2, <2>2 DEF SQLFails, cfsVars, DirsInv, RequestsInv, OwnsInv, fh
  <2>3. QED
    BY <1>2, <2>1, <2>2, DaemonTyped, FailureTyped, StartTyped,
       EnvironmentTyped DEF CfsNext
<1>3. QED  BY <1>1, <1>2

\* Whatever callbacks overlap, fail and are killed, a request reads and writes
\* through descriptors that are open, in the blocks there are, and no byte of
\* malloc'ed memory reaches the NAS: the buffers of cachefs.c:585 and
\* cachefs.c:661 go to the cache file alone.
THEOREM FSTypeCorrect == CfsSpec => []FSTypeOK
<1>1. TypeOK /\ CallbackInv /\ DirsInv /\ RequestsInv => FSTypeOK
  <2> SUFFICES ASSUME TypeOK, CallbackInv, DirsInv, RequestsInv  PROVE FSTypeOK
    OBVIOUS
  <2>1. ASSUME NEW i \in Inodes
        PROVE  /\ nas.data[i] \in Seq(ByteSet) /\ Junk \notin ToSet(nas.data[i])
               /\ cache.data[i] \in Seq(ByteSet)
               /\ nas.mtime[i] \in 0 .. MaxTime /\ cache.mtime[i] \in 0 .. MaxTime
    <3>1. /\ nas.data[i] \in Seq(NasBytes) /\ cache.data[i] \in Seq(ByteSet)
          /\ nas.mtime[i] \in 0 .. MaxTime /\ cache.mtime[i] \in 0 .. MaxTime
      BY DEF DirsInv, FileSystem
    <3>2. NasBytes \subseteq ByteSet /\ Junk \notin NasBytes
      BY CacheFSAssumption DEF NasBytes, ByteSet
    <3>3. nas.data[i] \in Seq(ByteSet)
      BY <3>1, <3>2, SeqMonotonic
    <3>4. Junk \notin ToSet(nas.data[i])
      BY <3>1, <3>2, LenProperties, ElementOfSeq DEF ToSet
    <3>5. QED  BY <3>1, <3>3, <3>4
  <2>2. FSType(nas, Paths) /\ FSType(cache, Names)
    BY <2>1 DEF DirsInv, FileSystem, FSType
  <2>3. \A h \in Opened : /\ handles[h].path \in Paths
                          /\ handles[h].nas \in Inodes
                          /\ handles[h].cache \in Inodes
    BY DEF Opened, CallbackInv, HandlesInv, Handle, RequestsInv, HandleType
  <2>4. \A t \in Threads : req[t].todo \subseteq Blocks
    BY DEF CallbackInv, ReqInv, Locals
  <2>5. QED
    BY <2>1, <2>2, <2>3, <2>4 DEF FSTypeOK, DirsInv
<1>2. NextFS => Next
  BY DEF NextFS, Next, APICall
<1>3. SpecFS => Spec
  BY <1>2, PTL DEF SpecFS, Spec
<1>4. QED
  BY <1>1, <1>3, FileSystemUsesMeta, TypeCorrect, CallbackInductive,
     FSTypeInductive, PTL DEF CfsSpec
=============================================================================
