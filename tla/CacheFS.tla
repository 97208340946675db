------------------------------ MODULE CacheFS ------------------------------
(***************************************************************************)
(* The file system: the FUSE callbacks of src/src/cachefs.c, over the      *)
(* metadata store (Meta), the NAS directory and the cache directory.       *)
(*                                                                         *)
(* A callback runs on the thread of its request.  Every system call and    *)
(* every SQL statement is a step of its own, so the model has the          *)
(* interleavings of callbacks and the places a crash can fall.  The state  *)
(* of a callback between two steps is its entry of req.                    *)
(*                                                                         *)
(* The kernel and libfuse decide which callbacks can overlap: see Kernel   *)
(* below.                                                                  *)
(***************************************************************************)
EXTENDS Meta, Sequences, SequencesExt

CONSTANTS
  Inodes, NoInode, Zero,  \* see PosixFS
  Paths,        \* paths below the mount point: sequences of characters
  NoPath,
  Handles,      \* open files
  NoHandle,
  Values,       \* bytes that are written
  Junk,         \* a byte of malloc'ed memory that nothing has written
  cache_size,   \* bytes the cache may hold
  PageBlocks,   \* blocks in a page of the kernel
  MaxSize,      \* bound on the size of a file
  MaxTime       \* bound on the clock, in seconds

INSTANCE PosixFS
Align == INSTANCE CacheAlign WITH block_size <- meta_block_size

\* Every '/' but the first is dropped.
pathToFileName(path) ==
  <<Head(path)>> \o SelectSeq(Tail(path), LAMBDA c : c # "/")

ASSUME CacheFSAssumption ==
  /\ Names = {pathToFileName(p) : p \in Paths}
  /\ NoPath \notin Paths /\ NoHandle \notin Handles /\ NoInode \notin Inodes
  /\ Blocks = 0 .. (MaxSize - 1) \div meta_block_size
  /\ PageBlocks \in Nat \ {0} /\ MaxSize \in Nat \ {0} /\ MaxTime \in Nat
  /\ Junk \notin Values \cup {Zero}

VARIABLES
  nas,      \* the NAS directory
  cache,    \* the cache directory
  handles,  \* dualFileHandle of each open file: its path and two inodes
  req,      \* the callback each thread is executing
  clock     \* seconds

cfsVars == <<nas, cache, handles, req, clock>>
vars    == <<metaVars, cfsVars>>

Closed == [path |-> NoPath, nas |-> NoInode, cache |-> NoInode]

(***************************************************************************)
(* The locals of a callback: what the kernel asked for (path, handle h,    *)
(* off, len, and val for the bytes to write), the NAS descriptor ino and   *)
(* presentInCache of cfs_open, todo the blocks of the request not handled  *)
(* yet, hits those found in Datablocks (cacheBlockHitYN), buf the          *)
(* cacheBuf, count what cfs_read adds up for its return value, new the     *)
(* second path of cfs_rename and cfs_link.  num is an attribute that one   *)
(* step reads and a later one uses: st_mtime in cfs_open, nasReadSize in   *)
(* cfs_write, the time to set in cfs_utime.                                *)
(***************************************************************************)
NoReq == [op |-> "none", pc |-> "idle", path |-> NoPath, h |-> NoHandle,
          off |-> 0, len |-> 0, val |-> Zero, ino |-> NoInode,
          new |-> NoPath, present |-> FALSE, todo |-> {}, hits |-> {}, buf |-> <<>>,
          count |-> 0, num |-> 0]

Pc(t, pc) == req[t].pc = pc
name(t)   == pathToFileName(req[t].path)
newName(t) == pathToFileName(req[t].new)
fh(t)     == handles[req[t].h]

BS == meta_block_size

\* malloc'ed memory of n bytes, the first of them overwritten.
Padded(bytes, n) == bytes \o [k \in 1 .. n - Len(bytes) |-> Junk]

\* Thread t goes on with locals r; it returns to FUSE.
Go(t, r)  == req' = [req EXCEPT ![t] = r]
Return(t) == Go(t, NoReq)

\* Statements of meta.c are taken by MetaStep; a callback goes on when its
\* call has returned.
NoSQL  == UNCHANGED metaVars
NoFile == UNCHANGED <<nas, cache, handles, clock>>

CacheHeld == {handles[h].cache : h \in Handles}
NasHeld   == {handles[h].nas : h \in Handles} \cup {req[t].ino : t \in Threads}

---------------------------------------------------------------------------
(***************************************************************************)
(* cfs_mknod                                                               *)
(***************************************************************************)
cfs_mknod(t) ==
  /\ Pc(t, "mknod")
  /\ nas' = Create(nas, req[t].path, NasHeld, clock)
  /\ Return(t)
  /\ NoSQL /\ UNCHANGED <<cache, handles, clock>>

---------------------------------------------------------------------------
(***************************************************************************)
(* cfs_open                                                                *)
(***************************************************************************)
\* The open on the NAS can fail: the file was removed there meanwhile, it may
\* not be opened this way, the server does not answer.
open_nas(t) ==
  /\ Pc(t, "open_nas")
  /\ \E i \in {nas.dir[req[t].path], NoInode} :
       Go(t, [req[t] EXCEPT !.ino = i, !.pc = "open_present"])
  /\ NoSQL /\ NoFile

\* is_file_in_cache.  Without the file on the NAS the open fails, and what the
\* cache has of it is deleted first.
open_presentAs(t, present) ==
  /\ Pc(t, "open_present")
  /\ \/ /\ present /\ req[t].ino = NoInode
        /\ delete_file(t, name(t))
        /\ Go(t, [req[t] EXCEPT !.pc = "open_unlink"])
     \/ /\ ~present /\ req[t].ino = NoInode
        /\ Return(t) /\ NoSQL
     \/ /\ req[t].ino # NoInode
        /\ Go(t, [req[t] EXCEPT !.pc = "open_stat", !.present = present])
        /\ NoSQL
  /\ NoFile

open_present(t) == open_presentAs(t, name(t) \in files)

\* cfs_getNASattr: an lstat of the path, which need not be the file opened.
\* If it fails the attributes are whatever the stack held.
NasTimes(p) == IF nas.dir[p] # NoInode THEN {nas.mtime[nas.dir[p]]}
               ELSE 0 .. MaxTime

open_statAs(t, times) ==
  /\ Pc(t, "open_stat")
  /\ \E m \in times :
       Go(t, [req[t] EXCEPT !.num = m,
                !.pc = IF req[t].present THEN "open_date" ELSE "open_create"])
  /\ NoSQL /\ NoFile

open_stat(t) == open_statAs(t, NasTimes(req[t].path))

CacheTimes(f) == IF cache.dir[f] # NoInode THEN {cache.mtime[cache.dir[f]]}
                 ELSE 0 .. MaxTime

\* Mutant of Behind: whatever the cache has is current.
BehindNever(cacheTime, nasTime) == FALSE

Behind(cacheTime, nasTime) == cacheTime < nasTime

\* cfs_getCacheattr, and the comparison in whole seconds.
open_dateAs(t, times) ==
  /\ Pc(t, "open_date")
  /\ \E m \in times :
       \/ /\ Behind(m, req[t].num)
          /\ delete_file(t, name(t))
          /\ Go(t, [req[t] EXCEPT !.pc = "open_unlink"])
       \/ /\ ~Behind(m, req[t].num)
          /\ Go(t, [req[t] EXCEPT !.pc = "open_cache"]) /\ NoSQL
  /\ NoFile

open_date(t) == open_dateAs(t, CacheTimes(name(t)))

\* Mutant of open_unlink: cfs_open goes on although the NAS open failed.
open_unlinkGoesOn(t) ==
  /\ Pc(t, "open_unlink") /\ Idle(t)
  /\ cache' = Unlink(cache, name(t))
  /\ Go(t, [req[t] EXCEPT !.pc = "open_create"])
  /\ NoSQL /\ UNCHANGED <<nas, handles, clock>>

AfterUnlink(t) ==
  IF req[t].ino = NoInode THEN Return(t)
  ELSE Go(t, [req[t] EXCEPT !.pc = "open_create"])

open_unlink(t) ==
  /\ Pc(t, "open_unlink") /\ Idle(t)
  /\ cache' = Unlink(cache, name(t))
  /\ AfterUnlink(t)
  /\ NoSQL /\ UNCHANGED <<nas, handles, clock>>

open_create(t) ==
  /\ Pc(t, "open_create")
  /\ create_file(t, name(t))
  /\ Go(t, [req[t] EXCEPT !.pc = "open_mknod"])
  /\ NoFile

\* cfs_mkCacheNod; its errors are not looked at.
open_mknod(t) ==
  /\ Pc(t, "open_mknod")
  /\ cache' = Create(cache, name(t), CacheHeld, clock)
  /\ Go(t, [req[t] EXCEPT !.pc = "open_cache"])
  /\ NoSQL /\ UNCHANGED <<nas, handles, clock>>

open_cache(t) ==
  /\ Pc(t, "open_cache")
  /\ IF cache.dir[name(t)] = NoInode THEN UNCHANGED handles
     ELSE handles' = [handles EXCEPT ![req[t].h] =
            [path |-> req[t].path, nas |-> req[t].ino,
             cache |-> cache.dir[name(t)]]]
  /\ Return(t)
  /\ NoSQL /\ UNCHANGED <<nas, cache, clock>>

cfs_open(t) ==
  \/ open_nas(t) \/ open_present(t) \/ open_stat(t) \/ open_date(t)
  \/ open_unlink(t) \/ open_create(t) \/ open_mknod(t) \/ open_cache(t)

---------------------------------------------------------------------------
(***************************************************************************)
(* cfs_cacheWrite: for a whole request of cfs_write, or for the block in   *)
(* hand of cfs_read.                                                       *)
(***************************************************************************)
BlockInHand(t) == CHOOSE b \in req[t].todo : IsFirst(b, req[t].todo)

WriteOffset(t) == BS * BlockInHand(t)
WriteBlocks(t) == IF req[t].op = "read" THEN {BlockInHand(t)} ELSE req[t].todo

\* Mutant of WriteBytes: cfs_read passes the start of its buffer.
WriteBytesFirst(t) ==
  IF req[t].op = "read" THEN SubSeq(req[t].buf, 1, BS) ELSE req[t].buf

WriteBytes(t)  ==
  IF req[t].op = "read"
  THEN SubSeq(req[t].buf, Len(req[t].buf) - BS + 1, Len(req[t].buf))
  ELSE req[t].buf

\* The next block of cfs_read, or the end of the loop.
NextReadBlock(t, r) ==
  LET rest == r.todo \ {BlockInHand(t)}
  IN [r EXCEPT !.todo = rest,
               !.pc = IF rest = {} THEN "read_done" ELSE "read_block"]

\* Mutant of HasSpace: it waits until one more block fits.
HasSpaceAhead == used + BS < cache_size

HasSpace == used < cache_size

\* The body of the loop that is to make space does nothing: the only call in
\* it, evict_blocks, is a comment.  The thread goes round.
cache_wait(t) ==
  /\ Pc(t, "cache_record") /\ ~HasSpace
  /\ UNCHANGED vars

\* Mutant of cache_record: the rows are inserted without a look at the table.
cache_recordBlind(t) ==
  /\ Pc(t, "cache_record") /\ HasSpace
  /\ insert_blocks(t, name(t), WriteBlocks(t))
  /\ Go(t, [req[t] EXCEPT !.pc = "cache_pwrite"])
  /\ NoFile

cache_record(t) ==
  /\ Pc(t, "cache_record") /\ HasSpace
  /\ write_blks(t, name(t), WriteBlocks(t))
  /\ Go(t, [req[t] EXCEPT !.pc = "cache_pwrite"])
  /\ NoFile

\* n bytes arrive, all of them unless the call fails.
cache_pwriteAs(t, n) ==
  /\ Pc(t, "cache_pwrite") /\ Idle(t)
  /\ cache' = IF n = 0 THEN cache
              ELSE Pwrite(cache, fh(t).cache, WriteOffset(t),
                          SubSeq(WriteBytes(t), 1, n), clock)
  /\ IF req[t].op = "read" THEN Go(t, NextReadBlock(t, req[t])) ELSE Return(t)
  /\ NoSQL /\ UNCHANGED <<nas, handles, clock>>

cache_pwrite(t) == cache_pwriteAs(t, Len(WriteBytes(t)))

cfs_cacheWrite(t) == cache_wait(t) \/ cache_record(t) \/ cache_pwrite(t)

---------------------------------------------------------------------------
(***************************************************************************)
(* cfs_read                                                                *)
(***************************************************************************)
RequestBlocks(r) == Align!offsetArray(r.off, r.len)

\* Mutant of read_check: one block in the cache counts as all of them.
read_checkAny(t) ==
  /\ Pc(t, "read_check")
  /\ LET b    == BlockInHand(t)
         hits == IF <<name(t), b>> \in blocks THEN req[t].hits \cup {b}
                                              ELSE req[t].hits
         all  == RequestBlocks(req[t])
         rest == req[t].todo \ {b}
     IN Go(t, [req[t] EXCEPT !.hits = hits,
                 !.todo = IF rest = {} THEN all ELSE rest,
                 !.pc = IF rest # {} THEN "read_check"
                        ELSE IF hits # {} THEN "read_all" ELSE "read_block"])
  /\ NoSQL /\ NoFile

\* are_blocks_in_cache, one SELECT for each block.
read_checkAs(t, found) ==
  /\ Pc(t, "read_check")
  /\ LET b    == BlockInHand(t)
         hits == IF found THEN req[t].hits \cup {b} ELSE req[t].hits
         all  == RequestBlocks(req[t])
         rest == req[t].todo \ {b}
     IN Go(t, [req[t] EXCEPT !.hits = hits,
                 !.todo = IF rest = {} THEN all ELSE rest,
                 !.pc = IF rest # {} THEN "read_check"
                        ELSE IF hits = all THEN "read_all" ELSE "read_block"])
  /\ NoSQL /\ NoFile

read_check(t) == read_checkAs(t, <<name(t), BlockInHand(t)>> \in blocks)

\* Everything is in the cache: one pread, which returns n.
read_allAs(t, bytes, n) ==
  /\ Pc(t, "read_all")
  /\ Go(t, [req[t] EXCEPT !.buf = Padded(bytes, BS * Cardinality(req[t].todo)),
                          !.count = n, !.todo = {}, !.pc = "read_done"])
  /\ NoSQL /\ NoFile

read_all(t) ==
  LET bytes == Pread(cache, fh(t).cache, WriteOffset(t),
                     BS * Cardinality(req[t].todo))
  IN read_allAs(t, bytes, Len(bytes))

\* One block, from the cache or from the NAS; the latter goes to the cache.
read_blockAs(t, bytes, n) ==
  /\ Pc(t, "read_block")
  /\ LET r == [req[t] EXCEPT !.buf = @ \o Padded(bytes, BS), !.count = @ + n]
     IN Go(t, IF BlockInHand(t) \in req[t].hits THEN NextReadBlock(t, r)
              ELSE [r EXCEPT !.pc = "cache_record"])
  /\ NoSQL /\ NoFile

read_block(t) ==
  LET b     == BlockInHand(t)
      bytes == IF b \in req[t].hits THEN Pread(cache, fh(t).cache, BS * b, BS)
                                    ELSE Pread(nas, fh(t).nas, BS * b, BS)
  IN read_blockAs(t, bytes, Len(bytes))

\* memcpy to the caller's buffer, and the return.
read_done(t) ==
  /\ Pc(t, "read_done")
  /\ Return(t)
  /\ NoSQL /\ NoFile

cfs_read(t) == read_check(t) \/ read_all(t) \/ read_block(t) \/ read_done(t)

---------------------------------------------------------------------------
(***************************************************************************)
(* cfs_write                                                               *)
(***************************************************************************)
write_nasAs(t, n) ==
  /\ Pc(t, "write_nas")
  /\ nas' = IF n = 0 THEN nas
            ELSE Pwrite(nas, fh(t).nas, req[t].off,
                        [k \in 1 .. n |-> req[t].val], clock)
  /\ Go(t, [req[t] EXCEPT !.pc = "write_stat"])
  /\ NoSQL /\ UNCHANGED <<cache, handles, clock>>

write_nas(t) == write_nasAs(t, req[t].len)

\* nasReadSize: the blocks as far as the NAS file goes.  The size is that of
\* the path; if the path is gone it is whatever the stack held.
NasSizes(p) == IF nas.dir[p] # NoInode THEN {Len(nas.data[nas.dir[p]])}
               ELSE 0 .. MaxSize

write_statAs(t, sizes) ==
  /\ Pc(t, "write_stat")
  /\ \E size \in sizes :
       LET lower   == Align!alignLowerOffset(req[t].off)
           aligned == Align!alignedSize(req[t].len)
       IN Go(t, [req[t] EXCEPT !.pc = "write_read",
                   !.num = IF lower + aligned > size
                           THEN Wrap(size - lower) ELSE aligned])
  /\ NoSQL /\ NoFile

write_stat(t) == write_statAs(t, NasSizes(req[t].path))

\* Mutant of write_read: the buffer goes to the cache without the blocks.
write_readNot(t) ==
  /\ Pc(t, "write_read")
  /\ Go(t, [req[t] EXCEPT !.buf = Padded(<<>>, Align!alignedSize(req[t].len)),
                          !.pc = "cache_record"])
  /\ NoSQL /\ NoFile

\* The blocks come back from the NAS into a buffer of their aligned size; a
\* size that wrapped below zero is too large for pread, which reads nothing.
write_readAs(t, bytes) ==
  /\ Pc(t, "write_read")
  /\ Go(t, [req[t] EXCEPT !.buf = Padded(bytes, Align!alignedSize(req[t].len)),
                          !.pc = "cache_record"])
  /\ NoSQL /\ NoFile

write_read(t) ==
  write_readAs(t, IF req[t].num >= SizeMod \div 2 THEN <<>>
                  ELSE Pread(nas, fh(t).nas, WriteOffset(t), req[t].num))

cfs_write(t) == write_nas(t) \/ write_stat(t) \/ write_read(t)

---------------------------------------------------------------------------
(***************************************************************************)
(* cfs_unlink, cfs_truncate, cfs_ftruncate                                 *)
(***************************************************************************)
unlink_meta(t) ==
  /\ Pc(t, "unlink_meta")
  /\ delete_file(t, name(t))
  /\ Go(t, [req[t] EXCEPT !.pc = "unlink_cache"])
  /\ NoFile

unlink_cache(t) ==
  /\ Pc(t, "unlink_cache") /\ Idle(t)
  /\ cache' = Unlink(cache, name(t))
  /\ Go(t, [req[t] EXCEPT !.pc = "unlink_nas"])
  /\ NoSQL /\ UNCHANGED <<nas, handles, clock>>

unlink_nas(t) ==
  /\ Pc(t, "unlink_nas")
  /\ nas' = Unlink(nas, req[t].path)
  /\ Return(t)
  /\ NoSQL /\ UNCHANGED <<cache, handles, clock>>

cfs_unlink(t) == unlink_meta(t) \/ unlink_cache(t) \/ unlink_nas(t)

\* The cache file first, then the NAS file; the metadata stays as it is.
\* cfs_truncate names them by path, cfs_ftruncate has a handle.
trunc_cache(t) ==
  /\ Pc(t, "trunc_cache")
  /\ LET i == IF req[t].h = NoHandle THEN cache.dir[name(t)] ELSE fh(t).cache
     IN cache' = IF i = NoInode THEN cache
                 ELSE Ftruncate(cache, i, req[t].len, clock)
  /\ Go(t, [req[t] EXCEPT !.pc = "trunc_nas"])
  /\ NoSQL /\ UNCHANGED <<nas, handles, clock>>

trunc_nas(t) ==
  /\ Pc(t, "trunc_nas")
  /\ LET i == IF req[t].h = NoHandle THEN nas.dir[req[t].path] ELSE fh(t).nas
     IN nas' = IF i = NoInode THEN nas
               ELSE Ftruncate(nas, i, req[t].len, clock)
  /\ Return(t)
  /\ NoSQL /\ UNCHANGED <<cache, handles, clock>>

cfs_truncate(t) == trunc_cache(t) \/ trunc_nas(t)

---------------------------------------------------------------------------
(***************************************************************************)
(* cfs_rename, cfs_link, cfs_utime: the cache first, then the NAS.  The    *)
(* rows stay under the names they have.                                    *)
(***************************************************************************)
rename_cache(t) ==
  /\ Pc(t, "rename_cache")
  /\ cache' = Rename(cache, name(t), newName(t))
  /\ Go(t, [req[t] EXCEPT !.pc = "rename_nas"])
  /\ NoSQL /\ UNCHANGED <<nas, handles, clock>>

\* After a rename libfuse calls an open file by its new path.
Renamed(old, new) ==
  [h \in Handles |-> IF handles[h].path = old
                     THEN [handles[h] EXCEPT !.path = new] ELSE handles[h]]

\* Mutant of rename_nas: a file the cache could not rename keeps its name.
rename_nasIfCached(t) ==
  /\ Pc(t, "rename_nas")
  /\ LET done == cache.dir[newName(t)] # NoInode
     IN /\ nas' = IF done THEN Rename(nas, req[t].path, req[t].new) ELSE nas
        /\ handles' = IF done THEN Renamed(req[t].path, req[t].new) ELSE handles
  /\ Return(t)
  /\ NoSQL /\ UNCHANGED <<cache, clock>>

rename_nas(t) ==
  /\ Pc(t, "rename_nas")
  /\ nas' = Rename(nas, req[t].path, req[t].new)
  /\ handles' = IF nas.dir[req[t].path] = NoInode THEN handles
                ELSE Renamed(req[t].path, req[t].new)
  /\ Return(t)
  /\ NoSQL /\ UNCHANGED <<cache, clock>>

cfs_rename(t) == rename_cache(t) \/ rename_nas(t)

link_cache(t) ==
  /\ Pc(t, "link_cache")
  /\ cache' = Link(cache, name(t), newName(t))
  /\ Go(t, [req[t] EXCEPT !.pc = "link_nas"])
  /\ NoSQL /\ UNCHANGED <<nas, handles, clock>>

link_nas(t) ==
  /\ Pc(t, "link_nas")
  /\ nas' = Link(nas, req[t].path, req[t].new)
  /\ Return(t)
  /\ NoSQL /\ UNCHANGED <<cache, handles, clock>>

cfs_link(t) == link_cache(t) \/ link_nas(t)

utime_cache(t) ==
  /\ Pc(t, "utime_cache")
  /\ LET i == cache.dir[name(t)]
     IN cache' = IF i = NoInode THEN cache ELSE Utime(cache, i, req[t].num)
  /\ Go(t, [req[t] EXCEPT !.pc = "utime_nas"])
  /\ NoSQL /\ UNCHANGED <<nas, handles, clock>>

utime_nas(t) ==
  /\ Pc(t, "utime_nas")
  /\ LET i == nas.dir[req[t].path]
     IN nas' = IF i = NoInode THEN nas ELSE Utime(nas, i, req[t].num)
  /\ Return(t)
  /\ NoSQL /\ UNCHANGED <<cache, handles, clock>>

cfs_utime(t) == utime_cache(t) \/ utime_nas(t)

---------------------------------------------------------------------------
(***************************************************************************)
(* cfs_release                                                             *)
(***************************************************************************)
\* fallocate -d looks for zeroes to give back to the cache's file system; the
\* bytes stay, and st_mtime is the present if it finds any.
release_dig(t) ==
  /\ Pc(t, "release_dig")
  /\ LET i == cache.dir[name(t)]
     IN cache' \in {cache} \cup
          (IF i = NoInode THEN {} ELSE {[cache EXCEPT !.mtime[i] = clock]})
  /\ Go(t, [req[t] EXCEPT !.pc = "release_close"])
  /\ NoSQL /\ UNCHANGED <<nas, handles, clock>>

release_close(t) ==
  /\ Pc(t, "release_close")
  /\ handles' = [handles EXCEPT ![req[t].h] = Closed]
  /\ Return(t)
  /\ NoSQL /\ UNCHANGED <<nas, cache, clock>>

cfs_release(t) == release_dig(t) \/ release_close(t)

---------------------------------------------------------------------------
(***************************************************************************)
(* System calls that fail (no space, no permission, the NAS is away), and  *)
(* SQL statements.  log_syscall and meta.c report an error, and the        *)
(* callbacks go on as if there had been none: what fails is left undone,   *)
(* the next step is the same.                                              *)
(***************************************************************************)
\* The step that follows a call whose result is not looked at ...
Follows == [open_create  |-> "open_mknod", open_mknod  |-> "open_cache",
            unlink_cache |-> "unlink_nas", trunc_cache |-> "trunc_nas",
            rename_cache |-> "rename_nas", link_cache  |-> "link_nas",
            utime_cache  |-> "utime_nas"]

\* ... and the calls that are the last of their callback.
Ends == {"mknod", "open_cache", "unlink_nas", "trunc_nas", "rename_nas",
         "link_nas", "utime_nas"}

call_fails(t) ==
  /\ Idle(t)
  /\ \/ /\ req[t].pc \in DOMAIN Follows
        /\ Go(t, [req[t] EXCEPT !.pc = Follows[@]])
     \/ req[t].pc \in Ends /\ Return(t)
     \/ Pc(t, "open_unlink") /\ AfterUnlink(t)
  /\ NoSQL /\ NoFile

\* is_file_in_cache and is_blk_in_cache return -1, which is true; lstat leaves
\* the attributes as they were on the stack.
lookup_fails(t) ==
  \/ open_presentAs(t, TRUE) \/ read_checkAs(t, TRUE)
  \/ open_statAs(t, 0 .. MaxTime) \/ open_dateAs(t, 0 .. MaxTime)
  \/ write_statAs(t, 0 .. MaxSize)

\* cfs_read adds the -1 of a pread to the bytes of the others.
pread_fails(t) ==
  read_allAs(t, <<>>, -1) \/ read_blockAs(t, <<>>, -1) \/ write_readAs(t, <<>>)

\* Nothing, or fewer bytes than there are.
pwrite_fails(t) ==
  \/ \E n \in 0 .. req[t].len - 1 : write_nasAs(t, n)
  \/ /\ Pc(t, "cache_pwrite")
     /\ \E n \in 0 .. Len(WriteBytes(t)) - 1 : cache_pwriteAs(t, n)

CallFails(t) ==
  call_fails(t) \/ lookup_fails(t) \/ pread_fails(t) \/ pwrite_fails(t)

SQLFails(t) == StatementFails(t) /\ UNCHANGED cfsVars

---------------------------------------------------------------------------
(***************************************************************************)
(* The kernel and libfuse: which callbacks they start, and which never     *)
(* overlap.  A page of a file is locked while it is read or written, so    *)
(* reads and writes that run together are of different pages; a write is   *)
(* within one page and a read of whole pages that begin before the end of  *)
(* the file; writes, truncations and changes of the times of a file        *)
(* exclude each other (inode lock), and so do calls that create a name     *)
(* (directory lock); libfuse runs an unlink and a rename alone on their    *)
(* paths, and turns the unlink of an open file, or a rename over one, into *)
(* a rename to an unused name.                                             *)
(***************************************************************************)
PageSize == BS * PageBlocks
PagesOf(off, len) == off \div PageSize .. (off + len - 1) \div PageSize

Opened    == {h \in Handles : handles[h] # Closed}
OpenOf(p) == {h \in Handles : handles[h].path = p}
Active(p) == {t \in Threads : p \in {req[t].path, req[t].new}}
ActiveIn(p, ops) == {t \in Active(p) : req[t].op \in ops}
InodeLocked(p)   == ActiveIn(p, {"write", "truncate", "utime"}) # {}

\* A handle is released after the last request that uses it.
Usable(h) == \A t \in Threads : ~(req[t].h = h /\ req[t].op = "release")

PagesFree(p, off, len) ==
  \A t \in ActiveIn(p, {"read", "write"}) :
    PagesOf(req[t].off, req[t].len) \cap PagesOf(off, len) = {}

Issue(t, r) ==
  /\ Pc(t, "idle")
  /\ \A p \in Paths \cap {r.path, r.new} : ActiveIn(p, {"unlink", "rename"}) = {}
  /\ Go(t, r)
  /\ NoSQL /\ NoFile

StartMknod(t, p) ==
  /\ nas.dir[p] = NoInode /\ ActiveIn(p, {"mknod", "link"}) = {}
  /\ Issue(t, [NoReq EXCEPT !.op = "mknod", !.pc = "mknod", !.path = p])

StartOpen(t, p, h) ==
  /\ handles[h] = Closed /\ \A u \in Threads : req[u].h # h
  /\ nas.dir[p] # NoInode
  /\ Issue(t, [NoReq EXCEPT !.op = "open", !.pc = "open_nas", !.path = p,
                            !.h = h])

StartRead(t, h, off, len) ==
  LET p == handles[h].path
      r == [NoReq EXCEPT !.op = "read", !.pc = "read_check", !.path = p,
                         !.h = h, !.off = off, !.len = len]
  IN /\ off % PageSize = 0 /\ len % PageSize = 0
     /\ off + len - PageSize < Len(nas.data[handles[h].nas])
     /\ Usable(h) /\ PagesFree(p, off, len)
     /\ Issue(t, [r EXCEPT !.todo = RequestBlocks(r)])

StartWrite(t, h, off, len, v) ==
  LET p == handles[h].path
      r == [NoReq EXCEPT !.op = "write", !.pc = "write_nas", !.path = p,
                         !.h = h, !.off = off, !.len = len, !.val = v]
  IN /\ off + len <= MaxSize
     /\ Cardinality(PagesOf(off, len)) = 1
     /\ ~InodeLocked(p)
     /\ Usable(h) /\ PagesFree(p, off, len)
     /\ Issue(t, [r EXCEPT !.todo = RequestBlocks(r)])

\* h is NoHandle for a truncation by path.
StartTruncate(t, p, h, len) ==
  /\ ~InodeLocked(p)
  /\ h # NoHandle => Usable(h)
  /\ Issue(t, [NoReq EXCEPT !.op = "truncate", !.pc = "trunc_cache",
                            !.path = p, !.h = h, !.len = len])

StartUnlink(t, p) ==
  /\ nas.dir[p] # NoInode /\ OpenOf(p) = {} /\ Active(p) = {}
  /\ Issue(t, [NoReq EXCEPT !.op = "unlink", !.pc = "unlink_meta", !.path = p])

StartRename(t, p, q) ==
  /\ p # q /\ nas.dir[p] # NoInode /\ OpenOf(q) = {}
  /\ Active(p) = {} /\ Active(q) = {}
  /\ Issue(t, [NoReq EXCEPT !.op = "rename", !.pc = "rename_cache", !.path = p,
                            !.new = q])

StartLink(t, p, q) ==
  /\ nas.dir[p] # NoInode /\ nas.dir[q] = NoInode
  /\ ActiveIn(q, {"mknod", "link"}) = {}
  /\ Issue(t, [NoReq EXCEPT !.op = "link", !.pc = "link_cache", !.path = p,
                            !.new = q])

StartUtime(t, p, time) ==
  /\ nas.dir[p] # NoInode /\ ~InodeLocked(p)
  /\ Issue(t, [NoReq EXCEPT !.op = "utime", !.pc = "utime_cache", !.path = p,
                            !.num = time])

StartRelease(t, h) ==
  /\ \A u \in Threads : req[u].h # h
  /\ Issue(t, [NoReq EXCEPT !.op = "release", !.pc = "release_dig",
                            !.path = handles[h].path, !.h = h])

---------------------------------------------------------------------------
(***************************************************************************)
(* The rest of the environment: the clock, other clients of the NAS, and   *)
(* the end of the process, after which main() starts over.                 *)
(***************************************************************************)
Tick ==
  /\ clock < MaxTime /\ clock' = clock + 1
  /\ NoSQL /\ UNCHANGED <<nas, cache, handles, req>>

\* The NAS has a clock of its own.
RemoteWrite(p, off, v, nasClock) ==
  /\ nas.dir[p] # NoInode
  /\ nas' = Pwrite(nas, nas.dir[p], off, <<v>>, nasClock)
  /\ NoSQL /\ UNCHANGED <<cache, handles, req, clock>>

Crash ==
  /\ init_cache_used_size
  /\ handles' = [h \in Handles |-> Closed]
  /\ req' = [t \in Threads |-> NoReq]
  /\ UNCHANGED <<nas, cache, clock>>

\* An unmount waits for the callbacks that are running.
Remount == (\A t \in Threads : Pc(t, "idle")) /\ Opened = {} /\ Crash

---------------------------------------------------------------------------
Init ==
  /\ MetaInit
  /\ nas = EmptyFS(Paths) /\ cache = EmptyFS(Names)
  /\ handles = [h \in Handles |-> Closed]
  /\ req = [t \in Threads |-> NoReq]
  /\ clock = 0

\* A thread goes on with its callback, or with the meta.c call it is in.
Daemon(t) ==
  \/ cfs_mknod(t) \/ cfs_open(t) \/ cfs_read(t) \/ cfs_write(t)
  \/ cfs_cacheWrite(t) \/ cfs_unlink(t) \/ cfs_truncate(t) \/ cfs_release(t)
  \/ cfs_rename(t) \/ cfs_link(t) \/ cfs_utime(t)
  \/ (MetaStep(t) /\ UNCHANGED cfsVars)

\* All the kernel can ask of thread t: a request covers at least one block.
Starts(t) ==
  \/ \E p, q \in Paths :
       \/ StartMknod(t, p) \/ StartUnlink(t, p)
       \/ StartRename(t, p, q) \/ StartLink(t, p, q)
  \/ \E p \in Paths, h \in Handles : StartOpen(t, p, h)
  \/ \E p \in Paths, time \in 0 .. MaxTime : StartUtime(t, p, time)
  \/ \E p \in Paths, len \in 0 .. MaxSize :
       \E h \in OpenOf(p) \cup {NoHandle} : StartTruncate(t, p, h, len)
  \/ \E h \in Opened : StartRelease(t, h)
  \/ \E h \in Opened, off \in 0 .. MaxSize, len \in 1 .. MaxSize + BS :
       /\ Align!offsetArray(off, len) \subseteq Blocks
       /\ \/ StartRead(t, h, off, len)
          \/ \E v \in Values : StartWrite(t, h, off, len, v)

\* Everything that can happen, failures and crashes included.
CfsNext ==
  \/ \E t \in Threads : Daemon(t) \/ CallFails(t) \/ SQLFails(t) \/ Starts(t)
  \/ \E p \in Paths, off \in 0 .. MaxSize - 1, v \in Values \cup {Zero},
        nasClock \in 0 .. MaxTime : RemoteWrite(p, off, v, nasClock)
  \/ Tick \/ Crash

CfsSpec == Init /\ [][CfsNext]_vars

---------------------------------------------------------------------------
(***************************************************************************)
(* Properties.                                                             *)
(***************************************************************************)
\* Types of the variables this module adds.
ByteSet == Values \cup {Zero, Junk}

FSType(fs, names) ==
  /\ fs.dir \in [names -> Inodes \cup {NoInode}]
  /\ \A i \in Inodes : /\ fs.data[i] \in Seq(ByteSet)
                       /\ fs.mtime[i] \in 0 .. MaxTime

FSTypeOK ==
  /\ TypeOK
  /\ FSType(nas, Paths) /\ FSType(cache, Names)
  /\ \A i \in Inodes : Junk \notin ToSet(nas.data[i])
  /\ \A h \in Opened : /\ handles[h].path \in Paths
                       /\ handles[h].nas \in Inodes
                       /\ handles[h].cache \in Inodes
  /\ \A t \in Threads : req[t].todo \subseteq Blocks
  /\ clock \in 0 .. MaxTime

\* The requests for the NAS file i, by whatever path.
RequestsFor(i, ops) ==
  {t \in Threads : /\ req[t].op \in ops
                   /\ i = IF req[t].h = NoHandle THEN nas.dir[req[t].path]
                          ELSE fh(t).nas}

\* A request that holds block b of file i, or the length of the whole file.
InFlight(i, b) ==
  \/ RequestsFor(i, {"truncate"}) # {}
  \/ \E t \in RequestsFor(i, {"read", "write"}) :
       b \div PageBlocks \in PagesOf(req[t].off, req[t].len)

\* The bytes of block b that file i of the NAS has, as positions in its data.
BytesOf(b, i) == BS * b + 1 .. Smaller(BS * (b + 1), Len(nas.data[i]))

\* What the metadata says is cached is cached: in an open file every recorded
\* block, unless a request is working on it, has in the cache the bytes it has
\* on the NAS, as far as the NAS file goes ("either have entire block or do
\* not", cachefs.c:547).
Coherent ==
  \A h \in Opened, b \in Blocks :
    LET o == handles[h]
    IN <<pathToFileName(o.path), b>> \in blocks /\ ~InFlight(o.nas, b) =>
         \A k \in BytesOf(b, o.nas) :
           /\ k <= Len(cache.data[o.cache])
           /\ cache.data[o.cache][k] = nas.data[o.nas][k]

\* When cfs_read returns, its buffer has the bytes of the NAS file, and its
\* return value covers all of those that were asked for; while the file is
\* being truncated, cache first and NAS after, it may be of either size.
ReadReturnsNas ==
  \A t \in Threads :
    Pc(t, "read_done") /\ ActiveIn(req[t].path, {"truncate"}) = {} =>
      LET d == nas.data[fh(t).nas]
          n == Smaller(req[t].len, Len(d) - req[t].off)
      IN /\ req[t].count >= n
         /\ \A k \in 1 .. n : req[t].buf[k] = d[req[t].off + k]

\* Both descriptors of an open file are those of the files its path names, so
\* that what a request does through them is what the metadata is about; but for
\* a rename that has moved the cache file and not yet the file.
HandlesCurrent ==
  \A h \in Opened :
    LET p == handles[h].path
    IN ActiveIn(p, {"rename"}) = {} =>
         /\ nas.dir[p] = handles[h].nas
         /\ cache.dir[pathToFileName(p)] = handles[h].cache

\* "Writes are also write-though, write-allocate" (README.md:14): when
\* cfs_write returns, every byte it wrote is on the NAS and in the cache, in a
\* block that is recorded.
WriteThrough(t) ==
  Pc(t, "cache_pwrite") /\ req[t].op = "write" /\ Pc(t, "idle")' =>
    \A byte \in req[t].off .. req[t].off + req[t].len - 1 :
      /\ <<name(t), byte \div BS>> \in blocks'
      /\ nas'.data[fh(t).nas][byte + 1] = req[t].val
      /\ byte < Len(cache'.data[fh(t).cache])
      /\ cache'.data[fh(t).cache][byte + 1] = req[t].val

WritesThrough == [][\A t \in Threads : WriteThrough(t)]_vars

\* Every callback returns: no request waits for ever for space in the cache.
RequestsFinish == \A t \in Threads : ~Pc(t, "idle") ~> Pc(t, "idle")

\* A request waits for space only while the blocks recorded take all there is
\* ("Cache is full", cachefs.c:513).
WaitsOnlyWhenFull ==
  \A t \in Threads : Pc(t, "cache_record") /\ ~HasSpace =>
    BS * Cardinality(blocks) >= cache_size
===========================================================================
