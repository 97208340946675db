--------------------------- MODULE HandleProofs ---------------------------
(***************************************************************************)
(* A file that programs open one at a time keeps its two descriptors on    *)
(* the files its path names, for any number of threads, files and open     *)
(* files, as long as no two paths share a cache file name.                 *)
(***************************************************************************)
EXTENDS CacheFSMC, CacheFSProofs

\* cfs_pathToFileName drops the '/'s: it can give two paths one name
\* (cachefs.c:87).
NoCollision ==
  \A p, q \in Paths : pathToFileName(p) = pathToFileName(q) => p = q

\* The steps of each callback that SpecAlone starts.
AtStep(r) ==
  \/ r.op = "none"     /\ r.pc = "idle" /\ r.path = NoPath
  \/ r.op = "mknod"    /\ r.pc = "mknod"
  \/ r.op = "open"     /\ r.pc \in {"open_nas", "open_present", "open_stat",
                                    "open_date", "open_unlink", "open_create",
                                    "open_mknod", "open_cache"}
  \/ r.op = "read"     /\ r.pc \in {"read_check", "read_all", "read_block",
                                    "read_done", "cache_record", "cache_pwrite"}
  \/ r.op = "write"    /\ r.pc \in {"write_nas", "write_stat", "write_read",
                                    "cache_record", "cache_pwrite"}
  \/ r.op = "truncate" /\ r.pc \in {"trunc_cache", "trunc_nas"}
  \/ r.op = "unlink"   /\ r.pc \in {"unlink_meta", "unlink_cache", "unlink_nas"}
  \/ r.op = "utime"    /\ r.pc \in {"utime_cache", "utime_nas"}
  \/ r.op = "release"  /\ r.pc \in {"release_dig", "release_close"}

Shape(r) == /\ DOMAIN r = Fields
            /\ AtStep(r)
            /\ r.new = NoPath
            /\ r.op # "none" => r.path \in Paths

\* The NAS descriptor of cfs_open is that of the file the path names in dir, and
\* past the check of the open there is one.
Opening(dir, r) ==
  r.op = "open" =>
    /\ r.ino # NoInode => r.ino = dir[r.path]
    /\ r.pc \in {"open_stat", "open_date", "open_create", "open_mknod",
                 "open_cache"} => r.ino # NoInode

DirInv ==
  /\ DOMAIN nas = {"dir", "data", "mtime"} /\ DOMAIN nas.dir = Paths
  /\ DOMAIN cache = {"dir", "data", "mtime"} /\ DOMAIN cache.dir = Names

PathReqs == /\ DOMAIN req = Threads
            /\ \A t \in Threads : Shape(req[t]) /\ Opening(nas.dir, req[t])

\* An open and an unlink have the path to themselves.
LockInv ==
  /\ \A t, u \in Threads : t # u =>
       /\ req[t].op = "unlink" => req[u].path # req[t].path
       /\ req[t].op = "open" /\ req[u].op = "open" => req[u].path # req[t].path
  /\ \A t \in Threads, h \in Handles :
       req[t].op \in {"open", "unlink"} => handles[h].path # req[t].path

\* The path of an open file names its two inodes, in the directories n and c.
Current(n, c, o) ==
  /\ o.path \in Paths
  /\ n[o.path] = o.nas /\ o.nas # NoInode
  /\ c[pathToFileName(o.path)] = o.cache /\ o.cache # NoInode

HandleInv ==
  /\ DOMAIN handles = Handles
  /\ \A h \in Handles :
       handles[h] = Closed \/ Current(nas.dir, cache.dir, handles[h])

PathInv == DirInv /\ PathReqs /\ LockInv /\ HandleInv

---------------------------------------------------------------------------
\* A thread without a callback.
LEMMA IdleShape == /\ Shape(NoReq) /\ \A dir : Opening(dir, NoReq)
                   /\ NoReq.op = "none" /\ NoReq.path = NoPath
  BY DEF Shape, Opening, AtStep, NoReq, Fields

\* A callback goes on with its request, or returns, and no handle changes: what
\* it does to the directories must suit the others.
Moves(t, r) ==
  /\ Go(t, r) /\ UNCHANGED handles
  /\ Shape(r) /\ Opening(nas'.dir, r)
  /\ \/ r = NoReq
     \/ r.op = req[t].op /\ r.path = req[t].path

\* A step that suits the names, the handles and the other callbacks keeps PathInv.
LEMMA MovesKeep ==
  ASSUME PathInv, NEW t \in Threads, NEW r, Moves(t, r), DirInv',
         \A u \in Threads \ {t} : Opening(nas'.dir, req[u]),
         \A h \in Handles : \/ handles[h] = Closed
                            \/ Current(nas'.dir, cache'.dir, handles[h])
  PROVE  PathInv'
<1>1. /\ DOMAIN req' = Threads /\ req'[t] = r
      /\ \A u \in Threads \ {t} : req'[u] = req[u]
  BY DEF Moves, Go, PathInv, PathReqs
<1>2. PathReqs'
  BY <1>1 DEF PathInv, PathReqs, Moves
<1>3. \A u \in Threads : /\ req'[u].op \in {req[u].op, "none"}
                         /\ req'[u].path \in {req[u].path, NoPath}
                         /\ req'[u].op # "none" => /\ req'[u].op = req[u].op
                                                   /\ req'[u].path = req[u].path
  BY <1>1, IdleShape DEF Moves
<1>4. LockInv'
  <2>1. ASSUME NEW a \in Threads, NEW u \in Threads, a # u
        PROVE  /\ req'[a].op = "unlink" => req'[u].path # req'[a].path
               /\ req'[a].op = "open" /\ req'[u].op = "open"
                    => req'[u].path # req'[a].path
    <3>1. req[a].op = "unlink" => req[a].path \in Paths
      BY DEF PathInv, PathReqs, Shape
    <3>2. QED
      BY <1>3, <2>1, <3>1, CacheFSAssumption DEF PathInv, LockInv
  <2>2. QED  BY <1>3, <2>1 DEF PathInv, LockInv, Moves
<1>5. HandleInv'
  BY DEF PathInv, HandleInv, Moves
<1>6. QED  BY <1>2, <1>4, <1>5 DEF PathInv

\* What suits every callback: the names stay as they are.
SameDirs == /\ DOMAIN nas' = DOMAIN nas /\ nas'.dir = nas.dir
            /\ DOMAIN cache' = DOMAIN cache /\ cache'.dir = cache.dir

\* A step that leaves the names as they are does.
LEMMA PathContinues ==
  ASSUME PathInv, NEW t \in Threads, NEW r, Moves(t, r), SameDirs
  PROVE  PathInv'
<1>1. DirInv' /\ \A u \in Threads : Opening(nas'.dir, req[u])
  BY DEF PathInv, DirInv, PathReqs, SameDirs
<1>2. \A h \in Handles : \/ handles[h] = Closed
                         \/ Current(nas'.dir, cache'.dir, handles[h])
  BY DEF PathInv, HandleInv, SameDirs
<1>3. QED  BY <1>1, <1>2, MovesKeep

\* The kernel starts a callback.
LEMMA Begins ==
  ASSUME PathInv, NEW t \in Threads, NEW r, Issue(t, r), Shape(r),
         r.op # "none", r.op = "open" => r.pc = "open_nas" /\ r.ino = NoInode,
         r.op = "open" => ActiveIn(r.path, {"open"}) = {},
         r.op = "unlink" => Active(r.path) = {},
         r.op \in {"open", "unlink"} => OpenOf(r.path) = {}
  PROVE  PathInv'
<1>1. /\ DOMAIN req' = Threads /\ req'[t] = r
      /\ \A u \in Threads \ {t} : req'[u] = req[u]
      /\ UNCHANGED <<nas, cache, handles>>
  BY DEF Issue, Go, NoFile, PathInv, PathReqs
<1>2. r.path \in Paths
  BY DEF Shape
<1>3. PathReqs'
  BY <1>1 DEF PathInv, PathReqs, Opening
<1>4. \A u \in Threads \ {t} : req[u].op = "unlink" => req[u].path # r.path
  BY <1>2 DEF Issue, ActiveIn, Active
<1>5. /\ r.op = "open" => \A u \in Threads \ {t} :
                            req[u].op = "open" => req[u].path # r.path
      /\ r.op = "unlink" => \A u \in Threads \ {t} : req[u].path # r.path
      /\ r.op \in {"open", "unlink"} => \A h \in Handles : handles[h].path # r.path
  BY <1>2 DEF ActiveIn, Active, OpenOf
<1>6. LockInv'
  BY <1>1, <1>4, <1>5 DEF PathInv, LockInv
<1>7. QED
  BY <1>1, <1>3, <1>6 DEF PathInv, DirInv, HandleInv

---------------------------------------------------------------------------
\* Calls on an inode keep the names.
LEMMA KeepsNames ==
  ASSUME NEW fs, DOMAIN fs = {"dir", "data", "mtime"}, NEW i, NEW off, NEW n,
         NEW bytes, NEW now
  PROVE  /\ DOMAIN Pwrite(fs, i, off, bytes, now) = DOMAIN fs
         /\ Pwrite(fs, i, off, bytes, now).dir = fs.dir
         /\ DOMAIN Ftruncate(fs, i, n, now) = DOMAIN fs
         /\ Ftruncate(fs, i, n, now).dir = fs.dir
         /\ DOMAIN Utime(fs, i, now) = DOMAIN fs
         /\ Utime(fs, i, now).dir = fs.dir
  BY DEF Pwrite, Ftruncate, Utime

\* A callback that is not an open goes to another of its steps, with other
\* locals.
LEMMA GoesOn ==
  ASSUME PathInv, NEW t \in Threads, NEW r, Go(t, r), UNCHANGED handles,
         SameDirs, req[t].op # "open",
         r = NoReq \/ /\ DOMAIN r = Fields /\ AtStep(r)
                      /\ r.op = req[t].op /\ r.path = req[t].path
                      /\ r.new = req[t].new
  PROVE  PathInv'
<1>1. Shape(req[t])
  BY DEF PathInv, PathReqs
<1>2. CASE r = NoReq
  <2>1. Shape(r) /\ Opening(nas'.dir, r)
    BY <1>2, IdleShape DEF Opening
  <2>2. QED  BY <1>2, <2>1, PathContinues DEF Moves
<1>3. CASE r # NoReq
  <2>1. Shape(r) /\ Opening(nas'.dir, r)
    BY <1>1, <1>3 DEF Shape, Opening
  <2>2. QED  BY <1>3, <2>1, PathContinues DEF Moves
<1>4. QED  BY <1>2, <1>3

\* cfs_read: no name and no handle changes.
LEMMA PathRead ==
  ASSUME PathInv, NEW t \in Threads, cfs_read(t)
  PROVE  PathInv'
<1>1. Shape(req[t]) /\ DirInv
  BY DEF PathInv, PathReqs
<1>2. SameDirs /\ UNCHANGED handles
  BY DEF cfs_read, read_check, read_checkAs, read_all, read_allAs, read_block,
         read_blockAs, read_done, NoFile, SameDirs
<1>3. CASE read_check(t)
  BY <1>1, <1>2, <1>3, GoesOn DEF read_check, read_checkAs, Pc, Shape, AtStep,
     Fields, NoReq
<1>4. CASE read_all(t)
  BY <1>1, <1>2, <1>4, GoesOn DEF read_all, read_allAs, Pc, Shape, AtStep,
     Fields, NoReq
<1>5. CASE read_block(t)
  BY <1>1, <1>2, <1>5, GoesOn DEF read_block, read_blockAs, NextReadBlock, Pc,
     Shape, AtStep, Fields, NoReq
<1>6. CASE read_done(t)
  BY <1>1, <1>2, <1>6, GoesOn DEF read_done, Return, Pc, Shape, AtStep
<1>7. QED  BY <1>3, <1>4, <1>5, <1>6 DEF cfs_read

\* cfs_write and cfs_cacheWrite write through the two descriptors.
LEMMA PathWrite ==
  ASSUME PathInv, NEW t \in Threads, cfs_write(t) \/ cfs_cacheWrite(t)
  PROVE  PathInv'
<1>1. Shape(req[t]) /\ DirInv
  BY DEF PathInv, PathReqs
<1>2. CASE write_nas(t)
  <2>1. SameDirs
    BY <1>1, <1>2, KeepsNames DEF write_nas, write_nasAs, SameDirs, DirInv
  <2>2. QED
    BY <1>1, <1>2, <2>1, GoesOn DEF write_nas, write_nasAs, Pc, Shape, AtStep,
       Fields, NoReq
<1>3. CASE write_stat(t)
  <2>1. PICK n : Go(t, [req[t] EXCEPT !.pc = "write_read", !.num = n])
    BY <1>3 DEF write_stat, write_statAs
  <2>2. SameDirs /\ UNCHANGED handles /\ Pc(t, "write_stat")
    BY <1>3 DEF write_stat, write_statAs, SameDirs, NoFile
  <2>3. QED
    BY <1>1, <2>1, <2>2, GoesOn DEF Pc, Shape, AtStep, Fields, NoReq
<1>4. CASE write_read(t)
  BY <1>1, <1>4, GoesOn DEF write_read, write_readAs, Pc, Shape, AtStep,
     Fields, NoReq, SameDirs, NoFile
<1>5. CASE cache_wait(t)
  BY <1>5 DEF cache_wait, vars, cfsVars, PathInv, DirInv, PathReqs, LockInv,
              HandleInv
<1>6. CASE cache_record(t)
  BY <1>1, <1>6, GoesOn DEF cache_record, Pc, Shape, AtStep, Fields, NoReq,
     SameDirs, NoFile
<1>7. CASE cache_pwrite(t)
  <2>1. SameDirs
    BY <1>1, <1>7, KeepsNames DEF cache_pwrite, cache_pwriteAs, SameDirs, DirInv
  <2>2. QED
    BY <1>1, <1>7, <2>1, GoesOn DEF cache_pwrite, cache_pwriteAs, NextReadBlock,
       Return, Pc, Shape, AtStep, Fields, NoReq
<1>8. QED
  BY <1>2, <1>3, <1>4, <1>5, <1>6, <1>7 DEF cfs_write, cfs_cacheWrite

\* cfs_truncate and cfs_utime change what is behind the names.
LEMMA AttributeKeeps ==
  ASSUME PathInv, NEW t \in Threads, cfs_truncate(t) \/ cfs_utime(t)
  PROVE  PathInv'
<1>1. Shape(req[t]) /\ DirInv
  BY DEF PathInv, PathReqs
<1>2. CASE trunc_cache(t)
  <2>1. SameDirs
    BY <1>1, <1>2, KeepsNames DEF trunc_cache, SameDirs, DirInv
  <2>2. QED
    BY <1>1, <1>2, <2>1, GoesOn DEF trunc_cache, Pc, Shape, AtStep, Fields, NoReq
<1>3. CASE trunc_nas(t)
  <2>1. SameDirs
    BY <1>1, <1>3, KeepsNames DEF trunc_nas, SameDirs, DirInv
  <2>2. QED
    BY <1>1, <1>3, <2>1, GoesOn DEF trunc_nas, Return, Pc, Shape, AtStep
<1>4. CASE utime_cache(t)
  <2>1. SameDirs
    BY <1>1, <1>4, KeepsNames DEF utime_cache, SameDirs, DirInv
  <2>2. QED
    BY <1>1, <1>4, <2>1, GoesOn DEF utime_cache, Pc, Shape, AtStep, Fields, NoReq
<1>5. CASE utime_nas(t)
  <2>1. SameDirs
    BY <1>1, <1>5, KeepsNames DEF utime_nas, SameDirs, DirInv
  <2>2. QED
    BY <1>1, <1>5, <2>1, GoesOn DEF utime_nas, Return, Pc, Shape, AtStep
<1>6. QED
  BY <1>2, <1>3, <1>4, <1>5 DEF cfs_truncate, cfs_utime

\* cfs_open up to its last step: a new descriptor is that of the name, and a
\* name appears or goes only in the cache, where nobody else has the path.
LEMMA OpenGoesOn ==
  ASSUME PathInv, NEW t \in Threads, NEW r, Go(t, r), UNCHANGED handles,
         SameDirs, req[t].op = "open",
         r = NoReq \/ /\ DOMAIN r = Fields /\ AtStep(r) /\ r.op = "open"
                      /\ r.path = req[t].path /\ r.new = req[t].new
                      /\ Opening(nas.dir, r)
  PROVE  PathInv'
<1>1. Shape(req[t])
  BY DEF PathInv, PathReqs
<1>2. Shape(r) /\ Opening(nas'.dir, r)
  <2>1. CASE r = NoReq
    BY <2>1, IdleShape DEF Opening
  <2>2. CASE r # NoReq
    BY <1>1, <2>2 DEF Shape, SameDirs
  <2>3. QED  BY <2>1, <2>2
<1>3. QED  BY <1>2, PathContinues DEF Moves

\* A change of one name of the cache, whose path only thread t has to do with.
LEMMA CacheNameKeeps ==
  ASSUME PathInv, NoCollision, NEW t \in Threads, NEW r, Go(t, r),
         req[t].op \in {"open", "unlink"}, UNCHANGED <<nas, handles>>,
         DOMAIN cache' = DOMAIN cache, DOMAIN cache'.dir = DOMAIN cache.dir,
         \A f \in Names \ {name(t)} : cache'.dir[f] = cache.dir[f],
         r = NoReq \/ /\ DOMAIN r = Fields /\ AtStep(r) /\ r.op = req[t].op
                      /\ r.path = req[t].path /\ r.new = req[t].new
                      /\ Opening(nas.dir, r)
  PROVE  PathInv'
<1>1. Shape(req[t]) /\ req[t].path \in Paths
  BY DEF PathInv, PathReqs, Shape
<1>2. Shape(r) /\ Opening(nas'.dir, r)
  <2>1. CASE r = NoReq
    BY <2>1, IdleShape DEF Opening
  <2>2. CASE r # NoReq
    BY <1>1, <2>2 DEF Shape
  <2>3. QED  BY <2>1, <2>2
<1>3. DirInv' /\ \A u \in Threads : Opening(nas'.dir, req[u])
  BY DEF PathInv, DirInv, PathReqs
<1>4. ASSUME NEW h \in Handles, handles[h] # Closed
      PROVE  Current(nas'.dir, cache'.dir, handles[h])
  <2>1. Current(nas.dir, cache.dir, handles[h])
    BY <1>4 DEF PathInv, HandleInv
  <2>2. handles[h].path \in Paths /\ handles[h].path # req[t].path
    BY <2>1 DEF PathInv, LockInv, Current
  <2>3. pathToFileName(handles[h].path) \in Names \ {name(t)}
    BY <1>1, <2>2, NameType DEF NoCollision, name
  <2>4. QED  BY <2>1, <2>3 DEF Current
<1>5. QED  BY <1>2, <1>3, <1>4, MovesKeep DEF Moves

\* A call that makes a name: no name that is there changes.
LEMMA MakesName ==
  ASSUME NEW fs, DOMAIN fs = {"dir", "data", "mtime"},
         NEW f \in DOMAIN fs.dir, NEW held, NEW now
  PROVE  LET new == Create(fs, f, held, now)
         IN /\ DOMAIN new = DOMAIN fs /\ DOMAIN new.dir = DOMAIN fs.dir
            /\ \A g \in DOMAIN fs.dir : g # f => new.dir[g] = fs.dir[g]
            /\ \A g \in DOMAIN fs.dir : fs.dir[g] # NoInode
                                         => new.dir[g] = fs.dir[g]
<1> DEFINE free == Inodes \ (held \cup {fs.dir[n] : n \in DOMAIN fs.dir})
           new == Create(fs, f, held, now)
<1>1. CASE fs.dir[f] # NoInode \/ free = {}
  <2>1. new = fs
    BY <1>1 DEF Create
  <2>2. QED  BY <2>1
<1>2. CASE ~ (fs.dir[f] # NoInode \/ free = {})
  <2>1. PICK i : new = [fs EXCEPT !.dir[f] = i, !.data[i] = <<>>, !.mtime[i] = now]
    BY <1>2 DEF Create
  <2> HIDE DEF new
  <2>2. /\ DOMAIN new = DOMAIN fs /\ DOMAIN new.dir = DOMAIN fs.dir
        /\ \A g \in DOMAIN fs.dir : g # f => new.dir[g] = fs.dir[g]
    BY <2>1
  <2>3. QED  BY <1>2, <2>2 DEF new
<1>3. QED  BY <1>1, <1>2

\* A call that removes a name.
LEMMA RemovesName ==
  ASSUME NEW fs, DOMAIN fs = {"dir", "data", "mtime"}, NEW f \in DOMAIN fs.dir
  PROVE  LET new == Unlink(fs, f)
         IN /\ DOMAIN new = DOMAIN fs /\ DOMAIN new.dir = DOMAIN fs.dir
            /\ \A g \in DOMAIN fs.dir : g # f => new.dir[g] = fs.dir[g]
  BY DEF Unlink

\* What open_mknod, open_unlink and unlink_cache do to the cache directory.
LEMMA CacheName ==
  ASSUME DirInv, NEW f \in Names,
         \/ cache' = Unlink(cache, f)
         \/ cache' = Create(cache, f, CacheHeld, clock)
  PROVE  /\ DOMAIN cache' = DOMAIN cache /\ DOMAIN cache'.dir = DOMAIN cache.dir
         /\ \A g \in Names \ {f} : cache'.dir[g] = cache.dir[g]
<1>1. DOMAIN cache = {"dir", "data", "mtime"} /\ DOMAIN cache.dir = Names
  BY DEF DirInv
<1>2. CASE cache' = Unlink(cache, f)
  <2> DEFINE new == Unlink(cache, f)
  <2>1. /\ DOMAIN new = DOMAIN cache /\ DOMAIN new.dir = DOMAIN cache.dir
        /\ \A g \in DOMAIN cache.dir : g # f => new.dir[g] = cache.dir[g]
    BY <1>1, RemovesName
  <2> HIDE DEF new
  <2>2. cache' = new
    BY <1>2 DEF new
  <2>3. QED  BY <1>1, <2>1, <2>2
<1>3. CASE cache' = Create(cache, f, CacheHeld, clock)
  <2> DEFINE new == Create(cache, f, CacheHeld, clock)
  <2>1. /\ DOMAIN new = DOMAIN cache /\ DOMAIN new.dir = DOMAIN cache.dir
        /\ \A g \in DOMAIN cache.dir : g # f => new.dir[g] = cache.dir[g]
    BY <1>1, MakesName
  <2> HIDE DEF new
  <2>2. cache' = new
    BY <1>3 DEF new
  <2>3. QED  BY <1>1, <2>1, <2>2
<1>4. QED  BY <1>2, <1>3

\* cfs_open before its last step.
LEMMA PathOpen ==
  ASSUME PathInv, NoCollision, NEW t \in Threads,
         cfs_open(t), ~open_cache(t)
  PROVE  PathInv'
<1>1. /\ Shape(req[t]) /\ Opening(nas.dir, req[t]) /\ DirInv
      /\ DOMAIN req[t] = Fields
  BY DEF PathInv, PathReqs, Shape
<1>2. req[t].op = "open"
  BY <1>1 DEF cfs_open, open_nas, open_present, open_presentAs, open_stat,
     open_statAs, open_date, open_dateAs, open_unlink, open_create, open_mknod,
     open_cache, Pc, Shape, AtStep
<1>3. name(t) \in Names
  BY <1>1, <1>2, NameType DEF Shape, name
<1>4. CASE open_nas(t)
  <2>1. PICK i \in {nas.dir[req[t].path], NoInode} :
          Go(t, [req[t] EXCEPT !.ino = i, !.pc = "open_present"])
    BY <1>4 DEF open_nas
  <2>2. SameDirs /\ UNCHANGED handles
    BY <1>4 DEF open_nas, NoFile, SameDirs
  <2>3. QED
    BY <1>1, <1>2, <2>1, <2>2, OpenGoesOn DEF AtStep, Opening, Fields, NoReq
<1>5. CASE open_present(t)
  <2>1. SameDirs /\ UNCHANGED handles
    BY <1>5 DEF open_present, open_presentAs, NoFile, SameDirs
  <2>2. \/ Go(t, [req[t] EXCEPT !.pc = "open_unlink"])
        \/ Go(t, NoReq)
        \/ /\ req[t].ino # NoInode
           /\ Go(t, [req[t] EXCEPT !.pc = "open_stat",
                                   !.present = name(t) \in files])
    BY <1>5 DEF open_present, open_presentAs, Return
  <2>3. QED
    BY <1>1, <1>2, <2>1, <2>2, OpenGoesOn DEF AtStep, Opening, Fields, NoReq
<1>6. CASE open_stat(t)
  <2>1. PICK m : Go(t, [req[t] EXCEPT !.num = m,
                !.pc = IF req[t].present THEN "open_date" ELSE "open_create"])
    BY <1>6 DEF open_stat, open_statAs
  <2>2. SameDirs /\ UNCHANGED handles /\ Pc(t, "open_stat")
    BY <1>6 DEF open_stat, open_statAs, NoFile, SameDirs
  <2>3. QED
    BY <1>1, <1>2, <2>1, <2>2, OpenGoesOn DEF AtStep, Opening, Fields, NoReq, Pc
<1>7. CASE open_date(t)
  <2>1. \/ Go(t, [req[t] EXCEPT !.pc = "open_unlink"])
        \/ Go(t, [req[t] EXCEPT !.pc = "open_cache"])
    BY <1>7 DEF open_date, open_dateAs
  <2>2. SameDirs /\ UNCHANGED handles /\ Pc(t, "open_date")
    BY <1>7 DEF open_date, open_dateAs, NoFile, SameDirs
  <2>3. QED
    BY <1>1, <1>2, <2>1, <2>2, OpenGoesOn DEF AtStep, Opening, Fields, NoReq, Pc
<1>8. CASE open_unlink(t)
  <2>1. /\ DOMAIN cache' = DOMAIN cache /\ DOMAIN cache'.dir = DOMAIN cache.dir
        /\ \A f \in Names \ {name(t)} : cache'.dir[f] = cache.dir[f]
    BY <1>1, <1>3, <1>8, CacheName DEF open_unlink
  <2>2. \/ Go(t, NoReq)
        \/ /\ req[t].ino # NoInode
           /\ Go(t, [req[t] EXCEPT !.pc = "open_create"])
    BY <1>8 DEF open_unlink, AfterUnlink, Return
  <2>3. UNCHANGED <<nas, handles>>
    BY <1>8 DEF open_unlink
  <2>4. QED
    BY <1>1, <1>2, <2>1, <2>2, <2>3, CacheNameKeeps
    DEF AtStep, Opening, Fields, NoReq
<1>9. CASE open_create(t)
  BY <1>1, <1>2, <1>9, OpenGoesOn DEF open_create, NoFile, SameDirs, Pc, AtStep,
     Opening, Fields, NoReq
<1>10. CASE open_mknod(t)
  <2>1. /\ DOMAIN cache' = DOMAIN cache /\ DOMAIN cache'.dir = DOMAIN cache.dir
        /\ \A f \in Names \ {name(t)} : cache'.dir[f] = cache.dir[f]
    BY <1>1, <1>3, <1>10, CacheName DEF open_mknod
  <2>2. /\ Go(t, [req[t] EXCEPT !.pc = "open_cache"]) /\ Pc(t, "open_mknod")
        /\ UNCHANGED <<nas, handles>>
    BY <1>10 DEF open_mknod
  <2>3. QED
    BY <1>1, <1>2, <2>1, <2>2, CacheNameKeeps
    DEF AtStep, Opening, Fields, NoReq, Pc
<1>11. QED
  BY <1>4, <1>5, <1>6, <1>7, <1>8, <1>9, <1>10 DEF cfs_open

\* The last step of cfs_open: the new handle has what the path names.
LEMMA PathOpenEnds ==
  ASSUME PathInv, NEW t \in Threads, open_cache(t)
  PROVE  PathInv'
<1> DEFINE o == [path |-> req[t].path, nas |-> req[t].ino,
                 cache |-> cache.dir[name(t)]]
<1>1. /\ Shape(req[t]) /\ Opening(nas.dir, req[t]) /\ req[t].pc = "open_cache"
  BY DEF PathInv, PathReqs, open_cache, Pc
<1>2. req[t].op = "open" /\ req[t].path \in Paths
  BY <1>1 DEF Shape, AtStep
<1>3. CASE cache.dir[name(t)] = NoInode
  <2>1. Go(t, NoReq) /\ SameDirs /\ UNCHANGED handles
    BY <1>3 DEF open_cache, Return, SameDirs
  <2>2. QED  BY <1>2, <2>1, OpenGoesOn
<1>4. CASE cache.dir[name(t)] # NoInode
  <2>1. /\ handles' = [handles EXCEPT ![req[t].h] = o]
        /\ Go(t, NoReq) /\ UNCHANGED <<nas, cache>>
    BY <1>4 DEF open_cache, Return
  <2>2. Current(nas.dir, cache.dir, o)
    BY <1>1, <1>2, <1>4 DEF Opening, Current, name
  <2>3. /\ DOMAIN req' = Threads /\ req'[t] = NoReq
        /\ \A u \in Threads \ {t} : req'[u] = req[u]
    BY <2>1 DEF Go, PathInv, PathReqs
  <2>4. o.path = req[t].path
    OBVIOUS
  <2> HIDE DEF o
  <2>5. /\ DOMAIN handles' = Handles
        /\ \A h \in Handles : handles'[h] = handles[h] \/ handles'[h] = o
    BY <2>1 DEF PathInv, HandleInv
  <2>6. DirInv' /\ PathReqs'
    BY <2>1, <2>3, IdleShape DEF PathInv, DirInv, PathReqs
  <2>7. HandleInv'
    BY <2>1, <2>2, <2>5 DEF PathInv, HandleInv
  <2>8. LockInv'
    <3>1. \A u \in Threads : req'[u].op \in {"open", "unlink"} =>
            u # t /\ req'[u] = req[u] /\ req[u].path \in Paths
      BY <2>3, IdleShape DEF PathInv, PathReqs, Shape
    <3>2. \A u \in Threads : u # t /\ req[u].op \in {"open", "unlink"} =>
            req[u].path # req[t].path
      BY <1>2 DEF PathInv, LockInv
    <3>3. \A u \in Threads, h \in Handles :
            req'[u].op \in {"open", "unlink"} => handles'[h].path # req'[u].path
      BY <2>4, <2>5, <3>1, <3>2 DEF PathInv, LockInv
    <3>4. \A u \in Threads : req'[u] = req[u] \/ req'[u].path = NoPath
      BY <2>3, IdleShape
    <3>5. QED
      BY <3>1, <3>3, <3>4, CacheFSAssumption DEF PathInv, LockInv
  <2>9. QED  BY <2>6, <2>7, <2>8 DEF PathInv
<1>5. QED  BY <1>3, <1>4

\* cfs_release closes its handle.
LEMMA ReleaseKeeps ==
  ASSUME PathInv, NEW t \in Threads, cfs_release(t)
  PROVE  PathInv'
<1>1. Shape(req[t]) /\ DirInv
  BY DEF PathInv, PathReqs
<1>2. CASE release_dig(t)
  <2>1. SameDirs
    BY <1>1, <1>2 DEF release_dig, SameDirs, DirInv
  <2>2. QED
    BY <1>1, <1>2, <2>1, GoesOn DEF release_dig, Pc, Shape, AtStep, Fields, NoReq
<1>3. CASE release_close(t)
  <2>1. /\ DOMAIN req' = Threads /\ req'[t] = NoReq
        /\ \A u \in Threads \ {t} : req'[u] = req[u]
        /\ UNCHANGED <<nas, cache>>
    BY <1>3 DEF release_close, Return, Go, PathInv, PathReqs
  <2>2. /\ DOMAIN handles' = Handles
        /\ \A h \in Handles : handles'[h] = handles[h] \/ handles'[h] = Closed
    BY <1>3 DEF release_close, PathInv, HandleInv
  <2>3. DirInv' /\ PathReqs' /\ HandleInv'
    BY <2>1, <2>2, IdleShape DEF PathInv, DirInv, PathReqs, HandleInv
  <2>4. LockInv'
    <3>1. \A u \in Threads : req'[u].op \in {"open", "unlink"} =>
            req'[u] = req[u] /\ req[u].path \in Paths
      BY <2>1, IdleShape DEF PathInv, PathReqs, Shape
    <3>2. \A u \in Threads : req'[u] = req[u] \/ req'[u].path = NoPath
      BY <2>1, IdleShape
    <3>3. QED
      BY <2>2, <3>1, <3>2, CacheFSAssumption DEF PathInv, LockInv, Closed
  <2>5. QED  BY <2>3, <2>4 DEF PathInv
<1>4. QED  BY <1>2, <1>3 DEF cfs_release

\* cfs_mknod makes a name that nobody has open.
LEMMA MknodKeeps ==
  ASSUME PathInv, NEW t \in Threads, cfs_mknod(t)
  PROVE  PathInv'
<1>1. Shape(req[t]) /\ DirInv /\ req[t].pc = "mknod"
  BY DEF PathInv, PathReqs, cfs_mknod, Pc
<1>2. req[t].path \in Paths
  BY <1>1 DEF Shape, AtStep
<1>3. /\ DOMAIN nas' = DOMAIN nas /\ DOMAIN nas'.dir = Paths
      /\ \A p \in Paths : nas.dir[p] # NoInode => nas'.dir[p] = nas.dir[p]
  <2>1. nas' = Create(nas, req[t].path, NasHeld, clock)
    BY DEF cfs_mknod
  <2>2. DOMAIN nas = {"dir", "data", "mtime"} /\ DOMAIN nas.dir = Paths
    BY <1>1 DEF DirInv
  <2> DEFINE new == Create(nas, req[t].path, NasHeld, clock)
  <2>3. /\ DOMAIN new = DOMAIN nas /\ DOMAIN new.dir = Paths
        /\ \A p \in Paths : nas.dir[p] # NoInode => new.dir[p] = nas.dir[p]
    <3>1. req[t].path \in DOMAIN nas.dir
      BY <1>2, <2>2
    <3> HIDE DEF new
    <3>2. /\ DOMAIN new = DOMAIN nas /\ DOMAIN new.dir = DOMAIN nas.dir
          /\ \A p \in DOMAIN nas.dir : nas.dir[p] # NoInode
                                        => new.dir[p] = nas.dir[p]
      BY <2>2, <3>1, MakesName DEF new
    <3>3. QED  BY <2>2, <3>2
  <2> HIDE DEF new
  <2>4. nas' = new
    BY <2>1 DEF new
  <2>5. QED  BY <2>3, <2>4
<1>4. \A u \in Threads : Opening(nas'.dir, req[u])
  BY <1>3 DEF PathInv, PathReqs, Shape, Opening
<1>5. \A h \in Handles : \/ handles[h] = Closed
                         \/ Current(nas'.dir, cache'.dir, handles[h])
  BY <1>3 DEF PathInv, HandleInv, Current, cfs_mknod
<1>6. Moves(t, NoReq)
  BY IdleShape DEF Moves, Opening, cfs_mknod, Return
<1>7. DirInv'
  BY <1>1, <1>3 DEF DirInv, cfs_mknod
<1>8. QED  BY <1>4, <1>5, <1>6, <1>7, MovesKeep

\* cfs_unlink removes the names of a path that nobody uses.
LEMMA UnlinkKeeps ==
  ASSUME PathInv, NoCollision, NEW t \in Threads, cfs_unlink(t)
  PROVE  PathInv'
<1>1. Shape(req[t]) /\ DirInv
  BY DEF PathInv, PathReqs
<1>2. req[t].op = "unlink" /\ req[t].path \in Paths
  BY <1>1 DEF cfs_unlink, unlink_meta, unlink_cache, unlink_nas, Pc, Shape, AtStep
<1>3. CASE unlink_meta(t)
  <2>1. /\ Go(t, [req[t] EXCEPT !.pc = "unlink_cache"])
        /\ SameDirs /\ UNCHANGED handles
    BY <1>3 DEF unlink_meta, NoFile, SameDirs
  <2>2. QED
    BY <1>1, <1>2, <2>1, GoesOn DEF Shape, AtStep, Fields, NoReq
<1>4. CASE unlink_cache(t)
  <2>1. name(t) \in Names
    BY <1>2, NameType DEF name
  <2>2. /\ DOMAIN cache' = DOMAIN cache /\ DOMAIN cache'.dir = DOMAIN cache.dir
        /\ \A f \in Names \ {name(t)} : cache'.dir[f] = cache.dir[f]
    BY <1>1, <1>4, <2>1, CacheName DEF unlink_cache
  <2>3. QED
    BY <1>1, <1>2, <1>4, <2>2, CacheNameKeeps
    DEF unlink_cache, Shape, AtStep, Opening, Fields, NoReq
<1>5. CASE unlink_nas(t)
  <2>1. /\ DOMAIN nas' = DOMAIN nas /\ DOMAIN nas'.dir = Paths
        /\ \A p \in Paths \ {req[t].path} : nas'.dir[p] = nas.dir[p]
    <3> DEFINE new == Unlink(nas, req[t].path)
    <3>1. DOMAIN nas = {"dir", "data", "mtime"} /\ DOMAIN nas.dir = Paths
      BY <1>1 DEF DirInv
    <3>2. /\ DOMAIN new = DOMAIN nas /\ DOMAIN new.dir = DOMAIN nas.dir
          /\ \A p \in DOMAIN nas.dir : p # req[t].path => new.dir[p] = nas.dir[p]
      BY <1>2, <3>1, RemovesName
    <3> HIDE DEF new
    <3>3. nas' = new
      BY <1>5 DEF unlink_nas, new
    <3>4. QED  BY <3>1, <3>2, <3>3
  <2>2. \A u \in Threads \ {t} : Opening(nas'.dir, req[u])
    BY <1>2, <2>1 DEF PathInv, PathReqs, LockInv, Shape, Opening
  <2>3. \A h \in Handles : \/ handles[h] = Closed
                           \/ Current(nas'.dir, cache'.dir, handles[h])
    BY <1>2, <1>5, <2>1 DEF PathInv, HandleInv, LockInv, Current, unlink_nas
  <2>4. Moves(t, NoReq)
    BY <1>5, IdleShape DEF Moves, Opening, unlink_nas, Return
  <2>5. DirInv'
    BY <1>1, <1>5, <2>1 DEF DirInv, unlink_nas
  <2>6. QED  BY <2>2, <2>3, <2>4, <2>5, MovesKeep
<1>6. QED  BY <1>3, <1>4, <1>5 DEF cfs_unlink

\* SpecAlone starts no rename and no link, so no thread is in one.
LEMMA DaemonKeepsPaths ==
  ASSUME PathInv, NoCollision, NEW t \in Threads, Daemon(t)
  PROVE  PathInv'
<1>1. ~cfs_rename(t) /\ ~cfs_link(t)
  <2>1. AtStep(req[t])
    BY DEF PathInv, PathReqs, Shape
  <2>2. QED
    BY <2>1 DEF AtStep, Pc, cfs_rename, rename_cache, rename_nas, cfs_link,
                link_cache, link_nas
<1>2. UNCHANGED cfsVars => PathInv'
  BY DEF cfsVars, PathInv, DirInv, PathReqs, LockInv, HandleInv
<1>3. cfs_open(t) => PathInv'
  BY PathOpen, PathOpenEnds
<1>4. QED
  BY <1>1, <1>2, <1>3, PathRead, PathWrite, AttributeKeeps, ReleaseKeeps,
     MknodKeeps, UnlinkKeeps DEF Daemon

---------------------------------------------------------------------------
\* A handle that is open has the path of a file.
LEMMA OpenedPath ==
  ASSUME PathInv, NEW h \in Opened
  PROVE  handles[h].path \in Paths
  BY DEF Opened, PathInv, HandleInv, Current

\* The requests of SpecAlone.
LEMMA StartsKeep ==
  ASSUME PathInv, NEW t \in Threads,
         \/ MknodAny(t) \/ OpenAlone(t) \/ ReadAny(t) \/ WriteDense(t)
         \/ ReleaseAny(t) \/ ShrinkOpen(t) \/ UnlinkAny(t) \/ ShrinkPath(t)
         \/ UtimeAny(t) \/ WriteSparse(t) \/ Grow(t)
  PROVE  PathInv'
<1>1. CASE MknodAny(t)
  <2>1. PICK p \in Paths :
          Issue(t, [NoReq EXCEPT !.op = "mknod", !.pc = "mknod", !.path = p])
    BY <1>1 DEF MknodAny, StartMknod
  <2>2. QED  BY <2>1, Begins DEF Shape, AtStep, Fields, NoReq
<1>2. CASE OpenAlone(t)
  <2>1. PICK p \in Paths, h \in Handles :
          /\ OpenOf(p) = {} /\ ActiveIn(p, {"open"}) = {}
          /\ Issue(t, [NoReq EXCEPT !.op = "open", !.pc = "open_nas", !.path = p,
                                    !.h = h])
    BY <1>2 DEF OpenAlone, StartOpen
  <2>2. QED  BY <2>1, Begins DEF Shape, AtStep, Fields, NoReq
<1>3. CASE ReadAny(t)
  <2>1. PICK h \in Opened : \E off, len : StartRead(t, h, off, len)
    BY <1>3 DEF ReadAny
  <2>2. PICK off, len : StartRead(t, h, off, len)
    BY <2>1
  <2> DEFINE w == [NoReq EXCEPT !.op = "read", !.pc = "read_check",
                    !.path = handles[h].path, !.h = h, !.off = off,
                    !.len = len]
             r == [w EXCEPT !.todo = RequestBlocks(w)]
  <2>3. Issue(t, r)
    BY <2>2 DEF StartRead
  <2>4. r.op = "read" /\ Shape(r)
    BY OpenedPath DEF Shape, AtStep, Fields, NoReq
  <2> HIDE DEF r
  <2>5. QED  BY <2>3, <2>4, Begins
<1>4. CASE WriteDense(t) \/ WriteSparse(t)
  <2>1. PICK h \in Opened : \E off, len, v : StartWrite(t, h, off, len, v)
    BY <1>4 DEF WriteDense, WriteSparse
  <2>2. PICK off, len, v : StartWrite(t, h, off, len, v)
    BY <2>1
  <2> DEFINE w == [NoReq EXCEPT !.op = "write", !.pc = "write_nas",
                    !.path = handles[h].path, !.h = h, !.off = off,
                    !.len = len, !.val = v]
             r == [w EXCEPT !.todo = RequestBlocks(w)]
  <2>3. Issue(t, r)
    BY <2>2 DEF StartWrite
  <2>4. r.op = "write" /\ Shape(r)
    BY OpenedPath DEF Shape, AtStep, Fields, NoReq
  <2> HIDE DEF r
  <2>5. QED  BY <2>3, <2>4, Begins
<1>5. CASE ReleaseAny(t)
  <2>1. PICK h \in Opened :
          Issue(t, [NoReq EXCEPT !.op = "release", !.pc = "release_dig",
                      !.path = handles[h].path, !.h = h])
    BY <1>5 DEF ReleaseAny, StartRelease
  <2>2. QED  BY <2>1, OpenedPath, Begins DEF Shape, AtStep, Fields, NoReq
<1>6. ASSUME ShrinkOpen(t) \/ Grow(t) \/ ShrinkPath(t)
      PROVE  PathInv'
  <2>1. PICK p, h, len :
          /\ p \in Paths
          /\ Issue(t, [NoReq EXCEPT !.op = "truncate", !.pc = "trunc_cache",
                                    !.path = p, !.h = h, !.len = len])
    <3>1. CASE ShrinkOpen(t) \/ Grow(t)
      <4>1. PICK h, len : h \in Opened /\ StartTruncate(t, handles[h].path, h, len)
        BY <3>1 DEF ShrinkOpen, Grow
      <4>2. QED  BY <4>1, OpenedPath DEF StartTruncate
    <3>2. CASE ShrinkPath(t)
      <4>1. PICK p, len : p \in Paths /\ StartTruncate(t, p, NoHandle, len)
        BY <3>2 DEF ShrinkPath
      <4>2. QED  BY <4>1 DEF StartTruncate
    <3>3. QED  BY <1>6, <3>1, <3>2
  <2>2. QED  BY <2>1, Begins DEF Shape, AtStep, Fields, NoReq
<1>7. CASE UnlinkAny(t)
  <2>1. PICK p \in Paths :
          /\ OpenOf(p) = {} /\ Active(p) = {}
          /\ Issue(t, [NoReq EXCEPT !.op = "unlink", !.pc = "unlink_meta",
                                    !.path = p])
    BY <1>7 DEF UnlinkAny, StartUnlink
  <2>2. QED  BY <2>1, Begins DEF Shape, AtStep, Fields, NoReq
<1>8. CASE UtimeAny(t)
  <2>1. PICK p, time :
          /\ p \in Paths
          /\ Issue(t, [NoReq EXCEPT !.op = "utime", !.pc = "utime_cache",
                                    !.path = p, !.num = time])
    BY <1>8 DEF UtimeAny, StartUtime
  <2>2. QED  BY <2>1, Begins DEF Shape, AtStep, Fields, NoReq
<1>9. QED
  BY <1>1, <1>2, <1>3, <1>4, <1>5, <1>6, <1>7, <1>8

\* PathInv is inductive when the files are opened by one program at a time.
LEMMA PathInductive ==
  /\ Init => PathInv
  /\ NoCollision /\ PathInv /\ [NextAlone]_vars => PathInv'
<1>1. ASSUME Init  PROVE PathInv
  BY <1>1, IdleShape, CacheFSAssumption
  DEF Init, EmptyFS, PathInv, DirInv, PathReqs, LockInv, HandleInv
<1>2. ASSUME NoCollision, PathInv, [NextAlone]_vars
      PROVE  PathInv'
  <2>1. CASE UNCHANGED vars \/ Tick
    BY <1>2, <2>1 DEF vars, cfsVars, Tick, PathInv, DirInv, PathReqs, LockInv,
                      HandleInv
  <2>2. CASE RemoteLater
    <3>1. PICK p, off, v, nasClock : RemoteWrite(p, off, v, nasClock)
      BY <2>2 DEF RemoteLater, RemoteAny
    <3>2. /\ DOMAIN nas' = DOMAIN nas /\ nas'.dir = nas.dir
          /\ UNCHANGED <<cache, handles, req>>
      BY <1>2, <3>1, KeepsNames DEF RemoteWrite, PathInv, DirInv
    <3>3. QED
      BY <1>2, <3>2 DEF PathInv, DirInv, PathReqs, LockInv, HandleInv
  <2>3. CASE Remount
    <3>1. /\ \A h \in Handles : handles'[h] = Closed
          /\ DOMAIN handles' = Handles /\ DOMAIN req' = Threads
          /\ \A t \in Threads : req'[t] = NoReq
          /\ UNCHANGED <<nas, cache>>
      BY <2>3 DEF Remount, Crash
    <3>2. QED
      BY <1>2, <3>1, IdleShape DEF PathInv, DirInv, PathReqs, LockInv, HandleInv
  <2>4. CASE \E t \in Threads : \/ Program(t) \/ ShrinkOpen(t) \/ UnlinkAny(t)
                                \/ ShrinkPath(t) \/ UtimeAny(t)
    BY <1>2, <2>4, DaemonKeepsPaths, StartsKeep DEF Program
  <2>5. QED  BY <1>2, <2>1, <2>2, <2>3, <2>4 DEF NextAlone
<1>3. QED  BY <1>1, <1>2

\* Programs that open a file one at a time never read or write through a
\* descriptor of a file that is gone or replaced, on the NAS or in the cache,
\* whatever other threads create, remove and open meanwhile: the cache file
\* that cfs_open opens last (cachefs.c:465) is the one its path still names,
\* whether the open found it, or removed it (cachefs.c:434, cachefs.c:454) and
\* made another.
THEOREM HandlesStayCurrent ==
  ASSUME NoCollision  PROVE  SpecAlone => []HandlesCurrent
<1>1. PathInv => HandlesCurrent
  BY DEF PathInv, HandleInv, Current, HandlesCurrent, Opened
<1>2. Init => PathInv
  BY PathInductive
<1>3. PathInv /\ [NextAlone]_vars => PathInv'
  BY PathInductive
<1>4. QED
  BY <1>1, <1>2, <1>3, PTL DEF SpecAlone
===========================================================================
