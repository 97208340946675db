----------------------------- MODULE CacheFSMC -----------------------------
(***************************************************************************)
(* Instances of CacheFS for TLC, and the situations they are checked in:   *)
(* each Next below is the daemon with a part of the kernel's and the       *)
(* environment's actions.                                                  *)
(***************************************************************************)
EXTENDS CacheFS, TLC

CONSTANT Letters  \* names of files in the root directory

PathsOfRoot == {<<"/", c>> : c \in Letters}
NamesOfRoot == {pathToFileName(p) : p \in PathsOfRoot}

Symmetry == Permutations(Threads) \cup Permutations(Handles)
              \cup Permutations(Values) \cup Permutations(Letters)

---------------------------------------------------------------------------
MknodAny(t) == \E p \in Paths : StartMknod(t, p)

\* One program at a time has the file open.
OpenAlone(t) == \E p \in Paths, h \in Handles :
  OpenOf(p) = {} /\ ActiveIn(p, {"open"}) = {} /\ StartOpen(t, p, h)

OpenAny(t) == \E p \in Paths, h \in Handles : StartOpen(t, p, h)

ReadAny(t) == \E h \in Opened, b \in Blocks, n \in 1 .. Cardinality(Blocks) :
  b + n <= Cardinality(Blocks) /\ StartRead(t, h, BS * b, BS * n)

\* Writes that leave no gap behind the end of the file.
WriteDense(t) ==
  \E h \in Opened, off \in 0 .. MaxSize - 1, len \in 1 .. PageSize, v \in Values :
    /\ off <= Len(nas.data[handles[h].nas])
    /\ StartWrite(t, h, off, len, v)

\* By handle, to a smaller size.
ShrinkOpen(t) ==
  \E h \in Opened : \E len \in 0 .. Len(nas.data[handles[h].nas]) - 1 :
    StartTruncate(t, handles[h].path, h, len)

\* By path.
ShrinkPath(t) ==
  \E p \in {q \in Paths : nas.dir[q] # NoInode} :
    \E len \in 0 .. Len(nas.data[nas.dir[p]]) - 1 :
      StartTruncate(t, p, NoHandle, len)

UtimeAny(t) == \E p \in Paths, time \in 0 .. MaxTime : StartUtime(t, p, time)

ReleaseAny(t) == \E h \in Opened : StartRelease(t, h)

UnlinkAny(t) == \E p \in Paths : StartUnlink(t, p)

\* Writes anywhere, and truncations to a larger size.
WriteSparse(t) ==
  \E h \in Opened, off \in 0 .. MaxSize - 1, len \in 1 .. PageSize, v \in Values :
    StartWrite(t, h, off, len, v)

Grow(t) == \E h \in Opened, len \in 1 .. MaxSize :
  /\ len > Len(nas.data[handles[h].nas])
  /\ StartTruncate(t, handles[h].path, h, len)

\* Another client of the NAS writes a file that nobody here has open.
Unused(p) == OpenOf(p) = {} /\ Active(p) = {}

RemoteAny(p) == \E off \in 0 .. MaxSize - 1, v \in Values :
  /\ Unused(p) /\ nas.dir[p] # NoInode
  /\ off <= Len(nas.data[nas.dir[p]])
  /\ RemoteWrite(p, off, v, clock)

---------------------------------------------------------------------------
\* What one program does with its file, whatever else happens.
Program(t) == \/ Daemon(t) \/ MknodAny(t) \/ OpenAlone(t) \/ ReadAny(t)
              \/ WriteDense(t) \/ ReleaseAny(t)

\* Another client of the NAS writes a closed file in a later second than the
\* cache file was last written.
Later(p) == LET i == cache.dir[pathToFileName(p)]
            IN i # NoInode => cache.mtime[i] < clock

RemoteLater == \E p \in Paths : Later(p) /\ RemoteAny(p)

\* What the cache has of p is as new as the file.
UpToDate(p) == LET i == cache.dir[pathToFileName(p)]
                   n == nas.dir[p]
               IN i # NoInode /\ n # NoInode => cache.mtime[i] >= nas.mtime[n]

\* It also shortens and removes the file and sets its times, with unmounts in
\* between.
NextAlone ==
  \/ \E t \in Threads : Program(t) \/ ShrinkOpen(t) \/ UnlinkAny(t)
  \/ \E t \in Threads : /\ \A p \in Paths : UpToDate(p)
                        /\ ShrinkPath(t) \/ UtimeAny(t)
  \/ Tick \/ Remount \/ RemoteLater

SpecAlone == Init /\ [][NextAlone]_vars

\* The same, as far as no call of meta.c is entered while another thread is in
\* one: the callbacks themselves still overlap.
NextOneCall == NextAlone /\ OneCall'

SpecOneCall == Init /\ [][NextOneCall]_vars

\* Several threads of the program read and append at the same time.
NextShared == (\E t \in Threads : Program(t) \/ ShrinkOpen(t)) \/ Tick

SpecShared == Init /\ [][NextShared]_vars

\* The program renames a file to a name the metadata does not know, removes
\* files that are open or not, and gives a file that is in the cache a second
\* name.  It writes a file with several names only while the cache has one copy
\* of it.
Known(p)  == pathToFileName(p) \in files
Cached(p) == cache.dir[pathToFileName(p)] # NoInode

RenameNew(t) == \E p, q \in Paths : ~Known(q) /\ StartRename(t, p, q)

LinkCached(t) == \E p, q \in Paths :
  Cached(p) /\ ~Cached(q) /\ ~Known(q) /\ StartLink(t, p, q)

OneCopy(h) == \A p \in Paths :
  nas.dir[p] = handles[h].nas =>
    cache.dir[pathToFileName(p)] \in {handles[h].cache, NoInode}

NextNames ==
  \/ \E t \in Threads :
       \/ Daemon(t)
       \/ /\ Pc(t, "idle")
          /\ \/ MknodAny(t) \/ OpenAlone(t) \/ ReadAny(t) \/ ReleaseAny(t)
             \/ (\A h \in Opened : OneCopy(h)) /\ WriteDense(t)
             \/ UnlinkAny(t) \/ RenameNew(t) \/ LinkCached(t)
  \/ Tick \/ Remount

SpecNames == Init /\ [][NextNames]_vars

\* It renames a file to any name.
RenameAny(t) == \E p, q \in Paths : StartRename(t, p, q)

NextRename == \/ \E t \in Threads : Program(t) \/ RenameAny(t)
              \/ Tick

SpecRename == Init /\ [][NextRename]_vars

\* The NAS has a file of some size before the cache hears of it.  Then the
\* program opens it and keeps it open.  System calls fail, and SQL statements
\* but for the DELETE of delete_file, which leaves the counter lowered for a
\* file that is still recorded.
HarmlessFails(t) ==
  /\ CheckFails(t) \/ RowFails(t) \/ SizeFails(t) \/ SelectFails(t)
  /\ UNCHANGED cfsVars

NextOpened ==
  \/ \E t \in Threads : \/ Daemon(t) \/ MknodAny(t) \/ OpenAlone(t)
                        \/ ReadAny(t) \/ WriteDense(t)
                        \/ CallFails(t) \/ HarmlessFails(t)
  \/ Tick
  \/ (files = {} /\ \E p \in Paths : RemoteAny(p))

\* Threads that are inside a callback are scheduled.
Scheduled == \A t \in Threads : WF_vars(Daemon(t))

SpecOpenedFair == Init /\ [][NextOpened]_vars /\ Scheduled

\* A second program opens the file while the first has it open.
NextOpens ==
  \/ \E t \in Threads : Program(t) \/ OpenAny(t) \/ ShrinkOpen(t)
  \/ Tick

SpecOpens == Init /\ [][NextOpens]_vars

---------------------------------------------------------------------------
\* The request of a thread as PassThrough sees it; open and release are none.
Asked(t) ==
  LET r == req[t]
  IN IF r.op \in {"none", "open", "release"} THEN NoReq
     ELSE [op |-> r.op, path |-> r.path, new |-> r.new, off |-> r.off,
           len |-> r.len, val |-> r.val,
           num |-> IF r.op = "utime" THEN r.num ELSE 0,
           file |-> IF r.h = NoHandle THEN NoInode ELSE fh(t).nas]

Direct == INSTANCE PassThrough WITH
  None   <- NoReq,
  asked  <- [t \in Threads |-> Asked(t)],
  done   <- {t \in Threads : \/ Pc(t, "read_done")
                             \/ req[t].op = "write" /\ ~Pc(t, "write_nas")},
  answer <- [t \in Threads |->
               IF Pc(t, "read_done")
               THEN SubSeq(req[t].buf, 1, Smaller(req[t].len, req[t].count))
               ELSE <<>>]

\* The cache does not show: cfs_read, cfs_write and the calls on names behave
\* as those of the NAS itself would, whatever of a file is cached and whichever
\* callbacks run together.
Transparent == Direct!Spec
===========================================================================
