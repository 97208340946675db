---------------------------- MODULE CacheFaults ----------------------------
(***************************************************************************)
(* CacheFS when things go wrong: system calls and SQL statements fail, the *)
(* daemon is killed, other clients write the NAS with a clock of their     *)
(* own, the program leaves gaps in its file and changes a file that is     *)
(* behind.  Nothing of this is handled in the code.  What the module says  *)
(* is how far the damage goes: for every such event the blocks that may    *)
(* differ from the NAS from then on, and that no other block does.         *)
(***************************************************************************)
EXTENDS CacheFSMC

CONSTANT MaxFaults  \* bound on the events of one behaviour

VARIABLES
  faults,  \* how many there have been
  spoilt,  \* the recorded blocks that an event may have spoilt
  bad      \* threads that carry bytes the NAS file does not have

faultVars == <<vars, faults, spoilt, bad>>

AllBlocks(f) == {f} \X Blocks

\* The blocks with bytes of first .. last - 1.
BlocksBetween(f, first, last) ==
  {r \in AllBlocks(f) : BS * (r[2] + 1) > first /\ BS * r[2] < last}

\* From the end of file i to off, if that is behind it.
Gap(f, i, off) ==
  IF i = NoInode THEN {} ELSE BlocksBetween(f, Len(nas.data[i]), off)

InHand(t) == {name(t)} \X WriteBlocks(t)

Stale(t) == IF UpToDate(req[t].path) THEN {} ELSE AllBlocks(name(t))

---------------------------------------------------------------------------
\* A thread is between the change of the one copy and of the other.
HalfDone(t) ==
  IF Pc(t, "idle") THEN {}
  ELSE IF \/ Pc(t, "cache_pwrite")
          \/ req[t].op = "write" /\ ~Pc(t, "write_nas") THEN InHand(t)
  ELSE IF Pc(t, "trunc_nas") THEN BlocksBetween(name(t), req[t].len, MaxSize)
  ELSE {}

\* What a step of thread t spoils although nothing fails: a gap in the file
\* that the cache is not told of, ...
Widens(t) ==
  IF Pc(t, "write_nas") THEN Gap(name(t), fh(t).nas, req[t].off)
  ELSE IF Pc(t, "trunc_nas")
       THEN Gap(name(t), IF req[t].h = NoHandle THEN nas.dir[req[t].path]
                         ELSE fh(t).nas, req[t].len)
  ELSE {}

\* ... which passes through blocks that other threads are carrying, ...
Overtakes(t) ==
  {u \in Threads : /\ Pc(u, "cache_record") \/ Pc(u, "cache_pwrite")
                   /\ InHand(u) \cap Widens(t) # {}}

\* ... and what a call of it that fails does.  If a file is deleted from the
\* metadata, the cache file goes too, whether the rows went or not.
Spoils(t) ==
  IF Pc(t, "trunc_nas") THEN BlocksBetween(name(t), req[t].len, MaxSize)
  ELSE IF \/ Pc(t, "open_stat") \/ Pc(t, "open_date") THEN Stale(t)
  ELSE {}

\* The read from the NAS that fails is that of a block which goes to the cache.
CarriesOn(t) ==
  \/ Pc(t, "write_stat") \/ Pc(t, "write_read")
  \/ Pc(t, "read_block") /\ BlockInHand(t) \notin req[t].hits

RowsKept(t) ==
  IF call[t].op = "delete_file" /\ call'[t].op = "none" /\ call[t].name \in files'
  THEN AllBlocks(call[t].name) ELSE {}

\* The whole of the blocks in hand arrives in the cache.
Arrives(t) == Pc(t, "cache_pwrite") /\ ~Pc(t, "cache_pwrite")'

\* A block that is not recorded is fetched before it is used.
Spoil(S) == spoilt' = (spoilt \cup S) \cap blocks'

Works(t) ==
  /\ Program(t) \/ WriteSparse(t) \/ Grow(t) \/ ShrinkOpen(t) \/ UnlinkAny(t)
  /\ IF Arrives(t) /\ t \notin bad THEN spoilt' = spoilt \ InHand(t)
     ELSE Spoil(Widens(t) \cup RowsKept(t) \cup (IF Arrives(t) THEN InHand(t) ELSE {}))
  /\ bad' = IF Arrives(t) THEN bad \ {t} ELSE bad \cup Overtakes(t)

\* By its path the program changes a file that is behind the NAS, which gets
\* the times of one that is not.
ChangesBehind(t) == \E p \in Paths :
  /\ ~UpToDate(p)
  /\ ShrinkPath(t) \/ UtimeAny(t)
  /\ req'[t].path = p
  /\ Spoil(AllBlocks(pathToFileName(p)))
  /\ UNCHANGED bad

CallGoesWrong(t) ==
  /\ CallFails(t)
  /\ Spoil(Spoils(t) \cup (IF Arrives(t) THEN InHand(t) ELSE {})
                     \cup (IF nas' # nas THEN Widens(t) ELSE {}))
  /\ bad' = IF CarriesOn(t) THEN bad \cup {t}
            ELSE IF Arrives(t) THEN bad \ {t}
            ELSE IF nas' # nas THEN bad \cup Overtakes(t) ELSE bad

StatementGoesWrong(t) ==
  /\ SQLFails(t)
  /\ Spoil(RowsKept(t))
  /\ UNCHANGED bad

\* A client of the NAS writes a closed file; the NAS has the time nasClock.
RemoteWrites(p, off, nasClock) ==
  /\ Unused(p) /\ nas.dir[p] # NoInode
  /\ off <= Len(nas.data[nas.dir[p]])
  /\ \E v \in Values \cup {Zero} : RemoteWrite(p, off, v, nasClock)
  /\ LET f == pathToFileName(p)
         i == cache.dir[f]
     IN Spoil(IF i = NoInode \/ cache.mtime[i] < nasClock THEN {}
              ELSE IF UpToDate(p) THEN {<<f, off \div BS>>} ELSE AllBlocks(f))
  /\ UNCHANGED bad

Killed ==
  /\ Crash
  /\ Spoil(UNION {HalfDone(t) : t \in Threads})
  /\ bad' = {}

InitFaults == Init /\ faults = 0 /\ spoilt = {} /\ bad = {}

Fault ==
  \/ \E t \in Threads : CallGoesWrong(t) \/ StatementGoesWrong(t)
  \/ \E p \in Paths, off \in 0 .. MaxSize - 1, nasClock \in 0 .. MaxTime :
       RemoteWrites(p, off, nasClock)
  \/ Killed

NextFaults ==
  \/ /\ \/ \E t \in Threads : Works(t) \/ ChangesBehind(t)
        \/ Tick /\ UNCHANGED <<spoilt, bad>>
     /\ UNCHANGED faults
  \/ faults < MaxFaults /\ faults' = faults + 1 /\ Fault

SpecFaults == InitFaults /\ [][NextFaults]_faultVars

---------------------------------------------------------------------------
\* Whatever fails in cfs_open, cfs_read, cfs_cacheWrite, cfs_write and
\* cfs_truncate, a recorded block differs from the NAS only if it is one the
\* failing step had in hand: the rows of other blocks, and of the same block
\* once it is written again, can be relied on.
DamageConfined ==
  \A h \in Opened, b \in Blocks :
    LET o == handles[h]
        f == pathToFileName(o.path)
    IN <<f, b>> \in blocks \ spoilt /\ ~InFlight(o.nas, b) =>
         \A k \in BytesOf(b, o.nas) :
           /\ k <= Len(cache.data[o.cache])
           /\ cache.data[o.cache][k] = nas.data[o.nas][k]
===========================================================================
