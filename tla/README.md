# A TLA+ model of CacheFS

CacheFS (`src/src`) is a FUSE file system that keeps a block cache of a NAS
directory in a local directory and tracks what it holds in an SQLite database.
This directory has TLA+ modules of its core, TLC instances of them, and proofs
that TLAPS checks: of the metadata store and its counter, of the file system's
use of it, of the block arithmetic, and, when each file is opened by one program
at a time, of the coherence of the cache, that the mount behaves as the NAS
without it, and that what goes wrong when calls fail stays where it was made. Line numbers are those of
`src/src/cachefs.c` unless another file is named.

## 1. Inventory

### The parts, their state, their operations

| Part | State | Operations |
|---|---|---|
| Metadata store, `metadata/meta.c` | tables `Files(relative_path, local_size)` and `Datablocks(file_id, blk_start_offset)`; the global `cache_used_size` | `create_file`, `write_blks`, `insert_block(s)`, `delete_file`, `delete_block(s)`, `is_file_in_cache`, `are_blocks_in_cache`, `init_cache_used_size`, `get_cache_used_size` |
| Alignment and sizing, `cacheHelp.c`, `main()` | `block_size`, `cache_size` | `alignLowerOffset`, rounding, offset arrays; the cache size from what the user asks for and what there is |
| Data path, `cachefs.c` | one `dualFileHandle` for each open file (a NAS and a cache descriptor); the locals of the callbacks that are running | `cfs_mknod`, `cfs_open`, `cfs_read`, `cfs_write`, `cfs_cacheWrite`, `cfs_truncate`, `cfs_ftruncate`, `cfs_unlink`, `cfs_release`, `cfs_rename`, `cfs_link`, `cfs_utime` |
| NAS directory, cache directory | files, sizes, `st_mtime` | system calls; the NAS has other clients |
| Start-up | - | `open_db`, `create_tables`, `init_cache_used_size` |
| The other namespace and attribute callbacks | none of their own | forwarded to the NAS (symlink also to the cache directory) |
| Eviction | `timestamp` of a block | `evict_blocks`: never called |
| Logging, `hash.h`, `example/`, `html/`, build files | - | no part in the cache |

### How they interact

The kernel hands requests to libfuse, which runs each on a thread of its own;
`fuse_main` is called without `-s`. A callback goes through a fixed sequence of
system calls and metadata calls. All threads share

* one SQLite connection in serialized mode, without transactions: one statement
  is atomic and durable, and nothing larger is;
* `cache_used_size`, a `size_t` that `+=` and `-=` change without a lock;
* the cache file and the rows of a file, which all its open handles use.

Three records of one fact have to agree: the rows of `Datablocks`, the bytes of
the cache file, and the sizes (`local_size`, `cache_used_size`). They are
changed by separate steps, and another thread, a truncation, a second open or a
crash can come between any two of them.

### What is hard, and what has to hold

| Behaviour | What has to hold |
|---|---|
| interleaved inserts and deletes of rows | no row without its file; no block charged twice; sizes never negative |
| the unlocked counter | it never claims more than the tables do, as long as nothing is deleted; between calls it equals them when calls do not overlap |
| the wait for space | a request waits only if the cache is full, and every request returns if it is not |
| reads that mix cache and NAS | the buffer has the bytes of the NAS file |
| write-through | NAS and cache both have the bytes when `cfs_write` returns |
| re-validation in `cfs_open` | a file another client changed is dropped; the descriptors of an open file are of the files its path names |
| names | rows, cache file and handles of a path go together through renames, removals and links |
| errors that nobody looks at, kills, other clients, clocks | what goes wrong stays with the blocks that were in hand |
| the whole | seen from a program, the mount behaves as the NAS would without a cache |
| arithmetic | the offset array names the blocks a request touches; the cache size is the smaller of what was asked for and the space `statvfs` found, or what was asked for when `statvfs` fails |

`PROJECT.json` lists the hazards one by one at their lines.

## 2. Modules

| Module | What it is |
|---|---|
| `Meta` | the metadata store: every function of `meta.c` that changes state, one action per SQL statement and two (load, store) for an update of the counter |
| `MetaMC` | `Meta` for TLC, with the bound on `local_size` |
| `MetaProofs` | theorems about `Meta` |
| `CacheAlign`, `CacheAlignMC` | block arithmetic and cache sizing as operators, and their check over all small inputs |
| `CacheAlignProofs` | the same for every block size and every input |
| `PosixFS` | the two directories: what the system calls do (external) |
| `CacheFS` | the callbacks over `Meta`, `PosixFS` and `CacheAlign`, and the kernel that starts them |
| `CacheFSMC` | the situations `CacheFS` is checked in, and the refinement mapping to `PassThrough` |
| `PassThrough` | abstract: the NAS without a cache, what README.md:13 promises |
| `CacheFaults` | `CacheFS` when things go wrong, with the blocks each event may spoil |
| `CacheFSProofs` | `CacheFS` implements `Meta`'s `SpecFS`, and what follows from it; directories, handles and requests keep their types under `CfsSpec` |
| `HandleProofs` | the descriptors of an open file stay those of the files its path names |
| `RowProofs` | who works on which blocks, what the rows say meanwhile, and the counter when the calls of `meta.c` do not overlap |
| `CoherenceProofs` | the cache is coherent, reads return what the NAS has, writes reach both |
| `TransparentProofs` | `CacheFS` implements `PassThrough`: the cache does not show |
| `FaultProofs` | what goes wrong in `CacheFaults` stays confined, for any number of threads and faults |

The proof modules about `Meta` and `CacheFS` extend each other in the order
`MetaProofs`, `CacheFSProofs`, `HandleProofs`, `RowProofs`, `CoherenceProofs`; the
last is extended by `TransparentProofs` and, with `CacheFaults`, by `FaultProofs`.

### Meta

`files`, `local_size` and `blocks` are the tables, `used` is `cache_used_size`,
`call[t]` the frame of the call thread `t` is in. A row of `Datablocks` is a
pair (name, block number). `write_blks` is `Enter` with a frame at step
`"check"`; `is_blk_in_cache` handles one block per step; then each missing
block goes through `InsertRow`, `UpdateLocalSize`, `LoadUsed`, `StoreUsed`.
`delete_file` is `SelectSize`, `LoadUsed`, `StoreUsed`, then either
`DeleteFileRow` or, if its SELECT found nothing, `SelectAgain`: `sqlite3_step`
after `SQLITE_DONE` runs the statement again, and if a file has appeared by
then the function returns -1 before the DELETE. `init_cache_used_size` is both
the restart and the crash: it drops all frames and reads the sum; it has no
step for a negative sum, where `str_to_num` exits. The UNIQUE and NOT NULL
constraints are `RowAllowed`, the cascade of the foreign key is `Surviving`.
Width: counters are modulo `SizeMod`, which stands for 2^64.

Every statement can also fail (`StatementFails`): `is_blk_in_cache` then returns
-1, which counts as found; a failed INSERT or DELETE ends the work on its block;
a failed UPDATE leaves the row without its charge; a failed SELECT of
`delete_file` subtracts 0; a failed DELETE leaves the file with the counter
already lowered.

Three specifications over the same actions: `SpecWriters` (threads that only
record), `SpecFS` (the calls `cachefs.c` makes), `Spec` (all of `meta.h`).

### CacheFS

`req[t]` is the request thread `t` executes, with its program counter and the
locals that one step reads and a later one uses. Each system call and each
metadata call is a step; while a metadata call runs, `Idle(t)` is false and the
next step of the callback waits for it. Choices the model makes where the code
leaves them open:

* a failed `lstat` leaves the attributes undefined, so any value is possible;
* bytes of the `malloc`ed buffer that nothing wrote are `Junk`;
* `fallocate -d` may or may not move the mtime of the cache file;
* the NAS open may fail at any time;
* the creation of a file without a free inode (`Create`) fails and changes
  nothing.

`cfs_truncate` and `cfs_ftruncate` are the same two steps, by path or by handle;
`cfs_rename`, `cfs_link` and `cfs_utime` are two steps as well, cache first, and
none of them touches the metadata. libfuse tells the callbacks of an open file
its new path after a rename (`Renamed`).
The loop of `cfs_cacheWrite` that is to make space is `cache_wait`: it does
nothing, as its body does.

System calls can fail, and `pread` and `pwrite` can do less than they were asked
for. The code looks at the results of three of them only (the NAS open, the cache
open, the query for the file); after any other it goes on as if nothing had
happened, and so do `call_fails`, `lookup_fails`, `pread_fails` and
`pwrite_fails`: the effect is missing, the next step is the same. An operator
with `As` in its name is a step of a callback with the answer of its call as a
parameter; the step and its failure are instances of it.

The kernel's part (`Start...`) is what limits overlap: page locks keep reads and
writes of one page apart, the inode lock keeps writes, truncations and changes
of the times of one file apart, directory locks and libfuse's path locks keep
the calls on a name apart, a write stays within a page, a read is of whole pages
that begin below the end of the file. libfuse turns the removal of an open file
into a rename to a hidden name: `StartUnlink` wants a closed file, and
`StartRename` does not.

`CfsSpec` is all of it together: any request the kernel may start, every failure,
writes of other clients under any clock, and crashes. It is what the theorems are
about; TLC checks the situations of `CacheFSMC` and `CacheFaults`.

### PassThrough

The variables are the NAS directory and, for each thread, the request it has
asked for, whether it has had its effect, and the bytes a read has brought. A
request takes effect on the directory in one step between its call and its
return, and a read's bytes are those of the NAS file at the step it is done. It
knows no cache, no rows and no open files. `Transparent` (`CacheFSMC`) is
`PassThrough!Spec` under the mapping that takes `asked` from `req`, `done` from
the program counters (`read_done`; for a write anything after the NAS `pwrite`)
and `answer` from the buffer. Two liberties, each named there: a read that
overlaps a truncation may end where the file will end (`cfs_truncate` shortens
the cache first), and what follows the end of the file in the buffer is not
looked at, because the kernel knows the size.

### CacheFaults

Nothing in the code handles a fault, so "the cache is coherent" is false after
one. What does hold is that the damage stays where it is made. `spoilt` collects,
at each event, the recorded blocks that may differ from the NAS from then on:

* a kill: the blocks a thread has recorded and not written, and those of a file
  between the two halves of a truncation (`HalfDone`);
* a NAS `pread` that fails, or does so after a size taken from a failed `lstat`:
  the block that is cached from the buffer (`bad`), and only that one;
* a cache `pwrite` that fails or is short: the blocks in hand;
* a failed truncation of the NAS: the blocks above the new length;
* a failed `lstat` in `cfs_open`: all blocks of a file that is behind;
* a failed DELETE: all blocks, because the cache file is removed all the same;
* a write of another client while the file is closed: nothing if its time is
  later than the cache file's, otherwise the block it wrote, or all if the file
  was behind already; the client's clock is any time;
* without any failure: the blocks of a gap that a write or a truncation leaves
  behind the old end, whose cached rest is `malloc`ed memory; all blocks of a
  file that is behind, when a truncation by path or a `utime` gives it a new
  mtime;
* also without any: a block that one thread has read from the NAS up to the end
  of the file and not yet cached, when a write or truncation of another makes the
  file longer through it (`Overtakes`). The thread joins `bad`, and its block is
  spoilt when it is cached.

A block leaves `spoilt` when its row goes, or when it is written whole by a
request in which nothing failed. `DamageConfined` says that every other
recorded block is right. `faults` bounds the failures, kills and writes of other
clients to `MaxFaults`; the last two items are free. `Overtakes` takes two threads
and so never happens in `fs_faults`, which has one: it is part of the module
because `DamageConfined` is false of two threads without it, and the proof covers
any number.

## 3. Runs

All bounds are constants or named guards of the MC modules.

| Run | Question | Bounds |
|---|---|---|
| `meta_writers` | racing inserts, with crashes: `LocalSizeBound`, its inductive form `LocalSizeInv`, `UsedNeverOver` | 2 threads, 2 files, 2 blocks |
| `meta_api` | any calls of `meta.h` overlap, and statements fail: `TypeOK`, `ForeignKey` | 2 threads, 1 file, 2 blocks, `MaxSize` |
| `align` | `BlocksCovered`, `CacheSizeBounded` | block 4, offsets to 13, sizes to 14; every pair of 8-bit sizes, with and without an answer from `statvfs` |
| `fs_alone` | one program with its file; another client of the NAS while it is closed; unmounts; refines `SpecFS` | 1 thread, 1 handle, 2 blocks of 2 bytes, 3 seconds |
| `fs_shared` | two threads of a program on one open file; refines `PassThrough` | 2 threads, 2 blocks of 2 bytes, files of 3 bytes, 2 values, 2 seconds |
| `fs_live` | `RequestsFinish`, with racing updates of the counter and failing calls | 2 threads, 2 blocks of a byte, a cache of 3 bytes |
| `fs_names` | renames, removals, links, unmounts; refines `PassThrough` | 1 thread, 2 names, 2 files, 2 handles, 1 block of a byte, 1 value, 2 seconds |
| `fs_faults` | `DamageConfined` | 1 thread, 2 blocks of 2 bytes, files of 3 bytes, 2 seconds, 1 fault |
| `fs_lost_update`, `fs_opens`, `fs_straddle`, `fs_rename` | statements of the comments and the README that the code does not keep: see below | as `fs_alone` or `fs_names`, with what each needs |

The passing runs have between 9,000 (`meta_writers`) and 1.2 million
(`fs_names`) distinct states.

Why the bounds are enough: two threads are what a lost update or a check that is
stale when used needs; two blocks are what a request with a hit and a miss, a
straddling write or an end of file inside a block needs; blocks of two bytes
have an inside, and a file of three bytes ends in one; three seconds give a change
before, in and after the second of another; two names are what a rename there
and back, or a second name for a file, needs, and there one value is enough to
tell a file that has its byte from one that is empty. One fault is one that
spoils something, with all that the daemon does with it afterwards. That further
faults do not spread it is what `DamageStaysConfined` proves for any number of
them; the instance with `MaxFaults = 2` (3.6 million states) holds too, and is
left out because it takes several minutes. `SizeMod` is 128 in the instances, above every sum of sizes, so a
counter wraps only by going below zero, as in the build.

`MaxSize` of `MetaMC`: when calls overlap freely, `local_size` has no bound of
its own, `delete_blocks` lowers it without looking and an UPDATE after a
delete and a re-creation raises it. Beyond the bound only `delete_file` starts.

The passing runs of `CacheFS` leave out, on purpose and by name, what breaks
their properties; `fs_faults` has most of it back, with the blocks it spoils:

| Left out of | By | Where it is instead |
|---|---|---|
| all but `fs_opens`: a second open of an open file | `OpenAlone` | `fs_opens` |
| all but `fs_faults`: gaps in a file | `WriteDense`, no `Grow` | `fs_faults` (`Gap`) |
| all but `fs_straddle`: blocks smaller than a page | `PageBlocks = 1` | `fs_straddle` |
| every run: blocks larger than a page, which page locks no longer keep to one request at a time | `PageBlocks` counts blocks in a page | nowhere: line 661 in the hazards |
| every run: other clients that truncate, remove or replace a file, or write one that is open here | `RemoteAny` | nowhere, but for opens that fail on the NAS |
| all but `fs_faults` and `fs_live`: an error in `is_blk_in_cache` | no `CheckFails` | `meta.c:669`, below: `DamageConfined` says that it does not spread |
| all but `fs_faults`: a crash inside a callback | `Remount` instead of `Crash` | `fs_faults` (`Killed`) |
| `fs_alone`: a truncation by path, or a `utime`, of a file behind the NAS | `UpToDate` | `fs_faults` (`ChangesBehind`) |
| `fs_alone`: a remote change in the second of the last cache write, or under another clock | `Later` | `fs_faults` (`RemoteWrites`) |
| `fs_names`: a rename to a name that has rows | `RenameNew` | `fs_rename` |
| `fs_names`: writes through a name while another name of the file has a cache file of its own | `OneCopy`, `LinkCached` | nowhere: line 299, below |
| two paths with one cache name | the paths of one directory | line 87: `/a/b` and `/ab`; `NoCollision` in section 4 |
| `fs_live`: truncations | no `ShrinkOpen` | a truncation waits for nothing; `fs_shared` has it |
| a cache smaller than the files in it | `cache_size` | line 511: `cache_wait` for ever |
| `fs_live`: a counter that lost an update and then a deletion | one open | `fs_lost_update` |
| `fs_live`: a DELETE that fails and is repeated | `HarmlessFails` | line 435: the counter is lowered twice |

In `fs_shared` re-opens are possible, so the counter can wrap and both threads
can wait for ever: the run checks safety, and its properties hold there too.

### What the violation runs show

* `fs_lost_update`: two reads insert blocks at once; `cache_used_size +=`
  (`meta.c:394`) loses one while both `local_size` updates reach the table. A
  later open that fails on the NAS deletes the file and subtracts its full
  size. The counter wraps, and the empty cache is "full" from then on.
  `WaitsOnlyWhenFull` fails in a handful of requests.
* `fs_opens`: an open that finds the cache file behind, or whose NAS open fails,
  unlinks the cache file another handle still has open. The next open creates a
  new one. From then on the rows are about one file and the older handle reads
  the other.
* `fs_straddle`: `alignedSize` rounds the length and not the end. With 1024-byte
  blocks (`example/run_cachefs.sh`) a short write across a block boundary
  leaves the second block stale in the cache. `BlocksCovered` states for which
  requests this happens: exactly the `Straddles` ones.
* `fs_rename`: `cfs_rename` leaves the rows under the old name. The file is
  written as `a`, renamed to `b`, dropped from the cache and cached anew under
  `b`, and renamed back: the old rows of `a` now stand for a cache file that
  never had those blocks, and a read returns what it has.

Other divergences seen while modelling, without a run of their own:

* Two opens of an open file that fail on the NAS at the same time both call
  `delete_file` (line 433). Each takes the size off the counter (`meta.c:435`)
  before either has deleted the row, and the counter wraps without a lost update.
* A file that is not in the cache gets a second name: the link of the cache file
  fails (line 299) and the names are cached apart. A write through one of them
  leaves the other's block as it was, and a read through the other returns it.
* A query of `is_blk_in_cache` that fails returns -1, and `are_blocks_in_cache`
  looks for 0 only (`meta.c:669`): the read is served from a cache file that may be
  empty there.
* `cfs_read` returns the padded length at the end of a file (line 594).
* `delete_block`, which nothing calls, counts a DELETE that matched nothing
  (`meta.c:497`).
* A crash inside `insert_block` leaves a block charged to nobody (`meta.c:355`).
* `alignUpperOffset` adds the remainder instead of the distance to the next block,
  and its value is unused.

### Fairness

`fs_live` assumes `WF_vars(Daemon(t))` for each thread: a thread inside a
callback is scheduled by the operating system, and no callback takes a lock that
another holds across steps. No fairness is assumed of the kernel's `Start`
actions, of the clock or of other clients. A wait in `cache_wait` is a stuttering
step, so fairness does not end it: only `HasSpace` does.

## 4. Proofs

Every leaf is checked by `tlapm` with Z3, Zenon or LS4. The constants are
arbitrary within `MetaAssumption` (finite sets of threads, names and blocks, a
positive block size and a positive width), `CacheFSAssumption` (the names are
those of the paths, the blocks those of the largest file, `PageBlocks` and
`MaxSize` are positive, the values for "no path", "no handle", "no inode" and
the bytes of `malloc`ed memory are none of the real ones), and in `CacheAlign` a
positive block size and a width above 100. What holds only under more has it in
its statement:

* `NoCollision`: no two paths share a cache file name. `cfs_pathToFileName`
  drops the slashes, so the code gives it for the files of one directory and not
  for a tree with `/a/b` and `/ab` (line 87).
* `NoStraddle`: no write ends behind the last block `alignedSize` gives it. With
  `PageBlocks` at least 1 this says that blocks have the size of a page (the size
  is an argument of the program, line 1263): `OneBlockPages` derives it from
  `PageBlocks = 1`; with blocks smaller than a page it is false, and `fs_straddle`
  shows what happens then. So the theorems that assume it are about such blocks:
  not about those of 1024 bytes that `example/run_cachefs.sh` asks for, nor
  about blocks larger than a page.
* `SizesFit`: files are shorter than half of what a `size_t` holds. `cfs_write`
  asks for `st_size - lower` bytes, and a negative number must wrap to one that
  `pread` refuses.

`SpecOneCall` is `SpecAlone` as far as no thread enters a call of `meta.c` while
another is in one (`OneCall`): the callbacks, their system calls and the calls one
after the other interleave as they like. Nothing in the code keeps the calls
apart, and with two at once the two theorems about it are false
(`fs_lost_update`, or the two failing opens above). They say what a lock around these calls
would be enough for, and that nothing else in the callbacks, re-validation,
removal and remounts included, makes the counter drift. With one thread, as in
`fs_alone`, the two specifications are the same.

`SpecAlone` is the situation of `fs_alone`: any number of threads, files and
handles, every file opened by one program at a time, which reads, appends,
overwrites and shortens it from several threads at once, removes it and sets its
times; other clients write it while it is closed, in a later second; unmounts.
Nothing fails in it and gaps are not made. `SpecShared` is a part of it.
`SpecFaults` is the specification of `fs_faults`, described with `CacheFaults`: the
same programs, with gaps, truncations and changes of the times by path, any of
the failures, kills in the middle of a callback, and other clients under a clock
of their own. The theorems put no bound on threads, handles, files or faults.

| Theorem | Statement |
|---|---|
| `TypeCorrect` | `Spec => []TypeOK` |
| `ForeignKeyCorrect` | `Spec => []ForeignKey` |
| `LocalSizeCorrect` | `SpecWriters => []LocalSizeBound` |
| `PendingCorrect` | `SpecWriters => []LocalSizeInv` |
| `UsedNeverOverCorrect` | `SpecWriters => []UsedNeverOver` |
| `SizesCorrect` | `SpecFS => []SizesNonNegative` |
| `FileSystemUsesMeta` | `CfsSpec => SpecFS` |
| `FileSystemForeignKey` | `CfsSpec => []ForeignKey` |
| `FileSystemSizes` | `CfsSpec => []SizesNonNegative` |
| `FSTypeCorrect` | `CfsSpec => []FSTypeOK` |
| `HandlesStayCurrent` | `NoCollision`: `SpecAlone => []HandlesCurrent` |
| `RowsFaithful` | `NoCollision`: `SpecAlone => [](RowsInv /\ SharedInv /\ TypeOK)` |
| `UsedMatchesOneCall` | `NoCollision`: `SpecOneCall => []UsedMatches` |
| `WaitsWhenFullOneCall` | `NoCollision`, `cache_size \in Nat`: `SpecOneCall => []WaitsOnlyWhenFull` |
| `CacheCoherent` | `NoCollision`, `NoStraddle`, `SizesFit`: `SpecAlone => []Coherent` |
| `ReadsFaithful` | the same: `SpecAlone => []ReadReturnsNas` |
| `WritesReachBoth` | the same: `SpecAlone => WritesThrough` |
| `CacheDoesNotShow` | the same: `SpecAlone => Transparent` |
| `SharedDoesNotShow` | the same: `SpecShared => Transparent` |
| `DamageStaysConfined` | the same: `SpecFaults => []DamageConfined` |
| `HandlesCurrentWhateverFails` | `NoCollision`: `SpecFaults => []HandlesCurrent` |
| `BlocksCoveredCorrect` | `CacheAlignMC!Spec => []BlocksCovered` |
| `CacheSizeCorrect` | `CacheAlignMC!Spec => []CacheSizeBounded` |

* `TypeInv` is `TypeOK` and "a thread inside a call has a name of `Names`":
  without the second part nothing says that `local_size[call[t].name]` is a
  number.
* `ForeignKey` is inductive relative to `TypeInv`: `InsertRow` looks for the
  file in the statement that adds the row, and `DeleteFileRow` removes the rows
  in the statement that removes the file. That each is one statement is what the
  proof rests on.
* `LocalSizeBound` is not inductive: between its INSERT and its UPDATE a thread
  owes the file a block, and several threads can be there at once. `LocalSizeInv`
  adds one block for each of them (`Pending`); `WriterInv` adds that such a thread
  brings exactly one block (`Recording`) and that its file exists. The proof has
  one lemma for the step that creates the debt (`InsertRowWriter`), one for the
  step that pays it (`UpdateLocalSizeWriter`), one for all others, and counts
  with `FS_AddElement`, `FS_RemoveElement` and `FS_CardinalityType`.
* `ChargeInv` says that with the calls of the file system only blocks are added
  to a size, so a deletion that resets it in the middle of an insert cannot make
  it negative.
* `UsedNeverOver` compares a counter with a sum over a table. `SumLocal` is a
  fold, and the library's induction over finite sets cannot be used here, so
  `SubsetInduction` takes its place: among the subsets for which the claim fails
  one is smallest, because strict inclusion of finite sets is well-founded
  (`FS_StrictSubsetOrderingWellFounded`, `WFMin`). With it `SumExists`,
  `SumTake` and `SumSame` say what a sum is, and `SumGrows`, `SumNew` and
  `SumGone` what an UPDATE, an INSERT and a DELETE make of it. `CounterInv`:
  what is in the counter, and what is in the register of any thread that is
  about to store, is at most the sum less one block for each thread between its
  UPDATE and its store (`Owing`). A lost update only widens the gap.
* `UsedMatches` needs `SerialInv`: for a thread while the others are out of
  `meta.c` (`Others`), how far at each statement of its call the counter is from the
  sum, and that its register has the counter (`Balance`). `OtherFrames` hands this
  from one thread to the next: a step of one while the others wait leaves their
  frames alone, and a call that begins and ends with a counter that is exact is
  what the next one starts from (`TakeTurns`, `TurnBalanced`). `WrapTwice` puts
  together what two updates wrapped.
* `WaitsOnlyWhenFull`: the counter is the sum (`SerialInv`); no file is charged
  for more than it has recorded, now with deletions too, because none comes
  between an INSERT and its UPDATE (`SoloInv`: each thread is `Recording`, as in
  `WriterInv`, or `Deleting`); and so the sum is at most what all files have
  recorded (`SumBound`). No size is negative (`SumNat`), so the counter has not
  wrapped below zero. A thread that waits in `cache_wait` reads it while another
  may be inside a call; `BalanceBound` says that the counter is then still at most
  what is recorded.

* `FileSystemUsesMeta` is the composition: whatever callbacks overlap, fail or
  are killed, the metadata store sees a behaviour of its own specification, so its
  theorems hold inside the file system. A step of a callback that calls `meta.c`
  must be a call `SpecFS` has: with a name of `Names`, and for `write_blks` with a
  set of blocks that is not empty. `CallbackInv` says so: the path of every
  request and handle is one of `Paths` (`NoPath` only where it is not used), the
  blocks still to be handled are `Blocks`, and there is one at every step from
  which `cfs_cacheWrite` can be reached (`Covering`). That a request of at least a
  byte covers at least a block is arithmetic over the block size (`SomeBlock`).
  The proof has a lemma for each callback (`OpenKeeps`, `ReadKeeps`,
  `WriteKeeps`, ...), one for what fails (`FailureKeeps`) and one for what the
  kernel starts (`StartKeeps`). `FileSystemForeignKey` and `FileSystemSizes`
  follow with the theorems of `MetaProofs`.
* `FSTypeCorrect` adds `DirsInv` and `RequestsInv` to `CallbackInv`: a request
  goes through a descriptor that is open until it returns, and the bytes of a
  write that are on their way to the NAS are the program's.
* `HandlesCurrent` is not inductive, because a handle is given out at the end of
  an open that began with the NAS descriptor. `PathInv` follows that open: the
  descriptor it has is that of the name (`Opening`), no other open and no unlink
  of the path is under way and no handle has it (`LockInv`), and each handle is
  `Current`. An open or an unlink changes a name of the cache directory, and
  only `NoCollision` says that the name belongs to no other path
  (`CacheNameKeeps`); without it (`/a/b` and `/ab`) two handles have one cache
  file, and the unlink of one path takes the cache file of the other away.
  `MovesKeep` and `Begins` are the frame: what a callback that goes on, and one
  that starts, owe to the others.
* `RowsFaithful`: `ShareInv` says that two requests which overlap on a file are
  of different pages, and that only one of them writes or truncates; `RowsInv`
  says what each callback may take for granted of the rows at each of its steps
  (`Listed`), which call of `meta.c` it is in (`FrameOf`), and that after
  `write_blks` every block of the request is recorded, also those whose INSERT
  lost a race (`Recorded`). An open file is in `Files`, so an INSERT finds its
  `file_id`; the rows of a file that is made anew are gone.
* `CacheCoherent`: `Coherent` alone is not inductive. `CoherenceInv` has one part
  for each file and one for each request. `FileOK`: every byte of a recorded block
  that no request is busy with, and that no truncation is about to cut, is in the
  cache; or the file is `Outdated`, which means that another client wrote it,
  nobody has it open, and every open under way will still see that the times
  differ. `RequestOK`: a write has its bytes on the NAS after the `pwrite` and then
  the whole blocks in its buffer; a read has in its buffer the bytes of the blocks
  before the one in hand, and the blocks it took for hits are recorded still. The
  proof has a lemma for each callback and what it owes to its own file
  (`OwnFile`) and request (`OwnRequest`), and a frame for the other files and
  requests (`OtherFiles`, `OtherRequests`). What it rests on is the order
  in the code: the rows are recorded before the bytes are written, which is
  harmless only as long as the page lock keeps readers of those blocks out;
  `cfs_truncate` shortens the cache file first; `cfs_open` compares the times
  before it opens the cache file. `ReadsFaithful` and `WritesReachBoth` are read off it.
* `CacheDoesNotShow` is the refinement of `PassThrough` under the mapping of
  `CacheFSMC`: `Requests`, `WithEffect` and `Answers` are what it makes of `asked`,
  `done` and `answer`. The first lemmas say, in these terms, what a step must do to
  be a given action of `PassThrough` (`DirectWrite`, `DirectRead`, ...); then each
  callback is shown to do so at one step and to change nothing visible at the
  others (`NameDirect`, `OpenDirect`, `WriteDirect`, `ReadDirect`). A write takes
  effect at the `pwrite` on the NAS, a removal at the NAS `unlink`, though the cache
  file goes first; a read at the step that completes its buffer, whose bytes are
  right by `CoherenceInv`. A read that a truncation overlaps has the bytes up to
  where the file will end (`EndsThere`, `BytesRead`). Added to the
  invariant is `ByName`: what names a file by its path asks for no handle, so the
  mapping takes the file from the right place.
* `DamageStaysConfined`: `RowsInv` and `CoherenceInv` do not survive a statement
  that fails, after which a file may be open with no row or a row may stand for a
  cache file that is gone. What survives is said of `Trusted`, the rows that
  `spoilt` does not name. `FaultInv` has a part for each file: where a trusted row
  is not under way in a request (`Claimed`: no request has it in hand, `Halved`, or
  is about to cut it off on the NAS, `Severed`), cache and NAS have the same bytes
  (`Same`), or the file is `Outdated`; a name without a cache file has no trusted
  row (`Gone`). And a part for each request: it is in a call of `meta.c` only where
  its callback waits for one (`Calling`), its locals are within what the kernel
  asked for (`Bounded`), and a thread that is not in `bad` carries the bytes of the
  NAS (`FromNas`). `Ghosts` is the accounting: a step makes a row trusted only by
  writing all of it, and takes out of `spoilt` or `bad` nothing else. With it the
  steps that succeed and those that fail share one proof (`FaultCases`,
  `SameStays`, `OwnFaultWrite`, `OwnFaultRead`); kills, other clients and new
  requests have a lemma each. Nothing else is assumed of a failing call but that
  its effect is missing, or, for a `pwrite`, partial.
* The proof found two gaps. `spoilt` and `bad` did not have what a write leaves
  behind that makes a file longer through a block another thread carries; with one
  thread TLC could not meet it (`Overtakes`). And another client may write zeros,
  which `CfsNext` did not allow although `CacheFaults` does.
* `HandlesCurrentWhateverFails` is `PathInv` again, which, unlike `RowsInv`,
  failures leave alone (`FailPaths`).
* `BlocksCoveredCorrect` rests on `TouchedBlocks` (a request touches the blocks
  between those of its first and its last byte), `RoundedUp` (the rounded size is
  the least number of blocks that holds it) and `BlockOfByte`.

Only model-checked: `Transparent`, `Coherent` and `HandlesCurrent` with renames,
links and several names (`fs_names`), which would need `PathInv` and
`CoherenceInv` for names that move and files with two of them; and
`RequestsFinish`, because liveness and ENABLED are out of the prover's reach.

## 5. Not modelled

* `evict_blocks`, `evict_file`, `update_lru_blk`: nothing calls them, the one
  call is a comment; `cache_wait` is what the program does instead.
* `timestamp` (`update_blk_time`), `valid` and `remote_size`: nothing that is
  called reads them.
* `symlink`, `mkdir`, `rmdir`, `chmod`, `chown`, `access`, `statfs`, `readdir`,
  xattrs, `fsync`, `flush`: one system call on the NAS each (`symlink` one in the
  cache directory too, on a name no callback opens), no state of the cache.
* Directories: a path is a name, and no instance makes, lists or removes a
  directory. The collision of `/a/b` and `/ab` (line 87) and the rename of a
  directory over cached files are listed as hazards.
* A machine that stops: the rows are on disk and the bytes of the cache file need
  not be (no `fsync`). The crash of the model is that of the process.
* What `statvfs` reports and its conversion to kB: an input of `cacheSize`.
* Blocks larger than a page, and other clients that do more to a file than write
  its bytes while it is closed: see the table in section 3.
* `cache_size*1024` overflowing; descriptors and statements that leak.
* Argument parsing, the log file, `hash.h`, and the code of others under
  `example/` and `html/` (the iozone benchmark is most of the repository's lines).

The order of the work was: `Meta`, its proofs, `CacheAlign`, `CacheFS`, failures
of calls and statements, names, `PassThrough`, `CacheFaults`, the proofs about
`CacheFS`, from its use of `Meta` to the coherence of the cache, the refinement of
`PassThrough` and the confinement of faults. What could follow: proofs of
`Coherent` and `Transparent` with renames, and paths in several directories.
