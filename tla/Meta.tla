------------------------------- MODULE Meta -------------------------------
(***************************************************************************)
(* The metadata store of the cache: src/src/metadata/meta.c over the       *)
(* SQLite tables Files and Datablocks, and the counter cache_used_size.    *)
(*                                                                         *)
(* FUSE runs every request on a thread of its own and all threads share    *)
(* one connection in SQLite's serialized mode, so one SQL statement is one *)
(* atomic step and nothing larger is: a function of meta.c that runs three *)
(* statements can be interleaved with another one after each of them, and  *)
(* a crash can fall between them.  cache_used_size is a plain size_t that  *)
(* threads update without a lock: `+=' is a load and a store.              *)
(*                                                                         *)
(* A row of Datablocks names its file by file_id, and every statement      *)
(* finds that id from the relative_path (UNIQUE), so a row is a pair       *)
(* <<relative_path, block number>>; blk_start_offset is the block number   *)
(* times the block size.  remote_size, valid and timestamp are written and *)
(* never used by a running file system, and are left out.                  *)
(***************************************************************************)
EXTENDS Integers, FiniteSets, Functions

CONSTANTS
  Threads,          \* threads that may be inside meta.c
  Names,            \* relative_path values: names of files in the cache
  NoName,           \* the name in the frame of a thread outside meta.c
  Blocks,           \* block numbers
  meta_block_size,  \* bytes of a block
  SizeMod           \* size_t is arithmetic modulo SizeMod (2^64 in the build)

ASSUME MetaAssumption ==
  /\ IsFiniteSet(Threads)
  /\ IsFiniteSet(Names)
  /\ NoName \notin Names
  /\ IsFiniteSet(Blocks) /\ Blocks \subseteq Nat
  /\ meta_block_size \in Nat \ {0}
  /\ SizeMod \in Nat \ {0}

VARIABLES
  files,       \* the rows of Files, by relative_path
  local_size,  \* Files.local_size; 0 for a name without a row
  blocks,      \* the rows of Datablocks
  used,        \* cache_used_size
  call         \* the meta.c call each thread is executing

metaVars == <<files, local_size, blocks, used, call>>

(***************************************************************************)
(* The frame of a call: the API function, the statement it runs next, the  *)
(* file, the blocks still to handle, the blocks found missing, the amount  *)
(* by which local_size and cache_used_size change, and the value of        *)
(* cache_used_size held in a register between the load and the store.      *)
(* found: the SELECT of delete_file returned a row.                        *)
(***************************************************************************)
Ops   == {"none", "write_blks", "insert_blocks", "delete_file", "delete_blocks"}
Steps == {"idle", "check", "insert", "select", "unrow", "local", "load",
          "store", "again", "delete"}

Frame == [op: Ops, step: Steps, name: Names \cup {NoName},
          todo: SUBSET Blocks, miss: SUBSET Blocks, amt: Int, reg: Nat,
          found: BOOLEAN]

Fresh(o, s, f, B) == [op |-> o, step |-> s, name |-> f, todo |-> B,
                      miss |-> {}, amt |-> 0, reg |-> 0, found |-> FALSE]

NoCall == Fresh("none", "idle", NoName, {})

At(t, s)  == call[t].step = s
Idle(t)   == At(t, "idle")

\* Mutant of Wrap: a counter that does not wrap, and can be negative.
NoWrap(n) == n
Wrap(n)   == n % SizeMod

\* SELECT SUM(local_size) FROM Files
SumLocal == SumFunctionOnSet(local_size, files)

\* The blocks Datablocks records for f.
BlocksOf(f) == {b \in Blocks : <<f, b>> \in blocks}

\* The loops over blk_arr go through the offsets in ascending order.
IsFirst(b, S) == b \in S /\ \A c \in S : b <= c

---------------------------------------------------------------------------
(***************************************************************************)
(* Starting a call.                                                        *)
(***************************************************************************)
Enter(t, frame) ==
  /\ Idle(t)
  /\ call' = [call EXCEPT ![t] = frame]
  /\ UNCHANGED <<files, local_size, blocks, used>>

write_blks(t, f, B)    == Enter(t, Fresh("write_blks", "check", f, B))
insert_blocks(t, f, B) == Enter(t, Fresh("insert_blocks", "insert", f, B))
delete_blocks(t, f, B) == Enter(t, Fresh("delete_blocks", "unrow", f, B))
delete_file(t, f)      == Enter(t, Fresh("delete_file", "select", f, {}))

\* One INSERT; a second row for the same relative_path violates UNIQUE and
\* leaves the table as it is.
create_file(t, f) ==
  /\ Idle(t)
  /\ files' = files \cup {f}
  /\ UNCHANGED <<local_size, blocks, used, call>>

---------------------------------------------------------------------------
(***************************************************************************)
(* The statements of the calls.                                            *)
(***************************************************************************)
\* The frame once the block in hand is done: the next block, or the return.
NextBlock(c) ==
  IF c.todo = {} THEN NoCall
  ELSE [c EXCEPT !.step = IF c.op = "delete_blocks" THEN "unrow" ELSE "insert",
                 !.amt = 0, !.reg = 0]

\* write_blks first asks for every block whether it is recorded ...
is_blk_in_cache(t) ==
  /\ At(t, "check")
  /\ \E b \in call[t].todo :
       LET c    == call[t]
           rest == c.todo \ {b}
           miss == IF <<c.name, b>> \in blocks THEN c.miss ELSE c.miss \cup {b}
       IN /\ IsFirst(b, c.todo)
          /\ call' = [call EXCEPT ![t] =
                        IF rest # {} THEN [c EXCEPT !.todo = rest, !.miss = miss]
                        \* ... and then inserts those that were not; for the
                        \* others only the timestamp is updated.
                        ELSE NextBlock([c EXCEPT !.todo = miss, !.miss = {}])]
  /\ UNCHANGED <<files, local_size, blocks, used>>

\* Mutant of RowAllowed: the table without UNIQUE.
RowAllowedTwice(f, b) == f \in files

\* A row needs a file (NOT NULL file_id) and is unique.
RowAllowed(f, b) == f \in files /\ <<f, b>> \notin blocks

\* Mutant of InsertRow: a failed INSERT still counts the block as used.
InsertRowCounted(t) ==
  /\ At(t, "insert")
  /\ \E b \in call[t].todo :
       /\ IsFirst(b, call[t].todo)
       /\ call' = [call EXCEPT ![t].todo = @ \ {b}, ![t].amt = meta_block_size,
            ![t].step = IF RowAllowed(call[t].name, b) THEN "local" ELSE "load"]
       /\ blocks' = IF RowAllowed(call[t].name, b)
                    THEN blocks \cup {<<call[t].name, b>>} ELSE blocks
  /\ UNCHANGED <<files, local_size, used>>

InsertRow(t) ==
  /\ At(t, "insert")
  /\ \E b \in call[t].todo :
       LET c == [call[t] EXCEPT !.todo = @ \ {b}]
       IN /\ IsFirst(b, call[t].todo)
          /\ \/ /\ RowAllowed(c.name, b)
                /\ blocks' = blocks \cup {<<c.name, b>>}
                /\ call' = [call EXCEPT ![t] = [c EXCEPT !.step = "local",
                                                         !.amt = meta_block_size]]
             \/ /\ ~RowAllowed(c.name, b)    \* constraint error: return -1
                /\ call' = [call EXCEPT ![t] = NextBlock(c)]
                /\ UNCHANGED blocks
  /\ UNCHANGED <<files, local_size, used>>

\* DELETE FROM Datablocks succeeds whether or not it finds the row.
DeleteBlockRow(t) ==
  /\ At(t, "unrow")
  /\ \E b \in call[t].todo :
       /\ IsFirst(b, call[t].todo)
       /\ blocks' = blocks \ {<<call[t].name, b>>}
       /\ call' = [call EXCEPT ![t].todo = @ \ {b}, ![t].step = "local",
                               ![t].amt = -meta_block_size]
  /\ UNCHANGED <<files, local_size, used>>

\* Mutant of UpdateLocalSize: local_size = local_size - amt on an insertion.
UpdateLocalSizeMinus(t) ==
  /\ At(t, "local")
  /\ local_size' = IF call[t].name \in files
                   THEN [local_size EXCEPT ![call[t].name] = @ - call[t].amt]
                   ELSE local_size
  /\ call' = [call EXCEPT ![t].step = "load"]
  /\ UNCHANGED <<files, blocks, used>>

\* UPDATE Files SET local_size = local_size + amt: no row, no update.
UpdateLocalSize(t) ==
  /\ At(t, "local")
  /\ local_size' = IF call[t].name \in files
                   THEN [local_size EXCEPT ![call[t].name] = @ + call[t].amt]
                   ELSE local_size
  /\ call' = [call EXCEPT ![t].step = "load"]
  /\ UNCHANGED <<files, blocks, used>>

\* Mutant of SelectSize: the amount is taken after the row is gone, so it is 0.
SelectSizeLate(t) ==
  /\ At(t, "select")
  /\ call' = [call EXCEPT ![t].amt = 0, ![t].found = call[t].name \in files,
                          ![t].step = "load"]
  /\ UNCHANGED <<files, local_size, blocks, used>>

\* delete_file reads the file's local_size (0 without a row) ...
SelectSize(t) ==
  /\ At(t, "select")
  /\ call' = [call EXCEPT ![t].amt = -local_size[call[t].name],
                          ![t].found = call[t].name \in files,
                          ![t].step = "load"]
  /\ UNCHANGED <<files, local_size, blocks, used>>

LoadUsed(t) ==
  /\ At(t, "load")
  /\ call' = [call EXCEPT ![t].reg = used, ![t].step = "store"]
  /\ UNCHANGED <<files, local_size, blocks, used>>

StoreUsed(t) ==
  /\ At(t, "store")
  /\ used' = Wrap(call[t].reg + call[t].amt)
  /\ call' = [call EXCEPT ![t] =
                IF call[t].op = "delete_file"
                THEN [call[t] EXCEPT !.step = IF call[t].found THEN "delete" ELSE "again"]
                ELSE NextBlock(call[t])]
  /\ UNCHANGED <<files, local_size, blocks>>

\* ... takes it off cache_used_size, steps the SELECT once more, which after a
\* first step without a row runs it again and fails if there is one by now ...
SelectAgain(t) ==
  /\ At(t, "again")
  /\ call' = [call EXCEPT ![t] = IF call[t].name \in files THEN NoCall
                                 ELSE [call[t] EXCEPT !.step = "delete"]]
  /\ UNCHANGED <<files, local_size, blocks, used>>

\* Mutant of Surviving: a connection without PRAGMA foreign_keys=ON.
SurvivingAll(f) == blocks

\* ... and deletes the row; the foreign key
\* cascades to the file's blocks.
Surviving(f) == {r \in blocks : r[1] # f}

DeleteFileRow(t) ==
  /\ At(t, "delete")
  /\ LET f == call[t].name
     IN /\ files' = files \ {f}
        /\ local_size' = [local_size EXCEPT ![f] = 0]
        /\ blocks' = Surviving(f)
  /\ call' = [call EXCEPT ![t] = NoCall]
  /\ UNCHANGED used

---------------------------------------------------------------------------
(***************************************************************************)
(* Statements that fail: the disk is full, the database is locked, an I/O  *)
(* error.  No table changes; what the call does next depends on which      *)
(* statement it was.                                                       *)
(***************************************************************************)
\* is_blk_in_cache returns -1, which counts as found.
CheckFails(t) ==
  /\ At(t, "check")
  /\ \E b \in call[t].todo :
       LET c == [call[t] EXCEPT !.todo = @ \ {b}]
       IN /\ IsFirst(b, call[t].todo)
          /\ call' = [call EXCEPT ![t] =
                        IF c.todo # {} THEN c
                        ELSE NextBlock([c EXCEPT !.todo = c.miss, !.miss = {}])]
  /\ UNCHANGED <<files, local_size, blocks, used>>

\* The first statement of insert_block and of delete_block: -1, and on to the
\* next block.
RowFails(t) ==
  /\ At(t, "insert") \/ At(t, "unrow")
  /\ \E b \in call[t].todo :
       /\ IsFirst(b, call[t].todo)
       /\ call' = [call EXCEPT ![t] = NextBlock([call[t] EXCEPT !.todo = @ \ {b}])]
  /\ UNCHANGED <<files, local_size, blocks, used>>

\* Their second: the row stays as the first has left it.
SizeFails(t) ==
  /\ At(t, "local")
  /\ call' = [call EXCEPT ![t] = NextBlock(call[t])]
  /\ UNCHANGED <<files, local_size, blocks, used>>

\* The SELECT of delete_file: the column is 0, and the next step runs it again.
SelectFails(t) ==
  /\ At(t, "select")
  /\ call' = [call EXCEPT ![t].amt = 0, ![t].found = FALSE, ![t].step = "load"]
  /\ UNCHANGED <<files, local_size, blocks, used>>

\* It returns -1 with the counter lowered and the file still there.
DeleteFails(t) ==
  /\ At(t, "again") \/ At(t, "delete")
  /\ call' = [call EXCEPT ![t] = NoCall]
  /\ UNCHANGED <<files, local_size, blocks, used>>

StatementFails(t) == \/ CheckFails(t) \/ RowFails(t) \/ SizeFails(t)
                     \/ SelectFails(t) \/ DeleteFails(t)

---------------------------------------------------------------------------
\* main() after a crash or an unmount: the tables are as the last statement
\* left them, cache_used_size is read from them, and str_to_num() ends the
\* program when the sum is negative.
init_cache_used_size ==
  /\ SumLocal \in Nat
  /\ used' = Wrap(SumLocal)
  /\ call' = [t \in Threads |-> NoCall]
  /\ UNCHANGED <<files, local_size, blocks>>

---------------------------------------------------------------------------
MetaInit ==
  /\ files = {}
  /\ local_size = [f \in Names |-> 0]
  /\ blocks = {}
  /\ used = 0
  /\ call = [t \in Threads |-> NoCall]

\* A thread inside meta.c runs its next statement.
MetaStep(t) ==
  \/ is_blk_in_cache(t) \/ InsertRow(t) \/ DeleteBlockRow(t)
  \/ UpdateLocalSize(t) \/ SelectSize(t)
  \/ LoadUsed(t) \/ StoreUsed(t) \/ SelectAgain(t) \/ DeleteFileRow(t)

WriterCall(t) ==
  \E f \in Names :
    \/ create_file(t, f)
    \/ \E B \in (SUBSET Blocks) \ {{}} : write_blks(t, f, B)

\* What cachefs.c calls, and what meta.h offers.
FSCall(t) == WriterCall(t) \/ \E f \in Names : delete_file(t, f)

APICall(t) ==
  \/ FSCall(t)
  \/ \E f \in Names, B \in (SUBSET Blocks) \ {{}} :
       insert_blocks(t, f, B) \/ delete_blocks(t, f, B)

NextWriters == \/ \E t \in Threads : WriterCall(t) \/ MetaStep(t) \/ StatementFails(t)
               \/ init_cache_used_size
NextFS      == \/ \E t \in Threads : FSCall(t) \/ MetaStep(t) \/ StatementFails(t)
               \/ init_cache_used_size
Next        == \/ \E t \in Threads : APICall(t) \/ MetaStep(t) \/ StatementFails(t)
               \/ init_cache_used_size

\* Threads that only record blocks; the calls of the file system; the API.
SpecWriters == MetaInit /\ [][NextWriters]_metaVars
SpecFS      == MetaInit /\ [][NextFS]_metaVars
Spec        == MetaInit /\ [][Next]_metaVars

---------------------------------------------------------------------------
(***************************************************************************)
(* Properties.                                                             *)
(***************************************************************************)
\* Every variable has its type; cache_used_size stays a size_t.
TypeOK ==
  /\ files \subseteq Names
  /\ local_size \in [Names -> Int]
  /\ blocks \subseteq (Names \X Blocks)
  /\ used \in 0 .. SizeMod - 1
  /\ call \in [Threads -> Frame]

\* A Datablocks row always belongs to a Files row, whatever calls overlap: an
\* INSERT that lost the race against delete_file leaves nothing that a file
\* created later under the same name would inherit as cached blocks.
ForeignKey == \A r \in blocks : r[1] \in files

\* The threads that have inserted a row of f and not yet added it to f's
\* local_size.
Pending(f) == {t \in Threads : At(t, "local") /\ call[t].name = f}

\* No file is charged for more bytes than it has blocks recorded, also while
\* threads insert the same blocks at once and after a crash in insert_block:
\* what init_cache_used_size sums is never more than what is recorded.
LocalSizeBound ==
  \A f \in Names : local_size[f] <= meta_block_size * Cardinality(BlocksOf(f))

\* LocalSizeBound, strengthened with the rows whose size is still to be added.
LocalSizeInv ==
  \A f \in Names :
    local_size[f] + meta_block_size * Cardinality(Pending(f))
      <= meta_block_size * Cardinality(BlocksOf(f))

\* Threads that record blocks race on cache_used_size, and can only lose
\* updates: the counter never claims more than the tables do, so the wait for
\* space in cfs_cacheWrite never waits for bytes that nothing occupies.
UsedNeverOver == used <= SumLocal

\* No two threads are in a call of meta.c.  Nothing in the code keeps them
\* apart: this is the condition under which its counter is exact.
OneCall == \A t, u \in Threads : t # u => Idle(t) \/ Idle(u)

\* Between calls the counter is the sum of the tables: insert_block,
\* delete_file and a restart agree on what a byte in use is.
UsedMatches == (\A t \in Threads : Idle(t)) => used = Wrap(SumLocal)

\* No file's local_size is ever negative, so str_to_num never ends the next
\* mount over the metadata this one leaves behind.
SizesNonNegative == \A f \in Names : local_size[f] >= 0
===========================================================================
