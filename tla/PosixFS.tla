------------------------------ MODULE PosixFS ------------------------------
(***************************************************************************)
(* A directory of regular files, as the system calls of cachefs.c see it:  *)
(* what the NAS directory and the cache directory each are.  This is the   *)
(* environment of the program: the kernel's file systems, modelled from    *)
(* how cachefs.c uses them.                                                *)
(*                                                                         *)
(* A file system is a record: dir maps a name to an inode or NoInode, data *)
(* and mtime belong to the inode, so that a descriptor opened before the   *)
(* name was unlinked still reads and writes the file it opened.            *)
(***************************************************************************)
EXTENDS Integers, Sequences

CONSTANTS
  Inodes,   \* inodes a file system can use
  NoInode,  \* a name that does not exist, a failed open
  Zero      \* the byte a hole reads as

Smaller(m, n) == IF m <= n THEN m ELSE n
Larger(m, n)  == IF m <= n THEN n ELSE m

EmptyFS(names) == [dir   |-> [n \in names |-> NoInode],
                   data  |-> [i \in Inodes |-> <<>>],
                   mtime |-> [i \in Inodes |-> 0]]

\* pread: the bytes from off on, fewer than size at the end of the file.
Pread(fs, i, off, size) ==
  SubSeq(fs.data[i], off + 1, Smaller(off + size, Len(fs.data[i])))

\* pwrite: a gap behind the old end is a hole.
Pwrite(fs, i, off, bytes, now) ==
  LET old == fs.data[i]
      new == [k \in 1 .. Larger(Len(old), off + Len(bytes)) |->
                IF k \in off + 1 .. off + Len(bytes) THEN bytes[k - off]
                ELSE IF k <= Len(old) THEN old[k] ELSE Zero]
  IN [fs EXCEPT !.data[i] = new, !.mtime[i] = now]

\* ftruncate, to a smaller or a larger size.
Ftruncate(fs, i, size, now) ==
  LET new == [k \in 1 .. size |->
                IF k <= Len(fs.data[i]) THEN fs.data[i][k] ELSE Zero]
  IN [fs EXCEPT !.data[i] = new, !.mtime[i] = now]

\* open with O_CREAT | O_EXCL; fails, and changes nothing, for a name in use and
\* without a free inode.  held is the inodes some descriptor still refers to.
Create(fs, name, held, now) ==
  LET free == Inodes \ (held \cup {fs.dir[n] : n \in DOMAIN fs.dir})
      i    == CHOOSE j \in free : TRUE
  IN IF fs.dir[name] # NoInode \/ free = {} THEN fs
     ELSE [fs EXCEPT !.dir[name] = i, !.data[i] = <<>>, !.mtime[i] = now]

Unlink(fs, name) == [fs EXCEPT !.dir[name] = NoInode]

\* rename: takes the place of the file that had the new name; does nothing if
\* both names are links to one file, fails if there is none.
Rename(fs, name, new) ==
  IF fs.dir[name] \in {NoInode, fs.dir[new]} THEN fs
  ELSE [fs EXCEPT !.dir[new] = fs.dir[name], !.dir[name] = NoInode]

\* link: a second name for a file; fails for a name in use.
Link(fs, name, new) ==
  IF fs.dir[new] # NoInode THEN fs ELSE [fs EXCEPT !.dir[new] = fs.dir[name]]

Utime(fs, i, time) == [fs EXCEPT !.mtime[i] = time]
===========================================================================
