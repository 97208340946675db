---------------------------- MODULE PassThrough ----------------------------
(***************************************************************************)
(* What cachefs promises its users: the NAS directory, as if it had been   *)
(* mounted without a cache ("any calls except straight-forward reads are   *)
(* synchronously forwarded to the NAS", README.md:13).  A request takes    *)
(* effect on the NAS once, in one step between its call and its return,    *)
(* and a read has the bytes the file has at that step.                     *)
(***************************************************************************)
EXTENDS Integers, Sequences

CONSTANTS Threads, Paths, Inodes, NoInode, Zero, Values, MaxSize, MaxTime,
          None  \* a thread without a request

INSTANCE PosixFS

VARIABLES
  nas,     \* the directory
  asked,   \* the request of each thread
  done,    \* the threads whose request has had its effect
  answer   \* the bytes of each read that is done

ptVars == <<nas, asked, done, answer>>

Asks(t, op) == asked[t] # None /\ asked[t].op = op /\ t \notin done

\* A file that was opened, or the one that the path names now.
File(r) == IF r.file # NoInode THEN r.file ELSE nas.dir[r.path]

Bytes(r) == [k \in 1 .. r.len |-> r.val]

Ask(t) ==
  /\ asked[t] = None /\ asked'[t] # None
  /\ asked' = [asked EXCEPT ![t] = asked'[t]]
  /\ UNCHANGED <<nas, done, answer>>

\* The request of t takes effect, and may return in the same step.
Done(t) ==
  /\ \/ asked' = asked /\ done' = done \cup {t}
     \/ asked' = [asked EXCEPT ![t] = None] /\ UNCHANGED done
  /\ UNCHANGED answer

\* held: the inodes of removed files that are still open.
Mknod(t) ==
  /\ Asks(t, "mknod") /\ Done(t)
  /\ \E now \in 0 .. MaxTime, held \in SUBSET Inodes :
       nas' = Create(nas, asked[t].path, held, now)

Write(t) ==
  /\ Asks(t, "write") /\ Done(t)
  /\ \E now \in 0 .. MaxTime :
       nas' = Pwrite(nas, File(asked[t]), asked[t].off, Bytes(asked[t]), now)

Truncate(t) ==
  /\ Asks(t, "truncate") /\ Done(t)
  /\ \E now \in 0 .. MaxTime :
       nas' = Ftruncate(nas, File(asked[t]), asked[t].len, now)

SetTimes(t) ==
  /\ Asks(t, "utime") /\ Done(t)
  /\ nas' = Utime(nas, File(asked[t]), asked[t].num)

Directory(t) ==
  /\ Done(t)
  /\ \/ Asks(t, "unlink") /\ nas' = Unlink(nas, asked[t].path)
     \/ Asks(t, "rename") /\ nas' = Rename(nas, asked[t].path, asked[t].new)
     \/ Asks(t, "link") /\ nas' = Link(nas, asked[t].path, asked[t].new)

\* Where file i ends: a truncation under way may have taken place for a read.
EndsOf(i) ==
  {Len(nas.data[i])} \cup
  {asked[u].len : u \in {v \in Threads : Asks(v, "truncate") /\ File(asked[v]) = i}}

\* The bytes as far as they were asked for and the file goes; what may follow
\* them is behind the end of the file, where the kernel does not look.
Read(t) ==
  /\ Asks(t, "read")
  /\ LET r == asked[t]
         d == nas.data[r.file]
     IN \E end \in EndsOf(r.file) :
          LET n == Smaller(r.len, Smaller(end, Len(d)) - r.off)
          IN /\ Len(answer'[t]) >= n
             /\ \A k \in 1 .. n : answer'[t][k] = d[r.off + k]
  /\ done' = done \cup {t}
  /\ answer' = [answer EXCEPT ![t] = answer'[t]]
  /\ UNCHANGED <<nas, asked>>

Return(t) ==
  /\ t \in done
  /\ asked' = [asked EXCEPT ![t] = None]
  /\ done' = done \ {t}
  /\ answer' = [answer EXCEPT ![t] = <<>>]
  /\ UNCHANGED nas

\* Another client of the NAS writes a file.
Other ==
  /\ \E i \in Inodes, off \in 0 .. MaxSize - 1, v \in Values, now \in 0 .. MaxTime :
       nas' = Pwrite(nas, i, off, <<v>>, now)
  /\ UNCHANGED <<asked, done, answer>>

Init ==
  /\ nas = EmptyFS(Paths)
  /\ asked = [t \in Threads |-> None]
  /\ done = {}
  /\ answer = [t \in Threads |-> <<>>]

Next ==
  \/ \E t \in Threads :
       \/ Ask(t) \/ Mknod(t) \/ Write(t) \/ Truncate(t) \/ SetTimes(t)
       \/ Directory(t) \/ Read(t) \/ Return(t)
  \/ Other

Spec == Init /\ [][Next]_ptVars
===========================================================================
