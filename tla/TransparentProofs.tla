------------------------- MODULE TransparentProofs -------------------------
(***************************************************************************)
(* The cache does not show: what programs ask of a mount that has every    *)
(* file opened by one of them at a time, and what they get, is what        *)
(* PassThrough, the NAS without a cache, would give them.  Every step of   *)
(* SpecAlone is a step of PassThrough or none, under the mapping of        *)
(* CacheFSMC.                                                              *)
(***************************************************************************)
EXTENDS CoherenceProofs

(***************************************************************************)
(* The state PassThrough sees, and its steps in terms of it.               *)
(***************************************************************************)
Requests == [t \in Threads |-> Asked(t)]

HasEffect(t) == Pc(t, "read_done") \/ (req[t].op = "write" /\ ~Pc(t, "write_nas"))

WithEffect == {t \in Threads : HasEffect(t)}

AnswerTo(t) == IF Pc(t, "read_done")
               THEN SubSeq(req[t].buf, 1, Smaller(req[t].len, req[t].count))
               ELSE <<>>

Answers == [t \in Threads |-> AnswerTo(t)]

\* Nothing that PassThrough sees.
LEMMA DirectNothing ==
  ASSUME nas' = nas, Requests' = Requests, WithEffect' = WithEffect,
         Answers' = Answers
  PROVE  UNCHANGED Direct!ptVars
  BY DEF Direct!ptVars, Requests, WithEffect, HasEffect, Answers, AnswerTo

\* A request that is asked.
LEMMA DirectAsk ==
  ASSUME NEW t \in Threads, Asked(t) = NoReq, Asked(t)' # NoReq,
         Requests' = [Requests EXCEPT ![t] = Asked(t)'],
         nas' = nas, WithEffect' = WithEffect, Answers' = Answers
  PROVE  Direct!Next
<1>1. Requests[t] = NoReq /\ Requests'[t] # NoReq
      /\ Requests' = [Requests EXCEPT ![t] = Requests'[t]]
  BY DEF Requests
<1>2. Direct!Ask(t)
  BY <1>1 DEF Direct!Ask, Requests, WithEffect, HasEffect, Answers, AnswerTo
<1>3. QED  BY <1>2 DEF Direct!Next

\* A request that has not had its effect; it has it and returns.
Awaits(t, op) == Asked(t) # NoReq /\ Asked(t).op = op /\ ~HasEffect(t)

Returned(t) == /\ Requests' = [Requests EXCEPT ![t] = NoReq]
               /\ WithEffect' = WithEffect /\ Answers' = Answers

\* A request that has been answered returns.
LEMMA DirectDone ==
  ASSUME NEW t \in Threads, NEW op, Awaits(t, op)
  PROVE  /\ Direct!Asks(t, op)
         /\ Returned(t) => Direct!Done(t)
<1>1. Direct!Asks(t, op)
  BY DEF Direct!Asks, Awaits, HasEffect
<1>2. ASSUME Returned(t)  PROVE Direct!Done(t)
  BY <1>2 DEF Direct!Done, Returned, Requests, WithEffect, HasEffect, Answers, AnswerTo
<1>3. QED  BY <1>1, <1>2

\* A file is made.  The inodes in use are those of some set of inodes.
LEMMA DirectMknod ==
  ASSUME NEW t \in Threads, Awaits(t, "mknod"), Returned(t),
         NEW held, NEW now \in 0 .. MaxTime,
         nas' = Create(nas, Asked(t).path, held, now)
  PROVE  Direct!Next
<1> DEFINE some == held \cap Inodes
<1>1. Create(nas, Asked(t).path, held, now) = Direct!Create(nas, Asked(t).path, some, now)
  BY DEF Create, Direct!Create
<1>2. some \in SUBSET Inodes
  OBVIOUS
<1> HIDE DEF some
<1>3. nas' = Direct!Create(nas, Requests[t].path, some, now)
  BY <1>1 DEF Requests
<1>4. Direct!Mknod(t)
  BY <1>2, <1>3, DirectDone DEF Direct!Mknod, Requests
<1>5. QED  BY <1>4 DEF Direct!Next

\* pwrite is the same there.
LEMMA SamePwrite ==
  ASSUME NEW fs, NEW i, NEW off, NEW bytes, NEW now
  PROVE  Pwrite(fs, i, off, bytes, now) = Direct!Pwrite(fs, i, off, bytes, now)
  BY DEF Pwrite, Larger, Direct!Pwrite, Direct!Larger

\* A write has its effect, and has to return yet.
LEMMA DirectWrite ==
  ASSUME NEW t \in Threads, Awaits(t, "write"), Requests' = Requests,
         WithEffect' = WithEffect \cup {t}, Answers' = Answers,
         Asked(t).file # NoInode, NEW now \in 0 .. MaxTime,
         nas' = Pwrite(nas, Asked(t).file, Asked(t).off,
                       [k \in 1 .. Asked(t).len |-> Asked(t).val], now)
  PROVE  Direct!Next
<1>1. Direct!Done(t)
  BY DEF Direct!Done, Requests, WithEffect, HasEffect, Answers, AnswerTo
<1>2. /\ Direct!File(Requests[t]) = Asked(t).file /\ Requests[t].off = Asked(t).off
      /\ Direct!Bytes(Requests[t]) = [k \in 1 .. Asked(t).len |-> Asked(t).val]
  BY DEF Direct!File, Direct!Bytes, Requests
<1>3. nas' = Direct!Pwrite(nas, Direct!File(Requests[t]), Requests[t].off,
                           Direct!Bytes(Requests[t]), now)
  BY <1>2, SamePwrite
<1>4. Direct!Write(t)
  BY <1>1, <1>3, DirectDone DEF Direct!Write, Requests
<1>5. QED  BY <1>4 DEF Direct!Next

\* A file is cut, by path or by handle.
LEMMA DirectTruncate ==
  ASSUME NEW t \in Threads, Awaits(t, "truncate"), Returned(t),
         NEW i, NEW now \in 0 .. MaxTime,
         i = IF Asked(t).file # NoInode THEN Asked(t).file ELSE nas.dir[Asked(t).path],
         nas' = Ftruncate(nas, i, Asked(t).len, now)
  PROVE  Direct!Next
<1>1. nas' = Direct!Ftruncate(nas, Direct!File(Requests[t]), Requests[t].len, now)
  BY DEF Ftruncate, Direct!Ftruncate, Direct!File, Requests
<1>2. Direct!Truncate(t)
  BY <1>1, DirectDone DEF Direct!Truncate, Requests
<1>3. QED  BY <1>2 DEF Direct!Next

\* A file has its times set.
LEMMA DirectUtime ==
  ASSUME NEW t \in Threads, Awaits(t, "utime"), Returned(t),
         Asked(t).file = NoInode,
         nas' = Utime(nas, nas.dir[Asked(t).path], Asked(t).num)
  PROVE  Direct!Next
<1>1. nas' = Direct!Utime(nas, Direct!File(Requests[t]), Requests[t].num)
  BY DEF Utime, Direct!Utime, Direct!File, Requests
<1>2. Direct!SetTimes(t)
  BY <1>1, DirectDone DEF Direct!SetTimes, Requests
<1>3. QED  BY <1>2 DEF Direct!Next

\* A file is removed.
LEMMA DirectUnlink ==
  ASSUME NEW t \in Threads, Awaits(t, "unlink"), Returned(t),
         nas' = Unlink(nas, Asked(t).path)
  PROVE  Direct!Next
<1>1. nas' = Direct!Unlink(nas, Requests[t].path)
  BY DEF Unlink, Direct!Unlink, Requests
<1>2. Direct!Directory(t)
  BY <1>1, DirectDone DEF Direct!Directory, Requests
<1>3. QED  BY <1>2 DEF Direct!Next

\* A read brings the bytes of the file, as far as it goes or as a truncation
\* under way leaves it.
LEMMA DirectRead ==
  ASSUME NEW t \in Threads, Awaits(t, "read"), Requests' = Requests, nas' = nas,
         WithEffect' = WithEffect \cup {t},
         Answers' = [Answers EXCEPT ![t] = AnswerTo(t)'],
         NEW end,
         \/ end = Len(nas.data[Asked(t).file])
         \/ \E u \in Threads :
              /\ Awaits(u, "truncate") /\ end = Asked(u).len
              /\ Asked(t).file = IF Asked(u).file # NoInode THEN Asked(u).file
                                 ELSE nas.dir[Asked(u).path],
         LET d == nas.data[Asked(t).file]
             n == Smaller(Asked(t).len, Smaller(end, Len(d)) - Asked(t).off)
         IN /\ Len(AnswerTo(t)') >= n
            /\ \A k \in 1 .. n : AnswerTo(t)'[k] = d[Asked(t).off + k]
  PROVE  Direct!Next
<1> DEFINE d == nas.data[Asked(t).file]
           n == Smaller(Asked(t).len, Smaller(end, Len(d)) - Asked(t).off)
<1>1. end \in Direct!EndsOf(Requests[t].file)
  <2>1. CASE end = Len(d)
    BY <2>1 DEF Direct!EndsOf, Requests
  <2>2. CASE end # Len(d)
    <3>1. PICK u \in Threads :
              /\ Awaits(u, "truncate") /\ end = Asked(u).len
              /\ Asked(t).file = IF Asked(u).file # NoInode THEN Asked(u).file
                                 ELSE nas.dir[Asked(u).path]
      BY <2>2
    <3>2. Direct!Asks(u, "truncate") /\ Requests[u] = Asked(u)
          /\ Requests[t] = Asked(t)
      BY <3>1, DirectDone DEF Requests
    <3>3. Direct!File(Requests[u]) = Requests[t].file
      BY <3>1, <3>2 DEF Direct!File
    <3>4. QED
      BY <3>1, <3>2, <3>3 DEF Direct!EndsOf, Requests
  <2>3. QED  BY <2>1, <2>2
<1>2. n = Direct!Smaller(Requests[t].len,
            Direct!Smaller(end, Len(nas.data[Requests[t].file])) - Requests[t].off)
  BY DEF Smaller, Direct!Smaller, Requests
<1>3. /\ Len(Answers'[t]) >= n
      /\ \A k \in 1 .. n : Answers'[t][k] = nas.data[Requests[t].file][Requests[t].off + k]
      /\ Answers' = [Answers EXCEPT ![t] = Answers'[t]]
  BY DEF Answers, Requests
<1> HIDE DEF n
<1>4. Direct!Read(t)
  BY <1>1, <1>2, <1>3, DirectDone
  DEF Direct!Read, Requests, WithEffect, HasEffect, Answers, AnswerTo
<1>5. QED  BY <1>4 DEF Direct!Next

\* A request that has had its effect returns.
LEMMA DirectReturn ==
  ASSUME NEW t \in Threads, HasEffect(t), nas' = nas,
         Requests' = [Requests EXCEPT ![t] = NoReq],
         WithEffect' = WithEffect \ {t}, Answers' = [Answers EXCEPT ![t] = <<>>]
  PROVE  Direct!Next
<1>1. Direct!Return(t)
  BY DEF Direct!Return, Requests, WithEffect, HasEffect, Answers, AnswerTo
<1>2. QED  BY <1>1 DEF Direct!Next

\* Another client writes a byte.
LEMMA DirectOther ==
  ASSUME NEW i \in Inodes, NEW off \in 0 .. MaxSize - 1, NEW v \in Values,
         NEW now \in 0 .. MaxTime, nas' = Pwrite(nas, i, off, <<v>>, now),
         Requests' = Requests, WithEffect' = WithEffect, Answers' = Answers
  PROVE  Direct!Next
<1>1. nas' = Direct!Pwrite(nas, i, off, <<v>>, now)
  BY SamePwrite
<1>2. Direct!Other
  BY <1>1 DEF Direct!Other, Requests, WithEffect, HasEffect, Answers, AnswerTo
<1>3. QED  BY <1>2 DEF Direct!Next
---------------------------------------------------------------------------
(***************************************************************************)
(* What PassThrough sees of a thread: a step of its callback shows it of   *)
(* no other thread, and of its own what was asked until it returns.        *)
(***************************************************************************)
\* A call on a name has no handle.
ByName == \A t \in Threads :
  req[t].op \in {"mknod", "unlink", "utime"} => req[t].h = NoHandle

\* mknod, unlink and utime use no handle.
LEMMA ByNameInductive ==
  /\ Init => ByName
  /\ FileInv /\ PathInv /\ NamesInv /\ ByName /\ [NextAlone]_vars => ByName'
<1>1. ASSUME Init  PROVE ByName
  BY <1>1 DEF Init, ByName, NoReq
<1>2. ASSUME FileInv, PathInv, NamesInv, ByName, [NextAlone]_vars
      PROVE  ByName'
  <2>1. ASSUME NEW t \in Threads, Daemon(t)  PROVE ByName'
    <3>1. Moved(t)
      BY <1>2, <2>1, DaemonMoves DEF FileInv
    <3>2. QED  BY <1>2, <3>1, IdleShape DEF ByName, Moved, Kept
  <2>2. ASSUME NEW t \in Threads, NEW r, Issue(t, r), Asks(r)  PROVE ByName'
    <3>1. req'[t] = r /\ \A u \in Threads \ {t} : req'[u] = req[u]
      BY <1>2, <2>2 DEF Issue, Go, PathInv, PathReqs
    <3>2. r.op \in {"mknod", "unlink", "utime"} => r.h = NoHandle
      BY <2>2 DEF Asks, AsksFor
    <3>3. QED  BY <1>2, <3>1, <3>2 DEF ByName
  <2>3. CASE RemoteLater
    BY <1>2, <2>3, RemoteView DEF ByName
  <2>4. CASE Quiet
    BY <1>2, <2>4, IdleShape DEF Quiet, ByName
  <2>5. QED  BY <1>2, <2>1, <2>2, <2>3, <2>4, AloneCases
<1>3. QED  BY <1>1, <1>2

TransparentInv == AloneInv /\ CoherenceInv /\ ByName

\* The handle of a request that is not to open or close it stays as it is.
LEMMA HandleStays ==
  ASSUME TransparentInv, NEW t \in Threads, Daemon(t), NEW u \in Threads,
         req[u].op \notin {"none", "open", "release"}, req[u].h # NoHandle
  PROVE  fh(u).nas = handles'[req[u].h].nas
<1>1. FileInv /\ PathInv /\ ByName
  BY DEF TransparentInv, AloneInv, SharedInv
<1>2. req[u].op \in {"read", "write", "truncate"}
  BY <1>1 DEF ByName, PathInv, PathReqs, Shape, AtStep
<1>3. req[u].h \in Handles
  BY <1>1, <1>2 DEF FileInv, RequestsInv, HasOpen
<1>4. CASE u = t
  BY <1>1, <1>2, <1>4, HandleView DEF fh
<1>5. CASE u # t
  <2>1. req[t].op \in {"open", "release"} => req[u].h # req[t].h
    BY <1>1, <1>5 DEF FileInv, RequestsInv, OwnsInv
  <2>2. QED  BY <1>1, <1>3, <2>1, HandleView DEF fh
<1>6. QED  BY <1>4, <1>5

\* One thread is seen to do something, at most.
Seen(t) ==
  /\ Requests' = [Requests EXCEPT ![t] = Asked(t)']
  /\ WithEffect' = (WithEffect \ {t}) \cup (IF HasEffect(t)' THEN {t} ELSE {})
  /\ Answers' = [Answers EXCEPT ![t] = AnswerTo(t)']

\* A step of one thread does not show in the requests of the others, ...
LEMMA OthersAsked ==
  ASSUME TransparentInv, NEW t \in Threads, Daemon(t), NEW u \in Threads \ {t}
  PROVE  /\ Asked(u)' = Asked(u) /\ HasEffect(u)' = HasEffect(u)
         /\ AnswerTo(u)' = AnswerTo(u)
<1>1. FileInv /\ PathInv
  BY DEF TransparentInv, AloneInv, SharedInv
<1>2. req'[u] = req[u]
  BY <1>1, DaemonMoves DEF FileInv, Moved
<1>3. Asked(u)' = Asked(u)
  BY <1>2, HandleStays DEF Asked, fh
<1>4. QED  BY <1>2, <1>3 DEF HasEffect, AnswerTo, Pc

\* ... so that it shows in its own request only.
LEMMA OneSeen ==
  ASSUME NEW t \in Threads,
         \A u \in Threads \ {t} : /\ Asked(u)' = Asked(u)
                                  /\ HasEffect(u)' = HasEffect(u)
                                  /\ AnswerTo(u)' = AnswerTo(u)
  PROVE  Seen(t)
<1>1. Requests' = [Requests EXCEPT ![t] = Asked(t)']
  BY DEF Requests
<1>2. Answers' = [Answers EXCEPT ![t] = AnswerTo(t)']
  BY DEF Answers
<1>3. WithEffect' = (WithEffect \ {t}) \cup (IF HasEffect(t)' THEN {t} ELSE {})
  BY DEF WithEffect
<1>4. QED  BY <1>1, <1>2, <1>3 DEF Seen

\* A callback is seen to do what was asked until it returns.
LEMMA StillAsked ==
  ASSUME TransparentInv, NEW t \in Threads, Daemon(t), PathInv'
  PROVE  Asked(t)' = IF req'[t].op = "none" THEN NoReq ELSE Asked(t)
<1>1. FileInv /\ PathInv /\ RowsInv
  BY DEF TransparentInv, AloneInv, SharedInv
<1>2. CASE req'[t].op = "none"
  BY <1>2 DEF Asked
<1>3. CASE req'[t].op # "none"
  <2>1. /\ req'[t].op = req[t].op /\ req'[t].path = req[t].path
        /\ req'[t].h = req[t].h /\ req'[t].off = req[t].off
        /\ req'[t].len = req[t].len /\ req'[t].val = req[t].val
    BY <1>1, <1>3, DaemonMoves, IdleShape DEF FileInv, Moved, Kept
  <2>2. req'[t].new = req[t].new
    BY <1>1 DEF PathInv, PathReqs, Shape
  <2>3. req[t].op = "utime" => req'[t].num = req[t].num
    <3> SUFFICES ASSUME req[t].op = "utime"  PROVE req'[t].num = req[t].num
      OBVIOUS
    <3>1. (MetaStep(t) /\ UNCHANGED cfsVars) \/ utime_cache(t) \/ utime_nas(t)
      BY <1>1, DaemonStep DEF cfs_utime
    <3>2. CASE MetaStep(t) /\ UNCHANGED cfsVars
      BY <3>2 DEF cfsVars
    <3>3. CASE utime_cache(t)
      BY <1>1, <3>3 DEF utime_cache, Go, PathInv, PathReqs, Shape, Fields, NoReq
    <3>4. CASE utime_nas(t)
      <4>1. req'[t] = NoReq
        BY <1>1, <3>4 DEF utime_nas, Return, Go, PathInv, PathReqs
      <4>2. QED  BY <1>3, <4>1, IdleShape
    <3>5. QED  BY <3>1, <3>2, <3>3, <3>4
  <2>4. req[t].h # NoHandle /\ req[t].op \notin {"none", "open", "release"} =>
          fh(t)'.nas = fh(t).nas
    BY <2>1, HandleStays DEF fh
  <2>5. QED  BY <1>3, <2>1, <2>2, <2>3, <2>4 DEF Asked
<1>4. QED  BY <1>2, <1>3

\* A step that changes nothing the kernel sees.
LEMMA Unseen ==
  ASSUME NEW t \in Threads, Seen(t), nas' = nas, Asked(t)' = Asked(t),
         HasEffect(t)' = HasEffect(t), AnswerTo(t)' = AnswerTo(t)
  PROVE  UNCHANGED Direct!ptVars
<1>1. Requests' = Requests /\ Answers' = Answers
  BY DEF Seen, Requests, Answers
<1>2. WithEffect' = WithEffect
  BY DEF Seen, WithEffect
<1>3. QED  BY <1>1, <1>2, DirectNothing

\* A request that has had no effect on the NAS.
Without(t) == ~HasEffect(t) /\ AnswerTo(t) = <<>>

\* A callback returns.
LEMMA SeenReturn ==
  ASSUME NEW t \in Threads, Seen(t), Asked(t)' = NoReq, Without(t), Without(t)'
  PROVE  Returned(t)
<1>1. Answers' = Answers
  BY DEF Seen, Without, Answers
<1>2. WithEffect' = WithEffect
  BY DEF Seen, Without, WithEffect
<1>3. QED  BY <1>1, <1>2 DEF Seen, Returned

\* What a request of one of these calls asks.
LEMMA AskedIs ==
  ASSUME NEW t \in Threads,
         req[t].op \in {"mknod", "read", "write", "truncate", "unlink", "utime"}
  PROVE  LET r == req[t]
             a == Asked(t)
         IN /\ a # NoReq /\ a.op = r.op /\ a.path = r.path
            /\ a.off = r.off /\ a.len = r.len /\ a.val = r.val
            /\ r.op = "utime" => a.num = r.num
            /\ a.file = IF r.h = NoHandle THEN NoInode ELSE fh(t).nas
<1> DEFINE r == req[t]
           a == [op |-> r.op, path |-> r.path, new |-> r.new, off |-> r.off,
                 len |-> r.len, val |-> r.val,
                 num |-> IF r.op = "utime" THEN r.num ELSE 0,
                 file |-> IF r.h = NoHandle THEN NoInode ELSE fh(t).nas]
<1>1. Asked(t) = a
  BY DEF Asked
<1>2. a # NoReq
  <2>1. a.op # NoReq.op
    BY DEF NoReq
  <2>2. QED  BY <2>1
<1>3. QED  BY <1>1, <1>2

\* A thread without a request, or with one that is not asked of the NAS.
LEMMA AskedNothing ==
  ASSUME NEW t \in Threads, req[t].op \in {"none", "open", "release"}
  PROVE  Asked(t) = NoReq
  BY DEF Asked

\* A request by name has an effect when it returns, and not before.
LEMMA NameDirect ==
  ASSUME TransparentInv, PathInv', NEW t \in Threads, Daemon(t), Seen(t),
         req[t].op \in {"mknod", "unlink", "truncate", "utime"}
  PROVE  Direct!Next \/ UNCHANGED Direct!ptVars
<1>1. /\ FileInv /\ PathInv /\ RowsInv /\ UsersInv /\ ByName
      /\ DOMAIN req = Threads /\ DOMAIN req[t] = Fields
  BY DEF TransparentInv, AloneInv, SharedInv, ShareInv, PathInv, PathReqs, Shape
<1>2. AtStep(req[t]) /\ AtStep(req'[t])
  BY <1>1 DEF PathInv, PathReqs, Shape
<1>3. Without(t)
  BY <1>2 DEF Without, HasEffect, AnswerTo, Pc, AtStep
<1>4. ASSUME req'[t].op = req[t].op, nas' = nas
      PROVE  UNCHANGED Direct!ptVars
  <2>1. Without(t)'
    BY <1>2, <1>4 DEF Without, HasEffect, AnswerTo, Pc, AtStep
  <2>2. Asked(t)' = Asked(t)
    BY <1>4, StillAsked
  <2>3. QED  BY <1>3, <1>4, <2>1, <2>2, Unseen DEF Without, HasEffect, Pc
<1>5. ASSUME Return(t)
      PROVE  Returned(t) /\ Awaits(t, req[t].op)
  <2>1. req'[t] = NoReq
    BY <1>1, <1>5 DEF Return, Go
  <2>2. Without(t)'
    BY <2>1 DEF Without, HasEffect, AnswerTo, Pc, NoReq
  <2>3. Asked(t)' = NoReq
    BY <2>1, IdleShape, StillAsked
  <2>4. Awaits(t, req[t].op)
    BY <1>3, AskedIs DEF Awaits, Without
  <2>5. QED  BY <1>3, <2>2, <2>3, <2>4, SeenReturn
<1>6. ASSUME NEW pc, Go(t, [req[t] EXCEPT !.pc = pc])
      PROVE  req'[t].op = req[t].op
  BY <1>1, <1>6 DEF Go, Fields, NoReq
<1>7. CASE MetaStep(t) /\ UNCHANGED cfsVars
  BY <1>4, <1>7 DEF cfsVars
<1>8. CASE cfs_mknod(t)
  <2>1. req[t].op = "mknod"
    BY <1>2, <1>8 DEF cfs_mknod, Pc, AtStep
  <2>2. nas' = Create(nas, Asked(t).path, NasHeld, clock) /\ Return(t)
    BY <1>8, AskedIs DEF cfs_mknod
  <2>3. clock \in 0 .. MaxTime
    BY <1>1 DEF FileInv, DirsInv
  <2>4. QED  BY <1>5, <2>1, <2>2, <2>3, DirectMknod
<1>9. CASE cfs_unlink(t)
  <2>1. CASE unlink_meta(t) \/ unlink_cache(t)
    BY <1>4, <1>6, <2>1 DEF unlink_meta, unlink_cache, NoFile
  <2>2. CASE unlink_nas(t)
    <3>1. req[t].op = "unlink"
      BY <1>2, <2>2 DEF unlink_nas, Pc, AtStep
    <3>2. nas' = Unlink(nas, Asked(t).path) /\ Return(t)
      BY <2>2, AskedIs DEF unlink_nas
    <3>3. QED  BY <1>5, <3>1, <3>2, DirectUnlink
  <2>3. QED  BY <1>9, <2>1, <2>2 DEF cfs_unlink
<1>10. CASE cfs_truncate(t)
  <2>1. CASE trunc_cache(t)
    BY <1>4, <1>6, <2>1 DEF trunc_cache
  <2>2. CASE trunc_nas(t)
    <3>1. req[t].op = "truncate"
      BY <1>2, <2>2 DEF trunc_nas, Pc, AtStep
    <3>2. nas.dir[req[t].path] # NoInode /\ clock \in 0 .. MaxTime
      BY <1>1, <3>1 DEF UsersInv, FileInv, DirsInv
    <3>3. req[t].h # NoHandle =>
            fh(t).nas = nas.dir[req[t].path] /\ fh(t).nas # NoInode
      BY <1>1, <3>1, Descriptors DEF UsesHandle
    <3> DEFINE i == IF req[t].h = NoHandle THEN nas.dir[req[t].path] ELSE fh(t).nas
    <3>4. /\ i = IF Asked(t).file # NoInode THEN Asked(t).file
                 ELSE nas.dir[Asked(t).path]
          /\ i # NoInode /\ Asked(t).len = req[t].len
      BY <3>1, <3>2, <3>3, AskedIs
    <3>5. nas' = Ftruncate(nas, i, Asked(t).len, clock) /\ Return(t)
      BY <2>2, <3>4 DEF trunc_nas
    <3> HIDE DEF i
    <3>6. QED  BY <1>5, <3>1, <3>2, <3>4, <3>5, DirectTruncate
  <2>3. QED  BY <1>10, <2>1, <2>2 DEF cfs_truncate
<1>11. CASE cfs_utime(t)
  <2>1. CASE utime_cache(t)
    BY <1>4, <1>6, <2>1 DEF utime_cache
  <2>2. CASE utime_nas(t)
    <3>1. req[t].op = "utime"
      BY <1>2, <2>2 DEF utime_nas, Pc, AtStep
    <3>2. nas.dir[req[t].path] # NoInode
      BY <1>1, <3>1 DEF UsersInv
    <3>3. /\ Asked(t).file = NoInode /\ Asked(t).path = req[t].path
          /\ Asked(t).num = req[t].num
      BY <1>1, <3>1, AskedIs DEF ByName
    <3>4. nas' = Utime(nas, nas.dir[Asked(t).path], Asked(t).num) /\ Return(t)
      BY <2>2, <3>2, <3>3 DEF utime_nas
    <3>5. QED  BY <1>5, <3>1, <3>3, <3>4, DirectUtime
  <2>3. QED  BY <1>11, <2>1, <2>2 DEF cfs_utime
<1>12. QED
  BY <1>1, <1>7, <1>8, <1>9, <1>10, <1>11, DaemonStep

\* Nobody sees a file opened or released.
LEMMA OpenDirect ==
  ASSUME TransparentInv, PathInv', NEW t \in Threads, Daemon(t), Seen(t),
         req[t].op \in {"open", "release"}
  PROVE  UNCHANGED Direct!ptVars
<1>1. FileInv /\ PathInv /\ RowsInv /\ UsersInv /\ NamesInv
  BY DEF TransparentInv, AloneInv, SharedInv, ShareInv
<1>2. AtStep(req[t]) /\ AtStep(req'[t])
  BY <1>1 DEF PathInv, PathReqs, Shape
<1>3. req'[t].op \in {req[t].op, "none"}
  BY <1>1, DaemonMoves, IdleShape DEF FileInv, Moved, Kept
<1>4. /\ ~HasEffect(t) /\ ~HasEffect(t)' /\ AnswerTo(t) = <<>> /\ AnswerTo(t)' = <<>>
  BY <1>2, <1>3 DEF HasEffect, AnswerTo, Pc, AtStep
<1>5. Asked(t) = NoReq /\ Asked(t)' = NoReq
  BY <1>3 DEF Asked
<1>6. nas' = nas
  BY <1>1, <1>2, NasView
  DEF write_nas, write_nasAs, trunc_nas, utime_nas, Pc, AtStep
<1>7. QED  BY <1>4, <1>5, <1>6, Unseen DEF HasEffect, Pc

\* A write has its effect with the pwrite to the NAS, and returns when its bytes
\* are in the cache too.
LEMMA WriteDirect ==
  ASSUME TransparentInv, PathInv', NEW t \in Threads, Daemon(t), Seen(t),
         req[t].op = "write"
  PROVE  Direct!Next \/ UNCHANGED Direct!ptVars
<1>1. /\ FileInv /\ PathInv /\ RowsInv /\ UsersInv
      /\ DOMAIN req = Threads /\ DOMAIN req[t] = Fields
  BY DEF TransparentInv, AloneInv, SharedInv, ShareInv, PathInv, PathReqs, Shape
<1>2. AtStep(req[t]) /\ AtStep(req'[t])
  BY <1>1 DEF PathInv, PathReqs, Shape
<1>3. AnswerTo(t) = <<>>
  BY <1>2 DEF AnswerTo, Pc, AtStep
<1>4. ASSUME req'[t].op = "write"  PROVE AnswerTo(t)' = <<>> /\ Asked(t)' = Asked(t)
  BY <1>2, <1>4, StillAsked DEF AnswerTo, Pc, AtStep
<1>5. ASSUME req'[t].op = "write", req[t].pc # "write_nas", req'[t].pc # "write_nas",
             nas' = nas
      PROVE  UNCHANGED Direct!ptVars
  <2>1. HasEffect(t) /\ HasEffect(t)'
    BY <1>5 DEF HasEffect, Pc
  <2>2. QED  BY <1>3, <1>4, <1>5, <2>1, Unseen DEF HasEffect, Pc
<1>6. CASE MetaStep(t) /\ UNCHANGED cfsVars
  <2>1. UNCHANGED <<nas, req, handles>>
    BY <1>6 DEF cfsVars
  <2>2. /\ Asked(t)' = Asked(t) /\ HasEffect(t)' = HasEffect(t)
        /\ AnswerTo(t)' = AnswerTo(t)
    BY <2>1 DEF Asked, fh, HasEffect, AnswerTo, Pc
  <2>3. QED  BY <2>1, <2>2, Unseen
<1>7. CASE write_nas(t)
  <2>1. req'[t].op = "write" /\ req'[t].pc = "write_stat" /\ req[t].pc = "write_nas"
    BY <1>1, <1>7 DEF write_nas, write_nasAs, Go, Pc, Fields, NoReq
  <2>2. ~HasEffect(t) /\ HasEffect(t)'
    BY <2>1 DEF HasEffect, Pc
  <2>3. Requests' = Requests /\ Answers' = Answers
    BY <1>3, <1>4, <2>1 DEF Seen, Requests, Answers
  <2>4. WithEffect' = WithEffect \cup {t}
    BY <2>2 DEF Seen, WithEffect
  <2>5. fh(t).nas # NoInode /\ req[t].h # NoHandle
    BY <1>1, Descriptors, CacheFSAssumption DEF UsesHandle
  <2>6. /\ Asked(t).file = fh(t).nas /\ Asked(t).off = req[t].off
        /\ Asked(t).len = req[t].len /\ Asked(t).val = req[t].val
        /\ Awaits(t, "write")
    BY <2>2, <2>5, AskedIs DEF Awaits
  <2>7. req[t].len # 0 /\ clock \in 0 .. MaxTime
    BY <1>1, BlockSize, PageOfBlock
    DEF TransparentInv, CoherenceInv, RequestOK, WriteOK, FileInv, DirsInv
  <2>8. nas' = Pwrite(nas, Asked(t).file, Asked(t).off,
                      [k \in 1 .. Asked(t).len |-> Asked(t).val], clock)
    BY <1>7, <2>6, <2>7 DEF write_nas, write_nasAs
  <2>9. QED  BY <2>3, <2>4, <2>5, <2>6, <2>7, <2>8, DirectWrite
<1>8. CASE write_stat(t)
  <2>1. PICK m : Go(t, [req[t] EXCEPT !.pc = "write_read", !.num = m])
    BY <1>8 DEF write_stat, write_statAs
  <2>2. /\ req'[t].op = "write" /\ req[t].pc = "write_stat"
        /\ req'[t].pc = "write_read" /\ nas' = nas
    BY <1>1, <1>8, <2>1 DEF write_stat, write_statAs, Go, Pc, NoFile, Fields, NoReq
  <2>3. QED  BY <1>5, <2>2
<1>9. CASE write_read(t)
  <2>1. PICK m : Go(t, [req[t] EXCEPT !.buf = m, !.pc = "cache_record"])
    BY <1>9 DEF write_read, write_readAs
  <2>2. /\ req'[t].op = "write" /\ req[t].pc = "write_read"
        /\ req'[t].pc = "cache_record" /\ nas' = nas
    BY <1>1, <1>9, <2>1 DEF write_read, write_readAs, Go, Pc, NoFile, Fields, NoReq
  <2>3. QED  BY <1>5, <2>2
<1>10. CASE cache_wait(t) \/ cache_record(t)
  <2>1. req'[t].op = "write" /\ req[t].pc = "cache_record" /\ nas' = nas
        /\ req'[t].pc # "write_nas"
    BY <1>1, <1>10
    DEF cache_wait, cache_record, Go, Pc, NoFile, Fields, NoReq, vars, cfsVars
  <2>2. QED  BY <1>5, <2>1
<1>11. CASE cache_pwrite(t)
  <2>1. req'[t] = NoReq /\ req[t].pc = "cache_pwrite" /\ nas' = nas
    BY <1>1, <1>11 DEF cache_pwrite, cache_pwriteAs, Return, Go, Pc
  <2>2. HasEffect(t) /\ ~HasEffect(t)' /\ AnswerTo(t)' = <<>>
    BY <2>1 DEF HasEffect, AnswerTo, Pc, NoReq
  <2>3. Asked(t)' = NoReq
    BY <2>1, IdleShape, StillAsked
  <2>4. WithEffect' = WithEffect \ {t}
    BY <2>2 DEF Seen
  <2>5. QED  BY <2>1, <2>2, <2>3, <2>4, DirectReturn DEF Seen
<1>12. QED
  BY <1>1, <1>6, <1>7, <1>8, <1>9, <1>10, <1>11, DaemonStep
  DEF cfs_write, cfs_cacheWrite

\* The end of a file for the reads that are under way.
EndFor(p) ==
  LET cuts == {u \in Threads : req[u].op = "truncate" /\ req[u].path = p}
  IN IF cuts = {} THEN Len(DataOf(nas, p)) ELSE req[CHOOSE u \in cuts : TRUE].len

\* No truncation cuts a byte before it, and it is one of those PassThrough allows.
LEMMA EndsThere ==
  ASSUME TransparentInv, NEW p \in Paths, nas.dir[p] # NoInode
  PROVE  LET end == EndFor(p)
         IN /\ end \in Nat /\ \A k \in Int : k <= end => ~Cut(req, p, k)
            /\ \/ end = Len(DataOf(nas, p))
               \/ \E u \in Threads :
                    /\ Awaits(u, "truncate") /\ end = Asked(u).len
                    /\ nas.dir[p] = IF Asked(u).file # NoInode THEN Asked(u).file
                                    ELSE nas.dir[Asked(u).path]
<1>1. FileInv /\ PathInv /\ UsersInv /\ ApartInv
  BY DEF TransparentInv, AloneInv, SharedInv, ShareInv
<1> DEFINE cuts == {u \in Threads : req[u].op = "truncate" /\ req[u].path = p}
<1>2. CASE cuts = {}
  <2>1. EndFor(p) = Len(DataOf(nas, p)) /\ \A k : ~Cut(req, p, k)
    BY <1>2 DEF EndFor, Cut
  <2>2. Len(DataOf(nas, p)) \in Nat
    BY <1>1, FileBytes
  <2>3. QED  BY <2>1, <2>2
<1>3. CASE cuts # {}
  <2>1. PICK u \in cuts : EndFor(p) = req[u].len
    BY <1>3 DEF EndFor
  <2>2. u \in Threads /\ req[u].op = "truncate" /\ req[u].path = p
    BY <2>1
  <2>3. \A v \in Threads : req[v].op = "truncate" /\ req[v].path = p => v = u
    BY <1>1, <2>2 DEF ApartInv, Apart
  <2>4. req[u].len \in Nat
    BY <1>1 DEF FileInv, RequestsInv, Typed, LocalTypes
  <2>5. \A k \in Int : k <= req[u].len => ~Cut(req, p, k)
    BY <2>3, <2>4 DEF Cut
  <2>6. ~HasEffect(u)
    BY <1>1, <2>2 DEF HasEffect, Pc, PathInv, PathReqs, Shape, AtStep
  <2>7. Awaits(u, "truncate") /\ Asked(u).len = req[u].len
    BY <2>2, <2>6, AskedIs DEF Awaits
  <2>8. nas.dir[p] = IF Asked(u).file # NoInode THEN Asked(u).file
                     ELSE nas.dir[Asked(u).path]
    <3>1. CASE req[u].h = NoHandle
      BY <2>2, <3>1, AskedIs
    <3>2. CASE req[u].h # NoHandle
      <4>1. fh(u).nas = nas.dir[p]
        BY <1>1, <2>2, <3>2, Descriptors DEF UsesHandle
      <4>2. QED  BY <2>2, <3>2, <4>1, AskedIs
    <3>3. QED  BY <3>1, <3>2
  <2>9. QED  BY <2>1, <2>2, <2>4, <2>5, <2>7, <2>8
<1>4. QED  BY <1>2, <1>3

\* What a finished read r returns of the bytes d, up to end.
LEMMA BytesRead ==
  ASSUME NEW r, NEW d \in Seq(NasBytes), NEW q, NEW end \in Nat,
         r.off \in Nat, r.len \in Nat, r.buf \in Seq(ByteSet), Len(r.buf) = r.len,
         Fetched(r, d, q), \A k \in Int : k <= end => ~Cut(q, r.path, k)
  PROVE  LET n == Smaller(r.len, Smaller(end, Len(d)) - r.off)
             s == SubSeq(r.buf, 1, Smaller(r.len, r.count))
         IN Len(s) >= n /\ \A k \in 1 .. n : s[k] = d[r.off + k]
<1> DEFINE n == Smaller(r.len, Smaller(end, Len(d)) - r.off)
           m == Smaller(r.len, r.count)
           s == SubSeq(r.buf, 1, m)
<1>1. Len(d) \in Nat /\ r.count \in Nat
  BY LenProperties DEF Fetched
<1>2. /\ n \in Int /\ n <= r.len /\ r.off + n <= Len(d) /\ r.off + n <= end
      /\ m \in Nat /\ m <= r.len
      /\ \A k \in Int : k <= r.len /\ k <= r.count => k <= m
  BY <1>1 DEF Smaller
<1> HIDE DEF n, m
<1>3. ASSUME NEW k \in 1 .. n
      PROVE  r.buf[k] = d[r.off + k] /\ k <= m
  <2>1. /\ r.off + k \in r.off + 1 .. r.off + Len(r.buf) /\ (r.off + k) - r.off = k
        /\ r.off + k \in 1 .. Len(d) /\ r.off + k <= end /\ r.off + k \in Int
    BY <1>1, <1>2
  <2>2. Stable(d, q, r.path, r.off + k)
    BY <2>1 DEF Stable
  <2>3. r.buf[k] = d[r.off + k] /\ k <= r.count
    BY <2>1, <2>2 DEF Fetched
  <2>4. QED  BY <1>1, <1>2, <2>3
<1>4. n <= m
  <2>1. CASE n <= 0
    BY <1>2, <2>1
  <2>2. CASE n > 0
    BY <1>2, <1>3, <2>2
  <2>3. QED  BY <1>2, <2>1, <2>2
<1>5. Len(s) = m /\ \A k \in 1 .. m : s[k] = r.buf[k]
  <2>1. \A k \in 1 .. m : r.buf[k] \in ByteSet
    BY <1>2, ElementOfSeq
  <2>2. /\ Len(s) = IF 1 <= m THEN m - 1 + 1 ELSE 0
        /\ \A k \in 1 .. m - 1 + 1 : s[k] = r.buf[1 + k - 1]
    BY <1>2, <2>1, SubSeqProperties
  <2>3. QED  BY <1>2, <2>2
<1>6. Len(s) >= n /\ \A k \in 1 .. n : s[k] = d[r.off + k]
  <2> HIDE DEF s
  <2>1. Len(s) >= n
    BY <1>2, <1>4, <1>5
  <2>2. ASSUME NEW k \in 1 .. n  PROVE s[k] = d[r.off + k]
    <3>1. k \in 1 .. m
      BY <1>2, <1>3, <2>2
    <3>2. QED  BY <1>3, <1>5, <3>1
  <2>3. QED  BY <2>1, <2>2
<1>7. QED  BY <1>6 DEF n, m

\* A read goes on until it is done.
LEMMA ReadGoesOn ==
  ASSUME TransparentInv, NEW t \in Threads, Daemon(t), req[t].op = "read"
  PROVE  /\ nas' = nas
         /\ req[t].pc = "read_done" => req'[t] = NoReq \/ req'[t] = req[t]
         /\ req[t].pc # "read_done" => req'[t].op = "read"
<1>1. /\ FileInv /\ PathInv /\ RowsInv /\ UsersInv /\ NamesInv
      /\ DOMAIN req = Threads /\ DOMAIN req[t] = Fields
  BY DEF TransparentInv, AloneInv, SharedInv, ShareInv, PathInv, PathReqs, Shape
<1>2. AtStep(req[t])
  BY <1>1 DEF PathInv, PathReqs, Shape
<1>3. nas' = nas
  BY <1>1, <1>2, NasView
  DEF write_nas, write_nasAs, trunc_nas, utime_nas, Pc, AtStep
<1>4. CASE MetaStep(t) /\ UNCHANGED cfsVars
  BY <1>3, <1>4 DEF cfsVars
<1>5. CASE read_check(t)
  <2>1. PICK hits, todo, pc :
          Go(t, [req[t] EXCEPT !.hits = hits, !.todo = todo, !.pc = pc])
    BY <1>5 DEF read_check, read_checkAs
  <2>2. QED
    BY <1>1, <1>3, <1>5, <2>1 DEF read_check, read_checkAs, Pc, Go, Fields, NoReq
<1>6. CASE read_all(t)
  <2>1. PICK buf, count : Go(t, [req[t] EXCEPT !.buf = buf, !.count = count,
                                   !.todo = {}, !.pc = "read_done"])
    BY <1>6 DEF read_all, read_allAs
  <2>2. QED
    BY <1>1, <1>3, <1>6, <2>1 DEF read_all, read_allAs, Pc, Go, Fields, NoReq
<1>7. CASE read_block(t)
  <2>1. PICK bytes, n : read_blockAs(t, bytes, n)
    BY <1>7 DEF read_block
  <2> DEFINE r == [req[t] EXCEPT !.buf = @ \o Padded(bytes, BS), !.count = @ + n]
             q == [r EXCEPT !.pc = "cache_record"]
  <2>2. /\ req[t].pc = "read_block"
        /\ Go(t, IF BlockInHand(t) \in req[t].hits THEN NextReadBlock(t, r) ELSE q)
    BY <2>1 DEF read_blockAs, Pc
  <2>3. DOMAIN r = Fields /\ r.op = "read" /\ q.op = "read"
    BY <1>1 DEF Fields, NoReq
  <2> HIDE DEF r, q
  <2>4. NextReadBlock(t, r).op = "read"
    BY <2>3 DEF NextReadBlock, Fields, NoReq
  <2>5. req'[t].op = "read"
    BY <1>1, <2>2, <2>3, <2>4 DEF Go
  <2>6. QED  BY <1>3, <2>2, <2>5
<1>8. CASE read_done(t)
  BY <1>1, <1>3, <1>8 DEF read_done, Return, Go, Pc
<1>9. CASE cache_wait(t) \/ cache_record(t)
  BY <1>1, <1>3, <1>9
  DEF cache_wait, cache_record, Go, Pc, NoFile, Fields, NoReq, vars, cfsVars
<1>10. CASE cache_pwrite(t)
  <2>1. NextReadBlock(t, req[t]).op = "read"
    BY <1>1 DEF NextReadBlock, Fields, NoReq
  <2>2. QED
    BY <1>1, <1>3, <1>10, <2>1 DEF cache_pwrite, cache_pwriteAs, Go, Pc
<1>11. QED
  BY <1>1, <1>4, <1>5, <1>6, <1>7, <1>8, <1>9, <1>10, DaemonStep
  DEF cfs_read, cfs_cacheWrite

\* A read has its effect with the step that completes its buffer.
LEMMA ReadDirect ==
  ASSUME TransparentInv, TransparentInv', NEW t \in Threads, Daemon(t), Seen(t),
         req[t].op = "read"
  PROVE  Direct!Next \/ UNCHANGED Direct!ptVars
<1>1. /\ FileInv /\ PathInv /\ UsersInv /\ FileInv' /\ PathInv'
      /\ CoherenceInv' /\ DOMAIN req = Threads
  BY DEF TransparentInv, AloneInv, SharedInv, ShareInv, PathInv, PathReqs
<1>2. AtStep(req[t]) /\ AtStep(req'[t])
  BY <1>1 DEF PathInv, PathReqs, Shape
<1>3. nas' = nas
  BY ReadGoesOn
<1>4. CASE req'[t] = req[t]
  <2>1. HasEffect(t)' = HasEffect(t) /\ AnswerTo(t)' = AnswerTo(t)
    BY <1>4 DEF HasEffect, AnswerTo, Pc
  <2>2. Asked(t)' = Asked(t)
    BY <1>1, <1>4, StillAsked
  <2>3. QED  BY <1>3, <2>1, <2>2, Unseen
<1>5. CASE req'[t] = NoReq
  <2>1. HasEffect(t) /\ ~HasEffect(t)' /\ AnswerTo(t)' = <<>>
    BY <1>5, ReadGoesOn DEF HasEffect, AnswerTo, Pc, NoReq
  <2>2. Asked(t)' = NoReq
    BY <1>1, <1>5, IdleShape, StillAsked
  <2>3. WithEffect' = WithEffect \ {t}
    BY <2>1 DEF Seen
  <2>4. QED  BY <1>3, <2>1, <2>2, <2>3, DirectReturn DEF Seen
<1>6. CASE req'[t].op = "read" /\ req[t].pc # "read_done"
  <2>1. Without(t) /\ Asked(t)' = Asked(t)
    BY <1>1, <1>2, <1>6, StillAsked DEF Without, HasEffect, AnswerTo, Pc
  <2>2. CASE req'[t].pc # "read_done"
    <3>1. Without(t)'
      BY <1>6, <2>2 DEF Without, HasEffect, AnswerTo, Pc
    <3>2. QED  BY <1>3, <2>1, <3>1, Unseen DEF Without, HasEffect, Pc
  <2>3. CASE req'[t].pc = "read_done"
    <3> DEFINE r == req'[t]
               p == req[t].path
               d == DataOf(nas, p)
    <3>1. /\ p \in Paths /\ nas.dir[p] # NoInode /\ nas.dir[p] = fh(t).nas
          /\ req[t].h # NoHandle /\ fh(t).nas # NoInode
      BY <1>1, Descriptors, CacheFSAssumption DEF UsesHandle
    <3>2. /\ Asked(t).file = nas.dir[p] /\ d = nas.data[Asked(t).file]
          /\ Asked(t).off = req[t].off /\ Asked(t).len = req[t].len
          /\ Awaits(t, "read")
      BY <2>1, <3>1, AskedIs DEF Awaits, Without, DataOf
    <3>3. r.path = p /\ r.off = req[t].off /\ r.len = req[t].len
      BY <1>1, <1>6, DaemonMoves, IdleShape DEF FileInv, Moved, Kept
    <3>4. ReadOK(r, d, req', blocks')
      BY <1>1, <1>3, <3>3 DEF CoherenceInv, RequestOK, DataOf
    <3>5. Fetched(r, d, req') /\ Len(r.buf) = r.len
      BY <1>6, <2>3, <3>4 DEF ReadOK, Progress
    <3>6. r.off \in Nat /\ r.len \in Nat /\ r.buf \in Seq(ByteSet)
      BY <1>1 DEF FileInv, RequestsInv, Typed, LocalTypes
    <3>7. d \in Seq(NasBytes)
      BY <1>1, <3>1, FileBytes
    <3> DEFINE end == EndFor(p)
    <3>8. /\ end \in Nat
          /\ \/ end = Len(d)
             \/ \E u \in Threads :
                  /\ Awaits(u, "truncate") /\ end = Asked(u).len
                  /\ nas.dir[p] = IF Asked(u).file # NoInode THEN Asked(u).file
                                  ELSE nas.dir[Asked(u).path]
          /\ \A k \in Int : k <= end => ~Cut(req, p, k)
      BY <3>1, EndsThere
    <3>9. \A k \in Int : k <= end => ~Cut(req', r.path, k)
      <4>1. \A u \in Threads : req'[u].op = "truncate" => req'[u] = req[u]
        BY <1>1, <1>6, DaemonMoves DEF FileInv, Moved
      <4>2. QED  BY <3>3, <3>8, <4>1 DEF Cut
    <3>10. AnswerTo(t)' = SubSeq(r.buf, 1, Smaller(r.len, r.count))
      BY <2>3 DEF AnswerTo, Pc
    <3> HIDE DEF r, d, end
    <3>11. LET n == Smaller(Asked(t).len, Smaller(end, Len(d)) - Asked(t).off)
           IN /\ Len(AnswerTo(t)') >= n
              /\ \A k \in 1 .. n : AnswerTo(t)'[k] = d[Asked(t).off + k]
      <4>1. LET n == Smaller(r.len, Smaller(end, Len(d)) - r.off)
                s == SubSeq(r.buf, 1, Smaller(r.len, r.count))
            IN Len(s) >= n /\ \A k \in 1 .. n : s[k] = d[r.off + k]
        BY <3>5, <3>6, <3>7, <3>8, <3>9, BytesRead
      <4>2. Asked(t).len = r.len /\ Asked(t).off = r.off
        BY <3>2, <3>3
      <4>3. QED  BY <4>1, <4>2, <3>10
    <3>12. Requests' = Requests
      BY <2>1 DEF Seen, Requests
    <3>13. WithEffect' = WithEffect \cup {t}
      <4>1. HasEffect(t)'
        BY <2>3 DEF HasEffect, Pc
      <4>2. QED  BY <4>1 DEF Seen, WithEffect
    <3>14. Answers' = [Answers EXCEPT ![t] = AnswerTo(t)']
      BY DEF Seen
    <3>15. \/ end = Len(nas.data[Asked(t).file])
           \/ \E u \in Threads :
                /\ Awaits(u, "truncate") /\ end = Asked(u).len
                /\ Asked(t).file = IF Asked(u).file # NoInode THEN Asked(u).file
                                   ELSE nas.dir[Asked(u).path]
      BY <3>2, <3>8
    <3>16. LET e == nas.data[Asked(t).file]
               n == Smaller(Asked(t).len, Smaller(end, Len(e)) - Asked(t).off)
           IN /\ Len(AnswerTo(t)') >= n
              /\ \A k \in 1 .. n : AnswerTo(t)'[k] = e[Asked(t).off + k]
      BY <3>2, <3>11
    <3>17. QED
      BY <1>3, <3>2, <3>12, <3>13, <3>14, <3>15, <3>16, DirectRead
  <2>4. QED  BY <2>2, <2>3
<1>7. QED  BY <1>4, <1>5, <1>6, ReadGoesOn

---------------------------------------------------------------------------
(***************************************************************************)
(* Every step of SpecAlone is one of PassThrough, or none.                 *)
(***************************************************************************)
LEMMA DaemonDirect ==
  ASSUME TransparentInv, TransparentInv', NEW t \in Threads, Daemon(t)
  PROVE  Direct!Next \/ UNCHANGED Direct!ptVars
<1>1. Seen(t)
  BY OthersAsked, OneSeen
<1>2. PathInv /\ PathInv' /\ RowsInv
  BY DEF TransparentInv, AloneInv, SharedInv
<1>3. req[t].op \in {"mknod", "open", "read", "write", "unlink", "truncate",
                     "utime", "release"}
  BY <1>2, DaemonStep DEF PathInv, PathReqs, Shape, AtStep
<1>4. QED  BY <1>1, <1>2, <1>3, NameDirect, OpenDirect, WriteDirect, ReadDirect

\* The kernel asks.
LEMMA IssueDirect ==
  ASSUME TransparentInv, NEW t \in Threads, NEW r, Issue(t, r), Asks(r)
  PROVE  Direct!Next \/ UNCHANGED Direct!ptVars
<1>1. /\ req'[t] = r /\ \A u \in Threads \ {t} : req'[u] = req[u]
      /\ UNCHANGED <<nas, handles>>
  BY DEF TransparentInv, AloneInv, SharedInv, PathInv, PathReqs, Issue, Go, NoFile
<1>2. Seen(t)
  <2>1. ASSUME NEW u \in Threads \ {t}
        PROVE  /\ Asked(u)' = Asked(u) /\ HasEffect(u)' = HasEffect(u)
               /\ AnswerTo(u)' = AnswerTo(u)
    BY <1>1 DEF Asked, fh, HasEffect, AnswerTo, Pc
  <2>2. QED  BY <2>1, OneSeen
<1>3. req[t].op = "none" /\ req[t].pc = "idle"
  BY DEF Issue, Pc, TransparentInv, AloneInv, SharedInv, PathInv, PathReqs, Shape,
         AtStep
<1>4. Asked(t) = NoReq /\ Without(t)
  BY <1>3 DEF Asked, Without, HasEffect, AnswerTo, Pc
<1>5. AtStart(r)
  BY DEF Asks, AsksFor
<1>6. Without(t)'
  BY <1>1, <1>5 DEF Without, HasEffect, AnswerTo, Pc, AtStart
<1>7. CASE r.op \in {"open", "release"}
  <2>1. Asked(t)' = NoReq
    BY <1>1, <1>7 DEF Asked
  <2>2. QED  BY <1>1, <1>2, <1>4, <1>6, <2>1, Unseen DEF Without, HasEffect, Pc
<1>8. CASE r.op \notin {"open", "release"}
  <2>1. Asked(t)' # NoReq
    <3>1. Asked(t)'.op = r.op
      BY <1>1, <1>5, <1>8 DEF Asked, AtStart
    <3>2. r.op # NoReq.op
      BY <1>5 DEF AtStart, NoReq
    <3>3. QED  BY <3>1, <3>2
  <2>2. WithEffect' = WithEffect /\ Answers' = Answers
    BY <1>2, <1>4, <1>6 DEF Seen, Without, WithEffect, Answers
  <2>3. QED  BY <1>1, <1>2, <1>4, <2>1, <2>2, DirectAsk DEF Seen
<1>9. QED  BY <1>7, <1>8

\* Another client writes.
LEMMA RemoteDirect ==
  ASSUME TransparentInv, RemoteLater
  PROVE  Direct!Next
<1>1. PICK p \in Paths : RemoteAny(p)
  BY DEF RemoteLater
<1>2. PICK off \in 0 .. MaxSize - 1, v \in Values :
        nas.dir[p] # NoInode /\ RemoteWrite(p, off, v, clock)
  BY <1>1 DEF RemoteAny
<1>3. nas.dir[p] \in Inodes /\ clock \in 0 .. MaxTime
  BY <1>2 DEF TransparentInv, AloneInv, SharedInv, FileInv, DirsInv, FileSystem
<1>4. /\ nas' = Pwrite(nas, nas.dir[p], off, <<v>>, clock)
      /\ UNCHANGED <<req, handles>>
  BY <1>2 DEF RemoteWrite
<1>5. Requests' = Requests /\ WithEffect' = WithEffect /\ Answers' = Answers
  BY <1>4 DEF Requests, Asked, fh, WithEffect, HasEffect, Answers, AnswerTo, Pc
<1>6. QED  BY <1>3, <1>4, <1>5, DirectOther

\* Nothing is seen when nothing happens.
LEMMA QuietDirect ==
  ASSUME TransparentInv, Quiet
  PROVE  UNCHANGED Direct!ptVars
<1>1. UNCHANGED <<nas, handles>>
  BY DEF Quiet
<1>2. ASSUME NEW t \in Threads
      PROVE  /\ Asked(t)' = Asked(t) /\ HasEffect(t)' = HasEffect(t)
             /\ AnswerTo(t)' = AnswerTo(t)
  <2>1. CASE req'[t] = req[t]
    BY <1>1, <2>1 DEF Asked, fh, HasEffect, AnswerTo, Pc
  <2>2. CASE req'[t] = NoReq /\ req[t].op = "none"
    <3>1. req[t].pc = "idle"
      BY <2>2 DEF TransparentInv, AloneInv, SharedInv, PathInv, PathReqs, Shape,
                  AtStep
    <3>2. NoReq.op = "none" /\ NoReq.pc = "idle"
      BY DEF NoReq
    <3>3. QED  BY <2>2, <3>1, <3>2 DEF Asked, HasEffect, AnswerTo, Pc
  <2>3. QED  BY <2>1, <2>2 DEF Quiet
<1>3. Requests' = Requests /\ WithEffect' = WithEffect /\ Answers' = Answers
  BY <1>2 DEF Requests, WithEffect, Answers
<1>4. QED  BY <1>1, <1>3, DirectNothing

\* The step of PassThrough for each step of SpecAlone.
LEMMA StepDirect ==
  ASSUME TransparentInv, TransparentInv', [NextAlone]_vars
  PROVE  [Direct!Next]_(Direct!ptVars)
<1>1. FileInv /\ PathInv
  BY DEF TransparentInv, AloneInv, SharedInv
<1>2. CASE \E t \in Threads : Daemon(t)
  BY <1>2, DaemonDirect
<1>3. CASE \E t \in Threads : \E r : Issue(t, r) /\ Asks(r)
  BY <1>3, IssueDirect
<1>4. CASE RemoteLater
  BY <1>4, RemoteDirect
<1>5. CASE Quiet
  BY <1>5, QuietDirect
<1>6. QED  BY <1>1, <1>2, <1>3, <1>4, <1>5, AloneCases

\* PassThrough starts where SpecAlone does.
LEMMA InitDirect == Init => Direct!Init
<1> SUFFICES ASSUME Init  PROVE Direct!Init
  OBVIOUS
<1>1. \A t \in Threads : req[t] = NoReq
  BY DEF Init
<1>2. NoReq.op = "none" /\ NoReq.pc = "idle"
  BY DEF NoReq
<1>3. \A t \in Threads : /\ Asked(t) = NoReq /\ ~HasEffect(t)
                         /\ AnswerTo(t) = <<>>
  BY <1>1, <1>2 DEF Asked, HasEffect, AnswerTo, Pc
<1>4. /\ Requests = [t \in Threads |-> NoReq] /\ WithEffect = {}
      /\ Answers = [t \in Threads |-> <<>>]
  BY <1>3 DEF Requests, WithEffect, Answers
<1>5. nas = Direct!EmptyFS(Paths)
  BY DEF Init, EmptyFS, Direct!EmptyFS
<1>6. QED
  BY <1>4, <1>5
  DEF Direct!Init, Requests, WithEffect, HasEffect, Answers, AnswerTo

\* The cache does not show ("any calls except straight-forward reads are
\* synchronously forwarded to the NAS", README.md:13): for a program that has its
\* files for itself every call takes effect on the NAS once, between its start
\* and its return, and every read brings the bytes of the file at one moment, as
\* if the NAS had been mounted without the cache.
THEOREM CacheDoesNotShow ==
  ASSUME NoCollision, NoStraddle, SizesFit
  PROVE  SpecAlone => Transparent
<1>1. SpecAlone => []AloneInv /\ []CoherenceInv
  BY AloneAll
<1>2. Init => ByName
  BY ByNameInductive
<1>3. AloneInv /\ ByName /\ [NextAlone]_vars => ByName'
  BY ByNameInductive DEF AloneInv, SharedInv, ShareInv
<1>4. SpecAlone => []ByName
  BY <1>1, <1>2, <1>3, PTL DEF SpecAlone
<1>5. AloneInv /\ CoherenceInv /\ ByName <=> TransparentInv
  BY DEF TransparentInv
<1>6. SpecAlone => []TransparentInv
  BY <1>1, <1>4, <1>5, PTL
<1>7. Init => Direct!Init
  BY InitDirect
<1>8. TransparentInv /\ TransparentInv' /\ [NextAlone]_vars
        => [Direct!Next]_(Direct!ptVars)
  BY StepDirect
<1>9. SpecAlone => Direct!Init /\ [][Direct!Next]_(Direct!ptVars)
  BY <1>6, <1>7, <1>8, PTL DEF SpecAlone
<1>10. QED  BY <1>9 DEF Transparent, Direct!Spec

\* So for one whose threads read, append and truncate at the same time.
THEOREM SharedDoesNotShow ==
  ASSUME NoCollision, NoStraddle, SizesFit
  PROVE  SpecShared => Transparent
<1>1. [NextShared]_vars => [NextAlone]_vars
  BY DEF NextShared, NextAlone
<1>2. SpecShared => SpecAlone
  BY <1>1, PTL DEF SpecShared, SpecAlone
<1>3. SpecAlone => Transparent
  BY CacheDoesNotShow
<1>4. QED  BY <1>2, <1>3, PTL
=============================================================================
