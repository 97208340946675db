---------------------------- MODULE MetaProofs ----------------------------
(***************************************************************************)
(* Theorems about the metadata store, for any number of threads, files and *)
(* blocks.                                                                 *)
(***************************************************************************)
EXTENDS Meta, FiniteSetTheorems, TLAPS

\* The counter is a size_t whatever is added to or taken from it.
LEMMA WrapType == \A n \in Int : Wrap(n) \in 0 .. SizeMod - 1
  BY MetaAssumption, SMT DEF Wrap

\* The names of the calls and of their statements, one by one: leaves below
\* then treat Ops and Steps as opaque sets.
LEMMA StatementNames ==
  /\ {"none", "write_blks", "insert_blocks", "delete_file", "delete_blocks"} = Ops
  /\ "idle" \in Steps /\ "check" \in Steps /\ "insert" \in Steps
  /\ "select" \in Steps /\ "unrow" \in Steps /\ "local" \in Steps
  /\ "load" \in Steps /\ "store" \in Steps /\ "again" \in Steps
  /\ "delete" \in Steps
  BY DEF Ops, Steps

\* Calls start with frames, and a thread outside meta.c has one too.
LEMMA FreshType ==
  ASSUME NEW o \in Ops, NEW s \in Steps, NEW f \in Names \cup {NoName},
         NEW B \in SUBSET Blocks
  PROVE  Fresh(o, s, f, B) \in Frame
  BY DEF Fresh, Frame

\* The frame of a thread outside meta.c is a frame.
LEMMA NoCallType == NoCall \in Frame
  BY FreshType, StatementNames DEF NoCall

\* Changing fields of a frame to values of their types gives a frame.
LEMMA FrameStep ==
  ASSUME NEW c \in Frame, NEW s \in Steps
  PROVE  [c EXCEPT !.step = s] \in Frame
  BY DEF Frame

\* So does changing the blocks still to handle ...
LEMMA FrameTodo ==
  ASSUME NEW c \in Frame, NEW B \in SUBSET Blocks
  PROVE  [c EXCEPT !.todo = B] \in Frame
  BY DEF Frame

\* ... and the blocks write_blks found missing with them.
LEMMA FrameMiss ==
  ASSUME NEW c \in Frame, NEW B \in SUBSET Blocks, NEW M \in SUBSET Blocks
  PROVE  [c EXCEPT !.todo = B, !.miss = M] \in Frame
  BY DEF Frame

\* Going on to the next block, or returning, gives a frame.
LEMMA NextBlockType ==
  ASSUME NEW c \in Frame
  PROVE  NextBlock(c) \in Frame
<1> DEFINE s == IF c.op = "delete_blocks" THEN "unrow" ELSE "insert"
           z == 0
<1>1. s \in Steps /\ z \in Int /\ z \in Nat
  BY StatementNames
<1>2. [c EXCEPT !.step = s, !.amt = z, !.reg = z] \in Frame
  <2> HIDE DEF s, z
  <2> QED  BY <1>1 DEF Frame
<1>3. QED
  BY <1>2, NoCallType DEF NextBlock

---------------------------------------------------------------------------
(***************************************************************************)
(* Types.  SelectSize reads the local_size of the file of its frame, so    *)
(* TypeOK is inductive only together with: a thread inside a call has one. *)
(***************************************************************************)
TypeInv ==
  /\ TypeOK
  /\ \A t \in Threads : ~Idle(t) => call[t].name \in Names

\* Starting a call with a fresh frame keeps the types.
LEMMA EnterType ==
  ASSUME TypeInv, NEW t \in Threads,
         NEW o \in Ops, NEW s \in Steps, NEW f \in Names,
         NEW B \in SUBSET Blocks, Enter(t, Fresh(o, s, f, B))
  PROVE  TypeInv'
<1>1. Fresh(o, s, f, B) \in Frame /\ Fresh(o, s, f, B).name = f
  BY FreshType DEF Fresh
<1>2. QED
  BY <1>1 DEF TypeInv, TypeOK, Enter, Idle, At

\* Every call of the API of meta.h keeps the types.
LEMMA CallTypes ==
  ASSUME TypeInv, NEW t \in Threads, APICall(t)
  PROVE  TypeInv'
<1>1. ASSUME NEW f \in Names, create_file(t, f)
      PROVE  TypeInv'
  BY <1>1 DEF TypeInv, TypeOK, create_file, Idle, At
<1>2. ASSUME NEW f \in Names, delete_file(t, f)
      PROVE  TypeInv'
  BY <1>2, EnterType, StatementNames DEF delete_file
<1>3. ASSUME NEW f \in Names, NEW B \in SUBSET Blocks, write_blks(t, f, B)
      PROVE  TypeInv'
  BY <1>3, EnterType, StatementNames DEF write_blks
<1>4. ASSUME NEW f \in Names, NEW B \in SUBSET Blocks, insert_blocks(t, f, B)
      PROVE  TypeInv'
  BY <1>4, EnterType, StatementNames DEF insert_blocks
<1>5. ASSUME NEW f \in Names, NEW B \in SUBSET Blocks, delete_blocks(t, f, B)
      PROVE  TypeInv'
  BY <1>5, EnterType, StatementNames DEF delete_blocks
<1>6. QED
  BY <1>1, <1>2, <1>3, <1>4, <1>5 DEF APICall, FSCall, WriterCall

\* A statement of thread t replaces the frame of t by one for the same file,
\* or by NoCall: then the frames stay as TypeInv says.
LEMMA StepFrame ==
  ASSUME TypeInv, NEW t \in Threads, NEW c \in Frame,
         c = NoCall \/ c.name = call[t].name, ~Idle(t),
         call' = [call EXCEPT ![t] = c]
  PROVE  /\ call' \in [Threads -> Frame]
         /\ \A u \in Threads : ~Idle(u)' => call'[u].name \in Names
<1>1. NoCall.step = "idle"
  BY DEF NoCall, Fresh
<1>2. QED
  BY <1>1 DEF TypeInv, TypeOK, Idle, At

\* A loop over blocks keeps its file until it returns.
LEMMA NextBlockName ==
  ASSUME NEW c \in Frame
  PROVE  NextBlock(c) = NoCall \/ NextBlock(c).name = c.name
  BY DEF NextBlock, Frame

\* Every statement keeps the types.
LEMMA StepTypes ==
  ASSUME TypeInv, NEW t \in Threads, MetaStep(t)
  PROVE  TypeInv'
<1> DEFINE c == call[t]
<1>a. c \in Frame
  BY DEF TypeInv, TypeOK
<1>b. ~Idle(t) /\ c.name \in Names
  BY DEF TypeInv, MetaStep, is_blk_in_cache, InsertRow, DeleteBlockRow,
         UpdateLocalSize, SelectSize, LoadUsed, StoreUsed, SelectAgain,
         DeleteFileRow, Idle, At
<1>1. CASE is_blk_in_cache(t)
  <2>1. PICK b \in c.todo :
          LET rest == c.todo \ {b}
              miss == IF <<c.name, b>> \in blocks THEN c.miss
                                                  ELSE c.miss \cup {b}
          IN call' = [call EXCEPT ![t] =
                        IF rest # {}
                        THEN [c EXCEPT !.todo = rest, !.miss = miss]
                        ELSE NextBlock([c EXCEPT !.todo = miss, !.miss = {}])]
    BY <1>1 DEF is_blk_in_cache
  <2> DEFINE rest == c.todo \ {b}
             miss == IF <<c.name, b>> \in blocks THEN c.miss
                                                 ELSE c.miss \cup {b}
             d == [c EXCEPT !.todo = rest, !.miss = miss]
             e == [c EXCEPT !.todo = miss, !.miss = {}]
  <2>2. rest \in SUBSET Blocks /\ miss \in SUBSET Blocks
    BY <1>a, <2>1 DEF Frame
  <2>3. d \in Frame /\ d.name = c.name
    <3> HIDE DEF rest, miss, c
    <3> QED  BY <1>a, <2>2, FrameMiss DEF Frame
  <2>4. e \in Frame /\ e.name = c.name
    <3> HIDE DEF rest, miss, c
    <3> QED  BY <1>a, <2>2, FrameMiss DEF Frame
  <2>5. /\ NextBlock(e) \in Frame
        /\ NextBlock(e) = NoCall \/ NextBlock(e).name = c.name
    BY <2>4, NextBlockType, NextBlockName
  <2>6. /\ call' \in [Threads -> Frame]
        /\ \A u \in Threads : ~Idle(u)' => call'[u].name \in Names
    <3> HIDE DEF d, e
    <3> QED  BY <1>b, <2>1, <2>3, <2>5, StepFrame DEF d, e
  <2>7. QED  BY <1>1, <2>6 DEF is_blk_in_cache, TypeInv, TypeOK
<1>2. CASE InsertRow(t)
  <2>1. PICK b \in c.todo :
          LET d == [c EXCEPT !.todo = @ \ {b}]
          IN \/ /\ RowAllowed(d.name, b)
                /\ blocks' = blocks \cup {<<d.name, b>>}
                /\ call' = [call EXCEPT ![t] = [d EXCEPT !.step = "local",
                                                  !.amt = meta_block_size]]
             \/ /\ call' = [call EXCEPT ![t] = NextBlock(d)]
                /\ UNCHANGED blocks
    BY <1>2 DEF InsertRow
  <2> DEFINE d == [c EXCEPT !.todo = @ \ {b}]
             e == [d EXCEPT !.step = "local", !.amt = meta_block_size]
  <2>2. d \in Frame /\ d.name = c.name /\ b \in Blocks
    <3> HIDE DEF c
    <3>1. c.todo \ {b} \in SUBSET Blocks /\ b \in Blocks
      BY <1>a, <2>1 DEF Frame
    <3> QED  BY <1>a, <3>1, FrameTodo DEF Frame
  <2>3. e \in Frame /\ e.name = c.name
    <3> HIDE DEF d
    <3>1. "local" \in Steps /\ meta_block_size \in Int
      BY StatementNames, MetaAssumption
    <3>2. -meta_block_size \in Int
      BY <3>1
    <3>3. QED  BY <2>2, <3>1, <3>2 DEF Frame
  <2>4. /\ NextBlock(d) \in Frame
        /\ NextBlock(d) = NoCall \/ NextBlock(d).name = c.name
    BY <2>2, NextBlockType, NextBlockName
  <2>5. /\ call' \in [Threads -> Frame]
        /\ \A u \in Threads : ~Idle(u)' => call'[u].name \in Names
    <3> HIDE DEF d, e
    <3> QED  BY <1>b, <2>1, <2>3, <2>4, StepFrame DEF d, e
  <2>6. blocks' \subseteq (Names \X Blocks)
    BY <1>b, <2>1, <2>2 DEF TypeInv, TypeOK
  <2>7. QED  BY <1>2, <2>5, <2>6 DEF InsertRow, TypeInv, TypeOK
<1>3. CASE DeleteBlockRow(t)
  <2>1. PICK b \in c.todo :
          /\ blocks' = blocks \ {<<c.name, b>>}
          /\ call' = [call EXCEPT ![t].todo = @ \ {b}, ![t].step = "local",
                                  ![t].amt = -meta_block_size]
    BY <1>3 DEF DeleteBlockRow
  <2> DEFINE d == [c EXCEPT !.todo = @ \ {b}]
             e == [d EXCEPT !.step = "local", !.amt = -meta_block_size]
  <2>2. d \in Frame /\ d.name = c.name
    <3> HIDE DEF c
    <3>1. c.todo \ {b} \in SUBSET Blocks
      BY <1>a DEF Frame
    <3> QED  BY <1>a, <3>1, FrameTodo DEF Frame
  <2>3. e \in Frame /\ e.name = c.name
    <3> HIDE DEF d
    <3>1. "local" \in Steps /\ meta_block_size \in Int
      BY StatementNames, MetaAssumption
    <3>2. -meta_block_size \in Int
      BY <3>1
    <3>3. QED  BY <2>2, <3>1, <3>2 DEF Frame
  <2>4. call' = [call EXCEPT ![t] = e]
    BY <2>1, Zenon DEF TypeInv, TypeOK
  <2>5. /\ call' \in [Threads -> Frame]
        /\ \A u \in Threads : ~Idle(u)' => call'[u].name \in Names
    <3> HIDE DEF e
    <3> QED  BY <1>b, <2>3, <2>4, StepFrame
  <2>6. QED  BY <1>3, <2>1, <2>5 DEF DeleteBlockRow, TypeInv, TypeOK
<1>4. CASE UpdateLocalSize(t)
  <2>1. [c EXCEPT !.step = "load"] \in Frame
    BY <1>a, FrameStep, StatementNames
  <2>2. /\ call' \in [Threads -> Frame]
        /\ \A u \in Threads : ~Idle(u)' => call'[u].name \in Names
    BY <1>4, <1>a, <1>b, <2>1, StepFrame DEF UpdateLocalSize, Frame
  <2>3. local_size' \in [Names -> Int]
    BY <1>4, <1>a, <1>b DEF UpdateLocalSize, TypeInv, TypeOK, Frame
  <2>4. QED  BY <1>4, <2>2, <2>3 DEF UpdateLocalSize, TypeInv, TypeOK
<1>5. CASE SelectSize(t)
  <2> DEFINE a == -local_size[c.name]
             g == c.name \in files
             e == [c EXCEPT !.amt = a, !.found = g, !.step = "load"]
  <2>1. a \in Int /\ g \in BOOLEAN /\ "load" \in Steps
    BY <1>b, StatementNames DEF TypeInv, TypeOK
  <2>2. e \in Frame /\ e.name = c.name
    <3> HIDE DEF a, g, c
    <3> QED  BY <1>a, <2>1 DEF Frame
  <2>3. call' = [call EXCEPT ![t] = e]
    BY <1>5, Zenon DEF SelectSize, TypeInv, TypeOK
  <2>4. /\ call' \in [Threads -> Frame]
        /\ \A u \in Threads : ~Idle(u)' => call'[u].name \in Names
    <3> HIDE DEF e
    <3> QED  BY <1>b, <2>2, <2>3, StepFrame
  <2>5. QED  BY <1>5, <2>4 DEF SelectSize, TypeInv, TypeOK
<1>6. CASE LoadUsed(t)
  <2> DEFINE e == [c EXCEPT !.reg = used, !.step = "store"]
  <2>1. used \in Nat /\ "store" \in Steps
    BY StatementNames, MetaAssumption DEF TypeInv, TypeOK
  <2>2. e \in Frame /\ e.name = c.name
    <3> HIDE DEF c
    <3> QED  BY <1>a, <2>1 DEF Frame
  <2>3. call' = [call EXCEPT ![t] = e]
    BY <1>6, Zenon DEF LoadUsed, TypeInv, TypeOK
  <2>4. /\ call' \in [Threads -> Frame]
        /\ \A u \in Threads : ~Idle(u)' => call'[u].name \in Names
    <3> HIDE DEF e
    <3> QED  BY <1>b, <2>2, <2>3, StepFrame
  <2>5. QED  BY <1>6, <2>4 DEF LoadUsed, TypeInv, TypeOK
<1>7. CASE StoreUsed(t)
  <2> DEFINE s == IF c.found THEN "delete" ELSE "again"
             e == [c EXCEPT !.step = s]
  <2>1. used' \in 0 .. SizeMod - 1
    <3>1. c.reg + c.amt \in Int
      BY <1>a DEF Frame
    <3>2. QED  BY <1>7, <3>1, WrapType DEF StoreUsed
  <2>2. s \in Steps
    BY StatementNames
  <2>3. e \in Frame /\ e.name = c.name
    <3> HIDE DEF c, s
    <3> QED  BY <1>a, <2>2 DEF Frame
  <2>4. /\ NextBlock(c) \in Frame
        /\ NextBlock(c) = NoCall \/ NextBlock(c).name = c.name
    BY <1>a, NextBlockType, NextBlockName
  <2>5. call' = [call EXCEPT ![t] = e] \/ call' = [call EXCEPT ![t] = NextBlock(c)]
    BY <1>7 DEF StoreUsed
  <2>6. /\ call' \in [Threads -> Frame]
        /\ \A u \in Threads : ~Idle(u)' => call'[u].name \in Names
    <3> HIDE DEF e
    <3> QED  BY <1>b, <2>3, <2>4, <2>5, StepFrame
  <2>7. QED  BY <1>7, <2>1, <2>6 DEF StoreUsed, TypeInv, TypeOK
<1>8. CASE SelectAgain(t)
  <2> DEFINE e == [c EXCEPT !.step = "delete"]
  <2>1. e \in Frame /\ e.name = c.name
    <3> HIDE DEF c
    <3> QED  BY <1>a, StatementNames DEF Frame
  <2>2. call' = [call EXCEPT ![t] = e] \/ call' = [call EXCEPT ![t] = NoCall]
    BY <1>8 DEF SelectAgain
  <2>3. /\ call' \in [Threads -> Frame]
        /\ \A u \in Threads : ~Idle(u)' => call'[u].name \in Names
    <3> HIDE DEF e
    <3> QED  BY <1>b, <2>1, <2>2, NoCallType, StepFrame
  <2>4. QED  BY <1>8, <2>3 DEF SelectAgain, TypeInv, TypeOK
<1>9. CASE DeleteFileRow(t)
  <2>1. /\ call' \in [Threads -> Frame]
        /\ \A u \in Threads : ~Idle(u)' => call'[u].name \in Names
    BY <1>9, <1>b, NoCallType, StepFrame DEF DeleteFileRow
  <2>2. files' \subseteq Names /\ local_size' \in [Names -> Int]
    BY <1>9, <1>b DEF DeleteFileRow, TypeInv, TypeOK
  <2>3. blocks' \subseteq (Names \X Blocks) /\ used' = used
    BY <1>9, Zenon DEF DeleteFileRow, Surviving, TypeInv, TypeOK
  <2>4. QED
    BY <2>1, <2>2, <2>3 DEF TypeInv, TypeOK
<1>10. QED
  BY <1>1, <1>2, <1>3, <1>4, <1>5, <1>6, <1>7, <1>8, <1>9 DEF MetaStep

\* A statement that fails leaves the tables and the counter as they are, and
\* its thread in one of these frames.
LEMMA FailedFrame ==
  ASSUME TypeInv, NEW t \in Threads, StatementFails(t)
  PROVE  /\ UNCHANGED <<files, local_size, blocks, used>>
         /\ ~Idle(t)
         /\ \E d, e \in Frame :
              /\ call' = [call EXCEPT ![t] = d]
              /\ e.op = call[t].op /\ e.step = call[t].step
              /\ e.name = call[t].name /\ e.amt = call[t].amt
              /\ \/ d = e /\ call[t].step = "check"
                 \/ d = NextBlock(e)
                 \/ d = NoCall
                 \/ /\ d.op = e.op /\ d.step = "load" /\ d.name = e.name
                    /\ call[t].step = "select"
<1> DEFINE c == call[t]
           R(d, e) == /\ call' = [call EXCEPT ![t] = d]
                      /\ e.op = c.op /\ e.step = c.step
                      /\ e.name = c.name /\ e.amt = c.amt
                      /\ \/ d = e /\ c.step = "check"
                         \/ d = NextBlock(e)
                         \/ d = NoCall
                         \/ /\ d.op = e.op /\ d.step = "load" /\ d.name = e.name
                            /\ c.step = "select"
<1>a. c \in Frame
  BY DEF TypeInv, TypeOK
<1>b. UNCHANGED <<files, local_size, blocks, used>> /\ ~Idle(t)
  BY DEF StatementFails, CheckFails, RowFails, SizeFails, SelectFails,
         DeleteFails, Idle, At
<1>1. CASE CheckFails(t)
  <2>1. PICK b \in c.todo :
          LET r == [c EXCEPT !.todo = @ \ {b}]
          IN call' = [call EXCEPT ![t] =
                        IF r.todo # {} THEN r
                        ELSE NextBlock([r EXCEPT !.todo = r.miss, !.miss = {}])]
    BY <1>1 DEF CheckFails
  <2> DEFINE r == [c EXCEPT !.todo = c.todo \ {b}]
             e == [r EXCEPT !.todo = r.miss, !.miss = {}]
  <2>2. /\ r \in Frame /\ r.op = c.op /\ r.step = c.step /\ r.name = c.name
        /\ r.amt = c.amt
    <3> HIDE DEF c
    <3> QED  BY <1>a DEF Frame
  <2>3. /\ e \in Frame /\ e.op = c.op /\ e.step = c.step /\ e.name = c.name
        /\ e.amt = c.amt
    <3>1. r.miss \in SUBSET Blocks
      BY <2>2 DEF Frame
    <3> HIDE DEF r
    <3> QED  BY <2>2, <3>1 DEF Frame
  <2>4. CASE call' = [call EXCEPT ![t] = r]
    <3>1. c.step = "check"
      BY <1>1 DEF CheckFails, At
    <3>2. R(r, r)
      <4> HIDE DEF r, c
      <4> QED  BY <2>2, <2>4, <3>1
    <3> HIDE DEF r
    <3> QED  BY <1>b, <2>2, <3>2
  <2>5. CASE call' = [call EXCEPT ![t] = NextBlock(e)]
    <3> HIDE DEF e
    <3>1. R(NextBlock(e), e) /\ NextBlock(e) \in Frame
      BY <2>3, <2>5, NextBlockType
    <3> QED  BY <1>b, <2>3, <3>1
  <2>6. QED
    BY <2>1, <2>4, <2>5
<1>2. CASE RowFails(t)
  <2>1. PICK b \in c.todo :
          call' = [call EXCEPT ![t] = NextBlock([c EXCEPT !.todo = @ \ {b}])]
    BY <1>2 DEF RowFails
  <2> DEFINE e == [c EXCEPT !.todo = c.todo \ {b}]
  <2>2. /\ e \in Frame /\ e.op = c.op /\ e.step = c.step /\ e.name = c.name
        /\ e.amt = c.amt
    <3> HIDE DEF c
    <3> QED  BY <1>a DEF Frame
  <2>3. call' = [call EXCEPT ![t] = NextBlock(e)]
    BY <2>1
  <2> HIDE DEF e
  <2>4. R(NextBlock(e), e) /\ NextBlock(e) \in Frame
    BY <2>2, <2>3, NextBlockType
  <2>5. QED  BY <1>b, <2>2, <2>4
<1>3. CASE SizeFails(t)
  <2>1. R(NextBlock(c), c) /\ NextBlock(c) \in Frame
    BY <1>3, <1>a, NextBlockType DEF SizeFails
  <2>2. QED  BY <1>a, <1>b, <2>1
<1>4. CASE SelectFails(t)
  <2> DEFINE d == [c EXCEPT !.amt = 0, !.found = FALSE, !.step = "load"]
  <2>1. d \in Frame /\ d.op = c.op /\ d.step = "load" /\ d.name = c.name
    <3>1. "load" \in Steps /\ 0 \in Int /\ FALSE \in BOOLEAN
      BY StatementNames
    <3> HIDE DEF c
    <3> QED  BY <1>a, <3>1 DEF Frame
  <2>2. call' = [call EXCEPT ![t] = d] /\ c.step = "select"
    BY <1>4, Zenon DEF SelectFails, TypeInv, TypeOK, At
  <2> HIDE DEF d
  <2>3. R(d, c)
    BY <2>1, <2>2
  <2>4. QED  BY <1>a, <1>b, <2>1, <2>3
<1>5. CASE DeleteFails(t)
  <2>1. R(NoCall, c)
    BY <1>5 DEF DeleteFails
  <2>2. QED  BY <1>a, <1>b, <2>1, NoCallType
<1>6. QED
  BY <1>1, <1>2, <1>3, <1>4, <1>5 DEF StatementFails

\* A failing statement keeps the types.
LEMMA FailureTypes ==
  ASSUME TypeInv, NEW t \in Threads, StatementFails(t)
  PROVE  TypeInv'
<1>1. PICK d \in Frame, e \in Frame :
        /\ call' = [call EXCEPT ![t] = d]
        /\ e.name = call[t].name
        /\ \/ d = e
           \/ d = NextBlock(e)
           \/ d = NoCall
           \/ d.name = e.name
  BY FailedFrame
<1>2. d = NoCall \/ d.name = call[t].name
  BY <1>1, NextBlockName
<1>3. /\ call' \in [Threads -> Frame]
      /\ \A u \in Threads : ~Idle(u)' => call'[u].name \in Names
  BY <1>1, <1>2, FailedFrame, StepFrame
<1>4. QED
  BY <1>3, FailedFrame DEF TypeInv, TypeOK

\* A restart keeps the types: it reads a sum that is not negative.
LEMMA RestartTypes ==
  ASSUME TypeInv, init_cache_used_size
  PROVE  TypeInv'
<1>1. used' \in 0 .. SizeMod - 1
  BY WrapType DEF init_cache_used_size
<1>2. NoCall.step = "idle"
  BY DEF NoCall, Fresh
<1>3. QED
  BY <1>1, <1>2, NoCallType
  DEF init_cache_used_size, TypeInv, TypeOK, Idle, At

\* TypeInv is inductive for the whole API.
LEMMA TypeInductive ==
  /\ MetaInit => TypeInv
  /\ TypeInv /\ [Next]_metaVars => TypeInv'
<1>1. MetaInit => TypeInv
  <2>1. NoCall.step = "idle"
    BY DEF NoCall, Fresh
  <2>2. QED
    BY <2>1, NoCallType, MetaAssumption DEF MetaInit, TypeInv, TypeOK, Idle, At
<1>2. ASSUME TypeInv, UNCHANGED metaVars
      PROVE  TypeInv'
  BY <1>2 DEF metaVars, TypeInv, TypeOK, Idle, At
<1>3. QED
  BY <1>1, <1>2, CallTypes, StepTypes, FailureTypes, RestartTypes DEF Next

\* Every variable of the metadata store keeps its type, whatever calls of the
\* API overlap; cache_used_size in particular stays a size_t (meta.c).
THEOREM TypeCorrect == Spec => []TypeOK
  BY TypeInductive, PTL DEF Spec, TypeInv

---------------------------------------------------------------------------
(***************************************************************************)
(* No Datablocks row without its Files row.  Of all statements only        *)
(* InsertRow adds a row, and looks for the file in the same statement, and *)
(* only DeleteFileRow removes a file, and takes the rows with it.          *)
(***************************************************************************)
LEMMA ForeignKeyInductive ==
  ASSUME TypeInv, ForeignKey, [Next]_metaVars
  PROVE  ForeignKey'
<1>1. ASSUME NEW t \in Threads, InsertRow(t)
      PROVE  ForeignKey'
  <2> DEFINE f == call[t].name
  <2>1. PICK b \in call[t].todo :
          \/ RowAllowed(f, b) /\ blocks' = blocks \cup {<<f, b>>}
          \/ UNCHANGED blocks
    <3>1. \A b : [call[t] EXCEPT !.todo = @ \ {b}].name = f
      BY DEF TypeInv, TypeOK, Frame
    <3>2. QED  BY <1>1, <3>1 DEF InsertRow
  <2>2. CASE RowAllowed(f, b) /\ blocks' = blocks \cup {<<f, b>>}
    BY <1>1, <2>2 DEF InsertRow, RowAllowed, ForeignKey
  <2>3. CASE UNCHANGED blocks
    BY <1>1, <2>3 DEF InsertRow, ForeignKey
  <2>4. QED  BY <2>1, <2>2, <2>3
<1>2. ASSUME NEW t \in Threads, DeleteFileRow(t)
      PROVE  ForeignKey'
  BY <1>2 DEF DeleteFileRow, Surviving, ForeignKey
<1>3. ASSUME NEW t \in Threads, DeleteBlockRow(t)
      PROVE  ForeignKey'
  BY <1>3 DEF DeleteBlockRow, ForeignKey
<1>4. ASSUME files \subseteq files', UNCHANGED blocks
      PROVE  ForeignKey'
  BY <1>4 DEF ForeignKey
<1>5. ASSUME NEW t \in Threads, APICall(t)
      PROVE  files \subseteq files' /\ UNCHANGED blocks
  BY <1>5 DEF APICall, FSCall, WriterCall, create_file, delete_file,
              write_blks, insert_blocks, delete_blocks, Enter
<1>6. ASSUME NEW t \in Threads,
             \/ is_blk_in_cache(t) \/ UpdateLocalSize(t) \/ SelectSize(t)
             \/ LoadUsed(t) \/ StoreUsed(t) \/ SelectAgain(t)
      PROVE  files \subseteq files' /\ UNCHANGED blocks
  BY <1>6 DEF is_blk_in_cache, UpdateLocalSize, SelectSize, LoadUsed,
              StoreUsed, SelectAgain
<1>7. CASE init_cache_used_size
  BY <1>7, <1>4 DEF init_cache_used_size
<1>8. CASE UNCHANGED metaVars
  BY <1>8, <1>4 DEF metaVars
<1>9. ASSUME NEW t \in Threads, StatementFails(t)
      PROVE  files \subseteq files' /\ UNCHANGED blocks
  BY <1>9, FailedFrame
<1>10. QED
  BY <1>1, <1>2, <1>3, <1>4, <1>5, <1>6, <1>7, <1>8, <1>9 DEF Next, MetaStep

\* A recorded block always belongs to a recorded file, whatever inserts,
\* deletes and restarts overlap: delete_file leaves no block behind, and an
\* insert_block it overtakes adds none (meta.c:340, meta.c:421).
THEOREM ForeignKeyCorrect == Spec => []ForeignKey
<1>1. MetaInit => ForeignKey
  BY DEF MetaInit, ForeignKey
<1>2. QED
  BY <1>1, ForeignKeyInductive, TypeInductive, PTL DEF Spec
---------------------------------------------------------------------------
(***************************************************************************)
(* Threads that record blocks never charge a file for more than its rows.  *)
(* Between its INSERT and its UPDATE a thread owes the file one block:     *)
(* LocalSizeInv counts these threads, and is inductive together with what  *)
(* the frames of recording threads are.                                    *)
(***************************************************************************)
WriterSteps == {"idle", "check", "insert", "local", "load", "store"}

Recording(c) ==
  /\ c.op \in {"none", "write_blks"}
  /\ c.step \in WriterSteps
  /\ c.step = "local" => c.amt = meta_block_size

WriterInv ==
  /\ TypeInv
  /\ \A t \in Threads : Recording(call[t])
  /\ \A t \in Threads : At(t, "local") => call[t].name \in files
  /\ LocalSizeInv

\* A thread that records blocks goes on recording, and owes nothing between
\* two blocks.
LEMMA NextBlockRecording ==
  ASSUME NEW c \in Frame, c.op \in {"none", "write_blks"}
  PROVE  Recording(NextBlock(c)) /\ NextBlock(c).step # "local"
<1>1. CASE c.todo = {}
  BY <1>1 DEF NextBlock, NoCall, Fresh, Recording, WriterSteps
<1>2. CASE c.todo # {}
  <2> DEFINE z == 0
             e == [c EXCEPT !.step = "insert", !.amt = z, !.reg = z]
  <2>1. NextBlock(c) = e
    BY <1>2 DEF NextBlock
  <2>2. e.op = c.op /\ e.step = "insert"
    <3> HIDE DEF z
    <3> QED  BY DEF Frame
  <2>3. QED
    BY <2>1, <2>2 DEF Recording, WriterSteps
<1>3. QED  BY <1>1, <1>2

\* Finitely many threads owe, finitely many blocks are recorded.
LEMMA Counts ==
  ASSUME TypeOK, NEW f \in Names
  PROVE  /\ IsFiniteSet(Pending(f)) /\ Cardinality(Pending(f)) \in Nat
         /\ IsFiniteSet(BlocksOf(f)) /\ Cardinality(BlocksOf(f)) \in Nat
<1>1. IsFiniteSet(Pending(f))
  BY FS_Subset, MetaAssumption DEF Pending
<1>2. IsFiniteSet(BlocksOf(f))
  BY FS_Subset, MetaAssumption DEF BlocksOf
<1>3. QED  BY <1>1, <1>2, FS_CardinalityType

\* n + 1 blocks are a block more than n.
LEMMA OneBlockMore == \A n \in Nat : meta_block_size * (n + 1) =
                                      meta_block_size * n + meta_block_size
  BY MetaAssumption

\* A step after which no thread owes more and no file has another size or
\* fewer blocks keeps LocalSizeInv.
LEMMA LocalSizeKept ==
  ASSUME WriterInv, UNCHANGED <<local_size, blocks>>, TypeOK',
         \A f \in Names : Pending(f)' \subseteq Pending(f)
  PROVE  LocalSizeInv'
<1>1. ASSUME NEW f \in Names
      PROVE  (local_size[f] + meta_block_size * Cardinality(Pending(f))
                <= meta_block_size * Cardinality(BlocksOf(f)))'
  <2>1. Cardinality(Pending(f)') <= Cardinality(Pending(f))
    BY Counts, FS_Subset DEF WriterInv, TypeInv
  <2>2. BlocksOf(f)' = BlocksOf(f)
    BY DEF BlocksOf
  <2>3. Cardinality(Pending(f)') \in Nat
    BY Counts, FS_Subset, FS_CardinalityType DEF WriterInv, TypeInv
  <2>4. \A m, n \in Nat : m <= n => meta_block_size * m <= meta_block_size * n
    BY MetaAssumption
  <2> DEFINE m == Cardinality(Pending(f)')
             n == Cardinality(Pending(f))
             k == meta_block_size * Cardinality(BlocksOf(f))
  <2>5. local_size[f] + meta_block_size * n <= k
    BY DEF WriterInv, LocalSizeInv
  <2>6. meta_block_size * m <= meta_block_size * n
    BY <2>1, <2>3, <2>4, Counts DEF WriterInv, TypeInv
  <2>7. /\ meta_block_size * m \in Int /\ meta_block_size * n \in Int
        /\ k \in Int /\ local_size[f] \in Int
    BY <2>3, Counts, MetaAssumption DEF WriterInv, TypeInv, TypeOK
  <2>8. local_size[f] + meta_block_size * m <= k
    <3> HIDE DEF m, n, k
    <3> QED  BY <2>5, <2>6, <2>7
  <2>9. QED  BY <2>2, <2>8
<1>2. QED  BY <1>1 DEF LocalSizeInv
\* insert_block's INSERT: one more row, one more thread that owes a block.
LEMMA InsertRowWriter ==
  ASSUME WriterInv, TypeInv', NEW t \in Threads, InsertRow(t)
  PROVE  WriterInv'
<1> DEFINE c == call[t]
<1>a. c \in Frame /\ c.op \in {"none", "write_blks"}
  BY DEF WriterInv, TypeInv, TypeOK, Recording
<1>b. PICK f \in Names : f = c.name
  BY DEF WriterInv, TypeInv, InsertRow, Idle, At
<1>1. PICK b \in c.todo :
        LET d == [c EXCEPT !.todo = @ \ {b}]
        IN \/ /\ RowAllowed(d.name, b)
              /\ blocks' = blocks \cup {<<d.name, b>>}
              /\ call' = [call EXCEPT ![t] = [d EXCEPT !.step = "local",
                                                !.amt = meta_block_size]]
           \/ /\ call' = [call EXCEPT ![t] = NextBlock(d)]
              /\ UNCHANGED blocks
  BY DEF InsertRow
<1> DEFINE d == [c EXCEPT !.todo = @ \ {b}]
           e == [d EXCEPT !.step = "local", !.amt = meta_block_size]
<1>2. d \in Frame /\ d.name = f /\ d.op = c.op /\ b \in Blocks
  <2>0. f = c.name
    BY <1>b
  <2> HIDE DEF c
  <2>1. c.todo \ {b} \in SUBSET Blocks /\ b \in Blocks
    BY <1>a, <1>1 DEF Frame
  <2> QED  BY <1>a, <2>0, <2>1, FrameTodo DEF Frame
<1>3. e.step = "local" /\ e.amt = meta_block_size /\ e.op = c.op /\ e.name = f
  <2> HIDE DEF d
  <2> QED  BY <1>2 DEF Frame
<1>4. Recording(e)
  BY <1>a, <1>3 DEF Recording, WriterSteps
<1>5. Recording(NextBlock(d)) /\ NextBlock(d).step # "local"
  BY <1>a, <1>2, NextBlockRecording
<1>6. At(t, "insert") /\ UNCHANGED <<files, local_size, used>>
  BY DEF InsertRow
<1>7. CASE call' = [call EXCEPT ![t] = NextBlock(d)] /\ UNCHANGED blocks
  <2>1. \A u \in Threads : Recording(call'[u])
    BY <1>5, <1>7 DEF WriterInv, TypeInv, TypeOK
  <2>2. \A u \in Threads : At(u, "local")' => call'[u].name \in files'
    BY <1>5, <1>6, <1>7 DEF WriterInv, TypeInv, TypeOK, At
  <2>3. \A g \in Names : Pending(g)' \subseteq Pending(g)
    BY <1>5, <1>7 DEF Pending, At, WriterInv, TypeInv, TypeOK
  <2>4. LocalSizeInv'
    BY <1>6, <1>7, <2>3, LocalSizeKept DEF TypeInv
  <2>5. QED  BY <2>1, <2>2, <2>4 DEF WriterInv
<1>8. CASE /\ RowAllowed(f, b)
           /\ blocks' = blocks \cup {<<f, b>>}
           /\ call' = [call EXCEPT ![t] = e]
  <2>1. \A u \in Threads : Recording(call'[u])
    BY <1>4, <1>8 DEF WriterInv, TypeInv, TypeOK
  <2>2. \A u \in Threads : At(u, "local")' => call'[u].name \in files'
    <3> HIDE DEF e
    <3> QED  BY <1>3, <1>6, <1>8 DEF WriterInv, TypeInv, TypeOK, At, RowAllowed
  <2>3. /\ Pending(f)' = Pending(f) \cup {t} /\ t \notin Pending(f)
        /\ \A g \in Names \ {f} : Pending(g)' = Pending(g)
    <3> HIDE DEF e
    <3>1. \A u \in Threads : call'[u] = IF u = t THEN e ELSE call[u]
      BY <1>8 DEF WriterInv, TypeInv, TypeOK
    <3>2. \A g \in Names, u \in Threads :
            u \in Pending(g)' <=> u \in Pending(g) \/ (u = t /\ g = f)
      BY <1>3, <1>6, <3>1 DEF Pending, At
    <3>3. t \notin Pending(f)
      BY <1>6 DEF Pending, At
    <3>4. \A g \in Names : Pending(g) \subseteq Threads /\ Pending(g)' \subseteq Threads
      BY DEF Pending
    <3>5. Pending(f)' = Pending(f) \cup {t}
      BY <3>2, <3>4
    <3>6. \A g \in Names \ {f} : Pending(g)' = Pending(g)
      BY <3>2, <3>4
    <3>7. QED  BY <3>3, <3>5, <3>6
  <2>4. /\ BlocksOf(f)' = BlocksOf(f) \cup {b} /\ b \notin BlocksOf(f)
        /\ \A g \in Names \ {f} : BlocksOf(g)' = BlocksOf(g)
    BY <1>2, <1>8 DEF BlocksOf, RowAllowed
  <2>5. /\ Cardinality(Pending(f)') = Cardinality(Pending(f)) + 1
        /\ Cardinality(BlocksOf(f)') = Cardinality(BlocksOf(f)) + 1
    <3>1. IsFiniteSet(Pending(f)) /\ IsFiniteSet(BlocksOf(f))
      BY <1>a, Counts DEF WriterInv, TypeInv
    <3>2. Cardinality(Pending(f)') = Cardinality(Pending(f)) + 1
      BY <2>3, <3>1, FS_AddElement
    <3>3. Cardinality(BlocksOf(f)') = Cardinality(BlocksOf(f)) + 1
      BY <2>4, <3>1, FS_AddElement
    <3>4. QED  BY <3>2, <3>3
  <2>6. ASSUME NEW g \in Names
        PROVE  (local_size[g] + meta_block_size * Cardinality(Pending(g))
                  <= meta_block_size * Cardinality(BlocksOf(g)))'
    <3>1. CASE g # f
      BY <1>6, <2>3, <2>4, <3>1 DEF WriterInv, LocalSizeInv
    <3>2. CASE g = f
      <4> DEFINE m == Cardinality(Pending(f))
                 n == Cardinality(BlocksOf(f))
                 l == local_size[f]
      <4>1. l + meta_block_size * m <= meta_block_size * n
        BY <1>a DEF WriterInv, LocalSizeInv
      <4>2. m \in Nat /\ n \in Nat /\ l \in Int /\ meta_block_size \in Nat
        BY <1>a, Counts, MetaAssumption DEF WriterInv, TypeInv, TypeOK
      <4>3. l + meta_block_size * (m + 1) <= meta_block_size * (n + 1)
        <5> HIDE DEF l, m, n
        <5>1. /\ meta_block_size * (m + 1) = meta_block_size * m + meta_block_size
              /\ meta_block_size * (n + 1) = meta_block_size * n + meta_block_size
              /\ meta_block_size * m \in Int /\ meta_block_size * n \in Int
          BY <4>2, OneBlockMore
        <5>2. QED  BY <4>1, <4>2, <5>1
      <4>4. QED  BY <1>6, <2>5, <3>2, <4>3
    <3>3. QED  BY <3>1, <3>2
  <2>7. QED  BY <2>1, <2>2, <2>6 DEF WriterInv, LocalSizeInv
<1>9. QED
  <2> HIDE DEF e
  <2> QED  BY <1>1, <1>2, <1>7, <1>8 DEF e
\* insert_block's UPDATE: the thread pays the block it owed.
LEMMA UpdateLocalSizeWriter ==
  ASSUME WriterInv, TypeInv', NEW t \in Threads, UpdateLocalSize(t)
  PROVE  WriterInv'
<1> DEFINE c == call[t]
           e == [c EXCEPT !.step = "load"]
<1>a. c \in Frame /\ Recording(c) /\ c.amt = meta_block_size
  BY DEF WriterInv, TypeInv, TypeOK, Recording, UpdateLocalSize, At
<1>b. PICK f \in Names : f = c.name /\ f \in files
  BY DEF WriterInv, TypeInv, UpdateLocalSize, Idle, At
<1>1. e.step = "load" /\ e.op = c.op
  <2> HIDE DEF c
  <2> QED  BY <1>a DEF Frame
<1>2. \A u \in Threads : call'[u] = IF u = t THEN e ELSE call[u]
  BY DEF UpdateLocalSize, WriterInv, TypeInv, TypeOK
<1>3. \A u \in Threads : Recording(call'[u])
  BY <1>a, <1>1, <1>2 DEF WriterInv, Recording, WriterSteps
<1>4. \A u \in Threads : At(u, "local")' => call'[u].name \in files'
  BY <1>1, <1>2 DEF WriterInv, At, UpdateLocalSize
<1>5. \A g \in Names, u \in Threads :
        u \in Pending(g)' <=> u \in Pending(g) /\ u # t
  BY <1>1, <1>2 DEF Pending, At
<1>6. \A g \in Names : Pending(g) \subseteq Threads /\ Pending(g)' \subseteq Threads
  BY DEF Pending
<1>7. Pending(f)' = Pending(f) \ {t}
  BY <1>5, <1>6
<1>8. \A g \in Names \ {f} : Pending(g)' = Pending(g)
  <2>1. \A g \in Names \ {f} : t \notin Pending(g)
    BY <1>b DEF Pending
  <2>2. QED  BY <1>5, <1>6, <2>1
<1>9. Cardinality(Pending(f)') = Cardinality(Pending(f)) - 1
  <2>1. t \in Pending(f)
    BY <1>b DEF Pending, UpdateLocalSize
  <2>2. QED
    BY <1>7, <2>1, Counts, FS_RemoveElement DEF WriterInv, TypeInv
<1>10. local_size' = [local_size EXCEPT ![f] = @ + meta_block_size]
  BY <1>a, <1>b DEF UpdateLocalSize
<1>11. \A g \in Names : BlocksOf(g)' = BlocksOf(g)
  BY DEF BlocksOf, UpdateLocalSize
<1>12. ASSUME NEW g \in Names
       PROVE  (local_size[g] + meta_block_size * Cardinality(Pending(g))
                 <= meta_block_size * Cardinality(BlocksOf(g)))'
  <2>1. CASE g # f
    BY <1>8, <1>10, <1>11, <2>1 DEF WriterInv, LocalSizeInv, TypeInv, TypeOK
  <2>2. CASE g = f
    <3> DEFINE m == Cardinality(Pending(f))
               n == Cardinality(Pending(f)')
               k == meta_block_size * Cardinality(BlocksOf(f))
               l == local_size[f]
    <3>1. l + meta_block_size * m <= k /\ m = n + 1
      BY <1>9, Counts DEF WriterInv, LocalSizeInv, TypeInv
    <3>2. /\ m \in Nat /\ n \in Nat /\ l \in Int /\ k \in Int
          /\ meta_block_size \in Nat
      <4>1. n \in Nat
        BY <1>7, Counts, FS_Subset, FS_CardinalityType DEF WriterInv, TypeInv
      <4>2. QED
        BY <4>1, Counts, MetaAssumption DEF WriterInv, TypeInv, TypeOK
    <3>3. (l + meta_block_size) + meta_block_size * n <= k
      <4> HIDE DEF l, m, n, k
      <4>1. /\ meta_block_size * m = meta_block_size * n + meta_block_size
            /\ meta_block_size * n \in Int
        BY <3>1, <3>2, OneBlockMore
      <4>2. QED  BY <3>1, <3>2, <4>1
    <3>4. local_size'[f] = l + meta_block_size
      BY <1>10 DEF WriterInv, TypeInv, TypeOK
    <3>5. QED  BY <1>11, <2>2, <3>3, <3>4
  <2>3. QED  BY <2>1, <2>2
<1>13. QED
  BY <1>3, <1>4, <1>12 DEF WriterInv, LocalSizeInv

\* The other statements of a recording thread neither owe nor pay.
LEMMA OtherStepsWriter ==
  ASSUME WriterInv, TypeInv', NEW t \in Threads, NEW c \in Frame,
         Recording(c), c.step # "local", call' = [call EXCEPT ![t] = c],
         UNCHANGED <<local_size, blocks>>, files \subseteq files'
  PROVE  WriterInv'
<1>1. \A u \in Threads : call'[u] = IF u = t THEN c ELSE call[u]
  BY DEF WriterInv, TypeInv, TypeOK
<1>2. \A u \in Threads : Recording(call'[u])
  BY <1>1 DEF WriterInv
<1>3. \A u \in Threads : At(u, "local")' => call'[u].name \in files'
  BY <1>1 DEF WriterInv, At
<1>4. \A f \in Names : Pending(f)' \subseteq Pending(f)
  BY <1>1 DEF Pending, At
<1>5. QED
  BY <1>2, <1>3, <1>4, LocalSizeKept DEF WriterInv, TypeInv

\* Every statement of a recording thread keeps WriterInv.
LEMMA StepWriter ==
  ASSUME WriterInv, TypeInv', NEW t \in Threads, MetaStep(t)
  PROVE  WriterInv'
<1> DEFINE c == call[t]
<1>a. c \in Frame /\ Recording(c)
  BY DEF WriterInv, TypeInv, TypeOK
<1>1. CASE is_blk_in_cache(t)
  <2>1. PICK b \in c.todo :
          LET rest == c.todo \ {b}
              miss == IF <<c.name, b>> \in blocks THEN c.miss
                                                  ELSE c.miss \cup {b}
          IN call' = [call EXCEPT ![t] =
                        IF rest # {}
                        THEN [c EXCEPT !.todo = rest, !.miss = miss]
                        ELSE NextBlock([c EXCEPT !.todo = miss, !.miss = {}])]
    BY <1>1 DEF is_blk_in_cache
  <2> DEFINE rest == c.todo \ {b}
             miss == IF <<c.name, b>> \in blocks THEN c.miss
                                                 ELSE c.miss \cup {b}
             d == [c EXCEPT !.todo = rest, !.miss = miss]
             e == [c EXCEPT !.todo = miss, !.miss = {}]
  <2>2. rest \in SUBSET Blocks /\ miss \in SUBSET Blocks
    BY <1>a, <2>1 DEF Frame
  <2>3. d \in Frame /\ d.op = c.op /\ d.step = c.step
    <3> HIDE DEF rest, miss, c
    <3> QED  BY <1>a, <2>2, FrameMiss DEF Frame
  <2>4. e \in Frame /\ e.op = c.op
    <3> HIDE DEF rest, miss, c
    <3> QED  BY <1>a, <2>2, FrameMiss DEF Frame
  <2>5. /\ NextBlock(e) \in Frame /\ Recording(NextBlock(e))
        /\ NextBlock(e).step # "local"
    BY <1>a, <2>4, NextBlockType, NextBlockRecording DEF Recording
  <2>6. Recording(d) /\ d.step # "local"
    BY <1>1, <1>a, <2>3 DEF Recording, is_blk_in_cache, At
  <2>7. UNCHANGED <<local_size, blocks>> /\ files \subseteq files'
    BY <1>1 DEF is_blk_in_cache
  <2>8. call' = [call EXCEPT ![t] = d] \/ call' = [call EXCEPT ![t] = NextBlock(e)]
    BY <2>1
  <2>9. QED
    <3> HIDE DEF d, e
    <3> QED  BY <2>3, <2>5, <2>6, <2>7, <2>8, OtherStepsWriter
<1>2. CASE InsertRow(t)
  BY <1>2, InsertRowWriter
<1>3. CASE UpdateLocalSize(t)
  BY <1>3, UpdateLocalSizeWriter
<1>4. CASE LoadUsed(t)
  <2> DEFINE e == [c EXCEPT !.reg = used, !.step = "store"]
  <2>1. used \in Nat /\ "store" \in Steps
    BY StatementNames, MetaAssumption DEF WriterInv, TypeInv, TypeOK
  <2>2. e \in Frame /\ e.op = c.op /\ e.step = "store"
    <3> HIDE DEF c
    <3> QED  BY <1>a, <2>1 DEF Frame
  <2>3. Recording(e) /\ e.step # "local"
    BY <1>a, <2>2 DEF Recording, WriterSteps
  <2>4. /\ call' = [call EXCEPT ![t] = e]
        /\ UNCHANGED <<local_size, blocks>> /\ files \subseteq files'
    BY <1>4, Zenon DEF LoadUsed, WriterInv, TypeInv, TypeOK
  <2>5. QED
    <3> HIDE DEF e
    <3> QED  BY <2>2, <2>3, <2>4, OtherStepsWriter
<1>5. CASE StoreUsed(t)
  <2>1. /\ call' = [call EXCEPT ![t] = NextBlock(c)]
        /\ UNCHANGED <<local_size, blocks>> /\ files \subseteq files'
    BY <1>5, <1>a DEF StoreUsed, Recording
  <2>2. NextBlock(c) \in Frame /\ Recording(NextBlock(c))
        /\ NextBlock(c).step # "local"
    BY <1>a, NextBlockType, NextBlockRecording DEF Recording
  <2>3. QED
    BY <2>1, <2>2, OtherStepsWriter
<1>6. CASE \/ DeleteBlockRow(t) \/ SelectSize(t) \/ SelectAgain(t)
           \/ DeleteFileRow(t)
  BY <1>6, <1>a DEF DeleteBlockRow, SelectSize, SelectAgain, DeleteFileRow,
                    At, Recording, WriterSteps
<1>7. QED
  BY <1>1, <1>2, <1>3, <1>4, <1>5, <1>6 DEF MetaStep

\* A failing statement of a recording thread makes nobody owe more.
LEMMA FailureWriter ==
  ASSUME WriterInv, TypeInv', NEW t \in Threads, StatementFails(t)
  PROVE  WriterInv'
<1> DEFINE c == call[t]
<1>1. c \in Frame /\ Recording(c)
  BY DEF WriterInv, TypeInv, TypeOK
<1>2. PICK d \in Frame, e \in Frame :
        /\ call' = [call EXCEPT ![t] = d]
        /\ e.op = c.op /\ e.step = c.step
        /\ \/ d = e /\ c.step = "check"
           \/ d = NextBlock(e)
           \/ d = NoCall
           \/ d.op = e.op /\ d.step = "load"
  BY FailedFrame DEF WriterInv
<1>3. Recording(d) /\ d.step # "local"
  <2>1. CASE d = e /\ c.step = "check"
    BY <1>1, <1>2, <2>1 DEF Recording, WriterSteps
  <2>2. CASE d = NextBlock(e)
    BY <1>1, <1>2, <2>2, NextBlockRecording DEF Recording
  <2>3. CASE d = NoCall
    BY <2>3 DEF Recording, WriterSteps, NoCall, Fresh
  <2>4. CASE d.op = e.op /\ d.step = "load"
    BY <1>1, <1>2, <2>4 DEF Recording, WriterSteps
  <2>5. QED  BY <1>2, <2>1, <2>2, <2>3, <2>4
<1>4. QED
  BY <1>2, <1>3, FailedFrame, OtherStepsWriter DEF WriterInv

\* So does every call that starts recording, or creates a file ...
LEMMA CallWriter ==
  ASSUME WriterInv, TypeInv', NEW t \in Threads, WriterCall(t)
  PROVE  WriterInv'
<1>1. ASSUME NEW f \in Names, create_file(t, f)
      PROVE  WriterInv'
  <2>1. /\ UNCHANGED <<local_size, blocks, call>> /\ files \subseteq files'
        /\ \A g \in Names : Pending(g)' \subseteq Pending(g)
    BY <1>1 DEF create_file, Pending, At
  <2>2. LocalSizeInv'
    BY <2>1, LocalSizeKept DEF TypeInv
  <2>3. QED
    BY <2>1, <2>2 DEF WriterInv, At
<1>2. ASSUME NEW f \in Names, NEW B \in SUBSET Blocks, write_blks(t, f, B)
      PROVE  WriterInv'
  <2> DEFINE e == Fresh("write_blks", "check", f, B)
  <2>1. e \in Frame
    BY FreshType, StatementNames
  <2>2. Recording(e) /\ e.step # "local"
    BY DEF Fresh, Recording, WriterSteps
  <2>3. /\ call' = [call EXCEPT ![t] = e]
        /\ UNCHANGED <<local_size, blocks>> /\ files \subseteq files'
    BY <1>2 DEF write_blks, Enter
  <2>4. QED
    <3> HIDE DEF e
    <3> QED  BY <2>1, <2>2, <2>3, OtherStepsWriter
<1>3. QED  BY <1>1, <1>2 DEF WriterCall

\* ... and so does a restart, which finds the bytes of an interrupted insert_block
\* recorded and not charged.
LEMMA RestartWriter ==
  ASSUME WriterInv, TypeInv', init_cache_used_size
  PROVE  WriterInv'
<1>1. \A t \in Threads : call'[t].step = "idle" /\ Recording(call'[t])
  BY DEF init_cache_used_size, NoCall, Fresh, Recording, WriterSteps
<1>2. \A f \in Names : Pending(f)' \subseteq Pending(f)
  BY <1>1 DEF Pending, At
<1>3. LocalSizeInv'
  BY <1>2, LocalSizeKept DEF init_cache_used_size, TypeInv
<1>4. QED
  BY <1>1, <1>3 DEF WriterInv, At

\* WriterInv holds at the start, and whatever NextWriters does keeps it.
LEMMA WriterInductive ==
  /\ MetaInit => WriterInv
  /\ WriterInv /\ [NextWriters]_metaVars => WriterInv'
<1>1. MetaInit => WriterInv
  <2> SUFFICES ASSUME MetaInit  PROVE WriterInv
    OBVIOUS
  <2>1. \A t \in Threads : call[t].step = "idle" /\ Recording(call[t])
    BY DEF MetaInit, NoCall, Fresh, Recording, WriterSteps
  <2>2. ASSUME NEW f \in Names
        PROVE  local_size[f] + meta_block_size * Cardinality(Pending(f))
                 <= meta_block_size * Cardinality(BlocksOf(f))
    <3>1. Pending(f) = {} /\ BlocksOf(f) = {} /\ local_size[f] = 0
      BY <2>1 DEF Pending, BlocksOf, At, MetaInit
    <3>2. Cardinality(Pending(f)) = 0 /\ Cardinality(BlocksOf(f)) = 0
      BY <3>1, FS_EmptySet
    <3>3. QED  BY <3>1, <3>2, MetaAssumption
  <2>3. QED
    BY <2>1, <2>2, TypeInductive DEF WriterInv, LocalSizeInv, At
<1>2. ASSUME WriterInv, [NextWriters]_metaVars
      PROVE  WriterInv'
  <2>1. NextWriters => Next
    BY DEF NextWriters, Next, APICall, FSCall
  <2>2. TypeInv'
    BY <1>2, <2>1, TypeInductive DEF WriterInv
  <2>3. CASE UNCHANGED metaVars
    <3>1. LocalSizeInv'
      BY <1>2, <2>3 DEF metaVars, WriterInv, LocalSizeInv, Pending, BlocksOf, At
    <3>2. QED
      BY <1>2, <2>2, <2>3, <3>1 DEF metaVars, WriterInv, At
  <2>4. QED
    BY <1>2, <2>2, <2>3, CallWriter, StepWriter, FailureWriter, RestartWriter
    DEF NextWriters
<1>3. QED  BY <1>1, <1>2

\* With what is still to be added, or without.
LEMMA PendingBound ==
  ASSUME TypeOK, LocalSizeInv
  PROVE  LocalSizeBound
<1> SUFFICES ASSUME NEW f \in Names
             PROVE  local_size[f] <= meta_block_size * Cardinality(BlocksOf(f))
  BY DEF LocalSizeBound
<1> DEFINE m == meta_block_size * Cardinality(Pending(f))
           n == meta_block_size * Cardinality(BlocksOf(f))
<1>1. local_size[f] + m <= n
  BY DEF LocalSizeInv
<1>2. m \in Nat /\ n \in Int /\ local_size[f] \in Int
  <2>1. \A j \in Nat : meta_block_size * j \in Nat
    BY MetaAssumption
  <2>2. QED  BY <2>1, Counts DEF TypeOK
<1>3. local_size[f] <= n
  <2> HIDE DEF m, n
  <2> QED  BY <1>1, <1>2
<1>4. QED  BY <1>3

\* However many threads record the blocks of a file at once, and wherever a
\* crash falls, the file is charged for no more bytes than it has blocks: the
\* UNIQUE row makes exactly one of the racing insert_block calls pay (meta.c).
THEOREM LocalSizeCorrect == SpecWriters => []LocalSizeBound
<1>1. WriterInv => LocalSizeBound
  BY PendingBound DEF WriterInv, TypeInv
<1>2. QED
  BY <1>1, WriterInductive, PTL DEF SpecWriters

\* The same with the threads between their INSERT and their UPDATE counted in:
\* what the file is charged for, and what it will be, is never more than what
\* is recorded (meta.c:355).
THEOREM PendingCorrect == SpecWriters => []LocalSizeInv
<1>1. WriterInv => LocalSizeInv
  BY DEF WriterInv
<1>2. QED
  BY <1>1, WriterInductive, PTL DEF SpecWriters
---------------------------------------------------------------------------
(***************************************************************************)
(* The calls of the file system never make a local_size negative: only     *)
(* delete_blocks, which cachefs.c does not call, takes a block off a size. *)
(***************************************************************************)
Charging(c) ==
  /\ c.op # "delete_blocks" /\ c.step # "unrow"
  /\ c.step = "local" => c.amt = meta_block_size

ChargeInv ==
  /\ TypeInv
  /\ \A t \in Threads : Charging(call[t])
  /\ SizesNonNegative

\* A loop over blocks that charges a file goes on doing so.
LEMMA NextBlockCharging ==
  ASSUME NEW c \in Frame, Charging(c)
  PROVE  Charging(NextBlock(c))
<1>1. CASE c.todo = {}
  BY <1>1 DEF NextBlock, NoCall, Fresh, Charging
<1>2. CASE c.todo # {}
  BY <1>2 DEF NextBlock, Charging, Frame
<1>3. QED  BY <1>1, <1>2

\* A step of one thread that leaves the sizes alone keeps ChargeInv if the
\* thread still charges blocks.
LEMMA ChargeKept ==
  ASSUME ChargeInv, TypeInv', NEW t \in Threads, NEW c, Charging(c),
         call' = [call EXCEPT ![t] = c],
         \A f \in Names : local_size'[f] >= 0
  PROVE  ChargeInv'
  BY DEF ChargeInv, TypeInv, TypeOK, SizesNonNegative

\* Every statement keeps ChargeInv: the one that changes a size adds a block,
\* and the one that deletes a file resets it.
LEMMA StepCharge ==
  ASSUME ChargeInv, TypeInv', NEW t \in Threads, MetaStep(t)
  PROVE  ChargeInv'
<1> DEFINE c == call[t]
<1>a. /\ c \in Frame /\ Charging(c)
      /\ \A f \in Names : local_size[f] \in Int /\ local_size[f] >= 0
  BY DEF ChargeInv, TypeInv, TypeOK, SizesNonNegative
<1>1. CASE is_blk_in_cache(t)
  <2>1. PICK b \in c.todo, miss \in SUBSET Blocks :
          call' = [call EXCEPT ![t] =
                     IF c.todo \ {b} # {}
                     THEN [c EXCEPT !.todo = c.todo \ {b}, !.miss = miss]
                     ELSE NextBlock([c EXCEPT !.todo = miss, !.miss = {}])]
    BY <1>1, <1>a DEF is_blk_in_cache, Frame
  <2>2. /\ [c EXCEPT !.todo = miss, !.miss = {}] \in Frame
        /\ Charging([c EXCEPT !.todo = miss, !.miss = {}])
    BY <1>a DEF Frame, Charging
  <2>3. /\ Charging([c EXCEPT !.todo = c.todo \ {b}, !.miss = miss])
        /\ Charging(NextBlock([c EXCEPT !.todo = miss, !.miss = {}]))
    BY <1>a, <2>2, NextBlockCharging DEF Frame, Charging
  <2>4. \A f \in Names : local_size'[f] >= 0
    BY <1>1, <1>a DEF is_blk_in_cache
  <2>5. CASE c.todo \ {b} # {}
    <3>1. call' = [call EXCEPT ![t] =
                     [c EXCEPT !.todo = c.todo \ {b}, !.miss = miss]]
      BY <2>1, <2>5
    <3>2. QED  BY <3>1, <2>3, <2>4, ChargeKept
  <2>6. CASE c.todo \ {b} = {}
    <3>1. call' = [call EXCEPT ![t] =
                     NextBlock([c EXCEPT !.todo = miss, !.miss = {}])]
      BY <2>1, <2>6
    <3>2. QED  BY <3>1, <2>3, <2>4, ChargeKept
  <2>7. QED  BY <2>5, <2>6
<1>2. CASE InsertRow(t)
  <2>1. PICK b \in c.todo :
          LET d == [c EXCEPT !.todo = c.todo \ {b}]
          IN \/ call' = [call EXCEPT ![t] =
                          [d EXCEPT !.step = "local", !.amt = meta_block_size]]
             \/ call' = [call EXCEPT ![t] = NextBlock(d)]
    BY <1>2 DEF InsertRow
  <2> DEFINE d == [c EXCEPT !.todo = c.todo \ {b}]
  <2>2. d \in Frame /\ Charging(d)
    BY <1>a DEF Frame, Charging
  <2>3. /\ Charging([d EXCEPT !.step = "local", !.amt = meta_block_size])
        /\ Charging(NextBlock(d))
    BY <2>2, NextBlockCharging DEF Frame, Charging
  <2>4. \A f \in Names : local_size'[f] >= 0
    BY <1>2, <1>a DEF InsertRow
  <2>5. QED
    <3> HIDE DEF d
    <3>1. CASE call' = [call EXCEPT ![t] =
                          [d EXCEPT !.step = "local", !.amt = meta_block_size]]
      BY <3>1, <2>3, <2>4, ChargeKept
    <3>2. CASE call' = [call EXCEPT ![t] = NextBlock(d)]
      BY <3>2, <2>3, <2>4, ChargeKept
    <3>3. QED  BY <2>1, <3>1, <3>2 DEF d
<1>3. CASE DeleteBlockRow(t)
  BY <1>3, <1>a DEF DeleteBlockRow, At, Charging
<1>4. CASE UpdateLocalSize(t)
  <2>1. c.amt = meta_block_size
    BY <1>4, <1>a DEF UpdateLocalSize, At, Charging
  <2>2. \A f \in Names : local_size'[f] >= 0
    BY <1>4, <1>a, <2>1, MetaAssumption
    DEF UpdateLocalSize, ChargeInv, TypeInv, TypeOK
  <2>3. Charging([c EXCEPT !.step = "load"])
    BY <1>a DEF Charging, Frame
  <2>4. QED
    BY <1>4, <2>2, <2>3, ChargeKept DEF UpdateLocalSize
<1>5. CASE SelectSize(t)
  <2> DEFINE d == [c EXCEPT !.amt = -local_size[c.name],
                            !.found = c.name \in files, !.step = "load"]
  <2>1. Charging(d)
    BY <1>a DEF Charging, Frame
  <2>2. call' = [call EXCEPT ![t] = d]
    BY <1>5 DEF SelectSize
  <2>3. \A f \in Names : local_size'[f] >= 0
    BY <1>5, <1>a DEF SelectSize
  <2>4. QED
    <3> HIDE DEF d
    <3> QED  BY <2>1, <2>2, <2>3, ChargeKept
<1>6. CASE LoadUsed(t)
  <2> DEFINE d == [c EXCEPT !.reg = used, !.step = "store"]
  <2>1. Charging(d)
    BY <1>a DEF Charging, Frame
  <2>2. call' = [call EXCEPT ![t] = d]
    BY <1>6 DEF LoadUsed
  <2>3. \A f \in Names : local_size'[f] >= 0
    BY <1>6, <1>a DEF LoadUsed
  <2>4. QED
    <3> HIDE DEF d
    <3> QED  BY <2>1, <2>2, <2>3, ChargeKept
<1>7. CASE StoreUsed(t)
  <2> DEFINE d == IF c.op = "delete_file"
                  THEN [c EXCEPT !.step = IF c.found THEN "delete" ELSE "again"]
                  ELSE NextBlock(c)
  <2>1. Charging(d)
    BY <1>a, NextBlockCharging DEF Charging, Frame
  <2>2. call' = [call EXCEPT ![t] = d]
    BY <1>7 DEF StoreUsed
  <2>3. \A f \in Names : local_size'[f] >= 0
    BY <1>7, <1>a DEF StoreUsed
  <2>4. QED
    <3> HIDE DEF d
    <3> QED  BY <2>1, <2>2, <2>3, ChargeKept
<1>8. CASE SelectAgain(t)
  <2> DEFINE d == IF c.name \in files THEN NoCall
                  ELSE [c EXCEPT !.step = "delete"]
  <2>1. Charging(d)
    BY <1>a DEF Charging, Frame, NoCall, Fresh
  <2>2. call' = [call EXCEPT ![t] = d]
    BY <1>8 DEF SelectAgain
  <2>3. \A f \in Names : local_size'[f] >= 0
    BY <1>8, <1>a DEF SelectAgain
  <2>4. QED
    <3> HIDE DEF d
    <3> QED  BY <2>1, <2>2, <2>3, ChargeKept
<1>9. CASE DeleteFileRow(t)
  <2>1. Charging(NoCall)
    BY DEF Charging, NoCall, Fresh
  <2>2. call' = [call EXCEPT ![t] = NoCall]
    BY <1>9 DEF DeleteFileRow
  <2>3. \A f \in Names : local_size'[f] >= 0
    BY <1>9, <1>a DEF DeleteFileRow, ChargeInv, TypeInv, TypeOK
  <2>4. QED  BY <2>1, <2>2, <2>3, ChargeKept
<1>10. QED
  BY <1>1, <1>2, <1>3, <1>4, <1>5, <1>6, <1>7, <1>8, <1>9 DEF MetaStep

\* So does a statement that fails.
LEMMA FailureCharge ==
  ASSUME ChargeInv, TypeInv', NEW t \in Threads, StatementFails(t)
  PROVE  ChargeInv'
<1> DEFINE c == call[t]
<1>1. c \in Frame /\ Charging(c)
  BY DEF ChargeInv, TypeInv, TypeOK
<1>2. PICK d \in Frame, e \in Frame :
        /\ call' = [call EXCEPT ![t] = d]
        /\ e.op = c.op /\ e.step = c.step /\ e.amt = c.amt
        /\ \/ d = e
           \/ d = NextBlock(e)
           \/ d = NoCall
           \/ d.op = e.op /\ d.step = "load"
  BY FailedFrame DEF ChargeInv
<1>3. Charging(e)
  BY <1>1, <1>2 DEF Charging
<1>4. Charging(d)
  <2>1. Charging(NoCall)
    BY DEF Charging, NoCall, Fresh
  <2>2. CASE d.op = e.op /\ d.step = "load"
    BY <1>3, <2>2 DEF Charging
  <2>3. QED  BY <1>2, <1>3, <2>1, <2>2, NextBlockCharging
<1>5. \A f \in Names : local_size'[f] >= 0
  BY FailedFrame DEF ChargeInv, SizesNonNegative
<1>6. QED
  BY <1>2, <1>4, <1>5, ChargeKept

\* The calls of cachefs.c and a restart keep ChargeInv.
LEMMA ChargeInductive ==
  ASSUME ChargeInv, [NextFS]_metaVars
  PROVE  ChargeInv'
<1>1. NextFS => Next
  BY DEF NextFS, Next, APICall
<1>2. TypeInv'
  BY <1>1, TypeInductive DEF ChargeInv
<1>3. ASSUME NEW t \in Threads, NEW f \in Names, create_file(t, f)
      PROVE  ChargeInv'
  BY <1>2, <1>3 DEF create_file, ChargeInv, SizesNonNegative
<1>4. ASSUME NEW t \in Threads, NEW f \in Names, NEW B \in SUBSET Blocks,
             write_blks(t, f, B) \/ delete_file(t, f)
      PROVE  ChargeInv'
  <2>1. /\ Charging(Fresh("write_blks", "check", f, B))
        /\ Charging(Fresh("delete_file", "select", f, {}))
    BY DEF Charging, Fresh
  <2>2. \A g \in Names : local_size'[g] >= 0
    BY <1>4 DEF write_blks, delete_file, Enter, ChargeInv, SizesNonNegative
  <2>3. CASE write_blks(t, f, B)
    BY <1>2, <2>1, <2>2, <2>3, ChargeKept DEF write_blks, Enter
  <2>4. CASE delete_file(t, f)
    BY <1>2, <2>1, <2>2, <2>4, ChargeKept DEF delete_file, Enter
  <2>5. QED  BY <1>4, <2>3, <2>4
<1>5. CASE init_cache_used_size
  <2>1. \A t \in Threads : Charging(call'[t])
    BY <1>5 DEF init_cache_used_size, Charging, NoCall, Fresh
  <2>2. QED
    BY <1>2, <1>5, <2>1 DEF init_cache_used_size, ChargeInv, SizesNonNegative
<1>6. CASE UNCHANGED metaVars
  BY <1>2, <1>6 DEF metaVars, ChargeInv, SizesNonNegative
<1>7. QED
  BY <1>2, <1>3, <1>4, <1>5, <1>6, StepCharge, FailureCharge
  DEF NextFS, FSCall, WriterCall

\* Whatever calls of the file system overlap and wherever it is killed, no
\* local_size is negative: the delete_file that resets a size leaves an UPDATE
\* it overtook nothing to subtract from (meta.c:160, meta.c:371).
THEOREM SizesCorrect == SpecFS => []SizesNonNegative
<1>1. MetaInit => ChargeInv
  <2>1. ASSUME MetaInit PROVE \A t \in Threads : Charging(call[t])
    BY <2>1 DEF MetaInit, Charging, NoCall, Fresh
  <2>2. MetaInit => TypeInv
    BY TypeInductive
  <2>3. QED
    BY <2>1, <2>2 DEF MetaInit, ChargeInv, SizesNonNegative
<1>2. ChargeInv => SizesNonNegative
  BY DEF ChargeInv
<1>3. QED
  BY <1>1, <1>2, ChargeInductive, PTL DEF SpecFS
---------------------------------------------------------------------------
(***************************************************************************)
(* The sum of a function over a finite set: the fold of the library is     *)
(* well defined, takes its terms in any order, and depends on them alone.  *)
(***************************************************************************)
\* Induction over the subsets of a finite set.
LEMMA SubsetInduction ==
  ASSUME NEW S, IsFiniteSet(S), NEW X,
         \A T \in SUBSET S : (\A U \in SUBSET T : U # T => U \in X) => T \in X
  PROVE  \A T \in SUBSET S : T \in X
<1> DEFINE R   == StrictSubsetOrdering(S)
           Bad == {T \in SUBSET S : T \notin X}
<1> SUFFICES ASSUME Bad # {}  PROVE FALSE
  OBVIOUS
<1>1. IsWellFoundedOn(R, SUBSET S)
  <2>1. FiniteSubsetsOf(S) = SUBSET S
    BY FS_FiniteSubsetsOfFinite
  <2>2. IsWellFoundedOn(R, FiniteSubsetsOf(S))
    BY FS_StrictSubsetOrderingWellFounded
  <2> HIDE DEF R
  <2>3. QED  BY <2>1, <2>2
<1>2. PICK T \in Bad : \A U \in Bad : ~(<<U, T>> \in R)
  <2>1. Bad \subseteq SUBSET S
    OBVIOUS
  <2> HIDE DEF R, Bad
  <2>2. QED  BY <1>1, <2>1, WFMin
<1>3. \A U \in SUBSET T : U # T => <<U, T>> \in R
  BY DEF StrictSubsetOrdering
<1>4. ASSUME NEW U \in SUBSET T, U # T  PROVE U \in X
  <2> HIDE DEF R
  <2>1. <<U, T>> \in R
    BY <1>3, <1>4
  <2>2. U \notin Bad
    BY <1>2, <2>1
  <2>3. U \in SUBSET S
    OBVIOUS
  <2>4. QED  BY <2>2, <2>3
<1>5. T \in X
  BY <1>4
<1>6. QED  BY <1>2, <1>5

\* g maps the subsets of S to the sums of f over them.
IsSum(g, f, S) ==
  g = [s \in SUBSET S |->
         IF s = {} THEN 0
         ELSE LET x == CHOOSE x \in s : TRUE IN f[x] + g[s \ {x}]]

SumOf(f, S) == (CHOOSE g : IsSum(g, f, S))[S]

\* The fold of the library is this sum.
LEMMA SumIs ==
  ASSUME NEW f, NEW S
  PROVE  SumFunctionOnSet(f, S) = SumOf(f, S)
  BY DEF SumFunctionOnSet, FoldFunctionOnSet, MapThenFoldSet, IsSum, SumOf

\* There is one such map at most ...
LEMMA SumUnique ==
  ASSUME NEW S, IsFiniteSet(S), NEW f, NEW g, NEW h, IsSum(g, f, S), IsSum(h, f, S)
  PROVE  g = h
<1> DEFINE X == {s \in SUBSET S : g[s] = h[s]}
<1>1. ASSUME NEW T \in SUBSET S, \A U \in SUBSET T : U # T => U \in X
      PROVE  T \in X
  <2>1. CASE T = {}
    BY <2>1 DEF IsSum
  <2>2. CASE T # {}
    <3> DEFINE x == CHOOSE x \in T : TRUE
    <3>1. x \in T
      BY <2>2
    <3>2. g[T] = f[x] + g[T \ {x}] /\ h[T] = f[x] + h[T \ {x}]
      BY <2>2 DEF IsSum
    <3> HIDE DEF x
    <3>3. T \ {x} \in X
      BY <1>1, <3>1
    <3>4. QED  BY <3>2, <3>3
  <2>3. QED  BY <2>1, <2>2
<1>2. \A T \in SUBSET S : T \in X
  <2> HIDE DEF X
  <2>1. QED  BY <1>1, SubsetInduction
<1>3. QED  BY <1>2 DEF IsSum

\* ... it has one for each subset in it ...
LEMMA SumPart ==
  ASSUME NEW S, NEW f, NEW g, IsSum(g, f, S), NEW T \in SUBSET S
  PROVE  IsSum([s \in SUBSET T |-> g[s]], f, T)
<1> DEFINE h == [s \in SUBSET T |-> g[s]]
<1>1. ASSUME NEW s \in SUBSET T
      PROVE  h[s] = IF s = {} THEN 0
                    ELSE LET x == CHOOSE x \in s : TRUE IN f[x] + h[s \ {x}]
  <2>1. s \in SUBSET S
    OBVIOUS
  <2>2. \A x : h[s \ {x}] = g[s \ {x}]
    OBVIOUS
  <2>3. h[s] = g[s]
    OBVIOUS
  <2> HIDE DEF h
  <2>4. QED  BY <2>1, <2>2, <2>3 DEF IsSum
<1>2. h = [s \in SUBSET T |-> h[s]]
  OBVIOUS
<1> HIDE DEF h
<1>3. IsSum(h, f, T)
  BY <1>1, <1>2 DEF IsSum
<1>4. QED  BY <1>3 DEF h

\* ... and there is one.
LEMMA SumExists ==
  ASSUME NEW S, IsFiniteSet(S), NEW f
  PROVE  \A T \in SUBSET S : \E g : IsSum(g, f, T)
<1> DEFINE X == {T \in SUBSET S : \E g : IsSum(g, f, T)}
<1>1. ASSUME NEW T \in SUBSET S, \A U \in SUBSET T : U # T => U \in X
      PROVE  T \in X
  <2> DEFINE h == [s \in SUBSET T |->
                     IF s = {} THEN 0
                     ELSE LET x == CHOOSE x \in s : TRUE IN f[x] + SumOf(f, s \ {x})]
  <2>1. ASSUME NEW u \in SUBSET T, u # T  PROVE h[u] = SumOf(f, u)
    <3> DEFINE g == CHOOSE g : IsSum(g, f, u)
    <3>1. IsSum(g, f, u)
      BY <1>1, <2>1
    <3>2. SumOf(f, u) = g[u]
      BY DEF SumOf
    <3> HIDE DEF g
    <3>3. CASE u = {}
      BY <3>1, <3>2, <3>3 DEF IsSum
    <3>4. CASE u # {}
      <4> DEFINE x == CHOOSE x \in u : TRUE
      <4>1. h[u] = f[x] + SumOf(f, u \ {x})
        BY <3>4
      <4>2. g[u] = f[x] + g[u \ {x}]
        BY <3>1, <3>4 DEF IsSum
      <4>3. SumOf(f, u \ {x}) = g[u \ {x}]
        <5> DEFINE v  == u \ {x}
                   g1 == [s \in SUBSET v |-> g[s]]
                   g2 == CHOOSE k : IsSum(k, f, v)
        <5>1. v \in SUBSET u /\ v \in SUBSET S /\ v \in SUBSET T /\ v # T
          <6>1. x \in u
            BY <3>4
          <6>2. QED  BY <2>1, <6>1
        <5>2. g1[v] = g[v]
          OBVIOUS
        <5> HIDE DEF v
        <5>3. IsSum(g1, f, v)
          BY <3>1, <5>1, SumPart
        <5>4. IsSum(g2, f, v)
          BY <5>3
        <5>5. IsFiniteSet(v)
          BY <5>1, FS_Subset
        <5> HIDE DEF g1, g2
        <5>6. g1 = g2
          BY <5>3, <5>4, <5>5, SumUnique
        <5>7. SumOf(f, v) = g2[v]
          BY DEF SumOf, g2
        <5>8. QED  BY <5>2, <5>6, <5>7 DEF v
      <4>4. QED  BY <3>2, <4>1, <4>2, <4>3
    <3>5. QED  BY <3>3, <3>4
  <2>2. ASSUME NEW s \in SUBSET T
        PROVE  h[s] = IF s = {} THEN 0
                      ELSE LET x == CHOOSE x \in s : TRUE IN f[x] + h[s \ {x}]
    <3>1. CASE s = {}
      BY <3>1
    <3>2. CASE s # {}
      <4> DEFINE x == CHOOSE x \in s : TRUE
      <4>1. h[s] = f[x] + SumOf(f, s \ {x})
        BY <3>2
      <4>2. x \in s
        BY <3>2
      <4> HIDE DEF h
      <4>3. s \ {x} \in SUBSET T /\ s \ {x} # T
        BY <4>2
      <4>4. h[s \ {x}] = SumOf(f, s \ {x})
        BY <2>1, <4>3
      <4>5. QED  BY <3>2, <4>1, <4>4
    <3>3. QED  BY <3>1, <3>2
  <2>3. h = [s \in SUBSET T |-> h[s]]
    OBVIOUS
  <2> HIDE DEF h
  <2>4. IsSum(h, f, T)
    BY <2>2, <2>3 DEF IsSum
  <2>5. QED  BY <2>4
<1>2. \A T \in SUBSET S : T \in X
  <2> HIDE DEF X
  <2>1. QED  BY <1>1, SubsetInduction
<1>3. QED  BY <1>2

\* A sum over a set, with the term that the library takes first.
LEMMA SumStep ==
  ASSUME NEW S, IsFiniteSet(S), NEW f
  PROVE  /\ SumOf(f, {}) = 0
         /\ S # {} => LET x == CHOOSE x \in S : TRUE
                      IN SumOf(f, S) = f[x] + SumOf(f, S \ {x})
<1> DEFINE g == CHOOSE g : IsSum(g, f, S)
<1>1. IsSum(g, f, S)
  BY SumExists
<1> HIDE DEF g
<1>2. ASSUME NEW T \in SUBSET S  PROVE SumOf(f, T) = g[T]
  <2> DEFINE g1 == [s \in SUBSET T |-> g[s]]
             g2 == CHOOSE k : IsSum(k, f, T)
  <2>1. IsSum(g1, f, T) /\ g1[T] = g[T]
    BY <1>1, SumPart
  <2>2. IsSum(g2, f, T)
    BY <2>1
  <2> HIDE DEF g1, g2
  <2>3. IsFiniteSet(T)
    BY FS_Subset
  <2>4. g1 = g2
    BY <2>1, <2>2, <2>3, SumUnique
  <2>5. QED  BY <2>1, <2>4 DEF SumOf, g2
<1>3. SumOf(f, {}) = 0
  BY <1>1, <1>2 DEF IsSum
<1>4. ASSUME S # {}
      PROVE  LET x == CHOOSE x \in S : TRUE
             IN SumOf(f, S) = f[x] + SumOf(f, S \ {x})
  <2> DEFINE x == CHOOSE x \in S : TRUE
  <2>1. g[S] = f[x] + g[S \ {x}]
    BY <1>1, <1>4 DEF IsSum
  <2>2. SumOf(f, S) = g[S] /\ SumOf(f, S \ {x}) = g[S \ {x}]
    BY <1>2
  <2>3. QED  BY <2>1, <2>2
<1>5. QED  BY <1>3, <1>4

\* Any term can be taken first.
LEMMA SumTake ==
  ASSUME NEW S, IsFiniteSet(S), NEW f, \A x \in S : f[x] \in Int
  PROVE  \A T \in SUBSET S :
           /\ SumOf(f, T) \in Int
           /\ \A x \in T : SumOf(f, T) = f[x] + SumOf(f, T \ {x})
<1> DEFINE X == {T \in SUBSET S :
                   /\ SumOf(f, T) \in Int
                   /\ \A x \in T : SumOf(f, T) = f[x] + SumOf(f, T \ {x})}
<1>1. ASSUME NEW T \in SUBSET S, \A U \in SUBSET T : U # T => U \in X
      PROVE  T \in X
  <2>1. CASE T = {}
    BY <2>1, SumStep
  <2>2. CASE T # {}
    <3> DEFINE c == CHOOSE c \in T : TRUE
    <3>1. c \in T /\ IsFiniteSet(T)
      BY <2>2, FS_Subset
    <3>2. SumOf(f, T) = f[c] + SumOf(f, T \ {c})
      BY <2>2, <3>1, SumStep
    <3> HIDE DEF c
    <3>3. \A x \in T : T \ {x} \in X
      BY <1>1
    <3>4. SumOf(f, T) \in Int
      BY <3>1, <3>2, <3>3
    <3>5. ASSUME NEW x \in T  PROVE SumOf(f, T) = f[x] + SumOf(f, T \ {x})
      <4>1. CASE x = c
        BY <3>2, <4>1
      <4>2. CASE x # c
        <5> DEFINE U == T \ {x}
                   V == T \ {c}
        <5>1. U \in X /\ V \in X /\ c \in U /\ x \in V /\ U \ {c} = V \ {x}
          BY <3>1, <3>3, <4>2
        <5>2. SumOf(f, U) = f[c] + SumOf(f, U \ {c})
          BY <5>1
        <5>3. SumOf(f, V) = f[x] + SumOf(f, V \ {x})
          BY <5>1
        <5>4. SumOf(f, V \ {x}) \in Int /\ f[x] \in Int /\ f[c] \in Int
          <6>1. V \ {x} \in SUBSET T /\ V \ {x} # T
            BY <3>1
          <6>2. QED  BY <1>1, <3>1, <6>1
        <5>5. SumOf(f, T) = f[c] + SumOf(f, V)
          BY <3>2
        <5>6. /\ SumOf(f, T) = f[c] + (f[x] + SumOf(f, V \ {x}))
              /\ SumOf(f, U) = f[c] + SumOf(f, V \ {x})
          BY <5>1, <5>2, <5>3, <5>5
        <5> HIDE DEF U, V, X
        <5>7. SumOf(f, T) = f[x] + SumOf(f, U)
          BY ONLY <5>4, <5>6
        <5>8. QED  BY <5>7 DEF U
      <4>3. QED  BY <4>1, <4>2
    <3>6. QED  BY <3>4, <3>5
  <2>3. QED  BY <2>1, <2>2
<1>2. \A T \in SUBSET S : T \in X
  <2> HIDE DEF X
  <2>1. QED  BY <1>1, SubsetInduction
<1>3. QED  BY <1>2

\* Only the terms count.
LEMMA SumSame ==
  ASSUME NEW S, IsFiniteSet(S), NEW f, NEW g, \A x \in S : f[x] = g[x]
  PROVE  SumOf(f, S) = SumOf(g, S)
<1> DEFINE X == {T \in SUBSET S : SumOf(f, T) = SumOf(g, T)}
<1>1. ASSUME NEW T \in SUBSET S, \A U \in SUBSET T : U # T => U \in X
      PROVE  T \in X
  <2>1. CASE T = {}
    BY <2>1, SumStep
  <2>2. CASE T # {}
    <3> DEFINE c == CHOOSE c \in T : TRUE
    <3>1. c \in T /\ IsFiniteSet(T)
      BY <2>2, FS_Subset
    <3>2. /\ SumOf(f, T) = f[c] + SumOf(f, T \ {c})
          /\ SumOf(g, T) = g[c] + SumOf(g, T \ {c})
      BY <2>2, <3>1, SumStep
    <3> HIDE DEF c
    <3>3. QED  BY <1>1, <3>1, <3>2
  <2>3. QED  BY <2>1, <2>2
<1>2. \A T \in SUBSET S : T \in X
  <2> HIDE DEF X
  <2>1. QED  BY <1>1, SubsetInduction
<1>3. QED  BY <1>2

---------------------------------------------------------------------------
(***************************************************************************)
(* cache_used_size against SUM(local_size), for threads that record        *)
(* blocks.  Between its UPDATE and the store a thread owes the counter one *)
(* block; and what it has loaded may be older than what others have stored *)
(* since, but never more than the tables without the blocks owed.          *)
(***************************************************************************)
Owing == {t \in Threads : call[t].step \in {"load", "store"}}

Covered(n) == n + meta_block_size * Cardinality(Owing) <= SumLocal

CounterInv ==
  /\ WriterInv
  /\ \A f \in Names : f \notin files => local_size[f] = 0
  /\ \A t \in Owing : call[t].amt = meta_block_size
  /\ Covered(used)
  /\ \A t \in Threads : At(t, "store") => Covered(call[t].reg)

\* The sum of the sizes is a number.
LEMMA SumLocalType ==
  ASSUME TypeOK
  PROVE  SumLocal = SumOf(local_size, files) /\ SumLocal \in Int
<1>1. SumLocal = SumOf(local_size, files)
  BY SumIs DEF SumLocal
<1>2. IsFiniteSet(files) /\ \A f \in files : local_size[f] \in Int
  BY MetaAssumption, FS_Subset DEF TypeOK
<1>3. SumOf(local_size, files) \in Int
  BY <1>2, SumTake
<1>4. QED  BY <1>1, <1>3

\* An UPDATE adds to the sum what it adds to the size.
LEMMA SumGrows ==
  ASSUME TypeOK, NEW f \in files, NEW n \in Int, files' = files,
         local_size' = [local_size EXCEPT ![f] = @ + n]
  PROVE  SumLocal' = SumLocal + n
<1>1. /\ IsFiniteSet(files) /\ f \in Names
      /\ \A g \in files : local_size[g] \in Int /\ local_size'[g] \in Int
      /\ \A g \in files \ {f} : local_size'[g] = local_size[g]
      /\ local_size'[f] = local_size[f] + n
  BY MetaAssumption, FS_Subset DEF TypeOK
<1>2. SumLocal = SumOf(local_size, files) /\ SumLocal' = SumOf(local_size', files)
  BY SumIs DEF SumLocal
<1>3. SumOf(local_size, files) = local_size[f] + SumOf(local_size, files \ {f})
  BY <1>1, SumTake
<1>4. SumOf(local_size', files) = local_size'[f] + SumOf(local_size', files \ {f})
  <2> DEFINE g == local_size'
  <2>1. \A x \in files : g[x] \in Int
    BY <1>1
  <2> HIDE DEF g
  <2>2. SumOf(g, files) = g[f] + SumOf(g, files \ {f})
    BY <1>1, <2>1, SumTake
  <2>3. QED  BY <2>2 DEF g
<1>5. SumOf(local_size', files \ {f}) = SumOf(local_size, files \ {f})
  <2>1. IsFiniteSet(files \ {f})
    BY <1>1, FS_RemoveElement
  <2>2. QED  BY <1>1, <2>1, SumSame
<1>6. SumOf(local_size, files \ {f}) \in Int
  BY <1>1, SumTake
<1>7. local_size[f] \in Int
  BY <1>1
<1>8. QED  BY <1>1, <1>2, <1>3, <1>4, <1>5, <1>6, <1>7

\* A new file adds nothing.
LEMMA SumNew ==
  ASSUME TypeOK, NEW f \in Names, f \notin files => local_size[f] = 0,
         files' = files \cup {f}, local_size' = local_size
  PROVE  SumLocal' = SumLocal
<1>1. IsFiniteSet(files') /\ \A g \in files' : local_size[g] \in Int
  <2>1. files' \in SUBSET Names
    BY DEF TypeOK
  <2>2. QED  BY <2>1, MetaAssumption, FS_Subset DEF TypeOK
<1>2. SumLocal = SumOf(local_size, files) /\ SumLocal' = SumOf(local_size, files')
  BY SumIs DEF SumLocal
<1>3. CASE f \in files
  <2>1. files' = files
    BY <1>3
  <2>2. QED  BY <1>2, <2>1
<1>4. CASE f \notin files
  <2>1. files' \ {f} = files
    BY <1>4
  <2>2. SumOf(local_size, files') = local_size[f] + SumOf(local_size, files)
    BY <1>1, <2>1, SumTake
  <2>3. SumOf(local_size, files) \in Int
    BY <1>2, SumLocalType
  <2>4. QED  BY <1>2, <1>4, <2>2, <2>3
<1>5. QED  BY <1>3, <1>4

\* A remainder is not more than the number.
LEMMA WrapBelow == \A n \in Nat : Wrap(n) <= n
<1> SUFFICES ASSUME NEW n \in Nat  PROVE Wrap(n) <= n
  OBVIOUS
<1> DEFINE q == n \div SizeMod
<1>1. SizeMod \in Nat \ {0}
  BY MetaAssumption
<1>2. n = SizeMod * q + (n % SizeMod) /\ q \in Nat
  BY <1>1
<1>3. SizeMod * q \in Nat
  BY <1>1, <1>2
<1>4. n % SizeMod \in Int
  BY <1>1
<1> HIDE DEF q
<1>5. QED  BY <1>2, <1>3, <1>4 DEF Wrap

\* Finitely many threads owe the counter a block.
LEMMA OwingCount == IsFiniteSet(Owing) /\ Cardinality(Owing) \in Nat
  BY FS_Subset, FS_CardinalityType, MetaAssumption DEF Owing

\* If the debt and the sum are the same, what was covered is.
LEMMA CoveredKept ==
  ASSUME NEW n \in Nat, Covered(n), Owing' = Owing, SumLocal' = SumLocal
  PROVE  n + meta_block_size * Cardinality(Owing') <= SumLocal'
  BY DEF Covered

\* A thread that starts to owe a block has added one to the sum.
LEMMA CoveredMore ==
  ASSUME NEW n \in Nat, Covered(n), NEW t \in Threads, t \notin Owing,
         Owing' = Owing \cup {t}, SumLocal' = SumLocal + meta_block_size,
         SumLocal \in Int
  PROVE  n + meta_block_size * Cardinality(Owing') <= SumLocal'
<1> DEFINE m == Cardinality(Owing)
<1>1. m \in Nat /\ Cardinality(Owing') = m + 1
  BY OwingCount, FS_AddElement
<1>2. meta_block_size * (m + 1) = meta_block_size * m + meta_block_size
  BY <1>1, OneBlockMore
<1>3. n + meta_block_size * m <= SumLocal
  BY DEF Covered
<1>4. meta_block_size * m \in Int /\ meta_block_size \in Int
  BY <1>1, MetaAssumption
<1> HIDE DEF m
<1>5. n + (meta_block_size * m + meta_block_size) <= SumLocal + meta_block_size
  BY ONLY <1>3, <1>4, n \in Nat, SumLocal \in Int
<1>6. QED  BY <1>1, <1>2, <1>5

\* A thread that owes a block no more leaves room for it.
LEMMA CoveredLess ==
  ASSUME NEW n \in Nat, Covered(n), NEW t \in Owing,
         Owing' = Owing \ {t}, SumLocal' = SumLocal, SumLocal \in Int
  PROVE  (n + meta_block_size) + meta_block_size * Cardinality(Owing') <= SumLocal'
<1> DEFINE m == Cardinality(Owing')
<1>1. m \in Nat /\ Cardinality(Owing) = m + 1
  <2>1. Cardinality(Owing') = Cardinality(Owing) - 1 /\ IsFiniteSet(Owing')
    BY OwingCount, FS_RemoveElement
  <2>2. m \in Nat
    BY <2>1, FS_CardinalityType
  <2>3. QED  BY <2>1, <2>2, OwingCount
<1>2. meta_block_size * (m + 1) = meta_block_size * m + meta_block_size
  BY <1>1, OneBlockMore
<1>3. n + (meta_block_size * m + meta_block_size) <= SumLocal
  BY <1>1, <1>2 DEF Covered
<1>4. meta_block_size * m \in Int /\ meta_block_size \in Int
  BY <1>1, MetaAssumption
<1> HIDE DEF m
<1>5. (n + meta_block_size) + meta_block_size * m <= SumLocal
  BY ONLY <1>3, <1>4, n \in Nat, SumLocal \in Int
<1>6. QED  BY <1>5 DEF m

\* What a step of thread t does to the counter, the sum and the debt.
Recorder(t) ==
  \/ /\ used' = used /\ UNCHANGED local_size /\ t \notin Owing
     /\ call'[t].step \notin {"load", "store"}
     /\ \/ files' = files
        \/ \E f \in Names : files' = files \cup {f}
  \/ /\ used' = used /\ files' = files /\ t \notin Owing
     /\ call'[t].step = "load" /\ call'[t].amt = meta_block_size
     /\ \E f \in files :
          local_size' = [local_size EXCEPT ![f] = @ + meta_block_size]
  \/ /\ used' = used /\ UNCHANGED <<files, local_size>>
     /\ At(t, "load") /\ call'[t].step = "store"
     /\ call'[t].amt = call[t].amt /\ call'[t].reg = used
  \/ /\ used' = Wrap(call[t].reg + call[t].amt) /\ UNCHANGED <<files, local_size>>
     /\ At(t, "store") /\ call'[t].step \notin {"load", "store"}

\* NextBlock neither loads nor stores.
LEMMA NextBlockPaid ==
  ASSUME NEW c \in Frame
  PROVE  NextBlock(c).step \notin {"load", "store"}
  BY DEF NextBlock, NoCall, Fresh, Frame

\* A call that starts, a statement and one that fails are steps of Recorder.
LEMMA RecorderStep ==
  ASSUME WriterInv, NEW t \in Threads,
         WriterCall(t) \/ MetaStep(t) \/ StatementFails(t)
  PROVE  Recorder(t) /\ \A u \in Threads \ {t} : call'[u] = call[u]
<1> DEFINE c == call[t]
<1>a. c \in Frame /\ Recording(c) /\ call \in [Threads -> Frame]
  BY DEF WriterInv, TypeInv, TypeOK
<1>1. CASE WriterCall(t)
  <2>1. ASSUME NEW f \in Names, create_file(t, f)  PROVE Recorder(t) /\ call' = call
    BY <2>1 DEF create_file, Recorder, Owing, Idle, At
  <2>2. ASSUME NEW f \in Names, NEW B \in SUBSET Blocks, write_blks(t, f, B)
        PROVE  Recorder(t) /\ \A u \in Threads \ {t} : call'[u] = call[u]
    <3>1. call'[t].step = "check" /\ \A u \in Threads \ {t} : call'[u] = call[u]
      BY <1>a, <2>2 DEF write_blks, Enter, Fresh
    <3>2. t \notin Owing /\ UNCHANGED <<files, local_size, used>>
      BY <2>2 DEF write_blks, Enter, Owing, Idle, At
    <3>3. QED  BY <3>1, <3>2 DEF Recorder
  <2>3. QED  BY <1>1, <2>1, <2>2 DEF WriterCall
<1>2. CASE is_blk_in_cache(t)
  <2>1. /\ UNCHANGED <<files, local_size, used>> /\ t \notin Owing
        /\ \A u \in Threads \ {t} : call'[u] = call[u]
    BY <1>2, <1>a DEF is_blk_in_cache, Owing, At
  <2>2. PICK b \in c.todo, miss \in SUBSET Blocks :
          call' = [call EXCEPT ![t] =
                     IF c.todo \ {b} # {}
                     THEN [c EXCEPT !.todo = c.todo \ {b}, !.miss = miss]
                     ELSE NextBlock([c EXCEPT !.todo = miss, !.miss = {}])]
    BY <1>2, <1>a DEF is_blk_in_cache, Frame
  <2>3. [c EXCEPT !.todo = miss, !.miss = {}] \in Frame
    <3>1. {} \in SUBSET Blocks
      OBVIOUS
    <3> HIDE DEF c
    <3>2. QED  BY <1>a, <3>1, FrameMiss
  <2>4. [c EXCEPT !.todo = c.todo \ {b}, !.miss = miss].step = c.step
    BY <1>a DEF Frame
  <2>5. c.step = "check"
    BY <1>2 DEF is_blk_in_cache, At
  <2>6. call'[t].step \notin {"load", "store"}
    <3>1. CASE c.todo \ {b} # {}
      <4>1. call'[t] = [c EXCEPT !.todo = c.todo \ {b}, !.miss = miss]
        BY <1>a, <2>2, <3>1
      <4>2. QED  BY <2>4, <2>5, <4>1
    <3>2. CASE c.todo \ {b} = {}
      <4>1. call'[t] = NextBlock([c EXCEPT !.todo = miss, !.miss = {}])
        BY <1>a, <2>2, <3>2
      <4>2. QED  BY <2>3, <4>1, NextBlockPaid
    <3>3. QED  BY <3>1, <3>2
  <2>7. QED  BY <2>1, <2>6 DEF Recorder
<1>3. CASE InsertRow(t)
  <2>1. /\ UNCHANGED <<files, local_size, used>> /\ t \notin Owing
        /\ \A u \in Threads \ {t} : call'[u] = call[u]
    BY <1>3, <1>a DEF InsertRow, Owing, At
  <2>2. PICK b \in c.todo :
          LET d == [c EXCEPT !.todo = c.todo \ {b}]
          IN \/ call' = [call EXCEPT ![t] =
                          [d EXCEPT !.step = "local", !.amt = meta_block_size]]
             \/ call' = [call EXCEPT ![t] = NextBlock(d)]
    BY <1>3 DEF InsertRow
  <2> DEFINE d == [c EXCEPT !.todo = c.todo \ {b}]
  <2>3. d \in Frame
    BY <1>a DEF Frame
  <2> HIDE DEF d
  <2>4. call'[t] = [d EXCEPT !.step = "local", !.amt = meta_block_size]
          \/ call'[t] = NextBlock(d)
    BY <1>a, <2>2 DEF d
  <2>5. [d EXCEPT !.step = "local", !.amt = meta_block_size].step = "local"
    BY <2>3 DEF Frame
  <2>6. QED  BY <2>1, <2>3, <2>4, <2>5, NextBlockPaid DEF Recorder
<1>4. CASE UpdateLocalSize(t)
  <2>1. /\ c.step = "local" /\ c.amt = meta_block_size /\ c.name \in files
    BY <1>4, <1>a DEF UpdateLocalSize, At, Recording, WriterInv
  <2>2. /\ call' = [call EXCEPT ![t] = [c EXCEPT !.step = "load"]]
        /\ UNCHANGED <<files, used>>
        /\ local_size' = [local_size EXCEPT ![c.name] = @ + c.amt]
    BY <1>4, <2>1 DEF UpdateLocalSize
  <2>3. call'[t].step = "load" /\ call'[t].amt = c.amt
    BY <1>a, <2>2 DEF Frame
  <2>4. QED  BY <1>a, <2>1, <2>2, <2>3 DEF Recorder, Owing
<1>5. CASE LoadUsed(t)
  <2>1. /\ call' = [call EXCEPT ![t] = [c EXCEPT !.reg = used, !.step = "store"]]
        /\ UNCHANGED <<files, local_size, used>> /\ At(t, "load")
    BY <1>5, <1>a, Zenon DEF LoadUsed
  <2>2. call'[t].step = "store" /\ call'[t].amt = c.amt /\ call'[t].reg = used
    BY <1>a, <2>1 DEF Frame
  <2>3. QED  BY <1>a, <2>1, <2>2 DEF Recorder
<1>6. CASE StoreUsed(t)
  <2>1. /\ call' = [call EXCEPT ![t] = NextBlock(c)] /\ At(t, "store")
        /\ used' = Wrap(c.reg + c.amt) /\ UNCHANGED <<files, local_size>>
    BY <1>6, <1>a DEF StoreUsed, Recording
  <2>2. QED  BY <1>a, <2>1, NextBlockPaid DEF Recorder
<1>7. CASE StatementFails(t)
  <2>1. PICK d \in Frame, e \in Frame :
          /\ call' = [call EXCEPT ![t] = d]
          /\ e.op = c.op /\ e.step = c.step
          /\ \/ d = e /\ c.step = "check"
             \/ d = NextBlock(e)
             \/ d = NoCall
             \/ d.op = e.op /\ d.step = "load" /\ c.step = "select"
    BY <1>7, FailedFrame DEF WriterInv
  <2>2. c.step # "select" /\ t \notin Owing
    BY <1>7, <1>a DEF StatementFails, CheckFails, RowFails, SizeFails,
       SelectFails, DeleteFails, At, Owing, Recording, WriterSteps
  <2>3. d.step \notin {"load", "store"}
    <3>1. NoCall.step = "idle"
      BY DEF NoCall, Fresh
    <3> HIDE DEF c
    <3>2. QED  BY <2>1, <2>2, <3>1, NextBlockPaid
  <2>4. call'[t] = d /\ \A u \in Threads \ {t} : call'[u] = call[u]
    BY <1>a, <2>1
  <2>5. UNCHANGED <<files, local_size, used>>
    BY <1>7, FailedFrame DEF WriterInv
  <2>6. QED  BY <2>2, <2>3, <2>4, <2>5 DEF Recorder
<1>8. CASE \/ DeleteBlockRow(t) \/ SelectSize(t) \/ SelectAgain(t)
           \/ DeleteFileRow(t)
  BY <1>8, <1>a DEF DeleteBlockRow, SelectSize, SelectAgain, DeleteFileRow,
                    At, Recording, WriterSteps
<1>9. QED
  BY <1>1, <1>2, <1>3, <1>4, <1>5, <1>6, <1>7, <1>8 DEF MetaStep

\* A step of Recorder keeps CounterInv.
LEMMA RecorderCounts ==
  ASSUME CounterInv, WriterInv', NEW t \in Threads, Recorder(t),
         \A u \in Threads \ {t} : call'[u] = call[u]
  PROVE  CounterInv'
<1>1. /\ TypeOK /\ used \in Nat /\ SumLocal \in Int
      /\ \A u \in Threads : call[u].reg \in Nat
  BY SumLocalType, MetaAssumption DEF CounterInv, WriterInv, TypeInv, TypeOK, Frame
<1>2. TypeOK' /\ call' \in [Threads -> Frame]
  BY DEF WriterInv, TypeInv, TypeOK
<1>3. \A u \in Threads \ {t} : u \in Owing' <=> u \in Owing
  BY DEF Owing
<1>4. CASE /\ used' = used /\ UNCHANGED local_size /\ t \notin Owing
           /\ call'[t].step \notin {"load", "store"}
           /\ \/ files' = files
              \/ \E f \in Names : files' = files \cup {f}
  <2>1. Owing' = Owing
    BY <1>3, <1>4 DEF Owing
  <2>2. SumLocal' = SumLocal
    <3>1. CASE files' = files
      BY <1>4, <3>1 DEF SumLocal
    <3>2. CASE \E f \in Names : files' = files \cup {f}
      BY <1>1, <1>4, <3>2, SumNew DEF CounterInv
    <3>3. QED  BY <1>4, <3>1, <3>2
  <2>3. \A f \in Names : f \notin files' => local_size'[f] = 0
    BY <1>4 DEF CounterInv
  <2>4. \A u \in Owing' : call'[u].amt = meta_block_size
    BY <1>4, <2>1 DEF CounterInv, Owing
  <2>5. Covered(used)'
    BY <1>1, <1>4, <2>1, <2>2, CoveredKept DEF CounterInv, Covered
  <2>6. ASSUME NEW u \in Threads, At(u, "store")'
        PROVE  Covered(call[u].reg)'
    <3>1. u # t /\ call'[u] = call[u] /\ At(u, "store")
      BY <1>4, <2>6 DEF At
    <3>2. Covered(call[u].reg)
      BY <3>1 DEF CounterInv
    <3>3. QED  BY <1>1, <2>1, <2>2, <3>1, <3>2, CoveredKept DEF Covered
  <2>7. QED  BY <2>3, <2>4, <2>5, <2>6 DEF CounterInv
<1>5. CASE /\ used' = used /\ files' = files /\ t \notin Owing
           /\ call'[t].step = "load" /\ call'[t].amt = meta_block_size
           /\ \E f \in files :
                local_size' = [local_size EXCEPT ![f] = @ + meta_block_size]
  <2>1. Owing' = Owing \cup {t}
    BY <1>3, <1>5 DEF Owing
  <2>2. SumLocal' = SumLocal + meta_block_size
    <3>1. PICK f \in files :
            local_size' = [local_size EXCEPT ![f] = @ + meta_block_size]
      BY <1>5
    <3>2. meta_block_size \in Int
      BY MetaAssumption
    <3>3. QED  BY <1>1, <1>5, <3>1, <3>2, SumGrows
  <2>3. \A f \in Names : f \notin files' => local_size'[f] = 0
    BY <1>1, <1>5 DEF CounterInv, TypeOK
  <2>4. \A u \in Owing' : call'[u].amt = meta_block_size
    BY <1>5, <2>1 DEF CounterInv, Owing
  <2>5. Covered(used)'
    BY <1>1, <1>5, <2>1, <2>2, CoveredMore DEF CounterInv, Covered
  <2>6. ASSUME NEW u \in Threads, At(u, "store")'
        PROVE  Covered(call[u].reg)'
    <3>1. u # t /\ call'[u] = call[u] /\ At(u, "store")
      BY <1>5, <2>6 DEF At
    <3>2. Covered(call[u].reg)
      BY <3>1 DEF CounterInv
    <3>3. QED  BY <1>1, <1>5, <2>1, <2>2, <3>1, <3>2, CoveredMore DEF Covered
  <2>7. QED  BY <2>3, <2>4, <2>5, <2>6 DEF CounterInv
<1>6. CASE /\ used' = used /\ UNCHANGED <<files, local_size>>
           /\ At(t, "load") /\ call'[t].step = "store"
           /\ call'[t].amt = call[t].amt /\ call'[t].reg = used
  <2>1. Owing' = Owing /\ SumLocal' = SumLocal
    BY <1>3, <1>6 DEF Owing, At, SumLocal
  <2>2. \A u \in Owing' : call'[u].amt = meta_block_size
    BY <1>6, <2>1 DEF CounterInv, Owing
  <2>3. Covered(used)'
    BY <1>1, <1>6, <2>1, CoveredKept DEF CounterInv, Covered
  <2>4. ASSUME NEW u \in Threads, At(u, "store")'
        PROVE  Covered(call[u].reg)'
    <3>1. CASE u = t
      BY <1>6, <2>3, <3>1 DEF Covered
    <3>2. CASE u # t
      <4>1. call'[u] = call[u] /\ At(u, "store")
        BY <2>4, <3>2 DEF At
      <4>2. Covered(call[u].reg)
        BY <4>1 DEF CounterInv
      <4>3. QED  BY <1>1, <2>1, <4>1, <4>2, CoveredKept DEF Covered
    <3>3. QED  BY <3>1, <3>2
  <2>5. QED  BY <1>6, <2>2, <2>3, <2>4 DEF CounterInv
<1>7. CASE /\ used' = Wrap(call[t].reg + call[t].amt)
           /\ UNCHANGED <<files, local_size>>
           /\ At(t, "store") /\ call'[t].step \notin {"load", "store"}
  <2>1. Owing' = Owing \ {t} /\ SumLocal' = SumLocal /\ t \in Owing
    BY <1>3, <1>7 DEF Owing, At, SumLocal
  <2>2. \A u \in Owing' : call'[u].amt = meta_block_size
    BY <2>1 DEF CounterInv, Owing
  <2>3. Covered(used)'
    <3>1. call[t].amt = meta_block_size /\ Covered(call[t].reg)
      BY <1>7, <2>1 DEF CounterInv
    <3>2. (call[t].reg + meta_block_size) + meta_block_size * Cardinality(Owing')
            <= SumLocal'
      BY <1>1, <2>1, <3>1, CoveredLess
    <3>3. used' <= call[t].reg + meta_block_size /\ used' \in Nat
      BY <1>1, <1>2, <1>7, <3>1, WrapBelow, WrapType, MetaAssumption
    <3>4. /\ meta_block_size * Cardinality(Owing') \in Int
          /\ call[t].reg + meta_block_size \in Int /\ SumLocal' \in Int
      <4>1. Cardinality(Owing') \in Nat
        BY <2>1, OwingCount, FS_RemoveElement, FS_CardinalityType
      <4>2. QED  BY <1>1, <2>1, <4>1, MetaAssumption
    <3>5. used' + meta_block_size * Cardinality(Owing') <= SumLocal'
      BY ONLY <3>2, <3>3, <3>4
    <3>6. QED  BY <3>5 DEF Covered
  <2>4. ASSUME NEW u \in Threads, At(u, "store")'
        PROVE  Covered(call[u].reg)'
    <3>1. u # t /\ call'[u] = call[u] /\ At(u, "store")
      BY <1>7, <2>4 DEF At
    <3>2. (call[u].reg + meta_block_size) + meta_block_size * Cardinality(Owing')
            <= SumLocal'
      BY <1>1, <2>1, <3>1, CoveredLess DEF CounterInv
    <3>3. /\ meta_block_size * Cardinality(Owing') \in Int /\ SumLocal' \in Int
          /\ call[u].reg \in Int /\ meta_block_size \in Nat
      <4>1. Cardinality(Owing') \in Nat
        BY <2>1, OwingCount, FS_RemoveElement, FS_CardinalityType
      <4>2. QED  BY <1>1, <2>1, <4>1, MetaAssumption
    <3>4. call[u].reg + meta_block_size * Cardinality(Owing') <= SumLocal'
      BY ONLY <3>2, <3>3
    <3>5. QED  BY <3>1, <3>4 DEF Covered
  <2>5. QED  BY <1>7, <2>2, <2>3, <2>4 DEF CounterInv
<1>8. QED  BY <1>4, <1>5, <1>6, <1>7 DEF Recorder

\* CounterInv holds at the start, and whatever NextWriters does keeps it.
LEMMA CounterInductive ==
  /\ MetaInit => CounterInv
  /\ CounterInv /\ [NextWriters]_metaVars => CounterInv'
<1>1. ASSUME MetaInit  PROVE CounterInv
  <2>1. /\ Owing = {} /\ used = 0 /\ files = {}
        /\ \A t \in Threads : call[t].step = "idle"
        /\ \A f \in Names : local_size[f] = 0
    BY <1>1 DEF MetaInit, NoCall, Fresh, Owing
  <2>2. SumLocal = 0
    <3>1. IsFiniteSet({})
      BY FS_EmptySet
    <3>2. QED  BY <2>1, <3>1, SumIs, SumStep DEF SumLocal
  <2>3. Covered(used)
    BY <2>1, <2>2, FS_EmptySet, MetaAssumption DEF Covered
  <2>4. QED  BY <1>1, <2>1, <2>3, WriterInductive DEF CounterInv, At
<1>2. ASSUME CounterInv, [NextWriters]_metaVars  PROVE CounterInv'
  <2>1. WriterInv' /\ TypeOK
    BY <1>2, WriterInductive DEF CounterInv, WriterInv, TypeInv
  <2>2. CASE UNCHANGED metaVars
    BY <1>2, <2>1, <2>2 DEF metaVars, CounterInv, Covered, Owing, SumLocal, At
  <2>3. CASE \E t \in Threads : WriterCall(t) \/ MetaStep(t) \/ StatementFails(t)
    BY <1>2, <2>1, <2>3, RecorderStep, RecorderCounts DEF CounterInv
  <2>4. CASE init_cache_used_size
    <3>1. /\ SumLocal \in Nat /\ used' = Wrap(SumLocal)
          /\ UNCHANGED <<files, local_size>>
          /\ \A t \in Threads : call'[t].step = "idle"
      BY <2>4 DEF init_cache_used_size, NoCall, Fresh
    <3>2. Owing' = {} /\ SumLocal' = SumLocal
      BY <3>1 DEF Owing, SumLocal
    <3>3. Covered(used)'
      <4>1. meta_block_size * Cardinality(Owing') = 0
        BY <3>2, FS_EmptySet, MetaAssumption
      <4>2. used' <= SumLocal /\ used' \in Int
        BY <3>1, WrapBelow, WrapType
      <4>3. QED  BY <3>2, <4>1, <4>2 DEF Covered
    <3>4. QED  BY <1>2, <2>1, <3>1, <3>2, <3>3 DEF CounterInv, At
  <2>5. QED  BY <1>2, <2>2, <2>3, <2>4 DEF NextWriters
<1>3. QED  BY <1>1, <1>2

\* However many threads record blocks and lose each other's updates of the
\* counter, and wherever a crash or a failure falls, cache_used_size is never
\* more than what the tables charge (meta.c:394): as long as nothing is deleted,
\* cfs_cacheWrite never waits for bytes that nothing occupies.
THEOREM UsedNeverOverCorrect == SpecWriters => []UsedNeverOver
<1>1. CounterInv => UsedNeverOver
  <2> SUFFICES ASSUME CounterInv  PROVE used <= SumLocal
    BY DEF UsedNeverOver
  <2> DEFINE m == meta_block_size * Cardinality(Owing)
  <2>1. m \in Nat
    BY OwingCount, MetaAssumption
  <2>2. used + m <= SumLocal
    BY DEF CounterInv, Covered
  <2>3. used \in Nat /\ SumLocal \in Int
    BY SumLocalType, MetaAssumption DEF CounterInv, WriterInv, TypeInv, TypeOK
  <2> HIDE DEF m
  <2>4. QED  BY <2>1, <2>2, <2>3
<1>2. QED
  BY <1>1, CounterInductive, PTL DEF SpecWriters
---------------------------------------------------------------------------
(***************************************************************************)
(* The counter when calls do not overlap: whatever a call is about, the    *)
(* counter is the sum of the tables but for what that call still owes.     *)
(* create_file is one statement and may come in between.                   *)
(***************************************************************************)
Others(t) == \A u \in Threads \ {t} : Idle(u)

Balance(c, fs, size, u, sum) ==
  LET n == size[c.name]
  IN \/ c.step = "idle" /\ u = Wrap(sum)
     \/ c.op = "write_blks" /\ c.step \in {"check", "insert"} /\ u = Wrap(sum)
     \/ /\ c.op = "write_blks" /\ c.step = "local"
        /\ c.amt = meta_block_size /\ c.name \in fs /\ u = Wrap(sum)
     \/ /\ c.op = "write_blks" /\ c.step \in {"load", "store"}
        /\ c.amt = meta_block_size /\ u = Wrap(sum - meta_block_size)
        /\ n >= meta_block_size
        /\ c.step = "store" => c.reg = u
     \/ c.op = "delete_file" /\ c.step = "select" /\ u = Wrap(sum)
     \/ /\ c.op = "delete_file" /\ c.step \in {"load", "store"}
        /\ c.amt = -n /\ (~c.found => n = 0) /\ u = Wrap(sum)
        /\ c.step = "store" => c.reg = u
     \/ /\ c.op = "delete_file" /\ c.step \in {"again", "delete"}
        /\ c.step = "again" => n = 0
        /\ u = Wrap(sum - n)

NothingGone == \A f \in Names : f \notin files => local_size[f] = 0

SerialInv ==
  /\ TypeInv
  /\ NothingGone
  /\ UsedMatches
  /\ \A t \in Threads :
       Others(t) => Balance(call[t], files, local_size, used, SumLocal)

\* Wrapping a term of a sum does not change where the sum wraps to.
LEMMA WrapTwice ==
  ASSUME NEW a \in Int, NEW b \in Int
  PROVE  Wrap(Wrap(a) + b) = Wrap(a + b)
<1> DEFINE m == SizeMod
           q == a \div m
           x == a % m
           p == (x + b) \div m
           r == (x + b) % m
           s == (a + b) \div m
           w == (a + b) % m
<1>1. m \in Nat \ {0}
  BY MetaAssumption
<1> HIDE DEF m
<1>2. a = m * q + x /\ q \in Int /\ x \in Int
  BY <1>1
<1> HIDE DEF q, x
<1>3. x + b = m * p + r /\ p \in Int /\ r \in 0 .. m - 1
  BY <1>1, <1>2
<1>4. a + b = m * s + w /\ s \in Int /\ w \in 0 .. m - 1
  BY <1>1, <1>2
<1> HIDE DEF p, r, s, w
<1>5. m * (q + p - s) = m * q + m * p - m * s /\ m * q \in Int /\ m * p \in Int
      /\ m * s \in Int
  BY <1>1, <1>2, <1>3, <1>4
<1> DEFINE k == q + p - s
<1>6. k \in Int
  BY <1>2, <1>3, <1>4
<1>7. m * k = w - r
  BY <1>1, <1>2, <1>3, <1>4, <1>5
<1> HIDE DEF k
<1>8. /\ k >= 1 => m * k >= m
      /\ k <= -1 => m * k <= -m
  BY <1>1, <1>6
<1>9. ~(k >= 1) /\ ~(k <= -1)
  BY <1>1, <1>3, <1>4, <1>6, <1>7, <1>8
<1>10. k = 0
  BY <1>6, <1>9
<1>11. m * k = 0
  BY <1>1, <1>10
<1>12. w = r
  BY <1>3, <1>4, <1>7, <1>11
<1>13. QED  BY <1>12 DEF Wrap, m, r, w, x

\* The DELETE of a file takes its size off the sum.
LEMMA SumGone ==
  ASSUME TypeOK, NEW f \in Names, f \notin files => local_size[f] = 0,
         files' = files \ {f}, local_size' = [local_size EXCEPT ![f] = 0]
  PROVE  SumLocal' = SumLocal - local_size[f]
<1>1. /\ IsFiniteSet(files) /\ \A g \in files : local_size[g] \in Int
      /\ \A g \in files \ {f} : local_size'[g] = local_size[g]
      /\ local_size[f] \in Int
  BY MetaAssumption, FS_Subset DEF TypeOK
<1>2. SumLocal = SumOf(local_size, files) /\ SumLocal' = SumOf(local_size', files')
  BY SumIs DEF SumLocal
<1>3. SumOf(local_size', files \ {f}) = SumOf(local_size, files \ {f})
  <2>1. IsFiniteSet(files \ {f})
    BY <1>1, FS_RemoveElement
  <2>2. QED  BY <1>1, <2>1, SumSame
<1>4. SumOf(local_size, files \ {f}) \in Int
  BY <1>1, SumTake
<1>5. CASE f \in files
  <2>1. SumOf(local_size, files) = local_size[f] + SumOf(local_size, files \ {f})
    BY <1>1, <1>5, SumTake
  <2>2. QED  BY <1>1, <1>2, <1>3, <1>4, <2>1
<1>6. CASE f \notin files
  <2>1. files \ {f} = files /\ local_size[f] = 0
    BY <1>6
  <2>2. SumLocal' = SumOf(local_size, files)
    BY <1>2, <1>3, <2>1
  <2>3. SumLocal \in Int
    BY <1>2, <1>4, <2>1
  <2>4. QED  BY <1>2, <2>1, <2>2, <2>3
<1>7. QED  BY <1>5, <1>6

\* A call goes on with its next block or returns, and the counter matches.
LEMMA NextBlockBalanced ==
  ASSUME NEW c \in Frame, c.op = "write_blks", NEW fs, NEW size, NEW sum
  PROVE  Balance(NextBlock(c), fs, size, Wrap(sum), sum)
<1>1. CASE c.todo = {}
  <2>1. NextBlock(c) = NoCall /\ NoCall.step = "idle"
    BY <1>1 DEF NextBlock, NoCall, Fresh
  <2>2. QED  BY <2>1 DEF Balance
<1>2. CASE c.todo # {}
  <2> DEFINE z == 0
             e == [c EXCEPT !.step = "insert", !.amt = z, !.reg = z]
  <2>1. NextBlock(c) = e
    BY <1>2 DEF NextBlock
  <2>2. e.op = c.op /\ e.step = "insert"
    <3> HIDE DEF z
    <3> QED  BY DEF Frame
  <2> HIDE DEF e
  <2>3. QED  BY <2>1, <2>2 DEF Balance
<1>3. QED  BY <1>1, <1>2


\* A sum of natural numbers is one.
LEMMA SumNat ==
  ASSUME TypeOK, SizesNonNegative
  PROVE  \A T \in SUBSET files : SumOf(local_size, T) \in Nat
<1> DEFINE X == {T \in SUBSET files : SumOf(local_size, T) \in Nat}
<1>1. IsFiniteSet(files) /\ \A f \in files : local_size[f] \in Nat
  BY MetaAssumption, FS_Subset DEF TypeOK, SizesNonNegative
<1>2. ASSUME NEW T \in SUBSET files, \A U \in SUBSET T : U # T => U \in X
      PROVE  T \in X
  <2>1. CASE T = {}
    <3>1. SumOf(local_size, {}) = 0
      BY SumStep, FS_EmptySet
    <3>2. QED  BY <2>1, <3>1
  <2>2. CASE T # {}
    <3>1. PICK f \in T : TRUE
      BY <2>2
    <3>2. SumOf(local_size, T) = local_size[f] + SumOf(local_size, T \ {f})
      BY <1>1, <3>1, SumTake
    <3>3. T \ {f} \in X
      BY <1>2, <3>1
    <3>4. QED  BY <1>1, <3>1, <3>2, <3>3
  <2>3. QED  BY <2>1, <2>2
<1>3. \A T \in SUBSET files : T \in X
  <2> HIDE DEF X
  <2>1. QED  BY <1>1, <1>2, SubsetInduction
<1>4. QED  BY <1>3

\* A file takes no more than all files.
LEMMA SumRest ==
  ASSUME TypeOK, SizesNonNegative, NothingGone, NEW f \in Names
  PROVE  SumLocal \in Nat /\ local_size[f] \in Nat /\ SumLocal - local_size[f] \in Nat
<1>1. SumLocal = SumOf(local_size, files) /\ SumLocal \in Nat
  BY SumLocalType, SumNat
<1>2. local_size[f] \in Nat
  BY DEF TypeOK, SizesNonNegative
<1>3. CASE f \notin files
  BY <1>1, <1>3 DEF NothingGone
<1>4. CASE f \in files
  <2> DEFINE x == local_size[f]
             y == SumOf(local_size, files \ {f})
  <2>1. IsFiniteSet(files) /\ \A g \in files : local_size[g] \in Int
    BY MetaAssumption, FS_Subset DEF TypeOK
  <2>2. SumOf(local_size, files) = x + y
    BY <1>4, <2>1, SumTake
  <2>3. x \in Nat /\ y \in Nat
    BY <1>2, SumNat
  <2> HIDE DEF x, y
  <2>4. (x + y) - x \in Nat
    BY <2>3
  <2>5. QED  BY <1>1, <1>2, <2>2, <2>4 DEF x
<1>5. QED  BY <1>3, <1>4

\* A counter in balance claims no more than the tables, since what a call owes
\* is part of them.
LEMMA BalanceBound ==
  ASSUME TypeInv, SizesNonNegative, NothingGone, NEW t \in Threads,
         Balance(call[t], files, local_size, used, SumLocal)
  PROVE  used <= SumLocal
<1> DEFINE n == local_size[call[t].name]
<1>1. SumLocal \in Nat
  BY SumLocalType, SumNat DEF TypeInv
<1>2. CASE used = Wrap(SumLocal)
  BY <1>1, <1>2, WrapBelow
<1>3. CASE ~Idle(t) /\ \E m \in Nat : m <= n /\ used = Wrap(SumLocal - m)
  <2>1. PICK m \in Nat : m <= n /\ used = Wrap(SumLocal - m)
    BY <1>3
  <2>2. call[t].name \in Names
    BY <1>3 DEF TypeInv
  <2>3. n \in Nat /\ SumLocal - n \in Nat
    BY <2>2, SumRest DEF TypeInv
  <2> HIDE DEF n
  <2>4. SumLocal - m \in Nat /\ SumLocal - m <= SumLocal
    BY <1>1, <2>1, <2>3
  <2>5. Wrap(SumLocal - m) <= SumLocal - m /\ Wrap(SumLocal - m) \in Int
    BY <2>4, WrapBelow, WrapType
  <2> DEFINE k == SumLocal - m
  <2> HIDE DEF k
  <2>6. Wrap(k) <= SumLocal
    BY <1>1, <2>4, <2>5 DEF k
  <2>7. QED  BY <2>1, <2>6 DEF k
<1>4. ~Idle(t) => n \in Nat
  BY DEF TypeInv, TypeOK, SizesNonNegative
<1>5. QED  BY <1>2, <1>3, <1>4, MetaAssumption DEF Balance, Idle, At

\* The threads that do not take a step keep their frames.
LEMMA OtherFrames ==
  ASSUME TypeOK, NEW t \in Threads, FSCall(t) \/ MetaStep(t), NEW u \in Threads \ {t}
  PROVE  call'[u] = call[u]
<1>1. call \in [Threads -> Frame]
  BY DEF TypeOK
<1>2. CASE FSCall(t)
  BY <1>1, <1>2, Zenon DEF FSCall, WriterCall, create_file, write_blks, delete_file, Enter
<1>3. CASE \/ is_blk_in_cache(t) \/ InsertRow(t) \/ DeleteBlockRow(t)
           \/ UpdateLocalSize(t) \/ SelectSize(t)
  BY <1>1, <1>3
  DEF is_blk_in_cache, InsertRow, DeleteBlockRow, UpdateLocalSize, SelectSize
<1>4. CASE LoadUsed(t) \/ StoreUsed(t) \/ SelectAgain(t) \/ DeleteFileRow(t)
  BY <1>1, <1>4 DEF LoadUsed, StoreUsed, SelectAgain, DeleteFileRow
<1>5. QED  BY <1>2, <1>3, <1>4 DEF MetaStep

\* While the others are idle, a call that starts and every statement keep the
\* counter in balance.
LEMMA SerialStep ==
  ASSUME SerialInv, SizesNonNegative, NEW t \in Threads, Others(t),
         FSCall(t) \/ MetaStep(t)
  PROVE  /\ NothingGone'
         /\ Balance(call'[t], files', local_size', used', SumLocal')
<1> DEFINE c == call[t]
           n == local_size[c.name]
           Kept == Balance(call'[t], files', local_size', used', SumLocal')
<1>a. /\ c \in Frame /\ call \in [Threads -> Frame] /\ TypeOK
      /\ Balance(c, files, local_size, used, SumLocal)
      /\ SumLocal \in Int /\ meta_block_size \in Nat
  BY SumLocalType, MetaAssumption DEF SerialInv, TypeInv, TypeOK
<1>b. c.step # "idle" => c.name \in Names /\ n \in Int
  BY <1>a DEF SerialInv, TypeInv, TypeOK, Idle, At
<1>c. SUFFICES /\ \A f \in Names : f \notin files' => local_size'[f] = 0
               /\ Kept
  BY DEF NothingGone
<1>d. ASSUME UNCHANGED <<files, local_size>>
      PROVE  /\ SumLocal' = SumLocal
             /\ \A f \in Names : f \notin files' => local_size'[f] = 0
  BY <1>d DEF SumLocal, SerialInv, NothingGone
<1>1. CASE \E f \in Names : create_file(t, f)
  <2>1. PICK f \in Names : files' = files \cup {f} /\ local_size' = local_size
                           /\ call' = call /\ used' = used /\ c.step = "idle"
    BY <1>1 DEF create_file, Idle, At
  <2>2. SumLocal' = SumLocal
    BY <1>a, <2>1, SumNew DEF SerialInv, NothingGone
  <2>3. used = Wrap(SumLocal)
    BY <1>a, <2>1 DEF Balance
  <2>4. Kept
    BY <2>1, <2>2, <2>3 DEF Balance
  <2>5. QED  BY <2>1, <2>4 DEF SerialInv, NothingGone
<1>2. CASE \E f \in Names : \/ \E B \in SUBSET Blocks : write_blks(t, f, B)
                            \/ delete_file(t, f)
  <2>1. /\ UNCHANGED <<files, local_size, used>> /\ c.step = "idle"
        /\ \/ call'[t].op = "write_blks" /\ call'[t].step = "check"
           \/ call'[t].op = "delete_file" /\ call'[t].step = "select"
    BY <1>2, <1>a DEF write_blks, delete_file, Enter, Fresh, Idle, At
  <2>2. used = Wrap(SumLocal)
    BY <1>a, <2>1 DEF Balance
  <2>3. Kept
    BY <1>d, <2>1, <2>2 DEF Balance
  <2>4. QED  BY <1>d, <2>1, <2>3
<1>3. CASE is_blk_in_cache(t)
  <2>1. UNCHANGED <<files, local_size, used>> /\ c.step = "check"
    BY <1>3 DEF is_blk_in_cache, At
  <2>2. PICK b \in c.todo, miss \in SUBSET Blocks :
          call' = [call EXCEPT ![t] =
                     IF c.todo \ {b} # {}
                     THEN [c EXCEPT !.todo = c.todo \ {b}, !.miss = miss]
                     ELSE NextBlock([c EXCEPT !.todo = miss, !.miss = {}])]
    BY <1>3, <1>a DEF is_blk_in_cache, Frame
  <2>3. c.op = "write_blks" /\ used = Wrap(SumLocal)
    BY <1>a, <2>1 DEF Balance
  <2>4. CASE c.todo \ {b} # {}
    <3>1. call'[t] = [c EXCEPT !.todo = c.todo \ {b}, !.miss = miss]
      BY <1>a, <2>2, <2>4
    <3>2. call'[t].op = c.op /\ call'[t].step = c.step
      BY <1>a, <3>1 DEF Frame
    <3>3. Kept
      BY <1>d, <2>1, <2>3, <3>2 DEF Balance
    <3>4. QED  BY <1>d, <2>1, <3>3
  <2>5. CASE c.todo \ {b} = {}
    <3> DEFINE d == [c EXCEPT !.todo = miss, !.miss = {}]
    <3>1. call'[t] = NextBlock(d)
      BY <1>a, <2>2, <2>5
    <3>2. d \in Frame /\ d.op = c.op
      <4>1. {} \in SUBSET Blocks
        OBVIOUS
      <4> HIDE DEF c
      <4>2. d \in Frame
        BY <1>a, <4>1, FrameMiss
      <4>3. QED  BY <1>a, <4>2 DEF Frame
    <3> HIDE DEF d
    <3>3. Kept
      BY <1>d, <2>1, <2>3, <3>1, <3>2, NextBlockBalanced
    <3>4. QED  BY <1>d, <2>1, <3>3
  <2>6. QED  BY <2>4, <2>5
<1>4. CASE InsertRow(t)
  <2>1. UNCHANGED <<files, local_size, used>> /\ c.step = "insert"
    BY <1>4 DEF InsertRow, At
  <2>2. PICK b \in c.todo :
          LET d == [c EXCEPT !.todo = c.todo \ {b}]
          IN \/ /\ d.name \in files
                /\ call' = [call EXCEPT ![t] =
                     [d EXCEPT !.step = "local", !.amt = meta_block_size]]
             \/ call' = [call EXCEPT ![t] = NextBlock(d)]
    BY <1>4 DEF InsertRow, RowAllowed
  <2> DEFINE d == [c EXCEPT !.todo = c.todo \ {b}]
  <2>3. d \in Frame /\ d.op = c.op /\ d.name = c.name
    BY <1>a DEF Frame
  <2>4. c.op = "write_blks" /\ used = Wrap(SumLocal)
    BY <1>a, <2>1 DEF Balance
  <2> HIDE DEF d
  <2>5. \/ /\ d.name \in files
           /\ call'[t] = [d EXCEPT !.step = "local", !.amt = meta_block_size]
        \/ call'[t] = NextBlock(d)
    BY <1>a, <2>2 DEF d
  <2>6. Kept
    <3>1. CASE call'[t] = NextBlock(d)
      BY <1>d, <2>1, <2>3, <2>4, <3>1, NextBlockBalanced
    <3>2. CASE /\ d.name \in files
               /\ call'[t] = [d EXCEPT !.step = "local", !.amt = meta_block_size]
      <4>1. /\ call'[t].step = "local" /\ call'[t].amt = meta_block_size
            /\ call'[t].op = d.op /\ call'[t].name = d.name
        BY <2>3, <3>2 DEF Frame
      <4>2. QED  BY <1>d, <2>1, <2>3, <2>4, <3>2, <4>1 DEF Balance
    <3>3. QED  BY <2>5, <3>1, <3>2
  <2>7. QED  BY <1>d, <2>1, <2>6
<1>5. CASE UpdateLocalSize(t)
  <2>1. /\ c.step = "local" /\ c.op = "write_blks" /\ c.amt = meta_block_size
        /\ c.name \in files /\ used = Wrap(SumLocal)
    BY <1>5, <1>a DEF UpdateLocalSize, At, Balance
  <2>2. /\ call' = [call EXCEPT ![t] = [c EXCEPT !.step = "load"]]
        /\ UNCHANGED <<files, used>>
        /\ local_size' = [local_size EXCEPT ![c.name] = @ + meta_block_size]
    BY <1>5, <2>1 DEF UpdateLocalSize
  <2>3. call'[t].step = "load" /\ call'[t].amt = c.amt /\ call'[t].op = c.op
    BY <1>a, <2>2 DEF Frame
  <2>4. SumLocal' = SumLocal + meta_block_size
    <3>1. meta_block_size \in Int
      BY <1>a
    <3>2. QED  BY <1>a, <2>1, <2>2, <3>1, SumGrows
  <2>5. SumLocal' - meta_block_size = SumLocal
    BY <1>a, <2>4
  <2>6. /\ call'[t].name = c.name
        /\ local_size'[c.name] >= meta_block_size
    <3>1. c.name \in Names /\ n \in Int /\ n >= 0
      BY <1>b, <2>1 DEF SizesNonNegative
    <3>2. local_size'[c.name] = n + meta_block_size
      BY <1>a, <2>2, <3>1 DEF TypeOK
    <3>3. local_size'[c.name] >= meta_block_size
      <4> HIDE DEF n
      <4>1. QED  BY <1>a, <3>1, <3>2
    <3>4. QED  BY <1>a, <2>2, <3>3 DEF Frame
  <2>7. Kept
    BY <2>1, <2>2, <2>3, <2>5, <2>6 DEF Balance
  <2>8. \A f \in Names : f \notin files' => local_size'[f] = 0
    BY <1>a, <2>1, <2>2 DEF SerialInv, NothingGone, TypeOK
  <2>9. QED  BY <2>7, <2>8
<1>6. CASE SelectSize(t)
  <2>1. /\ c.step = "select" /\ c.op = "delete_file" /\ used = Wrap(SumLocal)
        /\ UNCHANGED <<files, local_size, used>>
    BY <1>6, <1>a DEF SelectSize, At, Balance
  <2>2. call' = [call EXCEPT ![t] = [c EXCEPT !.amt = -n, !.step = "load",
                                              !.found = c.name \in files]]
    BY <1>6, <1>a, Zenon DEF SelectSize
  <2>3. /\ call'[t].step = "load" /\ call'[t].amt = -n
        /\ call'[t].found = (c.name \in files)
        /\ call'[t].op = c.op /\ call'[t].name = c.name
    BY <1>a, <2>2, Zenon DEF Frame
  <2>4. ~call'[t].found => n = 0
    BY <1>b, <2>1, <2>3 DEF SerialInv, NothingGone
  <2>5. Kept
    BY <1>d, <2>1, <2>3, <2>4 DEF Balance
  <2>6. QED  BY <1>d, <2>1, <2>5
<1>7. CASE LoadUsed(t)
  <2>1. /\ call' = [call EXCEPT ![t] = [c EXCEPT !.reg = used, !.step = "store"]]
        /\ UNCHANGED <<files, local_size, used>> /\ c.step = "load"
    BY <1>7, <1>a, Zenon DEF LoadUsed, At
  <2>2. /\ call'[t].step = "store" /\ call'[t].reg = used
        /\ call'[t].amt = c.amt /\ call'[t].op = c.op
        /\ call'[t].name = c.name /\ call'[t].found = c.found
    BY <1>a, <2>1 DEF Frame
  <2>3. Kept
    BY <1>a, <1>d, <2>1, <2>2 DEF Balance
  <2>4. QED  BY <1>d, <2>1, <2>3
<1>8. CASE StoreUsed(t)
  <2>1. /\ c.step = "store" /\ used' = Wrap(c.reg + c.amt) /\ c.reg = used
        /\ UNCHANGED <<files, local_size>>
    BY <1>8, <1>a DEF StoreUsed, At, Balance
  <2>2. CASE c.op = "write_blks"
    <3>1. call'[t] = NextBlock(c)
      BY <1>8, <1>a, <2>2 DEF StoreUsed
    <3>2. c.amt = meta_block_size /\ used = Wrap(SumLocal - meta_block_size)
      BY <1>a, <2>1, <2>2 DEF Balance
    <3>3. used' = Wrap(SumLocal)
      <4>1. /\ SumLocal - meta_block_size \in Int /\ meta_block_size \in Int
            /\ (SumLocal - meta_block_size) + meta_block_size = SumLocal
        BY <1>a
      <4>2. QED  BY <2>1, <3>2, <4>1, WrapTwice
    <3> HIDE DEF c
    <3>4. Kept
      BY <1>a, <1>d, <2>1, <2>2, <3>1, <3>3, NextBlockBalanced
    <3>5. QED  BY <1>d, <2>1, <3>4
  <2>3. CASE c.op = "delete_file"
    <3>1. /\ c.amt = -n /\ used = Wrap(SumLocal) /\ (~c.found => n = 0)
      BY <1>a, <2>1, <2>3 DEF Balance
    <3>2. used' = Wrap(SumLocal - n)
      <4>1. -n \in Int /\ SumLocal + (-n) = SumLocal - n
        BY <1>a, <1>b, <2>1
      <4>2. Wrap(Wrap(SumLocal) + (-n)) = Wrap(SumLocal + (-n))
        <5> HIDE DEF n
        <5>1. QED  BY <1>a, <4>1, WrapTwice
      <4>3. QED  BY <2>1, <3>1, <4>1, <4>2
    <3> DEFINE s == IF c.found THEN "delete" ELSE "again"
    <3>3. call'[t] = [c EXCEPT !.step = s]
      BY <1>8, <1>a, <2>3 DEF StoreUsed
    <3>4. s \in {"again", "delete"} /\ (s = "again" => n = 0)
      BY <3>1
    <3> HIDE DEF s
    <3>5. call'[t].step = s /\ call'[t].op = c.op /\ call'[t].name = c.name
      BY <1>a, <3>3 DEF Frame
    <3>6. Kept
      BY <1>d, <2>1, <2>3, <3>2, <3>4, <3>5 DEF Balance
    <3>7. QED  BY <1>d, <2>1, <3>6
  <2>4. c.op \in {"write_blks", "delete_file"}
    BY <1>a, <2>1 DEF Balance
  <2>5. QED  BY <2>2, <2>3, <2>4
<1>9. CASE SelectAgain(t)
  <2>1. /\ c.step = "again" /\ c.op = "delete_file" /\ n = 0
        /\ used = Wrap(SumLocal - n) /\ UNCHANGED <<files, local_size, used>>
    BY <1>9, <1>a DEF SelectAgain, At, Balance
  <2>2. CASE call'[t] = [c EXCEPT !.step = "delete"]
    <3>1. call'[t].step = "delete" /\ call'[t].op = c.op /\ call'[t].name = c.name
      BY <1>a, <2>2 DEF Frame
    <3>2. Kept
      BY <1>d, <2>1, <3>1 DEF Balance
    <3>3. QED  BY <1>d, <2>1, <3>2
  <2>3. CASE call'[t] = NoCall
    <3>1. call'[t].step = "idle"
      BY <2>3 DEF NoCall, Fresh
    <3>2. used = Wrap(SumLocal)
      <4>1. SumLocal - n = SumLocal
        BY <1>a, <2>1
      <4>2. QED  BY <2>1, <4>1
    <3>3. Kept
      BY <1>d, <2>1, <3>1, <3>2 DEF Balance
    <3>4. QED  BY <1>d, <2>1, <3>3
  <2>4. call'[t] = NoCall \/ call'[t] = [c EXCEPT !.step = "delete"]
    BY <1>9, <1>a DEF SelectAgain
  <2>5. QED  BY <2>2, <2>3, <2>4
<1>10. CASE DeleteFileRow(t)
  <2>1. /\ c.step = "delete" /\ used = Wrap(SumLocal - n) /\ used' = used
    BY <1>10, <1>a DEF DeleteFileRow, At, Balance
  <2>2. /\ files' = files \ {c.name}
        /\ local_size' = [local_size EXCEPT ![c.name] = 0]
        /\ call'[t] = NoCall
    BY <1>10, <1>a DEF DeleteFileRow
  <2>3. SumLocal' = SumLocal - n
    BY <1>a, <1>b, <2>1, <2>2, SumGone DEF SerialInv, NothingGone
  <2>4. NoCall.step = "idle"
    BY DEF NoCall, Fresh
  <2>5. Kept
    BY <2>1, <2>2, <2>3, <2>4 DEF Balance
  <2>6. \A f \in Names : f \notin files' => local_size'[f] = 0
    BY <1>a, <2>2 DEF SerialInv, NothingGone, TypeOK
  <2>7. QED  BY <2>5, <2>6
<1>11. CASE DeleteBlockRow(t)
  BY <1>11, <1>a DEF DeleteBlockRow, At, Balance
<1>12. QED
  BY <1>1, <1>2, <1>3, <1>4, <1>5, <1>6, <1>7, <1>8, <1>9, <1>10, <1>11
     DEF FSCall, WriterCall, MetaStep

\* What happens under OneCall: a create_file, or a step of a thread while the
\* others are idle.
LEMMA TakeTurns ==
  ASSUME TypeInv, OneCall, OneCall', NEW t \in Threads, FSCall(t) \/ MetaStep(t)
  PROVE  (\E f \in Names : create_file(t, f)) \/ Others(t)
<1>1. CASE MetaStep(t)
  <2>1. ~Idle(t)
    BY <1>1 DEF MetaStep, is_blk_in_cache, InsertRow, DeleteBlockRow, UpdateLocalSize,
       SelectSize, LoadUsed, StoreUsed, SelectAgain, DeleteFileRow, Idle, At
  <2>2. QED  BY <2>1 DEF OneCall, Others
<1>2. CASE \E f \in Names : \/ \E B \in SUBSET Blocks : write_blks(t, f, B)
                            \/ delete_file(t, f)
  <2>1. call'[t].step \in {"check", "select"}
    BY <1>2 DEF write_blks, delete_file, Enter, Fresh, TypeInv, TypeOK
  <2>2. \A u \in Threads \ {t} : Idle(u)'
    BY <2>1 DEF OneCall, Idle, At
  <2>3. \A u \in Threads \ {t} : call'[u] = call[u]
    BY OtherFrames DEF TypeInv
  <2>4. QED  BY <2>2, <2>3 DEF Others, Idle, At
<1>3. QED  BY <1>1, <1>2 DEF FSCall, WriterCall

\* Taking turns, the threads keep the counter in balance.
LEMMA TurnBalanced ==
  ASSUME SerialInv, SizesNonNegative, OneCall, OneCall', NEW t \in Threads,
         FSCall(t) \/ MetaStep(t)
  PROVE  SerialInv'
<1>1. TypeInv'
  BY TypeInductive DEF SerialInv, Next, APICall
<1>2. CASE \E f \in Names : create_file(t, f)
  <2>1. PICK f \in Names : files' = files \cup {f} /\ UNCHANGED <<local_size, call, used>>
    BY <1>2 DEF create_file
  <2>2. SumLocal' = SumLocal
    BY <2>1, SumNew DEF SerialInv, TypeInv, NothingGone
  <2>3. ASSUME NEW u \in Threads, Others(u)'
        PROVE  Balance(call[u], files, local_size, used, SumLocal)'
    <3>1. Balance(call[u], files, local_size, used, SumLocal)
      BY <2>1, <2>3 DEF SerialInv, Others, Idle, At
    <3>2. QED  BY <2>1, <2>2, <3>1 DEF Balance
  <2>4. QED
    BY <1>1, <2>1, <2>2, <2>3 DEF SerialInv, NothingGone, UsedMatches, Idle, At
<1>3. CASE Others(t)
  <2> DEFINE Kept(u) == Balance(call'[u], files', local_size', used', SumLocal')
  <2>1. NothingGone' /\ Kept(t)
    BY <1>3, SerialStep
  <2>2. \A u \in Threads \ {t} : Idle(u)'
    BY <1>3, OtherFrames DEF SerialInv, TypeInv, Others, Idle, At
  <2>3. Idle(t)' => used' = Wrap(SumLocal')
    BY <2>1 DEF Balance, Idle, At
  <2>4. ASSUME NEW u \in Threads, Others(u)'  PROVE Kept(u)
    <3>1. CASE u = t
      BY <2>1, <3>1
    <3>2. CASE u # t
      BY <2>2, <2>3, <2>4, <3>2 DEF Others, Balance, Idle, At
    <3>3. QED  BY <3>1, <3>2
  <2>5. QED  BY <1>1, <2>1, <2>3, <2>4 DEF SerialInv, UsedMatches
<1>4. QED  BY <1>2, <1>3, TakeTurns DEF SerialInv

\* The start, a restart and every step of the calls of the file system keep the
\* counter in balance as long as the calls do not overlap.
LEMMA SerialInductive ==
  /\ MetaInit => SerialInv
  /\ /\ SerialInv /\ SizesNonNegative /\ OneCall /\ OneCall'
     /\ \/ \E t \in Threads : FSCall(t) \/ MetaStep(t)
        \/ init_cache_used_size \/ UNCHANGED metaVars
     => SerialInv'
<1>1. ASSUME MetaInit  PROVE SerialInv
  <2>1. /\ used = 0 /\ files = {} /\ \A u \in Threads : call[u].step = "idle"
        /\ \A f \in Names : local_size[f] = 0
    BY <1>1 DEF MetaInit, NoCall, Fresh
  <2>2. SumLocal = 0
    <3>1. IsFiniteSet({})
      BY FS_EmptySet
    <3>2. QED  BY <2>1, <3>1, SumIs, SumStep DEF SumLocal
  <2>3. Wrap(0) = 0
    BY MetaAssumption DEF Wrap
  <2>4. QED
    BY <1>1, <2>1, <2>2, <2>3, TypeInductive
    DEF SerialInv, NothingGone, UsedMatches, Balance
<1>2. ASSUME SerialInv, init_cache_used_size  PROVE SerialInv'
  <2>1. /\ used' = Wrap(SumLocal) /\ UNCHANGED <<files, local_size>>
        /\ \A u \in Threads : call'[u].step = "idle"
    BY <1>2 DEF init_cache_used_size, NoCall, Fresh
  <2>2. TypeInv'
    BY <1>2, TypeInductive DEF SerialInv, Next
  <2>3. SumLocal' = SumLocal
    BY <2>1 DEF SumLocal
  <2>4. QED
    BY <1>2, <2>1, <2>2, <2>3 DEF SerialInv, NothingGone, UsedMatches, Balance
<1>3. ASSUME SerialInv, UNCHANGED metaVars  PROVE SerialInv'
  <2>1. TypeInv' /\ SumLocal' = SumLocal
    BY <1>3, TypeInductive DEF SerialInv, SumLocal, metaVars
  <2>2. QED
    BY <1>3, <2>1
    DEF SerialInv, NothingGone, UsedMatches, Others, Idle, At, metaVars
<1>4. QED  BY <1>1, <1>2, <1>3, TurnBalanced

\* Also within a call the counter claims no more than the tables.
LEMMA SerialBound ==
  ASSUME SerialInv, SizesNonNegative, OneCall, NEW t \in Threads
  PROVE  used <= SumLocal
<1>1. \E u \in Threads : Others(u)
  BY DEF OneCall, Others
<1>2. QED  BY <1>1, BalanceBound DEF SerialInv
---------------------------------------------------------------------------
(***************************************************************************)
(* The sizes when calls do not overlap: LocalSizeInv then holds with       *)
(* deletions too, because none comes between an INSERT and its UPDATE.     *)
(***************************************************************************)
Deleting(c) ==
  c.op = "delete_file" /\ c.step \in {"select", "load", "store", "again", "delete"}

SoloInv ==
  /\ TypeInv /\ LocalSizeInv
  /\ \A t \in Threads : Recording(call[t]) \/ Deleting(call[t])
  /\ \A t \in Threads : At(t, "local") => call[t].name \in files

\* As long as no thread deletes, they are those that record blocks.
LEMMA SoloWriter ==
  (SoloInv /\ \A t \in Threads : Recording(call[t])) <=> WriterInv
  BY DEF SoloInv, WriterInv

\* The statements of delete_file.
LEMMA DeletingSteps ==
  ASSUME TypeInv, NEW t \in Threads, Deleting(call[t]), FSCall(t) \/ MetaStep(t)
  PROVE  /\ Deleting(call'[t]) \/ call'[t] = NoCall
         /\ \/ UNCHANGED <<local_size, blocks>>
            \/ DeleteFileRow(t)
<1> DEFINE c == call[t]
<1>1. c \in Frame /\ c.op = "delete_file" /\ ~Idle(t) /\ DOMAIN call = Threads
      /\ c.step \in {"select", "load", "store", "again", "delete"}
  BY DEF TypeInv, TypeOK, Deleting, Idle, At
<1>2. ~FSCall(t)
  BY <1>1 DEF FSCall, WriterCall, create_file, write_blks, delete_file, Enter
<1>3. CASE SelectSize(t)
  <2>1. call'[t].op = c.op /\ call'[t].step = "load"
    BY <1>1, <1>3 DEF SelectSize, Frame
  <2>2. QED  BY <1>1, <1>3, <2>1 DEF SelectSize, Deleting
<1>4. CASE LoadUsed(t)
  <2>1. call'[t].op = c.op /\ call'[t].step = "store"
    BY <1>1, <1>4 DEF LoadUsed, Frame
  <2>2. QED  BY <1>1, <1>4, <2>1 DEF LoadUsed, Deleting
<1>5. CASE StoreUsed(t)
  <2>1. call'[t].op = c.op /\ call'[t].step \in {"delete", "again"}
    BY <1>1, <1>5 DEF StoreUsed, Frame
  <2>2. QED  BY <1>1, <1>5, <2>1 DEF StoreUsed, Deleting
<1>6. CASE SelectAgain(t)
  <2>1. \/ call'[t] = NoCall
        \/ call'[t].op = c.op /\ call'[t].step = "delete"
    BY <1>1, <1>6 DEF SelectAgain, Frame
  <2>2. QED  BY <1>1, <1>6, <2>1 DEF SelectAgain, Deleting
<1>7. CASE DeleteFileRow(t)
  BY <1>1, <1>7 DEF DeleteFileRow
<1>8. ~is_blk_in_cache(t) /\ ~InsertRow(t) /\ ~DeleteBlockRow(t) /\ ~UpdateLocalSize(t)
  BY <1>1 DEF is_blk_in_cache, InsertRow, DeleteBlockRow, UpdateLocalSize, At
<1>9. QED  BY <1>2, <1>3, <1>4, <1>5, <1>6, <1>7, <1>8 DEF MetaStep

\* Nobody owes a file anything, and a deletion takes size and rows away together.
LEMMA DeletingSizes ==
  ASSUME TypeInv, TypeInv', LocalSizeInv, NEW t \in Threads, Others(t),
         Deleting(call[t]), FSCall(t) \/ MetaStep(t)
  PROVE  LocalSizeInv' /\ \A u \in Threads : ~At(u, "local")'
<1>1. \A u \in Threads : ~At(u, "local") /\ ~At(u, "local")'
  <2>1. ~At(t, "local") /\ ~At(t, "local")'
    BY DeletingSteps DEF Deleting, At, NoCall, Fresh
  <2>2. \A u \in Threads \ {t} : ~At(u, "local") /\ ~At(u, "local")'
    BY OtherFrames DEF TypeInv, Others, Idle, At
  <2>3. QED  BY <2>1, <2>2
<1>2. \A f \in Names : Pending(f) = {} /\ Pending(f)' = {}
  BY <1>1 DEF Pending
<1>3. CASE UNCHANGED <<local_size, blocks>>
  BY <1>1, <1>2, <1>3 DEF LocalSizeInv, BlocksOf
<1>4. CASE DeleteFileRow(t)
  <2> DEFINE f == call[t].name
  <2>1. /\ local_size' = [local_size EXCEPT ![f] = 0] /\ blocks' = Surviving(f)
        /\ local_size \in [Names -> Int]
    BY <1>4 DEF DeleteFileRow, TypeInv, TypeOK
  <2> HIDE DEF f
  <2>2. ASSUME NEW g \in Names
        PROVE  (local_size[g] + meta_block_size * Cardinality(Pending(g))
                 <= meta_block_size * Cardinality(BlocksOf(g)))'
    <3>1. CASE g = f
      <4>1. local_size'[g] = 0
        BY <2>1, <3>1
      <4>2. Cardinality(Pending(g)') = 0
        BY <1>2, FS_EmptySet
      <4>3. meta_block_size * Cardinality(BlocksOf(g)') \in Nat
        <5>1. Cardinality(BlocksOf(g)') \in Nat
          BY MetaAssumption, FS_Subset, FS_CardinalityType DEF BlocksOf
        <5>2. \A n \in Nat : meta_block_size * n \in Nat
          BY MetaAssumption
        <5>3. QED  BY <5>1, <5>2
      <4>4. meta_block_size * 0 = 0
        BY MetaAssumption
      <4>5. QED  BY <4>1, <4>2, <4>3, <4>4
    <3>2. CASE g # f
      <4>1. local_size'[g] = local_size[g]
        BY <2>1, <3>2
      <4>2. BlocksOf(g)' = BlocksOf(g)
        BY <2>1, <3>2 DEF BlocksOf, Surviving
      <4>3. Pending(g)' = Pending(g)
        BY <1>2
      <4>4. QED  BY <4>1, <4>2, <4>3 DEF LocalSizeInv
    <3>3. QED  BY <3>1, <3>2
  <2>3. QED  BY <1>1, <2>2 DEF LocalSizeInv
<1>5. QED  BY <1>3, <1>4, DeletingSteps

\* delete_file starts while the other threads record, or are idle.
LEMMA DeletingStarts ==
  ASSUME SoloInv, WriterInv, TypeInv', NEW t \in Threads, NEW f \in Names, delete_file(t, f)
  PROVE  SoloInv'
<1> DEFINE c == Fresh("delete_file", "select", f, {})
<1>1. /\ UNCHANGED <<files, local_size, blocks>> /\ call'[t] = c
      /\ \A u \in Threads \ {t} : call'[u] = call[u]
  BY DEF delete_file, Enter, TypeInv, TypeOK, SoloInv
<1>2. Deleting(c) /\ c.step = "select"
  BY DEF Deleting, Fresh
<1> HIDE DEF c
<1>3. \A u \in Threads : At(u, "local")' => At(u, "local") /\ call'[u] = call[u]
  BY <1>1, <1>2 DEF At
<1>4. LocalSizeInv'
  <2>1. \A g \in Names : Pending(g)' \subseteq Pending(g)
    BY <1>3 DEF Pending
  <2>2. QED  BY <1>1, <2>1, LocalSizeKept DEF TypeInv
<1>5. QED  BY <1>1, <1>2, <1>3, <1>4 DEF SoloInv

\* While a thread deletes, the others can but add a file.
LEMMA DeletingTurn ==
  ASSUME SoloInv, OneCall, OneCall', TypeInv', NEW d \in Threads, Deleting(call[d]),
         NEW t \in Threads, FSCall(t) \/ MetaStep(t)
  PROVE  SoloInv'
<1>1. ~Idle(d)
  BY DEF Deleting, Idle, At
<1>2. Others(d)
  BY <1>1 DEF OneCall, Others
<1>3. CASE \E f \in Names : create_file(t, f)
  <2>1. UNCHANGED <<local_size, blocks, call>> /\ files \subseteq files'
    BY <1>3 DEF create_file
  <2>2. QED
    BY <2>1 DEF SoloInv, LocalSizeInv, Pending, BlocksOf, At
<1>4. CASE t = d
  <2>1. LocalSizeInv' /\ \A u \in Threads : ~At(u, "local")'
    BY <1>2, <1>4, DeletingSizes DEF SoloInv
  <2>2. Deleting(call'[d]) \/ call'[d] = NoCall
    BY <1>4, DeletingSteps DEF SoloInv
  <2>3. Recording(NoCall)
    BY DEF NoCall, Fresh, Recording, WriterSteps
  <2>4. \A u \in Threads \ {d} : call'[u] = call[u]
    BY <1>4, OtherFrames DEF SoloInv, TypeInv
  <2>5. QED  BY <2>1, <2>2, <2>3, <2>4 DEF SoloInv
<1>5. QED
  <2>1. (\E f \in Names : create_file(t, f)) \/ Others(t)
    BY TakeTurns DEF SoloInv
  <2>2. Others(t) => t = d
    BY <1>1 DEF Others
  <2>3. QED  BY <1>3, <1>4, <2>1, <2>2

\* No file is charged for more than it has recorded, also when the calls delete
\* files, as long as the calls do not overlap.
LEMMA SoloInductive ==
  /\ MetaInit => SoloInv
  /\ /\ SoloInv /\ OneCall /\ OneCall'
     /\ \/ \E t \in Threads : FSCall(t) \/ MetaStep(t)
        \/ init_cache_used_size \/ UNCHANGED metaVars
     => SoloInv'
<1>1. MetaInit => SoloInv
  BY WriterInductive, SoloWriter
<1>2. ASSUME SoloInv, OneCall, OneCall', NEW t \in Threads, FSCall(t) \/ MetaStep(t)
      PROVE  SoloInv'
  <2>1. TypeInv'
    BY <1>2, TypeInductive DEF SoloInv, Next, APICall
  <2>2. CASE \E d \in Threads : Deleting(call[d])
    BY <1>2, <2>1, <2>2, DeletingTurn
  <2>3. CASE \A u \in Threads : Recording(call[u])
    <3>1. WriterInv
      BY <1>2, <2>3, SoloWriter
    <3>2. CASE \E f \in Names : delete_file(t, f)
      BY <1>2, <2>1, <3>1, <3>2, DeletingStarts
    <3>3. CASE WriterCall(t) \/ MetaStep(t)
      <4>1. WriterInv'
        BY <3>1, <3>3, WriterInductive DEF NextWriters
      <4>2. QED  BY <4>1 DEF SoloInv, WriterInv
    <3>4. QED  BY <1>2, <3>2, <3>3 DEF FSCall
  <2>4. QED  BY <1>2, <2>2, <2>3 DEF SoloInv
<1>3. ASSUME SoloInv, init_cache_used_size  PROVE SoloInv'
  <2>1. TypeInv'
    BY <1>3, TypeInductive DEF SoloInv, Next
  <2>2. UNCHANGED <<files, local_size, blocks>> /\ \A u \in Threads : call'[u] = NoCall
    BY <1>3 DEF init_cache_used_size
  <2>3. NoCall.step = "idle" /\ Recording(NoCall)
    BY DEF NoCall, Fresh, Recording, WriterSteps
  <2>4. LocalSizeBound'
    BY <1>3, <2>2, PendingBound DEF SoloInv, TypeInv, LocalSizeBound, BlocksOf
  <2>5. LocalSizeInv'
    <3>1. \A f \in Names : Pending(f)' = {}
      BY <2>2, <2>3 DEF Pending, At
    <3>2. \A f \in Names : local_size'[f] + meta_block_size * 0 = local_size'[f]
      BY <2>1, MetaAssumption DEF TypeInv, TypeOK
    <3>3. Cardinality({}) = 0
      BY FS_EmptySet
    <3>4. QED  BY <2>4, <3>1, <3>2, <3>3 DEF LocalSizeInv, LocalSizeBound
  <2>6. QED  BY <2>1, <2>2, <2>3, <2>5 DEF SoloInv, At
<1>4. ASSUME SoloInv, UNCHANGED metaVars  PROVE SoloInv'
  <2>1. TypeInv'
    BY <1>4, TypeInductive DEF SoloInv
  <2>2. QED
    BY <1>4, <2>1 DEF SoloInv, LocalSizeInv, Pending, BlocksOf, At, metaVars
<1>5. QED  BY <1>1, <1>2, <1>3, <1>4

\* What the tables charge is at most what they record.
LEMMA SumBound ==
  ASSUME TypeOK, \A f \in files : local_size[f] <= meta_block_size * Cardinality(BlocksOf(f))
  PROVE  SumLocal <= meta_block_size * Cardinality(blocks)
<1> DEFINE RowsOf(T) == {r \in blocks : r[1] \in T}
           X == {T \in SUBSET files :
                   SumOf(local_size, T) <= meta_block_size * Cardinality(RowsOf(T))}
<1>1. /\ IsFiniteSet(files) /\ \A f \in files : f \in Names /\ local_size[f] \in Int
      /\ IsFiniteSet(blocks) /\ blocks \subseteq Names \X Blocks
  <2>1. IsFiniteSet(Names \X Blocks)
    BY MetaAssumption, FS_Product
  <2>2. QED  BY <2>1, MetaAssumption, FS_Subset DEF TypeOK
<1>2. \A T : IsFiniteSet(RowsOf(T)) /\ Cardinality(RowsOf(T)) \in Nat
  BY <1>1, FS_Subset, FS_CardinalityType
<1>3. \A m, n \in Nat : /\ meta_block_size * (m + n) = meta_block_size * m + meta_block_size * n
                        /\ meta_block_size * m \in Nat
                        /\ m <= n => meta_block_size * m <= meta_block_size * n
  BY MetaAssumption
<1>4. ASSUME NEW T \in SUBSET files, \A U \in SUBSET T : U # T => U \in X
      PROVE  T \in X
  <2>1. CASE T = {}
    <3>1. SumOf(local_size, T) = 0
      BY <2>1, SumStep, FS_EmptySet
    <3> HIDE DEF RowsOf
    <3>2. meta_block_size * Cardinality(RowsOf(T)) \in Nat
      BY <1>2, <1>3
    <3>3. QED  BY <3>1, <3>2
  <2>2. CASE T # {}
    <3>1. PICK f \in T : TRUE
      BY <2>2
    <3> DEFINE U == T \ {f}
               V == RowsOf({f})
    <3>2. SumOf(local_size, T) = local_size[f] + SumOf(local_size, U)
          /\ SumOf(local_size, U) \in Int /\ local_size[f] \in Int
      BY <1>1, <3>1, SumTake
    <3>3. SumOf(local_size, U) <= meta_block_size * Cardinality(RowsOf(U))
      <4>1. U \in X
        BY <1>4, <3>1
      <4>2. QED  BY <4>1
    <3>4. Cardinality(RowsOf(T)) = Cardinality(V) + Cardinality(RowsOf(U))
      <4>1. RowsOf(T) = V \cup RowsOf(U) /\ V \cap RowsOf(U) = {}
        BY <3>1
      <4>2. Cardinality({}) = 0
        BY FS_EmptySet
      <4>3. /\ IsFiniteSet(V) /\ IsFiniteSet(RowsOf(U))
            /\ Cardinality(V) \in Nat /\ Cardinality(RowsOf(U)) \in Nat
        BY <1>2
      <4> DEFINE W == RowsOf(U)
      <4> HIDE DEF V, W
      <4>4. Cardinality(V \cup W) = Cardinality(V) + Cardinality(W) - Cardinality(V \cap W)
        BY <4>3, FS_Union DEF W
      <4>5. Cardinality(V \cup W) = Cardinality(V) + Cardinality(W)
        <5> DEFINE v == Cardinality(V)
                   w == Cardinality(W)
        <5>1. v \in Nat /\ w \in Nat /\ Cardinality(V \cap W) = 0
          BY <4>1, <4>2, <4>3 DEF W
        <5> HIDE DEF v, w
        <5>2. Cardinality(V \cup W) = v + w - 0
          BY <4>4, <5>1 DEF v, w
        <5>3. v + w - 0 = v + w
          BY <5>1
        <5>4. QED  BY <5>2, <5>3 DEF v, w
      <4> HIDE DEF RowsOf, U
      <4>6. RowsOf(T) = V \cup RowsOf(U)
        BY <4>1
      <4>7. QED  BY <4>5, <4>6 DEF W
    <3>5. Cardinality(V) = Cardinality(BlocksOf(f))
      <4>1. V = {f} \X BlocksOf(f)
        BY <1>1 DEF BlocksOf
      <4>2. IsFiniteSet({f}) /\ Cardinality({f}) = 1
        BY FS_Singleton
      <4>3. IsFiniteSet(BlocksOf(f)) /\ Cardinality(BlocksOf(f)) \in Nat
        BY <1>1, <3>1, Counts
      <4> HIDE DEF V
      <4>4. Cardinality({f} \X BlocksOf(f)) = 1 * Cardinality(BlocksOf(f))
        BY <4>2, <4>3, FS_Product
      <4>5. QED  BY <4>1, <4>3, <4>4
    <3>6. local_size[f] <= meta_block_size * Cardinality(V)
      BY <3>1, <3>5
    <3> HIDE DEF U, RowsOf
    <3> DEFINE m == Cardinality(V)
               n == Cardinality(RowsOf(U))
    <3>7. m \in Nat /\ n \in Nat
      BY <1>2
    <3>8. /\ meta_block_size * (m + n) = meta_block_size * m + meta_block_size * n
          /\ meta_block_size * m \in Nat /\ meta_block_size * n \in Nat
      BY <1>3, <3>7
    <3>9. SumOf(local_size, T) <= meta_block_size * (m + n)
      <4> DEFINE x == meta_block_size * m
                 y == meta_block_size * n
      <4>1. local_size[f] <= x /\ SumOf(local_size, U) <= y
        BY <3>3, <3>6
      <4>2. x \in Nat /\ y \in Nat /\ meta_block_size * (m + n) = x + y
        BY <3>8
      <4> HIDE DEF x, y, m, n
      <4>3. QED  BY <3>2, <4>1, <4>2
    <3>10. QED  BY <3>4, <3>9
  <2>3. QED  BY <2>1, <2>2
<1>5. \A T \in SUBSET files : T \in X
  <2> HIDE DEF X
  <2>1. QED  BY <1>1, <1>4, SubsetInduction
<1>6. SumOf(local_size, files) <= meta_block_size * Cardinality(RowsOf(files))
  BY <1>5
<1>7. Cardinality(RowsOf(files)) <= Cardinality(blocks)
  BY <1>1, FS_Subset
<1>8. SumLocal = SumOf(local_size, files) /\ SumLocal \in Int
  BY SumLocalType
<1> HIDE DEF RowsOf
<1> DEFINE m == meta_block_size * Cardinality(RowsOf(files))
           n == meta_block_size * Cardinality(blocks)
<1>9. m \in Nat /\ n \in Nat /\ m <= n
  <2>1. Cardinality(blocks) \in Nat
    BY <1>1, FS_CardinalityType
  <2>2. QED  BY <1>2, <1>3, <1>7, <2>1
<1>10. QED
  <2>1. SumLocal <= m
    BY <1>6, <1>8
  <2> HIDE DEF m, n
  <2>2. SumLocal <= n
    BY <1>8, <1>9, <2>1
  <2>3. QED  BY <2>2 DEF n
=============================================================================
