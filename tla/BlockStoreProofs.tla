-------------------------- MODULE BlockStoreProofs --------------------------
(***************************************************************************)
(* Proofs about the store for every number of workers, blocks, slots and   *)
(* ops, every batch of jobs, and with any of the modelled CUDA calls free  *)
(* to fail: facts about the data, the invariant Typed, what the parts of   *)
(* an action do to it, then one theorem per property, with one step per    *)
(* action in each.  The last two are about the slots: each has at most one *)
(* owner, the free pool, the index entry that names it, the op that        *)
(* reserved it, or the worker about to release it.  A step of a worker     *)
(* either gives no slot a new owner, or moves one along the path           *)
(*                                                                         *)
(*     free -> op -> index -> displaced -> free                            *)
(*                                                                         *)
(* with op -> free when a write is given up.  And none drops out of it, as *)
(* long as no copy into device memory fails to start.                      *)
(***************************************************************************)
EXTENDS BlockStore, TLAPS

-----------------------------------------------------------------------------
(* Facts about the data.                                                   *)

LEMMA EntMake ==
  ASSUME NEW g \in Slot, NEW n \in 0..CBLK_SIZE, NEW k \in Int
  PROVE  ent_make(g, n, k) \in Ent
  BY StoreAssumption DEF ent_make, Ent

LEMMA UnwrittenEnt == Unwritten \in Ent /\ Unwritten.clen = 0
  <1>1. 0 \in 0..CBLK_SIZE /\ SLOT_NONE \in Slot
    BY StoreAssumption DEF Slot
  <1>2. Unwritten \in Ent
    BY <1>1, EntMake DEF Unwritten
  <1>3. Unwritten.clen = 0
    BY Zenon DEF Unwritten, ent_make
  <1> QED
    BY <1>2, <1>3, Zenon

LEMMA ZeroPageType == ZeroPage \in Page /\ ZeroPage \in AnyPage
  BY StoreAssumption, Zenon DEF ZeroPage, Page, AnyPage

LEMMA DecompType ==
  ASSUME NEW img \in Stored, NEW n \in Int
  PROVE  decomp_block(img, n) \in AnyPage /\ DecompErr(img, n) \in Err
  BY Zenon DEF decomp_block, DecompErr, Stored, Image, AnyPage, Intact, Err

-----------------------------------------------------------------------------
(* Type correctness.                                                       *)

LEMMA IdxSucc ==
  ASSUME NEW i \in Idx
  PROVE  i \in 1..(MaxOps + 1) /\ i + 1 \in 1..(MaxOps + 1) /\ 1 \in 1..(MaxOps + 1)
  BY StoreAssumption DEF Idx

LEMMA IdxInt ==
  ASSUME NEW i \in Idx
  PROVE  i \in Int
  BY StoreAssumption DEF Idx

LEMMA StagedType ==
  ASSUME TypeOK, NEW w \in Workers, NEW i \in Idx
  PROVE  Staged(w, i) \subseteq Stored
  BY DEF TypeOK, Staged, Stored

LEMMA SnapshotType ==
  ASSUME TypeOK, NEW o \in Blkop
  PROVE  Snapshot(o) \in Blkop
  <1>1. index[o.blk] \in Ent
    BY Zenon DEF TypeOK, Blkop
  <1>2. index[o.blk].grain \in Slot
    BY <1>1, Zenon DEF Ent
  <1>3. (IF index[o.blk].clen = 0 THEN 0 ELSE 1) \in {0, 1, 2}
    BY Zenon
  <1> QED
    BY <1>1, <1>2, <1>3, Zenon DEF Snapshot, Blkop

(***************************************************************************)
(* What the labels say about the ops: the strengthening that makes type    *)
(* correctness and slot ownership inductive.                               *)
(***************************************************************************)
BatchLabels == {"prepare", "abort", "issue", "sync", "finish", "again",
                "againIssue", "locked", "lockedCopy", "publish", "release"}
RmwLabels == {"rmw", "rmwMerge", "rmwCopy", "rmwStore", "rmwRelease", "rmwOut"}
TrimLabels == {"trim", "trimLock", "trimRelease"}
HoldLabels == {"lockedCopy", "rmwMerge", "rmwCopy", "rmwStore", "rmwRelease", "rmwOut"}

(* An entry that names stored bytes names a slot.                          *)
Names(e) == e.clen # 0 => e.grain \in Slots

(* An op fits the label of its worker.  A write that took effect is behind *)
(* the publish loop's cursor.                                              *)
OpShape(w, i) ==
  LET o == ops[w][i] IN
  /\ pc[w] \in BatchLabels => o.cmd \in {"none", "READ", "WRITE"}
  /\ pc[w] \in TrimLabels => o.cmd \in {"none", "TRIM"}
  /\ pc[w] \in RmwLabels => o.cmd \in {"none", "RMW"}
  /\ o.cmd = "RMW" => o.page \in Page
  /\ o.cmd = "READ" /\ o.dma = 1 => o.ent.clen # 0 /\ o.grain \in Slots
  /\ o.cmd = "WRITE" /\ o.dma = 1 => o.grain \in Slots
  /\ o.cmd = "WRITE" /\ o.grain # SLOT_NONE => cstage[w][i] \in Image
  /\ o.cmd = "WRITE" /\ o.dma = 2 =>
       \/ pc[w] = "piece"
       \/ pc[w] = "publish" /\ i < cur[w]
       \/ pc[w] = "release" /\ i <= cur[w]
  /\ o.cmd = "RMW" /\ o.dma = 2 => pc[w] \in {"rmwRelease", "rmwOut", "piece"}

(* The op under the cursor fits the label, and a worker that holds a       *)
(* stripe lock holds that of the op's block: the entry it loaded stands.   *)
CurShape(w) ==
  LET o == ops[w][cur[w]] IN
  /\ pc[w] \in {"againIssue", "release", "trimLock", "trimRelease"} \cup HoldLabels
       => cur[w] \in Idx
  /\ pc[w] \in {"againIssue", "lockedCopy"} => o.cmd = "READ"
  /\ pc[w] = "againIssue" => o.dma = 1
  /\ pc[w] = "release" => o.cmd = "WRITE" /\ o.grain # SLOT_NONE
  /\ pc[w] \in {"rmwMerge", "rmwCopy", "rmwStore", "rmwRelease"} => o.cmd = "RMW"
  /\ pc[w] \in {"rmwCopy", "rmwStore"} => o.grain \in Slots
  /\ pc[w] \in {"rmwCopy", "rmwStore", "rmwRelease"} => cstage[w][cur[w]] \in Image
  /\ pc[w] \in {"prepare", "abort", "issue", "sync", "finish", "again", "againIssue"}
       => round[w] < Rounds
  /\ pc[w] \in HoldLabels => lock[IDXL[o.blk]] = w
  /\ pc[w] \in {"rmwMerge", "rmwCopy", "rmwStore"} => old[w] = index[o.blk]

Local(w) ==
  /\ Names(old[w])
  /\ \A i \in Idx : OpShape(w, i)
  /\ CurShape(w)

Shape ==
  /\ \A b \in Blocks : Names(index[b])
  /\ \A w \in Workers : Local(w)

Typed == TypeOK /\ Shape

(* A step of worker w leaves alone what the shape of the others rests on.  *)
Frame(w) ==
  \A v \in Workers : v # w =>
    /\ ops'[v] = ops[v] /\ pc'[v] = pc[v] /\ cur'[v] = cur[v]
    /\ round'[v] = round[v] /\ old'[v] = old[v]
    /\ \A j \in Idx :
         \/ cstage'[v][j] = cstage[v][j]
         \/ ops[v][j].cmd = "READ"
         \/ pc[v] = "rmwMerge" /\ j = cur[v]
    /\ \A l \in Stripes : lock[l] = v => lock'[l] = v
    /\ \A b \in Blocks : lock[IDXL[b]] = v => index'[b] = index[b]

(* Worker w replaced entry e of block b by one of n bytes in slot s.       *)
Supplants(w, b, e, s, n) ==
  /\ index' \in [Blocks -> Ent] /\ old' \in [Workers -> Ent]
  /\ seen' \in [Workers -> [Idx -> SUBSET AnyPage]]
  /\ \A c \in Blocks : Names(index[c])'
  /\ index'[b].clen = n /\ index'[b].grain = s
  /\ \A c \in Blocks : c # b => index'[c] = index[c]
  /\ old'[w] = e /\ Names(old[w])'
  /\ \A v \in Workers : v # w => old'[v] = old[v]

(* What the parts of an action do to the worker that takes it.             *)
LEMMA SetOpEffect ==
  ASSUME TypeOK, NEW w \in Workers, NEW i \in Idx, NEW o, SetOp(w, i, o)
  PROVE  /\ ops'[w][i] = o
         /\ \A j \in Idx : j # i => ops'[w][j] = ops[w][j]
         /\ \A v \in Workers : v # w => ops'[v] = ops[v]
  BY Zenon DEF TypeOK, SetOp

LEMMA GotoEffect ==
  ASSUME TypeOK, NEW w \in Workers, NEW l, NEW i, Goto(w, l, i)
  PROVE  /\ pc'[w] = l /\ cur'[w] = i
         /\ \A v \in Workers : v # w => pc'[v] = pc[v] /\ cur'[v] = cur[v]
  BY Zenon DEF TypeOK, Goto

LEMMA CurInt ==
  ASSUME TypeOK, NEW w \in Workers
  PROVE  cur[w] \in Int
  <1>1. cur[w] \in 1..(MaxOps + 1)
    BY Zenon DEF TypeOK
  <1> QED
    BY <1>1, StoreAssumption

Window == {"prepare", "abort", "issue", "sync", "finish", "again", "againIssue"}

-----------------------------------------------------------------------------
(* The updates of an op.                                                   *)

LEMMA ReservedOp ==
  ASSUME NEW o \in Blkop, NEW s \in Slots
  PROVE  LET n == Reserved(o, s) IN
         n \in Blkop /\ n.cmd = o.cmd /\ n.blk = o.blk /\ n.grain = s /\ n.dma = 1
  BY Zenon DEF Reserved, Blkop, Slot

LEMMA RefusedOp ==
  ASSUME NEW o \in Blkop, NEW e \in Err
  PROVE  LET n == Refused(o, e) IN
         n \in Blkop /\ n.cmd = o.cmd /\ n.blk = o.blk /\ n.grain = o.grain /\ n.dma = 0
  BY Zenon DEF Refused, Blkop

LEMMA GivenBackOp ==
  ASSUME NEW o \in Blkop
  PROVE  LET n == GivenBack(o) IN
         /\ n \in Blkop /\ n.cmd = o.cmd /\ n.blk = o.blk /\ n.page = o.page
         /\ n.grain = SLOT_NONE /\ n.dma = 0
  BY Zenon DEF GivenBack, Blkop, Slot

LEMMA ZeroedOp ==
  ASSUME NEW o \in Blkop
  PROVE  LET n == Zeroed(o) IN
         n \in Blkop /\ n.cmd = o.cmd /\ n.blk = o.blk /\ n.dma = 2
  BY ZeroPageType, Zenon DEF Zeroed, Blkop

LEMMA DoneOp ==
  ASSUME NEW o \in Blkop
  PROVE  LET n == Done(o) IN
         /\ n \in Blkop /\ n.cmd = o.cmd /\ n.blk = o.blk /\ n.dma = 2
         /\ n.grain = o.grain /\ n.page = o.page
  BY Zenon DEF Done, Blkop

LEMMA FailedOp ==
  ASSUME NEW o \in Blkop, NEW e \in Err
  PROVE  LET n == Failed(o, e) IN
         /\ n \in Blkop /\ n.cmd = o.cmd /\ n.blk = o.blk /\ n.dma = o.dma
         /\ n.grain = o.grain /\ n.page = o.page /\ n.ent = o.ent
  BY Zenon DEF Failed, Blkop

LEMMA HoldingOp ==
  ASSUME NEW o \in Blkop, NEW s \in Slots
  PROVE  LET n == Holding(o, s) IN
         /\ n \in Blkop /\ n.cmd = o.cmd /\ n.blk = o.blk /\ n.dma = o.dma
         /\ n.grain = s /\ n.page = o.page
  BY Zenon DEF Holding, Blkop, Slot

LEMMA EntLen ==
  ASSUME NEW e \in Ent
  PROVE  e.clen \in Int /\ e.grain \in Slot
  BY StoreAssumption DEF Ent

LEMMA SnapshotOp ==
  ASSUME TypeOK, NEW o \in Blkop
  PROVE  LET n == Snapshot(o) IN
         /\ n \in Blkop /\ n.cmd = o.cmd /\ n.blk = o.blk
         /\ n.ent = index[o.blk] /\ n.grain = index[o.blk].grain
         /\ n.dma = IF index[o.blk].clen = 0 THEN 0 ELSE 1
  BY SnapshotType, Zenon DEF Snapshot, Blkop

LEMMA TookOp ==
  ASSUME NEW o \in Blkop, NEW img \in Stored, NEW n \in Int
  PROVE  LET t == Took(o, img, n) IN
         /\ t \in Blkop /\ t.cmd = o.cmd /\ t.blk = o.blk
         /\ t.ent = o.ent /\ t.grain = o.grain
         /\ t.dma = IF DecompErr(img, n) = "ok" THEN 2 ELSE o.dma
  <1>1. decomp_block(img, n) \in AnyPage /\ DecompErr(img, n) \in Err
    BY DecompType, Zenon
  <1>2. (IF DecompErr(img, n) = "ok" THEN 2 ELSE o.dma) \in {0, 1, 2}
    BY Zenon DEF Blkop
  <1> QED
    BY <1>1, <1>2, Zenon DEF Took, Blkop

-----------------------------------------------------------------------------
(* Partial writes.                                                         *)

(* The fixed part of a step of a partial write that holds its lock.        *)
RmwAt(w) ==
  LET i == cur[w] IN
  /\ TypeOK /\ Names(old[w]) /\ (\A c \in Blocks : Names(index[c]))
  /\ pc[w] \in RmwLabels /\ i \in Idx /\ i \in 1..(MaxOps + 1)
  /\ ops[w][i] \in Blkop /\ ops[w][i].cmd = "RMW" /\ ops[w][i].page \in Page
  /\ ops[w][i].blk \in Blocks /\ lock[IDXL[ops[w][i].blk]] = w
  /\ cstage[w][i] \in Stored

LEMMA RmwHolds ==
  ASSUME Typed, NEW w \in Workers,
         pc[w] \in {"rmwMerge", "rmwCopy", "rmwStore", "rmwRelease"}
  PROVE  RmwAt(w)
  <1>1. /\ TypeOK /\ Local(w) /\ Names(old[w]) /\ (\A c \in Blocks : Names(index[c]))
        /\ cur[w] \in Idx /\ ops[w][cur[w]].cmd = "RMW"
        /\ lock[IDXL[ops[w][cur[w]].blk]] = w
    BY Zenon DEF Typed, Shape, Local, CurShape, HoldLabels
  <1>2. /\ ops[w][cur[w]] \in Blkop /\ cstage[w][cur[w]] \in Stored
        /\ ops[w][cur[w]].blk \in Blocks
    BY <1>1 DEF TypeOK, Blkop
  <1>3. ops[w][cur[w]].page \in Page
    BY <1>1, Zenon DEF Local, OpShape
  <1> QED
    BY <1>1, <1>2, <1>3, IdxSucc, Zenon DEF RmwAt, RmwLabels

-----------------------------------------------------------------------------
LEMMA AlwaysTyped == Spec => []Typed
  <1>NextEnt.
    ASSUME NEW e \in Ent, NEW g \in Slot, NEW n \in 0..CBLK_SIZE
    PROVE  ent_make(g, n, e.gen + 1) \in Ent
    <2> USE <1>NextEnt
    <2>1. e.gen \in Int
      BY StoreAssumption DEF Ent
    <2>2. e.gen + 1 \in Int
      BY <2>1
    <2> QED
      BY <2>2, EntMake, Zenon
  <1>CompBlockType.
    ASSUME NEW p \in AnyPage
    PROVE  comp_block(p) \in Image
    BY <1>CompBlockType, StoreAssumption, Zenon DEF comp_block, Image
  <1>MergeType.
    ASSUME NEW base \in AnyPage, NEW p \in Page, NEW part
    PROVE  Merge(base, p, part) \in AnyPage
    BY <1>MergeType, Zenon DEF Merge, AnyPage, Page
  <1>BlkopSetType.
    ASSUME NEW a \in Ask
    PROVE  blkop_set(a) \in Blkop
    <2> USE <1>BlkopSetType
    <2>1. a.page \in AnyPage
      BY Zenon DEF Ask, AnyPage
    <2> QED
      BY <2>1, UnwrittenEnt, Zenon DEF Ask, blkop_set, Blkop, Err, Slot
  <1>NoAskType.
    NoAsk \in Ask
    <2>1. (CHOOSE b \in Blocks : TRUE) \in Blocks
      BY StoreAssumption, Zenon
    <2>2. 1 \in Idx
      BY StoreAssumption DEF Idx
    <2> QED
      BY <2>1, <2>2, ZeroPageType, Zenon DEF NoAsk, Ask, Cmds
  <1>InitType.
    Init => TypeOK
    <2> SUFFICES ASSUME Init PROVE TypeOK
      BY Zenon
    <2>1. \A i \in Idx : blkop_set(NoAsk) \in Blkop
      BY <1>NoAskType, <1>BlkopSetType, Zenon
    <2>2. 0 \in 0..Rounds /\ 1 \in 1..(MaxOps + 1)
      BY StoreAssumption
    <2>3. <<>> \in Seq(Piece)
      OBVIOUS
    <2> QED
      BY <2>1, <2>2, <2>3, UnwrittenEnt DEF Init, TypeOK, Stored, Labels, Err
  (* What one op of one worker becomes.                                      *)
  <1>SetOpType.
    ASSUME TypeOK, NEW w \in Workers, NEW i \in Idx, NEW o \in Blkop, SetOp(w, i, o)
    PROVE  ops' \in [Workers -> [Idx -> Blkop]]
    BY <1>SetOpType, Zenon DEF TypeOK, SetOp
  <1>GotoType.
    ASSUME TypeOK, NEW w \in Workers, NEW l \in Labels, NEW i \in 1..(MaxOps + 1),
           Goto(w, l, i)
    PROVE  pc' \in [Workers -> Labels] /\ cur' \in [Workers -> 1..(MaxOps + 1)]
    BY <1>GotoType, Zenon DEF TypeOK, Goto
  <1>TearType.
    ASSUME TypeOK, NEW S, Tear(S)
    PROVE  cstage' \in [Workers -> [Idx -> Stored]]
    BY <1>TearType, Zenon DEF TypeOK, Tear, Stored
  <1>LoseReadsEffect.
    ASSUME TypeOK, NEW w \in Workers, LoseReads(w)
    PROVE  /\ cstage' \in [Workers -> [Idx -> Stored]]
           /\ \A v \in Workers, j \in Idx :
                cstage'[v][j] = cstage[v][j] \/ ops[v][j].cmd = "READ"
    BY <1>LoseReadsEffect, Zenon DEF TypeOK, LoseReads, Stored
  <1>SawType.
    ASSUME TypeOK, NEW b, NEW p \in AnyPage, Saw(b, p)
    PROVE  seen' \in [Workers -> [Idx -> SUBSET AnyPage]]
    BY <1>SawType DEF TypeOK, Saw
  <1>ContentsType.
    ASSUME TypeOK, NEW b \in Blocks, index[b].clen # 0 => index[b].grain \in Slots
    PROVE  Contents(b) \in AnyPage
    <2> USE <1>ContentsType
    <2>1. index[b] \in Ent /\ index[b].clen \in Int
      BY StoreAssumption DEF TypeOK, Ent
    <2>2. CASE index[b].clen = 0
      BY <2>2, ZeroPageType, Zenon DEF Contents
    <2>3. CASE index[b].clen # 0
      <3>1. mem[index[b].grain] \in Stored
        BY <2>3, Zenon DEF TypeOK
      <3> QED
        BY <3>1, <2>1, <2>3, DecompType, Zenon DEF Contents
    <2> QED
      BY <2>2, <2>3, Zenon
  <1>FrameShape.
    ASSUME Typed, NEW w \in Workers, Frame(w), NEW v \in Workers, v # w
    PROVE  Local(v)'
    <2> USE <1>FrameShape
    <2>1. /\ Local(v) /\ TypeOK
          /\ ops'[v] = ops[v] /\ pc'[v] = pc[v] /\ cur'[v] = cur[v]
          /\ round'[v] = round[v] /\ old'[v] = old[v]
      BY Zenon DEF Typed, Shape, Frame
    <2>2. \A j \in Idx :
            \/ cstage'[v][j] = cstage[v][j]
            \/ ops[v][j].cmd = "READ"
            \/ pc[v] = "rmwMerge" /\ j = cur[v]
      BY Zenon DEF Frame
    <2>0. /\ \A l \in Stripes : lock[l] = v => lock'[l] = v
          /\ \A b \in Blocks : lock[IDXL[b]] = v => index'[b] = index[b]
          /\ \A j \in Idx : ops[v][j].blk \in Blocks
      <3>1. \A j \in Idx : ops[v][j] \in Blkop
        BY Zenon DEF Typed, TypeOK
      <3> QED
        BY <3>1, Zenon DEF Frame, Blkop
    <2>3. Names(old[v])'
      BY <2>1, Zenon DEF Local, Names
    <2>4. ASSUME NEW i \in Idx PROVE OpShape(v, i)'
      <3>1. OpShape(v, i)
        BY <2>1, Zenon DEF Local
      <3>2. ops[v][i].cmd = "WRITE" => cstage'[v][i] = cstage[v][i]
        <4>1. pc[v] = "rmwMerge" => ops[v][cur[v]].cmd = "RMW"
          BY <2>1, Zenon DEF Local, CurShape
        <4> QED
          BY <2>2, <4>1, Zenon
      <3> QED
        BY <2>1, <3>1, <3>2, Zenon DEF OpShape
    <2>5. CurShape(v)'
      <3>1. CurShape(v)
        BY <2>1, Zenon DEF Local
      <3>2. pc[v] \in HoldLabels => lock'[IDXL[ops[v][cur[v]].blk]] = v
        <4>1. SUFFICES ASSUME pc[v] \in HoldLabels
                       PROVE  lock'[IDXL[ops[v][cur[v]].blk]] = v
          BY Zenon
        <4>2. cur[v] \in Idx /\ lock[IDXL[ops[v][cur[v]].blk]] = v
          BY <3>1, <4>1, Zenon DEF CurShape, HoldLabels
        <4>3. IDXL[ops[v][cur[v]].blk] \in Stripes
          BY <2>0, <4>2, StoreAssumption, Zenon
        <4> QED
          BY <2>0, <4>2, <4>3, Zenon
      <3>3. pc[v] \in {"rmwMerge", "rmwCopy", "rmwStore"} => old[v] = index'[ops[v][cur[v]].blk]
        <4>1. SUFFICES ASSUME pc[v] \in {"rmwMerge", "rmwCopy", "rmwStore"}
                       PROVE  old[v] = index'[ops[v][cur[v]].blk]
          BY Zenon
        <4>2. /\ cur[v] \in Idx /\ lock[IDXL[ops[v][cur[v]].blk]] = v
              /\ old[v] = index[ops[v][cur[v]].blk]
          BY <3>1, <4>1, Zenon DEF CurShape, HoldLabels
        <4> QED
          BY <2>0, <4>2, Zenon
      <3>4. pc[v] \in {"rmwCopy", "rmwStore", "rmwRelease"} => cstage'[v][cur[v]] \in Image
        BY <2>2, <3>1, Zenon DEF CurShape, HoldLabels
      <3> QED
        BY <2>1, <3>1, <3>2, <3>3, <3>4, Zenon DEF CurShape
    <2> QED
      BY <2>3, <2>4, <2>5, Zenon DEF Local
  <1>TearEffect.
    ASSUME TypeOK, NEW S, Tear(S), NEW v \in Workers, NEW j \in Idx
    PROVE  \/ cstage'[v][j] = cstage[v][j]
           \/ ops[v][j].cmd = "READ"
           \/ pc[v] = "rmwMerge" /\ j = cur[v]
    BY <1>TearEffect, Zenon DEF TypeOK, Tear, Reading
  <1>Reassemble.
    ASSUME Typed, NEW w \in Workers, Frame(w), TypeOK', Local(w)',
           \A b \in Blocks : Names(index[b])'
    PROVE  Typed'
    BY <1>Reassemble, <1>FrameShape, Zenon DEF Typed, Shape
  (* A step of the batch path that leaves the ops array as it is.            *)
  <1>OpsKept.
    ASSUME Typed, NEW w \in Workers, NEW l \in Labels, NEW k \in 1..(MaxOps + 1),
           Goto(w, l, k), UNCHANGED <<ops, old, index>>,
           \A s \in Stripes : lock[s] \in Workers /\ lock[s] # w => lock'[s] = lock[s],
           \A v \in Workers : v # w => round'[v] = round[v],
           \A v \in Workers, j \in Idx :
             \/ cstage'[v][j] = cstage[v][j]
             \/ ops[v][j].cmd = "READ"
             \/ v # w /\ pc[v] = "rmwMerge" /\ j = cur[v],
           \/ l = "piece"
           \/ /\ pc[w] \in BatchLabels \ {"publish", "release"}
              /\ l \in BatchLabels \ {"againIssue", "lockedCopy", "release"}
              /\ l \in Window => round'[w] < Rounds
    PROVE  Frame(w) /\ Local(w)'
    <2> USE <1>OpsKept
    <2>1. TypeOK /\ Local(w)
      BY Zenon DEF Typed, Shape
    <2>2. /\ pc'[w] = l /\ cur'[w] = k
          /\ \A v \in Workers : v # w => pc'[v] = pc[v] /\ cur'[v] = cur[v]
      BY <2>1, GotoEffect, Zenon
    <2>3. Frame(w)
      BY <2>2 DEF Frame
    <2>4. ASSUME NEW j \in Idx PROVE OpShape(w, j)'
      <3>1. OpShape(w, j)
        BY <2>1, Zenon DEF Local
      <3>2. ops[w][j].cmd = "WRITE" => cstage'[w][j] = cstage[w][j]
        BY Zenon
      <3> QED
        BY <2>2, <3>1, <3>2, Zenon DEF OpShape, BatchLabels, RmwLabels, TrimLabels
    <2>5. CurShape(w)'
      BY <2>2, Zenon DEF CurShape, BatchLabels, HoldLabels, Window
    <2> QED
      BY <2>1, <2>3, <2>4, <2>5, Zenon DEF Local, Names
  (* A step of the batch path, before the publish loop, that replaces one op. *)
  <1>OneOp.
    ASSUME Typed, NEW w \in Workers, NEW i \in Idx, NEW o \in Blkop,
           NEW l \in Labels, NEW k \in 1..(MaxOps + 1),
           SetOp(w, i, o), Goto(w, l, k), UNCHANGED <<round, old, index>>,
           \A s \in Stripes : lock[s] \in Workers /\ lock[s] # w => lock'[s] = lock[s],
           \A v \in Workers, j \in Idx :
             v # w \/ j # i => cstage'[v][j] = cstage[v][j],
           pc[w] \in BatchLabels \ {"publish", "release"},
           l \in BatchLabels \ {"publish", "release"},
           l \in Window => pc[w] \in Window,
           o.cmd = ops[w][i].cmd,
           o.cmd = "READ" /\ o.dma = 1 => o.ent.clen # 0 /\ o.grain \in Slots,
           o.cmd = "WRITE" => /\ o.dma # 2
                              /\ o.dma = 1 => o.grain \in Slots
                              /\ o.grain # SLOT_NONE => cstage'[w][i] \in Image,
           l = "againIssue" => k = i /\ o.cmd = "READ" /\ o.dma = 1,
           l = "lockedCopy" => k = i /\ o.cmd = "READ" /\ lock'[IDXL[o.blk]] = w
    PROVE  Frame(w) /\ Local(w)'
    <2> USE <1>OneOp
    <2>1. TypeOK /\ Local(w) /\ CurShape(w)
      BY Zenon DEF Typed, Shape, Local
    <2>2. /\ pc'[w] = l /\ cur'[w] = k
          /\ \A v \in Workers : v # w => pc'[v] = pc[v] /\ cur'[v] = cur[v]
      BY <2>1, GotoEffect, Zenon
    <2>3. /\ ops'[w][i] = o
          /\ \A j \in Idx : j # i => ops'[w][j] = ops[w][j]
          /\ \A v \in Workers : v # w => ops'[v] = ops[v]
      BY <2>1, SetOpEffect, Zenon
    <2>4. Frame(w)
      BY <2>2, <2>3 DEF Frame
    <2>5. ASSUME NEW j \in Idx, j # i PROVE OpShape(w, j)'
      <3>1. OpShape(w, j)
        BY <2>1, Zenon DEF Local
      <3>2. ops'[w][j] = ops[w][j] /\ cstage'[w][j] = cstage[w][j]
        BY <2>3, <2>5, Zenon
      <3> QED
        BY <2>2, <3>1, <3>2, Zenon DEF OpShape, BatchLabels, RmwLabels, TrimLabels
    <2>6. OpShape(w, i)'
      <3>1. OpShape(w, i)
        BY <2>1, Zenon DEF Local
      <3> QED
        BY <2>2, <2>3, <3>1, Zenon DEF OpShape, BatchLabels, RmwLabels, TrimLabels
    <2>7. CurShape(w)'
      BY <2>1, <2>2, <2>3, Zenon DEF CurShape, BatchLabels, HoldLabels, Window
    <2> QED
      BY <2>1, <2>4, <2>5, <2>6, <2>7, Zenon DEF Local, Names
  <1>OneRead.
    ASSUME Typed, NEW w \in Workers, NEW i \in Idx, NEW o \in Blkop,
           NEW l \in Labels, NEW k \in 1..(MaxOps + 1),
           SetOp(w, i, o), Goto(w, l, k), UNCHANGED <<round, old, index>>,
           \A s \in Stripes : lock[s] \in Workers /\ lock[s] # w => lock'[s] = lock[s],
           \A v \in Workers, j \in Idx :
             v # w \/ j # i => cstage'[v][j] = cstage[v][j],
           pc[w] \in BatchLabels \ {"publish", "release"},
           l \in BatchLabels \ {"publish", "release", "againIssue"},
           l \in Window => pc[w] \in Window,
           ops[w][i].cmd = "READ", o.cmd = "READ",
           o.dma = 1 => o.ent.clen # 0 /\ o.grain \in Slots,
           l = "lockedCopy" => k = i /\ lock'[IDXL[o.blk]] = w
    PROVE  Frame(w) /\ Local(w)'
    <2> USE <1>OneRead
    <2>1. /\ o.cmd = ops[w][i].cmd
          /\ o.cmd = "READ" /\ o.dma = 1 => o.ent.clen # 0 /\ o.grain \in Slots
          /\ o.cmd # "WRITE" /\ l # "againIssue"
          /\ l = "lockedCopy" => k = i /\ o.cmd = "READ" /\ lock'[IDXL[o.blk]] = w
          /\ l \in BatchLabels \ {"publish", "release"}
      BY Zenon
    <2> QED
      BY <2>1, <1>OneOp, Zenon
  <1>T_wr_prepare.
    ASSUME Typed, NEW w \in Workers, NEW i \in Idx, wr_prepare(w, i)
    PROVE  Typed'
    <2> USE <1>T_wr_prepare
    <2>1. TypeOK /\ OpShape(w, i) /\ ops[w][i] \in Blkop /\ ops[w][i].page \in AnyPage
      BY DEF Typed, Shape, Local, TypeOK, Blkop
    <2>2. PICK n \in Blkop :
            /\ SetOp(w, i, n) /\ n.cmd = "WRITE" /\ n.dma # 2
            /\ n.dma = 1 => n.grain \in Slots
      <3>1. CASE \E s \in free : SetOp(w, i, Reserved(ops[w][i], s))
        <4>1. PICK s \in Slots : SetOp(w, i, Reserved(ops[w][i], s))
          BY <2>1, <3>1, Zenon DEF TypeOK
        <4> QED
          BY <2>1, <4>1, ReservedOp DEF wr_prepare
      <3>2. CASE SetOp(w, i, Refused(ops[w][i], "ENOSPC"))
        BY <2>1, <3>2, RefusedOp DEF wr_prepare, Err
      <3> QED
        BY <3>1, <3>2, Zenon DEF wr_prepare
    <2>3. /\ cstage' \in [Workers -> [Idx -> Stored]] /\ cstage'[w][i] \in Image
          /\ \A v \in Workers, j \in Idx : v # w \/ j # i => cstage'[v][j] = cstage[v][j]
      BY <2>1, <1>CompBlockType, Zenon DEF wr_prepare, TypeOK, Stored
    <2>4. pc[w] = "prepare" /\ ops[w][i].cmd = "WRITE" /\ Goto(w, "prepare", i + 1)
      BY Zenon DEF wr_prepare, Turn
    <2>5. TypeOK'
      <3>1. ops' \in [Workers -> [Idx -> Blkop]]
        BY <2>1, <2>2, <1>SetOpType, Zenon
      <3>2. pc' \in [Workers -> Labels] /\ cur' \in [Workers -> 1..(MaxOps + 1)]
        BY <2>1, <2>4, <1>GotoType, IdxSucc, Zenon DEF Labels
      <3>3. free' \in SUBSET Slots
        BY <2>1, Zenon DEF wr_prepare, TypeOK
      <3> QED
        BY <2>1, <2>3, <3>1, <3>2, <3>3, Zenon DEF wr_prepare, TypeOK
    <2>6. Frame(w) /\ Local(w)'
      <3>1. /\ UNCHANGED <<round, old, index, lock>> /\ i + 1 \in 1..(MaxOps + 1)
            /\ "prepare" \in Labels /\ pc[w] \in Window
            /\ pc[w] \in BatchLabels \ {"publish", "release"}
            /\ "prepare" \in BatchLabels \ {"publish", "release"}
        BY <2>4, IdxSucc, Zenon DEF wr_prepare, BatchLabels, Window, Labels
      <3>2. /\ n.cmd = ops[w][i].cmd
            /\ n.cmd = "READ" /\ n.dma = 1 => n.ent.clen # 0 /\ n.grain \in Slots
            /\ n.cmd = "WRITE" => /\ n.dma # 2
                                  /\ n.dma = 1 => n.grain \in Slots
                                  /\ n.grain # SLOT_NONE => cstage'[w][i] \in Image
            /\ "prepare" # "againIssue" /\ "prepare" # "lockedCopy"
        BY <2>2, <2>3, <2>4, Zenon
      <3> QED
        BY <2>2, <2>3, <2>4, <3>1, <3>2, <1>OneOp, Zenon
    <2> QED
      BY <2>5, <2>6, <1>Reassemble, Zenon DEF wr_prepare, Typed, Shape
  <1>T_rd_prepare.
    ASSUME Typed, NEW w \in Workers, NEW i \in Idx, rd_prepare(w, i)
    PROVE  Typed'
    <2> USE <1>T_rd_prepare
    <2>1. TypeOK /\ ops[w][i] \in Blkop /\ Names(index[ops[w][i].blk])
      BY DEF Typed, Shape, TypeOK, Blkop
    <2>2. PICK n \in Blkop : /\ SetOp(w, i, n) /\ n.cmd = "READ" /\ ops[w][i].cmd = "READ"
                             /\ n.dma = 1 => n.ent.clen # 0 /\ n.grain \in Slots
      BY <2>1, SnapshotOp DEF rd_prepare, Names
    <2>3. pc[w] = "prepare" /\ Goto(w, "prepare", i + 1)
      BY Zenon DEF rd_prepare, Turn
    <2>4. TypeOK'
      BY <2>1, <2>2, <2>3, <1>SetOpType, <1>GotoType, IdxSucc, Zenon
      DEF rd_prepare, TypeOK, Labels, shared
    <2>5. Frame(w) /\ Local(w)'
      BY <2>2, <2>3, <1>OneOp, IdxSucc, Zenon DEF rd_prepare, shared, BatchLabels, Window, Labels
    <2> QED
      BY <2>4, <2>5, <1>Reassemble, Zenon DEF rd_prepare, shared, Typed, Shape
  <1>T_wr_abort.
    ASSUME Typed, NEW w \in Workers, NEW i \in Idx, wr_abort(w, i)
    PROVE  Typed'
    <2> USE <1>T_wr_abort
    <2>1. TypeOK /\ ops[w][i] \in Blkop
      BY Zenon DEF Typed, TypeOK
    <2>2. pc[w] = "abort" /\ Goto(w, "abort", i + 1) /\ ops[w][i].cmd = "WRITE"
      BY Zenon DEF wr_abort, Turn, Wants
    <2>3. PICK n \in Blkop : /\ SetOp(w, i, n) /\ n.cmd = "WRITE"
                             /\ n.dma = 0 /\ n.grain = SLOT_NONE
      BY <2>1, <2>2, GivenBackOp DEF wr_abort
    <2>4. TypeOK'
      <3>1. free' \in SUBSET Slots
        BY <2>1, Zenon DEF wr_abort, TypeOK, Blkop, Slot
      <3> QED
        BY <2>1, <2>2, <2>3, <3>1, <1>SetOpType, <1>GotoType, IdxSucc, Zenon
        DEF wr_abort, TypeOK, Labels
    <2>5. Frame(w) /\ Local(w)'
      <3>1. /\ UNCHANGED <<round, old, index, lock, cstage>> /\ i + 1 \in 1..(MaxOps + 1)
            /\ "abort" \in Labels /\ pc[w] \in Window
            /\ pc[w] \in BatchLabels \ {"publish", "release"}
            /\ "abort" \in BatchLabels \ {"publish", "release"}
            /\ "abort" # "againIssue" /\ "abort" # "lockedCopy"
        BY <2>2, IdxSucc, Zenon DEF wr_abort, BatchLabels, Window, Labels
      <3>2. n.dma # 1 /\ n.dma # 2 /\ n.cmd = ops[w][i].cmd /\ n.cmd # "READ"
        BY <2>2, <2>3
      <3> QED
        BY <2>2, <2>3, <3>1, <3>2, <1>OneOp, Zenon
    <2> QED
      BY <2>4, <2>5, <1>Reassemble, Zenon DEF wr_abort, Typed, Shape
  <1>T_Control.
    ASSUME Typed, NEW w \in Workers,
           \/ EndPrepare(w) \/ EndAbort(w) \/ EndIssue(w) \/ EndFinish(w)
           \/ EndLocked(w) \/ EndTrim(w)
    PROVE  Typed'
    <2> USE <1>T_Control
    <2>1. TypeOK /\ CurShape(w)
      BY Zenon DEF Typed, Shape, Local
    <2>2. UNCHANGED <<index, mem, free, lock, live, codec, round, via, todo, ops,
                      cstage, old, rerr, seen>>
      BY Zenon DEF EndPrepare, EndAbort, EndIssue, EndFinish, EndLocked, EndTrim, shared
    <2>3. PICK l \in Labels :
            /\ Goto(w, l, 1)
            /\ \/ l = "piece"
               \/ /\ pc[w] \in BatchLabels \ {"publish", "release"}
                  /\ l \in BatchLabels \ {"againIssue", "lockedCopy", "release"}
                  /\ l \in Window => round[w] < Rounds
      BY <2>1, Zenon DEF EndPrepare, EndAbort, EndIssue, EndFinish, EndLocked, EndTrim, Over,
                  CurShape, BatchLabels, Window, Labels
    <2>4. 1 \in 1..(MaxOps + 1)
      BY StoreAssumption
    <2>5. TypeOK'
      BY <2>1, <2>2, <2>3, <2>4, <1>GotoType, Zenon DEF TypeOK
    <2>6. Frame(w) /\ Local(w)'
      BY <2>2, <2>3, <2>4, <1>OpsKept, Zenon
    <2> QED
      BY <2>2, <2>5, <2>6, <1>Reassemble, Zenon DEF Typed, Shape
  <1>T_EndAgain.
    ASSUME Typed, NEW w \in Workers, EndAgain(w)
    PROVE  Typed'
    <2> USE <1>T_EndAgain
    <2>1. TypeOK /\ CurShape(w) /\ pc[w] = "again" /\ round[w] < Rounds /\ round[w] \in 0..Rounds
      BY Zenon DEF Typed, Shape, Local, CurShape, EndAgain, Over, TypeOK
    <2>2. PICK l \in {"locked", "finish"} :
            Goto(w, l, 1) /\ (l = "finish" => round[w] + 1 # Rounds)
      BY Zenon DEF EndAgain
    <2>3. /\ round' \in [Workers -> 0..Rounds]
          /\ l = "finish" => round'[w] < Rounds
          /\ \A v \in Workers : v # w => round'[v] = round[v]
      BY <2>1, <2>2, StoreAssumption DEF EndAgain, TypeOK
    <2>4. 1 \in 1..(MaxOps + 1) /\ l \in Labels
      BY StoreAssumption DEF Labels
    <2>5. /\ cstage' \in [Workers -> [Idx -> Stored]]
          /\ \A v \in Workers, j \in Idx :
               cstage'[v][j] = cstage[v][j] \/ ops[v][j].cmd = "READ"
      BY <2>1, <1>LoseReadsEffect, Zenon DEF EndAgain, TypeOK
    <2>6. TypeOK'
      BY <2>1, <2>2, <2>3, <2>4, <2>5, <1>GotoType, Zenon DEF EndAgain, TypeOK, shared
    <2>7. Frame(w) /\ Local(w)'
      BY <2>1, <2>2, <2>3, <2>4, <2>5, <1>OpsKept, Zenon DEF EndAgain, shared, BatchLabels, Window
    <2> QED
      BY <2>6, <2>7, <1>Reassemble, Zenon DEF Typed, Shape, EndAgain, shared
  <1>CollectType.
    ASSUME TypeOK, NEW w \in Workers, Collect(w)
    PROVE  rerr' \in [Workers -> [Idx -> Err]]
    BY <1>CollectType, Zenon DEF TypeOK, Collect, Worst, Err
  <1>T_EndPublish.
    ASSUME Typed, NEW w \in Workers, EndPublish(w)
    PROVE  Typed'
    <2> USE <1>T_EndPublish
    <2>1. TypeOK /\ Goto(w, "piece", 1)
      BY Zenon DEF Typed, EndPublish
    <2>2. 1 \in 1..(MaxOps + 1) /\ "piece" \in Labels
      BY StoreAssumption DEF Labels
    <2>3. TypeOK'
      BY <2>1, <2>2, <1>GotoType, <1>CollectType, Zenon DEF EndPublish, TypeOK, shared
    <2>4. Frame(w) /\ Local(w)'
      BY <2>1, <2>2, <1>OpsKept, Zenon DEF EndPublish, shared
    <2> QED
      BY <2>3, <2>4, <1>Reassemble, Zenon DEF Typed, Shape, EndPublish, shared
  <1>T_IssueRead.
    ASSUME Typed, NEW w \in Workers, NEW i \in Idx, IssueRead(w, i)
    PROVE  Typed'
    <2> USE <1>T_IssueRead
    <2>1. TypeOK /\ OpShape(w, i) /\ CurShape(w)
      BY Zenon DEF Typed, Shape, Local
    <2>2. /\ pc[w] = "issue" /\ Goto(w, "issue", i + 1)
          /\ ops[w][i].cmd = "READ" /\ ops[w][i].dma = 1
      BY Zenon DEF IssueRead, Turn, Wants
    <2>3. mem[ops[w][i].grain] \in Stored
      BY <2>1, <2>2, Zenon DEF OpShape, TypeOK
    <2>4. /\ cstage' \in [Workers -> [Idx -> Stored]]
          /\ \A v \in Workers, j \in Idx : v # w \/ j # i => cstage'[v][j] = cstage[v][j]
      BY <2>1, <2>3, Zenon DEF IssueRead, TypeOK
    <2>5. TypeOK'
      BY <2>1, <2>2, <2>4, <1>GotoType, IdxSucc, Zenon DEF IssueRead, TypeOK, shared, Labels
    <2>6. round[w] < Rounds
      BY <2>1, <2>2, Zenon DEF CurShape
    <2>7. Frame(w) /\ Local(w)'
      BY <2>2, <2>4, <2>6, <1>OpsKept, IdxSucc, Zenon
      DEF IssueRead, shared, BatchLabels, Window, Labels
    <2> QED
      BY <2>5, <2>7, <1>Reassemble, Zenon DEF Typed, Shape, IssueRead, shared
  <1>T_IssueWrite.
    ASSUME Typed, NEW w \in Workers, NEW i \in Idx, IssueWrite(w, i)
    PROVE  Typed'
    <2> USE <1>T_IssueWrite
    <2>1. TypeOK /\ CurShape(w)
      BY Zenon DEF Typed, Shape, Local
    <2>2. pc[w] = "issue" /\ Goto(w, "issue", i + 1) /\ Tear({ops[w][i].grain})
      BY Zenon DEF IssueWrite, Turn
    <2>3. mem' \in [Slots -> Stored]
      BY <2>1, Zenon DEF IssueWrite, TypeOK, Stored
    <2>4. TypeOK'
      BY <2>1, <2>2, <2>3, <1>GotoType, <1>TearType, IdxSucc, Zenon DEF IssueWrite, TypeOK, Labels
    <2>5. \A v \in Workers, j \in Idx :
            \/ cstage'[v][j] = cstage[v][j]
            \/ ops[v][j].cmd = "READ"
            \/ v # w /\ pc[v] = "rmwMerge" /\ j = cur[v]
      BY <2>1, <2>2, <1>TearEffect, Zenon
    <2>6. round[w] < Rounds
      BY <2>1, <2>2, Zenon DEF CurShape
    <2>7. Frame(w) /\ Local(w)'
      BY <2>2, <2>5, <2>6, <1>OpsKept, IdxSucc, Zenon DEF IssueWrite, BatchLabels, Window, Labels
    <2> QED
      BY <2>4, <2>7, <1>Reassemble, Zenon DEF Typed, Shape, IssueWrite
  <1>T_IssueFails.
    ASSUME Typed, NEW w \in Workers, NEW i \in Idx, IssueFails(w, i)
    PROVE  Typed'
    <2> USE <1>T_IssueFails
    <2>1. TypeOK /\ OpShape(w, i) /\ ops[w][i] \in Blkop
      BY Zenon DEF Typed, Shape, Local, TypeOK
    <2>2. pc[w] = "issue" /\ Goto(w, "issue", i + 1)
      BY Zenon DEF IssueFails, Turn
    <2>3. PICK n \in Blkop : /\ SetOp(w, i, n) /\ n.cmd = ops[w][i].cmd
                             /\ n.dma = 0 /\ n.grain = ops[w][i].grain
      BY <2>1, RefusedOp, Zenon DEF IssueFails, Err
    <2>4. n.cmd = "WRITE" /\ n.grain # SLOT_NONE => cstage[w][i] \in Image
      BY <2>1, <2>3, Zenon DEF OpShape
    <2>5. TypeOK'
      BY <2>1, <2>2, <2>3, <1>SetOpType, <1>GotoType, IdxSucc, Zenon
      DEF IssueFails, TypeOK, Labels, shared
    <2>6. Frame(w) /\ Local(w)'
      <3>1. /\ UNCHANGED <<round, old, index, lock, cstage>> /\ i + 1 \in 1..(MaxOps + 1)
            /\ "issue" \in Labels /\ pc[w] \in Window
            /\ pc[w] \in BatchLabels \ {"publish", "release"}
            /\ "issue" \in BatchLabels \ {"publish", "release"}
            /\ "issue" # "againIssue" /\ "issue" # "lockedCopy"
        BY <2>2, IdxSucc, Zenon DEF IssueFails, shared, BatchLabels, Window, Labels
      <3>2. n.dma # 1 /\ n.dma # 2
        BY <2>3
      <3> QED
        BY <2>2, <2>3, <2>4, <3>1, <3>2, <1>OneOp, Zenon
    <2> QED
      BY <2>5, <2>6, <1>Reassemble, Zenon DEF Typed, Shape, IssueFails, shared
  <1>T_Synchronize.
    ASSUME Typed, NEW w \in Workers, Synchronize(w)
    PROVE  Typed'
    <2> USE <1>T_Synchronize
    <2>1. TypeOK /\ CurShape(w)
      BY Zenon DEF Typed, Shape, Local
    <2>2. /\ pc[w] = "sync" /\ Goto(w, "finish", 1)
          /\ Tear({ops[w][i].grain : i \in Writing(w)}) \/ LoseReads(w)
      BY Zenon DEF Synchronize
    <2>3. mem' \in [Slots -> Stored]
      <3>1. ASSUME NEW s \in Slots, \E i \in Writing(w) : ops[w][i].grain = s
            PROVE  cstage[w][CHOOSE i \in Writing(w) : ops[w][i].grain = s] \in Stored
        <4>1. (CHOOSE i \in Writing(w) : ops[w][i].grain = s) \in Idx
          BY <3>1, Zenon DEF Writing
        <4> QED
          BY <2>1, <4>1, Zenon DEF TypeOK
      <3> QED
        BY <2>1, <3>1, Zenon DEF Synchronize, TypeOK
    <2>4. 1 \in 1..(MaxOps + 1) /\ "finish" \in Labels
      BY StoreAssumption DEF Labels
    <2>5. TypeOK'
      BY <2>1, <2>2, <2>3, <2>4, <1>GotoType, <1>TearType, <1>LoseReadsEffect, Zenon
      DEF Synchronize, TypeOK
    <2>6. \A v \in Workers, j \in Idx :
            \/ cstage'[v][j] = cstage[v][j]
            \/ ops[v][j].cmd = "READ"
            \/ v # w /\ pc[v] = "rmwMerge" /\ j = cur[v]
      <3>1. CASE Tear({ops[w][i].grain : i \in Writing(w)})
        BY <2>1, <2>2, <3>1, <1>TearEffect, Zenon
      <3>2. CASE LoseReads(w)
        BY <2>1, <3>2, <1>LoseReadsEffect, Zenon
      <3> QED
        BY <2>2, <3>1, <3>2, Zenon
    <2>7. round[w] < Rounds
      BY <2>1, <2>2, Zenon DEF CurShape
    <2>8. Frame(w) /\ Local(w)'
      BY <2>2, <2>4, <2>6, <2>7, <1>OpsKept, Zenon DEF Synchronize, BatchLabels, Window
    <2> QED
      BY <2>5, <2>8, <1>Reassemble, Zenon DEF Typed, Shape, Synchronize
  <1>T_rd_finish.
    ASSUME Typed, NEW w \in Workers, NEW i \in Idx, rd_finish(w, i)
    PROVE  Typed'
    <2> USE <1>T_rd_finish
    <2>0. TypeOK /\ OpShape(w, i) /\ ops[w][i] \in Blkop
      BY Zenon DEF Typed, Shape, Local, TypeOK
    <2>1. TypeOK /\ OpShape(w, i) /\ ops[w][i] \in Blkop /\ ops[w][i].ent.clen \in Int
      BY <2>0, EntLen, Zenon DEF Blkop
    <2>2. pc[w] = "finish" /\ Goto(w, "finish", i + 1) /\ ops[w][i].cmd = "READ"
      BY Zenon DEF rd_finish, Turn, Wants
    <2>3. PICK n \in Blkop : /\ SetOp(w, i, n) /\ n.cmd = "READ"
                             /\ n.dma = 1 => n.ent.clen # 0 /\ n.grain \in Slots
      <3>1. CASE SetOp(w, i, Zeroed(ops[w][i]))
        BY <2>1, <2>2, <3>1, ZeroedOp
      <3>2. CASE UNCHANGED ops
        <4>1. SetOp(w, i, ops[w][i])
          BY <2>1, <3>2, Zenon DEF SetOp, TypeOK
        <4> QED
          BY <2>1, <2>2, <4>1, Zenon DEF OpShape
      <3>3. CASE SetOp(w, i, Took(ops[w][i], cstage[w][i], ops[w][i].ent.clen))
        <4>1. cstage[w][i] \in Stored
          BY <2>1, Zenon DEF TypeOK
        <4>2. ops[w][i].dma = 1 => ops[w][i].ent.clen # 0 /\ ops[w][i].grain \in Slots
          BY <2>1, <2>2, Zenon DEF OpShape
        <4> QED
          <5>1. PICK o \in Blkop, img \in Stored, m \in Int :
                  o = ops[w][i] /\ img = cstage[w][i] /\ m = ops[w][i].ent.clen
            BY <2>1, <4>1, Zenon
          <5>2. LET t == Took(o, img, m) IN
                /\ t \in Blkop /\ t.cmd = o.cmd /\ t.ent = o.ent /\ t.grain = o.grain
                /\ t.dma = IF DecompErr(img, m) = "ok" THEN 2 ELSE o.dma
            BY TookOp, Zenon
          <5>3. PICK t : t = Took(o, img, m)
            BY Zenon
          <5>4. t.dma = 1 => o.dma = 1
            BY <5>2, <5>3
          <5> QED
            BY <2>2, <3>3, <4>2, <5>1, <5>2, <5>3, <5>4, Zenon
      <3> QED
        BY <3>1, <3>2, <3>3, Zenon DEF rd_finish
    <2>4. TypeOK'
      BY <2>1, <2>2, <2>3, <1>SetOpType, <1>GotoType, IdxSucc, Zenon
      DEF rd_finish, TypeOK, Labels, shared
    <2>5. Frame(w) /\ Local(w)'
      BY <2>2, <2>3, <1>OneOp, IdxSucc, Zenon DEF rd_finish, shared, BatchLabels, Window, Labels
    <2> QED
      BY <2>4, <2>5, <1>Reassemble, Zenon DEF Typed, Shape, rd_finish, shared
  <1>T_Resnapshot.
    ASSUME Typed, NEW w \in Workers, NEW i \in Idx, Resnapshot(w, i)
    PROVE  Typed'
    <2> USE <1>T_Resnapshot
    <2>1. TypeOK /\ ops[w][i] \in Blkop /\ Names(index[ops[w][i].blk])
      BY DEF Typed, Shape, TypeOK, Blkop
    <2>2. pc[w] = "again" /\ ops[w][i].cmd = "READ"
      BY Zenon DEF Resnapshot, Turn, Wants
    <2>3. PICK n \in Blkop : /\ SetOp(w, i, n) /\ n.cmd = "READ"
                             /\ n.dma = 1 => n.ent.clen # 0 /\ n.grain \in Slots
                             /\ n.dma = IF index[ops[w][i].blk].clen = 0 THEN 0 ELSE 1
      <3>1. PICK n : n = Snapshot(ops[w][i])
        BY Zenon
      <3>2. /\ n \in Blkop /\ n.cmd = "READ" /\ n.ent = index[ops[w][i].blk]
            /\ n.grain = index[ops[w][i].blk].grain
            /\ n.dma = IF index[ops[w][i].blk].clen = 0 THEN 0 ELSE 1
        BY <2>1, <2>2, <3>1, SnapshotOp, Zenon
      <3>3. n.dma = 1 => n.ent.clen # 0
        BY <3>2
      <3>4. SetOp(w, i, n)
        BY <3>1, Zenon DEF Resnapshot
      <3> QED
        BY <2>1, <3>2, <3>3, <3>4, Zenon DEF Names
    <2>4. PICK l \in {"again", "againIssue"}, k \in {i, i + 1} :
            Goto(w, l, k) /\ (l = "againIssue" => k = i /\ n.dma = 1)
      BY <2>3, Zenon DEF Resnapshot
    <2>5. l \in Labels /\ k \in 1..(MaxOps + 1)
      BY IdxSucc, Zenon DEF Labels
    <2>6. TypeOK'
      BY <2>1, <2>3, <2>4, <2>5, <1>SetOpType, <1>GotoType, Zenon DEF Resnapshot, TypeOK, shared
    <2>7. Frame(w) /\ Local(w)'
      BY <2>2, <2>3, <2>4, <2>5, <1>OneOp, Zenon DEF Resnapshot, shared, BatchLabels, Window
    <2> QED
      BY <2>6, <2>7, <1>Reassemble, Zenon DEF Typed, Shape, Resnapshot, shared
  <1>T_Reissue.
    ASSUME Typed, NEW w \in Workers, Reissue(w)
    PROVE  Typed'
    <2> USE <1>T_Reissue
    <2> DEFINE i == cur[w]
    <2>1. /\ TypeOK /\ pc[w] = "againIssue" /\ Goto(w, "again", i + 1)
          /\ i \in Idx /\ ops[w][i].cmd = "READ" /\ ops[w][i].dma = 1
      BY Zenon DEF Typed, Shape, Local, CurShape, Reissue
    <2>2. OpShape(w, i) /\ ops[w][i] \in Blkop
      BY <2>1, Zenon DEF Typed, Shape, Local, TypeOK
    <2>3. PICK n \in Blkop : /\ SetOp(w, i, n) /\ n.cmd = "READ"
                             /\ n.dma = 1 => n.ent.clen # 0 /\ n.grain \in Slots
      <3>1. CASE UNCHANGED ops
        <4>1. SetOp(w, i, ops[w][i])
          BY <2>1, <3>1, Zenon DEF SetOp, TypeOK
        <4> QED
          BY <2>1, <2>2, <4>1, Zenon DEF OpShape
      <3>2. CASE SetOp(w, i, Refused(ops[w][i], "EIO"))
        <4>1. PICK n : n = Refused(ops[w][i], "EIO")
          BY Zenon
        <4>2. n \in Blkop /\ n.cmd = "READ" /\ n.dma = 0
          BY <2>1, <2>2, <4>1, RefusedOp, Zenon DEF Err
        <4>3. n.dma # 1
          BY <4>2
        <4> QED
          BY <3>2, <4>1, <4>2, <4>3, Zenon
      <3> QED
        BY <3>1, <3>2, Zenon DEF Reissue
    <2>4. /\ cstage' \in [Workers -> [Idx -> Stored]]
          /\ \A v \in Workers, j \in Idx : v # w \/ j # i => cstage'[v][j] = cstage[v][j]
      <3>1. mem[ops[w][i].grain] \in Stored
        BY <2>1, <2>2, Zenon DEF OpShape, TypeOK
      <3>2. CASE UNCHANGED cstage
        BY <2>1, <3>2, Zenon DEF TypeOK
      <3>3. CASE cstage' = [cstage EXCEPT ![w][i] = mem[ops[w][i].grain]]
        BY <2>1, <3>1, <3>3, Zenon DEF TypeOK
      <3> QED
        BY <3>2, <3>3, Zenon DEF Reissue
    <2>5. TypeOK'
      BY <2>1, <2>3, <2>4, <1>SetOpType, <1>GotoType, IdxSucc, Zenon
      DEF Reissue, TypeOK, Labels, shared
    <2>6. Frame(w) /\ Local(w)'
      <3>1. /\ UNCHANGED <<round, old, index, lock>> /\ i + 1 \in 1..(MaxOps + 1)
            /\ "again" \in Labels /\ pc[w] \in Window
            /\ pc[w] \in BatchLabels \ {"publish", "release"}
            /\ "again" \in BatchLabels \ {"publish", "release", "againIssue"}
            /\ "again" # "lockedCopy" /\ Goto(w, "again", i + 1)
        BY <2>1, IdxSucc, Zenon DEF Reissue, shared, BatchLabels, Window, Labels
      <3> QED
        BY <2>1, <2>3, <2>4, <3>1, <1>OneRead, Zenon
    <2> QED
      BY <2>5, <2>6, <1>Reassemble, Zenon DEF Typed, Shape, Reissue, shared
  <1>T_rd_block_locked.
    ASSUME Typed, NEW w \in Workers, NEW i \in Idx, rd_block_locked(w, i)
    PROVE  Typed'
    <2> USE <1>T_rd_block_locked
    <2> DEFINE o == Snapshot(ops[w][i])
               b == ops[w][i].blk
    <2>1. TypeOK /\ ops[w][i] \in Blkop /\ b \in Blocks /\ Names(index[b]) /\ IDXL[b] \in Stripes
      <3>1. TypeOK /\ ops[w][i] \in Blkop
        BY Zenon DEF Typed, TypeOK
      <3>2. b \in Blocks
        BY <3>1, Zenon DEF Blkop
      <3> QED
        BY <3>1, <3>2, StoreAssumption, Zenon DEF Typed, Shape
    <2>2. /\ pc[w] = "locked" /\ Goto(w, "lockedCopy", i) /\ ops[w][i].cmd = "READ"
          /\ lock[IDXL[b]] = NoWorker /\ lock' = [lock EXCEPT ![IDXL[b]] = w]
      BY Zenon DEF rd_block_locked, Turn, Wants, Unlocked
    <2>3. /\ o \in Blkop /\ o.cmd = "READ" /\ o.blk = b
          /\ o.dma = 1 => o.ent.clen # 0 /\ o.grain \in Slots
      <3>1. /\ o \in Blkop /\ o.cmd = "READ" /\ o.blk = b /\ o.ent = index[b]
            /\ o.grain = index[b].grain /\ o.dma = IF index[b].clen = 0 THEN 0 ELSE 1
        BY <2>1, <2>2, SnapshotOp, Zenon
      <3> HIDE DEF o, b
      <3>2. o.dma = 1 => index[b].clen # 0
        BY <3>1
      <3> QED
        BY <2>1, <3>1, <3>2, Zenon DEF Names
    <2>4. PICK n \in Blkop : /\ SetOp(w, i, n) /\ n.cmd = "READ" /\ n.blk = b
                             /\ n.dma = 1 => n.ent.clen # 0 /\ n.grain \in Slots
      <3>1. CASE SetOp(w, i, o)
        BY <2>3, <3>1, Zenon
      <3>2. CASE SetOp(w, i, Zeroed(o))
        <4>1. PICK n : n = Zeroed(o)
          BY Zenon
        <4>2. n \in Blkop /\ n.cmd = "READ" /\ n.blk = b /\ n.dma = 2
          BY <2>3, <4>1, ZeroedOp, Zenon
        <4>3. n.dma # 1
          BY <4>2
        <4> QED
          BY <3>2, <4>1, <4>2, <4>3, Zenon
      <3>3. CASE SetOp(w, i, Failed(o, "EIO"))
        BY <2>3, <3>3, FailedOp DEF Err
      <3> QED
        BY <3>1, <3>2, <3>3, Zenon DEF rd_block_locked
    <2>5. /\ cstage' \in [Workers -> [Idx -> Stored]]
          /\ \A v \in Workers, j \in Idx : v # w \/ j # i => cstage'[v][j] = cstage[v][j]
      <3>1. CASE UNCHANGED cstage
        BY <2>1, <3>1, Zenon DEF TypeOK
      <3>2. CASE o.dma = 1 /\ cstage' = [cstage EXCEPT ![w][i] = mem[o.grain]]
        <4>1. mem[o.grain] \in Stored
          BY <2>1, <2>3, <3>2, Zenon DEF TypeOK
        <4> QED
          BY <2>1, <3>2, <4>1, Zenon DEF TypeOK
      <3> QED
        BY <3>1, <3>2, Zenon DEF rd_block_locked
    <2>6. /\ lock' \in [Stripes -> Workers \cup {NoWorker}] /\ lock'[IDXL[b]] = w
          /\ \A s \in Stripes : lock[s] \in Workers /\ lock[s] # w => lock'[s] = lock[s]
      BY <2>1, <2>2, StoreAssumption, Zenon DEF TypeOK
    <2>7. TypeOK'
      BY <2>1, <2>2, <2>4, <2>5, <2>6, <1>SetOpType, <1>GotoType, IdxSucc, Zenon
         DEF rd_block_locked, TypeOK, Labels
    <2>8. Frame(w) /\ Local(w)'
      <3>1. /\ UNCHANGED <<round, old, index>> /\ i \in 1..(MaxOps + 1)
            /\ "lockedCopy" \in Labels /\ "lockedCopy" \notin Window
            /\ pc[w] \in BatchLabels \ {"publish", "release"}
            /\ "lockedCopy" \in BatchLabels \ {"publish", "release", "againIssue"}
        BY <2>2, IdxSucc, Zenon DEF rd_block_locked, BatchLabels, Window, Labels
      <3>2. Goto(w, "lockedCopy", i) /\ ops[w][i].cmd = "READ" /\ lock'[IDXL[n.blk]] = w
        BY <2>2, <2>4, <2>6, Zenon
      <3> HIDE DEF o, b
      <3> QED
        BY <2>4, <2>5, <2>6, <3>1, <3>2, <1>OneRead, Zenon
    <2> QED
      BY <2>7, <2>8, <1>Reassemble, Zenon DEF Typed, Shape, rd_block_locked
  <1>T_LockedDone.
    ASSUME Typed, NEW w \in Workers, LockedDone(w)
    PROVE  Typed'
    <2> USE <1>T_LockedDone
    <2> DEFINE i == cur[w]
               o == ops[w][i]
    <2>1. /\ TypeOK /\ pc[w] = "lockedCopy" /\ Goto(w, "locked", i + 1)
          /\ i \in Idx /\ o.cmd = "READ" /\ lock[IDXL[o.blk]] = w
          /\ lock' = [lock EXCEPT ![IDXL[o.blk]] = NoWorker]
      BY Zenon DEF Typed, Shape, Local, CurShape, HoldLabels, LockedDone
    <2>2. OpShape(w, i) /\ o \in Blkop /\ cstage[w][i] \in Stored
      BY <2>1, Zenon DEF Typed, Shape, Local, TypeOK
    <2>3. o.ent.clen \in Int
      BY <2>2, EntLen, Zenon DEF Blkop
    <2>4. PICK n \in Blkop : /\ SetOp(w, i, n) /\ n.cmd = "READ"
                             /\ n.dma = 1 => n.ent.clen # 0 /\ n.grain \in Slots
      <3>1. o.dma = 1 => o.ent.clen # 0 /\ o.grain \in Slots
        BY <2>1, <2>2, Zenon DEF OpShape
      <3>2. CASE SetOp(w, i, o)
        BY <2>1, <2>2, <3>1, <3>2, Zenon
      <3>3. PICK img \in Stored :
              SetOp(w, i, IF o.err = "ok" /\ o.dma = 1 THEN Took(o, img, o.ent.clen) ELSE o)
        BY <2>1, StagedType, Zenon DEF LockedDone
      <3>4. CASE SetOp(w, i, Took(o, img, o.ent.clen))
        <4>1. o \in Blkop /\ o.cmd = "READ" /\ o.ent.clen \in Int
          BY <2>1, <2>2, <2>3, Zenon
        <4> HIDE DEF i, o
        <4>2. LET t == Took(o, img, o.ent.clen) IN
              /\ t \in Blkop /\ t.cmd = "READ" /\ t.ent = o.ent /\ t.grain = o.grain
              /\ t.dma = 1 => o.dma = 1
          BY <4>1, TookOp
        <4> QED
          BY <3>1, <3>4, <4>2, Zenon
      <3> QED
        BY <3>2, <3>3, <3>4, Zenon
    <2>5. /\ lock' \in [Stripes -> Workers \cup {NoWorker}]
          /\ \A s \in Stripes : lock[s] \in Workers /\ lock[s] # w => lock'[s] = lock[s]
      BY <2>1, Zenon DEF TypeOK
    <2>6. TypeOK'
      BY <2>1, <2>4, <2>5, <1>SetOpType, <1>GotoType, IdxSucc, Zenon DEF LockedDone, TypeOK, Labels
    <2>7. Frame(w) /\ Local(w)'
      <3>1. UNCHANGED <<round, old, index, cstage>> /\ "locked" \in Labels
        BY Zenon DEF LockedDone, Labels
      <3>2. i + 1 \in 1..(MaxOps + 1)
        BY <2>1, IdxSucc, Zenon
      <3> QED
        BY <2>1, <2>4, <2>5, <3>1, <3>2, <1>OneOp, Zenon DEF BatchLabels, Window
    <2> QED
      BY <2>6, <2>7, <1>Reassemble, Zenon DEF Typed, Shape, LockedDone
  (* A publish: the entry of block b, whose lock no other worker holds, is   *)
  (* replaced by one that names a slot or nothing.                           *)
  <1>InstallEffect.
    ASSUME TypeOK, NEW w \in Workers, NEW b \in Blocks, NEW e \in Ent, NEW s \in Slot,
           NEW n \in 0..CBLK_SIZE, NEW p \in AnyPage, n # 0 => s \in Slots,
           \A c \in Blocks : Names(index[c]), Names(e),
           Install(w, b, e, s, n, p)
    PROVE  Supplants(w, b, e, s, n)
    <2> USE <1>InstallEffect
    <2>1. ent_make(s, n, e.gen + 1) \in Ent
      BY <1>NextEnt, Zenon
    <2>2. ent_make(s, n, e.gen + 1).clen = n /\ ent_make(s, n, e.gen + 1).grain = s
      BY Zenon DEF ent_make
    <2>3. /\ index' = [index EXCEPT ![b] = ent_make(s, n, e.gen + 1)]
          /\ old' = [old EXCEPT ![w] = e] /\ Saw(b, p)
      BY Zenon DEF Install
    <2>4. /\ index'[b] = ent_make(s, n, e.gen + 1) /\ old'[w] = e
          /\ \A c \in Blocks : c # b => index'[c] = index[c]
          /\ index' \in [Blocks -> Ent] /\ old' \in [Workers -> Ent]
      BY <2>1, <2>3, Zenon DEF TypeOK
    <2>5. \A c \in Blocks : Names(index'[c])
      BY <2>2, <2>4, Zenon DEF Names
    <2> QED
      BY <2>2, <2>3, <2>4, <2>5, <1>SawType, Zenon DEF TypeOK, Names, Supplants
  (* The slot an entry displaced goes back, and the gauges follow.           *)
  <1>DisplaceEffect.
    ASSUME TypeOK, NEW w \in Workers, NEW n \in 0..CBLK_SIZE, Names(old[w]),
           Displace(w, n)
    PROVE  /\ free' \in SUBSET Slots /\ live' \in Int /\ codec' \in Int
           /\ old' \in [Workers -> Ent] /\ old'[w] = Unwritten /\ Names(old[w])'
           /\ \A v \in Workers : v # w => old'[v] = old[v]
    <2> USE <1>DisplaceEffect
    <2>1. old[w] \in Ent /\ old[w].clen \in Int /\ n \in Int
      BY StoreAssumption, EntLen DEF TypeOK
    <2>2. free' \in SUBSET Slots
      BY Zenon DEF Displace, TypeOK, Names
    <2>3. live' \in Int
      BY DEF Displace, TypeOK
    <2>4. codec' \in Int
      BY <2>1 DEF Displace, TypeOK
    <2>5. /\ old' \in [Workers -> Ent] /\ old'[w] = Unwritten
          /\ \A v \in Workers : v # w => old'[v] = old[v]
      BY UnwrittenEnt, Zenon DEF Displace, TypeOK
    <2> QED
      BY <2>2, <2>3, <2>4, <2>5, UnwrittenEnt, Zenon DEF Names
  <1>T_wr_publish.
    ASSUME Typed, NEW w \in Workers, NEW i \in Idx, wr_publish(w, i)
    PROVE  Typed'
    <2> USE <1>T_wr_publish
    <2> DEFINE o == ops[w][i]
               b == o.blk
    <2>1. TypeOK /\ OpShape(w, i) /\ o \in Blkop /\ b \in Blocks /\ index[b] \in Ent
          /\ (\A c \in Blocks : Names(index[c])) /\ Local(w)
      <3>1. TypeOK /\ ops[w][i] \in Blkop
        BY Zenon DEF Typed, TypeOK
      <3>2. Local(w) /\ OpShape(w, i) /\ \A c \in Blocks : Names(index[c])
        BY Zenon DEF Typed, Shape, Local
      <3>3. b \in Blocks
        BY <3>1, Zenon DEF Blkop
      <3>4. index[b] \in Ent
        BY <3>1, <3>3, Zenon DEF TypeOK
      <3> QED
        BY <3>1, <3>2, <3>3, <3>4, Zenon
    <2>2. /\ pc[w] = "publish" /\ cur[w] <= i /\ Goto(w, "release", i)
          /\ o.cmd = "WRITE" /\ o.grain # SLOT_NONE /\ lock[IDXL[b]] = NoWorker
      BY Zenon DEF wr_publish, Turn, Wants, Unlocked
    <2>3. /\ cstage[w][i] \in Image /\ cstage[w][i].n \in 0..CBLK_SIZE
          /\ cstage[w][i].n # 0 /\ cstage[w][i].page \in AnyPage /\ o.grain \in Slots
      <3>1. cstage[w][i] \in Image
        BY <2>1, <2>2, Zenon DEF OpShape
      <3>2. o.grain \in Slots
        BY <2>1, <2>2, Zenon DEF Blkop, Slot
      <3> QED
        BY <3>1, <3>2, StoreAssumption DEF Image
    <2>4. /\ index' \in [Blocks -> Ent] /\ old' \in [Workers -> Ent]
          /\ seen' \in [Workers -> [Idx -> SUBSET AnyPage]]
          /\ \A c \in Blocks : Names(index[c])'
          /\ \A c \in Blocks : c # b => index'[c] = index[c]
          /\ Names(old[w])'
          /\ \A v \in Workers : v # w => old'[v] = old[v]
      <3>1. Install(w, b, index[b], o.grain, cstage[w][i].n, cstage[w][i].page)
        BY Zenon DEF wr_publish
      <3>2. /\ TypeOK /\ b \in Blocks /\ index[b] \in Ent /\ Names(index[b])
            /\ o.grain \in Slot /\ o.grain \in Slots
            /\ cstage[w][i].n \in 0..CBLK_SIZE /\ cstage[w][i].page \in AnyPage
            /\ \A c \in Blocks : Names(index[c])
        BY <2>1, <2>3, Zenon DEF Slot
      <3> HIDE DEF o, b
      <3>3. PICK s, m, q : s = o.grain /\ m = cstage[w][i].n /\ q = cstage[w][i].page
        BY Zenon
      <3>4. Install(w, b, index[b], s, m, q) /\ s \in Slot /\ m \in 0..CBLK_SIZE /\ q \in AnyPage
        BY <3>1, <3>2, <3>3, Zenon
      <3>5. m # 0 => s \in Slots
        BY <3>2, <3>3, Zenon
      <3>6. Supplants(w, b, index[b], s, m)
        BY <3>2, <3>4, <3>5, <1>InstallEffect, Zenon
      <3> QED
        BY <3>6, Zenon DEF Supplants
    <2>5. PICK n \in Blkop : /\ SetOp(w, i, n) /\ n.cmd = "WRITE"
                             /\ n.dma = 2 /\ n.grain = o.grain
      <3>1. SetOp(w, i, Done(o))
        BY Zenon DEF wr_publish
      <3>2. /\ Done(o) \in Blkop /\ Done(o).cmd = "WRITE" /\ Done(o).dma = 2
            /\ Done(o).grain = o.grain
        BY <2>1, <2>2, DoneOp, Zenon
      <3> QED
        BY <3>1, <3>2, Zenon
    <2>6. /\ pc'[w] = "release" /\ cur'[w] = i
          /\ \A v \in Workers : v # w => pc'[v] = pc[v] /\ cur'[v] = cur[v]
      BY <2>1, <2>2, GotoEffect, Zenon
    <2>7. /\ ops'[w][i] = n
          /\ \A j \in Idx : j # i => ops'[w][j] = ops[w][j]
          /\ \A v \in Workers : v # w => ops'[v] = ops[v]
      BY <2>1, <2>5, SetOpEffect, Zenon
    <2>8. TypeOK'
      BY <2>1, <2>2, <2>4, <2>5, <1>SetOpType, <1>GotoType, IdxSucc, Zenon
      DEF wr_publish, TypeOK, Labels
    <2>9. Frame(w)
      <3>1. UNCHANGED <<lock, round, cstage>>
        BY Zenon DEF wr_publish
      <3>2. \A v \in Workers, c \in Blocks : lock[IDXL[c]] = v => c # b
        BY <2>2, StoreAssumption, Zenon
      <3> QED
        BY <2>4, <2>6, <2>7, <3>1, <3>2, ZenonT(40) DEF Frame
    <2>10. ASSUME NEW j \in Idx PROVE OpShape(w, j)'
      <3>1. OpShape(w, j)
        BY <2>1, Zenon DEF Local
      <3>0. UNCHANGED cstage /\ i \in Int /\ j \in Int /\ cur[w] \in Int
        BY <2>1, IdxInt, CurInt, Zenon DEF wr_publish
      <3>2. CASE j = i
        <4>1. /\ ops'[w][i].cmd = "WRITE" /\ ops'[w][i].dma = 2
              /\ ops'[w][i].grain \in Slots /\ cstage'[w][i] \in Image
          BY <2>3, <2>5, <2>7, <3>0, Zenon
        <4>2. pc'[w] = "release" /\ i <= cur'[w]
          BY <2>6, <3>0
        <4> HIDE DEF o, b
        <4> QED
          BY <3>2, <4>1, <4>2, Zenon DEF OpShape, BatchLabels, RmwLabels, TrimLabels
      <3>3. CASE j # i
        <4>1. j < cur[w] => j <= i
          BY <2>2, <3>0
        <4> QED
          BY <2>2, <2>6, <2>7, <3>0, <3>1, <3>3, <4>1, Zenon
             DEF OpShape, BatchLabels, RmwLabels, TrimLabels
      <3> QED
        BY <3>2, <3>3, Zenon
    <2>11. CurShape(w)'
      BY <2>2, <2>5, <2>6, <2>7, Zenon DEF CurShape, HoldLabels
    <2> QED
      BY <2>4, <2>8, <2>9, <2>10, <2>11, <1>Reassemble, Zenon DEF Local
  <1>T_wr_release.
    ASSUME Typed, NEW w \in Workers, wr_release(w)
    PROVE  Typed'
    <2> USE <1>T_wr_release
    <2>1. /\ TypeOK /\ Local(w) /\ CurShape(w) /\ Names(old[w]) /\ pc[w] = "release"
          /\ cur[w] \in Idx /\ ops[w][cur[w]].cmd = "WRITE"
          /\ ops[w][cur[w]].grain # SLOT_NONE /\ Goto(w, "publish", cur[w] + 1)
      BY Zenon DEF Typed, Shape, Local, CurShape, wr_release
    <2>2. cstage[w][cur[w]] \in Image
      BY <2>1, Zenon DEF Local, OpShape
    <2>3. cstage[w][cur[w]].n \in 0..CBLK_SIZE
      BY <2>2, StoreAssumption DEF Image
    <2>4. /\ free' \in SUBSET Slots /\ live' \in Int /\ codec' \in Int
          /\ old' \in [Workers -> Ent] /\ Names(old[w])'
          /\ \A v \in Workers : v # w => old'[v] = old[v]
      BY <2>1, <2>3, <1>DisplaceEffect, Zenon DEF wr_release
    <2>5. /\ pc'[w] = "publish" /\ cur'[w] = cur[w] + 1
          /\ \A v \in Workers : v # w => pc'[v] = pc[v] /\ cur'[v] = cur[v]
      BY <2>1, GotoEffect, Zenon
    <2>6. TypeOK'
      BY <2>1, <2>4, <1>GotoType, IdxSucc, Zenon DEF wr_release, TypeOK, Labels
    <2>7. Frame(w)
      BY <2>4, <2>5, Zenon DEF Frame, wr_release
    <2>8. ASSUME NEW j \in Idx PROVE OpShape(w, j)'
      <3>1. OpShape(w, j)
        BY <2>1, Zenon DEF Local
      <3>2. UNCHANGED <<ops, cstage>> /\ j \in Int /\ cur[w] \in Int
        BY <2>1, IdxInt, Zenon DEF wr_release
      <3>3. j <= cur[w] => j < cur[w] + 1
        BY <3>2
      <3> QED
        BY <2>1, <2>5, <3>1, <3>2, <3>3, Zenon DEF OpShape, BatchLabels, RmwLabels, TrimLabels
    <2>9. CurShape(w)'
      BY <2>5, Zenon DEF CurShape, HoldLabels
    <2> QED
      BY <2>1, <2>4, <2>6, <2>7, <2>8, <2>9, <1>Reassemble, Zenon
      DEF Local, Typed, Shape, wr_release
  <1>TrimStep.
    ASSUME Typed, NEW w \in Workers, NEW l \in TrimLabels, NEW k \in 1..(MaxOps + 1),
           Goto(w, l, k), pc[w] \in TrimLabels, l # "trim" => k \in Idx,
           \A j \in Idx : ops'[w][j].cmd = ops[w][j].cmd, Names(old[w])'
    PROVE  Local(w)'
    <2> USE <1>TrimStep
    <2>1. TypeOK /\ Local(w)
      BY Zenon DEF Typed, Shape
    <2>2. pc'[w] = l /\ cur'[w] = k
      BY <2>1, GotoEffect
    <2>3. ASSUME NEW j \in Idx PROVE OpShape(w, j)'
      <3>1. ops'[w][j].cmd \in {"none", "TRIM"}
        BY <2>1, Zenon DEF Local, OpShape, TrimLabels
      <3> QED
        BY <2>2, <3>1, Zenon DEF OpShape, BatchLabels, RmwLabels, TrimLabels
    <2>4. CurShape(w)'
      BY <2>2, Zenon DEF CurShape, HoldLabels, TrimLabels
    <2> QED
      BY <2>3, <2>4, Zenon DEF Local
  <1>T_TrimCheck.
    ASSUME Typed, NEW w \in Workers, NEW i \in Idx, TrimCheck(w, i)
    PROVE  Typed'
    <2> USE <1>T_TrimCheck
    <2>1. TypeOK /\ ops[w][i] \in Blkop /\ pc[w] = "trim" /\ Names(old[w])
      BY Zenon DEF Typed, Shape, Local, TypeOK, TrimCheck, Turn
    <2>2. PICK n \in Blkop : SetOp(w, i, n) /\ n.cmd = ops[w][i].cmd
      <3>1. CASE UNCHANGED ops
        <4>1. SetOp(w, i, ops[w][i])
          BY <2>1, <3>1, Zenon DEF SetOp, TypeOK
        <4> QED
          BY <2>1, <4>1, Zenon
      <3>2. CASE SetOp(w, i, Done(ops[w][i]))
        BY <2>1, <3>2, DoneOp, Zenon
      <3> QED
        BY <3>1, <3>2, Zenon DEF TrimCheck
    <2>3. PICK l \in TrimLabels, k \in {i, i + 1} : Goto(w, l, k) /\ (l # "trim" => k = i)
      BY Zenon DEF TrimCheck, TrimLabels
    <2>4. k \in 1..(MaxOps + 1) /\ l \in Labels
      BY IdxSucc, Zenon DEF TrimLabels, Labels
    <2>5. /\ \A j \in Idx : ops'[w][j].cmd = ops[w][j].cmd
          /\ \A v \in Workers : v # w => /\ ops'[v] = ops[v]
                                         /\ pc'[v] = pc[v] /\ cur'[v] = cur[v]
      <3>1. /\ ops'[w][i] = n
            /\ \A j \in Idx : j # i => ops'[w][j] = ops[w][j]
            /\ \A v \in Workers : v # w => ops'[v] = ops[v]
        BY <2>1, <2>2, SetOpEffect, Zenon
      <3>2. \A v \in Workers : v # w => pc'[v] = pc[v] /\ cur'[v] = cur[v]
        BY <2>1, <2>3, GotoEffect, Zenon
      <3> QED
        BY <2>2, <3>1, <3>2, Zenon
    <2>6. UNCHANGED <<index, mem, free, lock, live, codec, round, via, todo, cstage,
                      old, rerr, seen>>
      BY Zenon DEF TrimCheck, shared
    <2>7. TypeOK'
      BY <2>1, <2>2, <2>3, <2>4, <2>6, <1>SetOpType, <1>GotoType, Zenon DEF TypeOK
    <2>8. Frame(w)
      BY <2>5, <2>6, Zenon DEF Frame
    <2>9. Local(w)'
      BY <2>1, <2>3, <2>4, <2>5, <2>6, <1>TrimStep, Zenon DEF TrimLabels, Names
    <2> QED
      BY <2>6, <2>7, <2>8, <2>9, <1>Reassemble, Zenon DEF Typed, Shape
  <1>T_TrimLock.
    ASSUME Typed, NEW w \in Workers, TrimLock(w)
    PROVE  Typed'
    <2> USE <1>T_TrimLock
    <2> DEFINE i == cur[w]
               o == ops[w][i]
               b == o.blk
    <2>1. /\ TypeOK /\ Names(old[w]) /\ (\A c \in Blocks : Names(index[c]))
          /\ pc[w] = "trimLock" /\ i \in Idx /\ Goto(w, "trimRelease", i)
          /\ lock[IDXL[b]] = NoWorker /\ SetOp(w, i, Done(o))
      BY Zenon DEF Typed, Shape, Local, CurShape, TrimLock, Unlocked
    <2>2. o \in Blkop /\ b \in Blocks /\ index[b] \in Ent
      <3>1. o \in Blkop
        BY <2>1, Zenon DEF TypeOK
      <3>2. b \in Blocks
        BY <3>1, Zenon DEF Blkop
      <3> QED
        BY <2>1, <3>1, <3>2, Zenon DEF TypeOK
    <2>3. /\ index' \in [Blocks -> Ent] /\ old' \in [Workers -> Ent]
          /\ seen' \in [Workers -> [Idx -> SUBSET AnyPage]]
          /\ \A c \in Blocks : Names(index[c])'
          /\ \A c \in Blocks : c # b => index'[c] = index[c]
          /\ Names(old[w])'
          /\ \A v \in Workers : v # w => old'[v] = old[v]
      <3>1. CASE old' = [old EXCEPT ![w] = index[b]] /\ UNCHANGED <<index, seen>>
        BY <2>1, <2>2, <3>1, Zenon DEF TypeOK, Names
      <3>2. CASE Install(w, b, index[b], SLOT_NONE, 0, ZeroPage)
        <4>1. 0 \in 0..CBLK_SIZE /\ SLOT_NONE \in Slot
          BY StoreAssumption DEF Slot
        <4>2. /\ TypeOK /\ b \in Blocks /\ index[b] \in Ent /\ ZeroPage \in AnyPage
              /\ Names(index[b]) /\ \A c \in Blocks : Names(index[c])
          BY <2>1, <2>2, ZeroPageType, Zenon
        <4> HIDE DEF i, o, b
        <4> QED
          <5>1. Supplants(w, b, index[b], SLOT_NONE, 0)
            BY <3>2, <4>1, <4>2, <1>InstallEffect, Zenon
          <5> QED
            BY <5>1, Zenon DEF Supplants
      <3> QED
        BY <3>1, <3>2, Zenon DEF TrimLock
    <2>4. Done(o) \in Blkop /\ Done(o).cmd = o.cmd
      BY <2>2, DoneOp, Zenon
    <2>5. /\ \A j \in Idx : ops'[w][j].cmd = ops[w][j].cmd
          /\ \A v \in Workers : v # w => /\ ops'[v] = ops[v]
                                         /\ pc'[v] = pc[v] /\ cur'[v] = cur[v]
      <3>1. /\ ops'[w][i] = Done(o)
            /\ \A j \in Idx : j # i => ops'[w][j] = ops[w][j]
            /\ \A v \in Workers : v # w => ops'[v] = ops[v]
        BY <2>1, SetOpEffect, Zenon
      <3>2. \A v \in Workers : v # w => pc'[v] = pc[v] /\ cur'[v] = cur[v]
        BY <2>1, GotoEffect, Zenon
      <3> QED
        BY <2>4, <3>1, <3>2, Zenon
    <2>6. UNCHANGED <<mem, free, lock, live, codec, round, via, todo, cstage, rerr>>
      BY Zenon DEF TrimLock
    <2>7. i \in 1..(MaxOps + 1) /\ "trimRelease" \in Labels /\ "trimRelease" \in TrimLabels
          /\ pc[w] \in TrimLabels
      BY <2>1, IdxSucc, Zenon DEF Labels, TrimLabels
    <2>8. TypeOK'
      BY <2>1, <2>3, <2>4, <2>6, <2>7, <1>SetOpType, <1>GotoType, Zenon DEF TypeOK
    <2>9. Frame(w)
      <3>1. \A c \in Blocks, v \in Workers : lock[IDXL[c]] = v => index'[c] = index[c]
        <4>1. lock[IDXL[b]] = NoWorker /\ \A c \in Blocks : c # b => index'[c] = index[c]
          BY <2>1, <2>3, Zenon
        <4> HIDE DEF i, o, b
        <4> QED
          BY <4>1, StoreAssumption, Zenon
      <3> QED
        BY <2>3, <2>5, <2>6, <3>1, Zenon DEF Frame
    <2>10. Local(w)'
      BY <2>1, <2>3, <2>5, <2>7, <1>TrimStep, Zenon
    <2> QED
      BY <2>3, <2>8, <2>9, <2>10, <1>Reassemble, Zenon
  <1>T_TrimRelease.
    ASSUME Typed, NEW w \in Workers, TrimRelease(w)
    PROVE  Typed'
    <2> USE <1>T_TrimRelease
    <2>1. /\ TypeOK /\ Names(old[w]) /\ pc[w] = "trimRelease" /\ cur[w] \in Idx
          /\ Goto(w, "trim", cur[w] + 1)
      BY Zenon DEF Typed, Shape, Local, CurShape, TrimRelease
    <2>2. 0 \in 0..CBLK_SIZE
      BY StoreAssumption
    <2>3. /\ free' \in SUBSET Slots /\ live' \in Int /\ codec' \in Int
          /\ old' \in [Workers -> Ent] /\ Names(old[w])'
          /\ \A v \in Workers : v # w => old'[v] = old[v]
      BY <2>1, <2>2, <1>DisplaceEffect, Zenon DEF TrimRelease
    <2>4. UNCHANGED <<index, mem, lock, round, via, todo, ops, cstage, rerr, seen>>
      BY Zenon DEF TrimRelease
    <2>5. cur[w] + 1 \in 1..(MaxOps + 1) /\ "trim" \in Labels /\ "trim" \in TrimLabels
          /\ pc[w] \in TrimLabels
      BY <2>1, IdxSucc, Zenon DEF Labels, TrimLabels
    <2>6. TypeOK'
      BY <2>1, <2>3, <2>4, <2>5, <1>GotoType, Zenon DEF TypeOK
    <2>7. Frame(w)
      BY <2>1, <2>3, <2>4, GotoEffect DEF Frame
    <2>8. Local(w)'
      BY <2>1, <2>3, <2>4, <2>5, <1>TrimStep, Zenon
    <2> QED
      BY <2>4, <2>6, <2>7, <2>8, <1>Reassemble, Zenon DEF Typed, Shape
  <1>RmwStep.
    ASSUME Typed, NEW w \in Workers, NEW i \in Idx, NEW n \in Blkop,
           NEW l \in {"rmwMerge", "rmwCopy", "rmwStore", "rmwRelease", "rmwOut"},
           SetOp(w, i, n), Goto(w, l, i), pc[w] \in RmwLabels,
           pc[w] \in {"rmwRelease", "rmwOut"} => l = "rmwOut",
           n.cmd = "RMW", n.page \in Page,
           n.dma = 2 => l \in {"rmwRelease", "rmwOut"},
           l \in {"rmwCopy", "rmwStore"} => n.grain \in Slots,
           l \in {"rmwCopy", "rmwStore", "rmwRelease"} => cstage'[w][i] \in Image,
           l \in {"rmwMerge", "rmwCopy", "rmwStore"} => old'[w] = index'[n.blk],
           lock'[IDXL[n.blk]] = w, Names(old[w])'
    PROVE  Local(w)'
    <2>1. TypeOK /\ Local(w) /\ SetOp(w, i, n) /\ Goto(w, l, i)
      BY <1>RmwStep, Zenon DEF Typed, Shape
    <2>2. pc'[w] = l /\ cur'[w] = i
      BY <2>1, GotoEffect, Zenon
    <2>3. ops'[w][i] = n /\ \A j \in Idx : j # i => ops'[w][j] = ops[w][j]
      BY <2>1, SetOpEffect, ZenonT(40)
    <2> USE <1>RmwStep
    <2>4. ASSUME NEW j \in Idx PROVE OpShape(w, j)'
      <3>1. OpShape(w, j) /\ ops[w][j].cmd \in {"none", "RMW"}
        BY <2>1, Zenon DEF Local, OpShape
      <3>2. CASE j = i
        BY <2>2, <2>3, <3>2, Zenon DEF OpShape, BatchLabels, RmwLabels, TrimLabels
      <3>3. CASE j # i
        <4>1. ops'[w][j] = ops[w][j]
          BY <2>3, <3>3, Zenon
        <4>2. ops[w][j].cmd = "RMW" /\ ops[w][j].dma = 2 => pc[w] \in {"rmwRelease", "rmwOut"}
          BY <3>1, Zenon DEF OpShape, RmwLabels
        <4>3. ops[w][j].cmd = "RMW" => ops[w][j].page \in Page
          BY <3>1, Zenon DEF OpShape
        <4> QED
          BY <2>2, <3>1, <4>1, <4>2, <4>3, Zenon DEF OpShape, BatchLabels, RmwLabels, TrimLabels
      <3> QED
        BY <3>2, <3>3, Zenon
    <2>5. CurShape(w)'
      BY <2>2, <2>3, Zenon DEF CurShape, HoldLabels
    <2> QED
      BY <2>4, <2>5, Zenon DEF Local
  <1>T_RmwLock.
    ASSUME Typed, NEW w \in Workers, NEW i \in Idx, RmwLock(w, i)
    PROVE  Typed'
    <2> USE <1>T_RmwLock
    <2> DEFINE o == ops[w][i]
               b == o.blk
               e == index[b]
    <2>1. /\ TypeOK /\ OpShape(w, i) /\ Names(old[w]) /\ (\A c \in Blocks : Names(index[c]))
          /\ pc[w] = "rmw" /\ o.cmd # "none" /\ lock[IDXL[b]] = NoWorker
          /\ lock' = [lock EXCEPT ![IDXL[b]] = w]
      BY Zenon DEF Typed, Shape, Local, RmwLock, Turn, Wants, Unlocked
    <2>2. o \in Blkop /\ b \in Blocks /\ e \in Ent /\ IDXL[b] \in Stripes
      <3>1. o \in Blkop
        BY <2>1, Zenon DEF TypeOK
      <3>2. b \in Blocks
        BY <3>1, Zenon DEF Blkop
      <3> QED
        BY <2>1, <3>1, <3>2, StoreAssumption, Zenon DEF TypeOK
    <2>3. o.cmd = "RMW" /\ o.page \in Page /\ o.dma # 2
      BY <2>1, Zenon DEF OpShape, RmwLabels
    <2>4. /\ lock' \in [Stripes -> Workers \cup {NoWorker}] /\ lock'[IDXL[b]] = w
          /\ \A v \in Workers, s \in Stripes : v # w /\ lock[s] = v => lock'[s] = v
      <3>1. lock \in [Stripes -> Workers \cup {NoWorker}] /\ NoWorker \notin Workers
        BY <2>1, StoreAssumption, Zenon DEF TypeOK
      <3> HIDE DEF o, b, e
      <3> QED
        BY <2>1, <2>2, <3>1, Zenon
    <2>5. UNCHANGED <<index, mem, free, live, codec, round, via, todo, rerr, seen>>
      BY Zenon DEF RmwLock
    <2>6. PICK n \in Blkop, l \in {"rmwMerge", "rmwOut"} :
            /\ SetOp(w, i, n) /\ Goto(w, l, i) /\ n.cmd = "RMW" /\ n.blk = b
            /\ n.page = o.page /\ n.dma = o.dma
            /\ l = "rmwMerge" => old' = [old EXCEPT ![w] = e]
            /\ l = "rmwOut" => UNCHANGED old
      <3>1. CASE UNCHANGED ops /\ Goto(w, "rmwMerge", i) /\ old' = [old EXCEPT ![w] = e]
        <4>1. SetOp(w, i, o)
          BY <2>1, <3>1, Zenon DEF SetOp, TypeOK
        <4> QED
          BY <2>2, <2>3, <3>1, <4>1, Zenon
      <3>2. CASE SetOp(w, i, Failed(o, "EIO")) /\ Goto(w, "rmwOut", i) /\ UNCHANGED old
        BY <2>2, <2>3, <3>2, FailedOp, ZenonT(40) DEF Err
      <3> QED
        BY <3>1, <3>2, Zenon DEF RmwLock
    <2>7. /\ old' \in [Workers -> Ent] /\ Names(old[w])'
          /\ l = "rmwMerge" => old'[w] = e
          /\ \A v \in Workers : v # w => old'[v] = old[v]
      BY <2>1, <2>2, <2>6, Zenon DEF TypeOK, Names
    <2>8. /\ cstage' \in [Workers -> [Idx -> Stored]]
          /\ \A v \in Workers : v # w => cstage'[v] = cstage[v]
      <3>1. CASE UNCHANGED cstage
        BY <2>1, <3>1, Zenon DEF TypeOK
      <3>2. CASE e.clen # 0 /\ cstage' = [cstage EXCEPT ![w][i] = mem[e.grain]]
        <4>1. mem[e.grain] \in Stored
          BY <2>1, <2>2, <3>2, Zenon DEF TypeOK, Names
        <4> QED
          BY <2>1, <3>2, <4>1, Zenon DEF TypeOK
      <3> QED
        BY <3>1, <3>2, Zenon DEF RmwLock
    <2>9. TypeOK'
      <3>1. l \in Labels /\ i \in 1..(MaxOps + 1)
        BY IdxSucc, Zenon DEF Labels
      <3>2. /\ ops' \in [Workers -> [Idx -> Blkop]]
            /\ pc' \in [Workers -> Labels] /\ cur' \in [Workers -> 1..(MaxOps + 1)]
        BY <2>1, <2>6, <3>1, <1>SetOpType, <1>GotoType, Zenon
      <3> QED
        BY <2>1, <2>4, <2>5, <2>7, <2>8, <3>2, Zenon DEF TypeOK
    <2>10. Frame(w)
      <3>1. \A v \in Workers : v # w => ops'[v] = ops[v] /\ pc'[v] = pc[v] /\ cur'[v] = cur[v]
        BY <2>1, <2>6, SetOpEffect, GotoEffect, ZenonT(40)
      <3> QED
        BY <2>4, <2>5, <2>7, <2>8, <3>1, Zenon DEF Frame
    <2>11. Local(w)'
      BY <2>1, <2>3, <2>4, <2>5, <2>6, <2>7, <1>RmwStep, ZenonT(40) DEF RmwLabels
    <2> QED
      BY <2>1, <2>5, <2>9, <2>10, <2>11, <1>Reassemble, Zenon DEF Names
  <1>T_RmwMerge.
    ASSUME Typed, NEW w \in Workers, RmwMerge(w)
    PROVE  Typed'
    <2> USE <1>T_RmwMerge
    <2> DEFINE i == cur[w]
               o == ops[w][i]
               e == old[w]
    <2>0. pc[w] = "rmwMerge"
      BY Zenon DEF RmwMerge
    <2>1. pc[w] = "rmwMerge" /\ RmwAt(w) /\ TypeOK /\ i \in Idx
      BY <2>0, RmwHolds, Zenon DEF RmwAt
    <2>2. o \in Blkop /\ o.cmd = "RMW" /\ o.page \in Page /\ o.dma # 2 /\ e = index[o.blk]
      BY <2>1, Zenon DEF Typed, Shape, Local, OpShape, CurShape, RmwAt
    <2>3. UNCHANGED <<index, mem, lock, live, codec, round, via, todo, rerr, seen>>
      BY Zenon DEF RmwMerge
    <2>4. PICK n \in Blkop, l \in {"rmwCopy", "rmwOut"} :
            /\ SetOp(w, i, n) /\ Goto(w, l, i) /\ n.cmd = "RMW" /\ n.blk = o.blk
            /\ n.page = o.page /\ n.dma = o.dma
            /\ l = "rmwCopy" =>
                 /\ n.grain \in Slots /\ free' \in SUBSET Slots /\ UNCHANGED old
                 /\ \E p \in AnyPage : cstage' = [cstage EXCEPT ![w][i] = comp_block(p)]
            /\ l = "rmwOut" => UNCHANGED <<free, cstage>> /\ old' = [old EXCEPT ![w] = Unwritten]
      <3> DEFINE base(img) == IF e.clen = 0 THEN ZeroPage ELSE decomp_block(img, e.clen)
                 bad(img)  == e.clen # 0 /\ DecompErr(img, e.clen) # "ok"
                 merged(img) == Merge(base(img), o.page, o.part)
      <3>0. PICK img \in Staged(w, i) :
              \/ \E s \in free :
                   /\ ~bad(img)
                   /\ SetOp(w, i, Holding(o, s))
                   /\ cstage' = [cstage EXCEPT ![w][i] = comp_block(merged(img))]
                   /\ free' = free \ {s}
                   /\ Goto(w, "rmwCopy", i)
                   /\ UNCHANGED old
              \/ /\ SetOp(w, i, Failed(o, IF bad(img) THEN "EIO" ELSE "ENOSPC"))
                 /\ old' = [old EXCEPT ![w] = Unwritten]
                 /\ Goto(w, "rmwOut", i)
                 /\ UNCHANGED <<free, cstage>>
        BY Zenon DEF RmwMerge
      <3> DEFINE page == merged(img)
      <3>1. page \in AnyPage
        <4>1. e.clen \in Int /\ img \in Stored
          BY <2>1, <3>0, EntLen, StagedType, Zenon DEF TypeOK
        <4>2. base(img) \in AnyPage
          BY <4>1, ZeroPageType, DecompType, Zenon
        <4> QED
          BY <2>2, <4>2, <1>MergeType, Zenon
      <3>2. CASE \E s \in free :
                   /\ SetOp(w, i, Holding(o, s)) /\ free' = free \ {s}
                   /\ cstage' = [cstage EXCEPT ![w][i] = comp_block(page)]
                   /\ Goto(w, "rmwCopy", i) /\ UNCHANGED old
        <4>1. PICK s \in Slots :
                   /\ SetOp(w, i, Holding(o, s)) /\ free' = free \ {s}
                   /\ cstage' = [cstage EXCEPT ![w][i] = comp_block(page)]
                   /\ Goto(w, "rmwCopy", i) /\ UNCHANGED old
          BY <2>1, <3>2, Zenon DEF TypeOK
        <4>2. free' \in SUBSET Slots
          BY <2>1, <4>1, Zenon DEF TypeOK
        <4>3. \E p \in AnyPage : cstage' = [cstage EXCEPT ![w][i] = comp_block(p)]
          BY <3>1, <4>1, Zenon
        <4> HIDE DEF page
        <4>4. LET n == Holding(o, s) IN
              /\ n \in Blkop /\ n.cmd = "RMW" /\ n.blk = o.blk /\ n.page = o.page
              /\ n.dma = o.dma /\ n.grain \in Slots
          BY <2>2, HoldingOp, Zenon
        <4> QED
          BY <4>1, <4>2, <4>3, <4>4, Zenon
      <3>3. CASE /\ SetOp(w, i, Failed(o, IF bad(img) THEN "EIO" ELSE "ENOSPC"))
                 /\ old' = [old EXCEPT ![w] = Unwritten]
                 /\ Goto(w, "rmwOut", i) /\ UNCHANGED <<free, cstage>>
        <4>1. (IF bad(img) THEN "EIO" ELSE "ENOSPC") \in Err
          BY Zenon DEF Err
        <4> HIDE DEF bad
        <4> QED
          BY <2>2, <3>3, <4>1, FailedOp, Zenon
      <3> QED
        BY <3>0, <3>2, <3>3, Zenon
    <2>5. /\ old' \in [Workers -> Ent] /\ Names(old[w])'
          /\ l = "rmwCopy" => old'[w] = index'[n.blk]
          /\ \A v \in Workers : v # w => old'[v] = old[v]
      <3>1. CASE l = "rmwCopy"
        BY <2>1, <2>2, <2>3, <2>4, <3>1, Zenon DEF RmwAt, TypeOK, Names
      <3>2. CASE l = "rmwOut"
        BY <2>1, <2>4, <3>2, UnwrittenEnt, Zenon DEF TypeOK, Names
      <3> QED
        BY <3>1, <3>2, Zenon
    <2>6. /\ cstage' \in [Workers -> [Idx -> Stored]]
          /\ l = "rmwCopy" => cstage'[w][i] \in Image
          /\ \A v \in Workers : v # w => cstage'[v] = cstage[v]
      <3>1. CASE l = "rmwCopy"
        <4>1. PICK p \in AnyPage : cstage' = [cstage EXCEPT ![w][i] = comp_block(p)]
          BY <2>4, <3>1, Zenon
        <4>2. comp_block(p) \in Image
          BY <1>CompBlockType, Zenon
        <4> QED
          BY <2>1, <4>1, <4>2, Zenon DEF TypeOK, Stored
      <3>2. CASE l = "rmwOut"
        BY <2>1, <2>4, <3>2, Zenon DEF TypeOK
      <3> QED
        BY <3>1, <3>2, Zenon
    <2>7. free' \in SUBSET Slots
      BY <2>1, <2>4, Zenon DEF TypeOK
    <2>8. /\ ops' \in [Workers -> [Idx -> Blkop]]
          /\ pc' \in [Workers -> Labels] /\ cur' \in [Workers -> 1..(MaxOps + 1)]
      <3>1. l \in Labels /\ i \in 1..(MaxOps + 1)
        BY <2>1, IdxSucc, Zenon DEF Labels
      <3> QED
        BY <2>1, <2>4, <3>1, <1>SetOpType, <1>GotoType, Zenon
    <2>9. TypeOK'
      BY <2>1, <2>3, <2>5, <2>6, <2>7, <2>8, Zenon DEF TypeOK
    <2>10. \A v \in Workers : v # w => ops'[v] = ops[v] /\ pc'[v] = pc[v] /\ cur'[v] = cur[v]
      <3>1. \A v \in Workers : v # w => ops'[v] = ops[v]
        BY <2>1, <2>4, SetOpEffect, Zenon
      <3>2. \A v \in Workers : v # w => pc'[v] = pc[v] /\ cur'[v] = cur[v]
        BY <2>1, <2>4, GotoEffect, Zenon
      <3> QED
        BY <3>1, <3>2, Zenon
    <2>11. Frame(w)
      BY <2>3, <2>5, <2>6, <2>10, Zenon DEF Frame
    <2>12. lock'[IDXL[n.blk]] = w
      BY <2>1, <2>3, <2>4, Zenon DEF RmwAt
    <2>13. Local(w)'
      <3>1. /\ pc[w] \in RmwLabels /\ pc[w] \notin {"rmwRelease", "rmwOut"}
            /\ l \in {"rmwMerge", "rmwCopy", "rmwStore", "rmwRelease", "rmwOut"}
            /\ l \notin {"rmwMerge", "rmwStore", "rmwRelease"}
        BY <2>1, Zenon DEF RmwLabels
      <3>2. n.cmd = "RMW" /\ n.page \in Page /\ n.dma # 2 /\ (l = "rmwCopy" => n.grain \in Slots)
        BY <2>2, <2>4, Zenon
      <3>3. /\ l \in {"rmwCopy", "rmwStore"} => n.grain \in Slots
            /\ l \in {"rmwCopy", "rmwStore", "rmwRelease"} => cstage'[w][i] \in Image
            /\ l \in {"rmwMerge", "rmwCopy", "rmwStore"} => old'[w] = index'[n.blk]
            /\ n.dma = 2 => l \in {"rmwRelease", "rmwOut"}
            /\ pc[w] \in {"rmwRelease", "rmwOut"} => l = "rmwOut"
        BY <2>5, <2>6, <3>1, <3>2, Zenon
      <3>4. SetOp(w, i, n) /\ Goto(w, l, i) /\ Names(old[w])'
        BY <2>4, <2>5, Zenon
      <3> HIDE DEF i, o, e
      <3> QED
        BY <2>1, <2>12, <3>1, <3>2, <3>3, <3>4, <1>RmwStep, Zenon
    <2> QED
      BY <2>1, <2>3, <2>9, <2>11, <2>13, <1>Reassemble, Zenon DEF RmwAt, Names
  <1>T_RmwCopy.
    ASSUME Typed, NEW w \in Workers, RmwCopy(w)
    PROVE  Typed'
    <2> USE <1>T_RmwCopy
    <2> DEFINE i == cur[w]
               o == ops[w][i]
    <2>0. pc[w] = "rmwCopy"
      BY Zenon DEF RmwCopy
    <2>1. /\ pc[w] = "rmwCopy" /\ RmwAt(w) /\ TypeOK /\ i \in Idx
          /\ i \in 1..(MaxOps + 1) /\ o \in Blkop /\ o.cmd = "RMW" /\ o.page \in Page
      BY <2>0, RmwHolds, Zenon DEF RmwAt
    <2>2. /\ o.dma # 2 /\ o.grain \in Slots /\ cstage[w][i] \in Image
          /\ old[w] = index[o.blk]
      BY <2>1, Zenon DEF Typed, Shape, Local, OpShape, CurShape
    <2>3. UNCHANGED <<index, lock, live, codec, round, via, todo, rerr, seen>>
      BY Zenon DEF RmwCopy
    <2>4. lock'[IDXL[o.blk]] = w
      BY <2>1, <2>3, Zenon DEF RmwAt
    <2>5. CASE /\ mem' = [mem EXCEPT ![o.grain] = Torn] /\ Tear({o.grain})
               /\ Goto(w, "rmwStore", i) /\ UNCHANGED <<free, ops, old>>
      <3>1. \A v \in Workers, j \in Idx :
              \/ cstage'[v][j] = cstage[v][j]
              \/ ops[v][j].cmd = "READ"
              \/ pc[v] = "rmwMerge" /\ j = cur[v]
        BY <2>1, <2>5, <1>TearEffect, Zenon
      <3>2. cstage'[w][i] \in Image
        BY <2>1, <2>2, <3>1, Zenon
      <3>3. SetOp(w, i, o)
        BY <2>1, <2>5, Zenon DEF SetOp, TypeOK
      <3>4. mem' \in [Slots -> Stored] /\ cstage' \in [Workers -> [Idx -> Stored]]
        BY <2>1, <2>5, <1>TearType, Zenon DEF TypeOK, Stored
      <3>5. pc' \in [Workers -> Labels] /\ cur' \in [Workers -> 1..(MaxOps + 1)]
        BY <2>1, <2>5, <1>GotoType, Zenon DEF Labels
      <3>6. TypeOK'
        BY <2>1, <2>3, <2>5, <3>4, <3>5, Zenon DEF TypeOK
      <3>7. Frame(w)
        <4>1. \A v \in Workers : v # w => pc'[v] = pc[v] /\ cur'[v] = cur[v]
          BY <2>1, <2>5, GotoEffect, Zenon
        <4> QED
          BY <2>3, <2>5, <3>1, <4>1, Zenon DEF Frame
      <3>8. Local(w)'
        BY <2>1, <2>2, <2>3, <2>4, <2>5, <3>2, <3>3, <1>RmwStep, Zenon DEF RmwLabels, RmwAt, Names
      <3> QED
        BY <2>1, <2>3, <3>6, <3>7, <3>8, <1>Reassemble, Zenon DEF RmwAt, Names
    <2>6. CASE /\ free' = free \cup {o.grain} /\ SetOp(w, i, Failed(GivenBack(o), "EIO"))
               /\ old' = [old EXCEPT ![w] = Unwritten] /\ Goto(w, "rmwOut", i)
               /\ UNCHANGED <<mem, cstage>>
      <3>1. GivenBack(o) \in Blkop /\ "EIO" \in Err
        BY <2>1, GivenBackOp, Zenon DEF Err
      <3>2. PICK n \in Blkop : /\ SetOp(w, i, n) /\ n.cmd = "RMW" /\ n.blk = o.blk
                               /\ n.page = o.page /\ n.dma = 0
        <4>1. /\ GivenBack(o).cmd = "RMW" /\ GivenBack(o).blk = o.blk
              /\ GivenBack(o).page = o.page /\ GivenBack(o).dma = 0
          BY <2>1, GivenBackOp, Zenon
        <4>2. LET n == Failed(GivenBack(o), "EIO") IN
              /\ n \in Blkop /\ n.cmd = "RMW" /\ n.blk = o.blk
              /\ n.page = o.page /\ n.dma = 0
          BY <3>1, <4>1, FailedOp, Zenon
        <4> QED
          BY <2>6, <4>2, Zenon
      <3>3. /\ old' \in [Workers -> Ent] /\ old'[w] = Unwritten
            /\ \A v \in Workers : v # w => old'[v] = old[v]
        BY <2>1, <2>6, UnwrittenEnt, Zenon DEF TypeOK
      <3>4. /\ pc' \in [Workers -> Labels] /\ cur' \in [Workers -> 1..(MaxOps + 1)]
            /\ ops' \in [Workers -> [Idx -> Blkop]]
        BY <2>1, <2>6, <3>2, <1>GotoType, <1>SetOpType, Zenon DEF Labels
      <3>5. TypeOK'
        BY <2>1, <2>2, <2>3, <2>6, <3>3, <3>4, Zenon DEF TypeOK
      <3>6. \A v \in Workers : v # w => ops'[v] = ops[v] /\ pc'[v] = pc[v] /\ cur'[v] = cur[v]
        <4>1. \A v \in Workers : v # w => ops'[v] = ops[v]
          BY <2>1, <3>2, SetOpEffect, Zenon
        <4>2. \A v \in Workers : v # w => pc'[v] = pc[v] /\ cur'[v] = cur[v]
          BY <2>1, <2>6, GotoEffect, Zenon
        <4> QED
          BY <4>1, <4>2, Zenon
      <3>7. Frame(w)
        BY <2>3, <2>6, <3>3, <3>6, Zenon DEF Frame
      <3>8. Names(old[w])'
        BY <3>3, UnwrittenEnt, Zenon DEF Names
      <3>9. Local(w)'
        BY <2>1, <2>4, <2>6, <3>2, <3>8, <1>RmwStep, Zenon DEF RmwLabels
      <3> QED
        BY <2>1, <2>3, <3>5, <3>7, <3>9, <1>Reassemble, Zenon DEF RmwAt, Names
    <2> QED
      BY <2>5, <2>6, Zenon DEF RmwCopy
  <1>T_RmwStore.
    ASSUME Typed, NEW w \in Workers, RmwStore(w)
    PROVE  Typed'
    <2> USE <1>T_RmwStore
    <2> DEFINE i == cur[w]
               o == ops[w][i]
               b == o.blk
    <2>0. pc[w] = "rmwStore"
      BY Zenon DEF RmwStore
    <2>1. /\ pc[w] = "rmwStore" /\ RmwAt(w) /\ TypeOK /\ i \in Idx
          /\ i \in 1..(MaxOps + 1) /\ o \in Blkop /\ o.cmd = "RMW" /\ o.page \in Page
          /\ b \in Blocks /\ lock[IDXL[b]] = w
      BY <2>0, RmwHolds, Zenon DEF RmwAt
    <2>2. o.grain \in Slots /\ cstage[w][i] \in Image /\ old[w] = index[b] /\ old[w] \in Ent
      BY <2>1, Zenon DEF Typed, Shape, Local, CurShape, TypeOK
    <2>3. /\ cstage[w][i].n \in 0..CBLK_SIZE /\ cstage[w][i].page \in AnyPage
          /\ o.grain \in Slot /\ cstage[w][i] \in Stored
      <3>1. o.grain \in Slot /\ cstage[w][i] \in Stored
        BY <2>2, Zenon DEF Slot, Stored
      <3> HIDE DEF i, o, b
      <3>2. cstage[w][i].n \in 0..CBLK_SIZE /\ cstage[w][i].page \in AnyPage
        BY <2>2, StoreAssumption DEF Image
      <3> QED
        BY <3>1, <3>2, Zenon
    <2>4. /\ index' \in [Blocks -> Ent] /\ old' \in [Workers -> Ent]
          /\ seen' \in [Workers -> [Idx -> SUBSET AnyPage]]
          /\ \A c \in Blocks : Names(index[c])'
          /\ \A c \in Blocks : c # b => index'[c] = index[c]
          /\ Names(old[w])'
          /\ \A v \in Workers : v # w => old'[v] = old[v]
      <3>1. Install(w, b, old[w], o.grain, cstage[w][i].n, cstage[w][i].page)
        BY Zenon DEF RmwStore
      <3>2. Names(old[w]) /\ \A c \in Blocks : Names(index[c])
        BY <2>1, Zenon DEF RmwAt
      <3>3. /\ TypeOK /\ b \in Blocks /\ old[w] \in Ent /\ o.grain \in Slot /\ o.grain \in Slots
            /\ cstage[w][i].n \in 0..CBLK_SIZE /\ cstage[w][i].page \in AnyPage
        BY <2>1, <2>2, <2>3, Zenon
      <3> HIDE DEF i, o, b
      <3> QED
        <4>1. Supplants(w, b, old[w], o.grain, cstage[w][i].n)
          BY <3>1, <3>2, <3>3, <1>InstallEffect, Zenon
        <4> QED
          BY <4>1, Zenon DEF Supplants
    <2>5. /\ UNCHANGED <<free, lock, live, codec, round, via, todo, rerr>>
          /\ Tear({o.grain}) /\ SetOp(w, i, Done(o)) /\ Goto(w, "rmwRelease", i)
          /\ mem' = [mem EXCEPT ![o.grain] = cstage[w][i]] \/ UNCHANGED mem
      BY Zenon DEF RmwStore
    <2>6. \A v \in Workers, j \in Idx :
            \/ cstage'[v][j] = cstage[v][j]
            \/ ops[v][j].cmd = "READ"
            \/ pc[v] = "rmwMerge" /\ j = cur[v]
      BY <2>1, <2>5, <1>TearEffect, Zenon
    <2>7. cstage'[w][i] \in Image
      BY <2>1, <2>2, <2>6, Zenon
    <2>8. mem' \in [Slots -> Stored] /\ cstage' \in [Workers -> [Idx -> Stored]]
      BY <2>1, <2>3, <2>5, <1>TearType, Zenon DEF TypeOK
    <2>9. PICK n \in Blkop : /\ SetOp(w, i, n) /\ n.cmd = "RMW" /\ n.blk = b
                             /\ n.page = o.page
      <3>1. Done(o) \in Blkop /\ Done(o).cmd = "RMW" /\ Done(o).blk = b /\ Done(o).page = o.page
        BY <2>1, DoneOp, Zenon
      <3> QED
        BY <2>5, <3>1, Zenon
    <2>10. /\ pc' \in [Workers -> Labels] /\ cur' \in [Workers -> 1..(MaxOps + 1)]
           /\ ops' \in [Workers -> [Idx -> Blkop]]
      BY <2>1, <2>5, <2>9, <1>GotoType, <1>SetOpType, Zenon DEF Labels
    <2>11. TypeOK'
      BY <2>1, <2>4, <2>5, <2>8, <2>10, Zenon DEF TypeOK
    <2>12. \A v \in Workers : v # w => ops'[v] = ops[v] /\ pc'[v] = pc[v] /\ cur'[v] = cur[v]
      <3>1. \A v \in Workers : v # w => pc'[v] = pc[v] /\ cur'[v] = cur[v]
        BY <2>1, <2>5, GotoEffect, Zenon
      <3>2. \A v \in Workers : v # w => ops'[v] = ops[v]
        BY <2>1, <2>9, SetOpEffect, Zenon
      <3> QED
        BY <3>1, <3>2, Zenon
    <2>13. Frame(w)
      BY <2>1, <2>4, <2>5, <2>6, <2>12, Zenon DEF Frame
    <2>14. Local(w)'
      BY <2>1, <2>4, <2>5, <2>7, <2>9, <1>RmwStep, Zenon DEF RmwLabels
    <2> QED
      BY <2>4, <2>11, <2>13, <2>14, <1>Reassemble, Zenon
  <1>T_RmwRelease.
    ASSUME Typed, NEW w \in Workers, RmwRelease(w)
    PROVE  Typed'
    <2> USE <1>T_RmwRelease
    <2> DEFINE i == cur[w]
               o == ops[w][i]
    <2>0. pc[w] = "rmwRelease" /\ Goto(w, "rmwOut", i)
      BY Zenon DEF RmwRelease
    <2>1. /\ RmwAt(w) /\ TypeOK /\ i \in Idx /\ i \in 1..(MaxOps + 1) /\ o \in Blkop
          /\ o.cmd = "RMW" /\ o.page \in Page /\ lock[IDXL[o.blk]] = w /\ Names(old[w])
          /\ \A c \in Blocks : Names(index[c])
      BY <2>0, RmwHolds, Zenon DEF RmwAt
    <2>2. cstage[w][i] \in Image
      BY <2>0, <2>1, Zenon DEF Typed, Shape, Local, CurShape
    <2>3. cstage[w][i].n \in 0..CBLK_SIZE
      BY <2>2, StoreAssumption DEF Image
    <2>4. /\ free' \in SUBSET Slots /\ live' \in Int /\ codec' \in Int
          /\ old' \in [Workers -> Ent] /\ Names(old[w])'
          /\ \A v \in Workers : v # w => old'[v] = old[v]
      <3>1. Displace(w, cstage[w][i].n)
        BY Zenon DEF RmwRelease
      <3> QED
        BY <2>1, <2>3, <3>1, <1>DisplaceEffect, Zenon
    <2>5. UNCHANGED <<index, mem, lock, round, via, todo, ops, cstage, rerr, seen>>
      BY Zenon DEF RmwRelease
    <2>6. SetOp(w, i, o)
      BY <2>1, <2>5, Zenon DEF SetOp, TypeOK
    <2>7. pc' \in [Workers -> Labels] /\ cur' \in [Workers -> 1..(MaxOps + 1)]
      BY <2>0, <2>1, <1>GotoType, Zenon DEF Labels
    <2>8. TypeOK'
      BY <2>1, <2>4, <2>5, <2>7, Zenon DEF TypeOK
    <2>9. Frame(w)
      <3>1. \A v \in Workers : v # w => pc'[v] = pc[v] /\ cur'[v] = cur[v]
        BY <2>0, <2>1, GotoEffect, Zenon
      <3> QED
        BY <2>4, <2>5, <3>1, Zenon DEF Frame
    <2>10. Local(w)'
      BY <2>0, <2>1, <2>4, <2>5, <2>6, <1>RmwStep, Zenon DEF RmwLabels
    <2> QED
      BY <2>1, <2>5, <2>8, <2>9, <2>10, <1>Reassemble, Zenon DEF Names
  <1>T_RmwOut.
    ASSUME Typed, NEW w \in Workers, RmwOut(w)
    PROVE  Typed'
    <2> USE <1>T_RmwOut
    <2> DEFINE b == ops[w][cur[w]].blk
    <2>1. /\ TypeOK /\ pc[w] = "rmwOut" /\ lock[IDXL[b]] = w /\ Goto(w, "piece", 1)
          /\ Collect(w) /\ lock' = [lock EXCEPT ![IDXL[b]] = NoWorker]
      BY Zenon DEF Typed, Shape, Local, CurShape, HoldLabels, RmwOut
    <2>2. /\ lock' \in [Stripes -> Workers \cup {NoWorker}]
          /\ \A s \in Stripes : lock[s] \in Workers /\ lock[s] # w => lock'[s] = lock[s]
      BY <2>1, Zenon DEF TypeOK
    <2>3. UNCHANGED <<index, mem, free, live, codec, round, via, todo, ops, cstage, old, seen>>
      BY Zenon DEF RmwOut
    <2>4. 1 \in 1..(MaxOps + 1) /\ "piece" \in Labels
      BY StoreAssumption DEF Labels
    <2>5. TypeOK'
      BY <2>1, <2>2, <2>3, <2>4, <1>GotoType, <1>CollectType, Zenon DEF TypeOK
    <2>6. Frame(w) /\ Local(w)'
      BY <2>1, <2>2, <2>3, <2>4, <1>OpsKept, Zenon
    <2> QED
      BY <2>3, <2>5, <2>6, <1>Reassemble, Zenon DEF Typed, Shape
  <1>T_Admit.
    ASSUME Typed, NEW w \in Workers, NEW job \in Jobs, Admit(w, job)
    PROVE  Typed'
    <2> USE <1>T_Admit
    <2>1. TypeOK /\ Goto(w, "piece", 1) /\ job \in Job
      BY StoreAssumption, Zenon DEF Typed, Admit
    <2>2. via' \in [Workers -> {"batch", "one"}] /\ todo' \in [Workers -> Seq(Piece)]
      BY <2>1, Zenon DEF Admit, TypeOK, Job
    <2>3. 1 \in 1..(MaxOps + 1) /\ "piece" \in Labels
      BY StoreAssumption DEF Labels
    <2>4. UNCHANGED <<index, mem, free, lock, live, codec, round, ops, cstage, old, rerr, seen>>
      BY Zenon DEF Admit, shared
    <2>5. TypeOK'
      BY <2>1, <2>2, <2>3, <2>4, <1>GotoType, Zenon DEF TypeOK
    <2>6. Frame(w) /\ Local(w)'
      BY <2>1, <2>3, <2>4, <1>OpsKept, Zenon
    <2> QED
      BY <2>4, <2>5, <2>6, <1>Reassemble, Zenon DEF Typed, Shape
  <1>Blank.
    ASSUME NEW a \in Ask
    PROVE  /\ blkop_set(a) \in Blkop /\ blkop_set(a).cmd = a.cmd /\ blkop_set(a).page = a.page
           /\ blkop_set(a).dma = 0 /\ blkop_set(a).grain = SLOT_NONE /\ a.page \in Page
           /\ a.blk \in Blocks
    BY <1>Blank, <1>BlkopSetType, Zenon DEF blkop_set, Ask
  <1>T_StartPiece.
    ASSUME Typed, NEW w \in Workers, StartPiece(w)
    PROVE  Typed'
    <2> USE <1>T_StartPiece
    <2> DEFINE asks == Head(todo[w]).asks
               l    == FirstLabel(asks[1].cmd)
    <2>1. TypeOK /\ pc[w] = "piece" /\ ~Stopped(w) /\ (\A c \in Blocks : Names(index[c]))
          /\ Names(old[w]) /\ todo[w] \in Seq(Piece) /\ todo[w] # <<>>
      BY Zenon DEF Typed, Shape, Local, TypeOK, StartPiece, Stopped
    <2>2. Head(todo[w]) \in Piece /\ Tail(todo[w]) \in Seq(Piece)
      BY <2>1
    <2>3. asks \in [Idx -> Ask] /\ Homogeneous(asks)
      BY <2>2, Zenon DEF Piece
    <2>4. 1 \in Idx /\ 1 \in 1..(MaxOps + 1) /\ l \in {"prepare", "trim", "rmw"} /\ l \in Labels
      BY StoreAssumption DEF Idx, FirstLabel, Labels
    <2> HIDE DEF asks, l
    <2>5. /\ Goto(w, l, 1) /\ ops' = [ops EXCEPT ![w] = [i \in Idx |-> blkop_set(asks[i])]]
          /\ seen' = [seen EXCEPT ![w] = [i \in Idx |-> IF asks[i].cmd = "READ"
                                                        THEN {Contents(asks[i].blk)} ELSE {}]]
          /\ todo' = [todo EXCEPT ![w] = Tail(@)] /\ round' = [round EXCEPT ![w] = 0]
          /\ UNCHANGED <<index, mem, free, lock, live, codec, via, cstage, old, rerr>>
      BY Zenon DEF StartPiece, asks, l, shared
    <2>6. \A i \in Idx : /\ asks[i] \in Ask /\ blkop_set(asks[i]) \in Blkop
                         /\ Contents(asks[i].blk) \in AnyPage
      BY <2>1, <2>3, <1>Blank, <1>ContentsType, Zenon DEF Names
    <2>7. ops' \in [Workers -> [Idx -> Blkop]] /\ todo' \in [Workers -> Seq(Piece)]
      BY <2>1, <2>2, <2>5, <2>6, Zenon DEF TypeOK
    <2>8. /\ seen' \in [Workers -> [Idx -> SUBSET AnyPage]]
          /\ round' \in [Workers -> 0..Rounds] /\ round'[w] = 0
      <3>1. 0 \in 0..Rounds
        BY StoreAssumption
      <3>2. /\ seen \in [Workers -> [Idx -> SUBSET AnyPage]]
            /\ round \in [Workers -> 0..Rounds]
        BY <2>1, Zenon DEF TypeOK
      <3>3. round' \in [Workers -> 0..Rounds] /\ round'[w] = 0
        BY <2>5, <3>1, <3>2, Zenon
      <3> DEFINE fresh == [i \in Idx |-> IF asks[i].cmd = "READ"
                                         THEN {Contents(asks[i].blk)} ELSE {}]
      <3>4. fresh \in [Idx -> SUBSET AnyPage]
        BY <2>6, Zenon
      <3>5. seen' = [seen EXCEPT ![w] = fresh]
        BY <2>5, Zenon
      <3> HIDE DEF fresh
      <3>6. seen' \in [Workers -> [Idx -> SUBSET AnyPage]]
        BY <3>2, <3>4, <3>5, Zenon
      <3> QED
        BY <3>3, <3>6, Zenon
    <2>9. TypeOK'
      BY <2>1, <2>4, <2>5, <2>7, <2>8, <1>GotoType, Zenon DEF TypeOK
    <2>10. /\ pc'[w] = l /\ cur'[w] = 1
           /\ \A v \in Workers : v # w => pc'[v] = pc[v] /\ cur'[v] = cur[v]
      BY <2>1, <2>5, GotoEffect, Zenon
    <2>11. Frame(w)
      BY <2>1, <2>5, <2>10, Zenon DEF Frame, TypeOK
    <2>12. ASSUME NEW j \in Idx PROVE OpShape(w, j)'
      <3>1. ops'[w][j] = blkop_set(asks[j])
        BY <2>1, <2>5, Zenon DEF TypeOK
      <3>2. /\ ops'[w][j].cmd = asks[j].cmd /\ ops'[w][j].dma = 0
            /\ ops'[w][j].grain = SLOT_NONE /\ ops'[w][j].page \in Page
        BY <2>6, <3>1, <1>Blank
      <3>3. /\ l = "prepare" => asks[j].cmd \in {"none", "READ", "WRITE"}
            /\ l = "trim" => asks[j].cmd \in {"none", "TRIM"}
            /\ l = "rmw" => asks[j].cmd \in {"none", "RMW"}
        <4>1. CASE \A i \in Idx : asks[i].cmd \in {"none", "READ", "WRITE"}
          BY <2>4, <4>1, Zenon DEF l, FirstLabel
        <4>2. CASE \A i \in Idx : asks[i].cmd = "TRIM" \/ (asks[i].cmd = "none" /\ i # 1)
          BY <2>4, <4>2, Zenon DEF l, FirstLabel
        <4>3. CASE \A i \in Idx : asks[i].cmd = IF i = 1 THEN "RMW" ELSE "none"
          BY <2>4, <4>3, Zenon DEF l, FirstLabel
        <4> QED
          BY <2>3, <4>1, <4>2, <4>3, Zenon DEF Homogeneous
      <3>4. pc'[w] = l /\ ops'[w][j].dma # 1 /\ ops'[w][j].dma # 2
        BY <2>10, <3>2
      <3>5. CASE l = "prepare"
        BY <3>2, <3>3, <3>4, <3>5, Zenon DEF OpShape, BatchLabels, RmwLabels, TrimLabels
      <3>6. CASE l = "trim"
        BY <3>2, <3>3, <3>4, <3>6, Zenon DEF OpShape, BatchLabels, RmwLabels, TrimLabels
      <3>7. CASE l = "rmw"
        BY <3>2, <3>3, <3>4, <3>7, Zenon DEF OpShape, BatchLabels, RmwLabels, TrimLabels
      <3> QED
        BY <2>4, <3>5, <3>6, <3>7, Zenon
    <2>13. CurShape(w)'
      <3>1. 0 < Rounds
        BY StoreAssumption
      <3> QED
        BY <2>4, <2>8, <2>10, <3>1, Zenon DEF CurShape, HoldLabels
    <2> QED
      BY <2>1, <2>5, <2>9, <2>11, <2>12, <2>13, <1>Reassemble, Zenon DEF Local, Names
  <1>T_Reply.
    ASSUME Typed, NEW w \in Workers, Reply(w)
    PROVE  Typed'
    <2> USE <1>T_Reply
    <2>1. TypeOK /\ Names(old[w]) /\ (\A c \in Blocks : Names(index[c])) /\ Goto(w, "idle", 1)
      BY Zenon DEF Typed, Shape, Local, Reply
    <2>2. /\ via' = [via EXCEPT ![w] = "one"] /\ todo' = [todo EXCEPT ![w] = <<>>]
          /\ round' = [round EXCEPT ![w] = 0]
          /\ ops' = [ops EXCEPT ![w] = [i \in Idx |-> blkop_set(NoAsk)]]
          /\ cstage' = [cstage EXCEPT ![w] = [i \in Idx |-> Torn]]
          /\ rerr' = [rerr EXCEPT ![w] = [i \in Idx |-> "ok"]]
          /\ seen' = [seen EXCEPT ![w] = [i \in Idx |-> {}]]
          /\ UNCHANGED <<index, mem, free, lock, live, codec, old>>
      BY Zenon DEF Reply, shared
    <2>3. 1 \in 1..(MaxOps + 1) /\ "idle" \in Labels /\ 0 \in 0..Rounds /\ <<>> \in Seq(Piece)
      BY StoreAssumption DEF Labels
    <2>4. /\ blkop_set(NoAsk) \in Blkop /\ blkop_set(NoAsk).cmd = "none"
      BY <1>NoAskType, <1>Blank, Zenon DEF NoAsk
    <2>5. ops' \in [Workers -> [Idx -> Blkop]]
      BY <2>1, <2>2, <2>4, Zenon DEF TypeOK
    <2>6. /\ cstage' \in [Workers -> [Idx -> Stored]] /\ rerr' \in [Workers -> [Idx -> Err]]
          /\ seen' \in [Workers -> [Idx -> SUBSET AnyPage]]
      BY <2>1, <2>2, Zenon DEF TypeOK, Stored, Err
    <2>7. /\ via' \in [Workers -> {"batch", "one"}] /\ todo' \in [Workers -> Seq(Piece)]
          /\ round' \in [Workers -> 0..Rounds]
      BY <2>1, <2>2, <2>3, Zenon DEF TypeOK
    <2>8. TypeOK'
      BY <2>1, <2>2, <2>3, <2>5, <2>6, <2>7, <1>GotoType, Zenon DEF TypeOK
    <2>9. /\ pc'[w] = "idle"
          /\ \A v \in Workers : v # w => pc'[v] = pc[v] /\ cur'[v] = cur[v]
      BY <2>1, GotoEffect, Zenon
    <2>10. Frame(w)
      BY <2>1, <2>2, <2>9, Zenon DEF Frame, TypeOK
    <2>11. ASSUME NEW j \in Idx PROVE OpShape(w, j)'
      <3>1. ops'[w][j].cmd = "none"
        BY <2>1, <2>2, <2>4, Zenon DEF TypeOK
      <3> QED
        BY <2>9, <3>1, Zenon DEF OpShape, BatchLabels, RmwLabels, TrimLabels
    <2>12. CurShape(w)'
      BY <2>9, Zenon DEF CurShape, HoldLabels
    <2> QED
      BY <2>1, <2>2, <2>8, <2>10, <2>11, <2>12, <1>Reassemble, Zenon DEF Local, Names
  <1>InitTyped.
    Init => Typed
    <2> SUFFICES ASSUME Init PROVE Typed
      BY Zenon
    <2>1. TypeOK
      BY <1>InitType, Zenon
    <2>2. \A b \in Blocks : Names(index[b])
      BY UnwrittenEnt, Zenon DEF Init, Names
    <2>3. ASSUME NEW w \in Workers PROVE Local(w)
      <3>1. Names(old[w]) /\ pc[w] = "idle"
        BY UnwrittenEnt, Zenon DEF Init, Names
      <3>2. \A i \in Idx : ops[w][i].cmd = "none"
        BY <1>NoAskType, <1>Blank, Zenon DEF Init, NoAsk
      <3>3. \A i \in Idx : OpShape(w, i)
        BY <3>1, <3>2, Zenon DEF OpShape, BatchLabels, RmwLabels, TrimLabels
      <3>4. CurShape(w)
        BY <3>1, Zenon DEF CurShape, HoldLabels
      <3> QED
        BY <3>1, <3>3, <3>4, Zenon DEF Local
    <2> QED
      BY <2>1, <2>2, <2>3, Zenon DEF Typed, Shape
  <1>StutterTyped.
    Typed /\ UNCHANGED vars => Typed'
    <2> SUFFICES ASSUME Typed, UNCHANGED vars PROVE Typed'
      BY Zenon
    <2>1. UNCHANGED <<index, mem, free, lock, live, codec, pc, cur, round, via, todo,
                      ops, cstage, old, rerr, seen>>
      BY Zenon DEF vars, shared, worker
    <2>2. TypeOK'
      BY <2>1, Zenon DEF Typed, TypeOK
    <2>3. ASSUME NEW w \in Workers PROVE Local(w)'
      <3>1. Local(w)
        BY Zenon DEF Typed, Shape
      <3>2. ASSUME NEW i \in Idx PROVE OpShape(w, i)'
        BY <2>1, <3>1, Zenon DEF Local, OpShape
      <3>3. CurShape(w)'
        BY <2>1, <3>1, Zenon DEF Local, CurShape
      <3> QED
        BY <2>1, <3>1, <3>2, <3>3, Zenon DEF Local, Names
    <2> QED
      BY <2>1, <2>2, <2>3, Zenon DEF Typed, Shape, Names
  <1>NextTyped.
    Typed /\ [Next]_vars => Typed'
    <2> SUFFICES ASSUME Typed, Next PROVE Typed'
      BY <1>StutterTyped, Zenon
    <2>1. PICK w \in Workers : (\E job \in Jobs : Admit(w, job)) \/ Work(w)
      BY Zenon DEF Next
    <2>2. CASE \E job \in Jobs : Admit(w, job)
      BY <2>2, <1>T_Admit, Zenon
    <2>3. CASE StartPiece(w) \/ Reply(w)
      BY <2>3, <1>T_StartPiece, <1>T_Reply, Zenon
    <2>4. CASE Batch(w)
      <3>1. ASSUME NEW i \in Idx,
                   \/ wr_prepare(w, i) \/ rd_prepare(w, i) \/ wr_abort(w, i)
                   \/ IssueRead(w, i) \/ IssueWrite(w, i) \/ IssueFails(w, i)
                   \/ rd_finish(w, i) \/ Resnapshot(w, i)
                   \/ rd_block_locked(w, i) \/ wr_publish(w, i)
            PROVE  Typed'
        BY <3>1, <1>T_wr_prepare, <1>T_rd_prepare, <1>T_wr_abort, <1>T_IssueRead, <1>T_IssueWrite,
           <1>T_IssueFails, <1>T_rd_finish, <1>T_Resnapshot, <1>T_rd_block_locked, <1>T_wr_publish, Zenon
      <3>2. CASE \/ EndPrepare(w) \/ EndAbort(w) \/ EndIssue(w) \/ EndFinish(w) \/ EndLocked(w)
        BY <3>2, <1>T_Control, Zenon
      <3>3. CASE \/ Synchronize(w) \/ Reissue(w) \/ EndAgain(w) \/ LockedDone(w)
                 \/ wr_release(w) \/ EndPublish(w)
        BY <3>3, <1>T_Synchronize, <1>T_Reissue, <1>T_EndAgain, <1>T_LockedDone, <1>T_wr_release,
           <1>T_EndPublish, Zenon
      <3> QED
        BY <2>4, <3>1, <3>2, <3>3, Zenon DEF Batch
    <2>5. CASE Trim(w)
      BY <2>5, <1>T_TrimCheck, <1>T_TrimLock, <1>T_TrimRelease, <1>T_Control, Zenon DEF Trim
    <2>6. CASE Rmw(w)
      BY <2>6, <1>T_RmwLock, <1>T_RmwMerge, <1>T_RmwCopy, <1>T_RmwStore, <1>T_RmwRelease,
         <1>T_RmwOut, Zenon
      DEF Rmw
    <2> QED
      BY <2>1, <2>2, <2>3, <2>4, <2>5, <2>6, Zenon DEF Work
  <1> QED
    BY <1>InitTyped, <1>NextTyped, PTL DEF Spec

(* Type correctness for every number of workers, blocks, slots and ops and *)
(* every set of CUDA calls that may fail: no path of flush_batch,          *)
(* do_blocks, rmw_block or trim_range copies from or publishes a slot it   *)
(* does not name, or loses count of its rounds.                            *)
THEOREM TypeCorrect == Spec => []TypeOK
  <1>1. Typed => TypeOK
    BY Zenon DEF Typed
  <1> QED
    BY <1>1, AlwaysTyped, PTL

-----------------------------------------------------------------------------
(***************************************************************************)
(* No worker leaves a critical section with its stripe lock taken.  A step *)
(* of worker w touches at most the lock of the block under w's cursor:     *)
(* it takes that lock on entry, stays inside with cursor and block as they *)
(* are, or gives it back on the way out.                                   *)
(***************************************************************************)
(* The kinds of step.                                                      *)

(* What a step of worker w leaves to the other workers.                    *)
LocksApart(w) ==
  \A v \in Workers : v # w =>
    ops'[v] = ops[v] /\ pc'[v] = pc[v] /\ cur'[v] = cur[v]

(* The stripe of the block under the worker's cursor.                      *)
StripeOf(w) == IDXL[ops[w][cur[w]].blk]

LEMMA HeldByWorker ==
  ASSUME TypeOK, LockDiscipline, NEW l \in Stripes, lock[l] # NoWorker
  PROVE  /\ lock[l] \in Workers
         /\ pc[lock[l]] \in HoldLabels
         /\ StripeOf(lock[l]) = l
  <1>1. lock[l] \in Workers \cup {NoWorker}
    BY Zenon DEF TypeOK
  <1>2. pc[lock[l]] \in HoldLabels /\ StripeOf(lock[l]) = l
    BY Zenon DEF LockDiscipline, HoldLabels, StripeOf
  <1> QED
    BY <1>1, <1>2, Zenon

(* A step outside the critical sections.                                   *)
LEMMA Outside ==
  ASSUME TypeOK, LockDiscipline, NEW w \in Workers, LocksApart(w),
         pc[w] \notin HoldLabels, UNCHANGED lock
  PROVE  LockDiscipline'
  <1> SUFFICES ASSUME NEW l \in Stripes, NEW v, v = lock[l], v # NoWorker
               PROVE  pc'[v] \in HoldLabels /\ StripeOf(v)' = l
    BY Zenon DEF LockDiscipline, HoldLabels, StripeOf
  <1>1. v \in Workers /\ pc[v] \in HoldLabels /\ StripeOf(v) = l
    BY HeldByWorker, Zenon
  <1>2. v # w
    BY <1>1, Zenon
  <1> QED
    BY <1>1, <1>2, Zenon DEF LocksApart, StripeOf

-----------------------------------------------------------------------------
(* Which kind each step is.                                                *)

Lockless == {"idle", "piece", "prepare", "abort", "issue", "sync", "finish", "again",
         "againIssue", "locked", "publish", "release", "trim", "trimLock",
         "trimRelease", "rmw"}

-----------------------------------------------------------------------------
(* A stripe lock is held only inside the critical section of a block of    *)
(* its stripe, for any number of workers, blocks and stripes and any set   *)
(* of CUDA calls that may fail, the synchronize included: every error path *)
(* of rmw_block and rd_block_locked passes its pthread_mutex_unlock.       *)
THEOREM LocksReleased == Spec => []LockDiscipline
  (* A step inside one.                                                      *)
  <1>Inside.
    ASSUME TypeOK, LockDiscipline, NEW w \in Workers, LocksApart(w),
           pc'[w] \in HoldLabels, cur'[w] = cur[w], UNCHANGED lock,
           ops'[w][cur[w]].blk = ops[w][cur[w]].blk
    PROVE  LockDiscipline'
    <2> USE <1>Inside
    <2> SUFFICES ASSUME NEW l \in Stripes, NEW v, v = lock[l], v # NoWorker
                 PROVE  pc'[v] \in HoldLabels /\ StripeOf(v)' = l
      BY Zenon DEF LockDiscipline, HoldLabels, StripeOf
    <2>1. v \in Workers /\ pc[v] \in HoldLabels /\ StripeOf(v) = l
      BY HeldByWorker, Zenon
    <2>2. CASE v = w
      BY <2>1, <2>2, Zenon DEF StripeOf
    <2>3. CASE v # w
      BY <2>1, <2>3, Zenon DEF LocksApart, StripeOf
    <2> QED
      BY <2>2, <2>3, Zenon
  (* A step that enters one.                                                 *)
  <1>Enters.
    ASSUME TypeOK, LockDiscipline, NEW w \in Workers, NEW k \in Stripes, LocksApart(w),
           pc[w] \notin HoldLabels, lock' = [lock EXCEPT ![k] = w],
           pc'[w] \in HoldLabels, StripeOf(w)' = k
    PROVE  LockDiscipline'
    <2> USE <1>Enters
    <2> SUFFICES ASSUME NEW l \in Stripes, NEW v, v = lock'[l], v # NoWorker
                 PROVE  pc'[v] \in HoldLabels /\ StripeOf(v)' = l
      BY Zenon DEF LockDiscipline, HoldLabels, StripeOf
    <2>0. v = IF l = k THEN w ELSE lock[l]
      BY Zenon DEF TypeOK
    <2>1. CASE l = k
      BY <2>0, <2>1, Zenon DEF StripeOf
    <2>2. CASE l # k
      <3>1. v \in Workers /\ pc[v] \in HoldLabels /\ StripeOf(v) = l
        BY <2>0, <2>2, HeldByWorker, Zenon
      <3>2. v # w
        BY <3>1, Zenon
      <3> QED
        BY <2>0, <2>2, <3>1, <3>2, Zenon DEF LocksApart, StripeOf
    <2> QED
      BY <2>1, <2>2, Zenon
  (* A step that leaves one.  The lock it gives back is the only one it had. *)
  <1>Leaves.
    ASSUME TypeOK, LockDiscipline, NEW w \in Workers, LocksApart(w),
           lock' = [lock EXCEPT ![StripeOf(w)] = NoWorker]
    PROVE  LockDiscipline'
    <2> USE <1>Leaves
    <2> SUFFICES ASSUME NEW l \in Stripes, NEW v, v = lock'[l], v # NoWorker
                 PROVE  pc'[v] \in HoldLabels /\ StripeOf(v)' = l
      BY Zenon DEF LockDiscipline, HoldLabels, StripeOf
    <2>1. l # StripeOf(w) /\ v = lock[l]
      BY Zenon DEF TypeOK
    <2>2. v \in Workers /\ pc[v] \in HoldLabels /\ StripeOf(v) = l
      BY <2>1, HeldByWorker, Zenon
    <2>3. v # w
      BY <2>1, <2>2, Zenon
    <2> QED
      BY <2>1, <2>2, <2>3, Zenon DEF LocksApart, StripeOf
  <1>LocksApartKept.
    ASSUME TypeOK, NEW w \in Workers, NEW l, NEW k, Goto(w, l, k), UNCHANGED ops
    PROVE  LocksApart(w) /\ pc'[w] = l /\ cur'[w] = k
    BY <1>LocksApartKept, GotoEffect, Zenon DEF LocksApart
  <1>LocksApartOne.
    ASSUME TypeOK, NEW w \in Workers, NEW i \in Idx, NEW n, NEW l, NEW k,
           Goto(w, l, k), SetOp(w, i, n)
    PROVE  LocksApart(w) /\ pc'[w] = l /\ cur'[w] = k /\ ops'[w][i] = n
    <2> USE <1>LocksApartOne
    <2>1. /\ pc'[w] = l /\ cur'[w] = k
          /\ \A v \in Workers : v # w => pc'[v] = pc[v] /\ cur'[v] = cur[v]
      BY GotoEffect, Zenon
    <2>2. ops'[w][i] = n /\ \A v \in Workers : v # w => ops'[v] = ops[v]
      BY SetOpEffect, SMTT(30)
    <2> QED
      BY <2>1, <2>2, Zenon DEF LocksApart
  <1>LocksApartAll.
    ASSUME TypeOK, NEW w \in Workers, NEW n, NEW l, NEW k,
           Goto(w, l, k), ops' = [ops EXCEPT ![w] = n]
    PROVE  LocksApart(w) /\ pc'[w] = l /\ cur'[w] = k
    BY <1>LocksApartAll, GotoEffect, Zenon DEF LocksApart, TypeOK
  <1>LocklessLabels.
    \A l \in Lockless : l \notin HoldLabels
    BY Zenon DEF Lockless, HoldLabels
  <1>L_Control.
    ASSUME TypeOK, LockDiscipline, NEW w \in Workers,
           \/ EndPrepare(w) \/ EndAbort(w) \/ EndIssue(w) \/ EndFinish(w)
           \/ EndAgain(w) \/ EndLocked(w) \/ EndPublish(w) \/ EndTrim(w)
           \/ Synchronize(w) \/ wr_release(w) \/ TrimRelease(w)
           \/ \E job \in Jobs : Admit(w, job)
    PROVE  LockDiscipline'
    <2> USE <1>L_Control
    <2>1. /\ UNCHANGED <<lock, ops>> /\ pc[w] \in Lockless
          /\ \E l, k : Goto(w, l, k)
      <3>1. CASE EndPrepare(w)
        BY <3>1, Zenon DEF EndPrepare, Over, shared, Lockless
      <3>2. CASE EndAbort(w)
        BY <3>2, Zenon DEF EndAbort, Over, shared, Lockless
      <3>3. CASE EndIssue(w)
        BY <3>3, Zenon DEF EndIssue, Over, shared, Lockless
      <3>4. CASE EndFinish(w)
        BY <3>4, Zenon DEF EndFinish, Over, shared, Lockless
      <3>5. CASE EndAgain(w)
        BY <3>5, Zenon DEF EndAgain, Over, shared, Lockless
      <3>6. CASE EndLocked(w)
        BY <3>6, Zenon DEF EndLocked, Over, shared, Lockless
      <3>7. CASE EndPublish(w)
        BY <3>7, Zenon DEF EndPublish, Over, shared, Lockless
      <3>8. CASE EndTrim(w)
        BY <3>8, Zenon DEF EndTrim, Over, shared, Lockless
      <3>9. CASE Synchronize(w)
        BY <3>9, Zenon DEF Synchronize, Lockless
      <3>10. CASE wr_release(w)
        BY <3>10, Zenon DEF wr_release, Lockless
      <3>11. CASE TrimRelease(w)
        BY <3>11, Zenon DEF TrimRelease, Lockless
      <3>12. CASE \E job \in Jobs : Admit(w, job)
        BY <3>12, Zenon DEF Admit, shared, Lockless
      <3> QED
        BY <3>1, <3>2, <3>3, <3>4, <3>5, <3>6, <3>7, <3>8, <3>9, <3>10, <3>11, <3>12, Zenon
    <2>2. LocksApart(w)
      BY <2>1, <1>LocksApartKept, Zenon
    <2> QED
      BY <2>1, <2>2, <1>LocklessLabels, Outside, Zenon
  <1>L_Fresh.
    ASSUME TypeOK, LockDiscipline, NEW w \in Workers, StartPiece(w) \/ Reply(w)
    PROVE  LockDiscipline'
    <2> USE <1>L_Fresh
    <2>1. /\ UNCHANGED lock /\ pc[w] \in Lockless
          /\ \E l, k : Goto(w, l, k)
          /\ \E n : ops' = [ops EXCEPT ![w] = n]
      BY Zenon DEF StartPiece, Reply, shared, Lockless
    <2>2. LocksApart(w)
      BY <2>1, <1>LocksApartAll, Zenon
    <2> QED
      BY <2>1, <2>2, <1>LocklessLabels, Outside, Zenon
  <1>L_Op.
    ASSUME TypeOK, LockDiscipline, NEW w \in Workers, NEW i \in Idx,
           \/ wr_prepare(w, i) \/ rd_prepare(w, i) \/ wr_abort(w, i)
           \/ IssueRead(w, i) \/ IssueWrite(w, i) \/ IssueFails(w, i)
           \/ rd_finish(w, i) \/ Resnapshot(w, i) \/ wr_publish(w, i)
           \/ TrimCheck(w, i)
    PROVE  LockDiscipline'
    <2> USE <1>L_Op
    <2>1. /\ UNCHANGED lock /\ pc[w] \in Lockless
          /\ \E l, k : Goto(w, l, k)
          /\ UNCHANGED ops \/ \E n : SetOp(w, i, n)
      <3>1. CASE wr_prepare(w, i)
        BY <3>1, Zenon DEF wr_prepare, Turn, Lockless
      <3>2. CASE rd_prepare(w, i)
        BY <3>2, Zenon DEF rd_prepare, Turn, shared, Lockless
      <3>3. CASE wr_abort(w, i)
        BY <3>3, Zenon DEF wr_abort, Turn, Lockless
      <3>4. CASE IssueRead(w, i)
        BY <3>4, Zenon DEF IssueRead, Turn, shared, Lockless
      <3>5. CASE IssueWrite(w, i)
        BY <3>5, Zenon DEF IssueWrite, Turn, Lockless
      <3>6. CASE IssueFails(w, i)
        BY <3>6, Zenon DEF IssueFails, Turn, shared, Lockless
      <3>7. CASE rd_finish(w, i)
        BY <3>7, Zenon DEF rd_finish, Turn, shared, Lockless
      <3>8. CASE Resnapshot(w, i)
        BY <3>8, Zenon DEF Resnapshot, Turn, shared, Lockless
      <3>9. CASE wr_publish(w, i)
        BY <3>9, Zenon DEF wr_publish, Turn, Lockless
      <3>10. CASE TrimCheck(w, i)
        BY <3>10, Zenon DEF TrimCheck, Turn, shared, Lockless
      <3> QED
        BY <3>1, <3>2, <3>3, <3>4, <3>5, <3>6, <3>7, <3>8, <3>9, <3>10, Zenon
    <2>2. LocksApart(w)
      BY <2>1, <1>LocksApartKept, <1>LocksApartOne, Zenon
    <2> QED
      BY <2>1, <2>2, <1>LocklessLabels, Outside, Zenon
  <1>L_Cursor.
    ASSUME Typed, LockDiscipline, NEW w \in Workers, Reissue(w) \/ TrimLock(w)
    PROVE  LockDiscipline'
    <2> USE <1>L_Cursor
    <2>0. TypeOK /\ cur[w] \in Idx
      BY Zenon DEF Typed, Shape, Local, CurShape, Reissue, TrimLock
    <2>1. /\ UNCHANGED lock /\ pc[w] \in Lockless
          /\ \E l, k : Goto(w, l, k)
          /\ UNCHANGED ops \/ \E n : SetOp(w, cur[w], n)
      BY Zenon DEF Reissue, TrimLock, shared, Lockless
    <2>2. LocksApart(w)
      BY <2>0, <2>1, <1>LocksApartKept, <1>LocksApartOne, Zenon
    <2> QED
      BY <2>0, <2>1, <2>2, <1>LocklessLabels, Outside, Zenon
  <1>OpTyped.
    ASSUME TypeOK, NEW w \in Workers, NEW i \in Idx
    PROVE  ops[w][i] \in Blkop /\ IDXL[ops[w][i].blk] \in Stripes
    <2> USE <1>OpTyped
    <2>1. ops[w] \in [Idx -> Blkop]
      BY Zenon DEF TypeOK
    <2>2. ops[w][i] \in Blkop
      BY <2>1, Zenon
    <2>3. ops[w][i].blk \in Blocks
      BY <2>2, Zenon DEF Blkop
    <2> QED
      BY <2>2, <2>3, StoreAssumption, Zenon
  (* The read of last resort takes the lock, whatever becomes of its copy.   *)
  <1>L_rd_block_locked.
    ASSUME TypeOK, LockDiscipline, NEW w \in Workers, NEW i \in Idx,
           rd_block_locked(w, i)
    PROVE  LockDiscipline'
    <2> USE <1>L_rd_block_locked
    <2> DEFINE o == ops[w][i]
               k == IDXL[o.blk]
    <2>1. o \in Blkop /\ k \in Stripes
      BY <1>OpTyped, Zenon
    <2>2. /\ pc[w] \in Lockless /\ lock' = [lock EXCEPT ![k] = w]
          /\ Goto(w, "lockedCopy", i)
      BY Zenon DEF rd_block_locked, Turn, Lockless
    <2>3. PICK n : SetOp(w, i, n) /\ n.blk = o.blk
      <3>1. Snapshot(o) \in Blkop /\ Snapshot(o).blk = o.blk
        BY <2>1, SnapshotOp, Zenon
      <3>2. \/ SetOp(w, i, Snapshot(o)) \/ SetOp(w, i, Zeroed(Snapshot(o)))
            \/ SetOp(w, i, Failed(Snapshot(o), "EIO"))
        BY Zenon DEF rd_block_locked
      <3>3. Zeroed(Snapshot(o)).blk = o.blk /\ Failed(Snapshot(o), "EIO").blk = o.blk
        BY <3>1, Zenon DEF Zeroed, Failed, Blkop
      <3> QED
        BY <3>1, <3>2, <3>3, Zenon
    <2>4. LocksApart(w) /\ pc'[w] = "lockedCopy" /\ cur'[w] = i /\ ops'[w][i] = n
      BY <2>2, <2>3, <1>LocksApartOne, Zenon
    <2>5. pc'[w] \in HoldLabels /\ StripeOf(w)' = k
      BY <2>3, <2>4, Zenon DEF HoldLabels, StripeOf
    <2> QED
      BY <2>1, <2>2, <2>4, <2>5, <1>LocklessLabels, <1>Enters, Zenon
  <1>L_RmwLock.
    ASSUME TypeOK, LockDiscipline, NEW w \in Workers, NEW i \in Idx, RmwLock(w, i)
    PROVE  LockDiscipline'
    <2> USE <1>L_RmwLock
    <2> DEFINE o == ops[w][i]
               k == IDXL[o.blk]
    <2>1. o \in Blkop /\ k \in Stripes
      BY <1>OpTyped, Zenon
    <2>2. pc[w] \in Lockless /\ lock' = [lock EXCEPT ![k] = w]
      BY Zenon DEF RmwLock, Turn, Lockless
    <2>3. LocksApart(w) /\ pc'[w] \in HoldLabels /\ cur'[w] = i /\ ops'[w][i].blk = o.blk
      <3>1. CASE Goto(w, "rmwMerge", i) /\ UNCHANGED ops
        BY <3>1, <1>LocksApartKept, Zenon DEF HoldLabels
      <3>2. CASE Goto(w, "rmwOut", i) /\ SetOp(w, i, Failed(o, "EIO"))
        <4>1. Failed(o, "EIO").blk = o.blk
          BY <2>1, Zenon DEF Failed, Blkop
        <4>2. /\ LocksApart(w) /\ pc'[w] = "rmwOut" /\ cur'[w] = i
              /\ ops'[w][i] = Failed(o, "EIO")
          BY <3>2, <1>LocksApartOne, Zenon
        <4> QED
          BY <4>1, <4>2, Zenon DEF HoldLabels
      <3> QED
        BY <3>1, <3>2, Zenon DEF RmwLock
    <2>4. StripeOf(w)' = k
      BY <2>3, Zenon DEF StripeOf
    <2> QED
      BY <2>1, <2>2, <2>3, <2>4, <1>LocklessLabels, <1>Enters, Zenon
  (* What happens under the lock keeps the cursor and the block.             *)
  <1>L_Rmw.
    ASSUME Typed, LockDiscipline, NEW w \in Workers,
           RmwMerge(w) \/ RmwCopy(w) \/ RmwStore(w) \/ RmwRelease(w)
    PROVE  LockDiscipline'
    <2> USE <1>L_Rmw
    <2> DEFINE o == ops[w][cur[w]]
               After == {"rmwCopy", "rmwStore", "rmwRelease", "rmwOut"}
    <2>1. TypeOK /\ cur[w] \in Idx
      <3>1. TypeOK /\ CurShape(w)
        BY Zenon DEF Typed, Shape, Local
      <3>2. pc[w] \in HoldLabels
        BY Zenon DEF RmwMerge, RmwCopy, RmwStore, RmwRelease, HoldLabels
      <3> QED
        BY <3>1, <3>2, Zenon DEF CurShape
    <2>2. o \in Blkop
      BY <2>1, <1>OpTyped, Zenon
    <2>3. /\ UNCHANGED lock
          /\ \E l \in After : Goto(w, l, cur[w])
          /\ \/ UNCHANGED ops
             \/ \E n : SetOp(w, cur[w], n) /\ n.blk = o.blk
      <3>1. CASE RmwMerge(w)
        <4>1. \/ \E s : SetOp(w, cur[w], Holding(o, s)) /\ Goto(w, "rmwCopy", cur[w])
              \/ \E e : SetOp(w, cur[w], Failed(o, e)) /\ Goto(w, "rmwOut", cur[w])
          BY <3>1, Zenon DEF RmwMerge
        <4>2. \A s : Holding(o, s).blk = o.blk /\ Failed(o, s).blk = o.blk
          BY <2>2, Zenon DEF Holding, Failed, Blkop
        <4> QED
          BY <3>1, <4>1, <4>2, Zenon DEF RmwMerge
      <3>2. CASE RmwCopy(w)
        <4>1. \/ UNCHANGED ops /\ Goto(w, "rmwStore", cur[w])
              \/ SetOp(w, cur[w], Failed(GivenBack(o), "EIO")) /\ Goto(w, "rmwOut", cur[w])
          BY <3>2, Zenon DEF RmwCopy
        <4>2. Failed(GivenBack(o), "EIO").blk = o.blk
          BY <2>2, Zenon DEF GivenBack, Failed, Blkop
        <4> QED
          BY <3>2, <4>1, <4>2, Zenon DEF RmwCopy
      <3>3. CASE RmwStore(w)
        <4>1. Done(o).blk = o.blk
          BY <2>2, Zenon DEF Done, Blkop
        <4> QED
          BY <3>3, <4>1, Zenon DEF RmwStore
      <3>4. CASE RmwRelease(w)
        BY <3>4, Zenon DEF RmwRelease
      <3> QED
        BY <3>1, <3>2, <3>3, <3>4, Zenon
    <2>4. PICK l \in After : Goto(w, l, cur[w])
      BY <2>3, Zenon
    <2>5. LocksApart(w) /\ pc'[w] = l /\ cur'[w] = cur[w] /\ ops'[w][cur[w]].blk = o.blk
      <3>1. CASE UNCHANGED ops
        BY <2>1, <2>4, <3>1, <1>LocksApartKept, Zenon
      <3>2. CASE \E n : SetOp(w, cur[w], n) /\ n.blk = o.blk
        <4>1. PICK n : SetOp(w, cur[w], n) /\ n.blk = o.blk
          BY <3>2, Zenon
        <4>2. LocksApart(w) /\ pc'[w] = l /\ cur'[w] = cur[w] /\ ops'[w][cur[w]] = n
          BY <2>1, <2>4, <4>1, <1>LocksApartOne, Zenon
        <4> QED
          BY <4>1, <4>2, Zenon
      <3> QED
        BY <2>3, <3>1, <3>2, Zenon
    <2>6. pc'[w] \in HoldLabels
      BY <2>5, Zenon DEF HoldLabels
    <2> QED
      BY <2>1, <2>3, <2>5, <2>6, <1>Inside, Zenon
  (* Every way out unlocks.                                                  *)
  <1>L_Leave.
    ASSUME Typed, LockDiscipline, NEW w \in Workers, LockedDone(w) \/ RmwOut(w)
    PROVE  LockDiscipline'
    <2> USE <1>L_Leave
    <2>1. TypeOK /\ cur[w] \in Idx
      <3>1. TypeOK /\ CurShape(w)
        BY Zenon DEF Typed, Shape, Local
      <3>2. pc[w] \in HoldLabels
        BY Zenon DEF LockedDone, RmwOut, HoldLabels
      <3> QED
        BY <3>1, <3>2, Zenon DEF CurShape
    <2>2. /\ lock' = [lock EXCEPT ![StripeOf(w)] = NoWorker]
          /\ \E l, k : Goto(w, l, k)
          /\ UNCHANGED ops \/ \E n : SetOp(w, cur[w], n)
      BY Zenon DEF LockedDone, RmwOut, StripeOf
    <2>3. LocksApart(w)
      BY <2>1, <2>2, <1>LocksApartKept, <1>LocksApartOne, Zenon
    <2> QED
      BY <2>1, <2>2, <2>3, <1>Leaves, Zenon
  <1>InitLocks.
    Init => LockDiscipline
    <2> SUFFICES ASSUME Init, NEW l \in Stripes PROVE lock[l] = NoWorker
      BY Zenon DEF LockDiscipline
    <2> QED
      BY Zenon DEF Init
  <1>NextLocks.
    ASSUME Typed, LockDiscipline, [Next]_vars
    PROVE  LockDiscipline'
    <2> USE <1>NextLocks
    <2>0. TypeOK
      BY Zenon DEF Typed
    <2>1. CASE UNCHANGED vars
      BY <2>1, Zenon DEF vars, shared, worker, LockDiscipline
    <2>2. ASSUME NEW w \in Workers, (\E job \in Jobs : Admit(w, job)) \/ Work(w)
          PROVE  LockDiscipline'
      <3>1. CASE Batch(w)
        BY <2>0, <3>1, <1>L_Control, <1>L_Op, <1>L_Cursor, <1>L_rd_block_locked, <1>L_Leave, Zenon
        DEF Batch
      <3>2. CASE Trim(w)
        BY <2>0, <3>2, <1>L_Control, <1>L_Op, <1>L_Cursor, Zenon DEF Trim
      <3>3. CASE Rmw(w)
        BY <2>0, <3>3, <1>L_RmwLock, <1>L_Rmw, <1>L_Leave, Zenon DEF Rmw
      <3> QED
        BY <2>0, <2>2, <3>1, <3>2, <3>3, <1>L_Control, <1>L_Fresh, Zenon DEF Work
    <2> QED
      BY <2>1, <2>2, Zenon DEF Next
  <1>1. Init => LockDiscipline
    BY <1>InitLocks, Zenon
  <1>2. Typed /\ LockDiscipline /\ [Next]_vars => LockDiscipline'
    BY <1>NextLocks, Zenon
  <1> QED
    BY <1>1, <1>2, AlwaysTyped, PTL DEF Spec

-----------------------------------------------------------------------------
(* The moves.                                                              *)

(* No slot gets a new owner.                                               *)
Keeps ==
  /\ free' \subseteq free
  /\ \A b \in Blocks, s \in Slots : IndexOwns(b, s)' => IndexOwns(b, s)
  /\ \A v \in Workers, s \in Slots : DisplacedOwns(v, s)' => DisplacedOwns(v, s)
  /\ \A v \in Workers, j \in Idx, s \in Slots : OpOwns(v, j, s)' => OpOwns(v, j, s)

(* Slot t leaves the pool for op i of worker w.                            *)
Takes(w, i, t) ==
  /\ t \in free /\ free' = free \ {t}
  /\ \A b \in Blocks, s \in Slots : IndexOwns(b, s)' => IndexOwns(b, s)
  /\ \A v \in Workers, s \in Slots : DisplacedOwns(v, s)' => DisplacedOwns(v, s)
  /\ \A v \in Workers, j \in Idx, s \in Slots :
       OpOwns(v, j, s)' => OpOwns(v, j, s) \/ (v = w /\ j = i /\ s = t)

(* What op i of worker w had goes back to the pool.                        *)
Gives(w, i) ==
  /\ \A s \in free' : s \in free \/ OpOwns(w, i, s)
  /\ \A b \in Blocks, s \in Slots : IndexOwns(b, s)' => IndexOwns(b, s)
  /\ \A v \in Workers, s \in Slots : DisplacedOwns(v, s)' => DisplacedOwns(v, s)
  /\ \A v \in Workers, j \in Idx, s \in Slots :
       OpOwns(v, j, s)' => OpOwns(v, j, s) /\ (v # w \/ j # i)

(* What op i of worker w had goes to the entry of block b; what that entry *)
(* had becomes the worker's to release.                                    *)
Publishes(w, i, b) ==
  /\ free' \subseteq free
  /\ \A c \in Blocks, s \in Slots :
       IndexOwns(c, s)' => IF c = b THEN OpOwns(w, i, s) ELSE IndexOwns(c, s)
  /\ \A v \in Workers, s \in Slots :
       DisplacedOwns(v, s)' => IF v = w THEN IndexOwns(b, s) ELSE DisplacedOwns(v, s)
  /\ \A v \in Workers, j \in Idx, s \in Slots :
       OpOwns(v, j, s)' => OpOwns(v, j, s) /\ (v # w \/ j # i)

(* What worker w displaced goes back to the pool.                          *)
Releases(w) ==
  /\ \A s \in free' : s \in free \/ DisplacedOwns(w, s)
  /\ \A b \in Blocks, s \in Slots : IndexOwns(b, s)' => IndexOwns(b, s)
  /\ \A v \in Workers, s \in Slots : DisplacedOwns(v, s)' => DisplacedOwns(v, s) /\ v # w
  /\ \A v \in Workers, j \in Idx, s \in Slots : OpOwns(v, j, s)' => OpOwns(v, j, s)

-----------------------------------------------------------------------------
(* The steps that give no slot a new owner.                                *)

(* Ownership rests on the ops, the index, the pool, and on the entry a     *)
(* worker at a release label displaced.                                    *)
Holders == {"release", "trimRelease", "rmwRelease"}

-----------------------------------------------------------------------------
(* The steps that move a slot.                                             *)

(* The conjuncts of SlotOwnership for one slot: no two entries, ops or     *)
(* workers have it, no two of these kinds have it, and if it is free none  *)
(* has it.                                                                 *)
Single(s) ==
  /\ \A a, b \in Blocks : IndexOwns(a, s) /\ IndexOwns(b, s) => a = b
  /\ \A v, w \in Workers, i, j \in Idx :
       OpOwns(v, i, s) /\ OpOwns(w, j, s) => v = w /\ i = j
  /\ \A v, w \in Workers : DisplacedOwns(v, s) /\ DisplacedOwns(w, s) => v = w

Unshared(s) ==
  /\ \A b \in Blocks, w \in Workers : ~(IndexOwns(b, s) /\ DisplacedOwns(w, s))
  /\ \A b \in Blocks, w \in Workers, i \in Idx :
       ~(IndexOwns(b, s) /\ OpOwns(w, i, s))
  /\ \A v, w \in Workers, i \in Idx : ~(DisplacedOwns(v, s) /\ OpOwns(w, i, s))

Unfree(s) ==
  s \in free =>
    /\ \A b \in Blocks : ~IndexOwns(b, s)
    /\ \A w \in Workers : ~DisplacedOwns(w, s)
    /\ \A w \in Workers, i \in Idx : ~OpOwns(w, i, s)

(* What a publish leaves in the entry of block b and with the worker.      *)
Displaced(w, b, e, s, n) ==
  /\ index'[b].clen = n /\ index'[b].grain = s
  /\ \A c \in Blocks : c # b => index'[c] = index[c]
  /\ old'[w] = e
  /\ \A v \in Workers : v # w => old'[v] = old[v]

LEMMA Installed ==
  ASSUME TypeOK, NEW w \in Workers, NEW b \in Blocks, NEW e, NEW s, NEW n, NEW p,
         Install(w, b, e, s, n, p)
  PROVE  Displaced(w, b, e, s, n)
  <1>1. ent_make(s, n, e.gen + 1).clen = n /\ ent_make(s, n, e.gen + 1).grain = s
    BY Zenon DEF ent_make
  <1>2. /\ index' = [index EXCEPT ![b] = ent_make(s, n, e.gen + 1)]
        /\ old' = [old EXCEPT ![w] = e]
    BY Zenon DEF Install
  <1> QED
    BY <1>1, <1>2, Zenon DEF TypeOK, Displaced

-----------------------------------------------------------------------------
(* No slot of device memory is ever handed out twice, named by two index   *)
(* entries, or free while something owns it, for any number of workers,    *)
(* blocks, slots and stripes, any ops array and any faults of the copies:  *)
(* slot_alloc's result stays private to its op until wr_publish or         *)
(* rmw_block installs it, and each displaced slot is freed exactly once.   *)
THEOREM OwnershipCorrect == Spec => []SlotOwnership
  <1>Each.
    SlotOwnership <=> \A s \in Slots : Single(s) /\ Unshared(s) /\ Unfree(s)
    BY Zenon DEF SlotOwnership, Single, Unshared, Unfree
  <1>KeepsOwnership.
    ASSUME SlotOwnership, Keeps
    PROVE  SlotOwnership'
    <2> SUFFICES ASSUME NEW s \in Slots PROVE (Single(s) /\ Unshared(s) /\ Unfree(s))'
      BY Zenon DEF SlotOwnership, Single, Unshared, Unfree
    <2>1. Single(s) /\ Unshared(s) /\ Unfree(s)
      BY <1>KeepsOwnership, <1>Each, Zenon
    <2>2. Single(s)'
      BY <1>KeepsOwnership, <2>1, Zenon DEF Keeps, Single, Unshared, Unfree
    <2>3. Unshared(s)'
      BY <1>KeepsOwnership, <2>1, Zenon DEF Keeps, Single, Unshared, Unfree
    <2>4. Unfree(s)'
      BY <1>KeepsOwnership, <2>1, Zenon DEF Keeps, Single, Unshared, Unfree
    <2> QED
      BY <2>2, <2>3, <2>4, Zenon
  <1>TakesOwnership.
    ASSUME SlotOwnership, NEW w \in Workers, NEW i \in Idx, NEW t \in Slots, Takes(w, i, t)
    PROVE  SlotOwnership'
    <2> SUFFICES ASSUME NEW s \in Slots PROVE (Single(s) /\ Unshared(s) /\ Unfree(s))'
      BY Zenon DEF SlotOwnership, Single, Unshared, Unfree
    <2>1. Single(s) /\ Unshared(s) /\ Unfree(s)
      BY <1>TakesOwnership, <1>Each, Zenon
    <2>2. Single(s)'
      BY <1>TakesOwnership, <2>1, ZenonT(40) DEF Takes, Single, Unshared, Unfree
    <2>3. Unshared(s)'
      <3>1. CASE s = t
        <4>1. t \in free
          BY <1>TakesOwnership, Zenon DEF Takes
        <4>2. /\ \A b \in Blocks : ~IndexOwns(b, s)'
              /\ \A v \in Workers : ~DisplacedOwns(v, s)'
          BY <1>TakesOwnership, <2>1, <3>1, <4>1, Zenon DEF Takes, Unfree
        <4> QED
          BY <4>2, Zenon DEF Unshared
      <3>2. CASE s # t
        BY <1>TakesOwnership, <2>1, <3>2, Zenon DEF Takes, Unshared
      <3> QED
        BY <3>1, <3>2, Zenon
    <2>4. Unfree(s)'
      BY <1>TakesOwnership, <2>1, ZenonT(40) DEF Takes, Single, Unshared, Unfree
    <2> QED
      BY <2>2, <2>3, <2>4, Zenon
  <1>GivesOwnership.
    ASSUME SlotOwnership, NEW w \in Workers, NEW i \in Idx, Gives(w, i)
    PROVE  SlotOwnership'
    <2> SUFFICES ASSUME NEW s \in Slots PROVE (Single(s) /\ Unshared(s) /\ Unfree(s))'
      BY Zenon DEF SlotOwnership, Single, Unshared, Unfree
    <2>1. Single(s) /\ Unshared(s) /\ Unfree(s)
      BY <1>GivesOwnership, <1>Each, Zenon
    <2>2. Single(s)'
      BY <1>GivesOwnership, <2>1, Zenon DEF Gives, Single, Unshared, Unfree
    <2>3. Unshared(s)'
      BY <1>GivesOwnership, <2>1, Zenon DEF Gives, Single, Unshared, Unfree
    <2>4. Unfree(s)'
      BY <1>GivesOwnership, <2>1, Zenon DEF Gives, Single, Unshared, Unfree
    <2> QED
      BY <2>2, <2>3, <2>4, Zenon
  <1>PublishesOwnership.
    ASSUME SlotOwnership, NEW w \in Workers, NEW i \in Idx, NEW b \in Blocks,
           Publishes(w, i, b)
    PROVE  SlotOwnership'
    <2> SUFFICES ASSUME NEW s \in Slots PROVE (Single(s) /\ Unshared(s) /\ Unfree(s))'
      BY Zenon DEF SlotOwnership, Single, Unshared, Unfree
    <2>1. Single(s) /\ Unshared(s) /\ Unfree(s)
      BY <1>PublishesOwnership, <1>Each, Zenon
    <2>2. Single(s)'
      BY <1>PublishesOwnership, <2>1, ZenonT(40) DEF Publishes, Single, Unshared, Unfree
    <2>3. Unshared(s)'
      BY <1>PublishesOwnership, <2>1, ZenonT(40) DEF Publishes, Single, Unshared, Unfree
    <2>4. Unfree(s)'
      BY <1>PublishesOwnership, <2>1, Zenon DEF Publishes, Single, Unshared, Unfree
    <2> QED
      BY <2>2, <2>3, <2>4, Zenon
  <1>ReleasesOwnership.
    ASSUME SlotOwnership, NEW w \in Workers, Releases(w)
    PROVE  SlotOwnership'
    <2> SUFFICES ASSUME NEW s \in Slots PROVE (Single(s) /\ Unshared(s) /\ Unfree(s))'
      BY Zenon DEF SlotOwnership, Single, Unshared, Unfree
    <2>1. Single(s) /\ Unshared(s) /\ Unfree(s)
      BY <1>ReleasesOwnership, <1>Each, Zenon
    <2>2. Single(s)'
      BY <1>ReleasesOwnership, <2>1, ZenonT(40) DEF Releases, Single, Unshared, Unfree
    <2>3. Unshared(s)'
      BY <1>ReleasesOwnership, <2>1, ZenonT(40) DEF Releases, Single, Unshared, Unfree
    <2>4. Unfree(s)'
      BY <1>ReleasesOwnership, <2>1, Zenon DEF Releases, Single, Unshared, Unfree
    <2> QED
      BY <2>2, <2>3, <2>4, Zenon
  (* A step of worker w that leaves pool and index as they are.              *)
  <1>Quiet.
    ASSUME Typed, SlotOwnership, NEW w \in Workers, UNCHANGED <<index, free>>,
           pc'[w] \notin Holders,
           \A v \in Workers : v # w =>
             ops'[v] = ops[v] /\ old'[v] = old[v] /\ pc'[v] = pc[v],
           \A i \in Idx :
             ops'[w][i].cmd \in {"WRITE", "RMW"} /\ ops'[w][i].dma # 2 =>
               \/ ops'[w][i].grain = SLOT_NONE
               \/ /\ ops[w][i].cmd \in {"WRITE", "RMW"} /\ ops[w][i].dma # 2
                  /\ ops[w][i].grain = ops'[w][i].grain
    PROVE  SlotOwnership'
    <2> USE <1>Quiet
    <2>1. \A v \in Workers, j \in Idx, s \in Slots : OpOwns(v, j, s)' => OpOwns(v, j, s)
      <3> SUFFICES ASSUME NEW v \in Workers, NEW j \in Idx, NEW s \in Slots, OpOwns(v, j, s)'
                   PROVE  OpOwns(v, j, s)
        BY Zenon
      <3>1. CASE v # w
        BY <3>1, Zenon DEF OpOwns
      <3>2. CASE v = w
        <4>1. ops'[w][j].grain # SLOT_NONE
          BY <3>2, StoreAssumption, Zenon DEF OpOwns
        <4> QED
          BY <3>2, <4>1, Zenon DEF OpOwns
      <3> QED
        BY <3>1, <3>2, Zenon
    <2>2. \A v \in Workers, s \in Slots : DisplacedOwns(v, s)' => DisplacedOwns(v, s)
      BY Zenon DEF DisplacedOwns, Holders
    <2>3. \A b \in Blocks, s \in Slots : IndexOwns(b, s)' => IndexOwns(b, s)
      BY Zenon DEF IndexOwns
    <2> QED
      BY <2>1, <2>2, <2>3, <1>KeepsOwnership, Zenon DEF Keeps
  (* ... and its ops too.                                                    *)
  <1>QuietOps.
    ASSUME Typed, SlotOwnership, NEW w \in Workers, NEW l \in Labels \ Holders, NEW k,
           Goto(w, l, k), UNCHANGED <<index, free, ops>>,
           \A v \in Workers : v # w => old'[v] = old[v]
    PROVE  SlotOwnership'
    <2> USE <1>QuietOps
    <2>1. pc'[w] = l /\ \A v \in Workers : v # w => pc'[v] = pc[v]
      BY GotoEffect, Zenon DEF Typed
    <2> QED
      BY <2>1, <1>Quiet, Zenon
  (* ... or all but one of its ops, which is given no slot.                  *)
  <1>QuietOp.
    ASSUME Typed, SlotOwnership, NEW w \in Workers, NEW l \in Labels \ Holders, NEW k,
           NEW i \in Idx, NEW n,
           SetOp(w, i, n), Goto(w, l, k), UNCHANGED <<index, free>>,
           \A v \in Workers : v # w => old'[v] = old[v],
           n.cmd \in {"WRITE", "RMW"} /\ n.dma # 2 =>
             \/ n.grain = SLOT_NONE
             \/ /\ ops[w][i].cmd \in {"WRITE", "RMW"} /\ ops[w][i].dma # 2
                /\ ops[w][i].grain = n.grain
    PROVE  SlotOwnership'
    <2>0. TypeOK /\ SetOp(w, i, n) /\ Goto(w, l, k)
      BY <1>QuietOp, Zenon DEF Typed
    <2>1. pc'[w] = l /\ \A v \in Workers : v # w => pc'[v] = pc[v]
      BY <2>0, GotoEffect, Zenon
    <2>2. /\ ops'[w][i] = n
          /\ \A j \in Idx : j # i => ops'[w][j] = ops[w][j]
          /\ \A v \in Workers : v # w => ops'[v] = ops[v]
      BY <2>0, SetOpEffect, Zenon
    <2> USE <1>QuietOp
    <2>3. \A j \in Idx :
            ops'[w][j].cmd \in {"WRITE", "RMW"} /\ ops'[w][j].dma # 2 =>
              \/ ops'[w][j].grain = SLOT_NONE
              \/ /\ ops[w][j].cmd \in {"WRITE", "RMW"} /\ ops[w][j].dma # 2
                 /\ ops[w][j].grain = ops'[w][j].grain
      BY <2>2, Zenon
    <2> QED
      BY <2>1, <2>2, <2>3, <1>Quiet, Zenon
  <1>O_Control.
    ASSUME Typed, SlotOwnership, NEW w \in Workers,
           \/ EndPrepare(w) \/ EndAbort(w) \/ EndIssue(w) \/ EndFinish(w)
           \/ EndAgain(w) \/ EndLocked(w) \/ EndPublish(w) \/ EndTrim(w) \/ Synchronize(w)
           \/ RmwOut(w) \/ \E job \in Jobs : Admit(w, job)
    PROVE  SlotOwnership'
    <2> USE <1>O_Control
    <2> DEFINE Calm == {"piece", "abort", "issue", "sync", "finish", "again", "locked",
                        "publish"}
    <2>1. Calm \subseteq Labels \ Holders
      BY Zenon DEF Labels, Holders
    <2>2. /\ UNCHANGED <<index, free, ops, old>>
          /\ \E l \in Calm, k \in {1} : Goto(w, l, k)
      <3>1. CASE EndPrepare(w)
        BY <3>1, Zenon DEF EndPrepare, shared
      <3>2. CASE EndAbort(w)
        BY <3>2, Zenon DEF EndAbort, shared
      <3>3. CASE EndIssue(w)
        BY <3>3, Zenon DEF EndIssue, shared
      <3>4. CASE EndFinish(w)
        BY <3>4, Zenon DEF EndFinish, shared
      <3>5. CASE EndAgain(w)
        BY <3>5, Zenon DEF EndAgain, shared
      <3>6. CASE EndLocked(w)
        BY <3>6, Zenon DEF EndLocked, shared
      <3>7. CASE EndPublish(w)
        BY <3>7, Zenon DEF EndPublish, shared
      <3>8. CASE EndTrim(w)
        BY <3>8, Zenon DEF EndTrim, shared
      <3>9. CASE Synchronize(w)
        BY <3>9, Zenon DEF Synchronize
      <3>10. CASE RmwOut(w)
        BY <3>10, Zenon DEF RmwOut
      <3>11. CASE \E job \in Jobs : Admit(w, job)
        BY <3>11, Zenon DEF Admit, shared
      <3> QED
        BY <3>1, <3>2, <3>3, <3>4, <3>5, <3>6, <3>7, <3>8, <3>9, <3>10, <3>11, Zenon
    <2> QED
      BY <2>1, <2>2, <1>QuietOps, Zenon
  <1>O_Issue.
    ASSUME Typed, SlotOwnership, NEW w \in Workers, NEW i \in Idx,
           IssueRead(w, i) \/ IssueWrite(w, i) \/ IssueFails(w, i)
    PROVE  SlotOwnership'
    <2> USE <1>O_Issue
    <2>0. "issue" \in Labels \ Holders /\ ops[w][i] \in Blkop
      BY Zenon DEF Labels, Holders, Typed, TypeOK
    <2>1. CASE IssueRead(w, i)
      BY <2>0, <2>1, <1>QuietOps, Zenon DEF IssueRead, shared
    <2>2. CASE IssueWrite(w, i)
      BY <2>0, <2>2, <1>QuietOps, Zenon DEF IssueWrite
    <2>3. CASE IssueFails(w, i)
      <3>1. /\ SetOp(w, i, Refused(ops[w][i], "EIO")) /\ Goto(w, "issue", i + 1)
            /\ UNCHANGED <<index, free, old>> /\ ops[w][i].dma = 1
        BY <2>3, Zenon DEF IssueFails, Turn, Wants, shared
      <3>2. /\ Refused(ops[w][i], "EIO").cmd = ops[w][i].cmd
            /\ Refused(ops[w][i], "EIO").grain = ops[w][i].grain
        BY <2>0, RefusedOp, Zenon DEF Err
      <3> QED
        <4>1. PICK n : n = Refused(ops[w][i], "EIO")
          BY Zenon
        <4>2. n.cmd = ops[w][i].cmd /\ n.grain = ops[w][i].grain /\ ops[w][i].dma # 2
          BY <3>1, <3>2, <4>1
        <4> QED
          BY <2>0, <3>1, <4>1, <4>2, <1>QuietOp, Zenon
    <2> QED
      BY <2>1, <2>2, <2>3, Zenon
  (* An op that reads owns no slot, whatever becomes of it.                  *)
  <1>O_Read.
    ASSUME Typed, SlotOwnership, NEW w \in Workers, NEW i \in Idx,
           \/ rd_prepare(w, i) \/ rd_finish(w, i) \/ Resnapshot(w, i)
           \/ rd_block_locked(w, i)
    PROVE  SlotOwnership'
    <2> USE <1>O_Read
    <2> DEFINE o == ops[w][i]
               Calm == {"prepare", "finish", "again", "againIssue", "lockedCopy"}
    <2>0. TypeOK /\ o \in Blkop /\ Calm \subseteq Labels \ Holders
      BY Zenon DEF Labels, Holders, Typed, TypeOK
    <2>1. UNCHANGED <<index, free, old>> /\ o.cmd = "READ"
      BY Zenon DEF rd_prepare, rd_finish, Resnapshot, rd_block_locked, Turn, Wants, shared
    <2>2. \E l \in Calm, k \in {i, i + 1} : Goto(w, l, k)
      BY Zenon DEF rd_prepare, rd_finish, Resnapshot, rd_block_locked
    <2>3. Snapshot(o) \in Blkop /\ Snapshot(o).cmd = "READ"
      BY <2>0, <2>1, SnapshotOp, Zenon
    <2>4. UNCHANGED ops \/ \E n \in Blkop : SetOp(w, i, n) /\ n.cmd = "READ"
      <3>1. CASE SetOp(w, i, Snapshot(o))
        BY <2>3, <3>1, Zenon
      <3>2. CASE SetOp(w, i, Zeroed(o)) \/ SetOp(w, i, Zeroed(Snapshot(o)))
        <4>1. Zeroed(o) \in Blkop /\ Zeroed(o).cmd = "READ"
          BY <2>0, <2>1, ZeroedOp, Zenon
        <4>2. Zeroed(Snapshot(o)) \in Blkop /\ Zeroed(Snapshot(o)).cmd = "READ"
          BY <2>3, ZeroedOp, Zenon
        <4> QED
          BY <3>2, <4>1, <4>2, Zenon
      <3>3. CASE SetOp(w, i, Failed(Snapshot(o), "EIO"))
        BY <2>3, <3>3, FailedOp DEF Err
      <3>4. CASE SetOp(w, i, Took(o, cstage[w][i], o.ent.clen))
        <4>1. o.ent.clen \in Int /\ cstage[w][i] \in Stored
          <5>1. o.ent \in Ent
            BY <2>0, Zenon DEF Blkop
          <5>2. o.ent.clen \in Int
            BY <5>1, EntLen, Zenon
          <5>3. cstage \in [Workers -> [Idx -> Stored]]
            BY <2>0, Zenon DEF TypeOK
          <5> QED
            BY <5>2, <5>3, Zenon
        <4>2. /\ Took(o, cstage[w][i], o.ent.clen) \in Blkop
              /\ Took(o, cstage[w][i], o.ent.clen).cmd = "READ"
          BY <2>0, <2>1, <4>1, TookOp, Zenon
        <4> QED
          BY <3>4, <4>2, Zenon
      <3>5. CASE UNCHANGED ops
        BY <3>5, Zenon
      <3> QED
        BY <3>1, <3>2, <3>3, <3>4, <3>5, Zenon
        DEF rd_prepare, rd_finish, Resnapshot, rd_block_locked
    <2> HIDE DEF Calm
    <2> QED
      BY <2>0, <2>1, <2>2, <2>4, <1>QuietOp, <1>QuietOps, Zenon
  <1>O_ReadCopy.
    ASSUME Typed, SlotOwnership, NEW w \in Workers, Reissue(w) \/ LockedDone(w)
    PROVE  SlotOwnership'
    <2> USE <1>O_ReadCopy
    <2> DEFINE i == cur[w]
               o == ops[w][i]
    <2>0. /\ TypeOK /\ "again" \in Labels \ Holders /\ "locked" \in Labels \ Holders
          /\ i \in Idx /\ o.cmd = "READ" /\ o \in Blkop
      <3>1. TypeOK /\ CurShape(w) /\ pc[w] \in {"againIssue", "lockedCopy"}
        BY Zenon DEF Typed, Shape, Local, Reissue, LockedDone
      <3>2. i \in Idx /\ o.cmd = "READ"
        BY <3>1, Zenon DEF CurShape, HoldLabels
      <3> QED
        BY <3>1, <3>2, Zenon DEF TypeOK, Labels, Holders
    <2>1. UNCHANGED <<index, free, old>>
      BY Zenon DEF Reissue, LockedDone, shared
    <2>2. Goto(w, "again", i + 1) \/ Goto(w, "locked", i + 1)
      BY Zenon DEF Reissue, LockedDone
    <2>3. UNCHANGED ops \/ \E n \in Blkop : SetOp(w, i, n) /\ n.cmd = "READ"
      <3>1. CASE SetOp(w, i, Refused(o, "EIO"))
        <4>1. Refused(o, "EIO") \in Blkop /\ Refused(o, "EIO").cmd = "READ"
          BY <2>0, RefusedOp, Zenon DEF Err
        <4> QED
          BY <3>1, <4>1, Zenon
      <3>2. ASSUME NEW img \in Staged(w, i), SetOp(w, i, Took(o, img, o.ent.clen))
            PROVE  \E n \in Blkop : SetOp(w, i, n) /\ n.cmd = "READ"
        <4>1. o.ent.clen \in Int /\ img \in Stored
          BY <2>0, <3>2, EntLen, StagedType, Zenon DEF Blkop
        <4>2. Took(o, img, o.ent.clen) \in Blkop /\ Took(o, img, o.ent.clen).cmd = "READ"
          BY <2>0, <4>1, TookOp, Zenon
        <4> QED
          BY <3>2, <4>2, Zenon
      <3>3. CASE SetOp(w, i, o)
        BY <2>0, <3>3, Zenon
      <3>4. CASE UNCHANGED ops
        BY <3>4, Zenon
      <3> QED
        BY <3>1, <3>2, <3>3, <3>4, Zenon DEF Reissue, LockedDone
    <2> HIDE DEF i, o
    <2> QED
      BY <2>0, <2>1, <2>2, <2>3, <1>QuietOp, <1>QuietOps, Zenon
  (* A new piece, or an answered job, starts from ops that own nothing.      *)
  <1>O_Fresh.
    ASSUME Typed, SlotOwnership, NEW w \in Workers, StartPiece(w) \/ Reply(w)
    PROVE  SlotOwnership'
    <2> USE <1>O_Fresh
    <2> DEFINE Calm == {"idle", "trim", "rmw", "prepare"}
    <2>0. TypeOK /\ Calm \subseteq Labels \ Holders
      BY Zenon DEF Typed, Labels, Holders
    <2>1. UNCHANGED <<index, free, old>>
      BY Zenon DEF StartPiece, Reply, shared
    <2>2. \E l \in Calm : Goto(w, l, 1)
      BY Zenon DEF StartPiece, Reply, FirstLabel
    <2>3. /\ \A i \in Idx : ops'[w][i].grain = SLOT_NONE
          /\ \A v \in Workers : v # w => ops'[v] = ops[v]
      <3>1. \A a : blkop_set(a).grain = SLOT_NONE
        BY Zenon DEF blkop_set
      <3>2. CASE StartPiece(w)
        BY <2>0, <3>1, <3>2, Zenon DEF StartPiece, TypeOK
      <3>3. CASE Reply(w)
        BY <2>0, <3>1, <3>3, Zenon DEF Reply, TypeOK
      <3> QED
        BY <3>2, <3>3, Zenon
    <2>4. pc'[w] \notin Holders /\ \A v \in Workers : v # w => pc'[v] = pc[v]
      BY <2>0, <2>2, GotoEffect, Zenon
    <2> QED
      BY <2>1, <2>3, <2>4, <1>Quiet, Zenon
  <1>O_TrimCheck.
    ASSUME Typed, SlotOwnership, NEW w \in Workers, NEW i \in Idx, TrimCheck(w, i)
    PROVE  SlotOwnership'
    <2> USE <1>O_TrimCheck
    <2>0. ops[w][i] \in Blkop /\ {"trim", "trimLock"} \subseteq Labels \ Holders
      BY Zenon DEF Labels, Holders, Typed, TypeOK
    <2>1. UNCHANGED <<index, free, old>>
      BY Zenon DEF TrimCheck, shared
    <2>2. CASE UNCHANGED ops /\ Goto(w, "trimLock", i)
      BY <2>0, <2>1, <2>2, <1>QuietOps, Zenon
    <2>3. CASE SetOp(w, i, Done(ops[w][i])) /\ Goto(w, "trim", i + 1)
      BY <2>0, <2>1, <2>3, <1>QuietOp, DoneOp, Zenon
    <2> QED
      BY <2>2, <2>3, Zenon DEF TrimCheck
  (* From the pool to op i.                                                  *)
  <1>Reserve.
    ASSUME Typed, SlotOwnership, NEW w \in Workers, NEW l \in Labels \ Holders, NEW k,
           NEW i \in Idx, NEW n, NEW t \in free,
           SetOp(w, i, n), Goto(w, l, k), UNCHANGED index, free' = free \ {t},
           \A v \in Workers : v # w => old'[v] = old[v],
           n.grain = t
    PROVE  SlotOwnership'
    <2>0. TypeOK /\ SetOp(w, i, n) /\ Goto(w, l, k)
      BY <1>Reserve, Zenon DEF Typed
    <2>1. pc'[w] = l /\ \A v \in Workers : v # w => pc'[v] = pc[v]
      BY <2>0, GotoEffect, Zenon
    <2>2. /\ ops'[w][i] = n
          /\ \A j \in Idx : j # i => ops'[w][j] = ops[w][j]
          /\ \A v \in Workers : v # w => ops'[v] = ops[v]
      BY <2>0, SetOpEffect, Zenon
    <2> USE <1>Reserve
    <2>3. \A v \in Workers, j \in Idx, s \in Slots :
            OpOwns(v, j, s)' => OpOwns(v, j, s) \/ (v = w /\ j = i /\ s = t)
      <3> SUFFICES ASSUME NEW v \in Workers, NEW j \in Idx, NEW s \in Slots, OpOwns(v, j, s)',
                          ~(v = w /\ j = i)
                   PROVE  OpOwns(v, j, s)
        BY <2>2, ZenonT(40) DEF OpOwns
      <3>1. ops'[v][j] = ops[v][j]
        BY <2>2, Zenon
      <3> QED
        BY <3>1, Zenon DEF OpOwns
    <2>4. \A v \in Workers, s \in Slots : DisplacedOwns(v, s)' => DisplacedOwns(v, s)
      BY <2>1, Zenon DEF DisplacedOwns, Holders
    <2>5. \A b \in Blocks, s \in Slots : IndexOwns(b, s)' => IndexOwns(b, s)
      BY Zenon DEF IndexOwns
    <2>6. t \in Slots
      BY Zenon DEF Typed, TypeOK
    <2> QED
      BY <2>3, <2>4, <2>5, <2>6, <1>TakesOwnership, ZenonT(40) DEF Takes
  (* From op i to the pool.                                                  *)
  <1>GiveBack.
    ASSUME Typed, SlotOwnership, NEW w \in Workers, NEW l \in Labels \ Holders, NEW k,
           NEW i \in Idx, NEW n,
           SetOp(w, i, n), Goto(w, l, k), UNCHANGED index,
           free' \subseteq free \cup {ops[w][i].grain},
           \A v \in Workers : v # w => old'[v] = old[v],
           n.grain = SLOT_NONE,
           ops[w][i].cmd \in {"WRITE", "RMW"}, ops[w][i].dma # 2
    PROVE  SlotOwnership'
    <2>0. TypeOK /\ SetOp(w, i, n) /\ Goto(w, l, k)
      BY <1>GiveBack, Zenon DEF Typed
    <2>1. pc'[w] = l /\ \A v \in Workers : v # w => pc'[v] = pc[v]
      BY <2>0, GotoEffect, Zenon
    <2>2. /\ ops'[w][i] = n
          /\ \A j \in Idx : j # i => ops'[w][j] = ops[w][j]
          /\ \A v \in Workers : v # w => ops'[v] = ops[v]
      BY <2>0, SetOpEffect, Zenon
    <2> USE <1>GiveBack
    <2>3. \A v \in Workers, j \in Idx, s \in Slots :
            OpOwns(v, j, s)' => OpOwns(v, j, s) /\ (v # w \/ j # i)
      <3> SUFFICES ASSUME NEW v \in Workers, NEW j \in Idx, NEW s \in Slots, OpOwns(v, j, s)'
                   PROVE  OpOwns(v, j, s) /\ (v # w \/ j # i)
        BY Zenon
      <3>1. v # w \/ j # i
        BY <2>2, StoreAssumption, Zenon DEF OpOwns
      <3>2. ops'[v][j] = ops[v][j]
        BY <2>2, <3>1, Zenon
      <3> QED
        BY <3>1, <3>2, Zenon DEF OpOwns
    <2>4. \A v \in Workers, s \in Slots : DisplacedOwns(v, s)' => DisplacedOwns(v, s)
      BY <2>1, Zenon DEF DisplacedOwns, Holders
    <2>5. \A b \in Blocks, s \in Slots : IndexOwns(b, s)' => IndexOwns(b, s)
      BY Zenon DEF IndexOwns
    <2>6. \A s \in free' : s \in free \/ OpOwns(w, i, s)
      BY Zenon DEF OpOwns
    <2> QED
      BY <2>3, <2>4, <2>5, <2>6, <1>GivesOwnership, Zenon DEF Gives
  (* From op i to the entry of block b, and from that entry to the worker.   *)
  <1>Swap.
    ASSUME Typed, SlotOwnership, NEW w \in Workers, NEW l, NEW k,
           NEW i \in Idx, NEW n, NEW b \in Blocks,
           SetOp(w, i, n), Goto(w, l, k), UNCHANGED free, n.dma = 2,
           \A c \in Blocks : c # b => index'[c] = index[c],
           \A v \in Workers : v # w => old'[v] = old[v],
           old'[w] = index[b],
           index'[b].clen # 0 => /\ index'[b].grain = ops[w][i].grain
                                 /\ ops[w][i].cmd \in {"WRITE", "RMW"}
                                 /\ ops[w][i].dma # 2
    PROVE  SlotOwnership'
    <2>0. TypeOK /\ SetOp(w, i, n) /\ Goto(w, l, k)
      BY <1>Swap, Zenon DEF Typed
    <2>1. pc'[w] = l /\ \A v \in Workers : v # w => pc'[v] = pc[v]
      BY <2>0, GotoEffect, Zenon
    <2>2. /\ ops'[w][i] = n
          /\ \A j \in Idx : j # i => ops'[w][j] = ops[w][j]
          /\ \A v \in Workers : v # w => ops'[v] = ops[v]
      BY <2>0, SetOpEffect, Zenon
    <2> USE <1>Swap
    <2>3. \A v \in Workers, j \in Idx, s \in Slots :
            OpOwns(v, j, s)' => OpOwns(v, j, s) /\ (v # w \/ j # i)
      <3> SUFFICES ASSUME NEW v \in Workers, NEW j \in Idx, NEW s \in Slots, OpOwns(v, j, s)'
                   PROVE  OpOwns(v, j, s) /\ (v # w \/ j # i)
        BY Zenon
      <3>1. v # w \/ j # i
        BY <2>2, Zenon DEF OpOwns
      <3>2. ops'[v][j] = ops[v][j]
        BY <2>2, <3>1, Zenon
      <3> QED
        BY <3>1, <3>2, Zenon DEF OpOwns
    <2>4. \A v \in Workers, s \in Slots :
            DisplacedOwns(v, s)' => IF v = w THEN IndexOwns(b, s) ELSE DisplacedOwns(v, s)
      BY <2>1, ZenonT(40) DEF DisplacedOwns, IndexOwns
    <2>5. \A c \in Blocks, s \in Slots :
            IndexOwns(c, s)' => IF c = b THEN OpOwns(w, i, s) ELSE IndexOwns(c, s)
      BY Zenon DEF IndexOwns, OpOwns
    <2> QED
      BY <2>3, <2>4, <2>5, <1>PublishesOwnership, Zenon DEF Publishes
  (* From the worker to the pool.                                            *)
  <1>Release.
    ASSUME Typed, SlotOwnership, NEW w \in Workers, NEW l \in Labels \ Holders, NEW k, NEW n,
           Displace(w, n), Goto(w, l, k), UNCHANGED <<index, ops>>, pc[w] \in Holders
    PROVE  SlotOwnership'
    <2> USE <1>Release
    <2>1. pc'[w] = l /\ \A v \in Workers : v # w => pc'[v] = pc[v]
      BY GotoEffect, Zenon DEF Typed
    <2>2. /\ free' = IF old[w].clen = 0 THEN free ELSE free \cup {old[w].grain}
          /\ \A v \in Workers : v # w => old'[v] = old[v]
      BY Zenon DEF Displace, Typed, TypeOK
    <2>3. \A s \in free' : s \in free \/ DisplacedOwns(w, s)
      BY <2>2, Zenon DEF DisplacedOwns, Holders
    <2>4. \A v \in Workers, s \in Slots :
            DisplacedOwns(v, s)' => DisplacedOwns(v, s) /\ v # w
      BY <2>1, <2>2, Zenon DEF DisplacedOwns, Holders
    <2>5. \A v \in Workers, j \in Idx, s \in Slots : OpOwns(v, j, s)' => OpOwns(v, j, s)
      BY Zenon DEF OpOwns
    <2>6. \A b \in Blocks, s \in Slots : IndexOwns(b, s)' => IndexOwns(b, s)
      BY Zenon DEF IndexOwns
    <2> QED
      BY <2>3, <2>4, <2>5, <2>6, <1>ReleasesOwnership, Zenon DEF Releases
  <1>O_wr_prepare.
    ASSUME Typed, SlotOwnership, NEW w \in Workers, NEW i \in Idx, wr_prepare(w, i)
    PROVE  SlotOwnership'
    <2> USE <1>O_wr_prepare
    <2> DEFINE o == ops[w][i]
    <2>0. /\ o \in Blkop /\ "prepare" \in Labels \ Holders
          /\ o.cmd = "WRITE" /\ pc[w] = "prepare" /\ OpShape(w, i)
          /\ free \subseteq Slots /\ i \in Idx
      BY Zenon DEF Typed, TypeOK, Shape, Local, Labels, Holders, wr_prepare, Turn
    <2>1. UNCHANGED <<index, old>> /\ Goto(w, "prepare", i + 1)
      BY Zenon DEF wr_prepare
    <2>2. o.dma # 2
      BY <2>0, Zenon DEF OpShape
    <2>3. ASSUME NEW s \in free, SetOp(w, i, Reserved(o, s)), free' = free \ {s}
          PROVE  SlotOwnership'
      <3>1. Reserved(o, s).grain = s
        BY <2>0, ReservedOp, Zenon
      <3> HIDE DEF o
      <3> QED
        BY <2>0, <2>1, <2>3, <3>1, <1>Reserve, Zenon
    <2>4. CASE SetOp(w, i, Refused(o, "ENOSPC")) /\ UNCHANGED free
      <3>1. Refused(o, "ENOSPC").grain = o.grain /\ Refused(o, "ENOSPC").cmd = o.cmd
        BY <2>0, RefusedOp, Zenon DEF Err
      <3> QED
        BY <2>0, <2>1, <2>2, <2>4, <3>1, <1>QuietOp, Zenon
    <2> QED
      BY <2>3, <2>4, Zenon DEF wr_prepare
  <1>O_wr_abort.
    ASSUME Typed, SlotOwnership, NEW w \in Workers, NEW i \in Idx, wr_abort(w, i)
    PROVE  SlotOwnership'
    <2> USE <1>O_wr_abort
    <2> DEFINE o == ops[w][i]
    <2>0. /\ o \in Blkop /\ "abort" \in Labels \ Holders
          /\ o.cmd = "WRITE" /\ pc[w] = "abort" /\ OpShape(w, i)
      BY Zenon DEF Typed, TypeOK, Shape, Local, Labels, Holders, wr_abort, Turn, Wants
    <2>1. /\ UNCHANGED <<index, old>> /\ Goto(w, "abort", i + 1)
          /\ free' \subseteq free \cup {o.grain} /\ SetOp(w, i, GivenBack(o))
      BY Zenon DEF wr_abort
    <2>2. o.dma # 2
      BY <2>0, Zenon DEF OpShape
    <2>3. GivenBack(o).grain = SLOT_NONE
      BY <2>0, GivenBackOp, Zenon
    <2> QED
      BY <2>0, <2>1, <2>2, <2>3, <1>GiveBack, Zenon
  <1>O_wr_publish.
    ASSUME Typed, SlotOwnership, NEW w \in Workers, NEW i \in Idx, wr_publish(w, i)
    PROVE  SlotOwnership'
    <2> USE <1>O_wr_publish
    <2> DEFINE o == ops[w][i]
               b == o.blk
    <2>0. /\ TypeOK /\ o \in Blkop /\ b \in Blocks /\ i \in Int /\ cur[w] \in Int
          /\ o.cmd = "WRITE" /\ pc[w] = "publish" /\ cur[w] <= i /\ OpShape(w, i)
      <3>1. TypeOK /\ OpShape(w, i)
        BY Zenon DEF Typed, Shape, Local
      <3>2. o \in Blkop /\ cur[w] \in 1..(MaxOps + 1)
        BY <3>1, Zenon DEF TypeOK
      <3>3. b \in Blocks
        BY <3>2, Zenon DEF Blkop
      <3>4. i \in Int /\ cur[w] \in Int
        BY <3>2, StoreAssumption DEF Idx
      <3> QED
        BY <3>1, <3>2, <3>3, <3>4, Zenon DEF wr_publish, Turn, Wants
    <2>1. UNCHANGED free /\ Goto(w, "release", i) /\ SetOp(w, i, Done(o))
      BY Zenon DEF wr_publish
    <2>2. Install(w, b, index[b], o.grain, cstage[w][i].n, cstage[w][i].page)
      BY Zenon DEF wr_publish
    <2>3. o.dma # 2
      <3>1. ~(i < cur[w])
        BY <2>0
      <3> QED
        BY <2>0, <3>1, Zenon DEF OpShape
    <2>4. Done(o).dma = 2
      BY <2>0, DoneOp, Zenon
    <2>5. /\ index'[b].grain = o.grain
          /\ \A c \in Blocks : c # b => index'[c] = index[c]
          /\ old'[w] = index[b]
          /\ \A v \in Workers : v # w => old'[v] = old[v]
      <3>1. Displaced(w, b, index[b], o.grain, cstage[w][i].n)
        BY <2>0, <2>2, Installed, Zenon
      <3> QED
        BY <3>1, Zenon DEF Displaced
    <2> QED
      BY <2>0, <2>1, <2>3, <2>4, <2>5, <1>Swap, Zenon
  <1>O_TrimLock.
    ASSUME Typed, SlotOwnership, NEW w \in Workers, TrimLock(w)
    PROVE  SlotOwnership'
    <2> USE <1>O_TrimLock
    <2> DEFINE i == cur[w]
               o == ops[w][i]
               b == o.blk
    <2>0. TypeOK /\ i \in Idx /\ o \in Blkop /\ b \in Blocks
      <3>1. TypeOK /\ CurShape(w) /\ pc[w] = "trimLock"
        BY Zenon DEF Typed, Shape, Local, TrimLock
      <3> QED
        <4>1. i \in Idx
          BY <3>1, Zenon DEF CurShape
        <4>2. o \in Blkop
          BY <3>1, <4>1, Zenon DEF TypeOK
        <4> QED
          BY <3>1, <4>1, <4>2, Zenon DEF Blkop
    <2>1. UNCHANGED free /\ Goto(w, "trimRelease", i) /\ SetOp(w, i, Done(o))
      BY Zenon DEF TrimLock
    <2>2. /\ index'[b].clen = 0
          /\ \A c \in Blocks : c # b => index'[c] = index[c]
          /\ old'[w] = index[b]
          /\ \A v \in Workers : v # w => old'[v] = old[v]
      <3>1. CASE Install(w, b, index[b], SLOT_NONE, 0, ZeroPage)
        <4> DEFINE e == index[b]
        <4>1. Install(w, b, e, SLOT_NONE, 0, ZeroPage)
          BY <3>1, Zenon
        <4> HIDE DEF i, o, b, e
        <4>2. /\ index'[b].clen = 0 /\ old'[w] = e
              /\ \A c \in Blocks : c # b => index'[c] = index[c]
              /\ \A v \in Workers : v # w => old'[v] = old[v]
          <5>1. Displaced(w, b, e, SLOT_NONE, 0)
            BY <2>0, <4>1, Installed, Zenon
          <5> QED
            BY <5>1, Zenon DEF Displaced
        <4> QED
          BY <4>2, Zenon DEF e
      <3>2. CASE /\ index[b].clen = 0 /\ old' = [old EXCEPT ![w] = index[b]]
                 /\ UNCHANGED index
        BY <2>0, <3>2, Zenon DEF TypeOK
      <3> QED
        BY <3>1, <3>2, Zenon DEF TrimLock
    <2>3. Done(o).dma = 2
      BY <2>0, DoneOp, Zenon
    <2> QED
      BY <2>0, <2>1, <2>2, <2>3, <1>Swap, Zenon
  <1>O_Release.
    ASSUME Typed, SlotOwnership, NEW w \in Workers,
           wr_release(w) \/ TrimRelease(w) \/ RmwRelease(w)
    PROVE  SlotOwnership'
    <2> USE <1>O_Release
    <2>0. {"publish", "trim", "rmwOut"} \subseteq Labels \ Holders
      BY Zenon DEF Labels, Holders
    <2>1. CASE wr_release(w)
      BY <2>0, <2>1, <1>Release, Zenon DEF wr_release, Holders
    <2>2. CASE TrimRelease(w)
      BY <2>0, <2>2, <1>Release, Zenon DEF TrimRelease, Holders
    <2>3. CASE RmwRelease(w)
      BY <2>0, <2>3, <1>Release, Zenon DEF RmwRelease, Holders
    <2> QED
      BY <2>1, <2>2, <2>3, Zenon
  <1>O_RmwLock.
    ASSUME Typed, SlotOwnership, NEW w \in Workers, NEW i \in Idx, RmwLock(w, i)
    PROVE  SlotOwnership'
    <2> USE <1>O_RmwLock
    <2> DEFINE o == ops[w][i]
    <2>0. /\ TypeOK /\ o \in Blkop /\ {"rmwMerge", "rmwOut"} \subseteq Labels \ Holders
      BY Zenon DEF Typed, TypeOK, Labels, Holders
    <2>1. UNCHANGED <<index, free>> /\ \A v \in Workers : v # w => old'[v] = old[v]
      BY <2>0, Zenon DEF RmwLock, TypeOK
    <2>2. CASE UNCHANGED ops /\ Goto(w, "rmwMerge", i)
      BY <2>0, <2>1, <2>2, <1>QuietOps, Zenon
    <2>3. CASE SetOp(w, i, Failed(o, "EIO")) /\ Goto(w, "rmwOut", i)
      <3>1. /\ Failed(o, "EIO").cmd = o.cmd /\ Failed(o, "EIO").dma = o.dma
            /\ Failed(o, "EIO").grain = o.grain
        BY <2>0, FailedOp, Zenon DEF Err
      <3> QED
        BY <2>0, <2>1, <2>3, <3>1, <1>QuietOp, Zenon
    <2> QED
      BY <2>2, <2>3, Zenon DEF RmwLock
  <1>O_RmwMerge.
    ASSUME Typed, SlotOwnership, NEW w \in Workers, RmwMerge(w)
    PROVE  SlotOwnership'
    <2> USE <1>O_RmwMerge
    <2> DEFINE i == cur[w]
               o == ops[w][i]
    <2>0. /\ TypeOK /\ i \in Idx /\ o \in Blkop /\ free \subseteq Slots
          /\ {"rmwCopy", "rmwOut"} \subseteq Labels \ Holders
      <3>1. TypeOK /\ RmwAt(w)
        BY RmwHolds, Zenon DEF Typed, RmwMerge
      <3> QED
        BY <3>1, Zenon DEF RmwAt, TypeOK, Labels, Holders
    <2>1. UNCHANGED index /\ \A v \in Workers : v # w => old'[v] = old[v]
      BY <2>0, Zenon DEF RmwMerge, TypeOK
    <2>2. ASSUME NEW s \in free, SetOp(w, i, Holding(o, s)), free' = free \ {s},
                 Goto(w, "rmwCopy", i)
          PROVE  SlotOwnership'
      <3>1. Holding(o, s).grain = s
        BY <2>0, HoldingOp, Zenon
      <3> HIDE DEF i, o
      <3> QED
        BY <2>0, <2>1, <2>2, <3>1, <1>Reserve, Zenon
    <2>3. ASSUME NEW e \in Err, SetOp(w, i, Failed(o, e)), UNCHANGED free,
                 Goto(w, "rmwOut", i)
          PROVE  SlotOwnership'
      <3>1. Failed(o, e).cmd = o.cmd /\ Failed(o, e).dma = o.dma /\ Failed(o, e).grain = o.grain
        BY <2>0, FailedOp, Zenon
      <3> QED
        BY <2>0, <2>1, <2>3, <3>1, <1>QuietOp, Zenon
    <2> QED
      BY <2>2, <2>3, Zenon DEF RmwMerge, Err
  <1>O_RmwCopy.
    ASSUME Typed, SlotOwnership, NEW w \in Workers, RmwCopy(w)
    PROVE  SlotOwnership'
    <2> USE <1>O_RmwCopy
    <2> DEFINE i == cur[w]
               o == ops[w][i]
    <2>0. /\ TypeOK /\ i \in Idx /\ o \in Blkop /\ o.cmd = "RMW"
          /\ {"rmwStore", "rmwOut"} \subseteq Labels \ Holders
      <3>1. TypeOK /\ RmwAt(w)
        BY RmwHolds, Zenon DEF Typed, RmwCopy
      <3> QED
        BY <3>1, Zenon DEF RmwAt, Labels, Holders
    <2>1. UNCHANGED index /\ \A v \in Workers : v # w => old'[v] = old[v]
      BY <2>0, Zenon DEF RmwCopy, TypeOK
    <2>2. o.dma # 2
      <3>1. OpShape(w, i) /\ pc[w] = "rmwCopy"
        BY <2>0, Zenon DEF Typed, Shape, Local, RmwCopy
      <3> QED
        BY <2>0, <3>1, Zenon DEF OpShape
    <2>3. CASE UNCHANGED <<free, ops>> /\ Goto(w, "rmwStore", i)
      BY <2>0, <2>1, <2>3, <1>QuietOps, Zenon
    <2>4. CASE /\ free' = free \cup {o.grain} /\ Goto(w, "rmwOut", i)
               /\ SetOp(w, i, Failed(GivenBack(o), "EIO"))
      <3>1. Failed(GivenBack(o), "EIO").grain = SLOT_NONE
        <4>1. GivenBack(o) \in Blkop /\ GivenBack(o).grain = SLOT_NONE /\ "EIO" \in Err
          BY <2>0, GivenBackOp, Zenon DEF Err
        <4> QED
          BY <4>1, FailedOp, Zenon
      <3> HIDE DEF i
      <3> QED
        BY <2>0, <2>1, <2>2, <2>4, <3>1, <1>GiveBack, Zenon
    <2> QED
      BY <2>3, <2>4, Zenon DEF RmwCopy
  <1>O_RmwStore.
    ASSUME Typed, SlotOwnership, NEW w \in Workers, RmwStore(w)
    PROVE  SlotOwnership'
    <2> USE <1>O_RmwStore
    <2> DEFINE i == cur[w]
               o == ops[w][i]
               b == o.blk
    <2>0. TypeOK /\ i \in Idx /\ o \in Blkop /\ o.cmd = "RMW" /\ b \in Blocks
      <3>1. TypeOK /\ RmwAt(w)
        BY RmwHolds, Zenon DEF Typed, RmwStore
      <3> QED
        BY <3>1, Zenon DEF RmwAt
    <2>1. UNCHANGED free /\ Goto(w, "rmwRelease", i) /\ SetOp(w, i, Done(o))
      BY Zenon DEF RmwStore
    <2>2. Install(w, b, old[w], o.grain, cstage[w][i].n, cstage[w][i].page)
      BY Zenon DEF RmwStore
    <2>3. o.dma # 2 /\ old[w] = index[b]
      <3>1. OpShape(w, i) /\ CurShape(w) /\ pc[w] = "rmwStore"
        BY <2>0, Zenon DEF Typed, Shape, Local, RmwStore
      <3> QED
        BY <2>0, <3>1, Zenon DEF OpShape, CurShape
    <2>4. Done(o).dma = 2
      BY <2>0, DoneOp, Zenon
    <2>5. /\ index'[b].grain = o.grain
          /\ \A c \in Blocks : c # b => index'[c] = index[c]
          /\ old'[w] = index[b]
          /\ \A v \in Workers : v # w => old'[v] = old[v]
      <3>1. TypeOK /\ b \in Blocks /\ old[w] = index[b]
        BY <2>0, <2>3, Zenon
      <3> DEFINE e == old[w]
                 s == o.grain
                 n == cstage[w][i].n
                 p == cstage[w][i].page
      <3>2. Install(w, b, e, s, n, p)
        BY <2>2, Zenon
      <3> HIDE DEF i, o, b, e, s, n, p
      <3>3. /\ index'[b].grain = s /\ old'[w] = e
            /\ \A c \in Blocks : c # b => index'[c] = index[c]
            /\ \A v \in Workers : v # w => old'[v] = old[v]
        <4>1. Displaced(w, b, e, s, n)
          BY <3>1, <3>2, Installed, Zenon
        <4> QED
          BY <4>1, Zenon DEF Displaced
      <3> QED
        BY <3>1, <3>3, Zenon DEF e, s
    <2> QED
      BY <2>0, <2>1, <2>3, <2>4, <2>5, <1>Swap, Zenon
  <1>InitOwnership.
    Init => SlotOwnership
    <2> SUFFICES ASSUME Init PROVE SlotOwnership
      BY Zenon
    <2>1. blkop_set(NoAsk).cmd = "none"
      BY Zenon DEF blkop_set, NoAsk
    <2>2. /\ \A b \in Blocks, s \in Slots : ~IndexOwns(b, s)
          /\ \A w \in Workers, s \in Slots : ~DisplacedOwns(w, s)
          /\ \A w \in Workers, i \in Idx, s \in Slots : ~OpOwns(w, i, s)
      BY <2>1, UnwrittenEnt, Zenon DEF Init, IndexOwns, DisplacedOwns, OpOwns
    <2> QED
      BY <2>2, Zenon DEF SlotOwnership
  <1>NextOwnership.
    ASSUME Typed, SlotOwnership, [Next]_vars
    PROVE  SlotOwnership'
    <2> USE <1>NextOwnership
    <2>1. CASE UNCHANGED vars
      <3>1. UNCHANGED <<index, free, ops, old, pc>>
        BY <2>1, Zenon DEF vars, shared, worker
      <3> QED
        <4>1. Keeps
          BY <3>1, Zenon DEF Keeps, IndexOwns, OpOwns, DisplacedOwns
        <4> QED
          BY <4>1, <1>KeepsOwnership, Zenon
    <2>2. ASSUME NEW w \in Workers, (\E job \in Jobs : Admit(w, job)) \/ Work(w)
          PROVE  SlotOwnership'
      <3>1. CASE Batch(w)
        BY <3>1, <1>O_Control, <1>O_Issue, <1>O_Read, <1>O_ReadCopy, <1>O_wr_prepare, <1>O_wr_abort,
           <1>O_wr_publish, <1>O_Release, Zenon DEF Batch
      <3>2. CASE Trim(w)
        BY <3>2, <1>O_Control, <1>O_TrimCheck, <1>O_TrimLock, <1>O_Release, Zenon DEF Trim
      <3>3. CASE Rmw(w)
        BY <3>3, <1>O_Control, <1>O_RmwLock, <1>O_RmwMerge, <1>O_RmwCopy, <1>O_RmwStore,
           <1>O_Release, Zenon
        DEF Rmw
      <3> QED
        BY <2>2, <3>1, <3>2, <3>3, <1>O_Control, <1>O_Fresh, Zenon DEF Work
    <2> QED
      BY <2>1, <2>2, Zenon DEF Next
  <1>1. Init => SlotOwnership
    BY <1>InitOwnership, Zenon
  <1>2. Typed /\ SlotOwnership /\ [Next]_vars => SlotOwnership'
    BY <1>NextOwnership, Zenon
  <1> QED
    BY <1>1, <1>2, AlwaysTyped, PTL DEF Spec

-----------------------------------------------------------------------------
(* No slot is lost, as long as no copy into device memory fails to start.  *)

(* Op i of worker w owns no slot ...                                       *)
Empty(w, i) ==
  LET o == ops[w][i] IN
  o.cmd \in {"WRITE", "RMW"} /\ o.dma # 2 => o.grain = SLOT_NONE

(* ... and need not: it has nothing yet, or has given away what it had.    *)
Settled(w, i) ==
  \/ pc[w] \in {"idle", "piece", "rmw", "rmwMerge", "rmwRelease", "rmwOut"}
  \/ pc[w] = "prepare" /\ cur[w] <= i
  \/ pc[w] = "publish" /\ i < cur[w]
  \/ pc[w] = "release" /\ i <= cur[w]
  \/ pc[w] \in {"rmwCopy", "rmwStore"} /\ i # cur[w]

(* Phase A has yet to look at op i.                                        *)
Ahead(w, i) == pc[w] = "prepare" /\ cur[w] <= i

(* A write that failed has no slot either.                                 *)
Tidy(w) ==
  \A i \in Idx :
    /\ Settled(w, i) => Empty(w, i)
    /\ Ahead(w, i) => ops[w][i].err = "ok"
    /\ ops[w][i].cmd = "WRITE" /\ ops[w][i].err # "ok" => ops[w][i].grain = SLOT_NONE

NoneLost == (\A w \in Workers : Tidy(w)) /\ NoSlotLost

Accounted(s) ==
  \/ s \in free
  \/ \E b \in Blocks : IndexOwns(b, s)
  \/ \E w \in Workers : DisplacedOwns(w, s) \/ \E i \in Idx : OpOwns(w, i, s)

(* Only the ops of the worker that moves need looking at.                  *)
Others(w) ==
  \A v \in Workers : v # w =>
    ops'[v] = ops[v] /\ old'[v] = old[v] /\ pc'[v] = pc[v] /\ cur'[v] = cur[v]

(* What a step that replaces one op does to the worker and the others.     *)
OldKept(w) == \A v \in Workers : v # w => old'[v] = old[v]

Rewrites(w, i, n, l, k) ==
  /\ Others(w) /\ pc'[w] = l /\ cur'[w] = k
  /\ ops'[w][i] = n /\ \A j \in Idx : j # i => ops'[w][j] = ops[w][j]

-----------------------------------------------------------------------------
(* The steps that move no slot.                                            *)

(* Labels at which no op is settled when the loop begins.                  *)
Open == {"abort", "issue", "sync", "finish", "again", "againIssue", "locked",
         "lockedCopy", "trim", "trimLock"}

-----------------------------------------------------------------------------
LEMMA InitNoneLost == Init => NoneLost
  <1> SUFFICES ASSUME Init PROVE NoneLost
    BY Zenon
  <1>1. /\ blkop_set(NoAsk).cmd = "none" /\ blkop_set(NoAsk).err = "ok"
    BY Zenon DEF blkop_set, NoAsk
  <1>2. \A w \in Workers, i \in Idx : ops[w][i] = blkop_set(NoAsk)
    BY Zenon DEF Init
  <1>3. \A w \in Workers : Tidy(w)
    BY <1>1, <1>2, Zenon DEF Tidy, Empty
  <1> QED
    BY <1>3, Zenon DEF NoneLost, NoSlotLost, Init

LEMMA NoneLostKept ==
  "HtoD" \notin Faults /\ Typed /\ NoneLost /\ [Next]_vars => NoneLost'
  <1>TidyOn.
    ASSUME NEW w \in Workers, Others(w), \A v \in Workers : Tidy(v), Tidy(w)'
    PROVE  \A v \in Workers : Tidy(v)'
    <2> USE <1>TidyOn
    <2>1. SUFFICES ASSUME NEW v \in Workers, v # w PROVE Tidy(v)'
      BY Zenon
    <2>2. ops'[v] = ops[v] /\ pc'[v] = pc[v] /\ cur'[v] = cur[v] /\ Tidy(v)
      BY <2>1, Zenon DEF Others
    <2> QED
      BY <2>2, Zenon DEF Tidy, Settled, Ahead, Empty
  (* What a step that replaces one op does.                                  *)
  <1>OneOpStep.
    ASSUME Typed, NEW w \in Workers, NEW i \in Idx, NEW n, NEW l, NEW k,
           SetOp(w, i, n), Goto(w, l, k), OldKept(w)
    PROVE  Rewrites(w, i, n, l, k)
    <2> USE <1>OneOpStep
    <2>1. /\ ops'[w][i] = n
          /\ \A j \in Idx : j # i => ops'[w][j] = ops[w][j]
          /\ \A v \in Workers : v # w => ops'[v] = ops[v]
      BY SetOpEffect, Zenon DEF Typed
    <2>2. /\ pc'[w] = l /\ cur'[w] = k
          /\ \A v \in Workers : v # w => pc'[v] = pc[v] /\ cur'[v] = cur[v]
      BY GotoEffect, Zenon DEF Typed
    <2> QED
      BY <2>1, <2>2, Zenon DEF Others, OldKept, Rewrites
  (* What an owner of a slot hands over.                                     *)
  <1>OthersOwn.
    ASSUME NEW w \in Workers, Others(w)
    PROVE  \A v \in Workers, s \in Slots : v # w =>
             /\ DisplacedOwns(v, s) => DisplacedOwns(v, s)'
             /\ \A i \in Idx : OpOwns(v, i, s) => OpOwns(v, i, s)'
    BY <1>OthersOwn, Zenon DEF Others, DisplacedOwns, OpOwns
  <1>AllAccounted.
    ASSUME NoSlotLost, NEW w \in Workers, Others(w),
           \A s \in free : Accounted(s)',
           \A s \in Slots, b \in Blocks : IndexOwns(b, s) => Accounted(s)',
           \A s \in Slots : DisplacedOwns(w, s) => Accounted(s)',
           \A s \in Slots, i \in Idx : OpOwns(w, i, s) => Accounted(s)'
    PROVE  NoSlotLost'
    <2> USE <1>AllAccounted
    <2>1. SUFFICES ASSUME NEW s \in Slots PROVE Accounted(s)'
      BY Zenon DEF NoSlotLost, Accounted
    <2>2. CASE s \in free \/ \E b \in Blocks : IndexOwns(b, s)
      BY <2>2, Zenon
    <2>3. ASSUME NEW v \in Workers, DisplacedOwns(v, s) \/ \E i \in Idx : OpOwns(v, i, s)
          PROVE  Accounted(s)'
      <3>1. CASE v = w
        BY <2>3, <3>1, Zenon
      <3>2. CASE v # w
        BY <2>3, <3>2, <1>OthersOwn, Zenon DEF Accounted
      <3> QED
        BY <3>1, <3>2, Zenon
    <2> QED
      BY <2>2, <2>3, Zenon DEF NoSlotLost
  (* The worker keeps what it has.                                           *)
  <1>Steady.
    ASSUME NoneLost, NEW w \in Workers, Others(w), UNCHANGED <<index, free>>,
           pc[w] \notin Holders, Tidy(w)',
           \A i \in Idx, s \in Slots : OpOwns(w, i, s) => OpOwns(w, i, s)'
    PROVE  NoneLost'
    <2> USE <1>Steady
    <2>1. \A s \in Slots, b \in Blocks : IndexOwns(b, s) => Accounted(s)'
      BY Zenon DEF IndexOwns, Accounted
    <2>2. \A s \in Slots : ~DisplacedOwns(w, s)
      BY Zenon DEF DisplacedOwns, Holders
    <2>3. \A s \in Slots, i \in Idx : OpOwns(w, i, s) => Accounted(s)'
      BY Zenon DEF Accounted
    <2>4. \A s \in free : Accounted(s)'
      BY Zenon DEF Accounted
    <2> QED
      BY <2>1, <2>2, <2>3, <2>4, <1>AllAccounted, <1>TidyOn, Zenon DEF NoneLost
  (* Op i takes a slot from the pool.                                        *)
  <1>Reserving.
    ASSUME NoneLost, NEW w \in Workers, Others(w), UNCHANGED index,
           pc[w] \notin Holders, Tidy(w)', NEW i \in Idx, NEW t, free' = free \ {t},
           OpOwns(w, i, t)', \A s \in Slots : ~OpOwns(w, i, s),
           \A j \in Idx, s \in Slots : j # i /\ OpOwns(w, j, s) => OpOwns(w, j, s)'
    PROVE  NoneLost'
    <2> USE <1>Reserving
    <2>1. \A s \in Slots, b \in Blocks : IndexOwns(b, s) => Accounted(s)'
      BY Zenon DEF IndexOwns, Accounted
    <2>2. \A s \in Slots : ~DisplacedOwns(w, s)
      BY Zenon DEF DisplacedOwns, Holders
    <2>3. \A s \in Slots, j \in Idx : OpOwns(w, j, s) => Accounted(s)'
      BY Zenon DEF Accounted
    <2>4. \A s \in free : Accounted(s)'
      BY Zenon DEF Accounted
    <2> QED
      BY <2>1, <2>2, <2>3, <2>4, <1>AllAccounted, <1>TidyOn, Zenon DEF NoneLost
  (* Op i gives its slot back.                                               *)
  <1>Returning.
    ASSUME NoneLost, NEW w \in Workers, Others(w), UNCHANGED index,
           pc[w] \notin Holders, Tidy(w)', NEW i \in Idx, free \subseteq free',
           \A s \in Slots : OpOwns(w, i, s) => s \in free',
           \A j \in Idx, s \in Slots : j # i /\ OpOwns(w, j, s) => OpOwns(w, j, s)'
    PROVE  NoneLost'
    <2> USE <1>Returning
    <2>1. \A s \in Slots, b \in Blocks : IndexOwns(b, s) => Accounted(s)'
      BY Zenon DEF IndexOwns, Accounted
    <2>2. \A s \in Slots : ~DisplacedOwns(w, s)
      BY Zenon DEF DisplacedOwns, Holders
    <2>3. \A s \in Slots, j \in Idx : OpOwns(w, j, s) => Accounted(s)'
      BY Zenon DEF Accounted
    <2>4. \A s \in free : Accounted(s)'
      BY Zenon DEF Accounted
    <2> QED
      BY <2>1, <2>2, <2>3, <2>4, <1>AllAccounted, <1>TidyOn, Zenon DEF NoneLost
  (* The entry of block b takes over from op i, the worker from the entry.   *)
  <1>Installing.
    ASSUME NoneLost, NEW w \in Workers, Others(w), UNCHANGED free,
           pc[w] \notin Holders, pc'[w] \in Holders, Tidy(w)',
           NEW i \in Idx, NEW b \in Blocks,
           \A c \in Blocks : c # b => index'[c] = index[c],
           old'[w] = index[b],
           \A s \in Slots : OpOwns(w, i, s) => index'[b].clen # 0 /\ index'[b].grain = s,
           \A j \in Idx, s \in Slots : j # i /\ OpOwns(w, j, s) => OpOwns(w, j, s)'
    PROVE  NoneLost'
    <2> USE <1>Installing
    <2>1. ASSUME NEW s \in Slots, NEW c \in Blocks, IndexOwns(c, s)
          PROVE  Accounted(s)'
      <3>1. CASE c = b
        <4>1. DisplacedOwns(w, s)'
          BY <2>1, <3>1, Zenon DEF IndexOwns, DisplacedOwns, Holders
        <4> QED
          BY <4>1, Zenon DEF Accounted
      <3>2. CASE c # b
        <4>1. IndexOwns(c, s)'
          BY <2>1, <3>2, Zenon DEF IndexOwns
        <4> QED
          BY <4>1, Zenon DEF Accounted
      <3> QED
        BY <3>1, <3>2, Zenon
    <2>2. \A s \in Slots : ~DisplacedOwns(w, s)
      BY Zenon DEF DisplacedOwns, Holders
    <2>3. ASSUME NEW s \in Slots, NEW j \in Idx, OpOwns(w, j, s)
          PROVE  Accounted(s)'
      <3>1. CASE j = i
        <4>1. IndexOwns(b, s)'
          BY <2>3, <3>1, Zenon DEF IndexOwns
        <4> QED
          BY <4>1, Zenon DEF Accounted
      <3>2. CASE j # i
        BY <2>3, <3>2, Zenon DEF Accounted
      <3> QED
        BY <3>1, <3>2, Zenon
    <2>4. \A s \in free : Accounted(s)'
      BY Zenon DEF Accounted
    <2> QED
      BY <2>1, <2>2, <2>3, <2>4, <1>AllAccounted, <1>TidyOn, Zenon DEF NoneLost
  (* The worker releases what it displaced.                                  *)
  <1>Releasing.
    ASSUME NoneLost, NEW w \in Workers, Others(w), UNCHANGED <<index, ops>>,
           Tidy(w)',
           free' = IF old[w].clen = 0 THEN free ELSE free \cup {old[w].grain}
    PROVE  NoneLost'
    <2> USE <1>Releasing
    <2>1. \A s \in Slots, b \in Blocks : IndexOwns(b, s) => Accounted(s)'
      BY Zenon DEF IndexOwns, Accounted
    <2>2. \A s \in Slots : DisplacedOwns(w, s) => Accounted(s)'
      BY Zenon DEF DisplacedOwns, Accounted
    <2>3. \A s \in Slots, j \in Idx : OpOwns(w, j, s) => Accounted(s)'
      BY Zenon DEF Accounted, OpOwns
    <2>4. \A s \in free : Accounted(s)'
      BY Zenon DEF Accounted
    <2> QED
      BY <2>1, <2>2, <2>3, <2>4, <1>AllAccounted, <1>TidyOn, Zenon DEF NoneLost
  <1>Staying.
    ASSUME Typed, NoneLost, NEW w \in Workers, NEW l, NEW k, Goto(w, l, k),
           UNCHANGED <<index, free, ops>>, \A v \in Workers : v # w => old'[v] = old[v],
           pc[w] \notin Holders, l # "prepare",
           \A i \in Idx : Settled(w, i)' => Empty(w, i)
    PROVE  NoneLost'
    <2> USE <1>Staying
    <2>1. /\ pc'[w] = l /\ cur'[w] = k
          /\ \A v \in Workers : v # w => pc'[v] = pc[v] /\ cur'[v] = cur[v]
      BY GotoEffect, Zenon DEF Typed
    <2>2. Others(w)
      BY <2>1, Zenon DEF Others
    <2>3. Tidy(w)'
      BY <2>1, Zenon DEF NoneLost, Tidy, Empty, Ahead
    <2>4. \A i \in Idx, s \in Slots : OpOwns(w, i, s) => OpOwns(w, i, s)'
      BY Zenon DEF OpOwns
    <2> QED
      BY <2>2, <2>3, <2>4, <1>Steady, Zenon
  (* What phase A has yet to look at once it has looked at op i.             *)
  <1>AheadNext.
    ASSUME Typed, NEW w \in Workers, NEW i \in Idx, NEW l, NEW k,
           pc'[w] = l, cur'[w] = k, l = "prepare" => Ahead(w, i) /\ k = i + 1,
           NEW j \in Idx, Ahead(w, j)'
    PROVE  j # i /\ Ahead(w, j)
    <2> USE <1>AheadNext
    <2>1. cur[w] \in Int /\ i \in Int /\ j \in Int
      BY IdxInt, CurInt, Zenon DEF Typed
    <2>2. Ahead(w, i) /\ i + 1 <= j
      BY Zenon DEF Ahead
    <2> QED
      BY <2>1, <2>2 DEF Ahead
  (* ... though one op changes otherwise.                                    *)
  <1>StayingOp.
    ASSUME Typed, NoneLost, NEW w \in Workers, NEW i \in Idx, NEW n, NEW l, NEW k,
           SetOp(w, i, n), Goto(w, l, k), UNCHANGED <<index, free>>,
           \A v \in Workers : v # w => old'[v] = old[v],
           pc[w] \notin Holders,
           n.cmd = ops[w][i].cmd,
           n.cmd \in {"WRITE", "RMW"} =>
             n.grain = ops[w][i].grain /\ n.dma # 2 /\ ops[w][i].dma # 2,
           n.cmd = "WRITE" /\ n.err # "ok" => n.grain = SLOT_NONE,
           l = "prepare" => Ahead(w, i) /\ k = i + 1,
           \A j \in Idx : Settled(w, j)' => Empty(w, j)
    PROVE  NoneLost'
    <2> USE <1>StayingOp
    <2>1. /\ pc'[w] = l /\ cur'[w] = k
          /\ \A v \in Workers : v # w => pc'[v] = pc[v] /\ cur'[v] = cur[v]
      BY GotoEffect, Zenon DEF Typed
    <2>2. /\ ops'[w][i] = n
          /\ \A j \in Idx : j # i => ops'[w][j] = ops[w][j]
          /\ \A v \in Workers : v # w => ops'[v] = ops[v]
      BY SetOpEffect, Zenon DEF Typed
    <2>3. Others(w)
      BY <2>1, <2>2, Zenon DEF Others
    <2>4. ASSUME NEW j \in Idx
          PROVE  /\ Settled(w, j)' => Empty(w, j)'
                 /\ Ahead(w, j)' => ops'[w][j].err = "ok"
                 /\ ops'[w][j].cmd = "WRITE" /\ ops'[w][j].err # "ok"
                      => ops'[w][j].grain = SLOT_NONE
      <3>0. Ahead(w, j)' => j # i /\ Ahead(w, j)
        BY <2>1, <1>AheadNext, Zenon
      <3>1. CASE j = i
        <4>1. Settled(w, i)' => Empty(w, i)'
          BY <2>2, Zenon DEF Empty
        <4> QED
          BY <2>2, <3>0, <3>1, <4>1, Zenon
      <3>2. CASE j # i
        <4>1. ops'[w][j] = ops[w][j] /\ Tidy(w)
          BY <2>2, <3>2, Zenon DEF NoneLost
        <4>2. Settled(w, j)' => Empty(w, j)'
          BY <4>1, Zenon DEF Empty
        <4> QED
          BY <3>0, <4>1, <4>2, Zenon DEF Tidy
      <3> QED
        BY <3>1, <3>2, Zenon
    <2>5. ASSUME NEW j \in Idx, NEW s \in Slots, OpOwns(w, j, s)
          PROVE  OpOwns(w, j, s)'
      <3>1. CASE j = i
        BY <2>2, <2>5, <3>1, Zenon DEF OpOwns
      <3>2. CASE j # i
        BY <2>2, <2>5, <3>2, Zenon DEF OpOwns
      <3> QED
        BY <3>1, <3>2, Zenon
    <2>6. Tidy(w)'
      BY <2>4, Zenon DEF Tidy
    <2> QED
      BY <2>3, <2>5, <2>6, <1>Steady, Zenon
  <1>OpenUnsettled.
    ASSUME Typed, NEW w \in Workers, NEW l, NEW k, Goto(w, l, k),
           l \in Open \/ (l = "publish" /\ k = 1)
    PROVE  l # "prepare" /\ \A i \in Idx : ~Settled(w, i)'
    <2> USE <1>OpenUnsettled
    <2>1. pc'[w] = l /\ cur'[w] = k
      <3>1. TypeOK /\ Goto(w, l, k)
        BY Zenon DEF Typed
      <3> QED
        BY <3>1, GotoEffect, ZenonT(60)
    <2>2. \A i \in Idx : ~(i < 1)
      BY StoreAssumption DEF Idx
    <2> QED
      BY <2>1, <2>2, Zenon DEF Settled, Open
  <1>OpenStep.
    ASSUME Typed, NoneLost, NEW w \in Workers, NEW l, NEW k, Goto(w, l, k),
           l \in Open \/ (l = "publish" /\ k = 1), pc[w] \notin Holders,
           UNCHANGED <<index, free, ops, old>>
    PROVE  NoneLost'
    <2> USE <1>OpenStep
    <2>1. l # "prepare" /\ \A i \in Idx : ~Settled(w, i)'
      BY <1>OpenUnsettled, Zenon
    <2> QED
      BY <2>1, <1>Staying, Zenon
  <1>OpenStepOp.
    ASSUME Typed, NoneLost, NEW w \in Workers, NEW i \in Idx, NEW n, NEW l, NEW k,
           Goto(w, l, k), l \in Open, pc[w] \notin Holders,
           SetOp(w, i, n), UNCHANGED <<index, free, old>>,
           n.cmd = ops[w][i].cmd, n.cmd \notin {"WRITE", "RMW"}
    PROVE  NoneLost'
    <2> USE <1>OpenStepOp
    <2>1. l # "prepare" /\ \A j \in Idx : ~Settled(w, j)'
      BY <1>OpenUnsettled, Zenon
    <2> QED
      BY <2>1, <1>StayingOp, Zenon
  (* The end of a piece: the loops have left no op with a slot.              *)
  <1>AllEmpty.
    ASSUME Typed, NoneLost, NEW w \in Workers,
           \/ EndPublish(w) \/ EndTrim(w) \/ RmwOut(w) \/ \E job \in Jobs : Admit(w, job)
    PROVE  \A i \in Idx : Empty(w, i)
    <2> USE <1>AllEmpty
    <2>0. Tidy(w) /\ \A i \in Idx : OpShape(w, i)
      BY Zenon DEF NoneLost, Typed, Shape, Local
    <2>1. CASE RmwOut(w) \/ \E job \in Jobs : Admit(w, job)
      BY <2>0, <2>1, Zenon DEF RmwOut, Admit, Tidy, Settled
    <2>2. CASE EndTrim(w)
      BY <2>0, <2>2, Zenon DEF EndTrim, Over, OpShape, TrimLabels, Empty
    <2>3. CASE EndPublish(w)
      <3>1. SUFFICES ASSUME NEW i \in Idx PROVE Empty(w, i)
        BY Zenon
      <3>2. pc[w] = "publish" /\ (cur[w] <= i => ~Wants(w, "publish", i))
        BY <2>3, Zenon DEF EndPublish, Over
      <3>3. cur[w] <= i \/ i < cur[w]
        <4>1. cur[w] \in Int /\ i \in Int
          BY IdxInt, CurInt, Zenon DEF Typed
        <4> QED
          BY <4>1
      <3>4. CASE i < cur[w]
        BY <2>0, <3>2, <3>4, Zenon DEF Tidy, Settled
      <3>5. CASE ~Wants(w, "publish", i)
        BY <2>0, <3>2, <3>5, Zenon DEF Tidy, Wants, Empty, OpShape, BatchLabels
      <3> QED
        BY <3>2, <3>3, <3>4, <3>5, Zenon
    <2> QED
      BY <2>1, <2>2, <2>3, Zenon
  <1>N_Control.
    ASSUME Typed, NoneLost, NEW w \in Workers,
           \/ EndPrepare(w) \/ EndAbort(w) \/ EndIssue(w) \/ EndFinish(w)
           \/ EndAgain(w) \/ EndLocked(w) \/ EndPublish(w) \/ EndTrim(w) \/ Synchronize(w)
           \/ RmwOut(w) \/ \E job \in Jobs : Admit(w, job)
    PROVE  NoneLost'
    <2> USE <1>N_Control
    <2>1. UNCHANGED <<index, free, ops, old>> /\ pc[w] \notin Holders
      BY Zenon DEF EndPrepare, EndAbort, EndIssue, EndFinish, EndAgain, EndLocked, EndPublish,
         EndTrim, Synchronize, RmwOut, Admit, Over, shared, Holders
    <2>2. CASE \/ EndPrepare(w) \/ EndAbort(w) \/ EndIssue(w) \/ EndFinish(w)
               \/ EndAgain(w) \/ EndLocked(w) \/ Synchronize(w)
      <3>1. \E l \in Open \cup {"publish"} : Goto(w, l, 1)
        BY <2>2, Zenon DEF EndPrepare, EndAbort, EndIssue, EndFinish, EndAgain, EndLocked,
           Synchronize, Open
      <3> QED
        BY <2>1, <3>1, <1>OpenStep, Zenon
    <2>3. CASE \/ EndPublish(w) \/ EndTrim(w) \/ RmwOut(w) \/ \E job \in Jobs : Admit(w, job)
      <3>1. Goto(w, "piece", 1)
        BY <2>3, Zenon DEF EndPublish, EndTrim, RmwOut, Admit
      <3> QED
        BY <2>1, <2>3, <3>1, <1>AllEmpty, <1>Staying, Zenon
    <2> QED
      BY <2>2, <2>3, Zenon
  <1>N_Issue.
    ASSUME Typed, NoneLost, "HtoD" \notin Faults, NEW w \in Workers, NEW i \in Idx,
           IssueRead(w, i) \/ IssueWrite(w, i) \/ IssueFails(w, i)
    PROVE  NoneLost'
    <2> USE <1>N_Issue
    <2>1. /\ Goto(w, "issue", i + 1) /\ UNCHANGED <<index, free, old>>
          /\ pc[w] = "issue" /\ ops[w][i] \in Blkop
      BY Zenon DEF IssueRead, IssueWrite, IssueFails, Turn, shared, Typed, TypeOK
    <2>3. CASE UNCHANGED ops
      BY <2>1, <2>3, <1>OpenStep, Zenon DEF Holders, Open
    <2>4. CASE SetOp(w, i, Refused(ops[w][i], "EIO")) /\ ops[w][i].cmd = "READ"
      <3>1. Refused(ops[w][i], "EIO").cmd = "READ"
        BY <2>1, <2>4, RefusedOp, Zenon DEF Err
      <3> QED
        BY <2>1, <2>4, <3>1, <1>OpenStepOp, Zenon DEF Holders, Open
    <2> QED
      BY <2>3, <2>4, Zenon DEF IssueRead, IssueWrite, IssueFails
  <1>N_Read.
    ASSUME Typed, NoneLost, NEW w \in Workers, NEW i \in Idx,
           rd_finish(w, i) \/ Resnapshot(w, i) \/ rd_block_locked(w, i)
    PROVE  NoneLost'
    <2> USE <1>N_Read
    <2> DEFINE o == ops[w][i]
    <2>0. TypeOK /\ o \in Blkop /\ o.ent.clen \in Int /\ cstage[w][i] \in Stored
      <3>1. TypeOK /\ o \in Blkop /\ cstage[w][i] \in Stored
        BY Zenon DEF Typed, TypeOK
      <3>2. o.ent \in Ent
        BY <3>1, Zenon DEF Blkop
      <3> QED
        BY <3>1, <3>2, EntLen, Zenon
    <2>1. /\ UNCHANGED <<index, free, old>> /\ o.cmd = "READ" /\ pc[w] \notin Holders
          /\ \E l \in Open, k \in {i, i + 1} : Goto(w, l, k)
      BY Zenon DEF rd_finish, Resnapshot, rd_block_locked, Turn, Wants, shared, Open, Holders
    <2>3. Snapshot(o) \in Blkop /\ Snapshot(o).cmd = "READ"
      BY <2>0, <2>1, SnapshotOp, Zenon
    <2>4. UNCHANGED ops \/ \E n : SetOp(w, i, n) /\ n.cmd = "READ"
      <3>1. /\ Zeroed(o).cmd = "READ" /\ Took(o, cstage[w][i], o.ent.clen).cmd = "READ"
            /\ Zeroed(Snapshot(o)).cmd = "READ" /\ Failed(Snapshot(o), "EIO").cmd = "READ"
        <4>1. Zeroed(o).cmd = "READ" /\ Zeroed(Snapshot(o)).cmd = "READ"
          BY <2>0, <2>1, <2>3, ZeroedOp, Zenon
        <4>2. Took(o, cstage[w][i], o.ent.clen).cmd = "READ"
          BY <2>0, <2>1, TookOp, Zenon
        <4>3. Failed(Snapshot(o), "EIO").cmd = "READ"
          BY <2>3, FailedOp, Zenon DEF Err
        <4> QED
          BY <4>1, <4>2, <4>3, Zenon
      <3> QED
        BY <2>3, <3>1, Zenon DEF rd_finish, Resnapshot, rd_block_locked
    <2> QED
      BY <2>1, <2>4, <1>OpenStep, <1>OpenStepOp, Zenon
  <1>N_ReadCopy.
    ASSUME Typed, NoneLost, NEW w \in Workers, Reissue(w) \/ LockedDone(w)
    PROVE  NoneLost'
    <2> USE <1>N_ReadCopy
    <2> DEFINE i == cur[w]
               o == ops[w][i]
    <2>0. TypeOK /\ i \in Idx /\ o \in Blkop /\ o.cmd = "READ" /\ o.ent.clen \in Int
      <3>1. TypeOK /\ i \in Idx /\ o.cmd = "READ"
        BY Zenon DEF Typed, Shape, Local, CurShape, HoldLabels, Reissue, LockedDone
      <3>2. o \in Blkop
        BY <3>1, Zenon DEF TypeOK
      <3>3. o.ent \in Ent
        BY <3>2, Zenon DEF Blkop
      <3> QED
        BY <3>1, <3>2, <3>3, EntLen, Zenon
    <2>1. /\ UNCHANGED <<index, free, old>> /\ pc[w] \notin Holders
          /\ \E l \in Open : Goto(w, l, i + 1)
      BY Zenon DEF Reissue, LockedDone, shared, Open, Holders
    <2>3. UNCHANGED ops \/ \E n : SetOp(w, i, n) /\ n.cmd = "READ"
      <3>1. Refused(o, "EIO").cmd = "READ"
        BY <2>0, RefusedOp, Zenon DEF Err
      <3>2. \A img \in Staged(w, i) : Took(o, img, o.ent.clen).cmd = "READ"
        BY <2>0, StagedType, TookOp, Zenon
      <3> QED
        BY <2>0, <3>1, <3>2, Zenon DEF Reissue, LockedDone
    <2> HIDE DEF i, o
    <2> QED
      BY <2>0, <2>1, <2>3, <1>OpenStep, <1>OpenStepOp, Zenon DEF o
  <1>N_rd_prepare.
    ASSUME Typed, NoneLost, NEW w \in Workers, NEW i \in Idx, rd_prepare(w, i)
    PROVE  NoneLost'
    <2> USE <1>N_rd_prepare
    <2>0. TypeOK /\ ops[w][i] \in Blkop /\ Tidy(w)
      BY Zenon DEF Typed, TypeOK, NoneLost
    <2>1. /\ SetOp(w, i, Snapshot(ops[w][i])) /\ Goto(w, "prepare", i + 1)
          /\ UNCHANGED <<index, free, old>> /\ ops[w][i].cmd = "READ"
          /\ pc[w] = "prepare" /\ cur[w] <= i /\ Ahead(w, i)
      BY Zenon DEF rd_prepare, Turn, shared, Ahead
    <2>2. Snapshot(ops[w][i]).cmd = "READ"
      BY <2>0, <2>1, SnapshotOp, Zenon
    <2>3. \A j \in Idx : Settled(w, j)' => Empty(w, j)
      <3>1. pc'[w] = "prepare" /\ cur'[w] = i + 1
        BY <2>0, <2>1, GotoEffect, ZenonT(60)
      <3>2. \A j \in Idx : i + 1 <= j => cur[w] <= j
        <4>1. i \in Int /\ cur[w] \in Int /\ \A j \in Idx : j \in Int
          BY <2>0, IdxInt, CurInt, Zenon
        <4>2. cur[w] <= i
          BY <2>1, Zenon
        <4> QED
          BY <4>1, <4>2
      <3> QED
        BY <2>0, <2>1, <3>1, <3>2, Zenon DEF Tidy, Settled
    <2> QED
      BY <2>1, <2>2, <2>3, <1>StayingOp, Zenon DEF Holders
  <1>N_Fresh.
    ASSUME Typed, NoneLost, NEW w \in Workers, StartPiece(w) \/ Reply(w)
    PROVE  NoneLost'
    <2> USE <1>N_Fresh
    <2>0. TypeOK /\ Tidy(w) /\ pc[w] = "piece" /\ UNCHANGED <<index, free, old>>
      BY Zenon DEF Typed, NoneLost, StartPiece, Reply, shared
    <2>2. PICK a : ops' = [ops EXCEPT ![w] = [i \in Idx |-> blkop_set(a[i])]]
      <3>1. CASE StartPiece(w)
        BY <3>1, Zenon DEF StartPiece
      <3>2. CASE Reply(w)
        <4> DEFINE a == [j \in Idx |-> NoAsk]
        <4>1. [i \in Idx |-> blkop_set(NoAsk)] = [i \in Idx |-> blkop_set(a[i])]
          BY Zenon
        <4>2. ops' = [ops EXCEPT ![w] = [i \in Idx |-> blkop_set(NoAsk)]]
          BY <3>2, Zenon DEF Reply
        <4>3. ops' = [ops EXCEPT ![w] = [i \in Idx |-> blkop_set(a[i])]]
          BY <4>1, <4>2, Zenon
        <4> HIDE DEF a
        <4> QED
          BY <4>3, Zenon
      <3> QED
        BY <3>1, <3>2, Zenon
    <2>3. \A i \in Idx : ops'[w][i].grain = SLOT_NONE /\ ops'[w][i].err = "ok"
      <3>1. \A i \in Idx : blkop_set(a[i]).grain = SLOT_NONE /\ blkop_set(a[i]).err = "ok"
        BY Zenon DEF blkop_set
      <3> QED
        BY <2>0, <2>2, <3>1, Zenon DEF TypeOK
    <2>4. \E l : Goto(w, l, 1)
      BY Zenon DEF StartPiece, Reply
    <2>5. Others(w)
      BY <2>0, <2>2, <2>4, GotoEffect, Zenon DEF Others, TypeOK
    <2>6. Tidy(w)'
      BY <2>3, Zenon DEF Tidy, Empty
    <2>7. \A i \in Idx, s \in Slots : ~OpOwns(w, i, s)
      <3>1. \A i \in Idx : Empty(w, i)
        BY <2>0, Zenon DEF Tidy, Settled
      <3> QED
        BY <3>1, StoreAssumption, Zenon DEF Empty, OpOwns
    <2> QED
      BY <2>0, <2>5, <2>6, <2>7, <1>Steady, Zenon DEF Holders
  <1>N_TrimCheck.
    ASSUME Typed, NoneLost, NEW w \in Workers, NEW i \in Idx, TrimCheck(w, i)
    PROVE  NoneLost'
    <2> USE <1>N_TrimCheck
    <2>0. TypeOK /\ ops[w][i] \in Blkop /\ pc[w] = "trim" /\ ops[w][i].cmd = "TRIM"
      <3>1. TypeOK /\ pc[w] = "trim" /\ ops[w][i].cmd # "none" /\ OpShape(w, i)
        BY Zenon DEF Typed, Shape, Local, TrimCheck, Turn, Wants
      <3> QED
        BY <3>1, Zenon DEF TypeOK, OpShape, TrimLabels
    <2>1. UNCHANGED <<index, free, old>> /\ \E l \in Open, k \in {i, i + 1} : Goto(w, l, k)
      BY Zenon DEF TrimCheck, shared, Open
    <2>3. Done(ops[w][i]).cmd = "TRIM"
      BY <2>0, DoneOp, Zenon
    <2>4. UNCHANGED ops \/ SetOp(w, i, Done(ops[w][i]))
      BY Zenon DEF TrimCheck
    <2> QED
      BY <2>0, <2>1, <2>3, <2>4, <1>OpenStep, <1>OpenStepOp, Zenon DEF Holders
  <1>N_wr_prepare.
    ASSUME Typed, NoneLost, NEW w \in Workers, NEW i \in Idx, wr_prepare(w, i)
    PROVE  NoneLost'
    <2> USE <1>N_wr_prepare
    <2> DEFINE o == ops[w][i]
    <2>0. /\ TypeOK /\ o \in Blkop /\ Tidy(w) /\ OpShape(w, i)
          /\ pc[w] = "prepare" /\ cur[w] <= i /\ o.cmd = "WRITE"
          /\ UNCHANGED <<index, old>> /\ Goto(w, "prepare", i + 1)
      BY Zenon DEF Typed, Shape, Local, TypeOK, NoneLost, wr_prepare, Turn
    <2>1. o.dma # 2 /\ o.grain = SLOT_NONE /\ o.err = "ok" /\ Ahead(w, i)
      BY <2>0, Zenon DEF OpShape, Tidy, Settled, Empty, Ahead
    <2>2. pc'[w] = "prepare" /\ cur'[w] = i + 1
      BY <2>0, GotoEffect, ZenonT(60)
    <2>3. \A j \in Idx : Settled(w, j)' => j # i /\ Empty(w, j)
      <3>1. \A j \in Idx : i + 1 <= j => cur[w] <= j /\ j # i
        <4>1. i \in Int /\ cur[w] \in Int /\ \A j \in Idx : j \in Int
          BY <2>0, IdxInt, CurInt, Zenon
        <4>2. cur[w] <= i
          BY <2>0, Zenon
        <4> QED
          BY <4>1, <4>2
      <3> QED
        BY <2>0, <2>2, <3>1, Zenon DEF Tidy, Settled
    <2>4. ASSUME NEW s \in free, SetOp(w, i, Reserved(o, s)), free' = free \ {s}
          PROVE  NoneLost'
      <3>1. /\ Reserved(o, s).cmd = "WRITE" /\ Reserved(o, s).dma = 1
            /\ Reserved(o, s).grain = s /\ Reserved(o, s).err = o.err
        BY <2>0, ReservedOp, Zenon DEF TypeOK, Reserved, Blkop
      <3>2. /\ ops'[w][i] = Reserved(o, s)
            /\ \A j \in Idx : j # i => ops'[w][j] = ops[w][j]
            /\ \A v \in Workers : v # w => ops'[v] = ops[v]
        BY <2>0, <2>4, SetOpEffect, Zenon
      <3>3. Others(w)
        BY <2>0, <3>2, GotoEffect, Zenon DEF Others
      <3>4. OpOwns(w, i, s)' /\ \A t \in Slots : ~OpOwns(w, i, t)
        <4>1. Reserved(o, s).dma # 2 /\ o.grain \notin Slots
          BY <2>1, <3>1, StoreAssumption
        <4> QED
          BY <3>1, <3>2, <4>1, Zenon DEF OpOwns
      <3>5. \A j \in Idx, t \in Slots : j # i /\ OpOwns(w, j, t) => OpOwns(w, j, t)'
        BY <3>2, Zenon DEF OpOwns
      <3>6. ASSUME NEW j \in Idx
            PROVE  /\ Settled(w, j)' => Empty(w, j)'
                   /\ Ahead(w, j)' => ops'[w][j].err = "ok"
                   /\ ops'[w][j].cmd = "WRITE" /\ ops'[w][j].err # "ok"
                        => ops'[w][j].grain = SLOT_NONE
        <4>1. CASE j = i
          BY <2>1, <2>3, <3>1, <3>2, <4>1, Zenon
        <4>2. CASE j # i
          <5>1. ops'[w][j] = ops[w][j]
            BY <3>2, <4>2, Zenon
          <5>2. Settled(w, j)' => Empty(w, j)'
            BY <2>3, <5>1, Zenon DEF Empty
          <5>3. Ahead(w, j)' => Ahead(w, j)
            BY <2>1, <2>2, <1>AheadNext, Zenon
          <5> QED
            BY <2>0, <5>1, <5>2, <5>3, Zenon DEF Tidy
        <4> QED
          BY <4>1, <4>2, Zenon
      <3>7. Tidy(w)'
        BY <3>6, Zenon DEF Tidy
      <3> QED
        BY <2>0, <2>4, <3>3, <3>4, <3>5, <3>7, <1>Reserving, Zenon DEF Holders
    <2>5. CASE SetOp(w, i, Refused(o, "ENOSPC")) /\ UNCHANGED free
      <3>1. /\ Refused(o, "ENOSPC").cmd = "WRITE" /\ Refused(o, "ENOSPC").dma = 0
            /\ Refused(o, "ENOSPC").grain = SLOT_NONE
        BY <2>0, <2>1, RefusedOp, Zenon DEF Err
      <3>2. PICK n, l, k : n = Refused(o, "ENOSPC") /\ l = "prepare" /\ k = i + 1
        BY Zenon
      <3>3. pc[w] \notin Holders
        BY <2>0, Zenon DEF Holders
      <3>4. n.cmd \in {"WRITE", "RMW"} => n.grain = o.grain /\ n.dma # 2 /\ o.dma # 2
        <4>1. n.dma = 0 /\ n.grain = o.grain
          BY <2>1, <3>1, <3>2, Zenon
        <4>2. n.dma # 2
          BY <4>1
        <4> QED
          BY <2>1, <4>1, <4>2, Zenon
      <3>5. UNCHANGED <<index, free>> /\ \A v \in Workers : v # w => old'[v] = old[v]
        BY <2>0, <2>5, Zenon
      <3> QED
        BY <2>0, <2>1, <2>3, <2>5, <3>1, <3>2, <3>3, <3>4, <3>5, <1>StayingOp, Zenon
    <2> QED
      BY <2>4, <2>5, Zenon DEF wr_prepare
  <1>N_wr_abort.
    ASSUME Typed, NoneLost, NEW w \in Workers, NEW i \in Idx, wr_abort(w, i)
    PROVE  NoneLost'
    <2> USE <1>N_wr_abort
    <2> DEFINE o == ops[w][i]
    <2>0. /\ TypeOK /\ o \in Blkop /\ Tidy(w) /\ pc[w] = "abort"
          /\ UNCHANGED <<index, old>> /\ Goto(w, "abort", i + 1)
          /\ SetOp(w, i, GivenBack(o)) /\ free' = free \cup ({o.grain} \ {SLOT_NONE})
      BY Zenon DEF Typed, TypeOK, NoneLost, wr_abort, Turn
    <2>1. GivenBack(o).grain = SLOT_NONE
      BY <2>0, GivenBackOp, Zenon
    <2>2. /\ ops'[w][i] = GivenBack(o)
          /\ \A j \in Idx : j # i => ops'[w][j] = ops[w][j]
          /\ \A v \in Workers : v # w => ops'[v] = ops[v]
      BY <2>0, SetOpEffect, Zenon
    <2>3. Others(w) /\ pc'[w] = "abort"
      BY <2>0, <2>2, GotoEffect, Zenon DEF Others
    <2>4. Tidy(w)'
      BY <2>0, <2>1, <2>2, <2>3, Zenon DEF Tidy, Settled, Ahead
    <2>5. free \subseteq free' /\ \A s \in Slots : OpOwns(w, i, s) => s \in free'
      BY <2>0, StoreAssumption, Zenon DEF OpOwns
    <2>6. \A j \in Idx, s \in Slots : j # i /\ OpOwns(w, j, s) => OpOwns(w, j, s)'
      BY <2>2, Zenon DEF OpOwns
    <2> QED
      BY <2>0, <2>3, <2>4, <2>5, <2>6, <1>Returning, Zenon DEF Holders
  (* The op that published is behind the cursor, and so are those the loop   *)
  (* passed over, which have no slot.                                        *)
  <1>PublishedTidy.
    ASSUME Typed, NoneLost, NEW w \in Workers, NEW i \in Idx, wr_publish(w, i)
    PROVE  Tidy(w)'
    <2> USE <1>PublishedTidy
    <2> DEFINE o == ops[w][i]
    <2>0. /\ TypeOK /\ o \in Blkop /\ Tidy(w) /\ pc[w] = "publish"
          /\ o.cmd = "WRITE" /\ o.err = "ok"
          /\ \A j \in Idx : cur[w] <= j /\ j < i => ~Wants(w, "publish", j)
          /\ \A j \in Idx : OpShape(w, j)
          /\ SetOp(w, i, Done(o)) /\ Goto(w, "release", i)
      BY Zenon DEF Typed, Shape, Local, TypeOK, NoneLost, wr_publish, Turn, Wants
    <2>1. /\ ops'[w][i] = Done(o)
          /\ \A j \in Idx : j # i => ops'[w][j] = ops[w][j]
          /\ pc'[w] = "release" /\ cur'[w] = i
      <3>0. SetOp(w, i, Done(o)) /\ TypeOK
        BY <2>0, Zenon
      <3>1. /\ ops'[w][i] = Done(o)
            /\ \A j \in Idx : j # i => ops'[w][j] = ops[w][j]
        BY <3>0, SetOpEffect, ZenonT(60)
      <3>2. pc'[w] = "release" /\ cur'[w] = i
        BY <2>0, GotoEffect, Zenon
      <3> QED
        BY <3>1, <3>2, Zenon
    <2>2. Done(o).dma = 2 /\ Done(o).err = "ok"
      BY <2>0, Zenon DEF Done, Blkop
    <2>3. ASSUME NEW j \in Idx, j # i, j <= i
          PROVE  Empty(w, j)
      <3>1. j < cur[w] \/ (cur[w] <= j /\ j < i)
        <4>1. j \in Int /\ i \in Int /\ cur[w] \in Int
          BY <2>0, IdxInt, CurInt, Zenon
        <4> QED
          BY <2>3, <4>1
      <3>2. CASE j < cur[w]
        BY <2>0, <3>2, Zenon DEF Tidy, Settled
      <3>3. CASE ~Wants(w, "publish", j)
        BY <2>0, <3>3, Zenon DEF Tidy, Wants, Empty, OpShape, BatchLabels
      <3> QED
        BY <2>0, <3>1, <3>2, <3>3, Zenon
    <2>4. ASSUME NEW j \in Idx
          PROVE  /\ Settled(w, j)' => Empty(w, j)'
                 /\ ~Ahead(w, j)'
                 /\ ops'[w][j].cmd = "WRITE" /\ ops'[w][j].err # "ok"
                      => ops'[w][j].grain = SLOT_NONE
      <3>1. CASE j = i
        <4>1. Empty(w, i)'
          BY <2>1, <2>2, Zenon DEF Empty
        <4> QED
          BY <2>1, <2>2, <3>1, <4>1, Zenon DEF Ahead
      <3>2. CASE j # i
        <4>1. ops'[w][j] = ops[w][j]
          BY <2>1, <3>2, Zenon
        <4>2. Settled(w, j)' => Empty(w, j)'
          BY <2>1, <2>3, <3>2, <4>1, Zenon DEF Settled, Empty
        <4> QED
          BY <2>0, <2>1, <4>1, <4>2, Zenon DEF Tidy, Ahead
      <3> QED
        BY <3>1, <3>2, Zenon
    <2> QED
      BY <2>4, Zenon DEF Tidy
  <1>N_wr_publish.
    ASSUME Typed, NoneLost, NEW w \in Workers, NEW i \in Idx, wr_publish(w, i)
    PROVE  NoneLost'
    <2> USE <1>N_wr_publish
    <2> DEFINE o == ops[w][i]
               b == o.blk
    <2>0. /\ TypeOK /\ o \in Blkop /\ b \in Blocks /\ pc[w] = "publish" /\ UNCHANGED free
          /\ SetOp(w, i, Done(o)) /\ Goto(w, "release", i)
          /\ Install(w, b, index[b], o.grain, cstage[w][i].n, cstage[w][i].page)
      <3>1. TypeOK /\ o \in Blkop
        BY Zenon DEF Typed, TypeOK
      <3> QED
        BY <3>1, Zenon DEF wr_publish, Turn, Blkop
    <2>1. cstage[w][i].n # 0
      <3>1. OpShape(w, i) /\ o.cmd = "WRITE" /\ o.grain # SLOT_NONE
        BY Zenon DEF Typed, Shape, Local, wr_publish, Turn, Wants
      <3>2. cstage[w][i] \in Image
        BY <3>1, Zenon DEF OpShape
      <3>3. cstage[w][i].n \in 1..CBLK_SIZE
        BY <3>2, Zenon DEF Image
      <3> QED
        BY <3>3, StoreAssumption, SMTT(30)
    <2>2. /\ index'[b].clen = cstage[w][i].n /\ index'[b].grain = o.grain
          /\ \A c \in Blocks : c # b => index'[c] = index[c]
          /\ old'[w] = index[b]
          /\ \A v \in Workers : v # w => old'[v] = old[v]
      <3>1. Displaced(w, b, index[b], o.grain, cstage[w][i].n)
        BY <2>0, Installed, Zenon
      <3> QED
        BY <3>1, Zenon DEF Displaced
    <2>3. /\ Others(w) /\ pc'[w] = "release"
          /\ \A j \in Idx : j # i => ops'[w][j] = ops[w][j]
      <3> DEFINE n == Done(o)
      <3>1. /\ SetOp(w, i, n) /\ Goto(w, "release", i)
            /\ \A v \in Workers : v # w => old'[v] = old[v]
        BY <2>0, <2>2, Zenon
      <3> HIDE DEF n
      <3> QED
        <4>1. OldKept(w)
          BY <3>1, Zenon DEF OldKept
        <4>2. Rewrites(w, i, n, "release", i)
          BY <3>1, <4>1, <1>OneOpStep, Zenon
        <4> QED
          BY <4>2, Zenon DEF Rewrites
    <2>5. \A s \in Slots : OpOwns(w, i, s) => index'[b].clen # 0 /\ index'[b].grain = s
      BY <2>1, <2>2, Zenon DEF OpOwns
    <2>6. \A j \in Idx, s \in Slots : j # i /\ OpOwns(w, j, s) => OpOwns(w, j, s)'
      BY <2>3, Zenon DEF OpOwns
    <2> HIDE DEF o, b
    <2> QED
      BY <2>0, <2>2, <2>3, <2>5, <2>6, <1>PublishedTidy, <1>Installing, Zenon DEF Holders
  (* The op under the cursor of a discard or a partial write.                *)
  <1>CursorAt.
    ASSUME Typed, NEW w \in Workers, pc[w] \in {"trimLock", "rmwMerge", "rmwStore"}
    PROVE  cur[w] \in Idx
    BY <1>CursorAt, Zenon DEF Typed, Shape, Local, CurShape, HoldLabels
  <1>N_TrimLock.
    ASSUME Typed, NoneLost, NEW w \in Workers, TrimLock(w)
    PROVE  NoneLost'
    <2> USE <1>N_TrimLock
    <2>i. PICK i \in Idx : i = cur[w]
      BY <1>CursorAt, Zenon DEF Typed, TrimLock
    <2> DEFINE o == ops[w][i]
               b == o.blk
    <2>0. /\ TypeOK /\ i \in Idx /\ o \in Blkop /\ b \in Blocks /\ pc[w] = "trimLock"
          /\ \A j \in Idx : ops[w][j].cmd \notin {"WRITE", "RMW"}
      <3>1. TypeOK /\ CurShape(w) /\ pc[w] = "trimLock" /\ \A j \in Idx : OpShape(w, j)
        BY <2>i, Zenon DEF Typed, Shape, Local, TrimLock
      <3>2. i \in Idx /\ \A j \in Idx : ops[w][j].cmd \notin {"WRITE", "RMW"}
        BY <2>i, <3>1, Zenon DEF CurShape, OpShape, TrimLabels
      <3>3. o \in Blkop
        BY <3>1, <3>2, ZenonT(40) DEF TypeOK
      <3> QED
        BY <3>1, <3>2, <3>3, Zenon DEF Blkop
    <2>1. UNCHANGED free /\ Goto(w, "trimRelease", i) /\ SetOp(w, i, Done(o))
      BY <2>i, Zenon DEF TrimLock
    <2>2. /\ \A c \in Blocks : c # b => index'[c] = index[c]
          /\ old'[w] = index[b]
          /\ \A v \in Workers : v # w => old'[v] = old[v]
      <3>1. CASE Install(w, b, index[b], SLOT_NONE, 0, ZeroPage)
        BY <2>0, <3>1, Zenon DEF Install, TypeOK
      <3>2. CASE old' = [old EXCEPT ![w] = index[b]] /\ UNCHANGED index
        BY <2>0, <3>2, Zenon DEF TypeOK
      <3> QED
        BY <2>i, <3>1, <3>2, Zenon DEF TrimLock
    <2>3. /\ Others(w) /\ pc'[w] = "trimRelease" /\ ops'[w][i] = Done(o)
          /\ \A j \in Idx : j # i => ops'[w][j] = ops[w][j]
      <3> DEFINE n == Done(o)
      <3>1. SetOp(w, i, n) /\ Goto(w, "trimRelease", i)
        BY <2>1, Zenon
      <3> HIDE DEF n
      <3>2. /\ Others(w) /\ pc'[w] = "trimRelease" /\ ops'[w][i] = n
            /\ \A j \in Idx : j # i => ops'[w][j] = ops[w][j]
        <4>1. OldKept(w)
          BY <2>2, <3>1, Zenon DEF OldKept
        <4>2. Rewrites(w, i, n, "trimRelease", i)
          BY <2>2, <3>1, <4>1, <1>OneOpStep, Zenon
        <4> QED
          BY <4>2, Zenon DEF Rewrites
      <3> QED
        BY <3>2, Zenon DEF n
    <2>5. \A j \in Idx : ops'[w][j].cmd \notin {"WRITE", "RMW"}
      <3>1. Done(o).cmd = o.cmd
        BY <2>0, DoneOp, Zenon
      <3> QED
        BY <2>0, <2>3, <3>1, Zenon
    <2>6. Tidy(w)'
      BY <2>3, <2>5, Zenon DEF Tidy, Settled, Ahead
    <2>7. \A j \in Idx, s \in Slots : ~OpOwns(w, j, s)
      BY <2>0, Zenon DEF OpOwns
    <2> HIDE DEF o, b
    <2> QED
      BY <2>0, <2>1, <2>2, <2>3, <2>6, <2>7, <1>Installing, Zenon DEF Holders
  <1>N_Release.
    ASSUME Typed, NoneLost, NEW w \in Workers,
           wr_release(w) \/ TrimRelease(w) \/ RmwRelease(w)
    PROVE  NoneLost'
    <2> USE <1>N_Release
    <2>0. /\ TypeOK /\ Tidy(w) /\ UNCHANGED <<index, ops>> /\ \E n : Displace(w, n)
          /\ \A j \in Idx : OpShape(w, j)
      BY Zenon DEF Typed, Shape, Local, NoneLost, wr_release, TrimRelease, RmwRelease
    <2>1. /\ free' = IF old[w].clen = 0 THEN free ELSE free \cup {old[w].grain}
          /\ \A v \in Workers : v # w => old'[v] = old[v]
      BY <2>0, Zenon DEF Displace, TypeOK
    <2>2. \E l, k : Goto(w, l, k)
      BY Zenon DEF wr_release, TrimRelease, RmwRelease
    <2>3. Others(w)
      BY <2>0, <2>1, <2>2, GotoEffect, Zenon DEF Others
    <2>4. Tidy(w)'
      <3>1. CASE wr_release(w)
        <4>1. pc[w] = "release" /\ pc'[w] = "publish" /\ cur'[w] = cur[w] + 1
          BY <2>0, <3>1, GotoEffect, Zenon DEF wr_release
        <4>2. \A j \in Idx : j < cur[w] + 1 => j <= cur[w]
          <5>1. cur[w] \in Int /\ \A j \in Idx : j \in Int
            BY <2>0, IdxInt, CurInt, Zenon
          <5> QED
            BY <5>1
        <4>3. \A j \in Idx : Settled(w, j)' => Settled(w, j)
          BY <4>1, <4>2, Zenon DEF Settled
        <4> QED
          BY <2>0, <4>1, <4>3, Zenon DEF Tidy, Empty, Ahead
      <3>2. CASE TrimRelease(w)
        <4>1. pc'[w] = "trim"
          BY <2>0, <3>2, GotoEffect, Zenon DEF TrimRelease
        <4> QED
          BY <2>0, <4>1, Zenon DEF Tidy, Settled, Ahead
      <3>3. CASE RmwRelease(w)
        <4>1. pc[w] = "rmwRelease" /\ pc'[w] = "rmwOut"
          BY <2>0, <3>3, GotoEffect, Zenon DEF RmwRelease
        <4>2. \A j \in Idx : Empty(w, j)
          BY <2>0, <4>1, Zenon DEF Tidy, Settled
        <4> QED
          BY <2>0, <4>1, <4>2, Zenon DEF Tidy, Empty, Ahead
      <3> QED
        BY <3>1, <3>2, <3>3, Zenon
    <2> QED
      BY <2>0, <2>1, <2>3, <2>4, <1>Releasing, Zenon
  <1>N_RmwLock.
    ASSUME Typed, NoneLost, NEW w \in Workers, NEW i \in Idx, RmwLock(w, i)
    PROVE  NoneLost'
    <2> USE <1>N_RmwLock
    <2> DEFINE o == ops[w][i]
    <2>0. TypeOK /\ o \in Blkop /\ Tidy(w) /\ pc[w] = "rmw" /\ o.cmd = "RMW" /\ o.dma # 2
      <3>1. TypeOK /\ o \in Blkop /\ Tidy(w) /\ OpShape(w, i)
        BY Zenon DEF Typed, Shape, Local, TypeOK, NoneLost
      <3>2. pc[w] = "rmw" /\ o.cmd # "none"
        BY Zenon DEF RmwLock, Turn, Wants
      <3> QED
        BY <3>1, <3>2, Zenon DEF OpShape, RmwLabels
    <2>1. UNCHANGED <<index, free>> /\ \A v \in Workers : v # w => old'[v] = old[v]
      BY <2>0, Zenon DEF RmwLock, TypeOK
    <2>2. \A j \in Idx : Empty(w, j)
      BY <2>0, Zenon DEF Tidy, Settled
    <2>3. CASE UNCHANGED ops /\ Goto(w, "rmwMerge", i)
      BY <2>0, <2>1, <2>2, <2>3, <1>Staying, Zenon DEF Holders
    <2>4. CASE SetOp(w, i, Failed(o, "EIO")) /\ Goto(w, "rmwOut", i)
      <3>1. /\ Failed(o, "EIO").cmd = "RMW" /\ Failed(o, "EIO").dma = o.dma
            /\ Failed(o, "EIO").grain = o.grain
        BY <2>0, FailedOp, Zenon DEF Err
      <3> QED
        BY <2>0, <2>1, <2>2, <2>4, <3>1, <1>StayingOp, Zenon DEF Holders
    <2> QED
      BY <2>3, <2>4, Zenon DEF RmwLock
  <1>N_RmwMerge.
    ASSUME Typed, NoneLost, NEW w \in Workers, RmwMerge(w)
    PROVE  NoneLost'
    <2> USE <1>N_RmwMerge
    <2>i. PICK i \in Idx : i = cur[w]
      BY <1>CursorAt, Zenon DEF Typed, RmwMerge
    <2> DEFINE o == ops[w][i]
    <2>0. /\ TypeOK /\ i \in Idx /\ o \in Blkop /\ Tidy(w) /\ pc[w] = "rmwMerge"
          /\ o.cmd = "RMW" /\ o.dma # 2 /\ free \subseteq Slots
          /\ \A j \in Idx : ops[w][j].cmd \in {"none", "RMW"}
      <3>1. /\ RmwAt(w) /\ Tidy(w) /\ pc[w] = "rmwMerge" /\ TypeOK
            /\ \A j \in Idx : OpShape(w, j)
        BY <2>i, RmwHolds, Zenon DEF Typed, Shape, Local, NoneLost, RmwMerge
      <3>2. i \in Idx /\ o \in Blkop /\ o.cmd = "RMW"
        BY <2>i, <3>1, Zenon DEF RmwAt
      <3> QED
        BY <3>1, <3>2, Zenon DEF OpShape, RmwLabels, TypeOK
    <2>1. UNCHANGED index /\ \A v \in Workers : v # w => old'[v] = old[v]
      BY <2>i, <2>0, Zenon DEF RmwMerge, TypeOK
    <2>2. \A j \in Idx : Empty(w, j)
      BY <2>0, Zenon DEF Tidy, Settled
    <2>3. ASSUME NEW s \in free, SetOp(w, i, Holding(o, s)), free' = free \ {s},
                 Goto(w, "rmwCopy", i)
          PROVE  NoneLost'
      <3>1. Holding(o, s).grain = s /\ Holding(o, s).cmd = "RMW" /\ Holding(o, s).dma # 2
        BY <2>0, HoldingOp, Zenon
      <3>2. /\ Others(w) /\ pc'[w] = "rmwCopy" /\ cur'[w] = i /\ ops'[w][i] = Holding(o, s)
            /\ \A j \in Idx : j # i => ops'[w][j] = ops[w][j]
        <4> DEFINE n == Holding(o, s)
        <4>1. SetOp(w, i, n) /\ Goto(w, "rmwCopy", i)
          BY <2>3, Zenon
        <4> HIDE DEF n
        <4>2. /\ Others(w) /\ pc'[w] = "rmwCopy" /\ cur'[w] = i /\ ops'[w][i] = n
              /\ \A j \in Idx : j # i => ops'[w][j] = ops[w][j]
          <5>1. OldKept(w)
            BY <2>1, <4>1, Zenon DEF OldKept
          <5>2. Rewrites(w, i, n, "rmwCopy", i)
            BY <2>1, <4>1, <5>1, <1>OneOpStep, Zenon
          <5> QED
            BY <5>2, Zenon DEF Rewrites
        <4> QED
          BY <4>2, Zenon DEF n
      <3>3. OpOwns(w, i, s)' /\ \A t \in Slots : ~OpOwns(w, i, t)
        <4>1. OpOwns(w, i, s)'
          BY <3>1, <3>2, Zenon DEF OpOwns
        <4>2. o.grain = SLOT_NONE
          BY <2>0, <2>2, Zenon DEF Empty
        <4> QED
          BY <4>1, <4>2, StoreAssumption, Zenon DEF OpOwns
      <3>4. \A j \in Idx, t \in Slots : j # i /\ OpOwns(w, j, t) => OpOwns(w, j, t)'
        BY <3>2, Zenon DEF OpOwns
      <3>5. ASSUME NEW j \in Idx
            PROVE  /\ Settled(w, j)' => Empty(w, j)'
                   /\ ~Ahead(w, j)' /\ ops'[w][j].cmd # "WRITE"
        <4>1. CASE j = i
          BY <3>1, <3>2, <4>1, Zenon DEF Settled, Ahead
        <4>2. CASE j # i
          <5>1. ops'[w][j] = ops[w][j]
            BY <3>2, <4>2, Zenon
          <5>2. Empty(w, j)'
            BY <2>2, <5>1, Zenon DEF Empty
          <5> QED
            BY <2>0, <3>2, <5>1, <5>2, Zenon DEF Ahead
        <4> QED
          BY <4>1, <4>2, Zenon
      <3>6. Tidy(w)'
        BY <3>5, Zenon DEF Tidy
      <3> QED
        BY <2>0, <2>1, <2>3, <3>2, <3>3, <3>4, <3>6, <1>Reserving, Zenon DEF Holders
    <2>4. ASSUME NEW e \in Err, SetOp(w, i, Failed(o, e)), UNCHANGED free,
                 Goto(w, "rmwOut", i)
          PROVE  NoneLost'
      <3>1. Failed(o, e).cmd = "RMW" /\ Failed(o, e).dma = o.dma /\ Failed(o, e).grain = o.grain
        BY <2>0, FailedOp, Zenon
      <3> QED
        BY <2>0, <2>1, <2>2, <2>4, <3>1, <1>StayingOp, Zenon DEF Holders
    <2> QED
      BY <2>i, <2>3, <2>4, Zenon DEF RmwMerge, Err
  <1>N_RmwCopy.
    ASSUME Typed, NoneLost, "HtoD" \notin Faults, NEW w \in Workers, RmwCopy(w)
    PROVE  NoneLost'
    <2> USE <1>N_RmwCopy
    <2>0. /\ TypeOK /\ Tidy(w) /\ pc[w] = "rmwCopy" /\ Goto(w, "rmwStore", cur[w])
          /\ UNCHANGED <<index, free, ops, old>>
      BY Zenon DEF Typed, NoneLost, RmwCopy
    <2>1. \A j \in Idx : Settled(w, j)' => Empty(w, j)
      <3>1. pc'[w] = "rmwStore" /\ cur'[w] = cur[w]
        BY <2>0, GotoEffect, Zenon
      <3> QED
        BY <2>0, <3>1, Zenon DEF Settled, Tidy
    <2> QED
      BY <2>0, <2>1, <1>Staying, Zenon DEF Holders
  <1>N_RmwStore.
    ASSUME Typed, NoneLost, NEW w \in Workers, RmwStore(w)
    PROVE  NoneLost'
    <2> USE <1>N_RmwStore
    <2>i. PICK i \in Idx : i = cur[w]
      BY <1>CursorAt, Zenon DEF Typed, RmwStore
    <2> DEFINE o == ops[w][i]
               b == o.blk
    <2>0. /\ TypeOK /\ i \in Idx /\ o \in Blkop /\ b \in Blocks /\ pc[w] = "rmwStore"
          /\ Tidy(w) /\ old[w] = index[b] /\ cstage[w][i] \in Image
          /\ \A j \in Idx : ops[w][j].cmd \in {"none", "RMW"}
      <3>1. /\ RmwAt(w) /\ Tidy(w) /\ pc[w] = "rmwStore" /\ TypeOK /\ CurShape(w)
            /\ \A j \in Idx : OpShape(w, j)
        BY <2>i, RmwHolds, Zenon DEF Typed, Shape, Local, NoneLost, RmwStore
      <3>2. i \in Idx /\ o \in Blkop /\ b \in Blocks
        BY <2>i, <3>1, Zenon DEF RmwAt
      <3>3. old[w] = index[b] /\ cstage[w][i] \in Image
        BY <2>i, <3>1, Zenon DEF CurShape
      <3> QED
        BY <3>1, <3>2, <3>3, Zenon DEF OpShape, RmwLabels
    <2>1. UNCHANGED free /\ Goto(w, "rmwRelease", i) /\ SetOp(w, i, Done(o))
      BY <2>i, Zenon DEF RmwStore
    <2>2. Install(w, b, old[w], o.grain, cstage[w][i].n, cstage[w][i].page)
      BY <2>i, Zenon DEF RmwStore
    <2>3. cstage[w][i].n # 0
      <3>1. cstage[w][i].n \in 1..CBLK_SIZE
        BY <2>0, Zenon DEF Image
      <3> QED
        <4>1. PICK m : m = cstage[w][i].n
          BY Zenon
        <4>2. m \in 1..CBLK_SIZE
          BY <3>1, <4>1, Zenon
        <4>3. m # 0
          BY <4>2, StoreAssumption
        <4> QED
          BY <4>1, <4>3, Zenon
    <2>4. /\ index'[b].clen # 0 /\ index'[b].grain = o.grain
          /\ \A c \in Blocks : c # b => index'[c] = index[c]
          /\ old'[w] = index[b]
          /\ \A v \in Workers : v # w => old'[v] = old[v]
      <3> DEFINE e == old[w]
                 s == o.grain
                 n == cstage[w][i].n
                 p == cstage[w][i].page
      <3>1. Install(w, b, e, s, n, p) /\ n # 0 /\ TypeOK /\ b \in Blocks /\ e = index[b]
        BY <2>0, <2>2, <2>3, Zenon
      <3> HIDE DEF o, b, e, s, n, p
      <3>2. /\ index'[b].grain = s /\ index'[b].clen = n /\ old'[w] = e
            /\ \A c \in Blocks : c # b => index'[c] = index[c]
            /\ \A v \in Workers : v # w => old'[v] = old[v]
        <4>1. Displaced(w, b, e, s, n)
          BY <3>1, Installed, Zenon
        <4> QED
          BY <4>1, Zenon DEF Displaced
      <3> QED
        BY <3>1, <3>2, Zenon DEF s
    <2>5. /\ Others(w) /\ pc'[w] = "rmwRelease" /\ ops'[w][i] = Done(o)
          /\ \A j \in Idx : j # i => ops'[w][j] = ops[w][j]
      <3> DEFINE n == Done(o)
      <3>1. SetOp(w, i, n) /\ Goto(w, "rmwRelease", i)
        BY <2>1, Zenon
      <3> HIDE DEF n
      <3>2. /\ Others(w) /\ pc'[w] = "rmwRelease" /\ ops'[w][i] = n
            /\ \A j \in Idx : j # i => ops'[w][j] = ops[w][j]
        <4>1. OldKept(w)
          BY <2>4, <3>1, Zenon DEF OldKept
        <4>2. Rewrites(w, i, n, "rmwRelease", i)
          BY <2>4, <3>1, <4>1, <1>OneOpStep, Zenon
        <4> QED
          BY <4>2, Zenon DEF Rewrites
      <3> QED
        BY <3>2, Zenon DEF n
    <2>6. Done(o).dma = 2 /\ Done(o).cmd = o.cmd
      BY <2>0, DoneOp, Zenon
    <2>7. ASSUME NEW j \in Idx
          PROVE  Empty(w, j)' /\ ~Ahead(w, j)' /\ ops'[w][j].cmd # "WRITE"
      <3>1. CASE j = i
        <4>1. Empty(w, i)'
          BY <2>5, <2>6, Zenon DEF Empty
        <4> QED
          BY <2>0, <2>5, <2>6, <3>1, <4>1, Zenon DEF Ahead
      <3>2. CASE j # i
        <4>1. ops'[w][j] = ops[w][j] /\ Empty(w, j)
          BY <2>i, <2>0, <2>5, <3>2, Zenon DEF Tidy, Settled
        <4> QED
          BY <2>0, <2>5, <4>1, Zenon DEF Ahead, Empty
      <3> QED
        BY <3>1, <3>2, Zenon
    <2>8. Tidy(w)'
      BY <2>7, Zenon DEF Tidy
    <2>9. \A s \in Slots : OpOwns(w, i, s) => index'[b].clen # 0 /\ index'[b].grain = s
      BY <2>4, Zenon DEF OpOwns
    <2>10. \A j \in Idx, s \in Slots : j # i /\ OpOwns(w, j, s) => OpOwns(w, j, s)'
      BY <2>5, Zenon DEF OpOwns
    <2> HIDE DEF o, b
    <2> QED
      BY <2>0, <2>1, <2>4, <2>5, <2>8, <2>9, <2>10, <1>Installing, Zenon DEF Holders
  <1>NextNoneLost.
    ASSUME Typed, NoneLost, "HtoD" \notin Faults, [Next]_vars
    PROVE  NoneLost'
    <2> USE <1>NextNoneLost
    <2>1. CASE UNCHANGED vars
      <3>1. UNCHANGED <<index, free, ops, old, pc, cur>>
        BY <2>1, Zenon DEF vars, shared, worker
      <3>2. \A w \in Workers : Tidy(w)'
        BY <3>1, ZenonT(40) DEF NoneLost, Tidy, Settled, Empty, Ahead
      <3>3. NoSlotLost'
        <4>1. SUFFICES ASSUME NEW s \in Slots \ free'
                       PROVE  \/ \E b \in Blocks : IndexOwns(b, s)'
                              \/ \E w \in Workers : \/ DisplacedOwns(w, s)'
                                                     \/ \E i \in Idx : OpOwns(w, i, s)'
          BY Zenon DEF NoSlotLost
        <4>2. /\ \A b \in Blocks : IndexOwns(b, s)' <=> IndexOwns(b, s)
              /\ \A w \in Workers : DisplacedOwns(w, s)' <=> DisplacedOwns(w, s)
              /\ \A w \in Workers, i \in Idx : OpOwns(w, i, s)' <=> OpOwns(w, i, s)
          BY <3>1, Zenon DEF IndexOwns, OpOwns, DisplacedOwns
        <4> QED
          BY <3>1, <4>1, <4>2, Zenon DEF NoneLost, NoSlotLost
      <3> QED
        BY <3>2, <3>3, Zenon DEF NoneLost
    <2>2. ASSUME NEW w \in Workers, (\E job \in Jobs : Admit(w, job)) \/ Work(w)
          PROVE  NoneLost'
      <3>1. CASE Batch(w)
        BY <3>1, <1>N_Control, <1>N_Issue, <1>N_Read, <1>N_ReadCopy, <1>N_rd_prepare,
           <1>N_wr_prepare, <1>N_wr_abort,
           <1>N_wr_publish, <1>N_Release, Zenon DEF Batch
      <3>2. CASE Trim(w)
        BY <3>2, <1>N_Control, <1>N_TrimCheck, <1>N_TrimLock, <1>N_Release, Zenon DEF Trim
      <3>3. CASE Rmw(w)
        BY <3>3, <1>N_Control, <1>N_RmwLock, <1>N_RmwMerge, <1>N_RmwCopy, <1>N_RmwStore,
           <1>N_Release, Zenon
        DEF Rmw
      <3> QED
        BY <2>2, <3>1, <3>2, <3>3, <1>N_Control, <1>N_Fresh, Zenon DEF Work
    <2> QED
      BY <2>1, <2>2, Zenon DEF Next
  <1> QED
    BY <1>NextNoneLost, Zenon

(* As long as no copy into device memory fails to start, every slot that   *)
(* is not free has an owner that will release it, for any number of        *)
(* workers, blocks and slots, any requests, failed reads and failed        *)
(* synchronizes: wr_abort and rmw_block's error paths give back what they  *)
(* reserved, and each publish and discard releases what it displaced.      *)
THEOREM NothingLost ==
  ASSUME "HtoD" \notin Faults
  PROVE  Spec => []NoSlotLost
  <1>1. Init => NoneLost
    BY InitNoneLost, Zenon
  <1>2. Typed /\ NoneLost /\ [Next]_vars => NoneLost'
    BY NoneLostKept, Zenon
  <1>3. NoneLost => NoSlotLost
    BY Zenon DEF NoneLost
  <1> QED
    BY <1>1, <1>2, <1>3, AlwaysTyped, PTL DEF Spec

=============================================================================
