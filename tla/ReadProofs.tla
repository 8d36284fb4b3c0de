----------------------------- MODULE ReadProofs -----------------------------
(***************************************************************************)
(* What the index names is whole, and a read returns what its block held.  *)
(* Both rest on one invariant, Sound, about the images on their way: those *)
(* staged by writes, those copied out by reads, and those entries name.    *)
(* They hold as long as every synchronize succeeds: do_blocks and          *)
(* rmw_block publish without looking at its result.                        *)
(***************************************************************************)
EXTENDS BlockStoreProofs

-----------------------------------------------------------------------------
(* The invariant.                                                          *)

(* A whole image: one that recovers a page nobody tore.                    *)
Whole == [page : Page, n : 1..CBLK_SIZE]

(* An entry names a whole image of the length it gives.                    *)
Stands(b) ==
  index[b].clen # 0 =>
    /\ mem[index[b].grain] \in Whole
    /\ mem[index[b].grain].n = index[b].clen

(* The worker's own copies into device memory have landed.                 *)
Landed(w) == pc[w] \in {"finish", "again", "againIssue", "locked", "lockedCopy",
                        "publish", "release"}

(* The loop has launched the copy of read j, or has taken its snapshot.    *)
Issued(w, j) ==
  \/ pc[w] \in {"sync", "finish", "again"}
  \/ pc[w] = "issue" /\ j < cur[w]
  \/ pc[w] = "againIssue" /\ j # cur[w]

Snapped(w, j) ==
  \/ pc[w] \in {"abort", "issue", "sync", "finish", "again", "againIssue"}
  \/ pc[w] = "prepare" /\ j < cur[w]

(* A write that still has its slot has its page staged, and once landed    *)
(* the slot holds what is staged.                                          *)
WriteSound(w, i) ==
  LET o == ops[w][i] IN
  o.cmd = "WRITE" =>
    /\ o.page \in Page
    /\ o.err = "ok" /\ o.grain # SLOT_NONE =>
         /\ o.dma # 0
         /\ cstage[w][i] \in Whole
         /\ o.dma = 1 /\ Landed(w) => mem[o.grain] = cstage[w][i]

(* A read saw what its block holds now; if its snapshot is still the       *)
(* entry of the block, its copy is the image the entry names.              *)
ReadSound(w, i) ==
  LET o == ops[w][i] IN
  o.cmd = "READ" =>
    /\ seen[w][i] \subseteq Page
    /\ o.dma = 2 => o.page \in seen[w][i] /\ pc[w] # "prepare"
    /\ o.dma # 2 => Contents(o.blk) \in seen[w][i]
    /\ o.dma = 1 => o.grain = o.ent.grain
    /\ o.dma = 0 /\ o.err = "ok" =>
         /\ o.ent.clen = 0
         /\ Snapped(w, i) => ZeroPage \in seen[w][i]
    /\ o.dma = 1 /\ o.err = "ok" /\ Issued(w, i) /\ index[o.blk] = o.ent =>
         cstage[w][i] = mem[o.grain]
    /\ o.dma = 1 /\ o.err = "ok" /\ pc[w] = "lockedCopy" /\ i = cur[w] =>
         index[o.blk] = o.ent /\ cstage[w][i] = mem[o.grain]

(* A partial write starts from the whole image of the entry it loaded and  *)
(* stages a whole one.                                                     *)
PatchSound(w) ==
  /\ pc[w] = "rmwMerge" /\ old[w].clen # 0 => cstage[w][cur[w]] = mem[old[w].grain]
  /\ pc[w] \in {"rmwCopy", "rmwStore"} => cstage[w][cur[w]] \in Whole

Sound ==
  /\ \A b \in Blocks : Stands(b)
  /\ \A w \in Workers : PatchSound(w) /\ \A i \in Idx : WriteSound(w, i) /\ ReadSound(w, i)

-----------------------------------------------------------------------------
(* What a step of worker w may do to the rest.                             *)

(* It writes only to the slots its ops hold.                               *)
MemKept(w) ==
  \A s \in Slots : mem'[s] = mem[s] \/ \E i \in Idx : OpOwns(w, i, s)

(* An entry it replaces gives way to a whole image, which the reads in     *)
(* progress see, and to a generation none of their snapshots has.          *)
Replaced(w, b) ==
  /\ lock[IDXL[b]] \in {NoWorker, w}
  /\ NoWrapInWindow(b)
  /\ index'[b].gen = (index[b].gen + 1) % GenMod
  /\ Stands(b)'
  /\ \A v \in Workers, j \in Idx :
       ops[v][j].cmd = "READ" /\ ops[v][j].blk = b /\ ops[v][j].dma # 2
         => Contents(b)' \in seen'[v][j]

Around(w) ==
  /\ MemKept(w)
  /\ \A b \in Blocks : index'[b] = index[b] \/ Replaced(w, b)

(* Op j of worker v stays as it is.  Its copy may be torn, but only by a   *)
(* write into the slot it reads.                                           *)
KeepsOp(w, v, j) ==
  /\ ops'[v][j] = ops[v][j]
  /\ \/ cstage'[v][j] = cstage[v][j]
     \/ \E i \in Idx, s \in Slots : OpOwns(w, i, s) /\ Reading(v, j, s)
  /\ seen[v][j] \subseteq seen'[v][j]
  /\ seen'[v][j] \subseteq seen[v][j] \cup Page

LEMMA WholeIntact ==
  ASSUME NEW img \in Whole
  PROVE  img # Torn /\ img.page \in Page /\ decomp_block(img, img.n) = img.page
  <1>1. img \in Image /\ img.page \in Page
    BY Zenon DEF Whole, Image, AnyPage
  <1> QED
    BY <1>1, StoreAssumption, Zenon DEF decomp_block, Intact

LEMMA IndexedSafe ==
  ASSUME Typed, SlotOwnership, NEW w \in Workers, NEW b \in Blocks, index[b].clen # 0
  PROVE  /\ index[b].grain \in Slots
         /\ \A i \in Idx : ~OpOwns(w, i, index[b].grain)
         /\ MemKept(w) => mem'[index[b].grain] = mem[index[b].grain]
  <1>1. index[b].grain \in Slots
    BY Zenon DEF Typed, Shape, Names
  <1>2. IndexOwns(b, index[b].grain)
    BY Zenon DEF IndexOwns
  <1>3. \A i \in Idx : ~OpOwns(w, i, index[b].grain)
    BY <1>1, <1>2, Zenon DEF SlotOwnership
  <1> QED
    BY <1>1, <1>3, Zenon DEF MemKept

LEMMA ContentsKept ==
  ASSUME Typed, SlotOwnership, NEW w \in Workers, MemKept(w), NEW b \in Blocks,
         index'[b] = index[b]
  PROVE  Contents(b)' = Contents(b) /\ (Stands(b) => Stands(b)')
  <1>1. CASE index[b].clen = 0
    BY <1>1, Zenon DEF Contents, Stands
  <1>2. CASE index[b].clen # 0
    <2>1. mem'[index[b].grain] = mem[index[b].grain]
      BY <1>2, IndexedSafe, Zenon
    <2> QED
      BY <1>2, <2>1, Zenon DEF Contents, Stands, decomp_block, Intact
  <1> QED
    BY <1>1, <1>2, Zenon

LEMMA OpAt ==
  ASSUME Typed, NEW v \in Workers, NEW j \in Idx
  PROVE  ops[v][j] \in Blkop /\ ops[v][j].blk \in Blocks /\ OpShape(v, j)
  <1>1. ops[v] \in [Idx -> Blkop]
    BY Zenon DEF Typed, TypeOK
  <1>2. ops[v][j] \in Blkop
    BY <1>1, Zenon
  <1>3. ops[v][j].blk \in Blocks
    BY <1>2, Zenon DEF Blkop
  <1> QED
    BY <1>2, <1>3, Zenon DEF Typed, Shape, Local

(* The copy of a read whose entry stands is never torn.                    *)
LEMMA CopyKept ==
  ASSUME Typed, SlotOwnership, NEW w \in Workers, MemKept(w),
         NEW v \in Workers, NEW j \in Idx, KeepsOp(w, v, j),
         ops[v][j].cmd = "READ", ops[v][j].dma = 1,
         ops[v][j].grain = ops[v][j].ent.grain,
         index[ops[v][j].blk] = ops[v][j].ent,
         cstage[v][j] = mem[ops[v][j].grain]
  PROVE  cstage'[v][j] = mem'[ops[v][j].grain]
  <1> DEFINE o == ops[v][j]
             s == index[o.blk].grain
  <1>1. o.blk \in Blocks /\ OpShape(v, j)
    BY OpAt, Zenon
  <1>2. index[o.blk].clen # 0 /\ o.grain = s
    BY <1>1, Zenon DEF OpShape
  <1>3. s \in Slots /\ (\A i \in Idx : ~OpOwns(w, i, s)) /\ mem'[s] = mem[s]
    BY <1>1, <1>2, IndexedSafe, Zenon
  <1>4. pc[v] # "rmwMerge"
    BY <1>1, Zenon DEF OpShape, RmwLabels
  <1>5. ASSUME NEW t, Reading(v, j, t) PROVE t = s
    BY <1>2, <1>4, <1>5, Zenon DEF Reading
  <1>6. cstage'[v][j] = cstage[v][j]
    BY <1>3, <1>5, Zenon DEF KeepsOp
  <1> QED
    BY <1>2, <1>3, <1>6, Zenon

(* No snapshot or launch is passed over: the cursor of worker v skips a    *)
(* read only if the loop has nothing to do for it.                         *)
Onward(v, j) ==
  ops[v][j].cmd = "READ" =>
    /\ pc'[v] = "prepare" => pc[v] = "prepare"
    /\ ops[v][j].dma = 0 /\ Snapped(v, j)' => Snapped(v, j)
    /\ ops[v][j].dma = 1 /\ ops[v][j].err = "ok" /\ Issued(v, j)' => Issued(v, j)

LEMMA ReadKept ==
  ASSUME Typed, SlotOwnership, Sound, NEW w \in Workers, Around(w),
         NEW v \in Workers, NEW j \in Idx, KeepsOp(w, v, j),
         Onward(v, j),
         pc'[v] = "lockedCopy" /\ j = cur'[v] =>
           v # w /\ pc[v] = "lockedCopy" /\ j = cur[v]
  PROVE  ReadSound(v, j)'
  <1> SUFFICES ASSUME NEW o, o = ops[v][j], NEW b, b = o.blk, o.cmd = "READ"
               PROVE  ReadSound(v, j)'
    BY Zenon DEF KeepsOp, ReadSound
  <1>1. b \in Blocks /\ OpShape(v, j) /\ ReadSound(v, j) /\ ops'[v][j] = o
    BY OpAt, Zenon DEF Sound, KeepsOp
  <1>2. seen'[v][j] \subseteq Page /\ seen[v][j] \subseteq seen'[v][j]
    BY <1>1, Zenon DEF ReadSound, KeepsOp
  <1>3. MemKept(w) /\ (index'[b] = index[b] \/ Replaced(w, b))
    BY <1>1, Zenon DEF Around
  <1>4. o.dma # 2 => Contents(b)' \in seen'[v][j]
    <2>1. CASE index'[b] = index[b]
      BY <1>1, <1>2, <1>3, <2>1, ContentsKept, Zenon DEF ReadSound
    <2>2. CASE Replaced(w, b)
      BY <1>1, <2>2, Zenon DEF Replaced
    <2> QED
      BY <1>3, <2>1, <2>2, Zenon
  <1>5. ASSUME o.dma = 1, o.err = "ok", Issued(v, j)', index'[b] = o.ent
        PROVE  cstage'[v][j] = mem'[o.grain]
    <2>1. Issued(v, j)
      BY <1>5, Zenon DEF Onward
    <2>2. InWindow(v, j)
      BY <1>5, <2>1, Zenon DEF InWindow, Issued
    <2>3. ~Replaced(w, b)
      BY <1>5, <2>2, Zenon DEF Replaced, NoWrapInWindow
    <2>4. index[b] = o.ent
      BY <1>3, <1>5, <2>3, Zenon
    <2>5. cstage[v][j] = mem[o.grain] /\ o.grain = o.ent.grain
      BY <1>1, <1>5, <2>1, <2>4, Zenon DEF ReadSound
    <2> QED
      BY <1>3, <1>5, <2>4, <2>5, CopyKept, Zenon
  <1>6. ASSUME o.dma = 1, o.err = "ok", pc'[v] = "lockedCopy", j = cur'[v]
        PROVE  index'[b] = o.ent /\ cstage'[v][j] = mem'[o.grain]
    <2>1. v # w /\ pc[v] = "lockedCopy" /\ j = cur[v]
      BY <1>6, Zenon
    <2>2. lock[IDXL[b]] = v
      BY <2>1, Zenon DEF Typed, Shape, Local, CurShape, HoldLabels
    <2>3. ~Replaced(w, b)
      BY <2>1, <2>2, StoreAssumption, Zenon DEF Replaced
    <2>4. index[b] = o.ent /\ cstage[v][j] = mem[o.grain] /\ o.grain = o.ent.grain
      BY <1>1, <1>6, <2>1, Zenon DEF ReadSound
    <2> QED
      BY <1>3, <1>6, <2>3, <2>4, CopyKept, Zenon
  <1>7. ASSUME o.dma = 0, o.err = "ok"
        PROVE  o.ent.clen = 0 /\ (Snapped(v, j)' => ZeroPage \in seen'[v][j])
    BY <1>1, <1>2, <1>7, Zenon DEF ReadSound, Onward
  <1>8. /\ o.dma = 2 => o.page \in seen'[v][j] /\ pc'[v] # "prepare"
        /\ o.dma = 1 => o.grain = o.ent.grain
    BY <1>1, <1>2, Zenon DEF ReadSound, Onward
  <1> QED
    BY <1>1, <1>2, <1>4, <1>5, <1>6, <1>7, <1>8, Zenon DEF ReadSound

LEMMA WriteKept ==
  ASSUME Typed, SlotOwnership, Sound, NEW w \in Workers, MemKept(w),
         NEW v \in Workers, NEW j \in Idx, KeepsOp(w, v, j),
         Landed(v)' => Landed(v) /\ (v # w \/ UNCHANGED mem)
  PROVE  WriteSound(v, j)'
  <1> SUFFICES ASSUME NEW o, o = ops[v][j], o.cmd = "WRITE" PROVE WriteSound(v, j)'
    BY Zenon DEF KeepsOp, WriteSound
  <1>1. OpShape(v, j) /\ WriteSound(v, j) /\ ops'[v][j] = o
    BY OpAt, Zenon DEF Sound, KeepsOp
  <1>2. cstage'[v][j] = cstage[v][j]
    <2>1. pc[v] # "rmwMerge"
      BY <1>1, Zenon DEF OpShape, RmwLabels
    <2> QED
      BY <2>1, Zenon DEF KeepsOp, Reading
  <1>3. ASSUME o.dma = 1, Landed(v)' PROVE mem'[o.grain] = mem[o.grain]
    <2>1. o.grain \in Slots /\ OpOwns(v, j, o.grain)
      BY <1>1, <1>3 DEF OpShape, OpOwns
    <2>2. ASSUME v # w, NEW i \in Idx PROVE ~OpOwns(w, i, o.grain)
      BY <2>1, <2>2, Zenon DEF SlotOwnership
    <2> QED
      BY <1>3, <2>1, <2>2, Zenon DEF MemKept
  <1> QED
    BY <1>1, <1>2, <1>3, Zenon DEF WriteSound

LEMMA PatchKept ==
  ASSUME Typed, SlotOwnership, Sound, NEW w \in Workers, MemKept(w),
         NEW v \in Workers, pc'[v] = pc[v], cur'[v] = cur[v], old'[v] = old[v],
         \A j \in Idx : KeepsOp(w, v, j)
  PROVE  PatchSound(v)'
  <1> SUFFICES ASSUME NEW j, j = cur[v], pc[v] \in {"rmwMerge", "rmwCopy", "rmwStore"}
               PROVE  PatchSound(v)'
    BY Zenon DEF PatchSound
  <1>1. CurShape(v) /\ PatchSound(v)
    BY Zenon DEF Typed, Shape, Local, Sound
  <1>2. j \in Idx /\ ops[v][j].cmd = "RMW" /\ old[v] = index[ops[v][j].blk]
    BY <1>1, Zenon DEF CurShape, HoldLabels
  <1>3. ops[v][j].blk \in Blocks
    BY <1>2, OpAt, Zenon
  <1>4. CASE pc[v] = "rmwMerge" /\ old[v].clen # 0
    <2>1. /\ \A i \in Idx : ~OpOwns(w, i, old[v].grain)
          /\ mem'[old[v].grain] = mem[old[v].grain]
      BY <1>2, <1>3, <1>4, IndexedSafe, Zenon
    <2>2. ASSUME NEW t, Reading(v, j, t) PROVE t = old[v].grain
      BY <1>2, <2>2, Zenon DEF Reading
    <2>3. cstage'[v][j] = cstage[v][j]
      BY <1>2, <2>1, <2>2, Zenon DEF KeepsOp
    <2> QED
      BY <1>1, <1>4, <2>1, <2>3, Zenon DEF PatchSound
  <1>5. CASE pc[v] # "rmwMerge"
    <2>1. cstage'[v][j] = cstage[v][j]
      BY <1>2, <1>5, Zenon DEF KeepsOp, Reading
    <2> QED
      BY <1>1, <1>5, <2>1, Zenon DEF PatchSound
  <1> QED
    BY <1>4, <1>5, Zenon DEF PatchSound

(* What a step of worker w leaves to the other workers.                    *)
Apart(w) ==
  \A v \in Workers : v # w =>
    /\ pc'[v] = pc[v] /\ cur'[v] = cur[v] /\ old'[v] = old[v]
    /\ \A j \in Idx : KeepsOp(w, v, j)

(* So a step has only the worker's own ops to account for.                 *)
LEMMA Assemble ==
  ASSUME Typed, SlotOwnership, Sound, NEW w \in Workers, Around(w), Apart(w),
         PatchSound(w)', \A j \in Idx : WriteSound(w, j)' /\ ReadSound(w, j)'
  PROVE  Sound'
  <1>1. MemKept(w)
    BY Zenon DEF Around
  <1>2. ASSUME NEW b \in Blocks PROVE Stands(b)'
    <2>1. Stands(b)
      BY Zenon DEF Sound
    <2>2. CASE index'[b] = index[b]
      BY <1>1, <2>1, <2>2, ContentsKept, Zenon
    <2>3. CASE Replaced(w, b)
      BY <2>3, Zenon DEF Replaced
    <2> QED
      BY <2>2, <2>3, Zenon DEF Around
  <1>3. ASSUME NEW v \in Workers, v # w
        PROVE  PatchSound(v)' /\ \A j \in Idx : WriteSound(v, j)' /\ ReadSound(v, j)'
    <2>1. /\ pc'[v] = pc[v] /\ cur'[v] = cur[v] /\ old'[v] = old[v]
          /\ \A j \in Idx : KeepsOp(w, v, j)
      BY <1>3, Zenon DEF Apart
    <2>2. PatchSound(v)'
      BY <1>1, <2>1, PatchKept, Zenon
    <2>3. ASSUME NEW j \in Idx PROVE WriteSound(v, j)' /\ ReadSound(v, j)'
      <3>1. /\ Landed(v)' => Landed(v)
            /\ Onward(v, j)
        BY <2>1, Zenon DEF Landed, Snapped, Issued, Onward
      <3>2. WriteSound(v, j)'
        BY <1>1, <1>3, <2>1, <3>1, WriteKept, Zenon
      <3>3. ReadSound(v, j)'
        BY <1>3, <2>1, <3>1, ReadKept, Zenon
      <3> QED
        BY <3>2, <3>3, Zenon
    <2> QED
      BY <2>2, <2>3, Zenon
  <1> QED
    BY <1>2, <1>3, Zenon DEF Sound

-----------------------------------------------------------------------------
(* The steps that publish nothing and write no slot.                       *)

(* Op j of the worker that takes the step is left as it is.                *)
Rests(w, j) ==
  /\ ops'[w][j] = ops[w][j] /\ cstage'[w][j] = cstage[w][j] /\ seen'[w][j] = seen[w][j]
  /\ Onward(w, j)
  /\ Landed(w)' => Landed(w)
  /\ ~(pc'[w] = "lockedCopy" /\ j = cur'[w])

LEMMA Quietly ==
  ASSUME Typed, SlotOwnership, Sound, NEW w \in Workers, NEW l, NEW k, Goto(w, l, k),
         UNCHANGED <<index, mem>>,
         \A v \in Workers : v # w =>
           /\ ops'[v] = ops[v] /\ old'[v] = old[v]
           /\ \A j \in Idx : cstage'[v][j] = cstage[v][j] /\ seen'[v][j] = seen[v][j],
         PatchSound(w)',
         \A j \in Idx : Rests(w, j) \/ (WriteSound(w, j)' /\ ReadSound(w, j)')
  PROVE  Sound'
  <1>1. \A v \in Workers : v # w => pc'[v] = pc[v] /\ cur'[v] = cur[v]
    BY GotoEffect, Zenon DEF Typed
  <1>2. Around(w) /\ MemKept(w)
    BY Zenon DEF Around, MemKept
  <1>3. Apart(w)
    BY <1>1, Zenon DEF Apart, KeepsOp
  <1>4. ASSUME NEW j \in Idx, Rests(w, j) PROVE WriteSound(w, j)' /\ ReadSound(w, j)'
    <2>1. KeepsOp(w, w, j)
      BY <1>4, Zenon DEF Rests, KeepsOp
    <2>2. WriteSound(w, j)'
      BY <1>2, <1>4, <2>1, WriteKept, Zenon DEF Rests
    <2>3. ReadSound(w, j)'
      BY <1>2, <1>4, <2>1, ReadKept, Zenon DEF Rests
    <2> QED
      BY <2>2, <2>3, Zenon
  <1> QED
    BY <1>2, <1>3, <1>4, Assemble, Zenon

(* One that only moves the worker on.                                      *)
LEMMA Moves ==
  ASSUME Typed, SlotOwnership, Sound, NEW w \in Workers, NEW l, NEW k, Goto(w, l, k),
         l \notin {"lockedCopy", "rmwMerge", "rmwCopy", "rmwStore"},
         UNCHANGED <<index, mem, ops, cstage, seen>>,
         \A v \in Workers : v # w => old'[v] = old[v],
         Landed(w)' => Landed(w), \A j \in Idx : Onward(w, j)
  PROVE  Sound'
  <1>1. pc'[w] = l
    BY GotoEffect, Zenon DEF Typed
  <1>2. PatchSound(w)'
    BY <1>1, Zenon DEF PatchSound
  <1>3. \A j \in Idx : Rests(w, j)
    BY <1>1, Zenon DEF Rests
  <1>4. \A v \in Workers : v # w =>
          /\ ops'[v] = ops[v] /\ old'[v] = old[v]
          /\ \A j \in Idx : cstage'[v][j] = cstage[v][j] /\ seen'[v][j] = seen[v][j]
    BY Zenon
  <1>5. UNCHANGED <<index, mem>>
    BY Zenon
  <1>6. \A j \in Idx : Rests(w, j) \/ (WriteSound(w, j)' /\ ReadSound(w, j)')
    BY <1>3, Zenon
  <1> QED
    BY <1>2, <1>4, <1>5, <1>6, Quietly, Zenon

(* Outside the window of a read, and where all is launched.                *)
LEMMA OnwardFree ==
  ASSUME NEW w \in Workers, NEW j \in Idx,
         pc'[w] \notin Window \/ (pc[w] \in {"sync", "finish", "again"} /\ pc'[w] # "prepare")
  PROVE  Onward(w, j)
  <1>1. CASE pc'[w] \notin Window
    BY <1>1, Zenon DEF Onward, Snapped, Issued, Window
  <1>2. CASE pc[w] \in {"sync", "finish", "again"} /\ pc'[w] # "prepare"
    BY <1>2, Zenon DEF Onward, Snapped, Issued
  <1> QED
    BY <1>1, <1>2, Zenon

(* What the loop had work for is behind its cursor.                        *)
LEMMA PassedOver ==
  ASSUME Typed, NEW w \in Workers, NEW j \in Idx, NEW l, Over(w, l), Wants(w, l, j)
  PROVE  j < cur[w]
  <1>1. cur[w] \in 1..(MaxOps + 1)
    BY Zenon DEF Typed, TypeOK
  <1>2. ~(cur[w] <= j)
    BY Zenon DEF Over
  <1> QED
    BY <1>1, <1>2, StoreAssumption DEF Idx

LEMMA OnwardEnd ==
  ASSUME Typed, NEW w \in Workers, NEW j \in Idx,
         \/ Over(w, "prepare") /\ pc'[w] \in {"abort", "issue"} /\ cur'[w] = 1
         \/ Over(w, "abort") /\ pc'[w] = "issue" /\ cur'[w] = 1
         \/ Over(w, "issue") /\ pc'[w] = "sync"
  PROVE  Onward(w, j)
  <1>0. ~(j < 1)
    BY StoreAssumption DEF Idx
  <1>1. CASE Over(w, "prepare") /\ pc'[w] \in {"abort", "issue"} /\ cur'[w] = 1
    <2>1. ops[w][j].cmd = "READ" => j < cur[w]
      BY <1>1, PassedOver, Zenon DEF Wants
    <2> QED
      BY <1>0, <1>1, <2>1, Zenon DEF Over, Onward, Snapped, Issued
  <1>2. CASE Over(w, "abort") /\ pc'[w] = "issue" /\ cur'[w] = 1
    BY <1>0, <1>2, Zenon DEF Over, Onward, Snapped, Issued
  <1>3. CASE Over(w, "issue") /\ pc'[w] = "sync"
    <2>1. ops[w][j].dma = 1 /\ ops[w][j].err = "ok" => j < cur[w]
      BY <1>3, PassedOver, Zenon DEF Wants
    <2> QED
      BY <1>3, <2>1, Zenon DEF Over, Onward, Snapped, Issued
  <1> QED
    BY <1>1, <1>2, <1>3, Zenon

LEMMA S_Control ==
  ASSUME "sync" \notin Faults, Typed, SlotOwnership, Sound, NEW w \in Workers,
         \/ EndPrepare(w) \/ EndAbort(w) \/ EndIssue(w) \/ EndFinish(w)
         \/ EndAgain(w) \/ EndLocked(w) \/ EndPublish(w) \/ EndTrim(w)
         \/ wr_release(w) \/ RmwOut(w) \/ \E job \in Jobs : Admit(w, job)
  PROVE  Sound'
  <1>0. TypeOK
    BY Zenon DEF Typed
  <1>1. CASE EndPrepare(w) \/ EndAbort(w) \/ EndIssue(w)
    <2>1. /\ UNCHANGED <<index, mem, ops, cstage, seen, old>>
          /\ \/ Over(w, "prepare") /\ Goto(w, "abort", 1)
             \/ Over(w, "prepare") /\ Goto(w, "issue", 1)
             \/ Over(w, "abort") /\ Goto(w, "issue", 1)
             \/ Over(w, "issue") /\ Goto(w, "sync", 1)
      BY <1>1, Zenon DEF EndPrepare, EndAbort, EndIssue, shared
    <2>2. PICK l \in {"abort", "issue", "sync"} :
            /\ Goto(w, l, 1)
            /\ \/ Over(w, "prepare") /\ l \in {"abort", "issue"}
               \/ Over(w, "abort") /\ l = "issue"
               \/ Over(w, "issue") /\ l = "sync"
      BY <2>1, Zenon
    <2>3. pc'[w] = l /\ cur'[w] = 1
      BY <1>0, <2>2, GotoEffect
    <2>4. \A j \in Idx : Onward(w, j)
      BY <2>2, <2>3, OnwardEnd, Zenon
    <2>5. ~Landed(w)'
      BY <2>3, Zenon DEF Landed
    <2> QED
      BY <2>1, <2>2, <2>4, <2>5, Moves, Zenon
  <1>2. CASE \/ EndFinish(w) \/ EndAgain(w) \/ EndLocked(w) \/ EndPublish(w)
             \/ EndTrim(w) \/ wr_release(w) \/ RmwOut(w) \/ \E job \in Jobs : Admit(w, job)
    <2>1. /\ UNCHANGED <<index, mem, ops, cstage, seen>>
          /\ UNCHANGED old \/ \E e : old' = [old EXCEPT ![w] = e]
          /\ \E l, k : /\ Goto(w, l, k)
                       /\ \/ pc[w] \in {"finish", "again"} /\ l \in {"finish", "again", "publish", "locked"}
                          \/ pc[w] \in {"locked", "release"} /\ l = "publish"
                          \/ l = "piece"
      <3>1. CASE EndFinish(w)
        BY <3>1, Zenon DEF EndFinish, Over, shared
      <3>2. CASE EndAgain(w)
        BY <3>2, Zenon DEF EndAgain, Over, shared, LoseReads
      <3>3. CASE EndLocked(w)
        BY <3>3, Zenon DEF EndLocked, Over, shared
      <3>4. CASE EndPublish(w)
        BY <3>4, Zenon DEF EndPublish, shared
      <3>5. CASE EndTrim(w)
        BY <3>5, Zenon DEF EndTrim, shared
      <3>6. CASE wr_release(w)
        BY <3>6, Zenon DEF wr_release, Displace
      <3>7. CASE RmwOut(w)
        BY <3>7, Zenon DEF RmwOut
      <3>8. CASE \E job \in Jobs : Admit(w, job)
        BY <3>8, Zenon DEF Admit, shared
      <3> QED
        BY <1>2, <3>1, <3>2, <3>3, <3>4, <3>5, <3>6, <3>7, <3>8, Zenon
    <2>2. PICK l, k : /\ Goto(w, l, k)
                      /\ \/ pc[w] \in {"finish", "again"} /\ l \in {"finish", "again", "publish", "locked"}
                         \/ pc[w] \in {"locked", "release"} /\ l = "publish"
                         \/ l = "piece"
      BY <2>1, Zenon
    <2>3. pc'[w] = l
      BY <1>0, <2>2, GotoEffect, Zenon
    <2>4. \A j \in Idx : Onward(w, j)
      BY <2>2, <2>3, OnwardFree, Zenon DEF Window
    <2>5. (Landed(w)' => Landed(w)) /\ l \notin {"lockedCopy", "rmwMerge", "rmwCopy", "rmwStore"}
      BY <2>2, <2>3, Zenon DEF Landed
    <2>6. \A v \in Workers : v # w => old'[v] = old[v]
      BY <1>0, <2>1, Zenon DEF TypeOK
    <2> QED
      BY <2>1, <2>2, <2>4, <2>5, <2>6, Moves, Zenon
  <1> QED
    BY <1>1, <1>2, Zenon

-----------------------------------------------------------------------------
(* The steps that work on one op.                                          *)

LEMMA OnwardTurn ==
  ASSUME Typed, NEW w \in Workers, NEW i \in Idx, NEW l, Turn(w, l, i),
         l \in {"prepare", "abort", "issue", "finish", "again"},
         pc'[w] = l, cur'[w] = i + 1, NEW j \in Idx, j # i
  PROVE  Onward(w, j)
  <1>1. pc[w] = l
    BY Zenon DEF Turn
  <1>2. j < i + 1 => j < cur[w] \/ ~Wants(w, l, j)
    <2>1. cur[w] \in 1..(MaxOps + 1)
      BY Zenon DEF Typed, TypeOK
    <2>2. j < i + 1 => j < cur[w] \/ (cur[w] <= j /\ j < i)
      BY <2>1, StoreAssumption DEF Idx
    <2> QED
      BY <2>2, Zenon DEF Turn
  <1>3. CASE l = "prepare"
    <2>1. ops[w][j].cmd = "READ" => Wants(w, l, j)
      BY <1>3, Zenon DEF Wants
    <2> QED
      BY <1>1, <1>2, <1>3, <2>1, Zenon DEF Onward, Snapped, Issued
  <1>4. CASE l = "issue"
    <2>1. ops[w][j].dma = 1 /\ ops[w][j].err = "ok" => Wants(w, l, j)
      BY <1>4, Zenon DEF Wants
    <2> QED
      BY <1>1, <1>2, <1>4, <2>1, Zenon DEF Onward, Snapped, Issued
  <1>5. CASE l \in {"abort", "finish", "again"}
    BY <1>1, <1>5, Zenon DEF Onward, Snapped, Issued
  <1> QED
    BY <1>3, <1>4, <1>5, Zenon

(* Only op i of the worker and its staging slot change.                    *)
OnlyOp(w, i) ==
  /\ \A j \in Idx : j # i => ops'[w][j] = ops[w][j]
  /\ \A v \in Workers : v # w => ops'[v] = ops[v] /\ old'[v] = old[v]
  /\ \A v \in Workers, j \in Idx : v # w \/ j # i => cstage'[v][j] = cstage[v][j]
  /\ UNCHANGED <<index, mem, seen>>

LEMMA OnlyOpSet ==
  ASSUME TypeOK, NEW w \in Workers, NEW i \in Idx,
         UNCHANGED ops \/ \E n : SetOp(w, i, n),
         UNCHANGED cstage \/ \E c : cstage' = [cstage EXCEPT ![w][i] = c],
         UNCHANGED <<index, mem, seen>>, \A v \in Workers : v # w => old'[v] = old[v]
  PROVE  OnlyOp(w, i)
  <1>1. /\ \A j \in Idx : j # i => ops'[w][j] = ops[w][j]
        /\ \A v \in Workers : v # w => ops'[v] = ops[v]
    BY SetOpEffect, Zenon
  <1>2. cstage \in [Workers -> [Idx -> Stored]]
    BY Zenon DEF TypeOK
  <1>3. \A v \in Workers, j \in Idx : v # w \/ j # i => cstage'[v][j] = cstage[v][j]
    BY <1>2
  <1> QED
    BY <1>1, <1>3, Zenon DEF OnlyOp

LEMMA StageSet ==
  ASSUME TypeOK, NEW w \in Workers, NEW i \in Idx, NEW c,
         cstage' = [cstage EXCEPT ![w][i] = c]
  PROVE  cstage'[w][i] = c
  <1>1. cstage \in [Workers -> [Idx -> Stored]]
    BY Zenon DEF TypeOK
  <1> QED
    BY <1>1, Zenon

LEMMA Renews ==
  ASSUME Typed, SlotOwnership, Sound, NEW w \in Workers, NEW i \in Idx, NEW l, NEW k,
         Goto(w, l, k), OnlyOp(w, i),
         l \notin {"rmwMerge", "rmwCopy", "rmwStore"}, l = "lockedCopy" => k = i,
         Landed(w)' => Landed(w),
         \A j \in Idx : j # i => Onward(w, j),
         Rests(w, i) \/ (WriteSound(w, i)' /\ ReadSound(w, i)')
  PROVE  Sound'
  <1>1. pc'[w] = l /\ cur'[w] = k
    BY GotoEffect, Zenon DEF Typed
  <1>2. PatchSound(w)'
    BY <1>1, Zenon DEF PatchSound
  <1>3. ASSUME NEW j \in Idx, j # i PROVE Rests(w, j)
    BY <1>1, <1>3, Zenon DEF Rests, OnlyOp
  <1>4. \A j \in Idx : Rests(w, j) \/ (WriteSound(w, j)' /\ ReadSound(w, j)')
    BY <1>3, Zenon
  <1>5. /\ UNCHANGED <<index, mem>>
        /\ \A v \in Workers : v # w =>
             /\ ops'[v] = ops[v] /\ old'[v] = old[v]
             /\ \A j \in Idx : cstage'[v][j] = cstage[v][j] /\ seen'[v][j] = seen[v][j]
    BY Zenon DEF OnlyOp
  <1> QED
    BY <1>2, <1>4, <1>5, Quietly, Zenon

(* A turn of a loop.                                                       *)
LEMMA RenewsTurn ==
  ASSUME Typed, SlotOwnership, Sound, NEW w \in Workers, NEW i \in Idx,
         NEW l \in {"prepare", "abort", "issue", "finish", "again"},
         Turn(w, l, i), Goto(w, l, i + 1), OnlyOp(w, i),
         Rests(w, i) \/ (WriteSound(w, i)' /\ ReadSound(w, i)')
  PROVE  Sound'
  <1>1. pc'[w] = l /\ cur'[w] = i + 1 /\ pc[w] = l
    BY GotoEffect, Zenon DEF Typed, Turn
  <1>2. \A j \in Idx : j # i => Onward(w, j)
    BY <1>1, OnwardTurn, Zenon
  <1>3. Landed(w)' => Landed(w)
    BY <1>1, Zenon DEF Landed
  <1>4. l \notin {"rmwMerge", "rmwCopy", "rmwStore"} /\ l # "lockedCopy"
    BY Zenon
  <1> QED
    BY <1>2, <1>3, <1>4, Renews, Zenon

LEMMA Numbers == 0 # 1 /\ 0 # 2 /\ 1 # 2
  OBVIOUS

(* What a read has to show for its new state.                              *)
LEMMA ReadRenewed ==
  ASSUME Typed, Sound, NEW w \in Workers, NEW i \in Idx, UNCHANGED <<index, mem, seen>>,
         NEW o, o = ops[w][i], NEW n, n = ops'[w][i], o.cmd = "READ",
         n.cmd = "READ", n.blk = o.blk,
         n.dma = 2 => n.page \in seen[w][i] /\ pc'[w] # "prepare",
         n.dma # 2 => o.dma # 2,
         n.dma = 1 => n.grain = n.ent.grain,
         n.dma = 0 /\ n.err = "ok" =>
           n.ent.clen = 0 /\ (Snapped(w, i)' => ZeroPage \in seen[w][i]),
         n.dma = 1 /\ n.err = "ok" /\ Issued(w, i)' /\ index[o.blk] = n.ent =>
           cstage'[w][i] = mem[n.grain],
         n.dma = 1 /\ n.err = "ok" /\ pc'[w] = "lockedCopy" =>
           index[o.blk] = n.ent /\ cstage'[w][i] = mem[n.grain]
  PROVE  WriteSound(w, i)' /\ ReadSound(w, i)'
  <1>1. WriteSound(w, i)'
    BY Zenon DEF WriteSound
  <1>2. ReadSound(w, i)
    BY Zenon DEF Sound
  <1>3. Contents(o.blk)' = Contents(o.blk)
    BY Zenon DEF Contents, decomp_block, Intact
  <1>4. seen[w][i] \subseteq Page /\ (n.dma # 2 => Contents(o.blk) \in seen[w][i])
    BY <1>2, Zenon DEF ReadSound
  <1>5. ReadSound(w, i)'
    BY <1>3, <1>4, Zenon DEF ReadSound
  <1> QED
    BY <1>1, <1>5, Zenon

(* A fresh snapshot.  Its copy is still to be launched.                    *)
LEMMA SnapshotSound ==
  ASSUME Typed, Sound, NEW w \in Workers, NEW i \in Idx,
         ops[w][i].cmd = "READ", ops[w][i].dma # 2, index[ops[w][i].blk].clen = 0
  PROVE  ZeroPage \in seen[w][i]
  <1>1. ReadSound(w, i)
    BY Zenon DEF Sound
  <1>2. Contents(ops[w][i].blk) = ZeroPage
    BY Zenon DEF Contents
  <1> QED
    BY <1>1, <1>2, Zenon DEF ReadSound

LEMMA TookIntact ==
  ASSUME NEW o \in Blkop, NEW img, NEW k, Intact(img, k), NEW n, n = Took(o, img, k)
  PROVE  /\ n.page = img.page /\ n.cmd = o.cmd /\ n.blk = o.blk
         /\ n.dma = 2 /\ n.dma # 1 /\ n.dma # 0
  BY DEF Took, decomp_block, DecompErr, Blkop

LEMMA Codes == 0 # 1 /\ 0 # 2 /\ 1 # 2
  OBVIOUS

(* A read is done with a copy of the image the entry names: it has what    *)
(* its block holds.                                                        *)
LEMMA TakenSound ==
  ASSUME Typed, Sound, NEW w \in Workers, NEW i \in Idx, NEW o
  PROVE  /\ o = ops[w][i] /\ o.cmd = "READ" /\ o.dma = 1
         /\ index[o.blk] = o.ent /\ cstage[w][i] = mem[o.grain]
         /\ SetOp(w, i, Took(o, cstage[w][i], o.ent.clen))
         /\ UNCHANGED <<index, mem, seen>> /\ pc'[w] # "prepare"
         => WriteSound(w, i)' /\ ReadSound(w, i)'
  <1>0. SUFFICES ASSUME o = ops[w][i], o.cmd = "READ", o.dma = 1,
                        index[o.blk] = o.ent, cstage[w][i] = mem[o.grain],
                        SetOp(w, i, Took(o, cstage[w][i], o.ent.clen)),
                        UNCHANGED <<index, mem, seen>>, pc'[w] # "prepare"
                 PROVE  WriteSound(w, i)' /\ ReadSound(w, i)'
    BY Zenon
  <1>1. TypeOK /\ o \in Blkop /\ o.blk \in Blocks /\ OpShape(w, i) /\ ReadSound(w, i)
    BY <1>0, OpAt, Zenon DEF Sound, Typed
  <1>2. o.ent.clen # 0 /\ o.grain = o.ent.grain
    BY <1>0, <1>1, Zenon DEF OpShape, ReadSound
  <1>3. mem[o.grain] \in Whole /\ mem[o.grain].n = o.ent.clen
    BY <1>0, <1>1, <1>2, Zenon DEF Sound, Stands
  <1>4. Intact(cstage[w][i], o.ent.clen)
    BY <1>0, <1>3, WholeIntact, Zenon DEF Intact
  <1>5. Contents(o.blk) = cstage[w][i].page
    BY <1>0, <1>2, <1>4, Zenon DEF Contents, decomp_block
  <1>6. PICK n : n = Took(o, cstage[w][i], o.ent.clen) /\ SetOp(w, i, n)
    BY <1>0, Zenon
  <1>7. /\ n.page = cstage[w][i].page /\ n.cmd = o.cmd /\ n.blk = o.blk
        /\ n.dma = 2 /\ n.dma # 1 /\ n.dma # 0
    BY <1>1, <1>4, <1>6, TookIntact
  <1>8. n.page \in seen[w][i]
    <2>1. o.cmd = "READ" /\ o = ops[w][i] /\ o.dma # 2
      BY <1>0, Codes, Zenon
    <2> QED
      BY <1>1, <1>5, <1>7, <2>1, Zenon DEF ReadSound
  <1>9. ops'[w][i] = n
    BY <1>1, <1>6, SetOpEffect
  <1>10. o = ops[w][i] /\ o.cmd = "READ" /\ UNCHANGED <<index, mem, seen>> /\ pc'[w] # "prepare"
    BY <1>0, Zenon
  <1> QED
    BY <1>7, <1>8, <1>9, <1>10, ReadRenewed, Zenon

LEMMA S_wr_prepare ==
  ASSUME Typed, SlotOwnership, Sound, NEW w \in Workers, NEW i \in Idx, wr_prepare(w, i)
  PROVE  Sound'
  <1> DEFINE o == ops[w][i]
  <1>0. TypeOK /\ o \in Blkop /\ o.cmd = "WRITE" /\ o.page \in Page
    <2>1. WriteSound(w, i) /\ o.cmd = "WRITE"
      BY Zenon DEF Sound, wr_prepare
    <2> QED
      BY <2>1, OpAt, Zenon DEF Typed, WriteSound
  <1>1. /\ Turn(w, "prepare", i) /\ Goto(w, "prepare", i + 1)
        /\ cstage' = [cstage EXCEPT ![w][i] = comp_block(o.page)]
        /\ \E n : SetOp(w, i, n) /\ \/ \E s \in Slots : n = Reserved(o, s)
                                    \/ n = Refused(o, "ENOSPC")
        /\ UNCHANGED <<index, mem, seen, old>>
    BY <1>0, Zenon DEF wr_prepare, TypeOK
  <1>2. PICK n : SetOp(w, i, n) /\ \/ \E s \in Slots : n = Reserved(o, s)
                                   \/ n = Refused(o, "ENOSPC")
    BY <1>1, Zenon
  <1>3. pc'[w] = "prepare"
    BY <1>0, <1>1, GotoEffect, Zenon
  <1>10. ops'[w][i] = n
    BY <1>0, <1>2, SetOpEffect
  <1>11. cstage'[w][i] = comp_block(o.page)
    BY <1>0, <1>1, StageSet, Zenon
  <1>4. OnlyOp(w, i)
    BY <1>0, <1>1, <1>2, OnlyOpSet, Zenon
  <1>5. ~Landed(w)'
    BY <1>3, Zenon DEF Landed
  <1>6. comp_block(o.page) \in Whole
    BY <1>0, StoreAssumption, Zenon DEF comp_block, Whole, AnyPage
  <1>7. n.cmd = "WRITE" /\ n.page = o.page /\ (n.err = "ok" => n.dma = 1)
    <2>1. CASE n = Refused(o, "ENOSPC")
      BY <1>0, <2>1, Zenon DEF Refused, Blkop
    <2>2. ASSUME NEW s \in Slots, n = Reserved(o, s)
          PROVE  n.cmd = "WRITE" /\ n.page = o.page /\ n.dma = 1
      BY <1>0, <2>2, Zenon DEF Reserved, Blkop
    <2> QED
      BY <1>2, <2>1, <2>2, Zenon
  <1>8. n.dma = 1 => n.dma # 0
    OBVIOUS
  <1>9. WriteSound(w, i)' /\ ReadSound(w, i)'
    BY <1>0, <1>5, <1>6, <1>7, <1>8, <1>10, <1>11, Zenon DEF WriteSound, ReadSound
  <1> QED
    BY <1>1, <1>4, <1>9, RenewsTurn, Zenon

LEMMA S_wr_abort ==
  ASSUME Typed, SlotOwnership, Sound, NEW w \in Workers, NEW i \in Idx, wr_abort(w, i)
  PROVE  Sound'
  <1> DEFINE o == ops[w][i]
  <1>1. /\ Turn(w, "abort", i) /\ Goto(w, "abort", i + 1) /\ SetOp(w, i, GivenBack(o))
        /\ UNCHANGED <<index, mem, seen, old, cstage>>
    BY Zenon DEF wr_abort
  <1>0. TypeOK /\ o \in Blkop /\ o.cmd = "WRITE" /\ o.page \in Page
    <2>1. WriteSound(w, i) /\ o.cmd = "WRITE"
      BY <1>1, Zenon DEF Sound, Turn, Wants
    <2> QED
      BY <2>1, OpAt, Zenon DEF Typed, WriteSound
  <1>2. PICK n : n = GivenBack(o) /\ SetOp(w, i, n)
    BY <1>1, Zenon
  <1>3. ops'[w][i] = n
    BY <1>0, <1>2, SetOpEffect
  <1>4. OnlyOp(w, i)
    BY <1>0, <1>1, OnlyOpSet, Zenon
  <1>6. n.cmd = "WRITE" /\ n.page = o.page /\ n.grain = SLOT_NONE
    BY <1>0, <1>2, GivenBackOp, Zenon
  <1>7. WriteSound(w, i)' /\ ReadSound(w, i)'
    BY <1>0, <1>3, <1>6, Zenon DEF WriteSound, ReadSound
  <1> QED
    BY <1>1, <1>4, <1>7, RenewsTurn, Zenon

(* A snapshot, taken with the copy still to come.                          *)
LEMMA SnapshotStep ==
  ASSUME Typed, SlotOwnership, Sound, NEW w \in Workers, NEW i \in Idx,
         ops[w][i].cmd = "READ", ops[w][i].dma # 2, SetOp(w, i, Snapshot(ops[w][i])),
         UNCHANGED <<index, mem, seen>>, ~Issued(w, i)' \/ index[ops[w][i].blk].clen = 0,
         pc'[w] # "lockedCopy"
  PROVE  WriteSound(w, i)' /\ ReadSound(w, i)'
  <1> SUFFICES ASSUME NEW o, o = ops[w][i], NEW n, n = Snapshot(o), SetOp(w, i, n)
               PROVE  WriteSound(w, i)' /\ ReadSound(w, i)'
    BY Zenon
  <1>1. TypeOK /\ o \in Blkop
    BY OpAt, Zenon DEF Typed
  <1>2. /\ n \in Blkop /\ n.cmd = o.cmd /\ n.blk = o.blk
        /\ n.ent = index[o.blk] /\ n.grain = index[o.blk].grain
        /\ n.dma = IF index[o.blk].clen = 0 THEN 0 ELSE 1
    BY <1>1, SnapshotOp, Zenon
  <1>3. ops'[w][i] = n
    BY <1>1, SetOpEffect
  <1>4. /\ n.dma # 2 /\ (n.dma = 0 => n.ent.clen = 0) /\ n.grain = n.ent.grain
        /\ n.dma = 1 => ~Issued(w, i)'
        /\ n.cmd = "READ" /\ o.cmd = "READ" /\ o.dma # 2
    BY <1>2, Numbers, ZenonT(40)
  <1>5. n.dma = 0 => ZeroPage \in seen[w][i]
    BY <1>2, <1>4, SnapshotSound, Zenon
  <1>6. /\ n.dma = 0 /\ n.err = "ok" =>
             n.ent.clen = 0 /\ (Snapped(w, i)' => ZeroPage \in seen[w][i])
        /\ n.dma = 1 /\ n.err = "ok" /\ Issued(w, i)' /\ index[o.blk] = n.ent =>
             cstage'[w][i] = mem[n.grain]
        /\ n.dma = 1 => n.grain = n.ent.grain
    BY <1>4, <1>5, Zenon
  <1>7. n.cmd = "READ" /\ n.blk = o.blk /\ n.dma # 2 /\ o.cmd = "READ" /\ o.dma # 2
    BY <1>2, <1>4, Zenon
  <1> QED
    BY <1>3, <1>6, <1>7, ReadRenewed, ZenonT(60)

LEMMA S_rd_prepare ==
  ASSUME Typed, SlotOwnership, Sound, NEW w \in Workers, NEW i \in Idx, rd_prepare(w, i)
  PROVE  Sound'
  <1>0. TypeOK
    BY Zenon DEF Typed
  <1>1. /\ Turn(w, "prepare", i) /\ Goto(w, "prepare", i + 1)
        /\ SetOp(w, i, Snapshot(ops[w][i])) /\ ops[w][i].cmd = "READ"
        /\ UNCHANGED <<index, mem, seen, old, cstage>>
    BY Zenon DEF rd_prepare, shared
  <1>2. pc'[w] = "prepare" /\ cur'[w] = i + 1
    BY <1>0, <1>1, GotoEffect, Zenon
  <1>3. ops[w][i].dma # 2
    BY <1>1, Zenon DEF Sound, ReadSound, Turn
  <1>4. OnlyOp(w, i)
    BY <1>0, <1>1, OnlyOpSet, Zenon
  <1>5. ~Issued(w, i)'
    BY <1>2, Zenon DEF Issued
  <1>6. WriteSound(w, i)' /\ ReadSound(w, i)'
    BY <1>1, <1>2, <1>3, <1>5, SnapshotStep, Zenon
  <1> QED
    BY <1>1, <1>4, <1>6, RenewsTurn, Zenon

LEMMA S_Resnapshot ==
  ASSUME Typed, SlotOwnership, Sound, NEW w \in Workers, NEW i \in Idx, Resnapshot(w, i)
  PROVE  Sound'
  <1>0. TypeOK
    BY Zenon DEF Typed
  <1>1. /\ pc[w] = "again" /\ SetOp(w, i, Snapshot(ops[w][i]))
        /\ ops[w][i].cmd = "READ" /\ ops[w][i].dma # 2
        /\ UNCHANGED <<index, mem, seen, old, cstage>>
    BY Zenon DEF Resnapshot, Turn, Wants, shared
  <1>2. PICK l \in {"again", "againIssue"}, k \in {i, i + 1} :
          Goto(w, l, k) /\ (index[ops[w][i].blk].clen = 0 \/ (l = "againIssue" /\ k = i))
    BY Zenon DEF Resnapshot
  <1>3. pc'[w] = l /\ cur'[w] = k
    BY <1>0, <1>2, GotoEffect, Zenon
  <1>4. OnlyOp(w, i)
    BY <1>0, <1>1, OnlyOpSet, Zenon
  <1>5. /\ Landed(w)' => Landed(w)
        /\ ~Issued(w, i)' \/ index[ops[w][i].blk].clen = 0
        /\ \A j \in Idx : j # i => Onward(w, j)
    BY <1>1, <1>2, <1>3, OnwardFree, Zenon DEF Landed, Issued
  <1>6. WriteSound(w, i)' /\ ReadSound(w, i)'
    BY <1>1, <1>3, <1>5, SnapshotStep, Zenon
  <1> QED
    BY <1>2, <1>4, <1>5, <1>6, Renews, Zenon

(* A launch: the copy holds what the slot holds.                           *)
LEMMA LaunchSound ==
  ASSUME Typed, Sound, NEW w \in Workers, NEW i \in Idx, NEW o, o = ops[w][i],
         o.cmd = "READ", o.dma = 1, UNCHANGED <<index, mem, seen, ops>>,
         cstage' = [cstage EXCEPT ![w][i] = mem[o.grain]], pc'[w] # "lockedCopy"
  PROVE  WriteSound(w, i)' /\ ReadSound(w, i)'
  <1>1. TypeOK /\ o.grain = o.ent.grain
    BY Zenon DEF Typed, Sound, ReadSound
  <1>2. cstage \in [Workers -> [Idx -> Stored]]
    BY <1>1, Zenon DEF TypeOK
  <1>3. cstage'[w][i] = mem[o.grain]
    BY <1>2, Zenon
  <1>4. ops'[w][i] = o /\ o.dma # 2 /\ o.dma # 0
    OBVIOUS
  <1> QED
    BY <1>1, <1>3, <1>4, ReadRenewed, ZenonT(40)

(* A launch that fails.                                                    *)
LEMMA RefusedSound ==
  ASSUME Typed, Sound, NEW w \in Workers, NEW i \in Idx, NEW o, o = ops[w][i],
         o.dma = 1, UNCHANGED <<index, mem, seen>>, NEW n, n = Refused(o, "EIO"),
         ops'[w][i] = n, Landed(w)' => Landed(w)
  PROVE  WriteSound(w, i)' /\ ReadSound(w, i)'
  <1>1. o \in Blkop
    BY OpAt, Zenon
  <1>2. /\ n.cmd = o.cmd /\ n.blk = o.blk /\ n.page = o.page
        /\ n.err # "ok" /\ n.dma # 1 /\ n.dma # 2 /\ o.dma # 2
    BY <1>1 DEF Refused, Blkop
  <1>3. CASE o.cmd = "READ"
    BY <1>2, <1>3, ReadRenewed, ZenonT(40)
  <1>4. CASE o.cmd # "READ"
    <2>1. WriteSound(w, i)
      BY Zenon DEF Sound
    <2> QED
      BY <1>2, <1>4, <2>1, Zenon DEF WriteSound, ReadSound
  <1> QED
    BY <1>3, <1>4, Zenon

LEMMA S_IssueRead ==
  ASSUME Typed, SlotOwnership, Sound, NEW w \in Workers, NEW i \in Idx, IssueRead(w, i)
  PROVE  Sound'
  <1>0. TypeOK
    BY Zenon DEF Typed
  <1>1. /\ Turn(w, "issue", i) /\ Goto(w, "issue", i + 1)
        /\ ops[w][i].cmd = "READ" /\ ops[w][i].dma = 1
        /\ cstage' = [cstage EXCEPT ![w][i] = mem[ops[w][i].grain]]
        /\ UNCHANGED <<index, mem, seen, old, ops>>
    BY Zenon DEF IssueRead, Turn, Wants, shared
  <1>2. pc'[w] = "issue"
    BY <1>0, <1>1, GotoEffect, Zenon
  <1>3. OnlyOp(w, i)
    BY <1>0, <1>1, OnlyOpSet, Zenon
  <1>4. WriteSound(w, i)' /\ ReadSound(w, i)'
    BY <1>1, <1>2, LaunchSound, Zenon
  <1> QED
    BY <1>1, <1>3, <1>4, RenewsTurn, Zenon

LEMMA S_IssueFails ==
  ASSUME Typed, SlotOwnership, Sound, NEW w \in Workers, NEW i \in Idx, IssueFails(w, i)
  PROVE  Sound'
  <1>0. TypeOK
    BY Zenon DEF Typed
  <1>1. /\ Turn(w, "issue", i) /\ Goto(w, "issue", i + 1) /\ ops[w][i].dma = 1
        /\ \E n : n = Refused(ops[w][i], "EIO") /\ SetOp(w, i, n)
        /\ UNCHANGED <<index, mem, seen, old, cstage>>
    BY Zenon DEF IssueFails, Turn, Wants, shared
  <1>2. PICK n : n = Refused(ops[w][i], "EIO") /\ SetOp(w, i, n)
    BY <1>1, Zenon
  <1>3. ops'[w][i] = n
    BY <1>0, <1>2, SetOpEffect
  <1>4. ~Landed(w)'
    <2>1. pc'[w] = "issue"
      BY <1>0, <1>1, GotoEffect, Zenon
    <2> QED
      BY <2>1, Zenon DEF Landed
  <1>5. OnlyOp(w, i)
    BY <1>0, <1>1, <1>2, OnlyOpSet, Zenon
  <1>6. WriteSound(w, i)' /\ ReadSound(w, i)'
    BY <1>1, <1>2, <1>3, <1>4, RefusedSound, Zenon
  <1> QED
    BY <1>1, <1>5, <1>6, RenewsTurn, Zenon

LEMMA S_Reissue ==
  ASSUME Typed, SlotOwnership, Sound, NEW w \in Workers, Reissue(w)
  PROVE  Sound'
  <1> SUFFICES ASSUME NEW i, i = cur[w] PROVE Sound'
    BY Zenon
  <1>0. TypeOK /\ i \in Idx /\ ops[w][i].cmd = "READ" /\ ops[w][i].dma = 1
    BY Zenon DEF Typed, Shape, Local, CurShape, Reissue
  <1>1. /\ pc[w] = "againIssue" /\ Goto(w, "again", i + 1)
        /\ \/ /\ cstage' = [cstage EXCEPT ![w][i] = mem[ops[w][i].grain]]
              /\ UNCHANGED ops
           \/ /\ \E n : n = Refused(ops[w][i], "EIO") /\ SetOp(w, i, n)
              /\ UNCHANGED cstage
        /\ UNCHANGED <<index, mem, seen, old>>
    BY Zenon DEF Reissue, shared
  <1>2. pc'[w] = "again"
    BY <1>0, <1>1, GotoEffect, Zenon
  <1>3. OnlyOp(w, i)
    <2>1. /\ UNCHANGED ops \/ \E n : SetOp(w, i, n)
          /\ UNCHANGED cstage \/ \E c : cstage' = [cstage EXCEPT ![w][i] = c]
      BY <1>1, Zenon
    <2> QED
      BY <1>0, <1>1, <2>1, OnlyOpSet, ZenonT(30)
  <1>4. Landed(w) /\ \A j \in Idx : j # i => Onward(w, j)
    BY <1>1, <1>2, Zenon DEF Landed, Onward, Snapped, Issued
  <1>5. WriteSound(w, i)' /\ ReadSound(w, i)'
    <2>1. CASE cstage' = [cstage EXCEPT ![w][i] = mem[ops[w][i].grain]] /\ UNCHANGED ops
      BY <1>0, <1>1, <1>2, <2>1, LaunchSound, Zenon
    <2>2. ASSUME NEW n, n = Refused(ops[w][i], "EIO"), SetOp(w, i, n)
          PROVE  WriteSound(w, i)' /\ ReadSound(w, i)'
      <3>1. ops'[w][i] = n
        BY <1>0, <2>2, SetOpEffect
      <3> QED
        BY <1>0, <1>1, <1>4, <2>2, <3>1, RefusedSound, Zenon
    <2> QED
      BY <1>1, <2>1, <2>2, Zenon
  <1>6. "again" \notin {"rmwMerge", "rmwCopy", "rmwStore"} /\ "again" # "lockedCopy"
    BY Zenon
  <1> QED
    BY <1>0, <1>1, <1>3, <1>4, <1>5, <1>6, Renews, Zenon

LEMMA S_rd_finish ==
  ASSUME Typed, SlotOwnership, Sound, NEW w \in Workers, NEW i \in Idx, rd_finish(w, i)
  PROVE  Sound'
  <1> SUFFICES ASSUME NEW o, o = ops[w][i] PROVE Sound'
    BY Zenon
  <1>0. TypeOK /\ o \in Blkop /\ OpShape(w, i) /\ ReadSound(w, i)
    BY OpAt, Zenon DEF Typed, Sound
  <1>1. /\ Turn(w, "finish", i) /\ Goto(w, "finish", i + 1)
        /\ pc[w] = "finish" /\ o.cmd = "READ" /\ o.err = "ok" /\ o.dma # 2
        /\ UNCHANGED <<index, mem, seen, old, cstage>>
    BY Zenon DEF rd_finish, Turn, Wants, shared
  <1>2. pc'[w] = "finish"
    BY <1>0, <1>1, GotoEffect, Zenon
  <1>3. \/ o.ent.clen = 0 /\ \E n : n = Zeroed(o) /\ SetOp(w, i, n)
        \/ UNCHANGED ops
        \/ /\ o.ent.clen # 0 /\ index[o.blk] = o.ent
           /\ \E n : n = Took(o, cstage[w][i], o.ent.clen) /\ SetOp(w, i, n)
    BY Zenon DEF rd_finish, Validates
  <1>4. OnlyOp(w, i)
    <2>1. UNCHANGED ops \/ \E n : SetOp(w, i, n)
      BY <1>3, Zenon
    <2> QED
      BY <1>0, <1>1, <2>1, OnlyOpSet, Zenon
  <1>5. CASE UNCHANGED ops
    <2>1. Onward(w, i)
      BY <1>1, <1>2, OnwardFree, Zenon
    <2>2. Rests(w, i)
      BY <1>1, <1>2, <1>5, <2>1, Zenon DEF Rests, Landed
    <2> QED
      BY <1>1, <1>4, <2>2, RenewsTurn, Zenon
  <1>6. ASSUME o.ent.clen = 0, NEW n, n = Zeroed(o), SetOp(w, i, n) PROVE Sound'
    <2>1. ops'[w][i] = n
      BY <1>0, <1>6, SetOpEffect
    <2>2. n.cmd = o.cmd /\ n.blk = o.blk /\ n.dma = 2 /\ n.page = ZeroPage
      BY <1>0, <1>6, Zenon DEF Zeroed, Blkop
    <2>3. o.dma = 0
      <3>1. o.dma # 1
        BY <1>0, <1>1, <1>6, Zenon DEF OpShape
      <3>2. o.dma \in {0, 1, 2}
        BY <1>0, Zenon DEF Blkop
      <3> QED
        BY <1>1, <3>1, <3>2, Zenon
    <2>4. n.page \in seen[w][i]
      BY <1>0, <1>1, <2>2, <2>3, Zenon DEF ReadSound, Snapped
    <2>5. n.dma # 1 /\ n.dma # 0
      BY <2>2
    <2>6. WriteSound(w, i)' /\ ReadSound(w, i)'
      BY <1>1, <1>2, <2>1, <2>2, <2>4, <2>5, ReadRenewed, ZenonT(40)
    <2> QED
      BY <1>1, <1>4, <2>6, RenewsTurn, Zenon
  <1>7. ASSUME o.ent.clen # 0, index[o.blk] = o.ent,
               NEW n, n = Took(o, cstage[w][i], o.ent.clen), SetOp(w, i, n)
        PROVE  Sound'
    <2>2. o.dma = 1
      <3>1. o.dma # 0
        BY <1>0, <1>1, <1>7, Zenon DEF ReadSound
      <3>2. o.dma \in {0, 1, 2}
        BY <1>0, Zenon DEF Blkop
      <3> QED
        BY <1>1, <3>1, <3>2, Zenon
    <2>3. cstage[w][i] = mem[o.grain]
      BY <1>0, <1>1, <1>7, <2>2, Zenon DEF ReadSound, Issued
    <2>6. WriteSound(w, i)' /\ ReadSound(w, i)'
      BY <1>1, <1>2, <1>7, <2>2, <2>3, TakenSound, Zenon
    <2> QED
      BY <1>1, <1>4, <2>6, RenewsTurn, Zenon
  <1> QED
    BY <1>3, <1>5, <1>6, <1>7, Zenon

LEMMA S_rd_block_locked ==
  ASSUME Typed, SlotOwnership, Sound, NEW w \in Workers, NEW i \in Idx,
         rd_block_locked(w, i)
  PROVE  Sound'
  <1> SUFFICES ASSUME NEW o, o = ops[w][i], NEW m, m = Snapshot(o) PROVE Sound'
    BY Zenon
  <1>0. TypeOK /\ o \in Blkop /\ o.blk \in Blocks
    BY OpAt, Zenon DEF Typed
  <1>1. /\ pc[w] = "locked" /\ Goto(w, "lockedCopy", i) /\ o.cmd = "READ" /\ o.dma # 2
        /\ UNCHANGED <<index, mem, seen, old>>
    BY Zenon DEF rd_block_locked, Turn, Wants
  <1>2. /\ \E n : /\ SetOp(w, i, n)
                  /\ \/ /\ m.dma = 1 /\ n = m
                        /\ cstage' = [cstage EXCEPT ![w][i] = mem[m.grain]]
                     \/ m.dma = 0 /\ n = Zeroed(m)
                     \/ m.dma = 1 /\ n = Failed(m, "EIO")
        /\ UNCHANGED cstage \/ \E c : cstage' = [cstage EXCEPT ![w][i] = c]
    BY Zenon DEF rd_block_locked
  <1>3. PICK n : /\ SetOp(w, i, n)
                 /\ \/ /\ m.dma = 1 /\ n = m
                       /\ cstage' = [cstage EXCEPT ![w][i] = mem[m.grain]]
                    \/ m.dma = 0 /\ n = Zeroed(m)
                    \/ m.dma = 1 /\ n = Failed(m, "EIO")
    BY <1>2, Zenon
  <1>4. pc'[w] = "lockedCopy"
    BY <1>0, <1>1, GotoEffect, Zenon
  <1>5. ops'[w][i] = n
    BY <1>0, <1>3, SetOpEffect, Zenon
  <1>6. OnlyOp(w, i)
    BY <1>0, <1>1, <1>2, <1>3, OnlyOpSet, Zenon
  <1>7. Landed(w) /\ \A j \in Idx : Onward(w, j)
    BY <1>1, <1>4, OnwardFree, Zenon DEF Landed, Window
  <1>8. /\ m \in Blkop /\ m.cmd = o.cmd /\ m.blk = o.blk
        /\ m.ent = index[o.blk] /\ m.grain = index[o.blk].grain
        /\ m.dma = IF index[o.blk].clen = 0 THEN 0 ELSE 1
    BY <1>0, SnapshotOp, Zenon
  <1>9. WriteSound(w, i)' /\ ReadSound(w, i)'
    <2>1. CASE m.dma = 1 /\ n = m /\ cstage' = [cstage EXCEPT ![w][i] = mem[m.grain]]
      <3>1. cstage'[w][i] = mem[m.grain]
        <4>1. cstage \in [Workers -> [Idx -> Stored]]
          BY <1>0, Zenon DEF TypeOK
        <4> QED
          BY <2>1, <4>1, Zenon
      <3>2. /\ n.cmd = "READ" /\ n.blk = o.blk /\ n.dma # 2 /\ n.dma # 0
            /\ n.ent = index[o.blk] /\ n.grain = n.ent.grain
        BY <1>1, <1>8, <2>1, Numbers, ZenonT(40)
      <3>3. index[o.blk] = n.ent /\ cstage'[w][i] = mem[n.grain]
        BY <2>1, <3>1, <3>2, Zenon
      <3> QED
        BY <1>1, <1>5, <3>2, <3>3, ReadRenewed, ZenonT(60)
    <2>2. CASE m.dma = 0 /\ n = Zeroed(m)
      <3>1. n.cmd = "READ" /\ n.blk = o.blk /\ n.dma = 2 /\ n.page = ZeroPage
        BY <1>1, <1>8, <2>2, Zenon DEF Zeroed, Blkop
      <3>2. index[o.blk].clen = 0
        BY <1>8, <2>2, Numbers, ZenonT(40)
      <3>3. ZeroPage \in seen[w][i]
        BY <1>1, <3>2, SnapshotSound, Zenon
      <3>4. n.dma # 0 /\ n.dma # 1
        BY <3>1
      <3> QED
        BY <1>1, <1>4, <1>5, <3>1, <3>3, <3>4, ReadRenewed, Zenon
    <2>3. CASE m.dma = 1 /\ n = Failed(m, "EIO")
      <3>1. /\ n.cmd = "READ" /\ n.blk = o.blk /\ n.dma # 2 /\ n.err # "ok"
            /\ n.grain = n.ent.grain
        BY <1>1, <1>8, <2>3, Numbers, ZenonT(40) DEF Failed, Blkop
      <3> QED
        BY <1>1, <1>5, <3>1, ReadRenewed, Zenon
    <2> QED
      BY <1>3, <2>1, <2>2, <2>3, Zenon
  <1>10. "lockedCopy" \notin {"rmwMerge", "rmwCopy", "rmwStore"}
    BY Zenon
  <1> QED
    BY <1>1, <1>6, <1>7, <1>9, <1>10, Renews, Zenon

LEMMA S_LockedDone ==
  ASSUME "sync" \notin Faults, Typed, SlotOwnership, Sound, NEW w \in Workers, LockedDone(w)
  PROVE  Sound'
  <1> SUFFICES ASSUME NEW i, i = cur[w], NEW o, o = ops[w][i] PROVE Sound'
    BY Zenon
  <1>0. TypeOK /\ i \in Idx /\ o.cmd = "READ" /\ pc[w] = "lockedCopy"
    BY Zenon DEF Typed, Shape, Local, CurShape, HoldLabels, LockedDone
  <1>1. Goto(w, "locked", i + 1) /\ UNCHANGED <<index, mem, seen, old, cstage>>
    BY Zenon DEF LockedDone
  <1>2. PICK n : /\ SetOp(w, i, n)
                 /\ n = IF o.err = "ok" /\ o.dma = 1
                        THEN Took(o, cstage[w][i], o.ent.clen) ELSE o
    BY Zenon DEF LockedDone, Staged
  <1>3. pc'[w] = "locked"
    BY <1>0, <1>1, GotoEffect, Zenon
  <1>4. ops'[w][i] = n
    BY <1>0, <1>2, SetOpEffect, ZenonT(40)
  <1>5. OnlyOp(w, i)
    BY <1>0, <1>1, <1>2, OnlyOpSet, Zenon
  <1>6. Landed(w) /\ (\A j \in Idx : Onward(w, j)) /\ pc'[w] # "lockedCopy"
    BY <1>0, <1>3, OnwardFree, Zenon DEF Landed, Window
  <1>10. "locked" \notin {"rmwMerge", "rmwCopy", "rmwStore"} /\ "locked" # "lockedCopy"
    BY Zenon
  <1>7. ReadSound(w, i)
    BY <1>0, Zenon DEF Sound
  <1>8. CASE o.err = "ok" /\ o.dma = 1
    <2>1. index[o.blk] = o.ent /\ cstage[w][i] = mem[o.grain]
      BY <1>0, <1>7, <1>8, Zenon DEF ReadSound
    <2>2. n = Took(o, cstage[w][i], o.ent.clen)
      BY <1>2, <1>8, Zenon
    <2>3. SetOp(w, i, Took(o, cstage[w][i], o.ent.clen)) /\ pc'[w] # "prepare"
      BY <1>2, <1>3, <2>2, Zenon
    <2>5. WriteSound(w, i)' /\ ReadSound(w, i)'
      BY <1>0, <1>1, <1>8, <2>1, <2>3, TakenSound, Zenon
    <2> QED
      BY <1>0, <1>1, <1>5, <1>6, <1>10, <2>5, Renews, Zenon
  <1>9. CASE ~(o.err = "ok" /\ o.dma = 1)
    <2>1. n = o
      BY <1>2, <1>9, Zenon
    <2>2. Rests(w, i)
      BY <1>0, <1>1, <1>4, <1>6, <2>1, Zenon DEF Rests
    <2> QED
      BY <1>0, <1>1, <1>5, <1>6, <1>10, <2>2, Renews, Zenon
  <1> QED
    BY <1>8, <1>9, Zenon

-----------------------------------------------------------------------------
(* The steps that start from a fresh ops array.                            *)

LEMMA ContentsPage ==
  ASSUME Sound, NEW b \in Blocks
  PROVE  Contents(b) \in Page
  <1>1. CASE index[b].clen = 0
    BY <1>1, ZeroPageType, Zenon DEF Contents
  <1>2. CASE index[b].clen # 0
    <2>1. mem[index[b].grain] \in Whole /\ mem[index[b].grain].n = index[b].clen
      BY <1>2, Zenon DEF Sound, Stands
    <2> QED
      BY <1>2, <2>1, WholeIntact, Zenon DEF Contents
  <1> QED
    BY <1>1, <1>2, Zenon

LEMMA S_StartPiece ==
  ASSUME Typed, SlotOwnership, Sound, NEW w \in Workers, StartPiece(w)
  PROVE  Sound'
  <1>1. TypeOK /\ todo[w] \in Seq(Piece) /\ todo[w] # <<>>
    BY Zenon DEF Typed, TypeOK, StartPiece, Stopped
  <1>2. PICK asks : asks = Head(todo[w]).asks
    BY Zenon
  <1>3. asks \in [Idx -> Ask]
    <2>1. Head(todo[w]) \in Piece
      BY <1>1
    <2> QED
      BY <1>2, <2>1, Zenon DEF Piece
  <1>4. PICK l \in {"prepare", "trim", "rmw"} : Goto(w, l, 1)
    BY Zenon DEF StartPiece, FirstLabel
  <1>5. /\ ops' = [ops EXCEPT ![w] = [i \in Idx |-> blkop_set(asks[i])]]
        /\ seen' = [seen EXCEPT ![w] = [i \in Idx |-> IF asks[i].cmd = "READ"
                                                      THEN {Contents(asks[i].blk)} ELSE {}]]
        /\ UNCHANGED <<index, mem, cstage, old>>
    BY <1>2, Zenon DEF StartPiece, shared
  <1>6. pc'[w] = l /\ cur'[w] = 1
    BY <1>1, <1>4, GotoEffect
  <1>9. \A v \in Workers : v # w => ops'[v] = ops[v] /\ seen'[v] = seen[v]
    BY <1>1, <1>5, Zenon DEF TypeOK
  <1>7. PatchSound(w)'
    BY <1>6, Zenon DEF PatchSound
  <1>8. ASSUME NEW j \in Idx PROVE WriteSound(w, j)' /\ ReadSound(w, j)'
    <2>1. /\ ops'[w][j] = blkop_set(asks[j])
          /\ seen'[w][j] = IF asks[j].cmd = "READ" THEN {Contents(asks[j].blk)} ELSE {}
      BY <1>1, <1>5, Zenon DEF TypeOK
    <2>2. asks[j].page \in Page /\ asks[j].blk \in Blocks
      BY <1>3, Zenon DEF Ask
    <2>3. PICK n : n = ops'[w][j]
      BY Zenon
    <2>4. /\ n.cmd = asks[j].cmd /\ n.blk = asks[j].blk /\ n.page = asks[j].page
          /\ n.dma # 1 /\ n.dma # 2 /\ n.grain = SLOT_NONE /\ n.ent = Unwritten
      BY <2>1, <2>3 DEF blkop_set
    <2>5. WriteSound(w, j)'
      BY <2>2, <2>3, <2>4, Zenon DEF WriteSound
    <2>6. ~Snapped(w, j)'
      <3>1. ~(j < 1)
        BY StoreAssumption DEF Idx
      <3> QED
        BY <1>6, <3>1, Zenon DEF Snapped
    <2>7. Contents(n.blk)' = Contents(n.blk) /\ Contents(n.blk) \in Page
      <3>1. Contents(n.blk)' = Contents(n.blk)
        BY <1>5, Zenon DEF Contents, decomp_block, Intact
      <3> QED
        BY <2>2, <2>4, <3>1, ContentsPage, Zenon
    <2>8. n.cmd = "READ" => seen'[w][j] = {Contents(n.blk)}
      BY <2>1, <2>4, Zenon
    <2>9. ReadSound(w, j)'
      BY <2>3, <2>4, <2>6, <2>7, <2>8, UnwrittenEnt, Zenon DEF ReadSound
    <2> QED
      BY <2>5, <2>9, Zenon
  <1> QED
    BY <1>4, <1>5, <1>7, <1>8, <1>9, Quietly, Zenon

LEMMA S_Reply ==
  ASSUME Typed, SlotOwnership, Sound, NEW w \in Workers, Reply(w)
  PROVE  Sound'
  <1>1. /\ TypeOK /\ Goto(w, "idle", 1) /\ UNCHANGED <<index, mem, old>>
        /\ ops' = [ops EXCEPT ![w] = [i \in Idx |-> blkop_set(NoAsk)]]
        /\ cstage' = [cstage EXCEPT ![w] = [i \in Idx |-> Torn]]
        /\ seen' = [seen EXCEPT ![w] = [i \in Idx |-> {}]]
    BY Zenon DEF Reply, shared, Typed
  <1>2. pc'[w] = "idle"
    BY <1>1, GotoEffect, Zenon
  <1>3. \A v \in Workers : v # w =>
          ops'[v] = ops[v] /\ cstage'[v] = cstage[v] /\ seen'[v] = seen[v]
    BY <1>1, Zenon DEF TypeOK
  <1>4. ASSUME NEW j \in Idx PROVE ops'[w][j].cmd = "none"
    BY <1>1, Zenon DEF TypeOK, blkop_set, NoAsk
  <1>5. \A j \in Idx : WriteSound(w, j)' /\ ReadSound(w, j)'
    BY <1>4, Zenon DEF WriteSound, ReadSound
  <1>6. PatchSound(w)'
    BY <1>2, Zenon DEF PatchSound
  <1> QED
    BY <1>1, <1>3, <1>5, <1>6, Quietly, Zenon

-----------------------------------------------------------------------------
(* Discards and partial writes, up to the copy and the publish.            *)

LEMMA Vacuous ==
  ASSUME Typed', NEW w \in Workers, pc'[w] \in TrimLabels \cup RmwLabels, NEW j \in Idx
  PROVE  WriteSound(w, j)' /\ ReadSound(w, j)'
  <1>1. OpShape(w, j)'
    BY Zenon DEF Typed, Shape, Local
  <1>2. ops'[w][j].cmd # "READ" /\ ops'[w][j].cmd # "WRITE"
    BY <1>1, Zenon DEF OpShape
  <1> QED
    BY <1>2, Zenon DEF WriteSound, ReadSound

LEMMA Aside ==
  ASSUME Typed, SlotOwnership, Sound, Typed', NEW w \in Workers, NEW i \in Idx,
         NEW l \in TrimLabels \cup RmwLabels, NEW k, Goto(w, l, k), OnlyOp(w, i),
         l \in {"rmwMerge", "rmwCopy", "rmwStore"} => PatchSound(w)'
  PROVE  Sound'
  <1>1. pc'[w] = l
    BY GotoEffect, Zenon DEF Typed
  <1>2. PatchSound(w)'
    BY <1>1, Zenon DEF PatchSound
  <1>3. \A j \in Idx : WriteSound(w, j)' /\ ReadSound(w, j)'
    BY <1>1, Vacuous, Zenon
  <1>4. /\ UNCHANGED <<index, mem>>
        /\ \A v \in Workers : v # w =>
             /\ ops'[v] = ops[v] /\ old'[v] = old[v]
             /\ \A j \in Idx : cstage'[v][j] = cstage[v][j] /\ seen'[v][j] = seen[v][j]
    BY Zenon DEF OnlyOp
  <1> QED
    BY <1>2, <1>3, <1>4, Quietly, Zenon

LEMMA S_TrimCheck ==
  ASSUME Typed, SlotOwnership, Sound, Typed', NEW w \in Workers, NEW i \in Idx,
         TrimCheck(w, i)
  PROVE  Sound'
  <1>1. /\ UNCHANGED ops \/ \E n : SetOp(w, i, n)
        /\ UNCHANGED <<index, mem, seen, old, cstage>>
    BY Zenon DEF TrimCheck, shared
  <1>2. PICK l \in {"trim", "trimLock"}, k \in {i, i + 1} : Goto(w, l, k)
    BY Zenon DEF TrimCheck
  <1>3. l \in TrimLabels \cup RmwLabels /\ l \notin {"rmwMerge", "rmwCopy", "rmwStore"}
    BY <1>2, Zenon DEF TrimLabels
  <1>4. OnlyOp(w, i)
    BY <1>1, OnlyOpSet, Zenon DEF Typed
  <1> QED
    BY <1>2, <1>3, <1>4, Aside, Zenon

LEMMA S_Release ==
  ASSUME Typed, SlotOwnership, Sound, Typed', NEW w \in Workers,
         TrimRelease(w) \/ RmwRelease(w)
  PROVE  Sound'
  <1> SUFFICES ASSUME NEW i, i = cur[w] PROVE Sound'
    BY Zenon
  <1>0. TypeOK /\ i \in Idx
    BY Zenon DEF Typed, Shape, Local, CurShape, HoldLabels, TrimRelease, RmwRelease
  <1>1. /\ UNCHANGED <<index, mem, seen, ops, cstage>>
        /\ \E e : old' = [old EXCEPT ![w] = e]
    BY Zenon DEF TrimRelease, RmwRelease, Displace
  <1>2. PICK l \in {"trim", "rmwOut"}, k \in {i, i + 1} : Goto(w, l, k)
    BY Zenon DEF TrimRelease, RmwRelease
  <1>3. l \in TrimLabels \cup RmwLabels /\ l \notin {"rmwMerge", "rmwCopy", "rmwStore"}
    BY <1>2, Zenon DEF TrimLabels, RmwLabels
  <1>4. \A v \in Workers : v # w => old'[v] = old[v]
    BY <1>0, <1>1, Zenon DEF TypeOK
  <1>5. OnlyOp(w, i)
    BY <1>0, <1>1, <1>4, OnlyOpSet, Zenon
  <1> QED
    BY <1>0, <1>2, <1>3, <1>5, Aside, Zenon

LEMMA S_RmwLock ==
  ASSUME Typed, SlotOwnership, Sound, Typed', NEW w \in Workers, NEW i \in Idx,
         RmwLock(w, i)
  PROVE  Sound'
  <1> SUFFICES ASSUME NEW e, e = index[ops[w][i].blk] PROVE Sound'
    BY Zenon
  <1>0. TypeOK /\ {"rmwMerge", "rmwOut"} \subseteq TrimLabels \cup RmwLabels
    BY Zenon DEF Typed, RmwLabels
  <1>1. /\ UNCHANGED <<index, mem, seen>>
        /\ \/ /\ old' = [old EXCEPT ![w] = e]
              /\ cstage' = IF e.clen = 0 THEN cstage
                           ELSE [cstage EXCEPT ![w][i] = mem[e.grain]]
              /\ Goto(w, "rmwMerge", i)
              /\ UNCHANGED ops
           \/ /\ \E n : SetOp(w, i, n)
              /\ Goto(w, "rmwOut", i)
              /\ UNCHANGED <<old, cstage>>
    BY Zenon DEF RmwLock
  <1>2. OnlyOp(w, i)
    <2>1. /\ UNCHANGED ops \/ \E n : SetOp(w, i, n)
          /\ UNCHANGED cstage \/ \E c : cstage' = [cstage EXCEPT ![w][i] = c]
      BY <1>1, Zenon
    <2>2. \A v \in Workers : v # w => old'[v] = old[v]
      BY <1>0, <1>1, Zenon DEF TypeOK
    <2> QED
      BY <1>0, <1>1, <2>1, <2>2, OnlyOpSet, Zenon
  <1>3. CASE Goto(w, "rmwOut", i)
    BY <1>0, <1>2, <1>3, Aside, Zenon
  <1>4. CASE /\ old' = [old EXCEPT ![w] = e]
             /\ cstage' = IF e.clen = 0 THEN cstage
                          ELSE [cstage EXCEPT ![w][i] = mem[e.grain]]
             /\ Goto(w, "rmwMerge", i)
    <2>1. pc'[w] = "rmwMerge" /\ cur'[w] = i
      BY <1>0, <1>4, GotoEffect, Zenon
    <2>2. old'[w] = e
      BY <1>0, <1>4, Zenon DEF TypeOK
    <2>3. e.clen # 0 => cstage'[w][i] = mem[e.grain]
      BY <1>0, <1>4, StageSet, Zenon
    <2>4. PatchSound(w)'
      BY <1>1, <2>1, <2>2, <2>3, Zenon DEF PatchSound
    <2> QED
      BY <1>0, <1>2, <1>4, <2>4, Aside, Zenon
  <1> QED
    BY <1>1, <1>3, <1>4, Zenon

(* The page a partial write patches is the one its block holds.            *)
LEMMA MergedWhole ==
  ASSUME Typed, Sound, NEW w \in Workers, pc[w] = "rmwMerge",
         NEW i, i = cur[w], NEW o, o = ops[w][i],
         NEW e, e = old[w], NEW base,
         base = IF e.clen = 0 THEN ZeroPage ELSE decomp_block(cstage[w][i], e.clen)
  PROVE  comp_block(Merge(base, o.page, o.part)) \in Whole
  <1>1. RmwAt(w) /\ PatchSound(w) /\ CurShape(w)
    BY RmwHolds, Zenon DEF Sound, Typed, Shape, Local
  <1>2. o.blk \in Blocks /\ o.page \in Page /\ e = index[o.blk]
    BY <1>1, Zenon DEF RmwAt, CurShape
  <1>3. base \in Page
    <2>1. CASE e.clen = 0
      BY <2>1, ZeroPageType, Zenon
    <2>2. CASE e.clen # 0
      <3>1. cstage[w][i] = mem[e.grain]
        BY <1>1, <2>2, Zenon DEF PatchSound
      <3>2. mem[e.grain] \in Whole /\ mem[e.grain].n = e.clen
        BY <1>2, <2>2, Zenon DEF Sound, Stands
      <3> QED
        BY <2>2, <3>1, <3>2, WholeIntact, Zenon
    <2> QED
      BY <2>1, <2>2, Zenon
  <1>4. Merge(base, o.page, o.part) \in Page
    BY <1>2, <1>3, StoreAssumption, Zenon DEF Merge, Page
  <1>5. PICK p \in Page : p = Merge(base, o.page, o.part)
    BY <1>4, Zenon
  <1>6. comp_block(p) \in Whole
    BY StoreAssumption, Zenon DEF comp_block, Whole, AnyPage
  <1> QED
    BY <1>5, <1>6, Zenon

LEMMA S_RmwMerge ==
  ASSUME "sync" \notin Faults, Typed, SlotOwnership, Sound, Typed', NEW w \in Workers,
         RmwMerge(w)
  PROVE  Sound'
  <1> SUFFICES ASSUME NEW i, i = cur[w] PROVE Sound'
    BY Zenon
  <1>0. /\ TypeOK /\ i \in Idx /\ pc[w] = "rmwMerge"
        /\ {"rmwCopy", "rmwOut"} \subseteq TrimLabels \cup RmwLabels
    BY Zenon DEF Typed, Shape, Local, CurShape, HoldLabels, RmwMerge, RmwLabels
  <1>1. /\ UNCHANGED <<index, mem, seen>> /\ \E n : SetOp(w, i, n)
        /\ UNCHANGED cstage \/ \E c : cstage' = [cstage EXCEPT ![w][i] = c]
        /\ UNCHANGED old \/ \E f : old' = [old EXCEPT ![w] = f]
    BY Zenon DEF RmwMerge
  <1>2. \/ Goto(w, "rmwOut", i)
        \/ /\ Goto(w, "rmwCopy", i)
           /\ \E c \in Whole : cstage' = [cstage EXCEPT ![w][i] = c]
    <2>1. \/ Goto(w, "rmwOut", i)
          \/ /\ Goto(w, "rmwCopy", i)
             /\ \E img \in Staged(w, i) :
                  cstage' = [cstage EXCEPT ![w][i] = comp_block(Merge(
                    IF old[w].clen = 0 THEN ZeroPage ELSE decomp_block(img, old[w].clen),
                    ops[w][i].page, ops[w][i].part))]
      BY Zenon DEF RmwMerge
    <2>2. \A img \in Staged(w, i) : img = cstage[w][i]
      BY Zenon DEF Staged
    <2>3. comp_block(Merge(
            IF old[w].clen = 0 THEN ZeroPage ELSE decomp_block(cstage[w][i], old[w].clen),
            ops[w][i].page, ops[w][i].part)) \in Whole
      BY <1>0, MergedWhole, Zenon
    <2> QED
      BY <2>1, <2>2, <2>3, Zenon
  <1>3. OnlyOp(w, i)
    <2>1. \A v \in Workers : v # w => old'[v] = old[v]
      BY <1>0, <1>1, Zenon DEF TypeOK
    <2> QED
      BY <1>0, <1>1, <2>1, OnlyOpSet, Zenon
  <1>4. CASE Goto(w, "rmwOut", i)
    BY <1>0, <1>3, <1>4, Aside, Zenon
  <1>5. ASSUME Goto(w, "rmwCopy", i), NEW c \in Whole, cstage' = [cstage EXCEPT ![w][i] = c]
        PROVE  Sound'
    <2>1. pc'[w] = "rmwCopy" /\ cur'[w] = i
      BY <1>0, <1>5, GotoEffect, Zenon
    <2>2. cstage'[w][i] = c
      BY <1>0, <1>5, StageSet, Zenon
    <2>3. PatchSound(w)'
      BY <1>5, <2>1, <2>2, Zenon DEF PatchSound
    <2> QED
      BY <1>0, <1>3, <1>5, <2>3, Aside, Zenon
  <1> QED
    BY <1>2, <1>4, <1>5, Zenon

-----------------------------------------------------------------------------
(* The steps that write device memory, into slots their ops hold.          *)

LEMMA Overwrites ==
  ASSUME Typed, NEW w \in Workers, NEW S \in SUBSET Slots,
         \A s \in S : \E i \in Idx : OpOwns(w, i, s),
         \A s \in Slots \ S : mem'[s] = mem[s], Tear(S)
  PROVE  /\ MemKept(w)
         /\ \A v \in Workers, j \in Idx :
              \/ cstage'[v][j] = cstage[v][j]
              \/ \E i \in Idx, s \in Slots : OpOwns(w, i, s) /\ Reading(v, j, s)
  <1>1. MemKept(w)
    BY Zenon DEF MemKept
  <1>2. \A v \in Workers, j \in Idx :
          (\E s \in S : Reading(v, j, s)) \/ cstage'[v][j] = cstage[v][j]
    BY Zenon DEF Tear
  <1> QED
    BY <1>1, <1>2, Zenon

(* A step that writes only memory leaves every op as it is.                *)
LEMMA OverwriteKeeps ==
  ASSUME Typed, NEW w \in Workers, NEW S \in SUBSET Slots,
         \A s \in S : \E i \in Idx : OpOwns(w, i, s),
         \A s \in Slots \ S : mem'[s] = mem[s], Tear(S),
         NEW l, NEW k, Goto(w, l, k), UNCHANGED <<index, ops, old, seen>>
  PROVE  Around(w) /\ MemKept(w) /\ Apart(w) /\ \A j \in Idx : KeepsOp(w, w, j)
  <1>1. MemKept(w) /\ \A v \in Workers, j \in Idx : KeepsOp(w, v, j)
    BY Overwrites, Zenon DEF KeepsOp
  <1>2. Around(w)
    BY <1>1, Zenon DEF Around
  <1>3. \A v \in Workers : v # w => pc'[v] = pc[v] /\ cur'[v] = cur[v]
    BY GotoEffect, Zenon DEF Typed
  <1> QED
    BY <1>1, <1>2, <1>3, Zenon DEF Apart

LEMMA S_IssueWrite ==
  ASSUME Typed, SlotOwnership, Sound, NEW w \in Workers, NEW i \in Idx, IssueWrite(w, i)
  PROVE  Sound'
  <1> SUFFICES ASSUME NEW s, s = ops[w][i].grain PROVE Sound'
    BY Zenon
  <1>0. TypeOK
    BY Zenon DEF Typed
  <1>1. /\ Turn(w, "issue", i) /\ Goto(w, "issue", i + 1)
        /\ ops[w][i].cmd = "WRITE" /\ ops[w][i].dma = 1
        /\ mem' = [mem EXCEPT ![s] = Torn] /\ Tear({s})
        /\ UNCHANGED <<index, ops, old, seen>>
    BY Zenon DEF IssueWrite, Turn, Wants
  <1>2. s \in Slots /\ OpOwns(w, i, s)
    <2>1. ops[w][i].dma # 2
      BY <1>1
    <2>2. OpShape(w, i)
      BY OpAt, Zenon
    <2> QED
      BY <1>1, <2>1, <2>2, Zenon DEF OpShape, OpOwns
  <1>3. Around(w) /\ MemKept(w) /\ Apart(w) /\ \A j \in Idx : KeepsOp(w, w, j)
    <2>1. {s} \in SUBSET Slots /\ \A t \in {s} : \E j \in Idx : OpOwns(w, j, t)
      BY <1>2, Zenon
    <2>2. \A t \in Slots \ {s} : mem'[t] = mem[t]
      BY <1>0, <1>1, Zenon DEF TypeOK
    <2> QED
      BY <1>1, <2>1, <2>2, OverwriteKeeps, Zenon
  <1>4. pc'[w] = "issue" /\ cur'[w] = i + 1
    <2>1. Goto(w, "issue", i + 1)
      BY <1>1, Zenon
    <2> QED
      BY <1>0, <2>1, GotoEffect, Zenon
  <1>5. ~Landed(w)' /\ PatchSound(w)' /\ pc'[w] # "lockedCopy"
    BY <1>4, Zenon DEF Landed, PatchSound
  <1>6. ASSUME NEW j \in Idx PROVE WriteSound(w, j)' /\ ReadSound(w, j)'
    <2>1. WriteSound(w, j)'
      BY <1>3, <1>5, WriteKept, Zenon
    <2>2. Onward(w, j)
      <3>1. CASE j # i
        BY <1>1, <1>4, <3>1, OnwardTurn, Zenon
      <3>2. CASE j = i
        BY <1>1, <3>2, Zenon DEF Onward
      <3> QED
        BY <3>1, <3>2, Zenon
    <2>3. ReadSound(w, j)'
      BY <1>3, <1>5, <2>2, ReadKept, Zenon
    <2> QED
      BY <2>1, <2>3, Zenon
  <1> QED
    BY <1>3, <1>5, <1>6, Assemble, Zenon

LEMMA S_Synchronize ==
  ASSUME "sync" \notin Faults, Typed, SlotOwnership, Sound, NEW w \in Workers,
         Synchronize(w)
  PROVE  Sound'
  <1> DEFINE S == {ops[w][i].grain : i \in Writing(w)}
  <1>1. /\ pc[w] = "sync" /\ Goto(w, "finish", 1)
        /\ mem' = [s \in Slots |->
                     IF \E i \in Writing(w) : ops[w][i].grain = s
                     THEN cstage[w][CHOOSE i \in Writing(w) : ops[w][i].grain = s]
                     ELSE mem[s]]
        /\ Tear(S)
        /\ UNCHANGED <<index, ops, old, seen>>
    BY Zenon DEF Synchronize, LoseReads
  <1>2. ASSUME NEW i \in Writing(w)
        PROVE  i \in Idx /\ ops[w][i].grain \in Slots /\ OpOwns(w, i, ops[w][i].grain)
    <2>1. i \in Idx /\ ops[w][i].cmd = "WRITE" /\ ops[w][i].dma = 1 /\ ops[w][i].dma # 2
      BY DEF Writing
    <2>2. OpShape(w, i)
      BY <2>1, OpAt, Zenon
    <2> QED
      BY <2>1, <2>2, Zenon DEF OpShape, OpOwns
  <1>3. Around(w) /\ MemKept(w) /\ Apart(w) /\ \A j \in Idx : KeepsOp(w, w, j)
    <2>1. S \in SUBSET Slots /\ \A s \in S : \E j \in Idx : OpOwns(w, j, s)
      BY <1>2, Zenon
    <2>2. \A s \in Slots \ S : mem'[s] = mem[s]
      BY <1>1, Zenon
    <2> HIDE DEF S
    <2> QED
      BY <1>1, <2>1, <2>2, OverwriteKeeps, Zenon
  <1>4. pc'[w] = "finish"
    BY <1>1, GotoEffect, Zenon DEF Typed
  <1>5. PatchSound(w)' /\ pc'[w] # "lockedCopy"
    BY <1>4, Zenon DEF PatchSound
  <1>6. ASSUME NEW i \in Writing(w)
        PROVE  mem'[ops[w][i].grain] = cstage[w][i]
    <2>1. PICK s \in Slots : s = ops[w][i].grain /\ OpOwns(w, i, s)
      BY <1>2, Zenon
    <2>2. PICK c : c = CHOOSE j \in Writing(w) : ops[w][j].grain = s
      BY Zenon
    <2>3. c \in Writing(w) /\ ops[w][c].grain = s
      BY <2>1, <2>2, Zenon
    <2>4. c \in Idx /\ i \in Idx /\ OpOwns(w, c, s)
      BY <1>2, <2>3, Zenon
    <2>5. c = i
      BY <2>1, <2>4, Zenon DEF SlotOwnership
    <2> QED
      BY <1>1, <2>1, <2>2, <2>5, Zenon
  <1>7. ASSUME NEW j \in Idx PROVE WriteSound(w, j)'
    <2> SUFFICES ASSUME NEW o, o = ops[w][j], o.cmd = "WRITE" PROVE WriteSound(w, j)'
      BY <1>1, Zenon DEF WriteSound
    <2>1. ops'[w][j] = o /\ WriteSound(w, j)
      BY <1>1, Zenon DEF Sound
    <2>2. cstage'[w][j] = cstage[w][j]
      <3>1. KeepsOp(w, w, j) /\ pc[w] # "rmwMerge"
        BY <1>1, <1>3, Zenon
      <3> QED
        BY <3>1, Zenon DEF KeepsOp, Reading
    <2>3. o.dma = 1 /\ o.err = "ok" => mem'[o.grain] = cstage[w][j]
      BY <1>6, Zenon DEF Writing
    <2> QED
      BY <2>1, <2>2, <2>3, Zenon DEF WriteSound
  <1>8. ASSUME NEW j \in Idx PROVE ReadSound(w, j)'
    <2>1. Onward(w, j)
      BY <1>1, <1>4, OnwardFree, Zenon
    <2> QED
      BY <1>3, <1>5, <2>1, ReadKept, Zenon
  <1> QED
    BY <1>3, <1>5, <1>7, <1>8, Assemble, Zenon

LEMMA S_RmwCopy ==
  ASSUME Typed, SlotOwnership, Sound, Typed', NEW w \in Workers, RmwCopy(w)
  PROVE  Sound'
  <1> SUFFICES ASSUME NEW i, i = cur[w], NEW s, s = ops[w][i].grain PROVE Sound'
    BY Zenon
  <1>0. /\ TypeOK /\ i \in Idx /\ pc[w] = "rmwCopy" /\ s \in Slots
        /\ ops[w][i].cmd = "RMW" /\ PatchSound(w)
        /\ {"rmwStore", "rmwOut"} \subseteq TrimLabels \cup RmwLabels
    BY Zenon DEF Typed, Shape, Local, CurShape, HoldLabels, RmwCopy, RmwLabels, Sound
  <1>1. \/ /\ mem' = [mem EXCEPT ![s] = Torn] /\ Tear({s})
           /\ Goto(w, "rmwStore", i)
           /\ UNCHANGED <<index, ops, old, seen>>
        \/ /\ \E n : SetOp(w, i, n)
           /\ \E f : old' = [old EXCEPT ![w] = f]
           /\ Goto(w, "rmwOut", i)
           /\ UNCHANGED <<index, mem, seen, cstage>>
    BY Zenon DEF RmwCopy
  <1>2. CASE /\ mem' = [mem EXCEPT ![s] = Torn] /\ Tear({s})
             /\ Goto(w, "rmwStore", i)
             /\ UNCHANGED <<index, ops, old, seen>>
    <2>1. OpOwns(w, i, s)
      <3>1. OpShape(w, i)
        BY <1>0, OpAt, Zenon
      <3> QED
        BY <1>0, <3>1, Zenon DEF OpShape, OpOwns
    <2>2. Around(w) /\ MemKept(w) /\ Apart(w) /\ \A j \in Idx : KeepsOp(w, w, j)
      <3>1. {s} \in SUBSET Slots /\ \A t \in {s} : \E j \in Idx : OpOwns(w, j, t)
        BY <1>0, <2>1, Zenon
      <3>2. \A t \in Slots \ {s} : mem'[t] = mem[t]
        BY <1>0, <1>2, Zenon DEF TypeOK
      <3> QED
        BY <1>2, <3>1, <3>2, OverwriteKeeps, Zenon
    <2>3. pc'[w] = "rmwStore" /\ cur'[w] = i
      BY <1>0, <1>2, GotoEffect, Zenon
    <2>4. PatchSound(w)'
      <3>1. cstage'[w][i] = cstage[w][i]
        BY <1>0, <2>2, Zenon DEF KeepsOp, Reading
      <3> QED
        BY <1>0, <2>3, <3>1, Zenon DEF PatchSound
    <2>5. \A j \in Idx : WriteSound(w, j)' /\ ReadSound(w, j)'
      BY <1>0, <2>3, Vacuous, Zenon
    <2> QED
      BY <2>2, <2>4, <2>5, Assemble, Zenon
  <1>3. CASE /\ \E n : SetOp(w, i, n)
             /\ \E f : old' = [old EXCEPT ![w] = f]
             /\ Goto(w, "rmwOut", i)
             /\ UNCHANGED <<index, mem, seen, cstage>>
    <2>1. \A v \in Workers : v # w => old'[v] = old[v]
      BY <1>0, <1>3, Zenon DEF TypeOK
    <2>2. OnlyOp(w, i)
      BY <1>0, <1>3, <2>1, OnlyOpSet, Zenon
    <2> QED
      BY <1>0, <1>3, <2>2, Aside, Zenon
  <1> QED
    BY <1>1, <1>2, <1>3, Zenon

-----------------------------------------------------------------------------
(* The steps that publish.                                                 *)

LEMMA SawEffect ==
  ASSUME NEW b \in Blocks, NEW p \in Page, Saw(b, p), NEW v \in Workers, NEW j \in Idx
  PROVE  /\ seen[v][j] \subseteq seen'[v][j]
         /\ seen'[v][j] \subseteq seen[v][j] \cup Page
         /\ ops[v][j].cmd = "READ" /\ ops[v][j].blk = b /\ ops[v][j].dma # 2
              => p \in seen'[v][j]
  BY Zenon DEF Saw

LEMMA Replaces ==
  ASSUME Typed, NEW w \in Workers, NEW b \in Blocks, lock[IDXL[b]] \in {NoWorker, w},
         NEW s, NEW n, NEW p \in Page, Install(w, b, index[b], s, n, p), MemKept(w),
         n = 0 => p = ZeroPage,
         n # 0 => mem'[s] \in Whole /\ mem'[s].n = n /\ mem'[s].page = p
  PROVE  /\ Around(w)
         /\ \A v \in Workers : v # w => old'[v] = old[v]
         /\ \A v \in Workers, j \in Idx :
              seen[v][j] \subseteq seen'[v][j] /\ seen'[v][j] \subseteq seen[v][j] \cup Page
  <1>0. TypeOK /\ NoWrapInWindow(b) /\ Saw(b, p)
    BY Zenon DEF Typed, Install
  <1>1. /\ index'[b].clen = n /\ index'[b].grain = s
        /\ \A c \in Blocks : c # b => index'[c] = index[c]
        /\ \A v \in Workers : v # w => old'[v] = old[v]
    <2>1. Displaced(w, b, index[b], s, n)
      BY <1>0, Installed, Zenon
    <2> QED
      BY <2>1, Zenon DEF Displaced
  <1>2. index'[b].gen = (index[b].gen + 1) % GenMod
    <2>1. index' = [index EXCEPT ![b] = ent_make(s, n, index[b].gen + 1)]
      BY Zenon DEF Install
    <2>2. index'[b] = ent_make(s, n, index[b].gen + 1)
      BY <1>0, <2>1, Zenon DEF TypeOK
    <2>3. ASSUME NEW g PROVE ent_make(s, n, g).gen = g % GenMod
      BY Zenon DEF ent_make
    <2> QED
      BY <2>2, <2>3, Zenon
  <1>3. Stands(b)'
    BY <1>1, Zenon DEF Stands
  <1>4. Contents(b)' = p
    <2>1. CASE n = 0
      BY <1>1, <2>1, Zenon DEF Contents
    <2>2. CASE n # 0
      <3>1. decomp_block(mem'[s], n) = p
        BY <2>2, WholeIntact, Zenon
      <3> QED
        BY <1>1, <2>2, <3>1, Zenon DEF Contents, decomp_block, Intact
    <2> QED
      BY <2>1, <2>2, Zenon
  <1>5. Replaced(w, b)
    BY <1>0, <1>2, <1>3, <1>4, SawEffect, Zenon DEF Replaced
  <1>6. Around(w)
    BY <1>1, <1>5, Zenon DEF Around
  <1> QED
    BY <1>0, <1>1, <1>6, SawEffect, Zenon

LEMMA S_wr_publish ==
  ASSUME Typed, SlotOwnership, Sound, NEW w \in Workers, NEW i \in Idx, wr_publish(w, i)
  PROVE  Sound'
  <1> SUFFICES ASSUME NEW o, o = ops[w][i], NEW b, b = o.blk, NEW c, c = cstage[w][i]
               PROVE  Sound'
    BY Zenon
  <1>0. TypeOK /\ o \in Blkop /\ b \in Blocks /\ OpShape(w, i) /\ WriteSound(w, i)
    BY OpAt, Zenon DEF Typed, Sound
  <1>1. /\ Turn(w, "publish", i) /\ Goto(w, "release", i) /\ Unlocked(b)
        /\ Install(w, b, index[b], o.grain, c.n, c.page) /\ SetOp(w, i, Done(o))
        /\ UNCHANGED <<mem, cstage>>
    BY Zenon DEF wr_publish
  <1>2. /\ pc[w] = "publish" /\ o.cmd = "WRITE" /\ o.err = "ok" /\ o.grain # SLOT_NONE
        /\ cur[w] <= i
    BY <1>1, Zenon DEF Turn, Wants
  <1>3. o.dma = 1
    <2>1. ~(i < cur[w])
      <3>1. cur[w] \in 1..(MaxOps + 1)
        BY <1>0, Zenon DEF TypeOK
      <3> QED
        BY <1>2, <3>1, StoreAssumption DEF Idx
    <2>2. o.dma # 2
      BY <1>0, <1>2, <2>1, Zenon DEF OpShape
    <2>3. o.dma # 0 /\ o.dma \in {0, 1, 2}
      BY <1>0, <1>2, Zenon DEF WriteSound, Blkop
    <2> QED
      BY <2>2, <2>3, Zenon
  <1>4. c \in Whole /\ mem[o.grain] = c
    BY <1>0, <1>2, <1>3, Zenon DEF WriteSound, Landed
  <1>5. MemKept(w)
    BY <1>1, Zenon DEF MemKept
  <1>6. /\ Around(w)
        /\ \A v \in Workers : v # w => old'[v] = old[v]
        /\ \A v \in Workers, j \in Idx :
             seen[v][j] \subseteq seen'[v][j] /\ seen'[v][j] \subseteq seen[v][j] \cup Page
    <2>1. c.page \in Page /\ c.n # 0
      BY <1>4 DEF Whole
    <2>2. lock[IDXL[b]] \in {NoWorker, w}
      BY <1>1, Zenon DEF Unlocked
    <2>3. mem'[o.grain] = c
      BY <1>1, <1>4, Zenon
    <2> QED
      BY <1>0, <1>1, <1>4, <1>5, <2>1, <2>2, <2>3, Replaces, ZenonT(40)
  <1>7. PICK n : n = Done(o) /\ SetOp(w, i, n)
    BY <1>1, Zenon
  <1>8. /\ ops'[w][i] = n
        /\ \A j \in Idx : j # i => ops'[w][j] = ops[w][j]
        /\ \A v \in Workers : v # w => ops'[v] = ops[v]
    BY <1>0, <1>7, SetOpEffect
  <1>9. /\ pc'[w] = "release"
        /\ \A v \in Workers : v # w => pc'[v] = pc[v] /\ cur'[v] = cur[v]
    BY <1>0, <1>1, GotoEffect, Zenon
  <1>10. Apart(w) /\ \A j \in Idx : j # i => KeepsOp(w, w, j)
    BY <1>1, <1>6, <1>8, <1>9, Zenon DEF Apart, KeepsOp
  <1>11. PatchSound(w)' /\ Landed(w)
    BY <1>2, <1>9, Zenon DEF PatchSound, Landed
  <1>12. ASSUME NEW j \in Idx, j # i PROVE WriteSound(w, j)' /\ ReadSound(w, j)'
    <2>1. WriteSound(w, j)'
      BY <1>1, <1>5, <1>10, <1>11, <1>12, WriteKept, Zenon
    <2>2. Onward(w, j) /\ pc'[w] # "lockedCopy"
      BY <1>9, OnwardFree, Zenon DEF Window
    <2>3. ReadSound(w, j)'
      BY <1>6, <1>10, <1>12, <2>2, ReadKept, Zenon
    <2> QED
      BY <2>1, <2>3, Zenon
  <1>13. WriteSound(w, i)' /\ ReadSound(w, i)'
    <2>1. n.cmd = "WRITE" /\ n.page \in Page /\ n.dma # 0 /\ n.dma # 1
      <3>1. n.cmd = o.cmd /\ n.page = o.page /\ n.dma = 2
        BY <1>0, <1>7, DoneOp, Zenon
      <3>2. o.page \in Page
        BY <1>0, <1>2, Zenon DEF WriteSound
      <3> QED
        BY <1>2, <3>1, <3>2
    <2> QED
      BY <1>1, <1>4, <1>8, <2>1, Zenon DEF WriteSound, ReadSound
  <1> QED
    BY <1>6, <1>10, <1>11, <1>12, <1>13, Assemble, Zenon

LEMMA S_TrimLock ==
  ASSUME Typed, SlotOwnership, Sound, Typed', NEW w \in Workers, TrimLock(w)
  PROVE  Sound'
  <1> SUFFICES ASSUME NEW i, i = cur[w], NEW o, o = ops[w][i], NEW b, b = o.blk
               PROVE  Sound'
    BY Zenon
  <1>0. TypeOK /\ i \in Idx /\ "trimRelease" \in TrimLabels \cup RmwLabels
    BY Zenon DEF Typed, Shape, Local, CurShape, TrimLock, TrimLabels
  <1>1. /\ Unlocked(b) /\ Goto(w, "trimRelease", i) /\ UNCHANGED <<mem, cstage>>
        /\ \E n : SetOp(w, i, n)
        /\ \/ Install(w, b, index[b], SLOT_NONE, 0, ZeroPage)
           \/ old' = [old EXCEPT ![w] = index[b]] /\ UNCHANGED <<index, seen>>
    BY Zenon DEF TrimLock
  <1>2. b \in Blocks
    BY <1>0, OpAt, Zenon
  <1>3. CASE old' = [old EXCEPT ![w] = index[b]] /\ UNCHANGED <<index, seen>>
    <2>1. \A v \in Workers : v # w => old'[v] = old[v]
      BY <1>0, <1>3, Zenon DEF TypeOK
    <2>2. OnlyOp(w, i)
      BY <1>0, <1>1, <1>3, <2>1, OnlyOpSet, Zenon
    <2> QED
      BY <1>0, <1>1, <2>2, Aside, Zenon
  <1>4. CASE Install(w, b, index[b], SLOT_NONE, 0, ZeroPage)
    <2>1. MemKept(w) /\ lock[IDXL[b]] \in {NoWorker, w}
      BY <1>1, Zenon DEF MemKept, Unlocked
    <2>2. /\ Around(w)
          /\ \A v \in Workers : v # w => old'[v] = old[v]
          /\ \A v \in Workers, j \in Idx :
               seen[v][j] \subseteq seen'[v][j] /\ seen'[v][j] \subseteq seen[v][j] \cup Page
      BY <1>2, <1>4, <2>1, ZeroPageType, Replaces, ZenonT(40)
    <2>3. \A v \in Workers : v # w => ops'[v] = ops[v]
      BY <1>0, <1>1, SetOpEffect, Zenon
    <2>4. /\ pc'[w] = "trimRelease"
          /\ \A v \in Workers : v # w => pc'[v] = pc[v] /\ cur'[v] = cur[v]
      BY <1>0, <1>1, GotoEffect, Zenon
    <2>5. Apart(w)
      BY <1>1, <2>2, <2>3, <2>4, Zenon DEF Apart, KeepsOp
    <2>6. PatchSound(w)'
      BY <2>4, Zenon DEF PatchSound
    <2>7. \A j \in Idx : WriteSound(w, j)' /\ ReadSound(w, j)'
      BY <1>0, <2>4, Vacuous, Zenon
    <2> QED
      BY <2>2, <2>5, <2>6, <2>7, Assemble, Zenon
  <1> QED
    BY <1>1, <1>3, <1>4, Zenon

LEMMA S_RmwStore ==
  ASSUME "sync" \notin Faults, Typed, SlotOwnership, Sound, Typed', NEW w \in Workers,
         RmwStore(w)
  PROVE  Sound'
  <1> SUFFICES ASSUME NEW i, i = cur[w], NEW o, o = ops[w][i], NEW b, b = o.blk,
                      NEW s, s = o.grain, NEW c, c = cstage[w][i]
               PROVE  Sound'
    BY Zenon
  <1>0. /\ TypeOK /\ i \in Idx /\ pc[w] = "rmwStore" /\ o.cmd = "RMW" /\ s \in Slots
        /\ lock[IDXL[b]] = w /\ old[w] = index[b] /\ c \in Whole
        /\ "rmwRelease" \in TrimLabels \cup RmwLabels
    <2>1. CurShape(w) /\ PatchSound(w) /\ pc[w] = "rmwStore" /\ TypeOK
      BY Zenon DEF Typed, Shape, Local, Sound, RmwStore
    <2> QED
      BY <2>1, Zenon DEF CurShape, HoldLabels, RmwLabels, PatchSound
  <1>1. /\ mem' = [mem EXCEPT ![s] = c] /\ Tear({s})
        /\ Install(w, b, old[w], s, c.n, c.page)
        /\ Goto(w, "rmwRelease", i) /\ \E n : SetOp(w, i, n)
    BY Zenon DEF RmwStore
  <1>2. b \in Blocks /\ OpShape(w, i)
    BY <1>0, OpAt, Zenon
  <1>3. OpOwns(w, i, s)
    BY <1>0, <1>2, Zenon DEF OpShape, OpOwns
  <1>4. /\ MemKept(w)
        /\ \A v \in Workers, j \in Idx :
             \/ cstage'[v][j] = cstage[v][j]
             \/ \E k \in Idx, t \in Slots : OpOwns(w, k, t) /\ Reading(v, j, t)
    <2>1. {s} \in SUBSET Slots /\ \A t \in {s} : \E j \in Idx : OpOwns(w, j, t)
      BY <1>0, <1>3, Zenon
    <2>2. \A t \in Slots \ {s} : mem'[t] = mem[t]
      BY <1>0, <1>1, Zenon DEF TypeOK
    <2> QED
      BY <1>1, <2>1, <2>2, Overwrites, Zenon
  <1>5. /\ Around(w)
        /\ \A v \in Workers : v # w => old'[v] = old[v]
        /\ \A v \in Workers, j \in Idx :
             seen[v][j] \subseteq seen'[v][j] /\ seen'[v][j] \subseteq seen[v][j] \cup Page
    <2>1. c.page \in Page /\ c.n # 0
      <3>1. c \in Whole
        BY <1>0, Zenon
      <3> QED
        BY <3>1 DEF Whole
    <2>2. mem'[s] = c
      BY <1>0, <1>1, Zenon DEF TypeOK
    <2>3. Install(w, b, index[b], s, c.n, c.page) /\ lock[IDXL[b]] \in {NoWorker, w}
      BY <1>0, <1>1, Zenon
    <2>4. c \in Whole /\ MemKept(w)
      BY <1>0, <1>4, Zenon
    <2> QED
      BY <1>2, <2>1, <2>2, <2>3, <2>4, Replaces, ZenonT(60)
  <1>6. \A v \in Workers : v # w => ops'[v] = ops[v]
    BY <1>0, <1>1, SetOpEffect, Zenon
  <1>7. /\ pc'[w] = "rmwRelease"
        /\ \A v \in Workers : v # w => pc'[v] = pc[v] /\ cur'[v] = cur[v]
    BY <1>0, <1>1, GotoEffect, Zenon
  <1>8. Apart(w)
    BY <1>4, <1>5, <1>6, <1>7, Zenon DEF Apart, KeepsOp
  <1>9. PatchSound(w)'
    BY <1>7, Zenon DEF PatchSound
  <1>10. \A j \in Idx : WriteSound(w, j)' /\ ReadSound(w, j)'
    BY <1>0, <1>7, Vacuous, Zenon
  <1> QED
    BY <1>5, <1>8, <1>9, <1>10, Assemble, Zenon

-----------------------------------------------------------------------------
LEMMA InitSound == Init => Sound
  <1> SUFFICES ASSUME Init PROVE Sound
    BY Zenon
  <1>1. blkop_set(NoAsk).cmd = "none"
    BY Zenon DEF blkop_set, NoAsk
  <1>2. \A b \in Blocks : Stands(b)
    BY UnwrittenEnt, Zenon DEF Init, Stands
  <1>3. \A w \in Workers, i \in Idx : WriteSound(w, i) /\ ReadSound(w, i)
    BY <1>1, ZenonT(40) DEF Init, WriteSound, ReadSound
  <1>4. \A w \in Workers : PatchSound(w)
    BY Zenon DEF Init, PatchSound
  <1> QED
    BY <1>2, <1>3, <1>4, Zenon DEF Sound

LEMMA StutterSound ==
  ASSUME Sound, UNCHANGED vars
  PROVE  Sound'
  <1>1. UNCHANGED <<index, mem, pc, cur, ops, cstage, old, seen>>
    BY Zenon DEF vars, shared, worker
  <1>2. ASSUME NEW b \in Blocks PROVE Stands(b)' /\ Contents(b)' = Contents(b)
    BY <1>1, Zenon DEF Sound, Stands, Contents, decomp_block, Intact
  <1>3. ASSUME NEW w \in Workers PROVE PatchSound(w)'
    BY <1>1, Zenon DEF Sound, PatchSound
  <1>4. ASSUME NEW w \in Workers, NEW i \in Idx PROVE WriteSound(w, i)'
    BY <1>1, Zenon DEF Sound, WriteSound, Landed
  <1>5. ASSUME NEW w \in Workers, NEW i \in Idx PROVE ReadSound(w, i)'
    <2>1. ReadSound(w, i) /\ Contents(ops[w][i].blk)' = Contents(ops[w][i].blk)
      BY <1>1, Zenon DEF Sound, Contents, decomp_block, Intact
    <2> QED
      BY <1>1, <2>1, Zenon DEF ReadSound, Snapped, Issued
  <1> QED
    BY <1>2, <1>3, <1>4, <1>5, Zenon DEF Sound

LEMMA NextSound ==
  ASSUME "sync" \notin Faults, Typed, Typed', SlotOwnership, Sound, [Next]_vars
  PROVE  Sound'
  <1>1. CASE UNCHANGED vars
    BY <1>1, StutterSound, Zenon
  <1>2. ASSUME NEW w \in Workers, (\E job \in Jobs : Admit(w, job)) \/ Work(w)
        PROVE  Sound'
    <2>1. CASE Batch(w)
      <3>1. ASSUME NEW i \in Idx,
                   \/ wr_prepare(w, i) \/ rd_prepare(w, i) \/ wr_abort(w, i)
                   \/ IssueRead(w, i) \/ IssueWrite(w, i) \/ IssueFails(w, i)
                   \/ rd_finish(w, i) \/ Resnapshot(w, i)
                   \/ rd_block_locked(w, i) \/ wr_publish(w, i)
            PROVE  Sound'
        BY <3>1, S_wr_prepare, S_rd_prepare, S_wr_abort, S_IssueRead, S_IssueWrite,
           S_IssueFails, S_rd_finish, S_Resnapshot, S_rd_block_locked, S_wr_publish, Zenon
      <3>2. CASE Synchronize(w) \/ Reissue(w) \/ LockedDone(w)
        BY <3>2, S_Synchronize, S_Reissue, S_LockedDone, Zenon
      <3>3. CASE \/ EndPrepare(w) \/ EndAbort(w) \/ EndIssue(w) \/ EndFinish(w) \/ EndAgain(w)
                 \/ EndLocked(w) \/ wr_release(w) \/ EndPublish(w)
        BY <3>3, S_Control, Zenon
      <3> QED
        BY <2>1, <3>1, <3>2, <3>3, Zenon DEF Batch
    <2>2. CASE Trim(w)
      BY <2>2, S_Control, S_TrimCheck, S_TrimLock, S_Release, Zenon DEF Trim
    <2>3. CASE Rmw(w)
      BY <2>3, S_Control, S_RmwLock, S_RmwMerge, S_RmwCopy, S_RmwStore, S_Release,
         Zenon DEF Rmw
    <2> QED
      BY <1>2, <2>1, <2>2, <2>3, S_Control, S_StartPiece, S_Reply, Zenon DEF Work
  <1> QED
    BY <1>1, <1>2, Zenon DEF Next

LEMMA AlwaysSound ==
  ASSUME "sync" \notin Faults
  PROVE  Spec => []Sound
  <1>1. Init => Sound
    BY InitSound, Zenon
  <1>2. Typed /\ Typed' /\ SlotOwnership /\ Sound /\ [Next]_vars => Sound'
    BY NextSound, Zenon
  <1> QED
    BY <1>1, <1>2, AlwaysTyped, OwnershipCorrect, PTL DEF Spec

(* What an entry of g_index names is at all times a whole image of the     *)
(* length the entry gives, for any number of workers, blocks and slots and *)
(* any jobs, as long as no stream synchronize fails: do_blocks publishes   *)
(* only slots whose copies have landed, and nothing writes a slot while an *)
(* entry names it.                                                         *)
THEOREM PublishedWhole ==
  ASSUME "sync" \notin Faults
  PROVE  Spec => []PublishedIntact
  <1>1. Sound => PublishedIntact
    <2> SUFFICES ASSUME Sound, NEW b \in Blocks, index[b].clen # 0
                 PROVE  Intact(mem[index[b].grain], index[b].clen)
      BY Zenon DEF PublishedIntact
    <2>1. mem[index[b].grain] \in Whole /\ mem[index[b].grain].n = index[b].clen
      BY Zenon DEF Sound, Stands
    <2> QED
      BY <2>1, WholeIntact, Zenon DEF Intact
  <1> QED
    BY <1>1, AlwaysSound, PTL

(* A read that completes returns a page its block held at some moment      *)
(* since the request arrived, for any number of workers, blocks and slots, *)
(* any batches, and any number of lock-free rounds, as long as no stream   *)
(* synchronize fails and no generation wraps within the window of a read:  *)
(* the snapshot and validation of rd_prepare and rd_finish miss no         *)
(* publish, and the retry under the stripe lock sees none.                 *)
THEOREM ReadsCorrect ==
  ASSUME "sync" \notin Faults
  PROVE  Spec => []ReadsOwnPage
  <1>1. Sound => ReadsOwnPage
    <2> SUFFICES ASSUME Sound, NEW w \in Workers, NEW i \in Idx,
                        ops[w][i].cmd = "READ", ops[w][i].dma = 2
                 PROVE  ops[w][i].page \in seen[w][i] \ {Torn}
      BY Zenon DEF ReadsOwnPage
    <2>1. ops[w][i].page \in seen[w][i] /\ seen[w][i] \subseteq Page
      BY Zenon DEF Sound, ReadSound
    <2> QED
      BY <2>1, StoreAssumption, Zenon
  <1> QED
    BY <1>1, AlwaysSound, PTL

=============================================================================
