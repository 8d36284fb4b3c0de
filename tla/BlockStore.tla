----------------------------- MODULE BlockStore -----------------------------
(***************************************************************************)
(* The data path of nbd-vram.c: the block index, the stripe locks, device  *)
(* memory, and the worker threads that read, write, trim and partially     *)
(* rewrite 4 KiB blocks through it.  One step is one access to shared      *)
(* state: an index load, a slot reservation or release, the launch of an   *)
(* asynchronous copy, a stream synchronize, a publish under a stripe lock. *)
(*                                                                         *)
(* A worker runs one job at a time.  A job is what one reply (or one batch *)
(* of replies) answers: a sequence of pieces, each an array of block ops.  *)
(* A batch (flush_batch) is one piece of READ and WRITE ops; the           *)
(* per-request path (handle_one) is a sequence of pieces, in the order in  *)
(* which load_range, store_range and trim_range produce them.              *)
(*                                                                         *)
(* The allocator is abstracted to a pool of slots that hands out a slot    *)
(* nobody holds, or refuses (ExtentAlloc models its code, and when it      *)
(* refuses); page contents to two parts that a partial write can replace   *)
(* separately; the codec to the length it produces.                        *)
(***************************************************************************)
EXTENDS Integers, Sequences

CONSTANTS Workers,    \* worker threads, one per connection
          Blocks,     \* logical blocks: indices of g_index
          Slots,      \* slots of device memory the allocator hands out
          SLOT_NONE,  \* no slot held
          Stripes,    \* stripe locks: g_idx_lock
          IDXL,       \* the stripe of a block
          NoWorker,   \* the holder of a free lock
          MaxOps,     \* length of the ops array: maxops of struct worker
          Bytes,      \* contents of one part of a page
          Zero,       \* the contents of a part that was never written
          CBLK_SIZE,  \* length of a block that is stored verbatim
          CompLen,    \* what comp_block returns for a page
          Torn,       \* bytes nobody may rely on: a copy is writing them, or
                      \* raced with the copy that read them
          GenMod,     \* generations an index entry distinguishes (2^21)
          Rounds,     \* lock-free attempts of a read (4)
          Faults,     \* the CUDA calls that may fail: "HtoD", "DtoH", "sync"
          Jobs        \* the jobs clients send

Idx == 1..MaxOps
Parts == {"head", "tail"}
Page == [Parts -> Bytes]
ZeroPage == [h \in Parts |-> Zero]
AnyPage == Page \cup {Torn}
Err == {"ok", "ENOSPC", "EIO"}

Slot == Slots \cup {SLOT_NONE}

(***************************************************************************)
(* An index entry, one atomic 64-bit word.  clen = 0 is an unwritten       *)
(* block.  The generation wraps.                                           *)
(***************************************************************************)
Ent == [grain : Slot, clen : 0..CBLK_SIZE, gen : 0..(GenMod - 1)]

(* A variant that does not mask the generation.                            *)
ent_make_unmasked(grain, clen, gen) ==
  [grain |-> grain, clen |-> clen, gen |-> gen]

ent_make(grain, clen, gen) ==
  [grain |-> grain, clen |-> clen, gen |-> gen % GenMod]

Unwritten == ent_make(SLOT_NONE, 0, 0)

(***************************************************************************)
(* Stored bytes.  comp_block leaves the codec's output, or the page itself *)
(* when the codec did not win (length CBLK_SIZE).  decomp_block recovers   *)
(* the page only from an intact image of the length the entry names.       *)
(***************************************************************************)
Image == [page : AnyPage, n : 1..CBLK_SIZE]
Stored == Image \cup {Torn}

comp_block(p) == [page |-> p, n |-> CompLen[p]]

Intact(img, n) == img # Torn /\ img.n = n

(***************************************************************************)
(* What a client asks of one block, and the piece of a job that asks it.   *)
(* A piece is a run of whole blocks to read or write, a run to discard, or *)
(* one block to rewrite in part.  One marked skip is not run once its      *)
(* request has failed.                                                     *)
(***************************************************************************)
Cmds == {"none", "READ", "WRITE", "TRIM", "RMW"}

Ask == [cmd : Cmds, blk : Blocks, page : Page, part : SUBSET Parts, req : Idx]

Homogeneous(asks) ==
  \/ \A i \in Idx : asks[i].cmd \in {"none", "READ", "WRITE"}
  \/ \A i \in Idx : asks[i].cmd = "TRIM" \/ (asks[i].cmd = "none" /\ i # 1)
  \/ \A i \in Idx : asks[i].cmd = IF i = 1 THEN "RMW" ELSE "none"

Piece == {p \in [skip : {0, 1}, asks : [Idx -> Ask]] : Homogeneous(p.asks)}

Job == [via : {"batch", "one"}, pieces : Seq(Piece)]

(* struct blkop.  dma = 1: a copy is wanted or on the stream; dma = 2: a   *)
(* read is done or, as history, a write, discard or partial write has      *)
(* taken effect.                                                           *)
Blkop == [cmd : Cmds, blk : Blocks, page : AnyPage,
          part : SUBSET Parts, req : Idx, err : Err, dma : {0, 1, 2},
          ent : Ent, grain : Slot]

blkop_set(a) ==
  [cmd |-> a.cmd, blk |-> a.blk, page |-> a.page, part |-> a.part,
   req |-> a.req, err |-> "ok", dma |-> 0, ent |-> Unwritten,
   grain |-> SLOT_NONE]

(* What can become of an op.                                               *)
Reserved(o, s) == [o EXCEPT !.grain = s, !.dma = 1]
Refused(o, e)  == [o EXCEPT !.err = e, !.dma = 0]
GivenBack(o)   == [o EXCEPT !.grain = SLOT_NONE, !.dma = 0]
Zeroed(o)      == [o EXCEPT !.page = ZeroPage, !.dma = 2]
Failed(o, e)   == [o EXCEPT !.err = e]
Holding(o, s)  == [o EXCEPT !.grain = s]
Done(o)        == [o EXCEPT !.dma = 2]

ASSUME StoreAssumption ==
  /\ Blocks # {}
  /\ SLOT_NONE \notin Slots
  /\ NoWorker \notin Workers
  /\ IDXL \in [Blocks -> Stripes]
  /\ MaxOps \in Nat \ {0}
  /\ Zero \in Bytes
  /\ CBLK_SIZE \in Nat \ {0}
  /\ CompLen \in [AnyPage -> 1..CBLK_SIZE]
  /\ Torn \notin Page
  /\ Torn \notin Image
  /\ GenMod \in Nat \ {0, 1}
  /\ Rounds \in Nat \ {0}
  /\ Faults \subseteq {"HtoD", "DtoH", "sync"}
  /\ \A j \in Jobs : j \in Job

VARIABLES index,   \* g_index
          mem,     \* what each slot of device memory holds
          free,    \* the slots the allocator may hand out
          lock,    \* the holder of each stripe lock
          live,    \* g_blocks_live
          codec,   \* g_codec_bytes
          pc,      \* where each worker is
          cur,     \* the op its current loop has reached
          round,   \* the read rounds it has spent
          via,     \* the path its job takes
          todo,    \* the pieces of its job that are left
          ops,     \* its ops array
          cstage,  \* the pinned staging slot of each op
          old,     \* the entry its last publish displaced
          rerr,    \* the error of each request of its job
          seen     \* history: the pages the block of a read held since it began

shared == <<index, mem, free, lock, live, codec>>
worker == <<pc, cur, round, via, todo, ops, cstage, old, rerr, seen>>
vars   == <<shared, worker>>

Labels == {"idle", "piece", "prepare", "abort", "issue", "sync", "finish",
           "again", "againIssue", "locked", "lockedCopy", "publish", "release",
           "trim", "trimLock", "trimRelease", "rmw", "rmwMerge", "rmwCopy",
           "rmwStore", "rmwRelease", "rmwOut"}

TypeOK ==
  /\ index \in [Blocks -> Ent]
  /\ mem \in [Slots -> Stored]
  /\ free \in SUBSET Slots
  /\ lock \in [Stripes -> Workers \cup {NoWorker}]
  /\ live \in Int
  /\ codec \in Int
  /\ pc \in [Workers -> Labels]
  /\ cur \in [Workers -> 1..(MaxOps + 1)]
  /\ round \in [Workers -> 0..Rounds]
  /\ via \in [Workers -> {"batch", "one"}]
  /\ todo \in [Workers -> Seq(Piece)]
  /\ ops \in [Workers -> [Idx -> Blkop]]
  /\ cstage \in [Workers -> [Idx -> Stored]]
  /\ old \in [Workers -> Ent]
  /\ rerr \in [Workers -> [Idx -> Err]]
  /\ seen \in [Workers -> [Idx -> SUBSET AnyPage]]

NoAsk == [cmd |-> "none", blk |-> CHOOSE b \in Blocks : TRUE,
          page |-> ZeroPage, part |-> {}, req |-> 1]

Init ==
  /\ index = [b \in Blocks |-> Unwritten]
  /\ mem = [s \in Slots |-> Torn]
  /\ free = Slots
  /\ lock = [l \in Stripes |-> NoWorker]
  /\ live = 0
  /\ codec = 0
  /\ pc = [w \in Workers |-> "idle"]
  /\ cur = [w \in Workers |-> 1]
  /\ round = [w \in Workers |-> 0]
  /\ via = [w \in Workers |-> "one"]
  /\ todo = [w \in Workers |-> <<>>]
  /\ ops = [w \in Workers |-> [i \in Idx |-> blkop_set(NoAsk)]]
  /\ cstage = [w \in Workers |-> [i \in Idx |-> Torn]]
  /\ old = [w \in Workers |-> Unwritten]
  /\ rerr = [w \in Workers |-> [i \in Idx |-> "ok"]]
  /\ seen = [w \in Workers |-> [i \in Idx |-> {}]]

-----------------------------------------------------------------------------
(* Helpers.                                                                *)

(* The bytes a copy of n stored bytes yields once decompressed.            *)
decomp_block(img, n) == IF Intact(img, n) THEN img.page ELSE Torn

(* A torn compressed image is refused by the codec; a torn raw block is    *)
(* copied out unnoticed.                                                   *)
DecompErr(img, n) == IF Intact(img, n) \/ n = CBLK_SIZE THEN "ok" ELSE "EIO"

(* What the index and device memory say a block holds.                     *)
Contents(b) == IF index[b].clen = 0 THEN ZeroPage
               ELSE decomp_block(mem[index[b].grain], index[b].clen)

(* A variant that forgets the bytes around the ones written.               *)
MergeBlank(base, page, part) == [h \in Parts |-> IF h \in part THEN page[h] ELSE Zero]

(* A page with the given parts replaced.                                   *)
Merge(base, page, part) ==
  IF base = Torn THEN Torn
  ELSE [h \in Parts |-> IF h \in part THEN page[h] ELSE base[h]]

(* Does the loop at label l of the worker act on op i?                     *)
Wants(w, l, i) ==
  LET o == ops[w][i] IN
  \/ l \in {"prepare", "trim", "rmw"} /\ o.cmd # "none"
  \/ /\ l = "abort"
     /\ o.cmd = "WRITE" /\ o.err = "ok"
     /\ \E j \in Idx : /\ ops[w][j].cmd # "none"
                       /\ ops[w][j].req = o.req
                       /\ ops[w][j].err # "ok"
  \/ l = "issue" /\ o.dma = 1 /\ o.err = "ok"
  \/ l \in {"finish", "again", "locked"} /\ o.cmd = "READ" /\ o.err = "ok" /\ o.dma # 2
  \/ l = "publish" /\ o.cmd = "WRITE" /\ o.err = "ok" /\ o.grain # SLOT_NONE

(* Op i is the next one the loop at label l acts on.                       *)
Turn(w, l, i) ==
  /\ pc[w] = l
  /\ cur[w] <= i
  /\ Wants(w, l, i)
  /\ \A j \in Idx : cur[w] <= j /\ j < i => ~Wants(w, l, j)

(* The loop at label l has no op left to act on.                           *)
Over(w, l) ==
  /\ pc[w] = l
  /\ \A j \in Idx : cur[w] <= j => ~Wants(w, l, j)

Goto(w, l, i) ==
  /\ pc' = [pc EXCEPT ![w] = l]
  /\ cur' = [cur EXCEPT ![w] = i]

SetOp(w, i, o) == ops' = [ops EXCEPT ![w][i] = o]

(* Op j of worker v has a copy out of slot s on its stream.                *)
Reading(v, j, s) ==
  LET o == ops[v][j] IN
  \/ /\ o.cmd = "READ" /\ o.dma = 1 /\ o.err = "ok" /\ o.grain = s
     /\ \/ pc[v] = "sync"
        \/ pc[v] \in {"issue", "again", "againIssue"} /\ j < cur[v]
        \/ pc[v] = "lockedCopy" /\ j = cur[v]
  \/ pc[v] = "rmwMerge" /\ j = cur[v] /\ old[v].clen # 0 /\ old[v].grain = s

(* Copies into the slots S race with the copies out of them.               *)
Tear(S) ==
  cstage' = [v \in Workers |-> [j \in Idx |->
              IF \E s \in S : Reading(v, j, s) THEN Torn ELSE cstage[v][j]]]

(* The results of synchronizes are not looked at.  One that failed leaves  *)
(* the copies of its stream undone: what a read finds in its staging slot  *)
(* is then what was there before.                                          *)
Staged(w, i) == {cstage[w][i]} \cup (IF "sync" \in Faults THEN {Torn} ELSE {})

LoseReads(w) ==
  /\ "sync" \in Faults
  /\ cstage' = [cstage EXCEPT ![w] = [j \in Idx |->
                 IF ops[w][j].cmd = "READ" THEN Torn ELSE cstage[w][j]]]

(* Block b starts to hold page p: history of the reads in progress.        *)
Saw(b, p) ==
  seen' = [v \in Workers |-> [j \in Idx |->
            IF ops[v][j].cmd = "READ" /\ ops[v][j].blk = b /\ ops[v][j].dma # 2
            THEN seen[v][j] \cup {p} ELSE seen[v][j]]]

(* Op j of worker v holds a snapshot it has yet to validate.               *)
InWindow(v, j) ==
  LET o == ops[v][j] IN
  /\ pc[v] \in {"prepare", "abort", "issue", "sync", "finish", "again", "againIssue"}
  /\ o.cmd = "READ" /\ o.dma = 1 /\ o.err = "ok"

(***************************************************************************)
(* The timing assumption the generation rests on: block b is not published *)
(* so often inside the window of one lock-free read (snapshot to           *)
(* validation) that its generation comes round to the one in the snapshot. *)
(***************************************************************************)
NoWrapInWindow(b) ==
  \A v \in Workers, j \in Idx :
    InWindow(v, j) /\ ops[v][j].blk = b
      => (index[b].gen + 1) % GenMod # ops[v][j].ent.gen

Unlocked(b) == lock[IDXL[b]] = NoWorker

-----------------------------------------------------------------------------
(* Jobs: a request, or a batch of them, arrives, runs piece by piece, and  *)
(* is answered.                                                            *)

Admit(w, job) ==
  /\ pc[w] = "idle"
  /\ Goto(w, "piece", 1)
  /\ via' = [via EXCEPT ![w] = job.via]
  /\ todo' = [todo EXCEPT ![w] = job.pieces]
  /\ UNCHANGED <<shared, round, ops, cstage, old, rerr, seen>>

(* A chunk to write is drained from the socket, not stored, once an earlier *)
(* one failed; a read stops at the first piece that fails.                 *)
Stopped(w) == todo[w] # <<>> => Head(todo[w]).skip = 1 /\ rerr[w][1] # "ok"

FirstLabel(cmd) ==
  IF cmd = "TRIM" THEN "trim" ELSE IF cmd = "RMW" THEN "rmw" ELSE "prepare"

StartPiece(w) ==
  /\ pc[w] = "piece"
  /\ ~Stopped(w)
  /\ LET asks == Head(todo[w]).asks IN
     /\ Goto(w, FirstLabel(asks[1].cmd), 1)
     /\ ops' = [ops EXCEPT ![w] = [i \in Idx |-> blkop_set(asks[i])]]
     /\ seen' = [seen EXCEPT ![w] =
                   [i \in Idx |-> IF asks[i].cmd = "READ"
                                  THEN {Contents(asks[i].blk)} ELSE {}]]
  /\ todo' = [todo EXCEPT ![w] = Tail(@)]
  /\ round' = [round EXCEPT ![w] = 0]
  /\ UNCHANGED <<shared, via, cstage, old, rerr>>

(* A request's error: EIO of one of its ops wins over any other.           *)
Worst(w, r) ==
  LET E == {ops[w][i].err : i \in {j \in Idx : ops[w][j].req = r}} \cup {rerr[w][r]}
  IN  IF "EIO" \in E THEN "EIO" ELSE IF "ENOSPC" \in E THEN "ENOSPC" ELSE "ok"

Collect(w) == rerr' = [rerr EXCEPT ![w] = [r \in Idx |-> Worst(w, r)]]

(* The replies: what the ops array held is dead from here on.              *)
Reply(w) ==
  /\ pc[w] = "piece"
  /\ Stopped(w)
  /\ Goto(w, "idle", 1)
  /\ via' = [via EXCEPT ![w] = "one"]
  /\ todo' = [todo EXCEPT ![w] = <<>>]
  /\ round' = [round EXCEPT ![w] = 0]
  /\ ops' = [ops EXCEPT ![w] = [i \in Idx |-> blkop_set(NoAsk)]]
  /\ cstage' = [cstage EXCEPT ![w] = [i \in Idx |-> Torn]]
  /\ rerr' = [rerr EXCEPT ![w] = [i \in Idx |-> "ok"]]
  /\ seen' = [seen EXCEPT ![w] = [i \in Idx |-> {}]]
  /\ UNCHANGED <<shared, old>>

-----------------------------------------------------------------------------
(* Phase A: reserve a slot for each write, snapshot the entry of each read. *)

(* A variant that leaves the slot it takes in the pool.                    *)
wr_prepare_shared(w, i) ==
  /\ Turn(w, "prepare", i)
  /\ ops[w][i].cmd = "WRITE"
  /\ cstage' = [cstage EXCEPT ![w][i] = comp_block(ops[w][i].page)]
  /\ \E s \in free : SetOp(w, i, Reserved(ops[w][i], s))
  /\ Goto(w, "prepare", i + 1)
  /\ UNCHANGED <<shared, round, via, todo, old, rerr, seen>>

wr_prepare(w, i) ==
  /\ Turn(w, "prepare", i)
  /\ ops[w][i].cmd = "WRITE"
  /\ cstage' = [cstage EXCEPT ![w][i] = comp_block(ops[w][i].page)]
  /\ \/ \E s \in free :
          /\ SetOp(w, i, Reserved(ops[w][i], s))
          /\ free' = free \ {s}
     \/ /\ SetOp(w, i, Refused(ops[w][i], "ENOSPC"))
        /\ UNCHANGED free
  /\ Goto(w, "prepare", i + 1)
  /\ UNCHANGED <<index, mem, lock, live, codec, round, via, todo, old, rerr, seen>>

Snapshot(o) ==
  LET e == index[o.blk] IN
  [o EXCEPT !.ent = e, !.grain = e.grain, !.dma = IF e.clen = 0 THEN 0 ELSE 1]

rd_prepare(w, i) ==
  /\ Turn(w, "prepare", i)
  /\ ops[w][i].cmd = "READ"
  /\ SetOp(w, i, Snapshot(ops[w][i]))
  /\ Goto(w, "prepare", i + 1)
  /\ UNCHANGED <<shared, round, via, todo, cstage, old, rerr, seen>>

(* A variant that never undoes the siblings of a failed op.                *)
EndPrepareNoAbort(w) ==
  /\ Over(w, "prepare")
  /\ Goto(w, "issue", 1)
  /\ UNCHANGED <<shared, round, via, todo, ops, cstage, old, rerr, seen>>

(* flush_batch undoes the siblings of a failed op; store_blocks does not.  *)
EndPrepare(w) ==
  /\ Over(w, "prepare")
  /\ Goto(w, IF via[w] = "batch" THEN "abort" ELSE "issue", 1)
  /\ UNCHANGED <<shared, round, via, todo, ops, cstage, old, rerr, seen>>

(* A variant that drops the reservation instead of giving it back.         *)
wr_abort_leak(w, i) ==
  /\ Turn(w, "abort", i)
  /\ SetOp(w, i, GivenBack(ops[w][i]))
  /\ Goto(w, "abort", i + 1)
  /\ UNCHANGED <<shared, round, via, todo, cstage, old, rerr, seen>>

wr_abort(w, i) ==
  /\ Turn(w, "abort", i)
  /\ free' = free \cup ({ops[w][i].grain} \ {SLOT_NONE})
  /\ SetOp(w, i, GivenBack(ops[w][i]))
  /\ Goto(w, "abort", i + 1)
  /\ UNCHANGED <<index, mem, lock, live, codec, round, via, todo, cstage, old, rerr, seen>>

EndAbort(w) ==
  /\ Over(w, "abort")
  /\ Goto(w, "issue", 1)
  /\ UNCHANGED <<shared, round, via, todo, ops, cstage, old, rerr, seen>>

-----------------------------------------------------------------------------
(* Phase B: launch every copy, then one synchronize for all of them.       *)

IssueRead(w, i) ==
  /\ Turn(w, "issue", i)
  /\ ops[w][i].cmd = "READ"
  /\ cstage' = [cstage EXCEPT ![w][i] = mem[ops[w][i].grain]]
  /\ Goto(w, "issue", i + 1)
  /\ UNCHANGED <<shared, round, via, todo, ops, old, rerr, seen>>

IssueWrite(w, i) ==
  /\ Turn(w, "issue", i)
  /\ ops[w][i].cmd = "WRITE"
  /\ mem' = [mem EXCEPT ![ops[w][i].grain] = Torn]
  /\ Tear({ops[w][i].grain})
  /\ Goto(w, "issue", i + 1)
  /\ UNCHANGED <<index, free, lock, live, codec, round, via, todo, ops, old, rerr, seen>>

(* The launch fails: the op is marked, its slot stays reserved.            *)
IssueFails(w, i) ==
  /\ Turn(w, "issue", i)
  /\ (IF ops[w][i].cmd = "READ" THEN "DtoH" ELSE "HtoD") \in Faults
  /\ SetOp(w, i, Refused(ops[w][i], "EIO"))
  /\ Goto(w, "issue", i + 1)
  /\ UNCHANGED <<shared, round, via, todo, cstage, old, rerr, seen>>

(* A variant that publishes without waiting for the copies.                *)
EndIssueNoSync(w) ==
  /\ Over(w, "issue")
  /\ Goto(w, "publish", 1)
  /\ UNCHANGED <<shared, round, via, todo, ops, cstage, old, rerr, seen>>

EndIssue(w) ==
  /\ Over(w, "issue")
  /\ Goto(w, "sync", 1)
  /\ UNCHANGED <<shared, round, via, todo, ops, cstage, old, rerr, seen>>

(* The ops whose copies into device memory are on the worker's stream.     *)
Writing(w) == {i \in Idx : /\ ops[w][i].cmd = "WRITE"
                           /\ ops[w][i].dma = 1
                           /\ ops[w][i].err = "ok"}

(* The copies land, or the synchronize fails.                              *)
Synchronize(w) ==
  /\ pc[w] = "sync"
  /\ \/ /\ mem' = [s \in Slots |->
                     IF \E i \in Writing(w) : ops[w][i].grain = s
                     THEN cstage[w][CHOOSE i \in Writing(w) : ops[w][i].grain = s]
                     ELSE mem[s]]
        /\ Tear({ops[w][i].grain : i \in Writing(w)})
     \/ LoseReads(w) /\ UNCHANGED mem
  /\ Goto(w, "finish", 1)
  /\ UNCHANGED <<index, free, lock, live, codec, round, via, todo, ops, old, rerr, seen>>

-----------------------------------------------------------------------------
(* Phase C, reads: validate the snapshot and decompress, up to Rounds      *)
(* times without the lock, then once under it.                             *)

Took(o, img, n) ==
  [o EXCEPT !.page = decomp_block(img, n), !.err = DecompErr(img, n),
            !.dma = IF DecompErr(img, n) = "ok" THEN 2 ELSE @]

(* A variant that does not compare the generations.                        *)
ValidatesNoGen(o) ==
  index[o.blk].grain = o.ent.grain /\ index[o.blk].clen = o.ent.clen

(* The validation: the entry is still the one the snapshot took.           *)
Validates(o) == index[o.blk] = o.ent

rd_finish(w, i) ==
  /\ Turn(w, "finish", i)
  /\ LET o == ops[w][i] IN
     \/ /\ o.ent.clen = 0
        /\ SetOp(w, i, Zeroed(o))
     \/ /\ o.ent.clen # 0
        /\ ~Validates(o)
        /\ UNCHANGED ops
     \/ /\ o.ent.clen # 0
        /\ Validates(o)
        /\ SetOp(w, i, Took(o, cstage[w][i], o.ent.clen))
  /\ Goto(w, "finish", i + 1)
  /\ UNCHANGED <<shared, round, via, todo, cstage, old, rerr, seen>>

EndFinish(w) ==
  /\ Over(w, "finish")
  /\ Goto(w, IF \E j \in Idx : Wants(w, "again", j) THEN "again" ELSE "publish", 1)
  /\ UNCHANGED <<shared, round, via, todo, ops, cstage, old, rerr, seen>>

(* A read that lost its race takes a new snapshot ...                      *)
Resnapshot(w, i) ==
  /\ Turn(w, "again", i)
  /\ SetOp(w, i, Snapshot(ops[w][i]))
  /\ IF index[ops[w][i].blk].clen = 0 THEN Goto(w, "again", i + 1)
                                       ELSE Goto(w, "againIssue", i)
  /\ UNCHANGED <<shared, round, via, todo, cstage, old, rerr, seen>>

(* ... and launches its copy.                                              *)
Reissue(w) ==
  /\ pc[w] = "againIssue"
  /\ LET i == cur[w] IN
     /\ \/ /\ cstage' = [cstage EXCEPT ![w][i] = mem[ops[w][i].grain]]
           /\ UNCHANGED ops
        \/ /\ "DtoH" \in Faults
           /\ SetOp(w, i, Refused(ops[w][i], "EIO"))
           /\ UNCHANGED cstage
     /\ Goto(w, "again", i + 1)
  /\ UNCHANGED <<shared, round, via, todo, old, rerr, seen>>

(* A variant that retries without a limit.                                 *)
EndAgainForever(w) ==
  /\ Over(w, "again")
  /\ Goto(w, "finish", 1)
  /\ UNCHANGED <<shared, round, via, todo, ops, cstage, old, rerr, seen>>

EndAgain(w) ==
  /\ Over(w, "again")
  /\ round' = [round EXCEPT ![w] = @ + 1]
  /\ LoseReads(w) \/ UNCHANGED cstage
  /\ Goto(w, IF round[w] + 1 = Rounds THEN "locked" ELSE "finish", 1)
  /\ UNCHANGED <<shared, via, todo, ops, old, rerr, seen>>

rd_block_locked(w, i) ==
  /\ Turn(w, "locked", i)
  /\ Unlocked(ops[w][i].blk)
  /\ lock' = [lock EXCEPT ![IDXL[ops[w][i].blk]] = w]
  /\ LET o == Snapshot(ops[w][i]) IN
     \/ /\ o.dma = 1
        /\ SetOp(w, i, o)
        /\ cstage' = [cstage EXCEPT ![w][i] = mem[o.grain]]
     \/ /\ o.dma = 0
        /\ SetOp(w, i, Zeroed(o))
        /\ UNCHANGED cstage
     \/ /\ o.dma = 1
        /\ "DtoH" \in Faults
        /\ SetOp(w, i, Failed(o, "EIO"))
        /\ UNCHANGED cstage
  /\ Goto(w, "lockedCopy", i)
  /\ UNCHANGED <<index, mem, free, live, codec, round, via, todo, old, rerr, seen>>

(* A read that has failed is never looked at again.                        *)
LockedDone(w) ==
  /\ pc[w] = "lockedCopy"
  /\ LET i == cur[w]
         o == ops[w][i] IN
     /\ \E img \in Staged(w, i) :
          SetOp(w, i, IF o.err = "ok" /\ o.dma = 1 THEN Took(o, img, o.ent.clen) ELSE o)
     /\ lock' = [lock EXCEPT ![IDXL[o.blk]] = NoWorker]
     /\ Goto(w, "locked", i + 1)
  /\ UNCHANGED <<index, mem, free, live, codec, round, via, todo, cstage, old, rerr, seen>>

EndLocked(w) ==
  /\ Over(w, "locked")
  /\ Goto(w, "publish", 1)
  /\ UNCHANGED <<shared, round, via, todo, ops, cstage, old, rerr, seen>>

-----------------------------------------------------------------------------
(* Phase C, writes: swap the entry in under the stripe lock; once the lock *)
(* is dropped, release the slot the entry displaced.                       *)

(* A new entry replaces e, the one the worker loaded, in block b.          *)
Install(w, b, e, grain, clen, page) ==
  /\ NoWrapInWindow(b)
  /\ old' = [old EXCEPT ![w] = e]
  /\ index' = [index EXCEPT ![b] = ent_make(grain, clen, e.gen + 1)]
  /\ Saw(b, page)

(* A variant that forgets the slot of a displaced entry.                   *)
DisplaceLeak(w, clen) ==
  /\ live' = live + (IF clen = 0 THEN 0 ELSE 1) - (IF old[w].clen = 0 THEN 0 ELSE 1)
  /\ codec' = codec + clen - old[w].clen
  /\ old' = [old EXCEPT ![w] = Unwritten]
  /\ UNCHANGED free

(* A variant that counts every write as a block that was unwritten.        *)
DisplaceMiscount(w, clen) ==
  /\ free' = IF old[w].clen = 0 THEN free ELSE free \cup {old[w].grain}
  /\ live' = live + (IF clen = 0 THEN -1 ELSE 1)
  /\ codec' = codec + clen - old[w].clen
  /\ old' = [old EXCEPT ![w] = Unwritten]

(* slot_free of a displaced entry, and the gauges for clen bytes replacing *)
(* its own.  The gauges are separate atomic adds in the code; only the     *)
(* statistics line reads them.                                             *)
Displace(w, clen) ==
  /\ free' = IF old[w].clen = 0 THEN free ELSE free \cup {old[w].grain}
  /\ live' = live + (IF clen = 0 THEN 0 ELSE 1) - (IF old[w].clen = 0 THEN 0 ELSE 1)
  /\ codec' = codec + clen - old[w].clen
  /\ old' = [old EXCEPT ![w] = Unwritten]

wr_publish(w, i) ==
  /\ Turn(w, "publish", i)
  /\ LET o == ops[w][i] IN
     /\ Unlocked(o.blk)
     /\ Install(w, o.blk, index[o.blk], o.grain, cstage[w][i].n, cstage[w][i].page)
     /\ SetOp(w, i, Done(o))
  /\ Goto(w, "release", i)
  /\ UNCHANGED <<mem, free, lock, live, codec, round, via, todo, cstage, rerr>>

wr_release(w) ==
  /\ pc[w] = "release"
  /\ Displace(w, cstage[w][cur[w]].n)
  /\ Goto(w, "publish", cur[w] + 1)
  /\ UNCHANGED <<index, mem, lock, round, via, todo, ops, cstage, rerr, seen>>

EndPublish(w) ==
  /\ Over(w, "publish")
  /\ Collect(w)
  /\ Goto(w, "piece", 1)
  /\ UNCHANGED <<shared, round, via, todo, ops, cstage, old, seen>>

-----------------------------------------------------------------------------
(* trim_range, block by block: an unlocked check, then the entry cleared   *)
(* under the lock if it still holds something, then the slot released.     *)

TrimCheck(w, i) ==
  /\ Turn(w, "trim", i)
  /\ IF index[ops[w][i].blk].clen = 0
     THEN /\ SetOp(w, i, Done(ops[w][i]))
          /\ Goto(w, "trim", i + 1)
     ELSE /\ Goto(w, "trimLock", i)
          /\ UNCHANGED ops
  /\ UNCHANGED <<shared, round, via, todo, cstage, old, rerr, seen>>

TrimLock(w) ==
  /\ pc[w] = "trimLock"
  /\ LET o == ops[w][cur[w]] IN
     /\ Unlocked(o.blk)
     /\ IF index[o.blk].clen # 0
        THEN Install(w, o.blk, index[o.blk], SLOT_NONE, 0, ZeroPage)
        ELSE old' = [old EXCEPT ![w] = index[o.blk]] /\ UNCHANGED <<index, seen>>
     /\ SetOp(w, cur[w], Done(o))
  /\ Goto(w, "trimRelease", cur[w])
  /\ UNCHANGED <<mem, free, lock, live, codec, round, via, todo, cstage, rerr>>

TrimRelease(w) ==
  /\ pc[w] = "trimRelease"
  /\ Displace(w, 0)
  /\ Goto(w, "trim", cur[w] + 1)
  /\ UNCHANGED <<index, mem, lock, round, via, todo, ops, cstage, rerr, seen>>

EndTrim(w) ==
  /\ Over(w, "trim")
  /\ Goto(w, "piece", 1)
  /\ UNCHANGED <<shared, round, via, todo, ops, cstage, old, rerr, seen>>

-----------------------------------------------------------------------------
(* rmw_block: everything from the load of the entry to the release of the  *)
(* displaced slot happens under the block's stripe lock.                   *)

RmwLock(w, i) ==
  /\ Turn(w, "rmw", i)
  /\ Unlocked(ops[w][i].blk)
  /\ lock' = [lock EXCEPT ![IDXL[ops[w][i].blk]] = w]
  /\ LET e == index[ops[w][i].blk] IN
     \/ /\ old' = [old EXCEPT ![w] = e]
        /\ cstage' = IF e.clen = 0 THEN cstage
                     ELSE [cstage EXCEPT ![w][i] = mem[e.grain]]
        /\ Goto(w, "rmwMerge", i)
        /\ UNCHANGED ops
     \/ /\ e.clen # 0
        /\ "DtoH" \in Faults
        /\ SetOp(w, i, Failed(ops[w][i], "EIO"))
        /\ Goto(w, "rmwOut", i)
        /\ UNCHANGED <<old, cstage>>
  /\ UNCHANGED <<index, mem, free, live, codec, round, via, todo, rerr, seen>>

(* Decompress, patch, compress and reserve.                                *)
RmwMerge(w) ==
  /\ pc[w] = "rmwMerge"
  /\ \E img \in Staged(w, cur[w]) :
     LET i    == cur[w]
         o    == ops[w][i]
         e    == old[w]
         base == IF e.clen = 0 THEN ZeroPage ELSE decomp_block(img, e.clen)
         bad  == e.clen # 0 /\ DecompErr(img, e.clen) # "ok"
         page == Merge(base, o.page, o.part) IN
     \/ \E s \in free :
          /\ ~bad
          /\ SetOp(w, i, Holding(o, s))
          /\ cstage' = [cstage EXCEPT ![w][i] = comp_block(page)]
          /\ free' = free \ {s}
          /\ Goto(w, "rmwCopy", i)
          /\ UNCHANGED old
     \/ /\ SetOp(w, i, Failed(o, IF bad THEN "EIO" ELSE "ENOSPC"))
        /\ old' = [old EXCEPT ![w] = Unwritten]
        /\ Goto(w, "rmwOut", i)
        /\ UNCHANGED <<free, cstage>>
  /\ UNCHANGED <<index, mem, lock, live, codec, round, via, todo, rerr, seen>>

RmwCopy(w) ==
  /\ pc[w] = "rmwCopy"
  /\ LET i == cur[w]
         o == ops[w][i] IN
     \/ /\ mem' = [mem EXCEPT ![o.grain] = Torn]
        /\ Tear({o.grain})
        /\ Goto(w, "rmwStore", i)
        /\ UNCHANGED <<free, ops, old>>
     \/ /\ "HtoD" \in Faults
        /\ free' = free \cup {o.grain}
        /\ SetOp(w, i, Failed(GivenBack(o), "EIO"))
        /\ old' = [old EXCEPT ![w] = Unwritten]
        /\ Goto(w, "rmwOut", i)
        /\ UNCHANGED <<mem, cstage>>
  /\ UNCHANGED <<index, lock, live, codec, round, via, todo, rerr, seen>>

(* The copy lands and the entry is replaced.                               *)
RmwStore(w) ==
  /\ pc[w] = "rmwStore"
  /\ LET i == cur[w]
         o == ops[w][i] IN
     /\ \/ mem' = [mem EXCEPT ![o.grain] = cstage[w][i]]
        \/ "sync" \in Faults /\ UNCHANGED mem
     /\ Tear({o.grain})
     /\ Install(w, o.blk, old[w], o.grain, cstage[w][i].n, cstage[w][i].page)
     /\ SetOp(w, i, Done(o))
     /\ Goto(w, "rmwRelease", i)
  /\ UNCHANGED <<free, lock, live, codec, round, via, todo, rerr>>

RmwRelease(w) ==
  /\ pc[w] = "rmwRelease"
  /\ Displace(w, cstage[w][cur[w]].n)
  /\ Goto(w, "rmwOut", cur[w])
  /\ UNCHANGED <<index, mem, lock, round, via, todo, ops, cstage, rerr, seen>>

(* A variant that unlocks only after a success.                            *)
RmwOutHeld(w) ==
  /\ pc[w] = "rmwOut"
  /\ lock' = IF ops[w][cur[w]].err # "ok" THEN lock
             ELSE [lock EXCEPT ![IDXL[ops[w][cur[w]].blk]] = NoWorker]
  /\ Collect(w)
  /\ Goto(w, "piece", 1)
  /\ UNCHANGED <<index, mem, free, live, codec, round, via, todo, ops, cstage, old, seen>>

RmwOut(w) ==
  /\ pc[w] = "rmwOut"
  /\ lock' = [lock EXCEPT ![IDXL[ops[w][cur[w]].blk]] = NoWorker]
  /\ Collect(w)
  /\ Goto(w, "piece", 1)
  /\ UNCHANGED <<index, mem, free, live, codec, round, via, todo, ops, cstage, old, seen>>

-----------------------------------------------------------------------------
Batch(w) ==
  \/ \E i \in Idx : \/ wr_prepare(w, i) \/ rd_prepare(w, i) \/ wr_abort(w, i)
                    \/ IssueRead(w, i) \/ IssueWrite(w, i) \/ IssueFails(w, i)
                    \/ rd_finish(w, i) \/ Resnapshot(w, i)
                    \/ rd_block_locked(w, i) \/ wr_publish(w, i)
  \/ EndPrepare(w) \/ EndAbort(w) \/ EndIssue(w) \/ Synchronize(w)
  \/ EndFinish(w) \/ Reissue(w) \/ EndAgain(w) \/ LockedDone(w) \/ EndLocked(w)
  \/ wr_release(w) \/ EndPublish(w)

Trim(w) ==
  \/ \E i \in Idx : TrimCheck(w, i)
  \/ TrimLock(w) \/ TrimRelease(w) \/ EndTrim(w)

Rmw(w) ==
  \/ \E i \in Idx : RmwLock(w, i)
  \/ RmwMerge(w) \/ RmwCopy(w) \/ RmwStore(w) \/ RmwRelease(w) \/ RmwOut(w)

(* Every step of a worker but the wait for a request.                      *)
Work(w) == StartPiece(w) \/ Reply(w) \/ Batch(w) \/ Trim(w) \/ Rmw(w)

Next == \E w \in Workers : (\E job \in Jobs : Admit(w, job)) \/ Work(w)

Spec == Init /\ [][Next]_vars

(* A worker thread is scheduled as long as it can run; nothing makes a     *)
(* client send a request.                                                  *)
FairSpec == Spec /\ \A w \in Workers : WF_vars(Work(w))

-----------------------------------------------------------------------------
(* Properties.                                                             *)

(* A slot is owned by the entry that names it, by the op that reserved it  *)
(* and has not published it, or by the worker about to release it.         *)
IndexOwns(b, s) == index[b].clen # 0 /\ index[b].grain = s

OpOwns(w, i, s) ==
  /\ ops[w][i].cmd \in {"WRITE", "RMW"}
  /\ ops[w][i].dma # 2
  /\ ops[w][i].grain = s

DisplacedOwns(w, s) ==
  /\ pc[w] \in {"release", "trimRelease", "rmwRelease"}
  /\ old[w].clen # 0
  /\ old[w].grain = s

(* No slot is ever owned twice, and the allocator never holds a slot that  *)
(* has an owner: two racing writes each free exactly the slot they         *)
(* displaced (wr_publish, rmw_block, trim_range, wr_abort).                *)
SlotOwnership ==
  \A s \in Slots :
    /\ \A a, b \in Blocks : IndexOwns(a, s) /\ IndexOwns(b, s) => a = b
    /\ \A v, w \in Workers, i, j \in Idx :
         OpOwns(v, i, s) /\ OpOwns(w, j, s) => v = w /\ i = j
    /\ \A v, w \in Workers : DisplacedOwns(v, s) /\ DisplacedOwns(w, s) => v = w
    /\ \A b \in Blocks, w \in Workers : ~(IndexOwns(b, s) /\ DisplacedOwns(w, s))
    /\ \A b \in Blocks, w \in Workers, i \in Idx :
         ~(IndexOwns(b, s) /\ OpOwns(w, i, s))
    /\ \A v, w \in Workers, i \in Idx : ~(DisplacedOwns(v, s) /\ OpOwns(w, i, s))
    /\ s \in free =>
         /\ \A b \in Blocks : ~IndexOwns(b, s)
         /\ \A w \in Workers : ~DisplacedOwns(w, s)
         /\ \A w \in Workers, i \in Idx : ~OpOwns(w, i, s)

(* Every slot that is not free has an owner: a slot no entry names and no  *)
(* worker will release is lost for good (wr_abort, rmw_block's error       *)
(* paths, the slot_free calls after a publish).                            *)
NoSlotLost ==
  \A s \in Slots \ free :
    \/ \E b \in Blocks : IndexOwns(b, s)
    \/ \E w \in Workers : DisplacedOwns(w, s) \/ \E i \in Idx : OpOwns(w, i, s)

(* What an entry names is a whole image of the length it gives: no write   *)
(* is visible before its copy has landed, and no slot is overwritten while *)
(* an entry names it (do_blocks synchronizes before it publishes).         *)
PublishedIntact ==
  \A b \in Blocks : index[b].clen # 0 => Intact(mem[index[b].grain], index[b].clen)

(* A read that completes returns a page its block held at some moment      *)
(* since the request arrived: never another block's bytes and never bytes  *)
(* caught half-written, whatever was published, freed and reused while its *)
(* copy ran (rd_finish's validation, rd_block_locked).                     *)
ReadsOwnPage ==
  \A w \in Workers, i \in Idx :
    ops[w][i].cmd = "READ" /\ ops[w][i].dma = 2
      => ops[w][i].page \in seen[w][i] \ {Torn}

(* A stripe lock is held only by a worker inside the critical section of a *)
(* block of that stripe: no error path leaves rmw_block or rd_block_locked *)
(* with the lock taken, which would stop every later write to 1/4096 of    *)
(* the device.                                                             *)
LockDiscipline ==
  \A l \in Stripes : lock[l] # NoWorker =>
    /\ pc[lock[l]] \in {"lockedCopy", "rmwMerge", "rmwCopy", "rmwStore", "rmwRelease", "rmwOut"}
    /\ IDXL[ops[lock[l]][cur[lock[l]]].blk] = l

(* Every job is answered, however often other workers rewrite the blocks   *)
(* it reads: the lock-free rounds are bounded and the read under the lock  *)
(* cannot lose (do_blocks).                                                *)
EveryJobAnswered == \A w \in Workers : pc[w] # "idle" ~> pc[w] = "idle"

=============================================================================
