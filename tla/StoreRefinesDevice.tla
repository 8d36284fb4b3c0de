------------------------- MODULE StoreRefinesDevice -------------------------
(* The data path implements the block device: every block is a register.   *)
EXTENDS BlockStore

(* A prepared write that gave its reservation back is dropped.             *)
Aborted(w, i) ==
  /\ ops[w][i].cmd = "WRITE" /\ ops[w][i].err = "ok"
  /\ ops[w][i].grain = SLOT_NONE
  /\ pc[w] # "prepare"

StateOf(w, i) ==
  IF ops[w][i].err # "ok" THEN ops[w][i].err
  ELSE IF ops[w][i].dma = 2 THEN "done"
  ELSE IF Aborted(w, i) THEN "dropped" ELSE "todo"

Device == INSTANCE BlockDevice WITH
  Clients <- Workers,
  disk <- [b \in Blocks |-> Contents(b)],
  mode <- [w \in Workers |-> IF pc[w] = "idle" THEN "idle"
                             ELSE IF pc[w] = "piece" THEN "job" ELSE "run"],
  op <- [w \in Workers |-> [i \in Idx |->
           [cmd |-> ops[w][i].cmd, blk |-> ops[w][i].blk, page |-> ops[w][i].page,
            part |-> ops[w][i].part, req |-> ops[w][i].req, st |-> StateOf(w, i)]]],
  cand <- seen

(* The worker threads, with their lock-free reads, deferred publishes and  *)
(* slot reuse, implement a device whose blocks are registers: writes take  *)
(* effect once, before the reply, partial writes of disjoint parts both    *)
(* survive, reads return a page the block held while they were pending,    *)
(* and a batched request that met a full heap changed nothing              *)
(* (flush_batch, do_blocks, rmw_block, trim_range).                        *)
ImplementsDevice == Device!Spec

=============================================================================
